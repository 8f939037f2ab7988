--------------------------- MODULE SchedulerProofs ---------------------------
(***************************************************************************)
(* When runs start and what they fetch: the safety properties of Scheduler *)
(* for any calendar, schedule and number of user runs, and whatever may    *)
(* fail; then those of FanOut.                                             *)
(*                                                                         *)
(* The planner decides on a view that is out of date when it is used.      *)
(* ViewInv says in which direction: rows and notes only grow, so what the  *)
(* view claims is still so, and it misses no row of the task's own.        *)
(***************************************************************************)
EXTENDS Scheduler, FanOut, SequenceTheorems, TLAPS

\* A caller waits for a run exactly while it is at "run".
RunInv ==
    /\ run["tick"] # None <=> tickPc = "run"
    /\ run["batch"] # None <=> batchPc = "run"
    /\ tickPc = "run" => /\ run["tick"].trigger = Head(todo).trigger
                         /\ run["tick"].date = Head(todo).date
    /\ \A c \in Callers \ {"tick"} :
          run[c] # None => run[c].trigger \in {"User", "CatchUp"}

\* A pass of the task is for a day that has begun, a final pass for one that is
\* over, when it is planned and so when it starts.
PassOn(trigger, date, day) ==
    /\ trigger = "FinalPass" => date < day
    /\ trigger = "InDay" => date <= day

ClockInv ==
    /\ \A i \in 1..Len(todo) : PassOn(todo[i].trigger, todo[i].date, today)
    /\ \A c \in Callers : run[c] # None =>
          /\ PassOn(run[c].trigger, run[c].date, run[c].started)
          /\ run[c].started <= today
    /\ \A r \in rows : PassOn(r.trigger, r.date, r.started) /\ r.started <= today

\* No pass of the plan has completed before, save the one being saved.
PassInv ==
    /\ \A i, j \in 1..Len(todo) : todo[i].trigger = todo[j].trigger => i = j
    /\ \A i \in 1..Len(todo), r \in rows :
          r.trigger = todo[i].trigger /\ r.date = todo[i].date
             => i = 1 /\ tickPc = "save"

\* What the view claims is so, and no row of the task is missing from it.
ViewInv ==
    /\ tickPc \in {"idle", "scan", "plan"} => todo = <<>> /\ missed = {}
    /\ tickPc \in {"scan", "plan"} =>
          /\ \A d \in Days :
                /\ view[d] = "final" =>
                      \E r \in rows : r.trigger = "FinalPass" /\ r.started = d + 1
                /\ view[d] = "inDay" =>
                      \/ d \in notes
                      \/ \E r \in rows : r.trigger # "FinalPass" /\ r.started = d
          /\ \A r \in rows, d \in Days :
                /\ r.trigger = "FinalPass" /\ r.started = d + 1 => view[d] = "final"
                /\ r.trigger = "InDay" /\ r.started = d => view[d] # "none"

\* A tick that found a user run registered has planned no run.
DeferInv == respected # {} => todo = <<>>

IInv ==
    TypeOK /\ RunInv /\ ClockInv /\ PassInv /\ ViewInv /\ DeferInv

(***************************************************************************)
(* The plan                                                                *)
(***************************************************************************)

\* Every element of the plan is a pass, its head and its tail included.
LEMMA PlanIsOfPasses ==
    ASSUME TypeOK
    PROVE  /\ \A i \in 1..Len(todo) : todo[i] \in Pass
           /\ todo # <<>> => /\ 1 \in 1..Len(todo) /\ Head(todo) = todo[1]
                              /\ Head(todo) \in Pass
                              /\ Tail(todo) \in Seq(Pass)
                              /\ Len(Tail(todo)) = Len(todo) - 1
                              /\ \A i \in 1..Len(Tail(todo)) :
                                    /\ i + 1 \in 1..Len(todo)
                                    /\ Tail(todo)[i] = todo[i + 1]
BY DEF TypeOK

\* A plan has at most one run of each kind, yesterday's final pass first.
LEMMA PlanShape ==
    ASSUME TypeOK
    PROVE  /\ PlannedRuns \in Seq(Pass) /\ Len(PlannedRuns) <= 2
           /\ \A i \in 1..Len(PlannedRuns) :
                 \/ FinalPassDue /\ PlannedRuns[i] = [trigger |-> "FinalPass", date |-> today - 1]
                 \/ RunTodayDue /\ PlannedRuns[i] = [trigger |-> "InDay", date |-> today]
           /\ \A i, j \in 1..Len(PlannedRuns) :
                 PlannedRuns[i].trigger = PlannedRuns[j].trigger => i = j
           /\ FinalPassDue => \E i \in 1..Len(PlannedRuns) :
                 PlannedRuns[i] = [trigger |-> "FinalPass", date |-> today - 1]
<1> DEFINE f == [trigger |-> "FinalPass", date |-> today - 1]
           t == [trigger |-> "InDay", date |-> today]
<1>1. FinalPassDue => f \in Pass
  BY DaysAreNat, WorkDaysAreDays DEF TypeOK, FinalPassDue, Pass, Days
<1>2. t \in Pass
  BY DEF TypeOK, Pass
<1>3. f.trigger # t.trigger
  OBVIOUS
<1>4. CASE FinalPassDue /\ RunTodayDue
  <2>1. PlannedRuns = <<f>> \o <<t>>
    BY <1>4 DEF PlannedRuns
  <2>2. /\ PlannedRuns \in Seq(Pass) /\ Len(PlannedRuns) = 2
        /\ PlannedRuns[1] = f /\ PlannedRuns[2] = t
    <3> HIDE DEF f, t
    <3>1. <<f>> \in Seq(Pass) /\ <<t>> \in Seq(Pass)
      BY <1>1, <1>2, <1>4
    <3> QED
      BY <2>1, <3>1
  <2>3. 1..2 = {1, 2}
    OBVIOUS
  <2> QED
    BY <1>3, <1>4, <2>2, <2>3
<1>5. CASE FinalPassDue /\ ~RunTodayDue
  <2>1. PlannedRuns = <<f>>
    BY <1>5 DEF PlannedRuns
  <2> QED
    BY <1>1, <1>5, <2>1
<1>6. CASE ~FinalPassDue /\ RunTodayDue
  <2>1. PlannedRuns = <<t>>
    BY <1>6 DEF PlannedRuns
  <2> QED
    BY <1>2, <1>6, <2>1
<1>7. CASE ~FinalPassDue /\ ~RunTodayDue
  <2>1. PlannedRuns = <<>>
    BY <1>7 DEF PlannedRuns
  <2> QED
    BY <1>7, <2>1
<1> QED
  BY <1>4, <1>5, <1>6, <1>7

(***************************************************************************)
(* One step preserves each part of IInv                                    *)
(***************************************************************************)

\* What LeaveSlot and NextAction do to the types.
LEMMA LeaveSlotType ==
    ASSUME TypeOK, NEW c \in Callers, run[c] # None, LeaveSlot(c)
    PROVE  /\ run' \in [Callers -> Row \cup {None}]
           /\ inFlight' \in [Days -> Callers \cup {None}]
           /\ run[c] \in Row
<1>1. run[c] \in Row
  BY DEF TypeOK
<1> QED
  BY <1>1 DEF TypeOK, LeaveSlot, Row

LEMMA NextActionType ==
    ASSUME TypeOK, todo # <<>>, NextAction
    PROVE  todo' \in Seq(Pass) /\ Len(todo') <= 2
BY PlanIsOfPasses DEF TypeOK, NextAction

\* Every step keeps the type.
LEMMA TypeStep ==
    ASSUME TypeOK, RunInv, [Next]_vars  PROVE  TypeOK'
<1> USE DaysAreNat, WorkDaysAreDays, NoneIsNoCaller, NoneIsNoRow, UsersAreNoTasks
    DEF TypeOK, RunInv, Row, View, Pass, Days, Callers, Triggers, clock,
    storage, orchestrator, users, tickVars, catchUp
<1>1. CASE LoadRows
  BY <1>1 DEF LoadRows, FromSyncRuns, Empty
<1>2. CASE ScanSinkFiles
  BY <1>2 DEF ScanSinkFiles, AugmentWithSinkFiles
<1>3. CASE PlanActions
  <2>1. todo' \in Seq(Pass) /\ Len(todo') <= 2
    BY <1>3, PlanShape DEF PlanActions
  <2> QED
    BY <1>3, <2>1 DEF PlanActions, MissedDays
<1>4. CASE RefuseTickRun
  <2>1. todo' \in Seq(Pass) /\ Len(todo') <= 2
    BY <1>4, NextActionType DEF RefuseTickRun
  <2> QED
    BY <1>4, <2>1 DEF RefuseTickRun, NextAction
<1>5. CASE StartTickRun
  BY <1>5, PlanIsOfPasses DEF StartTickRun, StartRun
<1>6. CASE EndTickRun
  <2>1. run["tick"] # None /\ LeaveSlot("tick")
    BY <1>6 DEF EndTickRun, Completes, Fails
  <2>2. /\ run' \in [Callers -> Row \cup {None}]
        /\ inFlight' \in [Days -> Callers \cup {None}]
        /\ run["tick"] \in Row
    BY <2>1, LeaveSlotType
  <2>3. /\ todo' \in Seq(Pass) /\ Len(todo') <= 2
        /\ tickPc' \in {"save", "act"} /\ (tickPc' = "save" => todo' # <<>>)
    BY <1>6, NextActionType DEF EndTickRun, NextAction
  <2>4. rows' \subseteq Row /\ notes' = notes
    BY <1>6, <2>2 DEF EndTickRun, Completes, Fails
  <2> QED
    BY <1>6, <2>2, <2>3, <2>4 DEF EndTickRun
<1>7. CASE SaveTickRun
  <2>1. todo' \in Seq(Pass) /\ Len(todo') <= 2
    BY <1>7, NextActionType DEF SaveTickRun
  <2>2. Head(todo) \in Pass
    BY <1>7, PlanIsOfPasses DEF SaveTickRun
  <2>3. notes' \subseteq Days
    BY <1>7, <2>2 DEF SaveTickRun
  <2> QED
    BY <1>7, <2>1, <2>3 DEF SaveTickRun, NextAction
<1>8. CASE EndTick
  BY <1>8 DEF EndTick, Empty
<1>9. CASE ConfirmCatchUp
  BY <1>9 DEF ConfirmCatchUp
<1>10. CASE SkipCatchUp
  BY <1>10 DEF SkipCatchUp
<1>11. CASE RefuseBatchRun
  BY <1>11 DEF RefuseBatchRun
<1>12. ASSUME NEW d \in batch, StartBatchRun(d)  PROVE  TypeOK'
  BY <1>12 DEF StartBatchRun, StartRun, IsOldest
<1>13. ASSUME NEW d \in batch, EndBatchRun(d)  PROVE  TypeOK'
  <2>1. run["batch"] # None /\ LeaveSlot("batch")
    BY <1>13 DEF EndBatchRun, Completes, Fails
  <2>2. /\ run' \in [Callers -> Row \cup {None}]
        /\ inFlight' \in [Days -> Callers \cup {None}]
        /\ run["batch"] \in Row
    BY <2>1, LeaveSlotType
  <2>3. rows' \subseteq Row /\ notes' = notes
    BY <1>13, <2>2 DEF EndBatchRun, Completes, Fails
  <2> QED
    BY <1>13, <2>2, <2>3 DEF EndBatchRun, NextDate, IsOldest
<1>14. ASSUME NEW d \in batch, SaveBatchRun(d)  PROVE  TypeOK'
  BY <1>14 DEF SaveBatchRun, NextDate, IsOldest
<1>15. CASE EndBatch
  BY <1>15 DEF EndBatch
<1>16. ASSUME NEW u \in UserRuns, NEW d \in Days, GenerateReport(u, d)  PROVE  TypeOK'
  BY <1>16 DEF GenerateReport, StartRun
<1>17. ASSUME NEW u \in UserRuns, RegisterRun(u)  PROVE  TypeOK'
  BY <1>17 DEF RegisterRun
<1>18. ASSUME NEW u \in UserRuns, EndUserRun(u)  PROVE  TypeOK'
  <2>1. run[u] # None /\ LeaveSlot(u)
    BY <1>18 DEF EndUserRun, Completes, Fails
  <2>2. /\ run' \in [Callers -> Row \cup {None}]
        /\ inFlight' \in [Days -> Callers \cup {None}]
        /\ run[u] \in Row
    BY <2>1, LeaveSlotType
  <2>3. rows' \subseteq Row /\ notes' = notes
    BY <1>18, <2>2 DEF EndUserRun, Completes, Fails
  <2> QED
    BY <1>18, <2>2, <2>3 DEF EndUserRun
<1>19. ASSUME NEW u \in UserRuns, Reap(u)  PROVE  TypeOK'
  BY <1>19 DEF Reap
<1>20. ASSUME NEW r \in rows, SaveReport(r)  PROVE  TypeOK'
  BY <1>20 DEF SaveReport
<1>21. CASE Advance
  BY <1>21 DEF Advance
<1>22. CASE Restart
  BY <1>22 DEF Restart, Empty
<1>23. CASE UNCHANGED vars
  BY <1>23 DEF vars
<1> QED
  BY <1>1, <1>2, <1>3, <1>4, <1>5, <1>6, <1>7, <1>8, <1>9, <1>10, <1>11,
     <1>12, <1>13, <1>14, <1>15, <1>16, <1>17, <1>18, <1>19, <1>20, <1>21,
     <1>22, <1>23 DEF Next, Tick, Batch

\* RunInv: only StartRun and LeaveSlot change what a caller waits for.
LEMMA RunStep ==
    ASSUME TypeOK, RunInv, ViewInv, [Next]_vars  PROVE  RunInv'
<1> USE DaysAreNat, WorkDaysAreDays, NoneIsNoCaller, NoneIsNoRow, UsersAreNoTasks
    DEF TypeOK, RunInv, ViewInv, Row, Pass, Callers, Triggers, clock, storage,
    orchestrator, users, tickVars, catchUp
<1>1. CASE LoadRows
  BY <1>1 DEF LoadRows, FromSyncRuns, Empty
<1>2. CASE ScanSinkFiles
  BY <1>2 DEF ScanSinkFiles, AugmentWithSinkFiles
<1>3. CASE PlanActions
  BY <1>3 DEF PlanActions
<1>4. CASE RefuseTickRun
  BY <1>4 DEF RefuseTickRun, NextAction
<1>5. CASE StartTickRun
  BY <1>5, PlanIsOfPasses DEF StartTickRun, StartRun
<1>6. CASE EndTickRun
  BY <1>6 DEF EndTickRun, Completes, Fails, LeaveSlot, NextAction
<1>7. CASE SaveTickRun
  BY <1>7 DEF SaveTickRun, NextAction
<1>8. CASE EndTick
  BY <1>8 DEF EndTick, Empty
<1>9. CASE ConfirmCatchUp
  BY <1>9 DEF ConfirmCatchUp
<1>10. CASE SkipCatchUp
  BY <1>10 DEF SkipCatchUp
<1>11. CASE RefuseBatchRun
  BY <1>11 DEF RefuseBatchRun
<1>12. ASSUME NEW d \in batch, StartBatchRun(d)  PROVE  RunInv'
  BY <1>12 DEF StartBatchRun, StartRun, IsOldest
<1>13. ASSUME NEW d \in batch, EndBatchRun(d)  PROVE  RunInv'
  BY <1>13 DEF EndBatchRun, Completes, Fails, LeaveSlot, NextDate, IsOldest
<1>14. ASSUME NEW d \in batch, SaveBatchRun(d)  PROVE  RunInv'
  BY <1>14 DEF SaveBatchRun, NextDate, IsOldest
<1>15. CASE EndBatch
  BY <1>15 DEF EndBatch
<1>16. ASSUME NEW u \in UserRuns, NEW d \in Days, GenerateReport(u, d)  PROVE  RunInv'
  BY <1>16 DEF GenerateReport, StartRun
<1>17. ASSUME NEW u \in UserRuns, RegisterRun(u)  PROVE  RunInv'
  BY <1>17 DEF RegisterRun
<1>18. ASSUME NEW u \in UserRuns, EndUserRun(u)  PROVE  RunInv'
  BY <1>18 DEF EndUserRun, Completes, Fails, LeaveSlot
<1>19. ASSUME NEW u \in UserRuns, Reap(u)  PROVE  RunInv'
  BY <1>19 DEF Reap
<1>20. ASSUME NEW r \in rows, SaveReport(r)  PROVE  RunInv'
  BY <1>20 DEF SaveReport
<1>21. CASE Advance
  BY <1>21 DEF Advance
<1>22. CASE Restart
  BY <1>22 DEF Restart, Empty
<1>23. CASE UNCHANGED vars
  BY <1>23 DEF vars
<1> QED
  BY <1>1, <1>2, <1>3, <1>4, <1>5, <1>6, <1>7, <1>8, <1>9, <1>10, <1>11,
     <1>12, <1>13, <1>14, <1>15, <1>16, <1>17, <1>18, <1>19, <1>20, <1>21,
     <1>22, <1>23 DEF Next, Tick, Batch

\* ClockInv: the clock only moves on.
LEMMA ClockStep ==
    ASSUME TypeOK, RunInv, ClockInv, [Next]_vars  PROVE  ClockInv'
<1> USE DaysAreNat, WorkDaysAreDays, NoneIsNoCaller, NoneIsNoRow, UsersAreNoTasks,
    PlanIsOfPasses DEF TypeOK, RunInv, ClockInv, PassOn, Row, Pass, Callers,
    Days, clock, storage, orchestrator, users, tickVars, catchUp
<1>1. CASE LoadRows
  BY <1>1 DEF LoadRows, FromSyncRuns, Empty
<1>2. CASE ScanSinkFiles
  BY <1>2 DEF ScanSinkFiles, AugmentWithSinkFiles
<1>3. CASE PlanActions
  <2> SUFFICES ASSUME NEW i \in 1..Len(PlannedRuns)
               PROVE  PassOn(PlannedRuns[i].trigger, PlannedRuns[i].date, today)
    BY <1>3 DEF PlanActions
  <2>1. CASE PlannedRuns[i] = [trigger |-> "FinalPass", date |-> today - 1]
    BY <2>1
  <2>2. CASE PlannedRuns[i] = [trigger |-> "InDay", date |-> today]
    BY <2>2
  <2> QED
    BY <2>1, <2>2, PlanShape
<1>4. CASE RefuseTickRun
  BY <1>4 DEF RefuseTickRun, NextAction
<1>5. CASE StartTickRun
  BY <1>5 DEF StartTickRun, StartRun
<1>6. CASE EndTickRun
  <2>1. run["tick"] \in Row /\ LeaveSlot("tick")
    BY <1>6 DEF EndTickRun, Completes, Fails
  <2>2. \A i \in 1..Len(todo') : PassOn(todo'[i].trigger, todo'[i].date, today)
    <3>1. CASE todo' = todo
      BY <3>1
    <3>2. CASE todo' = Tail(todo)
      <4>1. \A i \in 1..Len(Tail(todo)) :
              i + 1 \in 1..Len(todo) /\ Tail(todo)[i] = todo[i + 1]
        BY <1>6, PlanIsOfPasses DEF EndTickRun
      <4> QED
        BY <3>2, <4>1
    <3> QED
      BY <1>6, <3>1, <3>2 DEF EndTickRun, NextAction
  <2>3. \A c \in Callers : run'[c] # None => run'[c] = run[c]
    BY <2>1 DEF LeaveSlot
  <2>4. \A r \in rows' : r \in rows \/ r = run["tick"]
    BY <1>6 DEF EndTickRun, Completes, Fails
  <2>5. today' = today
    BY <1>6 DEF EndTickRun
  <2> QED
    BY <1>6, <2>1, <2>2, <2>3, <2>4, <2>5 DEF EndTickRun
<1>7. CASE SaveTickRun
  BY <1>7 DEF SaveTickRun, NextAction
<1>8. CASE EndTick
  BY <1>8 DEF EndTick, Empty
<1>9. CASE ConfirmCatchUp
  BY <1>9 DEF ConfirmCatchUp
<1>10. CASE SkipCatchUp
  BY <1>10 DEF SkipCatchUp
<1>11. CASE RefuseBatchRun
  BY <1>11 DEF RefuseBatchRun
<1>12. ASSUME NEW d \in batch, StartBatchRun(d)  PROVE  ClockInv'
  BY <1>12 DEF StartBatchRun, StartRun, IsOldest
<1>13. ASSUME NEW d \in batch, EndBatchRun(d)  PROVE  ClockInv'
  BY <1>13 DEF EndBatchRun, Completes, Fails, LeaveSlot, NextDate, IsOldest
<1>14. ASSUME NEW d \in batch, SaveBatchRun(d)  PROVE  ClockInv'
  BY <1>14 DEF SaveBatchRun, NextDate, IsOldest
<1>15. CASE EndBatch
  BY <1>15 DEF EndBatch
<1>16. ASSUME NEW u \in UserRuns, NEW d \in Days, GenerateReport(u, d)  PROVE  ClockInv'
  BY <1>16 DEF GenerateReport, StartRun
<1>17. ASSUME NEW u \in UserRuns, RegisterRun(u)  PROVE  ClockInv'
  BY <1>17 DEF RegisterRun
<1>18. ASSUME NEW u \in UserRuns, EndUserRun(u)  PROVE  ClockInv'
  BY <1>18 DEF EndUserRun, Completes, Fails, LeaveSlot
<1>19. ASSUME NEW u \in UserRuns, Reap(u)  PROVE  ClockInv'
  BY <1>19 DEF Reap
<1>20. ASSUME NEW r \in rows, SaveReport(r)  PROVE  ClockInv'
  BY <1>20 DEF SaveReport
<1>21. CASE Advance
  BY <1>21 DEF Advance
<1>22. CASE Restart
  BY <1>22 DEF Restart, Empty
<1>23. CASE UNCHANGED vars
  BY <1>23 DEF vars
<1> QED
  BY <1>1, <1>2, <1>3, <1>4, <1>5, <1>6, <1>7, <1>8, <1>9, <1>10, <1>11,
     <1>12, <1>13, <1>14, <1>15, <1>16, <1>17, <1>18, <1>19, <1>20, <1>21,
     <1>22, <1>23 DEF Next, Tick, Batch

\* PassInv: the plan repeats nothing, because the view has every row of the task.
LEMMA PassStep ==
    ASSUME TypeOK, RunInv, ClockInv, PassInv, ViewInv, [Next]_vars  PROVE  PassInv'
<1> USE DaysAreNat, WorkDaysAreDays, NoneIsNoCaller, NoneIsNoRow, UsersAreNoTasks,
    PlanIsOfPasses DEF TypeOK, RunInv, PassInv, Row, Pass, Callers, clock,
    storage, orchestrator, users, tickVars, catchUp
<1>1. CASE LoadRows
  BY <1>1 DEF LoadRows, FromSyncRuns, Empty
<1>2. CASE ScanSinkFiles
  BY <1>2 DEF ScanSinkFiles, AugmentWithSinkFiles
<1>3. CASE PlanActions
  <2> SUFFICES ASSUME NEW i \in 1..Len(PlannedRuns), NEW r \in rows,
                      r.trigger = PlannedRuns[i].trigger,
                      r.date = PlannedRuns[i].date
               PROVE  FALSE
    BY <1>3, PlanShape DEF PlanActions
  <2>1. CASE FinalPassDue /\ r.trigger = "FinalPass" /\ r.date = today - 1
    BY <1>3, <2>1 DEF PlanActions, ViewInv, ClockInv, PassOn, FinalPassDue, Days
  <2>2. CASE RunTodayDue /\ r.trigger = "InDay" /\ r.date = today
    BY <1>3, <2>2 DEF PlanActions, ViewInv, ClockInv, PassOn, RunTodayDue, Days
  <2> QED
    BY <2>1, <2>2, PlanShape
<1>4. CASE RefuseTickRun
  BY <1>4 DEF RefuseTickRun, NextAction
<1>5. CASE StartTickRun
  BY <1>5 DEF StartTickRun, StartRun
<1>6. CASE EndTickRun
  BY <1>6 DEF EndTickRun, Completes, Fails, LeaveSlot, NextAction
<1>7. CASE SaveTickRun
  BY <1>7 DEF SaveTickRun, NextAction
<1>8. CASE EndTick
  BY <1>8 DEF EndTick, Empty
<1>9. CASE ConfirmCatchUp
  BY <1>9 DEF ConfirmCatchUp
<1>10. CASE SkipCatchUp
  BY <1>10 DEF SkipCatchUp
<1>11. CASE RefuseBatchRun
  BY <1>11 DEF RefuseBatchRun
<1>12. ASSUME NEW d \in batch, StartBatchRun(d)  PROVE  PassInv'
  BY <1>12 DEF StartBatchRun, StartRun, IsOldest
<1>13. ASSUME NEW d \in batch, EndBatchRun(d)  PROVE  PassInv'
  BY <1>13 DEF EndBatchRun, Completes, Fails, LeaveSlot, NextDate, IsOldest
<1>14. ASSUME NEW d \in batch, SaveBatchRun(d)  PROVE  PassInv'
  BY <1>14 DEF SaveBatchRun, NextDate, IsOldest
<1>15. CASE EndBatch
  BY <1>15 DEF EndBatch
<1>16. ASSUME NEW u \in UserRuns, NEW d \in Days, GenerateReport(u, d)  PROVE  PassInv'
  BY <1>16 DEF GenerateReport, StartRun
<1>17. ASSUME NEW u \in UserRuns, RegisterRun(u)  PROVE  PassInv'
  BY <1>17 DEF RegisterRun
<1>18. ASSUME NEW u \in UserRuns, EndUserRun(u)  PROVE  PassInv'
  BY <1>18 DEF EndUserRun, Completes, Fails, LeaveSlot
<1>19. ASSUME NEW u \in UserRuns, Reap(u)  PROVE  PassInv'
  BY <1>19 DEF Reap
<1>20. ASSUME NEW r \in rows, SaveReport(r)  PROVE  PassInv'
  BY <1>20 DEF SaveReport
<1>21. CASE Advance
  BY <1>21 DEF Advance
<1>22. CASE Restart
  BY <1>22 DEF Restart, Empty
<1>23. CASE UNCHANGED vars
  BY <1>23 DEF vars
<1> QED
  BY <1>1, <1>2, <1>3, <1>4, <1>5, <1>6, <1>7, <1>8, <1>9, <1>10, <1>11,
     <1>12, <1>13, <1>14, <1>15, <1>16, <1>17, <1>18, <1>19, <1>20, <1>21,
     <1>22, <1>23 DEF Next, Tick, Batch

\* ViewInv: rows and notes only grow, and no run of the task ends between its
\* reading the rows and its planning.
LEMMA ViewStep ==
    ASSUME TypeOK, RunInv, ViewInv, [Next]_vars  PROVE  ViewInv'
<1> USE DaysAreNat, WorkDaysAreDays, NoneIsNoCaller, NoneIsNoRow, UsersAreNoTasks
    DEF TypeOK, RunInv, ViewInv, Row, Callers, clock, storage, orchestrator,
    users, tickVars, catchUp
<1>1. CASE LoadRows
  BY <1>1 DEF LoadRows, FromSyncRuns, Empty
<1>2. CASE ScanSinkFiles
  BY <1>2 DEF ScanSinkFiles, AugmentWithSinkFiles
<1>3. CASE PlanActions
  BY <1>3 DEF PlanActions
<1>4. CASE RefuseTickRun
  BY <1>4 DEF RefuseTickRun, NextAction
<1>5. CASE StartTickRun
  BY <1>5 DEF StartTickRun, StartRun
<1>6. CASE EndTickRun
  BY <1>6 DEF EndTickRun, Completes, Fails, LeaveSlot, NextAction
<1>7. CASE SaveTickRun
  BY <1>7 DEF SaveTickRun, NextAction
<1>8. CASE EndTick
  BY <1>8 DEF EndTick, Empty
<1>9. CASE ConfirmCatchUp
  BY <1>9 DEF ConfirmCatchUp
<1>10. CASE SkipCatchUp
  BY <1>10 DEF SkipCatchUp
<1>11. CASE RefuseBatchRun
  BY <1>11 DEF RefuseBatchRun
<1>12. ASSUME NEW d \in batch, StartBatchRun(d)  PROVE  ViewInv'
  BY <1>12 DEF StartBatchRun, StartRun, IsOldest
<1>13. ASSUME NEW d \in batch, EndBatchRun(d)  PROVE  ViewInv'
  BY <1>13 DEF EndBatchRun, Completes, Fails, LeaveSlot, NextDate, IsOldest
<1>14. ASSUME NEW d \in batch, SaveBatchRun(d)  PROVE  ViewInv'
  BY <1>14 DEF SaveBatchRun, NextDate, IsOldest
<1>15. CASE EndBatch
  BY <1>15 DEF EndBatch
<1>16. ASSUME NEW u \in UserRuns, NEW d \in Days, GenerateReport(u, d)  PROVE  ViewInv'
  BY <1>16 DEF GenerateReport, StartRun
<1>17. ASSUME NEW u \in UserRuns, RegisterRun(u)  PROVE  ViewInv'
  BY <1>17 DEF RegisterRun
<1>18. ASSUME NEW u \in UserRuns, EndUserRun(u)  PROVE  ViewInv'
  BY <1>18 DEF EndUserRun, Completes, Fails, LeaveSlot
<1>19. ASSUME NEW u \in UserRuns, Reap(u)  PROVE  ViewInv'
  BY <1>19 DEF Reap
<1>20. ASSUME NEW r \in rows, SaveReport(r)  PROVE  ViewInv'
  BY <1>20 DEF SaveReport
<1>21. CASE Advance
  BY <1>21 DEF Advance
<1>22. CASE Restart
  BY <1>22 DEF Restart, Empty
<1>23. CASE UNCHANGED vars
  BY <1>23 DEF vars
<1> QED
  BY <1>1, <1>2, <1>3, <1>4, <1>5, <1>6, <1>7, <1>8, <1>9, <1>10, <1>11,
     <1>12, <1>13, <1>14, <1>15, <1>16, <1>17, <1>18, <1>19, <1>20, <1>21,
     <1>22, <1>23 DEF Next, Tick, Batch

\* DeferInv: the registry is read in the step that plans.
LEMMA DeferStep ==
    ASSUME TypeOK, ViewInv, DeferInv, [Next]_vars  PROVE  DeferInv'
<1> USE DEF TypeOK, ViewInv, DeferInv, clock, storage, orchestrator, users,
    tickVars, catchUp
<1>1. CASE LoadRows
  BY <1>1 DEF LoadRows, FromSyncRuns, Empty
<1>2. CASE ScanSinkFiles
  BY <1>2 DEF ScanSinkFiles, AugmentWithSinkFiles
<1>3. CASE PlanActions
  BY <1>3 DEF PlanActions, PlannedRuns, FinalPassDue, RunTodayDue, UserRunInFlight
<1>4. CASE RefuseTickRun
  BY <1>4 DEF RefuseTickRun, NextAction
<1>5. CASE StartTickRun
  BY <1>5 DEF StartTickRun, StartRun
<1>6. CASE EndTickRun
  BY <1>6 DEF EndTickRun, Completes, Fails, LeaveSlot, NextAction
<1>7. CASE SaveTickRun
  BY <1>7 DEF SaveTickRun, NextAction
<1>8. CASE EndTick
  BY <1>8 DEF EndTick, Empty
<1>9. CASE ConfirmCatchUp
  BY <1>9 DEF ConfirmCatchUp
<1>10. CASE SkipCatchUp
  BY <1>10 DEF SkipCatchUp
<1>11. CASE RefuseBatchRun
  BY <1>11 DEF RefuseBatchRun
<1>12. ASSUME NEW d \in batch, StartBatchRun(d)  PROVE  DeferInv'
  BY <1>12 DEF StartBatchRun, StartRun, IsOldest
<1>13. ASSUME NEW d \in batch, EndBatchRun(d)  PROVE  DeferInv'
  BY <1>13 DEF EndBatchRun, Completes, Fails, LeaveSlot, NextDate, IsOldest
<1>14. ASSUME NEW d \in batch, SaveBatchRun(d)  PROVE  DeferInv'
  BY <1>14 DEF SaveBatchRun, NextDate, IsOldest
<1>15. CASE EndBatch
  BY <1>15 DEF EndBatch
<1>16. ASSUME NEW u \in UserRuns, NEW d \in Days, GenerateReport(u, d)  PROVE  DeferInv'
  BY <1>16 DEF GenerateReport, StartRun
<1>17. ASSUME NEW u \in UserRuns, RegisterRun(u)  PROVE  DeferInv'
  BY <1>17 DEF RegisterRun
<1>18. ASSUME NEW u \in UserRuns, EndUserRun(u)  PROVE  DeferInv'
  BY <1>18 DEF EndUserRun, Completes, Fails, LeaveSlot
<1>19. ASSUME NEW u \in UserRuns, Reap(u)  PROVE  DeferInv'
  BY <1>19 DEF Reap
<1>20. ASSUME NEW r \in rows, SaveReport(r)  PROVE  DeferInv'
  BY <1>20 DEF SaveReport
<1>21. CASE Advance
  BY <1>21 DEF Advance
<1>22. CASE Restart
  BY <1>22 DEF Restart, Empty
<1>23. CASE UNCHANGED vars
  BY <1>23 DEF vars
<1> QED
  BY <1>1, <1>2, <1>3, <1>4, <1>5, <1>6, <1>7, <1>8, <1>9, <1>10, <1>11,
     <1>12, <1>13, <1>14, <1>15, <1>16, <1>17, <1>18, <1>19, <1>20, <1>21,
     <1>22, <1>23 DEF Next, Tick, Batch

(***************************************************************************)
(* Which action a step is                                                  *)
(***************************************************************************)

\* The task moves from planning to acting by PlanActions only.
LEMMA OnlyPlanActionsPlans ==
    ASSUME [Next]_vars, tickPc = "plan", tickPc' = "act"  PROVE  PlanActions
BY DEF Next, Tick, Batch, vars, tickVars, LoadRows, ScanSinkFiles,
   RefuseTickRun, StartTickRun, EndTickRun, SaveTickRun, EndTick, NextAction,
   ConfirmCatchUp, SkipCatchUp, RefuseBatchRun, StartBatchRun, EndBatchRun,
   SaveBatchRun, EndBatch, GenerateReport, RegisterRun, EndUserRun, Reap,
   SaveReport, Advance, Restart

\* The task starts a run by StartTickRun only.
LEMMA OnlyStartTickRunStarts ==
    ASSUME [Next]_vars, tickPc = "act", tickPc' = "run"  PROVE  StartTickRun
BY DEF Next, Tick, Batch, vars, tickVars, LoadRows, ScanSinkFiles, PlanActions,
   RefuseTickRun, EndTickRun, SaveTickRun, EndTick, NextAction,
   ConfirmCatchUp, SkipCatchUp, RefuseBatchRun, StartBatchRun, EndBatchRun,
   SaveBatchRun, EndBatch, GenerateReport, RegisterRun, EndUserRun, Reap,
   SaveReport, Advance, Restart

\* The task takes a slot by StartTickRun only.
LEMMA OnlyStartTickRunDisplaces ==
    ASSUME TypeOK, [Next]_vars, NEW day \in Days,
           inFlight'[day] = "tick", inFlight[day] # "tick"
    PROVE  StartTickRun
<1> USE NoneIsNoCaller, UsersAreNoTasks DEF TypeOK, Row, Callers, clock, storage,
    orchestrator, users, tickVars, catchUp
<1>1. CASE LoadRows
  BY <1>1 DEF LoadRows, FromSyncRuns, Empty
<1>2. CASE ScanSinkFiles
  BY <1>2 DEF ScanSinkFiles, AugmentWithSinkFiles
<1>3. CASE PlanActions
  BY <1>3 DEF PlanActions
<1>4. CASE RefuseTickRun
  BY <1>4 DEF RefuseTickRun, NextAction
<1>5. CASE StartTickRun
  BY <1>5 DEF StartTickRun, StartRun
<1>6. CASE EndTickRun
  BY <1>6 DEF EndTickRun, Completes, Fails, LeaveSlot, NextAction
<1>7. CASE SaveTickRun
  BY <1>7 DEF SaveTickRun, NextAction
<1>8. CASE EndTick
  BY <1>8 DEF EndTick, Empty
<1>9. CASE ConfirmCatchUp
  BY <1>9 DEF ConfirmCatchUp
<1>10. CASE SkipCatchUp
  BY <1>10 DEF SkipCatchUp
<1>11. CASE RefuseBatchRun
  BY <1>11 DEF RefuseBatchRun
<1>12. ASSUME NEW d \in batch, StartBatchRun(d)  PROVE  StartTickRun
  BY <1>12 DEF StartBatchRun, StartRun, IsOldest
<1>13. ASSUME NEW d \in batch, EndBatchRun(d)  PROVE  StartTickRun
  BY <1>13 DEF EndBatchRun, Completes, Fails, LeaveSlot, NextDate, IsOldest
<1>14. ASSUME NEW d \in batch, SaveBatchRun(d)  PROVE  StartTickRun
  BY <1>14 DEF SaveBatchRun, NextDate, IsOldest
<1>15. CASE EndBatch
  BY <1>15 DEF EndBatch
<1>16. ASSUME NEW u \in UserRuns, NEW d \in Days, GenerateReport(u, d)  PROVE  StartTickRun
  BY <1>16 DEF GenerateReport, StartRun
<1>17. ASSUME NEW u \in UserRuns, RegisterRun(u)  PROVE  StartTickRun
  BY <1>17 DEF RegisterRun
<1>18. ASSUME NEW u \in UserRuns, EndUserRun(u)  PROVE  StartTickRun
  BY <1>18 DEF EndUserRun, Completes, Fails, LeaveSlot
<1>19. ASSUME NEW u \in UserRuns, Reap(u)  PROVE  StartTickRun
  BY <1>19 DEF Reap
<1>20. ASSUME NEW r \in rows, SaveReport(r)  PROVE  StartTickRun
  BY <1>20 DEF SaveReport
<1>21. CASE Advance
  BY <1>21 DEF Advance
<1>22. CASE Restart
  BY <1>22 DEF Restart, Empty
<1>23. CASE UNCHANGED vars
  BY <1>23 DEF vars
<1> QED
  BY <1>1, <1>2, <1>3, <1>4, <1>5, <1>6, <1>7, <1>8, <1>9, <1>10, <1>11,
     <1>12, <1>13, <1>14, <1>15, <1>16, <1>17, <1>18, <1>19, <1>20, <1>21,
     <1>22, <1>23 DEF Next, Tick, Batch

(***************************************************************************)
(* Theorems                                                                *)
(***************************************************************************)

\* The inductive invariant holds in every reachable state.
THEOREM Invariance == Spec => []IInv
<1>1. Init => IInv
  BY DaysAreNat, WorkDaysAreDays, NoneIsNoCaller
     DEF Init, IInv, TypeOK, RunInv, ClockInv, PassInv, ViewInv, DeferInv,
         View, Empty, Callers
<1>2. IInv /\ [Next]_vars => IInv'
  BY TypeStep, RunStep, ClockStep, PassStep, ViewStep, DeferStep DEF IInv
<1> QED
  BY <1>1, <1>2, PTL DEF Spec

\* Every variable keeps its type.
THEOREM TypeCorrect == Spec => []TypeOK
BY Invariance, PTL DEF IInv

\* plan_next_actions: a pass of the task that completed is never repeated.
THEOREM PassesAreNotRepeated == Spec => NoPassTwice
<1>1. ASSUME IInv, [Next]_vars
      PROVE  [\A r \in rows : ~TickStarts(r.trigger, r.date)]_vars
  <2> SUFFICES ASSUME NEW r \in rows, TickStarts(r.trigger, r.date)
               PROVE  FALSE
    OBVIOUS
  <2>1. 1 \in 1..Len(todo) /\ todo[1] = Head(todo)
    BY <1>1, OnlyStartTickRunStarts DEF IInv, TypeOK, TickStarts, StartTickRun
  <2> QED
    BY <1>1, <2>1 DEF IInv, PassInv, TickStarts
<1> QED
  BY <1>1, Invariance, PTL DEF Spec, NoPassTwice

\* plan_next_actions: a scheduled day without a report is run or offered.
THEOREM NoDayIsForgotten == Spec => MissedDayIsPlanned
<1> DEFINE Runs(d) == \E i \in 1..Len(todo') : todo'[i].date = d
           Planned ==
             tickPc = "plan" /\ tickPc' = "act" =>
               \A d \in WorkDays :
                  /\ /\ d < today /\ today - Window <= d
                     /\ d \notin notes \cup skipped
                     /\ \A r \in rows :
                          IF r.trigger = "FinalPass" THEN r.started # d + 1
                                                     ELSE r.started # d
                     => Runs(d) \/ d \in missed'
                  /\ ~(Runs(d) /\ d \in missed')
<1>1. ASSUME IInv, [Next]_vars  PROVE  [Planned]_vars
  <2> SUFFICES ASSUME tickPc = "plan", tickPc' = "act", NEW d \in WorkDays
               PROVE  /\ /\ d < today /\ today - Window <= d
                         /\ d \notin notes \cup skipped
                         /\ \A r \in rows :
                              IF r.trigger = "FinalPass" THEN r.started # d + 1
                                                         ELSE r.started # d
                         => Runs(d) \/ d \in missed'
                      /\ ~(Runs(d) /\ d \in missed')
    OBVIOUS
  <2>1. todo' = PlannedRuns /\ missed' = MissedDays
    BY <1>1, OnlyPlanActionsPlans DEF PlanActions
  <2>2. ASSUME /\ d < today /\ today - Window <= d
               /\ d \notin notes \cup skipped
               /\ \A r \in rows :
                    IF r.trigger = "FinalPass" THEN r.started # d + 1
                                               ELSE r.started # d
        PROVE  Runs(d) \/ d \in missed'
    <3>1. view[d] = "none"
      BY <1>1, <2>2, WorkDaysAreDays DEF IInv, TypeOK, View, ViewInv
    <3>2. CASE d = today - 1 /\ FinalPassDue
      BY <1>1, <2>1, <3>2, PlanShape DEF IInv
    <3>3. CASE ~(d = today - 1 /\ FinalPassDue)
      BY <2>1, <2>2, <3>1, <3>3 DEF MissedDays
    <3> QED
      BY <3>2, <3>3
  <2>3. ~(Runs(d) /\ d \in missed')
    BY <1>1, <2>1, PlanShape, DaysAreNat DEF IInv, TypeOK, MissedDays, Days
  <2> QED
    BY <2>2, <2>3
<1> QED
  BY <1>1, Invariance, PTL DEF Spec, MissedDayIsPlanned

\* schedule/mod.rs, rule 2: yesterday is re-run until its final pass completes.
THEOREM FinalPassIsDue == Spec => YesterdayGetsItsFinalPass
<1> DEFINE Due ==
        tickPc = "plan" /\ tickPc' = "act" /\ registry = {} /\ today - 1 \in WorkDays =>
         \/ \E i \in 1..Len(todo') :
               todo'[i] = [trigger |-> "FinalPass", date |-> today - 1]
         \/ \E r \in rows : /\ r.trigger = "FinalPass" /\ r.started = today
                            /\ r.date < today
<1>1. ASSUME IInv, [Next]_vars  PROVE  [Due]_vars
  <2> SUFFICES ASSUME tickPc = "plan", tickPc' = "act", registry = {},
                      today - 1 \in WorkDays
               PROVE  Due
    OBVIOUS
  <2>1. todo' = PlannedRuns
    BY <1>1, OnlyPlanActionsPlans DEF PlanActions
  <2>2. CASE view[today - 1] = "final"
    <3>1. PICK r \in rows : r.trigger = "FinalPass" /\ r.started = (today - 1) + 1
      BY <1>1, <2>2, WorkDaysAreDays DEF IInv, ViewInv
    <3>2. r.started = today
      BY <1>1, <3>1, DaysAreNat DEF IInv, TypeOK, Days
    <3> QED
      BY <1>1, <3>1, <3>2 DEF IInv, ClockInv, PassOn
  <2>3. CASE view[today - 1] # "final"
    <3>1. FinalPassDue
      BY <2>3 DEF FinalPassDue, UserRunInFlight
    <3> QED
      BY <1>1, <2>1, <3>1, PlanShape DEF IInv
  <2> QED
    BY <2>2, <2>3
<1> QED
  BY <1>1, Invariance, PTL DEF Spec, YesterdayGetsItsFinalPass

\* scheduler_task.rs: the tick replaces no run that was registered when it planned.
THEOREM UserIsRespected == Spec => RegisteredRunIsNotDisplaced
<1> DEFINE Respects ==
        \A d \in Days : inFlight'[d] = "tick" /\ inFlight[d] # "tick" =>
            inFlight[d] \notin respected
<1>1. ASSUME IInv, [Next]_vars  PROVE  [Respects]_vars
  <2> SUFFICES ASSUME NEW d \in Days,
                      inFlight'[d] = "tick", inFlight[d] # "tick"
               PROVE  inFlight[d] \notin respected
    OBVIOUS
  <2>1. StartTickRun
    BY <1>1, OnlyStartTickRunDisplaces DEF IInv
  <2> QED
    BY <1>1, <2>1 DEF IInv, DeferInv, StartTickRun
<1> QED
  BY <1>1, Invariance, PTL DEF Spec, RegisteredRunIsNotDisplaced

\* A tick repeats no pass and takes no slot from the user.
THEOREM TicksRunWhatIsDue == Spec => TickRunsOnlyWhatIsDue
BY PassesAreNotRepeated, UserIsRespected DEF TickRunsOnlyWhatIsDue

(***************************************************************************)
(* FanOut: NoSendAfterCancel and RowsTellWhatHappened for any number of    *)
(* sources, permits and attempts.                                          *)
(*                                                                         *)
(* A ladder that stands has its verdict, one that climbs has none and has  *)
(* attempts left; it remembers a status exactly when a reply was counted.  *)
(* A task leaves its ladder alone once it is done with it, so the verdict  *)
(* it pushed stays the source's verdict; the vector holds each ended       *)
(* source once, and the rows are the vector of a fan-out that is drained.  *)
(***************************************************************************)

\* The vector of results has the type FanTypeOK gives its entries.
TypeInv ==
    /\ HttpTypeOK
    /\ task \in [Sources -> {"queued", "running", "pushing", "ended", "panicked"}]
    /\ unregistered \subseteq Sources
    /\ left \in [Sources -> 0 .. 2]
    /\ results \in Seq([source : Sources, outcome : Outcomes])
    /\ runPhase \in {"fanning", "rendering", "cancelled"}

\* One request: its verdict, its attempts and its replies agree.
LadderInv ==
    \A s \in Sources :
        /\ http[s] # "returned" <=> verdict[s] = "none"
        /\ http[s] \in Sending => attempt[s] < MaxAttempts
        /\ lastStatus[s] <=> replies[s] > 0
        /\ replies[s] <= attempt[s]
        /\ verdict[s] \in TransportCodes => replies[s] = 0
        /\ verdict[s] \in {"budget", "rate_limited", "refused"} => replies[s] > 0

\* A task and its ladder: only a running task has one that climbs.
TaskInv ==
    \A s \in Sources :
        /\ http[s] \in Sending => task[s] = "running"
        /\ task[s] \in {"pushing", "ended"} /\ s \notin unregistered =>
              /\ http[s] = "returned"
              /\ verdict[s] = "success" => left[s] = 0

\* The vector holds each ended source once, with the outcome of its sync.
ResultInv ==
    /\ \A i \in DOMAIN results :
          /\ task[results[i].source] = "ended"
          /\ results[i].outcome = OutcomeOf(results[i].source)
    /\ \A i, j \in DOMAIN results : results[i].source = results[j].source => i = j
    /\ \A s \in Sources : task[s] = "ended" => \E i \in DOMAIN results : results[i].source = s

\* Once the run has joined, its rows are those of the vector, which is final.
RowInv == runPhase # "fanning" => Drained /\ sourceRows = SplitFanOut

FanOutIInv == TypeInv /\ LadderInv /\ TaskInv /\ ResultInv /\ RowInv

\* The codes a transport error ends in.
LEMMA Codes == TransportCodes = {"transport_timeout", "transport_connect", "transport"}
<1>1. /\ TransportCode("timeout") = "transport_timeout"
      /\ TransportCode("connect") = "transport_connect"
      /\ TransportCode("request") = "transport"
      /\ TransportCode("broken") = "transport"
  BY DEF TransportCode
<1> QED BY <1>1 DEF TransportCodes, Transports

\* A step of a ladder that hears no answer: it climbs on, or is told of the cancel.
LEMMA SilentStep ==
    ASSUME TypeInv, LadderInv, NEW s \in Sources, UNCHANGED <<cancelled, attempt, lastStatus, replies>>,
           http[s] \in Sending,
           \/ Return(s, "cancelled")
           \/ \E to \in Sending : http' = [http EXCEPT ![s] = to] /\ UNCHANGED verdict
    PROVE  HttpTypeOK' /\ LadderInv'
<1> USE Codes DEF TypeInv, HttpTypeOK, LadderInv, Sending, Sources, Verdicts
<1>1. CASE Return(s, "cancelled")
  <2>1. HttpTypeOK'
    BY <1>1 DEF Return
  <2>2. LadderInv'
    BY <1>1 DEF Return
  <2> QED BY <2>1, <2>2
<1>2. ASSUME NEW to \in Sending, http' = [http EXCEPT ![s] = to], UNCHANGED verdict
      PROVE  HttpTypeOK' /\ LadderInv'
  <2>1. HttpTypeOK'
    BY <1>2
  <2>2. LadderInv'
    BY <1>2
  <2> QED BY <2>1, <2>2
<1> QED BY <1>1, <1>2

\* An answer either sends the ladder into its backoff or ends it with a verdict
\* that fits the replies so far, this one included.
LEMMA AnswerStep ==
    ASSUME TypeInv, LadderInv, NEW s \in Sources, Answer(s), UNCHANGED cancelled
    PROVE  HttpTypeOK' /\ LadderInv'
<1> USE DEF TypeInv, HttpTypeOK, LadderInv, Sources
<1>1. PICK r \in Statuses \cup Transports :
        /\ AfterAnswer(s, r, attempt[s] + 1)
        /\ lastStatus' = [lastStatus EXCEPT ![s] = @ \/ r \in Statuses]
        /\ replies' = [replies EXCEPT ![s] = IF r \in Statuses THEN @ + 1 ELSE @]
  BY DEF Answer
<1>2. /\ http[s] = "inflight" /\ verdict[s] = "none"
      /\ attempt' = [attempt EXCEPT ![s] = @ + 1]
      /\ attempt[s] \in Nat /\ attempt[s] < MaxAttempts /\ replies[s] \in 0 .. attempt[s]
  BY AttemptsPositive DEF Answer, Sending
<1>3. \/ /\ attempt[s] + 1 < MaxAttempts
         /\ http' = [http EXCEPT ![s] = "backoff"] /\ UNCHANGED verdict
      \/ \E v \in Verdicts \ {"none"} :
            /\ Return(s, v)
            /\ v \in TransportCodes => r \notin Statuses /\ ~lastStatus[s]
            /\ v \in {"budget", "rate_limited", "refused"} => r \in Statuses \/ lastStatus[s]
  <2>1. CASE r \in Retriable /\ attempt[s] + 1 < MaxAttempts
    BY <1>1, <2>1 DEF AfterAnswer, Step
  <2>2. CASE ~(r \in Retriable /\ attempt[s] + 1 < MaxAttempts) /\ r \in Statuses
    BY <1>1, <2>2, Codes DEF AfterAnswer, Statuses, Verdicts
  <2>3. CASE ~(r \in Retriable /\ attempt[s] + 1 < MaxAttempts) /\ r \in Transports
    <3>1. r \notin Statuses /\ TransportCode(r) \in TransportCodes
      BY <2>3 DEF Transports, Statuses, TransportCodes
    <3>2. Return(s, IF lastStatus[s] THEN "budget" ELSE TransportCode(r))
      BY <1>1, <2>3 DEF AfterAnswer, Transports
    <3> QED BY <3>1, <3>2, Codes DEF Verdicts
  <2> QED BY <2>1, <2>2, <2>3
<1>4. /\ attempt' \in [Calls -> 0 .. MaxAttempts]
      /\ lastStatus' \in [Calls -> BOOLEAN]
      /\ replies' \in [Calls -> 0 .. MaxAttempts]
      /\ replies'[s] <= attempt'[s]
  BY <1>1, <1>2, AttemptsPositive
<1>5. /\ replies'[s] > 0 <=> r \in Statuses \/ lastStatus[s]
      /\ lastStatus'[s] <=> r \in Statuses \/ lastStatus[s]
  <2>1. CASE r \in Statuses
    <3>1. replies'[s] = replies[s] + 1 /\ lastStatus'[s]
      BY <1>1, <2>1
    <3> QED BY <1>2, <2>1, <3>1
  <2>2. CASE r \notin Statuses
    BY <1>1, <1>2, <2>2, AttemptsPositive
  <2> QED BY <2>1, <2>2
<1>6. \A c \in Sources \ {s} :
        /\ http'[c] = http[c] /\ verdict'[c] = verdict[c] /\ attempt'[c] = attempt[c]
        /\ lastStatus'[c] = lastStatus[c] /\ replies'[c] = replies[c]
  BY <1>1, <1>2, <1>3 DEF Return
<1>7. CASE /\ attempt[s] + 1 < MaxAttempts
           /\ http' = [http EXCEPT ![s] = "backoff"] /\ UNCHANGED verdict
  <2>1. HttpTypeOK'
    BY <1>4, <1>7 DEF Sending
  <2>2. /\ http'[s] # "returned" /\ verdict'[s] = "none"
        /\ attempt'[s] < MaxAttempts
    BY <1>2, <1>7
  <2>3. verdict'[s] \notin TransportCodes \cup {"budget", "rate_limited", "refused"}
    BY <2>2, Codes
  <2> QED BY <1>4, <1>5, <1>6, <2>1, <2>2, <2>3
<1>8. ASSUME NEW v \in Verdicts \ {"none"}, Return(s, v),
             v \in TransportCodes => r \notin Statuses /\ ~lastStatus[s],
             v \in {"budget", "rate_limited", "refused"} => r \in Statuses \/ lastStatus[s]
      PROVE  HttpTypeOK' /\ LadderInv'
  <2>1. HttpTypeOK'
    BY <1>4, <1>8 DEF Return
  <2>2. http'[s] = "returned" /\ verdict'[s] = v
    BY <1>8 DEF Return
  <2>3. /\ v \in TransportCodes => replies'[s] = 0
        /\ v \in {"budget", "rate_limited", "refused"} => replies'[s] > 0
    BY <1>4, <1>5, <1>8
  <2> QED BY <1>4, <1>5, <1>6, <1>8, <2>1, <2>2, <2>3 DEF Sending
<1> QED BY <1>3, <1>7, <1>8

\* A step of a ladder keeps its facts and touches its own request only; only a
\* ladder that climbs takes one.
LEMMA LadderStep ==
    ASSUME TypeInv, LadderInv, NEW s \in Sources, HttpStep(s), UNCHANGED cancelled
    PROVE  /\ HttpTypeOK' /\ LadderInv'
           /\ http[s] \in Sending
           /\ \A c \in Sources \ {s} : http'[c] = http[c] /\ verdict'[c] = verdict[c]
<1>1. http[s] \in Sending
  BY DEF HttpStep, CheckCancel, Transmit, CancelledInFlight, Answer, Wake, Sending, Step
<1>2. CASE CheckCancel(s) \/ Transmit(s) \/ CancelledInFlight(s) \/ Wake(s)
  <2>1. /\ UNCHANGED <<attempt, lastStatus, replies>>
        /\ \/ Return(s, "cancelled")
           \/ \E to \in Sending : http' = [http EXCEPT ![s] = to] /\ UNCHANGED verdict
    BY <1>2 DEF CheckCancel, Transmit, CancelledInFlight, Wake, Step, Sending
  <2>2. HttpTypeOK' /\ LadderInv'
    BY <1>1, <2>1, SilentStep
  <2> QED BY <1>1, <2>1, <2>2 DEF Return, TypeInv, HttpTypeOK, Sources
<1>3. CASE Answer(s)
  <2>1. \A c \in Sources \ {s} : http'[c] = http[c] /\ verdict'[c] = verdict[c]
    BY <1>3 DEF Answer, AfterAnswer, Step, Return, TypeInv, HttpTypeOK, Sources
  <2> QED BY <1>1, <1>3, <2>1, AnswerStep
<1> QED BY <1>2, <1>3 DEF HttpStep

\* The first state has no request out, no result and no row.
LEMMA FanInit == FanOutInit => FanOutIInv
<1> SUFFICES ASSUME FanOutInit PROVE FanOutIInv
  OBVIOUS
<1> USE FanOutAssumption, AttemptsPositive, Codes DEF FanOutInit, HttpInit, Sources, Sending, Verdicts
<1>1. TypeInv
  <2>1. HttpTypeOK
    <3>1. /\ attempt \in [Calls -> 0 .. MaxAttempts] /\ replies \in [Calls -> 0 .. MaxAttempts]
      OBVIOUS
    <3>2. lastStatus \in [Calls -> BOOLEAN] /\ cancelled \in BOOLEAN
      BY Zenon
    <3>3. http \in [Calls -> Sending \cup {"idle", "returned"}] /\ verdict \in [Calls -> Verdicts]
      OBVIOUS
    <3> QED BY <3>1, <3>2, <3>3 DEF HttpTypeOK
  <2>2. left \in [Sources -> 0 .. 2] /\ results \in Seq([source : Sources, outcome : Outcomes])
    OBVIOUS
  <2> QED BY <2>1, <2>2 DEF TypeInv
<1>2. LadderInv
  BY DEF LadderInv
<1>3. TaskInv
  BY DEF TaskInv
<1>4. ResultInv /\ RowInv
  BY DEF ResultInv, RowInv
<1> QED BY <1>1, <1>2, <1>3, <1>4 DEF FanOutIInv

\* The vector is a sequence of results of sources.
LEMMA Vector ==
    ASSUME TypeInv
    PROVE  /\ Len(results) \in Nat /\ DOMAIN results = 1 .. Len(results)
           /\ \A i \in DOMAIN results : results[i] \in [source : Sources, outcome : Outcomes]
<1>1. results \in Seq([source : Sources, outcome : Outcomes])
  BY DEF TypeInv
<1>2. Len(results) \in Nat /\ DOMAIN results = 1 .. Len(results)
  BY <1>1
<1>3. \A i \in 1 .. Len(results) : results[i] \in [source : Sources, outcome : Outcomes]
  BY <1>1, ElementOfSeq
<1> QED BY <1>2, <1>3

\* A step that leaves the vector, the ended tasks and their verdicts alone.
LEMMA VectorStays ==
    ASSUME TypeInv, ResultInv, UNCHANGED results,
           \A s \in Sources : task'[s] = "ended" <=> task[s] = "ended",
           \A s \in Sources : task[s] = "ended" => OutcomeOf(s)' = OutcomeOf(s)
    PROVE  ResultInv'
<1>1. \A i \in DOMAIN results : results[i].source \in Sources
  BY Vector
<1>2. ASSUME NEW i \in DOMAIN results
      PROVE  /\ task'[results[i].source] = "ended"
             /\ results[i].outcome = OutcomeOf(results[i].source)'
  <2>1. task[results[i].source] = "ended" /\ results[i].outcome = OutcomeOf(results[i].source)
    BY DEF ResultInv
  <2>2. results[i].source \in Sources
    BY <1>1
  <2>3. OutcomeOf(results[i].source)' = OutcomeOf(results[i].source)
    BY <2>1, <2>2
  <2> QED BY <2>1, <2>2, <2>3
<1>3. /\ \A i, j \in DOMAIN results' : results'[i].source = results'[j].source => i = j
      /\ \A s \in Sources : task'[s] = "ended" =>
            \E i \in DOMAIN results' : results'[i].source = s
  BY DEF ResultInv
<1> QED BY <1>2, <1>3 DEF ResultInv

\* Every step of a task, of the run and of the token keeps the invariant.
LEMMA FanStep ==
    ASSUME FanOutIInv, [FanOutNext]_fanOutVars
    PROVE  FanOutIInv'
<1> USE DEF FanOutIInv, TypeInv, Sources
<1>1. ASSUME NEW s \in Sources, AcquirePermit(s)  PROVE FanOutIInv'
  <2>1. /\ task[s] = "queued"
        /\ task' = [task EXCEPT ![s] = IF s \in unregistered THEN "pushing" ELSE "running"]
        /\ UNCHANGED <<cancelled, httpVars, unregistered, left, results, runPhase, sourceRows>>
    BY <1>1 DEF AcquirePermit
  <2>2. TypeInv' /\ LadderInv'
    BY <2>1 DEF HttpTypeOK, LadderInv, httpVars
  <2>3. TaskInv'
    BY <2>1 DEF TaskInv, HttpTypeOK, httpVars, Sending
  <2>4. ResultInv'
    BY <2>1, VectorStays DEF OutcomeOf, httpVars
  <2>5. RowInv'
    BY <2>1 DEF RowInv, Drained, SplitFanOut, RowOf
  <2> QED BY <2>2, <2>3, <2>4, <2>5
<1>2. ASSUME NEW s \in Sources, NextRequest(s)  PROVE FanOutIInv'
  <2>1. /\ task[s] = "running" /\ left[s] > 0
        /\ left' = [left EXCEPT ![s] = @ - 1]
        /\ Send(s)
        /\ UNCHANGED <<cancelled, unregistered, task, results, runPhase, sourceRows>>
    BY <1>2 DEF NextRequest
  <2>2. TypeInv' /\ LadderInv'
    BY <2>1, AttemptsPositive, Codes DEF HttpTypeOK, LadderInv, Send, Sending, Verdicts
  <2>3. TaskInv'
    BY <2>1 DEF TaskInv, HttpTypeOK, Send, Sending
  <2>4. ResultInv'
    <3>1. \A c \in Sources : task[c] = "ended" => OutcomeOf(c)' = OutcomeOf(c)
      BY <2>1 DEF OutcomeOf, Send, HttpTypeOK
    <3> QED BY <2>1, <3>1, VectorStays
  <2>5. RowInv'
    BY <2>1 DEF RowInv, Drained, SplitFanOut, RowOf
  <2> QED BY <2>2, <2>3, <2>4, <2>5
<1>3. ASSUME NEW s \in Sources, HttpStep(s), UNCHANGED <<cancelled, fanVars>>  PROVE FanOutIInv'
  <2>1. /\ HttpTypeOK' /\ LadderInv'
        /\ http[s] \in Sending
        /\ \A c \in Sources \ {s} : http'[c] = http[c] /\ verdict'[c] = verdict[c]
    BY <1>3, LadderStep
  <2>2. UNCHANGED <<unregistered, task, left, results, runPhase, sourceRows>>
    BY <1>3 DEF fanVars
  <2>3. task[s] = "running"
    BY <2>1 DEF TaskInv
  <2>4. TaskInv'
    BY <2>1, <2>2, <2>3 DEF TaskInv, Sending
  <2>5. ResultInv'
    <3>1. \A c \in Sources : task[c] = "ended" => OutcomeOf(c)' = OutcomeOf(c)
      BY <2>1, <2>2, <2>3 DEF OutcomeOf
    <3> QED BY <2>2, <3>1, VectorStays
  <2>6. RowInv'
    BY <2>2 DEF RowInv, Drained, SplitFanOut, RowOf
  <2> QED BY <2>1, <2>2, <2>4, <2>5, <2>6
<1>4. ASSUME NEW s \in Sources, SyncReturns(s)  PROVE FanOutIInv'
  <2>1. /\ task[s] = "running" /\ http[s] = "returned"
        /\ verdict[s] = "success" => left[s] = 0
        /\ task' = [task EXCEPT ![s] = "pushing"]
        /\ UNCHANGED <<cancelled, httpVars, unregistered, left, results, runPhase, sourceRows>>
    BY <1>4 DEF SyncReturns
  <2>2. TypeInv' /\ LadderInv'
    BY <2>1 DEF HttpTypeOK, LadderInv, httpVars
  <2>3. TaskInv'
    BY <2>1 DEF TaskInv, httpVars, Sending
  <2>4. ResultInv'
    BY <2>1, VectorStays DEF OutcomeOf, httpVars
  <2>5. RowInv'
    BY <2>1 DEF RowInv, Drained, SplitFanOut, RowOf
  <2> QED BY <2>2, <2>3, <2>4, <2>5
<1>5. ASSUME NEW s \in Sources, Panic(s)  PROVE FanOutIInv'
  <2>1. /\ task[s] = "running" /\ http[s] \in {"idle", "returned"}
        /\ task' = [task EXCEPT ![s] = "panicked"]
        /\ UNCHANGED <<cancelled, httpVars, unregistered, left, results, runPhase, sourceRows>>
    BY <1>5 DEF Panic
  <2>2. TypeInv' /\ LadderInv'
    BY <2>1 DEF HttpTypeOK, LadderInv, httpVars
  <2>3. TaskInv'
    BY <2>1 DEF TaskInv, httpVars, Sending
  <2>4. ResultInv'
    BY <2>1, VectorStays DEF OutcomeOf, httpVars
  <2>5. RowInv'
    BY <2>1 DEF RowInv, Drained, SplitFanOut, RowOf
  <2> QED BY <2>2, <2>3, <2>4, <2>5
<1>6. ASSUME NEW s \in Sources, PushResult(s)  PROVE FanOutIInv'
  <2> DEFINE result == [source |-> s, outcome |-> OutcomeOf(s)]
  <2>1. /\ task[s] = "pushing"
        /\ results' = Append(results, result)
        /\ task' = [task EXCEPT ![s] = "ended"]
        /\ UNCHANGED <<cancelled, httpVars, unregistered, left, runPhase, sourceRows>>
    BY <1>6 DEF PushResult
  <2>2. OutcomeOf(s) \in Outcomes
    BY <2>1 DEF OutcomeOf, Outcomes, TaskInv, LadderInv, HttpTypeOK
  <2>3. TypeInv' /\ LadderInv'
    BY <2>1, <2>2 DEF HttpTypeOK, LadderInv, httpVars
  <2>4. TaskInv'
    BY <2>1 DEF TaskInv, httpVars, Sending
  <2>5. ResultInv'
    <3>1. /\ DOMAIN results' = DOMAIN results \cup {Len(results) + 1}
          /\ \A i \in DOMAIN results : results'[i] = results[i]
          /\ results'[Len(results) + 1] = result
          /\ \A i \in DOMAIN results : results[i].source \in Sources
      BY <2>1, Vector
    <3>2. \A i \in DOMAIN results : results[i].source # s
      BY <2>1 DEF ResultInv
    <3>4. \A i \in DOMAIN results' :
            /\ task'[results'[i].source] = "ended"
            /\ results'[i].outcome = OutcomeOf(results'[i].source)
      <4>1. ASSUME NEW i \in DOMAIN results
            PROVE  /\ task'[results'[i].source] = "ended"
                   /\ results'[i].outcome = OutcomeOf(results'[i].source)
        <5>1. /\ task[results[i].source] = "ended" /\ results[i].source \in Sources
              /\ results[i].outcome = OutcomeOf(results[i].source)
              /\ results'[i] = results[i]
          BY <3>1 DEF ResultInv
        <5>2. task'[results[i].source] = "ended"
          BY <2>1, <5>1
        <5> QED BY <5>1, <5>2
      <4>2. task'[s] = "ended" /\ result.source = s /\ result.outcome = OutcomeOf(s)
        BY <2>1
      <4> QED BY <3>1, <4>1, <4>2
    <3>5. \A i, j \in DOMAIN results' : results'[i].source = results'[j].source => i = j
      BY <3>1, <3>2 DEF ResultInv
    <3>6. \A c \in Sources : task'[c] = "ended" =>
            \E i \in DOMAIN results' : results'[i].source = c
      <4>1. ASSUME NEW c \in Sources, task'[c] = "ended", c # s
            PROVE  \E i \in DOMAIN results' : results'[i].source = c
        <5>1. PICK i \in DOMAIN results : results[i].source = c
          BY <2>1, <4>1 DEF ResultInv
        <5> QED BY <3>1, <5>1
      <4>2. results'[Len(results) + 1].source = s
        BY <3>1
      <4> QED BY <3>1, <4>1, <4>2
    <3> QED BY <2>1, <3>4, <3>5, <3>6 DEF ResultInv, OutcomeOf, httpVars
  <2>6. RowInv'
    BY <2>1 DEF RowInv, Drained
  <2> QED BY <2>3, <2>4, <2>5, <2>6
<1>7. CASE Join
  <2>1. /\ Drained /\ sourceRows' = SplitFanOut
        /\ runPhase' \in {"cancelled", "rendering"}
        /\ UNCHANGED <<cancelled, httpVars, unregistered, task, left, results>>
    BY <1>7 DEF Join
  <2>2. RowInv'
    BY <2>1 DEF RowInv, Drained, SplitFanOut, RowOf
  <2>3. TypeInv' /\ LadderInv' /\ TaskInv' /\ ResultInv'
    BY <2>1 DEF HttpTypeOK, LadderInv, TaskInv, ResultInv, OutcomeOf, httpVars
  <2> QED BY <2>2, <2>3
<1>8. CASE FireCancel \/ UNCHANGED fanOutVars
  <2>1. /\ cancelled' \in BOOLEAN
        /\ UNCHANGED <<http, attempt, lastStatus, verdict, replies>>
        /\ UNCHANGED <<unregistered, task, left, results, runPhase, sourceRows>>
    BY <1>8 DEF FireCancel, fanOutVars, fanVars, httpVars, HttpTypeOK
  <2>2. TypeInv' /\ LadderInv'
    BY <2>1 DEF HttpTypeOK, LadderInv
  <2>3. TaskInv'
    BY <2>1 DEF TaskInv
  <2>4. ResultInv'
    BY <2>1, VectorStays DEF OutcomeOf
  <2>5. RowInv'
    BY <2>1 DEF RowInv, Drained, SplitFanOut, RowOf
  <2> QED BY <2>2, <2>3, <2>4, <2>5
<1> QED BY <1>1, <1>2, <1>3, <1>4, <1>5, <1>6, <1>7, <1>8 DEF FanOutNext, TaskStep, Request

\* In every reachable state the ladders, the tasks, the vector and the rows agree.
THEOREM FanOutInvariance == FanOutSpec => []FanOutIInv
BY FanInit, FanStep, PTL DEF FanOutSpec

\* RowsTellWhatHappened (generate.rs:687-770, http.rs:302-317) holds of every
\* fan-out: the rows are the vector's, and the vector is final when they are made.
THEOREM TruthfulFanOut == FanOutSpec => []RowsTellWhatHappened
<1>1. FanOutIInv => RowsTellWhatHappened
  <2> SUFFICES ASSUME FanOutIInv PROVE RowsTellWhatHappened
    OBVIOUS
  <2> USE DEF FanOutIInv, TypeInv, HttpTypeOK, Sources
  <2>1. \A s \in Sources : http[s] = "returned" =>
          /\ verdict[s] \in TransportCodes => replies[s] = 0
          /\ verdict[s] \in {"budget", "rate_limited", "refused"} => replies[s] > 0
    BY DEF LadderInv
  <2>2. ASSUME runPhase # "fanning"
        PROVE  /\ \A i, j \in DOMAIN sourceRows :
                     sourceRows[i].source = sourceRows[j].source => i = j
               /\ {sourceRows[i].source : i \in DOMAIN sourceRows}
                     = {s \in Sources : task[s] = "ended"}
               /\ \A i \in DOMAIN sourceRows : sourceRows[i].status = "Succeeded" <=>
                     /\ sourceRows[i].source \notin unregistered
                     /\ verdict[sourceRows[i].source] = "success"
                     /\ left[sourceRows[i].source] = 0
    <3>1. /\ DOMAIN sourceRows = DOMAIN results
          /\ \A i \in DOMAIN results : sourceRows[i] = RowOf(results[i])
          /\ \A i \in DOMAIN results :
                /\ sourceRows[i].source = results[i].source
                /\ results[i].source \in Sources
                /\ sourceRows[i].status = "Succeeded" <=> results[i].outcome = "ok"
      <4>1. /\ DOMAIN sourceRows = DOMAIN results
            /\ \A i \in DOMAIN results : sourceRows[i] = RowOf(results[i])
        BY <2>2 DEF RowInv, SplitFanOut
      <4> QED BY <4>1, Vector DEF RowOf
    <3>2. \A i \in DOMAIN results :
            results[i].outcome = "ok" <=>
              /\ results[i].source \notin unregistered
              /\ verdict[results[i].source] = "success"
      <4>1. ASSUME NEW s \in Sources
            PROVE  OutcomeOf(s) = "ok" <=> s \notin unregistered /\ verdict[s] = "success"
        BY Codes DEF OutcomeOf, Verdicts
      <4> QED BY <3>1, <4>1 DEF ResultInv
    <3>3. \A i \in DOMAIN results :
            results[i].outcome = "ok" => left[results[i].source] = 0
      BY <3>1, <3>2 DEF ResultInv, TaskInv
    <3>4. {sourceRows[i].source : i \in DOMAIN sourceRows} = {s \in Sources : task[s] = "ended"}
      <4>1. \A i \in DOMAIN sourceRows :
              sourceRows[i].source \in {s \in Sources : task[s] = "ended"}
        BY <3>1 DEF ResultInv
      <4>2. ASSUME NEW s \in Sources, task[s] = "ended"
            PROVE  s \in {sourceRows[i].source : i \in DOMAIN sourceRows}
        <5>1. PICK i \in DOMAIN results : results[i].source = s
          BY <4>2 DEF ResultInv
        <5> QED BY <3>1, <5>1
      <4> QED BY <4>1, <4>2
    <3>5. \A i, j \in DOMAIN sourceRows : sourceRows[i].source = sourceRows[j].source => i = j
      <4>1. \A i, j \in DOMAIN results : results[i].source = results[j].source => i = j
        BY DEF ResultInv
      <4> QED BY <3>1, <4>1
    <3>6. \A i \in DOMAIN sourceRows : sourceRows[i].status = "Succeeded" <=>
            /\ sourceRows[i].source \notin unregistered
            /\ verdict[sourceRows[i].source] = "success"
            /\ left[sourceRows[i].source] = 0
      BY <3>1, <3>2, <3>3
    <3> QED BY <3>4, <3>5, <3>6
  <2> QED BY <2>1, <2>2 DEF RowsTellWhatHappened
<1> QED BY <1>1, FanOutInvariance, PTL

\* NoSendAfterCancel (http.rs:161, :177, :385): a request goes on the wire in one
\* step only, the first poll of the select, which asks the token before it.
THEOREM SilentAfterCancel == FanOutSpec => NoSendAfterCancel
<1>1. ASSUME FanOutIInv, [FanOutNext]_fanOutVars
      PROVE  [\A s \in Sources :
                http'[s] = "inflight" /\ http[s] # "inflight" => ~cancelled]_fanOutVars
  <2> http \in [Sources -> Sending \cup {"idle", "returned"}]
    BY <1>1 DEF FanOutIInv, TypeInv, HttpTypeOK, Sources
  <2>1. ASSUME NEW s \in Sources, NextRequest(s)
        PROVE  \A c \in Sources : http'[c] = "inflight" => http[c] = "inflight"
    BY <2>1 DEF NextRequest, Send
  <2>2. ASSUME NEW s \in Sources, HttpStep(s)
        PROVE  \A c \in Sources : http'[c] = "inflight" => http[c] = "inflight" \/ ~cancelled
    <3>1. CASE CheckCancel(s) \/ CancelledInFlight(s) \/ Wake(s) \/ Answer(s)
      <4>1. \E to \in {"returned", "armed", "check", "backoff"} : http' = [http EXCEPT ![s] = to]
        BY <3>1 DEF CheckCancel, CancelledInFlight, Wake, Answer, AfterAnswer, Return, Step
      <4> QED BY <4>1
    <3>2. CASE Transmit(s)
      <4>1. \/ http' = [http EXCEPT ![s] = "returned"]
            \/ ~cancelled
        BY <3>2 DEF Transmit, Return
      <4> QED BY <4>1
    <3> QED BY <2>2, <3>1, <3>2 DEF HttpStep
  <2>3. ASSUME NEW s \in Sources,
               AcquirePermit(s) \/ SyncReturns(s) \/ PushResult(s) \/ Panic(s)
        PROVE  http' = http
    BY <2>3 DEF AcquirePermit, SyncReturns, PushResult, Panic, httpVars
  <2>4. ASSUME Join \/ FireCancel  PROVE http' = http
    BY <2>4 DEF Join, FireCancel, httpVars
  <2> QED BY <1>1, <2>1, <2>2, <2>3, <2>4 DEF FanOutNext, TaskStep, Request
<1> QED BY <1>1, FanOutInvariance, PTL DEF FanOutSpec, NoSendAfterCancel

=============================================================================
