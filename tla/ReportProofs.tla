---------------------------- MODULE ReportProofs ----------------------------
(***************************************************************************)
(* A report run: how it starts, ends and is recorded (RunLifecycle), for   *)
(* every set of runs and keys and every choice of fallible database calls, *)
(* and what its report keeps of a day (ReportPipeline), for any number of  *)
(* sources and events.                                                     *)
(***************************************************************************)
EXTENDS RunLifecycle, ReportPipeline, FiniteSetTheorems, TLAPS

(***************************************************************************)
(* The safety properties of RunLifecycle for every set of runs and keys    *)
(* and every choice of fallible database calls.                            *)
(*                                                                         *)
(* None of the properties is inductive by itself.  IInv adds what each of  *)
(* them leans on: which fields a task has set at which label (ControlInv), *)
(* that a run enters the in-flight map once and leaves it for good, so at  *)
(* most one newer run replaces it (PriorInv), and who still owes a row its *)
(* terminal write (RecordInv).                                             *)
(***************************************************************************)

ControlInv ==
    \A r \in Runs :
        /\ pc[r] = "idle" =>
              /\ status[r] = "Absent" /\ supersededBy[r] = Nil
              /\ prior[r] = Nil /\ outcome[r] = "Pending"
              /\ r \notin drafts
              /\ \A k \in Keys : inFlight[k] # r
        /\ pc[r] # "idle" => key[r] \in Keys
        /\ pc[r] \in {"swapped", "insert", "evict"} => status[r] = "Absent"
        /\ pc[r] \in {"mark"} \cup Background => status[r] # "Absent"
        /\ pc[r] \in {"swapped", "mark"} => prior[r] # Nil

PriorInv ==
    \A q \in Runs : prior[q] # Nil =>
        LET r == prior[q] IN
        /\ q # r /\ pc[r] # "idle" /\ pc[q] # "idle"
        /\ key[q] = key[r]
        /\ inFlight[key[r]] # r
        /\ \A p \in Runs : prior[p] = r => p = q

SupersedeInv ==
    \A r \in Runs : supersededBy[r] # Nil =>
        /\ status[r] = "Cancelled"
        /\ prior[supersededBy[r]] = r
        /\ status[supersededBy[r]] # "Absent"
        /\ pc[supersededBy[r]] # "mark"

OutcomeInv ==
    \A r \in Runs :
        /\ pc[r] \in Starting \cup {"fetch", "cancelRead", "events", "guard",
                                    "draft", "finish", "fail"}
              => outcome[r] = "Pending"
        /\ pc[r] = "cancelWrite" => outcome[r] = "Cancelled"
        /\ pc[r] \in {"mark"} \cup (Background \ {"drop"})
              => status[r] \in {"Running", "Cancelled"}
        /\ pc[r] = "finish" => r \in drafts
        /\ r \in drafts => /\ pc[r] \in {"finish", "drop", "done", "lost"}
                           /\ outcome[r] \in {"Pending", "Completed"}
        /\ outcome[r] = "Completed" => r \in drafts
        /\ status[r] = "Completed" => outcome[r] = "Completed"
        /\ status[r] = "Cancelled" =>
              supersededBy[r] # Nil \/ outcome[r] = "Cancelled"

\* The runs about whose row some write is known to have gone wrong.
Excused == unwritten \cup evicted

RecordInv ==
    \A r \in Runs :
        /\ pc[r] \in Live /\ inFlight[key[r]] # r
              /\ status[r] \in {"Absent", "Running"}
              => MarkPending(r) \/ r \in Excused
        /\ pc[r] = "drop" /\ status[r] = "Running" =>
              inFlight[key[r]] # r \/ r \in Excused
        /\ pc[r] = "done" /\ status[r] = "Running" =>
              MarkPending(r) \/ r \in Excused

RecoveryInv ==
    /\ proc # "up" => \A r \in Runs : pc[r] \notin Live
    /\ proc = "booting" => \A r \in Runs : status[r] = "Running" => r \in todo
    /\ proc # "booting" => todo = {}
    /\ \A r \in todo : status[r] = "Running"
    /\ swept => /\ proc = "up"
                /\ \A r \in Runs : pc[r] = "lost" => status[r] # "Running"

IInv ==
    /\ TypeOK /\ ControlInv /\ PriorInv /\ SlotHolderIsLive
    /\ SupersedeInv /\ OutcomeInv /\ DisplacedRunIsSignalled
    /\ RecordInv /\ RecoveryInv

(***************************************************************************)
(* One step preserves each part of IInv                                    *)
(***************************************************************************)

\* Every step keeps the type.  ControlInv supplies the key of a run that was
\* called and the prior run at the labels that read it.
LEMMA TypeStep ==
    ASSUME IInv, [Next]_vars  PROVE  TypeOK'
<1> USE NilIsNoRun DEF IInv, TypeOK, ControlInv, Control, Live, Starting,
    Background, OutcomeStatus, Ledger!RowStatus, database, process, memory,
    locals, ghosts, At, Goto
<1>1. ASSUME NEW r \in Runs, NEW k \in Keys, SwapInFlight(r, k)  PROVE  TypeOK'
  BY <1>1 DEF SwapInFlight, AfterSwap
<1>2. ASSUME NEW r \in Runs, FirePriorCancel(r)  PROVE  TypeOK'
  BY <1>2 DEF FirePriorCancel
<1>3. ASSUME NEW r \in Runs, InsertRow(r)  PROVE  TypeOK'
  BY <1>3 DEF InsertRow
<1>4. ASSUME NEW r \in Runs, InsertRowFails(r)  PROVE  TypeOK'
  BY <1>4 DEF InsertRowFails
<1>5. ASSUME NEW r \in Runs, EvictSlot(r)  PROVE  TypeOK'
  BY <1>5 DEF EvictSlot
<1>6. ASSUME NEW r \in Runs, MarkPriorSuperseded(r)  PROVE  TypeOK'
  BY <1>6 DEF MarkPriorSuperseded, Transition, TransitionLost, Accepts
<1>7. ASSUME NEW r \in Runs, FinishFanOut(r)  PROVE  TypeOK'
  BY <1>7 DEF FinishFanOut
<1>8. ASSUME NEW r \in Runs, PersistEventsAndRender(r)  PROVE  TypeOK'
  BY <1>8 DEF PersistEventsAndRender
<1>9. ASSUME NEW r \in Runs, PersistGuard(r)  PROVE  TypeOK'
  BY <1>9 DEF PersistGuard, SupersededByNow
<1>10. ASSUME NEW r \in Runs, InsertDraft(r)  PROVE  TypeOK'
  BY <1>10 DEF InsertDraft
<1>11. ASSUME NEW r \in Runs, InsertDraftFails(r)  PROVE  TypeOK'
  BY <1>11 DEF InsertDraftFails
<1>12. ASSUME NEW r \in Runs, MarkFinished(r)  PROVE  TypeOK'
  BY <1>12 DEF MarkFinished, Transition, TransitionLost, Accepts
<1>13. ASSUME NEW r \in Runs, ReadCancelReason(r)  PROVE  TypeOK'
  BY <1>13 DEF ReadCancelReason, SupersededByNow
<1>14. ASSUME NEW r \in Runs, MarkCancelledByUser(r)  PROVE  TypeOK'
  BY <1>14 DEF MarkCancelledByUser, Transition, TransitionLost, Accepts
<1>15. ASSUME NEW r \in Runs, MarkFailed(r)  PROVE  TypeOK'
  BY <1>15 DEF MarkFailed, Transition, TransitionLost, Accepts
<1>16. ASSUME NEW r \in Runs, DropInFlightIfOurs(r)  PROVE  TypeOK'
  BY <1>16 DEF DropInFlightIfOurs
<1>17. ASSUME NEW r \in Runs, Cancel(r)  PROVE  TypeOK'
  BY <1>17 DEF Cancel
<1>18. ASSUME NEW r \in Runs, RecoverRow(r)  PROVE  TypeOK'
  BY <1>18 DEF RecoverRow, Transition, Accepts
<1>19. CASE Crash
  BY <1>19 DEF Crash
<1>20. CASE ListRunning
  BY <1>20 DEF ListRunning
<1>21. CASE FinishRecovery
  BY <1>21 DEF FinishRecovery
<1>22. CASE AbortRecovery
  BY <1>22 DEF AbortRecovery
<1>23. CASE UNCHANGED vars
  BY <1>23 DEF vars
<1> QED  BY <1>1, <1>2, <1>3, <1>4, <1>5, <1>6, <1>7, <1>8, <1>9, <1>10, <1>11,
    <1>12, <1>13, <1>14, <1>15, <1>16, <1>17, <1>18, <1>19, <1>20, <1>21,
    <1>22, <1>23 DEF Next, Step, Boot

\* Every step keeps the fields of a task in step with its label.
LEMMA ControlStep ==
    ASSUME IInv, [Next]_vars  PROVE  ControlInv'
<1> USE NilIsNoRun DEF IInv, TypeOK, ControlInv, PriorInv, Control, Live,
    Starting, Background, database, process, memory, locals, ghosts, At, Goto
<1>1. ASSUME NEW r \in Runs, NEW k \in Keys, SwapInFlight(r, k)  PROVE
    ControlInv'
  BY <1>1 DEF SwapInFlight, AfterSwap
<1>2. ASSUME NEW r \in Runs, FirePriorCancel(r)  PROVE  ControlInv'
  BY <1>2 DEF FirePriorCancel
<1>3. ASSUME NEW r \in Runs, InsertRow(r)  PROVE  ControlInv'
  BY <1>3 DEF InsertRow
<1>4. ASSUME NEW r \in Runs, InsertRowFails(r)  PROVE  ControlInv'
  BY <1>4 DEF InsertRowFails
<1>5. ASSUME NEW r \in Runs, EvictSlot(r)  PROVE  ControlInv'
  BY <1>5 DEF EvictSlot
<1>6. ASSUME NEW r \in Runs, MarkPriorSuperseded(r)  PROVE  ControlInv'
  BY <1>6 DEF MarkPriorSuperseded, Transition, TransitionLost, Accepts
<1>7. ASSUME NEW r \in Runs, FinishFanOut(r)  PROVE  ControlInv'
  BY <1>7 DEF FinishFanOut
<1>8. ASSUME NEW r \in Runs, PersistEventsAndRender(r)  PROVE  ControlInv'
  BY <1>8 DEF PersistEventsAndRender
<1>9. ASSUME NEW r \in Runs, PersistGuard(r)  PROVE  ControlInv'
  BY <1>9 DEF PersistGuard, SupersededByNow
<1>10. ASSUME NEW r \in Runs, InsertDraft(r)  PROVE  ControlInv'
  BY <1>10 DEF InsertDraft
<1>11. ASSUME NEW r \in Runs, InsertDraftFails(r)  PROVE  ControlInv'
  BY <1>11 DEF InsertDraftFails
<1>12. ASSUME NEW r \in Runs, MarkFinished(r)  PROVE  ControlInv'
  BY <1>12 DEF MarkFinished, Transition, TransitionLost, Accepts
<1>13. ASSUME NEW r \in Runs, ReadCancelReason(r)  PROVE  ControlInv'
  BY <1>13 DEF ReadCancelReason, SupersededByNow
<1>14. ASSUME NEW r \in Runs, MarkCancelledByUser(r)  PROVE  ControlInv'
  BY <1>14 DEF MarkCancelledByUser, Transition, TransitionLost, Accepts
<1>15. ASSUME NEW r \in Runs, MarkFailed(r)  PROVE  ControlInv'
  BY <1>15 DEF MarkFailed, Transition, TransitionLost, Accepts
<1>16. ASSUME NEW r \in Runs, DropInFlightIfOurs(r)  PROVE  ControlInv'
  BY <1>16 DEF DropInFlightIfOurs
<1>17. ASSUME NEW r \in Runs, Cancel(r)  PROVE  ControlInv'
  BY <1>17 DEF Cancel
<1>18. ASSUME NEW r \in Runs, RecoverRow(r)  PROVE  ControlInv'
  BY <1>18 DEF RecoverRow, Transition, Accepts
<1>19. CASE Crash
  BY <1>19 DEF Crash
<1>20. CASE ListRunning
  BY <1>20 DEF ListRunning
<1>21. CASE FinishRecovery
  BY <1>21 DEF FinishRecovery
<1>22. CASE AbortRecovery
  BY <1>22 DEF AbortRecovery
<1>23. CASE UNCHANGED vars
  BY <1>23 DEF vars
<1> QED  BY <1>1, <1>2, <1>3, <1>4, <1>5, <1>6, <1>7, <1>8, <1>9, <1>10, <1>11,
    <1>12, <1>13, <1>14, <1>15, <1>16, <1>17, <1>18, <1>19, <1>20, <1>21,
    <1>22, <1>23 DEF Next, Step, Boot

\* Every step keeps the replacement relation a matching within one key.  The
\* step that extends it is SwapInFlight: the run it replaces held the slot, so
\* nobody replaced it before.
LEMMA PriorStep ==
    ASSUME IInv, [Next]_vars  PROVE  PriorInv'
<1> USE NilIsNoRun DEF IInv, TypeOK, ControlInv, PriorInv, SlotHolderIsLive,
    Control, Live, Starting, Background, database, process, memory, locals,
    ghosts, At, Goto
<1>1. ASSUME NEW r \in Runs, NEW k \in Keys, SwapInFlight(r, k)  PROVE
    PriorInv'
  BY <1>1 DEF SwapInFlight, AfterSwap
<1>2. ASSUME NEW r \in Runs, FirePriorCancel(r)  PROVE  PriorInv'
  BY <1>2 DEF FirePriorCancel
<1>3. ASSUME NEW r \in Runs, InsertRow(r)  PROVE  PriorInv'
  BY <1>3 DEF InsertRow
<1>4. ASSUME NEW r \in Runs, InsertRowFails(r)  PROVE  PriorInv'
  BY <1>4 DEF InsertRowFails
<1>5. ASSUME NEW r \in Runs, EvictSlot(r)  PROVE  PriorInv'
  BY <1>5 DEF EvictSlot
<1>6. ASSUME NEW r \in Runs, MarkPriorSuperseded(r)  PROVE  PriorInv'
  BY <1>6 DEF MarkPriorSuperseded, Transition, TransitionLost, Accepts
<1>7. ASSUME NEW r \in Runs, FinishFanOut(r)  PROVE  PriorInv'
  BY <1>7 DEF FinishFanOut
<1>8. ASSUME NEW r \in Runs, PersistEventsAndRender(r)  PROVE  PriorInv'
  BY <1>8 DEF PersistEventsAndRender
<1>9. ASSUME NEW r \in Runs, PersistGuard(r)  PROVE  PriorInv'
  BY <1>9 DEF PersistGuard, SupersededByNow
<1>10. ASSUME NEW r \in Runs, InsertDraft(r)  PROVE  PriorInv'
  BY <1>10 DEF InsertDraft
<1>11. ASSUME NEW r \in Runs, InsertDraftFails(r)  PROVE  PriorInv'
  BY <1>11 DEF InsertDraftFails
<1>12. ASSUME NEW r \in Runs, MarkFinished(r)  PROVE  PriorInv'
  BY <1>12 DEF MarkFinished, Transition, TransitionLost, Accepts
<1>13. ASSUME NEW r \in Runs, ReadCancelReason(r)  PROVE  PriorInv'
  BY <1>13 DEF ReadCancelReason, SupersededByNow
<1>14. ASSUME NEW r \in Runs, MarkCancelledByUser(r)  PROVE  PriorInv'
  BY <1>14 DEF MarkCancelledByUser, Transition, TransitionLost, Accepts
<1>15. ASSUME NEW r \in Runs, MarkFailed(r)  PROVE  PriorInv'
  BY <1>15 DEF MarkFailed, Transition, TransitionLost, Accepts
<1>16. ASSUME NEW r \in Runs, DropInFlightIfOurs(r)  PROVE  PriorInv'
  BY <1>16 DEF DropInFlightIfOurs
<1>17. ASSUME NEW r \in Runs, Cancel(r)  PROVE  PriorInv'
  BY <1>17 DEF Cancel
<1>18. ASSUME NEW r \in Runs, RecoverRow(r)  PROVE  PriorInv'
  BY <1>18 DEF RecoverRow, Transition, Accepts
<1>19. CASE Crash
  BY <1>19 DEF Crash
<1>20. CASE ListRunning
  BY <1>20 DEF ListRunning
<1>21. CASE FinishRecovery
  BY <1>21 DEF FinishRecovery
<1>22. CASE AbortRecovery
  BY <1>22 DEF AbortRecovery
<1>23. CASE UNCHANGED vars
  BY <1>23 DEF vars
<1> QED  BY <1>1, <1>2, <1>3, <1>4, <1>5, <1>6, <1>7, <1>8, <1>9, <1>10, <1>11,
    <1>12, <1>13, <1>14, <1>15, <1>16, <1>17, <1>18, <1>19, <1>20, <1>21,
    <1>22, <1>23 DEF Next, Step, Boot

\* No step leaks an entry of the in-flight map: PersistGuard leaves the entry
\* alone only when it belongs to another run.
LEMMA SlotStep ==
    ASSUME IInv, [Next]_vars  PROVE  SlotHolderIsLive'
<1> USE NilIsNoRun DEF IInv, TypeOK, ControlInv, SlotHolderIsLive, Control,
    Live, Starting, Background, database, process, memory, locals, ghosts, At,
    Goto
<1>1. ASSUME NEW r \in Runs, NEW k \in Keys, SwapInFlight(r, k)  PROVE
    SlotHolderIsLive'
  BY <1>1 DEF SwapInFlight, AfterSwap
<1>2. ASSUME NEW r \in Runs, FirePriorCancel(r)  PROVE  SlotHolderIsLive'
  BY <1>2 DEF FirePriorCancel
<1>3. ASSUME NEW r \in Runs, InsertRow(r)  PROVE  SlotHolderIsLive'
  BY <1>3 DEF InsertRow
<1>4. ASSUME NEW r \in Runs, InsertRowFails(r)  PROVE  SlotHolderIsLive'
  BY <1>4 DEF InsertRowFails
<1>5. ASSUME NEW r \in Runs, EvictSlot(r)  PROVE  SlotHolderIsLive'
  BY <1>5 DEF EvictSlot
<1>6. ASSUME NEW r \in Runs, MarkPriorSuperseded(r)  PROVE  SlotHolderIsLive'
  BY <1>6 DEF MarkPriorSuperseded, Transition, TransitionLost, Accepts
<1>7. ASSUME NEW r \in Runs, FinishFanOut(r)  PROVE  SlotHolderIsLive'
  BY <1>7 DEF FinishFanOut
<1>8. ASSUME NEW r \in Runs, PersistEventsAndRender(r)  PROVE
    SlotHolderIsLive'
  BY <1>8 DEF PersistEventsAndRender
<1>9. ASSUME NEW r \in Runs, PersistGuard(r)  PROVE  SlotHolderIsLive'
  BY <1>9 DEF PersistGuard, SupersededByNow
<1>10. ASSUME NEW r \in Runs, InsertDraft(r)  PROVE  SlotHolderIsLive'
  BY <1>10 DEF InsertDraft
<1>11. ASSUME NEW r \in Runs, InsertDraftFails(r)  PROVE  SlotHolderIsLive'
  BY <1>11 DEF InsertDraftFails
<1>12. ASSUME NEW r \in Runs, MarkFinished(r)  PROVE  SlotHolderIsLive'
  BY <1>12 DEF MarkFinished, Transition, TransitionLost, Accepts
<1>13. ASSUME NEW r \in Runs, ReadCancelReason(r)  PROVE  SlotHolderIsLive'
  BY <1>13 DEF ReadCancelReason, SupersededByNow
<1>14. ASSUME NEW r \in Runs, MarkCancelledByUser(r)  PROVE  SlotHolderIsLive'
  BY <1>14 DEF MarkCancelledByUser, Transition, TransitionLost, Accepts
<1>15. ASSUME NEW r \in Runs, MarkFailed(r)  PROVE  SlotHolderIsLive'
  BY <1>15 DEF MarkFailed, Transition, TransitionLost, Accepts
<1>16. ASSUME NEW r \in Runs, DropInFlightIfOurs(r)  PROVE  SlotHolderIsLive'
  BY <1>16 DEF DropInFlightIfOurs
<1>17. ASSUME NEW r \in Runs, Cancel(r)  PROVE  SlotHolderIsLive'
  BY <1>17 DEF Cancel
<1>18. ASSUME NEW r \in Runs, RecoverRow(r)  PROVE  SlotHolderIsLive'
  BY <1>18 DEF RecoverRow, Transition, Accepts
<1>19. CASE Crash
  BY <1>19 DEF Crash
<1>20. CASE ListRunning
  BY <1>20 DEF ListRunning
<1>21. CASE FinishRecovery
  BY <1>21 DEF FinishRecovery
<1>22. CASE AbortRecovery
  BY <1>22 DEF AbortRecovery
<1>23. CASE UNCHANGED vars
  BY <1>23 DEF vars
<1> QED  BY <1>1, <1>2, <1>3, <1>4, <1>5, <1>6, <1>7, <1>8, <1>9, <1>10, <1>11,
    <1>12, <1>13, <1>14, <1>15, <1>16, <1>17, <1>18, <1>19, <1>20, <1>21,
    <1>22, <1>23 DEF Next, Step, Boot

\* Every step keeps `superseded_by` pointing at the replacing run, which is at
\* the label after its own insert when it writes the column.
LEMMA SupersedeStep ==
    ASSUME IInv, [Next]_vars  PROVE  SupersedeInv'
<1> USE NilIsNoRun DEF IInv, TypeOK, ControlInv, PriorInv, SupersedeInv,
    Control, Live, Starting, Background, database, process, memory, locals,
    ghosts, At, Goto
<1>1. ASSUME NEW r \in Runs, NEW k \in Keys, SwapInFlight(r, k)  PROVE
    SupersedeInv'
  BY <1>1 DEF SwapInFlight, AfterSwap
<1>2. ASSUME NEW r \in Runs, FirePriorCancel(r)  PROVE  SupersedeInv'
  BY <1>2 DEF FirePriorCancel
<1>3. ASSUME NEW r \in Runs, InsertRow(r)  PROVE  SupersedeInv'
  BY <1>3 DEF InsertRow
<1>4. ASSUME NEW r \in Runs, InsertRowFails(r)  PROVE  SupersedeInv'
  BY <1>4 DEF InsertRowFails
<1>5. ASSUME NEW r \in Runs, EvictSlot(r)  PROVE  SupersedeInv'
  BY <1>5 DEF EvictSlot
<1>6. ASSUME NEW r \in Runs, MarkPriorSuperseded(r)  PROVE  SupersedeInv'
  BY <1>6 DEF MarkPriorSuperseded, Transition, TransitionLost, Accepts
<1>7. ASSUME NEW r \in Runs, FinishFanOut(r)  PROVE  SupersedeInv'
  BY <1>7 DEF FinishFanOut
<1>8. ASSUME NEW r \in Runs, PersistEventsAndRender(r)  PROVE  SupersedeInv'
  BY <1>8 DEF PersistEventsAndRender
<1>9. ASSUME NEW r \in Runs, PersistGuard(r)  PROVE  SupersedeInv'
  BY <1>9 DEF PersistGuard, SupersededByNow
<1>10. ASSUME NEW r \in Runs, InsertDraft(r)  PROVE  SupersedeInv'
  BY <1>10 DEF InsertDraft
<1>11. ASSUME NEW r \in Runs, InsertDraftFails(r)  PROVE  SupersedeInv'
  BY <1>11 DEF InsertDraftFails
<1>12. ASSUME NEW r \in Runs, MarkFinished(r)  PROVE  SupersedeInv'
  BY <1>12 DEF MarkFinished, Transition, TransitionLost, Accepts
<1>13. ASSUME NEW r \in Runs, ReadCancelReason(r)  PROVE  SupersedeInv'
  BY <1>13 DEF ReadCancelReason, SupersededByNow
<1>14. ASSUME NEW r \in Runs, MarkCancelledByUser(r)  PROVE  SupersedeInv'
  BY <1>14 DEF MarkCancelledByUser, Transition, TransitionLost, Accepts
<1>15. ASSUME NEW r \in Runs, MarkFailed(r)  PROVE  SupersedeInv'
  BY <1>15 DEF MarkFailed, Transition, TransitionLost, Accepts
<1>16. ASSUME NEW r \in Runs, DropInFlightIfOurs(r)  PROVE  SupersedeInv'
  BY <1>16 DEF DropInFlightIfOurs
<1>17. ASSUME NEW r \in Runs, Cancel(r)  PROVE  SupersedeInv'
  BY <1>17 DEF Cancel
<1>18. ASSUME NEW r \in Runs, RecoverRow(r)  PROVE  SupersedeInv'
  BY <1>18 DEF RecoverRow, Transition, Accepts
<1>19. CASE Crash
  BY <1>19 DEF Crash
<1>20. CASE ListRunning
  BY <1>20 DEF ListRunning
<1>21. CASE FinishRecovery
  BY <1>21 DEF FinishRecovery
<1>22. CASE AbortRecovery
  BY <1>22 DEF AbortRecovery
<1>23. CASE UNCHANGED vars
  BY <1>23 DEF vars
<1> QED  BY <1>1, <1>2, <1>3, <1>4, <1>5, <1>6, <1>7, <1>8, <1>9, <1>10, <1>11,
    <1>12, <1>13, <1>14, <1>15, <1>16, <1>17, <1>18, <1>19, <1>20, <1>21,
    <1>22, <1>23 DEF Next, Step, Boot

\* Every step keeps row, draft and outcome of a run consistent.  The writes
\* of the task itself, of its superseder and of the recovery sweep can only
\* meet a row that is still Running.
LEMMA OutcomeStep ==
    ASSUME IInv, [Next]_vars  PROVE  OutcomeInv'
<1> USE NilIsNoRun DEF IInv, TypeOK, ControlInv, SupersedeInv, OutcomeInv,
    RecoveryInv, Control, Live, Starting, Background, database, process,
    memory, locals, ghosts, At, Goto
<1>1. ASSUME NEW r \in Runs, NEW k \in Keys, SwapInFlight(r, k)  PROVE
    OutcomeInv'
  BY <1>1 DEF SwapInFlight, AfterSwap
<1>2. ASSUME NEW r \in Runs, FirePriorCancel(r)  PROVE  OutcomeInv'
  BY <1>2 DEF FirePriorCancel
<1>3. ASSUME NEW r \in Runs, InsertRow(r)  PROVE  OutcomeInv'
  BY <1>3 DEF InsertRow
<1>4. ASSUME NEW r \in Runs, InsertRowFails(r)  PROVE  OutcomeInv'
  BY <1>4 DEF InsertRowFails
<1>5. ASSUME NEW r \in Runs, EvictSlot(r)  PROVE  OutcomeInv'
  BY <1>5 DEF EvictSlot
<1>6. ASSUME NEW r \in Runs, MarkPriorSuperseded(r)  PROVE  OutcomeInv'
  BY <1>6 DEF MarkPriorSuperseded, Transition, TransitionLost, Accepts
<1>7. ASSUME NEW r \in Runs, FinishFanOut(r)  PROVE  OutcomeInv'
  BY <1>7 DEF FinishFanOut
<1>8. ASSUME NEW r \in Runs, PersistEventsAndRender(r)  PROVE  OutcomeInv'
  BY <1>8 DEF PersistEventsAndRender
<1>9. ASSUME NEW r \in Runs, PersistGuard(r)  PROVE  OutcomeInv'
  BY <1>9 DEF PersistGuard, SupersededByNow
<1>10. ASSUME NEW r \in Runs, InsertDraft(r)  PROVE  OutcomeInv'
  BY <1>10 DEF InsertDraft
<1>11. ASSUME NEW r \in Runs, InsertDraftFails(r)  PROVE  OutcomeInv'
  BY <1>11 DEF InsertDraftFails
<1>12. ASSUME NEW r \in Runs, MarkFinished(r)  PROVE  OutcomeInv'
  BY <1>12 DEF MarkFinished, Transition, TransitionLost, Accepts
<1>13. ASSUME NEW r \in Runs, ReadCancelReason(r)  PROVE  OutcomeInv'
  BY <1>13 DEF ReadCancelReason, SupersededByNow
<1>14. ASSUME NEW r \in Runs, MarkCancelledByUser(r)  PROVE  OutcomeInv'
  BY <1>14 DEF MarkCancelledByUser, Transition, TransitionLost, Accepts
<1>15. ASSUME NEW r \in Runs, MarkFailed(r)  PROVE  OutcomeInv'
  BY <1>15 DEF MarkFailed, Transition, TransitionLost, Accepts
<1>16. ASSUME NEW r \in Runs, DropInFlightIfOurs(r)  PROVE  OutcomeInv'
  BY <1>16 DEF DropInFlightIfOurs
<1>17. ASSUME NEW r \in Runs, Cancel(r)  PROVE  OutcomeInv'
  BY <1>17 DEF Cancel
<1>18. ASSUME NEW r \in Runs, RecoverRow(r)  PROVE  OutcomeInv'
  BY <1>18 DEF RecoverRow, Transition, Accepts
<1>19. CASE Crash
  BY <1>19 DEF Crash
<1>20. CASE ListRunning
  BY <1>20 DEF ListRunning
<1>21. CASE FinishRecovery
  BY <1>21 DEF FinishRecovery
<1>22. CASE AbortRecovery
  BY <1>22 DEF AbortRecovery
<1>23. CASE UNCHANGED vars
  BY <1>23 DEF vars
<1> QED  BY <1>1, <1>2, <1>3, <1>4, <1>5, <1>6, <1>7, <1>8, <1>9, <1>10, <1>11,
    <1>12, <1>13, <1>14, <1>15, <1>16, <1>17, <1>18, <1>19, <1>20, <1>21,
    <1>22, <1>23 DEF Next, Step, Boot

\* Every step keeps a run that lost its slot signalled, or about to be.
LEMMA SignalStep ==
    ASSUME IInv, [Next]_vars  PROVE  DisplacedRunIsSignalled'
<1> USE NilIsNoRun DEF IInv, TypeOK, ControlInv, PriorInv,
    DisplacedRunIsSignalled, Control, Live, Starting, Background, database,
    process, memory, locals, ghosts, At, Goto
<1>1. ASSUME NEW r \in Runs, NEW k \in Keys, SwapInFlight(r, k)  PROVE
    DisplacedRunIsSignalled'
  BY <1>1 DEF SwapInFlight, AfterSwap
<1>2. ASSUME NEW r \in Runs, FirePriorCancel(r)  PROVE
    DisplacedRunIsSignalled'
  BY <1>2 DEF FirePriorCancel
<1>3. ASSUME NEW r \in Runs, InsertRow(r)  PROVE  DisplacedRunIsSignalled'
  BY <1>3 DEF InsertRow
<1>4. ASSUME NEW r \in Runs, InsertRowFails(r)  PROVE  DisplacedRunIsSignalled'
  BY <1>4 DEF InsertRowFails
<1>5. ASSUME NEW r \in Runs, EvictSlot(r)  PROVE  DisplacedRunIsSignalled'
  BY <1>5 DEF EvictSlot
<1>6. ASSUME NEW r \in Runs, MarkPriorSuperseded(r)  PROVE
    DisplacedRunIsSignalled'
  BY <1>6 DEF MarkPriorSuperseded, Transition, TransitionLost, Accepts
<1>7. ASSUME NEW r \in Runs, FinishFanOut(r)  PROVE  DisplacedRunIsSignalled'
  BY <1>7 DEF FinishFanOut
<1>8. ASSUME NEW r \in Runs, PersistEventsAndRender(r)  PROVE
    DisplacedRunIsSignalled'
  BY <1>8 DEF PersistEventsAndRender
<1>9. ASSUME NEW r \in Runs, PersistGuard(r)  PROVE  DisplacedRunIsSignalled'
  BY <1>9 DEF PersistGuard, SupersededByNow
<1>10. ASSUME NEW r \in Runs, InsertDraft(r)  PROVE  DisplacedRunIsSignalled'
  BY <1>10 DEF InsertDraft
<1>11. ASSUME NEW r \in Runs, InsertDraftFails(r)  PROVE
    DisplacedRunIsSignalled'
  BY <1>11 DEF InsertDraftFails
<1>12. ASSUME NEW r \in Runs, MarkFinished(r)  PROVE  DisplacedRunIsSignalled'
  BY <1>12 DEF MarkFinished, Transition, TransitionLost, Accepts
<1>13. ASSUME NEW r \in Runs, ReadCancelReason(r)  PROVE
    DisplacedRunIsSignalled'
  BY <1>13 DEF ReadCancelReason, SupersededByNow
<1>14. ASSUME NEW r \in Runs, MarkCancelledByUser(r)  PROVE
    DisplacedRunIsSignalled'
  BY <1>14 DEF MarkCancelledByUser, Transition, TransitionLost, Accepts
<1>15. ASSUME NEW r \in Runs, MarkFailed(r)  PROVE  DisplacedRunIsSignalled'
  BY <1>15 DEF MarkFailed, Transition, TransitionLost, Accepts
<1>16. ASSUME NEW r \in Runs, DropInFlightIfOurs(r)  PROVE
    DisplacedRunIsSignalled'
  BY <1>16 DEF DropInFlightIfOurs
<1>17. ASSUME NEW r \in Runs, Cancel(r)  PROVE  DisplacedRunIsSignalled'
  BY <1>17 DEF Cancel
<1>18. ASSUME NEW r \in Runs, RecoverRow(r)  PROVE  DisplacedRunIsSignalled'
  BY <1>18 DEF RecoverRow, Transition, Accepts
<1>19. CASE Crash
  BY <1>19 DEF Crash
<1>20. CASE ListRunning
  BY <1>20 DEF ListRunning
<1>21. CASE FinishRecovery
  BY <1>21 DEF FinishRecovery
<1>22. CASE AbortRecovery
  BY <1>22 DEF AbortRecovery
<1>23. CASE UNCHANGED vars
  BY <1>23 DEF vars
<1> QED  BY <1>1, <1>2, <1>3, <1>4, <1>5, <1>6, <1>7, <1>8, <1>9, <1>10, <1>11,
    <1>12, <1>13, <1>14, <1>15, <1>16, <1>17, <1>18, <1>19, <1>20, <1>21,
    <1>22, <1>23 DEF Next, Step, Boot

\* Every step keeps track of who owes a row its terminal write.
LEMMA RecordStep ==
    ASSUME IInv, [Next]_vars  PROVE  RecordInv'
<1> USE NilIsNoRun DEF IInv, TypeOK, ControlInv, PriorInv, RecordInv,
    RecoveryInv, Control, Live, Starting, Background, MarkPending, Excused,
    database, process, memory, locals, ghosts, At, Goto
<1>1. ASSUME NEW r \in Runs, NEW k \in Keys, SwapInFlight(r, k)  PROVE
    RecordInv'
  BY <1>1 DEF SwapInFlight, AfterSwap
<1>2. ASSUME NEW r \in Runs, FirePriorCancel(r)  PROVE  RecordInv'
  BY <1>2 DEF FirePriorCancel
<1>3. ASSUME NEW r \in Runs, InsertRow(r)  PROVE  RecordInv'
  BY <1>3 DEF InsertRow
<1>4. ASSUME NEW r \in Runs, InsertRowFails(r)  PROVE  RecordInv'
  BY <1>4 DEF InsertRowFails
<1>5. ASSUME NEW r \in Runs, EvictSlot(r)  PROVE  RecordInv'
  BY <1>5 DEF EvictSlot
<1>6. ASSUME NEW r \in Runs, MarkPriorSuperseded(r)  PROVE  RecordInv'
  BY <1>6 DEF MarkPriorSuperseded, Transition, TransitionLost, Accepts
<1>7. ASSUME NEW r \in Runs, FinishFanOut(r)  PROVE  RecordInv'
  BY <1>7 DEF FinishFanOut
<1>8. ASSUME NEW r \in Runs, PersistEventsAndRender(r)  PROVE  RecordInv'
  BY <1>8 DEF PersistEventsAndRender
<1>9. ASSUME NEW r \in Runs, PersistGuard(r)  PROVE  RecordInv'
  BY <1>9 DEF PersistGuard, SupersededByNow
<1>10. ASSUME NEW r \in Runs, InsertDraft(r)  PROVE  RecordInv'
  BY <1>10 DEF InsertDraft
<1>11. ASSUME NEW r \in Runs, InsertDraftFails(r)  PROVE  RecordInv'
  BY <1>11 DEF InsertDraftFails
<1>12. ASSUME NEW r \in Runs, MarkFinished(r)  PROVE  RecordInv'
  BY <1>12 DEF MarkFinished, Transition, TransitionLost, Accepts
<1>13. ASSUME NEW r \in Runs, ReadCancelReason(r)  PROVE  RecordInv'
  BY <1>13 DEF ReadCancelReason, SupersededByNow
<1>14. ASSUME NEW r \in Runs, MarkCancelledByUser(r)  PROVE  RecordInv'
  BY <1>14 DEF MarkCancelledByUser, Transition, TransitionLost, Accepts
<1>15. ASSUME NEW r \in Runs, MarkFailed(r)  PROVE  RecordInv'
  BY <1>15 DEF MarkFailed, Transition, TransitionLost, Accepts
<1>16. ASSUME NEW r \in Runs, DropInFlightIfOurs(r)  PROVE  RecordInv'
  BY <1>16 DEF DropInFlightIfOurs
<1>17. ASSUME NEW r \in Runs, Cancel(r)  PROVE  RecordInv'
  BY <1>17 DEF Cancel
<1>18. ASSUME NEW r \in Runs, RecoverRow(r)  PROVE  RecordInv'
  BY <1>18 DEF RecoverRow, Transition, Accepts
<1>19. CASE Crash
  BY <1>19 DEF Crash
<1>20. CASE ListRunning
  BY <1>20 DEF ListRunning
<1>21. CASE FinishRecovery
  BY <1>21 DEF FinishRecovery
<1>22. CASE AbortRecovery
  BY <1>22 DEF AbortRecovery
<1>23. CASE UNCHANGED vars
  BY <1>23 DEF vars
<1> QED  BY <1>1, <1>2, <1>3, <1>4, <1>5, <1>6, <1>7, <1>8, <1>9, <1>10, <1>11,
    <1>12, <1>13, <1>14, <1>15, <1>16, <1>17, <1>18, <1>19, <1>20, <1>21,
    <1>22, <1>23 DEF Next, Step, Boot

\* Every step keeps the recovery sweep apart from live runs.
LEMMA RecoveryStep ==
    ASSUME IInv, [Next]_vars  PROVE  RecoveryInv'
<1> USE NilIsNoRun DEF IInv, TypeOK, ControlInv, RecoveryInv, Control, Live,
    Starting, Background, database, process, memory, locals, ghosts, At, Goto
<1>1. ASSUME NEW r \in Runs, NEW k \in Keys, SwapInFlight(r, k)  PROVE
    RecoveryInv'
  BY <1>1 DEF SwapInFlight, AfterSwap
<1>2. ASSUME NEW r \in Runs, FirePriorCancel(r)  PROVE  RecoveryInv'
  BY <1>2 DEF FirePriorCancel
<1>3. ASSUME NEW r \in Runs, InsertRow(r)  PROVE  RecoveryInv'
  BY <1>3 DEF InsertRow
<1>4. ASSUME NEW r \in Runs, InsertRowFails(r)  PROVE  RecoveryInv'
  BY <1>4 DEF InsertRowFails
<1>5. ASSUME NEW r \in Runs, EvictSlot(r)  PROVE  RecoveryInv'
  BY <1>5 DEF EvictSlot
<1>6. ASSUME NEW r \in Runs, MarkPriorSuperseded(r)  PROVE  RecoveryInv'
  BY <1>6 DEF MarkPriorSuperseded, Transition, TransitionLost, Accepts
<1>7. ASSUME NEW r \in Runs, FinishFanOut(r)  PROVE  RecoveryInv'
  BY <1>7 DEF FinishFanOut
<1>8. ASSUME NEW r \in Runs, PersistEventsAndRender(r)  PROVE  RecoveryInv'
  BY <1>8 DEF PersistEventsAndRender
<1>9. ASSUME NEW r \in Runs, PersistGuard(r)  PROVE  RecoveryInv'
  BY <1>9 DEF PersistGuard, SupersededByNow
<1>10. ASSUME NEW r \in Runs, InsertDraft(r)  PROVE  RecoveryInv'
  BY <1>10 DEF InsertDraft
<1>11. ASSUME NEW r \in Runs, InsertDraftFails(r)  PROVE  RecoveryInv'
  BY <1>11 DEF InsertDraftFails
<1>12. ASSUME NEW r \in Runs, MarkFinished(r)  PROVE  RecoveryInv'
  BY <1>12 DEF MarkFinished, Transition, TransitionLost, Accepts
<1>13. ASSUME NEW r \in Runs, ReadCancelReason(r)  PROVE  RecoveryInv'
  BY <1>13 DEF ReadCancelReason, SupersededByNow
<1>14. ASSUME NEW r \in Runs, MarkCancelledByUser(r)  PROVE  RecoveryInv'
  BY <1>14 DEF MarkCancelledByUser, Transition, TransitionLost, Accepts
<1>15. ASSUME NEW r \in Runs, MarkFailed(r)  PROVE  RecoveryInv'
  BY <1>15 DEF MarkFailed, Transition, TransitionLost, Accepts
<1>16. ASSUME NEW r \in Runs, DropInFlightIfOurs(r)  PROVE  RecoveryInv'
  BY <1>16 DEF DropInFlightIfOurs
<1>17. ASSUME NEW r \in Runs, Cancel(r)  PROVE  RecoveryInv'
  BY <1>17 DEF Cancel
<1>18. ASSUME NEW r \in Runs, RecoverRow(r)  PROVE  RecoveryInv'
  BY <1>18 DEF RecoverRow, Transition, Accepts
<1>19. CASE Crash
  BY <1>19 DEF Crash
<1>20. CASE ListRunning
  BY <1>20 DEF ListRunning
<1>21. CASE FinishRecovery
  BY <1>21 DEF FinishRecovery
<1>22. CASE AbortRecovery
  BY <1>22 DEF AbortRecovery
<1>23. CASE UNCHANGED vars
  BY <1>23 DEF vars
<1> QED  BY <1>1, <1>2, <1>3, <1>4, <1>5, <1>6, <1>7, <1>8, <1>9, <1>10, <1>11,
    <1>12, <1>13, <1>14, <1>15, <1>16, <1>17, <1>18, <1>19, <1>20, <1>21,
    <1>22, <1>23 DEF Next, Step, Boot

(***************************************************************************)
(* Theorems                                                                *)
(***************************************************************************)

\* The first boot starts from an empty database.
LEMMA InitInv == Init => IInv
<1> SUFFICES ASSUME Init  PROVE IInv
  OBVIOUS
<1> USE NilIsNoRun DEF Init, Ledger!Init, Live, Starting, Background
<1>1. TypeOK  BY DEF TypeOK, Ledger!RowStatus, Control, OutcomeStatus
<1>2. ControlInv /\ PriorInv /\ SlotHolderIsLive /\ SupersedeInv
  BY DEF ControlInv, PriorInv, SlotHolderIsLive, SupersedeInv
<1>3. OutcomeInv /\ DisplacedRunIsSignalled /\ RecordInv /\ RecoveryInv
  BY DEF OutcomeInv, DisplacedRunIsSignalled, RecordInv, RecoveryInv
<1> QED  BY <1>1, <1>2, <1>3 DEF IInv

\* The inductive invariant holds of every behaviour of the lifecycle.
THEOREM Invariance == Spec => []IInv
<1>1. IInv /\ [Next]_vars => IInv'
  BY TypeStep, ControlStep, PriorStep, SlotStep, SupersedeStep, OutcomeStep,
     SignalStep, RecordStep, RecoveryStep DEF IInv
<1> QED  BY InitInv, <1>1, PTL DEF Spec

\* Type correctness of the orchestrator's state.
THEOREM TypeCorrect == Spec => []TypeOK
<1>1. IInv => TypeOK  BY DEF IInv
<1> QED  BY Invariance, <1>1, PTL

\* No entry of the in-flight map outlives its task: each exit of
\* run_background leaves the slot to a live run or empty.
THEOREM NoLeakedSlot == Spec => []SlotHolderIsLive
<1>1. IInv => SlotHolderIsLive  BY DEF IInv
<1> QED  BY Invariance, <1>1, PTL

\* A run that a newer call displaced has its token fired, or is about to,
\* unless a failed start evicted it (swap_in_flight_and_cancel).
THEOREM DisplacedIsSignalled == Spec => []DisplacedRunIsSignalled
<1>1. IInv => DisplacedRunIsSignalled  BY DEF IInv
<1> QED  BY Invariance, <1>1, PTL

\* `superseded_by` is a one-to-one link to a stored run of the same key.
THEOREM SupersedeLink == Spec => []SupersedeLinkIsSound
<1>1. IInv => SupersedeLinkIsSound
  <2> SUFFICES ASSUME IInv, NEW r \in Runs, supersededBy[r] # Nil
               PROVE  LET q == supersededBy[r] IN
                      /\ status[r] = "Cancelled" /\ status[q] # "Absent"
                      /\ prior[q] = r /\ key[q] = key[r]
                      /\ \A s \in Runs \ {r} : supersededBy[s] # q
    BY DEF SupersedeLinkIsSound
  <2>1. supersededBy[r] \in Runs  BY DEF IInv, TypeOK
  <2>2. /\ status[r] = "Cancelled" /\ status[supersededBy[r]] # "Absent"
        /\ prior[supersededBy[r]] = r
    BY DEF IInv, SupersedeInv
  <2>3. key[supersededBy[r]] = key[r]
    BY <2>1, <2>2, NilIsNoRun DEF IInv, PriorInv
  <2>4. ASSUME NEW s \in Runs \ {r}  PROVE supersededBy[s] # supersededBy[r]
    BY <2>2, NilIsNoRun DEF IInv, SupersedeInv
  <2> QED  BY <2>2, <2>3, <2>4
<1> QED  BY Invariance, <1>1, PTL

\* What the caller was told, the row and the draft never contradict each
\* other, however the four writers of a row are interleaved.
THEOREM RowAndOutcomeAgree == Spec => []RowAgreesWithOutcome
<1>1. IInv => RowAgreesWithOutcome
  BY DEF IInv, OutcomeInv, RowAgreesWithOutcome
<1> QED  BY Invariance, <1>1, PTL

\* A task that ends with its row still Running has a superseder that owes the
\* write, or lost a write, or was evicted.
THEOREM UnrecordedHasCause == Spec => []UnrecordedRunHasCause
<1>1. IInv => UnrecordedRunHasCause
  BY DEF IInv, RecordInv, UnrecordedRunHasCause, Excused
<1> QED  BY Invariance, <1>1, PTL

\* The crash-recovery sweep rewrites exactly what earlier processes left
\* behind and never the row of a live run.
THEOREM RecoveryExact == Spec => []RecoveryIsExact
<1>1. IInv => RecoveryIsExact
  <2> SUFFICES ASSUME IInv  PROVE RecoveryIsExact
    OBVIOUS
  <2>1. ASSUME NEW r \in todo  PROVE pc[r] \in {"done", "lost"}
    <3>1. r \in Runs /\ proc = "booting"  BY DEF IInv, TypeOK, RecoveryInv
    <3>2. pc[r] \in Control /\ pc[r] \notin Live
      BY <3>1 DEF IInv, TypeOK, RecoveryInv
    <3>3. pc[r] # "idle"
      BY <3>1 DEF IInv, ControlInv, RecoveryInv
    <3> QED  BY <3>2, <3>3 DEF Control
  <2> QED  BY <2>1 DEF IInv, RecoveryInv, RecoveryIsExact
<1> QED  BY Invariance, <1>1, PTL

\* A row that is Running names no superseder, so the UPDATEs that write NULL
\* there change nothing.
LEMMA SupersededOnlyWhenCancelled ==
    ASSUME IInv, NEW r \in Runs, status[r] = "Running"
    PROVE  supersededBy[r] = Nil
BY DEF IInv, SupersedeInv

\* Whoever writes last, a terminal row keeps its status and its superseder
\* (SyncRunRepo::transition).
THEOREM TerminalRowIsFinal ==
    Spec => [][\A r \in Runs : status[r] \in Ledger!Terminal =>
                 /\ status'[r] = status[r]
                 /\ supersededBy'[r] = supersededBy[r]]_vars
<1> DEFINE Final == \A r \in Runs : status[r] \in Ledger!Terminal =>
                      /\ status'[r] = status[r]
                      /\ supersededBy'[r] = supersededBy[r]
<1>1. IInv /\ [Next]_vars => [Final]_vars
  <2> SUFFICES ASSUME IInv, [Next]_vars, NEW p \in Runs,
                      status[p] \in Ledger!Terminal
               PROVE  /\ status'[p] = status[p]
                      /\ supersededBy'[p] = supersededBy[p]
    OBVIOUS
  <2> USE DEF IInv, TypeOK, Ledger!Terminal, database
  <2>1. ASSUME NEW q \in Runs, NEW to, NEW by, Transition(q, to, by)
        PROVE  status'[p] = status[p] /\ supersededBy'[p] = supersededBy[p]
    BY <2>1 DEF Transition, Accepts
  <2>2. ASSUME NEW q, TransitionLost(q)
        PROVE  status'[p] = status[p] /\ supersededBy'[p] = supersededBy[p]
    BY <2>2 DEF TransitionLost
  <2>3. ASSUME NEW r \in Runs, InsertRow(r)
        PROVE  status'[p] = status[p] /\ supersededBy'[p] = supersededBy[p]
    BY <2>3 DEF InsertRow, At, ControlInv
  <2>4. ASSUME NEW r \in Runs, MarkPriorSuperseded(r)
        PROVE  status'[p] = status[p] /\ supersededBy'[p] = supersededBy[p]
    BY <2>1, <2>2, <2>4 DEF MarkPriorSuperseded, At, ControlInv
  <2>5. ASSUME NEW r \in Runs,
               MarkFinished(r) \/ MarkCancelledByUser(r) \/ MarkFailed(r)
        PROVE  status'[p] = status[p] /\ supersededBy'[p] = supersededBy[p]
    BY <2>1, <2>2, <2>5 DEF MarkFinished, MarkCancelledByUser, MarkFailed
  <2>6. ASSUME NEW r \in Runs, RecoverRow(r)
        PROVE  status'[p] = status[p] /\ supersededBy'[p] = supersededBy[p]
    BY <2>1, <2>6 DEF RecoverRow
  <2>7. CASE UNCHANGED <<status, supersededBy>>
    BY <2>7
  <2> QED
    BY <2>3, <2>4, <2>5, <2>6, <2>7
    DEF Next, Step, Boot, vars, SwapInFlight, FirePriorCancel, InsertRowFails,
        EvictSlot, FinishFanOut, PersistEventsAndRender, PersistGuard,
        InsertDraft, InsertDraftFails, ReadCancelReason, DropInFlightIfOurs,
        Cancel, Crash, ListRunning, FinishRecovery, AbortRecovery
<1> QED  BY Invariance, <1>1, PTL DEF Spec

\* The lifecycle implements the ledger: every step of a task, of a crash and
\* of the recovery sweep is one step of the two tables, or leaves them alone.
THEOREM Refinement == Spec => ImplementsLedger
<1>1. Init => Ledger!Init
  BY DEF Init
<1>2. IInv /\ [Next]_vars => [Ledger!Next]_(Ledger!ledger)
  <2> SUFFICES ASSUME IInv, [Next]_vars
               PROVE  Ledger!Next \/ UNCHANGED Ledger!ledger
    OBVIOUS
  <2> USE NilIsNoRun DEF IInv, TypeOK, ControlInv, OutcomeInv, Background,
          At, database, Ledger!ledger
  <2>1. ASSUME NEW r \in Runs, InsertRow(r)  PROVE Ledger!Open(r)
    BY <2>1 DEF InsertRow, Ledger!Open
  <2>2. ASSUME NEW r \in Runs, InsertDraft(r)  PROVE Ledger!StoreDraft(r)
    BY <2>2 DEF InsertDraft, Ledger!StoreDraft, Ledger!Superseded
  <2>3. ASSUME NEW r \in Runs, MarkFinished(r)
        PROVE  Ledger!Complete(r) \/ UNCHANGED Ledger!ledger
    BY <2>3, SupersededOnlyWhenCancelled
    DEF MarkFinished, Transition, TransitionLost, Accepts, Ledger!Complete
  <2>4. ASSUME NEW r \in Runs, MarkCancelledByUser(r)
        PROVE  Ledger!CancelByUser(r) \/ UNCHANGED Ledger!ledger
    BY <2>4, SupersededOnlyWhenCancelled
    DEF MarkCancelledByUser, Transition, TransitionLost, Accepts,
        Ledger!CancelByUser
  <2>5. ASSUME NEW r \in Runs, MarkFailed(r) \/ RecoverRow(r)
        PROVE  Ledger!Fail(r) \/ UNCHANGED Ledger!ledger
    BY <2>5, SupersededOnlyWhenCancelled
    DEF MarkFailed, RecoverRow, Transition, TransitionLost, Accepts,
        Ledger!Fail
  <2>6. ASSUME NEW r \in Runs, MarkPriorSuperseded(r)
        PROVE  Ledger!Supersede(prior[r], r) \/ UNCHANGED Ledger!ledger
    <3>1. /\ prior[r] \in Runs /\ prior[r] # r /\ status[r] # "Absent"
          /\ \A s \in Runs : supersededBy[s] # r
      BY <2>6 DEF MarkPriorSuperseded, PriorInv, SupersedeInv
    <3> QED
      BY <2>6, <3>1 DEF MarkPriorSuperseded, Transition, TransitionLost,
         Accepts, Ledger!Supersede
  <2>7. ASSUME NEW r \in Runs, MarkPriorSuperseded(r)  PROVE prior[r] \in Runs
    BY <2>7 DEF MarkPriorSuperseded
  <2>8. CASE UNCHANGED database
    BY <2>8
  <2> QED
    BY <2>1, <2>2, <2>3, <2>4, <2>5, <2>6, <2>7, <2>8
    DEF Next, Step, Boot, vars, SwapInFlight, FirePriorCancel, InsertRowFails,
        EvictSlot, FinishFanOut, PersistEventsAndRender, PersistGuard,
        InsertDraftFails, ReadCancelReason, DropInFlightIfOurs,
        Cancel, Crash, ListRunning, FinishRecovery, AbortRecovery,
        Ledger!Next
<1> QED  BY Invariance, <1>1, <1>2, PTL DEF Spec, ImplementsLedger, Ledger!Spec

\* Once the token of a fetching run is fired, its path is one of those that
\* never reach the draft insert.
Doomed(r) ==
    /\ r \notin drafts
    /\ \/ pc[r] = "fetch" /\ r \in fired
       \/ pc[r] \in {"cancelRead", "cancelWrite", "drop", "done", "lost"}

\* No step of anyone leads a doomed run back to its persistence path.
LEMMA DoomedStep ==
    ASSUME IInv, [Next]_vars, NEW p \in Runs, Doomed(p)
    PROVE  Doomed(p)'
<1> USE DEF Doomed, IInv, TypeOK, At, Goto, database, process, memory, locals
<1>1. ASSUME NEW r \in Runs, NEW k \in Keys, SwapInFlight(r, k)  PROVE
    Doomed(p)'
  BY <1>1 DEF SwapInFlight, AfterSwap
<1>2. ASSUME NEW r \in Runs, FirePriorCancel(r)  PROVE  Doomed(p)'
  BY <1>2 DEF FirePriorCancel
<1>3. ASSUME NEW r \in Runs, InsertRow(r)  PROVE  Doomed(p)'
  BY <1>3 DEF InsertRow
<1>4. ASSUME NEW r \in Runs, InsertRowFails(r)  PROVE  Doomed(p)'
  BY <1>4 DEF InsertRowFails
<1>5. ASSUME NEW r \in Runs, EvictSlot(r)  PROVE  Doomed(p)'
  BY <1>5 DEF EvictSlot
<1>6. ASSUME NEW r \in Runs, MarkPriorSuperseded(r)  PROVE  Doomed(p)'
  BY <1>6 DEF MarkPriorSuperseded, Transition, TransitionLost, Accepts
<1>7. ASSUME NEW r \in Runs, FinishFanOut(r)  PROVE  Doomed(p)'
  BY <1>7 DEF FinishFanOut
<1>8. ASSUME NEW r \in Runs, PersistEventsAndRender(r)  PROVE  Doomed(p)'
  BY <1>8 DEF PersistEventsAndRender
<1>9. ASSUME NEW r \in Runs, PersistGuard(r)  PROVE  Doomed(p)'
  BY <1>9 DEF PersistGuard, SupersededByNow
<1>10. ASSUME NEW r \in Runs, InsertDraft(r)  PROVE  Doomed(p)'
  BY <1>10 DEF InsertDraft
<1>11. ASSUME NEW r \in Runs, InsertDraftFails(r)  PROVE  Doomed(p)'
  BY <1>11 DEF InsertDraftFails
<1>12. ASSUME NEW r \in Runs, MarkFinished(r)  PROVE  Doomed(p)'
  BY <1>12 DEF MarkFinished, Transition, TransitionLost, Accepts
<1>13. ASSUME NEW r \in Runs, ReadCancelReason(r)  PROVE  Doomed(p)'
  BY <1>13 DEF ReadCancelReason, SupersededByNow
<1>14. ASSUME NEW r \in Runs, MarkCancelledByUser(r)  PROVE  Doomed(p)'
  BY <1>14 DEF MarkCancelledByUser, Transition, TransitionLost, Accepts
<1>15. ASSUME NEW r \in Runs, MarkFailed(r)  PROVE  Doomed(p)'
  BY <1>15 DEF MarkFailed, Transition, TransitionLost, Accepts
<1>16. ASSUME NEW r \in Runs, DropInFlightIfOurs(r)  PROVE  Doomed(p)'
  BY <1>16 DEF DropInFlightIfOurs
<1>17. ASSUME NEW r \in Runs, Cancel(r)  PROVE  Doomed(p)'
  BY <1>17 DEF Cancel
<1>18. ASSUME NEW r \in Runs, RecoverRow(r)  PROVE  Doomed(p)'
  BY <1>18 DEF RecoverRow, Transition, Accepts
<1>19. CASE Crash
  BY <1>19 DEF Crash, Live, Starting, Background
<1>20. CASE ListRunning
  BY <1>20 DEF ListRunning
<1>21. CASE FinishRecovery
  BY <1>21 DEF FinishRecovery
<1>22. CASE AbortRecovery
  BY <1>22 DEF AbortRecovery
<1>23. CASE UNCHANGED vars
  BY <1>23 DEF vars
<1> QED  BY <1>1, <1>2, <1>3, <1>4, <1>5, <1>6, <1>7, <1>8, <1>9, <1>10, <1>11,
    <1>12, <1>13, <1>14, <1>15, <1>16, <1>17, <1>18, <1>19, <1>20, <1>21,
    <1>22, <1>23 DEF Next, Step, Boot

\* A cancel that lands while the sources are fetched keeps the run from ever
\* storing a draft, crash or not (the is_cancelled test after the fan-out).
THEOREM CancelDropsReport == Spec => CancelWhileFetchingDropsReport
<1>1. ASSUME NEW r \in Runs
      PROVE  Spec => [](pc[r] = "fetch" /\ r \in fired => [](r \notin drafts))
  <2>1. IInv /\ pc[r] = "fetch" /\ r \in fired => Doomed(r)
    BY DEF Doomed, IInv, OutcomeInv
  <2>2. IInv /\ Doomed(r) /\ [Next]_vars => Doomed(r)'
    BY DoomedStep
  <2>3. Doomed(r) => r \notin drafts
    BY DEF Doomed
  <2> QED  BY Invariance, <2>1, <2>2, <2>3, PTL DEF Spec
<1> QED  BY <1>1 DEF CancelWhileFetchingDropsReport

\* The in-flight map and the cancel tokens agree.
THEOREM SlotsAreSound == Spec => []SlotIsSound
BY NoLeakedSlot, DisplacedIsSignalled, PTL DEF SlotIsSound

\* The rows of sync_runs agree with what the callers were told.
THEOREM TruthfulRows == Spec => []RowsAreTruthful
BY RowAndOutcomeAgree, UnrecordedHasCause, PTL DEF RowsAreTruthful

(***************************************************************************)
(* What ReportPipeline keeps of a day, for any number of sources and       *)
(* events: from the results to the merged events (folds over sequences),   *)
(* to the groups, to the bullets.                                          *)
(***************************************************************************)

Cat(acc, s) == acc \o s

Merging == INSTANCE FoldLemmas WITH op <- MergeCopy
Joining == INSTANCE FoldLemmas WITH op <- Cat

(***************************************************************************)
(* What the connectors returned                                            *)
(***************************************************************************)

\* The fold over the copies of a commit, unrolled.
LEMMA MergeUnrolls ==
    ASSUME NEW base, NEW n \in Nat, NEW s, DOMAIN s = 1 .. n
    PROVE  \E g : /\ g[0] = base
                  /\ \A k \in 1 .. n : g[k] = MergeCopy(g[k - 1], s[k])
                  /\ Merging!Fold(base, s) = g[n]
BY Merging!FoldLeftUnrolls

LEMMA JoinUnrolls ==
    ASSUME NEW base, NEW n \in Nat, NEW ss, DOMAIN ss = 1 .. n
    PROVE  \E g : /\ g[0] = base
                  /\ \A k \in 1 .. n : g[k] = Cat(g[k - 1], ss[k])
                  /\ Joining!Fold(base, ss) = g[n]
BY Joining!FoldLeftUnrolls

\* Sequences joined, unrolled.
LEMMA FlatUnrolls ==
    ASSUME NEW n \in Nat, NEW ss, DOMAIN ss = 1 .. n
    PROVE  \E g : /\ g[0] = <<>>
                  /\ \A k \in 1 .. n : g[k] = g[k - 1] \o ss[k]
                  /\ Flat(ss) = g[n]
<1>1. Flat(ss) = Joining!Fold(<<>>, ss)
  BY DEF Flat, Cat, Joining!Fold, Joining!MapThenFoldSet, Joining!Greatest,
         FoldLeft, MapThenFoldSet, Max
<1>2. PICK g : /\ g[0] = <<>>
               /\ \A k \in 1 .. n : g[k] = Cat(g[k - 1], ss[k])
               /\ Joining!Fold(<<>>, ss) = g[n]
  <2> DEFINE base == <<>>
  <2>1. \E g : /\ g[0] = base
               /\ \A k \in 1 .. n : g[k] = Cat(g[k - 1], ss[k])
               /\ Joining!Fold(base, ss) = g[n]
    <3> HIDE DEF base
    <3> QED BY JoinUnrolls
  <2> QED BY <2>1
<1>3. \A k \in 1 .. n : g[k] = g[k - 1] \o ss[k]
  BY <1>2 DEF Cat
<1> QED BY <1>1, <1>2, <1>3

IsList(s) == s \in Seq(ToSet(s))

\* Two lists joined have what either has.
LEMMA JoinedMembers ==
    ASSUME NEW a, NEW b, IsList(a), IsList(b)
    PROVE  \A x : x \in ToSet(a \o b) <=> x \in ToSet(a) \/ x \in ToSet(b)
<1> DEFINE V == ToSet(a) \cup ToSet(b)
<1>1. a \in Seq(V) /\ b \in Seq(V)
  <2>1. a \in Seq(ToSet(a)) /\ b \in Seq(ToSet(b)) /\ ToSet(a) \subseteq V /\ ToSet(b) \subseteq V
    BY DEF IsList
  <2> QED BY <2>1
<1> HIDE DEF V
<1>2. DOMAIN (a \o b) = 1 .. Len(a) + Len(b) /\ DOMAIN a = 1 .. Len(a) /\ DOMAIN b = 1 .. Len(b)
      /\ Len(a) \in Nat /\ Len(b) \in Nat
  BY <1>1
<1> SUFFICES ASSUME NEW x PROVE x \in ToSet(a \o b) <=> x \in ToSet(a) \/ x \in ToSet(b)
  OBVIOUS
<1>3. ASSUME x \in ToSet(a \o b) PROVE x \in ToSet(a) \/ x \in ToSet(b)
  <2>1. PICK i \in 1 .. Len(a) + Len(b) : x = (a \o b)[i]
    BY <1>2, <1>3 DEF ToSet
  <2>2. CASE i <= Len(a)
    BY <1>1, <1>2, <2>1, <2>2 DEF ToSet
  <2>3. CASE i > Len(a)
    <3>1. i - Len(a) \in DOMAIN b /\ x = b[i - Len(a)]
      BY <1>1, <1>2, <2>1, <2>3
    <3> QED BY <3>1 DEF ToSet
  <2> QED BY <1>2, <2>1, <2>2, <2>3
<1>4. ASSUME x \in ToSet(a) PROVE x \in ToSet(a \o b)
  <2>1. PICK i \in 1 .. Len(a) : x = a[i]
    BY <1>2, <1>4 DEF ToSet
  <2>2. i \in 1 .. Len(a) + Len(b) /\ x = (a \o b)[i]
    BY <1>1, <1>2, <2>1
  <2> QED BY <1>2, <2>2 DEF ToSet
<1>5. ASSUME x \in ToSet(b) PROVE x \in ToSet(a \o b)
  <2>1. PICK i \in 1 .. Len(b) : x = b[i]
    BY <1>2, <1>5 DEF ToSet
  <2>2. i + Len(a) \in 1 .. Len(a) + Len(b) /\ x = (a \o b)[i + Len(a)]
    BY <1>1, <1>2, <2>1
  <2> QED BY <1>2, <2>2 DEF ToSet
<1> QED BY <1>3, <1>4, <1>5

\* Joined lists are a list, of what each of them has.
LEMMA FlatMembers ==
    ASSUME NEW n \in Nat, NEW ss, DOMAIN ss = 1 .. n, \A k \in 1 .. n : IsList(ss[k])
    PROVE  /\ IsList(Flat(ss))
           /\ \A x : x \in ToSet(Flat(ss)) <=> \E k \in 1 .. n : x \in ToSet(ss[k])
<1>1. PICK g : /\ g[0] = <<>>
               /\ \A k \in 1 .. n : g[k] = g[k - 1] \o ss[k]
               /\ Flat(ss) = g[n]
  BY FlatUnrolls
<1> DEFINE V == UNION {ToSet(ss[k]) : k \in 1 .. n}
           Good(k) == k \in 0 .. n =>
                        /\ g[k] \in Seq(V)
                        /\ \A x : x \in ToSet(g[k]) <=> \E j \in 1 .. k : x \in ToSet(ss[j])
           S == {k \in Nat : Good(k)}
<1>2. 0 \in S
  <2>1. \A x : x \notin ToSet(<<>>)
    BY DEF ToSet
  <2>2. 1 .. 0 = {} /\ g[0] \in Seq(V)
    BY <1>1
  <2> QED BY <1>1, <2>1, <2>2
<1>3. ASSUME NEW k \in S PROVE k + 1 \in S
  <2> SUFFICES ASSUME k + 1 \in 0 .. n PROVE Good(k + 1)
    OBVIOUS
  <2>1. k \in 0 .. n /\ k + 1 \in 1 .. n /\ Good(k)
    OBVIOUS
  <2>2. g[k + 1] = g[k] \o ss[k + 1]
    <3>1. (k + 1) - 1 = k
      OBVIOUS
    <3> QED BY <1>1, <2>1, <3>1
  <2>3. ss[k + 1] \in Seq(V)
    <3>1. ss[k + 1] \in Seq(ToSet(ss[k + 1])) /\ ToSet(ss[k + 1]) \subseteq V
      BY <2>1 DEF IsList
    <3> QED BY <3>1
  <2>4. g[k + 1] \in Seq(V)
    BY <2>1, <2>2, <2>3
  <2>5. \A x : x \in ToSet(g[k + 1]) <=> x \in ToSet(g[k]) \/ x \in ToSet(ss[k + 1])
    <3> DEFINE a == g[k]
               b == ss[k + 1]
    <3>1. a \in Seq(V) /\ b \in Seq(V) /\ g[k + 1] = a \o b
      BY <2>1, <2>2, <2>3
    <3> HIDE DEF a, b, V
    <3>2. IsList(a) /\ IsList(b)
      BY <3>1 DEF IsList, ToSet
    <3>3. \A x : x \in ToSet(a \o b) <=> x \in ToSet(a) \/ x \in ToSet(b)
      BY <3>2, JoinedMembers
    <3> QED BY <3>1, <3>3 DEF a, b
  <2>6. ASSUME NEW x
        PROVE  x \in ToSet(g[k + 1]) <=> \E j \in 1 .. k + 1 : x \in ToSet(ss[j])
    <3>1. (\E j \in 1 .. k + 1 : x \in ToSet(ss[j]))
            <=> (\E j \in 1 .. k : x \in ToSet(ss[j])) \/ x \in ToSet(ss[k + 1])
      <4>1. \A j : j \in 1 .. k + 1 <=> j \in 1 .. k \/ j = k + 1
        BY <2>1
      <4> QED BY <4>1
    <3> QED BY <2>1, <2>5, <3>1
  <2> QED BY <2>4, <2>6
<1>4. n \in S
  <2> HIDE DEF S
  <2>1. S \in SUBSET Nat
    BY DEF S
  <2> QED BY <1>2, <1>3, <2>1, Joining!Induction
<1>5. g[n] \in Seq(V) /\ \A x : x \in ToSet(g[n]) <=> \E j \in 1 .. n : x \in ToSet(ss[j])
  BY <1>4
<1>6. \A q \in Seq(V) : q \in Seq(ToSet(q))
  BY DEF ToSet
<1> QED BY <1>1, <1>5, <1>6 DEF IsList

\* An event as a connector makes it, or the pipeline leaves it.
IsEvent(e) == EventFields \subseteq DOMAIN e /\ e.at \in Int /\ e.private \in BOOLEAN

\* A result of the day has the event.
OfDay(e) == \E s \in DOMAIN day.results : e \in ToSet(day.results[s].events)

\* What is joined of the sources that answered is the day's: events and
\* artifacts under the sources' ids.
LEMMA JoinedResults ==
    ASSUME day \in Days, NEW order \in Seq(DOMAIN day.results)
    PROVE  /\ IsList(JoinedEvents(order)) /\ IsList(JoinedArtifacts(order))
           /\ \A e \in ToSet(JoinedEvents(order)) :
                IsEvent(e) /\ OfDay(e) /\ e.src \in DOMAIN day.results
           /\ \A a \in ToSet(JoinedArtifacts(order)) :
                /\ a.src \in DOMAIN day.results
                /\ \A id \in a.ids : id[3] = "CommitAuthored"
<1> DEFINE n == Len(order)
           es == [i \in DOMAIN order |-> day.results[order[i]].events]
           as == [i \in DOMAIN order |-> day.results[order[i]].artifacts]
<1>1. n \in Nat /\ DOMAIN order = 1 .. n /\ DOMAIN es = 1 .. n /\ DOMAIN as = 1 .. n
      /\ \A k \in 1 .. n : order[k] \in DOMAIN day.results
  OBVIOUS
<1>2. \A k \in 1 .. n : es[k] = day.results[order[k]].events /\ as[k] = day.results[order[k]].artifacts
  BY <1>1
<1>3. ASSUME NEW s \in DOMAIN day.results
      PROVE  /\ IsList(day.results[s].events) /\ IsList(day.results[s].artifacts)
             /\ \A e \in ToSet(day.results[s].events) : IsEvent(e) /\ e.src = s
             /\ \A a \in ToSet(day.results[s].artifacts) :
                  a.src = s /\ \A id \in a.ids : id[3] = "CommitAuthored"
  BY <1>3, DaysAssumption DEF IsList, IsEvent
<1> HIDE DEF es, as, n
<1>4. (\A k \in 1 .. n : IsList(es[k])) /\ (\A k \in 1 .. n : IsList(as[k]))
  BY <1>1, <1>2, <1>3
<1>5. /\ IsList(Flat(es))
      /\ \A x : x \in ToSet(Flat(es)) <=> \E k \in 1 .. n : x \in ToSet(es[k])
  BY <1>1, <1>4, FlatMembers
<1>6. /\ IsList(Flat(as))
      /\ \A x : x \in ToSet(Flat(as)) <=> \E k \in 1 .. n : x \in ToSet(as[k])
  BY <1>1, <1>4, FlatMembers
<1>7. JoinedEvents(order) = Flat(es) /\ JoinedArtifacts(order) = Flat(as)
  BY DEF JoinedEvents, JoinedArtifacts, es, as
<1>8. ASSUME NEW e \in ToSet(JoinedEvents(order))
      PROVE  IsEvent(e) /\ OfDay(e) /\ e.src \in DOMAIN day.results
  <2>1. PICK k \in 1 .. n : e \in ToSet(es[k])
    BY <1>5, <1>7
  <2>2. PICK s \in DOMAIN day.results : s = order[k]
    BY <1>1
  <2>3. e \in ToSet(day.results[s].events)
    BY <1>2, <2>1, <2>2
  <2>4. IsEvent(e) /\ e.src = s
    BY <1>3, <2>3
  <2> QED BY <2>3, <2>4 DEF OfDay
<1>9. ASSUME NEW a \in ToSet(JoinedArtifacts(order))
      PROVE  a.src \in DOMAIN day.results /\ \A id \in a.ids : id[3] = "CommitAuthored"
  <2>1. PICK k \in 1 .. n : a \in ToSet(as[k])
    BY <1>6, <1>7
  <2>2. PICK s \in DOMAIN day.results : s = order[k]
    BY <1>1
  <2>3. a \in ToSet(day.results[s].artifacts)
    BY <1>2, <2>1, <2>2
  <2> QED BY <1>3, <2>3
<1> QED BY <1>5, <1>6, <1>7, <1>8, <1>9

\* Of an event that a source marked private the number is a commit's only.
LEMMA PrivateIsCommit ==
    ASSUME day \in Days, NEW e, OfDay(e), e.private, NEW f, OfDay(f), f.ext = e.ext
    PROVE  f.kind = "CommitAuthored"
BY DaysAssumption DEF OfDay

(***************************************************************************)
(* dedup                                                                   *)
(***************************************************************************)

\* Two copies of a commit become one of that commit, private if either is, from
\* the source of one of them; the user's if both are.
LEMMA MergeTwoKeeps ==
    ASSUME NEW a, NEW b, IsEvent(a), IsEvent(b), SameCommit(a, b)
    PROVE  LET m == MergeTwo(a, b)
           IN /\ IsEvent(m) /\ m.ext = a.ext /\ m.kind = a.kind
              /\ m.private <=> a.private \/ b.private
              /\ \/ m.src = a.src /\ a.repo \in {m.repo, None}
                 \/ m.src = b.src /\ b.repo \in {m.repo, None}
              /\ EventIsSelf(a) /\ EventIsSelf(b) => EventIsSelf(m)
<1>1. ASSUME NEW w, NEW l, IsEvent(w), IsEvent(l), SameCommit(w, l)
      PROVE  LET m == Absorb(w, l)
             IN /\ IsEvent(m) /\ m.ext = w.ext /\ m.kind = w.kind
                /\ m.private <=> w.private \/ l.private
                /\ m.src = w.src /\ w.repo \in {m.repo, None}
                /\ EventIsSelf(w) => EventIsSelf(m)
  <2> DEFINE m == Absorb(w, l)
  <2>1. /\ DOMAIN m = DOMAIN w /\ m.ext = w.ext /\ m.kind = w.kind /\ m.src = w.src /\ m.at = w.at
        /\ m.private = LouderPrivacy(w, l) /\ m.repo = OrElse(w.repo, l.repo)
        /\ m.email = OrElse(w.email, l.email) /\ m.account = OrElse(w.account, l.account)
    BY <1>1 DEF Absorb, IsEvent, EventFields
  <2> HIDE DEF m
  <2>2. IsEvent(m) /\ (m.private <=> w.private \/ l.private)
    BY <1>1, <2>1 DEF IsEvent, LouderPrivacy
  <2>3. w.repo \in {m.repo, None}
    BY <2>1 DEF OrElse
  <2>4. EventIsSelf(w) => EventIsSelf(m)
    BY <2>1, MeAssumption DEF EventIsSelf, OrElse
  <2> QED BY <2>1, <2>2, <2>3, <2>4 DEF m
<1>2. SameCommit(b, a) /\ b.ext = a.ext /\ b.kind = a.kind
  BY DEF SameCommit
<1>3. MergeTwo(a, b) = Absorb(a, b) \/ MergeTwo(a, b) = Absorb(b, a)
  BY DEF MergeTwo
<1> QED BY <1>1, <1>2, <1>3

Copy(s, i, j) == j = i \/ SameCommit(s[i], s[j])

\* What the event at place i has taken in of the places up to last.
MergedUpTo(m, s, i, last) ==
    /\ IsEvent(m) /\ m.ext = s[i].ext /\ m.kind = s[i].kind
    /\ m.kind # "CommitAuthored" => m = s[i]
    /\ m.private <=> \E j \in i .. last : Copy(s, i, j) /\ s[j].private
    /\ \E j \in i .. last : Copy(s, i, j) /\ m.src = s[j].src /\ s[j].repo \in {m.repo, None}
    /\ (\A j \in i .. Len(s) : Copy(s, i, j) => EventIsSelf(s[j])) => EventIsSelf(m)

\* One more event is taken in, or passed by.
LEMMA MergeStep ==
    ASSUME NEW s, IsList(s), \A j \in DOMAIN s : IsEvent(s[j]),
           NEW i \in DOMAIN s, NEW p \in i .. Len(s), p + 1 \in DOMAIN s,
           NEW m, MergedUpTo(m, s, i, p)
    PROVE  MergedUpTo(MergeCopy(m, s[p + 1]), s, i, p + 1)
<1> DEFINE e == s[p + 1]
           q == MergeCopy(m, e)
<1>1. DOMAIN s = 1 .. Len(s) /\ Len(s) \in Nat /\ i \in Nat /\ p \in Nat
      /\ i .. p \subseteq i .. p + 1 /\ p + 1 \in i .. p + 1 /\ p + 1 \in i .. Len(s)
  BY DEF IsList
<1>2. \A j \in i .. p + 1 : j \in i .. p \/ j = p + 1
  BY <1>1
<1>3. SameCommit(m, e) <=> SameCommit(s[i], e)
  BY DEF MergedUpTo, SameCommit
<1>4. Copy(s, i, p + 1) <=> SameCommit(s[i], e)
  BY <1>1 DEF Copy
<1>5. CASE ~SameCommit(s[i], e)
  <2>1. q = m
    BY <1>3, <1>5 DEF MergeCopy
  <2>2. m.private <=> \E j \in i .. p + 1 : Copy(s, i, j) /\ s[j].private
    BY <1>1, <1>2, <1>4, <1>5 DEF MergedUpTo
  <2>3. \E j \in i .. p + 1 : Copy(s, i, j) /\ m.src = s[j].src /\ s[j].repo \in {m.repo, None}
    BY <1>1 DEF MergedUpTo
  <2> QED BY <2>1, <2>2, <2>3 DEF MergedUpTo
<1>6. CASE SameCommit(s[i], e)
  <2>1. SameCommit(m, e) /\ IsEvent(m) /\ IsEvent(e)
    BY <1>3, <1>6 DEF MergedUpTo
  <2>2. q = MergeTwo(m, e)
    BY <2>1 DEF MergeCopy
  <2>3. /\ IsEvent(q) /\ q.ext = m.ext /\ q.kind = m.kind
        /\ q.private <=> m.private \/ e.private
        /\ \/ q.src = m.src /\ m.repo \in {q.repo, None}
           \/ q.src = e.src /\ e.repo \in {q.repo, None}
        /\ EventIsSelf(m) /\ EventIsSelf(e) => EventIsSelf(q)
    BY <2>1, <2>2, MergeTwoKeeps
  <2> HIDE DEF q
  <2>4. q.ext = s[i].ext /\ q.kind = s[i].kind /\ q.kind = "CommitAuthored"
    BY <1>6, <2>3 DEF MergedUpTo, SameCommit
  <2>5. q.private <=> \E j \in i .. p + 1 : Copy(s, i, j) /\ s[j].private
    BY <1>1, <1>2, <1>4, <1>6, <2>3 DEF MergedUpTo
  <2>6. \E j \in i .. p + 1 : Copy(s, i, j) /\ q.src = s[j].src /\ s[j].repo \in {q.repo, None}
    <3>1. CASE q.src = m.src /\ m.repo \in {q.repo, None}
      <4>1. PICK j \in i .. p : Copy(s, i, j) /\ m.src = s[j].src /\ s[j].repo \in {m.repo, None}
        BY DEF MergedUpTo
      <4>2. j \in i .. p + 1 /\ q.src = s[j].src /\ s[j].repo \in {q.repo, None}
        BY <1>1, <3>1, <4>1
      <4> QED BY <4>1, <4>2
    <3>2. CASE q.src = e.src /\ e.repo \in {q.repo, None}
      BY <1>1, <1>4, <1>6, <3>2
    <3> QED BY <2>3, <3>1, <3>2
  <2>7. (\A j \in i .. Len(s) : Copy(s, i, j) => EventIsSelf(s[j])) => EventIsSelf(q)
    BY <1>1, <1>4, <1>6, <2>3 DEF MergedUpTo
  <2>8. MergedUpTo(q, s, i, p + 1)
    BY <2>3, <2>4, <2>5, <2>6, <2>7 DEF MergedUpTo
  <2> QED BY <2>8 DEF q
<1> QED BY <1>5, <1>6

\* What stays at place i is what all its copies make.
LEMMA DedupMerges ==
    ASSUME NEW s, IsList(s), \A j \in DOMAIN s : IsEvent(s[j]),
           NEW i \in DOMAIN DedupCommitAuthored(s)
    PROVE  /\ i \in DOMAIN s /\ \A j \in 1 .. i - 1 : ~SameCommit(s[j], s[i])
           /\ MergedUpTo(DedupCommitAuthored(s)[i], s, i, Len(s))
<1> DEFINE rest == SubSeq(s, i + 1, Len(s))
           n == Len(s) - i
<1>1. DedupCommitAuthored(s) =
        [k \in {k \in DOMAIN s : \A j \in 1 .. k - 1 : ~SameCommit(s[j], s[k])} |->
            Merging!Fold(s[k], SubSeq(s, k + 1, Len(s)))]
  BY DEF DedupCommitAuthored, Merging!Fold, Merging!MapThenFoldSet, Merging!Greatest,
         FoldLeft, MapThenFoldSet, Max
<1>2. i \in DOMAIN s /\ (\A j \in 1 .. i - 1 : ~SameCommit(s[j], s[i]))
      /\ DedupCommitAuthored(s)[i] = Merging!Fold(s[i], rest)
  BY <1>1
<1>3. DOMAIN s = 1 .. Len(s) /\ Len(s) \in Nat /\ i \in Nat /\ n \in Nat
  BY <1>2 DEF IsList
<1>4. DOMAIN rest = 1 .. n /\ \A k \in 1 .. n : rest[k] = s[i + k]
  BY <1>3 DEF IsList
<1> HIDE DEF rest, n
<1>5. PICK g : /\ g[0] = s[i]
               /\ \A k \in 1 .. n : g[k] = MergeCopy(g[k - 1], rest[k])
               /\ Merging!Fold(s[i], rest) = g[n]
  <2> DEFINE base == s[i]
  <2>1. \E g : /\ g[0] = base
               /\ \A k \in 1 .. n : g[k] = MergeCopy(g[k - 1], rest[k])
               /\ Merging!Fold(base, rest) = g[n]
    <3>1. n \in Nat /\ DOMAIN rest = 1 .. n
      BY <1>3, <1>4
    <3> HIDE DEF base
    <3> QED BY ONLY <3>1, MergeUnrolls
  <2> QED BY <2>1
<1> DEFINE Good(k) == k <= n => MergedUpTo(g[k], s, i, i + k)
           S == {k \in Nat : Good(k)}
<1>6. 0 \in S
  <2>1. i .. i + 0 = {i} /\ i \in i .. Len(s)
    BY <1>2, <1>3
  <2>2. Copy(s, i, i)
    BY DEF Copy
  <2> QED BY <1>2, <1>5, <2>1, <2>2 DEF MergedUpTo
<1>7. ASSUME NEW k \in S PROVE k + 1 \in S
  <2> SUFFICES ASSUME k + 1 <= n PROVE MergedUpTo(g[k + 1], s, i, i + (k + 1))
    OBVIOUS
  <2>1. k \in Nat /\ k + 1 \in 1 .. n /\ (k + 1) - 1 = k /\ k <= n
    BY <1>3
  <2>2. g[k + 1] = MergeCopy(g[k], s[i + (k + 1)])
    BY <1>4, <1>5, <2>1
  <2>3. i + k \in i .. Len(s) /\ (i + k) + 1 \in DOMAIN s /\ (i + k) + 1 = i + (k + 1)
    BY <1>3, <2>1 DEF n
  <2>4. MergedUpTo(g[k], s, i, i + k)
    BY <2>1
  <2> QED BY <1>2, <2>2, <2>3, <2>4, MergeStep
<1>8. n \in S
  <2> HIDE DEF S
  <2>1. S \in SUBSET Nat
    BY DEF S
  <2> QED BY <1>3, <1>6, <1>7, <2>1, Merging!Induction
<1>9. i + n = Len(s)
  BY <1>3 DEF n
<1> QED BY <1>2, <1>3, <1>5, <1>8, <1>9

\* Of every event of the list the first copy stays.
LEMMA FirstCopyStays ==
    ASSUME NEW s, IsList(s), NEW j \in DOMAIN s
    PROVE  \E i \in DOMAIN DedupCommitAuthored(s) : i <= j /\ Copy(s, i, j)
<1> DEFINE T == {i \in 1 .. j : Copy(s, i, j)}
<1>1. DOMAIN s = 1 .. Len(s) /\ Len(s) \in Nat /\ j \in Nat
  BY DEF IsList
<1>2. j \in T /\ T \subseteq Nat
  BY <1>1 DEF Copy
<1>3. PICK i \in T : \A k \in T : ~(<<k, i>> \in Merging!OpToRel(<, Nat))
  <2> HIDE DEF T
  <2>1. T \subseteq Nat /\ T # {}
    BY <1>2
  <2> QED BY <2>1, Merging!WFMin, Merging!NatLessThanWellFounded
<1>4. \A k \in T : ~(k < i)
  BY <1>2, <1>3 DEF Merging!OpToRel
<1>5. ASSUME NEW k \in 1 .. i - 1, SameCommit(s[k], s[i]) PROVE FALSE
  <2>1. k \in 1 .. j /\ k < i
    BY <1>1, <1>5
  <2>2. SameCommit(s[k], s[j])
    BY <1>5 DEF Copy, SameCommit
  <2> QED BY <1>4, <2>1, <2>2 DEF Copy
<1>6. i \in DOMAIN DedupCommitAuthored(s)
  BY <1>1, <1>5 DEF DedupCommitAuthored
<1> QED BY <1>1, <1>6

(***************************************************************************)
(* enrich                                                                  *)
(***************************************************************************)

\* The fields that enrichment leaves alone.
Kept(m, e) ==
    /\ IsEvent(m) /\ m.src = e.src /\ m.ext = e.ext /\ m.kind = e.kind /\ m.at = e.at
    /\ m.private = e.private /\ m.repo = e.repo /\ m.item = e.item
    /\ m.email = e.email /\ m.account = e.account

LEMMA EnrichKeeps ==
    ASSUME NEW e, IsEvent(e), NEW s
    PROVE  /\ Kept(ExtractTicketKeys(e), e) /\ Kept(ExtractGithubPrUrls(e), e)
           /\ Kept(AnnotateTransition(s, e), e)
<1> USE DEF IsEvent, EventFields
<1>1. \A x : Kept([e EXCEPT !.keys = x], e) /\ Kept([e EXCEPT !.prs = x], e)
             /\ Kept([e EXCEPT !.parent = x], e) /\ Kept(e, e)
  BY DEF Kept
<1>2. Kept(ExtractTicketKeys(e), e)
  BY <1>1 DEF ExtractTicketKeys
<1>3. Kept(ExtractGithubPrUrls(e), e)
  BY <1>1 DEF ExtractGithubPrUrls
<1>4. Kept(AnnotateTransition(s, e), e)
  BY <1>1 DEF AnnotateTransition
<1> QED BY <1>2, <1>3, <1>4

\* What the pipeline makes of the event at place i.
Stays(m, s, i) ==
    /\ IsEvent(m) /\ m.ext = s[i].ext /\ m.kind = s[i].kind
    /\ m.kind # "CommitAuthored" => Kept(m, s[i])
    /\ m.private <=> \E j \in i .. Len(s) : Copy(s, i, j) /\ s[j].private
    /\ \E j \in i .. Len(s) : Copy(s, i, j) /\ m.src = s[j].src /\ s[j].repo \in {m.repo, None}
    /\ (\A j \in i .. Len(s) : Copy(s, i, j) => EventIsSelf(s[j])) => EventIsSelf(m)

\* The merged and enriched events: one for every event of the list, one for all
\* copies of a commit.
LEMMA PipelineKeeps ==
    ASSUME NEW s, IsList(s), \A j \in DOMAIN s : IsEvent(s[j])
    PROVE  LET p == Pipeline(s)
           IN /\ DOMAIN p \subseteq DOMAIN s
              /\ \A i \in DOMAIN p : Stays(p[i], s, i)
              /\ \A j \in DOMAIN s : \E i \in DOMAIN p : i <= j /\ Copy(s, i, j)
              /\ \A i, k \in DOMAIN p : SameCommit(p[i], p[k]) => i = k
<1> DEFINE once  == DedupCommitAuthored(s)
           keyed == [i \in DOMAIN once |-> ExtractGithubPrUrls(ExtractTicketKeys(once[i]))]
           p     == [i \in DOMAIN keyed |-> AnnotateTransition(keyed, keyed[i])]
<1>1. Pipeline(s) = p
  <2>1. \A x, y : (CHOOSE z \in {y} : TRUE) = y
    OBVIOUS
  <2> QED BY DEF Pipeline, Once
<1>2. DOMAIN p = DOMAIN once /\ DOMAIN once \subseteq DOMAIN s /\ DOMAIN s = 1 .. Len(s)
      /\ Len(s) \in Nat
  BY DEF DedupCommitAuthored, IsList
<1>3. ASSUME NEW i \in DOMAIN once
      PROVE  /\ \A j \in 1 .. i - 1 : ~SameCommit(s[j], s[i])
             /\ MergedUpTo(once[i], s, i, Len(s))
  BY DedupMerges
<1>4. ASSUME NEW i \in DOMAIN once PROVE Kept(p[i], once[i])
  <2> DEFINE a == ExtractTicketKeys(once[i])
             b == ExtractGithubPrUrls(a)
  <2>1. IsEvent(once[i])
    BY <1>3 DEF MergedUpTo
  <2>2. Kept(a, once[i])
    BY <2>1, EnrichKeeps
  <2>3. Kept(b, a)
    <3>1. IsEvent(a)
      BY <2>2 DEF Kept
    <3> HIDE DEF a
    <3> QED BY <3>1, EnrichKeeps
  <2>4. Kept(AnnotateTransition(keyed, b), b)
    <3>1. IsEvent(b)
      BY <2>3 DEF Kept
    <3> HIDE DEF b, keyed
    <3> QED BY <3>1, EnrichKeeps
  <2>5. p[i] = AnnotateTransition(keyed, b)
    <3>1. keyed[i] = b /\ DOMAIN keyed = DOMAIN once
      OBVIOUS
    <3> HIDE DEF b, keyed, once
    <3> QED BY <3>1
  <2> HIDE DEF a, b, once, keyed, p
  <2> QED BY <2>2, <2>3, <2>4, <2>5 DEF Kept
<1> HIDE DEF once, keyed, p
<1>5. ASSUME NEW i \in DOMAIN p PROVE Stays(p[i], s, i)
  BY <1>2, <1>3, <1>4 DEF MergedUpTo, Stays, Kept, EventIsSelf
<1>6. ASSUME NEW j \in DOMAIN s PROVE \E i \in DOMAIN p : i <= j /\ Copy(s, i, j)
  BY <1>2, FirstCopyStays DEF once
<1>7. ASSUME NEW i \in DOMAIN p, NEW k \in DOMAIN p, SameCommit(p[i], p[k]) PROVE i = k
  <2>1. SameCommit(s[i], s[k]) /\ SameCommit(s[k], s[i])
    BY <1>5, <1>7 DEF Stays, SameCommit
  <2>2. i \in 1 .. Len(s) /\ k \in 1 .. Len(s)
    BY <1>2
  <2>3. ~(i < k) /\ ~(k < i)
    BY <1>2, <1>3, <2>1, <2>2
  <2> QED BY <1>2, <2>2, <2>3
<1> QED BY <1>1, <1>2, <1>5, <1>6, <1>7

(***************************************************************************)
(* rollup                                                                  *)
(***************************************************************************)

\* Of the events with one id one is there, the last.
LEMMA EventByIdFacts ==
    ASSUME NEW n \in Nat, NEW s, DOMAIN s \subseteq 1 .. n, NEW places \in SUBSET DOMAIN s
    PROVE  /\ \A e \in EventById(s, places) : \E i \in places : e = s[i]
           /\ \A i \in places : \E e \in EventById(s, places) : IdOf(e) = IdOf(s[i])
           /\ \A e, f \in EventById(s, places) : IdOf(e) = IdOf(f) => e = f
<1> DEFINE lasts == {j \in places : \A k \in places : k > j => IdOf(s[k]) # IdOf(s[j])}
<1>1. EventById(s, places) = {s[i] : i \in lasts}
  BY DEF EventById
<1>2. \A i \in places : i \in 1 .. n
  OBVIOUS
<1>3. ASSUME NEW i \in places PROVE \E e \in EventById(s, places) : IdOf(e) = IdOf(s[i])
  <2> DEFINE same == {k \in places : IdOf(s[k]) = IdOf(s[i])}
             last == Merging!Greatest(same)
  <2>1. same \in SUBSET (1 .. n) /\ same # {}
    BY <1>2
  <2>2. last \in same /\ \A k \in same : last >= k
    <3> HIDE DEF same
    <3> QED BY <2>1, Merging!MaxUpTo
  <2> HIDE DEF last
  <2>3. last \in lasts
    <3>1. ASSUME NEW k \in places, k > last PROVE IdOf(s[k]) # IdOf(s[last])
      <4>1. CASE k \in same
        BY <1>2, <2>2, <3>1, <4>1
      <4>2. CASE k \notin same
        BY <2>2, <4>2
      <4> QED BY <4>1, <4>2
    <3> QED BY <2>2, <3>1
  <2>4. s[last] \in EventById(s, places)
    BY <1>1, <2>3
  <2>5. IdOf(s[last]) = IdOf(s[i])
    BY <2>2
  <2> QED BY <2>4, <2>5
<1>4. ASSUME NEW e \in EventById(s, places), NEW f \in EventById(s, places), IdOf(e) = IdOf(f)
      PROVE  e = f
  <2>1. PICK i \in lasts : e = s[i]
    BY <1>1
  <2>2. PICK j \in lasts : f = s[j]
    BY <1>1
  <2>3. i \in 1 .. n /\ j \in 1 .. n /\ ~(i < j) /\ ~(j < i)
    BY <1>2, <1>4, <2>1, <2>2
  <2>4. i = j
    BY <2>3
  <2> QED BY <2>1, <2>2, <2>4
<1> QED BY <1>1, <1>3, <1>4

Unclaimed(all, artifacts) == {e \in all : \A i \in DOMAIN artifacts : IdOf(e) \notin artifacts[i].ids}

GroupsOf(all, artifacts) ==
    Claimed(all, artifacts) \cup Orphans(Unclaimed(all, artifacts), Len(artifacts))

GroupKinds ==
    {"CommitSet", "MergeRequest", "Meeting", "JiraIssue", "ConfluencePage"}

\* Artifacts as the day's sources return them.
AreArtifacts(artifacts) ==
    /\ IsList(artifacts)
    /\ \A i \in DOMAIN artifacts :
         artifacts[i].src \in Nat \ {0} /\ \A id \in artifacts[i].ids : id[3] = "CommitAuthored"

\* What a group is of says what its events are.
LEMMA OrphanKinds ==
    ASSUME NEW e
    PROVE  /\ OrphanOf(e)[1] \in GroupKinds
           /\ e.kind = "CommitAuthored" => OrphanOf(e) = <<"CommitSet", e.repo>>
           /\ OrphanOf(e)[1] = "CommitSet" => OrphanOf(e) = <<"CommitSet", e.repo>>
<1> USE DEF OrphanOf, GroupKinds, GroupKeyOf, JiraKinds, ConfluenceKinds, MrGroupKinds, PrGroupKinds
<1>1. OrphanOf(e)[1] \in GroupKinds
  OBVIOUS
<1>2. e.kind = "CommitAuthored" => OrphanOf(e) = <<"CommitSet", e.repo>>
  OBVIOUS
<1>3. OrphanOf(e)[1] = "CommitSet" => OrphanOf(e) = <<"CommitSet", e.repo>>
  OBVIOUS
<1> QED BY <1>1, <1>2, <1>3

\* The groups before commit sets are merged: what each is, and that every event
\* is in one.
GroupOK(g, all, artifacts) ==
    /\ DOMAIN g = {"key", "place", "events"}
    /\ g.events \subseteq all
    /\ g.place \in Nat /\ g.key.src \in Nat \ {0}
    /\ g.key.of[1] \in GroupKinds
    /\ \A e \in g.events : e.kind = "CommitAuthored" => g.key.of[1] = "CommitSet"
    /\ \/ /\ \E a \in ToSet(artifacts) : g.key = ArtifactKey(a)
          /\ \A e \in g.events : e.kind = "CommitAuthored"
       \/ /\ g.place = Len(artifacts) + g.key.src
          /\ g.events # {} /\ \A e \in g.events : g.key = OrphanKey(e)

LEMMA GroupsAreOK ==
    ASSUME NEW all, NEW artifacts, AreArtifacts(artifacts), \A e \in all : e.src \in Nat \ {0},
           NEW g \in GroupsOf(all, artifacts)
    PROVE  GroupOK(g, all, artifacts)
<1>1. DOMAIN artifacts = 1 .. Len(artifacts) /\ Len(artifacts) \in Nat
  BY DEF AreArtifacts, IsList
<1>2. CASE g \in Claimed(all, artifacts)
  <2>1. PICK i \in DOMAIN artifacts :
          g = [key |-> ArtifactKey(artifacts[i]), place |-> i,
               events |-> {e \in all : /\ IdOf(e) \in artifacts[i].ids
                                       /\ \A j \in 1 .. i - 1 : IdOf(e) \notin artifacts[j].ids}]
    BY <1>2 DEF Claimed
  <2>2. /\ g.key = ArtifactKey(artifacts[i]) /\ g.place = i /\ g.events \subseteq all
        /\ \A e \in g.events : IdOf(e) \in artifacts[i].ids
        /\ DOMAIN g = {"key", "place", "events"}
    BY <2>1
  <2>3. artifacts[i].src \in Nat \ {0} /\ \A id \in artifacts[i].ids : id[3] = "CommitAuthored"
    BY DEF AreArtifacts
  <2>4. \A e \in g.events : e.kind = "CommitAuthored"
    BY <2>2, <2>3 DEF IdOf
  <2>5. g.key.of[1] = "CommitSet" /\ g.key.src = artifacts[i].src
    BY <2>2 DEF ArtifactKey, Group
  <2>6. artifacts[i] \in ToSet(artifacts) /\ i \in Nat
    BY <1>1 DEF ToSet
  <2> QED BY <2>2, <2>3, <2>4, <2>5, <2>6 DEF GroupOK, GroupKinds
<1>3. CASE g \in Orphans(Unclaimed(all, artifacts), Len(artifacts))
  <2> DEFINE rest == Unclaimed(all, artifacts)
  <2>1. PICK k \in {OrphanKey(e) : e \in rest} :
          g = [key |-> k, place |-> Len(artifacts) + k.src, events |-> {e \in rest : OrphanKey(e) = k}]
    BY <1>3 DEF Orphans
  <2>2. PICK f \in rest : k = OrphanKey(f)
    OBVIOUS
  <2>3. rest \subseteq all
    BY DEF Unclaimed
  <2> HIDE DEF rest
  <2>4. /\ g.key = k /\ g.place = Len(artifacts) + k.src /\ g.events = {e \in rest : OrphanKey(e) = k}
        /\ DOMAIN g = {"key", "place", "events"}
    BY <2>1
  <2>5. k.src \in Nat \ {0} /\ k.src = f.src /\ k.of = OrphanOf(f)
    BY <2>2, <2>3 DEF OrphanKey, Group
  <2>6. g.events # {} /\ g.events \subseteq all /\ \A e \in g.events : g.key = OrphanKey(e)
    BY <2>2, <2>3, <2>4
  <2>7. \A e \in g.events : g.key.of = OrphanOf(e)
    <3>1. \A e : OrphanKey(e).of = OrphanOf(e)
      BY DEF OrphanKey, Group
    <3> QED BY <2>6, <3>1
  <2>8. g.key.of[1] \in GroupKinds
    BY <2>4, <2>5, OrphanKinds
  <2>9. \A e \in g.events : e.kind = "CommitAuthored" => g.key.of[1] = "CommitSet"
    BY <2>7, OrphanKinds
  <2>10. g.place \in Nat
    BY <1>1, <2>4, <2>5
  <2> QED BY <2>4, <2>5, <2>6, <2>8, <2>9, <2>10 DEF GroupOK
<1> QED BY <1>2, <1>3 DEF GroupsOf

\* Two groups of one commit set have different places, and no two groups share
\* an event.
LEMMA GroupsAreApart ==
    ASSUME NEW all, NEW artifacts, AreArtifacts(artifacts), \A e \in all : e.src \in Nat \ {0},
           NEW g \in GroupsOf(all, artifacts), NEW h \in GroupsOf(all, artifacts)
    PROVE  /\ SameSet(g, h) /\ g.place = h.place => g = h
           /\ (\E e : e \in g.events /\ e \in h.events) => g = h
<1> DEFINE place(i) == [key |-> ArtifactKey(artifacts[i]), place |-> i,
                        events |-> {e \in all : /\ IdOf(e) \in artifacts[i].ids
                                                /\ \A j \in 1 .. i - 1 : IdOf(e) \notin artifacts[j].ids}]
           rest == Unclaimed(all, artifacts)
           bucket(k) == [key |-> k, place |-> Len(artifacts) + k.src,
                         events |-> {e \in rest : OrphanKey(e) = k}]
           C == Claimed(all, artifacts)
           O == Orphans(rest, Len(artifacts))
           N == Len(artifacts)
<1>1. DOMAIN artifacts = 1 .. N /\ N \in Nat
  BY DEF AreArtifacts, IsList
<1>2. \A x \in C : \E i \in 1 .. N :
        /\ x = place(i) /\ x.place = i
        /\ \A e \in x.events : /\ IdOf(e) \in artifacts[i].ids
                               /\ \A j \in 1 .. i - 1 : IdOf(e) \notin artifacts[j].ids
  BY <1>1 DEF Claimed
<1>3. \A x \in O : \E k : /\ x = bucket(k) /\ x.key = k /\ x.place = N + k.src /\ k.src \in Nat \ {0}
                          /\ \A e \in x.events : e \in rest /\ OrphanKey(e) = k
  <2>1. \A e \in rest : OrphanKey(e).src \in Nat \ {0}
    BY DEF OrphanKey, Group, Unclaimed
  <2>2. O = {bucket(k) : k \in {OrphanKey(e) : e \in rest}}
    BY DEF Orphans
  <2> HIDE DEF rest, O
  <2> SUFFICES ASSUME NEW x \in O
               PROVE  \E k : /\ x = bucket(k) /\ x.key = k /\ x.place = N + k.src /\ k.src \in Nat \ {0}
                             /\ \A e \in x.events : e \in rest /\ OrphanKey(e) = k
    OBVIOUS
  <2>3. PICK e \in rest : x = bucket(OrphanKey(e))
    BY <2>2
  <2> DEFINE k == OrphanKey(e)
  <2>4. k.src \in Nat \ {0}
    BY <2>1
  <2> HIDE DEF k
  <2>5. x = bucket(k)
    BY <2>3 DEF k
  <2>6. x.key = k /\ x.place = N + k.src /\ x.events = {f \in rest : OrphanKey(f) = k}
    BY <2>5
  <2>7. \A f \in x.events : f \in rest /\ OrphanKey(f) = k
    BY <2>6
  <2> QED BY <2>4, <2>5, <2>6, <2>7
<1>4. \A e \in rest : \A i \in 1 .. N : IdOf(e) \notin artifacts[i].ids
  BY <1>1 DEF Unclaimed
<1>5. GroupsOf(all, artifacts) = C \cup O
  BY DEF GroupsOf
<1> HIDE DEF C, O, N, rest
<1>6. CASE g \in C /\ h \in C
  <2>1. PICK i \in 1 .. N : /\ g = place(i) /\ g.place = i
           /\ \A e \in g.events : /\ IdOf(e) \in artifacts[i].ids
                                  /\ \A j \in 1 .. i - 1 : IdOf(e) \notin artifacts[j].ids
    BY <1>2, <1>6
  <2>2. PICK k \in 1 .. N : /\ h = place(k) /\ h.place = k
           /\ \A e \in h.events : /\ IdOf(e) \in artifacts[k].ids
                                  /\ \A j \in 1 .. k - 1 : IdOf(e) \notin artifacts[j].ids
    BY <1>2, <1>6
  <2>3. ASSUME NEW e, e \in g.events, e \in h.events PROVE i = k
    <3>1. ~(i < k) /\ ~(k < i)
      BY <1>1, <2>1, <2>2, <2>3
    <3> QED BY <1>1, <3>1
  <2> HIDE DEF place
  <2> QED BY <2>1, <2>2, <2>3
<1>7. CASE g \in O /\ h \in O
  <2>1. PICK k : /\ g = bucket(k) /\ g.key = k /\ g.place = N + k.src /\ k.src \in Nat \ {0}
                 /\ \A e \in g.events : e \in rest /\ OrphanKey(e) = k
    BY <1>3, <1>7
  <2>2. PICK l : /\ h = bucket(l) /\ h.key = l /\ h.place = N + l.src /\ l.src \in Nat \ {0}
                 /\ \A e \in h.events : e \in rest /\ OrphanKey(e) = l
    BY <1>3, <1>7
  <2>3. (\E e : e \in g.events /\ e \in h.events) => k = l
    BY <2>1, <2>2
  <2>4. ASSUME SameSet(g, h), g.place = h.place PROVE k = l
    <3>1. k.src = l.src
      BY <1>1, <2>1, <2>2, <2>4
    <3>2. k.of = l.of /\ k.date = l.date
      BY <2>1, <2>2, <2>4 DEF SameSet
    <3>3. \A x \in O : \E e : x.key = OrphanKey(e)
      BY DEF O, Orphans
    <3>4. PICK e, f : k = OrphanKey(e) /\ l = OrphanKey(f)
      BY <1>7, <2>1, <2>2, <3>3
    <3> QED BY <3>1, <3>2, <3>4 DEF OrphanKey, Group
  <2> HIDE DEF bucket
  <2> QED BY <2>1, <2>2, <2>3, <2>4
<1>8. ASSUME NEW x \in C, NEW y \in O
      PROVE  x.place < y.place /\ \A e : ~(e \in x.events /\ e \in y.events)
  <2>1. PICK i \in 1 .. N : x.place = i /\ \A e \in x.events : IdOf(e) \in artifacts[i].ids
    BY <1>2
  <2>2. PICK k : y.place = N + k.src /\ k.src \in Nat \ {0} /\ \A e \in y.events : e \in rest
    BY <1>3
  <2> QED BY <1>1, <1>4, <2>1, <2>2
<1>9. \A x \in C \cup O : x.place \in Nat
  BY <1>1, <1>2, <1>3
<1> QED BY <1>5, <1>6, <1>7, <1>8, <1>9

\* Every event is in a group; one that no artifact can claim is in its bucket.
LEMMA EventsAreGrouped ==
    ASSUME NEW all, NEW artifacts, AreArtifacts(artifacts), NEW e \in all
    PROVE  /\ \E g \in GroupsOf(all, artifacts) : e \in g.events
           /\ e.kind # "CommitAuthored" =>
                \E g \in GroupsOf(all, artifacts) : e \in g.events /\ g.key = OrphanKey(e)
<1> DEFINE N == Len(artifacts)
           rest == Unclaimed(all, artifacts)
<1>1. DOMAIN artifacts = 1 .. N /\ N \in Nat
  BY DEF AreArtifacts, IsList
<1>2. ASSUME e \in rest
      PROVE  \E g \in GroupsOf(all, artifacts) : e \in g.events /\ g.key = OrphanKey(e)
  <2> DEFINE g == [key |-> OrphanKey(e), place |-> N + OrphanKey(e).src,
                   events |-> {f \in rest : OrphanKey(f) = OrphanKey(e)}]
  <2>1. g \in GroupsOf(all, artifacts)
    BY <1>2 DEF GroupsOf, Orphans
  <2>2. e \in g.events /\ g.key = OrphanKey(e)
    BY <1>2
  <2> HIDE DEF g
  <2> QED BY <2>1, <2>2
<1>3. e.kind # "CommitAuthored" => e \in rest
  BY DEF Unclaimed, AreArtifacts, IdOf
<1>4. ASSUME e \notin rest PROVE \E g \in GroupsOf(all, artifacts) : e \in g.events
  <2> DEFINE T == {i \in 1 .. N : IdOf(e) \in artifacts[i].ids}
  <2>1. T # {} /\ T \subseteq Nat
    BY <1>1, <1>4 DEF Unclaimed
  <2>2. PICK i \in T : \A k \in T : ~(<<k, i>> \in Merging!OpToRel(<, Nat))
    <3> HIDE DEF T
    <3> QED BY <2>1, Merging!WFMin, Merging!NatLessThanWellFounded
  <2>3. \A k \in T : ~(k < i)
    BY <2>1, <2>2 DEF Merging!OpToRel
  <2>4. \A j \in 1 .. i - 1 : IdOf(e) \notin artifacts[j].ids
    BY <1>1, <2>3
  <2> DEFINE g == [key |-> ArtifactKey(artifacts[i]), place |-> i,
                   events |-> {f \in all : /\ IdOf(f) \in artifacts[i].ids
                                           /\ \A j \in 1 .. i - 1 : IdOf(f) \notin artifacts[j].ids}]
  <2>5. g \in GroupsOf(all, artifacts)
    BY <1>1 DEF GroupsOf, Claimed
  <2>6. e \in g.events
    BY <2>4
  <2> HIDE DEF g
  <2> QED BY <2>5, <2>6
<1> QED BY <1>2, <1>3, <1>4

\* Of some events one is the earliest.
LEMMA EarliestExists ==
    ASSUME NEW n \in Nat, NEW s, DOMAIN s \subseteq 1 .. n, \A i \in DOMAIN s : s[i].at \in Int,
           NEW E, E # {}, \A e \in E : \E i \in DOMAIN s : e = s[i]
    PROVE  \E e \in E : \A f \in E : e.at <= f.at
<1> DEFINE Good(k) == \A I \in SUBSET (DOMAIN s \cap 1 .. k) :
                         I # {} => \E i \in I : \A j \in I : s[i].at <= s[j].at
           S == {k \in Nat : Good(k)}
<1>1. 0 \in S
  <2>1. 1 .. 0 = {}
    OBVIOUS
  <2> QED BY <2>1
<1>2. ASSUME NEW k \in S PROVE k + 1 \in S
  <2> SUFFICES ASSUME NEW I \in SUBSET (DOMAIN s \cap 1 .. k + 1), I # {}
               PROVE  \E i \in I : \A j \in I : s[i].at <= s[j].at
    OBVIOUS
  <2> DEFINE J == I \ {k + 1}
  <2>1. k \in Nat /\ Good(k) /\ J \in SUBSET (DOMAIN s \cap 1 .. k)
    <3>1. k \in Nat /\ Good(k)
      OBVIOUS
    <3>2. \A j : j \in 1 .. k + 1 /\ j # k + 1 => j \in 1 .. k
      BY <3>1
    <3>3. J \in SUBSET (DOMAIN s \cap 1 .. k)
      <4> HIDE DEF Good, S
      <4> QED BY <3>2
    <3> QED BY <3>1, <3>3
  <2>2. \A j \in I : j \in J \/ j = k + 1
    OBVIOUS
  <2>3. \A j \in I : s[j].at \in Int
    OBVIOUS
  <2>4. CASE J = {}
    BY <2>2, <2>3, <2>4
  <2>5. CASE J # {}
    <3>1. PICK i \in J : \A j \in J : s[i].at <= s[j].at
      BY <2>1, <2>5
    <3> HIDE DEF J
    <3>2. i \in I
      BY <3>1 DEF J
    <3>3. CASE k + 1 \notin I
      BY <2>2, <3>1, <3>2, <3>3
    <3>4. CASE k + 1 \in I /\ s[i].at <= s[k + 1].at
      BY <2>2, <3>1, <3>2, <3>4
    <3>5. CASE k + 1 \in I /\ ~(s[i].at <= s[k + 1].at)
      <4>1. \A j \in J : j \in I
        BY DEF J
      <4>2. \A j \in I : s[k + 1].at <= s[j].at
        BY <2>2, <2>3, <3>1, <3>2, <3>5, <4>1
      <4> QED BY <3>5, <4>2
    <3> QED BY <3>3, <3>4, <3>5
  <2> QED BY <2>4, <2>5
<1>3. n \in S
  <2> HIDE DEF S
  <2>1. S \in SUBSET Nat
    BY DEF S
  <2> QED BY <1>1, <1>2, <2>1, Merging!Induction
<1> DEFINE I == {i \in DOMAIN s : s[i] \in E}
<1>4. I \in SUBSET (DOMAIN s \cap 1 .. n) /\ I # {}
  OBVIOUS
<1>5. PICK i \in I : \A j \in I : s[i].at <= s[j].at
  BY <1>3, <1>4
<1>6. \A f \in E : s[i].at <= f.at
  BY <1>5
<1> QED BY <1>5, <1>6

\* What the lemmas on merging need of the groups.
Mergeable(G) ==
    /\ \A g \in G : DOMAIN g = {"key", "place", "events"} /\ g.place \in Nat
    /\ \A g, h \in G : SameSet(g, h) /\ g.place = h.place => g = h
    /\ \A g, h \in G : (\E e : e \in g.events /\ e \in h.events) => g = h
    /\ \A g \in G : \A E \in SUBSET g.events : E # {} => \E e \in E : \A f \in E : e.at <= f.at

IsFirst(g, G) == \A h \in G : SameSet(g, h) => g.place <= h.place

BeforeIt(h, G) == UNION {g.events : g \in {g \in G : SameSet(g, h) /\ g.place < h.place}}

TakenBy(g, G) ==
    UNION {TakenFrom(h, ExtsOf(BeforeIt(h, G))) : h \in {h \in G : SameSet(g, h) /\ g.place < h.place}}

LEMMA FirstOfFacts ==
    ASSUME NEW G, Mergeable(G), NEW h \in G, NEW ext \in ExtsOf(h.events)
    PROVE  FirstOf(h, ext) \in h.events /\ FirstOf(h, ext).ext = ext
<1> DEFINE E == {e \in h.events : e.ext = ext}
<1>1. E \in SUBSET h.events /\ E # {}
  BY DEF ExtsOf
<1>2. PICK e \in E : \A f \in E : e.at <= f.at
  BY <1>1 DEF Mergeable
<1>3. \E x \in h.events : x.ext = ext /\ \A f \in h.events : f.ext = ext => x.at <= f.at
  BY <1>2
<1> QED BY <1>3 DEF FirstOf

\* A merged group is a first one with what it takes, all of it of its own set.
LEMMA MergedGroups ==
    ASSUME NEW G, Mergeable(G), NEW m \in MergeDuplicateCommitSets(G)
    PROVE  \E g \in G : /\ IsFirst(g, G) /\ m.key = g.key /\ m.events = g.events \cup TakenBy(g, G)
                        /\ \A e \in m.events : \E h \in G : e \in h.events /\ (h = g \/ SameSet(g, h))
<1>1. PICK g \in G : IsFirst(g, G) /\ m = [g EXCEPT !.events = @ \cup TakenBy(g, G)]
  BY DEF MergeDuplicateCommitSets, IsFirst, BeforeIt, TakenBy
<1>2. DOMAIN g = {"key", "place", "events"}
  BY DEF Mergeable
<1>3. m.key = g.key /\ m.events = g.events \cup TakenBy(g, G)
  BY <1>1, <1>2
<1>4. ASSUME NEW e \in TakenBy(g, G) PROVE \E h \in G : e \in h.events /\ SameSet(g, h)
  <2>1. PICK h \in G : SameSet(g, h) /\ e \in TakenFrom(h, ExtsOf(BeforeIt(h, G)))
    BY DEF TakenBy
  <2>2. PICK ext \in ExtsOf(h.events) : e = FirstOf(h, ext)
    BY <2>1 DEF TakenFrom
  <2> QED BY <2>1, <2>2, FirstOfFacts
<1> QED BY <1>1, <1>3, <1>4

\* No event is in two merged groups.
LEMMA MergedAreApart ==
    ASSUME NEW G, Mergeable(G), NEW m \in MergeDuplicateCommitSets(G),
           NEW q \in MergeDuplicateCommitSets(G), NEW e, e \in m.events, e \in q.events
    PROVE  m = q
<1>1. PICK g \in G : IsFirst(g, G) /\ m = [g EXCEPT !.events = @ \cup TakenBy(g, G)]
  BY DEF MergeDuplicateCommitSets, IsFirst, BeforeIt, TakenBy
<1>2. PICK h \in G : IsFirst(h, G) /\ q = [h EXCEPT !.events = @ \cup TakenBy(h, G)]
  BY DEF MergeDuplicateCommitSets, IsFirst, BeforeIt, TakenBy
<1>3. ASSUME NEW x \in G, NEW c \in MergeDuplicateCommitSets(G), e \in c.events,
             c = [x EXCEPT !.events = @ \cup TakenBy(x, G)]
      PROVE  \E y \in G : e \in y.events /\ (y = x \/ SameSet(x, y))
  <2>1. DOMAIN x = {"key", "place", "events"}
    BY DEF Mergeable
  <2>2. e \in x.events \/ e \in TakenBy(x, G)
    BY <1>3, <2>1
  <2>3. CASE e \in TakenBy(x, G)
    <3>1. PICK y \in G : SameSet(x, y) /\ e \in TakenFrom(y, ExtsOf(BeforeIt(y, G)))
      BY <2>3 DEF TakenBy
    <3>2. PICK ext \in ExtsOf(y.events) : e = FirstOf(y, ext)
      BY <3>1 DEF TakenFrom
    <3> QED BY <3>1, <3>2, FirstOfFacts
  <2> QED BY <2>2, <2>3
<1>4. PICK y \in G : e \in y.events /\ (y = g \/ SameSet(g, y))
  BY <1>1, <1>3
<1>5. PICK z \in G : e \in z.events /\ (z = h \/ SameSet(h, z))
  BY <1>2, <1>3
<1>6. y = z
  BY <1>4, <1>5 DEF Mergeable
<1>7. g = h \/ (SameSet(g, h) /\ SameSet(h, g))
  BY <1>4, <1>5, <1>6 DEF SameSet
<1>8. g = h
  <2>1. ASSUME SameSet(g, h), SameSet(h, g) PROVE g.place = h.place
    <3>1. g.place <= h.place /\ h.place <= g.place
      BY <1>1, <1>2, <2>1 DEF IsFirst
    <3>2. g.place \in Nat /\ h.place \in Nat
      BY DEF Mergeable
    <3> QED BY <3>1, <3>2
  <2> QED BY <1>7, <2>1 DEF Mergeable
<1> QED BY <1>1, <1>2, <1>8

\* An event of a first group is told, and so is one that shares its number with no
\* other of its commit set.
LEMMA MergedHasAll ==
    ASSUME NEW G, Mergeable(G), NEW h \in G, NEW e \in h.events,
           ~IsFirst(h, G) =>
             \A k \in G : (k = h \/ SameSet(k, h)) => \A f \in k.events : f.ext = e.ext => f = e
    PROVE  \E m \in MergeDuplicateCommitSets(G) : e \in m.events
<1>1. CASE IsFirst(h, G)
  <2> DEFINE m == [h EXCEPT !.events = @ \cup TakenBy(h, G)]
  <2>1. m \in MergeDuplicateCommitSets(G)
    BY <1>1 DEF MergeDuplicateCommitSets, IsFirst, BeforeIt, TakenBy
  <2>2. DOMAIN h = {"key", "place", "events"}
    BY DEF Mergeable
  <2>3. e \in m.events
    BY <2>2
  <2> HIDE DEF m
  <2> QED BY <2>1, <2>3
<1>2. CASE ~IsFirst(h, G)
  <2> DEFINE T == {k \in G : SameSet(h, k)}
             P == {k.place : k \in T}
  <2>1. P \subseteq Nat /\ P # {}
    BY <1>2 DEF IsFirst, Mergeable
  <2>2. PICK p \in P : \A r \in P : ~(<<r, p>> \in Merging!OpToRel(<, Nat))
    <3> HIDE DEF P
    <3> QED BY <2>1, Merging!WFMin, Merging!NatLessThanWellFounded
  <2>3. \A r \in P : p <= r
    <3> HIDE DEF P
    <3>1. \A r \in P : ~(r < p)
      BY <2>1, <2>2 DEF Merging!OpToRel
    <3> QED BY <2>1, <3>1
  <2>4. PICK g \in T : p = g.place
    OBVIOUS
  <2>5. g \in G /\ SameSet(h, g) /\ SameSet(g, h)
    BY DEF SameSet
  <2>6. IsFirst(g, G)
    <3> SUFFICES ASSUME NEW k \in G, SameSet(g, k) PROVE g.place <= k.place
      BY DEF IsFirst
    <3>1. k \in T
      BY <2>5 DEF SameSet
    <3> QED BY <2>3, <2>4, <3>1
  <2>7. g.place < h.place
    <3>1. g.place <= h.place
      BY <2>5, <2>6 DEF IsFirst
    <3>2. g # h
      BY <1>2, <2>6
    <3>3. g.place # h.place
      BY <2>5, <3>2 DEF Mergeable
    <3>4. g.place \in Nat /\ h.place \in Nat
      BY <2>5 DEF Mergeable
    <3> QED BY <3>1, <3>3, <3>4
  <2>8. e.ext \notin ExtsOf(BeforeIt(h, G))
    <3>1. ASSUME NEW k \in G, SameSet(k, h), k.place < h.place, NEW f \in k.events, f.ext = e.ext
          PROVE  FALSE
      <4>1. f = e
        BY <1>2, <3>1
      <4>2. k = h
        BY <3>1, <4>1 DEF Mergeable
      <4> QED BY <3>1, <4>2 DEF Mergeable
    <3> QED BY <3>1 DEF ExtsOf, BeforeIt
  <2>9. FirstOf(h, e.ext) = e
    <3>1. e.ext \in ExtsOf(h.events)
      BY DEF ExtsOf
    <3> QED BY <1>2, <3>1, FirstOfFacts
  <2>10. e \in TakenFrom(h, ExtsOf(BeforeIt(h, G)))
    <3>1. e.ext \in ExtsOf(h.events)
      BY DEF ExtsOf
    <3> QED BY <2>8, <2>9, <3>1 DEF TakenFrom
  <2>11. e \in TakenBy(g, G)
    BY <2>5, <2>7, <2>10 DEF TakenBy
  <2> DEFINE m == [g EXCEPT !.events = @ \cup TakenBy(g, G)]
  <2>12. m \in MergeDuplicateCommitSets(G)
    BY <2>5, <2>6 DEF MergeDuplicateCommitSets, IsFirst, BeforeIt, TakenBy
  <2>13. e \in m.events
    <3>1. DOMAIN g = {"key", "place", "events"}
      BY <2>5 DEF Mergeable
    <3> QED BY <2>11, <3>1
  <2> HIDE DEF m
  <2> QED BY <2>12, <2>13
<1> QED BY <1>1, <1>2

(***************************************************************************)
(* render                                                                  *)
(***************************************************************************)

\* What the sections of a draft tell of work.
WorkOf(sections) == {b \in BulletsOf(sections) : b.kind # None}

LEMMA WorkMembers ==
    ASSUME NEW s
    PROVE  \A b : b \in WorkOf(s) <=> b.kind # None /\ \E x \in ToSet(s) : b \in x.bullets
BY DEF WorkOf, BulletsOf, ToSet

\* The list of nothing, and of one thing.
LEMMA OneMember ==
    /\ IsList(<<>>) /\ \A x : x \notin ToSet(<<>>)
    /\ \A y : IsList(<<y>>) /\ ToSet(<<y>>) = {y}
<1>1. IsList(<<>>) /\ \A x : x \notin ToSet(<<>>)
  BY DEF IsList, ToSet
<1>2. ASSUME NEW y PROVE IsList(<<y>>) /\ ToSet(<<y>>) = {y}
  <2>1. DOMAIN <<y>> = {1} /\ <<y>>[1] = y /\ <<y>> \in Seq({y})
    OBVIOUS
  <2>2. ToSet(<<y>>) = {y}
    BY <2>1 DEF ToSet
  <2> QED BY <2>1, <2>2 DEF IsList
<1> QED BY <1>1, <1>2

\* The sections hold the bullets they are built of, and remarks.
LEMMA BuiltBullets ==
    ASSUME NEW B, NEW minutes,
           \A b \in B : b.kind # None /\ b.section \in ToSet(AllSections)
    PROVE  IsList(BuildSections(B, minutes)) /\ WorkOf(BuildSections(B, minutes)) = B
<1> DEFINE own(id) == {b \in B : b.section = id}
           section(id) == [id |-> id,
                           bullets |-> own(id) \cup IF id = "Meeting" THEN SummaryBullets(minutes) ELSE {}]
           ss == [i \in DOMAIN AllSections |->
                    IF own(AllSections[i]) = {} THEN <<>> ELSE <<section(AllSections[i])>>]
<1>1. BuildSections(B, minutes) = Flat(ss)
  BY DEF BuildSections
<1>2. DOMAIN AllSections = 1 .. 6
  BY DEF AllSections
<1>3. DOMAIN ss = 1 .. 6
  BY <1>2
<1>4. ASSUME NEW k \in 1 .. 6
      PROVE  IsList(ss[k]) /\ \A x : x \in ToSet(ss[k]) <=>
                                 own(AllSections[k]) # {} /\ x = section(AllSections[k])
  <2> DEFINE id == AllSections[k]
             sec == section(id)
  <2>1. ss[k] = IF own(id) = {} THEN <<>> ELSE <<sec>>
    BY <1>2
  <2> HIDE DEF sec, ss
  <2>2. CASE own(id) = {}
    BY <2>1, <2>2, OneMember
  <2>3. CASE own(id) # {}
    <3>1. ss[k] = <<sec>>
      BY <2>1, <2>3
    <3>2. IsList(<<sec>>) /\ ToSet(<<sec>>) = {sec}
      BY OneMember
    <3>3. \A x : x \in ToSet(ss[k]) <=> x = sec
      BY <3>1, <3>2
    <3>4. IsList(ss[k])
      BY <3>1, <3>2
    <3> QED BY <2>3, <3>3, <3>4 DEF sec
  <2> QED BY <2>2, <2>3
<1> HIDE DEF ss
<1>5. /\ IsList(Flat(ss))
      /\ \A x : x \in ToSet(Flat(ss)) <=> \E k \in 1 .. 6 : x \in ToSet(ss[k])
  BY <1>3, <1>4, FlatMembers
<1>6. \A b \in SummaryBullets(minutes) : b.kind = None
  BY DEF SummaryBullets, Remark
<1>7. \A id : section(id).bullets =
        own(id) \cup IF id = "Meeting" THEN SummaryBullets(minutes) ELSE {}
  OBVIOUS
<1>8. ASSUME NEW b PROVE b \in WorkOf(Flat(ss)) <=> b \in B
  <2>1. ASSUME b \in WorkOf(Flat(ss)) PROVE b \in B
    <3>1. PICK x \in ToSet(Flat(ss)) : b \in x.bullets /\ b.kind # None
      BY <2>1, WorkMembers
    <3>2. PICK k \in 1 .. 6 : x = section(AllSections[k])
      BY <1>4, <1>5, <3>1
    <3>3. b \in own(AllSections[k]) \/ b \in SummaryBullets(minutes)
      BY <1>7, <3>1, <3>2
    <3> QED BY <1>6, <3>1, <3>3
  <2>2. ASSUME b \in B PROVE b \in WorkOf(Flat(ss))
    <3>1. PICK k \in 1 .. 6 : b.section = AllSections[k]
      BY <1>2, <2>2 DEF ToSet
    <3>2. b \in own(AllSections[k])
      BY <2>2, <3>1
    <3>3. section(AllSections[k]) \in ToSet(Flat(ss)) /\ b \in section(AllSections[k]).bullets
      BY <1>4, <1>5, <1>7, <3>2
    <3>4. \E x \in ToSet(Flat(ss)) : b \in x.bullets
      <4> DEFINE x == section(AllSections[k])
      <4>1. x \in ToSet(Flat(ss)) /\ b \in x.bullets
        BY <3>3
      <4> HIDE DEF x
      <4> QED BY <4>1
    <3> QED BY <2>2, <3>4, WorkMembers
  <2> QED BY <2>1, <2>2
<1> QED BY <1>1, <1>5, <1>8

\* A group's bullets are of its source's kind, in a section of the draft.
GroupsOfDay(M) ==
    \A g \in M : g.key.of[1] \in GroupKinds /\ day.results[g.key.src].kind # None

LEMMA GroupBullets ==
    ASSUME NEW M, GroupsOfDay(M)
    PROVE  \A b \in UNION {RenderGroup(g) : g \in M} :
              b.kind # None /\ b.section \in ToSet(AllSections)
<1> SUFFICES ASSUME NEW g \in M, NEW b \in RenderGroup(g)
             PROVE  b.kind # None /\ b.section \in ToSet(AllSections)
  OBVIOUS
<1>1. g.key.of[1] \in GroupKinds
  BY DEF GroupsOfDay
<1>2. PICK of, text : b = Bullet(g, of, text)
  <2> USE DEF RenderGroup
  <2>1. CASE g.key.of[1] = "CommitSet"
    BY <2>1
  <2>2. CASE g.key.of[1] \in {"JiraIssue", "ConfluencePage"}
    BY <2>2
  <2>3. CASE g.key.of[1] = "MergeRequest"
    BY <2>3
  <2>4. CASE g.key.of[1] = "Meeting"
    BY <2>4
  <2> QED BY <1>1, <2>1, <2>2, <2>3, <2>4 DEF GroupKinds
<1>3. b.section = SectionOf(g) /\ b.kind = day.results[g.key.src].kind
  BY <1>2 DEF Bullet
<1>4. GroupKinds \cup {"Unlinked"} \subseteq ToSet(AllSections)
  <2>1. ToSet(AllSections) = {AllSections[i] : i \in 1 .. 6}
    BY DEF AllSections, ToSet
  <2>2. /\ AllSections[1] = "CommitSet" /\ AllSections[2] = "MergeRequest" /\ AllSections[3] = "Meeting"
        /\ AllSections[4] = "JiraIssue" /\ AllSections[5] = "ConfluencePage" /\ AllSections[6] = "Unlinked"
    BY DEF AllSections
  <2> QED BY <2>1, <2>2 DEF GroupKinds
<1>5. SectionOf(g) \in GroupKinds \cup {"Unlinked"}
  BY <1>1 DEF SectionOf
<1> QED BY <1>3, <1>4, <1>5 DEF GroupsOfDay

\* The work a draft tells is the groups' bullets.
LEMMA RenderedWork ==
    ASSUME NEW s, NEW artifacts, NEW broken,
           GroupsOfDay(RollUp(s, {i \in DOMAIN s : EventIsSelf(s[i])}, artifacts))
    PROVE  WorkOf(Render(s, artifacts, broken))
             = UNION {RenderGroup(g) : g \in RollUp(s, {i \in DOMAIN s : EventIsSelf(s[i])}, artifacts)}
<1> DEFINE M == RollUp(s, {i \in DOMAIN s : EventIsSelf(s[i])}, artifacts)
           B == UNION {RenderGroup(g) : g \in M}
           issues == RenderSyncIssues(broken)
           told == IF M = {} THEN <<EmptySection>> ELSE BuildSections(B, MeetingMinutes(M))
<1>1. Render(s, artifacts, broken) = issues \o told
  <2> DEFINE op(v) == RenderSyncIssues(broken) \o
                        IF v = {} THEN <<EmptySection>>
                        ELSE BuildSections(UNION {RenderGroup(g) : g \in v}, MeetingMinutes(v))
  <2>1. Render(s, artifacts, broken) = CHOOSE y \in {op(v) : v \in {M}} : TRUE
    BY DEF Render, Once
  <2>2. issues \o told = op(M)
    OBVIOUS
  <2> HIDE DEF op, M, issues, told
  <2>3. {op(v) : v \in {M}} = {op(M)}
    OBVIOUS
  <2> QED BY <2>1, <2>2, <2>3
<1>2. \A b \in B : b.kind # None /\ b.section \in ToSet(AllSections)
  BY GroupBullets
<1> HIDE DEF M
<1>3. IsList(issues) /\ WorkOf(issues) = {}
  <2>1. CASE broken = {}
    <3>1. issues = <<>>
      BY <2>1 DEF RenderSyncIssues
    <3> QED BY <3>1, OneMember, WorkMembers
  <2>2. CASE broken # {}
    <3> DEFINE x == [id |-> "sync_issues",
                     bullets |-> {Remark("sync_issues", <<"failed", t>>) : t \in broken}]
    <3>1. issues = <<x>>
      BY <2>2 DEF RenderSyncIssues
    <3>2. \A b \in x.bullets : b.kind = None
      BY DEF Remark
    <3> HIDE DEF x, issues
    <3>3. IsList(issues) /\ ToSet(issues) = {x}
      BY <3>1, OneMember
    <3> QED BY <3>2, <3>3, WorkMembers
  <2> QED BY <2>1, <2>2
<1>4. IsList(told) /\ WorkOf(told) = B
  <2>1. CASE M = {}
    <3>1. told = <<EmptySection>> /\ B = {}
      BY <2>1
    <3>2. \A b \in EmptySection.bullets : b.kind = None
      <4>1. EmptySection.bullets = {Remark("CommitSet", <<"no activity">>)}
        BY DEF EmptySection
      <4>2. Remark("CommitSet", <<"no activity">>).kind = None
        BY DEF Remark
      <4> QED BY <4>1, <4>2
    <3> HIDE DEF told, B
    <3>3. IsList(told) /\ ToSet(told) = {EmptySection}
      BY <3>1, OneMember
    <3> QED BY <3>1, <3>2, <3>3, WorkMembers
  <2>2. CASE M # {}
    <3>1. told = BuildSections(B, MeetingMinutes(M))
      BY <2>2
    <3> HIDE DEF told, B
    <3> QED BY <1>2, <3>1, BuiltBullets
  <2> QED BY <2>1, <2>2
<1> HIDE DEF issues, told, B
<1>5. \A b : b \in WorkOf(issues \o told) <=> b \in WorkOf(issues) \/ b \in WorkOf(told)
  BY <1>3, <1>4, JoinedMembers, WorkMembers
<1>6. WorkOf(issues \o told) = B
  BY <1>3, <1>4, <1>5
<1> QED BY <1>1, <1>6 DEF B, M

(***************************************************************************)
(* A day's work, from the results to the bullets                           *)
(***************************************************************************)

\* What the report makes of the sources that answered, in their order.
Merged(order) == Pipeline(JoinedEvents(order))

Own(order) == EventById(Merged(order), {i \in DOMAIN Merged(order) : EventIsSelf(Merged(order)[i])})

GroupsFor(order) == GroupsOf(Own(order), JoinedArtifacts(order))

\* The merged events, in terms of what the sources returned.
LEMMA MergedEvents ==
    ASSUME day \in Days, NEW order \in Seq(DOMAIN day.results)
    PROVE  LET s == JoinedEvents(order)
               p == Merged(order)
           IN /\ DOMAIN s = 1 .. Len(s) /\ Len(s) \in Nat /\ DOMAIN p \subseteq 1 .. Len(s)
              /\ \A j \in DOMAIN s : s[j] \in ToSet(s) /\ IsEvent(s[j]) /\ OfDay(s[j])
              /\ \A e \in ToSet(s) : \E j \in DOMAIN s : e = s[j]
              /\ \A i \in DOMAIN p : Stays(p[i], s, i) /\ p[i].src \in DOMAIN day.results
              /\ \A j \in DOMAIN s : \E i \in DOMAIN p : i <= j /\ Copy(s, i, j)
              /\ \A i, k \in DOMAIN p : SameCommit(p[i], p[k]) => i = k
<1> DEFINE s == JoinedEvents(order)
           p == Merged(order)
<1>1. /\ IsList(s)
      /\ \A e \in ToSet(s) : IsEvent(e) /\ OfDay(e) /\ e.src \in DOMAIN day.results
  BY JoinedResults
<1> HIDE DEF s
<1>2. DOMAIN s = 1 .. Len(s) /\ Len(s) \in Nat
  BY <1>1 DEF IsList
<1>3. \A j \in DOMAIN s : s[j] \in ToSet(s)
  BY DEF ToSet
<1>4. \A e \in ToSet(s) : \E j \in DOMAIN s : e = s[j]
  BY DEF ToSet
<1>5. /\ DOMAIN p \subseteq DOMAIN s
      /\ \A i \in DOMAIN p : Stays(p[i], s, i)
      /\ \A j \in DOMAIN s : \E i \in DOMAIN p : i <= j /\ Copy(s, i, j)
      /\ \A i, k \in DOMAIN p : SameCommit(p[i], p[k]) => i = k
  <2>1. p = Pipeline(s)
    BY DEF Merged, s
  <2> HIDE DEF p
  <2> QED BY <1>1, <1>3, <2>1, PipelineKeeps
<1>6. ASSUME NEW i \in DOMAIN p PROVE p[i].src \in DOMAIN day.results
  <2>1. PICK j \in i .. Len(s) : p[i].src = s[j].src
    BY <1>5 DEF Stays
  <2>2. j \in DOMAIN s
    BY <1>2, <1>5, <2>1
  <2> QED BY <1>1, <1>3, <2>1, <2>2
<1> HIDE DEF p
<1> QED BY <1>1, <1>2, <1>3, <1>4, <1>5, <1>6 DEF s, p

\* The user's events among them.
LEMMA OwnEvents ==
    ASSUME day \in Days, NEW order \in Seq(DOMAIN day.results)
    PROVE  LET p == Merged(order)
           IN /\ \A e \in Own(order) : \E i \in DOMAIN p : e = p[i] /\ EventIsSelf(p[i])
              /\ \A i \in DOMAIN p : EventIsSelf(p[i]) => \E e \in Own(order) : IdOf(e) = IdOf(p[i])
              /\ \A e, f \in Own(order) : IdOf(e) = IdOf(f) => e = f
              /\ \A e \in Own(order) : e.src \in DOMAIN day.results /\ e.src \in Nat \ {0}
<1> DEFINE p == Merged(order)
           mine == {i \in DOMAIN p : EventIsSelf(p[i])}
           n == Len(JoinedEvents(order))
<1>1. n \in Nat /\ DOMAIN p \subseteq 1 .. n /\ \A i \in DOMAIN p : p[i].src \in DOMAIN day.results
  BY MergedEvents
<1>2. Own(order) = EventById(p, mine)
  BY DEF Own
<1> HIDE DEF p, n
<1>3. mine \in SUBSET DOMAIN p
  OBVIOUS
<1>4. /\ \A e \in EventById(p, mine) : \E i \in mine : e = p[i]
      /\ \A i \in mine : \E e \in EventById(p, mine) : IdOf(e) = IdOf(p[i])
      /\ \A e, f \in EventById(p, mine) : IdOf(e) = IdOf(f) => e = f
  <2> HIDE DEF mine
  <2> QED BY <1>1, <1>3, EventByIdFacts
<1>5. DOMAIN day.results \subseteq Nat \ {0}
  BY DaysAssumption
<1> QED BY <1>1, <1>2, <1>4, <1>5 DEF p

\* The groups of the user's events can be merged, and what the roll-up returns
\* are the merged ones.
LEMMA GroupsOfTheDay ==
    ASSUME day \in Days, NEW order \in Seq(DOMAIN day.results)
    PROVE  LET p == Merged(order)
               M == MergeDuplicateCommitSets(GroupsFor(order))
           IN /\ AreArtifacts(JoinedArtifacts(order))
              /\ RollUp(p, {i \in DOMAIN p : EventIsSelf(p[i])}, JoinedArtifacts(order)) = M
              /\ \A g \in GroupsFor(order) : GroupOK(g, Own(order), JoinedArtifacts(order))
              /\ Mergeable(GroupsFor(order))
              /\ GroupsOfDay(M)
<1> DEFINE p == Merged(order)
           mine == {i \in DOMAIN p : EventIsSelf(p[i])}
           arts == JoinedArtifacts(order)
           all == Own(order)
           G == GroupsFor(order)
<1>1. AreArtifacts(arts) /\ \A a \in ToSet(arts) : a.src \in DOMAIN day.results
  <2>1. /\ IsList(arts)
        /\ \A a \in ToSet(arts) : a.src \in DOMAIN day.results /\ \A id \in a.ids : id[3] = "CommitAuthored"
    BY JoinedResults
  <2>2. \A i \in DOMAIN arts : arts[i] \in ToSet(arts)
    BY DEF ToSet
  <2>3. DOMAIN day.results \subseteq Nat \ {0}
    BY DaysAssumption
  <2> HIDE DEF arts
  <2> QED BY <2>1, <2>2, <2>3 DEF AreArtifacts
<1>2. /\ \A e \in all : \E i \in DOMAIN p : e = p[i]
      /\ \A e \in all : e.src \in DOMAIN day.results /\ e.src \in Nat \ {0}
  BY OwnEvents
<1>3. RollUp(p, mine, arts) = MergeDuplicateCommitSets(G)
  BY DEF RollUp, GroupsFor, GroupsOf, Unclaimed, Own
<1>4. G = GroupsOf(all, arts)
  BY DEF GroupsFor
<1> HIDE DEF all, arts, G
<1>5. ASSUME NEW g \in G PROVE GroupOK(g, all, arts)
  BY <1>1, <1>2, <1>4, <1>5, GroupsAreOK
<1>6. /\ \A g \in G : DOMAIN g = {"key", "place", "events"} /\ g.place \in Nat
      /\ \A g \in G : g.events \subseteq all
  BY <1>5 DEF GroupOK
<1>7. ASSUME NEW g \in G, NEW h \in G
      PROVE  /\ SameSet(g, h) /\ g.place = h.place => g = h
             /\ (\E e : e \in g.events /\ e \in h.events) => g = h
  BY <1>1, <1>2, <1>4, <1>7, GroupsAreApart
<1>8. ASSUME NEW g \in G, NEW E \in SUBSET g.events, E # {}
      PROVE  \E e \in E : \A f \in E : e.at <= f.at
  <2> DEFINE n == Len(JoinedEvents(order))
  <2>1. n \in Nat /\ DOMAIN p \subseteq 1 .. n /\ \A i \in DOMAIN p : IsEvent(p[i])
    BY MergedEvents DEF Stays
  <2>2. \A e \in E : \E i \in DOMAIN p : e = p[i]
    BY <1>2, <1>6
  <2>3. \A i \in DOMAIN p : p[i].at \in Int
    BY <2>1 DEF IsEvent
  <2>4. n \in Nat /\ DOMAIN p \subseteq 1 .. n /\ E # {}
    BY <1>8, <2>1
  <2> HIDE DEF n, p, mine, G
  <2> QED BY ONLY <2>2, <2>3, <2>4, EarliestExists
<1>9. Mergeable(G)
  BY <1>6, <1>7, <1>8 DEF Mergeable
<1>10. ASSUME NEW m \in MergeDuplicateCommitSets(G)
       PROVE  m.key.of[1] \in GroupKinds /\ day.results[m.key.src].kind # None
  <2>1. PICK g \in G : m.key = g.key
    BY <1>9, MergedGroups
  <2>2. GroupOK(g, all, arts)
    BY <1>5
  <2>3. g.key.src \in DOMAIN day.results
    <3>1. CASE \E a \in ToSet(arts) : g.key = ArtifactKey(a)
      BY <1>1, <3>1 DEF ArtifactKey, Group
    <3>2. CASE g.events # {} /\ \A e \in g.events : g.key = OrphanKey(e)
      <4>1. PICK e \in g.events : g.key = OrphanKey(e)
        BY <3>2
      <4>2. e \in all
        BY <1>6
      <4> QED BY <1>2, <4>1, <4>2 DEF OrphanKey, Group
    <3> QED BY <2>2, <3>1, <3>2 DEF GroupOK
  <2>4. day.results[g.key.src].kind # None
    BY <2>3, DaysAssumption
  <2> QED BY <2>1, <2>2, <2>4 DEF GroupOK
<1>11. GroupsOfDay(MergeDuplicateCommitSets(G))
  BY <1>10 DEF GroupsOfDay
<1> QED BY <1>1, <1>3, <1>5, <1>9, <1>11 DEF all, arts, G

\* A bullet of a group cites events of the group, a commit's is about that commit.
LEMMA GroupCites ==
    ASSUME NEW M, GroupsOfDay(M), NEW m \in M, NEW b \in RenderGroup(m)
    PROVE  /\ \E of \in SUBSET m.events :
                /\ m.events # {} => of # {}
                /\ b.ids = {IdOf(e) : e \in of}
           /\ m.key.of[1] = "CommitSet" =>
                \E e \in m.events : b.ids = {IdOf(e)} /\ b.text = CommitText(m, e)
<1>1. \A of, text : Bullet(m, of, text).ids = {IdOf(e) : e \in of} /\ Bullet(m, of, text).text = text
  BY DEF Bullet
<1>2. CASE m.key.of[1] = "CommitSet"
  <2>1. PICK e \in m.events : b = Bullet(m, {e}, CommitText(m, e))
    BY <1>2 DEF RenderGroup
  <2>2. b.ids = {IdOf(x) : x \in {e}} /\ b.text = CommitText(m, e)
    BY <1>1, <2>1
  <2>3. b.ids = {IdOf(e)} /\ {e} \in SUBSET m.events
    BY <2>2
  <2> QED BY <2>2, <2>3
<1>3. CASE m.key.of[1] \in {"JiraIssue", "ConfluencePage"}
  <2>1. PICK e \in m.events : b = Bullet(m, {e}, AtlassianText(e))
    BY <1>3 DEF RenderGroup
  <2>2. b.ids = {IdOf(x) : x \in {e}} /\ {e} \in SUBSET m.events
    BY <1>1, <2>1
  <2> QED BY <1>3, <2>2
<1>4. CASE m.key.of[1] \in {"MergeRequest", "Meeting"}
  <2>1. PICK text : b = Bullet(m, m.events, text)
    BY <1>4 DEF RenderGroup
  <2>2. b.ids = {IdOf(x) : x \in m.events}
    BY <1>1, <2>1
  <2> QED BY <1>4, <2>2
<1> QED BY <1>2, <1>3, <1>4 DEF GroupsOfDay, GroupKinds

\* An event of a group is cited by one of its bullets.
LEMMA GroupCitesAll ==
    ASSUME NEW M, GroupsOfDay(M), NEW m \in M, NEW e \in m.events
    PROVE  \E b \in RenderGroup(m) : IdOf(e) \in b.ids
<1>1. \A of, text : Bullet(m, of, text).ids = {IdOf(x) : x \in of}
  BY DEF Bullet
<1>2. \A text : IdOf(e) \in Bullet(m, {e}, text).ids /\ IdOf(e) \in Bullet(m, m.events, text).ids
  BY <1>1
<1>3. CASE m.key.of[1] = "CommitSet"
  BY <1>2, <1>3 DEF RenderGroup
<1>4. CASE m.key.of[1] \in {"JiraIssue", "ConfluencePage"}
  BY <1>2, <1>4 DEF RenderGroup
<1>5. CASE m.key.of[1] = "MergeRequest"
  BY <1>2, <1>5 DEF RenderGroup
<1>6. CASE m.key.of[1] = "Meeting"
  BY <1>2, <1>6 DEF RenderGroup
<1> QED BY <1>3, <1>4, <1>5, <1>6 DEF GroupsOfDay, GroupKinds

\* Two bullets of a group cite one event only if they are the same.
LEMMA GroupCitesOnce ==
    ASSUME NEW M, GroupsOfDay(M), NEW m \in M,
           \A x, y \in m.events : IdOf(x) = IdOf(y) => x = y,
           NEW b \in RenderGroup(m), NEW c \in RenderGroup(m), NEW id \in b.ids, id \in c.ids
    PROVE  b = c
<1>1. \A of, text : Bullet(m, of, text).ids = {IdOf(x) : x \in of}
  BY DEF Bullet
<1>2. CASE m.key.of[1] = "CommitSet"
  <2>2. PICK e \in m.events : b = Bullet(m, {e}, CommitText(m, e))
    BY <1>2 DEF RenderGroup
  <2>3. PICK f \in m.events : c = Bullet(m, {f}, CommitText(m, f))
    BY <1>2 DEF RenderGroup
  <2>4. id \in {IdOf(x) : x \in {e}} /\ id \in {IdOf(x) : x \in {f}}
    BY <1>1, <2>2, <2>3
  <2>5. IdOf(e) = IdOf(f)
    BY <2>4
  <2> QED BY <2>2, <2>3, <2>5
<1>3. CASE m.key.of[1] \in {"JiraIssue", "ConfluencePage"}
  <2>2. PICK e \in m.events : b = Bullet(m, {e}, AtlassianText(e))
    BY <1>3 DEF RenderGroup
  <2>3. PICK f \in m.events : c = Bullet(m, {f}, AtlassianText(f))
    BY <1>3 DEF RenderGroup
  <2>4. id \in {IdOf(x) : x \in {e}} /\ id \in {IdOf(x) : x \in {f}}
    BY <1>1, <2>2, <2>3
  <2>5. IdOf(e) = IdOf(f)
    BY <2>4
  <2> QED BY <2>2, <2>3, <2>5
<1>4. CASE m.key.of[1] \in {"MergeRequest", "Meeting"}
  <2>1. \E x : RenderGroup(m) = {x}
    BY <1>4 DEF RenderGroup
  <2> QED BY <2>1
<1> QED BY <1>2, <1>3, <1>4 DEF GroupsOfDay, GroupKinds

\* The groups of the draft, and its bullets about work.
Groups(order) == MergeDuplicateCommitSets(GroupsFor(order))

Work(order) == UNION {RenderGroup(m) : m \in Groups(order)}

\* A group holds events of the user's, a commit in a commit set only.
LEMMA GroupMembers ==
    ASSUME day \in Days, NEW order \in Seq(DOMAIN day.results), NEW m \in Groups(order)
    PROVE  /\ \A x \in m.events :
                x \in Own(order) /\ (x.kind = "CommitAuthored" => m.key.of[1] = "CommitSet")
           /\ m.key.of[1] # "CommitSet" => m.events # {}
<1> DEFINE all == Own(order)
           arts == JoinedArtifacts(order)
           G == GroupsFor(order)
<1>1. (\A g \in G : GroupOK(g, all, arts)) /\ Mergeable(G)
  BY GroupsOfTheDay
<1>2. m \in MergeDuplicateCommitSets(G)
  BY DEF Groups
<1> HIDE DEF all, arts, G
<1>3. PICK g \in G : /\ IsFirst(g, G) /\ m.key = g.key /\ m.events = g.events \cup TakenBy(g, G)
                     /\ \A e \in m.events : \E h \in G : e \in h.events /\ (h = g \/ SameSet(g, h))
  BY <1>1, <1>2, MergedGroups
<1>4. ASSUME NEW x \in m.events
      PROVE  x \in all /\ (x.kind = "CommitAuthored" => m.key.of[1] = "CommitSet")
  <2>1. PICK h \in G : x \in h.events /\ (h = g \/ SameSet(g, h))
    BY <1>3
  <2>2. x \in all /\ (x.kind = "CommitAuthored" => h.key.of[1] = "CommitSet")
    BY <1>1, <2>1 DEF GroupOK
  <2>3. g.key.of = h.key.of
    BY <2>1 DEF SameSet
  <2> QED BY <1>3, <2>2, <2>3
<1>5. ASSUME m.key.of[1] # "CommitSet" PROVE m.events # {}
  <2>1. GroupOK(g, all, arts) /\ g.key.of[1] # "CommitSet"
    BY <1>1, <1>3, <1>5
  <2>2. ~ \E a \in ToSet(arts) : g.key = ArtifactKey(a)
    <3>1. \A a : ArtifactKey(a).of[1] = "CommitSet"
      BY DEF ArtifactKey, Group
    <3> QED BY <2>1, <3>1
  <2>3. g.events # {}
    BY <2>1, <2>2 DEF GroupOK
  <2> QED BY <1>3, <2>3
<1> QED BY <1>4, <1>5 DEF all

\* A bullet about work cites the user's events, and redacts a private commit.
LEMMA BulletsCite ==
    ASSUME day \in Days, NEW order \in Seq(DOMAIN day.results), NEW b \in Work(order)
    PROVE  /\ b.ids # {}
           /\ \A id \in b.ids : \E x \in Own(order) :
                id = IdOf(x) /\ (x.kind = "CommitAuthored" /\ x.private => b.text = Redacted)
<1> DEFINE M == Groups(order)
<1>1. GroupsOfDay(M)
  BY GroupsOfTheDay DEF Groups
<1>2. PICK m \in M : b \in RenderGroup(m)
  BY DEF Work
<1>3. /\ \A x \in m.events :
           x \in Own(order) /\ (x.kind = "CommitAuthored" => m.key.of[1] = "CommitSet")
      /\ m.key.of[1] # "CommitSet" => m.events # {}
  BY GroupMembers
<1> HIDE DEF M
<1>4. /\ \E of \in SUBSET m.events :
           /\ m.events # {} => of # {}
           /\ b.ids = {IdOf(e) : e \in of}
      /\ m.key.of[1] = "CommitSet" =>
           \E e \in m.events : b.ids = {IdOf(e)} /\ b.text = CommitText(m, e)
  BY <1>1, <1>2, GroupCites
<1>5. b.ids # {}
  BY <1>3, <1>4
<1>6. ASSUME NEW id \in b.ids
      PROVE  \E x \in Own(order) :
                id = IdOf(x) /\ (x.kind = "CommitAuthored" /\ x.private => b.text = Redacted)
  <2>1. CASE m.key.of[1] = "CommitSet"
    <3>1. PICK e \in m.events : b.ids = {IdOf(e)} /\ b.text = CommitText(m, e)
      BY <1>4, <2>1
    <3>2. e.private => b.text = Redacted
      BY <3>1 DEF CommitText
    <3> QED BY <1>3, <3>1, <3>2
  <2>2. CASE m.key.of[1] # "CommitSet"
    <3>1. PICK e \in m.events : id = IdOf(e)
      BY <1>4
    <3> QED BY <1>3, <2>2, <3>1
  <2> QED BY <2>1, <2>2
<1> QED BY <1>5, <1>6

\* An event of a group has one bullet.
LEMMA OneBulletEach ==
    ASSUME day \in Days, NEW order \in Seq(DOMAIN day.results),
           NEW m \in Groups(order), NEW x \in m.events
    PROVE  \E b : {c \in Work(order) : IdOf(x) \in c.ids} = {b}
<1> DEFINE M == Groups(order)
           G == GroupsFor(order)
<1>1. GroupsOfDay(M) /\ Mergeable(G) /\ M = MergeDuplicateCommitSets(G)
  BY GroupsOfTheDay DEF Groups
<1>2. \A g \in M : \A y \in g.events : y \in Own(order)
  BY GroupMembers
<1>3. \A y, z \in Own(order) : IdOf(y) = IdOf(z) => y = z
  BY OwnEvents
<1>4. Work(order) = UNION {RenderGroup(g) : g \in M}
  BY DEF Work
<1> HIDE DEF M, G
<1>5. m \in M
  BY DEF M
<1>6. PICK b \in RenderGroup(m) : IdOf(x) \in b.ids
  BY <1>1, <1>5, GroupCitesAll
<1>7. ASSUME NEW c \in Work(order), IdOf(x) \in c.ids PROVE c = b
  <2>1. PICK g \in M : c \in RenderGroup(g)
    BY <1>4
  <2>2. \E of \in SUBSET g.events : c.ids = {IdOf(e) : e \in of}
    BY <1>1, <2>1, GroupCites
  <2>3. PICK y \in g.events : IdOf(y) = IdOf(x)
    BY <1>7, <2>2
  <2>4. y = x
    BY <1>2, <1>3, <1>5, <2>3
  <2>5. g = m
    BY <1>1, <1>5, <2>3, <2>4, MergedAreApart
  <2>6. \A y1, z \in m.events : IdOf(y1) = IdOf(z) => y1 = z
    BY <1>2, <1>3, <1>5
  <2>7. c \in RenderGroup(m)
    BY <2>1, <2>5
  <2> QED BY <1>1, <1>5, <1>6, <1>7, <2>6, <2>7, GroupCitesOnce
<1> QED BY <1>4, <1>5, <1>6, <1>7

\* A commit that one source marked private is one merged event, and that is
\* private.
LEMMA PrivateWhatever ==
    ASSUME day \in Days, NEW order \in Seq(DOMAIN day.results),
           NEW e \in ToSet(JoinedEvents(order)), e.private,
           NEW i \in DOMAIN Merged(order), Merged(order)[i].ext = e.ext
    PROVE  Merged(order)[i].private /\ Merged(order)[i].kind = "CommitAuthored"
<1> DEFINE s == JoinedEvents(order)
           p == Merged(order)
<1>1. /\ DOMAIN s = 1 .. Len(s) /\ Len(s) \in Nat /\ DOMAIN p \subseteq 1 .. Len(s)
      /\ \A j \in DOMAIN s : s[j] \in ToSet(s) /\ IsEvent(s[j]) /\ OfDay(s[j])
      /\ \A k \in DOMAIN p : Stays(p[k], s, k)
      /\ \A j \in DOMAIN s : \E k \in DOMAIN p : k <= j /\ Copy(s, k, j)
      /\ \A k, l \in DOMAIN p : SameCommit(p[k], p[l]) => k = l
  BY MergedEvents
<1>2. PICK j \in DOMAIN s : e = s[j]
  BY MergedEvents
<1> HIDE DEF s, p
<1>3. i \in DOMAIN p /\ p[i].ext = e.ext
  BY DEF p
<1>4. \A k \in DOMAIN s : s[k].ext = e.ext => s[k].kind = "CommitAuthored"
  BY <1>1, <1>2, PrivateIsCommit
<1>5. p[i].kind = "CommitAuthored"
  BY <1>1, <1>3, <1>4 DEF Stays
<1>6. PICK k \in DOMAIN p : k <= j /\ Copy(s, k, j)
  BY <1>1, <1>2
<1>7. k \in DOMAIN s /\ j \in k .. Len(s)
  BY <1>1, <1>6
<1>8. s[k].ext = e.ext
  BY <1>2, <1>6 DEF Copy, SameCommit
<1>9. p[k].ext = e.ext /\ p[k].kind = "CommitAuthored"
  BY <1>1, <1>4, <1>7, <1>8 DEF Stays
<1>10. i = k
  BY <1>1, <1>3, <1>5, <1>9 DEF SameCommit
<1>11. p[k].private
  BY <1>1, <1>2, <1>6, <1>7 DEF Stays
<1> QED BY <1>5, <1>10, <1>11 DEF p

(***************************************************************************)
(* A run of the report                                                     *)
(***************************************************************************)

Survivors(order) == EventById(Merged(order), DOMAIN Merged(order))

\* The rows stored: one for every id, private as the last event of that id.
RowsTell(order) ==
    /\ DOMAIN rows = {IdOf(e) : e \in Survivors(order)}
    /\ \A e \in Survivors(order) : rows[IdOf(e)] = e.private

\* Each phase adds one thing, made of what the sources that answered returned.
ReportInv ==
    /\ day \in Days /\ done \in Seq(DOMAIN day.results) /\ left \subseteq DOMAIN day.results
    /\ phase # "fetching" => left = {}
    /\ phase \in {"fetching", "merged"} => rows = [id \in {} |-> FALSE]
    /\ phase \in {"merged", "stored", "drafted"} => events = Merged(done)
    /\ phase \in {"stored", "drafted"} => RowsTell(done)
    /\ phase = "drafted" => WorkOf(draft) = Work(done)

\* The last events of the ids.
LEMMA LastEvents ==
    ASSUME day \in Days, NEW order \in Seq(DOMAIN day.results)
    PROVE  LET p == Merged(order)
           IN /\ \A e \in Survivors(order) : \E i \in DOMAIN p : e = p[i]
              /\ \A i \in DOMAIN p : \E e \in Survivors(order) : IdOf(e) = IdOf(p[i])
              /\ \A e, f \in Survivors(order) : IdOf(e) = IdOf(f) => e = f
<1> DEFINE p == Merged(order)
           n == Len(JoinedEvents(order))
           places == DOMAIN p
<1>1. n \in Nat /\ DOMAIN p \subseteq 1 .. n
  BY MergedEvents
<1>2. Survivors(order) = EventById(p, places)
  BY DEF Survivors
<1>3. places \in SUBSET DOMAIN p
  OBVIOUS
<1> HIDE DEF p, n, places
<1>4. /\ \A e \in EventById(p, places) : \E i \in places : e = p[i]
      /\ \A i \in places : \E e \in EventById(p, places) : IdOf(e) = IdOf(p[i])
      /\ \A e, f \in EventById(p, places) : IdOf(e) = IdOf(f) => e = f
  BY <1>1, <1>3, EventByIdFacts
<1> QED BY <1>2, <1>4 DEF p, places

\* What a draft is made of is what the day and the sources are.
LEMMA SameWork ==
    ASSUME day' = day, done' = done
    PROVE  /\ Merged(done)' = Merged(done) /\ Survivors(done)' = Survivors(done)
           /\ Work(done)' = Work(done)
<1>1. JoinedEvents(done)' = JoinedEvents(done) /\ JoinedArtifacts(done)' = JoinedArtifacts(done)
  BY DEF JoinedEvents, JoinedArtifacts
<1>2. Merged(done)' = Merged(done) /\ Survivors(done)' = Survivors(done)
  BY DEF Merged, Survivors, JoinedEvents
<1>3. \A s : {i \in DOMAIN s : EventIsSelf(s[i])}' = {i \in DOMAIN s : EventIsSelf(s[i])}
  BY DEF EventIsSelf
<1>4. Own(done)' = Own(done)
  BY <1>2, <1>3 DEF Own
<1>5. \A e : OrphanKey(e)' = OrphanKey(e)
  BY DEF OrphanKey, UtcDay
<1>6. GroupsFor(done)' = GroupsFor(done)
  BY <1>1, <1>4, <1>5 DEF GroupsFor, GroupsOf, Orphans
<1>7. Groups(done)' = Groups(done)
  BY <1>6 DEF Groups
<1>8. \A g : RenderGroup(g)' = RenderGroup(g)
  <2>1. \A g, of, text : Bullet(g, of, text)' = Bullet(g, of, text)
    BY DEF Bullet
  <2> QED BY <2>1 DEF RenderGroup
<1>9. Work(done)' = Work(done)
  BY <1>7, <1>8 DEF Work
<1> QED BY <1>2, <1>9

LEMMA ReportStarts ==
    PipelineInit => ReportInv
BY DEF PipelineInit, ReportInv

LEMMA ReportGoesOn ==
    ReportInv /\ [PipelineNext]_pipelineVars => ReportInv'
<1> SUFFICES ASSUME ReportInv, [PipelineNext]_pipelineVars PROVE ReportInv'
  OBVIOUS
<1>1. ASSUME NEW s \in left, SourceReturns(s) PROVE ReportInv'
  <2>1. phase = "fetching" /\ s \in DOMAIN day.results /\ UNCHANGED <<day, phase, events, rows, draft>>
    BY <1>1 DEF ReportInv, SourceReturns
  <2>2. done' \in Seq(DOMAIN day.results) /\ left' \subseteq DOMAIN day.results
    BY <1>1, <2>1 DEF ReportInv, SourceReturns
  <2> QED BY <2>1, <2>2 DEF ReportInv
<1>2. CASE Merge
  BY <1>2 DEF Merge, ReportInv, Merged, JoinedEvents
<1>3. CASE Store
  <2>1. /\ phase = "merged" /\ phase' = "stored" /\ events = Merged(done)
        /\ rows = [id \in {} |-> FALSE] /\ UNCHANGED <<day, left, done, failed, events, draft>>
    BY <1>3 DEF Store, ReportInv
  <2>2. Merged(done)' = Merged(done) /\ Survivors(done)' = Survivors(done)
    BY <2>1, SameWork
  <2>3. RowsTell(done)'
    <3> DEFINE ids == {IdOf(e) : e \in Survivors(done)}
               row(id) == (CHOOSE e \in Survivors(done) : IdOf(e) = id).private
    <3>1. rows' = [id \in DOMAIN rows \cup ids |-> IF id \in ids THEN row(id) ELSE rows[id]]
      BY <1>3, <2>1 DEF Store, Survivors
    <3>2. DOMAIN rows' = ids /\ \A id \in ids : rows'[id] = row(id)
      <4>1. DOMAIN rows = {}
        BY <2>1
      <4> HIDE DEF row, ids
      <4> QED BY <3>1, <4>1
    <3>3. \A e \in Survivors(done) : row(IdOf(e)) = e.private
      BY LastEvents DEF ReportInv
    <3> QED BY <2>2, <3>2, <3>3 DEF RowsTell
  <2> QED BY <2>1, <2>2, <2>3 DEF ReportInv
<1>4. CASE StoreFails
  BY <1>4 DEF StoreFails, ReportInv
<1>5. CASE MakeDraft
  <2>1. /\ phase = "stored" /\ phase' = "drafted" /\ events = Merged(done)
        /\ draft' = Render(Merged(done), JoinedArtifacts(done), failed)
        /\ UNCHANGED <<day, left, done, failed, events, rows>>
    BY <1>5 DEF MakeDraft, ReportInv
  <2>2. Merged(done)' = Merged(done) /\ Survivors(done)' = Survivors(done) /\ Work(done)' = Work(done)
    BY <2>1, SameWork
  <2>3. RowsTell(done)' <=> RowsTell(done)
    BY <2>1, <2>2 DEF RowsTell
  <2>4. WorkOf(draft') = Work(done)
    <3> DEFINE s == Merged(done)
               arts == JoinedArtifacts(done)
               R == RollUp(s, {i \in DOMAIN s : EventIsSelf(s[i])}, arts)
    <3>1. GroupsOfDay(R) /\ R = Groups(done)
      BY GroupsOfTheDay DEF Groups, ReportInv
    <3>2. WorkOf(Render(s, arts, failed)) = UNION {RenderGroup(g) : g \in R}
      <4>1. GroupsOfDay(RollUp(s, {i \in DOMAIN s : EventIsSelf(s[i])}, arts))
        BY <3>1
      <4> HIDE DEF s, arts
      <4> QED BY <4>1, RenderedWork
    <3> HIDE DEF s, arts, R
    <3>3. draft' = Render(s, arts, failed)
      BY <2>1 DEF s, arts
    <3> QED BY <3>1, <3>2, <3>3 DEF Work
  <2> QED BY <2>1, <2>2, <2>3, <2>4 DEF ReportInv, WorkOf
<1>6. CASE UNCHANGED pipelineVars
  <2>1. UNCHANGED <<day, left, done, failed, phase, events, rows, draft>>
    BY <1>6 DEF pipelineVars
  <2>2. Merged(done)' = Merged(done) /\ Survivors(done)' = Survivors(done) /\ Work(done)' = Work(done)
    BY <2>1, SameWork
  <2>3. RowsTell(done)' <=> RowsTell(done)
    BY <2>1, <2>2 DEF RowsTell
  <2> QED BY <2>1, <2>2, <2>3 DEF ReportInv, WorkOf
<1> QED BY <1>1, <1>2, <1>3, <1>4, <1>5, <1>6 DEF PipelineNext

LEMMA InvKeepsPrivate ==
    ReportInv => PrivateStaysPrivate
<1> SUFFICES ASSUME ReportInv, phase = "drafted", NEW e \in Raw, e.private
             PROVE  /\ \A b \in Bullets : (\E id \in b.ids : id[2] = e.ext) => b.text = Redacted
                    /\ \A id \in DOMAIN rows : id[2] = e.ext => rows[id]
  BY DEF PrivateStaysPrivate
<1>1. day \in Days /\ done \in Seq(DOMAIN day.results) /\ e \in ToSet(JoinedEvents(done))
      /\ RowsTell(done) /\ Bullets = Work(done)
  BY DEF ReportInv, Raw, Bullets, WorkOf
<1>2. ASSUME NEW i \in DOMAIN Merged(done), Merged(done)[i].ext = e.ext
      PROVE  Merged(done)[i].private /\ Merged(done)[i].kind = "CommitAuthored"
  BY <1>1, <1>2, PrivateWhatever
<1>3. \A x : IdOf(x)[2] = x.ext
  BY DEF IdOf
<1>4. ASSUME NEW b \in Bullets, NEW id \in b.ids, id[2] = e.ext PROVE b.text = Redacted
  <2>1. PICK x \in Own(done) :
          id = IdOf(x) /\ (x.kind = "CommitAuthored" /\ x.private => b.text = Redacted)
    BY <1>1, BulletsCite
  <2>2. PICK i \in DOMAIN Merged(done) : x = Merged(done)[i]
    BY <1>1, OwnEvents
  <2> QED BY <1>2, <1>3, <1>4, <2>1, <2>2
<1>5. ASSUME NEW id \in DOMAIN rows, id[2] = e.ext PROVE rows[id]
  <2>1. PICK x \in Survivors(done) : id = IdOf(x) /\ rows[id] = x.private
    BY <1>1 DEF RowsTell
  <2>2. PICK i \in DOMAIN Merged(done) : x = Merged(done)[i]
    BY <1>1, LastEvents
  <2> QED BY <1>2, <1>3, <1>5, <2>1, <2>2
<1> QED BY <1>4, <1>5

\* A commit seen private by one source is told and stored as private, whatever
\* copy of it, repository and order of the sources the report goes by
\* (dedup.rs:126, render.rs:787).
THEOREM PrivateIsKept ==
    PipelineSpec => []PrivateStaysPrivate
<1>1. ReportInv /\ [PipelineNext]_pipelineVars => ReportInv'
  BY ReportGoesOn
<1>2. PipelineSpec => []ReportInv
  BY <1>1, ReportStarts, PTL DEF PipelineSpec
<1> QED BY <1>2, InvKeepsPrivate, PTL

\* An event of the user's that is a bullet's own makes one bullet.
LEMMA OneTelling ==
    ASSUME ReportInv, phase = "drafted", NEW e, NEW x \in Own(done),
           \E m \in Groups(done) : x \in m.events,
           \A y \in Own(done) :
             (IF e.kind = "CommitAuthored" THEN y.ext = e.ext /\ y.kind = e.kind ELSE IdOf(y) = IdOf(e))
               <=> y = x
    PROVE  Cardinality(Telling(e)) = 1
<1>1. day \in Days /\ done \in Seq(DOMAIN day.results) /\ Bullets = Work(done)
  BY DEF ReportInv, Bullets, WorkOf
<1>2. PICK b : {c \in Work(done) : IdOf(x) \in c.ids} = {b}
  BY <1>1, OneBulletEach
<1>3. ASSUME NEW c \in Work(done)
      PROVE  IdOf(x) \in c.ids <=>
               \E id \in c.ids :
                 IF e.kind = "CommitAuthored" THEN id[2] = e.ext /\ id[3] = e.kind ELSE id = IdOf(e)
  <2>1. \A id \in c.ids : \E y \in Own(done) : id = IdOf(y)
    BY <1>1, BulletsCite
  <2>2. \A y : IdOf(y)[2] = y.ext /\ IdOf(y)[3] = y.kind
    BY DEF IdOf
  <2> QED BY <2>1, <2>2
<1>4. Telling(e) = {b}
  BY <1>1, <1>2, <1>3 DEF Telling
<1> QED BY <1>4, FS_Singleton

\* A commit that every copy shows as the user's has one bullet.
LEMMA CommitTold ==
    ASSUME ReportInv, phase = "drafted", NEW e \in Raw, e.kind = "CommitAuthored",
           \A f \in Raw : f.ext = e.ext => f.kind = e.kind /\ MineToo(f)
    PROVE  Cardinality(Telling(e)) = 1
<1> DEFINE s == JoinedEvents(done)
           p == Merged(done)
           G == GroupsFor(done)
<1>1. day \in Days /\ done \in Seq(DOMAIN day.results)
  BY DEF ReportInv
<1>2. /\ DOMAIN s = 1 .. Len(s) /\ Len(s) \in Nat /\ DOMAIN p \subseteq 1 .. Len(s)
      /\ \A j \in DOMAIN s : s[j] \in Raw /\ IsEvent(s[j])
      /\ \A i \in DOMAIN p : Stays(p[i], s, i)
      /\ \A j \in DOMAIN s : \E i \in DOMAIN p : i <= j /\ Copy(s, i, j)
      /\ \A i, k \in DOMAIN p : SameCommit(p[i], p[k]) => i = k
  BY <1>1, MergedEvents DEF Raw
<1>3. PICK j \in DOMAIN s : e = s[j]
  BY <1>1, MergedEvents DEF Raw
<1>4. /\ \A x \in Own(done) : \E i \in DOMAIN p : x = p[i]
      /\ \A i \in DOMAIN p : EventIsSelf(p[i]) => \E x \in Own(done) : IdOf(x) = IdOf(p[i])
  BY <1>1, OwnEvents
<1>5. Mergeable(G) /\ AreArtifacts(JoinedArtifacts(done))
  BY <1>1, GroupsOfTheDay
<1>6. G = GroupsOf(Own(done), JoinedArtifacts(done)) /\ Groups(done) = MergeDuplicateCommitSets(G)
  BY DEF GroupsFor, Groups
<1>7. \A g \in G : g.events \subseteq Own(done)
  BY <1>1, GroupsOfTheDay DEF GroupOK
<1> HIDE DEF s, p, G
<1>8. PICK k \in DOMAIN p : k <= j /\ Copy(s, k, j)
  BY <1>2
<1>9. k \in DOMAIN s /\ s[k].ext = e.ext /\ s[k].kind = "CommitAuthored"
  BY <1>2, <1>3, <1>8 DEF Copy, SameCommit
<1>10. p[k].ext = e.ext /\ p[k].kind = "CommitAuthored"
  BY <1>2, <1>9 DEF Stays
<1>11. ASSUME NEW x \in Own(done), x.ext = e.ext PROVE x = p[k]
  <2>1. PICK i \in DOMAIN p : x = p[i]
    BY <1>4
  <2>2. s[i].ext = e.ext /\ s[i] \in Raw /\ p[i].kind = s[i].kind
    BY <1>2, <1>11, <2>1 DEF Stays
  <2>3. p[i].kind = "CommitAuthored"
    BY <2>2
  <2>4. SameCommit(p[i], p[k])
    BY <1>10, <1>11, <2>1, <2>3 DEF SameCommit
  <2> QED BY <1>2, <2>1, <2>4
<1>12. EventIsSelf(p[k])
  <2>1. ASSUME NEW i \in k .. Len(s), Copy(s, k, i) PROVE EventIsSelf(s[i])
    <3>1. i \in DOMAIN s /\ s[i].ext = e.ext
      BY <1>2, <1>9, <2>1 DEF Copy, SameCommit
    <3> QED BY <1>2, <3>1 DEF MineToo, EventIsSelf
  <2> QED BY <1>2, <2>1 DEF Stays
<1>13. p[k] \in Own(done)
  <2>1. PICK x \in Own(done) : IdOf(x) = IdOf(p[k])
    BY <1>4, <1>12
  <2>2. x.ext = e.ext
    BY <1>10, <2>1 DEF IdOf
  <2> QED BY <1>11, <2>2
<1>14. \E m \in Groups(done) : p[k] \in m.events
  <2>1. PICK h \in G : p[k] \in h.events
    BY <1>5, <1>6, <1>13, EventsAreGrouped
  <2>2. \A g \in G : \A f \in g.events : f.ext = p[k].ext => f = p[k]
    BY <1>7, <1>10, <1>11
  <2> DEFINE x == p[k]
  <2> HIDE DEF x
  <2>3. x \in h.events /\ \A g \in G : \A f \in g.events : f.ext = x.ext => f = x
    BY <2>1, <2>2 DEF x
  <2>4. \E m \in MergeDuplicateCommitSets(G) : x \in m.events
    BY <1>5, <2>3, MergedHasAll
  <2> QED BY <1>6, <2>4 DEF x
<1>15. \A y \in Own(done) : (y.ext = e.ext /\ y.kind = e.kind) <=> y = p[k]
  BY <1>10, <1>11
<1> DEFINE x == p[k]
<1> HIDE DEF x
<1>16. x \in Own(done) /\ (\E m \in Groups(done) : x \in m.events)
       /\ \A y \in Own(done) : (y.ext = e.ext /\ y.kind = e.kind) <=> y = x
  BY <1>13, <1>14, <1>15 DEF x
<1> QED BY <1>16, OneTelling

\* An event that shares its number with no other has one bullet.
LEMMA EventTold ==
    ASSUME ReportInv, phase = "drafted", NEW e \in Raw, e.kind # "CommitAuthored",
           MineToo(e), ~HasTwin(e)
    PROVE  Cardinality(Telling(e)) = 1
<1> DEFINE s == JoinedEvents(done)
           p == Merged(done)
           G == GroupsFor(done)
           arts == JoinedArtifacts(done)
           N == Len(arts)
<1>1. day \in Days /\ done \in Seq(DOMAIN day.results)
  BY DEF ReportInv
<1>2. /\ DOMAIN s = 1 .. Len(s) /\ Len(s) \in Nat /\ DOMAIN p \subseteq 1 .. Len(s)
      /\ \A j \in DOMAIN s : s[j] \in Raw /\ IsEvent(s[j])
      /\ \A i \in DOMAIN p : Stays(p[i], s, i)
      /\ \A j \in DOMAIN s : \E i \in DOMAIN p : i <= j /\ Copy(s, i, j)
  BY <1>1, MergedEvents DEF Raw
<1>3. PICK j \in DOMAIN s : e = s[j]
  BY <1>1, MergedEvents DEF Raw
<1>4. /\ \A x \in Own(done) : \E i \in DOMAIN p : x = p[i]
      /\ \A i \in DOMAIN p : EventIsSelf(p[i]) => \E x \in Own(done) : IdOf(x) = IdOf(p[i])
      /\ \A x, y \in Own(done) : IdOf(x) = IdOf(y) => x = y
      /\ \A x \in Own(done) : x.src \in Nat
  BY <1>1, OwnEvents
<1>5. Mergeable(G) /\ AreArtifacts(arts) /\ \A g \in G : GroupOK(g, Own(done), arts)
  BY <1>1, GroupsOfTheDay
<1>6. G = GroupsOf(Own(done), arts) /\ Groups(done) = MergeDuplicateCommitSets(G)
  BY DEF GroupsFor, Groups
<1>7. /\ \A i, k \in DOMAIN s : IdOf(s[i]) = IdOf(e) /\ IdOf(s[k]) = IdOf(e) => i = k
      /\ Shared(e) => \A f \in Raw : f.ext = e.ext => IdOf(f) = IdOf(e)
  BY DEF HasTwin
<1>8. \/ \E f \in Raw : f.src # e.src /\ f.repo \in {e.repo, None}
      \/ \E a \in ToSet(arts) : a.repo = e.repo
      => (OrphanOf(e)[1] = "CommitSet" => Shared(e))
  BY DEF Shared
<1>9. N \in Nat
  BY <1>5 DEF AreArtifacts, IsList
<1> HIDE DEF s, p, G, arts, N
<1>10. \A i \in DOMAIN p : p[i].kind # "CommitAuthored" => Kept(p[i], s[i]) /\ IdOf(p[i]) = IdOf(s[i])
  BY <1>2 DEF Stays, Kept, IdOf
<1>11. j \in DOMAIN p
  BY <1>2, <1>3 DEF Copy, SameCommit
<1>12. Kept(p[j], e) /\ IdOf(p[j]) = IdOf(e)
  <2>1. p[j].kind # "CommitAuthored"
    BY <1>2, <1>3, <1>11 DEF Stays
  <2> QED BY <1>3, <1>10, <1>11, <2>1
<1>13. EventIsSelf(p[j])
  BY <1>12 DEF Kept, EventIsSelf, MineToo
<1>14. ASSUME NEW y \in Own(done), IdOf(y) = IdOf(e) PROVE y = p[j]
  <2>1. PICK i \in DOMAIN p : y = p[i]
    BY <1>4
  <2>2. p[i].kind # "CommitAuthored"
    BY <1>14, <2>1 DEF IdOf
  <2>3. IdOf(s[i]) = IdOf(e) /\ i \in DOMAIN s
    BY <1>2, <1>10, <1>14, <2>1, <2>2
  <2>4. i = j
    BY <1>3, <1>7, <2>3
  <2> QED BY <2>1, <2>4
<1> DEFINE x == p[j]
<1>15. x \in Own(done)
  <2>1. PICK y \in Own(done) : IdOf(y) = IdOf(p[j])
    BY <1>4, <1>11, <1>13
  <2>2. y = p[j]
    BY <1>12, <1>14, <2>1
  <2> QED BY <2>1, <2>2
<1>16. Kept(x, e) /\ IdOf(x) = IdOf(e) /\ x.kind # "CommitAuthored"
  BY <1>12 DEF Kept
<1>17. \A y \in Own(done) : IdOf(y) = IdOf(e) <=> y = x
  BY <1>12, <1>14
<1> HIDE DEF x
<1>18. PICK h \in G : x \in h.events /\ h.key = OrphanKey(x)
  BY <1>5, <1>6, <1>15, <1>16, EventsAreGrouped
<1>19. OrphanOf(x) = OrphanOf(e) /\ x.repo = e.repo /\ x.src = e.src /\ x.ext = e.ext
  <2>1. x.kind = e.kind /\ x.item = e.item /\ x.repo = e.repo /\ x.ext = e.ext /\ x.src = e.src
    BY <1>16 DEF Kept
  <2> QED BY <2>1 DEF OrphanOf, GroupKeyOf, GitlabMrIdentity
<1>20. h.key.of = OrphanOf(e)
  BY <1>18, <1>19 DEF OrphanKey, Group
<1>21. h.place = N + x.src
  <2>1. GroupOK(h, Own(done), arts)
    BY <1>5
  <2>2. ~ \A y \in h.events : y.kind = "CommitAuthored"
    BY <1>16, <1>18
  <2>3. h.place = Len(arts) + h.key.src
    BY <2>1, <2>2 DEF GroupOK
  <2> QED BY <1>18, <2>3 DEF OrphanKey, Group, N
<1>22. ASSUME ~IsFirst(h, G) PROVE Shared(e)
  <2>1. PICK k \in G : SameSet(h, k) /\ ~(h.place <= k.place)
    BY <1>22 DEF IsFirst
  <2>2. OrphanOf(e) = <<"CommitSet", e.repo>> /\ k.key.of = <<"CommitSet", e.repo>>
    <3>1. OrphanOf(e)[1] = "CommitSet" /\ k.key.of = OrphanOf(e)
      BY <1>20, <2>1 DEF SameSet
    <3> QED BY <3>1, OrphanKinds
  <2>3. GroupOK(k, Own(done), arts)
    BY <1>5
  <2>4. CASE \E a \in ToSet(arts) : k.key = ArtifactKey(a)
    <3>1. PICK a \in ToSet(arts) : k.key = ArtifactKey(a)
      BY <2>4
    <3>2. k.key.of = <<"CommitSet", a.repo>>
      BY <3>1 DEF ArtifactKey, Group
    <3>3. a.repo = e.repo
      BY <2>2, <3>2
    <3> QED BY <1>8, <2>2, <3>3
  <2>5. CASE k.place = N + k.key.src /\ k.events # {} /\ \A y \in k.events : k.key = OrphanKey(y)
    <3>1. PICK y \in k.events : k.key = OrphanKey(y)
      BY <2>5
    <3>2. y \in Own(done) /\ k.key.src = y.src /\ k.key.of = OrphanOf(y)
      BY <2>3, <3>1 DEF GroupOK, OrphanKey, Group
    <3>3. y.src # e.src
      BY <1>4, <1>9, <1>15, <1>19, <1>21, <2>1, <2>5, <3>2
    <3>4. y.repo = e.repo
      <4>1. OrphanOf(y)[1] = "CommitSet" /\ OrphanOf(y) = <<"CommitSet", e.repo>>
        BY <2>2, <3>2
      <4>2. OrphanOf(y) = <<"CommitSet", y.repo>>
        BY <4>1, OrphanKinds
      <4> QED BY <4>1, <4>2
    <3>5. PICK l \in DOMAIN p : y = p[l]
      BY <1>4, <3>2
    <3>6. PICK i \in l .. Len(s) : p[l].src = s[i].src /\ s[i].repo \in {p[l].repo, None}
      BY <1>2 DEF Stays
    <3>7. s[i] \in Raw
      BY <1>2, <3>5, <3>6
    <3>8. s[i].src # e.src /\ s[i].repo \in {e.repo, None}
      BY <3>3, <3>4, <3>5, <3>6
    <3> QED BY <1>8, <2>2, <3>7, <3>8
  <2> QED BY <2>3, <2>4, <2>5 DEF GroupOK, N
<1>23. ASSUME ~IsFirst(h, G), NEW k \in G, NEW f \in k.events, f.ext = x.ext PROVE f = x
  <2>1. f \in Own(done)
    BY <1>5 DEF GroupOK
  <2>2. PICK l \in DOMAIN p : f = p[l]
    BY <1>4, <2>1
  <2>3. s[l] \in Raw /\ s[l].ext = e.ext /\ p[l].kind = s[l].kind
    BY <1>2, <1>19, <1>23, <2>2 DEF Stays
  <2>4. IdOf(s[l]) = IdOf(e)
    BY <1>7, <1>22, <1>23, <2>3
  <2>5. p[l].kind # "CommitAuthored"
    BY <2>3, <2>4 DEF IdOf
  <2>6. IdOf(f) = IdOf(e)
    BY <1>10, <2>2, <2>4, <2>5
  <2> QED BY <1>17, <2>1, <2>6
<1>24. \E m \in Groups(done) : x \in m.events
  <2>1. ~IsFirst(h, G) =>
          \A k \in G : (k = h \/ SameSet(k, h)) => \A f \in k.events : f.ext = x.ext => f = x
    BY <1>23
  <2>2. \E m \in MergeDuplicateCommitSets(G) : x \in m.events
    BY <1>5, <1>18, <2>1, MergedHasAll
  <2> QED BY <1>6, <2>2
<1> QED BY <1>15, <1>17, <1>24, OneTelling

LEMMA InvTellsOnce ==
    ReportInv => EveryEventInOneBullet
<1> SUFFICES ASSUME ReportInv, phase = "drafted"
             PROVE  /\ \A e \in Raw :
                        IF e.kind = "CommitAuthored"
                        THEN (\A f \in Raw : f.ext = e.ext => f.kind = e.kind /\ MineToo(f))
                               => Cardinality(Telling(e)) = 1
                        ELSE (MineToo(e) /\ ~HasTwin(e)) => Cardinality(Telling(e)) = 1
                    /\ \A b \in Bullets : b.ids # {} /\ b.ids \subseteq DOMAIN rows
  BY DEF EveryEventInOneBullet
<1>1. day \in Days /\ done \in Seq(DOMAIN day.results) /\ RowsTell(done) /\ Bullets = Work(done)
  BY DEF ReportInv, Bullets, WorkOf
<1>2. ASSUME NEW b \in Bullets PROVE b.ids # {} /\ b.ids \subseteq DOMAIN rows
  <2>1. b.ids # {} /\ \A id \in b.ids : \E x \in Own(done) : id = IdOf(x)
    BY <1>1, BulletsCite
  <2>2. ASSUME NEW id \in b.ids PROVE id \in DOMAIN rows
    <3>1. PICK x \in Own(done) : id = IdOf(x)
      BY <2>1
    <3>2. PICK i \in DOMAIN Merged(done) : x = Merged(done)[i]
      BY <1>1, OwnEvents
    <3>3. \E f \in Survivors(done) : IdOf(f) = IdOf(x)
      BY <1>1, <3>2, LastEvents
    <3> QED BY <1>1, <3>1, <3>3 DEF RowsTell
  <2> QED BY <2>1, <2>2
<1> QED BY <1>2, CommitTold, EventTold

\* Every commit of the user's and every other event of a number of its own has
\* one bullet, and what bullets cite is stored: nothing is lost or told twice
\* between the connectors and the draft (dedup.rs:78, rollup.rs:10-13).
THEOREM EventsAreToldOnce ==
    PipelineSpec => []EveryEventInOneBullet
<1>1. ReportInv /\ [PipelineNext]_pipelineVars => ReportInv'
  BY ReportGoesOn
<1>2. PipelineSpec => []ReportInv
  BY <1>1, ReportStarts, PTL DEF PipelineSpec
<1> QED BY <1>2, InvTellsOnce, PTL

=============================================================================
