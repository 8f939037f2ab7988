------------------------------ MODULE Scheduler ------------------------------
(***************************************************************************)
(* The report scheduler.  A background task wakes every hour, builds a     *)
(* view of which days have a report (from the sync_runs rows, the notes in *)
(* the sink's directories and the session's skip set), plans, and executes *)
(* the plan run by run; days it missed are offered in a banner, and the    *)
(* user's answer starts a batch of its own.  Meanwhile the user generates  *)
(* and saves reports, the registry of live user runs is filled and reaped  *)
(* by two different tasks, the clock moves on and the app restarts.        *)
(*                                                                         *)
(* How a run gets its row is module RunLifecycle: here a run ends with or  *)
(* without a Completed row.  The view keeps what the planner reads.        *)
(***************************************************************************)
EXTENDS Integers, Sequences

CONSTANTS
    LastDay,      \* bound: the last day of the calendar
    StartDay,     \* the day the app is first opened
    WorkDays,     \* the days whose weekday is in cfg.days_of_week
    CatchUpDays,  \* cfg.catch_up_days
    UserRuns,     \* the report_generate calls the user can make
    None,         \* no run
    MayFail       \* what may go wrong, see FaultKinds

Days == 1..LastDay

\* Scanning the sink directories; assembling the request; recording the run;
\* saving the draft; losing the process.
FaultKinds == {"scan", "request", "record", "save", "restart"}

ASSUME DaysAreNat == LastDay \in Nat /\ StartDay \in Days /\ CatchUpDays \in Nat
ASSUME WorkDaysAreDays == WorkDays \subseteq Days
ASSUME NoneIsNoCaller == None \notin UserRuns \cup {"tick", "batch"}
ASSUME UsersAreNoTasks == UserRuns \cap {"tick", "batch"} = {}
ASSUME MayFailKinds == MayFail \subseteq FaultKinds

Callers == UserRuns \cup {"tick", "batch"}

VARIABLES
    \* the environment
    today,        \* the local calendar day
    phase,        \* "early" < earliest_start <= "window" <= target_time < "late"
    \* the tables and the disk
    rows,         \* the Completed rows of sync_runs, as the planner reads them
    notes,        \* the days that have a note in a sink directory
    \* the orchestrator
    run,          \* the run each caller waits for, or None
    inFlight,     \* whose run holds the in-flight slot of a day's key
    \* the registry of user runs
    registry,     \* AppState::runs
    registering,  \* report_generate calls about to insert their handle
    ended,        \* user runs whose task has ended
    reaped,       \* user runs whose reaper has finished
    \* the scheduler task
    tickPc,       \* "idle" | "scan" | "plan" | "act" | "run" | "save"
    view,         \* ScheduleState::satisfied
    todo,         \* the runs still to execute this tick
    missed,       \* the CatchUp action of this tick
    \* the catch-up banner, batch and skip set
    banner,       \* pendingCatchUp in the frontend
    batchPc,      \* "idle" | "act" | "run" | "save"
    batch,        \* the dates the batch has still to run
    skipped,      \* scheduler_skip
    \* bookkeeping of the specification, read by no action
    respected     \* the user runs registered when the tick planned

clock == <<today, phase>>
storage == <<rows, notes>>
orchestrator == <<run, inFlight>>
users == <<registry, registering, ended, reaped>>
tickVars == <<tickPc, view, todo, missed, respected>>
catchUp == <<banner, batchPc, batch, skipped>>
vars == <<clock, storage, orchestrator, users, tickVars, catchUp>>

(***************************************************************************)
(* Rows, views, types                                                      *)
(***************************************************************************)

Triggers == {"User", "InDay", "FinalPass", "CatchUp"}

\* `date` is request.date (kept by the draft, not by the row), `started` the
\* local day of started_at.
Row == [trigger : Triggers, date : Days, started : Days]

ASSUME NoneIsNoRow == None \notin Row

\* A planned run.
Pass == [trigger : {"InDay", "FinalPass"}, date : Days]

View == [Days -> {"none", "inDay", "final"}]

Empty == [d \in Days |-> "none"]

TypeOK ==
    /\ today \in Days /\ phase \in {"early", "window", "late"}
    /\ rows \subseteq Row /\ notes \subseteq Days
    /\ run \in [Callers -> Row \cup {None}]
    /\ inFlight \in [Days -> Callers \cup {None}]
    /\ registry \subseteq UserRuns /\ registering \subseteq UserRuns
    /\ ended \subseteq UserRuns /\ reaped \subseteq ended
    /\ tickPc \in {"idle", "scan", "plan", "act", "run", "save"}
    /\ view \in View
    /\ todo \in Seq(Pass) /\ Len(todo) <= 2
    /\ missed \subseteq WorkDays
    /\ tickPc \in {"run", "save"} => todo # <<>>
    /\ banner \subseteq WorkDays /\ batch \subseteq WorkDays
    /\ batchPc \in {"idle", "act", "run", "save"}
    /\ batchPc \in {"run", "save"} => batch # {}
    /\ skipped \subseteq WorkDays
    /\ respected \subseteq UserRuns

Init ==
    /\ today = StartDay /\ phase = "early"
    /\ rows = {} /\ notes = {}
    /\ run = [c \in Callers |-> None]
    /\ inFlight = [d \in Days |-> None]
    /\ registry = {} /\ registering = {} /\ ended = {} /\ reaped = {}
    /\ tickPc = "idle" /\ view = Empty /\ todo = <<>> /\ missed = {}
    /\ banner = {} /\ batchPc = "idle" /\ batch = {} /\ skipped = {}
    /\ respected = {}

(***************************************************************************)
(* The view and the planner                                                *)
(***************************************************************************)

\* ScheduleState::from_sync_runs: a row counts for the day it started on, a
\* final pass for the day before that; a final pass wins.
FromSyncRuns(rs) ==
    [d \in Days |->
        IF \E r \in rs : r.trigger = "FinalPass" /\ r.started = d + 1 THEN "final"
        ELSE IF \E r \in rs : r.trigger # "FinalPass" /\ r.started = d THEN "inDay"
        ELSE "none"]

\* augment_with_sink_files, or_insert: a note counts where no row does.
AugmentWithSinkFiles(v, ns) ==
    [d \in Days |-> IF v[d] = "none" /\ d \in ns THEN "inDay" ELSE v[d]]

CatchUpDaysHardCap == 30

Window == IF CatchUpDays < CatchUpDaysHardCap THEN CatchUpDays
                                              ELSE CatchUpDaysHardCap

UserRunInFlight == registry # {}

\* Variant: does not wait for the user.
FinalPassWhenever ==
    today - 1 \in WorkDays /\ view[today - 1] # "final"

\* Variant: any report of yesterday is good enough.
FinalPassUnlessSatisfied ==
    ~UserRunInFlight /\ today - 1 \in WorkDays /\ view[today - 1] = "none"

\* Rule 2.
FinalPassDue ==
    ~UserRunInFlight /\ today - 1 \in WorkDays /\ view[today - 1] # "final"

\* Rule 1.
RunTodayDue ==
    /\ ~UserRunInFlight
    /\ today \in WorkDays /\ phase = "window" /\ view[today] = "none"

\* Variant: yesterday is never offered.
MissedBeforeYesterday ==
    {d \in WorkDays : /\ today - Window <= d /\ d < today - 1
                      /\ view[d] = "none" /\ d \notin skipped}

\* Rule 3.
MissedDays ==
    {d \in WorkDays : /\ today - Window <= d /\ d < today
                      /\ view[d] = "none" /\ d \notin skipped
                      /\ ~(d = today - 1 /\ FinalPassDue)}

PlannedRuns ==
    (IF FinalPassDue THEN <<[trigger |-> "FinalPass", date |-> today - 1]>>
                     ELSE <<>>)
    \o (IF RunTodayDue THEN <<[trigger |-> "InDay", date |-> today]>> ELSE <<>>)

(***************************************************************************)
(* Runs                                                                    *)
(***************************************************************************)

\* start_with_trigger: takes the slot of the day's key, whoever holds it.
StartRun(c, trigger, date) ==
    /\ run' = [run EXCEPT ![c] =
                [trigger |-> trigger, date |-> date, started |-> today]]
    /\ inFlight' = [inFlight EXCEPT ![date] = c]

\* The run's task ends and leaves the slot if it still holds it.
LeaveSlot(c) ==
    /\ run' = [run EXCEPT ![c] = None]
    /\ inFlight' = [inFlight EXCEPT ![run[c].date] = IF @ = c THEN None ELSE @]

\* A run that completes gets its row, unless the write is lost.
Completes(c) ==
    /\ LeaveSlot(c)
    /\ \/ rows' = rows \cup {run[c]}
       \/ "record" \in MayFail /\ rows' = rows
    /\ notes' = notes

\* A run that is cancelled, superseded or fails gets no Completed row.
Fails(c) == LeaveSlot(c) /\ UNCHANGED storage

(***************************************************************************)
(* The scheduler task: tick                                                *)
(***************************************************************************)

\* load_config and list_recent.  A tick that finds the scheduler disabled (the
\* user may switch it at any time) or a query failing changes nothing.
LoadRows ==
    /\ tickPc = "idle"
    /\ view' = FromSyncRuns(rows)
    /\ tickPc' = "scan"
    /\ UNCHANGED <<clock, storage, orchestrator, users, todo, missed,
                   respected, catchUp>>

\* A failing scan is logged; the rows alone decide.
ScanSinkFiles ==
    /\ tickPc = "scan"
    /\ \/ view' = AugmentWithSinkFiles(view, notes)
       \/ "scan" \in MayFail /\ view' = view
    /\ tickPc' = "plan"
    /\ UNCHANGED <<clock, storage, orchestrator, users, todo, missed,
                   respected, catchUp>>

\* The skip set, the registry and the clock are read last.
PlanActions ==
    /\ tickPc = "plan"
    /\ todo' = PlannedRuns
    /\ missed' = MissedDays
    /\ respected' = registry
    /\ tickPc' = "act"
    /\ UNCHANGED <<clock, storage, orchestrator, users, view, catchUp>>

\* The head of the plan is done, well or badly.
NextAction == todo' = Tail(todo) /\ tickPc' = "act"

\* execute_run up to run_scheduled_action: no sink, or no request.
RefuseTickRun ==
    /\ tickPc = "act" /\ todo # <<>>
    /\ "request" \in MayFail
    /\ NextAction
    /\ UNCHANGED <<clock, storage, orchestrator, users, view, missed,
                   respected, catchUp>>

StartTickRun ==
    /\ tickPc = "act" /\ todo # <<>>
    /\ StartRun("tick", Head(todo).trigger, Head(todo).date)
    /\ tickPc' = "run"
    /\ UNCHANGED <<clock, storage, users, view, todo, missed,
                   respected, catchUp>>

\* handle.completion: only a completed run is saved.
EndTickRun ==
    /\ tickPc = "run"
    /\ \/ Completes("tick") /\ tickPc' = "save" /\ todo' = todo
       \/ Fails("tick") /\ NextAction
    /\ UNCHANGED <<clock, users, view, missed, respected, catchUp>>

\* Orchestrator::save_report; an error ends this action only.
SaveTickRun ==
    /\ tickPc = "save"
    /\ \/ notes' = notes \cup {Head(todo).date}
       \/ "save" \in MayFail /\ notes' = notes
    /\ NextAction
    /\ UNCHANGED <<clock, rows, orchestrator, users, view, missed,
                   respected, catchUp>>

\* The catch-up event replaces the banner's dates; then the task sleeps.
EndTick ==
    /\ tickPc = "act" /\ todo = <<>>
    /\ banner' = IF missed = {} THEN banner ELSE missed
    /\ tickPc' = "idle" /\ view' = Empty /\ missed' = {} /\ respected' = {}
    /\ UNCHANGED <<clock, storage, orchestrator, users, todo, batchPc,
                   batch, skipped>>

(***************************************************************************)
(* The catch-up batch: scheduler_run_catch_up, scheduler_skip_catch_up     *)
(***************************************************************************)

IsOldest(d) == d \in batch /\ \A e \in batch : d <= e

ConfirmCatchUp ==
    /\ batchPc = "idle" /\ banner # {}
    /\ batch' = banner
    /\ batchPc' = "act"
    /\ UNCHANGED <<clock, storage, orchestrator, users, tickVars,
                   banner, skipped>>

SkipCatchUp ==
    /\ batchPc = "idle" /\ banner # {}
    /\ skipped' = skipped \cup banner
    /\ banner' = {}
    /\ UNCHANGED <<clock, storage, orchestrator, users, tickVars,
                   batchPc, batch>>

\* build_scheduler_request: its error returns from the whole command, and the
\* frontend keeps the banner.
RefuseBatchRun ==
    /\ batchPc = "act" /\ batch # {}
    /\ "request" \in MayFail
    /\ batch' = {} /\ batchPc' = "idle"
    /\ UNCHANGED <<clock, storage, orchestrator, users, tickVars,
                   banner, skipped>>

StartBatchRun(d) ==
    /\ batchPc = "act" /\ IsOldest(d)
    /\ StartRun("batch", "CatchUp", d)
    /\ batchPc' = "run"
    /\ UNCHANGED <<clock, storage, users, tickVars, banner, batch, skipped>>

NextDate(d) == batch' = batch \ {d} /\ batchPc' = "act"

EndBatchRun(d) ==
    /\ batchPc = "run" /\ IsOldest(d)
    /\ \/ Completes("batch") /\ batchPc' = "save" /\ batch' = batch
       \/ Fails("batch") /\ NextDate(d)
    /\ UNCHANGED <<clock, users, tickVars, banner, skipped>>

SaveBatchRun(d) ==
    /\ batchPc = "save" /\ IsOldest(d)
    /\ \/ notes' = notes \cup {d}
       \/ "save" \in MayFail /\ notes' = notes
    /\ NextDate(d)
    /\ UNCHANGED <<clock, rows, orchestrator, users, tickVars, banner, skipped>>

\* The command returns its receipts and the frontend clears the banner.
EndBatch ==
    /\ batchPc = "act" /\ batch = {}
    /\ batchPc' = "idle" /\ banner' = {}
    /\ UNCHANGED <<clock, storage, orchestrator, users, tickVars,
                   batch, skipped>>

(***************************************************************************)
(* The user, and the registry                                              *)
(***************************************************************************)

\* report_generate: the run is started; its handle is registered later.
GenerateReport(u, d) ==
    /\ u \notin registering \cup registry \cup ended /\ run[u] = None
    /\ d <= today
    /\ StartRun(u, "User", d)
    /\ registering' = registering \cup {u}
    /\ UNCHANGED <<clock, storage, registry, ended, reaped, tickVars,
                   catchUp>>

\* registry.insert, the last statement of the command.
RegisterRun(u) ==
    /\ u \in registering
    /\ registry' = registry \cup {u}
    /\ registering' = registering \ {u}
    /\ UNCHANGED <<clock, storage, orchestrator, ended, reaped,
                   tickVars, catchUp>>

EndUserRun(u) ==
    /\ run[u] # None
    /\ Completes(u) \/ Fails(u)
    /\ ended' = ended \cup {u}
    /\ UNCHANGED <<clock, registry, registering, reaped, tickVars,
                   catchUp>>

\* spawn_run_reaper: the forwarders have ended, the handle is removed, if it
\* is there yet.
Reap(u) ==
    /\ u \in ended \ reaped
    /\ registry' = registry \ {u}
    /\ reaped' = reaped \cup {u}
    /\ UNCHANGED <<clock, storage, orchestrator, registering, ended,
                   tickVars, catchUp>>

\* report_save of any stored draft.
SaveReport(r) ==
    /\ r \in rows
    /\ notes' = notes \cup {r.date}
    /\ UNCHANGED <<clock, rows, orchestrator, users, tickVars, catchUp>>

(***************************************************************************)
(* The clock and the process                                               *)
(***************************************************************************)

Advance ==
    /\ \/ phase = "early" /\ phase' = "window" /\ today' = today
       \/ phase = "window" /\ phase' = "late" /\ today' = today
       \/ phase = "late" /\ today < LastDay /\ phase' = "early" /\ today' = today + 1
    /\ UNCHANGED <<storage, orchestrator, users, tickVars, catchUp>>

\* Everything in memory is gone; recovery makes unfinished rows Failed.
Restart ==
    /\ "restart" \in MayFail
    /\ run' = [c \in Callers |-> None]
    /\ inFlight' = [d \in Days |-> None]
    /\ ended' = ended \cup registering \cup registry
                      \cup {u \in UserRuns : run[u] # None}
    /\ reaped' = ended'
    /\ registry' = {} /\ registering' = {}
    /\ tickPc' = "idle" /\ view' = Empty /\ todo' = <<>> /\ missed' = {}
    /\ respected' = {}
    /\ banner' = {} /\ batchPc' = "idle" /\ batch' = {} /\ skipped' = {}
    /\ UNCHANGED <<clock, storage>>

(***************************************************************************)
(* Specification                                                           *)
(***************************************************************************)

Tick ==
    \/ LoadRows \/ ScanSinkFiles \/ PlanActions \/ RefuseTickRun
    \/ StartTickRun \/ EndTickRun \/ SaveTickRun \/ EndTick

Batch ==
    \/ \E d \in batch : StartBatchRun(d) \/ EndBatchRun(d) \/ SaveBatchRun(d)
    \/ RefuseBatchRun \/ EndBatch

Next ==
    \/ Tick \/ Batch
    \/ ConfirmCatchUp \/ SkipCatchUp
    \/ \E u \in UserRuns : \/ \E d \in Days : GenerateReport(u, d)
                           \/ RegisterRun(u) \/ EndUserRun(u) \/ Reap(u)
    \/ \E r \in rows : SaveReport(r)
    \/ Advance \/ Restart

Spec == Init /\ [][Next]_vars

(***************************************************************************)
(* Properties                                                              *)
(***************************************************************************)

TickStarts(trigger, d) ==
    /\ tickPc = "act" /\ tickPc' = "run"
    /\ Head(todo) = [trigger |-> trigger, date |-> d]

\* A pass that completed is never repeated: not after a restart, not after the
\* user saved or generated the same day, not when it crossed midnight.
NoPassTwice ==
    [][\A r \in rows : ~TickStarts(r.trigger, r.date)]_vars

\* Rule 3 with rule 2: no scheduled day of the window is forgotten.  If it has
\* no note, no run started on it, no final pass started the day after and the
\* user did not skip it, a plan runs it or offers it, and never both.
MissedDayIsPlanned ==
    [][tickPc = "plan" /\ tickPc' = "act" =>
         \A d \in WorkDays :
            LET runs == \E i \in 1..Len(todo') : todo'[i].date = d IN
            /\ /\ d < today /\ today - Window <= d
               /\ d \notin notes \cup skipped
               /\ \A r \in rows : IF r.trigger = "FinalPass" THEN r.started # d + 1
                                                          ELSE r.started # d
               => runs \/ d \in missed'
            /\ ~(runs /\ d \in missed')]_vars

\* Rule 2 "catches a 4:45 pm change": the day after a scheduled day, every plan
\* re-runs it until a final pass of it completes -- or one of an earlier day
\* that was started after midnight and is taken for it.
YesterdayGetsItsFinalPass ==
    [][tickPc = "plan" /\ tickPc' = "act" /\ registry = {} /\ today - 1 \in WorkDays =>
         \/ \E i \in 1..Len(todo') :
               todo'[i] = [trigger |-> "FinalPass", date |-> today - 1]
         \/ \E r \in rows : /\ r.trigger = "FinalPass" /\ r.started = today
                            /\ r.date < today]_vars

\* The scheduler does not fight with the user: a run that was registered when
\* the tick planned is never replaced by one of the tick's runs.
RegisteredRunIsNotDisplaced ==
    [][\A d \in Days : inFlight'[d] = "tick" /\ inFlight[d] # "tick" =>
          inFlight[d] \notin respected]_vars

\* A tick runs neither what has run nor what the user is running
\* (schedule/mod.rs:211-290, scheduler_task.rs).
TickRunsOnlyWhatIsDue == NoPassTwice /\ RegisteredRunIsNotDisplaced

(***************************************************************************)
(* What a comment promises and the code does not do (see README)           *)
(***************************************************************************)

\* schedule/mod.rs, ScheduleRunError::Save: after a failed save the scheduler
\* "refuses to claim satisfaction for this date".
ClaimedPassIsSaved ==
    tickPc = "plan" =>
        \A r \in rows : r.trigger = "FinalPass" /\ view[r.date] = "final"
                        => r.date \in notes

=============================================================================
