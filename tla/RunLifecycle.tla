---------------------------- MODULE RunLifecycle ----------------------------
(***************************************************************************)
(* The `generate_report` lifecycle of crates/dayseam-orchestrator: the     *)
(* in-flight map that lets a newer call supersede an older one for the     *)
(* same (person, date, template), the cancel tokens, the background task   *)
(* of each run with its terminal paths, the sync_runs and report_drafts    *)
(* rows they write, a crash of the process between any two steps, and the  *)
(* crash-recovery sweep of the next boot.                                  *)
(*                                                                         *)
(* One action per stretch of code between two awaits that touch shared     *)
(* state.  A step that talks to SQLite may fail if its kind is in MayFail. *)
(***************************************************************************)

CONSTANTS
    Runs,        \* the generate calls that can be made
    Keys,        \* InFlightKey: (person_id, date, template_id)
    Nil,        \* Option::None
    MayFail      \* the kinds of database call that may return an error

\* The kinds: sync_runs.insert, a sync_runs terminal update, the
\* activity_events / render stage, the draft insert, the recovery sweep.
FaultKinds == {"insert", "mark", "events", "draft", "recovery"}

ASSUME NilIsNoRun == Nil \notin Runs
ASSUME MayFailKinds == MayFail \subseteq FaultKinds

VARIABLES
    \* the database, see ReportLedger
    status, supersededBy, drafts,
    \* the process
    proc,        \* "down" | "booting" | "up"
    todo,        \* rows list_running returned that are not yet swept
    swept,       \* the recovery sweep of this boot met no error
    \* the orchestrator's memory
    inFlight,    \* [Keys -> Runs \cup {Nil}], Orchestrator::in_flight
    fired,       \* the runs whose CancellationToken is cancelled
    \* one task per run
    pc,          \* what the run's task does next
    key,         \* the key it was called with
    prior,       \* the run it replaced in the map (prior_in_flight)
    seen,        \* what its last superseded_by_now returned
    outcome,     \* GenerateOutcome::status, "Pending" before it is decided
    \* bookkeeping of the specification, read by no action
    unwritten,   \* runs one of whose terminal row writes did not land
    evicted      \* runs whose map entry another run's failed start removed

database == <<status, supersededBy, drafts>>
process == <<proc, todo, swept>>
memory == <<inFlight, fired>>
locals == <<key, prior, seen, outcome>>
ghosts == <<unwritten, evicted>>
vars == <<database, process, memory, pc, locals, ghosts>>

Ledger == INSTANCE ReportLedger WITH status <- status, supersededBy <- supersededBy, drafts <- drafts

(***************************************************************************)
(* Control states                                                          *)
(***************************************************************************)

\* In start_with_trigger, before the background task is spawned.
Starting == {"swapped", "insert", "evict", "mark"}

\* In run_background and the terminate_* helpers it ends in.
Background == {"fetch", "cancelRead", "cancelWrite", "events", "guard",
               "draft", "finish", "fail", "drop"}

Live == Starting \cup Background

\* "done": the completion future resolved.  "lost": the process died first.
Control == Live \cup {"idle", "done", "lost"}

OutcomeStatus == {"Pending", "Completed", "Cancelled", "Failed"}

TypeOK ==
    /\ status \in [Runs -> Ledger!RowStatus]
    /\ supersededBy \in [Runs -> Runs \cup {Nil}]
    /\ drafts \subseteq Runs
    /\ proc \in {"down", "booting", "up"}
    /\ todo \subseteq Runs
    /\ swept \in BOOLEAN
    /\ inFlight \in [Keys -> Runs \cup {Nil}]
    /\ fired \subseteq Runs
    /\ pc \in [Runs -> Control]
    /\ key \in [Runs -> Keys \cup {Nil}]
    /\ prior \in [Runs -> Runs \cup {Nil}]
    /\ seen \in [Runs -> Runs \cup {Nil}]
    /\ outcome \in [Runs -> OutcomeStatus]
    /\ unwritten \subseteq Runs
    /\ evicted \subseteq Runs

Init ==
    /\ Ledger!Init
    /\ proc = "down" /\ todo = {} /\ swept = FALSE
    /\ inFlight = [k \in Keys |-> Nil]
    /\ fired = {}
    /\ pc = [r \in Runs |-> "idle"]
    /\ key = [r \in Runs |-> Nil]
    /\ prior = [r \in Runs |-> Nil]
    /\ seen = [r \in Runs |-> Nil]
    /\ outcome = [r \in Runs |-> "Pending"]
    /\ unwritten = {} /\ evicted = {}

(***************************************************************************)
(* Helpers                                                                 *)
(***************************************************************************)

Goto(r, label) == pc' = [pc EXCEPT ![r] = label]

At(r, label) == proc = "up" /\ pc[r] = label

\* Variant: the SELECT-then-UPDATE shape of transition before DAY-188.
AcceptsAnyRow(r) == status[r] # "Absent"

\* SyncRunRepo::transition: one UPDATE ... WHERE status = 'Running'.
Accepts(r) == status[r] = "Running"

Transition(r, to, by) ==
    /\ Accepts(r)
    /\ status' = [status EXCEPT ![r] = to]
    /\ supersededBy' = [supersededBy EXCEPT ![r] = by]
    /\ UNCHANGED <<drafts, unwritten>>

\* The UPDATE touched no row, or SQLite returned an error: every caller
\* logs it and goes on.
TransitionLost(r) ==
    /\ ~Accepts(r) \/ "mark" \in MayFail
    /\ unwritten' = unwritten \cup {r}
    /\ UNCHANGED database

\* superseded_by_now: an empty slot and our own entry both read as Nil.
SupersededByNow(r) ==
    IF inFlight[key[r]] = r THEN Nil ELSE inFlight[key[r]]

(***************************************************************************)
(* start_with_trigger                                                      *)
(***************************************************************************)

\* prior? : only an occupied slot holds a token to fire.
AfterSwap(k) == IF inFlight[k] = Nil THEN "insert" ELSE "swapped"

\* swap_in_flight_and_cancel, under the map's mutex.
SwapInFlight(r, k) ==
    /\ At(r, "idle")
    /\ key' = [key EXCEPT ![r] = k]
    /\ prior' = [prior EXCEPT ![r] = inFlight[k]]
    /\ inFlight' = [inFlight EXCEPT ![k] = r]
    /\ Goto(r, AfterSwap(k))
    /\ UNCHANGED <<database, process, fired, seen, outcome, ghosts>>

\* Variant: writes the older row before the newer one is on disk.
FireAndMarkPrior(r) ==
    /\ At(r, "swapped")
    /\ fired' = fired \cup {prior[r]}
    /\ Transition(prior[r], "Cancelled", r) \/ TransitionLost(prior[r])
    /\ Goto(r, "insert")
    /\ UNCHANGED <<process, inFlight, locals, evicted>>

\* ... and, after the mutex is released, the older run's token.
FirePriorCancel(r) ==
    /\ At(r, "swapped")
    /\ fired' = fired \cup {prior[r]}
    /\ Goto(r, "insert")
    /\ UNCHANGED <<database, process, inFlight, locals, ghosts>>

\* A successful insert spawns the background task, after the older row is
\* marked if there is one.
InsertRow(r) ==
    /\ At(r, "insert")
    /\ status' = [status EXCEPT ![r] = "Running"]
    /\ Goto(r, IF prior[r] = Nil THEN "fetch" ELSE "mark")
    /\ UNCHANGED <<supersededBy, drafts, process, memory, locals, ghosts>>

\* A failed one leaves the older run's row alone.
InsertRowFails(r) ==
    /\ At(r, "insert")
    /\ "insert" \in MayFail
    /\ unwritten' = unwritten \cup ({prior[r]} \ {Nil})
    /\ Goto(r, "evict")
    /\ UNCHANGED <<database, process, memory, locals, evicted>>

\* in_flight.remove(&key), whoever holds the slot by now.
EvictSlot(r) ==
    /\ At(r, "evict")
    /\ evicted' = evicted \cup ({inFlight[key[r]]} \ {r, Nil})
    /\ inFlight' = [inFlight EXCEPT ![key[r]] = Nil]
    /\ outcome' = [outcome EXCEPT ![r] = "Failed"]
    /\ Goto(r, "done")
    /\ UNCHANGED <<database, process, fired, key, prior, seen, unwritten>>

\* mark_prior_superseded
MarkPriorSuperseded(r) ==
    /\ At(r, "mark")
    /\ \/ Transition(prior[r], "Cancelled", r)
       \/ TransitionLost(prior[r])
    /\ Goto(r, "fetch")
    /\ UNCHANGED <<process, memory, locals, evicted>>

(***************************************************************************)
(* run_background                                                          *)
(***************************************************************************)

\* Variant: goes on with what the sources returned although it was cancelled.
FinishFanOutBlind(r) ==
    /\ At(r, "fetch")
    /\ Goto(r, "events")
    /\ UNCHANGED <<database, process, memory, locals, ghosts>>

\* The fan-out joins every source task, then comes the only test
\* of the cancel token.
FinishFanOut(r) ==
    /\ At(r, "fetch")
    /\ Goto(r, IF r \in fired THEN "cancelRead" ELSE "events")
    /\ UNCHANGED <<database, process, memory, locals, ghosts>>

\* Persist activity_events (skipped when there are none) and render.
PersistEventsAndRender(r) ==
    /\ At(r, "events")
    /\ \/ Goto(r, "guard")
       \/ "events" \in MayFail /\ Goto(r, "fail")
    /\ UNCHANGED <<database, process, memory, locals, ghosts>>

\* The persist-time guard.  Superseded: no row write, no drop, straight out.
PersistGuard(r) ==
    /\ At(r, "guard")
    /\ seen' = [seen EXCEPT ![r] = SupersededByNow(r)]
    /\ IF SupersededByNow(r) = Nil
         THEN Goto(r, "draft") /\ UNCHANGED outcome
         ELSE Goto(r, "done") /\ outcome' = [outcome EXCEPT ![r] = "Cancelled"]
    /\ UNCHANGED <<database, process, memory, key, prior, ghosts>>

InsertDraft(r) ==
    /\ At(r, "draft")
    /\ drafts' = drafts \cup {r}
    /\ Goto(r, "finish")
    /\ UNCHANGED <<status, supersededBy, process, memory, locals, ghosts>>

\* Variant: logs the failed insert and goes on.
InsertDraftFailsQuietly(r) ==
    /\ At(r, "draft")
    /\ "draft" \in MayFail
    /\ Goto(r, "finish")
    /\ UNCHANGED <<database, process, memory, locals, ghosts>>

InsertDraftFails(r) ==
    /\ At(r, "draft")
    /\ "draft" \in MayFail
    /\ Goto(r, "fail")
    /\ UNCHANGED <<database, process, memory, locals, ghosts>>

\* A rejected mark_finished is logged, and the outcome is Completed anyway.
MarkFinished(r) ==
    /\ At(r, "finish")
    /\ \/ Transition(r, "Completed", Nil)
       \/ TransitionLost(r)
    /\ outcome' = [outcome EXCEPT ![r] = "Completed"]
    /\ Goto(r, "drop")
    /\ UNCHANGED <<process, memory, key, prior, seen, evicted>>

\* The cancelled path: who cancelled us?
ReadCancelReason(r) ==
    /\ At(r, "cancelRead")
    /\ seen' = [seen EXCEPT ![r] = SupersededByNow(r)]
    /\ outcome' = [outcome EXCEPT ![r] = "Cancelled"]
    /\ Goto(r, IF SupersededByNow(r) = Nil THEN "cancelWrite" ELSE "drop")
    /\ UNCHANGED <<database, process, memory, key, prior, ghosts>>

\* terminate_cancelled writes the row only when nobody superseded us.
MarkCancelledByUser(r) ==
    /\ At(r, "cancelWrite")
    /\ \/ Transition(r, "Cancelled", Nil)
       \/ TransitionLost(r)
    /\ Goto(r, "drop")
    /\ UNCHANGED <<process, memory, locals, evicted>>

\* terminate_failed
MarkFailed(r) ==
    /\ At(r, "fail")
    /\ \/ Transition(r, "Failed", Nil)
       \/ TransitionLost(r)
    /\ outcome' = [outcome EXCEPT ![r] = "Failed"]
    /\ Goto(r, "drop")
    /\ UNCHANGED <<process, memory, key, prior, seen, evicted>>

\* Variants: forget to drop the entry, or drop whichever entry is there.
KeepInFlight(r) ==
    /\ At(r, "drop")
    /\ Goto(r, "done")
    /\ UNCHANGED <<database, process, memory, locals, ghosts>>

DropInFlight(r) ==
    /\ At(r, "drop")
    /\ inFlight' = [inFlight EXCEPT ![key[r]] = Nil]
    /\ Goto(r, "done")
    /\ UNCHANGED <<database, process, fired, locals, ghosts>>

DropInFlightIfOurs(r) ==
    /\ At(r, "drop")
    /\ inFlight' = IF inFlight[key[r]] = r
                     THEN [inFlight EXCEPT ![key[r]] = Nil]
                     ELSE inFlight
    /\ Goto(r, "done")
    /\ UNCHANGED <<database, process, fired, locals, ghosts>>

(***************************************************************************)
(* Orchestrator::cancel, from the report_cancel command: the user knows the *)
(* run id once generate_report has returned it.                            *)
(***************************************************************************)

Cancel(r) ==
    /\ proc = "up"
    /\ pc[r] \in Background
    /\ inFlight[key[r]] = r
    /\ fired' = fired \cup {r}
    /\ UNCHANGED <<database, process, inFlight, pc, locals, ghosts>>

(***************************************************************************)
(* Process: a crash (or a quit: nothing waits for the tasks), and boot     *)
(***************************************************************************)

Crash ==
    /\ proc # "down"
    /\ proc' = "down" /\ todo' = {} /\ swept' = FALSE
    /\ inFlight' = [k \in Keys |-> Nil]
    /\ fired' = {}
    /\ pc' = [r \in Runs |-> IF pc[r] \in Live THEN "lost" ELSE pc[r]]
    /\ UNCHANGED <<database, locals, ghosts>>

\* Variant: takes a run with a draft for a finished one.
ListRunningWithoutDraft ==
    /\ proc = "down"
    /\ proc' = "booting"
    /\ todo' = {r \in Runs : status[r] = "Running" /\ r \notin drafts}
    /\ UNCHANGED <<database, swept, memory, pc, locals, ghosts>>

\* recover_crashed_runs reads its work list once.
ListRunning ==
    /\ proc = "down"
    /\ proc' = "booting"
    /\ todo' = {r \in Runs : status[r] = "Running"}
    /\ UNCHANGED <<database, swept, memory, pc, locals, ghosts>>

RecoverRow(r) ==
    /\ proc = "booting"
    /\ r \in todo
    /\ Transition(r, "Failed", Nil)
    /\ todo' = todo \ {r}
    /\ UNCHANGED <<proc, swept, memory, pc, locals, evicted>>

\* Variant: accepts calls while the sweep is under way.
FinishRecoveryEarly ==
    /\ proc = "booting"
    /\ proc' = "up" /\ swept' = TRUE
    /\ UNCHANGED <<database, todo, memory, pc, locals, ghosts>>

FinishRecovery ==
    /\ proc = "booting"
    /\ todo = {}
    /\ proc' = "up" /\ swept' = TRUE
    /\ UNCHANGED <<database, todo, memory, pc, locals, ghosts>>

\* Any error ends the sweep; run_startup_maintenance logs it and boots on.
AbortRecovery ==
    /\ proc = "booting"
    /\ "recovery" \in MayFail
    /\ proc' = "up" /\ todo' = {} /\ swept' = FALSE
    /\ UNCHANGED <<database, memory, pc, locals, ghosts>>

(***************************************************************************)
(* Specification                                                           *)
(***************************************************************************)

\* What the task of run r does once the call was made.
Step(r) ==
    \/ FirePriorCancel(r) \/ InsertRow(r) \/ InsertRowFails(r)
    \/ EvictSlot(r) \/ MarkPriorSuperseded(r)
    \/ FinishFanOut(r) \/ PersistEventsAndRender(r) \/ PersistGuard(r)
    \/ InsertDraft(r) \/ InsertDraftFails(r) \/ MarkFinished(r)
    \/ ReadCancelReason(r) \/ MarkCancelledByUser(r) \/ MarkFailed(r)
    \/ DropInFlightIfOurs(r)

Boot == ListRunning \/ FinishRecovery \/ \E r \in Runs : RecoverRow(r)

Next ==
    \/ \E r \in Runs : Step(r) \/ Cancel(r)
    \/ \E r \in Runs, k \in Keys : SwapInFlight(r, k)
    \/ Crash \/ Boot \/ AbortRecovery

Spec == Init /\ [][Next]_vars

\* tokio polls every spawned task, and a booting process boots.  Nothing
\* obliges the user to call, cancel or quit.
Fairness ==
    /\ \A r \in Runs : WF_vars(Step(r))
    /\ WF_vars(Boot)

FairSpec == Spec /\ Fairness

(***************************************************************************)
(* Properties                                                              *)
(***************************************************************************)

\* The in-flight map holds no leaked entry: the run in a slot is one whose
\* task still runs and was called with that key.  Each exit of run_background
\* relies on a different argument: the terminate paths drop the entry, the
\* persist-time guard leaves without dropping because it saw another run's.
SlotHolderIsLive ==
    \A k \in Keys : inFlight[k] # Nil =>
        LET r == inFlight[k] IN pc[r] \in Live /\ key[r] = k

\* A live run that lost its slot has been told, or its superseder is about to
\* fire its token (generate.rs, swap_in_flight_and_cancel).  The exception is
\* a run whose entry a failed start of another run removed.
DisplacedRunIsSignalled ==
    \A r \in Runs : pc[r] \in Live /\ inFlight[key[r]] # r =>
        \/ r \in fired
        \/ \E q \in Runs : prior[q] = r /\ pc[q] = "swapped"
        \/ r \in evicted

\* The map points at live runs only, and each live run it no longer points at
\* knows (generate.rs:266-299, :833-840).
SlotIsSound == SlotHolderIsLive /\ DisplacedRunIsSignalled

\* `superseded_by` names the one run that took the row's slot over, of the same
\* key and itself on disk: the foreign key that makes start_with_trigger insert
\* the new row before it marks the old one.
SupersedeLinkIsSound ==
    \A r \in Runs : supersededBy[r] # Nil =>
        LET q == supersededBy[r] IN
        /\ status[r] = "Cancelled"
        /\ status[q] # "Absent"
        /\ prior[q] = r /\ key[q] = key[r]
        /\ \A s \in Runs \ {r} : supersededBy[s] # q

\* The row and what the caller was told never contradict each other, whatever
\* writes were lost or raced (terminate_cancelled, terminate_failed,
\* mark_finished and mark_prior_superseded all write the same row): a Completed
\* row has its draft, a run reported Cancelled or Failed left neither a draft
\* nor a Completed row, and only a superseding run can make a row Cancelled
\* whose caller is told Completed.
RowAgreesWithOutcome ==
    \A r \in Runs :
        /\ status[r] = "Completed" => r \in drafts /\ outcome[r] = "Completed"
        /\ outcome[r] \in {"Cancelled", "Failed"} =>
              r \notin drafts /\ status[r] # "Completed"
        /\ outcome[r] = "Completed" =>
              /\ r \in drafts
              /\ status[r] = "Cancelled" => supersededBy[r] # Nil

\* q replaced r in the map and has yet to write r's row, or died before.
MarkPending(r) ==
    \E q \in Runs : prior[q] = r /\ pc[q] \in {"swapped", "insert", "mark", "lost"}

\* A task that ended with its row still Running has a superseder that will
\* write it, or a write for it was lost, or its entry was evicted: the
\* cancelled path and the persist-time guard, which both leave the row to the
\* newer run, never drop it between two chairs by themselves.
UnrecordedRunHasCause ==
    \A r \in Runs : pc[r] = "done" /\ status[r] = "Running" =>
        MarkPending(r) \/ r \in unwritten \/ r \in evicted

\* What a row says of its run is true, and what it does not say yet someone is
\* going to write or failed to (generate.rs:545-599, :842-923).
RowsAreTruthful == RowAgreesWithOutcome /\ UnrecordedRunHasCause

\* Orchestrator::startup runs before any new call is accepted: its work list
\* holds no live run, and a boot whose sweep succeeded starts with no row that
\* an earlier process left Running.
RecoveryIsExact ==
    /\ \A r \in todo : pc[r] \in {"done", "lost"}
    /\ swept => \A r \in Runs : pc[r] = "lost" => status[r] # "Running"

\* The durable tables implement their abstract specification.
ImplementsLedger == Ledger!Spec

\* A cancel that reaches the run while it fetches keeps it from ever storing a
\* draft, also across the awaits of the terminal path.
CancelWhileFetchingDropsReport ==
    \A r \in Runs :
        [](pc[r] = "fetch" /\ r \in fired => [](r \notin drafts))

\* No run keeps its slot for ever: a caller waiting for in_flight_count to
\* reach zero is not left waiting.
SlotIsReleased ==
    \A k \in Keys, r \in Runs : (inFlight[k] = r) ~> (inFlight[k] # r)

\* Once the app stops crashing, the rows of runs that died with it are
\* rewritten, if no recovery sweep is aborted.
LostRowsAreRepaired ==
    \A r \in Runs :
        <>[](proc # "down") =>
            ((pc[r] = "lost" /\ status[r] = "Running") ~> (status[r] # "Running"))

(***************************************************************************)
(* What the comments promise and the code does not do (see README)         *)
(***************************************************************************)

\* generate.rs: "if a newer run owns the key, the supersede path already wrote
\* our terminal row" -- or at least still will.
EndedRunIsRecorded ==
    \A r \in Runs : pc[r] = "done" /\ status[r] = "Running" => MarkPending(r)

\* generate.rs, module comment: "if the entry no longer matches the task's own
\* run_id, the task exits its persistence path" -- the guard lets no run pass
\* whose row says it was superseded.
GuardStopsSupersededRun ==
    [][\A r \in Runs : pc[r] = "guard" /\ pc'[r] = "draft"
                          => supersededBy[r] = Nil]_vars

\* orchestrator.rs, cancel: a no-op only for a run that already terminated or
\* never existed.
LiveRunIsCancellable ==
    \A r \in Runs : pc[r] \in {"fetch", "events", "guard", "draft", "finish"} =>
        \/ inFlight[key[r]] = r
        \/ r \in fired
        \/ \E q \in Runs : prior[q] = r /\ pc[q] = "swapped"

=============================================================================
