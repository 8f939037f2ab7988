------------------------------ MODULE Retention ------------------------------
(***************************************************************************)
(* The retention sweep (crates/dayseam-orchestrator: retention.rs,         *)
(* startup.rs, orchestrator.rs; dayseam-db's raw_payloads and logs): rows  *)
(* older than the window go at each start, when the user asks, and after a *)
(* report has ended, the last at most once per interval.                   *)
(*                                                                         *)
(* A sweep reads the clock, then the window, then empties two tables one   *)
(* after the other; any statement may fail and ends it there.              *)
(***************************************************************************)
EXTENDS Integers, FiniteSets

CONSTANTS Sweepers,      \* tasks that may sweep
          Never,         \* Option::None
          DefaultDays,   \* DEFAULT_RETENTION_DAYS
          MinInterval,   \* POST_RUN_SWEEP_MIN_INTERVAL
          MaxClock       \* bound: how far the clock runs

ASSUME RetentionAssumption ==
    DefaultDays \in Nat /\ MinInterval \in Nat /\ MaxClock \in Nat /\ Never \notin Int

VARIABLES
    clock,
    days,       \* settings: retention.days, or Never
    payloads,   \* raw_payloads: fetched_at of its rows
    logs,       \* log_entries: ts of its rows
    last,       \* RetentionSchedule::last
    sweeper,    \* the sweeps under way
    boot,       \* this boot's startup(): "down", "due", "sweeping" or "done"
    written,    \* bookkeeping: every row ever written
    swept,      \* bookkeeping: cutoff of the last sweep that met no error
    claimed     \* bookkeeping: the claims granted since last external note

retentionVars == <<clock, days, payloads, logs, last, sweeper, boot, written, swept, claimed>>

Idle == [at |-> "idle"]

RetentionInit ==
    /\ clock = 0 /\ days \in {Never, DefaultDays}
    /\ payloads = {} /\ logs = {} /\ written = {}
    /\ last = Never /\ swept = Never /\ claimed = {}
    /\ sweeper = [s \in Sweepers |-> Idle]
    /\ boot = "due"

Is(s, at) == boot # "down" /\ sweeper[s].at = at
\* Whoever is free takes the next sweep.
Spare(s) == sweeper[s] = Idle /\ s = CHOOSE q \in Sweepers : sweeper[q] = Idle

Turned(s, record) == sweeper' = [sweeper EXCEPT ![s] = record]

Rows == <<payloads, logs, written, swept>>
Schedule == <<last, claimed>>

\* The clock moves on; time jumps by any amount.
Tick ==
    /\ \E t \in (clock + 1) .. MaxClock : clock' = t
    /\ UNCHANGED <<days, sweeper, boot, Rows, Schedule>>

\* A fetched payload and the log line beside it, at most one pair an instant:
\* RawPayloadRepo::insert, LogRepo::append.
WriteRow ==
    /\ boot # "down" /\ clock \notin written
    /\ payloads' = payloads \cup {clock} /\ logs' = logs \cup {clock}
    /\ written' = written \cup {clock}
    /\ UNCHANGED <<clock, days, sweeper, boot, swept, Schedule>>

(***************************************************************************)
(* Who sweeps                                                              *)
(***************************************************************************)

\* Orchestrator::startup: ensure_default_retention_days; recover_crashed_runs
\* (RunLifecycle's) may end it here.
BeginStartup(s) ==
    /\ boot = "due" /\ Spare(s)
    /\ \/ /\ days' = IF days = Never THEN DefaultDays ELSE days
          /\ Turned(s, [at |-> "read", by |-> "startup", now |-> clock])
          /\ boot' = "sweeping"
       \/ /\ days' \in {days, IF days = Never THEN DefaultDays ELSE days}
          /\ boot' = "done" /\ UNCHANGED sweeper
    /\ UNCHANGED <<clock, Rows, Schedule>>

\* retention_sweep_now
SweepNow(s) ==
    /\ boot = "done" /\ Spare(s)
    /\ Turned(s, [at |-> "read", by |-> "user", now |-> clock])
    /\ UNCHANGED <<clock, days, boot, Rows, Schedule>>

\* maybe_sweep_after_terminal: the clock is read before the lock is taken.
RunEnded(s) ==
    /\ boot = "done" /\ Spare(s)
    /\ Turned(s, [at |-> "claim", by |-> "run", now |-> clock])
    /\ UNCHANGED <<clock, days, boot, Rows, Schedule>>

\* Variant: a granted claim is not recorded.
ClaimSweepSlotUnrecorded(s) ==
    /\ Is(s, "claim")
    /\ IF last # Never /\ sweeper[s].now - last < MinInterval
       THEN Turned(s, Idle) /\ UNCHANGED Schedule
       ELSE /\ claimed' = claimed \cup {sweeper[s].now}
            /\ Turned(s, [sweeper[s] EXCEPT !.at = "read"])
            /\ UNCHANGED last
    /\ UNCHANGED <<clock, days, boot, Rows>>

\* claim_sweep_slot
ClaimSweepSlot(s) ==
    /\ Is(s, "claim")
    /\ IF last # Never /\ sweeper[s].now - last < MinInterval
       THEN Turned(s, Idle) /\ UNCHANGED Schedule
       ELSE /\ last' = sweeper[s].now
            /\ claimed' = claimed \cup {sweeper[s].now}
            /\ Turned(s, [sweeper[s] EXCEPT !.at = "read"])
    /\ UNCHANGED <<clock, days, boot, Rows>>

(***************************************************************************)
(* A sweep                                                                 *)
(***************************************************************************)

\* An error ends the sweep; startup() returns it and notes nothing.
GiveUp(s) ==
    /\ Turned(s, Idle)
    /\ boot' = IF sweeper[s].by = "startup" THEN "done" ELSE boot
    /\ UNCHANGED <<clock, days, Rows, Schedule>>

SweepFails(s) ==
    /\ \E at \in {"read", "payloads", "logs"} : Is(s, at)
    /\ GiveUp(s)

\* resolve_cutoff
ResolveCutoff(s) ==
    /\ Is(s, "read")
    /\ Turned(s, [at |-> "payloads", by |-> sweeper[s].by, now |-> sweeper[s].now,
                  cutoff |-> sweeper[s].now - (IF days = Never THEN DefaultDays ELSE days)])
    /\ UNCHANGED <<clock, days, boot, Rows, Schedule>>

\* prune_older_than of both repositories: DELETE ... WHERE ts < cutoff.
KeptFrom(cutoff, rows) == {t \in rows : t >= cutoff}

PrunePayloads(s) ==
    /\ Is(s, "payloads")
    /\ payloads' = KeptFrom(sweeper[s].cutoff, payloads)
    /\ Turned(s, [sweeper[s] EXCEPT !.at = "logs"])
    /\ UNCHANGED <<clock, days, boot, logs, written, swept, Schedule>>

\* The second table; after a run that is the end of the sweep.
PruneLogs(s) ==
    /\ Is(s, "logs")
    /\ logs' = KeptFrom(sweeper[s].cutoff, logs)
    /\ swept' = IF swept = Never \/ sweeper[s].cutoff > swept THEN sweeper[s].cutoff ELSE swept
    /\ Turned(s, IF sweeper[s].by = "run" THEN Idle ELSE [sweeper[s] EXCEPT !.at = "note"])
    /\ UNCHANGED <<clock, days, boot, payloads, written, Schedule>>

\* note_external_sweep: of the command with the time it began, of startup with
\* the time it ended.  `last` may move back.
NoteExternalSweep(s) ==
    /\ Is(s, "note")
    /\ last' = IF sweeper[s].by = "startup" THEN clock ELSE sweeper[s].now
    /\ claimed' = {}
    /\ boot' = "done"
    /\ Turned(s, Idle)
    /\ UNCHANGED <<clock, days, Rows>>

(***************************************************************************)
(* Quitting                                                                *)
(***************************************************************************)

QuitSweeping ==
    /\ boot # "down"
    /\ boot' = "down" /\ sweeper' = [s \in Sweepers |-> Idle]
    /\ last' = Never /\ claimed' = {}
    /\ UNCHANGED <<clock, days, Rows>>

BootAgain ==
    /\ boot = "down" /\ boot' = "due"
    /\ UNCHANGED <<clock, days, sweeper, Rows, Schedule>>

RetentionNext ==
    \/ Tick \/ WriteRow \/ QuitSweeping \/ BootAgain
    \/ \E s \in Sweepers :
         \/ BeginStartup(s) \/ SweepNow(s) \/ RunEnded(s) \/ ClaimSweepSlot(s)
         \/ SweepFails(s) \/ ResolveCutoff(s) \/ PrunePayloads(s) \/ PruneLogs(s)
         \/ NoteExternalSweep(s)

RetentionSpec == RetentionInit /\ [][RetentionNext]_retentionVars

(***************************************************************************)
(* Properties                                                              *)
(***************************************************************************)

\* retention.rs:91-102, 176-184: however many runs end at once, and in
\* whatever order they reach the lock, two granted claims with no external
\* sweep noted between them are an interval apart.
SweepsAreSpaced ==
    \A t, u \in claimed : t < u => u - t >= MinInterval

\* retention.rs:88-98, startup.rs:64-81: no sweep, however late its statements
\* run, takes a row that is still inside the window, and a row that a sweep
\* without an error found too old is in neither table.
WindowIsKept ==
    /\ \A t \in written : t >= clock - DefaultDays => t \in payloads \cap logs
    /\ swept # Never => \A t \in payloads \cup logs : t >= swept

\* Sweeps are rare, take nothing too young and leave nothing too old
\* (retention.rs:88-102, 176-184).
SweepsAreSound == SweepsAreSpaced /\ WindowIsKept

=============================================================================
