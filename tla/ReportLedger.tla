---------------------------- MODULE ReportLedger ----------------------------
(***************************************************************************)
(* What the two durable tables of a report run promise to every reader of  *)
(* the database (history view, scheduler, crash recovery): `sync_runs`,    *)
(* one row per generate call, and `report_drafts`, at most one draft per   *)
(* run.  Nothing here knows about tasks, tokens or the in-flight map:      *)
(* module RunLifecycle models those and is shown to implement this.        *)
(*                                                                         *)
(* A run id q that is `superseded_by` some row was opened before the row   *)
(* it replaces was closed, and replaces that row only.                     *)
(***************************************************************************)

CONSTANTS Runs,      \* the run ids (RunId::new, a fresh v4 uuid per call)
          Nil       \* SQL NULL

VARIABLES
    status,          \* [Runs -> RowStatus], the column sync_runs.status
    supersededBy,    \* [Runs -> Runs \cup {Nil}], sync_runs.superseded_by
    drafts           \* the runs with a row in report_drafts

ledger == <<status, supersededBy, drafts>>

\* `Absent` is a run whose row was never inserted.
RowStatus == {"Absent", "Running", "Completed", "Cancelled", "Failed"}

\* The state machine of SyncRunRepo: a row leaves Running once.
Terminal == {"Completed", "Cancelled", "Failed"}

Superseded(r) == supersededBy[r] # Nil

Init ==
    /\ status = [r \in Runs |-> "Absent"]
    /\ supersededBy = [r \in Runs |-> Nil]
    /\ drafts = {}

Open(r) ==
    /\ status[r] = "Absent"
    /\ status' = [status EXCEPT ![r] = "Running"]
    /\ UNCHANGED <<supersededBy, drafts>>

\* A run that was superseded may still store its draft: the guard against
\* late writes is a read of the in-flight map, not a condition of the insert.
StoreDraft(r) ==
    /\ r \notin drafts
    /\ status[r] = "Running" \/ Superseded(r)
    /\ drafts' = drafts \cup {r}
    /\ UNCHANGED <<status, supersededBy>>

Complete(r) ==
    /\ status[r] = "Running"
    /\ r \in drafts
    /\ status' = [status EXCEPT ![r] = "Completed"]
    /\ UNCHANGED <<supersededBy, drafts>>

CancelByUser(r) ==
    /\ status[r] = "Running"
    /\ r \notin drafts
    /\ status' = [status EXCEPT ![r] = "Cancelled"]
    /\ UNCHANGED <<supersededBy, drafts>>

Supersede(r, q) ==
    /\ status[r] = "Running"
    /\ q # r
    /\ status[q] # "Absent"
    /\ \A s \in Runs : supersededBy[s] # q
    /\ status' = [status EXCEPT ![r] = "Cancelled"]
    /\ supersededBy' = [supersededBy EXCEPT ![r] = q]
    /\ UNCHANGED drafts

\* Either the run's own task, or the crash-recovery sweep of a later boot.
Fail(r) ==
    /\ status[r] = "Running"
    /\ status' = [status EXCEPT ![r] = "Failed"]
    /\ UNCHANGED <<supersededBy, drafts>>

Next ==
    \E r \in Runs :
        \/ Open(r) \/ StoreDraft(r) \/ Complete(r)
        \/ CancelByUser(r) \/ Fail(r)
        \/ \E q \in Runs : Supersede(r, q)

Spec == Init /\ [][Next]_ledger

=============================================================================
