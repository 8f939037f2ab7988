------------------------------- MODULE FanOut -------------------------------
(***************************************************************************)
(* One report run's fan-out (generate.rs: fan_out, split_fan_out): a task  *)
(* per source behind a semaphore, each running its connector's `sync`,     *)
(* which sends its requests through HttpClient one by one and stops at the *)
(* first one that does not succeed.  Tasks push their result into a shared *)
(* vector; when the JoinSet is drained the run turns the vector into the   *)
(* per-source rows of the report and of sync_runs.                         *)
(***************************************************************************)
EXTENDS HttpClient, Sequences

CONSTANTS Fragile,       \* sources whose connector can panic
          MaxParallel,   \* upper bound of the permits, 4 in the code
          LongSyncs      \* sources whose sync sends two requests, the others
                         \* send one (a bound of the model)

Sources == Calls

ASSUME FanOutAssumption ==
    /\ IsFiniteSet(Sources)
    /\ LongSyncs \subseteq Sources /\ Fragile \subseteq Sources
    /\ MaxParallel \in Nat \ {0}

VARIABLES
    unregistered,  \* sources whose kind has no connector in the registry
    task,      \* control state of each spawned task
    left,      \* requests its sync has not sent yet
    results,   \* Arc<Mutex<Vec<PerSourceResult>>>
    runPhase,  \* of run_background: "fanning" until the JoinSet is drained
    sourceRows \* per_source_syncrun, written to the run's row

fanVars == <<unregistered, task, left, results, runPhase, sourceRows>>
fanOutVars == <<cancelled, httpVars, fanVars>>

Outcomes == {"ok"} \cup (Verdicts \ {"none", "success"}) \cup {"unsupported"}

\* Tasks that hold a permit: until their closure is dropped.
Holding == {s \in Sources : task[s] \in {"running", "pushing"}}

\* sources.len().clamp(1, 4)
Permits ==
    IF Cardinality(Sources) > MaxParallel THEN MaxParallel
    ELSE IF Sources = {} THEN 1 ELSE Cardinality(Sources)

FanTypeOK ==
    /\ HttpTypeOK
    /\ task \in [Sources -> {"queued", "running", "pushing", "ended", "panicked"}]
    /\ unregistered \subseteq Sources
    /\ left \in [Sources -> 0 .. 2]
    /\ \A i \in DOMAIN results :
          results[i] \in [source : Sources, outcome : Outcomes]
    /\ runPhase \in {"fanning", "rendering", "cancelled"}
    /\ \A i \in DOMAIN sourceRows :
          sourceRows[i] \in [source : Sources, status : {"Succeeded", "Failed"}]

FanOutInit ==
    /\ HttpInit
    /\ task = [s \in Sources |-> "queued"]
    /\ unregistered \in SUBSET Sources
    /\ left = [s \in Sources |-> IF s \in LongSyncs THEN 2 ELSE 1]
    /\ results = <<>>
    /\ runPhase = "fanning"
    /\ sourceRows = <<>>

(***************************************************************************)
(* A task                                                                  *)
(***************************************************************************)

\* acquire_owned resolves.  With no connector for its kind the task goes
\* straight to the vector, without a sync.
AcquirePermit(s) ==
    /\ task[s] = "queued"
    /\ Cardinality(Holding) < Permits
    /\ task' = [task EXCEPT ![s] = IF s \in unregistered THEN "pushing" ELSE "running"]
    /\ UNCHANGED <<cancelled, httpVars, unregistered, left, results, runPhase, sourceRows>>

\* The connector sends its next request.
NextRequest(s) ==
    /\ task[s] = "running" /\ left[s] > 0
    /\ http[s] = "idle" \/ (http[s] = "returned" /\ verdict[s] = "success")
    /\ Send(s)
    /\ left' = [left EXCEPT ![s] = @ - 1]
    /\ UNCHANGED <<cancelled, unregistered, task, results, runPhase, sourceRows>>

\* `sync` returns: the last page was read, or a request did not succeed.
SyncReturns(s) ==
    /\ task[s] = "running" /\ http[s] = "returned"
    /\ verdict[s] = "success" => left[s] = 0
    /\ task' = [task EXCEPT ![s] = "pushing"]
    /\ UNCHANGED <<cancelled, httpVars, unregistered, left, results, runPhase, sourceRows>>

\* The connector panics: the unwinding task drops its permit and its clone of
\* the vector, and join_next yields a JoinError nobody reads.
Panic(s) ==
    /\ task[s] = "running" /\ s \in Fragile
    /\ http[s] \in {"idle", "returned"}
    /\ task' = [task EXCEPT ![s] = "panicked"]
    /\ UNCHANGED <<cancelled, httpVars, unregistered, left, results, runPhase, sourceRows>>

OutcomeOf(s) ==
    IF s \in unregistered THEN "unsupported"
    ELSE IF verdict[s] = "success" THEN "ok" ELSE verdict[s]

\* results.lock().await, push, and the task ends.
PushResult(s) ==
    /\ task[s] = "pushing"
    /\ results' = Append(results, [source |-> s, outcome |-> OutcomeOf(s)])
    /\ task' = [task EXCEPT ![s] = "ended"]
    /\ UNCHANGED <<cancelled, httpVars, unregistered, left, runPhase, sourceRows>>

(***************************************************************************)
(* The run                                                                 *)
(***************************************************************************)

\* split_fan_out and terminate_cancelled: one row per result, in their order.
RowOf(res) ==
    [source |-> res.source,
     status |-> IF res.outcome = "ok" THEN "Succeeded" ELSE "Failed"]

SplitFanOut == [i \in DOMAIN results |-> RowOf(results[i])]

\* Variant: stops joining at the first task that is only about to push.
DrainedEarly == \A s \in Sources : task[s] \in {"pushing", "ended", "panicked"}

Drained == \A s \in Sources : task[s] \in {"ended", "panicked"}

\* join_next returns None; the token decides which end of the run follows.
\* Both ends write the rows (mark_finished, mark_cancelled).
Join ==
    /\ runPhase = "fanning" /\ Drained
    /\ runPhase' = IF cancelled THEN "cancelled" ELSE "rendering"
    /\ sourceRows' = SplitFanOut
    /\ UNCHANGED <<cancelled, httpVars, unregistered, task, left, results>>

\* The user, or a run that supersedes this one, fires the token.
FireCancel ==
    /\ ~cancelled
    /\ cancelled' = TRUE
    /\ UNCHANGED <<httpVars, fanVars>>

Request(s) == HttpStep(s) /\ UNCHANGED <<cancelled, fanVars>>

TaskStep(s) ==
    \/ AcquirePermit(s)
    \/ NextRequest(s)
    \/ Request(s)
    \/ SyncReturns(s)
    \/ PushResult(s)

FanOutNext ==
    \/ \E s \in Sources : TaskStep(s) \/ Panic(s)
    \/ Join
    \/ FireCancel

FanOutSpec == FanOutInit /\ [][FanOutNext]_fanOutVars

(***************************************************************************)
(* Properties                                                              *)
(***************************************************************************)

\* The user's cancel keeps every later request off the wire, wherever the ladder
\* stands (between two attempts, between the check and the send), and the
\* sources that still queue for a permit do not start fetching: http.rs:161,
\* :177 and :385.
NoSendAfterCancel ==
    [][\A s \in Sources :
          http'[s] = "inflight" /\ http[s] # "inflight" => ~cancelled]_fanOutVars

\* A code of the http.transport family means that no attempt of this request got
\* as far as an HTTP reply, and an exhausted budget that at least one did
\* (http.rs:302-317; the error card keys on it).  And whatever order the tasks end
\* in, the run's rows hold a source at most once, every source whose task did not
\* panic, with the status of its own sync (generate.rs:687-770).
RowsTellWhatHappened ==
    /\ \A s \in Sources : http[s] = "returned" =>
        /\ verdict[s] \in TransportCodes => replies[s] = 0
        /\ verdict[s] \in {"budget", "rate_limited", "refused"} => replies[s] > 0
    /\ runPhase # "fanning" =>
        /\ \A i, j \in DOMAIN sourceRows : sourceRows[i].source = sourceRows[j].source => i = j
        /\ {sourceRows[i].source : i \in DOMAIN sourceRows} = {s \in Sources : task[s] = "ended"}
        /\ \A i \in DOMAIN sourceRows : sourceRows[i].status = "Succeeded" <=>
              /\ sourceRows[i].source \notin unregistered
              /\ verdict[sourceRows[i].source] = "success"
              /\ left[sourceRows[i].source] = 0

=============================================================================
