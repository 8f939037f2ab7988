-------------------------------- MODULE Fetch --------------------------------
(***************************************************************************)
(* Fetching a day: the fan-out over the sources with the retry ladder of   *)
(* their requests (FanOut, HttpClient), and the walk one connector makes   *)
(* of the pages it is given (Walks).  The fan-out knows of a sync that it  *)
(* sends requests and stops at the first that fails, the walk of a request *)
(* that it may fail: a behaviour is one of either.                         *)
(***************************************************************************)
EXTENDS FanOut, Walks

VARIABLE part

fetchVars == <<part, fanOutVars, walkVars>>

\* A part that stands still has one start.
FetchInit ==
    /\ part \in {"fanout", "walk"}
    /\ FanOutInit
    /\ part # "fanout" => unregistered = {}
    /\ \E f \in IF part = "walk" THEN Feeds ELSE {CHOOSE f \in Feeds : TRUE} : WalkStart(f)

InFanOut(A) == part = "fanout" /\ A /\ UNCHANGED <<part, walkVars>>
InWalk(A) == part = "walk" /\ A /\ UNCHANGED <<part, fanOutVars>>

FetchNext == InFanOut(FanOutNext) \/ InWalk(WalkNext)

\* The runtime polls every task that is ready; the transport's own timeouts
\* make Answer and the next page such steps.
Spec ==
    /\ FetchInit /\ [][FetchNext]_fetchVars
    /\ \A s \in Sources : WF_fetchVars(InFanOut(TaskStep(s)))
    /\ WF_fetchVars(InFanOut(Join))
    /\ WF_fetchVars(InWalk(WalkStep))

\* No retry ladder, backoff or permit queue keeps the run in flight for ever
\* (http.rs:158-320, generate.rs:622-690), and every walk ends even when the
\* upstream names a next page forever: each loop is bounded by MAX_PAGES
\* (walk.rs of every connector).
FetchEnds ==
    <>(IF part = "fanout" THEN runPhase # "fanning" ELSE status # "walking")

=============================================================================
