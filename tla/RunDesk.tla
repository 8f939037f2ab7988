------------------------------- MODULE RunDesk -------------------------------
(***************************************************************************)
(* A report between the window and the core: the report_generate and       *)
(* report_cancel commands, the tasks they leave behind (forwarder,         *)
(* completion, reaper) and the registry of runs (ipc/commands.rs,          *)
(* run_forwarder.rs, state.rs, dayseam-events' run_streams.rs), and the    *)
(* useReport hook that follows one run at a time (src/ipc/useReport.ts).   *)
(*                                                                         *)
(* Responses, channel messages and window events reach the page in their   *)
(* own order each, and in any order among them.  The run itself is         *)
(* RunLifecycle's; here it reports progress and ends.                      *)
(***************************************************************************)
EXTENDS Naturals, Sequences

CONSTANTS Reports,     \* calls of report_generate; each names its run
          NoReport,
          MaxBusy      \* bound: progress events of a run before its last

VARIABLES
    command,    \* report_generate: "none", "called", "refused", "register",
                \* "answering" or "returned"
    run,        \* the run: "none", "going", or how it ended
    pipe,       \* its progress channel
    tasks,      \* the tasks still alive
    registry,   \* RunRegistry: the runs in it
    wire,       \* channel messages on their way to the page
    bell,       \* report:completed events on their way
    fetched,    \* report_get answers on their way: the runs whose draft it is
    page,       \* the hook: its refs and what it shows
    wanted,     \* bookkeeping: the runs the user cancelled on the page
    cancelled,  \* bookkeeping: the runs report_cancel was called for
    leaked,     \* bookkeeping: reaped before they were registered
    jammed      \* bookkeeping: a completion of the followed run was lost

deskVars == <<command, run, pipe, tasks, registry, wire, bell, fetched, page,
              wanted, cancelled, leaked, jammed>>

Terminal == {"Completed", "Cancelled", "Failed"}

\* NoReport is neither a run nor what report:completed says of one.
ASSUME NoReportIsNone ==
    /\ NoReport \notin Reports
    /\ NoReport \notin [run : Reports, status : Terminal, draft : BOOLEAN]

\* `ref` is currentRef's generation, `id` whether it has its run id, `stash`
\* pendingCompletionRef, `cancel` cancelPendingRef.
IdlePage == [ref |-> NoReport, id |-> FALSE, stash |-> NoReport, cancel |-> FALSE,
             status |-> "idle", draft |-> NoReport]

DeskInit ==
    /\ command = [r \in Reports |-> "none"]
    /\ run = [r \in Reports |-> "none"]
    /\ pipe = [r \in Reports |-> <<>>]
    /\ tasks = [r \in Reports |-> {}]
    /\ registry = {}
    /\ wire = [r \in Reports |-> <<>>] /\ bell = <<>> /\ fetched = {}
    /\ page = IdlePage
    /\ wanted = {} /\ cancelled = {} /\ leaked = {} /\ jammed = {}

CoreOnly == UNCHANGED <<fetched, page, wanted, cancelled, jammed>>

(***************************************************************************)
(* The core                                                                *)
(***************************************************************************)

\* The sources, identities and settings could not all be read.
RefuseGenerate(r) ==
    /\ command[r] = "called"
    /\ command' = [command EXCEPT ![r] = "refused"]
    /\ UNCHANGED <<run, pipe, tasks, registry, wire, bell, leaked>> /\ CoreOnly

\* generate_report returned its handle and the tasks are spawned; the run may
\* have failed at once, with nothing to say.
StartRun(r) ==
    /\ command[r] = "called"
    /\ command' = [command EXCEPT ![r] = "register"]
    /\ run' = [run EXCEPT ![r] = "going"] \/ run' = [run EXCEPT ![r] = "Failed"]
    /\ tasks' = [tasks EXCEPT ![r] = {"forward", "complete", "reap"}]
    /\ UNCHANGED <<pipe, registry, wire, bell, leaked>> /\ CoreOnly

\* The registry insert, once its lock is free.
Register(r) ==
    /\ command[r] = "register"
    /\ command' = [command EXCEPT ![r] = "answering"]
    /\ registry' = registry \cup {r}
    /\ UNCHANGED <<run, pipe, tasks, wire, bell, leaked>> /\ CoreOnly

\* ProgressSender::send
SendProgress(r) ==
    /\ run[r] = "going"
    /\ Len(pipe[r]) + Len(wire[r]) < MaxBusy
    /\ pipe' = [pipe EXCEPT ![r] = Append(@, "running")]
    /\ UNCHANGED <<command, run, tasks, registry, wire, bell, leaked>> /\ CoreOnly

\* The last event of a run tells how it ended, unless it panicked.
EndRun(r) ==
    /\ run[r] = "going"
    /\ \/ \E how \in Terminal :
            /\ run' = [run EXCEPT ![r] = how]
            /\ pipe' = [pipe EXCEPT ![r] = Append(@, how)]
       \/ run' = [run EXCEPT ![r] = "panic"] /\ UNCHANGED pipe
    /\ UNCHANGED <<command, tasks, registry, wire, bell, leaked>> /\ CoreOnly

\* spawn_progress_forwarder: until the channel is empty and its sender gone.
ForwardProgress(r) ==
    /\ "forward" \in tasks[r]
    /\ IF pipe[r] # <<>>
       THEN /\ wire' = [wire EXCEPT ![r] = Append(@, Head(pipe[r]))]
            /\ pipe' = [pipe EXCEPT ![r] = Tail(@)]
            /\ UNCHANGED tasks
       ELSE /\ run[r] # "going"
            /\ tasks' = [tasks EXCEPT ![r] = @ \ {"forward"}]
            /\ UNCHANGED <<wire, pipe>>
    /\ UNCHANGED <<command, run, registry, bell, leaked>> /\ CoreOnly

\* completion_payload: a join error is a failure.
CompletionPayload(r) ==
    [run |-> r, status |-> IF run[r] = "panic" THEN "Failed" ELSE run[r],
     draft |-> run[r] = "Completed"]

\* The completion task.
EmitCompletion(r) ==
    /\ "complete" \in tasks[r] /\ run[r] # "going"
    /\ bell' = Append(bell, CompletionPayload(r))
    /\ tasks' = [tasks EXCEPT ![r] = @ \ {"complete"}]
    /\ UNCHANGED <<command, run, pipe, registry, wire, leaked>> /\ CoreOnly

\* spawn_run_reaper: once the other tasks are joined.
Reap(r) ==
    /\ tasks[r] = {"reap"}
    /\ registry' = registry \ {r}
    /\ leaked' = IF command[r] = "register" THEN leaked \cup {r} ELSE leaked
    /\ tasks' = [tasks EXCEPT ![r] = {}]
    /\ UNCHANGED <<command, run, pipe, wire, bell>> /\ CoreOnly

(***************************************************************************)
(* The page                                                                *)
(***************************************************************************)

PageOnly == UNCHANGED <<run, pipe, tasks, registry, leaked>>

\* What generate() sets before it calls.
Fresh(r) == [IdlePage EXCEPT !.ref = r, !.status = "starting"]

\* generate(), or reset(): while a run goes on, the button is Cancel.
Generate(r) ==
    /\ command[r] = "none" /\ r = CHOOSE q \in Reports : command[q] = "none"
    /\ page.status \notin {"starting", "running"}
    /\ page' = Fresh(r)
    /\ command' = [command EXCEPT ![r] = "called"]
    /\ UNCHANGED <<wire, bell, fetched, wanted, cancelled, jammed>> /\ PageOnly

\* applyReportCompletion: the status, and report_get of the draft.
Applied(of, event) == [of EXCEPT !.status = event.status]
FetchOf(event) == IF event.draft THEN {event.run} ELSE {}

\* The answer of report_generate.  The answer of an earlier call drops what the
\* page has stashed for the call it follows by now.
Answer(r) ==
    /\ command[r] = "answering"
    /\ command' = [command EXCEPT ![r] = "returned"]
    /\ IF page.ref = r
       THEN LET stashed == page.stash # NoReport /\ page.stash.run = r
                known == [page EXCEPT !.id = TRUE, !.stash = NoReport, !.cancel = FALSE]
            IN /\ page' = IF stashed THEN Applied(known, page.stash) ELSE known
               /\ fetched' = IF stashed THEN fetched \cup FetchOf(page.stash) ELSE fetched
               /\ cancelled' = IF page.cancel THEN cancelled \cup {r} ELSE cancelled
            /\ UNCHANGED jammed
       ELSE /\ page' = [page EXCEPT !.stash = NoReport]
            /\ jammed' = IF page.stash # NoReport THEN jammed \cup {page.stash.run} ELSE jammed
            /\ UNCHANGED <<fetched, cancelled>>
    /\ UNCHANGED <<wire, bell, wanted>> /\ PageOnly

\* The rejection of report_generate.
Reject(r) ==
    /\ command[r] = "refused"
    /\ command' = [command EXCEPT ![r] = "returned"]
    /\ page' = [page EXCEPT !.ref = IF @ = r THEN NoReport ELSE @, !.id = FALSE,
                            !.stash = NoReport, !.status = "Failed"]
    /\ UNCHANGED <<wire, bell, fetched, wanted, cancelled, jammed>> /\ PageOnly

\* progress.onmessage, whose events are dropped unless they are of the channel
\* the page follows.
HearProgress(r) ==
    /\ wire[r] # <<>>
    /\ wire' = [wire EXCEPT ![r] = Tail(@)]
    /\ page' = IF page.ref = r THEN [page EXCEPT !.status = Head(wire[r])] ELSE page
    /\ UNCHANGED <<command, bell, fetched, wanted, cancelled, jammed>> /\ PageOnly

\* Variant: a completion that comes before the run id is dropped.
HearCompletionUnstashed ==
    /\ bell # <<>>
    /\ bell' = Tail(bell)
    /\ LET event == Head(bell) IN
       IF page.ref # NoReport /\ page.id /\ event.run = page.ref
       THEN page' = Applied(page, event) /\ fetched' = fetched \cup FetchOf(event)
       ELSE UNCHANGED <<page, fetched>>
    /\ UNCHANGED <<command, wire, wanted, cancelled, jammed>> /\ PageOnly

\* The report:completed listener.  There is one place for a completion that
\* comes before the run id, and the last one keeps it.
HearCompletion ==
    /\ bell # <<>>
    /\ bell' = Tail(bell)
    /\ LET event == Head(bell) IN
       /\ IF page.ref = NoReport \/ (page.id /\ event.run # page.ref)
          THEN UNCHANGED <<page, fetched>>
          ELSE IF page.id
          THEN page' = Applied(page, event) /\ fetched' = fetched \cup FetchOf(event)
          ELSE page' = [page EXCEPT !.stash = event] /\ UNCHANGED fetched
       /\ jammed' = IF page.ref # NoReport /\ ~page.id /\ page.stash # NoReport
                    THEN jammed \cup {page.stash.run} ELSE jammed
    /\ UNCHANGED <<command, wire, wanted, cancelled>> /\ PageOnly

\* The answer of report_get, to whichever run the page follows by then.
HearDraft(r) ==
    /\ r \in fetched
    /\ fetched' = fetched \ {r}
    /\ page' = [page EXCEPT !.draft = r]
    /\ UNCHANGED <<command, wire, bell, wanted, cancelled, jammed>> /\ PageOnly

\* cancel(): kept for later while there is no run id.
Cancel ==
    /\ page.status \in {"starting", "running"} /\ page.ref # NoReport
    /\ wanted' = wanted \cup {page.ref}
    /\ IF page.id
       THEN cancelled' = cancelled \cup {page.ref} /\ UNCHANGED page
       ELSE page' = [page EXCEPT !.cancel = TRUE] /\ UNCHANGED cancelled
    /\ UNCHANGED <<command, wire, bell, fetched, jammed>> /\ PageOnly

DeskNext ==
    \/ \E r \in Reports :
         \/ Generate(r) \/ RefuseGenerate(r) \/ StartRun(r) \/ Register(r) \/ Answer(r)
         \/ Reject(r) \/ SendProgress(r) \/ EndRun(r) \/ ForwardProgress(r)
         \/ EmitCompletion(r) \/ Reap(r) \/ HearProgress(r) \/ HearDraft(r)
    \/ HearCompletion \/ Cancel

DeskSpec == DeskInit /\ [][DeskNext]_deskVars

(***************************************************************************)
(* Properties                                                              *)
(***************************************************************************)

\* Nothing more is coming for run r.
Settled(r) ==
    /\ command[r] = "returned" /\ run[r] # "none"
    /\ tasks[r] \subseteq {"reap"} /\ pipe[r] = <<>> /\ wire[r] = <<>>
    /\ \A i \in 1 .. Len(bell) : bell[i].run # r
    /\ r \notin fetched

\* useReport.ts:12-23: once nothing more of the followed run is on its way, the
\* page shows how it ended, and its draft if it has one, in whatever order the
\* answer, the channel and the event came.  Not of a run that panicked, and not
\* if another run's answer or completion pushed its own out (jammed); a late
\* draft of another run may stand in for its own (DraftIsOfTheRun).
FollowedRunIsShown ==
    page.ref # NoReport /\ Settled(page.ref) /\ run[page.ref] # "panic" /\ page.ref \notin jammed =>
        /\ page.status = run[page.ref]
        /\ run[page.ref] = "Completed" => page.draft # NoReport

\* useReport.ts:31-35: report_cancel goes out for the runs the user cancelled
\* on the page and no other, and has gone out once the page knows the run.
CancelHitsItsRun ==
    /\ cancelled \subseteq wanted
    /\ page.ref # NoReport /\ page.id /\ page.ref \in wanted => page.ref \in cancelled

\* state.rs:252-262: once its insert is done, a run is in the registry exactly as
\* long as a task of its is not, whatever order they end in (a reaper may overtake
\* the insert of its run: leaked).
RegisteredRunIsAlive ==
    \A r \in Reports \ leaked : command[r] \notin {"called", "register"} =>
        (r \in registry <=> tasks[r] # {})

\* useReport.ts:12-16: what the page shows is of the run it follows.
DraftIsOfTheRun ==
    page.draft # NoReport => page.draft = page.ref

\* However answers, events and reapers cross, the page, the registry and the cancel
\* speak of the same run (useReport.ts:12-35, state.rs:252-262).
DeskFollowsRun == FollowedRunIsShown /\ CancelHitsItsRun /\ RegisteredRunIsAlive

=============================================================================
