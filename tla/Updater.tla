------------------------------ MODULE Updater -------------------------------
(***************************************************************************)
(* apps/desktop/src/features/updater/useUpdater.ts: the check, download,   *)
(* install and relaunch of a new version.  Every check that finds one      *)
(* hands over a handle that stays open in the Rust process until closed;   *)
(* checks and installs are asynchronous and their answers may cross.       *)
(***************************************************************************)
EXTENDS Naturals, FiniteSets

CONSTANTS Versions, NoHandle,
          MaxAsks   \* bound: checks the user asks for, and handles ever given

ASSUME NoHandleIsNone ==
    /\ MaxAsks \in Nat
    /\ \A id \in 0 .. MaxAsks, v \in Versions : [id |-> id, version |-> v] # NoHandle

VARIABLES
    direct,     \* distributionProfile = "direct"
    mounted,    \* the hook is
    offer,      \* status: [kind, version]
    held,       \* updateRef: the handle of the last check that found something
    open,       \* handles the Rust process holds
    checking,   \* checks whose answer is out
    installs,   \* handles being downloaded and installed
    skipped,    \* versions in local storage
    verbose,
    asks, given \* bookkeeping of the bound

updaterVars ==
    <<direct, mounted, offer, held, open, checking, installs, skipped, verbose, asks, given>>

Status(kind, version) == [kind |-> kind, version |-> version]
AtRest == Status("idle", NoHandle)

\* runCheck up to its await: one that is already under way swallows the call.
RunCheck ==
    IF offer.kind = "checking"
    THEN UNCHANGED <<offer, checking>>
    ELSE offer' = Status("checking", NoHandle) /\ checking' = checking + 1

UpdaterInit ==
    /\ direct \in BOOLEAN /\ mounted = FALSE /\ offer = AtRest /\ held = NoHandle
    /\ open = {} /\ checking = 0 /\ installs = {} /\ skipped = {} /\ verbose = FALSE
    /\ asks = 0 /\ given = 0

\* The mount's effect: one silent check.
Mount ==
    /\ direct /\ ~mounted /\ asks = 0
    /\ mounted' = TRUE /\ asks' = 1
    /\ RunCheck
    /\ UNCHANGED <<direct, held, open, installs, skipped, verbose, given>>

\* menu://check-for-updates.
MenuCheck ==
    /\ mounted /\ asks < MaxAsks
    /\ verbose' = TRUE /\ asks' = asks + 1
    /\ RunCheck
    /\ UNCHANGED <<direct, mounted, held, open, installs, skipped, given>>

\* The banner's retry.
Retry ==
    /\ mounted /\ offer.kind = "error" /\ asks < MaxAsks
    /\ asks' = asks + 1
    /\ RunCheck
    /\ UNCHANGED <<direct, mounted, held, open, installs, skipped, verbose, given>>

\* Variant: the handle is let go of without being closed.
ReleaseForgets == held' = NoHandle /\ UNCHANGED open

\* releaseHandle
Release == held' = NoHandle /\ open' = open \ {held}

\* check() found nothing.
AnswerNothing ==
    /\ checking > 0
    /\ checking' = checking - 1
    /\ Release
    /\ offer' = Status("up-to-date", NoHandle)
    /\ UNCHANGED <<direct, mounted, installs, skipped, verbose, asks, given>>

\* check() found a version: its handle replaces the one held, which is closed
\* even while it is being installed.
AnswerUpdate ==
    /\ checking > 0 /\ given < MaxAsks
    /\ \E v \in Versions :
         LET handle == [id |-> given, version |-> v]
         IN /\ held' = handle
            /\ open' = (open \ {held}) \cup {handle}
            /\ offer' = Status("available", v)
    /\ checking' = checking - 1 /\ given' = given + 1
    /\ UNCHANGED <<direct, mounted, installs, skipped, verbose, asks>>

AnswerError ==
    /\ checking > 0
    /\ checking' = checking - 1
    /\ offer' = Status("error", NoHandle)
    /\ UNCHANGED <<direct, mounted, held, open, installs, skipped, verbose, asks, given>>

\* install: offered on a version that is not skipped; it takes what is held.
Install ==
    /\ mounted /\ offer.kind = "available" /\ offer.version \notin skipped
    /\ held # NoHandle
    /\ installs' = installs \cup {held}
    /\ offer' = Status("downloading", held.version)
    /\ UNCHANGED <<direct, mounted, held, open, checking, skipped, verbose, asks, given>>

\* A download event of any of the installs; Finished says "ready".
DownloadEvent ==
    /\ \E handle \in installs, kind \in {"downloading", "ready"} :
         offer' = Status(kind, handle.version)
    /\ UNCHANGED <<direct, mounted, held, open, checking, installs, skipped, verbose, asks, given>>

\* The download, the install or the relaunch fails; the handle stays held.
InstallFails ==
    /\ \E handle \in installs : installs' = installs \ {handle}
    /\ offer' = Status("error", NoHandle)
    /\ UNCHANGED <<direct, mounted, held, open, checking, skipped, verbose, asks, given>>

\* relaunch(): a new process, and local storage as it was.
Relaunch ==
    /\ installs # {}
    /\ mounted' = FALSE /\ offer' = AtRest /\ held' = NoHandle /\ open' = {}
    /\ checking' = 0 /\ installs' = {} /\ verbose' = FALSE /\ asks' = 0
    /\ UNCHANGED <<direct, skipped, given>>

\* skipCurrent: the handle stays held.
SkipCurrent ==
    /\ mounted /\ offer.kind = "available" /\ offer.version \notin skipped
    /\ skipped' = skipped \cup {offer.version}
    /\ offer' = Status("up-to-date", NoHandle)
    /\ UNCHANGED <<direct, mounted, held, open, checking, installs, verbose, asks, given>>

\* The two effects that end the verbose flavour.
Quieten ==
    /\ verbose /\ offer.kind \in {"up-to-date", "available", "downloading", "ready", "error"}
    /\ verbose' = FALSE
    /\ UNCHANGED <<direct, mounted, offer, held, open, checking, installs, skipped, asks, given>>

\* The mount effect's clean-up.  An answer may still be out.
Unmount ==
    /\ mounted /\ mounted' = FALSE
    /\ Release
    /\ UNCHANGED <<direct, offer, checking, installs, skipped, verbose, asks, given>>

UpdaterNext ==
    \/ Mount \/ MenuCheck \/ Retry
    \/ AnswerNothing \/ AnswerUpdate \/ AnswerError
    \/ Install \/ DownloadEvent \/ InstallFails \/ Relaunch
    \/ SkipCurrent \/ Quieten \/ Unmount

UpdaterSpec == UpdaterInit /\ [][UpdaterNext]_updaterVars

\* However checks, downloads and skips cross, the version on offer is the one
\* Install would install (useUpdater.ts:193-222), and no handle is left open in
\* the Rust process that the hook has lost hold of (:135-150, "keeps the C-5
\* bridge-handle leak shut") while the hook is mounted.
OfferIsHeld ==
    /\ offer.kind = "available" /\ mounted => held # NoHandle /\ held.version = offer.version
    /\ mounted => open \subseteq {held}

=============================================================================
