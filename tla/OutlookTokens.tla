---------------------------- MODULE OutlookTokens ----------------------------
(***************************************************************************)
(* An Outlook source's tokens from the login to the delete: the two        *)
(* keychain rows written by outlook_sources_add (ipc/outlook.rs), read     *)
(* when a report or healthcheck builds its OAuthAuth (commands.rs),        *)
(* refreshed and written back by it (connectors-sdk auth.rs,               *)
(* oauth_persister.rs), and what sources_delete drops.  All logins are for *)
(* one mailbox.                                                            *)
(***************************************************************************)
EXTENDS OAuthLogin

CONSTANTS Sources,      \* ids minted by adds
          Adds,         \* outlook_sources_add invocations
          Auths,        \* OAuthAuth values, one per report run or healthcheck
          MaxFaults,    \* lost answers, storage failures and quits (model bound)
          None

ASSUME OutlookAssumption == None \notin Sources \cup Logins /\ MaxFaults \in Nat

VARIABLES
    policy,     \* upstream: "rotates" (a refresh token works once), "lenient"
                \* (old ones keep working), "keeps" (it sends no new one)
    rows,       \* `sources`
    access,     \* keychain: the access row is there
    refresh,    \* keychain: the token in the refresh row, 0 when there is none
    add,        \* the adds in flight
    deleting,   \* sources whose delete still has to drop its key
    auth,       \* the OAuthAuth values
    faults,
    gone,       \* bookkeeping: ids of adds that failed and were undone
    touched,    \* bookkeeping: ids whose row was read while their add was running
    dropped,    \* bookkeeping: ids deleted without any fault
    stale       \* bookkeeping: ids whose stored token may lag behind

keychain == <<access, refresh>>
ledger == <<faults, gone, touched, dropped, stale>>
vars == <<loginVars, idpVars, policy, rows, keychain, add, deleting, auth, ledger>>

NoAdd == [at |-> "idle", login |-> None, src |-> None, token |-> 0, undo |-> <<>>,
          undone |-> TRUE]
NoAuth == [at |-> "none", src |-> None, token |-> 0, fresh |-> FALSE, new |-> 0,
           spent |-> {}]

TypeOK ==
    /\ LoginTypeOK
    /\ policy \in {"rotates", "lenient", "keeps"}
    /\ rows \subseteq Sources
    /\ access \in [Sources -> BOOLEAN] /\ refresh \in [Sources -> Tokens]
    /\ \A a \in Adds :
          /\ add[a].at \in {"idle", "lookup", "take", "putAccess", "putRefresh", "insert",
                            "identities", "undo", "over"}
          /\ add[a].src \in Sources \cup {None} /\ add[a].token \in Tokens
    /\ deleting \subseteq Sources
    /\ \A o \in Auths :
          /\ auth[o].at \in {"none", "reading", "ready", "sending", "persistAccess",
                             "persistRefresh"}
          /\ auth[o].token \in Tokens
    /\ faults \in 0 .. MaxFaults

Init ==
    /\ LoginInit
    /\ policy \in {"rotates", "lenient", "keeps"}
    /\ rows = {}
    /\ access = [s \in Sources |-> FALSE]
    /\ refresh = [s \in Sources |-> 0]
    /\ add = [a \in Adds |-> NoAdd]
    /\ deleting = {}
    /\ auth = [o \in Auths |-> NoAuth]
    /\ faults = 0 /\ gone = {} /\ touched = {} /\ dropped = {} /\ stale = {}

Fault == faults < MaxFaults /\ faults' = faults + 1

(***************************************************************************)
(* outlook_sources_add                                                     *)
(***************************************************************************)

AddTo(a, at) == add' = [add EXCEPT ![a].at = at]

\* peek_token_pair and the /me probe.
StartAdd(a) ==
    /\ add[a].at = "idle"
    /\ \E l \in Logins :
         /\ pair[l] # 0
         /\ add' = [add EXCEPT ![a].at = "lookup", ![a].login = l]
    /\ UNCHANGED <<loginVars, idpVars, policy, rows, keychain, deleting, auth, ledger>>

\* find_by_outlook_identity.
LookupAccount(a) ==
    /\ add[a].at = "lookup"
    /\ AddTo(a, IF rows = {} THEN "take" ELSE "over")
    /\ UNCHANGED <<loginVars, idpVars, policy, rows, keychain, deleting, auth, ledger>>

\* take_token_pair removes the session: of two adds for it one comes too late.
TakePair(a) ==
    /\ add[a].at = "take"
    /\ LET l == add[a].login
       IN IF Exists(l) /\ pair[l] # 0
          THEN /\ \E s \in Sources :
                    /\ s \notin rows \cup gone \cup dropped \cup {add[b].src : b \in Adds}
                    /\ ~access[s] /\ refresh[s] = 0
                    /\ add' = [add EXCEPT ![a].at = "putAccess", ![a].src = s,
                                          ![a].token = pair[l]]
               /\ session' = [session EXCEPT ![l] = "taken"]
               /\ pair' = [pair EXCEPT ![l] = 0]
          ELSE AddTo(a, "over") /\ UNCHANGED <<session, pair>>
    /\ UNCHANGED <<fired, driver, got, sent, overdue, early, idpVars, policy, rows, keychain,
                   deleting, auth, ledger>>

PutAccess(a) ==
    /\ add[a].at = "putAccess"
    /\ \/ /\ access' = [access EXCEPT ![add[a].src] = TRUE]
          /\ AddTo(a, "putRefresh")
          /\ UNCHANGED <<faults, gone>>
       \/ /\ Fault /\ AddTo(a, "over")
          /\ gone' = gone \cup {add[a].src}
          /\ UNCHANGED access
    /\ UNCHANGED <<loginVars, idpVars, policy, rows, refresh, deleting, auth,
                   dropped, stale, touched>>

\* The rollback of an add that has written the rows named.
UndoFrom(a, written) == add' = [add EXCEPT ![a].at = "undo", ![a].undo = written]

PutRefresh(a) ==
    /\ add[a].at = "putRefresh"
    /\ \/ /\ refresh' = [refresh EXCEPT ![add[a].src] = add[a].token]
          /\ AddTo(a, "insert")
          /\ UNCHANGED faults
       \/ /\ Fault /\ UndoFrom(a, <<"access">>)
          /\ UNCHANGED refresh
    /\ UNCHANGED <<loginVars, idpVars, policy, rows, access, deleting, auth, gone,
                   dropped, stale, touched>>

\* The unique index over the account refuses a second row that slipped past
\* the lookup.
InsertSource(a) ==
    /\ add[a].at = "insert"
    /\ \/ /\ rows = {}
          /\ rows' = rows \cup {add[a].src}
          /\ AddTo(a, "identities")
          /\ UNCHANGED faults
       \/ /\ IF rows = {} THEN Fault ELSE UNCHANGED faults
          /\ UndoFrom(a, <<"access", "refresh">>)
          /\ UNCHANGED rows
    /\ UNCHANGED <<loginVars, idpVars, policy, keychain, deleting, auth, gone,
                   dropped, stale, touched>>

BindIdentities(a) ==
    /\ add[a].at = "identities"
    /\ \/ /\ add[a].src \in rows
          /\ AddTo(a, "over")
          /\ UNCHANGED faults
       \/ /\ IF add[a].src \in rows THEN Fault ELSE UNCHANGED faults
          /\ UndoFrom(a, <<"row", "access", "refresh">>)
    /\ UNCHANGED <<loginVars, idpVars, policy, rows, keychain, deleting, auth, gone,
                   dropped, stale, touched>>

\* Variant: the rollback knows one keychain row.
UndoWithoutRefresh(a) ==
    /\ add[a].at = "undo"
    /\ rows' = rows \ {add[a].src}
    /\ access' = [access EXCEPT ![add[a].src] = FALSE]
    /\ gone' = gone \cup {add[a].src}
    /\ AddTo(a, "over")
    /\ UNCHANGED <<loginVars, idpVars, policy, refresh, deleting, auth, faults,
                   dropped, stale, touched>>

\* rollback_outlook_sources_add and rollback_outlook_keychain, step by step.
UndoStep(a) ==
    /\ add[a].at = "undo"
    /\ IF add[a].undo = <<>>
       THEN /\ AddTo(a, "over")
            /\ gone' = IF add[a].undone THEN gone \cup {add[a].src} ELSE gone
            /\ UNCHANGED <<rows, keychain, faults>>
       ELSE LET s == add[a].src
                what == Head(add[a].undo)
            IN /\ \/ /\ rows' = IF what = "row" THEN rows \ {s} ELSE rows
                     /\ access' = [access EXCEPT ![s] = @ /\ what # "access"]
                     /\ refresh' = [refresh EXCEPT ![s] = IF what = "refresh" THEN 0 ELSE @]
                     /\ add' = [add EXCEPT ![a].undo = Tail(@)]
                     /\ UNCHANGED faults
                  \/ /\ Fault
                     /\ add' = [add EXCEPT ![a].undo = Tail(@), ![a].undone = FALSE]
                     /\ UNCHANGED <<rows, keychain>>
               /\ UNCHANGED gone
    /\ UNCHANGED <<loginVars, idpVars, policy, deleting, auth, dropped, stale, touched>>

(***************************************************************************)
(* sources_delete                                                          *)
(***************************************************************************)

DeleteSource(s) ==
    /\ s \in rows
    /\ rows' = rows \ {s}
    /\ deleting' = deleting \cup {s}
    /\ UNCHANGED <<loginVars, idpVars, policy, keychain, add, auth, ledger>>

\* best_effort_delete_secret of the row's secret_ref, which names the access row.
DropKey(s) ==
    /\ s \in deleting
    /\ \/ /\ access' = [access EXCEPT ![s] = FALSE]
          /\ dropped' = dropped \cup {s}
          /\ UNCHANGED faults
       \/ Fault /\ UNCHANGED <<access, dropped>>
    /\ deleting' = deleting \ {s}
    /\ UNCHANGED <<loginVars, idpVars, policy, rows, refresh, add, auth, gone, stale,
                   touched>>

(***************************************************************************)
(* OAuthAuth                                                               *)
(***************************************************************************)

AuthTo(o, at) == auth' = [auth EXCEPT ![o].at = at]

\* build_source_auth, in a run or a healthcheck: the access row, then the
\* refresh row; the expiry is set in the past, so the first use refreshes.
ReadAccess(o) ==
    /\ auth[o].at = "none"
    /\ \E s \in rows :
         /\ access[s]
         /\ auth' = [auth EXCEPT ![o].at = "reading", ![o].src = s]
         /\ touched' = IF \E a \in Adds : add[a].src = s /\ add[a].at # "over"
                       THEN touched \cup {s} ELSE touched
    /\ UNCHANGED <<loginVars, idpVars, policy, rows, keychain, add, deleting, faults,
                   gone,
                   dropped, stale>>

ReadRefresh(o) ==
    /\ auth[o].at = "reading"
    /\ auth' = [auth EXCEPT ![o] =
                  IF refresh[@.src] = 0 THEN NoAuth
                  ELSE [NoAuth EXCEPT !.at = "ready", !.src = auth[o].src,
                                      !.token = refresh[auth[o].src]]]
    /\ UNCHANGED <<loginVars, idpVars, policy, rows, keychain, add, deleting, ledger>>

\* The next caller, of any number, has the state's lock; a token that is still
\* fresh is used as it is, which changes nothing.
Serve(o) ==
    /\ auth[o].at = "ready" /\ ~auth[o].fresh
    /\ AuthTo(o, "sending")
    /\ UNCHANGED <<loginVars, idpVars, policy, rows, keychain, add, deleting, ledger>>

Expire(o) ==
    /\ auth[o].at = "ready" /\ auth[o].fresh
    /\ auth' = [auth EXCEPT ![o].fresh = FALSE]
    /\ UNCHANGED <<loginVars, idpVars, policy, rows, keychain, add, deleting, ledger>>

\* The caller that holds the lock returns with an error.
Fails(o) == AuthTo(o, "ready")

\* Variant: takes over the expiry but not the new refresh token.
GrantForgets(o, new) ==
    auth' = [auth EXCEPT ![o].at = "persistAccess", ![o].fresh = TRUE, ![o].new = new,
                         ![o].spent = IF new = 0 THEN @ ELSE @ \cup {auth[o].token}]

\* The state under the lock after a grant; a grant that brings no refresh token
\* (new = 0) leaves the old one in use.
Grant(o, new) ==
    auth' = [auth EXCEPT ![o].at = "persistAccess", ![o].fresh = TRUE, ![o].new = new,
                         ![o].token = IF new = 0 THEN @ ELSE new,
                         ![o].spent = IF new = 0 THEN @ ELSE @ \cup {auth[o].token}]

Spent(o) == IF policy = "rotates" THEN {auth[o].token} ELSE {}

\* run_refresh: granted, rejected, or the answer is lost on its way back.
Refresh(o) ==
    /\ auth[o].at = "sending"
    /\ \/ /\ auth[o].token \in live /\ policy # "keeps"
          /\ Issue(Spent(o))
          /\ Grant(o, issued + 1)
          /\ UNCHANGED <<faults, stale>>
       \/ /\ auth[o].token \in live /\ policy = "keeps"
          /\ Grant(o, 0)
          /\ UNCHANGED <<idpVars, faults, stale>>
       \/ /\ auth[o].token \notin live
          /\ Fails(o)
          /\ UNCHANGED <<idpVars, faults, stale>>
       \/ /\ auth[o].token \in live /\ Fault
          /\ Fails(o)
          /\ IF policy = "keeps" THEN UNCHANGED idpVars ELSE Issue(Spent(o))
          /\ stale' = stale \cup {auth[o].src}
    /\ UNCHANGED <<loginVars, policy, rows, keychain, add, deleting, gone, dropped,
                   touched>>

\* KeychainTokenPersister::persist_pair: the access row, then the refresh row.
\* An error goes to the caller; the state keeps the newer token.
PersistAccess(o) ==
    /\ auth[o].at = "persistAccess"
    /\ \/ /\ access' = [access EXCEPT ![auth[o].src] = TRUE]
          /\ AuthTo(o, "persistRefresh")
          /\ UNCHANGED <<faults, stale>>
       \/ /\ Fault /\ Fails(o)
          /\ stale' = stale \cup {auth[o].src}
          /\ UNCHANGED access
    /\ UNCHANGED <<loginVars, idpVars, policy, rows, refresh, add, deleting, gone,
                   dropped, touched>>

PersistRefresh(o) ==
    /\ auth[o].at = "persistRefresh"
    /\ \/ /\ refresh' = [refresh EXCEPT ![auth[o].src] = auth[o].token]
          /\ AuthTo(o, "ready")
          /\ UNCHANGED <<faults, stale>>
       \/ /\ Fault /\ Fails(o)
          /\ stale' = stale \cup {auth[o].src}
          /\ UNCHANGED refresh
    /\ UNCHANGED <<loginVars, idpVars, policy, rows, access, add, deleting, gone,
                   dropped, touched>>

\* The run that built it is over.
DropAuth(o) ==
    /\ auth[o].at = "ready"
    /\ auth' = [auth EXCEPT ![o] = NoAuth]
    /\ UNCHANGED <<loginVars, idpVars, policy, rows, keychain, add, deleting, ledger>>

(***************************************************************************)
(* The app quits: tables and keychain stay                                 *)
(***************************************************************************)

Quit ==
    /\ Fault
    /\ session' = [l \in Logins |-> IF session[l] = "none" THEN "none" ELSE "taken"]
    /\ pair' = [l \in Logins |-> 0]
    /\ got' = [l \in Logins |-> 0]
    /\ sent' = [l \in Logins |-> "none"]
    /\ driver' = [l \in Logins |-> IF driver[l] = "off" THEN "off" ELSE "ended"]
    /\ early' = [l \in Logins |-> FALSE]
    /\ add' = [a \in Adds |-> IF add[a].at = "idle" THEN NoAdd ELSE [add[a] EXCEPT !.at = "over"]]
    /\ deleting' = {}
    /\ stale' = stale \cup {auth[o].src : o \in {p \in Auths :
                                  auth[p].at \in {"sending", "persistAccess", "persistRefresh"}}}
    /\ auth' = [o \in Auths |-> NoAuth]
    /\ UNCHANGED <<fired, overdue, idpVars, policy, rows, keychain, gone, dropped,
                   touched>>

AddStep(a) ==
    \/ StartAdd(a) \/ LookupAccount(a) \/ TakePair(a) \/ PutAccess(a) \/ PutRefresh(a)
    \/ InsertSource(a) \/ BindIdentities(a) \/ UndoStep(a)

AuthStep(o) ==
    \/ ReadAccess(o) \/ ReadRefresh(o) \/ Serve(o) \/ Expire(o)
    \/ Refresh(o) \/ PersistAccess(o) \/ PersistRefresh(o) \/ DropAuth(o)

outlookVars == <<policy, rows, keychain, add, deleting, auth, ledger>>

Next ==
    \/ \E l \in Logins : LoginStep(l) /\ UNCHANGED outlookVars
    \/ \E a \in Adds : AddStep(a)
    \/ \E s \in Sources : DeleteSource(s) \/ DropKey(s)
    \/ \E o \in Auths : AuthStep(o)
    \/ Quit

Spec == Init /\ [][Next]_vars

\* The driver's own steps are taken and time passes; nothing makes a peer finish
\* its request.
FairLogins ==
    /\ Spec
    /\ \A l \in Logins : /\ WF_vars(DriverStep(l) /\ UNCHANGED outlookVars)
                         /\ WF_vars(CeilingPasses(l) /\ UNCHANGED outlookVars)

(***************************************************************************)
(* Properties                                                              *)
(***************************************************************************)

Untouched(s) ==
    /\ \A o \in Auths : auth[o].src # s
    /\ \A a \in Adds : add[a].src = s => add[a].at = "over"

\* The refresh token a source has in the keychain is one upstream honours, however
\* many runs and healthchecks refresh it at the same time, under each of the three
\* rotation policies, once no refresh of it is under way, unless an answer or a
\* keychain write was lost or the rollback that left the row behind failed half-way
\* (auth.rs:649-700, oauth_persister.rs:63, ipc/outlook.rs:40-43).
StoredTokenIsLive ==
    \A s \in rows \ stale :
        (/\ \A o \in Auths : auth[o].src = s =>
               auth[o].at \notin {"persistAccess", "persistRefresh"}
         /\ \A a \in Adds : add[a].src = s => add[a].undone)
        => refresh[s] \in live

\* One OAuthAuth never sends a refresh token again for which it was given another,
\* whichever of its callers gets the lock and whether or not the keychain took the
\* new one: under rotation that would end the user's consent (auth.rs:683-690).
NoTokenSentTwice ==
    \A o \in Auths : auth[o].at = "sending" => auth[o].token \notin auth[o].spent

\* An add that fails leaves neither a row nor one of its two keychain rows, when
\* its undo steps work and no run picked the source up in between
\* (ipc/outlook.rs:37-43).
FailedAddLeavesNothing ==
    \A s \in gone \ touched : s \notin rows /\ ~access[s] /\ refresh[s] = 0

\* A source that is there has the live pair, and one whose add failed has nothing
\* (ipc/outlook.rs:37-43, auth.rs:649-700).
PairFollowsSource == StoredTokenIsLive /\ FailedAddLeavesNothing

\* startup.rs:662-666 (SourceRepo::delete's last-reference check is "the
\* new-install half of the 'no dangling keychain rows' invariant"): nothing of a
\* deleted source stays in the keychain.
DeletedSourceLeavesNothing ==
    faults = 0 =>
        \A s \in dropped : Untouched(s) => ~access[s] /\ refresh[s] = 0

=============================================================================
