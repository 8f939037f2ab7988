----------------------------- MODULE OAuthLogin -----------------------------
(***************************************************************************)
(* The OAuth login of the desktop app (ipc/oauth.rs, oauth_session.rs): a  *)
(* session in the registry, the driver task that waits for the browser's   *)
(* callback on the loopback listener and exchanges its code, and the       *)
(* user's cancel.  Upstream hands out refresh tokens, numbered in order.   *)
(***************************************************************************)
EXTENDS Naturals, FiniteSets, Sequences

CONSTANTS Logins,       \* login attempts
          MaxTokens     \* refresh tokens handed out in one behaviour (model bound)

ASSUME TokensAssumption == MaxTokens \in Nat

VARIABLES
    session,    \* OAuthSessionStatus, "none" before the insert, "taken" once removed
    pair,       \* the session's token_pair: its refresh token, 0 when there is none
    fired,      \* the session's CancellationToken
    driver,     \* where LoopbackDriver::run stands
    got,        \* the outcome it holds: a token, or 0 for a failure
    sent,       \* the tab whose code it exchanges, or "none"
    overdue,    \* DEFAULT_LOGIN_TIMEOUT has passed since the driver started
    early,      \* bookkeeping: cancelled before any connection was accepted
    issued,     \* refresh tokens handed out so far
    live        \* the ones upstream still honours

loginVars == <<session, pair, fired, driver, got, sent, overdue, early>>
idpVars == <<issued, live>>

Tokens == 0 .. MaxTokens

\* A browser may still show the tab of a login of an earlier start.
Tabs == Logins \cup {"old"}

LoginTypeOK ==
    /\ session \in [Logins -> {"none", "Pending", "Completed", "Failed", "Cancelled", "taken"}]
    /\ pair \in [Logins -> Tokens] /\ got \in [Logins -> Tokens]
    /\ fired \in [Logins -> BOOLEAN] /\ overdue \in [Logins -> BOOLEAN]
    /\ early \in [Logins -> BOOLEAN]
    /\ driver \in [Logins -> {"off", "select", "callback", "exchange", "store", "report", "ended"}]
    /\ sent \in [Logins -> Tabs \cup {"none"}]
    /\ issued \in Tokens /\ live \subseteq 1 .. issued

LoginInit ==
    /\ session = [l \in Logins |-> "none"]
    /\ pair = [l \in Logins |-> 0] /\ got = [l \in Logins |-> 0]
    /\ fired = [l \in Logins |-> FALSE] /\ overdue = [l \in Logins |-> FALSE]
    /\ early = [l \in Logins |-> FALSE] /\ sent = [l \in Logins |-> "none"]
    /\ driver = [l \in Logins |-> "off"]
    /\ issued = 0 /\ live = {}

Exists(l) == session[l] \notin {"none", "taken"}

Drive(l, to) == driver' = [driver EXCEPT ![l] = to]

\* oauth_begin_login_impl: the port is pinned, so it cannot be bound while
\* another driver has its listener.  Nothing is kept of an attempt whose bind
\* or browser fails.
BeginLogin(l) ==
    /\ driver[l] = "off"
    /\ \A k \in Logins : driver[k] \in {"off", "ended"}
    /\ session' = [session EXCEPT ![l] = "Pending"]
    /\ Drive(l, "select")
    /\ UNCHANGED <<pair, fired, got, sent, overdue, early, idpVars>>

\* OAuthSessionRegistry::cancel, whatever the status was.
CancelLogin(l) ==
    /\ Exists(l) /\ ~fired[l]
    /\ fired' = [fired EXCEPT ![l] = TRUE]
    /\ session' = [session EXCEPT ![l] = "Cancelled"]
    /\ early' = [early EXCEPT ![l] = driver[l] = "select"]
    /\ UNCHANGED <<pair, driver, got, sent, overdue, idpVars>>

\* Time passes.
CeilingPasses(l) ==
    /\ driver[l] \in {"select", "callback"} /\ ~overdue[l]
    /\ overdue' = [overdue EXCEPT ![l] = TRUE]
    /\ UNCHANGED <<session, pair, fired, driver, got, sent, early, idpVars>>

(***************************************************************************)
(* LoopbackDriver::run: a biased select! over cancel, timeout and accept   *)
(***************************************************************************)

SelectCancel(l) ==
    /\ driver[l] = "select" /\ fired[l]
    /\ Drive(l, "ended")
    /\ UNCHANGED <<session, pair, fired, got, sent, overdue, early, idpVars>>

SelectTimeout(l) ==
    /\ driver[l] = "select" /\ ~fired[l] /\ overdue[l]
    /\ Drive(l, "report")
    /\ UNCHANGED <<session, pair, fired, got, sent, overdue, early, idpVars>>

\* The first connection ends the select!; handle_callback runs in its arm,
\* where neither the token nor the timeout is looked at any more.
Accept(l) ==
    /\ driver[l] = "select" /\ ~fired[l] /\ ~overdue[l]
    /\ Drive(l, "callback")
    /\ UNCHANGED <<session, pair, fired, got, sent, overdue, early, idpVars>>

\* build_authorize_url: the address the browser is sent to names the login twice,
\* by a nonce and by the challenge its code will be bound to.
AuthorizeUrl(l) == [state |-> l, challenge |-> l]

\* What can arrive at the listener: a redirect from any tab, with a code or an
\* error, another request of a browser, or a part of one.
Requests ==
    {r \in [whole : BOOLEAN, query : BOOLEAN, error : BOOLEAN,
            state : Tabs \cup {"none"}, code : Tabs \cup {"none"}] :
        r.code \in {r.state, "none"}}

\* read_request_line: a head that ends early or is too long is an error.
ReadRequestLine(r) == IF r.whole THEN <<r>> ELSE <<>>

\* extract_query
ExtractQuery(line) == IF line # <<>> /\ line[1].query THEN line ELSE <<>>

\* Variant: the nonce is not compared.
CodeForAnyTab(l, query) ==
    IF query # <<>> /\ ~query[1].error THEN query[1].code ELSE "none"

\* The code the query brings this login, or "none".
CodeFor(l, query) ==
    IF query # <<>> /\ ~query[1].error /\ query[1].state = AuthorizeUrl(l).state
    THEN query[1].code ELSE "none"

\* handle_callback, up to the exchange: the peer completes its request.
ReadCallback(l) ==
    /\ driver[l] = "callback"
    /\ \E r \in Requests :
         LET code == CodeFor(l, ExtractQuery(ReadRequestLine(r)))
         IN /\ sent' = [sent EXCEPT ![l] = code]
            /\ Drive(l, IF code = "none" THEN "report" ELSE "exchange")
    /\ UNCHANGED <<session, pair, fired, got, overdue, early, idpVars>>

Issue(spent) ==
    /\ issued < MaxTokens
    /\ issued' = issued + 1
    /\ live' = (live \cup {issued + 1}) \ spent

\* exchange_code, which the token endpoint answers for the code of the login whose
\* challenge the verifier solves.
Exchange(l) ==
    /\ driver[l] = "exchange"
    /\ \/ /\ sent[l] = AuthorizeUrl(l).challenge
          /\ Issue({})
          /\ got' = [got EXCEPT ![l] = issued + 1]
          /\ Drive(l, "store")
       \/ /\ Drive(l, "report")
          /\ UNCHANGED <<got, idpVars>>
    /\ UNCHANGED <<session, pair, fired, sent, overdue, early>>

\* set_token_pair.
StorePair(l) ==
    /\ driver[l] = "store"
    /\ pair' = [pair EXCEPT ![l] = IF Exists(l) THEN got[l] ELSE 0]
    /\ Drive(l, "report")
    /\ UNCHANGED <<session, fired, got, sent, overdue, early, idpVars>>

\* update_status, a second acquisition of the registry; it overwrites
\* Cancelled.
Report(l) ==
    /\ driver[l] = "report"
    /\ session' = [session EXCEPT ![l] =
                     IF Exists(l) THEN IF got[l] # 0 THEN "Completed" ELSE "Failed" ELSE @]
    /\ Drive(l, "ended")
    /\ UNCHANGED <<pair, fired, got, sent, overdue, early, idpVars>>

\* What the driver does without the browser.
DriverStep(l) ==
    \/ SelectCancel(l) \/ SelectTimeout(l)
    \/ Exchange(l) \/ StorePair(l) \/ Report(l)

LoginStep(l) ==
    \/ BeginLogin(l) \/ CancelLogin(l) \/ CeilingPasses(l)
    \/ Accept(l) \/ ReadCallback(l) \/ DriverStep(l)

\* Both ends a session can come to are sound: Completed means that the add finds
\* the tokens, and a login cancelled while it still waited for a connection never
\* gets any, whatever the browser does later; and the tab of another login never
\* has its code spent for this one (oauth.rs:26-29, :391, :421, :515).
LoginIsSound ==
    \A l \in Logins :
        /\ session[l] = "Completed" => pair[l] # 0
        /\ sent[l] \in {"none", l}
        /\ early[l] => pair[l] = 0 /\ session[l] = "Cancelled"

\* ipc/oauth.rs:78-81 ("The timeout is enforced inside the background driver's
\* tokio::select! rather than on the listener's accept() alone, so a half-open
\* TCP connection cannot prolong the wait past this ceiling"): no session stays
\* Pending.
LoginEnds == \A l \in Logins : session[l] = "Pending" ~> session[l] # "Pending"

=============================================================================
