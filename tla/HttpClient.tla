----------------------------- MODULE HttpClient -----------------------------
(***************************************************************************)
(* The SDK's HTTP client (connectors-sdk/src/http.rs): one call of `send`  *)
(* per request of a connector, with its retry ladder and its three places  *)
(* where a cancel is honoured (before a send, while the response is out,   *)
(* during the backoff).  The run's CancellationToken is shared by all      *)
(* calls.  Clock values are left out: a backoff is a state a call leaves   *)
(* by itself or because of the token.                                      *)
(***************************************************************************)
EXTENDS Naturals, FiniteSets

CONSTANTS Calls,         \* the callers; each has one request open at a time
          MaxAttempts    \* RetryPolicy::max_attempts, 5 in the default policy

ASSUME AttemptsPositive == MaxAttempts \in Nat \ {0}

VARIABLES
    cancelled,    \* the run's token
    http,         \* where `send` stands
    attempt,      \* its counter of answered attempts
    lastStatus,   \* last_status.is_some()
    verdict,      \* what `send` returned
    replies       \* bookkeeping: HTTP replies the server gave this request

httpVars == <<http, attempt, lastStatus, verdict, replies>>

\* What one attempt can end in: a status class, or a transport error class.
Statuses == {"success", "throttled", "unavailable", "refused"}
Transports == {"timeout", "connect", "request", "broken"}

\* is_retriable_status (429; 500, 502, 503, 504) and is_retriable_transport.
Retriable == {"throttled", "unavailable", "timeout", "connect", "request"}

\* classify_transport_error; the three codes of a connect error (dns, tls,
\* connect, told apart by words of its cause chain) are one here.
TransportCode(r) ==
    CASE r = "timeout" -> "transport_timeout"
      [] r = "connect" -> "transport_connect"
      [] OTHER         -> "transport"

TransportCodes == {TransportCode(r) : r \in Transports}

\* A status that is neither a success nor retriable comes back as Ok(res) for
\* the connector's own map_status: "refused".
Verdicts == {"none", "success", "refused", "cancelled", "rate_limited", "budget"}
                \cup TransportCodes

\* Between the entry of `send` and its return.
Sending == {"check", "armed", "inflight", "backoff"}

HttpTypeOK ==
    /\ cancelled \in BOOLEAN
    /\ http \in [Calls -> Sending \cup {"idle", "returned"}]
    /\ attempt \in [Calls -> 0 .. MaxAttempts]
    /\ lastStatus \in [Calls -> BOOLEAN]
    /\ verdict \in [Calls -> Verdicts]
    /\ replies \in [Calls -> 0 .. MaxAttempts]

HttpInit ==
    /\ cancelled = FALSE
    /\ http = [c \in Calls |-> "idle"]
    /\ attempt = [c \in Calls |-> 0]
    /\ lastStatus = [c \in Calls |-> FALSE]
    /\ verdict = [c \in Calls |-> "none"]
    /\ replies = [c \in Calls |-> 0]

Step(c, from, to) == http[c] = from /\ http' = [http EXCEPT ![c] = to]

Return(c, v) ==
    /\ http' = [http EXCEPT ![c] = "returned"]
    /\ verdict' = [verdict EXCEPT ![c] = v]

\* A connector calls `send`: the locals of a fresh call.
Send(c) ==
    /\ http[c] \in {"idle", "returned"}
    /\ http' = [http EXCEPT ![c] = "check"]
    /\ attempt' = [attempt EXCEPT ![c] = 0]
    /\ lastStatus' = [lastStatus EXCEPT ![c] = FALSE]
    /\ verdict' = [verdict EXCEPT ![c] = "none"]
    /\ replies' = [replies EXCEPT ![c] = 0]

\* Top of the loop: the token is asked before the request is cloned.
CheckCancel(c) ==
    /\ http[c] = "check"
    /\ IF cancelled
       THEN Return(c, "cancelled")
       ELSE Step(c, "check", "armed") /\ UNCHANGED verdict
    /\ UNCHANGED <<attempt, lastStatus, replies>>

\* Variant: an unbiased select!, which may poll send_fut first.
TransmitAnyway(c) ==
    /\ Step(c, "armed", "inflight")
    /\ UNCHANGED <<verdict, attempt, lastStatus, replies>>

\* First poll of the biased select!: the token's arm is polled before send_fut,
\* so a token that fired since the check keeps the request off the wire.
Transmit(c) ==
    /\ http[c] = "armed"
    /\ IF cancelled
       THEN Return(c, "cancelled")
       ELSE Step(c, "armed", "inflight") /\ UNCHANGED verdict
    /\ UNCHANGED <<attempt, lastStatus, replies>>

\* The token wins the select! over a response that is out (or already in).
CancelledInFlight(c) ==
    /\ http[c] = "inflight" /\ cancelled
    /\ Return(c, "cancelled")
    /\ UNCHANGED <<attempt, lastStatus, replies>>

\* What the ladder makes of answer r to attempt number n.
AfterAnswer(c, r, n) ==
    IF r \in Retriable /\ n < MaxAttempts
    THEN Step(c, "inflight", "backoff") /\ UNCHANGED verdict
    ELSE Return(c, CASE r \in {"success", "refused"} -> r
                     [] r = "throttled"              -> "rate_limited"
                     [] r = "unavailable"            -> "budget"
                     [] OTHER -> IF lastStatus[c] THEN "budget" ELSE TransportCode(r))

\* Variant: a transport failure is not counted as an attempt.
AnswerUncounted(c) ==
    /\ http[c] = "inflight" /\ ~cancelled
    /\ \E r \in Statuses \cup Transports :
         /\ AfterAnswer(c, r, attempt[c] + 1)
         /\ lastStatus' = [lastStatus EXCEPT ![c] = @ \/ r \in Statuses]
         /\ replies' = [replies EXCEPT ![c] = IF r \in Statuses THEN @ + 1 ELSE @]
         /\ attempt' = [attempt EXCEPT ![c] = IF r \in Statuses THEN @ + 1 ELSE @]

\* The server answers, or the transport fails (reqwest's own connect timeout of
\* 10 s and total timeout of 60 s see to it that one of them happens).
Answer(c) ==
    /\ http[c] = "inflight" /\ ~cancelled
    /\ \E r \in Statuses \cup Transports :
         /\ AfterAnswer(c, r, attempt[c] + 1)
         /\ lastStatus' = [lastStatus EXCEPT ![c] = @ \/ r \in Statuses]
         /\ replies' = [replies EXCEPT ![c] = IF r \in Statuses THEN @ + 1 ELSE @]
    /\ attempt' = [attempt EXCEPT ![c] = @ + 1]

\* sleep_cancellable: both of its branches ask the token first.
Wake(c) ==
    /\ http[c] = "backoff"
    /\ IF cancelled
       THEN Return(c, "cancelled")
       ELSE Step(c, "backoff", "check") /\ UNCHANGED verdict
    /\ UNCHANGED <<attempt, lastStatus, replies>>

HttpStep(c) ==
    \/ CheckCancel(c)
    \/ Transmit(c)
    \/ CancelledInFlight(c)
    \/ Answer(c)
    \/ Wake(c)

=============================================================================
