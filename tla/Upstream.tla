------------------------------ MODULE Upstream ------------------------------
(***************************************************************************)
(* The connectors' side of a service: the stable error codes, where the    *)
(* requests go, and what is made of the answers.  HttpClient's retries are *)
(* over when an answer gets here.                                          *)
(***************************************************************************)
EXTENDS FiniteSets, Sequences, SequencesExt

(***************************************************************************)
(* dayseam-core: DayseamError and the registry of its stable codes         *)
(* (error.rs, error_codes.rs).  The frontend chooses the card it shows, and*)
(* whether the card offers Reconnect, by variant and code.                 *)
(***************************************************************************)

Variants == {"Auth", "Network", "RateLimited", "UpstreamChanged", "InvalidConfig",
             "Io", "Internal", "Cancelled", "Unsupported"}

Error(variant, code) == [variant |-> variant, code |-> code]

GitlabCodes ==
    {"gitlab.auth.invalid_token", "gitlab.auth.missing_scope", "gitlab.url.dns",
     "gitlab.url.tls", "gitlab.rate_limited", "gitlab.upstream_5xx",
     "gitlab.upstream_shape_changed", "gitlab.resource_not_found",
     "gitlab.resource_gone"}

AtlassianCodes ==
    {"atlassian.auth.invalid_credentials", "atlassian.auth.missing_scope",
     "atlassian.cloud.resource_not_found", "atlassian.identity.malformed_account_id",
     "atlassian.adf.unrenderable_node"}

JiraCodes ==
    {"jira.walk.upstream_shape_changed", "jira.walk.rate_limited",
     "jira.upstream_5xx", "jira.resource_gone"}

ConfluenceCodes ==
    {"confluence.walk.upstream_shape_changed", "confluence.walk.rate_limited",
     "confluence.upstream_5xx", "confluence.resource_gone"}

GithubCodes ==
    {"github.auth.invalid_credentials", "github.auth.missing_scope",
     "github.resource_not_found", "github.rate_limited", "github.upstream_5xx",
     "github.upstream_shape_changed", "github.resource_gone",
     "connector.github.pagination.cycle_guard_tripped"}

LocalGitCodes ==
    {"local_git.repo_locked", "local_git.repo_unreadable", "local_git.repo_corrupt",
     "local_git.repo_not_found", "local_git.no_signature",
     "local_git.too_many_roots", "local_git.commits_filtered_by_identity"}

OutlookCodes ==
    {"outlook.auth.invalid_credentials", "outlook.auth.missing_scope",
     "outlook.consent_required", "outlook.resource_not_found",
     "outlook.rate_limited", "outlook.upstream_5xx",
     "outlook.upstream_shape_changed", "outlook.resource_gone"}

\* Codes any connector may return: a cancelled run, a request it does not
\* service, and what the HTTP client itself gives up with.
SdkCodes ==
    {"run.cancelled.by_user", "run.cancelled.by_superseded",
     "connector.unsupported.sync_request", "http.retry.budget_exhausted",
     "http.transport", "http.transport.dns", "http.transport.tls",
     "http.transport.connect", "http.transport.timeout"}

\* What a call on a registered source may fail with before its connector runs.
IpcSourceCodes ==
    {"ipc.source.not_found", "ipc.gitlab.keychain_read_failed",
     "ipc.gitlab.invalid_base_url", "ipc.atlassian.invalid_workspace_url",
     "ipc.github.invalid_api_base_url"}

\* A refreshed or refused OAuth token (oauth.rs of the SDK).
OauthTokenCodes ==
    {"oauth.token_expired", "oauth.descriptor_mismatch", "oauth.refresh_rejected",
     "oauth.scope_downgraded"}

\* The codes a failure of a source of this kind may carry.
FamilyCodes(kind) ==
    SdkCodes \cup
    CASE kind = "GitLab"     -> GitlabCodes
      [] kind = "GitHub"     -> GithubCodes
      [] kind = "Jira"       -> AtlassianCodes \cup JiraCodes
      [] kind = "Confluence" -> AtlassianCodes \cup ConfluenceCodes
      [] kind = "Outlook"    -> OutlookCodes \cup OauthTokenCodes
      [] kind = "LocalGit"   -> LocalGitCodes

(***************************************************************************)
(* The addresses of services: what the user types into an add dialog, what *)
(* the command's parser accepts, what the row keeps of it, the base URL    *)
(* the connector is given at the next start, and where its requests go.    *)
(***************************************************************************)

\* What an input is to url::Url: nothing, not a URL, or its parts.  `segments`
\* are the path's, `slash` says it ends in "/" (a path of no segment always
\* does once it is parsed), `query` stands for a query or a fragment, `cloud`
\* for a host of *.atlassian.net.
Url(scheme, cloud, segments, slash, query) ==
    [form |-> "url", scheme |-> scheme, cloud |-> cloud, segments |-> segments,
     slash |-> slash, query |-> query]

NoAddress == [form |-> "blank"]
Unparsable == [form |-> "malformed"]

Parses(text) == text.form = "url"

\* format!("{text}/") unless it ends so.
Padded(text) == [text EXCEPT !.slash = TRUE]

\* Url::join of a relative path: everything after the last "/" of the base goes.
Join(base, leaf) ==
    (IF base.slash \/ base.segments = <<>> THEN base.segments ELSE Front(base.segments))
        \o leaf

\* format!("{base}/{leaf}") after trim_end_matches('/').
Below(base, leaf) == base.segments \o leaf

(***************************************************************************)
(* The parsers of the commands.  (The loopback hosts they also let through *)
(* exist in test builds only.)                                             *)
(***************************************************************************)

ParseGitlabBaseUrl(text) ==
    Parses(text) /\ text.scheme = "https" /\ ~text.query

ParseApiBaseUrl(text) ==
    Parses(text) /\ text.scheme = "https" /\ ~text.query

ParseWorkspaceUrl(text) ==
    /\ Parses(text) /\ text.scheme = "https" /\ text.cloud
    /\ text.segments = <<>> /\ ~text.query

(***************************************************************************)
(* What the row keeps                                                      *)
(***************************************************************************)

\* canonical_workspace_url: the origin, without a final slash.
CanonicalWorkspaceUrl(text) == [text EXCEPT !.segments = <<>>, !.slash = FALSE]

\* canonical_api_base_url: as parsed, padded.
CanonicalApiBaseUrl(text) == Padded(text)

(***************************************************************************)
(* The next start.  from_raw pads again; an address that does not parse    *)
(* keeps its source out of the registry.                                   *)
(***************************************************************************)

GithubFromRaw(text) == Padded(text)

JiraFromRaw(text) == Padded(text)

ConfluenceFromRaw(text) == Padded(text)

(***************************************************************************)
(* What the connectors make of an answer: the error each one maps a status *)
(* to, the health it reports, what a sync of a day ends with, and what the *)
(* probe of an add dialog accepts.                                         *)
(***************************************************************************)

\* Statuses that reach a connector (HttpClient::send returns Ok), those the
\* client gives up on itself, and its transport failures.
PassedOn == {"ok", "garbled", "unauthorized", "forbidden", "missing", "gone",
             "unimplemented", "odd"}
GivenUp == {"throttled", "unavailable"}
Broken == {"dns", "tls", "connect", "timeout", "reset"}
Answers == PassedOn \cup GivenUp \cup Broken

\* "garbled" is a 200 whose body does not decode.
IsSuccess(answer) == answer \in {"ok", "garbled"}

\* classify_transport_error, for a request that never got a reply.
TransportError(answer) ==
    Error("Network", CASE answer = "timeout" -> "http.transport.timeout"
                       [] answer = "dns"     -> "http.transport.dns"
                       [] answer = "tls"     -> "http.transport.tls"
                       [] answer = "connect" -> "http.transport.connect"
                       [] OTHER              -> "http.transport")

\* The end of `send` for an answer it does not pass on.
SendError(answer) ==
    CASE answer = "throttled"   -> Error("RateLimited", "http.retry.budget_exhausted")
      [] answer = "unavailable" -> Error("Network", "http.retry.budget_exhausted")
      [] OTHER                  -> TransportError(answer)

(***************************************************************************)
(* errors.rs of the connectors: a status becomes the connector's own error *)
(* (map_status), and that a DayseamError (From).                           *)
(***************************************************************************)

GithubUpstreamError ==
    [AuthInvalidCredentials |-> Error("Auth", "github.auth.invalid_credentials"),
     AuthMissingScope       |-> Error("Auth", "github.auth.missing_scope"),
     ResourceNotFound       |-> Error("Network", "github.resource_not_found"),
     ResourceGone           |-> Error("Network", "github.resource_gone"),
     RateLimited            |-> Error("RateLimited", "github.rate_limited"),
     Upstream5xx            |-> Error("Network", "github.upstream_5xx"),
     ShapeChanged           |-> Error("UpstreamChanged", "github.upstream_shape_changed")]

\* Variant: a scope the PAT lacks falls into the catch-all.
GithubStatusNoScope(answer) ==
    CASE answer = "unauthorized" -> GithubUpstreamError.AuthInvalidCredentials
      [] answer = "missing"      -> GithubUpstreamError.ResourceNotFound
      [] answer = "gone"         -> GithubUpstreamError.ResourceGone
      [] OTHER                   -> GithubUpstreamError.Upstream5xx

GithubStatus(answer) ==
    CASE answer = "unauthorized" -> GithubUpstreamError.AuthInvalidCredentials
      [] answer = "forbidden"    -> GithubUpstreamError.AuthMissingScope
      [] answer = "missing"      -> GithubUpstreamError.ResourceNotFound
      [] answer = "gone"         -> GithubUpstreamError.ResourceGone
      [] answer = "throttled"    -> GithubUpstreamError.RateLimited
      [] OTHER                   -> GithubUpstreamError.Upstream5xx

GitlabUpstreamError ==
    [AuthInvalidToken |-> Error("Auth", "gitlab.auth.invalid_token"),
     AuthMissingScope |-> Error("Auth", "gitlab.auth.missing_scope"),
     RateLimited      |-> Error("RateLimited", "gitlab.rate_limited"),
     Upstream5xx      |-> Error("Network", "gitlab.upstream_5xx"),
     ShapeChanged     |-> Error("UpstreamChanged", "gitlab.upstream_shape_changed"),
     ResourceNotFound |-> Error("Network", "gitlab.resource_not_found"),
     ResourceGone     |-> Error("Network", "gitlab.resource_gone")]

GitlabStatus(answer) ==
    CASE answer = "unauthorized" -> GitlabUpstreamError.AuthInvalidToken
      [] answer = "forbidden"    -> GitlabUpstreamError.AuthMissingScope
      [] answer = "missing"      -> GitlabUpstreamError.ResourceNotFound
      [] answer = "gone"         -> GitlabUpstreamError.ResourceGone
      [] answer = "throttled"    -> GitlabUpstreamError.RateLimited
      [] OTHER                   -> GitlabUpstreamError.Upstream5xx

OutlookUpstreamError ==
    [AuthInvalidCredentials |-> Error("Auth", "outlook.auth.invalid_credentials"),
     AuthMissingScope       |-> Error("Auth", "outlook.auth.missing_scope"),
     ResourceNotFound       |-> Error("Network", "outlook.resource_not_found"),
     ResourceGone           |-> Error("Network", "outlook.resource_gone"),
     RateLimited            |-> Error("RateLimited", "outlook.rate_limited"),
     Upstream5xx            |-> Error("Network", "outlook.upstream_5xx"),
     ShapeChanged           |-> Error("UpstreamChanged", "outlook.upstream_shape_changed")]

OutlookStatus(answer) ==
    CASE answer = "unauthorized" -> OutlookUpstreamError.AuthInvalidCredentials
      [] answer = "forbidden"    -> OutlookUpstreamError.AuthMissingScope
      [] answer = "missing"      -> OutlookUpstreamError.ResourceNotFound
      [] answer = "gone"         -> OutlookUpstreamError.ResourceGone
      [] answer = "throttled"    -> OutlookUpstreamError.RateLimited
      [] OTHER                   -> OutlookUpstreamError.Upstream5xx

\* Jira and Confluence share the codes of what belongs to the Atlassian account.
AtlassianError(product) ==
    LET own(jira, confluence) == IF product = "Jira" THEN jira ELSE confluence IN
    [AuthInvalidCredentials     |-> Error("Auth", "atlassian.auth.invalid_credentials"),
     AuthMissingScope           |-> Error("Auth", "atlassian.auth.missing_scope"),
     CloudResourceNotFound      |-> Error("Network", "atlassian.cloud.resource_not_found"),
     WalkShapeChanged           |-> Error("UpstreamChanged",
                                          own("jira.walk.upstream_shape_changed",
                                              "confluence.walk.upstream_shape_changed")),
     Server5xx                  |-> Error("Network", own("jira.upstream_5xx",
                                                         "confluence.upstream_5xx")),
     ResourceGone               |-> Error("Network", own("jira.resource_gone",
                                                         "confluence.resource_gone")),
     RateLimited                |-> Error("RateLimited", own("jira.walk.rate_limited",
                                                             "confluence.walk.rate_limited")),
     IdentityMalformedAccountId |-> Error("UpstreamChanged",
                                          "atlassian.identity.malformed_account_id")]

\* Unlike the others, the catch-all is a changed shape and not a server error.
AtlassianStatus(product, answer) ==
    CASE answer = "unauthorized"  -> AtlassianError(product).AuthInvalidCredentials
      [] answer = "forbidden"     -> AtlassianError(product).AuthMissingScope
      [] answer = "missing"       -> AtlassianError(product).CloudResourceNotFound
      [] answer = "gone"          -> AtlassianError(product).ResourceGone
      [] answer = "throttled"     -> AtlassianError(product).RateLimited
      [] answer = "unimplemented" -> AtlassianError(product).Server5xx
      [] OTHER                    -> AtlassianError(product).WalkShapeChanged

(***************************************************************************)
(* The request of a walk: what a page that is no page ends the sync with.  *)
(***************************************************************************)

Done == Error("none", "none")

GitlabWalk(answer) ==
    CASE answer = "ok"         -> Done
      [] answer = "garbled"    -> GitlabUpstreamError.ShapeChanged
      [] answer \in PassedOn   -> GitlabStatus(answer)
      [] OTHER                 -> SendError(answer)

GithubWalk(answer) ==
    CASE answer = "ok"         -> Done
      [] answer = "garbled"    -> GithubUpstreamError.ShapeChanged
      [] answer \in PassedOn   -> GithubStatus(answer)
      [] OTHER                 -> SendError(answer)

OutlookWalk(answer) ==
    CASE answer = "ok"         -> Done
      [] answer = "garbled"    -> OutlookUpstreamError.ShapeChanged
      [] answer \in PassedOn   -> OutlookStatus(answer)
      [] OTHER                 -> SendError(answer)

\* The Atlassian walks put the client's rate limit under their own code.
JiraWalk(answer) ==
    CASE answer = "ok"         -> Done
      [] answer = "garbled"    -> AtlassianError("Jira").WalkShapeChanged
      [] answer = "throttled"  -> AtlassianError("Jira").RateLimited
      [] answer \in PassedOn   -> AtlassianStatus("Jira", answer)
      [] OTHER                 -> SendError(answer)

ConfluenceWalk(answer) ==
    CASE answer = "ok"         -> Done
      [] answer = "garbled"    -> AtlassianError("Confluence").WalkShapeChanged
      [] answer = "throttled"  -> AtlassianError("Confluence").RateLimited
      [] answer \in PassedOn   -> AtlassianStatus("Confluence", answer)
      [] OTHER                 -> SendError(answer)

(***************************************************************************)
(* The connector's healthcheck.  GitLab's, Jira's and Confluence's take    *)
(* any reply as health; the other two map what is not a success.           *)
(***************************************************************************)

Healthy == Done

GitlabHealth(answer) ==
    IF answer \in PassedOn THEN Healthy ELSE SendError(answer)

JiraHealth(answer) ==
    IF answer \in PassedOn THEN Healthy ELSE SendError(answer)

ConfluenceHealth(answer) ==
    IF answer \in PassedOn THEN Healthy ELSE SendError(answer)

GithubHealth(answer) ==
    CASE IsSuccess(answer)   -> Healthy
      [] answer \in PassedOn -> GithubStatus(answer)
      [] OTHER               -> SendError(answer)

OutlookHealth(answer) ==
    CASE IsSuccess(answer)   -> Healthy
      [] answer \in PassedOn -> OutlookStatus(answer)
      [] OTHER               -> SendError(answer)

(***************************************************************************)
(* The probe of an add dialog.  An account a probe found is good for an    *)
(* identity only if its ids are: `account` is "whole", or names what is    *)
(* wrong with it.                                                          *)
(***************************************************************************)

Accounts == {"whole", "noid", "nologin"}

\* One attempt: the dialog's own button is the retry.
ValidateGitlab(answer) ==
    CASE answer = "ok"       -> Done
      [] answer = "garbled"  -> GitlabUpstreamError.ShapeChanged
      [] answer \in PassedOn -> GitlabStatus(answer)
      [] OTHER               -> SendError(answer)

ValidateGithub(answer) ==
    CASE answer = "ok"       -> Done
      [] answer = "garbled"  -> GithubUpstreamError.ShapeChanged
      [] answer \in PassedOn -> GithubStatus(answer)
      [] OTHER               -> SendError(answer)

ValidateOutlook(answer) ==
    CASE answer = "ok"       -> Done
      [] answer = "garbled"  -> OutlookUpstreamError.ShapeChanged
      [] answer \in PassedOn -> OutlookStatus(answer)
      [] OTHER               -> SendError(answer)

\* discover_cloud: under Jira's codes whichever product is added; the account
\* id is looked at right away.
DiscoverCloud(answer, account) ==
    CASE answer = "ok" /\ account = "whole" -> Done
      [] answer = "ok"       -> AtlassianError("Jira").IdentityMalformedAccountId
      [] answer = "garbled"  -> AtlassianError("Jira").WalkShapeChanged
      [] answer \in PassedOn -> AtlassianStatus("Jira", answer)
      [] OTHER               -> SendError(answer)

\* list_identities: GitHub's numeric id and login, Outlook's object id and UPN.
GithubIdentities(account) ==
    CASE account = "noid"    -> GithubUpstreamError.ShapeChanged
      [] account = "nologin" -> GithubUpstreamError.ShapeChanged
      [] OTHER               -> Done

OutlookIdentities(account) ==
    CASE account = "noid"    -> OutlookUpstreamError.ShapeChanged
      [] account = "nologin" -> OutlookUpstreamError.ShapeChanged
      [] OTHER               -> Done

AtlassianIdentities(account) ==
    IF account = "noid" THEN AtlassianError("Jira").IdentityMalformedAccountId ELSE Done

=============================================================================
