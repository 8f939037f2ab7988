------------------------------ MODULE Registry ------------------------------
(***************************************************************************)
(* What a source needs to be fetched: its row, its key in the keychain,    *)
(* and the connector the last start made from the row (startup.rs,         *)
(* registries.rs, the connectors' Mux).  The commands change the first two *)
(* while the third stands until the next start: a toast asks for one.      *)
(* report_generate and sources_healthcheck put the three together.         *)
(*                                                                         *)
(* SourceCommands has the commands step by step, with their storage        *)
(* failures and rollbacks; here a command is its writes and its toast.     *)
(***************************************************************************)
EXTENDS Naturals, Upstream

CONSTANTS SourceIds,     \* ids of rows; a key is named after the row it was minted for
          Texts,         \* per workplace, what the user types into an address field
          NoSource,
          MaxEdits       \* commands in one behaviour (model bound)

\* The sources of one behaviour: commands of a kind touch rows of that kind only.
Workplaces == {"LocalGit", "GitLab", "GitHub", "Atlassian", "Outlook"}

VARIABLES
    place,      \* which of them
    row,        \* sources: [kind, address, email, ref], or NoSource
    keychain,   \* per key name: what the secret in it is worth
    refreshKey, \* Outlook's second slot, likewise
    live,       \* the connectors: the base URL each id was registered with
    told,       \* ids a restart toast was shown for, see RestartToast
    edit,       \* a command between its writes and its return
    call,       \* a sync or a healthcheck under way
    edits,
    past        \* bookkeeping for the properties, see RegistryInit

registryVars == <<place, row, keychain, refreshKey, live, told, edit, call,
                  edits, past>>

\* "revoked" is a token the service no longer takes, "narrow" one that lacks a scope.
Worths == {"none", "good", "revoked", "narrow"}

Base == [form |-> "url", scheme |-> "https", cloud |-> FALSE, segments |-> <<>>,
         slash |-> TRUE, query |-> FALSE]

\* What an address field may hold, and what a row of `sources` is.  (UrlWords is
\* STRING; the provers do not know that a literal is in it.)
UrlWords == STRING \cup {"https", "gitlab"}
Addresses == [form : {"url"}, scheme : UrlWords, cloud : BOOLEAN, segments : Seq(UrlWords),
              slash : BOOLEAN, query : BOOLEAN]
AnyText == Addresses \cup {NoAddress, Unparsable}
SourceKinds == {"LocalGit", "GitLab", "GitHub", "Jira", "Confluence", "Outlook"}
SourceRows == [kind : SourceKinds, address : AnyText, email : BOOLEAN,
               ref : SourceIds \cup {NoSource}]

ASSUME TextsAreAddresses == \A p \in Workplaces : Texts[p] \subseteq AnyText
ASSUME NoSourceIsNone == NoSource \notin AnyText /\ NoSource \notin SourceRows

NoEdit == [at |-> "idle", toast |-> FALSE, drop |-> NoSource]
NoCall == [at |-> "idle"]

\* Two folders to scan.
Folders == {Base, [Base EXCEPT !.segments = <<"gitlab">>]}

Exists(s) == row[s] # NoSource

KindsOf(p) == IF p = "Atlassian" THEN {"Jira", "Confluence"} ELSE {p}

Row(kind, address, email, ref) ==
    [kind |-> kind, address |-> address, email |-> email, ref |-> ref]

(***************************************************************************)
(* Adding: what each dialog lets through and what its row keeps            *)
(***************************************************************************)

\* The address a kind's add accepts (Outlook's is a constant, local git has
\* scan roots).
Accepts(kind, text) ==
    CASE kind = "GitLab"                    -> ParseGitlabBaseUrl(text)
      [] kind = "GitHub"                    -> ParseApiBaseUrl(text)
      [] kind \in {"Jira", "Confluence"}    -> ParseWorkspaceUrl(text)
      [] kind = "LocalGit"                  -> text \in Folders
      [] OTHER                              -> text = Base

Kept(kind, text) ==
    CASE kind = "GitHub"                    -> CanonicalApiBaseUrl(text)
      [] kind \in {"Jira", "Confluence"}    -> CanonicalWorkspaceUrl(text)
      [] OTHER                              -> text

\* The path the probe of the dialog asked for, from what the user typed.
ProbePath(kind, text) ==
    CASE kind = "GitLab"                    -> Below(text, <<"api", "v4", "user">>)
      [] kind = "GitHub"                    -> Join(Padded(text), <<"user">>)
      [] kind \in {"Jira", "Confluence"}    -> Join(text, <<"rest", "api", "3", "myself">>)
      [] OTHER                              -> Join(text, <<"me">>)

\* The same request from the base a connector was registered with.
HealthPath(kind, base) ==
    CASE kind = "GitLab"                    -> Below(base, <<"api", "v4", "user">>)
      [] kind = "GitHub"                    -> Join(base, <<"user">>)
      [] kind \in {"Jira", "Confluence"}    -> Join(base, <<"rest", "api", "3", "myself">>)
      [] OTHER                              -> Join(base, <<"me">>)

(***************************************************************************)
(* The start                                                               *)
(***************************************************************************)

GitlabRegistered(r) == r.address
JiraRegistered(r) == IF Parses(r.address) THEN JiraFromRaw(r.address) ELSE NoSource
ConfluenceRegistered(r) ==
    IF Parses(r.address) THEN ConfluenceFromRaw(r.address) ELSE NoSource
GithubRegistered(r) == IF Parses(r.address) THEN GithubFromRaw(r.address) ELSE NoSource
OutlookRegistered(r) == Base
LocalGitRegistered(r) == r.address

\* resolve_registry_config and default_registries: the connector of a row.
Registered(r) ==
    CASE r.kind = "GitLab"     -> GitlabRegistered(r)
      [] r.kind = "Jira"       -> JiraRegistered(r)
      [] r.kind = "Confluence" -> ConfluenceRegistered(r)
      [] r.kind = "GitHub"     -> GithubRegistered(r)
      [] r.kind = "Outlook"    -> OutlookRegistered(r)
      [] OTHER                 -> LocalGitRegistered(r)

Snapshot(rows) ==
    [s \in SourceIds |-> IF rows[s] = NoSource THEN NoSource ELSE Registered(rows[s])]

\* ConfluenceEmailRepair: an empty email comes from another row under the same key.
RepairEmails(rows) ==
    [s \in SourceIds |->
        IF rows[s] # NoSource /\ rows[s].kind = "Confluence" /\ ~rows[s].email
           /\ rows[s].ref # NoSource
           /\ \E t \in SourceIds \ {s} :
                rows[t] # NoSource /\ rows[t].ref = rows[s].ref /\ rows[t].email
        THEN [rows[s] EXCEPT !.email = TRUE]
        ELSE rows[s]]

\* The installation of a user who has worked with it: empty, or with a Jira
\* and a Confluence row of v0.2.0 under one key, the latter without an email.
OldRows(p) ==
    {[s \in SourceIds |-> NoSource]} \cup
    {f \in [SourceIds -> {NoSource} \cup
               {Row(k, [Base EXCEPT !.cloud = TRUE, !.slash = FALSE], k = "Jira", t) :
                   k \in KindsOf(p), t \in SourceIds}] :
        /\ p = "Atlassian"
        /\ \E s \in SourceIds : f[s] # NoSource /\ f[s].kind = "Confluence"
        /\ \A s, t \in SourceIds :
             f[s] # NoSource /\ f[t] # NoSource => f[s].ref = f[t].ref /\ (s # t => f[s].kind # f[t].kind)}

\* minted: ids used so far.  probed: what the add's probe asked for, until the
\* row is edited.  patched: rows of a kind without a toast for it whose config
\* changed since the start.
RegistryInit ==
    /\ place \in Workplaces
    /\ \E old \in OldRows(place) :
         /\ row = RepairEmails(old)
         /\ live = Snapshot(row)
         /\ keychain = [k \in SourceIds |->
                          IF \E s \in SourceIds : old[s] # NoSource /\ old[s].ref = k
                          THEN "good" ELSE "none"]
    /\ refreshKey = [k \in SourceIds |-> "none"]
    /\ told = {}
    /\ edit = NoEdit /\ call = NoCall
    /\ edits = 0
    /\ past = [minted |-> {s \in SourceIds : row[s] # NoSource \/ keychain[s] # "none"},
               probed |-> [s \in SourceIds |-> NoSource], patched |-> {}]
(***************************************************************************)
(* Commands on sources                                                     *)
(***************************************************************************)

\* What the next start would make of the row as it is.
Wanted(s) == IF Exists(s) THEN Registered(row[s]) ELSE NoSource

\* A start is due for the source: its connector is not the one of its row.
Pending(s) == live[s] # Wanted(s)

BeginEdit(toast, drop) ==
    /\ edit = NoEdit /\ edits < MaxEdits
    /\ edits' = edits + 1
    /\ edit' = [at |-> "written", toast |-> toast, drop |-> drop]

Untouched == UNCHANGED <<place, live, call>>

\* A new id is one not used so far, the same each time.
Unminted == SourceIds \ past.minted
NewId(s) == s \in Unminted /\ s = CHOOSE t \in Unminted : TRUE

\* The ids of `new` get the rows; their changes are not announced yet.
Insert(new, kinds, text, ref) ==
    /\ row' = [s \in SourceIds |->
                 IF s \in new THEN Row(kinds[s], Kept(kinds[s], text), TRUE, ref) ELSE row[s]]
    /\ told' = told \ new
    /\ past' = [past EXCEPT
                  !.minted = @ \cup new \cup {ref},
                  !.probed = [s \in SourceIds |->
                                IF s \in new THEN ProbePath(kinds[s], text) ELSE @[s]]]

\* sources_add: GitLab with its PAT, local git without a key.
AddSource(s, text, worth) ==
    /\ place \in {"LocalGit", "GitLab"}
    /\ NewId(s) /\ Accepts(place, text)
    /\ BeginEdit(TRUE, NoSource)
    /\ Insert({s}, [i \in {s} |-> place], text, IF place = "GitLab" THEN s ELSE NoSource)
    /\ keychain' = IF place = "GitLab" THEN [keychain EXCEPT ![s] = worth] ELSE keychain
    /\ Untouched /\ UNCHANGED refreshKey

\* github_sources_add
AddGithub(s, text, worth) ==
    /\ place = "GitHub"
    /\ NewId(s) /\ Accepts("GitHub", text)
    /\ BeginEdit(TRUE, NoSource)
    /\ Insert({s}, [i \in {s} |-> "GitHub"], text, s)
    /\ keychain' = [keychain EXCEPT ![s] = worth]
    /\ Untouched /\ UNCHANGED refreshKey

\* atlassian_sources_add: one product or both, under a new key.
AddAtlassian(new, kinds, text, worth) ==
    /\ place = "Atlassian" /\ new # {}
    /\ new \cap past.minted = {} /\ (\E s \in new : NewId(s)) /\ Accepts("Jira", text)
    /\ \A s, t \in new : s # t => kinds[s] # kinds[t]
    /\ BeginEdit(TRUE, NoSource)
    /\ \E ref \in new :
         /\ Insert(new, kinds, text, ref)
         /\ keychain' = [keychain EXCEPT ![ref] = worth]
    /\ Untouched /\ UNCHANGED refreshKey

\* The dialog's reuse mode: under the key of a row that has one.
ReuseAtlassian(s, kind, text, of) ==
    /\ place = "Atlassian"
    /\ NewId(s) /\ Accepts(kind, text)
    /\ Exists(of) /\ row[of].ref # NoSource /\ keychain[row[of].ref] # "none"
    /\ BeginEdit(TRUE, NoSource)
    /\ Insert({s}, [i \in {s} |-> kind], text, row[of].ref)
    /\ Untouched /\ UNCHANGED <<keychain, refreshKey>>

\* outlook_sources_add: both keys, then the row.
AddOutlook(s) ==
    /\ place = "Outlook" /\ NewId(s)
    /\ BeginEdit(TRUE, NoSource)
    /\ Insert({s}, [i \in {s} |-> "Outlook"], Base, s)
    /\ keychain' = [keychain EXCEPT ![s] = "good"]
    /\ refreshKey' = [refreshKey EXCEPT ![s] = "good"]
    /\ Untouched

\* Variant: no restart toast for a changed scan root either.
NeedsRestartNever(kind) == FALSE

\* sources_update: the toast is for local git only.
NeedsRestart(kind) == kind = "LocalGit"

\* sources_update with a config: GitLab's address is parsed again, a scan root
\* is scanned; the other kinds' config is stored as it comes.
UpdateSource(s, text, email) ==
    /\ Exists(s)
    /\ row[s].kind \in {"GitLab", "LocalGit"} => Accepts(row[s].kind, text)
    /\ row[s].kind \notin {"Jira", "Confluence"} => email
    /\ row[s].kind = "Outlook" => text = Base
    /\ BeginEdit(NeedsRestart(row[s].kind), NoSource)
    /\ row' = [row EXCEPT ![s].address = text, ![s].email = email]
    /\ told' = told \ {s}
    /\ past' = [past EXCEPT !.probed[s] = NoSource,
                            !.patched = IF row[s].kind = "LocalGit" THEN @ ELSE @ \cup {s}]
    /\ Untouched /\ UNCHANGED <<keychain, refreshKey>>

\* sources_update with a PAT.
RotatePat(s, worth) ==
    /\ Exists(s) /\ row[s].kind = "GitLab"
    /\ BeginEdit(FALSE, NoSource)
    /\ keychain' = [keychain EXCEPT ![s] = worth]
    /\ row' = [row EXCEPT ![s].ref = s]
    /\ Untouched /\ UNCHANGED <<refreshKey, told, past>>

\* github_sources_reconnect: the stored address must pass the parser again.
ReconnectGithub(s) ==
    /\ Exists(s) /\ row[s].kind = "GitHub"
    /\ row[s].ref # NoSource /\ Accepts("GitHub", row[s].address)
    /\ BeginEdit(FALSE, NoSource)
    /\ keychain' = [keychain EXCEPT ![row[s].ref] = "good"]
    /\ Untouched /\ UNCHANGED <<row, refreshKey, told, past>>

\* atlassian_sources_reconnect: not without an email on file.
ReconnectAtlassian(s) ==
    /\ Exists(s) /\ row[s].kind \in {"Jira", "Confluence"}
    /\ row[s].ref # NoSource /\ row[s].email /\ Accepts(row[s].kind, row[s].address)
    /\ BeginEdit(FALSE, NoSource)
    /\ keychain' = [keychain EXCEPT ![row[s].ref] = "good"]
    /\ Untouched /\ UNCHANGED <<row, refreshKey, told, past>>

\* sources_delete: the row; its key, if no other row uses it, comes next.
DeleteSource(s) ==
    /\ Exists(s)
    /\ BeginEdit(TRUE, IF \E t \in SourceIds \ {s} : Exists(t) /\ row[t].ref = row[s].ref
                       THEN NoSource ELSE row[s].ref)
    /\ row' = [row EXCEPT ![s] = NoSource]
    /\ told' = told \ {s}
    /\ past' = [past EXCEPT !.probed[s] = NoSource]
    /\ Untouched /\ UNCHANGED <<keychain, refreshKey>>

\* best_effort_delete_secret
DropKey ==
    /\ edit.at = "written" /\ edit.drop # NoSource
    /\ keychain' = [keychain EXCEPT ![edit.drop] = "none"]
    /\ edit' = [edit EXCEPT !.drop = NoSource]
    /\ Untouched /\ UNCHANGED <<row, refreshKey, told, edits, past>>

\* publish_restart_required_toast, and the command returns.  The toast speaks
\* for every source that waits for a start.
RestartToast ==
    /\ edit.at = "written" /\ edit.drop = NoSource
    /\ edit' = NoEdit
    /\ told' = IF edit.toast THEN told \cup {s \in SourceIds : Pending(s)} ELSE told
    /\ Untouched /\ UNCHANGED <<row, keychain, refreshKey, edits, past>>

(***************************************************************************)
(* What happens outside: a token is revoked, a keychain item is deleted    *)
(***************************************************************************)

Outside == UNCHANGED <<place, row, live, told, edit, call, edits, past>>

Revoke(k) ==
    /\ keychain[k] \in {"good", "narrow"}
    /\ keychain' = [keychain EXCEPT ![k] = "revoked"]
    /\ refreshKey' = [refreshKey EXCEPT ![k] = IF @ = "none" THEN @ ELSE "revoked"]
    /\ Outside

LoseKey(k) ==
    \/ /\ keychain[k] # "none"
       /\ keychain' = [keychain EXCEPT ![k] = "none"]
       /\ UNCHANGED refreshKey /\ Outside
    \/ /\ refreshKey[k] # "none"
       /\ refreshKey' = [refreshKey EXCEPT ![k] = "none"]
       /\ UNCHANGED keychain /\ Outside

\* The program quits or crashes and starts again: what was under way is gone,
\* the rows are repaired and the connectors made anew.
Restart ==
    /\ row' = RepairEmails(row)
    /\ live' = Snapshot(row')
    /\ told' = {} /\ edit' = NoEdit /\ call' = NoCall
    /\ past' = [past EXCEPT !.patched = {}]
    /\ UNCHANGED <<place, keychain, refreshKey, edits>>

(***************************************************************************)
(* A sync (report_generate, the scheduler) or a healthcheck                *)
(***************************************************************************)

Elsewhere == UNCHANGED <<place, row, live, told, edit, edits, past>>

\* SourceRepo::get
StartCall(s, purpose) ==
    /\ call = NoCall
    /\ Exists(s)
    /\ call' = [at |-> "auth", source |-> s, row |-> row[s], purpose |-> purpose]
    /\ Elsewhere /\ UNCHANGED <<keychain, refreshKey>>

\* The probe of an add dialog: a credential that is not stored yet, and the
\* identities made of the account it belongs to.  It touches no state, so it is
\* enough to probe before the first edit (model bound).
StartProbe(s, kind, text, worth) ==
    /\ call = NoCall /\ edits = 0
    /\ kind \in KindsOf(place) \ {"LocalGit"} /\ Accepts(kind, text)
    /\ call' = [at |-> "asked", source |-> s, row |-> Row(kind, Kept(kind, text), TRUE, NoSource),
                purpose |-> "probe", worth |-> worth]
    /\ Elsewhere /\ UNCHANGED <<keychain, refreshKey>>

FirstOf(error, next) == IF error = Done THEN next ELSE error

ProbeError(kind, answer, account) ==
    CASE kind = "GitLab"  -> ValidateGitlab(answer)
      [] kind = "GitHub"  -> FirstOf(ValidateGithub(answer), GithubIdentities(account))
      [] kind = "Outlook" -> FirstOf(ValidateOutlook(answer), OutlookIdentities(account))
      [] OTHER            -> FirstOf(DiscoverCloud(answer, account), AtlassianIdentities(account))

\* What build_source_auth holds, per kind: the worth of the key it read, or
\* the error it ends with.
GitlabAuth(r) ==
    IF r.ref = NoSource \/ keychain[r.ref] = "none"
    THEN GitlabUpstreamError.AuthInvalidToken
    ELSE Done

GithubAuth(r) ==
    IF r.ref = NoSource \/ keychain[r.ref] = "none"
    THEN GithubUpstreamError.AuthInvalidCredentials
    ELSE Done

AtlassianAuth(r) ==
    IF ~r.email \/ r.ref = NoSource \/ keychain[r.ref] = "none"
    THEN AtlassianError(r.kind).AuthInvalidCredentials
    ELSE Done

\* Both slots, under names made from the row's id.
OutlookAuth(s) ==
    IF keychain[s] = "none" \/ refreshKey[s] = "none"
    THEN OutlookUpstreamError.AuthInvalidCredentials
    ELSE Done

SourceAuth(s, r) ==
    CASE r.kind = "GitLab"                  -> GitlabAuth(r)
      [] r.kind = "GitHub"                  -> GithubAuth(r)
      [] r.kind \in {"Jira", "Confluence"} -> AtlassianAuth(r)
      [] r.kind = "Outlook"                 -> OutlookAuth(s)
      [] OTHER                              -> Done

EndCall(worth, answer, error) ==
    call' = [at |-> "ended", source |-> call.source, row |-> call.row,
             purpose |-> call.purpose, worth |-> worth, answer |-> answer, error |-> error]

\* An auth that cannot be built fails the command of a sync and is the health
\* of a healthcheck.
BuildAuth ==
    /\ call.at = "auth"
    /\ LET error == SourceAuth(call.source, call.row) IN
       IF error = Done
       THEN call' = [at |-> "dispatch", source |-> call.source, row |-> call.row,
                     purpose |-> call.purpose,
                     worth |-> CASE call.row.kind = "LocalGit" -> "good"
                                 [] call.row.kind = "Outlook"  -> refreshKey[call.source]
                                 [] OTHER                      -> keychain[call.row.ref]]
       ELSE EndCall("none", "none", error)
    /\ Elsewhere /\ UNCHANGED <<keychain, refreshKey>>

\* The Mux of the kind has no connector for the id: it was not there, or not
\* parseable, at the start.  Local git has one connector for all its sources.
GitlabDispatch(s) == live[s] # NoSource
JiraDispatch(s) == live[s] # NoSource
ConfluenceDispatch(s) == live[s] # NoSource
GithubDispatch(s) == live[s] # NoSource
OutlookDispatch(s) == live[s] # NoSource

Registers(kind, s) ==
    CASE kind = "GitLab"     -> GitlabDispatch(s)
      [] kind = "Jira"       -> JiraDispatch(s)
      [] kind = "Confluence" -> ConfluenceDispatch(s)
      [] kind = "GitHub"     -> GithubDispatch(s)
      [] kind = "Outlook"    -> OutlookDispatch(s)
      [] OTHER               -> TRUE

Dispatch ==
    /\ call.at = "dispatch"
    /\ IF Registers(call.row.kind, call.source)
       THEN call' = [call EXCEPT !.at = IF call.row.kind = "Outlook" THEN "token" ELSE "asked"]
       ELSE EndCall(call.worth, "none", Error("InvalidConfig", "ipc.source.not_found"))
    /\ Elsewhere /\ UNCHANGED <<keychain, refreshKey>>

\* OAuthAuth::authenticate: build_source_auth made the token look expired, so
\* it is refreshed first.  An outage of the token endpoint counts as a refusal.
RefreshFirst ==
    /\ call.at = "token"
    /\ \/ /\ call.worth = "good"
          /\ keychain' = [keychain EXCEPT ![call.source] = "good"]
          /\ refreshKey' = [refreshKey EXCEPT ![call.source] = "good"]
          /\ call' = [call EXCEPT !.at = "asked"]
       \/ /\ \/ /\ call.worth = "revoked"
                /\ EndCall(call.worth, "unauthorized",
                           Error("Auth", "oauth.refresh_rejected"))
             \/ EndCall(call.worth, "unavailable", Error("Auth", "oauth.refresh_rejected"))
             \/ EndCall(call.worth, "connect", Error("Network", "http.transport"))
          /\ UNCHANGED <<keychain, refreshKey>>
    /\ Elsewhere

\* What the service may say to a credential.  A connector made from other row
\* content than the call's may send it to the wrong server.
Outage == {"throttled", "unavailable", "odd"} \cup Broken

Misdirected == call.purpose # "probe" /\ live[call.source] # Registered(call.row)

Replies(worth) ==
    CASE worth = "good"    -> Answers \ {"unauthorized", "forbidden"}
      [] worth = "narrow"  -> Outage \cup {"forbidden", "missing"}
      [] worth = "revoked" -> Outage \cup {"unauthorized"}

\* discover_repos: the folders of every local git source are scanned, and one
\* that is gone ends it.
LocalGitWalk(answer) ==
    IF answer = "missing" THEN Error("Io", "local_git.repo_not_found") ELSE Done

WalkError(kind, answer) ==
    CASE kind = "GitLab"     -> GitlabWalk(answer)
      [] kind = "Jira"       -> JiraWalk(answer)
      [] kind = "Confluence" -> ConfluenceWalk(answer)
      [] kind = "GitHub"     -> GithubWalk(answer)
      [] kind = "Outlook"    -> OutlookWalk(answer)
      [] OTHER               -> LocalGitWalk(answer)

HealthError(kind, answer) ==
    CASE kind = "GitLab"     -> GitlabHealth(answer)
      [] kind = "Jira"       -> JiraHealth(answer)
      [] kind = "Confluence" -> ConfluenceHealth(answer)
      [] kind = "GitHub"     -> GithubHealth(answer)
      [] kind = "Outlook"    -> OutlookHealth(answer)
      [] OTHER               -> LocalGitWalk(answer)

Answered(answer) ==
    /\ call.at = "asked"
    /\ \/ call.row.kind = "LocalGit" /\ answer \in {"ok", "missing"}
       \/ call.row.kind # "LocalGit" /\ answer \in Replies(call.worth)
       \/ call.row.kind # "LocalGit" /\ Misdirected
    /\ \/ call.purpose = "sync" /\ EndCall(call.worth, answer, WalkError(call.row.kind, answer))
       \/ call.purpose = "healthcheck" /\ EndCall(call.worth, answer, HealthError(call.row.kind, answer))
       \/ /\ call.purpose = "probe"
          /\ \E account \in Accounts :
               EndCall(call.worth, answer, ProbeError(call.row.kind, answer, account))
    /\ Elsewhere /\ UNCHANGED <<keychain, refreshKey>>

\* A behaviour ends with its first call that ends: what comes after one does not
\* depend on it (model bound).
RegistryNext ==
    /\ call.at # "ended"
    /\ \/ \E s \in SourceIds, text \in Texts[place], worth \in {"good", "narrow"} :
            AddSource(s, text, worth) \/ AddGithub(s, text, worth)
       \/ \E new \in SUBSET SourceIds, kinds \in [SourceIds -> {"Jira", "Confluence"}],
             text \in Texts[place], worth \in {"good", "narrow"} : AddAtlassian(new, kinds, text, worth)
       \/ \E s, of \in SourceIds, kind \in {"Jira", "Confluence"}, text \in Texts[place] :
            ReuseAtlassian(s, kind, text, of)
       \/ \E s \in SourceIds, text \in Texts[place], email \in BOOLEAN : UpdateSource(s, text, email)
       \/ \E s \in SourceIds, worth \in {"good", "narrow"} : RotatePat(s, worth)
       \/ \E s \in SourceIds : AddOutlook(s) \/ ReconnectGithub(s) \/ ReconnectAtlassian(s)
                                \/ DeleteSource(s) \/ Revoke(s) \/ LoseKey(s)
       \/ DropKey \/ RestartToast \/ Restart
       \/ \E s \in SourceIds, purpose \in {"sync", "healthcheck"} : StartCall(s, purpose)
       \/ \E kind \in KindsOf(place), text \in Texts[place], worth \in Worths \ {"none"} :
            StartProbe(CHOOSE s \in SourceIds : TRUE, kind, text, worth)
       \/ BuildAuth \/ Dispatch \/ RefreshFirst
       \/ \E answer \in Answers : Answered(answer)

RegistrySpec == RegistryInit /\ [][RegistryNext]_registryVars

(***************************************************************************)
(* Properties                                                              *)
(***************************************************************************)

\* A change the connectors have not seen is announced by the end of the command
\* that made it (commands.rs:1111, :1285-1311): a source that was added, removed,
\* or pointed at another scan root since the start is one a restart toast spoke
\* for.  (A patched URL is not: see EditReachesTheNextReport.)
PendingChangeIsAnnounced ==
    \A s \in SourceIds :
        Pending(s) /\ s \notin past.patched => s \in told \/ edit.at = "written"

\* The errors whose card or copy offers to reconnect.
ReconnectErrors ==
    {GitlabUpstreamError.AuthInvalidToken, GitlabUpstreamError.AuthMissingScope,
     GithubUpstreamError.AuthInvalidCredentials, GithubUpstreamError.AuthMissingScope,
     AtlassianError("Jira").AuthInvalidCredentials, AtlassianError("Jira").AuthMissingScope,
     OutlookUpstreamError.AuthInvalidCredentials, OutlookUpstreamError.AuthMissingScope,
     Error("Auth", "oauth.refresh_rejected")}

\* A sync or a probe the service turned away, or a sync that found no key, ends
\* with an error that asks to reconnect, whichever connector it went through;
\* and one asks for that only with a credential that is not good, without an
\* email on file, at another address than the row's, or when the token endpoint
\* is down.
RejectedCredentialAsksToReconnect ==
    call.at = "ended" /\ call.purpose # "healthcheck" =>
        /\ call.answer \in {"unauthorized", "forbidden"} \/ call.worth = "none"
              => call.error \in ReconnectErrors
        /\ call.error.variant = "Auth"
              => \/ call.worth # "good" \/ Misdirected
                 \/ call.row.kind = "Outlook" /\ call.answer = "unavailable"

\* error_codes.rs:1-8: the frontend tells the kinds apart by the code.  Whatever
\* fails, the error is of the source's own family, of the HTTP client, or of
\* the dispatch.  (The dialog that adds Atlassian products asks Jira for both.)
FailureNamesItsProduct ==
    call.at = "ended" /\ call.error # Done =>
        call.error.code \in IpcSourceCodes \cup
            FamilyCodes(IF call.purpose = "probe" /\ call.row.kind = "Confluence"
                        THEN "Jira" ELSE call.row.kind)

\* A source an add dialog accepted comes up at the next start, and its connector
\* asks the address the dialog's probe got its answer from: the parser, the form
\* the row keeps, and from_raw agree on where the API is.
AddedAddressIsFetched ==
    \A s \in SourceIds :
        Exists(s) /\ past.probed[s] # NoSource =>
            /\ Registered(row[s]) # NoSource
            /\ live[s] # NoSource => HealthPath(row[s].kind, live[s]) = past.probed[s]

\* What a connector fetches with is what its row says, as far as the user has been
\* told: commands.rs:1285-1311, startup.rs:230-420.
ConnectorFollowsRow == PendingChangeIsAnnounced /\ AddedAddressIsFetched

\* The card of a failed sync or probe sends the user to the right product and the
\* right remedy (error_codes.rs:1-8, SourceErrorCard.tsx).
FailureTellsTheTruth == RejectedCredentialAsksToReconnect /\ FailureNamesItsProduct

\* commands.rs:1277-1284: a GitLab or Atlassian edit "lands on the next
\* `report_generate`": its config is what the connector has, or a restart was
\* asked for.
EditReachesTheNextReport ==
    edit.at = "idle" => \A s \in SourceIds : Pending(s) => s \in told

=============================================================================
