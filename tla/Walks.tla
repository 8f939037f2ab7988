-------------------------------- MODULE Walks --------------------------------
(***************************************************************************)
(* The day walk of each connector: sync() asks for one local day, reads    *)
(* the upstream page after page (or the repositories one after the other), *)
(* keeps what the user did and returns the events, or one error and no     *)
(* event.  The upstream changes while it is read.                          *)
(***************************************************************************)
EXTENDS ForgeEvents, OfficeEvents, LocalGitEvents

CONSTANTS
    Feeds,      \* upstreams: [prov, feed, hits, known] records
    Arrivals,   \* rows that may appear on top of a GitLab or GitHub feed
    PageSize,
    MaxPages    \* MAX_PAGES: 20, 30 or 50 in the code

ASSUME WalksAssumption ==
    PageSize \in Nat \ {0} /\ MaxPages \in Nat \ {0} /\ MaxRoots \in Nat \ {0}

VARIABLES
    prov,       \* the connector whose sync runs
    feed,       \* its upstream's rows, in the order it serves them
    hits,       \* GitHub: what the issue search finds
    ident,      \* the connector knows whose work it looks for
    pos,        \* rows of the current listing already served
    page,       \* pages of it already read
    phase,      \* GitHub reads "events" and then "search"; the others "rows"
    memo,       \* GitLab: project -> path found; GitHub: event rows seen
    out,        \* the events kept
    status,     \* "walking", "ok", "failed" or "cancelled"
    hist        \* history: silently capped, rows arrived, repositories skipped

walkVars == <<prov, feed, hits, ident, pos, page, phase, memo, out, status, hist>>

upstream == <<prov, hits, ident>>

S == "source"

(***************************************************************************)
(* Who the user is: identity rows [kind, source], source None for every    *)
(* source of the person                                                    *)
(***************************************************************************)

ListForSource(rows) == {r \in rows : r.source \in {S, None}}

Names(rows, kind) == \E r \in rows : r.kind = kind /\ r.source \in {S, None}

\* identity_user_ids, self_identity, self_account_id, self_actor: what each
\* connector must find to know whose work it looks for.
GitlabKnows(rows)     == Names(rows, "GitLabUserId")
GithubKnows(rows)     == Names(rows, "GitHubUserId") /\ Names(rows, "GitHubLogin")
JiraKnows(rows)       == Names(rows, "AtlassianAccountId")
ConfluenceKnows(rows) == Names(rows, "AtlassianAccountId")
LocalGitKnows(rows)   == Names(rows, "GitEmail")

\* A row of any source will do: the rows were listed for this one.
OutlookKnows(rows) ==
    \E r \in rows : r.kind \in {"OutlookUserObjectId", "OutlookUserPrincipalName"}

\* sync() for one day.  A connector that needs an identity row and finds none
\* walks nothing and reports success; GitLab asks for a user id by
\* configuration and, with no row, filters by nobody.
GitlabSync(rows) ==
    [ident |-> GitlabKnows(rows), status |-> "walking", phase |-> "rows",
     memo |-> [p \in {} |-> TRUE]]

StatusFor(known) == IF known THEN "walking" ELSE "ok"

GithubSync(rows) ==
    [ident |-> GithubKnows(rows), status |-> StatusFor(GithubKnows(rows)),
     phase |-> "events", memo |-> {}]

JiraSync(rows) ==
    [ident |-> JiraKnows(rows), status |-> StatusFor(JiraKnows(rows)),
     phase |-> "rows", memo |-> {}]

ConfluenceSync(rows) ==
    [ident |-> ConfluenceKnows(rows), status |-> StatusFor(ConfluenceKnows(rows)),
     phase |-> "rows", memo |-> {}]

OutlookSync(rows) ==
    [ident |-> OutlookKnows(rows), status |-> StatusFor(OutlookKnows(rows)),
     phase |-> "rows", memo |-> {}]

LocalGitSync(rows) ==
    [ident |-> LocalGitKnows(rows), status |-> "walking", phase |-> "rows", memo |-> {}]

WalkStart(f) ==
    LET rows  == ListForSource(f.known)
        start == CASE f.prov = "gitlab"     -> GitlabSync(rows)
                   [] f.prov = "github"     -> GithubSync(rows)
                   [] f.prov = "jira"       -> JiraSync(rows)
                   [] f.prov = "confluence" -> ConfluenceSync(rows)
                   [] f.prov = "outlook"    -> OutlookSync(rows)
                   [] f.prov = "localgit"   -> LocalGitSync(rows)
    IN /\ prov = f.prov /\ feed = f.feed /\ hits = f.hits
       /\ ident = start.ident /\ status = start.status
       /\ phase = start.phase /\ memo = start.memo
       /\ pos = 0 /\ page = 0 /\ out = <<>>
       /\ hist = [capped |-> FALSE, arrived |-> 0, skipped |-> {}]

Walking(p) == status = "walking" /\ prov = p

\* for page in 0..MAX_PAGES: may the loop read page n?
MorePages(n) == n < MaxPages

PageOf(rows) == SubSeq(rows, pos + 1, IF pos + PageSize < Len(rows) THEN pos + PageSize ELSE Len(rows))

\* Does the answer name a next page?  It does while rows are left, and it may
\* when none is.
NextLinks(rows) == IF pos + PageSize < Len(rows) THEN {TRUE} ELSE {TRUE, FALSE}

\* The page counter wraps above the cap, so that a loop without one is finite.
Turn(events) ==
    /\ out' = events
    /\ pos' = IF pos < Len(feed) + Len(hits) THEN pos + PageSize ELSE pos
    /\ page' = (page + 1) % (MaxPages + 2)
    /\ UNCHANGED <<phase, status, hist>>

Finish(events) ==
    /\ out' = ByTime(events)
    /\ status' = "ok"
    /\ UNCHANGED <<pos, page, phase, hist>>

\* A walk that stops at the cap and says nothing about it.
FinishCapped(events) ==
    /\ out' = ByTime(events)
    /\ status' = "ok" /\ hist' = [hist EXCEPT !.capped = TRUE]
    /\ UNCHANGED <<pos, page, phase>>

\* A walk that fails drops what it has: sync returns Err.
Abort(why) ==
    /\ out' = <<>>
    /\ status' = why
    /\ UNCHANGED <<pos, page, phase, hist>>

LastAllowed == ~MorePages(page + 1)

(***************************************************************************)
(* GitLab                                                                  *)
(***************************************************************************)

\* identity_user_ids: an empty list is no filter.
GitlabMine(row) == ~ident \/ row.who = Me

\* Each project of a row that may be kept is looked up once per walk.
NewProjects(rows) ==
    {rows[i].project : i \in {j \in DOMAIN rows : GitlabMine(rows[j])}}
        \ (DOMAIN memo \cup {None})

\* fetch_project_path: a lookup that fails otherwise than by 401, 403 or a
\* cancel (RequestFails, Cancelled) is remembered as no path.
ProjectPaths(rows) == [NewProjects(rows) -> BOOLEAN]

GitlabRows(rows, paths) ==
    Flat([i \in DOMAIN rows |->
            IF GitlabMine(rows[i]) /\ InGitlabDay(rows[i].at)
            THEN NormaliseGitlab(S, rows[i], paths) ELSE <<>>])

\* One of the user's rows is older than the day: the rest are older still.
ReachedFloor(rows) == \E i \in DOMAIN rows : GitlabMine(rows[i]) /\ rows[i].at < 0

GitlabPage ==
    /\ Walking("gitlab") /\ MorePages(page)
    /\ LET rows == PageOf(feed)
       IN \E found \in ProjectPaths(rows) :
            LET kept == out \o GitlabRows(rows, memo @@ found)
            IN /\ memo' = memo @@ found
               /\ \/ (ReachedFloor(rows) \/ Len(rows) < PageSize) /\ Finish(kept)
                  \/ ~ReachedFloor(rows) /\ Len(rows) = PageSize
                       /\ IF LastAllowed THEN FinishCapped(kept) ELSE Turn(kept)
    /\ UNCHANGED <<upstream, feed>>

(***************************************************************************)
(* GitHub                                                                  *)
(***************************************************************************)

\* Variant: the upper bound of the day is not looked at.
GithubKeepsLate(row) == row.who = Me /\ row.at >= 0 /\ row.n \notin memo

GithubKeeps(row) == row.who = Me /\ InDay(row.at) /\ row.n \notin memo

GithubRows(rows) ==
    Flat([i \in DOMAIN rows |->
            IF GithubKeeps(rows[i]) THEN NormaliseGithub(S, rows[i]) ELSE <<>>])

GithubFloor(rows) == \E i \in DOMAIN rows : rows[i].who = Me /\ rows[i].at < 0

\* walk_user_events hands over to walk_search_issues.
StartSearch(events) ==
    /\ out' = events /\ phase' = "search" /\ pos' = 0 /\ page' = 0
    /\ UNCHANGED <<status, hist>>

GithubEventsPage ==
    /\ Walking("github") /\ phase = "events" /\ MorePages(page)
    /\ LET rows == PageOf(feed)
           kept == out \o GithubRows(rows)
       IN /\ memo' = memo \cup {rows[i].n : i \in {j \in DOMAIN rows : GithubKeeps(rows[j])}}
          /\ \/ (rows = <<>> \/ GithubFloor(rows)) /\ StartSearch(kept)
             \/ /\ rows # <<>> /\ ~GithubFloor(rows)
                /\ \E next \in NextLinks(feed) :
                     CASE ~next               -> StartSearch(kept)
                       [] next /\ LastAllowed  -> Abort("failed")
                       [] next /\ ~LastAllowed -> Turn(kept)
    /\ UNCHANGED <<upstream, feed>>

KeyOf(e) == <<e.kind, e.ext>>

Keys(events) == {KeyOf(events[i]) : i \in DOMAIN events}

\* A search hit adds only what the event feed, or an earlier hit, did not have.
Unseen(found) ==
    LET fresh == SelectSeq([i \in DOMAIN found |-> i],
                           LAMBDA i : KeyOf(found[i]) \notin Keys(out) \cup Keys(SubSeq(found, 1, i - 1)))
    IN [k \in DOMAIN fresh |-> found[fresh[k]]]

SearchHits(rows) ==
    out \o Unseen(Flat([i \in DOMAIN rows |->
                          IF rows[i].who = Me THEN SearchEvents(S, rows[i]) ELSE <<>>]))

GithubSearchPage ==
    /\ Walking("github") /\ phase = "search" /\ MorePages(page)
    /\ LET rows == PageOf(hits)
       IN \E kept \in {SearchHits(rows)} :
          \/ rows = <<>> /\ Finish(Once(kept, CollapseRapidReviews))
          \/ /\ rows # <<>>
             /\ \E next \in NextLinks(hits) :
                  CASE ~next               -> Finish(Once(kept, CollapseRapidReviews))
                    [] next /\ LastAllowed  -> Abort("failed")
                    [] next /\ ~LastAllowed -> Turn(kept)
    /\ UNCHANGED <<upstream, feed, memo>>

(***************************************************************************)
(* Jira, Confluence and Outlook                                            *)
(***************************************************************************)

\* JqlTokenPaginator: a page that says it is the last, or has no token, is; an
\* empty page with a token is not.
JqlNext(answer) == ~answer.isLast /\ answer.token

\* Both signals are seen while rows are left and when none is.
JqlAnswers(rows) ==
    {a \in [isLast : BOOLEAN, token : BOOLEAN] : pos + PageSize < Len(rows) => JqlNext(a)}

JiraPage ==
    /\ Walking("jira") /\ MorePages(page)
    /\ LET rows == PageOf(feed)
           kept == out \o Flat([i \in DOMAIN rows |-> NormaliseJira(S, rows[i])])
       IN \/ \E i \in DOMAIN rows : ~IssueShaped(rows[i]) /\ Abort("failed")
          \/ /\ \A i \in DOMAIN rows : IssueShaped(rows[i])
             /\ \E answer \in JqlAnswers(feed) :
                  CASE ~JqlNext(answer)               -> Finish(kept)
                    [] JqlNext(answer) /\ LastAllowed  -> FinishCapped(kept)
                    [] JqlNext(answer) /\ ~LastAllowed -> Turn(kept)
    /\ UNCHANGED <<upstream, feed, memo>>

ConfluencePage ==
    /\ Walking("confluence") /\ MorePages(page)
    /\ LET rows == PageOf(feed)
           kept == out \o Flat([i \in DOMAIN rows |-> NormaliseConfluence(S, rows[i])])
       IN \/ \E i \in DOMAIN rows : ~HitShaped(rows[i]) /\ Abort("failed")
          \/ /\ \A i \in DOMAIN rows : HitShaped(rows[i])
             /\ \E next \in NextLinks(feed) :
                  CASE ~next               -> Finish(CollapseEdits(kept))
                    [] next /\ LastAllowed  -> FinishCapped(CollapseEdits(kept))
                    [] next /\ ~LastAllowed -> Turn(kept)
    /\ UNCHANGED <<upstream, feed, memo>>

Meetings(rows) ==
    Flat([i \in DOMAIN rows |->
            IF KeepsMeeting(rows[i]) THEN NormaliseOutlook(S, rows[i]) ELSE <<>>])

OutlookPage ==
    /\ Walking("outlook") /\ MorePages(page)
    /\ LET rows == PageOf(feed)
           kept == out \o Meetings(rows)
       IN \E next \in NextLinks(feed) :
            CASE ~next               -> Finish(kept)
              [] next /\ LastAllowed  -> Abort("failed")
              [] next /\ ~LastAllowed -> Turn(kept)
    /\ UNCHANGED <<upstream, feed, memo>>

(***************************************************************************)
(* Local git: feed[1] is [tree, roots, commits, private]                   *)
(***************************************************************************)

Found == Discover(feed[1].tree, feed[1].roots)

\* A repository that cannot be opened or walked is logged and skipped.
LocalRepo ==
    /\ Walking("localgit") /\ ~Found.error /\ pos < Len(Found.repos)
    /\ LET repo    == Found.repos[pos + 1]
           commits == IF ident THEN feed[1].commits[repo] ELSE {}
       IN \/ /\ out' = out \o WalkRepo(S, repo, commits, repo \in feed[1].private)
             /\ UNCHANGED hist
          \/ /\ hist' = [hist EXCEPT !.skipped = @ \cup {repo}]
             /\ UNCHANGED out
    /\ pos' = pos + 1
    /\ UNCHANGED <<upstream, feed, page, phase, memo, status>>

LocalEnd ==
    /\ Walking("localgit")
    /\ \/ Found.error /\ Abort("failed")
       \/ ~Found.error /\ pos = Len(Found.repos)
            /\ IF Found.truncated THEN FinishCapped(out) ELSE Finish(out)
    /\ UNCHANGED <<upstream, feed, memo>>

(***************************************************************************)
(* What may happen around any page                                         *)
(***************************************************************************)

\* The request fails, its answer is an error status or does not decode, or one
\* of GitLab's project lookups is refused.
RequestFails ==
    /\ status = "walking" /\ prov # "localgit"
    /\ Abort("failed")
    /\ UNCHANGED <<upstream, feed, memo>>

Cancelled ==
    /\ status = "walking"
    /\ Abort("cancelled")
    /\ UNCHANGED <<upstream, feed, memo>>

\* Something new happens upstream while the walk runs: it shows on top, and the
\* next page of a listing that is paged by number starts one row earlier in
\* what was there before.
RowArrives ==
    /\ status = "walking" /\ prov \in {"gitlab", "github"} /\ phase # "search"
    /\ hist.arrived = 0 /\ feed # <<>>
    /\ \E row \in Arrivals[prov] : row.at >= feed[1].at /\ feed' = <<row>> \o feed
    /\ hist' = [hist EXCEPT !.arrived = 1]
    /\ UNCHANGED <<upstream, pos, page, phase, memo, out, status>>

WalkStep ==
    \/ GitlabPage
    \/ GithubEventsPage \/ GithubSearchPage
    \/ JiraPage \/ ConfluencePage \/ OutlookPage
    \/ LocalRepo \/ LocalEnd

WalkNext == WalkStep \/ RequestFails \/ Cancelled \/ RowArrives

(***************************************************************************)
(* Properties                                                              *)
(***************************************************************************)

Kept == ToSet(out)

CountOf(kind, thread) ==
    MapThenSumSet(LAMBDA i : out[i].count,
                  {i \in DOMAIN out : out[i].kind = kind /\ out[i].item = thread})

\* A row that was upstream when the walk began.
Standing(row) == row.n # 0

GitlabComplete ==
    \A row \in ToSet(feed) :
        (Standing(row) /\ row.who = Me /\ InGitlabDay(row.at) /\ GitlabKind(row) # None) =>
            \E e \in Kept : /\ e.kind = GitlabKind(row) /\ e.at = row.at
                            /\ e.ext = GitlabExternalId(row, e.kind)

GithubComplete ==
    /\ \A row \in ToSet(feed) :
        LET kind == PayloadKind(row)
            like == {r \in ToSet(feed) : /\ Standing(r) /\ r.who = Me /\ InDay(r.at)
                                         /\ PayloadKind(r) = kind
                                         /\ GithubThread(r) = GithubThread(row)}
        IN (row \in like /\ kind # None) =>
             /\ CountOf(kind, GithubThread(row)) >= Cardinality(like)
             /\ \E e \in Kept : /\ KeyOf(e) = <<kind, GithubThread(row)>>
                                /\ e.at \in row.at .. Midnight
    /\ \A hit \in ToSet(hits) : \A at \in {hit.created, hit.closed} :
        (hit.who = Me /\ hit.repo # None /\ at # None /\ InDay(at)) =>
             \E e \in Kept : e.item = GithubThread(hit)

\* A comment's text has every word of its document that can be shown, and no
\* account id that is not also such a word.
Says(text, doc) ==
    /\ WordsOf(doc) \subseteq ToSet(text)
    /\ ToSet(text) \cap IdsOf(doc) \subseteq WordsOf(doc)

JiraComplete ==
    \A issue \in ToSet(feed) :
        LET mine(field) == {i \in DOMAIN issue.history :
                              issue.history[i].field = field /\ Mine(issue.history[i])}
        IN /\ CountOf("JiraIssueTransitioned", issue.key) = Cardinality(mine("status"))
           /\ \A i \in mine("assignee") :
                Me \in {issue.history[i].from, issue.history[i].to} =>
                  \E e \in Kept : e.item = issue.key /\ e.at = issue.history[i].at
                                  /\ e.kind \in {"JiraIssueAssigned", "JiraIssueUnassigned"}
           /\ \A c \in ToSet(issue.comments) :
                Mine(c) => \E e \in Kept : /\ e.ext = <<"comment", issue.key, c.id>>
                                           /\ Says(e.words, c.body)
           /\ issue.reporter = Me /\ InDay(issue.created) =>
                \E e \in Kept : e.kind = "JiraIssueCreated" /\ e.item = issue.key

ConfluenceComplete ==
    \A hit \in ToSet(feed) :
        /\ (hit.type = "comment" /\ hit.creator = Me /\ InDay(hit.created)) =>
             \E e \in Kept :
                /\ e.kind = "ConfluenceComment" /\ e.ext = <<"comment", hit.id, 0>>
                /\ e.item = None => hit.container = None /\ ToSet(hit.ancestors) \subseteq {None}
                /\ hit.body # None => Says(e.words, hit.body)
        /\ (hit.type = "page" /\ hit.version > 1 /\ hit.editor = Me /\ InDay(hit.edited)) =>
             \E e \in Kept : IsEditOf(e, hit.id) /\ e.at \in hit.edited .. hit.edited + FiveMinutes
        /\ (hit.type = "page" /\ hit.version = 1 /\ hit.creator = Me /\ InDay(hit.created)) =>
             \E e \in Kept : e.kind = "ConfluencePageCreated" /\ e.item = hit.id

OutlookComplete ==
    \A row \in ToSet(feed) : KeepsMeeting(row) /\ StartReads(row) => \E e \in Kept : e.item = row.n

\* What a scan ought to find, said without a queue: a repository under a root
\* with only plain, readable directories above it.
Reachable(f, dir) ==
    /\ f.tree[dir] = "git"
    /\ \E i \in DOMAIN f.roots :
        LET root == f.roots[i]
        IN /\ IsPrefix(root, dir) /\ Len(dir) - Len(root) <= MaxDepth
           /\ \A n \in Len(root) .. Len(dir) - 1 : f.tree[SubSeq(dir, 1, n)] = "plain"

LocalComplete ==
    \A dir \in DOMAIN feed[1].tree :
        (Reachable(feed[1], dir) /\ dir \notin hist.skipped) =>
            \A c \in feed[1].commits[dir] :
                (Me \in {c.author, c.committer} /\ InDay(c.at)
                    /\ ~(c.on \subseteq {"remote", "tag"})) =>
                    \E e \in Kept : /\ e.ext = <<"sha", c.sha>>
                                    /\ \/ e.private /\ dir \in feed[1].private
                                       \/ e.repo = dir /\ dir \notin feed[1].private

\* A walk that succeeds below its page cap has everything the user did on the
\* day, whatever appears upstream meanwhile: the early exit at the window floor
\* (gitlab/walk.rs:219, github/walk.rs:306), the next-page rules and the two
\* GitHub listings lose nothing.  GitLab's day ends at 23:59:59.0.  And nobody
\* else's work and nothing of another day is ever kept, not even on the way: each
\* normaliser applies identity and window to the right field
\* (jira/normalise.rs:148, confluence/normalise.rs:197, local-git/walk.rs:140).  A
\* meeting may begin before the day it overlaps.
WalkIsExact ==
    /\ (status = "ok" /\ ~hist.capped /\ (ident \/ prov = "gitlab")) =>
        CASE prov = "gitlab"     -> GitlabComplete
          [] prov = "github"     -> GithubComplete
          [] prov = "jira"       -> JiraComplete
          [] prov = "confluence" -> ConfluenceComplete
          [] prov = "outlook"    -> OutlookComplete
          [] prov = "localgit"   -> LocalComplete
    /\ \A e \in Kept :
        /\ e.who = Me
        /\ InDay(e.at) \/ (prov = "outlook" /\ e.at < Midnight)

=============================================================================
