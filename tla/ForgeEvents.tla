---------------------------- MODULE ForgeEvents -----------------------------
(***************************************************************************)
(* The events of GitLab and GitHub: what one row of either's activity feed *)
(* becomes.                                                                *)
(***************************************************************************)
EXTENDS Activity, TLC

(***************************************************************************)
(* connector-gitlab/src/normalise.rs: one row of /users/:id/events becomes *)
(* one event or none.  A row is a record                                   *)
(*   [n, action, target, who, at, project, iid, tid, sha, note]            *)
(* in which project, iid, tid (target_id) and sha may be None, note says   *)
(* whether the row carries a note with a body.                             *)
(***************************************************************************)

LOCAL Notes == {"Note", "DiffNote", "DiscussionNote"}

\* GitlabAction::parse folds the verbs of several GitLab versions together.
ParseAction(verb) ==
    CASE verb \in {"pushed to", "pushed new", "pushed"} -> "Pushed"
      [] verb \in {"opened", "created"}                 -> "Opened"
      [] verb = "closed"                                -> "Closed"
      [] verb \in {"merged", "accepted"}                -> "Merged"
      [] verb = "approved"                              -> "Approved"
      [] verb \in {"commented on", "commented"}         -> "Commented"
      [] OTHER                                          -> "Other"

\* The kind an (action, target) pair stands for; None drops the row.
GitlabKind(row) ==
    LET a == ParseAction(row.action)
        t == row.target
    IN CASE a = "Pushed"                              -> "CommitAuthored"
         [] a = "Opened" /\ t = "MergeRequest"        -> "MrOpened"
         [] a = "Merged" /\ t = "MergeRequest"        -> "MrMerged"
         [] a = "Closed" /\ t = "MergeRequest"        -> "MrClosed"
         [] a = "Approved" /\ t = "MergeRequest"      -> "MrApproved"
         [] a = "Opened" /\ t = "Issue"               -> "IssueOpened"
         [] a = "Closed" /\ t = "Issue"               -> "IssueClosed"
         [] a = "Commented" /\ t \in Notes            -> "MrReviewComment"
         [] a = "Commented" /\ t = "Issue"            -> "IssueComment"
         [] OTHER                                     -> None

GitlabMrKinds == {"MrOpened", "MrMerged", "MrClosed", "MrApproved"}

\* The merge request number stands alone, without its project.
GitlabExternalId(row, kind) ==
    LET own(tag, x) == IF x = None THEN <<"event", row.n>> ELSE <<tag, x>>
    IN CASE kind = "CommitAuthored"                        -> own("sha", row.sha)
         [] kind \in GitlabMrKinds                         -> own("!", row.iid)
         [] kind \in {"IssueOpened", "IssueClosed"}        -> own("#", row.iid)
         [] kind \in {"MrReviewComment", "IssueComment"}   -> own("note", row.tid)

\* Titles are wording; the body, which dedup weighs, is the note's.
GitlabBody(row) == IF row.note THEN 1 ELSE 0

\* API links of the object, one per row at most.
GitlabLinks(row, kind) ==
    CASE kind = "CommitAuthored" -> IF row.sha = None THEN {}
                                    ELSE {<<row.project, "commit", row.sha>>}
      [] row.iid = None          -> {}
      [] kind \in {"IssueOpened", "IssueClosed", "IssueComment"}
                                 -> {<<row.project, "issue", row.iid>>}
      [] OTHER                   -> {<<row.project, "mr", row.iid>>}

\* compose_entities: the repo entity is the project's path where the lookup
\* found one and the "project-N" placeholder where it did not.
GitlabRepo(row, paths) ==
    IF row.project = None THEN None
    ELSE IF row.project \in DOMAIN paths /\ paths[row.project]
         THEN <<"path", row.project>> ELSE <<"project", row.project>>

GitlabParent(row, kind) ==
    IF row.iid = None THEN None
    ELSE CASE kind = "MrReviewComment" -> <<"!", row.iid>>
           [] kind = "IssueComment"    -> <<"#", row.iid>>
           [] OTHER                    -> None

\* normalise_event: <<event>>, or <<>> for a row of no reported kind.
NormaliseGitlab(src, row, paths) ==
    LET kind == GitlabKind(row)
        bare == Event(src, GitlabExternalId(row, kind), kind, row.at, row.who)
    IN IF kind = None THEN <<>>
       ELSE << [bare EXCEPT !.body   = GitlabBody(row),
                            !.links  = GitlabLinks(row, kind),
                            !.repo   = GitlabRepo(row, paths),
                            !.parent = GitlabParent(row, kind)] >>

(***************************************************************************)
(* connector-github: rows of /users/:login/events and hits of              *)
(* /search/issues become events.  An event row is a record                 *)
(*   [n, type, action, repo, num, who, at, merged, isPr, assignee, lacks]  *)
(* in which lacks are the parts of its payload that are not there or not   *)
(* of the shape the code knows,                                            *)
(* and a search hit                                                        *)
(*   [n, repo, num, who, created, closed, isPr]                            *)
(* whose repo, who and closed may be None.                                 *)
(***************************************************************************)

PrKinds == {"GitHubPullRequestOpened", "GitHubPullRequestMerged",
            "GitHubPullRequestClosed", "GitHubPullRequestReviewed",
            "GitHubPullRequestCommented"}

\* Every event of a pull request or an issue has the external id "repo#num"
\* and is its own parent.
GithubThread(row) == <<"#", row.repo, row.num>>

ComposePr(src, row, kind) ==
    [Event(src, GithubThread(row), kind, row.at, row.who)
        EXCEPT !.links  = {<<row.repo, "pull", row.num>>},
               !.repo   = row.repo,
               !.item   = GithubThread(row),
               !.parent = GithubThread(row)]

ComposeIssue(src, row, kind) ==
    [Event(src, GithubThread(row), kind, row.at, row.who)
        EXCEPT !.links  = {<<row.repo, IF row.isPr THEN "pull" ELSE "issue", row.num>>},
               !.repo   = row.repo,
               !.item   = GithubThread(row),
               !.parent = GithubThread(row)]

PullRequestKind(row) ==
    CASE row.action = "opened"                  -> "GitHubPullRequestOpened"
      [] row.action = "closed" /\ row.merged    -> "GitHubPullRequestMerged"
      [] row.action = "closed" /\ ~row.merged   -> "GitHubPullRequestClosed"
      [] OTHER                                  -> None

ReviewKind(row) ==
    IF row.action = "submitted" THEN "GitHubPullRequestReviewed" ELSE None

ReviewCommentKind(row) ==
    IF row.action = "created" THEN "GitHubPullRequestCommented" ELSE None

\* An assignment counts only when the actor took the issue.
IssuesKind(row) ==
    CASE row.action = "opened" /\ ~row.isPr -> "GitHubIssueOpened"
      [] row.action = "closed" /\ ~row.isPr -> "GitHubIssueClosed"
      [] row.action = "assigned" /\ row.assignee = row.who -> "GitHubIssueAssigned"
      [] OTHER                              -> None

IssueCommentKind(row) ==
    CASE row.action # "created" -> None
      [] row.isPr               -> "GitHubPullRequestCommented"
      [] OTHER                  -> "GitHubIssueCommented"

\* The payload structs: what a payload of each type must have, with its own id,
\* number, title, link and state; every other field has a default.
PayloadParts(type) ==
    CASE type = "PullRequestEvent"              -> {"action", "number", "pull_request"}
      [] type = "PullRequestReviewEvent"        -> {"action", "pull_request", "review"}
      [] type = "PullRequestReviewCommentEvent" -> {"action", "pull_request", "comment"}
      [] type = "IssuesEvent"                   -> {"action", "issue"}
      [] type = "IssueCommentEvent"             -> {"action", "issue", "comment"}
      [] OTHER                                  -> {}

Drifted(row) == row.lacks \cap PayloadParts(row.type) # {}

\* GithubEventPayload::from_raw: the payload's type decides who reads it; a
\* type or shape the code does not know, and a push, are no activity.
PayloadKind(row) ==
    IF Drifted(row) THEN None
    ELSE CASE row.type = "PullRequestEvent"              -> PullRequestKind(row)
           [] row.type = "PullRequestReviewEvent"        -> ReviewKind(row)
           [] row.type = "PullRequestReviewCommentEvent" -> ReviewCommentKind(row)
           [] row.type = "IssuesEvent"                   -> IssuesKind(row)
           [] row.type = "IssueCommentEvent"             -> IssueCommentKind(row)
           [] OTHER                                      -> None

NormaliseGithub(src, row) ==
    LET kind == PayloadKind(row)
    IN IF kind = None THEN <<>>
       ELSE IF row.type \in {"IssuesEvent", "IssueCommentEvent"}
            THEN <<ComposeIssue(src, row, kind)>>
            ELSE <<ComposePr(src, row, kind)>>

\* search_hit_to_activity_event.
HitEvent(src, hit, kind, at) ==
    [Event(src, GithubThread(hit), kind, at, hit.who)
        EXCEPT !.links  = {<<hit.repo, IF hit.isPr THEN "pull" ELSE "issue", hit.num>>},
               !.repo   = hit.repo,
               !.item   = GithubThread(hit),
               !.parent = GithubThread(hit)]

\* synthesise_events_from_search_hit: an opening and a closing, each if it fell
\* in the day.  The search does not say whether a pull request was merged.
SearchEvents(src, hit) ==
    LET opened == IF hit.isPr THEN "GitHubPullRequestOpened" ELSE "GitHubIssueOpened"
        closed == IF hit.isPr THEN "GitHubPullRequestClosed" ELSE "GitHubIssueClosed"
    IN IF hit.repo = None THEN <<>>
       ELSE (IF hit.created # None /\ InDay(hit.created)
             THEN <<HitEvent(src, hit, opened, hit.created)>> ELSE <<>>) \o
            (IF hit.closed # None /\ InDay(hit.closed)
             THEN <<HitEvent(src, hit, closed, hit.closed)>> ELSE <<>>)

SameThread(a, b) == a.parent # None /\ a.parent = b.parent /\ a.who = b.who

WithinRapidWindow(earlier, later) ==
    later - earlier \in -AMinute .. AMinute

\* A run of reviews is its first event, at the time of its last.
MergedReview(run) ==
    [run[1] EXCEPT !.at = Last(run).at,
                   !.count = FoldLeft(LAMBDA n, e : n + e.count, 0, run)]

IsReview(e) == e.kind = "GitHubPullRequestReviewed"

RapidReview(a, b) == SameThread(a, b) /\ WithinRapidWindow(a.at, b.at)

\* The reviews of one thread, rapid ones merged.
ReviewsOf(events, thread) ==
    Once(ByTime(SelectSeq(events, LAMBDA e : IsReview(e) /\ <<e.parent, e.who>> = thread)),
         LAMBDA sorted : Once(RunsOf(sorted, RapidReview),
                              LAMBDA runs : [i \in DOMAIN runs |-> MergedReview(runs[i])]))

\* collapse_rapid_reviews: reviews sorted by thread and time, those of a thread
\* that came within a minute of each other merged, then everything else.
CollapseRapidReviews(events) ==
    LET threads == SetToSeq({<<events[i].parent, events[i].who>> :
                               i \in {j \in DOMAIN events : IsReview(events[j])}})
    IN ByTime(Flat([i \in DOMAIN threads |-> ReviewsOf(events, threads[i])]))
       \o SelectSeq(events, LAMBDA e : ~IsReview(e))

=============================================================================
