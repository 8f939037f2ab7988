--------------------------- MODULE ReportPipeline ---------------------------
(***************************************************************************)
(* From the connectors' events to the bullets of a draft: run_background   *)
(* joins what the sources return in the order they end, dayseam-report     *)
(* removes the second copy of a commit, links Jira transitions to merge    *)
(* requests and groups the rest, and every group becomes bullets of one    *)
(* section of the draft (ReportDraft).                                     *)
(***************************************************************************)
EXTENDS ReportDraft, TLC

CONSTANT Days   \* what one day holds: functions from sources to their results

EventFields ==
    {"src", "ext", "kind", "at", "until", "body", "links", "repo", "item", "parent", "private",
     "email", "account", "keys", "names", "urls", "prs"}

\* The user has a name.
ASSUME MeAssumption == Me # None

\* What a result is: a source marks its events and artifacts with its own id
\* (ctx.source_id in every connector), only local git builds artifacts, of its
\* commits, and only it marks a commit as private (local-git/walk.rs, privacy.rs):
\* no other event goes by a commit's sha.
ASSUME DaysAssumption ==
    \A d \in Days : \A s \in DOMAIN d.results :
        LET r == d.results[s]
        IN /\ s \in Nat \ {0} /\ r.kind # None
           /\ r.events \in Seq(ToSet(r.events)) /\ r.artifacts \in Seq(ToSet(r.artifacts))
           /\ \A e \in ToSet(r.events) :
                /\ EventFields \subseteq DOMAIN e
                /\ e.src = s /\ e.at \in Int /\ e.private \in BOOLEAN
           /\ \A a \in ToSet(r.artifacts) :
                a.src = s /\ \A id \in a.ids : id[3] = "CommitAuthored"
           /\ \A e \in ToSet(r.events) : e.private =>
                \A t \in DOMAIN d.results : \A f \in ToSet(d.results[t].events) :
                    f.ext = e.ext => f.kind = "CommitAuthored"

VARIABLES
    day,        \* [sources -> [kind, ident, events, artifacts]], and where UTC's date turns
    left,       \* sources whose sync still runs
    done,       \* sources that returned events, in the order they ended
    failed,     \* sources that returned an error
    phase,      \* "fetching", "merged", "stored", "drafted" or "failed"
    events,     \* the merged and enriched events
    rows,       \* activity_events: id -> is the row private
    draft       \* the sections

pipelineVars == <<day, left, done, failed, phase, events, rows, draft>>

(***************************************************************************)
(* dedup.rs                                                                *)
(***************************************************************************)

\* Variant: among equally rich copies the one that came first stays.
PickFirstOnTie(a, b) == TRUE

\* Source ids are ordered: the smaller one wins among equally rich copies.
PickAOnTie(a, b) == a.body # b.body \/ a.src <= b.src

\* Variant: the copy that stays decides.
WinnersPrivacy(winner, loser) == winner.private

\* A commit is private if either scan says so.
LouderPrivacy(winner, loser) == winner.private \/ loser.private

\* An absent field of the winner is filled from the loser.
OrElse(a, b) == IF a = None THEN b ELSE a

Absorb(w, l) ==
    [w EXCEPT !.links   = @ \cup l.links,
              !.repo    = OrElse(@, l.repo),
              !.private = LouderPrivacy(w, l),
              !.email   = OrElse(@, l.email),
              !.account = OrElse(@, l.account)]

\* The richer copy, the one with the longer body, stays.
MergeTwo(a, b) ==
    IF a.body >= b.body /\ PickAOnTie(a, b) THEN Absorb(a, b) ELSE Absorb(b, a)

SameCommit(a, b) == a.kind = "CommitAuthored" /\ b.kind = a.kind /\ a.ext = b.ext

MergeCopy(kept, e) == IF SameCommit(kept, e) THEN MergeTwo(kept, e) ELSE kept

\* A commit stays where its first copy stood: the result is a function on the
\* places of s that are kept.
DedupCommitAuthored(s) ==
    [i \in {i \in DOMAIN s : \A j \in 1 .. i - 1 : ~SameCommit(s[j], s[i])} |->
        FoldLeft(MergeCopy, s[i], SubSeq(s, i + 1, Len(s)))]

(***************************************************************************)
(* enrich.rs                                                               *)
(***************************************************************************)

MaxTicketKeysPerEvent == 3

\* An event that names a few issues, in its title or body, is about them; one
\* that names many is a list.
ExtractTicketKeys(e) ==
    IF Cardinality(e.names) \in 1 .. MaxTicketKeysPerEvent
    THEN [e EXCEPT !.keys = @ \cup e.names] ELSE e

IsMrLike(kind) ==
    kind \in {"MrOpened", "MrMerged", "GitHubPullRequestOpened", "GitHubPullRequestMerged",
              "GitHubPullRequestClosed"}

\* The merge requests of the day about an issue, up to the given time: the 24
\* hours before a transition hold whatever of the day comes before it.
MrCandidates(s, key, upTo) ==
    {e \in Range(s) : IsMrLike(e.kind) /\ key \in e.keys /\ e.at <= upTo}

\* The earliest of them triggered the transition; a tie goes by id, which is a
\* hash.
AnnotateTransition(s, e) ==
    LET pool  == MrCandidates(s, e.item, e.at)
        first == {c \in pool : \A d \in pool : c.at <= d.at}
    IN IF e.kind = "JiraIssueTransitioned" /\ pool # {}
       THEN [e EXCEPT !.parent = (CHOOSE c \in first : TRUE).ext] ELSE e

\* extract_github_pr_urls: a merge request names the pull requests its text
\* has addresses of.
ExtractGithubPrUrls(e) ==
    IF e.kind \in {"MrOpened", "MrMerged"} THEN [e EXCEPT !.prs = @ \cup e.urls] ELSE e

\* pipeline(): commits once, then the keys and the pull requests, then the links
\* to merge requests; rollup_mr has nothing to do, as no connector writes
\* `commit_shas`.
Pipeline(s) ==
    Once(DedupCommitAuthored(s), LAMBDA once :
        Once([i \in DOMAIN once |-> ExtractGithubPrUrls(ExtractTicketKeys(once[i]))],
             LAMBDA keyed : [i \in DOMAIN keyed |-> AnnotateTransition(keyed, keyed[i])]))

(***************************************************************************)
(* rollup.rs                                                               *)
(***************************************************************************)

JiraKinds == {"JiraIssueTransitioned", "JiraIssueCommented", "JiraIssueAssigned",
              "JiraIssueUnassigned", "JiraIssueCreated"}

ConfluenceKinds == {"ConfluencePageCreated", "ConfluencePageEdited", "ConfluenceComment"}

MrGroupKinds == {"MrOpened", "MrMerged", "MrClosed", "MrReviewComment", "MrApproved"}

PrGroupKinds == {"GitHubPullRequestOpened", "GitHubPullRequestMerged",
                  "GitHubPullRequestClosed", "GitHubPullRequestReviewed",
                  "GitHubPullRequestCommented"}

\* occurred_at.naive_local(), of a UTC time, is the UTC date: the user's day may
\* span two.  Dates count from the day asked for.
UtcDay(e) == IF e.at < day.turn THEN -1 ELSE 0

\* gitlab_mr_identity: an external id "!iid" and a project.
GitlabMrIdentity(e) == e.ext[1] = "!" /\ e.repo # None

\* group_key_from_event: the repository, project or space, if one is named.
GroupKeyOf(e) == e.repo

\* What a group is of, <<its kind, ...>>, for which source, on which date.
Group(of, src, date) == [of |-> of, src |-> src, date |-> date]

\* The bucket of an event no artifact claims; github_pr_identity always finds
\* "repo#number".
OrphanOf(e) ==
    CASE e.kind \in JiraKinds                            -> <<"JiraIssue", e.item, GroupKeyOf(e)>>
      [] e.kind \in ConfluenceKinds                      -> <<"ConfluencePage", e.item, GroupKeyOf(e)>>
      [] e.kind \in MrGroupKinds /\ GitlabMrIdentity(e) -> <<"MergeRequest", e.repo, e.ext>>
      [] e.kind \in PrGroupKinds                         -> <<"MergeRequest", e.repo, e.ext>>
      [] e.kind = "OutlookMeetingAttended"               -> <<"Meeting", e.ext>>
      [] OTHER                                           -> <<"CommitSet", GroupKeyOf(e)>>

OrphanKey(e) == Group(OrphanOf(e), e.src, UtcDay(e))

\* A local-git artifact: its repository's commits of the local day.
ArtifactKey(a) == Group(<<"CommitSet", a.repo>>, a.src, 0)

\* event_by_id, of the events at the given places: of those with one id the last
\* stays.
EventById(s, places) ==
    {s[i] : i \in {j \in places : \A k \in places : k > j => IdOf(s[k]) # IdOf(s[j])}}

\* The groups of the artifacts: each claims what no earlier one claimed.
Claimed(all, artifacts) ==
    {[key |-> ArtifactKey(artifacts[i]), place |-> i,
      events |-> {e \in all : /\ IdOf(e) \in artifacts[i].ids
                              /\ \A j \in 1 .. i - 1 : IdOf(e) \notin artifacts[j].ids}] :
        i \in DOMAIN artifacts}

\* synthesize_artifact for every bucket of what is left; the buckets come after
\* the artifacts, in the order of their sources.
Orphans(rest, after) ==
    {[key |-> k, place |-> after + k.src, events |-> {e \in rest : OrphanKey(e) = k}] :
        k \in {OrphanKey(e) : e \in rest}}

SameSet(g, h) ==
    g.key.of[1] = "CommitSet" /\ g.key.of = h.key.of /\ g.key.date = h.key.date

ExtsOf(events_) == {e.ext : e \in events_}

\* sort_events: of the events of one number the earliest is first; a tie goes by
\* id, which is a hash.
FirstOf(g, ext) ==
    CHOOSE e \in g.events : e.ext = ext /\ \A f \in g.events : f.ext = ext => e.at <= f.at

\* What a commit set takes of a later one: of each number it does not have, the
\* first event.
TakenFrom(h, had) == {FirstOf(h, ext) : ext \in ExtsOf(h.events) \ had}

\* The first commit set of a repository and date takes in the later ones, one
\* after the other.
MergeDuplicateCommitSets(groups) ==
    LET first(g)  == \A h \in groups : SameSet(g, h) => g.place <= h.place
        before(h) == UNION {g.events : g \in {g \in groups : SameSet(g, h) /\ g.place < h.place}}
        taken(g)  == UNION {TakenFrom(h, ExtsOf(before(h))) :
                               h \in {h \in groups : SameSet(g, h) /\ g.place < h.place}}
    IN {[g EXCEPT !.events = @ \cup taken(g)] : g \in {g \in groups : first(g)}}

\* Variant: the buckets take what an artifact has claimed, too.
RollUpTwice(s, mine, artifacts) ==
    MergeDuplicateCommitSets(Claimed(EventById(s, mine), artifacts)
                             \cup Orphans(EventById(s, mine), Len(artifacts)))

RollUp(s, mine, artifacts) ==
    LET all  == EventById(s, mine)
        rest == {e \in all : \A i \in DOMAIN artifacts : IdOf(e) \notin artifacts[i].ids}
    IN MergeDuplicateCommitSets(Claimed(all, artifacts) \cup Orphans(rest, Len(artifacts)))

(***************************************************************************)
(* sections.rs and render.rs                                               *)
(***************************************************************************)

\* A page known from unattached comments only is not a page's section.
SectionOf(g) ==
    IF /\ g.key.of[1] = "ConfluencePage"
       /\ \A e \in g.events : e.kind = "ConfluenceComment" /\ e.item = None
    THEN "Unlinked" ELSE g.key.of[1]

Redacted == <<"(private work)">>

\* commit_headline: a repository's name, where one is known.
CommitText(g, e) ==
    IF e.private THEN Redacted
    ELSE LET repo == g.key.of[2]
         IN IF repo = None \/ repo[1] = "project" THEN <<e.kind, e.ext>>
            ELSE <<e.kind, e.ext, repo>>

\* triggered_by_suffix, of the verbose text.
TriggeredBy(e) == IF e.kind = "JiraIssueTransitioned" THEN e.parent ELSE None

AtlassianText(e) ==
    IF e.private THEN Redacted ELSE <<e.kind, e.ext, e.repo, TriggeredBy(e)>>

Bullet(g, of, text) ==
    [section |-> SectionOf(g), artifact |-> g.key, ids |-> {IdOf(e) : e \in of},
     kind |-> day.results[g.key.src].kind, text |-> text]

\* meeting_bounds: the first event's; events of one meeting and source have one
\* id, so there is no other.
MeetingBounds(g) ==
    LET first == CHOOSE e \in g.events : \A f \in g.events : e.at <= f.at
    IN [from |-> first.at, to |-> first.until]

\* render_meeting_bullet: from when to when, and what.
MeetingText(g) == <<"Meeting", g.key.of[2], MeetingBounds(g).from, MeetingBounds(g).to>>

\* render_mr_bullet: the project and the number.
MergeRequestText(g) == <<"MergeRequest", g.key.of[2], g.key.of[3]>>

\* render_group: one bullet per merge request and meeting, else one per event.
RenderGroup(g) ==
    CASE g.key.of[1] = "CommitSet" -> {Bullet(g, {e}, CommitText(g, e)) : e \in g.events}
      [] g.key.of[1] \in {"JiraIssue", "ConfluencePage"}
                                 -> {Bullet(g, {e}, AtlassianText(e)) : e \in g.events}
      [] g.key.of[1] = "MergeRequest" -> {Bullet(g, g.events, MergeRequestText(g))}
      [] g.key.of[1] = "Meeting"      -> {Bullet(g, g.events, MeetingText(g))}

\* Variant: an event of a source without identity rows is taken for the user's.
EventIsSelfOrUnknown(e) == TRUE

\* event_is_self: the git address is the user's whatever the source, an account
\* only in its own source, by that source's identity rows.
EventIsSelf(e) == e.email = Me \/ (e.account = Me /\ day.results[e.src].ident)

\* sum_meeting_minutes: an end before the start counts for nothing.
MeetingMinutes(groups) ==
    MapThenSumSet(LAMBDA g : IF MeetingBounds(g).to > MeetingBounds(g).from
                             THEN MeetingBounds(g).to - MeetingBounds(g).from ELSE 0,
                  {g \in groups : g.key.of[1] = "Meeting"})

Render(s, artifacts, broken) ==
    Once(RollUp(s, {i \in DOMAIN s : EventIsSelf(s[i])}, artifacts), LAMBDA groups :
        RenderSyncIssues(broken) \o
            IF groups = {} THEN <<EmptySection>>
            ELSE BuildSections(UNION {RenderGroup(g) : g \in groups}, MeetingMinutes(groups)))

(***************************************************************************)
(* run_background                                                          *)
(***************************************************************************)

\* split_fan_out: what the sources returned, one after the other.
JoinedEvents(order) == Flat([i \in DOMAIN order |-> day.results[order[i]].events])
JoinedArtifacts(order) == Flat([i \in DOMAIN order |-> day.results[order[i]].artifacts])

PipelineInit ==
    /\ day \in Days
    /\ left = DOMAIN day.results
    /\ done = <<>> /\ failed = {} /\ events = <<>> /\ draft = <<>>
    /\ rows = [id \in {} |-> FALSE]
    /\ phase = "fetching"

SourceReturns(s) ==
    /\ s \in left
    /\ left' = left \ {s}
    /\ \/ done' = Append(done, s) /\ UNCHANGED failed
       \/ failed' = failed \cup {s} /\ UNCHANGED done
    /\ UNCHANGED <<day, phase, events, rows, draft>>

Merge ==
    /\ phase = "fetching" /\ left = {}
    /\ events' = Pipeline(JoinedEvents(done))
    /\ phase' = "merged"
    /\ UNCHANGED <<day, left, done, failed, rows, draft>>

\* ActivityRepo::insert_many, one transaction: a row of the same source,
\* external id and kind is overwritten.
Store ==
    /\ phase = "merged"
    /\ LET last == EventById(events, DOMAIN events)
           ids  == {IdOf(e) : e \in last}
       IN rows' = [id \in DOMAIN rows \cup ids |->
                      IF id \in ids THEN (CHOOSE e \in last : IdOf(e) = id).private ELSE rows[id]]
    /\ phase' = "stored"
    /\ UNCHANGED <<day, left, done, failed, events, draft>>

StoreFails ==
    /\ phase = "merged"
    /\ phase' = "failed"
    /\ UNCHANGED <<day, left, done, failed, events, rows, draft>>

MakeDraft ==
    /\ phase = "stored"
    /\ draft' = Render(events, JoinedArtifacts(done), failed)
    /\ phase' = "drafted"
    /\ UNCHANGED <<day, left, done, failed, events, rows>>

PipelineNext ==
    \/ \E s \in left : SourceReturns(s)
    \/ Merge \/ Store \/ StoreFails \/ MakeDraft

PipelineSpec == PipelineInit /\ [][PipelineNext]_pipelineVars

(***************************************************************************)
(* Properties                                                              *)
(***************************************************************************)

Raw == ToSet(JoinedEvents(done))

\* The bullets about activity.
Bullets == {b \in BulletsOf(draft) : b.kind # None}

\* The richest copy of a commit names no repository, and two others name two.
RepoIsOpen ==
    \E e \in Raw : /\ e.kind = "CommitAuthored" /\ e.repo = None
                   /\ \A f \in Raw : SameCommit(e, f) => f.body <= e.body
                   /\ Cardinality({f.repo : f \in {f \in Raw : SameCommit(e, f)}} \ {None}) > 1

\* The draft is a function of the day and of the sources that answered, never of
\* which answered first: results are pushed as the tasks end (generate.rs:677),
\* and dedup.rs:117, enrich.rs:190 and rollup.rs:591 break every tie by content.
\* A commit whose richest copy names no repository, a GitLab push without a
\* project, takes the one of the copy merged first (dedup.rs:125): of two other
\* copies in two repositories that is whichever source answered first.
ReportIgnoresFinishOrder ==
    (phase = "drafted" /\ ~RepoIsOpen) =>
        LET sorted == SetToSortSeq(ToSet(done), LAMBDA a, b : a < b)
        IN draft = Render(Pipeline(JoinedEvents(sorted)), JoinedArtifacts(sorted), failed)

\* A commit that any of the sources saw in a repository marked private is told
\* as private work and stored as private, whichever copy of it the report keeps
\* and under whatever repository (dedup.rs:126, render.rs:787).
PrivateStaysPrivate ==
    phase = "drafted" =>
        \A e \in Raw : e.private =>
            /\ \A b \in Bullets : (\E id \in b.ids : id[2] = e.ext) => b.text = Redacted
            /\ \A id \in DOMAIN rows : id[2] = e.ext => rows[id]

\* The bullets that tell of an event: a commit is told by whichever copy stays.
Telling(e) ==
    {b \in Bullets : \E id \in b.ids :
        IF e.kind = "CommitAuthored" THEN id[2] = e.ext /\ id[3] = e.kind ELSE id = IdOf(e)}

MineToo(e) == e.email = Me \/ (e.account = Me /\ day.results[e.src].ident)

\* The commit set of e may be merged into another source's.
Shared(e) ==
    /\ OrphanOf(e)[1] = "CommitSet"
    /\ \/ \E f \in Raw : f.src # e.src /\ f.repo \in {e.repo, None}
       \/ \E a \in ToSet(JoinedArtifacts(done)) : a.repo = e.repo

\* Another event of the day goes by the same number: of the same kind in the
\* same source, of any kind in another source, or, where commit sets are merged,
\* of any kind in the same source.
HasTwin(e) ==
    LET s == JoinedEvents(done)
    IN \/ \E f \in Raw : f.ext = e.ext /\ f.src # e.src
       \/ \E i, j \in DOMAIN s : i # j /\ IdOf(s[i]) = IdOf(e) /\ IdOf(s[j]) = IdOf(e)
       \/ Shared(e) /\ \E f \in Raw : f.ext = e.ext /\ IdOf(f) # IdOf(e)

\* Nothing of the user's day is lost or told twice between the connectors and
\* the bullets, whatever the duplicates: every commit has one bullet (if every
\* copy of it is recognised as the user's: the render filter sees the copy that
\* stayed, in whose source the user may be unknown), and every other event that
\* shares its number with no other has one; and what a bullet cites is stored,
\* so the evidence popover finds it (rollup.rs:10-13).
EveryEventInOneBullet ==
    phase = "drafted" =>
        /\ \A e \in Raw :
            IF e.kind = "CommitAuthored"
            THEN (\A f \in Raw : f.ext = e.ext => f.kind = e.kind /\ MineToo(f))
                   => Cardinality(Telling(e)) = 1
            ELSE (MineToo(e) /\ ~HasTwin(e)) => Cardinality(Telling(e)) = 1
        /\ \A b \in Bullets : b.ids # {} /\ b.ids \subseteq DOMAIN rows

\* The chart shows the day's bullets: every kind once, with its part of a whole
\* ring, in a colour and on a line of its own.
ChartAddsUp ==
    LET block == RenderBlock(draft)
    IN IF Bullets = {} THEN block = <<>>
       ELSE LET shown == block[2].rows
                last == Len(shown)
                size(r) == Cardinality({b \in Bullets : b.kind = r.kind})
            IN /\ block[2].centre = Cardinality(Bullets)
               /\ {shown[i].kind : i \in 1 .. last} = {b.kind : b \in Bullets}
               /\ shown[1].slice.from = 0 /\ shown[last].slice.to = Cardinality(Bullets)
               /\ \A i \in 1 .. last :
                    /\ shown[i].slice.to - shown[i].slice.from = size(shown[i])
                    /\ shown[i].slice.ring <=> last = 1
                    /\ shown[i].y \in 8 .. ViewBoxHeight - 8
               /\ \A i \in 2 .. last :
                    /\ shown[i].slice.from = shown[i - 1].slice.to
                    /\ shown[i].y - shown[i - 1].y >= 8
               /\ \A i, j \in 1 .. last : i # j =>
                    shown[i].light # shown[j].light /\ shown[i].dark # shown[j].dark
               /\ FoldLeft(LAMBDA acc, r : acc + r.share, 0, shown)
                    \in 1000 - 5 * last .. 1000 + 5 * last

\* Nothing but the user's own work is told: a GitLab source without identity
\* rows walks everybody's events, and only the render filter drops them
\* (render.rs:182, gitlab/walk.rs:272).  And what is told stands in a draft a
\* reader can trust (render.rs:48-83, 275-356, markdown.rs:187,
\* summary_chart.rs:154-183): every source that failed is named once, first,
\* and never as work; a day without work of the user's says so, and no other;
\* the sections have bullets and keep their order; the meetings' total is
\* theirs; the chart shows every bullet about work and nothing else.
DraftTellsTheDay ==
    phase = "drafted" =>
        LET ids == [i \in DOMAIN draft |-> draft[i].id]
            written == RenderSections(draft)
        IN /\ \A b \in Bullets : \A id \in b.ids : \E e \in Raw : MineToo(e) /\ id[2] = e.ext
           /\ failed = {b.text[2] : b \in {c \in BulletsOf(draft) : c.section = "sync_issues"}}
           /\ failed # {} => ids[1] = "sync_issues"
           /\ (Bullets = {}) <=> Remark("CommitSet", <<"no activity">>) \in BulletsOf(draft)
           /\ Bullets = {} => \A e \in Raw : MineToo(e) => HasTwin(e) \/ e.kind = "CommitAuthored"
           /\ \A i \in DOMAIN draft : draft[i].bullets # {}
           /\ \A i, j \in DOMAIN draft : i < j /\ ids[i] # "sync_issues" =>
                SelectInSeq(AllSections, LAMBDA id : id = ids[i])
                  < SelectInSeq(AllSections, LAMBDA id : id = ids[j])
           /\ \A b \in BulletsOf(draft) : b.kind = None /\ b.text[1] = "total" =>
                b.text[2] = MapThenSumSet(LAMBDA e : e.until - e.at,
                                          {e \in Raw : e.kind = "OutlookMeetingAttended" /\ MineToo(e)})
           /\ ChartAddsUp
           /\ \A i \in DOMAIN draft :
                draft[i].bullets = UNION {written[i].groups[k].bullets : k \in DOMAIN written[i].groups}

\* summary_chart.rs:211-216: "a sparse day where every kind has exactly one bullet
\* is a thin day, not a tie of leaders ... Sparse-tie days fall through to the
\* spread branch, which names every kind with its absolute count".
SparseTieIsSpread ==
    phase = "drafted" =>
        LET counts == AggregateByKind(draft)
        IN Len(counts) > 1 /\ (\A i \in DOMAIN counts : counts[i].n = 1)
             => RenderHeadline(counts).put = "spread"

\* "Every event lands in exactly one group" (rollup.rs:10), read literally: no
\* two events of the day take each other's place.  Violated: a GitLab merge
\* request is known by its number alone, so two projects' "!5" have one id.
EventsKeepTheirPlace ==
    phase = "drafted" =>
        LET s == JoinedEvents(done)
        IN \A e \in Raw : e.account = Me /\ e.kind \in {"MrOpened", "MrMerged"} /\ e.repo # None =>
            \E b \in Bullets : b.text = <<"MergeRequest", e.repo, e.ext>>

=============================================================================
