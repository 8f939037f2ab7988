------------------------------ MODULE MCReport ------------------------------
(* ReportPipeline for TLC: days of a few sources, each with the events its   *)
(* connector makes of small upstreams.                                       *)
EXTENDS ReportPipeline, ForgeEvents, OfficeEvents, LocalGitEvents

CONSTANTS Other, p1, p2, d1, d2, d3

\* What the pipeline reads besides: the actor's two names and the issues that
\* the title and the body mention.
Told(e, email, account, names) ==
    [email |-> email, account |-> account, keys |-> {}, names |-> names,
     urls |-> names, prs |-> {}] @@ e

Result(kind, ident, es, arts) == [kind |-> kind, ident |-> ident, events |-> es, artifacts |-> arts]

(* Local git: repositories and whether they are private. *)

Commit(sha, body) ==
    [sha |-> sha, author |-> Me, committer |-> Other, at |-> 2, body |-> body, on |-> {"local"}]

RepoOf(d) == <<"dir", d>>

LocalWalk(src, d, commits, private) ==
    LET es == WalkRepo(src, RepoOf(d), commits, private)
    IN [events |-> [i \in DOMAIN es |-> Told(es[i], Me, None, {})],
        artifacts |-> CommitSetOf(src, RepoOf(d), es)]

LocalResult(walks) ==
    Result("LocalGit", FALSE,
           Flat([i \in DOMAIN walks |-> walks[i].events]),
           Flat([i \in DOMAIN walks |-> walks[i].artifacts]))

\* One repository, or two clones of it, private or not.
LocalResults(src) ==
    {LocalResult(<<LocalWalk(src, d1, {Commit(1, b), Commit(2, 0)}, p)>>) : b \in {0, 2}, p \in BOOLEAN}
    \cup {LocalResult(<<LocalWalk(src, d1, {Commit(1, 0)}, p), LocalWalk(src, d2, {Commit(1, 0)}, ~p)>>) :
            p \in BOOLEAN}

LocalElsewhere(src) ==
    {LocalResult(<<LocalWalk(src, d3, {Commit(1, b), Commit(3, 0)}, p)>>) : b \in {0, 2}, p \in BOOLEAN}

(* GitLab *)

GitlabRow(n, action, target, who, at, project, iid, sha) ==
    [n |-> n, action |-> action, target |-> target, who |-> who, at |-> at,
     project |-> project, iid |-> iid, tid |-> n, sha |-> sha, note |-> FALSE]

Rows ==
    << GitlabRow(1, "pushed to", None, Me, 3, p1, None, 1),
       GitlabRow(2, "opened", "MergeRequest", Me, 1, p1, 5, None),
       GitlabRow(3, "accepted", "MergeRequest", Me, 5, p1, 5, None),
       GitlabRow(4, "commented on", "DiffNote", Me, 4, p1, 5, None),
       GitlabRow(5, "opened", "Issue", Me, 1, p1, 7, None),
       GitlabRow(6, "closed", "Issue", Me, 4, p1, 7, None),
       GitlabRow(7, "pushed to", None, Other, 4, p2, None, 2),
       GitlabRow(8, "opened", "MergeRequest", Me, 1, p2, 5, None),
       GitlabRow(9, "opened", "MergeRequest", Me, 2, None, 6, None),
       GitlabRow(10, "pushed to", None, Me, 3, None, None, 1) >>

GitlabResult(src, ident, picks, names, paths) ==
    Result("GitLab", ident,
           Flat([i \in DOMAIN picks |->
                   LET row == Rows[picks[i]]
                       es  == NormaliseGitlab(src, row, paths)
                   IN [k \in DOMAIN es |-> Told(es[k], None, row.who, names)]]),
           <<>>)

PathsOf(known) == [p \in {p1, p2} |-> known]

GitlabResults(src) ==
    {GitlabResult(src, TRUE, picks, names, PathsOf(known)) :
        picks \in {<<1, 2, 3>>, <<1, 4, 5, 6>>, <<2, 9, 1>>},
        names \in {{10}, {10, 11, 12, 13}}, known \in BOOLEAN}
    \cup {GitlabResult(src, FALSE, <<1, 2, 7>>, {}, PathsOf(TRUE))}

(* Jira, GitHub and Confluence *)

Paragraph(words) ==
    [type |-> "paragraph", text |-> <<>>, id |-> <<>>, array |-> TRUE,
     content |-> << [type |-> "text", text |-> words, id |-> <<>>, array |-> TRUE,
                     content |-> <<>>] >>]

Issue(at) ==
    [n |-> 1, key |-> 10, project |-> p1, reporter |-> Me, created |-> 0,
     history |-> <<[who |-> Me, at |-> at, field |-> "status", from |-> None, to |-> None]>>,
     comments |-> <<[id |-> 1, who |-> Me, at |-> 4, body |-> Paragraph(<<"hello">>)]>>,
     lacks |-> {}]

JiraResult(src, at) ==
    LET es == NormaliseJira(src, Issue(at))
    IN Result("Jira", TRUE, [i \in DOMAIN es |-> Told([es[i] EXCEPT !.body = @], None, Me, {})], <<>>)

GithubRow(type, action, at, num) ==
    [n |-> 1, type |-> type, action |-> action, repo |-> <<"repo", p1>>, num |-> num, who |-> Me,
     at |-> at, merged |-> TRUE, isPr |-> FALSE, assignee |-> Me, lacks |-> {}]

GithubResult(src, names) ==
    LET es == Flat(<< NormaliseGithub(src, GithubRow("PullRequestEvent", "opened", 1, 1)),
                      NormaliseGithub(src, GithubRow("PullRequestEvent", "closed", 4, 1)),
                      NormaliseGithub(src, GithubRow("IssuesEvent", "opened", 2, 2)),
                      NormaliseGithub(src, GithubRow("IssuesEvent", "closed", 3, 2)) >>)
    IN Result("GitHub", TRUE, [i \in DOMAIN es |-> Told(es[i], None, Me, names)], <<>>)

Hit(id, type, parent) ==
    [n |-> 1, id |-> id, type |-> type, space |-> p1, creator |-> Me, created |-> 3,
     version |-> 1, editor |-> Me, edited |-> 3, ancestors |-> <<>>,
     container |-> parent, body |-> Paragraph(<<"hi">>), lacks |-> {}]

ConfluenceResult(src, parent) ==
    LET es == NormaliseConfluence(src, Hit(20, "page", None))
              \o NormaliseConfluence(src, Hit(21, "comment", parent))
    IN Result("Confluence", TRUE, [i \in DOMAIN es |-> Told(es[i], None, Me, {})], <<>>)

OutlookResult(src) ==
    LET es == NormaliseOutlook(src,
                [n |-> 30, start |-> 1, end |-> 3, cancelled |-> FALSE, allDay |-> FALSE,
                 free |-> FALSE, organizer |-> Me, response |-> "none", private |-> TRUE, body |-> 0,
                 lacks |-> {}])
    IN Result("Outlook", TRUE, [i \in DOMAIN es |-> Told(es[i], None, Me, {})], <<>>)

(* Days: who is source 1, 2 and 3 matters, for the smaller id wins ties. *)

Day(turn, results) == [turn |-> turn, results |-> results]

MCDays ==
    {Day(t, <<l, g, e>>) : t \in {0, 3}, l \in LocalResults(1), g \in GitlabResults(2),
                           e \in LocalElsewhere(3)}
    \cup {Day(0, <<g, l, JiraResult(3, at)>>) : g \in GitlabResults(1), l \in LocalResults(2), at \in {2, 7}}
    \cup {Day(0, <<GitlabResult(1, TRUE, <<10, 2>>, {}, PathsOf(TRUE)), l, e>>) :
            l \in LocalResults(2), e \in LocalElsewhere(3)}
    \cup {Day(3, <<g, GithubResult(2, {10}), JiraResult(3, 7), ConfluenceResult(4, parent)>>) :
            g \in GitlabResults(1), parent \in {20, None}}
    \cup {Day(t, <<g, OutlookResult(2), h>>) : t \in {0, 3}, g \in GitlabResults(1), h \in GitlabResults(3)}

\* Two projects of one GitLab have a merge request of the same number.
TwinDays ==
    {Day(0, <<GitlabResult(1, TRUE, <<2, 8>>, {}, PathsOf(TRUE)), JiraResult(2, 7)>>)}

=============================================================================
