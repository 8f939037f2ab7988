------------------------------- MODULE MCFetch -------------------------------
(* Fetch for TLC: small upstreams of each connector.                        *)
EXTENDS Fetch

CONSTANTS Other, p1, p2

SortedFeeds(Rows, n) ==
    {[i \in 1 .. k |-> [s[i] EXCEPT !.n = i]] :
        <<k, s>> \in {<<k, s>> \in (0 .. n) \X [1 .. n -> Rows] :
                        \A i, j \in 1 .. k : i < j => s[i].at >= s[j].at}}

Up(p, f, h, kinds) ==
    [prov |-> p, feed |-> f, hits |-> h,
     known |-> {[kind |-> k, source |-> IF k = "GitEmail" THEN None ELSE S] : k \in kinds}]

\* The rows the source has when it was added properly.
Ids(p) ==
    CASE p = "gitlab"   -> {"GitLabUserId"}
      [] p = "github"   -> {"GitHubUserId", "GitHubLogin"}
      [] p = "outlook"  -> {"OutlookUserObjectId", "OutlookUserPrincipalName"}
      [] p = "localgit" -> {"GitEmail"}
      [] OTHER          -> {"AtlassianAccountId"}

\* The same rows of another source.
Foreign(up) == [up EXCEPT !.known = {[r EXCEPT !.source = "another"] : r \in @}]

GitlabRow(action, target, who, at, project, iid) ==
    [n |-> 1, action |-> action, target |-> target, who |-> who, at |-> at,
     project |-> project, iid |-> iid, tid |-> 7, sha |-> 3, note |-> FALSE]

GitlabActions ==
    {<<"pushed new", None>>, <<"opened", "MergeRequest">>, <<"accepted", "MergeRequest">>,
     <<"closed", "MergeRequest">>, <<"approved", "MergeRequest">>, <<"created", "Issue">>,
     <<"closed", "Issue">>, <<"commented on", "DiffNote">>, <<"commented", "Issue">>,
     <<"joined", None>>}

GitlabFeeds ==
    {<<[GitlabRow(a[1], a[2], Me, 3, p, iid) EXCEPT !.note = b]>> :
        a \in GitlabActions, p \in {p1, None}, iid \in {5, None}, b \in BOOLEAN}
    \cup {[i \in DOMAIN f |-> [f[i] EXCEPT !.iid = i]] : f \in
            SortedFeeds({GitlabRow("opened", "MergeRequest", Me, at, p1, 5) : at \in {-1, 0, 6, 7, 8}}
                        \cup {GitlabRow("pushed", None, Other, at, p2, None) : at \in {-1, 6}}, 4)}

GithubRow(type, action, who, at, num) ==
    [n |-> 1, type |-> type, action |-> action, repo |-> p1, num |-> num, who |-> who,
     at |-> at, merged |-> TRUE, isPr |-> FALSE, assignee |-> Me, lacks |-> {}]

GithubKinds ==
    {<<"PullRequestEvent", "opened">>, <<"PullRequestEvent", "closed">>,
     <<"PullRequestEvent", "labeled">>, <<"PullRequestReviewEvent", "dismissed">>,
     <<"PullRequestReviewCommentEvent", "created">>, <<"IssuesEvent", "opened">>,
     <<"IssuesEvent", "closed">>, <<"IssuesEvent", "assigned">>,
     <<"IssueCommentEvent", "created">>, <<"PushEvent", None>>}

GithubHit(who, created, closed, isPr) ==
    [n |-> 1, repo |-> p1, num |-> 1, who |-> who, created |-> created, closed |-> closed,
     isPr |-> isPr]

GithubHits ==
    {<<>>, <<[GithubHit(Me, 3, 7, TRUE) EXCEPT !.repo = None]>>,
     <<GithubHit(Me, 0, 7, TRUE), GithubHit(Me, 3, 8, FALSE), GithubHit(None, 3, 3, TRUE)>>}
    \cup {<<GithubHit(who, created, closed, pr)>> :
            who \in {Me, Other}, created \in {-1, 3}, closed \in {None, 6, 8}, pr \in BOOLEAN}

GithubFeeds ==
    ({<<[GithubRow(k[1], k[2], Me, 3, 1) EXCEPT !.merged = m, !.isPr = pr, !.assignee = a]>> :
        k \in GithubKinds, m \in BOOLEAN, pr \in BOOLEAN, a \in {Me, Other}} \X GithubHits)
    \cup (SortedFeeds({GithubRow("PullRequestReviewEvent", "submitted", Me, at, 1) :
                          at \in {-1, 0, 6, 7, 8}}
                      \cup {GithubRow("PullRequestReviewEvent", "submitted", Me, 7, 2),
                            GithubRow("PullRequestEvent", "opened", Other, -1, 1)}, 4)
          \X {<<>>, <<GithubHit(Me, 3, 7, TRUE)>>})
    \cup ({<<[GithubRow("IssuesEvent", "opened", Me, 5, 1) EXCEPT !.lacks = l],
             [GithubRow("PullRequestReviewEvent", "submitted", Me, 3, 2) EXCEPT !.n = 2]>> :
              l \in SUBSET {"action", "issue", "comment"}} \X {<<>>})

Change(who, at, field, from, to) ==
    [who |-> who, at |-> at, field |-> field, from |-> from, to |-> to]

Issue(key, history, comments, reporter, created) ==
    [n |-> 1, key |-> key, project |-> p1, reporter |-> reporter, created |-> created,
     history |-> history, comments |-> comments, lacks |-> {}]

Changes ==
    {Change(Me, at, "status", None, None) : at \in {-1, 0, 1, 3, 7, 8}}
    \cup {Change(Other, 1, "status", None, None), Change(Me, 3, "assignee", Other, Me),
          Change(Me, 3, "assignee", Me, None), Change(Other, 3, "assignee", Other, Me),
          Change(Me, 3, "assignee", None, Other), Change(Me, 3, "labels", None, None)}

Node(type, text, id, content) ==
    [type |-> type, text |-> text, id |-> id, array |-> TRUE, content |-> content]

Words == Node("text", <<"words">>, <<>>, <<>>)

Item == Node("listItem", <<>>, <<>>, <<Words, Node("hardBreak", <<>>, <<>>, <<>>)>>)

\* One document per shape of the conversion.
Docs ==
    {Node("doc", <<>>, <<>>, c) :
        c \in {<<Node(t, <<>>, <<>>, c1), Node("paragraph", <<>>, <<>>, <<Words>>)>> :
                t \in {"paragraph", "heading", "codeBlock", "blockquote", "rule", "media", "panel"},
                c1 \in {<<>>, <<Words>>}}
           \cup {<<[Node(t, <<>>, <<>>, IF a THEN <<Item>> ELSE <<>>) EXCEPT !.array = a]>> :
                t \in {"bulletList", "orderedList"}, a \in BOOLEAN}
           \cup {<<Node(t, w, <<"id">>, <<>>)>> :
                t \in {"mention", "emoji", "inlineCard"}, w \in {<<>>, <<"@name">>}}}

PlainDoc == Node("doc", <<>>, <<>>, <<Words>>)

Comment(id, who, at) == [id |-> id, who |-> who, at |-> at, body |-> PlainDoc]

JiraFeeds ==
    {<<Issue(1, h, <<>>, Other, -1)>> : h \in SeqOf(Changes, 3)}
    \cup {<<Issue(1, <<>>, <<Comment(1, w, at), Comment(2, Me, 7)>>, r, at)>> :
            w \in {Me, Other}, r \in {Me, Other}, at \in {-1, 0, 8}}
    \cup {<<Issue(1, <<>>, <<[Comment(1, Me, 3) EXCEPT !.body = d]>>, Other, 0)>> : d \in Docs}
    \cup {[i \in 1 .. k |-> Issue(i, <<>>, <<Comment(1, Me, 6)>>, Me, 3)] : k \in 0 .. 5}
    \cup {<<Issue(1, <<>>, <<>>, Me, 3), [Issue(2, <<>>, <<>>, Me, 3) EXCEPT !.lacks = l]>> :
            l \in SUBSET {"key", "project", "summary"}}

Hit(id, type, creator, created, version, editor, edited) ==
    [n |-> 1, id |-> id, type |-> type, space |-> p1, creator |-> creator,
     created |-> created, version |-> version, editor |-> editor, edited |-> edited,
     ancestors |-> <<>>, container |-> None, body |-> PlainDoc, lacks |-> {}]

\* The search gives one row per page; two are the fixture of the repository's
\* own walk test.
ConfluenceFeeds ==
    {<<[Hit(1, t, w, at, v, e, ed) EXCEPT !.container = p]>> :
        t \in {"page", "comment", "blogpost"}, w \in {Me, Other}, at \in {-1, 0, 8},
        v \in {1, 2}, e \in {Me, Other}, ed \in {0, 7, 8}, p \in {9, None}}
    \cup {<<[Hit(1, "comment", Me, 3, 1, Me, 3) EXCEPT !.ancestors = a, !.container = p, !.body = d]>> :
            a \in {<<>>, <<7, 8>>, <<None>>}, p \in {9, None}, d \in {None, PlainDoc}}
    \cup {<<Hit(1, "page", Me, -1, 3, Me, a), Hit(2, "page", Me, 3, 1, Me, 3),
            Hit(1, "page", Me, -1, 2, Me, b)>> : a \in 0 .. 8, b \in -1 .. 6}
    \cup {[i \in 1 .. k |-> Hit(i, "page", Me, 3, 1, Me, 3)] : k \in {0, 4, 5}}
    \cup {<<Hit(1, "page", Me, 3, 1, Me, 3), [Hit(2, t, Me, 3, 1, Me, 3) EXCEPT !.lacks = l]>> :
            t \in {"page", "blogpost"}, l \in SUBSET {"space", "history", "url", "webui"}}

Meeting(n, start, end, organizer, response) ==
    [n |-> n, start |-> start, end |-> end, cancelled |-> FALSE, allDay |-> FALSE,
     free |-> FALSE, organizer |-> organizer, response |-> response, private |-> FALSE,
     body |-> 1, lacks |-> {}]

OutlookFeeds ==
    {<<Meeting(1, t[1], t[2], o, r)>> :
        t \in {<<-1, 1>>, <<0, 3>>, <<7, 9>>}, o \in {Me, Other},
        r \in {"none", "accepted", "declined", "tentativelyAccepted"}}
    \cup {<<[Meeting(1, 0, 3, Me, "none") EXCEPT !.cancelled = c, !.allDay = a, !.free = f,
                !.private = p]>> : c, a, f, p \in BOOLEAN}
    \cup {[i \in 1 .. k |-> Meeting(i, i, i + 1, Me, "none")] : k \in 0 .. 5}
    \cup {<<[Meeting(1, 0, 3, Me, "none") EXCEPT !.lacks = {"start"}],
            Meeting(2, 3, 4, Me, "none")>>}

Commit(sha, author, committer, at) ==
    [sha |-> sha, author |-> author, committer |-> committer, at |-> at, body |-> 1,
     on |-> {"local"}]

Dirs == {<<1>>, <<1, 1>>, <<1, 2>>, <<1, 1, 1>>, <<2>>, <<2, 1>>}

Trees ==
    {t \in [Dirs -> {"plain", "git", "skipped", "unreadable"}] :
        /\ t[<<1>>] \in {"plain", "git", "unreadable"} /\ t[<<2>>] \in {"plain", "git"}
        /\ t[<<1, 2>>] \in {"plain", "git"} /\ t[<<2, 1>>] \in {"plain", "git"}
        /\ t[<<1, 1, 1>>] = "git"}

LocalFeeds ==
    {<<[n |-> 1, tree |-> t, roots |-> r, private |-> p,
        commits |-> [d \in Dirs |-> {Commit(d, Me, None, 6), Commit(<<0>>, Other, Me, 0),
                                     Commit(<<9>>, Other, Other, 3), Commit(<<8>>, Me, Me, 8),
                                     [Commit(<<7>>, Me, Me, 3) EXCEPT !.on = {"head"}],
                                     [Commit(<<6>>, Me, Me, 3) EXCEPT !.on = {"remote", "tag"}]}]]>> :
        t \in Trees, r \in {<<<<1>>, <<2>>>>, <<<<1>>, <<3>>>>}, p \in {{}, {<<1, 1>>}}}

MCFeeds ==
    {Up("gitlab", f, <<>>, Ids("gitlab")) : f \in GitlabFeeds}
    \cup {Up("gitlab", <<GitlabRow("opened", "Issue", Me, 3, p1, 5)>>, <<>>, {})}
    \cup {Up("github", f[1], f[2], Ids("github")) : f \in GithubFeeds}
    \cup {Up("jira", f, <<>>, Ids("jira")) : f \in JiraFeeds}
    \cup {Up("confluence", f, <<>>, Ids("confluence")) : f \in ConfluenceFeeds}
    \cup {Up("outlook", f, <<>>, Ids("outlook")) : f \in OutlookFeeds}
    \cup {Up("localgit", f, <<>>, Ids("localgit")) : f \in LocalFeeds}
    \cup {Foreign(Up(p, <<>>, <<>>, Ids(p))) : p \in {"github", "jira", "confluence", "outlook"}}
    \cup {Up("github", <<GithubRow("PushEvent", None, Me, 3, 1)>>, <<>>, {"GitHubUserId"}),
          Up("jira", <<Issue(1, <<>>, <<Comment(1, Me, 6)>>, Me, 3)>>, <<>>, {})}

MCArrivals ==
    [gitlab |-> {[GitlabRow("opened", "Issue", Me, at, p2, 5) EXCEPT !.n = 0] : at \in {6, 8}},
     github |-> {[GithubRow("IssuesEvent", "opened", Me, at, 3) EXCEPT !.n = 0] : at \in {6, 8}}]

=============================================================================
