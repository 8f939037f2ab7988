--------------------------- MODULE LocalGitEvents ---------------------------
(***************************************************************************)
(* connector-local-git: which repositories a scan finds under its roots,   *)
(* and the events of one repository's commits of the day.                  *)
(*                                                                         *)
(* A directory is a tuple of names below the file system's root; a tree    *)
(* maps the directories there are to "plain", "git", "skipped" (a hidden,  *)
(* macOS-protected or linked directory) or "unreadable".  A commit is      *)
(*   [sha, author, committer, at, body, on]                                *)
(* whose author or committer may be None (no signature), on the refs it    *)
(* can be reached from: "head", "local", "remote" and "tag".               *)
(***************************************************************************)
EXTENDS Activity, TLC

CONSTANTS MaxDepth, MaxRoots    \* DiscoveryConfig: 6 and 512 in the code

\* children in compare_paths order: names are numbers here.
ChildrenOf(tree, dir) ==
    LET here == {d \in DOMAIN tree : Len(d) = Len(dir) + 1 /\ IsPrefix(dir, d)
                                     /\ tree[d] # "skipped"}
    IN SetToSortSeq(here, LAMBDA a, b : Last(a) < Last(b))

\* One round of the queue: a repository is not descended into, nor is a
\* directory that cannot be read.
NextLevel(tree, level) ==
    Flat([i \in DOMAIN level |->
            IF tree[level[i]] = "plain" THEN ChildrenOf(tree, level[i]) ELSE <<>>])

Levels(tree, root) ==
    LET level[d \in 0 .. MaxDepth] ==
            IF d = 0 THEN <<root>> ELSE NextLevel(tree, level[d - 1])
    IN [d \in 1 .. MaxDepth + 1 |-> level[d - 1]]

\* What a scan of the first k roots visits, and the repositories among it.
Visited(tree, roots, k) ==
    Flat([i \in 1 .. k |->
            IF roots[i] \in DOMAIN tree THEN Flat(Levels(tree, roots[i])) ELSE <<>>])

ReposOf(tree, visited) == SelectSeq(visited, LAMBDA d : tree[d] = "git")

\* The cap bites when a directory is still to be visited after the last
\* repository it admits.
CutOff(tree, visited) ==
    LET repos == ReposOf(tree, visited)
    IN Len(repos) >= MaxRoots /\ Last(visited) # repos[MaxRoots]

\* A root that is not there, or cannot be read, fails the scan that reaches it.
BadRoot(tree, roots, i) ==
    LET before == Visited(tree, roots, i - 1)
    IN IF roots[i] \notin DOMAIN tree THEN ~CutOff(tree, before)
       ELSE tree[roots[i]] = "unreadable" /\ Len(ReposOf(tree, before)) < MaxRoots

\* discover_repos: breadth first, root after root, at most MaxRoots
\* repositories; a root that is missing or unreadable fails the scan.
Discover(tree, roots) ==
    LET visited == Visited(tree, roots, Len(roots))
        repos   == ReposOf(tree, visited)
        cut     == CutOff(tree, visited)
    IN [error     |-> \E i \in DOMAIN roots : BadRoot(tree, roots, i),
        repos     |-> IF cut THEN SubSeq(repos, 1, MaxRoots) ELSE repos,
        truncated |-> cut]

\* build_commit_event: known by its sha in whatever repository it was found.
CommitEvent(src, repo, c) ==
    [Event(src, <<"sha", c.sha>>, "CommitAuthored", c.at, Me)
        EXCEPT !.links = {<<"file", repo>>},
               !.repo  = repo,
               !.body  = c.body]

\* redact_private_event: title, body, entities and metadata go; the link and
\* the author stay.
Redact(e) == [e EXCEPT !.body = 0, !.repo = None, !.parent = None, !.private = TRUE]

\* push_every_branch_tip: HEAD, which may be detached, and the local branches.
FromBranchTips(c) == c.on \cap {"head", "local"} # {}

\* The day of a commit is its committer's, in the local zone; it is the user's
\* if either signature is.
KeepsCommit(c) == FromBranchTips(c) /\ InDay(c.at) /\ Me \in {c.author, c.committer}

\* walk_repo_for_day: the events of the branches' commits, redacted in a private
\* repository, and one CommitSet artifact if there are any.
WalkRepo(src, repo, commits, private) ==
    LET kept   == SetToSeq({c \in commits : KeepsCommit(c)})
        event(c) == IF private THEN Redact(CommitEvent(src, repo, c)) ELSE CommitEvent(src, repo, c)
    IN [i \in DOMAIN kept |-> event(kept[i])]

CommitSetOf(src, repo, events) ==
    IF events = <<>> THEN <<>>
    ELSE << [src |-> src, repo |-> repo, ids |-> {IdOf(events[i]) : i \in DOMAIN events}] >>

=============================================================================
