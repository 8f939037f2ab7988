------------------------------ MODULE Discovery ------------------------------
(***************************************************************************)
(* Finding the repositories below the scan roots                           *)
(* (crates/connectors/connector-local-git/src/discovery.rs): a breadth-    *)
(* first walk that stops at a repository, at a depth, and at a number of   *)
(* repositories.  The file system is chosen at the start and stands still. *)
(* The App Store build (apps/desktop/src-tauri: local_git_scan.rs) walks   *)
(* one root at a time, each under the bookmark kept for it, with what the  *)
(* roots before have left of the limit.                                    *)
(***************************************************************************)
EXTENDS Naturals, Sequences, SequencesExt, FiniteSets

CONSTANTS Dirs,       \* directories, numbered in the order their names sort
          ParentOf,   \* the parent of each, 0 for those at the top
          RootLists,  \* the lists of scan roots a source can have
          MaxDepth,   \* DiscoveryConfig::max_depth
          MaxRoots    \* DiscoveryConfig::max_roots

\* "skipped": hidden, under a macOS-protected name, or a link; "locked": it
\* cannot be read; "missing": it is not there.
DirKinds == {"plain", "repo", "skipped", "skippedrepo", "locked", "missing"}

VARIABLES
    kindOf,      \* what each directory is
    roots,       \* the scan roots still to walk, the first one under way
    fringe,      \* `queue`: directories to visit with their depth
    found,       \* `out`
    truncated,
    discovered,  \* "walking", "failed" or "done"
    scoped,      \* whether this is the App Store build
    staleRoots,  \* stale_bookmarked_scan_roots
    asked        \* bookkeeping: the scan roots

discoveryVars == <<kindOf, roots, fringe, found, truncated, discovered, scoped, staleRoots,
                   asked>>

Children(d) == {c \in Dirs : ParentOf[c] = d}

DiscoveryInit ==
    /\ kindOf \in [Dirs -> DirKinds]
    /\ \A d \in Dirs : \A c \in Children(d) :
         kindOf[d] = "missing" => kindOf[c] = "missing"
    /\ roots \in RootLists /\ asked = ToSet(roots)
    /\ fringe = <<>> /\ found = <<>> /\ truncated = FALSE /\ discovered = "walking"
    /\ scoped \in BOOLEAN /\ staleRoots = {}

\* is_git_repo
IsGitRepo(d) == kindOf[d] \in {"repo", "skippedrepo"}

\* The directories below d the walk goes on to, in order of their names.
Entries(d) ==
    SetToSortSeq({c \in Children(d) : kindOf[c] \in {"plain", "repo", "locked"}}, <)

Stay == UNCHANGED <<kindOf, scoped, asked>>

\* What macOS makes of the bookmark kept for a root.
Grants == {"none", "held", "stale", "unresolved", "denied"}

\* mas_macos_discover, before each root: the limit the earlier ones used up
\* ends the walk; a bookmark that is not good is noted and the root is walked
\* without it.
MasStop == scoped /\ Len(found) >= MaxRoots

StopBeforeRoot ==
    /\ discovered = "walking" /\ fringe = <<>> /\ roots # <<>> /\ MasStop
    /\ truncated' = TRUE /\ roots' = <<>>
    /\ UNCHANGED <<fringe, found, discovered, staleRoots>> /\ Stay

NoteStaleRoot(root) ==
    \E grant \in IF scoped THEN Grants ELSE {"none"} :
        staleRoots' = IF grant \in {"none", "held"} THEN staleRoots ELSE staleRoots \cup {root}

\* list_local_git_scan_rows fails: nothing is walked.
RowsUnread ==
    /\ scoped /\ discovered = "walking" /\ fringe = <<>> /\ ToSet(roots) = asked
    /\ roots # <<>> /\ found = <<>>
    /\ discovered' = "failed"
    /\ UNCHANGED <<roots, fringe, found, truncated, staleRoots>> /\ Stay

\* The next scan root: its queue holds just the root.
EnterRoot ==
    /\ discovered = "walking" /\ fringe = <<>> /\ roots # <<>> /\ ~MasStop
    /\ NoteStaleRoot(Head(roots))
    /\ IF kindOf[Head(roots)] = "missing"
       THEN discovered' = "failed" /\ UNCHANGED <<roots, fringe>>
       ELSE /\ fringe' = <<[dir |-> Head(roots), depth |-> 0]>>
            /\ roots' = Tail(roots) /\ UNCHANGED discovered
    /\ UNCHANGED <<found, truncated>> /\ Stay

AtBottom(depth) == depth >= MaxDepth

\* One turn of the loop over the queue.
Visit ==
    /\ discovered = "walking" /\ fringe # <<>>
    /\ LET d == Head(fringe).dir
           depth == Head(fringe).depth
           rest == Tail(fringe)
           below == [i \in 1 .. Len(Entries(d)) |-> [dir |-> Entries(d)[i], depth |-> depth + 1]]
       IN \/ /\ Len(found) >= MaxRoots
             /\ truncated' = TRUE /\ fringe' = <<>> /\ roots' = <<>>
             /\ UNCHANGED <<found, discovered>>
          \/ /\ Len(found) < MaxRoots /\ IsGitRepo(d)
             /\ found' = Append(found, d) /\ fringe' = rest
             /\ UNCHANGED <<roots, truncated, discovered>>
          \/ /\ Len(found) < MaxRoots /\ ~IsGitRepo(d)
             /\ (AtBottom(depth) \/ (kindOf[d] = "locked" /\ depth > 0))
             /\ fringe' = rest
             /\ UNCHANGED <<roots, found, truncated, discovered>>
          \/ /\ Len(found) < MaxRoots /\ ~IsGitRepo(d) /\ ~AtBottom(depth)
             /\ kindOf[d] = "locked" /\ depth = 0
             /\ discovered' = "failed"
             /\ UNCHANGED <<roots, fringe, found, truncated>>
          \/ /\ Len(found) < MaxRoots /\ ~IsGitRepo(d) /\ ~AtBottom(depth)
             /\ kindOf[d] # "locked"
             /\ fringe' = rest \o below
             /\ UNCHANGED <<roots, found, truncated, discovered>>
    /\ UNCHANGED staleRoots /\ Stay

\* Sorted, and without the repositories two overlapping roots both reach.
Finish ==
    /\ discovered = "walking" /\ fringe = <<>> /\ roots = <<>>
    /\ found' = SetToSortSeq(ToSet(found), <)
    /\ discovered' = "done"
    /\ UNCHANGED <<roots, fringe, truncated, staleRoots>> /\ Stay

DiscoveryNext == EnterRoot \/ StopBeforeRoot \/ RowsUnread \/ Visit \/ Finish

(***************************************************************************)
(* Properties                                                              *)
(***************************************************************************)

\* The directories on the way from a root down to d, both included.
Above[d \in {0} \cup Dirs] == IF d = 0 THEN {} ELSE {d} \cup Above[ParentOf[d]]

\* d is reached from root: no repository and nothing skipped, locked or too
\* deep in between.
ReachedFrom(root, d) ==
    LET way == Above[d] \ Above[ParentOf[root]] IN
    /\ root \in way
    /\ Cardinality(way) <= MaxDepth + 1
    /\ \A x \in way \ {d} : kindOf[x] \in IF x = root THEN {"plain", "skipped"} ELSE {"plain"}
    /\ d # root => kindOf[d] \in {"plain", "repo", "locked"}

Reachable == {d \in Dirs : IsGitRepo(d) /\ \E root \in asked : ReachedFrom(root, d)}

\* discovery.rs:86-105, local_git_scan.rs:14-17: in both builds every repository
\* below a root that is not hidden, kept private by macOS, in another
\* repository or too deep is found, once, in order, and nothing else; a walk
\* cut short says so, and only for the limit.  One fails only for a root that
\* is not there or cannot be read, or for bookmark rows that cannot be.
DiscoveryIsExact ==
    /\ truncated /\ discovered = "walking" => Len(found) >= MaxRoots
    /\ discovered = "done" =>
         /\ \A i, j \in 1 .. Len(found) : i < j => found[i] < found[j]
         /\ ToSet(found) \subseteq Reachable
         /\ ~truncated => ToSet(found) = Reachable
    /\ discovered = "failed" =>
         \/ scoped /\ found = <<>>
         \/ \E root \in asked : kindOf[root] \in {"missing", "locked"}

=============================================================================
