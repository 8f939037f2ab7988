------------------------------ MODULE Bookmarks ------------------------------
(***************************************************************************)
(* Security-scoped bookmarks of the App Store build (dayseam-db:           *)
(* security_scoped_bookmarks.rs; ipc/commands.rs: sources_add,             *)
(* sources_update, sinks_add): the bookmark rows of one source's scan      *)
(* roots or of one sink's destinations follow the owner's configuration.   *)
(* The rows are brought in line statement by statement, with no bookmark;  *)
(* then every bookmark is made in memory and all are stored together.      *)
(* Any statement may fail.                                                 *)
(***************************************************************************)
EXTENDS Naturals, FiniteSets

CONSTANTS Pickers,   \* commands that may be under way
          Dests,     \* directories the user may pick
          NoOwner,   \* the source or sink is not there
          MaxPicks   \* bound: commands in a behaviour

VARIABLES
    keeper,    \* what the owner is: "source" or "sink"
    chosen,    \* its scan_roots or dest_dirs, or NoOwner
    marks,     \* per folder: "none", "empty" (bookmark_blob NULL) or "kept"
    pick,      \* the commands under way
    picks,
    covered    \* bookkeeping: the last command to write succeeded undisturbed

ASSUME NoOwnerIsNone == \A folders \in SUBSET Dests : NoOwner # folders

bookmarkVars == <<keeper, chosen, marks, pick, picks, covered>>

NoPick == [at |-> "idle"]

BookmarkInit ==
    /\ keeper \in {"source", "sink"} /\ chosen = NoOwner
    /\ marks = [f \in Dests |-> "none"]
    /\ pick = [c \in Pickers |-> NoPick]
    /\ picks = 0 /\ covered = FALSE

Picking(c, at) == pick[c].at = at
RowsNow(c) == {f \in Dests : marks[f] # "none"}
Moved(c, at) == pick' = [pick EXCEPT ![c].at = at]

\* A command begins: what is picked, and the folders that already have a
\* bookmark and keep their place.  Two at a time disturb each other.
Pick(c, at, op, folders) ==
    /\ pick[c] = NoPick /\ c = CHOOSE d \in Pickers : pick[d] = NoPick
    /\ picks < MaxPicks /\ picks' = picks + 1
    /\ LET alone == \A d \in Pickers : pick[d] = NoPick
           new == [at |-> at, op |-> op, want |-> folders, seen |-> {}, left |-> {},
                   alone |-> alone,
                   held |-> {f \in folders : marks[f] = "kept"}]
       IN pick' = [d \in Pickers |->
                     IF d = c THEN new
                     ELSE IF pick[d] = NoPick THEN NoPick
                     ELSE [pick[d] EXCEPT !.alone = FALSE]]

PickEnds(c, ok) ==
    /\ pick' = [pick EXCEPT ![c] = NoPick]
    /\ covered' = (ok /\ pick[c].alone)

\* sources_add, sinks_add: a sink must have a destination.  Each add makes
\* an owner of its own: the next one begins when nobody is about the last.
StartPickNew(c) ==
    /\ chosen = NoOwner /\ \A d \in Pickers : pick[d] = NoPick
    /\ \E folders \in SUBSET Dests :
         /\ keeper = "sink" => folders # {}
         /\ Pick(c, "insert", "add", folders)
    /\ UNCHANGED <<keeper, chosen, marks, covered>>

\* sources_update with new scan roots; a sink has no update.
StartRepick(c) ==
    /\ keeper = "source" /\ chosen # NoOwner
    /\ \E folders \in SUBSET Dests : Pick(c, "config", "update", folders)
    /\ UNCHANGED <<keeper, chosen, marks, covered>>

\* The row of the owner, or its changed configuration; an update of a row
\* that is gone changes nothing.
WriteOwner(c) ==
    /\ Picking(c, "insert") \/ Picking(c, "config")
    /\ \/ /\ chosen' = IF Picking(c, "config") /\ chosen = NoOwner THEN chosen
                       ELSE pick[c].want
          /\ covered' = FALSE
          /\ Moved(c, "list")
       \/ PickEnds(c, FALSE) /\ UNCHANGED chosen
    /\ UNCHANGED <<keeper, marks, picks>>

\* An error after the owner's row: the add takes the row back, if that
\* delete works, and with it its bookmark rows; an update leaves all as it is.
Abandon(c) ==
    /\ PickEnds(c, FALSE)
    /\ IF pick[c].op = "add"
       THEN \/ chosen' = NoOwner /\ marks' = [f \in Dests |-> "none"]
            \/ UNCHANGED <<chosen, marks>>
       ELSE UNCHANGED <<chosen, marks>>
    /\ UNCHANGED <<keeper, picks>>

SyncFails(c) ==
    /\ \E at \in {"list", "drop", "count", "place", "make", "replace"} : Picking(c, at)
    /\ Abandon(c)

\* The rows there are; no folders at all drops them in one statement.
ListRows(c) ==
    /\ Picking(c, "list")
    /\ IF pick[c].want = {}
       THEN /\ marks' = [f \in Dests |-> "none"]
            /\ Moved(c, "make")
       ELSE /\ pick' = [pick EXCEPT ![c].at = "drop", ![c].seen = RowsNow(c)]
            /\ UNCHANGED marks
    /\ UNCHANGED <<keeper, chosen, picks, covered>>

\* Variant: every row is dropped and made anew.
StaleRowsAll(c) == pick[c].seen

StaleRows(c) == pick[c].seen \ pick[c].want

DropStaleRow(c) ==
    /\ Picking(c, "drop")
    /\ IF StaleRows(c) = {}
       THEN /\ pick' = [pick EXCEPT ![c].at = "count", ![c].left = pick[c].want]
            /\ UNCHANGED marks
       ELSE \E f \in StaleRows(c) :
              /\ marks' = [marks EXCEPT ![f] = "none"]
              /\ pick' = [pick EXCEPT ![c].seen = @ \ {f}]
    /\ UNCHANGED <<keeper, chosen, picks, covered>>

\* For each folder: SELECT COUNT(*), and if there is none an INSERT with no
\* bookmark; the INSERT fails if another command put one there, or the owner
\* is gone.
CountRow(c) ==
    /\ Picking(c, "count")
    /\ IF pick[c].left = {}
       THEN Moved(c, "make")
       ELSE \E f \in pick[c].left :
              pick' = IF marks[f] = "none"
                      THEN [pick EXCEPT ![c].at = "place", ![c].seen = {f}]
                      ELSE [pick EXCEPT ![c].left = @ \ {f}]
    /\ UNCHANGED <<keeper, chosen, marks, picks, covered>>

PlaceRow(c) ==
    /\ Picking(c, "place")
    /\ \A f \in pick[c].seen :
         /\ marks[f] = "none" /\ chosen # NoOwner
         /\ marks' = [marks EXCEPT ![f] = "empty"]
         /\ pick' = [pick EXCEPT ![c].at = "count", ![c].left = @ \ {f}]
    /\ UNCHANGED <<keeper, chosen, picks, covered>>

\* create_directory_bookmark for every folder; SyncFails is one that is not
\* there or not a directory.
MakeBookmarks(c) ==
    /\ Picking(c, "make")
    /\ Moved(c, "replace")
    /\ UNCHANGED <<keeper, chosen, marks, picks, covered>>

\* replace_..._bookmark_blobs: one transaction, undone if a row is missing.
ReplaceBlobs(c) ==
    /\ Picking(c, "replace")
    /\ \A f \in pick[c].want : marks[f] # "none"
    /\ marks' = [f \in Dests |-> IF f \in pick[c].want THEN "kept" ELSE marks[f]]
    /\ PickEnds(c, TRUE)
    /\ UNCHANGED <<keeper, chosen, picks>>

RowMissing(c) ==
    /\ Picking(c, "replace")
    /\ \E f \in pick[c].want : marks[f] = "none"
    /\ Abandon(c)

\* sources_delete; the rows go with the source.
DropOwner ==
    /\ keeper = "source" /\ chosen # NoOwner /\ \E c \in Pickers : pick[c] = NoPick
    /\ chosen' = NoOwner /\ marks' = [f \in Dests |-> "none"]
    /\ pick' = [c \in Pickers |-> IF pick[c] = NoPick THEN NoPick
                                  ELSE [pick[c] EXCEPT !.alone = FALSE]]
    /\ covered' = FALSE
    /\ UNCHANGED <<keeper, picks>>

BookmarkNext ==
    \/ DropOwner
    \/ \E c \in Pickers :
         \/ StartPickNew(c) \/ StartRepick(c) \/ WriteOwner(c) \/ SyncFails(c) \/ ListRows(c)
         \/ DropStaleRow(c) \/ CountRow(c) \/ PlaceRow(c) \/ MakeBookmarks(c)
         \/ ReplaceBlobs(c) \/ RowMissing(c)

BookmarkSpec == BookmarkInit /\ [][BookmarkNext]_bookmarkVars

(***************************************************************************)
(* Properties                                                              *)
(***************************************************************************)

\* security_scoped_bookmarks.rs:77-81, 313-316, commands.rs:1092-1103: an
\* owner that is gone leaves no row; a command that succeeded undisturbed
\* leaves a bookmark for each of the owner's folders and no other row; and a
\* folder that stays keeps its bookmark at every point of an undisturbed
\* command, whichever statement fails.
BookmarksFollowFolders ==
    /\ chosen = NoOwner => \A f \in Dests : marks[f] = "none"
    /\ covered => \A f \in Dests : marks[f] = IF f \in chosen THEN "kept" ELSE "none"
    /\ \A c \in Pickers : pick[c] # NoPick /\ pick[c].alone =>
         \A f \in pick[c].held : marks[f] = "kept"

=============================================================================
