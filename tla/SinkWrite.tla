------------------------------ MODULE SinkWrite ------------------------------
(***************************************************************************)
(* Saving a draft with crates/sinks/sink-markdown-file: every save walks   *)
(* its destination directories and, in each, takes the sentinel lock of    *)
(* the day's note, reads it, splices its block in, writes a temp file and  *)
(* renames it over the note.  Saves run on different threads (report_save  *)
(* and the scheduler), the user edits the same notes with an editor that   *)
(* knows nothing of the lock, the process dies between any two system      *)
(* calls, and the constructor of the next process sweeps the debris.       *)
(*                                                                         *)
(* All saves here are for one day, so a directory stands for one note:     *)
(* saves of different days share no file.  How the block is spliced into   *)
(* the text is module MarkerBlocks.                                        *)
(***************************************************************************)
EXTENDS Naturals

CONSTANTS
    Saves,       \* the save_report calls that can be made
    Dirs,        \* the directories in dest_dirs of the configured sinks
    None,        \* no save
    MaxEdits,    \* bound: edits the user makes to one note
    SweptDirs,   \* what MarkdownFileSink::new is given (the app gives nothing)
    MayFail      \* the kinds of system call that may return an error

\* Reading the draft row; opening the sentinel, reading the note, opening,
\* writing and renaming the temp file, removing the sentinel.
FaultKinds == {"load", "lock", "read", "create", "write", "rename", "unlock"}

ASSUME NoneIsNoSave == None \notin Saves
ASSUME MaxEditsIsNat == MaxEdits \in Nat
ASSUME SweptDirsAreDirs == SweptDirs \subseteq Dirs
ASSUME MayFailKinds == MayFail \subseteq FaultKinds

VARIABLES
    \* the file system
    file,        \* the note of each directory, see Note
    lock,        \* the save whose sentinel lies beside the note, or None
    tmp,         \* the temp files: "none", "partial" or "full"
    \* one call per save
    pc,          \* the next system call
    left,        \* destinations not yet visited
    at,          \* the destination being written
    base,        \* the note as it was read
    written,     \* destinations_written
    result,      \* what the caller got
    \* the process
    proc,        \* "up" | "down"
    \* bookkeeping of the specification, read by no action
    installed,   \* the saves renamed over each note so far
    sweptAll     \* everything the last boot found was old enough to sweep

files == <<file, lock, tmp>>
call == <<left, at, base, written, result>>
ghosts == <<installed, sweptAll>>
vars == <<files, pc, call, proc, ghosts>>

(***************************************************************************)
(* Notes and control states                                                *)
(***************************************************************************)

\* `user`: which edit the user's own text is at.  `block`: the save whose block
\* the note holds.  `form`: "malformed" does not parse, "special" is a directory
\* or a FIFO.  `whole`: no torn write.
Forms == {"regular", "malformed", "symlink", "special"}

Note == [user : 0..MaxEdits, block : Saves \cup {None},
         form : Forms, whole : BOOLEAN]

\* A missing file reads as the empty text.
Blank == [user |-> 0, block |-> None, form |-> "regular", whole |-> TRUE]

\* Between lock::acquire and the drop of its guard.
Critical == {"read", "create", "write", "install", "release"}

Control == Critical \cup {"idle", "next", "done", "lost"}

TypeOK ==
    /\ file \in [Dirs -> Note]
    /\ lock \in [Dirs -> Saves \cup {None}]
    /\ tmp \in [Dirs -> [Saves -> {"none", "partial", "full"}]]
    /\ pc \in [Saves -> Control]
    /\ left \in [Saves -> SUBSET Dirs]
    /\ at \in [Saves -> Dirs \cup {None}]
    /\ \A w \in Saves : pc[w] \in Critical => at[w] \in left[w]
    /\ base \in [Saves -> Note]
    /\ written \in [Saves -> SUBSET Dirs]
    /\ result \in [Saves -> {"none", "receipt", "error"}]
    /\ proc \in {"up", "down"}
    /\ installed \in [Dirs -> SUBSET Saves]
    /\ sweptAll \in BOOLEAN

Init ==
    /\ file = [d \in Dirs |-> Blank]
    /\ lock = [d \in Dirs |-> None]
    /\ tmp = [d \in Dirs |-> [w \in Saves |-> "none"]]
    /\ pc = [w \in Saves |-> "idle"]
    /\ left = [w \in Saves |-> {}]
    /\ at = [w \in Saves |-> None]
    /\ base = [w \in Saves |-> Blank]
    /\ written = [w \in Saves |-> {}]
    /\ result = [w \in Saves |-> "none"]
    /\ proc = "down"
    /\ installed = [d \in Dirs |-> {}]
    /\ sweptAll = FALSE

(***************************************************************************)
(* Helpers                                                                 *)
(***************************************************************************)

Goto(w, label) == pc' = [pc EXCEPT ![w] = label]

Calling(w, label) == proc = "up" /\ pc[w] = label

SetTmp(w, state) == tmp' = [tmp EXCEPT ![at[w]] = [@ EXCEPT ![w] = state]]

\* The step ends write_one with an error: the guard is dropped next.
Refuse(w) ==
    /\ Goto(w, "release")
    /\ UNCHANGED <<file, lock, call, proc, ghosts>>

\* markers::splice keeps everything but the day's block.
Splice(note, w) == [note EXCEPT !.block = w]

(***************************************************************************)
(* save_report                                                             *)
(***************************************************************************)

\* The draft is loaded, the adapter starts on its non-empty dest_dirs.
StartSave(w, dests) ==
    /\ Calling(w, "idle")
    /\ dests # {}
    /\ left' = [left EXCEPT ![w] = dests]
    /\ Goto(w, "next")
    /\ UNCHANGED <<files, at, base, written, result, proc, ghosts>>

LoadDraftFails(w) ==
    /\ Calling(w, "idle")
    /\ "load" \in MayFail
    /\ result' = [result EXCEPT ![w] = "error"]
    /\ Goto(w, "done")
    /\ UNCHANGED <<files, left, at, base, written, proc, ghosts>>

(***************************************************************************)
(* write_one: one destination                                              *)
(***************************************************************************)

\* lock::acquire, open(create_new).
AcquireLock(w, d) ==
    /\ Calling(w, "next")
    /\ d \in left[w]
    /\ lock[d] = None
    /\ lock' = [lock EXCEPT ![d] = w]
    /\ at' = [at EXCEPT ![w] = d]
    /\ Goto(w, "read")
    /\ UNCHANGED <<file, tmp, left, base, written, result, proc, ghosts>>

\* Variant: runs the drop of a guard it does not have.
LockRefusedAndDropped(w, d) ==
    /\ Calling(w, "next")
    /\ d \in left[w]
    /\ lock[d] # None \/ "lock" \in MayFail
    /\ lock' = [lock EXCEPT ![d] = None]
    /\ left' = [left EXCEPT ![w] = @ \ {d}]
    /\ UNCHANGED <<file, tmp, pc, at, base, written, result, proc, ghosts>>

\* AlreadyHeld, or an I/O error: this destination failed, on to the next.
LockRefused(w, d) ==
    /\ Calling(w, "next")
    /\ d \in left[w]
    /\ lock[d] # None \/ "lock" \in MayFail
    /\ left' = [left EXCEPT ![w] = @ \ {d}]
    /\ UNCHANGED <<files, pc, at, base, written, result, proc, ghosts>>

\* read_target_if_any and markers::parse.
ReadTarget(w) ==
    /\ Calling(w, "read")
    /\ file[at[w]].form = "regular"
    /\ base' = [base EXCEPT ![w] = file[at[w]]]
    /\ Goto(w, "create")
    /\ UNCHANGED <<files, left, at, written, result, proc, ghosts>>

ReadRefused(w) ==
    /\ Calling(w, "read")
    /\ file[at[w]].form # "regular" \/ "read" \in MayFail
    /\ Refuse(w)
    /\ UNCHANGED tmp

\* atomic_write: the second look at the target, and open(create_new).
CreateTmp(w) ==
    /\ Calling(w, "create")
    /\ file[at[w]].form # "symlink"
    /\ SetTmp(w, "partial")
    /\ Goto(w, "write")
    /\ UNCHANGED <<file, lock, call, proc, ghosts>>

CreateRefused(w) ==
    /\ Calling(w, "create")
    /\ file[at[w]].form = "symlink" \/ "create" \in MayFail
    /\ Refuse(w)
    /\ UNCHANGED tmp

\* write_all and sync_all.
WriteTmp(w) ==
    /\ Calling(w, "write")
    /\ SetTmp(w, "full")
    /\ Goto(w, "install")
    /\ UNCHANGED <<file, lock, call, proc, ghosts>>

\* The `?` returns at once: the temp file stays until a sweep.
WriteFails(w) ==
    /\ Calling(w, "write")
    /\ "write" \in MayFail
    /\ Refuse(w)
    /\ UNCHANGED tmp

\* set_permissions and rename (which replaces a FIFO, but not a directory), and
\* the adapter counts the destination.
Install(w) ==
    /\ Calling(w, "install")
    /\ file' = [file EXCEPT ![at[w]] =
          [Splice(base[w], w) EXCEPT !.whole = (tmp[at[w]][w] = "full")]]
    /\ SetTmp(w, "none")
    /\ written' = [written EXCEPT ![w] = @ \cup {at[w]}]
    /\ installed' = [installed EXCEPT ![at[w]] = @ \cup {w}]
    /\ Goto(w, "release")
    /\ UNCHANGED <<lock, left, at, base, result, proc, sweptAll>>

InstallFails(w) ==
    /\ Calling(w, "install")
    /\ file[at[w]].form = "special" \/ "rename" \in MayFail
    /\ Refuse(w)
    /\ UNCHANGED tmp

\* LockGuard::drop.  A sentinel it cannot remove stays, with a warning.
ReleaseLock(w) ==
    /\ Calling(w, "release")
    /\ \/ lock' = [lock EXCEPT ![at[w]] = None]
       \/ "unlock" \in MayFail /\ UNCHANGED lock
    /\ left' = [left EXCEPT ![w] = @ \ {at[w]}]
    /\ at' = [at EXCEPT ![w] = None]
    /\ base' = [base EXCEPT ![w] = Blank]
    /\ Goto(w, "next")
    /\ UNCHANGED <<file, tmp, written, result, proc, ghosts>>

\* Variant: one failed destination fails the save.
FinishAllOrError(w) ==
    /\ Calling(w, "next")
    /\ left[w] = {}
    /\ result' = [result EXCEPT ![w] =
          IF written[w] = Dirs THEN "receipt" ELSE "error"]
    /\ Goto(w, "done")
    /\ UNCHANGED <<files, left, at, base, written, proc, ghosts>>

\* A receipt for the destinations written, an error only if there are none.
FinishSave(w) ==
    /\ Calling(w, "next")
    /\ left[w] = {}
    /\ result' = [result EXCEPT ![w] =
          IF written[w] = {} THEN "error" ELSE "receipt"]
    /\ Goto(w, "done")
    /\ UNCHANGED <<files, left, at, base, written, proc, ghosts>>

(***************************************************************************)
(* The user's editor, a crash, and the next process                        *)
(***************************************************************************)

\* Any change to the note, its deletion included: it may lose the block, stop
\* parsing or be replaced by something that is not a regular file.
UserEdit(d) ==
    /\ file[d].user < MaxEdits
    /\ \E block \in {file[d].block, None}, form \in Forms :
            file' = [file EXCEPT ![d] = [user |-> file[d].user + 1,
                        block |-> block, form |-> form, whole |-> TRUE]]
    /\ UNCHANGED <<lock, tmp, pc, call, proc, ghosts>>

\* Nothing is cleaned up: the guard's drop does not run.
Crash ==
    /\ proc = "up"
    /\ proc' = "down"
    /\ pc' = [w \in Saves |-> IF pc[w] \in {"idle", "done"} THEN pc[w] ELSE "lost"]
    /\ left' = [w \in Saves |-> {}]
    /\ at' = [w \in Saves |-> None]
    /\ base' = [w \in Saves |-> Blank]
    /\ sweptAll' = FALSE
    /\ UNCHANGED <<files, written, result, installed>>

\* Variant: looks for temp files only.
SweepTmpOnly(old) ==
    /\ proc = "down"
    /\ proc' = "up"
    /\ tmp' = [d \in Dirs |-> IF d \in old \cap SweptDirs
                              THEN [w \in Saves |-> "none"] ELSE tmp[d]]
    /\ sweptAll' = (old = Dirs)
    /\ UNCHANGED <<file, lock, pc, call, installed>>

\* MarkdownFileSink::new sweeps each directory it is given.  `old`: where the
\* leftovers are older than STALE_TMP_AGE and can be removed.
Boot(old) ==
    /\ proc = "down"
    /\ proc' = "up"
    /\ lock' = [d \in Dirs |-> IF d \in old \cap SweptDirs THEN None ELSE lock[d]]
    /\ tmp' = [d \in Dirs |-> IF d \in old \cap SweptDirs
                              THEN [w \in Saves |-> "none"] ELSE tmp[d]]
    /\ sweptAll' = (old = Dirs)
    /\ UNCHANGED <<file, pc, call, installed>>

(***************************************************************************)
(* Specification                                                           *)
(***************************************************************************)

Step(w) ==
    \/ \E dests \in SUBSET Dirs : StartSave(w, dests)
    \/ LoadDraftFails(w)
    \/ \E d \in Dirs : AcquireLock(w, d) \/ LockRefused(w, d)
    \/ ReadTarget(w) \/ ReadRefused(w)
    \/ CreateTmp(w) \/ CreateRefused(w)
    \/ WriteTmp(w) \/ WriteFails(w)
    \/ Install(w) \/ InstallFails(w)
    \/ ReleaseLock(w) \/ FinishSave(w)

Next ==
    \/ \E w \in Saves : Step(w)
    \/ \E d \in Dirs : UserEdit(d)
    \/ Crash
    \/ \E old \in SUBSET Dirs : Boot(old)

Spec == Init /\ [][Next]_vars

(***************************************************************************)
(* Properties                                                              *)
(***************************************************************************)

\* The sentinel keeps two saves out of one note, across refusals, errors,
\* crashes with a sentinel left behind, and the sweep at boot: whoever is
\* between lock::acquire and the drop of its guard owns the sentinel.
OneWriterPerTarget ==
    \A w \in Saves : pc[w] \in Critical => lock[at[w]] = w

\* atomic.rs: the rename is the single observable mutation of the target.
\* Whatever failed or crashed, the note is never half a note.
TargetIsWhole == \A d \in Dirs : file[d].whole

\* lock.rs and atomic.rs together: one save at a time writes to a note, and none
\* leaves it half written.
TargetIsGuarded == OneWriterPerTarget /\ TargetIsWhole

\* adapter.rs, invariant #5: a receipt lists exactly the notes that were
\* replaced, a failure at one destination takes back no other, and a save that
\* reports an error replaced nothing.
ReceiptIsTruthful ==
    \A w \in Saves :
        /\ written[w] = {d \in Dirs : w \in installed[d]}
        /\ result[w] = "receipt" => written[w] # {}
        /\ result[w] = "error" => written[w] = {}

\* lock.rs: two concurrent saves never interleave their read and rename.  What
\* a rename replaces is the note its save read, unless the user edited it in
\* between (the one lost update the sentinel cannot prevent).
SavesAreSerialised ==
    [][\A w \in Saves, d \in Dirs : w \in installed'[d] \ installed[d] =>
          file[d] = base[w] \/ file[d].user > base[w].user]_vars

\* Nothing a dead process left beside the note of d: no sentinel, no temp file.
NoDebris(d) ==
    /\ lock[d] # None => pc[lock[d]] # "lost"
    /\ \A w \in Saves : pc[w] = "lost" => tmp[d][w] = "none"

\* atomic.rs, sweep_orphans: a directory the constructor was given holds no
\* debris of an earlier process once it was old enough to be swept.
SweptDirIsClean ==
    proc = "up" /\ sweptAll => \A d \in SweptDirs : NoDebris(d)

(***************************************************************************)
(* What the comments promise and the app does not do (see README)          *)
(***************************************************************************)

\* lock.rs: a sentinel left by a crash is "cleared by the next init-time orphan
\* sweep" -- in every destination, once it is old enough.
CrashDebrisIsSwept ==
    proc = "up" /\ sweptAll => \A d \in Dirs : NoDebris(d)

=============================================================================
