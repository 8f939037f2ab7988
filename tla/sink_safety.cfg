\* Two saves into overlapping sets of two directories, an editor, every system
\* call fallible, crashes and restarts anywhere; one directory is swept.
CONSTANTS
    None = None
    Saves = {w1, w2}
    Dirs = {d1, d2}
    MaxEdits = 1
    SweptDirs = {d1}
    MayFail = {"load", "lock", "read", "create", "write", "rename", "unlock"}
SPECIFICATION Spec
INVARIANTS
    TargetIsGuarded
    ReceiptIsTruthful
    SweptDirIsClean
