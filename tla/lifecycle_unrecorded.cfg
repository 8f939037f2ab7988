\* Two overlapping calls, no fault of the database.
CONSTANTS
    Nil = Nil
    Runs = {r1, r2}
    Keys = {k1}
    MayFail = {}
SPECIFICATION Spec
INVARIANT EndedRunIsRecorded
