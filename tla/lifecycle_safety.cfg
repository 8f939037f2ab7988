\* Three calls racing for two keys, every database call fallible, crashes and
\* restarts anywhere.
CONSTANTS
    Nil = Nil
    Runs = {r1, r2, r3}
    Keys = {k1, k2}
    MayFail = {"insert", "mark", "events", "draft", "recovery"}
SPECIFICATION Spec
SYMMETRY Symmetry
INVARIANTS
    SlotIsSound
    SupersedeLinkIsSound
    RowsAreTruthful
    RecoveryIsExact
PROPERTIES
    ImplementsLedger
