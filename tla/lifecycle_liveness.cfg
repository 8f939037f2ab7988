\* Two calls for one key under fairness, with crashes; only the recovery sweep
\* of a boot is assumed not to fail.
CONSTANTS
    Nil = Nil
    Runs = {r1, r2}
    Keys = {k1}
    MayFail = {"insert", "mark", "events", "draft"}
SPECIFICATION FairSpec
PROPERTIES
    CancelWhileFetchingDropsReport
    SlotIsReleased
    LostRowsAreRepaired
