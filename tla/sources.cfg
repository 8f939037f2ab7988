CONSTANTS
    Slots = {s1, s2, s3}
    Accounts = {me, other}
    None = None
    Roots <- MCRoots
    Repos <- MCRepos
    Commands = {c1, c2}
    MaxOps = 4
    MaxFaults = 2
SPECIFICATION Spec
SYMMETRY Symmetry
INVARIANTS SourceKeepsItsSecret FailedAddLeavesNothing SourceKnowsItsUser
PROPERTIES RescanKeepsRepos
CHECK_DEADLOCK FALSE
