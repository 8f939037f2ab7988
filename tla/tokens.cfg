CONSTANTS
    Logins = {l1}
    MaxTokens = 3
    Sources = {s1}
    Adds = {a1, a2}
    Auths = {o1, o2}
    MaxFaults = 2
    None = None
SPECIFICATION Spec
INVARIANTS LoginIsSound PairFollowsSource NoTokenSentTwice
SYMMETRY Symmetry
CHECK_DEADLOCK FALSE
