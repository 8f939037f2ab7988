-------------------------- MODULE MCOutlookTokens --------------------------
(* Model values for TLC. *)
EXTENDS OutlookTokens, TLC

Symmetry == Permutations(Logins) \cup Permutations(Sources)
              \cup Permutations(Adds) \cup Permutations(Auths)
=============================================================================
