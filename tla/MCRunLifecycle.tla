--------------------------- MODULE MCRunLifecycle ---------------------------
(* Model values for RunLifecycle.  Run ids are interchangeable (v4 uuids),  *)
(* and so are keys.                                                         *)
EXTENDS RunLifecycle, TLC

Symmetry == Permutations(Runs) \cup Permutations(Keys)

=============================================================================
