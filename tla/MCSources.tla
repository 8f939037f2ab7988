----------------------------- MODULE MCSources -----------------------------
(* Sources for TLC: a workspace, a project inside it, a root elsewhere.     *)
EXTENDS Sources, TLC

MCRoots == {<<"w">>, <<"w", "a">>, <<"x">>}
MCRepos == {<<"w", "a", "r">>, <<"x", "r">>}

Symmetry == Permutations(Slots) \cup Permutations(Accounts) \cup Permutations(Commands)

=============================================================================
