------------------------ MODULE MCElectionLifecycle ------------------------
(* Small instances of ElectionLifecycle.                                   *)
EXTENDS ElectionLifecycle, TLC

Symmetry == Permutations(Result) \cup Permutations(PU) \cup Permutations(Admin)
=============================================================================
