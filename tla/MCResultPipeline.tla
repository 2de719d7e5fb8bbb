-------------------------- MODULE MCResultPipeline --------------------------
(* Small instances of ResultPipeline: ids of one kind are interchangeable. *)
EXTENDS ResultPipeline, TLC

Symmetry == Permutations(Result) \cup Permutations(Officer)
                \cup Permutations(Dispute) \cup Permutations(PU)
=============================================================================
