---------------------------- MODULE MCIngestion ----------------------------
(* Small instances of Ingestion.                                           *)
EXTENDS Ingestion, TLC

\* Every item is about the same polling unit.
SameUnit == [i \in Item |-> "u1"]

Symmetry == Permutations(Replica)
=============================================================================
