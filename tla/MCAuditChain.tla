---------------------------- MODULE MCAuditChain ----------------------------
(* A small instance of AuditChain.                                         *)
EXTENDS AuditChain

CONSTANTS r1, r2, a, b, c

\* Two goroutines share r1, the third runs on r2.
TwoReplicas == [w \in {a, b, c} |-> IF w = c THEN r2 ELSE r1]
=============================================================================
