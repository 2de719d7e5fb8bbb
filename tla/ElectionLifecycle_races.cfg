\* Two administrators race while the results change.
SPECIFICATION LifecycleSpec
CONSTANTS
  None = None
  Case = {}
  Status <- ElectionState
  PU = {p1}
  Result = {r1, r2}
  Dispute = {d1}
  Officer = {o1}
  Client = {k1}
  Admin = {a1, a2}
SYMMETRY Symmetry
INVARIANTS DeclarationBacked
PROPERTIES RacersSerialize
CHECK_DEADLOCK FALSE
