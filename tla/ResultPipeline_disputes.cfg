\* Two disputes and corrections of corrections at one polling unit.
SPECIFICATION Spec
CONSTANTS
  None = None
  PU = {p1}
  Result = {r1, r2, r3}
  Dispute = {d1, d2}
  Case = {}
  Officer = {o1}
  Client = {k1}
  Status = {"voting"}
SYMMETRY Symmetry
INVARIANTS OneCanonicalResult EvidenceMatches CorrectionTrail
PROPERTIES DismissalRestores
CHECK_DEADLOCK FALSE
