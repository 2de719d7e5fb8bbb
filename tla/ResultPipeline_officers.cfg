\* Two officers, a reconciliation case, a correction, an election that ends.
SPECIFICATION Spec
CONSTANTS
  None = None
  PU = {p1}
  Result = {r1, r2}
  Dispute = {}
  Case = {c1}
  Officer = {o1, o2}
  Client = {k1}
  Status = {"voting", "declared"}
SYMMETRY Symmetry
INVARIANTS SubmitterApart
CHECK_DEADLOCK FALSE
