\* Two backend processes: does the chain stay unforked?
SPECIFICATION Spec
CONSTANTS
  r1 = r1
  r2 = r2
  a = a
  b = b
  c = c
  Free = Free
  Replica = {r1, r2}
  Writer = {a, b, c}
  Host <- TwoReplicas
  MaxRows = 3
INVARIANTS NoFork
CHECK_DEADLOCK FALSE
