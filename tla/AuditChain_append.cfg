\* Two backend processes on one database, with failures and crashes.
SPECIFICATION FairSpec
CONSTANTS
  r1 = r1
  r2 = r2
  a = a
  b = b
  c = c
  Free = Free
  Replica = {r1, r2}
  Writer = {a, b, c}
  Host <- TwoReplicas
  MaxRows = 4
INVARIANTS LinksToCommitted NoLocalFork
PROPERTIES AppendReturns
CHECK_DEADLOCK FALSE
