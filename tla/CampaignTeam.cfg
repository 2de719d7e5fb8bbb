SPECIFICATION RowSpec
CONSTANTS
    User = {u1, u2}
    Profile = {p1, p2}
    Member = {m1}
    Row = {r1}
    Call = {q1, q2}
    Nobody = Nobody
SYMMETRY Symmetry
CHECK_DEADLOCK FALSE
INVARIANTS TeamInv WritersBelong
PROPERTY RowsStay
