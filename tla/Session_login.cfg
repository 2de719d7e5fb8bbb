SPECIFICATION SessionSpec
CONSTANTS
    Api = {q1}
    MaxToken = 2
CHECK_DEADLOCK FALSE
PROPERTY SignedInArrives
