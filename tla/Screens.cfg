SPECIFICATION Spec
CONSTANTS
    Key = {1, 2}
    MaxDraft = 2
    MaxAsks = 1
    MaxResent = 1
    s1 = s1
    s2 = s2
    Slot = {s1, s2}
    Nothing = Nothing
CHECK_DEADLOCK FALSE
  
PROPERTIES SpinnerEnds 
