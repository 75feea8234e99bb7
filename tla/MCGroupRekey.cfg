CONSTANTS
    Stations = {s1, s2}
    UpdateCount = 2
    MaxRekeys = 2
    MaxPtkRekeys = 1
    MaxAssociations = 2
SPECIFICATION Spec
INVARIANTS CountExact 
 
CHECK_DEADLOCK FALSE
