CONSTANTS
    t1 = t1
    t2 = t2
    Triggers <- TwoTriggers
    MaxForward = 3
    MaxRef = 2
    MoreData = FALSE
    Races = {"reorder", "threads"}
SPECIFICATION Spec
CHECK_DEADLOCK FALSE
INVARIANTS
    
    
    NoLostCompletion
SYMMETRY Interchangeable
