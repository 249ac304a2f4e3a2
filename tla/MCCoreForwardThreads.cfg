CONSTANTS
    t1 = t1
    t2 = t2
    Triggers <- OneTrigger
    MaxForward = 2
    MaxRef = 2
    MoreData = TRUE
    Races = {"threads"}
SPECIFICATION Spec
CHECK_DEADLOCK FALSE
INVARIANT NoLostCompletion
