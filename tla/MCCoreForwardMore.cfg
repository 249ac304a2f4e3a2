CONSTANTS
    t1 = t1
    t2 = t2
    Triggers <- OneTrigger
    MaxForward = 3
    MaxRef = 2
    MoreData = TRUE
    Races = {}
SPECIFICATION FairSpec
CHECK_DEADLOCK FALSE
INVARIANTS
    CompletedIsQuiet
    NoLostCompletion
    SuccessMeansResponse
PROPERTY CanceledReturns
