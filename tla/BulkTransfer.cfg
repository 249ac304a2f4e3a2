SPECIFICATION FairSpec
CONSTANTS
    NoId = NoId
    Users = {u1, u2}
    Ids = {i1}
    StaticMax = 1
    MaxOps = 3
    MaxTransfers = 3
    Races = {"post"}
CHECK_DEADLOCK FALSE
INVARIANTS
    
    
    ReportIsTrue
    RefsBalance
    NoLostTransfer
PROPERTIES
    CanceledReturns
