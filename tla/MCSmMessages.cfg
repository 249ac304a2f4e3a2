SPECIFICATION FairSpec
CONSTANTS
    x1 = x1
    e1 = e1
    e2 = e2
    UnexpSends = {s1}
    UnexpRecvs = {r1}
    ExpSends = {x1}
    ExpRecvs = {e1, e2}
    Tag <- Tags
    Bufs = {b1, b2}
    NumMsgs = 1
    None = None
    MaxCancels = 1
    Races = {}
CHECK_DEADLOCK FALSE
INVARIANTS
    BuffersExact
    CompletedOnce
    Delivered
PROPERTIES
    SendEnds
    CanceledEnds
