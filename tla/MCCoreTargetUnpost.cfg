SPECIFICATION FairSpec
CONSTANTS
    h1 = h1
    h2 = h2
    h3 = h3
    h4 = h4
    t1 = t1
    t2 = t2
    Handles = {h1, h2, h3}
    PostInit = {h1}
    PostIncr = TRUE
    Triggers = {t1}
    MaxRequests = 2
    MoreData = TRUE
    Races = {"post", "unpost"}
INVARIANTS
    HandlesKept
    Unposted
 
