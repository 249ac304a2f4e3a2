SPECIFICATION Spec
CONSTANTS
    h1 = h1
    h2 = h2
    h3 = h3
    h4 = h4
    t1 = t1
    t2 = t2
    Handles = {h1, h2, h3, h4}
    PostInit = {h1, h2}
    PostIncr = TRUE
    Triggers = {t1, t2}
    MaxRequests = 2
    MoreData = FALSE
    Races = {"threads"}
SYMMETRY Interchangeable
INVARIANTS
    RepostUnused
    ReplyToOwn
    HandlesKept
    Listening
