SPECIFICATION Spec
CONSTANTS
    c1 = c1
    c2 = c2
    t1 = t1
    t2 = t2
    t3 = t3
    p1 = p1
    p2 = p2
    Completers = {c1}
    Triggers = {t1, t2}
    Progress = {}
    Capacity = 1
    MaxCount = 1
    MaxEntries = 3
    StalePops = FALSE
INVARIANT EmptyIsSeen
