SPECIFICATION FairSpec
CONSTANTS
    c1 = c1
    c2 = c2
    t1 = t1
    t2 = t2
    t3 = t3
    p1 = p1
    p2 = p2
    Completers = {c1, c2}
    Triggers = {t1}
    Progress = {p1}
    Capacity = 1
    MaxCount = 2
    MaxEntries = 3
    StalePops = FALSE
INVARIANTS
    TriggeredOnce
    PollNotified
PROPERTIES
    Triggered
    TriggerReturns
