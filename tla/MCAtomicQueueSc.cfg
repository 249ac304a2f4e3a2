SPECIFICATION FairSpec
CONSTANTS
    Producers = {p1, p2}
    Consumers = {c1}
    Entries = {e1, e2}
    NoEntry = NoEntry
    Size = 4
    MultiConsumer = FALSE
    MaxPush = 3
PROPERTY ImplementsFifo
PROPERTY Returns
