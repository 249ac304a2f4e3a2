SPECIFICATION Spec
CONSTANTS
  Producers = {p1, p2}
  Consumers = {c1, c2}
  Entries = {e1, e2}
  NoEntry = NoEntry
  Size = 4
  MultiConsumer = TRUE
  MaxPush = 4
SYMMETRY Symmetry
INVARIANT Transfer
PROPERTY ImplementsFifo
