SPECIFICATION MCSpec
CONSTANTS
  c1 = c1
  h1 = h1
  h2 = h2
  Hub <- OneHub
  HubOf <- SameHub
  Client = {c1, c2}
  Inv = {i1, i2}
  Chan = {ch, ch2}
  None = None
  Push = {p1}
  MaxToken = 2
  MaxSent = 2
  MaxLoad = 4
INVARIANTS SnapshotComesFirst StreamsReceiveOnce
PROPERTY LostConnectionIsUnregistered
CHECK_DEADLOCK FALSE
