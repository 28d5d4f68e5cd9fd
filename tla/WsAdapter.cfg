SPECIFICATION MCSpec
CONSTANTS
  c1 = c1
  c2 = c2
  c3 = c3
  s1 = s1
  s2 = s2
  Nothing = Nothing
  Peer = {c1, c2, c3, s1, s2}
  Conn = {c1, c2, c3}
  Sub = {s1, s2}
  Bus = {b1}
  Emitter = {c1, c2, c3, b1}
  Envelope <- Events
  Filter <- MCFilter
  Call = {t1}
  Receives = {c2}
  Greets = {c1}
  ChannelOf <- MCChannelOf
  IdleBound = 1
  MaxIn = 2
  MaxEmitted = 2
  MaxLoad = 3
  Letter = {"a", "b"}
  MaxPattern = 5
  MaxValue = 4
INVARIANTS
  AnsweredInOrder
  PushReachesOnce
  ConnectedMeansListed
  StreamComplete
  GlobAgrees
PROPERTY ConnectionsAreReaped
CHECK_DEADLOCK FALSE
