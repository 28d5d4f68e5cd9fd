SPECIFICATION MCSpec
CONSTANTS
  r1 = r1
  r2 = r2
  r3 = r3
  a1 = a1
  a2 = a2
  na = na
  nb = nb
  cnt = cnt
  flag = flag
  xm = xm
  xo = xo
  xd = xd
  xb = xb
  yo = yo
  yd = yd
  e1 = e1
  e2 = e2
  Namespace = {na, nb}
  Key = {cnt, flag}
  Value <- MCValue
  Delta <- MCDelta
  MaxNumber = 4
  Req = {r1, r2, r3, a1, a2}
  Prefix <- MCPrefix
  Async = {a1, a2}
  Example = {xm, xo, xd, xb, yo, yd}
  Listed <- MCListed
  Skip = {}
  Once = {xo, yo}
  Match <- MCMatch
  SetState <- MCSetState
  Broken = {xb}
  Event = {e1, e2}
  Trigger <- MCTrigger
  None = None
  MaxArrived = 3
INVARIANTS CountersExact EventsFollowState LaterSeesEarlier
PROPERTY ImplementsStateStore
CHECK_DEADLOCK FALSE
