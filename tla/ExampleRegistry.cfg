SPECIFICATION MCSpec
CONSTANTS
  xo = xo
  xc = xc
  xp = xp
  q1 = q1
  q2 = q2
  Ex = {xo, xc, xp}
  Once = {xo}
  TTL <- MCTTL
  Matches <- MCMatches
  Req = {q1, q2}
  Addr = {1, 2, 3, 4}
  None = None
  MaxTime = 1
  MaxLoad = 4
INVARIANTS SliceHoldsLive SelectionIsSound
PROPERTY ExpiredIsSwept
CHECK_DEADLOCK FALSE
