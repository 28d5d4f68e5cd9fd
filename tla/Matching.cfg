SPECIFICATION MatchSpec
CONSTANTS
  Call = {"c1", "c2", "c3"}
  Key <- MCKey
  Broken <- MCBroken
  Capacity = 2
  FloatOf <- MCFloatOf
  Lower <- MCLower
  MaxDepth = 4
  Token <- MCToken
  Value <- MCValue
  Scene <- MCScene
  Accepts <- MCAccepts
INVARIANTS
  CacheHoldsNewest
  MatchMeansAll
  ResponseIsOwn
CHECK_DEADLOCK FALSE
