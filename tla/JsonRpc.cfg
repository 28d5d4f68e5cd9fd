SPECIFICATION MCSpec
CONSTANTS
  Req = {r1, r2}
  Body <- MCBody
  Procedure <- MCProcedure
  MaxItems = 3
INVARIANTS
  BatchAnswered
  CallsTakeEffect
  BatchSeesItself
CHECK_DEADLOCK FALSE
