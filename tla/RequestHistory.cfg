SPECIFICATION Spec
CONSTANTS
  q1 = q1
  q2 = q2
  q3 = q3
  pa = pa
  pb = pb
  Req = {q1, q2, q3}
  Listers = {q3}
  Path = {pa, pb}
  PathOf <- MCPathOf
  AnyPath = AnyPath
  NoRecord = NoRecord
  Record <- Records
  Capacity = 2
  MaxPage = 1
  MaxTime = 1
INVARIANTS ExactlyNewestCompleted PagesPartition
PROPERTY ImplementsBoundedLog

