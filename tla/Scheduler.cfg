SPECIFICATION FairSpec
CONSTANTS
  a = a
  b = b
  j1 = j1
  j2 = j2
  j3 = j3
  ID = {a, b}
  Job = {j1, j2, j3}
  IdOf <- MCIdOf
  NoJob = NoJob
INVARIANTS RegisteredIffOpen AtMostOneLateDelivery
PROPERTIES StoppedJobEnds RegisteredJobKeepsDelivering
