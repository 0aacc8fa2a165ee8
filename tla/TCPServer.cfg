CONSTANTS
  a1 = a1
  a2 = a2
  c1 = c1
  Conns = {c1}
  Addrs = {a1, a2}
  InitialAddr = a1
  Requests <- MCRequests
  Units = {1}
  MaxListeners = 2
  MaxSent = 2
  Room = 1
  Cuts = {7}
SPECIFICATION FairSpec
INVARIANTS
  TypeOK
  StatusTellsTruth
  AtMostOneLateAnswer
  AnswersAreInOrder
PROPERTIES
  OrphansEnd
