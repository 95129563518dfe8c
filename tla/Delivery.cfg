SPECIFICATION Spec
CONSTANTS
  o1 = o1  s1 = s1  s2 = s2  w1 = w1  w2 = w2  w3 = w3
  Orders <- OneOrder
  Services <- TwoServices
  Workers <- ThreeWorkers
  NoService = NoService
  NoOrder = NoOrder
INVARIANT TypeOK
INVARIANT RowsSound
INVARIANT ClaimsRecorded
PROPERTY FreshFollowsLife
SYMMETRY Symmetry
CHECK_DEADLOCK FALSE
