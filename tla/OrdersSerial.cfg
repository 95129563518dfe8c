SPECIFICATION Spec
CONSTANTS
  c1 = c1  c2 = c2  t1 = t1  t2 = t2  w1 = w1  w2 = w2
  NoCart = NoCart  NoTxn = NoTxn
  Workers <- OneWorker
  Carts <- TwoCarts
  Txns <- TwoTxns
  Deliveries <- TwoDeliveries
  InitialStock = 2
  MaxCount = 2
  MaxStock = 3
  MaxIssued = 2
  CardLimits <- HighLimit
INVARIANTS
  TypeOK
  AcceptedAmountIsCart
  NoUnitLost
  NoUnearnedCard
  PurchaseIdsDistinct
PROPERTIES
  FollowsLifecycle
SYMMETRY Symmetry
