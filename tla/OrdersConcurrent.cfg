SPECIFICATION Spec
CONSTANTS
  c1 = c1  c2 = c2  t1 = t1  t2 = t2  w1 = w1  w2 = w2
  NoCart = NoCart  NoTxn = NoTxn
  Workers <- TwoWorkers
  Carts <- OneCart
  Txns <- OneTxn
  Deliveries <- TwoDeliveries
  InitialStock = 1
  MaxCount = 1
  MaxStock = 2
  MaxIssued = 1
  CardLimits <- OneLimit
INVARIANT RowsConsistent
SYMMETRY Symmetry
