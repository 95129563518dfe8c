SPECIFICATION FairSpec
CONSTANTS
  p1 = p1  p2 = p2  w1 = w1  w2 = w2
  NoPurchase = NoPurchase
  Purchases <- TwoPurchases
  Gateways <- AllGateways
  MaxAttempts = 2
  Workers <- TwoWorkers
  MaxPolls = 2
  MaxOutages = 1
  MaxFaults = 1
  MaxUndone = 1
INVARIANT TypeOK
INVARIANT NothingUnpaid
INVARIANT CreditedOncePerWorker
INVARIANT BalanceCovered
INVARIANT RejectedThenPaid
INVARIANT PlanDelivered
PROPERTY ProcessedForGood
PROPERTY PolledIsBooked
CHECK_DEADLOCK FALSE
