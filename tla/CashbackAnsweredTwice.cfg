SPECIFICATION Spec
CONSTANTS
  o1 = o1  o2 = o2  o3 = o3  d1 = d1  d2 = d2  d3 = d3  w1 = w1  w2 = w2
  NoDeal = NoDeal  NoOrg = NoOrg
  Workers <- TwoWorkers
  Orgs <- OneOrg
  Deals <- OneDeal
  Channels <- Deferred
  Amounts <- OnlyTwo
  Percent = 50
  Promo = 2
  MaxWallet = 4
PROPERTY ProcessedOnce
SYMMETRY Symmetry
CHECK_DEADLOCK FALSE
