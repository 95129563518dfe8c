SPECIFICATION Spec
CONSTANTS
  o1 = o1  o2 = o2  o3 = o3  d1 = d1  d2 = d2  d3 = d3  w1 = w1  w2 = w2
  NoDeal = NoDeal  NoOrg = NoOrg
  Workers <- OneWorker
  Orgs <- TwoOrgs
  Deals <- ThreeDeals
  Channels <- DirectRefunded
  Amounts <- OnlyTwo
  Percent = 50
  Promo = 1
  MaxWallet = 6
PROPERTY ImplementsLedger
SYMMETRY Symmetry
CHECK_DEADLOCK FALSE
