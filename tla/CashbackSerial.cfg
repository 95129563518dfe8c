SPECIFICATION Spec
CONSTANTS
  o1 = o1  o2 = o2  o3 = o3  d1 = d1  d2 = d2  d3 = d3  w1 = w1  w2 = w2
  NoDeal = NoDeal  NoOrg = NoOrg
  Workers <- OneWorker
  Orgs <- ThreeOrgs
  Deals <- TwoDeals
  Channels <- ByHand
  Amounts <- OnlyOne
  Percent = 100
  Promo = 1
  MaxWallet = 2
INVARIANT TypeOK
PROPERTY OnlyRefundOverdraws
PROPERTY PaysInOrder
SYMMETRY Symmetry
CHECK_DEADLOCK FALSE
