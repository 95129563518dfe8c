SPECIFICATION Spec
CONSTANTS
  a = a  b = b  c = c  w1 = w1  w2 = w2  som = som  usd = usd
  Nobody = Nobody
  Orgs <- ThreeOrgs
  Workers <- TwoWorkers
  Currencies <- TwoCurrencies
  Kinds <- TwoKinds
  Items = "items"
  MaxRows = 4
  Before <- NobodyOrChain
  MaxGroups = 2
  MaxRequests = 4
INVARIANT TypeOK
INVARIANT GroupsFollowConsent
INVARIANT AcceptedIsMutual
INVARIANT SharedIsLinked
INVARIANT OneCurrency
SYMMETRY Symmetry
CHECK_DEADLOCK FALSE
