SPECIFICATION FairSpec
CONSTANTS
  o1 = o1  p1 = p1  p2 = p2  u1 = u1  t1 = t1  t2 = t2
  NoOrg = NoOrg  NoUserbot = NoUserbot
  MaxRequests = 2
  Orgs <- OneOrg
  Posts <- OnePost
  Userbots <- OneUserbot
  Tasks <- TwoTasks
  DailyLimit = 2
  MaxRetries = 1
  Batch = 1
  MaxCrashes = 1
INVARIANT TypeOK
INVARIANT SecondBotOnlyWhenStale
INVARIANT ServiceOfCompleted
PROPERTY TakenUp
PROPERTY Settles
CHECK_DEADLOCK FALSE
