\* The demo started again and again, with every failure.  It may stop: after
\* MaxRuns runs, or waiting for workers that lost the service.
SPECIFICATION FairDemoSpec
CONSTANTS
  a1 = a1
  a2 = a2
  NoDatabase = NoDatabase
  HeadRev = 3
  Creates <- Migrations
  ModelTables <- Models
  Workers <- TwoWorkers
  DemoFaults <- AllFaults
  MaxRuns = 3
CHECK_DEADLOCK FALSE
INVARIANTS DemoTypeOK SchemaFollowsVersion RestartsUnlessTorn SuccessIsGenuine NobodyWaitsInVain
PROPERTY EndsOnceReady
