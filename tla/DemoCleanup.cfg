\* The demo, killed at any moment and run again.
SPECIFICATION DemoSpec
CONSTANTS
  a1 = a1
  a2 = a2
  NoDatabase = NoDatabase
  HeadRev = 3
  Creates <- Migrations
  ModelTables <- Models
  Workers <- TwoWorkers
  DemoFaults <- KillOnly
  MaxRuns = 2
CHECK_DEADLOCK FALSE
INVARIANT DemoCleansUp
