\* An application on the change feed, with failing polls and restarts.
SPECIFICATION FairWatchSpec
CONSTANTS
  p1 = p1
  c1 = c1
  c2 = c2
  t1 = t1
  t2 = t2
  NoRow = NoRow
  NoTxn = NoTxn
  NoTask = NoTask
  NoConn = NoConn
  Conns <- TwoConns
  Tasks <- TwoTasks
  NumRows = 2
  Interest <- Everything
  Faults <- AllFaults
  MaxTime = 2
  MaxWrites = 2
  Apps <- OneApp
  ConnsOf <- Both
INVARIANTS WatchTypeOK NewsOnly
PROPERTIES ChangesAreHeard NothingDropped
