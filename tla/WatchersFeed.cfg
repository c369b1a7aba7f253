\* Two clients, two rows, a failing SELECT and restarts.
SPECIFICATION Spec
CONSTANTS
  c1 = c1
  c2 = c2
  t1 = t1
  t2 = t2
  t3 = t3
  NoRow = NoRow
  NoTxn = NoTxn
  NoTask = NoTask
  Conns <- TwoConns
  Tasks <- ThreeTasks
  NumRows = 2
  Interest <- AllOrFirst
  Faults <- AllFaults
  MaxTime = 3
  MaxWrites = 2
SYMMETRY Symmetry
INVARIANTS TypeOK OnePoller StreamInOrder LossOnlyInToldSecond WatchersAgree
PROPERTY ImplementsFeed
