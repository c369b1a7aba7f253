\* Two writes in one second, with a poll in between.
SPECIFICATION Spec
CONSTANTS
  c1 = c1
  c2 = c2
  t1 = t1
  t2 = t2
  t3 = t3
  NoRow = NoRow
  NoTxn = NoTxn
  NoTask = NoTask
  Conns <- OneConn
  Tasks <- TwoTasks
  NumRows = 1
  Interest <- AllOrFirst
  Faults <- NoFaults
  MaxTime = 2
  MaxWrites = 2
INVARIANT NoWriteUnreported
