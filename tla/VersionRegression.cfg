\* Two writers: a stale PUT takes the version of a key back.
SPECIFICATION Spec
CONSTANTS
  k1 = k1
  k2 = k2
  w1 = w1
  w2 = w2
  r1 = r1
  one = one
  true = true
  two = two
  n1 = n1
  NoRow = NoRow
  Idle = Idle
  Keys <- OneKey
  Values <- Distinct
  EqClass <- DistinctClass
  Namespaces <- OneNamespace
  NamespaceOf <- Single
  Writers <- TwoWriters
  Readers <- NoReader
  Faults <- NoFaults
  MaxUpdates = 3
PROPERTY VersionNeverFalls
