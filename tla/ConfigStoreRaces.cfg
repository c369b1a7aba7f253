\* Two writers and a reader on one key, with database errors and restarts.
SPECIFICATION Spec
CONSTANTS
  k1 = k1
  k2 = k2
  w1 = w1
  w2 = w2
  r1 = r1
  one = one
  true = true
  two = two
  n1 = n1
  NoRow = NoRow
  Idle = Idle
  Keys <- OneKey
  Values <- Confusable
  EqClass <- ConfusableClass
  Namespaces <- OneNamespace
  NamespaceOf <- Single
  Writers <- TwoWriters
  Readers <- OneReader
  Faults <- AllFaults
  MaxUpdates = 3
INVARIANTS TypeOK VersionTracksUpdates DeletedKeyStaysGone
           VersionCountsUpdates ReadsBackOwnWrite
PROPERTIES ImplementsLifecycle VersionRisesInTurn
