\* One SDK caller alone, over a service that does not fail.
SPECIFICATION SdkSpec
CONSTANTS
  k1 = k1
  p1 = p1
  p2 = p2
  w1 = w1
  w2 = w2
  w3 = w3
  v1 = v1
  v2 = v2
  n1 = n1
  NoRow = NoRow
  Idle = Idle
  NoValue = NoValue
  NoCall = NoCall
  NoRequest = NoRequest
  NoSlot = NoSlot
  Keys <- OneKey
  Values <- TwoValues
  EqClass <- SameOnly
  Namespaces <- OneNamespace
  NamespaceOf <- Single
  Writers <- OneSlot
  Readers <- NoReader
  Faults <- NoFaults
  MaxUpdates = 2
  Procs <- OneProc
INVARIANT SetCreatesOrOverwrites
