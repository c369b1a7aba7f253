\* One writer, values that Python compares equal: a PUT of true over 1.
SPECIFICATION Spec
CONSTANTS
  k1 = k1
  k2 = k2
  w1 = w1
  w2 = w2
  r1 = r1
  one = one
  true = true
  two = two
  n1 = n1
  NoRow = NoRow
  Idle = Idle
  Keys <- OneKey
  Values <- Confusable
  EqClass <- ConfusableClass
  Namespaces <- OneNamespace
  NamespaceOf <- Single
  Writers <- OneWriter
  Readers <- NoReader
  Faults <- NoFaults
  MaxUpdates = 3
PROPERTY PutOverwritesValue
