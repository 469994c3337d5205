\* Every graph of four Versions, with self references.
CONSTANT
  N = 4
SPECIFICATION Spec
CHECK_DEADLOCK FALSE
INVARIANTS
  VerdictRight
PROPERTIES
  Terminates
