CONSTANTS
  create = create  verify = verify
  Calls = {1}
  Operations = {create, verify}
  ReadOnly = {verify}
  NoOperation = NoOperation
  MaxFaults = 2
SPECIFICATION Spec
INVARIANTS
  LineHonest
