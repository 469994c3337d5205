\* A snapshot is restored, and the restored target checked.
CONSTANTS
  Calls = {c1, c2, c3}
  MaxFaults = 2
  Images = {0}
  Jobs <- RestoreJobs
  Places = {local, restored}
  Remote = {archived}
  Id <- MCId
  NoJob = NoJob
  Gone = Gone
  Torn = Torn
  There = There
  Spoiled = Spoiled
  local = local
  archived = archived
  restored = restored
  s = s
  t = t
SPECIFICATION Spec
SYMMETRY CallSymmetry
INVARIANTS
  PublicIsWhole
  PublicationHonest
PROPERTIES
  ImplementsSealedStore
CHECK_DEADLOCK FALSE
