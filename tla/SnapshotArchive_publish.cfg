\* Creations of one snapshot and its publications to one remote name.
CONSTANTS
  Calls = {c1, c2, c3}
  MaxFaults = 2
  Images = {0, 1}
  Jobs <- PublishJobs
  Places = {local, archived}
  Remote = {archived}
  Id <- MCId
  NoJob = NoJob
  Gone = Gone
  Torn = Torn
  There = There
  Spoiled = Spoiled
  local = local
  archived = archived
  restored = restored
  s = s
  t = t
SPECIFICATION Spec
SYMMETRY CallSymmetry
INVARIANTS
  PublicationHonest
  SuccessMeansPublished
PROPERTIES
  AcceptedWhatIsThere
CHECK_DEADLOCK FALSE
