\* Two processes, an import and a creation of one operation and one Artifact,
\* faults of every kind, and callers that owe nothing.
CONSTANTS
  Handles = {h1, h2}
  MaxCalls = 2
  MaxFaults = 2
  NoRequest = NoRequest
  None = None
  NoArtifact = NoArtifact
  create = create
  usurp = usurp
  again = again
  fetch = fetch
  import = import
  k1 = k1
  k2 = k2
  k3 = k3
  a1 = a1
  a2 = a2
  v1 = v1
  v2 = v2
  b1 = b1
  b2 = b2
  i1 = i1
  i2 = i2
  Requests = {create, import}
  Misasked = {create, import}
  Keys <- MCKeys
  Ids <- MCIds
  Blobs <- MCBlobs
  Times <- MCTimes
  Body <- MCBody
SPECIFICATION FairSpec
INVARIANTS
  EffectsComplete
PROPERTIES
  EveryCallReturns
