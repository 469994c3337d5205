\* Two processes race two imports of one tuple, an append and each other's
\* retries.
CONSTANTS
  Handles = {h1, h2}
  MaxCalls = 3
  MaxFaults = 1
  NoRequest = NoRequest
  None = None
  NoArtifact = NoArtifact
  create = create
  usurp = usurp
  again = again
  fetch = fetch
  import = import
  k1 = k1
  k2 = k2
  k3 = k3
  a1 = a1
  a2 = a2
  v1 = v1
  v2 = v2
  b1 = b1
  i1 = i1
  i2 = i2
  Requests = {fetch, usurp, again}
  Misasked = {again}
  Keys <- MCKeys
  Ids <- MCIds
  Blobs <- MCBlobs
  Times = {1}
  Body <- MCBody
SPECIFICATION IndependentSpec
SYMMETRY HandleSymmetry
PROPERTIES
  ImplementsLedger
