\* One Ledger, its rows damaged, and bundles.
CONSTANTS
  x = x
  y = y
  a1 = a1
  a2 = a2
  v1 = v1
  v2 = v2
  v3 = v3
  r1 = r1
  r2 = r2
  r3 = r3
  m1 = m1
  b1 = b1
  b2 = b2
  b3 = b3
  p1 = p1
  i1 = i1
  i2 = i2
  c1 = c1
  c2 = c2
  c3 = c3
  k1 = k1
  k2 = k2
  k3 = k3
  k4 = k4
  k5 = k5
  k6 = k6
  k7 = k7
  k8 = k8
  NoBytes = NoBytes
  Untimed = Untimed
  Ids <- MCIds
  Keys <- MCKeys
  Contents = {c1, c2, c3}
  Size <- MCSize
  Stamps = {x, y}
  Ledgers = {x}
  Asked <- MCAskedOne
  Payloads <- MCPayloads
  Imports <- MCImports
  Foreign <- MCForeign
  MaxPayload = 7
  MaxJson = 13
  MaxImports = 1
  MaxDamage = 1
SPECIFICATION Spec
CHECK_DEADLOCK FALSE
INVARIANTS
  BundlesWhole
  RetrySucceeds
  VerifiedMeansReadable
PROPERTIES
  DamageShows
