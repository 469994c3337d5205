\* Two creators and an opener at one path.
CONSTANTS
  c1 = c1
  c2 = c2
  c3 = c3
  o1 = o1
  Creators = {c1, c2}
  Openers = {o1}
  Gone = Gone
  Foreign = Foreign
  MaxFaults = 3
SPECIFICATION Spec
CHECK_DEADLOCK FALSE
SYMMETRY Symmetry
INVARIANTS
  NeverHalfMade
  CreatedIsOwn
  OldSidecarsKept
