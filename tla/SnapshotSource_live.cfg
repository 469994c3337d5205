\* Two snapshots in one process of whatever may be at the path, replaced while
\* they run, beside a handle of that process and one of another.
CONSTANTS
  s1 = s1
  s2 = s2
  w1 = w1
  w2 = w2
  Snapshots = {s1, s2}
  Writers = {w1, w2}
  Host <- MCHost
  MaxFiles = 7
  Format <- MCFormat
  Chunks = 2
  MaxCommits = 1
  MaxFaults = 2
  NoImage = NoImage
SPECIFICATION FairSpec
CHECK_DEADLOCK FALSE
INVARIANTS
  LocksKept
  NothingHeldAfter
PROPERTIES
  SourceUntouched
  ImplementsBackup
  EverySnapshotEnds
