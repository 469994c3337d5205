\* A write, and outputs that compete for a name.
CONSTANTS
  write = write  blob = blob  export = export
  bundle = bundle  descriptor = descriptor  sidecar = sidecar
  here = here  there = there
  Calls = {write, blob, export}
  Command <- MCCommand
  Choices <- MCChoices
  Names = {bundle, descriptor, sidecar}
  Directory <- MCDirectory
  Reserved = {sidecar}
  Gone = Gone  Foreign = Foreign
  MaxFaults = 3
SPECIFICATION Spec
INVARIANTS LineHonest ZeroMeansDone OutputsWhole
PROPERTY NeverReplaced
