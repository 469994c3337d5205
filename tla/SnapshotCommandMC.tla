-------------------------- MODULE SnapshotCommandMC --------------------------
(* Calls do not meet: one of them, with two failures.                      *)
EXTENDS SnapshotCommand
CONSTANTS create, verify
=============================================================================
