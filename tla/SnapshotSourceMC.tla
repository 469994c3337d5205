-------------------------- MODULE SnapshotSourceMC --------------------------
(***************************************************************************)
(* Small instances of SnapshotSource: one process with a handle and two    *)
(* calls, another with a handle.                                           *)
(***************************************************************************)
EXTENDS SnapshotSource

CONSTANTS s1, s2, w1, w2

MCHost == [x \in Conns |-> IF x = w2 THEN "theirs" ELSE "ours"]
MCFormat == <<"crowded", "ledger", "wal", "other", "broken", "large", "absent">>
=============================================================================
