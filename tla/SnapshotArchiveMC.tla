-------------------------- MODULE SnapshotArchiveMC --------------------------
(***************************************************************************)
(* Small instances of SnapshotArchive: snapshot s as the local generation  *)
(* "local", its copy "archived" on a network mount, and the target         *)
(* "restored".  Callers expect the image of the Ledger before the write.   *)
(***************************************************************************)
EXTENDS SnapshotArchive, TLC

CONSTANTS local, archived, restored, s, t

MCId == [x \in Places |-> IF x = restored THEN t ELSE s]

Job(op, source, target) ==
  [op |-> op, from |-> source, to |-> target, expected |-> [id |-> s, image |-> 0]]

create == Job("create", Gone, local)
publish == Job("publish", local, archived)
restore == Job("restore", local, restored)
check_restore == Job("check_restore", restored, Gone)

PublishJobs == {create, publish}
RestoreJobs == {create, restore, check_restore}

CallSymmetry == Permutations(Calls)
=============================================================================
