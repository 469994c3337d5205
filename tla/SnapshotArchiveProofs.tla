------------------------ MODULE SnapshotArchiveProofs -----------------------
(***************************************************************************)
(* The safety of SnapshotArchive, proved for any calls, jobs, places,      *)
(* images and number of faults.                                            *)
(*                                                                         *)
(* The inductive invariant IInv says what a call knows at each point       *)
(* (JobOK, KnowledgeOK), that a directory is filled by the one call that   *)
(* made it (OwnersOK), what that call finds in it, and on the disk, as     *)
(* long as nobody else changes it (TargetOK), what is there after it       *)
(* ended, however that was (GenerationOK, RestoredOK), and that what was   *)
(* read is what some call linked (InputOK, StampOK).                       *)
(***************************************************************************)
EXTENDS SnapshotArchive, TLAPS

Dir(db, m, k, st) ==
  [dir |-> There, db |-> db, manifest |-> m, marker |-> k, stage |-> st, extra |-> Gone]

Typed ==
  /\ tree \in [Places -> Directory]
  /\ disk \in [Places -> Directory]
  /\ pc \in [Calls -> Points]
  /\ job \in [Calls -> Jobs \cup {NoJob}]
  /\ manifest \in [Calls -> Manifests \cup {Gone}]
  /\ private \in [Calls -> Images \cup {Gone}]
  /\ unchanged \in [Calls -> BOOLEAN]
  /\ attempted \in [Calls -> BOOLEAN]
  /\ code \in [Calls -> Store!Codes \cup {"none"}]
  /\ reply \in [Calls -> Store!Replies]
  /\ linked \subseteq Calls
  /\ spoiled \subseteq Places

Makers == {"create", "publish", "restore"}
Sealers == {"create", "publish"}

\* The points an operation passes, apart from those all pass.
PointsOf(op) ==
  {"new", "open", "leave", "report", "failed", "done"} \cup
  (CASE op = "create" -> {"backup"}
     [] op \in {"publish", "verify", "restore"} -> {"metadata", "copy", "recheck", "metadata2"}
     [] op = "check_restore" -> {"target", "copy", "recheck"}) \cup
  (CASE op \in Sealers -> {"mkdir", "copyout", "writemanifest", "readback", "sync", "link", "unstage",
                           "sync2", "final"}
     [] op = "restore" -> {"mkdir", "stage", "link", "unstage", "sync2", "final", "sweep"}
     [] op \in Readers -> {})

\* Behind mkdir, until the target is left alone.
Filling == {"copyout", "writemanifest", "readback", "sync", "stage", "link", "unstage", "sync2",
            "final", "sweep"}
Published(c) == pc[c] = "done" /\ reply[c].state = "published"
Owns(c) == pc[c] \in Filling \/ (pc[c] \in {"leave", "report"} /\ ~ Reads(c)) \/ Published(c)

\* The manifest is known, and the copy made.
Knowing == {"copy", "recheck", "metadata2", "mkdir", "leave", "report"} \cup (Filling \ {"sweep"})
Copied == Knowing \ {"copy"}

JobOK(c) ==
  /\ pc[c] = "new" => job[c] = NoJob
  /\ pc[c] # "new" => job[c] \in Jobs /\ pc[c] \in PointsOf(job[c].op)
  /\ pc[c] # "done" => reply[c] = Store!Pending
  /\ pc[c] = "done" => reply[c] # Store!Pending
  /\ pc[c] \in {"failed", "sweep"} => code[c] \in {"TARGET_EXISTS", "NOT_FOUND", "INCOMPLETE_SNAPSHOT",
                                                   "INTEGRITY_FAILURE", "IO_ERROR"}

KnowledgeOK(c) ==
  /\ pc[c] \in Knowing \/ c \in linked =>
       /\ manifest[c] \in Manifests
       /\ IF job[c].op = "create" THEN manifest[c].id = Id[to(c)] ELSE manifest[c] = expected(c)
  /\ pc[c] \in Copied => private[c] = manifest[c].image
  /\ c \in linked => /\ attempted[c] /\ job[c] \in Jobs /\ job[c].op \in Makers
                     /\ pc[c] \in {"unstage", "sync2", "final", "leave", "report", "sweep", "failed", "done"}
  /\ pc[c] \in {"unstage", "sync2", "final"} => c \in linked
  /\ pc[c] \in {"leave", "report"} /\ ~ Reads(c) => c \in linked
  /\ Published(c) => c \in linked
  /\ pc[c] = "done" /\ reply[c].state \in {"not_published", "not_applicable"} => c \notin linked

DirectoryOK(x) ==
  /\ tree[x].dir = Gone => tree[x] = NoDirectory /\ disk[x] = NoDirectory
  /\ disk[x].dir = Gone => disk[x] = NoDirectory
  /\ x \notin Generations \cup Targets => tree[x] = NoDirectory

OwnersOK ==
  /\ \A c \in Calls : Owns(c) =>
       /\ tree[to(c)].dir # Gone
       /\ pc[c] \in {"final", "leave", "report", "done"} => disk[to(c)].dir # Gone
  /\ \A c, d \in Calls : Owns(c) /\ Owns(d) /\ to(c) = to(d) => c = d

\* What c publishes, and what is there before its link.
Whole(c) ==
  IF Restores(c) THEN Dir(manifest[c].image, Gone, Gone, Gone)
                 ELSE Dir(manifest[c].image, manifest[c], manifest[c], Gone)
Unsealed(c) == Dir(manifest[c].image, manifest[c], Gone, Gone)

TargetOK(c) ==
  LET image == manifest[c].image
      x == to(c)
  IN  Owns(c) /\ x \notin spoiled =>
        /\ pc[c] \in {"copyout", "stage"} => tree[x] = EmptyDirectory
        /\ pc[c] = "writemanifest" => tree[x] = Dir(image, Gone, Gone, Gone)
        /\ pc[c] \in {"readback", "sync"} => tree[x] = Unsealed(c)
        /\ pc[c] = "link" =>
             IF Restores(c) THEN tree[x] = Dir(Gone, Gone, Gone, image)
                            ELSE tree[x] = Unsealed(c) /\ disk[x] = tree[x]
        /\ pc[c] = "unstage" /\ Restores(c) => tree[x] = Dir(image, Gone, Gone, image)
        /\ pc[c] = "unstage" /\ ~ Restores(c) => tree[x] = Whole(c)
        /\ pc[c] \in {"sync2", "final", "leave", "report", "done"} => tree[x] = Whole(c)
        /\ pc[c] \in {"final", "leave", "report", "done"} => disk[x] = tree[x]

\* What a restore staged is what it read, unless it was torn.
StageOK(c) ==
  Owns(c) /\ pc[c] = "link" /\ Restores(c) => tree[to(c)].stage \in {manifest[c].image, Torn}

\* Call c linked manifest m in generation x; it linked image db as target x.
Marked(x, m) == \E c \in linked : ~ Restores(c) /\ to(c) = x /\ m = manifest[c]
Laid(x, db) == \E c \in linked : Restores(c) /\ to(c) = x /\ db = manifest[c].image

\* t is a generation some call published, and k lacks at most its marker.
Sealed(x, t, k) ==
  \E c \in linked : ~ Restores(c) /\ to(c) = x /\ t = Whole(c) /\ k \in {Whole(c), Unsealed(c)}

\* A marker is one that was linked.  Beside it is, unless somebody else changed
\* it, the whole generation, of which the disk lacks at most the marker.
GenerationOK(x) ==
  /\ tree[x].marker \in Manifests => Marked(x, tree[x].marker)
  /\ disk[x].marker \in Manifests => Marked(x, disk[x].marker)
  /\ x \notin spoiled =>
       /\ tree[x].marker # Gone => Sealed(x, tree[x], disk[x])
       /\ disk[x].marker # Gone => disk[x] = tree[x]

\* A restored database is one that was linked, and the disk has no other.
RestoredOK(x) ==
  x \in Targets =>
    /\ tree[x].db \in Images => Laid(x, tree[x].db)
    /\ disk[x].db \in Images => Laid(x, disk[x].db)
    /\ x \notin spoiled => tree[x].db # Torn /\ disk[x].db \in {Gone, tree[x].db}

\* What a caller expects of its input is what some call linked there.
WasLinked(c) ==
  \E d \in linked : /\ to(d) = from(c)
                    /\ IF Restores(d) THEN manifest[d].image = expected(c).image
                                      ELSE manifest[d] = expected(c)

Read(c) ==
  \/ pc[c] \in Knowing /\ job[c].op \in {"publish", "verify", "restore"}
  \/ pc[c] \in Copied /\ job[c].op = "check_restore"

InputOK(c) ==
  /\ Read(c) => /\ WasLinked(c)
                /\ from(c) \notin spoiled => Public(from(c)) = Store!Expectation(c)
  /\ pc[c] = "done" /\ reply[c].code = "OK" /\ job[c].op # "create" => WasLinked(c)

StampOK(c) == pc[c] = "recheck" /\ unchanged[c] => tree[from(c)].db = private[c]

IInv ==
  /\ Typed
  /\ \A c \in Calls : JobOK(c) /\ KnowledgeOK(c)
  /\ \A x \in Places : DirectoryOK(x)
  /\ OwnersOK
  /\ \A c \in Calls : TargetOK(c) /\ StageOK(c)
  /\ \A x \in Places : GenerationOK(x) /\ RestoredOK(x)
  /\ \A c \in Calls : InputOK(c) /\ StampOK(c)
-----------------------------------------------------------------------------
(* What a call works on, and where it may be.                              *)

LEMMA JobFacts ==
  ASSUME NEW j \in Jobs
  PROVE  /\ j.op \in Operations /\ j.expected \in Manifests
         /\ j.expected.image \in Images /\ j.expected.id \in {Id[x] : x \in Places}
         /\ j.op # "create" => j.from \in Places
         /\ j.op \in Makers => j.to \in Places
         /\ j.op \in Sealers => j.to \in Generations /\ j.to \notin Targets
         /\ j.op = "restore" => j.to \in Targets /\ j.to \notin Generations
         /\ j.op = "publish" => Id[j.to] = j.expected.id
         /\ j.op = "check_restore" => j.from \notin Generations
<1>1. j \in [op : Operations, from : Places \cup {Gone}, to : Places \cup {Gone}, expected : Manifests]
  BY JobsAssumption
<1>2. j.op \in Operations /\ j.expected \in Manifests
  BY <1>1
<1>3. j.expected.image \in Images /\ j.expected.id \in {Id[x] : x \in Places}
  BY <1>2 DEF Manifests
<1>4. /\ j.op # "create" => j.from \in Places
      /\ j.op \in Makers => j.to \in Places
      /\ j.op = "publish" => Id[j.to] = j.expected.id
      /\ j.op = "check_restore" => j.from \notin Generations
  BY JobsAssumption DEF Makers
<1>5. j.op \in Sealers => j.to \in Generations
  BY DEF Generations, Sealers
<1>6. j.op = "restore" => j.to \in Targets
  BY DEF Targets
<1>7. QED
  BY <1>2, <1>3, <1>4, <1>5, <1>6, JobsAssumption

LEMMA PointFacts ==
  ASSUME Typed, NEW c \in Calls, JobOK(c), pc[c] # "new"
  PROVE  /\ job[c] \in Jobs
         /\ pc[c] = "backup" => job[c].op = "create"
         /\ pc[c] \in {"metadata", "metadata2"} => job[c].op \in {"publish", "verify", "restore"}
         /\ pc[c] = "target" => job[c].op = "check_restore"
         /\ pc[c] \in {"copy", "recheck"} => job[c].op # "create"
         /\ pc[c] \in {"copyout", "writemanifest", "readback", "sync"} => job[c].op \in Sealers
         /\ pc[c] \in {"stage", "sweep"} => job[c].op = "restore"
         /\ pc[c] \in Filling \cup {"mkdir"} => job[c].op \in Makers
<1>1. job[c] \in Jobs /\ pc[c] \in PointsOf(job[c].op) /\ job[c].op \in Operations
  BY JobFacts DEF JobOK
<1> DEFINE op == job[c].op
<1> HIDE DEF op
<1>2. op \in Operations /\ pc[c] \in PointsOf(op)
  BY <1>1 DEF op
<1>3. CASE op = "create"
  BY <1>2, <1>3, <1>1 DEF op, PointsOf, Sealers, Readers, Makers, Filling
<1>4. CASE op = "publish"
  BY <1>2, <1>4, <1>1 DEF op, PointsOf, Sealers, Readers, Makers, Filling
<1>5. CASE op = "verify"
  BY <1>2, <1>5, <1>1 DEF op, PointsOf, Sealers, Readers, Makers, Filling
<1>6. CASE op = "restore"
  BY <1>2, <1>6, <1>1 DEF op, PointsOf, Sealers, Readers, Makers, Filling
<1>7. CASE op = "check_restore"
  BY <1>2, <1>7, <1>1 DEF op, PointsOf, Sealers, Readers, Makers, Filling
<1>8. QED
  BY <1>2, <1>3, <1>4, <1>5, <1>6, <1>7 DEF Operations

-----------------------------------------------------------------------------
(* What a step of a call changes: variables of its own, and one directory. *)

Move(c) == (\E j \in Jobs : Ask(c, j)) \/ Step(c) \/ LinkFails(c) \/ Fail(c) \/ Crash(c)

SameCall(d) ==
  /\ pc'[d] = pc[d] /\ job'[d] = job[d] /\ manifest'[d] = manifest[d] /\ private'[d] = private[d]
  /\ attempted'[d] = attempted[d] /\ code'[d] = code[d] /\ reply'[d] = reply[d]

LEMMA OthersStay ==
  ASSUME Typed, NEW c \in Calls, Move(c)
  PROVE  spoiled' = spoiled /\ \A d \in Calls \ {c} : SameCall(d)
<1> USE DEF goto, raise, tell, files, SameCall, Typed
<1>1. ASSUME NEW j \in Jobs, Ask(c, j) PROVE spoiled' = spoiled /\ \A d \in Calls \ {c} : SameCall(d)
  BY <1>1 DEF Ask
<1>2. CASE Open(c)
  BY <1>2 DEF Open
<1>3. CASE Backup(c)
  BY <1>3 DEF Backup
<1>4. CASE ReadMetadata(c)
  BY <1>4 DEF ReadMetadata
<1>5. CASE OpenTarget(c)
  BY <1>5 DEF OpenTarget
<1>6. CASE CopyInput(c)
  BY <1>6 DEF CopyInput
<1>7. CASE Recheck(c)
  BY <1>7 DEF Recheck
<1>8. CASE ReadMetadataAgain(c)
  BY <1>8 DEF ReadMetadataAgain
<1>9. CASE Mkdir(c)
  BY <1>9 DEF Mkdir
<1>10. CASE CopyOut(c)
  BY <1>10 DEF CopyOut
<1>11. CASE WriteManifest(c)
  BY <1>11 DEF WriteManifest
<1>12. CASE ReadBack(c)
  BY <1>12 DEF ReadBack
<1>13. CASE Sync(c)
  BY <1>13 DEF Sync
<1>14. CASE Stage(c)
  BY <1>14 DEF Stage
<1>15. CASE Link(c)
  BY <1>15 DEF Link
<1>16. CASE LinkExists(c)
  BY <1>16 DEF LinkExists
<1>17. CASE Unstage(c)
  BY <1>17 DEF Unstage
<1>18. CASE SyncAgain(c)
  BY <1>18 DEF SyncAgain
<1>19. CASE Final(c)
  BY <1>19 DEF Final
<1>20. CASE Leave(c)
  BY <1>20 DEF Leave
<1>21. CASE Report(c)
  BY <1>21 DEF Report
<1>22. CASE Sweep(c)
  BY <1>22 DEF Sweep
<1>23. CASE Abandon(c)
  BY <1>23 DEF Abandon
<1>24. CASE LinkFails(c)
  BY <1>24 DEF LinkFails
<1>25. CASE Fail(c)
  BY <1>25 DEF Fail
<1>26. CASE Crash(c)
  BY <1>26 DEF Crash
<1>27. QED
  BY <1>1, <1>2, <1>3, <1>4, <1>5, <1>6, <1>7, <1>8, <1>9, <1>10, <1>11, <1>12, <1>13, <1>14, <1>15,
     <1>16, <1>17, <1>18, <1>19, <1>20, <1>21, <1>22, <1>23, <1>24, <1>25, <1>26 DEF Move, Step

KeepsOwn(c) ==
  /\ pc[c] # "new" => job'[c] = job[c]
  /\ pc[c] \notin {"backup", "metadata", "target"} => manifest'[c] = manifest[c]
  /\ pc[c] \notin {"backup", "copy"} => private'[c] = private[c]

LEMMA OwnStays ==
  ASSUME Typed, NEW c \in Calls, Move(c)
  PROVE  KeepsOwn(c)
<1> USE DEF goto, raise, tell, files, Typed, KeepsOwn
<1>1. ASSUME NEW j \in Jobs, Ask(c, j) PROVE KeepsOwn(c)
  BY <1>1 DEF Ask
<1>2. CASE Open(c)
  BY <1>2 DEF Open
<1>3. CASE Backup(c)
  BY <1>3 DEF Backup
<1>4. CASE ReadMetadata(c)
  BY <1>4 DEF ReadMetadata
<1>5. CASE OpenTarget(c)
  BY <1>5 DEF OpenTarget
<1>6. CASE CopyInput(c)
  BY <1>6 DEF CopyInput
<1>7. CASE Recheck(c)
  BY <1>7 DEF Recheck
<1>8. CASE ReadMetadataAgain(c)
  BY <1>8 DEF ReadMetadataAgain
<1>9. CASE Mkdir(c)
  BY <1>9 DEF Mkdir
<1>10. CASE CopyOut(c)
  BY <1>10 DEF CopyOut
<1>11. CASE WriteManifest(c)
  BY <1>11 DEF WriteManifest
<1>12. CASE ReadBack(c)
  BY <1>12 DEF ReadBack
<1>13. CASE Sync(c)
  BY <1>13 DEF Sync
<1>14. CASE Stage(c)
  BY <1>14 DEF Stage
<1>15. CASE Link(c)
  BY <1>15 DEF Link
<1>16. CASE LinkExists(c)
  BY <1>16 DEF LinkExists
<1>17. CASE Unstage(c)
  BY <1>17 DEF Unstage
<1>18. CASE SyncAgain(c)
  BY <1>18 DEF SyncAgain
<1>19. CASE Final(c)
  BY <1>19 DEF Final
<1>20. CASE Leave(c)
  BY <1>20 DEF Leave
<1>21. CASE Report(c)
  BY <1>21 DEF Report
<1>22. CASE Sweep(c)
  BY <1>22 DEF Sweep
<1>23. CASE Abandon(c)
  BY <1>23 DEF Abandon
<1>24. CASE LinkFails(c)
  BY <1>24 DEF LinkFails
<1>25. CASE Fail(c)
  BY <1>25 DEF Fail
<1>26. CASE Crash(c)
  BY <1>26 DEF Crash
<1>27. QED
  BY <1>1, <1>2, <1>3, <1>4, <1>5, <1>6, <1>7, <1>8, <1>9, <1>10, <1>11, <1>12, <1>13, <1>14, <1>15,
     <1>16, <1>17, <1>18, <1>19, <1>20, <1>21, <1>22, <1>23, <1>24, <1>25, <1>26 DEF Move, Step

Still == UNCHANGED <<tree, disk, linked>>
Makes(c) ==
  /\ pc[c] = "mkdir" /\ tree[to(c)].dir = Gone
  /\ tree' = [tree EXCEPT ![to(c)] = EmptyDirectory]
  /\ UNCHANGED <<disk, linked>>
Copies(c) ==
  /\ pc[c] = "copyout" /\ tree[to(c)].db = Gone
  /\ \E v \in {private[c], Torn} : tree' = [tree EXCEPT ![to(c)].db = v]
  /\ UNCHANGED <<disk, linked>>
Writes(c) ==
  /\ pc[c] = "writemanifest" /\ tree[to(c)].manifest = Gone
  /\ \E v \in {manifest[c], Torn} : tree' = [tree EXCEPT ![to(c)].manifest = v]
  /\ UNCHANGED <<disk, linked>>
Stages(c) ==
  /\ pc[c] \in {"stage", "unstage", "sweep"} /\ Restores(c)
  /\ \E v \in {private[c], Torn, Gone} : tree' = [tree EXCEPT ![to(c)].stage = v]
  /\ UNCHANGED <<disk, linked>>
Links(c) == pc[c] = "link" /\ MakeLink(c) /\ UNCHANGED disk
Syncs(c) ==
  /\ pc[c] \in {"sync", "sync2"}
  /\ disk' = [disk EXCEPT ![to(c)] = tree[to(c)]]
  /\ UNCHANGED <<tree, linked>>

Effect(c) == Still \/ Makes(c) \/ Copies(c) \/ Writes(c) \/ Stages(c) \/ Links(c) \/ Syncs(c)

LEMMA EffectOfMove ==
  ASSUME Typed, NEW c \in Calls, JobOK(c), Move(c)
  PROVE  Effect(c)
<1>0. pc[c] \in {"stage", "sweep"} => Restores(c)
  BY PointFacts DEF Restores
<1> USE DEF files, Effect, Still
<1>1. ASSUME NEW j \in Jobs, Ask(c, j) PROVE Effect(c)
  BY <1>1 DEF Ask
<1>2. CASE Open(c)
  BY <1>2 DEF Open
<1>3. CASE Backup(c)
  BY <1>3 DEF Backup
<1>4. CASE ReadMetadata(c)
  BY <1>4 DEF ReadMetadata
<1>5. CASE OpenTarget(c)
  BY <1>5 DEF OpenTarget
<1>6. CASE CopyInput(c)
  BY <1>6 DEF CopyInput
<1>7. CASE Recheck(c)
  BY <1>7 DEF Recheck
<1>8. CASE ReadMetadataAgain(c)
  BY <1>8 DEF ReadMetadataAgain
<1>9. CASE Mkdir(c)
  BY <1>9 DEF Mkdir, Makes
<1>10. CASE CopyOut(c)
  BY <1>10 DEF CopyOut, Copies
<1>11. CASE WriteManifest(c)
  BY <1>11 DEF WriteManifest, Writes
<1>12. CASE ReadBack(c)
  BY <1>12 DEF ReadBack
<1>13. CASE Sync(c)
  BY <1>13 DEF Sync, Syncs
<1>14. CASE Stage(c)
  BY <1>0, <1>14 DEF Stage, Stages
<1>15. CASE Link(c)
  BY <1>15 DEF Link, Links
<1>16. CASE LinkExists(c)
  BY <1>16 DEF LinkExists
<1>17. CASE Unstage(c)
  BY <1>17 DEF Unstage, Stages
<1>18. CASE SyncAgain(c)
  BY <1>18 DEF SyncAgain, Syncs
<1>19. CASE Final(c)
  BY <1>19 DEF Final
<1>20. CASE Leave(c)
  BY <1>20 DEF Leave
<1>21. CASE Report(c)
  BY <1>21 DEF Report
<1>22. CASE Sweep(c)
  BY <1>0, <1>22 DEF Sweep, Stages
<1>23. CASE Abandon(c)
  BY <1>23 DEF Abandon
<1>24. CASE LinkFails(c)
  BY <1>24 DEF LinkFails, Links
<1>25. CASE Fail(c)
  BY <1>0, <1>25 DEF Fail, Partial, Makes, Copies, Writes, Stages
<1>26. CASE Crash(c)
  BY <1>0, <1>26 DEF Crash, Partial, Makes, Copies, Writes, Stages
<1>27. QED
  BY <1>1, <1>2, <1>3, <1>4, <1>5, <1>6, <1>7, <1>8, <1>9, <1>10, <1>11, <1>12, <1>13, <1>14, <1>15,
     <1>16, <1>17, <1>18, <1>19, <1>20, <1>21, <1>22, <1>23, <1>24, <1>25, <1>26 DEF Move, Step

-----------------------------------------------------------------------------
(* Types.                                                                  *)

CallsTyped ==
  /\ pc \in [Calls -> Points]
  /\ job \in [Calls -> Jobs \cup {NoJob}]
  /\ manifest \in [Calls -> Manifests \cup {Gone}]
  /\ private \in [Calls -> Images \cup {Gone}]
  /\ unchanged \in [Calls -> BOOLEAN]
  /\ attempted \in [Calls -> BOOLEAN]
  /\ code \in [Calls -> Store!Codes \cup {"none"}]
  /\ reply \in [Calls -> Store!Replies]

Verdicts == {"NOT_FOUND", "INCOMPLETE_SNAPSHOT", "INTEGRITY_FAILURE"}

LEMMA UnfitVerdict ==
  ASSUME NEW m, NEW x
  PROVE  Unfit(m, x) \in Verdicts \cup {"none"}
BY DEF Unfit, Verdicts

LEMMA ReplyTypes ==
  /\ Store!Pending \in Store!Replies /\ Store!Lost \in Store!Replies
  /\ \A e \in Store!Codes, st \in Store!States : [code |-> e, state |-> st] \in Store!Replies
BY DEF Store!Replies, Store!Pending, Store!Lost

LEMMA CallsTypedMove ==
  ASSUME Typed, NEW c \in Calls, JobOK(c), KnowledgeOK(c), Move(c)
  PROVE  CallsTyped'
<1>0. /\ pc[c] # "new" => expected(c) \in Manifests
      /\ pc[c] = "backup" => to(c) \in Places
  <2>1. pc[c] # "new" => job[c] \in Jobs /\ (pc[c] = "backup" => job[c].op = "create")
    BY PointFacts
  <2>2. pc[c] # "new" => expected(c) \in Manifests
    BY <2>1, JobFacts DEF expected
  <2>3. pc[c] = "backup" => to(c) \in Places
    BY <2>1, JobFacts DEF to, Makers
  <2>4. QED
    BY <2>2, <2>3
<1>a. pc[c] \in {"copy", "recheck"} => manifest[c] \in Manifests /\ manifest[c].image \in Images
  BY DEF KnowledgeOK, Knowing, Manifests
<1>b. \A x : Unfit(expected(c), x) \in Verdicts \cup {"none"} /\ Unfit(manifest[c], x) \in Verdicts \cup {"none"}
  BY UnfitVerdict
<1> USE DEF goto, raise, Typed, CallsTyped, Points, Store!Codes, Verdicts, files, Touch
<1>1. ASSUME NEW j \in Jobs, Ask(c, j) PROVE CallsTyped'
  BY <1>1 DEF Ask
<1>2. CASE Open(c)
  BY <1>2 DEF Open
<1>3. CASE Backup(c)
  <2>1. PICK image \in Images :
          /\ private' = [private EXCEPT ![c] = image]
          /\ manifest' = [manifest EXCEPT ![c] = [id |-> Id[to(c)], image |-> image]]
    BY <1>3 DEF Backup
  <2>2. [id |-> Id[to(c)], image |-> image] \in Manifests
    BY <1>0, <1>3 DEF Backup, Manifests
  <2>3. QED
    BY <1>3, <2>1, <2>2 DEF Backup
<1>4. CASE ReadMetadata(c)
  <2>1. expected(c) \in Manifests
    <3>1. pc[c] = "metadata"
      BY <1>4, Zenon DEF ReadMetadata
    <3>2. QED
      BY <1>0, <3>1
  <2>2. CASE Unfit(expected(c), from(c)) = "none"
    <3>1. /\ manifest' = [manifest EXCEPT ![c] = expected(c)]
          /\ unchanged' = [unchanged EXCEPT ![c] = TRUE]
          /\ pc' = [pc EXCEPT ![c] = "copy"]
          /\ UNCHANGED <<job, private, attempted, code, reply>>
      BY <1>4, <2>2, Zenon DEF ReadMetadata
    <3>2. QED
      BY <2>1, <3>1
  <2>3. CASE Unfit(expected(c), from(c)) # "none"
    BY <1>4, <1>b, <2>3 DEF ReadMetadata
  <2>4. QED
    BY <2>2, <2>3
<1>5. CASE OpenTarget(c)
  BY <1>0, <1>5 DEF OpenTarget
<1>6. CASE CopyInput(c)
  BY <1>a, <1>6 DEF CopyInput
<1>7. CASE Recheck(c)
  BY <1>7 DEF Recheck
<1>8. CASE ReadMetadataAgain(c)
  BY <1>b, <1>8 DEF ReadMetadataAgain
<1>9. CASE Mkdir(c)
  BY <1>9 DEF Mkdir
<1>10. CASE CopyOut(c)
  BY <1>10 DEF CopyOut
<1>11. CASE WriteManifest(c)
  BY <1>11 DEF WriteManifest
<1>12. CASE ReadBack(c)
  BY <1>12 DEF ReadBack
<1>13. CASE Sync(c)
  BY <1>13 DEF Sync
<1>14. CASE Stage(c)
  BY <1>14 DEF Stage
<1>15. CASE Link(c)
  BY <1>15 DEF Link, MakeLink
<1>16. CASE LinkExists(c)
  BY <1>16 DEF LinkExists
<1>17. CASE Unstage(c)
  BY <1>17 DEF Unstage
<1>18. CASE SyncAgain(c)
  BY <1>18 DEF SyncAgain
<1>19. CASE Final(c)
  BY <1>19 DEF Final
<1>20. CASE Leave(c)
  BY <1>20 DEF Leave
<1>21. CASE Report(c)
  <2>1. PICK r \in Store!Replies : reply' = [reply EXCEPT ![c] = r]
    BY ReplyTypes, <1>21 DEF Report, tell, Store!States
  <2>2. QED
    BY <1>21, <2>1 DEF Report, tell
<1>22. CASE Sweep(c)
  BY <1>22 DEF Sweep
<1>23. CASE Abandon(c)
  <2>1. PICK r \in Store!Replies : reply' = [reply EXCEPT ![c] = r]
    <3>1. code[c] \in Store!Codes
      BY <1>23 DEF Abandon, JobOK
    <3>2. QED
      BY ReplyTypes, <1>23, <3>1 DEF Abandon, tell, Store!States
  <2>2. QED
    BY <1>23, <2>1 DEF Abandon, tell
<1>24. CASE LinkFails(c)
  BY <1>24 DEF LinkFails, MakeLink
<1>25. CASE Fail(c)
  BY <1>25 DEF Fail
<1>26. CASE Crash(c)
  BY ReplyTypes, <1>26 DEF Crash
<1>27. QED
  BY <1>1, <1>2, <1>3, <1>4, <1>5, <1>6, <1>7, <1>8, <1>9, <1>10, <1>11, <1>12, <1>13, <1>14, <1>15,
     <1>16, <1>17, <1>18, <1>19, <1>20, <1>21, <1>22, <1>23, <1>24, <1>25, <1>26 DEF Move, Step

LEMMA DirectoryTypes ==
  /\ NoDirectory \in Directory /\ EmptyDirectory \in Directory
  /\ \A d \in Directory :
       /\ \A v \in Images \cup {Gone, Torn} :
            [d EXCEPT !.db = v] \in Directory /\ [d EXCEPT !.stage = v] \in Directory
       /\ \A m \in Manifests \cup {Gone, Torn} :
            [d EXCEPT !.manifest = m] \in Directory /\ [d EXCEPT !.marker = m] \in Directory
       /\ [d EXCEPT !.extra = There] \in Directory
BY DEF Directory, NoDirectory, EmptyDirectory

LEMMA TreeTypedMove ==
  ASSUME Typed, NEW c \in Calls, JobOK(c), KnowledgeOK(c), Move(c)
  PROVE  /\ tree' \in [Places -> Directory] /\ disk' \in [Places -> Directory]
         /\ linked' \subseteq Calls
<1>1. Effect(c)
  BY EffectOfMove
<1>2. pc[c] \in Filling \cup {"mkdir"} => to(c) \in Places
  <2>1. pc[c] \in Filling \cup {"mkdir"} => job[c] \in Jobs /\ job[c].op \in Makers
    BY PointFacts DEF Filling
  <2>2. QED
    BY <2>1, JobFacts DEF to
<1>3. tree \in [Places -> Directory] /\ disk \in [Places -> Directory] /\ linked \subseteq Calls
  BY DEF Typed
<1>4. private[c] \in Images \cup {Gone} /\ manifest[c] \in Manifests \cup {Gone}
  BY DEF Typed
<1>5. CASE Still
  BY <1>3, <1>5 DEF Still
<1>6. CASE Makes(c)
  BY <1>2, <1>3, <1>6, DirectoryTypes DEF Makes
<1>7. CASE Copies(c)
  <2>1. PICK v \in {private[c], Torn} : tree' = [tree EXCEPT ![to(c)].db = v]
    BY <1>7 DEF Copies
  <2>2. to(c) \in Places /\ v \in Images \cup {Gone, Torn}
    BY <1>2, <1>4, <1>7 DEF Copies, Filling
  <2>3. [tree[to(c)] EXCEPT !.db = v] \in Directory
    BY <1>3, <2>2, DirectoryTypes
  <2>4. QED
    BY <1>3, <1>7, <2>1, <2>2, <2>3 DEF Copies
<1>8. CASE Writes(c)
  <2>1. PICK v \in {manifest[c], Torn} : tree' = [tree EXCEPT ![to(c)].manifest = v]
    BY <1>8 DEF Writes
  <2>2. to(c) \in Places /\ v \in Manifests \cup {Gone, Torn}
    BY <1>2, <1>4, <1>8 DEF Writes, Filling
  <2>3. [tree[to(c)] EXCEPT !.manifest = v] \in Directory
    BY <1>3, <2>2, DirectoryTypes
  <2>4. QED
    BY <1>3, <1>8, <2>1, <2>2, <2>3 DEF Writes
<1>9. CASE Stages(c)
  <2>1. PICK v \in {private[c], Torn, Gone} : tree' = [tree EXCEPT ![to(c)].stage = v]
    BY <1>9 DEF Stages
  <2>2. to(c) \in Places /\ v \in Images \cup {Gone, Torn}
    BY <1>2, <1>4, <1>9 DEF Stages, Filling
  <2>3. [tree[to(c)] EXCEPT !.stage = v] \in Directory
    BY <1>3, <2>2, DirectoryTypes
  <2>4. QED
    BY <1>3, <1>9, <2>1, <2>2, <2>3 DEF Stages
<1>10. CASE Links(c)
  <2>1. to(c) \in Places
    BY <1>2, <1>10 DEF Links, Filling
  <2>2. tree[to(c)].stage \in Images \cup {Gone, Torn}
    BY <1>3, <2>1 DEF Directory
  <2>3. /\ [tree[to(c)] EXCEPT !.db = tree[to(c)].stage] \in Directory
        /\ [tree[to(c)] EXCEPT !.marker = manifest[c]] \in Directory
    BY <1>3, <1>4, <2>1, <2>2, DirectoryTypes
  <2>4. /\ disk' = disk /\ linked' = linked \cup {c}
        /\ \/ tree' = [tree EXCEPT ![to(c)].db = tree[to(c)].stage]
           \/ tree' = [tree EXCEPT ![to(c)].marker = manifest[c]]
    BY <1>10 DEF Links, MakeLink
  <2>5. QED
    BY <1>3, <2>1, <2>3, <2>4
<1>11. CASE Syncs(c)
  BY <1>2, <1>3, <1>11 DEF Syncs, Filling
<1>12. QED
  BY <1>1, <1>5, <1>6, <1>7, <1>8, <1>9, <1>10, <1>11 DEF Effect

LEMMA LeftDirectory ==
  ASSUME Typed, NEW x \in Places, NEW kept
  PROVE  Left(x, kept) \in Directory
<1>1. tree[x] \in Directory /\ disk[x] \in Directory
  BY DEF Typed
<1>2. /\ tree[x].dir \in {Gone, There} /\ tree[x].db \in Images \cup {Gone, Torn}
      /\ tree[x].manifest \in Manifests \cup {Gone, Torn}
      /\ tree[x].marker \in Manifests \cup {Gone, Torn}
      /\ tree[x].stage \in Images \cup {Gone, Torn} /\ tree[x].extra \in {Gone, There}
  BY <1>1 DEF Directory
<1>3. /\ disk[x].dir \in {Gone, There} /\ disk[x].db \in Images \cup {Gone, Torn}
      /\ disk[x].manifest \in Manifests \cup {Gone, Torn}
      /\ disk[x].marker \in Manifests \cup {Gone, Torn}
      /\ disk[x].stage \in Images \cup {Gone, Torn} /\ disk[x].extra \in {Gone, There}
  BY <1>1 DEF Directory
<1>4. QED
  BY <1>2, <1>3, DirectoryTypes DEF Left, Directory

LEMMA TypedNext ==
  ASSUME Typed, \A c \in Calls : JobOK(c) /\ KnowledgeOK(c), [Next]_vars
  PROVE  Typed'
<1>1. CASE UNCHANGED vars
  BY <1>1 DEF Typed, vars, files, calls
<1>2. CASE PowerLoss
  <2>1. PICK kept : tree' = [x \in Places |-> Left(x, kept)]
    BY <1>2 DEF PowerLoss
  <2>2. tree' \in [Places -> Directory] /\ disk' \in [Places -> Directory]
    BY <1>2, <2>1, LeftDirectory DEF PowerLoss
  <2>3. pc' \in [Calls -> Points] /\ reply' \in [Calls -> Store!Replies]
    BY <1>2, ReplyTypes DEF PowerLoss, Typed, Points
  <2>4. QED
    BY <1>2, <2>2, <2>3 DEF PowerLoss, Typed
<1>3. ASSUME NEW x \in Places, Spoil(x) PROVE Typed'
  <2>1. tree' \in [Places -> Directory]
    <3>1. tree \in [Places -> Directory] /\ tree[x] \in Directory
      BY DEF Typed
    <3>2. PICK d \in Directory : tree' = [tree EXCEPT ![x] = d]
      BY <1>3, <3>1, DirectoryTypes DEF Spoil
    <3>3. QED
      BY <3>1, <3>2
  <2>2. unchanged' \in [Calls -> BOOLEAN]
    BY <1>3 DEF Spoil, Touch, Typed
  <2>3. QED
    BY <1>3, <2>1, <2>2 DEF Spoil, Typed
<1>4. ASSUME NEW c \in Calls, Move(c) PROVE Typed'
  <2>1. spoiled' = spoiled
    BY <1>4, OthersStay
  <2>2. CallsTyped'
    BY <1>4, CallsTypedMove
  <2>3. tree' \in [Places -> Directory] /\ disk' \in [Places -> Directory] /\ linked' \subseteq Calls
    BY <1>4, TreeTypedMove
  <2>4. QED
    BY <2>1, <2>2, <2>3 DEF Typed, CallsTyped
<1>5. QED
  BY <1>1, <1>2, <1>3, <1>4 DEF Next, Move

-----------------------------------------------------------------------------
(* Where a call is, and what it knows there.                               *)

LEMMA PointsOfOperations ==
  /\ \A op \in Operations : {"new", "open", "leave", "report", "failed", "done"} \subseteq PointsOf(op)
  /\ "backup" \in PointsOf("create")
  /\ \A op \in {"publish", "verify", "restore"} :
       {"metadata", "copy", "recheck", "metadata2"} \subseteq PointsOf(op)
  /\ {"target", "copy", "recheck"} \subseteq PointsOf("check_restore")
  /\ \A op \in Makers : {"mkdir", "link", "unstage", "sync2", "final"} \subseteq PointsOf(op)
  /\ \A op \in Sealers : {"copyout", "writemanifest", "readback", "sync"} \subseteq PointsOf(op)
  /\ {"stage", "sweep"} \subseteq PointsOf("restore")
<1> USE DEF PointsOf
<1>1. \A op \in Operations : {"new", "open", "leave", "report", "failed", "done"} \subseteq PointsOf(op)
  OBVIOUS
<1>2. "backup" \in PointsOf("create")
  OBVIOUS
<1>3. \A op \in {"publish", "verify", "restore"} :
        {"metadata", "copy", "recheck", "metadata2"} \subseteq PointsOf(op)
  OBVIOUS
<1>4. {"target", "copy", "recheck"} \subseteq PointsOf("check_restore")
  OBVIOUS
<1>5. /\ {"mkdir", "link", "unstage", "sync2", "final"} \subseteq PointsOf("restore")
      /\ {"stage", "sweep"} \subseteq PointsOf("restore")
  BY DEF Sealers, Readers
<1>6. ASSUME NEW op \in Sealers
      PROVE  /\ {"mkdir", "link", "unstage", "sync2", "final"} \subseteq PointsOf(op)
             /\ {"copyout", "writemanifest", "readback", "sync"} \subseteq PointsOf(op)
  BY DEF Sealers, Readers
<1>7. \A op \in Makers : op \in Sealers \/ op = "restore"
  BY DEF Makers, Sealers
<1>8. QED
  BY <1>1, <1>2, <1>3, <1>4, <1>5, <1>6, <1>7

LEMMA JobMove ==
  ASSUME Typed, NEW c \in Calls, JobOK(c), Move(c)
  PROVE  JobOK(c)'
<1>0. /\ pc[c] # "new" => job[c] \in Jobs /\ job[c].op \in Operations
      /\ pc[c] = "backup" => job[c].op = "create"
      /\ pc[c] \in {"metadata", "metadata2"} => job[c].op \in {"publish", "verify", "restore"}
      /\ pc[c] = "target" => job[c].op = "check_restore"
      /\ pc[c] \in {"copy", "recheck"} => job[c].op \in {"publish", "verify", "restore", "check_restore"}
      /\ pc[c] \in {"copyout", "writemanifest", "readback", "sync"} => job[c].op \in Sealers
      /\ pc[c] \in {"stage", "sweep"} => job[c].op = "restore"
      /\ pc[c] \in Filling \cup {"mkdir"} => job[c].op \in Makers
  <2>1. pc[c] # "new" => job[c] \in Jobs
    BY PointFacts
  <2>2. pc[c] # "new" => job[c].op \in Operations
    BY <2>1, JobFacts
  <2>3. pc[c] \in {"copy", "recheck"} => job[c].op \in {"publish", "verify", "restore", "check_restore"}
    <3>1. pc[c] \in {"copy", "recheck"} => job[c].op # "create"
      BY PointFacts
    <3>2. QED
      BY <2>2, <3>1 DEF Operations
  <2>4. pc[c] # "new" =>
          /\ pc[c] = "backup" => job[c].op = "create"
          /\ pc[c] \in {"metadata", "metadata2"} => job[c].op \in {"publish", "verify", "restore"}
          /\ pc[c] = "target" => job[c].op = "check_restore"
          /\ pc[c] \in {"copyout", "writemanifest", "readback", "sync"} => job[c].op \in Sealers
          /\ pc[c] \in {"stage", "sweep"} => job[c].op = "restore"
          /\ pc[c] \in Filling \cup {"mkdir"} => job[c].op \in Makers
    BY PointFacts
  <2>5. QED
    BY <2>1, <2>2, <2>3, <2>4 DEF Filling
<1>a. /\ pc[c] # "new" => pc[c] \in PointsOf(job[c].op)
      /\ pc[c] # "done" => reply[c] = Store!Pending
      /\ pc[c] = "done" => reply[c] # Store!Pending
      /\ pc[c] \in {"failed", "sweep"} => code[c] \in Verdicts \cup {"TARGET_EXISTS", "IO_ERROR"}
      /\ pc[c] = "new" => job[c] = NoJob
  BY DEF JobOK, Verdicts
<1>c. \A x : Unfit(expected(c), x) \in Verdicts \cup {"none"} /\ Unfit(manifest[c], x) \in Verdicts \cup {"none"}
  BY UnfitVerdict
<1> USE DEF goto, raise, Typed, JobOK, Verdicts, files, Filling, Makers, Sealers, Restores
<1>1. ASSUME NEW j \in Jobs, Ask(c, j) PROVE JobOK(c)'
  <2>1. job'[c] = j /\ pc'[c] = "open" /\ reply' = reply /\ pc[c] = "new"
    BY <1>1 DEF Ask
  <2>2. j.op \in Operations
    BY JobFacts
  <2>3. QED
    BY <1>a, <2>1, <2>2, PointsOfOperations
<1>2. CASE Open(c)
  <2>1. /\ pc[c] = "open" /\ job' = job /\ reply' = reply
        /\ \/ pc'[c] = "failed" /\ code'[c] = "TARGET_EXISTS"
           \/ pc'[c] = CASE job[c].op = "create" -> "backup"
                      [] job[c].op = "check_restore" -> "target"
                      [] OTHER -> "metadata"
    BY <1>2 DEF Open
  <2>2. pc'[c] \in PointsOf(job[c].op)
    BY <1>0, <2>1, PointsOfOperations DEF Operations
  <2>3. pc'[c] \notin {"new", "done", "sweep"} /\ (pc'[c] = "failed" => code'[c] = "TARGET_EXISTS")
    BY <2>1
  <2>4. QED
    BY <1>0, <1>a, <2>1, <2>2, <2>3
<1>3. CASE Backup(c)
  BY <1>0, <1>a, PointsOfOperations, <1>3 DEF Backup
<1>4. CASE ReadMetadata(c)
  BY <1>0, <1>a, PointsOfOperations, <1>c, <1>4 DEF ReadMetadata
<1>5. CASE OpenTarget(c)
  BY <1>0, <1>a, PointsOfOperations, <1>5 DEF OpenTarget
<1>6. CASE CopyInput(c)
  BY <1>0, <1>a, PointsOfOperations, <1>6 DEF CopyInput
<1>7. CASE Recheck(c)
  BY <1>0, <1>a, PointsOfOperations, <1>7 DEF Recheck
<1>8. CASE ReadMetadataAgain(c)
  BY <1>0, <1>a, PointsOfOperations, <1>c, <1>8 DEF ReadMetadataAgain
<1>9. CASE Mkdir(c)
  BY <1>0, <1>a, PointsOfOperations, <1>9 DEF Mkdir
<1>10. CASE CopyOut(c)
  BY <1>0, <1>a, PointsOfOperations, <1>10 DEF CopyOut
<1>11. CASE WriteManifest(c)
  BY <1>0, <1>a, PointsOfOperations, <1>11 DEF WriteManifest
<1>12. CASE ReadBack(c)
  BY <1>0, <1>a, PointsOfOperations, <1>12 DEF ReadBack
<1>13. CASE Sync(c)
  BY <1>0, <1>a, PointsOfOperations, <1>13 DEF Sync
<1>14. CASE Stage(c)
  BY <1>0, <1>a, PointsOfOperations, <1>14 DEF Stage
<1>15. CASE Link(c)
  BY <1>0, <1>a, PointsOfOperations, <1>15 DEF Link
<1>16. CASE LinkExists(c)
  BY <1>0, <1>a, PointsOfOperations, <1>16 DEF LinkExists
<1>17. CASE Unstage(c)
  BY <1>0, <1>a, PointsOfOperations, <1>17 DEF Unstage
<1>18. CASE SyncAgain(c)
  BY <1>0, <1>a, PointsOfOperations, <1>18 DEF SyncAgain
<1>19. CASE Final(c)
  BY <1>0, <1>a, PointsOfOperations, <1>19 DEF Final
<1>20. CASE Leave(c)
  BY <1>0, <1>a, PointsOfOperations, <1>20 DEF Leave
<1>21. CASE Report(c)
  <2>1. /\ pc[c] = "report" /\ job' = job /\ pc'[c] = "done"
        /\ \E st \in Store!States, e \in {"OK", "IO_ERROR"} : reply'[c] = [code |-> e, state |-> st]
    BY <1>21 DEF Report, tell, Store!States
  <2>2. reply'[c] # Store!Pending
    BY <2>1 DEF Store!Pending
  <2>3. QED
    BY <1>0, <1>a, <2>1, <2>2, PointsOfOperations
<1>22. CASE Sweep(c)
  BY <1>0, <1>a, PointsOfOperations, <1>22 DEF Sweep
<1>23. CASE Abandon(c)
  <2>1. /\ pc[c] = "failed" /\ job' = job /\ pc'[c] = "done"
        /\ reply'[c].code \in {"PUBLICATION_UNKNOWN", code[c]}
    BY <1>23 DEF Abandon, tell
  <2>2. reply'[c] # Store!Pending
    BY <1>a, <2>1 DEF Store!Pending
  <2>3. QED
    BY <1>0, <1>a, <2>1, <2>2, PointsOfOperations
<1>24. CASE LinkFails(c)
  BY <1>0, <1>a, PointsOfOperations, <1>24 DEF LinkFails
<1>25. CASE Fail(c)
  <2>1. /\ pc[c] \notin {"new", "done", "sweep", "failed"} /\ job' = job /\ reply' = reply
        /\ pc'[c] = IF Restores(c) /\ pc[c] \in {"stage", "link"} THEN "sweep" ELSE "failed"
        /\ code'[c] = "IO_ERROR"
    BY <1>25 DEF Fail, Running
  <2>2. pc'[c] \in PointsOf(job[c].op)
    BY <1>0, <2>1, PointsOfOperations
  <2>3. QED
    BY <1>0, <1>a, <2>1, <2>2
<1>26. CASE Crash(c)
  <2>1. pc[c] # "new" /\ job' = job /\ pc'[c] = "done" /\ reply'[c] = Store!Lost
    BY <1>26 DEF Crash, Running
  <2>2. reply'[c] # Store!Pending
    BY <2>1 DEF Store!Pending, Store!Lost
  <2>3. QED
    BY <1>0, <1>a, <2>1, <2>2, PointsOfOperations
<1>27. QED
  BY <1>1, <1>2, <1>3, <1>4, <1>5, <1>6, <1>7, <1>8, <1>9, <1>10, <1>11, <1>12, <1>13, <1>14, <1>15,
     <1>16, <1>17, <1>18, <1>19, <1>20, <1>21, <1>22, <1>23, <1>24, <1>25, <1>26 DEF Move, Step

LEMMA KnowledgeMove ==
  ASSUME Typed, NEW c \in Calls, JobOK(c), KnowledgeOK(c), Move(c)
  PROVE  KnowledgeOK(c)'
<1>0. /\ pc[c] # "new" => job[c] \in Jobs /\ expected(c) \in Manifests
      /\ pc[c] = "backup" => job[c].op = "create" /\ to(c) \in Places
      /\ pc[c] \in {"metadata", "metadata2"} => job[c].op \in {"publish", "verify", "restore"}
      /\ pc[c] = "target" => job[c].op = "check_restore"
      /\ pc[c] \in Filling \cup {"mkdir"} => job[c].op \in Makers
  <2>1. pc[c] # "new" =>
          /\ job[c] \in Jobs
          /\ pc[c] = "backup" => job[c].op = "create"
          /\ pc[c] \in {"metadata", "metadata2"} => job[c].op \in {"publish", "verify", "restore"}
          /\ pc[c] = "target" => job[c].op = "check_restore"
          /\ pc[c] \in Filling \cup {"mkdir"} => job[c].op \in Makers
    BY PointFacts
  <2>2. pc[c] # "new" => expected(c) \in Manifests
    BY <2>1, JobFacts DEF expected
  <2>3. pc[c] = "backup" => to(c) \in Places
    BY <2>1, JobFacts DEF to, Makers
  <2>4. QED
    BY <2>1, <2>2, <2>3 DEF Filling
<1>a. /\ pc[c] # "done" => reply[c] = Store!Pending
      /\ pc \in [Calls -> Points] /\ attempted \in [Calls -> BOOLEAN]
  BY DEF JobOK, Typed
<1> USE DEF goto, raise, Typed, KnowledgeOK, Knowing, Copied, Filling, Published, Makers, Readers, Reads, files,
           expected, to
<1>1. ASSUME NEW j \in Jobs, Ask(c, j) PROVE KnowledgeOK(c)'
  BY <1>0, <1>a, <1>1, JobFacts DEF Ask
<1>2. CASE Open(c)
  BY <1>0, <1>a, <1>2 DEF Open
<1>3. CASE Backup(c)
  <2>1. PICK image \in Images :
          /\ private' = [private EXCEPT ![c] = image]
          /\ manifest' = [manifest EXCEPT ![c] = [id |-> Id[to(c)], image |-> image]]
    BY <1>3 DEF Backup
  <2>2. /\ pc[c] = "backup" /\ pc' = [pc EXCEPT ![c] = "mkdir"]
        /\ UNCHANGED <<job, attempted, reply, linked>>
    BY <1>3 DEF Backup
  <2>3. manifest'[c] = [id |-> Id[to(c)], image |-> image] /\ private'[c] = image /\ pc'[c] = "mkdir"
    BY <2>1, <2>2
  <2>4. manifest'[c] \in Manifests /\ manifest'[c].image = private'[c] /\ manifest'[c].id = Id[to(c)]
    BY <1>0, <2>2, <2>3 DEF Manifests
  <2>5. c \notin linked /\ job[c].op = "create"
    BY <1>0, <2>2
  <2>6. QED
    BY <2>2, <2>3, <2>4, <2>5
<1>4. CASE ReadMetadata(c)
  BY <1>0, <1>a, <1>4 DEF ReadMetadata
<1>5. CASE OpenTarget(c)
  BY <1>0, <1>a, <1>5 DEF OpenTarget
<1>6. CASE CopyInput(c)
  BY <1>0, <1>a, <1>6 DEF CopyInput
<1>7. CASE Recheck(c)
  BY <1>0, <1>a, <1>7 DEF Recheck
<1>8. CASE ReadMetadataAgain(c)
  BY <1>0, <1>a, <1>8 DEF ReadMetadataAgain
<1>9. CASE Mkdir(c)
  BY <1>0, <1>a, <1>9 DEF Mkdir
<1>10. CASE CopyOut(c)
  BY <1>0, <1>a, <1>10 DEF CopyOut
<1>11. CASE WriteManifest(c)
  BY <1>0, <1>a, <1>11 DEF WriteManifest
<1>12. CASE ReadBack(c)
  BY <1>0, <1>a, <1>12 DEF ReadBack
<1>13. CASE Sync(c)
  BY <1>0, <1>a, <1>13 DEF Sync
<1>14. CASE Stage(c)
  BY <1>0, <1>a, <1>14 DEF Stage
<1>15. CASE Link(c)
  BY <1>0, <1>a, <1>15 DEF Link, MakeLink
<1>16. CASE LinkExists(c)
  BY <1>0, <1>a, <1>16 DEF LinkExists
<1>17. CASE Unstage(c)
  BY <1>0, <1>a, <1>17 DEF Unstage
<1>18. CASE SyncAgain(c)
  BY <1>0, <1>a, <1>18 DEF SyncAgain
<1>19. CASE Final(c)
  BY <1>0, <1>a, <1>19 DEF Final
<1>20. CASE Leave(c)
  BY <1>0, <1>a, <1>20 DEF Leave
<1>21. CASE Report(c)
  BY <1>0, <1>a, <1>21 DEF Report, tell, Store!States
<1>22. CASE Sweep(c)
  BY <1>0, <1>a, <1>22 DEF Sweep
<1>23. CASE Abandon(c)
  BY <1>0, <1>a, <1>23 DEF Abandon, tell
<1>24. CASE LinkFails(c)
  BY <1>0, <1>a, <1>24 DEF LinkFails, MakeLink
<1>25. CASE Fail(c)
  BY <1>0, <1>a, <1>25 DEF Fail
<1>26. CASE Crash(c)
  BY <1>0, <1>a, <1>26 DEF Crash, Store!Lost
<1>27. QED
  BY <1>1, <1>2, <1>3, <1>4, <1>5, <1>6, <1>7, <1>8, <1>9, <1>10, <1>11, <1>12, <1>13, <1>14, <1>15,
     <1>16, <1>17, <1>18, <1>19, <1>20, <1>21, <1>22, <1>23, <1>24, <1>25, <1>26 DEF Move, Step

LEMMA CallsNext ==
  ASSUME Typed, \A c \in Calls : JobOK(c) /\ KnowledgeOK(c), [Next]_vars
  PROVE  \A c \in Calls : JobOK(c)' /\ KnowledgeOK(c)'
<1> SUFFICES ASSUME NEW d \in Calls PROVE JobOK(d)' /\ KnowledgeOK(d)'
  OBVIOUS
<1>0. JobOK(d) /\ KnowledgeOK(d)
  OBVIOUS
<1>a. ASSUME SameCall(d), d \in linked' <=> d \in linked PROVE JobOK(d)' /\ KnowledgeOK(d)'
  BY <1>0, <1>a DEF SameCall, JobOK, KnowledgeOK, to, expected, Published, Reads
<1>1. CASE UNCHANGED vars
  BY <1>a, <1>1 DEF vars, files, calls, SameCall
<1>2. CASE PowerLoss
  <2>1. CASE ~ Running(d)
    BY <1>2, <1>a, <2>1 DEF PowerLoss, SameCall
  <2>2. CASE Running(d)
    <3>1. /\ pc[d] # "new" /\ pc'[d] = "done" /\ reply'[d] = Store!Lost
          /\ job'[d] = job[d] /\ manifest'[d] = manifest[d] /\ private'[d] = private[d]
          /\ attempted'[d] = attempted[d] /\ linked' = linked
      BY <1>2, <2>2 DEF PowerLoss, Running
    <3>2. JobOK(d)'
      <4>1. job[d] \in Jobs /\ job[d].op \in Operations
        BY <1>0, <3>1, PointFacts, JobFacts
      <4>2. QED
        BY <3>1, <4>1, PointsOfOperations DEF JobOK, Store!Lost, Store!Pending
    <3>3. KnowledgeOK(d)'
      BY <1>0, <3>1 DEF KnowledgeOK, Knowing, Copied, Filling, Published, Store!Lost, to, expected
    <3>4. QED
      BY <3>2, <3>3
  <2>3. QED
    BY <2>1, <2>2
<1>3. ASSUME NEW x \in Places, Spoil(x) PROVE JobOK(d)' /\ KnowledgeOK(d)'
  BY <1>a, <1>3 DEF Spoil, SameCall
<1>4. ASSUME NEW c \in Calls, Move(c) PROVE JobOK(d)' /\ KnowledgeOK(d)'
  <2>1. CASE d = c
    BY <1>0, <1>4, <2>1, JobMove, KnowledgeMove
  <2>2. CASE d # c
    <3>1. SameCall(d)
      BY <1>4, <2>2, OthersStay
    <3>2. linked' \in {linked, linked \cup {c}}
      <4>1. Effect(c)
        BY <1>4, EffectOfMove
      <4>2. QED
        BY <4>1 DEF Effect, Still, Makes, Copies, Writes, Stages, Links, Syncs, MakeLink
    <3>3. QED
      BY <1>a, <2>2, <3>1, <3>2
  <2>3. QED
    BY <2>1, <2>2
<1>5. QED
  BY <1>1, <1>2, <1>3, <1>4 DEF Next, Move

-----------------------------------------------------------------------------
(* Directories and their owners.                                           *)

LEMMA BecomesOwner ==
  ASSUME Typed, NEW c \in Calls, JobOK(c), KnowledgeOK(c), Move(c), Owns(c)'
  PROVE  Owns(c) \/ Makes(c)
<1>0. /\ pc[c] # "new" => job[c] \in Jobs
      /\ pc[c] \in {"copy", "recheck"} => job[c].op # "create"
      /\ pc[c] = "metadata2" => job[c].op \in {"publish", "verify", "restore"}
      /\ pc[c] = "new" => job[c] = NoJob
      /\ pc[c] # "done" => reply[c] = Store!Pending
  BY PointFacts DEF JobOK
<1> USE DEF goto, raise, Typed, Owns, Filling, Published, Readers, Reads, files, Store!Pending
<1>1. ASSUME NEW j \in Jobs, Ask(c, j) PROVE Owns(c) \/ Makes(c)
  BY <1>1 DEF Ask
<1>2. CASE Open(c)
  BY <1>0, <1>2 DEF Open
<1>3. CASE Backup(c)
  BY <1>0, <1>3 DEF Backup
<1>4. CASE ReadMetadata(c)
  BY <1>0, <1>4 DEF ReadMetadata
<1>5. CASE OpenTarget(c)
  BY <1>0, <1>5 DEF OpenTarget
<1>6. CASE CopyInput(c)
  BY <1>0, <1>6 DEF CopyInput
<1>7. CASE Recheck(c)
  BY <1>0, <1>7 DEF Recheck
<1>8. CASE ReadMetadataAgain(c)
  BY <1>0, <1>8 DEF ReadMetadataAgain
<1>9. CASE Mkdir(c)
  BY <1>0, <1>9 DEF Mkdir, Makes
<1>10. CASE CopyOut(c)
  BY <1>0, <1>10 DEF CopyOut
<1>11. CASE WriteManifest(c)
  BY <1>0, <1>11 DEF WriteManifest
<1>12. CASE ReadBack(c)
  BY <1>0, <1>12 DEF ReadBack
<1>13. CASE Sync(c)
  BY <1>0, <1>13 DEF Sync
<1>14. CASE Stage(c)
  BY <1>0, <1>14 DEF Stage
<1>15. CASE Link(c)
  BY <1>0, <1>15 DEF Link
<1>16. CASE LinkExists(c)
  BY <1>0, <1>16 DEF LinkExists
<1>17. CASE Unstage(c)
  BY <1>0, <1>17 DEF Unstage
<1>18. CASE SyncAgain(c)
  BY <1>0, <1>18 DEF SyncAgain
<1>19. CASE Final(c)
  BY <1>0, <1>19 DEF Final
<1>20. CASE Leave(c)
  BY <1>0, <1>20 DEF Leave
<1>21. CASE Report(c)
  BY <1>0, <1>21 DEF Report, tell
<1>22. CASE Sweep(c)
  BY <1>0, <1>22 DEF Sweep
<1>23. CASE Abandon(c)
  BY <1>0, <1>23 DEF Abandon, tell
<1>24. CASE LinkFails(c)
  BY <1>0, <1>24 DEF LinkFails
<1>25. CASE Fail(c)
  BY <1>0, <1>25 DEF Fail
<1>26. CASE Crash(c)
  BY <1>0, <1>26 DEF Crash, Store!Lost
<1>27. QED
  BY <1>1, <1>2, <1>3, <1>4, <1>5, <1>6, <1>7, <1>8, <1>9, <1>10, <1>11, <1>12, <1>13, <1>14, <1>15,
     <1>16, <1>17, <1>18, <1>19, <1>20, <1>21, <1>22, <1>23, <1>24, <1>25, <1>26 DEF Move, Step

LEMMA MakerFacts ==
  ASSUME Typed, NEW c \in Calls, JobOK(c), KnowledgeOK(c), Owns(c) \/ pc[c] = "mkdir" \/ c \in linked
  PROVE  /\ job[c] \in Jobs /\ job[c].op \in Makers /\ to(c) \in Places /\ pc[c] # "new"
         /\ Restores(c) => to(c) \in Targets /\ to(c) \notin Generations
         /\ ~ Restores(c) => job[c].op \in Sealers /\ to(c) \in Generations /\ to(c) \notin Targets
<1>1. job[c] \in Jobs /\ job[c].op \in Makers /\ pc[c] # "new"
  <2>1. CASE pc[c] \in Filling \cup {"mkdir"}
    BY <2>1, PointFacts DEF Filling
  <2>2. CASE c \in linked
    BY <2>2 DEF KnowledgeOK
  <2>3. CASE Owns(c) /\ pc[c] \notin Filling
    BY <2>3 DEF Owns, Published, KnowledgeOK
  <2>4. QED
    BY <2>1, <2>2, <2>3
<1>2. job[c].op \in Sealers \/ job[c].op = "restore"
  BY <1>1 DEF Sealers, Makers
<1>3. QED
  BY <1>1, <1>2, JobFacts DEF to, Restores, Sealers

\* The directory of its job is the only one a step of a call changes.
LEMMA OtherDirectories ==
  ASSUME Typed, NEW c \in Calls, Effect(c), NEW x \in Places,
         x # to(c) \/ ~ (Owns(c) \/ Makes(c))
  PROVE  tree'[x] = tree[x] /\ disk'[x] = disk[x]
BY DEF Effect, Still, Makes, Copies, Writes, Stages, Links, Syncs, MakeLink, Owns, Filling, Typed

LEMMA DirectoryStays ==
  ASSUME Typed, NEW c \in Calls, Effect(c), NEW x \in Places, to(c) \in Places \/ Still
  PROVE  /\ tree[x].dir # Gone => tree'[x].dir # Gone
         /\ disk[x].dir # Gone /\ tree[x].dir # Gone => disk'[x].dir # Gone
<1>1. There # Gone
  BY ValuesAssumption
<1>2. tree[x] \in Directory
  BY DEF Typed
<1>3. QED
  BY <1>1, <1>2 DEF Effect, Still, Makes, Copies, Writes, Stages, Links, Syncs, MakeLink, Typed,
                    Directory, EmptyDirectory

LEMMA DirectoryMove ==
  ASSUME IInv, NEW c \in Calls, Move(c), NEW x \in Places
  PROVE  DirectoryOK(x)'
<1>0. /\ Typed /\ JobOK(c) /\ KnowledgeOK(c) /\ DirectoryOK(x) /\ OwnersOK
  BY DEF IInv
<1>1. Effect(c)
  BY <1>0, EffectOfMove
<1>2. CASE x # to(c) \/ ~ (Owns(c) \/ Makes(c))
  BY <1>0, <1>1, <1>2, OtherDirectories DEF DirectoryOK
<1>3. CASE x = to(c) /\ (Owns(c) \/ Makes(c))
  <2>1. x \in Generations \cup Targets /\ to(c) \in Places
    BY <1>0, <1>3, MakerFacts DEF Makes
  <2>2. CASE Makes(c)
    <3>1. tree'[x] = EmptyDirectory /\ disk'[x] = NoDirectory
      BY <1>0, <1>3, <2>1, <2>2 DEF Makes, Typed, DirectoryOK
    <3>2. There # Gone
      BY ValuesAssumption
    <3>3. QED
      BY <2>1, <3>1, <3>2 DEF DirectoryOK, EmptyDirectory, NoDirectory
  <2>3. CASE ~ Makes(c)
    <3>1. tree[x].dir # Gone
      BY <1>0, <1>3, <2>3 DEF OwnersOK
    <3>2. tree'[x].dir # Gone
      BY <1>0, <1>1, <2>1, <3>1, DirectoryStays
    <3>3. disk'[x] \in {disk[x], tree[x]}
      BY <1>0, <1>1, <2>1 DEF Effect, Still, Makes, Copies, Writes, Stages, Links, Syncs, Typed
    <3>4. QED
      BY <1>0, <2>1, <3>1, <3>2, <3>3 DEF DirectoryOK
  <2>4. QED
    BY <2>2, <2>3
<1>4. QED
  BY <1>2, <1>3

\* The second fsync is the one way to the points behind it.
LEMMA SyncedBefore ==
  ASSUME Typed, NEW c \in Calls, JobOK(c), KnowledgeOK(c), Move(c), Owns(c)',
         pc'[c] \in {"final", "leave", "report", "done"}
  PROVE  SyncAgain(c) \/ (Owns(c) /\ pc[c] \in {"final", "leave", "report", "done"})
<1>0. /\ pc[c] # "new" => job[c] \in Jobs
      /\ pc[c] \in {"copy", "recheck"} => job[c].op # "create"
      /\ pc[c] = "metadata2" => job[c].op \in {"publish", "verify", "restore"}
      /\ pc[c] = "new" => job[c] = NoJob
      /\ pc[c] # "done" => reply[c] = Store!Pending
  BY PointFacts DEF JobOK
<1> DEFINE goal == SyncAgain(c) \/ (Owns(c) /\ pc[c] \in {"final", "leave", "report", "done"})
<1> USE DEF goto, raise, Typed, Owns, Filling, Published, Readers, Reads, files, Store!Pending
<1>1. ASSUME NEW j \in Jobs, Ask(c, j) PROVE goal
  BY <1>1 DEF Ask
<1>2. CASE Open(c)
  BY <1>0, <1>2 DEF Open
<1>3. CASE Backup(c)
  BY <1>0, <1>3 DEF Backup
<1>4. CASE ReadMetadata(c)
  BY <1>0, <1>4 DEF ReadMetadata
<1>5. CASE OpenTarget(c)
  BY <1>0, <1>5 DEF OpenTarget
<1>6. CASE CopyInput(c)
  BY <1>0, <1>6 DEF CopyInput
<1>7. CASE Recheck(c)
  BY <1>0, <1>7 DEF Recheck
<1>8. CASE ReadMetadataAgain(c)
  BY <1>0, <1>8 DEF ReadMetadataAgain
<1>9. CASE Mkdir(c)
  BY <1>0, <1>9 DEF Mkdir
<1>10. CASE CopyOut(c)
  BY <1>0, <1>10 DEF CopyOut
<1>11. CASE WriteManifest(c)
  BY <1>0, <1>11 DEF WriteManifest
<1>12. CASE ReadBack(c)
  BY <1>0, <1>12 DEF ReadBack
<1>13. CASE Sync(c)
  BY <1>0, <1>13 DEF Sync
<1>14. CASE Stage(c)
  BY <1>0, <1>14 DEF Stage
<1>15. CASE Link(c)
  BY <1>0, <1>15 DEF Link
<1>16. CASE LinkExists(c)
  BY <1>0, <1>16 DEF LinkExists
<1>17. CASE Unstage(c)
  BY <1>0, <1>17 DEF Unstage
<1>18. CASE SyncAgain(c)
  BY <1>0, <1>18 DEF SyncAgain
<1>19. CASE Final(c)
  BY <1>0, <1>19 DEF Final
<1>20. CASE Leave(c)
  BY <1>0, <1>20 DEF Leave
<1>21. CASE Report(c)
  BY <1>0, <1>21 DEF Report, tell
<1>22. CASE Sweep(c)
  BY <1>0, <1>22 DEF Sweep
<1>23. CASE Abandon(c)
  BY <1>0, <1>23 DEF Abandon, tell
<1>24. CASE LinkFails(c)
  BY <1>0, <1>24 DEF LinkFails
<1>25. CASE Fail(c)
  BY <1>0, <1>25 DEF Fail
<1>26. CASE Crash(c)
  BY <1>0, <1>26 DEF Crash, Store!Lost
<1>27. QED
  BY <1>1, <1>2, <1>3, <1>4, <1>5, <1>6, <1>7, <1>8, <1>9, <1>10, <1>11, <1>12, <1>13, <1>14, <1>15,
     <1>16, <1>17, <1>18, <1>19, <1>20, <1>21, <1>22, <1>23, <1>24, <1>25, <1>26 DEF Move, Step

LEMMA OwnersMove ==
  ASSUME IInv, NEW c \in Calls, Move(c)
  PROVE  OwnersOK'
<1>0. Typed /\ OwnersOK /\ \A d \in Calls : JobOK(d) /\ KnowledgeOK(d)
  BY DEF IInv
<1>1. Effect(c)
  BY <1>0, EffectOfMove
<1>2. ASSUME NEW d \in Calls, d # c
      PROVE  /\ pc'[d] = pc[d] /\ job'[d] = job[d] /\ to(d)' = to(d)
             /\ Owns(d)' => Owns(d)
  BY <1>0, <1>2, OthersStay DEF SameCall, Owns, Published, Reads, to
<1>3. Owns(c)' => /\ Owns(c) \/ Makes(c)
                  /\ to(c)' = to(c)
  <2>1. Owns(c)' => Owns(c) \/ Makes(c)
    BY <1>0, BecomesOwner
  <2>2. Owns(c) \/ Makes(c) => pc[c] # "new"
    BY <1>0, MakerFacts DEF Makes
  <2>3. QED
    BY <1>0, <2>1, <2>2, OwnStays DEF KeepsOwn, to
<1>4. \A d \in Calls : Owns(d) => to(d) \in Places /\ tree[to(d)].dir # Gone
  BY <1>0, MakerFacts DEF OwnersOK
<1>5. ASSUME NEW d \in Calls, Owns(d)'
      PROVE  /\ tree'[to(d)'].dir # Gone
             /\ pc'[d] \in {"final", "leave", "report", "done"} => disk'[to(d)'].dir # Gone
  <2>1. to(c) \in Places \/ Still
    <3>1. ~ Still => pc[c] \in Filling \cup {"mkdir"}
      BY <1>1 DEF Effect, Makes, Copies, Writes, Stages, Links, Syncs, Filling
    <3>2. QED
      BY <1>0, <3>1, MakerFacts DEF Owns
  <2>2. \A x \in Places : tree[x].dir # Gone =>
          tree'[x].dir # Gone /\ (disk[x].dir # Gone => disk'[x].dir # Gone)
    BY <1>0, <1>1, <2>1, DirectoryStays
  <2>3. CASE d # c
    BY <1>0, <1>2, <1>4, <1>5, <2>2, <2>3 DEF OwnersOK
  <2>4. CASE d = c /\ Makes(c)
    <3>1. tree'[to(c)] = EmptyDirectory /\ to(c) \in Places
      BY <1>0, <2>4, MakerFacts DEF Makes, Typed
    <3>2. tree'[to(c)].dir # Gone
      BY <3>1, ValuesAssumption DEF EmptyDirectory
    <3>3. pc'[c] \notin {"final", "leave", "report", "done"}
      BY <1>0, <1>5, <2>4, SyncedBefore DEF Makes, SyncAgain, Owns
    <3>4. QED
      BY <1>3, <1>5, <2>4, <3>2, <3>3
  <2>5. CASE d = c /\ Owns(c)
    <3>1. tree'[to(c)].dir # Gone
      BY <1>4, <2>2, <2>5
    <3>2. SyncAgain(c) => disk'[to(c)].dir # Gone
      BY <1>0, <1>4, <2>5 DEF SyncAgain, Typed
    <3>3. Owns(c) /\ pc[c] \in {"final", "leave", "report", "done"} => disk'[to(c)].dir # Gone
      BY <1>0, <1>4, <2>2, <2>5 DEF OwnersOK
    <3>4. QED
      BY <1>0, <1>3, <1>5, <2>5, <3>1, <3>2, <3>3, SyncedBefore
  <2>6. QED
    BY <1>3, <1>5, <2>3, <2>4, <2>5
<1>6. ASSUME NEW d \in Calls, NEW e \in Calls, Owns(d)', Owns(e)', to(d)' = to(e)'
      PROVE  d = e
  <2>1. CASE d # c /\ e # c
    BY <1>0, <1>2, <1>6, <2>1 DEF OwnersOK
  <2>2. ASSUME NEW f \in Calls, f # c, Owns(f)', Owns(c)', to(f)' = to(c)' PROVE FALSE
    <3>1. Owns(f) /\ to(f) = to(c)
      BY <1>2, <1>3, <2>2
    <3>2. ~ Owns(c)
      BY <1>0, <2>2, <3>1 DEF OwnersOK
    <3>3. tree[to(c)].dir = Gone
      BY <1>3, <2>2, <3>2 DEF Makes
    <3>4. QED
      BY <1>4, <3>1, <3>3
  <2>3. QED
    BY <1>6, <2>1, <2>2
<1>7. QED
  BY <1>5, <1>6 DEF OwnersOK

-----------------------------------------------------------------------------
(* What a call finds in its target.                                        *)

LEMMA TargetMoveOwn ==
  ASSUME IInv, NEW c \in Calls, Move(c)
  PROVE  TargetOK(c)'
<1> SUFFICES ASSUME Owns(c)', to(c)' \notin spoiled' PROVE TargetOK(c)'
  BY DEF TargetOK
<1>i. Typed /\ OwnersOK /\ JobOK(c) /\ KnowledgeOK(c) /\ TargetOK(c)
  BY DEF IInv
<1>a. Owns(c) \/ Makes(c)
  BY <1>i, BecomesOwner
<1>p. pc[c] # "new"
  BY <1>i, <1>a, MakerFacts DEF Makes
<1>c. /\ job'[c] = job[c] /\ manifest'[c] = manifest[c] /\ spoiled' = spoiled
      /\ to(c)' = to(c) /\ to(c) \in Places /\ to(c) \notin spoiled
  <2>1. to(c) \in Places
    BY <1>i, <1>a, MakerFacts DEF Makes
  <2>2. job'[c] = job[c] /\ manifest'[c] = manifest[c]
    <3>1. pc[c] \notin {"backup", "metadata", "target"}
      BY <1>a DEF Owns, Makes, Filling, Published
    <3>2. QED
      BY <1>i, <1>p, <3>1, OwnStays DEF KeepsOwn
  <2>3. spoiled' = spoiled
    BY <1>i, OthersStay
  <2>4. QED
    BY <2>1, <2>2, <2>3 DEF to
<1>d. Owns(c) => TargetOK(c) /\ to(c) \notin spoiled
  BY <1>i, <1>c
<1>e. pc[c] \in Copied => private[c] = manifest[c].image
  BY <1>i DEF KnowledgeOK
<1>o. Owns(c)'
  OBVIOUS
<1>w. pc'[c] \in {"open", "backup", "metadata", "target", "copy", "recheck", "metadata2", "mkdir",
                 "sweep", "failed"} => TargetOK(c)'
  BY DEF TargetOK
<1> USE <1>i
<1>1. ASSUME NEW j \in Jobs, Ask(c, j) PROVE TargetOK(c)'
  BY <1>1, <1>p DEF Ask
<1>2. CASE Open(c)
  BY <1>w, <1>2 DEF Open, goto, raise, Typed
<1>3. CASE Backup(c)
  BY <1>w, <1>3 DEF Backup, goto, raise, Typed
<1>4. CASE ReadMetadata(c)
  BY <1>w, <1>4 DEF ReadMetadata, goto, raise, Typed
<1>5. CASE OpenTarget(c)
  BY <1>w, <1>5 DEF OpenTarget, goto, raise, Typed
<1>6. CASE CopyInput(c)
  BY <1>w, <1>6 DEF CopyInput, goto, raise, Typed
<1>7. CASE Recheck(c)
  BY <1>c, <1>w, <1>o, <1>7 DEF Recheck, goto, raise, Typed, Owns, Filling, Published, Reads,
     Readers
<1>8. CASE ReadMetadataAgain(c)
  BY <1>c, <1>w, <1>o, <1>8 DEF ReadMetadataAgain, goto, raise, Typed, Owns, Filling, Published,
     Reads, Readers
<1>9. CASE Mkdir(c)
  <2>1. CASE tree[to(c)].dir = Gone
    <3>1. tree'[to(c)] = EmptyDirectory /\ pc'[c] \in {"stage", "copyout"}
      BY <1>c, <1>9, <2>1 DEF Mkdir, goto, Typed
    <3>2. QED
      BY <1>c, <3>1 DEF TargetOK
  <2>2. CASE tree[to(c)].dir # Gone
    BY <1>o, <1>9, <2>2 DEF Mkdir, raise, goto, Owns, Filling, Published, Typed
  <2>3. QED
    BY <2>1, <2>2
<1>10. CASE CopyOut(c)
  <2>1. tree[to(c)] = EmptyDirectory
    BY <1>d, <1>10 DEF CopyOut, Owns, Filling, TargetOK
  <2>2. tree'[to(c)] = [tree[to(c)] EXCEPT !.db = private[c]] /\ pc'[c] = "writemanifest"
    BY <1>c, <1>10, <2>1 DEF CopyOut, goto, Typed, EmptyDirectory, NoDirectory
  <2>3. tree'[to(c)] = Dir(manifest[c].image, Gone, Gone, Gone)
    BY <1>e, <1>10, <2>1, <2>2 DEF CopyOut, Dir, EmptyDirectory, NoDirectory, Copied, Knowing,
       Filling
  <2>4. QED
    BY <1>c, <2>2, <2>3 DEF TargetOK
<1>11. CASE WriteManifest(c)
  <2>1. tree[to(c)] = Dir(manifest[c].image, Gone, Gone, Gone)
    BY <1>d, <1>11 DEF WriteManifest, Owns, Filling, TargetOK
  <2>2. tree'[to(c)] = [tree[to(c)] EXCEPT !.manifest = manifest[c]] /\ pc'[c] = "readback"
    BY <1>c, <1>11, <2>1 DEF WriteManifest, goto, Typed, Dir
  <2>3. tree'[to(c)] = Unsealed(c)
    BY <2>1, <2>2 DEF Dir, Unsealed
  <2>4. QED
    BY <1>c, <2>2, <2>3 DEF TargetOK, Unsealed
<1>12. CASE ReadBack(c)
  <2>1. tree'[to(c)] = Unsealed(c)
    BY <1>d, <1>12 DEF ReadBack, Owns, Filling, TargetOK, files
  <2>2. pc'[c] \in {"sync", "failed"}
    BY <1>12 DEF ReadBack, goto, raise, Typed
  <2>3. QED
    BY <1>c, <1>o, <2>1, <2>2 DEF TargetOK, Unsealed, Owns, Filling, Published
<1>13. CASE Sync(c)
  <2>1. tree'[to(c)] = Unsealed(c) /\ tree' = tree
    BY <1>d, <1>13 DEF Sync, Owns, Filling, TargetOK
  <2>2. pc'[c] = "link" /\ disk'[to(c)] = tree[to(c)]
    BY <1>c, <1>13 DEF Sync, goto, Typed
  <2>3. ~ Restores(c)
    BY <1>13, PointFacts, <1>i DEF Sync, Restores, Sealers
  <2>4. QED
    BY <1>c, <2>1, <2>2, <2>3 DEF TargetOK, Unsealed, Restores
<1>14. CASE Stage(c)
  <2>1. tree[to(c)] = EmptyDirectory /\ Restores(c) /\ private[c] = manifest[c].image
    BY <1>d, <1>e, <1>14, PointFacts, <1>i DEF Stage, Owns, Filling, TargetOK, Restores, Copied,
       Knowing
  <2>2. tree'[to(c)] = [tree[to(c)] EXCEPT !.stage = private[c]] /\ pc'[c] = "link"
    BY <1>c, <1>14 DEF Stage, goto, Typed
  <2>3. tree'[to(c)] = Dir(Gone, Gone, Gone, manifest[c].image)
    BY <2>1, <2>2 DEF Dir, EmptyDirectory, NoDirectory
  <2>4. QED
    BY <1>c, <2>1, <2>2, <2>3 DEF TargetOK, Restores
<1>15. CASE Link(c)
  <2>1. pc'[c] = "unstage" /\ pc[c] = "link"
    BY <1>15 DEF Link, goto, Typed
  <2>2. CASE Restores(c)
    <3>1. tree[to(c)] = Dir(Gone, Gone, Gone, manifest[c].image)
      BY <1>d, <2>1, <2>2 DEF Owns, Filling, TargetOK
    <3>2. tree'[to(c)] = [tree[to(c)] EXCEPT !.db = tree[to(c)].stage]
      BY <1>c, <1>15, <2>2 DEF Link, MakeLink, Typed
    <3>3. tree'[to(c)] = Dir(manifest[c].image, Gone, Gone, manifest[c].image)
      BY <3>1, <3>2 DEF Dir
    <3>4. QED
      BY <1>c, <2>1, <2>2, <3>3 DEF TargetOK, Restores
  <2>3. CASE ~ Restores(c)
    <3>1. tree[to(c)] = Unsealed(c)
      BY <1>d, <2>1, <2>3 DEF Owns, Filling, TargetOK
    <3>2. tree'[to(c)] = [tree[to(c)] EXCEPT !.marker = manifest[c]]
      BY <1>c, <1>15, <2>3 DEF Link, MakeLink, Typed
    <3>3. tree'[to(c)] = Whole(c)
      BY <2>3, <3>1, <3>2 DEF Dir, Unsealed, Whole
    <3>4. QED
      BY <1>c, <2>1, <2>3, <3>3 DEF TargetOK, Restores, Whole
  <2>4. QED
    BY <2>2, <2>3
<1>16. CASE LinkExists(c)
  BY <1>w, <1>16 DEF LinkExists, goto, raise, Typed
<1>17. CASE Unstage(c)
  <2>1. pc'[c] = "sync2" /\ pc[c] = "unstage"
    BY <1>17 DEF Unstage, goto, Typed
  <2>2. CASE Restores(c)
    <3>1. tree[to(c)] = Dir(manifest[c].image, Gone, Gone, manifest[c].image)
      BY <1>d, <2>1, <2>2 DEF Owns, Filling, TargetOK
    <3>2. tree'[to(c)] = [tree[to(c)] EXCEPT !.stage = Gone]
      BY <1>c, <1>17, <2>2 DEF Unstage, Typed
    <3>3. tree'[to(c)] = Whole(c)
      BY <2>2, <3>1, <3>2 DEF Dir, Whole
    <3>4. QED
      BY <1>c, <2>1, <3>3 DEF TargetOK, Whole, Restores
  <2>3. CASE ~ Restores(c)
    <3>1. tree'[to(c)] = Whole(c)
      BY <1>d, <1>17, <2>1, <2>3 DEF Unstage, Owns, Filling, TargetOK
    <3>2. QED
      BY <1>c, <2>1, <3>1 DEF TargetOK, Whole, Restores
  <2>4. QED
    BY <2>2, <2>3
<1>18. CASE SyncAgain(c)
  <2>1. tree'[to(c)] = Whole(c) /\ tree' = tree
    BY <1>d, <1>18 DEF SyncAgain, Owns, Filling, TargetOK
  <2>2. pc'[c] = "final" /\ disk'[to(c)] = tree[to(c)]
    BY <1>c, <1>18 DEF SyncAgain, goto, Typed
  <2>3. QED
    BY <1>c, <2>1, <2>2 DEF TargetOK, Whole, Restores
<1>19. CASE Final(c)
  <2>1. pc[c] = "final" /\ pc'[c] \in {"leave", "failed"} /\ tree' = tree /\ disk' = disk
    BY <1>19 DEF Final, goto, raise, Typed, files
  <2>2. Owns(c)
    BY <1>a, <2>1 DEF Makes
  <2>3. tree'[to(c)] = Whole(c) /\ disk'[to(c)] = tree[to(c)]
    BY <1>d, <2>1, <2>2 DEF TargetOK
  <2>4. QED
    BY <1>c, <1>o, <2>1, <2>3 DEF TargetOK, Whole, Restores, Owns, Filling, Published
<1>20. CASE Leave(c)
  <2>1. pc[c] = "leave" /\ pc'[c] \in {"report"} /\ tree' = tree /\ disk' = disk
    BY <1>20 DEF Leave, goto, raise, Typed, files
  <2>2. Owns(c)
    BY <1>a, <2>1 DEF Makes
  <2>3. tree'[to(c)] = Whole(c) /\ disk'[to(c)] = tree[to(c)]
    BY <1>d, <2>1, <2>2 DEF TargetOK
  <2>4. QED
    BY <1>c, <1>o, <2>1, <2>3 DEF TargetOK, Whole, Restores, Owns, Filling, Published
<1>21. CASE Report(c)
  <2>1. pc[c] = "report" /\ pc'[c] \in {"done"} /\ tree' = tree /\ disk' = disk
    BY <1>21 DEF Report, goto, raise, Typed, files, tell
  <2>2. Owns(c)
    BY <1>a, <2>1 DEF Makes
  <2>3. tree'[to(c)] = Whole(c) /\ disk'[to(c)] = tree[to(c)]
    BY <1>d, <2>1, <2>2 DEF TargetOK
  <2>4. QED
    BY <1>c, <1>o, <2>1, <2>3 DEF TargetOK, Whole, Restores, Owns, Filling, Published
<1>22. CASE Sweep(c)
  BY <1>w, <1>22 DEF Sweep, goto, raise, Typed
<1>23. CASE Abandon(c)
  BY <1>c, <1>w, <1>o, <1>23 DEF Abandon, tell, goto, raise, Typed, Owns, Filling, Published, Reads,
     Readers
<1>24. CASE LinkFails(c)
  BY <1>w, <1>24 DEF LinkFails, goto, raise, Typed
<1>25. CASE Fail(c)
  BY <1>w, <1>25 DEF Fail, goto, raise, Typed
<1>26. CASE Crash(c)
  BY <1>c, <1>w, <1>o, <1>26 DEF Crash, Store!Lost, goto, raise, Typed, Owns, Filling, Published,
     Reads, Readers
<1>27. QED
  BY <1>1, <1>2, <1>3, <1>4, <1>5, <1>6, <1>7, <1>8, <1>9, <1>10, <1>11, <1>12, <1>13, <1>14, <1>15,
     <1>16, <1>17, <1>18, <1>19, <1>20, <1>21, <1>22, <1>23, <1>24, <1>25, <1>26 DEF Move, Step

-----------------------------------------------------------------------------
(* Losing power, and changes by others.                                    *)

LEMMA LeftFacts ==
  ASSUME Typed, NEW x \in Places, DirectoryOK(x), NEW kept
  PROVE  /\ Left(x, kept) = NoDirectory \/
              /\ Left(x, kept).db \in {tree[x].db, disk[x].db}
              /\ Left(x, kept).marker \in {tree[x].marker, disk[x].marker}
         /\ tree[x].dir # Gone /\ disk[x].dir # Gone => Left(x, kept).dir # Gone
         /\ tree[x] = disk[x] => Left(x, kept) = tree[x]
         /\ Left(x, kept).dir = Gone => Left(x, kept) = NoDirectory
<1> DEFINE d == [dir      |-> IF <<x, "dir">> \in kept THEN tree[x].dir ELSE disk[x].dir,
                 db       |-> IF <<x, "db">> \in kept THEN tree[x].db ELSE disk[x].db,
                 manifest |-> IF <<x, "manifest">> \in kept THEN tree[x].manifest ELSE disk[x].manifest,
                 marker   |-> IF <<x, "marker">> \in kept THEN tree[x].marker ELSE disk[x].marker,
                 stage    |-> IF <<x, "stage">> \in kept THEN tree[x].stage ELSE disk[x].stage,
                 extra    |-> IF <<x, "extra">> \in kept THEN tree[x].extra ELSE disk[x].extra]
<1>1. Left(x, kept) = IF d.dir = Gone THEN NoDirectory ELSE d
  BY DEF Left
<1>2. /\ d.dir \in {tree[x].dir, disk[x].dir} /\ d.db \in {tree[x].db, disk[x].db}
      /\ d.marker \in {tree[x].marker, disk[x].marker}
  OBVIOUS
<1>3. NoDirectory.dir = Gone
  BY DEF NoDirectory
<1>4. tree[x] = disk[x] => Left(x, kept) = tree[x]
  <2>1. SUFFICES ASSUME tree[x] = disk[x] PROVE Left(x, kept) = tree[x]
    OBVIOUS
  <2>2. tree[x] \in Directory
    BY DEF Typed
  <2>3. d = tree[x]
    BY <2>1, <2>2 DEF Directory
  <2>4. QED
    BY <1>1, <2>3 DEF DirectoryOK
<1> HIDE DEF d
<1>5. QED
  BY <1>1, <1>2, <1>3, <1>4

LEMMA OwnersThroughPowerLoss ==
  ASSUME IInv, PowerLoss, NEW c \in Calls, Owns(c)'
  PROVE  /\ Published(c) /\ Owns(c) /\ job'[c] = job[c] /\ manifest'[c] = manifest[c]
         /\ pc[c] = "done" /\ to(c)' = to(c) /\ to(c) \in Places
<1>1. Published(c) /\ pc[c] = "done" /\ job'[c] = job[c] /\ manifest'[c] = manifest[c]
  BY DEF IInv, Typed, PowerLoss, Running, Owns, Published, Filling, Store!Lost
<1>2. JobOK(c) /\ KnowledgeOK(c) /\ Typed
  BY DEF IInv
<1>3. Owns(c)
  BY <1>1 DEF Owns
<1>4. QED
  BY <1>1, <1>2, <1>3, MakerFacts DEF to

LEMMA DirectoriesPowerLoss ==
  ASSUME IInv, PowerLoss
  PROVE  (\A x \in Places : DirectoryOK(x)') /\ OwnersOK' /\ \A c \in Calls : TargetOK(c)'
<1>0. /\ Typed /\ OwnersOK /\ \A c \in Calls : TargetOK(c)
      /\ \A x \in Places : DirectoryOK(x)
  BY DEF IInv
<1>1. PICK kept : tree' = [x \in Places |-> Left(x, kept)] /\ disk' = tree' /\ spoiled' = spoiled
  BY DEF PowerLoss
<1>2. ASSUME NEW x \in Places PROVE DirectoryOK(x)'
  <2>1. tree'[x] = Left(x, kept) /\ disk'[x] = Left(x, kept)
    BY <1>1
  <2>2. Left(x, kept).dir = Gone => Left(x, kept) = NoDirectory
    BY <1>0, LeftFacts
  <2>3. x \notin Generations \cup Targets => Left(x, kept) = NoDirectory
    <3>1. x \notin Generations \cup Targets => tree[x] = NoDirectory /\ disk[x] = NoDirectory
      BY <1>0 DEF DirectoryOK, NoDirectory
    <3>2. QED
      BY <1>0, <3>1, LeftFacts
  <2>4. QED
    BY <2>1, <2>2, <2>3 DEF DirectoryOK
<1>3. OwnersOK'
  <2>1. ASSUME NEW c \in Calls, Owns(c)'
        PROVE  tree'[to(c)'].dir # Gone /\ disk'[to(c)'].dir # Gone
    <3>1. Owns(c) /\ pc[c] = "done" /\ to(c)' = to(c) /\ to(c) \in Places
      BY <2>1, OwnersThroughPowerLoss
    <3>2. tree[to(c)].dir # Gone /\ disk[to(c)].dir # Gone
      BY <1>0, <3>1 DEF OwnersOK
    <3>3. Left(to(c), kept).dir # Gone
      BY <1>0, <3>1, <3>2, LeftFacts
    <3>4. QED
      BY <1>1, <3>1, <3>3
  <2>2. ASSUME NEW c \in Calls, NEW d \in Calls, Owns(c)', Owns(d)', to(c)' = to(d)' PROVE c = d
    BY <1>0, <2>2, OwnersThroughPowerLoss DEF OwnersOK
  <2>3. QED
    BY <2>1, <2>2 DEF OwnersOK
<1>4. ASSUME NEW c \in Calls PROVE TargetOK(c)'
  <2>1. SUFFICES ASSUME Owns(c)', to(c)' \notin spoiled' PROVE TargetOK(c)'
    BY DEF TargetOK
  <2>2. /\ Owns(c) /\ pc[c] = "done" /\ to(c)' = to(c) /\ to(c) \in Places
        /\ job'[c] = job[c] /\ manifest'[c] = manifest[c]
    BY <2>1, OwnersThroughPowerLoss
  <2>3. tree[to(c)] = Whole(c) /\ disk[to(c)] = tree[to(c)]
    BY <1>0, <1>1, <2>1, <2>2 DEF TargetOK
  <2>4. tree'[to(c)] = Whole(c) /\ disk'[to(c)] = Whole(c)
    BY <1>0, <1>1, <2>2, <2>3, LeftFacts
  <2>5. pc'[c] = "done"
    BY <2>2 DEF PowerLoss, Running, IInv, Typed
  <2>6. QED
    BY <2>2, <2>4, <2>5 DEF TargetOK, Whole, Restores
<1>5. QED
  BY <1>2, <1>3, <1>4

LEMMA SpoilFacts ==
  ASSUME Typed, NEW y \in Places, Spoil(y)
  PROVE  /\ spoiled' = spoiled \cup {y} /\ tree[y].dir # Gone
         /\ \A x \in Places : x # y => tree'[x] = tree[x]
         /\ tree'[y].dir = tree[y].dir
         /\ tree'[y].db \in {tree[y].db, Torn}
         /\ tree'[y].marker \in {tree[y].marker, Torn}
         /\ UNCHANGED <<disk, pc, job, manifest, private, attempted, code, reply, linked>>
<1>1. tree[y] \in Directory /\ tree \in [Places -> Directory]
  BY DEF Typed
<1>2. QED
  BY <1>1 DEF Spoil, Directory

LEMMA DirectoriesSpoil ==
  ASSUME IInv, NEW y \in Places, Spoil(y)
  PROVE  (\A x \in Places : DirectoryOK(x)') /\ OwnersOK' /\ \A c \in Calls : TargetOK(c)'
<1>0. /\ Typed /\ OwnersOK /\ \A c \in Calls : TargetOK(c) /\ JobOK(c) /\ KnowledgeOK(c)
      /\ \A x \in Places : DirectoryOK(x)
  BY DEF IInv
<1>1. /\ spoiled' = spoiled \cup {y} /\ tree[y].dir # Gone
      /\ \A x \in Places : x # y => tree'[x] = tree[x]
      /\ tree'[y].dir = tree[y].dir
      /\ UNCHANGED <<disk, pc, job, manifest, private, attempted, code, reply, linked>>
  BY <1>0, SpoilFacts
<1>2. ASSUME NEW x \in Places PROVE DirectoryOK(x)'
  BY <1>0, <1>1 DEF DirectoryOK, NoDirectory
<1>3. ASSUME NEW c \in Calls
      PROVE  /\ Owns(c)' = Owns(c) /\ to(c)' = to(c)
             /\ Owns(c) => to(c) \in Places
  BY <1>0, <1>1, MakerFacts DEF Owns, Published, Reads, to
<1>4. OwnersOK'
  BY <1>0, <1>1, <1>3 DEF OwnersOK
<1>5. ASSUME NEW c \in Calls PROVE TargetOK(c)'
  <2>1. SUFFICES ASSUME Owns(c)', to(c)' \notin spoiled' PROVE TargetOK(c)'
    BY DEF TargetOK
  <2>2. /\ Owns(c) /\ to(c)' = to(c) /\ to(c) \in Places /\ to(c) # y /\ to(c) \notin spoiled
    BY <1>1, <1>3, <2>1
  <2>3. tree'[to(c)] = tree[to(c)]
    BY <1>1, <2>2
  <2>4. TargetOK(c)
    BY <1>0
  <2>5. QED
    BY <1>1, <2>2, <2>3, <2>4 DEF TargetOK, Whole, Unsealed, Restores
<1>6. QED
  BY <1>2, <1>4, <1>5

LEMMA TargetMove ==
  ASSUME IInv, NEW c \in Calls, Move(c), NEW d \in Calls
  PROVE  TargetOK(d)'
<1>0. /\ Typed /\ OwnersOK /\ TargetOK(d) /\ JobOK(c) /\ KnowledgeOK(c) /\ JobOK(d) /\ KnowledgeOK(d)
  BY DEF IInv
<1>1. CASE d = c
  BY <1>1, TargetMoveOwn
<1>2. CASE d # c
  <2>1. SUFFICES ASSUME Owns(d)', to(d)' \notin spoiled' PROVE TargetOK(d)'
    BY DEF TargetOK
  <2>2. SameCall(d) /\ spoiled' = spoiled
    BY <1>0, <1>2, OthersStay
  <2>3. Owns(d) /\ to(d)' = to(d) /\ to(d) \in Places
    <3>1. Owns(d) /\ to(d)' = to(d)
      BY <2>1, <2>2 DEF SameCall, Owns, Published, Reads, to
    <3>2. QED
      BY <1>0, <3>1, MakerFacts
  <2>4. tree[to(d)].dir # Gone
    BY <1>0, <2>3 DEF OwnersOK
  <2>5. to(d) # to(c) \/ ~ (Owns(c) \/ Makes(c))
    BY <1>0, <1>2, <2>3, <2>4 DEF OwnersOK, Makes
  <2>6. tree'[to(d)] = tree[to(d)] /\ disk'[to(d)] = disk[to(d)]
    BY <1>0, <2>3, <2>5, OtherDirectories, EffectOfMove
  <2>7. QED
    BY <1>0, <2>1, <2>2, <2>3, <2>6 DEF SameCall, TargetOK, Whole, Unsealed, Restores
<1>3. QED
  BY <1>1, <1>2

LEMMA StagedBefore ==
  ASSUME Typed, NEW c \in Calls, Move(c), pc'[c] = "link"
  PROVE  Stage(c) \/ Sync(c)
<1> DEFINE goal == Stage(c) \/ Sync(c)
<1> USE DEF goto, raise, tell, Typed
<1>1. ASSUME NEW j \in Jobs, Ask(c, j) PROVE goal
  BY <1>1 DEF Ask
<1>2. CASE Open(c)
  BY <1>2 DEF Open
<1>3. CASE Backup(c)
  BY <1>3 DEF Backup
<1>4. CASE ReadMetadata(c)
  BY <1>4 DEF ReadMetadata
<1>5. CASE OpenTarget(c)
  BY <1>5 DEF OpenTarget
<1>6. CASE CopyInput(c)
  BY <1>6 DEF CopyInput
<1>7. CASE Recheck(c)
  BY <1>7 DEF Recheck
<1>8. CASE ReadMetadataAgain(c)
  BY <1>8 DEF ReadMetadataAgain
<1>9. CASE Mkdir(c)
  BY <1>9 DEF Mkdir
<1>10. CASE CopyOut(c)
  BY <1>10 DEF CopyOut
<1>11. CASE WriteManifest(c)
  BY <1>11 DEF WriteManifest
<1>12. CASE ReadBack(c)
  BY <1>12 DEF ReadBack
<1>13. CASE Sync(c)
  BY <1>13 DEF Sync
<1>14. CASE Stage(c)
  BY <1>14 DEF Stage
<1>15. CASE Link(c)
  BY <1>15 DEF Link
<1>16. CASE LinkExists(c)
  BY <1>16 DEF LinkExists
<1>17. CASE Unstage(c)
  BY <1>17 DEF Unstage
<1>18. CASE SyncAgain(c)
  BY <1>18 DEF SyncAgain
<1>19. CASE Final(c)
  BY <1>19 DEF Final
<1>20. CASE Leave(c)
  BY <1>20 DEF Leave
<1>21. CASE Report(c)
  BY <1>21 DEF Report
<1>22. CASE Sweep(c)
  BY <1>22 DEF Sweep
<1>23. CASE Abandon(c)
  BY <1>23 DEF Abandon
<1>24. CASE LinkFails(c)
  BY <1>24 DEF LinkFails
<1>25. CASE Fail(c)
  BY <1>25 DEF Fail
<1>26. CASE Crash(c)
  BY <1>26 DEF Crash
<1>27. QED
  BY <1>1, <1>2, <1>3, <1>4, <1>5, <1>6, <1>7, <1>8, <1>9, <1>10, <1>11, <1>12, <1>13, <1>14, <1>15,
     <1>16, <1>17, <1>18, <1>19, <1>20, <1>21, <1>22, <1>23, <1>24, <1>25, <1>26 DEF Move, Step

LEMMA StageMove ==
  ASSUME IInv, NEW c \in Calls, Move(c), NEW d \in Calls
  PROVE  StageOK(d)'
<1>0. /\ Typed /\ OwnersOK /\ StageOK(d) /\ JobOK(c) /\ KnowledgeOK(c) /\ JobOK(d) /\ KnowledgeOK(d)
  BY DEF IInv
<1> SUFFICES ASSUME Owns(d)', pc'[d] = "link", Restores(d)'
             PROVE  tree'[to(d)'].stage \in {manifest'[d].image, Torn}
  BY DEF StageOK
<1>1. CASE d = c
  <2>1. pc[c] # "new" /\ pc[c] \notin {"backup", "metadata", "target"}
    BY <1>0, <1>1, StagedBefore DEF Stage, Sync
  <2>2. job'[c] = job[c] /\ manifest'[c] = manifest[c] /\ to(c)' = to(c)
    BY <1>0, <1>1, <2>1, OwnStays DEF KeepsOwn, to
  <2>3. Stage(c)
    <3>1. ~ Sync(c)
      BY <1>0, <1>1, <2>2, PointFacts DEF Sync, Restores, Sealers
    <3>2. QED
      BY <1>0, <1>1, <3>1, StagedBefore
  <2>4. to(c) \in Places
    BY <1>0, <2>3, MakerFacts DEF Stage, Owns, Filling
  <2>5. tree'[to(c)].stage = private[c] /\ private[c] = manifest[c].image
    BY <1>0, <2>3, <2>4 DEF Stage, Typed, Directory, KnowledgeOK, Copied, Knowing, Filling
  <2>6. QED
    BY <1>1, <2>2, <2>5
<1>2. CASE d # c
  <2>1. SameCall(d) /\ Owns(d) /\ to(d)' = to(d)
    BY <1>0, <1>2, OthersStay DEF SameCall, Owns, Published, Reads, to
  <2>2. to(d) \in Places
    BY <1>0, <2>1, MakerFacts
  <2>3. to(d) # to(c) \/ ~ (Owns(c) \/ Makes(c))
    BY <1>0, <1>2, <2>1 DEF OwnersOK, Makes
  <2>4. tree'[to(d)] = tree[to(d)]
    BY <1>0, <2>2, <2>3, OtherDirectories, EffectOfMove
  <2>5. QED
    BY <1>0, <2>1, <2>4 DEF SameCall, StageOK, Restores
<1>3. QED
  BY <1>1, <1>2

-----------------------------------------------------------------------------
(* What is public.                                                         *)

LEMMA LinkedStays ==
  ASSUME IInv, [Next]_vars, NEW c \in linked
  PROVE  /\ c \in linked' /\ job'[c] = job[c] /\ manifest'[c] = manifest[c]
         /\ to(c)' = to(c) /\ (Restores(c)' <=> Restores(c))
         /\ Whole(c)' = Whole(c) /\ Unsealed(c)' = Unsealed(c)
<1>0. /\ Typed /\ c \in Calls /\ JobOK(c) /\ KnowledgeOK(c)
  BY DEF IInv, Typed
<1>1. c \in linked' /\ job'[c] = job[c] /\ manifest'[c] = manifest[c]
  <2>1. CASE UNCHANGED vars
    BY <2>1 DEF vars, files, calls
  <2>2. CASE PowerLoss
    BY <2>2 DEF PowerLoss
  <2>3. CASE \E x \in Places : Spoil(x)
    BY <2>3 DEF Spoil
  <2>4. ASSUME NEW d \in Calls, Move(d) PROVE c \in linked' /\ job'[c] = job[c] /\ manifest'[c] = manifest[c]
    <3>1. c \in linked'
      <4>1. Effect(d)
        BY <2>4, EffectOfMove DEF IInv
      <4>2. QED
        BY <4>1 DEF Effect, Still, Makes, Copies, Writes, Stages, Links, Syncs, MakeLink
    <3>2. pc[c] \notin {"new", "backup", "metadata", "target"}
      BY <1>0 DEF KnowledgeOK
    <3>3. job'[c] = job[c] /\ manifest'[c] = manifest[c]
      BY <1>0, <2>4, <3>2, OthersStay, OwnStays DEF SameCall, KeepsOwn
    <3>4. QED
      BY <3>1, <3>3
  <2>5. QED
    BY <2>1, <2>2, <2>3, <2>4 DEF Next, Move
<1>2. QED
  BY <1>1 DEF to, Restores, Whole, Unsealed

LEMMA WitnessesStay ==
  ASSUME IInv, [Next]_vars, NEW x \in Places
  PROVE  /\ \A m : Marked(x, m) => Marked(x, m)'
         /\ \A m : Laid(x, m) => Laid(x, m)'
         /\ \A t, k : Sealed(x, t, k) => Sealed(x, t, k)'
<1>1. ASSUME NEW m, Marked(x, m) PROVE Marked(x, m)'
  BY <1>1, LinkedStays DEF Marked
<1>2. ASSUME NEW m, Laid(x, m) PROVE Laid(x, m)'
  BY <1>2, LinkedStays DEF Laid
<1>3. ASSUME NEW t, NEW k, Sealed(x, t, k) PROVE Sealed(x, t, k)'
  BY <1>3, LinkedStays DEF Sealed
<1>4. QED
  BY <1>1, <1>2, <1>3

LEMMA GenerationMove ==
  ASSUME IInv, NEW c \in Calls, Move(c), NEW x \in Places
  PROVE  GenerationOK(x)'
<1>0. /\ Typed /\ JobOK(c) /\ KnowledgeOK(c) /\ OwnersOK /\ TargetOK(c) /\ DirectoryOK(x) /\ GenerationOK(x)
      /\ Gone # Torn /\ Gone \notin Manifests /\ Torn \notin Manifests
  BY ValuesAssumption DEF IInv
<1>1. Effect(c) /\ spoiled' = spoiled
  BY <1>0, EffectOfMove, OthersStay
<1>2. /\ \A m : Marked(x, m) => Marked(x, m)'
      /\ \A t, k : Sealed(x, t, k) => Sealed(x, t, k)'
  BY WitnessesStay DEF Next, Move
<1>3. CASE tree'[x] = tree[x] /\ disk'[x] = disk[x]
  BY <1>0, <1>1, <1>2, <1>3 DEF GenerationOK
<1>4. CASE x = to(c) /\ Makes(c)
  <2>1. tree'[x] = EmptyDirectory /\ disk'[x] = NoDirectory
    BY <1>0, <1>4 DEF Makes, Typed, DirectoryOK
  <2>2. tree'[x].marker = Gone /\ disk'[x].marker = Gone
    BY <2>1 DEF EmptyDirectory, NoDirectory
  <2>3. QED
    BY <1>0, <2>2 DEF GenerationOK
<1>5. CASE x = to(c) /\ Owns(c) /\ ~ Makes(c)
  <2>0. /\ x \in Places /\ tree[x] \in Directory /\ job[c] \in Jobs
        /\ Restores(c) => x \notin Generations
        /\ ~ Restores(c) => x \in Generations
    BY <1>0, <1>5, MakerFacts DEF Typed
  <2>1. CASE Copies(c) \/ Writes(c)
    <3>1. tree'[x].marker = tree[x].marker /\ disk'[x] = disk[x]
      BY <1>0, <1>5, <2>0, <2>1 DEF Copies, Writes, Typed, Directory
    <3>2. x \notin spoiled => tree[x].marker = Gone
      BY <1>0, <1>5, <2>1 DEF Copies, Writes, TargetOK, EmptyDirectory, NoDirectory, Dir
    <3>3. QED
      BY <1>0, <1>1, <1>2, <3>1, <3>2 DEF GenerationOK
  <2>2. CASE Restores(c) /\ (Stages(c) \/ Links(c))
    <3>1. tree'[x].marker = tree[x].marker /\ disk'[x] = disk[x]
      BY <1>0, <1>5, <2>0, <2>2 DEF Stages, Links, MakeLink, Typed, Directory
    <3>2. ~ Sealed(x, tree[x], disk[x])
      <4>1. ASSUME NEW d \in linked, ~ Restores(d), to(d) = x PROVE FALSE
        BY <1>0, <2>0, <2>2, <4>1, MakerFacts DEF IInv, Typed
      <4>2. QED
        BY <4>1 DEF Sealed
    <3>3. QED
      BY <1>0, <1>1, <1>2, <3>1, <3>2 DEF GenerationOK
  <2>3. CASE ~ Restores(c) /\ Links(c)
    <3>1. /\ tree'[x] = [tree[x] EXCEPT !.marker = manifest[c]] /\ disk'[x] = disk[x]
          /\ c \in linked' /\ pc[c] = "link"
      BY <1>0, <1>5, <2>0, <2>3 DEF Links, MakeLink, Typed
    <3>2. tree'[x].marker = manifest[c]
      BY <2>0, <3>1 DEF Directory
    <3>3. job'[c] = job[c] /\ manifest'[c] = manifest[c]
      BY <1>0, <3>1, OwnStays DEF KeepsOwn
    <3>4. Marked(x, tree[x].marker)'
      BY <1>5, <2>3, <3>1, <3>2, <3>3 DEF Marked, Restores, to
    <3>5. ASSUME x \notin spoiled PROVE Sealed(x, tree[x], disk[x])' /\ disk'[x].marker = Gone
      <4>1. tree[x] = Unsealed(c) /\ disk[x] = Unsealed(c)
        BY <1>0, <1>5, <2>3, <3>1, <3>5 DEF TargetOK
      <4>2. tree'[x] = Whole(c)
        BY <2>3, <3>1, <4>1 DEF Unsealed, Whole, Dir
      <4>3. tree'[x] = Whole(c)' /\ disk'[x] = Unsealed(c)'
        BY <3>1, <3>3, <4>1, <4>2 DEF Unsealed, Whole, Restores
      <4>4. QED
        BY <1>5, <2>3, <3>1, <3>3, <4>1, <4>3 DEF Sealed, Restores, to, Unsealed, Dir
    <3>6. x \in Generations
      BY <2>0, <2>3
    <3>7. disk[x].marker \in Manifests => Marked(x, disk[x].marker)'
      BY <1>0, <1>2, <3>1 DEF GenerationOK
    <3>8. QED
      BY <1>1, <3>1, <3>4, <3>5, <3>6, <3>7 DEF GenerationOK
  <2>4. CASE Syncs(c)
    <3>1. tree'[x] = tree[x] /\ disk'[x] = tree[x]
      BY <1>0, <1>5, <2>0, <2>4 DEF Syncs, Typed
    <3>2. \A t, k : Sealed(x, t, k) => Sealed(x, t, t)
      BY DEF Sealed
    <3>3. QED
      BY <1>0, <1>1, <1>2, <3>1, <3>2 DEF GenerationOK
  <2>5. QED
    BY <1>1, <1>3, <1>5, <2>1, <2>2, <2>3, <2>4 DEF Effect, Still, Stages
<1>6. QED
  BY <1>0, <1>1, <1>3, <1>4, <1>5, OtherDirectories

LEMMA RestoredMove ==
  ASSUME IInv, NEW c \in Calls, Move(c), NEW x \in Places
  PROVE  RestoredOK(x)'
<1> SUFFICES ASSUME x \in Targets PROVE RestoredOK(x)'
  BY DEF RestoredOK
<1>0. /\ Typed /\ JobOK(c) /\ KnowledgeOK(c) /\ OwnersOK /\ TargetOK(c) /\ StageOK(c)
      /\ DirectoryOK(x) /\ RestoredOK(x)
      /\ Gone # Torn /\ Gone \notin Images /\ Torn \notin Images
  BY ValuesAssumption DEF IInv
<1>1. Effect(c) /\ spoiled' = spoiled
  BY <1>0, EffectOfMove, OthersStay
<1>2. \A m : Laid(x, m) => Laid(x, m)'
  BY WitnessesStay DEF Next, Move
<1>3. CASE tree'[x].db = tree[x].db /\ disk'[x] = disk[x]
  BY <1>0, <1>1, <1>2, <1>3 DEF RestoredOK
<1>4. CASE x = to(c) /\ Makes(c)
  <2>1. tree'[x] = EmptyDirectory /\ disk'[x] = NoDirectory
    BY <1>0, <1>4 DEF Makes, Typed, DirectoryOK
  <2>2. tree'[x].db = Gone /\ disk'[x].db = Gone
    BY <2>1 DEF EmptyDirectory, NoDirectory
  <2>3. QED
    BY <1>0, <2>2 DEF RestoredOK
<1>5. CASE x = to(c) /\ Owns(c) /\ ~ Makes(c)
  <2>0. x \in Places /\ tree[x] \in Directory /\ job[c] \in Jobs /\ Restores(c) /\ x \in Targets
    BY <1>0, <1>5, MakerFacts DEF Typed
  <2>1. CASE Copies(c) \/ Writes(c)
    BY <1>0, <2>0, <2>1, PointFacts DEF Copies, Writes, Restores, Sealers
  <2>2. CASE Stages(c)
    BY <1>0, <1>3, <1>5, <2>0, <2>2 DEF Stages, Typed, Directory
  <2>3. CASE Links(c)
    <3>1. /\ tree'[x] = [tree[x] EXCEPT !.db = tree[x].stage] /\ disk'[x] = disk[x]
          /\ c \in linked' /\ pc[c] = "link" /\ tree[x].db = Gone
      BY <1>0, <1>5, <2>0, <2>3 DEF Links, MakeLink, Typed, Public
    <3>2. tree'[x].db = tree[x].stage
      BY <2>0, <3>1 DEF Directory
    <3>3. job'[c] = job[c] /\ manifest'[c] = manifest[c]
      BY <1>0, <3>1, OwnStays DEF KeepsOwn
    <3>4. tree[x].stage = manifest[c].image => Laid(x, tree[x].db)'
      BY <1>5, <2>0, <3>1, <3>2, <3>3 DEF Laid, Restores, to
    <3>5. tree[x].stage \in {manifest[c].image, Torn}
      BY <1>0, <1>5, <2>0, <3>1 DEF StageOK
    <3>6. x \notin spoiled => tree[x].stage = manifest[c].image
      BY <1>0, <1>5, <2>0, <3>1 DEF TargetOK, Dir
    <3>7. manifest[c].image \in Images
      BY <1>0, <3>1 DEF KnowledgeOK, Knowing, Filling, Manifests
    <3>8. disk[x].db \in {Gone} \/ x \in spoiled
      BY <1>0, <2>0, <3>1 DEF RestoredOK
    <3>9. disk[x].db \in Images => Laid(x, disk[x].db)'
      BY <1>0, <1>2, <2>0, <3>1 DEF RestoredOK
    <3>10. tree'[x].db \in Images => Laid(x, tree[x].db)'
      BY <1>0, <3>2, <3>4, <3>5
    <3>11. x \notin spoiled' => tree'[x].db # Torn /\ disk'[x].db \in {Gone, tree'[x].db}
      BY <1>0, <1>1, <3>1, <3>2, <3>6, <3>7, <3>8
    <3>12. QED
      BY <3>1, <3>9, <3>10, <3>11 DEF RestoredOK
  <2>4. CASE Syncs(c)
    <3>1. tree'[x] = tree[x] /\ disk'[x] = tree[x]
      BY <1>0, <1>5, <2>0, <2>4 DEF Syncs, Typed
    <3>2. QED
      BY <1>0, <1>1, <1>2, <2>0, <3>1 DEF RestoredOK
  <2>5. QED
    BY <1>1, <1>3, <1>5, <2>1, <2>2, <2>3, <2>4 DEF Effect, Still
<1>6. QED
  BY <1>0, <1>1, <1>3, <1>4, <1>5, OtherDirectories

LEMMA PublicPowerLoss ==
  ASSUME IInv, PowerLoss, NEW x \in Places
  PROVE  GenerationOK(x)' /\ RestoredOK(x)'
<1>0. /\ Typed /\ DirectoryOK(x) /\ GenerationOK(x) /\ RestoredOK(x)
      /\ Gone # Torn /\ Gone \notin Images /\ Gone \notin Manifests
  BY ValuesAssumption DEF IInv
<1>1. PICK kept : tree'[x] = Left(x, kept) /\ disk'[x] = Left(x, kept) /\ spoiled' = spoiled
  BY DEF PowerLoss
<1>2. /\ \A m : Marked(x, m) => Marked(x, m)'
      /\ \A m : Laid(x, m) => Laid(x, m)'
      /\ \A t, k : Sealed(x, t, k) => Sealed(x, t, k)'
  BY WitnessesStay DEF Next
<1> DEFINE left == Left(x, kept)
<1>3. \/ left.db = Gone /\ left.marker = Gone
      \/ left.db \in {tree[x].db, disk[x].db} /\ left.marker \in {tree[x].marker, disk[x].marker}
  BY <1>0, LeftFacts DEF NoDirectory
<1>4. tree'[x] = left /\ disk'[x] = left
  BY <1>1
<1>5. ASSUME x \notin spoiled, left.marker # Gone PROVE Sealed(x, left, left)
  <2>1. tree[x].marker # Gone
    BY <1>0, <1>3, <1>5 DEF GenerationOK
  <2>2. PICK c \in linked : /\ ~ Restores(c) /\ to(c) = x
                             /\ tree[x] = Whole(c) /\ disk[x] \in {Whole(c), Unsealed(c)}
    BY <1>0, <1>5, <2>1 DEF GenerationOK, Sealed
  <2>3. left = Whole(c)
    BY <1>5, <2>2, ValuesAssumption DEF Left, Whole, Unsealed, Dir, NoDirectory
  <2>4. QED
    BY <2>2, <2>3 DEF Sealed
<1> HIDE DEF left
<1>6. GenerationOK(x)'
  BY <1>0, <1>1, <1>2, <1>3, <1>4, <1>5 DEF GenerationOK
<1>7. RestoredOK(x)'
  BY <1>0, <1>1, <1>2, <1>3, <1>4 DEF RestoredOK
<1>8. QED
  BY <1>6, <1>7

LEMMA PublicSpoil ==
  ASSUME IInv, NEW y \in Places, Spoil(y), NEW x \in Places
  PROVE  GenerationOK(x)' /\ RestoredOK(x)'
<1>0. Typed /\ GenerationOK(x) /\ RestoredOK(x) /\ Torn \notin Images /\ Torn \notin Manifests
  BY ValuesAssumption DEF IInv
<1>1. /\ spoiled' = spoiled \cup {y} /\ disk' = disk
      /\ x # y => tree'[x] = tree[x]
      /\ tree'[y].db \in {tree[y].db, Torn}
      /\ tree'[y].marker \in {tree[y].marker, Torn}
  BY <1>0, SpoilFacts
<1>2. /\ \A m : Marked(x, m) => Marked(x, m)'
      /\ \A m : Laid(x, m) => Laid(x, m)'
      /\ \A t, k : Sealed(x, t, k) => Sealed(x, t, k)'
  BY WitnessesStay DEF Next
<1>3. GenerationOK(x)'
  BY <1>0, <1>1, <1>2 DEF GenerationOK
<1>4. RestoredOK(x)'
  BY <1>0, <1>1, <1>2 DEF RestoredOK
<1>5. QED
  BY <1>3, <1>4

-----------------------------------------------------------------------------
(* What is read.                                                           *)

Told(c) == pc[c] = "done" /\ reply[c].code = "OK" /\ job[c].op # "create"

LEMMA ReadBefore ==
  ASSUME Typed, NEW c \in Calls, JobOK(c), Move(c), Read(c)' \/ Told(c)'
  PROVE  Read(c) \/ ReadMetadata(c) \/ CopyInput(c)
<1>0. /\ pc[c] # "new" => job[c] \in Jobs /\ job[c].op \in Operations
      /\ pc[c] = "backup" => job[c].op = "create"
      /\ pc[c] = "target" => job[c].op = "check_restore"
      /\ pc[c] \in {"failed"} => code[c] # "OK"
  <2>1. pc[c] # "new" => /\ job[c] \in Jobs
                         /\ pc[c] = "backup" => job[c].op = "create"
                         /\ pc[c] = "target" => job[c].op = "check_restore"
    BY PointFacts
  <2>2. QED
    BY <2>1, JobFacts DEF JobOK
<1> DEFINE goal == Read(c) \/ ReadMetadata(c) \/ CopyInput(c)
<1> USE DEF goto, raise, Typed, files, Read, Told, Knowing, Copied, Filling, Operations
<1>1. ASSUME NEW j \in Jobs, Ask(c, j) PROVE goal
  BY <1>1 DEF Ask
<1>2. CASE Open(c)
  BY <1>0, <1>2 DEF Open
<1>3. CASE Backup(c)
  BY <1>0, <1>3 DEF Backup
<1>4. CASE ReadMetadata(c)
  BY <1>0, <1>4 DEF ReadMetadata
<1>5. CASE OpenTarget(c)
  BY <1>0, <1>5 DEF OpenTarget
<1>6. CASE CopyInput(c)
  BY <1>0, <1>6 DEF CopyInput
<1>7. CASE Recheck(c)
  BY <1>0, <1>7 DEF Recheck
<1>8. CASE ReadMetadataAgain(c)
  BY <1>0, <1>8 DEF ReadMetadataAgain
<1>9. CASE Mkdir(c)
  BY <1>0, <1>9 DEF Mkdir
<1>10. CASE CopyOut(c)
  BY <1>0, <1>10 DEF CopyOut
<1>11. CASE WriteManifest(c)
  BY <1>0, <1>11 DEF WriteManifest
<1>12. CASE ReadBack(c)
  BY <1>0, <1>12 DEF ReadBack
<1>13. CASE Sync(c)
  BY <1>0, <1>13 DEF Sync
<1>14. CASE Stage(c)
  BY <1>0, <1>14 DEF Stage
<1>15. CASE Link(c)
  BY <1>0, <1>15 DEF Link
<1>16. CASE LinkExists(c)
  BY <1>0, <1>16 DEF LinkExists
<1>17. CASE Unstage(c)
  BY <1>0, <1>17 DEF Unstage
<1>18. CASE SyncAgain(c)
  BY <1>0, <1>18 DEF SyncAgain
<1>19. CASE Final(c)
  BY <1>0, <1>19 DEF Final
<1>20. CASE Leave(c)
  BY <1>0, <1>20 DEF Leave
<1>21. CASE Report(c)
  BY <1>0, <1>21 DEF Report, tell
<1>22. CASE Sweep(c)
  BY <1>0, <1>22 DEF Sweep
<1>23. CASE Abandon(c)
  BY <1>0, <1>23 DEF Abandon, tell
<1>24. CASE LinkFails(c)
  BY <1>0, <1>24 DEF LinkFails
<1>25. CASE Fail(c)
  BY <1>0, <1>25 DEF Fail
<1>26. CASE Crash(c)
  BY <1>0, <1>26 DEF Crash, Store!Lost
<1>27. QED
  BY <1>1, <1>2, <1>3, <1>4, <1>5, <1>6, <1>7, <1>8, <1>9, <1>10, <1>11, <1>12, <1>13, <1>14, <1>15,
     <1>16, <1>17, <1>18, <1>19, <1>20, <1>21, <1>22, <1>23, <1>24, <1>25, <1>26 DEF Move, Step

LEMMA StampsFade ==
  ASSUME Typed, NEW c \in Calls, Move(c)
  PROVE  \A d \in Calls \ {c} : unchanged'[d] => unchanged[d]
<1> DEFINE goal == \A d \in Calls \ {c} : unchanged'[d] => unchanged[d]
<1> USE DEF goto, raise, tell, Typed, Touch
<1>1. ASSUME NEW j \in Jobs, Ask(c, j) PROVE goal
  BY <1>1 DEF Ask
<1>2. CASE Open(c)
  BY <1>2 DEF Open
<1>3. CASE Backup(c)
  BY <1>3 DEF Backup
<1>4. CASE ReadMetadata(c)
  BY <1>4 DEF ReadMetadata
<1>5. CASE OpenTarget(c)
  BY <1>5 DEF OpenTarget
<1>6. CASE CopyInput(c)
  BY <1>6 DEF CopyInput
<1>7. CASE Recheck(c)
  BY <1>7 DEF Recheck
<1>8. CASE ReadMetadataAgain(c)
  BY <1>8 DEF ReadMetadataAgain
<1>9. CASE Mkdir(c)
  BY <1>9 DEF Mkdir
<1>10. CASE CopyOut(c)
  BY <1>10 DEF CopyOut
<1>11. CASE WriteManifest(c)
  BY <1>11 DEF WriteManifest
<1>12. CASE ReadBack(c)
  BY <1>12 DEF ReadBack
<1>13. CASE Sync(c)
  BY <1>13 DEF Sync
<1>14. CASE Stage(c)
  BY <1>14 DEF Stage
<1>15. CASE Link(c)
  BY <1>15 DEF Link, MakeLink
<1>16. CASE LinkExists(c)
  BY <1>16 DEF LinkExists
<1>17. CASE Unstage(c)
  BY <1>17 DEF Unstage
<1>18. CASE SyncAgain(c)
  BY <1>18 DEF SyncAgain
<1>19. CASE Final(c)
  BY <1>19 DEF Final
<1>20. CASE Leave(c)
  BY <1>20 DEF Leave
<1>21. CASE Report(c)
  BY <1>21 DEF Report
<1>22. CASE Sweep(c)
  BY <1>22 DEF Sweep
<1>23. CASE Abandon(c)
  BY <1>23 DEF Abandon
<1>24. CASE LinkFails(c)
  BY <1>24 DEF LinkFails, MakeLink
<1>25. CASE Fail(c)
  BY <1>25 DEF Fail
<1>26. CASE Crash(c)
  BY <1>26 DEF Crash
<1>27. QED
  BY <1>1, <1>2, <1>3, <1>4, <1>5, <1>6, <1>7, <1>8, <1>9, <1>10, <1>11, <1>12, <1>13, <1>14, <1>15,
     <1>16, <1>17, <1>18, <1>19, <1>20, <1>21, <1>22, <1>23, <1>24, <1>25, <1>26 DEF Move, Step

LEMMA PublicStays ==
  ASSUME IInv, NEW c \in Calls, Move(c), NEW x \in Places
  PROVE  /\ Public(x) # Gone => Public(x)' = Public(x)
         /\ tree[x].db # Gone => tree'[x].db = tree[x].db
<1>0. Typed /\ JobOK(c) /\ KnowledgeOK(c) /\ DirectoryOK(x) /\ tree[x] \in Directory
  BY DEF IInv, Typed
<1>1. Effect(c)
  BY <1>0, EffectOfMove
<1>2. CASE tree'[x] = tree[x]
  BY <1>2 DEF Public
<1>3. CASE x = to(c) /\ Makes(c)
  BY <1>0, <1>3 DEF Makes, DirectoryOK, Public, NoDirectory
<1>4. CASE x = to(c) /\ Copies(c)
  <2>1. x \notin Targets
    <3>1. job[c] \in Jobs /\ job[c].op \in Sealers
      BY <1>0, <1>4, PointFacts DEF Copies
    <3>2. QED
      BY <1>4, <3>1, JobFacts DEF to
  <2>2. tree[x].db = Gone /\ tree'[x].marker = tree[x].marker
    BY <1>0, <1>4 DEF Copies, Typed, Directory
  <2>3. QED
    BY <2>1, <2>2 DEF Public
<1>5. CASE x = to(c) /\ (Writes(c) \/ Stages(c))
  <2>1. tree'[x].db = tree[x].db /\ tree'[x].marker = tree[x].marker
    BY <1>0, <1>5 DEF Writes, Stages, Typed, Directory
  <2>2. QED
    BY <2>1 DEF Public
<1>6. CASE x = to(c) /\ Links(c)
  <2>1. Public(x) = Gone
    BY <1>6 DEF Links, MakeLink
  <2>2. CASE Restores(c)
    BY <1>0, <1>6, <2>1, <2>2, MakerFacts DEF Links, Public, Owns, Filling
  <2>3. CASE ~ Restores(c)
    <3>1. tree'[x].db = tree[x].db
      BY <1>0, <1>6, <2>3 DEF Links, MakeLink, Typed, Directory
    <3>2. QED
      BY <2>1, <3>1
  <2>4. QED
    BY <2>2, <2>3
<1>7. QED
  BY <1>0, <1>1, <1>2, <1>3, <1>4, <1>5, <1>6 DEF Effect, Still, Makes, Copies, Writes, Stages,
     Links, Syncs,
                                             MakeLink, Typed

LEMMA WasLinkedStays ==
  ASSUME IInv, [Next]_vars, NEW c \in Calls, job'[c] = job[c], WasLinked(c)
  PROVE  WasLinked(c)'
<1>1. PICK d \in linked : /\ to(d) = from(c)
                          /\ IF Restores(d) THEN manifest[d].image = expected(c).image
                                            ELSE manifest[d] = expected(c)
  BY DEF WasLinked
<1>2. /\ d \in linked' /\ manifest'[d] = manifest[d] /\ to(d)' = to(d) /\ (Restores(d)' <=> Restores(d))
  BY LinkedStays
<1>3. from(c)' = from(c) /\ expected(c)' = expected(c)
  BY DEF from, expected
<1>4. QED
  BY <1>1, <1>2, <1>3 DEF WasLinked

\* What a caller expects is a content, and it reads an existing path.
LEMMA ReaderFacts ==
  ASSUME Typed, NEW c \in Calls, JobOK(c), Read(c) \/ pc[c] \in {"metadata", "copy", "recheck"}
  PROVE  /\ job[c] \in Jobs /\ from(c) \in Places /\ pc[c] # "new"
         /\ expected(c) \in Manifests /\ expected(c).image \in Images
         /\ Store!Expectation(c) \in Images \cup Manifests
         /\ Store!Expectation(c) = IF job[c].op = "check_restore" THEN expected(c).image ELSE expected(c)
         /\ job[c].op = "check_restore" => from(c) \notin Generations
<1>1. pc[c] # "new" /\ job[c] \in Jobs /\ job[c].op # "create"
  <2>1. pc[c] # "new"
    BY DEF Read, Knowing, Copied, Filling
  <2>2. QED
    BY <2>1, PointFacts DEF Read
<1>2. QED
  BY <1>1, JobFacts DEF from, expected, Store!Expectation

LEMMA InputMove ==
  ASSUME IInv, NEW d \in Calls, Move(d), NEW c \in Calls
  PROVE  InputOK(c)'
<1>0. /\ Typed /\ JobOK(c) /\ KnowledgeOK(c) /\ InputOK(c) /\ [Next]_vars
      /\ Gone \notin Images /\ Gone \notin Manifests
  BY ValuesAssumption DEF IInv, Next, Move
<1>a. spoiled' = spoiled
  BY <1>0, OthersStay
<1>1. ASSUME Read(c), job'[c] = job[c] PROVE InputOK(c)'
  <2>1. WasLinked(c)'
    BY <1>0, <1>1, WasLinkedStays DEF InputOK
  <2>2. ASSUME from(c) \notin spoiled PROVE Public(from(c))' = Store!Expectation(c)
    <3>1. Public(from(c)) = Store!Expectation(c) /\ from(c) \in Places /\ Public(from(c)) # Gone
      BY <1>0, <1>1, <2>2, ReaderFacts DEF InputOK
    <3>2. from(c)' = from(c)
      BY <1>1 DEF from
    <3>3. QED
      BY <3>1, <3>2, PublicStays DEF Public
  <2>3. from(c)' = from(c) /\ Store!Expectation(c)' = Store!Expectation(c)
    BY <1>1 DEF from, Store!Expectation
  <2>4. QED
    BY <1>a, <2>1, <2>2, <2>3 DEF InputOK
<1>2. CASE c # d
  <2>1. SameCall(c)
    BY <1>0, <1>2, OthersStay
  <2>2. CASE Read(c)
    BY <1>1, <2>1, <2>2 DEF SameCall
  <2>3. CASE ~ Read(c)
    <3>1. ~ Read(c)' /\ (Told(c)' => Told(c)) /\ job'[c] = job[c]
      BY <2>1, <2>3 DEF SameCall, Read, Told
    <3>2. Told(c) => WasLinked(c)
      BY <1>0 DEF InputOK, Told
    <3>3. Told(c) => WasLinked(c)'
      BY <1>0, <3>1, <3>2, WasLinkedStays
    <3>4. QED
      BY <3>1, <3>3 DEF InputOK, Told
  <2>4. QED
    BY <2>2, <2>3
<1>3. CASE c = d
  <2>1. CASE Read(c)
    <3>1. job'[c] = job[c]
      BY <1>0, <1>3, <2>1, OwnStays, ReaderFacts DEF KeepsOwn
    <3>2. QED
      BY <1>1, <2>1, <3>1
  <2>2. CASE ~ Read(c) /\ ~ (Read(c)' \/ Told(c)')
    BY <2>2 DEF InputOK, Told
  <2>3. CASE ~ Read(c) /\ (Read(c)' \/ Told(c)')
    <3>1. ReadMetadata(c) \/ CopyInput(c)
      BY <1>0, <1>3, <2>3, ReadBefore
    <3>2. /\ pc[c] \in {"metadata", "copy"} /\ pc[c] # "new" /\ pc'[c] \notin {"failed", "done"}
          /\ UNCHANGED <<tree, job, spoiled, linked>>
      BY <1>0, <2>3, <3>1 DEF ReadMetadata, CopyInput, raise, goto, files, Typed, Read, Told,
         Knowing, Copied,
                             Filling
    <3>3. /\ from(c) \in Places /\ expected(c) \in Manifests /\ expected(c).image \in Images
          /\ Store!Expectation(c) = IF job[c].op = "check_restore" THEN expected(c).image ELSE expected(c)
          /\ job[c].op = "check_restore" => from(c) \notin Generations
      BY <1>0, <3>2, ReaderFacts
    <3>4. WasLinked(c) /\ Public(from(c)) = Store!Expectation(c)
      <4>1. CASE ReadMetadata(c)
        <5>1. Unfit(expected(c), from(c)) = "none" /\ job[c].op # "check_restore"
          BY <1>0, <2>3, <3>2, <4>1, PointFacts DEF ReadMetadata, raise, goto, Typed
        <5>2. tree[from(c)].marker = expected(c)
          BY <5>1 DEF Unfit
        <5>3. Marked(from(c), expected(c))
          BY <3>3, <5>2 DEF IInv, GenerationOK
        <5>4. PICK e \in linked : ~ Restores(e) /\ to(e) = from(c) /\ expected(c) = manifest[e]
          BY <5>3 DEF Marked
        <5>5. from(c) \notin Targets
          BY <5>4, MakerFacts DEF IInv, Typed
        <5>6. QED
          BY <3>3, <5>1, <5>2, <5>4, <5>5 DEF WasLinked, Public
      <4>2. CASE CopyInput(c)
        <5>1. tree[from(c)].db = manifest[c].image /\ pc[c] = "copy"
          BY <1>0, <3>2, <4>2 DEF CopyInput, raise, goto, Typed
        <5>2. job[c].op = "check_restore"
          <6>1. job[c].op \in {"publish", "verify", "restore", "check_restore"}
            BY <1>0, <3>2, <5>1, PointFacts, JobFacts DEF Operations
          <6>2. QED
            BY <2>3, <5>1, <6>1 DEF Read, Knowing
        <5>3. manifest[c] = expected(c)
          BY <1>0, <5>1, <5>2 DEF KnowledgeOK, Knowing
        <5>4. from(c) \in Targets
          BY <1>0, <3>3, <5>1, <5>2, <5>3 DEF IInv, DirectoryOK, NoDirectory
        <5>5. Laid(from(c), expected(c).image)
          BY <3>3, <5>1, <5>3, <5>4 DEF IInv, RestoredOK
        <5>6. QED
          BY <3>3, <5>1, <5>2, <5>3, <5>4, <5>5 DEF Laid, WasLinked, Public
      <4>3. QED
        BY <3>1, <4>1, <4>2
    <3>5. WasLinked(c)'
      BY <1>0, <3>2, <3>4, WasLinkedStays
    <3>6. from(c)' = from(c) /\ Public(from(c))' = Public(from(c)) /\ Store!Expectation(c)' = Store!Expectation(c)
      BY <3>2 DEF from, Public, Store!Expectation
    <3>7. QED
      BY <3>2, <3>4, <3>5, <3>6 DEF InputOK
  <2>4. QED
    BY <2>1, <2>2, <2>3
<1>4. QED
  BY <1>2, <1>3

LEMMA CopiedBefore ==
  ASSUME Typed, NEW c \in Calls, Move(c), pc'[c] = "recheck"
  PROVE  CopyInput(c)
<1> DEFINE goal == CopyInput(c)
<1> USE DEF goto, raise, tell, Typed
<1>1. ASSUME NEW j \in Jobs, Ask(c, j) PROVE goal
  BY <1>1 DEF Ask
<1>2. CASE Open(c)
  BY <1>2 DEF Open
<1>3. CASE Backup(c)
  BY <1>3 DEF Backup
<1>4. CASE ReadMetadata(c)
  BY <1>4 DEF ReadMetadata
<1>5. CASE OpenTarget(c)
  BY <1>5 DEF OpenTarget
<1>6. CASE CopyInput(c)
  BY <1>6 DEF CopyInput
<1>7. CASE Recheck(c)
  BY <1>7 DEF Recheck
<1>8. CASE ReadMetadataAgain(c)
  BY <1>8 DEF ReadMetadataAgain
<1>9. CASE Mkdir(c)
  BY <1>9 DEF Mkdir
<1>10. CASE CopyOut(c)
  BY <1>10 DEF CopyOut
<1>11. CASE WriteManifest(c)
  BY <1>11 DEF WriteManifest
<1>12. CASE ReadBack(c)
  BY <1>12 DEF ReadBack
<1>13. CASE Sync(c)
  BY <1>13 DEF Sync
<1>14. CASE Stage(c)
  BY <1>14 DEF Stage
<1>15. CASE Link(c)
  BY <1>15 DEF Link
<1>16. CASE LinkExists(c)
  BY <1>16 DEF LinkExists
<1>17. CASE Unstage(c)
  BY <1>17 DEF Unstage
<1>18. CASE SyncAgain(c)
  BY <1>18 DEF SyncAgain
<1>19. CASE Final(c)
  BY <1>19 DEF Final
<1>20. CASE Leave(c)
  BY <1>20 DEF Leave
<1>21. CASE Report(c)
  BY <1>21 DEF Report
<1>22. CASE Sweep(c)
  BY <1>22 DEF Sweep
<1>23. CASE Abandon(c)
  BY <1>23 DEF Abandon
<1>24. CASE LinkFails(c)
  BY <1>24 DEF LinkFails
<1>25. CASE Fail(c)
  BY <1>25 DEF Fail
<1>26. CASE Crash(c)
  BY <1>26 DEF Crash
<1>27. QED
  BY <1>1, <1>2, <1>3, <1>4, <1>5, <1>6, <1>7, <1>8, <1>9, <1>10, <1>11, <1>12, <1>13, <1>14, <1>15,
     <1>16, <1>17, <1>18, <1>19, <1>20, <1>21, <1>22, <1>23, <1>24, <1>25, <1>26 DEF Move, Step

LEMMA StampMove ==
  ASSUME IInv, NEW d \in Calls, Move(d), NEW c \in Calls
  PROVE  StampOK(c)'
<1>0. /\ Typed /\ JobOK(c) /\ KnowledgeOK(c) /\ StampOK(c)
      /\ Gone \notin Images /\ Gone \notin Manifests
  BY ValuesAssumption DEF IInv
<1> SUFFICES ASSUME pc'[c] = "recheck", unchanged'[c] PROVE tree'[from(c)'].db = private'[c]
  BY DEF StampOK
<1>1. CASE c # d
  <2>1. SameCall(c) /\ unchanged[c] /\ from(c)' = from(c)
    BY <1>0, <1>1, OthersStay, StampsFade DEF SameCall, from
  <2>2. tree[from(c)].db = private[c] /\ from(c) \in Places
    BY <1>0, <2>1, ReaderFacts DEF StampOK, SameCall
  <2>3. private[c] # Gone
    BY <1>0, <2>1 DEF KnowledgeOK, Knowing, Copied, Manifests, SameCall
  <2>4. QED
    BY <2>1, <2>2, <2>3, PublicStays DEF SameCall
<1>2. CASE c = d
  <2>1. CopyInput(c)
    BY <1>0, <1>2, CopiedBefore
  <2>2. QED
    BY <1>0, <2>1 DEF CopyInput, raise, goto, files, Typed, from
<1>3. QED
  BY <1>1, <1>2

LEMMA InputsPowerLoss ==
  ASSUME IInv, PowerLoss, NEW c \in Calls
  PROVE  InputOK(c)' /\ StampOK(c)' /\ StageOK(c)'
<1>0. Typed /\ JobOK(c) /\ InputOK(c) /\ [Next]_vars
  BY DEF IInv, Next
<1>1. /\ pc'[c] \in {"new", "done"} /\ job'[c] = job[c]
      /\ pc'[c] = "done" /\ reply'[c] # Store!Lost => pc[c] = "done" /\ reply'[c] = reply[c]
  BY <1>0 DEF PowerLoss, Running, Typed
<1>2. ~ Read(c)' /\ StampOK(c)' /\ StageOK(c)'
  BY <1>1 DEF Read, StampOK, StageOK, Knowing, Copied, Filling
<1>3. Told(c)' => Told(c)
  BY <1>1 DEF Told, Store!Lost
<1>4. Told(c) => WasLinked(c)'
  BY <1>0, <1>1, WasLinkedStays DEF InputOK, Told
<1>5. QED
  BY <1>2, <1>3, <1>4 DEF InputOK, Told

LEMMA InputsSpoil ==
  ASSUME IInv, NEW y \in Places, Spoil(y), NEW c \in Calls
  PROVE  InputOK(c)' /\ StampOK(c)' /\ StageOK(c)'
<1>0. Typed /\ JobOK(c) /\ KnowledgeOK(c) /\ InputOK(c) /\ StampOK(c) /\ StageOK(c) /\ [Next]_vars
  BY DEF IInv, Next
<1>1. /\ spoiled' = spoiled \cup {y}
      /\ \A x \in Places : x # y => tree'[x] = tree[x]
      /\ UNCHANGED <<disk, pc, job, manifest, private, attempted, code, reply, linked>>
  BY <1>0, SpoilFacts
<1>2. /\ from(c)' = from(c) /\ to(c)' = to(c) /\ (Read(c)' <=> Read(c)) /\ (Told(c)' <=> Told(c))
      /\ (Owns(c)' <=> Owns(c)) /\ (Restores(c)' <=> Restores(c))
      /\ Store!Expectation(c)' = Store!Expectation(c)
  BY <1>1 DEF from, to, Read, Told, Owns, Published, Reads, Restores, Store!Expectation
<1>3. InputOK(c)'
  <2>1. Read(c) \/ Told(c) => WasLinked(c)'
    BY <1>0, <1>1, WasLinkedStays DEF InputOK, Told
  <2>2. Read(c) /\ from(c) \notin spoiled' => Public(from(c))' = Store!Expectation(c)
    BY <1>0, <1>1, <1>2, ReaderFacts DEF InputOK, Public
  <2>3. QED
    BY <1>2, <2>1, <2>2 DEF InputOK, Told
<1>4. StampOK(c)'
  <2>1. SUFFICES ASSUME pc[c] = "recheck", unchanged'[c] PROVE tree'[from(c)].db = private[c]
    BY <1>1, <1>2 DEF StampOK
  <2>2. unchanged[c] /\ from(c) # y
    BY <1>0, <2>1 DEF Spoil, Touch, Typed
  <2>3. QED
    BY <1>0, <1>1, <2>1, <2>2, ReaderFacts DEF StampOK
<1>5. StageOK(c)'
  <2>1. SUFFICES ASSUME Owns(c), pc[c] = "link", Restores(c) PROVE tree'[to(c)].stage \in {manifest[c].image, Torn}
    BY <1>1, <1>2 DEF StageOK
  <2>2. to(c) \in Places /\ tree[to(c)].stage \in {manifest[c].image, Torn} /\ tree[to(c)] \in Directory
    BY <1>0, <2>1, MakerFacts DEF StageOK, Typed
  <2>3. to(c) = y => tree'[y].stage \in {tree[y].stage, Torn}
    BY <1>0, <2>2 DEF Spoil, Typed, Directory
  <2>4. QED
    BY <1>1, <2>2, <2>3
<1>6. QED
  BY <1>3, <1>4, <1>5

-----------------------------------------------------------------------------
(* The inductive invariant.                                                *)

LEMMA InitIInv == Init => IInv
<1> SUFFICES ASSUME Init PROVE IInv
  OBVIOUS
<1> USE DEF Init
<1>1. Typed
  BY DirectoryTypes, ReplyTypes DEF Typed, Points
<1>2. \A c \in Calls : JobOK(c) /\ KnowledgeOK(c)
  BY DEF JobOK, KnowledgeOK, Knowing, Copied, Filling, Published
<1>3. \A x \in Places : DirectoryOK(x)
  BY DEF DirectoryOK
<1>4. \A c \in Calls : ~ Owns(c)
  BY DEF Owns, Filling, Published
<1>5. OwnersOK /\ \A c \in Calls : TargetOK(c) /\ StageOK(c)
  BY <1>4 DEF OwnersOK, TargetOK, StageOK
<1>6. \A x \in Places : GenerationOK(x) /\ RestoredOK(x)
  BY ValuesAssumption DEF GenerationOK, RestoredOK, NoDirectory
<1>7. \A c \in Calls : InputOK(c) /\ StampOK(c)
  BY DEF InputOK, StampOK, Read, Knowing, Copied, Filling
<1>8. QED
  BY <1>1, <1>2, <1>3, <1>5, <1>6, <1>7 DEF IInv

LEMMA NextIInv == IInv /\ [Next]_vars => IInv'
<1> SUFFICES ASSUME IInv, [Next]_vars PROVE IInv'
  OBVIOUS
<1>0. Typed' /\ \A c \in Calls : JobOK(c)' /\ KnowledgeOK(c)'
  BY TypedNext, CallsNext DEF IInv
<1>1. CASE UNCHANGED vars
  <2>1. UNCHANGED <<tree, disk, spoiled, pc, job, manifest, private, unchanged, attempted, code, reply, linked>>
    BY <1>1 DEF vars, files, calls
  <2>2. (\A x \in Places : DirectoryOK(x)') /\ OwnersOK'
    BY <2>1 DEF IInv, DirectoryOK, OwnersOK, Owns, Published, Reads, to
  <2>3. ASSUME NEW c \in Calls PROVE TargetOK(c)' /\ StageOK(c)'
    BY <2>1 DEF IInv, TargetOK, StageOK, Owns, Published, Reads, to, Restores, Whole, Unsealed
  <2>4. ASSUME NEW x \in Places PROVE GenerationOK(x)' /\ RestoredOK(x)'
    <3>1. /\ \A m : Marked(x, m) => Marked(x, m)'
          /\ \A m : Laid(x, m) => Laid(x, m)'
          /\ \A t, k : Sealed(x, t, k) => Sealed(x, t, k)'
      BY WitnessesStay
    <3>2. QED
      BY <2>1, <3>1 DEF IInv, GenerationOK, RestoredOK
  <2>5. ASSUME NEW c \in Calls PROVE InputOK(c)' /\ StampOK(c)'
    BY <2>1 DEF IInv, InputOK, StampOK, Read, WasLinked, Public, Restores, from, to, expected,
       Store!Expectation
  <2>6. QED
    BY <1>0, <2>2, <2>3, <2>4, <2>5 DEF IInv
<1>2. CASE PowerLoss
  BY <1>0, <1>2, DirectoriesPowerLoss, PublicPowerLoss, InputsPowerLoss DEF IInv
<1>3. ASSUME NEW x \in Places, Spoil(x) PROVE IInv'
  BY <1>0, <1>3, DirectoriesSpoil, PublicSpoil, InputsSpoil DEF IInv
<1>4. ASSUME NEW c \in Calls, Move(c) PROVE IInv'
  <2>1. (\A x \in Places : DirectoryOK(x)' /\ GenerationOK(x)' /\ RestoredOK(x)') /\ OwnersOK'
    BY <1>4, DirectoryMove, GenerationMove, RestoredMove, OwnersMove
  <2>2. \A d \in Calls : TargetOK(d)' /\ StageOK(d)' /\ InputOK(d)' /\ StampOK(d)'
    BY <1>4, TargetMove, StageMove, InputMove, StampMove
  <2>3. QED
    BY <1>0, <2>1, <2>2 DEF IInv
<1>5. QED
  BY <1>1, <1>2, <1>3, <1>4 DEF Next, Move

\* The inductive invariant holds throughout: what each call knows and finds
\* at each of its points, and what is public, whatever dies or is changed.
THEOREM Invariance == Spec => []IInv
<1>1. Init => IInv
  BY InitIInv
<1>2. IInv /\ [Next]_vars => IInv'
  BY NextIInv
<1>3. QED
  BY <1>1, <1>2, PTL DEF Spec

-----------------------------------------------------------------------------
(* What it implies.                                                        *)

LEMMA WholeIsComplete ==
  ASSUME IInv, NEW c \in linked, tree[to(c)] = Whole(c)
  PROVE  Complete(c, to(c)) /\ (~ Restores(c) => manifest[c].id = Id[to(c)])
<1>0. /\ JobOK(c) /\ KnowledgeOK(c) /\ Typed /\ c \in Calls
      /\ Gone \notin Images /\ Gone \notin Manifests /\ There # Gone
  BY ValuesAssumption DEF IInv, Typed
<1>1. /\ job[c] \in Jobs /\ manifest[c] \in Manifests /\ manifest[c].image \in Images
      /\ ~ Restores(c) => job[c].op \in Sealers
  BY <1>0, MakerFacts DEF KnowledgeOK, Manifests
<1>2. ~ Restores(c) => manifest[c].id = Id[to(c)]
  BY <1>0, <1>1, JobFacts DEF KnowledgeOK, Sealers, to, expected
<1>3. CASE Restores(c)
  <2>1. Whole(c) = [EmptyDirectory EXCEPT !.db = manifest[c].image]
    <3>1. \A db : Dir(db, Gone, Gone, Gone) = [EmptyDirectory EXCEPT !.db = db]
      <4>1. EmptyDirectory = Dir(Gone, Gone, Gone, Gone)
        BY DEF Dir, EmptyDirectory, NoDirectory
      <4>2. QED
        BY <4>1 DEF Dir
    <3>2. QED
      BY <1>3, <3>1 DEF Whole
  <2>2. QED
    BY <1>2, <1>3, <2>1 DEF Complete
<1>4. CASE ~ Restores(c)
  <2>1. Unfit(manifest[c], to(c)) = "none"
    BY <1>0, <1>1, <1>2, <1>4 DEF Unfit, Whole, Dir
  <2>2. QED
    BY <1>2, <1>4, <2>1 DEF Complete, Whole, Dir
<1>5. QED
  BY <1>3, <1>4

\* What is visible under a public name is whole, at every moment and after any
\* loss of power (the order of copies, fsyncs and the one link, _seal_archive
\* and restore).
THEOREM Wholeness == Spec => []PublicIsWhole
<1>1. IInv => PublicIsWhole
  <2> SUFFICES ASSUME IInv, NEW x \in Places \ spoiled, Public(x) # Gone
               PROVE  \E c \in linked :
                        /\ to(c) = x
                        /\ IF Restores(c) THEN tree[x].db = expected(c).image
                           ELSE /\ tree[x].marker = manifest[c]
                                /\ tree[x].manifest = tree[x].marker /\ tree[x].manifest.id = Id[x]
                                /\ tree[x].db = tree[x].manifest.image
    BY DEF PublicIsWhole
  <2>0. /\ Typed /\ RestoredOK(x) /\ GenerationOK(x) /\ tree[x] \in Directory
        /\ linked \subseteq Calls /\ \A c \in Calls : JobOK(c) /\ KnowledgeOK(c)
    BY DEF IInv, Typed
  <2>1. CASE x \in Targets
    <3>1. tree[x].db \in Images
      BY <2>0, <2>1 DEF Public, RestoredOK, Directory
    <3>2. PICK c \in linked : Restores(c) /\ to(c) = x /\ tree[x].db = manifest[c].image
      BY <2>0, <2>1, <3>1 DEF RestoredOK, Laid
    <3>3. manifest[c] = expected(c)
      BY <2>0, <3>2 DEF KnowledgeOK, Restores
    <3>4. QED
      BY <3>2, <3>3
  <2>2. CASE x \notin Targets
    <3>1. PICK c \in linked : ~ Restores(c) /\ to(c) = x /\ tree[x] = Whole(c)
      BY <2>0, <2>2 DEF Public, GenerationOK, Sealed
    <3>2. manifest[c].id = Id[x]
      BY <3>1, WholeIsComplete
    <3>3. QED
      BY <3>1, <3>2 DEF Whole, Dir
  <2>3. QED
    BY <2>1, <2>2
<1>2. QED
  BY <1>1, Invariance, PTL

\* publication_state is true, then and for ever after: published names a
\* complete and durable target; not_published and not_applicable are never
\* told of a link that took effect (_execute, _Operation.link).
THEOREM HonestPublication == Spec => []PublicationHonest
<1>1. IInv => PublicationHonest
  <2> SUFFICES ASSUME IInv, NEW c \in Calls, pc[c] = "done"
               PROVE  /\ reply[c].state = "published" =>
                            c \in linked /\ (to(c) \in spoiled \/ Complete(c, to(c)))
                      /\ reply[c].state \in {"not_published", "not_applicable"} => c \notin linked
    BY DEF PublicationHonest
  <2>1. KnowledgeOK(c) /\ TargetOK(c)
    BY DEF IInv
  <2>2. reply[c].state \in {"not_published", "not_applicable"} => c \notin linked
    BY <2>1 DEF KnowledgeOK
  <2>3. ASSUME reply[c].state = "published", to(c) \notin spoiled PROVE Complete(c, to(c))
    <3>1. c \in linked /\ tree[to(c)] = Whole(c)
      BY <2>1, <2>3 DEF KnowledgeOK, TargetOK, Owns, Published
    <3>2. QED
      BY <3>1, WholeIsComplete
  <2>4. QED
    BY <2>1, <2>2, <2>3 DEF KnowledgeOK, Published
<1>2. QED
  BY <1>1, Invariance, PTL

\* Success is told only of an input some call did publish: nothing a crash, a
\* competitor or a failure left half made is verified, copied or restored
\* (_manifest, copy_file, _validated_snapshot).
THEOREM SuccessfulRead == Spec => []SuccessMeansPublished
<1>1. IInv => SuccessMeansPublished
  BY DEF IInv, InputOK, WasLinked, SuccessMeansPublished
<1>2. QED
  BY <1>1, Invariance, PTL

LEMMA RecheckOnly ==
  ASSUME Typed, NEW c \in Calls, Move(c), pc[c] = "recheck", pc'[c] \in {"metadata2", "leave"}
  PROVE  Recheck(c)
<1> DEFINE goal == Recheck(c)
<1> USE DEF goto, raise, tell, Typed
<1>1. ASSUME NEW j \in Jobs, Ask(c, j) PROVE goal
  BY <1>1 DEF Ask
<1>2. CASE Open(c)
  BY <1>2 DEF Open
<1>3. CASE Backup(c)
  BY <1>3 DEF Backup
<1>4. CASE ReadMetadata(c)
  BY <1>4 DEF ReadMetadata
<1>5. CASE OpenTarget(c)
  BY <1>5 DEF OpenTarget
<1>6. CASE CopyInput(c)
  BY <1>6 DEF CopyInput
<1>7. CASE Recheck(c)
  BY <1>7 DEF Recheck
<1>8. CASE ReadMetadataAgain(c)
  BY <1>8 DEF ReadMetadataAgain
<1>9. CASE Mkdir(c)
  BY <1>9 DEF Mkdir
<1>10. CASE CopyOut(c)
  BY <1>10 DEF CopyOut
<1>11. CASE WriteManifest(c)
  BY <1>11 DEF WriteManifest
<1>12. CASE ReadBack(c)
  BY <1>12 DEF ReadBack
<1>13. CASE Sync(c)
  BY <1>13 DEF Sync
<1>14. CASE Stage(c)
  BY <1>14 DEF Stage
<1>15. CASE Link(c)
  BY <1>15 DEF Link
<1>16. CASE LinkExists(c)
  BY <1>16 DEF LinkExists
<1>17. CASE Unstage(c)
  BY <1>17 DEF Unstage
<1>18. CASE SyncAgain(c)
  BY <1>18 DEF SyncAgain
<1>19. CASE Final(c)
  BY <1>19 DEF Final
<1>20. CASE Leave(c)
  BY <1>20 DEF Leave
<1>21. CASE Report(c)
  BY <1>21 DEF Report
<1>22. CASE Sweep(c)
  BY <1>22 DEF Sweep
<1>23. CASE Abandon(c)
  BY <1>23 DEF Abandon
<1>24. CASE LinkFails(c)
  BY <1>24 DEF LinkFails
<1>25. CASE Fail(c)
  BY <1>25 DEF Fail
<1>26. CASE Crash(c)
  BY <1>26 DEF Crash
<1>27. QED
  BY <1>1, <1>2, <1>3, <1>4, <1>5, <1>6, <1>7, <1>8, <1>9, <1>10, <1>11, <1>12, <1>13, <1>14, <1>15,
     <1>16, <1>17, <1>18, <1>19, <1>20, <1>21, <1>22, <1>23, <1>24, <1>25, <1>26 DEF Move, Step

\* When a call accepts the copy it made, the input still has those bytes
\* (_validated_snapshot and check_restore, the comparison of stamps).
THEOREM AcceptedInput == Spec => AcceptedWhatIsThere
<1>1. IInv /\ [Next]_vars =>
        [\A c \in Calls : pc[c] = "recheck" /\ pc'[c] \in {"metadata2", "leave"}
           => tree[from(c)].db = private[c]]_vars
  <2> SUFFICES ASSUME IInv, Next, NEW c \in Calls, pc[c] = "recheck", pc'[c] \in {"metadata2", "leave"}
               PROVE  tree[from(c)].db = private[c]
    OBVIOUS
  <2>1. Typed /\ StampOK(c)
    BY DEF IInv
  <2>2. ~ PowerLoss /\ ~ \E x \in Places : Spoil(x)
    BY <2>1 DEF PowerLoss, Spoil, Running, Typed
  <2>3. PICK d \in Calls : Move(d)
    BY <2>2 DEF Next, Move
  <2>4. d = c
    BY <2>1, <2>3, OthersStay DEF SameCall
  <2>5. Recheck(c)
    BY <2>1, <2>3, <2>4, RecheckOnly
  <2>6. unchanged[c]
    BY <2>1, <2>5 DEF Recheck, raise, goto, Typed
  <2>7. QED
    BY <2>1, <2>6 DEF StampOK
<1>2. QED
  BY <1>1, Invariance, PTL DEF Spec, AcceptedWhatIsThere

-----------------------------------------------------------------------------
(* Every step is a step of SealedStore, or none.                           *)

Holds == [x \in Places |-> Held(x)]

\* A call is asked, answered, or neither.
LEMMA KindOfMove ==
  ASSUME Typed, NEW c \in Calls, Move(c)
  PROVE  \/ \E j \in Jobs : Ask(c, j)
         \/ Report(c) \/ Abandon(c) \/ Crash(c)
         \/ pc[c] \notin {"new", "done"} /\ job' = job /\ reply' = reply
<1> DEFINE goal == \/ \E j \in Jobs : Ask(c, j)
                   \/ Report(c) \/ Abandon(c) \/ Crash(c)
                   \/ pc[c] \notin {"new", "done"} /\ job' = job /\ reply' = reply
<1> USE DEF goto, raise, Typed, Running
<1>1. ASSUME NEW j \in Jobs, Ask(c, j) PROVE goal
  BY <1>1 DEF Ask
<1>2. CASE Open(c)
  BY <1>2 DEF Open
<1>3. CASE Backup(c)
  BY <1>3 DEF Backup
<1>4. CASE ReadMetadata(c)
  BY <1>4 DEF ReadMetadata
<1>5. CASE OpenTarget(c)
  BY <1>5 DEF OpenTarget
<1>6. CASE CopyInput(c)
  BY <1>6 DEF CopyInput
<1>7. CASE Recheck(c)
  BY <1>7 DEF Recheck
<1>8. CASE ReadMetadataAgain(c)
  BY <1>8 DEF ReadMetadataAgain
<1>9. CASE Mkdir(c)
  BY <1>9 DEF Mkdir
<1>10. CASE CopyOut(c)
  BY <1>10 DEF CopyOut
<1>11. CASE WriteManifest(c)
  BY <1>11 DEF WriteManifest
<1>12. CASE ReadBack(c)
  BY <1>12 DEF ReadBack
<1>13. CASE Sync(c)
  BY <1>13 DEF Sync
<1>14. CASE Stage(c)
  BY <1>14 DEF Stage
<1>15. CASE Link(c)
  BY <1>15 DEF Link, MakeLink
<1>16. CASE LinkExists(c)
  BY <1>16 DEF LinkExists
<1>17. CASE Unstage(c)
  BY <1>17 DEF Unstage
<1>18. CASE SyncAgain(c)
  BY <1>18 DEF SyncAgain
<1>19. CASE Final(c)
  BY <1>19 DEF Final
<1>20. CASE Leave(c)
  BY <1>20 DEF Leave
<1>21. CASE Report(c)
  BY <1>21 DEF Report
<1>22. CASE Sweep(c)
  BY <1>22 DEF Sweep
<1>23. CASE Abandon(c)
  BY <1>23 DEF Abandon
<1>24. CASE LinkFails(c)
  BY <1>24 DEF LinkFails, MakeLink
<1>25. CASE Fail(c)
  BY <1>25 DEF Fail
<1>26. CASE Crash(c)
  BY <1>26 DEF Crash
<1>27. QED
  BY <1>1, <1>2, <1>3, <1>4, <1>5, <1>6, <1>7, <1>8, <1>9, <1>10, <1>11, <1>12, <1>13, <1>14, <1>15,
     <1>16, <1>17, <1>18, <1>19, <1>20, <1>21, <1>22, <1>23, <1>24, <1>25, <1>26 DEF Move, Step

LEMMA RunningCalls ==
  ASSUME Typed, NEW c \in Calls, JobOK(c)
  PROVE  /\ Store!Running(c) <=> Running(c)
         /\ Store!Asked(c) <=> pc[c] # "new"
<1>1. job[c] \in Jobs => job[c] # NoJob
  BY JobsAssumption
<1>2. QED
  BY <1>1 DEF Store!Running, Store!Asked, Running, JobOK

LEMMA HeldStays ==
  ASSUME IInv, NEW c \in Calls, Move(c), ~ Links(c)
  PROVE  Holds' = Holds /\ linked' = linked
<1>0. Typed /\ JobOK(c) /\ KnowledgeOK(c)
  BY DEF IInv
<1>1. Effect(c) /\ spoiled' = spoiled
  BY <1>0, EffectOfMove, OthersStay
<1>2. linked' = linked
  BY <1>1 DEF Effect, Still, Makes, Copies, Writes, Stages, Syncs
<1>3. ASSUME NEW x \in Places PROVE Public(x)' = Public(x)
  <2>1. CASE Public(x) # Gone
    BY <2>1, PublicStays
  <2>2. CASE Public(x) = Gone
    <3>1. tree[x] \in Directory /\ DirectoryOK(x)
      BY DEF IInv, Typed
    <3>2. CASE tree'[x] = tree[x]
      BY <3>2 DEF Public
    <3>3. CASE x = to(c) /\ Makes(c)
      <4>1. tree'[x] = EmptyDirectory
        BY <1>0, <3>3 DEF Makes, Typed
      <4>2. Public(x)' = Gone
        BY <4>1 DEF Public, EmptyDirectory, NoDirectory
      <4>3. QED
        BY <2>2, <4>2
    <3>4. CASE x = to(c) /\ Copies(c)
      <4>1. x \notin Targets
        BY <1>0, <3>4, PointFacts, JobFacts DEF Copies, to
      <4>2. tree'[x].marker = tree[x].marker
        BY <1>0, <3>1, <3>4 DEF Copies, Typed, Directory
      <4>3. QED
        BY <4>1, <4>2 DEF Public
    <3>5. CASE x = to(c) /\ (Writes(c) \/ Stages(c))
      <4>1. tree'[x].db = tree[x].db /\ tree'[x].marker = tree[x].marker
        BY <1>0, <3>1, <3>5 DEF Writes, Stages, Typed, Directory
      <4>2. QED
        BY <4>1 DEF Public
    <3>6. QED
      BY <1>0, <1>1, <3>2, <3>3, <3>4, <3>5 DEF Effect, Still, Makes, Copies, Writes, Stages, Syncs,
         Typed
  <2>3. QED
    BY <2>1, <2>2
<1>4. ASSUME NEW x \in Places PROVE Held(x)' = Held(x)
  BY <1>1, <1>3 DEF Held
<1>5. QED
  BY <1>2, <1>4 DEF Holds

\* The link that takes effect is the Seal.
LEMMA LinkSeals ==
  ASSUME IInv, NEW c \in Calls, Move(c), Links(c)
  PROVE  Store!Seal(c)
<1>0. /\ Typed /\ JobOK(c) /\ KnowledgeOK(c) /\ TargetOK(c) /\ tree \in [Places -> Directory]
      /\ Gone \notin Images /\ Gone \notin Manifests
  BY ValuesAssumption DEF IInv, Typed
<1>1. pc[c] = "link" /\ Owns(c) /\ Public(to(c)) = Gone /\ linked' = linked \cup {c}
  BY DEF Links, MakeLink, Owns, Filling
<1>2. /\ job[c] \in Jobs /\ job[c].op \in Makers /\ to(c) \in Places
      /\ Restores(c) => to(c) \in Targets
      /\ ~ Restores(c) => to(c) \notin Targets /\ job[c].op \in Sealers
  BY <1>0, <1>1, MakerFacts
<1>3. job' = job /\ reply' = reply /\ spoiled' = spoiled /\ c \notin linked
  BY <1>0, <1>1, KindOfMove, OthersStay DEF Ask, Report, Abandon, Crash, MakeLink, Links,
     KnowledgeOK
<1>4. Store!Running(c)
  BY <1>0, <1>1, RunningCalls DEF Running
<1>5. manifest[c] \in Manifests /\ (job[c].op # "create" => manifest[c] = expected(c))
      /\ manifest[c].image \in Images
  BY <1>0, <1>1 DEF KnowledgeOK, Knowing, Filling, Manifests
<1>6. to(c) \notin spoiled => Public(to(c))' = IF Restores(c) THEN manifest[c].image ELSE manifest[c]
  <2>1. CASE Restores(c)
    <3>1. tree'[to(c)].db = tree[to(c)].stage
      BY <1>0, <1>2, <2>1 DEF Links, MakeLink, Directory
    <3>2. to(c) \notin spoiled => tree[to(c)].stage = manifest[c].image
      BY <1>0, <1>1, <2>1 DEF TargetOK, Dir
    <3>3. to(c)' = to(c)
      BY <1>3 DEF to
    <3>4. QED
      BY <1>2, <2>1, <3>1, <3>2, <3>3 DEF Public
  <2>2. CASE ~ Restores(c)
    <3>1. tree'[to(c)].marker = manifest[c]
      BY <1>0, <1>2, <2>2 DEF Links, MakeLink, Directory
    <3>2. to(c)' = to(c)
      BY <1>3 DEF to
    <3>3. QED
      BY <1>2, <2>2, <3>1, <3>2 DEF Public
  <2>3. QED
    BY <2>1, <2>2
<1>7. \A x \in Places : x # to(c) => Held(x)' = Held(x)
  <2>1. \A x \in Places : x # to(c) => tree'[x] = tree[x]
    BY <1>0 DEF Links, MakeLink
  <2>2. QED
    BY <1>3, <2>1 DEF Held, Public
<1>8. Holds' = [Holds EXCEPT ![to(c)] = Holds'[to(c)]]
  BY <1>2, <1>7 DEF Holds
<1>9. \/ Holds[to(c)] = Spoiled /\ Holds'[to(c)] = Spoiled
      \/ /\ Holds[to(c)] = Gone
         /\ Holds'[to(c)] \in (IF to(c) \in Targets THEN Images ELSE Manifests)
         /\ job[c].op = "publish" => Holds'[to(c)] = job[c].expected
         /\ job[c].op = "restore" => Holds'[to(c)] = job[c].expected.image
  <2>1. CASE to(c) \in spoiled
    <3>1. Holds[to(c)] = Spoiled /\ Holds'[to(c)] = Spoiled
      BY <1>2, <1>3, <2>1 DEF Holds, Held
    <3>2. QED
      BY <3>1
  <2>2. CASE to(c) \notin spoiled
    <3>1. Holds[to(c)] = Gone
      BY <1>1, <1>2, <2>2 DEF Holds, Held
    <3>2. Holds'[to(c)] = IF Restores(c) THEN manifest[c].image ELSE manifest[c]
      <4>1. to(c)' = to(c)
        BY <1>3 DEF to
      <4>2. Holds'[to(c)] = Held(to(c))'
        BY <1>2, <4>1 DEF Holds, Held, Public
      <4>3. Held(to(c))' = Public(to(c))'
        BY <1>3, <2>2, <4>1 DEF Held
      <4>4. QED
        BY <1>6, <2>2, <4>2, <4>3
    <3>3. QED
      BY <1>2, <1>5, <3>1, <3>2 DEF Restores, expected, Makers
  <2>3. QED
    BY <2>1, <2>2
<1>10. QED
  BY <1>1, <1>2, <1>3, <1>4, <1>8, <1>9 DEF Store!Seal, Holds, to, Makers

\* The end of a call, and its death, answer the truth.
LEMMA EndAnswers ==
  ASSUME IInv, NEW c \in Calls, Report(c) \/ Abandon(c) \/ Crash(c)
  PROVE  Store!Answer(c)
<1>0. /\ Typed /\ JobOK(c) /\ KnowledgeOK(c) /\ TargetOK(c) /\ InputOK(c)
      /\ Gone \notin Images /\ Gone \notin Manifests /\ Gone # Spoiled
  BY ValuesAssumption DEF IInv
<1>1. Move(c)
  BY DEF Move, Step
<1>2. linked' = linked /\ ~ Links(c)
  <2>1. linked' = linked
    BY DEF Report, Abandon, Crash
  <2>2. QED
    BY <1>0, <2>1 DEF Links, MakeLink, KnowledgeOK
<1>3. Holds' = Holds /\ job' = job
  BY <1>1, <1>2, HeldStays DEF Report, Abandon, Crash, files
<1>4. Store!Running(c) /\ pc[c] # "new"
  BY <1>0, RunningCalls DEF Report, Abandon, Crash, Running
<1>5. job[c] \in Jobs /\ job[c].op \in Operations
  BY <1>0, <1>4, PointFacts, JobFacts
<1>6. CASE Report(c)
  <2>1. PICK e \in {"OK", "IO_ERROR"} :
          reply' = [reply EXCEPT ![c] = [code |-> e, state |-> IF Reads(c) THEN "not_applicable" ELSE "published"]]
    BY <1>6 DEF Report, tell
  <2> DEFINE a == [code |-> e, state |-> IF Reads(c) THEN "not_applicable" ELSE "published"]
  <2>2. pc[c] = "report"
    BY <1>6 DEF Report
  <2>3. a \in Store!Replies /\ a # Store!Pending
    BY ReplyTypes DEF Store!Codes, Store!States, Store!Pending
  <2>4. CASE Reads(c)
    <3>1. c \notin linked
      BY <1>0, <2>4 DEF KnowledgeOK, Reads, Readers, Makers
    <3>2. Read(c) /\ from(c) \in Places
      BY <1>0, <1>5, <2>2, <2>4, ReaderFacts DEF Read, Reads, Readers, Knowing, Copied
    <3>3. Holds[from(c)] \in {Store!Expectation(c), Spoiled}
      BY <1>0, <3>2 DEF InputOK, Holds, Held
    <3>4. Store!Truthful(c, a)
      BY <2>4, <3>1, <3>3 DEF Store!Truthful, Holds, from
    <3>5. QED
      BY <1>0, <1>2, <1>3, <1>4, <2>1, <2>3, <3>4 DEF Store!Answer, Holds, Typed
  <2>5. CASE ~ Reads(c)
    <3>1. c \in linked /\ Owns(c)
      BY <1>0, <2>2, <2>5 DEF KnowledgeOK, Owns
    <3>2. /\ to(c) \in Places
          /\ Restores(c) => to(c) \in Targets
          /\ ~ Restores(c) => to(c) \notin Targets
      BY <1>0, <3>1, MakerFacts
    <3>3. Holds[to(c)] # Gone
      <4>1. manifest[c] \in Manifests /\ manifest[c].image \in Images
        BY <1>0, <3>1 DEF KnowledgeOK, Manifests
      <4>2. to(c) \notin spoiled => tree[to(c)] = Whole(c)
        BY <1>0, <2>2, <3>1 DEF TargetOK
      <4>3. to(c) \notin spoiled => Public(to(c)) # Gone
        BY <1>0, <3>2, <4>1, <4>2 DEF Public, Whole, Dir
      <4>4. QED
        BY <1>0, <3>2, <4>3 DEF Holds, Held
    <3>4. job[c].op \in {"publish", "verify", "restore", "check_restore"} =>
            Holds[from(c)] \in {Store!Expectation(c), Spoiled}
      <4>1. SUFFICES ASSUME job[c].op # "create" PROVE Holds[from(c)] \in {Store!Expectation(c), Spoiled}
        OBVIOUS
      <4>2. Read(c) /\ from(c) \in Places
        BY <1>0, <1>5, <2>2, <2>5, <4>1, ReaderFacts DEF Read, Reads, Readers, Knowing, Copied,
           Operations
      <4>3. QED
        BY <1>0, <4>2 DEF InputOK, Holds, Held
    <3>5. Store!Truthful(c, a)
      BY <2>5, <3>1, <3>3, <3>4 DEF Store!Truthful, Holds, from, to
    <3>6. QED
      BY <1>0, <1>2, <1>3, <1>4, <2>1, <2>3, <3>5 DEF Store!Answer, Holds, Typed
  <2>6. QED
    BY <2>4, <2>5
<1>7. CASE Abandon(c)
  <2>1. PICK e \in Store!Codes, st \in Store!States :
          /\ reply' = [reply EXCEPT ![c] = [code |-> e, state |-> st]]
          /\ e # "OK" /\ st # "published"
          /\ st # "unknown" => ~ attempted[c]
          /\ e = "PUBLICATION_UNKNOWN" <=> st = "unknown"
    <3>1. code[c] \in Store!Codes \ {"OK", "PUBLICATION_UNKNOWN"}
      BY <1>0, <1>7 DEF Abandon, JobOK, Store!Codes
    <3>2. CASE attempted[c]
      BY <1>7, <3>2 DEF Abandon, tell, Store!Codes, Store!States
    <3>3. CASE ~ attempted[c]
      BY <1>7, <3>1, <3>3 DEF Abandon, tell, Store!Codes, Store!States
    <3>4. QED
      BY <3>2, <3>3
  <2> DEFINE a == [code |-> e, state |-> st]
  <2>2. a \in Store!Replies /\ a # Store!Pending
    BY ReplyTypes DEF Store!Codes, Store!Pending
  <2>3. c \in linked => attempted[c]
    BY <1>0 DEF KnowledgeOK
  <2>4. Store!Truthful(c, a)
    BY <2>1, <2>3 DEF Store!Truthful
  <2>5. QED
    BY <1>0, <1>2, <1>3, <1>4, <2>1, <2>2, <2>4 DEF Store!Answer, Holds, Typed
<1>8. CASE Crash(c)
  <2>1. reply' = [reply EXCEPT ![c] = Store!Lost]
    BY <1>8 DEF Crash
  <2>2. Store!Lost \in Store!Replies /\ Store!Lost # Store!Pending
    BY ReplyTypes DEF Store!Lost, Store!Pending
  <2>3. Store!Truthful(c, Store!Lost)
    BY DEF Store!Truthful, Store!Lost
  <2>4. QED
    BY <1>0, <1>2, <1>3, <1>4, <2>1, <2>2, <2>3 DEF Store!Answer, Holds, Typed
<1>9. QED
  BY <1>6, <1>7, <1>8

LEMMA PowerLossLoses ==
  ASSUME IInv, PowerLoss
  PROVE  Store!LosePower
<1>0. Typed /\ \A c \in Calls : JobOK(c) /\ KnowledgeOK(c) /\ TargetOK(c)
  BY DEF IInv
<1>1. PICK kept : tree' = [x \in Places |-> Left(x, kept)]
  BY DEF PowerLoss
<1>2. job' = job /\ linked' = linked /\ spoiled' = spoiled
  BY DEF PowerLoss
<1>3. reply' = [c \in Calls |-> IF Store!Running(c) THEN Store!Lost ELSE reply[c]]
  BY <1>0, RunningCalls DEF PowerLoss
<1>4. ASSUME NEW x \in Places, Held(x)' # Held(x)
      PROVE  /\ x \notin spoiled /\ Held(x) # Spoiled /\ Held(x)' = Gone
             /\ \A c \in Calls : ~ (/\ Store!Asked(c) /\ c \in linked /\ job[c].to = x
                                    /\ reply[c].state = "published")
  <2>0. x \notin spoiled /\ Held(x) = Public(x) /\ Held(x)' = Public(x)' /\ Public(x)' # Public(x)
    BY <1>2, <1>4 DEF Held
  <2>1. DirectoryOK(x) /\ GenerationOK(x) /\ RestoredOK(x) /\ tree[x] \in Directory
    BY <1>0 DEF IInv, Typed
  <2>2. /\ Left(x, kept) = NoDirectory \/
              /\ Left(x, kept).db \in {tree[x].db, disk[x].db}
              /\ Left(x, kept).marker \in {tree[x].marker, disk[x].marker}
        /\ tree[x] = disk[x] => Left(x, kept) = tree[x]
        /\ tree'[x] = Left(x, kept)
    BY <1>0, <1>1, <2>1, LeftFacts
  <2>3. Public(x)' = Gone
    <3>1. x \in Targets => tree'[x].db \in {Gone, tree[x].db}
      BY <2>0, <2>1, <2>2 DEF RestoredOK, NoDirectory
    <3>2. tree'[x].marker \in {Gone, tree[x].marker}
      BY <2>0, <2>1, <2>2 DEF GenerationOK, NoDirectory
    <3>3. QED
      BY <2>0, <3>1, <3>2 DEF Public
  <2>4. Public(x) # Spoiled
    <3>1. Spoiled \notin Images /\ Spoiled \notin Manifests /\ Spoiled # Gone
      BY ValuesAssumption
    <3>2. x \in Targets => tree[x].db # Torn
      BY <2>0, <2>1 DEF RestoredOK
    <3>3. tree[x].marker # Gone => tree[x].marker \in Manifests
      <4>1. SUFFICES ASSUME tree[x].marker # Gone PROVE tree[x].marker \in Manifests
        OBVIOUS
      <4>2. PICK c \in linked : ~ Restores(c) /\ tree[x] = Whole(c)
        BY <2>0, <2>1, <4>1 DEF GenerationOK, Sealed
      <4>3. manifest[c] \in Manifests
        BY <1>0 DEF KnowledgeOK, Typed
      <4>4. QED
        BY <4>2, <4>3 DEF Whole, Dir
    <3>4. QED
      BY <2>1, <3>1, <3>2, <3>3 DEF Public, Directory
  <2>5. ASSUME NEW c \in Calls, c \in linked, job[c].to = x, reply[c].state = "published" PROVE FALSE
    <3>1. Published(c) /\ Owns(c)
      BY <1>0, <2>5 DEF JobOK, Store!Pending, Published, Owns
    <3>2. tree[x] = disk[x]
      BY <1>0, <2>0, <2>5, <3>1 DEF TargetOK, Published, to
    <3>3. QED
      BY <2>0, <2>2, <3>2 DEF Public
  <2>6. QED
    BY <2>0, <2>3, <2>4, <2>5
<1>5. \A x \in Places : Holds'[x] = Held(x)' /\ Holds[x] = Held(x)
  BY DEF Holds
<1>6. Holds' = [x \in Places |-> Holds'[x]]
  BY DEF Holds
<1>7. \A x \in Places : Holds'[x] # Holds[x] =>
        /\ Holds[x] # Spoiled /\ Holds'[x] = Gone
        /\ \A c \in Calls : ~ (/\ Store!Asked(c) /\ c \in linked /\ job[c].to = x
                               /\ reply[c].state = "published")
  BY <1>4, <1>5
<1>8. QED
  BY <1>2, <1>3, <1>6, <1>7 DEF Store!LosePower, Holds

LEMMA StoreStep == IInv /\ [Next]_vars => [Store!Next]_(Store!vars)
<1> SUFFICES ASSUME IInv, [Next]_vars PROVE [Store!Next]_(Store!vars)
  OBVIOUS
<1>0. Typed /\ \A c \in Calls : JobOK(c)
  BY DEF IInv
<1>1. CASE UNCHANGED vars
  BY <1>1 DEF vars, files, calls, Store!vars, Held, Public
<1>2. CASE PowerLoss
  BY <1>2, PowerLossLoses DEF Store!Next
<1>3. ASSUME NEW y \in Places, Spoil(y) PROVE Store!Spoil(y)
  <2>1. /\ spoiled' = spoiled \cup {y} /\ \A x \in Places : x # y => tree'[x] = tree[x]
        /\ UNCHANGED <<job, reply, linked>>
    BY <1>0, <1>3, SpoilFacts
  <2>2. Held(y)' = Spoiled /\ \A x \in Places : x # y => Held(x)' = Held(x)
    BY <2>1 DEF Held, Public
  <2>3. Holds' = [Holds EXCEPT ![y] = Spoiled]
    BY <2>2 DEF Holds
  <2>4. QED
    BY <2>1, <2>3 DEF Store!Spoil, Holds
<1>4. ASSUME NEW c \in Calls, Move(c) PROVE [Store!Next]_(Store!vars)
  <2>1. CASE Links(c)
    BY <1>4, <2>1, LinkSeals DEF Store!Next
  <2>2. CASE ~ Links(c)
    <3>1. Holds' = Holds /\ linked' = linked
      BY <1>4, <2>2, HeldStays
    <3>2. ASSUME NEW j \in Jobs, Ask(c, j) PROVE Store!Ask(c, j)
      BY <1>0, <3>1, <3>2 DEF Ask, Store!Ask, Store!Asked, JobOK, Holds
    <3>3. CASE Report(c) \/ Abandon(c) \/ Crash(c)
      BY <3>3, EndAnswers DEF Store!Next
    <3>4. CASE job' = job /\ reply' = reply
      BY <3>1, <3>4 DEF Store!vars, Holds
    <3>5. QED
      BY <1>0, <1>4, <3>2, <3>3, <3>4, KindOfMove DEF Store!Next
  <2>3. QED
    BY <2>1, <2>2
<1>5. QED
  BY <1>1, <1>2, <1>3, <1>4 DEF Next, Move, Store!Next

\* Publication is atomic and truthful: every behaviour is one of SealedStore,
\* in which a name comes to hold a whole content in one step, keeps it, and
\* calls are told the truth about it (recovery.py, INTERFACE_PROFILE.md).
THEOREM AtomicPublication == Spec => ImplementsSealedStore
<1>1. Init => Store!Init
  BY DEF Init, Store!Init, Held, Public, NoDirectory
<1>2. IInv /\ [Next]_vars => [Store!Next]_(Store!vars)
  BY StoreStep
<1>3. QED
  BY <1>1, <1>2, Invariance, PTL DEF Spec, ImplementsSealedStore, Store!Spec

=============================================================================
