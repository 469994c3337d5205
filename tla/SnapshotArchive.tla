--------------------------- MODULE SnapshotArchive ---------------------------
(***************************************************************************)
(* recovery.py: create, publish, verify, restore and check_restore, by     *)
(* several processes on shared directories (snapshot_storage.py).          *)
(*                                                                         *)
(* A place is the path of a snapshot generation or of a restore target.    *)
(* SHA-256 has no collisions: a manifest stands for its digest, an image   *)
(* of the Ledger for the bytes of ledger.sqlite, their digest and their    *)
(* summary.  A step is what a call does between two points where another   *)
(* call, a failure, the death of its process or somebody else's change of  *)
(* a file can intervene.                                                   *)
(***************************************************************************)
EXTENDS Naturals, FiniteSets

CONSTANTS Calls,
          Jobs,         \* [op, from, to, expected]; from and to are Gone when op has none
          NoJob,
          Places,
          Remote,       \* those on a network mount
          Id,           \* Id[x]: the last component of path x
          Images,       \* the committed states a backup of the Ledger may be of
          MaxFaults,    \* bound: failures, deaths and foreign changes
          Gone, Torn, There, Spoiled

Operations == {"create", "publish", "verify", "restore", "check_restore"}
Manifests == [id : {Id[x] : x \in Places}, image : Images]

\* The places of snapshot generations, and of restored databases.
Generations == {j.to : j \in {k \in Jobs : k.op \in {"create", "publish"}}}
Targets == {j.to : j \in {k \in Jobs : k.op = "restore"}}

\* A path is asked for as a generation or as a restore target, not as both.
\* The generation a publish makes has the identity of the one it copies.
ASSUME JobsAssumption ==
  /\ Jobs \subseteq [op : Operations, from : Places \cup {Gone}, to : Places \cup {Gone},
                    expected : Manifests]
  /\ NoJob \notin Jobs
  /\ \A j \in Jobs :
       /\ j.op # "create" => j.from \in Places
       /\ j.op \in {"create", "publish", "restore"} => j.to \in Places
       /\ j.op = "publish" => Id[j.to] = j.expected.id
       /\ j.op = "check_restore" => j.from \notin Generations
  /\ Generations \cap Targets = {}

ASSUME ValuesAssumption ==
  /\ {Gone, Torn, Spoiled} \cap (Images \cup Manifests) = {}
  /\ Gone # Torn /\ Gone # There /\ Gone # Spoiled

VARIABLES
  tree,        \* tree[x]: the directory x and its members, as processes see it
  disk,        \* disk[x]: the same, as a loss of power leaves it
  pc, job,
  manifest,    \* manifest[c]: what call c has read or made
  private,     \* private[c]: ledger.sqlite in c's private directory
  unchanged,   \* unchanged[c]: the input's ledger.sqlite has the stamp it was opened with
  attempted,   \* _Operation.attempted
  code,        \* the code of the exception on its way out
  reply,
  linked,      \* history: the calls whose link took effect
  spoiled,     \* history: the places somebody else changed
  faults

files == <<tree, disk, spoiled>>
calls == <<pc, job, manifest, private, unchanged, attempted, code, reply, linked>>
vars  == <<files, calls, faults>>

\* The entries of a directory; "dir" is the directory itself, "stage" the
\* database in a restore's temporary directory, "extra" any foreign entry
\* (an SQLite sidecar of a restored database is one).
Members == {"dir", "db", "manifest", "marker", "stage", "extra"}
NoDirectory == [dir |-> Gone, db |-> Gone, manifest |-> Gone, marker |-> Gone,
                stage |-> Gone, extra |-> Gone]
EmptyDirectory == [NoDirectory EXCEPT !.dir = There]

Readers == {"verify", "check_restore"}
from(c) == job[c].from
to(c) == job[c].to
expected(c) == job[c].expected
Restores(c) == job[c].op = "restore"
Reads(c) == job[c].op \in Readers

\* What becomes visible by a link: a restored database, or a marker.
Public(x) == IF x \in Targets THEN tree[x].db ELSE tree[x].marker
Held(x) == IF x \in spoiled THEN Spoiled ELSE Public(x)

Store == INSTANCE SealedStore WITH
           Contents <- [x \in Places |-> IF x \in Targets THEN Images ELSE Manifests],
           held <- [x \in Places |-> Held(x)],
           asked <- job, sealers <- linked

Init ==
  /\ tree = [x \in Places |-> NoDirectory]
  /\ disk = [x \in Places |-> NoDirectory]
  /\ pc = [c \in Calls |-> "new"]
  /\ job = [c \in Calls |-> NoJob]
  /\ manifest = [c \in Calls |-> Gone]
  /\ private = [c \in Calls |-> Gone]
  /\ unchanged = [c \in Calls |-> TRUE]
  /\ attempted = [c \in Calls |-> FALSE]
  /\ code = [c \in Calls |-> "none"]
  /\ reply = [c \in Calls |-> Store!Pending]
  /\ linked = {}
  /\ spoiled = {}
  /\ faults = 0

-----------------------------------------------------------------------------
Fault == faults < MaxFaults /\ faults' = faults + 1

goto(c, point) == pc' = [pc EXCEPT ![c] = point]

\* Any change of x's ledger.sqlite or of its number of links.
Touch(x) == unchanged' = [c \in Calls |-> unchanged[c] /\ (pc[c] # "new" => from(c) # x)]

\* An exception; what is reported is decided on the way out.  It leaves a
\* restore's temporary directory first when it came from inside it.
raise(c, e) ==
  /\ code' = [code EXCEPT ![c] = e]
  /\ goto(c, IF Restores(c) /\ pc[c] \in {"stage", "link"} THEN "sweep" ELSE "failed")

tell(c, state, e) ==
  /\ reply' = [reply EXCEPT ![c] = [code |-> e, state |-> state]]
  /\ goto(c, "done")

\* Bug: a generation need not have its marker.
UnfitUnsealed(m, x) ==
  LET d == tree[x] IN
  CASE d.dir = Gone -> "NOT_FOUND"
    [] d.dir # Gone /\ Gone \in {d.db, d.manifest} -> "INCOMPLETE_SNAPSHOT"
    [] OTHER -> IF d.extra = Gone /\ d.manifest = m THEN "none" ELSE "INTEGRITY_FAILURE"

\* _manifest: why x is not the generation whose manifest is m.
Unfit(m, x) ==
  LET d == tree[x] IN
  CASE d.dir = Gone -> "NOT_FOUND"
    [] d.dir # Gone /\ Gone \in {d.db, d.manifest, d.marker} -> "INCOMPLETE_SNAPSHOT"
    [] OTHER -> IF /\ d.extra = Gone
                   /\ d.manifest = m
                   /\ d.manifest.id = Id[x]
                   /\ d.marker = d.manifest
                THEN "none" ELSE "INTEGRITY_FAILURE"
-----------------------------------------------------------------------------
(* Starting, and reading the input.                                        *)

Ask(c, j) ==
  /\ pc[c] = "new"
  /\ job' = [job EXCEPT ![c] = j]
  /\ goto(c, "open")
  /\ UNCHANGED <<files, manifest, private, unchanged, attempted, code, reply, linked, faults>>

\* Directories are opened; create and restore look whether their target exists.
Open(c) ==
  /\ pc[c] = "open"
  /\ IF job[c].op \in {"create", "restore"} /\ tree[to(c)].dir # Gone
     THEN raise(c, "TARGET_EXISTS")
     ELSE /\ goto(c, CASE job[c].op = "create" -> "backup"
                       [] job[c].op = "check_restore" -> "target"
                       [] OTHER -> "metadata")
          /\ UNCHANGED code
  /\ UNCHANGED <<files, job, manifest, private, unchanged, attempted, reply, linked, faults>>

\* The image of one committed state of the Ledger, which others write to, and
\* its manifest (snapshot_database is SnapshotSource).
Backup(c) ==
  /\ pc[c] = "backup"
  /\ \E image \in Images :
       /\ private' = [private EXCEPT ![c] = image]
       /\ manifest' = [manifest EXCEPT ![c] = [id |-> Id[to(c)], image |-> image]]
  /\ goto(c, "mkdir")
  /\ UNCHANGED <<files, job, unchanged, attempted, code, reply, linked, faults>>

\* The first look at a generation, and the opening of its ledger.sqlite.
ReadMetadata(c) ==
  /\ pc[c] = "metadata"
  /\ LET e == Unfit(expected(c), from(c))
     IN  IF e # "none"
         THEN raise(c, e) /\ UNCHANGED <<manifest, unchanged>>
         ELSE /\ manifest' = [manifest EXCEPT ![c] = expected(c)]
              /\ unchanged' = [unchanged EXCEPT ![c] = TRUE]
              /\ goto(c, "copy")
              /\ UNCHANGED code
  /\ UNCHANGED <<files, job, private, attempted, reply, linked, faults>>

\* check_restore: no SQLite sidecar may be there; a second link to
\* ledger.sqlite may.
OpenTarget(c) ==
  /\ pc[c] = "target"
  /\ LET d == tree[from(c)]
     IN  IF d.dir = Gone \/ d.extra # Gone \/ d.db = Gone
         THEN /\ raise(c, IF d.extra # Gone THEN "INTEGRITY_FAILURE" ELSE "NOT_FOUND")
              /\ UNCHANGED <<manifest, unchanged>>
         ELSE /\ manifest' = [manifest EXCEPT ![c] = expected(c)]
              /\ unchanged' = [unchanged EXCEPT ![c] = TRUE]
              /\ goto(c, "copy")
              /\ UNCHANGED code
  /\ UNCHANGED <<files, job, private, attempted, reply, linked, faults>>

\* copy_file into the private directory, with its digest checked.
CopyInput(c) ==
  /\ pc[c] = "copy"
  /\ IF tree[from(c)].db = manifest[c].image
     THEN /\ private' = [private EXCEPT ![c] = manifest[c].image]
          /\ goto(c, "recheck")
          /\ UNCHANGED code
     ELSE raise(c, "INTEGRITY_FAILURE") /\ UNCHANGED private
  /\ UNCHANGED <<files, job, manifest, unchanged, attempted, reply, linked, faults>>

\* Bug: the stamp of the input is not compared.
RecheckNothing(c) ==
  /\ pc[c] = "recheck"
  /\ goto(c, IF job[c].op = "check_restore" THEN "leave" ELSE "metadata2")
  /\ UNCHANGED <<files, job, manifest, private, unchanged, attempted, code, reply, linked, faults>>

\* The copy is a valid Ledger with the summary of the manifest; the input is
\* still the file that was opened.
Recheck(c) ==
  /\ pc[c] = "recheck"
  /\ IF unchanged[c] /\ (job[c].op = "check_restore" => tree[from(c)].extra = Gone)
     THEN /\ goto(c, IF job[c].op = "check_restore" THEN "leave" ELSE "metadata2")
          /\ UNCHANGED code
     ELSE raise(c, "INTEGRITY_FAILURE")
  /\ UNCHANGED <<files, job, manifest, private, unchanged, attempted, reply, linked, faults>>

ReadMetadataAgain(c) ==
  /\ pc[c] = "metadata2"
  /\ LET e == Unfit(manifest[c], from(c))
     IN  IF e # "none"
         THEN raise(c, e)
         ELSE goto(c, IF job[c].op = "verify" THEN "leave" ELSE "mkdir") /\ UNCHANGED code
  /\ UNCHANGED <<files, job, manifest, private, unchanged, attempted, reply, linked, faults>>
-----------------------------------------------------------------------------
(* Filling and publishing the target.                                      *)

\* Only an exclusive mkdir gives a call its target.
Mkdir(c) ==
  /\ pc[c] = "mkdir"
  /\ IF tree[to(c)].dir # Gone
     THEN raise(c, "TARGET_EXISTS") /\ UNCHANGED tree
     ELSE /\ tree' = [tree EXCEPT ![to(c)] = EmptyDirectory]
          /\ goto(c, IF Restores(c) THEN "stage" ELSE "copyout")
          /\ UNCHANGED code
  /\ UNCHANGED <<disk, spoiled, job, manifest, private, unchanged, attempted, reply, linked, faults>>

\* A member of the target is created exclusively.
CopyOut(c) ==
  /\ pc[c] = "copyout"
  /\ IF tree[to(c)].db # Gone
     THEN raise(c, "TARGET_EXISTS") /\ UNCHANGED tree
     ELSE /\ tree' = [tree EXCEPT ![to(c)].db = private[c]]
          /\ goto(c, "writemanifest")
          /\ UNCHANGED code
  /\ UNCHANGED <<disk, spoiled, job, manifest, private, unchanged, attempted, reply, linked, faults>>

WriteManifest(c) ==
  /\ pc[c] = "writemanifest"
  /\ IF tree[to(c)].manifest # Gone
     THEN raise(c, "TARGET_EXISTS") /\ UNCHANGED tree
     ELSE /\ tree' = [tree EXCEPT ![to(c)].manifest = manifest[c]]
          /\ goto(c, "readback")
          /\ UNCHANGED code
  /\ UNCHANGED <<disk, spoiled, job, manifest, private, unchanged, attempted, reply, linked, faults>>

ReadBack(c) ==
  /\ pc[c] = "readback"
  /\ IF tree[to(c)].db = manifest[c].image /\ tree[to(c)].manifest = manifest[c]
     THEN goto(c, "sync") /\ UNCHANGED code
     ELSE raise(c, "INTEGRITY_FAILURE")
  /\ UNCHANGED <<files, job, manifest, private, unchanged, attempted, reply, linked, faults>>

\* Bug: the directory that holds the generation is synced, the generation not.
SyncParent(c) ==
  /\ pc[c] = "sync"
  /\ disk' = [disk EXCEPT ![to(c)].dir = There]
  /\ goto(c, "link")
  /\ UNCHANGED <<tree, spoiled, job, manifest, private, unchanged, attempted, code, reply, linked, faults>>

\* fsync of the generation, then of its parent.
Sync(c) ==
  /\ pc[c] = "sync"
  /\ disk' = [disk EXCEPT ![to(c)] = tree[to(c)]]
  /\ goto(c, "link")
  /\ UNCHANGED <<tree, spoiled, job, manifest, private, unchanged, attempted, code, reply, linked, faults>>

\* restore copies into a temporary directory of the target, verifies the
\* copy there, and syncs the file.
Stage(c) ==
  /\ pc[c] = "stage"
  /\ tree' = [tree EXCEPT ![to(c)].stage = private[c]]
  /\ goto(c, "link")
  /\ UNCHANGED <<disk, spoiled, job, manifest, private, unchanged, attempted, code, reply, linked, faults>>

\* The effect of a link: the name holds a whole file at once.
MakeLink(c) ==
  /\ Public(to(c)) = Gone
  /\ tree' = IF Restores(c) THEN [tree EXCEPT ![to(c)].db = tree[to(c)].stage]
                            ELSE [tree EXCEPT ![to(c)].marker = manifest[c]]
  /\ linked' = linked \cup {c}
  /\ Touch(to(c))

\* _Operation.link: the one step that publishes.
Link(c) ==
  /\ pc[c] = "link"
  /\ MakeLink(c)
  /\ attempted' = [attempted EXCEPT ![c] = TRUE]
  /\ goto(c, "unstage")
  /\ UNCHANGED <<disk, spoiled, job, manifest, private, code, reply, faults>>

\* Another file is there under that name.  Of a network mount even this
\* answer is no evidence: it may be its own link that was retried.
LinkExists(c) ==
  /\ pc[c] = "link"
  /\ Public(to(c)) # Gone
  /\ raise(c, "TARGET_EXISTS")
  /\ attempted' = [attempted EXCEPT ![c] = to(c) \in Remote]
  /\ UNCHANGED <<files, job, manifest, private, unchanged, reply, linked, faults>>

\* Bug: an error number proves that nothing happened on a network mount too.
LinkFailsAnywhere(c) ==
  /\ pc[c] = "link"
  /\ Fault
  /\ raise(c, "IO_ERROR")
  /\ \/ UNCHANGED <<tree, linked, unchanged, attempted>>
     \/ /\ to(c) \in Remote
        /\ MakeLink(c)
        /\ UNCHANGED attempted
  /\ UNCHANGED <<disk, spoiled, job, manifest, private, reply>>

\* link raises.  Some errors of a local file system prove that nothing
\* happened; any other may follow a link that was made.
LinkFails(c) ==
  /\ pc[c] = "link"
  /\ Fault
  /\ raise(c, "IO_ERROR")
  /\ \/ to(c) \notin Remote /\ UNCHANGED <<tree, linked, unchanged, attempted>>
     \/ /\ attempted' = [attempted EXCEPT ![c] = TRUE]
        /\ \/ UNCHANGED <<tree, linked, unchanged>>
           \/ MakeLink(c)
  /\ UNCHANGED <<disk, spoiled, job, manifest, private, reply>>

\* The temporary directory of the link's source is removed.
Unstage(c) ==
  /\ pc[c] = "unstage"
  /\ IF Restores(c)
     THEN tree' = [tree EXCEPT ![to(c)].stage = Gone] /\ Touch(to(c))
     ELSE UNCHANGED <<tree, unchanged>>
  /\ goto(c, "sync2")
  /\ UNCHANGED <<disk, spoiled, job, manifest, private, attempted, code, reply, linked, faults>>

\* Bug: the link itself is never synced.
SyncAgainNothing(c) ==
  /\ pc[c] = "sync2"
  /\ goto(c, "final")
  /\ UNCHANGED <<files, job, manifest, private, unchanged, attempted, code, reply, linked, faults>>

SyncAgain(c) ==
  /\ pc[c] = "sync2"
  /\ disk' = [disk EXCEPT ![to(c)] = tree[to(c)]]
  /\ goto(c, "final")
  /\ UNCHANGED <<tree, spoiled, job, manifest, private, unchanged, attempted, code, reply, linked, faults>>

\* The whole content of x is what call c meant to publish.
Complete(c, x) ==
  IF Restores(c) THEN tree[x] = [EmptyDirectory EXCEPT !.db = manifest[c].image]
                 ELSE Unfit(manifest[c], x) = "none" /\ tree[x].db = manifest[c].image

Final(c) ==
  /\ pc[c] = "final"
  /\ IF Complete(c, to(c))
     THEN goto(c, "leave") /\ UNCHANGED code
     ELSE raise(c, "INTEGRITY_FAILURE")
  /\ UNCHANGED <<files, job, manifest, private, unchanged, attempted, reply, linked, faults>>
-----------------------------------------------------------------------------
(* Ending: private directories are removed, handles closed, the result told. *)

Leave(c) ==
  /\ pc[c] = "leave"
  /\ goto(c, "report")
  /\ UNCHANGED <<files, job, manifest, private, unchanged, attempted, code, reply, linked, faults>>

\* The callback has returned: encoding the report, or the deadline, cannot
\* undo what was observed.
Report(c) ==
  /\ pc[c] = "report"
  /\ \/ tell(c, IF Reads(c) THEN "not_applicable" ELSE "published", "OK") /\ UNCHANGED faults
     \/ Fault /\ tell(c, IF Reads(c) THEN "not_applicable" ELSE "published", "IO_ERROR")
  /\ UNCHANGED <<files, job, manifest, private, unchanged, attempted, code, linked>>

\* Bug: what was linked is removed when the call fails.
AbandonAndRemove(c) ==
  /\ pc[c] = "failed"
  /\ IF attempted[c] THEN tree' = [tree EXCEPT ![to(c)] = NoDirectory] ELSE UNCHANGED tree
  /\ tell(c, IF attempted[c] THEN "unknown" ELSE "not_applicable",
             IF attempted[c] THEN "PUBLICATION_UNKNOWN" ELSE code[c])
  /\ UNCHANGED <<disk, spoiled, job, manifest, private, unchanged, attempted, code, linked, faults>>

\* A restore's temporary directory is removed, if that succeeds.
Sweep(c) ==
  /\ pc[c] = "sweep"
  /\ \/ UNCHANGED <<tree, unchanged>>
     \/ tree' = [tree EXCEPT ![to(c)].stage = Gone] /\ Touch(to(c))
  /\ goto(c, "failed")
  /\ UNCHANGED <<disk, spoiled, job, manifest, private, attempted, code, reply, linked, faults>>

\* An error.  The target is never removed, and after an attempt to link
\* nothing but that attempt is reported.
Abandon(c) ==
  /\ pc[c] = "failed"
  /\ IF attempted[c] THEN tell(c, "unknown", "PUBLICATION_UNKNOWN")
     ELSE tell(c, IF Reads(c) \/ code[c] = "TARGET_EXISTS"
                  THEN "not_applicable" ELSE "not_published", code[c])
  /\ UNCHANGED <<files, job, manifest, private, unchanged, attempted, code, linked, faults>>
-----------------------------------------------------------------------------
(* Failures, deaths, and everybody else.                                   *)

Running(c) == pc[c] \notin {"new", "done"}

\* What a step that did not end may leave of its target.
Partial(c) ==
  \/ UNCHANGED tree
  \/ /\ pc[c] = "mkdir" /\ tree[to(c)].dir = Gone
     /\ tree' = [tree EXCEPT ![to(c)] = EmptyDirectory]
  \/ /\ pc[c] = "copyout" /\ tree[to(c)].db = Gone
     /\ tree' = [tree EXCEPT ![to(c)].db = Torn]
  \/ /\ pc[c] = "writemanifest" /\ tree[to(c)].manifest = Gone
     /\ tree' = [tree EXCEPT ![to(c)].manifest = Torn]
  \/ /\ pc[c] = "stage"
     /\ tree' = [tree EXCEPT ![to(c)].stage = Torn]

\* A system call fails, or a checkpoint finds the deadline passed.
Fail(c) ==
  /\ Running(c) /\ pc[c] \notin {"sweep", "failed", "report"}
  /\ Fault
  /\ Partial(c)
  /\ raise(c, "IO_ERROR")
  /\ UNCHANGED <<disk, spoiled, job, manifest, private, unchanged, attempted, reply, linked>>

\* The process of the call dies.
Crash(c) ==
  /\ Running(c)
  /\ Fault
  /\ Partial(c)
  /\ goto(c, "done")
  /\ reply' = [reply EXCEPT ![c] = Store!Lost]
  /\ UNCHANGED <<disk, spoiled, job, manifest, private, unchanged, attempted, code, linked>>

\* What power loss leaves of x when the entries in kept got to the disk.
Left(x, kept) ==
  LET d == [dir      |-> IF <<x, "dir">> \in kept THEN tree[x].dir ELSE disk[x].dir,
            db       |-> IF <<x, "db">> \in kept THEN tree[x].db ELSE disk[x].db,
            manifest |-> IF <<x, "manifest">> \in kept THEN tree[x].manifest ELSE disk[x].manifest,
            marker   |-> IF <<x, "marker">> \in kept THEN tree[x].marker ELSE disk[x].marker,
            stage    |-> IF <<x, "stage">> \in kept THEN tree[x].stage ELSE disk[x].stage,
            extra    |-> IF <<x, "extra">> \in kept THEN tree[x].extra ELSE disk[x].extra]
  IN  IF d.dir = Gone THEN NoDirectory ELSE d

\* Power is lost.  Of what was not synced, any part may be there afterwards.
PowerLoss ==
  /\ Fault
  /\ \E kept \in SUBSET {e \in Places \X Members : tree[e[1]][e[2]] # disk[e[1]][e[2]]} :
       tree' = [x \in Places |-> Left(x, kept)]
  /\ disk' = tree'
  /\ pc' = [c \in Calls |-> IF Running(c) THEN "done" ELSE pc[c]]
  /\ reply' = [c \in Calls |-> IF Running(c) THEN Store!Lost ELSE reply[c]]
  /\ UNCHANGED <<spoiled, job, manifest, private, unchanged, attempted, code, linked>>

\* Another actor, or the medium, changes a file or adds one.
Spoil(x) ==
  /\ tree[x].dir # Gone
  /\ Fault
  /\ spoiled' = spoiled \cup {x}
  /\ \/ tree' = [tree EXCEPT ![x].db = Torn]
     \/ tree' = [tree EXCEPT ![x].manifest = Torn]
     \/ tree' = [tree EXCEPT ![x].marker = Torn]
     \/ tree[x].stage # Gone /\ tree' = [tree EXCEPT ![x].stage = Torn]
     \/ tree' = [tree EXCEPT ![x].extra = There]
  /\ Touch(x)
  /\ UNCHANGED <<disk, pc, job, manifest, private, attempted, code, reply, linked>>

Step(c) ==
  \/ Open(c) \/ Backup(c) \/ ReadMetadata(c) \/ OpenTarget(c) \/ CopyInput(c) \/ Recheck(c)
  \/ ReadMetadataAgain(c) \/ Mkdir(c) \/ CopyOut(c) \/ WriteManifest(c) \/ ReadBack(c) \/ Sync(c)
  \/ Stage(c) \/ Link(c) \/ LinkExists(c) \/ Unstage(c) \/ SyncAgain(c) \/ Final(c)
  \/ Leave(c) \/ Report(c) \/ Sweep(c) \/ Abandon(c)

Next ==
  \/ PowerLoss
  \/ \E x \in Places : Spoil(x)
  \/ \E c \in Calls :
       \/ \E j \in Jobs : Ask(c, j)
       \/ Step(c)
       \/ LinkFails(c) \/ Fail(c) \/ Crash(c)

Spec == Init /\ [][Next]_vars
-----------------------------------------------------------------------------
Points == {"new", "open", "backup", "metadata", "target", "copy", "recheck", "metadata2",
           "mkdir", "copyout", "writemanifest", "readback", "sync", "stage", "link",
           "unstage", "sync2", "final", "leave", "report", "sweep", "failed", "done"}

Directory == [dir : {Gone, There}, db : Images \cup {Gone, Torn},
              manifest : Manifests \cup {Gone, Torn}, marker : Manifests \cup {Gone, Torn},
              stage : Images \cup {Gone, Torn}, extra : {Gone, There}]

TypeOK ==
  /\ tree \in [Places -> Directory]
  /\ disk \in [Places -> Directory]
  /\ pc \in [Calls -> Points]
  /\ job \in [Calls -> Jobs \cup {NoJob}]
  /\ manifest \in [Calls -> Manifests \cup {Gone}]
  /\ private \in [Calls -> Images \cup {Gone}]
  /\ unchanged \in [Calls -> BOOLEAN]
  /\ attempted \in [Calls -> BOOLEAN]
  /\ code \in [Calls -> Store!Codes \cup {"none"}]
  /\ reply \in [Calls -> Store!Replies]
  /\ linked \subseteq Calls
  /\ spoiled \subseteq Places
  /\ faults \in 0 .. MaxFaults

\* What is visible under a public name is whole, at every moment and after
\* any loss of power: a generation with a marker has the manifest and the
\* database the marker binds, and a restored database has the bytes some
\* caller asked for (the order of copies, fsyncs and the one link, _seal_archive
\* and restore).
PublicIsWhole ==
  \A x \in Places \ spoiled :
    LET d == tree[x] IN
    Public(x) # Gone =>
      \E c \in linked :
        /\ to(c) = x
        /\ IF Restores(c) THEN d.db = expected(c).image
           ELSE /\ d.marker = manifest[c]
                /\ d.manifest = d.marker /\ d.manifest.id = Id[x]
                /\ d.db = d.manifest.image

\* publication_state is true, then and for ever after: published names a
\* complete and durable target with the content that was told, nothing else
\* beside it; not_published and not_applicable are never told of a link that
\* took effect (_execute, _Operation.link, the final sync and validation).
PublicationHonest ==
  \A c \in Calls : pc[c] = "done" =>
    /\ reply[c].state = "published" =>
         c \in linked /\ (to(c) \in spoiled \/ Complete(c, to(c)))
    /\ reply[c].state \in {"not_published", "not_applicable"} => c \notin linked

\* Success is told only of an input some call did publish, whole: nothing a
\* crash, a competitor or a failure left half made is ever verified, copied
\* to an archive or restored (_manifest, copy_file, _validated_snapshot).
SuccessMeansPublished ==
  \A c \in Calls : (pc[c] = "done" /\ reply[c].code = "OK" /\ job[c].op # "create") =>
    \E d \in linked : /\ to(d) = from(c)
                      /\ IF Restores(d) THEN manifest[d].image = expected(c).image
                                        ELSE manifest[d] = expected(c)

\* When a call accepts the copy it made, the input still has those bytes: a
\* change between the first look and the last is noticed (_validated_snapshot
\* and check_restore, the comparison of stamps).
AcceptedWhatIsThere ==
  [][\A c \in Calls : pc[c] = "recheck" /\ pc'[c] \in {"metadata2", "leave"}
       => tree[from(c)].db = private[c]]_vars

\* Publication is atomic and truthful, whatever happens under it.
ImplementsSealedStore == Store!Spec
=============================================================================
