# A TLA+ model of the artifact ledger

This project models `infra-artifact-ledger`, a Python library and command line
that keeps Artifacts, their Versions, Blobs, Manifests, provenance and Receipts
in one SQLite file, answers retried writes idempotently, exchanges content as
portable bundles, and makes, publishes and restores sealed snapshots of itself.
Paths below are relative to the repository; `src/infra_artifact_ledger` is
abbreviated to `…/`.

## 1. Inventory

| Part | Code | State it keeps | Operations | Hard behaviour | What makes it correct |
|---|---|---|---|---|---|
| Write operations | `…/service.py` `execute`, `_check_replay`, `_create`, `_append`, `_import` | the database; per call: `began`, `committing`, `committed`, `operation_record` | create_artifact, append_version, import_bundle | races of processes, failing statements, a COMMIT that raises, interruptions, death at any point, retries | all or nothing; one result per idempotency tuple; `commit_state` never untrue |
| Query operations | `…/service.py` `_read`, `get_*`, `list_versions`, `read_blob`, `verify`, `export_bundle` | one read transaction | the same | commits between two SELECTs; a ROLLBACK that fails | each sees one committed state and leaves no transaction |
| Handles | `…/sqlite_store.py`, `initialize`, `open`, `close` | the connection, `in_transaction` | initialize, open, close | publication of a new file against competitors and crashes; a transaction left on a handle | a file is complete or absent; close never commits |
| Planners and validation | `…/service.py` planners, `…/validation.py`, `…/records.py` | none | pure | cycles, dangling references, histories that differ | a valid graph plus an accepted request is a valid graph |
| Portable bundles, fingerprint | `…/portable.py`, `…/fingerprint.py` | none | encode, parse, hash | limits | a round trip is the identity |
| Snapshot archives | `…/recovery.py`, `…/snapshot_storage.py`, `…/snapshot_common.py` | directories, files, links | create, publish, verify, restore, check_restore | competing publishers, crashes, power loss, a remote link whose answer is lost, inputs that change while read | a marker is only on a complete generation; `publication_state` never untrue |
| Snapshot source | `…/snapshot_sqlite.py` | a backup connection | preflight_source, snapshot_database, validate_database | writers during the backup; path and sidecar changes | the image is one committed state |
| Snapshot formats | `…/snapshot_format.py` | none | parse, validate, encode | - | - |
| Command lines | `…/cli.py`, `…/snapshot_cli.py` | none | one dispatch per process | failures after a commit; two outputs | a known commit is still told |
| Second implementation | `implementations/independent_b` | as the first | as the first | as the first | it keeps the same promises |

How they interact: a command line opens a handle, calls one operation and closes
the handle; every operation of a handle is SQL over one connection; processes
meet only in SQLite's file locks and in the file system.  Snapshots read the
database through a connection of their own and meet each other in directories.

## 2. Modules

| Module | Models |
|---|---|
| `LedgerData` | what a database holds (`recs`, `ops`), what a request says (`Body`) and does to it: conflicts, insertions, replay comparison |
| `IdempotentLedger` | the abstract specification: asked, landed once, answered truthfully |
| `WriteProtocol` | `execute`, `_read`, `close`, `open` over SQLite's locks and transactions |
| `WriteProtocolMC` | small tables of requests for TLC |
| `SealedStore` | the abstract specification of snapshots: a name is sealed once, truthfully |
| `SnapshotArchive` | create, publish, verify, restore, check_restore on shared directories |
| `SnapshotArchiveMC` | small sets of jobs for TLC |
| `SnapshotArchiveProofs` | its safety and that it implements `SealedStore`, proved |
| `AtomicBackup` | the abstract specification of an image: the committed state of the file at the path, at one moment of the call |
| `SnapshotSource`, `SnapshotSourceMC` | taking that image from a live database: binding, header helper, locks, T0, page by page |
| `SnapshotSourceProofs` | its safety and that it implements `AtomicBackup`, proved |
| `Initialize`, `InitializeMC` | creating a database file at a path, and opening one |
| `InitializeProofs` | its safety, proved |
| `ParentGraph` | the cycle test of `validate_metadata`, step by step, against a definition of acyclicity |
| `ParentGraphProofs` | that the test is right, proved |
| `RecordGraph` | records of the seven kinds, their references, and which sets of them `validate_metadata` accepts |
| `LedgerOps`, `LedgerOpsMC` | what planners, replay check, queries, `verify`, export and import do to the rows of Ledgers, damage included |
| `LedgerOpsProofs` | their types and their safety, proved |
| `CommandLine`, `CommandLineMC` | `artifact-ledger`: one process per call, its outputs, its line, its exit code |
| `CommandLineProofs` | its safety, proved |
| `SnapshotCommand`, `SnapshotCommandMC` | `artifact-ledger snapshot`: one process per call, its line |
| `SnapshotCommandProofs` | its theorem |
| `IndependentLedger`, `IndependentLedgerMC` | `execute` and `_view` of the second implementation, over the state of `WriteProtocol` |
| `LedgerProofs` | the safety of both implementations and that they implement `IdempotentLedger`, proved |

How they compose.  `WriteProtocol` and `IndependentLedger` refine `IdempotentLedger`, and
`LedgerOps` and `CommandLine` take that promise for one step.  `SnapshotSource` refines
`AtomicBackup`, which is the `Backup` step of `SnapshotArchive`; that refines `SealedStore`,
and `SnapshotCommand` takes its promise for one step.

### LedgerData

A request is a point of `Requests`: requests with equal canonical bodies are the
same point, so equality stands for equality of `request_fingerprint`.  `Body[r]`
lists the records it stamps with this call's `recorded_at` (`timed`), the records
it carries complete (`carried`), what it refers to (`needs`, `uses`), the Blobs
whose bytes it brings (`closure`), and the operations of a bundle (`history`).
`Rejections` is the set of codes one of whose causes is present; where several
are, the model may answer any of them and the code answers the first it meets.
One of them is `INTEGRITY_FAILURE`: a healthy Ledger tells it of a reference that does not
resolve (`validate_metadata` of the whole, `…/service.py` 530) and of bytes that are not those
of a Blob.
Fields, digests and sizes are abstracted: two records are the same iff equal.

### WriteProtocol

One handle is one process.  `pc` is the point of `execute` the handle is at:
`validate` (315-356), `begin` (357), `lookup` (358-371), `replay`
(`_check_replay`, 441-479), `endreplay` (372-375), `plan` (376-388), `records` and
`operations` (389-399), `commit` (400), `ack` (402) and `failed` (the handler,
403-439).  A step ends wherever another process, a failing statement, an
interruption or a death can make a difference.  `began`, `committing`,
`committed`, `operation` are the locals of the same names, `code` the code of
the exception being handled.  SQLite is external: `lock` follows its documented
locks in rollback-journal mode, `intx` is `in_transaction`, `txn` what the open
transaction would commit.  A COMMIT meeting readers keeps PENDING and waits until
its timeout (BUSY); a COMMIT that raises may have left the transaction active,
rolled it back, or made it durable.  A ROLLBACK may fail either way.

What a caller supplies with a request (`supplied`) is right (`good`), refused before the
transaction (`malformed`: `INVALID_INPUT`, or `INTEGRITY_FAILURE` for bytes that are not
their Blob's and for a package whose parts disagree), reaches outside the closure
(`extra`), or differs from a Blob that is reused (`altered`); the last two are looked at by
the planner, and by `_check_replay`, where they are a rejected retransmission that clears
`committed` (481-490).

`landed` is a history variable (the calls whose own transaction became durable);
it is what the answers are judged by.

### SnapshotArchive

Each call is a process of its own; calls meet only in directories.  A place is the
path of a snapshot generation or of a restore target; `tree[x]` is what processes see
there, `disk[x]` what a loss of power leaves: `fsync` of a directory copies the first
to the second, and `PowerLoss` keeps any part of what differs.  Files are written and
synced before the directory that names them (`copy_file`, `write_file`), so a file's
bytes are whole once its step ended; a step that did not end leaves `Torn` bytes.

`pc` follows `…/recovery.py`: `open` (325-333 and its likes), `backup` (272-284) or
`metadata`, `copy`, `recheck`, `metadata2` (`_validated_snapshot`, 180-214) or
`target` (371-386); `mkdir`; for a generation `copyout`, `writemanifest`,
`readback`, `sync`, `link`, `unstage`, `sync2`, `final` (`_seal_archive`, 226-253),
for a restore `stage`, `link`, `unstage`, `sync2`, `final` (337-362); `leave` (the
contexts), `report` and `failed` (`_execute`).  The one link is the only publication:
`Link`; `LinkExists` (another file has the name); `LinkFails` (it raises, having
taken effect or not).  `attempted` is the field of `_Operation`; on a network mount no
error clears it.  Another actor or the medium is `Spoil`, marked in `spoiled`, and
everything the properties say is of places that were not spoiled.  `verify` is the reading half
of `publish`, by the same actions, and no run asks for it by itself.

SHA-256 is injective: a manifest stands for its digest, an image of the Ledger for the
bytes, digest and summary of `ledger.sqlite`.  `Backup` takes the committed image in
one step, as `SnapshotSource` shows it may: some member of `Images`, the states others
commit meanwhile.  Path, mount and link-count checks
are failures of the step that makes them (`Fail`), as is a passed deadline.  Private
temporary directories are not in `tree`, except a restore's, which is in its target.

`SealedStore` sees of this only what a place publicly holds (its marker, or the restored
database), who sealed it, and what was told.

### SnapshotSource

The files that come to be at the source path are numbered; a database is the number of
its commits, and its content at a chunk is that number or, while a transaction spills
pages, `Torn`.  `pc` follows `snapshot_database` (448-496): `bind`, `spawn`, `header`,
`rebind` (`preflight_source`, `_source_binding`, `_read_header`), `precheck`, `connect`,
`connected`, `begin` (the first SELECT, which pins T0), `format`, `copy` (one
`BACKUP_PAGES` step each), `lastcheck`, `close`, `validate` (`validate_database` on the
private copy), `cleanup`.  Writers are Ledger handles of this or another process; when one
dies its hot journal stays.  `lock` is what the operating system holds, per process: a
process that closes any descriptor of a file loses all its locks on it, which is why the
header is read by a helper.

Callers of `create` must keep the source file, its binding and its journal mode stable from the
preflight until the source is closed (`docs/a2/INTERFACE_PROFILE.md` 62).  The model takes this for
granted of the journal mode: the format, and with it a WAL sidecar, changes only with a replacement of
the file (`Replace`), never of the same file between the sidecar check (`snapshot_sqlite.py` 455) and
the first SELECT (461), where the code would open it and could touch its sidecars.  Of the binding it
takes less for granted: files are replaced at any time, but no path comes back to an earlier file,
which stat, mount and inode checks cannot see.  A death of the caller (`Crash`) takes its helper with it;
an orphaned helper may outlive it for a moment, reading the header in a process without Ledger handles,
so nothing depends on it.  A close that raises (80-94), a failing kill of the helper and a private target
that exists are not modelled.  Validation may accept a mixture of
pages (the worst case); that no mixture arises is what `ImplementsBackup` shows.

### Initialize

One call per process; the file a call makes has its name.  `pc` follows `_initialize`
(`sqlite_store.py` 189-239): the two looks at the path and its sidecars, staging, build,
sync, link, directory sync, removal of the staging directory, the same-file tests around
the reopening.  `diskname` and `synced` are what a loss of power leaves.  The private directory is
removed after the last sync of its parent (`sqlite_store.py` 64, 231), so until a later sync a loss of
power may bring it back: `lingering` are those removed so, `outlived` remembers who had succeeded by
then.  A foreign file at the path may be refused for whatever it is, or be a Ledger.  A journal beside
the path is recovered into what is opened there; `early` and `recovered` remember when it
appeared.

### RecordGraph, ParentGraph, LedgerOps

A record has an id, a kind, references by field, bytes if it is a Blob, and as its time the
Ledger that wrote it.  `Valid` is `validate_metadata` without the shape of single fields:
unique ids, references to the right kind, one Artifact per line of parents, no cycle,
content that is used, provenance about a Version, results of operations.  It says of cycles
only that there is none (`Ordered`: in any group of Versions one comes first); how the code
finds out is `ParentGraph` (`queue`, `indegree` and `visited` of `validation.py` 464-475), and
that it finds out right is proved there.

A Ledger in `LedgerOps` is its four tables.  Each step is one transaction, atomic by
`WriteProtocol`.  Which of several causes of a refusal is told is left open.  The
`Harm` actions lose a row of any table, alter or misplace a payload or a line of the index, exchange
two records, drop a reference, give a record another time, give an operation's row the operation of
another, another request's fingerprint, or another time.  Times stand for all that `verify` compares with nothing,
as `type_ref` and opaque fields; a lost operation row leaves a valid Ledger that no
code could tell from one that never had it.  A Blob
has one of three contents and a size; the limits of an export are on total size and
on the number of records (`MaxPayload`, `MaxJson`).  The instances ask different
requests of the two Ledgers, well-formed and not, and bundles nobody exported.

### CommandLine, SnapshotCommand

`pc` follows `_dispatch` and `main` (`cli.py` 265-349, 401-427): parse, input files, open, run, the
outputs (`_publish`: temporary file, read back, link, directory sync, unlink), encode,
close, and `conclude`, the mapping of whatever was raised.  The operation itself answers
what `WriteProtocol` shows it may.  A call chooses its output names among `Choices[c]` when
its arguments are parsed; some of these are refused.  `file` and `durable` are the directories with and
after a loss of power.  Others may take a name, but in the model nobody removes an output,
and a directory of an output does not change between its check and the link.  `init` is a
query here: what it does is `Initialize`.  `--help` is not a command.

`SnapshotCommand` follows `main` of `snapshot_cli.py` in the same way: `state`,
`api_started` and `operation` are its locals; `known` is what the API told.  Calls meet
only in the directories of `SnapshotArchive`, so one call is the whole of it.

### IndependentLedger

The second implementation has its own tables but the same SQLite layer, and its
`execute` (`implementations/independent_b/.../ledger.py` 217-431) has the points of the
first.  The module therefore extends `WriteProtocol` and gives its own next-state relation:
steps whose code does the same are given by the first one's action, the rest is written
out: the whole graph read before a replay or a plan (283-284), the conditions under which
it adds (310-367), its handler (382-431), a COMMIT that does not wait (`timeout=0`), and a
read whose final ROLLBACK is not repeated when it raises (86-87).  `started` is `began`,
`attempted_commit` is `committing`, `committed or replaying` is `committed`.

## 3. Runs

| Run | Question | Instance |
|---|---|---|
| `write_races` | are answers honest, reads stable, transactions released, and is the whole an `IdempotentLedger`, when two processes race? | 2 handles, 3 calls, 1 fault; a bundle of an Artifact, another bundle under its tuple that adds a Version with two Blobs, an append to the first Artifact that reuses these Blobs |
| `write_returns` | does every call return, and is what is durable whole when a bundle brings an operation and an Artifact that are also written here? | 2 handles, 2 calls, 2 faults, 2 times; a creation, and a bundle with that operation at another time; `FairSpec` |
| `archive_publish` | is publication told truly, and only what somebody sealed and the caller expected copied, when creations of one snapshot compete, and publications for a remote name whose link may take effect and raise? | 3 calls, 2 faults, backups of two states of the Ledger, a local and a remote place |
| `archive_restore` | is a generation whole from its marker on and a restored database from its name on, and a target told complete really so? | 3 calls, 2 faults, a local place and a target |
| `source_live` | is an image one committed state of the file at the path, is no lock of this process lost and nothing touched, and does every snapshot end? | 2 snapshots and a handle in one process, a handle in another; files of seven formats in sequence from any of them on, 1 commit each, 2 chunks, 2 faults; `FairSpec` |
| `initialize_race` | is what a creator makes only ever visible whole, and is it the creator's own when it succeeds? | 2 creators, 1 opener, 3 faults |
| `parent_graph` | does the cycle test refuse exactly the cyclic graphs? | all 65536 graphs of 4 Versions |
| `ops_exchange` | do histories stay whole and apart, can what is exported be imported, and does growth refuse nothing? | 2 Ledgers, 12 requests, 3 foreign bundles, 1 import each |
| `ops_damage` | does `verify` find every damage to content and mean readable, and does damage stay out of bundles and confirmed replays? | 1 Ledger, 5 requests, 1 import, 1 row lost, changed or exchanged |
| `cli_calls` | is what a line says of the commit true and complete, are outputs whole and never replaced, and is no descriptor without its package? | a write, a blob and an export whose package has the same name, either of which may be asked for under forbidden names, 3 faults |
| `cli_snapshot` | is the publication state on the line true and never less than was told? | 1 call of a publishing and a read-only operation, 2 faults |
| `second_races` | does the second implementation keep the promise of `IdempotentLedger`? | as `write_races`, with one Blob |

The bounds.  Two handles are enough for every conflict of SQLite's locks the code
can meet: one writer excludes the others, and one reader delays a writer.  Three
calls are a first write, its retry, and a competitor, or the import that brings Blobs, the append
that reuses them, and another import under the first one's tuple.  One fault reaches each
branch of the handler; two are needed only to leave a transaction behind and then
fail again, which `write_returns` does.  Wrong inputs come with the requests of `Misasked`:
with the append, the only one that can be wrong in all three ways, where two handles race,
and with the creation and the import in `write_returns`.  `MaxCalls`, `Misasked` and
`MaxFaults` are guards of `Ask` and `Fault`.  The proofs below have none of these bounds.
For the archive, three calls are two competitors and a reader, or a creation, what is
made from it, and a competitor; two faults are, for instance, a failure and a later loss
of power, or a death and a foreign change.  Two images make two creations differ.
Two faults replace the file at the path twice, or once behind a writer that died; two chunks
are enough for a mixture.  Four Versions hold every shape a queue of parents can meet: a cycle beside,
above and below what is visited, and shared parents.  The limits of `ops_exchange` are
passed by its requests, one within them each.  In `cli_calls` three faults
are, for instance, a foreign file, a death and a loss of power, or failures of the operation,
of the close and of the line.
Deadlock is checked in the runs of `WriteProtocol`, `IndependentLedger`, `CommandLine` and
`SnapshotCommand`; the others stop when all their calls have ended or all requests were
made, and their configurations say so.  Symmetry of handles is used only without
liveness.  Each property has a mutant in `PROJECT.json`: a plausible bug, kept
beside the definition it replaces under a comment "Bug:", that breaks it.

Fairness.  `FairSpec` is weak fairness of `Progress(h)`, the steps a process takes
of itself inside an operation.  The code justifies it: `execute` has no loop and
waits only inside SQLite, which answers every statement, with BUSY once the
connection's 5 second timeout has run out (`…/sqlite_store.py`, `timeout=5.0`).
Nothing is assumed of callers, of faults, or of a transaction left behind.
`FairSpec` of `SnapshotSource` is weak fairness of a call's own steps: it opens with
`timeout=0.0`, so no lock is waited for, and the wait for the helper ends with the deadline.
`ParentGraph` has weak fairness of its loop.

## 4. Proofs

Every safety invariant and action property of the runs below, and every refinement, is
proved for all values of the constants, except what is listed at the end of this section.
Sets of processes, calls, requests, places, images, names and identities are arbitrary,
finite or not, and so are the bounds; the runs stay as the cheap check and as the place
where mutants fail.

### Assumptions

| Module | Assumption | Why the code justifies it |
|---|---|---|
| `LedgerData` | `TimesAssumption`, `BlobsAssumption`, `BodyAssumption` | types: a time is a number, a Blob is an identity |
| | `BundleAssumption` | a package has one operation per tuple, one record per identity and the record each operation names as its result, and a request describes each identity once: what `decode_bundle` (`validate_metadata`) and `validate_request` establish before `execute` plans.  That a package also has what else its operations once wrote is neither assumed nor checked by the code |
| `WriteProtocol` | `BoundsAssumption`, `NullsAssumption` | bounds are numbers; "no request" is none |
| `RecordGraph` | `SizeAssumption` | a length is a number |
| `LedgerOps` | `StampsAssumption` | a time is identified by the Ledger that gave it; damage may write others |
| | `RequestsAssumption` | what `validate_request` lets through (`…/validation.py` 365-390): records of the kinds the body names, each well typed, an Artifact well formed, none with a `recorded_at` (`new=True`) |
| | `InputsAssumption` | types of the other inputs: `parse_json` and `validate_record` run before anything of a bundle is used |
| `Initialize` | `NamesAssumption`, `FaultsAssumption` | no file, a foreign file and a call's file are different things |
| `ParentGraph` | `NAssumption` | a graph has a finite number of Versions |
| `CommandLine` | `CommandAssumption`, `FilesAssumption`, `FaultsAssumption` | an export has two outputs, a `read-blob` one, other commands none (`_parser`) |
| `SnapshotCommand` | `ReadOnlyAssumption` | the operations that read are operations, and "none known yet" is not one |
| `SnapshotSource` | `CallsAssumption`, `BoundsAssumption` | a call is not a writer; a backup has a chunk |
| `SnapshotArchive` | `ValuesAssumption` | no file, a torn one, an image and a manifest are different things |
| | `JobsAssumption` | types, and: publish copies under the identity it read (`…/recovery.py` 227), so its expected manifest has the identity of its path; and a path is used for generations or for restored databases, not for both |

The last clause of `JobsAssumption` is the one that is not in the code but in its use: an
operator who restores into the path of a generation that is being made, or has
`check_restore` look at it, meets exclusive `mkdir`s and refusals, but `Public` would have
to say which of the two names publishes it.

### `LedgerProofs`

First the code the library ships, `WriteProtocol`.  `TypeOK` alone is not inductive: that the answer of a replay has a time needs `LocalsOK`
(what is in the locals at the points that use them).  `Invariance` is `Spec => []IInv`,
where `IInv` joins

- `TypeInv`;
- `LocksOK`: at most one connection holds a write lock, nothing is locked outside a
  transaction, a call inside its transaction holds the write lock, and a read
  transaction sees the committed state - why nobody's commit intervenes;
- `CallsOK`: an open call belongs to one handle and has no answer;
- `PlanOK`: what was looked up and planned under the write lock still holds when it is
  committed, and the transaction holds exactly what the request would add now -
  inductive only with `LocksOK`, because another handle's commit would break it;
- `KnowledgeOK`: what `committing` and `committed` are evidence of - why each branch of
  the handler may say what it says.

From it follow `Implementation` (every step of `WriteProtocol` is a step of
`IdempotentLedger` or none: `Commit`, and a `CommitFails` that was durable, are
`Land`; every step that tells something is `Answer`; `Ask` is `Ask`),
`HonestAnswers`, `ReadsAreStable`, `AnswersRelease`, `OneResultEach`,
`EffectsAreComplete` and `NoFalseAlarm`.

`EffectsAreComplete` is about the calls that became durable here: each is there with its operation,
its records and the history it brought, and there is nothing that none of them wrote or brought.  Of
an imported operation it says that its result is there, which decoding checks, and no more.
`NoFalseAlarm` says when `execute` may tell `INTEGRITY_FAILURE`: of a damaged Ledger; of a call that
is wrong itself (bytes that are not their Blob's, a reference that does not resolve), which is then
`not_committed`; or, `committed`, of a replay of an operation that only a package brought, whose records
nobody compared.  So a race never does, and what was written here is always found again.

Where the code of the second implementation differs it still takes a step of
`WriteProtocol` (`LikeWriteProtocol`): its look at the whole graph before a plan refuses
what a plan would refuse, its handler gives the same answers.  One step is not such:
`LeaveView`, a read whose last ROLLBACK raises.  It keeps `IInv`; that the handler,
which passes an exception's code on with `committed`, may do so needs `HandlerOK`, what can
be raised after a matching fingerprint was found.  So `SecondImplementation` and its
corollaries follow from the lemmas about `WriteProtocol`.

### `InitializeProofs`

`NeverHalfMade` is not inductive: the file that is linked must be known whole and synced
before.  `FileOK` follows a call's file along its points, and says of any file that has a
name, now or after a loss of power, that it is whole, synced and past its link; `NameOK`
that no call takes the name of another away; `HandleOK` that the file opened is the one
tested before and after; `SidecarOK` that a call that goes on past the second look did not
have an old sidecar beside its path; and that a private directory is there after a success only
if power was lost since.  Then `WholeOrNothing`, `OwnFile`, `OneSucceeds` and
`NothingRecovered`.

### `SnapshotArchiveProofs`

The invariant joins `JobOK` and `KnowledgeOK` (what a call knows at each point, and what
`attempted` and `linked` are evidence of), `DirectoryOK`, `OwnersOK` (a directory is filled by
the one call that made it: of two that found it absent, `mkdir` let one through),
`TargetOK` and `StageOK` (what that call finds there, and on the disk, as long as nobody
spoils it), `GenerationOK` and `RestoredOK` (what is there after it ended, however that
was, losses of power included: a marker is never on the disk without what it binds),
`InputOK` and `StampOK` (what was read was linked by some call, and has not changed while
its stamp has not).  Each is needed for the next: that a directory keeps what its owner put in it
needs that it has one owner, and a reader may trust a marker only because of what is so of
any directory that has one.  From it `Wholeness`, `HonestPublication`, `SuccessfulRead`, `AcceptedInput`, and
`AtomicPublication`: a link that took effect is `SealedStore`'s sealing, every ending a
truthful answer, all else a stutter.

### `SnapshotSourceProofs`

`WriterOK`, `Alone` and `ReadersOK` say what SQLite's locks keep apart; `SourceOK` that pages of
no commit are on a file that was replaced or beside the journal that betrays them;
`ConnectionOK` that the files bound and opened are one (numbers only grow, so equality at
the end says nothing came between); `HeaderOK` what the helper can have said; `ImageOK`
that what has been copied is the commit pinned at T0 as long as the path has not moved on.
That the copy is of one commit is inductive only with all of these.  From it `OneMoment`,
`KeepsLocks`, `LeavesNothing` and `LeavesSource`.

### `CommandLineProofs`

`LineHonest` is not inductive: what is printed was decided by whatever was raised before.
`CommitOK` and `ErrorOK` say what each local of `_dispatch` is evidence of, `LineOK` and
`ExitOK` what may follow.  `OutputsWhole` needs `OutputsOK`: outputs are made one after the
other, each durable before the next begins, which is why a descriptor finds its package
also after a loss of power, and why names that coincide stop the second output.

### `SnapshotCommandProofs`

`HonestLine`, in the same way: the invariant says of each point what `main`'s locals are
there (`AtPoint`), and of a call about to report that what its handlers will say of the
exception they hold would be honest.

### `ParentGraphProofs`

`RightVerdict`: the loop accepts exactly the acyclic graphs, of any number of Versions.
The invariant follows what has been taken from the queue: `QueueOK` (queued once, with no
parent left), `CountsOK` (`indegree` counts the parents not yet taken, `visited` those
taken), `TakenAcyclic`.  If all are taken, the last conjunct is the answer; if the queue is
empty before, every Version left has a parent left, and what is left has no source.
That the initial queue exists - the Versions without parents in the order of the
records - is an induction on finite sets, done by the well-foundedness of strict inclusion on
the subsets of a finite set.

`DecidesOrdered` joins this with the other modules: `Ordered` of `RecordGraph`, which the planners
of `LedgerOps` ask of records, is what the loop decides of their numbers.

### `LedgerOpsProofs`

`HistoriesWhole` is not inductive: that a Version keeps its bytes needs that the Blob's
record, the payload and the reference all stay.  `IInv` says instead that a Ledger nobody
damaged verifies (`Verify(l) = "OK"`: the index is what the records say, the records are
`Valid`, every payload is what its Blob says) and that the last bundle would be decoded.
It is inductive because every planner validates the whole that would be there; what the
proof adds is that the INSERTs produce exactly that whole (`Inserted`, `InsertKeeps`), that the
operation record they add fits it, and that an append or an import brings the bytes of just those
Blobs that were not there.  No damage ever reaches the bundle: what `export_bundle` checks
is enough (`ExportKeeps`).

Then lemmas about valid graphs: the content of a Version is what its ContentRoot or that one's
Manifest holds (`ContentIs`), every content record is held by a Version (`ContentIsHeld`), ancestors
are Versions of the same Artifact and never the Version itself (`AncestorsAreVersions`,
`NotItsAncestor`, from the least closed set `Ancestors` and `Ordered`), so that valid records with
matching payloads are whole (`GraphIsWhole`).  A Version of one graph has the same content in
any larger one (`SameContent`), and two valid graphs in which an identity stands for one
record make a valid one (`Join`).  From them `WholeHistories`, `WholeBundles`,
`ReadableIfVerified`, `CarriesOver`, `GrowthIsTaken` (a Version and its Artifact alone are a
valid graph, which joins that of the Ledger; a Version with parents is not one alone, and of those it
says nothing) and `ImportsMixNothing` (with equal histories on both
sides, the united records have the same history).

`TypeCorrect` is the type invariant, of damaged rows too.

`OneDamageShows` says of a first damage that verify passes what it can have been: every record is
still under its identity with its references and bytes, the payloads and the index are as they were,
and no tuple is answered with another result.  What it may be is a changed time, a changed field that
nothing refers to, an operation told from its request, or a lost operation: nothing of the kind is
stored twice, so `verify` has nothing to compare it with.  The second half is that no later write
hides what verify found.

It needs, like `RetriesSucceed`, the invariant `Lasting`: while no Ledger is damaged, in each and in the
bundle, what a success wrote and the operations an import brought are still there (`Kept`), and a record
that refers to nothing is the result of an operation or referred to by something (`Anchored`).  A lost
row of a record that refers to something is missed by the index; one that does not is missed by its
anchor, and that is why `Anchored` is needed: the Artifact that only its creation names, and the
receipt of an import of nothing, are found missing by the check of operations alone.  A changed
reference differs from the index, exchanged rows differ from their columns, a payload from its
Blob (`HarmRecordShows` and the lemmas like it).  A Ledger whose payloads are damaged is still
written to, for the planners look only at the bytes they use; but no write repairs it (`StillShows`).

Both theorems assume that a foreign bundle that decodes is `Genuine`, of a Ledger that kept what it
wrote: decoding does not compare an operation with the records it asked for.  The instances of both
runs satisfy that.  Neither bounds the number of damages, but they say less of what comes after the
first: two can hide each other (a parent of a Version lost together with its row of the index is as
if it had never been), and a Ledger whose operation was told from its request verifies and is exported,
so that a retry can be refused where the bundle was imported.  That is why `RetrySucceeds` promises
success only while no Ledger is damaged; that what a retry confirms can be read holds always.

### What is only model-checked

- `EveryCallReturns`, `EverySnapshotEnds`, `Terminates`: liveness under fairness is out of
  the prover's reach.
- What further damage leaves of content is neither proved nor checked: as said above, damages
  can hide each other.

## 5. Not modelled, and why

- The bytes of formats, canonical JSON, SHA-256 and the schema text: data without
  states; equality stands for them.
- The limits of single inputs and of time: each is a code path that ends in a refusal before
  the write (`StatementFails` and `Validate` cover its effect), not a state.  Limits on what
  accumulates are in `LedgerOps`.
- SQLite's own journal recovery: external, modelled by what it promises.
- The explicit storage probe (`preflight` of `…/snapshot_storage.py`): run by an operator on
  a directory of its own, it touches no snapshot.
- A second reader's file stamp changing because the first link of a marker is removed while
  it is read: reading a metadata file is one step here.
- Of the second implementation: its file format and file publication (`storage.py`), its
  validation of shapes and bundles (`contract.py`, `transport.py`) and its command line.  They
  repeat the first one's with fewer checks to keep; a model of them would be the first one's
  with conjuncts left out.
- Acceptance tools, tests and evidence: not part of the program.

## 6. Plan

Every part with a state of its own has its module, and every module its proofs.  What could
come next is the publication of the second implementation's file, and a model of the first one's
`preflight`.
