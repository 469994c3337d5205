--------------------------- MODULE SnapshotSource ---------------------------
(***************************************************************************)
(* snapshot_sqlite.py: taking the image of a live Ledger while handles of  *)
(* this and of other processes write to it, and validating the copy.       *)
(*                                                                         *)
(* The files that come to be at the source path are 1 .. MaxFiles in their *)
(* order: none returns.  A database is the number of its commits; "dirty"  *)
(* is a file with pages of a transaction that is not committed.  A step is *)
(* what a call does between two points where another process, the death of *)
(* its own, a failure or its deadline can intervene.                       *)
(***************************************************************************)
EXTENDS Naturals, FiniteSets

CONSTANTS Snapshots, Writers,
          Host,         \* Host[x]: the process of call or handle x
          MaxFiles,
          Format,       \* Format[f]: "ledger", "wal", "broken", "other", "crowded", "large" or "absent"
          Chunks,       \* steps of a backup
          MaxCommits, MaxFaults,  \* bounds
          NoImage

ASSUME CallsAssumption == Snapshots \cap Writers = {}
ASSUME BoundsAssumption ==
  /\ MaxFiles \in Nat \ {0} /\ Chunks \in Nat \ {0}
  /\ MaxCommits \in Nat /\ MaxFaults \in Nat

VARIABLES
  at,           \* the file at the source path
  beside,       \* its sidecar: "none", "journal", "odd" (not an ordinary journal), "wal"
  content, dirty,
  on,           \* on[x]: the file connection x has open
  lock,         \* lock[x]: what the operating system holds for x on that file
  pc,           \* the point of call or handle x
  bound,        \* bound[s]: the file _source_binding found
  helper, said, \* the header inspection process of s, and its output
  copied,       \* copied[s]: the contents of the chunks copied so far
  chunk,
  t0,           \* t0[s]: what s pinned
  code, told,
  touched,      \* history: the calls whose connection read beside a WAL
  faults

source == <<at, beside, content, dirty>>
locks  == <<on, lock>>
child  == <<helper, said>>
backup == <<copied, chunk, t0>>
answer == <<code, told>>
vars   == <<source, locks, pc, bound, child, backup, answer, touched, faults>>

Files == 1 .. MaxFiles
Conns == Snapshots \cup Writers
Processes == {Host[x] : x \in Conns}
Torn == MaxCommits + 1  \* what a chunk of a dirty file holds

Codes == {"NOT_FOUND", "UNSUPPORTED_FORMAT", "INTEGRITY_FAILURE", "RESOURCE_LIMIT", "BUSY",
          "IO_ERROR", "TIMEOUT", "LOST"}

Promise == INSTANCE AtomicBackup WITH
             asked <- {s \in Snapshots : pc[s] # "new"}, taken <- t0

Init ==
  /\ at \in Files /\ beside \in {"none", "odd", "wal"}
  /\ content = [f \in Files |-> 0]
  /\ dirty = [f \in Files |-> FALSE]
  /\ on = [x \in Conns |-> 0]
  /\ lock = [x \in Conns |-> "none"]
  /\ pc = [x \in Conns |-> IF x \in Writers THEN "idle" ELSE "new"]
  /\ bound = [s \in Snapshots |-> 0]
  /\ helper = [s \in Snapshots |-> "none"]
  /\ said = [s \in Snapshots |-> "nothing"]
  /\ copied = [s \in Snapshots |-> {}]
  /\ chunk = [s \in Snapshots |-> 0]
  /\ t0 = [s \in Snapshots |-> NoImage]
  /\ code = [s \in Snapshots |-> "none"]
  /\ told = [s \in Snapshots |-> Promise!Pending]
  /\ touched = {}
  /\ faults = 0

-----------------------------------------------------------------------------
Fault == faults < MaxFaults /\ faults' = faults + 1

Holders(f, kinds) == {x \in Conns : on[x] = f /\ lock[x] \in kinds}
Writing == {"reserved", "pending", "exclusive"}
Hot(f) == beside = "journal" /\ Holders(f, Writing) = {}

goto(x, point) == pc' = [pc EXCEPT ![x] = point]
raise(s, e) == code' = [code EXCEPT ![s] = e] /\ goto(s, "cleanup")

\* _assert_source_binding
StillBound(s) == at = bound[s] /\ Format[at] # "absent"
NotBound(s) == IF Format[at] = "large" THEN "RESOURCE_LIMIT" ELSE "IO_ERROR"

\* _check_source_sidecars: names are looked at, nothing is opened.
SidecarError == CASE beside = "wal" -> "UNSUPPORTED_FORMAT"
                  [] beside = "odd" -> "INTEGRITY_FAILURE"
                  [] OTHER -> "none"

\* A binding check, a sidecar check, and on to the next point.
CheckSource(s, here, next) ==
  /\ pc[s] = here
  /\ IF ~StillBound(s) THEN raise(s, NotBound(s))
     ELSE IF SidecarError # "none" THEN raise(s, SidecarError)
     ELSE goto(s, next) /\ UNCHANGED code
  /\ UNCHANGED <<source, locks, bound, child, backup, told, touched, faults>>
-----------------------------------------------------------------------------
(* preflight_source: before SQLite may touch the source.                   *)

Ask(s) ==
  /\ pc[s] = "new"
  /\ goto(s, "bind")
  /\ UNCHANGED <<source, locks, bound, child, backup, answer, touched, faults>>

Bind(s) ==
  /\ pc[s] = "bind"
  /\ IF Format[at] \in {"absent", "large"}
     THEN /\ raise(s, IF Format[at] = "large" THEN "RESOURCE_LIMIT" ELSE "NOT_FOUND")
          /\ UNCHANGED bound
     ELSE /\ bound' = [bound EXCEPT ![s] = at]
          /\ IF SidecarError # "none" THEN raise(s, SidecarError)
             ELSE goto(s, "spawn") /\ UNCHANGED code
  /\ UNCHANGED <<source, locks, child, backup, told, touched, faults>>

\* The header is read by a process of its own.
Spawn(s) ==
  /\ pc[s] = "spawn"
  /\ helper' = [helper EXCEPT ![s] = "running"]
  /\ goto(s, "header")
  /\ UNCHANGED <<source, locks, bound, said, backup, answer, touched, faults>>

HeaderOf(f) == CASE Format[f] = "absent" -> "NOT_FOUND"
                 [] Format[f] = "broken" -> "INTEGRITY_FAILURE"
                 [] Format[f] = "wal" -> "UNSUPPORTED_FORMAT"
                 [] OTHER -> "readable"

\* Bug: the calling process reads the header.  Closing the file then drops
\* every lock the process has on it.
HelperReadsInCaller(s) ==
  /\ helper[s] = "running"
  /\ helper' = [helper EXCEPT ![s] = "ended"]
  /\ said' = [said EXCEPT ![s] = IF HeaderOf(at) = "readable" /\ at # bound[s]
                                 THEN "another file" ELSE HeaderOf(at)]
  /\ lock' = [x \in Conns |-> IF Host[x] = Host[s] /\ on[x] = at THEN "none" ELSE lock[x]]
  /\ UNCHANGED <<source, on, pc, bound, backup, answer, touched, faults>>

\* _header_result, in the helper.
HelperReads(s) ==
  /\ helper[s] = "running"
  /\ helper' = [helper EXCEPT ![s] = "ended"]
  /\ said' = [said EXCEPT ![s] = IF HeaderOf(at) = "readable" /\ at # bound[s]
                                 THEN "another file" ELSE HeaderOf(at)]
  /\ UNCHANGED <<source, locks, pc, bound, backup, answer, touched, faults>>

\* The helper ends without a valid result.
HelperFails(s) ==
  /\ helper[s] = "running"
  /\ Fault
  /\ helper' = [helper EXCEPT ![s] = "ended"]
  /\ said' = [said EXCEPT ![s] = "IO_ERROR"]
  /\ UNCHANGED <<source, locks, pc, bound, backup, answer, touched>>

\* All output is read and the process waited for.
ReadHeader(s) ==
  /\ pc[s] = "header" /\ helper[s] = "ended"
  /\ helper' = [helper EXCEPT ![s] = "reaped"]
  /\ IF said[s] = "readable" THEN goto(s, "rebind") /\ UNCHANGED code
     ELSE raise(s, IF said[s] = "another file" THEN "IO_ERROR" ELSE said[s])
  /\ UNCHANGED <<source, locks, bound, said, backup, told, touched, faults>>

\* Bug: the deadline is looked at only when the helper has ended.
HeaderTimeoutEnded(s) ==
  /\ pc[s] = "header" /\ helper[s] = "ended"
  /\ helper' = [helper EXCEPT ![s] = "reaped"]
  /\ raise(s, "TIMEOUT")
  /\ UNCHANGED <<source, locks, bound, said, backup, told, touched, faults>>

\* The deadline: a helper that still runs is killed, and it is reaped.
HeaderTimeout(s) ==
  /\ pc[s] = "header" /\ helper[s] \in {"running", "ended"}
  /\ helper' = [helper EXCEPT ![s] = "reaped"]
  /\ raise(s, "TIMEOUT")
  /\ UNCHANGED <<source, locks, bound, said, backup, told, touched, faults>>

Rebind(s) == CheckSource(s, "rebind", "precheck")
-----------------------------------------------------------------------------
(* snapshot_database                                                       *)

Precheck(s) == CheckSource(s, "precheck", "connect")

Connect(s) ==
  /\ pc[s] = "connect"
  /\ IF Format[at] = "absent" THEN raise(s, "IO_ERROR") /\ UNCHANGED on
     ELSE /\ on' = [on EXCEPT ![s] = at]
          /\ goto(s, "connected")
          /\ UNCHANGED code
  /\ UNCHANGED <<source, lock, bound, child, backup, told, touched, faults>>

Recheck(s) ==
  /\ pc[s] = "connected"
  /\ IF StillBound(s) THEN goto(s, "begin") /\ UNCHANGED code ELSE raise(s, NotBound(s))
  /\ UNCHANGED <<source, locks, bound, child, backup, told, touched, faults>>

\* Bug: no transaction spans the backup.
BeginUnpinned(s) ==
  /\ pc[s] = "begin"
  /\ IF Holders(on[s], {"pending", "exclusive"}) # {}
     THEN raise(s, "BUSY") /\ UNCHANGED t0
     ELSE IF Hot(on[s]) THEN raise(s, "INTEGRITY_FAILURE") /\ UNCHANGED t0
     ELSE /\ t0' = [t0 EXCEPT ![s] = [file |-> on[s], commits |-> content[on[s]]]]
          /\ goto(s, "format")
          /\ UNCHANGED code
  /\ UNCHANGED <<source, locks, bound, child, copied, chunk, told, touched, faults>>

\* Bug: a source that needs recovery is recovered.
BeginRecovering(s) ==
  /\ pc[s] = "begin"
  /\ IF Holders(on[s], {"pending", "exclusive"}) # {}
     THEN raise(s, "BUSY") /\ UNCHANGED <<lock, t0, beside, dirty>>
     ELSE /\ IF Hot(on[s]) THEN beside' = "none" /\ dirty' = [dirty EXCEPT ![on[s]] = FALSE]
                           ELSE UNCHANGED <<beside, dirty>>
          /\ lock' = [lock EXCEPT ![s] = "shared"]
          /\ t0' = [t0 EXCEPT ![s] = [file |-> on[s], commits |-> content[on[s]]]]
          /\ goto(s, "format")
          /\ UNCHANGED code
  /\ UNCHANGED <<at, content, on, bound, child, copied, chunk, told, touched, faults>>

\* BEGIN and the first real read: T0.  A read-only connection neither
\* recovers a hot journal nor can it keep off a WAL that is there.
Begin(s) ==
  /\ pc[s] = "begin"
  /\ IF beside = "wal" \/ Format[on[s]] = "wal"
     THEN touched' = touched \cup {s} ELSE UNCHANGED touched
  /\ IF Holders(on[s], {"pending", "exclusive"}) # {}
     THEN raise(s, "BUSY") /\ UNCHANGED <<lock, t0>>
     ELSE IF Hot(on[s]) THEN raise(s, "INTEGRITY_FAILURE") /\ UNCHANGED <<lock, t0>>
     ELSE /\ lock' = [lock EXCEPT ![s] = "shared"]
          /\ t0' = [t0 EXCEPT ![s] = [file |-> on[s], commits |-> content[on[s]]]]
          /\ goto(s, "format")
          /\ UNCHANGED code
  /\ UNCHANGED <<source, on, bound, child, copied, chunk, told, faults>>

\* _format_and_budget, in the same view.
CheckFormat(s) ==
  /\ pc[s] = "format"
  /\ CASE Format[on[s]] = "ledger" -> goto(s, "copy") /\ UNCHANGED code
       [] Format[on[s]] = "crowded" -> raise(s, "RESOURCE_LIMIT")
       [] OTHER -> raise(s, "UNSUPPORTED_FORMAT")
  /\ UNCHANGED <<source, locks, bound, child, backup, told, touched, faults>>

\* One step of Connection.backup into the private target.
CopyChunk(s) ==
  /\ pc[s] = "copy"
  /\ copied' = [copied EXCEPT ![s] = @ \cup {IF dirty[on[s]] THEN Torn ELSE content[on[s]]}]
  /\ chunk' = [chunk EXCEPT ![s] = @ + 1]
  /\ goto(s, IF chunk[s] + 1 = Chunks THEN "lastcheck" ELSE "copy")
  /\ UNCHANGED <<source, locks, bound, child, t0, answer, touched, faults>>

\* The target is closed and the source looked at for the last time.
LastCheck(s) ==
  /\ pc[s] = "lastcheck"
  /\ IF StillBound(s) THEN goto(s, "close") /\ UNCHANGED code ELSE raise(s, NotBound(s))
  /\ UNCHANGED <<source, locks, bound, child, backup, told, touched, faults>>

\* Bug: the source is closed only when the copy has been validated.
CloseSourceLater(s) ==
  /\ pc[s] = "close"
  /\ goto(s, "validate")
  /\ UNCHANGED <<source, locks, bound, child, backup, answer, touched, faults>>

CloseSource(s) ==
  /\ pc[s] = "close"
  /\ lock' = [lock EXCEPT ![s] = "none"]
  /\ on' = [on EXCEPT ![s] = 0]
  /\ goto(s, "validate")
  /\ UNCHANGED <<source, bound, child, backup, answer, touched, faults>>

\* validate_database.  A mixture of commits may pass it or not.
Validate(s) ==
  /\ pc[s] = "validate"
  /\ \/ \E v \in copied[s] :
          /\ told' = [told EXCEPT ![s] = [code |-> "OK", image |-> [file |-> bound[s], commits |-> v]]]
          /\ goto(s, "done")
          /\ UNCHANGED code
     \/ copied[s] # {t0[s].commits} /\ raise(s, "INTEGRITY_FAILURE") /\ UNCHANGED told
  /\ UNCHANGED <<source, locks, bound, child, backup, touched, faults>>

Running(s) == pc[s] \notin {"new", "cleanup", "done"}

\* A statement or a system call fails, or a checkpoint finds the deadline passed.
Fail(s) ==
  /\ Running(s) /\ pc[s] # "header"
  /\ Fault
  /\ \E e \in {"IO_ERROR", "TIMEOUT"} : raise(s, e)
  /\ UNCHANGED <<source, locks, bound, child, backup, told, touched>>

\* _close_connections: each is closed whatever becomes of the other, and the
\* first error is the one that is told.
CleanUp(s) ==
  /\ pc[s] = "cleanup"
  /\ on' = [on EXCEPT ![s] = 0]
  /\ lock' = [lock EXCEPT ![s] = "none"]
  /\ told' = [told EXCEPT ![s] = [code |-> code[s], image |-> NoImage]]
  /\ goto(s, "done")
  /\ UNCHANGED <<source, bound, child, backup, code, touched, faults>>
-----------------------------------------------------------------------------
(* The Ledger handles that write meanwhile (WriteProtocol), and the rest.  *)

\* BEGIN IMMEDIATE and the INSERTs.  Whoever begins beside a hot journal
\* recovers the database first, which needs it alone.
StartWriting(w) ==
  /\ pc[w] = "idle"
  /\ Format[at] = "ledger" /\ beside \in {"none", "journal"}
  /\ Holders(at, Writing) = {}
  /\ Hot(at) => Holders(at, {"shared"}) = {}
  /\ on' = [on EXCEPT ![w] = at]
  /\ lock' = [lock EXCEPT ![w] = "reserved"]
  /\ dirty' = [dirty EXCEPT ![at] = FALSE]
  /\ beside' = "journal"
  /\ goto(w, "writing")
  /\ UNCHANGED <<at, content, bound, child, backup, answer, touched, faults>>

\* COMMIT first keeps new readers off, then needs to be alone.
StartCommit(w) ==
  /\ pc[w] = "writing"
  /\ lock' = [lock EXCEPT ![w] = "pending"]
  /\ goto(w, "committing")
  /\ UNCHANGED <<source, on, bound, child, backup, answer, touched, faults>>

WritePages(w) ==
  /\ pc[w] = "committing"
  /\ Holders(on[w], {"shared"}) = {}
  /\ lock' = [lock EXCEPT ![w] = "exclusive"]
  /\ dirty' = [dirty EXCEPT ![on[w]] = TRUE]
  /\ goto(w, "writing pages")
  /\ UNCHANGED <<at, beside, content, on, bound, child, backup, answer, touched, faults>>

EndWriting(w) ==
  /\ beside' = "none"
  /\ on' = [on EXCEPT ![w] = 0]
  /\ lock' = [lock EXCEPT ![w] = "none"]
  /\ goto(w, "idle")

FinishCommit(w) ==
  /\ pc[w] = "writing pages"
  /\ content[on[w]] < MaxCommits
  /\ content' = [content EXCEPT ![on[w]] = @ + 1]
  /\ dirty' = [dirty EXCEPT ![on[w]] = FALSE]
  /\ EndWriting(w)
  /\ UNCHANGED <<at, bound, child, backup, answer, touched, faults>>

RollBack(w) ==
  /\ pc[w] \in {"writing", "committing", "writing pages"}
  /\ dirty' = [dirty EXCEPT ![on[w]] = FALSE]
  /\ EndWriting(w)
  /\ UNCHANGED <<at, content, bound, child, backup, answer, touched, faults>>

\* Process p dies, with all its connections.  The journal of a transaction
\* stays, hot; a helper ends by itself.
Crash(p) ==
  /\ Fault
  /\ LET dead == {x \in Conns : Host[x] = p}
         lost == {s \in Snapshots \cap dead : pc[s] \notin {"new", "done"}}
     IN  /\ on' = [x \in Conns |-> IF x \in dead THEN 0 ELSE on[x]]
         /\ lock' = [x \in Conns |-> IF x \in dead THEN "none" ELSE lock[x]]
         /\ pc' = [x \in Conns |-> CASE x \in lost -> "done"
                                     [] x \in dead \cap Writers -> "idle"
                                     [] OTHER -> pc[x]]
         /\ told' = [s \in Snapshots |-> IF s \in lost THEN [code |-> "LOST", image |-> NoImage]
                                         ELSE told[s]]
         /\ helper' = [s \in Snapshots |-> IF s \in lost THEN "reaped" ELSE helper[s]]
  /\ UNCHANGED <<source, bound, said, backup, code, touched>>

\* Somebody puts the next file at the path, while nobody writes.
Replace(sidecar) ==
  /\ at < MaxFiles
  /\ \A w \in Writers : pc[w] = "idle"
  /\ Fault
  /\ at' = at + 1
  /\ beside' = sidecar
  /\ UNCHANGED <<content, dirty, locks, pc, bound, child, backup, answer, touched>>

Progress(s) ==
  \/ Bind(s) \/ Spawn(s) \/ ReadHeader(s) \/ HeaderTimeout(s) \/ Rebind(s) \/ Precheck(s)
  \/ Connect(s) \/ Recheck(s) \/ Begin(s) \/ CheckFormat(s) \/ CopyChunk(s) \/ LastCheck(s)
  \/ CloseSource(s) \/ Validate(s) \/ CleanUp(s)

Next ==
  \/ \E s \in Snapshots : \/ Ask(s) \/ Progress(s) \/ Fail(s)
                          \/ HelperReads(s) \/ HelperFails(s)
  \/ \E w \in Writers : \/ StartWriting(w) \/ StartCommit(w) \/ WritePages(w)
                        \/ FinishCommit(w) \/ RollBack(w)
  \/ \E p \in Processes : Crash(p)
  \/ \E sidecar \in {"none", "odd", "wal"} : Replace(sidecar)

Spec == Init /\ [][Next]_vars

\* A call has no unbounded wait: SQLite answers at once (timeout=0.0), and the
\* wait for the helper ends with it or with the deadline.
FairSpec == Spec /\ \A s \in Snapshots : WF_vars(Progress(s))
-----------------------------------------------------------------------------
Points == {"new", "bind", "spawn", "header", "rebind", "precheck", "connect", "connected",
           "begin", "format", "copy", "lastcheck", "close", "validate", "cleanup", "done",
           "idle", "writing", "committing", "writing pages"}

TypeOK ==
  /\ at \in Files
  /\ beside \in {"none", "journal", "odd", "wal"}
  /\ content \in [Files -> 0 .. MaxCommits]
  /\ dirty \in [Files -> BOOLEAN]
  /\ on \in [Conns -> Files \cup {0}]
  /\ lock \in [Conns -> Writing \cup {"none", "shared"}]
  /\ pc \in [Conns -> Points]
  /\ bound \in [Snapshots -> Files \cup {0}]
  /\ helper \in [Snapshots -> {"none", "running", "ended", "reaped"}]
  /\ said \in [Snapshots -> Codes \cup {"nothing", "readable", "another file"}]
  /\ copied \in [Snapshots -> SUBSET (0 .. Torn)]
  /\ chunk \in [Snapshots -> 0 .. Chunks]
  /\ t0 \in [Snapshots -> Promise!Image \cup {NoImage}]
  /\ code \in [Snapshots -> Codes \cup {"none"}]
  /\ told \in [Snapshots -> Promise!Replies]
  /\ touched \subseteq Snapshots
  /\ faults \in 0 .. MaxFaults

\* A lock a connection of this process has on the source is never lost to
\* something this process does: handles that write exclude each other, and
\* what a backup is copying from stays as it was pinned at T0 (the header is
\* read in another process; _read_header).  Pages of a dead writer are in it
\* only once the path, and with it their journal, is another's.
LocksKept ==
  /\ \A w \in Writers : pc[w] # "idle" => lock[w] \in Writing
  /\ \A v, w \in Writers : v # w /\ pc[v] # "idle" /\ pc[w] # "idle" => on[v] # on[w]
  /\ \A s \in Snapshots : pc[s] \in {"format", "copy", "lastcheck", "close"} =>
       content[on[s]] = t0[s].commits /\ (dirty[on[s]] => at # on[s])

\* A call neither delays writers while the copy is validated nor ends with a
\* connection open or its helper about, however it ended
\* (snapshot_database, _cleanup_header_process).
NothingHeldAfter ==
  \A s \in Snapshots : pc[s] \in {"validate", "done"} =>
    lock[s] = "none" /\ on[s] = 0 /\ helper[s] \in {"none", "reaped"}

\* A snapshot changes neither the source nor what is beside it, and reads
\* beside no WAL unless the path was replaced under it; recovery is left to
\* the Ledger's own handles (_check_source_sidecars, mode=ro).
SourceUntouched ==
  [][/\ <<content, dirty, beside>>' # <<content, dirty, beside>> =>
          at' # at \/ \E w \in Writers : pc'[w] # pc[w]
     /\ \A s \in touched' \ touched : at # bound[s]]_vars

\* What is told to be the image was taken from the file the path named when
\* the call began and when its backup ended, at T0.
ImplementsBackup == Promise!Spec

\* Every call ends, whatever its helper, the writers and their locks do.
EverySnapshotEnds == \A s \in Snapshots : pc[s] = "bind" ~> pc[s] = "done"
=============================================================================
