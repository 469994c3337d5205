--------------------------- MODULE WriteProtocol ----------------------------
(***************************************************************************)
(* Ledger.execute (service.py) step by step, by several handles of one     *)
(* database, each in a process of its own, together with the read          *)
(* transactions of the query operations and the SQLite transaction layer   *)
(* under them (journal_mode=DELETE, BEGIN IMMEDIATE, a busy timeout).      *)
(*                                                                         *)
(* A step of a handle is what it does between two points where another     *)
(* handle, a failing statement, an interruption or the death of its        *)
(* process can intervene.  SQLite is external: modelled by its documented  *)
(* locks (NONE < SHARED < RESERVED < PENDING; EXCLUSIVE is held only       *)
(* within the step that commits) and by Connection.in_transaction.         *)
(***************************************************************************)
EXTENDS LedgerData

CONSTANTS Handles,
          MaxCalls,     \* bound: how many calls of execute are made
          MaxFaults,    \* bound: how many faults occur
          Misasked,     \* bound: the requests that also come with wrong inputs
          NoRequest,
          None

ASSUME BoundsAssumption == MaxCalls \in Nat /\ MaxFaults \in Nat

ASSUME NullsAssumption == NoRequest \notin Requests /\ None \notin Operation

VARIABLES
  \* the database file and its transactions
  db,          \* its committed content
  damaged,     \* what stopped being readable: bytes of Blobs, operation rows
               \* (by key), other "metadata"
  lock,        \* lock[h]: the file lock of h's connection
  intx,        \* intx[h]: connection.in_transaction
  txn,         \* txn[h]: what h's transaction has inserted, and for which call
  open,        \* open[h]: h's connection is not closed
  \* the local variables of execute, per handle
  pc, call, supplied, began, committing, committed,
  operation,   \* operation_record
  code,        \* the code of the exception being handled
  seen,        \* what the read transaction of h has read so far
  \* the calls and what their callers know
  asked, reply, ncalls,
  landed,      \* history: the calls whose transaction became durable
  faults       \* faults so far

storage == <<db, damaged, lock, intx, txn>>
local   == <<call, supplied, began, committing, committed, operation, code>>
callers == <<asked, reply, ncalls, landed>>
vars    == <<storage, open, pc, local, seen, callers, faults>>

Ledger == INSTANCE IdempotentLedger

Calls == 1 .. MaxCalls
request(h) == asked[call[h]]
EmptyTxn(c) == [recs |-> {}, ops |-> {}, call |-> c]
NoTxn == EmptyTxn(0)
MetadataRows == Keys \cup {"metadata"}
Supplies == {"good", "extra", "altered", "malformed"}

\* WorkPoints are those inside the transaction.
WorkPoints == {"lookup", "replay", "endreplay", "plan", "records", "operations", "commit"}
ExecutePoints == {"validate", "begin", "lookup", "replay", "endreplay", "plan",
                  "records", "operations", "commit", "ack", "failed"}
ReadPoints == {"read", "readfailed"}
RestPoints == {"idle", "down"}

Init ==
  /\ db = EmptyDatabase
  /\ damaged = {}
  /\ lock = [h \in Handles |-> "none"]
  /\ intx = [h \in Handles |-> FALSE]
  /\ txn = [h \in Handles |-> NoTxn]
  /\ open = [h \in Handles |-> TRUE]
  /\ pc = [h \in Handles |-> "idle"]
  /\ call = [h \in Handles |-> 0]
  /\ supplied = [h \in Handles |-> "good"]
  /\ began = [h \in Handles |-> FALSE]
  /\ committing = [h \in Handles |-> FALSE]
  /\ committed = [h \in Handles |-> FALSE]
  /\ operation = [h \in Handles |-> None]
  /\ code = [h \in Handles |-> "none"]
  /\ seen = [h \in Handles |-> {}]
  /\ asked = [c \in Calls |-> NoRequest]
  /\ reply = [c \in Calls |-> Ledger!Pending]
  /\ ncalls = 0
  /\ landed = {}
  /\ faults = 0

-----------------------------------------------------------------------------
(* SQLite, external: what its statements do to the locks and transactions. *)

Fault == faults < MaxFaults /\ faults' = faults + 1

Writers == {h \in Handles : lock[h] \in {"reserved", "pending"}}
Readers(h) == {g \in Handles \ {h} : lock[g] # "none"}

\* ROLLBACK, an automatic rollback, or the end of the connection: nothing
\* of the transaction remains.
EndTransaction(h) ==
  /\ lock' = [lock EXCEPT ![h] = "none"]
  /\ intx' = [intx EXCEPT ![h] = FALSE]
  /\ txn' = [txn EXCEPT ![h] = NoTxn]

\* A ROLLBACK that raises, with the transaction still there or not.
FailingRollback(h) ==
  /\ Fault
  /\ \/ UNCHANGED <<lock, intx, txn>>
     \/ EndTransaction(h)

RollbackIfActive(h) == IF intx[h] THEN EndTransaction(h) ELSE UNCHANGED <<lock, intx, txn>>

\* BEGIN IMMEDIATE is refused while another connection writes.
BeginImmediate(h) ==
  /\ Writers = {}
  /\ lock' = [lock EXCEPT ![h] = "reserved"]
  /\ intx' = [intx EXCEPT ![h] = TRUE]
  /\ txn' = [txn EXCEPT ![h] = EmptyTxn(call[h])]

\* Bug: no BEGIN, so that each SELECT releases its lock.
BeginReadAutocommit(h) ==
  /\ \A g \in Handles : lock[g] # "pending"
  /\ UNCHANGED <<lock, intx, txn>>

\* The first read of a deferred transaction takes SHARED, unless a writer
\* is waiting to commit.
BeginRead(h) ==
  /\ \A g \in Handles : lock[g] # "pending"
  /\ lock' = [lock EXCEPT ![h] = "shared"]
  /\ intx' = [intx EXCEPT ![h] = TRUE]
  /\ UNCHANGED txn

\* The durable point of COMMIT: the journal is gone, every reader was.
MakeDurable(h) ==
  /\ Readers(h) = {}
  /\ db' = [recs |-> db.recs \cup txn[h].recs, ops |-> db.ops \cup txn[h].ops]
  /\ landed' = landed \cup {txn[h].call}
  /\ EndTransaction(h)

-----------------------------------------------------------------------------
(* execute                                                                 *)

goto(h, point) == pc' = [pc EXCEPT ![h] = point]

raise(h, c) == code' = [code EXCEPT ![h] = c] /\ goto(h, "failed")

\* The call is over and its local variables are gone.
leave(h) ==
  /\ call' = [call EXCEPT ![h] = 0]
  /\ supplied' = [supplied EXCEPT ![h] = "good"]
  /\ began' = [began EXCEPT ![h] = FALSE]
  /\ committing' = [committing EXCEPT ![h] = FALSE]
  /\ committed' = [committed EXCEPT ![h] = FALSE]
  /\ operation' = [operation EXCEPT ![h] = None]
  /\ code' = [code EXCEPT ![h] = "none"]

\* The call returns or raises to its caller.
tell(h, a) ==
  /\ reply' = [reply EXCEPT ![call[h]] = a]
  /\ goto(h, "idle")
  /\ leave(h)
  /\ UNCHANGED <<db, damaged, open, seen, asked, ncalls, landed>>

answer(h, c, state, at, replayed) ==
  tell(h, [code |-> c, state |-> state, at |-> at, replayed |-> replayed])

\* Bug: the commit_state of a read, as initialize and open give it.
refuseAsRead(h, c) == answer(h, c, "not_applicable", Untimed, FALSE)

refuse(h, c) == answer(h, c, "not_committed", Untimed, FALSE)

Ask(h, r, s) ==
  /\ pc[h] = "idle"
  /\ ncalls < MaxCalls
  /\ s # "good" => r \in Misasked
  /\ s \in {"extra", "altered"} => Body[r].kind = "append_version"
  /\ s = "altered" => Reused(r) # {}
  /\ ncalls' = ncalls + 1
  /\ asked' = [asked EXCEPT ![ncalls + 1] = r]
  /\ call' = [call EXCEPT ![h] = ncalls + 1]
  /\ supplied' = [supplied EXCEPT ![h] = s]
  /\ goto(h, "validate")
  /\ UNCHANGED <<storage, began, committing, committed, operation, code, open, seen,
                 reply, landed, faults>>

\* What is wrong with an input by itself: INVALID_INPUT stands for its shape,
\* version and size too; bytes that are not those of the Blob they are
\* announced for, provenance of another Version and a package whose parts
\* disagree are INTEGRITY_FAILURE.
InputErrors(r) ==
  IF Body[r].kind = "create_artifact" THEN {"INVALID_INPUT"}
                                      ELSE {"INVALID_INPUT", "INTEGRITY_FAILURE"}

\* Parse and validate the inputs; refuse a closed handle; claim the
\* transaction only if the connection is not already in one.
Validate(h) ==
  /\ pc[h] = "validate"
  /\ \/ /\ supplied[h] = "malformed"
        /\ \E c \in InputErrors(request(h)) : raise(h, c)
        /\ UNCHANGED began
     \/ /\ supplied[h] # "malformed" /\ ~ open[h]
        /\ raise(h, "IO_ERROR")
        /\ UNCHANGED began
     \/ /\ supplied[h] # "malformed" /\ open[h]
        /\ began' = [began EXCEPT ![h] = ~ intx[h]]
        /\ goto(h, "begin")
        /\ UNCHANGED code
  /\ UNCHANGED <<storage, call, supplied, committing, committed, operation, open, seen,
                 callers, faults>>

\* Bug: no busy timeout.
BeginWithoutTimeout(h) ==
  /\ pc[h] = "begin"
  /\ \/ ~ intx[h] /\ BeginImmediate(h) /\ goto(h, "lookup") /\ UNCHANGED code
     \/ intx[h] /\ raise(h, "IO_ERROR") /\ UNCHANGED <<lock, intx, txn>>
  /\ UNCHANGED <<db, damaged, call, supplied, began, committing, committed, operation,
                 open, seen, callers, faults>>

Begin(h) ==
  /\ pc[h] = "begin"
  /\ \/ ~ intx[h] /\ BeginImmediate(h) /\ goto(h, "lookup") /\ UNCHANGED code
     \/ /\ ~ intx[h] /\ Writers # {}               \* the busy timeout ran out
        /\ raise(h, "BUSY")
        /\ UNCHANGED <<lock, intx, txn>>
     \/ /\ intx[h]                                 \* no transaction within one
        /\ raise(h, "IO_ERROR")
        /\ UNCHANGED <<lock, intx, txn>>
  /\ UNCHANGED <<db, damaged, call, supplied, began, committing, committed, operation,
                 open, seen, callers, faults>>

\* Bug: the idempotency tuple is not looked up.
LookupNothing(h) ==
  /\ pc[h] = "lookup"
  /\ goto(h, "plan")
  /\ UNCHANGED <<storage, local, open, seen, callers, faults>>

\* SELECT by idempotency tuple.  A stored operation that cannot be read is
\* not yet known to be this request's; one with another fingerprint is not.
Lookup(h) ==
  /\ pc[h] = "lookup"
  /\ LET previous == Previous(request(h), db)
     IN  \/ /\ previous = {}
            /\ goto(h, "plan")
            /\ UNCHANGED <<committed, operation, code>>
         \/ /\ previous # {} /\ Body[request(h)].key \in damaged
            /\ raise(h, "INTEGRITY_FAILURE")
            /\ UNCHANGED <<committed, operation>>
         \/ \E o \in previous :
              /\ KeyOf(o) \notin damaged
              /\ IF o.req # request(h)
                 THEN /\ raise(h, "IDEMPOTENCY_CONFLICT")
                      /\ UNCHANGED <<committed, operation>>
                 ELSE /\ operation' = [operation EXCEPT ![h] = o]
                      /\ committed' = [committed EXCEPT ![h] = TRUE]
                      /\ goto(h, "replay")
                      /\ UNCHANGED code
  /\ UNCHANGED <<storage, call, supplied, began, committing, open, seen, callers, faults>>

\* Metadata, indexes and original records come first, then the retransmitted
\* payloads and the stored bytes of the closure, Blob after Blob.  A rejected
\* retransmission clears committed.
CheckReplay(h) ==
  /\ pc[h] = "replay"
  /\ LET readable == MetadataRows \cap damaged = {}
                     /\ ReplayMatches(request(h), db)
         closure == Body[request(h)].closure
         intact == closure \cap damaged = {}
     IN  \/ /\ ~ readable
            /\ raise(h, "INTEGRITY_FAILURE")
            /\ UNCHANGED committed
         \/ /\ readable /\ supplied[h] = "extra"
            /\ raise(h, "INVALID_INPUT")
            /\ committed' = [committed EXCEPT ![h] = FALSE]
         \/ /\ readable /\ supplied[h] = "altered"
            /\ raise(h, "INTEGRITY_FAILURE")
            /\ committed' = [committed EXCEPT ![h] = FALSE]
         \/ /\ readable /\ ~ intact
            /\ \/ supplied[h] \notin {"extra", "altered"}
               \/ /\ supplied[h] = "altered"         \* a Blob before the altered one
                  /\ \E b \in Reused(request(h)) : (closure \ {b}) \cap damaged # {}
            /\ raise(h, "INTEGRITY_FAILURE")
            /\ UNCHANGED committed
         \/ /\ readable /\ supplied[h] \notin {"extra", "altered"} /\ intact
            /\ goto(h, "endreplay")
            /\ UNCHANGED <<code, committed>>
  /\ UNCHANGED <<storage, call, supplied, began, committing, operation, open, seen,
                 callers, faults>>

\* Bug: the replay answers with its read of the tuple still open.
EndReplayOpen(h) ==
  /\ pc[h] = "endreplay"
  /\ answer(h, "COMMITTED", "committed", operation[h].at, TRUE)
  /\ UNCHANGED <<lock, intx, txn, faults>>

\* ROLLBACK of the replay's transaction, then the original result.
EndReplay(h) ==
  /\ pc[h] = "endreplay"
  /\ \/ /\ EndTransaction(h)
        /\ answer(h, "COMMITTED", "committed", operation[h].at, TRUE)
        /\ UNCHANGED faults
     \/ /\ FailingRollback(h)
        /\ raise(h, "IO_ERROR")
        /\ UNCHANGED <<db, damaged, call, supplied, began, committing, committed,
                       operation, open, seen, callers>>

\* Validate what is stored, take the time, and plan the additions on it.
\* Bytes of Blobs that are already owned are read and compared.
Plan(h) ==
  /\ pc[h] = "plan"
  /\ LET r == request(h)
         unreadable == \/ MetadataRows \cap damaged # {}
                       \/ Body[r].closure \cap Owned(db.recs) \cap damaged # {}
     IN  \/ /\ unreadable
            /\ raise(h, "INTEGRITY_FAILURE")
            /\ UNCHANGED operation
         \/ /\ \E c \in Rejections(r, supplied[h], db) : raise(h, c)
            /\ UNCHANGED operation
         \/ /\ ~ unreadable
            /\ Rejections(r, supplied[h], db) = {}
            /\ \E t \in Times :
                 operation' = [operation EXCEPT ![h] = [req |-> r, at |-> t]]
            /\ goto(h, "records")
            /\ UNCHANGED code
  /\ UNCHANGED <<storage, call, supplied, began, committing, committed, open, seen,
                 callers, faults>>

\* Primary key records(id): inserting an owned identity again is an error.
InsertRecords(h) ==
  /\ pc[h] = "records"
  /\ LET new == NewRecords(request(h), db, operation[h].at)
     IN  IF Owned(new) \cap Owned(db.recs) # {}
         THEN raise(h, "INTEGRITY_FAILURE") /\ UNCHANGED txn
         ELSE /\ txn' = [txn EXCEPT ![h].recs = new]
              /\ goto(h, "operations")
              /\ UNCHANGED code
  /\ UNCHANGED <<db, damaged, lock, intx, call, supplied, began, committing, committed,
                 operation, open, seen, callers, faults>>

\* Primary key operations(scope,kind,key).  The last insertion is followed
\* by committing = True.
InsertOperations(h) ==
  /\ pc[h] = "operations"
  /\ LET new == NewOperations(request(h), db, operation[h].at)
     IN  IF \E o \in new, p \in db.ops : KeyOf(o) = KeyOf(p)
         THEN raise(h, "INTEGRITY_FAILURE") /\ UNCHANGED <<txn, committing>>
         ELSE /\ txn' = [txn EXCEPT ![h].ops = new]
              /\ committing' = [committing EXCEPT ![h] = TRUE]
              /\ goto(h, "commit")
              /\ UNCHANGED code
  /\ UNCHANGED <<db, damaged, lock, intx, call, supplied, began, committed, operation,
                 open, seen, callers, faults>>

\* COMMIT needs EXCLUSIVE: with a reader there it keeps PENDING and waits.
CommitWait(h) ==
  /\ pc[h] = "commit"
  /\ lock[h] = "reserved"
  /\ Readers(h) # {}
  /\ lock' = [lock EXCEPT ![h] = "pending"]
  /\ UNCHANGED <<db, damaged, intx, txn, pc, local, open, seen, callers, faults>>

Commit(h) ==
  /\ pc[h] = "commit"
  /\ MakeDurable(h)
  /\ committed' = [committed EXCEPT ![h] = TRUE]
  /\ goto(h, "ack")
  /\ UNCHANGED <<damaged, call, supplied, began, committing, operation, code, open, seen,
                 asked, reply, ncalls, faults>>

\* The busy timeout ran out; the transaction is still active.
CommitBusy(h) ==
  /\ pc[h] = "commit"
  /\ lock[h] = "pending"
  /\ Readers(h) # {}
  /\ raise(h, "BUSY")
  /\ UNCHANGED <<storage, call, supplied, began, committing, committed, operation, open, seen,
                 callers, faults>>

\* COMMIT raises.  An active transaction was not committed; an inactive one
\* was rolled back, or committed with the confirmation lost.
CommitFails(h) ==
  /\ pc[h] = "commit"
  /\ Fault
  /\ \/ UNCHANGED <<db, lock, intx, txn, landed>>
     \/ EndTransaction(h) /\ UNCHANGED <<db, landed>>
     \/ MakeDurable(h)
  /\ raise(h, "IO_ERROR")
  /\ UNCHANGED <<damaged, call, supplied, began, committing, committed, operation, open, seen,
                 asked, reply, ncalls>>

Acknowledge(h) ==
  /\ pc[h] = "ack"
  /\ answer(h, "COMMITTED", "committed", operation[h].at, FALSE)
  /\ UNCHANGED <<lock, intx, txn, faults>>

\* Any statement between BEGIN and COMMIT can raise, SQLite rolling the
\* transaction back on its own or not.
StatementFails(h) ==
  /\ pc[h] \in {"lookup", "replay", "plan", "records", "operations"}
  /\ Fault
  /\ raise(h, "IO_ERROR")
  /\ UNCHANGED <<lock, intx, txn>> \/ EndTransaction(h)
  /\ UNCHANGED <<db, damaged, call, supplied, began, committing, committed, operation,
                 open, seen, callers>>
-----------------------------------------------------------------------------
(* execute: the exception handler                                          *)

\* A known commit stays committed, whatever happens to the cleanup.
ReportCommitted(h) ==
  /\ pc[h] = "failed"
  /\ committed[h]
  /\ \/ RollbackIfActive(h) /\ UNCHANGED faults
     \/ intx[h] /\ FailingRollback(h)
  /\ answer(h, IF code[h] \in {"INTEGRITY_FAILURE", "IO_ERROR", "INTERNAL_ERROR"}
               THEN code[h] ELSE "INTERNAL_ERROR",
            "committed", operation[h].at, FALSE)

\* This call began no transaction.
ReportUnstarted(h) ==
  /\ pc[h] = "failed"
  /\ ~ committed[h] /\ ~ began[h]
  /\ refuse(h, code[h])
  /\ UNCHANGED <<lock, intx, txn, faults>>

\* Bug: an inactive transaction is taken for one that was rolled back.
ReportInactive(h) ==
  /\ pc[h] = "failed"
  /\ ~ committed[h] /\ began[h]
  /\ RollbackIfActive(h)
  /\ refuse(h, code[h])
  /\ UNCHANGED faults

\* The transaction is gone and was not being committed, or ROLLBACK is
\* confirmed by in_transaction.
ReportRolledBack(h) ==
  /\ pc[h] = "failed"
  /\ ~ committed[h] /\ began[h]
  /\ intx[h] \/ ~ committing[h]
  /\ RollbackIfActive(h)
  /\ refuse(h, code[h])
  /\ UNCHANGED faults

ReportUnknown(h) ==
  /\ pc[h] = "failed"
  /\ ~ committed[h] /\ began[h]
  /\ \/ ~ intx[h] /\ committing[h] /\ UNCHANGED <<lock, intx, txn, faults>>
     \/ intx[h] /\ FailingRollback(h)
  /\ answer(h, "DURABILITY_UNKNOWN", "unknown", Untimed, FALSE)

\* KeyboardInterrupt and the like, wherever it strikes: cleaned up after and
\* passed on; it is no evidence about the commit.
Interrupt(h) ==
  /\ pc[h] \in ExecutePoints
  /\ faults < MaxFaults
  /\ \/ /\ IF began[h] THEN RollbackIfActive(h) ELSE UNCHANGED <<lock, intx, txn>>
        /\ faults' = faults + 1
     \/ /\ began[h] /\ intx[h]
        /\ faults' = faults + 1
        /\ UNCHANGED <<lock, intx, txn>>
  /\ tell(h, Ledger!Interrupted)
-----------------------------------------------------------------------------
(* _read: the query operations, each in one read transaction.              *)

\* BEGIN and the first SELECT.  BEGIN alone takes no lock, so a SELECT that
\* is refused leaves a transaction to clean up.
Read(h) ==
  /\ pc[h] = "idle"
  /\ open[h] /\ ~ intx[h]
  /\ \/ /\ BeginRead(h)
        /\ seen' = [seen EXCEPT ![h] = db.ops]
        /\ goto(h, "read")
     \/ /\ \E g \in Handles : lock[g] = "pending"
        /\ intx' = [intx EXCEPT ![h] = TRUE]
        /\ goto(h, "readfailed")
        /\ UNCHANGED <<lock, txn, seen>>
  /\ UNCHANGED <<db, damaged, open, local, callers, faults>>

ReadFails(h) ==
  /\ pc[h] = "read"
  /\ Fault
  /\ UNCHANGED <<lock, intx, txn>> \/ EndTransaction(h)
  /\ goto(h, "readfailed")
  /\ UNCHANGED <<db, damaged, open, local, seen, callers>>

\* The later SELECTs of the operation, then ROLLBACK.
EndRead(h) ==
  /\ pc[h] = "read"
  /\ \/ /\ EndTransaction(h)
        /\ seen' = [seen EXCEPT ![h] = {}]
        /\ goto(h, "idle")
        /\ UNCHANGED faults
     \/ FailingRollback(h) /\ goto(h, "readfailed") /\ UNCHANGED seen
  /\ UNCHANGED <<db, damaged, open, local, callers>>

CleanUpRead(h) ==
  /\ pc[h] = "readfailed"
  /\ \/ RollbackIfActive(h) /\ UNCHANGED faults
     \/ intx[h] /\ FailingRollback(h)
  /\ seen' = [seen EXCEPT ![h] = {}]
  /\ goto(h, "idle")
  /\ UNCHANGED <<db, damaged, open, local, callers>>
-----------------------------------------------------------------------------
(* The handles' callers and processes, and the storage medium.             *)

\* Bug: closing commits what was left, as leaving "with connection" does.
CloseCommitting(h) ==
  /\ pc[h] = "idle"
  /\ open' = [open EXCEPT ![h] = FALSE]
  /\ IF txn[h].call # 0 THEN MakeDurable(h) ELSE EndTransaction(h) /\ UNCHANGED <<db, landed>>
  /\ UNCHANGED <<damaged, pc, local, seen, asked, reply, ncalls, faults>>

\* Closing the connection discards a transaction that was left on it.
Close(h) ==
  /\ pc[h] = "idle"
  /\ open' = [open EXCEPT ![h] = FALSE]
  /\ EndTransaction(h)
  /\ UNCHANGED <<db, damaged, pc, local, seen, callers, faults>>

\* The process dies.  Its locks go, and the next to open the file finds no
\* trace of a transaction that was not durable.
Crash(h) ==
  /\ pc[h] # "down"
  /\ Fault
  /\ open' = [open EXCEPT ![h] = FALSE]
  /\ EndTransaction(h)
  /\ goto(h, "down")
  /\ reply' = IF pc[h] \in ExecutePoints
              THEN [reply EXCEPT ![call[h]] = Ledger!Lost] ELSE reply
  /\ leave(h)
  /\ seen' = [seen EXCEPT ![h] = {}]
  /\ UNCHANGED <<db, damaged, asked, ncalls, landed>>

Reopen(h) ==
  /\ pc[h] \in RestPoints
  /\ ~ open[h]
  /\ open' = [open EXCEPT ![h] = TRUE]
  /\ goto(h, "idle")
  /\ UNCHANGED <<storage, local, seen, callers, faults>>

Damage ==
  /\ Fault
  /\ \E x \in (Blobs \cap Owned(db.recs)) \cup {KeyOf(o) : o \in db.ops} \cup {"metadata"} :
       damaged' = damaged \cup {x}
  /\ UNCHANGED <<db, lock, intx, txn, open, pc, local, seen, callers>>

\* What a process does of itself once it is inside an operation.
Progress(h) ==
  \/ Validate(h) \/ Begin(h) \/ Lookup(h)
  \/ CheckReplay(h) \/ EndReplay(h)
  \/ Plan(h) \/ InsertRecords(h) \/ InsertOperations(h)
  \/ CommitWait(h) \/ Commit(h) \/ CommitBusy(h) \/ Acknowledge(h)
  \/ ReportCommitted(h) \/ ReportUnstarted(h) \/ ReportRolledBack(h) \/ ReportUnknown(h)
  \/ EndRead(h) \/ CleanUpRead(h)

Caller(h) ==
  \/ \E r \in Requests, s \in Supplies : Ask(h, r, s)
  \/ Read(h) \/ Close(h) \/ Reopen(h)

Trouble(h) ==
  \/ CommitFails(h) \/ StatementFails(h) \/ ReadFails(h) \/ Interrupt(h) \/ Crash(h)

Next == Damage \/ \E h \in Handles : Progress(h) \/ Caller(h) \/ Trouble(h)

Spec == Init /\ [][Next]_vars

\* A process inside an operation runs on; SQLite answers each statement, if
\* only with BUSY once its timeout has run out.  Callers owe nothing.
FairSpec == Spec /\ \A h \in Handles : WF_vars(Progress(h))
-----------------------------------------------------------------------------
StorageTyped ==
  /\ db \in Database
  /\ damaged \subseteq Blobs \cup MetadataRows
  /\ lock \in [Handles -> {"none", "shared", "reserved", "pending"}]
  /\ intx \in [Handles -> BOOLEAN]
  /\ txn \in [Handles -> [recs : SUBSET Record, ops : SUBSET Operation,
                          call : Calls \cup {0}]]
  /\ faults \in 0 .. MaxFaults

LocalTyped ==
  /\ open \in [Handles -> BOOLEAN]
  /\ pc \in [Handles -> ExecutePoints \cup ReadPoints \cup RestPoints]
  /\ call \in [Handles -> Calls \cup {0}]
  /\ supplied \in [Handles -> Supplies]
  /\ began \in [Handles -> BOOLEAN]
  /\ committing \in [Handles -> BOOLEAN]
  /\ committed \in [Handles -> BOOLEAN]
  /\ operation \in [Handles -> Operation \cup {None}]
  /\ code \in [Handles -> Ledger!Codes \cup {"none"}]
  /\ seen \in [Handles -> SUBSET Operation]

CallersTyped ==
  /\ asked \in [Calls -> Requests \cup {NoRequest}]
  /\ reply \in [Calls -> Ledger!Replies]
  /\ ncalls \in 0 .. MaxCalls
  /\ landed \subseteq Calls

TypeOK == StorageTyped /\ LocalTyped /\ CallersTyped

ErrorCodes == Ledger!Codes \ {"COMMITTED", "DURABILITY_UNKNOWN"}

\* The strengthening of the type invariant: what is in the local variables
\* at the points that use them.
LocalsOK ==
  \A h \in Handles :
    /\ pc[h] = "failed" => code[h] \in ErrorCodes
    /\ pc[h] \in {"replay", "endreplay", "records", "operations", "commit", "ack"}
         => operation[h] \in Operation
    /\ committed[h] => operation[h] \in Operation
    /\ pc[h] \in ExecutePoints => call[h] \in Calls /\ asked[call[h]] # NoRequest
    /\ pc[h] \in WorkPoints => txn[h].call = call[h]

\* One connection writes at a time, nothing is locked outside a transaction,
\* and a handle inside its transaction holds what it needs.
LocksOK ==
  /\ \A g, h \in Writers : g = h
  /\ \A h \in Handles :
       /\ lock[h] # "none" => intx[h]
       /\ pc[h] = "begin" => (began[h] <=> ~ intx[h])
       /\ pc[h] = "ack" => ~ intx[h]
       /\ pc[h] \in WorkPoints => h \in Writers /\ began[h]
       /\ pc[h] = "read" => lock[h] = "shared" /\ seen[h] = db.ops

\* Calls are numbered as they are made; one that is being executed has not
\* been answered and is executed by one handle.
CallsOK ==
  /\ \A c \in Calls : asked[c] # NoRequest <=> c <= ncalls
  /\ \A c \in Calls : asked[c] = NoRequest => reply[c] = Ledger!Pending /\ c \notin landed
  /\ \A h \in Handles : pc[h] \in ExecutePoints => reply[call[h]] = Ledger!Pending
  /\ \A g, h \in Handles :
       pc[g] \in ExecutePoints /\ pc[h] \in ExecutePoints /\ call[g] = call[h] => g = h

\* What execute knows about durability at each point.
KnowledgeOK ==
  \A h \in Handles :
    /\ pc[h] \in ExecutePoints \ {"ack", "failed"} => call[h] \notin landed
    /\ pc[h] = "ack" => call[h] \in landed
    /\ pc[h] \in {"replay", "endreplay", "ack"} => committed[h]
    /\ committed[h] => /\ pc[h] \in {"replay", "endreplay", "ack", "failed"}
                       /\ operation[h] \in db.ops
                       /\ operation[h].req = request(h)
    /\ committing[h] => pc[h] \in {"commit", "ack", "failed"}
    /\ pc[h] = "commit" => committing[h]
    /\ pc[h] = "failed" /\ (~ began[h] \/ intx[h] \/ ~ committing[h]) => call[h] \notin landed

\* What was looked up and planned under the write lock still holds when it is
\* committed.
PlanOK ==
  \A h \in Handles :
    /\ pc[h] \in {"plan", "records", "operations", "commit"} => Previous(request(h), db) = {}
    /\ pc[h] \in {"records", "operations", "commit"} =>
         /\ Rejections(request(h), "good", db) = {}
         /\ operation[h].req = request(h)
    /\ pc[h] \in {"operations", "commit"} =>
         txn[h].recs = NewRecords(request(h), db, operation[h].at)
    /\ pc[h] = "commit" => txn[h].ops = NewOperations(request(h), db, operation[h].at)

\* commit_state is honest about every call ever answered, then and for ever
\* after: committed names a durable operation of that very request with its
\* original time, not_committed means this call's own transaction never
\* became durable, a first COMMITTED is this call's and a replayed one is
\* not, and BUSY is never said of a commit (execute, the answers of all
\* paths; _error; the handler at 403-439).
CommitStateHonest ==
  \A c \in Calls : asked[c] # NoRequest => Ledger!Truthful(c, reply[c])

\* All that operation o wrote is in d.
Whole(o, d) ==
  /\ Stamped(o.req, o.at) \cup Body[o.req].carried \subseteq d.recs
  /\ Body[o.req].history \subseteq d.ops

\* All or nothing, for readers, later calls and after a restart: a call whose
\* transaction became durable is there with its operation, all its records
\* and all the history it brought; every record and operation there is one
\* that such a call wrote or brought; and an operation's result is there, of
\* an imported one too (insertion order 389-398 and the one transaction
\* around it).  What else an imported operation once wrote is not compared.
EffectsComplete ==
  /\ \A c \in landed : \E o \in db.ops : o.req = asked[c] /\ Whole(o, db)
  /\ \A o \in db.ops : \E c \in landed : o.req = asked[c] \/ o \in Body[asked[c]].history
  /\ \A x \in db.recs : \E c \in landed : \/ x \in Body[asked[c]].carried
                                          \/ x.by = asked[c] /\ x.id \in Owned(Body[asked[c]].timed)
  /\ \A o \in db.ops : Body[o.req].result \in Owned(db.recs)

\* An idempotency tuple has one result and an owned identity one record,
\* whichever handles, retries and imports raced for it (Previous looked up
\* and the plan made under the write lock; the planners' conflict tests).
OneResultPerIdentity ==
  /\ \A o, p \in db.ops : Body[o.req].key = Body[p.req].key => o = p
  /\ \A x, y \in db.recs : x.id = y.id => x = y

\* INTEGRITY_FAILURE has a cause its caller can act on: the Ledger was
\* damaged, or the call itself is wrong (bytes that are not their Blob's, a
\* reference that does not resolve) and was not committed, or it repeats an
\* operation that only a package brought, whose records nobody compared.  No
\* race of writers makes execute take a healthy Ledger for a corrupt one by
\* running into a uniqueness constraint or missing what it wrote itself, and
\* no wrong retransmission makes it report a commit as damaged.
NoFalseIntegrityFailure ==
  [][\A h \in Handles :
       /\ pc[h] \in ExecutePoints
       /\ pc'[h] = "idle"
       /\ reply'[call[h]].code = "INTEGRITY_FAILURE"
       => \/ damaged # {}
          \/ /\ reply'[call[h]].state = "not_committed"
             /\ supplied[h] \in {"altered", "malformed"} \/ Dangling(request(h), db)
          \/ /\ reply'[call[h]].state = "committed"
             /\ \A c \in landed : asked[c] # request(h)]_vars

\* What a read transaction has read stays what is committed until it ends:
\* no commit slips between its SELECTs (_read; verify and export_bundle put
\* metadata, indexes and payloads of one state together).
StableReads == \A h \in Handles : pc[h] = "read" => seen[h] = db.ops

\* A call that began its own transaction and answers with a success, BUSY or
\* any other not_committed has ended it: what stays locked behind an idle
\* handle was reported as unknown, as a committed error or by an exception
\* (the handler's confirmed rollback, and the replay's).
AnswerReleasesTransaction ==
  [][\A h \in Handles :
       /\ began[h]
       /\ pc[h] \in ExecutePoints
       /\ pc'[h] = "idle"
       /\ \/ reply'[call[h]].code = "COMMITTED"
          \/ reply'[call[h]].state = "not_committed"
       => ~ intx'[h] /\ lock'[h] = "none"]_vars

\* The Ledger is what its callers were promised.
ImplementsLedger == Ledger!Spec

\* Every call is answered, or its process died: writers never wait on one
\* another, on readers or on a transaction left behind for ever.
EveryCallReturns == \A c \in Calls : asked[c] # NoRequest ~> reply[c] # Ledger!Pending
=============================================================================
