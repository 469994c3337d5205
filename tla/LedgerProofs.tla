---------------------------- MODULE LedgerProofs ----------------------------
(***************************************************************************)
(* The two implementations are the ledger their callers were promised, for *)
(* every number of handles, calls and faults and every table of requests.  *)
(*                                                                         *)
(* First WriteProtocol.  Its inductive invariant IInv joins to the types   *)
(* what is true of locks (LocksOK), of calls (CallsOK), of a plan under    *)
(* the write lock (PlanOK) and of what execute has noted about the commit  *)
(* (KnowledgeOK); from it every step of WriteProtocol is a step of         *)
(* IdempotentLedger, or none.                                              *)
(*                                                                         *)
(* Then IndependentLedger.  Where its code goes another way it still takes *)
(* a step of WriteProtocol, but for one (LikeWriteProtocol), so that IInv  *)
(* serves it too, joined by what its handler relies on when it answers     *)
(* committed with the code of the exception as it is (HandlerOK).          *)
(***************************************************************************)
EXTENDS IndependentLedger, TLAPS

-----------------------------------------------------------------------------
(* Type correctness.                                                       *)

TypeInv == TypeOK /\ LocalsOK

LEMMA TypeInit == Init => TypeInv
BY BoundsAssumption
   DEF Init, TypeInv, TypeOK, StorageTyped, LocalTyped, CallersTyped, LocalsOK,
       EmptyDatabase, Database, NoTxn, EmptyTxn, Calls, ExecutePoints, WorkPoints, ReadPoints,
       RestPoints, Supplies, Ledger!Replies, Ledger!Pending

LEMMA NewTyped ==
  ASSUME NEW r \in Requests, NEW d \in Database, NEW t \in Times
  PROVE  /\ NewRecords(r, d, t) \in SUBSET Record
         /\ NewOperations(r, d, t) \in SUBSET Operation
<1>1. Body[r].carried \in SUBSET Record
  BY BodyAssumption
<1>2. Body[r].history \in SUBSET Operation
  BY BodyAssumption
<1>3. Body[r].timed \in SUBSET [id : Ids, art : Ids \cup {NoArtifact}]
  BY BodyAssumption
<1>4. Stamped(r, t) \in SUBSET Record
  BY <1>3 DEF Stamped, Record
<1>5. QED
  BY <1>1, <1>2, <1>4 DEF NewRecords, NewOperations, Operation

\* However a transaction ends or survives, its state stays well typed.
LEMMA TransactionTyped ==
  ASSUME TypeOK, NEW h \in Handles,
         \/ UNCHANGED <<lock, intx, txn>>
         \/ EndTransaction(h)
         \/ RollbackIfActive(h)
         \/ FailingRollback(h)
  PROVE  /\ lock' \in [Handles -> {"none", "shared", "reserved", "pending"}]
         /\ intx' \in [Handles -> BOOLEAN]
         /\ txn' \in [Handles -> [recs : SUBSET Record, ops : SUBSET Operation,
                                  call : Calls \cup {0}]]
<1>1. NoTxn \in [recs : SUBSET Record, ops : SUBSET Operation, call : Calls \cup {0}]
  BY DEF NoTxn, EmptyTxn
<1>2. CASE EndTransaction(h)
  BY <1>1, <1>2 DEF TypeOK, StorageTyped, EndTransaction
<1>3. CASE UNCHANGED <<lock, intx, txn>>
  BY <1>3 DEF TypeOK, StorageTyped
<1>4. QED
  BY <1>2, <1>3 DEF RollbackIfActive, FailingRollback

LEMMA DurableTyped ==
  ASSUME TypeInv, NEW h \in Handles, pc[h] = "commit", MakeDurable(h)
  PROVE  db' \in Database /\ landed' \subseteq Calls
<1>1. txn[h].call \in Calls
  BY DEF TypeInv, LocalsOK, WorkPoints, ExecutePoints
<1>2. QED
  BY <1>1 DEF TypeInv, TypeOK, StorageTyped, CallersTyped, MakeDurable, Database

LEMMA FaultTyped == TypeOK /\ (Fault \/ UNCHANGED faults) => faults' \in 0 .. MaxFaults
BY BoundsAssumption DEF TypeOK, StorageTyped, Fault

\* A call that is over leaves well typed local variables behind.
LEMMA LeaveTyped ==
  ASSUME TypeOK, NEW h \in Handles, leave(h),
         goto(h, "idle") \/ goto(h, "down"),
         open' \in [Handles -> BOOLEAN], seen' \in [Handles -> SUBSET Operation]
  PROVE  LocalTyped'
BY DEF TypeOK, LocalTyped, leave, goto, Supplies, RestPoints

LEMMA ReplyTyped ==
  ASSUME TypeOK, NEW h \in Handles, NEW c \in Ledger!Codes, NEW s \in Ledger!States,
         NEW t \in Times \cup {Untimed}, NEW b \in BOOLEAN, answer(h, c, s, t, b)
  PROVE  LocalTyped' /\ CallersTyped'
<1>1. [code |-> c, state |-> s, at |-> t, replayed |-> b] \in Ledger!Replies
  BY DEF Ledger!Replies, Ledger!NoTime, Ledger!Untimed, Untimed
<1>2. CallersTyped'
  BY <1>1 DEF TypeOK, CallersTyped, answer, tell
<1>3. LocalTyped'
  BY LeaveTyped DEF TypeOK, LocalTyped, answer, tell
<1>4. QED
  BY <1>2, <1>3

\* The request of a call that is being executed.
LEMMA TypedRequest ==
  ASSUME TypeInv, NEW h \in Handles, pc[h] \in ExecutePoints
  PROVE  request(h) \in Requests
BY DEF TypeInv, TypeOK, CallersTyped, LocalsOK, request

LEMMA TypeNext == TypeInv /\ [Next]_vars => TypeInv'
<1> SUFFICES ASSUME TypeInv, [Next]_vars PROVE TypeInv'
  OBVIOUS
<1> TypeOK /\ LocalsOK
  BY DEF TypeInv
<1> USE DEF goto, raise, storage, local, callers, ErrorCodes, Ledger!Codes, ExecutePoints, WorkPoints
<1>0. CASE UNCHANGED vars
  BY <1>0 DEF TypeInv, TypeOK, StorageTyped, LocalTyped, CallersTyped, LocalsOK, vars
<1>1. CASE Damage
  <2>1. (Blobs \cap Owned(db.recs)) \cup {KeyOf(o) : o \in db.ops} \cup {"metadata"}
          \subseteq Blobs \cup MetadataRows
    BY BodyAssumption DEF TypeOK, StorageTyped, Database, Operation, KeyOf, MetadataRows
  <2>2. QED
    BY <1>1, <2>1, FaultTyped DEF Damage, TypeInv, TypeOK, StorageTyped, LocalTyped, CallersTyped,
       LocalsOK
<1>2. ASSUME NEW h \in Handles, Progress(h) PROVE TypeInv'
  <2>1. CASE Validate(h)
    <3>1. StorageTyped'
      BY <2>1, TransactionTyped, FaultTyped DEF Validate, TypeOK, StorageTyped
    <3>2. LocalTyped'
      BY <2>1 DEF Validate, InputErrors, TypeOK, LocalTyped, ReadPoints, RestPoints
    <3>3. CallersTyped'
      BY <2>1 DEF Validate, TypeOK, CallersTyped
    <3>4. LocalsOK'
      BY <2>1 DEF Validate, InputErrors, TypeOK, LocalTyped, LocalsOK, ReadPoints, RestPoints
    <3>5. QED
      BY <3>1, <3>2, <3>3, <3>4 DEF TypeInv, TypeOK
  <2>2. CASE Begin(h)
    <3>1. EmptyTxn(call[h]) \in [recs : SUBSET Record, ops : SUBSET Operation, call : Calls \cup {0}]
      BY DEF EmptyTxn, TypeOK, LocalTyped
    <3>2. StorageTyped'
      <4>1. CASE BeginImmediate(h)
        BY <2>2, <3>1, <4>1 DEF Begin, BeginImmediate, TypeOK, StorageTyped
      <4>2. CASE UNCHANGED <<lock, intx, txn>>
        BY <2>2, <4>2 DEF Begin, TypeOK, StorageTyped
      <4>3. QED
        BY <2>2, <4>1, <4>2 DEF Begin
    <3>3. LocalTyped'
      BY <2>2 DEF Begin, TypeOK, LocalTyped, ReadPoints, RestPoints
    <3>4. CallersTyped'
      BY <2>2 DEF Begin, TypeOK, CallersTyped
    <3>5. LocalsOK'
      BY <2>2 DEF Begin, TypeOK, LocalTyped, LocalsOK, ReadPoints, RestPoints, BeginImmediate,
         EmptyTxn, StorageTyped
    <3>6. QED
      BY <3>2, <3>3, <3>4, <3>5 DEF TypeInv, TypeOK
  <2>3. CASE Lookup(h)
    <3>1. StorageTyped'
      BY <2>3, TransactionTyped, FaultTyped DEF Lookup, TypeOK, StorageTyped
    <3>2. Previous(request(h), db) \subseteq Operation
      BY DEF Previous, TypeOK, StorageTyped, Database
    <3>3. LocalTyped'
      <4>1. /\ operation' \in [Handles -> Operation \cup {None}]
            /\ committed' \in [Handles -> BOOLEAN]
        BY <2>3, <3>2 DEF Lookup, TypeOK, LocalTyped
      <4>2. /\ pc' \in [Handles -> ExecutePoints \cup ReadPoints \cup RestPoints]
            /\ code' \in [Handles -> Ledger!Codes \cup {"none"}]
        BY <2>3 DEF Lookup, TypeOK, LocalTyped
      <4>3. QED
        BY <2>3, <4>1, <4>2 DEF Lookup, TypeOK, LocalTyped
    <3>4. CallersTyped'
      BY <2>3 DEF Lookup, TypeOK, CallersTyped
    <3>5. LocalsOK'
      BY <2>3, <3>2 DEF Lookup, TypeOK, LocalTyped, LocalsOK, ReadPoints, RestPoints
    <3>6. QED
      BY <3>1, <3>3, <3>4, <3>5 DEF TypeInv, TypeOK
  <2>4. CASE CheckReplay(h)
    <3>1. StorageTyped'
      BY <2>4, TransactionTyped, FaultTyped DEF CheckReplay, TypeOK, StorageTyped
    <3>2. LocalTyped'
      BY <2>4 DEF CheckReplay, TypeOK, LocalTyped, ReadPoints, RestPoints
    <3>3. CallersTyped'
      BY <2>4 DEF CheckReplay, TypeOK, CallersTyped
    <3>4. LocalsOK'
      BY <2>4 DEF CheckReplay, TypeOK, LocalTyped, LocalsOK, ReadPoints, RestPoints
    <3>5. QED
      BY <3>1, <3>2, <3>3, <3>4 DEF TypeInv, TypeOK
  <2>5. CASE EndReplay(h)
    <3>1. operation[h].at \in Times
      BY <2>5 DEF EndReplay, LocalsOK, Operation
    <3>2. StorageTyped'
      BY <2>5, TransactionTyped, FaultTyped DEF EndReplay, FailingRollback, answer, tell, TypeOK,
         StorageTyped
    <3>3. LocalTyped' /\ CallersTyped'
      BY <2>5, <3>1, ReplyTyped DEF EndReplay, Ledger!States, TypeOK, LocalTyped, CallersTyped,
         FailingRollback
    <3>4. LocalsOK'
      <4>1. CASE EndTransaction(h) /\ answer(h, "COMMITTED", "committed", operation[h].at, TRUE)
        BY <2>5, <4>1 DEF TypeOK, StorageTyped, LocalTyped, LocalsOK, EndTransaction, answer, tell,
           leave
      <4>2. CASE /\ FailingRollback(h)
                 /\ raise(h, "IO_ERROR")
                 /\ UNCHANGED <<db, damaged, call, supplied, began, committing, committed,
                                operation, open, seen, callers>>
        BY <2>5, <3>1, <4>2 DEF EndReplay, TypeOK, StorageTyped, LocalTyped, LocalsOK,
           EndTransaction, FailingRollback
      <4>3. QED
        BY <2>5, <4>1, <4>2 DEF EndReplay
    <3>5. QED
      BY <3>2, <3>3, <3>4 DEF TypeInv, TypeOK
  <2>6. CASE Plan(h)
    <3>1. \A r, s, d : Rejections(r, s, d) \subseteq Ledger!Codes \ {"COMMITTED", "DURABILITY_UNKNOWN"}
      BY DEF Rejections
    <3>2. request(h) \in Requests
      BY <2>6, TypedRequest DEF Plan, TypeInv
    <3>3. \A t \in Times : [req |-> request(h), at |-> t] \in Operation
      BY <3>2 DEF Operation
    <3>4. StorageTyped'
      BY <2>6, TransactionTyped, FaultTyped DEF Plan, TypeOK, StorageTyped
    <3>5. LocalTyped'
      BY <2>6, <3>1, <3>3 DEF Plan, TypeOK, LocalTyped, ReadPoints, RestPoints
    <3>6. CallersTyped'
      BY <2>6 DEF Plan, TypeOK, CallersTyped
    <3>7. LocalsOK'
      BY <2>6, <3>1, <3>3 DEF Plan, TypeOK, LocalTyped, LocalsOK, ReadPoints, RestPoints
    <3>8. QED
      BY <3>4, <3>5, <3>6, <3>7 DEF TypeInv, TypeOK
  <2>7. CASE InsertRecords(h)
    <3>1. request(h) \in Requests
      BY <2>7, TypedRequest DEF InsertRecords, TypeInv
    <3>2. operation[h].at \in Times
      BY <2>7 DEF InsertRecords, LocalsOK, Operation
    <3>3. NewRecords(request(h), db, operation[h].at) \in SUBSET Record
      BY <3>1, <3>2, NewTyped DEF TypeOK, StorageTyped
    <3>4. StorageTyped'
      BY <2>7, <3>3 DEF InsertRecords, TypeOK, StorageTyped
    <3>5. LocalTyped'
      BY <2>7, <3>3 DEF InsertRecords, TypeOK, LocalTyped, ReadPoints, RestPoints
    <3>6. CallersTyped'
      BY <2>7 DEF InsertRecords, TypeOK, CallersTyped
    <3>7. LocalsOK'
      BY <2>7, <3>3 DEF InsertRecords, TypeOK, LocalTyped, LocalsOK, ReadPoints, RestPoints,
         StorageTyped
    <3>8. QED
      BY <3>4, <3>5, <3>6, <3>7 DEF TypeInv, TypeOK
  <2>8. CASE InsertOperations(h)
    <3>1. request(h) \in Requests
      BY <2>8, TypedRequest DEF InsertOperations, TypeInv
    <3>2. operation[h].at \in Times
      BY <2>8 DEF InsertOperations, LocalsOK, Operation
    <3>3. NewOperations(request(h), db, operation[h].at) \in SUBSET Operation
      BY <3>1, <3>2, NewTyped DEF TypeOK, StorageTyped
    <3>4. StorageTyped'
      BY <2>8, <3>3 DEF InsertOperations, TypeOK, StorageTyped
    <3>5. LocalTyped'
      BY <2>8, <3>3 DEF InsertOperations, TypeOK, LocalTyped, ReadPoints, RestPoints
    <3>6. CallersTyped'
      BY <2>8 DEF InsertOperations, TypeOK, CallersTyped
    <3>7. LocalsOK'
      BY <2>8, <3>3 DEF InsertOperations, TypeOK, LocalTyped, LocalsOK, ReadPoints, RestPoints,
         StorageTyped
    <3>8. QED
      BY <3>4, <3>5, <3>6, <3>7 DEF TypeInv, TypeOK
  <2>9. CASE CommitWait(h)
    <3>1. StorageTyped'
      BY <2>9, TransactionTyped, FaultTyped DEF CommitWait, TypeOK, StorageTyped
    <3>2. LocalTyped'
      BY <2>9 DEF CommitWait, TypeOK, LocalTyped, ReadPoints, RestPoints
    <3>3. CallersTyped'
      BY <2>9 DEF CommitWait, TypeOK, CallersTyped
    <3>4. LocalsOK'
      BY <2>9 DEF CommitWait, TypeOK, LocalTyped, LocalsOK, ReadPoints, RestPoints
    <3>5. QED
      BY <3>1, <3>2, <3>3, <3>4 DEF TypeInv, TypeOK
  <2>10. CASE Commit(h)
    <3>1. StorageTyped'
      BY <2>10, TransactionTyped, DurableTyped DEF Commit, MakeDurable, TypeInv, TypeOK,
         StorageTyped
    <3>2. LocalTyped'
      BY <2>10 DEF Commit, TypeOK, LocalTyped, ReadPoints, RestPoints
    <3>3. CallersTyped'
      BY <2>10, DurableTyped DEF Commit, TypeInv, TypeOK, CallersTyped, MakeDurable
    <3>4. LocalsOK'
      BY <2>10 DEF Commit, TypeOK, LocalTyped, LocalsOK, ReadPoints, RestPoints, StorageTyped,
         EndTransaction, FailingRollback, RollbackIfActive, NoTxn, MakeDurable
    <3>5. QED
      BY <3>1, <3>2, <3>3, <3>4 DEF TypeInv, TypeOK
  <2>11. CASE CommitBusy(h)
    <3>1. StorageTyped'
      BY <2>11, TransactionTyped, FaultTyped DEF CommitBusy, TypeOK, StorageTyped
    <3>2. LocalTyped'
      BY <2>11 DEF CommitBusy, TypeOK, LocalTyped, ReadPoints, RestPoints
    <3>3. CallersTyped'
      BY <2>11 DEF CommitBusy, TypeOK, CallersTyped
    <3>4. LocalsOK'
      BY <2>11 DEF CommitBusy, TypeOK, LocalTyped, LocalsOK, ReadPoints, RestPoints
    <3>5. QED
      BY <3>1, <3>2, <3>3, <3>4 DEF TypeInv, TypeOK
  <2>12. CASE Acknowledge(h)
    <3>1. operation[h].at \in Times
      BY <2>12 DEF Acknowledge, LocalsOK, Operation
    <3>2. StorageTyped'
      BY <2>12, TransactionTyped, FaultTyped DEF Acknowledge, answer, tell, TypeOK, StorageTyped
    <3>3. LocalTyped' /\ CallersTyped'
      BY <2>12, <3>1, ReplyTyped DEF Acknowledge, LocalsOK, Ledger!States
    <3>4. LocalsOK'
      BY <2>12, <3>1 DEF Acknowledge, TypeOK, LocalTyped, LocalsOK, ReadPoints, RestPoints, answer,
         tell, refuse, leave
    <3>5. QED
      BY <3>2, <3>3, <3>4 DEF TypeInv, TypeOK
  <2>13. CASE ReportCommitted(h)
    <3>1. operation[h].at \in Times
      BY <2>13 DEF ReportCommitted, LocalsOK, Operation
    <3>2. StorageTyped'
      BY <2>13, TransactionTyped, FaultTyped DEF ReportCommitted, FailingRollback, answer, tell,
         TypeOK, StorageTyped
    <3>3. LocalTyped' /\ CallersTyped'
      BY <2>13, <3>1, ReplyTyped DEF ReportCommitted, LocalsOK, Ledger!States
    <3>4. LocalsOK'
      BY <2>13, <3>1 DEF ReportCommitted, TypeOK, LocalTyped, LocalsOK, ReadPoints, RestPoints,
         StorageTyped, EndTransaction, FailingRollback, RollbackIfActive, NoTxn, answer, tell,
         refuse, leave
    <3>5. QED
      BY <3>2, <3>3, <3>4 DEF TypeInv, TypeOK
  <2>14. CASE ReportUnstarted(h)
    <3>1. StorageTyped'
      BY <2>14, TransactionTyped, FaultTyped DEF ReportUnstarted, answer, tell, refuse, TypeOK,
         StorageTyped
    <3>2. LocalTyped' /\ CallersTyped'
      BY <2>14, ReplyTyped DEF ReportUnstarted, refuse, LocalsOK, Ledger!States
    <3>3. LocalsOK'
      BY <2>14 DEF ReportUnstarted, TypeOK, LocalTyped, LocalsOK, ReadPoints, RestPoints, answer,
         tell, refuse, leave
    <3>4. QED
      BY <3>1, <3>2, <3>3 DEF TypeInv, TypeOK
  <2>15. CASE ReportRolledBack(h)
    <3>1. StorageTyped'
      BY <2>15, TransactionTyped, FaultTyped DEF ReportRolledBack, answer, tell, refuse, TypeOK,
         StorageTyped
    <3>2. LocalTyped' /\ CallersTyped'
      BY <2>15, ReplyTyped DEF ReportRolledBack, refuse, LocalsOK, Ledger!States
    <3>3. LocalsOK'
      BY <2>15 DEF ReportRolledBack, TypeOK, LocalTyped, LocalsOK, ReadPoints, RestPoints,
         StorageTyped, EndTransaction, FailingRollback, RollbackIfActive, NoTxn, answer, tell,
         refuse, leave
    <3>4. QED
      BY <3>1, <3>2, <3>3 DEF TypeInv, TypeOK
  <2>16. CASE ReportUnknown(h)
    <3>1. StorageTyped'
      BY <2>16, TransactionTyped, FaultTyped DEF ReportUnknown, FailingRollback, answer, tell,
         TypeOK, StorageTyped
    <3>2. LocalTyped' /\ CallersTyped'
      BY <2>16, ReplyTyped DEF ReportUnknown, LocalsOK, Ledger!States
    <3>3. LocalsOK'
      BY <2>16 DEF ReportUnknown, TypeOK, LocalTyped, LocalsOK, ReadPoints, RestPoints,
         StorageTyped, EndTransaction, FailingRollback, RollbackIfActive, NoTxn, answer, tell,
         refuse, leave
    <3>4. QED
      BY <3>1, <3>2, <3>3 DEF TypeInv, TypeOK
  <2>17. CASE EndRead(h)
    <3>1. StorageTyped'
      BY <2>17, TransactionTyped, FaultTyped DEF EndRead, FailingRollback, TypeOK, StorageTyped
    <3>2. LocalTyped'
      BY <2>17 DEF EndRead, TypeOK, LocalTyped, ReadPoints, RestPoints
    <3>3. CallersTyped'
      BY <2>17 DEF EndRead, TypeOK, CallersTyped
    <3>4. LocalsOK'
      BY <2>17 DEF EndRead, TypeOK, LocalTyped, LocalsOK, ReadPoints, RestPoints, StorageTyped,
         EndTransaction, FailingRollback, RollbackIfActive, NoTxn
    <3>5. QED
      BY <3>1, <3>2, <3>3, <3>4 DEF TypeInv, TypeOK
  <2>18. CASE CleanUpRead(h)
    <3>1. StorageTyped'
      BY <2>18, TransactionTyped, FaultTyped DEF CleanUpRead, FailingRollback, TypeOK, StorageTyped
    <3>2. LocalTyped'
      BY <2>18 DEF CleanUpRead, TypeOK, LocalTyped, ReadPoints, RestPoints
    <3>3. CallersTyped'
      BY <2>18 DEF CleanUpRead, TypeOK, CallersTyped
    <3>4. LocalsOK'
      BY <2>18 DEF CleanUpRead, TypeOK, LocalTyped, LocalsOK, ReadPoints, RestPoints, StorageTyped,
         EndTransaction, FailingRollback, RollbackIfActive, NoTxn
    <3>5. QED
      BY <3>1, <3>2, <3>3, <3>4 DEF TypeInv, TypeOK
  <2>19. QED
    BY <1>2, <2>1, <2>2, <2>3, <2>4, <2>5, <2>6, <2>7, <2>8, <2>9, <2>10, <2>11, <2>12, <2>13,
       <2>14, <2>15, <2>16, <2>17, <2>18 DEF Progress
<1>3. ASSUME NEW h \in Handles, Caller(h) PROVE TypeInv'
  <2>1. ASSUME NEW r \in Requests, NEW s \in Supplies, Ask(h, r, s) PROVE TypeInv'
    <3>1. StorageTyped'
      BY <2>1, TransactionTyped, FaultTyped DEF Ask, TypeOK, StorageTyped
    <3>2. LocalTyped'
      BY <2>1, BoundsAssumption DEF Ask, StorageTyped, CallersTyped, Calls, TypeOK, LocalTyped,
         ReadPoints, RestPoints
    <3>3. CallersTyped'
      BY <2>1, BoundsAssumption DEF Ask, TypeOK, CallersTyped, Calls
    <3>4. LocalsOK'
      BY <2>1, BoundsAssumption, NullsAssumption DEF Ask, TypeOK, LocalTyped, LocalsOK, ReadPoints,
         RestPoints, CallersTyped, Calls
    <3>5. QED
      BY <3>1, <3>2, <3>3, <3>4 DEF TypeInv, TypeOK
  <2>2. CASE Read(h)
    <3>1. StorageTyped'
      BY <2>2 DEF Read, BeginRead, TypeOK, StorageTyped
    <3>2. LocalTyped'
      BY <2>2 DEF Read, StorageTyped, Database, TypeOK, LocalTyped, ReadPoints, RestPoints
    <3>3. CallersTyped'
      BY <2>2 DEF Read, TypeOK, CallersTyped
    <3>4. LocalsOK'
      BY <2>2 DEF Read, TypeOK, LocalTyped, LocalsOK, ReadPoints, RestPoints, BeginRead,
         StorageTyped
    <3>5. QED
      BY <3>1, <3>2, <3>3, <3>4 DEF TypeInv, TypeOK
  <2>3. CASE Close(h)
    <3>1. StorageTyped'
      BY <2>3, TransactionTyped, FaultTyped DEF Close, TypeOK, StorageTyped
    <3>2. LocalTyped'
      BY <2>3 DEF Close, TypeOK, LocalTyped, ReadPoints, RestPoints
    <3>3. CallersTyped'
      BY <2>3 DEF Close, TypeOK, CallersTyped
    <3>4. LocalsOK'
      BY <2>3 DEF Close, TypeOK, LocalTyped, LocalsOK, ReadPoints, RestPoints, StorageTyped,
         EndTransaction, FailingRollback, RollbackIfActive, NoTxn
    <3>5. QED
      BY <3>1, <3>2, <3>3, <3>4 DEF TypeInv, TypeOK
  <2>4. CASE Reopen(h)
    <3>1. StorageTyped'
      BY <2>4, TransactionTyped, FaultTyped DEF Reopen, TypeOK, StorageTyped
    <3>2. LocalTyped'
      BY <2>4 DEF Reopen, TypeOK, LocalTyped, ReadPoints, RestPoints
    <3>3. CallersTyped'
      BY <2>4 DEF Reopen, TypeOK, CallersTyped
    <3>4. LocalsOK'
      BY <2>4 DEF Reopen, TypeOK, LocalTyped, LocalsOK, ReadPoints, RestPoints
    <3>5. QED
      BY <3>1, <3>2, <3>3, <3>4 DEF TypeInv, TypeOK
  <2>5. QED
    BY <1>3, <2>1, <2>2, <2>3, <2>4 DEF Caller
<1>4. ASSUME NEW h \in Handles, Trouble(h) PROVE TypeInv'
  <2>1. CASE CommitFails(h)
    <3>1. StorageTyped'
      BY <2>1, TransactionTyped, DurableTyped, FaultTyped DEF CommitFails, MakeDurable, TypeInv,
         TypeOK, StorageTyped
    <3>2. LocalTyped'
      BY <2>1 DEF CommitFails, TypeOK, LocalTyped, ReadPoints, RestPoints
    <3>3. CallersTyped'
      BY <2>1, DurableTyped DEF CommitFails, TypeInv, TypeOK, CallersTyped, MakeDurable
    <3>4. LocalsOK'
      BY <2>1 DEF CommitFails, TypeOK, LocalTyped, LocalsOK, ReadPoints, RestPoints, StorageTyped,
         EndTransaction, FailingRollback, RollbackIfActive, NoTxn, MakeDurable
    <3>5. QED
      BY <3>1, <3>2, <3>3, <3>4 DEF TypeInv, TypeOK
  <2>2. CASE StatementFails(h)
    <3>1. StorageTyped'
      BY <2>2, TransactionTyped, FaultTyped DEF StatementFails, TypeOK, StorageTyped
    <3>2. LocalTyped'
      BY <2>2 DEF StatementFails, TypeOK, LocalTyped, ReadPoints, RestPoints
    <3>3. CallersTyped'
      BY <2>2 DEF StatementFails, TypeOK, CallersTyped
    <3>4. LocalsOK'
      BY <2>2 DEF StatementFails, TypeOK, LocalTyped, LocalsOK, ReadPoints, RestPoints,
         StorageTyped, EndTransaction, FailingRollback, RollbackIfActive, NoTxn
    <3>5. QED
      BY <3>1, <3>2, <3>3, <3>4 DEF TypeInv, TypeOK
  <2>3. CASE ReadFails(h)
    <3>1. StorageTyped'
      BY <2>3, TransactionTyped, FaultTyped DEF ReadFails, TypeOK, StorageTyped
    <3>2. LocalTyped'
      BY <2>3 DEF ReadFails, TypeOK, LocalTyped, ReadPoints, RestPoints
    <3>3. CallersTyped'
      BY <2>3 DEF ReadFails, TypeOK, CallersTyped
    <3>4. LocalsOK'
      BY <2>3 DEF ReadFails, TypeOK, LocalTyped, LocalsOK, ReadPoints, RestPoints, StorageTyped,
         EndTransaction, FailingRollback, RollbackIfActive, NoTxn
    <3>5. QED
      BY <3>1, <3>2, <3>3, <3>4 DEF TypeInv, TypeOK
  <2>4. CASE Interrupt(h)
    <3>1. StorageTyped'
      BY <2>4, TransactionTyped, FaultTyped DEF Interrupt, answer, tell, RollbackIfActive, Fault,
         TypeOK, StorageTyped
    <3>2. LocalTyped' /\ CallersTyped'
      BY <2>4, LeaveTyped DEF Interrupt, tell, TypeOK, LocalTyped, CallersTyped, Ledger!Replies
    <3>3. LocalsOK'
      BY <2>4 DEF Interrupt, TypeOK, LocalTyped, LocalsOK, ReadPoints, RestPoints, StorageTyped,
         EndTransaction, FailingRollback, RollbackIfActive, NoTxn, answer, tell, refuse, leave
    <3>4. QED
      BY <3>1, <3>2, <3>3 DEF TypeInv, TypeOK
  <2>5. CASE Crash(h)
    <3>1. StorageTyped'
      BY <2>5, TransactionTyped, FaultTyped DEF Crash, TypeOK, StorageTyped
    <3>2. LocalTyped'
      BY <2>5, LeaveTyped DEF Crash, TypeOK, LocalTyped
    <3>3. CallersTyped'
      BY <2>5 DEF Crash, TypeOK, LocalTyped, CallersTyped, Ledger!Replies
    <3>4. LocalsOK'
      BY <2>5 DEF Crash, TypeOK, LocalTyped, LocalsOK, ReadPoints, RestPoints, StorageTyped,
         EndTransaction, FailingRollback, RollbackIfActive, NoTxn, answer, tell, refuse, leave
    <3>5. QED
      BY <3>1, <3>2, <3>3, <3>4 DEF TypeInv, TypeOK
  <2>6. QED
    BY <1>4, <2>1, <2>2, <2>3, <2>4, <2>5 DEF Trouble
<1>5. QED
  BY <1>0, <1>1, <1>2, <1>3, <1>4 DEF Next

\* Every reachable state is well typed (all of execute, _read, close, open).
THEOREM TypeCorrect == Spec => []TypeOK
<1>1. Spec => []TypeInv
  BY TypeInit, TypeNext, PTL DEF Spec
<1>2. QED
  BY <1>1, PTL DEF TypeInv
-----------------------------------------------------------------------------
(* Locks.                                                                  *)

LEMMA LocksNext == TypeInv /\ LocksOK /\ [Next]_vars => LocksOK'
<1> SUFFICES ASSUME TypeInv, LocksOK, [Next]_vars PROVE LocksOK'
  OBVIOUS
<1> StorageTyped /\ LocalTyped /\ CallersTyped
  BY DEF TypeInv, TypeOK
<1> USE DEF goto, raise, storage, local, callers, ExecutePoints, WorkPoints, LocksOK, StorageTyped, LocalTyped, Writers
<1>0. CASE UNCHANGED vars
  BY <1>0 DEF vars
<1>1. CASE Damage
  BY <1>1 DEF Damage
<1>2. ASSUME NEW h \in Handles, Progress(h) PROVE LocksOK'
  <2>1. CASE Validate(h)
    <3>1. CASE supplied[h] # "malformed" /\ open[h]
      <4>1. began'[h] <=> ~ intx'[h]
        <5>1. began' = [began EXCEPT ![h] = ~ intx[h]] /\ intx' = intx
          BY <2>1, <3>1 DEF Validate
        <5>2. h \in DOMAIN began
          OBVIOUS
        <5>3. QED
          BY <5>1, <5>2, Zenon
      <4>2. \A g \in Handles \ {h} : pc'[g] = pc[g] /\ began'[g] = began[g]
        BY <2>1, <3>1 DEF Validate
      <4>3. pc'[h] = "begin" /\ UNCHANGED <<lock, intx, seen, db>>
        BY <2>1, <3>1 DEF Validate
      <4>4. QED
        BY <4>1, <4>2, <4>3
    <3>2. CASE ~ (supplied[h] # "malformed" /\ open[h])
      BY <2>1, <3>2 DEF Validate
    <3>3. QED
      BY <3>1, <3>2
  <2>2. CASE Begin(h)
    BY <2>2 DEF Begin, BeginImmediate, EmptyTxn
  <2>3. CASE Lookup(h)
    BY <2>3 DEF Lookup
  <2>4. CASE CheckReplay(h)
    BY <2>4 DEF CheckReplay
  <2>5. CASE EndReplay(h)
    <3>1. CASE EndTransaction(h) /\ answer(h, "COMMITTED", "committed", operation[h].at, TRUE)
      BY <2>5, <3>1 DEF EndReplay, EndTransaction, answer, tell, leave
    <3>2. CASE /\ FailingRollback(h)
               /\ raise(h, "IO_ERROR")
               /\ UNCHANGED <<db, damaged, call, supplied, began, committing, committed,
                              operation, open, seen, callers>>
      <4>1. CASE UNCHANGED <<lock, intx, txn>>
        BY <2>5, <3>2, <4>1 DEF EndReplay
      <4>2. CASE EndTransaction(h)
        BY <2>5, <3>2, <4>2 DEF EndReplay, EndTransaction
      <4>3. QED
        BY <3>2, <4>1, <4>2 DEF FailingRollback
    <3>3. QED
      BY <2>5, <3>1, <3>2 DEF EndReplay
  <2>6. CASE Plan(h)
    BY <2>6 DEF Plan
  <2>7. CASE InsertRecords(h)
    BY <2>7 DEF InsertRecords
  <2>8. CASE InsertOperations(h)
    BY <2>8 DEF InsertOperations
  <2>9. CASE CommitWait(h)
    BY <2>9 DEF CommitWait
  <2>10. CASE Commit(h)
    BY <2>10 DEF Commit, MakeDurable, EndTransaction, Readers
  <2>11. CASE CommitBusy(h)
    BY <2>11 DEF CommitBusy
  <2>12. CASE Acknowledge(h)
    BY <2>12 DEF Acknowledge, answer, tell, leave
  <2>13. CASE ReportCommitted(h)
    BY <2>13 DEF ReportCommitted, RollbackIfActive, EndTransaction, FailingRollback, answer, tell,
       leave
  <2>14. CASE ReportUnstarted(h)
    BY <2>14 DEF ReportUnstarted, refuse, answer, tell, leave
  <2>15. CASE ReportRolledBack(h)
    BY <2>15 DEF ReportRolledBack, refuse, answer, tell, leave, RollbackIfActive, EndTransaction
  <2>16. CASE ReportUnknown(h)
    <3>1. CASE UNCHANGED <<lock, intx, txn>>
      BY <2>16, <3>1 DEF ReportUnknown, answer, tell, leave
    <3>2. CASE EndTransaction(h)
      BY <2>16, <3>2 DEF ReportUnknown, EndTransaction, answer, tell, leave
    <3>3. QED
      BY <2>16, <3>1, <3>2 DEF ReportUnknown, FailingRollback
  <2>17. CASE EndRead(h)
    <3>1. CASE UNCHANGED <<lock, intx, txn>> /\ goto(h, "readfailed")
      BY <2>17, <3>1 DEF EndRead
    <3>2. CASE EndTransaction(h)
      <4>1. pc'[h] \in {"idle", "readfailed"} /\ \A g \in Handles \ {h} : pc'[g] = pc[g]
        BY <2>17 DEF EndRead
      <4>2. UNCHANGED <<db, began>> /\ \A g \in Handles \ {h} : seen'[g] = seen[g]
        BY <2>17 DEF EndRead
      <4>3. /\ lock' = [lock EXCEPT ![h] = "none"]
            /\ intx' = [intx EXCEPT ![h] = FALSE]
        BY <3>2 DEF EndTransaction
      <4>4. QED
        BY <4>1, <4>2, <4>3
    <3>3. QED
      BY <2>17, <3>1, <3>2 DEF EndRead, FailingRollback
  <2>18. CASE CleanUpRead(h)
    BY <2>18 DEF CleanUpRead, RollbackIfActive, FailingRollback, EndTransaction
  <2>19. QED
    BY <1>2, <2>1, <2>2, <2>3, <2>4, <2>5, <2>6, <2>7, <2>8, <2>9, <2>10, <2>11, <2>12, <2>13,
       <2>14, <2>15, <2>16, <2>17, <2>18 DEF Progress
<1>3. ASSUME NEW h \in Handles, Caller(h) PROVE LocksOK'
  <2>1. ASSUME NEW r \in Requests, NEW s \in Supplies, Ask(h, r, s) PROVE LocksOK'
    BY <2>1 DEF Ask
  <2>2. CASE Read(h)
    BY <2>2 DEF Read, BeginRead
  <2>3. CASE Close(h)
    BY <2>3 DEF Close, EndTransaction
  <2>4. CASE Reopen(h)
    BY <2>4 DEF Reopen
  <2>5. QED
    BY <1>3, <2>1, <2>2, <2>3, <2>4 DEF Caller
<1>4. ASSUME NEW h \in Handles, Trouble(h) PROVE LocksOK'
  <2>1. CASE CommitFails(h)
    BY <2>1 DEF CommitFails, MakeDurable, EndTransaction, Readers
  <2>2. CASE StatementFails(h)
    <3>1. CASE UNCHANGED <<lock, intx, txn>>
      BY <2>2, <3>1 DEF StatementFails
    <3>2. CASE EndTransaction(h)
      BY <2>2, <3>2 DEF StatementFails, EndTransaction
    <3>3. QED
      BY <2>2, <3>1, <3>2 DEF StatementFails
  <2>3. CASE ReadFails(h)
    <3>1. CASE UNCHANGED <<lock, intx, txn>>
      BY <2>3, <3>1 DEF ReadFails
    <3>2. CASE EndTransaction(h)
      BY <2>3, <3>2 DEF ReadFails, EndTransaction
    <3>3. QED
      BY <2>3, <3>1, <3>2 DEF ReadFails
  <2>4. CASE Interrupt(h)
    <3>1. CASE UNCHANGED <<lock, intx, txn>>
      BY <2>4, <3>1 DEF Interrupt, tell, leave
    <3>2. CASE EndTransaction(h)
      BY <2>4, <3>2 DEF Interrupt, EndTransaction, tell, leave
    <3>3. QED
      BY <2>4, <3>1, <3>2 DEF Interrupt, RollbackIfActive
  <2>5. CASE Crash(h)
    BY <2>5 DEF Crash, EndTransaction, leave
  <2>6. QED
    BY <1>4, <2>1, <2>2, <2>3, <2>4, <2>5 DEF Trouble
<1>5. QED
  BY <1>0, <1>1, <1>2, <1>3, <1>4 DEF Next

-----------------------------------------------------------------------------
(* Calls.                                                                  *)

LEMMA CallsNext == TypeInv /\ CallsOK /\ [Next]_vars => CallsOK'
<1> SUFFICES ASSUME TypeInv, CallsOK, [Next]_vars PROVE CallsOK'
  OBVIOUS
<1> StorageTyped /\ LocalTyped /\ CallersTyped
  BY DEF TypeInv, TypeOK
<1> LocalsOK
  BY DEF TypeInv
<1> USE DEF goto, raise, storage, local, callers, ExecutePoints, WorkPoints, CallsOK, LocalTyped, CallersTyped, LocalsOK
<1>0. CASE UNCHANGED vars
  BY <1>0 DEF vars
<1>1. CASE Damage
  BY <1>1 DEF Damage
<1>2. ASSUME NEW h \in Handles, Progress(h) PROVE CallsOK'
  <2>1. CASE Validate(h)
    BY <2>1 DEF Validate
  <2>2. CASE Begin(h)
    BY <2>2 DEF Begin, BeginImmediate, EmptyTxn
  <2>3. CASE Lookup(h)
    BY <2>3 DEF Lookup
  <2>4. CASE CheckReplay(h)
    BY <2>4 DEF CheckReplay
  <2>5. CASE EndReplay(h)
    <3>1. CASE EndTransaction(h) /\ answer(h, "COMMITTED", "committed", operation[h].at, TRUE)
      BY <2>5, <3>1 DEF EndReplay, EndTransaction, answer, tell, leave
    <3>2. CASE /\ FailingRollback(h)
               /\ raise(h, "IO_ERROR")
               /\ UNCHANGED <<db, damaged, call, supplied, began, committing, committed,
                              operation, open, seen, callers>>
      <4>1. CASE UNCHANGED <<lock, intx, txn>>
        BY <2>5, <3>2, <4>1 DEF EndReplay
      <4>2. CASE EndTransaction(h)
        BY <2>5, <3>2, <4>2 DEF EndReplay, EndTransaction
      <4>3. QED
        BY <3>2, <4>1, <4>2 DEF FailingRollback
    <3>3. QED
      BY <2>5, <3>1, <3>2 DEF EndReplay
  <2>6. CASE Plan(h)
    BY <2>6 DEF Plan
  <2>7. CASE InsertRecords(h)
    BY <2>7 DEF InsertRecords
  <2>8. CASE InsertOperations(h)
    BY <2>8 DEF InsertOperations
  <2>9. CASE CommitWait(h)
    BY <2>9 DEF CommitWait
  <2>10. CASE Commit(h)
    BY <2>10 DEF Commit, MakeDurable, EndTransaction
  <2>11. CASE CommitBusy(h)
    BY <2>11 DEF CommitBusy
  <2>12. CASE Acknowledge(h)
    BY <2>12 DEF Acknowledge, answer, tell, leave
  <2>13. CASE ReportCommitted(h)
    BY <2>13 DEF ReportCommitted, RollbackIfActive, EndTransaction, FailingRollback, answer, tell,
       leave
  <2>14. CASE ReportUnstarted(h)
    BY <2>14 DEF ReportUnstarted, refuse, answer, tell, leave
  <2>15. CASE ReportRolledBack(h)
    BY <2>15 DEF ReportRolledBack, refuse, answer, tell, leave, RollbackIfActive, EndTransaction
  <2>16. CASE ReportUnknown(h)
    BY <2>16 DEF ReportUnknown, FailingRollback, EndTransaction, answer, tell, leave
  <2>17. CASE EndRead(h)
    BY <2>17 DEF EndRead, FailingRollback, EndTransaction
  <2>18. CASE CleanUpRead(h)
    BY <2>18 DEF CleanUpRead, RollbackIfActive, FailingRollback, EndTransaction
  <2>19. QED
    BY <1>2, <2>1, <2>2, <2>3, <2>4, <2>5, <2>6, <2>7, <2>8, <2>9, <2>10, <2>11, <2>12, <2>13,
       <2>14, <2>15, <2>16, <2>17, <2>18 DEF Progress
<1>3. ASSUME NEW h \in Handles, Caller(h) PROVE CallsOK'
  <2>1. ASSUME NEW r \in Requests, NEW s \in Supplies, Ask(h, r, s) PROVE CallsOK'
    BY <2>1, BoundsAssumption, NullsAssumption DEF Ask, Calls
  <2>2. CASE Read(h)
    BY <2>2 DEF Read, BeginRead
  <2>3. CASE Close(h)
    BY <2>3 DEF Close, EndTransaction
  <2>4. CASE Reopen(h)
    BY <2>4 DEF Reopen
  <2>5. QED
    BY <1>3, <2>1, <2>2, <2>3, <2>4 DEF Caller
<1>4. ASSUME NEW h \in Handles, Trouble(h) PROVE CallsOK'
  <2>1. CASE CommitFails(h)
    <3>1. CASE MakeDurable(h)
      BY <2>1, <3>1 DEF CommitFails, MakeDurable
    <3>2. CASE UNCHANGED <<db, landed>>
      BY <2>1, <3>2 DEF CommitFails
    <3>3. QED
      BY <2>1, <3>1, <3>2 DEF CommitFails
  <2>2. CASE StatementFails(h)
    BY <2>2 DEF StatementFails, EndTransaction
  <2>3. CASE ReadFails(h)
    BY <2>3 DEF ReadFails, EndTransaction
  <2>4. CASE Interrupt(h)
    BY <2>4 DEF Interrupt, RollbackIfActive, EndTransaction, tell, leave
  <2>5. CASE Crash(h)
    BY <2>5 DEF Crash, EndTransaction, leave
  <2>6. QED
    BY <1>4, <2>1, <2>2, <2>3, <2>4, <2>5 DEF Trouble
<1>5. QED
  BY <1>0, <1>1, <1>2, <1>3, <1>4 DEF Next

-----------------------------------------------------------------------------
(* Plans.                                                                  *)

\* A plan is in force from the look up of the tuple to the commit.
PlanPoints == {"plan", "records", "operations", "commit"}

\* Nothing the plan of h rests on, or consists of, changes.
PlanUntouched(h) ==
  /\ pc'[h] = pc[h]
  /\ db' = db
  /\ request(h)' = request(h)
  /\ operation'[h] = operation[h]
  /\ txn'[h] = txn[h]

PlanTouchedOnlyBy ==
  \A g \in Handles : pc'[g] \in PlanPoints =>
    PlanUntouched(g) \/ Lookup(g) \/ Plan(g) \/ InsertRecords(g) \/ InsertOperations(g)

\* No other handle disturbs a plan: nobody commits under its write lock.
LEMMA PlanFrame == TypeInv /\ LocksOK /\ CallsOK /\ [Next]_vars => PlanTouchedOnlyBy
<1> SUFFICES ASSUME TypeInv, LocksOK, CallsOK, [Next]_vars PROVE PlanTouchedOnlyBy
  OBVIOUS
<1> StorageTyped /\ LocalTyped /\ CallersTyped
  BY DEF TypeInv, TypeOK
<1> LocalsOK
  BY DEF TypeInv
<1> USE DEF goto, raise, storage, local, callers, ExecutePoints, WorkPoints, PlanTouchedOnlyBy, PlanPoints, PlanUntouched, LocalTyped, StorageTyped, CallersTyped, request
<1>0. CASE UNCHANGED vars
  BY <1>0 DEF vars
<1>1. CASE Damage
  BY <1>1 DEF Damage
<1>2. ASSUME NEW h \in Handles, Progress(h) PROVE PlanTouchedOnlyBy
  <2>1. CASE Validate(h)
    BY <2>1 DEF Validate
  <2>2. CASE Begin(h)
    BY <2>2 DEF Begin, BeginImmediate, EmptyTxn
  <2>3. CASE Lookup(h)
    <3>1. \A g \in Handles \ {h} : PlanUntouched(g)
      BY <2>3 DEF Lookup
    <3>2. QED
      BY <2>3, <3>1
  <2>4. CASE CheckReplay(h)
    BY <2>4 DEF CheckReplay
  <2>5. CASE EndReplay(h)
    BY <2>5 DEF EndReplay, EndTransaction, FailingRollback, answer, tell, leave
  <2>6. CASE Plan(h)
    <3>1. \A g \in Handles \ {h} : PlanUntouched(g)
      BY <2>6 DEF Plan
    <3>2. QED
      BY <2>6, <3>1
  <2>7. CASE InsertRecords(h)
    <3>1. \A g \in Handles \ {h} : PlanUntouched(g)
      BY <2>7 DEF InsertRecords
    <3>2. QED
      BY <2>7, <3>1
  <2>8. CASE InsertOperations(h)
    <3>1. \A g \in Handles \ {h} : PlanUntouched(g)
      BY <2>8 DEF InsertOperations
    <3>2. QED
      BY <2>8, <3>1
  <2>9. CASE CommitWait(h)
    BY <2>9 DEF CommitWait
  <2>10. CASE Commit(h)
    BY <2>10 DEF Commit, MakeDurable, EndTransaction, LocksOK, Readers
  <2>11. CASE CommitBusy(h)
    BY <2>11 DEF CommitBusy
  <2>12. CASE Acknowledge(h)
    BY <2>12 DEF Acknowledge, answer, tell, leave
  <2>13. CASE ReportCommitted(h)
    BY <2>13 DEF ReportCommitted, RollbackIfActive, EndTransaction, FailingRollback, answer, tell,
       leave
  <2>14. CASE ReportUnstarted(h)
    BY <2>14 DEF ReportUnstarted, refuse, answer, tell, leave
  <2>15. CASE ReportRolledBack(h)
    BY <2>15 DEF ReportRolledBack, refuse, answer, tell, leave, RollbackIfActive, EndTransaction
  <2>16. CASE ReportUnknown(h)
    BY <2>16 DEF ReportUnknown, FailingRollback, EndTransaction, answer, tell, leave
  <2>17. CASE EndRead(h)
    BY <2>17 DEF EndRead, FailingRollback, EndTransaction
  <2>18. CASE CleanUpRead(h)
    BY <2>18 DEF CleanUpRead, RollbackIfActive, FailingRollback, EndTransaction
  <2>19. QED
    BY <1>2, <2>1, <2>2, <2>3, <2>4, <2>5, <2>6, <2>7, <2>8, <2>9, <2>10, <2>11, <2>12, <2>13,
       <2>14, <2>15, <2>16, <2>17, <2>18 DEF Progress
<1>3. ASSUME NEW h \in Handles, Caller(h) PROVE PlanTouchedOnlyBy
  <2>1. ASSUME NEW r \in Requests, NEW s \in Supplies, Ask(h, r, s) PROVE PlanTouchedOnlyBy
    BY <2>1, BoundsAssumption DEF Ask, Calls, CallsOK, LocalsOK
  <2>2. CASE Read(h)
    BY <2>2 DEF Read, BeginRead
  <2>3. CASE Close(h)
    BY <2>3 DEF Close, EndTransaction
  <2>4. CASE Reopen(h)
    BY <2>4 DEF Reopen
  <2>5. QED
    BY <1>3, <2>1, <2>2, <2>3, <2>4 DEF Caller
<1>4. ASSUME NEW h \in Handles, Trouble(h) PROVE PlanTouchedOnlyBy
  <2>1. CASE CommitFails(h)
    BY <2>1 DEF CommitFails, MakeDurable, EndTransaction, LocksOK, Readers, Fault
  <2>2. CASE StatementFails(h)
    BY <2>2 DEF StatementFails, EndTransaction
  <2>3. CASE ReadFails(h)
    BY <2>3 DEF ReadFails, EndTransaction
  <2>4. CASE Interrupt(h)
    BY <2>4 DEF Interrupt, RollbackIfActive, EndTransaction, tell, leave
  <2>5. CASE Crash(h)
    BY <2>5 DEF Crash, EndTransaction, leave
  <2>6. QED
    BY <1>4, <2>1, <2>2, <2>3, <2>4, <2>5 DEF Trouble
<1>5. QED
  BY <1>0, <1>1, <1>2, <1>3, <1>4 DEF Next

LEMMA RejectionsGood == \A r, s, d : Rejections(r, s, d) = {} => Rejections(r, "good", d) = {}
BY DEF Rejections

\* A plan is made on db under the write lock and carried out on the same db.
LEMMA PlanNext == TypeInv /\ LocksOK /\ CallsOK /\ PlanOK /\ [Next]_vars => PlanOK'
<1> SUFFICES ASSUME TypeInv, LocksOK, CallsOK, PlanOK, [Next]_vars, NEW h \in Handles,
                    pc'[h] \in PlanPoints
             PROVE  /\ Previous(request(h)', db') = {}
                    /\ pc'[h] # "plan" => /\ Rejections(request(h)', "good", db') = {}
                                          /\ operation'[h].req = request(h)'
                    /\ pc'[h] \in {"operations", "commit"} =>
                         txn'[h].recs = NewRecords(request(h)', db', operation'[h].at)
                    /\ pc'[h] = "commit" =>
                         txn'[h].ops = NewOperations(request(h)', db', operation'[h].at)
  BY DEF PlanOK, PlanPoints
<1> USE DEF PlanPoints, goto, raise, storage, callers
<1> StorageTyped /\ LocalTyped /\ CallersTyped /\ LocalsOK
  BY DEF TypeInv, TypeOK
<1>1. CASE PlanUntouched(h)
  BY <1>1 DEF PlanUntouched, PlanOK
<1>2. CASE Plan(h)
  <2>1. /\ pc[h] = "plan"
        /\ UNCHANGED <<db, asked, call>>
        /\ request(h)' = request(h)
    BY <1>2 DEF Plan, request
  <2>2. pc'[h] = "records" /\ Rejections(request(h), supplied[h], db) = {}
        /\ operation'[h].req = request(h)
    BY <1>2 DEF Plan, LocalTyped
  <2>3. QED
    BY <2>1, <2>2, RejectionsGood DEF PlanOK
<1>3. CASE InsertRecords(h)
  <2>1. /\ UNCHANGED <<db, operation>>
        /\ request(h)' = request(h)
        /\ pc[h] = "records"
    BY <1>3 DEF InsertRecords, request
  <2>2. /\ pc'[h] = "operations"
        /\ txn'[h].recs = NewRecords(request(h), db, operation[h].at)
    BY <1>3 DEF InsertRecords, LocalTyped, StorageTyped
  <2>3. QED
    BY <2>1, <2>2 DEF PlanOK
<1>4. CASE InsertOperations(h)
  <2>1. /\ UNCHANGED <<db, operation>>
        /\ request(h)' = request(h)
        /\ pc[h] = "operations"
    BY <1>4 DEF InsertOperations, request
  <2>2. /\ pc'[h] = "commit"
        /\ txn'[h].recs = txn[h].recs
        /\ txn'[h].ops = NewOperations(request(h), db, operation[h].at)
    BY <1>4 DEF InsertOperations, LocalTyped, StorageTyped
  <2>3. QED
    BY <2>1, <2>2 DEF PlanOK
<1>5. CASE Lookup(h)
  <2>1. UNCHANGED db /\ request(h)' = request(h)
    BY <1>5 DEF Lookup, request
  <2>2. pc'[h] = "plan" /\ Previous(request(h), db) = {}
    BY <1>5 DEF Lookup, LocalTyped
  <2>3. QED
    BY <2>1, <2>2
<1>6. QED
  BY <1>1, <1>5, <1>2, <1>3, <1>4, PlanFrame DEF PlanTouchedOnlyBy

-----------------------------------------------------------------------------
(* What execute knows about the commit.                                    *)

LEMMA OperationEta == \A o \in Operation : o = [req |-> o.req, at |-> o.at]
BY DEF Operation

\* COMMIT makes durable what this transaction inserted, for this call.
LEMMA DurableEffect ==
  ASSUME TypeInv, NEW h \in Handles, pc[h] = "commit", MakeDurable(h)
  PROVE  /\ db'.recs = db.recs \cup txn[h].recs
         /\ db'.ops = db.ops \cup txn[h].ops
         /\ landed' = landed \cup {call[h]}
BY DEF MakeDurable, TypeInv, LocalsOK, WorkPoints

LEMMA KnowledgeNext == TypeInv /\ LocksOK /\ CallsOK /\ PlanOK /\ KnowledgeOK /\ [Next]_vars => KnowledgeOK'
<1> SUFFICES ASSUME TypeInv, LocksOK, CallsOK, PlanOK, KnowledgeOK, [Next]_vars PROVE KnowledgeOK'
  OBVIOUS
<1> StorageTyped /\ LocalTyped /\ CallersTyped
  BY DEF TypeInv, TypeOK
<1> LocalsOK
  BY DEF TypeInv
<1> USE DEF goto, raise, storage, local, callers, ExecutePoints, WorkPoints, LocalTyped, StorageTyped, CallersTyped, request, KnowledgeOK
<1>0. CASE UNCHANGED vars
  BY <1>0 DEF vars
<1>1. CASE Damage
  BY <1>1 DEF Damage
<1>2. ASSUME NEW h \in Handles, Progress(h) PROVE KnowledgeOK'
  <2>1. CASE Validate(h)
    BY <2>1 DEF Validate
  <2>2. CASE Begin(h)
    BY <2>2 DEF Begin, BeginImmediate, EmptyTxn
  <2>3. CASE Lookup(h)
    <3>1. CASE Previous(request(h), db) = {} /\ goto(h, "plan") /\ UNCHANGED <<committed, operation, code>>
      BY <2>3, <3>1 DEF Lookup
    <3>2. CASE \E c \in ErrorCodes : raise(h, c) /\ UNCHANGED <<committed, operation>>
      BY <2>3, <3>2 DEF Lookup
    <3>3. ASSUME NEW o \in Previous(request(h), db), o.req = request(h),
                 operation' = [operation EXCEPT ![h] = o],
                 committed' = [committed EXCEPT ![h] = TRUE],
                 goto(h, "replay"), UNCHANGED code
          PROVE  KnowledgeOK'
      BY <2>3, <3>3 DEF Lookup, Previous
    <3>4. QED
      BY <2>3, <3>1, <3>2, <3>3 DEF Lookup, ErrorCodes, Ledger!Codes
  <2>4. CASE CheckReplay(h)
    BY <2>4 DEF CheckReplay
  <2>5. CASE EndReplay(h)
    <3>1. CASE EndTransaction(h) /\ answer(h, "COMMITTED", "committed", operation[h].at, TRUE)
      BY <2>5, <3>1 DEF EndReplay, EndTransaction, answer, tell, leave
    <3>2. CASE /\ FailingRollback(h)
               /\ raise(h, "IO_ERROR")
               /\ UNCHANGED <<db, damaged, call, supplied, began, committing, committed,
                              operation, open, seen, callers>>
      BY <2>5, <3>2 DEF EndReplay, FailingRollback, EndTransaction
    <3>3. QED
      BY <2>5, <3>1, <3>2 DEF EndReplay
  <2>6. CASE Plan(h)
    BY <2>6 DEF Plan
  <2>7. CASE InsertRecords(h)
    BY <2>7 DEF InsertRecords
  <2>8. CASE InsertOperations(h)
    BY <2>8 DEF InsertOperations
  <2>9. CASE CommitWait(h)
    BY <2>9 DEF CommitWait
  <2>10. CASE Commit(h)
    <3>1. /\ db.ops \subseteq db'.ops
          /\ landed' = landed \cup {call[h]}
          /\ operation[h] \in db'.ops
          /\ operation[h].req = request(h)
      <4>1. operation[h] \in Operation /\ pc[h] = "commit" /\ txn[h].call = call[h] /\ MakeDurable(h)
        BY <2>10 DEF Commit, LocalsOK
      <4>2. operation[h] \in txn[h].ops /\ operation[h].req = request(h)
        BY <4>1, OperationEta DEF PlanOK, NewOperations
      <4>3. QED
        BY <4>1, <4>2, DurableEffect DEF TypeInv
    <3>2. \A g \in Handles : g # h /\ pc[g] \in ExecutePoints => call[g] # call[h]
      BY <2>10 DEF Commit, CallsOK
    <3>3. QED
      BY <2>10, <3>1, <3>2 DEF Commit, MakeDurable, EndTransaction
  <2>11. CASE CommitBusy(h)
    BY <2>11 DEF CommitBusy
  <2>12. CASE Acknowledge(h)
    BY <2>12 DEF Acknowledge, answer, tell, leave
  <2>13. CASE ReportCommitted(h)
    BY <2>13 DEF ReportCommitted, RollbackIfActive, EndTransaction, FailingRollback, answer, tell,
       leave
  <2>14. CASE ReportUnstarted(h)
    BY <2>14 DEF ReportUnstarted, refuse, answer, tell, leave
  <2>15. CASE ReportRolledBack(h)
    BY <2>15 DEF ReportRolledBack, refuse, answer, tell, leave, RollbackIfActive, EndTransaction
  <2>16. CASE ReportUnknown(h)
    BY <2>16 DEF ReportUnknown, FailingRollback, EndTransaction, answer, tell, leave
  <2>17. CASE EndRead(h)
    BY <2>17 DEF EndRead, FailingRollback, EndTransaction
  <2>18. CASE CleanUpRead(h)
    BY <2>18 DEF CleanUpRead, RollbackIfActive, FailingRollback, EndTransaction
  <2>19. QED
    BY <1>2, <2>1, <2>2, <2>3, <2>4, <2>5, <2>6, <2>7, <2>8, <2>9, <2>10, <2>11, <2>12, <2>13,
       <2>14, <2>15, <2>16, <2>17, <2>18 DEF Progress
<1>3. ASSUME NEW h \in Handles, Caller(h) PROVE KnowledgeOK'
  <2>1. ASSUME NEW r \in Requests, NEW s \in Supplies, Ask(h, r, s) PROVE KnowledgeOK'
    <3>1. \A g \in Handles \ {h} :
            /\ pc'[g] = pc[g] /\ call'[g] = call[g]
            /\ pc[g] \in ExecutePoints => asked'[call[g]] = asked[call[g]]
      <4>1. asked[ncalls + 1] = NoRequest
        BY <2>1, BoundsAssumption DEF Ask, CallsOK, Calls
      <4>2. \A g \in Handles : pc[g] \in ExecutePoints => call[g] \in Calls /\ call[g] # ncalls + 1
        BY <4>1 DEF LocalsOK
      <4>3. QED
        BY <2>1, <4>2 DEF Ask
    <3>2. pc'[h] = "validate" /\ call'[h] \notin landed
      BY <2>1, BoundsAssumption DEF Ask, CallsOK, Calls
    <3>3. QED
      BY <2>1, <3>1, <3>2 DEF Ask
  <2>2. CASE Read(h)
    BY <2>2 DEF Read, BeginRead
  <2>3. CASE Close(h)
    BY <2>3 DEF Close, EndTransaction
  <2>4. CASE Reopen(h)
    BY <2>4 DEF Reopen, RestPoints
  <2>5. QED
    BY <1>3, <2>1, <2>2, <2>3, <2>4 DEF Caller
<1>4. ASSUME NEW h \in Handles, Trouble(h) PROVE KnowledgeOK'
  <2>1. CASE CommitFails(h)
    <3>1. CASE UNCHANGED <<db, lock, intx, txn, landed>>
      BY <2>1, <3>1 DEF CommitFails
    <3>2. CASE EndTransaction(h) /\ UNCHANGED <<db, landed>>
      BY <2>1, <3>2 DEF CommitFails, EndTransaction
    <3>3. CASE MakeDurable(h)
      <4>1. db.ops \subseteq db'.ops /\ landed' = landed \cup {call[h]}
        BY <2>1, <3>3, DurableEffect DEF CommitFails
      <4>2. \A g \in Handles : g # h /\ pc[g] \in ExecutePoints => call[g] # call[h]
        BY <2>1 DEF CommitFails, CallsOK
      <4>3. /\ intx'[h] = FALSE
            /\ \A g \in Handles \ {h} : intx'[g] = intx[g] /\ pc'[g] = pc[g]
            /\ pc'[h] = "failed"
            /\ UNCHANGED <<call, asked, began, committing, committed, operation>>
        BY <2>1, <3>3 DEF CommitFails, MakeDurable, EndTransaction
      <4>4. began[h] /\ committing[h] /\ ~ committed[h]
        BY <2>1 DEF CommitFails, LocksOK
      <4>5. QED
        BY <4>1, <4>2, <4>3, <4>4
    <3>4. QED
      BY <2>1, <3>1, <3>2, <3>3 DEF CommitFails
  <2>2. CASE StatementFails(h)
    BY <2>2 DEF StatementFails, EndTransaction
  <2>3. CASE ReadFails(h)
    BY <2>3 DEF ReadFails, EndTransaction
  <2>4. CASE Interrupt(h)
    BY <2>4 DEF Interrupt, RollbackIfActive, EndTransaction, tell, leave
  <2>5. CASE Crash(h)
    BY <2>5 DEF Crash, EndTransaction, leave
  <2>6. QED
    BY <1>4, <2>1, <2>2, <2>3, <2>4, <2>5 DEF Trouble
<1>5. QED
  BY <1>0, <1>1, <1>2, <1>3, <1>4 DEF Next

-----------------------------------------------------------------------------
(* The inductive invariant.                                                *)

IInv == TypeInv /\ LocksOK /\ CallsOK /\ PlanOK /\ KnowledgeOK

LEMMA InitIInv == Init => IInv
<1> SUFFICES ASSUME Init PROVE IInv
  OBVIOUS
<1>1. TypeInv
  BY TypeInit
<1>2. LocksOK
  BY DEF Init, LocksOK, Writers, WorkPoints
<1>3. CallsOK
  BY BoundsAssumption DEF Init, CallsOK, Calls, ExecutePoints
<1>4. PlanOK
  BY DEF Init, PlanOK
<1>5. KnowledgeOK
  BY DEF Init, KnowledgeOK, ExecutePoints
<1>6. QED
  BY <1>1, <1>2, <1>3, <1>4, <1>5 DEF IInv

LEMMA NextIInv == IInv /\ [Next]_vars => IInv'
BY TypeNext, LocksNext, CallsNext, PlanNext, KnowledgeNext DEF IInv

LEMMA Invariance == Spec => []IInv
BY InitIInv, NextIInv, PTL DEF Spec
-----------------------------------------------------------------------------
(* WriteProtocol implements IdempotentLedger.                              *)

\* The abstract specification speaks of the same data.
LEMMA SameData ==
  ASSUME NEW r, NEW d, NEW t
  PROVE  /\ Ledger!Previous(r, d) = Previous(r, d)
         /\ Ledger!Rejections(r, "good", d) = Rejections(r, "good", d)
         /\ Ledger!NewRecords(r, d, t) = NewRecords(r, d, t)
         /\ Ledger!NewOperations(r, d, t) = NewOperations(r, d, t)
<1>1. Ledger!Previous(r, d) = Previous(r, d)
  BY DEF Ledger!Previous, Previous, Ledger!KeyOf, KeyOf
<1>2. Ledger!Rejections(r, "good", d) = Rejections(r, "good", d)
  BY DEF Ledger!Rejections, Rejections, Ledger!Conflicts, Conflicts, Ledger!HistoryConflicts,
         HistoryConflicts, Ledger!Dangling, Dangling, Ledger!Found, Found, Ledger!Owned,
         Owned, Ledger!HistoryOf, HistoryOf, Ledger!KeyOf, KeyOf
<1>3. Ledger!NewRecords(r, d, t) = NewRecords(r, d, t)
  BY DEF Ledger!NewRecords, NewRecords, Ledger!Stamped, Stamped
<1>4. Ledger!NewOperations(r, d, t) = NewOperations(r, d, t)
  BY DEF Ledger!NewOperations, NewOperations
<1>5. QED
  BY <1>1, <1>2, <1>3, <1>4

\* The durable point of COMMIT is where the call takes effect.
LEMMA DurableLands ==
  ASSUME IInv, NEW h \in Handles, pc[h] = "commit", MakeDurable(h), UNCHANGED <<asked, reply>>
  PROVE  Ledger!Next
<1>1. /\ call[h] \in Calls
      /\ asked[call[h]] # NoRequest
      /\ operation[h] \in Operation
  BY DEF IInv, TypeInv, LocalsOK, ExecutePoints
<1>2. call[h] \notin landed /\ reply[call[h]] = Ledger!Pending
  BY DEF IInv, KnowledgeOK, CallsOK, ExecutePoints
<1>3. /\ Previous(request(h), db) = {}
      /\ Rejections(request(h), "good", db) = {}
      /\ txn[h].recs = NewRecords(request(h), db, operation[h].at)
      /\ txn[h].ops = NewOperations(request(h), db, operation[h].at)
  BY DEF IInv, PlanOK
<1>4. db' = [recs |-> db.recs \cup txn[h].recs, ops |-> db.ops \cup txn[h].ops]
  BY DEF MakeDurable
<1>5. landed' = landed \cup {call[h]}
  BY DurableEffect DEF IInv
<1>6. Ledger!Land(call[h], operation[h].at)
  BY <1>1, <1>2, <1>3, <1>4, <1>5, SameData DEF Ledger!Land, Ledger!Open, request
<1>7. QED
  BY <1>1, <1>6 DEF Ledger!Next, Ledger!Calls, Calls, Operation

\* A truthful answer to a call that is being executed.
LEMMA TruthfulAnswers ==
  ASSUME IInv, NEW h \in Handles, pc[h] \in ExecutePoints,
         NEW a \in Ledger!Replies \ {Ledger!Pending}, tell(h, a),
         Ledger!Truthful(call[h], a)
  PROVE  Ledger!Next
<1>1. /\ call[h] \in Calls
      /\ asked[call[h]] # NoRequest
      /\ reply[call[h]] = Ledger!Pending
      /\ reply \in [Calls -> Ledger!Replies]
  BY DEF IInv, TypeInv, LocalsOK, CallsOK, TypeOK, CallersTyped
<1>2. reply' = [reply EXCEPT ![call[h]] = a] /\ UNCHANGED <<db, asked, landed>>
  BY DEF tell
<1>3. reply'[call[h]] = a
  BY <1>1, <1>2
<1>4. Ledger!Answer(call[h])
  BY <1>1, <1>2, <1>3 DEF Ledger!Answer, Ledger!Open
<1>5. QED
  BY <1>1, <1>4 DEF Ledger!Next, Ledger!Calls, Calls

LEMMA HonestRefusal ==
  ASSUME IInv, NEW h \in Handles, pc[h] = "failed", call[h] \notin landed,
         refuse(h, code[h])
  PROVE  Ledger!Next
<1> DEFINE a == [code |-> code[h], state |-> "not_committed", at |-> Untimed, replayed |-> FALSE]
<1>1. code[h] \in ErrorCodes
  BY DEF IInv, TypeInv, LocalsOK
<1>2. a \in Ledger!Replies \ {Ledger!Pending}
  BY <1>1 DEF Ledger!Replies, Ledger!Pending, Ledger!States, Ledger!Codes, ErrorCodes,
              Ledger!NoTime, Ledger!Untimed, Untimed
<1>3. Ledger!Truthful(call[h], a)
  BY <1>1 DEF Ledger!Truthful, ErrorCodes
<1>4. tell(h, a)
  BY DEF refuse, answer
<1>5. QED
  BY <1>2, <1>3, <1>4, TruthfulAnswers DEF ExecutePoints

\* An answer that names this request's durable operation.
LEMMA HonestCommitted ==
  ASSUME IInv, NEW h \in Handles, pc[h] \in ExecutePoints,
         operation[h] \in Operation, operation[h] \in db.ops, operation[h].req = request(h),
         NEW c \in {"COMMITTED", "INTEGRITY_FAILURE", "IO_ERROR", "INTERNAL_ERROR"},
         NEW b \in BOOLEAN, c = "COMMITTED" => (b <=> call[h] \notin landed),
         answer(h, c, "committed", operation[h].at, b)
  PROVE  Ledger!Next
<1> DEFINE a == [code |-> c, state |-> "committed", at |-> operation[h].at, replayed |-> b]
<1>1. a \in Ledger!Replies \ {Ledger!Pending}
  BY DEF Ledger!Replies, Ledger!Pending, Ledger!States, Ledger!Codes, Operation
<1>2. Ledger!Truthful(call[h], a)
  BY DEF Ledger!Truthful, request
<1>3. tell(h, a)
  BY DEF answer
<1>4. QED
  BY <1>1, <1>2, <1>3, TruthfulAnswers

LEMMA LedgerStep == IInv /\ [Next]_vars => [Ledger!Next]_Ledger!vars
<1> SUFFICES ASSUME IInv, [Next]_vars, ~ UNCHANGED Ledger!vars PROVE Ledger!Next
  BY DEF Ledger!vars
<1> USE DEF Ledger!vars, storage, callers
<1>1. CASE UNCHANGED vars \/ Damage
  BY <1>1 DEF vars, Damage
<1>2. ASSUME NEW h \in Handles, Progress(h) PROVE Ledger!Next
  <2>1. CASE EndReplay(h)
    <3>1. answer(h, "COMMITTED", "committed", operation[h].at, TRUE)
      BY <2>1 DEF EndReplay
    <3>2. pc[h] = "endreplay"
      BY <2>1 DEF EndReplay
    <3>3. operation[h] \in Operation /\ operation[h] \in db.ops
          /\ operation[h].req = request(h) /\ call[h] \notin landed
      BY <3>2 DEF IInv, TypeInv, LocalsOK, KnowledgeOK, ExecutePoints
    <3>4. QED
      BY <3>1, <3>2, <3>3, HonestCommitted DEF ExecutePoints
  <2>2. CASE Commit(h)
    BY <2>2, DurableLands DEF Commit
  <2>3. CASE Acknowledge(h)
    <3>1. /\ answer(h, "COMMITTED", "committed", operation[h].at, FALSE)
          /\ pc[h] = "ack"
      BY <2>3 DEF Acknowledge
    <3>2. operation[h] \in Operation /\ operation[h] \in db.ops
          /\ operation[h].req = request(h) /\ call[h] \in landed
      BY <3>1 DEF IInv, TypeInv, LocalsOK, KnowledgeOK
    <3>3. QED
      BY <3>1, <3>2, HonestCommitted DEF ExecutePoints
  <2>4. CASE ReportCommitted(h)
    <3> DEFINE c == IF code[h] \in {"INTEGRITY_FAILURE", "IO_ERROR", "INTERNAL_ERROR"}
                    THEN code[h] ELSE "INTERNAL_ERROR"
    <3>1. /\ answer(h, c, "committed", operation[h].at, FALSE)
          /\ pc[h] = "failed" /\ committed[h]
      BY <2>4 DEF ReportCommitted
    <3>2. operation[h] \in Operation /\ operation[h] \in db.ops
          /\ operation[h].req = request(h)
      BY <3>1 DEF IInv, TypeInv, LocalsOK, KnowledgeOK
    <3>3. c \in {"INTEGRITY_FAILURE", "IO_ERROR", "INTERNAL_ERROR"}
      OBVIOUS
    <3> HIDE DEF c
    <3>4. QED
      BY <3>1, <3>2, <3>3, HonestCommitted DEF ExecutePoints
  <2>5. CASE ReportUnstarted(h) \/ ReportRolledBack(h)
    <3>1. pc[h] = "failed" /\ refuse(h, code[h])
          /\ (~ began[h] \/ intx[h] \/ ~ committing[h])
      BY <2>5 DEF ReportUnstarted, ReportRolledBack
    <3>2. call[h] \notin landed
      BY <3>1 DEF IInv, KnowledgeOK
    <3>3. QED
      BY <3>1, <3>2, HonestRefusal
  <2>6. CASE ReportUnknown(h)
    <3> DEFINE a == [code |-> "DURABILITY_UNKNOWN", state |-> "unknown", at |-> Untimed,
                     replayed |-> FALSE]
    <3>1. pc[h] = "failed" /\ tell(h, a)
      BY <2>6 DEF ReportUnknown, answer
    <3>2. a \in Ledger!Replies \ {Ledger!Pending}
      BY DEF Ledger!Replies, Ledger!Pending, Ledger!States, Ledger!Codes, Ledger!NoTime,
             Ledger!Untimed, Untimed
    <3>3. Ledger!Truthful(call[h], a)
      BY DEF Ledger!Truthful
    <3>4. QED
      BY <3>1, <3>2, <3>3, TruthfulAnswers DEF ExecutePoints
  <2>7. CASE \/ Validate(h) \/ Begin(h) \/ Lookup(h) \/ CheckReplay(h) \/ Plan(h)
             \/ InsertRecords(h) \/ InsertOperations(h) \/ CommitWait(h) \/ CommitBusy(h)
             \/ EndRead(h) \/ CleanUpRead(h)
    BY <2>7 DEF Validate, Begin, Lookup, CheckReplay, Plan, InsertRecords, InsertOperations,
                CommitWait, CommitBusy, EndRead, CleanUpRead
  <2>8. QED
    BY <1>2, <2>1, <2>2, <2>3, <2>4, <2>5, <2>6, <2>7 DEF Progress
<1>3. ASSUME NEW h \in Handles, Caller(h) PROVE Ledger!Next
  <2>1. ASSUME NEW r \in Requests, NEW s \in Supplies, Ask(h, r, s) PROVE Ledger!Next
    <3>1. ncalls + 1 \in Calls /\ asked[ncalls + 1] = NoRequest
      BY <2>1, BoundsAssumption DEF Ask, IInv, TypeInv, TypeOK, CallersTyped, CallsOK, Calls
    <3>2. Ledger!Ask(ncalls + 1, r)
      BY <2>1, <3>1 DEF Ask, Ledger!Ask
    <3>3. QED
      BY <3>1, <3>2 DEF Ledger!Next, Ledger!Calls, Calls
  <2>2. CASE Read(h) \/ Close(h) \/ Reopen(h)
    BY <2>2 DEF Read, Close, Reopen
  <2>3. QED
    BY <1>3, <2>1, <2>2 DEF Caller
<1>4. ASSUME NEW h \in Handles, Trouble(h) PROVE Ledger!Next
  <2>1. CASE CommitFails(h)
    BY <2>1, DurableLands DEF CommitFails
  <2>2. CASE StatementFails(h) \/ ReadFails(h)
    BY <2>2 DEF StatementFails, ReadFails
  <2>3. CASE Interrupt(h)
    <3>1. pc[h] \in ExecutePoints /\ tell(h, Ledger!Interrupted)
      BY <2>3 DEF Interrupt
    <3>2. Ledger!Interrupted \in Ledger!Replies \ {Ledger!Pending}
      BY DEF Ledger!Replies, Ledger!Pending, Ledger!Interrupted
    <3>3. Ledger!Truthful(call[h], Ledger!Interrupted)
      BY DEF Ledger!Truthful, Ledger!Interrupted
    <3>4. QED
      BY <3>1, <3>2, <3>3, TruthfulAnswers
  <2>4. CASE Crash(h)
    <3>1. pc[h] \in ExecutePoints /\ reply' = [reply EXCEPT ![call[h]] = Ledger!Lost]
          /\ UNCHANGED <<db, asked, landed>>
      BY <2>4 DEF Crash
    <3>2. /\ call[h] \in Calls
          /\ asked[call[h]] # NoRequest
          /\ reply[call[h]] = Ledger!Pending
          /\ reply \in [Calls -> Ledger!Replies]
      BY <3>1 DEF IInv, TypeInv, LocalsOK, CallsOK, TypeOK, CallersTyped
    <3>3. reply'[call[h]] = Ledger!Lost
      BY <3>1, <3>2
    <3>4. Ledger!Answer(call[h])
      BY <3>1, <3>2, <3>3 DEF Ledger!Answer, Ledger!Open, Ledger!Replies, Ledger!Lost,
                               Ledger!Pending, Ledger!Truthful
    <3>5. QED
      BY <3>2, <3>4 DEF Ledger!Next, Ledger!Calls, Calls
  <2>5. QED
    BY <1>4, <2>1, <2>2, <2>3, <2>4 DEF Trouble
<1>5. QED
  BY <1>1, <1>2, <1>3, <1>4 DEF Next

LEMMA LedgerInit == Init => Ledger!Init
BY DEF Init, Ledger!Init, EmptyDatabase, Ledger!EmptyDatabase, Ledger!Calls, Calls

\* execute, whatever interleaves with it and whatever fails, is the ledger
\* its callers were promised: each call takes effect at most once, at the
\* durable point of its own commit, and is told nothing untrue.
THEOREM Implementation == Spec => ImplementsLedger
<1>1. IInv /\ [Next]_vars => [Ledger!Next]_Ledger!vars
  BY LedgerStep
<1>2. QED
  BY <1>1, LedgerInit, Invariance, PTL DEF Spec, Ledger!Spec, ImplementsLedger
-----------------------------------------------------------------------------
(* What follows of the answers, of the readers and of the database.        *)

\* Whatever the ledger does, what was answered stays true.
LEMMA HonestNext ==
  ASSUME IInv, IInv', CommitStateHonest, [Ledger!Next]_Ledger!vars
  PROVE  CommitStateHonest'
<1> SUFFICES ASSUME NEW c \in Calls, asked'[c] # NoRequest
             PROVE  Ledger!Truthful(c, reply[c])'
  BY DEF CommitStateHonest
<1> USE DEF Ledger!Calls, Calls
<1>1. /\ asked \in [Calls -> Requests \cup {NoRequest}]
      /\ reply \in [Calls -> Ledger!Replies]
      /\ asked[c] = NoRequest => reply[c] = Ledger!Pending
  BY DEF IInv, CallsOK, TypeInv, TypeOK, CallersTyped
<1>2. reply'[c] = Ledger!Pending => Ledger!Truthful(c, reply[c])'
  BY DEF Ledger!Truthful, Ledger!Pending
<1>3. CASE UNCHANGED Ledger!vars
  BY <1>3 DEF Ledger!vars, CommitStateHonest, Ledger!Truthful
<1>4. ASSUME NEW d \in Calls, NEW r \in Requests, Ledger!Ask(d, r)
      PROVE  Ledger!Truthful(c, reply[c])'
  <2>1. CASE c = d
    BY <1>1, <1>2, <1>4, <2>1 DEF Ledger!Ask
  <2>2. CASE c # d
    BY <1>1, <1>4, <2>2 DEF Ledger!Ask, CommitStateHonest, Ledger!Truthful
  <2>3. QED
    BY <2>1, <2>2
<1>5. ASSUME NEW d \in Calls, NEW t \in Times, Ledger!Land(d, t)
      PROVE  Ledger!Truthful(c, reply[c])'
  <2>1. CASE c = d
    BY <1>2, <1>5, <2>1 DEF Ledger!Land, Ledger!Open
  <2>2. CASE c # d
    <3>1. Ledger!Truthful(c, reply[c])
      BY <1>5, <2>2 DEF Ledger!Land, CommitStateHonest
    <3>2. /\ db.ops \subseteq db'.ops /\ asked' = asked /\ reply' = reply
          /\ c \in landed' <=> c \in landed
      BY <1>5, <2>2 DEF Ledger!Land
    <3>3. QED
      BY <3>1, <3>2 DEF Ledger!Truthful
  <2>3. QED
    BY <2>1, <2>2
<1>6. ASSUME NEW d \in Calls, Ledger!Answer(d)
      PROVE  Ledger!Truthful(c, reply[c])'
  <2>1. UNCHANGED <<db, asked, landed>>
    BY <1>6 DEF Ledger!Answer
  <2>2. Ledger!Truthful(c, reply'[c])
    <3>1. CASE c = d
      BY <1>6, <3>1 DEF Ledger!Answer
    <3>2. CASE c # d
      <4>1. reply'[c] = reply[c]
        BY <1>1, <1>6, <3>2 DEF Ledger!Answer
      <4>2. QED
        BY <2>1, <4>1 DEF CommitStateHonest
    <3>3. QED
      BY <3>1, <3>2
  <2>3. QED
    BY <2>1, <2>2 DEF Ledger!Truthful
<1>7. QED
  BY <1>3, <1>4, <1>5, <1>6 DEF Ledger!Next

\* commit_state is honest about every call ever answered (the answers of
\* execute and the handler at 403-439).
THEOREM HonestAnswers == Spec => []CommitStateHonest
<1>1. Init => CommitStateHonest
  BY DEF Init, CommitStateHonest
<1>2. IInv /\ IInv' /\ CommitStateHonest /\ [Next]_vars => CommitStateHonest'
  BY LedgerStep, HonestNext
<1>3. QED
  BY <1>1, <1>2, Invariance, NextIInv, PTL DEF Spec

\* What a read transaction has read stays committed until it ends (_read).
THEOREM ReadsAreStable == Spec => []StableReads
<1>1. IInv => StableReads
  BY DEF IInv, LocksOK, StableReads
<1>2. QED
  BY <1>1, Invariance, PTL

\* A step of h moves no other handle.
LEMMA OneMoves ==
  ASSUME LocalTyped, NEW h \in Handles, Progress(h) \/ Caller(h) \/ Trouble(h)
  PROVE  \E p : pc' = [pc EXCEPT ![h] = p]
<1> USE DEF goto, raise, storage, local, LocalTyped
<1>1. pc = [pc EXCEPT ![h] = pc[h]]
  OBVIOUS
<1>2. CASE Progress(h)
  BY <1>1, <1>2 DEF Progress, Validate, Begin, Lookup, CheckReplay, EndReplay, Plan,
     InsertRecords, InsertOperations, CommitWait, Commit, CommitBusy, Acknowledge,
     ReportCommitted, ReportUnstarted, ReportRolledBack, ReportUnknown, EndRead,
     CleanUpRead, answer, refuse, tell
<1>3. CASE Caller(h)
  BY <1>1, <1>3 DEF Caller, Ask, Read, Close, Reopen
<1>4. CASE Trouble(h)
  BY <1>1, <1>4 DEF Trouble, CommitFails, StatementFails, ReadFails, Interrupt, Crash, tell
<1>5. QED
  BY <1>2, <1>3, <1>4

\* A call that answers a success or not_committed leaves no transaction of
\* its own behind (the rollbacks of execute and of its handler).
THEOREM AnswersRelease == Spec => AnswerReleasesTransaction
<1> DEFINE Release ==
      \A h \in Handles :
        /\ began[h]
        /\ pc[h] \in ExecutePoints
        /\ pc'[h] = "idle"
        /\ \/ reply'[call[h]].code = "COMMITTED"
           \/ reply'[call[h]].state = "not_committed"
        => ~ intx'[h] /\ lock'[h] = "none"
<1>1. IInv /\ [Next]_vars => Release
  <2> SUFFICES ASSUME IInv, [Next]_vars, NEW g \in Handles,
                      began[g], pc[g] \in ExecutePoints, pc'[g] = "idle",
                      \/ reply'[call[g]].code = "COMMITTED"
                      \/ reply'[call[g]].state = "not_committed"
               PROVE  ~ intx'[g] /\ lock'[g] = "none"
    OBVIOUS
  <2> StorageTyped /\ LocalTyped /\ CallersTyped /\ LocksOK
    BY DEF IInv, TypeInv, TypeOK
  <2>0. call[g] \in Calls /\ reply \in [Calls -> Ledger!Replies]
    BY DEF IInv, TypeInv, LocalsOK, CallersTyped
  <2> USE DEF goto, raise, storage, local, ExecutePoints, LocalTyped, StorageTyped
  <2>1. CASE UNCHANGED vars \/ Damage
    BY <2>1 DEF vars, Damage
  <2>2. CASE EndReplay(g)
    BY <2>2 DEF EndReplay, EndTransaction
  <2>3. CASE Acknowledge(g)
    BY <2>3 DEF Acknowledge, LocksOK
  <2>4. CASE ReportCommitted(g)
    <3> DEFINE c == IF code[g] \in {"INTEGRITY_FAILURE", "IO_ERROR", "INTERNAL_ERROR"}
                    THEN code[g] ELSE "INTERNAL_ERROR"
    <3>1. reply'[call[g]] = [code |-> c, state |-> "committed", at |-> operation[g].at,
                             replayed |-> FALSE]
      BY <2>0, <2>4 DEF ReportCommitted, answer, tell
    <3>2. c # "COMMITTED"
      OBVIOUS
    <3>3. QED
      BY <3>1, <3>2
  <2>5. CASE ReportUnstarted(g)
    BY <2>5 DEF ReportUnstarted
  <2>6. CASE ReportRolledBack(g)
    <3>1. RollbackIfActive(g)
      BY <2>6 DEF ReportRolledBack
    <3>2. CASE intx[g]
      BY <3>1, <3>2 DEF RollbackIfActive, EndTransaction
    <3>3. CASE ~ intx[g]
      BY <3>1, <3>3 DEF RollbackIfActive, LocksOK
    <3>4. QED
      BY <3>2, <3>3
  <2>7. CASE ReportUnknown(g)
    BY <2>0, <2>7 DEF ReportUnknown, answer, tell
  <2>8. CASE Interrupt(g)
    BY <2>0, <2>8 DEF Interrupt, tell, Ledger!Interrupted
  <2>9. ASSUME NEW h \in Handles, h # g, Progress(h) \/ Caller(h) \/ Trouble(h)
        PROVE  pc'[g] = pc[g]
    <3>1. \E p : pc' = [pc EXCEPT ![h] = p]
      BY <2>9, OneMoves
    <3>2. QED
      BY <2>9, <3>1
  <2>10. CASE \/ Validate(g) \/ Begin(g) \/ Lookup(g) \/ CheckReplay(g) \/ Plan(g)
              \/ InsertRecords(g) \/ InsertOperations(g) \/ CommitWait(g) \/ Commit(g)
              \/ CommitBusy(g) \/ EndRead(g) \/ CleanUpRead(g) \/ Caller(g)
              \/ CommitFails(g) \/ StatementFails(g) \/ ReadFails(g) \/ Crash(g)
    BY <2>10 DEF Validate, Begin, Lookup, CheckReplay, Plan, InsertRecords,
       InsertOperations, CommitWait, Commit, CommitBusy, EndRead, CleanUpRead, Caller, Ask,
       Read, Close, Reopen, CommitFails, StatementFails, ReadFails, Crash, RestPoints
  <2>11. QED
    BY <2>1, <2>2, <2>3, <2>4, <2>5, <2>6, <2>7, <2>8, <2>9, <2>10
       DEF Next, Progress, Trouble
<1>2. QED
  BY <1>1, Invariance, PTL DEF Spec, AnswerReleasesTransaction
-----------------------------------------------------------------------------
(* What the database holds.                                                *)

OneResult(d) ==
  /\ \A o, p \in d.ops : KeyOf(o) = KeyOf(p) => o = p
  /\ \A x, y \in d.recs : x.id = y.id => x = y

\* d after request r has been carried out on it at time t.
After(r, d, t) == [recs |-> d.recs \cup NewRecords(r, d, t),
                   ops |-> d.ops \cup NewOperations(r, d, t)]

LEMMA OneResultAfter ==
  ASSUME NEW r \in Requests, NEW t \in Times, NEW d \in Database,
         Previous(r, d) = {}, Rejections(r, "good", d) = {}, OneResult(d)
  PROVE  OneResult(After(r, d, t))
<1> DEFINE own == [req |-> r, at |-> t]
<1>1. ~ Conflicts(r, d) /\ ~ HistoryConflicts(r, d)
  BY DEF Rejections
<1>2. ASSUME NEW o \in After(r, d, t).ops, NEW p \in After(r, d, t).ops, KeyOf(o) = KeyOf(p)
      PROVE  o = p
  <2>1. \A q \in After(r, d, t).ops : q \in d.ops \/ q \in Body[r].history \/ q = own
    BY DEF After, NewOperations
  <2>2. KeyOf(own) = Body[r].key
    BY DEF KeyOf
  <2>3. \A q \in d.ops \cup Body[r].history : KeyOf(q) # Body[r].key
    BY <1>1 DEF HistoryConflicts, Previous
  <2>4. \A q \in Body[r].history, s \in d.ops : KeyOf(q) = KeyOf(s) => q = s
    BY <1>1 DEF HistoryConflicts
  <2>5. \A q, s \in Body[r].history : KeyOf(q) = KeyOf(s) => q = s
    BY BundleAssumption
  <2>6. \A q, s \in d.ops : KeyOf(q) = KeyOf(s) => q = s
    BY DEF OneResult
  <2> HIDE DEF own
  <2>7. QED
    BY <1>2, <2>1, <2>2, <2>3, <2>4, <2>5, <2>6
<1>3. ASSUME NEW x \in After(r, d, t).recs, NEW y \in After(r, d, t).recs, x.id = y.id
      PROVE  x = y
  <2>1. \A z \in After(r, d, t).recs : z \in d.recs \/ z \in Body[r].carried \/ z \in Stamped(r, t)
    BY DEF After, NewRecords
  <2>2. \A z \in Stamped(r, t) :
          /\ z.id \in Owned(Body[r].timed)
          /\ z.id \notin Owned(d.recs)
          /\ z.id \notin Owned(Body[r].carried)
    <3> SUFFICES ASSUME NEW z \in Stamped(r, t)
                 PROVE  /\ z.id \in Owned(Body[r].timed)
                        /\ z.id \notin Owned(d.recs)
                        /\ z.id \notin Owned(Body[r].carried)
      OBVIOUS
    <3>1. z.id \in Owned(Body[r].timed)
      BY DEF Stamped, Owned
    <3>2. Owned(Body[r].timed) \cap Owned(d.recs) = {}
      BY <1>1 DEF Conflicts
    <3>3. Owned(Body[r].timed) \cap Owned(Body[r].carried) = {}
      BY BundleAssumption
    <3>4. QED
      BY <3>1, <3>2, <3>3
  <2>3. \A z, w \in Stamped(r, t) : z.id = w.id => z = w
    BY BundleAssumption DEF Stamped
  <2>4. \A z, w \in Body[r].carried : z.id = w.id => z = w
    BY BundleAssumption
  <2>5. \A z \in Body[r].carried, w \in d.recs : z.id = w.id => z = w
    BY <1>1 DEF Conflicts
  <2>6. \A z, w \in d.recs : z.id = w.id => z = w
    BY DEF OneResult
  <2>7. /\ \A z \in d.recs : z.id \in Owned(d.recs)
        /\ \A z \in Body[r].carried : z.id \in Owned(Body[r].carried)
    BY DEF Owned
  <2>8. QED
    BY <1>3, <2>1, <2>2, <2>3, <2>4, <2>5, <2>6, <2>7
<1>4. QED
  BY <1>2, <1>3 DEF OneResult

\* The database changes only by carrying out a request with nothing against it.
LEMMA DatabaseStep ==
  ASSUME IInv, [Next]_vars, db' # db
  PROVE  \E r \in Requests, t \in Times :
           /\ Previous(r, db) = {}
           /\ Rejections(r, "good", db) = {}
           /\ db' = After(r, db, t)
<1>1. PICK c \in Calls, t \in Times : Ledger!Land(c, t)
  BY LedgerStep DEF Ledger!Next, Ledger!Ask, Ledger!Answer, Ledger!vars, Ledger!Calls, Calls
<1>2. asked[c] \in Requests
  BY <1>1 DEF Ledger!Land, Ledger!Open, IInv, TypeInv, TypeOK, CallersTyped
<1>3. /\ Previous(asked[c], db) = {}
      /\ Rejections(asked[c], "good", db) = {}
      /\ db' = After(asked[c], db, t)
  <2>1. /\ Ledger!Previous(asked[c], db) = {}
        /\ Ledger!Rejections(asked[c], "good", db) = {}
        /\ db' = [recs |-> db.recs \cup Ledger!NewRecords(asked[c], db, t),
                  ops |-> db.ops \cup Ledger!NewOperations(asked[c], db, t)]
    BY <1>1 DEF Ledger!Land
  <2>2. QED
    BY <2>1, SameData DEF After
<1>4. QED
  BY <1>2, <1>3

\* An idempotency tuple keeps one result and an owned identity one record,
\* whoever races for it (the planners' conflict tests under the write lock).
THEOREM OneResultEach == Spec => []OneResultPerIdentity
<1>1. Init => OneResult(db)
  BY DEF Init, EmptyDatabase, OneResult
<1>2. IInv /\ OneResult(db) /\ [Next]_vars => OneResult(db)'
  <2> SUFFICES ASSUME IInv, OneResult(db), [Next]_vars, db' # db PROVE OneResult(db')
    BY DEF OneResult
  <2>1. db \in Database
    BY DEF IInv, TypeInv, TypeOK, StorageTyped
  <2>2. QED
    BY <2>1, DatabaseStep, OneResultAfter
<1>3. OneResult(db) => OneResultPerIdentity
  BY DEF OneResult, OneResultPerIdentity, KeyOf
<1>4. QED
  BY <1>1, <1>2, <1>3, Invariance, PTL DEF Spec

\* What is promised of durable effects outlasts every step of the ledger.
LEMMA CompleteNext ==
  ASSUME IInv, EffectsComplete, [Ledger!Next]_Ledger!vars
  PROVE  EffectsComplete'
<1>1. /\ \A c \in landed : c \in Calls /\ asked[c] # NoRequest
      /\ asked \in [Calls -> Requests \cup {NoRequest}]
  BY DEF IInv, TypeInv, TypeOK, CallersTyped, CallsOK
<1>2. CASE UNCHANGED <<db, landed>> /\ \A c \in landed : asked'[c] = asked[c]
  BY <1>2 DEF EffectsComplete, Whole
<1>3. ASSUME NEW c \in Calls, NEW t \in Times, Ledger!Land(c, t) PROVE EffectsComplete'
  <2> DEFINE r == asked[c]
             own == [req |-> r, at |-> t]
  <2>1. r \in Requests
    BY <1>1, <1>3 DEF Ledger!Land, Ledger!Open
  <2>2. UNCHANGED asked /\ landed' = landed \cup {c}
    BY <1>3 DEF Ledger!Land
  <2>3. /\ db'.recs = db.recs \cup NewRecords(r, db, t)
        /\ db'.ops = db.ops \cup NewOperations(r, db, t)
    BY <1>3, SameData DEF Ledger!Land
  <2>4. /\ db'.recs = db.recs \cup Stamped(r, t) \cup Body[r].carried
        /\ db'.ops = db.ops \cup Body[r].history \cup {own}
    BY <2>3 DEF NewRecords, NewOperations
  <2>5. own.req = r /\ own.at = t
    OBVIOUS
  <2> HIDE DEF r, own
  <2>6. \A o \in db.ops : Whole(o, db) => Whole(o, db')
    BY <2>4 DEF Whole
  <2>7. Whole(own, db')
    BY <2>4, <2>5 DEF Whole
  <2>8. \A e \in landed' : \E o \in db'.ops : o.req = asked'[e] /\ Whole(o, db')
    BY <2>2, <2>4, <2>5, <2>6, <2>7 DEF EffectsComplete, r
  <2>9. \A o \in db'.ops : \E e \in landed' : o.req = asked'[e] \/ o \in Body[asked'[e]].history
    BY <2>2, <2>4, <2>5 DEF EffectsComplete, r
  <2>10. \A x \in db'.recs : \E e \in landed' :
           \/ x \in Body[asked'[e]].carried
           \/ x.by = asked'[e] /\ x.id \in Owned(Body[asked'[e]].timed)
    <3>1. \A x \in Stamped(r, t) : x.by = r /\ x.id \in Owned(Body[r].timed)
      BY DEF Stamped, Owned
    <3>2. QED
      BY <2>2, <2>4, <3>1 DEF EffectsComplete, r
  <2>11. \A o \in db'.ops : Body[o.req].result \in Owned(db'.recs)
    <3>1. Body[r].result \in Owned(Stamped(r, t))
      <4>1. Body[r].result \in Owned(Body[r].timed)
        BY <2>1, BundleAssumption
      <4>2. PICK x \in Body[r].timed : x.id = Body[r].result
        BY <4>1 DEF Owned
      <4>3. [id |-> x.id, art |-> x.art, by |-> r, at |-> t] \in Stamped(r, t)
        BY DEF Stamped
      <4>4. QED
        BY <4>2, <4>3 DEF Owned
    <3>2. \A o \in Body[r].history : Body[o.req].result \in Owned(Body[r].carried)
      BY <2>1, BundleAssumption
    <3>3. Owned(db.recs) \cup Owned(Stamped(r, t)) \cup Owned(Body[r].carried) \subseteq Owned(db'.recs)
      BY <2>4 DEF Owned
    <3>4. QED
      BY <2>4, <2>5, <3>1, <3>2, <3>3 DEF EffectsComplete
  <2>12. QED
    BY <2>8, <2>9, <2>10, <2>11 DEF EffectsComplete
<1>4. QED
  BY <1>1, <1>2, <1>3 DEF Ledger!Next, Ledger!Ask, Ledger!Answer, Ledger!vars, Ledger!Calls, Calls

\* A call that became durable is there whole and for ever, nothing else is
\* there, and what an operation names as its result is (the one transaction
\* around 389-401; validate_metadata of a package).
THEOREM EffectsAreComplete == Spec => []EffectsComplete
<1>1. Init => EffectsComplete
  BY DEF Init, EmptyDatabase, EffectsComplete
<1>2. IInv /\ EffectsComplete /\ [Next]_vars => EffectsComplete'
  BY LedgerStep, CompleteNext
<1>3. QED
  BY <1>1, <1>2, Invariance, PTL DEF Spec
-----------------------------------------------------------------------------
(* INTEGRITY_FAILURE.                                                      *)

\* Why handle h may be about to report INTEGRITY_FAILURE.
Cause(h) ==
  \/ damaged # {}
  \/ /\ ~ committed[h]
     /\ \/ supplied[h] \in {"altered", "malformed"}
        \/ h \in Writers /\ Dangling(request(h), db)
  \/ committed[h] /\ \A c \in landed : asked[c] # request(h)

Alarmed(h) == pc[h] = "failed" /\ code[h] = "INTEGRITY_FAILURE"

AlarmsOK == \A h \in Handles : Alarmed(h) => Cause(h)

\* What h has raised stays as it was.
StillAlarmed(h) ==
  /\ Alarmed(h)
  /\ UNCHANGED <<committed[h], supplied[h], request(h), lock[h]>>

LEMMA ReplayFindsOriginal ==
  ASSUME NEW r, NEW d, NEW o, o.req = r, Whole(o, d)
  PROVE  ReplayMatches(r, d)
<1>1. \A x \in Body[r].timed :
        [id |-> x.id, art |-> x.art, by |-> r, at |-> o.at] \in d.recs
  BY DEF Whole, Stamped
<1>2. \A x \in Body[r].timed : \E y \in d.recs : y.id = x.id /\ y.art = x.art /\ y.by = r
  BY <1>1
<1>3. QED
  BY <1>2 DEF ReplayMatches, Whole

LEMMA InsertionsAreNew ==
  ASSUME NEW r, NEW d, NEW t, Previous(r, d) = {}, Rejections(r, "good", d) = {}
  PROVE  /\ Owned(NewRecords(r, d, t)) \cap Owned(d.recs) = {}
         /\ \A o \in NewOperations(r, d, t), p \in d.ops : KeyOf(o) # KeyOf(p)
<1>1. ~ Conflicts(r, d) /\ ~ HistoryConflicts(r, d)
  BY DEF Rejections
<1>2. ASSUME NEW x \in NewRecords(r, d, t), NEW y \in d.recs, x.id = y.id PROVE FALSE
  <2>1. CASE x \in Stamped(r, t)
    <3>1. x.id \in Owned(Body[r].timed)
      BY <2>1 DEF Stamped, Owned
    <3>2. y.id \in Owned(d.recs)
      BY DEF Owned
    <3>3. Owned(Body[r].timed) \cap Owned(d.recs) = {}
      BY <1>1 DEF Conflicts
    <3>4. QED
      BY <1>2, <3>1, <3>2, <3>3
  <2>2. CASE x \in Body[r].carried \ d.recs
    BY <1>1, <1>2, <2>2 DEF Conflicts
  <2>3. QED
    BY <2>1, <2>2 DEF NewRecords
<1>3. Owned(NewRecords(r, d, t)) \cap Owned(d.recs) = {}
  BY <1>2 DEF Owned
<1>4. ASSUME NEW o \in NewOperations(r, d, t), NEW p \in d.ops, KeyOf(o) = KeyOf(p) PROVE FALSE
  <2>1. CASE o = [req |-> r, at |-> t]
    BY <1>4, <2>1 DEF KeyOf, Previous
  <2>2. CASE o \in Body[r].history \ d.ops
    BY <1>1, <1>4, <2>2 DEF HistoryConflicts
  <2>3. QED
    BY <2>1, <2>2 DEF NewOperations
<1>5. QED
  BY <1>3, <1>4

\* Every step that raises INTEGRITY_FAILURE has a cause for it.
LEMMA AlarmRaised ==
  ASSUME IInv, EffectsComplete, [Next]_vars, NEW g \in Handles, Alarmed(g)'
  PROVE  StillAlarmed(g) \/ Cause(g)'
<1> DEFINE Goal == StillAlarmed(g) \/ Cause(g)'
<1> SUFFICES Goal
  OBVIOUS
<1> StorageTyped /\ LocalTyped /\ CallersTyped
  BY DEF IInv, TypeInv, TypeOK
<1> USE DEF goto, raise, storage, local, callers, ExecutePoints, WorkPoints, Alarmed, StorageTyped,
            LocalTyped, CallersTyped, request
<1>0. CASE UNCHANGED vars
  BY <1>0 DEF vars, StillAlarmed
<1>1. CASE Damage
  BY <1>1 DEF Damage, StillAlarmed
<1>2. ASSUME NEW h \in Handles, Progress(h) PROVE Goal
  <2>0. h # g => (Validate(h) \/ Lookup(h) \/ CheckReplay(h) \/ Plan(h) \/ InsertRecords(h)
                    \/ InsertOperations(h) => StillAlarmed(g))
    BY DEF Validate, Lookup, CheckReplay, Plan, InsertRecords, InsertOperations, StillAlarmed
  <2>1. CASE Validate(h)
    <3>1. CASE h = g
      <4>1. ~ committed[g]
        BY <2>1, <3>1 DEF Validate, IInv, KnowledgeOK
      <4>2. supplied[g] = "malformed" /\ UNCHANGED <<committed, supplied>>
        BY <2>1, <3>1 DEF Validate
      <4>3. QED
        BY <4>1, <4>2 DEF Cause
    <3>2. QED
      BY <2>0, <2>1, <3>1
  <2>2. CASE Lookup(h)
    <3>1. CASE h = g
      <4>1. Body[request(g)].key \in damaged /\ UNCHANGED damaged
        BY <2>2, <3>1 DEF Lookup
      <4>2. QED
        BY <4>1 DEF Cause
    <3>2. QED
      BY <2>0, <2>2, <3>1
  <2>3. CASE CheckReplay(h)
    <3>1. CASE h = g
      <4>1. UNCHANGED <<damaged, supplied, call, asked, landed, db>>
        BY <2>3 DEF CheckReplay
      <4>2. committed[g]
        BY <2>3, <3>1 DEF CheckReplay, IInv, KnowledgeOK
      <4>3. CASE damaged # {}
        BY <4>1, <4>3 DEF Cause
      <4>4. CASE damaged = {} /\ ~ ReplayMatches(request(g), db)
        <5>1. \A c \in landed : asked[c] # request(g)
          BY <4>4, ReplayFindsOriginal DEF EffectsComplete
        <5>2. UNCHANGED committed
          BY <2>3, <3>1, <4>4 DEF CheckReplay
        <5>3. QED
          BY <4>1, <4>2, <5>1, <5>2 DEF Cause
      <4>5. CASE damaged = {} /\ ReplayMatches(request(g), db)
        <5>1. supplied[g] = "altered" /\ ~ committed'[g]
          BY <2>3, <3>1, <4>5 DEF CheckReplay
        <5>2. QED
          BY <4>1, <5>1 DEF Cause
      <4>6. QED
        BY <4>3, <4>4, <4>5
    <3>2. QED
      BY <2>0, <2>3, <3>1
  <2>4. CASE Plan(h)
    <3>1. CASE h = g
      <4>1. UNCHANGED <<damaged, supplied, call, asked, landed, db, lock, committed>>
        BY <2>4 DEF Plan
      <4>2. ~ committed[g] /\ g \in Writers
        BY <2>4, <3>1 DEF Plan, IInv, KnowledgeOK, LocksOK
      <4>3. g \in Writers'
        BY <4>1, <4>2 DEF Writers
      <4>4. CASE damaged # {}
        BY <4>1, <4>4 DEF Cause
      <4>5. CASE damaged = {}
        <5>1. "INTEGRITY_FAILURE" \in Rejections(request(g), supplied[g], db)
          BY <2>4, <3>1, <4>5 DEF Plan
        <5>2. supplied[g] = "altered" \/ Dangling(request(g), db)
          BY <5>1 DEF Rejections
        <5>3. request(g)' = request(g) /\ db' = db
          BY <4>1
        <5>4. QED
          BY <4>1, <4>2, <4>3, <5>2, <5>3 DEF Cause
      <4>6. QED
        BY <4>4, <4>5
    <3>2. QED
      BY <2>0, <2>4, <3>1
  <2>5. CASE InsertRecords(h)
    <3>1. CASE h = g
      <4>1. Previous(request(h), db) = {} /\ Rejections(request(h), "good", db) = {}
        BY <2>5 DEF InsertRecords, IInv, PlanOK
      <4>2. Owned(NewRecords(request(h), db, operation[h].at)) \cap Owned(db.recs) = {}
        BY <4>1, InsertionsAreNew
      <4>3. QED
        BY <2>5, <3>1, <4>2 DEF InsertRecords
    <3>2. QED
      BY <2>0, <2>5, <3>1
  <2>6. CASE InsertOperations(h)
    <3>1. CASE h = g
      <4>1. Previous(request(h), db) = {} /\ Rejections(request(h), "good", db) = {}
        BY <2>6 DEF InsertOperations, IInv, PlanOK
      <4>2. \A o \in NewOperations(request(h), db, operation[h].at), p \in db.ops : KeyOf(o) # KeyOf(p)
        BY <4>1, InsertionsAreNew
      <4>3. QED
        BY <2>6, <3>1, <4>2 DEF InsertOperations
    <3>2. QED
      BY <2>0, <2>6, <3>1
  <2>7. CASE Begin(h)
    BY <2>7 DEF Begin, BeginImmediate, EmptyTxn, StillAlarmed
  <2>8. CASE EndReplay(h)
    BY <2>8 DEF EndReplay, EndTransaction, FailingRollback, answer, tell, leave, StillAlarmed
  <2>9. CASE CommitWait(h)
    BY <2>9 DEF CommitWait, StillAlarmed
  <2>10. CASE Commit(h)
    BY <2>10 DEF Commit, MakeDurable, EndTransaction, StillAlarmed
  <2>11. CASE CommitBusy(h)
    BY <2>11 DEF CommitBusy, StillAlarmed
  <2>12. CASE Acknowledge(h)
    BY <2>12 DEF Acknowledge, answer, tell, leave, StillAlarmed
  <2>13. CASE ReportCommitted(h)
    BY <2>13 DEF ReportCommitted, RollbackIfActive, EndTransaction, FailingRollback, answer, tell, leave, StillAlarmed
  <2>14. CASE ReportUnstarted(h)
    BY <2>14 DEF ReportUnstarted, refuse, answer, tell, leave, StillAlarmed
  <2>15. CASE ReportRolledBack(h)
    BY <2>15 DEF ReportRolledBack, refuse, answer, tell, leave, RollbackIfActive, EndTransaction, StillAlarmed
  <2>16. CASE ReportUnknown(h)
    BY <2>16 DEF ReportUnknown, FailingRollback, EndTransaction, answer, tell, leave, StillAlarmed
  <2>17. CASE EndRead(h)
    BY <2>17 DEF EndRead, FailingRollback, EndTransaction, StillAlarmed
  <2>18. CASE CleanUpRead(h)
    BY <2>18 DEF CleanUpRead, RollbackIfActive, FailingRollback, EndTransaction, StillAlarmed
  <2>19. QED
    BY <1>2, <2>1, <2>2, <2>3, <2>4, <2>5, <2>6, <2>7, <2>8, <2>9, <2>10, <2>11, <2>12, <2>13, <2>14, <2>15, <2>16, <2>17, <2>18 DEF Progress
<1>3. ASSUME NEW h \in Handles, Caller(h) PROVE Goal
  <2>1. ASSUME NEW r \in Requests, NEW s \in Supplies, Ask(h, r, s) PROVE Goal
    BY <2>1, BoundsAssumption DEF Ask, Calls, IInv, TypeInv, CallsOK, LocalsOK, StillAlarmed
  <2>2. CASE Read(h)
    BY <2>2 DEF Read, BeginRead, StillAlarmed
  <2>3. CASE Close(h)
    BY <2>3 DEF Close, EndTransaction, StillAlarmed
  <2>4. CASE Reopen(h)
    BY <2>4 DEF Reopen, RestPoints, StillAlarmed
  <2>5. QED
    BY <1>3, <2>1, <2>2, <2>3, <2>4 DEF Caller
<1>4. ASSUME NEW h \in Handles, Trouble(h) PROVE Goal
  <2>1. CASE CommitFails(h)
    BY <2>1 DEF CommitFails, MakeDurable, EndTransaction, StillAlarmed
  <2>2. CASE StatementFails(h)
    BY <2>2 DEF StatementFails, EndTransaction, StillAlarmed
  <2>3. CASE ReadFails(h)
    BY <2>3 DEF ReadFails, EndTransaction, StillAlarmed
  <2>4. CASE Interrupt(h)
    BY <2>4 DEF Interrupt, RollbackIfActive, EndTransaction, tell, leave, StillAlarmed
  <2>5. CASE Crash(h)
    BY <2>5 DEF Crash, EndTransaction, leave, StillAlarmed
  <2>6. QED
    BY <1>4, <2>1, <2>2, <2>3, <2>4, <2>5 DEF Trouble
<1>5. QED
  BY <1>0, <1>1, <1>2, <1>3, <1>4 DEF Next

\* What changes underneath a handle that has raised: damage only grows, and
\* the database only by a commit under the write lock.
LEMMA Underneath ==
  ASSUME IInv, [Next]_vars
  PROVE  /\ damaged \subseteq damaged'
         /\ \/ UNCHANGED <<db, landed>>
            \/ \E h \in Handles : pc[h] = "commit" /\ MakeDurable(h) /\ UNCHANGED asked
<1> USE DEF storage, callers, answer, refuse, tell
<1>1. CASE UNCHANGED vars \/ Damage
  BY <1>1 DEF vars, Damage
<1>2. ASSUME NEW h \in Handles, Progress(h)
      PROVE  /\ UNCHANGED damaged
             /\ \/ UNCHANGED <<db, landed>>
                \/ pc[h] = "commit" /\ MakeDurable(h) /\ UNCHANGED asked
  BY <1>2 DEF Progress, Validate, Begin, Lookup, CheckReplay, EndReplay, Plan,
     InsertRecords, InsertOperations, CommitWait, Commit, CommitBusy, Acknowledge,
     ReportCommitted, ReportUnstarted, ReportRolledBack, ReportUnknown, EndRead, CleanUpRead
<1>3. ASSUME NEW h \in Handles, Caller(h) PROVE UNCHANGED <<damaged, db, landed>>
  BY <1>3 DEF Caller, Ask, Read, Close, Reopen
<1>4. ASSUME NEW h \in Handles, Trouble(h)
      PROVE  /\ UNCHANGED damaged
             /\ \/ UNCHANGED <<db, landed>>
                \/ pc[h] = "commit" /\ MakeDurable(h) /\ UNCHANGED asked
  BY <1>4 DEF Trouble, CommitFails, StatementFails, ReadFails, Interrupt, Crash
<1>5. QED
  BY <1>1, <1>2, <1>3, <1>4 DEF Next

LEMMA AlarmNext == IInv /\ EffectsComplete /\ AlarmsOK /\ [Next]_vars => AlarmsOK'
<1> SUFFICES ASSUME IInv, EffectsComplete, AlarmsOK, [Next]_vars, NEW g \in Handles, Alarmed(g)',
                    StillAlarmed(g)
             PROVE  Cause(g)'
  BY AlarmRaised DEF AlarmsOK
<1>1. Cause(g) /\ pc[g] = "failed"
  BY DEF AlarmsOK, StillAlarmed, Alarmed
<1>2. /\ committed'[g] = committed[g] /\ supplied'[g] = supplied[g]
      /\ request(g)' = request(g) /\ lock'[g] = lock[g]
  BY DEF StillAlarmed
<1>3. damaged \subseteq damaged'
  BY Underneath
<1>4. CASE UNCHANGED <<db, landed>>
  <2>1. \A c \in landed : asked'[c] = asked[c]
    BY <1>4, LedgerStep DEF Ledger!Next, Ledger!Ask, Ledger!Land, Ledger!Answer, Ledger!vars, IInv,
       CallsOK, TypeInv, TypeOK, CallersTyped, Ledger!Calls, Calls
  <2>2. g \in Writers => g \in Writers'
    BY <1>2 DEF Writers
  <2>3. db' = db /\ landed' = landed
    BY <1>4
  <2>4. QED
    BY <1>1, <1>2, <1>3, <2>1, <2>2, <2>3 DEF Cause
<1>5. ASSUME NEW h \in Handles, pc[h] = "commit", MakeDurable(h), UNCHANGED asked
      PROVE  Cause(g)'
  <2>1. h \in Writers /\ h # g
    BY <1>1, <1>5 DEF IInv, LocksOK, WorkPoints
  <2>2. g \notin Writers
    BY <2>1 DEF IInv, LocksOK
  <2>3. landed' = landed \cup {call[h]}
    BY <1>5, DurableEffect DEF IInv
  <2>4. Previous(request(h), db) = {}
    BY <1>5 DEF IInv, PlanOK
  <2>5. committed[g] => operation[g] \in db.ops /\ operation[g].req = request(g)
    BY DEF IInv, KnowledgeOK
  <2>6. committed[g] => request(h) # request(g)
    BY <2>4, <2>5 DEF Previous, KeyOf
  <2>7. asked'[call[h]] = request(h) /\ asked' = asked
    BY <1>5 DEF request
  <2>8. QED
    BY <1>1, <1>2, <1>3, <2>2, <2>3, <2>6, <2>7 DEF Cause
<1>6. QED
  BY <1>4, <1>5, Underneath

\* What execute reports is what was raised, with what was known of the commit.
LEMMA AlarmReported ==
  ASSUME IInv, AlarmsOK, [Next]_vars, NEW g \in Handles, pc[g] \in ExecutePoints,
         pc'[g] = "idle", reply'[call[g]].code = "INTEGRITY_FAILURE"
  PROVE  \/ damaged # {}
         \/ /\ reply'[call[g]].state = "not_committed"
            /\ supplied[g] \in {"altered", "malformed"} \/ Dangling(request(g), db)
         \/ /\ reply'[call[g]].state = "committed"
            /\ \A c \in landed : asked[c] # request(g)
<1> DEFINE Goal ==
         \/ damaged # {}
         \/ /\ reply'[call[g]].state = "not_committed"
            /\ supplied[g] \in {"altered", "malformed"} \/ Dangling(request(g), db)
         \/ /\ reply'[call[g]].state = "committed"
            /\ \A c \in landed : asked[c] # request(g)
<1> SUFFICES Goal
  OBVIOUS
<1> StorageTyped /\ LocalTyped /\ CallersTyped
  BY DEF IInv, TypeInv, TypeOK
<1>0. call[g] \in Calls /\ reply \in [Calls -> Ledger!Replies]
  BY DEF IInv, TypeInv, LocalsOK, CallersTyped
<1>1. \A a : tell(g, a) => reply'[call[g]] = a
  BY <1>0 DEF tell
<1>2. CASE ReportCommitted(g)
  <2> DEFINE c == IF code[g] \in {"INTEGRITY_FAILURE", "IO_ERROR", "INTERNAL_ERROR"}
                  THEN code[g] ELSE "INTERNAL_ERROR"
             a == [code |-> c, state |-> "committed", at |-> operation[g].at, replayed |-> FALSE]
  <2>1. tell(g, a) /\ pc[g] = "failed" /\ committed[g]
    BY <1>2 DEF ReportCommitted, answer
  <2>2. reply'[call[g]] = a
    BY <1>1, <2>1
  <2>3. c = "INTEGRITY_FAILURE" /\ reply'[call[g]].state = "committed"
    BY <2>2
  <2>4. code[g] = "INTEGRITY_FAILURE"
    BY <2>3
  <2> HIDE DEF a, c
  <2>5. Cause(g)
    BY <2>1, <2>4 DEF AlarmsOK, Alarmed
  <2>6. QED
    BY <2>1, <2>3, <2>5 DEF Cause
<1>3. CASE ReportUnstarted(g) \/ ReportRolledBack(g)
  <2> DEFINE a == [code |-> code[g], state |-> "not_committed", at |-> Untimed, replayed |-> FALSE]
  <2>1. tell(g, a) /\ pc[g] = "failed" /\ ~ committed[g]
    BY <1>3 DEF ReportUnstarted, ReportRolledBack, refuse, answer
  <2>2. reply'[call[g]] = a
    BY <1>1, <2>1
  <2>3. code[g] = "INTEGRITY_FAILURE" /\ reply'[call[g]].state = "not_committed"
    BY <2>2
  <2>4. Cause(g)
    BY <2>1, <2>3 DEF AlarmsOK, Alarmed
  <2> HIDE DEF a
  <2>5. QED
    BY <2>1, <2>3, <2>4 DEF Cause
<1>4. CASE EndReplay(g)
  <2>1. tell(g, [code |-> "COMMITTED", state |-> "committed", at |-> operation[g].at, replayed |-> TRUE])
    BY <1>4 DEF EndReplay, answer, raise, goto, LocalTyped
  <2>2. QED
    BY <1>1, <2>1
<1>5. CASE Acknowledge(g)
  <2>1. tell(g, [code |-> "COMMITTED", state |-> "committed", at |-> operation[g].at, replayed |-> FALSE])
    BY <1>5 DEF Acknowledge, answer
  <2>2. QED
    BY <1>1, <2>1
<1>6. CASE ReportUnknown(g)
  <2>1. tell(g, [code |-> "DURABILITY_UNKNOWN", state |-> "unknown", at |-> Untimed, replayed |-> FALSE])
    BY <1>6 DEF ReportUnknown, answer
  <2>2. QED
    BY <1>1, <2>1
<1>7. CASE Interrupt(g)
  BY <1>1, <1>7 DEF Interrupt, Ledger!Interrupted
<1> USE DEF goto, raise, storage, local, ExecutePoints, LocalTyped, StorageTyped
<1>8. CASE UNCHANGED vars \/ Damage
  BY <1>8 DEF vars, Damage
<1>9. ASSUME NEW h \in Handles, h # g, Progress(h) \/ Caller(h) \/ Trouble(h) PROVE pc'[g] = pc[g]
  <2>1. \E p : pc' = [pc EXCEPT ![h] = p]
    BY <1>9, OneMoves
  <2>2. QED
    BY <1>9, <2>1
<1>10. CASE \/ Validate(g) \/ Begin(g) \/ Lookup(g) \/ CheckReplay(g) \/ Plan(g)
            \/ InsertRecords(g) \/ InsertOperations(g) \/ CommitWait(g) \/ Commit(g)
            \/ CommitBusy(g) \/ EndRead(g) \/ CleanUpRead(g) \/ Caller(g)
            \/ CommitFails(g) \/ StatementFails(g) \/ ReadFails(g) \/ Crash(g)
  BY <1>10 DEF Validate, Begin, Lookup, CheckReplay, Plan, InsertRecords,
     InsertOperations, CommitWait, Commit, CommitBusy, EndRead, CleanUpRead, Caller, Ask,
     Read, Close, Reopen, CommitFails, StatementFails, ReadFails, Crash, RestPoints
<1>11. QED
  BY <1>2, <1>3, <1>4, <1>5, <1>6, <1>7, <1>8, <1>9, <1>10 DEF Next, Progress, Trouble

\* INTEGRITY_FAILURE is told of a damaged Ledger, of a call that is itself
\* wrong and was not committed, or of an operation only a package brought:
\* what execute looks for, of what was written here, is there, and what it
\* inserts is not.
THEOREM NoFalseAlarm == Spec => NoFalseIntegrityFailure
<1> DEFINE Reported ==
      \A h \in Handles :
        /\ pc[h] \in ExecutePoints
        /\ pc'[h] = "idle"
        /\ reply'[call[h]].code = "INTEGRITY_FAILURE"
        => \/ damaged # {}
           \/ /\ reply'[call[h]].state = "not_committed"
              /\ supplied[h] \in {"altered", "malformed"} \/ Dangling(request(h), db)
           \/ /\ reply'[call[h]].state = "committed"
              /\ \A c \in landed : asked[c] # request(h)
<1>1. Init => AlarmsOK
  BY DEF Init, AlarmsOK, Alarmed
<1>2. IInv /\ EffectsComplete /\ AlarmsOK /\ [Next]_vars => AlarmsOK'
  BY AlarmNext
<1>3. IInv /\ AlarmsOK /\ [Next]_vars => Reported
  BY AlarmReported
<1>4. QED
  BY <1>1, <1>2, <1>3, Invariance, EffectsAreComplete, PTL DEF Spec, NoFalseIntegrityFailure

-----------------------------------------------------------------------------
(* The second implementation.                                              *)

\* What is raised after a matching fingerprint was found.
HandlerOK ==
  \A h \in Handles :
    pc[h] = "failed" /\ committed[h] => code[h] \in {"INTEGRITY_FAILURE", "IO_ERROR"}

IndInv == IInv /\ HandlerOK

-----------------------------------------------------------------------------
(* The step that WriteProtocol does not take.                              *)

\* The last ROLLBACK of a read raises and nothing cleans up.
LeaveView(h) ==
  /\ pc[h] = "read"
  /\ FailingRollback(h)
  /\ seen' = [seen EXCEPT ![h] = {}]
  /\ goto(h, "idle")
  /\ UNCHANGED <<db, damaged, open, local, callers>>

\* Every reason to refuse in WriteProtocol is one here.
LEMMA RefusedAlike ==
  ASSUME NEW r, NEW s, MetadataReadable, Refusals(r, s) = {}
  PROVE  /\ Rejections(r, s, db) = {}
         /\ Body[r].closure \cap Owned(db.recs) \cap damaged = {}
<1>1. \A c : c \notin Refusals(r, s)
  OBVIOUS
<1>2. Body[r].needs \subseteq Owned(db.recs)
  BY <1>1 DEF Refusals
<1>3. ~ Dangling(r, db) /\ Body[r].closure \cap Owned(db.recs) \cap damaged = {}
  BY <1>1, <1>2 DEF Refusals
<1>4. ~ Conflicts(r, db) /\ ~ HistoryConflicts(r, db)
  BY <1>1 DEF Refusals
<1>5. s # "extra" /\ s # "altered"
  BY <1>1, <1>2 DEF Refusals
<1>. QED
  BY <1>2, <1>3, <1>4, <1>5 DEF Rejections, Found

\* What is refused here is refused there, or names a damaged Blob.
LEMMA RefusedHere ==
  ASSUME NEW r, NEW s, NEW c \in Refusals(r, s)
  PROVE  \/ c \in Rejections(r, s, db)
         \/ c = "INTEGRITY_FAILURE" /\ Body[r].closure \cap Owned(db.recs) \cap damaged # {}
BY DEF Refusals, Rejections, Found

LEMMA AddStep ==
  ASSUME NEW h \in Handles, Add(h)
  PROVE  Plan(h)
<1>1. CASE ~ MetadataReadable
  BY <1>1 DEF Add, Plan, MetadataReadable
<1>2. ASSUME MetadataReadable, NEW c \in Refusals(request(h), supplied[h]), raise(h, c),
             UNCHANGED operation
      PROVE  Plan(h)
  BY <1>2, RefusedHere DEF Add, Plan
<1>3. CASE /\ MetadataReadable
           /\ Refusals(request(h), supplied[h]) = {}
           /\ \E now \in Times :
                operation' = [operation EXCEPT ![h] = [req |-> request(h), at |-> now]]
           /\ goto(h, "records")
           /\ UNCHANGED code
  <2>1. /\ Rejections(request(h), supplied[h], db) = {}
        /\ Body[request(h)].closure \cap Owned(db.recs) \cap damaged = {}
    BY <1>3, RefusedAlike
  <2>2. MetadataRows \cap damaged = {}
    BY <1>3 DEF MetadataReadable
  <2>. QED
    BY <1>3, <2>1, <2>2 DEF Add, Plan
<1>. QED
  BY <1>1, <1>2, <1>3 DEF Add

LEMMA CompareStep ==
  ASSUME NEW h \in Handles, Compare(h)
  PROVE  CheckReplay(h)
<1> DEFINE sound == MetadataReadable /\ AsAsked(h)
           stored == Body[request(h)].closure \cap damaged = {}
<1>1. sound <=> MetadataRows \cap damaged = {} /\ ReplayMatches(request(h), db)
  BY DEF MetadataReadable, AsAsked
<1>2. CASE ~ sound
  BY <1>1, <1>2 DEF Compare, CheckReplay
<1>3. CASE sound /\ supplied[h] = "extra"
  BY <1>1, <1>3 DEF Compare, CheckReplay
<1>4. CASE sound /\ supplied[h] = "altered"
  BY <1>1, <1>4 DEF Compare, CheckReplay
<1>5. CASE sound /\ supplied[h] \notin {"extra", "altered"} /\ ~ stored
  BY <1>1, <1>5 DEF Compare, CheckReplay
<1>6. CASE sound /\ supplied[h] \notin {"extra", "altered"} /\ stored
  BY <1>1, <1>6 DEF Compare, CheckReplay
<1>. QED
  BY <1>2, <1>3, <1>4, <1>5, <1>6

\* The handler answers as WriteProtocol's does: the codes it passes on with
\* committed are those WriteProtocol does not replace.
LEMMA FailStep ==
  ASSUME HandlerOK, NEW h \in Handles, Fail(h)
  PROVE  ReportCommitted(h) \/ ReportUnstarted(h) \/ ReportRolledBack(h) \/ ReportUnknown(h)
<1>1. pc[h] = "failed"
  BY DEF Fail
<1>2. CASE committed[h]
  <2>1. code[h] \in {"INTEGRITY_FAILURE", "IO_ERROR", "INTERNAL_ERROR"}
    BY <1>1, <1>2 DEF HandlerOK
  <2>2. code[h] = IF code[h] \in {"INTEGRITY_FAILURE", "IO_ERROR", "INTERNAL_ERROR"}
                  THEN code[h] ELSE "INTERNAL_ERROR"
    BY <2>1
  <2>. QED
    BY <1>1, <1>2, <2>2 DEF Fail, ReportCommitted
<1>3. CASE ~ committed[h] /\ began[h]
  BY <1>1, <1>3 DEF Fail, ReportRolledBack, ReportUnknown
<1>4. CASE ~ committed[h] /\ ~ began[h]
  BY <1>1, <1>4 DEF Fail, ReportUnstarted
<1>. QED
  BY <1>2, <1>3, <1>4

LEMMA EndViewStep ==
  ASSUME NEW h \in Handles, EndView(h)
  PROVE  EndRead(h) \/ LeaveView(h)
BY DEF EndView, EndRead, LeaveView

\* The second implementation steps as the first does, but for a read that
\* leaves its transaction.
LikeWriteProtocol == Next \/ \E h \in Handles : LeaveView(h)

LEMMA IndependentStep == HandlerOK /\ IndependentNext => LikeWriteProtocol
<1> SUFFICES ASSUME HandlerOK, IndependentNext PROVE LikeWriteProtocol
  OBVIOUS
<1>1. CASE Damage
  BY <1>1 DEF LikeWriteProtocol, Next
<1>2. ASSUME NEW h \in Handles, Execute(h) PROVE LikeWriteProtocol
  <2>1. CASE Add(h)
    BY <2>1, AddStep DEF LikeWriteProtocol, Next, Progress
  <2>2. CASE Fail(h)
    BY <2>2, FailStep DEF LikeWriteProtocol, Next, Progress
  <2>3. CASE Compare(h)
    BY <2>3, CompareStep DEF LikeWriteProtocol, Next, Progress
  <2>4. CASE \/ Claim(h) \/ Start(h) \/ Find(h) \/ Replay(h) \/ InsertObjects(h)
             \/ InsertKeys(h) \/ CommitOnce(h) \/ Respond(h)
    <3>1. Progress(h)
      BY <2>4 DEF Claim, Start, Find, Replay, InsertObjects, InsertKeys, CommitOnce, Respond,
                  Progress
    <3>. QED
      BY <3>1 DEF LikeWriteProtocol, Next
  <2>. QED
    BY <1>2, <2>1, <2>2, <2>3, <2>4 DEF Execute
<1>3. ASSUME NEW h \in Handles, View(h) PROVE LikeWriteProtocol
  BY <1>3, EndViewStep DEF View, LikeWriteProtocol, Next, Progress, Caller, Trouble
<1>4. ASSUME NEW h \in Handles, NEW r \in Requests, NEW s \in Supplies, Ask(h, r, s)
      PROVE  LikeWriteProtocol
  BY <1>4 DEF LikeWriteProtocol, Next, Caller
<1>5. ASSUME NEW h \in Handles,
             \/ StatementFails(h) \/ CommitFails(h) \/ Close(h) \/ Reopen(h)
             \/ Interrupt(h) \/ Crash(h)
      PROVE  LikeWriteProtocol
  BY <1>5 DEF LikeWriteProtocol, Next, Caller, Trouble
<1>. QED
  BY <1>1, <1>2, <1>3, <1>4, <1>5 DEF IndependentNext
-----------------------------------------------------------------------------
(* The inductive invariant.                                                *)

\* A transaction left by a read disturbs nothing.
LEMMA OwnStepsKeep ==
  ASSUME IInv, NEW h \in Handles, LeaveView(h)
  PROVE  IInv'
<1> USE DEF goto, raise, storage, local, callers
<1>1. TypeOK /\ StorageTyped /\ LocalTyped /\ CallersTyped /\ LocalsOK
  BY DEF IInv, TypeInv, TypeOK
<1>2. TypeInv'
  <2>1. StorageTyped'
    <3>1. /\ UNCHANGED <<db, damaged>> /\ faults' \in 0 .. MaxFaults
          /\ UNCHANGED <<lock, intx, txn>> \/ EndTransaction(h)
      BY <1>1, FaultTyped DEF LeaveView, FailingRollback, StorageTyped
    <3>. QED
      BY <1>1, <3>1, TransactionTyped DEF StorageTyped
  <2>2. LocalTyped'
    BY <1>1 DEF LeaveView, LocalTyped, Ledger!Codes, ExecutePoints, RestPoints
  <2>3. CallersTyped'
    BY <1>1 DEF LeaveView, CallersTyped
  <2>4. LocalsOK'
    BY <1>1 DEF LeaveView, LocalsOK, LocalTyped, FailingRollback, EndTransaction,
                StorageTyped, ErrorCodes, Ledger!Codes, ExecutePoints, WorkPoints
  <2>. QED
    BY <2>1, <2>2, <2>3, <2>4 DEF TypeInv, TypeOK
<1>3. LocksOK'
  <2>1. LocksOK /\ UNCHANGED <<db, began>>
    BY DEF LeaveView, IInv
  <2>3. CASE LeaveView(h) /\ UNCHANGED <<lock, intx>>
    BY <1>1, <2>1, <2>3 DEF LeaveView, LocksOK, Writers, WorkPoints, LocalTyped
  <2>4. CASE LeaveView(h) /\ EndTransaction(h)
    BY <1>1, <2>1, <2>4 DEF LeaveView, EndTransaction, LocksOK, Writers, WorkPoints, LocalTyped,
                            StorageTyped
  <2>. QED
    BY <2>3, <2>4 DEF LeaveView, FailingRollback
<1>4. CallsOK'
  BY <1>1 DEF LeaveView, CallsOK, LocalTyped, ExecutePoints, IInv
<1>5. PlanOK'
  <2>1. /\ UNCHANGED <<db, call, asked, operation>>
        /\ \A g \in Handles \ {h} : pc'[g] = pc[g]
        /\ pc'[h] = "idle"
    BY <1>1 DEF LeaveView, LocalTyped
  <2>2. \A g \in Handles \ {h} : txn'[g] = txn[g]
    BY <1>1 DEF LeaveView, FailingRollback, EndTransaction, StorageTyped
  <2>. QED
    BY <2>1, <2>2 DEF PlanOK, request, IInv
<1>6. KnowledgeOK'
  BY <1>1 DEF LeaveView, FailingRollback, EndTransaction, KnowledgeOK, LocalTyped,
              StorageTyped, ExecutePoints, request, IInv, LocksOK, WorkPoints
<1>. QED
  BY <1>2, <1>3, <1>4, <1>5, <1>6 DEF IInv

\* A claim to a replay is given up or fails with one of two codes.
LEMMA HandlerNext == IInv /\ HandlerOK /\ Next => HandlerOK'
<1> SUFFICES ASSUME IInv, HandlerOK, Next, NEW g \in Handles,
                    pc'[g] = "failed", committed'[g]
             PROVE  code'[g] \in {"INTEGRITY_FAILURE", "IO_ERROR"}
  BY DEF HandlerOK
<1> USE DEF goto, raise, storage, local, callers, HandlerOK
<1>0. LocalTyped /\ (committed[g] => pc[g] \in {"replay", "endreplay", "ack", "failed"})
  BY DEF IInv, TypeInv, TypeOK, KnowledgeOK
<1> USE <1>0 DEF LocalTyped
<1>1. CASE Damage
  BY <1>1 DEF Damage
<1>2. ASSUME NEW h \in Handles, Progress(h) PROVE code'[g] \in {"INTEGRITY_FAILURE", "IO_ERROR"}
  <2>1. CASE Validate(h) \/ Begin(h)
    BY <2>1 DEF Validate, Begin
  <2>2. CASE Lookup(h)
    BY <2>2 DEF Lookup
  <2>3. CASE CheckReplay(h) \/ Plan(h)
    BY <2>3 DEF CheckReplay, Plan
  <2>4. CASE EndReplay(h)
    BY <2>4 DEF EndReplay, answer, tell, leave
  <2>5. CASE InsertRecords(h) \/ InsertOperations(h)
    BY <2>5 DEF InsertRecords, InsertOperations
  <2>6. CASE CommitWait(h) \/ Commit(h) \/ CommitBusy(h)
    BY <2>6 DEF CommitWait, Commit, CommitBusy
  <2>7. CASE Acknowledge(h) \/ ReportCommitted(h) \/ ReportUnknown(h)
    BY <2>7 DEF Acknowledge, ReportCommitted, ReportUnknown, answer, tell, leave
  <2>8. CASE ReportUnstarted(h) \/ ReportRolledBack(h)
    BY <2>8 DEF ReportUnstarted, ReportRolledBack, refuse, answer, tell, leave
  <2>9. CASE EndRead(h) \/ CleanUpRead(h)
    BY <2>9 DEF EndRead, CleanUpRead
  <2>. QED
    BY <1>2, <2>1, <2>2, <2>3, <2>4, <2>5, <2>6, <2>7, <2>8, <2>9 DEF Progress
<1>3. ASSUME NEW h \in Handles, Caller(h) PROVE code'[g] \in {"INTEGRITY_FAILURE", "IO_ERROR"}
  BY <1>3 DEF Caller, Ask, Read, Close, Reopen
<1>4. ASSUME NEW h \in Handles, Trouble(h) PROVE code'[g] \in {"INTEGRITY_FAILURE", "IO_ERROR"}
  BY <1>4 DEF Trouble, CommitFails, StatementFails, ReadFails, Interrupt, Crash, tell, leave
<1>. QED
  BY <1>1, <1>2, <1>3, <1>4 DEF Next

\* What holds of WriteProtocol's state holds of this one's.
LEMMA IndNext == IndInv /\ [IndependentNext]_vars => IndInv'
<1> SUFFICES ASSUME IndInv, [IndependentNext]_vars PROVE IndInv'
  OBVIOUS
<1>1. CASE UNCHANGED vars
  <2>1. IInv'
    BY <1>1, NextIInv DEF IndInv
  <2>. QED
    BY <1>1, <2>1 DEF IndInv, HandlerOK, vars, local
<1>2. CASE Next
  BY <1>2, NextIInv, HandlerNext DEF IndInv
<1>3. ASSUME NEW h \in Handles, LeaveView(h) PROVE IndInv'
  <2>1. HandlerOK'
    BY <1>3 DEF IndInv, HandlerOK, LeaveView, raise, goto, local, IInv, TypeInv,
                TypeOK, LocalTyped
  <2>. QED
    BY <1>3, <2>1, OwnStepsKeep DEF IndInv
<1>. QED
  BY <1>1, <1>2, <1>3, IndependentStep DEF IndInv, LikeWriteProtocol

LEMMA IndInit == Init => IndInv
<1>1. Init => HandlerOK
  BY DEF Init, HandlerOK
<1>. QED
  BY <1>1, InitIInv DEF IndInv

\* execute and _view of the second implementation keep what the first keep:
\* types, locks, calls, plans and what is known of a commit.
THEOREM IndependentInvariance == IndependentSpec => []IndInv
BY IndInit, IndNext, PTL DEF IndependentSpec

-----------------------------------------------------------------------------
(* The ledger that was promised.                                           *)

\* The step of its own is no step of the ledger.
LEMMA IndependentLedgerStep == IndInv /\ [IndependentNext]_vars => [Ledger!Next]_Ledger!vars
<1> SUFFICES ASSUME IndInv, [IndependentNext]_vars PROVE [Ledger!Next]_Ledger!vars
  OBVIOUS
<1>1. CASE [Next]_vars
  BY <1>1, LedgerStep DEF IndInv
<1>2. ASSUME NEW h \in Handles, LeaveView(h) PROVE UNCHANGED Ledger!vars
  BY <1>2 DEF LeaveView, storage, callers, Ledger!vars
<1>. QED
  BY <1>1, <1>2, IndependentStep DEF IndInv, LikeWriteProtocol

\* The second implementation is the ledger its callers were promised: each
\* call takes effect at most once, at the durable point of its own commit,
\* and is told nothing untrue, whatever interleaves with it and whatever
\* fails (execute and _view of independent_b).
THEOREM SecondImplementation == IndependentSpec => ImplementsLedger
BY IndependentLedgerStep, LedgerInit, IndependentInvariance, PTL
   DEF IndependentSpec, Ledger!Spec, ImplementsLedger

\* Its commit_state, too, is honest about every call ever answered (the
\* answers of execute and its handler).
THEOREM HonestAnswersThere == IndependentSpec => []CommitStateHonest
<1>1. Init => CommitStateHonest
  BY DEF Init, CommitStateHonest
<1>2. IndInv /\ IndInv' /\ CommitStateHonest /\ [IndependentNext]_vars => CommitStateHonest'
  BY IndependentLedgerStep, HonestNext DEF IndInv
<1>. QED
  BY <1>1, <1>2, IndependentInvariance, IndNext, PTL DEF IndependentSpec

\* Only steps that the first implementation takes too change the database.
LEMMA DatabaseMoves ==
  ASSUME IndInv, [IndependentNext]_vars, db' # db
  PROVE  Next
<1>1. \A h \in Handles : ~ LeaveView(h)
  BY DEF LeaveView, storage
<1>2. IndependentNext
  BY DEF vars, storage
<1>. QED
  BY <1>1, <1>2, IndependentStep DEF IndInv, LikeWriteProtocol

\* An idempotency tuple keeps one result and an owned identity one record
\* there too.
THEOREM OneResultThere == IndependentSpec => []OneResultPerIdentity
<1>1. Init => OneResult(db)
  BY DEF Init, EmptyDatabase, OneResult
<1>2. IndInv /\ OneResult(db) /\ [IndependentNext]_vars => OneResult(db)'
  <2> SUFFICES ASSUME IndInv, OneResult(db), [IndependentNext]_vars, db' # db PROVE OneResult(db')
    BY DEF OneResult
  <2>1. db \in Database
    BY DEF IndInv, IInv, TypeInv, TypeOK, StorageTyped
  <2>2. Next
    BY DatabaseMoves
  <2>. QED
    BY <2>1, <2>2, DatabaseStep, OneResultAfter DEF IndInv
<1>3. OneResult(db) => OneResultPerIdentity
  BY DEF OneResult, OneResultPerIdentity, KeyOf
<1>. QED
  BY <1>1, <1>2, <1>3, IndependentInvariance, PTL DEF IndependentSpec

\* What became durable there is whole too.
THEOREM EffectsCompleteThere == IndependentSpec => []EffectsComplete
<1>1. Init => EffectsComplete
  BY DEF Init, EmptyDatabase, EffectsComplete
<1>2. IndInv /\ EffectsComplete /\ [IndependentNext]_vars => EffectsComplete'
  BY IndependentLedgerStep, CompleteNext DEF IndInv
<1>. QED
  BY <1>1, <1>2, IndependentInvariance, PTL DEF IndependentSpec
=============================================================================
