------------------------- MODULE IndependentLedger --------------------------
(***************************************************************************)
(* execute and _view of the second implementation                          *)
(* (implementations/independent_b), an own database format written from    *)
(* docs/INTERFACE_PROFILE.md.  It runs the same write protocol over the    *)
(* same SQLite layer, so the state, the SQLite steps and the steps that    *)
(* agree are those of WriteProtocol; what is here is how its own code      *)
(* takes them and where it goes another way:                               *)
(*   - it waits for nobody (timeout=0): a statement that meets a lock is   *)
(*     refused at once;                                                    *)
(*   - all stored objects and operations are read and their graph checked  *)
(*     before a replay is compared and before anything is planned;         *)
(*   - a read whose final ROLLBACK raises is not cleaned up after.         *)
(* Its locals: started is began, attempted_commit is committing, and the   *)
(* handler's "committed or replaying" is committed; original, while        *)
(* replaying, and op otherwise, are operation.                             *)
(***************************************************************************)
EXTENDS WriteProtocol

\* Parse, freeze the payloads, compute the fingerprint; then claim the
\* transaction unless the handle already is in one.
Claim(h) == Validate(h)

\* BEGIN IMMEDIATE, refused at once while another connection writes.
Start(h) == Begin(h)

\* Bug: the stored fingerprint is not compared.
FindAny(h) ==
  /\ pc[h] = "lookup"
  /\ LET previous == Previous(request(h), db)
     IN  IF previous = {}
         THEN goto(h, "plan") /\ UNCHANGED <<committed, operation>>
         ELSE /\ \E o \in previous : operation' = [operation EXCEPT ![h] = o]
              /\ committed' = [committed EXCEPT ![h] = TRUE]
              /\ goto(h, "replay")
  /\ UNCHANGED <<storage, call, supplied, began, committing, code, open, seen, callers,
                 faults>>

\* _operation: the row of this tuple alone, before the graph is looked at.
\* From a matching fingerprint on, replaying.
Find(h) == Lookup(h)

MetadataReadable == MetadataRows \cap damaged = {}

\* _check_replay_records: what the original call wrote, against what is asked.
AsAsked(h) == ReplayMatches(request(h), db)

\* The graph, the original records and the payloads sent again, in this
\* order; only payloads that do not belong there end the claim to a replay.
Compare(h) ==
  /\ pc[h] = "replay"
  /\ LET sound == MetadataReadable /\ AsAsked(h)
         stored == Body[request(h)].closure \cap damaged = {}
     IN  CASE ~ sound ->
                raise(h, "INTEGRITY_FAILURE") /\ UNCHANGED committed
           [] sound /\ supplied[h] = "extra" ->
                /\ raise(h, "INVALID_INPUT")
                /\ committed' = [committed EXCEPT ![h] = FALSE]
           [] sound /\ supplied[h] = "altered" ->
                /\ raise(h, "INTEGRITY_FAILURE")
                /\ committed' = [committed EXCEPT ![h] = FALSE]
           [] sound /\ supplied[h] \notin {"extra", "altered"} /\ ~ stored ->
                raise(h, "INTEGRITY_FAILURE") /\ UNCHANGED committed
           [] OTHER ->
                goto(h, "endreplay") /\ UNCHANGED <<code, committed>>
  /\ UNCHANGED <<storage, call, supplied, began, committing, operation, open, seen,
                 callers, faults>>

\* ROLLBACK and the original receipt.
Replay(h) == EndReplay(h)

\* What execute refuses to add.  Once the Artifact of an append was found, a
\* reference that does not resolve fails in its closure or in the graph, and
\* payloads are compared with the stored or announced Blobs.
Refusals(r, s) ==
  {c \in {"NOT_FOUND", "IDENTITY_CONFLICT", "IDEMPOTENCY_CONFLICT", "INVALID_INPUT",
          "INTEGRITY_FAILURE"} :
     \/ c = "NOT_FOUND" /\ ~ Body[r].needs \subseteq Owned(db.recs)
     \/ c = "IDENTITY_CONFLICT" /\ Conflicts(r, db)
     \/ c = "IDEMPOTENCY_CONFLICT" /\ HistoryConflicts(r, db)
     \/ /\ c = "INVALID_INPUT"
        /\ Body[r].needs \subseteq Owned(db.recs) /\ s = "extra"
     \/ /\ c = "INTEGRITY_FAILURE"
        /\ Body[r].needs \subseteq Owned(db.recs)
        /\ \/ Dangling(r, db) \/ s = "altered"
           \/ Body[r].closure \cap Owned(db.recs) \cap damaged # {}}

\* The stored graph, then the additions on it, then the graph of both.
Add(h) ==
  /\ pc[h] = "plan"
  /\ IF ~ MetadataReadable
     THEN raise(h, "INTEGRITY_FAILURE") /\ UNCHANGED operation
     ELSE \/ /\ \E c \in Refusals(request(h), supplied[h]) : raise(h, c)
             /\ UNCHANGED operation
          \/ /\ Refusals(request(h), supplied[h]) = {}
             /\ \E now \in Times :
                  operation' = [operation EXCEPT ![h] = [req |-> request(h), at |-> now]]
             /\ goto(h, "records")
             /\ UNCHANGED code
  /\ UNCHANGED <<storage, call, supplied, began, committing, committed, open, seen,
                 callers, faults>>

InsertObjects(h) == InsertRecords(h)

InsertKeys(h) == InsertOperations(h)

\* COMMIT asks for the lock once.  Between its taking PENDING and its
\* finding a reader there, that reader may leave.
CommitOnce(h) == CommitWait(h) \/ Commit(h) \/ CommitBusy(h)

Respond(h) == Acknowledge(h)

\* The exception handler: a commit that is known, then a transaction of this
\* call, whose end must be seen, then none.
Fail(h) ==
  /\ pc[h] = "failed"
  /\ \/ /\ committed[h]
        /\ \/ RollbackIfActive(h) /\ UNCHANGED faults
           \/ intx[h] /\ FailingRollback(h)
        /\ answer(h, code[h], "committed", operation[h].at, FALSE)
     \/ /\ ~ committed[h] /\ began[h]
        /\ \/ /\ intx[h] \/ ~ committing[h]
              /\ RollbackIfActive(h)
              /\ refuse(h, code[h])
              /\ UNCHANGED faults
           \/ /\ \/ ~ intx[h] /\ committing[h] /\ UNCHANGED <<lock, intx, txn, faults>>
                 \/ intx[h] /\ FailingRollback(h)
              /\ answer(h, "DURABILITY_UNKNOWN", "unknown", Untimed, FALSE)
     \/ /\ ~ committed[h] /\ ~ began[h]
        /\ refuse(h, code[h])
        /\ UNCHANGED <<lock, intx, txn, faults>>
-----------------------------------------------------------------------------
(* _view: the read operations.                                             *)

\* The last ROLLBACK stands outside the try: when it raises, the caller gets
\* the exception and the transaction stays as it is.
EndView(h) ==
  /\ pc[h] = "read"
  /\ \/ EndTransaction(h) /\ UNCHANGED faults
     \/ FailingRollback(h)
  /\ seen' = [seen EXCEPT ![h] = {}]
  /\ goto(h, "idle")
  /\ UNCHANGED <<db, damaged, open, local, callers>>

View(h) == Read(h) \/ ReadFails(h) \/ EndView(h) \/ CleanUpRead(h)
-----------------------------------------------------------------------------
Execute(h) ==
  \/ Claim(h) \/ Start(h) \/ Find(h) \/ Compare(h) \/ Replay(h) \/ Add(h)
  \/ InsertObjects(h) \/ InsertKeys(h) \/ CommitOnce(h) \/ Respond(h) \/ Fail(h)

\* Statements that raise, interruptions, deaths and damage are WriteProtocol's.
IndependentNext ==
  \/ Damage
  \/ \E h \in Handles :
       \/ \E r \in Requests, s \in Supplies : Ask(h, r, s)
       \/ Execute(h) \/ StatementFails(h) \/ CommitFails(h)
       \/ View(h)
       \/ Close(h) \/ Reopen(h) \/ Interrupt(h) \/ Crash(h)

IndependentSpec == Init /\ [][IndependentNext]_vars

=============================================================================
