--------------------------- MODULE SnapshotCommand ---------------------------
(***************************************************************************)
(* snapshot_cli.py: one process per call of artifact-ledger snapshot.  It  *)
(* parses its arguments, reads a storage configuration, calls the recovery *)
(* API once and prints one line with the state of the publication.         *)
(*                                                                         *)
(* The API is what SnapshotArchive shows of it: the state of its result,   *)
(* or of a RecoveryError it raises, is true.  Any other exception that     *)
(* escapes from it says nothing.  What is at stake is that the line says   *)
(* neither less nor more than is known, whatever fails before and after.   *)
(***************************************************************************)
EXTENDS Naturals

CONSTANTS Calls,
          Operations,   \* of the recovery API
          ReadOnly,     \* those that publish nothing
          NoOperation,
          MaxFaults     \* bound: failures per call

ASSUME ReadOnlyAssumption == ReadOnly \subseteq Operations /\ NoOperation \notin Operations

VARIABLES
  pc,
  asked,       \* the operation the caller means
  operation,   \* main's operation: known once the arguments are parsed
  state,       \* main's state
  started,     \* api_started
  known,       \* what the API told: a publication state, or "nothing"
  error,       \* the exception on its way to main's handlers
  reply,       \* the line printed
  published,   \* the call published its target
  faults

vars == <<pc, asked, operation, state, started, known, error, reply, published, faults>>

None == [kind |-> "none", code |-> "none", state |-> "none"]
Recovery(code, s) == [kind |-> "recovery", code |-> code, state |-> s]
Other == [kind |-> "other", code |-> "none", state |-> "none"]
Interrupt == [kind |-> "interrupt", code |-> "none", state |-> "none"]
NoReply == [status |-> "none", code |-> "none", state |-> "none", whole |-> FALSE]

Initial(o) == IF o \in ReadOnly THEN "not_applicable" ELSE "not_published"

Init ==
  /\ pc = [c \in Calls |-> "parse"]
  /\ asked \in [Calls -> Operations]
  /\ operation = [c \in Calls |-> NoOperation]
  /\ state = [c \in Calls |-> "not_published"]
  /\ started = [c \in Calls |-> FALSE]
  /\ known = [c \in Calls |-> "nothing"]
  /\ error = [c \in Calls |-> None]
  /\ reply = [c \in Calls |-> NoReply]
  /\ published = [c \in Calls |-> FALSE]
  /\ faults = [c \in Calls |-> 0]
-----------------------------------------------------------------------------
Fault(c) == faults[c] < MaxFaults /\ faults' = [faults EXCEPT ![c] = @ + 1]
goto(c, point) == pc' = [pc EXCEPT ![c] = point]
raise(c, e) == error' = [error EXCEPT ![c] = e] /\ goto(c, "report")

\* The 300 seconds between checkpoints are over: budget.check(stage), whose
\* error says not_published.
Timeout == Recovery("TIMEOUT", "not_published")

\* _Parser: an _ArgumentFailure carries the operation as far as it is known.
Parse(c) ==
  /\ pc[c] = "parse"
  /\ \/ /\ operation' = [operation EXCEPT ![c] = asked[c]]
        /\ state' = [state EXCEPT ![c] = Initial(asked[c])]
        /\ goto(c, "configure")
        /\ UNCHANGED <<error, faults>>
     \/ /\ Fault(c)
        /\ \E o \in {asked[c], NoOperation} :
             /\ raise(c, Recovery("INVALID_INPUT", Initial(o)))
             /\ operation' = [operation EXCEPT ![c] = o]
        /\ UNCHANGED state
     \/ /\ Fault(c)
        /\ \E e \in {Timeout, Other, Interrupt} : raise(c, e)
        /\ UNCHANGED <<operation, state>>
  /\ UNCHANGED <<asked, started, known, reply, published>>

\* _arguments, _read_config, capture_storage_config: one bounded file, read once.
Configure(c) ==
  /\ pc[c] = "configure"
  /\ \/ goto(c, "call") /\ UNCHANGED <<error, faults>>
     \/ /\ Fault(c)
        /\ \E e \in {Recovery("INVALID_INPUT", "not_published"), Timeout, Other, Interrupt} : raise(c, e)
  /\ UNCHANGED <<asked, operation, state, started, known, reply, published>>

\* getattr(recovery, operation), under the state an unforeseen exception will
\* leave.
Prepare(c) ==
  /\ pc[c] = "call"
  /\ started' = [started EXCEPT ![c] = TRUE]
  /\ state' = [state EXCEPT ![c] = IF operation[c] \in ReadOnly THEN "not_applicable" ELSE "unknown"]
  /\ goto(c, "api")
  /\ UNCHANGED <<asked, operation, known, error, reply, published, faults>>

\* What a call of the API may tell, and whether it then published.
Told(o) == IF o \in ReadOnly THEN {[state |-> "not_applicable", done |-> FALSE]}
           ELSE {[state |-> "not_published", done |-> FALSE],
                 [state |-> "not_applicable", done |-> FALSE],
                 [state |-> "published", done |-> TRUE],
                 [state |-> "unknown", done |-> TRUE], [state |-> "unknown", done |-> FALSE]}

Call(c) ==
  /\ pc[c] = "api"
  /\ \/ /\ published' = [published EXCEPT ![c] = operation[c] \notin ReadOnly]
        /\ state' = [state EXCEPT ![c] = IF operation[c] \in ReadOnly THEN "not_applicable" ELSE "published"]
        /\ known' = [known EXCEPT ![c] = state'[c]]
        /\ goto(c, "encode")
        /\ UNCHANGED <<error, faults>>
     \/ /\ Fault(c)
        /\ \E t \in Told(operation[c]) :
             /\ published' = [published EXCEPT ![c] = t.done]
             /\ known' = [known EXCEPT ![c] = t.state]
             /\ raise(c, Recovery("IO_ERROR", t.state))
        /\ UNCHANGED state
     \/ /\ Fault(c)
        /\ \E d \in BOOLEAN :
             published' = [published EXCEPT ![c] = d /\ operation[c] \notin ReadOnly]
        /\ \E e \in {Other, Interrupt} : raise(c, e)
        /\ UNCHANGED <<state, known>>
  /\ UNCHANGED <<asked, operation, started, reply>>

\* _encode and the limit of the response.
Encode(c) ==
  /\ pc[c] = "encode"
  /\ \/ goto(c, "report") /\ UNCHANGED <<error, faults>>
     \/ /\ Fault(c)
        /\ \E e \in {Recovery("IO_ERROR", state[c]), Recovery("RESOURCE_LIMIT", state[c]), Other, Interrupt} :
             raise(c, e)
  /\ UNCHANGED <<asked, operation, state, started, known, reply, published>>

\* Bug: an unforeseen exception is taken for a failure to publish.
HandledHopeful(c) ==
  LET e == error[c] IN
  IF e.kind = "other" THEN Recovery("IO_ERROR", Initial(operation[c])) ELSE e

\* main's handlers.  operation_budget adds nothing on the way out.
Handled(c) ==
  LET e == error[c] IN
  CASE e.kind = "recovery" ->
         IF ~started[c] /\ operation[c] \in ReadOnly THEN [e EXCEPT !.state = "not_applicable"] ELSE e
    [] e.kind = "other" ->
         Recovery(IF state[c] = "unknown" THEN "PUBLICATION_UNKNOWN" ELSE "IO_ERROR", state[c])
    [] e.kind \in {"none", "interrupt"} -> e

\* _error_response and _write_response.  An interruption prints nothing.
Report(c) ==
  LET r == IF error[c].kind = "none"
           THEN [status |-> "OK", code |-> "none", state |-> state[c], whole |-> TRUE]
           ELSE [status |-> "ERROR", code |-> Handled(c).code, state |-> Handled(c).state, whole |-> TRUE]
  IN
  /\ pc[c] = "report"
  /\ \/ error[c].kind = "interrupt" /\ UNCHANGED <<reply, faults>>
     \/ error[c].kind # "interrupt" /\ reply' = [reply EXCEPT ![c] = r] /\ UNCHANGED faults
     \/ /\ error[c].kind # "interrupt"
        /\ Fault(c)
        /\ reply' = [reply EXCEPT ![c] = [r EXCEPT !.whole = FALSE]]
  /\ goto(c, "done")
  /\ UNCHANGED <<asked, operation, state, started, known, error, published>>

\* All calls are over.
Over == (\A c \in Calls : pc[c] = "done") /\ UNCHANGED vars

Next ==
  \/ \E c \in Calls : Parse(c) \/ Configure(c) \/ Prepare(c) \/ Call(c) \/ Encode(c) \/ Report(c)
  \/ Over

Spec == Init /\ [][Next]_vars
-----------------------------------------------------------------------------
PublicationStates == {"not_published", "published", "unknown", "not_applicable"}

TypeOK ==
  /\ asked \in [Calls -> Operations]
  /\ operation \in [Calls -> Operations \union {NoOperation}]
  /\ state \in [Calls -> PublicationStates]
  /\ known \in [Calls -> PublicationStates \union {"nothing"}]
  /\ \A c \in Calls : reply[c] # NoReply => reply[c].state \in PublicationStates
  /\ \A c \in Calls : faults[c] \in 0 .. MaxFaults

\* docs/a2/INTERFACE_PROFILE.md, main: a line never denies a publication that
\* took place and never claims one that did not; it is "unknown" only when the
\* API was called for an operation that publishes; what the API told is told
\* again, whatever fails between its result and the line; and an operation
\* that reads never speaks of publication.
LineHonest ==
  \A c \in Calls : reply[c] # NoReply =>
    /\ reply[c].state = "published" => published[c]
    /\ reply[c].state \in {"not_published", "not_applicable"} => ~published[c]
    /\ reply[c].state = "unknown" => started[c] /\ asked[c] \notin ReadOnly
    /\ known[c] # "nothing" => reply[c].state = known[c]
    /\ operation[c] \in ReadOnly => reply[c].state = "not_applicable"
=============================================================================
