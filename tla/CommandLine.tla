----------------------------- MODULE CommandLine -----------------------------
(***************************************************************************)
(* cli.py: one process per call of artifact-ledger.  A call parses its     *)
(* arguments, reads its input files, opens the Ledger, runs one operation, *)
(* publishes the content files it was asked for and prints one JSON line.  *)
(*                                                                         *)
(* The Ledger is what Ledger.execute promises (WriteProtocol): an error    *)
(* says a commit state that is true.  What is at stake here is everything  *)
(* that can still go wrong around it: the outputs are published one after  *)
(* the other in directories that others use too, and encoding, closing and *)
(* printing can fail after the commit.                                     *)
(***************************************************************************)
EXTENDS Naturals, FiniteSets, Sequences

CONSTANTS Calls,
          Command,      \* Command[c] \in {"write", "query", "read-blob", "export"}
          Choices,      \* Choices[c]: the lists of output names it may be called with
          Names,        \* of outputs
          Directory,    \* Directory[n]
          Reserved,     \* the names of the database's SQLite sidecars
          Gone, Foreign,
          MaxFaults     \* bound: failures, interruptions, foreign files

ASSUME CommandAssumption ==
  /\ Command \in [Calls -> {"write", "query", "read-blob", "export"}]
  /\ Choices \in [Calls -> SUBSET Seq(Names)]
  /\ \A c \in Calls : \A o \in Choices[c] :
       Len(o) = CASE Command[c] = "export" -> 2 [] Command[c] = "read-blob" -> 1 [] OTHER -> 0

\* What a call makes of one of its outputs, all of it or a part.
Files == [by : Calls, part : 1 .. 2, whole : BOOLEAN]

\* No file, and a file of somebody else, are no output.
ASSUME FilesAssumption == Gone # Foreign /\ Gone \notin Files /\ Foreign \notin Files

ASSUME FaultsAssumption == MaxFaults \in Nat

VARIABLES
  pc,
  started,     \* write_started
  result,      \* the operation's result: "none", "OK" or "COMMITTED"
  error,       \* the exception on its way out
  handle,      \* the Ledger is open
  outputs,     \* outputs[c]: the names it publishes, in order
  output,      \* the index of the output being published
  temporary,   \* temporary[c]: the file made by mkstemp
  file,        \* file[n]: what processes see at name n
  durable,     \* the names whose entry survives a loss of power
  line,        \* the JSON line printed on stdout
  exit,
  committed,   \* the calls whose request is in the Ledger
  faults

local == <<started, result, error, handle>>
publishing == <<outputs, output, temporary, file, durable>>
printed == <<line, exit>>
vars == <<pc, local, publishing, printed, committed, faults>>

None == [kind |-> "none", state |-> "none", identity |-> FALSE]
Error(kind, state) == [kind |-> kind, state |-> state, identity |-> FALSE]
CommittedError == [kind |-> "ledger", state |-> "committed", identity |-> TRUE]
Interrupt == Error("interrupt", "none")
\* What the code raises besides: a LedgerError that is no verdict of execute.
Refusals == {Error("ledger", "not_committed"), Error("ledger", "not_applicable")}
Failures == {Error("os", "none"), Error("other", "none"), Interrupt}

NoLine == [status |-> "none", state |-> "none", identity |-> FALSE, whole |-> FALSE]

Content(c) == [by |-> c, part |-> output[c], whole |-> TRUE]

Init ==
  /\ pc = [c \in Calls |-> "parse"]
  /\ started = [c \in Calls |-> FALSE]
  /\ result = [c \in Calls |-> "none"]
  /\ error = [c \in Calls |-> None]
  /\ handle = [c \in Calls |-> FALSE]
  /\ outputs = [c \in Calls |-> <<>>]
  /\ output = [c \in Calls |-> 1]
  /\ temporary = [c \in Calls |-> Gone]
  /\ file = [n \in Names |-> Gone]
  /\ durable = {}
  /\ line = [c \in Calls |-> NoLine]
  /\ exit = [c \in Calls |-> "none"]
  /\ committed = {}
  /\ faults = 0
-----------------------------------------------------------------------------
Fault == faults < MaxFaults /\ faults' = faults + 1

goto(c, point) == pc' = [pc EXCEPT ![c] = point]
raise(c, e) == error' = [error EXCEPT ![c] = e]
finish(c, r) == result' = [result EXCEPT ![c] = r]

\* _parser().parse_args: an unknown option, a missing or repeated one.  When
\* the command itself is not known the state is not_committed too.
Parse(c) ==
  /\ pc[c] = "parse"
  /\ \/ /\ \E o \in Choices[c] : outputs' = [outputs EXCEPT ![c] = o]
        /\ goto(c, "inputs")
        /\ UNCHANGED <<error, faults>>
     \/ /\ Fault
        /\ \E s \in {"not_committed",
                     IF Command[c] = "write" THEN "not_committed" ELSE "not_applicable"} :
             raise(c, Error("ledger", s))
        /\ goto(c, "print")
        /\ UNCHANGED outputs
  /\ UNCHANGED <<started, result, handle, output, temporary, file, durable, printed, committed>>

\* _check_output_paths, and package # descriptor.
OutputsAllowed(c) ==
  /\ \A i \in DOMAIN outputs[c] : outputs[c][i] \notin Reserved
  /\ \A i, j \in DOMAIN outputs[c] : i # j => outputs[c][i] # outputs[c][j]

\* _write_input, _payloads, _read_file, _valid_path: all before the database.
Inputs(c) ==
  /\ pc[c] = "inputs"
  /\ \/ OutputsAllowed(c) /\ goto(c, "open") /\ UNCHANGED <<error, faults>>
     \/ /\ ~OutputsAllowed(c)
        /\ raise(c, Error("ledger", "not_committed")) /\ goto(c, "close") /\ UNCHANGED faults
     \/ /\ Fault
        /\ \E e \in Refusals \union Failures : raise(c, e)
        /\ goto(c, "close")
  /\ UNCHANGED <<started, result, handle, publishing, printed, committed>>

\* initialize(args.db) or open_ledger(args.db)
Open(c) ==
  /\ pc[c] = "open"
  /\ \/ /\ handle' = [handle EXCEPT ![c] = TRUE]
        /\ goto(c, "run")
        /\ UNCHANGED <<error, faults>>
     \/ /\ Fault
        /\ \E e \in Refusals \union Failures : raise(c, e)
        /\ goto(c, "close")
        /\ UNCHANGED handle
  /\ UNCHANGED <<started, result, publishing, printed, committed>>
-----------------------------------------------------------------------------
(* The operation.                                                          *)

\* What handle.execute can tell, and whether the request is then committed.
Verdicts ==
  {[e |-> Error("ledger", "not_committed"), done |-> FALSE],
   [e |-> CommittedError, done |-> TRUE]}
  \union {[e |-> e, done |-> d] : e \in {Error("ledger", "unknown")} \union Failures, d \in BOOLEAN}

Execute(c) ==
  /\ pc[c] = "run" /\ Command[c] = "write"
  /\ started' = [started EXCEPT ![c] = TRUE]
  /\ \/ /\ finish(c, "COMMITTED")
        /\ committed' = committed \union {c}
        /\ goto(c, "encode")
        /\ UNCHANGED <<error, faults>>
     \/ /\ Fault
        /\ \E v \in Verdicts :
             /\ raise(c, v.e)
             /\ committed' = IF v.done THEN committed \union {c} ELSE committed
        /\ goto(c, "close")
        /\ UNCHANGED result
  /\ UNCHANGED <<handle, publishing, printed>>

\* init, get, history, operation, verify; the reading half of the others.
Query(c) ==
  /\ pc[c] = "run" /\ Command[c] # "write"
  /\ \/ /\ IF outputs[c] = <<>>
           THEN finish(c, "OK") /\ goto(c, "encode")
           ELSE goto(c, "stage") /\ UNCHANGED result
        /\ UNCHANGED <<error, faults>>
     \/ /\ Fault
        /\ \E e \in Refusals \union Failures : raise(c, e)
        /\ goto(c, "close")
        /\ UNCHANGED result
  /\ UNCHANGED <<started, handle, publishing, printed, committed>>
-----------------------------------------------------------------------------
(* _publish: one output, written privately and linked to its name.         *)

Name(c) == outputs[c][output[c]]

\* A LedgerError of _publish's own, MemoryError, an interruption.
NotPublished == {Error("ledger", "not_applicable"), Error("other", "none"), Interrupt}

\* mkstemp in the target's directory, write, flush, fsync.  What is there
\* after a failure, or what reading it back shows, need not be the content.
Stage(c) ==
  /\ pc[c] = "stage"
  /\ \/ temporary' = [temporary EXCEPT ![c] = Content(c)] /\ UNCHANGED faults
     \/ Fault /\ temporary' = [temporary EXCEPT ![c] = [Content(c) EXCEPT !.whole = FALSE]]
  /\ goto(c, "check")
  /\ UNCHANGED <<local, outputs, output, file, durable, printed, committed>>

\* The temporary file is read back: its length and digest, or the failure of
\* the write that made it.
CheckOutput(c) ==
  /\ pc[c] = "check"
  /\ \/ temporary[c].whole /\ goto(c, "link") /\ UNCHANGED <<error, faults>>
     \/ /\ ~temporary[c].whole
        /\ \E e \in NotPublished : raise(c, e)
        /\ goto(c, "unlink") /\ UNCHANGED faults
     \/ /\ Fault
        /\ \E e \in NotPublished : raise(c, e)
        /\ goto(c, "unlink")
  /\ UNCHANGED <<started, result, handle, publishing, printed, committed>>

\* Bug: os.replace instead of os.link.
LinkReplacing(c) ==
  /\ pc[c] = "link"
  /\ file' = [file EXCEPT ![Name(c)] = temporary[c]]
  /\ durable' = durable \ {Name(c)}
  /\ goto(c, "sync")
  /\ UNCHANGED <<local, outputs, output, temporary, printed, committed, faults>>

\* os.link refuses every existing name.
Link(c) ==
  /\ pc[c] = "link"
  /\ \/ /\ file[Name(c)] = Gone
        /\ file' = [file EXCEPT ![Name(c)] = temporary[c]]
        /\ goto(c, "sync")
        /\ UNCHANGED <<error, faults>>
     \/ /\ file[Name(c)] # Gone
        /\ raise(c, Error("ledger", "not_applicable"))
        /\ goto(c, "unlink")
        /\ UNCHANGED <<file, faults>>
     \/ /\ Fault
        /\ \E e \in NotPublished : raise(c, e)
        /\ goto(c, "unlink")
        /\ UNCHANGED file
  /\ UNCHANGED <<started, result, handle, outputs, output, temporary, durable, printed, committed>>

\* Bug: the directory is not synchronized.
SyncNothing(c) ==
  /\ pc[c] = "sync"
  /\ goto(c, "unlink")
  /\ UNCHANGED <<local, publishing, printed, committed, faults>>

\* The directory's entries become durable.
SyncDirectory(c) ==
  /\ pc[c] = "sync"
  /\ \/ /\ durable' = durable \union {n \in Names : Directory[n] = Directory[Name(c)] /\ file[n] # Gone}
        /\ UNCHANGED <<error, faults>>
     \/ /\ Fault
        /\ \E e \in NotPublished : raise(c, e)
        /\ UNCHANGED durable
  /\ goto(c, "unlink")
  /\ UNCHANGED <<started, result, handle, outputs, output, temporary, file, printed, committed>>

\* The finally: the temporary name is removed, or not, without a word.
Unlink(c) ==
  /\ pc[c] = "unlink"
  /\ \/ temporary' = [temporary EXCEPT ![c] = Gone] /\ UNCHANGED faults
     \/ Fault /\ UNCHANGED temporary
  /\ CASE error[c] # None ->
            goto(c, "close") /\ UNCHANGED <<output, result>>
       [] error[c] = None /\ output[c] < Len(outputs[c]) ->
            output' = [output EXCEPT ![c] = @ + 1] /\ goto(c, "stage") /\ UNCHANGED result
       [] OTHER ->
            finish(c, "OK") /\ goto(c, "encode") /\ UNCHANGED output
  /\ UNCHANGED <<started, error, handle, outputs, file, durable, printed, committed>>
-----------------------------------------------------------------------------
(* The way out.                                                            *)

\* canonical_bytes and the limit of the envelope.
Encode(c) ==
  /\ pc[c] = "encode"
  /\ \/ UNCHANGED <<error, faults>>
     \/ Fault /\ \E e \in Refusals \union Failures : raise(c, e)
  /\ goto(c, "close")
  /\ UNCHANGED <<started, result, handle, publishing, printed, committed>>

\* The finally: a handle is closed; a failure matters only when it is the first.
Close(c) ==
  /\ pc[c] = "close"
  /\ handle' = [handle EXCEPT ![c] = FALSE]
  /\ \/ UNCHANGED <<error, faults>>
     \/ /\ handle[c] /\ Fault
        /\ IF error[c] = None THEN \E e \in Refusals \union Failures : raise(c, e)
                              ELSE UNCHANGED error
  /\ goto(c, "conclude")
  /\ UNCHANGED <<started, result, publishing, printed, committed>>

\* Bug: what fails before execute is not told from what fails in it.
ConclusionUnknown(c) ==
  LET e == error[c] IN
  CASE e.kind \in {"none", "interrupt"} -> e
    [] e.kind \notin {"none", "interrupt"} /\ result[c] = "COMMITTED" -> CommittedError
    [] OTHER -> Error("ledger", "not_committed")

\* What the exception becomes for main.
Conclusion(c) ==
  LET e == error[c]
      ordinary == e.kind \notin {"none", "interrupt"} IN
  CASE ~ordinary -> e
    [] ordinary /\ result[c] = "COMMITTED" -> CommittedError
    [] ordinary /\ result[c] # "COMMITTED" /\ e.kind = "ledger" ->
         [e EXCEPT !.state = CASE Command[c] # "write" -> "not_applicable"
                               [] Command[c] = "write" /\ ~started[c] -> "not_committed"
                               [] Command[c] = "write" /\ started[c] -> e.state]
    [] ordinary /\ result[c] # "COMMITTED" /\ e.kind # "ledger" ->
         Error("ledger", CASE started[c] -> "unknown"
                           [] ~started[c] /\ Command[c] = "write" -> "not_committed"
                           [] ~started[c] /\ Command[c] # "write" -> "not_applicable")

\* An interruption leaves the process without a line.
Conclude(c) ==
  /\ pc[c] = "conclude"
  /\ raise(c, Conclusion(c))
  /\ IF error[c].kind = "interrupt"
     THEN exit' = [exit EXCEPT ![c] = "interrupted"] /\ goto(c, "done")
     ELSE goto(c, "print") /\ UNCHANGED exit
  /\ UNCHANGED <<started, result, handle, publishing, line, committed, faults>>

\* _encode_error: what does not fit is left out, never the identity of a commit.
Envelope(c) ==
  IF error[c] = None
  THEN [status |-> result[c], whole |-> TRUE, identity |-> result[c] = "COMMITTED",
        state |-> IF result[c] = "COMMITTED" THEN "committed" ELSE "not_applicable"]
  ELSE [status |-> "ERROR", whole |-> TRUE, identity |-> error[c].identity, state |-> error[c].state]

\* Bug: the exit code is 0 whatever becomes of the line.
WriteLineHopeful(c) ==
  /\ pc[c] = "print"
  /\ \/ line' = [line EXCEPT ![c] = Envelope(c)] /\ UNCHANGED faults
     \/ Fault /\ line' = [line EXCEPT ![c] = [Envelope(c) EXCEPT !.whole = FALSE]]
  /\ exit' = [exit EXCEPT ![c] = IF error[c] = None THEN "zero" ELSE "code"]
  /\ goto(c, "done")
  /\ UNCHANGED <<local, publishing, committed>>

\* _write_channel, all of the line or a part; main, which then adds nothing
\* to stdout and exits with 1.
WriteLine(c) ==
  /\ pc[c] = "print"
  /\ \/ /\ line' = [line EXCEPT ![c] = Envelope(c)]
        /\ exit' = [exit EXCEPT ![c] = IF error[c] = None THEN "zero" ELSE "code"]
        /\ UNCHANGED faults
     \/ /\ Fault
        /\ line' = [line EXCEPT ![c] = [Envelope(c) EXCEPT !.whole = FALSE]]
        /\ \E x \in {"one", "interrupted"} : exit' = [exit EXCEPT ![c] = x]
  /\ goto(c, "done")
  /\ UNCHANGED <<local, publishing, committed>>
-----------------------------------------------------------------------------
(* Others.                                                                 *)

\* Somebody else makes a file, under no name of SQLite's.
Intrude(n) ==
  /\ Fault
  /\ file[n] = Gone
  /\ file' = [file EXCEPT ![n] = Foreign]
  /\ UNCHANGED <<pc, local, outputs, output, temporary, durable, printed, committed>>

\* A call's process dies; an execute under way may or may not be committed.
Die(c) ==
  /\ Fault
  /\ pc[c] # "done"
  /\ goto(c, "done")
  /\ exit' = [exit EXCEPT ![c] = "killed"]
  /\ committed' \in IF pc[c] = "run" /\ Command[c] = "write"
                    THEN {committed, committed \union {c}} ELSE {committed}
  /\ UNCHANGED <<local, publishing, line>>

\* Power is lost: an entry that is not durable may be gone.
LosePower ==
  /\ Fault
  /\ \E lost \in SUBSET {n \in Names : file[n] # Gone /\ n \notin durable} :
       file' = [n \in Names |-> IF n \in lost THEN Gone ELSE file[n]]
  /\ durable' = {n \in Names : file'[n] # Gone}
  /\ pc' = [c \in Calls |-> IF pc[c] = "parse" THEN "parse" ELSE "done"]
  /\ exit' = [c \in Calls |-> IF pc[c] \in {"parse", "done"} THEN exit[c] ELSE "killed"]
  /\ UNCHANGED <<local, outputs, output, temporary, line, committed>>

\* All calls are over.
Over == (\A c \in Calls : pc[c] = "done") /\ UNCHANGED vars

Step(c) ==
  \/ Parse(c) \/ Inputs(c) \/ Open(c) \/ Execute(c) \/ Query(c)
  \/ Stage(c) \/ CheckOutput(c) \/ Link(c) \/ SyncDirectory(c) \/ Unlink(c)
  \/ Encode(c) \/ Close(c) \/ Conclude(c) \/ WriteLine(c)

Next ==
  \/ \E c \in Calls : Step(c) \/ Die(c)
  \/ \E n \in Names \ Reserved : Intrude(n)
  \/ LosePower
  \/ Over

Spec == Init /\ [][Next]_vars
-----------------------------------------------------------------------------
TypeOK ==
  /\ pc \in [Calls -> {"parse", "inputs", "open", "run", "stage", "check", "link", "sync",
                       "unlink", "encode", "close", "conclude", "print", "done"}]
  /\ started \in [Calls -> BOOLEAN]
  /\ handle \in [Calls -> BOOLEAN]
  /\ result \in [Calls -> {"none", "OK", "COMMITTED"}]
  /\ \A c \in Calls : outputs[c] \in Choices[c] \union {<<>>}
  /\ output \in [Calls -> 1 .. 2]
  /\ durable \subseteq {n \in Names : file[n] # Gone}
  /\ committed \subseteq {c \in Calls : Command[c] = "write"}
  /\ \A c \in Calls : pc[c] = "done" => exit[c] # "none"
  /\ faults \in 0 .. MaxFaults

\* INTERFACE_PROFILE 11, cli.py _dispatch: what a line, even one cut short,
\* says of the commit is true, "unknown" only follows a write that was started,
\* and a commit that execute confirmed is told as committed, with the identity
\* under which it can be asked for, whatever fails between it and the line.
LineHonest ==
  \A c \in Calls :
    /\ line[c].state = "committed" => c \in committed
    /\ line[c].state = "not_committed" => c \notin committed
    /\ line[c].state = "not_applicable" => line[c].status = "none" \/ Command[c] # "write"
    /\ line[c].state = "unknown" => started[c]
    /\ line[c] # NoLine /\ result[c] = "COMMITTED" => line[c].state = "committed" /\ line[c].identity

\* Exit code 0 means a whole line of success, a commit for a write, and every
\* output whole at its name, durably.
ZeroMeansDone ==
  \A c \in Calls : exit[c] = "zero" =>
    /\ line[c].whole /\ line[c].status \in {"OK", "COMMITTED"}
    /\ Command[c] = "write" => c \in committed
    /\ \A i \in DOMAIN outputs[c] :
         /\ file[outputs[c][i]] = [by |-> c, part |-> i, whole |-> TRUE]
         /\ outputs[c][i] \in durable

\* A name never shows a part of an output; and _dispatch publishes the package
\* before the descriptor, so who sees an export's descriptor sees the package
\* of the same export beside it: whoever raced for the names, whatever failed,
\* before and after a loss of power.
OutputsWhole ==
  /\ \A n \in Names : file[n] \notin {Gone, Foreign} => file[n].whole
  /\ \A c \in Calls : Len(outputs[c]) = 2 =>
       (file[outputs[c][2]] = [by |-> c, part |-> 2, whole |-> TRUE]
          => file[outputs[c][1]] = [by |-> c, part |-> 1, whole |-> TRUE])

\* A name that exists keeps what it has; only a loss of power takes it away.
NeverReplaced ==
  [][\A n \in Names : file[n] # Gone =>
       file'[n] = file[n] \/ (file'[n] = Gone /\ n \notin durable)]_vars
=============================================================================
