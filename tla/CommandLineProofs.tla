-------------------------- MODULE CommandLineProofs -------------------------
(***************************************************************************)
(* The command line proved for every number of calls, lists of outputs,    *)
(* directories and faults.  The inductive invariant IInv joins to the type *)
(* invariant what a call knows of its commit (CommitOK, ErrorOK), where    *)
(* its outputs are (OutputsOK), what any file is (FileOK) and what was     *)
(* printed (LineOK, ExitOK).                                               *)
(***************************************************************************)
EXTENDS CommandLine, TLAPS

States == {"none", "committed", "not_committed", "not_applicable", "unknown"}
Errors == [kind : {"none", "ledger", "os", "other", "interrupt"}, state : States,
           identity : BOOLEAN]
Lines == [status : {"none", "OK", "COMMITTED", "ERROR"}, state : States, identity : BOOLEAN,
          whole : BOOLEAN]

Points == {"parse", "inputs", "open", "run", "stage", "check", "link", "sync", "unlink", "encode",
           "close", "conclude", "print", "done"}

ControlTyped ==
  /\ pc \in [Calls -> Points]
  /\ started \in [Calls -> BOOLEAN]
  /\ handle \in [Calls -> BOOLEAN]
  /\ result \in [Calls -> {"none", "OK", "COMMITTED"}]
  /\ error \in [Calls -> Errors]
  /\ committed \subseteq {c \in Calls : Command[c] = "write"}

PublishingTyped ==
  /\ outputs \in [Calls -> Seq(Names)]
  /\ \A c \in Calls : outputs[c] \in Choices[c] \cup {<<>>}
  /\ output \in [Calls -> 1 .. 2]
  /\ temporary \in [Calls -> Files \cup {Gone}]
  /\ file \in [Names -> Files \cup {Gone, Foreign}]
  /\ durable \subseteq {n \in Names : file[n] # Gone}

PrintedTyped ==
  /\ line \in [Calls -> Lines]
  /\ exit \in [Calls -> {"none", "zero", "code", "one", "interrupted", "killed"}]
  /\ \A c \in Calls : pc[c] = "done" => exit[c] # "none"

\* TypeOK, and the types of the variables it leaves out.
Typed == ControlTyped /\ PublishingTyped /\ PrintedTyped /\ faults \in 0 .. MaxFaults

\* Nothing is in the Ledger that was not asked for.
CommitOK(c) ==
  /\ result[c] = "COMMITTED" => c \in committed
  /\ started[c] => Command[c] = "write"
  /\ pc[c] \in {"parse", "inputs", "open", "run", "stage", "check", "link", "sync", "unlink"}
       => ~ started[c] /\ result[c] = "none"
  /\ pc[c] # "done" /\ ~ started[c] => c \notin committed

\* A call in good order has no exception; one on its way out without an
\* exception has its result; and what execute raised tells the truth.
ErrorOK(c) ==
  /\ error[c].kind = "none" => error[c] = None
  /\ pc[c] \in {"parse", "inputs", "open", "run", "stage", "check", "link", "sync", "encode"}
       => error[c] = None
  /\ pc[c] \in {"encode", "close", "conclude", "print"} /\ error[c] = None => result[c] # "none"
  /\ pc[c] \in {"encode", "close", "conclude", "print"} /\ Command[c] = "write"
       => result[c] # "OK"
  /\ pc[c] \in {"close", "conclude"} /\ started[c] /\ result[c] = "none" /\ error[c].kind = "ledger"
       => /\ error[c].state \in {"committed", "not_committed", "unknown"}
          /\ error[c].state = "committed" => c \in committed
          /\ error[c].state = "not_committed" => c \notin committed

\* What a line may say of a call.
Says(c, state) ==
  /\ state = "committed" => c \in committed
  /\ state = "not_committed" => c \notin committed
  /\ state = "not_applicable" => Command[c] # "write"
  /\ state = "unknown" => started[c]
  /\ result[c] = "COMMITTED" => state = "committed"

\* Output i is whole at its name, durably.
Done(c, i) ==
  /\ file[outputs[c][i]] = [by |-> c, part |-> i, whole |-> TRUE]
  /\ outputs[c][i] \in durable

\* Outputs are made one after the other, each durable before the next.
OutputsOK(c) ==
  /\ pc[c] = "parse" => outputs[c] = <<>>
  /\ pc[c] \in {"parse", "inputs", "open", "run"} => output[c] = 1
  /\ pc[c] \in {"stage", "check", "link", "sync", "unlink"} =>
       /\ output[c] \in 1 .. Len(outputs[c])
       /\ Command[c] # "write"
       /\ \A i \in 1 .. output[c] - 1 : Done(c, i)
  /\ pc[c] \in {"check", "link"} =>
       temporary[c] \in Files /\ temporary[c].by = c /\ temporary[c].part = output[c]
  /\ pc[c] = "link" => temporary[c].whole
  /\ pc[c] = "sync" => file[Name(c)] = Content(c)
  /\ pc[c] = "unlink" /\ error[c] = None => Done(c, output[c])
  /\ result[c] # "none" => \A i \in 1 .. Len(outputs[c]) : Done(c, i)

\* A file is a whole output of its call; a descriptor's package is beside it.
FileOK(n) ==
  file[n] \in Files =>
    /\ file[n].whole
    /\ pc[file[n].by] # "parse"
    /\ file[n].part = 2 => Done(file[n].by, 1)

\* A line is printed last, and says what is known.
LineOK(c) ==
  /\ pc[c] # "done" => line[c] = NoLine /\ exit[c] = "none"
  /\ pc[c] = "print" /\ error[c] # None =>
       /\ Says(c, error[c].state) /\ error[c].state # "none"
       /\ result[c] = "COMMITTED" => error[c].identity
  /\ line[c] # NoLine =>
       /\ line[c].status # "none"
       /\ Says(c, line[c].state)
       /\ result[c] = "COMMITTED" => line[c].identity

\* Exit code 0 is a success told in full.
ExitOK(c) ==
  exit[c] = "zero" =>
    /\ line[c].whole /\ line[c].status \in {"OK", "COMMITTED"}
    /\ result[c] = line[c].status
    /\ Command[c] = "write" => c \in committed

CallOK(c) == CommitOK(c) /\ ErrorOK(c) /\ OutputsOK(c) /\ LineOK(c) /\ ExitOK(c)

IInv == Typed /\ (\A c \in Calls : CallOK(c)) /\ (\A n \in Names : FileOK(n))
-----------------------------------------------------------------------------
(* Types.                                                                  *)

LEMMA ErrorsTyped ==
  /\ None \in Errors /\ None.kind = "none"
  /\ \A e \in Refusals \cup Failures \cup NotPublished : e \in Errors /\ e.kind # "none"
  /\ \A v \in Verdicts : v.e \in Errors /\ v.e.kind # "none"
  /\ \A s \in States : Error("ledger", s) \in Errors
<1>1. \A k \in {"ledger", "os", "other", "interrupt"}, s \in States :
        Error(k, s) \in Errors /\ Error(k, s).kind # "none"
  BY DEF Error, Errors
<1>2. CommittedError \in Errors /\ CommittedError.kind # "none"
  BY DEF CommittedError, Errors, States
<1>3. \A e \in Refusals \cup Failures \cup NotPublished :
        \E k \in {"ledger", "os", "other", "interrupt"}, s \in States : e = Error(k, s)
  BY DEF Refusals, Failures, NotPublished, Interrupt, States
<1>4. \A v \in Verdicts : \/ v.e = CommittedError
                         \/ \E k \in {"ledger", "os", "other", "interrupt"}, s \in States :
                              v.e = Error(k, s)
  <2>1. \A v \in Verdicts : v.e \in Failures \cup {CommittedError, Error("ledger", "not_committed"),
                                                 Error("ledger", "unknown")}
    BY DEF Verdicts
  <2>. QED
    BY <1>3, <2>1 DEF States
<1>5. None \in Errors /\ None.kind = "none"
  BY DEF None, Errors, States
<1>. QED
  BY <1>1, <1>2, <1>3, <1>4, <1>5

LEMMA ErrorFields == \A k, s : Error(k, s).kind = k /\ Error(k, s).state = s
BY DEF Error

\* What execute raises of the commit is true.
LEMMA VerdictsTrue ==
  \A v \in Verdicts :
    v.e.kind = "ledger" =>
      /\ v.e.state \in {"committed", "not_committed", "unknown"}
      /\ v.e.state = "committed" => v.done
      /\ v.e.state = "not_committed" => ~ v.done
<1>2. \A v \in Verdicts :
        \/ v.e = Error("ledger", "not_committed") /\ ~ v.done
        \/ v.e = CommittedError /\ v.done
        \/ v.e = Error("ledger", "unknown")
        \/ v.e \in Failures
  BY DEF Verdicts
<1>3. \A e \in Failures : e.kind # "ledger"
  BY ErrorFields DEF Failures, Interrupt
<1>4. CommittedError.state = "committed"
  BY DEF CommittedError
<1>. QED
  BY <1>2, <1>3, <1>4, ErrorFields

LEMMA Faulted == faults \in 0 .. MaxFaults /\ (Fault \/ UNCHANGED faults) => faults' \in 0 .. MaxFaults
BY FaultsAssumption DEF Fault

\* The next output of two.
LEMMA Following == \A i \in 1 .. 2, n \in 0 .. 2 : i < n => i + 1 \in 1 .. 2
OBVIOUS

\* One output or two.
LEMMA OutputsNumbered ==
  ASSUME Typed, NEW c \in Calls
  PROVE  /\ Len(outputs[c]) \in 0 .. 2
         /\ Command[c] = "write" => outputs[c] = <<>>
         /\ outputs[c] # <<>> => Len(outputs[c]) > 0
         /\ \A i \in 1 .. Len(outputs[c]) : outputs[c][i] \in Names
<1>1. outputs[c] \in Seq(Names) /\ outputs[c] \in Choices[c] \cup {<<>>}
  BY DEF Typed, PublishingTyped
<1>2. Len(outputs[c]) \in Nat /\ (outputs[c] = <<>> <=> Len(outputs[c]) = 0)
  BY <1>1
<1>3. outputs[c] # <<>> =>
        Len(outputs[c]) = CASE Command[c] = "export" -> 2 [] Command[c] = "read-blob" -> 1
                            [] OTHER -> 0
  BY <1>1, CommandAssumption
<1>4. Command[c] \in {"write", "query", "read-blob", "export"}
  BY CommandAssumption
<1>5. outputs[c] # <<>> => Len(outputs[c]) \in {0, 1, 2} /\ (Command[c] = "write" => Len(outputs[c]) = 0)
  BY <1>3, <1>4
<1>. QED
  BY <1>1, <1>2, <1>5

\* The values at names, and of a line.
LEMMA ValuesTyped ==
  ASSUME Typed, NEW c \in Calls
  PROVE  /\ Len(outputs[c]) >= output[c] => Name(c) \in Names
         /\ Content(c) \in Files /\ [Content(c) EXCEPT !.whole = FALSE] \in Files
         /\ Content(c).whole = TRUE
         /\ Envelope(c) \in Lines /\ [Envelope(c) EXCEPT !.whole = FALSE] \in Lines
         /\ Conclusion(c) \in Errors
         /\ NoLine \in Lines
<1>1. output[c] \in 1 .. 2 /\ result[c] \in {"none", "OK", "COMMITTED"} /\ error[c] \in Errors
      /\ outputs[c] \in Seq(Names)
  BY DEF Typed, ControlTyped, PublishingTyped
<1>2. Len(outputs[c]) >= output[c] => Name(c) \in Names
  BY <1>1 DEF Name
<1>3. Content(c) \in Files /\ [Content(c) EXCEPT !.whole = FALSE] \in Files /\ Content(c).whole = TRUE
  BY <1>1 DEF Content, Files
<1>5. Envelope(c) \in Lines /\ [Envelope(c) EXCEPT !.whole = FALSE] \in Lines
  <2>1. \E st \in {"none", "OK", "COMMITTED", "ERROR"}, x \in States, i \in BOOLEAN :
          Envelope(c) = [status |-> st, whole |-> TRUE, identity |-> i, state |-> x]
    <3>1. CASE error[c] = None
      BY <1>1, <3>1 DEF Envelope, States
    <3>2. CASE error[c] # None
      BY <1>1, <3>2 DEF Envelope, Errors
    <3>. QED
      BY <3>1, <3>2
  <2>2. Envelope(c) \in Lines
    BY <2>1 DEF Lines
  <2>. QED
    BY <2>2 DEF Lines
<1>6. Conclusion(c) \in Errors
  BY <1>1, ErrorsTyped DEF Conclusion, Errors, States, CommittedError
<1>7. NoLine \in Lines
  BY DEF NoLine, Lines, States
<1>. QED
  BY <1>2, <1>3, <1>5, <1>6, <1>7

LEMMA TypedNext == Typed /\ [Next]_vars => Typed'
<1> SUFFICES ASSUME Typed, [Next]_vars PROVE Typed'
  OBVIOUS
<1> USE DEF goto, raise, finish
<1>0. ControlTyped /\ PublishingTyped /\ PrintedTyped
  BY DEF Typed
<1>1. CASE UNCHANGED vars
  BY <1>1 DEF vars, local, publishing, printed, Typed, ControlTyped, PublishingTyped, PrintedTyped
<1>f. faults' \in 0 .. MaxFaults
  <2>1. Fault \/ UNCHANGED faults
    BY DEF Next, Step, Parse, Inputs, Open, Execute, Query, Stage, CheckOutput, Link, SyncDirectory,
           Unlink, Encode, Close, Conclude, WriteLine, Die, Intrude, LosePower, Over, vars
  <2>. QED
    BY <2>1, Faulted DEF Typed
<1>2. ASSUME NEW c \in Calls, Parse(c) PROVE Typed'
  <2>1. ControlTyped'
    BY <1>0, <1>2, ErrorsTyped DEF Parse, local, ControlTyped, Points, States
  <2>2. PublishingTyped'
    <3>1. \A o \in Choices[c] : o \in Seq(Names)
      BY CommandAssumption
    <3>. QED
      BY <1>0, <1>2, <3>1 DEF Parse, PublishingTyped
  <2>3. PrintedTyped'
    BY <1>0, <1>2, ErrorsTyped DEF Parse, printed, PrintedTyped, ControlTyped
  <2>. QED
    BY <1>f, <2>1, <2>2, <2>3 DEF Typed
<1>3. ASSUME NEW c \in Calls, Inputs(c) PROVE Typed'
  <2>1. ControlTyped'
    <3>1. error' \in [Calls -> Errors]
      BY <1>0, <1>3, ErrorsTyped DEF Inputs, ControlTyped, States
    <3>2. pc' \in [Calls -> Points] /\ handle' \in [Calls -> BOOLEAN]
          /\ UNCHANGED <<started, result, committed>>
      BY <1>0, <1>3 DEF Inputs, ControlTyped, Points
    <3>. QED
      BY <1>0, <3>1, <3>2 DEF ControlTyped
  <2>2. PublishingTyped'
    BY <1>0, <1>3, ErrorsTyped DEF Inputs, publishing, PublishingTyped
  <2>3. PrintedTyped'
    BY <1>0, <1>3, ErrorsTyped DEF Inputs, printed, PrintedTyped, ControlTyped
  <2>. QED
    BY <1>f, <2>1, <2>2, <2>3 DEF Typed
<1>4. ASSUME NEW c \in Calls, Open(c) PROVE Typed'
  <2>1. ControlTyped'
    <3>1. error' \in [Calls -> Errors]
      BY <1>0, <1>4, ErrorsTyped DEF Open, ControlTyped
    <3>2. pc' \in [Calls -> Points] /\ handle' \in [Calls -> BOOLEAN]
          /\ UNCHANGED <<started, result, committed>>
      BY <1>0, <1>4 DEF Open, ControlTyped, Points
    <3>. QED
      BY <1>0, <3>1, <3>2 DEF ControlTyped
  <2>2. PublishingTyped'
    BY <1>0, <1>4, ErrorsTyped DEF Open, publishing, PublishingTyped
  <2>3. PrintedTyped'
    BY <1>0, <1>4, ErrorsTyped DEF Open, printed, PrintedTyped, ControlTyped
  <2>. QED
    BY <1>f, <2>1, <2>2, <2>3 DEF Typed
<1>5. ASSUME NEW c \in Calls, Execute(c) PROVE Typed'
  <2>1. ControlTyped'
    BY <1>0, <1>5, ErrorsTyped DEF Execute, local, ControlTyped, Points
  <2>2. PublishingTyped'
    BY <1>0, <1>5, ErrorsTyped DEF Execute, publishing, PublishingTyped
  <2>3. PrintedTyped'
    BY <1>0, <1>5, ErrorsTyped DEF Execute, printed, PrintedTyped, ControlTyped
  <2>. QED
    BY <1>f, <2>1, <2>2, <2>3 DEF Typed
<1>6. ASSUME NEW c \in Calls, Query(c) PROVE Typed'
  <2>1. ControlTyped'
    BY <1>0, <1>6, ErrorsTyped DEF Query, local, ControlTyped, Points
  <2>2. PublishingTyped'
    BY <1>0, <1>6, ErrorsTyped DEF Query, publishing, PublishingTyped
  <2>3. PrintedTyped'
    BY <1>0, <1>6, ErrorsTyped DEF Query, printed, PrintedTyped, ControlTyped
  <2>. QED
    BY <1>f, <2>1, <2>2, <2>3 DEF Typed
<1>7. ASSUME NEW c \in Calls, Stage(c) PROVE Typed'
  <2>1. ControlTyped'
    BY <1>0, <1>7, ValuesTyped DEF Stage, local, ControlTyped, Points
  <2>2. PublishingTyped'
    BY <1>0, <1>7, ValuesTyped DEF Stage, publishing, PublishingTyped
  <2>3. PrintedTyped'
    BY <1>0, <1>7, ValuesTyped DEF Stage, printed, PrintedTyped, ControlTyped
  <2>. QED
    BY <1>f, <2>1, <2>2, <2>3 DEF Typed
<1>8. ASSUME NEW c \in Calls, CheckOutput(c) PROVE Typed'
  <2>1. ControlTyped'
    BY <1>0, <1>8, ErrorsTyped DEF CheckOutput, local, ControlTyped, Points
  <2>2. PublishingTyped'
    BY <1>0, <1>8, ErrorsTyped DEF CheckOutput, publishing, PublishingTyped
  <2>3. PrintedTyped'
    BY <1>0, <1>8, ErrorsTyped DEF CheckOutput, printed, PrintedTyped, ControlTyped
  <2>. QED
    BY <1>f, <2>1, <2>2, <2>3 DEF Typed
<1>9. ASSUME NEW c \in Calls, Link(c) PROVE Typed'
  <2>1. ControlTyped'
    BY <1>0, <1>9, ErrorsTyped, ValuesTyped, FilesAssumption DEF Link, local, ControlTyped, Points,
       States
  <2>2. PublishingTyped'
    BY <1>0, <1>9, ErrorsTyped, ValuesTyped, FilesAssumption DEF Link, publishing, PublishingTyped,
       States
  <2>3. PrintedTyped'
    BY <1>0, <1>9, ErrorsTyped, ValuesTyped, FilesAssumption DEF Link, printed, PrintedTyped,
       ControlTyped
  <2>. QED
    BY <1>f, <2>1, <2>2, <2>3 DEF Typed
<1>10. ASSUME NEW c \in Calls, SyncDirectory(c) PROVE Typed'
  <2>1. ControlTyped'
    BY <1>0, <1>10, ErrorsTyped DEF SyncDirectory, local, ControlTyped, Points
  <2>2. PublishingTyped'
    BY <1>0, <1>10, ErrorsTyped DEF SyncDirectory, publishing, PublishingTyped
  <2>3. PrintedTyped'
    BY <1>0, <1>10, ErrorsTyped DEF SyncDirectory, printed, PrintedTyped, ControlTyped
  <2>. QED
    BY <1>f, <2>1, <2>2, <2>3 DEF Typed
<1>11. ASSUME NEW c \in Calls, Unlink(c) PROVE Typed'
  <2>0. /\ temporary' = [temporary EXCEPT ![c] = Gone] \/ UNCHANGED temporary
        /\ UNCHANGED <<started, error, handle, outputs, file, durable, line, exit, committed>>
    BY <1>11 DEF Unlink, printed
  <2>1. CASE goto(c, "close") /\ UNCHANGED <<output, result>>
    BY <1>0, <1>f, <2>0, <2>1 DEF Typed, ControlTyped, PublishingTyped, PrintedTyped, Points
  <2>2. CASE /\ output[c] < Len(outputs[c])
             /\ output' = [output EXCEPT ![c] = output[c] + 1]
             /\ goto(c, "stage") /\ UNCHANGED result
    <3>1. output[c] + 1 \in 1 .. 2
      <4>1. output[c] \in 1 .. 2
        BY <1>0 DEF PublishingTyped
      <4>2. Len(outputs[c]) \in 0 .. 2
        BY OutputsNumbered
      <4>3. output[c] < Len(outputs[c])
        BY <2>2
      <4>. QED
        BY <4>1, <4>2, <4>3, Following
    <3>. QED
      BY <1>0, <1>f, <2>0, <2>2, <3>1 DEF Typed, ControlTyped, PublishingTyped, PrintedTyped, Points
  <2>3. CASE finish(c, "OK") /\ goto(c, "encode") /\ UNCHANGED output
    BY <1>0, <1>f, <2>0, <2>3 DEF Typed, ControlTyped, PublishingTyped, PrintedTyped, Points
  <2>. QED
    BY <1>11, <2>1, <2>2, <2>3 DEF Unlink
<1>12. ASSUME NEW c \in Calls, Encode(c) PROVE Typed'
  <2>1. ControlTyped'
    BY <1>0, <1>12, ErrorsTyped DEF Encode, local, ControlTyped, Points
  <2>2. PublishingTyped'
    BY <1>0, <1>12, ErrorsTyped DEF Encode, publishing, PublishingTyped
  <2>3. PrintedTyped'
    BY <1>0, <1>12, ErrorsTyped DEF Encode, printed, PrintedTyped, ControlTyped
  <2>. QED
    BY <1>f, <2>1, <2>2, <2>3 DEF Typed
<1>13. ASSUME NEW c \in Calls, Close(c) PROVE Typed'
  <2>1. ControlTyped'
    BY <1>0, <1>13, ErrorsTyped DEF Close, local, ControlTyped, Points
  <2>2. PublishingTyped'
    BY <1>0, <1>13, ErrorsTyped DEF Close, publishing, PublishingTyped
  <2>3. PrintedTyped'
    BY <1>0, <1>13, ErrorsTyped DEF Close, printed, PrintedTyped, ControlTyped
  <2>. QED
    BY <1>f, <2>1, <2>2, <2>3 DEF Typed
<1>14. ASSUME NEW c \in Calls, Conclude(c) PROVE Typed'
  <2>1. ControlTyped'
    BY <1>0, <1>14, ValuesTyped DEF Conclude, local, ControlTyped, Points
  <2>2. PublishingTyped'
    BY <1>0, <1>14, ValuesTyped DEF Conclude, publishing, PublishingTyped
  <2>3. PrintedTyped'
    BY <1>0, <1>14, ValuesTyped DEF Conclude, printed, PrintedTyped, ControlTyped
  <2>. QED
    BY <1>f, <2>1, <2>2, <2>3 DEF Typed
<1>15. ASSUME NEW c \in Calls, WriteLine(c) PROVE Typed'
  <2>1. ControlTyped'
    BY <1>0, <1>15, ValuesTyped DEF WriteLine, local, ControlTyped, Points
  <2>2. PublishingTyped'
    BY <1>0, <1>15, ValuesTyped DEF WriteLine, publishing, PublishingTyped
  <2>3. PrintedTyped'
    <3>1. line' \in [Calls -> Lines]
      BY <1>0, <1>15, ValuesTyped DEF WriteLine, PrintedTyped
    <3>2. PICK x \in {"zero", "code", "one", "interrupted"} : exit' = [exit EXCEPT ![c] = x]
      BY <1>15 DEF WriteLine
    <3>3. pc' = [pc EXCEPT ![c] = "done"]
      BY <1>15 DEF WriteLine
    <3>. QED
      BY <1>0, <3>1, <3>2, <3>3 DEF PrintedTyped, ControlTyped
  <2>. QED
    BY <1>f, <2>1, <2>2, <2>3 DEF Typed
<1>16. ASSUME NEW c \in Calls, Die(c) PROVE Typed'
  <2>1. ControlTyped'
    BY <1>0, <1>16 DEF Die, local, ControlTyped, Points
  <2>2. PublishingTyped'
    BY <1>0, <1>16 DEF Die, publishing, PublishingTyped
  <2>3. PrintedTyped'
    BY <1>0, <1>16 DEF Die, printed, PrintedTyped, ControlTyped
  <2>. QED
    BY <1>f, <2>1, <2>2, <2>3 DEF Typed
<1>17. ASSUME NEW n \in Names, Intrude(n) PROVE Typed'
  <2>1. ControlTyped' /\ PrintedTyped'
    BY <1>0, <1>17 DEF Intrude, local, printed, ControlTyped, PrintedTyped
  <2>2. PublishingTyped'
    BY <1>0, <1>17, FilesAssumption DEF Intrude, PublishingTyped
  <2>. QED
    BY <1>f, <2>1, <2>2 DEF Typed
<1>18. CASE LosePower
  <2>1. ControlTyped'
    BY <1>0, <1>18 DEF LosePower, local, ControlTyped, Points
  <2>2. PublishingTyped'
    BY <1>0, <1>18 DEF LosePower, PublishingTyped
  <2>3. PrintedTyped'
    BY <1>0, <1>18 DEF LosePower, PrintedTyped, ControlTyped
  <2>. QED
    BY <1>f, <2>1, <2>2, <2>3 DEF Typed
<1>. QED
  BY <1>1, <1>2, <1>3, <1>4, <1>5, <1>6, <1>7, <1>8, <1>9, <1>10, <1>11, <1>12, <1>13, <1>14, <1>15,
     <1>16, <1>17, <1>18 DEF Next, Step, Over
-----------------------------------------------------------------------------
(* What a step leaves alone.                                               *)

\* What a step of one call leaves as it is: whatever is known of the others.
Frame(c) ==
  \A d \in Calls \ {c} :
    /\ pc'[d] = pc[d] /\ started'[d] = started[d] /\ result'[d] = result[d]
    /\ error'[d] = error[d] /\ outputs'[d] = outputs[d] /\ output'[d] = output[d]
    /\ temporary'[d] = temporary[d] /\ line'[d] = line[d] /\ exit'[d] = exit[d]
    /\ d \in committed' <=> d \in committed

\* Files stay, and what is durable stays durable.
FilesStay ==
  /\ \A n \in Names : file[n] # Gone => file'[n] = file[n]
  /\ durable \subseteq durable'

LEMMA StepFrame == ASSUME Typed, NEW c \in Calls, Step(c) \/ Die(c) PROVE Frame(c)
<1> USE DEF goto, raise, finish
<1>1. ControlTyped /\ PublishingTyped /\ PrintedTyped
  BY DEF Typed
<1> SUFFICES ASSUME NEW d \in Calls \ {c}
             PROVE  /\ pc'[d] = pc[d] /\ started'[d] = started[d] /\ result'[d] = result[d]
                    /\ error'[d] = error[d] /\ outputs'[d] = outputs[d] /\ output'[d] = output[d]
                    /\ temporary'[d] = temporary[d] /\ line'[d] = line[d] /\ exit'[d] = exit[d]
                    /\ d \in committed' <=> d \in committed
  BY DEF Frame
<1> DEFINE Same == /\ pc'[d] = pc[d] /\ started'[d] = started[d] /\ result'[d] = result[d]
                   /\ error'[d] = error[d] /\ outputs'[d] = outputs[d] /\ output'[d] = output[d]
                   /\ temporary'[d] = temporary[d] /\ line'[d] = line[d] /\ exit'[d] = exit[d]
                   /\ d \in committed' <=> d \in committed
<1>2. CASE Parse(c)
  BY <1>1, <1>2 DEF Parse, local, publishing, printed, ControlTyped, PublishingTyped, PrintedTyped
<1>3. CASE Inputs(c)
  BY <1>1, <1>3 DEF Inputs, local, publishing, printed, ControlTyped, PublishingTyped, PrintedTyped
<1>4. CASE Open(c)
  BY <1>1, <1>4 DEF Open, local, publishing, printed, ControlTyped, PublishingTyped, PrintedTyped
<1>5. CASE Execute(c)
  BY <1>1, <1>5 DEF Execute, local, publishing, printed, ControlTyped, PublishingTyped, PrintedTyped
<1>6. CASE Query(c)
  BY <1>1, <1>6 DEF Query, local, publishing, printed, ControlTyped, PublishingTyped, PrintedTyped
<1>7. CASE Stage(c)
  BY <1>1, <1>7 DEF Stage, local, publishing, printed, ControlTyped, PublishingTyped, PrintedTyped
<1>8. CASE CheckOutput(c)
  BY <1>1, <1>8 DEF CheckOutput, local, publishing, printed, ControlTyped, PublishingTyped,
     PrintedTyped
<1>9. CASE Link(c)
  BY <1>1, <1>9 DEF Link, local, publishing, printed, ControlTyped, PublishingTyped, PrintedTyped
<1>10. CASE SyncDirectory(c)
  BY <1>1, <1>10 DEF SyncDirectory, local, publishing, printed, ControlTyped, PublishingTyped,
     PrintedTyped
<1>11. CASE Unlink(c)
  BY <1>1, <1>11 DEF Unlink, local, publishing, printed, ControlTyped, PublishingTyped, PrintedTyped
<1>12. CASE Encode(c)
  BY <1>1, <1>12 DEF Encode, local, publishing, printed, ControlTyped, PublishingTyped, PrintedTyped
<1>13. CASE Close(c)
  BY <1>1, <1>13 DEF Close, local, publishing, printed, ControlTyped, PublishingTyped, PrintedTyped
<1>14. CASE Conclude(c)
  BY <1>1, <1>14 DEF Conclude, local, publishing, printed, ControlTyped, PublishingTyped,
     PrintedTyped
<1>15. CASE WriteLine(c)
  BY <1>1, <1>15 DEF WriteLine, local, publishing, printed, ControlTyped, PublishingTyped,
     PrintedTyped
<1>16. CASE Die(c)
  BY <1>1, <1>16 DEF Die, local, publishing, printed, ControlTyped, PublishingTyped, PrintedTyped
<1>. QED
  BY <1>2, <1>3, <1>4, <1>5, <1>6, <1>7, <1>8, <1>9, <1>10, <1>11, <1>12, <1>13, <1>14, <1>15, <1>16
     DEF Step

LEMMA StepStays == ASSUME Typed, NEW c \in Calls, Step(c) \/ Die(c) PROVE FilesStay
<1> USE DEF FilesStay
<1>1. ControlTyped /\ PublishingTyped
  BY DEF Typed
<1>2. CASE Link(c)
  BY <1>1, <1>2 DEF Link, PublishingTyped
<1>3. CASE SyncDirectory(c)
  BY <1>3 DEF SyncDirectory
<1>4. CASE ~ Link(c) /\ ~ SyncDirectory(c)
  <2>1. UNCHANGED <<file, durable>>
    BY <1>4 DEF Step, Parse, Inputs, Open, Execute, Query, Stage, CheckOutput, Unlink, Encode,
       Close,
                Conclude, WriteLine, Die, publishing
  <2>. QED
    BY <2>1
<1>. QED
  BY <1>2, <1>3, <1>4

\* An output that is done stays done.
LEMMA DoneStays ==
  ASSUME Typed, NEW c \in Calls, outputs'[c] = outputs[c],
         NEW i \in Nat, FilesStay \/ LosePower, Done(c, i)
  PROVE  Done(c, i)'
<1>1. outputs[c][i] \in durable /\ durable \subseteq {n \in Names : file[n] # Gone}
  BY DEF Done, Typed, PublishingTyped
<1>2. CASE FilesStay
  BY <1>1, <1>2 DEF Done, FilesStay
<1>3. CASE LosePower
  <2>1. \A n \in durable : file'[n] = file[n] /\ n \in durable'
    BY <1>1, <1>3 DEF LosePower
  <2>. QED
    BY <1>1, <2>1 DEF Done
<1>. QED
  BY <1>2, <1>3

\* A call whose own state stays keeps what is known of it while files stay.
LEMMA Undisturbed ==
  ASSUME IInv, NEW d \in Calls, FilesStay,
         /\ pc'[d] = pc[d] /\ started'[d] = started[d] /\ result'[d] = result[d]
         /\ error'[d] = error[d] /\ outputs'[d] = outputs[d] /\ output'[d] = output[d]
         /\ temporary'[d] = temporary[d] /\ line'[d] = line[d] /\ exit'[d] = exit[d]
         /\ d \in committed' <=> d \in committed
  PROVE  CallOK(d)'
<1>1. Typed /\ CallOK(d)
  BY DEF IInv
<1>2. /\ pc'[d] = pc[d] /\ started'[d] = started[d] /\ result'[d] = result[d]
      /\ error'[d] = error[d] /\ outputs'[d] = outputs[d] /\ output'[d] = output[d]
      /\ temporary'[d] = temporary[d] /\ line'[d] = line[d] /\ exit'[d] = exit[d]
      /\ d \in committed' <=> d \in committed
  OBVIOUS
<1>3. CommitOK(d)' /\ ErrorOK(d)' /\ LineOK(d)' /\ ExitOK(d)'
  BY <1>1, <1>2 DEF CallOK, CommitOK, ErrorOK, LineOK, ExitOK, Says
<1>4. OutputsOK(d)'
  <2>1. \A i \in Nat : Done(d, i) => Done(d, i)'
    BY <1>1, <1>2, DoneStays
  <2>2. output[d] \in Nat /\ Len(outputs[d]) \in Nat
    <3>1. output[d] \in 1 .. 2
      BY <1>1 DEF Typed, PublishingTyped
    <3>2. Len(outputs[d]) \in 0 .. 2
      BY <1>1, OutputsNumbered
    <3>. QED
      BY <3>1, <3>2
  <2>3. pc[d] = "sync" => file'[Name(d)] = file[Name(d)]
    <3>1. pc[d] = "sync" => Name(d) \in Names /\ file[Name(d)] # Gone
      BY <1>1, OutputsNumbered, FilesAssumption, ValuesTyped DEF CallOK, OutputsOK, Name
    <3>. QED
      BY <3>1 DEF FilesStay
  <2>4. Name(d)' = Name(d) /\ Content(d)' = Content(d)
    BY <1>2 DEF Name, Content
  <2>. QED
    BY <1>1, <1>2, <2>1, <2>2, <2>3, <2>4 DEF CallOK, OutputsOK
<1>. QED
  BY <1>3, <1>4 DEF CallOK

\* The other calls keep what is known of them.
LEMMA FrameKeeps ==
  ASSUME IInv, NEW c \in Calls, Frame(c), FilesStay, NEW d \in Calls \ {c}
  PROVE  CallOK(d)'
BY Undisturbed DEF Frame

\* So does a file that is left as it is, or taken away.
LEMMA FileKept ==
  ASSUME IInv, NEW n \in Names, file'[n] = file[n] \/ file'[n] = Gone,
         \A c \in Calls : pc[c] # "parse" => pc'[c] # "parse" /\ outputs'[c] = outputs[c],
         FilesStay \/ LosePower
  PROVE  FileOK(n)'
<1>1. Typed /\ FileOK(n)
  BY DEF IInv
<1>2. SUFFICES ASSUME file'[n] \in Files, file'[n] = file[n] PROVE FileOK(n)'
  BY FilesAssumption DEF FileOK
<1>3. file[n].by \in Calls /\ file[n].whole /\ pc[file[n].by] # "parse"
      /\ (file[n].part = 2 => Done(file[n].by, 1))
  BY <1>1, <1>2 DEF FileOK, Files
<1>4. PICK c \in Calls : c = file[n].by
  BY <1>3
<1>5. outputs'[c] = outputs[c] /\ pc'[c] # "parse" /\ 1 \in Nat
  BY <1>3, <1>4
<1>6. file[n].part = 2 => Done(c, 1)'
  BY <1>1, <1>3, <1>4, <1>5, DoneStays
<1>. QED
  BY <1>2, <1>3, <1>4, <1>5, <1>6 DEF FileOK
-----------------------------------------------------------------------------
(* What a call's own step makes of it.                                     *)

LEMMA OwnDone ==
  ASSUME IInv, NEW c \in Calls, Step(c) \/ Die(c), outputs'[c] = outputs[c], output'[c] = output[c]
  PROVE  /\ \A i \in Nat : Done(c, i) => Done(c, i)'
         /\ output[c] \in 1 .. 2 /\ Len(outputs[c]) \in 0 .. 2
         /\ Name(c)' = Name(c) /\ Content(c)' = Content(c)
<1>1. Typed /\ FilesStay
  BY StepStays DEF IInv
<1>2. \A i \in Nat : Done(c, i) => Done(c, i)'
  BY <1>1, DoneStays
<1>3. output[c] \in 1 .. 2 /\ Len(outputs[c]) \in 0 .. 2
  BY <1>1, OutputsNumbered DEF Typed, PublishingTyped
<1>4. Name(c)' = Name(c) /\ Content(c)' = Content(c)
  BY DEF Name, Content
<1>. QED
  BY <1>2, <1>3, <1>4

\* The arguments.
LEMMA ParseKeeps == ASSUME IInv, NEW c \in Calls, Parse(c) PROVE CallOK(c)'
<1> USE DEF goto, raise, finish
<1>1. Typed /\ ControlTyped /\ PublishingTyped /\ PrintedTyped /\ CallOK(c)
  BY DEF IInv, Typed
<1>2. /\ pc[c] = "parse"
      /\ started'[c] = started[c]
      /\ result'[c] = result[c]
      /\ output'[c] = output[c]
      /\ temporary'[c] = temporary[c]
      /\ line'[c] = line[c]
      /\ exit'[c] = exit[c]
      /\ (c \in committed' <=> c \in committed)
  BY <1>1 DEF Parse, local, publishing, printed, ControlTyped, PublishingTyped, PrintedTyped
<1>3. \/ pc'[c] = "inputs" /\ error'[c] = error[c]
      \/ /\ pc'[c] = "print" /\ error'[c] \in Errors /\ error'[c].kind # "none" /\ outputs'[c] = outputs[c]
         /\ error'[c].state \in {"not_committed", "not_applicable"}
         /\ error'[c].state = "not_applicable" => Command[c] # "write"
  <2>1. CASE pc'[c] = "inputs" /\ error'[c] = error[c]
    BY <2>1
  <2>2. CASE \E s \in {"not_committed", IF Command[c] = "write" THEN "not_committed" ELSE "not_applicable"} :
                raise(c, Error("ledger", s)) /\ goto(c, "print") /\ UNCHANGED outputs
    <3>1. PICK s \in {"not_committed", IF Command[c] = "write" THEN "not_committed" ELSE "not_applicable"} :
                 raise(c, Error("ledger", s)) /\ goto(c, "print") /\ UNCHANGED outputs
      BY <2>2
    <3>2. error'[c] = Error("ledger", s) /\ pc'[c] = "print" /\ outputs'[c] = outputs[c]
      BY <1>1, <3>1 DEF ControlTyped
    <3>3. s \in States /\ s \in {"not_committed", "not_applicable"}
          /\ (s = "not_applicable" => Command[c] # "write")
      BY DEF States
    <3>. QED
      BY <3>2, <3>3, ErrorsTyped, ErrorFields
  <2>. QED
    BY <1>1, <2>1, <2>2 DEF Parse, ControlTyped
<1>4. \A e \in Errors : e.kind # "none" => e # None
  BY ErrorsTyped
<1>5. error[c] \in Errors /\ error'[c] \in Errors
  BY <1>1, <1>2, <1>3, ErrorsTyped DEF ControlTyped
<1>6. CommitOK(c)' /\ ErrorOK(c)'
  BY <1>1, <1>2, <1>3, <1>4, <1>5 DEF CallOK, CommitOK, ErrorOK
<1>7. OutputsOK(c)'
  BY <1>1, <1>2, <1>3, <1>4, <1>5 DEF CallOK, CommitOK, ErrorOK, OutputsOK
<1>9. LineOK(c)' /\ ExitOK(c)'
  BY <1>1, <1>2, <1>3, <1>4, <1>5 DEF CallOK, CommitOK, ErrorOK, LineOK, ExitOK, Says
<1>. QED
  BY <1>6, <1>7, <1>9 DEF CallOK

\* The input files.
LEMMA InputsKeeps == ASSUME IInv, NEW c \in Calls, Inputs(c) PROVE CallOK(c)'
<1> USE DEF goto, raise, finish
<1>1. Typed /\ ControlTyped /\ PublishingTyped /\ PrintedTyped /\ CallOK(c)
  BY DEF IInv, Typed
<1>2. /\ pc[c] = "inputs"
      /\ started'[c] = started[c]
      /\ result'[c] = result[c]
      /\ outputs'[c] = outputs[c]
      /\ output'[c] = output[c]
      /\ temporary'[c] = temporary[c]
      /\ line'[c] = line[c]
      /\ exit'[c] = exit[c]
      /\ (c \in committed' <=> c \in committed)
  BY <1>1 DEF Inputs, local, publishing, printed, ControlTyped, PublishingTyped, PrintedTyped
<1>3. \/ pc'[c] = "open" /\ error'[c] = error[c]
      \/ pc'[c] = "close" /\ error'[c] \in Errors /\ error'[c].kind # "none"
  BY <1>1, ErrorsTyped, ErrorFields DEF Inputs, ControlTyped, States
<1>4. \A e \in Errors : e.kind # "none" => e # None
  BY ErrorsTyped
<1>5. error[c] \in Errors /\ error'[c] \in Errors
  BY <1>1, <1>2, <1>3, ErrorsTyped DEF ControlTyped
<1>8. /\ \A i \in Nat : Done(c, i) => Done(c, i)'
      /\ output[c] \in 1 .. 2 /\ Len(outputs[c]) \in 0 .. 2
      /\ Name(c)' = Name(c) /\ Content(c)' = Content(c)
  BY <1>2, OwnDone DEF Step
<1>6. CommitOK(c)' /\ ErrorOK(c)'
  BY <1>1, <1>2, <1>3, <1>4, <1>5 DEF CallOK, CommitOK, ErrorOK
<1>7. OutputsOK(c)'
  BY <1>1, <1>2, <1>3, <1>4, <1>5, <1>8 DEF CallOK, CommitOK, ErrorOK, OutputsOK
<1>9. LineOK(c)' /\ ExitOK(c)'
  BY <1>1, <1>2, <1>3, <1>4, <1>5 DEF CallOK, CommitOK, ErrorOK, LineOK, ExitOK, Says
<1>. QED
  BY <1>6, <1>7, <1>9 DEF CallOK

\* The Ledger is opened.
LEMMA OpenKeeps == ASSUME IInv, NEW c \in Calls, Open(c) PROVE CallOK(c)'
<1> USE DEF goto, raise, finish
<1>1. Typed /\ ControlTyped /\ PublishingTyped /\ PrintedTyped /\ CallOK(c)
  BY DEF IInv, Typed
<1>2. /\ pc[c] = "open"
      /\ started'[c] = started[c]
      /\ result'[c] = result[c]
      /\ outputs'[c] = outputs[c]
      /\ output'[c] = output[c]
      /\ temporary'[c] = temporary[c]
      /\ line'[c] = line[c]
      /\ exit'[c] = exit[c]
      /\ (c \in committed' <=> c \in committed)
  BY <1>1 DEF Open, local, publishing, printed, ControlTyped, PublishingTyped, PrintedTyped
<1>3. \/ pc'[c] = "run" /\ error'[c] = error[c]
      \/ pc'[c] = "close" /\ error'[c] \in Errors /\ error'[c].kind # "none"
  BY <1>1, ErrorsTyped DEF Open, ControlTyped, PublishingTyped, PrintedTyped
<1>4. \A e \in Errors : e.kind # "none" => e # None
  BY ErrorsTyped
<1>5. error[c] \in Errors /\ error'[c] \in Errors
  BY <1>1, <1>2, <1>3, ErrorsTyped DEF ControlTyped
<1>8. /\ \A i \in Nat : Done(c, i) => Done(c, i)'
      /\ output[c] \in 1 .. 2 /\ Len(outputs[c]) \in 0 .. 2
      /\ Name(c)' = Name(c) /\ Content(c)' = Content(c)
  BY <1>2, OwnDone DEF Step
<1>6. CommitOK(c)' /\ ErrorOK(c)'
  BY <1>1, <1>2, <1>3, <1>4, <1>5 DEF CallOK, CommitOK, ErrorOK
<1>7. OutputsOK(c)'
  BY <1>1, <1>2, <1>3, <1>4, <1>5, <1>8 DEF CallOK, CommitOK, ErrorOK, OutputsOK
<1>9. LineOK(c)' /\ ExitOK(c)'
  BY <1>1, <1>2, <1>3, <1>4, <1>5 DEF CallOK, CommitOK, ErrorOK, LineOK, ExitOK, Says
<1>. QED
  BY <1>6, <1>7, <1>9 DEF CallOK

\* A write, or what it raised.
LEMMA ExecuteKeeps == ASSUME IInv, NEW c \in Calls, Execute(c) PROVE CallOK(c)'
<1> USE DEF goto, raise, finish
<1>1. Typed /\ ControlTyped /\ PublishingTyped /\ PrintedTyped /\ CallOK(c)
  BY DEF IInv, Typed
<1>2. /\ pc[c] = "run"
      /\ outputs'[c] = outputs[c]
      /\ output'[c] = output[c]
      /\ temporary'[c] = temporary[c]
      /\ line'[c] = line[c]
      /\ exit'[c] = exit[c]
      /\ started'[c] = TRUE /\ Command[c] = "write"
  BY <1>1 DEF Execute, local, publishing, printed, ControlTyped, PublishingTyped, PrintedTyped
<1>3. \/ pc'[c] = "encode" /\ error'[c] = error[c] /\ result'[c] = "COMMITTED" /\ c \in committed'
      \/ /\ pc'[c] = "close" /\ error'[c] \in Errors /\ error'[c].kind # "none" /\ result'[c] = result[c]
         /\ error'[c].kind = "ledger" =>
              /\ error'[c].state \in {"committed", "not_committed", "unknown"}
              /\ error'[c].state = "committed" => c \in committed'
              /\ error'[c].state = "not_committed" => c \notin committed'
  <2>1. CASE finish(c, "COMMITTED") /\ committed' = committed \cup {c} /\ goto(c, "encode")
             /\ UNCHANGED error
    BY <1>1, <2>1 DEF ControlTyped
  <2>2. ASSUME NEW v \in Verdicts, raise(c, v.e), goto(c, "close"), UNCHANGED result,
               committed' = IF v.done THEN committed \cup {c} ELSE committed
        PROVE  <1>3!2
    <3>1. c \notin committed
      BY <1>1, <1>2 DEF CallOK, CommitOK
    <3>2. error'[c] = v.e /\ pc'[c] = "close" /\ result'[c] = result[c]
          /\ (c \in committed' <=> v.done)
      BY <1>1, <2>2, <3>1 DEF ControlTyped
    <3>. QED
      BY <3>2, ErrorsTyped, VerdictsTrue
  <2>. QED
    BY <2>1, <2>2 DEF Execute
<1>4. \A e \in Errors : e.kind # "none" => e # None
  BY ErrorsTyped
<1>5. error[c] \in Errors /\ error'[c] \in Errors
  BY <1>1, <1>2, <1>3, ErrorsTyped DEF ControlTyped
<1>8. /\ \A i \in Nat : Done(c, i) => Done(c, i)'
      /\ output[c] \in 1 .. 2 /\ Len(outputs[c]) \in 0 .. 2
      /\ Name(c)' = Name(c) /\ Content(c)' = Content(c)
  BY <1>2, OwnDone DEF Step
<1>6. CommitOK(c)' /\ ErrorOK(c)'
  BY <1>1, <1>2, <1>3, <1>4, <1>5 DEF CallOK, CommitOK, ErrorOK
<1>7. OutputsOK(c)'
  BY <1>1, <1>2, <1>3, <1>4, <1>5, <1>8, OutputsNumbered DEF CallOK, CommitOK, ErrorOK, OutputsOK
<1>9. LineOK(c)' /\ ExitOK(c)'
  BY <1>1, <1>2, <1>3, <1>4, <1>5 DEF CallOK, CommitOK, ErrorOK, LineOK, ExitOK, Says
<1>. QED
  BY <1>6, <1>7, <1>9 DEF CallOK

\* Anything else.
LEMMA QueryKeeps == ASSUME IInv, NEW c \in Calls, Query(c) PROVE CallOK(c)'
<1> USE DEF goto, raise, finish
<1>1. Typed /\ ControlTyped /\ PublishingTyped /\ PrintedTyped /\ CallOK(c)
  BY DEF IInv, Typed
<1>2. /\ pc[c] = "run"
      /\ started'[c] = started[c]
      /\ outputs'[c] = outputs[c]
      /\ output'[c] = output[c]
      /\ temporary'[c] = temporary[c]
      /\ line'[c] = line[c]
      /\ exit'[c] = exit[c]
      /\ (c \in committed' <=> c \in committed)
      /\ Command[c] # "write"
  BY <1>1 DEF Query, local, publishing, printed, ControlTyped, PublishingTyped, PrintedTyped
<1>3. \/ pc'[c] = "encode" /\ error'[c] = error[c] /\ result'[c] = "OK" /\ outputs[c] = <<>>
      \/ pc'[c] = "stage" /\ error'[c] = error[c] /\ result'[c] = result[c] /\ outputs[c] # <<>>
      \/ pc'[c] = "close" /\ error'[c] \in Errors /\ error'[c].kind # "none" /\ result'[c] = result[c]
  BY <1>1, ErrorsTyped DEF Query, ControlTyped, PublishingTyped, PrintedTyped
<1>4. \A e \in Errors : e.kind # "none" => e # None
  BY ErrorsTyped
<1>5. error[c] \in Errors /\ error'[c] \in Errors
  BY <1>1, <1>2, <1>3, ErrorsTyped DEF ControlTyped
<1>8. /\ \A i \in Nat : Done(c, i) => Done(c, i)'
      /\ output[c] \in 1 .. 2 /\ Len(outputs[c]) \in 0 .. 2
      /\ Name(c)' = Name(c) /\ Content(c)' = Content(c)
  BY <1>2, OwnDone DEF Step
<1>6. CommitOK(c)' /\ ErrorOK(c)'
  BY <1>1, <1>2, <1>3, <1>4, <1>5 DEF CallOK, CommitOK, ErrorOK
<1>7. OutputsOK(c)'
  BY <1>1, <1>2, <1>3, <1>4, <1>5, <1>8 DEF CallOK, CommitOK, ErrorOK, OutputsOK
<1>9. LineOK(c)' /\ ExitOK(c)'
  BY <1>1, <1>2, <1>3, <1>4, <1>5 DEF CallOK, CommitOK, ErrorOK, LineOK, ExitOK, Says
<1>. QED
  BY <1>6, <1>7, <1>9 DEF CallOK

\* An output is written under a private name.
LEMMA StageKeeps == ASSUME IInv, NEW c \in Calls, Stage(c) PROVE CallOK(c)'
<1> USE DEF goto, raise, finish
<1>1. Typed /\ ControlTyped /\ PublishingTyped /\ PrintedTyped /\ CallOK(c)
  BY DEF IInv, Typed
<1>2. /\ pc[c] = "stage"
      /\ started'[c] = started[c]
      /\ result'[c] = result[c]
      /\ error'[c] = error[c]
      /\ outputs'[c] = outputs[c]
      /\ output'[c] = output[c]
      /\ line'[c] = line[c]
      /\ exit'[c] = exit[c]
      /\ (c \in committed' <=> c \in committed)
  BY <1>1 DEF Stage, local, publishing, printed, ControlTyped, PublishingTyped, PrintedTyped
<1>3. \/ /\ pc'[c] = "check"
         /\ temporary'[c] \in Files /\ temporary'[c].by = c /\ temporary'[c].part = output[c]
  <2>1. /\ Content(c) \in Files /\ Content(c).by = c /\ Content(c).part = output[c]
        /\ Content(c).whole = TRUE
    BY ValuesTyped, <1>1 DEF Content
  <2>2. \A f \in Files : LET g == [f EXCEPT !.whole = FALSE] IN
          g \in Files /\ g.by = f.by /\ g.part = f.part
    BY DEF Files
  <2>3. temporary'[c] = Content(c) \/ temporary'[c] = [Content(c) EXCEPT !.whole = FALSE]
    BY <1>1 DEF Stage, PublishingTyped
  <2>4. pc'[c] = "check"
    BY <1>1 DEF Stage, ControlTyped
  <2>. QED
    BY <2>1, <2>2, <2>3, <2>4
<1>4. \A e \in Errors : e.kind # "none" => e # None
  BY ErrorsTyped
<1>5. error[c] \in Errors /\ error'[c] \in Errors
  BY <1>1, <1>2, <1>3, ErrorsTyped DEF ControlTyped
<1>8. /\ \A i \in Nat : Done(c, i) => Done(c, i)'
      /\ output[c] \in 1 .. 2 /\ Len(outputs[c]) \in 0 .. 2
      /\ Name(c)' = Name(c) /\ Content(c)' = Content(c)
  BY <1>2, OwnDone DEF Step
<1>6. CommitOK(c)' /\ ErrorOK(c)'
  BY <1>1, <1>2, <1>3, <1>4, <1>5 DEF CallOK, CommitOK, ErrorOK
<1>7. OutputsOK(c)'
  BY <1>1, <1>2, <1>3, <1>4, <1>5, <1>8 DEF CallOK, CommitOK, ErrorOK, OutputsOK
<1>9. LineOK(c)' /\ ExitOK(c)'
  BY <1>1, <1>2, <1>3, <1>4, <1>5 DEF CallOK, CommitOK, ErrorOK, LineOK, ExitOK, Says
<1>. QED
  BY <1>6, <1>7, <1>9 DEF CallOK

\* It is read back.
LEMMA CheckOutputKeeps == ASSUME IInv, NEW c \in Calls, CheckOutput(c) PROVE CallOK(c)'
<1> USE DEF goto, raise, finish
<1>1. Typed /\ ControlTyped /\ PublishingTyped /\ PrintedTyped /\ CallOK(c)
  BY DEF IInv, Typed
<1>2. /\ pc[c] = "check"
      /\ started'[c] = started[c]
      /\ result'[c] = result[c]
      /\ outputs'[c] = outputs[c]
      /\ output'[c] = output[c]
      /\ temporary'[c] = temporary[c]
      /\ line'[c] = line[c]
      /\ exit'[c] = exit[c]
      /\ (c \in committed' <=> c \in committed)
  BY <1>1 DEF CheckOutput, local, publishing, printed, ControlTyped, PublishingTyped, PrintedTyped
<1>3. \/ pc'[c] = "link" /\ error'[c] = error[c] /\ temporary[c].whole
      \/ pc'[c] = "unlink" /\ error'[c] \in Errors /\ error'[c].kind # "none"
  BY <1>1, ErrorsTyped DEF CheckOutput, ControlTyped, PublishingTyped, PrintedTyped
<1>4. \A e \in Errors : e.kind # "none" => e # None
  BY ErrorsTyped
<1>5. error[c] \in Errors /\ error'[c] \in Errors
  BY <1>1, <1>2, <1>3, ErrorsTyped DEF ControlTyped
<1>8. /\ \A i \in Nat : Done(c, i) => Done(c, i)'
      /\ output[c] \in 1 .. 2 /\ Len(outputs[c]) \in 0 .. 2
      /\ Name(c)' = Name(c) /\ Content(c)' = Content(c)
  BY <1>2, OwnDone DEF Step
<1>6. CommitOK(c)' /\ ErrorOK(c)'
  BY <1>1, <1>2, <1>3, <1>4, <1>5 DEF CallOK, CommitOK, ErrorOK
<1>7. OutputsOK(c)'
  BY <1>1, <1>2, <1>3, <1>4, <1>5, <1>8 DEF CallOK, CommitOK, ErrorOK, OutputsOK
<1>9. LineOK(c)' /\ ExitOK(c)'
  BY <1>1, <1>2, <1>3, <1>4, <1>5 DEF CallOK, CommitOK, ErrorOK, LineOK, ExitOK, Says
<1>. QED
  BY <1>6, <1>7, <1>9 DEF CallOK

\* It is given its name.
LEMMA LinkKeeps == ASSUME IInv, NEW c \in Calls, Link(c) PROVE CallOK(c)'
<1> USE DEF goto, raise, finish
<1>1. Typed /\ ControlTyped /\ PublishingTyped /\ PrintedTyped /\ CallOK(c)
  BY DEF IInv, Typed
<1>2. /\ pc[c] = "link"
      /\ started'[c] = started[c]
      /\ result'[c] = result[c]
      /\ outputs'[c] = outputs[c]
      /\ output'[c] = output[c]
      /\ temporary'[c] = temporary[c]
      /\ line'[c] = line[c]
      /\ exit'[c] = exit[c]
      /\ (c \in committed' <=> c \in committed)
  BY <1>1 DEF Link, local, publishing, printed, ControlTyped, PublishingTyped, PrintedTyped
<1>3. \/ pc'[c] = "sync" /\ error'[c] = error[c] /\ file'[Name(c)] = Content(c)
      \/ pc'[c] = "unlink" /\ error'[c] \in Errors /\ error'[c].kind # "none"
  <2>1. Name(c) \in Names
    BY <1>1, <1>2, OutputsNumbered DEF CallOK, OutputsOK, Name
  <2>2. temporary[c] = Content(c)
    <3>1. /\ temporary[c] \in Files /\ temporary[c].by = c /\ temporary[c].part = output[c]
          /\ temporary[c].whole
      BY <1>1, <1>2 DEF CallOK, OutputsOK
    <3>2. \A f \in Files : f.whole => f = [by |-> f.by, part |-> f.part, whole |-> TRUE]
      BY DEF Files
    <3>. QED
      BY <3>1, <3>2 DEF Content
  <2>3. CASE file' = [file EXCEPT ![Name(c)] = temporary[c]] /\ goto(c, "sync") /\ UNCHANGED error
    BY <1>1, <2>1, <2>2, <2>3 DEF ControlTyped, PublishingTyped
  <2>4. CASE raise(c, Error("ledger", "not_applicable")) /\ goto(c, "unlink")
    BY <1>1, <2>4, ErrorsTyped, ErrorFields DEF ControlTyped, States
  <2>5. CASE (\E e \in NotPublished : raise(c, e)) /\ goto(c, "unlink")
    BY <1>1, <2>5, ErrorsTyped DEF ControlTyped
  <2>. QED
    BY <2>3, <2>4, <2>5 DEF Link
<1>4. \A e \in Errors : e.kind # "none" => e # None
  BY ErrorsTyped
<1>5. error[c] \in Errors /\ error'[c] \in Errors
  BY <1>1, <1>2, <1>3, ErrorsTyped DEF ControlTyped
<1>8. /\ \A i \in Nat : Done(c, i) => Done(c, i)'
      /\ output[c] \in 1 .. 2 /\ Len(outputs[c]) \in 0 .. 2
      /\ Name(c)' = Name(c) /\ Content(c)' = Content(c)
  BY <1>2, OwnDone DEF Step
<1>6. CommitOK(c)' /\ ErrorOK(c)'
  BY <1>1, <1>2, <1>3, <1>4, <1>5 DEF CallOK, CommitOK, ErrorOK
<1>7. OutputsOK(c)'
  BY <1>1, <1>2, <1>3, <1>4, <1>5, <1>8 DEF CallOK, CommitOK, ErrorOK, OutputsOK
<1>9. LineOK(c)' /\ ExitOK(c)'
  BY <1>1, <1>2, <1>3, <1>4, <1>5 DEF CallOK, CommitOK, ErrorOK, LineOK, ExitOK, Says
<1>. QED
  BY <1>6, <1>7, <1>9 DEF CallOK

\* Its directory is synchronized.
LEMMA SyncDirectoryKeeps == ASSUME IInv, NEW c \in Calls, SyncDirectory(c) PROVE CallOK(c)'
<1> USE DEF goto, raise, finish
<1>1. Typed /\ ControlTyped /\ PublishingTyped /\ PrintedTyped /\ CallOK(c)
  BY DEF IInv, Typed
<1>2. /\ pc[c] = "sync"
      /\ started'[c] = started[c]
      /\ result'[c] = result[c]
      /\ outputs'[c] = outputs[c]
      /\ output'[c] = output[c]
      /\ temporary'[c] = temporary[c]
      /\ line'[c] = line[c]
      /\ exit'[c] = exit[c]
      /\ (c \in committed' <=> c \in committed)
  BY <1>1 DEF SyncDirectory, local, publishing, printed, ControlTyped, PublishingTyped, PrintedTyped
<1>3. \/ pc'[c] = "unlink" /\ error'[c] = error[c] /\ Done(c, output[c])'
      \/ pc'[c] = "unlink" /\ error'[c] \in Errors /\ error'[c].kind # "none"
  <2>1. Name(c) \in Names /\ file[Name(c)] = Content(c) /\ Content(c) # Gone
    BY <1>1, <1>2, OutputsNumbered, ValuesTyped, FilesAssumption DEF CallOK, OutputsOK, Name
  <2>2. pc'[c] = "unlink" /\ file' = file
    BY <1>1 DEF SyncDirectory, ControlTyped
  <2>3. CASE (\E e \in NotPublished : raise(c, e))
    BY <1>1, <2>2, <2>3, ErrorsTyped DEF ControlTyped
  <2>4. CASE /\ durable' = durable \cup {n \in Names : Directory[n] = Directory[Name(c)] /\ file[n] # Gone}
             /\ UNCHANGED error
    <3>1. Name(c) \in durable'
      BY <2>1, <2>4
    <3>. QED
      BY <1>2, <2>1, <2>2, <2>4, <3>1 DEF Done, Name, Content
  <2>. QED
    BY <2>3, <2>4 DEF SyncDirectory
<1>4. \A e \in Errors : e.kind # "none" => e # None
  BY ErrorsTyped
<1>5. error[c] \in Errors /\ error'[c] \in Errors
  BY <1>1, <1>2, <1>3, ErrorsTyped DEF ControlTyped
<1>8. /\ \A i \in Nat : Done(c, i) => Done(c, i)'
      /\ output[c] \in 1 .. 2 /\ Len(outputs[c]) \in 0 .. 2
      /\ Name(c)' = Name(c) /\ Content(c)' = Content(c)
  BY <1>2, OwnDone DEF Step
<1>6. CommitOK(c)' /\ ErrorOK(c)'
  BY <1>1, <1>2, <1>3, <1>4, <1>5 DEF CallOK, CommitOK, ErrorOK
<1>7. OutputsOK(c)'
  BY <1>1, <1>2, <1>3, <1>4, <1>5, <1>8 DEF CallOK, CommitOK, ErrorOK, OutputsOK
<1>9. LineOK(c)' /\ ExitOK(c)'
  BY <1>1, <1>2, <1>3, <1>4, <1>5 DEF CallOK, CommitOK, ErrorOK, LineOK, ExitOK, Says
<1>. QED
  BY <1>6, <1>7, <1>9 DEF CallOK

\* The result is encoded.
LEMMA EncodeKeeps == ASSUME IInv, NEW c \in Calls, Encode(c) PROVE CallOK(c)'
<1> USE DEF goto, raise, finish
<1>1. Typed /\ ControlTyped /\ PublishingTyped /\ PrintedTyped /\ CallOK(c)
  BY DEF IInv, Typed
<1>2. /\ pc[c] = "encode"
      /\ started'[c] = started[c]
      /\ result'[c] = result[c]
      /\ outputs'[c] = outputs[c]
      /\ output'[c] = output[c]
      /\ temporary'[c] = temporary[c]
      /\ line'[c] = line[c]
      /\ exit'[c] = exit[c]
      /\ (c \in committed' <=> c \in committed)
  BY <1>1 DEF Encode, local, publishing, printed, ControlTyped, PublishingTyped, PrintedTyped
<1>3. \/ pc'[c] = "close" /\ error'[c] = error[c]
      \/ pc'[c] = "close" /\ error'[c] \in Errors /\ error'[c].kind # "none"
  BY <1>1, ErrorsTyped DEF Encode, ControlTyped, PublishingTyped, PrintedTyped
<1>4. \A e \in Errors : e.kind # "none" => e # None
  BY ErrorsTyped
<1>5. error[c] \in Errors /\ error'[c] \in Errors
  BY <1>1, <1>2, <1>3, ErrorsTyped DEF ControlTyped
<1>8. /\ \A i \in Nat : Done(c, i) => Done(c, i)'
      /\ output[c] \in 1 .. 2 /\ Len(outputs[c]) \in 0 .. 2
      /\ Name(c)' = Name(c) /\ Content(c)' = Content(c)
  BY <1>2, OwnDone DEF Step
<1>6. CommitOK(c)' /\ ErrorOK(c)'
  BY <1>1, <1>2, <1>3, <1>4, <1>5 DEF CallOK, CommitOK, ErrorOK
<1>7. OutputsOK(c)'
  BY <1>1, <1>2, <1>3, <1>4, <1>5, <1>8 DEF CallOK, CommitOK, ErrorOK, OutputsOK
<1>9. LineOK(c)' /\ ExitOK(c)'
  BY <1>1, <1>2, <1>3, <1>4, <1>5 DEF CallOK, CommitOK, ErrorOK, LineOK, ExitOK, Says
<1>. QED
  BY <1>6, <1>7, <1>9 DEF CallOK

\* The handle is closed.
LEMMA CloseKeeps == ASSUME IInv, NEW c \in Calls, Close(c) PROVE CallOK(c)'
<1> USE DEF goto, raise, finish
<1>1. Typed /\ ControlTyped /\ PublishingTyped /\ PrintedTyped /\ CallOK(c)
  BY DEF IInv, Typed
<1>2. /\ pc[c] = "close"
      /\ started'[c] = started[c]
      /\ result'[c] = result[c]
      /\ outputs'[c] = outputs[c]
      /\ output'[c] = output[c]
      /\ temporary'[c] = temporary[c]
      /\ line'[c] = line[c]
      /\ exit'[c] = exit[c]
      /\ (c \in committed' <=> c \in committed)
  BY <1>1 DEF Close, local, publishing, printed, ControlTyped, PublishingTyped, PrintedTyped
<1>3. \/ pc'[c] = "conclude" /\ error'[c] = error[c]
      \/ pc'[c] = "conclude" /\ error[c] = None /\ error'[c] \in Errors /\ error'[c].kind # "none"
  BY <1>1, ErrorsTyped DEF Close, ControlTyped, PublishingTyped, PrintedTyped
<1>4. \A e \in Errors : e.kind # "none" => e # None
  BY ErrorsTyped
<1>5. error[c] \in Errors /\ error'[c] \in Errors
  BY <1>1, <1>2, <1>3, ErrorsTyped DEF ControlTyped
<1>8. /\ \A i \in Nat : Done(c, i) => Done(c, i)'
      /\ output[c] \in 1 .. 2 /\ Len(outputs[c]) \in 0 .. 2
      /\ Name(c)' = Name(c) /\ Content(c)' = Content(c)
  BY <1>2, OwnDone DEF Step
<1>6. CommitOK(c)' /\ ErrorOK(c)'
  BY <1>1, <1>2, <1>3, <1>4, <1>5 DEF CallOK, CommitOK, ErrorOK
<1>7. OutputsOK(c)'
  BY <1>1, <1>2, <1>3, <1>4, <1>5, <1>8 DEF CallOK, CommitOK, ErrorOK, OutputsOK
<1>9. LineOK(c)' /\ ExitOK(c)'
  BY <1>1, <1>2, <1>3, <1>4, <1>5 DEF CallOK, CommitOK, ErrorOK, LineOK, ExitOK, Says
<1>. QED
  BY <1>6, <1>7, <1>9 DEF CallOK

\* The next output, or all of them.
LEMMA UnlinkKeeps == ASSUME IInv, NEW c \in Calls, Unlink(c) PROVE CallOK(c)'
<1> USE DEF goto, raise, finish
<1>1. Typed /\ ControlTyped /\ PublishingTyped /\ PrintedTyped /\ CallOK(c)
  BY DEF IInv, Typed
<1>2. /\ pc[c] = "unlink"
      /\ UNCHANGED <<started, error, outputs, line, exit, committed>>
  BY DEF Unlink, printed
<1>3. \A i \in Nat : Done(c, i) => Done(c, i)'
  BY <1>1, <1>2, StepStays, DoneStays DEF Step
<1>4. output[c] \in 1 .. 2 /\ Len(outputs[c]) \in 0 .. 2 /\ output[c] \in 1 .. Len(outputs[c])
      /\ \A i \in 1 .. output[c] - 1 : Done(c, i)
  BY <1>1, <1>2, OutputsNumbered DEF PublishingTyped, CallOK, OutputsOK
<1>5. Command[c] # "write" /\ ~ started[c] /\ result[c] = "none" /\ c \notin committed
  BY <1>1, <1>2 DEF CallOK, CommitOK, OutputsOK
<1>6. error[c] = None => \A i \in 1 .. output[c] : Done(c, i)'
  <2>1. error[c] = None => Done(c, output[c])
    BY <1>1, <1>2 DEF CallOK, OutputsOK
  <2>2. \A i \in 1 .. output[c] : i \in 1 .. output[c] - 1 \/ i = output[c]
    BY <1>4
  <2>. QED
    BY <1>3, <1>4, <2>1, <2>2
<1>7. \/ error[c] # None /\ pc'[c] = "close" /\ output'[c] = output[c] /\ result'[c] = result[c]
      \/ error[c] = None /\ pc'[c] = "stage" /\ output'[c] = output[c] + 1 /\ result'[c] = result[c]
         /\ output[c] < Len(outputs[c])
      \/ error[c] = None /\ pc'[c] = "encode" /\ output'[c] = output[c] /\ result'[c] = "OK"
         /\ ~ (output[c] < Len(outputs[c]))
  <2>1. CASE error[c] # None
    BY <1>1, <2>1 DEF Unlink, ControlTyped
  <2>2. CASE error[c] = None /\ output[c] < Len(outputs[c])
    BY <1>1, <2>2 DEF Unlink, ControlTyped, PublishingTyped
  <2>3. CASE error[c] = None /\ ~ (output[c] < Len(outputs[c]))
    BY <1>1, <2>3 DEF Unlink, ControlTyped, PublishingTyped
  <2>. QED
    BY <2>1, <2>2, <2>3
<1>8. CommitOK(c)' /\ ErrorOK(c)'
  BY <1>1, <1>2, <1>5, <1>7 DEF CallOK, CommitOK, ErrorOK
<1>9. OutputsOK(c)'
  <2>1. CASE error[c] # None
    BY <1>2, <1>5, <1>7, <2>1 DEF OutputsOK
  <2>2. CASE error[c] = None /\ output[c] < Len(outputs[c])
    <3>1. output'[c] \in 1 .. Len(outputs[c]) /\ output'[c] - 1 = output[c]
      BY <1>4, <1>7, <2>2
    <3>. QED
      BY <1>2, <1>5, <1>6, <1>7, <2>2, <3>1 DEF OutputsOK
  <2>3. CASE error[c] = None /\ ~ (output[c] < Len(outputs[c]))
    <3>1. output[c] = Len(outputs[c])
      BY <1>4, <2>3
    <3>. QED
      BY <1>2, <1>6, <1>7, <2>3, <3>1 DEF OutputsOK
  <2>. QED
    BY <2>1, <2>2, <2>3
<1>10. LineOK(c)' /\ ExitOK(c)'
  BY <1>1, <1>2, <1>5, <1>7 DEF CallOK, LineOK, ExitOK, Says
<1>. QED
  BY <1>8, <1>9, <1>10 DEF CallOK

\* The conclusion of a call says what is known of its commit.
LEMMA ConclusionSays ==
  ASSUME IInv, NEW c \in Calls, pc[c] = "conclude"
  PROVE  \/ Conclusion(c) = error[c] /\ error[c].kind \in {"none", "interrupt"}
         \/ /\ error[c].kind \notin {"none", "interrupt"}
            /\ Conclusion(c).kind = "ledger"
            /\ Conclusion(c).state # "none" /\ Says(c, Conclusion(c).state)
            /\ result[c] = "COMMITTED" => Conclusion(c).identity
<1>1. ControlTyped /\ CommitOK(c) /\ ErrorOK(c)
  BY DEF IInv, Typed, CallOK
<1>2. error[c] \in Errors /\ started[c] \in BOOLEAN
  BY <1>1 DEF ControlTyped
<1>3. CASE error[c].kind \in {"none", "interrupt"}
  BY <1>3 DEF Conclusion
<1>4. CASE error[c].kind \notin {"none", "interrupt"} /\ result[c] = "COMMITTED"
  <2>1. Conclusion(c) = CommittedError
    BY <1>4 DEF Conclusion
  <2>2. CommittedError.kind = "ledger" /\ CommittedError.state = "committed" /\ CommittedError.identity
    BY DEF CommittedError
  <2>3. Says(c, "committed")
    BY <1>1, <1>4 DEF CommitOK, Says
  <2>. QED
    BY <1>4, <2>1, <2>2, <2>3
<1>5. CASE error[c].kind = "ledger" /\ result[c] # "COMMITTED"
  <2>1. PICK s \in States : Conclusion(c) = [error[c] EXCEPT !.state = s] /\
          s = CASE Command[c] # "write" -> "not_applicable"
                [] Command[c] = "write" /\ ~ started[c] -> "not_committed"
                [] Command[c] = "write" /\ started[c] -> error[c].state
    BY <1>2, <1>5 DEF Conclusion, Errors, States
  <2>2. Conclusion(c).kind = "ledger" /\ Conclusion(c).state = s
    BY <1>2, <1>5, <2>1 DEF Errors
  <2>3. CASE Command[c] # "write"
    BY <1>5, <2>1, <2>2, <2>3 DEF Says
  <2>4. CASE Command[c] = "write" /\ ~ started[c]
    BY <1>1, <1>5, <2>1, <2>2, <2>4 DEF Says, CommitOK
  <2>5. CASE Command[c] = "write" /\ started[c]
    <3>1. s = error[c].state
      BY <2>1, <2>5
    <3>2. result[c] = "none"
      BY <1>1, <1>5, <2>5 DEF ErrorOK, ControlTyped
    <3>. QED
      BY <1>1, <1>5, <2>2, <2>5, <3>1, <3>2 DEF Says, ErrorOK
  <2>. QED
    BY <2>3, <2>4, <2>5
<1>6. CASE error[c].kind \notin {"none", "interrupt", "ledger"} /\ result[c] # "COMMITTED"
  <2>1. CASE started[c]
    <3>1. Conclusion(c) = Error("ledger", "unknown")
      BY <1>6, <2>1 DEF Conclusion
    <3>. QED
      BY <1>6, <2>1, <3>1, ErrorFields DEF Says
  <2>2. CASE ~ started[c] /\ Command[c] = "write"
    <3>1. Conclusion(c) = Error("ledger", "not_committed")
      BY <1>6, <2>2 DEF Conclusion
    <3>. QED
      BY <1>1, <1>6, <2>2, <3>1, ErrorFields DEF Says, CommitOK
  <2>3. CASE ~ started[c] /\ Command[c] # "write"
    <3>1. Conclusion(c) = Error("ledger", "not_applicable")
      BY <1>6, <2>3 DEF Conclusion
    <3>. QED
      BY <1>6, <2>3, <3>1, ErrorFields DEF Says
  <2>. QED
    BY <1>2, <2>1, <2>2, <2>3
<1>. QED
  BY <1>3, <1>4, <1>5, <1>6

\* What main is told.
LEMMA ConcludeKeeps == ASSUME IInv, NEW c \in Calls, Conclude(c) PROVE CallOK(c)'
<1> USE DEF goto, raise, finish
<1>1. Typed /\ ControlTyped /\ PublishingTyped /\ PrintedTyped /\ CallOK(c)
  BY DEF IInv, Typed
<1>2. /\ pc[c] = "conclude" /\ error'[c] = Conclusion(c)
      /\ UNCHANGED <<started, result, outputs, output, line, committed>>
  BY <1>1 DEF Conclude, publishing, ControlTyped
<1>3. \/ error[c].kind = "interrupt" /\ pc'[c] = "done" /\ exit'[c] = "interrupted"
      \/ error[c].kind # "interrupt" /\ pc'[c] = "print" /\ exit'[c] = exit[c]
  BY <1>1 DEF Conclude, ControlTyped, PrintedTyped
<1>4. \A i \in Nat : Done(c, i) => Done(c, i)'
  BY <1>1, <1>2, StepStays, DoneStays DEF Step
<1>5. Len(outputs[c]) \in Nat
  BY <1>1, OutputsNumbered
<1>6. error'[c].kind = "none" => error'[c] = None /\ error[c] = None
  BY <1>1, <1>2, ConclusionSays, ErrorsTyped DEF CallOK, ErrorOK
<1>7. CommitOK(c)' /\ ErrorOK(c)'
  BY <1>1, <1>2, <1>3, <1>6, ErrorsTyped DEF CallOK, CommitOK, ErrorOK
<1>8. OutputsOK(c)'
  BY <1>1, <1>2, <1>3, <1>4, <1>5 DEF CallOK, OutputsOK
<1>9. LineOK(c)' /\ ExitOK(c)'
  <2>1. pc'[c] = "print" /\ error'[c] # None =>
          /\ Says(c, error'[c].state) /\ error'[c].state # "none"
          /\ result[c] = "COMMITTED" => error'[c].identity
    BY <1>1, <1>2, <1>3, ConclusionSays DEF CallOK, ErrorOK
  <2>2. Says(c, error[c].state)' <=> Says(c, error'[c].state)
    BY <1>2 DEF Says
  <2>3. line[c] = NoLine /\ exit[c] = "none"
    BY <1>1, <1>2 DEF CallOK, LineOK
  <2>. QED
    BY <1>2, <1>3, <2>1, <2>2, <2>3 DEF LineOK, ExitOK
<1>. QED
  BY <1>7, <1>8, <1>9 DEF CallOK

\* The line.
LEMMA WriteLineKeeps == ASSUME IInv, NEW c \in Calls, WriteLine(c) PROVE CallOK(c)'
<1> USE DEF goto
<1>1. Typed /\ ControlTyped /\ PublishingTyped /\ PrintedTyped /\ CallOK(c)
  BY DEF IInv, Typed
<1>2. /\ pc[c] = "print" /\ pc'[c] = "done"
      /\ UNCHANGED <<started, result, error, outputs, output, committed>>
  BY <1>1 DEF WriteLine, local, publishing, ControlTyped
<1>3. \/ line'[c] = Envelope(c) /\ exit'[c] = IF error[c] = None THEN "zero" ELSE "code"
      \/ line'[c] = [Envelope(c) EXCEPT !.whole = FALSE] /\ exit'[c] # "zero"
  BY <1>1 DEF WriteLine, PrintedTyped
<1>4. Envelope(c) \in Lines
  BY <1>1, ValuesTyped
<1>5. /\ line'[c].status = Envelope(c).status /\ line'[c].state = Envelope(c).state
      /\ line'[c].identity = Envelope(c).identity
      /\ exit'[c] = "zero" => error[c] = None /\ line'[c].whole = Envelope(c).whole
  BY <1>3, <1>4 DEF Lines
<1>6. \A i \in Nat : Done(c, i) => Done(c, i)'
  BY <1>1, <1>2, StepStays, DoneStays DEF Step
<1>7. Len(outputs[c]) \in Nat
  BY <1>1, OutputsNumbered
<1>8. CommitOK(c)' /\ ErrorOK(c)' /\ OutputsOK(c)'
  BY <1>1, <1>2, <1>6, <1>7 DEF CallOK, CommitOK, ErrorOK, OutputsOK
<1>9. CASE error[c] = None
  <2>1. result[c] \in {"OK", "COMMITTED"} /\ (Command[c] = "write" => result[c] = "COMMITTED")
    BY <1>1, <1>2, <1>9 DEF CallOK, ErrorOK, ControlTyped
  <2>2. /\ Envelope(c).status = result[c] /\ Envelope(c).whole
        /\ Envelope(c).identity <=> result[c] = "COMMITTED"
        /\ Envelope(c).state = IF result[c] = "COMMITTED" THEN "committed" ELSE "not_applicable"
    BY <1>9 DEF Envelope
  <2>3. result[c] = "COMMITTED" => c \in committed
    BY <1>1 DEF CallOK, CommitOK
  <2>4. Says(c, line'[c].state)
    BY <1>5, <2>1, <2>2, <2>3 DEF Says
  <2>5. LineOK(c)'
    BY <1>2, <1>5, <2>1, <2>2, <2>4 DEF LineOK, Says
  <2>6. ExitOK(c)'
    BY <1>2, <1>5, <2>1, <2>2, <2>3 DEF ExitOK
  <2>. QED
    BY <1>8, <2>5, <2>6 DEF CallOK
<1>10. CASE error[c] # None
  <2>1. /\ Envelope(c).status = "ERROR" /\ Envelope(c).identity = error[c].identity
        /\ Envelope(c).state = error[c].state
    BY <1>10 DEF Envelope
  <2>2. /\ Says(c, error[c].state)
        /\ result[c] = "COMMITTED" => error[c].identity
    BY <1>1, <1>2, <1>10 DEF CallOK, LineOK
  <2>3. LineOK(c)'
    BY <1>2, <1>5, <2>1, <2>2 DEF LineOK, Says
  <2>4. ExitOK(c)'
    BY <1>5, <1>10 DEF ExitOK
  <2>. QED
    BY <1>8, <2>3, <2>4 DEF CallOK
<1>. QED
  BY <1>9, <1>10

\* A process that dies says nothing more.
LEMMA DieKeeps == ASSUME IInv, NEW c \in Calls, Die(c) PROVE CallOK(c)'
<1> USE DEF goto
<1>1. Typed /\ ControlTyped /\ PublishingTyped /\ PrintedTyped /\ CallOK(c)
  BY DEF IInv, Typed
<1>2. /\ pc[c] # "done" /\ pc'[c] = "done" /\ exit'[c] = "killed"
      /\ UNCHANGED <<started, result, error, outputs, output, line>>
      /\ c \in committed => c \in committed'
  BY <1>1 DEF Die, local, publishing, ControlTyped, PrintedTyped
<1>3. \A i \in Nat : Done(c, i) => Done(c, i)'
  BY <1>1, <1>2, StepStays, DoneStays
<1>4. Len(outputs[c]) \in Nat
  BY <1>1, OutputsNumbered
<1>5. CommitOK(c)' /\ ErrorOK(c)' /\ OutputsOK(c)'
  BY <1>1, <1>2, <1>3, <1>4 DEF CallOK, CommitOK, ErrorOK, OutputsOK
<1>6. LineOK(c)' /\ ExitOK(c)'
  BY <1>1, <1>2 DEF CallOK, LineOK, ExitOK, Says
<1>. QED
  BY <1>5, <1>6 DEF CallOK

\* Power is lost: every call that was under way is over.
LEMMA LosePowerKeeps == ASSUME IInv, NEW c \in Calls, LosePower PROVE CallOK(c)'
<1>1. Typed /\ ControlTyped /\ PublishingTyped /\ PrintedTyped /\ CallOK(c)
  BY DEF IInv, Typed
<1>2. /\ \/ pc[c] \in {"parse", "done"} /\ pc'[c] = pc[c] /\ exit'[c] = exit[c]
         \/ pc[c] \notin {"parse", "done"} /\ pc'[c] = "done" /\ exit'[c] = "killed"
      /\ UNCHANGED <<started, result, error, outputs, output, line, committed>>
  BY <1>1 DEF LosePower, local
<1>3. \A i \in Nat : Done(c, i) => Done(c, i)'
  BY <1>1, <1>2, DoneStays
<1>4. Len(outputs[c]) \in Nat
  BY <1>1, OutputsNumbered
<1>5. CommitOK(c)' /\ ErrorOK(c)' /\ OutputsOK(c)'
  BY <1>1, <1>2, <1>3, <1>4 DEF CallOK, CommitOK, ErrorOK, OutputsOK
<1>6. LineOK(c)' /\ ExitOK(c)'
  BY <1>1, <1>2 DEF CallOK, LineOK, ExitOK, Says
<1>. QED
  BY <1>5, <1>6 DEF CallOK
-----------------------------------------------------------------------------
(* The invariant.                                                          *)

\* A call's step makes no file but the whole output that it links.
LEMMA StepFiles ==
  ASSUME IInv, NEW c \in Calls, Step(c) \/ Die(c), NEW n \in Names
  PROVE  FileOK(n)'
<1> USE DEF goto, raise, finish
<1>1. Typed /\ ControlTyped /\ PublishingTyped /\ CallOK(c) /\ Frame(c) /\ FilesStay
  BY StepFrame, StepStays DEF IInv, Typed
<1>2. pc[c] # "parse" => pc'[c] # "parse" /\ outputs'[c] = outputs[c]
  BY <1>1 DEF Step, Parse, Inputs, Open, Execute, Query, Stage, CheckOutput, Link, SyncDirectory,
              Unlink, Encode, Close, Conclude, WriteLine, Die, publishing, ControlTyped
<1>3. \A d \in Calls : pc[d] # "parse" => pc'[d] # "parse" /\ outputs'[d] = outputs[d]
  BY <1>1, <1>2 DEF Frame
<1>4. CASE file'[n] = file[n]
  BY <1>1, <1>3, <1>4, FileKept
<1>5. CASE file'[n] # file[n]
  <2>1. Link(c)
    BY <1>5 DEF Step, Parse, Inputs, Open, Execute, Query, Stage, CheckOutput, SyncDirectory,
                Unlink, Encode, Close, Conclude, WriteLine, Die, publishing
  <2>2. pc[c] = "link" /\ file' = [file EXCEPT ![Name(c)] = temporary[c]]
    BY <1>5, <2>1 DEF Link
  <2>3. file'[n] = temporary[c]
    BY <1>1, <1>5, <2>2 DEF PublishingTyped
  <2>4. /\ temporary[c].whole /\ temporary[c].by = c /\ temporary[c].part = output[c]
        /\ output[c] \in 1 .. Len(outputs[c]) /\ \A i \in 1 .. output[c] - 1 : Done(c, i)
    BY <1>1, <2>2 DEF CallOK, OutputsOK
  <2>5. output[c] = 2 => Done(c, 1)
    BY <2>4
  <2>6. pc'[c] # "parse" /\ outputs'[c] = outputs[c] /\ 1 \in Nat
    BY <1>2, <2>2
  <2>7. output[c] = 2 => Done(c, 1)'
    BY <1>1, <2>5, <2>6, DoneStays
  <2>. QED
    BY <2>3, <2>4, <2>6, <2>7 DEF FileOK
<1>. QED
  BY <1>4, <1>5

LEMMA InitIInv == Init => IInv
<1> SUFFICES ASSUME Init PROVE IInv
  OBVIOUS
<1>1. Typed
  <2>1. ControlTyped
    BY ErrorsTyped DEF Init, ControlTyped, Points
  <2>2. PublishingTyped
    BY DEF Init, PublishingTyped
  <2>3. PrintedTyped
    BY DEF Init, PrintedTyped, NoLine, Lines, States
  <2>4. faults \in 0 .. MaxFaults
    BY FaultsAssumption DEF Init
  <2>. QED
    BY <2>1, <2>2, <2>3, <2>4 DEF Typed
<1>2. \A c \in Calls : CallOK(c)
  BY DEF Init, CallOK, CommitOK, ErrorOK, OutputsOK, LineOK, ExitOK
<1>3. \A n \in Names : FileOK(n)
  BY FilesAssumption DEF Init, FileOK
<1>. QED
  BY <1>1, <1>2, <1>3 DEF IInv

LEMMA StepKeeps == ASSUME IInv, NEW c \in Calls, Step(c) \/ Die(c) PROVE CallOK(c)'
BY ParseKeeps, InputsKeeps, OpenKeeps, ExecuteKeeps, QueryKeeps, StageKeeps, CheckOutputKeeps,
   LinkKeeps, SyncDirectoryKeeps, UnlinkKeeps, EncodeKeeps, CloseKeeps, ConcludeKeeps, WriteLineKeeps,
   DieKeeps DEF Step

LEMMA NextIInv == IInv /\ [Next]_vars => IInv'
<1> SUFFICES ASSUME IInv, [Next]_vars PROVE IInv'
  OBVIOUS
<1>1. Typed /\ Typed'
  BY TypedNext DEF IInv
<1>2. ASSUME NEW c \in Calls, Step(c) \/ Die(c) PROVE IInv'
  <2>1. Frame(c) /\ FilesStay
    BY <1>1, <1>2, StepFrame, StepStays
  <2>2. \A d \in Calls : CallOK(d)'
    BY <1>2, <2>1, StepKeeps, FrameKeeps
  <2>3. \A n \in Names : FileOK(n)'
    BY <1>2, StepFiles
  <2>. QED
    BY <1>1, <2>2, <2>3 DEF IInv
<1>3. ASSUME NEW m \in Names \ Reserved, Intrude(m) PROVE IInv'
  <2>1. /\ UNCHANGED <<pc, started, result, error, outputs, output, temporary, line, exit, committed>>
        /\ FilesStay
    <3>1. file[m] = Gone /\ file' = [file EXCEPT ![m] = Foreign] /\ durable' = durable
      BY <1>3 DEF Intrude
    <3>2. UNCHANGED <<pc, started, result, error, outputs, output, temporary, line, exit, committed>>
      BY <1>3 DEF Intrude, local, printed
    <3>. QED
      BY <1>1, <3>1, <3>2 DEF FilesStay, Typed, PublishingTyped
  <2>2. \A d \in Calls : CallOK(d)'
    <3>1. SUFFICES ASSUME NEW d \in Calls PROVE CallOK(d)'
      OBVIOUS
    <3>. QED
      BY <2>1, <3>1, Undisturbed
  <2>3. ASSUME NEW n \in Names PROVE FileOK(n)'
    <3>1. CASE n = m
      BY <1>1, <1>3, <3>1, FilesAssumption DEF Intrude, FileOK, Typed, PublishingTyped
    <3>2. CASE n # m
      <4>1. file'[n] = file[n]
        BY <1>1, <1>3, <3>2 DEF Intrude, Typed, PublishingTyped
      <4>2. \A c \in Calls : pc[c] # "parse" => pc'[c] # "parse" /\ outputs'[c] = outputs[c]
        BY <2>1
      <4>. QED
        BY <2>1, <4>1, <4>2, FileKept
    <3>. QED
      BY <3>1, <3>2
  <2>. QED
    BY <1>1, <2>2, <2>3 DEF IInv
<1>4. CASE LosePower
  <2>1. \A d \in Calls : CallOK(d)'
    BY <1>4, LosePowerKeeps
  <2>2. ASSUME NEW n \in Names PROVE FileOK(n)'
    <3>1. file'[n] = file[n] \/ file'[n] = Gone
      BY <1>4 DEF LosePower
    <3>2. \A c \in Calls : pc[c] # "parse" => pc'[c] # "parse" /\ outputs'[c] = outputs[c]
      BY <1>4 DEF LosePower
    <3>. QED
      BY <1>4, <3>1, <3>2, FileKept
  <2>. QED
    BY <1>1, <2>1, <2>2 DEF IInv
<1>5. CASE UNCHANGED vars
  BY <1>1, <1>5 DEF IInv, CallOK, CommitOK, ErrorOK, OutputsOK, LineOK, ExitOK, FileOK, Done, Says,
     Name,
     Content, vars, local, publishing, printed
<1>. QED
  BY <1>2, <1>3, <1>4, <1>5 DEF Next, Over

\* The inductive invariant, whatever the calls, their outputs and the faults.
THEOREM Invariance == Spec => []IInv
<1>. QED
  BY InitIInv, NextIInv, PTL DEF Spec
-----------------------------------------------------------------------------
(* What it means.                                                          *)

\* INTERFACE_PROFILE 11, _dispatch: what a line says of the commit is true,
\* and a confirmed commit is told as one, with its identity.
THEOREM HonestLine == Spec => []LineHonest
<1>1. IInv => LineHonest
  <2> SUFFICES ASSUME IInv, NEW c \in Calls
               PROVE  /\ line[c].state = "committed" => c \in committed
                      /\ line[c].state = "not_committed" => c \notin committed
                      /\ line[c].state = "not_applicable" => line[c].status = "none" \/ Command[c] # "write"
                      /\ line[c].state = "unknown" => started[c]
                      /\ line[c] # NoLine /\ result[c] = "COMMITTED"
                           => line[c].state = "committed" /\ line[c].identity
    BY DEF LineHonest
  <2>1. LineOK(c)
    BY DEF IInv, CallOK
  <2>2. CASE line[c] = NoLine
    BY <2>2 DEF NoLine
  <2>3. CASE line[c] # NoLine
    BY <2>1, <2>3 DEF LineOK, Says
  <2>. QED
    BY <2>2, <2>3
<1>. QED
  BY <1>1, Invariance, PTL

\* Exit code 0 means a whole line of success, a commit for a write, and every
\* output whole at its name, durably.
THEOREM ZeroIsSuccess == Spec => []ZeroMeansDone
<1>1. IInv => ZeroMeansDone
  <2> SUFFICES ASSUME IInv, NEW c \in Calls, exit[c] = "zero"
               PROVE  /\ line[c].whole /\ line[c].status \in {"OK", "COMMITTED"}
                      /\ Command[c] = "write" => c \in committed
                      /\ \A i \in DOMAIN outputs[c] :
                           /\ file[outputs[c][i]] = [by |-> c, part |-> i, whole |-> TRUE]
                           /\ outputs[c][i] \in durable
    BY DEF ZeroMeansDone
  <2>1. ExitOK(c) /\ OutputsOK(c) /\ outputs[c] \in Seq(Names)
    BY DEF IInv, CallOK, Typed, PublishingTyped
  <2>2. result[c] # "none"
    BY <2>1 DEF ExitOK
  <2>3. \A i \in 1 .. Len(outputs[c]) : Done(c, i)
    BY <2>1, <2>2 DEF OutputsOK
  <2>4. DOMAIN outputs[c] = 1 .. Len(outputs[c])
    BY <2>1
  <2>. QED
    BY <2>1, <2>3, <2>4 DEF ExitOK, Done
<1>. QED
  BY <1>1, Invariance, PTL

\* A name never shows a part of an output, and an export's descriptor has the
\* package of the same export beside it, before and after a loss of power.
THEOREM WholeOutputs == Spec => []OutputsWhole
<1>1. IInv => OutputsWhole
  <2> SUFFICES ASSUME IInv PROVE OutputsWhole
    OBVIOUS
  <2>1. Typed /\ PublishingTyped /\ \A n \in Names : FileOK(n)
    BY DEF IInv, Typed
  <2>2. \A n \in Names : file[n] \notin {Gone, Foreign} => file[n].whole
    BY <2>1 DEF PublishingTyped, FileOK
  <2>3. ASSUME NEW c \in Calls, Len(outputs[c]) = 2,
               file[outputs[c][2]] = [by |-> c, part |-> 2, whole |-> TRUE]
        PROVE  file[outputs[c][1]] = [by |-> c, part |-> 1, whole |-> TRUE]
    <3>1. outputs[c][2] \in Names
      BY <2>1, <2>3, OutputsNumbered
    <3>2. [by |-> c, part |-> 2, whole |-> TRUE] \in Files
      BY DEF Files
    <3>. QED
      BY <2>1, <2>3, <3>1, <3>2 DEF FileOK, Done
  <2>. QED
    BY <2>2, <2>3 DEF OutputsWhole
<1>. QED
  BY <1>1, Invariance, PTL

\* os.link: a name that exists keeps what it has until power is lost, and
\* what is durable is kept even then.
THEOREM KeepsNames == Spec => NeverReplaced
<1>1. Typed /\ [Next]_vars =>
        [\A n \in Names : file[n] # Gone =>
           file'[n] = file[n] \/ (file'[n] = Gone /\ n \notin durable)]_vars
  <2> SUFFICES ASSUME Typed, Next, NEW n \in Names, file[n] # Gone
               PROVE  file'[n] = file[n] \/ (file'[n] = Gone /\ n \notin durable)
    OBVIOUS
  <2>1. ASSUME NEW c \in Calls, Step(c) \/ Die(c) PROVE file'[n] = file[n]
    BY <2>1, StepStays DEF FilesStay
  <2>2. ASSUME NEW m \in Names \ Reserved, Intrude(m) PROVE file'[n] = file[n]
    BY <2>2 DEF Intrude, Typed, PublishingTyped
  <2>3. CASE LosePower
    BY <2>3 DEF LosePower
  <2>4. CASE Over
    BY <2>4 DEF Over, vars, publishing
  <2>. QED
    BY <2>1, <2>2, <2>3, <2>4 DEF Next
<1>2. IInv => Typed
  BY DEF IInv
<1>. QED
  BY <1>1, <1>2, Invariance, PTL DEF Spec, NeverReplaced
=============================================================================
