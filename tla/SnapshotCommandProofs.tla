----------------------- MODULE SnapshotCommandProofs ------------------------
(***************************************************************************)
(* The line of a snapshot command is honest for any set of calls, any      *)
(* operations and any number of failures.                                  *)
(*                                                                         *)
(* LineHonest is not inductive: what Report prints was decided by the step *)
(* that raised.  The invariant says of each point what main's locals are,  *)
(* and of a call about to report that what it will say is honest.          *)
(***************************************************************************)
EXTENDS SnapshotCommand, TLAPS

Points == {"parse", "configure", "call", "api", "encode", "report", "done"}
Codes == {"none", "INVALID_INPUT", "TIMEOUT", "IO_ERROR", "RESOURCE_LIMIT", "PUBLICATION_UNKNOWN"}
Said == PublicationStates \union {"none"}
Errors == [kind : {"none", "recovery", "other", "interrupt"}, code : Codes, state : Said]
Lines == [status : {"none", "OK", "ERROR"}, code : Codes, state : Said, whole : BOOLEAN]

Typed ==
  /\ pc \in [Calls -> Points]
  /\ asked \in [Calls -> Operations]
  /\ operation \in [Calls -> Operations \union {NoOperation}]
  /\ state \in [Calls -> PublicationStates]
  /\ started \in [Calls -> BOOLEAN]
  /\ known \in [Calls -> PublicationStates \union {"nothing"}]
  /\ error \in [Calls -> Errors]
  /\ reply \in [Calls -> Lines]
  /\ published \in [Calls -> BOOLEAN]

\* It would be honest of c to say s.
Honest(c, s) ==
  /\ s = "published" => published[c]
  /\ s \in {"not_published", "not_applicable"} => ~published[c]
  /\ s = "unknown" => started[c] /\ asked[c] \notin ReadOnly
  /\ known[c] # "nothing" => s = known[c]
  /\ operation[c] \in ReadOnly => s = "not_applicable"

\* What c will say, unless it was interrupted.
Verdict(c) == IF error[c].kind = "none" THEN state[c] ELSE Handled(c).state

Unstarted(c) == ~started[c] /\ known[c] = "nothing" /\ ~published[c]

AtPoint(c) ==
  /\ pc[c] # "done" => reply[c] = NoReply
  /\ pc[c] \notin {"report", "done"} => error[c] = None
  /\ pc[c] = "parse" => Unstarted(c) /\ operation[c] = NoOperation /\ state[c] = "not_published"
  /\ pc[c] \in {"configure", "call"} =>
       Unstarted(c) /\ operation[c] = asked[c] /\ state[c] = Initial(asked[c])
  /\ pc[c] = "api" =>
       /\ started[c] /\ known[c] = "nothing" /\ ~published[c] /\ operation[c] = asked[c]
       /\ state[c] = IF asked[c] \in ReadOnly THEN "not_applicable" ELSE "unknown"
  /\ pc[c] = "encode" =>
       /\ started[c] /\ operation[c] = asked[c] /\ known[c] = state[c]
       /\ published[c] = (asked[c] \notin ReadOnly)
       /\ state[c] = IF asked[c] \in ReadOnly THEN "not_applicable" ELSE "published"
  /\ pc[c] = "report" /\ error[c].kind # "interrupt" => Honest(c, Verdict(c))
  /\ pc[c] = "done" /\ reply[c] # NoReply => Honest(c, reply[c].state)

IInv == Typed /\ \A c \in Calls : AtPoint(c)
-----------------------------------------------------------------------------
\* The exceptions main can meet, by kind.
LEMMA ErrorFacts ==
  /\ None \in Errors /\ None.kind = "none"
  /\ Other \in Errors /\ Other.kind = "other"
  /\ Interrupt \in Errors /\ Interrupt.kind = "interrupt"
  /\ Timeout \in Errors /\ Timeout.kind = "recovery" /\ Timeout.state = "not_published"
  /\ \A k \in Codes, x \in Said :
       /\ Recovery(k, x) \in Errors
       /\ Recovery(k, x).kind = "recovery" /\ Recovery(k, x).state = x
  /\ NoReply \in Lines
BY DEF Errors, Lines, None, Other, Interrupt, Timeout, Recovery, NoReply,
       Codes, Said, PublicationStates

LEMMA IInvInit == Init => IInv
<1> SUFFICES ASSUME Init PROVE IInv
  OBVIOUS
<1>1. Typed
  BY ErrorFacts DEF Init, Typed, Points, PublicationStates
<1>2. ASSUME NEW c \in Calls PROVE AtPoint(c)
  BY <1>2 DEF Init, AtPoint, Unstarted
<1>3. QED
  BY <1>1, <1>2 DEF IInv

LEMMA IInvHonest == IInv => LineHonest
BY DEF IInv, Typed, AtPoint, Honest, LineHonest, Points

\* A step of c leaves another call as it was.
LEMMA Elsewhere ==
  ASSUME NEW d \in Calls, AtPoint(d),
         pc'[d] = pc[d], asked' = asked, operation'[d] = operation[d], state'[d] = state[d],
         started'[d] = started[d], known'[d] = known[d], error'[d] = error[d],
         reply'[d] = reply[d], published'[d] = published[d]
  PROVE  AtPoint(d)'
BY DEF AtPoint, Unstarted, Honest, Verdict, Handled, Recovery

LEMMA ParseStep ==
  ASSUME IInv, NEW c \in Calls, Parse(c)
  PROVE  Typed' /\ AtPoint(c)' /\ \A d \in Calls \ {c} : AtPoint(d)'
<1> USE DEF IInv, Typed, Points
<1>1. Initial(asked[c]) \in {"not_applicable", "not_published"}
  BY DEF Initial
<1>2. /\ asked' = asked /\ started' = started /\ known' = known /\ reply' = reply
      /\ published' = published
  BY DEF Parse
<1>3. pc'[c] = "configure" \/ pc'[c] = "report"
  BY DEF Parse, goto, raise
<1>10. Typed'
  <2>1. pc' \in [Calls -> Points]
    BY DEF Parse, goto, raise
  <2>2. operation' \in [Calls -> Operations \union {NoOperation}]
    BY DEF Parse
  <2>3. state' \in [Calls -> PublicationStates]
    BY <1>1 DEF Parse, PublicationStates
  <2>4. error' \in [Calls -> Errors]
    BY ErrorFacts DEF Parse, raise, Initial, Codes, Said, PublicationStates
  <2>5. QED
    BY <1>2, <2>1, <2>2, <2>3, <2>4
<1>11. ASSUME NEW d \in Calls \ {c} PROVE AtPoint(d)'
  <2>1. AtPoint(d)
    OBVIOUS
  <2>2. pc'[d] = pc[d] /\ operation'[d] = operation[d] /\ state'[d] = state[d] /\ error'[d] = error[d]
    BY DEF Parse, goto, raise
  <2>3. QED
    BY <1>2, <2>1, <2>2, Elsewhere
<1>12. ASSUME pc'[c] = "configure" PROVE AtPoint(c)'
  <2>1. operation'[c] = asked[c] /\ state'[c] = Initial(asked[c]) /\ error'[c] = error[c]
    BY <1>12 DEF Parse, goto, raise
  <2>2. reply[c] = NoReply /\ error[c] = None /\ Unstarted(c)
    BY DEF Parse, AtPoint
  <2>3. QED
    BY <1>2, <1>12, <2>1, <2>2 DEF AtPoint, Unstarted, Initial
<1>13. ASSUME pc'[c] = "report" PROVE AtPoint(c)'
  <2>1. reply[c] = NoReply /\ Unstarted(c)
    BY DEF Parse, AtPoint
  <2>2. \/ \E o \in {asked[c], NoOperation} :
             operation'[c] = o /\ error'[c] = Recovery("INVALID_INPUT", Initial(o))
        \/ /\ operation'[c] = NoOperation /\ state'[c] = "not_published"
           /\ error'[c] \in {Timeout, Other, Interrupt}
    BY <1>13 DEF Parse, goto, raise, AtPoint
  <2>3. error'[c] \in Errors /\ error'[c].kind # "none"
    BY <2>2, <1>10, ErrorFacts DEF Initial, Codes, Said, PublicationStates
  <2>4. error'[c].kind # "interrupt" =>
          Verdict(c)' = IF operation'[c] \in ReadOnly THEN "not_applicable" ELSE "not_published"
    BY <1>2, <2>1, <2>2, <2>3, ErrorFacts, ReadOnlyAssumption
       DEF Verdict, Handled, Unstarted, Initial, Recovery, Timeout, Other, Errors
  <2>5. error'[c].kind # "interrupt" => Honest(c, Verdict(c))'
    BY <1>2, <2>1, <2>4 DEF Honest, Unstarted
  <2>6. QED
    BY <1>2, <1>13, <2>1, <2>5 DEF AtPoint
<1>14. QED
  BY <1>3, <1>10, <1>11, <1>12, <1>13

LEMMA ConfigureStep ==
  ASSUME IInv, NEW c \in Calls, Configure(c)
  PROVE  Typed' /\ AtPoint(c)' /\ \A d \in Calls \ {c} : AtPoint(d)'
<1> USE DEF IInv, Typed, Points
<1>1. asked' = asked /\ operation' = operation /\ state' = state /\ started' = started /\ known' = known /\ reply' = reply /\ published' = published
  BY DEF Configure
<1>2. pc'[c] = "call" \/ pc'[c] = "report"
  BY DEF Configure, goto, raise
<1>3. /\ reply[c] = NoReply /\ error[c] = None /\ Unstarted(c)
      /\ operation[c] = asked[c] /\ state[c] = Initial(asked[c])
  BY DEF Configure, AtPoint
<1>4. Typed'
  <2>1. pc' \in [Calls -> Points]
    BY DEF Configure, goto, raise
  <2>2. error' \in [Calls -> Errors]
    BY ErrorFacts DEF Configure, raise, Codes, Said, PublicationStates
  <2>3. QED
    BY <1>1, <2>1, <2>2
<1>5. ASSUME NEW d \in Calls \ {c} PROVE AtPoint(d)'
  <2>1. AtPoint(d)
    OBVIOUS
  <2>2. pc'[d] = pc[d] /\ error'[d] = error[d]
    BY DEF Configure, goto, raise
  <2>3. QED
    BY <1>1, <2>1, <2>2, Elsewhere
<1>6. ASSUME pc'[c] = "call" PROVE AtPoint(c)'
  <2>1. error'[c] = error[c]
    BY <1>6 DEF Configure, goto, raise
  <2>2. QED
    BY <1>1, <1>3, <1>6, <2>1 DEF AtPoint, Unstarted, Initial
<1>7. ASSUME pc'[c] = "report" PROVE AtPoint(c)'
  <2>1. error'[c] \in {Recovery("INVALID_INPUT", "not_published"), Timeout, Other, Interrupt}
    BY <1>7 DEF Configure, goto, raise
  <2>2. error'[c] \in Errors /\ error'[c].kind # "none"
    BY <2>1, ErrorFacts DEF Codes, Said, PublicationStates
  <2>3. error'[c].kind # "interrupt" =>
          Verdict(c)' = IF operation'[c] \in ReadOnly THEN "not_applicable" ELSE "not_published"
    BY <1>1, <1>3, <2>1, <2>2, ErrorFacts
       DEF Verdict, Handled, Unstarted, Initial, Recovery, Timeout, Other, Errors
  <2>4. error'[c].kind # "interrupt" => Honest(c, Verdict(c))'
    BY <1>1, <1>3, <2>3 DEF Honest, Unstarted
  <2>5. QED
    BY <1>1, <1>3, <1>7, <2>4 DEF AtPoint
<1>8. QED
  BY <1>2, <1>4, <1>5, <1>6, <1>7

LEMMA PrepareStep ==
  ASSUME IInv, NEW c \in Calls, Prepare(c)
  PROVE  Typed' /\ AtPoint(c)' /\ \A d \in Calls \ {c} : AtPoint(d)'
<1> USE DEF IInv, Typed, Points
<1>1. asked' = asked /\ operation' = operation /\ known' = known /\ error' = error /\ reply' = reply /\ published' = published
  BY DEF Prepare
<1>2. /\ reply[c] = NoReply /\ error[c] = None /\ Unstarted(c) /\ operation[c] = asked[c]
  BY DEF Prepare, AtPoint
<1>3. /\ pc'[c] = "api" /\ started'[c]
      /\ state'[c] = IF asked[c] \in ReadOnly THEN "not_applicable" ELSE "unknown"
  BY <1>2 DEF Prepare, goto
<1>4. Typed'
  BY <1>1 DEF Prepare, goto, PublicationStates
<1>5. ASSUME NEW d \in Calls \ {c} PROVE AtPoint(d)'
  <2>1. AtPoint(d)
    OBVIOUS
  <2>2. pc'[d] = pc[d] /\ state'[d] = state[d] /\ started'[d] = started[d]
    BY DEF Prepare, goto
  <2>3. QED
    BY <1>1, <2>1, <2>2, Elsewhere
<1>6. AtPoint(c)'
  BY <1>1, <1>2, <1>3 DEF AtPoint, Unstarted
<1>7. QED
  BY <1>4, <1>5, <1>6

LEMMA CallStep ==
  ASSUME IInv, NEW c \in Calls, Call(c)
  PROVE  Typed' /\ AtPoint(c)' /\ \A d \in Calls \ {c} : AtPoint(d)'
<1> USE DEF IInv, Typed, Points
<1>1. asked' = asked /\ operation' = operation /\ started' = started /\ reply' = reply
  BY DEF Call
<1>2. pc'[c] = "encode" \/ pc'[c] = "report"
  BY DEF Call, goto, raise
<1>3. /\ reply[c] = NoReply /\ error[c] = None /\ started[c] /\ known[c] = "nothing"
      /\ operation[c] = asked[c]
      /\ state[c] = IF asked[c] \in ReadOnly THEN "not_applicable" ELSE "unknown"
  BY DEF Call, AtPoint
<1>4. \A t \in Told(operation[c]) :
        /\ t.state \in PublicationStates /\ t.done \in BOOLEAN
        /\ t.state = "published" => t.done
        /\ t.state \in {"not_published", "not_applicable"} => ~t.done
        /\ t.state = "unknown" => operation[c] \notin ReadOnly
        /\ operation[c] \in ReadOnly => t.state = "not_applicable"
  <2>1. ASSUME operation[c] \in ReadOnly, NEW t \in Told(operation[c])
        PROVE  t = [state |-> "not_applicable", done |-> FALSE]
    BY <2>1 DEF Told
  <2>2. ASSUME operation[c] \notin ReadOnly, NEW t \in Told(operation[c])
        PROVE  \/ t = [state |-> "not_published", done |-> FALSE]
               \/ t = [state |-> "not_applicable", done |-> FALSE]
               \/ t = [state |-> "published", done |-> TRUE]
               \/ \E d \in BOOLEAN : t = [state |-> "unknown", done |-> d]
    BY <2>2 DEF Told
  <2>3. TAKE t \in Told(operation[c])
  <2>4. CASE operation[c] \in ReadOnly
    <3>1. t.state = "not_applicable" /\ t.done = FALSE
      BY <2>1, <2>4
    <3>2. QED
      BY <2>4, <3>1 DEF PublicationStates
  <2>5. CASE operation[c] \notin ReadOnly
    <3>1. \/ t.state = "not_published" /\ t.done = FALSE
          \/ t.state = "not_applicable" /\ t.done = FALSE
          \/ t.state = "published" /\ t.done = TRUE
          \/ t.state = "unknown" /\ t.done \in BOOLEAN
      BY <2>2, <2>5
    <3>2. QED
      BY <2>5, <3>1 DEF PublicationStates
  <2>6. QED
    BY <2>4, <2>5
<1>5. Typed'
  <2>1. pc' \in [Calls -> Points]
    BY DEF Call, goto, raise
  <2>2. state' \in [Calls -> PublicationStates]
    BY DEF Call, PublicationStates
  <2>3. known' \in [Calls -> PublicationStates \union {"nothing"}]
    BY <1>4, <2>2 DEF Call, PublicationStates
  <2>4. published' \in [Calls -> BOOLEAN]
    BY <1>4 DEF Call
  <2>5. error' \in [Calls -> Errors]
    BY <1>4, ErrorFacts DEF Call, raise, Codes, Said
  <2>6. QED
    BY <1>1, <2>1, <2>2, <2>3, <2>4, <2>5
<1>6. ASSUME NEW d \in Calls \ {c} PROVE AtPoint(d)'
  <2>1. AtPoint(d)
    OBVIOUS
  <2>2. pc'[d] = pc[d] /\ state'[d] = state[d] /\ known'[d] = known[d] /\ error'[d] = error[d] /\ published'[d] = published[d]
    BY DEF Call, goto, raise
  <2>3. QED
    BY <1>1, <2>1, <2>2, Elsewhere
<1>7. ASSUME pc'[c] = "encode" PROVE AtPoint(c)'
  <2>1. /\ error'[c] = error[c] /\ known'[c] = state'[c]
        /\ published'[c] = (operation[c] \notin ReadOnly)
        /\ state'[c] = IF operation[c] \in ReadOnly THEN "not_applicable" ELSE "published"
    BY <1>7 DEF Call, goto, raise
  <2>2. QED
    BY <1>1, <1>3, <1>7, <2>1 DEF AtPoint
<1>8. ASSUME pc'[c] = "report" PROVE AtPoint(c)'
  <2>1. state'[c] = state[c]
    BY <1>8 DEF Call, goto, raise
  <2>2. CASE \E t \in Told(operation[c]) :
               published'[c] = t.done /\ known'[c] = t.state /\ error'[c] = Recovery("IO_ERROR", t.state)
    <3>1. Verdict(c)' = known'[c]
      BY <1>1, <1>3, <2>2, <1>4, ErrorFacts DEF Verdict, Handled, Codes, Said
    <3>2. Honest(c, Verdict(c))'
      BY <1>1, <1>3, <1>4, <2>2, <3>1 DEF Honest
    <3>3. QED
      BY <1>1, <1>3, <1>8, <3>2 DEF AtPoint
  <2>3. CASE /\ known'[c] = known[c] /\ error'[c] \in {Other, Interrupt}
             /\ published'[c] => operation[c] \notin ReadOnly
    <3>1. error'[c].kind # "interrupt" => Verdict(c)' = state[c]
      BY <1>3, <2>1, <2>3, ErrorFacts DEF Verdict, Handled, Recovery, Other
    <3>2. error'[c].kind # "interrupt" => Honest(c, Verdict(c))'
      BY <1>1, <1>3, <2>3, <3>1 DEF Honest
    <3>3. QED
      BY <1>1, <1>3, <1>8, <3>2 DEF AtPoint
  <2>4. QED
    BY <1>8, <2>2, <2>3 DEF Call, goto, raise
<1>9. QED
  BY <1>2, <1>5, <1>6, <1>7, <1>8

LEMMA EncodeStep ==
  ASSUME IInv, NEW c \in Calls, Encode(c)
  PROVE  Typed' /\ AtPoint(c)' /\ \A d \in Calls \ {c} : AtPoint(d)'
<1> USE DEF IInv, Typed, Points
<1>1. asked' = asked /\ operation' = operation /\ state' = state /\ started' = started /\ known' = known /\ reply' = reply /\ published' = published
  BY DEF Encode
<1>2. /\ reply[c] = NoReply /\ error[c] = None /\ started[c] /\ operation[c] = asked[c]
      /\ known[c] = state[c] /\ published[c] = (asked[c] \notin ReadOnly)
      /\ state[c] = IF asked[c] \in ReadOnly THEN "not_applicable" ELSE "published"
  BY DEF Encode, AtPoint
<1>3. Typed'
  <2>1. pc' \in [Calls -> Points]
    BY DEF Encode, goto, raise
  <2>2. Recovery("IO_ERROR", state[c]) \in Errors /\ Recovery("RESOURCE_LIMIT", state[c]) \in Errors
    BY ErrorFacts DEF Codes, Said
  <2>3. error' \in [Calls -> Errors]
    BY <2>2, ErrorFacts DEF Encode, raise
  <2>4. QED
    BY <1>1, <2>1, <2>3
<1>4. ASSUME NEW d \in Calls \ {c} PROVE AtPoint(d)'
  <2>1. AtPoint(d)
    OBVIOUS
  <2>2. pc'[d] = pc[d] /\ error'[d] = error[d]
    BY DEF Encode, goto, raise
  <2>3. QED
    BY <1>1, <2>1, <2>2, Elsewhere
<1>5. /\ pc'[c] = "report"
      /\ error'[c] \in {None, Recovery("IO_ERROR", state[c]), Recovery("RESOURCE_LIMIT", state[c]),
                        Other, Interrupt}
  BY <1>2 DEF Encode, goto, raise
<1>6. error'[c].kind # "interrupt" => Verdict(c)' = state[c]
  BY <1>1, <1>2, <1>5, ErrorFacts
     DEF Verdict, Handled, Recovery, Other, None, Codes, Said
<1>7. AtPoint(c)'
  BY <1>1, <1>2, <1>5, <1>6 DEF AtPoint, Honest
<1>8. QED
  BY <1>3, <1>4, <1>7

LEMMA ReportStep ==
  ASSUME IInv, NEW c \in Calls, Report(c)
  PROVE  Typed' /\ AtPoint(c)' /\ \A d \in Calls \ {c} : AtPoint(d)'
<1> USE DEF IInv, Typed, Points
<1>1. asked' = asked /\ operation' = operation /\ state' = state /\ started' = started /\ known' = known /\ error' = error /\ published' = published
  BY DEF Report
<1>2. /\ reply[c] = NoReply
      /\ error[c].kind # "interrupt" => Honest(c, Verdict(c))
  BY DEF Report, AtPoint
<1>3. Handled(c).code \in Codes /\ Handled(c).state \in Said
  <2>1. error[c] \in Errors /\ state[c] \in Said
    BY DEF Said
  <2>2. Handled(c) = error[c] \/ Handled(c) = [error[c] EXCEPT !.state = "not_applicable"]
        \/ \E k \in Codes : Handled(c) = Recovery(k, state[c])
    BY <2>1 DEF Handled, Errors, Codes
  <2>3. CASE Handled(c) = error[c]
    BY <2>1, <2>3 DEF Errors
  <2>4. CASE Handled(c) = [error[c] EXCEPT !.state = "not_applicable"]
    BY <2>1, <2>4 DEF Errors, Said, PublicationStates
  <2>5. CASE \E k \in Codes : Handled(c) = Recovery(k, state[c])
    BY <2>1, <2>5 DEF Recovery
  <2>6. QED
    BY <2>2, <2>3, <2>4, <2>5
<1>4. pc' = [pc EXCEPT ![c] = "done"]
  BY DEF Report, goto
<1>5. \/ reply' = reply
      \/ /\ error[c].kind # "interrupt"
         /\ \E r \in Lines : reply' = [reply EXCEPT ![c] = r] /\ r.state = Verdict(c)
  <2> DEFINE r == IF error[c].kind = "none"
                  THEN [status |-> "OK", code |-> "none", state |-> state[c], whole |-> TRUE]
                  ELSE [status |-> "ERROR", code |-> Handled(c).code, state |-> Handled(c).state,
                        whole |-> TRUE]
  <2>1. r \in Lines /\ r.state = Verdict(c)
    BY <1>3 DEF Lines, Verdict, Codes, Said
  <2>2. [r EXCEPT !.whole = FALSE] \in Lines /\ [r EXCEPT !.whole = FALSE].state = Verdict(c)
    BY <2>1 DEF Lines
  <2>3. \/ reply' = reply
        \/ /\ error[c].kind # "interrupt"
           /\ reply' = [reply EXCEPT ![c] = r] \/ reply' = [reply EXCEPT ![c] = [r EXCEPT !.whole = FALSE]]
    BY DEF Report
  <2>4. QED
    BY <2>1, <2>2, <2>3
<1>6. Typed'
  BY <1>1, <1>4, <1>5
<1>7. ASSUME NEW d \in Calls \ {c} PROVE AtPoint(d)'
  <2>1. AtPoint(d)
    OBVIOUS
  <2>2. pc'[d] = pc[d] /\ reply'[d] = reply[d]
    BY <1>4, <1>5
  <2>3. QED
    BY <1>1, <2>1, <2>2, Elsewhere
<1>8. AtPoint(c)'
  BY <1>1, <1>2, <1>4, <1>5 DEF AtPoint, Honest
<1>9. QED
  BY <1>6, <1>7, <1>8

LEMMA IInvNext == IInv /\ [Next]_vars => IInv'
<1> SUFFICES ASSUME IInv, [Next]_vars PROVE IInv'
  OBVIOUS
<1>1. CASE UNCHANGED vars
  <2>1. Typed'
    BY <1>1 DEF vars, IInv, Typed
  <2>2. ASSUME NEW d \in Calls PROVE AtPoint(d)'
    BY <1>1, Elsewhere DEF vars, IInv
  <2>3. QED
    BY <2>1, <2>2 DEF IInv
<1>2. ASSUME NEW c \in Calls,
             Parse(c) \/ Configure(c) \/ Prepare(c) \/ Call(c) \/ Encode(c) \/ Report(c)
      PROVE  IInv'
  BY <1>2, ParseStep, ConfigureStep, PrepareStep, CallStep, EncodeStep, ReportStep DEF IInv
<1>3. QED
  BY <1>1, <1>2 DEF Next, Over

\* The line of snapshot_cli.main is honest: it neither denies nor invents a
\* publication, and repeats what the recovery API told.
THEOREM HonestLine == Spec => []LineHonest
<1>1. Init => IInv
  BY IInvInit
<1>2. IInv /\ [Next]_vars => IInv'
  BY IInvNext
<1>3. IInv => LineHonest
  BY IInvHonest
<1>4. QED
  BY <1>1, <1>2, <1>3, PTL DEF Spec
=============================================================================
