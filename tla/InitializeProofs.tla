-------------------------- MODULE InitializeProofs --------------------------
(***************************************************************************)
(* What creators and openers find at a path, for any number of them and of *)
(* failures.                                                               *)
(*                                                                         *)
(* That only a whole file is ever linked is known of the linking call by   *)
(* its point, and afterwards by the name alone; the invariant says both,   *)
(* and that no call returns to a name it left.                             *)
(***************************************************************************)
EXTENDS Initialize, TLAPS

\* The points before the link, those after the build, those after the sync.
Before == {"new", "look", "stage", "build", "sync", "look again", "link"}
Secured == {"look again", "link", "sync directory", "unstage", "same", "open", "same again"}
Built == {"sync"} \cup Secured
\* The points after the directory was synced, and after the staging was removed.
Lasting == {"unstage", "same", "open", "same again"}
Cleared == {"same", "open", "same again"}
\* The points at which a sidecar of an older database may already be there.
Unlooked == {"new", "look", "stage", "build", "sync", "look again", "failed", "done"}

FileOK(c) ==
  /\ pc[c] \in Built => body[c] = "whole"
  /\ pc[c] \in Secured => c \in synced
  /\ c \in {name, diskname} \/ (\E d \in Calls : opened[d] = c)
       => body[c] = "whole" /\ c \in synced /\ pc[c] \notin Before

NameOK(c) ==
  /\ pc[c] = "sync directory" => meddled \/ name = c
  /\ pc[c] \in Lasting \/ reply[c] = "OK" => meddled \/ (name = c /\ diskname = c)
  /\ pc[c] \in Cleared => c \notin staging
  /\ reply[c] = "OK" /\ c \in staging => c \in outlived

HandleOK(c) ==
  /\ pc[c] = "same again" /\ name = c => opened[c] = c
  /\ reply[c] = "OK" => opened[c] = c

SidecarOK(c) == side # Gone /\ c \in early => pc[c] \in Unlooked

AnswerOK(c) ==
  /\ pc[c] # "done" => reply[c] = "pending"
  /\ pc[c] = "failed" => code[c] # "none"

IInv ==
  /\ TypeOK
  /\ \A c \in Calls : AnswerOK(c)
  /\ \A c \in Creators : FileOK(c) /\ NameOK(c) /\ HandleOK(c) /\ SidecarOK(c)
  /\ recovered = {}
-----------------------------------------------------------------------------
\* It holds at the start.
LEMMA InitIInv == Init => IInv
<1> SUFFICES ASSUME Init PROVE IInv
  OBVIOUS
<1>1. TypeOK
  <2>1. /\ name \in {Gone, Foreign} /\ diskname \in {Gone, Foreign} /\ side \in {Gone, Foreign}
        /\ body \in [Creators -> Bodies] /\ synced \subseteq Creators /\ staging \subseteq Creators
        /\ lingering \subseteq Creators
    BY DEF Init, Bodies
  <2>2. /\ pc \in [Calls -> Points] /\ opened \in [Calls -> {Gone, Foreign} \cup Creators]
        /\ code \in [Calls -> Codes \cup {"none"}]
        /\ reply \in [Calls -> Codes \cup {"pending", "OK", "lost"}]
    BY DEF Init, Points, Codes
  <2>3. early \subseteq Creators /\ recovered \subseteq Creators /\ meddled \in BOOLEAN
        /\ outlived \subseteq Creators
    BY DEF Init
  <2>4. faults \in 0 .. MaxFaults
    BY FaultsAssumption DEF Init
  <2>. QED
    BY <2>1, <2>2, <2>3, <2>4 DEF TypeOK
<1>2. \A c \in Calls : AnswerOK(c)
  BY DEF Init, AnswerOK, Calls
<1>3. \A c \in Creators : FileOK(c) /\ NameOK(c) /\ HandleOK(c) /\ SidecarOK(c)
  BY NamesAssumption DEF Init, FileOK, NameOK, HandleOK, SidecarOK, Calls, Built, Secured, Lasting,
     Cleared, Unlooked
<1>. QED
  BY <1>1, <1>2, <1>3 DEF Init, IInv

\* Faults are counted up to their bound.
LEMMA Counted ==
  ASSUME TypeOK, Fault \/ UNCHANGED faults PROVE faults' \in 0 .. MaxFaults
  BY FaultsAssumption DEF TypeOK, Fault

\* A file that is not refused is one a call has finished, or a foreign one.
LEMMA Refused ==
  ASSUME TypeOK
  PROVE  /\ \A e \in Refusals \ {"none"} : e \in Codes
         /\ "none" \in Refusals => name = Foreign \/ (name \in Creators /\ body[name] = "whole")
<1>1. CASE name = Gone
  <2>1. Refusals = {"NOT_FOUND"}
    BY <1>1, NamesAssumption DEF Refusals
  <2>. QED
    BY <2>1 DEF Codes
<1>2. CASE name = Foreign
  <2>1. Refusals = {"INTEGRITY_FAILURE", "UNSUPPORTED_VERSION", "UNSUPPORTED_PROFILE", "none"}
    BY <1>2, NamesAssumption DEF Refusals
  <2>. QED
    BY <1>2, <2>1 DEF Codes
<1>3. CASE name \in Creators
  <2>1. Refusals = IF body[name] = "whole" THEN {"none"}
                   ELSE {"INTEGRITY_FAILURE", "UNSUPPORTED_VERSION"}
    BY <1>3, NamesAssumption DEF Refusals
  <2>. QED
    BY <1>3, <2>1 DEF Codes
<1>. QED
  BY <1>1, <1>2, <1>3 DEF TypeOK

\* The two ways out of a step that may refuse.
Refuses(c, e) == code' = [code EXCEPT ![c] = e] /\ goto(c, "failed")
GoesOn(c, next) == code' = code /\ goto(c, next)

\* Every step keeps it.
LEMMA NextIInv == IInv /\ [Next]_vars => IInv'
<1> SUFFICES ASSUME IInv, [Next]_vars PROVE IInv'
  OBVIOUS
<1>1. ASSUME NEW c \in Calls, Ask(c) PROVE IInv'
  <2>1. TypeOK'
    BY <1>1, Counted, NamesAssumption DEF IInv, Calls, goto, path, made, hist, Ask, TypeOK,
       AnswerOK, Codes, Points, Bodies
  <2>2. \A d \in Calls : AnswerOK(d)'
    BY <1>1, NamesAssumption DEF IInv, Calls, goto, path, made, hist, Ask, TypeOK, Codes, AnswerOK,
       FileOK
  <2>3. \A d \in Creators : FileOK(d)'
    BY <1>1, NamesAssumption DEF IInv, Calls, goto, path, made, hist, Ask, TypeOK, FileOK, Before,
       Built, Secured, Bodies
  <2>4. \A d \in Creators : NameOK(d)'
    BY <1>1, NamesAssumption DEF IInv, Calls, goto, path, made, hist, Ask, TypeOK, Codes, NameOK,
       FileOK, AnswerOK, Lasting, Cleared, Before, Secured
  <2>5. \A d \in Creators : HandleOK(d)'
    BY <1>1, NamesAssumption DEF IInv, Calls, goto, path, made, hist, Ask, TypeOK, Codes, HandleOK,
       NameOK, FileOK, AnswerOK, Before, Lasting
  <2>6. \A d \in Creators : SidecarOK(d)'
    BY <1>1, NamesAssumption DEF IInv, Calls, goto, path, made, hist, Ask, TypeOK, SidecarOK,
       Unlooked
  <2>7. recovered' = {}
    BY <1>1, NamesAssumption DEF IInv, Calls, goto, path, made, hist, Ask, TypeOK, SidecarOK,
       Unlooked
  <2>. QED
    BY <2>1, <2>2, <2>3, <2>4, <2>5, <2>6, <2>7 DEF IInv
<1>2. ASSUME NEW c \in Calls, Open(c) PROVE IInv'
  <2>a. c \in Calls /\ TypeOK /\ pc[c] = "open"
    BY <1>2 DEF IInv, Open
  <2>b. \/ \E e \in Codes : Refuses(c, e) /\ opened' = opened
        \/ "none" \in Refusals /\ GoesOn(c, "same again") /\ opened' = [opened EXCEPT ![c] = name]
    BY <1>2, Refused DEF Open, raise, Refuses, GoesOn, IInv
  <2>c. \/ name # Gone /\ side # Gone /\ side' = Gone /\ early' = {}
           /\ recovered' = IF c \in early THEN recovered \cup {c} ELSE recovered
        \/ side' = side /\ early' = early /\ recovered' = recovered
    BY <1>2 DEF Open
  <2>d. UNCHANGED <<name, diskname, body, synced, staging, lingering, reply, meddled, outlived,
                  faults>>
    BY <1>2 DEF Open, made
  <2>1. TypeOK'
    <3>1. ASSUME NEW e \in Codes, Refuses(c, e), opened' = opened
          PROVE  TypeOK'
      BY <2>a, <2>c, <2>d, Refused, Counted, <3>1, NamesAssumption DEF IInv, Calls, hist, goto,
         Refuses, TypeOK, AnswerOK, Codes, Points, Bodies
    <3>2. CASE /\ "none" \in Refusals /\ GoesOn(c, "same again")
               /\ opened' = [opened EXCEPT ![c] = name]
      BY <2>a, <2>c, <2>d, Refused, Counted, <3>2, NamesAssumption DEF IInv, Calls, hist, goto,
         GoesOn, TypeOK, AnswerOK, Codes, Points, Bodies
    <3>. QED
      BY <2>b, <3>1, <3>2
  <2>2. \A d \in Calls : AnswerOK(d)'
    <3> TAKE d \in Calls
    <3>1. ASSUME NEW e \in Codes, Refuses(c, e), opened' = opened
          PROVE  AnswerOK(d)'
      BY <2>a, <2>c, <2>d, Refused, <3>1, NamesAssumption DEF IInv, Calls, hist, goto, Refuses,
         TypeOK, Codes, AnswerOK, FileOK
    <3>2. CASE /\ "none" \in Refusals /\ GoesOn(c, "same again")
               /\ opened' = [opened EXCEPT ![c] = name]
      BY <2>a, <2>c, <2>d, Refused, <3>2, NamesAssumption DEF IInv, Calls, hist, goto, GoesOn,
         TypeOK, Codes, AnswerOK, FileOK
    <3>. QED
      BY <2>b, <3>1, <3>2
  <2>3. \A d \in Creators : FileOK(d)'
    <3> TAKE d \in Creators
    <3>1. ASSUME NEW e \in Codes, Refuses(c, e), opened' = opened
          PROVE  FileOK(d)'
      BY <2>a, <2>c, <2>d, Refused, <3>1, NamesAssumption DEF IInv, Calls, hist, goto, Refuses,
         TypeOK, FileOK, Before, Built, Secured, Bodies
    <3>2. CASE /\ "none" \in Refusals /\ GoesOn(c, "same again")
               /\ opened' = [opened EXCEPT ![c] = name]
      BY <2>a, <2>c, <2>d, Refused, <3>2, NamesAssumption DEF IInv, Calls, hist, goto, GoesOn,
         TypeOK, FileOK, Before, Built, Secured, Bodies
    <3>. QED
      BY <2>b, <3>1, <3>2
  <2>4. \A d \in Creators : NameOK(d)'
    <3> TAKE d \in Creators
    <3>1. ASSUME NEW e \in Codes, Refuses(c, e), opened' = opened
          PROVE  NameOK(d)'
      BY <2>a, <2>c, <2>d, Refused, <3>1, NamesAssumption DEF IInv, Calls, hist, goto, Refuses,
         TypeOK, Codes, NameOK, FileOK, AnswerOK, Lasting, Cleared, Before, Secured
    <3>2. CASE /\ "none" \in Refusals /\ GoesOn(c, "same again")
               /\ opened' = [opened EXCEPT ![c] = name]
      BY <2>a, <2>c, <2>d, Refused, <3>2, NamesAssumption DEF IInv, Calls, hist, goto, GoesOn,
         TypeOK, Codes, NameOK, FileOK, AnswerOK, Lasting, Cleared, Before, Secured
    <3>. QED
      BY <2>b, <3>1, <3>2
  <2>5. \A d \in Creators : HandleOK(d)'
    <3> TAKE d \in Creators
    <3>1. ASSUME NEW e \in Codes, Refuses(c, e), opened' = opened
          PROVE  HandleOK(d)'
      BY <2>a, <2>c, <2>d, Refused, <3>1, NamesAssumption DEF IInv, Calls, hist, goto, Refuses,
         TypeOK, Codes, HandleOK, NameOK, FileOK, AnswerOK, Before, Lasting
    <3>2. CASE /\ "none" \in Refusals /\ GoesOn(c, "same again")
               /\ opened' = [opened EXCEPT ![c] = name]
      BY <2>a, <2>c, <2>d, Refused, <3>2, NamesAssumption DEF IInv, Calls, hist, goto, GoesOn,
         TypeOK, Codes, HandleOK, NameOK, FileOK, AnswerOK, Before, Lasting
    <3>. QED
      BY <2>b, <3>1, <3>2
  <2>6. \A d \in Creators : SidecarOK(d)'
    <3> TAKE d \in Creators
    <3>1. ASSUME NEW e \in Codes, Refuses(c, e), opened' = opened
          PROVE  SidecarOK(d)'
      BY <2>a, <2>c, <2>d, Refused, <3>1, NamesAssumption DEF IInv, Calls, hist, goto, Refuses,
         TypeOK, SidecarOK, Unlooked
    <3>2. CASE /\ "none" \in Refusals /\ GoesOn(c, "same again")
               /\ opened' = [opened EXCEPT ![c] = name]
      BY <2>a, <2>c, <2>d, Refused, <3>2, NamesAssumption DEF IInv, Calls, hist, goto, GoesOn,
         TypeOK, SidecarOK, Unlooked
    <3>. QED
      BY <2>b, <3>1, <3>2
  <2>7. recovered' = {}
    <3>1. ASSUME NEW e \in Codes, Refuses(c, e), opened' = opened
          PROVE  recovered' = {}
      BY <2>a, <2>c, <2>d, Refused, <3>1, NamesAssumption DEF IInv, Calls, hist, goto, Refuses,
         TypeOK, SidecarOK, Unlooked
    <3>2. CASE /\ "none" \in Refusals /\ GoesOn(c, "same again")
               /\ opened' = [opened EXCEPT ![c] = name]
      BY <2>a, <2>c, <2>d, Refused, <3>2, NamesAssumption DEF IInv, Calls, hist, goto, GoesOn,
         TypeOK, SidecarOK, Unlooked
    <3>. QED
      BY <2>b, <3>1, <3>2
  <2>. QED
    BY <2>1, <2>2, <2>3, <2>4, <2>5, <2>6, <2>7 DEF IInv
<1>3. ASSUME NEW c \in Calls, Return(c) PROVE IInv'
  <2>a. c \in Calls /\ TypeOK /\ pc[c] = "same again"
    BY <1>3 DEF IInv, Return
  <2>b. \/ Refuses(c, "IO_ERROR") /\ opened' = [opened EXCEPT ![c] = Gone] /\ reply' = reply
        \/ (c \in Creators => name = c) /\ GoesOn(c, "done") /\ opened' = opened
           /\ reply' = [reply EXCEPT ![c] = "OK"]
    BY <1>3 DEF Return, Same, raise, Refuses, GoesOn
  <2>c. UNCHANGED <<name, side, diskname, body, synced, staging, lingering, hist, faults>>
    BY <1>3 DEF Return, path, made
  <2>1. TypeOK'
    <3>1. CASE Refuses(c, "IO_ERROR") /\ opened' = [opened EXCEPT ![c] = Gone] /\ reply' = reply
      BY <2>a, <2>c, Counted, <3>1, NamesAssumption DEF IInv, Calls, hist, goto, Refuses, TypeOK,
         AnswerOK, Codes, Points, Bodies
    <3>2. CASE /\ (c \in Creators => name = c) /\ GoesOn(c, "done") /\ opened' = opened
             /\ reply' = [reply EXCEPT ![c] = "OK"]
      BY <2>a, <2>c, Counted, <3>2, NamesAssumption DEF IInv, Calls, hist, goto, GoesOn, TypeOK,
         AnswerOK, Codes, Points, Bodies
    <3>. QED
      BY <2>b, <3>1, <3>2
  <2>2. \A d \in Calls : AnswerOK(d)'
    <3> TAKE d \in Calls
    <3>1. CASE Refuses(c, "IO_ERROR") /\ opened' = [opened EXCEPT ![c] = Gone] /\ reply' = reply
      BY <2>a, <2>c, <3>1, NamesAssumption DEF IInv, Calls, hist, goto, Refuses, TypeOK, Codes,
         AnswerOK, FileOK
    <3>2. CASE /\ (c \in Creators => name = c) /\ GoesOn(c, "done") /\ opened' = opened
             /\ reply' = [reply EXCEPT ![c] = "OK"]
      BY <2>a, <2>c, <3>2, NamesAssumption DEF IInv, Calls, hist, goto, GoesOn, TypeOK, Codes,
         AnswerOK, FileOK
    <3>. QED
      BY <2>b, <3>1, <3>2
  <2>3. \A d \in Creators : FileOK(d)'
    <3> TAKE d \in Creators
    <3>1. CASE Refuses(c, "IO_ERROR") /\ opened' = [opened EXCEPT ![c] = Gone] /\ reply' = reply
      BY <2>a, <2>c, <3>1, NamesAssumption DEF IInv, Calls, hist, goto, Refuses, TypeOK, FileOK,
         Before, Built, Secured, Bodies
    <3>2. CASE /\ (c \in Creators => name = c) /\ GoesOn(c, "done") /\ opened' = opened
             /\ reply' = [reply EXCEPT ![c] = "OK"]
      BY <2>a, <2>c, <3>2, NamesAssumption DEF IInv, Calls, hist, goto, GoesOn, TypeOK, FileOK,
         Before, Built, Secured, Bodies
    <3>. QED
      BY <2>b, <3>1, <3>2
  <2>4. \A d \in Creators : NameOK(d)'
    <3> TAKE d \in Creators
    <3>1. CASE Refuses(c, "IO_ERROR") /\ opened' = [opened EXCEPT ![c] = Gone] /\ reply' = reply
      BY <2>a, <2>c, <3>1, NamesAssumption DEF IInv, Calls, hist, goto, Refuses, TypeOK, Codes,
         NameOK, FileOK, AnswerOK, Lasting, Cleared, Before, Secured
    <3>2. CASE /\ (c \in Creators => name = c) /\ GoesOn(c, "done") /\ opened' = opened
             /\ reply' = [reply EXCEPT ![c] = "OK"]
      BY <2>a, <2>c, <3>2, NamesAssumption DEF IInv, Calls, hist, goto, GoesOn, TypeOK, Codes,
         NameOK, FileOK, AnswerOK, Lasting, Cleared, Before, Secured
    <3>. QED
      BY <2>b, <3>1, <3>2
  <2>5. \A d \in Creators : HandleOK(d)'
    <3> TAKE d \in Creators
    <3>1. CASE Refuses(c, "IO_ERROR") /\ opened' = [opened EXCEPT ![c] = Gone] /\ reply' = reply
      BY <2>a, <2>c, <3>1, NamesAssumption DEF IInv, Calls, hist, goto, Refuses, TypeOK, Codes,
         HandleOK, NameOK, FileOK, AnswerOK, Before, Lasting
    <3>2. CASE /\ (c \in Creators => name = c) /\ GoesOn(c, "done") /\ opened' = opened
             /\ reply' = [reply EXCEPT ![c] = "OK"]
      BY <2>a, <2>c, <3>2, NamesAssumption DEF IInv, Calls, hist, goto, GoesOn, TypeOK, Codes,
         HandleOK, NameOK, FileOK, AnswerOK, Before, Lasting
    <3>. QED
      BY <2>b, <3>1, <3>2
  <2>6. \A d \in Creators : SidecarOK(d)'
    <3> TAKE d \in Creators
    <3>1. CASE Refuses(c, "IO_ERROR") /\ opened' = [opened EXCEPT ![c] = Gone] /\ reply' = reply
      BY <2>a, <2>c, <3>1, NamesAssumption DEF IInv, Calls, hist, goto, Refuses, TypeOK, SidecarOK,
         Unlooked
    <3>2. CASE /\ (c \in Creators => name = c) /\ GoesOn(c, "done") /\ opened' = opened
             /\ reply' = [reply EXCEPT ![c] = "OK"]
      BY <2>a, <2>c, <3>2, NamesAssumption DEF IInv, Calls, hist, goto, GoesOn, TypeOK, SidecarOK,
         Unlooked
    <3>. QED
      BY <2>b, <3>1, <3>2
  <2>7. recovered' = {}
    <3>1. CASE Refuses(c, "IO_ERROR") /\ opened' = [opened EXCEPT ![c] = Gone] /\ reply' = reply
      BY <2>a, <2>c, <3>1, NamesAssumption DEF IInv, Calls, hist, goto, Refuses, TypeOK, SidecarOK,
         Unlooked
    <3>2. CASE /\ (c \in Creators => name = c) /\ GoesOn(c, "done") /\ opened' = opened
             /\ reply' = [reply EXCEPT ![c] = "OK"]
      BY <2>a, <2>c, <3>2, NamesAssumption DEF IInv, Calls, hist, goto, GoesOn, TypeOK, SidecarOK,
         Unlooked
    <3>. QED
      BY <2>b, <3>1, <3>2
  <2>. QED
    BY <2>1, <2>2, <2>3, <2>4, <2>5, <2>6, <2>7 DEF IInv
<1>4. ASSUME NEW c \in Calls, Failed(c) PROVE IInv'
  <2>1. TypeOK'
    BY <1>4, Counted, NamesAssumption DEF IInv, Calls, goto, path, hist, Failed, TypeOK, AnswerOK,
       Codes, Points, Bodies
  <2>2. \A d \in Calls : AnswerOK(d)'
    BY <1>4, NamesAssumption DEF IInv, Calls, goto, path, hist, Failed, TypeOK, Codes, AnswerOK,
       FileOK
  <2>3. \A d \in Creators : FileOK(d)'
    BY <1>4, NamesAssumption DEF IInv, Calls, goto, path, hist, Failed, TypeOK, FileOK, Before,
       Built, Secured, Bodies
  <2>4. \A d \in Creators : NameOK(d)'
    BY <1>4, NamesAssumption DEF IInv, Calls, goto, path, hist, Failed, TypeOK, Codes, NameOK,
       FileOK, AnswerOK, Lasting, Cleared, Before, Secured
  <2>5. \A d \in Creators : HandleOK(d)'
    BY <1>4, NamesAssumption DEF IInv, Calls, goto, path, hist, Failed, TypeOK, Codes, HandleOK,
       NameOK, FileOK, AnswerOK, Before, Lasting
  <2>6. \A d \in Creators : SidecarOK(d)'
    BY <1>4, NamesAssumption DEF IInv, Calls, goto, path, hist, Failed, TypeOK, SidecarOK, Unlooked
  <2>7. recovered' = {}
    BY <1>4, NamesAssumption DEF IInv, Calls, goto, path, hist, Failed, TypeOK, SidecarOK, Unlooked
  <2>. QED
    BY <2>1, <2>2, <2>3, <2>4, <2>5, <2>6, <2>7 DEF IInv
<1>5. ASSUME NEW c \in Calls, Fail(c) PROVE IInv'
  <2>1. TypeOK'
    BY <1>5, Counted, NamesAssumption DEF IInv, Calls, goto, raise, Running, path, made, hist, Fail,
       TypeOK, AnswerOK, Codes, Points, Bodies
  <2>2. \A d \in Calls : AnswerOK(d)'
    BY <1>5, NamesAssumption DEF IInv, Calls, goto, raise, Running, path, made, hist, Fail, TypeOK,
       Codes, AnswerOK, FileOK
  <2>3. \A d \in Creators : FileOK(d)'
    BY <1>5, NamesAssumption DEF IInv, Calls, goto, raise, Running, path, made, hist, Fail, TypeOK,
       FileOK, Before, Built, Secured, Bodies
  <2>4. \A d \in Creators : NameOK(d)'
    BY <1>5, NamesAssumption DEF IInv, Calls, goto, raise, Running, path, made, hist, Fail, TypeOK,
       Codes, NameOK, FileOK, AnswerOK, Lasting, Cleared, Before, Secured
  <2>5. \A d \in Creators : HandleOK(d)'
    BY <1>5, NamesAssumption DEF IInv, Calls, goto, raise, Running, path, made, hist, Fail, TypeOK,
       Codes, HandleOK, NameOK, FileOK, AnswerOK, Before, Lasting
  <2>6. \A d \in Creators : SidecarOK(d)'
    BY <1>5, NamesAssumption DEF IInv, Calls, goto, raise, Running, path, made, hist, Fail, TypeOK,
       SidecarOK, Unlooked
  <2>7. recovered' = {}
    BY <1>5, NamesAssumption DEF IInv, Calls, goto, raise, Running, path, made, hist, Fail, TypeOK,
       SidecarOK, Unlooked
  <2>. QED
    BY <2>1, <2>2, <2>3, <2>4, <2>5, <2>6, <2>7 DEF IInv
<1>6. ASSUME NEW c \in Calls, Crash(c) PROVE IInv'
  <2>1. TypeOK'
    BY <1>6, Counted, NamesAssumption DEF IInv, Calls, goto, Running, path, made, hist, Crash,
       TypeOK, AnswerOK, Codes, Points, Bodies
  <2>2. \A d \in Calls : AnswerOK(d)'
    BY <1>6, NamesAssumption DEF IInv, Calls, goto, Running, path, made, hist, Crash, TypeOK, Codes,
       AnswerOK, FileOK
  <2>3. \A d \in Creators : FileOK(d)'
    BY <1>6, NamesAssumption DEF IInv, Calls, goto, Running, path, made, hist, Crash, TypeOK,
       FileOK, Before, Built, Secured, Bodies
  <2>4. \A d \in Creators : NameOK(d)'
    BY <1>6, NamesAssumption DEF IInv, Calls, goto, Running, path, made, hist, Crash, TypeOK, Codes,
       NameOK, FileOK, AnswerOK, Lasting, Cleared, Before, Secured
  <2>5. \A d \in Creators : HandleOK(d)'
    BY <1>6, NamesAssumption DEF IInv, Calls, goto, Running, path, made, hist, Crash, TypeOK, Codes,
       HandleOK, NameOK, FileOK, AnswerOK, Before, Lasting
  <2>6. \A d \in Creators : SidecarOK(d)'
    BY <1>6, NamesAssumption DEF IInv, Calls, goto, Running, path, made, hist, Crash, TypeOK,
       SidecarOK, Unlooked
  <2>7. recovered' = {}
    BY <1>6, NamesAssumption DEF IInv, Calls, goto, Running, path, made, hist, Crash, TypeOK,
       SidecarOK, Unlooked
  <2>. QED
    BY <2>1, <2>2, <2>3, <2>4, <2>5, <2>6, <2>7 DEF IInv
<1>7. ASSUME NEW c \in Creators, Look(c, "look", "stage") PROVE IInv'
  <2>a. c \in Calls /\ TypeOK /\ pc[c] = "look"
    BY <1>7 DEF IInv, Calls, Look
  <2>b. \/ Refuses(c, "IDENTITY_CONFLICT")
        \/ side = Gone /\ name = Gone /\ GoesOn(c, "stage")
    BY <1>7 DEF Look, Occupied, raise, Refuses, GoesOn
  <2>c. UNCHANGED <<name, side, diskname, body, synced, staging, lingering, opened, reply, hist,
                  faults>>
    BY <1>7 DEF Look, path, made
  <2>1. TypeOK'
    <3>1. CASE Refuses(c, "IDENTITY_CONFLICT")
      BY <2>a, <2>c, Counted, <3>1, NamesAssumption DEF IInv, Calls, hist, goto, Refuses, TypeOK,
         AnswerOK, Codes, Points, Bodies
    <3>2. CASE side = Gone /\ name = Gone /\ GoesOn(c, "stage")
      BY <2>a, <2>c, Counted, <3>2, NamesAssumption DEF IInv, Calls, hist, goto, GoesOn, TypeOK,
         AnswerOK, Codes, Points, Bodies
    <3>. QED
      BY <2>b, <3>1, <3>2
  <2>2. \A d \in Calls : AnswerOK(d)'
    <3> TAKE d \in Calls
    <3>1. CASE Refuses(c, "IDENTITY_CONFLICT")
      BY <2>a, <2>c, <3>1, NamesAssumption DEF IInv, Calls, hist, goto, Refuses, TypeOK, Codes,
         AnswerOK, FileOK
    <3>2. CASE side = Gone /\ name = Gone /\ GoesOn(c, "stage")
      BY <2>a, <2>c, <3>2, NamesAssumption DEF IInv, Calls, hist, goto, GoesOn, TypeOK, Codes,
         AnswerOK, FileOK
    <3>. QED
      BY <2>b, <3>1, <3>2
  <2>3. \A d \in Creators : FileOK(d)'
    <3> TAKE d \in Creators
    <3>1. CASE Refuses(c, "IDENTITY_CONFLICT")
      BY <2>a, <2>c, <3>1, NamesAssumption DEF IInv, Calls, hist, goto, Refuses, TypeOK, FileOK,
         Before, Built, Secured, Bodies
    <3>2. CASE side = Gone /\ name = Gone /\ GoesOn(c, "stage")
      BY <2>a, <2>c, <3>2, NamesAssumption DEF IInv, Calls, hist, goto, GoesOn, TypeOK, FileOK,
         Before, Built, Secured, Bodies
    <3>. QED
      BY <2>b, <3>1, <3>2
  <2>4. \A d \in Creators : NameOK(d)'
    <3> TAKE d \in Creators
    <3>1. CASE Refuses(c, "IDENTITY_CONFLICT")
      BY <2>a, <2>c, <3>1, NamesAssumption DEF IInv, Calls, hist, goto, Refuses, TypeOK, Codes,
         NameOK, FileOK, AnswerOK, Lasting, Cleared, Before, Secured
    <3>2. CASE side = Gone /\ name = Gone /\ GoesOn(c, "stage")
      BY <2>a, <2>c, <3>2, NamesAssumption DEF IInv, Calls, hist, goto, GoesOn, TypeOK, Codes,
         NameOK, FileOK, AnswerOK, Lasting, Cleared, Before, Secured
    <3>. QED
      BY <2>b, <3>1, <3>2
  <2>5. \A d \in Creators : HandleOK(d)'
    <3> TAKE d \in Creators
    <3>1. CASE Refuses(c, "IDENTITY_CONFLICT")
      BY <2>a, <2>c, <3>1, NamesAssumption DEF IInv, Calls, hist, goto, Refuses, TypeOK, Codes,
         HandleOK, NameOK, FileOK, AnswerOK, Before, Lasting
    <3>2. CASE side = Gone /\ name = Gone /\ GoesOn(c, "stage")
      BY <2>a, <2>c, <3>2, NamesAssumption DEF IInv, Calls, hist, goto, GoesOn, TypeOK, Codes,
         HandleOK, NameOK, FileOK, AnswerOK, Before, Lasting
    <3>. QED
      BY <2>b, <3>1, <3>2
  <2>6. \A d \in Creators : SidecarOK(d)'
    <3> TAKE d \in Creators
    <3>1. CASE Refuses(c, "IDENTITY_CONFLICT")
      BY <2>a, <2>c, <3>1, NamesAssumption DEF IInv, Calls, hist, goto, Refuses, TypeOK, SidecarOK,
         Unlooked
    <3>2. CASE side = Gone /\ name = Gone /\ GoesOn(c, "stage")
      BY <2>a, <2>c, <3>2, NamesAssumption DEF IInv, Calls, hist, goto, GoesOn, TypeOK, SidecarOK,
         Unlooked
    <3>. QED
      BY <2>b, <3>1, <3>2
  <2>7. recovered' = {}
    <3>1. CASE Refuses(c, "IDENTITY_CONFLICT")
      BY <2>a, <2>c, <3>1, NamesAssumption DEF IInv, Calls, hist, goto, Refuses, TypeOK, SidecarOK,
         Unlooked
    <3>2. CASE side = Gone /\ name = Gone /\ GoesOn(c, "stage")
      BY <2>a, <2>c, <3>2, NamesAssumption DEF IInv, Calls, hist, goto, GoesOn, TypeOK, SidecarOK,
         Unlooked
    <3>. QED
      BY <2>b, <3>1, <3>2
  <2>. QED
    BY <2>1, <2>2, <2>3, <2>4, <2>5, <2>6, <2>7 DEF IInv
<1>8. ASSUME NEW c \in Creators, Stage(c) PROVE IInv'
  <2>1. TypeOK'
    BY <1>8, Counted, NamesAssumption DEF IInv, Calls, goto, path, hist, Stage, TypeOK, AnswerOK,
       Codes, Points, Bodies
  <2>2. \A d \in Calls : AnswerOK(d)'
    BY <1>8, NamesAssumption DEF IInv, Calls, goto, path, hist, Stage, TypeOK, Codes, AnswerOK,
       FileOK
  <2>3. \A d \in Creators : FileOK(d)'
    BY <1>8, NamesAssumption DEF IInv, Calls, goto, path, hist, Stage, TypeOK, FileOK, Before,
       Built, Secured, Bodies
  <2>4. \A d \in Creators : NameOK(d)'
    BY <1>8, NamesAssumption DEF IInv, Calls, goto, path, hist, Stage, TypeOK, Codes, NameOK,
       FileOK, AnswerOK, Lasting, Cleared, Before, Secured
  <2>5. \A d \in Creators : HandleOK(d)'
    BY <1>8, NamesAssumption DEF IInv, Calls, goto, path, hist, Stage, TypeOK, Codes, HandleOK,
       NameOK, FileOK, AnswerOK, Before, Lasting
  <2>6. \A d \in Creators : SidecarOK(d)'
    BY <1>8, NamesAssumption DEF IInv, Calls, goto, path, hist, Stage, TypeOK, SidecarOK, Unlooked
  <2>7. recovered' = {}
    BY <1>8, NamesAssumption DEF IInv, Calls, goto, path, hist, Stage, TypeOK, SidecarOK, Unlooked
  <2>. QED
    BY <2>1, <2>2, <2>3, <2>4, <2>5, <2>6, <2>7 DEF IInv
<1>9. ASSUME NEW c \in Creators, Build(c) PROVE IInv'
  <2>1. TypeOK'
    BY <1>9, Counted, NamesAssumption DEF IInv, Calls, goto, path, hist, Build, TypeOK, AnswerOK,
       Codes, Points, Bodies
  <2>2. \A d \in Calls : AnswerOK(d)'
    BY <1>9, NamesAssumption DEF IInv, Calls, goto, path, hist, Build, TypeOK, Codes, AnswerOK,
       FileOK
  <2>3. \A d \in Creators : FileOK(d)'
    BY <1>9, NamesAssumption DEF IInv, Calls, goto, path, hist, Build, TypeOK, FileOK, Before,
       Built, Secured, Bodies
  <2>4. \A d \in Creators : NameOK(d)'
    BY <1>9, NamesAssumption DEF IInv, Calls, goto, path, hist, Build, TypeOK, Codes, NameOK,
       FileOK, AnswerOK, Lasting, Cleared, Before, Secured
  <2>5. \A d \in Creators : HandleOK(d)'
    BY <1>9, NamesAssumption DEF IInv, Calls, goto, path, hist, Build, TypeOK, Codes, HandleOK,
       NameOK, FileOK, AnswerOK, Before, Lasting
  <2>6. \A d \in Creators : SidecarOK(d)'
    BY <1>9, NamesAssumption DEF IInv, Calls, goto, path, hist, Build, TypeOK, SidecarOK, Unlooked
  <2>7. recovered' = {}
    BY <1>9, NamesAssumption DEF IInv, Calls, goto, path, hist, Build, TypeOK, SidecarOK, Unlooked
  <2>. QED
    BY <2>1, <2>2, <2>3, <2>4, <2>5, <2>6, <2>7 DEF IInv
<1>10. ASSUME NEW c \in Creators, SyncFile(c) PROVE IInv'
  <2>1. TypeOK'
    BY <1>10, Counted, NamesAssumption DEF IInv, Calls, goto, path, hist, SyncFile, TypeOK,
       AnswerOK, Codes, Points, Bodies
  <2>2. \A d \in Calls : AnswerOK(d)'
    BY <1>10, NamesAssumption DEF IInv, Calls, goto, path, hist, SyncFile, TypeOK, Codes, AnswerOK,
       FileOK
  <2>3. \A d \in Creators : FileOK(d)'
    BY <1>10, NamesAssumption DEF IInv, Calls, goto, path, hist, SyncFile, TypeOK, FileOK, Before,
       Built, Secured, Bodies
  <2>4. \A d \in Creators : NameOK(d)'
    BY <1>10, NamesAssumption DEF IInv, Calls, goto, path, hist, SyncFile, TypeOK, Codes, NameOK,
       FileOK, AnswerOK, Lasting, Cleared, Before, Secured
  <2>5. \A d \in Creators : HandleOK(d)'
    BY <1>10, NamesAssumption DEF IInv, Calls, goto, path, hist, SyncFile, TypeOK, Codes, HandleOK,
       NameOK, FileOK, AnswerOK, Before, Lasting
  <2>6. \A d \in Creators : SidecarOK(d)'
    BY <1>10, NamesAssumption DEF IInv, Calls, goto, path, hist, SyncFile, TypeOK, SidecarOK,
       Unlooked
  <2>7. recovered' = {}
    BY <1>10, NamesAssumption DEF IInv, Calls, goto, path, hist, SyncFile, TypeOK, SidecarOK,
       Unlooked
  <2>. QED
    BY <2>1, <2>2, <2>3, <2>4, <2>5, <2>6, <2>7 DEF IInv
<1>11. ASSUME NEW c \in Creators, Look(c, "look again", "link") PROVE IInv'
  <2>a. c \in Calls /\ TypeOK /\ pc[c] = "look again"
    BY <1>11 DEF IInv, Calls, Look
  <2>b. \/ Refuses(c, "IDENTITY_CONFLICT")
        \/ side = Gone /\ name = Gone /\ GoesOn(c, "link")
    BY <1>11 DEF Look, Occupied, raise, Refuses, GoesOn
  <2>c. UNCHANGED <<name, side, diskname, body, synced, staging, lingering, opened, reply, hist,
                  faults>>
    BY <1>11 DEF Look, path, made
  <2>1. TypeOK'
    <3>1. CASE Refuses(c, "IDENTITY_CONFLICT")
      BY <2>a, <2>c, Counted, <3>1, NamesAssumption DEF IInv, Calls, hist, goto, Refuses, TypeOK,
         AnswerOK, Codes, Points, Bodies
    <3>2. CASE side = Gone /\ name = Gone /\ GoesOn(c, "link")
      BY <2>a, <2>c, Counted, <3>2, NamesAssumption DEF IInv, Calls, hist, goto, GoesOn, TypeOK,
         AnswerOK, Codes, Points, Bodies
    <3>. QED
      BY <2>b, <3>1, <3>2
  <2>2. \A d \in Calls : AnswerOK(d)'
    <3> TAKE d \in Calls
    <3>1. CASE Refuses(c, "IDENTITY_CONFLICT")
      BY <2>a, <2>c, <3>1, NamesAssumption DEF IInv, Calls, hist, goto, Refuses, TypeOK, Codes,
         AnswerOK, FileOK
    <3>2. CASE side = Gone /\ name = Gone /\ GoesOn(c, "link")
      BY <2>a, <2>c, <3>2, NamesAssumption DEF IInv, Calls, hist, goto, GoesOn, TypeOK, Codes,
         AnswerOK, FileOK
    <3>. QED
      BY <2>b, <3>1, <3>2
  <2>3. \A d \in Creators : FileOK(d)'
    <3> TAKE d \in Creators
    <3>1. CASE Refuses(c, "IDENTITY_CONFLICT")
      BY <2>a, <2>c, <3>1, NamesAssumption DEF IInv, Calls, hist, goto, Refuses, TypeOK, FileOK,
         Before, Built, Secured, Bodies
    <3>2. CASE side = Gone /\ name = Gone /\ GoesOn(c, "link")
      BY <2>a, <2>c, <3>2, NamesAssumption DEF IInv, Calls, hist, goto, GoesOn, TypeOK, FileOK,
         Before, Built, Secured, Bodies
    <3>. QED
      BY <2>b, <3>1, <3>2
  <2>4. \A d \in Creators : NameOK(d)'
    <3> TAKE d \in Creators
    <3>1. CASE Refuses(c, "IDENTITY_CONFLICT")
      BY <2>a, <2>c, <3>1, NamesAssumption DEF IInv, Calls, hist, goto, Refuses, TypeOK, Codes,
         NameOK, FileOK, AnswerOK, Lasting, Cleared, Before, Secured
    <3>2. CASE side = Gone /\ name = Gone /\ GoesOn(c, "link")
      BY <2>a, <2>c, <3>2, NamesAssumption DEF IInv, Calls, hist, goto, GoesOn, TypeOK, Codes,
         NameOK, FileOK, AnswerOK, Lasting, Cleared, Before, Secured
    <3>. QED
      BY <2>b, <3>1, <3>2
  <2>5. \A d \in Creators : HandleOK(d)'
    <3> TAKE d \in Creators
    <3>1. CASE Refuses(c, "IDENTITY_CONFLICT")
      BY <2>a, <2>c, <3>1, NamesAssumption DEF IInv, Calls, hist, goto, Refuses, TypeOK, Codes,
         HandleOK, NameOK, FileOK, AnswerOK, Before, Lasting
    <3>2. CASE side = Gone /\ name = Gone /\ GoesOn(c, "link")
      BY <2>a, <2>c, <3>2, NamesAssumption DEF IInv, Calls, hist, goto, GoesOn, TypeOK, Codes,
         HandleOK, NameOK, FileOK, AnswerOK, Before, Lasting
    <3>. QED
      BY <2>b, <3>1, <3>2
  <2>6. \A d \in Creators : SidecarOK(d)'
    <3> TAKE d \in Creators
    <3>1. CASE Refuses(c, "IDENTITY_CONFLICT")
      BY <2>a, <2>c, <3>1, NamesAssumption DEF IInv, Calls, hist, goto, Refuses, TypeOK, SidecarOK,
         Unlooked
    <3>2. CASE side = Gone /\ name = Gone /\ GoesOn(c, "link")
      BY <2>a, <2>c, <3>2, NamesAssumption DEF IInv, Calls, hist, goto, GoesOn, TypeOK, SidecarOK,
         Unlooked
    <3>. QED
      BY <2>b, <3>1, <3>2
  <2>7. recovered' = {}
    <3>1. CASE Refuses(c, "IDENTITY_CONFLICT")
      BY <2>a, <2>c, <3>1, NamesAssumption DEF IInv, Calls, hist, goto, Refuses, TypeOK, SidecarOK,
         Unlooked
    <3>2. CASE side = Gone /\ name = Gone /\ GoesOn(c, "link")
      BY <2>a, <2>c, <3>2, NamesAssumption DEF IInv, Calls, hist, goto, GoesOn, TypeOK, SidecarOK,
         Unlooked
    <3>. QED
      BY <2>b, <3>1, <3>2
  <2>. QED
    BY <2>1, <2>2, <2>3, <2>4, <2>5, <2>6, <2>7 DEF IInv
<1>12. ASSUME NEW c \in Creators, Link(c) PROVE IInv'
  <2>a. c \in Calls /\ TypeOK /\ pc[c] = "link"
    BY <1>12 DEF IInv, Calls, Link
  <2>b. \/ Refuses(c, "IDENTITY_CONFLICT") /\ name' = name
        \/ name = Gone /\ name' = c /\ GoesOn(c, "sync directory")
    BY <1>12 DEF Link, raise, Refuses, GoesOn
  <2>c. UNCHANGED <<side, diskname, body, synced, staging, lingering, opened, reply, hist, faults>>
    BY <1>12 DEF Link, made
  <2>1. TypeOK'
    <3>1. CASE Refuses(c, "IDENTITY_CONFLICT") /\ name' = name
      BY <2>a, <2>c, Counted, <3>1, NamesAssumption DEF IInv, Calls, hist, goto, Refuses, TypeOK,
         AnswerOK, Codes, Points, Bodies
    <3>2. CASE name = Gone /\ name' = c /\ GoesOn(c, "sync directory")
      BY <2>a, <2>c, Counted, <3>2, NamesAssumption DEF IInv, Calls, hist, goto, GoesOn, TypeOK,
         AnswerOK, Codes, Points, Bodies
    <3>. QED
      BY <2>b, <3>1, <3>2
  <2>2. \A d \in Calls : AnswerOK(d)'
    <3> TAKE d \in Calls
    <3>1. CASE Refuses(c, "IDENTITY_CONFLICT") /\ name' = name
      BY <2>a, <2>c, <3>1, NamesAssumption DEF IInv, Calls, hist, goto, Refuses, TypeOK, Codes,
         AnswerOK, FileOK
    <3>2. CASE name = Gone /\ name' = c /\ GoesOn(c, "sync directory")
      BY <2>a, <2>c, <3>2, NamesAssumption DEF IInv, Calls, hist, goto, GoesOn, TypeOK, Codes,
         AnswerOK, FileOK
    <3>. QED
      BY <2>b, <3>1, <3>2
  <2>3. \A d \in Creators : FileOK(d)'
    <3> TAKE d \in Creators
    <3>1. CASE Refuses(c, "IDENTITY_CONFLICT") /\ name' = name
      BY <2>a, <2>c, <3>1, NamesAssumption DEF IInv, Calls, hist, goto, Refuses, TypeOK, FileOK,
         Before, Built, Secured, Bodies
    <3>2. CASE name = Gone /\ name' = c /\ GoesOn(c, "sync directory")
      BY <2>a, <2>c, <3>2, NamesAssumption DEF IInv, Calls, hist, goto, GoesOn, TypeOK, FileOK,
         Before, Built, Secured, Bodies
    <3>. QED
      BY <2>b, <3>1, <3>2
  <2>4. \A d \in Creators : NameOK(d)'
    <3> TAKE d \in Creators
    <3>1. CASE Refuses(c, "IDENTITY_CONFLICT") /\ name' = name
      BY <2>a, <2>c, <3>1, NamesAssumption DEF IInv, Calls, hist, goto, Refuses, TypeOK, Codes,
         NameOK, FileOK, AnswerOK, Lasting, Cleared, Before, Secured
    <3>2. CASE name = Gone /\ name' = c /\ GoesOn(c, "sync directory")
      BY <2>a, <2>c, <3>2, NamesAssumption DEF IInv, Calls, hist, goto, GoesOn, TypeOK, Codes,
         NameOK, FileOK, AnswerOK, Lasting, Cleared, Before, Secured
    <3>. QED
      BY <2>b, <3>1, <3>2
  <2>5. \A d \in Creators : HandleOK(d)'
    <3> TAKE d \in Creators
    <3>1. CASE Refuses(c, "IDENTITY_CONFLICT") /\ name' = name
      BY <2>a, <2>c, <3>1, NamesAssumption DEF IInv, Calls, hist, goto, Refuses, TypeOK, Codes,
         HandleOK, NameOK, FileOK, AnswerOK, Before, Lasting
    <3>2. CASE name = Gone /\ name' = c /\ GoesOn(c, "sync directory")
      BY <2>a, <2>c, <3>2, NamesAssumption DEF IInv, Calls, hist, goto, GoesOn, TypeOK, Codes,
         HandleOK, NameOK, FileOK, AnswerOK, Before, Lasting
    <3>. QED
      BY <2>b, <3>1, <3>2
  <2>6. \A d \in Creators : SidecarOK(d)'
    <3> TAKE d \in Creators
    <3>1. CASE Refuses(c, "IDENTITY_CONFLICT") /\ name' = name
      BY <2>a, <2>c, <3>1, NamesAssumption DEF IInv, Calls, hist, goto, Refuses, TypeOK, SidecarOK,
         Unlooked
    <3>2. CASE name = Gone /\ name' = c /\ GoesOn(c, "sync directory")
      BY <2>a, <2>c, <3>2, NamesAssumption DEF IInv, Calls, hist, goto, GoesOn, TypeOK, SidecarOK,
         Unlooked
    <3>. QED
      BY <2>b, <3>1, <3>2
  <2>7. recovered' = {}
    <3>1. CASE Refuses(c, "IDENTITY_CONFLICT") /\ name' = name
      BY <2>a, <2>c, <3>1, NamesAssumption DEF IInv, Calls, hist, goto, Refuses, TypeOK, SidecarOK,
         Unlooked
    <3>2. CASE name = Gone /\ name' = c /\ GoesOn(c, "sync directory")
      BY <2>a, <2>c, <3>2, NamesAssumption DEF IInv, Calls, hist, goto, GoesOn, TypeOK, SidecarOK,
         Unlooked
    <3>. QED
      BY <2>b, <3>1, <3>2
  <2>. QED
    BY <2>1, <2>2, <2>3, <2>4, <2>5, <2>6, <2>7 DEF IInv
<1>13. ASSUME NEW c \in Creators, LinkFails(c) PROVE IInv'
  <2>1. TypeOK'
    BY <1>13, Counted, NamesAssumption DEF IInv, Calls, goto, raise, made, hist, LinkFails, TypeOK,
       AnswerOK, Codes, Points, Bodies
  <2>2. \A d \in Calls : AnswerOK(d)'
    BY <1>13, NamesAssumption DEF IInv, Calls, goto, raise, made, hist, LinkFails, TypeOK, Codes,
       AnswerOK, FileOK
  <2>3. \A d \in Creators : FileOK(d)'
    BY <1>13, NamesAssumption DEF IInv, Calls, goto, raise, made, hist, LinkFails, TypeOK, FileOK,
       Before, Built, Secured, Bodies
  <2>4. \A d \in Creators : NameOK(d)'
    BY <1>13, NamesAssumption DEF IInv, Calls, goto, raise, made, hist, LinkFails, TypeOK, Codes,
       NameOK, FileOK, AnswerOK, Lasting, Cleared, Before, Secured
  <2>5. \A d \in Creators : HandleOK(d)'
    <3> TAKE d \in Creators
    <3>1. UNCHANGED <<opened, reply>>
      BY <1>13 DEF LinkFails
    <3>2. pc' = [pc EXCEPT ![c] = "failed"] /\ (name' = name \/ name' = c)
      BY <1>13 DEF LinkFails, goto, raise
    <3>3. d # c => (name' = d => name = d)
      BY <3>2
    <3>. QED
      BY <3>1, <3>2, <3>3 DEF IInv, TypeOK, Calls, HandleOK
  <2>6. \A d \in Creators : SidecarOK(d)'
    BY <1>13, NamesAssumption DEF IInv, Calls, goto, raise, made, hist, LinkFails, TypeOK,
       SidecarOK, Unlooked
  <2>7. recovered' = {}
    BY <1>13, NamesAssumption DEF IInv, Calls, goto, raise, made, hist, LinkFails, TypeOK,
       SidecarOK, Unlooked
  <2>. QED
    BY <2>1, <2>2, <2>3, <2>4, <2>5, <2>6, <2>7 DEF IInv
<1>14. ASSUME NEW c \in Creators, SyncDirectory(c) PROVE IInv'
  <2>1. TypeOK'
    BY <1>14, Counted, NamesAssumption DEF IInv, Calls, goto, hist, SyncDirectory, TypeOK, AnswerOK,
       Codes, Points, Bodies
  <2>2. \A d \in Calls : AnswerOK(d)'
    BY <1>14, NamesAssumption DEF IInv, Calls, goto, hist, SyncDirectory, TypeOK, Codes, AnswerOK,
       FileOK
  <2>3. \A d \in Creators : FileOK(d)'
    BY <1>14, NamesAssumption DEF IInv, Calls, goto, hist, SyncDirectory, TypeOK, FileOK, Before,
       Built, Secured, Bodies
  <2>4. \A d \in Creators : NameOK(d)'
    BY <1>14, NamesAssumption DEF IInv, Calls, goto, hist, SyncDirectory, TypeOK, Codes, NameOK,
       FileOK, AnswerOK, Lasting, Cleared, Before, Secured
  <2>5. \A d \in Creators : HandleOK(d)'
    BY <1>14, NamesAssumption DEF IInv, Calls, goto, hist, SyncDirectory, TypeOK, Codes, HandleOK,
       NameOK, FileOK, AnswerOK, Before, Lasting
  <2>6. \A d \in Creators : SidecarOK(d)'
    BY <1>14, NamesAssumption DEF IInv, Calls, goto, hist, SyncDirectory, TypeOK, SidecarOK,
       Unlooked
  <2>7. recovered' = {}
    BY <1>14, NamesAssumption DEF IInv, Calls, goto, hist, SyncDirectory, TypeOK, SidecarOK,
       Unlooked
  <2>. QED
    BY <2>1, <2>2, <2>3, <2>4, <2>5, <2>6, <2>7 DEF IInv
<1>15. ASSUME NEW c \in Creators, Unstage(c) PROVE IInv'
  <2>1. TypeOK'
    BY <1>15, Counted, NamesAssumption DEF IInv, Calls, goto, path, hist, Unstage, TypeOK, AnswerOK,
       Codes, Points, Bodies
  <2>2. \A d \in Calls : AnswerOK(d)'
    BY <1>15, NamesAssumption DEF IInv, Calls, goto, path, hist, Unstage, TypeOK, Codes, AnswerOK,
       FileOK
  <2>3. \A d \in Creators : FileOK(d)'
    BY <1>15, NamesAssumption DEF IInv, Calls, goto, path, hist, Unstage, TypeOK, FileOK, Before,
       Built, Secured, Bodies
  <2>4. \A d \in Creators : NameOK(d)'
    BY <1>15, NamesAssumption DEF IInv, Calls, goto, path, hist, Unstage, TypeOK, Codes, NameOK,
       FileOK, AnswerOK, Lasting, Cleared, Before, Secured
  <2>5. \A d \in Creators : HandleOK(d)'
    BY <1>15, NamesAssumption DEF IInv, Calls, goto, path, hist, Unstage, TypeOK, Codes, HandleOK,
       NameOK, FileOK, AnswerOK, Before, Lasting
  <2>6. \A d \in Creators : SidecarOK(d)'
    BY <1>15, NamesAssumption DEF IInv, Calls, goto, path, hist, Unstage, TypeOK, SidecarOK,
       Unlooked
  <2>7. recovered' = {}
    BY <1>15, NamesAssumption DEF IInv, Calls, goto, path, hist, Unstage, TypeOK, SidecarOK,
       Unlooked
  <2>. QED
    BY <2>1, <2>2, <2>3, <2>4, <2>5, <2>6, <2>7 DEF IInv
<1>16. ASSUME NEW c \in Creators, CheckSame(c) PROVE IInv'
  <2>a. c \in Calls /\ TypeOK /\ pc[c] = "same"
    BY <1>16 DEF IInv, Calls, CheckSame
  <2>b. \/ Refuses(c, "IO_ERROR")
        \/ name = c /\ GoesOn(c, "open")
    BY <1>16 DEF CheckSame, Same, raise, Refuses, GoesOn
  <2>c. UNCHANGED <<name, side, diskname, body, synced, staging, lingering, opened, reply, hist,
                  faults>>
    BY <1>16 DEF CheckSame, path, made
  <2>1. TypeOK'
    <3>1. CASE Refuses(c, "IO_ERROR")
      BY <2>a, <2>c, Counted, <3>1, NamesAssumption DEF IInv, Calls, hist, goto, Refuses, TypeOK,
         AnswerOK, Codes, Points, Bodies
    <3>2. CASE name = c /\ GoesOn(c, "open")
      BY <2>a, <2>c, Counted, <3>2, NamesAssumption DEF IInv, Calls, hist, goto, GoesOn, TypeOK,
         AnswerOK, Codes, Points, Bodies
    <3>. QED
      BY <2>b, <3>1, <3>2
  <2>2. \A d \in Calls : AnswerOK(d)'
    <3> TAKE d \in Calls
    <3>1. CASE Refuses(c, "IO_ERROR")
      BY <2>a, <2>c, <3>1, NamesAssumption DEF IInv, Calls, hist, goto, Refuses, TypeOK, Codes,
         AnswerOK, FileOK
    <3>2. CASE name = c /\ GoesOn(c, "open")
      BY <2>a, <2>c, <3>2, NamesAssumption DEF IInv, Calls, hist, goto, GoesOn, TypeOK, Codes,
         AnswerOK, FileOK
    <3>. QED
      BY <2>b, <3>1, <3>2
  <2>3. \A d \in Creators : FileOK(d)'
    <3> TAKE d \in Creators
    <3>1. CASE Refuses(c, "IO_ERROR")
      BY <2>a, <2>c, <3>1, NamesAssumption DEF IInv, Calls, hist, goto, Refuses, TypeOK, FileOK,
         Before, Built, Secured, Bodies
    <3>2. CASE name = c /\ GoesOn(c, "open")
      BY <2>a, <2>c, <3>2, NamesAssumption DEF IInv, Calls, hist, goto, GoesOn, TypeOK, FileOK,
         Before, Built, Secured, Bodies
    <3>. QED
      BY <2>b, <3>1, <3>2
  <2>4. \A d \in Creators : NameOK(d)'
    <3> TAKE d \in Creators
    <3>1. CASE Refuses(c, "IO_ERROR")
      BY <2>a, <2>c, <3>1, NamesAssumption DEF IInv, Calls, hist, goto, Refuses, TypeOK, Codes,
         NameOK, FileOK, AnswerOK, Lasting, Cleared, Before, Secured
    <3>2. CASE name = c /\ GoesOn(c, "open")
      BY <2>a, <2>c, <3>2, NamesAssumption DEF IInv, Calls, hist, goto, GoesOn, TypeOK, Codes,
         NameOK, FileOK, AnswerOK, Lasting, Cleared, Before, Secured
    <3>. QED
      BY <2>b, <3>1, <3>2
  <2>5. \A d \in Creators : HandleOK(d)'
    <3> TAKE d \in Creators
    <3>1. CASE Refuses(c, "IO_ERROR")
      BY <2>a, <2>c, <3>1, NamesAssumption DEF IInv, Calls, hist, goto, Refuses, TypeOK, Codes,
         HandleOK, NameOK, FileOK, AnswerOK, Before, Lasting
    <3>2. CASE name = c /\ GoesOn(c, "open")
      BY <2>a, <2>c, <3>2, NamesAssumption DEF IInv, Calls, hist, goto, GoesOn, TypeOK, Codes,
         HandleOK, NameOK, FileOK, AnswerOK, Before, Lasting
    <3>. QED
      BY <2>b, <3>1, <3>2
  <2>6. \A d \in Creators : SidecarOK(d)'
    <3> TAKE d \in Creators
    <3>1. CASE Refuses(c, "IO_ERROR")
      BY <2>a, <2>c, <3>1, NamesAssumption DEF IInv, Calls, hist, goto, Refuses, TypeOK, SidecarOK,
         Unlooked
    <3>2. CASE name = c /\ GoesOn(c, "open")
      BY <2>a, <2>c, <3>2, NamesAssumption DEF IInv, Calls, hist, goto, GoesOn, TypeOK, SidecarOK,
         Unlooked
    <3>. QED
      BY <2>b, <3>1, <3>2
  <2>7. recovered' = {}
    <3>1. CASE Refuses(c, "IO_ERROR")
      BY <2>a, <2>c, <3>1, NamesAssumption DEF IInv, Calls, hist, goto, Refuses, TypeOK, SidecarOK,
         Unlooked
    <3>2. CASE name = c /\ GoesOn(c, "open")
      BY <2>a, <2>c, <3>2, NamesAssumption DEF IInv, Calls, hist, goto, GoesOn, TypeOK, SidecarOK,
         Unlooked
    <3>. QED
      BY <2>b, <3>1, <3>2
  <2>. QED
    BY <2>1, <2>2, <2>3, <2>4, <2>5, <2>6, <2>7 DEF IInv
<1>17. CASE PowerLoss
  <2>1. TypeOK'
    BY <1>17, Counted, NamesAssumption DEF IInv, Calls, Running, PowerLoss, TypeOK, AnswerOK, Codes,
       Points, Bodies
  <2>2. \A d \in Calls : AnswerOK(d)'
    BY <1>17, NamesAssumption DEF IInv, Calls, Running, PowerLoss, TypeOK, Codes, AnswerOK, FileOK
  <2>3. \A d \in Creators : FileOK(d)'
    <3> TAKE d \in Creators
    <3>1. pc'[d] \in {"new", "done"}
      BY <1>17 DEF PowerLoss, Running, IInv, TypeOK, Calls
    <3>2. ASSUME d \in {name', diskname'} \/ \E e \in Calls : opened'[e] = d
          PROVE  body'[d] = "whole" /\ d \in synced' /\ pc'[d] \notin Before
      <4>1. d \in {name, diskname} \/ \E e \in Calls : opened[e] = d
        BY <1>17, <3>2, NamesAssumption DEF PowerLoss
      <4>2. body[d] = "whole" /\ d \in synced /\ pc[d] \notin Before
        BY <4>1 DEF IInv, FileOK
      <4>3. body'[d] = "whole" /\ d \in synced'
        BY <1>17, <4>2, NamesAssumption DEF PowerLoss
      <4>4. pc'[d] \in {"done", pc[d]}
        BY <1>17 DEF PowerLoss, IInv, TypeOK, Calls
      <4>. QED
        BY <4>2, <4>3, <4>4 DEF Before
    <3>. QED
      BY <3>1, <3>2 DEF FileOK, Built, Secured
  <2>4. \A d \in Creators : NameOK(d)'
    BY <1>17, NamesAssumption DEF IInv, Calls, Running, PowerLoss, TypeOK, Codes, NameOK, FileOK,
       AnswerOK, Lasting, Cleared, Before, Secured
  <2>5. \A d \in Creators : HandleOK(d)'
    BY <1>17, NamesAssumption DEF IInv, Calls, Running, PowerLoss, TypeOK, Codes, HandleOK, NameOK,
       FileOK, AnswerOK, Before, Lasting
  <2>6. \A d \in Creators : SidecarOK(d)'
    BY <1>17, NamesAssumption DEF IInv, Calls, Running, PowerLoss, TypeOK, SidecarOK, Unlooked
  <2>7. recovered' = {}
    BY <1>17, NamesAssumption DEF IInv, Calls, Running, PowerLoss, TypeOK, SidecarOK, Unlooked
  <2>. QED
    BY <2>1, <2>2, <2>3, <2>4, <2>5, <2>6, <2>7 DEF IInv
<1>18. CASE Meddle
  <2>1. TypeOK'
    BY <1>18, Counted, NamesAssumption DEF IInv, Calls, made, Meddle, TypeOK, AnswerOK, Codes,
       Points, Bodies
  <2>2. \A d \in Calls : AnswerOK(d)'
    BY <1>18, NamesAssumption DEF IInv, Calls, made, Meddle, TypeOK, Codes, AnswerOK, FileOK
  <2>3. \A d \in Creators : FileOK(d)'
    <3>1. name' \notin Creators /\ diskname' \notin Creators
      BY <1>18, NamesAssumption DEF Meddle
    <3>2. UNCHANGED <<pc, body, synced, opened>>
      BY <1>18 DEF Meddle, made
    <3>. QED
      BY <3>1, <3>2 DEF IInv, FileOK
  <2>4. \A d \in Creators : NameOK(d)'
    BY <1>18, NamesAssumption DEF IInv, Calls, made, Meddle, TypeOK, Codes, NameOK, FileOK,
       AnswerOK, Lasting, Cleared, Before, Secured
  <2>5. \A d \in Creators : HandleOK(d)'
    BY <1>18, NamesAssumption DEF IInv, Calls, made, Meddle, TypeOK, Codes, HandleOK, NameOK,
       FileOK, AnswerOK, Before, Lasting
  <2>6. \A d \in Creators : SidecarOK(d)'
    BY <1>18, NamesAssumption DEF IInv, Calls, made, Meddle, TypeOK, SidecarOK, Unlooked
  <2>7. recovered' = {}
    BY <1>18, NamesAssumption DEF IInv, Calls, made, Meddle, TypeOK, SidecarOK, Unlooked
  <2>. QED
    BY <2>1, <2>2, <2>3, <2>4, <2>5, <2>6, <2>7 DEF IInv
<1>19. CASE LeaveSidecar
  <2>1. TypeOK'
    BY <1>19, Counted, NamesAssumption DEF IInv, Calls, made, LeaveSidecar, TypeOK, AnswerOK, Codes,
       Points, Bodies
  <2>2. \A d \in Calls : AnswerOK(d)'
    BY <1>19, NamesAssumption DEF IInv, Calls, made, LeaveSidecar, TypeOK, Codes, AnswerOK, FileOK
  <2>3. \A d \in Creators : FileOK(d)'
    BY <1>19, NamesAssumption DEF IInv, Calls, made, LeaveSidecar, TypeOK, FileOK, Before, Built,
       Secured, Bodies
  <2>4. \A d \in Creators : NameOK(d)'
    BY <1>19, NamesAssumption DEF IInv, Calls, made, LeaveSidecar, TypeOK, Codes, NameOK, FileOK,
       AnswerOK, Lasting, Cleared, Before, Secured
  <2>5. \A d \in Creators : HandleOK(d)'
    BY <1>19, NamesAssumption DEF IInv, Calls, made, LeaveSidecar, TypeOK, Codes, HandleOK, NameOK,
       FileOK, AnswerOK, Before, Lasting
  <2>6. \A d \in Creators : SidecarOK(d)'
    BY <1>19, NamesAssumption DEF IInv, Calls, made, LeaveSidecar, TypeOK, SidecarOK, Unlooked
  <2>7. recovered' = {}
    BY <1>19, NamesAssumption DEF IInv, Calls, made, LeaveSidecar, TypeOK, SidecarOK, Unlooked
  <2>. QED
    BY <2>1, <2>2, <2>3, <2>4, <2>5, <2>6, <2>7 DEF IInv
<1>20. CASE UNCHANGED vars
  BY <1>20 DEF vars, path, made, hist, IInv, TypeOK, AnswerOK, FileOK, NameOK, HandleOK, SidecarOK
<1>. QED
  BY <1>1, <1>2, <1>3, <1>4, <1>5, <1>6, <1>7, <1>8, <1>9, <1>10, <1>11, <1>12, <1>13, <1>14, <1>15,
     <1>16, <1>17, <1>18, <1>19, <1>20 DEF Next, Calls

-----------------------------------------------------------------------------
\* All of this holds always.
THEOREM Invariance == Spec => []IInv
BY InitIInv, NextIInv, PTL DEF Spec

\* A file of a creator that is at the path, on the disk under that name or
\* open in a handle is whole: no other is linked by _initialize, for any number
\* of creators, openers, failures, deaths and losses of power.
THEOREM WholeOrNothing == Spec => []NeverHalfMade
<1>1. IInv => NeverHalfMade
  BY DEF IInv, FileOK, NeverHalfMade, Visible
<1>. QED
  BY <1>1, Invariance, PTL

\* A creator that succeeds holds the file it made, at the path and on the
\* disk unless somebody else changed that, and has cleared its private
\* directory, which only a later loss of power brings back.
THEOREM OwnFile == Spec => []CreatedIsOwn
<1>1. IInv => CreatedIsOwn
  BY DEF IInv, CreatedIsOwn, NameOK, HandleOK
<1>. QED
  BY <1>1, Invariance, PTL

\* Of any number of calls that create at one path at most one succeeds, unless
\* somebody else removed what was there.
THEOREM OneSucceeds ==
  Spec => [](\A c, d \in Creators : reply[c] = "OK" /\ reply[d] = "OK" => meddled \/ c = d)
<1>1. CreatedIsOwn => \A c, d \in Creators : reply[c] = "OK" /\ reply[d] = "OK" => meddled \/ c = d
  BY DEF CreatedIsOwn
<1>. QED
  BY <1>1, OwnFile, PTL

\* Creation recovers nothing from the sidecar of an older database that was
\* there when the path was looked at for the second time.
THEOREM NothingRecovered == Spec => []OldSidecarsKept
<1>1. IInv => OldSidecarsKept
  BY DEF IInv, OldSidecarsKept
<1>. QED
  BY <1>1, Invariance, PTL

=============================================================================
