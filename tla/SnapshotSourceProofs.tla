------------------------ MODULE SnapshotSourceProofs ------------------------
(***************************************************************************)
(* The image of a live database, for any number of calls, handles,         *)
(* processes, files, commits and failures.                                 *)
(*                                                                         *)
(* That a copy is of one commit rests on what SQLite's locks keep apart,   *)
(* on no file coming back to the path, and on the journal that betrays a   *)
(* writer that died; the invariant says what each point of a call knows.   *)
(***************************************************************************)
EXTENDS SnapshotSource, TLAPS

CallPoints == {"new", "bind", "spawn", "header", "rebind", "precheck", "connect", "connected",
               "begin", "format", "copy", "lastcheck", "close", "validate", "cleanup", "done"}
WriterPoints == {"idle", "writing", "committing", "writing pages"}
Pinned == {"format", "copy", "lastcheck", "close"}
Unpinned == {"new", "bind", "spawn", "header", "rebind", "precheck", "connect", "connected", "begin"}
Unread == {"new", "bind", "spawn", "header"}
Opened == {"begin"} \cup Pinned

\* Where a handle is, and what it holds: a transaction is on the file at the
\* path, beside its journal, and has changed no page before its commit.
WriterOK(w) ==
  /\ pc[w] \in WriterPoints
  /\ pc[w] = "idle" => on[w] = 0 /\ lock[w] = "none"
  /\ pc[w] # "idle" => on[w] = at /\ beside = "journal" /\ lock[w] \in Writing
  /\ pc[w] \in {"writing", "committing"} => ~dirty[at]
  /\ pc[w] = "committing" => lock[w] = "pending"
  /\ pc[w] = "writing pages" => lock[w] = "exclusive"

Alone == \A v, w \in Writers : pc[v] # "idle" /\ pc[w] # "idle" => v = w

\* Pages of no commit are on a file that was replaced, or beside a journal.
SourceOK == \A f \in Files : dirty[f] => f < at \/ (f = at /\ beside = "journal")

\* Readers and the writer of pages exclude each other.
ReadersOK == \A w \in Writers, s \in Snapshots :
  pc[w] = "writing pages" /\ lock[s] = "shared" => on[s] # at

ConnectionOK(s) ==
  /\ pc[s] \in CallPoints
  /\ lock[s] \in {"none", "shared"}
  /\ pc[s] \in Pinned => lock[s] = "shared"
  /\ pc[s] \notin Pinned \cup {"cleanup"} => lock[s] = "none"
  /\ pc[s] \notin Opened \cup {"connected", "cleanup"} => on[s] = 0
  /\ bound[s] <= at /\ on[s] <= at
  /\ pc[s] \notin {"new", "bind", "cleanup", "done"} => bound[s] \in Files
  /\ pc[s] = "connected" => on[s] \in Files /\ bound[s] <= on[s]
  /\ pc[s] \in Opened => on[s] = bound[s]

HeaderOK(s) ==
  /\ pc[s] \in {"new", "bind", "spawn"} => helper[s] = "none"
  /\ pc[s] = "header" => helper[s] \in {"running", "ended"}
  /\ pc[s] # "header" => helper[s] \in {"none", "reaped"}
  /\ helper[s] = "ended" => said[s] # "nothing"
  /\ helper[s] = "ended" /\ said[s] = "readable" => HeaderOf(bound[s]) = "readable"
  /\ pc[s] \notin Unread \cup {"cleanup", "done"} => HeaderOf(bound[s]) = "readable"
  /\ pc[s] \in {"connect", "connected", "begin"} /\ at = bound[s] => beside \notin {"wal", "odd"}

ImageOK(s) ==
  /\ pc[s] \in Unpinned => t0[s] = NoImage /\ copied[s] = {} /\ chunk[s] = 0
  /\ pc[s] \in Pinned =>
       /\ t0[s] = [file |-> on[s], commits |-> content[on[s]]]
       /\ dirty[on[s]] => at # on[s]
  /\ pc[s] = "format" => copied[s] = {} /\ chunk[s] = 0
  /\ pc[s] = "copy" => chunk[s] < Chunks
  /\ pc[s] \in {"copy", "lastcheck"} /\ at = on[s] => copied[s] \subseteq {content[on[s]]}
  /\ pc[s] = "close" => copied[s] \subseteq {content[on[s]]}
  /\ pc[s] = "validate" => copied[s] \subseteq {t0[s].commits} /\ t0[s] = [file |-> bound[s], commits |-> t0[s].commits]

AnswerOK(s) ==
  /\ pc[s] # "done" => told[s] = Promise!Pending
  /\ pc[s] = "cleanup" => code[s] # "none"

IInv ==
  /\ TypeOK
  /\ \A w \in Writers : WriterOK(w)
  /\ Alone /\ SourceOK /\ ReadersOK
  /\ \A s \in Snapshots : ConnectionOK(s) /\ HeaderOK(s) /\ ImageOK(s) /\ AnswerOK(s)
-----------------------------------------------------------------------------
\* Files are numbered from 1 on.
LEMMA Numbers == at \in Files => at \in Nat /\ 0 <= at /\ at <= at /\ Files \subseteq Nat
  BY BoundsAssumption DEF Files

\* Faults are counted up to their bound.
LEMMA Counted ==
  ASSUME faults \in 0 .. MaxFaults, Fault \/ UNCHANGED faults PROVE faults' \in 0 .. MaxFaults
  BY BoundsAssumption DEF Fault

(* What a step of one call leaves alone, and what remains to be shown of it. *)

Frame(s) ==
  /\ UNCHANGED source
  /\ \A x \in Conns \ {s} : pc'[x] = pc[x] /\ on'[x] = on[x] /\ lock'[x] = lock[x]
  /\ \A d \in Snapshots \ {s} :
       /\ bound'[d] = bound[d] /\ helper'[d] = helper[d] /\ said'[d] = said[d]
       /\ copied'[d] = copied[d] /\ chunk'[d] = chunk[d] /\ t0'[d] = t0[d]
       /\ code'[d] = code[d] /\ told'[d] = told[d]

CallOK(s) == ConnectionOK(s) /\ HeaderOK(s) /\ ImageOK(s) /\ AnswerOK(s)

\* A step of s that leaves everybody else alone keeps the invariant if it
\* keeps what the invariant says of s.
LEMMA CallStep ==
  ASSUME IInv, NEW s \in Snapshots, Frame(s), TypeOK', CallOK(s)',
         \A w \in Writers : pc[w] = "writing pages" /\ lock'[s] = "shared" => on'[s] # at
  PROVE  IInv'
<1>1. \A w \in Writers : w \in Conns \ {s}
  BY CallsAssumption DEF Conns
<1>2. at' = at /\ beside' = beside /\ content' = content /\ dirty' = dirty
  BY DEF Frame, source
<1>3. \A w \in Writers : pc'[w] = pc[w] /\ on'[w] = on[w] /\ lock'[w] = lock[w]
  BY <1>1 DEF Frame
<1>4. \A w \in Writers : WriterOK(w)'
  BY <1>2, <1>3 DEF IInv, WriterOK
<1>5. Alone' /\ SourceOK'
  BY <1>2, <1>3 DEF IInv, Alone, SourceOK
<1>6. ReadersOK'
  <2> SUFFICES ASSUME NEW w \in Writers, NEW d \in Snapshots,
                      pc'[w] = "writing pages", lock'[d] = "shared"
               PROVE  on'[d] # at'
    BY DEF ReadersOK
  <2>1. CASE d = s
    BY <1>2, <1>3, <2>1
  <2>2. CASE d # s
    <3>1. d \in Conns \ {s}
      BY <2>2 DEF Conns
    <3>2. on'[d] = on[d] /\ lock'[d] = lock[d]
      BY <3>1 DEF Frame
    <3>3. pc[w] = "writing pages"
      BY <1>3
    <3>. QED
      BY <1>2, <3>2, <3>3 DEF IInv, ReadersOK
  <2>. QED
    BY <2>1, <2>2
<1>7. ASSUME NEW d \in Snapshots \ {s}
      PROVE  CallOK(d)'
  <2>1. d \in Conns \ {s} /\ d \in Snapshots
    BY DEF Conns
  <2>2. /\ pc'[d] = pc[d] /\ on'[d] = on[d] /\ lock'[d] = lock[d]
        /\ bound'[d] = bound[d] /\ helper'[d] = helper[d] /\ said'[d] = said[d]
        /\ copied'[d] = copied[d] /\ chunk'[d] = chunk[d] /\ t0'[d] = t0[d]
        /\ code'[d] = code[d] /\ told'[d] = told[d]
    BY <2>1 DEF Frame
  <2>3. ConnectionOK(d)'
    BY <1>2, <2>1, <2>2 DEF IInv, ConnectionOK
  <2>4. HeaderOK(d)'
    BY <1>2, <2>1, <2>2 DEF IInv, HeaderOK, HeaderOf
  <2>5. ImageOK(d)'
    <3>1. ImageOK(d)
      BY <2>1 DEF IInv
    <3>. QED
      BY <1>2, <2>2, <3>1 DEF ImageOK
  <2>6. AnswerOK(d)'
    BY <2>1, <2>2 DEF IInv, AnswerOK, Promise!Pending
  <2>. QED
    BY <2>3, <2>4, <2>5, <2>6 DEF CallOK
<1>. QED
  BY <1>4, <1>5, <1>6, <1>7 DEF IInv, CallOK

\* Whatever raises before anything was told leads to the clean up.
LEMMA Raises ==
  ASSUME IInv, NEW s \in Snapshots, NEW e \in Codes, raise(s, e),
         pc[s] \notin {"new", "cleanup", "done"},
         NEW b \in Files \cup {0}, b <= at, bound' = [bound EXCEPT ![s] = b],
         NEW h \in {"none", "reaped"}, helper' = [helper EXCEPT ![s] = h],
         UNCHANGED <<source, locks, said, backup, told>>,
         touched' \subseteq Snapshots, faults' \in 0 .. MaxFaults
  PROVE  IInv'
<1>1. TypeOK /\ ConnectionOK(s) /\ HeaderOK(s) /\ ImageOK(s) /\ AnswerOK(s) /\ s \in Conns
  BY DEF IInv, Conns
<1>2. pc' = [pc EXCEPT ![s] = "cleanup"] /\ code' = [code EXCEPT ![s] = e]
  BY DEF raise, goto
<1>3. pc'[s] = "cleanup" /\ code'[s] = e /\ bound'[s] = b /\ helper'[s] = h
  BY <1>1, <1>2 DEF TypeOK
<1>4. Frame(s)
  BY <1>1, <1>2 DEF Frame, TypeOK, locks, backup, Conns
<1>5. TypeOK'
  <2>1. pc' \in [Conns -> Points] /\ code' \in [Snapshots -> Codes \cup {"none"}]
    BY <1>1, <1>2 DEF TypeOK, Points
  <2>2. bound' \in [Snapshots -> Files \cup {0}]
    BY <1>1 DEF TypeOK
  <2>3. helper' \in [Snapshots -> {"none", "running", "ended", "reaped"}]
    BY <1>1 DEF TypeOK
  <2>. QED
    BY <1>1, <2>1, <2>2, <2>3 DEF TypeOK, source, locks, backup
<1>6. ConnectionOK(s)'
  BY <1>1, <1>3 DEF ConnectionOK, source, locks, CallPoints, Pinned, Opened
<1>7. HeaderOK(s)'
  BY <1>1, <1>3 DEF HeaderOK, HeaderOf
<1>8. ImageOK(s)' /\ AnswerOK(s)'
  BY <1>1, <1>3 DEF ImageOK, AnswerOK, Unpinned, Pinned, Codes, Promise!Pending
<1>9. \A w \in Writers : pc[w] = "writing pages" /\ lock'[s] = "shared" => on'[s] # at
  BY DEF IInv, ReadersOK, locks
<1>. QED
  BY <1>4, <1>5, <1>6, <1>7, <1>8, <1>9, CallStep DEF CallOK

\* A step that only moves on.
LEMMA MovesOn ==
  ASSUME IInv, NEW s \in Snapshots, NEW q \in CallPoints, goto(s, q),
         UNCHANGED <<source, locks, bound, child, backup, answer, touched, faults>>,
         CallOK(s)'
  PROVE  IInv'
<1>1. TypeOK /\ s \in Conns /\ pc' = [pc EXCEPT ![s] = q]
  BY DEF IInv, Conns, goto
<1>2. Frame(s)
  BY <1>1 DEF Frame, TypeOK, locks, child, backup, answer, Conns
<1>3. TypeOK'
  BY <1>1 DEF TypeOK, source, locks, child, backup, answer, Points, CallPoints
<1>4. \A w \in Writers : pc[w] = "writing pages" /\ lock'[s] = "shared" => on'[s] # at
  BY DEF IInv, ReadersOK, locks
<1>. QED
  BY <1>2, <1>3, <1>4, CallStep

\* What is true of s, said once for each action.
LEMMA Facts ==
  ASSUME IInv, NEW s \in Snapshots
  PROVE  /\ TypeOK /\ ConnectionOK(s) /\ HeaderOK(s) /\ ImageOK(s) /\ AnswerOK(s)
         /\ s \in Conns
         /\ bound[s] \in Files \cup {0} /\ bound[s] <= at
         /\ bound = [bound EXCEPT ![s] = bound[s]] /\ helper = [helper EXCEPT ![s] = helper[s]]
         /\ faults \in 0 .. MaxFaults /\ touched \subseteq Snapshots
  BY DEF IInv, ConnectionOK, TypeOK, Conns

\* The same for a step that changes nothing but what is named by raise.
LEMMA RaisesOnly ==
  ASSUME IInv, NEW s \in Snapshots, NEW e \in Codes, raise(s, e),
         pc[s] \notin {"new", "header", "cleanup", "done"},
         UNCHANGED <<source, locks, bound, child, backup, told>>,
         touched' \subseteq Snapshots, faults' \in 0 .. MaxFaults
  PROVE  IInv'
<1>1. helper[s] \in {"none", "reaped"}
  BY Facts DEF HeaderOK
<1>2. bound' = [bound EXCEPT ![s] = bound[s]] /\ helper' = [helper EXCEPT ![s] = helper[s]]
  BY Facts DEF child
<1>. QED
  BY <1>1, <1>2, Facts, Raises DEF child

LEMMA NextAsk == ASSUME IInv, NEW s \in Snapshots, Ask(s) PROVE IInv'
<1>1. pc' = [pc EXCEPT ![s] = "bind"] /\ pc[s] = "new"
      /\ UNCHANGED <<source, locks, bound, child, backup, answer, touched, faults>>
  BY DEF Ask, goto
<1>2. pc'[s] = "bind"
  BY <1>1, Facts DEF TypeOK
<1>3. ConnectionOK(s)'
  BY <1>1, <1>2, Facts DEF ConnectionOK, source, locks, CallPoints, Pinned, Opened
<1>4. HeaderOK(s)'
  BY <1>1, <1>2, Facts DEF HeaderOK, HeaderOf, source, child, Unread
<1>5. ImageOK(s)'
  BY <1>1, <1>2, Facts DEF ImageOK, backup, Unpinned, Pinned
<1>6. AnswerOK(s)'
  BY <1>1, <1>2, Facts DEF AnswerOK, answer, Promise!Pending
<1>. QED
  BY <1>1, <1>3, <1>4, <1>5, <1>6, MovesOn DEF CallOK, CallPoints, goto

LEMMA NextCheckSource ==
  ASSUME IInv, NEW s \in Snapshots,
         NEW here \in {"rebind", "precheck"}, NEW next \in {"precheck", "connect"},
         CheckSource(s, here, next)
  PROVE  IInv'
<1>1. pc[s] = here /\ UNCHANGED <<source, locks, bound, child, backup, told, touched, faults>>
  BY DEF CheckSource
<1>2. \/ raise(s, NotBound(s))
      \/ SidecarError # "none" /\ raise(s, SidecarError)
      \/ SidecarError = "none" /\ goto(s, next) /\ code' = code
  BY DEF CheckSource
<1>3. NotBound(s) \in Codes
  BY DEF NotBound, Codes
<1>4. SidecarError # "none" => SidecarError \in Codes
  BY DEF SidecarError, Codes
<1>5. SidecarError = "none" => beside \notin {"wal", "odd"}
  BY DEF SidecarError
<1>6. CASE raise(s, NotBound(s))
  BY <1>1, <1>3, <1>6, Facts, RaisesOnly
<1>7. CASE SidecarError # "none" /\ raise(s, SidecarError)
  BY <1>1, <1>4, <1>7, Facts, RaisesOnly
<1>8. CASE SidecarError = "none" /\ goto(s, next) /\ code' = code
  <2>1. pc'[s] = next
    BY <1>8, Facts DEF TypeOK, goto
  <2>2. ConnectionOK(s)'
    BY <1>1, <2>1, Facts DEF ConnectionOK, source, locks, CallPoints, Pinned, Opened
  <2>3. HeaderOK(s)'
    BY <1>1, <1>5, <1>8, <2>1, Facts DEF HeaderOK, HeaderOf, source, child, Unread
  <2>4. ImageOK(s)'
    BY <1>1, <2>1, Facts DEF ImageOK, backup, Unpinned, Pinned
  <2>5. AnswerOK(s)'
    BY <1>1, <2>1, Facts DEF AnswerOK, Promise!Pending
  <2>. QED
    BY <1>1, <1>8, <2>2, <2>3, <2>4, <2>5, MovesOn DEF CallOK, CallPoints, answer
<1>. QED
  BY <1>2, <1>6, <1>7, <1>8

LEMMA NextRecheck == ASSUME IInv, NEW s \in Snapshots, Recheck(s) PROVE IInv'
<1>1. pc[s] = "connected" /\ UNCHANGED <<source, locks, bound, child, backup, told, touched, faults>>
  BY DEF Recheck
<1>2. \/ raise(s, NotBound(s))
      \/ at = bound[s] /\ goto(s, "begin") /\ code' = code
  BY DEF Recheck, StillBound
<1>3. NotBound(s) \in Codes
  BY DEF NotBound, Codes
<1>4. CASE raise(s, NotBound(s))
  BY <1>1, <1>3, <1>4, Facts, RaisesOnly
<1>5. CASE at = bound[s] /\ goto(s, "begin") /\ code' = code
  <2>1. pc'[s] = "begin"
    BY <1>5, Facts DEF TypeOK, goto
  <2>2. on[s] = bound[s]
    BY <1>1, <1>5, Facts DEF ConnectionOK, Files
  <2>3. ConnectionOK(s)'
    BY <1>1, <2>1, <2>2, Facts DEF ConnectionOK, source, locks, CallPoints, Pinned, Opened
  <2>4. HeaderOK(s)'
    BY <1>1, <2>1, Facts DEF HeaderOK, HeaderOf, source, child, Unread
  <2>5. ImageOK(s)'
    BY <1>1, <2>1, Facts DEF ImageOK, backup, Unpinned, Pinned
  <2>6. AnswerOK(s)'
    BY <1>1, <2>1, Facts DEF AnswerOK, Promise!Pending
  <2>. QED
    BY <1>1, <1>5, <2>3, <2>4, <2>5, <2>6, MovesOn DEF CallOK, CallPoints, answer
<1>. QED
  BY <1>2, <1>4, <1>5

LEMMA NextCheckFormat == ASSUME IInv, NEW s \in Snapshots, CheckFormat(s) PROVE IInv'
<1>1. pc[s] = "format" /\ UNCHANGED <<source, locks, bound, child, backup, told, touched, faults>>
  BY DEF CheckFormat
<1>2. \/ \E e \in {"RESOURCE_LIMIT", "UNSUPPORTED_FORMAT"} : raise(s, e)
      \/ goto(s, "copy") /\ code' = code
  BY DEF CheckFormat
<1>3. CASE \E e \in {"RESOURCE_LIMIT", "UNSUPPORTED_FORMAT"} : raise(s, e)
  BY <1>1, <1>3, Facts, RaisesOnly DEF Codes
<1>4. CASE goto(s, "copy") /\ code' = code
  <2>1. pc'[s] = "copy"
    BY <1>4, Facts DEF TypeOK, goto
  <2>2. ConnectionOK(s)'
    BY <1>1, <2>1, Facts DEF ConnectionOK, source, locks, CallPoints, Pinned, Opened
  <2>3. HeaderOK(s)'
    BY <1>1, <2>1, Facts DEF HeaderOK, HeaderOf, source, child, Unread
  <2>4. ImageOK(s)'
    <3>1. chunk[s] = 0 /\ copied[s] = {} /\ t0[s] = [file |-> on[s], commits |-> content[on[s]]]
          /\ (dirty[on[s]] => at # on[s])
      BY <1>1, Facts DEF ImageOK, Pinned
    <3>2. 0 < Chunks
      BY BoundsAssumption
    <3>. QED
      BY <1>1, <2>1, <3>1, <3>2 DEF ImageOK, source, locks, backup, Unpinned, Pinned
  <2>5. AnswerOK(s)'
    BY <1>1, <2>1, Facts DEF AnswerOK, Promise!Pending
  <2>. QED
    BY <1>1, <1>4, <2>2, <2>3, <2>4, <2>5, MovesOn DEF CallOK, CallPoints, answer
<1>. QED
  BY <1>2, <1>3, <1>4

LEMMA NextLastCheck == ASSUME IInv, NEW s \in Snapshots, LastCheck(s) PROVE IInv'
<1>1. pc[s] = "lastcheck" /\ UNCHANGED <<source, locks, bound, child, backup, told, touched, faults>>
  BY DEF LastCheck
<1>2. \/ raise(s, NotBound(s))
      \/ at = bound[s] /\ goto(s, "close") /\ code' = code
  BY DEF LastCheck, StillBound
<1>3. NotBound(s) \in Codes
  BY DEF NotBound, Codes
<1>4. CASE raise(s, NotBound(s))
  BY <1>1, <1>3, <1>4, Facts, RaisesOnly
<1>5. CASE at = bound[s] /\ goto(s, "close") /\ code' = code
  <2>1. pc'[s] = "close"
    BY <1>5, Facts DEF TypeOK, goto
  <2>2. ConnectionOK(s)'
    BY <1>1, <2>1, Facts DEF ConnectionOK, source, locks, CallPoints, Pinned, Opened
  <2>3. HeaderOK(s)'
    BY <1>1, <2>1, Facts DEF HeaderOK, HeaderOf, source, child, Unread
  <2>4. at = on[s]
    BY <1>1, <1>5, Facts DEF ConnectionOK, Opened, Pinned
  <2>5. ImageOK(s)'
    BY <1>1, <2>1, <2>4, Facts DEF ImageOK, source, locks, backup, Unpinned, Pinned
  <2>6. AnswerOK(s)'
    BY <1>1, <2>1, Facts DEF AnswerOK, Promise!Pending
  <2>. QED
    BY <1>1, <1>5, <2>2, <2>3, <2>5, <2>6, MovesOn DEF CallOK, CallPoints, answer
<1>. QED
  BY <1>2, <1>4, <1>5

LEMMA NextFail == ASSUME IInv, NEW s \in Snapshots, Fail(s) PROVE IInv'
<1>1. PICK e \in {"IO_ERROR", "TIMEOUT"} : raise(s, e)
  BY DEF Fail
<1>2. faults' \in 0 .. MaxFaults
  BY Facts, Counted DEF Fail
<1>. QED
  BY <1>1, <1>2, Facts, RaisesOnly DEF Fail, Running, Codes

LEMMA NextBind == ASSUME IInv, NEW s \in Snapshots, Bind(s) PROVE IInv'
<1>1. pc[s] = "bind" /\ UNCHANGED <<source, locks, child, backup, told, touched, faults>>
  BY DEF Bind
<1>2. \/ \E e \in {"RESOURCE_LIMIT", "NOT_FOUND"} : raise(s, e) /\ bound' = bound
      \/ SidecarError # "none" /\ raise(s, SidecarError) /\ bound' = [bound EXCEPT ![s] = at]
      \/ goto(s, "spawn") /\ code' = code /\ bound' = [bound EXCEPT ![s] = at]
  BY DEF Bind
<1>3. SidecarError # "none" => SidecarError \in Codes
  BY DEF SidecarError, Codes
<1>4. at \in Files \cup {0} /\ at <= at /\ at \in Files
  BY Facts, Numbers DEF TypeOK
<1>5. helper[s] \in {"none", "reaped"} /\ helper' = [helper EXCEPT ![s] = helper[s]]
      /\ UNCHANGED said
  BY <1>1, Facts DEF HeaderOK, child
<1>6. CASE \E e \in {"RESOURCE_LIMIT", "NOT_FOUND"} : raise(s, e) /\ bound' = bound
  BY <1>1, <1>6, Facts, RaisesOnly DEF Codes
<1>7. CASE SidecarError # "none" /\ raise(s, SidecarError) /\ bound' = [bound EXCEPT ![s] = at]
  BY <1>1, <1>3, <1>4, <1>5, <1>7, Facts, Raises
<1>8. CASE goto(s, "spawn") /\ code' = code /\ bound' = [bound EXCEPT ![s] = at]
  <2>1. pc' = [pc EXCEPT ![s] = "spawn"] /\ pc'[s] = "spawn" /\ bound'[s] = at
    BY <1>8, Facts DEF TypeOK, goto
  <2>2. Frame(s)
    BY <1>1, <1>8, <2>1, Facts DEF Frame, TypeOK, locks, child, backup, Conns
  <2>3. TypeOK'
    BY <1>1, <1>4, <1>8, <2>1, Facts DEF TypeOK, source, locks, child, backup, Points
  <2>4. ConnectionOK(s)'
    BY <1>1, <1>4, <2>1, Facts DEF ConnectionOK, source, locks, CallPoints, Pinned, Opened
  <2>5. HeaderOK(s)'
    BY <1>1, <2>1, Facts DEF HeaderOK, child, Unread
  <2>6. ImageOK(s)'
    BY <1>1, <2>1, Facts DEF ImageOK, backup, Unpinned, Pinned
  <2>7. AnswerOK(s)'
    BY <1>1, <2>1, Facts DEF AnswerOK, Promise!Pending
  <2>8. \A w \in Writers : pc[w] = "writing pages" /\ lock'[s] = "shared" => on'[s] # at
    BY <1>1 DEF IInv, ReadersOK, locks
  <2>. QED
    BY <2>2, <2>3, <2>4, <2>5, <2>6, <2>7, <2>8, CallStep DEF CallOK
<1>. QED
  BY <1>2, <1>6, <1>7, <1>8

\* What the helper of s does, and what is done with it.
LEMMA HelperMoves ==
  ASSUME IInv, NEW s \in Snapshots,
         NEW q \in CallPoints, goto(s, q),
         NEW h \in {"running", "ended", "reaped"}, helper' = [helper EXCEPT ![s] = h],
         NEW r \in Codes \cup {"nothing", "readable", "another file"}, said' = [said EXCEPT ![s] = r],
         UNCHANGED <<source, locks, bound, backup, answer, touched>>,
         faults' \in 0 .. MaxFaults,
         pc[s] \in {"spawn", "header"}, q \in {"header", "rebind"},
         q = "header" => h \in {"running", "ended"}, q = "rebind" => h = "reaped" /\ HeaderOf(bound[s]) = "readable",
         h = "ended" => r # "nothing" /\ (r = "readable" => HeaderOf(bound[s]) = "readable")
  PROVE  IInv'
<1>1. pc' = [pc EXCEPT ![s] = q] /\ pc'[s] = q /\ helper'[s] = h /\ said'[s] = r
  BY Facts DEF TypeOK, goto
<1>2. Frame(s)
  BY <1>1, Facts DEF Frame, TypeOK, locks, backup, answer, Conns
<1>3. TypeOK'
  <2>1. pc' \in [Conns -> Points]
    BY <1>1, Facts DEF TypeOK, Points, CallPoints
  <2>2. helper' \in [Snapshots -> {"none", "running", "ended", "reaped"}]
    BY Facts DEF TypeOK
  <2>3. said' \in [Snapshots -> Codes \cup {"nothing", "readable", "another file"}]
    BY Facts DEF TypeOK
  <2>. QED
    BY <2>1, <2>2, <2>3, Facts DEF TypeOK, source, locks, backup, answer
<1>4. ConnectionOK(s)'
  BY <1>1, Facts DEF ConnectionOK, source, locks, CallPoints, Pinned, Opened
<1>5. HeaderOK(s)'
  BY <1>1 DEF HeaderOK, HeaderOf, Unread
<1>6. ImageOK(s)'
  BY <1>1, Facts DEF ImageOK, backup, Unpinned, Pinned
<1>7. AnswerOK(s)'
  BY <1>1, Facts DEF AnswerOK, answer, Promise!Pending
<1>8. \A w \in Writers : pc[w] = "writing pages" /\ lock'[s] = "shared" => on'[s] # at
  BY DEF IInv, ReadersOK, locks
<1>. QED
  BY <1>2, <1>3, <1>4, <1>5, <1>6, <1>7, <1>8, CallStep DEF CallOK

LEMMA NextHelper ==
  ASSUME IInv, NEW s \in Snapshots,
         Spawn(s) \/ HelperReads(s) \/ HelperFails(s) \/ ReadHeader(s) \/ HeaderTimeout(s)
  PROVE  IInv'
<1>1. pc = [pc EXCEPT ![s] = pc[s]] /\ said = [said EXCEPT ![s] = said[s]]
      /\ said[s] \in Codes \cup {"nothing", "readable", "another file"}
  BY Facts DEF TypeOK
<1>2. CASE Spawn(s)
  BY <1>1, <1>2, Facts, HelperMoves DEF Spawn, CallPoints
<1>3. ASSUME helper[s] = "running" PROVE pc[s] = "header"
  BY <1>3, Facts DEF HeaderOK
<1>4. CASE HelperReads(s)
  <2>1. helper[s] = "running" /\ pc[s] = "header"
    BY <1>3, <1>4 DEF HelperReads
  <2> DEFINE r == IF HeaderOf(at) = "readable" /\ at # bound[s] THEN "another file" ELSE HeaderOf(at)
  <2>2. r \in Codes \cup {"readable", "another file"}
    BY DEF HeaderOf, Codes
  <2>3. r # "nothing" /\ (r = "readable" => HeaderOf(bound[s]) = "readable")
    BY <2>2 DEF Codes
  <2>4. goto(s, "header") /\ said' = [said EXCEPT ![s] = r]
    BY <1>1, <1>4, <2>1 DEF HelperReads, goto
  <2>5. /\ helper' = [helper EXCEPT ![s] = "ended"] /\ faults' = faults
        /\ UNCHANGED <<source, locks, bound, backup, answer, touched>>
    BY <1>4 DEF HelperReads
  <2> HIDE DEF r
  <2>. QED
    BY <2>1, <2>2, <2>3, <2>4, <2>5, Facts, HelperMoves DEF CallPoints
<1>5. CASE HelperFails(s)
  <2>1. helper[s] = "running" /\ pc[s] = "header"
    BY <1>3, <1>5 DEF HelperFails
  <2>2. goto(s, "header")
    BY <1>1, <1>5, <2>1 DEF HelperFails, goto
  <2>3. faults' \in 0 .. MaxFaults
    BY <1>5, Facts, Counted DEF HelperFails
  <2>. QED
    BY <1>5, <2>1, <2>2, <2>3, HelperMoves DEF HelperFails, CallPoints, Codes
<1>6. CASE ReadHeader(s)
  <2>1. pc[s] = "header" /\ helper[s] = "ended" /\ helper' = [helper EXCEPT ![s] = "reaped"]
        /\ UNCHANGED <<source, locks, bound, said, backup, told, touched, faults>>
    BY <1>6 DEF ReadHeader
  <2>2. \/ said[s] = "readable" /\ goto(s, "rebind") /\ code' = code
        \/ said[s] # "readable" /\ raise(s, IF said[s] = "another file" THEN "IO_ERROR" ELSE said[s])
    BY <1>6 DEF ReadHeader
  <2>3. CASE said[s] = "readable" /\ goto(s, "rebind") /\ code' = code
    <3>1. HeaderOf(bound[s]) = "readable"
      BY <2>1, <2>3, Facts DEF HeaderOK
    <3>. QED
      BY <1>1, <2>1, <2>3, <3>1, Facts, HelperMoves DEF CallPoints, answer
  <2>4. CASE said[s] # "readable" /\ raise(s, IF said[s] = "another file" THEN "IO_ERROR" ELSE said[s])
    <3> DEFINE e == IF said[s] = "another file" THEN "IO_ERROR" ELSE said[s]
    <3>1. e \in Codes
      BY <1>1, <2>1, <2>4, Facts DEF HeaderOK, Codes
    <3>2. raise(s, e)
      BY <2>4
    <3>. QED
      BY <2>1, <3>1, <3>2, Facts, Raises
  <2>. QED
    BY <2>2, <2>3, <2>4
<1>7. CASE HeaderTimeout(s)
  BY <1>7, Facts, Raises DEF HeaderTimeout, Codes
<1>. QED
  BY <1>2, <1>4, <1>5, <1>6, <1>7

LEMMA NextConnect == ASSUME IInv, NEW s \in Snapshots, Connect(s) PROVE IInv'
<1>1. pc[s] = "connect" /\ UNCHANGED <<source, lock, bound, child, backup, told, touched, faults>>
  BY DEF Connect
<1>2. \/ raise(s, "IO_ERROR") /\ on' = on
      \/ goto(s, "connected") /\ code' = code /\ on' = [on EXCEPT ![s] = at]
  BY DEF Connect
<1>3. CASE raise(s, "IO_ERROR") /\ on' = on
  BY <1>1, <1>3, Facts, RaisesOnly DEF Codes, locks
<1>4. CASE goto(s, "connected") /\ code' = code /\ on' = [on EXCEPT ![s] = at]
  <2>1. pc' = [pc EXCEPT ![s] = "connected"] /\ pc'[s] = "connected" /\ on'[s] = at
    BY <1>4, Facts DEF TypeOK, goto
  <2>2. Frame(s)
    BY <1>1, <1>4, <2>1, Facts DEF Frame, TypeOK, child, backup, Conns
  <2>3. at \in Files
    BY Facts DEF TypeOK
  <2>4. TypeOK'
    BY <1>1, <1>4, <2>1, <2>3, Facts DEF TypeOK, source, child, backup, Points
  <2>5. at <= at
    BY <2>3, Numbers
  <2>6. ConnectionOK(s)'
    BY <1>1, <2>1, <2>3, <2>5, Facts DEF ConnectionOK, source, CallPoints, Pinned, Opened
  <2>7. HeaderOK(s)'
    BY <1>1, <2>1, Facts DEF HeaderOK, HeaderOf, source, child, Unread
  <2>8. ImageOK(s)'
    BY <1>1, <2>1, Facts DEF ImageOK, backup, Unpinned, Pinned
  <2>9. AnswerOK(s)'
    BY <1>1, <2>1, Facts DEF AnswerOK, Promise!Pending
  <2>10. lock'[s] # "shared"
    BY <1>1, Facts DEF ConnectionOK, Pinned
  <2>. QED
    BY <2>2, <2>4, <2>6, <2>7, <2>8, <2>9, <2>10, CallStep DEF CallOK
<1>. QED
  BY <1>2, <1>3, <1>4

\* Beside no hot journal and no writer of pages, a file that is still at the
\* path has pages of its commits only.
LEMMA BeginIsClean ==
  ASSUME IInv, NEW f \in Files, f = at, Holders(f, {"pending", "exclusive"}) = {}, ~Hot(f)
  PROVE  ~dirty[f]
<1> SUFFICES ASSUME dirty[f] PROVE FALSE
  OBVIOUS
<1>1. beside = "journal"
  BY BoundsAssumption DEF IInv, SourceOK, Files
<1>2. PICK x \in Conns : on[x] = f /\ lock[x] \in Writing
  BY <1>1 DEF Hot, Holders
<1>3. x \in Writers
  BY <1>2 DEF IInv, ConnectionOK, Writing, Conns
<1>4. WriterOK(x)
  BY <1>3 DEF IInv
<1>5. lock[x] \notin {"pending", "exclusive"}
  BY <1>2 DEF Holders
<1>6. pc[x] = "writing"
  BY <1>2, <1>4, <1>5 DEF WriterOK, WriterPoints, Writing
<1>. QED
  BY <1>4, <1>6 DEF WriterOK

LEMMA NextBegin == ASSUME IInv, NEW s \in Snapshots, Begin(s) PROVE IInv'
<1>1. pc[s] = "begin" /\ UNCHANGED <<source, on, bound, child, copied, chunk, told, faults>>
  BY DEF Begin
<1>2. touched' \subseteq Snapshots
  BY Facts DEF Begin
<1>3. \/ \E e \in {"BUSY", "INTEGRITY_FAILURE"} : raise(s, e) /\ UNCHANGED <<lock, t0>>
      \/ /\ Holders(on[s], {"pending", "exclusive"}) = {} /\ ~Hot(on[s])
         /\ lock' = [lock EXCEPT ![s] = "shared"]
         /\ t0' = [t0 EXCEPT ![s] = [file |-> on[s], commits |-> content[on[s]]]]
         /\ goto(s, "format") /\ code' = code
  BY DEF Begin
<1>4. CASE \E e \in {"BUSY", "INTEGRITY_FAILURE"} : raise(s, e) /\ UNCHANGED <<lock, t0>>
  BY <1>1, <1>2, <1>4, Facts, RaisesOnly DEF Codes, locks, backup
<1>5. CASE /\ Holders(on[s], {"pending", "exclusive"}) = {} /\ ~Hot(on[s])
           /\ lock' = [lock EXCEPT ![s] = "shared"]
           /\ t0' = [t0 EXCEPT ![s] = [file |-> on[s], commits |-> content[on[s]]]]
           /\ goto(s, "format") /\ code' = code
  <2>1. pc' = [pc EXCEPT ![s] = "format"] /\ pc'[s] = "format" /\ lock'[s] = "shared"
        /\ t0'[s] = [file |-> on[s], commits |-> content[on[s]]]
    BY <1>5, Facts DEF TypeOK, goto
  <2>2. Frame(s)
    BY <1>1, <1>5, <2>1, Facts DEF Frame, TypeOK, child, Conns
  <2>3. on[s] \in Files /\ on[s] = bound[s]
    BY <1>1, Facts DEF ConnectionOK, Opened
  <2>4. content[on[s]] \in Nat
    <3>1. content[on[s]] \in 0 .. MaxCommits
      BY <2>3, Facts DEF TypeOK
    <3>. QED
      BY <3>1, BoundsAssumption
  <2>5. TypeOK'
    <3>1. [file |-> on[s], commits |-> content[on[s]]] \in Promise!Image
      BY <2>3, <2>4 DEF Promise!Image
    <3>2. t0' \in [Snapshots -> Promise!Image \cup {NoImage}]
      BY <1>5, <3>1, Facts DEF TypeOK
    <3>3. pc' \in [Conns -> Points] /\ lock' \in [Conns -> Writing \cup {"none", "shared"}]
      BY <1>5, <2>1, Facts DEF TypeOK, Points
    <3>. QED
      BY <1>1, <1>2, <1>5, <3>2, <3>3, Facts DEF TypeOK, source, child
  <2>6. ConnectionOK(s)'
    BY <1>1, <2>1, Facts DEF ConnectionOK, source, CallPoints, Pinned, Opened
  <2>7. HeaderOK(s)'
    BY <1>1, <2>1, Facts DEF HeaderOK, HeaderOf, source, child, Unread
  <2>8. dirty[on[s]] => at # on[s]
    BY <1>5, <2>3, BeginIsClean
  <2>9. ImageOK(s)'
    BY <1>1, <2>1, <2>8, Facts DEF ImageOK, source, Unpinned, Pinned
  <2>10. AnswerOK(s)'
    BY <1>1, <2>1, Facts DEF AnswerOK, Promise!Pending
  <2>11. ASSUME NEW w \in Writers, pc[w] = "writing pages" PROVE on'[s] # at
    <3>1. lock[w] = "exclusive" /\ on[w] = at /\ w \in Conns
      BY <2>11 DEF IInv, WriterOK, Conns
    <3>2. on[w] # on[s]
      BY <1>5, <3>1 DEF Holders
    <3>. QED
      BY <1>1, <3>1, <3>2
  <2>. QED
    BY <2>2, <2>5, <2>6, <2>7, <2>9, <2>10, <2>11, CallStep DEF CallOK
<1>. QED
  BY <1>3, <1>4, <1>5

LEMMA NextCopyChunk == ASSUME IInv, NEW s \in Snapshots, CopyChunk(s) PROVE IInv'
<1> DEFINE v == IF dirty[on[s]] THEN Torn ELSE content[on[s]]
           q == IF chunk[s] + 1 = Chunks THEN "lastcheck" ELSE "copy"
<1>1. /\ pc[s] = "copy" /\ pc' = [pc EXCEPT ![s] = q]
      /\ copied' = [copied EXCEPT ![s] = copied[s] \cup {v}]
      /\ chunk' = [chunk EXCEPT ![s] = chunk[s] + 1]
      /\ UNCHANGED <<source, locks, bound, child, t0, answer, touched, faults>>
  BY DEF CopyChunk, goto
<1>2. pc'[s] = q /\ copied'[s] = copied[s] \cup {v} /\ chunk'[s] = chunk[s] + 1
  BY <1>1, Facts DEF TypeOK
<1>3. q \in {"copy", "lastcheck"}
  OBVIOUS
<1>4. on[s] \in Files /\ on[s] = bound[s]
  BY <1>1, Facts DEF ConnectionOK, Opened, Pinned
<1>5. chunk[s] \in 0 .. Chunks /\ chunk[s] < Chunks /\ Chunks \in Nat
  BY <1>1, Facts, BoundsAssumption DEF TypeOK, ImageOK
<1>6. v \in 0 .. Torn
  <2>1. content[on[s]] \in 0 .. MaxCommits
    BY <1>4, Facts DEF TypeOK
  <2>. QED
    BY <2>1, BoundsAssumption DEF Torn
<1>7. Frame(s)
  BY <1>1, Facts DEF Frame, TypeOK, locks, child, answer, Conns
<1>8. TypeOK'
  <2>1. pc' \in [Conns -> Points]
    BY <1>1, <1>3, Facts DEF TypeOK, Points
  <2>2. copied[s] \cup {v} \in SUBSET (0 .. Torn)
    BY <1>6, Facts DEF TypeOK
  <2>3. copied' \in [Snapshots -> SUBSET (0 .. Torn)]
    BY <1>1, <2>2, Facts DEF TypeOK
  <2>4. chunk[s] + 1 \in 0 .. Chunks
    BY <1>5
  <2>5. chunk' \in [Snapshots -> 0 .. Chunks]
    BY <1>1, <2>4, Facts DEF TypeOK
  <2>. QED
    BY <1>1, <2>1, <2>3, <2>5, Facts DEF TypeOK, source, locks, child, answer
<1>9. ConnectionOK(s)'
  BY <1>1, <1>2, <1>3, Facts DEF ConnectionOK, source, locks, CallPoints, Pinned, Opened
<1>10. HeaderOK(s)'
  BY <1>1, <1>2, <1>3, Facts DEF HeaderOK, HeaderOf, source, child, Unread
<1>11. ImageOK(s)'
  <2>1. t0[s] = [file |-> on[s], commits |-> content[on[s]]] /\ (dirty[on[s]] => at # on[s])
    BY <1>1, Facts DEF ImageOK, Pinned
  <2>2. at = on[s] => copied'[s] \subseteq {content[on[s]]}
    BY <1>1, <1>2, <2>1, Facts DEF ImageOK
  <2>3. q = "copy" => chunk'[s] < Chunks
    BY <1>2, <1>5
  <2> HIDE DEF q, v
  <2>. QED
    BY <1>1, <1>2, <1>3, <2>1, <2>2, <2>3 DEF ImageOK, source, locks, Unpinned, Pinned
<1>12. AnswerOK(s)'
  BY <1>1, <1>2, <1>3, Facts DEF AnswerOK, answer, Promise!Pending
<1>13. \A w \in Writers : pc[w] = "writing pages" /\ lock'[s] = "shared" => on'[s] # at
  BY <1>1 DEF IInv, ReadersOK, locks
<1>. QED
  BY <1>7, <1>8, <1>9, <1>10, <1>11, <1>12, <1>13, CallStep DEF CallOK

LEMMA NextCloseSource == ASSUME IInv, NEW s \in Snapshots, CloseSource(s) PROVE IInv'
<1>1. /\ pc[s] = "close" /\ pc' = [pc EXCEPT ![s] = "validate"]
      /\ lock' = [lock EXCEPT ![s] = "none"] /\ on' = [on EXCEPT ![s] = 0]
      /\ UNCHANGED <<source, bound, child, backup, answer, touched, faults>>
  BY DEF CloseSource, goto
<1>2. pc'[s] = "validate" /\ lock'[s] = "none" /\ on'[s] = 0
  BY <1>1, Facts DEF TypeOK
<1>3. Frame(s)
  BY <1>1, Facts DEF Frame, TypeOK, child, backup, answer, Conns
<1>4. TypeOK'
  BY <1>1, Facts DEF TypeOK, source, child, backup, answer, Points
<1>5. 0 <= at
  BY Facts, Numbers DEF TypeOK
<1>6. ConnectionOK(s)'
  BY <1>1, <1>2, <1>5, Facts DEF ConnectionOK, source, CallPoints, Pinned, Opened
<1>7. HeaderOK(s)'
  BY <1>1, <1>2, Facts DEF HeaderOK, HeaderOf, source, child, Unread
<1>8. ImageOK(s)'
  <2>1. on[s] = bound[s]
    BY <1>1, Facts DEF ConnectionOK, Opened, Pinned
  <2>2. t0[s] = [file |-> bound[s], commits |-> content[on[s]]] /\ copied[s] \subseteq {content[on[s]]}
    BY <1>1, <2>1, Facts DEF ImageOK, Pinned
  <2>. QED
    BY <1>1, <1>2, <2>2 DEF ImageOK, backup, Unpinned, Pinned
<1>9. AnswerOK(s)'
  BY <1>1, <1>2, Facts DEF AnswerOK, answer, Promise!Pending
<1>. QED
  BY <1>2, <1>3, <1>4, <1>6, <1>7, <1>8, <1>9, CallStep DEF CallOK

\* A copy that passes validation is the image of T0.
LEMMA ValidatedImage ==
  ASSUME IInv, NEW s \in Snapshots, pc[s] = "validate", NEW v \in copied[s]
  PROVE  [file |-> bound[s], commits |-> v] = t0[s] /\ t0[s] \in Promise!Image
<1>1. v = t0[s].commits /\ t0[s] = [file |-> bound[s], commits |-> t0[s].commits]
  BY Facts DEF ImageOK
<1>2. bound[s] \in Files
  BY Facts DEF ConnectionOK
<1>3. v \in 0 .. Torn
  BY Facts DEF TypeOK
<1>4. v \in Nat
  BY <1>3, BoundsAssumption DEF Torn
<1>. QED
  BY <1>1, <1>2, <1>4 DEF Promise!Image

\* The end of a call: connections closed, helper gone, an answer told.
LEMMA Ends ==
  ASSUME IInv, NEW s \in Snapshots, goto(s, "done"),
         pc[s] \in {"validate", "cleanup"},
         NEW r \in Promise!Replies, told' = [told EXCEPT ![s] = r],
         on' = [on EXCEPT ![s] = 0], lock' = [lock EXCEPT ![s] = "none"],
         UNCHANGED <<source, bound, child, backup, code, touched, faults>>
  PROVE  IInv'
<1>1. pc' = [pc EXCEPT ![s] = "done"] /\ pc'[s] = "done" /\ on'[s] = 0 /\ lock'[s] = "none"
  BY Facts DEF TypeOK, goto
<1>2. Frame(s)
  BY <1>1, Facts DEF Frame, TypeOK, child, backup, Conns
<1>3. TypeOK'
  <2>1. told' \in [Snapshots -> Promise!Replies]
    BY Facts DEF TypeOK
  <2>2. /\ pc' \in [Conns -> Points] /\ on' \in [Conns -> Files \cup {0}]
        /\ lock' \in [Conns -> Writing \cup {"none", "shared"}]
    BY <1>1, Facts DEF TypeOK, Points
  <2>. QED
    BY <2>1, <2>2, Facts DEF TypeOK, source, child, backup
<1>4. 0 <= at
  BY Facts, Numbers DEF TypeOK
<1>5. ConnectionOK(s)'
  BY <1>1, <1>4, Facts DEF ConnectionOK, source, CallPoints, Pinned, Opened
<1>6. HeaderOK(s)'
  BY <1>1, Facts DEF HeaderOK, HeaderOf, source, child, Unread
<1>7. ImageOK(s)' /\ AnswerOK(s)'
  BY <1>1 DEF ImageOK, AnswerOK, Unpinned, Pinned
<1>. QED
  BY <1>1, <1>2, <1>3, <1>5, <1>6, <1>7, CallStep DEF CallOK

LEMMA NextValidate == ASSUME IInv, NEW s \in Snapshots, Validate(s) PROVE IInv'
<1>1. pc[s] = "validate" /\ UNCHANGED <<source, locks, bound, child, backup, touched, faults>>
  BY DEF Validate
<1>2. CASE raise(s, "INTEGRITY_FAILURE") /\ told' = told
  BY <1>1, <1>2, Facts, RaisesOnly DEF Codes
<1>3. CASE \E v \in copied[s] :
             /\ told' = [told EXCEPT ![s] = [code |-> "OK", image |-> [file |-> bound[s], commits |-> v]]]
             /\ goto(s, "done") /\ code' = code
  <2>1. PICK v \in copied[s] :
             /\ told' = [told EXCEPT ![s] = [code |-> "OK", image |-> [file |-> bound[s], commits |-> v]]]
             /\ goto(s, "done") /\ code' = code
    BY <1>3
  <2>2. [file |-> bound[s], commits |-> v] \in Promise!Image
    BY <1>1, ValidatedImage
  <2>3. [code |-> "OK", image |-> [file |-> bound[s], commits |-> v]] \in Promise!Replies
    BY <2>2 DEF Promise!Replies
  <2>4. on[s] = 0 /\ lock[s] = "none"
    BY <1>1, Facts DEF ConnectionOK, Opened, Pinned
  <2>5. on' = [on EXCEPT ![s] = 0] /\ lock' = [lock EXCEPT ![s] = "none"]
    BY <1>1, <2>4, Facts DEF locks, TypeOK
  <2>. QED
    BY <1>1, <2>1, <2>3, <2>5, Ends
<1>. QED
  BY <1>2, <1>3 DEF Validate

LEMMA NextCleanUp == ASSUME IInv, NEW s \in Snapshots, CleanUp(s) PROVE IInv'
<1>1. code[s] \in Codes
  BY Facts DEF CleanUp, AnswerOK, TypeOK
<1>2. [code |-> code[s], image |-> NoImage] \in Promise!Replies
  BY <1>1 DEF Promise!Replies, Promise!Failures
<1>. QED
  BY <1>2, Ends DEF CleanUp
-----------------------------------------------------------------------------
(* The steps of the handles that write.                                    *)

\* What a step of w leaves alone.
WriterFrame(w) ==
  /\ at' = at
  /\ \A x \in Conns \ {w} : pc'[x] = pc[x] /\ on'[x] = on[x] /\ lock'[x] = lock[x]
  /\ \A f \in Files \ {at} : content'[f] = content[f] /\ dirty'[f] = dirty[f]
  /\ UNCHANGED <<bound, child, backup, answer, touched, faults>>

\* A handle's step keeps the invariant if it keeps what that says of the
\* handle and of the file at the path, and no reader's pages change.
LEMMA WriterStep ==
  ASSUME IInv, NEW w \in Writers, WriterFrame(w), TypeOK', WriterOK(w)',
         beside' \notin {"wal", "odd"},
         \A v \in Writers \ {w} : pc[v] = "idle",
         dirty'[at] => beside' = "journal",
         \A s \in Snapshots : lock[s] = "shared" /\ on[s] = at =>
           /\ content'[at] = content[at] /\ (dirty'[at] => dirty[at])
           /\ pc'[w] # "writing pages"
  PROVE  IInv'
<1>1. \A v \in Writers \ {w} : v \in Conns \ {w}
  BY DEF Conns
<1>2. ASSUME NEW v \in Writers PROVE WriterOK(v)'
  <2>1. CASE v = w
    BY <2>1
  <2>2. CASE v # w
    <3>1. pc'[v] = "idle" /\ on'[v] = on[v] /\ lock'[v] = lock[v] /\ WriterOK(v) /\ pc[v] = "idle"
      BY <1>1, <2>2 DEF IInv, WriterFrame
    <3>. QED
      BY <3>1 DEF WriterOK
  <2>. QED
    BY <2>1, <2>2
<1>3. Alone'
  <2>1. \A v \in Writers : v # w => pc'[v] = "idle"
    BY <1>1 DEF WriterFrame
  <2>. QED
    BY <2>1 DEF Alone
<1>4. at \in Files /\ at' = at
  BY DEF IInv, TypeOK, WriterFrame
<1>5. SourceOK'
  <2> SUFFICES ASSUME NEW f \in Files, dirty'[f] PROVE f < at \/ (f = at /\ beside' = "journal")
    BY <1>4 DEF SourceOK
  <2>1. CASE f = at
    BY <2>1
  <2>2. CASE f # at
    BY <2>2 DEF IInv, SourceOK, WriterFrame
  <2>. QED
    BY <2>1, <2>2
<1>6. ASSUME NEW s \in Snapshots
      PROVE  /\ s \in Conns \ {w} /\ pc'[s] = pc[s] /\ on'[s] = on[s] /\ lock'[s] = lock[s]
             /\ bound' = bound /\ helper' = helper /\ said' = said /\ copied' = copied
             /\ chunk' = chunk /\ t0' = t0 /\ code' = code /\ told' = told
             /\ ConnectionOK(s) /\ HeaderOK(s) /\ ImageOK(s) /\ AnswerOK(s)
  BY CallsAssumption DEF IInv, WriterFrame, Conns, child, backup, answer
<1>7. ReadersOK'
  <2> SUFFICES ASSUME NEW v \in Writers, NEW s \in Snapshots,
                      pc'[v] = "writing pages", lock'[s] = "shared"
               PROVE  on'[s] # at'
    BY DEF ReadersOK
  <2>1. v = w
    BY <1>1 DEF WriterFrame
  <2>. QED
    BY <1>4, <1>6, <2>1
<1>8. ASSUME NEW s \in Snapshots PROVE CallOK(s)'
  <2>a. /\ pc'[s] = pc[s] /\ on'[s] = on[s] /\ lock'[s] = lock[s] /\ at' = at
        /\ bound'[s] = bound[s] /\ helper'[s] = helper[s] /\ said'[s] = said[s]
        /\ copied'[s] = copied[s] /\ chunk'[s] = chunk[s] /\ t0'[s] = t0[s]
        /\ code'[s] = code[s] /\ told'[s] = told[s]
    BY <1>4, <1>6
  <2>b. ConnectionOK(s) /\ HeaderOK(s) /\ ImageOK(s) /\ AnswerOK(s)
    BY <1>6
  <2>1. ConnectionOK(s)'
    BY <2>a, <2>b DEF ConnectionOK
  <2>2. HeaderOK(s)'
    BY <2>a, <2>b DEF HeaderOK, HeaderOf
  <2>3. AnswerOK(s)'
    BY <2>a, <2>b DEF AnswerOK, Promise!Pending
  <2>4. ImageOK(s)'
    <3>1. CASE pc[s] \notin Pinned
      BY <2>a, <2>b, <3>1 DEF ImageOK, Pinned
    <3>2. CASE pc[s] \in Pinned
      <4>1. lock[s] = "shared" /\ on[s] \in Files
        BY <2>b, <3>2 DEF ConnectionOK, Pinned, Opened
      <4>2. content'[on[s]] = content[on[s]] /\ (dirty'[on[s]] => dirty[on[s]])
        BY <4>1 DEF WriterFrame
      <4>3. t0[s] = [file |-> on[s], commits |-> content[on[s]]] /\ (dirty[on[s]] => at # on[s])
        BY <2>b, <3>2 DEF ImageOK
      <4>4. pc[s] \notin Unpinned /\ pc[s] # "validate"
        BY <3>2 DEF Pinned, Unpinned
      <4>5. content'[on'[s]] = content[on[s]]
        BY <2>a, <4>2
      <4>6. t0'[s] = [file |-> on'[s], commits |-> content'[on'[s]]]
        BY <2>a, <4>3, <4>5
      <4>7. dirty'[on'[s]] => at' # on'[s]
        BY <2>a, <4>2, <4>3
      <4>8. /\ pc'[s] = "format" => copied'[s] = {} /\ chunk'[s] = 0
            /\ pc'[s] = "copy" => chunk'[s] < Chunks
            /\ pc'[s] \in {"copy", "lastcheck"} /\ at' = on'[s] => copied'[s] \subseteq {content'[on'[s]]}
            /\ pc'[s] = "close" => copied'[s] \subseteq {content'[on'[s]]}
        BY <2>a, <2>b, <4>5 DEF ImageOK
      <4>9. pc'[s] \notin Unpinned /\ pc'[s] # "validate"
        BY <2>a, <4>4
      <4>. QED
        BY <4>6, <4>7, <4>8, <4>9 DEF ImageOK
    <3>. QED
      BY <3>1, <3>2
  <2>. QED
    BY <2>1, <2>2, <2>3, <2>4 DEF CallOK
<1>. QED
  BY <1>2, <1>3, <1>5, <1>7, <1>8 DEF IInv, CallOK

\* What is true of w, said once for each action.
LEMMA WriterFacts ==
  ASSUME IInv, NEW w \in Writers
  PROVE  /\ TypeOK /\ WriterOK(w) /\ w \in Conns /\ at \in Files
         /\ faults \in 0 .. MaxFaults
  BY DEF IInv, TypeOK, Conns

\* While w is in a transaction all others are idle.
LEMMA OthersIdle ==
  ASSUME IInv, NEW w \in Writers, pc[w] # "idle"
  PROVE  (\A v \in Writers \ {w} : pc[v] = "idle") /\ on[w] = at
  BY DEF IInv, Alone, WriterOK

LEMMA NextStartWriting == ASSUME IInv, NEW w \in Writers, StartWriting(w) PROVE IInv'
<1>1. /\ on' = [on EXCEPT ![w] = at] /\ lock' = [lock EXCEPT ![w] = "reserved"]
      /\ dirty' = [dirty EXCEPT ![at] = FALSE] /\ beside' = "journal"
      /\ pc' = [pc EXCEPT ![w] = "writing"]
      /\ UNCHANGED <<at, content, bound, child, backup, answer, touched, faults>>
  BY DEF StartWriting, goto
<1>2. /\ on'[w] = at /\ lock'[w] = "reserved" /\ pc'[w] = "writing" /\ ~dirty'[at]
  BY <1>1, WriterFacts DEF TypeOK
<1>3. WriterFrame(w)
  BY <1>1, WriterFacts DEF WriterFrame, TypeOK
<1>4. TypeOK'
  <2>1. /\ on' \in [Conns -> Files \cup {0}] /\ dirty' \in [Files -> BOOLEAN]
        /\ lock' \in [Conns -> Writing \cup {"none", "shared"}] /\ pc' \in [Conns -> Points]
    BY <1>1, WriterFacts DEF TypeOK, Writing, Points
  <2>. QED
    BY <1>1, <2>1, WriterFacts DEF TypeOK, child, backup, answer
<1>5. WriterOK(w)'
  BY <1>1, <1>2 DEF WriterOK, WriterPoints, Writing
<1>6. \A v \in Writers \ {w} : pc[v] = "idle"
  <2> SUFFICES ASSUME NEW v \in Writers, pc[v] # "idle" PROVE FALSE
    OBVIOUS
  <2>1. on[v] = at /\ lock[v] \in Writing /\ v \in Conns
    BY DEF IInv, WriterOK, Conns
  <2>. QED
    BY <2>1 DEF StartWriting, Holders
<1>. QED
  BY <1>1, <1>2, <1>3, <1>4, <1>5, <1>6, WriterStep

LEMMA NextStartCommit == ASSUME IInv, NEW w \in Writers, StartCommit(w) PROVE IInv'
<1>1. /\ pc[w] = "writing" /\ lock' = [lock EXCEPT ![w] = "pending"]
      /\ pc' = [pc EXCEPT ![w] = "committing"]
      /\ UNCHANGED <<source, on, bound, child, backup, answer, touched, faults>>
  BY DEF StartCommit, goto
<1>2. lock'[w] = "pending" /\ pc'[w] = "committing"
  BY <1>1, WriterFacts DEF TypeOK
<1>3. WriterFrame(w)
  BY <1>1, WriterFacts DEF WriterFrame, TypeOK, source
<1>4. TypeOK'
  BY <1>1, WriterFacts DEF TypeOK, source, child, backup, answer, Points, Writing
<1>5. on[w] = at /\ beside = "journal" /\ ~dirty[at]
  BY <1>1, WriterFacts DEF WriterOK
<1>6. WriterOK(w)'
  BY <1>1, <1>2, <1>5 DEF WriterOK, WriterPoints, Writing, source
<1>7. \A v \in Writers \ {w} : pc[v] = "idle"
  BY <1>1, OthersIdle
<1>8. content' = content /\ dirty' = dirty /\ beside' = beside
  BY <1>1 DEF source
<1>. QED
  BY <1>2, <1>3, <1>4, <1>5, <1>6, <1>7, <1>8, WriterStep

LEMMA NextWritePages == ASSUME IInv, NEW w \in Writers, WritePages(w) PROVE IInv'
<1>1. /\ pc[w] = "committing" /\ lock' = [lock EXCEPT ![w] = "exclusive"]
      /\ dirty' = [dirty EXCEPT ![on[w]] = TRUE]
      /\ pc' = [pc EXCEPT ![w] = "writing pages"]
      /\ UNCHANGED <<at, beside, content, on, bound, child, backup, answer, touched, faults>>
  BY DEF WritePages, goto
<1>2. on[w] = at /\ beside = "journal" /\ (\A v \in Writers \ {w} : pc[v] = "idle")
  BY <1>1, WriterFacts, OthersIdle DEF WriterOK
<1>3. lock'[w] = "exclusive" /\ pc'[w] = "writing pages"
  BY <1>1, WriterFacts DEF TypeOK
<1>4. WriterFrame(w)
  BY <1>1, <1>2, WriterFacts DEF WriterFrame, TypeOK
<1>5. TypeOK'
  <2>1. dirty' \in [Files -> BOOLEAN] /\ pc' \in [Conns -> Points]
        /\ lock' \in [Conns -> Writing \cup {"none", "shared"}]
    BY <1>1, <1>2, WriterFacts DEF TypeOK, Writing, Points
  <2>. QED
    BY <1>1, <2>1, WriterFacts DEF TypeOK, child, backup, answer
<1>6. WriterOK(w)'
  BY <1>1, <1>2, <1>3 DEF WriterOK, WriterPoints, Writing
<1>7. \A s \in Snapshots : ~(lock[s] = "shared" /\ on[s] = at)
  BY <1>2 DEF WritePages, Holders, Conns
<1>. QED
  BY <1>1, <1>2, <1>4, <1>5, <1>6, <1>7, WriterStep

LEMMA NextEndWriting ==
  ASSUME IInv, NEW w \in Writers, FinishCommit(w) \/ RollBack(w)
  PROVE  IInv'
<1>1. pc[w] \in {"writing", "committing", "writing pages"}
  BY DEF FinishCommit, RollBack
<1>2. on[w] = at /\ at \in Files /\ (\A v \in Writers \ {w} : pc[v] = "idle")
  BY <1>1, WriterFacts, OthersIdle
<1>3. /\ dirty' = [dirty EXCEPT ![at] = FALSE] /\ beside' = "none"
      /\ on' = [on EXCEPT ![w] = 0] /\ lock' = [lock EXCEPT ![w] = "none"]
      /\ pc' = [pc EXCEPT ![w] = "idle"]
      /\ UNCHANGED <<at, bound, child, backup, answer, touched, faults>>
  BY <1>2 DEF FinishCommit, RollBack, EndWriting, goto
<1>4. \/ content' = content
      \/ /\ pc[w] = "writing pages" /\ content[at] < MaxCommits
         /\ content' = [content EXCEPT ![at] = content[at] + 1]
  BY <1>2 DEF FinishCommit, RollBack
<1>5. content' \in [Files -> 0 .. MaxCommits]
  <2>1. content[at] \in 0 .. MaxCommits /\ content \in [Files -> 0 .. MaxCommits]
    BY WriterFacts DEF TypeOK
  <2>2. content[at] < MaxCommits => content[at] + 1 \in 0 .. MaxCommits
    BY <2>1, BoundsAssumption
  <2>. QED
    BY <1>4, <2>1, <2>2
<1>6. on'[w] = 0 /\ lock'[w] = "none" /\ pc'[w] = "idle" /\ ~dirty'[at]
  BY <1>3, WriterFacts DEF TypeOK
<1>7. WriterFrame(w)
  <2>1. \A f \in Files \ {at} : content'[f] = content[f]
    BY <1>4, WriterFacts DEF TypeOK
  <2>2. \A f \in Files \ {at} : dirty'[f] = dirty[f]
    BY <1>3, WriterFacts DEF TypeOK
  <2>3. \A x \in Conns \ {w} : pc'[x] = pc[x] /\ on'[x] = on[x] /\ lock'[x] = lock[x]
    BY <1>3, WriterFacts DEF TypeOK
  <2>. QED
    BY <1>3, <2>1, <2>2, <2>3 DEF WriterFrame
<1>8. TypeOK'
  <2>1. dirty' \in [Files -> BOOLEAN] /\ on' \in [Conns -> Files \cup {0}]
    BY <1>3, WriterFacts DEF TypeOK
  <2>2. pc' \in [Conns -> Points] /\ lock' \in [Conns -> Writing \cup {"none", "shared"}]
    BY <1>3, WriterFacts DEF TypeOK, Points
  <2>. QED
    BY <1>3, <1>5, <2>1, <2>2, WriterFacts DEF TypeOK, child, backup, answer
<1>9. WriterOK(w)'
  BY <1>6 DEF WriterOK, WriterPoints
<1>10. \A s \in Snapshots : lock[s] = "shared" /\ on[s] = at => content'[at] = content[at]
  BY <1>4 DEF IInv, ReadersOK
<1>. QED
  BY <1>2, <1>3, <1>6, <1>7, <1>8, <1>9, <1>10, WriterStep
-----------------------------------------------------------------------------
(* Deaths, replacements, and all steps together.                           *)

\* What the death of a process leaves of one connection.
LEMMA CrashEffect ==
  ASSUME IInv, NEW p \in Processes, Crash(p), NEW x \in Conns
  PROVE  \/ pc'[x] = pc[x] /\ on'[x] = on[x] /\ lock'[x] = lock[x]
            /\ (x \in Snapshots => told'[x] = told[x] /\ helper'[x] = helper[x])
         \/ /\ on'[x] = 0 /\ lock'[x] = "none"
            /\ pc'[x] = IF x \in Writers THEN "idle" ELSE "done"
            /\ x \in Snapshots =>
                 /\ helper'[x] \in {"none", "reaped"}
                 /\ \/ told'[x] = [code |-> "LOST", image |-> NoImage]
                       /\ pc[x] \notin {"new", "done"}
                    \/ told'[x] = told[x] /\ pc[x] = "done"
<1> DEFINE dead == {y \in Conns : Host[y] = p}
           lost == {s \in Snapshots \cap dead : pc[s] \notin {"new", "done"}}
<1>1. /\ on' = [y \in Conns |-> IF y \in dead THEN 0 ELSE on[y]]
      /\ lock' = [y \in Conns |-> IF y \in dead THEN "none" ELSE lock[y]]
      /\ pc' = [y \in Conns |-> CASE y \in lost -> "done"
                                  [] y \in dead \cap Writers -> "idle"
                                  [] OTHER -> pc[y]]
      /\ told' = [s \in Snapshots |-> IF s \in lost THEN [code |-> "LOST", image |-> NoImage]
                                      ELSE told[s]]
      /\ helper' = [s \in Snapshots |-> IF s \in lost THEN "reaped" ELSE helper[s]]
  BY DEF Crash
<1>2. lost \subseteq Snapshots /\ lost \cap Writers = {} /\ lost \subseteq dead
  BY CallsAssumption
<1>3. CASE x \notin dead
  BY <1>1, <1>2, <1>3
<1>4. CASE x \in lost
  BY <1>1, <1>2, <1>4
<1>5. CASE x \in dead /\ x \in Writers
  BY <1>1, <1>2, <1>5, CallsAssumption
<1>6. CASE x \in dead /\ x \notin Writers /\ x \notin lost
  <2>1. x \in Snapshots /\ pc[x] \in {"new", "done"}
    BY <1>6 DEF Conns
  <2>2. on[x] = 0 /\ lock[x] = "none"
    BY <2>1, Facts DEF ConnectionOK, Opened, Pinned
  <2>3. pc'[x] = pc[x] /\ on'[x] = 0 /\ lock'[x] = "none" /\ told'[x] = told[x] /\ helper'[x] = helper[x]
    BY <1>1, <1>6, <2>1
  <2>. QED
    BY <2>2, <2>3
<1>. QED
  BY <1>3, <1>4, <1>5, <1>6

LEMMA NextCrash == ASSUME IInv, NEW p \in Processes, Crash(p) PROVE IInv'
<1>1. UNCHANGED <<at, beside, content, dirty, bound, said, copied, chunk, t0, code, touched>>
  BY DEF Crash, source, backup
<1>2. \A w \in Writers : w \in Conns /\ w \notin Snapshots
  BY CallsAssumption DEF Conns
<1>3. ASSUME NEW w \in Writers
      PROVE  \/ pc'[w] = pc[w] /\ on'[w] = on[w] /\ lock'[w] = lock[w]
             \/ pc'[w] = "idle" /\ on'[w] = 0 /\ lock'[w] = "none"
  BY <1>2, CrashEffect
<1>4. ASSUME NEW s \in Snapshots
      PROVE  \/ /\ pc'[s] = pc[s] /\ on'[s] = on[s] /\ lock'[s] = lock[s]
                /\ told'[s] = told[s] /\ helper'[s] = helper[s]
             \/ /\ pc'[s] = "done" /\ on'[s] = 0 /\ lock'[s] = "none"
                /\ helper'[s] \in {"none", "reaped"}
  BY <1>2, CrashEffect DEF Conns
<1>5. TypeOK'
  <2>1. TypeOK
    BY DEF IInv
  <2>2. on' \in [Conns -> Files \cup {0}] /\ lock' \in [Conns -> Writing \cup {"none", "shared"}]
    BY <2>1 DEF TypeOK, Crash
  <2>3. pc' \in [Conns -> Points]
    BY <2>1 DEF TypeOK, Crash, Points
  <2>4. helper' \in [Snapshots -> {"none", "running", "ended", "reaped"}]
    BY <2>1 DEF TypeOK, Crash
  <2>5. told' \in [Snapshots -> Promise!Replies]
    <3>1. [code |-> "LOST", image |-> NoImage] \in Promise!Replies
      BY DEF Promise!Replies, Promise!Failures, Codes
    <3>. QED
      BY <2>1, <3>1 DEF TypeOK, Crash
  <2>6. faults' \in 0 .. MaxFaults
    BY <2>1, Counted DEF TypeOK, Crash
  <2>. QED
    BY <1>1, <2>1, <2>2, <2>3, <2>4, <2>5, <2>6 DEF TypeOK
<1>6. \A w \in Writers : WriterOK(w)'
  <2> TAKE w \in Writers
  <2>1. WriterOK(w)
    BY DEF IInv
  <2>. QED
    BY <1>1, <1>3, <2>1 DEF WriterOK, WriterPoints
<1>7. Alone' /\ SourceOK'
  BY <1>1, <1>3 DEF IInv, Alone, SourceOK
<1>8. ReadersOK'
  <2> SUFFICES ASSUME NEW w \in Writers, NEW s \in Snapshots,
                      pc'[w] = "writing pages", lock'[s] = "shared"
               PROVE  on'[s] # at'
    BY DEF ReadersOK
  <2>1. pc[w] = "writing pages"
    BY <1>3
  <2>2. lock[s] = "shared" /\ on'[s] = on[s]
    BY <1>4
  <2>. QED
    BY <1>1, <2>1, <2>2 DEF IInv, ReadersOK
<1>9. 0 <= at
  BY Numbers DEF IInv, TypeOK
<1>10. ASSUME NEW s \in Snapshots PROVE CallOK(s)'
  <2>1. CASE /\ pc'[s] = pc[s] /\ on'[s] = on[s] /\ lock'[s] = lock[s]
             /\ told'[s] = told[s] /\ helper'[s] = helper[s]
    <3>1. ConnectionOK(s)' /\ HeaderOK(s)'
      BY <1>1, <2>1, Facts DEF ConnectionOK, HeaderOK, HeaderOf
    <3>2. ImageOK(s)' /\ AnswerOK(s)'
      BY <1>1, <2>1, Facts DEF ImageOK, AnswerOK, Promise!Pending
    <3>. QED
      BY <3>1, <3>2 DEF CallOK
  <2>2. CASE /\ pc'[s] = "done" /\ on'[s] = 0 /\ lock'[s] = "none"
             /\ helper'[s] \in {"none", "reaped"}
    <3>1. bound'[s] <= at'
      BY <1>1, Facts
    <3>2. ConnectionOK(s)'
      BY <1>1, <1>9, <2>2, <3>1 DEF ConnectionOK, CallPoints, Pinned, Opened
    <3>3. HeaderOK(s)'
      BY <2>2 DEF HeaderOK, Unread
    <3>4. ImageOK(s)' /\ AnswerOK(s)'
      BY <2>2 DEF ImageOK, AnswerOK, Unpinned, Pinned
    <3>. QED
      BY <3>2, <3>3, <3>4 DEF CallOK
  <2>. QED
    BY <1>4, <2>1, <2>2
<1>. QED
  BY <1>5, <1>6, <1>7, <1>8, <1>10 DEF IInv, CallOK

LEMMA NextReplace ==
  ASSUME IInv, NEW sidecar \in {"none", "odd", "wal"}, Replace(sidecar)
  PROVE  IInv'
<1>1. /\ at' = at + 1 /\ at < MaxFiles /\ beside' = sidecar
      /\ \A w \in Writers : pc[w] = "idle"
      /\ UNCHANGED <<content, dirty, on, lock, pc, bound, helper, said, copied, chunk, t0, code, told, touched>>
  BY DEF Replace, locks, child, backup, answer
<1>2. at \in Files /\ at' \in Files /\ at < at'
  <2>1. at \in Files
    BY DEF IInv, TypeOK
  <2>. QED
    BY <1>1, <2>1, BoundsAssumption DEF Files
<1>3. TypeOK'
  <2>1. faults' \in 0 .. MaxFaults
    BY Counted DEF IInv, TypeOK, Replace
  <2>. QED
    BY <1>1, <1>2, <2>1 DEF IInv, TypeOK
<1>4. (\A w \in Writers : WriterOK(w)') /\ Alone' /\ ReadersOK'
  BY <1>1 DEF IInv, WriterOK, Alone, ReadersOK
<1>5. SourceOK'
  <2> SUFFICES ASSUME NEW f \in Files, dirty[f] PROVE f < at'
    BY <1>1 DEF SourceOK
  <2>1. f <= at
    BY <1>2, BoundsAssumption DEF IInv, SourceOK, Files
  <2>. QED
    BY <1>1, <1>2, <2>1, BoundsAssumption DEF Files
<1>6. ASSUME NEW s \in Snapshots PROVE CallOK(s)'
  <2>1. bound[s] \in Nat /\ on[s] \in Nat /\ at \in Nat
    <3>1. bound[s] \in Files \cup {0} /\ on[s] \in Files \cup {0}
      BY Facts DEF TypeOK
    <3>. QED
      BY <1>2, <3>1, Numbers
  <2>2. bound[s] <= at /\ on[s] <= at
    BY Facts DEF ConnectionOK
  <2>3. bound[s] <= at' /\ on[s] <= at' /\ at' # bound[s] /\ at' # on[s]
    BY <1>1, <2>1, <2>2
  <2>4. ConnectionOK(s)'
    BY <1>1, <2>3, Facts DEF ConnectionOK
  <2>5. HeaderOK(s)'
    BY <1>1, <2>3, Facts DEF HeaderOK, HeaderOf
  <2>6. ImageOK(s)' /\ AnswerOK(s)'
    BY <1>1, <2>3, Facts DEF ImageOK, AnswerOK, Promise!Pending
  <2>. QED
    BY <2>4, <2>5, <2>6 DEF CallOK
<1>. QED
  BY <1>3, <1>4, <1>5, <1>6 DEF IInv, CallOK

LEMMA InitIInv == Init => IInv
<1> SUFFICES ASSUME Init PROVE IInv
  OBVIOUS
<1>1. /\ at \in Files /\ beside \in {"none", "odd", "wal"} /\ 0 <= at
  BY BoundsAssumption DEF Init, Files
<1>2. \A w \in Writers : w \in Conns /\ pc[w] = "idle" /\ on[w] = 0 /\ lock[w] = "none"
  BY DEF Init, Conns
<1>3. ASSUME NEW s \in Snapshots
      PROVE  /\ pc[s] = "new" /\ on[s] = 0 /\ lock[s] = "none" /\ bound[s] = 0
             /\ helper[s] = "none" /\ copied[s] = {} /\ chunk[s] = 0 /\ t0[s] = NoImage
             /\ told[s] = Promise!Pending
  BY CallsAssumption DEF Init, Conns
<1>4. TypeOK
  <2>1. /\ content \in [Files -> 0 .. MaxCommits] /\ dirty \in [Files -> BOOLEAN]
        /\ faults \in 0 .. MaxFaults /\ chunk \in [Snapshots -> 0 .. Chunks]
    BY BoundsAssumption DEF Init
  <2>2. /\ on \in [Conns -> Files \cup {0}] /\ lock \in [Conns -> Writing \cup {"none", "shared"}]
        /\ pc \in [Conns -> Points]
    BY DEF Init, Points
  <2>3. /\ bound \in [Snapshots -> Files \cup {0}]
        /\ helper \in [Snapshots -> {"none", "running", "ended", "reaped"}]
        /\ said \in [Snapshots -> Codes \cup {"nothing", "readable", "another file"}]
        /\ copied \in [Snapshots -> SUBSET (0 .. Torn)]
        /\ t0 \in [Snapshots -> Promise!Image \cup {NoImage}]
        /\ code \in [Snapshots -> Codes \cup {"none"}]
    BY DEF Init
  <2>4. told \in [Snapshots -> Promise!Replies]
    BY DEF Init, Promise!Replies
  <2>. QED
    BY <1>1, <2>1, <2>2, <2>3, <2>4 DEF Init, TypeOK
<1>5. (\A w \in Writers : WriterOK(w)) /\ Alone /\ ReadersOK
  BY <1>2 DEF WriterOK, Alone, ReadersOK, WriterPoints
<1>6. SourceOK
  BY DEF Init, SourceOK
<1>7. ASSUME NEW s \in Snapshots PROVE ConnectionOK(s) /\ HeaderOK(s) /\ ImageOK(s) /\ AnswerOK(s)
  BY <1>1, <1>3 DEF ConnectionOK, HeaderOK, ImageOK, AnswerOK, CallPoints, Pinned, Opened, Unread,
     Unpinned
<1>. QED
  BY <1>4, <1>5, <1>6, <1>7 DEF IInv

LEMMA NextIInv == IInv /\ [Next]_vars => IInv'
<1> SUFFICES ASSUME IInv, [Next]_vars PROVE IInv'
  OBVIOUS
<1>1. ASSUME NEW s \in Snapshots, Ask(s) PROVE IInv'
  BY <1>1, NextAsk
<1>2. ASSUME NEW s \in Snapshots, Progress(s) PROVE IInv'
  <2>1. CASE Rebind(s) \/ Precheck(s)
    BY <2>1, NextCheckSource DEF Rebind, Precheck
  <2>2. CASE Spawn(s) \/ ReadHeader(s) \/ HeaderTimeout(s)
    BY <2>2, NextHelper
  <2>. QED
    BY <1>2, <2>1, <2>2, NextBind, NextConnect, NextRecheck, NextBegin, NextCheckFormat,
       NextCopyChunk, NextLastCheck, NextCloseSource, NextValidate, NextCleanUp DEF Progress
<1>3. ASSUME NEW s \in Snapshots, Fail(s) \/ HelperReads(s) \/ HelperFails(s) PROVE IInv'
  BY <1>3, NextFail, NextHelper
<1>4. ASSUME NEW w \in Writers,
             StartWriting(w) \/ StartCommit(w) \/ WritePages(w) \/ FinishCommit(w) \/ RollBack(w)
      PROVE  IInv'
  BY <1>4, NextStartWriting, NextStartCommit, NextWritePages, NextEndWriting
<1>5. CASE \E p \in Processes : Crash(p)
  BY <1>5, NextCrash
<1>6. CASE \E sidecar \in {"none", "odd", "wal"} : Replace(sidecar)
  BY <1>6, NextReplace
<1>7. CASE UNCHANGED vars
  <2>1. UNCHANGED <<at, beside, content, dirty, on, lock, pc, bound, helper, said, copied, chunk, t0, code, told, touched, faults>>
    BY <1>7 DEF vars, source, locks, child, backup, answer
  <2>2. ASSUME NEW s \in Snapshots PROVE CallOK(s)'
    <3>1. ConnectionOK(s)' /\ HeaderOK(s)'
      BY <2>1, Facts DEF ConnectionOK, HeaderOK, HeaderOf
    <3>2. ImageOK(s)' /\ AnswerOK(s)'
      BY <2>1, Facts DEF ImageOK, AnswerOK, Promise!Pending
    <3>. QED
      BY <3>1, <3>2 DEF CallOK
  <2>3. TypeOK' /\ (\A w \in Writers : WriterOK(w)') /\ Alone' /\ SourceOK' /\ ReadersOK'
    BY <2>1 DEF IInv, TypeOK, WriterOK, Alone, SourceOK, ReadersOK
  <2>. QED
    BY <2>2, <2>3 DEF IInv, CallOK
<1>. QED
  BY <1>1, <1>2, <1>3, <1>4, <1>5, <1>6, <1>7 DEF Next

\* What each point of a call knows, and what locks and journals keep apart, is
\* true in every reachable state.
THEOREM Invariance == Spec => []IInv
<1>1. Init => IInv
  BY InitIInv
<1>2. IInv /\ [Next]_vars => IInv'
  BY NextIInv
<1>. QED
  BY <1>1, <1>2, PTL DEF Spec
-----------------------------------------------------------------------------
\* Handles exclude each other and what a backup copies stays as it was pinned,
\* in every process and whatever dies (_read_header in a helper).
THEOREM KeepsLocks == Spec => []LocksKept
<1>1. IInv => LocksKept
  <2> SUFFICES ASSUME IInv PROVE LocksKept
    OBVIOUS
  <2>1. \A w \in Writers : pc[w] # "idle" => lock[w] \in Writing
    BY DEF IInv, WriterOK
  <2>2. \A v, w \in Writers : v # w /\ pc[v] # "idle" /\ pc[w] # "idle" => on[v] # on[w]
    BY DEF IInv, Alone
  <2>3. ASSUME NEW s \in Snapshots, pc[s] \in {"format", "copy", "lastcheck", "close"}
        PROVE  content[on[s]] = t0[s].commits /\ (dirty[on[s]] => at # on[s])
    <3>1. t0[s] = [file |-> on[s], commits |-> content[on[s]]] /\ (dirty[on[s]] => at # on[s])
      BY <2>3, Facts DEF ImageOK, Pinned
    <3>. QED
      BY <3>1
  <2>. QED
    BY <2>1, <2>2, <2>3 DEF LocksKept
<1>. QED
  BY <1>1, Invariance, PTL

\* A call holds nothing of the source while it validates its copy, and nothing
\* at all once it ended, however it ended (snapshot_database,
\* _cleanup_header_process).
THEOREM LeavesNothing == Spec => []NothingHeldAfter
<1>1. IInv => NothingHeldAfter
  <2> SUFFICES ASSUME IInv, NEW s \in Snapshots, pc[s] \in {"validate", "done"}
               PROVE  lock[s] = "none" /\ on[s] = 0 /\ helper[s] \in {"none", "reaped"}
    BY DEF NothingHeldAfter
  <2>. QED
    BY Facts DEF ConnectionOK, HeaderOK, Opened, Pinned
<1>. QED
  BY <1>1, Invariance, PTL
-----------------------------------------------------------------------------
\* What a call's step does to what others see of it.
Quiet(s) ==
  /\ UNCHANGED <<source, touched, t0, told>>
  /\ \/ pc' = pc
     \/ pc[s] # "new" /\ \E q \in CallPoints \ {"new"} : goto(s, q)

LEMMA RaiseIsQuiet ==
  ASSUME NEW s \in Snapshots, NEW e, raise(s, e), pc[s] # "new", UNCHANGED <<source, touched, t0, told>>
  PROVE  Quiet(s)
  BY DEF raise, Quiet, CallPoints

LEMMA QuietSteps ==
  ASSUME NEW s \in Snapshots,
         \/ Bind(s) \/ Spawn(s) \/ ReadHeader(s) \/ HeaderTimeout(s) \/ Rebind(s) \/ Precheck(s)
         \/ Connect(s) \/ Recheck(s) \/ CheckFormat(s) \/ CopyChunk(s) \/ LastCheck(s)
         \/ CloseSource(s) \/ Fail(s) \/ HelperReads(s) \/ HelperFails(s)
  PROVE  Quiet(s)
<1>1. CASE Bind(s)
  <2>1. pc[s] = "bind" /\ UNCHANGED <<source, touched, t0, told>>
    BY <1>1 DEF Bind, backup
  <2>2. (\E e : raise(s, e)) \/ goto(s, "spawn")
    BY <1>1 DEF Bind
  <2>. QED
    BY <2>1, <2>2, RaiseIsQuiet DEF Quiet, CallPoints
<1>2. CASE Spawn(s)
  BY <1>2 DEF Spawn, Quiet, CallPoints, backup, answer
<1>3. CASE ReadHeader(s)
  <2>1. pc[s] = "header" /\ UNCHANGED <<source, touched, t0, told>>
    BY <1>3 DEF ReadHeader, backup
  <2>2. (\E e : raise(s, e)) \/ goto(s, "rebind")
    BY <1>3 DEF ReadHeader
  <2>. QED
    BY <2>1, <2>2, RaiseIsQuiet DEF Quiet, CallPoints
<1>4. CASE HeaderTimeout(s)
  BY <1>4, RaiseIsQuiet DEF HeaderTimeout, backup
<1>5. ASSUME NEW here \in CallPoints \ {"new"}, NEW next \in CallPoints \ {"new"},
             CheckSource(s, here, next)
      PROVE  Quiet(s)
  <2>1. pc[s] # "new" /\ UNCHANGED <<source, touched, t0, told>>
    BY <1>5 DEF CheckSource, backup
  <2>2. (\E e : raise(s, e)) \/ goto(s, next)
    BY <1>5 DEF CheckSource
  <2>. QED
    BY <2>1, <2>2, RaiseIsQuiet DEF Quiet
<1>6. CASE Rebind(s) \/ Precheck(s)
  BY <1>5, <1>6 DEF Rebind, Precheck, CallPoints
<1>7. CASE Connect(s)
  <2>1. pc[s] = "connect" /\ UNCHANGED <<source, touched, t0, told>>
    BY <1>7 DEF Connect, backup
  <2>2. (\E e : raise(s, e)) \/ goto(s, "connected")
    BY <1>7 DEF Connect
  <2>. QED
    BY <2>1, <2>2, RaiseIsQuiet DEF Quiet, CallPoints
<1>8. CASE Recheck(s)
  <2>1. pc[s] = "connected" /\ UNCHANGED <<source, touched, t0, told>>
    BY <1>8 DEF Recheck, backup
  <2>2. (\E e : raise(s, e)) \/ goto(s, "begin")
    BY <1>8 DEF Recheck
  <2>. QED
    BY <2>1, <2>2, RaiseIsQuiet DEF Quiet, CallPoints
<1>9. CASE CheckFormat(s)
  <2>1. pc[s] = "format" /\ UNCHANGED <<source, touched, t0, told>>
    BY <1>9 DEF CheckFormat, backup
  <2>2. (\E e : raise(s, e)) \/ goto(s, "copy")
    BY <1>9 DEF CheckFormat
  <2>. QED
    BY <2>1, <2>2, RaiseIsQuiet DEF Quiet, CallPoints
<1>10. CASE CopyChunk(s)
  <2>1. pc[s] = "copy" /\ UNCHANGED <<source, touched, t0, told>>
    BY <1>10 DEF CopyChunk, answer
  <2>2. goto(s, "lastcheck") \/ goto(s, "copy")
    BY <1>10 DEF CopyChunk
  <2>. QED
    BY <2>1, <2>2 DEF Quiet, CallPoints
<1>11. CASE LastCheck(s)
  <2>1. pc[s] = "lastcheck" /\ UNCHANGED <<source, touched, t0, told>>
    BY <1>11 DEF LastCheck, backup
  <2>2. (\E e : raise(s, e)) \/ goto(s, "close")
    BY <1>11 DEF LastCheck
  <2>. QED
    BY <2>1, <2>2, RaiseIsQuiet DEF Quiet, CallPoints
<1>12. CASE CloseSource(s)
  BY <1>12 DEF CloseSource, Quiet, CallPoints, backup, answer
<1>13. CASE Fail(s)
  <2>1. pc[s] # "new" /\ UNCHANGED <<source, touched, t0, told>>
    BY <1>13 DEF Fail, Running, backup
  <2>2. \E e : raise(s, e)
    BY <1>13 DEF Fail
  <2>. QED
    BY <2>1, <2>2, RaiseIsQuiet
<1>14. CASE HelperReads(s) \/ HelperFails(s)
  BY <1>14 DEF HelperReads, HelperFails, Quiet, backup, answer
<1>. QED
  BY <1>1, <1>2, <1>3, <1>4, <1>6, <1>7, <1>8, <1>9, <1>10, <1>11, <1>12, <1>13, <1>14

\* What SourceUntouched says of one step.
Untouched ==
  /\ <<content, dirty, beside>>' # <<content, dirty, beside>> =>
       at' # at \/ \E w \in Writers : pc'[w] # pc[w]
  /\ \A s \in touched' \ touched : at # bound[s]

LEMMA UntouchedStep == IInv /\ [Next]_vars => [Untouched]_vars
<1> SUFFICES ASSUME IInv, Next PROVE Untouched
  OBVIOUS
<1>1. ASSUME UNCHANGED <<source, touched>> PROVE Untouched
  BY <1>1 DEF Untouched, source
<1>2. ASSUME NEW s \in Snapshots, Ask(s) PROVE Untouched
  BY <1>1, <1>2 DEF Ask
<1>3. ASSUME NEW s \in Snapshots, Quiet(s) PROVE Untouched
  BY <1>1, <1>3 DEF Quiet
<1>4. ASSUME NEW s \in Snapshots, Validate(s) \/ CleanUp(s) PROVE Untouched
  BY <1>1, <1>4 DEF Validate, CleanUp
<1>5. ASSUME NEW s \in Snapshots, Begin(s) PROVE Untouched
  <2>1. /\ pc[s] = "begin" /\ UNCHANGED source
        /\ touched' = touched \/ (touched' = touched \cup {s} /\ (beside = "wal" \/ Format[on[s]] = "wal"))
    BY <1>5 DEF Begin
  <2>2. on[s] = bound[s] /\ HeaderOf(bound[s]) = "readable" /\ (at = bound[s] => beside # "wal")
    BY <2>1, Facts DEF ConnectionOK, HeaderOK, Opened, Unread
  <2>3. Format[bound[s]] # "wal"
    BY <2>2 DEF HeaderOf
  <2>. QED
    BY <2>1, <2>2, <2>3 DEF Untouched, source
<1>6. ASSUME NEW w \in Writers,
             StartWriting(w) \/ StartCommit(w) \/ WritePages(w) \/ FinishCommit(w) \/ RollBack(w)
      PROVE  Untouched
  <2>1. touched' = touched
    BY <1>6 DEF StartWriting, StartCommit, WritePages, FinishCommit, RollBack
  <2>2. pc'[w] # pc[w]
    BY <1>6, WriterFacts
       DEF StartWriting, StartCommit, WritePages, FinishCommit, RollBack, EndWriting, goto, TypeOK
  <2>. QED
    BY <2>1, <2>2 DEF Untouched
<1>7. ASSUME NEW p \in Processes, Crash(p) PROVE Untouched
  BY <1>1, <1>7 DEF Crash
<1>8. ASSUME NEW sidecar \in {"none", "odd", "wal"}, Replace(sidecar) PROVE Untouched
  <2>1. at' # at
    <3>1. at \in Files
      BY DEF IInv, TypeOK
    <3>2. at' = at + 1
      BY <1>8 DEF Replace
    <3>. QED
      BY <3>1, <3>2, Numbers
  <2>. QED
    BY <1>8, <2>1 DEF Untouched, Replace
<1>. QED
  BY <1>2, <1>3, <1>4, <1>5, <1>6, <1>7, <1>8, QuietSteps DEF Next, Progress

\* A snapshot changes neither the source nor what is beside it, and reads
\* beside no WAL unless the path was replaced under it
\* (_check_source_sidecars, mode=ro).
THEOREM LeavesSource == Spec => SourceUntouched
<1>1. IInv /\ [Next]_vars => [Untouched]_vars
  BY UntouchedStep
<1>. QED
  BY <1>1, Invariance, PTL DEF Spec, SourceUntouched, Untouched
-----------------------------------------------------------------------------
(* The refinement of AtomicBackup.                                         *)

Asked == {s \in Snapshots : pc[s] # "new"}

LEMMA PromiseInit == Init => Promise!Init
<1> SUFFICES ASSUME Init PROVE Promise!Init
  OBVIOUS
<1>1. \A s \in Snapshots : pc[s] = "new"
  BY CallsAssumption DEF Init, Conns
<1>2. {s \in Snapshots : pc[s] # "new"} = {}
  BY <1>1
<1>. QED
  BY <1>2 DEF Init, Promise!Init

LEMMA PromiseStep == IInv /\ IInv' /\ [Next]_vars => [Promise!Next]_Promise!vars
<1> SUFFICES ASSUME IInv, IInv', Next PROVE [Promise!Next]_Promise!vars
  BY DEF vars, source, locks, child, backup, answer, Promise!vars
<1>1. ASSUME UNCHANGED <<content, t0, told>>, \A s \in Snapshots : pc'[s] = "new" <=> pc[s] = "new"
      PROVE  Asked' = Asked /\ UNCHANGED Promise!vars
  BY <1>1 DEF Asked, Promise!vars
<1>2. ASSUME NEW s \in Snapshots, NEW q, pc' = [pc EXCEPT ![s] = q], q # "new", pc[s] # "new"
      PROVE  \A d \in Snapshots : pc'[d] = "new" <=> pc[d] = "new"
  BY <1>2, Facts DEF TypeOK
<1>3. ASSUME NEW s \in Snapshots, Ask(s) PROVE Promise!Next
  <2>1. pc[s] = "new" /\ pc' = [pc EXCEPT ![s] = "bind"] /\ UNCHANGED <<content, t0, told>>
    BY <1>3 DEF Ask, goto, source, backup, answer
  <2>2. \A d \in Snapshots : pc'[d] = IF d = s THEN "bind" ELSE pc[d]
    BY <2>1, Facts DEF TypeOK, Conns
  <2>3. s \notin Asked /\ Asked' = Asked \cup {s}
    BY <2>1, <2>2 DEF Asked
  <2>4. Promise!Ask(s)
    BY <2>1, <2>3 DEF Asked, Promise!Ask
  <2>. QED
    BY <2>4 DEF Promise!Next
<1>4. ASSUME NEW s \in Snapshots, Quiet(s) PROVE UNCHANGED Promise!vars
  BY <1>1, <1>2, <1>4 DEF Quiet, source, goto
<1>5. ASSUME NEW s \in Snapshots, Begin(s) PROVE Promise!Next \/ UNCHANGED Promise!vars
  <2>1. pc[s] = "begin" /\ UNCHANGED <<content, told>>
    BY <1>5 DEF Begin, source
  <2>2. CASE \E e : raise(s, e) /\ UNCHANGED t0
    BY <1>1, <1>2, <2>1, <2>2 DEF raise, goto
  <2>3. CASE t0' = [t0 EXCEPT ![s] = [file |-> on[s], commits |-> content[on[s]]]] /\ goto(s, "format")
    <3>1. \A d \in Snapshots : pc'[d] = "new" <=> pc[d] = "new"
      BY <1>2, <2>1, <2>3 DEF goto
    <3>2. Asked' = Asked /\ s \in Asked
      BY <2>1, <3>1 DEF Asked
    <3>3. t0[s] = NoImage /\ told[s] = Promise!Pending
      BY <2>1, Facts DEF ImageOK, AnswerOK, Unpinned
    <3>4. on[s] \in Files
      BY <2>1, Facts DEF ConnectionOK, Opened
    <3>5. Promise!Take(s, on[s])
      BY <2>1, <2>3, <3>2, <3>3 DEF Asked, Promise!Take
    <3>. QED
      BY <3>4, <3>5 DEF Promise!Next
  <2>. QED
    BY <1>5, <2>2, <2>3 DEF Begin
<1>6. ASSUME NEW s \in Snapshots, NEW r, told' = [told EXCEPT ![s] = r], told[s] = Promise!Pending,
             r.code = "OK" => r.image = t0[s], pc[s] # "new", goto(s, "done"),
             UNCHANGED <<content, t0>>
      PROVE  Promise!Next
  <2>1. \A d \in Snapshots : pc'[d] = "new" <=> pc[d] = "new"
    BY <1>2, <1>6 DEF goto
  <2>2. Asked' = Asked /\ s \in Asked
    BY <1>6, <2>1 DEF Asked
  <2>3. told' \in [Snapshots -> Promise!Replies]
    BY DEF IInv, TypeOK
  <2>4. ASSUME NEW d \in Snapshots, told'[d] # told[d]
        PROVE  d \in Asked /\ told[d] = Promise!Pending /\ (told'[d].code = "OK" => told'[d].image = t0[d])
    <3>1. d = s /\ told'[s] = r
      BY <1>6, <2>4, Facts DEF TypeOK
    <3>. QED
      BY <1>6, <2>2, <3>1
  <2>5. Promise!Answer
    BY <1>6, <2>2, <2>3, <2>4 DEF Asked, Promise!Answer
  <2>. QED
    BY <2>5 DEF Promise!Next
<1>7. ASSUME NEW s \in Snapshots, Validate(s) PROVE Promise!Next \/ UNCHANGED Promise!vars
  <2>1. pc[s] = "validate" /\ UNCHANGED <<content, t0>>
    BY <1>7 DEF Validate, source, backup
  <2>2. CASE raise(s, "INTEGRITY_FAILURE") /\ told' = told
    BY <1>1, <1>2, <2>1, <2>2 DEF raise, goto
  <2>3. ASSUME NEW v \in copied[s],
               told' = [told EXCEPT ![s] = [code |-> "OK", image |-> [file |-> bound[s], commits |-> v]]],
               goto(s, "done")
        PROVE  Promise!Next
    <3>1. [file |-> bound[s], commits |-> v] = t0[s] /\ told[s] = Promise!Pending
      BY <2>1, ValidatedImage, Facts DEF AnswerOK
    <3>. QED
      BY <1>6, <2>1, <2>3, <3>1
  <2>. QED
    BY <1>7, <2>2, <2>3 DEF Validate
<1>8. ASSUME NEW s \in Snapshots, CleanUp(s) PROVE Promise!Next
  <2>1. pc[s] = "cleanup" /\ UNCHANGED <<content, t0>> /\ goto(s, "done")
        /\ told' = [told EXCEPT ![s] = [code |-> code[s], image |-> NoImage]]
    BY <1>8 DEF CleanUp, source, backup
  <2>2. told[s] = Promise!Pending /\ code[s] # "OK"
    BY <2>1, Facts DEF AnswerOK, TypeOK, Codes
  <2>. QED
    BY <1>6, <2>1, <2>2
<1>9. ASSUME NEW w \in Writers, goto(w, "idle") \/ goto(w, "writing") \/ goto(w, "committing") \/ goto(w, "writing pages")
      PROVE  \A s \in Snapshots : pc'[s] = "new" <=> pc[s] = "new"
  <2>1. \A s \in Snapshots : s # w /\ s \in Conns
    BY CallsAssumption DEF Conns
  <2>. QED
    BY <1>9, <2>1, WriterFacts DEF goto, TypeOK
<1>10. ASSUME NEW w \in Writers, StartWriting(w) \/ StartCommit(w) \/ WritePages(w) \/ RollBack(w)
       PROVE  UNCHANGED Promise!vars
  BY <1>1, <1>9, <1>10
     DEF StartWriting, StartCommit, WritePages, RollBack, EndWriting, source, backup, answer
<1>11. ASSUME NEW w \in Writers, FinishCommit(w) PROVE Promise!Next
  <2>1. content' = [content EXCEPT ![on[w]] = content[on[w]] + 1] /\ goto(w, "idle")
        /\ UNCHANGED <<t0, told>> /\ pc[w] = "writing pages"
    BY <1>11 DEF FinishCommit, EndWriting, backup, answer
  <2>2. Asked' = Asked
    BY <1>9, <2>1 DEF Asked
  <2>3. on[w] \in Files
    BY <2>1, WriterFacts DEF WriterOK
  <2>4. Promise!Commit(on[w])
    BY <2>1, <2>2 DEF Asked, Promise!Commit
  <2>. QED
    BY <2>3, <2>4 DEF Promise!Next
<1>12. ASSUME NEW p \in Processes, Crash(p) PROVE Promise!Next
  <2>1. UNCHANGED <<content, t0>>
    BY <1>12 DEF Crash, source, backup
  <2>2. ASSUME NEW s \in Snapshots
        PROVE  /\ pc'[s] = "new" <=> pc[s] = "new"
               /\ told'[s] # told[s] =>
                    pc[s] \notin {"new", "done"} /\ told'[s] = [code |-> "LOST", image |-> NoImage]
    <3>1. s \in Conns /\ s \notin Writers
      BY CallsAssumption DEF Conns
    <3>. QED
      BY <1>12, <3>1, CrashEffect
  <2>3. Asked' = Asked
    BY <2>2 DEF Asked
  <2>4. told' \in [Snapshots -> Promise!Replies]
    BY DEF IInv, TypeOK
  <2>5. ASSUME NEW s \in Snapshots, told'[s] # told[s]
        PROVE  s \in Asked /\ told[s] = Promise!Pending /\ (told'[s].code = "OK" => told'[s].image = t0[s])
    BY <2>2, <2>5, Facts DEF AnswerOK, Asked
  <2>6. Promise!Answer
    BY <2>1, <2>3, <2>4, <2>5 DEF Asked, Promise!Answer
  <2>. QED
    BY <2>6 DEF Promise!Next
<1>13. ASSUME NEW sidecar \in {"none", "odd", "wal"}, Replace(sidecar) PROVE UNCHANGED Promise!vars
  BY <1>1, <1>13 DEF Replace, backup, answer
<1>. QED
  BY <1>3, <1>4, <1>5, <1>7, <1>8, <1>10, <1>11, <1>12, <1>13, QuietSteps DEF Next, Progress

\* What is told to be the image is the committed state, at one moment of the
\* call, of the file the path named (snapshot_database).
THEOREM OneMoment == Spec => ImplementsBackup
<1>1. Init => Promise!Init
  BY PromiseInit
<1>2. IInv /\ IInv' /\ [Next]_vars => [Promise!Next]_Promise!vars
  BY PromiseStep
<1>. QED
  BY <1>1, <1>2, Invariance, PTL DEF Spec, ImplementsBackup, Promise!Spec
=============================================================================
