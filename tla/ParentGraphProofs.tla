-------------------------- MODULE ParentGraphProofs -------------------------
(***************************************************************************)
(* The cycle test of validate_metadata is right for every graph of every   *)
(* number of Versions.  Taken is what has left the queue: the Versions     *)
(* with no parent left to wait for that are not queued any more.           *)
(***************************************************************************)
EXTENDS ParentGraph, FiniteSetTheorems, WellFoundedInduction, TLAPS

CONSTANTS Ids, Contents, Size, Stamps, Keys, NoBytes, Untimed, MaxPayload

Graph == INSTANCE RecordGraph

Queued == {queue[i] : i \in 1 .. Len(queue)}

Taken == {v \in Versions : indegree[v] = 0} \ Queued

Typed ==
  /\ parents \in [Versions -> SUBSET Versions]
  /\ indegree \in [Versions -> Nat]
  /\ queue \in Seq(Versions)
  /\ visited \in Nat
  /\ verdict \in {"none", "accepted", "INTEGRITY_FAILURE"}

\* Who is queued is queued once, and waits for nobody.
QueueOK ==
  /\ \A i, j \in 1 .. Len(queue) : i # j => queue[i] # queue[j]
  /\ \A v \in Queued : indegree[v] = 0

\* What the counters count.
CountsOK ==
  /\ \A v \in Versions : indegree[v] = Cardinality(parents[v] \ Taken)
  /\ visited = Cardinality(Taken)

\* There is no cycle among the Versions taken.
TakenAcyclic == \A S \in (SUBSET Taken) \ {{}} : \E v \in S : parents[v] \cap S = {}

IInv == Typed /\ QueueOK /\ CountsOK /\ TakenAcyclic /\ VerdictRight
-----------------------------------------------------------------------------
(* Any set of Versions can be put in order.                                *)

LEMMA VersionsFinite ==
  /\ IsFiniteSet(Versions) /\ Cardinality(Versions) = N
  /\ \A S \in SUBSET Versions : IsFiniteSet(S) /\ Cardinality(S) \in Nat
<1>1. IsFiniteSet(Versions) /\ Cardinality(Versions) = N
  BY NAssumption, FS_Interval DEF Versions
<1>. QED
  BY <1>1, FS_Subset, FS_CardinalityType

\* Of sets of Versions, one is least.
LEMMA LeastSet ==
  ASSUME NEW T \in SUBSET (SUBSET Versions), T # {}
  PROVE  \E S \in T : \A U \in T : ~ (U \subseteq S /\ U # S)
<1>1. IsWellFoundedOn(StrictSubsetOrdering(Versions), SUBSET Versions)
  BY VersionsFinite, FS_FiniteSubsetsOfFinite, FS_StrictSubsetOrderingWellFounded
<1>2. PICK S \in T : \A U \in T : <<U, S>> \notin StrictSubsetOrdering(Versions)
  BY <1>1, WFMin
<1>. QED
  BY <1>2 DEF StrictSubsetOrdering

\* The sequences that InOrder chooses from.
Increasing(S) == {q \in SetToSeqs(S) : \A i, j \in DOMAIN q : i < j => q[i] < q[j]}

LEMMA Enumerable == \A S \in SUBSET Versions : Increasing(S) # {}
<1> DEFINE T == {S \in SUBSET Versions : Increasing(S) = {}}
<1> SUFFICES ASSUME T # {} PROVE FALSE
  OBVIOUS
<1>0. T \in SUBSET (SUBSET Versions)
  OBVIOUS
<1>1. PICK S \in T : \A U \in T : ~ (U \subseteq S /\ U # S)
  <2> HIDE DEF T
  <2>. QED
    BY <1>0, LeastSet
<1>2. S \subseteq Versions /\ Increasing(S) = {} /\ IsFiniteSet(S) /\ Cardinality(S) \in Nat
  BY <1>1, VersionsFinite
<1>3. CASE S = {}
  <2> DEFINE q == [i \in 1 .. 0 |-> 1]
  <2>1. Cardinality(S) = 0
    BY <1>3, FS_EmptySet
  <2>2. q \in SetToSeqs(S)
    BY <2>1 DEF SetToSeqs
  <2>. QED
    BY <1>2, <2>2 DEF Increasing
<1>4. CASE S # {}
  <2>1. S \in SUBSET Nat
    BY <1>2 DEF Versions
  <2>2. PICK m \in S : \A v \in S : m <= v
    <3>1. PICK m \in S : \A v \in S : <<v, m>> \notin OpToRel(<, Nat)
      BY <1>4, <2>1, NatLessThanWellFounded, WFMin
    <3>2. \A v \in S : ~ (v < m)
      BY <2>1, <3>1 DEF OpToRel
    <3>. QED
      BY <2>1, <3>2
  <2> DEFINE U == S \ {m}
             k == Cardinality(U)
  <2>3. Cardinality(S) = k + 1 /\ k \in Nat
    <3>1. IsFiniteSet(U) /\ k = Cardinality(S) - 1
      BY <1>2, <2>2, FS_RemoveElement
    <3>2. k \in Nat
      BY <3>1, FS_CardinalityType
    <3>. QED
      BY <1>2, <3>1, <3>2
  <2>4. Increasing(U) # {}
    BY <1>1, <1>2, <2>2
  <2>5. PICK g \in SetToSeqs(U) : \A i, j \in DOMAIN g : i < j => g[i] < g[j]
    BY <2>4 DEF Increasing
  <2>6. g \in [1 .. k -> U] /\ \A i, j \in 1 .. k : (i # j => g[i] # g[j]) /\ (i < j => g[i] < g[j])
    BY <2>5 DEF SetToSeqs
  <2> DEFINE q == [i \in 1 .. k + 1 |-> IF i = 1 THEN m ELSE g[i - 1]]
  <2> HIDE DEF U, k
  <2>7. \A i \in 1 .. k + 1 : i # 1 => i - 1 \in 1 .. k
    BY <2>3
  <2>8. U \subseteq S /\ \A v \in U : v \in Nat /\ m < v
    BY <2>1, <2>2 DEF U
  <2>9. q \in [1 .. k + 1 -> S]
    BY <2>2, <2>6, <2>7, <2>8
  <2>10. \A i, j \in 1 .. k + 1 : i < j => q[i] < q[j]
    <3> SUFFICES ASSUME NEW i \in 1 .. k + 1, NEW j \in 1 .. k + 1, i < j PROVE q[i] < q[j]
      OBVIOUS
    <3>1. j # 1 /\ j - 1 \in 1 .. k /\ q[j] = g[j - 1]
      BY <2>3, <2>7
    <3>2. CASE i = 1
      BY <2>6, <2>8, <3>1, <3>2
    <3>3. CASE i # 1
      <4>1. i - 1 \in 1 .. k /\ q[i] = g[i - 1] /\ i - 1 < j - 1
        BY <2>3, <2>7, <3>3
      <4>. QED
        BY <2>6, <3>1, <4>1
    <3>. QED
      BY <3>2, <3>3
  <2>11. \A i, j \in 1 .. k + 1 : i # j => q[i] # q[j]
    <3> SUFFICES ASSUME NEW i \in 1 .. k + 1, NEW j \in 1 .. k + 1, i # j PROVE q[i] # q[j]
      OBVIOUS
    <3>1. q[i] \in Nat /\ q[j] \in Nat
      BY <2>1, <2>9
    <3>2. i < j \/ j < i
      BY <2>3
    <3>. QED
      BY <2>10, <3>1, <3>2
  <2>12. q \in SetToSeqs(S)
    BY <2>3, <2>9, <2>11 DEF SetToSeqs
  <2>13. q \in Increasing(S)
    BY <2>9, <2>10, <2>12 DEF Increasing
  <2>. QED
    BY <1>2, <2>13
<1>. QED
  BY <1>3, <1>4

\* Each of the set, once.
LEMMA InOrderEnumerates ==
  ASSUME NEW S \in SUBSET Versions
  PROVE  /\ InOrder(S) \in Seq(Versions)
         /\ {InOrder(S)[i] : i \in 1 .. Len(InOrder(S))} = S
         /\ \A i, j \in 1 .. Len(InOrder(S)) : i # j => InOrder(S)[i] # InOrder(S)[j]
<1> DEFINE q == InOrder(S)
           k == Cardinality(S)
<1>1. q \in SetToSeqs(S)
  <2>1. \E p \in SetToSeqs(S) : \A i, j \in DOMAIN p : i < j => p[i] < p[j]
    BY Enumerable DEF Increasing
  <2>. QED
    BY <2>1 DEF InOrder
<1>2. IsFiniteSet(S) /\ k \in Nat
  BY VersionsFinite
<1>3. q \in [1 .. k -> S] /\ \A i, j \in 1 .. k : i # j => q[i] # q[j]
  BY <1>1 DEF SetToSeqs
<1> HIDE DEF q, k
<1>4. q \in Seq(S) /\ Len(q) = k
  BY <1>2, <1>3
<1>5. ASSUME NEW v \in S, \A i \in 1 .. k : q[i] # v PROVE FALSE
  <2>1. IsFiniteSet(S \ {v}) /\ Cardinality(S \ {v}) = k - 1
    BY <1>2, FS_RemoveElement DEF k
  <2>2. q \in [1 .. k -> S \ {v}]
    BY <1>3, <1>5
  <2>3. IsFiniteSet(1 .. k) /\ Cardinality(1 .. k) = k
    BY <1>2, FS_Interval
  <2>4. Cardinality(S \ {v}) < Cardinality(1 .. k)
    BY <1>2, <2>1, <2>3
  <2>5. \E i, j \in 1 .. k : i # j /\ q[i] = q[j]
    <3> DEFINE U == S \ {v}
               D == 1 .. k
    <3>1. IsFiniteSet(D) /\ IsFiniteSet(U) /\ Cardinality(U) < Cardinality(D) /\ q \in [D -> U]
      BY <2>1, <2>2, <2>3, <2>4
    <3> HIDE DEF U, D
    <3>2. \E i, j \in D : i # j /\ q[i] = q[j]
      BY <3>1, FS_PigeonHole
    <3>. QED
      BY <3>2 DEF D
  <2>. QED
    BY <1>3, <2>5
<1>6. {q[i] : i \in 1 .. k} = S
  BY <1>3, <1>5
<1>7. q \in Seq(Versions)
  BY <1>4
<1>. QED
  BY <1>3, <1>4, <1>6, <1>7 DEF q
-----------------------------------------------------------------------------
(* The loop.                                                               *)

LEMMA WaitingFinite ==
  ASSUME Typed, NEW v \in Versions, NEW T
  PROVE  IsFiniteSet(parents[v] \ T) /\ Cardinality(parents[v] \ T) \in Nat
<1>1. parents[v] \ T \in SUBSET Versions
  BY DEF Typed
<1>. QED
  BY <1>1, VersionsFinite

LEMMA InitIInv == Init => IInv
<1> SUFFICES ASSUME Init PROVE IInv
  OBVIOUS
<1> DEFINE roots == {v \in Versions : parents[v] = {}}
<1>1. /\ queue \in Seq(Versions)
      /\ Queued = roots
      /\ \A i, j \in 1 .. Len(queue) : i # j => queue[i] # queue[j]
  <2>1. roots \in SUBSET Versions /\ queue = InOrder(roots)
    BY DEF Init
  <2> HIDE DEF roots
  <2>. QED
    BY <2>1, InOrderEnumerates DEF Queued
<1>2. \A v \in Versions : /\ indegree[v] = Cardinality(parents[v])
                          /\ indegree[v] \in Nat
                          /\ indegree[v] = 0 <=> parents[v] = {}
  <2>1. \A v \in Versions : IsFiniteSet(parents[v]) /\ Cardinality(parents[v]) \in Nat
    BY VersionsFinite DEF Init
  <2>. QED
    BY <2>1, FS_EmptySet DEF Init
<1>3. Taken = {}
  BY <1>1, <1>2 DEF Taken
<1>4. Typed
  BY <1>1, <1>2 DEF Init, Typed
<1>5. QueueOK
  BY <1>1, <1>2 DEF QueueOK
<1>6. CountsOK
  <2>1. \A v \in Versions : parents[v] \ Taken = parents[v]
    BY <1>3
  <2>2. visited = Cardinality(Taken)
    BY <1>3, FS_EmptySet DEF Init
  <2>. QED
    BY <1>2, <2>1, <2>2 DEF CountsOK
<1>7. TakenAcyclic
  <2>1. \A S \in SUBSET Taken : S = {}
    BY <1>3
  <2>. QED
    BY <2>1 DEF TakenAcyclic
<1>8. VerdictRight
  BY DEF Init, VerdictRight
<1>. QED
  BY <1>4, <1>5, <1>6, <1>7, <1>8 DEF IInv

\* Who waits for nobody that was not taken, and who waits for one.
LEMMA Waiting ==
  ASSUME IInv, NEW v \in Versions
  PROVE  /\ indegree[v] = 0 <=> parents[v] \subseteq Taken
         /\ \A h \in Versions \ Taken :
              h \in parents[v] => indegree[v] >= 1
                                  /\ indegree[v] - 1 = Cardinality(parents[v] \ (Taken \cup {h}))
         /\ \A h \in Versions :
              h \notin parents[v] => indegree[v] = Cardinality(parents[v] \ (Taken \cup {h}))
<1>1. /\ indegree[v] = Cardinality(parents[v] \ Taken)
      /\ IsFiniteSet(parents[v] \ Taken) /\ Cardinality(parents[v] \ Taken) \in Nat
  BY WaitingFinite DEF IInv, CountsOK
<1>2. indegree[v] = 0 <=> parents[v] \subseteq Taken
  BY <1>1, FS_EmptySet
<1>3. ASSUME NEW h \in Versions \ Taken, h \in parents[v]
      PROVE  indegree[v] >= 1 /\ indegree[v] - 1 = Cardinality(parents[v] \ (Taken \cup {h}))
  <2>1. (parents[v] \ Taken) \ {h} = parents[v] \ (Taken \cup {h}) /\ h \in parents[v] \ Taken
    BY <1>3
  <2>2. Cardinality((parents[v] \ Taken) \ {h}) = Cardinality(parents[v] \ Taken) - 1
    BY <1>1, <2>1, FS_RemoveElement
  <2>3. indegree[v] # 0
    BY <1>2, <2>1
  <2>4. Cardinality(parents[v] \ (Taken \cup {h})) = Cardinality(parents[v] \ Taken) - 1
    BY <2>1, <2>2
  <2>. QED
    BY <1>1, <2>3, <2>4
<1>4. ASSUME NEW h \in Versions, h \notin parents[v]
      PROVE  indegree[v] = Cardinality(parents[v] \ (Taken \cup {h}))
  <2>1. parents[v] \ (Taken \cup {h}) = parents[v] \ Taken
    BY <1>4
  <2>. QED
    BY <1>1, <2>1
<1>. QED
  BY <1>2, <1>3, <1>4

\* The queue after a turn: without its head, with those that are ready.
LEMMA NextQueue ==
  ASSUME IInv, queue # <<>>, NEW R \in SUBSET (Versions \ Queued),
         queue' = Tail(queue) \o InOrder(R)
  PROVE  /\ Head(queue) \in Queued /\ Queued \subseteq Versions
         /\ queue' \in Seq(Versions)
         /\ Queued' = (Queued \ {Head(queue)}) \cup R
         /\ \A i, j \in 1 .. Len(queue') : i # j => queue'[i] # queue'[j]
<1> DEFINE q == queue
           r == InOrder(R)
           h == Head(queue)
<1>1. q \in Seq(Versions) /\ \A i, j \in 1 .. Len(q) : i # j => q[i] # q[j]
  BY DEF IInv, Typed, QueueOK
<1>2. /\ r \in Seq(Versions) /\ {r[i] : i \in 1 .. Len(r)} = R
      /\ \A i, j \in 1 .. Len(r) : i # j => r[i] # r[j]
  BY InOrderEnumerates
<1> DEFINE t == Tail(q)
           m == Len(t)
<1> HIDE DEF r
<1>3. /\ t \in Seq(Versions) /\ Len(q) = m + 1 /\ m \in Nat
      /\ h = q[1] /\ \A i \in 1 .. m : t[i] = q[i + 1]
  BY <1>1
<1>4. queue' = t \o r
  BY DEF r
<1> HIDE DEF q, t, m, h
<1>5. \A i \in 1 .. m : i + 1 \in 1 .. m + 1 /\ i + 1 # 1
  BY <1>3
<1>6. {t[i] : i \in 1 .. m} = Queued \ {h}
  <2>1. Queued = {q[i] : i \in 1 .. m + 1} /\ 1 \in 1 .. m + 1
    BY <1>3 DEF Queued, q
  <2>2. \A i \in 1 .. m : t[i] \in Queued \ {h}
    BY <1>1, <1>3, <1>5, <2>1
  <2>3. \A i \in 1 .. m + 1 : q[i] # h => \E j \in 1 .. m : t[j] = q[i]
    <3> SUFFICES ASSUME NEW i \in 1 .. m + 1, q[i] # h PROVE \E j \in 1 .. m : t[j] = q[i]
      OBVIOUS
    <3>1. i # 1
      BY <1>3
    <3>2. i - 1 \in 1 .. m /\ (i - 1) + 1 = i
      BY <1>3, <3>1
    <3>. QED
      BY <1>3, <3>2
  <2>. QED
    BY <2>1, <2>2, <2>3
<1>7. h \in Queued /\ Queued \subseteq Versions
  <2>1. 1 \in 1 .. Len(q)
    BY <1>3
  <2>. QED
    BY <1>1, <1>3, <2>1 DEF Queued, q
<1>8. queue' \in Seq(Versions) /\ Len(queue') = m + Len(r)
      /\ \A i \in 1 .. m + Len(r) : queue'[i] = IF i <= m THEN t[i] ELSE r[i - m]
  <2>1. Len(t) = m
    BY DEF m
  <2>2. Len(t \o r) = Len(t) + Len(r) /\ t \o r \in Seq(Versions)
    BY <1>2, <1>3
  <2>3. \A i \in 1 .. Len(t) + Len(r) : (t \o r)[i] = IF i <= Len(t) THEN t[i] ELSE r[i - Len(t)]
    BY <1>2, <1>3
  <2>. QED
    BY <1>4, <2>1, <2>2, <2>3
<1>9. Len(r) \in Nat /\ \A i \in 1 .. m + Len(r) : IF i <= m THEN i \in 1 .. m ELSE i - m \in 1 .. Len(r)
  BY <1>2, <1>3
<1>10. Queued' = (Queued \ {h}) \cup R
  <2>1. \A i \in 1 .. m + Len(r) : queue'[i] \in (Queued \ {h}) \cup R
    BY <1>2, <1>6, <1>8, <1>9
  <2>2. \A v \in Queued \ {h} : \E i \in 1 .. m + Len(r) : queue'[i] = v
    <3> SUFFICES ASSUME NEW v \in Queued \ {h} PROVE \E i \in 1 .. m + Len(r) : queue'[i] = v
      OBVIOUS
    <3>1. PICK i \in 1 .. m : t[i] = v
      BY <1>6
    <3>2. i \in 1 .. m + Len(r) /\ i <= m
      BY <1>3, <1>9
    <3>. QED
      BY <1>8, <3>1, <3>2
  <2>3. \A v \in R : \E i \in 1 .. m + Len(r) : queue'[i] = v
    <3> SUFFICES ASSUME NEW v \in R PROVE \E i \in 1 .. m + Len(r) : queue'[i] = v
      OBVIOUS
    <3>1. PICK i \in 1 .. Len(r) : r[i] = v
      BY <1>2
    <3>2. m + i \in 1 .. m + Len(r) /\ ~ (m + i <= m) /\ (m + i) - m = i
      BY <1>3, <1>9
    <3>. QED
      BY <1>8, <3>1, <3>2
  <2>4. Queued' = {queue'[i] : i \in 1 .. m + Len(r)}
    BY <1>8 DEF Queued
  <2>. QED
    BY <2>1, <2>2, <2>3, <2>4
<1>11. ASSUME NEW i \in 1 .. m + Len(r), NEW j \in 1 .. m + Len(r), i # j
       PROVE  queue'[i] # queue'[j]
  <2>1. CASE i <= m /\ j <= m
    <3>1. i \in 1 .. m /\ j \in 1 .. m /\ i + 1 # j + 1
      BY <1>3, <1>9, <1>11, <2>1
    <3>2. queue'[i] = q[i + 1] /\ queue'[j] = q[j + 1]
      BY <1>3, <1>8, <2>1, <3>1
    <3>. QED
      BY <1>1, <1>3, <1>5, <3>1, <3>2
  <2>2. CASE ~ (i <= m) /\ ~ (j <= m)
    <3>1. i - m \in 1 .. Len(r) /\ j - m \in 1 .. Len(r) /\ i - m # j - m
      BY <1>3, <1>9, <1>11, <2>2
    <3>. QED
      BY <1>2, <1>8, <2>2, <3>1
  <2>3. \A a, b \in 1 .. m + Len(r) : a <= m /\ ~ (b <= m) => queue'[a] \in Queued /\ queue'[b] \in R
    BY <1>2, <1>6, <1>8, <1>9
  <2>. QED
    BY <2>1, <2>2, <2>3
<1>. QED
  BY <1>7, <1>8, <1>10, <1>11 DEF h

\* One turn takes the head, and queues who waited for it alone.
LEMMA VisitKeeps == IInv /\ Visit => IInv'
<1> SUFFICES ASSUME IInv, Visit PROVE IInv'
  OBVIOUS
<1> DEFINE h == Head(queue)
           R == {c \in Children(h) : indegree[c] = 1}
<1>1. Typed /\ QueueOK /\ CountsOK /\ TakenAcyclic /\ VerdictRight
  BY DEF IInv
<1>2. /\ queue # <<>> /\ queue' = Tail(queue) \o InOrder(R)
      /\ indegree' = [c \in Versions |-> IF c \in Children(h) THEN indegree[c] - 1 ELSE indegree[c]]
      /\ visited' = visited + 1
      /\ parents' = parents /\ verdict' = verdict
  BY DEF Visit
<1>3. R \in SUBSET (Versions \ Queued)
  BY <1>1 DEF Children, QueueOK
<1>4. /\ h \in Queued /\ Queued \subseteq Versions
      /\ queue' \in Seq(Versions)
      /\ Queued' = (Queued \ {h}) \cup R
      /\ \A i, j \in 1 .. Len(queue') : i # j => queue'[i] # queue'[j]
  <2> HIDE DEF R
  <2>. QED
    BY <1>2, <1>3, NextQueue
<1>5. h \in Versions /\ indegree[h] = 0 /\ h \notin Taken /\ parents[h] \subseteq Taken
  BY <1>1, <1>4, Waiting DEF QueueOK, Taken
<1>6. \A c \in Versions : c \in Children(h) <=> h \in parents[c]
  BY DEF Children
<1>7. \A c \in Versions :
        /\ c \in Children(h) => indegree[c] >= 1
        /\ indegree'[c] = Cardinality(parents[c] \ (Taken \cup {h}))
        /\ indegree'[c] \in Nat
  <2> SUFFICES ASSUME NEW c \in Versions
               PROVE  /\ c \in Children(h) => indegree[c] >= 1
                      /\ indegree'[c] = Cardinality(parents[c] \ (Taken \cup {h}))
                      /\ indegree'[c] \in Nat
    OBVIOUS
  <2>1. Cardinality(parents[c] \ (Taken \cup {h})) \in Nat
    BY <1>1, WaitingFinite
  <2>2. CASE h \in parents[c]
    <3>1. indegree[c] >= 1 /\ indegree[c] - 1 = Cardinality(parents[c] \ (Taken \cup {h}))
      BY <1>5, <2>2, Waiting
    <3>2. indegree'[c] = indegree[c] - 1
      BY <1>2, <1>6, <2>2
    <3>. QED
      BY <2>1, <3>1, <3>2
  <2>3. CASE h \notin parents[c]
    <3>1. indegree[c] = Cardinality(parents[c] \ (Taken \cup {h}))
      BY <1>5, <2>3, Waiting
    <3>2. indegree'[c] = indegree[c] /\ c \notin Children(h)
      BY <1>2, <1>6, <2>3
    <3>. QED
      BY <2>1, <3>1, <3>2
  <2>. QED
    BY <2>2, <2>3
<1>8. \A c \in Versions : indegree'[c] = 0 <=> indegree[c] = 0 \/ c \in R
  <2> SUFFICES ASSUME NEW c \in Versions PROVE indegree'[c] = 0 <=> indegree[c] = 0 \/ c \in R
    OBVIOUS
  <2>1. indegree[c] \in Nat
    BY <1>1 DEF Typed
  <2>2. CASE c \in Children(h)
    <3>1. indegree'[c] = indegree[c] - 1 /\ indegree[c] >= 1
      BY <1>2, <1>7, <2>2
    <3>2. c \in R <=> indegree[c] = 1
      BY <2>2
    <3>. QED
      BY <2>1, <3>1, <3>2
  <2>3. CASE c \notin Children(h)
    BY <1>2, <2>3
  <2>. QED
    BY <2>2, <2>3
<1>9. Taken' = Taken \cup {h}
  BY <1>3, <1>4, <1>5, <1>8 DEF Taken
<1>10. Typed'
  <2>1. indegree' \in [Versions -> Nat]
    BY <1>2, <1>7
  <2>2. visited' \in Nat
    BY <1>1, <1>2 DEF Typed
  <2>. QED
    BY <1>1, <1>2, <1>4, <2>1, <2>2 DEF Typed
<1>11. QueueOK'
  BY <1>1, <1>4, <1>8 DEF QueueOK, Children
<1>12. CountsOK'
  <2>1. Taken \in SUBSET Versions
    BY DEF Taken
  <2>2. IsFiniteSet(Taken) /\ Cardinality(Taken \cup {h}) = Cardinality(Taken) + 1
    BY <1>5, <2>1, VersionsFinite, FS_AddElement
  <2>3. visited' = Cardinality(Taken')
    BY <1>1, <1>2, <1>9, <2>2 DEF CountsOK
  <2>. QED
    BY <1>2, <1>7, <1>9, <2>3 DEF CountsOK
<1>13. TakenAcyclic'
  <2> SUFFICES ASSUME NEW S \in SUBSET (Taken \cup {h}), S # {}
               PROVE  \E v \in S : parents[v] \cap S = {}
    BY <1>2, <1>9 DEF TakenAcyclic
  <2>1. CASE S \subseteq {h}
    <3>1. h \in S /\ parents[h] \cap S = {}
      BY <1>5, <2>1
    <3>. QED
      BY <3>1
  <2>2. CASE ~ (S \subseteq {h})
    <3>1. PICK v \in S \ {h} : parents[v] \cap (S \ {h}) = {}
      <4>1. S \ {h} \in (SUBSET Taken) \ {{}}
        BY <2>2
      <4>. QED
        BY <1>1, <4>1 DEF TakenAcyclic
    <3>2. parents[v] \subseteq Taken
      <4>1. v \in Taken /\ v \in Versions /\ indegree[v] = 0
        BY DEF Taken
      <4>. QED
        BY <4>1, Waiting
    <3>. QED
      BY <1>5, <3>1, <3>2
  <2>. QED
    BY <2>1, <2>2
<1>14. VerdictRight'
  BY <1>1, <1>2 DEF VerdictRight, Acyclic
<1>. QED
  BY <1>10, <1>11, <1>12, <1>13, <1>14 DEF IInv

\* At the end of the loop the count is that of all Versions, or those that
\* were not taken wait for each other.
LEMMA DecideKeeps == IInv /\ Decide => IInv'
<1> SUFFICES ASSUME IInv, Decide PROVE IInv'
  OBVIOUS
<1>1. Typed /\ QueueOK /\ CountsOK /\ TakenAcyclic
  BY DEF IInv
<1>2. /\ queue = <<>> /\ UNCHANGED <<parents, indegree, queue, visited>>
      /\ verdict' = IF visited = N THEN "accepted" ELSE "INTEGRITY_FAILURE"
  BY DEF Decide
<1>3. Queued = {} /\ Queued' = Queued /\ Taken' = Taken
  BY <1>2 DEF Queued, Taken
<1>4. Taken \in SUBSET Versions
  BY DEF Taken
<1>5. visited = N => Taken = Versions
  BY <1>1, <1>4, VersionsFinite, FS_Subset DEF CountsOK
<1>6. visited # N => Taken # Versions
  BY <1>1, VersionsFinite DEF CountsOK
<1>7. Taken = Versions => Acyclic
  BY <1>1 DEF TakenAcyclic, Acyclic
<1>8. Taken # Versions => ~ Acyclic
  <2> SUFFICES ASSUME Taken # Versions PROVE \E S \in (SUBSET Versions) \ {{}} : \A v \in S : parents[v] \cap S # {}
    BY DEF Acyclic
  <2> DEFINE S == Versions \ Taken
  <2>1. S \in (SUBSET Versions) \ {{}}
    BY <1>4
  <2>2. ASSUME NEW v \in S PROVE parents[v] \cap S # {}
    <3>1. indegree[v] # 0
      BY <1>3 DEF Taken
    <3>2. ~ (parents[v] \subseteq Taken) /\ parents[v] \subseteq Versions
      BY <1>1, <3>1, Waiting DEF Typed
    <3>. QED
      BY <3>2
  <2>. QED
    BY <2>1, <2>2
<1>9. VerdictRight'
  <2>1. Acyclic' <=> Acyclic
    BY <1>2 DEF Acyclic
  <2>. QED
    BY <1>2, <1>5, <1>6, <1>7, <1>8, <2>1 DEF VerdictRight
<1>10. Typed' /\ QueueOK' /\ CountsOK' /\ TakenAcyclic'
  BY <1>1, <1>2, <1>3 DEF Typed, QueueOK, CountsOK, TakenAcyclic
<1>. QED
  BY <1>9, <1>10 DEF IInv

LEMMA NextIInv == IInv /\ [Next]_vars => IInv'
<1>1. IInv /\ UNCHANGED vars => IInv'
  <2> SUFFICES ASSUME IInv, UNCHANGED vars PROVE IInv'
    OBVIOUS
  <2>1. Queued' = Queued /\ Taken' = Taken /\ (Acyclic' <=> Acyclic)
    BY DEF vars, Queued, Taken, Acyclic
  <2>2. Typed' /\ QueueOK'
    BY <2>1 DEF vars, IInv, Typed, QueueOK
  <2>3. CountsOK' /\ TakenAcyclic' /\ VerdictRight'
    BY <2>1 DEF vars, IInv, CountsOK, TakenAcyclic, VerdictRight
  <2>. QED
    BY <2>2, <2>3 DEF IInv
<1>. QED
  BY <1>1, VisitKeeps, DecideKeeps DEF Next

\* The counters are right at every turn, for every graph.
THEOREM Invariance == Spec => []IInv
BY InitIInv, NextIInv, PTL DEF Spec

\* validate_metadata: every graph of parents is accepted exactly if it has no
\* cycle, whatever its size and the order of its records.
THEOREM RightVerdict == Spec => []VerdictRight
<1>1. IInv => VerdictRight
  BY DEF IInv
<1>. QED
  BY <1>1, Invariance, PTL

\* The counters never leave their ranges: nobody waits for more than there
\* are, and no Version is queued or visited twice.
THEOREM TypeCorrect == Spec => []TypeOK
<1>1. IInv => TypeOK
  <2> SUFFICES ASSUME IInv PROVE TypeOK
    OBVIOUS
  <2>1. Typed /\ QueueOK /\ CountsOK
    BY DEF IInv
  <2>2. Taken \in SUBSET Versions
    BY DEF Taken
  <2>3. visited \in 0 .. N
    BY <2>1, <2>2, VersionsFinite, FS_Subset, NAssumption DEF CountsOK, Typed
  <2>4. ASSUME NEW v \in Versions PROVE indegree[v] \in 0 .. N
    <3> DEFINE n == Cardinality(parents[v] \ Taken)
    <3>1. parents[v] \ Taken \in SUBSET Versions
      BY <2>1 DEF Typed
    <3>2. n \in Nat /\ n <= N
      BY <3>1, VersionsFinite, FS_Subset
    <3>3. indegree[v] = n
      BY <2>1 DEF CountsOK
    <3> HIDE DEF n
    <3>. QED
      BY <3>2, <3>3, NAssumption
  <2>5. Len(queue) <= N
    <3>1. Len(queue) \in Nat /\ queue \in [1 .. Len(queue) -> Versions]
      BY <2>1 DEF Typed
    <3>2. IsFiniteSet(1 .. Len(queue)) /\ Cardinality(1 .. Len(queue)) = Len(queue)
      BY <3>1, FS_Interval
    <3> DEFINE D == 1 .. Len(queue)
    <3>3. ~ \E i, j \in D : i # j /\ queue[i] = queue[j]
      BY <2>1 DEF QueueOK
    <3>4. IsFiniteSet(D) /\ queue \in [D -> Versions] /\ Cardinality(D) = Len(queue)
      BY <3>1, <3>2
    <3> HIDE DEF D
    <3>5. ~ (Cardinality(Versions) < Cardinality(D))
      BY <3>3, <3>4, VersionsFinite, FS_PigeonHole
    <3>. QED
      BY <3>1, <3>4, <3>5, VersionsFinite, NAssumption
  <2>. QED
    BY <2>1, <2>3, <2>4, <2>5 DEF Typed, TypeOK
<1>. QED
  BY <1>1, Invariance, PTL
-----------------------------------------------------------------------------
(* Versions that are records.                                              *)

\* record[v] is the record of Version v: one for each identity, and its
\* parents are those it refers to.
Of(record) ==
  /\ \A v, w \in Versions : record[v].id = record[w].id => v = w
  /\ \A v \in Versions :
       parents[v] = {w \in Versions : record[w].id \in Graph!Targets(record[v], "parent")}

\* No cycle of numbers is no cycle of records.
LEMMA SameOrder ==
  ASSUME NEW record, Of(record)
  PROVE  Graph!Ordered({record[v] : v \in Versions}) <=> Acyclic
<1> DEFINE records == {record[v] : v \in Versions}
           Refs(x) == Graph!Targets(x, "parent")
<1>0. Graph!Ordered(records) <=>
        \A group \in (SUBSET records) \ {{}} :
          \E x \in group : Refs(x) \cap {y.id : y \in group} = {}
  BY DEF Graph!Ordered, Graph!IdsOf
<1> HIDE DEF Refs
<1>1. ASSUME NEW v \in Versions, NEW S \in SUBSET Versions
      PROVE  parents[v] \cap S = {} <=> Refs(record[v]) \cap {y.id : y \in {record[w] : w \in S}} = {}
  <2>1. parents[v] = {w \in Versions : record[w].id \in Refs(record[v])}
    BY DEF Of, Refs
  <2>2. parents[v] \cap S = {} <=> \A w \in S : record[w].id \notin Refs(record[v])
    BY <2>1
  <2>. QED
    BY <2>2
<1>2. ASSUME Graph!Ordered(records), NEW S \in (SUBSET Versions) \ {{}}
      PROVE  \E v \in S : parents[v] \cap S = {}
  <2> DEFINE group == {record[w] : w \in S}
  <2>1. group \in (SUBSET records) \ {{}}
    OBVIOUS
  <2>2. PICK x \in group : Refs(x) \cap {y.id : y \in group} = {}
    BY <1>0, <1>2, <2>1
  <2>3. PICK v \in S : x = record[v]
    BY <2>2
  <2>. QED
    BY <1>1, <2>2, <2>3
<1>3. ASSUME Acyclic, NEW group \in (SUBSET records) \ {{}}
      PROVE  \E x \in group : Refs(x) \cap {y.id : y \in group} = {}
  <2> DEFINE S == {v \in Versions : record[v] \in group}
  <2>1. S \in (SUBSET Versions) \ {{}} /\ group = {record[v] : v \in S}
    BY <1>3
  <2>2. PICK v \in S : parents[v] \cap S = {}
    BY <1>3, <2>1 DEF Acyclic
  <2>3. Refs(record[v]) \cap {y.id : y \in {record[w] : w \in S}} = {}
    BY <1>1, <2>2
  <2> HIDE DEF S
  <2>4. v \in S /\ Refs(record[v]) \cap {y.id : y \in group} = {}
    BY <2>1, <2>2, <2>3
  <2>. QED
    BY <2>1, <2>4
<1>. QED
  BY <1>0, <1>2, <1>3 DEF Acyclic

\* What the loop of validate_metadata accepts is what Valid of RecordGraph
\* calls ordered: whichever records have these parents, the loop accepts them
\* only if they are, and refuses them only if they are not.
THEOREM DecidesOrdered ==
  ASSUME NEW record
  PROVE  Spec => [](Of(record) =>
           /\ verdict = "accepted" => Graph!Ordered({record[v] : v \in Versions})
           /\ verdict = "INTEGRITY_FAILURE" => ~Graph!Ordered({record[v] : v \in Versions}))
<1>1. VerdictRight =>
        (Of(record) =>
           /\ verdict = "accepted" => Graph!Ordered({record[v] : v \in Versions})
           /\ verdict = "INTEGRITY_FAILURE" => ~Graph!Ordered({record[v] : v \in Versions}))
  BY SameOrder DEF VerdictRight
<1>. QED
  BY <1>1, RightVerdict, PTL
=============================================================================
