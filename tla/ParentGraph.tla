---------------------------- MODULE ParentGraph ----------------------------
(***************************************************************************)
(* validation.py, validate_metadata: the loop that refuses a cycle among   *)
(* the parents of Versions.  The Versions are 1 .. N in the order in which *)
(* the records come; that every parent is one of them has been checked.    *)
(***************************************************************************)
EXTENDS Naturals, Sequences, FiniteSets, SequencesExt

CONSTANT N

ASSUME NAssumption == N \in Nat

Versions == 1 .. N

VARIABLES parents,   \* parent_version_refs of each Version
          indegree,  \* of each Version, its parents not yet visited
          queue,
          visited,   \* how many were taken from the queue
          verdict

vars == <<parents, indegree, queue, visited, verdict>>

Children(v) == {c \in Versions : v \in parents[c]}

\* The Versions of S, each once, in the order of the records.
InOrder(S) == CHOOSE q \in SetToSeqs(S) : \A i, j \in DOMAIN q : i < j => q[i] < q[j]

Init ==
  /\ parents \in [Versions -> SUBSET Versions]
  /\ indegree = [v \in Versions |-> Cardinality(parents[v])]
  /\ queue = InOrder({v \in Versions : parents[v] = {}})
  /\ visited = 0
  /\ verdict = "none"

\* Bug: a child is queued with each of its parents, and the counts saturate.
VisitRepeatedly ==
  /\ queue # <<>>
  /\ queue' = Tail(queue) \o InOrder(Children(Head(queue)))
  /\ indegree' = [c \in Versions |-> IF c \in Children(Head(queue)) /\ indegree[c] > 0
                                     THEN indegree[c] - 1 ELSE indegree[c]]
  /\ visited' = IF visited < N THEN visited + 1 ELSE visited
  /\ UNCHANGED <<parents, verdict>>

\* One turn of the loop: a Version whose parents were all visited.
Visit ==
  /\ queue # <<>>
  /\ LET ready == {c \in Children(Head(queue)) : indegree[c] = 1}
     IN  queue' = Tail(queue) \o InOrder(ready)
  /\ indegree' = [c \in Versions |-> IF c \in Children(Head(queue)) THEN indegree[c] - 1
                                     ELSE indegree[c]]
  /\ visited' = visited + 1
  /\ UNCHANGED <<parents, verdict>>

\* Bug: the end of the loop is taken for success.
DecideAlways ==
  /\ queue = <<>> /\ verdict = "none"
  /\ verdict' = "accepted"
  /\ UNCHANGED <<parents, indegree, queue, visited>>

Decide ==
  /\ queue = <<>> /\ verdict = "none"
  /\ verdict' = IF visited = N THEN "accepted" ELSE "INTEGRITY_FAILURE"
  /\ UNCHANGED <<parents, indegree, queue, visited>>

Next == Visit \/ Decide

\* The loop runs: nothing in it waits.
Spec == Init /\ [][Next]_vars /\ WF_vars(Next)
-----------------------------------------------------------------------------
TypeOK ==
  /\ parents \in [Versions -> SUBSET Versions]
  /\ indegree \in [Versions -> 0 .. N]
  /\ queue \in Seq(Versions) /\ Len(queue) <= N
  /\ visited \in 0 .. N
  /\ verdict \in {"none", "accepted", "INTEGRITY_FAILURE"}

\* No Version is among its ancestors: any Versions taken together have a
\* first one.
Acyclic ==
  \A S \in (SUBSET Versions) \ {{}} : \E v \in S : parents[v] \cap S = {}

\* The graph is accepted exactly if it has no cycle, whatever the order of
\* the records (validate_metadata).
VerdictRight ==
  /\ verdict = "accepted" => Acyclic
  /\ verdict = "INTEGRITY_FAILURE" => ~Acyclic

\* The loop ends for every graph, cyclic ones included.
Terminates == <>(verdict # "none")
=============================================================================
