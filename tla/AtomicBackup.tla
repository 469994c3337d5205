---------------------------- MODULE AtomicBackup ----------------------------
(***************************************************************************)
(* What a snapshot of a live Ledger promises (docs/a2/REQUIREMENTS.md,     *)
(* A2-R01): between being asked and being answered there is one moment T0, *)
(* and a success is the committed content of one database at T0, neither a *)
(* mixture of commits nor anything uncommitted.                            *)
(***************************************************************************)
EXTENDS Naturals

CONSTANTS Snapshots,    \* calls
          Files,        \* databases that may be at the source path
          NoImage, Codes

VARIABLES content,      \* content[f]: the number of commits of database f
          asked,        \* the calls that were made
          taken,        \* taken[s]: what there was at T0 of s
          told          \* told[s]: the answer

vars == <<content, asked, taken, told>>

Image == [file : Files, commits : Nat]

Pending == [code |-> "PENDING", image |-> NoImage]
Failures == [code : Codes, image : {NoImage}]
Replies == {Pending} \cup Failures \cup [code : {"OK"}, image : Image]

Init ==
  /\ content = [f \in Files |-> 0]
  /\ asked = {}
  /\ taken = [s \in Snapshots |-> NoImage]
  /\ told = [s \in Snapshots |-> Pending]

Commit(f) ==
  /\ content' = [content EXCEPT ![f] = @ + 1]
  /\ UNCHANGED <<asked, taken, told>>

Ask(s) ==
  /\ s \notin asked
  /\ asked' = asked \cup {s}
  /\ UNCHANGED <<content, taken, told>>

Take(s, f) ==
  /\ s \in asked /\ taken[s] = NoImage /\ told[s] = Pending
  /\ taken' = [taken EXCEPT ![s] = [file |-> f, commits |-> content[f]]]
  /\ UNCHANGED <<content, asked, told>>

\* Several calls of one process may end at once, with it.
Answer ==
  /\ told' \in [Snapshots -> Replies]
  /\ \A s \in Snapshots : told'[s] # told[s] =>
       /\ s \in asked /\ told[s] = Pending
       /\ told'[s].code = "OK" => told'[s].image = taken[s]
  /\ UNCHANGED <<content, asked, taken>>

Next ==
  \/ \E f \in Files : Commit(f)
  \/ \E s \in Snapshots : Ask(s) \/ (\E f \in Files : Take(s, f))
  \/ Answer

Spec == Init /\ [][Next]_vars
=============================================================================
