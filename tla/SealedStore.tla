----------------------------- MODULE SealedStore -----------------------------
(***************************************************************************)
(* What recovery.py promises about the names it publishes under            *)
(* (docs/a2/INTERFACE_PROFILE.md), without directories, links, copies or   *)
(* crashes: a name comes to hold a complete content in one step, by one    *)
(* call, and keeps it; and what a call is told about publication is true.  *)
(* A name is the path of a snapshot generation or of a restored database.  *)
(***************************************************************************)
EXTENDS Naturals

CONSTANTS Calls,        \* calls of create, publish, verify, restore, check_restore
          Jobs,         \* what a call can be asked to do
          NoJob,
          Places,       \* the names
          Contents,     \* Contents[x]: what x can hold, manifests or databases
          Gone,         \* it holds nothing
          Spoiled       \* somebody else changed what was there

VARIABLES held,         \* held[x]: what name x holds
          asked, reply,
          sealers       \* the calls that published

vars == <<held, asked, reply, sealers>>

Codes == {"OK", "TARGET_EXISTS", "NOT_FOUND", "INCOMPLETE_SNAPSHOT",
          "INTEGRITY_FAILURE", "IO_ERROR", "PUBLICATION_UNKNOWN"}
States == {"published", "not_published", "unknown", "not_applicable"}

Pending == [code |-> "PENDING", state |-> "none"]
Lost == [code |-> "LOST", state |-> "none"]
Replies == [code : Codes, state : States] \cup {Pending, Lost}

Asked(c) == asked[c] # NoJob
Running(c) == Asked(c) /\ reply[c] = Pending

\* What the caller of a reading operation expects of its input: a manifest for
\* a generation, the database for a restored target.
Expectation(c) ==
  IF asked[c].op = "check_restore" THEN asked[c].expected.image ELSE asked[c].expected

Init ==
  /\ held = [x \in Places |-> Gone]
  /\ asked = [c \in Calls |-> NoJob]
  /\ reply = [c \in Calls |-> Pending]
  /\ sealers = {}

Ask(c, j) ==
  /\ ~ Asked(c)
  /\ asked' = [asked EXCEPT ![c] = j]
  /\ UNCHANGED <<held, reply, sealers>>

\* The one moment a name comes to hold something: what was asked for.
Seal(c) ==
  /\ Running(c)
  /\ asked[c].op \in {"create", "publish", "restore"}
  /\ c \notin sealers
  /\ LET x == asked[c].to IN
       /\ \/ held[x] = Spoiled /\ held'[x] = Spoiled
          \/ /\ held[x] = Gone
             /\ held'[x] \in Contents[x]
             /\ asked[c].op = "publish" => held'[x] = asked[c].expected
             /\ asked[c].op = "restore" => held'[x] = asked[c].expected.image
       /\ held' = [held EXCEPT ![x] = held'[x]]
  /\ sealers' = sealers \cup {c}
  /\ UNCHANGED <<asked, reply>>

\* Power is lost.  What was not yet acknowledged as published may be gone.
LosePower ==
  /\ held' = [x \in Places |-> held'[x]]
  /\ \A x \in Places :
       held'[x] # held[x] =>
         /\ held[x] # Spoiled /\ held'[x] = Gone
         /\ \A c \in Calls : ~ (/\ Asked(c) /\ c \in sealers /\ asked[c].to = x
                                /\ reply[c].state = "published")
  /\ reply' = [c \in Calls |-> IF Running(c) THEN Lost ELSE reply[c]]
  /\ UNCHANGED <<asked, sealers>>

\* Somebody other than these calls, or the medium, changes what is there.
Spoil(x) ==
  /\ held' = [held EXCEPT ![x] = Spoiled]
  /\ UNCHANGED <<asked, reply, sealers>>

\* What may be told to call c.
Truthful(c, a) ==
  /\ a.state = "published" => c \in sealers /\ held[asked[c].to] # Gone
  /\ a.state \in {"not_published", "not_applicable"} => c \notin sealers
  /\ a.code = "OK" /\ asked[c].op \in {"publish", "verify", "restore", "check_restore"}
       => held[asked[c].from] \in {Expectation(c), Spoiled}
  /\ a.code = "PUBLICATION_UNKNOWN" <=> a.state = "unknown"

Answer(c) ==
  /\ Running(c)
  /\ reply'[c] \in Replies \ {Pending}
  /\ Truthful(c, reply'[c])
  /\ reply' = [reply EXCEPT ![c] = reply'[c]]
  /\ UNCHANGED <<held, asked, sealers>>

Next ==
  \/ LosePower
  \/ \E x \in Places : Spoil(x)
  \/ \E c \in Calls : \/ \E j \in Jobs : Ask(c, j)
                      \/ Seal(c)
                      \/ Answer(c)

Spec == Init /\ [][Next]_vars
=============================================================================
