-------------------------- MODULE IdempotentLedger --------------------------
(***************************************************************************)
(* What the Ledger promises a writer (docs/INTERFACE_PROFILE.md 5-6),      *)
(* without handles, locks, transactions or crashes: a call takes effect at *)
(* most once, atomically and between being made and being answered; the    *)
(* answer never claims more than is true then or ever after; and nothing   *)
(* stored is ever changed.                                                 *)
(***************************************************************************)
EXTENDS LedgerData

CONSTANTS MaxCalls,     \* how many calls are made in all
          NoRequest

VARIABLES db,       \* the committed content
          asked,    \* asked[c]: the request of call c
          reply,    \* reply[c]: what call c was told
          landed    \* the calls whose own transaction became durable

vars == <<db, asked, reply, landed>>

Calls == 1 .. MaxCalls

NoTime == Untimed

Codes == {"COMMITTED", "INVALID_INPUT", "NOT_FOUND", "IDENTITY_CONFLICT",
          "IDEMPOTENCY_CONFLICT", "INTEGRITY_FAILURE", "BUSY", "IO_ERROR",
          "INTERNAL_ERROR", "DURABILITY_UNKNOWN"}

States == {"committed", "not_committed", "unknown"}

\* Interrupted is an exception that is not an error answer: it claims
\* nothing.  Lost is the answer of a process that died.
Pending     == [code |-> "PENDING", state |-> "none", at |-> NoTime, replayed |-> FALSE]
Lost        == [code |-> "LOST", state |-> "none", at |-> NoTime, replayed |-> FALSE]
Interrupted == [code |-> "INTERRUPTED", state |-> "none", at |-> NoTime, replayed |-> FALSE]

Replies == [code : Codes, state : States, at : Times \cup {NoTime}, replayed : BOOLEAN]
             \cup {Pending, Lost, Interrupted}

Open(c) == asked[c] # NoRequest /\ reply[c] = Pending

Init ==
  /\ db = EmptyDatabase
  /\ asked = [c \in Calls |-> NoRequest]
  /\ reply = [c \in Calls |-> Pending]
  /\ landed = {}

Ask(c, r) ==
  /\ asked[c] = NoRequest
  /\ asked' = [asked EXCEPT ![c] = r]
  /\ UNCHANGED <<db, reply, landed>>

\* The one moment a call takes effect: all of its records and operations at
\* once, under a free idempotency tuple and with nothing against it.
Land(c, t) ==
  /\ Open(c)
  /\ c \notin landed
  /\ landed' = landed \cup {c}
  /\ Previous(asked[c], db) = {}
  /\ Rejections(asked[c], "good", db) = {}
  /\ db' = [recs |-> db.recs \cup NewRecords(asked[c], db, t),
            ops |-> db.ops \cup NewOperations(asked[c], db, t)]
  /\ UNCHANGED <<asked, reply>>

\* What an answer may claim about call c.
Truthful(c, a) ==
  /\ a.state = "committed" => \E o \in db.ops : o.req = asked[c] /\ o.at = a.at
  /\ a.state = "not_committed" => c \notin landed
  /\ a.code = "COMMITTED" => /\ a.state = "committed"
                             /\ a.replayed <=> c \notin landed
  /\ a.code = "BUSY" => a.state = "not_committed"
  /\ a.code = "DURABILITY_UNKNOWN" <=> a.state = "unknown"

Answer(c) ==
  /\ Open(c)
  /\ reply'[c] \in Replies \ {Pending}
  /\ Truthful(c, reply'[c])
  /\ reply' = [reply EXCEPT ![c] = reply'[c]]
  /\ UNCHANGED <<db, asked, landed>>

Next ==
  \E c \in Calls : \/ \E r \in Requests : Ask(c, r)
                   \/ \E t \in Times : Land(c, t)
                   \/ Answer(c)

Spec == Init /\ [][Next]_vars
=============================================================================
