----------------------------- MODULE Initialize -----------------------------
(***************************************************************************)
(* sqlite_store.py, SQLiteStore._initialize and connect: processes that    *)
(* create a Ledger at one path, or open what is there, against each other, *)
(* other actors, failures, deaths and losses of power.                     *)
(*                                                                         *)
(* The file a call makes has the name of the call; Foreign is a file of    *)
(* somebody else.  "side" is any of the three sidecar names of the path.   *)
(***************************************************************************)
EXTENDS Naturals, FiniteSets

CONSTANTS Creators, Openers,   \* calls of initialize, calls of open
          Gone, Foreign,
          MaxFaults            \* bound: failures, deaths and foreign changes

\* No file of a call is the absence of a file, or a file of somebody else.
ASSUME NamesAssumption ==
  /\ Gone # Foreign /\ Gone \notin Creators /\ Foreign \notin Creators
  /\ Gone \notin {"partial", "whole"}
ASSUME FaultsAssumption == MaxFaults \in Nat

VARIABLES
  name, side,     \* what is at the path and beside it, as processes see it
  diskname,       \* the first, as a loss of power leaves it
  body,           \* body[c]: the bytes of the file of c
  synced,         \* the calls whose file is on the disk
  staging,        \* the calls whose private directory exists
  lingering,      \* those whose directory was removed, but perhaps not on the disk
  pc,
  opened,         \* opened[c]: the file the handle of c is connected to
  code, reply,
  early,          \* history: the creators that had not yet looked for the second
                  \* time when the sidecar that is there appeared
  recovered,      \* history: those of them that opened the path beside it
  meddled,        \* history: another actor changed what is at the path
  outlived,       \* history: the creators that had succeeded when power was lost
  faults

path == <<name, side, diskname>>
made == <<body, synced, staging, lingering>>
hist == <<early, recovered, meddled, outlived>>
vars == <<path, made, pc, opened, code, reply, hist, faults>>

Calls == Creators \cup Openers
Bodies == {Gone, "partial", "whole"}

Init ==
  /\ name \in {Gone, Foreign}
  /\ side \in {Gone, Foreign}
  /\ diskname = name
  /\ body = [c \in Creators |-> Gone]
  /\ synced = {} /\ staging = {} /\ lingering = {}
  /\ pc = [c \in Calls |-> "new"]
  /\ opened = [c \in Calls |-> Gone]
  /\ code = [c \in Calls |-> "none"]
  /\ reply = [c \in Calls |-> "pending"]
  /\ early = IF side = Gone THEN {} ELSE Creators
  /\ recovered = {} /\ meddled = FALSE /\ outlived = {}
  /\ faults = 0

Fault == faults < MaxFaults /\ faults' = faults + 1
goto(c, point) == pc' = [pc EXCEPT ![c] = point]
raise(c, e) == code' = [code EXCEPT ![c] = e] /\ goto(c, "failed")
-----------------------------------------------------------------------------
(* Building in a private directory.                                        *)

Ask(c) ==
  /\ pc[c] = "new"
  /\ goto(c, IF c \in Creators THEN "look" ELSE "open")
  /\ UNCHANGED <<path, made, opened, code, reply, hist, faults>>

\* Bug: only the path itself is tested.
OccupiedMain == name # Gone

\* _require_new_target
Occupied == name # Gone \/ side # Gone

Look(c, here, next) ==
  /\ pc[c] = here
  /\ IF Occupied THEN raise(c, "IDENTITY_CONFLICT") ELSE goto(c, next) /\ UNCHANGED code
  /\ UNCHANGED <<path, made, opened, reply, hist, faults>>

Stage(c) ==
  /\ pc[c] = "stage"
  /\ staging' = staging \cup {c}
  /\ body' = [body EXCEPT ![c] = "partial"]
  /\ goto(c, "build")
  /\ UNCHANGED <<path, synced, lingering, opened, code, reply, hist, faults>>

\* The schema and the header row, in one committed transaction.
Build(c) ==
  /\ pc[c] = "build"
  /\ body' = [body EXCEPT ![c] = "whole"]
  /\ goto(c, "sync")
  /\ UNCHANGED <<path, synced, staging, lingering, opened, code, reply, hist, faults>>

\* Bug: the file is not synced before it is linked.
SyncNothing(c) ==
  /\ pc[c] = "sync"
  /\ goto(c, "look again")
  /\ UNCHANGED <<path, made, opened, code, reply, hist, faults>>

SyncFile(c) ==
  /\ pc[c] = "sync"
  /\ synced' = synced \cup {c}
  /\ goto(c, "look again")
  /\ UNCHANGED <<path, body, staging, lingering, opened, code, reply, hist, faults>>
-----------------------------------------------------------------------------
(* Publication.                                                            *)

Link(c) ==
  /\ pc[c] = "link"
  /\ IF name # Gone THEN raise(c, "IDENTITY_CONFLICT") /\ UNCHANGED name
     ELSE name' = c /\ goto(c, "sync directory") /\ UNCHANGED code
  /\ UNCHANGED <<side, diskname, made, opened, reply, hist, faults>>

\* link raises, having taken effect or not.
LinkFails(c) ==
  /\ pc[c] = "link"
  /\ Fault
  /\ \/ UNCHANGED name
     \/ name = Gone /\ name' = c
  /\ raise(c, "IO_ERROR")
  /\ UNCHANGED <<side, diskname, made, opened, reply, hist>>

\* Bug: the directory is not synced.
SyncDirectoryNothing(c) ==
  /\ pc[c] = "sync directory"
  /\ goto(c, "unstage")
  /\ UNCHANGED <<path, made, opened, code, reply, hist, faults>>

\* The name, and what else was made or removed beside it.
SyncDirectory(c) ==
  /\ pc[c] = "sync directory"
  /\ diskname' = name
  /\ lingering' = {}
  /\ goto(c, "unstage")
  /\ UNCHANGED <<name, side, body, synced, staging, opened, code, reply, hist, faults>>

\* The private directory goes after the last sync.
Unstage(c) ==
  /\ pc[c] = "unstage"
  /\ staging' = staging \ {c}
  /\ lingering' = lingering \cup {c}
  /\ goto(c, "same")
  /\ UNCHANGED <<path, body, synced, opened, code, reply, hist, faults>>

\* _same_file
Same(c) == name = c

CheckSame(c) ==
  /\ pc[c] = "same"
  /\ IF Same(c) THEN goto(c, "open") /\ UNCHANGED code ELSE raise(c, "IO_ERROR")
  /\ UNCHANGED <<path, made, opened, reply, hist, faults>>
-----------------------------------------------------------------------------
(* connect, and ending.                                                    *)

\* Why the file at the path is refused, if it is.  A foreign one may be
\* anything: no database, one of another program, profile or version, or a
\* Ledger.
Refusals ==
  CASE name = Gone -> {"NOT_FOUND"}
    [] name = Foreign -> {"INTEGRITY_FAILURE", "UNSUPPORTED_VERSION", "UNSUPPORTED_PROFILE", "none"}
    [] name \in Creators /\ body[name] # "whole" -> {"INTEGRITY_FAILURE", "UNSUPPORTED_VERSION"}
    [] OTHER -> {"none"}

\* SQLite recovers the database from a journal that is beside it before it
\* reads.
Open(c) ==
  /\ pc[c] = "open"
  /\ IF name # Gone /\ side # Gone
     THEN /\ side' = Gone
          /\ recovered' = IF c \in early THEN recovered \cup {c} ELSE recovered
          /\ early' = {}
     ELSE UNCHANGED <<side, recovered, early>>
  /\ \/ \E e \in Refusals \ {"none"} : raise(c, e) /\ UNCHANGED opened
     \/ /\ "none" \in Refusals
        /\ opened' = [opened EXCEPT ![c] = name]
        /\ goto(c, "same again")
        /\ UNCHANGED code
  /\ UNCHANGED <<name, diskname, made, reply, meddled, outlived, faults>>

\* A creator makes sure that it opened its own file.
Return(c) ==
  /\ pc[c] = "same again"
  /\ IF c \in Creators => Same(c)
     THEN reply' = [reply EXCEPT ![c] = "OK"] /\ goto(c, "done") /\ UNCHANGED <<code, opened>>
     ELSE raise(c, "IO_ERROR") /\ opened' = [opened EXCEPT ![c] = Gone] /\ UNCHANGED reply
  /\ UNCHANGED <<path, made, hist, faults>>

\* The private directory is removed, if that succeeds; nothing else is.
Failed(c) ==
  /\ pc[c] = "failed"
  /\ \/ /\ staging' = staging \ {c}
        /\ lingering' = lingering \cup (staging \cap {c})
        /\ UNCHANGED faults
     \/ Fault /\ UNCHANGED <<staging, lingering>>
  /\ reply' = [reply EXCEPT ![c] = code[c]]
  /\ goto(c, "done")
  /\ UNCHANGED <<path, body, synced, opened, code, hist>>
-----------------------------------------------------------------------------
(* Failures, deaths, and everybody else.                                   *)

Running(c) == pc[c] \notin {"new", "done"}

\* A system call or a statement fails.
Fail(c) ==
  /\ Running(c) /\ pc[c] # "failed"
  /\ Fault
  /\ raise(c, "IO_ERROR")
  /\ opened' = [opened EXCEPT ![c] = Gone]
  /\ UNCHANGED <<path, made, reply, hist>>

Crash(c) ==
  /\ Running(c)
  /\ Fault
  /\ reply' = [reply EXCEPT ![c] = "lost"]
  /\ goto(c, "done")
  /\ UNCHANGED <<path, made, opened, code, hist>>

\* What was not synced may be lost, or half there, or back.
PowerLoss ==
  /\ Fault
  /\ name' \in {name, diskname} /\ diskname' = name'
  /\ \E torn \in SUBSET {c \in Creators \ synced : body[c] # Gone} :
       body' = [c \in Creators |-> IF c \in torn THEN "partial" ELSE body[c]]
  /\ synced' = {c \in Creators : body[c] # Gone}
  /\ staging' \in SUBSET (staging \cup lingering)
  /\ lingering' = {}
  /\ outlived' = outlived \cup {c \in Creators : reply[c] = "OK"}
  /\ pc' = [c \in Calls |-> IF Running(c) THEN "done" ELSE pc[c]]
  /\ reply' = [c \in Calls |-> IF Running(c) THEN "lost" ELSE reply[c]]
  /\ opened' = [c \in Calls |-> IF Running(c) THEN Gone ELSE opened[c]]
  /\ UNCHANGED <<side, code, early, recovered, meddled>>

\* Another actor creates, replaces or removes what is at the path.
Meddle ==
  /\ Fault
  /\ name' \in {Gone, Foreign} \ {name}
  /\ diskname' = name'
  /\ meddled' = TRUE
  /\ UNCHANGED <<side, made, pc, opened, code, reply, early, recovered, outlived>>

\* A sidecar of an older database appears at the path.
LeaveSidecar ==
  /\ side = Gone
  /\ Fault
  /\ side' = Foreign
  /\ early' = {c \in Creators : pc[c] \in {"new", "look", "stage", "build", "sync", "look again"}}
  /\ UNCHANGED <<name, diskname, made, pc, opened, code, reply, recovered, meddled, outlived>>

Next ==
  \/ \E c \in Calls : Ask(c) \/ Open(c) \/ Return(c) \/ Failed(c) \/ Fail(c) \/ Crash(c)
  \/ \E c \in Creators : \/ Look(c, "look", "stage") \/ Stage(c) \/ Build(c) \/ SyncFile(c)
                         \/ Look(c, "look again", "link") \/ Link(c) \/ LinkFails(c)
                         \/ SyncDirectory(c) \/ Unstage(c) \/ CheckSame(c)
  \/ PowerLoss \/ Meddle \/ LeaveSidecar

Spec == Init /\ [][Next]_vars
-----------------------------------------------------------------------------
Points == {"new", "look", "stage", "build", "sync", "look again", "link", "sync directory",
           "unstage", "same", "open", "same again", "failed", "done"}
Codes == {"IDENTITY_CONFLICT", "IO_ERROR", "NOT_FOUND", "INTEGRITY_FAILURE",
          "UNSUPPORTED_VERSION", "UNSUPPORTED_PROFILE"}

TypeOK ==
  /\ name \in {Gone, Foreign} \cup Creators
  /\ side \in {Gone, Foreign}
  /\ diskname \in {Gone, Foreign} \cup Creators
  /\ body \in [Creators -> Bodies]
  /\ synced \subseteq Creators /\ staging \subseteq Creators /\ lingering \subseteq Creators
  /\ pc \in [Calls -> Points]
  /\ opened \in [Calls -> {Gone, Foreign} \cup Creators]
  /\ code \in [Calls -> Codes \cup {"none"}]
  /\ reply \in [Calls -> Codes \cup {"pending", "OK", "lost"}]
  /\ early \subseteq Creators /\ recovered \subseteq Creators
  /\ meddled \in BOOLEAN /\ outlived \subseteq Creators
  /\ faults \in 0 .. MaxFaults

\* A file of a creator that is at the path, on the disk under that name or
\* open in a handle is whole, at every moment and after any loss of power:
\* nothing but a finished and synced file is ever linked (_initialize).
Visible == {name, diskname} \cup {opened[c] : c \in Calls}

NeverHalfMade == \A c \in Visible \cap Creators : body[c] = "whole"

\* A creator that succeeds holds the file it made, which stays there for ever
\* unless somebody else changes it, so at most one succeeds (_same_file and
\* the syncs before it).  Its private directory is gone, though nothing syncs
\* that: a loss of power after the success may bring it back
\* (_staging_directory).
CreatedIsOwn ==
  \A c \in Creators : reply[c] = "OK" =>
    /\ opened[c] = c
    /\ meddled \/ (name = c /\ diskname = c)
    /\ c \in staging => c \in outlived

\* Creation recovers nothing from an older database's sidecar, unless that
\* appeared after the second look at the path (_require_new_target).
OldSidecarsKept == recovered = {}
=============================================================================
