----------------------------- MODULE LedgerData -----------------------------
(***************************************************************************)
(* What a Ledger database holds and what one write request does to it.     *)
(*                                                                         *)
(* A request is a point of the finite set Requests; two requests with the  *)
(* same canonical body are the same point, so equality of requests stands  *)
(* for equality of request_fingerprint.  Body[r] says, for request r:      *)
(*   kind     the operation_kind;                                          *)
(*   key      its idempotency tuple (scope, kind, key);                    *)
(*   timed    the records stamped with this call's recorded_at (a created  *)
(*            Artifact; an appended Version and its provenance; a Receipt);*)
(*   carried  the records it carries complete (ContentRoots, Blobs and     *)
(*            Manifests of an append; the whole content of a bundle);      *)
(*   needs    the Artifact an append targets;                              *)
(*   uses     the identities its records refer to;                         *)
(*   closure  the Blobs whose bytes are written or compared;               *)
(*   history  the successful operations a bundle brings along;             *)
(*   result   the record its success names (result_ref).                   *)
(* A record has an owned id, the Artifact whose history it belongs to (art,*)
(* NoArtifact when it belongs to none), the request that described it (by) *)
(* and its time (at, Untimed when its kind has no recorded_at).            *)
(***************************************************************************)
EXTENDS Naturals, FiniteSets

CONSTANTS Requests,     \* canonical requests
          Keys,         \* idempotency tuples
          Ids,          \* owned identities of all seven record kinds
          Blobs,        \* those of Blobs
          NoArtifact,   \* the "art" of a record in no Artifact's history
          Times,        \* values recorded_at can take
          Body          \* what each request says

Untimed == 0

Kinds == {"create_artifact", "append_version", "import_bundle"}

Record == [id : Ids, art : Ids \cup {NoArtifact}, by : Requests,
           at : Times \cup {Untimed}]

\* A successful operation; its key and result follow from its request.
Operation == [req : Requests, at : Times]

Database == [recs : SUBSET Record, ops : SUBSET Operation]

EmptyDatabase == [recs |-> {}, ops |-> {}]

ASSUME TimesAssumption == Times \subseteq Nat \ {Untimed}

ASSUME BlobsAssumption == Blobs \subseteq Ids

ASSUME BodyAssumption ==
  Body \in [Requests ->
              [kind : Kinds, key : Keys,
               timed : SUBSET [id : Ids, art : Ids \cup {NoArtifact}],
               carried : SUBSET Record, needs : SUBSET Ids,
               uses : SUBSET Ids, closure : SUBSET Blobs,
               history : SUBSET Operation, result : Ids]]

\* Bug: operations are told apart by fingerprint instead of by tuple.
FingerprintOf(o) == o.req

KeyOf(o) == Body[o.req].key

Owned(recs) == {x.id : x \in recs}

Stamped(r, t) ==
  {[id |-> x.id, art |-> x.art, by |-> r, at |-> t] : x \in Body[r].timed}

HistoryOf(recs, a) == {x \in recs : x.art = a}

\* What decode_bundle and validate_request establish.  A package has one
\* operation per key, one record per identity, and the record each operation
\* names as its result; that it also has what else the operation wrote is
\* checked nowhere.  A request describes each of its identities once, and its
\* result is one it stamps.
ASSUME BundleAssumption ==
  \A r \in Requests :
    /\ \A o \in Body[r].history : Body[o.req].result \in Owned(Body[r].carried)
    /\ \A o, p \in Body[r].history : KeyOf(o) = KeyOf(p) => o = p
    /\ \A x, y \in Body[r].carried : x.id = y.id => x = y
    /\ \A x, y \in Body[r].timed : x.id = y.id => x = y
    /\ Owned(Body[r].timed) \cap Owned(Body[r].carried) = {}
    /\ Body[r].result \in Owned(Body[r].timed)

(***************************************************************************)
(* Why the planners _create, _append and _import refuse request r on       *)
(* database d: the set of codes one of whose causes is present.  "extra"   *)
(* is an append whose payloads reach outside the new Version's closure,    *)
(* "altered" one with bytes that are not those of a Blob it reuses.  What  *)
(* an append refers to is looked at once its Artifact was found.           *)
(***************************************************************************)
Conflicts(r, d) ==
  \/ Owned(Body[r].timed) \cap Owned(d.recs) # {}
  \/ \E x \in Body[r].carried, y \in d.recs : x.id = y.id /\ x # y
  \/ \E x \in Body[r].carried :
       /\ x.art = x.id
       /\ x \in d.recs
       /\ HistoryOf(d.recs, x.id) # HistoryOf(Body[r].carried, x.id)

HistoryConflicts(r, d) ==
  \E o \in Body[r].history :
    \/ KeyOf(o) = Body[r].key
    \/ \E p \in d.ops : KeyOf(o) = KeyOf(p) /\ o # p

\* A reference does not resolve to a record of its kind.
Dangling(r, d) ==
  ~ Body[r].uses \subseteq Owned(d.recs) \cup Owned(Body[r].timed)
                                          \cup Owned(Body[r].carried)

Found(r, d) == Body[r].needs \subseteq Owned(d.recs)

Rejections(r, supplied, d) ==
  {code \in {"NOT_FOUND", "IDENTITY_CONFLICT", "IDEMPOTENCY_CONFLICT", "INVALID_INPUT",
             "INTEGRITY_FAILURE"} :
     \/ code = "NOT_FOUND" /\ ~ Found(r, d)
     \/ code = "IDENTITY_CONFLICT" /\ Conflicts(r, d)
     \/ code = "IDEMPOTENCY_CONFLICT" /\ HistoryConflicts(r, d)
     \/ code = "INVALID_INPUT" /\ Found(r, d) /\ supplied = "extra"
     \/ /\ code = "INTEGRITY_FAILURE"
        /\ Found(r, d)
        /\ Dangling(r, d) \/ supplied = "altered"}

\* The Blobs a request uses without describing them anew.
Reused(r) == Body[r].closure \ Owned(Body[r].carried)

\* Bug: only what this call stamps is inserted.
NewRecordsStamped(r, d, t) == Stamped(r, t)

\* What the transaction inserts: records first, then operations.
NewRecords(r, d, t) == Stamped(r, t) \cup (Body[r].carried \ d.recs)

NewOperations(r, d, t) == (Body[r].history \ d.ops) \cup {[req |-> r, at |-> t]}

\* The successful operation stored under r's idempotency tuple, if any.
Previous(r, d) == {o \in d.ops : KeyOf(o) = Body[r].key}

\* Everything the original request wrote is still there.  Times stamped by
\* the original call are not compared; those a bundle carries are.
ReplayMatches(r, d) ==
  /\ \A x \in Body[r].timed :
       \E y \in d.recs : y.id = x.id /\ y.art = x.art /\ y.by = r
  /\ Body[r].carried \subseteq d.recs
  /\ Body[r].history \subseteq d.ops
=============================================================================
