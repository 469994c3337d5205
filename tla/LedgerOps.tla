----------------------------- MODULE LedgerOps -----------------------------
(***************************************************************************)
(* What the operations of Ledgers do to their records: the planners of     *)
(* execute, its replay check, the queries, verify, and bundles going from  *)
(* one Ledger to another, while stored rows may be damaged.                *)
(*                                                                         *)
(* A step is one whole transaction: that those of one Ledger are atomic    *)
(* and isolated is what WriteProtocol shows.  Where several causes refuse  *)
(* a call, which of them is reported is left open.                         *)
(***************************************************************************)
EXTENDS RecordGraph

CONSTANTS Ledgers,
          Asked,        \* Asked[l]: the create and append requests made of l
          Payloads,     \* what may be supplied with an append
          Imports,      \* [key, receipt] of import requests
          Foreign,      \* bundles that no Ledger here exported
          MaxJson,      \* records and operations in one JSON document
          MaxImports,   \* bound: imports into one Ledger
          MaxDamage     \* bound: damaged rows, all of one Ledger

ASSUME StampsAssumption == Ledgers \subseteq Stamps

\* What validate_request lets through: records of the kinds its body names,
\* which have no time yet.
ASSUME RequestsAssumption ==
  \A l \in Ledgers : \A req \in Asked[l] :
    /\ req.tuple.kind = "create_artifact" =>
         /\ req \in [tuple : Tuple, artifact : Record]
         /\ req.artifact.kind = "artifact" /\ Shaped(req.artifact) /\ req.artifact.at = Untimed
    /\ req.tuple.kind = "append_version" =>
         /\ req \in [tuple : Tuple, version : Record, others : SUBSET Record]
         /\ req.version.kind = "version" /\ req.version.at = Untimed
         /\ \A x \in req.others :
              x.kind \in {"content_root", "blob", "manifest", "provenance_link"} /\ x.at = Untimed

\* A success as it is stored (operation_record of execute).
Operation(o) ==
  /\ o.tuple \in Tuple
  /\ o = [tuple |-> o.tuple, asked |-> o.asked, result |-> o.result, at |-> o.at]

\* What parsing lets through of the rest.
ASSUME InputsAssumption ==
  /\ Imports \subseteq [key : Keys, receipt : Ids]
  /\ \A b \in Foreign : b.recs \subseteq Record /\ \A o \in b.ops : Operation(o)
  /\ MaxDamage \in Nat

VARIABLES
  rows,       \* rows[l]: the records table, [id, kind, data]
  index,      \* index[l]: the refs table
  stored,     \* stored[l]: the payloads table, a function from Blobs to bytes
  done,       \* done[l]: the operations table, [tuple, result, data]
  bundle,     \* the last export
  damaged     \* history: how many rows of l were damaged

vars == <<rows, index, stored, done, bundle, damaged>>

Nothing == [recs |-> {}, ops |-> {}, payloads |-> <<>>]

Init ==
  /\ rows = [l \in Ledgers |-> {}]
  /\ index = [l \in Ledgers |-> {}]
  /\ stored = [l \in Ledgers |-> <<>>]
  /\ done = [l \in Ledgers |-> {}]
  /\ bundle = Nothing
  /\ damaged = [l \in Ledgers |-> 0]

-----------------------------------------------------------------------------
(* Reading back.                                                           *)

Recs(l) == {row.data : row \in rows[l]}
Ops(l) == {row.data : row \in done[l]}

\* Bug: the columns of the operations are not compared.
RowsAgreeRecords(l) == \A row \in rows[l] : row.id = row.data.id /\ row.kind = row.data.kind

\* Each row is indexed by what its record says (SQLiteStore.metadata).
RowsAgree(l) ==
  /\ \A row \in rows[l] : row.id = row.data.id /\ row.kind = row.data.kind
  /\ \A row \in done[l] : row.tuple = row.data.tuple /\ row.result = row.data.result

\* _metadata
MetadataSound(l) == RowsAgree(l) /\ Valid(Recs(l), Ops(l))

\* _verify_indexes
IndexesSound(l) ==
  /\ index[l] = ReferenceRows(Recs(l))
  /\ DOMAIN stored[l] = IdsOf(OfKind(Recs(l), "blob"))

\* What execute, export_bundle and verify ask of the metadata.
Sound(l) == IndexesSound(l) /\ MetadataSound(l)

\* Bug: the bytes are not compared with the Blob's record.
BlobSoundThere(l, x) == x.id \in DOMAIN stored[l]

\* _blob: the payload is there and is what the record says.
BlobSound(l, x) == x.id \in DOMAIN stored[l] /\ stored[l][x.id] = x.bytes

GetRecord(l, kind, id) ==
  LET found == {row \in rows[l] : row.id = id /\ row.kind = kind}
  IN  IF found = {} THEN "NOT_FOUND"
      ELSE IF \E row \in found : row.data.id = id /\ row.data.kind = kind THEN "OK"
      ELSE "INTEGRITY_FAILURE"

ReadBlob(l, id) ==
  IF GetRecord(l, "blob", id) # "OK" THEN GetRecord(l, "blob", id)
  ELSE IF BlobSound(l, The(Recs(l), id)) THEN "OK" ELSE "INTEGRITY_FAILURE"

GetHistory(l, id) ==
  LET versions == {v \in OfKind(Recs(l), "version") : id \in Targets(v, "artifact")}
      links == {x \in OfKind(Recs(l), "provenance_link") :
                  Targets(x, "subject") \subseteq IdsOf(versions)}
  IN  IF GetRecord(l, "artifact", id) # "OK" THEN GetRecord(l, "artifact", id)
      ELSE IF ~MetadataSound(l) THEN "INTEGRITY_FAILURE"
      ELSE IF 1 + Cardinality(versions) + Cardinality(links) > MaxJson THEN "RESOURCE_LIMIT"
      ELSE "OK"

GetOperation(l, tuple) ==
  LET found == {row.data : row \in {row \in done[l] : row.tuple = tuple}}
  IN  IF found = {} THEN "NOT_FOUND"
      ELSE IF ~MetadataSound(l) \/ (\E o \in found : o.tuple # tuple) THEN "INTEGRITY_FAILURE"
      ELSE GetRecord(l, ResultKind[tuple.kind], (CHOOSE o \in found : TRUE).result)

Verify(l) ==
  IF Sound(l) /\ \A x \in OfKind(Recs(l), "blob") : BlobSound(l, x)
  THEN "OK" ELSE "INTEGRITY_FAILURE"
-----------------------------------------------------------------------------
(* Writing.                                                                *)

Stamp(x, l) == IF x.kind \in Timed THEN [x EXCEPT !.at = l] ELSE x

\* The transaction of a new success.
Insert(l, recs, payloads, ops, o) ==
  /\ rows' = [rows EXCEPT ![l] = @ \cup {[id |-> x.id, kind |-> x.kind, data |-> x] : x \in recs}]
  /\ index' = [index EXCEPT ![l] = @ \cup ReferenceRows(recs)]
  /\ stored' = [stored EXCEPT ![l] = [b \in DOMAIN payloads \cup DOMAIN @ |->
                                        IF b \in DOMAIN @ THEN @[b] ELSE payloads[b]]]
  /\ done' = [done EXCEPT ![l] = @ \cup {[tuple |-> p.tuple, result |-> p.result, data |-> p]
                                         : p \in ops \cup {o}}]
  /\ UNCHANGED <<bundle, damaged>>

\* No success is stored for it: the request is new to l.
Unused(l, tuple) == ~ \E row \in done[l] : row.tuple = tuple

Create(l, req) ==
  /\ req.tuple.kind = "create_artifact"
  /\ Unused(l, req.tuple)
  /\ req.artifact.id \notin IdsOf(Recs(l))
  /\ Sound(l)
  /\ Insert(l, {Stamp(req.artifact, l)}, <<>>, {},
            [tuple |-> req.tuple, asked |-> req, result |-> req.artifact.id, at |-> l])

\* validate_request and execute, before the transaction.
WellAsked(req, payloads) ==
  /\ \A x \in req.others : x.kind = "provenance_link" => Targets(x, "subject") = {req.version.id}
  /\ \A x \in req.others : x.kind = "blob" /\ x.id \in DOMAIN payloads => payloads[x.id] = x.bytes
  /\ \A b \in DOMAIN payloads : Size[payloads[b]] <= MaxPayload
  /\ SumFunction([b \in DOMAIN payloads |-> Size[payloads[b]]]) <= MaxPayload

\* What is there already, other than content that is the same.
Conflicts(known, additions) ==
  {x \in additions : \E y \in known : x.id = y.id /\ (x.kind \in Timed \/ x # y)}

\* The content records that belong to the new Version.
Related(all, version, x) ==
  LET root == The(all, CHOOSE r \in Targets(version, "root") : TRUE)
  IN  CASE x.kind = "content_root" -> x = root
        [] x.kind = "manifest" -> x.id \in Targets(root, "manifest")
        [] x.kind = "blob" -> x.id \in ContentBlobs(all, version)
        [] OTHER -> TRUE

\* The bytes of a Blob in the closure: stored and intact, or supplied.
BytesThere(l, known, x, payloads) ==
  /\ x.id \in DOMAIN payloads => payloads[x.id] = x.bytes
  /\ IF x \in known THEN BlobSound(l, x) ELSE x.id \in DOMAIN payloads

\* Bug: an append is refused when the whole Ledger is beyond the limit.
AffordableWhole(all, version) == Weight(all, IdsOf(OfKind(all, "blob"))) <= MaxPayload

Affordable(all, version) == Weight(all, ContentBlobs(all, version)) <= MaxPayload

Additions(l, req) == {Stamp(req.version, l)} \cup {Stamp(x, l) : x \in req.others}

\* _append accepts.
Appendable(l, req, payloads) ==
  LET known == Recs(l)
      version == Stamp(req.version, l)
      additions == Additions(l, req)
      all == known \cup additions
      blobs == {x \in all : x.kind = "blob" /\ x.id \in ContentBlobs(all, version)}
  IN  /\ WellAsked(req, payloads)
      /\ Unused(l, req.tuple)
      /\ \E x \in known : x.kind = "artifact" /\ x.id \in Targets(version, "artifact")
      /\ \A x, y \in additions : x.id = y.id => x = y
      /\ Conflicts(known, additions) = {}
      /\ Sound(l)
      /\ Valid(all, Ops(l))
      /\ \A x \in additions : Related(all, version, x)
      /\ DOMAIN payloads \subseteq IdsOf(blobs)
      /\ Affordable(all, version)
      /\ \A x \in blobs : BytesThere(l, known, x, payloads)

Append(l, req, payloads) ==
  /\ req.tuple.kind = "append_version"
  /\ Appendable(l, req, payloads)
  /\ Insert(l, Additions(l, req) \ Recs(l),
            [b \in DOMAIN payloads \ DOMAIN stored[l] |-> payloads[b]], {},
            [tuple |-> req.tuple, asked |-> req, result |-> req.version.id, at |-> l])
-----------------------------------------------------------------------------
(* Bundles.                                                                *)

Heavy(recs) == Weight(recs, IdsOf(OfKind(recs, "blob"))) > MaxPayload

\* Bug: the payloads are exported as they are.
ExportableBlind(l) ==
  /\ MetadataSound(l)
  /\ Cardinality(Recs(l)) + Cardinality(Ops(l)) <= MaxJson
  /\ ~Heavy(Recs(l))

\* export_bundle and encode_bundle.
Exportable(l) ==
  /\ Sound(l)
  /\ Cardinality(Recs(l)) + Cardinality(Ops(l)) <= MaxJson
  /\ ~Heavy(Recs(l))
  /\ \A x \in OfKind(Recs(l), "blob") : BlobSound(l, x)

Content(l) == [recs |-> Recs(l), ops |-> Ops(l), payloads |-> stored[l]]

Export(l) ==
  /\ Exportable(l)
  /\ bundle' = Content(l)
  /\ UNCHANGED <<rows, index, stored, done, damaged>>

\* decode_bundle, of a package with its own descriptor.
Decodes(b) ==
  /\ Cardinality(b.recs) + Cardinality(b.ops) <= MaxJson
  /\ Valid(b.recs, b.ops)
  /\ DOMAIN b.payloads = IdsOf(OfKind(b.recs, "blob"))
  /\ \A x \in OfKind(b.recs, "blob") : b.payloads[x.id] = x.bytes
  /\ ~Heavy(b.recs)

\* _history: the Versions of an Artifact and the provenance of these.
History(recs, a) ==
  LET versions == {v \in OfKind(recs, "version") : a \in Targets(v, "artifact")}
  IN  versions \cup {x \in OfKind(recs, "provenance_link") :
                       Targets(x, "subject") \subseteq IdsOf(versions)}

\* Bug: the histories of an Artifact on both sides are united.
SameHistoryUnited(known, recs) == TRUE

SameHistory(known, recs) ==
  \A x \in OfKind(recs, "artifact") : x.id \in IdsOf(known) => History(known, x.id) = History(recs, x.id)

Receipt(l, ask, b) ==
  [kind |-> "import_receipt", id |-> ask.receipt, bytes |-> NoBytes, at |-> l,
   refs |-> {[field |-> "imported", to |-> x.id] : x \in OfKind(b.recs, "artifact")}]

Importing(ask) == [kind |-> "import_bundle", key |-> ask.key]

\* Bug: whatever identity is there already is refused.
MismatchAny(known, ops, ask, b) ==
  \/ ask.receipt \in IdsOf(known) \cup IdsOf(b.recs)
  \/ IdsOf(b.recs) \cap IdsOf(known) # {}
  \/ \E o \in b.ops : o.tuple = Importing(ask)
  \/ \E o \in b.ops, p \in ops : o.tuple = p.tuple /\ o # p

\* _import of b into known records and operations is refused.
Mismatch(known, ops, ask, b) ==
  \/ ask.receipt \in IdsOf(known) \cup IdsOf(b.recs)
  \/ \E x \in b.recs, y \in known : x.id = y.id /\ x # y
  \/ ~SameHistory(known, b.recs)
  \/ \E o \in b.ops : o.tuple = Importing(ask)
  \/ \E o \in b.ops, p \in ops : o.tuple = p.tuple /\ o # p

Import(l, ask, b) ==
  LET known == Recs(l)
      receipt == Receipt(l, ask, b)
  IN  /\ Cardinality({row \in done[l] : row.tuple.kind = "import_bundle"}) < MaxImports
      /\ Unused(l, Importing(ask))
      /\ ~Mismatch(known, Ops(l), ask, b)
      /\ Decodes(b)
      /\ Sound(l)
      /\ \A x \in OfKind(b.recs, "blob") : x \in known => BlobSound(l, x)
      /\ Valid(known \cup b.recs \cup {receipt}, Ops(l) \cup b.ops)
      /\ Insert(l, (b.recs \ known) \cup {receipt}, b.payloads, b.ops \ Ops(l),
                [tuple |-> Importing(ask), asked |-> [ask |-> ask, bundle |-> b], result |-> ask.receipt, at |-> l])
-----------------------------------------------------------------------------
(* Asking again.                                                           *)

Written(asked) ==
  IF "artifact" \in DOMAIN asked THEN {asked.artifact}
  ELSE IF "version" \in DOMAIN asked THEN {asked.version} \cup asked.others
  ELSE asked.bundle.recs

\* Bug: the times are compared, which a request does not say.
SameAsTimed(y, x) == y = x

\* What a request describes without a time, a bundle with it.
SameAs(y, x) == IF x.at = Untimed THEN [y EXCEPT !.at = Untimed] = x ELSE y = x

\* The Blobs whose bytes a replay reads.
ReplayedBlobs(l, o) ==
  IF "version" \in DOMAIN o.asked THEN ContentBlobs(Recs(l), The(Recs(l), o.result))
  ELSE IdsOf(OfKind(Written(o.asked), "blob"))

\* Bug: the bytes are not read again.
ReplaysMetadata(l, o) == \A x \in Written(o.asked) : \E y \in Recs(l) : SameAs(y, x)

\* _check_replay of the success o in sound metadata, with nothing supplied.
Replays(l, o) ==
  /\ \A x \in Written(o.asked) : \E y \in Recs(l) : SameAs(y, x)
  /\ o.tuple.kind = "import_bundle" =>
       /\ Targets(The(Recs(l), o.result), "imported") = IdsOf(OfKind(Written(o.asked), "artifact"))
       /\ o.asked.bundle.ops \subseteq Ops(l)
  /\ \A b \in ReplayedBlobs(l, o) : BlobSound(l, The(Recs(l), b))
-----------------------------------------------------------------------------
(* Damage.                                                                 *)

\* A row changes under the program.
Harm(l) ==
  /\ damaged[l] < MaxDamage /\ \A k \in Ledgers \ {l} : damaged[k] = 0
  /\ damaged' = [damaged EXCEPT ![l] = @ + 1]

\* Bytes are lost, altered, or stand under another Blob.
HarmPayload(l) ==
  /\ Harm(l)
  /\ \/ \E b \in DOMAIN stored[l] :
          stored' = [stored EXCEPT ![l] = [a \in DOMAIN @ \ {b} |-> @[a]]]
     \/ \E b \in DOMAIN stored[l], c \in Contents :
          c # stored[l][b] /\ stored' = [stored EXCEPT ![l][b] = c]
     \/ \E x \in Recs(l), c \in Contents :
          /\ x.id \notin DOMAIN stored[l]
          /\ stored' = [stored EXCEPT ![l] = [a \in {x.id} \cup DOMAIN @ |-> IF a = x.id THEN c ELSE @[a]]]
  /\ UNCHANGED <<rows, index, done, bundle>>

HarmIndex(l) ==
  /\ Harm(l)
  /\ \/ \E r \in index[l] : index' = [index EXCEPT ![l] = @ \ {r}]
     \/ \E r \in index[l], q \in index[l] :
          /\ [r EXCEPT !.target = q.target] \notin index[l]
          /\ index' = [index EXCEPT ![l] = @ \cup {[r EXCEPT !.target = q.target]}]
  /\ UNCHANGED <<rows, stored, done, bundle>>

\* A row is lost, two rows exchange their records, or a record is replaced
\* by one with a reference less or another time.  The time stands for every
\* field that verify compares with nothing, as type_ref and opaque ones.
HarmRecord(l) ==
  /\ Harm(l)
  /\ \/ \E row \in rows[l] : rows' = [rows EXCEPT ![l] = @ \ {row}]
     \/ \E row, other \in rows[l] :
          /\ row # other
          /\ rows' = [rows EXCEPT ![l] = (@ \ {row, other})
                        \cup {[row EXCEPT !.data = other.data], [other EXCEPT !.data = row.data]}]
     \/ \E row \in rows[l] : \E r \in row.data.refs :
          rows' = [rows EXCEPT ![l] = (@ \ {row}) \cup {[row EXCEPT !.data.refs = @ \ {r}]}]
     \/ \E row \in rows[l], t \in Stamps :
          /\ row.data.kind \in Timed
          /\ rows' = [rows EXCEPT ![l] = (@ \ {row}) \cup {[row EXCEPT !.data.at = t]}]
  /\ UNCHANGED <<index, stored, done, bundle>>

\* A row is lost, gets the operation of another, the fingerprint of another
\* request of its kind, or another time.
HarmOperation(l) ==
  /\ Harm(l)
  /\ \/ \E row \in done[l] : done' = [done EXCEPT ![l] = @ \ {row}]
     \/ \E row, other \in done[l] :
          /\ row # other
          /\ done' = [done EXCEPT ![l] = (@ \ {row}) \cup {[row EXCEPT !.data = other.data]}]
     \/ \E row, other \in done[l] :
          /\ row.data.tuple.kind = other.data.tuple.kind
          /\ done' = [done EXCEPT ![l] = (@ \ {row}) \cup {[row EXCEPT !.data.asked = other.data.asked]}]
     \/ \E row \in done[l], t \in Stamps :
          done' = [done EXCEPT ![l] = (@ \ {row}) \cup {[row EXCEPT !.data.at = t]}]
  /\ UNCHANGED <<rows, index, stored, bundle>>

Next ==
  \E l \in Ledgers :
    \/ \E req \in Asked[l] : Create(l, req)
    \/ \E req \in Asked[l], payloads \in Payloads : Append(l, req, payloads)
    \/ Export(l)
    \/ \E ask \in Imports : \E b \in Foreign \cup {bundle} : Import(l, ask, b)
    \/ HarmPayload(l) \/ HarmIndex(l) \/ HarmRecord(l) \/ HarmOperation(l)

Spec == Init /\ [][Next]_vars
-----------------------------------------------------------------------------
Undamaged == {l \in Ledgers : damaged[l] = 0}

TypeOK ==
  /\ \A l \in Ledgers :
       /\ \A row \in rows[l] : row.id \in Ids /\ row.kind \in Kinds /\ row.data \in Record
       /\ index[l] \subseteq [source : Ids, field : Fields, target : Ids]
       /\ DOMAIN stored[l] \subseteq Ids /\ \A b \in DOMAIN stored[l] : stored[l][b] \in Contents
       /\ \A row \in done[l] : row.tuple \in Tuple /\ row.result \in Ids
  /\ damaged \in [Ledgers -> 0 .. MaxDamage]

\* The parents of a Version, their parents, and so on.
Ancestors(recs, v) ==
  LET versions == OfKind(recs, "version")
      parents == UNION {Targets(w, "parent") : w \in versions}
      Closed(S) == \A w \in versions : w.id \in S => Targets(w, "parent") \subseteq S
  IN  {a \in parents :
         \A S \in SUBSET parents : Targets(v, "parent") \subseteq S /\ Closed(S) => a \in S}

\* A Ledger holds whole histories: each owned id stands for one record; a
\* Version has its Artifact, its ancestors are of that Artifact and do not
\* include it, and all its bytes are there; and every Blob is of a Version.
Whole(recs, payloads) ==
  LET versions == OfKind(recs, "version")
  IN  /\ \A x, y \in recs : x.id = y.id => x = y
      /\ \A v \in versions :
           /\ v.id \notin Ancestors(recs, v)
           /\ \A p \in Ancestors(recs, v) :
                \E w \in versions : w.id = p /\ Targets(w, "artifact") = Targets(v, "artifact")
           /\ \E x \in recs : x.kind = "artifact" /\ x.id \in Targets(v, "artifact")
           /\ \A b \in ContentBlobs(recs, v) :
                b \in DOMAIN payloads /\ payloads[b] = The(recs, b).bytes
      /\ DOMAIN payloads = UNION {ContentBlobs(recs, v) : v \in versions}
      /\ \A x \in OfKind(recs, "provenance_link") :
           x.refs # {} /\ {r.to : r \in x.refs} \subseteq IdsOf(versions)

\* Whatever is created, appended and imported in whatever order, a Ledger
\* nobody damages holds whole histories, and its tables agree with each
\* other (_create, _append, _import, validate_metadata, the INSERTs).
HistoriesWhole ==
  \A l \in Undamaged :
    /\ Whole(Recs(l), stored[l])
    /\ RowsAgree(l)
    /\ index[l] = ReferenceRows(Recs(l))

\* A bundle is whole even if the Ledger it comes from was damaged: damage is
\* not carried to another Ledger (export_bundle).
BundlesWhole == Whole(bundle.recs, bundle.payloads)

\* The content of an undamaged Ledger can be carried over: if it can be
\* exported, the bundle decodes and a fresh import makes of an empty Ledger
\* one that has all of it; and importing it where it came from adds nothing.
RoundTrip ==
  \A l \in Undamaged : Exportable(l) =>
    LET b == Content(l)
    IN  /\ Decodes(b)
        /\ \A ask \in Imports :
             \/ ask.receipt \in IdsOf(b.recs) \/ \E o \in b.ops : o.tuple = Importing(ask)
             \/ /\ \A k \in Ledgers :
                     /\ ~Mismatch({}, {}, ask, b)
                     /\ Valid(b.recs \cup {Receipt(k, ask, b)}, b.ops)
                /\ ~Mismatch(Recs(l), Ops(l), ask, b)

\* An import extends no Artifact that was there: it brings whole histories
\* or leaves those it finds as they are (_import, _history).
HistoriesNotMixed ==
  [][\A l \in Ledgers :
       /\ damaged'[l] = damaged[l]
       /\ \E row \in done'[l] \ done[l] : row.tuple.kind = "import_bundle" /\ row.data.at = l
       => \A x \in OfKind(Recs(l), "artifact") :
            History({row.data : row \in rows'[l]}, x.id) = History(Recs(l), x.id)]_vars

\* A Ledger that verifies answers every query about what it has, and holds
\* whole histories, whatever was damaged; one that nobody damaged verifies.
VerifiedMeansReadable ==
  \A l \in Ledgers :
    /\ l \in Undamaged => Verify(l) = "OK"
    /\ Verify(l) = "OK" =>
         /\ Whole(Recs(l), stored[l])
         /\ \A x \in Recs(l) : GetRecord(l, x.kind, x.id) = "OK"
         /\ \A x \in OfKind(Recs(l), "blob") : ReadBlob(l, x.id) = "OK"
         /\ \A x \in OfKind(Recs(l), "artifact") : GetHistory(l, x.id) \in {"OK", "RESOURCE_LIMIT"}
         /\ \A o \in Ops(l) : GetOperation(l, o.tuple) = "OK"

\* What is found under each identity, its time aside, and what each
\* idempotency tuple is answered with.
Described(l) == {<<row.id, [row.data EXCEPT !.at = Untimed]>> : row \in rows[l]}
Results(l) == {<<row.tuple, row.data.result>> : row \in done[l]}

\* Damage to one row that verify does not find is to no content: every record
\* is there under its identity with its references and bytes, and no tuple is
\* answered with another result.  Times and opaque fields may have changed,
\* and an operation may be lost or told from its request.  And what verify
\* once found no later write hides (verify, _verify_indexes,
\* SQLiteStore.metadata).
DamageShows ==
  [][\A l \in Ledgers :
       /\ damaged[l] = 0 /\ damaged'[l] # 0 /\ Verify(l)' = "OK"
            => /\ Described(l)' = Described(l) /\ Results(l)' \subseteq Results(l)
               /\ stored'[l] = stored[l] /\ index'[l] = index[l]
       /\ damaged'[l] = damaged[l] /\ Verify(l)' = "OK" => Verify(l) = "OK"]_vars

\* A success can be asked for again for ever: in the Ledger that gave it and
\* in every one it was imported into, whatever was added since, while none of
\* them is damaged; and in any Ledger what a retry is told to be there can be
\* read (_check_replay).
RetrySucceeds ==
  \A l \in {k \in Ledgers : Sound(k)} : \A o \in Ops(l) :
    /\ Undamaged = Ledgers => Replays(l, o)
    /\ Replays(l, o) => \A b \in ReplayedBlobs(l, o) : ReadBlob(l, b) = "OK"

\* What has accumulated refuses no append: a Version without parents that
\* brings all its content and is within the limits by itself is taken,
\* however far the Ledger is beyond those of an export or a response.  (One
\* with parents is not valid alone, so nothing is said of it.)
GrowthRefusesNothing ==
  \A l \in Undamaged : \A req \in {q \in UNION {Asked[k] : k \in Ledgers} : q.tuple.kind = "append_version"} :
    \A payloads \in Payloads :
      LET alone == {x \in Recs(l) : x.id \in Targets(req.version, "artifact")} \cup Additions(l, req)
          blobs == OfKind(alone, "blob")
      IN  /\ IdsOf(Additions(l, req)) \cap IdsOf(Recs(l)) = {}
          /\ Unused(l, req.tuple)
          /\ DOMAIN payloads = IdsOf(blobs) /\ \A x \in blobs : payloads[x.id] = x.bytes
          /\ WellAsked(req, payloads) /\ Valid(alone, {})
          => Appendable(l, req, payloads)
=============================================================================
