---------------------------- MODULE RecordGraph ----------------------------
(***************************************************************************)
(* The records of a Ledger and what makes a set of them one whole content  *)
(* (validation.py, and reference_rows of sqlite_store.py).                 *)
(*                                                                         *)
(* A record is its kind, its owned id, its references by field, for a Blob *)
(* the bytes its digest and length fix, and for the kinds that have a      *)
(* recorded_at the Ledger that stamped it: times of two Ledgers differ.    *)
(* The positions of references in an array and the fields that refer to    *)
(* nothing here are left out.                                              *)
(***************************************************************************)
EXTENDS Naturals, FiniteSets, Functions

CONSTANTS Ids,          \* owned identities
          Contents,     \* byte strings
          Size,         \* Size[c]: their lengths
          Stamps,       \* who stamps a recorded_at
          Keys,         \* idempotency scope and key of an operation
          NoBytes, Untimed, \* the bytes, the stamp of a record without
          MaxPayload    \* bytes in one Version's closure, call or package

ASSUME SizeAssumption == Size \in [Contents -> Nat] /\ MaxPayload \in Nat

Kinds == {"artifact", "version", "content_root", "blob", "manifest", "provenance_link",
          "import_receipt"}
Timed == {"artifact", "version", "provenance_link", "import_receipt"}

\* The kinds of record a field may refer to.
RefKind ==
  [artifact |-> {"artifact"}, root |-> {"content_root"}, parent |-> {"version"}, blob |-> {"blob"},
   manifest |-> {"manifest"}, entry |-> {"blob"}, subject |-> {"version"},
   object |-> {"version"}, imported |-> {"artifact"}]
Fields == DOMAIN RefKind

Record == [kind : Kinds, id : Ids, refs : SUBSET [field : Fields, to : Ids],
           bytes : Contents \cup {NoBytes}, at : Stamps \cup {Untimed}]

\* A successful operation.  What is asked is the canonical request, which
\* for an import holds the whole metadata of its bundle.
ResultKind == [create_artifact |-> "artifact", append_version |-> "version",
               import_bundle |-> "import_receipt"]
Tuple == [kind : DOMAIN ResultKind, key : Keys]

Targets(x, field) == {r.to : r \in {q \in x.refs : q.field = field}}
OfKind(recs, k) == {x \in recs : x.kind = k}
IdsOf(recs) == {x.id : x \in recs}
The(recs, id) == CHOOSE x \in recs : x.id = id

\* The rows of the index, derived from the records.
ReferenceRows(recs) ==
  UNION {{[source |-> x.id, field |-> r.field, target |-> r.to] : r \in x.refs} : x \in recs}

Resolves(recs, x) ==
  \A r \in x.refs : \E y \in recs : y.id = r.to /\ y.kind \in RefKind[r.field]

SameArtifact(recs, v) ==
  \A p \in Targets(v, "parent") : Targets(The(recs, p), "artifact") = Targets(v, "artifact")

\* Bug: the Versions are not ordered.
OrderedAny(versions) == TRUE

\* No cycle of parents: in any group of Versions one comes first.  That the
\* loop of validate_metadata decides this is shown of ParentGraph.
Ordered(versions) ==
  \A group \in (SUBSET versions) \ {{}} :
    \E v \in group : Targets(v, "parent") \cap IdsOf(group) = {}

\* The Blobs of a Version: of its ContentRoot, or of that one's Manifest.
ContentBlobs(recs, v) ==
  LET root == The(recs, CHOOSE r \in Targets(v, "root") : TRUE)
  IN  Targets(root, "blob")
      \cup UNION {Targets(The(recs, m), "entry") : m \in Targets(root, "manifest")}

Weight(recs, blobs) == SumFunction([b \in blobs |-> Size[The(recs, b).bytes]])

\* Content records nothing refers to.
Unreachable(recs) ==
  {x \in recs : x.kind \in {"content_root", "manifest", "blob"}
                /\ ~ \E y \in recs : \E r \in y.refs :
                       r.to = x.id /\ r.field \in {"root", "manifest", "blob", "entry"}}

\* A record by itself (validate_record): the fields its kind has.
Shaped(x) ==
  LET only(fields) == \A r \in x.refs : r.field \in fields
      one(field) == \E target \in Ids : Targets(x, field) = {target}
  IN  /\ x.kind \in Kinds
      /\ (x.bytes # NoBytes) <=> x.kind = "blob"
      /\ CASE x.kind \in {"artifact", "blob"} -> only({})
           [] x.kind = "version" -> only({"artifact", "root", "parent"}) /\ one("artifact") /\ one("root")
           [] x.kind = "content_root" -> only({"blob", "manifest"}) /\ \E r \in x.refs : x.refs = {r}
           [] x.kind = "manifest" -> only({"entry"}) /\ x.refs # {}
           [] x.kind = "provenance_link" -> /\ only({"subject", "object"}) /\ one("subject")
                                            /\ Targets(x, "object") = {} \/ one("object")
           [] x.kind = "import_receipt" -> only({"imported"})

(***************************************************************************)
(* validate_metadata: these records and operations are one whole content.  *)
(***************************************************************************)
Valid(recs, ops) ==
  LET versions == OfKind(recs, "version")
  IN  /\ \A x \in recs : Shaped(x)
      /\ \A x, y \in recs : x.id = y.id => x = y
      /\ \A o, p \in ops : o.tuple = p.tuple => o = p
      /\ \A x \in recs : Resolves(recs, x)
      /\ \A v \in versions : SameArtifact(recs, v)
      /\ Ordered(versions)
      /\ Unreachable(recs) = {}
      /\ \A v \in versions : Weight(recs, ContentBlobs(recs, v)) <= MaxPayload
      /\ \A o \in ops : \E x \in recs : x.id = o.result /\ x.kind = ResultKind[o.tuple.kind]
=============================================================================
