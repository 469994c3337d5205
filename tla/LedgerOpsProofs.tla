--------------------------- MODULE LedgerOpsProofs --------------------------
(***************************************************************************)
(* What Ledgers that write and exchange bundles hold, for any Ledgers,     *)
(* requests, bundles, limits and damage.                                   *)
(*                                                                         *)
(* A Ledger nobody damaged verifies, and so does every bundle: that is the *)
(* inductive invariant, because what the planners check of the request and *)
(* of the whole makes of a valid graph a valid graph.  The rest follows    *)
(* from what a valid graph is; but that damage shows and that retries      *)
(* succeed needs also that what a success wrote lasts (Lasting).           *)
(***************************************************************************)
EXTENDS LedgerOps, TLAPS

Unique(recs) == \A x, y \in recs : x.id = y.id => x = y

\* Valid, but for the operations and the limit.
Graph(recs) ==
  /\ \A x \in recs : Shaped(x)
  /\ Unique(recs)
  /\ \A x \in recs : Resolves(recs, x)
  /\ \A v \in OfKind(recs, "version") : SameArtifact(recs, v)
  /\ Ordered(OfKind(recs, "version"))
  /\ Unreachable(recs) = {}

\* b is content of v: of its ContentRoot, or of that one's Manifest.
Holds(recs, v, b) ==
  \E root \in recs :
    /\ root.id \in Targets(v, "root")
    /\ \/ b \in Targets(root, "blob")
       \/ \E m \in recs : m.id \in Targets(root, "manifest") /\ b \in Targets(m, "entry")

OpsOK(recs, ops) ==
  /\ \A o, p \in ops : o.tuple = p.tuple => o = p
  /\ \A o \in ops : \E x \in recs : x.id = o.result /\ x.kind = ResultKind[o.tuple.kind]

Within(recs) == \A v \in OfKind(recs, "version") : Weight(recs, ContentBlobs(recs, v)) <= MaxPayload

LEMMA ValidParts ==
  ASSUME NEW recs, NEW ops
  PROVE  Valid(recs, ops) <=> Graph(recs) /\ OpsOK(recs, ops) /\ Within(recs)
BY DEF Valid, Graph, OpsOK, Within, Unique
-----------------------------------------------------------------------------
(* References.                                                             *)

LEMMA TheIs ==
  ASSUME NEW recs, Unique(recs), NEW x \in recs
  PROVE  The(recs, x.id) = x
BY DEF Unique, The

\* Which kind of record a field refers to.
LEMMA RefKinds ==
  /\ RefKind["artifact"] = {"artifact"} /\ RefKind["root"] = {"content_root"}
  /\ RefKind["parent"] = {"version"} /\ RefKind["blob"] = {"blob"}
  /\ RefKind["manifest"] = {"manifest"} /\ RefKind["entry"] = {"blob"}
  /\ RefKind["subject"] = {"version"} /\ RefKind["object"] = {"version"}
  /\ RefKind["imported"] = {"artifact"}
BY DEF RefKind

\* Which kind of record has a field.
LEMMA Holder ==
  ASSUME NEW x, Shaped(x), NEW r \in x.refs
  PROVE  /\ r.field \in {"artifact", "root", "parent"} => x.kind = "version"
         /\ r.field \in {"blob", "manifest"} => x.kind = "content_root"
         /\ r.field = "entry" => x.kind = "manifest"
         /\ r.field \in {"subject", "object"} => x.kind = "provenance_link"
         /\ r.field = "imported" => x.kind = "import_receipt"
<1>1. x.kind \in Kinds
  BY DEF Shaped
<1>2. CASE x.kind \in {"artifact", "blob"}
  BY <1>2 DEF Shaped
<1>3. CASE x.kind = "version"
  BY <1>3 DEF Shaped
<1>4. CASE x.kind = "content_root"
  BY <1>4 DEF Shaped
<1>5. CASE x.kind = "manifest"
  BY <1>5 DEF Shaped
<1>6. CASE x.kind = "provenance_link"
  BY <1>6 DEF Shaped
<1>7. CASE x.kind = "import_receipt"
  BY <1>7 DEF Shaped
<1>. QED
  BY <1>1, <1>2, <1>3, <1>4, <1>5, <1>6, <1>7 DEF Kinds

\* What a field of a record refers to is there, of the right kind.
LEMMA Target ==
  ASSUME NEW recs, NEW x \in recs, Resolves(recs, x), NEW field, NEW id \in Targets(x, field)
  PROVE  \E y \in recs : y.id = id /\ y.kind \in RefKind[field]
BY DEF Resolves, Targets

\* A Version has one Artifact and one ContentRoot, which are there.
LEMMA VersionHas ==
  ASSUME NEW recs, Graph(recs), NEW v \in recs, v.kind = "version"
  PROVE  /\ \E a \in recs : a.kind = "artifact" /\ Targets(v, "artifact") = {a.id}
         /\ \E root \in recs : root.kind = "content_root" /\ Targets(v, "root") = {root.id}
<1>1. Shaped(v) /\ Resolves(recs, v)
  BY DEF Graph
<1>2. (\E t \in Ids : Targets(v, "artifact") = {t}) /\ (\E t \in Ids : Targets(v, "root") = {t})
  BY <1>1 DEF Shaped
<1>. QED
  BY <1>1, <1>2, Target, RefKinds

LEMMA ContentIs ==
  ASSUME NEW recs, Graph(recs), NEW v \in recs, v.kind = "version"
  PROVE  \A b : b \in ContentBlobs(recs, v) <=> Holds(recs, v, b)
<1>1. PICK root \in recs : root.kind = "content_root" /\ Targets(v, "root") = {root.id}
  BY VersionHas
<1>2. (CHOOSE r \in Targets(v, "root") : TRUE) = root.id
  BY <1>1
<1>3. Unique(recs) /\ Resolves(recs, root)
  BY DEF Graph
<1>4. The(recs, root.id) = root
  BY <1>3, TheIs
<1>5. ContentBlobs(recs, v) =
        Targets(root, "blob") \cup UNION {Targets(The(recs, m), "entry") : m \in Targets(root, "manifest")}
  BY <1>2, <1>4 DEF ContentBlobs
<1>6. \A m \in recs : The(recs, m.id) = m
  BY <1>3, TheIs
<1>7. \A id \in Targets(root, "manifest") : \E m \in recs : m.id = id
  BY <1>3, Target
<1>8. \A x \in recs : x.id \in Targets(v, "root") <=> x = root
  BY <1>1, <1>3 DEF Unique
<1>9. ASSUME NEW b PROVE b \in ContentBlobs(recs, v) <=> Holds(recs, v, b)
  <2>1. Holds(recs, v, b) <=>
          b \in Targets(root, "blob")
          \/ \E m \in recs : m.id \in Targets(root, "manifest") /\ b \in Targets(m, "entry")
    BY <1>8 DEF Holds
  <2>2. b \in UNION {Targets(The(recs, m), "entry") : m \in Targets(root, "manifest")} <=>
          \E m \in recs : m.id \in Targets(root, "manifest") /\ b \in Targets(m, "entry")
    BY <1>6, <1>7
  <2>. QED
    BY <1>5, <2>1, <2>2
<1>. QED
  BY <1>9

\* Content is Blobs.
LEMMA HeldAreBlobs ==
  ASSUME NEW recs, Graph(recs), NEW v \in recs, NEW b, Holds(recs, v, b)
  PROVE  \E x \in recs : x.kind = "blob" /\ x.id = b
<1>1. PICK root \in recs :
        \/ b \in Targets(root, "blob")
        \/ \E m \in recs : m.id \in Targets(root, "manifest") /\ b \in Targets(m, "entry")
  BY DEF Holds
<1>2. \A x \in recs : Resolves(recs, x)
  BY DEF Graph
<1>. QED
  BY <1>1, <1>2, Target, RefKinds

\* Every content record is content of a Version.
LEMMA ContentIsHeld ==
  ASSUME NEW recs, Graph(recs), NEW x \in recs
  PROVE  /\ x.kind = "content_root" =>
              \E v \in recs : v.kind = "version" /\ x.id \in Targets(v, "root")
         /\ x.kind = "manifest" =>
              \E root \in recs : root.kind = "content_root" /\ x.id \in Targets(root, "manifest")
         /\ x.kind = "blob" =>
              \E v \in recs : v.kind = "version" /\ Holds(recs, v, x.id)
<1>0. Unique(recs) /\ \A y \in recs : Shaped(y) /\ Resolves(recs, y)
  BY DEF Graph
<1>1. ASSUME NEW z \in recs, z.kind \in {"content_root", "manifest", "blob"}
      PROVE  \E y \in recs : \E r \in y.refs :
               /\ r.to = z.id /\ r.field \in {"root", "manifest", "blob", "entry"}
               /\ z.kind \in RefKind[r.field]
  <2>1. PICK y \in recs : \E r \in y.refs :
               r.to = z.id /\ r.field \in {"root", "manifest", "blob", "entry"}
    BY <1>1 DEF Graph, Unreachable
  <2>2. PICK r \in y.refs : r.to = z.id /\ r.field \in {"root", "manifest", "blob", "entry"}
    BY <2>1
  <2>3. PICK t \in recs : t.id = r.to /\ t.kind \in RefKind[r.field]
    BY <1>0 DEF Resolves
  <2>4. t = z
    BY <1>0, <2>2, <2>3 DEF Unique
  <2>. QED
    BY <2>2, <2>3, <2>4
<1>2. ASSUME NEW z \in recs, z.kind = "content_root"
      PROVE  \E v \in recs : v.kind = "version" /\ z.id \in Targets(v, "root")
  <2>1. PICK y \in recs : \E r \in y.refs :
               /\ r.to = z.id /\ r.field \in {"root", "manifest", "blob", "entry"}
               /\ z.kind \in RefKind[r.field]
    BY <1>1, <1>2
  <2>2. PICK r \in y.refs : r.to = z.id /\ r.field = "root"
    BY <1>2, <2>1, RefKinds
  <2>. QED
    BY <1>0, <2>2, Holder DEF Targets
<1>3. ASSUME NEW z \in recs, z.kind = "manifest"
      PROVE  \E root \in recs : root.kind = "content_root" /\ z.id \in Targets(root, "manifest")
  <2>1. PICK y \in recs : \E r \in y.refs :
               /\ r.to = z.id /\ r.field \in {"root", "manifest", "blob", "entry"}
               /\ z.kind \in RefKind[r.field]
    BY <1>1, <1>3
  <2>2. PICK r \in y.refs : r.to = z.id /\ r.field = "manifest"
    BY <1>3, <2>1, RefKinds
  <2>. QED
    BY <1>0, <2>2, Holder DEF Targets
<1>4. ASSUME x.kind = "blob"
      PROVE  \E v \in recs : v.kind = "version" /\ Holds(recs, v, x.id)
  <2>1. PICK y \in recs : \E r \in y.refs :
               /\ r.to = x.id /\ r.field \in {"root", "manifest", "blob", "entry"}
               /\ x.kind \in RefKind[r.field]
    BY <1>1, <1>4
  <2>2. PICK r \in y.refs : r.to = x.id /\ r.field \in {"blob", "entry"}
    BY <1>4, <2>1, RefKinds
  <2>3. CASE r.field = "blob"
    <3>1. y.kind = "content_root" /\ x.id \in Targets(y, "blob")
      BY <1>0, <2>2, <2>3, Holder DEF Targets
    <3>2. PICK v \in recs : v.kind = "version" /\ y.id \in Targets(v, "root")
      BY <3>1, <1>2
    <3>. QED
      BY <3>1, <3>2 DEF Holds
  <2>4. CASE r.field = "entry"
    <3>1. y.kind = "manifest" /\ x.id \in Targets(y, "entry")
      BY <1>0, <2>2, <2>4, Holder DEF Targets
    <3>2. PICK root \in recs : root.kind = "content_root" /\ y.id \in Targets(root, "manifest")
      BY <3>1, <1>3
    <3>3. PICK v \in recs : v.kind = "version" /\ root.id \in Targets(v, "root")
      BY <3>2, <1>2
    <3>. QED
      BY <3>1, <3>2, <3>3 DEF Holds
  <2>. QED
    BY <2>2, <2>3, <2>4
<1>. QED
  BY <1>2, <1>3, <1>4
-----------------------------------------------------------------------------
(* Histories.                                                              *)

\* A parent of a Version is a Version of its Artifact.
LEMMA ParentIs ==
  ASSUME NEW recs, Graph(recs), NEW v \in OfKind(recs, "version"), NEW id \in Targets(v, "parent")
  PROVE  \E w \in OfKind(recs, "version") :
           w.id = id /\ Targets(w, "artifact") = Targets(v, "artifact")
<1>1. v \in recs /\ Resolves(recs, v) /\ Unique(recs) /\ SameArtifact(recs, v)
  BY DEF Graph, OfKind
<1>2. PICK w \in recs : w.id = id /\ w.kind = "version"
  BY <1>1, Target, RefKinds
<1>3. The(recs, id) = w
  BY <1>1, <1>2, TheIs
<1>. QED
  BY <1>1, <1>2, <1>3 DEF SameArtifact, OfKind

\* Ancestors are reached by parents: they are in any set that has the
\* parents of v, and of each Version that is in it.
LEMMA AncestorsLeast ==
  ASSUME NEW recs, NEW v \in OfKind(recs, "version"), NEW S,
         Targets(v, "parent") \subseteq S,
         \A w \in OfKind(recs, "version") : w.id \in S => Targets(w, "parent") \subseteq S
  PROVE  Ancestors(recs, v) \subseteq S
<1> DEFINE versions == OfKind(recs, "version")
           parents == UNION {Targets(w, "parent") : w \in versions}
<1> SUFFICES ASSUME NEW a \in Ancestors(recs, v) PROVE a \in S
  OBVIOUS
<1>1. a \in parents
  BY DEF Ancestors
<1>2. \A w \in versions : Targets(w, "parent") \subseteq parents
  OBVIOUS
<1>3. Targets(v, "parent") \subseteq S \cap parents
  BY <1>2
<1>4. \A w \in versions : w.id \in S \cap parents => Targets(w, "parent") \subseteq S \cap parents
  BY <1>2
<1>5. \A T \in SUBSET parents :
        Targets(v, "parent") \subseteq T
        /\ (\A w \in versions : w.id \in T => Targets(w, "parent") \subseteq T) => a \in T
  BY DEF Ancestors
<1> HIDE DEF versions, parents
<1>6. S \cap parents \in SUBSET parents
  OBVIOUS
<1>. QED
  BY <1>3, <1>4, <1>5, <1>6

\* The parents of a Version, and of its ancestors, are ancestors.
LEMMA AncestorsClosed ==
  ASSUME NEW recs, NEW v \in OfKind(recs, "version")
  PROVE  /\ Targets(v, "parent") \subseteq Ancestors(recs, v)
         /\ \A w \in OfKind(recs, "version") :
              w.id \in Ancestors(recs, v) => Targets(w, "parent") \subseteq Ancestors(recs, v)
<1> DEFINE versions == OfKind(recs, "version")
           parents == UNION {Targets(w, "parent") : w \in versions}
           Covers(T) == /\ Targets(v, "parent") \subseteq T
                        /\ \A w \in versions : w.id \in T => Targets(w, "parent") \subseteq T
<1>1. Ancestors(recs, v) = {a \in parents : \A T \in SUBSET parents : Covers(T) => a \in T}
  BY DEF Ancestors
<1>2. \A w \in versions : Targets(w, "parent") \subseteq parents
  OBVIOUS
<1> HIDE DEF parents
<1>3. \A a \in Targets(v, "parent") : \A T \in SUBSET parents : Covers(T) => a \in T
  OBVIOUS
<1>4. Targets(v, "parent") \subseteq Ancestors(recs, v)
  BY <1>1, <1>2, <1>3
<1>5. ASSUME NEW w \in versions, w.id \in Ancestors(recs, v), NEW a \in Targets(w, "parent"),
             NEW T \in SUBSET parents, Covers(T)
      PROVE  a \in T
  <2>1. w.id \in T
    BY <1>1, <1>5
  <2>. QED
    BY <1>5, <2>1
<1>6. ASSUME NEW w \in versions, w.id \in Ancestors(recs, v)
      PROVE  Targets(w, "parent") \subseteq Ancestors(recs, v)
  BY <1>1, <1>2, <1>5, <1>6
<1>. QED
  BY <1>4, <1>6

LEMMA AncestorsAreVersions ==
  ASSUME NEW recs, Graph(recs), NEW v \in OfKind(recs, "version")
  PROVE  \A p \in Ancestors(recs, v) :
           \E w \in OfKind(recs, "version") :
             w.id = p /\ Targets(w, "artifact") = Targets(v, "artifact")
<1> DEFINE versions == OfKind(recs, "version")
           S == {w.id : w \in {u \in versions : Targets(u, "artifact") = Targets(v, "artifact")}}
<1>1. Targets(v, "parent") \subseteq S
  BY ParentIs
<1>2. ASSUME NEW w \in versions, w.id \in S PROVE Targets(w, "parent") \subseteq S
  <2>1. PICK u \in versions : u.id = w.id /\ Targets(u, "artifact") = Targets(v, "artifact")
    BY <1>2
  <2>2. u = w
    BY <2>1 DEF Graph, Unique, OfKind
  <2>. QED
    BY <2>1, <2>2, ParentIs
<1>3. Ancestors(recs, v) \subseteq S
  <2> HIDE DEF S
  <2>. QED
    BY <1>1, <1>2, AncestorsLeast
<1>. QED
  BY <1>3

\* Otherwise the Versions that descend from v in turn descend from a member
\* of their own.
LEMMA NotItsAncestor ==
  ASSUME NEW recs, Graph(recs), NEW v \in OfKind(recs, "version")
  PROVE  v.id \notin Ancestors(recs, v)
<1> SUFFICES ASSUME v.id \in Ancestors(recs, v) PROVE FALSE
  OBVIOUS
<1> DEFINE versions == OfKind(recs, "version")
           group == {w \in versions : v.id \in Ancestors(recs, w)}
<1>1. ASSUME NEW w \in group PROVE Targets(w, "parent") \cap IdsOf(group) # {}
  <2>0. w \in versions
    OBVIOUS
  <2> DEFINE S == Targets(w, "parent")
                  \cup UNION {Ancestors(recs, u) : u \in {u \in versions : u.id \in Targets(w, "parent")}}
  <2>1. ASSUME NEW x \in versions, x.id \in S PROVE Targets(x, "parent") \subseteq S
    <3>1. CASE x.id \in Targets(w, "parent")
      <4>1. Targets(x, "parent") \subseteq Ancestors(recs, x)
        BY AncestorsClosed
      <4>. QED
        BY <3>1, <4>1
    <3>2. ASSUME NEW u \in versions, u.id \in Targets(w, "parent"), x.id \in Ancestors(recs, u)
          PROVE  Targets(x, "parent") \subseteq S
      <4>1. Targets(x, "parent") \subseteq Ancestors(recs, u)
        BY <3>2, AncestorsClosed
      <4>. QED
        BY <3>2, <4>1
    <3>. QED
      BY <2>1, <3>1, <3>2
  <2>2. Targets(w, "parent") \subseteq S
    OBVIOUS
  <2>3. Ancestors(recs, w) \subseteq S
    <3> HIDE DEF S
    <3>. QED
      BY <2>0, <2>1, <2>2, AncestorsLeast
  <2>4. v.id \in S
    BY <2>3
  <2>5. CASE v.id \in Targets(w, "parent")
    BY <2>5 DEF IdsOf
  <2>6. ASSUME NEW u \in versions, u.id \in Targets(w, "parent"), v.id \in Ancestors(recs, u)
        PROVE  Targets(w, "parent") \cap IdsOf(group) # {}
    BY <2>6 DEF IdsOf
  <2>. QED
    BY <2>4, <2>5, <2>6
<1>2. group \in (SUBSET versions) \ {{}}
  OBVIOUS
<1> HIDE DEF group
<1>3. \E w \in group : Targets(w, "parent") \cap IdsOf(group) = {}
  BY <1>2 DEF Graph, Ordered
<1>. QED
  BY <1>1, <1>3

\* A valid graph with its bytes is whole histories.
LEMMA GraphIsWhole ==
  ASSUME NEW recs, NEW payloads, Graph(recs),
         DOMAIN payloads = IdsOf(OfKind(recs, "blob")),
         \A x \in OfKind(recs, "blob") : payloads[x.id] = x.bytes
  PROVE  Whole(recs, payloads)
<1> DEFINE versions == OfKind(recs, "version")
<1>1. Unique(recs) /\ \A x \in recs : Shaped(x) /\ Resolves(recs, x)
  BY DEF Graph
<1>2. \A v \in versions : v \in recs /\ v.kind = "version"
  BY DEF OfKind
<1>3. ASSUME NEW v \in versions, NEW b \in ContentBlobs(recs, v)
      PROVE  b \in DOMAIN payloads /\ payloads[b] = The(recs, b).bytes
  <2>1. PICK x \in recs : x.kind = "blob" /\ x.id = b
    BY <1>2, ContentIs, HeldAreBlobs
  <2>2. The(recs, b) = x
    BY <1>1, <2>1, TheIs
  <2>. QED
    BY <2>1, <2>2 DEF OfKind, IdsOf
<1>4. ASSUME NEW v \in versions PROVE \E x \in recs : x.kind = "artifact" /\ x.id \in Targets(v, "artifact")
  BY <1>2, VersionHas
<1>5. DOMAIN payloads = UNION {ContentBlobs(recs, v) : v \in versions}
  <2>1. ASSUME NEW b \in DOMAIN payloads PROVE \E v \in versions : b \in ContentBlobs(recs, v)
    <3>1. PICK x \in recs : x.kind = "blob" /\ x.id = b
      BY DEF OfKind, IdsOf
    <3>2. PICK v \in recs : v.kind = "version" /\ Holds(recs, v, b)
      BY <3>1, ContentIsHeld
    <3>. QED
      BY <3>2, ContentIs DEF OfKind
  <2>. QED
    BY <1>3, <2>1
<1>6. ASSUME NEW x \in OfKind(recs, "provenance_link")
      PROVE  x.refs # {} /\ {r.to : r \in x.refs} \subseteq IdsOf(versions)
  <2>1. x \in recs /\ x.kind = "provenance_link" /\ Shaped(x)
    BY <1>1 DEF OfKind
  <2>2. /\ \A r \in x.refs : r.field \in {"subject", "object"}
        /\ \E t \in Ids : Targets(x, "subject") = {t}
    BY <2>1 DEF Shaped
  <2>3. x.refs # {}
    BY <2>2 DEF Targets
  <2>4. ASSUME NEW r \in x.refs PROVE r.to \in IdsOf(versions)
    <3>1. PICK y \in recs : y.id = r.to /\ y.kind \in RefKind[r.field]
      BY <1>1, <2>1 DEF Resolves
    <3>2. y.kind = "version"
      BY <2>2, <3>1, RefKinds
    <3>. QED
      BY <3>1, <3>2 DEF IdsOf, OfKind
  <2>. QED
    BY <2>3, <2>4
<1>7. \A v \in versions :
        /\ v.id \notin Ancestors(recs, v)
        /\ \A p \in Ancestors(recs, v) :
             \E w \in versions : w.id = p /\ Targets(w, "artifact") = Targets(v, "artifact")
  BY NotItsAncestor, AncestorsAreVersions
<1> HIDE DEF versions
<1>. QED
  BY <1>1, <1>3, <1>4, <1>5, <1>6, <1>7 DEF Whole, Unique, versions
-----------------------------------------------------------------------------
(* Growing.                                                                *)

\* In more records a Version of a valid graph has the content it had.
LEMMA SameContent ==
  ASSUME NEW A, NEW U, Graph(A), A \subseteq U, Unique(U), NEW v \in A, v.kind = "version"
  PROVE  /\ ContentBlobs(U, v) = ContentBlobs(A, v)
         /\ \A b : Holds(U, v, b) <=> Holds(A, v, b)
         /\ Weight(U, ContentBlobs(A, v)) = Weight(A, ContentBlobs(A, v))
         /\ SameArtifact(U, v)
<1>1. PICK root \in A : root.kind = "content_root" /\ Targets(v, "root") = {root.id}
  BY VersionHas
<1>2. (CHOOSE r \in Targets(v, "root") : TRUE) = root.id
  BY <1>1
<1>3. Unique(A) /\ Resolves(A, root) /\ Resolves(A, v) /\ SameArtifact(A, v)
  BY DEF Graph, OfKind
<1>4. \A x \in A : The(U, x.id) = x /\ The(A, x.id) = x
  BY <1>3, TheIs
<1>5. \A id \in Targets(root, "manifest") : The(U, id) = The(A, id)
  BY <1>3, <1>4, Target
<1>6. {Targets(The(U, m), "entry") : m \in Targets(root, "manifest")}
        = {Targets(The(A, m), "entry") : m \in Targets(root, "manifest")}
  BY <1>5
<1>7. ContentBlobs(U, v) = ContentBlobs(A, v)
  BY <1>1, <1>2, <1>4, <1>6 DEF ContentBlobs
<1>8. \A b : Holds(U, v, b) <=> Holds(A, v, b)
  <2>1. \A x \in U : x.id \in Targets(v, "root") <=> x = root
    BY <1>1 DEF Unique
  <2>2. \A m \in U : m.id \in Targets(root, "manifest") => m \in A
    <3> TAKE m \in U
    <3> HAVE m.id \in Targets(root, "manifest")
    <3>1. PICK y \in A : y.id = m.id
      BY <1>3, Target
    <3>. QED
      BY <3>1 DEF Unique
  <2>. QED
    BY <2>1, <2>2 DEF Holds
<1>9. Weight(U, ContentBlobs(A, v)) = Weight(A, ContentBlobs(A, v))
  <2>1. \A b \in ContentBlobs(A, v) : The(U, b) = The(A, b)
    BY <1>4, ContentIs, HeldAreBlobs
  <2>2. [b \in ContentBlobs(A, v) |-> Size[The(U, b).bytes]] = [b \in ContentBlobs(A, v) |-> Size[The(A, b).bytes]]
    BY <2>1
  <2>. QED
    BY <2>2 DEF Weight
<1>10. SameArtifact(U, v)
  <2>1. \A p \in Targets(v, "parent") : The(U, p) = The(A, p)
    BY <1>3, <1>4, Target
  <2>. QED
    BY <1>3, <2>1 DEF SameArtifact
<1>. QED
  BY <1>7, <1>8, <1>9, <1>10

\* An Artifact, or a receipt, is added.
LEMMA AddPlain ==
  ASSUME NEW A, NEW ops, Valid(A, ops), NEW x, Shaped(x), x.id \notin IdsOf(A),
         x.kind \in {"artifact", "import_receipt"}, Resolves(A, x)
  PROVE  Valid(A \cup {x}, ops)
<1> DEFINE U == A \cup {x}
<1>0. Graph(A) /\ OpsOK(A, ops) /\ Within(A)
  BY ValidParts
<1>1. Unique(U)
  BY <1>0 DEF Graph, Unique, IdsOf
<1>2. OfKind(U, "version") = OfKind(A, "version")
  BY DEF OfKind
<1>3. \A y \in U : Shaped(y) /\ Resolves(U, y)
  BY <1>0 DEF Graph, Resolves
<1>4. \A v \in OfKind(A, "version") : v \in A /\ v.kind = "version"
  BY DEF OfKind
<1>5. \A v \in OfKind(U, "version") : SameArtifact(U, v) /\ Weight(U, ContentBlobs(U, v)) <= MaxPayload
  <2> HIDE DEF U
  <2>1. A \subseteq U
    BY DEF U
  <2> TAKE v \in OfKind(U, "version")
  <2>2. v \in A /\ v.kind = "version" /\ v \in OfKind(A, "version")
    BY <1>2, <1>4
  <2>3. /\ ContentBlobs(U, v) = ContentBlobs(A, v) /\ SameArtifact(U, v)
        /\ Weight(U, ContentBlobs(A, v)) = Weight(A, ContentBlobs(A, v))
    BY <1>0, <1>1, <2>1, <2>2, SameContent
  <2>. QED
    BY <1>0, <2>2, <2>3 DEF Within
<1>6. Unreachable(U) = {}
  <2>1. Unreachable(A) = {}
    BY <1>0 DEF Graph
  <2>. QED
    BY <2>1 DEF Unreachable
<1>7. Ordered(OfKind(U, "version"))
  BY <1>0, <1>2 DEF Graph
<1>8. OpsOK(U, ops)
  BY <1>0 DEF OpsOK
<1>9. Graph(U) /\ Within(U)
  <2> HIDE DEF U
  <2>. QED
    BY <1>1, <1>3, <1>5, <1>6, <1>7 DEF Graph, Within
<1>. QED
  BY <1>8, <1>9, ValidParts

\* Two valid graphs that agree where they meet are one.
LEMMA Join ==
  ASSUME NEW A, NEW B, NEW ops, Valid(A, ops), Valid(B, {}), Unique(A \cup B)
  PROVE  Valid(A \cup B, ops)
<1> DEFINE U == A \cup B
<1>0. Graph(A) /\ OpsOK(A, ops) /\ Within(A) /\ Graph(B) /\ Within(B)
  BY ValidParts
<1>1. \A y \in U : Shaped(y) /\ Resolves(U, y)
  BY <1>0 DEF Graph, Resolves
<1>2. \A v \in OfKind(U, "version") : SameArtifact(U, v) /\ Weight(U, ContentBlobs(U, v)) <= MaxPayload
  <2>1. A \subseteq U /\ B \subseteq U /\ Unique(U)
    OBVIOUS
  <2>2. \A v \in OfKind(U, "version") : v.kind = "version" /\ (v \in OfKind(A, "version") \/ v \in OfKind(B, "version"))
    BY DEF OfKind
  <2>3. \A v \in OfKind(A, "version") : v \in A
    BY DEF OfKind
  <2>4. \A v \in OfKind(B, "version") : v \in B
    BY DEF OfKind
  <2> HIDE DEF U
  <2> TAKE v \in OfKind(U, "version")
  <2>5. CASE v \in OfKind(A, "version")
    <3>1. /\ ContentBlobs(U, v) = ContentBlobs(A, v) /\ SameArtifact(U, v)
          /\ Weight(U, ContentBlobs(A, v)) = Weight(A, ContentBlobs(A, v))
      BY <1>0, <2>1, <2>2, <2>3, <2>5, SameContent
    <3>. QED
      BY <1>0, <2>5, <3>1 DEF Within
  <2>6. CASE v \in OfKind(B, "version")
    <3>1. /\ ContentBlobs(U, v) = ContentBlobs(B, v) /\ SameArtifact(U, v)
          /\ Weight(U, ContentBlobs(B, v)) = Weight(B, ContentBlobs(B, v))
      BY <1>0, <2>1, <2>2, <2>4, <2>6, SameContent
    <3>. QED
      BY <1>0, <2>6, <3>1 DEF Within
  <2>. QED
    BY <2>2, <2>5, <2>6
<1>3. Unreachable(U) = {}
  <2>1. Unreachable(A) = {} /\ Unreachable(B) = {}
    BY <1>0 DEF Graph
  <2>. QED
    BY <2>1 DEF Unreachable
<1>4. Ordered(OfKind(U, "version"))
  <2>1. ASSUME NEW C, Graph(C), C \subseteq U, NEW group \in SUBSET OfKind(U, "version"),
               group \cap OfKind(C, "version") # {}
        PROVE  \E v \in group : Targets(v, "parent") \cap IdsOf(group) = {}
    <3>1. PICK v \in group \cap OfKind(C, "version") :
            Targets(v, "parent") \cap IdsOf(group \cap OfKind(C, "version")) = {}
      BY <2>1 DEF Graph, Ordered
    <3>2. \A id \in Targets(v, "parent") : id \in IdsOf(group) => id \in IdsOf(group \cap OfKind(C, "version"))
      <4> TAKE id \in Targets(v, "parent")
      <4> HAVE id \in IdsOf(group)
      <4>1. PICK w \in group : w.id = id
        BY DEF IdsOf
      <4>2. PICK u \in OfKind(C, "version") : u.id = id
        BY <2>1, <3>1, ParentIs
      <4>3. u \in U /\ w \in U
        BY <2>1, <4>1, <4>2 DEF OfKind
      <4>4. u = w
        BY <4>1, <4>2, <4>3 DEF Unique
      <4>. QED
        BY <4>1, <4>2, <4>4 DEF IdsOf
    <3>. QED
      BY <3>1, <3>2
  <2>2. ASSUME NEW group \in (SUBSET OfKind(U, "version")) \ {{}}
        PROVE  \E v \in group : Targets(v, "parent") \cap IdsOf(group) = {}
    <3>1. group \cap OfKind(A, "version") # {} \/ group \cap OfKind(B, "version") # {}
      BY <2>2 DEF OfKind
    <3>2. A \subseteq U /\ B \subseteq U /\ group \in SUBSET OfKind(U, "version")
      BY <2>2
    <3> HIDE DEF U
    <3>. QED
      BY <1>0, <2>1, <3>1, <3>2
  <2>. QED
    BY <2>2 DEF Ordered
<1>5. OpsOK(U, ops)
  BY <1>0 DEF OpsOK
<1>6. Graph(U) /\ Within(U)
  <2>1. Unique(U)
    OBVIOUS
  <2> HIDE DEF U
  <2>. QED
    BY <1>1, <1>2, <1>3, <1>4, <2>1 DEF Graph, Within
<1>. QED
  BY <1>5, <1>6, ValidParts
-----------------------------------------------------------------------------
(* The invariant.                                                          *)

Domains ==
  /\ DOMAIN rows = Ledgers /\ DOMAIN index = Ledgers
  /\ DOMAIN stored = Ledgers /\ DOMAIN done = Ledgers
  /\ damaged \in [Ledgers -> Nat]

\* What decode_bundle asks of a bundle, but for its limits.
BundleOK(b) ==
  /\ Valid(b.recs, b.ops)
  /\ DOMAIN b.payloads = IdsOf(OfKind(b.recs, "blob"))
  /\ \A x \in OfKind(b.recs, "blob") : b.payloads[x.id] = x.bytes

IInv ==
  /\ Domains
  /\ \A l \in Ledgers : damaged[l] = 0 => Verify(l) = "OK"
  /\ BundleOK(bundle)

LEMMA VerifyIs ==
  ASSUME NEW l \in Ledgers
  PROVE  Verify(l) = "OK" <=>
           /\ Sound(l)
           /\ \A x \in OfKind(Recs(l), "blob") : x.id \in DOMAIN stored[l] /\ stored[l][x.id] = x.bytes
BY DEF Verify, BlobSound

\* The four tables of a Ledger, nothing else, decide whether it verifies.
LEMMA Elsewhere ==
  ASSUME NEW k \in Ledgers, rows'[k] = rows[k], index'[k] = index[k], stored'[k] = stored[k],
         done'[k] = done[k], Verify(k) = "OK"
  PROVE  Verify(k)' = "OK"
<1>1. Recs(k)' = Recs(k) /\ Ops(k)' = Ops(k)
  BY DEF Recs, Ops
<1>2. RowsAgree(k)' <=> RowsAgree(k)
  BY DEF RowsAgree
<1>3. Sound(k)' <=> Sound(k)
  BY <1>1, <1>2 DEF Sound, IndexesSound, MetadataSound
<1>. QED
  BY <1>1, <1>3 DEF Verify, BlobSound

LEMMA RowsOf ==
  ASSUME NEW A, NEW B
  PROVE  /\ ReferenceRows(A \cup B) = ReferenceRows(A) \cup ReferenceRows(B)
         /\ IdsOf(A \cup B) = IdsOf(A) \cup IdsOf(B)
         /\ \A k : OfKind(A \cup B, k) = OfKind(A, k) \cup OfKind(B, k)
BY DEF ReferenceRows, IdsOf, OfKind

\* What an INSERT of all these leaves in the tables.
LEMMA Inserted ==
  ASSUME Domains, NEW l \in Ledgers, NEW recs, NEW payloads, NEW ops, NEW o,
         Insert(l, recs, payloads, ops, o)
  PROVE  /\ Recs(l)' = Recs(l) \cup recs
         /\ Ops(l)' = Ops(l) \cup ops \cup {o}
         /\ RowsAgree(l) => RowsAgree(l)'
         /\ index'[l] = index[l] \cup ReferenceRows(recs)
         /\ stored'[l] = [b \in DOMAIN payloads \cup DOMAIN stored[l] |->
                            IF b \in DOMAIN stored[l] THEN stored[l][b] ELSE payloads[b]]
         /\ \A k \in Ledgers \ {l} : /\ rows'[k] = rows[k] /\ index'[k] = index[k]
                                     /\ stored'[k] = stored[k] /\ done'[k] = done[k]
         /\ bundle' = bundle /\ damaged' = damaged
<1>1. rows'[l] = rows[l] \cup {[id |-> x.id, kind |-> x.kind, data |-> x] : x \in recs}
  BY DEF Insert, Domains
<1>2. done'[l] = done[l] \cup {[tuple |-> p.tuple, result |-> p.result, data |-> p] : p \in ops \cup {o}}
  BY DEF Insert, Domains
<1> DEFINE NewRow(x) == [id |-> x.id, kind |-> x.kind, data |-> x]
           NewOp(p) == [tuple |-> p.tuple, result |-> p.result, data |-> p]
<1>3. Recs(l)' = Recs(l) \cup recs
  <2>1. \A x : NewRow(x).data = x
    OBVIOUS
  <2>2. rows'[l] = rows[l] \cup {NewRow(x) : x \in recs}
    BY <1>1
  <2> HIDE DEF NewRow
  <2>3. {row.data : row \in rows'[l]} = {row.data : row \in rows[l]} \cup recs
    BY <2>1, <2>2
  <2>. QED
    BY <2>3 DEF Recs
<1>4. Ops(l)' = Ops(l) \cup ops \cup {o}
  <2>1. \A p : NewOp(p).data = p
    OBVIOUS
  <2>2. done'[l] = done[l] \cup {NewOp(p) : p \in ops \cup {o}}
    BY <1>2
  <2> HIDE DEF NewOp
  <2>3. {row.data : row \in done'[l]} = {row.data : row \in done[l]} \cup ops \cup {o}
    BY <2>1, <2>2
  <2>. QED
    BY <2>3 DEF Ops
<1>5. RowsAgree(l) => RowsAgree(l)'
  BY <1>1, <1>2 DEF RowsAgree
<1>6. /\ index'[l] = index[l] \cup ReferenceRows(recs)
      /\ stored'[l] = [b \in DOMAIN payloads \cup DOMAIN stored[l] |->
                         IF b \in DOMAIN stored[l] THEN stored[l][b] ELSE payloads[b]]
  BY DEF Insert, Domains
<1>7. \A k \in Ledgers \ {l} : /\ rows'[k] = rows[k] /\ index'[k] = index[k]
                               /\ stored'[k] = stored[k] /\ done'[k] = done[k]
  BY DEF Insert, Domains
<1>8. bundle' = bundle /\ damaged' = damaged
  BY DEF Insert
<1>. QED
  BY <1>3, <1>4, <1>5, <1>6, <1>7, <1>8

\* An INSERT keeps the invariant if the whole it makes of an undamaged
\* Ledger is valid, and every new Blob has its bytes.
LEMMA InsertKeeps ==
  ASSUME IInv, NEW l \in Ledgers, NEW recs, NEW payloads, NEW ops, NEW o,
         Insert(l, recs, payloads, ops, o),
         Valid(Recs(l) \cup recs, Ops(l) \cup ops \cup {o}),
         IndexesSound(l), RowsAgree(l),
         DOMAIN payloads \subseteq IdsOf(OfKind(Recs(l) \cup recs, "blob")),
         \A x \in OfKind(recs, "blob") \ Recs(l) : x.id \in DOMAIN payloads /\ payloads[x.id] = x.bytes
  PROVE  IInv'
<1>0. Domains
  BY DEF IInv
<1>a. /\ Recs(l)' = Recs(l) \cup recs
      /\ Ops(l)' = Ops(l) \cup ops \cup {o}
      /\ RowsAgree(l) => RowsAgree(l)'
      /\ index'[l] = index[l] \cup ReferenceRows(recs)
      /\ stored'[l] = [b \in DOMAIN payloads \cup DOMAIN stored[l] |->
                         IF b \in DOMAIN stored[l] THEN stored[l][b] ELSE payloads[b]]
      /\ \A k \in Ledgers \ {l} : /\ rows'[k] = rows[k] /\ index'[k] = index[k]
                                  /\ stored'[k] = stored[k] /\ done'[k] = done[k]
      /\ bundle' = bundle /\ damaged' = damaged
  BY <1>0, Inserted
<1>1. Recs(l)' = Recs(l) \cup recs /\ Ops(l)' = Ops(l) \cup ops \cup {o} /\ RowsAgree(l)'
  BY <1>a
<1>2. /\ index'[l] = index[l] \cup ReferenceRows(recs)
      /\ stored'[l] = [b \in DOMAIN payloads \cup DOMAIN stored[l] |->
                         IF b \in DOMAIN stored[l] THEN stored[l][b] ELSE payloads[b]]
      /\ bundle' = bundle /\ damaged' = damaged
  BY <1>a
<1>3. \A k \in Ledgers \ {l} : /\ rows'[k] = rows[k] /\ index'[k] = index[k]
                               /\ stored'[k] = stored[k] /\ done'[k] = done[k]
  BY <1>a
<1>4. Unique(Recs(l) \cup recs)
  BY ValidParts DEF Graph
<1>5. /\ index[l] = ReferenceRows(Recs(l))
      /\ DOMAIN stored[l] = IdsOf(OfKind(Recs(l), "blob"))
  BY DEF IndexesSound
<1>6. index'[l] = ReferenceRows(Recs(l)')
  <2>1. ReferenceRows(Recs(l) \cup recs) = ReferenceRows(Recs(l)) \cup ReferenceRows(recs)
    BY RowsOf
  <2>. QED
    BY <1>1, <1>2, <1>5, <2>1
<1>7. DOMAIN stored'[l] = DOMAIN payloads \cup DOMAIN stored[l]
  BY <1>2
<1>8. OfKind(Recs(l) \cup recs, "blob") = OfKind(Recs(l), "blob") \cup (OfKind(recs, "blob") \ Recs(l))
  BY DEF OfKind
<1>9. DOMAIN stored'[l] = IdsOf(OfKind(Recs(l) \cup recs, "blob"))
  <2>1. IdsOf(OfKind(Recs(l), "blob")) \subseteq IdsOf(OfKind(Recs(l) \cup recs, "blob"))
    BY <1>8 DEF IdsOf
  <2>2. ASSUME NEW x \in OfKind(recs, "blob") \ Recs(l) PROVE x.id \in DOMAIN payloads
    OBVIOUS
  <2>3. IdsOf(OfKind(Recs(l) \cup recs, "blob")) \subseteq DOMAIN payloads \cup IdsOf(OfKind(Recs(l), "blob"))
    BY <1>8, <2>2 DEF IdsOf
  <2>. QED
    BY <1>5, <1>7, <2>1, <2>3
<1>10. Sound(l)'
  BY <1>1, <1>6, <1>9 DEF Sound, IndexesSound, MetadataSound
<1>11. ASSUME damaged[l] = 0 PROVE Verify(l)' = "OK"
  <2>1. Verify(l) = "OK"
    BY <1>11 DEF IInv
  <2>2. \A x \in OfKind(Recs(l), "blob") : x.id \in DOMAIN stored[l] /\ stored[l][x.id] = x.bytes
    BY <2>1, VerifyIs
  <2>3. \A x \in OfKind(Recs(l), "blob") : stored'[l][x.id] = x.bytes
    BY <1>2, <2>2
  <2>4. ASSUME NEW x \in OfKind(recs, "blob") \ Recs(l) PROVE stored'[l][x.id] = x.bytes
    <3>1. x.id \notin DOMAIN stored[l]
      BY <1>4, <1>5 DEF Unique, IdsOf, OfKind
    <3>. QED
      BY <1>2, <3>1
  <2>5. \A x \in OfKind(Recs(l)', "blob") : x.id \in DOMAIN stored'[l] /\ stored'[l][x.id] = x.bytes
    BY <1>1, <1>8, <1>9, <2>3, <2>4 DEF IdsOf
  <2>. QED
    BY <1>10, <2>5 DEF Verify, BlobSound
<1>12. \A k \in Ledgers : damaged'[k] = 0 => Verify(k)' = "OK"
  <2> TAKE k \in Ledgers
  <2> HAVE damaged'[k] = 0
  <2>1. CASE k = l
    BY <1>2, <1>11, <2>1
  <2>2. CASE k # l
    <3>1. Verify(k) = "OK"
      BY <1>2 DEF IInv
    <3>. QED
      BY <1>3, <2>2, <3>1, Elsewhere
  <2>. QED
    BY <2>1, <2>2
<1>13. Domains'
  BY <1>0, <1>2 DEF Domains, Insert
<1>14. BundleOK(bundle)'
  BY <1>2 DEF IInv, BundleOK
<1>. QED
  BY <1>12, <1>13, <1>14 DEF IInv
-----------------------------------------------------------------------------
(* What each operation checks is enough.                                   *)

LEMMA StampKeeps ==
  ASSUME NEW x \in Record, NEW l
  PROVE  /\ Stamp(x, l).id = x.id /\ Stamp(x, l).kind = x.kind
         /\ Stamp(x, l).refs = x.refs /\ Stamp(x, l).bytes = x.bytes
BY DEF Stamp, Record

LEMMA ResultKinds ==
  /\ ResultKind["create_artifact"] = "artifact" /\ ResultKind["append_version"] = "version"
  /\ ResultKind["import_bundle"] = "import_receipt"
BY DEF ResultKind

\* A success is added, whose result is there.
LEMMA AddOperation ==
  ASSUME NEW recs, NEW ops, NEW o, Valid(recs, ops), \A p \in ops : p.tuple # o.tuple,
         \E x \in recs : x.id = o.result /\ x.kind = ResultKind[o.tuple.kind]
  PROVE  Valid(recs, ops \cup {o})
<1>1. Graph(recs) /\ OpsOK(recs, ops) /\ Within(recs)
  BY ValidParts
<1>2. OpsOK(recs, ops \cup {o})
  BY <1>1 DEF OpsOK
<1>. QED
  BY <1>1, <1>2, ValidParts

LEMMA UnusedTuple ==
  ASSUME NEW l \in Ledgers, RowsAgree(l), NEW tuple, Unused(l, tuple)
  PROVE  \A p \in Ops(l) : p.tuple # tuple
BY DEF RowsAgree, Unused, Ops

LEMMA EmptyIsValid == Valid({}, {})
BY DEF Valid, Ordered, OfKind, Unreachable

LEMMA InitIInv == Init => IInv
<1> SUFFICES ASSUME Init PROVE IInv
  OBVIOUS
<1>1. Domains
  BY DEF Init, Domains
<1>2. ASSUME NEW l \in Ledgers PROVE Verify(l) = "OK"
  <2>1. rows[l] = {} /\ index[l] = {} /\ stored[l] = <<>> /\ done[l] = {}
    BY DEF Init
  <2>2. Recs(l) = {} /\ Ops(l) = {}
    BY <2>1 DEF Recs, Ops
  <2>3. OfKind({}, "blob") = {} /\ IdsOf({}) = {} /\ ReferenceRows({}) = {}
    BY DEF OfKind, IdsOf, ReferenceRows
  <2>4. DOMAIN stored[l] = {}
    BY <2>1
  <2>5. RowsAgree(l)
    BY <2>1 DEF RowsAgree
  <2>6. Sound(l)
    BY <2>1, <2>2, <2>3, <2>4, <2>5, EmptyIsValid DEF Sound, IndexesSound, MetadataSound
  <2>. QED
    BY <2>2, <2>3, <2>6 DEF Verify
<1>3. BundleOK(bundle)
  <2>1. bundle.recs = {} /\ bundle.ops = {} /\ bundle.payloads = <<>>
    BY DEF Init, Nothing
  <2>2. OfKind({}, "blob") = {} /\ IdsOf({}) = {}
    BY DEF OfKind, IdsOf
  <2>3. DOMAIN bundle.payloads = {}
    BY <2>1
  <2>. QED
    BY <2>1, <2>2, <2>3, EmptyIsValid DEF BundleOK
<1>. QED
  BY <1>1, <1>2, <1>3 DEF IInv

LEMMA CreateKeeps ==
  ASSUME IInv, NEW l \in Ledgers, NEW req \in Asked[l], Create(l, req)
  PROVE  IInv'
<1> DEFINE x == Stamp(req.artifact, l)
           o == [tuple |-> req.tuple, asked |-> req, result |-> req.artifact.id, at |-> l]
<1>1. /\ req.tuple.kind = "create_artifact" /\ Unused(l, req.tuple)
      /\ req.artifact.id \notin IdsOf(Recs(l)) /\ Sound(l)
      /\ Insert(l, {x}, <<>>, {}, o)
  BY DEF Create
<1>2. req.artifact \in Record /\ req.artifact.kind = "artifact" /\ Shaped(req.artifact)
  BY <1>1, RequestsAssumption
<1>3. x.id = req.artifact.id /\ x.kind = "artifact" /\ x.refs = req.artifact.refs
      /\ x.bytes = req.artifact.bytes
  BY <1>2, StampKeeps
<1>4. Shaped(x) /\ x.refs = {}
  <2>1. \A r \in req.artifact.refs : r.field \in {}
    BY <1>2 DEF Shaped
  <2>2. x.refs = {}
    BY <1>3, <2>1
  <2>3. (x.bytes # NoBytes) <=> x.kind = "blob"
    BY <1>2, <1>3 DEF Shaped
  <2>. QED
    BY <1>3, <2>2, <2>3 DEF Shaped, Kinds
<1>5. Resolves(Recs(l), x)
  BY <1>4 DEF Resolves
<1>6. Valid(Recs(l), Ops(l)) /\ RowsAgree(l) /\ IndexesSound(l)
  BY <1>1 DEF Sound, MetadataSound
<1>7. Valid(Recs(l) \cup {x}, Ops(l))
  <2> HIDE DEF x
  <2>. QED
    BY <1>1, <1>3, <1>4, <1>5, <1>6, AddPlain
<1>8. o.tuple = req.tuple /\ o.result = x.id /\ ResultKind[o.tuple.kind] = x.kind
  BY <1>1, <1>3, ResultKinds
<1> HIDE DEF x, o
<1>9. \A p \in Ops(l) : p.tuple # o.tuple
  BY <1>1, <1>6, <1>8, UnusedTuple
<1>10. Valid(Recs(l) \cup {x}, Ops(l) \cup {o})
  BY <1>7, <1>8, <1>9, AddOperation
<1>11. Ops(l) \cup {} \cup {o} = Ops(l) \cup {o}
  OBVIOUS
<1>12. OfKind({x}, "blob") = {}
  BY <1>3 DEF OfKind
<1>13. DOMAIN (<<>>) \subseteq IdsOf(OfKind(Recs(l) \cup {x}, "blob"))
  OBVIOUS
<1>14. \A y \in OfKind({x}, "blob") \ Recs(l) : y.id \in DOMAIN (<<>>) /\ (<<>>)[y.id] = y.bytes
  BY <1>12
<1>. QED
  BY <1>1, <1>6, <1>10, <1>11, <1>13, <1>14, InsertKeeps

LEMMA AppendKeeps ==
  ASSUME IInv, NEW l \in Ledgers, NEW req \in Asked[l], NEW payloads, Append(l, req, payloads)
  PROVE  IInv'
<1> DEFINE known == Recs(l)
           version == Stamp(req.version, l)
           additions == Additions(l, req)
           all == known \cup additions
           blobs == {x \in all : x.kind = "blob" /\ x.id \in ContentBlobs(all, version)}
           new == [b \in DOMAIN payloads \ DOMAIN stored[l] |-> payloads[b]]
           o == [tuple |-> req.tuple, asked |-> req, result |-> req.version.id, at |-> l]
<1>1. /\ req.tuple.kind = "append_version" /\ Appendable(l, req, payloads)
      /\ Insert(l, additions \ known, new, {}, o)
  BY DEF Append
<1>2. req.version \in Record /\ req.version.kind = "version"
  BY <1>1, RequestsAssumption
<1>3. version.id = req.version.id /\ version.kind = "version" /\ version \in additions
  BY <1>2, StampKeeps DEF Additions
<1>4. /\ Unused(l, req.tuple) /\ Sound(l) /\ Valid(all, Ops(l))
      /\ \A x \in additions : Related(all, version, x)
      /\ DOMAIN payloads \subseteq IdsOf(blobs)
      /\ \A x \in blobs : BytesThere(l, known, x, payloads)
  BY <1>1 DEF Appendable
<1>5. RowsAgree(l) /\ IndexesSound(l) /\ DOMAIN stored[l] = IdsOf(OfKind(known, "blob"))
  BY <1>4 DEF Sound, MetadataSound, IndexesSound
<1>6. known \cup (additions \ known) = all
  OBVIOUS
<1>7. o.tuple = req.tuple /\ o.result = version.id /\ ResultKind[o.tuple.kind] = "version"
  BY <1>1, <1>3, ResultKinds
<1>8. \A x \in blobs : x \in OfKind(all, "blob")
  BY DEF OfKind
<1>9. ASSUME NEW x \in OfKind(additions \ known, "blob") \ known
      PROVE  x.id \in DOMAIN new /\ new[x.id] = x.bytes
  <2>1. x \in additions /\ x \notin known /\ x.kind = "blob"
    BY <1>9 DEF OfKind
  <2>2. x.id \in ContentBlobs(all, version)
    BY <1>4, <2>1 DEF Related
  <2>3. BytesThere(l, known, x, payloads)
    BY <1>4, <2>1, <2>2
  <2>4. x.id \in DOMAIN payloads /\ payloads[x.id] = x.bytes
    BY <2>1, <2>3 DEF BytesThere
  <2>5. x.id \notin DOMAIN stored[l]
    <3>1. Unique(all)
      BY <1>4, ValidParts DEF Graph
    <3>. QED
      BY <1>5, <2>1, <3>1 DEF Unique, IdsOf, OfKind
  <2>. QED
    BY <2>4, <2>5
<1>10. DOMAIN new \subseteq IdsOf(OfKind(all, "blob"))
  BY <1>4, <1>8 DEF IdsOf
<1>11. version \in all
  BY <1>3
<1> HIDE DEF known, version, additions, all, blobs, new, o
<1>12. \A p \in Ops(l) : p.tuple # o.tuple
  BY <1>4, <1>5, <1>7, UnusedTuple
<1>13. Valid(all, Ops(l) \cup {o})
  BY <1>3, <1>4, <1>7, <1>11, <1>12, AddOperation
<1>14. Ops(l) \cup {} \cup {o} = Ops(l) \cup {o} /\ Recs(l) \cup (additions \ known) = all
  BY <1>6 DEF known
<1>15. \A x \in OfKind(additions \ known, "blob") \ Recs(l) : x.id \in DOMAIN new /\ new[x.id] = x.bytes
  BY <1>9 DEF known
<1>. QED
  BY <1>1, <1>5, <1>10, <1>13, <1>14, <1>15, InsertKeeps

LEMMA ExportKeeps ==
  ASSUME IInv, NEW l \in Ledgers, Export(l)
  PROVE  IInv'
<1>1. bundle' = Content(l) /\ Exportable(l) /\ UNCHANGED <<rows, index, stored, done, damaged>>
  BY DEF Export
<1>2. Content(l).recs = Recs(l) /\ Content(l).ops = Ops(l) /\ Content(l).payloads = stored[l]
  BY DEF Content
<1>3. BundleOK(bundle)'
  BY <1>1, <1>2 DEF BundleOK, Exportable, Sound, MetadataSound, IndexesSound, BlobSound
<1>4. Domains'
  BY <1>1 DEF IInv, Domains
<1>5. \A k \in Ledgers : damaged'[k] = 0 => Verify(k)' = "OK"
  BY <1>1, Elsewhere DEF IInv
<1>. QED
  BY <1>3, <1>4, <1>5 DEF IInv

LEMMA ImportKeeps ==
  ASSUME IInv, NEW l \in Ledgers, NEW ask, NEW b, Import(l, ask, b)
  PROVE  IInv'
<1> DEFINE known == Recs(l)
           receipt == Receipt(l, ask, b)
           new == (b.recs \ known) \cup {receipt}
           o == [tuple |-> Importing(ask), asked |-> [ask |-> ask, bundle |-> b],
                 result |-> ask.receipt, at |-> l]
<1>1. /\ Unused(l, Importing(ask)) /\ ~Mismatch(known, Ops(l), ask, b) /\ Decodes(b) /\ Sound(l)
      /\ Valid(known \cup b.recs \cup {receipt}, Ops(l) \cup b.ops)
      /\ Insert(l, new, b.payloads, b.ops \ Ops(l), o)
  BY DEF Import
<1>2. RowsAgree(l) /\ IndexesSound(l)
  BY <1>1 DEF Sound, MetadataSound
<1>3. receipt.id = ask.receipt /\ receipt.kind = "import_receipt"
  BY DEF Receipt
<1>4. o.tuple = Importing(ask) /\ o.result = receipt.id /\ ResultKind[o.tuple.kind] = receipt.kind
  BY <1>3, ResultKinds DEF Importing
<1>5. known \cup new = known \cup b.recs \cup {receipt}
  OBVIOUS
<1>6. Ops(l) \cup (b.ops \ Ops(l)) \cup {o} = (Ops(l) \cup b.ops) \cup {o}
  OBVIOUS
<1>7. \A p \in b.ops : p.tuple # o.tuple
  BY <1>1, <1>4 DEF Mismatch
<1>8. DOMAIN b.payloads = IdsOf(OfKind(b.recs, "blob"))
      /\ \A x \in OfKind(b.recs, "blob") : b.payloads[x.id] = x.bytes
  BY <1>1 DEF Decodes
<1>9. DOMAIN b.payloads \subseteq IdsOf(OfKind(known \cup new, "blob"))
  BY <1>8 DEF IdsOf, OfKind
<1>10. \A x \in OfKind(new, "blob") \ known : x.id \in DOMAIN b.payloads /\ b.payloads[x.id] = x.bytes
  <2> TAKE x \in OfKind(new, "blob") \ known
  <2>1. x \in OfKind(b.recs, "blob")
    BY <1>3 DEF OfKind
  <2>. QED
    BY <1>8, <2>1 DEF IdsOf
<1>11. receipt \in known \cup b.recs \cup {receipt}
  OBVIOUS
<1> HIDE DEF receipt, new, o
<1>12. \A p \in Ops(l) \cup b.ops : p.tuple # o.tuple
  BY <1>1, <1>2, <1>4, <1>7, UnusedTuple
<1>13. Valid(known \cup b.recs \cup {receipt}, (Ops(l) \cup b.ops) \cup {o})
  <2> HIDE DEF known
  <2>. QED
    BY <1>1, <1>4, <1>11, <1>12, AddOperation
<1>. QED
  BY <1>1, <1>2, <1>5, <1>6, <1>9, <1>10, <1>13, InsertKeeps

\* Whatever is done to a Ledger, it counts as damaged from then on.
LEMMA HarmKeeps ==
  ASSUME IInv, NEW l \in Ledgers, Harm(l), bundle' = bundle, Domains',
         \A k \in Ledgers \ {l} : /\ rows'[k] = rows[k] /\ index'[k] = index[k]
                                  /\ stored'[k] = stored[k] /\ done'[k] = done[k]
  PROVE  IInv'
<1>1. damaged'[l] # 0 /\ \A k \in Ledgers \ {l} : damaged'[k] = damaged[k]
  BY DEF IInv, Domains, Harm
<1>2. \A k \in Ledgers : damaged'[k] = 0 => Verify(k)' = "OK"
  BY <1>1, Elsewhere DEF IInv
<1>3. BundleOK(bundle)'
  BY DEF IInv, BundleOK
<1>. QED
  BY <1>2, <1>3 DEF IInv

LEMMA NextIInv == IInv /\ [Next]_vars => IInv'
<1> SUFFICES ASSUME IInv, [Next]_vars PROVE IInv'
  OBVIOUS
<1>0. Domains
  BY DEF IInv
<1>1. CASE UNCHANGED vars
  <2>1. UNCHANGED <<rows, index, stored, done, bundle, damaged>>
    BY <1>1 DEF vars
  <2>2. \A k \in Ledgers : damaged'[k] = 0 => Verify(k)' = "OK"
    BY <2>1, Elsewhere DEF IInv
  <2>3. Domains' /\ BundleOK(bundle)'
    BY <2>1 DEF IInv, Domains, BundleOK
  <2>. QED
    BY <2>2, <2>3 DEF IInv
<1>2. ASSUME NEW l \in Ledgers, NEW req \in Asked[l], Create(l, req) PROVE IInv'
  BY <1>2, CreateKeeps
<1>3. ASSUME NEW l \in Ledgers, NEW req \in Asked[l], NEW payloads \in Payloads, Append(l, req, payloads)
      PROVE  IInv'
  BY <1>3, AppendKeeps
<1>4. ASSUME NEW l \in Ledgers, Export(l) PROVE IInv'
  BY <1>4, ExportKeeps
<1>5. ASSUME NEW l \in Ledgers, NEW ask \in Imports, NEW b \in Foreign \cup {bundle}, Import(l, ask, b)
      PROVE  IInv'
  BY <1>5, ImportKeeps
<1>6. ASSUME NEW l \in Ledgers, HarmPayload(l) PROVE IInv'
  <2>1. Harm(l) /\ bundle' = bundle /\ rows' = rows /\ index' = index /\ done' = done
    BY <1>6 DEF HarmPayload
  <2>2. DOMAIN stored' = Ledgers /\ \A k \in Ledgers \ {l} : stored'[k] = stored[k]
    BY <1>0, <1>6 DEF HarmPayload, Domains
  <2>3. damaged' \in [Ledgers -> Nat]
    BY <1>0, <2>1 DEF Harm, Domains
  <2>4. Domains'
    BY <1>0, <2>1, <2>2, <2>3 DEF Domains
  <2>. QED
    BY <2>1, <2>2, <2>4, HarmKeeps
<1>7. ASSUME NEW l \in Ledgers, HarmIndex(l) PROVE IInv'
  <2>1. Harm(l) /\ bundle' = bundle /\ rows' = rows /\ stored' = stored /\ done' = done
    BY <1>7 DEF HarmIndex
  <2>2. DOMAIN index' = Ledgers /\ \A k \in Ledgers \ {l} : index'[k] = index[k]
    BY <1>0, <1>7 DEF HarmIndex, Domains
  <2>3. damaged' \in [Ledgers -> Nat]
    BY <1>0, <2>1 DEF Harm, Domains
  <2>4. Domains'
    BY <1>0, <2>1, <2>2, <2>3 DEF Domains
  <2>. QED
    BY <2>1, <2>2, <2>4, HarmKeeps
<1>8. ASSUME NEW l \in Ledgers, HarmRecord(l) PROVE IInv'
  <2>1. Harm(l) /\ bundle' = bundle /\ index' = index /\ stored' = stored /\ done' = done
    BY <1>8 DEF HarmRecord
  <2>2. DOMAIN rows' = Ledgers /\ \A k \in Ledgers \ {l} : rows'[k] = rows[k]
    BY <1>0, <1>8 DEF HarmRecord, Domains
  <2>3. damaged' \in [Ledgers -> Nat]
    BY <1>0, <2>1 DEF Harm, Domains
  <2>4. Domains'
    BY <1>0, <2>1, <2>2, <2>3 DEF Domains
  <2>. QED
    BY <2>1, <2>2, <2>4, HarmKeeps
<1>9. ASSUME NEW l \in Ledgers, HarmOperation(l) PROVE IInv'
  <2>1. Harm(l) /\ bundle' = bundle /\ rows' = rows /\ index' = index /\ stored' = stored
    BY <1>9 DEF HarmOperation
  <2>2. DOMAIN done' = Ledgers /\ \A k \in Ledgers \ {l} : done'[k] = done[k]
    BY <1>0, <1>9 DEF HarmOperation, Domains
  <2>3. damaged' \in [Ledgers -> Nat]
    BY <1>0, <2>1 DEF Harm, Domains
  <2>4. Domains'
    BY <1>0, <2>1, <2>2, <2>3 DEF Domains
  <2>. QED
    BY <2>1, <2>2, <2>4, HarmKeeps
<1>. QED
  BY <1>1, <1>2, <1>3, <1>4, <1>5, <1>6, <1>7, <1>8, <1>9 DEF Next
-----------------------------------------------------------------------------
(* The theorems.                                                           *)

\* Whatever the Ledgers, their requests and the damage, a Ledger nobody
\* damaged verifies and the last bundle decodes (the planners of execute,
\* validate_metadata, export_bundle).
THEOREM Invariance == Spec => []IInv
BY InitIInv, NextIInv, PTL DEF Spec

\* What verifies is whole.
LEMMA VerifiedIsWhole ==
  ASSUME NEW l \in Ledgers, Verify(l) = "OK"
  PROVE  /\ Whole(Recs(l), stored[l]) /\ RowsAgree(l) /\ index[l] = ReferenceRows(Recs(l))
         /\ Sound(l) /\ Valid(Recs(l), Ops(l)) /\ Graph(Recs(l)) /\ OpsOK(Recs(l), Ops(l))
         /\ DOMAIN stored[l] = IdsOf(OfKind(Recs(l), "blob"))
         /\ \A x \in OfKind(Recs(l), "blob") : x.id \in DOMAIN stored[l] /\ stored[l][x.id] = x.bytes
<1>1. /\ Sound(l) /\ Valid(Recs(l), Ops(l)) /\ RowsAgree(l) /\ index[l] = ReferenceRows(Recs(l))
      /\ DOMAIN stored[l] = IdsOf(OfKind(Recs(l), "blob"))
      /\ \A x \in OfKind(Recs(l), "blob") : x.id \in DOMAIN stored[l] /\ stored[l][x.id] = x.bytes
  BY VerifyIs DEF Sound, MetadataSound, IndexesSound
<1>2. Graph(Recs(l)) /\ OpsOK(Recs(l), Ops(l))
  BY <1>1, ValidParts
<1>3. Whole(Recs(l), stored[l])
  BY <1>1, <1>2, GraphIsWhole
<1>. QED
  BY <1>1, <1>2, <1>3

\* A Ledger nobody damages holds whole histories, each Version with its
\* Artifact, its ancestors and all its bytes, and its tables agree.
THEOREM WholeHistories == Spec => []HistoriesWhole
<1>1. IInv => HistoriesWhole
  BY VerifiedIsWhole DEF IInv, HistoriesWhole, Undamaged
<1>. QED
  BY <1>1, Invariance, PTL

\* A bundle is whole, whatever was damaged (export_bundle).
THEOREM WholeBundles == Spec => []BundlesWhole
<1>1. ASSUME IInv PROVE BundlesWhole
  <2>1. BundleOK(bundle)
    BY <1>1 DEF IInv
  <2>2. Graph(bundle.recs)
    BY <2>1, ValidParts DEF BundleOK
  <2>. QED
    BY <2>1, <2>2, GraphIsWhole DEF BundleOK, BundlesWhole
<1>. QED
  BY <1>1, Invariance, PTL

\* A record that is there can be asked for.
LEMMA RecordIsThere ==
  ASSUME NEW l \in Ledgers, RowsAgree(l), NEW x \in Recs(l)
  PROVE  GetRecord(l, x.kind, x.id) = "OK"
<1> DEFINE found == {row \in rows[l] : row.id = x.id /\ row.kind = x.kind}
<1>1. PICK row \in rows[l] : row.data = x
  BY DEF Recs
<1>2. row \in found /\ row.data.id = x.id /\ row.data.kind = x.kind
  BY <1>1 DEF RowsAgree
<1>. QED
  BY <1>2 DEF GetRecord

\* A Ledger that verifies answers every query about what it has and holds
\* whole histories; one that nobody damaged verifies (verify, _read).
THEOREM ReadableIfVerified == Spec => []VerifiedMeansReadable
<1>1. ASSUME NEW l \in Ledgers, Verify(l) = "OK"
      PROVE  /\ Whole(Recs(l), stored[l])
             /\ \A x \in Recs(l) : GetRecord(l, x.kind, x.id) = "OK"
             /\ \A x \in OfKind(Recs(l), "blob") : ReadBlob(l, x.id) = "OK"
             /\ \A x \in OfKind(Recs(l), "artifact") : GetHistory(l, x.id) \in {"OK", "RESOURCE_LIMIT"}
             /\ \A o \in Ops(l) : GetOperation(l, o.tuple) = "OK"
  <2>1. /\ Whole(Recs(l), stored[l]) /\ RowsAgree(l) /\ Sound(l)
        /\ Graph(Recs(l)) /\ OpsOK(Recs(l), Ops(l))
        /\ \A x \in OfKind(Recs(l), "blob") : x.id \in DOMAIN stored[l] /\ stored[l][x.id] = x.bytes
    BY <1>1, VerifiedIsWhole
  <2>2. \A x \in Recs(l) : GetRecord(l, x.kind, x.id) = "OK"
    BY <2>1, RecordIsThere
  <2>3. \A x, k : x \in OfKind(Recs(l), k) => x \in Recs(l) /\ x.kind = k
    BY DEF OfKind
  <2>4. MetadataSound(l) /\ Unique(Recs(l))
    BY <2>1 DEF Sound, Graph
  <2>5. ASSUME NEW x \in OfKind(Recs(l), "blob") PROVE ReadBlob(l, x.id) = "OK"
    <3>1. GetRecord(l, "blob", x.id) = "OK"
      BY <2>2, <2>3
    <3>2. The(Recs(l), x.id) = x
      BY <2>3, <2>4, TheIs
    <3>. QED
      BY <2>1, <3>1, <3>2 DEF ReadBlob, BlobSound
  <2>6. ASSUME NEW x \in OfKind(Recs(l), "artifact")
        PROVE  GetHistory(l, x.id) \in {"OK", "RESOURCE_LIMIT"}
    <3>1. GetRecord(l, "artifact", x.id) = "OK"
      BY <2>2, <2>3
    <3>. QED
      BY <2>4, <3>1 DEF GetHistory
  <2>7. ASSUME NEW o \in Ops(l) PROVE GetOperation(l, o.tuple) = "OK"
    <3> DEFINE found == {row.data : row \in {row \in done[l] : row.tuple = o.tuple}}
    <3>1. found = {o}
      <4>1. PICK row \in done[l] : row.data = o
        BY DEF Ops
      <4>2. o \in found
        BY <2>1, <4>1 DEF RowsAgree
      <4>3. \A p \in found : p \in Ops(l) /\ p.tuple = o.tuple
        BY <2>1 DEF RowsAgree, Ops
      <4>4. \A p \in found : p = o
        BY <2>1, <4>3 DEF OpsOK
      <4>. QED
        BY <4>2, <4>4
    <3>2. PICK x \in Recs(l) : x.id = o.result /\ x.kind = ResultKind[o.tuple.kind]
      BY <2>1 DEF OpsOK
    <3>3. GetRecord(l, ResultKind[o.tuple.kind], o.result) = "OK"
      BY <2>2, <3>2
    <3>4. (CHOOSE p \in found : TRUE) = o
      BY <3>1
    <3>5. GetOperation(l, o.tuple) =
            IF found = {} THEN "NOT_FOUND"
            ELSE IF ~MetadataSound(l) \/ (\E p \in found : p.tuple # o.tuple) THEN "INTEGRITY_FAILURE"
            ELSE GetRecord(l, ResultKind[o.tuple.kind], (CHOOSE p \in found : TRUE).result)
      BY DEF GetOperation
    <3> HIDE DEF found
    <3>. QED
      BY <2>4, <3>1, <3>3, <3>4, <3>5
  <2>. QED
    BY <2>1, <2>2, <2>5, <2>6, <2>7
<1>2. IInv => VerifiedMeansReadable
  BY <1>1 DEF IInv, VerifiedMeansReadable, Undamaged
<1>. QED
  BY <1>2, Invariance, PTL
-----------------------------------------------------------------------------
(* Carrying over.                                                          *)

\* The receipt of an import is well formed and refers to what it brings.
LEMMA ReceiptFits ==
  ASSUME NEW k, NEW ask, NEW b, Valid(b.recs, b.ops), ask.receipt \notin IdsOf(b.recs)
  PROVE  Valid(b.recs \cup {Receipt(k, ask, b)}, b.ops)
<1> DEFINE x == Receipt(k, ask, b)
<1>1. /\ x.kind = "import_receipt" /\ x.id = ask.receipt /\ x.bytes = NoBytes
      /\ x.refs = {[field |-> "imported", to |-> a.id] : a \in OfKind(b.recs, "artifact")}
  BY DEF Receipt
<1> HIDE DEF x
<1>2. \A r \in x.refs : r.field = "imported" /\ \E a \in b.recs : a.kind = "artifact" /\ a.id = r.to
  BY <1>1 DEF OfKind
<1>3. Shaped(x)
  BY <1>1, <1>2 DEF Shaped, Kinds
<1>4. Resolves(b.recs, x)
  BY <1>2, RefKinds DEF Resolves
<1>5. Valid(b.recs \cup {x}, b.ops)
  BY <1>1, <1>3, <1>4, AddPlain
<1>. QED
  BY <1>5 DEF x

\* What an undamaged Ledger exports decodes, makes of an empty Ledger one
\* that has all of it, and adds nothing where it came from (export_bundle,
\* decode_bundle, _import).
THEOREM CarriesOver == Spec => []RoundTrip
<1>1. ASSUME IInv, NEW l \in Undamaged, Exportable(l), NEW b, b = Content(l)
      PROVE  /\ Decodes(b)
             /\ \A ask \in Imports :
                  \/ ask.receipt \in IdsOf(b.recs) \/ \E o \in b.ops : o.tuple = Importing(ask)
                  \/ /\ \A k \in Ledgers :
                          /\ ~Mismatch({}, {}, ask, b)
                          /\ Valid(b.recs \cup {Receipt(k, ask, b)}, b.ops)
                     /\ ~Mismatch(Recs(l), Ops(l), ask, b)
  <2>0. l \in Ledgers /\ Verify(l) = "OK"
    BY <1>1 DEF Undamaged, IInv
  <2>1. b.recs = Recs(l) /\ b.ops = Ops(l) /\ b.payloads = stored[l]
    BY <1>1 DEF Content
  <2>2. /\ Valid(b.recs, b.ops) /\ Unique(b.recs) /\ OpsOK(b.recs, b.ops)
        /\ DOMAIN b.payloads = IdsOf(OfKind(b.recs, "blob"))
        /\ \A x \in OfKind(b.recs, "blob") : b.payloads[x.id] = x.bytes
    BY <2>0, <2>1, VerifiedIsWhole DEF Graph
  <2>3. Decodes(b)
    BY <1>1, <2>1, <2>2 DEF Decodes, Exportable
  <2>4. ASSUME NEW ask \in Imports, ask.receipt \notin IdsOf(b.recs),
               ~ \E o \in b.ops : o.tuple = Importing(ask)
        PROVE  /\ \A k \in Ledgers :
                    /\ ~Mismatch({}, {}, ask, b)
                    /\ Valid(b.recs \cup {Receipt(k, ask, b)}, b.ops)
               /\ ~Mismatch(Recs(l), Ops(l), ask, b)
    <3>1. \A k \in Ledgers : Valid(b.recs \cup {Receipt(k, ask, b)}, b.ops)
      BY <2>2, <2>4, ReceiptFits
    <3>2. IdsOf({}) = {}
      BY DEF IdsOf
    <3>3. SameHistory({}, b.recs) /\ SameHistory(b.recs, b.recs)
      BY <3>2 DEF SameHistory
    <3>4. ~Mismatch({}, {}, ask, b)
      BY <2>4, <3>2, <3>3 DEF Mismatch
    <3>5. ~Mismatch(b.recs, b.ops, ask, b)
      BY <2>2, <2>4, <3>3 DEF Mismatch, Unique, OpsOK
    <3>. QED
      BY <2>1, <3>1, <3>4, <3>5
  <2>. QED
    BY <2>3, <2>4
<1>2. IInv => RoundTrip
  BY <1>1 DEF RoundTrip
<1>. QED
  BY <1>2, Invariance, PTL
-----------------------------------------------------------------------------
(* Growing.                                                                *)

\* Which of the records an append brings, with its Artifact, are what.
LEMMA Brought ==
  ASSUME NEW l \in Ledgers, NEW req \in UNION {Asked[k] : k \in Ledgers},
         req.tuple.kind = "append_version"
  PROVE  /\ Stamp(req.version, l) \in Additions(l, req)
         /\ Stamp(req.version, l).kind = "version" /\ Stamp(req.version, l).id = req.version.id
         /\ Stamp(req.version, l).refs = req.version.refs
         /\ \A x \in Additions(l, req) : x.kind = "version" => x = Stamp(req.version, l)
         /\ \A x \in Additions(l, req) : x.kind # "artifact"
<1>1. /\ req.version \in Record /\ req.version.kind = "version"
      /\ req.others \subseteq Record
      /\ \A x \in req.others : x.kind \in {"content_root", "blob", "manifest", "provenance_link"}
  BY RequestsAssumption
<1>2. \A x \in req.others : Stamp(x, l).kind = x.kind
  BY <1>1, StampKeeps
<1>. QED
  BY <1>1, <1>2, StampKeeps DEF Additions

\* A Version that brings all its content is taken (_append).
LEMMA AloneIsTaken ==
  ASSUME NEW l \in Ledgers, Verify(l) = "OK",
         NEW req \in UNION {Asked[k] : k \in Ledgers}, req.tuple.kind = "append_version",
         NEW payloads, NEW alone,
         alone = {x \in Recs(l) : x.id \in Targets(req.version, "artifact")} \cup Additions(l, req),
         IdsOf(Additions(l, req)) \cap IdsOf(Recs(l)) = {}, Unused(l, req.tuple),
         DOMAIN payloads = IdsOf(OfKind(alone, "blob")),
         \A x \in OfKind(alone, "blob") : payloads[x.id] = x.bytes,
         WellAsked(req, payloads), Valid(alone, {})
  PROVE  Appendable(l, req, payloads)
<1> DEFINE known == Recs(l)
           version == Stamp(req.version, l)
           additions == Additions(l, req)
           all == known \cup additions
           blobs == {x \in all : x.kind = "blob" /\ x.id \in ContentBlobs(all, version)}
<1>1. /\ version \in additions /\ version.kind = "version" /\ version.id = req.version.id
      /\ version.refs = req.version.refs
      /\ \A x \in additions : x.kind = "version" => x = version
      /\ \A x \in additions : x.kind # "artifact"
  BY Brought
<1>2. Sound(l) /\ Valid(known, Ops(l)) /\ Unique(known)
  BY VerifiedIsWhole DEF Graph
<1>3. Graph(alone) /\ Within(alone) /\ Unique(alone)
  BY ValidParts DEF Graph
<1>4. Targets(version, "artifact") = Targets(req.version, "artifact")
  BY <1>1 DEF Targets
<1> HIDE DEF version, additions
<1>5. alone = {x \in known : x.id \in Targets(version, "artifact")} \cup additions
  BY <1>4 DEF additions
<1>6. version \in alone /\ alone \subseteq all /\ known \cup alone = all
  BY <1>1, <1>5
<1>7. PICK a \in alone : a.kind = "artifact" /\ Targets(version, "artifact") = {a.id}
  BY <1>1, <1>3, <1>6, VersionHas
<1>8. a \in known
  BY <1>1, <1>5, <1>7
<1>9. \A x \in alone : x = a \/ x \in additions
  BY <1>2, <1>5, <1>7, <1>8 DEF Unique
<1>10. \A x \in additions, y \in known : x.id # y.id
  BY DEF additions, IdsOf
<1>11. Unique(all)
  BY <1>2, <1>3, <1>5, <1>10 DEF Unique
<1>12. Valid(all, Ops(l))
  BY <1>2, <1>6, <1>11, Join
<1>13. /\ ContentBlobs(all, version) = ContentBlobs(alone, version)
       /\ \A b : Holds(all, version, b) <=> Holds(alone, version, b)
       /\ Weight(all, ContentBlobs(alone, version)) = Weight(alone, ContentBlobs(alone, version))
       /\ SameArtifact(all, version)
  <2>1. /\ Graph(alone) /\ alone \subseteq all /\ Unique(all)
        /\ version \in alone /\ version.kind = "version"
    BY <1>1, <1>3, <1>6, <1>11
  <2> HIDE DEF all
  <2>. QED
    BY <2>1, SameContent
<1>14. \A v \in alone : v.kind = "version" => v = version
  BY <1>1, <1>7, <1>9
<1>15. PICK root \in alone : root.kind = "content_root" /\ Targets(version, "root") = {root.id}
  BY <1>1, <1>3, <1>6, VersionHas
<1>16. The(all, CHOOSE r \in Targets(version, "root") : TRUE) = root
  BY <1>6, <1>11, <1>15, TheIs
<1>17. \A x \in alone : x.kind = "content_root" => x = root
  BY <1>3, <1>14, <1>15, ContentIsHeld DEF Unique
<1>18. \A x \in alone : x.kind = "manifest" => x.id \in Targets(root, "manifest")
  BY <1>3, <1>17, ContentIsHeld
<1>19. \A x \in alone : x.kind = "blob" => x.id \in ContentBlobs(all, version)
  BY <1>1, <1>3, <1>6, <1>13, <1>14, ContentIsHeld, ContentIs
<1>20. ASSUME NEW x \in additions PROVE Related(all, version, x)
  <2>1. x \in alone
    BY <1>5
  <2>2. CASE x.kind = "content_root"
    BY <1>16, <1>17, <2>1, <2>2 DEF Related
  <2>3. CASE x.kind = "manifest"
    BY <1>16, <1>18, <2>1, <2>3 DEF Related
  <2>4. CASE x.kind = "blob"
    BY <1>19, <2>1, <2>4 DEF Related
  <2>5. CASE x.kind \notin {"content_root", "manifest", "blob"}
    BY <2>5 DEF Related
  <2>. QED
    BY <2>2, <2>3, <2>4, <2>5
<1>21. ASSUME NEW x \in blobs PROVE x \in OfKind(alone, "blob") /\ x \notin known
  <2>1. Holds(alone, version, x.id)
    BY <1>1, <1>3, <1>6, <1>13, ContentIs
  <2>2. PICK y \in alone : y.kind = "blob" /\ y.id = x.id
    BY <1>3, <1>6, <2>1, HeldAreBlobs
  <2>3. y = x
    BY <1>6, <1>11, <2>2 DEF Unique
  <2>4. x \in additions
    BY <1>7, <1>9, <2>2, <2>3
  <2>. QED
    BY <1>10, <2>2, <2>3, <2>4 DEF OfKind
<1>22. DOMAIN payloads \subseteq IdsOf(blobs)
  BY <1>6, <1>19 DEF IdsOf, OfKind
<1>23. \A x \in blobs : BytesThere(l, known, x, payloads)
  BY <1>21 DEF BytesThere, IdsOf
<1>24. Affordable(all, version)
  BY <1>1, <1>3, <1>6, <1>13 DEF Affordable, Within, OfKind
<1>25. Conflicts(known, additions) = {}
  BY <1>10 DEF Conflicts
<1>26. \A x, y \in additions : x.id = y.id => x = y
  BY <1>3, <1>5 DEF Unique
<1>27. \E x \in known : x.kind = "artifact" /\ x.id \in Targets(version, "artifact")
  BY <1>7, <1>8
<1>28. \A x \in additions : Related(all, version, x)
  BY <1>20
<1> HIDE DEF blobs
<1>. QED
  BY <1>2, <1>12, <1>22, <1>23, <1>24, <1>25, <1>26, <1>27, <1>28 DEF Appendable, version,
     additions, blobs

\* However much an undamaged Ledger has, a Version without parents that
\* brings all its content and is within the limits by itself is taken
\* (_append).
THEOREM GrowthIsTaken == Spec => []GrowthRefusesNothing
<1>1. IInv => GrowthRefusesNothing
  BY AloneIsTaken DEF IInv, GrowthRefusesNothing, Undamaged
<1>. QED
  BY <1>1, Invariance, PTL
-----------------------------------------------------------------------------
(* Importing.                                                              *)

\* A history is of Versions of the Artifact, and provenance of these.
LEMMA HistoryIs ==
  ASSUME NEW recs, NEW a
  PROVE  \A x : x \in History(recs, a) <=>
           /\ x \in recs
           /\ \/ x.kind = "version" /\ a \in Targets(x, "artifact")
              \/ /\ x.kind = "provenance_link"
                 /\ \A s \in Targets(x, "subject") :
                      \E v \in recs : v.kind = "version" /\ a \in Targets(v, "artifact") /\ v.id = s
BY DEF History, OfKind, IdsOf

\* Two valid graphs that agree on what both have, and on the history of each
\* Artifact both have, hold together the histories the first has.
LEMMA NotMixed ==
  ASSUME NEW A, NEW B, Graph(A), Graph(B), Unique(A \cup B), SameHistory(A, B),
         NEW r, r.kind = "import_receipt", NEW x \in OfKind(A, "artifact")
  PROVE  History(A \cup B \cup {r}, x.id) = History(A, x.id)
<1> DEFINE a == x.id
           U == A \cup B \cup {r}
<1>1. x \in A /\ x.kind = "artifact"
  BY DEF OfKind
<1>2. CASE a \in IdsOf(B)
  <2>1. x \in B
    BY <1>1, <1>2 DEF IdsOf, Unique
  <2>2. History(A, a) = History(B, a)
    BY <1>1, <2>1 DEF SameHistory, OfKind, IdsOf
  <2>3. ASSUME NEW v, v.kind = "version", a \in Targets(v, "artifact")
        PROVE  v \in U => v \in A
    <3>1. v \in B => v \in History(B, a)
      BY <2>3, HistoryIs
    <3>. QED
      BY <2>2, <2>3, <3>1, HistoryIs
  <2>4. ASSUME NEW y \in History(U, a) PROVE y \in History(A, a)
    <3>1. y \in U /\ \/ y.kind = "version" /\ a \in Targets(y, "artifact")
                     \/ /\ y.kind = "provenance_link"
                        /\ \A s \in Targets(y, "subject") :
                             \E v \in U : v.kind = "version" /\ a \in Targets(v, "artifact") /\ v.id = s
      BY <2>4, HistoryIs
    <3>2. CASE y.kind = "version" /\ a \in Targets(y, "artifact")
      BY <2>3, <3>1, <3>2, HistoryIs
    <3>3. CASE y.kind = "provenance_link" /\ y \in A
      BY <2>3, <3>1, <3>3, HistoryIs
    <3>4. CASE y.kind = "provenance_link" /\ y \in B
      <4>1. \A v : v.kind = "version" /\ a \in Targets(v, "artifact") /\ v \in A => v \in B
        <5>1. \A v : v.kind = "version" /\ a \in Targets(v, "artifact") /\ v \in A => v \in History(A, a)
          BY HistoryIs
        <5>. QED
          BY <2>2, <5>1, HistoryIs
      <4>2. y \in History(B, a)
        BY <2>3, <3>1, <3>4, <4>1, HistoryIs
      <4>. QED
        BY <2>2, <4>2
    <3>. QED
      BY <3>1, <3>2, <3>3, <3>4
  <2>5. ASSUME NEW y \in History(A, a) PROVE y \in History(U, a)
    BY <2>5, HistoryIs
  <2>. QED
    BY <2>4, <2>5
<1>3. CASE a \notin IdsOf(B)
  <2>1. ASSUME NEW v \in B, v.kind = "version", a \in Targets(v, "artifact") PROVE FALSE
    <3>1. Resolves(B, v)
      BY DEF Graph
    <3>. QED
      BY <1>3, <2>1, <3>1, Target DEF IdsOf
  <2>2. ASSUME NEW y \in B, y.kind = "provenance_link", NEW v \in A,
               v.kind = "version", a \in Targets(v, "artifact"), v.id \in Targets(y, "subject")
        PROVE  FALSE
    <3>1. Resolves(B, y)
      BY DEF Graph
    <3>2. PICK w \in B : w.id = v.id
      BY <2>2, <3>1, Target
    <3>3. w = v
      BY <3>2 DEF Unique
    <3>. QED
      BY <2>1, <2>2, <3>2, <3>3
  <2>3. ASSUME NEW y \in History(U, a) PROVE y \in History(A, a)
    <3>1. y \in U /\ \/ y.kind = "version" /\ a \in Targets(y, "artifact")
                     \/ /\ y.kind = "provenance_link"
                        /\ \A s \in Targets(y, "subject") :
                             \E v \in U : v.kind = "version" /\ a \in Targets(v, "artifact") /\ v.id = s
      BY <2>3, HistoryIs
    <3>2. \A v \in U : v.kind = "version" /\ a \in Targets(v, "artifact") => v \in A
      BY <2>1
    <3>3. CASE y.kind = "provenance_link" /\ y \in B
      <4>1. PICK s : s \in Targets(y, "subject")
        <5>1. Shaped(y)
          BY <3>3 DEF Graph
        <5>. QED
          BY <3>3, <5>1 DEF Shaped
      <4>2. PICK v \in A : v.kind = "version" /\ a \in Targets(v, "artifact") /\ v.id = s
        BY <3>1, <3>2, <3>3, <4>1
      <4>. QED
        BY <2>2, <3>3, <4>1, <4>2
    <3>. QED
      BY <3>1, <3>2, <3>3, HistoryIs
  <2>4. ASSUME NEW y \in History(A, a) PROVE y \in History(U, a)
    BY <2>4, HistoryIs
  <2>. QED
    BY <2>3, <2>4
<1>. QED
  BY <1>2, <1>3

\* An import extends no Artifact that was there (_import, _history).
THEOREM ImportsMixNothing == Spec => HistoriesNotMixed
<1> DEFINE Mixes(l) ==
      /\ damaged'[l] = damaged[l]
      /\ \E row \in done'[l] \ done[l] : row.tuple.kind = "import_bundle" /\ row.data.at = l
      => \A x \in OfKind(Recs(l), "artifact") :
           History({row.data : row \in rows'[l]}, x.id) = History(Recs(l), x.id)
<1>1. ASSUME IInv, [Next]_vars, NEW l \in Ledgers, damaged'[l] = damaged[l],
             NEW row \in done'[l] \ done[l], row.tuple.kind = "import_bundle",
             NEW x \in OfKind(Recs(l), "artifact")
      PROVE  History({rw.data : rw \in rows'[l]}, x.id) = History(Recs(l), x.id)
  <2>0. Domains
    BY <1>1 DEF IInv
  <2>1. {rw.data : rw \in rows'[l]} = Recs(l)'
    BY DEF Recs
  <2>2. ASSUME NEW k \in Ledgers, NEW ask, NEW b, Import(k, ask, b)
        PROVE  History(Recs(l)', x.id) = History(Recs(l), x.id)
    <3> DEFINE receipt == Receipt(k, ask, b)
               o == [tuple |-> Importing(ask), asked |-> [ask |-> ask, bundle |-> b],
                     result |-> ask.receipt, at |-> k]
    <3>1. /\ ~Mismatch(Recs(k), Ops(k), ask, b) /\ Decodes(b) /\ Sound(k)
          /\ Insert(k, (b.recs \ Recs(k)) \cup {receipt}, b.payloads, b.ops \ Ops(k), o)
      BY <2>2 DEF Import
    <3>2. receipt.kind = "import_receipt"
      BY DEF Receipt
    <3> HIDE DEF receipt, o
    <3>3. k = l
      BY <1>1, <2>0, <3>1 DEF Insert, Domains
    <3>4. Recs(l)' = Recs(l) \cup ((b.recs \ Recs(l)) \cup {receipt})
      BY <2>0, <3>1, <3>3, Inserted
    <3>5. Graph(Recs(l)) /\ Graph(b.recs)
      BY <3>1, <3>3, ValidParts DEF Sound, MetadataSound, Decodes
    <3>6. Unique(Recs(l) \cup b.recs) /\ SameHistory(Recs(l), b.recs)
      BY <3>1, <3>3, <3>5 DEF Mismatch, Unique, Graph
    <3>7. Recs(l)' = Recs(l) \cup b.recs \cup {receipt}
      BY <3>4
    <3>. QED
      BY <3>2, <3>5, <3>6, <3>7, NotMixed
  <2>3. ASSUME NEW k \in Ledgers, NEW req \in Asked[k], Create(k, req) PROVE FALSE
    <3>1. req.tuple.kind = "create_artifact"
          /\ done' = [done EXCEPT ![k] = @ \cup {[tuple |-> p.tuple, result |-> p.result, data |-> p] : p \in
               {[tuple |-> req.tuple, asked |-> req, result |-> req.artifact.id, at |-> k]}}]
      BY <2>3 DEF Create, Insert
    <3>. QED
      BY <1>1, <2>0, <3>1 DEF Domains
  <2>4. ASSUME NEW k \in Ledgers, NEW req \in Asked[k], NEW payloads, Append(k, req, payloads) PROVE FALSE
    <3>1. req.tuple.kind = "append_version"
          /\ done' = [done EXCEPT ![k] = @ \cup {[tuple |-> p.tuple, result |-> p.result, data |-> p] : p \in
               {[tuple |-> req.tuple, asked |-> req, result |-> req.version.id, at |-> k]}}]
      BY <2>4 DEF Append, Insert
    <3>. QED
      BY <1>1, <2>0, <3>1 DEF Domains
  <2>5. ASSUME NEW k \in Ledgers, HarmPayload(k) \/ HarmIndex(k) \/ HarmRecord(k) \/ HarmOperation(k)
        PROVE  FALSE
    <3>1. Harm(k) /\ (k # l => done'[l] = done[l])
      BY <2>0, <2>5 DEF HarmPayload, HarmIndex, HarmRecord, HarmOperation, Domains
    <3>2. k = l
      BY <1>1, <3>1
    <3>. QED
      BY <1>1, <2>0, <3>1, <3>2 DEF Harm, Domains
  <2>6. ASSUME done' = done PROVE FALSE
    BY <1>1, <2>6
  <2>7. \/ UNCHANGED vars
        \/ \E k \in Ledgers :
             \/ \E req \in Asked[k] : Create(k, req)
             \/ \E req \in Asked[k], payloads \in Payloads : Append(k, req, payloads)
             \/ Export(k)
             \/ \E ask \in Imports : \E b \in Foreign \cup {bundle} : Import(k, ask, b)
             \/ HarmPayload(k) \/ HarmIndex(k) \/ HarmRecord(k) \/ HarmOperation(k)
    BY <1>1 DEF Next
  <2>8. UNCHANGED vars \/ (\E k \in Ledgers : Export(k)) => done' = done
    BY DEF vars, Export
  <2>. QED
    BY <2>1, <2>2, <2>3, <2>4, <2>5, <2>6, <2>7, <2>8
<1>2. IInv /\ [Next]_vars => [\A l \in Ledgers : Mixes(l)]_vars
  BY <1>1
<1>. QED
  BY <1>2, Invariance, PTL DEF Spec, HistoriesNotMixed
-----------------------------------------------------------------------------
(* Types.                                                                  *)

\* The columns of the tables.
Columns(l) ==
  /\ \A row \in rows[l] : row = [id |-> row.id, kind |-> row.kind, data |-> row.data]
  /\ \A row \in done[l] : row = [tuple |-> row.tuple, result |-> row.result, data |-> row.data]

Typed ==
  /\ TypeOK
  /\ \A l \in Ledgers : Columns(l)
  /\ \A l \in Ledgers : \A o \in Ops(l) : Operation(o)
  /\ bundle.recs \subseteq Record
  /\ \A o \in bundle.ops : Operation(o)

LEMMA RecsTyped ==
  ASSUME Typed, NEW l \in Ledgers
  PROVE  Recs(l) \subseteq Record
BY DEF Typed, TypeOK, Recs

\* The fields of a record.
LEMMA RecordIs ==
  ASSUME NEW x \in Record
  PROVE  /\ x.kind \in Kinds /\ x.id \in Ids /\ x.bytes \in Contents \cup {NoBytes}
         /\ \A r \in x.refs : r.field \in Fields /\ r.to \in Ids
         /\ Shaped(x) /\ x.kind = "blob" => x.bytes \in Contents
BY DEF Record, Shaped

LEMMA RowsTyped ==
  ASSUME NEW recs, recs \subseteq Record
  PROVE  ReferenceRows(recs) \subseteq [source : Ids, field : Fields, target : Ids]
BY RecordIs DEF ReferenceRows

\* A valid operation has a result that is an identity.
LEMMA ResultTyped ==
  ASSUME NEW recs, recs \subseteq Record, NEW ops, Valid(recs, ops), NEW o \in ops
  PROVE  o.result \in Ids
BY RecordIs DEF Valid

LEMMA StampTyped ==
  ASSUME NEW x \in Record, NEW l \in Ledgers
  PROVE  Stamp(x, l) \in Record
BY StampsAssumption DEF Stamp, Record

LEMMA InsertTyped ==
  ASSUME Typed, Domains, NEW l \in Ledgers, NEW recs, NEW payloads, NEW ops, NEW o,
         Insert(l, recs, payloads, ops, o), recs \subseteq Record,
         \A b \in DOMAIN payloads : b \in Ids /\ payloads[b] \in Contents,
         \A p \in ops \cup {o} : Operation(p) /\ p.result \in Ids
  PROVE  Typed'
<1> DEFINE NewRow(x) == [id |-> x.id, kind |-> x.kind, data |-> x]
           NewDone(p) == [tuple |-> p.tuple, result |-> p.result, data |-> p]
<1>a. \A x : NewRow(x).id = x.id /\ NewRow(x).kind = x.kind /\ NewRow(x).data = x
  OBVIOUS
<1>b. \A p : NewDone(p).tuple = p.tuple /\ NewDone(p).result = p.result /\ NewDone(p).data = p
  OBVIOUS
<1>c. /\ rows' = [rows EXCEPT ![l] = @ \cup {NewRow(x) : x \in recs}]
      /\ done' = [done EXCEPT ![l] = @ \cup {NewDone(p) : p \in ops \cup {o}}]
      /\ index' = [index EXCEPT ![l] = @ \cup ReferenceRows(recs)]
      /\ stored' = [stored EXCEPT ![l] = [b \in DOMAIN payloads \cup DOMAIN @ |->
                                            IF b \in DOMAIN @ THEN @[b] ELSE payloads[b]]]
      /\ bundle' = bundle /\ damaged' = damaged
  BY DEF Insert
<1> HIDE DEF NewRow, NewDone
<1>1. ASSUME NEW k \in Ledgers, NEW row \in rows'[k]
      PROVE  /\ row.id \in Ids /\ row.kind \in Kinds /\ row.data \in Record
             /\ row = [id |-> row.id, kind |-> row.kind, data |-> row.data]
  <2>1. row \in rows[k] \/ \E x \in recs : row = NewRow(x)
    BY <1>1, <1>c DEF Domains
  <2>2. CASE row \in rows[k]
    BY <2>2 DEF Typed, TypeOK, Columns
  <2>3. CASE \E x \in recs : row = NewRow(x)
    <3>1. PICK x \in recs : row = NewRow(x)
      BY <2>3
    <3>2. row.id = x.id /\ row.kind = x.kind /\ row.data = x
      BY <1>a, <3>1
    <3>3. row = [id |-> x.id, kind |-> x.kind, data |-> x]
      BY <3>1 DEF NewRow
    <3>. QED
      BY <3>2, <3>3, RecordIs
  <2>. QED
    BY <2>1, <2>2, <2>3
<1>2. ASSUME NEW k \in Ledgers
      PROVE  index'[k] \subseteq [source : Ids, field : Fields, target : Ids]
  <2>1. ReferenceRows(recs) \subseteq [source : Ids, field : Fields, target : Ids]
    BY RowsTyped
  <2>2. index[k] \subseteq [source : Ids, field : Fields, target : Ids]
    BY DEF Typed, TypeOK
  <2>. QED
    BY <1>c, <2>1, <2>2 DEF Domains
<1>3. ASSUME NEW k \in Ledgers
      PROVE  DOMAIN stored'[k] \subseteq Ids /\ \A b \in DOMAIN stored'[k] : stored'[k][b] \in Contents
  <2>1. DOMAIN stored[k] \subseteq Ids /\ \A b \in DOMAIN stored[k] : stored[k][b] \in Contents
    BY DEF Typed, TypeOK
  <2>2. CASE k # l
    BY <1>c, <2>1, <2>2 DEF Domains
  <2>3. CASE k = l
    <3>1. stored'[k] = [b \in DOMAIN payloads \cup DOMAIN stored[k] |->
                          IF b \in DOMAIN stored[k] THEN stored[k][b] ELSE payloads[b]]
      BY <1>c, <2>3 DEF Domains
    <3>. QED
      BY <2>1, <3>1
  <2>. QED
    BY <2>2, <2>3
<1>4. ASSUME NEW k \in Ledgers, NEW row \in done'[k]
      PROVE  /\ row.tuple \in Tuple /\ row.result \in Ids /\ Operation(row.data)
             /\ row = [tuple |-> row.tuple, result |-> row.result, data |-> row.data]
  <2>1. row \in done[k] \/ \E p \in ops \cup {o} : row = NewDone(p)
    BY <1>4, <1>c DEF Domains
  <2>2. CASE row \in done[k]
    BY <2>2 DEF Typed, TypeOK, Ops, Columns
  <2>3. CASE \E p \in ops \cup {o} : row = NewDone(p)
    <3>1. PICK p \in ops \cup {o} : row = NewDone(p)
      BY <2>3
    <3>2. row.tuple = p.tuple /\ row.result = p.result /\ row.data = p
      BY <1>b, <3>1
    <3>3. row = [tuple |-> p.tuple, result |-> p.result, data |-> p]
      BY <3>1 DEF NewDone
    <3>4. Operation(p) /\ p.tuple \in Tuple /\ p.result \in Ids
      BY DEF Operation
    <3>. QED
      BY <3>2, <3>3, <3>4
  <2>. QED
    BY <2>1, <2>2, <2>3
<1>5. TypeOK'
  BY <1>1, <1>2, <1>3, <1>4, <1>c DEF Typed, TypeOK
<1>6. \A k \in Ledgers : \A p \in Ops(k)' : Operation(p)
  BY <1>4 DEF Ops
<1>7. \A k \in Ledgers : Columns(k)'
  BY <1>1, <1>4 DEF Columns
<1>. QED
  BY <1>5, <1>6, <1>7, <1>c DEF Typed

LEMMA InitTyped == Init => Typed
<1> SUFFICES ASSUME Init PROVE Typed
  OBVIOUS
<1>1. /\ damaged = [l \in Ledgers |-> 0] /\ bundle.recs = {} /\ bundle.ops = {}
      /\ \A l \in Ledgers : rows[l] = {} /\ index[l] = {} /\ stored[l] = <<>> /\ done[l] = {}
  BY DEF Init, Nothing
<1>2. \A l \in Ledgers : DOMAIN stored[l] = {}
  BY <1>1
<1>3. damaged \in [Ledgers -> 0 .. MaxDamage]
  BY <1>1, InputsAssumption
<1>. QED
  BY <1>1, <1>2, <1>3 DEF Typed, TypeOK, Ops, Columns

LEMMA CreateTyped ==
  ASSUME IInv, Typed, NEW l \in Ledgers, NEW req \in Asked[l], Create(l, req)
  PROVE  Typed'
<1> DEFINE o == [tuple |-> req.tuple, asked |-> req, result |-> req.artifact.id, at |-> l]
<1>1. req.tuple.kind = "create_artifact" /\ Insert(l, {Stamp(req.artifact, l)}, <<>>, {}, o)
  BY DEF Create
<1>2. req.tuple \in Tuple /\ req.artifact \in Record
  BY <1>1, RequestsAssumption
<1>3. Stamp(req.artifact, l) \in Record /\ req.artifact.id \in Ids
  BY <1>2, StampTyped, RecordIs
<1>4. /\ o.tuple = req.tuple /\ o.result = req.artifact.id
      /\ o = [tuple |-> o.tuple, asked |-> o.asked, result |-> o.result, at |-> o.at]
  OBVIOUS
<1> HIDE DEF o
<1>5. \A p \in {} \cup {o} : Operation(p) /\ p.result \in Ids
  BY <1>2, <1>3, <1>4 DEF Operation
<1>6. DOMAIN <<>> = {}
  OBVIOUS
<1>7. {Stamp(req.artifact, l)} \subseteq Record
  BY <1>3
<1>. QED
  BY <1>1, <1>5, <1>6, <1>7, InsertTyped DEF IInv

LEMMA AdditionsTyped ==
  ASSUME NEW l \in Ledgers, NEW req \in UNION {Asked[k] : k \in Ledgers},
         req.tuple.kind = "append_version"
  PROVE  Additions(l, req) \subseteq Record
<1>1. req.version \in Record /\ req.others \subseteq Record
  BY RequestsAssumption
<1>2. \A x \in req.others : Stamp(x, l) \in Record
  BY <1>1, StampTyped
<1>. QED
  BY <1>1, <1>2, StampTyped DEF Additions

LEMMA AppendTyped ==
  ASSUME IInv, Typed, NEW l \in Ledgers, NEW req \in Asked[l], NEW payloads, Append(l, req, payloads)
  PROVE  Typed'
<1> DEFINE all == Recs(l) \cup Additions(l, req)
           version == Stamp(req.version, l)
           blobs == {x \in all : x.kind = "blob" /\ x.id \in ContentBlobs(all, version)}
           new == [b \in DOMAIN payloads \ DOMAIN stored[l] |-> payloads[b]]
           o == [tuple |-> req.tuple, asked |-> req, result |-> req.version.id, at |-> l]
<1>1. /\ req.tuple.kind = "append_version" /\ Appendable(l, req, payloads)
      /\ Insert(l, Additions(l, req) \ Recs(l), new, {}, o)
  BY DEF Append
<1>2. /\ Valid(all, Ops(l)) /\ DOMAIN payloads \subseteq IdsOf(blobs)
      /\ \A x \in blobs : BytesThere(l, Recs(l), x, payloads)
  BY <1>1 DEF Appendable
<1>3. req.tuple \in Tuple /\ req.version \in Record /\ req.version.id \in Ids
  BY <1>1, RequestsAssumption, RecordIs
<1>4. Additions(l, req) \subseteq Record /\ Recs(l) \subseteq Record
  BY <1>1, AdditionsTyped, RecsTyped
<1>5. \A x \in all : Shaped(x)
  BY <1>2 DEF Valid
<1>6. ASSUME NEW b \in DOMAIN payloads PROVE b \in Ids /\ payloads[b] \in Contents
  <2>1. PICK x \in blobs : x.id = b
    BY <1>2 DEF IdsOf
  <2>2. x \in Record /\ Shaped(x) /\ x.kind = "blob"
    BY <1>4, <1>5
  <2>3. payloads[b] = x.bytes
    BY <1>2, <2>1 DEF BytesThere
  <2>. QED
    BY <2>1, <2>2, <2>3, RecordIs
<1>7. \A b \in DOMAIN new : b \in Ids /\ new[b] \in Contents
  BY <1>6
<1>8. /\ o.tuple = req.tuple /\ o.result = req.version.id
      /\ o = [tuple |-> o.tuple, asked |-> o.asked, result |-> o.result, at |-> o.at]
  OBVIOUS
<1> HIDE DEF o, new
<1>9. \A p \in {} \cup {o} : Operation(p) /\ p.result \in Ids
  BY <1>3, <1>8 DEF Operation
<1>10. Additions(l, req) \ Recs(l) \subseteq Record
  BY <1>4
<1>. QED
  BY <1>1, <1>7, <1>9, <1>10, InsertTyped DEF IInv

LEMMA ImportTyped ==
  ASSUME IInv, Typed, NEW l \in Ledgers, NEW ask \in Imports, NEW b \in Foreign \cup {bundle},
         Import(l, ask, b)
  PROVE  Typed'
<1> DEFINE receipt == Receipt(l, ask, b)
           new == (b.recs \ Recs(l)) \cup {receipt}
           o == [tuple |-> Importing(ask), asked |-> [ask |-> ask, bundle |-> b],
                 result |-> ask.receipt, at |-> l]
<1>1. Decodes(b) /\ Insert(l, new, b.payloads, b.ops \ Ops(l), o)
  BY DEF Import
<1>2. b.recs \subseteq Record /\ \A p \in b.ops : Operation(p)
  BY InputsAssumption DEF Typed
<1>3. ask.key \in Keys /\ ask.receipt \in Ids
  BY InputsAssumption
<1>4. Importing(ask) \in Tuple
  BY <1>3 DEF Importing, Tuple, ResultKind
<1>5. receipt \in Record
  <2>1. "import_receipt" \in Kinds
    BY DEF Kinds
  <2>2. "imported" \in Fields
    BY DEF Fields, RefKind
  <2>3. \A x \in OfKind(b.recs, "artifact") : x.id \in Ids
    BY <1>2, RecordIs DEF OfKind
  <2>4. {[field |-> "imported", to |-> x.id] : x \in OfKind(b.recs, "artifact")}
          \in SUBSET [field : Fields, to : Ids]
    BY <2>2, <2>3
  <2>. QED
    BY <1>3, <2>1, <2>4, StampsAssumption DEF Receipt, Record
<1>6. Valid(b.recs, b.ops) /\ DOMAIN b.payloads = IdsOf(OfKind(b.recs, "blob"))
      /\ \A x \in OfKind(b.recs, "blob") : b.payloads[x.id] = x.bytes
  BY <1>1 DEF Decodes
<1>7. ASSUME NEW c \in DOMAIN b.payloads PROVE c \in Ids /\ b.payloads[c] \in Contents
  <2>1. PICK x \in OfKind(b.recs, "blob") : x.id = c
    BY <1>6 DEF IdsOf
  <2>2. x \in Record /\ x.kind = "blob" /\ Shaped(x)
    BY <1>2, <1>6 DEF OfKind, Valid
  <2>. QED
    BY <1>6, <2>1, <2>2, RecordIs
<1>8. /\ o.tuple = Importing(ask) /\ o.result = ask.receipt
      /\ o = [tuple |-> o.tuple, asked |-> o.asked, result |-> o.result, at |-> o.at]
  OBVIOUS
<1>9. new \subseteq Record
  BY <1>2, <1>5
<1> HIDE DEF o, receipt, new
<1>10. \A p \in (b.ops \ Ops(l)) \cup {o} : Operation(p) /\ p.result \in Ids
  <2>1. Operation(o) /\ o.result \in Ids
    BY <1>3, <1>4, <1>8 DEF Operation
  <2>. QED
    BY <1>2, <1>6, <2>1, ResultTyped
<1>. QED
  BY <1>1, <1>7, <1>9, <1>10, InsertTyped DEF IInv

LEMMA HarmTyped ==
  ASSUME Domains, Typed, NEW l \in Ledgers, Harm(l)
  PROVE  damaged' \in [Ledgers -> 0 .. MaxDamage]
BY InputsAssumption DEF Typed, TypeOK, Harm

LEMMA HarmPayloadTyped ==
  ASSUME Domains, Typed, NEW l \in Ledgers, HarmPayload(l)
  PROVE  Typed'
<1>1. damaged' \in [Ledgers -> 0 .. MaxDamage] /\ UNCHANGED <<rows, index, done, bundle>>
  BY HarmTyped DEF HarmPayload
<1>2. \A k \in Ledgers :
        DOMAIN stored[k] \subseteq Ids /\ \A b \in DOMAIN stored[k] : stored[k][b] \in Contents
  BY DEF Typed, TypeOK
<1>3. ASSUME NEW k \in Ledgers
      PROVE  DOMAIN stored'[k] \subseteq Ids /\ \A b \in DOMAIN stored'[k] : stored'[k][b] \in Contents
  <2>1. CASE k # l
    BY <1>2, <2>1 DEF HarmPayload, Domains
  <2>2. CASE k = l /\ \E b \in DOMAIN stored[l] :
               stored' = [stored EXCEPT ![l] = [a \in DOMAIN @ \ {b} |-> @[a]]]
    BY <1>2, <2>2 DEF Domains
  <2>3. CASE k = l /\ \E b \in DOMAIN stored[l], c \in Contents :
               c # stored[l][b] /\ stored' = [stored EXCEPT ![l][b] = c]
    <3>1. PICK b \in DOMAIN stored[l], c \in Contents : stored' = [stored EXCEPT ![l][b] = c]
      BY <2>3
    <3>2. stored'[l] = [stored[l] EXCEPT ![b] = c]
      BY <3>1 DEF Domains
    <3>3. DOMAIN stored'[l] = DOMAIN stored[l]
      BY <3>2
    <3>4. \A a \in DOMAIN stored[l] : stored'[l][a] = IF a = b THEN c ELSE stored[l][a]
      BY <3>2
    <3>. QED
      BY <1>2, <2>3, <3>3, <3>4
  <2>4. CASE k = l /\ \E x \in Recs(l), c \in Contents :
               /\ x.id \notin DOMAIN stored[l]
               /\ stored' = [stored EXCEPT ![l] =
                               [a \in {x.id} \cup DOMAIN @ |-> IF a = x.id THEN c ELSE @[a]]]
    <3>1. PICK x \in Recs(l), c \in Contents :
                 stored' = [stored EXCEPT ![l] =
                              [a \in {x.id} \cup DOMAIN @ |-> IF a = x.id THEN c ELSE @[a]]]
      BY <2>4
    <3>2. stored'[l] = [a \in {x.id} \cup DOMAIN stored[l] |-> IF a = x.id THEN c ELSE stored[l][a]]
      BY <3>1 DEF Domains
    <3>3. x.id \in Ids
      BY RecsTyped, RecordIs
    <3>. QED
      BY <1>2, <2>4, <3>2, <3>3
  <2>. QED
    BY <2>1, <2>2, <2>3, <2>4 DEF HarmPayload
<1>. QED
  BY <1>1, <1>3 DEF Typed, TypeOK, Ops, Columns

LEMMA HarmIndexTyped ==
  ASSUME Domains, Typed, NEW l \in Ledgers, HarmIndex(l)
  PROVE  Typed'
<1> DEFINE T == [source : Ids, field : Fields, target : Ids]
<1>1. damaged' \in [Ledgers -> 0 .. MaxDamage] /\ UNCHANGED <<rows, stored, done, bundle>>
  BY HarmTyped DEF HarmIndex
<1>2. \A k \in Ledgers : index[k] \subseteq T
  BY DEF Typed, TypeOK
<1>3. PICK extra : extra \subseteq T /\ index'[l] \subseteq index[l] \cup extra
  <2>1. CASE \E r \in index[l] : index' = [index EXCEPT ![l] = @ \ {r}]
    <3>1. index'[l] \subseteq index[l] \cup {}
      BY <2>1 DEF Domains
    <3>. QED
      BY <3>1
  <2>2. CASE \E r \in index[l], q \in index[l] :
               /\ [r EXCEPT !.target = q.target] \notin index[l]
               /\ index' = [index EXCEPT ![l] = @ \cup {[r EXCEPT !.target = q.target]}]
    <3>1. PICK r \in index[l], q \in index[l] :
                 index' = [index EXCEPT ![l] = @ \cup {[r EXCEPT !.target = q.target]}]
      BY <2>2
    <3>2. r \in T /\ q \in T
      BY <1>2
    <3>3. [r EXCEPT !.target = q.target] \in T
      BY <3>2
    <3>. QED
      BY <3>1, <3>3 DEF Domains
  <2>. QED
    BY <2>1, <2>2 DEF HarmIndex
<1>4. \A k \in Ledgers \ {l} : index'[k] = index[k]
  BY DEF HarmIndex, Domains
<1>5. \A k \in Ledgers : index'[k] \subseteq T
  BY <1>2, <1>3, <1>4
<1>. QED
  BY <1>1, <1>5 DEF Typed, TypeOK, Ops, Columns

LEMMA HarmRecordTyped ==
  ASSUME Domains, Typed, NEW l \in Ledgers, HarmRecord(l)
  PROVE  Typed'
<1> DEFINE Good(row) == /\ row.id \in Ids /\ row.kind \in Kinds /\ row.data \in Record
                        /\ row = [id |-> row.id, kind |-> row.kind, data |-> row.data]
<1>0. ASSUME NEW row, Good(row), NEW d \in Record PROVE Good([row EXCEPT !.data = d])
  <2>1. [row EXCEPT !.data = d] = [id |-> row.id, kind |-> row.kind, data |-> d]
    BY <1>0
  <2>. QED
    BY <1>0, <2>1
<1>1. damaged' \in [Ledgers -> 0 .. MaxDamage] /\ UNCHANGED <<index, stored, done, bundle>>
  BY HarmTyped DEF HarmRecord
<1>2. \A k \in Ledgers : \A row \in rows[k] : Good(row)
  BY DEF Typed, TypeOK, Columns
<1>3. ASSUME NEW new \in rows'[l] PROVE Good(new)
  <2>1. CASE \E row \in rows[l] : rows' = [rows EXCEPT ![l] = @ \ {row}]
    BY <1>2, <1>3, <2>1 DEF Domains
  <2>2. CASE \E row, other \in rows[l] :
               /\ row # other
               /\ rows' = [rows EXCEPT ![l] = (@ \ {row, other})
                             \cup {[row EXCEPT !.data = other.data], [other EXCEPT !.data = row.data]}]
    <3>1. PICK row \in rows[l], other \in rows[l] :
                 rows' = [rows EXCEPT ![l] = (@ \ {row, other})
                            \cup {[row EXCEPT !.data = other.data], [other EXCEPT !.data = row.data]}]
      BY <2>2
    <3>2. new \in rows[l] \/ new = [row EXCEPT !.data = other.data] \/ new = [other EXCEPT !.data = row.data]
      BY <1>3, <3>1 DEF Domains
    <3>3. Good(row) /\ Good(other) /\ row.data \in Record /\ other.data \in Record
      BY <1>2
    <3> HIDE DEF Good
    <3>. QED
      BY <1>0, <1>2, <3>2, <3>3
  <2>3. CASE \E row \in rows[l] : \E r \in row.data.refs :
               rows' = [rows EXCEPT ![l] = (@ \ {row}) \cup {[row EXCEPT !.data.refs = @ \ {r}]}]
    <3>0. PICK row \in rows[l] : \E r \in row.data.refs :
                 rows' = [rows EXCEPT ![l] = (@ \ {row}) \cup {[row EXCEPT !.data.refs = @ \ {r}]}]
      BY <2>3
    <3>1. PICK r \in row.data.refs :
                 rows' = [rows EXCEPT ![l] = (@ \ {row}) \cup {[row EXCEPT !.data.refs = @ \ {r}]}]
      BY <3>0
    <3>2. new \in rows[l] \/ new = [row EXCEPT !.data.refs = @ \ {r}]
      BY <1>3, <3>1 DEF Domains
    <3>3. row.data \in Record
      BY <1>2
    <3>4. [row.data EXCEPT !.refs = @ \ {r}] \in Record
      BY <3>3 DEF Record
    <3>5. [row EXCEPT !.data.refs = @ \ {r}] = [row EXCEPT !.data = [row.data EXCEPT !.refs = @ \ {r}]]
      OBVIOUS
    <3>6. Good(row)
      BY <1>2
    <3> HIDE DEF Good
    <3>. QED
      BY <1>0, <1>2, <3>2, <3>4, <3>5, <3>6
  <2>4. CASE \E row \in rows[l], t \in Stamps :
               /\ row.data.kind \in Timed
               /\ rows' = [rows EXCEPT ![l] = (@ \ {row}) \cup {[row EXCEPT !.data.at = t]}]
    <3>1. PICK row \in rows[l], t \in Stamps :
                 rows' = [rows EXCEPT ![l] = (@ \ {row}) \cup {[row EXCEPT !.data.at = t]}]
      BY <2>4
    <3>2. new \in rows[l] \/ new = [row EXCEPT !.data.at = t]
      BY <1>3, <3>1 DEF Domains
    <3>3. row.data \in Record
      BY <1>2
    <3>4. [row.data EXCEPT !.at = t] \in Record
      BY <3>3 DEF Record
    <3>5. [row EXCEPT !.data.at = t] = [row EXCEPT !.data = [row.data EXCEPT !.at = t]]
      OBVIOUS
    <3>6. Good(row)
      BY <1>2
    <3> HIDE DEF Good
    <3>. QED
      BY <1>0, <1>2, <3>2, <3>4, <3>5, <3>6
  <2>. QED
    BY <2>1, <2>2, <2>3, <2>4 DEF HarmRecord
<1>4. \A k \in Ledgers \ {l} : rows'[k] = rows[k]
  BY DEF HarmRecord, Domains
<1>5. \A k \in Ledgers : \A row \in rows'[k] : Good(row)
  BY <1>2, <1>3, <1>4
<1>. QED
  BY <1>1, <1>5 DEF Typed, TypeOK, Ops, Columns

\* An operation told from its request, or with another time.
LEMMA OperationWith ==
  ASSUME NEW p, Operation(p), NEW e
  PROVE  /\ [p EXCEPT !.asked = e] = [tuple |-> p.tuple, asked |-> e, result |-> p.result, at |-> p.at]
         /\ [p EXCEPT !.at = e] = [tuple |-> p.tuple, asked |-> p.asked, result |-> p.result, at |-> e]
         /\ Operation([p EXCEPT !.asked = e]) /\ Operation([p EXCEPT !.at = e])
<1>1. /\ p = [tuple |-> p.tuple, asked |-> p.asked, result |-> p.result, at |-> p.at]
      /\ p.tuple \in Tuple
  BY DEF Operation
<1>2. /\ [p EXCEPT !.asked = e] = [tuple |-> p.tuple, asked |-> e, result |-> p.result, at |-> p.at]
      /\ [p EXCEPT !.at = e] = [tuple |-> p.tuple, asked |-> p.asked, result |-> p.result, at |-> e]
  BY <1>1
<1>. QED
  BY <1>1, <1>2 DEF Operation

\* p is row's operation told from the request of other, or at another time.
Untold(p, row, other) ==
  /\ p.tuple = row.data.tuple /\ p.result = row.data.result
  /\ p.asked = other.data.asked /\ row.data.tuple.kind = other.data.tuple.kind

LEMMA HarmedOperation ==
  ASSUME Domains, Typed, NEW l \in Ledgers, HarmOperation(l), NEW new \in done'[l], new \notin done[l]
  PROVE  \E row, other \in done[l] :
           /\ new = [tuple |-> row.tuple, result |-> row.result, data |-> new.data]
           /\ Operation(new.data)
           /\ new.data = other.data \/ Untold(new.data, row, other)
<1>1. \A row \in done[l] : /\ row = [tuple |-> row.tuple, result |-> row.result, data |-> row.data]
                           /\ Operation(row.data)
  BY DEF Typed, Columns, Ops
<1>2. ASSUME NEW row \in done[l], NEW other \in done[l], NEW d, Operation(d),
             new = [row EXCEPT !.data = d], d = other.data \/ Untold(d, row, other)
      PROVE  /\ new = [tuple |-> row.tuple, result |-> row.result, data |-> new.data]
             /\ Operation(new.data)
             /\ new.data = other.data \/ Untold(new.data, row, other)
  <2>1. new = [tuple |-> row.tuple, result |-> row.result, data |-> d]
    BY <1>1, <1>2
  <2>2. new.data = d
    BY <2>1
  <2>. QED
    BY <1>2, <2>1, <2>2
<1>3. CASE \E row \in done[l] : done' = [done EXCEPT ![l] = @ \ {row}]
  BY <1>3 DEF Domains
<1>4. CASE \E row, other \in done[l] :
             /\ row # other
             /\ done' = [done EXCEPT ![l] = (@ \ {row}) \cup {[row EXCEPT !.data = other.data]}]
  <2>1. PICK row \in done[l], other \in done[l] :
               done' = [done EXCEPT ![l] = (@ \ {row}) \cup {[row EXCEPT !.data = other.data]}]
    BY <1>4
  <2>2. new = [row EXCEPT !.data = other.data]
    BY <2>1 DEF Domains
  <2>3. Operation(other.data)
    BY <1>1
  <2>. QED
    BY <1>2, <2>2, <2>3
<1>5. CASE \E row, other \in done[l] :
             /\ row.data.tuple.kind = other.data.tuple.kind
             /\ done' = [done EXCEPT ![l] = (@ \ {row}) \cup {[row EXCEPT !.data.asked = other.data.asked]}]
  <2>1. PICK row \in done[l], other \in done[l] :
             /\ row.data.tuple.kind = other.data.tuple.kind
             /\ done' = [done EXCEPT ![l] = (@ \ {row}) \cup {[row EXCEPT !.data.asked = other.data.asked]}]
    BY <1>5
  <2> DEFINE d == [row.data EXCEPT !.asked = other.data.asked]
  <2>2. new = [row EXCEPT !.data.asked = other.data.asked]
    BY <2>1 DEF Domains
  <2>3. new = [row EXCEPT !.data = d]
    BY <2>2
  <2>4. /\ d = [tuple |-> row.data.tuple, asked |-> other.data.asked, result |-> row.data.result,
                at |-> row.data.at]
        /\ Operation(d)
    BY <1>1, OperationWith
  <2> HIDE DEF d
  <2>5. Untold(d, row, other)
    BY <2>1, <2>4 DEF Untold
  <2>. QED
    BY <1>2, <2>3, <2>4, <2>5
<1>6. CASE \E row \in done[l], t \in Stamps :
             done' = [done EXCEPT ![l] = (@ \ {row}) \cup {[row EXCEPT !.data.at = t]}]
  <2>1. PICK row \in done[l], t \in Stamps :
             done' = [done EXCEPT ![l] = (@ \ {row}) \cup {[row EXCEPT !.data.at = t]}]
    BY <1>6
  <2> DEFINE d == [row.data EXCEPT !.at = t]
  <2>2. new = [row EXCEPT !.data.at = t]
    BY <2>1 DEF Domains
  <2>3. new = [row EXCEPT !.data = d]
    BY <2>2
  <2>4. /\ d = [tuple |-> row.data.tuple, asked |-> row.data.asked, result |-> row.data.result, at |-> t]
        /\ Operation(d)
    BY <1>1, OperationWith
  <2> HIDE DEF d
  <2>5. Untold(d, row, row)
    BY <2>4 DEF Untold
  <2>. QED
    BY <1>2, <2>3, <2>4, <2>5
<1>. QED
  BY <1>3, <1>4, <1>5, <1>6 DEF HarmOperation

LEMMA HarmOperationTyped ==
  ASSUME Domains, Typed, NEW l \in Ledgers, HarmOperation(l)
  PROVE  Typed'
<1> DEFINE Good(row) == /\ row.tuple \in Tuple /\ row.result \in Ids /\ Operation(row.data)
                        /\ row = [tuple |-> row.tuple, result |-> row.result, data |-> row.data]
<1>1. damaged' \in [Ledgers -> 0 .. MaxDamage] /\ UNCHANGED <<rows, index, stored, bundle>>
  BY HarmTyped DEF HarmOperation
<1>2. \A k \in Ledgers : \A row \in done[k] : Good(row)
  BY DEF Typed, TypeOK, Ops, Columns
<1>3. ASSUME NEW new \in done'[l] PROVE Good(new)
  <2>1. CASE new \in done[l]
    BY <1>2, <2>1
  <2>2. CASE new \notin done[l]
    <3>1. PICK row \in done[l], other \in done[l] :
            /\ new = [tuple |-> row.tuple, result |-> row.result, data |-> new.data]
            /\ Operation(new.data)
      BY <2>2, HarmedOperation
    <3>2. row.tuple \in Tuple /\ row.result \in Ids
      BY <1>2
    <3>. QED
      BY <3>1, <3>2
  <2>. QED
    BY <2>1, <2>2
<1>4. \A k \in Ledgers \ {l} : done'[k] = done[k]
  BY DEF HarmOperation, Domains
<1>5. \A k \in Ledgers : \A row \in done'[k] : Good(row)
  BY <1>2, <1>3, <1>4
<1>. QED
  BY <1>1, <1>5 DEF Typed, TypeOK, Ops, Columns

LEMMA NextTyped == IInv /\ Typed /\ [Next]_vars => Typed'
<1> SUFFICES ASSUME IInv, Typed, [Next]_vars PROVE Typed'
  OBVIOUS
<1>0. Domains
  BY DEF IInv
<1>1. CASE UNCHANGED vars
  BY <1>1 DEF vars, Typed, TypeOK, Ops, Columns
<1>2. ASSUME NEW l \in Ledgers, NEW req \in Asked[l], Create(l, req) PROVE Typed'
  BY <1>2, CreateTyped
<1>3. ASSUME NEW l \in Ledgers, NEW req \in Asked[l], NEW payloads \in Payloads, Append(l, req, payloads)
      PROVE  Typed'
  BY <1>3, AppendTyped
<1>4. ASSUME NEW l \in Ledgers, Export(l) PROVE Typed'
  <2>1. bundle'.recs = Recs(l) /\ bundle'.ops = Ops(l) /\ UNCHANGED <<rows, index, stored, done, damaged>>
    BY <1>4 DEF Export, Content
  <2>2. Recs(l) \subseteq Record
    BY RecsTyped
  <2>3. bundle'.recs \subseteq Record /\ \A o \in bundle'.ops : Operation(o)
    BY <2>1, <2>2 DEF Typed
  <2>. QED
    BY <2>1, <2>3 DEF Typed, TypeOK, Ops, Columns
<1>5. ASSUME NEW l \in Ledgers, NEW ask \in Imports, NEW b \in Foreign \cup {bundle}, Import(l, ask, b)
      PROVE  Typed'
  BY <1>5, ImportTyped
<1>6. ASSUME NEW l \in Ledgers, HarmPayload(l) \/ HarmIndex(l) \/ HarmRecord(l) \/ HarmOperation(l)
      PROVE  Typed'
  BY <1>0, <1>6, HarmPayloadTyped, HarmIndexTyped, HarmRecordTyped, HarmOperationTyped
<1>. QED
  BY <1>1, <1>2, <1>3, <1>4, <1>5, <1>6 DEF Next

\* Every reachable state of the tables is well typed, damaged ones too.
THEOREM TypeCorrect == Spec => []TypeOK
<1>1. Spec => []Typed
  BY InitTyped, NextTyped, Invariance, PTL DEF Spec
<1>2. Typed => TypeOK
  BY DEF Typed
<1>. QED
  BY <1>1, <1>2, PTL
-----------------------------------------------------------------------------
(* Damage shows.                                                           *)

\* A row with another column as its data.
LEMMA Except ==
  ASSUME NEW row, NEW d
  PROVE  /\ row = [id |-> row.id, kind |-> row.kind, data |-> row.data] =>
              [row EXCEPT !.data = d] = [id |-> row.id, kind |-> row.kind, data |-> d]
         /\ row = [tuple |-> row.tuple, result |-> row.result, data |-> row.data] =>
              [row EXCEPT !.data = d] = [tuple |-> row.tuple, result |-> row.result, data |-> d]
OBVIOUS

LEMMA IndexRow ==
  ASSUME NEW recs, NEW s, NEW f, NEW t
  PROVE  [source |-> s, field |-> f, target |-> t] \in ReferenceRows(recs) <=>
           \E x \in recs : x.id = s /\ \E r \in x.refs : r.field = f /\ r.to = t
<1> DEFINE line(x, r) == [source |-> x.id, field |-> r.field, target |-> r.to]
           new == [source |-> s, field |-> f, target |-> t]
<1>1. \A x, r : new = line(x, r) <=> x.id = s /\ r.field = f /\ r.to = t
  OBVIOUS
<1>2. ReferenceRows(recs) = UNION {{line(x, r) : r \in x.refs} : x \in recs}
  BY DEF ReferenceRows
<1> HIDE DEF line, new
<1>3. new \in ReferenceRows(recs) <=> \E x \in recs : \E r \in x.refs : new = line(x, r)
  BY <1>2
<1>4. new \in ReferenceRows(recs) <=>
        \E x \in recs : x.id = s /\ \E r \in x.refs : r.field = f /\ r.to = t
  BY <1>1, <1>3
<1>. QED
  BY <1>4 DEF new

\* What a Ledger that verifies next has.
LEMMA VerifiesNext ==
  ASSUME NEW l \in Ledgers, Verify(l)' = "OK"
  PROVE  /\ RowsAgree(l)' /\ Valid(Recs(l)', Ops(l)')
         /\ index'[l] = ReferenceRows(Recs(l)')
         /\ DOMAIN stored'[l] = IdsOf(OfKind(Recs(l)', "blob"))
         /\ \A x \in OfKind(Recs(l)', "blob") : x.id \in DOMAIN stored'[l] /\ stored'[l][x.id] = x.bytes
BY DEF Verify, Sound, MetadataSound, IndexesSound, BlobSound

LEMMA Untouched ==
  ASSUME NEW k \in Ledgers, rows'[k] = rows[k], index'[k] = index[k], stored'[k] = stored[k],
         done'[k] = done[k]
  PROVE  Verify(k)' = Verify(k) /\ Recs(k)' = Recs(k) /\ Ops(k)' = Ops(k)
<1>1. Recs(k)' = Recs(k) /\ Ops(k)' = Ops(k)
  BY DEF Recs, Ops
<1>2. RowsAgree(k)' <=> RowsAgree(k)
  BY DEF RowsAgree
<1>3. Sound(k)' <=> Sound(k)
  BY <1>1, <1>2 DEF Sound, IndexesSound, MetadataSound
<1>4. (\A x \in OfKind(Recs(k), "blob") : BlobSound(k, x))'
        <=> \A x \in OfKind(Recs(k), "blob") : BlobSound(k, x)
  BY <1>1 DEF BlobSound
<1>. QED
  BY <1>1, <1>3, <1>4 DEF Verify

LEMMA HarmPayloadShows ==
  ASSUME Domains, NEW l \in Ledgers, Verify(l) = "OK", HarmPayload(l)
  PROVE  Verify(l)' # "OK"
<1> SUFFICES ASSUME Verify(l)' = "OK" PROVE FALSE
  OBVIOUS
<1>1. Recs(l)' = Recs(l)
  BY DEF HarmPayload, Recs
<1>2. /\ DOMAIN stored[l] = IdsOf(OfKind(Recs(l), "blob"))
      /\ \A x \in OfKind(Recs(l), "blob") : stored[l][x.id] = x.bytes
  BY VerifiedIsWhole
<1>3. /\ DOMAIN stored'[l] = DOMAIN stored[l]
      /\ \A x \in OfKind(Recs(l), "blob") : stored'[l][x.id] = x.bytes
  BY <1>1, <1>2, VerifiesNext
<1>4. CASE \E b \in DOMAIN stored[l] : stored' = [stored EXCEPT ![l] = [a \in DOMAIN @ \ {b} |-> @[a]]]
  BY <1>3, <1>4 DEF Domains
<1>5. CASE \E b \in DOMAIN stored[l], c \in Contents :
             c # stored[l][b] /\ stored' = [stored EXCEPT ![l][b] = c]
  <2>1. PICK b \in DOMAIN stored[l], c \in Contents :
               c # stored[l][b] /\ stored' = [stored EXCEPT ![l][b] = c]
    BY <1>5
  <2>2. stored'[l][b] = c
    BY <2>1 DEF Domains
  <2>3. PICK x \in OfKind(Recs(l), "blob") : x.id = b
    BY <1>2 DEF IdsOf
  <2>. QED
    BY <1>2, <1>3, <2>1, <2>2, <2>3
<1>6. CASE \E x \in Recs(l), c \in Contents :
             /\ x.id \notin DOMAIN stored[l]
             /\ stored' = [stored EXCEPT ![l] =
                             [a \in {x.id} \cup DOMAIN @ |-> IF a = x.id THEN c ELSE @[a]]]
  BY <1>3, <1>6 DEF Domains
<1>. QED
  BY <1>4, <1>5, <1>6 DEF HarmPayload

LEMMA HarmIndexShows ==
  ASSUME Domains, NEW l \in Ledgers, Verify(l) = "OK", HarmIndex(l)
  PROVE  Verify(l)' # "OK"
<1> SUFFICES ASSUME Verify(l)' = "OK" PROVE FALSE
  OBVIOUS
<1>1. Recs(l)' = Recs(l)
  BY DEF HarmIndex, Recs
<1>2. index'[l] = index[l]
  BY <1>1, VerifiedIsWhole, VerifiesNext
<1>3. CASE \E r \in index[l] : index' = [index EXCEPT ![l] = @ \ {r}]
  BY <1>2, <1>3 DEF Domains
<1>4. CASE \E r \in index[l], q \in index[l] :
             /\ [r EXCEPT !.target = q.target] \notin index[l]
             /\ index' = [index EXCEPT ![l] = @ \cup {[r EXCEPT !.target = q.target]}]
  BY <1>2, <1>4 DEF Domains
<1>. QED
  BY <1>3, <1>4 DEF HarmIndex

\* x is the result of an operation, or something refers to it.
Anchor(recs, ops, x) ==
  \/ \E o \in ops : o.result = x.id
  \/ \E y \in recs : \E r \in y.refs : r.to = x.id

\* What refers to nothing is anchored.
Anchored(recs, ops) == \A x \in recs : x.refs = {} => Anchor(recs, ops, x)

LEMMA HarmRecordShows ==
  ASSUME Domains, Typed, NEW l \in Ledgers, Verify(l) = "OK", Anchored(Recs(l), Ops(l)), HarmRecord(l),
         Verify(l)' = "OK"
  PROVE  Described(l)' = Described(l)
<1>1. /\ RowsAgree(l) /\ index[l] = ReferenceRows(Recs(l)) /\ Unique(Recs(l)) /\ Graph(Recs(l))
      /\ \A x \in Recs(l) : x \in Record
  BY VerifiedIsWhole, RecsTyped DEF Graph
<1>2. /\ RowsAgree(l)' /\ Valid(Recs(l)', Ops(l)') /\ index'[l] = ReferenceRows(Recs(l)')
  BY VerifiesNext
<1>3. index'[l] = index[l] /\ Ops(l)' = Ops(l)
  BY DEF HarmRecord, Ops
<1>4. \A row \in rows[l] : row = [id |-> row.data.id, kind |-> row.data.kind, data |-> row.data]
  BY <1>1 DEF Typed, Columns, RowsAgree
<1>5. \A row, other \in rows[l] : row.data = other.data => row = other
  BY <1>4
<1>6. ReferenceRows(Recs(l)') = ReferenceRows(Recs(l))
  BY <1>1, <1>2, <1>3
<1>7. CASE \E row \in rows[l] : rows' = [rows EXCEPT ![l] = @ \ {row}]
  <2>1. PICK row \in rows[l] : rows' = [rows EXCEPT ![l] = @ \ {row}]
    BY <1>7
  <2> DEFINE x == row.data
  <2>2. x \in Recs(l)
    BY DEF Recs
  <2>3. Recs(l)' = Recs(l) \ {x}
    BY <1>5, <2>1 DEF Recs, Domains
  <2> HIDE DEF x
  <2>4. \A y \in Recs(l)' : y.id # x.id
    BY <1>1, <2>2, <2>3 DEF Unique
  <2>5. CASE x.refs # {}
    <3>1. PICK r \in x.refs : TRUE
      BY <2>5
    <3>2. [source |-> x.id, field |-> r.field, target |-> r.to] \in ReferenceRows(Recs(l))
      BY <2>2, IndexRow
    <3>3. \E y \in Recs(l)' : y.id = x.id
      BY <1>6, <3>2, IndexRow
    <3>. QED
      BY <2>4, <3>3
  <2>6. CASE x.refs = {}
    <3>1. CASE \E o \in Ops(l) : o.result = x.id
      BY <1>2, <1>3, <2>4, <3>1 DEF Valid
    <3>2. CASE \E y \in Recs(l) : \E r \in y.refs : r.to = x.id
      <4>1. PICK y \in Recs(l) : \E r \in y.refs : r.to = x.id
        BY <3>2
      <4>2. y \in Recs(l)'
        BY <2>3, <2>6, <4>1
      <4>3. Resolves(Recs(l)', y)
        BY <1>2, <4>2 DEF Valid
      <4>. QED
        BY <2>4, <4>1, <4>3 DEF Resolves
    <3>. QED
      BY <2>2, <2>6, <3>1, <3>2 DEF Anchored, Anchor
  <2>. QED
    BY <2>5, <2>6
<1>8. CASE \E row, other \in rows[l] :
             /\ row # other
             /\ rows' = [rows EXCEPT ![l] = (@ \ {row, other})
                           \cup {[row EXCEPT !.data = other.data], [other EXCEPT !.data = row.data]}]
  <2>1. PICK row \in rows[l], other \in rows[l] :
             /\ row # other
             /\ rows' = [rows EXCEPT ![l] = (@ \ {row, other})
                           \cup {[row EXCEPT !.data = other.data], [other EXCEPT !.data = row.data]}]
    BY <1>8
  <2> DEFINE new == [row EXCEPT !.data = other.data]
  <2>2. new \in rows'[l]
    BY <2>1 DEF Domains
  <2>3. row = [id |-> row.id, kind |-> row.kind, data |-> row.data]
    BY DEF Typed, Columns
  <2>4. new = [id |-> row.id, kind |-> row.kind, data |-> other.data]
    BY <2>3, Except
  <2> HIDE DEF new
  <2>5. row.id = other.data.id
    BY <1>2, <2>2, <2>4 DEF RowsAgree
  <2>6. row.id = row.data.id /\ row.data \in Recs(l) /\ other.data \in Recs(l)
    BY <1>1 DEF RowsAgree, Recs
  <2>. QED
    BY <1>1, <1>5, <2>1, <2>5, <2>6 DEF Unique
<1>9. CASE \E row \in rows[l] : \E r \in row.data.refs :
             rows' = [rows EXCEPT ![l] = (@ \ {row}) \cup {[row EXCEPT !.data.refs = @ \ {r}]}]
  <2>0. PICK row \in rows[l] : \E r \in row.data.refs :
             rows' = [rows EXCEPT ![l] = (@ \ {row}) \cup {[row EXCEPT !.data.refs = @ \ {r}]}]
    BY <1>9
  <2>1. PICK r \in row.data.refs :
             rows' = [rows EXCEPT ![l] = (@ \ {row}) \cup {[row EXCEPT !.data.refs = @ \ {r}]}]
    BY <2>0
  <2> DEFINE x == row.data
             less == [x EXCEPT !.refs = @ \ {r}]
             new == [row EXCEPT !.data.refs = @ \ {r}]
  <2>2. x \in Recs(l) /\ x \in Record
    BY <1>1 DEF Recs
  <2>3. row = [id |-> row.id, kind |-> row.kind, data |-> row.data]
    BY DEF Typed, Columns
  <2>4. new = [row EXCEPT !.data = less]
    OBVIOUS
  <2>5. new.data = less
    BY <2>3, <2>4, Except
  <2>6. less.refs = x.refs \ {r} /\ less.id = x.id
    BY <2>2 DEF Record
  <2>7. \A y \in Recs(l)' : y = less \/ (y \in Recs(l) /\ y # x)
    <3>1. rows'[l] = (rows[l] \ {row}) \cup {new}
      BY <2>1 DEF Domains
    <3> HIDE DEF new, less
    <3>. QED
      BY <1>5, <2>5, <3>1 DEF Recs
  <2>8. [source |-> x.id, field |-> r.field, target |-> r.to] \in ReferenceRows(Recs(l)')
    BY <1>6, <2>2, IndexRow
  <2>9. PICK y \in Recs(l)' : y.id = x.id /\ \E q \in y.refs : q.field = r.field /\ q.to = r.to
    BY <2>8, IndexRow
  <2>10. y = less
    BY <1>1, <2>2, <2>7, <2>9 DEF Unique
  <2>11. PICK q \in x.refs : q # r /\ q.field = r.field /\ q.to = r.to
    BY <2>6, <2>9, <2>10
  <2>12. q = r
    BY <2>2, <2>11 DEF Record
  <2>. QED
    BY <2>11, <2>12
<1>10. CASE \E row \in rows[l], t \in Stamps :
              /\ row.data.kind \in Timed
              /\ rows' = [rows EXCEPT ![l] = (@ \ {row}) \cup {[row EXCEPT !.data.at = t]}]
  <2>1. PICK row \in rows[l], t \in Stamps :
               rows' = [rows EXCEPT ![l] = (@ \ {row}) \cup {[row EXCEPT !.data.at = t]}]
    BY <1>10
  <2> DEFINE later == [row.data EXCEPT !.at = t]
             new == [row EXCEPT !.data.at = t]
             Says(line) == <<line.id, [line.data EXCEPT !.at = Untimed]>>
  <2>2. row.data \in Record /\ row = [id |-> row.id, kind |-> row.kind, data |-> row.data]
    BY <1>1 DEF Recs, Typed, Columns
  <2>3. new = [row EXCEPT !.data = later]
    OBVIOUS
  <2>4. new = [id |-> row.id, kind |-> row.kind, data |-> later]
    BY <2>2, <2>3, Except
  <2>5. new.id = row.id /\ new.data = later
    BY <2>4
  <2>6. [later EXCEPT !.at = Untimed] = [row.data EXCEPT !.at = Untimed]
    BY <2>2 DEF Record
  <2>7. rows'[l] = (rows[l] \ {row}) \cup {new}
    BY <2>1 DEF Domains
  <2> HIDE DEF new, later
  <2>8. Says(new) = Says(row)
    BY <2>5, <2>6
  <2> HIDE DEF Says
  <2>9. {Says(line) : line \in rows'[l]} = {Says(line) : line \in rows[l]}
    BY <2>7, <2>8
  <2>. QED
    BY <2>9 DEF Described, Says
<1>. QED
  BY <1>7, <1>8, <1>9, <1>10 DEF HarmRecord

LEMMA HarmOperationShows ==
  ASSUME Domains, Typed, NEW l \in Ledgers, Verify(l) = "OK", HarmOperation(l), Verify(l)' = "OK"
  PROVE  Results(l)' \subseteq Results(l)
<1> DEFINE Says(row) == <<row.tuple, row.data.result>>
<1>1. RowsAgree(l) /\ RowsAgree(l)'
  BY VerifiedIsWhole, VerifiesNext
<1>2. \A row \in done[l] : row.tuple = row.data.tuple
  BY <1>1 DEF RowsAgree
<1>3. ASSUME NEW new \in done'[l], new \notin done[l]
      PROVE  \E row \in done[l] : new.tuple = row.tuple /\ new.data.result = row.data.result
  <2>1. PICK row, other \in done[l] :
          /\ new = [tuple |-> row.tuple, result |-> row.result, data |-> new.data]
          /\ Operation(new.data)
          /\ new.data = other.data \/ Untold(new.data, row, other)
    BY <1>3, HarmedOperation
  <2>2. new.tuple = row.tuple
    BY <2>1
  <2>3. new.tuple = new.data.tuple
    BY <1>1, <1>3 DEF RowsAgree
  <2>4. CASE new.data = other.data
    BY <1>2, <2>3, <2>4
  <2>5. CASE Untold(new.data, row, other)
    BY <2>2, <2>5 DEF Untold
  <2>. QED
    BY <2>1, <2>4, <2>5
<1>4. \A new \in done'[l] : \E row \in done[l] : Says(new) = Says(row)
  BY <1>3
<1> HIDE DEF Says
<1>5. {Says(row) : row \in done'[l]} \subseteq {Says(row) : row \in done[l]}
  BY <1>4
<1>. QED
  BY <1>5 DEF Results, Says

\* The first damage, if verify passes after it.
LEMMA HarmShows ==
  ASSUME Domains, Typed, NEW l \in Ledgers, Verify(l) = "OK", Anchored(Recs(l), Ops(l)),
         HarmPayload(l) \/ HarmIndex(l) \/ HarmRecord(l) \/ HarmOperation(l),
         Verify(l)' = "OK"
  PROVE  /\ Described(l)' = Described(l) /\ Results(l)' \subseteq Results(l)
         /\ stored'[l] = stored[l] /\ index'[l] = index[l]
<1>1. CASE HarmPayload(l) \/ HarmIndex(l)
  BY <1>1, HarmPayloadShows, HarmIndexShows
<1>2. CASE HarmRecord(l)
  <2>1. UNCHANGED <<index, stored, done>>
    BY <1>2 DEF HarmRecord
  <2>2. Described(l)' = Described(l)
    BY <1>2, HarmRecordShows
  <2>. QED
    BY <2>1, <2>2 DEF Results
<1>3. CASE HarmOperation(l)
  <2>1. UNCHANGED <<rows, index, stored>>
    BY <1>3 DEF HarmOperation
  <2>2. Results(l)' \subseteq Results(l)
    BY <1>3, HarmOperationShows
  <2>. QED
    BY <2>1, <2>2 DEF Described
<1>. QED
  BY <1>1, <1>2, <1>3

\* No write makes a damaged Ledger verify: it goes on only where the damage
\* is to the bytes of a Blob, and these it leaves as they are.
LEMMA StillShows ==
  ASSUME Domains, NEW l \in Ledgers, Sound(l), Verify(l) # "OK",
         NEW recs, NEW payloads, NEW ops, NEW o, Insert(l, recs, payloads, ops, o)
  PROVE  Verify(l)' # "OK"
<1>1. PICK x \in OfKind(Recs(l), "blob") : ~ (x.id \in DOMAIN stored[l] /\ stored[l][x.id] = x.bytes)
  BY VerifyIs
<1>2. x.id \in DOMAIN stored[l]
  BY DEF Sound, IndexesSound, IdsOf
<1>3. /\ Recs(l)' = Recs(l) \cup recs
      /\ Ops(l)' = Ops(l) \cup ops \cup {o}
      /\ RowsAgree(l) => RowsAgree(l)'
      /\ index'[l] = index[l] \cup ReferenceRows(recs)
      /\ stored'[l] = [b \in DOMAIN payloads \cup DOMAIN stored[l] |->
                         IF b \in DOMAIN stored[l] THEN stored[l][b] ELSE payloads[b]]
      /\ \A k \in Ledgers \ {l} : /\ rows'[k] = rows[k] /\ index'[k] = index[k]
                                  /\ stored'[k] = stored[k] /\ done'[k] = done[k]
      /\ bundle' = bundle /\ damaged' = damaged
  BY Inserted
<1>4. x \in OfKind(Recs(l)', "blob") /\ stored'[l][x.id] # x.bytes
  BY <1>1, <1>2, <1>3 DEF OfKind
<1>. QED
  BY <1>4, VerifiesNext
-----------------------------------------------------------------------------
(* Asking again.                                                           *)

\* What was asked is of records, and only an append asks for a Version.
Formed(o) ==
  /\ Written(o.asked) \subseteq Record
  /\ "version" \in DOMAIN o.asked => o.tuple.kind = "append_version"

\* What a success wrote is there, and what an import brought.
Kept(recs, ops, o) ==
  /\ \A x \in Written(o.asked) : \E y \in recs : SameAs(y, x)
  /\ o.tuple.kind = "import_bundle" =>
       /\ Targets(The(recs, o.result), "imported") = IdsOf(OfKind(Written(o.asked), "artifact"))
       /\ o.asked.bundle.ops \subseteq ops

Lasts(recs, ops) ==
  /\ Anchored(recs, ops)
  /\ \A o \in ops : Kept(recs, ops, o)

\* A bundle of a Ledger that kept what its operations wrote.
Genuine(b) == Lasts(b.recs, b.ops) /\ \A o \in b.ops : Formed(o)

Pristine == \A l \in Ledgers : damaged[l] = 0

Lasting ==
  /\ Pristine => /\ \A l \in Ledgers : Lasts(Recs(l), Ops(l))
                 /\ Lasts(bundle.recs, bundle.ops)
  /\ \A l \in Ledgers : \A o \in Ops(l) : Formed(o)
  /\ \A o \in bundle.ops : Formed(o)

\* What is kept is kept when more is added.
LEMMA KeptGrows ==
  ASSUME NEW A, NEW P, NEW o \in P, OpsOK(A, P), Kept(A, P, o),
         NEW U, NEW Q, A \subseteq U, P \subseteq Q, Unique(U)
  PROVE  Kept(U, Q, o)
<1>1. PICK x \in A : x.id = o.result
  BY DEF OpsOK
<1>2. Unique(A)
  BY DEF Unique
<1>3. The(A, o.result) = x /\ The(U, o.result) = x
  BY <1>1, <1>2, TheIs
<1>. QED
  BY <1>3 DEF Kept

\* A request without its time is met by the record stamped with one.
LEMMA StampSame ==
  ASSUME NEW x \in Record, x.at = Untimed, NEW l
  PROVE  SameAs(Stamp(x, l), x)
BY DEF SameAs, Stamp, Record

LEMMA SameItself ==
  ASSUME NEW x \in Record
  PROVE  SameAs(x, x)
BY DEF SameAs, Record

LEMMA SameIdentity ==
  ASSUME NEW x \in Record, NEW y \in Record, SameAs(y, x)
  PROVE  y.id = x.id /\ y.kind = x.kind
BY DEF SameAs, Record

\* Only these records can do without a reference.
LEMMA Refless ==
  ASSUME NEW x, Shaped(x), x.refs = {}
  PROVE  x.kind \in {"artifact", "blob", "import_receipt"}
<1>1. x.kind \in Kinds /\ \A field : Targets(x, field) = {}
  BY DEF Shaped, Targets
<1>2. x.kind # "version" /\ x.kind # "provenance_link"
  BY <1>1 DEF Shaped
<1>3. x.kind # "content_root" /\ x.kind # "manifest"
  BY DEF Shaped
<1>. QED
  BY <1>1, <1>2, <1>3 DEF Kinds

LEMMA SoundParts ==
  ASSUME NEW l \in Ledgers, Sound(l)
  PROVE  /\ Valid(Recs(l), Ops(l)) /\ Graph(Recs(l)) /\ OpsOK(Recs(l), Ops(l)) /\ Unique(Recs(l))
         /\ RowsAgree(l)
BY ValidParts DEF Sound, MetadataSound, Graph

\* What a retry is told to be there can be read, in a damaged Ledger too.
LEMMA ReplaysReadable ==
  ASSUME NEW l \in Ledgers, Sound(l), NEW o \in Ops(l), Formed(o), Recs(l) \subseteq Record,
         \A x \in Written(o.asked) : \E y \in Recs(l) : SameAs(y, x),
         NEW b \in ReplayedBlobs(l, o)
  PROVE  \E y \in OfKind(Recs(l), "blob") :
           /\ y.id = b /\ The(Recs(l), b) = y
           /\ BlobSound(l, y) => ReadBlob(l, b) = "OK"
<1>1. RowsAgree(l) /\ Graph(Recs(l)) /\ OpsOK(Recs(l), Ops(l)) /\ Unique(Recs(l))
  BY SoundParts
<1>2. \E y \in Recs(l) : y.kind = "blob" /\ y.id = b
  <2>1. CASE "version" \in DOMAIN o.asked
    <3>1. o.tuple.kind = "append_version"
      BY <2>1 DEF Formed
    <3>2. PICK v \in Recs(l) : v.id = o.result /\ v.kind = "version"
      BY <1>1, <3>1, ResultKinds DEF OpsOK
    <3>3. The(Recs(l), o.result) = v
      BY <1>1, <3>2, TheIs
    <3>4. b \in ContentBlobs(Recs(l), v)
      BY <2>1, <3>3 DEF ReplayedBlobs
    <3>. QED
      BY <1>1, <3>2, <3>4, ContentIs, HeldAreBlobs
  <2>2. CASE "version" \notin DOMAIN o.asked
    <3>1. PICK x \in Written(o.asked) : x.kind = "blob" /\ x.id = b
      BY <2>2 DEF ReplayedBlobs, IdsOf, OfKind
    <3>2. x \in Record
      BY DEF Formed
    <3>3. PICK y \in Recs(l) : SameAs(y, x)
      OBVIOUS
    <3>. QED
      BY <3>1, <3>2, <3>3, SameIdentity
  <2>. QED
    BY <2>1, <2>2
<1>3. PICK y \in Recs(l) : y.kind = "blob" /\ y.id = b
  BY <1>2
<1>4. The(Recs(l), b) = y
  BY <1>1, <1>3, TheIs
<1>5. GetRecord(l, "blob", b) = "OK"
  BY <1>1, <1>3, RecordIsThere
<1>6. BlobSound(l, y) => ReadBlob(l, b) = "OK"
  BY <1>4, <1>5 DEF ReadBlob
<1>. QED
  BY <1>3, <1>4, <1>6 DEF OfKind

\* What an INSERT adds lasts, and so does what was there.
LEMMA InsertLasts ==
  ASSUME Lasting, Domains, NEW l \in Ledgers, NEW recs, NEW payloads, NEW ops, NEW o,
         Insert(l, recs, payloads, ops, o), Sound(l), Unique(Recs(l) \cup recs),
         \A p \in ops \cup {o} : Formed(p),
         Pristine =>
           /\ \A p \in ops \cup {o} : Kept(Recs(l) \cup recs, Ops(l) \cup ops \cup {o}, p)
           /\ \A x \in recs : x.refs = {} => Anchor(Recs(l) \cup recs, Ops(l) \cup ops \cup {o}, x)
  PROVE  Lasting'
<1> DEFINE U == Recs(l) \cup recs
           Q == Ops(l) \cup ops \cup {o}
<1>1. /\ Recs(l)' = U /\ Ops(l)' = Q
      /\ \A k \in Ledgers \ {l} : /\ rows'[k] = rows[k] /\ index'[k] = index[k]
                                  /\ stored'[k] = stored[k] /\ done'[k] = done[k]
      /\ bundle' = bundle /\ damaged' = damaged
  <2>1. /\ Recs(l)' = Recs(l) \cup recs
        /\ Ops(l)' = Ops(l) \cup ops \cup {o}
        /\ RowsAgree(l) => RowsAgree(l)'
        /\ index'[l] = index[l] \cup ReferenceRows(recs)
        /\ stored'[l] = [b \in DOMAIN payloads \cup DOMAIN stored[l] |->
                           IF b \in DOMAIN stored[l] THEN stored[l][b] ELSE payloads[b]]
        /\ \A k \in Ledgers \ {l} : /\ rows'[k] = rows[k] /\ index'[k] = index[k]
                                    /\ stored'[k] = stored[k] /\ done'[k] = done[k]
        /\ bundle' = bundle /\ damaged' = damaged
    BY Inserted
  <2>. QED
    BY <2>1
<1>2. Recs(l) \subseteq U /\ Ops(l) \subseteq Q /\ Unique(U) /\ OpsOK(Recs(l), Ops(l))
  BY SoundParts
<1>3. \A p \in ops \cup {o} : Formed(p)
  OBVIOUS
<1>4. \A p \in Q : p \in Ops(l) \/ p \in ops \cup {o}
  OBVIOUS
<1>5. Pristine => /\ \A p \in ops \cup {o} : Kept(U, Q, p)
                  /\ \A x \in U : x \in Recs(l) \/ (x.refs = {} => Anchor(U, Q, x))
  OBVIOUS
<1> HIDE DEF U, Q
<1>6. ASSUME Pristine PROVE Lasts(U, Q)
  <2>1. Anchored(Recs(l), Ops(l)) /\ \A p \in Ops(l) : Kept(Recs(l), Ops(l), p)
    BY <1>6 DEF Lasting, Lasts
  <2>2. \A p \in Ops(l) : Kept(U, Q, p)
    BY <1>2, <2>1, KeptGrows
  <2>3. Anchored(U, Q)
    BY <1>2, <1>5, <1>6, <2>1 DEF Anchored, Anchor
  <2>. QED
    BY <1>4, <1>5, <1>6, <2>2, <2>3 DEF Lasts
<1>7. \A p \in Q : Formed(p)
  BY <1>3, <1>4 DEF Lasting
<1>8. ASSUME NEW k \in Ledgers, k # l
      PROVE  Verify(k)' = Verify(k) /\ Recs(k)' = Recs(k) /\ Ops(k)' = Ops(k)
  BY <1>1, <1>8, Untouched
<1>9. Pristine' => Pristine
  BY <1>1 DEF Pristine
<1>10. Pristine' => \A k \in Ledgers : Lasts(Recs(k)', Ops(k)')
  BY <1>1, <1>6, <1>8, <1>9 DEF Lasting
<1>11. \A k \in Ledgers : \A p \in Ops(k)' : Formed(p)
  BY <1>1, <1>7, <1>8 DEF Lasting
<1>. QED
  BY <1>1, <1>9, <1>10, <1>11 DEF Lasting

LEMMA CreateLasts ==
  ASSUME IInv, Lasting, NEW l \in Ledgers, NEW req \in Asked[l], Create(l, req)
  PROVE  Lasting'
<1> DEFINE x == Stamp(req.artifact, l)
           o == [tuple |-> req.tuple, asked |-> req, result |-> req.artifact.id, at |-> l]
           U == Recs(l) \cup {x}
           Q == Ops(l) \cup {} \cup {o}
<1>1. /\ req.tuple.kind = "create_artifact" /\ req.artifact.id \notin IdsOf(Recs(l)) /\ Sound(l)
      /\ Insert(l, {x}, <<>>, {}, o)
  BY DEF Create
<1>2. /\ req \in [tuple : Tuple, artifact : Record]
      /\ req.artifact \in Record /\ req.artifact.at = Untimed
  BY <1>1, RequestsAssumption
<1>3. "artifact" \in DOMAIN req /\ "version" \notin DOMAIN req
  BY <1>2
<1>4. x.id = req.artifact.id /\ SameAs(x, req.artifact)
  BY <1>2, StampKeeps, StampSame
<1>5. o.asked = req /\ o.tuple = req.tuple /\ o.result = req.artifact.id
  OBVIOUS
<1> HIDE DEF x, o
<1>6. Written(o.asked) = {req.artifact}
  BY <1>3, <1>5 DEF Written
<1>7. Formed(o) /\ Kept(U, Q, o)
  BY <1>1, <1>2, <1>3, <1>4, <1>5, <1>6 DEF Formed, Kept
<1>8. Unique(Recs(l))
  BY <1>1, SoundParts
<1>9. Unique(Recs(l) \cup {x})
  BY <1>1, <1>4, <1>8 DEF Unique, IdsOf
<1>10. \A p \in {} \cup {o} : Formed(p) /\ Kept(Recs(l) \cup {x}, Ops(l) \cup {} \cup {o}, p)
  BY <1>7
<1>11. \A y \in {x} : y.refs = {} => Anchor(Recs(l) \cup {x}, Ops(l) \cup {} \cup {o}, y)
  BY <1>4, <1>5 DEF Anchor
<1>12. Domains
  BY DEF IInv
<1> DEFINE recs == {x}
           none == {}
<1>13. /\ Insert(l, recs, <<>>, none, o) /\ Unique(Recs(l) \cup recs)
       /\ \A p \in none \cup {o} : Formed(p) /\ Kept(Recs(l) \cup recs, Ops(l) \cup none \cup {o}, p)
       /\ \A y \in recs : y.refs = {} => Anchor(Recs(l) \cup recs, Ops(l) \cup none \cup {o}, y)
  BY <1>1, <1>9, <1>10, <1>11
<1> HIDE DEF recs, none
<1>. QED
  BY <1>1, <1>12, <1>13, InsertLasts

LEMMA AppendLasts ==
  ASSUME IInv, Lasting, NEW l \in Ledgers, NEW req \in Asked[l], NEW payloads, Append(l, req, payloads)
  PROVE  Lasting'
<1> DEFINE new == [b \in DOMAIN payloads \ DOMAIN stored[l] |-> payloads[b]]
           add == Additions(l, req) \ Recs(l)
           o == [tuple |-> req.tuple, asked |-> req, result |-> req.version.id, at |-> l]
           all == Recs(l) \cup Additions(l, req)
<1>1. /\ req.tuple.kind = "append_version" /\ Sound(l) /\ Valid(all, Ops(l))
      /\ Insert(l, add, new, {}, o)
  BY DEF Append, Appendable
<1>2. /\ req \in [tuple : Tuple, version : Record, others : SUBSET Record]
      /\ req.version \in Record /\ req.others \subseteq Record /\ req.version.at = Untimed
      /\ req.version.kind = "version"
      /\ \A x \in req.others :
           x.kind \in {"content_root", "blob", "manifest", "provenance_link"} /\ x.at = Untimed
  BY <1>1, RequestsAssumption
<1>3. "artifact" \notin DOMAIN req /\ "version" \in DOMAIN req
  BY <1>2
<1>4. \A x \in {req.version} \cup req.others : x \in Record /\ SameAs(Stamp(x, l), x)
  BY <1>2, StampSame
<1>5. \A x \in {req.version} \cup req.others : Stamp(x, l) \in Additions(l, req)
  BY DEF Additions
<1>6. o.asked = req /\ o.tuple = req.tuple
  OBVIOUS
<1>7. Recs(l) \cup add = all /\ Additions(l, req) \subseteq all /\ add \subseteq all /\ add \subseteq Additions(l, req)
  OBVIOUS
<1>8. \A x \in Additions(l, req) :
        x.kind \in {"version", "content_root", "blob", "manifest", "provenance_link"}
  BY <1>2, StampKeeps DEF Additions
<1> HIDE DEF add, o, new, all
<1>9. Written(o.asked) = {req.version} \cup req.others
  BY <1>3, <1>6 DEF Written
<1>10. Formed(o)
  BY <1>1, <1>2, <1>6, <1>9 DEF Formed
<1>11. \A x \in Written(o.asked) : \E y \in all : SameAs(y, x)
  BY <1>4, <1>5, <1>7, <1>9
<1>12. Kept(all, Ops(l) \cup {} \cup {o}, o)
  BY <1>1, <1>6, <1>11 DEF Kept
<1>13. Graph(all) /\ Unique(all)
  BY <1>1, ValidParts DEF Graph
<1>14. ASSUME NEW x \in add, x.refs = {}
       PROVE  \E y \in all : \E r \in y.refs : r.to = x.id
  <2>1. x \in all /\ Shaped(x)
    BY <1>7, <1>13 DEF Graph
  <2>2. x.kind = "blob"
    BY <1>7, <1>8, <1>14, <2>1, Refless
  <2>. QED
    BY <1>13, <2>1, <2>2 DEF Graph, Unreachable
<1>15. \A p \in {} \cup {o} :
         Formed(p) /\ Kept(Recs(l) \cup add, Ops(l) \cup {} \cup {o}, p)
  BY <1>7, <1>10, <1>12
<1>16. \A x \in add : x.refs = {} => Anchor(Recs(l) \cup add, Ops(l) \cup {} \cup {o}, x)
  BY <1>7, <1>14 DEF Anchor
<1>17. Unique(Recs(l) \cup add)
  BY <1>7, <1>13
<1>. QED
  BY <1>1, <1>15, <1>16, <1>17, InsertLasts DEF IInv

LEMMA ImportLasts ==
  ASSUME IInv, Lasting, NEW l \in Ledgers, NEW ask, NEW b, b.recs \subseteq Record,
         Pristine => Lasts(b.recs, b.ops), \A p \in b.ops : Formed(p), Import(l, ask, b)
  PROVE  Lasting'
<1> DEFINE receipt == Receipt(l, ask, b)
           add == (b.recs \ Recs(l)) \cup {receipt}
           old == b.ops \ Ops(l)
           o == [tuple |-> Importing(ask), asked |-> [ask |-> ask, bundle |-> b],
                 result |-> ask.receipt, at |-> l]
           U == Recs(l) \cup add
           Q == Ops(l) \cup old \cup {o}
<1>1. /\ Sound(l) /\ Decodes(b) /\ Valid(Recs(l) \cup b.recs \cup {receipt}, Ops(l) \cup b.ops)
      /\ Insert(l, add, b.payloads, old, o)
  BY DEF Import
<1>2. /\ receipt.id = ask.receipt
      /\ receipt.refs = {[field |-> "imported", to |-> x.id] : x \in OfKind(b.recs, "artifact")}
  BY DEF Receipt
<1>3. /\ o.asked = [ask |-> ask, bundle |-> b] /\ o.result = ask.receipt
      /\ "artifact" \notin DOMAIN o.asked /\ "version" \notin DOMAIN o.asked /\ o.asked.bundle = b
  OBVIOUS
<1>4. U = Recs(l) \cup b.recs \cup {receipt}
  OBVIOUS
<1>5. Unique(U)
  BY <1>1, <1>4, ValidParts DEF Graph
<1>6. b.recs \subseteq U /\ receipt \in U /\ b.ops \subseteq Q /\ o \in Q
  OBVIOUS
<1>7. add \subseteq b.recs \cup {receipt} /\ old \subseteq b.ops
  OBVIOUS
<1> HIDE DEF receipt, o, U, Q, add, old
<1>8. Written(o.asked) = b.recs
  BY <1>3 DEF Written
<1>9. Targets(receipt, "imported") = IdsOf(OfKind(b.recs, "artifact"))
  <2>1. \A r \in receipt.refs : r.field = "imported"
    BY <1>2
  <2>2. Targets(receipt, "imported") = {r.to : r \in receipt.refs}
    BY <2>1 DEF Targets
  <2>3. \A t : (\E r \in receipt.refs : r.to = t) <=> \E x \in OfKind(b.recs, "artifact") : x.id = t
    <3> DEFINE ref(x) == [field |-> "imported", to |-> x.id]
    <3>1. \A x : ref(x).to = x.id
      OBVIOUS
    <3>2. receipt.refs = {ref(x) : x \in OfKind(b.recs, "artifact")}
      BY <1>2
    <3> HIDE DEF ref
    <3>. QED
      BY <3>1, <3>2
  <2>. QED
    BY <2>2, <2>3 DEF IdsOf
<1>10. The(U, o.result) = receipt
  BY <1>2, <1>3, <1>5, <1>6, TheIs
<1>11. \A x \in b.recs : x \in Record /\ SameAs(x, x)
  BY SameItself
<1>12. Formed(o) /\ Kept(U, Q, o)
  BY <1>3, <1>6, <1>8, <1>9, <1>10, <1>11 DEF Formed, Kept
<1>13. OpsOK(b.recs, b.ops)
  BY <1>1, ValidParts DEF Decodes
<1>14. ASSUME Pristine, NEW p \in b.ops PROVE Kept(U, Q, p)
  BY <1>5, <1>6, <1>13, <1>14, KeptGrows DEF Lasts
<1>15. /\ \A p \in old \cup {o} : Formed(p)
       /\ Pristine => \A p \in old \cup {o} : Kept(U, Q, p)
  BY <1>7, <1>12, <1>14
<1>16. ASSUME Pristine PROVE \A x \in add : x.refs = {} => Anchor(U, Q, x)
  <2>1. \A x \in b.recs : x.refs = {} => Anchor(b.recs, b.ops, x)
    BY <1>16 DEF Lasts, Anchored
  <2>. QED
    BY <1>2, <1>3, <1>6, <1>7, <2>1 DEF Anchor
<1>17. /\ Unique(Recs(l) \cup add)
       /\ \A p \in old \cup {o} : Formed(p)
       /\ Pristine =>
            /\ \A p \in old \cup {o} : Kept(Recs(l) \cup add, Ops(l) \cup old \cup {o}, p)
            /\ \A x \in add : x.refs = {} => Anchor(Recs(l) \cup add, Ops(l) \cup old \cup {o}, x)
  BY <1>5, <1>15, <1>16 DEF U, Q
<1>18. Domains
  BY DEF IInv
<1> DEFINE payloads == b.payloads
<1> HIDE DEF payloads
<1>19. Insert(l, add, payloads, old, o)
  BY <1>1 DEF payloads
<1>. QED
  BY <1>1, <1>17, <1>18, <1>19, InsertLasts

LEMMA ExportLasts ==
  ASSUME Lasting, NEW l \in Ledgers, Export(l)
  PROVE  Lasting'
<1>1. bundle' = Content(l) /\ UNCHANGED <<rows, index, stored, done, damaged>>
  BY DEF Export
<1>2. bundle'.recs = Recs(l) /\ bundle'.ops = Ops(l)
  BY <1>1 DEF Content
<1>3. \A k \in Ledgers : Recs(k)' = Recs(k) /\ Ops(k)' = Ops(k)
  BY <1>1, Untouched
<1>. QED
  BY <1>1, <1>2, <1>3 DEF Lasting, Pristine

\* Damage leaves operations that are formed.
LEMMA HarmLasts ==
  ASSUME IInv, Typed, Lasting, NEW l \in Ledgers,
         HarmPayload(l) \/ HarmIndex(l) \/ HarmRecord(l) \/ HarmOperation(l)
  PROVE  Lasting'
<1>1. Harm(l) /\ bundle' = bundle
  BY DEF HarmPayload, HarmIndex, HarmRecord, HarmOperation
<1>2. Domains
  BY DEF IInv
<1>3. ~Pristine'
  BY <1>1, <1>2 DEF Harm, Pristine, Domains
<1>4. ASSUME NEW k \in Ledgers, NEW p \in Ops(k)' PROVE Formed(p)
  <2>1. PICK new \in done'[k] : new.data = p
    BY DEF Ops
  <2>2. CASE new \in done[k]
    BY <2>1, <2>2 DEF Lasting, Ops
  <2>3. CASE new \notin done[k]
    <3>1. HarmOperation(l) /\ k = l
      BY <1>2, <2>1, <2>3 DEF HarmPayload, HarmIndex, HarmRecord, HarmOperation, Domains
    <3>2. PICK row, other \in done[l] :
            /\ new = [tuple |-> row.tuple, result |-> row.result, data |-> new.data]
            /\ Operation(new.data)
            /\ new.data = other.data \/ Untold(new.data, row, other)
      BY <1>2, <2>1, <2>3, <3>1, HarmedOperation
    <3>3. Formed(other.data)
      BY DEF Lasting, Ops
    <3>. QED
      BY <2>1, <3>2, <3>3 DEF Untold, Formed
  <2>. QED
    BY <2>2, <2>3
<1>. QED
  BY <1>1, <1>3, <1>4 DEF Lasting

LEMMA InitLasting == Init => Lasting
<1> SUFFICES ASSUME Init PROVE Lasting
  OBVIOUS
<1>1. /\ bundle.recs = {} /\ bundle.ops = {}
      /\ \A l \in Ledgers : rows[l] = {} /\ done[l] = {} /\ damaged[l] = 0
  BY DEF Init, Nothing
<1>2. \A l \in Ledgers : Recs(l) = {} /\ Ops(l) = {}
  BY <1>1 DEF Recs, Ops
<1>3. Lasts({}, {})
  BY DEF Lasts, Anchored
<1>. QED
  BY <1>1, <1>2, <1>3 DEF Lasting

LEMMA NextLasting ==
  ASSUME \A b \in Foreign : Decodes(b) => Genuine(b),
         IInv, Typed, Lasting, [Next]_vars
  PROVE  Lasting'
<1>1. CASE UNCHANGED vars
  <2>1. \A k \in Ledgers : Verify(k)' = Verify(k) /\ Recs(k)' = Recs(k) /\ Ops(k)' = Ops(k)
    BY <1>1, Untouched DEF vars
  <2>. QED
    BY <1>1, <2>1 DEF vars, Lasting, Pristine
<1>2. ASSUME NEW l \in Ledgers, NEW req \in Asked[l], Create(l, req) PROVE Lasting'
  BY <1>2, CreateLasts
<1>3. ASSUME NEW l \in Ledgers, NEW req \in Asked[l], NEW payloads \in Payloads, Append(l, req, payloads)
      PROVE  Lasting'
  BY <1>3, AppendLasts
<1>4. ASSUME NEW l \in Ledgers, Export(l) PROVE Lasting'
  BY <1>4, ExportLasts
<1>5. ASSUME NEW l \in Ledgers, NEW ask \in Imports, NEW b \in Foreign \cup {bundle}, Import(l, ask, b)
      PROVE  Lasting'
  <2>1. Decodes(b)
    BY <1>5 DEF Import
  <2>2. /\ b.recs \subseteq Record /\ \A p \in b.ops : Formed(p)
        /\ Pristine => Lasts(b.recs, b.ops)
    BY <2>1, InputsAssumption DEF Typed, Lasting, Genuine
  <2>. QED
    BY <1>5, <2>2, ImportLasts
<1>6. ASSUME NEW l \in Ledgers, HarmPayload(l) \/ HarmIndex(l) \/ HarmRecord(l) \/ HarmOperation(l)
      PROVE  Lasting'
  BY <1>6, HarmLasts
<1>. QED
  BY <1>1, <1>2, <1>3, <1>4, <1>5, <1>6 DEF Next

\* What verify does not find of a first damage is to no content, whichever
\* row of a Ledger is lost, changed or exchanged with another; and no later
\* write makes it pass (verify, _verify_indexes, SQLiteStore.metadata).  Every
\* bundle from elsewhere that decodes is taken to be of a Ledger that kept
\* what it wrote.  Further damage may hide a first one: a parent lost with
\* its row of the index is as if it had never been.
THEOREM OneDamageShows ==
  ASSUME \A b \in Foreign : Decodes(b) => Genuine(b)
  PROVE  Spec => DamageShows
<1> DEFINE Shown(l) ==
             /\ damaged[l] = 0 /\ damaged'[l] # 0 /\ Verify(l)' = "OK"
                  => /\ Described(l)' = Described(l) /\ Results(l)' \subseteq Results(l)
                     /\ stored'[l] = stored[l] /\ index'[l] = index[l]
             /\ damaged'[l] = damaged[l] /\ Verify(l)' = "OK" => Verify(l) = "OK"
<1>1. ASSUME IInv, Typed, Lasting, Next, NEW l \in Ledgers PROVE Shown(l)
  <2>0. Domains
    BY <1>1 DEF IInv
  <2>1. CASE \E k \in Ledgers : HarmPayload(k) \/ HarmIndex(k) \/ HarmRecord(k) \/ HarmOperation(k)
    <3>1. PICK k \in Ledgers : HarmPayload(k) \/ HarmIndex(k) \/ HarmRecord(k) \/ HarmOperation(k)
      BY <2>1
    <3>2. Harm(k)
      BY <3>1 DEF HarmPayload, HarmIndex, HarmRecord, HarmOperation
    <3>3. CASE k = l
      <4>1. damaged'[l] # damaged[l]
        BY <2>0, <3>2, <3>3 DEF Harm, Domains
      <4>2. ASSUME damaged[l] = 0, Verify(l)' = "OK"
            PROVE  /\ Described(l)' = Described(l) /\ Results(l)' \subseteq Results(l)
                   /\ stored'[l] = stored[l] /\ index'[l] = index[l]
        <5>1. Pristine
          BY <3>2, <3>3, <4>2 DEF Harm, Pristine
        <5>2. Verify(l) = "OK" /\ Anchored(Recs(l), Ops(l))
          BY <1>1, <4>2, <5>1 DEF IInv, Lasting, Lasts
        <5>. QED
          BY <1>1, <2>0, <3>1, <3>3, <4>2, <5>2, HarmShows
      <4>. QED
        BY <4>1, <4>2
    <3>4. CASE k # l
      <4>1. /\ rows'[l] = rows[l] /\ index'[l] = index[l] /\ stored'[l] = stored[l]
            /\ done'[l] = done[l]
        BY <2>0, <3>1, <3>4 DEF HarmPayload, HarmIndex, HarmRecord, HarmOperation, Domains
      <4>2. damaged'[l] = damaged[l]
        BY <2>0, <3>2, <3>4 DEF Harm, Domains
      <4>3. Verify(l)' = Verify(l)
        BY <4>1, Untouched
      <4>. QED
        BY <4>2, <4>3
    <3>. QED
      BY <3>3, <3>4
  <2>2. ASSUME NEW k \in Ledgers, Sound(k), NEW recs, NEW payloads, NEW ops, NEW o,
               Insert(k, recs, payloads, ops, o)
        PROVE  Shown(l)
    <3>1. damaged' = damaged
      BY <2>2 DEF Insert
    <3>2. CASE k = l
      <4>1. Verify(l) # "OK" => Verify(l)' # "OK"
        BY <2>0, <2>2, <3>2, StillShows
      <4>. QED
        BY <3>1, <4>1
    <3>3. CASE k # l
      <4>1. /\ rows'[l] = rows[l] /\ index'[l] = index[l] /\ stored'[l] = stored[l]
            /\ done'[l] = done[l]
        BY <2>0, <2>2, <3>3 DEF Insert, Domains
      <4>2. Verify(l)' = Verify(l)
        BY <4>1, Untouched
      <4>. QED
        BY <3>1, <4>2
    <3>. QED
      BY <3>2, <3>3
  <2>3. ASSUME NEW k \in Ledgers, NEW req \in Asked[k], Create(k, req) PROVE Shown(l)
    <3> HIDE DEF Shown
    <3>1. Sound(k) /\ \E recs, payloads, ops, o : Insert(k, recs, payloads, ops, o)
      BY <2>3 DEF Create
    <3>. QED
      BY <2>2, <3>1
  <2>4. ASSUME NEW k \in Ledgers, NEW req \in Asked[k], NEW payloads \in Payloads, Append(k, req, payloads)
        PROVE  Shown(l)
    <3> HIDE DEF Shown
    <3>1. Sound(k) /\ \E recs, new, ops, o : Insert(k, recs, new, ops, o)
      BY <2>4 DEF Append, Appendable
    <3>. QED
      BY <2>2, <3>1
  <2>5. ASSUME NEW k \in Ledgers, NEW ask \in Imports, NEW b \in Foreign \cup {bundle}, Import(k, ask, b)
        PROVE  Shown(l)
    <3> HIDE DEF Shown
    <3>1. Sound(k) /\ \E recs, payloads, ops, o : Insert(k, recs, payloads, ops, o)
      BY <2>5 DEF Import
    <3>. QED
      BY <2>2, <3>1
  <2>6. ASSUME NEW k \in Ledgers, Export(k) PROVE Shown(l)
    <3>1. UNCHANGED <<rows, index, stored, done, damaged>>
      BY <2>6 DEF Export
    <3>2. Verify(l)' = Verify(l)
      BY <3>1, Untouched
    <3>. QED
      BY <3>1, <3>2
  <2> HIDE DEF Shown
  <2>. QED
    BY <1>1, <2>1, <2>3, <2>4, <2>5, <2>6 DEF Next
<1>2. IInv /\ Typed /\ Lasting /\ [Next]_vars => [\A l \in Ledgers : Shown(l)]_vars
  BY <1>1
<1>3. IInv /\ Typed /\ Lasting /\ [Next]_vars => Lasting'
  BY NextLasting
<1>. QED
  BY <1>2, <1>3, InitLasting, InitTyped, NextTyped, Invariance, PTL DEF Spec, DamageShows

\* On the same condition a success can be asked for again for ever while no
\* Ledger is damaged, in the one that gave it and in those it was imported
\* into; and where a retry is told so its bytes can be read, in a damaged
\* Ledger as well (_check_replay).
THEOREM RetriesSucceed ==
  ASSUME \A b \in Foreign : Decodes(b) => Genuine(b)
  PROVE  Spec => []RetrySucceeds
<1>1. ASSUME IInv, Typed, Lasting PROVE RetrySucceeds
  <2>1. ASSUME NEW l \in Ledgers, Sound(l), NEW o \in Ops(l)
        PROVE  /\ Pristine => Replays(l, o)
               /\ Replays(l, o) => \A b \in ReplayedBlobs(l, o) : ReadBlob(l, b) = "OK"
    <3>1. Formed(o) /\ Recs(l) \subseteq Record
      BY <1>1, <2>1, RecsTyped DEF Lasting
    <3>2. ASSUME Pristine PROVE Replays(l, o)
      <4>1. Verify(l) = "OK" /\ Kept(Recs(l), Ops(l), o)
        BY <1>1, <2>1, <3>2 DEF IInv, Lasting, Lasts, Pristine
      <4>2. \A x \in OfKind(Recs(l), "blob") : BlobSound(l, x)
        BY <4>1, VerifyIs DEF BlobSound
      <4>3. \A x \in Written(o.asked) : \E y \in Recs(l) : SameAs(y, x)
        BY <4>1 DEF Kept
      <4>4. \A b \in ReplayedBlobs(l, o) : BlobSound(l, The(Recs(l), b))
        BY <2>1, <3>1, <4>2, <4>3, ReplaysReadable
      <4>. QED
        BY <4>1, <4>4 DEF Replays, Kept
    <3>3. ASSUME Replays(l, o), NEW b \in ReplayedBlobs(l, o) PROVE ReadBlob(l, b) = "OK"
      <4>1. /\ \A x \in Written(o.asked) : \E y \in Recs(l) : SameAs(y, x)
            /\ BlobSound(l, The(Recs(l), b))
        BY <3>3 DEF Replays
      <4>. QED
        BY <2>1, <3>1, <3>3, <4>1, ReplaysReadable
    <3>. QED
      BY <3>2, <3>3
  <2>. QED
    BY <2>1 DEF RetrySucceeds, Undamaged, Pristine
<1>2. IInv /\ Typed /\ Lasting /\ [Next]_vars => Lasting'
  BY NextLasting
<1>. QED
  BY <1>1, <1>2, InitLasting, InitTyped, NextTyped, Invariance, PTL DEF Spec
=============================================================================
