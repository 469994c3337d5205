---------------------------- MODULE LedgerOpsMC ----------------------------
(* Small instances of LedgerOps. *)
EXTENDS LedgerOps, TLC

CONSTANTS x, y,                              \* Ledgers
          a1, a2, v1, v2, v3, r1, r2, r3, m1, b1, b2, b3, p1, i1, i2, \* identities
          c1, c2, c3,                        \* contents
          k1, k2, k3, k4, k5, k6, k7, k8     \* keys

MCSize == c1 :> 2 @@ c2 :> 2 @@ c3 :> 3

ref(field, to) == [field |-> field, to |-> to]
rec(kind, id, refs) == [kind |-> kind, id |-> id, refs |-> refs, bytes |-> NoBytes, at |-> Untimed]
blob(id, c) == [rec("blob", id, {}) EXCEPT !.bytes = c]
version(id, a, r, parents) ==
  rec("version", id, {ref("artifact", a), ref("root", r)} \cup {ref("parent", p) : p \in parents})

create(key, a) == [tuple |-> [kind |-> "create_artifact", key |-> key], artifact |-> rec("artifact", a, {})]
append(key, v, others) == [tuple |-> [kind |-> "append_version", key |-> key], version |-> v, others |-> others]

C1 == create(k1, a1)
C2 == create(k2, a2)
\* The first Version of a1, of one Blob.
A1 == append(k3, version(v1, a1, r1, {}), {rec("content_root", r1, {ref("blob", b1)}), blob(b1, c1)})
\* A second one, with a Manifest that shares the Blob, and its provenance.
A2 == append(k4, version(v2, a1, r2, {v1}),
        {rec("content_root", r2, {ref("manifest", m1)}),
         rec("manifest", m1, {ref("entry", b1), ref("entry", b2)}), blob(b1, c1), blob(b2, c2),
         rec("provenance_link", p1, {ref("subject", v2), ref("object", v1)})})
\* Another second one, that reuses the content of the first.
A3 == append(k5, version(v3, a1, r1, {v1}), {})
\* A Version of a2 with a Blob of its own.
B1 == append(k6, version(v3, a2, r3, {}), {rec("content_root", r3, {ref("blob", b3)}), blob(b3, c3)})
\* Requests that are never right: a Version that is its own parent, one with
\* a parent of another Artifact, one with content it does not have, one
\* whose content is too large, and provenance about what is no Version.
Own == append(k7, version(v3, a1, r1, {v3}), {})
Alien == append(k7, version(v3, a2, r1, {v1}), {})
Loose == append(k7, version(v3, a1, r1, {v1}), {blob(b3, c3)})
Large == append(k7, version(v3, a1, r2, {}),
           {rec("content_root", r2, {ref("manifest", m1)}),
            rec("manifest", m1, {ref("entry", b2), ref("entry", b3)}), blob(b2, c2), blob(b3, c3)})
About == append(k7, version(v3, a1, r1, {}),
           {rec("provenance_link", p1, {ref("subject", v3), ref("object", a1)})})

MCAsked == x :> {C1, C2, A1, A2, B1, Own, Alien, Loose, Large, About} @@ y :> {C1, A3}
MCPayloads == {<<>>, b1 :> c1, b2 :> c2, b3 :> c3, b1 :> c2, b2 :> c2 @@ b3 :> c3}
MCAskedOne == x :> {C1, C2, A1, A2, Large}
MCImports == {[key |-> k7, receipt |-> i1], [key |-> k8, receipt |-> i2]}

\* Bundles nobody exported: a cycle of two Versions, a Blob without its
\* bytes, and a Blob of no Version.
by(l, r) == [r EXCEPT !.at = l]
Base == {by(x, rec("artifact", a2, {})), rec("content_root", r3, {ref("blob", b3)}), blob(b3, c3)}
Cycle == [recs |-> Base \cup {by(x, version(v2, a2, r3, {v3})), by(x, version(v3, a2, r3, {v2}))},
          ops |-> {}, payloads |-> b3 :> c3]
Missing == [recs |-> Base \cup {by(x, version(v3, a2, r3, {}))}, ops |-> {}, payloads |-> <<>>]
Orphan == [recs |-> {by(x, rec("artifact", a2, {})), blob(b3, c3)}, ops |-> {}, payloads |-> b3 :> c3]
MCForeign == {Cycle, Missing, Orphan}

MCIds == {a1, a2, v1, v2, v3, r1, r2, r3, m1, b1, b2, b3, p1, i1, i2}
MCKeys == {k1, k2, k3, k4, k5, k6, k7, k8}
=============================================================================
