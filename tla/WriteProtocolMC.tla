--------------------------- MODULE WriteProtocolMC --------------------------
(***************************************************************************)
(* Small instances of WriteProtocol.                                       *)
(*   create   Artifact a1                                                  *)
(*   fetch    a bundle with the Artifact a1 alone                          *)
(*   usurp    another bundle under fetch's idempotency tuple: a1, and an   *)
(*            Artifact a2 with a Version v2 whose content is two Blobs     *)
(*   again    Version v1 of a1 that takes those Blobs as they are there    *)
(*   import   a bundle of a Ledger where create succeeded at time 2        *)
(***************************************************************************)
EXTENDS WriteProtocol, TLC

CONSTANTS create, fetch, usurp, again, import,
          k1, k2, k3,
          a1, a2, v1, v2, b1, b2, i1, i2

MCKeys == {k1, k2, k3}
MCIds == {a1, a2, v1, v2, b1, b2, i1, i2}
MCBlobs == {b1, b2}
MCTimes == {1, 2}

Entry(kind, key, made) ==
  [kind |-> kind, key |-> key, timed |-> {made}, result |-> made.id, carried |-> {},
   needs |-> {}, uses |-> {}, closure |-> {}, history |-> {}]

Rec(id, art, by, at) == [id |-> id, art |-> art, by |-> by, at |-> at]

Bundle(receipt, key, carried) ==
  [Entry("import_bundle", key, [id |-> receipt, art |-> NoArtifact])
     EXCEPT !.carried = carried, !.uses = Owned(carried), !.closure = Owned(carried) \cap Blobs]

MCBody ==
  [r \in Requests |->
     CASE r = create -> Entry("create_artifact", k1, [id |-> a1, art |-> a1])
       [] r = fetch  -> Bundle(i1, k3, {Rec(a1, a1, fetch, 1)})
       [] r = usurp  -> Bundle(i2, k3, {Rec(a1, a1, fetch, 1), Rec(a2, a2, usurp, 1),
                                        Rec(v2, a2, usurp, 1),
                                        Rec(b1, NoArtifact, usurp, Untimed),
                                        Rec(b2, NoArtifact, usurp, Untimed)})
       [] r = again  -> [Entry("append_version", k2, [id |-> v1, art |-> a1])
                          EXCEPT !.needs = {a1}, !.uses = {a1, b1, b2}, !.closure = {b1, b2}]
       [] r = import -> [Bundle(i1, k3, {Rec(a1, a1, create, 2)})
                          EXCEPT !.history = {[req |-> create, at |-> 2]}]]

HandleSymmetry == Permutations(Handles)
=============================================================================
