------------------------ MODULE IndependentLedgerMC -------------------------
(***************************************************************************)
(* Small instances of IndependentLedger.                                   *)
(*   create   Artifact a1                                                  *)
(*   fetch    a bundle with the Artifact a1 alone                          *)
(*   usurp    another bundle under fetch's idempotency tuple: a1, and an   *)
(*            Artifact a2 with a Version v2 whose content is the Blob b1   *)
(*   again    Version v1 of a1 that takes the Blob b1 as it is there       *)
(*   import   a bundle of a Ledger where create succeeded at time 2        *)
(***************************************************************************)
EXTENDS IndependentLedger, TLC

CONSTANTS create, fetch, usurp, again, import, k1, k2, k3, a1, a2, v1, v2, b1, i1, i2

MCKeys == {k1, k2, k3}
MCIds == {a1, a2, v1, v2, b1, i1, i2}
MCBlobs == {b1}
MCTimes == {1, 2}

Plain(kind, key, made) ==
  [kind |-> kind, key |-> key, timed |-> {made}, result |-> made.id, carried |-> {},
   needs |-> {}, uses |-> {}, closure |-> {}, history |-> {}]

Made(id, art, by, at) == [id |-> id, art |-> art, by |-> by, at |-> at]

Bundle(receipt, key, carried) ==
  [Plain("import_bundle", key, [id |-> receipt, art |-> NoArtifact])
     EXCEPT !.carried = carried, !.uses = Owned(carried), !.closure = Owned(carried) \cap Blobs]

MCBody ==
  [r \in Requests |->
     CASE r = create -> Plain("create_artifact", k1, [id |-> a1, art |-> a1])
       [] r = fetch  -> Bundle(i1, k3, {Made(a1, a1, fetch, 1)})
       [] r = usurp  -> Bundle(i2, k3, {Made(a1, a1, fetch, 1), Made(a2, a2, usurp, 1),
                                        Made(v2, a2, usurp, 1),
                                        Made(b1, NoArtifact, usurp, Untimed)})
       [] r = again  -> [Plain("append_version", k2, [id |-> v1, art |-> a1])
                          EXCEPT !.needs = {a1}, !.uses = {a1, b1}, !.closure = {b1}]
       [] r = import -> [Bundle(i1, k3, {Made(a1, a1, create, 2)})
                          EXCEPT !.history = {[req |-> create, at |-> 2]}]]

HandleSymmetry == Permutations(Handles)
=============================================================================
