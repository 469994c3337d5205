---------------------------- MODULE InitializeMC ----------------------------
(* Small instances of Initialize. *)
EXTENDS Initialize, TLC

CONSTANTS c1, c2, c3, o1

Symmetry == Permutations(Creators)
=============================================================================
