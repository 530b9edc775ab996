------------------------------ MODULE MCShapes ------------------------------
(* Small instances of the shapes for TLC: only the name 2 is given         *)
(* functions, so that a method remembered for the wrong object shows.      *)
EXTENDS Shapes, TLC
StoredMixed == ({1} \X Data) \cup ({2} \X (Data \cup Functions))

(* What is left in freed memory matters to nobody, and all addresses but   *)
(* the root's are alike.                                                   *)
Seen == <<[a \in held |-> maps[a]], objects, pool, caches, literal, written, dangling, misled>>
Addresses == Permutations(Address \ {RootMap})
=============================================================================
