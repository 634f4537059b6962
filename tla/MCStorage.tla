----------------------------- MODULE MCStorage ------------------------------
(* A small store: two directories, one inside the other, and three objects. *)
EXTENDS Storage, TLC

CONSTANTS top, sub, k1, k2, k3

TreeUp == [d \in {top, sub} |-> IF d = top THEN Base ELSE top]
TreeDirOf == [k \in {k1, k2, k3} |-> IF k = k3 THEN top ELSE sub]

\* Calls are interchangeable, and so are the two objects of the inner directory.
Symmetry == Permutations(Threads) \cup Permutations({k1, k2})
=============================================================================
