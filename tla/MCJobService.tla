---------------------------- MODULE MCJobService ----------------------------
(* Small instances of JobService for TLC. *)
EXTENDS JobService, TLC

\* Jobs, elements and requests are interchangeable: no definition names one.
Symmetry == Permutations(Jobs) \cup Permutations(Elements) \cup Permutations(Requests)
=============================================================================
