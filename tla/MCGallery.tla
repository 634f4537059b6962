------------------------------ MODULE MCGallery -----------------------------
(* Instances of Gallery for TLC. *)
EXTENDS Gallery

CONSTANTS p1, p2, e1, r1, blank, t1

AllInFirst == [e \in Elements |-> p1]
=============================================================================
