--------------------------- MODULE MCControlPlane ---------------------------
(* ControlPlane on a small instance: two browsers, three rooms of which     *)
(* one is entered, and a table for two.                                    *)
EXTENDS ControlPlane, TLC

CONSTANTS b1, b2, r1, r2, r3, staff

MCSubs == {staff}
Symmetry == Permutations({b1, b2}) \cup Permutations({r2, r3})
=============================================================================
