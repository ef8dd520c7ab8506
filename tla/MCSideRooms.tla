----------------------------- MODULE MCSideRooms -----------------------------
(* SideRooms on a small instance.                                            *)
EXTENDS SideRooms, TLC

CONSTANTS t1, t2, r1, r2, r3, q1

Symmetry == Permutations({t1, t2}) \cup Permutations({r1, r2, r3})
==============================================================================
