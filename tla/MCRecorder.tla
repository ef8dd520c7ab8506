----------------------------- MODULE MCRecorder -----------------------------
(* Recorder on a small instance: two rooms, three concurrent requests and   *)
(* three egresses, so that one room can be recorded twice and once more.    *)
EXTENDS Recorder, TLC

CONSTANTS r1, r2, q1, q2, q3, e1, e2, e3

Symmetry ==
    Permutations({r1, r2}) \cup Permutations({q1, q2, q3}) \cup Permutations({e1, e2, e3})
=============================================================================
