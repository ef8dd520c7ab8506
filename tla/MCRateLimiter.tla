--------------------------- MODULE MCRateLimiter ---------------------------
(* RateLimiter on a small instance.                                         *)
EXTENDS RateLimiter, TLC

CONSTANTS k1, k2, p1, p2

Symmetry == Permutations({k1, k2}) \cup Permutations({p1, p2})
=============================================================================
