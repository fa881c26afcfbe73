--------------------------- MODULE MCRateLimiter ----------------------------
(* A small instance of RateLimiter for TLC. *)
EXTENDS RateLimiter, TLC

CONSTANTS k1, k2

KeySymmetry == Permutations({k1, k2})
=============================================================================
