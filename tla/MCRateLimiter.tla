---------------------------- MODULE MCRateLimiter ----------------------------
(***************************************************************************)
(* RateLimiter for TLC.  Neither the limiter nor its properties tell one   *)
(* address from another, and no property is a liveness property, so states *)
(* that differ by a permutation of the addresses are checked once.         *)
(***************************************************************************)
EXTENDS RateLimiter, TLC

Symmetry == Permutations(Address)
=============================================================================
