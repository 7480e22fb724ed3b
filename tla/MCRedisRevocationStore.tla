----------------------- MODULE MCRedisRevocationStore -----------------------
(* A small instance of RedisRevocationStore for TLC. *)
EXTENDS RedisRevocationStore, TLC

\* The two writers are alike: no property tells them apart.
WritersAlike == Permutations(Writer)
=============================================================================
