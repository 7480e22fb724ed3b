------------------------- MODULE MCServerLifecycle -------------------------
(* A small instance of ServerLifecycle for TLC. *)
EXTENDS ServerLifecycle, TLC

\* The shape of configs/config.yaml: development, in memory, an inline seed.
Sample ==
  [mode |-> "development", active |-> "2026-01", supported |-> <<"2026-01", "2025-12">>,
   secret |-> "super-secret-token", issuer |-> "", audience |-> "",
   redis |-> "cache:6379", memory |-> TRUE, demo |-> TRUE,
   expiration |-> 0, clients |-> 0, seed |-> "inline seed", source |-> ""]

\* No file, the sample, and one for a rotation whose list lacks the epoch.
Files ==
  {[Sample EXCEPT !.mode = "", !.active = "", !.supported = <<>>, !.secret = "",
                  !.redis = "", !.memory = FALSE, !.demo = FALSE, !.seed = ""],
   Sample,
   [Sample EXCEPT !.active = "2026-02", !.memory = FALSE]}

Production ==
  [mode |-> "production", secret |-> "long", issuer |-> "vault", audience |-> "api",
   memory |-> FALSE, demo |-> FALSE, redis |-> "cache:6379", expiration |-> 1,
   clients |-> 1, active |-> "2026-01", seed |-> "env seed"]

Environments ==
  {<<>>, Production,
   [seedFile |-> "file seed", supported |-> <<"2026-02", "2026-01">>, expiration |-> Junk]}

EnvFiles ==
  {<<>>,
   [active |-> "2026-02", supported |-> <<"2026-01", "2026-02">>, memory |-> FALSE],
   [mode |-> "production", redis |-> "other:6379"]}

\* The two places are alike.
PlacesAlike == Permutations(Server)
=============================================================================
