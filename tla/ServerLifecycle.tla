-------------------------- MODULE ServerLifecycle --------------------------
(***************************************************************************)
(* What a server runs with, and what that means over its life: run in      *)
(* cmd/server/main.go reads an env file, the YAML file and the environment *)
(* into a Config, loads the master seed, validates (service/config.go) and *)
(* builds the server on the stores the Config names (api.NewServer).  The  *)
(* server then issues under its active epoch and redeems under the epochs  *)
(* it supports.  Servers are stopped, killed and started again with other  *)
(* settings, side by side and over the same Redis, as in the rotation of   *)
(* an epoch.                                                               *)
(*                                                                         *)
(* Redis and the file system are outside the repository.  Left out are the *)
(* settings that are only passed on: the listen address, DST, passwords,   *)
(* the limiter's rate and burst, and the address of the revocation store,  *)
(* which other modules are about.  A start that fails changes nothing.     *)
(***************************************************************************)
EXTENDS Integers, Sequences

CONSTANTS Server,           \* places where a server process runs
          Credential,       \* credentials that users have blinded
          Epoch,            \* strings of the form YYYY-MM
          Seed,             \* hex strings of 32 bytes
          Address,          \* of a Redis, its database included
          Environment,      \* the environments a process may find
          EnvFile,          \* the contents of --env-file, or none
          YAML,             \* the contents of the configuration file
          Junk,             \* a value that Atoi or ParseBool refuses
          None,
          DefaultExpiration, DefaultClients,
          MaxRuns, MaxAccepts, MaxClock  \* bounds

ASSUME DefaultsAssumption ==
  /\ DefaultExpiration \in Nat \ {0} /\ DefaultClients \in Nat \ {0}
  /\ "" \notin Epoch \cup Seed \cup Address
ASSUME BoundsAssumption == MaxRuns \in Nat /\ MaxAccepts \in Nat /\ MaxClock \in Nat

\* The settings that ApplyEnvOverrides takes from the environment.
Overridable == {"mode", "active", "supported", "secret", "issuer", "audience", "redis",
                "memory", "demo", "expiration", "clients"}

\* What is set is of the setting's type in Go, or does not parse.
Typed(settings) ==
  \A f \in DOMAIN settings : settings[f] # Junk =>
    /\ f = "supported" => settings[f] \in Seq(STRING)
    /\ f = "redis" => settings[f] \in Address \cup {""}
    /\ f \in {"memory", "demo"} => settings[f] \in BOOLEAN
    /\ f \in {"expiration", "clients"} => settings[f] \in Int

ASSUME SettingsAssumption ==
  /\ \A yaml \in YAML : /\ DOMAIN yaml = Overridable \cup {"seed", "source"}
                        /\ Typed(yaml) /\ \A f \in DOMAIN yaml : yaml[f] # Junk
  /\ \A env \in Environment \cup EnvFile : Typed(env)

VARIABLES cfg,      \* the Config of each server, None where none runs
          run,      \* how often a server has run at each place
          memory,   \* its in-memory nullifiers
          redis,    \* address -> nullifier -> when it runs out
          issued,   \* credential -> epoch, seed, and the run that issued it
          accepts,  \* history: credential -> where and when it was accepted
          clock

vars == <<cfg, run, memory, redis, issued, accepts, clock>>

Nothing == [x \in {} |-> None]

Init ==
  /\ cfg = [s \in Server |-> None]
  /\ run = [s \in Server |-> 0]
  /\ memory = [s \in Server |-> {}]
  /\ redis = [a \in Address |-> Nothing]
  /\ issued = Nothing
  /\ accepts = [c \in Credential |-> <<>>]
  /\ clock = 0

-----------------------------------------------------------------------------
(* The Config.                                                             *)

Over(upper, lower) ==
  [n \in DOMAIN upper \cup DOMAIN lower |->
     IF n \in DOMAIN upper THEN upper[n] ELSE lower[n]]

\* loadEnvFile: godotenv.Overload or godotenv.Load.
loadEnvFile(env, file, override) == IF override THEN Over(file, env) ELSE Over(env, file)

\* A variable that is set; one that does not parse is passed over.
ApplyEnvOverrides(c, env) ==
  [f \in DOMAIN c |->
     IF f \in Overridable \cap DOMAIN env /\ env[f] # Junk THEN env[f] ELSE c[f]]

\* Mutant: the environment names the source, and the seed of the YAML file is
\* taken all the same.
LoadInlineFirst(c, env) ==
  [seed |-> IF c.seed # "" THEN c.seed ELSE IF "seed" \in DOMAIN env THEN env.seed ELSE "",
   source |-> IF DOMAIN env \cap {"seed", "seedFile"} = {} THEN "inline" ELSE "env"]

\* BLINDVAULT_MASTER_SEED_HEX, then BLINDVAULT_SEED_FILE, then the YAML file.
LoadMasterSeed(c, env) ==
  IF "seed" \in DOMAIN env THEN [seed |-> env.seed, source |-> "env"]
  ELSE IF "seedFile" \in DOMAIN env THEN [seed |-> env.seedFile, source |-> "file"]
  ELSE [seed |-> c.seed, source |-> "inline"]

Supported(c) == {c.supported[i] : i \in DOMAIN c.supported}

\* Mutant: applyDevDefaults is not called.
FillInEpochs(c) ==
  [c EXCEPT !.supported = IF @ = <<>> /\ c.active # "" THEN <<c.active>> ELSE @]

\* What Validate fills in: the epoch list, and in development and test the
\* defaults of applyDevDefaults.
FillIn(c) ==
  LET dev == c.mode \in {"development", "test"} IN
  [c EXCEPT !.supported = IF @ = <<>> /\ c.active # "" THEN <<c.active>> ELSE @,
            !.expiration = IF dev /\ @ <= 0 THEN DefaultExpiration ELSE @,
            !.clients = IF dev /\ @ <= 0 THEN DefaultClients ELSE @]

validateNonProduction(c) ==
  /\ c.secret # ""
  /\ c.redis # "" \/ c.memory

validateProduction(c) ==
  /\ c.source # "inline" /\ ~ c.memory /\ ~ c.demo
  /\ c.secret = "long"
  /\ c.issuer # "" /\ c.audience # ""
  /\ c.redis # ""
  /\ c.clients > 0 /\ c.expiration > 0

\* Mutant: the active epoch need not be listed.
ValidateEpochsApart(c) ==
  /\ c.mode \in {"development", "test", "production"}
  /\ c.seed \in Seed /\ c.active \in Epoch
  /\ IF c.mode = "production" THEN validateProduction(c) ELSE validateNonProduction(c)
  /\ Supported(c) \subseteq Epoch
  /\ \A i, j \in DOMAIN c.supported : c.supported[i] = c.supported[j] => i = j

\* Validate; a seed that is not one has already ended LoadMasterSeed.
Validate(c) ==
  /\ c.mode \in {"development", "test", "production"}
  /\ c.seed \in Seed /\ c.active \in Epoch
  /\ IF c.mode = "production" THEN validateProduction(c) ELSE validateNonProduction(c)
  /\ Supported(c) \subseteq Epoch
  /\ \A i, j \in DOMAIN c.supported : c.supported[i] = c.supported[j] => i = j
  /\ c.active \in Supported(c)

\* run up to the validation.
Configured(yaml, env) ==
  LET c == ApplyEnvOverrides(yaml, env)
      seeded == LoadMasterSeed(c, env)
  IN FillIn([c EXCEPT !.seed = seeded.seed, !.source = seeded.source])

-----------------------------------------------------------------------------
(* The server's life.                                                      *)

\* NewServer and Start, if Redis answers: a memory store is empty.
Serve(s, yaml, env) ==
  LET c == Configured(yaml, env) IN
  /\ cfg[s] = None /\ run[s] < MaxRuns
  /\ Validate(c)
  /\ cfg' = [cfg EXCEPT ![s] = c]
  /\ run' = [run EXCEPT ![s] = @ + 1]
  /\ memory' = [memory EXCEPT ![s] = {}]
  /\ UNCHANGED <<redis, issued, accepts, clock>>

\* A signal, a crash, or ListenAndServe fails.
Stop(s) ==
  /\ cfg[s] # None
  /\ cfg' = [cfg EXCEPT ![s] = None]
  /\ UNCHANGED <<run, memory, redis, issued, accepts, clock>>

Issue(s, c) ==
  /\ cfg[s] # None
  /\ c \notin DOMAIN issued
  /\ issued' = Over([x \in {c} |-> [epoch |-> cfg[s].active, seed |-> cfg[s].seed,
                                     by |-> s, run |-> run[s]]], issued)
  /\ UNCHANGED <<cfg, run, memory, redis, accepts, clock>>

\* The store that NewServer has given the server, told apart by the run if it
\* is in memory.
StoreOf(s) ==
  IF cfg[s].memory THEN [kind |-> "memory", at |-> s, run |-> run[s]]
  ELSE [kind |-> "redis", at |-> cfg[s].redis, run |-> 0]

Stored(s, nullifier) ==
  IF cfg[s].memory THEN nullifier \in memory[s]
  ELSE /\ nullifier \in DOMAIN redis[cfg[s].redis]
       /\ clock < redis[cfg[s].redis][nullifier]

\* IsEpochSupported, and VerifyPoint with the key of that epoch and seed.
Redeemable(s, c) ==
  issued[c].epoch \in Supported(cfg[s]) /\ issued[c].seed = cfg[s].seed

\* Mutant: the nullifier is that of the active epoch.
ComputeNullifierActive(s, c) == <<cfg[s].active, c>>

ComputeNullifier(s, c) == <<issued[c].epoch, c>>

\* CheckAndStore on a nullifier that is new.
Store(s, nullifier) ==
  IF cfg[s].memory
    THEN memory' = [memory EXCEPT ![s] = @ \cup {nullifier}] /\ UNCHANGED redis
    ELSE /\ redis' = [redis EXCEPT ![cfg[s].redis] =
              Over([x \in {nullifier} |-> clock + cfg[s].expiration], @)]
         /\ UNCHANGED memory

\* Consume, as far as it accepts: what it refuses changes nothing.
Consume(s, c) ==
  LET nullifier == ComputeNullifier(s, c) IN
  /\ cfg[s] # None
  /\ c \in DOMAIN issued
  /\ Redeemable(s, c)
  /\ ~ Stored(s, nullifier)
  /\ Len(accepts[c]) < MaxAccepts
  /\ Store(s, nullifier)
  /\ accepts' = [accepts EXCEPT ![c] = Append(@,
       [store |-> StoreOf(s), at |-> clock, until |-> clock + cfg[s].expiration])]
  /\ UNCHANGED <<cfg, run, issued, clock>>

Tick ==
  /\ clock < MaxClock
  /\ clock' = clock + 1
  /\ UNCHANGED <<cfg, run, memory, redis, issued, accepts>>

Next ==
  \/ \E s \in Server :
       \/ \E yaml \in YAML, env \in Environment, file \in EnvFile, override \in BOOLEAN :
            Serve(s, yaml, loadEnvFile(env, file, override))
       \/ Stop(s)
       \/ \E c \in Credential : Issue(s, c) \/ Consume(s, c)
  \/ Tick

Spec == Init /\ [][Next]_vars

-----------------------------------------------------------------------------
(* Properties.                                                             *)

\* A Config that a server may run with.
ConfigOK(c) ==
  /\ c.mode \in {"development", "test", "production"}
  /\ c.active \in Epoch /\ c.supported \in Seq(Epoch)
  /\ c.memory \in BOOLEAN /\ c.demo \in BOOLEAN /\ (~ c.memory => c.redis \in Address)
  /\ c.expiration \in Nat \ {0} /\ c.clients \in Nat \ {0}
  /\ c.seed \in Seed /\ c.source \in {"env", "file", "inline"}

StoreName == [kind : {"memory"}, at : Server, run : 1..MaxRuns]
            \cup [kind : {"redis"}, at : Address, run : {0}]

Nullifier == Epoch \X Credential

\* The type invariant.
TypeOK ==
  /\ DOMAIN cfg = Server /\ \A s \in Server : cfg[s] # None => ConfigOK(cfg[s])
  /\ run \in [Server -> 0..MaxRuns]
  /\ memory \in [Server -> SUBSET Nullifier]
  /\ DOMAIN redis = Address
  /\ \A a \in Address : DOMAIN redis[a] \subseteq Nullifier
       /\ \A n \in DOMAIN redis[a] : redis[a][n] \in Nat
  /\ DOMAIN issued \subseteq Credential
  /\ \A c \in DOMAIN issued :
       issued[c] \in [epoch : Epoch, seed : Seed, by : Server, run : 1..MaxRuns]
  /\ accepts \in [Credential -> Seq([store : StoreName, at : Nat, until : Nat])]
  /\ clock \in 0..MaxClock

\* A server that runs in production has its seed from the environment or a
\* file of its own, keeps its nullifiers in Redis and has no demo routes,
\* whatever the YAML file holds and the env file adds (README, "Development
\* vs production").
ProductionPolicy ==
  \A s \in Server : cfg[s] # None /\ cfg[s].mode = "production" =>
    /\ \E env \in Environment \cup EnvFile, name \in {"seed", "seedFile"} :
         name \in DOMAIN env /\ cfg[s].seed = env[name]
    /\ StoreOf(s).kind = "redis" /\ ~ cfg[s].demo

\* What a server issues it redeems as long as it runs: the epoch it issues
\* under is one that it supports, and the key is the same (Issue, Consume).
IssuedRedeemable ==
  \A c \in DOMAIN issued :
    LET s == issued[c].by IN
    cfg[s] # None /\ run[s] = issued[c].run => Redeemable(s, c)

\* Whatever the servers were restarted with, one store accepts a credential a
\* second time only when the nullifier it kept has run out, and a memory store
\* never (CheckAndStore, ComputeNullifier, NewServer).
AcceptedOncePerStore ==
  \A c \in Credential : \A i, j \in DOMAIN accepts[c] :
    i < j /\ accepts[c][i].store = accepts[c][j].store =>
      accepts[c][i].store.kind = "redis" /\ accepts[c][j].at >= accepts[c][i].until
=============================================================================
