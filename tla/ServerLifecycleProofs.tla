------------------------ MODULE ServerLifecycleProofs ------------------------
(***************************************************************************)
(* Theorems about ServerLifecycle, for any configuration files and         *)
(* environments, any number of servers and any restarts: what runs in      *)
(* production, what a server issues it redeems, no store accepts a         *)
(* credential twice while it keeps its nullifier, and servers over one     *)
(* Redis not at all.                                                       *)
(*                                                                         *)
(* A start replaces the server at a place and counts its runs up, so what  *)
(* is said of a memory store is said of the run that it belongs to.        *)
(***************************************************************************)
EXTENDS ServerLifecycle, SequenceTheorems, TLAPS

\* An issued credential is that of a run which is not to come, and of the
\* server that runs if it is that run.
IssuedBy ==
  \A c \in DOMAIN issued : LET s == issued[c].by IN
    issued[c].run <= run[s] /\ (cfg[s] # None /\ run[s] = issued[c].run => Redeemable(s, c))

\* A server that runs has been started, and supports its active epoch.
Active ==
  \A s \in Server : cfg[s] # None => run[s] >= 1 /\ cfg[s].active \in Supported(cfg[s])

\* What was accepted is still in the store that accepted it: in Redis with a
\* lifetime not shorter than at the time, in memory as long as the run lasts.
Kept(c, i) ==
  LET store == accepts[c][i].store
      nullifier == <<issued[c].epoch, c>>
  IN /\ store.kind = "redis" =>
          /\ nullifier \in DOMAIN redis[store.at]
          /\ accepts[c][i].until <= redis[store.at][nullifier]
     /\ store.kind = "memory" =>
          /\ store.run <= run[store.at]
          /\ store.run = run[store.at] => nullifier \in memory[store.at]

AllKept ==
  \A c \in Credential : \A i \in DOMAIN accepts[c] : c \in DOMAIN issued /\ Kept(c, i)

IInv == TypeOK /\ ProductionPolicy /\ IssuedBy /\ Active /\ AllKept /\ AcceptedOncePerStore

-----------------------------------------------------------------------------
(* The configuration.                                                      *)

\* A sequence whose elements are in a set is one over the set.
LEMMA SeqOver ==
  ASSUME NEW S, NEW T, NEW seq \in Seq(S), \A i \in DOMAIN seq : seq[i] \in T
  PROVE  seq \in Seq(T)
  <1>1. Len(seq) \in Nat /\ seq \in [1..Len(seq) -> S] /\ DOMAIN seq = 1..Len(seq)
    BY LenProperties
  <1>2. seq \in [1..Len(seq) -> T]
    BY <1>1
  <1> QED BY <1>1, <1>2

\* An env file brings no value of another type.
LEMMA OverTyped ==
  ASSUME NEW upper, NEW lower, Typed(upper), Typed(lower)
  PROVE  Typed(Over(upper, lower))
  BY DEF Typed, Over

\* The environment of a process is typed.
LEMMA EnvTyped ==
  ASSUME NEW env \in Environment, NEW file \in EnvFile, NEW override \in BOOLEAN
  PROVE  Typed(loadEnvFile(env, file, override))
  <1>1. Typed(env) /\ Typed(file)
    BY SettingsAssumption
  <1> QED BY <1>1, OverTyped DEF loadEnvFile

\* The overridden settings keep their types.
LEMMA OverrideTyped ==
  ASSUME NEW yaml \in YAML, NEW env, Typed(env)
  PROVE  LET c == ApplyEnvOverrides(yaml, env)
         IN /\ DOMAIN c = Overridable \cup {"seed", "source"}
            /\ c.supported \in Seq(STRING) /\ c.redis \in Address \cup {""}
            /\ c.memory \in BOOLEAN /\ c.demo \in BOOLEAN
            /\ c.expiration \in Int /\ c.clients \in Int
  <1> DEFINE c == ApplyEnvOverrides(yaml, env)
  <1>1. DOMAIN yaml = Overridable \cup {"seed", "source"} /\ Typed(yaml)
        /\ \A f \in DOMAIN yaml : yaml[f] # Junk
    BY SettingsAssumption
  <1>2. DOMAIN c = Overridable \cup {"seed", "source"}
    BY <1>1 DEF ApplyEnvOverrides
  <1>3. ASSUME NEW f \in Overridable
        PROVE  \/ f \in DOMAIN env /\ env[f] # Junk /\ c[f] = env[f]
               \/ f \in DOMAIN yaml /\ yaml[f] # Junk /\ c[f] = yaml[f]
    BY <1>1 DEF ApplyEnvOverrides
  <1>4. {"supported", "redis", "memory", "demo", "expiration", "clients"} \subseteq Overridable
    BY DEF Overridable
  <1> HIDE DEF c
  <1>5. c.supported \in Seq(STRING)
    BY <1>1, <1>3, <1>4 DEF Typed
  <1>6. c.redis \in Address \cup {""}
    BY <1>1, <1>3, <1>4 DEF Typed
  <1>7. c.memory \in BOOLEAN
    BY <1>1, <1>3, <1>4 DEF Typed
  <1>8. c.demo \in BOOLEAN
    BY <1>1, <1>3, <1>4 DEF Typed
  <1>9. c.expiration \in Int /\ c.clients \in Int
    BY <1>1, <1>3, <1>4 DEF Typed
  <1> QED BY <1>2, <1>5, <1>6, <1>7, <1>8, <1>9 DEF c

\* applyDevDefaults leaves a positive number.
LEMMA Positive ==
  ASSUME NEW value \in Int, NEW default \in Nat \ {0}
  PROVE  (IF value <= 0 THEN default ELSE value) \in Nat \ {0}
  OBVIOUS

\* A Config that Validate accepts is one that a server may run with.
LEMMA ConfiguredOK ==
  ASSUME NEW yaml \in YAML, NEW env, Typed(env), Validate(Configured(yaml, env))
  PROVE  ConfigOK(Configured(yaml, env))
  <1> DEFINE o == ApplyEnvOverrides(yaml, env)
             seeded == LoadMasterSeed(o, env)
             d == [o EXCEPT !.seed = seeded.seed, !.source = seeded.source]
             c == FillIn(d)
  <1>1. /\ DOMAIN o = Overridable \cup {"seed", "source"}
        /\ o.supported \in Seq(STRING) /\ o.redis \in Address \cup {""}
        /\ o.memory \in BOOLEAN /\ o.demo \in BOOLEAN
        /\ o.expiration \in Int /\ o.clients \in Int
    BY OverrideTyped
  <1>2. seeded.source \in {"env", "file", "inline"}
    BY DEF LoadMasterSeed
  <1> HIDE DEF o, seeded
  <1>3. /\ DOMAIN d = Overridable \cup {"seed", "source"}
        /\ d.supported = o.supported /\ d.redis = o.redis /\ d.memory = o.memory
        /\ d.demo = o.demo /\ d.expiration = o.expiration /\ d.clients = o.clients
        /\ d.source = seeded.source
    BY <1>1 DEF Overridable
  <1> HIDE DEF d
  <1>4. /\ c.mode = d.mode /\ c.active = d.active /\ c.redis = d.redis
        /\ c.memory = d.memory /\ c.demo = d.demo /\ c.source = d.source /\ c.seed = d.seed
        /\ c.secret = d.secret /\ c.issuer = d.issuer /\ c.audience = d.audience
    BY <1>3 DEF FillIn, Overridable
  <1>5. c.supported = d.supported \/ c.supported = <<d.active>>
    BY <1>3 DEF FillIn, Overridable
  <1>6. /\ c.expiration = IF d.mode \in {"development", "test"} /\ d.expiration <= 0
                            THEN DefaultExpiration ELSE d.expiration
        /\ c.clients = IF d.mode \in {"development", "test"} /\ d.clients <= 0
                            THEN DefaultClients ELSE d.clients
    BY <1>3 DEF FillIn, Overridable
  <1>7. Configured(yaml, env) = c
    BY DEF Configured, o, seeded, d
  <1> HIDE DEF c
  <1>8. /\ c.mode \in {"development", "test", "production"}
        /\ c.seed \in Seed /\ c.active \in Epoch /\ Supported(c) \subseteq Epoch
        /\ IF c.mode = "production" THEN validateProduction(c) ELSE validateNonProduction(c)
    BY <1>7 DEF Validate
  <1>9. c.supported \in Seq(Epoch)
    <2>1. \A i \in DOMAIN c.supported : c.supported[i] \in Epoch
      BY <1>8 DEF Supported
    <2>2. CASE c.supported = d.supported
      BY <1>1, <1>3, <2>1, <2>2, SeqOver
    <2>3. CASE c.supported = <<d.active>>
      BY <1>4, <1>8, <2>3
    <2> QED BY <1>5, <2>2, <2>3
  <1>10. c.memory \in BOOLEAN /\ c.demo \in BOOLEAN /\ (~ c.memory => c.redis \in Address)
    BY <1>1, <1>3, <1>4, <1>8 DEF validateProduction, validateNonProduction
  <1>11. c.expiration \in Nat \ {0} /\ c.clients \in Nat \ {0}
    <2>1. d.expiration \in Int /\ d.clients \in Int
      BY <1>1, <1>3
    <2>2. CASE c.mode = "production"
      <3>1. c.expiration = d.expiration /\ c.clients = d.clients
        BY <1>4, <1>6, <2>2
      <3>2. c.expiration > 0 /\ c.clients > 0
        BY <1>8, <2>2 DEF validateProduction
      <3> QED BY <2>1, <3>1, <3>2
    <2>3. CASE c.mode # "production"
      <3>1. d.mode \in {"development", "test"}
        BY <1>4, <1>8, <2>3
      <3>2. c.expiration = (IF d.expiration <= 0 THEN DefaultExpiration ELSE d.expiration)
        BY <1>6, <3>1
      <3>3. c.clients = (IF d.clients <= 0 THEN DefaultClients ELSE d.clients)
        BY <1>6, <3>1
      <3>4. DefaultExpiration \in Nat \ {0} /\ DefaultClients \in Nat \ {0}
        BY DefaultsAssumption
      <3> QED BY <2>1, <3>2, <3>3, <3>4, Positive
    <2> QED BY <2>2, <2>3
  <1> QED BY <1>2, <1>3, <1>4, <1>7, <1>8, <1>9, <1>10, <1>11 DEF ConfigOK

\* In production the seed is the environment's, and no demo or memory is left.
LEMMA ConfiguredProduction ==
  ASSUME NEW yaml \in YAML, NEW env \in Environment, NEW file \in EnvFile,
         NEW override \in BOOLEAN,
         LET c == Configured(yaml, loadEnvFile(env, file, override))
         IN Validate(c) /\ c.mode = "production"
  PROVE  LET c == Configured(yaml, loadEnvFile(env, file, override))
         IN /\ \E e \in Environment \cup EnvFile, name \in {"seed", "seedFile"} :
                 name \in DOMAIN e /\ c.seed = e[name]
            /\ ~ c.memory /\ ~ c.demo
  <1> DEFINE all == loadEnvFile(env, file, override)
             o == ApplyEnvOverrides(yaml, all)
             seeded == LoadMasterSeed(o, all)
             d == [o EXCEPT !.seed = seeded.seed, !.source = seeded.source]
             c == FillIn(d)
  <1>1. Configured(yaml, all) = c
    BY DEF Configured
  <1>2. DOMAIN o = Overridable \cup {"seed", "source"}
    BY EnvTyped, OverrideTyped
  <1>3. ASSUME NEW name \in DOMAIN all
        PROVE  \E e \in Environment \cup EnvFile : name \in DOMAIN e /\ all[name] = e[name]
    BY DEF loadEnvFile, Over
  <1>4. \/ "seed" \in DOMAIN all /\ seeded.seed = all["seed"]
        \/ "seedFile" \in DOMAIN all /\ seeded.seed = all["seedFile"]
        \/ seeded.source = "inline"
    BY DEF LoadMasterSeed
  <1> HIDE DEF all, o, seeded
  <1>5. DOMAIN d = Overridable \cup {"seed", "source"}
        /\ d.seed = seeded.seed /\ d.source = seeded.source
    BY <1>2 DEF Overridable
  <1> HIDE DEF d
  <1>6. c.seed = d.seed /\ c.source = d.source
    BY <1>5 DEF FillIn, Overridable
  <1> HIDE DEF c
  <1>7. c.source # "inline" /\ ~ c.memory /\ ~ c.demo
    BY <1>1 DEF Validate, validateProduction, all
  <1>8. \E e \in Environment \cup EnvFile, name \in {"seed", "seedFile"} :
          name \in DOMAIN e /\ c.seed = e[name]
    BY <1>3, <1>4, <1>5, <1>6, <1>7
  <1> QED BY <1>1, <1>7, <1>8 DEF all

-----------------------------------------------------------------------------
(* The steps.                                                              *)

\* Nothing runs at the start.
LEMMA InitInv == Init => IInv
  <1> SUFFICES ASSUME Init PROVE IInv
    OBVIOUS
  <1>1. DOMAIN Nothing = {}
    BY DEF Nothing
  <1>2. TypeOK
    BY <1>1, BoundsAssumption DEF Init, TypeOK
  <1>3. ProductionPolicy /\ Active
    BY DEF Init, ProductionPolicy, Active
  <1>4. IssuedBy
    BY <1>1 DEF Init, IssuedBy
  <1>5. AllKept /\ AcceptedOncePerStore
    BY DEF Init, AllKept, AcceptedOncePerStore
  <1> QED BY <1>2, <1>3, <1>4, <1>5 DEF IInv

\* What a step that leaves the stores and their history alone keeps, if no
\* run is taken back.
LEMMA StoresUntouched ==
  ASSUME IInv, UNCHANGED <<redis, issued, accepts>>, run' \in [Server -> Nat],
         \A s \in Server : run[s] <= run'[s]
            /\ (run'[s] = run[s] => memory[s] \subseteq memory'[s])
  PROVE  (AllKept /\ AcceptedOncePerStore)'
  <1>1. AcceptedOncePerStore'
    BY DEF IInv, AcceptedOncePerStore
  <1>2. ASSUME NEW c \in Credential, NEW i \in DOMAIN accepts'[c]
        PROVE  (c \in DOMAIN issued /\ Kept(c, i))'
    <2> DEFINE store == accepts[c][i].store
    <2>1. c \in DOMAIN issued /\ Kept(c, i) /\ i \in DOMAIN accepts[c]
      BY <1>2 DEF IInv, AllKept
    <2>2. store \in StoreName
      <3>1. accepts[c] \in Seq([store : StoreName, at : Nat, until : Nat])
        BY DEF IInv, TypeOK
      <3>2. accepts[c][i] \in [store : StoreName, at : Nat, until : Nat]
        BY <2>1, <3>1, ElementOfSeq, LenProperties
      <3> QED BY <3>2
    <2> HIDE DEF store
    <2>3. CASE store.kind = "memory"
      <3>1. store.at \in Server /\ store.run \in Nat
        BY <2>2, <2>3, BoundsAssumption DEF StoreName
      <3>2. run[store.at] \in Nat /\ run'[store.at] \in Nat
        BY <3>1 DEF IInv, TypeOK
      <3>3. store.run <= run[store.at]
            /\ (store.run = run[store.at] => <<issued[c].epoch, c>> \in memory[store.at])
        BY <2>1, <2>3 DEF Kept, store
      <3>4. run[store.at] <= run'[store.at]
            /\ (run'[store.at] = run[store.at] => memory[store.at] \subseteq memory'[store.at])
        BY <3>1
      <3>5. store.run <= run'[store.at]
            /\ (store.run = run'[store.at] => run'[store.at] = run[store.at])
        BY <3>1, <3>2, <3>3, <3>4
      <3>6. store.run = run'[store.at] => <<issued[c].epoch, c>> \in memory'[store.at]
        BY <3>3, <3>4, <3>5
      <3> QED BY <2>1, <2>3, <3>5, <3>6 DEF Kept, store
    <2>4. CASE store.kind = "redis"
      BY <2>1, <2>4 DEF Kept, store
    <2>5. store.kind \in {"memory", "redis"}
      BY <2>2 DEF StoreName
    <2> QED BY <2>1, <2>3, <2>4, <2>5
  <1> QED BY <1>1, <1>2 DEF AllKept

\* A start counts the runs up, and what it runs with was validated.
LEMMA ServeStep ==
  ASSUME IInv, NEW s \in Server, NEW yaml \in YAML, NEW env \in Environment,
         NEW file \in EnvFile, NEW override \in BOOLEAN,
         Serve(s, yaml, loadEnvFile(env, file, override))
  PROVE  IInv'
  <1> DEFINE c == Configured(yaml, loadEnvFile(env, file, override))
  <1>1. /\ cfg[s] = None /\ run[s] < MaxRuns /\ Validate(c)
        /\ cfg' = [cfg EXCEPT ![s] = c] /\ run' = [run EXCEPT ![s] = @ + 1]
        /\ memory' = [memory EXCEPT ![s] = {}]
        /\ UNCHANGED <<redis, issued, accepts, clock>>
    BY DEF Serve
  <1>2. ConfigOK(c)
    BY <1>1, EnvTyped, ConfiguredOK
  <1>3. c.mode = "production" =>
          /\ \E e \in Environment \cup EnvFile, name \in {"seed", "seedFile"} :
               name \in DOMAIN e /\ c.seed = e[name]
          /\ ~ c.memory /\ ~ c.demo
    BY <1>1, ConfiguredProduction
  <1>4. c.active \in Supported(c)
    BY <1>1 DEF Validate
  <1> HIDE DEF c
  <1>5. run \in [Server -> 0..MaxRuns] /\ DOMAIN cfg = Server
        /\ memory \in [Server -> SUBSET Nullifier]
    BY DEF IInv, TypeOK
  <1>6. run' \in [Server -> 0..MaxRuns]
    BY <1>1, <1>5, BoundsAssumption
  <1>7. TypeOK'
    <2>1. DOMAIN cfg' = Server /\ \A t \in Server : cfg'[t] # None => ConfigOK(cfg'[t])
      BY <1>1, <1>2, <1>5 DEF IInv, TypeOK
    <2>2. memory' \in [Server -> SUBSET Nullifier]
      BY <1>1, <1>5
    <2>3. /\ DOMAIN redis' = Address
          /\ \A a \in Address : DOMAIN redis'[a] \subseteq Nullifier
               /\ \A n \in DOMAIN redis'[a] : redis'[a][n] \in Nat
      BY <1>1 DEF IInv, TypeOK
    <2>4. /\ DOMAIN issued' \subseteq Credential
          /\ \A x \in DOMAIN issued' :
               issued'[x] \in [epoch : Epoch, seed : Seed, by : Server, run : 1..MaxRuns]
      BY <1>1 DEF IInv, TypeOK
    <2>5. accepts' \in [Credential -> Seq([store : StoreName, at : Nat, until : Nat])]
          /\ clock' \in 0..MaxClock
      BY <1>1 DEF IInv, TypeOK
    <2> QED BY <1>6, <2>1, <2>2, <2>3, <2>4, <2>5 DEF TypeOK
  <1>8. ProductionPolicy'
    <2> SUFFICES ASSUME NEW t \in Server, cfg'[t] # None, cfg'[t].mode = "production"
                 PROVE  /\ \E e \in Environment \cup EnvFile, name \in {"seed", "seedFile"} :
                             name \in DOMAIN e /\ cfg'[t].seed = e[name]
                        /\ StoreOf(t)'.kind = "redis" /\ ~ cfg'[t].demo
      BY DEF ProductionPolicy
    <2>1. CASE t = s
      BY <1>1, <1>3, <1>5, <2>1 DEF StoreOf
    <2>2. CASE t # s
      BY <1>1, <1>5, <2>2 DEF IInv, ProductionPolicy, StoreOf
    <2> QED BY <2>1, <2>2
  <1>9. Active'
    <2>1. ASSUME NEW t \in Server, cfg'[t] # None
          PROVE  run'[t] >= 1 /\ cfg'[t].active \in Supported(cfg'[t])
      <3>1. CASE t = s
        BY <1>1, <1>4, <1>5, <3>1
      <3>2. CASE t # s
        BY <1>1, <1>5, <2>1, <3>2 DEF IInv, Active
      <3> QED BY <3>1, <3>2
    <2> QED BY <2>1 DEF Active
  <1>10. IssuedBy'
    <2>1. ASSUME NEW x \in DOMAIN issued, NEW t, t = issued[x].by
          PROVE  /\ issued[x].run <= run'[t]
                 /\ cfg'[t] # None /\ run'[t] = issued[x].run =>
                      /\ issued[x].epoch \in Supported(cfg'[t])
                      /\ issued[x].seed = cfg'[t].seed
      <3>1. /\ issued[x].run <= run[t]
            /\ cfg[t] # None /\ run[t] = issued[x].run => Redeemable(t, x)
        BY <2>1 DEF IInv, IssuedBy
      <3>2. t \in Server /\ issued[x].run \in Nat /\ run[t] \in Nat
        BY <1>5, <2>1, BoundsAssumption DEF IInv, TypeOK
      <3>3. CASE t = s
        <4>1. run'[t] = run[t] + 1
          BY <1>1, <1>5, <3>2, <3>3
        <4> QED BY <3>1, <3>2, <4>1
      <3>4. CASE t # s
        <4>1. run'[t] = run[t] /\ cfg'[t] = cfg[t]
          BY <1>1, <1>5, <3>2, <3>4
        <4> QED BY <3>1, <4>1 DEF Redeemable
      <3> QED BY <3>3, <3>4
    <2> QED BY <1>1, <2>1 DEF IssuedBy, Redeemable
  <1>11. (AllKept /\ AcceptedOncePerStore)'
    <2>1. \A t \in Server : run[t] <= run'[t]
            /\ (run'[t] = run[t] => memory[t] \subseteq memory'[t])
      BY <1>1, <1>5
    <2>2. run' \in [Server -> Nat]
      BY <1>6
    <2> QED BY <1>1, <2>1, <2>2, StoresUntouched
  <1> QED BY <1>7, <1>8, <1>9, <1>10, <1>11 DEF IInv

\* A server that ends takes nothing back.
LEMMA StopStep ==
  ASSUME IInv, NEW s \in Server, Stop(s)
  PROVE  IInv'
  <1>1. /\ cfg' = [cfg EXCEPT ![s] = None]
        /\ UNCHANGED <<run, memory, redis, issued, accepts, clock>>
    BY DEF Stop
  <1>2. DOMAIN cfg = Server /\ run \in [Server -> Nat]
    BY DEF IInv, TypeOK
  <1>3. TypeOK'
    BY <1>1 DEF IInv, TypeOK
  <1>4. ProductionPolicy' /\ Active'
    BY <1>1, <1>2 DEF IInv, ProductionPolicy, Active, StoreOf
  <1>5. IssuedBy'
    BY <1>1, <1>2 DEF IInv, IssuedBy, Redeemable, TypeOK
  <1>6. (AllKept /\ AcceptedOncePerStore)'
    BY <1>1, <1>2, StoresUntouched
  <1> QED BY <1>3, <1>4, <1>5, <1>6 DEF IInv

\* Time passing.
LEMMA TickStep ==
  ASSUME IInv, Tick
  PROVE  IInv'
  <1>1. clock < MaxClock /\ clock' = clock + 1
        /\ UNCHANGED <<cfg, run, memory, redis, issued, accepts>>
    BY DEF Tick
  <1>2. clock' \in 0..MaxClock
    BY <1>1, BoundsAssumption DEF IInv, TypeOK
  <1>3. TypeOK'
    BY <1>1, <1>2 DEF IInv, TypeOK
  <1>4. ProductionPolicy' /\ Active' /\ IssuedBy'
    BY <1>1 DEF IInv, ProductionPolicy, Active, StoreOf, IssuedBy, Redeemable
  <1>5. run \in [Server -> Nat]
    BY DEF IInv, TypeOK
  <1>6. (AllKept /\ AcceptedOncePerStore)'
    BY <1>1, <1>5, StoresUntouched
  <1> QED BY <1>3, <1>4, <1>6 DEF IInv


\* What is issued is new, and redeemable by the server that issued it.
LEMMA IssueStep ==
  ASSUME IInv, NEW s \in Server, NEW c \in Credential, Issue(s, c)
  PROVE  IInv'
  <1> DEFINE entry == [epoch |-> cfg[s].active, seed |-> cfg[s].seed, by |-> s,
                       run |-> run[s]]
  <1>1. /\ cfg[s] # None /\ c \notin DOMAIN issued
        /\ issued' = Over([x \in {c} |-> entry], issued)
        /\ UNCHANGED <<cfg, run, memory, redis, accepts, clock>>
    BY DEF Issue
  <1>2. entry \in [epoch : Epoch, seed : Seed, by : Server, run : 1..MaxRuns]
    <2>1. ConfigOK(cfg[s]) /\ run[s] \in 0..MaxRuns /\ run[s] >= 1
      BY <1>1 DEF IInv, TypeOK, Active
    <2>2. run[s] \in 1..MaxRuns
      BY <2>1, BoundsAssumption
    <2> QED BY <2>1, <2>2 DEF ConfigOK
  <1>3. entry.epoch \in Supported(cfg[s]) /\ entry.seed = cfg[s].seed
        /\ entry.by = s /\ entry.run = run[s]
    BY <1>1 DEF IInv, Active
  <1> HIDE DEF entry
  <1>4. /\ DOMAIN issued' = DOMAIN issued \cup {c} /\ issued'[c] = entry
        /\ \A x \in DOMAIN issued : issued'[x] = issued[x]
    BY <1>1 DEF Over
  <1>5. TypeOK'
    BY <1>1, <1>2, <1>4 DEF IInv, TypeOK
  <1>6. ProductionPolicy' /\ Active' /\ AcceptedOncePerStore'
    BY <1>1 DEF IInv, ProductionPolicy, Active, AcceptedOncePerStore, StoreOf
  <1>7. IssuedBy'
    <2>1. ASSUME NEW x \in DOMAIN issued', NEW t, t = issued'[x].by
          PROVE  /\ issued'[x].run <= run[t]
                 /\ cfg[t] # None /\ run[t] = issued'[x].run =>
                      /\ issued'[x].epoch \in Supported(cfg[t])
                      /\ issued'[x].seed = cfg[t].seed
      <3>1. CASE x = c
        <4>1. t = s /\ run[s] \in Nat
          BY <1>3, <1>4, <2>1, <3>1 DEF IInv, TypeOK
        <4> QED BY <1>3, <1>4, <3>1, <4>1
      <3>2. CASE x # c
        BY <1>4, <2>1, <3>2 DEF IInv, IssuedBy, Redeemable
      <3> QED BY <3>1, <3>2
    <2> QED BY <1>1, <2>1 DEF IssuedBy, Redeemable
  <1>8. AllKept'
    <2>1. ASSUME NEW x \in Credential, NEW i \in DOMAIN accepts[x]
          PROVE  (x \in DOMAIN issued /\ Kept(x, i))'
      <3>1. x \in DOMAIN issued /\ Kept(x, i)
        BY DEF IInv, AllKept
      <3>2. x \in DOMAIN issued' /\ issued'[x] = issued[x]
        BY <1>4, <3>1
      <3> QED BY <1>1, <3>1, <3>2 DEF Kept
    <2> QED BY <1>1, <2>1 DEF AllKept
  <1> QED BY <1>5, <1>6, <1>7, <1>8 DEF IInv

\* Accepting a credential puts its nullifier into the store of the server, where
\* it was not, or had run out.
LEMMA ConsumeStep ==
  ASSUME IInv, NEW s \in Server, NEW c \in Credential, Consume(s, c)
  PROVE  IInv'
  <1> DEFINE n == <<issued[c].epoch, c>>
             until == clock + cfg[s].expiration
             at == cfg[s].redis
             accept == [store |-> StoreOf(s), at |-> clock, until |-> until]
             Accept == [store : StoreName, at : Nat, until : Nat]
  <1>1. /\ cfg[s] # None /\ c \in DOMAIN issued /\ ~ Stored(s, n) /\ Store(s, n)
        /\ accepts' = [accepts EXCEPT ![c] = Append(@, accept)]
        /\ UNCHANGED <<cfg, run, issued, clock>>
    BY DEF Consume, ComputeNullifier
  <1>2. ConfigOK(cfg[s]) /\ run[s] \in 1..MaxRuns
    <2>1. ConfigOK(cfg[s]) /\ run[s] \in 0..MaxRuns /\ run[s] >= 1
      BY <1>1 DEF IInv, TypeOK, Active
    <2> QED BY <2>1, BoundsAssumption
  <1>3. n \in Nullifier
    BY <1>1 DEF IInv, TypeOK, Nullifier
  <1>4. until \in Nat /\ clock \in Nat /\ clock <= until
    <2>1. cfg[s].expiration \in Nat /\ clock \in Nat
      BY <1>2, BoundsAssumption DEF ConfigOK, IInv, TypeOK
    <2> QED BY <2>1
  <1>5. StoreOf(s) \in StoreName
    BY <1>2 DEF ConfigOK, StoreOf, StoreName
  <1>6. accept \in Accept /\ accept.store = StoreOf(s) /\ accept.at = clock
        /\ accept.until = until
    BY <1>4, <1>5
  <1>7. accepts \in [Credential -> Seq(Accept)]
    BY DEF IInv, TypeOK
  <1> HIDE DEF accept, Accept
  <1>8. accepts'[c] = Append(accepts[c], accept)
        /\ \A x \in Credential : x # c => accepts'[x] = accepts[x]
    BY <1>1, <1>7
  <1>9. /\ Append(accepts[c], accept) \in Seq(Accept)
        /\ DOMAIN accepts[c] = 1..Len(accepts[c]) /\ Len(accepts[c]) \in Nat
        /\ DOMAIN Append(accepts[c], accept) = 1..(Len(accepts[c]) + 1)
        /\ \A i \in DOMAIN accepts[c] : Append(accepts[c], accept)[i] = accepts[c][i]
        /\ Append(accepts[c], accept)[Len(accepts[c]) + 1] = accept
    BY <1>6, <1>7, AppendProperties, LenProperties
  <1>10. accepts' \in [Credential -> Seq(Accept)]
    BY <1>1, <1>7, <1>9
  <1>11. cfg[s].memory =>
           /\ ~ n \in memory[s] /\ redis' = redis
           /\ memory' = [memory EXCEPT ![s] = @ \cup {n}]
    BY <1>1 DEF Stored, Store
  <1>12. ~ cfg[s].memory =>
           /\ at \in Address
           /\ n \in DOMAIN redis[at] => ~ clock < redis[at][n]
           /\ redis' = [redis EXCEPT ![at] = Over([x \in {n} |-> until], @)]
           /\ memory' = memory
    BY <1>1, <1>2 DEF Stored, Store, ConfigOK
  <1>13. cfg[s].memory \in BOOLEAN
    BY <1>2 DEF ConfigOK
  <1>14. DOMAIN redis = Address /\ memory \in [Server -> SUBSET Nullifier]
         /\ \A a \in Address : DOMAIN redis[a] \subseteq Nullifier
              /\ \A m \in DOMAIN redis[a] : redis[a][m] \in Nat
    BY DEF IInv, TypeOK
  <1> HIDE DEF n, until, at
  <1>15. DOMAIN redis' = Address
         /\ \A a \in Address : \A m \in DOMAIN redis[a] :
              m \in DOMAIN redis'[a] /\ redis[a][m] <= redis'[a][m]
    <2>1. CASE cfg[s].memory
      BY <1>11, <1>14, <2>1
    <2>2. CASE ~ cfg[s].memory
      <3>1. DOMAIN redis' = Address /\ redis'[at] = Over([x \in {n} |-> until], redis[at])
            /\ \A a \in Address : a # at => redis'[a] = redis[a]
        BY <1>12, <1>14, <2>2
      <3>2. /\ DOMAIN redis'[at] = DOMAIN redis[at] \cup {n} /\ redis'[at][n] = until
            /\ \A m \in DOMAIN redis[at] : m # n => redis'[at][m] = redis[at][m]
        BY <3>1 DEF Over
      <3>3. n \in DOMAIN redis[at] => redis[at][n] <= until
        BY <1>4, <1>12, <1>14, <2>2
      <3>4. \A a \in Address : \A m \in DOMAIN redis[a] : redis[a][m] \in Nat
        BY <1>14
      <3>5. \A m \in DOMAIN redis[at] : m \in DOMAIN redis'[at] /\ redis[at][m] <= redis'[at][m]
        BY <1>12, <2>2, <3>2, <3>3, <3>4
      <3> QED BY <3>1, <3>4, <3>5
    <2> QED BY <1>13, <2>1, <2>2
  <1>16. memory' \in [Server -> SUBSET Nullifier]
         /\ \A t \in Server : memory[t] \subseteq memory'[t]
    BY <1>3, <1>11, <1>12, <1>13, <1>14
  <1>17. \A a \in Address : DOMAIN redis'[a] \subseteq Nullifier
           /\ \A m \in DOMAIN redis'[a] : redis'[a][m] \in Nat
    <2>1. CASE cfg[s].memory
      BY <1>11, <1>14, <2>1
    <2>2. CASE ~ cfg[s].memory
      <3>1. redis'[at] = Over([x \in {n} |-> until], redis[at])
            /\ \A a \in Address : a # at => redis'[a] = redis[a]
        BY <1>12, <1>14, <2>2
      <3>2. /\ DOMAIN redis'[at] = DOMAIN redis[at] \cup {n} /\ redis'[at][n] = until
            /\ \A m \in DOMAIN redis[at] : m # n => redis'[at][m] = redis[at][m]
        BY <3>1 DEF Over
      <3>3. DOMAIN redis'[at] \subseteq Nullifier
            /\ \A m \in DOMAIN redis'[at] : redis'[at][m] \in Nat
        BY <1>3, <1>4, <1>12, <1>14, <2>2, <3>2
      <3> QED BY <1>14, <3>1, <3>3
    <2> QED BY <1>13, <2>1, <2>2
  <1>18. TypeOK'
    BY <1>1, <1>10, <1>15, <1>16, <1>17 DEF IInv, TypeOK, Accept
  <1>19. ProductionPolicy' /\ Active' /\ IssuedBy'
    BY <1>1 DEF IInv, ProductionPolicy, Active, StoreOf, IssuedBy, Redeemable
  <1>20. ASSUME NEW x \in Credential, NEW i \in DOMAIN accepts[x],
                accepts'[x][i] = accepts[x][i]
         PROVE  (x \in DOMAIN issued /\ Kept(x, i))'
    <2>1. x \in DOMAIN issued /\ Kept(x, i)
      BY DEF IInv, AllKept
    <2>2. accepts[x][i].store \in StoreName
      <3>1. accepts[x] \in Seq(Accept) /\ i \in 1..Len(accepts[x])
        BY <1>7, LenProperties
      <3>2. accepts[x][i] \in Accept
        BY <3>1, ElementOfSeq
      <3> QED BY <3>2 DEF Accept
    <2>3. issued' = issued /\ run' = run
      BY <1>1
    <2>4. CASE accepts[x][i].store.kind = "memory"
      BY <1>16, <1>20, <2>1, <2>2, <2>3, <2>4 DEF Kept, StoreName
    <2>5. CASE accepts[x][i].store.kind = "redis"
      <3> DEFINE a == accepts[x][i].store.at
                 m == <<issued[x].epoch, x>>
                 u == accepts[x][i].until
      <3>1. a \in Address /\ m \in DOMAIN redis[a] /\ u <= redis[a][m]
        BY <2>1, <2>2, <2>5 DEF Kept, StoreName
      <3>2. u \in Nat
        <4>1. accepts[x] \in Seq(Accept) /\ i \in 1..Len(accepts[x])
          BY <1>7, LenProperties
        <4>2. accepts[x][i] \in Accept
          BY <4>1, ElementOfSeq
        <4> QED BY <4>2 DEF Accept
      <3>3. m \in DOMAIN redis'[a] /\ redis[a][m] <= redis'[a][m]
        BY <1>15, <3>1
      <3>4. redis[a][m] \in Nat /\ redis'[a][m] \in Nat
        BY <1>14, <1>17, <3>1, <3>3
      <3>5. u <= redis'[a][m]
        BY <3>1, <3>2, <3>3, <3>4
      <3> QED BY <1>20, <2>1, <2>3, <2>5, <3>3, <3>5 DEF Kept
    <2> QED BY <2>2, <2>4, <2>5 DEF StoreName
  <1>21. accept.store.kind = "redis" =>
           /\ ~ cfg[s].memory /\ accept.store.at = at /\ at \in Address
           /\ n \in DOMAIN redis'[at] /\ redis'[at][n] = until
    <2>1. accept.store.kind = "redis" => ~ cfg[s].memory /\ accept.store.at = at
      BY <1>6 DEF StoreOf, at
    <2>2. ~ cfg[s].memory => at \in Address
            /\ redis'[at] = Over([x \in {n} |-> until], redis[at])
      BY <1>12, <1>14
    <2> QED BY <2>1, <2>2 DEF Over
  <1>22. accept.store.kind = "memory" =>
           /\ cfg[s].memory /\ accept.store.at = s /\ accept.store.run = run[s]
           /\ n \in memory'[s]
    BY <1>6, <1>11, <1>14 DEF StoreOf
  <1>23. AllKept'
    <2>1. ASSUME NEW x \in Credential, NEW i \in DOMAIN accepts'[x]
          PROVE  (x \in DOMAIN issued /\ Kept(x, i))'
      <3>1. CASE x # c \/ i # Len(accepts[c]) + 1
        <4>1. i \in DOMAIN accepts[x] /\ accepts'[x][i] = accepts[x][i]
          BY <1>8, <1>9, <2>1, <3>1
        <4> QED BY <1>20, <4>1
      <3>2. CASE x = c /\ i = Len(accepts[c]) + 1
        <4>1. accepts'[x][i] = accept /\ issued' = issued /\ run' = run
          BY <1>1, <1>8, <1>9, <3>2
        <4>2. accept.until = until /\ until \in Nat /\ run[s] \in Nat
          BY <1>2, <1>4, <1>6
        <4> QED BY <1>1, <1>21, <1>22, <3>2, <4>1, <4>2 DEF Kept, n
      <3> QED BY <3>1, <3>2
    <2> QED BY <2>1 DEF AllKept
  <1>24. AcceptedOncePerStore'
    <2> SUFFICES ASSUME NEW x \in Credential, NEW i \in DOMAIN accepts'[x],
                        NEW j \in DOMAIN accepts'[x],
                        i < j, accepts'[x][i].store = accepts'[x][j].store
                 PROVE  /\ accepts'[x][i].store.kind = "redis"
                        /\ accepts'[x][j].at >= accepts'[x][i].until
      BY DEF AcceptedOncePerStore
    <2>1. CASE x # c
      BY <1>8, <2>1 DEF IInv, AcceptedOncePerStore
    <2>2. CASE x = c /\ j # Len(accepts[c]) + 1
      <3>1. i \in DOMAIN accepts[c] /\ j \in DOMAIN accepts[c]
        BY <1>8, <1>9, <2>2
      <3>2. accepts'[x][i] = accepts[c][i] /\ accepts'[x][j] = accepts[c][j]
        BY <1>8, <1>9, <2>2, <3>1
      <3> QED BY <3>1, <3>2 DEF IInv, AcceptedOncePerStore
    <2>3. CASE x = c /\ j = Len(accepts[c]) + 1
      <3>1. i \in DOMAIN accepts[c]
        BY <1>8, <1>9, <2>3
      <3>2. accepts'[x][i] = accepts[c][i] /\ accepts'[x][j] = accept
        BY <1>8, <1>9, <2>3, <3>1
      <3>3. Kept(c, i)
        BY <3>1 DEF IInv, AllKept
      <3>4. accept.store \in StoreName
        BY <1>5, <1>6
      <3>5. CASE accept.store.kind = "memory"
        BY <1>11, <1>22, <3>2, <3>3, <3>5 DEF Kept, n
      <3>6. CASE accept.store.kind = "redis"
        <4>1. n \in DOMAIN redis[at] /\ accepts[c][i].until <= redis[at][n]
          BY <1>21, <3>2, <3>3, <3>6 DEF Kept, n
        <4>2. ~ clock < redis[at][n] /\ redis[at][n] \in Nat
          BY <1>12, <1>14, <1>21, <3>6, <4>1
        <4>3. accepts[c][i].until \in Nat
          <5>1. accepts[c] \in Seq(Accept) /\ i \in 1..Len(accepts[c])
            BY <1>7, <1>9, <3>1
          <5>2. accepts[c][i] \in Accept
            BY <5>1, ElementOfSeq
          <5> QED BY <5>2 DEF Accept
        <4>4. clock >= accepts[c][i].until
          BY <1>4, <4>1, <4>2, <4>3
        <4> QED BY <1>6, <3>2, <3>6, <4>4
      <3> QED BY <3>4, <3>5, <3>6 DEF StoreName
    <2> QED BY <2>1, <2>2, <2>3
  <1> QED BY <1>18, <1>19, <1>23, <1>24 DEF IInv

-----------------------------------------------------------------------------
(* The theorems.                                                           *)

\* The inductive invariant.
THEOREM Invariant == Spec => []IInv
  <1>1. IInv /\ [Next]_vars => IInv'
    <2> SUFFICES ASSUME IInv, [Next]_vars PROVE IInv'
      OBVIOUS
    <2>1. ASSUME NEW s \in Server, NEW yaml \in YAML, NEW env \in Environment,
                 NEW file \in EnvFile, NEW override \in BOOLEAN,
                 Serve(s, yaml, loadEnvFile(env, file, override))
          PROVE  IInv'
      BY <2>1, ServeStep
    <2>2. ASSUME NEW s \in Server, Stop(s) PROVE IInv'
      BY <2>2, StopStep
    <2>3. ASSUME NEW s \in Server, NEW c \in Credential, Issue(s, c) PROVE IInv'
      BY <2>3, IssueStep
    <2>4. ASSUME NEW s \in Server, NEW c \in Credential, Consume(s, c) PROVE IInv'
      BY <2>4, ConsumeStep
    <2>5. CASE Tick
      BY <2>5, TickStep
    <2>6. CASE UNCHANGED vars
      <3>1. TypeOK' /\ Active' /\ IssuedBy'
        BY <2>6 DEF vars, IInv, TypeOK, Active, IssuedBy, Redeemable
      <3>2. ProductionPolicy' /\ AllKept' /\ AcceptedOncePerStore'
        BY <2>6 DEF vars, IInv, ProductionPolicy, StoreOf, AllKept, Kept,
                    AcceptedOncePerStore
      <3> QED BY <3>1, <3>2 DEF IInv
    <2> QED BY <2>1, <2>2, <2>3, <2>4, <2>5, <2>6 DEF Next
  <1> QED BY <1>1, InitInv, PTL DEF Spec

\* Every variable keeps its type, and a server runs only with a Config that is
\* complete (Validate).
THEOREM TypeCorrect == Spec => []TypeOK
  <1>1. IInv => TypeOK
    BY DEF IInv
  <1> QED BY <1>1, Invariant, PTL

\* No file or environment gets a server into production with an inline seed,
\* a memory store or the demo routes (validateProduction, LoadMasterSeed).
THEOREM PolicyKept == Spec => []ProductionPolicy
  <1>1. IInv => ProductionPolicy
    BY DEF IInv
  <1> QED BY <1>1, Invariant, PTL

\* A server redeems what it has issued (Validate: the active epoch is listed).
THEOREM IssuedAreRedeemable == Spec => []IssuedRedeemable
  <1>1. IInv => IssuedRedeemable
    BY DEF IInv, IssuedBy, IssuedRedeemable
  <1> QED BY <1>1, Invariant, PTL

\* Restarts do not make a store forget: a second acceptance comes after the
\* lifetime of the nullifier (CheckAndStore, ComputeNullifier).
THEOREM StoresRemember == Spec => []AcceptedOncePerStore
  <1>1. IInv => AcceptedOncePerStore
    BY DEF IInv
  <1> QED BY <1>1, Invariant, PTL
-----------------------------------------------------------------------------
(* All servers in production, over one Redis.                              *)

\* No file and no environment sets another mode.
OnlyProduction ==
  /\ \A yaml \in YAML : yaml.mode = "production"
  /\ \A env \in Environment \cup EnvFile : "mode" \in DOMAIN env => env.mode = "production"

\* So every Config is one for production.
LEMMA OnlyProductionConfigured ==
  ASSUME OnlyProduction, NEW yaml \in YAML, NEW env \in Environment, NEW file \in EnvFile,
         NEW override \in BOOLEAN
  PROVE  Configured(yaml, loadEnvFile(env, file, override))["mode"] = "production"
  <1> DEFINE found == loadEnvFile(env, file, override)
             o == ApplyEnvOverrides(yaml, found)
             d == [o EXCEPT !.seed = LoadMasterSeed(o, found).seed,
                            !.source = LoadMasterSeed(o, found).source]
  <1>1. "mode" \in DOMAIN found => found["mode"] = "production"
    BY OnlyProduction DEF OnlyProduction, loadEnvFile, Over
  <1>2. DOMAIN yaml = Overridable \cup {"seed", "source"} /\ yaml["mode"] = "production"
    BY OnlyProduction, SettingsAssumption DEF OnlyProduction
  <1>3. "mode" \in DOMAIN o /\ o["mode"] = "production"
    BY <1>1, <1>2 DEF ApplyEnvOverrides, Overridable
  <1>4. Configured(yaml, found) = FillIn(d)
    BY DEF Configured
  <1>5. "mode" \in DOMAIN d /\ d["mode"] = "production"
    <2> HIDE DEF o
    <2> QED BY <1>3
  <1> HIDE DEF d
  <1>6. FillIn(d)["mode"] = d["mode"]
    BY <1>5 DEF FillIn
  <1> QED
    BY <1>4, <1>5, <1>6

\* Servers and acceptances in production.
InProduction ==
  /\ \A s \in Server : cfg[s] # None => cfg[s].mode = "production"
  /\ \A c \in Credential : \A i \in DOMAIN accepts[c] : accepts[c][i].store.kind = "redis"

\* Where every server runs in production and over the same Redis, a credential
\* is accepted again only when the nullifier of each earlier acceptance has
\* run out, by whichever server, however often they are killed, restarted and
\* given other settings (validateProduction, NewServer, CheckAndStore).
THEOREM OneRedisAcceptsOnce ==
  ASSUME OnlyProduction, \A a, b \in Address : a = b
  PROVE  Spec => [](\A c \in Credential : \A i, j \in DOMAIN accepts[c] :
                      i < j => accepts[c][j].at >= accepts[c][i].until)
  <1>1. Init => InProduction
    BY DEF Init, InProduction
  <1>2. IInv /\ InProduction /\ [Next]_vars => InProduction'
    <2> SUFFICES ASSUME IInv, InProduction, [Next]_vars PROVE InProduction'
      OBVIOUS
    <2>0. TypeOK /\ ProductionPolicy
      BY DEF IInv
    <2>1. ASSUME NEW s \in Server, NEW yaml \in YAML, NEW env \in Environment,
                 NEW file \in EnvFile, NEW override \in BOOLEAN,
                 Serve(s, yaml, loadEnvFile(env, file, override))
          PROVE  InProduction'
      <3>1. /\ cfg' = [cfg EXCEPT ![s] = Configured(yaml, loadEnvFile(env, file, override))]
            /\ accepts' = accepts
        BY <2>1 DEF Serve
      <3>2. Configured(yaml, loadEnvFile(env, file, override)).mode = "production"
        BY OnlyProductionConfigured, OnlyProduction
      <3> QED BY <3>1, <3>2 DEF InProduction
    <2>2. ASSUME NEW s \in Server, Stop(s) PROVE InProduction'
      BY <2>0, <2>2 DEF Stop, InProduction, TypeOK
    <2>3. ASSUME NEW s \in Server, NEW c \in Credential, Issue(s, c) PROVE InProduction'
      BY <2>3 DEF Issue, InProduction
    <2>4. ASSUME NEW s \in Server, NEW c \in Credential, Consume(s, c) PROVE InProduction'
      <3> DEFINE entry == [store |-> StoreOf(s), at |-> clock, until |-> clock + cfg[s].expiration]
      <3>1. cfg' = cfg /\ accepts' = [accepts EXCEPT ![c] = Append(@, entry)] /\ cfg[s] # None
        BY <2>4 DEF Consume
      <3>2. StoreOf(s).kind = "redis"
        BY <2>0, <3>1 DEF InProduction, ProductionPolicy
      <3>3. entry.store.kind = "redis"
        BY <3>2
      <3> HIDE DEF entry
      <3>4. ASSUME NEW d \in Credential, NEW i \in DOMAIN accepts'[d]
            PROVE  accepts'[d][i].store.kind = "redis"
        <4>1. accepts[d] \in Seq([store : StoreName, at : Nat, until : Nat])
          BY <2>0 DEF TypeOK
        <4>2. CASE d # c
          BY <2>0, <3>1, <4>2 DEF TypeOK, InProduction
        <4>3. CASE d = c
          <5>1. accepts'[c] = Append(accepts[c], entry)
            BY <2>0, <3>1 DEF TypeOK
          <5>2. /\ DOMAIN accepts[c] = 1..Len(accepts[c]) /\ Len(accepts[c]) \in Nat
                /\ DOMAIN accepts'[c] = 1..(Len(accepts[c]) + 1)
                /\ \A k \in 1..Len(accepts[c]) : accepts'[c][k] = accepts[c][k]
                /\ accepts'[c][Len(accepts[c]) + 1] = entry
            BY <4>1, <4>3, <5>1
          <5>3. i \in 1..Len(accepts[c]) \/ i = Len(accepts[c]) + 1
            BY <4>3, <5>2
          <5> QED BY <3>3, <4>3, <5>2, <5>3 DEF InProduction
        <4> QED BY <4>2, <4>3
      <3> QED BY <3>1, <3>4 DEF InProduction
    <2>5. CASE Tick \/ UNCHANGED vars
      BY <2>5 DEF Tick, vars, InProduction
    <2> QED BY <2>1, <2>2, <2>3, <2>4, <2>5 DEF Next
  <1>3. IInv /\ InProduction =>
          \A c \in Credential : \A i, j \in DOMAIN accepts[c] :
            i < j => accepts[c][j].at >= accepts[c][i].until
    <2> SUFFICES ASSUME IInv, InProduction, NEW c \in Credential,
                        NEW i \in DOMAIN accepts[c], NEW j \in DOMAIN accepts[c], i < j
                 PROVE  accepts[c][j].at >= accepts[c][i].until
      OBVIOUS
    <2>1. accepts[c] \in Seq([store : StoreName, at : Nat, until : Nat])
      BY DEF IInv, TypeOK
    <2>2. \A k \in DOMAIN accepts[c] :
            accepts[c][k].store \in [kind : {"redis"}, at : Address, run : {0}]
      <3> SUFFICES ASSUME NEW k \in DOMAIN accepts[c]
                   PROVE  accepts[c][k].store \in [kind : {"redis"}, at : Address, run : {0}]
        OBVIOUS
      <3>1. DOMAIN accepts[c] = 1..Len(accepts[c]) /\ Len(accepts[c]) \in Nat
        BY <2>1
      <3>2. accepts[c][k] \in [store : StoreName, at : Nat, until : Nat]
        BY <2>1, <3>1, ElementOfSeq
      <3>3. accepts[c][k].store \in StoreName /\ accepts[c][k].store.kind = "redis"
        BY <3>2 DEF InProduction
      <3> QED BY <3>3 DEF StoreName
    <2>3. accepts[c][i].store = accepts[c][j].store
      BY <2>2
    <2> QED BY <2>3 DEF IInv, AcceptedOncePerStore
  <1> QED BY <1>1, <1>2, <1>3, Invariant, PTL DEF Spec
=============================================================================
