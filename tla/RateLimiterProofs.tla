-------------------------- MODULE RateLimiterProofs --------------------------
(***************************************************************************)
(* What RateLimiter guarantees for any set of addresses, finite or not,    *)
(* and any rate, burst and size of the table: its types, the bound on the  *)
(* table, the budget of an address, that it implements TokenBuckets, and   *)
(* that no address pays for another's requests.                            *)
(***************************************************************************)
EXTENDS RateLimiter, FiniteSetTheorems, TLAPS

-----------------------------------------------------------------------------
\* Arithmetic of buckets.

\* NewRateLimiter: neither the cost nor the capacity is negative.
LEMMA Sizes == Cost \in Nat \ {0} /\ Capacity \in Nat
<1>1. Cost \in Nat \ {0}
  BY TimeAssumption DEF Cost
<1>2. Burst \in Nat
  BY RateAssumption DEF Burst
<1>3. \A m, n \in Nat : m * n \in Nat
  OBVIOUS
<1> QED
  BY <1>1, <1>2, <1>3 DEF Capacity

\* What has flowed in after a while is not negative, and one tick adds Rate.
LEMMA Inflow ==
  ASSUME NEW d \in Nat
  PROVE  Rate * d \in Nat /\ Rate * (d + 1) = Rate * d + Rate
BY RateAssumption

\* A tracked bucket's fields are numbers, its times are in order, and its level
\* is at most the capacity.
LEMMA Fields ==
  ASSUME TypeOK, NEW a \in DOMAIN clients
  PROVE  /\ clients[a].tokens \in 0..Capacity
         /\ clients[a].last \in Nat /\ clients[a].seen \in Nat /\ now \in Nat
         /\ clients[a].last <= clients[a].seen /\ clients[a].seen <= now
         /\ now - clients[a].last \in Nat
         /\ clients[a] = [tokens |-> clients[a].tokens, last |-> clients[a].last,
                          seen |-> clients[a].seen]
         /\ Level(clients[a]) \in 0..Capacity
<1>1. clients[a] \in Bucket /\ now \in 0..MaxTime
  BY DEF TypeOK
<1>2. clients[a].last <= clients[a].seen /\ clients[a].seen <= now
  BY DEF TypeOK
<1>3. /\ clients[a].tokens \in 0..Capacity
      /\ clients[a].last \in 0..MaxTime /\ clients[a].seen \in 0..MaxTime
      /\ clients[a] = [tokens |-> clients[a].tokens, last |-> clients[a].last,
                       seen |-> clients[a].seen]
  BY <1>1 DEF Bucket
<1>4. /\ clients[a].last \in Nat /\ clients[a].seen \in Nat /\ now \in Nat
      /\ now - clients[a].last \in Nat
  BY <1>1, <1>2, <1>3, TimeAssumption
<1>5. Rate * (now - clients[a].last) \in Nat
  BY <1>4, Inflow
<1>6. Level(clients[a]) \in 0..Capacity
  BY <1>3, <1>5, Sizes DEF Level, Min
<1> QED
  BY <1>2, <1>3, <1>4, <1>6

\* The entry Allow makes for a new address is a bucket, seen now and full.
LEMMA FreshIsFull ==
  ASSUME TypeOK
  PROVE  Fresh \in Bucket /\ Fresh.last = now /\ Fresh.seen = now /\ Level(Fresh) = Capacity
<1>1. now \in 0..MaxTime /\ now \in Nat
  BY TimeAssumption DEF TypeOK
<1>2. Rate * (now - now) = 0
  BY <1>1, RateAssumption
<1> QED
  BY <1>1, <1>2, Sizes DEF Fresh, Bucket, Level, Min

\* Take: the bucket stays one, is seen now, and loses the cost exactly when the
\* request passes.
LEMMA TakeKeeps ==
  ASSUME TypeOK, NEW b \in Bucket, b.last <= b.seen, b.seen <= now
  PROVE  /\ Take(b) \in Bucket
         /\ Take(b).last <= Take(b).seen /\ Take(b).seen = now
         /\ Level(b) \in 0..Capacity
         /\ Level(b) >= Cost => Level(Take(b)) = Level(b) - Cost
         /\ ~ (Level(b) >= Cost) => Level(Take(b)) = Level(b)
<1>1. now \in 0..MaxTime /\ now \in Nat
  BY TimeAssumption DEF TypeOK
<1>2. b.tokens \in 0..Capacity /\ b.last \in 0..MaxTime /\ b.seen \in 0..MaxTime
  BY DEF Bucket
<1>3. now - b.last \in Nat
  BY <1>1, <1>2, TimeAssumption
<1>4. Level(b) \in 0..Capacity
  BY <1>2, <1>3, Inflow, Sizes DEF Level, Min
<1>5. CASE Level(b) >= Cost
  <2>1. Take(b) = [tokens |-> Level(b) - Cost, last |-> now, seen |-> now]
    BY <1>5 DEF Take
  <2>2. Level(b) - Cost \in 0..Capacity
    BY <1>4, <1>5, Sizes
  <2>3. Rate * (now - now) = 0
    BY <1>1, RateAssumption
  <2>4. Level(Take(b)) = Level(b) - Cost
    BY <2>1, <2>2, <2>3, Sizes DEF Level, Min
  <2> QED
    BY <1>1, <1>4, <1>5, <2>1, <2>2, <2>4 DEF Bucket
<1>6. CASE ~ (Level(b) >= Cost)
  <2>1. Take(b) = [b EXCEPT !.seen = now]
    BY <1>6 DEF Take
  <2>2. /\ Take(b) \in Bucket /\ Take(b).tokens = b.tokens
        /\ Take(b).last = b.last /\ Take(b).seen = now
    BY <1>1, <2>1 DEF Bucket
  <2>3. Take(b).last <= now
    BY <1>1, <1>2, <2>2, TimeAssumption
  <2> QED
    BY <1>4, <1>6, <2>2, <2>3 DEF Level
<1> QED
  BY <1>5, <1>6

-----------------------------------------------------------------------------
(* Tables.                                                                 *)

Sound(table) ==
  /\ DOMAIN table \subseteq Address
  /\ \A k \in DOMAIN table :
       table[k] \in Bucket /\ table[k].last <= table[k].seen /\ table[k].seen <= now

\* What an address has left: an untracked one has a full bucket.
LevelOf(table, k) == IF k \in DOMAIN table THEN Level(table[k]) ELSE Capacity

\* A table stays sound when Allow adds an entry, whose bucket is full.
LEMMA WithKeeps ==
  ASSUME TypeOK, NEW table, Sound(table), NEW a \in Address
  PROVE  /\ Sound(With(table, a))
         /\ DOMAIN With(table, a) = DOMAIN table \cup {a}
         /\ \A k : LevelOf(With(table, a), k) = IF k = a THEN Capacity ELSE LevelOf(table, k)
         /\ \A k \in DOMAIN table \ {a} : With(table, a)[k] = table[k]
<1>1. Fresh \in Bucket /\ Fresh.last = now /\ Fresh.seen = now /\ Level(Fresh) = Capacity
  BY FreshIsFull
<1>2. now \in Int
  BY DEF TypeOK
<1> QED
  BY <1>1, <1>2 DEF With, Sound, LevelOf

\* A table stays sound when Allow evicts or Cleanup drops entries; an address
\* that was dropped is back at a full bucket.
LEMMA WithoutKeeps ==
  ASSUME NEW table, Sound(table), NEW dropped
  PROVE  /\ Sound(Without(table, dropped))
         /\ DOMAIN Without(table, dropped) = DOMAIN table \ dropped
         /\ \A k : LevelOf(Without(table, dropped), k) =
                     IF k \in dropped THEN Capacity ELSE LevelOf(table, k)
         /\ \A k \in DOMAIN table \ dropped : Without(table, dropped)[k] = table[k]
BY DEF Without, Sound, LevelOf

\* The end of Allow changes one bucket of the table, by a request's cost if the
\* request passes and not at all if it does not.
LEMMA DecideChanges ==
  ASSUME TypeOK, NEW table, Sound(table), NEW a \in DOMAIN table, Decide(table, a)
  PROVE  /\ Sound(clients)'
         /\ DOMAIN clients' = DOMAIN table
         /\ clients'[a].seen = now
         /\ \A k \in DOMAIN table \ {a} : clients'[k] = table[k]
         /\ \A k : k # a => LevelOf(clients, k)' = LevelOf(table, k)
         /\ LevelOf(table, a) = Level(table[a]) /\ Level(table[a]) \in 0..Capacity
         /\ LevelOf(clients, a)' =
              IF Level(table[a]) >= Cost THEN Level(table[a]) - Cost ELSE Level(table[a])
<1>1. /\ clients' = [table EXCEPT ![a] = Take(table[a])]
      /\ now' = now
  BY DEF Decide
<1>2. /\ table[a] \in Bucket /\ table[a].last <= table[a].seen /\ table[a].seen <= now
      /\ a \in Address
  BY DEF Sound
<1>3. /\ Take(table[a]) \in Bucket
      /\ Take(table[a]).last <= Take(table[a]).seen /\ Take(table[a]).seen = now
      /\ Level(table[a]) \in 0..Capacity
      /\ Level(table[a]) >= Cost => Level(Take(table[a])) = Level(table[a]) - Cost
      /\ ~ (Level(table[a]) >= Cost) => Level(Take(table[a])) = Level(table[a])
  BY <1>2, TakeKeeps
<1>4. /\ DOMAIN clients' = DOMAIN table
      /\ clients'[a] = Take(table[a])
      /\ \A k \in DOMAIN table \ {a} : clients'[k] = table[k]
  BY <1>1
<1>5. now \in Int
  BY DEF TypeOK
<1>6. Sound(clients)'
  BY <1>1, <1>3, <1>4, <1>5 DEF Sound
<1>7. \A k : LevelOf(clients, k)' = LevelOf(clients', k)
  BY <1>1 DEF LevelOf, Level, Capacity, Burst, Cost
<1> QED
  BY <1>3, <1>4, <1>6, <1>7 DEF LevelOf

\* Every way through Allow ends in Decide, on a table that holds the address
\* and where some other buckets may have been forgotten.
LEMMA AllowDecides ==
  ASSUME TypeOK, NEW a \in Address, Allow(a)
  PROVE  \E table : \E lost \in SUBSET (Address \ {a}) :
           /\ Sound(table) /\ a \in DOMAIN table /\ Decide(table, a)
           /\ forgotten' = forgotten \cup lost
           /\ \A k : LevelOf(table, k) = IF k \in lost THEN Capacity ELSE LevelOf(clients, k)
<1>1. Sound(clients)
  BY DEF Sound, TypeOK
<1>2. CASE AllowTracked(a)
  <2>1. /\ a \in DOMAIN clients /\ Decide(clients, a)
        /\ forgotten' = forgotten \cup {}
    BY <1>2 DEF AllowTracked
  <2> QED
    BY <1>1, <2>1, {} \in SUBSET (Address \ {a})
<1>3. CASE AllowNew(a)
  <2>1. /\ a \notin DOMAIN clients /\ Decide(With(clients, a), a)
        /\ forgotten' = forgotten \cup {}
    BY <1>3 DEF AllowNew
  <2>2. \A k : LevelOf(With(clients, a), k) = LevelOf(clients, k)
    BY <1>1, <2>1, WithKeeps DEF LevelOf
  <2>3. Sound(With(clients, a)) /\ a \in DOMAIN With(clients, a)
    BY <1>1, WithKeeps
  <2> QED
    BY <2>1, <2>2, <2>3, {} \in SUBSET (Address \ {a})
<1>4. CASE AllowEvicting(a)
  <2>1. PICK victim \in Oldest :
          /\ Decide(With(Without(clients, {victim}), a), a)
          /\ forgotten' = forgotten \cup NotFull({victim})
    BY <1>4 DEF AllowEvicting
  <2> DEFINE rest == Without(clients, {victim})
             table == With(rest, a)
             lost == NotFull({victim})
  <2>2. victim \in DOMAIN clients /\ a \notin DOMAIN clients
    BY <1>4 DEF AllowEvicting, Oldest, Older
  <2>3. lost \in SUBSET (Address \ {a})
    BY <1>1, <2>2 DEF NotFull, Sound
  <2>4. Sound(rest) /\ \A k : LevelOf(rest, k) = IF k = victim THEN Capacity ELSE LevelOf(clients, k)
    BY <1>1, WithoutKeeps
  <2>5. /\ Sound(table) /\ a \in DOMAIN table
        /\ \A k : LevelOf(table, k) = IF k = a THEN Capacity ELSE LevelOf(rest, k)
    BY <2>4, WithKeeps
  <2>6. victim \notin lost => Level(clients[victim]) = Capacity
    BY <2>2, Fields, Sizes DEF NotFull
  <2>7. \A k : LevelOf(table, k) = IF k \in lost THEN Capacity ELSE LevelOf(clients, k)
    <3>1. lost \subseteq {victim}
      BY DEF NotFull
    <3> HIDE DEF rest, table, lost
    <3> QED
      BY <2>2, <2>3, <2>4, <2>5, <2>6, <3>1 DEF LevelOf
  <2> QED
    BY <2>1, <2>3, <2>5, <2>7
<1> QED
  BY <1>2, <1>3, <1>4 DEF Allow

\* Cleanup drops sound entries; the forgotten ones come back full, as the
\* others already are.
LEMMA CleanupDrops ==
  ASSUME TypeOK, Cleanup
  PROVE  /\ Sound(clients)' /\ DOMAIN clients' \subseteq DOMAIN clients
         /\ \A k \in DOMAIN clients' : clients'[k] = clients[k]
         /\ NotFull(Idle) \subseteq Address
         /\ \A k : LevelOf(clients, k)' =
                     IF k \in NotFull(Idle) THEN Capacity ELSE LevelOf(clients, k)
<1>1. Sound(clients)
  BY DEF Sound, TypeOK
<1>2. clients' = Without(clients, Idle) /\ now' = now
  BY DEF Cleanup
<1>3. /\ Sound(Without(clients, Idle))
      /\ DOMAIN Without(clients, Idle) = DOMAIN clients \ Idle
      /\ \A k : LevelOf(Without(clients, Idle), k) =
                  IF k \in Idle THEN Capacity ELSE LevelOf(clients, k)
      /\ \A k \in DOMAIN clients \ Idle : Without(clients, Idle)[k] = clients[k]
  BY <1>1, WithoutKeeps
<1>4. \A k : LevelOf(clients, k)' = LevelOf(clients', k)
  BY <1>2 DEF LevelOf, Level, Capacity, Burst, Cost
<1>5. Sound(clients)'
  BY <1>2, <1>3 DEF Sound
<1>6. Idle \subseteq DOMAIN clients /\ NotFull(Idle) \subseteq Idle
  BY DEF Idle, NotFull
<1>7. \A k \in Idle : k \notin NotFull(Idle) => LevelOf(clients, k) = Capacity
  BY <1>6, Fields, Sizes DEF NotFull, LevelOf
<1>8. NotFull(Idle) \subseteq Address
  BY <1>1, <1>6 DEF Sound
<1> QED
  BY <1>2, <1>3, <1>4, <1>5, <1>6, <1>7, <1>8

\* A tick adds Rate to every bucket, up to the capacity.
LEMMA TickFills ==
  ASSUME TypeOK, Tick
  PROVE  /\ \A k : LevelOf(clients, k) \in 0..Capacity
         /\ \A k : LevelOf(clients, k)' = Min(Capacity, LevelOf(clients, k) + Rate)
<1>1. clients' = clients /\ now' = now + 1
  BY DEF Tick
<1> SUFFICES ASSUME NEW k
             PROVE  /\ LevelOf(clients, k) \in 0..Capacity
                    /\ LevelOf(clients, k)' = Min(Capacity, LevelOf(clients, k) + Rate)
  OBVIOUS
<1>2. CASE k \in DOMAIN clients
  <2> DEFINE idle == now - clients[k].last
             in == Rate * idle
             left == clients[k].tokens
  <2>1. left \in 0..Capacity /\ idle \in Nat /\ now \in Nat /\ clients[k].last \in Nat
    BY <1>2, Fields
  <2>2. in \in Nat /\ Rate * (idle + 1) = in + Rate
    BY <2>1, Inflow
  <2>3. (now + 1) - clients[k].last = idle + 1
    BY <2>1
  <2>4. LevelOf(clients, k) = Min(Capacity, left + in)
    BY <1>2 DEF LevelOf, Level
  <2>5. LevelOf(clients, k)' = Min(Capacity, left + Rate * ((now + 1) - clients[k].last))
    BY <1>1, <1>2 DEF LevelOf, Level, Capacity, Burst, Cost
  <2>6. LevelOf(clients, k)' = Min(Capacity, left + (in + Rate))
    BY <2>2, <2>3, <2>5
  <2> HIDE DEF idle, in, left
  <2> QED
    BY <2>1, <2>2, <2>4, <2>6, RateAssumption, Sizes DEF Min
<1>3. CASE k \notin DOMAIN clients
  BY <1>1, <1>3, RateAssumption, Sizes DEF LevelOf, Min, Capacity, Burst, Cost
<1> QED
  BY <1>2, <1>3

-----------------------------------------------------------------------------
(* Types.                                                                  *)

\* The new table, the empty answer and no call are of their types (Init).
LEMMA TypeInit == Init => TypeOK
BY TimeAssumption DEF Init, TypeOK

\* Every call of Allow and Cleanup, and every tick, keeps the types.
LEMMA TypeStep == TypeOK /\ [Next]_vars => TypeOK'
<1> SUFFICES ASSUME TypeOK, [Next]_vars PROVE TypeOK'
  OBVIOUS
<1>1. ASSUME NEW a \in Address, Allow(a) PROVE TypeOK'
  <2>1. PICK table : \E lost \in SUBSET (Address \ {a}) :
          /\ Sound(table) /\ a \in DOMAIN table /\ Decide(table, a)
          /\ forgotten' = forgotten \cup lost
    BY <1>1, AllowDecides
  <2>2. Sound(clients)'
    BY <2>1, DecideChanges
  <2>3. granted' \in [Address -> Nat] /\ now' \in 0..MaxTime
    BY <2>1 DEF Decide, TypeOK
  <2>4. answer' \in {<<>>} \cup (Address \X BOOLEAN)
    <3>1. (Level(table[a]) >= Cost) \in BOOLEAN
      OBVIOUS
    <3>2. answer' = <<a, Level(table[a]) >= Cost>>
      BY <2>1 DEF Decide
    <3> QED
      BY <3>1, <3>2, Zenon
  <2>5. calls' \in 0..PerInstant
    BY <2>1, TimeAssumption DEF Decide, TypeOK
  <2>6. forgotten' \subseteq Address
    BY <2>1 DEF TypeOK
  <2> QED
    BY <2>2, <2>3, <2>4, <2>5, <2>6 DEF TypeOK, Sound
<1>2. CASE Cleanup
  <2>1. Sound(clients)' /\ NotFull(Idle) \subseteq Address
    BY <1>2, CleanupDrops
  <2> QED
    BY <1>2, <2>1 DEF Cleanup, TypeOK, Sound
<1>3. CASE Tick
  <2>1. now' \in 0..MaxTime /\ now' = now + 1 /\ now \in Int
    BY <1>3, TimeAssumption DEF Tick, TypeOK
  <2>2. \A a \in DOMAIN clients : clients[a].seen <= now'
    BY <2>1, Fields
  <2>3. /\ UNCHANGED <<clients, granted, answer, forgotten>>
        /\ calls' \in 0..PerInstant
    BY <1>3, TimeAssumption DEF Tick
  <2> QED
    BY <2>1, <2>2, <2>3 DEF TypeOK, Bucket, Capacity, Burst, Cost
<1>4. CASE UNCHANGED vars
  BY <1>4 DEF vars, TypeOK, Bucket, Capacity, Burst, Cost
<1> QED
  BY <1>1, <1>2, <1>3, <1>4 DEF Next

\* The types hold of every state the limiter reaches.
THEOREM TypeCorrect == Spec => []TypeOK
BY TypeInit, TypeStep, PTL DEF Spec

-----------------------------------------------------------------------------
(* The bound on the table.  The eviction fails only when every entry was   *)
(* seen at this very instant, and an instant sees no more entries than     *)
(* calls.                                                                  *)

SeenNow == {k \in DOMAIN clients : clients[k].seen = now}

Counted ==
  /\ IsFiniteSet(DOMAIN clients)
  /\ Cardinality(SeenNow) <= calls
  /\ TableBounded

\* The table starts empty, before any call (Init).
LEMMA CountedInit == Init => Counted
<1> SUFFICES ASSUME Init PROVE Counted
  OBVIOUS
<1>1. DOMAIN clients = {} /\ SeenNow = {} /\ calls = 0
  BY DEF Init, SeenNow
<1> QED
  BY <1>1, FS_EmptySet, MaxClientsAssumption, TimeAssumption DEF Counted, TableBounded

\* A call adds at most its own address to those seen now.
LEMMA CallCounts ==
  ASSUME TypeOK, Counted, NEW table, NEW a \in DOMAIN table, Sound(table), Decide(table, a),
         \A k \in DOMAIN table \ {a} : k \in DOMAIN clients /\ table[k] = clients[k],
         IsFiniteSet(DOMAIN table)
  PROVE  IsFiniteSet(DOMAIN clients') /\ Cardinality(SeenNow') <= calls'
<1>1. /\ DOMAIN clients' = DOMAIN table
      /\ \A k \in DOMAIN table \ {a} : clients'[k] = table[k]
  BY DecideChanges
<1>2. now' = now /\ calls' = calls + 1 /\ calls \in Int
  BY DEF Decide, TypeOK
<1>3. SeenNow' \in SUBSET (SeenNow \cup {a})
  BY <1>1, <1>2 DEF SeenNow
<1>4. IsFiniteSet(SeenNow) /\ Cardinality(SeenNow) <= calls
  <2>1. SeenNow \in SUBSET DOMAIN clients
    BY DEF SeenNow
  <2> QED
    BY <2>1, FS_Subset DEF Counted
<1>5. /\ IsFiniteSet(SeenNow \cup {a})
      /\ Cardinality(SeenNow \cup {a}) <= calls + 1
  <2>1. Cardinality(SeenNow) \in Nat
    BY <1>4, FS_CardinalityType
  <2>2. /\ IsFiniteSet(SeenNow \cup {a})
        /\ Cardinality(SeenNow \cup {a}) =
             IF a \in SeenNow THEN Cardinality(SeenNow) ELSE Cardinality(SeenNow) + 1
    BY <1>4, FS_AddElement
  <2> QED
    BY <1>2, <1>4, <2>1, <2>2
<1>6. Cardinality(SeenNow') <= Cardinality(SeenNow \cup {a}) /\ IsFiniteSet(SeenNow')
  BY <1>3, <1>5, FS_Subset
<1>7. Cardinality(SeenNow') \in Nat /\ Cardinality(SeenNow \cup {a}) \in Nat
  BY <1>5, <1>6, FS_CardinalityType
<1> QED
  BY <1>1, <1>2, <1>5, <1>6, <1>7

\* Allow keeps the bound in each of its three ways, Cleanup shrinks the table,
\* and a tick starts an instant that has seen nobody.
LEMMA CountedStep == TypeOK /\ Counted /\ [Next]_vars => Counted'
<1> SUFFICES ASSUME TypeOK, Counted, [Next]_vars PROVE Counted'
  OBVIOUS
<1> DEFINE size == Cardinality(DOMAIN clients)
<1>1. /\ IsFiniteSet(DOMAIN clients) /\ size \in Nat
      /\ size <= MaxClients \/ size <= PerInstant
      /\ Cardinality(SeenNow) <= calls
  BY FS_CardinalityType DEF Counted, TableBounded
<1>2. /\ Sound(clients) /\ calls \in Int
      /\ MaxClients \in Nat /\ PerInstant \in Nat
  BY MaxClientsAssumption, TimeAssumption DEF Sound, TypeOK
<1>3. ASSUME NEW a \in Address, AllowTracked(a) PROVE Counted'
  <2>1. a \in DOMAIN clients /\ Decide(clients, a)
    BY <1>3 DEF AllowTracked
  <2>2. IsFiniteSet(DOMAIN clients') /\ Cardinality(SeenNow') <= calls'
    BY <1>1, <1>2, <2>1, CallCounts
  <2>3. DOMAIN clients' = DOMAIN clients
    BY <1>2, <2>1, DecideChanges
  <2> QED
    BY <2>2, <2>3 DEF Counted, TableBounded
<1>4. ASSUME NEW a \in Address, AllowNew(a) PROVE Counted'
  <2> DEFINE table == With(clients, a)
  <2>1. /\ a \notin DOMAIN clients /\ Decide(table, a)
        /\ ~ TableFull \/ Older = {}
    BY <1>4 DEF AllowNew
  <2>2. /\ Sound(table) /\ DOMAIN table = DOMAIN clients \cup {a}
        /\ \A k \in DOMAIN clients \ {a} : table[k] = clients[k]
    BY <1>2, WithKeeps
  <2>3. IsFiniteSet(DOMAIN table) /\ Cardinality(DOMAIN table) = size + 1
    BY <1>1, <2>1, <2>2, FS_AddElement
  <2>4. /\ DOMAIN clients' = DOMAIN table
        /\ IsFiniteSet(DOMAIN clients') /\ Cardinality(SeenNow') <= calls'
    <3> HIDE DEF table
    <3> QED
      BY <2>1, <2>2, <2>3, CallCounts, DecideChanges
  <2>5. CASE ~ TableFull
    <3>1. size + 1 <= MaxClients
      BY <1>1, <1>2, <2>5 DEF TableFull
    <3> QED
      BY <2>3, <2>4, <3>1 DEF Counted, TableBounded
  <2>6. CASE Older = {}
    <3>1. \A k \in DOMAIN clients : clients[k].seen = now
      BY <2>6, Fields DEF Older
    <3>2. SeenNow = DOMAIN clients
      BY <3>1 DEF SeenNow
    <3>3. calls + 1 <= PerInstant
      BY <1>2, <2>1 DEF Decide
    <3>4. size + 1 <= PerInstant
      BY <1>1, <1>2, <3>2, <3>3
    <3> QED
      BY <2>3, <2>4, <3>4 DEF Counted, TableBounded
  <2> QED
    BY <2>1, <2>5, <2>6
<1>5. ASSUME NEW a \in Address, AllowEvicting(a) PROVE Counted'
  <2>1. PICK victim \in Oldest : Decide(With(Without(clients, {victim}), a), a)
    BY <1>5 DEF AllowEvicting
  <2> DEFINE rest == Without(clients, {victim})
             table == With(rest, a)
  <2>2. victim \in DOMAIN clients /\ a \notin DOMAIN clients
    BY <1>5 DEF AllowEvicting, Oldest, Older
  <2>3. /\ Sound(rest) /\ DOMAIN rest = DOMAIN clients \ {victim}
        /\ \A k \in DOMAIN clients \ {victim} : rest[k] = clients[k]
    BY <1>2, WithoutKeeps
  <2>4. /\ Sound(table) /\ DOMAIN table = DOMAIN rest \cup {a}
        /\ \A k \in DOMAIN rest \ {a} : table[k] = rest[k]
    <3> HIDE DEF rest
    <3> QED
      BY <2>3, WithKeeps
  <2>5. IsFiniteSet(DOMAIN rest) /\ Cardinality(DOMAIN rest) = size - 1
    BY <1>1, <2>2, <2>3, FS_RemoveElement
  <2>6. IsFiniteSet(DOMAIN table) /\ Cardinality(DOMAIN table) = size
    <3>1. a \notin DOMAIN rest
      BY <2>2, <2>3
    <3>2. /\ IsFiniteSet(DOMAIN rest \cup {a})
          /\ Cardinality(DOMAIN rest \cup {a}) = Cardinality(DOMAIN rest) + 1
      BY <2>5, <3>1, FS_AddElement
    <3> QED
      BY <1>1, <2>4, <2>5, <3>2
  <2>7. \A k \in DOMAIN table \ {a} : k \in DOMAIN clients /\ table[k] = clients[k]
    BY <2>3, <2>4
  <2>8. /\ DOMAIN clients' = DOMAIN table
        /\ IsFiniteSet(DOMAIN clients') /\ Cardinality(SeenNow') <= calls'
    <3>1. Decide(table, a) /\ a \in DOMAIN table
      BY <2>1, <2>4
    <3> HIDE DEF rest, table
    <3> QED
      BY <2>4, <2>6, <2>7, <3>1, CallCounts, DecideChanges
  <2> QED
    BY <1>1, <2>6, <2>8 DEF Counted, TableBounded
<1>6. CASE Cleanup
  <2>1. /\ DOMAIN clients' \in SUBSET DOMAIN clients
        /\ \A k \in DOMAIN clients' : clients'[k] = clients[k]
        /\ now' = now /\ calls' = calls
    BY <1>6, CleanupDrops DEF Cleanup
  <2>2. IsFiniteSet(DOMAIN clients') /\ Cardinality(DOMAIN clients') <= size
    BY <1>1, <2>1, FS_Subset
  <2>3. SeenNow' \in SUBSET SeenNow /\ SeenNow \in SUBSET DOMAIN clients
    BY <2>1 DEF SeenNow
  <2>4. /\ IsFiniteSet(SeenNow) /\ IsFiniteSet(SeenNow')
        /\ Cardinality(SeenNow') <= Cardinality(SeenNow)
    BY <1>1, <2>3, FS_Subset
  <2>5. /\ Cardinality(SeenNow) \in Nat /\ Cardinality(SeenNow') \in Nat
        /\ Cardinality(DOMAIN clients') \in Nat
    BY <2>2, <2>4, FS_CardinalityType
  <2> QED
    BY <1>1, <1>2, <2>1, <2>2, <2>4, <2>5 DEF Counted, TableBounded
<1>7. CASE Tick
  <2>1. clients' = clients /\ now' = now + 1 /\ calls' = 0
    BY <1>7 DEF Tick
  <2>2. SeenNow' = {}
    <3>1. \A k \in DOMAIN clients : clients[k].seen # now + 1
      BY Fields
    <3> QED
      BY <2>1, <3>1 DEF SeenNow
  <2> QED
    BY <1>1, <2>1, <2>2, FS_EmptySet DEF Counted, TableBounded
<1>8. CASE UNCHANGED vars
  BY <1>8 DEF vars, Counted, TableBounded, SeenNow
<1> QED
  BY <1>3, <1>4, <1>5, <1>6, <1>7, <1>8 DEF Next, Allow

\* The limiter tracks no more than maxClients addresses or, where that is more,
\* the calls at one reading of the clock (Allow's eviction, Cleanup).
THEOREM BoundOnTable == Spec => []TableBounded
<1>1. Counted => TableBounded
  BY DEF Counted
<1> QED
  BY <1>1, TypeInit, TypeStep, CountedInit, CountedStep, PTL DEF Spec

-----------------------------------------------------------------------------
(* The limiter implements a bucket per address.                            *)

\* The level TokenBuckets sees is that of the address's entry, before a step and
\* after it.
LEMMA Mapped ==
  /\ Levels = [a \in Address |-> LevelOf(clients, a)]
  /\ Levels' = [a \in Address |-> LevelOf(clients, a)']
BY DEF Levels, LevelOf

\* An empty table stands for buckets that are all full (Init).
LEMMA BucketsInit == Init => Buckets!Init
BY DEF Init, Levels, Buckets!Init

\* A call of Allow grants or refuses by the bucket of its own address, Cleanup
\* forgets buckets, and a tick fills all of them.
LEMMA BucketsStep == TypeOK /\ [Next]_vars => [Buckets!Next]_(Buckets!vars)
<1> SUFFICES ASSUME TypeOK, [Next]_vars PROVE [Buckets!Next]_(Buckets!vars)
  OBVIOUS
<1>1. ASSUME NEW a \in Address, Allow(a) PROVE Buckets!Next
  <2>1. PICK table : \E lost \in SUBSET (Address \ {a}) :
          /\ Sound(table) /\ a \in DOMAIN table /\ Decide(table, a)
          /\ forgotten' = forgotten \cup lost
          /\ \A k : LevelOf(table, k) = IF k \in lost THEN Capacity ELSE LevelOf(clients, k)
    BY <1>1, AllowDecides
  <2>2. PICK lost \in SUBSET (Address \ {a}) :
          /\ Sound(table) /\ a \in DOMAIN table /\ Decide(table, a)
          /\ forgotten' = forgotten \cup lost
          /\ \A k : LevelOf(table, k) = IF k \in lost THEN Capacity ELSE LevelOf(clients, k)
    BY <2>1
  <2> DEFINE refilled == [k \in Address |-> IF k \in lost THEN Capacity ELSE Levels[k]]
             passes == Level(table[a]) >= Cost
  <2>3. /\ \A k : k # a => LevelOf(clients, k)' = LevelOf(table, k)
        /\ LevelOf(table, a) = Level(table[a])
        /\ LevelOf(clients, a)' = IF passes THEN Level(table[a]) - Cost ELSE Level(table[a])
    BY <2>2, DecideChanges
  <2>4. /\ Levels[a] = Level(table[a]) /\ refilled[a] = Levels[a]
        /\ \A k \in Address : refilled[k] = LevelOf(table, k)
    BY <2>2, <2>3, Mapped
  <2>5. /\ Levels' = [k \in Address |-> LevelOf(clients, k)']
        /\ now' = now /\ answer' = <<a, passes>>
        /\ granted' = IF passes THEN [granted EXCEPT ![a] = @ + 1] ELSE granted
    BY <2>2, Mapped DEF Decide
  <2>6. CASE passes
    <3>1. Levels' = [refilled EXCEPT ![a] = @ - Cost]
      BY <2>3, <2>4, <2>5, <2>6
    <3>2. answer' = <<a, TRUE>>
      BY <2>5, <2>6, Zenon
    <3>3. Buckets!Grant(a, lost)
      BY <2>2, <2>4, <2>5, <2>6, <3>1, <3>2
         DEF Buckets!Grant, Buckets!Refilled
    <3> QED
      BY <3>3 DEF Buckets!Next
  <2>7. CASE ~ passes
    <3>1. Levels' = refilled
      BY <2>3, <2>4, <2>5, <2>7
    <3>2. answer' = <<a, FALSE>>
      <4>1. passes \in BOOLEAN
        OBVIOUS
      <4> QED
        BY <2>5, <2>7, <4>1, Zenon
    <3>3. Levels[a] < Cost
      <4>1. Level(table[a]) \in Int /\ Cost \in Int
        BY <2>2, DecideChanges, Sizes
      <4> QED
        BY <2>4, <2>7, <4>1
    <3>4. Buckets!Refuse(a, lost)
      BY <2>2, <2>5, <2>7, <3>1, <3>2, <3>3
         DEF Buckets!Refuse, Buckets!Refilled
    <3> QED
      BY <3>4 DEF Buckets!Next
  <2> QED
    BY <2>6, <2>7
<1>2. CASE Cleanup
  <2> DEFINE lost == NotFull(Idle)
  <2>1. /\ lost \subseteq Address
        /\ \A k : LevelOf(clients, k)' = IF k \in lost THEN Capacity ELSE LevelOf(clients, k)
        /\ forgotten' = forgotten \cup lost
        /\ UNCHANGED <<now, granted, answer>>
    BY <1>2, CleanupDrops DEF Cleanup
  <2>2. Levels' = [k \in Address |-> IF k \in lost THEN Capacity ELSE Levels[k]]
    BY <2>1, Mapped
  <2>3. Buckets!Forget(lost)
    BY <2>1, <2>2 DEF Buckets!Forget, Buckets!Refilled
  <2>4. lost \in SUBSET Address
    BY <2>1
  <2> HIDE DEF lost
  <2> QED
    BY <2>3, <2>4 DEF Buckets!Next
<1>3. CASE Tick
  <2>1. \A k : LevelOf(clients, k)' = Min(Capacity, LevelOf(clients, k) + Rate)
    BY <1>3, TickFills
  <2>2. Levels' = [k \in Address |-> Min(Capacity, Levels[k] + Rate)]
    BY <2>1, Mapped
  <2>3. now' = now + 1 /\ UNCHANGED <<granted, answer, forgotten>>
    BY <1>3 DEF Tick
  <2>4. Buckets!Flow
    BY <2>2, <2>3 DEF Buckets!Flow, Buckets!Min, Min
  <2> QED
    BY <2>4 DEF Buckets!Next
<1>4. CASE UNCHANGED vars
  <2>1. Levels' = Levels
    BY <1>4 DEF vars, Levels, LevelOf, Level, Capacity, Burst, Cost
  <2> QED
    BY <1>4, <2>1 DEF vars, Buckets!vars
<1> QED
  BY <1>1, <1>2, <1>3, <1>4 DEF Next

\* A table of limited size that drops entries and makes them again behaves as a
\* bucket per address, some of which are refilled (Allow, Cleanup).
THEOREM Implements == Spec => KeepsBuckets
BY TypeInit, TypeStep, BucketsInit, BucketsStep, PTL DEF Spec, KeepsBuckets, Buckets!Spec

-----------------------------------------------------------------------------
(* The budget of an address and what is forgotten.                         *)

\* What an address got and what it has left come from its burst and from what
\* flowed in since.
Budget ==
  \A a \in Address \ forgotten :
    Cost * granted[a] + LevelOf(clients, a) <= Capacity + Rate * now

\* Every address starts with its burst (Init).
LEMMA BudgetInit == Init => Budget
<1> SUFFICES ASSUME Init, NEW a \in Address PROVE
      Cost * granted[a] + LevelOf(clients, a) <= Capacity + Rate * now
  BY DEF Budget
<1>1. granted[a] = 0 /\ LevelOf(clients, a) = Capacity /\ now = 0
  BY DEF Init, LevelOf
<1>2. Cost * 0 = 0 /\ Rate * 0 = 0
  BY RateAssumption, Sizes
<1> QED
  BY <1>1, <1>2, Sizes

\* Granting costs what the bucket loses, a tick adds no more than flows in, and
\* a bucket that is refilled is accounted forgotten.
LEMMA BudgetStep == TypeOK /\ Budget /\ [Next]_vars => Budget'
<1> SUFFICES ASSUME TypeOK, Budget, [Next]_vars PROVE Budget'
  OBVIOUS
<1>0. /\ Cost \in Nat /\ Capacity \in Nat /\ now \in Nat /\ Rate \in Nat
      /\ granted \in [Address -> Nat]
      /\ \A m, n \in Nat : m * n \in Nat /\ m * (n + 1) = m * n + m
  BY RateAssumption, TimeAssumption, Sizes DEF TypeOK
<1>c. Cost' = Cost /\ Capacity' = Capacity
  BY DEF Cost, Capacity, Burst
<1>1. ASSUME NEW a \in Address, Allow(a) PROVE Budget'
  <2>1. PICK table : \E lost \in SUBSET (Address \ {a}) :
          /\ Sound(table) /\ a \in DOMAIN table /\ Decide(table, a)
          /\ forgotten' = forgotten \cup lost
          /\ \A k : LevelOf(table, k) = IF k \in lost THEN Capacity ELSE LevelOf(clients, k)
    BY <1>1, AllowDecides
  <2>2. PICK lost \in SUBSET (Address \ {a}) :
          /\ Sound(table) /\ a \in DOMAIN table /\ Decide(table, a)
          /\ forgotten' = forgotten \cup lost
          /\ \A k : LevelOf(table, k) = IF k \in lost THEN Capacity ELSE LevelOf(clients, k)
    BY <2>1
  <2> DEFINE passes == Level(table[a]) >= Cost
  <2>3. /\ \A k : k # a => LevelOf(clients, k)' = LevelOf(table, k)
        /\ LevelOf(table, a) = Level(table[a])
        /\ Level(table[a]) \in 0..Capacity
        /\ LevelOf(clients, a)' = IF passes THEN Level(table[a]) - Cost ELSE Level(table[a])
    BY <2>2, DecideChanges
  <2>4. /\ now' = now
        /\ granted' = IF passes THEN [granted EXCEPT ![a] = @ + 1] ELSE granted
    BY <2>2 DEF Decide
  <2>5. ASSUME NEW k \in Address \ forgotten'
        PROVE  Cost * granted'[k] + LevelOf(clients, k)' <= Capacity + Rate * now
    <3>1. k \notin forgotten /\ k \notin lost
      BY <2>2, <2>5
    <3>2. /\ Cost * granted[k] + LevelOf(clients, k) <= Capacity + Rate * now
          /\ LevelOf(table, k) = LevelOf(clients, k)
      BY <2>2, <3>1 DEF Budget
    <3>3. CASE k # a
      BY <1>0, <2>3, <2>4, <3>2, <3>3
    <3>4. CASE k = a /\ passes
      <4>1. /\ granted'[a] = granted[a] + 1 /\ granted[a] \in Nat
            /\ LevelOf(clients, a)' = Level(table[a]) - Cost
        BY <1>0, <2>3, <2>4, <3>4
      <4>2. Cost * granted'[a] = Cost * granted[a] + Cost /\ Cost * granted[a] \in Nat
        BY <1>0, <4>1
      <4>3. Rate * now \in Nat
        BY <1>0
      <4> QED
        BY <1>0, <2>3, <3>2, <3>4, <4>1, <4>2, <4>3
    <3>5. CASE k = a /\ ~ passes
      BY <2>3, <2>4, <3>2, <3>5
    <3> QED
      BY <3>3, <3>4, <3>5
  <2> QED
    BY <1>c, <2>4, <2>5 DEF Budget
<1>2. CASE Cleanup
  <2>1. /\ \A k : LevelOf(clients, k)' =
                    IF k \in NotFull(Idle) THEN Capacity ELSE LevelOf(clients, k)
        /\ forgotten' = forgotten \cup NotFull(Idle)
        /\ UNCHANGED <<now, granted>>
    BY <1>2, CleanupDrops DEF Cleanup
  <2> QED
    BY <1>c, <2>1 DEF Budget
<1>3. CASE Tick
  <2>1. /\ \A k : LevelOf(clients, k) \in 0..Capacity
        /\ \A k : LevelOf(clients, k)' = Min(Capacity, LevelOf(clients, k) + Rate)
        /\ now' = now + 1 /\ UNCHANGED <<granted, forgotten>>
    BY <1>3, TickFills DEF Tick
  <2>2. Rate * now' = Rate * now + Rate /\ Rate * now \in Nat
    BY <1>0, <2>1
  <2>3. ASSUME NEW k \in Address \ forgotten
        PROVE  Cost * granted[k] + LevelOf(clients, k)' <= Capacity + Rate * now'
    <3>1. Cost * granted[k] \in Nat
      BY <1>0
    <3>2. LevelOf(clients, k)' <= LevelOf(clients, k) + Rate
      BY <1>0, <2>1 DEF Min
    <3>3. LevelOf(clients, k)' \in Int
      BY <1>0, <2>1 DEF Min
    <3>4. Cost * granted[k] + LevelOf(clients, k) <= Capacity + Rate * now
      BY DEF Budget
    <3> QED
      BY <1>0, <2>1, <2>2, <3>1, <3>2, <3>3, <3>4
  <2> QED
    BY <1>c, <2>1, <2>3 DEF Budget
<1>4. CASE UNCHANGED vars
  BY <1>4 DEF vars, Budget, LevelOf, Level, Capacity, Burst, Cost
<1> QED
  BY <1>1, <1>2, <1>3, <1>4 DEF Next

\* An address that was never forgotten gets no more than its burst and what
\* flowed in since, whatever the others do to the table (Allow, Cleanup).
THEOREM BudgetKept == Spec => []WithinBudget
<1>1. TypeOK /\ Budget => WithinBudget
  <2> SUFFICES ASSUME TypeOK, Budget, NEW a \in Address \ forgotten
               PROVE  Cost * granted[a] <= Capacity + Rate * now
    BY DEF WithinBudget
  <2>1. LevelOf(clients, a) \in Nat
    BY Fields, Sizes DEF LevelOf
  <2>2. /\ Cost * granted[a] \in Nat /\ Rate * now \in Nat /\ Capacity \in Nat
    <3>1. Cost \in Nat /\ Rate \in Nat /\ granted[a] \in Nat /\ now \in Nat
      BY RateAssumption, TimeAssumption, Sizes DEF TypeOK
    <3> QED
      BY <3>1, Sizes
  <2>3. Cost * granted[a] + LevelOf(clients, a) <= Capacity + Rate * now
    BY DEF Budget
  <2> QED
    BY <2>1, <2>2, <2>3
<1> QED
  BY <1>1, TypeInit, TypeStep, BudgetInit, BudgetStep, PTL DEF Spec

\* If the burst refills in the time Cleanup waits, what it drops is full.
LEMMA IdleIsFull ==
  ASSUME Rate * IdleTicks >= Capacity, TypeOK, NEW k \in Idle
  PROVE  Level(clients[k]) = Capacity
<1> DEFINE d == now - clients[k].last
           left == clients[k].tokens
<1>1. k \in DOMAIN clients /\ now - clients[k].seen > IdleTicks
  BY DEF Idle
<1>2. /\ d \in Nat /\ left \in Nat /\ IdleTicks \in Nat /\ d > IdleTicks
  BY <1>1, Fields, Sizes, TimeAssumption
<1>3. Rate * d >= Rate * IdleTicks
  BY <1>2, RateAssumption
<1>4. Rate * d \in Nat /\ Rate * IdleTicks \in Nat
  BY <1>2, Inflow
<1>5. left + Rate * d >= Capacity
  <2> HIDE DEF d, left
  <2> QED
    BY <1>2, <1>3, <1>4, Sizes
<1> QED
  BY <1>2, <1>4, <1>5, Sizes DEF Level, Min

\* If the burst refills in the time Cleanup waits, only an eviction from a full
\* table forgets a bucket that was not full.
THEOREM OnlyEvictionsForget ==
  ASSUME Rate * IdleTicks >= Capacity
  PROVE  Spec => ForgetsOnlyForRoom
<1>1. ASSUME TypeOK, [Next]_vars, forgotten' # forgotten PROVE TableFull
  <2>1. ASSUME NEW a \in Address, Allow(a) PROVE TableFull
    BY <1>1, <2>1 DEF Allow, AllowTracked, AllowNew, AllowEvicting
  <2>2. CASE Cleanup
    <3>1. NotFull(Idle) = {}
      BY <1>1, IdleIsFull, Sizes DEF NotFull
    <3> QED
      BY <1>1, <2>2, <3>1 DEF Cleanup
  <2>3. CASE Tick
    BY <1>1, <2>3 DEF Tick
  <2>4. CASE UNCHANGED vars
    BY <1>1, <2>4 DEF vars
  <2> QED
    BY <1>1, <2>1, <2>2, <2>3, <2>4 DEF Next
<1>2. TypeOK /\ [Next]_vars => [forgotten' # forgotten => TableFull]_vars
  BY <1>1
<1> QED
  BY <1>2, TypeInit, TypeStep, PTL DEF Spec, ForgetsOnlyForRoom
-----------------------------------------------------------------------------
(* One address and the others.                                             *)

\* What a step may do to the bucket of an address.
OwnBucket(a) ==
  /\ Levels'[a] < Levels[a] =>
       /\ Levels'[a] = Levels[a] - Cost
       /\ granted'[a] = granted[a] + 1 /\ answer' = <<a, TRUE>>
  /\ granted'[a] # granted[a] => Levels[a] >= Cost /\ Levels'[a] = Levels[a] - Cost

\* A bucket goes down by a request of its own address that passes, by its cost,
\* and by nothing else: not by the requests of others, not by evictions made
\* for them and not by Cleanup (Allow, Cleanup).  Read off the abstract steps.
LEMMA BucketStepOwn ==
  ASSUME TypeOK, [Buckets!Next]_(Buckets!vars), NEW a \in Address
  PROVE  OwnBucket(a)
<1>0. /\ Cost \in Nat \ {0} /\ Capacity \in Nat /\ Rate \in Nat
      /\ granted \in [Address -> Nat]
  BY Sizes, RateAssumption DEF TypeOK
<1>1. \A k \in Address : Levels[k] \in 0..Capacity
  <2>1. \A k \in DOMAIN clients : Level(clients[k]) \in 0..Capacity
    BY Fields
  <2> QED
    BY <1>0, <2>1 DEF Levels
<1>2. ASSUME NEW lost \in SUBSET Address
      PROVE  /\ Buckets!Refilled(lost) \in [Address -> 0..Capacity]
             /\ Buckets!Refilled(lost)[a] >= Levels[a]
             /\ a \notin lost => Buckets!Refilled(lost)[a] = Levels[a]
  BY <1>0, <1>1 DEF Buckets!Refilled
<1>3. ASSUME NEW lost \in SUBSET Address, NEW b \in Address \ lost, Buckets!Grant(b, lost)
      PROVE  OwnBucket(a)
  <2>1. /\ Levels[b] >= Cost
        /\ Levels' = [Buckets!Refilled(lost) EXCEPT ![b] = @ - Cost]
        /\ granted' = [granted EXCEPT ![b] = @ + 1]
        /\ answer' = <<b, TRUE>>
    BY <1>3 DEF Buckets!Grant
  <2>2. CASE a = b
    <3>1. Levels'[a] = Levels[a] - Cost /\ granted'[a] = granted[a] + 1
      BY <1>0, <1>2, <2>1, <2>2
    <3> QED
      BY <2>1, <2>2, <3>1 DEF OwnBucket
  <2>3. CASE a # b
    <3>1. Levels'[a] = Buckets!Refilled(lost)[a] /\ granted'[a] = granted[a]
      BY <1>0, <1>2, <2>1, <2>3
    <3>2. ~ (Levels'[a] < Levels[a])
      BY <1>0, <1>1, <1>2, <3>1
    <3> QED
      BY <3>1, <3>2 DEF OwnBucket
  <2> QED
    BY <2>2, <2>3
<1>4. ASSUME NEW lost \in SUBSET Address, Levels' = Buckets!Refilled(lost), granted' = granted
      PROVE  OwnBucket(a)
  <2>1. ~ (Levels'[a] < Levels[a])
    BY <1>0, <1>1, <1>2, <1>4
  <2> QED
    BY <1>4, <2>1 DEF OwnBucket
<1>5. CASE Buckets!Flow
  <2>1. Levels'[a] = Min(Capacity, Levels[a] + Rate) /\ granted' = granted
    BY <1>5 DEF Buckets!Flow, Buckets!Min, Min
  <2>2. Min(Capacity, Levels[a] + Rate) >= Levels[a]
    BY <1>0, <1>1 DEF Min
  <2>3. ~ (Levels'[a] < Levels[a])
    <3>1. Levels[a] \in Int /\ Min(Capacity, Levels[a] + Rate) \in Int
      BY <1>0, <1>1 DEF Min
    <3> QED
      BY <2>1, <2>2, <3>1
  <2> QED
    BY <2>1, <2>3 DEF OwnBucket
<1>6. CASE UNCHANGED Buckets!vars
  <2>1. Levels' = Levels /\ granted' = granted
    BY <1>6 DEF Buckets!vars
  <2>2. ~ (Levels'[a] < Levels[a])
    BY <1>1, <2>1
  <2> QED
    BY <2>1, <2>2 DEF OwnBucket
<1> QED
  BY <1>3, <1>4, <1>5, <1>6 DEF Buckets!Next, Buckets!Refuse, Buckets!Forget

\* An address pays for its own requests only, whatever the table does.
THEOREM OthersCostNothing == Spec => [][\A a \in Address : OwnBucket(a)]_vars
<1>1. TypeOK /\ [Next]_vars => [\A a \in Address : OwnBucket(a)]_vars
  BY BucketsStep, BucketStepOwn
<1> QED
  BY <1>1, TypeInit, TypeStep, PTL DEF Spec

-----------------------------------------------------------------------------
(* Where the budget holds without exception, and where nobody has one.     *)

\* With no more addresses than the table has room for, and a burst that refills
\* in the time Cleanup waits, no bucket is ever forgotten: every address keeps
\* within its budget (Allow, Cleanup).
THEOREM BudgetOfAll ==
  ASSUME Rate * IdleTicks >= Capacity, IsFiniteSet(Address), Cardinality(Address) <= MaxClients
  PROVE  Spec => [](\A a \in Address : Cost * granted[a] <= Capacity + Rate * now)
<1> DEFINE Kept == forgotten = {}
<1>1. Init => Kept
  BY DEF Init
<1>2. TypeOK /\ Kept /\ [Next]_vars /\ [forgotten' # forgotten => TableFull]_vars => Kept'
  <2> SUFFICES ASSUME TypeOK, Kept, [Next]_vars,
                      [forgotten' # forgotten => TableFull]_vars, forgotten' # forgotten
               PROVE  FALSE
    OBVIOUS
  <2>1. TableFull
    BY DEF vars
  <2>2. DOMAIN clients = Address
    <3>1. DOMAIN clients \subseteq Address
      BY DEF TypeOK
    <3>2. IsFiniteSet(DOMAIN clients) /\ Cardinality(DOMAIN clients) <= Cardinality(Address)
      BY <3>1, FS_Subset
    <3>3. Cardinality(DOMAIN clients) \in Nat /\ Cardinality(Address) \in Nat
      BY <3>2, FS_CardinalityType
    <3>4. Cardinality(DOMAIN clients) = Cardinality(Address)
      BY <2>1, <3>2, <3>3, MaxClientsAssumption DEF TableFull
    <3> QED
      BY <3>1, <3>4, FS_Subset
  <2>3. ~ \E a \in Address : AllowEvicting(a)
    BY <2>2 DEF AllowEvicting
  <2>4. CASE Cleanup
    <3>1. NotFull(Idle) # {}
      BY <2>4 DEF Cleanup
    <3>2. PICK k \in Idle : Level(clients[k]) < Capacity
      BY <3>1 DEF NotFull
    <3> QED
      BY <3>2, IdleIsFull, Sizes
  <2>5. ~ Cleanup => forgotten' = forgotten
    BY <2>3 DEF Next, Allow, AllowTracked, AllowNew, Tick, vars
  <2> QED
    BY <2>4, <2>5
<1>3. Spec => ForgetsOnlyForRoom
  BY OnlyEvictionsForget
<1>4. Kept /\ WithinBudget => \A a \in Address : Cost * granted[a] <= Capacity + Rate * now
  BY DEF WithinBudget
<1> HIDE DEF Kept
<1> QED
  BY <1>1, <1>2, <1>3, <1>4, TypeInit, TypeStep, BudgetKept, PTL DEF Spec, ForgetsOnlyForRoom

\* A limiter that is on, with a burst of zero, lets nobody through, ever: only
\* a rate of zero as well switches it off (NewRateLimiter).
THEOREM ZeroBurstGrantsNothing ==
  ASSUME RateLimitBurst = 0
  PROVE  Spec => [](\A a \in Address : granted[a] = 0)
<1> DEFINE Nothing == \A a \in Address : granted[a] = 0
<1>1. Init => Nothing
  BY DEF Init
<1>2. TypeOK /\ Nothing /\ [Next]_vars => Nothing'
  <2> SUFFICES ASSUME TypeOK, Nothing, [Next]_vars, NEW a \in Address PROVE granted'[a] = 0
    OBVIOUS
  <2>1. OwnBucket(a)
    BY BucketsStep, BucketStepOwn
  <2>2. Capacity = 0 /\ Cost \in Nat \ {0}
    BY Sizes DEF Capacity, Burst
  <2>3. Levels[a] \in 0..Capacity
    BY Fields, Sizes DEF Levels
  <2>4. granted'[a] = granted[a]
    BY <2>1, <2>2, <2>3 DEF OwnBucket
  <2> QED
    BY <2>4
<1> QED
  BY <1>1, <1>2, TypeInit, TypeStep, PTL DEF Spec
=============================================================================
