----------------------------- MODULE RateLimiter -----------------------------
(***************************************************************************)
(* RateLimiter (internal/api/rate_limiter.go): a table of token buckets,   *)
(* one per address that was seen lately, never more than maxClients at a   *)
(* time.  Allow and Cleanup hold the limiter's mutex for their whole body. *)
(*                                                                         *)
(* The buckets are golang.org/x/time/rate limiters: Allow first adds what  *)
(* has flowed in since the last request that passed, up to the burst, and  *)
(* changes the bucket only when the request passes.  Time is counted in    *)
(* ticks of any length, and tokens in parts of a request, so that requests *)
(* per minute are Rate parts per tick.  The clock may show the same time   *)
(* to several calls.                                                       *)
(***************************************************************************)
EXTENDS Integers, FiniteSets

CONSTANTS Address,
          Rate,             \* Config.RateLimit, requests per minute
          RateLimitBurst,   \* Config.RateLimitBurst
          MaxClients,       \* Config.MaxClients, validated to be positive
          TicksPerMinute,
          IdleTicks,        \* the ten minutes of Cleanup
          PerInstant,       \* bound on the calls at one reading of the clock
          MaxTime           \* bound on the clock

\* A limiter that is switched on, by a positive rate.
ASSUME RateAssumption == Rate \in Nat \ {0} /\ RateLimitBurst \in Int
ASSUME MaxClientsAssumption == MaxClients \in Nat \ {0}
ASSUME TimeAssumption ==
  /\ TicksPerMinute \in Nat \ {0}
  /\ IdleTicks \in Nat
  /\ PerInstant \in Nat \ {0}
  /\ MaxTime \in Nat

VARIABLES now,
          clients,      \* rl.clients: address -> bucket
          granted,      \* history: requests let through, per address
          answer,       \* history: what the latest call of Allow returned
          forgotten,    \* history: addresses dropped with their bucket not full
          calls         \* history: calls of Allow at this reading of the clock

vars == <<now, clients, granted, answer, forgotten, calls>>

\* NewRateLimiter: a negative burst stands for the rate.
Burst == IF RateLimitBurst < 0 THEN Rate ELSE RateLimitBurst

Cost == TicksPerMinute
Capacity == Burst * Cost

Min(a, b) == IF a <= b THEN a ELSE b

Init ==
  /\ now = 0
  /\ clients = [a \in {} |-> 0]
  /\ granted = [a \in Address |-> 0]
  /\ answer = <<>>
  /\ forgotten = {}
  /\ calls = 0

\* rate.Limiter's advance: what the bucket holds now.
Level(bucket) == Min(Capacity, bucket.tokens + Rate * (now - bucket.last))

Fresh == [tokens |-> Capacity, last |-> now, seen |-> now]
With(table, a) == [k \in DOMAIN table \cup {a} |-> IF k = a THEN Fresh ELSE table[k]]
Without(table, dropped) == [k \in DOMAIN table \ dropped |-> table[k]]
NotFull(dropped) == {k \in dropped : Level(clients[k]) < Capacity}

\* Mutant: LastUpdated is set for a new entry only.
TakeUnseen(bucket) ==
  IF Level(bucket) >= Cost
    THEN [bucket EXCEPT !.tokens = Level(bucket) - Cost, !.last = now]
    ELSE bucket

\* Mutant: what flowed in is counted again at the next request.
TakeTwice(bucket) ==
  IF Level(bucket) >= Cost
    THEN [bucket EXCEPT !.tokens = Level(bucket) - Cost, !.seen = now]
    ELSE [bucket EXCEPT !.seen = now]

\* Mutant: a refused request loses what has flowed in.
TakeAndLose(bucket) ==
  IF Level(bucket) >= Cost
    THEN [tokens |-> Level(bucket) - Cost, last |-> now, seen |-> now]
    ELSE [bucket EXCEPT !.last = now, !.seen = now]

\* limiter.LastUpdated = time.Now(), then limiter.Limit.Allow().
Take(bucket) ==
  IF Level(bucket) >= Cost
    THEN [tokens |-> Level(bucket) - Cost, last |-> now, seen |-> now]
    ELSE [bucket EXCEPT !.seen = now]

\* The end of Allow, on the table that by now holds the address.
Decide(table, a) ==
  LET passes == Level(table[a]) >= Cost IN
  /\ calls < PerInstant
  /\ calls' = calls + 1
  /\ clients' = [table EXCEPT ![a] = Take(@)]
  /\ granted' = IF passes THEN [granted EXCEPT ![a] = @ + 1] ELSE granted
  /\ answer' = <<a, passes>>
  /\ UNCHANGED now

TableFull == Cardinality(DOMAIN clients) >= MaxClients

\* Mutant: After in place of Before.
OlderAfter == {k \in DOMAIN clients : clients[k].seen > now}

\* The search for the oldest entry starts from now: an entry of this very
\* instant is not older, and the search may find none.
Older == {k \in DOMAIN clients : clients[k].seen < now}

\* What it can find; equal entries come in any order.
Oldest == {k \in Older : \A j \in Older : clients[k].seen <= clients[j].seen}

AllowTracked(a) ==
  /\ a \in DOMAIN clients
  /\ Decide(clients, a)
  /\ UNCHANGED forgotten

AllowNew(a) ==
  /\ a \notin DOMAIN clients
  /\ ~ TableFull \/ Older = {}
  /\ Decide(With(clients, a), a)
  /\ UNCHANGED forgotten

AllowEvicting(a) ==
  /\ a \notin DOMAIN clients
  /\ TableFull
  /\ \E victim \in Oldest :
       /\ Decide(With(Without(clients, {victim}), a), a)
       /\ forgotten' = forgotten \cup NotFull({victim})

Allow(a) == AllowTracked(a) \/ AllowNew(a) \/ AllowEvicting(a)

\* Mutant: seconds in place of minutes.
IdleSeconds == {k \in DOMAIN clients : now - clients[k].seen > IdleTicks \div 60}

Idle == {k \in DOMAIN clients : now - clients[k].seen > IdleTicks}

Cleanup ==
  /\ Idle # {}
  /\ clients' = Without(clients, Idle)
  /\ forgotten' = forgotten \cup NotFull(Idle)
  /\ UNCHANGED <<now, granted, answer, calls>>

Tick ==
  /\ now < MaxTime
  /\ now' = now + 1
  /\ calls' = 0
  /\ UNCHANGED <<clients, granted, answer, forgotten>>

Next == (\E a \in Address : Allow(a)) \/ Cleanup \/ Tick

Spec == Init /\ [][Next]_vars

-----------------------------------------------------------------------------
(* Properties.                                                             *)

Bucket == [tokens : 0..Capacity, last : 0..MaxTime, seen : 0..MaxTime]

\* The type invariant; no entry is ahead of the clock, and a bucket is never
\* touched without its client being seen.
TypeOK ==
  /\ now \in 0..MaxTime
  /\ DOMAIN clients \subseteq Address
  /\ \A a \in DOMAIN clients :
       /\ clients[a] \in Bucket
       /\ clients[a].last <= clients[a].seen /\ clients[a].seen <= now
  /\ granted \in [Address -> Nat]
  /\ answer \in {<<>>} \cup (Address \X BOOLEAN)
  /\ forgotten \subseteq Address
  /\ calls \in 0..PerInstant

\* "cap maximum number of tracked clients to prevent unbounded memory growth"
\* (rate_limiter.go:18): the eviction finds no entry older than the instant of
\* the call itself, and the table holds all the same no more than maxClients
\* or, where that is more, the calls at one reading of the clock.
TableBounded ==
  \/ Cardinality(DOMAIN clients) <= MaxClients
  \/ Cardinality(DOMAIN clients) <= PerInstant

\* However often entries are dropped and made again, an address whose bucket
\* was never forgotten gets no more than its burst and what flowed in since.
WithinBudget ==
  \A a \in Address \ forgotten : Cost * granted[a] <= Capacity + Rate * now

\* A bucket is only forgotten to make room in a full table: Cleanup, if the
\* burst refills in its ten minutes, drops buckets that are full again.
ForgetsOnlyForRoom == [][forgotten' # forgotten => TableFull]_vars

\* An address that is not tracked has a full bucket.
Levels == [a \in Address |-> IF a \in DOMAIN clients THEN Level(clients[a]) ELSE Capacity]

Buckets == INSTANCE TokenBuckets WITH level <- Levels

\* The limiter implements a bucket per address: an address's requests pass or
\* are refused by its own bucket alone, tracked or not.
KeepsBuckets == Buckets!Spec
=============================================================================
