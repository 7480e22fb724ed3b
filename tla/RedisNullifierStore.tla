------------------------ MODULE RedisNullifierStore ------------------------
(***************************************************************************)
(* RedisNullifierStore.CheckAndStore (internal/storage/nullifier_redis.go) *)
(* as the server wires it (internal/api/server.go, storage/redis.go):      *)
(* handlers of any number of server processes share one Redis, the answer  *)
(* to a command can come too late, the client library then sends the       *)
(* command again, and keys run out.                                        *)
(*                                                                         *)
(* The go-redis client and Redis are outside the repository.  What is used *)
(* of them: SET key "1" NX PX ttl is atomic in Redis; the client polls the *)
(* context before each attempt and not while it waits; a timeout or broken *)
(* connection ends the attempt, whose command may still be executed, and   *)
(* after MaxRetries further attempts the call fails.  A handler that dies  *)
(* with its process is one that takes no further step.                     *)
(***************************************************************************)
EXTENDS Integers

CONSTANTS Request,          \* calls of CheckAndStore, over all processes
          Nullifier,
          NoNullifier,      \* a call not made yet
          RedisExpiration,  \* Config.RedisExpiration, validated to be positive
          MaxRetries,       \* redis.Options.MaxRetries
          MaxClock          \* bound on the clock, in milliseconds

ASSUME ExpirationAssumption == RedisExpiration \in Nat \ {0}
ASSUME RetriesAssumption == MaxRetries \in Nat
ASSUME ClockAssumption == MaxClock \in Nat
ASSUME NoNullifierAssumption == NoNullifier \notin Nullifier

VARIABLES pc,         \* idle, send, wait or done
          arg,        \* the nullifier of the call
          attempt,    \* number of the attempt under way, from 0
          answer,     \* Redis's reply to the attempt under way, if it came
          result,     \* what CheckAndStore returned
          cancelled,  \* calls whose request context is done
          wire,       \* commands sent and not executed
          keys,       \* the database: nullifier -> instant it runs out
          clock,
          writes      \* history: every write to the database

call == <<pc, arg, attempt, answer, result>>
vars == <<call, cancelled, wire, keys, clock, writes>>

NanosPerMilli == 1000000

\* NewServer makes the number a time.Duration, a count of nanoseconds;
\* go-redis sends it in milliseconds, and never less than one.
TTL == IF RedisExpiration < NanosPerMilli THEN 1
       ELSE RedisExpiration \div NanosPerMilli

Init ==
  /\ pc = [r \in Request |-> "idle"]
  /\ arg = [r \in Request |-> NoNullifier]
  /\ attempt = [r \in Request |-> 0]
  /\ answer = [r \in Request |-> "none"]
  /\ result = [r \in Request |-> "none"]
  /\ cancelled = {}
  /\ wire = {}
  /\ keys = [n \in {} |-> 0]
  /\ clock = 0
  /\ writes = {}

\* Consume calls CheckAndStore with the nullifier it has computed.
CheckAndStore(r, n) ==
  /\ pc[r] = "idle"
  /\ pc' = [pc EXCEPT ![r] = "send"]
  /\ arg' = [arg EXCEPT ![r] = n]
  /\ UNCHANGED <<attempt, answer, result, cancelled, wire, keys, clock, writes>>

GiveUp(r) ==
  /\ pc[r] = "send"
  /\ r \in cancelled
  /\ pc' = [pc EXCEPT ![r] = "done"]
  /\ result' = [result EXCEPT ![r] = "error"]
  /\ UNCHANGED <<arg, attempt, answer, cancelled, wire, keys, clock, writes>>

Send(r) ==
  /\ pc[r] = "send"
  /\ r \notin cancelled
  /\ pc' = [pc EXCEPT ![r] = "wait"]
  /\ wire' = wire \cup {<<r, attempt[r]>>}
  /\ UNCHANGED <<arg, attempt, answer, result, cancelled, keys, clock, writes>>

\* A reply reaches the attempt that is waiting for it; a late one is dropped
\* with its connection.
AnswerTo(r, n, text) ==
  IF pc[r] = "wait" /\ attempt[r] = n
    THEN answer' = [answer EXCEPT ![r] = text]
    ELSE UNCHANGED answer

Live(n) == n \in DOMAIN keys /\ clock < keys[n]

\* Mutant: a plain SET, which overwrites.
ExecuteSet(r, n) ==
  /\ wire' = wire \ {<<r, n>>}
  /\ keys' = [m \in DOMAIN keys \cup {arg[r]} |->
                IF m = arg[r] THEN clock + TTL ELSE keys[m]]
  /\ writes' = writes \cup {[nullifier |-> arg[r], by |-> r, try |-> n, at |-> clock]}
  /\ AnswerTo(r, n, "new")
  /\ UNCHANGED <<pc, arg, attempt, result, cancelled, clock>>

ExecuteNew(r, n) ==
  /\ ~ Live(arg[r])
  /\ wire' = wire \ {<<r, n>>}
  /\ keys' = [m \in DOMAIN keys \cup {arg[r]} |->
                IF m = arg[r] THEN clock + TTL ELSE keys[m]]
  /\ writes' = writes \cup {[nullifier |-> arg[r], by |-> r, try |-> n, at |-> clock]}
  /\ AnswerTo(r, n, "new")
  /\ UNCHANGED <<pc, arg, attempt, result, cancelled, clock>>

\* Mutant: SETNX's two answers swapped for a key that is new.
ExecuteExistsAlways(r, n) ==
  /\ wire' = wire \ {<<r, n>>}
  /\ AnswerTo(r, n, "exists")
  /\ UNCHANGED <<pc, arg, attempt, result, cancelled, keys, clock, writes>>

ExecuteExists(r, n) ==
  /\ Live(arg[r])
  /\ wire' = wire \ {<<r, n>>}
  /\ AnswerTo(r, n, "exists")
  /\ UNCHANGED <<pc, arg, attempt, result, cancelled, keys, clock, writes>>

Execute == \E command \in wire :
             \/ ExecuteNew(command[1], command[2])
             \/ ExecuteExists(command[1], command[2])

\* Mutant: a nullifier that is already there is reported as stored.
ReceiveAsStored(r) ==
  /\ pc[r] = "wait"
  /\ answer[r] # "none"
  /\ pc' = [pc EXCEPT ![r] = "done"]
  /\ result' = [result EXCEPT ![r] = "new"]
  /\ UNCHANGED <<arg, attempt, answer, cancelled, wire, keys, clock, writes>>

\* The two outcomes without an error, as CheckAndStore returns them.
Receive(r) ==
  /\ pc[r] = "wait"
  /\ answer[r] # "none"
  /\ pc' = [pc EXCEPT ![r] = "done"]
  /\ result' = [result EXCEPT ![r] = answer[r]]
  /\ UNCHANGED <<arg, attempt, answer, cancelled, wire, keys, clock, writes>>

\* Mutant: attempts are not counted.
RetryForever(r) ==
  /\ pc[r] = "wait"
  /\ pc' = [pc EXCEPT ![r] = "send"]
  /\ answer' = [answer EXCEPT ![r] = "none"]
  /\ UNCHANGED <<arg, attempt, result, cancelled, wire, keys, clock, writes>>

\* Mutant: one attempt too many.
RetryOnceMore(r) ==
  /\ pc[r] = "wait"
  /\ attempt[r] <= MaxRetries
  /\ pc' = [pc EXCEPT ![r] = "send"]
  /\ attempt' = [attempt EXCEPT ![r] = @ + 1]
  /\ answer' = [answer EXCEPT ![r] = "none"]
  /\ UNCHANGED <<arg, result, cancelled, wire, keys, clock, writes>>

\* The attempt times out, or its connection breaks, with the command or the
\* reply still under way; the client library sends the command again.
Retry(r) ==
  /\ pc[r] = "wait"
  /\ attempt[r] < MaxRetries
  /\ pc' = [pc EXCEPT ![r] = "send"]
  /\ attempt' = [attempt EXCEPT ![r] = @ + 1]
  /\ answer' = [answer EXCEPT ![r] = "none"]
  /\ UNCHANGED <<arg, result, cancelled, wire, keys, clock, writes>>

\* The last attempt fails: CheckAndStore returns the error.
Fail(r) ==
  /\ pc[r] = "wait"
  /\ attempt[r] = MaxRetries
  /\ pc' = [pc EXCEPT ![r] = "done"]
  /\ result' = [result EXCEPT ![r] = "error"]
  /\ UNCHANGED <<arg, attempt, answer, cancelled, wire, keys, clock, writes>>

Cancel(r) ==
  /\ pc[r] \in {"send", "wait"}
  /\ r \notin cancelled
  /\ cancelled' = cancelled \cup {r}
  /\ UNCHANGED <<call, wire, keys, clock, writes>>

Tick ==
  /\ clock < MaxClock
  /\ clock' = clock + 1
  /\ UNCHANGED <<call, cancelled, wire, keys, writes>>

Client(r) == GiveUp(r) \/ Send(r) \/ Receive(r) \/ Retry(r) \/ Fail(r)

Next ==
  \/ \E r \in Request :
       (\E n \in Nullifier : CheckAndStore(r, n)) \/ Client(r) \/ Cancel(r)
  \/ Execute
  \/ Tick

\* The client library's loop always gets on: it answers, retries or fails.
Spec == Init /\ [][Next]_vars
FairSpec == Spec /\ \A r \in Request : WF_vars(Client(r))

-----------------------------------------------------------------------------
(* Properties.                                                             *)

Command == Request \X (0..MaxRetries)
Write == [nullifier : Nullifier, by : Request, try : 0..MaxRetries, at : 0..MaxClock]

\* The type invariant.
TypeOK ==
  /\ pc \in [Request -> {"idle", "send", "wait", "done"}]
  /\ arg \in [Request -> Nullifier \cup {NoNullifier}]
  /\ \A r \in Request : pc[r] # "idle" => arg[r] \in Nullifier
  /\ attempt \in [Request -> 0..MaxRetries]
  /\ answer \in [Request -> {"none", "new", "exists"}]
  /\ result \in [Request -> {"none", "new", "exists", "error"}]
  /\ cancelled \subseteq Request
  /\ wire \subseteq Command
  /\ \A command \in wire : pc[command[1]] # "idle"
  /\ DOMAIN keys \subseteq Nullifier
  /\ \A n \in DOMAIN keys : keys[n] \in Nat
  /\ clock \in 0..MaxClock
  /\ writes \subseteq Write

\* The writes of one nullifier are a whole time-to-live apart, however many
\* processes, retries and late commands there are (SETNX in CheckAndStore).
WritesApart ==
  \A w1, w2 \in writes :
    w1.nullifier = w2.nullifier /\ w1 # w2
      => w1.at + TTL <= w2.at \/ w2.at + TTL <= w1.at

\* Every "new" that CheckAndStore returned is backed by the call's own write,
\* so two acceptances of one credential are as far apart as their writes.
NewIsOwnWrite ==
  \A r \in Request : result[r] = "new" =>
    \E w \in writes : w.by = r /\ w.nullifier = arg[r] /\ w.try = attempt[r]

\* "exists" is answered because of an earlier write: a rival call's, or one
\* made by an earlier attempt of the same call whose reply was lost.
ExistsIsExplained ==
  \A r \in Request : result[r] = "exists" =>
    \E w \in writes :
      w.nullifier = arg[r] /\ (w.by # r \/ w.try < attempt[r])

\* Every call returns, however often its attempts fail.
EveryCallReturns == \A r \in Request : pc[r] = "send" ~> pc[r] = "done"

\* "(false, nil) if nullifier already exists (replay attempt)"
\* (internal/storage/store.go:13): only a credential that another call had
\* stored is reported as a replay.
ExistsMeansReplay ==
  \A r \in Request : result[r] = "exists" =>
    \E w \in writes : w.nullifier = arg[r] /\ w.by # r

\* The configured expiration is "30 days in seconds" (internal/service/
\* config.go:48): no credential is accepted again before they are over.
RememberedAsConfigured ==
  \A r1, r2 \in Request :
    r1 # r2 /\ result[r1] = "new" /\ result[r2] = "new" /\ arg[r1] = arg[r2] =>
      \A w1, w2 \in writes :
        w1.by = r1 /\ w2.by = r2 /\ w1.at <= w2.at
          => (w2.at - w1.at) \div 1000 >= RedisExpiration
=============================================================================
