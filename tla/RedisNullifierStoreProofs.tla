--------------------- MODULE RedisNullifierStoreProofs ---------------------
(***************************************************************************)
(* What the Redis-backed nullifier store guarantees for any number of      *)
(* calls, processes and retries and any expiration: writes of a nullifier  *)
(* are a time-to-live apart, both answers are explained by writes, a       *)
(* refusal in a first attempt by another's, and a call comes to an end.    *)
(***************************************************************************)
EXTENDS RedisNullifierStore, TLAPS

\* A key always lives for at least one tick (NewServer's TTL and go-redis's
\* rounding up to a millisecond).
LEMMA TTLPositive == TTL \in Nat /\ TTL >= 1
<1>1. CASE RedisExpiration < NanosPerMilli
  BY <1>1 DEF TTL
<1>2. CASE RedisExpiration >= NanosPerMilli
  BY <1>2, ExpirationAssumption DEF TTL, NanosPerMilli
<1> QED
  BY <1>1, <1>2, ExpirationAssumption DEF NanosPerMilli

-----------------------------------------------------------------------------
\* The types hold initially.
LEMMA TypeInit == Init => TypeOK
BY RetriesAssumption, ClockAssumption DEF Init, TypeOK

\* Every step of a call, of Redis or of the clock keeps the types.
LEMMA TypeStep == TypeOK /\ [Next]_vars => TypeOK'
<1> SUFFICES ASSUME TypeOK, [Next]_vars PROVE TypeOK'
  OBVIOUS
<1> USE DEF TypeOK, Command
<1>1. ASSUME NEW r \in Request, NEW n \in Nullifier, CheckAndStore(r, n) PROVE TypeOK'
  BY <1>1 DEF CheckAndStore
<1>2. ASSUME NEW r \in Request, Client(r) PROVE TypeOK'
  BY <1>2, RetriesAssumption DEF Client, GiveUp, Send, Receive, Retry, Fail
<1>3. ASSUME NEW r \in Request, Cancel(r) PROVE TypeOK'
  BY <1>3 DEF Cancel, call
<1>4. ASSUME NEW command \in wire, ExecuteNew(command[1], command[2]) PROVE TypeOK'
  <2> DEFINE r == command[1]
             w == [nullifier |-> arg[r], by |-> r, try |-> command[2], at |-> clock]
  <2>1. r \in Request /\ command[2] \in 0..MaxRetries /\ arg[r] \in Nullifier
    OBVIOUS
  <2>2. writes' \subseteq Write
    <3>1. writes' = writes \cup {w}
      BY <1>4 DEF ExecuteNew
    <3>2. w \in Write
      BY <2>1 DEF Write
    <3> QED
      BY <3>1, <3>2
  <2>3. DOMAIN keys' \subseteq Nullifier /\ \A n \in DOMAIN keys' : keys'[n] \in Nat
    BY <1>4, <2>1, TTLPositive, ClockAssumption DEF ExecuteNew
  <2>4. answer' \in [Request -> {"none", "new", "exists"}]
    BY <1>4, <2>1 DEF ExecuteNew, AnswerTo
  <2> QED
    BY <1>4, <2>2, <2>3, <2>4 DEF ExecuteNew
<1>5. ASSUME NEW command \in wire, ExecuteExists(command[1], command[2]) PROVE TypeOK'
  BY <1>5 DEF ExecuteExists, AnswerTo
<1>6. CASE Tick
  BY <1>6, ClockAssumption DEF Tick, call
<1>7. CASE UNCHANGED vars
  BY <1>7 DEF vars, call
<1> QED
  BY <1>1, <1>2, <1>3, <1>4, <1>5, <1>6, <1>7 DEF Next, Execute

\* Every reachable state of the store and its callers is well-typed.
THEOREM TypeCorrect == Spec => []TypeOK
BY TypeInit, TypeStep, PTL DEF Spec

-----------------------------------------------------------------------------
(* The inductive invariant.  That a write comes a time-to-live after the   *)
(* others follows from what the key's instant says of them (WriteOK); that *)
(* an answer is explained by somebody else's write or an earlier attempt   *)
(* follows because a command still on the wire has written nothing yet.    *)

OwnWrite(r) ==
  \E w \in writes : w.by = r /\ w.nullifier = arg[r] /\ w.try = attempt[r]

Explained(r) ==
  \E w \in writes : w.nullifier = arg[r] /\ (w.by # r \/ w.try < attempt[r])

WriteOK(w) ==
  /\ w.at <= clock
  /\ w.nullifier \in DOMAIN keys
  /\ w.at + TTL <= keys[w.nullifier]
  /\ w.nullifier = arg[w.by] /\ pc[w.by] # "idle"
  /\ w.try <= attempt[w.by]
  /\ <<w.by, w.try>> \notin wire
  /\ pc[w.by] = "send" => w.try < attempt[w.by]

CommandOK(command) ==
  /\ command[2] <= attempt[command[1]]
  /\ pc[command[1]] = "send" => command[2] < attempt[command[1]]

CallOK(r) ==
  /\ "new" \in {answer[r], result[r]} => OwnWrite(r)
  /\ "exists" \in {answer[r], result[r]} => Explained(r)
  /\ result[r] # "none" => pc[r] = "done"
  /\ pc[r] = "idle" => answer[r] = "none"

IInv ==
  /\ TypeOK
  /\ \A w \in writes : WriteOK(w)
  /\ \A command \in wire : CommandOK(command)
  /\ \A n \in DOMAIN keys : \E w \in writes : w.nullifier = n
  /\ \A r \in Request : CallOK(r)
  /\ WritesApart

\* The invariant holds before any call is made.
LEMMA InvInit == Init => IInv
BY TypeInit DEF Init, IInv, CallOK, WritesApart

\* A caller's own step: the database stays as it is, and the call's commands
\* and writes stay behind its attempt counter.
LEMMA ClientStep ==
  ASSUME IInv, TypeOK', NEW r \in Request, Client(r)
  PROVE  IInv'
<1> USE DEF IInv, TypeOK, Command
<1>1. writes' = writes /\ keys' = keys /\ clock' = clock /\ arg' = arg
  BY DEF Client, GiveUp, Send, Receive, Retry, Fail
<1>2. \A w \in writes' : w.by \in Request /\ w.try \in 0..MaxRetries
  BY <1>1 DEF Write
<1>3. WritesApart'
  BY <1>1 DEF WritesApart, TTL
<1>4. \A w \in writes' : WriteOK(w)'
  <2> SUFFICES ASSUME NEW w \in writes PROVE WriteOK(w)'
    BY <1>1
  <2>1. WriteOK(w) /\ w.by \in Request /\ w.try \in 0..MaxRetries
    BY <1>1, <1>2
  <2>2. CASE Send(r)
    BY <1>1, <2>1, <2>2 DEF Send, WriteOK, TTL
  <2>3. CASE GiveUp(r) \/ Receive(r) \/ Fail(r)
    BY <1>1, <2>1, <2>3 DEF GiveUp, Receive, Fail, WriteOK, TTL
  <2>4. CASE Retry(r)
    BY <1>1, <2>1, <2>4 DEF Retry, WriteOK, TTL
  <2> QED
    BY <2>2, <2>3, <2>4 DEF Client
<1>5. \A command \in wire' : CommandOK(command)'
  BY DEF Client, GiveUp, Send, Receive, Retry, Fail, CommandOK
<1>6. \A q \in Request : CallOK(q)'
  <2> SUFFICES ASSUME NEW q \in Request PROVE CallOK(q)'
    OBVIOUS
  <2>1. CallOK(q)
    OBVIOUS
  <2>2. CASE Retry(r)
    BY <1>1, <1>2, <2>1, <2>2 DEF Retry, CallOK, OwnWrite, Explained
  <2>3. CASE GiveUp(r) \/ Send(r) \/ Receive(r) \/ Fail(r)
    BY <1>1, <2>1, <2>3 DEF GiveUp, Send, Receive, Fail, CallOK, OwnWrite, Explained
  <2> QED
    BY <2>2, <2>3 DEF Client
<1> QED
  BY <1>1, <1>3, <1>4, <1>5, <1>6

\* Redis writes: the key had run out, so every earlier write of it is a
\* time-to-live back; the writer's answer is its own write.
LEMMA WriteStep ==
  ASSUME IInv, TypeOK', NEW command \in wire, ExecuteNew(command[1], command[2])
  PROVE  IInv'
<1> DEFINE r == command[1]
           w0 == [nullifier |-> arg[r], by |-> r, try |-> command[2], at |-> clock]
<1> USE DEF IInv
<1>1. /\ r \in Request /\ command[2] \in 0..MaxRetries /\ command = <<r, command[2]>>
      /\ arg[r] \in Nullifier /\ pc[r] # "idle" /\ clock \in Nat
  BY ClockAssumption DEF TypeOK, Command
<1>2. /\ writes' = writes \cup {w0} /\ wire' = wire \ {command}
      /\ pc' = pc /\ arg' = arg /\ attempt' = attempt /\ clock' = clock
      /\ result' = result
      /\ DOMAIN keys' = DOMAIN keys \cup {arg[r]} /\ keys'[arg[r]] = clock + TTL
      /\ \A n \in DOMAIN keys : n # arg[r] => keys'[n] = keys[n]
  BY <1>1 DEF ExecuteNew
<1>3. \A w \in writes : /\ w.by \in Request /\ w.try \in 0..MaxRetries
                        /\ w.at \in Nat /\ w.nullifier \in DOMAIN keys
                        /\ keys[w.nullifier] \in Nat /\ WriteOK(w)
  <2> SUFFICES ASSUME NEW w \in writes
               PROVE  /\ w.by \in Request /\ w.try \in 0..MaxRetries
                      /\ w.at \in Nat /\ w.nullifier \in DOMAIN keys
                      /\ keys[w.nullifier] \in Nat /\ WriteOK(w)
    OBVIOUS
  <2>1. WriteOK(w) /\ w \in Write
    BY DEF TypeOK
  <2>2. w.by \in Request /\ w.try \in 0..MaxRetries /\ w.at \in Nat
    BY <2>1, ClockAssumption DEF Write
  <2> QED
    BY <2>1, <2>2 DEF WriteOK, TypeOK
<1>4. \A w \in writes : w.nullifier = arg[r] => w.at + TTL <= clock
  <2> SUFFICES ASSUME NEW w \in writes, w.nullifier = arg[r]
               PROVE  w.at + TTL <= clock
    OBVIOUS
  <2>1. w.at + TTL <= keys[arg[r]] /\ arg[r] \in DOMAIN keys /\ keys[arg[r]] \in Nat
    BY <1>3 DEF WriteOK
  <2>2. keys[arg[r]] <= clock
    BY <1>1, <2>1 DEF ExecuteNew, Live
  <2> QED
    BY <1>1, <1>3, <2>1, <2>2, TTLPositive
<1>5. WritesApart'
  <2> SUFFICES ASSUME NEW w1 \in writes', NEW w2 \in writes',
                      w1.nullifier = w2.nullifier, w1 # w2
               PROVE  w1.at + TTL <= w2.at \/ w2.at + TTL <= w1.at
    BY DEF WritesApart, TTL
  <2>1. CASE w1 \in writes /\ w2 \in writes
    BY <2>1 DEF WritesApart
  <2>2. CASE w1 = w0 \/ w2 = w0
    BY <1>2, <1>4, <2>2
  <2> QED
    BY <1>2, <2>1, <2>2
<1>6. \A w \in writes' : WriteOK(w)'
  <2> SUFFICES ASSUME NEW w \in writes' PROVE WriteOK(w)'
    OBVIOUS
  <2>1. CASE w = w0
    <3>1. CommandOK(command)
      OBVIOUS
    <3> QED
      BY <1>1, <1>2, <2>1, <3>1, TTLPositive DEF WriteOK, CommandOK, TTL
  <2>2. CASE w \in writes /\ w.nullifier = arg[r]
    BY <1>1, <1>2, <1>3, <1>4, <2>2, TTLPositive DEF WriteOK, TTL
  <2>3. CASE w \in writes /\ w.nullifier # arg[r]
    BY <1>1, <1>2, <1>3, <2>3 DEF WriteOK, TTL
  <2> QED
    BY <1>2, <2>1, <2>2, <2>3
<1>7. \A c \in wire' : CommandOK(c)'
  BY <1>2 DEF CommandOK
<1>8. \A n \in DOMAIN keys' : \E w \in writes' : w.nullifier = n
  <2>1. w0 \in writes' /\ w0.nullifier = arg[r] /\ writes \subseteq writes'
    BY <1>2
  <2> QED
    BY <1>2, <2>1
<1>9. \A q \in Request : CallOK(q)'
  <2> SUFFICES ASSUME NEW q \in Request PROVE CallOK(q)'
    OBVIOUS
  <2>1. CallOK(q) /\ (OwnWrite(q) => OwnWrite(q)') /\ (Explained(q) => Explained(q)')
    BY <1>2 DEF OwnWrite, Explained
  <2>2. CASE answer'[q] = answer[q]
    BY <1>2, <2>1, <2>2 DEF CallOK
  <2>3. CASE answer'[q] # answer[q]
    <3>1. q = r /\ pc[r] = "wait" /\ attempt[r] = command[2] /\ answer'[r] = "new"
      BY <1>1, <2>3 DEF ExecuteNew, AnswerTo, TypeOK
    <3>2. w0 \in writes' /\ w0.by = r /\ w0.nullifier = arg[r] /\ w0.try = command[2]
      BY <1>2
    <3>3. OwnWrite(q)'
      BY <1>2, <3>1, <3>2 DEF OwnWrite
    <3> QED
      BY <1>2, <2>1, <3>1, <3>3 DEF CallOK
  <2> QED
    BY <2>2, <2>3
<1> QED
  BY <1>5, <1>6, <1>7, <1>8, <1>9

\* Redis refuses: the key's write is another call's or an earlier attempt's,
\* because this attempt's command was still on the wire.
LEMMA RefuseStep ==
  ASSUME IInv, TypeOK', NEW command \in wire, ExecuteExists(command[1], command[2])
  PROVE  IInv'
<1> DEFINE r == command[1]
<1> USE DEF IInv
<1>1. /\ r \in Request /\ command[2] \in 0..MaxRetries /\ command = <<r, command[2]>>
  BY DEF TypeOK, Command
<1>2. /\ wire' = wire \ {command} /\ pc' = pc /\ arg' = arg /\ attempt' = attempt
      /\ result' = result /\ keys' = keys /\ clock' = clock /\ writes' = writes
  BY <1>1 DEF ExecuteExists
<1>3. \A w \in writes : w.by \in Request /\ w.try \in 0..MaxRetries /\ WriteOK(w)
  BY DEF TypeOK, Write
<1>4. \A q \in Request : CallOK(q)'
  <2> SUFFICES ASSUME NEW q \in Request PROVE CallOK(q)'
    OBVIOUS
  <2>1. CallOK(q) /\ (OwnWrite(q) <=> OwnWrite(q)') /\ (Explained(q) <=> Explained(q)')
    BY <1>2 DEF OwnWrite, Explained
  <2>2. CASE answer'[q] = answer[q]
    BY <1>2, <2>1, <2>2 DEF CallOK
  <2>3. CASE answer'[q] # answer[q]
    <3>1. q = r /\ pc[r] = "wait" /\ attempt[r] = command[2] /\ answer'[r] = "exists"
      BY <1>1, <2>3 DEF ExecuteExists, AnswerTo, TypeOK
    <3>2. PICK w \in writes : w.nullifier = arg[r]
      BY DEF ExecuteExists, Live
    <3>3. w.by = r => w.try < attempt[r]
      <4>1. w.try \in 0..MaxRetries /\ w.try <= attempt[w.by] /\ <<w.by, w.try>> \notin wire
        BY <1>3, <3>2 DEF WriteOK
      <4>2. w.by = r => w.try # command[2]
        BY <1>1, <4>1
      <4> QED
        BY <1>1, <3>1, <4>1, <4>2
    <3>4. Explained(q)
      BY <3>1, <3>2, <3>3 DEF Explained
    <3> QED
      BY <1>2, <2>1, <3>1, <3>4 DEF CallOK
  <2> QED
    BY <2>2, <2>3
<1>5. \A w \in writes' : WriteOK(w)'
  BY <1>2, <1>3 DEF WriteOK, TTL
<1>6. WritesApart'
  BY <1>2 DEF WritesApart, TTL
<1> QED
  BY <1>2, <1>4, <1>5, <1>6 DEF CommandOK

\* Every step keeps the invariant.
LEMMA InvStep == IInv /\ [Next]_vars => IInv'
<1> SUFFICES ASSUME IInv, [Next]_vars PROVE IInv'
  OBVIOUS
<1>0. TypeOK'
  BY TypeStep DEF IInv
<1>1. ASSUME NEW r \in Request, NEW n \in Nullifier, CheckAndStore(r, n) PROVE IInv'
  <2> USE <1>0, <1>1 DEF CheckAndStore, IInv
  <2>1. \A w \in writes : WriteOK(w) /\ w.by \in Request
    BY DEF TypeOK, Write
  <2>2. \A w \in writes' : WriteOK(w)'
    BY <2>1 DEF WriteOK, TypeOK, TTL
  <2>3. \A command \in wire' : CommandOK(command)'
    BY DEF CommandOK, TypeOK, Command
  <2>4. \A q \in Request : CallOK(q)'
    BY DEF CallOK, TypeOK, OwnWrite, Explained
  <2> QED
    BY <2>2, <2>3, <2>4 DEF WritesApart, TTL
<1>2. ASSUME NEW r \in Request, Client(r) PROVE IInv'
  BY <1>0, <1>2, ClientStep
<1>3. ASSUME NEW r \in Request, Cancel(r) PROVE IInv'
  BY <1>0, <1>3
     DEF Cancel, call, IInv, WriteOK, CommandOK, CallOK, OwnWrite, Explained,
         WritesApart, TTL
<1>4. ASSUME NEW command \in wire, ExecuteNew(command[1], command[2]) PROVE IInv'
  BY <1>0, <1>4, WriteStep
<1>5. ASSUME NEW command \in wire, ExecuteExists(command[1], command[2]) PROVE IInv'
  BY <1>0, <1>5, RefuseStep
<1>6. CASE Tick
  <2>0. clock \in Nat /\ \A w \in writes : w.at \in Nat /\ w.at <= clock
    <3> SUFFICES ASSUME NEW w \in writes
                 PROVE  clock \in Nat /\ w.at \in Nat /\ w.at <= clock
      BY ClockAssumption DEF IInv, TypeOK
    <3>1. w \in Write /\ w.at <= clock
      BY DEF IInv, TypeOK, WriteOK
    <3> QED
      BY <3>1, ClockAssumption DEF IInv, TypeOK, Write
  <2> USE <1>0, <1>6 DEF Tick, call, IInv
  <2>1. \A w \in writes : WriteOK(w)
    OBVIOUS
  <2>2. \A w \in writes' : WriteOK(w)'
    <3> SUFFICES ASSUME NEW w \in writes PROVE WriteOK(w)'
      OBVIOUS
    <3>2. w.at <= clock + 1
      BY <2>0
    <3> QED
      BY <2>1, <3>2 DEF WriteOK, TTL
  <2> QED
    BY <2>2 DEF CommandOK, CallOK, OwnWrite, Explained, WritesApart, TTL
<1>7. CASE UNCHANGED vars
  BY <1>0, <1>7
     DEF vars, call, IInv, WriteOK, CommandOK, CallOK, OwnWrite, Explained,
         WritesApart, TTL
<1> QED
  BY <1>1, <1>2, <1>3, <1>4, <1>5, <1>6, <1>7 DEF Next, Execute

\* The invariant holds in every reachable state.
THEOREM Invariant == Spec => []IInv
BY InvInit, InvStep, PTL DEF Spec

\* Two writes of one nullifier are a whole time-to-live apart, for any number
\* of server processes, retries and late commands (SETNX in CheckAndStore).
THEOREM NoEarlyRewrite == Spec => []WritesApart
<1>1. IInv => WritesApart
  BY DEF IInv
<1> QED
  BY <1>1, Invariant, PTL

\* CheckAndStore returns true only to the call that wrote the nullifier.
THEOREM TrueMeansStored == Spec => []NewIsOwnWrite
<1>1. IInv => NewIsOwnWrite
  BY DEF IInv, CallOK, OwnWrite, NewIsOwnWrite
<1> QED
  BY <1>1, Invariant, PTL

\* CheckAndStore returns false only when another call, or an earlier attempt
\* of this one, wrote the nullifier.
THEOREM FalseIsExplained == Spec => []ExistsIsExplained
<1>1. IInv => ExistsIsExplained
  BY DEF IInv, CallOK, Explained, ExistsIsExplained
<1> QED
  BY <1>1, Invariant, PTL

\* A call in its first attempt is told that its nullifier exists only when
\* another call has stored it: a refusal of the user's own redemption takes an
\* attempt whose reply was lost (SETNX in CheckAndStore).
THEOREM FirstAttemptFalseMeansReplay ==
  Spec => [](\A r \in Request : result[r] = "exists" /\ attempt[r] = 0 =>
               \E w \in writes : w.nullifier = arg[r] /\ w.by # r)
<1> DEFINE First == \A r \in Request : result[r] = "exists" /\ attempt[r] = 0 =>
                      \E w \in writes : w.nullifier = arg[r] /\ w.by # r
<1>1. IInv => First
  <2> SUFFICES ASSUME IInv, NEW r \in Request, result[r] = "exists", attempt[r] = 0
               PROVE  \E w \in writes : w.nullifier = arg[r] /\ w.by # r
    OBVIOUS
  <2>1. PICK w \in writes : w.nullifier = arg[r] /\ (w.by # r \/ w.try < attempt[r])
    BY DEF IInv, CallOK, Explained
  <2>2. w.try \in 0..MaxRetries
    BY DEF IInv, TypeOK, Write
  <2> QED
    BY <2>1, <2>2
<1> QED
  BY <1>1, Invariant, PTL

\* What store.go promises of false holds of a client that does not retry: the
\* repeated SET NX of the three retries in redis.go:15, and nothing else, is
\* why the run RedisLostReply finds it broken (CheckAndStore).
THEOREM FalseMeansReplayWithoutRetries ==
  ASSUME MaxRetries = 0
  PROVE  Spec => []ExistsMeansReplay
<1> DEFINE First == \A r \in Request : result[r] = "exists" /\ attempt[r] = 0 =>
                      \E w \in writes : w.nullifier = arg[r] /\ w.by # r
<1>1. TypeOK /\ First => ExistsMeansReplay
  BY DEF TypeOK, ExistsMeansReplay
<1> HIDE DEF First
<1>2. Spec => []First
  BY FirstAttemptFalseMeansReplay DEF First
<1> QED
  BY <1>1, <1>2, TypeCorrect, PTL

\* Two calls that are both told that a nullifier is new wrote it a whole
\* time-to-live apart: within one, a credential is accepted once, by whichever
\* of the servers (CheckAndStore, Consume).
THEOREM AcceptancesApart ==
  Spec => [](\A r1, r2 \in Request :
               r1 # r2 /\ result[r1] = "new" /\ result[r2] = "new" /\ arg[r1] = arg[r2] =>
                 \E w1, w2 \in writes :
                   /\ w1.by = r1 /\ w1.nullifier = arg[r1]
                   /\ w2.by = r2 /\ w2.nullifier = arg[r2]
                   /\ w1.at + TTL <= w2.at \/ w2.at + TTL <= w1.at)
<1> DEFINE Two == \A r1, r2 \in Request :
                    r1 # r2 /\ result[r1] = "new" /\ result[r2] = "new" /\ arg[r1] = arg[r2] =>
                      \E w1, w2 \in writes :
                        /\ w1.by = r1 /\ w1.nullifier = arg[r1]
                        /\ w2.by = r2 /\ w2.nullifier = arg[r2]
                        /\ w1.at + TTL <= w2.at \/ w2.at + TTL <= w1.at
<1>1. WritesApart /\ NewIsOwnWrite => Two
  <2> SUFFICES ASSUME WritesApart, NewIsOwnWrite, NEW r1 \in Request, NEW r2 \in Request,
                      r1 # r2, result[r1] = "new", result[r2] = "new", arg[r1] = arg[r2]
               PROVE  \E w1, w2 \in writes :
                        /\ w1.by = r1 /\ w1.nullifier = arg[r1]
                        /\ w2.by = r2 /\ w2.nullifier = arg[r2]
                        /\ w1.at + TTL <= w2.at \/ w2.at + TTL <= w1.at
    OBVIOUS
  <2>1. PICK w1 \in writes : w1.by = r1 /\ w1.nullifier = arg[r1]
    BY DEF NewIsOwnWrite
  <2>2. PICK w2 \in writes : w2.by = r2 /\ w2.nullifier = arg[r2]
    BY DEF NewIsOwnWrite
  <2>3. w1 # w2
    BY <2>1, <2>2
  <2>4. w1.at + TTL <= w2.at \/ w2.at + TTL <= w1.at
    BY <2>1, <2>2, <2>3 DEF WritesApart
  <2> QED
    BY <2>1, <2>2, <2>4
<1> QED
  BY <1>1, NoEarlyRewrite, TrueMeansStored, PTL

-----------------------------------------------------------------------------
(* What became of a write.                                                 *)

\* A call's answer is its attempt's, and an attempt that wrote is told "new"
\* or nothing.
ReplyOK(r) ==
  /\ pc[r] \in {"idle", "send"} => answer[r] = "none"
  /\ answer[r] # "none" => <<r, attempt[r]>> \notin wire
  /\ pc[r] = "done" =>
       result[r] = "error" \/ (answer[r] # "none" /\ result[r] = answer[r])
  /\ \A w \in writes : w.by = r /\ w.try = attempt[r] =>
       /\ pc[r] = "wait" => answer[r] = "new"
       /\ pc[r] = "done" => result[r] \in {"new", "error"}

\* Every step keeps each call's answer its attempt's.
LEMMA ReplyStep ==
  ASSUME IInv, IInv', [Next]_vars, \A r \in Request : ReplyOK(r)
  PROVE  \A r \in Request : ReplyOK(r)'
<1> SUFFICES ASSUME NEW q \in Request PROVE ReplyOK(q)'
  OBVIOUS
<1>1. /\ \A w \in writes : w.by \in Request /\ w.try \in 0..MaxRetries /\ WriteOK(w)
      /\ \A command \in wire : /\ command = <<command[1], command[2]>>
                               /\ command[1] \in Request /\ command[2] \in 0..MaxRetries
                               /\ CommandOK(command)
      /\ TypeOK /\ ReplyOK(q)
  BY DEF IInv, TypeOK, Write, Command
<1>2. ASSUME NEW r \in Request, NEW n \in Nullifier, CheckAndStore(r, n) PROVE ReplyOK(q)'
  BY <1>1, <1>2 DEF CheckAndStore, ReplyOK, TypeOK, WriteOK
<1>3. ASSUME NEW r \in Request, Client(r) PROVE ReplyOK(q)'
  <2>1. CASE q # r
    <3>1. /\ pc'[q] = pc[q] /\ attempt'[q] = attempt[q] /\ answer'[q] = answer[q]
          /\ result'[q] = result[q] /\ writes' = writes
      BY <1>1, <1>3, <2>1 DEF Client, GiveUp, Send, Receive, Retry, Fail, TypeOK
    <3>2. <<q, attempt[q]>> \notin wire => <<q, attempt[q]>> \notin wire'
      BY <1>3, <2>1 DEF Client, GiveUp, Send, Receive, Retry, Fail
    <3> QED
      BY <1>1, <3>1, <3>2 DEF ReplyOK
  <2>2. CASE q = r /\ Send(r)
    <3>1. /\ pc[q] = "send" /\ pc'[q] = "wait" /\ answer'[q] = "none"
          /\ attempt' = attempt /\ attempt[q] \in Nat /\ writes' = writes
      BY <1>1, <2>2, RetriesAssumption DEF Send, ReplyOK, TypeOK
    <3>2. ASSUME NEW w \in writes, w.by = q PROVE w.try # attempt[q]
      <4>1. w.try \in 0..MaxRetries /\ WriteOK(w)
        BY <1>1
      <4>2. w.try < attempt[q]
        BY <3>1, <3>2, <4>1 DEF WriteOK
      <4> QED
        BY <3>1, <4>1, <4>2
    <3> QED
      BY <3>1, <3>2 DEF ReplyOK
  <2>3. CASE q = r /\ Retry(r)
    BY <1>1, <2>3 DEF Retry, ReplyOK, TypeOK, WriteOK, CommandOK
  <2>4. CASE q = r /\ (GiveUp(r) \/ Receive(r) \/ Fail(r))
    BY <1>1, <2>4 DEF GiveUp, Receive, Fail, ReplyOK, TypeOK, WriteOK
  <2> QED
    BY <1>3, <2>1, <2>2, <2>3, <2>4 DEF Client
<1>4. ASSUME NEW r \in Request, Cancel(r) PROVE ReplyOK(q)'
  BY <1>1, <1>4 DEF Cancel, call, ReplyOK
<1>5. ASSUME NEW command \in wire, ExecuteNew(command[1], command[2]) PROVE ReplyOK(q)'
  <2> DEFINE r == command[1]
             w0 == [nullifier |-> arg[r], by |-> r, try |-> command[2], at |-> clock]
  <2>1. /\ writes' = writes \cup {w0} /\ wire' = wire \ {command}
        /\ UNCHANGED <<pc, attempt, result>> /\ AnswerTo(r, command[2], "new")
    BY <1>1, <1>5 DEF ExecuteNew
  <2>2. w0.by = r /\ w0.try = command[2]
    OBVIOUS
  <2>3. r = q /\ command[2] = attempt[q] => answer[q] = "none"
    BY <1>1 DEF ReplyOK
  <2> HIDE DEF w0
  <2>4. CASE r = q /\ command[2] = attempt[q]
    BY <1>1, <2>1, <2>2, <2>3, <2>4 DEF AnswerTo, ReplyOK, TypeOK
  <2>5. CASE ~ (r = q /\ command[2] = attempt[q])
    BY <1>1, <2>1, <2>2, <2>5 DEF AnswerTo, ReplyOK, TypeOK
  <2> QED
    BY <2>4, <2>5
<1>6. ASSUME NEW command \in wire, ExecuteExists(command[1], command[2]) PROVE ReplyOK(q)'
  <2> DEFINE r == command[1]
  <2>1. /\ wire' = wire \ {command}
        /\ UNCHANGED <<pc, attempt, result, writes>> /\ AnswerTo(r, command[2], "exists")
    BY <1>1, <1>6 DEF ExecuteExists
  <2>2. CASE r = q /\ command[2] = attempt[q]
    <3>1. \A w \in writes : w.by = q => w.try # attempt[q]
      BY <1>1, <2>2 DEF WriteOK
    <3> QED
      BY <1>1, <2>1, <2>2, <3>1 DEF AnswerTo, ReplyOK, TypeOK
  <2>3. CASE ~ (r = q /\ command[2] = attempt[q])
    BY <1>1, <2>1, <2>3 DEF AnswerTo, ReplyOK, TypeOK
  <2> QED
    BY <2>2, <2>3
<1>7. CASE Tick \/ UNCHANGED vars
  BY <1>1, <1>7 DEF Tick, vars, call, ReplyOK
<1> QED
  BY <1>2, <1>3, <1>4, <1>5, <1>6, <1>7 DEF Next, Execute

\* A credential is burnt for its user in two ways only: a call that has stored
\* the nullifier in its last attempt is told so or returns an error, and is
\* never refused; every other write is an earlier attempt's, whose reply was
\* lost (CheckAndStore, Consume).
THEOREM StoredIsNotRefused ==
  Spec => [](\A w \in writes :
               pc[w.by] = "done" =>
                 result[w.by] \in {"new", "error"} \/ w.try < attempt[w.by])
<1> DEFINE Replies == \A r \in Request : ReplyOK(r)
           Told == \A w \in writes :
                     pc[w.by] = "done" =>
                       result[w.by] \in {"new", "error"} \/ w.try < attempt[w.by]
<1>1. Init => Replies
  BY DEF Init, ReplyOK
<1>2. IInv /\ IInv' /\ Replies /\ [Next]_vars => Replies'
  BY ReplyStep
<1>3. IInv /\ Replies => Told
  <2> SUFFICES ASSUME IInv, Replies, NEW w \in writes, pc[w.by] = "done"
               PROVE  result[w.by] \in {"new", "error"} \/ w.try < attempt[w.by]
    OBVIOUS
  <2>1. w.by \in Request /\ w.try \in 0..MaxRetries /\ w.try <= attempt[w.by]
        /\ attempt[w.by] \in 0..MaxRetries
    BY DEF IInv, TypeOK, Write, WriteOK
  <2>2. CASE w.try = attempt[w.by]
    BY <2>1, <2>2 DEF ReplyOK
  <2>3. CASE w.try # attempt[w.by]
    BY <2>1, <2>3
  <2> QED
    BY <2>2, <2>3
<1> HIDE DEF Replies
<1> QED
  BY <1>1, <1>2, <1>3, Invariant, PTL DEF Spec

-----------------------------------------------------------------------------
(* How far a call has come: what EveryCallReturns rests on beside fairness. *)

Rank(r) ==
  IF pc[r] = "idle" THEN 0
  ELSE IF pc[r] = "send" THEN 2 * attempt[r] + 1
  ELSE IF pc[r] = "wait" THEN 2 * attempt[r] + 2
  ELSE 2 * MaxRetries + 3

\* A call is over after a bounded number of its own steps, whatever Redis, the
\* network and the other calls do meanwhile: each step of the client library's
\* loop takes the call further, to 2 * MaxRetries + 3 at most, and no other
\* step sets it back (go-redis's retries, CheckAndStore).
THEOREM CallsAdvance ==
  Spec => /\ [](\A r \in Request : Rank(r) \in 0..(2 * MaxRetries + 3))
          /\ [][\A r \in Request :
                  Rank(r)' >= Rank(r) /\ (Client(r) => Rank(r)' > Rank(r))]_vars
<1> DEFINE Bounded == \A r \in Request : Rank(r) \in 0..(2 * MaxRetries + 3)
           Further == \A r \in Request :
                        Rank(r)' >= Rank(r) /\ (Client(r) => Rank(r)' > Rank(r))
<1>1. TypeOK => Bounded
  <2> SUFFICES ASSUME TypeOK, NEW r \in Request PROVE Rank(r) \in 0..(2 * MaxRetries + 3)
    OBVIOUS
  <2>1. attempt[r] \in Nat /\ attempt[r] <= MaxRetries /\ MaxRetries \in Nat
    BY RetriesAssumption DEF TypeOK
  <2> QED
    BY <2>1 DEF Rank
<1>2. TypeOK /\ [Next]_vars => [Further]_vars
  <2> SUFFICES ASSUME TypeOK, Next, NEW q \in Request
               PROVE  Rank(q)' >= Rank(q) /\ (Client(q) => Rank(q)' > Rank(q))
    OBVIOUS
  <2>1. /\ attempt[q] \in Nat /\ attempt[q] <= MaxRetries /\ MaxRetries \in Nat
        /\ pc[q] \in {"idle", "send", "wait", "done"}
    BY RetriesAssumption DEF TypeOK
  <2>2. CASE pc'[q] = pc[q] /\ attempt'[q] = attempt[q]
    <3>1. Rank(q)' = Rank(q) /\ Rank(q) \in Nat
      BY <2>1, <2>2 DEF Rank
    <3>2. ~ Client(q)
      BY <2>1, <2>2 DEF Client, GiveUp, Send, Receive, Retry, Fail, TypeOK
    <3> QED
      BY <3>1, <3>2
  <2>3. CASE Client(q)
    BY <2>1, <2>3 DEF Client, GiveUp, Send, Receive, Retry, Fail, TypeOK, Rank
  <2>4. ASSUME NEW n \in Nullifier, CheckAndStore(q, n)
        PROVE  Rank(q)' >= Rank(q) /\ ~ Client(q)
    BY <2>1, <2>4 DEF CheckAndStore, Client, GiveUp, Send, Receive, Retry, Fail, TypeOK, Rank
  <2>5. ASSUME NEW r \in Request, r # q, Client(r) \/ \E n \in Nullifier : CheckAndStore(r, n)
        PROVE  pc'[q] = pc[q] /\ attempt'[q] = attempt[q]
    BY <2>5 DEF Client, CheckAndStore, GiveUp, Send, Receive, Retry, Fail, TypeOK
  <2>6. ASSUME (\E r \in Request : Cancel(r)) \/ Execute \/ Tick
        PROVE  pc'[q] = pc[q] /\ attempt'[q] = attempt[q]
    BY <2>6 DEF Cancel, call, Execute, ExecuteNew, ExecuteExists, Tick
  <2> QED
    BY <2>2, <2>3, <2>4, <2>5, <2>6 DEF Next
<1> QED
  BY <1>1, <1>2, TypeCorrect, PTL DEF Spec
=============================================================================
