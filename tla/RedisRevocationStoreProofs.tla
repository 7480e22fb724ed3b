--------------------- MODULE RedisRevocationStoreProofs ---------------------
(***************************************************************************)
(* Theorems about RedisRevocationStore, for any writers, readers, retries, *)
(* batches, classes and epochs: what an acknowledged revocation, an        *)
(* unrevocation, a check and a listing can be relied on for, and what an   *)
(* acknowledged order means for every check that is called after it.       *)
(*                                                                         *)
(* Writers says of commands and entries whose they are and when they were  *)
(* made, Standing and Lifted tie what was acknowledged to the database,    *)
(* and ReaderOK says what a check or a listing has found so far.           *)
(***************************************************************************)
EXTENDS RedisRevocationStore, TLAPS

\* The time to live of an order is the span from the caller's clock to its end.
Timed(o) == o.op = "SET" /\ o.until # Forever => o.ttl = o.until - o.revokedAt

WriterOK(w) ==
  /\ wpc[w] # "idle" => order[w] \in Order /\ Timed(order[w]) /\ order[w].revokedAt <= clock
  /\ wpc[w] = "done" <=> result[w] # "none"
  /\ \A v \in returned[w] : wpc[v] = "done"
  /\ result[w] = "ok" => <<w, attempt[w]>> \notin wire

CommandOK(w, n) == wpc[w] # "idle" /\ n <= attempt[w]

\* An entry is the work of a revocation of the key.
EntryOK(k, e) ==
  /\ e \in Entry
  /\ wpc[e.by] # "idle" /\ order[e.by].op = "SET" /\ order[e.by].key = k
  /\ order[e.by].revokedAt <= e.at

\* The order of an acknowledged revocation is in the database, if nothing
\* interferes; the key of an acknowledged unrevocation is there only through
\* what interferes.
Standing(w) ==
  result[w] = "ok" /\ order[w].op = "SET" =>
    \/ \E v \in Writer : Interferes(v, w)
    \/ order[w].key \in DOMAIN keys /\ keys[order[w].key].by = w

Lifted(u) ==
  result[u] = "ok" /\ order[u].op = "DEL" /\ order[u].key \in DOMAIN keys =>
    Interferes(keys[order[u].key].by, u)

ReaderOK(r) ==
  /\ rpc[r] \in {"own", "found", "wide"} => claim[r] \in Class \X Epoch /\ began[r] <= clock
  /\ rpc[r] = "found" =>
       /\ EntryOK(claim[r], reply[r])
       /\ UntilOf(reply[r]) # Forever => began[r] < reply[r].at + order[reply[r].by].ttl
  /\ rpc[r] = "wide" => claim[r] \notin stood[r]
  /\ \A k \in stood[r] : Live(k)
  /\ rpc[r] = "get" /\ listing[r].last => stood[r] \subseteq listing[r].entries \cup listing[r].todo

Writers ==
  /\ \A w \in Writer : WriterOK(w)
  /\ \A command \in wire : CommandOK(command[1], command[2])
  /\ \A k \in DOMAIN keys : EntryOK(k, keys[k])

IInv ==
  /\ TypeOK
  /\ Writers
  /\ \A w \in Writer : Standing(w) /\ Lifted(w)
  /\ \A r \in Reader : ReaderOK(r)

-----------------------------------------------------------------------------
(* The kinds of steps.                                                     *)

CallWriter(w) ==
  \E class \in Class, scope \in Scope :
    \/ \E until \in Until : RevokeClass(w, class, scope, until)
                            \/ RefuseRevoke(w, class, scope, until)
    \/ UnrevokeClass(w, class, scope)

ReadStep ==
  \E r \in Reader :
    \/ \E class \in Class, epoch \in Epoch : IsRevoked(r, class, epoch)
    \/ ListRevocations(r)
    \/ ReaderStep(r)

\* Next, sorted by what a step touches.
LEMMA Sorted ==
  ASSUME Next
  PROVE  /\ Watch
         /\ \/ \E w \in Writer : CallWriter(w)
            \/ \E w \in Writer : WriterStep(w)
            \/ Execute
            \/ ReadStep
            \/ Tick
  BY DEF Next, CallStep, CallWriter, ReadStep

\* A call's first step: the order is written down, and the call waits for the
\* reply to its first attempt, or is over.
LEMMA Called ==
  ASSUME TypeOK, NEW w \in Writer, CallWriter(w)
  PROVE  \E o \in Order :
           /\ wpc[w] = "idle"
           /\ o.revokedAt = clock /\ Timed(o)
           /\ order' = [order EXCEPT ![w] = o]
           /\ returned' = [returned EXCEPT ![w] = {v \in Writer : wpc[v] = "done"}]
           /\ UNCHANGED <<clock, keys, attempt, readers>>
           /\ \/ /\ wpc' = [wpc EXCEPT ![w] = "wait"]
                 /\ wire' = wire \cup {<<w, 0>>}
                 /\ UNCHANGED result
              \/ /\ wpc' = [wpc EXCEPT ![w] = "done"]
                 /\ result' = [result EXCEPT ![w] = "error"]
                 /\ UNCHANGED wire
  <1> PICK class \in Class, scope \in Scope :
        \/ \E until \in Until : RevokeClass(w, class, scope, until)
                                \/ RefuseRevoke(w, class, scope, until)
        \/ UnrevokeClass(w, class, scope)
    BY DEF CallWriter
  <1> DEFINE key == revocationKey(class, scope)
             O(op, until, ttl) ==
               [op |-> op, key |-> key, until |-> until, ttl |-> ttl, revokedAt |-> clock]
  <1>1. key \in Key /\ clock \in 0..MaxClock /\ clock \in Int
    BY BoundsAssumption DEF revocationKey, Key, TypeOK
  <1>2. CASE \E until \in Until : RevokeClass(w, class, scope, until)
                                  \/ RefuseRevoke(w, class, scope, until)
    <2> PICK until \in Until : RevokeClass(w, class, scope, until)
                               \/ RefuseRevoke(w, class, scope, until)
      BY <1>2
    <2>1. TimeToLive(until) \in Int /\ (until # Forever => TimeToLive(until) = until - clock)
      BY <1>1, UntilAssumption DEF TimeToLive
    <2>2. O("SET", until, TimeToLive(until)) \in Order
      BY <1>1, <2>1 DEF Order
    <2>3. Timed(O("SET", until, TimeToLive(until)))
      BY <2>1 DEF Timed
    <2> QED
      BY <2>2, <2>3 DEF RevokeClass, RefuseRevoke, Begin, Sent, Finish
  <1>3. CASE UnrevokeClass(w, class, scope)
    <2>1. O("DEL", Forever, 0) \in Order
      BY <1>1 DEF Order
    <2> QED
      BY <2>1, <1>3 DEF UnrevokeClass, Begin, Sent, Timed
  <1> QED BY <1>2, <1>3

\* Redis executes a command that is on the wire.
LEMMA Executes ==
  ASSUME TypeOK, Execute
  PROVE  \E w \in Writer, n \in 0..MaxRetries :
           /\ <<w, n>> \in wire
           /\ ExecuteSet(w, n) \/ ExecuteDel(w, n)
  <1> PICK command \in wire :
        ExecuteSet(command[1], command[2]) \/ ExecuteDel(command[1], command[2])
    BY DEF Execute
  <1>1. command \in Command
    BY DEF TypeOK
  <1>2. command[1] \in Writer /\ command[2] \in 0..MaxRetries
    BY <1>1 DEF Command
  <1>3. command = <<command[1], command[2]>>
    BY <1>1 DEF Command
  <1> QED BY <1>2, <1>3

-----------------------------------------------------------------------------
(* Types.                                                                  *)

\* A revocation's SET, typed.
LEMMA SetTyped ==
  ASSUME TypeOK, NEW w \in Writer, NEW n \in 0..MaxRetries, <<w, n>> \in wire,
         wpc[w] # "idle" => order[w] \in Order, wpc[w] # "idle", ExecuteSet(w, n)
  PROVE  /\ DOMAIN keys' = DOMAIN keys \cup {order[w].key}
         /\ order[w].key \in Key
         /\ keys'[order[w].key] = [by |-> w, at |-> clock]
         /\ \A k \in DOMAIN keys \ {order[w].key} : keys'[k] = keys[k]
  BY DEF ExecuteSet, Order

\* The types hold in the next state.
LEMMA TypeStep ==
  ASSUME IInv, [Next]_vars
  PROVE  TypeOK'
  <1> USE BoundsAssumption DEF TypeOK
  <1> TypeOK /\ (\A w \in Writer : WriterOK(w)) /\ (\A r \in Reader : ReaderOK(r))
    BY DEF IInv, Writers
  <1> DEFINE PC == {"idle", "own", "found", "wide", "scan", "get"}
             Read == /\ rpc \in [Reader -> PC]
                     /\ claim \in [Reader -> (Class \X Epoch) \cup {None}]
                     /\ reply \in [Reader -> Entry \cup {None}]
                     /\ listing \in [Reader -> Listing]
                     /\ outcome \in [Reader -> {"none", "revoked", "clear", "listed", "error"}]
                     /\ began \in [Reader -> 0..MaxClock]
             Written == /\ order \in [Writer -> Order \cup {None}]
                        /\ wpc \in [Writer -> {"idle", "wait", "done"}]
                        /\ attempt \in [Writer -> 0..MaxRetries]
                        /\ result \in [Writer -> {"none", "ok", "error"}]
                        /\ wire \subseteq Command
                        /\ returned \in [Writer -> SUBSET Writer]
             Based == /\ clock \in 0..MaxClock
                      /\ DOMAIN keys \subseteq Key
                      /\ \A k \in DOMAIN keys : keys[k] \in Entry
  <1> SUFFICES ASSUME Next PROVE TypeOK'
    BY DEF vars, writers, readers
  <1>0. stood' \in [Reader -> SUBSET Key]
    BY Sorted DEF Watch
  <1>1. CASE \E w \in Writer : CallWriter(w)
    <2> PICK w \in Writer : CallWriter(w)
      BY <1>1
    <2>1. Read' /\ Based'
      BY Called DEF readers
    <2>2. PICK o \in Order :
             /\ order' = [order EXCEPT ![w] = o]
             /\ returned' = [returned EXCEPT ![w] = {v \in Writer : wpc[v] = "done"}]
             /\ UNCHANGED <<clock, keys, attempt, readers>>
             /\ \/ /\ wpc' = [wpc EXCEPT ![w] = "wait"]
                   /\ wire' = wire \cup {<<w, 0>>}
                   /\ UNCHANGED result
                \/ /\ wpc' = [wpc EXCEPT ![w] = "done"]
                   /\ result' = [result EXCEPT ![w] = "error"]
                   /\ UNCHANGED wire
      BY Called
    <2>3. <<w, 0>> \in Command
      BY DEF Command
    <2>4. wire' \subseteq Command
      BY <2>2, <2>3
    <2>5. Written'
      BY <2>2, <2>4
    <2> QED BY <2>1, <2>5, <1>0
  <1>2. CASE \E w \in Writer : WriterStep(w)
    <2> PICK w \in Writer : WriterStep(w)
      BY <1>2
    <2>1. Read' /\ Based'
      BY DEF WriterStep, Retry, Fail, readers
    <2>2. Written'
      BY DEF WriterStep, Retry, Fail, Finish, Command
    <2> QED BY <2>1, <2>2, <1>0
  <1>3. CASE Execute
    <2> PICK w \in Writer, n \in 0..MaxRetries :
          <<w, n>> \in wire /\ (ExecuteSet(w, n) \/ ExecuteDel(w, n))
      BY <1>3, Executes
    <2>1. Read' /\ clock' \in 0..MaxClock
      BY DEF ExecuteSet, ExecuteDel, Executed, readers
    <2>2. Written'
      BY DEF ExecuteSet, ExecuteDel, Executed, Finish
    <2>3. Based'
      <3>1. wpc[w] # "idle" /\ order[w] \in Order
        BY DEF IInv, Writers, CommandOK, WriterOK
      <3>2. CASE ExecuteSet(w, n)
        <4>1. [by |-> w, at |-> clock] \in Entry
          BY DEF Entry
        <4>2. /\ DOMAIN keys' = DOMAIN keys \cup {order[w].key}
              /\ order[w].key \in Key
              /\ keys'[order[w].key] = [by |-> w, at |-> clock]
              /\ \A k \in DOMAIN keys \ {order[w].key} : keys'[k] = keys[k]
          BY <3>1, <3>2, SetTyped
        <4> QED BY <2>1, <4>1, <4>2
      <3>3. CASE ExecuteDel(w, n)
        BY <2>1, <3>3 DEF ExecuteDel
      <3> QED BY <3>2, <3>3
    <2> QED BY <2>1, <2>2, <2>3, <1>0
  <1>4. CASE ReadStep
    <2>1. UNCHANGED <<clock, keys, writers>>
      BY <1>4 DEF ReadStep, IsRevoked, ListRevocations, Ask, ReaderStep, GetOwn, DecideOwn,
         GetWide, FailRead, Return, ListStep, Scan, GetListed, SkipListed, NextBatch,
         ReturnListing, writers
    <2>2. Written' /\ Based'
      BY <2>1 DEF writers
    <2>3. Read'
      <3> PICK r \in Reader :
            \/ \E class \in Class, epoch \in Epoch : IsRevoked(r, class, epoch)
            \/ ListRevocations(r)
            \/ ReaderStep(r)
        BY <1>4 DEF ReadStep
      <3>1. CASE \E class \in Class, epoch \in Epoch : IsRevoked(r, class, epoch)
        BY <3>1 DEF IsRevoked, Ask, revocationKey
      <3>2. CASE ListRevocations(r)
        BY <3>2 DEF ListRevocations, Ask
      <3>3. CASE GetOwn(r)
        <4>1. Live(claim[r]) => keys[claim[r]] \in Entry
          BY DEF Live
        <4> HIDE DEF Live
        <4> QED BY <3>3, <4>1 DEF GetOwn
      <3>4. ASSUME NEW answer \in {"revoked", "clear", "listed", "error"}, Return(r, answer)
            PROVE  Read'
        <4>1. NoListing \in Listing
          BY DEF Listing, NoListing
        <4> QED BY <3>4, <4>1 DEF Return
      <3>5. CASE DecideOwn(r) \/ GetWide(r) \/ FailRead(r) \/ ReturnListing(r)
        BY <3>4, <3>5 DEF DecideOwn, GetWide, FailRead, ReturnListing
      <3>6. CASE \E batch \in SUBSET Key, last \in BOOLEAN : Scan(r, batch, last)
        <4> PICK batch \in SUBSET Key, last \in BOOLEAN : Scan(r, batch, last)
          BY <3>6
        <4> DEFINE l == [batches |-> listing[r].batches + 1, last |-> last,
                         todo |-> batch, entries |-> listing[r].entries]
        <4>1. l \in Listing
          BY DEF Scan, Listing
        <4>2. listing' = [listing EXCEPT ![r] = l]
          BY DEF Scan
        <4>3. UNCHANGED <<claim, reply, outcome, began>> /\ rpc' = [rpc EXCEPT ![r] = "get"]
          BY DEF Scan
        <4> HIDE DEF l
        <4> QED BY <4>1, <4>2, <4>3
      <3>7. CASE \E k \in Key : GetListed(r, k) \/ SkipListed(r, k)
        <4> PICK k \in Key : GetListed(r, k) \/ SkipListed(r, k)
          BY <3>7
        <4>1. CASE GetListed(r, k)
          <5>1. listing' = [listing EXCEPT ![r] =
                  [listing[r] EXCEPT !.todo = @ \ {k}, !.entries = @ \cup {k}]]
            BY <4>1 DEF GetListed
          <5>0. ASSUME NEW l \in Listing
                PROVE  [l EXCEPT !.todo = @ \ {k}, !.entries = @ \cup {k}] \in Listing
            <6>1. l.todo \ {k} \in SUBSET Key /\ l.entries \cup {k} \in SUBSET Key
              BY DEF Listing
            <6> QED BY <6>1 DEF Listing
          <5>2. [listing[r] EXCEPT !.todo = @ \ {k}, !.entries = @ \cup {k}] \in Listing
            BY <5>0
          <5> QED BY <4>1, <5>1, <5>2 DEF GetListed
        <4>2. CASE SkipListed(r, k)
          <5>1. listing' = [listing EXCEPT ![r] = [listing[r] EXCEPT !.todo = @ \ {k}]]
            BY <4>2 DEF SkipListed
          <5>2. [listing[r] EXCEPT !.todo = @ \ {k}] \in Listing
            BY DEF Listing
          <5> QED BY <4>2, <5>1, <5>2 DEF SkipListed
        <4> QED BY <4>1, <4>2
      <3>8. CASE NextBatch(r)
        BY <3>8 DEF NextBatch
      <3> QED
        BY <3>1, <3>2, <3>3, <3>5, <3>6, <3>7, <3>8 DEF ReaderStep, ListStep
    <2> QED BY <2>2, <2>3, <1>0
  <1>5. CASE Tick
    BY <1>0, <1>5 DEF Tick, writers, readers
  <1> QED BY <1>1, <1>2, <1>3, <1>4, <1>5, Sorted

-----------------------------------------------------------------------------
(* Writers.                                                                *)

\* What is settled stays: what a writer asked for, what it knew, what it was
\* told, and that it is over.
LEMMA Steady ==
  ASSUME IInv, [Next]_vars
  PROVE  /\ clock <= clock'
         /\ \A v \in Writer :
              /\ attempt[v] <= attempt'[v]
              /\ wpc[v] # "idle" => /\ wpc'[v] # "idle"
                                    /\ order'[v] = order[v]
                                    /\ returned'[v] = returned[v]
              /\ wpc[v] = "done" => wpc'[v] = "done" /\ attempt'[v] = attempt[v]
              /\ result[v] # "none" => result'[v] = result[v]
  <1> USE BoundsAssumption DEF TypeOK
  <1>0. TypeOK /\ \A v \in Writer : WriterOK(v)
    BY DEF IInv, Writers
  <1>1. \A v \in Writer : wpc[v] = "done" <=> result[v] # "none"
    BY <1>0 DEF WriterOK
  <1>2. CASE \E w \in Writer : CallWriter(w)
    <2> PICK w \in Writer : CallWriter(w)
      BY <1>2
    <2>1. wpc[w] = "idle" /\ result[w] = "none"
      BY <1>0, <1>1, Called
    <2>2. UNCHANGED <<clock, attempt>>
      BY <1>0, Called
    <2>3. \A v \in Writer \ {w} :
            /\ wpc'[v] = wpc[v] /\ order'[v] = order[v]
            /\ returned'[v] = returned[v] /\ result'[v] = result[v]
      BY <1>0, Called
    <2> QED BY <1>0, <2>1, <2>2, <2>3
  <1>3. CASE \E w \in Writer : WriterStep(w)
    BY <1>0, <1>1, <1>3 DEF WriterStep, Retry, Fail, Finish
  <1>4. CASE Execute
    <2> PICK w \in Writer, n \in 0..MaxRetries :
          <<w, n>> \in wire /\ (ExecuteSet(w, n) \/ ExecuteDel(w, n))
      BY <1>0, <1>4, Executes
    <2>1. UNCHANGED <<clock, order, attempt, returned>>
      BY DEF ExecuteSet, ExecuteDel, Executed
    <2>2. \/ /\ wpc[w] = "wait"
             /\ wpc' = [wpc EXCEPT ![w] = "done"]
             /\ result' = [result EXCEPT ![w] = "ok"]
          \/ UNCHANGED <<wpc, result>>
      BY DEF ExecuteSet, ExecuteDel, Executed, Finish
    <2>3. wpc[w] = "wait" => result[w] = "none"
      BY <1>1
    <2> QED BY <1>0, <2>1, <2>2, <2>3
  <1>5. CASE ReadStep
    <2>1. UNCHANGED <<clock, writers>>
      BY <1>5 DEF ReadStep, IsRevoked, ListRevocations, Ask, ReaderStep, GetOwn, DecideOwn,
         GetWide, FailRead, Return, ListStep, Scan, GetListed, SkipListed, NextBatch,
         ReturnListing
    <2> QED BY <1>0, <2>1 DEF writers
  <1>6. CASE Tick
    BY <1>0, <1>6 DEF Tick, writers
  <1>7. CASE UNCHANGED vars
    BY <1>0, <1>7 DEF vars, writers
  <1> QED BY <1>2, <1>3, <1>4, <1>5, <1>6, <1>7, Sorted

\* An entry that is right in the next state.
KeptOK(k, e) ==
  /\ e \in Entry
  /\ wpc'[e.by] # "idle" /\ order'[e.by].op = "SET" /\ order'[e.by].key = k
  /\ order'[e.by].revokedAt <= e.at

\* An entry stays right: a writer that is not idle keeps its order.
LEMMA EntryKept ==
  ASSUME IInv, [Next]_vars
  PROVE  \A k, e : EntryOK(k, e) => KeptOK(k, e)
  BY Steady DEF EntryOK, KeptOK, Entry

\* The writers' part of the invariant, step by step.
LEMMA WritersStep ==
  ASSUME IInv, TypeOK', [Next]_vars
  PROVE  Writers'
  <1> USE BoundsAssumption
  <1>0. /\ TypeOK /\ (\A v \in Writer : WriterOK(v))
        /\ \A command \in wire : CommandOK(command[1], command[2])
        /\ \A k \in DOMAIN keys : EntryOK(k, keys[k])
    BY DEF IInv, Writers
  <1>a. \A v \in Writer :
          wpc[v] # "idle" => order'[v] \in Order /\ Timed(order'[v]) /\ order'[v].revokedAt <= clock'
    <2> SUFFICES ASSUME NEW v \in Writer, wpc[v] # "idle"
                 PROVE  order[v] \in Order /\ Timed(order[v]) /\ order[v].revokedAt <= clock'
      BY Steady
    <2>1. order[v] \in Order /\ Timed(order[v]) /\ order[v].revokedAt <= clock
      BY <1>0 DEF WriterOK
    <2>2. order[v].revokedAt \in 0..MaxClock
      BY <2>1 DEF Order
    <2>3. clock \in 0..MaxClock /\ clock' \in 0..MaxClock
      BY DEF TypeOK, IInv
    <2>4. clock <= clock'
      BY Steady
    <2>5. order[v].revokedAt <= clock'
      BY <2>1, <2>2, <2>3, <2>4
    <2> QED BY <2>1, <2>5
  <1>b. ASSUME NEW v \in Writer, \A u \in returned'[v] : wpc[u] = "done"
        PROVE  \A u \in returned'[v] : wpc'[u] = "done"
    <2>1. returned'[v] \subseteq Writer
      BY DEF TypeOK
    <2> QED BY <1>b, <2>1, Steady
  <1>c. \A v \in Writer : wpc[v] # "idle" => \A u \in returned'[v] : wpc'[u] = "done"
    BY <1>0, <1>b, Steady DEF WriterOK
  <1>e. (\A k \in DOMAIN keys' : KeptOK(k, keys'[k])) =>
          (\A k \in DOMAIN keys : EntryOK(k, keys[k]))'
    BY DEF EntryOK, KeptOK
  <1>d. UNCHANGED <<writers, keys>> => Writers'
    <2> SUFFICES ASSUME UNCHANGED <<writers, keys>> PROVE Writers'
      OBVIOUS
    <2>1. \A v \in Writer : WriterOK(v)'
      BY <1>0, <1>a DEF WriterOK, writers
    <2>2. \A k \in DOMAIN keys' : KeptOK(k, keys'[k])
      BY <1>0, EntryKept
    <2> QED BY <1>0, <1>e, <2>1, <2>2 DEF Writers, CommandOK, writers
  <1>1. CASE \E w \in Writer : CallWriter(w)
    <2> PICK w \in Writer : CallWriter(w)
      BY <1>1
    <2> PICK o \in Order :
           /\ wpc[w] = "idle"
           /\ o.revokedAt = clock /\ Timed(o)
           /\ order' = [order EXCEPT ![w] = o]
           /\ returned' = [returned EXCEPT ![w] = {v \in Writer : wpc[v] = "done"}]
           /\ UNCHANGED <<clock, keys, attempt, readers>>
           /\ \/ /\ wpc' = [wpc EXCEPT ![w] = "wait"]
                 /\ wire' = wire \cup {<<w, 0>>}
                 /\ UNCHANGED result
              \/ /\ wpc' = [wpc EXCEPT ![w] = "done"]
                 /\ result' = [result EXCEPT ![w] = "error"]
                 /\ UNCHANGED wire
      BY <1>0, Called
    <2>1. \A command \in wire : command[1] # w
      BY <1>0 DEF CommandOK
    <2>2. WriterOK(w)'
      <3>1. order'[w] = o /\ o.revokedAt <= clock'
        BY DEF TypeOK, IInv
      <3>2. \A u \in returned'[w] : wpc'[u] = "done"
        BY <1>b DEF TypeOK, IInv
      <3>3. result[w] = "none"
        BY <1>0 DEF WriterOK, TypeOK
      <3>4. wpc'[w] = "done" <=> result'[w] # "none"
        BY <3>3 DEF TypeOK, IInv
      <3>5. result'[w] # "ok"
        BY <3>3 DEF TypeOK, IInv
      <3> QED BY <3>1, <3>2, <3>4, <3>5 DEF WriterOK
    <2>3. ASSUME NEW v \in Writer, v # w
          PROVE  WriterOK(v)'
      <3>1. /\ wpc'[v] = wpc[v] /\ order'[v] = order[v] /\ attempt'[v] = attempt[v]
            /\ returned'[v] = returned[v] /\ result'[v] = result[v]
        BY <2>3 DEF TypeOK, IInv
      <3>2. <<v, attempt[v]>> \in wire' => <<v, attempt[v]>> \in wire
        BY <2>3
      <3>3. \A u \in returned'[v] : wpc'[u] = "done"
        BY <1>0, <1>b, <3>1 DEF WriterOK
      <3> QED BY <1>0, <3>1, <3>2, <3>3 DEF WriterOK
    <2>4. \A v \in Writer : WriterOK(v)'
      BY <2>2, <2>3
    <2>5. \A command \in wire' : CommandOK(command[1], command[2])'
      <3> SUFFICES ASSUME NEW command \in wire' PROVE CommandOK(command[1], command[2])'
        OBVIOUS
      <3>1. CASE command \in wire
        <4>1. command[1] \in Writer
          BY <3>1 DEF TypeOK, IInv, Command
        <4> QED BY <1>0, <2>1, <3>1, <4>1 DEF CommandOK, TypeOK
      <3>2. CASE command = <<w, 0>> /\ wpc' = [wpc EXCEPT ![w] = "wait"]
        BY <3>2, <1>0 DEF CommandOK, TypeOK
      <3> QED BY <3>1, <3>2
    <2>6. \A k \in DOMAIN keys' : KeptOK(k, keys'[k])
      BY <1>0, EntryKept
    <2> QED BY <1>e, <2>4, <2>5, <2>6 DEF Writers
  <1>2. CASE \E w \in Writer : WriterStep(w)
    <2> PICK w \in Writer : WriterStep(w)
      BY <1>2
    <2>1. UNCHANGED <<clock, keys, order, returned>> /\ wpc[w] = "wait"
      BY DEF WriterStep, Retry, Fail
    <2>2. /\ \A v \in Writer : WriterOK(v)'
          /\ \A command \in wire' : CommandOK(command[1], command[2])'
      <3>1. CASE Retry(w)
        <4>1. result[w] = "none"
          BY <1>0, <2>1 DEF WriterOK
        <4>2. ASSUME NEW v \in Writer
              PROVE  WriterOK(v)'
          <5>1. /\ UNCHANGED <<wpc, result>>
                /\ attempt' = [attempt EXCEPT ![w] = @ + 1]
                /\ wire' = wire \cup {<<w, attempt[w] + 1>>}
            BY <3>1 DEF Retry
          <5>2. result[v] = "ok" => v # w /\ attempt'[v] = attempt[v]
            BY <1>0, <4>1, <5>1 DEF TypeOK
          <5>3. result[v] = "ok" => <<v, attempt'[v]>> \notin wire'
            BY <1>0, <5>1, <5>2 DEF WriterOK
          <5> QED BY <1>0, <2>1, <5>1, <5>3 DEF WriterOK
        <4>3. ASSUME NEW command \in wire'
              PROVE  CommandOK(command[1], command[2])'
          <5>1. CASE command \in wire
            <6>1. command[1] \in Writer /\ command[2] \in 0..MaxRetries
              BY <5>1 DEF TypeOK, IInv, Command
            <6> QED BY <1>0, <3>1, <5>1, <6>1 DEF Retry, CommandOK, TypeOK
          <5>2. CASE command = <<w, attempt[w] + 1>>
            BY <1>0, <2>1, <3>1, <5>2 DEF Retry, CommandOK, TypeOK
          <5> QED BY <3>1, <5>1, <5>2 DEF Retry
        <4> QED BY <4>2, <4>3
      <3>2. CASE Fail(w)
        <4>1. \A v \in Writer :
                 IF v = w THEN wpc'[v] = "done" /\ result'[v] = "error"
                 ELSE wpc'[v] = wpc[v] /\ result'[v] = result[v]
          BY <1>0, <3>2 DEF Fail, Finish, TypeOK
        <4>2. UNCHANGED <<wire, attempt>>
          BY <3>2 DEF Fail
        <4>3. \A v \in Writer : \A u \in returned'[v] : wpc'[u] = "done"
          BY <1>0, <1>b, <2>1 DEF WriterOK
        <4>4. \A v \in Writer : WriterOK(v)'
          BY <1>0, <2>1, <4>1, <4>2, <4>3 DEF WriterOK
        <4>5. \A command \in wire : command[1] \in Writer
          BY <1>0 DEF TypeOK, Command
        <4> QED BY <1>0, <2>1, <4>1, <4>2, <4>4, <4>5 DEF CommandOK
      <3> QED BY <3>1, <3>2 DEF WriterStep
    <2>3. \A k \in DOMAIN keys' : KeptOK(k, keys'[k])
      BY <1>0, <2>1, EntryKept
    <2> QED BY <1>e, <2>2, <2>3 DEF Writers
  <1>3. CASE Execute
    <2> PICK w \in Writer, n \in 0..MaxRetries :
          <<w, n>> \in wire /\ (ExecuteSet(w, n) \/ ExecuteDel(w, n))
      BY <1>0, <1>3, Executes
    <2>1. UNCHANGED <<clock, order, attempt, returned>> /\ wire' = wire \ {<<w, n>>}
      BY DEF ExecuteSet, ExecuteDel, Executed
    <2>2. \/ /\ wpc[w] = "wait" /\ attempt[w] = n
             /\ wpc' = [wpc EXCEPT ![w] = "done"]
             /\ result' = [result EXCEPT ![w] = "ok"]
          \/ UNCHANGED <<wpc, result>>
      BY DEF ExecuteSet, ExecuteDel, Executed, Finish
    <2>3. \A v \in Writer : \A u \in returned'[v] : wpc'[u] = "done"
      BY <1>0, <1>b, <2>1 DEF WriterOK
    <2>4. \A v \in Writer : WriterOK(v)'
      BY <1>0, <2>1, <2>2, <2>3 DEF WriterOK, TypeOK
    <2>5. \A command \in wire' : CommandOK(command[1], command[2])'
      <3>1. \A command \in wire : command[1] \in Writer
        BY <1>0 DEF TypeOK, Command
      <3> QED BY <1>0, <2>1, <2>2, <3>1 DEF CommandOK, TypeOK
    <2>6. wpc[w] # "idle" /\ order[w] \in Order /\ order[w].revokedAt <= clock
      BY <1>0 DEF CommandOK, WriterOK
    <2>7. \A k \in DOMAIN keys' : KeptOK(k, keys'[k])
      <3>1. CASE ExecuteSet(w, n)
        <4>1. /\ DOMAIN keys' = DOMAIN keys \cup {order[w].key}
              /\ keys'[order[w].key] = [by |-> w, at |-> clock]
              /\ \A k \in DOMAIN keys \ {order[w].key} : keys'[k] = keys[k]
          BY <1>0, <2>6, <3>1, SetTyped
        <4>2. order[w].op = "SET"
          BY <3>1 DEF ExecuteSet
        <4>3. EntryOK(order[w].key, [by |-> w, at |-> clock])
          BY <1>0, <2>6, <4>2 DEF EntryOK, Entry, TypeOK
        <4>4. KeptOK(order[w].key, keys'[order[w].key])
          BY <4>1, <4>3, EntryKept
        <4> QED BY <1>0, <4>1, <4>4, EntryKept
      <3>2. CASE ExecuteDel(w, n)
        <4>1. \A k \in DOMAIN keys' : k \in DOMAIN keys /\ keys'[k] = keys[k]
          BY <3>2 DEF ExecuteDel
        <4> QED BY <1>0, <4>1, EntryKept
      <3> QED BY <3>1, <3>2
    <2> QED BY <1>e, <2>4, <2>5, <2>7 DEF Writers
  <1>4. CASE ReadStep
    <2>1. UNCHANGED <<keys, writers>>
      BY <1>4 DEF ReadStep, IsRevoked, ListRevocations, Ask, ReaderStep, GetOwn, DecideOwn,
         GetWide, FailRead, Return, ListStep, Scan, GetListed, SkipListed, NextBatch,
         ReturnListing
    <2> QED BY <1>d, <2>1
  <1>5. CASE Tick
    BY <1>d, <1>5 DEF Tick
  <1>6. CASE UNCHANGED vars
    BY <1>d, <1>6 DEF vars
  <1> QED BY <1>1, <1>2, <1>3, <1>4, <1>5, <1>6, Sorted

\* Only the execution of a command changes the database, and only with it is a
\* call acknowledged.
LEMMA OnlyExecute ==
  ASSUME TypeOK, [Next]_vars
  PROVE  \/ Execute
         \/ /\ UNCHANGED keys
            /\ \A w \in Writer : result'[w] = "ok" => result[w] = "ok"
  <1>1. CASE \E w \in Writer : CallWriter(w)
    <2> PICK w \in Writer : CallWriter(w)
      BY <1>1
    <2>1. UNCHANGED keys /\ (UNCHANGED result \/ result' = [result EXCEPT ![w] = "error"])
      BY Called
    <2> QED BY <2>1 DEF TypeOK
  <1>2. CASE \E w \in Writer : WriterStep(w)
    BY <1>2 DEF WriterStep, Retry, Fail, Finish, TypeOK
  <1>3. CASE ReadStep
    <2>1. UNCHANGED <<keys, writers>>
      BY <1>3 DEF ReadStep, IsRevoked, ListRevocations, Ask, ReaderStep, GetOwn, DecideOwn,
         GetWide, FailRead, Return, ListStep, Scan, GetListed, SkipListed, NextBatch,
         ReturnListing
    <2> QED BY <2>1 DEF writers
  <1>4. CASE Tick
    BY <1>4 DEF Tick, writers
  <1>5. CASE UNCHANGED vars
    BY <1>5 DEF vars, writers
  <1> QED BY <1>1, <1>2, <1>3, <1>4, <1>5, Sorted

\* A command on the wire that could undo what w was told belongs to a call
\* that interferes.
LEMMA LateInterferes ==
  ASSUME IInv, NEW v \in Writer, NEW w \in Writer, NEW n \in 0..MaxRetries, <<v, n>> \in wire,
         v # w, result[w] = "ok", order[v].key = order[w].key
  PROVE  Interferes(v, w)
  <1> USE BoundsAssumption
  <1>1. wpc[v] # "idle" /\ n <= attempt[v]
    BY DEF IInv, Writers, CommandOK
  <1>2. SUFFICES ASSUME v \in returned[w], ~ attempt[v] > 0, result[v] # "error"
                 PROVE  FALSE
    BY <1>1 DEF Interferes
  <1>3. wpc[v] = "done"
    BY <1>2 DEF IInv, Writers, WriterOK
  <1>4. result[v] = "ok"
    BY <1>2, <1>3 DEF IInv, Writers, WriterOK, TypeOK
  <1>5. attempt[v] = n
    BY <1>1, <1>2 DEF IInv, TypeOK
  <1> QED BY <1>4, <1>5 DEF IInv, Writers, WriterOK

\* What interferes goes on interfering.
LEMMA InterferesKept ==
  ASSUME IInv, [Next]_vars, NEW v \in Writer, NEW w \in Writer, wpc[w] # "idle", Interferes(v, w)
  PROVE  Interferes(v, w)'
  <1> USE BoundsAssumption
  <1>1. attempt[v] \in Nat /\ attempt'[v] \in Nat
    <2>1. TypeOK /\ TypeOK'
      BY TypeStep DEF IInv
    <2> QED BY <2>1 DEF TypeOK
  <1> QED BY <1>1, Steady DEF Interferes

\* An acknowledged order keeps standing.
LEMMA StandingStep ==
  ASSUME IInv, [Next]_vars, NEW w \in Writer
  PROVE  Standing(w)'
  <1>0. TypeOK /\ TypeOK' /\ WriterOK(w) /\ Standing(w)
    BY TypeStep DEF IInv, Writers
  <1> SUFFICES ASSUME result'[w] = "ok", order'[w].op = "SET",
                      ~ \E v \in Writer : Interferes(v, w)'
               PROVE  order'[w].key \in DOMAIN keys' /\ keys'[order'[w].key].by = w
    BY DEF Standing
  <1>1. CASE result[w] = "ok"
    <2>1. wpc[w] # "idle" /\ order'[w] = order[w]
      BY <1>0, <1>1, Steady DEF WriterOK
    <2>2. \A v \in Writer : ~ Interferes(v, w)
      BY <2>1, InterferesKept
    <2>3. order[w].key \in DOMAIN keys /\ keys[order[w].key].by = w
      BY <1>0, <1>1, <2>1, <2>2 DEF Standing
    <2>4. CASE UNCHANGED keys
      BY <2>1, <2>3, <2>4
    <2>5. CASE Execute
      <3> PICK v \in Writer, n \in 0..MaxRetries :
            <<v, n>> \in wire /\ (ExecuteSet(v, n) \/ ExecuteDel(v, n))
        BY <1>0, <2>5, Executes
      <3>1. v # w => order[v].key # order[w].key
        BY <1>1, <2>2, LateInterferes
      <3>2. CASE ExecuteSet(v, n)
        BY <2>1, <2>3, <3>1, <3>2 DEF ExecuteSet
      <3>3. CASE ExecuteDel(v, n)
        BY <2>1, <2>3, <3>1, <3>3 DEF ExecuteDel
      <3> QED BY <3>2, <3>3
    <2> QED BY <1>0, <2>4, <2>5, OnlyExecute
  <1>2. CASE result[w] # "ok"
    <2>1. Execute
      BY <1>0, <1>2, OnlyExecute
    <2> PICK v \in Writer, n \in 0..MaxRetries :
          <<v, n>> \in wire /\ (ExecuteSet(v, n) \/ ExecuteDel(v, n))
      BY <1>0, <2>1, Executes
    <2>2. v = w /\ UNCHANGED order
      BY <1>0, <1>2 DEF ExecuteSet, ExecuteDel, Executed, Finish, TypeOK
    <2>3. ExecuteSet(w, n)
      BY <2>2 DEF ExecuteDel
    <2> QED BY <2>2, <2>3 DEF ExecuteSet
  <1> QED BY <1>1, <1>2

\* An acknowledged unrevocation keeps holding.
LEMMA LiftedStep ==
  ASSUME IInv, [Next]_vars, NEW u \in Writer
  PROVE  Lifted(u)'
  <1>0. TypeOK /\ TypeOK' /\ WriterOK(u) /\ Lifted(u)
    BY TypeStep DEF IInv, Writers
  <1> SUFFICES ASSUME result'[u] = "ok", order'[u].op = "DEL", order'[u].key \in DOMAIN keys'
               PROVE  Interferes(keys[order[u].key].by, u)'
    BY DEF Lifted
  <1> PICK v \in Writer : v = keys'[order'[u].key].by
    BY <1>0 DEF TypeOK, Entry
  <1> SUFFICES Interferes(v, u)'
    OBVIOUS
  <1>1. CASE result[u] = "ok"
    <2>1. wpc[u] # "idle" /\ order'[u] = order[u]
      BY <1>0, <1>1, Steady DEF WriterOK
    <2>2. SUFFICES Interferes(v, u)
      BY <2>1, InterferesKept
    <2>3. order[u].key \in DOMAIN keys => Interferes(keys[order[u].key].by, u)
      BY <1>0, <1>1, <2>1 DEF Lifted
    <2>4. CASE UNCHANGED keys
      BY <2>1, <2>3, <2>4
    <2>5. CASE Execute
      <3> PICK x \in Writer, n \in 0..MaxRetries :
            <<x, n>> \in wire /\ (ExecuteSet(x, n) \/ ExecuteDel(x, n))
        BY <1>0, <2>5, Executes
      <3>1. CASE ExecuteSet(x, n) /\ order[x].key = order[u].key
        <4>1. v = x /\ x # u
          BY <2>1, <3>1 DEF ExecuteSet
        <4> QED BY <1>1, <3>1, <4>1, LateInterferes
      <3>2. CASE ExecuteSet(x, n) /\ order[x].key # order[u].key
        BY <2>1, <2>3, <3>2 DEF ExecuteSet
      <3>3. CASE ExecuteDel(x, n)
        BY <2>1, <2>3, <3>3 DEF ExecuteDel
      <3> QED BY <3>1, <3>2, <3>3
    <2> QED BY <1>0, <2>4, <2>5, OnlyExecute
  <1>2. CASE result[u] # "ok"
    <2>1. Execute
      BY <1>0, <1>2, OnlyExecute
    <2> PICK x \in Writer, n \in 0..MaxRetries :
          <<x, n>> \in wire /\ (ExecuteSet(x, n) \/ ExecuteDel(x, n))
      BY <1>0, <2>1, Executes
    <2>2. x = u /\ UNCHANGED order
      BY <1>0, <1>2 DEF ExecuteSet, ExecuteDel, Executed, Finish, TypeOK
    <2>3. ExecuteDel(u, n)
      BY <2>2 DEF ExecuteSet
    <2> QED BY <2>2, <2>3 DEF ExecuteDel
  <1> QED BY <1>1, <1>2

-----------------------------------------------------------------------------
(* Readers.                                                                *)

\* An entry that is right dates from no earlier than its order, and lives for
\* as long after its SET as the order had to go when it was placed.
LEMMA EntrySpan ==
  ASSUME IInv, NEW k, NEW e, EntryOK(k, e), UntilOf(e) # Forever
  PROVE  /\ e.at \in Nat /\ UntilOf(e) \in Nat
         /\ order[e.by].revokedAt \in Nat /\ order[e.by].revokedAt <= e.at
         /\ order[e.by].ttl = UntilOf(e) - order[e.by].revokedAt
  <1> USE BoundsAssumption
  <1>1. e \in Entry /\ wpc[e.by] # "idle" /\ order[e.by].op = "SET"
    BY DEF EntryOK
  <1>2. e.by \in Writer /\ e.at \in 0..MaxClock
    BY <1>1 DEF Entry
  <1>3. order[e.by] \in Order /\ Timed(order[e.by])
    BY <1>1, <1>2 DEF IInv, Writers, WriterOK
  <1>4. order[e.by].until \in Nat /\ order[e.by].revokedAt \in 0..MaxClock
    BY <1>3, UntilAssumption DEF Order, UntilOf
  <1>5. order[e.by].revokedAt <= e.at
    BY DEF EntryOK
  <1>6. order[e.by].ttl = order[e.by].until - order[e.by].revokedAt
    BY <1>1, <1>3 DEF Timed, UntilOf
  <1> QED BY <1>2, <1>4, <1>5, <1>6 DEF UntilOf

\* What a reader does leaves the other readers alone.
LEMMA OneReader ==
  ASSUME TypeOK, NEW r \in Reader, NEW q \in Reader, q # r,
         \/ \E class \in Class, epoch \in Epoch : IsRevoked(r, class, epoch)
         \/ ListRevocations(r)
         \/ ReaderStep(r)
  PROVE  /\ rpc'[q] = rpc[q] /\ claim'[q] = claim[q] /\ reply'[q] = reply[q]
         /\ listing'[q] = listing[q] /\ began'[q] = began[q]
  <1>1. ASSUME NEW pc, NEW what, Ask(r, pc, what)
        PROVE  /\ rpc'[q] = rpc[q] /\ claim'[q] = claim[q] /\ reply'[q] = reply[q]
               /\ listing'[q] = listing[q] /\ began'[q] = began[q]
    BY <1>1 DEF Ask, TypeOK
  <1>2. ASSUME NEW answer, Return(r, answer)
        PROVE  /\ rpc'[q] = rpc[q] /\ claim'[q] = claim[q] /\ reply'[q] = reply[q]
               /\ listing'[q] = listing[q] /\ began'[q] = began[q]
    BY <1>2 DEF Return, TypeOK
  <1>3. CASE (\E class \in Class, epoch \in Epoch : IsRevoked(r, class, epoch)) \/ ListRevocations(r)
    BY <1>1, <1>3 DEF IsRevoked, ListRevocations
  <1>4. CASE DecideOwn(r) \/ GetWide(r) \/ FailRead(r) \/ ReturnListing(r)
    BY <1>2, <1>4 DEF DecideOwn, GetWide, FailRead, ReturnListing
  <1>5. CASE GetOwn(r) \/ NextBatch(r)
    BY <1>5 DEF GetOwn, NextBatch, TypeOK
  <1>6. CASE \E batch \in SUBSET Key, last \in BOOLEAN : Scan(r, batch, last)
    BY <1>6 DEF Scan, TypeOK
  <1>7. CASE \E k \in Key : GetListed(r, k) \/ SkipListed(r, k)
    BY <1>7 DEF GetListed, SkipListed, TypeOK
  <1> QED BY <1>3, <1>4, <1>5, <1>6, <1>7 DEF ReaderStep, ListStep

\* A reader that takes no step itself keeps its part of the invariant.
LEMMA ReaderKept ==
  ASSUME IInv, [Next]_vars, NEW r \in Reader,
         rpc'[r] = rpc[r], claim'[r] = claim[r], reply'[r] = reply[r],
         listing'[r] = listing[r], began'[r] = began[r],
         rpc[r] # "idle" => stood'[r] \subseteq stood[r],
         \A k \in stood'[r] : Live(k)'
  PROVE  ReaderOK(r)'
  <1> USE BoundsAssumption
  <1>0. TypeOK /\ TypeOK' /\ ReaderOK(r)
    BY TypeStep DEF IInv
  <1>1. rpc[r] \in {"own", "found", "wide"} => claim[r] \in Class \X Epoch /\ began[r] <= clock'
    <2>1. clock \in Nat /\ clock' \in Nat /\ began[r] \in Nat /\ clock <= clock'
      BY <1>0, Steady DEF TypeOK
    <2> QED BY <1>0, <2>1 DEF ReaderOK
  <1>2. ASSUME rpc[r] = "found"
        PROVE  /\ EntryOK(claim[r], reply[r])'
               /\ UntilOf(reply[r])' # Forever =>
                    began[r] < reply[r].at + order'[reply[r].by].ttl
    <2>1. EntryOK(claim[r], reply[r])
      BY <1>0, <1>2 DEF ReaderOK
    <2>2. KeptOK(claim[r], reply[r])
      BY <2>1, EntryKept
    <2>3. order'[reply[r].by] = order[reply[r].by]
      BY <2>1, Steady DEF EntryOK, Entry
    <2>4. EntryOK(claim[r], reply[r])'
      BY <2>2 DEF KeptOK, EntryOK
    <2> QED BY <1>0, <1>2, <2>3, <2>4 DEF ReaderOK, UntilOf
  <1> QED BY <1>0, <1>1, <1>2 DEF ReaderOK

\* What a call can count on: keys that are there, and fewer and fewer of them.
LEMMA Watched ==
  ASSUME IInv, [Next]_vars, NEW r \in Reader
  PROVE  /\ \A k \in stood'[r] : Live(k)'
         /\ rpc[r] # "idle" => stood'[r] \subseteq stood[r]
         /\ rpc[r] # "idle" /\ Next => stood'[r] \cap PassedOver(r) = {}
  <1>1. CASE Next
    BY <1>1, Sorted DEF Watch
  <1>2. CASE UNCHANGED vars
    <2>1. \A k \in stood[r] : Live(k)
      BY DEF IInv, ReaderOK
    <2>2. UNCHANGED <<clock, keys, order, stood, rpc>>
      BY <1>2 DEF vars, writers, readers
    <2>3. CASE Next
      BY <1>1, <2>3
    <2>4. \A k \in stood'[r] : Live(k)'
      BY <2>1, <2>2 DEF Live, Unexpired, UntilOf
    <2> QED BY <2>2, <2>3, <2>4
  <1> QED BY <1>1, <1>2

\* The readers' part of the invariant, step by step.
LEMMA ReadersStep ==
  ASSUME IInv, [Next]_vars, NEW q \in Reader
  PROVE  ReaderOK(q)'
  <1> USE BoundsAssumption
  <1>0. TypeOK /\ TypeOK' /\ ReaderOK(q)
    BY TypeStep DEF IInv
  <1>1. CASE UNCHANGED readers
    BY <1>1, Watched, ReaderKept DEF readers
  <1>2. CASE Next /\ ReadStep
    <2> PICK r \in Reader :
          \/ \E class \in Class, epoch \in Epoch : IsRevoked(r, class, epoch)
          \/ ListRevocations(r)
          \/ ReaderStep(r)
      BY <1>2 DEF ReadStep
    <2>1. CASE r # q
      BY <1>0, <2>1, OneReader, Watched, ReaderKept
    <2>2. CASE r = q
      <3>1. /\ \A k \in stood'[q] : Live(k)'
            /\ rpc[q] # "idle" => stood'[q] \subseteq stood[q] \ PassedOver(q)
        BY <1>2, Watched
      <3>2. CASE \E class \in Class, epoch \in Epoch : IsRevoked(q, class, epoch)
        <4>1. /\ rpc'[q] = "own" /\ claim'[q] \in Class \X Epoch
              /\ began'[q] = clock /\ clock' = clock
          BY <1>0, <3>2 DEF IsRevoked, Ask, TypeOK, revocationKey
        <4>2. clock \in Nat
          BY <1>0 DEF TypeOK
        <4> QED BY <3>1, <4>1, <4>2 DEF ReaderOK
      <3>3. CASE ListRevocations(q)
        <4>1. rpc'[q] = "scan"
          BY <1>0, <3>3 DEF ListRevocations, Ask, TypeOK
        <4> QED BY <3>1, <4>1 DEF ReaderOK
      <3>4. ASSUME NEW answer, Return(q, answer)
            PROVE  ReaderOK(q)'
        <4>1. rpc'[q] = "idle"
          BY <1>0, <3>4 DEF Return, TypeOK
        <4> QED BY <3>1, <4>1 DEF ReaderOK
      <3>5. CASE DecideOwn(q) \/ GetWide(q) \/ FailRead(q) \/ ReturnListing(q)
        BY <3>4, <3>5 DEF DecideOwn, GetWide, FailRead, ReturnListing
      <3>6. CASE GetOwn(q)
        <4>1. /\ UNCHANGED <<clock, keys, writers, claim, began>> /\ rpc[q] = "own"
              /\ rpc'[q] = IF Live(claim[q]) THEN "found" ELSE "wide"
              /\ reply'[q] = IF Live(claim[q]) THEN keys[claim[q]] ELSE None
          BY <1>0, <3>6 DEF GetOwn, TypeOK
        <4>2. claim[q] \in Class \X Epoch /\ began[q] <= clock
          BY <1>0, <4>1 DEF ReaderOK
        <4>3. CASE Live(claim[q])
          <5> DEFINE e == keys[claim[q]]
          <5>1. EntryOK(claim[q], e) /\ Unexpired(e)
            BY <4>3 DEF Live, IInv, Writers
          <5>2. UntilOf(e) # Forever => began[q] < e.at + order[e.by].ttl
            <6> SUFFICES ASSUME UntilOf(e) # Forever
                         PROVE  began[q] < e.at + order[e.by].ttl
              OBVIOUS
            <6>1. clock < e.at + order[e.by].ttl
              BY <5>1 DEF Unexpired
            <6>2. e.at \in Nat /\ order[e.by].ttl \in Int
              BY <5>1, EntrySpan
            <6>3. clock \in Nat /\ began[q] \in Nat
              BY <1>0 DEF TypeOK
            <6> HIDE DEF e
            <6> QED BY <4>2, <6>1, <6>2, <6>3
          <5>3. rpc'[q] = "found" /\ reply'[q] = e
            BY <4>1, <4>3
          <5>4. EntryOK(claim[q], reply[q])'
            BY <4>1, <5>1, <5>3 DEF EntryOK, writers
          <5>5. UntilOf(reply[q])' # Forever =>
                  began'[q] < reply'[q].at + order'[reply'[q].by].ttl
            BY <4>1, <5>2, <5>3 DEF UntilOf, writers
          <5> QED BY <3>1, <4>1, <4>2, <5>3, <5>4, <5>5 DEF ReaderOK
        <4>4. CASE ~ Live(claim[q])
          <5>1. ~ Live(claim[q])'
            BY <4>1, <4>4 DEF Live, Unexpired, UntilOf, writers
          <5>2. claim'[q] \notin stood'[q]
            BY <3>1, <4>1, <5>1
          <5> QED BY <3>1, <4>1, <4>2, <4>4, <5>2 DEF ReaderOK
        <4> QED BY <4>3, <4>4
      <3>7. CASE \E batch \in SUBSET Key, last \in BOOLEAN : Scan(q, batch, last)
        <4> PICK batch \in SUBSET Key, last \in BOOLEAN : Scan(q, batch, last)
          BY <3>7
        <4>1. /\ rpc[q] = "scan" /\ rpc'[q] = "get"
              /\ last => stood[q] \subseteq listing[q].entries \cup batch
              /\ listing'[q].last = last /\ listing'[q].todo = batch
              /\ listing'[q].entries = listing[q].entries
          BY <1>0 DEF Scan, TypeOK
        <4> QED BY <3>1, <4>1 DEF ReaderOK
      <3>8. CASE \E k \in Key : GetListed(q, k) \/ SkipListed(q, k)
        <4> PICK k \in Key : GetListed(q, k) \/ SkipListed(q, k)
          BY <3>8
        <4>1. rpc[q] = "get" /\ rpc'[q] = "get"
          BY <1>0 DEF GetListed, SkipListed, TypeOK
        <4>2. /\ listing'[q].last = listing[q].last
              /\ listing[q].entries \subseteq listing'[q].entries
          <5>1. listing[q] \in Listing
            BY <1>0 DEF TypeOK
          <5>2. CASE GetListed(q, k)
            BY <1>0, <5>1, <5>2 DEF GetListed, TypeOK, Listing
          <5>3. CASE SkipListed(q, k)
            BY <1>0, <5>1, <5>3 DEF SkipListed, TypeOK, Listing
          <5> QED BY <5>2, <5>3
        <4>3. stood'[q] \cap listing[q].todo \subseteq listing'[q].todo \cup listing'[q].entries
          BY <3>1, <4>1 DEF PassedOver
        <4> QED BY <1>0, <3>1, <4>1, <4>2, <4>3 DEF ReaderOK
      <3>9. CASE NextBatch(q)
        <4>1. rpc'[q] = "scan"
          BY <1>0, <3>9 DEF NextBatch, TypeOK
        <4> QED BY <3>1, <4>1 DEF ReaderOK
      <3> QED
        BY <2>2, <3>2, <3>3, <3>5, <3>6, <3>7, <3>8, <3>9 DEF ReaderStep, ListStep
    <2> QED BY <2>1, <2>2
  <1>3. CASE Next /\ ~ ReadStep
    <2>1. UNCHANGED readers
      <3>1. CASE \E w \in Writer : CallWriter(w)
        BY <1>0, <3>1, Called
      <3>2. CASE \E w \in Writer : WriterStep(w)
        BY <3>2 DEF WriterStep, Retry, Fail
      <3>3. CASE Execute
        BY <3>3 DEF Execute, ExecuteSet, ExecuteDel, Executed
      <3>4. CASE Tick
        BY <3>4 DEF Tick
      <3> QED BY <1>3, <3>1, <3>2, <3>3, <3>4, Sorted
    <2> QED BY <1>1, <2>1
  <1>4. CASE UNCHANGED vars
    BY <1>1, <1>4 DEF vars
  <1> QED BY <1>2, <1>3, <1>4

-----------------------------------------------------------------------------
(* The theorems.                                                           *)

\* Before the first call there is nothing to keep.
LEMMA InitInv == Init => IInv
  <1> SUFFICES ASSUME Init PROVE IInv
    OBVIOUS
  <1>1. TypeOK
    <2>1. NoListing \in Listing
      BY BoundsAssumption DEF NoListing, Listing
    <2> QED BY <2>1, BoundsAssumption DEF Init, TypeOK
  <1>2. Writers
    BY DEF Init, Writers, WriterOK
  <1>3. \A w \in Writer : Standing(w) /\ Lifted(w)
    BY DEF Init, Standing, Lifted
  <1>4. \A r \in Reader : ReaderOK(r)
    BY DEF Init, ReaderOK
  <1> QED BY <1>1, <1>2, <1>3, <1>4 DEF IInv

\* The invariant holds throughout.
LEMMA Invariant == Spec => []IInv
  <1>1. IInv /\ [Next]_vars => IInv'
    <2> SUFFICES ASSUME IInv, [Next]_vars PROVE IInv'
      OBVIOUS
    <2>1. TypeOK' /\ Writers'
      BY TypeStep, WritersStep
    <2>2. \A w \in Writer : (Standing(w) /\ Lifted(w))'
      BY StandingStep, LiftedStep
    <2>3. \A r \in Reader : ReaderOK(r)'
      BY ReadersStep
    <2> QED BY <2>1, <2>2, <2>3 DEF IInv
  <1> QED BY <1>1, InitInv, PTL DEF Spec

\* Every variable keeps its type, for any calls, retries and batches.
THEOREM TypeCorrect == Spec => []TypeOK
  <1>1. IInv => TypeOK
    BY DEF IInv
  <1> QED BY <1>1, Invariant, PTL

\* An acknowledged order stands until its instant, unless a call that was not
\* over, or one with attempts unaccounted for, interferes (RevokeClass).
THEOREM AcknowledgedStands == Spec => []OrderStands
  <1> USE BoundsAssumption
  <1>1. ASSUME IInv PROVE OrderStands
    <2> SUFFICES ASSUME NEW w \in Writer, result[w] = "ok", order[w].op = "SET",
                        ~ Live(order[w].key), ~ \E v \in Writer : Interferes(v, w)
                 PROVE  order[w].until # Forever /\ clock >= order[w].until
      BY DEF OrderStands
    <2> DEFINE k == order[w].key
               e == keys[k]
    <2>1. k \in DOMAIN keys /\ e.by = w
      BY <1>1 DEF IInv, Standing
    <2>2. EntryOK(k, e) /\ UntilOf(e) = order[w].until
      BY <1>1, <2>1 DEF IInv, Writers, UntilOf
    <2>3. order[w].until # Forever /\ ~ clock < e.at + order[w].ttl
      BY <2>1, <2>2 DEF Live, Unexpired
    <2>4. /\ e.at \in Nat /\ order[w].until \in Nat
          /\ order[w].revokedAt \in Nat /\ order[w].revokedAt <= e.at
          /\ order[w].ttl = order[w].until - order[w].revokedAt
      BY <1>1, <2>1, <2>2, <2>3, EntrySpan
    <2>5. clock \in Nat
      BY <1>1 DEF IInv, TypeOK
    <2> HIDE DEF k, e
    <2> QED BY <2>3, <2>4, <2>5
  <1> QED BY <1>1, Invariant, PTL

\* What is found after an acknowledged unrevocation was put there by a call
\* that interferes (UnrevokeClass).
THEOREM UnrevocationHolds == Spec => []UnrevokeHolds
  <1>1. IInv => UnrevokeHolds
    BY DEF IInv, UnrevokeHolds, Lifted, Live
  <1> QED BY <1>1, Invariant, PTL

\* A step in which a call of IsRevoked returns its answer is its last.
LEMMA LastStep ==
  ASSUME IInv, [Next]_vars, NEW r \in Reader, NEW answer \in {"clear", "revoked"}, Answers(r, answer)
  PROVE  \/ DecideOwn(r) /\ answer = IF Lapsed(reply[r]) THEN "clear" ELSE "revoked"
         \/ GetWide(r) /\ answer = IF Live(WideKey(r)) THEN "revoked" ELSE "clear"
  <1>0. TypeOK /\ rpc[r] # "idle" /\ rpc'[r] = "idle" /\ outcome'[r] = answer
    BY DEF IInv, Answers
  <1>1. CASE Next /\ ReadStep
    <2> PICK q \in Reader :
          \/ \E class \in Class, epoch \in Epoch : IsRevoked(q, class, epoch)
          \/ ListRevocations(q)
          \/ ReaderStep(q)
      BY <1>1 DEF ReadStep
    <2>1. q = r
      BY <1>0, OneReader
    <2>2. CASE (\E class \in Class, epoch \in Epoch : IsRevoked(r, class, epoch)) \/ ListRevocations(r)
      BY <1>0, <2>2 DEF IsRevoked, ListRevocations, Ask
    <2>3. CASE DecideOwn(r) \/ GetWide(r)
      BY <1>0, <2>3 DEF DecideOwn, GetWide, Return, TypeOK
    <2>4. CASE FailRead(r) \/ ReturnListing(r)
      BY <1>0, <2>4 DEF FailRead, ReturnListing, Return, TypeOK
    <2>5. CASE \/ GetOwn(r) \/ NextBatch(r)
               \/ \E batch \in SUBSET Key, last \in BOOLEAN : Scan(r, batch, last)
               \/ \E k \in Key : GetListed(r, k) \/ SkipListed(r, k)
      BY <1>0, <2>5 DEF GetOwn, NextBatch, Scan, GetListed, SkipListed, TypeOK
    <2> QED BY <2>1, <2>2, <2>3, <2>4, <2>5 DEF ReaderStep, ListStep
  <1>2. CASE UNCHANGED rpc
    BY <1>0, <1>2
  <1>3. CASE Next /\ ~ ReadStep
    <2>1. CASE \E w \in Writer : CallWriter(w)
      BY <1>0, <1>2, <2>1, Called DEF readers
    <2>2. CASE \E w \in Writer : WriterStep(w)
      BY <1>2, <2>2 DEF WriterStep, Retry, Fail, readers
    <2>3. CASE Execute
      BY <1>2, <2>3 DEF Execute, ExecuteSet, ExecuteDel, Executed, readers
    <2>4. CASE Tick
      BY <1>2, <2>4 DEF Tick, readers
    <2> QED BY <1>3, <2>1, <2>2, <2>3, <2>4, Sorted
  <1>4. CASE UNCHANGED vars
    BY <1>2, <1>4 DEF vars, readers
  <1> QED BY <1>1, <1>3, <1>4

\* A check clears a credential that an order covered all along only on an own
\* entry past its instant (IsRevoked).
THEOREM StandingReported == Spec => StandingOrderReported
  <1> USE BoundsAssumption
  <1>1. ASSUME IInv, [Next]_vars, NEW r \in Reader, Answers(r, "clear"),
               stood[r] \cap {claim[r], WideKey(r)} # {}
        PROVE  /\ rpc[r] = "found"
               /\ Lapsed(reply[r])
               /\ UntilOf(reply[r]) >= began[r] \/ Delayed(reply[r])
    <2>0. ReaderOK(r) /\ TypeOK
      BY <1>1 DEF IInv
    <2>1. ~ GetWide(r) \/ Live(WideKey(r))
      <3> SUFFICES ASSUME GetWide(r), ~ Live(WideKey(r)) PROVE FALSE
        OBVIOUS
      <3>1. rpc[r] = "wide"
        BY DEF GetWide
      <3>2. claim[r] \notin stood[r] /\ WideKey(r) \notin stood[r]
        BY <2>0, <3>1 DEF ReaderOK
      <3> QED BY <1>1, <3>2
    <2>2. DecideOwn(r) /\ Lapsed(reply[r])
      BY <1>1, <2>1, LastStep
    <2>3. rpc[r] = "found"
      BY <2>2 DEF DecideOwn
    <2> DEFINE e == reply[r]
    <2>4. EntryOK(claim[r], e) /\ UntilOf(e) # Forever
      BY <2>0, <2>2, <2>3 DEF ReaderOK, Lapsed
    <2>5. began[r] < e.at + order[e.by].ttl
      BY <2>0, <2>3, <2>4 DEF ReaderOK
    <2>6. /\ e.at \in Nat /\ UntilOf(e) \in Nat
          /\ order[e.by].revokedAt \in Nat /\ order[e.by].revokedAt <= e.at
          /\ order[e.by].ttl = UntilOf(e) - order[e.by].revokedAt
      BY <1>1, <2>4, EntrySpan
    <2>7. began[r] \in Nat
      BY <2>0 DEF TypeOK
    <2>8. UntilOf(e) >= began[r] \/ e.at > order[e.by].revokedAt
      <3> HIDE DEF e
      <3> QED BY <2>5, <2>6, <2>7
    <2> QED BY <2>2, <2>3, <2>8 DEF Delayed
  <1>2. ASSUME IInv, [Next]_vars
        PROVE  [\A r \in Reader :
                  Answers(r, "clear") /\ stood[r] \cap {claim[r], WideKey(r)} # {} =>
                    /\ rpc[r] = "found"
                    /\ Lapsed(reply[r])
                    /\ UntilOf(reply[r]) >= began[r] \/ Delayed(reply[r])]_vars
    BY <1>1, <1>2
  <1> QED BY <1>2, Invariant, PTL DEF Spec, StandingOrderReported

\* A check refuses on an order for the credential that has not run out, or on
\* a class-wide one whose SET was delayed (IsRevoked).
THEOREM RefusalsJustified == Spec => RefusalJustified
  <1> USE BoundsAssumption
  <1>1. ASSUME IInv, [Next]_vars, NEW r \in Reader, Answers(r, "revoked")
        PROVE  \E entry \in Grounds(r) :
                 \/ order[entry.by].key = claim[r] /\ ~ Lapsed(entry)
                 \/ order[entry.by].key = WideKey(r) /\ (~ Lapsed(entry) \/ Delayed(entry))
    <2>0. ReaderOK(r) /\ TypeOK
      BY <1>1 DEF IInv
    <2>1. CASE DecideOwn(r) /\ ~ Lapsed(reply[r])
      <3>1. rpc[r] = "found"
        BY <2>1 DEF DecideOwn
      <3>2. order[reply[r].by].key = claim[r]
        BY <2>0, <3>1 DEF ReaderOK, EntryOK
      <3> QED BY <2>1, <3>1, <3>2 DEF Grounds
    <2>2. CASE GetWide(r) /\ Live(WideKey(r))
      <3> DEFINE k == WideKey(r)
                 e == keys[k]
      <3>1. rpc[r] = "wide" /\ k \in DOMAIN keys /\ Unexpired(e)
        BY <2>2 DEF GetWide, Live
      <3>2. e \in Grounds(r)
        BY <3>1 DEF Grounds
      <3>3. EntryOK(k, e)
        BY <1>1, <3>1 DEF IInv, Writers
      <3>4. ~ Lapsed(e) \/ Delayed(e)
        <4> SUFFICES ASSUME Lapsed(e) PROVE Delayed(e)
          OBVIOUS
        <4>1. UntilOf(e) # Forever /\ clock > UntilOf(e)
          BY DEF Lapsed
        <4>2. clock < e.at + order[e.by].ttl
          BY <3>1, <4>1 DEF Unexpired
        <4>3. /\ e.at \in Nat /\ UntilOf(e) \in Nat
              /\ order[e.by].revokedAt \in Nat /\ order[e.by].revokedAt <= e.at
              /\ order[e.by].ttl = UntilOf(e) - order[e.by].revokedAt
          BY <1>1, <3>3, <4>1, EntrySpan
        <4>4. clock \in Nat
          BY <2>0 DEF TypeOK
        <4>5. e.at > order[e.by].revokedAt
          <5> HIDE DEF e, k
          <5> QED BY <4>1, <4>2, <4>3, <4>4
        <4> QED BY <4>5 DEF Delayed
      <3>5. order[e.by].key = k
        BY <3>3 DEF EntryOK
      <3> QED BY <3>2, <3>4, <3>5
    <2> QED BY <1>1, <2>1, <2>2, LastStep
  <1>2. ASSUME IInv, [Next]_vars
        PROVE  [\A r \in Reader : Answers(r, "revoked") =>
                  \E entry \in Grounds(r) :
                    \/ order[entry.by].key = claim[r] /\ ~ Lapsed(entry)
                    \/ order[entry.by].key = WideKey(r) /\ (~ Lapsed(entry) \/ Delayed(entry))]_vars
    BY <1>1, <1>2
  <1> QED BY <1>2, Invariant, PTL DEF Spec, RefusalJustified

\* A listing omits an order that stood all along only if its GET failed
\* (ListRevocations).
THEOREM ListingsComplete == Spec => ListOmitsOnlyUnread
  <1>1. ASSUME IInv, [Next]_vars, NEW r \in Reader, Answers(r, "listed")
        PROVE  stood[r] \subseteq listing[r].entries
    <2>0. ReaderOK(r) /\ TypeOK /\ rpc[r] # "idle" /\ rpc'[r] = "idle" /\ outcome'[r] = "listed"
      BY <1>1 DEF IInv, Answers
    <2>1. ReturnListing(r)
      <3>1. CASE Next /\ ReadStep
        <4> PICK q \in Reader :
              \/ \E class \in Class, epoch \in Epoch : IsRevoked(q, class, epoch)
              \/ ListRevocations(q)
              \/ ReaderStep(q)
          BY <3>1 DEF ReadStep
        <4>1. q = r
          BY <2>0, OneReader
        <4>2. CASE (\E class \in Class, epoch \in Epoch : IsRevoked(r, class, epoch))
                   \/ ListRevocations(r)
          BY <2>0, <4>2 DEF IsRevoked, ListRevocations, Ask
        <4>3. CASE DecideOwn(r) \/ GetWide(r) \/ FailRead(r)
          BY <2>0, <4>3 DEF DecideOwn, GetWide, FailRead, Return, TypeOK
        <4>4. CASE \/ GetOwn(r) \/ NextBatch(r)
                   \/ \E batch \in SUBSET Key, last \in BOOLEAN : Scan(r, batch, last)
                   \/ \E k \in Key : GetListed(r, k) \/ SkipListed(r, k)
          BY <2>0, <4>4 DEF GetOwn, NextBatch, Scan, GetListed, SkipListed, TypeOK
        <4> QED BY <4>1, <4>2, <4>3, <4>4 DEF ReaderStep, ListStep
      <3>2. CASE UNCHANGED rpc
        BY <2>0, <3>2
      <3>3. CASE Next /\ ~ ReadStep
        <4>1. CASE \E w \in Writer : CallWriter(w)
          BY <2>0, <3>2, <4>1, Called DEF readers
        <4>2. CASE \E w \in Writer : WriterStep(w)
          BY <3>2, <4>2 DEF WriterStep, Retry, Fail, readers
        <4>3. CASE Execute
          BY <3>2, <4>3 DEF Execute, ExecuteSet, ExecuteDel, Executed, readers
        <4>4. CASE Tick
          BY <3>2, <4>4 DEF Tick, readers
        <4> QED BY <3>3, <4>1, <4>2, <4>3, <4>4, Sorted
      <3>4. CASE UNCHANGED vars
        BY <3>2, <3>4 DEF vars, readers
      <3> QED BY <1>1, <3>1, <3>3, <3>4
    <2> QED BY <2>0, <2>1 DEF ReturnListing, ReaderOK
  <1>2. ASSUME IInv, [Next]_vars
        PROVE  [\A r \in Reader : Answers(r, "listed") =>
                  stood[r] \subseteq listing[r].entries]_vars
    BY <1>1, <1>2
  <1> QED BY <1>2, Invariant, PTL DEF Spec, ListOmitsOnlyUnread
-----------------------------------------------------------------------------
(* From an answer to the administrator to the answers of checks.  The      *)
(* writers and readers are calls in any server process; the order or its   *)
(* end is acknowledged first, then the check is called.                    *)

\* No other call for its key was under way, comes later or left a command.
Undisturbed(w) == \A v \in Writer : ~ Interferes(v, w)

\* Acknowledged calls of RevokeClass and of UnrevokeClass.
Revoked(w) == result[w] = "ok" /\ order[w].op = "SET"
Unrevoked(u) == result[u] = "ok" /\ order[u].op = "DEL"

\* The instant of w's order is not reached.
Lasts(w) == order[w].until = Forever \/ clock < order[w].until

\* While it lasts, an undisturbed order is what its key holds.
LEMMA KeyHeld ==
  ASSUME IInv, NEW w \in Writer, Undisturbed(w), Revoked(w), Lasts(w)
  PROVE  Live(order[w].key) /\ keys[order[w].key].by = w
  <1> DEFINE k == order[w].key
             e == keys[k]
  <1>1. k \in DOMAIN keys /\ e.by = w
    BY DEF IInv, Standing, Undisturbed, Revoked
  <1>2. EntryOK(k, e) /\ UntilOf(e) = order[w].until
    BY <1>1 DEF IInv, Writers, UntilOf
  <1>3. ASSUME order[w].until # Forever PROVE clock < e.at + order[w].ttl
    <2>1. /\ e.at \in Nat /\ order[w].until \in Nat
          /\ order[w].revokedAt \in Nat /\ order[w].revokedAt <= e.at
          /\ order[w].ttl = order[w].until - order[w].revokedAt
      BY <1>1, <1>2, <1>3, EntrySpan
    <2>2. clock \in Nat /\ clock < order[w].until
      BY <1>3, BoundsAssumption DEF IInv, TypeOK, Lasts
    <2> HIDE DEF k, e
    <2> QED BY <2>1, <2>2
  <1> QED BY <1>1, <1>2, <1>3 DEF Live, Unexpired

\* Nothing holds the key of an undisturbed unrevocation.
LEMMA KeyLifted ==
  ASSUME IInv, NEW u \in Writer, Undisturbed(u), Unrevoked(u)
  PROVE  ~ Live(order[u].key)
  <1> SUFFICES ASSUME Live(order[u].key) PROVE FALSE
    OBVIOUS
  <1> DEFINE v == keys[order[u].key].by
  <1>1. order[u].key \in DOMAIN keys
    BY DEF Live
  <1>2. v \in Writer
    BY <1>1 DEF IInv, TypeOK, Entry
  <1>3. Interferes(v, u)
    BY <1>1 DEF IInv, Lifted, Unrevoked
  <1> QED BY <1>2, <1>3 DEF Undisturbed

\* What is acknowledged stays so, and an order that lasts lasted before.
LEMMA AcknowledgedKept ==
  ASSUME IInv, [Next]_vars, NEW w \in Writer, result[w] = "ok"
  PROVE  result'[w] = "ok" /\ order'[w] = order[w] /\ (Lasts(w)' => Lasts(w))
  <1>1. TypeOK /\ TypeOK' /\ WriterOK(w) /\ wpc[w] = "done"
    BY TypeStep DEF IInv, Writers, WriterOK
  <1>2. result'[w] = "ok" /\ order'[w] = order[w]
    BY <1>1, Steady
  <1>3. order[w] \in Order
    BY <1>1 DEF WriterOK
  <1>4. clock \in Nat /\ clock' \in Nat /\ clock <= clock'
    BY <1>1, BoundsAssumption, Steady DEF TypeOK
  <1>5. order[w].until = Forever \/ order[w].until \in Nat
    BY <1>3, UntilAssumption DEF Order
  <1> QED BY <1>2, <1>4, <1>5 DEF Lasts

\* A check that is neither answered nor called goes from its own key's GET to
\* a decision or to the class's key, or stays where it is.
LEMMA ReaderMoves ==
  ASSUME IInv, [Next]_vars, NEW r \in Reader
  PROVE  \/ rpc'[r] = rpc[r] /\ claim'[r] = claim[r] /\ reply'[r] = reply[r]
         \/ rpc'[r] \in {"idle", "own", "scan", "get"}
         \/ GetOwn(r)
  <1>0. TypeOK
    BY DEF IInv
  <1> SUFFICES ASSUME Next
               PROVE  \/ rpc'[r] = rpc[r] /\ claim'[r] = claim[r] /\ reply'[r] = reply[r]
                      \/ rpc'[r] \in {"idle", "own", "scan", "get"}
                      \/ GetOwn(r)
    BY DEF vars, readers
  <1>1. CASE ReadStep
    <2> PICK q \in Reader :
          \/ \E class \in Class, epoch \in Epoch : IsRevoked(q, class, epoch)
          \/ ListRevocations(q)
          \/ ReaderStep(q)
      BY <1>1 DEF ReadStep
    <2>1. CASE q # r
      BY <1>0, <2>1, OneReader
    <2>2. CASE q = r /\ ~ ReaderStep(r)
      BY <1>0, <2>2 DEF IsRevoked, ListRevocations, Ask, TypeOK
    <2>3. CASE DecideOwn(r) \/ GetWide(r) \/ FailRead(r) \/ ReturnListing(r)
      BY <1>0, <2>3 DEF DecideOwn, GetWide, FailRead, ReturnListing, Return, TypeOK
    <2>4. CASE \/ NextBatch(r)
               \/ \E batch \in SUBSET Key, last \in BOOLEAN : Scan(r, batch, last)
               \/ \E k \in Key : GetListed(r, k) \/ SkipListed(r, k)
      BY <1>0, <2>4 DEF NextBatch, Scan, GetListed, SkipListed, TypeOK
    <2> QED BY <2>1, <2>2, <2>3, <2>4 DEF ReaderStep, ListStep
  <1>2. ASSUME UNCHANGED readers
        PROVE  rpc'[r] = rpc[r] /\ claim'[r] = claim[r] /\ reply'[r] = reply[r]
    BY <1>2 DEF readers
  <1>3. CASE \E w \in Writer : CallWriter(w)
    BY <1>0, <1>2, <1>3, Called
  <1>4. CASE \E w \in Writer : WriterStep(w)
    BY <1>2, <1>4 DEF WriterStep, Retry, Fail
  <1>5. CASE Execute
    BY <1>2, <1>5 DEF Execute, ExecuteSet, ExecuteDel, Executed
  <1>6. CASE Tick
    BY <1>2, <1>6 DEF Tick
  <1> QED BY <1>1, <1>3, <1>4, <1>5, <1>6, Sorted

\* What a check that began after w's order was acknowledged has found so far.
Finding(w, r) ==
  /\ Revoked(w)
  /\ Lasts(w) /\ claim[r] = order[w].key =>
       rpc[r] # "wide" /\ (rpc[r] = "found" => reply[r].by = w)

\* And one that began after u's unrevocation was.
Missing(u, r) ==
  Unrevoked(u) /\ (rpc[r] = "found" => claim[r] # order[u].key)

\* The former goes on like that.
LEMMA FindingStep ==
  ASSUME IInv, [Next]_vars, NEW w \in Writer, NEW r \in Reader,
         Undisturbed(w), Finding(w, r)
  PROVE  Finding(w, r)'
  <1>0. TypeOK /\ result[w] = "ok"
    BY DEF IInv, Finding, Revoked
  <1>1. result'[w] = "ok" /\ order'[w] = order[w] /\ (Lasts(w)' => Lasts(w))
    BY <1>0, AcknowledgedKept
  <1>2. Revoked(w)'
    BY <1>1 DEF Finding, Revoked
  <1>3. CASE rpc'[r] = rpc[r] /\ claim'[r] = claim[r] /\ reply'[r] = reply[r]
    BY <1>1, <1>2, <1>3 DEF Finding
  <1>4. CASE rpc'[r] \in {"idle", "own", "scan", "get"}
    BY <1>2, <1>4 DEF Finding
  <1>5. CASE GetOwn(r)
    <2>1. /\ claim'[r] = claim[r]
          /\ rpc'[r] = IF Live(claim[r]) THEN "found" ELSE "wide"
          /\ reply'[r] = IF Live(claim[r]) THEN keys[claim[r]] ELSE None
      BY <1>0, <1>5 DEF GetOwn, TypeOK
    <2>2. ASSUME Lasts(w)', claim[r] = order[w].key
          PROVE  Live(claim[r]) /\ keys[claim[r]].by = w
      BY <1>1, <2>2, KeyHeld DEF Finding
    <2> QED BY <1>1, <1>2, <2>1, <2>2 DEF Finding
  <1> QED BY <1>3, <1>4, <1>5, ReaderMoves

\* A key whose unrevocation was acknowledged is not found any more.
LEMMA MissingStep ==
  ASSUME IInv, [Next]_vars, NEW u \in Writer, NEW r \in Reader,
         Undisturbed(u), Missing(u, r)
  PROVE  Missing(u, r)'
  <1>0. TypeOK /\ result[u] = "ok"
    BY DEF IInv, Missing, Unrevoked
  <1>1. result'[u] = "ok" /\ order'[u] = order[u]
    BY <1>0, AcknowledgedKept
  <1>2. Unrevoked(u)'
    BY <1>1 DEF Missing, Unrevoked
  <1>3. CASE rpc'[r] = rpc[r] /\ claim'[r] = claim[r] /\ reply'[r] = reply[r]
    BY <1>1, <1>2, <1>3 DEF Missing
  <1>4. CASE rpc'[r] \in {"idle", "own", "scan", "get"}
    BY <1>2, <1>4 DEF Missing
  <1>5. CASE GetOwn(r)
    <2>1. claim'[r] = claim[r] /\ rpc'[r] = IF Live(claim[r]) THEN "found" ELSE "wide"
      BY <1>0, <1>5 DEF GetOwn, TypeOK
    <2>2. ~ Live(order[u].key)
      BY KeyLifted DEF Missing
    <2> QED BY <1>1, <1>2, <2>1, <2>2 DEF Missing
  <1> QED BY <1>3, <1>4, <1>5, ReaderMoves

\* Once RevokeClass has returned without an error, a check that is called later
\* does not clear a credential under the order's key before its instant; under
\* a class's key it clears one only on an own entry of the epoch that has run
\* out (RevokeClass, IsRevoked).
THEOREM RevocationTakesEffect ==
  ASSUME NEW w \in Writer, NEW r \in Reader
  PROVE  Spec /\ []Undisturbed(w) =>
           [](Revoked(w) /\ rpc[r] = "idle" =>
                [][Answers(r, "clear") /\ Lasts(w) =>
                     /\ claim[r] # order[w].key
                     /\ WideKey(r) = order[w].key =>
                          rpc[r] = "found" /\ Lapsed(reply[r])]_vars)
  <1> DEFINE A == Answers(r, "clear") /\ Lasts(w) =>
                    /\ claim[r] # order[w].key
                    /\ WideKey(r) = order[w].key => rpc[r] = "found" /\ Lapsed(reply[r])
             Early == Revoked(w) /\ rpc[r] = "idle"
             J == Finding(w, r)
  <1>1. Early => J
    BY DEF Finding
  <1>2. IInv /\ Undisturbed(w) /\ J /\ [Next]_vars => J'
    BY FindingStep
  <1>3. ASSUME IInv, Undisturbed(w), J, [Next]_vars, Answers(r, "clear"), Lasts(w)
        PROVE  /\ claim[r] # order[w].key
               /\ WideKey(r) = order[w].key => rpc[r] = "found" /\ Lapsed(reply[r])
    <2>1. Live(order[w].key)
      BY <1>3, KeyHeld DEF Finding
    <2>2. \/ DecideOwn(r) /\ Lapsed(reply[r])
          \/ GetWide(r) /\ ~ Live(WideKey(r))
      BY <1>3, LastStep
    <2>3. CASE DecideOwn(r) /\ Lapsed(reply[r])
      <3>1. rpc[r] = "found"
        BY <2>3 DEF DecideOwn
      <3>2. ASSUME claim[r] = order[w].key PROVE FALSE
        <4>1. reply[r].by = w
          BY <1>3, <3>1, <3>2 DEF Finding
        <4>2. order[w].until # Forever /\ clock > order[w].until /\ clock < order[w].until
          BY <1>3, <2>3, <4>1 DEF Lapsed, UntilOf, Lasts
        <4>3. order[w] \in Order /\ clock \in Nat
          <5>1. TypeOK /\ WriterOK(w) /\ result[w] = "ok"
            BY <1>3 DEF IInv, Writers, Finding, Revoked
          <5> QED BY <5>1, BoundsAssumption DEF TypeOK, WriterOK
        <4>4. order[w].until \in Nat
          BY <4>2, <4>3, UntilAssumption DEF Order
        <4> QED BY <4>2, <4>3, <4>4
      <3> QED BY <2>3, <3>1, <3>2
    <2>4. CASE GetWide(r) /\ ~ Live(WideKey(r))
      <3>1. rpc[r] = "wide"
        BY <2>4 DEF GetWide
      <3> QED BY <1>3, <2>1, <2>4, <3>1 DEF Finding
    <2> QED BY <2>2, <2>3, <2>4
  <1>4. IInv /\ Undisturbed(w) /\ J /\ [Next]_vars => [A]_vars
    BY <1>3
  <1> HIDE DEF A, Early, J
  <1>5. Spec /\ []Undisturbed(w) => [](Early => [][A]_vars)
    BY <1>1, <1>2, <1>4, Invariant, PTL DEF Spec
  <1> QED BY <1>5 DEF A, Early

\* Once UnrevokeClass has returned without an error, a check that is called
\* later does not refuse on the key that was unrevoked: neither on the epoch's
\* own, nor on the class's (UnrevokeClass, IsRevoked).
THEOREM UnrevocationTakesEffect ==
  ASSUME NEW u \in Writer, NEW r \in Reader
  PROVE  Spec /\ []Undisturbed(u) =>
           [](Unrevoked(u) /\ rpc[r] = "idle" =>
                [][Answers(r, "revoked") =>
                     \/ rpc[r] = "found" /\ claim[r] # order[u].key
                     \/ rpc[r] = "wide" /\ WideKey(r) # order[u].key]_vars)
  <1> DEFINE A == Answers(r, "revoked") =>
                    \/ rpc[r] = "found" /\ claim[r] # order[u].key
                    \/ rpc[r] = "wide" /\ WideKey(r) # order[u].key
             Early == Unrevoked(u) /\ rpc[r] = "idle"
             J == Missing(u, r)
  <1>1. Early => J
    BY DEF Missing
  <1>2. IInv /\ Undisturbed(u) /\ J /\ [Next]_vars => J'
    BY MissingStep
  <1>3. ASSUME IInv, Undisturbed(u), J, [Next]_vars, Answers(r, "revoked")
        PROVE  \/ rpc[r] = "found" /\ claim[r] # order[u].key
               \/ rpc[r] = "wide" /\ WideKey(r) # order[u].key
    <2>1. ~ Live(order[u].key)
      BY <1>3, KeyLifted DEF Missing
    <2>2. \/ DecideOwn(r)
          \/ GetWide(r) /\ Live(WideKey(r))
      BY <1>3, LastStep
    <2>3. CASE DecideOwn(r)
      BY <1>3, <2>3 DEF DecideOwn, Missing
    <2>4. CASE GetWide(r) /\ Live(WideKey(r))
      BY <2>1, <2>4 DEF GetWide
    <2> QED BY <2>2, <2>3, <2>4
  <1>4. IInv /\ Undisturbed(u) /\ J /\ [Next]_vars => [A]_vars
    BY <1>3
  <1> HIDE DEF A, Early, J
  <1>5. Spec /\ []Undisturbed(u) => [](Early => [][A]_vars)
    BY <1>1, <1>2, <1>4, Invariant, PTL DEF Spec
  <1> QED BY <1>5 DEF A, Early

\* Where orders are only ever permanent, a check reports every order that
\* covered the credential all along (RevokeClass without an instant, IsRevoked).
THEOREM PermanentOrdersReported ==
  ASSUME Until \subseteq {Forever}
  PROVE  Spec => [][\A r \in Reader : Answers(r, "clear") =>
                      stood[r] \cap {claim[r], WideKey(r)} = {}]_vars
  <1>1. ASSUME IInv, NEW r \in Reader, rpc[r] = "found" PROVE ~ Lapsed(reply[r])
    <2>1. EntryOK(claim[r], reply[r])
      BY <1>1 DEF IInv, ReaderOK
    <2>2. order[reply[r].by] \in Order
      BY <1>1, <2>1 DEF EntryOK, Entry, IInv, Writers, WriterOK
    <2> QED BY <2>2 DEF Order, Lapsed, UntilOf
  <1>2. IInv /\ [\A r \in Reader :
                   Answers(r, "clear") /\ stood[r] \cap {claim[r], WideKey(r)} # {} =>
                     /\ rpc[r] = "found"
                     /\ Lapsed(reply[r])
                     /\ UntilOf(reply[r]) >= began[r] \/ Delayed(reply[r])]_vars
          => [\A r \in Reader : Answers(r, "clear") =>
                stood[r] \cap {claim[r], WideKey(r)} = {}]_vars
    BY <1>1
  <1> QED BY <1>2, Invariant, StandingReported, PTL DEF StandingOrderReported
=============================================================================
