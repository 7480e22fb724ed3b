------------------------ MODULE RedisRevocationStore ------------------------
(***************************************************************************)
(* RedisRevocationStore (internal/storage/revocation_redis.go): orders are *)
(* keys of a Redis that every server process shares.  RevokeClass works    *)
(* out a time to live and sends SET, UnrevokeClass sends DEL, IsRevoked    *)
(* sends one GET or two, ListRevocations SCANs and GETs key by key.        *)
(*                                                                         *)
(* The go-redis client and Redis are outside the repository.  What is used *)
(* of them: a command is atomic; an attempt that times out, or whose       *)
(* connection breaks, is repeated up to MaxRetries times while its command *)
(* may still be executed; the calls run under context.Background() and are *)
(* never cancelled; SCAN delivers every key that stays in the database     *)
(* from its first call to its last, in at most MaxScans batches.           *)
(***************************************************************************)
EXTENDS Integers

CONSTANTS Class, Epoch,
          AllEpochs,    \* the empty epoch: the order covers the class
          Forever,      \* a nil RevokedUntil
          Writer,       \* calls of RevokeClass and UnrevokeClass
          Reader,       \* calls of IsRevoked and ListRevocations
          Until,        \* the instants that orders run until
          None,         \* nothing asked, nothing found
          MaxRetries,   \* redis.Options.MaxRetries
          MaxScans,     \* bound on the batches of one listing
          MaxClock      \* bound on the clock

ASSUME BoundsAssumption ==
  MaxRetries \in Nat /\ MaxScans \in Nat \ {0} /\ MaxClock \in Nat
ASSUME UntilAssumption == Forever \notin Int /\ Until \subseteq Nat \cup {Forever}

Scope == Epoch \cup {AllEpochs}
Key == Class \X Scope

VARIABLES clock,
          keys,      \* the database: key -> the SET that wrote it
          order,     \* what a writer asks for
          wpc,       \* a writer: idle, wait or done
          attempt,   \* number of the attempt under way, from 0
          result,    \* what the writer returned
          wire,      \* commands sent and not executed
          rpc,       \* a reader: idle, own, found, wide, scan or get
          claim,     \* the class and epoch that IsRevoked is asked for
          reply,     \* the entry that the GET of the own key returned
          listing,   \* ListRevocations' batch, cursor and keys read
          outcome,   \* what the reader's last call returned
          returned,  \* history: writers that had returned at a writer's call
          stood,     \* history: keys there since a reader's call, no GET of
                     \* which has failed
          began      \* history: the clock at a reader's call

writers == <<order, wpc, attempt, result, wire, returned>>
readers == <<rpc, claim, reply, listing, outcome, began>>
vars == <<clock, keys, writers, readers, stood>>

NoListing == [batches |-> 0, last |-> FALSE, todo |-> {}, entries |-> {}]

\* revocationKey: the class's own key when the epoch is empty.
revocationKey(class, epoch) == <<class, epoch>>

\* An entry holds what its writer asked for.
UntilOf(entry) == order[entry.by].until

\* The time to live runs from the execution of SET; without an instant to
\* run out at it is 0, which Redis takes for none.
Unexpired(entry) ==
  UntilOf(entry) # Forever => clock < entry.at + order[entry.by].ttl

\* time.Now().UTC().After(*entry.RevokedUntil)
Lapsed(entry) == UntilOf(entry) # Forever /\ clock > UntilOf(entry)

Live(key) == key \in DOMAIN keys /\ Unexpired(keys[key])

Init ==
  /\ clock = 0
  /\ keys = [k \in {} |-> None]
  /\ order = [w \in Writer |-> None]
  /\ wpc = [w \in Writer |-> "idle"]
  /\ attempt = [w \in Writer |-> 0]
  /\ result = [w \in Writer |-> "none"]
  /\ wire = {}
  /\ rpc = [r \in Reader |-> "idle"]
  /\ claim = [r \in Reader |-> None]
  /\ reply = [r \in Reader |-> None]
  /\ listing = [r \in Reader |-> NoListing]
  /\ outcome = [r \in Reader |-> "none"]
  /\ returned = [w \in Writer |-> {}]
  /\ stood = [r \in Reader |-> {}]
  /\ began = [r \in Reader |-> 0]

-----------------------------------------------------------------------------
(* RevokeClass and UnrevokeClass.                                          *)

\* The time to live as the caller's clock gives it, 0 for none.
TimeToLive(until) == IF until = Forever THEN 0 ELSE until - clock

Begin(w, op, key, until, ttl) ==
  /\ wpc[w] = "idle"
  /\ order' = [order EXCEPT ![w] =
       [op |-> op, key |-> key, until |-> until, ttl |-> ttl, revokedAt |-> clock]]
  /\ returned' = [returned EXCEPT ![w] = {v \in Writer : wpc[v] = "done"}]
  /\ UNCHANGED <<clock, keys, attempt, readers>>

Finish(w, answer) ==
  /\ wpc' = [wpc EXCEPT ![w] = "done"]
  /\ result' = [result EXCEPT ![w] = answer]

Sent(w) ==
  /\ wpc' = [wpc EXCEPT ![w] = "wait"]
  /\ wire' = wire \cup {<<w, 0>>}
  /\ UNCHANGED result

RevokeClass(w, class, scope, until) ==
  /\ until # Forever => until > clock
  /\ Begin(w, "SET", revocationKey(class, scope), until, TimeToLive(until))
  /\ Sent(w)

\* "revoked_until must be in the future"
RefuseRevoke(w, class, scope, until) ==
  /\ until # Forever /\ until <= clock
  /\ Begin(w, "SET", revocationKey(class, scope), until, TimeToLive(until))
  /\ Finish(w, "error")
  /\ UNCHANGED wire

\* Mutant: the reply is not waited for.
UnrevokeInBackground(w, class, scope) ==
  /\ Begin(w, "DEL", revocationKey(class, scope), Forever, 0)
  /\ Finish(w, "ok")
  /\ wire' = wire \cup {<<w, 0>>}

UnrevokeClass(w, class, scope) ==
  /\ Begin(w, "DEL", revocationKey(class, scope), Forever, 0)
  /\ Sent(w)

\* The command leaves the wire, and its reply reaches the attempt that waits
\* for it, or is lost; the reply to an earlier attempt goes nowhere.
Executed(w, n) ==
  /\ wire' = wire \ {<<w, n>>}
  /\ \/ wpc[w] = "wait" /\ attempt[w] = n /\ Finish(w, "ok")
     \/ UNCHANGED <<wpc, result>>
  /\ UNCHANGED <<clock, order, attempt, returned, readers>>

\* Mutant: SETNX, which leaves an order that is there as it is.
ExecuteSetNew(w, n) ==
  /\ order[w].op = "SET"
  /\ keys' = IF Live(order[w].key) THEN keys
             ELSE [k \in DOMAIN keys \cup {order[w].key} |->
                     IF k = order[w].key THEN [by |-> w, at |-> clock] ELSE keys[k]]
  /\ Executed(w, n)

ExecuteSet(w, n) ==
  /\ order[w].op = "SET"
  /\ keys' = [k \in DOMAIN keys \cup {order[w].key} |->
                IF k = order[w].key THEN [by |-> w, at |-> clock] ELSE keys[k]]
  /\ Executed(w, n)

ExecuteDel(w, n) ==
  /\ order[w].op = "DEL"
  /\ keys' = [k \in DOMAIN keys \ {order[w].key} |-> keys[k]]
  /\ Executed(w, n)

\* Mutant: one attempt too many.
RetryOnceMore(w) ==
  /\ wpc[w] = "wait"
  /\ attempt[w] <= MaxRetries
  /\ attempt' = [attempt EXCEPT ![w] = @ + 1]
  /\ wire' = wire \cup {<<w, attempt[w] + 1>>}
  /\ UNCHANGED <<clock, keys, order, wpc, result, returned, readers>>

\* The attempt fails with its command or its reply still under way, and the
\* client library sends the command again.
Retry(w) ==
  /\ wpc[w] = "wait"
  /\ attempt[w] < MaxRetries
  /\ attempt' = [attempt EXCEPT ![w] = @ + 1]
  /\ wire' = wire \cup {<<w, attempt[w] + 1>>}
  /\ UNCHANGED <<clock, keys, order, wpc, result, returned, readers>>

Fail(w) ==
  /\ wpc[w] = "wait"
  /\ attempt[w] = MaxRetries
  /\ Finish(w, "error")
  /\ UNCHANGED <<clock, keys, order, attempt, wire, returned, readers>>

-----------------------------------------------------------------------------
(* IsRevoked.                                                              *)

Ask(r, pc, what) ==
  /\ rpc[r] = "idle"
  /\ rpc' = [rpc EXCEPT ![r] = pc]
  /\ claim' = [claim EXCEPT ![r] = what]
  /\ began' = [began EXCEPT ![r] = IF pc = "own" THEN clock ELSE 0]
  /\ outcome' = [outcome EXCEPT ![r] = "none"]
  /\ UNCHANGED <<clock, keys, writers, reply, listing>>

\* The call's locals go with it, and the reader may call again.
Return(r, answer) ==
  /\ rpc' = [rpc EXCEPT ![r] = "idle"]
  /\ outcome' = [outcome EXCEPT ![r] = answer]
  /\ claim' = [claim EXCEPT ![r] = None]
  /\ reply' = [reply EXCEPT ![r] = None]
  /\ listing' = [listing EXCEPT ![r] = NoListing]
  /\ began' = [began EXCEPT ![r] = 0]
  /\ UNCHANGED <<clock, keys, writers>>

IsRevoked(r, class, epoch) == Ask(r, "own", revocationKey(class, epoch))

\* The class-wide key of the class that is asked for.
WideKey(r) == revocationKey(claim[r][1], AllEpochs)

GetOwn(r) ==
  /\ rpc[r] = "own"
  /\ rpc' = [rpc EXCEPT ![r] = IF Live(claim[r]) THEN "found" ELSE "wide"]
  /\ reply' = [reply EXCEPT ![r] = IF Live(claim[r]) THEN keys[claim[r]] ELSE None]
  /\ UNCHANGED <<clock, keys, writers, claim, listing, outcome, began>>

\* Mutant: an own entry blocks, run out or not.
DecideOwnUnread(r) ==
  /\ rpc[r] = "found"
  /\ Return(r, "revoked")

\* The own entry decides, run out or not, by the process's clock.
DecideOwn(r) ==
  /\ rpc[r] = "found"
  /\ Return(r, IF Lapsed(reply[r]) THEN "clear" ELSE "revoked")

\* Mutant: the class-wide key is looked up under the epoch again.
GetOwnAgain(r) ==
  /\ rpc[r] = "wide"
  /\ Return(r, IF Live(claim[r]) THEN "revoked" ELSE "clear")

\* The class-wide entry blocks without a look at its instant.
GetWide(r) ==
  /\ rpc[r] = "wide"
  /\ Return(r, IF Live(WideKey(r)) THEN "revoked" ELSE "clear")

\* A GET or SCAN that fails after its retries fails the call.
FailRead(r) ==
  /\ rpc[r] \in {"own", "wide", "scan"}
  /\ Return(r, "error")

-----------------------------------------------------------------------------
(* ListRevocations.                                                        *)

ListRevocations(r) == Ask(r, "scan", None)

\* One SCAN: some keys of the database, and a cursor that is 0 only when every
\* key that stood all along has been delivered.
Scan(r, batch, last) ==
  /\ rpc[r] = "scan"
  /\ listing[r].batches < MaxScans
  /\ batch \subseteq {k \in DOMAIN keys : Live(k)}
  /\ listing[r].batches + 1 = MaxScans => last
  /\ last => stood[r] \subseteq listing[r].entries \cup batch
  /\ rpc' = [rpc EXCEPT ![r] = "get"]
  /\ listing' = [listing EXCEPT ![r] =
       [batches |-> @.batches + 1, last |-> last, todo |-> batch, entries |-> @.entries]]
  /\ UNCHANGED <<clock, keys, writers, claim, reply, outcome, began>>

GetListed(r, k) ==
  /\ rpc[r] = "get"
  /\ k \in listing[r].todo
  /\ Live(k)
  /\ listing' = [listing EXCEPT ![r].todo = @ \ {k},
                                ![r].entries = @ \cup {k}]
  /\ UNCHANGED <<clock, keys, writers, rpc, claim, reply, outcome, began>>

\* The GET fails, or finds nothing: the key is passed over in silence.
SkipListed(r, k) ==
  /\ rpc[r] = "get"
  /\ k \in listing[r].todo
  /\ listing' = [listing EXCEPT ![r].todo = @ \ {k}]
  /\ UNCHANGED <<clock, keys, writers, rpc, claim, reply, outcome, began>>

NextBatch(r) ==
  /\ rpc[r] = "get"
  /\ listing[r].todo = {}
  /\ ~ listing[r].last
  /\ rpc' = [rpc EXCEPT ![r] = "scan"]
  /\ UNCHANGED <<clock, keys, writers, claim, reply, listing, outcome, began>>

\* Mutant: the cursor is not looked at.
ReturnFirstBatch(r) ==
  /\ rpc[r] = "get"
  /\ listing[r].todo = {}
  /\ Return(r, "listed")

ReturnListing(r) ==
  /\ rpc[r] = "get"
  /\ listing[r].todo = {}
  /\ listing[r].last
  /\ Return(r, "listed")

-----------------------------------------------------------------------------
Tick ==
  /\ clock < MaxClock
  /\ clock' = clock + 1
  /\ UNCHANGED <<keys, writers, readers>>

WriterStep(w) == Retry(w) \/ Fail(w)

ListStep(r) ==
  \/ \E batch \in SUBSET Key, last \in BOOLEAN : Scan(r, batch, last)
  \/ \E k \in Key : GetListed(r, k) \/ SkipListed(r, k)
  \/ NextBatch(r)
  \/ ReturnListing(r)

ReaderStep(r) == GetOwn(r) \/ DecideOwn(r) \/ GetWide(r) \/ FailRead(r) \/ ListStep(r)

CallStep ==
  \/ \E w \in Writer, class \in Class, scope \in Scope :
       \/ \E until \in Until : RevokeClass(w, class, scope, until)
                               \/ RefuseRevoke(w, class, scope, until)
       \/ UnrevokeClass(w, class, scope)
  \/ \E r \in Reader :
       \/ \E class \in Class, epoch \in Epoch : IsRevoked(r, class, epoch)
       \/ ListRevocations(r)

Execute == \E command \in wire :
  ExecuteSet(command[1], command[2]) \/ ExecuteDel(command[1], command[2])

PassedOver(r) == listing[r].todo \ (listing'[r].todo \cup listing'[r].entries)

\* What a reader could count on: the keys that were never absent.
Watch ==
  stood' = [r \in Reader |->
              IF rpc'[r] = "idle" THEN {}
              ELSE {k \in IF rpc[r] = "idle" THEN Key ELSE stood[r] \ PassedOver(r) : Live(k)'}]

Next ==
  /\ \/ CallStep
     \/ \E w \in Writer : WriterStep(w)
     \/ Execute
     \/ \E r \in Reader : ReaderStep(r)
     \/ Tick
  /\ Watch

Spec == Init /\ [][Next]_vars

-----------------------------------------------------------------------------
(* Properties.                                                             *)

Command == Writer \X (0..MaxRetries)
Entry == [by : Writer, at : 0..MaxClock]
Order == [op : {"SET", "DEL"}, key : Key, until : Until \cup {Forever},
          ttl : Int, revokedAt : 0..MaxClock]

Listing == [batches : 0..MaxScans, last : BOOLEAN, todo : SUBSET Key, entries : SUBSET Key]

\* The type invariant.
TypeOK ==
  /\ clock \in 0..MaxClock
  /\ DOMAIN keys \subseteq Key
  /\ \A k \in DOMAIN keys : keys[k] \in Entry
  /\ order \in [Writer -> Order \cup {None}]
  /\ wpc \in [Writer -> {"idle", "wait", "done"}]
  /\ attempt \in [Writer -> 0..MaxRetries]
  /\ result \in [Writer -> {"none", "ok", "error"}]
  /\ wire \subseteq Command
  /\ rpc \in [Reader -> {"idle", "own", "found", "wide", "scan", "get"}]
  /\ claim \in [Reader -> (Class \X Epoch) \cup {None}]
  /\ reply \in [Reader -> Entry \cup {None}]
  /\ listing \in [Reader -> Listing]
  /\ outcome \in [Reader -> {"none", "revoked", "clear", "listed", "error"}]
  /\ returned \in [Writer -> SUBSET Writer]
  /\ stood \in [Reader -> SUBSET Key]
  /\ began \in [Reader -> 0..MaxClock]

\* The SET reached Redis after its time to live had been worked out.
Delayed(entry) == entry.at > order[entry.by].revokedAt

\* v can undo what w has been told is done: it was not over when w was
\* called, or some attempt of it is unaccounted for.
Interferes(v, w) ==
  /\ v # w /\ wpc[v] # "idle" /\ order[v].key = order[w].key
  /\ v \notin returned[w] \/ attempt[v] > 0 \/ result[v] = "error"

\* An acknowledged order stays in the database until its instant, unless
\* another call for the same key was under way, came later, or left a command
\* behind (RevokeClass).
OrderStands ==
  \A w \in Writer :
    result[w] = "ok" /\ order[w].op = "SET" /\ ~ Live(order[w].key) =>
      \/ order[w].until # Forever /\ clock >= order[w].until
      \/ \E v \in Writer : Interferes(v, w)

\* An order that is in the database after an acknowledged unrevocation was
\* put there by a call that was not over when the unrevocation began, or by a
\* repeated or failed one whose command came late (UnrevokeClass).
UnrevokeHolds ==
  \A u \in Writer :
    result[u] = "ok" /\ order[u].op = "DEL" /\ Live(order[u].key) =>
      Interferes(keys[order[u].key].by, u)

Answers(r, answer) ==
  rpc[r] # "idle" /\ rpc'[r] = "idle" /\ outcome'[r] = answer

\* IsRevoked clears a credential that an order covered all along only on an
\* own entry that it found past its instant: one that ran out between the GET
\* and the decision, or one that is still there because its SET was delayed.
StandingOrderReported ==
  [][\A r \in Reader :
       Answers(r, "clear") /\ stood[r] \cap {claim[r], WideKey(r)} # {} =>
         /\ rpc[r] = "found"
         /\ Lapsed(reply[r])
         /\ UntilOf(reply[r]) >= began[r] \/ Delayed(reply[r])]_vars

\* The entry on which a check is about to refuse.
Grounds(r) ==
  IF rpc[r] = "found" THEN {reply[r]}
  ELSE {keys[k] : k \in DOMAIN keys \cap {WideKey(r)}}

\* A credential is reported as revoked because of an order for it that has
\* not run out, or past its instant because of a class-wide one whose SET was
\* delayed: the own key's instant is looked at, the class's is not.
RefusalJustified ==
  [][\A r \in Reader : Answers(r, "revoked") =>
       \E entry \in Grounds(r) :
         \/ order[entry.by].key = claim[r] /\ ~ Lapsed(entry)
         \/ order[entry.by].key = WideKey(r) /\ (~ Lapsed(entry) \/ Delayed(entry))]_vars

\* A listing leaves out an order that stood all along only if its GET failed,
\* which ListRevocations does not report.
ListOmitsOnlyUnread ==
  [][\A r \in Reader : Answers(r, "listed") => stood[r] \subseteq listing[r].entries]_vars

=============================================================================
