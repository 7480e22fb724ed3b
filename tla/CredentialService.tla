------------------------- MODULE CredentialService -------------------------
(***************************************************************************)
(* One server process with in-memory stores, and the requests it serves    *)
(* concurrently: POST /v1/credential/consume handlers, one goroutine each  *)
(* (CredentialService.Consume over InMemoryNullifierStore and              *)
(* InMemoryRevocationStore), the administrator's revoke and unrevoke       *)
(* handlers, and the shutdown sequence of Server.Shutdown.                 *)
(*                                                                         *)
(* A handler's pc names the next thing it does to state that others see:   *)
(*   revocation  epoch check and IsRevoked                                 *)
(*   verify      decode the points, poll the context, verify the signature *)
(*   store       CheckAndStore polls the context                           *)
(*   lock        CheckAndStore's critical section                          *)
(*   count       the nullifier-store metric                                *)
(*   respond     the consumption metric and the HTTP answer                *)
(***************************************************************************)
EXTENDS Credentials, Integers, FiniteSets

CONSTANTS Request,        \* consume requests, each made once
          Presented,      \* the presentations clients make
          NoInput,        \* a request not made yet
          AllEpochs, Forever, MaxNow,
          Orders          \* (class, scope, until): what administrators place

ASSUME PresentedAssumption == Presented \subseteq Presentation
ASSUME NoInputAssumption == NoInput \notin Presentation
ASSUME ClockAssumption == MaxNow \in Nat /\ Forever \notin Nat
ASSUME ScopeAssumption == AllEpochs \notin Epoch
ASSUME OrdersAssumption ==
  Orders \subseteq Class \X (Epoch \cup {AllEpochs}) \X (Nat \cup {Forever})

VARIABLES pc, input, verdict, reply,   \* per request
          cancelled,                   \* requests whose context is done
          nullifiers,                  \* InMemoryNullifierStore.store
          nullifierOps, consumption,   \* Prometheus counters
          phase,                       \* of the server process
          now, entries,                \* the clock, the revocation store
          orders,    \* history: what administrators placed and did not lift
          exposed    \* history: requests that met an instant with no order

Revocations == INSTANCE RevocationMemory

request == <<pc, input, verdict, reply, cancelled>>
metrics == <<nullifierOps, consumption>>
policy == <<now, entries, orders, exposed>>
vars == <<request, nullifiers, metrics, phase, policy>>

PC == {"idle", "revocation", "verify", "store", "lock", "count", "respond", "done"}
Verdict == {"none", "accepted", "duplicate", "revoked", "invalid", "unavailable"}

\* The labels of the two counters and the HTTP status, by verdict.
StoreLabel(v) == CASE v = "accepted" -> "unique"
                   [] v = "duplicate" -> "duplicate"
                   [] OTHER -> "failure"
ConsumptionLabel(v) == CASE v = "accepted" -> "success"
                         [] v \in {"duplicate", "revoked"} -> v
                         [] OTHER -> "failure"
HTTPStatus(v) == CASE v = "accepted" -> "200 OK"
                   [] v \in {"duplicate", "revoked"} -> "409 Conflict"
                   [] v = "invalid" -> "400 Bad Request"
                   [] OTHER -> "503 Service Unavailable"
Reply == {"none", "lost", "200 OK", "409 Conflict", "400 Bad Request",
          "503 Service Unavailable"}

InFlight == {r \in Request : pc[r] \notin {"idle", "done"}}

\* Some order of the administrators stands over this class and epoch.
StandingOrder(class, epoch) ==
  \E scope \in {epoch, AllEpochs} :
    /\ <<class, scope>> \in DOMAIN orders
    /\ ~ Revocations!Expired(orders[<<class, scope>>])

Uncovered(r) == ~ StandingOrder(input[r].class, input[r].epoch)

Init ==
  /\ pc = [r \in Request |-> "idle"]
  /\ input = [r \in Request |-> NoInput]
  /\ verdict = [r \in Request |-> "none"]
  /\ reply = [r \in Request |-> "none"]
  /\ cancelled = {}
  /\ nullifiers = {}
  /\ nullifierOps = [l \in {"unique", "duplicate", "failure"} |-> 0]
  /\ consumption = [l \in {"success", "duplicate", "revoked", "failure"} |-> 0]
  /\ phase = "serving"
  /\ Revocations!Init
  /\ orders = Revocations!Empty
  /\ exposed = {}

-----------------------------------------------------------------------------
(* The consume handler.                                                    *)

At(r, label) == phase # "stopped" /\ pc[r] = label
Goto(r, label) == pc' = [pc EXCEPT ![r] = label]
Decide(r, v) == verdict' = [verdict EXCEPT ![r] = v]

\* The server takes new connections until its listener is closed.
Listening == phase \in {"serving", "closing"}

\* Mutant: a body that does not decode is handed on all the same.
ArriveUndecoded(r) ==
  /\ Listening
  /\ pc[r] = "idle"
  /\ \E p \in Presented \cup {NoInput} : input' = [input EXCEPT ![r] = p]
  /\ Goto(r, "revocation")
  /\ UNCHANGED <<verdict, reply, cancelled, nullifiers, metrics, phase, policy>>

Arrive(r) ==
  /\ Listening
  /\ pc[r] = "idle"
  /\ \E p \in Presented :
       /\ input' = [input EXCEPT ![r] = p]
       /\ exposed' = exposed \cup {q \in {r} : ~ StandingOrder(p.class, p.epoch)}
  /\ Goto(r, "revocation")
  /\ UNCHANGED <<verdict, reply, cancelled, nullifiers, metrics, phase,
                 now, entries, orders>>

RejectEpoch(r) ==
  /\ At(r, "revocation")
  /\ ~ IsEpochSupported(input[r].epoch)
  /\ Decide(r, "invalid") /\ Goto(r, "respond")
  /\ UNCHANGED <<input, reply, cancelled, nullifiers, metrics, phase, policy>>

RejectRevoked(r) ==
  /\ At(r, "revocation")
  /\ IsEpochSupported(input[r].epoch)
  /\ Revocations!IsRevoked(input[r].class, input[r].epoch)
  /\ Decide(r, "revoked") /\ Goto(r, "respond")
  /\ UNCHANGED <<input, reply, cancelled, nullifiers, metrics, phase, policy>>

PassRevocation(r) ==
  /\ At(r, "revocation")
  /\ IsEpochSupported(input[r].epoch)
  /\ ~ Revocations!IsRevoked(input[r].class, input[r].epoch)
  /\ Goto(r, "verify")
  /\ UNCHANGED <<input, verdict, reply, cancelled, nullifiers, metrics, phase,
                 policy>>

RejectPoint(r) ==
  /\ At(r, "verify")
  /\ input[r].sig = NotAPoint
  /\ Decide(r, "invalid") /\ Goto(r, "respond")
  /\ UNCHANGED <<input, reply, cancelled, nullifiers, metrics, phase, policy>>

\* Mutant: any request may be turned away as cancelled.
RejectUncancelled(r) ==
  /\ At(r, "verify")
  /\ input[r].sig # NotAPoint
  /\ Decide(r, "unavailable") /\ Goto(r, "respond")
  /\ UNCHANGED <<input, reply, cancelled, nullifiers, metrics, phase, policy>>

RejectCancelled(r) ==
  /\ At(r, "verify")
  /\ input[r].sig # NotAPoint
  /\ r \in cancelled
  /\ Decide(r, "unavailable") /\ Goto(r, "respond")
  /\ UNCHANGED <<input, reply, cancelled, nullifiers, metrics, phase, policy>>

Verifies(p) == VerifyPoint(p.sig, DeriveSigningKey(p.epoch, p.class))

RejectSignature(r) ==
  /\ At(r, "verify")
  /\ input[r].sig # NotAPoint
  /\ r \notin cancelled
  /\ ~ Verifies(input[r])
  /\ Decide(r, "invalid") /\ Goto(r, "respond")
  /\ UNCHANGED <<input, reply, cancelled, nullifiers, metrics, phase, policy>>

PassVerify(r) ==
  /\ At(r, "verify")
  /\ input[r].sig # NotAPoint
  /\ r \notin cancelled
  /\ Verifies(input[r])
  /\ Goto(r, "store")
  /\ UNCHANGED <<input, verdict, reply, cancelled, nullifiers, metrics, phase,
                 policy>>

\* Mutant: the context is polled after the nullifier has been written.
StoreThenPoll(r) ==
  /\ At(r, "store")
  /\ r \in cancelled
  /\ nullifiers' = nullifiers \cup {NullifierOf(input[r])}
  /\ Decide(r, "unavailable") /\ Goto(r, "count")
  /\ UNCHANGED <<input, reply, cancelled, metrics, phase, policy>>

ContextDone(r) ==
  /\ At(r, "store")
  /\ r \in cancelled
  /\ Decide(r, "unavailable") /\ Goto(r, "count")
  /\ UNCHANGED <<input, reply, cancelled, nullifiers, metrics, phase, policy>>

ContextLive(r) ==
  /\ At(r, "store")
  /\ r \notin cancelled
  /\ Goto(r, "lock")
  /\ UNCHANGED <<input, verdict, reply, cancelled, nullifiers, metrics, phase,
                 policy>>

\* Mutant: the lookup and the write are not one critical section.
StoreUnchecked(r) ==
  /\ At(r, "lock")
  /\ nullifiers' = nullifiers \cup {NullifierOf(input[r])}
  /\ Decide(r, "accepted") /\ Goto(r, "count")
  /\ UNCHANGED <<input, reply, cancelled, metrics, phase, policy>>

StoreNew(r) ==
  /\ At(r, "lock")
  /\ NullifierOf(input[r]) \notin nullifiers
  /\ nullifiers' = nullifiers \cup {NullifierOf(input[r])}
  /\ Decide(r, "accepted") /\ Goto(r, "count")
  /\ UNCHANGED <<input, reply, cancelled, metrics, phase, policy>>

FindExisting(r) ==
  /\ At(r, "lock")
  /\ NullifierOf(input[r]) \in nullifiers
  /\ Decide(r, "duplicate") /\ Goto(r, "count")
  /\ UNCHANGED <<input, reply, cancelled, nullifiers, metrics, phase, policy>>

CountStoreOp(r) ==
  /\ At(r, "count")
  /\ nullifierOps' = [nullifierOps EXCEPT ![StoreLabel(verdict[r])] = @ + 1]
  /\ Goto(r, "respond")
  /\ UNCHANGED <<input, verdict, reply, cancelled, nullifiers, consumption,
                 phase, policy>>

\* Mutant: every decided request that is no failure counts as a success.
RespondMiscounting(r) ==
  /\ At(r, "respond")
  /\ consumption' =
       [consumption EXCEPT ![IF ConsumptionLabel(verdict[r]) = "failure"
                               THEN "failure" ELSE "success"] = @ + 1]
  /\ reply' = [reply EXCEPT ![r] = HTTPStatus(verdict[r])]
  /\ Goto(r, "done")
  /\ UNCHANGED <<input, verdict, cancelled, nullifiers, nullifierOps, phase,
                 policy>>

\* Mutant: a handler whose client has gone never finishes.
RespondToLiveOnly(r) ==
  /\ At(r, "respond")
  /\ r \notin cancelled
  /\ consumption' = [consumption EXCEPT ![ConsumptionLabel(verdict[r])] = @ + 1]
  /\ reply' = [reply EXCEPT ![r] = HTTPStatus(verdict[r])]
  /\ Goto(r, "done")
  /\ UNCHANGED <<input, verdict, cancelled, nullifiers, nullifierOps, phase,
                 policy>>

\* The answer to a client that has gone is written to nobody.
Respond(r) ==
  /\ At(r, "respond")
  /\ consumption' = [consumption EXCEPT ![ConsumptionLabel(verdict[r])] = @ + 1]
  /\ reply' = [reply EXCEPT ![r] = IF r \in cancelled THEN "lost"
                                   ELSE HTTPStatus(verdict[r])]
  /\ Goto(r, "done")
  /\ UNCHANGED <<input, verdict, cancelled, nullifiers, nullifierOps, phase,
                 policy>>

Handle(r) ==
  \/ RejectEpoch(r) \/ RejectRevoked(r) \/ PassRevocation(r)
  \/ RejectPoint(r) \/ RejectCancelled(r) \/ RejectSignature(r) \/ PassVerify(r)
  \/ ContextDone(r) \/ ContextLive(r) \/ StoreNew(r) \/ FindExisting(r)
  \/ CountStoreOp(r) \/ Respond(r)

\* The client hangs up: net/http cancels the request's context.
Cancel(r) ==
  /\ r \in InFlight \ cancelled
  /\ phase # "stopped"
  /\ cancelled' = cancelled \cup {r}
  /\ UNCHANGED <<pc, input, verdict, reply, nullifiers, metrics, phase, policy>>

-----------------------------------------------------------------------------
(* The administrator's handlers and the clock.                             *)

NewlyExposed == {r \in InFlight : Uncovered(r)}

\* AdminRevokeRequest's "gt" rule: revoked_until lies in the future.
AdminRevoke(class, scope, until) ==
  /\ phase # "stopped"
  /\ until # Forever => until > now
  /\ Revocations!RevokeClass(class, scope, until)
  /\ orders' = Revocations!Put(orders, <<class, scope>>, until)
  /\ UNCHANGED <<request, nullifiers, metrics, phase, exposed>>

AdminUnrevoke(class, scope) ==
  /\ phase # "stopped"
  /\ Revocations!UnrevokeClass(class, scope)
  /\ orders' = Revocations!Drop(orders, <<class, scope>>)
  /\ UNCHANGED <<request, nullifiers, metrics, phase>>
  /\ exposed' = exposed \cup NewlyExposed'

Tick ==
  /\ Revocations!Tick
  /\ UNCHANGED <<request, nullifiers, metrics, phase, orders>>
  /\ exposed' = exposed \cup NewlyExposed'

-----------------------------------------------------------------------------
(* Server.Shutdown: the credential service's stores first, then the        *)
(* listener, then in-flight requests until they finish or time is up.      *)

CloseStores ==
  /\ phase = "serving"
  /\ phase' = "closing"
  /\ Revocations!Close
  /\ UNCHANGED <<request, nullifiers, metrics, orders, exposed>>

StopListening ==
  /\ phase = "closing"
  /\ phase' = "draining"
  /\ UNCHANGED <<request, nullifiers, metrics, policy>>

\* The process ends once the handlers have, or after the 30 s of main's
\* shutdown context, or is killed.
Exit ==
  /\ phase # "stopped"
  /\ phase' = "stopped"
  /\ UNCHANGED <<request, nullifiers, metrics, policy>>

-----------------------------------------------------------------------------
Admin ==
  \E order \in Orders :
    \/ AdminRevoke(order[1], order[2], order[3])
    \/ AdminUnrevoke(order[1], order[2])

Next ==
  \/ \E r \in Request : Arrive(r) \/ Handle(r) \/ Cancel(r)
  \/ Admin
  \/ Tick
  \/ CloseStores \/ StopListening \/ Exit

\* A goroutine that can run does; nothing obliges clients, administrators,
\* the clock or the operator.
Fairness == \A r \in Request : WF_vars(Handle(r))

Spec == Init /\ [][Next]_vars
FairSpec == Spec /\ Fairness

-----------------------------------------------------------------------------
(* Properties.                                                             *)

Accepted == {r \in Request : verdict[r] = "accepted"}

\* The type invariant: every variable keeps its shape, the clock its bound and
\* the revocation store its keys.
TypeOK ==
  /\ pc \in [Request -> PC]
  /\ input \in [Request -> Presented \cup {NoInput}]
  /\ \A r \in Request : pc[r] # "idle" => input[r] \in Presented
  /\ verdict \in [Request -> Verdict]
  /\ reply \in [Request -> Reply]
  /\ cancelled \subseteq Request
  /\ nullifiers \subseteq {NullifierOf(p) : p \in Presented}
  /\ nullifierOps \in [{"unique", "duplicate", "failure"} -> Nat]
  /\ consumption \in [{"success", "duplicate", "revoked", "failure"} -> Nat]
  /\ phase \in {"serving", "closing", "draining", "stopped"}
  /\ Revocations!TypeOK
  /\ Revocations!IsMap(orders)
  /\ exposed \subseteq Request

\* Replay protection: however the handlers of two requests interleave, the
\* server never accepts both for one nullifier (Consume over CheckAndStore's
\* critical section).
AtMostOnce ==
  \A r1, r2 \in Accepted :
    r1 # r2 => NullifierOf(input[r1]) # NullifierOf(input[r2])

\* A credential is burnt exactly when a request was accepted for it: a request
\* that is revoked, invalid or cancelled half-way leaves the nullifier store
\* as it was (CheckAndStore's early return and Consume's order of checks).
SpentIffAccepted == nullifiers = {NullifierOf(input[r]) : r \in Accepted}

\* A request that a standing order covered from its arrival on is never
\* accepted, shutdown or not: "All future redemptions for that class (or
\* class+epoch) will be rejected until the revocation is lifted"
\* (docs/api_reference.md:105).
FutureRedemptionsRejected == Accepted \subseteq exposed

\* The same while the server serves: a revocation placed before a request
\* arrives, and neither lifted nor run out before it is decided, stops it,
\* although the check and the nullifier's insertion are separate steps.
OrdersHonoured == phase = "serving" => FutureRedemptionsRejected

\* The counters never claim more than the store holds, and agree with it
\* whenever no handler is between its decision and its answer.
MetricsAgree ==
  LET duplicates == {r \in Request : verdict[r] = "duplicate"} IN
  /\ consumption["success"] <= nullifierOps["unique"]
  /\ nullifierOps["unique"] <= Cardinality(nullifiers)
  /\ consumption["duplicate"] <= nullifierOps["duplicate"]
  /\ nullifierOps["duplicate"] <= Cardinality(duplicates)
  /\ (\A r \in Request : pc[r] \notin {"count", "respond"}) =>
       /\ consumption["success"] = Cardinality(nullifiers)
       /\ consumption["duplicate"] = Cardinality(duplicates)

\* What a request claims and its verdict, as Redemption sees them.
Claim == input
AbstractVerdict ==
  [r \in Request |-> IF verdict[r] \in {"none", "accepted", "duplicate"}
                      THEN verdict[r] ELSE "declined"]

Promise == INSTANCE Redemption
  WITH Credential <- Presented,
       Genuine <- {p \in Presented : GenuinePresentation(p)},
       NoClaim <- NoInput,
       claim <- Claim,
       verdict <- AbstractVerdict

\* The server implements the abstract promise: only genuine credentials are
\* accepted, each once, a "duplicate" verdict has an accepted request behind
\* it and a verdict is never revised.
KeepsPromise == Promise!Spec

\* Every request that reached a handler is answered unless the process ends.
EveryRequestAnswered ==
  \A r \in Request : pc[r] = "revocation" ~> pc[r] = "done" \/ phase = "stopped"

\* A genuine credential that passed the revocation check is redeemed, by this
\* request or a rival one, unless its client hangs up or the process ends: no
\* race between rivals refuses both.
GenuineSettles ==
  \A r \in Request :
    pc[r] = "verify" /\ GenuinePresentation(input[r])
      ~> \/ \E winner \in Accepted : input[winner] = input[r]
         \/ r \in cancelled
         \/ phase = "stopped"
=============================================================================
