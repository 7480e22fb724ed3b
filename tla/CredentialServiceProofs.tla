---------------------- MODULE CredentialServiceProofs ----------------------
(***************************************************************************)
(* What CredentialService guarantees for any set of requests, credentials  *)
(* and orders: its types, replay protection, the exact contents of the     *)
(* nullifier store, that it implements Redemption, what a refusal means,   *)
(* when orders are honoured, what the counters can be trusted for, and     *)
(* that a handler comes to an end.                                         *)
(***************************************************************************)
EXTENDS CredentialService, FiniteSetTheorems, TLAPS

USE DEF Revocations!Scope, Revocations!Key, Revocations!Until

\* The steps of a consume handler that leave the nullifier store, the counters
\* and the answer alone: they only move pc and perhaps decide a verdict.
Quiet(r) ==
  \/ RejectEpoch(r) \/ RejectRevoked(r) \/ PassRevocation(r)
  \/ RejectPoint(r) \/ RejectCancelled(r) \/ RejectSignature(r) \/ PassVerify(r)
  \/ ContextDone(r) \/ ContextLive(r) \/ FindExisting(r)

-----------------------------------------------------------------------------
\* Put and Drop keep a map from keys to instants one (the revocation store's
\* upsert and delete).
LEMMA MapsStayMaps ==
  ASSUME NEW map, Revocations!IsMap(map), NEW key \in Revocations!Key,
         NEW until \in Revocations!Until
  PROVE  /\ Revocations!IsMap(Revocations!Put(map, key, until))
         /\ Revocations!IsMap(Revocations!Drop(map, key))
BY DEF Revocations!IsMap, Revocations!Put, Revocations!Drop

\* The labels are among those the counters have.
LEMMA Labels ==
  ASSUME NEW v \in Verdict
  PROVE  /\ StoreLabel(v) \in {"unique", "duplicate", "failure"}
         /\ ConsumptionLabel(v) \in {"success", "duplicate", "revoked", "failure"}
         /\ HTTPStatus(v) \in Reply
<1>1. v \in {"none", "accepted", "duplicate", "revoked", "invalid", "unavailable"}
  BY DEF Verdict
<1>2. CASE v = "accepted"
  BY <1>2, Zenon DEF StoreLabel, ConsumptionLabel, HTTPStatus, Reply
<1>3. CASE v = "duplicate"
  BY <1>3, Zenon DEF StoreLabel, ConsumptionLabel, HTTPStatus, Reply
<1>4. CASE v = "revoked"
  BY <1>4, Zenon DEF StoreLabel, ConsumptionLabel, HTTPStatus, Reply
<1>5. CASE v = "invalid"
  BY <1>5, Zenon DEF StoreLabel, ConsumptionLabel, HTTPStatus, Reply
<1>6. CASE v \in {"none", "unavailable"}
  BY <1>6, Zenon DEF StoreLabel, ConsumptionLabel, HTTPStatus, Reply
<1> QED
  BY <1>1, <1>2, <1>3, <1>4, <1>5, <1>6

\* Every variable keeps its type in the initial state (CredentialService.Init).
LEMMA TypeInit == Init => TypeOK
BY ClockAssumption
   DEF Init, TypeOK, PC, Verdict, Reply, Revocations!Init, Revocations!TypeOK,
       Revocations!Empty, Revocations!IsMap

\* Every step of the server keeps every variable's type.
LEMMA TypeStep == TypeOK /\ [Next]_vars => TypeOK'
<1> SUFFICES ASSUME TypeOK, [Next]_vars PROVE TypeOK'
  OBVIOUS
<1>1. ASSUME NEW r \in Request, Arrive(r) PROVE TypeOK'
  BY <1>1 DEF TypeOK, Arrive, Goto, PC, metrics, Revocations!TypeOK
<1>2. ASSUME NEW r \in Request, Quiet(r) PROVE TypeOK'
  BY <1>2
     DEF TypeOK, Quiet, RejectEpoch, RejectRevoked, PassRevocation, RejectPoint,
         RejectCancelled, RejectSignature, PassVerify, ContextDone, ContextLive,
         FindExisting, At, Goto, Decide, PC, Verdict, metrics, policy,
         Revocations!TypeOK
<1>3. ASSUME NEW r \in Request, StoreNew(r) PROVE TypeOK'
  <2>1. input[r] \in Presented
    BY <1>3 DEF TypeOK, StoreNew, At
  <2> QED
    BY <1>3, <2>1
       DEF TypeOK, At, StoreNew, Goto, Decide, PC, Verdict, metrics, policy,
           Revocations!TypeOK
<1>4. ASSUME NEW r \in Request, CountStoreOp(r) PROVE TypeOK'
  <2>1. StoreLabel(verdict[r]) \in {"unique", "duplicate", "failure"}
    BY Labels DEF TypeOK
  <2> QED
    BY <1>4, <2>1 DEF TypeOK, At, CountStoreOp, Goto, PC, policy, Revocations!TypeOK
<1>5. ASSUME NEW r \in Request, Respond(r) PROVE TypeOK'
  <2>1. /\ ConsumptionLabel(verdict[r]) \in {"success", "duplicate", "revoked", "failure"}
        /\ HTTPStatus(verdict[r]) \in Reply
        /\ "lost" \in Reply
    BY Labels DEF TypeOK, Reply
  <2> QED
    BY <1>5, <2>1 DEF TypeOK, At, Respond, Goto, PC, policy, Revocations!TypeOK
<1>6. ASSUME NEW r \in Request, Cancel(r) PROVE TypeOK'
  BY <1>6 DEF TypeOK, Cancel, InFlight, metrics, policy, Revocations!TypeOK
<1>7. CASE Admin
  <2>1. PICK order \in Orders : \/ AdminRevoke(order[1], order[2], order[3])
                                \/ AdminUnrevoke(order[1], order[2])
    BY <1>7 DEF Admin
  <2>2. <<order[1], order[2]>> \in Revocations!Key /\ order[3] \in Revocations!Until
    BY OrdersAssumption
  <2> DEFINE key == <<order[1], order[2]>>
  <2>a. \A map : Revocations!IsMap(map) =>
          /\ Revocations!IsMap(Revocations!Put(map, key, order[3]))
          /\ Revocations!IsMap(Revocations!Drop(map, key))
    BY <2>2, MapsStayMaps
  <2>3. Revocations!IsMap(entries') /\ Revocations!IsMap(orders') /\ now' = now
    BY <2>1, <2>a
       DEF TypeOK, AdminRevoke, AdminUnrevoke, Revocations!TypeOK,
           Revocations!RevokeClass, Revocations!UnrevokeClass,
           Revocations!revocationKey
  <2>4. exposed' \subseteq Request
    BY <2>1 DEF TypeOK, AdminRevoke, AdminUnrevoke, NewlyExposed, InFlight
  <2> QED
    BY <2>1, <2>3, <2>4
       DEF TypeOK, AdminRevoke, AdminUnrevoke, request, metrics, Revocations!TypeOK
<1>8. CASE Tick
  <2>1. now' \in 0..MaxNow /\ entries' = entries /\ orders' = orders
    BY <1>8, ClockAssumption
       DEF TypeOK, Tick, Revocations!Tick, Revocations!TypeOK
  <2>2. exposed' \subseteq Request
    BY <1>8 DEF TypeOK, Tick, NewlyExposed, InFlight
  <2> QED
    BY <1>8, <2>1, <2>2 DEF TypeOK, Tick, request, metrics, Revocations!TypeOK
<1>9. CASE CloseStores
  <2>1. Revocations!IsMap(entries') /\ now' = now
    BY <1>9 DEF CloseStores, Revocations!Close, Revocations!Empty, Revocations!IsMap
  <2> QED
    BY <1>9, <2>1 DEF TypeOK, CloseStores, request, metrics, Revocations!TypeOK
<1>10. CASE StopListening \/ Exit
  BY <1>10 DEF TypeOK, StopListening, Exit, request, metrics, policy, Revocations!TypeOK
<1>11. CASE UNCHANGED vars
  BY <1>11 DEF TypeOK, vars, request, metrics, policy, Revocations!TypeOK
<1> QED
  BY <1>1, <1>2, <1>3, <1>4, <1>5, <1>6, <1>7, <1>8, <1>9, <1>10, <1>11
     DEF Next, Handle, Quiet

\* Every reachable state of the server is well-typed.
THEOREM TypeCorrect == Spec => []TypeOK
BY TypeInit, TypeStep, PTL DEF Spec

-----------------------------------------------------------------------------
(* The inductive invariant.  AtMostOnce is not inductive: that a new       *)
(* acceptance repeats no earlier one follows from the nullifier store only *)
(* because the store holds every accepted nullifier (SpentIffAccepted), and*)
(* that what is accepted is genuine follows from what the earlier steps of *)
(* the handler checked (HandlerOK).                                        *)

HandlerOK(r) ==
  /\ pc[r] = "idle" <=> input[r] = NoInput
  /\ verdict[r] = "none"
       <=> pc[r] \in {"idle", "revocation", "verify", "store", "lock"}
  /\ pc[r] = "verify" => IsEpochSupported(input[r].epoch)
  /\ pc[r] \in {"store", "lock"} => GenuinePresentation(input[r])
  /\ verdict[r] \in {"accepted", "duplicate"} => GenuinePresentation(input[r])

IInv ==
  /\ TypeOK
  /\ \A r \in Request : HandlerOK(r)
  /\ SpentIffAccepted
  /\ AtMostOnce

\* The handlers' own discipline is kept by every step.
LEMMA HandlerStep ==
  ASSUME TypeOK, \A r \in Request : HandlerOK(r), [Next]_vars
  PROVE  \A r \in Request : HandlerOK(r)'
<1> SUFFICES ASSUME NEW q \in Request PROVE HandlerOK(q)'
  OBVIOUS
<1> USE DEF HandlerOK
<1>1. ASSUME NEW r \in Request, Arrive(r) PROVE HandlerOK(q)'
  BY <1>1, PresentedAssumption, NoInputAssumption DEF TypeOK, Arrive, Goto
<1>2. ASSUME NEW r \in Request, RejectEpoch(r) \/ RejectRevoked(r) \/ PassRevocation(r)
      PROVE  HandlerOK(q)'
  BY <1>2 DEF TypeOK, RejectEpoch, RejectRevoked, PassRevocation, At, Goto, Decide
<1>3. ASSUME NEW r \in Request,
             RejectPoint(r) \/ RejectCancelled(r) \/ RejectSignature(r) \/ PassVerify(r)
      PROVE  HandlerOK(q)'
  BY <1>3
     DEF TypeOK, RejectPoint, RejectCancelled, RejectSignature, PassVerify, At,
         Goto, Decide, GenuinePresentation, Verifies
<1>4. ASSUME NEW r \in Request,
             ContextDone(r) \/ ContextLive(r) \/ FindExisting(r) \/ StoreNew(r)
      PROVE  HandlerOK(q)'
  BY <1>4 DEF TypeOK, ContextDone, ContextLive, FindExisting, StoreNew, At, Goto, Decide
<1>5. ASSUME NEW r \in Request, CountStoreOp(r) \/ Respond(r) PROVE HandlerOK(q)'
  BY <1>5 DEF TypeOK, CountStoreOp, Respond, At, Goto
<1>6. CASE UNCHANGED <<pc, input, verdict>>
  BY <1>6
<1>7. ASSUME NEW r \in Request, Cancel(r) PROVE UNCHANGED <<pc, input, verdict>>
  BY <1>7 DEF Cancel
<1>8. CASE Admin \/ Tick \/ CloseStores \/ StopListening \/ Exit \/ UNCHANGED vars
  <2>1. UNCHANGED request
    BY <1>8
       DEF Admin, AdminRevoke, AdminUnrevoke, Tick, CloseStores, StopListening,
           Exit, vars
  <2> QED
    BY <2>1, <1>6 DEF request
<1> QED
  BY <1>1, <1>2, <1>3, <1>4, <1>5, <1>6, <1>7, <1>8 DEF Next, Handle

\* A step that decides nothing, or declines or refuses, leaves the store and
\* the set of accepted requests alone.
LEMMA StoreStep ==
  ASSUME TypeOK, \A r \in Request : HandlerOK(r), [Next]_vars,
         \A r \in Request : ~ StoreNew(r)
  PROVE  /\ nullifiers' = nullifiers
         /\ Accepted' = Accepted
         /\ \A r \in Accepted : input'[r] = input[r]
<1>1. ASSUME NEW r \in Request, Arrive(r)
      PROVE  /\ nullifiers' = nullifiers
             /\ verdict' = verdict
             /\ \A q \in Accepted : input'[q] = input[q]
  BY <1>1 DEF TypeOK, HandlerOK, Arrive, Accepted
<1>2. ASSUME NEW r \in Request, Quiet(r) PROVE nullifiers' = nullifiers /\ input' = input
  BY <1>2
     DEF Quiet, RejectEpoch, RejectRevoked, PassRevocation, RejectPoint,
         RejectCancelled, RejectSignature, PassVerify, ContextDone, ContextLive,
         FindExisting
<1>3. ASSUME NEW r \in Request, Quiet(r) PROVE Accepted' = Accepted
  <2>1. \/ verdict' = verdict
        \/ /\ verdict[r] = "none"
           /\ \E v \in Verdict \ {"accepted"} : verdict' = [verdict EXCEPT ![r] = v]
    BY <1>3
       DEF TypeOK, HandlerOK, Quiet, RejectEpoch, RejectRevoked, PassRevocation,
           RejectPoint, RejectCancelled, RejectSignature, PassVerify, ContextDone,
           ContextLive, FindExisting, At, Decide, Verdict
  <2> QED
    BY <2>1 DEF TypeOK, Accepted
<1>4. ASSUME NEW r \in Request, CountStoreOp(r) \/ Respond(r) \/ Cancel(r)
      PROVE  UNCHANGED <<nullifiers, verdict, input>>
  BY <1>4 DEF CountStoreOp, Respond, Cancel
<1>5. CASE Admin \/ Tick \/ CloseStores \/ StopListening \/ Exit \/ UNCHANGED vars
  BY <1>5
     DEF Admin, AdminRevoke, AdminUnrevoke, Tick, CloseStores, StopListening, Exit,
         vars, request, Accepted
<1> QED
  BY <1>1, <1>2, <1>3, <1>4, <1>5 DEF Next, Handle, Quiet, Accepted

\* What StoreNew does to the set of accepted requests: it adds its own, whose
\* nullifier no accepted request has.
LEMMA StoreNewStep ==
  ASSUME IInv, NEW r \in Request, StoreNew(r)
  PROVE  /\ Accepted' = Accepted \cup {r}
         /\ r \notin Accepted
         /\ nullifiers' = nullifiers \cup {NullifierOf(input[r])}
         /\ input' = input
         /\ \A q \in Accepted : NullifierOf(input[q]) # NullifierOf(input[r])
<1>1. verdict[r] = "none" /\ verdict' = [verdict EXCEPT ![r] = "accepted"]
  BY DEF IInv, HandlerOK, StoreNew, At, Decide
<1>2. Accepted' = Accepted \cup {r} /\ r \notin Accepted
  BY <1>1 DEF IInv, TypeOK, Accepted
<1> QED
  BY <1>2 DEF IInv, SpentIffAccepted, StoreNew

\* Every step of the server keeps the invariant.
LEMMA InvStep == IInv /\ [Next]_vars => IInv'
<1> SUFFICES ASSUME IInv, [Next]_vars PROVE IInv'
  OBVIOUS
<1>1. TypeOK' /\ \A r \in Request : HandlerOK(r)'
  BY TypeStep, HandlerStep DEF IInv
<1>2. ASSUME NEW r \in Request, StoreNew(r) PROVE SpentIffAccepted' /\ AtMostOnce'
  <2>1. SpentIffAccepted'
    BY <1>2, StoreNewStep DEF IInv, SpentIffAccepted, NullifierOf
  <2>2. AtMostOnce'
    BY <1>2, StoreNewStep DEF IInv, AtMostOnce, NullifierOf
  <2> QED
    BY <2>1, <2>2
<1>3. ASSUME \A r \in Request : ~ StoreNew(r) PROVE SpentIffAccepted' /\ AtMostOnce'
  <2>1. /\ nullifiers' = nullifiers /\ Accepted' = Accepted
        /\ \A r \in Accepted : input'[r] = input[r]
    BY <1>3, StoreStep DEF IInv
  <2>2. SpentIffAccepted'
    BY <2>1 DEF IInv, SpentIffAccepted, NullifierOf
  <2>3. AtMostOnce'
    BY <2>1 DEF IInv, AtMostOnce, NullifierOf
  <2> QED
    BY <2>2, <2>3
<1> QED
  BY <1>1, <1>2, <1>3 DEF IInv

\* The invariant holds when the server starts.
LEMMA InvInit == Init => IInv
<1> SUFFICES ASSUME Init PROVE IInv
  OBVIOUS
<1>1. \A r \in Request : HandlerOK(r)
  BY DEF Init, HandlerOK
<1>2. Accepted = {} /\ nullifiers = {}
  BY DEF Init, Accepted
<1> QED
  BY <1>1, <1>2, TypeInit DEF IInv, SpentIffAccepted, AtMostOnce

\* The inductive invariant holds in every reachable state.
THEOREM Invariant == Spec => []IInv
BY InvInit, InvStep, PTL DEF Spec

\* Replay protection for any number of concurrent requests and any set of
\* credentials: no nullifier is ever accepted twice (Consume, CheckAndStore).
THEOREM ReplayProtection == Spec => []AtMostOnce
<1>1. IInv => AtMostOnce
  BY DEF IInv
<1> QED
  BY <1>1, Invariant, PTL

\* The nullifier store holds the accepted credentials and nothing else, at
\* every instant: no failed, revoked or cancelled request burns one.
THEOREM StoreExact == Spec => []SpentIffAccepted
<1>1. IInv => SpentIffAccepted
  BY DEF IInv
<1> QED
  BY <1>1, Invariant, PTL

-----------------------------------------------------------------------------
(* The server implements Redemption.                                       *)

\* Two presentations with one nullifier are the same presentation: the
\* nullifier binds epoch, class and signature (ComputeNullifier).
LEMMA NullifierInjective ==
  ASSUME NEW p \in Presentation, NEW q \in Presentation,
         NullifierOf(p) = NullifierOf(q)
  PROVE  p = q
BY DEF NullifierOf, ComputeNullifier, Presentation

\* A server that starts is in an initial state of the promise.
LEMMA PromiseInit == Init => Promise!Init
BY DEF Init, Promise!Init, Claim, AbstractVerdict

\* The abstract set of spent credentials is what accepted requests claimed.
LEMMA AbstractSpent == Promise!Spent = {input[r] : r \in Accepted}
<1>1. \A r \in Request : AbstractVerdict[r] = "accepted" <=> verdict[r] = "accepted"
  BY DEF AbstractVerdict
<1> QED
  BY <1>1 DEF Promise!Spent, Promise!Accepted, Accepted, Claim

\* Each step of the server is a step of the promise or changes nothing in it.
LEMMA PromiseStep == IInv /\ [Next]_vars => [Promise!Next]_Promise!vars
<1> SUFFICES ASSUME IInv, [Next]_vars PROVE [Promise!Next]_Promise!vars
  OBVIOUS
<1> USE DEF Claim
<1>1. ASSUME NEW r \in Request, Arrive(r) PROVE Promise!Present(r)
  BY <1>1 DEF IInv, HandlerOK, Arrive, Promise!Present, AbstractVerdict
<1>2. ASSUME NEW r \in Request, input[r] # NoInput, verdict[r] = "none",
             input' = input, NEW v \in Verdict \ {"none"}, Decide(r, v)
      PROVE  /\ Promise!Undecided(r) /\ UNCHANGED Claim
             /\ AbstractVerdict' =
                  [AbstractVerdict EXCEPT ![r] =
                     IF v \in {"accepted", "duplicate"} THEN v ELSE "declined"]
  BY <1>2 DEF IInv, TypeOK, Verdict, Decide, Promise!Undecided, AbstractVerdict
<1>3. ASSUME NEW r \in Request, StoreNew(r) PROVE Promise!Accept(r)
  <2>1. input[r] # NoInput /\ verdict[r] = "none" /\ GenuinePresentation(input[r])
    BY <1>3 DEF IInv, HandlerOK, StoreNew, At
  <2>2. input[r] \in Presented
    BY <1>3 DEF IInv, TypeOK, StoreNew, At
  <2>3. input[r] \notin Promise!Spent
    BY <1>3, StoreNewStep, AbstractSpent
  <2> QED
    BY <1>2, <1>3, <2>1, <2>2, <2>3 DEF StoreNew, Verdict, Promise!Accept
<1>4. ASSUME NEW r \in Request, FindExisting(r) PROVE Promise!RefuseDuplicate(r)
  <2>1. input[r] # NoInput /\ verdict[r] = "none" /\ input[r] \in Presentation
    BY <1>4, PresentedAssumption DEF IInv, HandlerOK, TypeOK, FindExisting, At
  <2>2. PICK q \in Accepted : NullifierOf(input[r]) = NullifierOf(input[q])
    BY <1>4 DEF IInv, SpentIffAccepted, FindExisting
  <2>3. input[q] \in Presentation
    BY PresentedAssumption DEF IInv, HandlerOK, TypeOK, Accepted
  <2>4. input[r] \in Promise!Spent
    BY <2>1, <2>2, <2>3, NullifierInjective, AbstractSpent
  <2> QED
    BY <1>2, <1>4, <2>1, <2>4 DEF FindExisting, Verdict, Promise!RefuseDuplicate
<1>5. ASSUME NEW r \in Request,
             \/ RejectEpoch(r) \/ RejectRevoked(r) \/ RejectPoint(r)
             \/ RejectCancelled(r) \/ RejectSignature(r) \/ ContextDone(r)
      PROVE  Promise!Decline(r)
  <2>1. input[r] # NoInput /\ verdict[r] = "none" /\ input' = input
    BY <1>5
       DEF IInv, HandlerOK, RejectEpoch, RejectRevoked, RejectPoint,
           RejectCancelled, RejectSignature, ContextDone, At
  <2>2. PICK v \in {"invalid", "revoked", "unavailable"} : Decide(r, v)
    BY <1>5
       DEF RejectEpoch, RejectRevoked, RejectPoint, RejectCancelled,
           RejectSignature, ContextDone
  <2> QED
    BY <1>2, <2>1, <2>2 DEF Verdict, Promise!Decline
<1>6. CASE UNCHANGED <<input, verdict>>
  BY <1>6 DEF Promise!vars, AbstractVerdict
<1>7. ASSUME NEW r \in Request,
             \/ PassRevocation(r) \/ PassVerify(r) \/ ContextLive(r)
             \/ CountStoreOp(r) \/ Respond(r) \/ Cancel(r)
      PROVE  UNCHANGED <<input, verdict>>
  BY <1>7 DEF PassRevocation, PassVerify, ContextLive, CountStoreOp, Respond, Cancel
<1>8. CASE Admin \/ Tick \/ CloseStores \/ StopListening \/ Exit \/ UNCHANGED vars
  <2>1. UNCHANGED request
    BY <1>8
       DEF Admin, AdminRevoke, AdminUnrevoke, Tick, CloseStores, StopListening,
           Exit, vars
  <2> QED
    BY <2>1, <1>6 DEF request
<1> QED
  BY <1>1, <1>3, <1>4, <1>5, <1>6, <1>7, <1>8 DEF Next, Handle, Promise!Next

\* The memory-backed server implements the abstract promise of redemption for
\* any requests, credentials, orders and interleaving.
THEOREM Refinement == Spec => KeepsPromise
BY PromiseInit, InvInit, InvStep, PromiseStep, PTL DEF Spec, KeepsPromise, Promise!Spec

\* What the abstract promise is worth, of which it says nothing itself: an
\* accepted claim is genuine and is accepted once, and a duplicate is one.
Settled ==
  /\ Promise!TypeOK
  /\ \A r \in Request : Claim[r] = NoInput => AbstractVerdict[r] = "none"
  /\ \A r \in Promise!Accepted :
       Claim[r] \in Presented /\ GenuinePresentation(Claim[r])
  /\ \A r, s \in Promise!Accepted : Claim[r] = Claim[s] => r = s
  /\ \A r \in Request : AbstractVerdict[r] = "duplicate" => Claim[r] \in Promise!Spent

\* Every step of the promise keeps what it is worth.
LEMMA SettledStep == Settled /\ [Promise!Next]_Promise!vars => Settled'
<1> SUFFICES ASSUME Settled, [Promise!Next]_Promise!vars PROVE Settled'
  OBVIOUS
<1> USE DEF Settled, Promise!TypeOK
<1>1. ASSUME NEW r \in Request, Promise!Present(r) PROVE Settled'
  <2>1. PICK c \in Presented : Claim' = [Claim EXCEPT ![r] = c]
    BY <1>1 DEF Promise!Present
  <2>2. /\ Claim[r] = NoInput /\ AbstractVerdict' = AbstractVerdict
        /\ AbstractVerdict[r] = "none"
    BY <1>1 DEF Promise!Present
  <2>3. Promise!Accepted' = Promise!Accepted /\ r \notin Promise!Accepted
    BY <2>2 DEF Promise!Accepted
  <2>4. Promise!Spent' = Promise!Spent
    BY <2>1, <2>2, <2>3 DEF Promise!Spent, Promise!Accepted
  <2>5. Promise!TypeOK'
    BY <2>1, <2>2
  <2>6. \A q \in Request : q # r => Claim'[q] = Claim[q]
    BY <2>1
  <2>7. \A q \in Promise!Accepted' : Claim'[q] = Claim[q] /\ q \in Promise!Accepted
    BY <2>3, <2>6 DEF Promise!Accepted
  <2>8. /\ \A q \in Request : Claim'[q] = NoInput => AbstractVerdict'[q] = "none"
        /\ \A q \in Request : AbstractVerdict'[q] = "duplicate" => Claim'[q] \in Promise!Spent'
    BY <2>2, <2>4, <2>6
  <2> QED
    BY <2>5, <2>7, <2>8
<1>2. ASSUME NEW r \in Request, Promise!Accept(r) PROVE Settled'
  <2>1. /\ Claim' = Claim /\ AbstractVerdict' = [AbstractVerdict EXCEPT ![r] = "accepted"]
        /\ Claim[r] \in Presented /\ GenuinePresentation(Claim[r])
        /\ Claim[r] \notin Promise!Spent /\ Claim[r] # NoInput
        /\ AbstractVerdict[r] = "none"
    BY <1>2 DEF Promise!Accept, Promise!Undecided
  <2>2. Promise!Accepted' = Promise!Accepted \cup {r}
    BY <2>1 DEF Promise!Accepted
  <2>3. Promise!Spent \subseteq Promise!Spent'
    BY <2>1, <2>2 DEF Promise!Spent
  <2>4. \A q \in Promise!Accepted : Claim[q] # Claim[r]
    BY <2>1 DEF Promise!Spent
  <2>5. \A q, s \in Promise!Accepted' : Claim'[q] = Claim'[s] => q = s
    BY <2>1, <2>2, <2>4
  <2>6. \A q \in Promise!Accepted' :
          Claim'[q] \in Presented /\ GenuinePresentation(Claim[q])
    BY <2>1, <2>2
  <2>7. \A q \in Request : AbstractVerdict'[q] = "duplicate" => Claim'[q] \in Promise!Spent'
    BY <2>1, <2>3
  <2> QED
    BY <2>1, <2>5, <2>6, <2>7
<1>3. ASSUME NEW r \in Request, Promise!RefuseDuplicate(r) \/ Promise!Decline(r)
      PROVE  Settled'
  <2>1. PICK v \in {"duplicate", "declined"} :
          /\ AbstractVerdict' = [AbstractVerdict EXCEPT ![r] = v]
          /\ v = "duplicate" => Claim[r] \in Promise!Spent
    BY <1>3 DEF Promise!RefuseDuplicate, Promise!Decline
  <2>2. /\ Claim' = Claim /\ AbstractVerdict[r] = "none" /\ Claim[r] # NoInput
    BY <1>3 DEF Promise!RefuseDuplicate, Promise!Decline, Promise!Undecided
  <2>3. Promise!Accepted' = Promise!Accepted
    BY <2>1, <2>2 DEF Promise!Accepted
  <2>4. Promise!Spent' = Promise!Spent
    BY <2>2, <2>3 DEF Promise!Spent
  <2> QED
    BY <2>1, <2>2, <2>3, <2>4
<1>4. CASE UNCHANGED Promise!vars
  BY <1>4 DEF Promise!vars, Promise!Accepted, Promise!Spent
<1> QED
  BY <1>1, <1>2, <1>3, <1>4 DEF Promise!Next

\* The abstract promise entails replay protection by itself: every behaviour
\* of Redemption accepts genuine claims only, each once, and calls nothing a
\* duplicate that was not accepted.
THEOREM PromiseEntails == Promise!Spec => []Settled
<1>1. Promise!Init => Settled
  BY DEF Promise!Init, Settled, Promise!TypeOK, Promise!Accepted
<1> QED
  BY <1>1, SettledStep, PTL DEF Promise!Spec

\* "(false, nil) if nullifier already exists (replay attempt)" (store.go:13)
\* holds of the memory store, carried over from the promise by the refinement:
\* a request is refused as a duplicate only when another one was accepted for
\* the very same credential.
THEOREM DuplicateMeansAccepted ==
  Spec => [](\A r \in Request : verdict[r] = "duplicate" =>
               \E winner \in Accepted : winner # r /\ input[winner] = input[r])
<1> DEFINE Behind == \A r \in Request : verdict[r] = "duplicate" =>
                       \E winner \in Accepted : winner # r /\ input[winner] = input[r]
<1>1. Settled => Behind
  <2> SUFFICES ASSUME Settled, NEW r \in Request, verdict[r] = "duplicate"
               PROVE  \E winner \in Accepted : winner # r /\ input[winner] = input[r]
    OBVIOUS
  <2>1. AbstractVerdict[r] = "duplicate"
    BY DEF AbstractVerdict
  <2>2. input[r] \in Promise!Spent
    BY <2>1 DEF Settled, Claim
  <2>3. PICK winner \in Accepted : input[winner] = input[r]
    BY <2>2, AbstractSpent
  <2> QED
    BY <2>3 DEF Accepted
<1> HIDE DEF Behind
<1>2. Spec => Promise!Spec
  BY Refinement DEF KeepsPromise
<1> QED
  BY <1>1, <1>2, PromiseEntails, PTL DEF Behind

-----------------------------------------------------------------------------
(* Why a request is refused, and how far it has come.                      *)

\* Each refusal has its reason: "invalid" that the credential is not genuine,
\* "unavailable" that the client is gone.
Justified(r) ==
  /\ verdict[r] = "invalid" => ~ GenuinePresentation(input[r])
  /\ verdict[r] = "unavailable" => r \in cancelled

\* Every step keeps the reasons, for decided requests change no more.
LEMMA JustifiedStep ==
  ASSUME IInv, \A r \in Request : Justified(r), [Next]_vars
  PROVE  \A r \in Request :
           /\ Justified(r)'
           /\ verdict[r] # "none" => verdict'[r] = verdict[r]
<1> SUFFICES ASSUME NEW q \in Request
             PROVE  /\ Justified(q)'
                    /\ verdict[q] # "none" => verdict'[q] = verdict[q]
  OBVIOUS
<1>0. Justified(q) /\ HandlerOK(q) /\ TypeOK
  BY DEF IInv
<1>1. ASSUME NEW r \in Request, Arrive(r)
      PROVE  Justified(q)' /\ verdict' = verdict
  BY <1>0, <1>1 DEF Justified, HandlerOK, Arrive, TypeOK
<1>2. ASSUME NEW r \in Request, NEW v \in Verdict, Decide(r, v), verdict[r] = "none",
             input' = input, cancelled' = cancelled,
             v = "invalid" => ~ GenuinePresentation(input[r]),
             v = "unavailable" => r \in cancelled
      PROVE  Justified(q)' /\ (verdict[q] # "none" => verdict'[q] = verdict[q])
  BY <1>0, <1>2 DEF Justified, Decide, TypeOK
<1>3. ASSUME NEW r \in Request, RejectEpoch(r) \/ RejectPoint(r) \/ RejectSignature(r)
      PROVE  Justified(q)' /\ (verdict[q] # "none" => verdict'[q] = verdict[q])
  <2>1. Decide(r, "invalid") /\ input' = input /\ cancelled' = cancelled
    BY <1>3 DEF RejectEpoch, RejectPoint, RejectSignature
  <2>2. verdict[r] = "none" /\ ~ GenuinePresentation(input[r])
    BY <1>3
       DEF RejectEpoch, RejectPoint, RejectSignature, At, GenuinePresentation, Verifies,
           IInv, HandlerOK
  <2> QED
    BY <1>2, <2>1, <2>2 DEF Verdict
<1>4. ASSUME NEW r \in Request, RejectCancelled(r) \/ ContextDone(r)
      PROVE  Justified(q)' /\ (verdict[q] # "none" => verdict'[q] = verdict[q])
  <2>1. /\ Decide(r, "unavailable") /\ input' = input /\ cancelled' = cancelled
        /\ r \in cancelled /\ verdict[r] = "none"
    BY <1>4 DEF RejectCancelled, ContextDone, At, IInv, HandlerOK
  <2> QED
    BY <1>2, <2>1 DEF Verdict
<1>5. ASSUME NEW r \in Request, RejectRevoked(r) \/ StoreNew(r) \/ FindExisting(r)
      PROVE  Justified(q)' /\ (verdict[q] # "none" => verdict'[q] = verdict[q])
  <2>1. PICK v \in {"revoked", "accepted", "duplicate"} : Decide(r, v)
    BY <1>5 DEF RejectRevoked, StoreNew, FindExisting
  <2>2. input' = input /\ cancelled' = cancelled /\ verdict[r] = "none"
    BY <1>5 DEF RejectRevoked, StoreNew, FindExisting, At, IInv, HandlerOK
  <2> QED
    BY <1>2, <2>1, <2>2 DEF Verdict
<1>6. CASE UNCHANGED <<input, verdict>> /\ cancelled \subseteq cancelled'
  BY <1>0, <1>6 DEF Justified
<1>7. ASSUME NEW r \in Request,
             \/ PassRevocation(r) \/ PassVerify(r) \/ ContextLive(r)
             \/ CountStoreOp(r) \/ Respond(r) \/ Cancel(r)
      PROVE  UNCHANGED <<input, verdict>> /\ cancelled \subseteq cancelled'
  BY <1>7 DEF PassRevocation, PassVerify, ContextLive, CountStoreOp, Respond, Cancel
<1>8. CASE Admin \/ Tick \/ CloseStores \/ StopListening \/ Exit \/ UNCHANGED vars
  <2>1. UNCHANGED request
    BY <1>8
       DEF Admin, AdminRevoke, AdminUnrevoke, Tick, CloseStores, StopListening,
           Exit, vars
  <2> QED
    BY <2>1, <1>6 DEF request
<1> QED
  BY <1>1, <1>3, <1>4, <1>5, <1>6, <1>7, <1>8 DEF Next, Handle

\* No race, hang-up or shutdown turns a good credential away: a request is
\* told that its credential is invalid only if it is, and that the service is
\* unavailable only if its client has hung up; and no verdict is revised
\* (Consume's order of checks, CheckAndStore).
THEOREM RefusalsJustified ==
  Spec => /\ [](\A r \in Request : Justified(r))
          /\ [][\A r \in Request : verdict[r] # "none" => verdict'[r] = verdict[r]]_vars
<1> DEFINE All == \A r \in Request : Justified(r)
           Final == \A r \in Request : verdict[r] # "none" => verdict'[r] = verdict[r]
<1>1. Init => All
  BY DEF Init, Justified
<1>2. IInv /\ All /\ [Next]_vars => All' /\ Final
  BY JustifiedStep
<1>3. IInv /\ All /\ [Next]_vars => [Final]_vars
  BY <1>2
<1> HIDE DEF All, Final
<1> QED
  BY <1>1, <1>2, <1>3, Invariant, PTL DEF Spec, All, Final

\* The steps of a handler in their order.
Place == [idle |-> 0, revocation |-> 1, verify |-> 2, store |-> 3, lock |-> 4,
          count |-> 5, respond |-> 6, done |-> 7]

\* A handler is over after at most seven steps of its own, whatever the other
\* requests, the administrators and the shutdown do meanwhile: each takes it
\* further and nothing sets it back.  It is what EveryRequestAnswered rests on
\* beside fairness (Consume, handleConsume).
THEOREM HandlersAdvance ==
  Spec => [][\A r \in Request :
               /\ Place[pc'[r]] \in 0..7 /\ Place[pc'[r]] >= Place[pc[r]]
               /\ Handle(r) => Place[pc'[r]] > Place[pc[r]]]_vars
<1> DEFINE Further == \A r \in Request :
                        /\ Place[pc'[r]] \in 0..7 /\ Place[pc'[r]] >= Place[pc[r]]
                        /\ Handle(r) => Place[pc'[r]] > Place[pc[r]]
<1>1. /\ Place["idle"] = 0 /\ Place["revocation"] = 1 /\ Place["verify"] = 2
      /\ Place["store"] = 3 /\ Place["lock"] = 4 /\ Place["count"] = 5
      /\ Place["respond"] = 6 /\ Place["done"] = 7
  BY DEF Place
<1>2. \A label \in PC : Place[label] \in 0..7
  BY <1>1 DEF PC
<1>3. ASSUME IInv, NEW r \in Request, Handle(r)
      PROVE  /\ Place[pc'[r]] > Place[pc[r]]
             /\ \A q \in Request : q # r => pc'[q] = pc[q]
  <2>1. CASE RejectEpoch(r) \/ RejectRevoked(r) \/ PassRevocation(r)
    BY <1>1, <1>3, <2>1
       DEF RejectEpoch, RejectRevoked, PassRevocation, At, Goto, IInv, TypeOK
  <2>2. CASE RejectPoint(r) \/ RejectCancelled(r) \/ RejectSignature(r) \/ PassVerify(r)
    BY <1>1, <1>3, <2>2
       DEF RejectPoint, RejectCancelled, RejectSignature, PassVerify, At, Goto, IInv, TypeOK
  <2>3. CASE ContextDone(r) \/ ContextLive(r) \/ StoreNew(r) \/ FindExisting(r)
    BY <1>1, <1>3, <2>3
       DEF ContextDone, ContextLive, StoreNew, FindExisting, At, Goto, IInv, TypeOK
  <2>4. CASE CountStoreOp(r) \/ Respond(r)
    BY <1>1, <1>3, <2>4 DEF CountStoreOp, Respond, At, Goto, IInv, TypeOK
  <2> QED
    BY <1>3, <2>1, <2>2, <2>3, <2>4 DEF Handle
<1>4. ASSUME IInv, [Next]_vars, NEW q \in Request
      PROVE  Place[pc'[q]] \in 0..7 /\ Place[pc'[q]] >= Place[pc[q]]
  <2>1. pc[q] \in PC /\ pc'[q] \in PC
    BY <1>4, TypeStep DEF IInv, TypeOK
  <2>2. Place[pc[q]] \in 0..7 /\ Place[pc'[q]] \in 0..7
    BY <1>2, <2>1
  <2>3. CASE pc'[q] = pc[q]
    BY <2>2, <2>3
  <2>4. ASSUME NEW r \in Request, Handle(r) PROVE Place[pc'[q]] >= Place[pc[q]]
    <3>1. CASE q = r
      BY <1>3, <1>4, <2>2, <2>4, <3>1
    <3>2. CASE q # r
      BY <1>3, <1>4, <2>3, <2>4, <3>2
    <3> QED
      BY <3>1, <3>2
  <2>5. ASSUME NEW r \in Request, Arrive(r) PROVE Place[pc'[q]] >= Place[pc[q]]
    BY <1>1, <1>4, <2>2, <2>5 DEF Arrive, Goto, IInv, TypeOK
  <2>6. CASE (\E r \in Request : Cancel(r)) \/ Admin \/ Tick \/ CloseStores
               \/ StopListening \/ Exit \/ UNCHANGED vars
    <3>1. pc' = pc
      BY <2>6
         DEF Cancel, Admin, AdminRevoke, AdminUnrevoke, Tick, CloseStores, StopListening,
             Exit, vars, request
    <3> QED
      BY <2>3, <3>1
  <2> QED
    BY <1>4, <2>2, <2>4, <2>5, <2>6 DEF Next
<1>5. IInv /\ [Next]_vars => [Further]_vars
  BY <1>3, <1>4
<1> QED
  BY <1>5, Invariant, PTL DEF Spec

-----------------------------------------------------------------------------
(* Revocation.  While the server serves, an order is honoured although the *)
(* check and the acceptance are separate steps, provided no order for a    *)
(* single epoch ever runs out: one that has would hide a class-wide order  *)
(* that has not (GoverningKey).                                            *)

EpochOrdersPermanent == \A order \in Orders : order[2] # AllEpochs => order[3] = Forever

\* An unexposed request in flight is still covered, and none has got past the
\* revocation check.
OrdersInv ==
  /\ \A k \in DOMAIN orders : k[2] # AllEpochs => orders[k] = Forever
  /\ \A r \in InFlight \ exposed : ~ Uncovered(r)
  /\ phase = "serving" =>
       /\ entries = orders
       /\ \A r \in Request \ exposed :
            pc[r] \notin {"verify", "store", "lock"} /\ verdict[r] # "accepted"

\* Under permanent epoch orders the store answers "revoked" whenever an order
\* stands.
LEMMA StandingIsRevoked ==
  ASSUME NEW class, NEW epoch \in Epoch, StandingOrder(class, epoch),
         entries = orders,
         \A k \in DOMAIN orders : k[2] # AllEpochs => orders[k] = Forever
  PROVE  Revocations!IsRevoked(class, epoch)
<1>1. PICK scope \in {epoch, AllEpochs} :
        /\ <<class, scope>> \in DOMAIN entries
        /\ ~ Revocations!Expired(entries[<<class, scope>>])
  BY DEF StandingOrder
<1>2. CASE <<class, epoch>> \in DOMAIN entries
  <2>1. <<class, epoch>>[2] # AllEpochs
    BY ScopeAssumption
  <2>2. entries[<<class, epoch>>] = Forever
    BY <1>2, <2>1
  <2> QED
    BY <1>2, <2>2
       DEF Revocations!IsRevoked, Revocations!GoverningKey, Revocations!Expired,
           Revocations!revocationKey
<1>3. CASE <<class, epoch>> \notin DOMAIN entries
  BY <1>1, <1>3
     DEF Revocations!IsRevoked, Revocations!GoverningKey, Revocations!revocationKey
<1> QED
  BY <1>2, <1>3

\* No request is under way when the server starts, so none is covered.
LEMMA OrdersInit == Init => OrdersInv
BY DEF Init, OrdersInv, InFlight, Revocations!Init, Revocations!Empty

\* Placing an order uncovers nobody: it is not yet past.
LEMMA RevokeKeepsCover ==
  ASSUME TypeOK, NEW c1, NEW s1, NEW until \in Nat \cup {Forever},
         AdminRevoke(c1, s1, until),
         NEW class, NEW epoch, StandingOrder(class, epoch)
  PROVE  StandingOrder(class, epoch)'
<1>1. ~ Revocations!Expired(until) /\ now' = now
  BY ClockAssumption
     DEF TypeOK, Revocations!TypeOK, AdminRevoke, Revocations!Expired,
         Revocations!RevokeClass
<1>2. orders' = Revocations!Put(orders, <<c1, s1>>, until)
  BY DEF AdminRevoke
<1>3. PICK scope \in {epoch, AllEpochs} :
        /\ <<class, scope>> \in DOMAIN orders
        /\ ~ Revocations!Expired(orders[<<class, scope>>])
  BY DEF StandingOrder
<1> DEFINE key == <<class, scope>>
<1>4. /\ key \in DOMAIN orders'
      /\ orders'[key] \in {until, orders[key]}
  BY <1>2, <1>3 DEF Revocations!Put
<1>5. ~ Revocations!Expired(orders[key])'
  BY <1>1, <1>3, <1>4 DEF Revocations!Expired
<1> QED
  BY <1>4, <1>5 DEF StandingOrder

\* Every step keeps the relation between standing orders, the revocation
\* store and the requests that a standing order covers.
LEMMA OrdersStep ==
  ASSUME EpochOrdersPermanent
  PROVE  IInv /\ OrdersInv /\ [Next]_vars => OrdersInv'
<1> SUFFICES ASSUME IInv, OrdersInv, [Next]_vars PROVE OrdersInv'
  OBVIOUS
<1>1. ASSUME NEW r \in Request, Arrive(r) PROVE OrdersInv'
  <2>1. PICK p \in Presented :
          /\ input' = [input EXCEPT ![r] = p]
          /\ exposed' = exposed \cup {q \in {r} : ~ StandingOrder(p.class, p.epoch)}
    BY <1>1 DEF Arrive
  <2>2. /\ UNCHANGED <<verdict, phase, now, entries, orders>>
        /\ pc[r] = "idle" /\ pc' = [pc EXCEPT ![r] = "revocation"]
    BY <1>1 DEF Arrive, Goto
  <2>3. ASSUME NEW q \in (InFlight \ exposed)' PROVE ~ Uncovered(q)'
    <3>1. CASE q = r
      BY <2>1, <2>2, <3>1
         DEF IInv, TypeOK, InFlight, Uncovered, StandingOrder, Revocations!Expired
    <3>2. CASE q # r
      BY <2>1, <2>2, <3>2
         DEF IInv, TypeOK, OrdersInv, InFlight, Uncovered, StandingOrder,
             Revocations!Expired
    <3> QED
      BY <3>1, <3>2
  <2> QED
    BY <2>1, <2>2, <2>3 DEF IInv, TypeOK, HandlerOK, OrdersInv
<1>2. ASSUME NEW r \in Request, RejectEpoch(r) \/ RejectRevoked(r) PROVE OrdersInv'
  BY <1>2
     DEF IInv, TypeOK, OrdersInv, RejectEpoch, RejectRevoked, At, Goto, Decide,
         policy, InFlight, Uncovered, StandingOrder, Revocations!Expired
<1>3. ASSUME NEW r \in Request, PassRevocation(r) PROVE OrdersInv'
  <2>1. CASE r \in exposed
    BY <1>3, <2>1
       DEF IInv, TypeOK, OrdersInv, PassRevocation, At, Goto, policy, InFlight,
           Uncovered, StandingOrder, Revocations!Expired
  <2>2. CASE r \notin exposed
    <3>1. StandingOrder(input[r].class, input[r].epoch)
      BY <1>3, <2>2 DEF OrdersInv, PassRevocation, At, InFlight, Uncovered
    <3>2. phase # "serving"
      <4>1. input[r].epoch \in Epoch
        BY <1>3, PresentedAssumption DEF IInv, TypeOK, PassRevocation, At, Presentation
      <4> QED
        BY <1>3, <3>1, <4>1, StandingIsRevoked DEF OrdersInv, PassRevocation
    <3> QED
      BY <1>3, <2>2, <3>2
         DEF IInv, TypeOK, OrdersInv, PassRevocation, At, Goto, policy, InFlight,
             Uncovered, StandingOrder, Revocations!Expired
  <2> QED
    BY <2>1, <2>2
<1>4. ASSUME NEW r \in Request,
             \/ RejectPoint(r) \/ RejectCancelled(r) \/ RejectSignature(r)
             \/ PassVerify(r) \/ ContextDone(r) \/ ContextLive(r)
             \/ StoreNew(r) \/ FindExisting(r)
      PROVE  OrdersInv'
  BY <1>4
     DEF IInv, TypeOK, OrdersInv, RejectPoint, RejectCancelled, RejectSignature,
         PassVerify, ContextDone, ContextLive, StoreNew, FindExisting, At, Goto,
         Decide, policy, InFlight, Uncovered, StandingOrder, Revocations!Expired
<1>5. ASSUME NEW r \in Request, CountStoreOp(r) \/ Respond(r) \/ Cancel(r) PROVE OrdersInv'
  BY <1>5
     DEF IInv, TypeOK, OrdersInv, CountStoreOp, Respond, Cancel, At, Goto, policy,
         InFlight, Uncovered, StandingOrder, Revocations!Expired
<1>6. ASSUME NEW order \in Orders, AdminRevoke(order[1], order[2], order[3])
      PROVE  OrdersInv'
  <2>1. order[3] \in Nat \cup {Forever} /\ (order[2] # AllEpochs => order[3] = Forever)
    BY OrdersAssumption, EpochOrdersPermanent DEF EpochOrdersPermanent
  <2>2. /\ UNCHANGED <<pc, input, verdict, phase, exposed>>
        /\ orders' = Revocations!Put(orders, <<order[1], order[2]>>, order[3])
        /\ entries' = Revocations!Put(entries, <<order[1], order[2]>>, order[3])
    BY <1>6
       DEF AdminRevoke, request, Revocations!RevokeClass, Revocations!revocationKey
  <2>3. \A k \in DOMAIN orders' : k[2] # AllEpochs => orders'[k] = Forever
    BY <2>1, <2>2 DEF OrdersInv, Revocations!Put
  <2>4. ASSUME NEW q \in (InFlight \ exposed)' PROVE ~ Uncovered(q)'
    <3>1. StandingOrder(input[q].class, input[q].epoch)
      BY <2>2 DEF OrdersInv, InFlight, Uncovered
    <3>2. \A class, epoch : StandingOrder(class, epoch) => StandingOrder(class, epoch)'
      BY <1>6, <2>1, RevokeKeepsCover DEF IInv
    <3> QED
      BY <2>2, <3>1, <3>2 DEF Uncovered, StandingOrder
  <2> QED
    BY <2>2, <2>3, <2>4 DEF OrdersInv
<1>7. ASSUME NEW order \in Orders, AdminUnrevoke(order[1], order[2])
      PROVE  OrdersInv'
  BY <1>7
     DEF OrdersInv, AdminUnrevoke, NewlyExposed, InFlight, request,
         Revocations!UnrevokeClass, Revocations!Drop, Revocations!revocationKey
<1>8. CASE Tick
  BY <1>8 DEF OrdersInv, Tick, Revocations!Tick, NewlyExposed, InFlight, request
<1>9. CASE CloseStores \/ StopListening \/ Exit \/ UNCHANGED vars
  BY <1>9
     DEF OrdersInv, CloseStores, Revocations!Close, StopListening, Exit, vars,
         request, policy, InFlight, Uncovered, StandingOrder, Revocations!Expired
<1> QED
  BY <1>1, <1>2, <1>3, <1>4, <1>5, <1>6, <1>7, <1>8, <1>9 DEF Next, Handle, Admin

\* While the server serves, no request that a revocation covered throughout is
\* accepted, whatever the interleaving, provided orders for single epochs are
\* permanent (IsRevoked, handleAdminRevoke, handleAdminUnrevoke).
THEOREM RevocationHonoured ==
  ASSUME EpochOrdersPermanent
  PROVE  Spec => []OrdersHonoured
<1>1. OrdersInv => OrdersHonoured
  BY DEF OrdersInv, OrdersHonoured, FutureRedemptionsRejected, Accepted
<1>2. IInv /\ OrdersInv /\ [Next]_vars => OrdersInv'
  BY OrdersStep
<1> QED
  BY <1>1, <1>2, OrdersInit, InvInit, InvStep, PTL DEF Spec

-----------------------------------------------------------------------------
(* The counters.  Each is the number of requests that have passed the line *)
(* that adds to it with a given verdict, and the store holds as many       *)
(* nullifiers as requests were accepted.                                   *)

With(v, labels) == {r \in Request : verdict[r] = v /\ pc[r] \in labels}
Stored(v) == With(v, {"respond", "done"})
Told(v) == With(v, {"done"})

CountInv ==
  /\ nullifierOps["unique"] = Cardinality(Stored("accepted"))
  /\ nullifierOps["duplicate"] = Cardinality(Stored("duplicate"))
  /\ consumption["success"] = Cardinality(Told("accepted"))
  /\ consumption["duplicate"] = Cardinality(Told("duplicate"))
  /\ IsFiniteSet(nullifiers) /\ Cardinality(nullifiers) = Cardinality(Accepted)

\* Each verdict has labels of its own among the counters compared here.
LEMMA LabelsApart ==
  ASSUME NEW v \in Verdict
  PROVE  /\ StoreLabel(v) = "unique" <=> v = "accepted"
         /\ StoreLabel(v) = "duplicate" <=> v = "duplicate"
         /\ ConsumptionLabel(v) = "success" <=> v = "accepted"
         /\ ConsumptionLabel(v) = "duplicate" <=> v = "duplicate"
<1>1. CASE v = "accepted"
  <2>1. StoreLabel(v) = "unique" /\ ConsumptionLabel(v) = "success"
    BY <1>1, Zenon DEF StoreLabel, ConsumptionLabel
  <2> QED
    BY <1>1, <2>1
<1>2. CASE v = "duplicate"
  <2>1. StoreLabel(v) = "duplicate" /\ ConsumptionLabel(v) = "duplicate"
    BY <1>2, Zenon DEF StoreLabel, ConsumptionLabel
  <2> QED
    BY <1>2, <2>1
<1>3. CASE v = "revoked"
  <2>1. StoreLabel(v) = "failure" /\ ConsumptionLabel(v) = "revoked"
    BY <1>3, Zenon DEF StoreLabel, ConsumptionLabel
  <2> QED
    BY <1>3, <2>1
<1>4. CASE v \in {"none", "invalid", "unavailable"}
  <2>1. StoreLabel(v) = "failure" /\ ConsumptionLabel(v) = "failure"
    BY <1>4, Zenon DEF StoreLabel, ConsumptionLabel
  <2> QED
    BY <1>4, <2>1
<1> QED
  BY <1>1, <1>2, <1>3, <1>4 DEF Verdict

\* The sets that are counted are finite, and one that gains a request gains
\* one in number.
LEMMA CountedSets ==
  ASSUME IsFiniteSet(Request), NEW S, S \subseteq Request
  PROVE  /\ IsFiniteSet(S) /\ Cardinality(S) \in Nat
         /\ \A r \in Request \ S : Cardinality(S \cup {r}) = Cardinality(S) + 1
BY FS_Subset, FS_CardinalityType, FS_AddElement

\* A step that is none of the counting ones moves no request past them.
LEMMA CountedStay ==
  ASSUME IInv, [Next]_vars, \A r \in Request : ~ CountStoreOp(r) /\ ~ Respond(r),
         NEW v \in {"accepted", "duplicate"}
  PROVE  UNCHANGED <<Stored(v), Told(v), nullifierOps, consumption>>
<1> USE DEF Stored, Told, With, metrics
<1>1. ASSUME NEW r \in Request, Arrive(r) \/ Cancel(r)
      PROVE  UNCHANGED <<Stored(v), Told(v), nullifierOps, consumption>>
  BY <1>1 DEF IInv, TypeOK, Arrive, Cancel, Goto
<1>2. ASSUME NEW r \in Request, Quiet(r) \/ StoreNew(r)
      PROVE  UNCHANGED <<Stored(v), Told(v), nullifierOps, consumption>>
  <2>1. /\ UNCHANGED <<nullifierOps, consumption>>
        /\ verdict[r] = "none" /\ pc[r] \notin {"respond", "done"}
    BY <1>2
       DEF IInv, HandlerOK, Quiet, RejectEpoch, RejectRevoked, PassRevocation, RejectPoint,
           RejectCancelled, RejectSignature, PassVerify, ContextDone, ContextLive,
           FindExisting, StoreNew, At
  <2>2. \E label : pc' = [pc EXCEPT ![r] = label]
    BY <1>2
       DEF Quiet, RejectEpoch, RejectRevoked, PassRevocation, RejectPoint,
           RejectCancelled, RejectSignature, PassVerify, ContextDone, ContextLive,
           FindExisting, StoreNew, Goto
  <2>3. verdict' = verdict \/ \E w : verdict' = [verdict EXCEPT ![r] = w]
    BY <1>2
       DEF Quiet, RejectEpoch, RejectRevoked, PassRevocation, RejectPoint,
           RejectCancelled, RejectSignature, PassVerify, ContextDone, ContextLive,
           FindExisting, StoreNew, Decide
  <2>4. verdict'[r] = v => pc'[r] \notin {"respond", "done"}
    BY <1>2
       DEF IInv, TypeOK, HandlerOK, Quiet, RejectEpoch, RejectRevoked, PassRevocation,
           RejectPoint, RejectCancelled, RejectSignature, PassVerify, ContextDone,
           ContextLive, FindExisting, StoreNew, Goto, Decide, At
  <2>5. \A q \in Request : (verdict'[q] = v /\ pc'[q] \in {"respond", "done"})
                             <=> (verdict[q] = v /\ pc[q] \in {"respond", "done"})
    BY <2>1, <2>2, <2>3, <2>4 DEF IInv, TypeOK
  <2>6. \A q \in Request : (verdict'[q] = v /\ pc'[q] = "done")
                             <=> (verdict[q] = v /\ pc[q] = "done")
    BY <2>1, <2>2, <2>3, <2>4 DEF IInv, TypeOK
  <2> QED
    BY <2>1, <2>5, <2>6
<1>3. CASE Admin \/ Tick \/ CloseStores \/ StopListening \/ Exit \/ UNCHANGED vars
  BY <1>3
     DEF Admin, AdminRevoke, AdminUnrevoke, Tick, CloseStores, StopListening, Exit,
         vars, request
<1> QED
  BY <1>1, <1>2, <1>3 DEF Next, Handle, Quiet

\* The store gains a nullifier with each accepted request.
LEMMA CountNullifiers ==
  ASSUME IsFiniteSet(Request), IInv, CountInv, [Next]_vars
  PROVE  IsFiniteSet(nullifiers') /\ Cardinality(nullifiers') = Cardinality(Accepted')
<1>1. ASSUME NEW r \in Request, StoreNew(r)
      PROVE  IsFiniteSet(nullifiers') /\ Cardinality(nullifiers') = Cardinality(Accepted')
  <2>1. /\ Accepted' = Accepted \cup {r} /\ r \notin Accepted /\ Accepted \subseteq Request
        /\ nullifiers' = nullifiers \cup {NullifierOf(input[r])}
        /\ NullifierOf(input[r]) \notin nullifiers
    BY <1>1, StoreNewStep DEF StoreNew, Accepted
  <2>2. Cardinality(Accepted') = Cardinality(Accepted) + 1
    BY <2>1, CountedSets
  <2>3. /\ IsFiniteSet(nullifiers')
        /\ Cardinality(nullifiers') = Cardinality(nullifiers) + 1
    BY <2>1, FS_AddElement DEF CountInv
  <2> QED
    BY <2>2, <2>3 DEF CountInv
<1>2. CASE \A r \in Request : ~ StoreNew(r)
  BY <1>2, StoreStep DEF CountInv, IInv
<1> QED
  BY <1>1, <1>2

\* Every step keeps the counters equal to what they count.
LEMMA CountStep ==
  ASSUME IsFiniteSet(Request), IInv, CountInv, [Next]_vars
  PROVE  CountInv'
<1>1. CASE \A r \in Request : ~ CountStoreOp(r) /\ ~ Respond(r)
  <2>1. /\ UNCHANGED <<Stored("accepted"), Told("accepted"), nullifierOps, consumption>>
        /\ UNCHANGED <<Stored("duplicate"), Told("duplicate")>>
    BY <1>1, CountedStay
  <2> QED
    BY <2>1, CountNullifiers DEF CountInv
<1>2. ASSUME NEW r \in Request, CountStoreOp(r) PROVE CountInv'
  <2>1. /\ pc[r] = "count" /\ verdict' = verdict /\ consumption' = consumption
        /\ nullifierOps' = [nullifierOps EXCEPT ![StoreLabel(verdict[r])] = @ + 1]
        /\ pc' = [pc EXCEPT ![r] = "respond"] /\ verdict[r] \in Verdict
    BY <1>2 DEF CountStoreOp, At, Goto, IInv, TypeOK
  <2>2. ASSUME NEW v \in Verdict
        PROVE  /\ Stored(v)' = IF verdict[r] = v THEN Stored(v) \cup {r} ELSE Stored(v)
               /\ Told(v)' = Told(v) /\ r \notin Stored(v) /\ Stored(v) \subseteq Request
    BY <2>1 DEF Stored, Told, With, IInv, TypeOK
  <2>3. ASSUME NEW v \in Verdict
        PROVE  Cardinality(Stored(v)') =
                 IF verdict[r] = v THEN Cardinality(Stored(v)) + 1 ELSE Cardinality(Stored(v))
    BY <2>2, CountedSets
  <2>4. /\ nullifierOps'["unique"] =
             IF verdict[r] = "accepted" THEN nullifierOps["unique"] + 1 ELSE nullifierOps["unique"]
        /\ nullifierOps'["duplicate"] =
             IF verdict[r] = "duplicate" THEN nullifierOps["duplicate"] + 1
             ELSE nullifierOps["duplicate"]
    BY <2>1, LabelsApart, Labels DEF IInv, TypeOK
  <2>5. {"accepted", "duplicate"} \subseteq Verdict
    BY DEF Verdict
  <2> QED
    BY <2>1, <2>2, <2>3, <2>4, <2>5, CountNullifiers DEF CountInv
<1>3. ASSUME NEW r \in Request, Respond(r) PROVE CountInv'
  <2>1. /\ pc[r] = "respond" /\ verdict' = verdict /\ nullifierOps' = nullifierOps
        /\ consumption' = [consumption EXCEPT ![ConsumptionLabel(verdict[r])] = @ + 1]
        /\ pc' = [pc EXCEPT ![r] = "done"] /\ verdict[r] \in Verdict
    BY <1>3 DEF Respond, At, Goto, IInv, TypeOK
  <2>2. ASSUME NEW v \in Verdict
        PROVE  /\ Told(v)' = IF verdict[r] = v THEN Told(v) \cup {r} ELSE Told(v)
               /\ Stored(v)' = Stored(v) /\ r \notin Told(v) /\ Told(v) \subseteq Request
    BY <2>1 DEF Stored, Told, With, IInv, TypeOK
  <2>3. ASSUME NEW v \in Verdict
        PROVE  Cardinality(Told(v)') =
                 IF verdict[r] = v THEN Cardinality(Told(v)) + 1 ELSE Cardinality(Told(v))
    BY <2>2, CountedSets
  <2>4. /\ consumption'["success"] =
             IF verdict[r] = "accepted" THEN consumption["success"] + 1 ELSE consumption["success"]
        /\ consumption'["duplicate"] =
             IF verdict[r] = "duplicate" THEN consumption["duplicate"] + 1
             ELSE consumption["duplicate"]
    BY <2>1, LabelsApart, Labels DEF IInv, TypeOK
  <2>5. {"accepted", "duplicate"} \subseteq Verdict
    BY DEF Verdict
  <2> QED
    BY <2>1, <2>2, <2>3, <2>4, <2>5, CountNullifiers DEF CountInv
<1> QED
  BY <1>1, <1>2, <1>3

\* The counters start at zero, as does what they count.
LEMMA CountInit == Init => CountInv
<1> SUFFICES ASSUME Init PROVE CountInv
  OBVIOUS
<1>1. \A v \in {"accepted", "duplicate"} : Stored(v) = {} /\ Told(v) = {}
  BY DEF Init, Stored, Told, With
<1>2. Accepted = {} /\ nullifiers = {}
  BY DEF Init, Accepted
<1> QED
  BY <1>1, <1>2, FS_EmptySet DEF Init, CountInv

\* For any finite number of requests the counters never claim more than the
\* store holds, and agree with it whenever no handler is between its decision
\* and its answer (CheckAndStore, handleConsume).
THEOREM MetricsTrue == IsFiniteSet(Request) => (Spec => []MetricsAgree)
<1> SUFFICES ASSUME IsFiniteSet(Request) PROVE Spec => []MetricsAgree
  OBVIOUS
<1>1. IInv /\ CountInv => MetricsAgree
  <2> SUFFICES ASSUME IInv, CountInv PROVE MetricsAgree
    OBVIOUS
  <2> DEFINE duplicates == {r \in Request : verdict[r] = "duplicate"}
  <2>1. /\ Told("accepted") \subseteq Stored("accepted") /\ Stored("accepted") \subseteq Accepted
        /\ Told("duplicate") \subseteq Stored("duplicate")
        /\ Stored("duplicate") \subseteq duplicates
        /\ Accepted \subseteq Request /\ duplicates \subseteq Request
    BY DEF Told, Stored, With, Accepted
  <2>2. \A S, T \in SUBSET Request : S \subseteq T => Cardinality(S) <= Cardinality(T)
    BY FS_Subset
  <2>3. ASSUME \A r \in Request : pc[r] \notin {"count", "respond"}
        PROVE  Told("accepted") = Accepted /\ Told("duplicate") = duplicates
    BY <2>3 DEF Told, With, Accepted, IInv, HandlerOK, TypeOK, PC
  <2>4. /\ Cardinality(Told("accepted")) <= Cardinality(Stored("accepted"))
        /\ Cardinality(Stored("accepted")) <= Cardinality(Accepted)
        /\ Cardinality(Told("duplicate")) <= Cardinality(Stored("duplicate"))
        /\ Cardinality(Stored("duplicate")) <= Cardinality(duplicates)
    BY <2>1, <2>2
  <2> HIDE DEF duplicates
  <2>5. (\A r \in Request : pc[r] \notin {"count", "respond"}) =>
          /\ consumption["success"] = Cardinality(nullifiers)
          /\ consumption["duplicate"] = Cardinality(duplicates)
    BY <2>3 DEF CountInv
  <2>6. /\ consumption["success"] <= nullifierOps["unique"]
        /\ nullifierOps["unique"] <= Cardinality(nullifiers)
        /\ consumption["duplicate"] <= nullifierOps["duplicate"]
        /\ nullifierOps["duplicate"] <= Cardinality(duplicates)
    BY <2>4 DEF CountInv
  <2> QED
    BY <2>5, <2>6 DEF MetricsAgree, duplicates
<1>2. IInv /\ CountInv /\ [Next]_vars => IInv' /\ CountInv'
  BY InvStep, CountStep
<1>3. Init => IInv /\ CountInv
  BY InvInit, CountInit
<1> QED
  BY <1>1, <1>2, <1>3, PTL DEF Spec
=============================================================================
