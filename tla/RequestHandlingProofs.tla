------------------------ MODULE RequestHandlingProofs ------------------------
(***************************************************************************)
(* Theorems about RequestHandling, for any finite number of requests: each *)
(* is answered once, the counters tell what was answered, what changed a   *)
(* store was let in and told so, tickets are found, one redemption of a    *)
(* credential is told that it succeeded, and every step brings its request *)
(* on its way.                                                             *)
(*                                                                         *)
(* Local(r) says of one request where it stands in its chain; a step of    *)
(* one request leaves it true of the others (LocalKept).  The counters are *)
(* sums over all requests: Metered and Counted tie them to sets of         *)
(* requests, one of which grows by one when a counter does.                *)
(***************************************************************************)
EXTENDS RequestHandling, FiniteSetTheorems, TLAPS

\* Which statuses a handler counts under which label.
Fits(route, status, count) ==
  /\ status \in Status /\ count \in CountLabel \cup {"nothing"}
  /\ count = "issuance_success" <=> route = "issue" /\ status = 200
  /\ count = "issuance_failure" <=> route = "issue" /\ status \in {400, 500}
  /\ count = "consumption_success" <=> route = "consume" /\ status = 200
  /\ count \in {"consumption_duplicate", "consumption_revoked"}
       <=> route = "consume" /\ status = 409
  /\ count = "consumption_failure" <=> route = "consume" /\ status \in {400, 500, 503}
  /\ count = "revocation_success" <=> route = "revoke" /\ status = 200
  /\ count = "unrevocation_success" <=> route = "unrevoke" /\ status = 200

Before == {"idle", "limit", "authorise", "handle"}

\* What the answer of a request that changed a store may say.
Admits(route) == IF route = "consume" THEN {200, 503} ELSE {200, 400}

Answer(r) ==
  /\ pc[r] \notin {"meter", "done"} => sent[r] = <<>> /\ wrapper[r].written = FALSE
  /\ pc[r] \in {"meter", "done"} =>
       sent[r] = <<IF r \in panicked THEN 500 ELSE verdict[r].status>>
  /\ pc[r] = "meter" =>
       wrapper[r].status = verdict[r].status /\ req[r].route \in Chained

Judged(r) ==
  /\ pc[r] = "recover" => r \in panicked
  /\ r \in panicked => pc[r] \in {"recover", "done"}
  /\ pc[r] \in Before \cup {"recover"} \/ r \in panicked =>
       verdict[r] = [status |-> 200, count |-> "nothing"]
  /\ pc[r] = "count" => verdict[r].count # "nothing"
  /\ pc[r] \in {"count", "respond", "meter", "done"} /\ r \notin panicked =>
       Fits(req[r].route, verdict[r].status, verdict[r].count)

Changed(r) ==
  /\ pc[r] = "handle" /\ Role(req[r].route) = "admin" => req[r].token = "admin"
  /\ pc[r] \in Before => r \notin changed
  /\ r \in changed =>
       /\ ~ Unreadable(r)
       /\ req[r].route \in {"revoke", "unrevoke"} => req[r].token = "admin"
       /\ r \in panicked \/ verdict[r].status \in Admits(req[r].route)

Ticketed(r) ==
  /\ pc[r] \in {"limit", "authorise"} => req[r].route \in Limited
  /\ req[r].route = "store" /\ pc[r] \in {"count", "respond", "meter", "done"}
       /\ r \notin panicked /\ verdict[r].status = 200 => r \in tickets
  /\ req[r].ticket # None =>
       req[r].route = "retrieve" /\ req[r].ticket \in tickets /\ verdict[r].status # 404

Local(r) == Answer(r) /\ Judged(r) /\ Changed(r) /\ Ticketed(r)

\* Requests that the request counter should hold under a route and a status.
MeteredSet(route, status) ==
  {r \in Request : Done(r) /\ req[r].route = route
                     /\ sent[r] = <<status>> /\ r \notin panicked}

\* Requests that a handler's counter should hold under a label.
CountedSet(label) ==
  {r \in Request : pc[r] \in {"respond", "meter", "done"} /\ verdict[r].count = label}

Counted ==
  \A label \in CountLabel : counted[label] = Cardinality(CountedSet(label))

IInv == TypeOK /\ (\A r \in Request : Local(r)) /\ MeteredAsAnswered /\ Counted

-----------------------------------------------------------------------------
\* The numbers behind the codes.
LEMMA Codes ==
  /\ HTTPStatus("invalid_argument") = 400 /\ HTTPStatus("unauthorized") = 401
  /\ HTTPStatus("forbidden") = 403 /\ HTTPStatus("not_found") = 404
  /\ HTTPStatus("too_many_request") = 429 /\ HTTPStatus("unavailable") = 503
  /\ HTTPStatus("internal") = 500
  BY DEF HTTPStatus

\* The roles of the routes.
LEMMA Roles ==
  /\ Role("issue") = "issuer" /\ Role("consume") = "none" /\ Role("store") = "none"
  /\ Role("retrieve") = "none" /\ Role("health") = "none"
  /\ \A route \in {"revoke", "unrevoke", "list"} : Role(route) = "admin"
  BY Zenon DEF Role

\* The labels of refused bodies.
LEMMA FailureCounts ==
  /\ FailureCount("issue") = "issuance_failure"
  /\ FailureCount("consume") = "consumption_failure"
  /\ \A route \in {"revoke", "unrevoke", "list", "store", "retrieve", "health"} :
       FailureCount(route) = "nothing"
  BY Zenon DEF FailureCount
\* What a handler does, whichever it is: it settles on a status and a label
\* that fit, and if it changed a store the answer may say so.
Concluded(r, status, count) ==
  /\ pc[r] = "handle"
  /\ Conclude(r, status, count)
  /\ Fits(req[r].route, status, count)
  /\ changed' \in {changed, changed \cup {r}}
  /\ changed' # changed => ~ Unreadable(r) /\ status \in Admits(req[r].route)
  /\ tickets' \in {tickets, tickets \cup {r}}
  /\ req[r].route = "store" /\ status = 200 => r \in tickets'
  /\ status = 404 => req[r].ticket \notin tickets
  /\ UNCHANGED <<req, wrapper, sent, metered, counted, panicked>>

\* The labels that go with the answers of issue.
LEMMA FittingIssue ==
  /\ Fits("issue", 200, "issuance_success")
  /\ Fits("issue", 400, "issuance_failure") /\ Fits("issue", 500, "issuance_failure")
  BY DEF Fits, Status, CountLabel

\* The labels that go with the answers of consume.
LEMMA FittingConsume ==
  /\ Fits("consume", 200, "consumption_success")
  /\ Fits("consume", 409, "consumption_duplicate")
  /\ Fits("consume", 409, "consumption_revoked")
  /\ Fits("consume", 400, "consumption_failure")
  /\ Fits("consume", 500, "consumption_failure")
  /\ Fits("consume", 503, "consumption_failure")
  BY DEF Fits, Status, CountLabel

\* The labels that go with the answers about orders.
LEMMA FittingOrders ==
  /\ Fits("revoke", 200, "revocation_success")
  /\ Fits("revoke", 400, "revocation_failure") /\ Fits("revoke", 400, "nothing")
  /\ Fits("unrevoke", 200, "unrevocation_success")
  /\ Fits("unrevoke", 400, "unrevocation_failure") /\ Fits("unrevoke", 400, "nothing")
  BY DEF Fits, Status, CountLabel

\* The other handlers count nothing.
LEMMA FittingOthers ==
  \A route \in {"list", "store", "retrieve", "health"}, status \in Status :
    Fits(route, status, "nothing")
  BY DEF Fits, Status

\* Neither does the middleware.
LEMMA FittingRejects ==
  \A route \in Route, status \in {401, 403, 429} : Fits(route, status, "nothing")
  BY DEF Fits, Status

\* A handler that changed no store concludes like that.
LEMMA ConcludesUnchanged ==
  ASSUME NEW r \in Request, NEW status, NEW count, pc[r] = "handle",
         Conclude(r, status, count), Fits(req[r].route, status, count),
         status # 404, req[r].route # "store",
         UNCHANGED <<req, wrapper, sent, metered, counted, panicked, tickets, changed>>
  PROVE  Concluded(r, status, count)
  BY DEF Concluded

\* Every handler concludes like that.
LEMMA HandlersConclude ==
  ASSUME TypeOK, NEW r \in Request, Handle(r)
  PROVE  \E status \in Status, count \in CountLabel \cup {"nothing"} :
           Concluded(r, status, count)
  <1> DEFINE C(status, count) == Concluded(r, status, count)
             Same == UNCHANGED <<req, wrapper, sent, metered, counted, panicked>>
  <1>1. ASSUME RefuseBody(r) PROVE \E count \in CountLabel \cup {"nothing"} : C(400, count)
    <2> DEFINE count == FailureCount(req[r].route)
    <2>1. req[r].route \in {"issue", "consume", "revoke", "unrevoke", "store"}
      BY <1>1 DEF RefuseBody, Unreadable, WithBody
    <2>2. Fits(req[r].route, 400, count) /\ count \in CountLabel \cup {"nothing"}
      <3>1. CASE req[r].route = "issue"
        BY <3>1, FailureCounts DEF Fits, Status, CountLabel
      <3>2. CASE req[r].route = "consume"
        BY <3>2, FailureCounts DEF Fits, Status, CountLabel
      <3>3. CASE req[r].route \in {"revoke", "unrevoke", "store"}
        BY <3>3, FailureCounts DEF Fits, Status, CountLabel
      <3> QED BY <2>1, <3>1, <3>2, <3>3
    <2>3. pc[r] = "handle" /\ Conclude(r, 400, count)
      BY <1>1, Codes DEF RefuseBody
    <2>4. Same /\ UNCHANGED <<tickets, changed>>
      BY <1>1 DEF RefuseBody, stores
    <2> HIDE DEF count
    <2> QED BY <2>2, <2>3, <2>4 DEF Concluded
  <1>2. ASSUME handleIssue(r) PROVE C(200, "issuance_success") \/ C(500, "issuance_failure")
    <2>1. Conclude(r, 200, "issuance_success") \/ Conclude(r, 500, "issuance_failure")
      BY <1>2, Codes DEF handleIssue
    <2>2. pc[r] = "handle" /\ req[r].route = "issue"
      BY <1>2 DEF handleIssue, Handles
    <2>3. Same /\ UNCHANGED <<tickets, changed>>
      BY <1>2 DEF handleIssue, stores
    <2>4. Fits(req[r].route, 200, "issuance_success")
      BY <2>2, FittingIssue
    <2>5. Fits(req[r].route, 500, "issuance_failure")
      BY <2>2, FittingIssue
    <2>6. CASE Conclude(r, 200, "issuance_success")
      BY <2>2, <2>3, <2>4, <2>6, ConcludesUnchanged
    <2>7. CASE Conclude(r, 500, "issuance_failure")
      BY <2>2, <2>3, <2>5, <2>7, ConcludesUnchanged
    <2> QED BY <2>1, <2>6, <2>7
  <1>3. ASSUME handleConsume(r)
        PROVE \/ C(200, "consumption_success")
              \/ C(409, "consumption_revoked") \/ C(409, "consumption_duplicate")
              \/ \E status \in {400, 500, 503} : C(status, "consumption_failure")
    <2>1. pc[r] = "handle" /\ req[r].route = "consume" /\ ~ Unreadable(r) /\ Same
          /\ tickets' = tickets
      BY <1>3 DEF handleConsume, Handles
    <2>2. \/ Conclude(r, 200, "consumption_success") /\ changed' = changed \cup {r}
          \/ Conclude(r, 409, "consumption_revoked") /\ changed' = changed
          \/ Conclude(r, 409, "consumption_duplicate") /\ changed' = changed
          \/ \E status \in {400, 500, 503} :
               Conclude(r, status, "consumption_failure") /\ changed' = changed
          \/ Conclude(r, 503, "consumption_failure") /\ changed' = changed \cup {r}
      <3>1. \A code \in {"invalid_argument", "unavailable", "internal"} :
              HTTPStatus(code) \in {400, 500, 503}
        BY Codes
      <3> QED BY <1>3, <3>1, Codes DEF handleConsume, Take
    <2>3. Fits(req[r].route, 200, "consumption_success")
      BY <2>1, FittingConsume
    <2>4. Fits(req[r].route, 409, "consumption_revoked")
      BY <2>1, FittingConsume
    <2>5. Fits(req[r].route, 409, "consumption_duplicate")
      BY <2>1, FittingConsume
    <2>6. ASSUME NEW status \in {400, 500, 503}
          PROVE  Fits(req[r].route, status, "consumption_failure")
      BY <2>1 DEF Fits, Status, CountLabel
    <2>7. 200 \in Admits(req[r].route) /\ 503 \in Admits(req[r].route)
      BY <2>1 DEF Admits
    <2>8. CASE Conclude(r, 200, "consumption_success") /\ changed' = changed \cup {r}
      BY <2>1, <2>3, <2>7, <2>8 DEF Concluded
    <2>9. CASE Conclude(r, 409, "consumption_revoked") /\ changed' = changed
      BY <2>1, <2>4, <2>9 DEF Concluded
    <2>10. CASE Conclude(r, 409, "consumption_duplicate") /\ changed' = changed
      BY <2>1, <2>5, <2>10 DEF Concluded
    <2>11. ASSUME NEW status \in {400, 500, 503}, Conclude(r, status, "consumption_failure"),
                  changed' = changed
           PROVE  C(status, "consumption_failure")
      BY <2>1, <2>6, <2>11 DEF Concluded
    <2>12. CASE Conclude(r, 503, "consumption_failure") /\ changed' = changed \cup {r}
      <3>1. C(503, "consumption_failure")
        BY <2>1, <2>6, <2>7, <2>12 DEF Concluded
      <3> QED BY <3>1
    <2> HIDE DEF C
    <2> QED BY <2>2, <2>8, <2>9, <2>10, <2>11, <2>12
  <1>4. ASSUME handleAdminRevoke(r)
        PROVE C(200, "revocation_success") \/ C(400, "revocation_failure")
    <2>1. pc[r] = "handle" /\ req[r].route = "revoke" /\ ~ Unreadable(r) /\ Same
          /\ tickets' = tickets /\ changed' \in {changed, changed \cup {r}}
      BY <1>4 DEF handleAdminRevoke, Order, SetOrder, Handles
    <2>2. Conclude(r, 200, "revocation_success") \/ Conclude(r, 400, "revocation_failure")
      BY <1>4, Codes DEF handleAdminRevoke, Order
    <2>3. Fits(req[r].route, 200, "revocation_success")
      BY <2>1, FittingOrders
    <2>4. Fits(req[r].route, 400, "revocation_failure")
      BY <2>1, FittingOrders
    <2>5. 200 \in Admits(req[r].route) /\ 400 \in Admits(req[r].route)
      BY <2>1 DEF Admits
    <2>6. CASE Conclude(r, 200, "revocation_success")
      BY <2>1, <2>3, <2>5, <2>6 DEF Concluded
    <2>7. CASE Conclude(r, 400, "revocation_failure")
      BY <2>1, <2>4, <2>5, <2>7 DEF Concluded
    <2> QED BY <2>2, <2>6, <2>7
  <1>5. ASSUME handleAdminUnrevoke(r)
        PROVE C(200, "unrevocation_success") \/ C(400, "unrevocation_failure")
    <2>1. pc[r] = "handle" /\ req[r].route = "unrevoke" /\ ~ Unreadable(r) /\ Same
          /\ tickets' = tickets /\ changed' \in {changed, changed \cup {r}}
      BY <1>5 DEF handleAdminUnrevoke, Order, SetOrder, Handles
    <2>2. Conclude(r, 200, "unrevocation_success")
          \/ Conclude(r, 400, "unrevocation_failure")
      BY <1>5, Codes DEF handleAdminUnrevoke, Order
    <2>3. Fits(req[r].route, 200, "unrevocation_success")
      BY <2>1, FittingOrders
    <2>4. Fits(req[r].route, 400, "unrevocation_failure")
      BY <2>1, FittingOrders
    <2>5. 200 \in Admits(req[r].route) /\ 400 \in Admits(req[r].route)
      BY <2>1 DEF Admits
    <2>6. CASE Conclude(r, 200, "unrevocation_success")
      BY <2>1, <2>3, <2>5, <2>6 DEF Concluded
    <2>7. CASE Conclude(r, 400, "unrevocation_failure")
      BY <2>1, <2>4, <2>5, <2>7 DEF Concluded
    <2> QED BY <2>2, <2>6, <2>7
  <1>6. ASSUME handleAdminListRevocations(r) PROVE C(200, "nothing") \/ C(400, "nothing")
    <2>1. Conclude(r, 200, "nothing") \/ Conclude(r, 400, "nothing")
      BY <1>6, Codes DEF handleAdminListRevocations
    <2>2. pc[r] = "handle" /\ req[r].route = "list"
      BY <1>6 DEF handleAdminListRevocations, Handles
    <2>3. Same /\ UNCHANGED <<tickets, changed>>
      BY <1>6 DEF handleAdminListRevocations, stores
    <2>4. Fits(req[r].route, 200, "nothing")
      BY <2>2, FittingOthers DEF Status
    <2>5. Fits(req[r].route, 400, "nothing")
      BY <2>2, FittingOthers DEF Status
    <2> QED BY <2>1, <2>2, <2>3, <2>4, <2>5, ConcludesUnchanged
  <1>7. ASSUME handleStoreCredential(r) PROVE C(200, "nothing")
    <2>1. pc[r] = "handle" /\ req[r].route = "store" /\ ~ Unreadable(r) /\ Same
          /\ tickets' = tickets \cup {r} /\ changed' = changed \cup {r}
          /\ Conclude(r, 200, "nothing")
      BY <1>7 DEF handleStoreCredential, Handles
    <2>2. Fits(req[r].route, 200, "nothing")
      BY <2>1, FittingOthers DEF Status
    <2>3. 200 \in Admits(req[r].route)
      BY <2>1 DEF Admits
    <2> QED BY <2>1, <2>2, <2>3 DEF Concluded
  <1>8. ASSUME handleRetrieveCredential(r) PROVE C(200, "nothing") \/ C(404, "nothing")
    <2>1. \/ Conclude(r, 200, "nothing")
          \/ Conclude(r, 404, "nothing") /\ req[r].ticket \notin tickets
      BY <1>8, Codes DEF handleRetrieveCredential
    <2>2. pc[r] = "handle" /\ req[r].route = "retrieve"
      BY <1>8 DEF handleRetrieveCredential, Handles
    <2>3. Same /\ UNCHANGED <<tickets, changed>>
      BY <1>8 DEF handleRetrieveCredential, stores
    <2>4. Fits(req[r].route, 200, "nothing")
      BY <2>2, FittingOthers DEF Status
    <2>5. Fits(req[r].route, 404, "nothing")
      BY <2>2, FittingOthers DEF Status
    <2> QED BY <2>1, <2>2, <2>3, <2>4, <2>5 DEF Concluded
  <1>9. ASSUME handleHealth(r) PROVE C(200, "nothing") \/ C(503, "nothing")
    <2>1. Conclude(r, 200, "nothing") \/ Conclude(r, 503, "nothing")
      BY <1>9, Codes DEF handleHealth
    <2>2. pc[r] = "handle" /\ req[r].route = "health"
      BY <1>9 DEF handleHealth, Handles
    <2>3. Same /\ UNCHANGED <<tickets, changed>>
      BY <1>9 DEF handleHealth, stores
    <2>4. Fits(req[r].route, 200, "nothing")
      BY <2>2, FittingOthers DEF Status
    <2>5. Fits(req[r].route, 503, "nothing")
      BY <2>2, FittingOthers DEF Status
    <2> QED BY <2>1, <2>2, <2>3, <2>4, <2>5, ConcludesUnchanged
  <1> HIDE DEF C
  <1>10. \E status \in Status, count \in CountLabel \cup {"nothing"} : C(status, count)
    BY <1>1, <1>2, <1>3, <1>4, <1>5, <1>6, <1>7, <1>8, <1>9 DEF Handle, Status, CountLabel
  <1> QED BY <1>10 DEF C
-----------------------------------------------------------------------------
\* A counter that goes up counts on.
LEMMA Bump ==
  ASSUME NEW S, NEW f \in [S -> Nat], NEW l
  PROVE  [f EXCEPT ![l] = @ + 1] \in [S -> Nat]
  <1>1. CASE l \in S
    BY <1>1
  <1>2. CASE l \notin S
    BY <1>2
  <1> QED BY <1>1, <1>2

\* The type invariant, step by step.
LEMMA TypeStep == ASSUME TypeOK, Next PROVE TypeOK'
  <1> DEFINE PC == {"idle", "limit", "authorise", "handle", "count", "respond",
                    "meter", "recover", "done"}
             Reqs == [route : Route, token : Token, body : Body,
                      ticket : Request \cup {None}]
             Wrappers == [status : Status, written : BOOLEAN]
             Verdicts == [status : Status, count : CountLabel \cup {"nothing"}]
             T1 == pc \in [Request -> PC]
             T2 == req \in [Request -> Reqs]
             T3 == wrapper \in [Request -> Wrappers]
             T4 == verdict \in [Request -> Verdicts]
             T5 == sent \in [Request -> Seq(Status)]
             T6 == metered \in [Chained \X Status -> Nat]
             T10 == counted \in [CountLabel -> Nat]
             T7 == spent \in BOOLEAN /\ revoked \in BOOLEAN
             T8 == tickets \subseteq Request
             T9 == changed \subseteq Request /\ panicked \subseteq Request
  <1>0. T1 /\ T2 /\ T3 /\ T4 /\ T5 /\ T6 /\ T7 /\ T8 /\ T9 /\ T10
    BY DEF TypeOK
  <1>1. ASSUME NEW r \in Request, NEW route \in Route, NEW token \in Tokens(route),
               NEW body \in Bodies(route), NEW ticket \in Asked(route),
               Arrive(r, route, token, body, ticket)
        PROVE  TypeOK'
    <2>1. token \in Token /\ body \in Body /\ ticket \in Request \cup {None}
      BY DEF Tokens, Bodies, Token, Body, Asked, Given
    <2>2. T1' /\ T2'
      BY <1>0, <1>1, <2>1 DEF Arrive
    <2>3. UNCHANGED <<wrapper, verdict, sent, metered, counted, stores, panicked>>
      BY <1>1 DEF Arrive
    <2> QED BY <1>0, <2>2, <2>3 DEF TypeOK, stores
  <1>2. ASSUME NEW r \in Request, RateLimit(r) \/ RequireRole(r) PROVE TypeOK'
    <2>1. UNCHANGED <<req, wrapper, sent, metered, counted, stores, panicked>>
      BY <1>2 DEF RateLimit, RequireRole
    <2>2. \/ \E p \in PC : pc' = [pc EXCEPT ![r] = p] /\ UNCHANGED verdict
          \/ \E code \in {"too_many_request", "unauthorized", "forbidden"} : Reject(r, code)
      BY <1>2 DEF RateLimit, RequireRole
    <2>3. \A code \in {"too_many_request", "unauthorized", "forbidden"} :
            HTTPStatus(code) \in Status
      BY Codes DEF Status
    <2>4. T1'
      BY <1>0, <2>2 DEF Reject
    <2>5. T4'
      <3>1. CASE UNCHANGED verdict
        BY <1>0, <3>1
      <3>2. ASSUME NEW code \in {"too_many_request", "unauthorized", "forbidden"},
                   Reject(r, code)
            PROVE  T4'
        <4>1. HTTPStatus(code) \in Status
          BY <2>3
        <4>2. verdict' =
                [verdict EXCEPT ![r] = [status |-> HTTPStatus(code), count |-> "nothing"]]
          BY <3>2 DEF Reject
        <4> QED BY <1>0, <4>1, <4>2
      <3> QED BY <2>2, <3>1, <3>2
    <2> QED BY <1>0, <2>1, <2>4, <2>5 DEF TypeOK, stores
  <1>3. ASSUME NEW r \in Request, Handle(r) PROVE TypeOK'
    <2>1. PICK status \in Status, count \in CountLabel \cup {"nothing"} :
            Concluded(r, status, count)
      BY <1>3, HandlersConclude
    <2>2. T1' /\ T4'
      BY <1>0, <2>1 DEF Concluded, Conclude
    <2>3. T8' /\ T9' /\ UNCHANGED <<req, wrapper, sent, metered, counted, panicked>>
      BY <1>0, <2>1 DEF Concluded
    <2>4. T7'
      BY <1>0, <1>3, Zenon DEF Handle, RefuseBody, handleIssue, handleConsume, Take, Order,
             handleAdminRevoke, handleAdminUnrevoke, SetOrder, handleAdminListRevocations,
             handleStoreCredential, handleRetrieveCredential, handleHealth, stores
    <2> QED BY <1>0, <2>2, <2>3, <2>4 DEF TypeOK
  <1>4. ASSUME NEW r \in Request, Panic(r) PROVE TypeOK'
    <2>1. T1' /\ UNCHANGED <<req, wrapper, verdict, sent, metered, counted, tickets>>
      BY <1>0, <1>4 DEF Panic
    <2>2. T7'
      BY <1>0, <1>4, Zenon DEF Panic, Take, SetOrder
    <2>3. T9'
      BY <1>0, <1>4 DEF Panic, Take, SetOrder
    <2> QED BY <1>0, <2>1, <2>2, <2>3 DEF TypeOK
  <1>5. ASSUME NEW r \in Request, Count(r) PROVE TypeOK'
    <2>1. T1'
      BY <1>0, <1>5 DEF Count
    <2>2. T10'
      BY <1>0, <1>5, Bump DEF Count
    <2>3. UNCHANGED <<metered, req, wrapper, verdict, sent, stores, panicked>>
      BY <1>5 DEF Count
    <2> QED BY <1>0, <2>1, <2>2, <2>3 DEF TypeOK, stores
  <1>6. ASSUME NEW r \in Request, Respond(r) PROVE TypeOK'
    <2>1. T1'
      BY <1>0, <1>6 DEF Respond
    <2>2. verdict[r].status \in Status
      BY <1>0
    <2>3. T3' /\ T5'
      <3>1. \/ UNCHANGED sent
            \/ sent' = [sent EXCEPT ![r] = Append(@, verdict[r].status)]
        BY <1>6 DEF Respond, WriteHeader
      <3>2. \/ UNCHANGED wrapper
            \/ wrapper' = [wrapper EXCEPT
                            ![r] = [status |-> verdict[r].status, written |-> TRUE]]
        BY <1>6 DEF Respond, WriteHeader
      <3>3. [status |-> verdict[r].status, written |-> TRUE] \in Wrappers
        BY <2>2
      <3>4. T3'
        BY <1>0, <3>2, <3>3, Zenon
      <3>5. Append(sent[r], verdict[r].status) \in Seq(Status)
        BY <1>0, <2>2
      <3>6. T5'
        BY <1>0, <3>1, <3>5, Zenon
      <3> QED BY <3>4, <3>6
    <2>4. UNCHANGED <<req, verdict, metered, counted, stores, panicked>>
      BY <1>6 DEF Respond
    <2> QED BY <1>0, <2>1, <2>3, <2>4 DEF TypeOK, stores
  <1>7. ASSUME NEW r \in Request, Meter(r) PROVE TypeOK'
    <2>1. T1'
      BY <1>0, <1>7 DEF Meter
    <2>3. T6'
      BY <1>0, <1>7, Bump DEF Meter
    <2>2. UNCHANGED <<counted, req, wrapper, verdict, sent, stores, panicked>>
      BY <1>7 DEF Meter
    <2> QED BY <1>0, <2>1, <2>2, <2>3 DEF TypeOK, stores
  <1>8. ASSUME NEW r \in Request, Recover(r) PROVE TypeOK'
    <2>1. T1' /\ T5'
      BY <1>0, <1>8, Codes DEF Recover, Status
    <2>2. UNCHANGED <<req, wrapper, verdict, metered, counted, stores, panicked>>
      BY <1>8 DEF Recover
    <2> QED BY <1>0, <2>1, <2>2 DEF TypeOK, stores
  <1> QED BY <1>1, <1>2, <1>3, <1>4, <1>5, <1>6, <1>7, <1>8 DEF Next, Step
-----------------------------------------------------------------------------
\* What a step leaves alone of a request stays as it is: the stores only gain
\* tickets.
LEMMA LocalKept ==
  ASSUME NEW q \in Request, Local(q),
         pc'[q] = pc[q], req'[q] = req[q], wrapper'[q] = wrapper[q],
         verdict'[q] = verdict[q], sent'[q] = sent[q], tickets \subseteq tickets',
         q \in changed' <=> q \in changed, q \in panicked' <=> q \in panicked
  PROVE  Local(q)'
  <1>1. Answer(q)'
    BY DEF Local, Answer
  <1>2. Judged(q)'
    BY DEF Local, Judged
  <1>3. Changed(q)'
    BY DEF Local, Changed, Unreadable
  <1>4. Ticketed(q)'
    BY DEF Local, Ticketed
  <1> QED BY <1>1, <1>2, <1>3, <1>4 DEF Local

\* A ticket that a client was given is in the store.
LEMMA GivenKept ==
  ASSUME TypeOK, \A r \in Request : Local(r)
  PROVE  \A ticket \in Given : ticket # None => ticket \in tickets
  <1> SUFFICES ASSUME NEW q \in Request, req[q].route = "store", sent[q] = << 200 >>
               PROVE  q \in tickets
    BY DEF Given
  <1>1. Local(q)
    OBVIOUS
  <1>2. pc[q] \in {"meter", "done"}
    BY <1>1 DEF Local, Answer
  <1>3. q \notin panicked /\ verdict[q].status = 200
    BY <1>1, <1>2 DEF Local, Answer
  <1> QED BY <1>1, <1>2, <1>3 DEF Local, Ticketed

\* Where each request stands in its chain, step by step.
LEMMA LocalStep ==
  ASSUME TypeOK, Next, \A r \in Request : Local(r), NEW q \in Request
  PROVE  Local(q)'
  <1>0. Local(q) /\ req[q].route \in Route /\ verdict[q].status \in Status
    BY DEF TypeOK
  <1>d. /\ pc \in [Request -> {"idle", "limit", "authorise", "handle", "count", "respond",
                               "meter", "recover", "done"}]
        /\ DOMAIN req = Request /\ DOMAIN wrapper = Request /\ DOMAIN verdict = Request
        /\ DOMAIN sent = Request
    BY DEF TypeOK
  <1>1. ASSUME NEW r \in Request, NEW route \in Route, NEW token \in Tokens(route),
               NEW body \in Bodies(route), NEW ticket \in Asked(route),
               Arrive(r, route, token, body, ticket)
        PROVE  Local(q)'
    <2>0. UNCHANGED <<wrapper, verdict, sent, tickets, changed, panicked>>
      BY <1>1 DEF Arrive, stores
    <2>1. CASE q # r
      BY <1>0, <1>d, <1>1, <2>0, <2>1, LocalKept DEF Arrive
    <2>2. CASE q = r
      <3>1. /\ pc[q] = "idle" /\ pc'[q] \in {"limit", "handle"}
            /\ req'[q] = [route |-> route, token |-> token, body |-> body, ticket |-> ticket]
            /\ pc'[q] = "handle" <=> route \notin Limited
        BY <1>d, <1>1, <2>2 DEF Arrive
      <3>2. Answer(q)' /\ Judged(q)'
        BY <1>0, <2>0, <3>1 DEF Local, Answer, Judged, Before
      <3>3. q \notin changed /\ q \notin panicked
        BY <1>0, <3>1 DEF Local, Changed, Judged, Before
      <3>4. pc'[q] = "handle" => Role(route) # "admin"
        BY <3>1, Roles DEF Route, Chained, Limited
      <3>5. Changed(q)'
        BY <2>0, <3>1, <3>3, <3>4 DEF Changed
      <3>6. ticket # None => route = "retrieve" /\ ticket \in tickets
        BY GivenKept DEF Asked
      <3>7. verdict[q].status = 200
        BY <1>0, <3>1 DEF Local, Judged, Before
      <3>8. Ticketed(q)'
        BY <2>0, <3>1, <3>6, <3>7 DEF Ticketed
      <3> QED BY <3>2, <3>5, <3>8 DEF Local
    <2> QED BY <2>1, <2>2
  <1>2. ASSUME NEW r \in Request, RateLimit(r) \/ RequireRole(r) PROVE Local(q)'
    <2>0. UNCHANGED <<req, wrapper, sent, tickets, changed, panicked>>
      BY <1>2 DEF RateLimit, RequireRole, stores
    <2>1. CASE q # r
      BY <1>0, <1>d, <1>2, <2>0, <2>1, LocalKept DEF RateLimit, RequireRole, Reject
    <2>2. CASE q = r
      <3>1. pc[q] \in {"limit", "authorise"} /\ q \notin changed /\ q \notin panicked
        BY <1>0, <1>2, <2>2 DEF RateLimit, RequireRole, Local, Changed, Judged, Before
      <3>2. verdict[q] = [status |-> 200, count |-> "nothing"]
        BY <1>0, <3>1 DEF Local, Judged, Before
      <3>3. \/ /\ pc'[q] \in {"handle", "authorise"} /\ verdict'[q] = verdict[q]
               /\ pc'[q] = "handle" /\ Role(req[q].route) = "admin" => req[q].token = "admin"
            \/ /\ pc'[q] = "respond" /\ verdict'[q].count = "nothing"
               /\ verdict'[q].status \in {401, 403, 429}
        BY <1>d, <1>2, <2>2, Codes DEF RateLimit, RequireRole, Reject, HasRole
      <3>4. Answer(q)'
        BY <1>0, <2>0, <3>1, <3>3 DEF Local, Answer
      <3>5. Judged(q)'
        <4>1. CASE pc'[q] \in {"handle", "authorise"}
          BY <2>0, <3>1, <3>2, <3>3, <4>1 DEF Judged, Before
        <4>2. CASE pc'[q] = "respond"
          <5>1. Fits(req[q].route, verdict'[q].status, "nothing")
            BY <1>0, <3>3, <4>2, FittingRejects
          <5> QED BY <2>0, <3>1, <3>3, <4>2, <5>1 DEF Judged, Before
        <4> QED BY <3>3, <4>1, <4>2
      <3>6. Changed(q)'
        BY <2>0, <3>1, <3>3 DEF Changed
      <3>7. pc'[q] = "respond" => req[q].route # "store"
        BY <1>0, <3>1 DEF Local, Ticketed, Limited
      <3>8. Ticketed(q)'
        <4>1. req[q].route \in Limited /\ q \notin panicked /\ verdict[q].status # 404
          BY <1>0, <3>1, <3>2 DEF Local, Ticketed
        <4>2. verdict'[q].status # 404 /\ pc'[q] \in {"handle", "authorise", "respond"}
          BY <3>3, <4>1
        <4>3. req[q].ticket # None => req[q].route = "retrieve" /\ req[q].ticket \in tickets
          BY <1>0 DEF Local, Ticketed
        <4>4. req[q].route # "store"
          BY <4>1 DEF Limited
        <4> QED BY <2>0, <4>1, <4>2, <4>3, <4>4 DEF Ticketed
      <3> QED BY <3>4, <3>5, <3>6, <3>8 DEF Local
    <2> QED BY <2>1, <2>2
  <1>3. ASSUME NEW r \in Request, Handle(r) PROVE Local(q)'
    <2>1. PICK status \in Status, count \in CountLabel \cup {"nothing"} :
            Concluded(r, status, count)
      BY <1>3, HandlersConclude
    <2>2. CASE q # r
      BY <1>0, <1>d, <2>1, <2>2, LocalKept DEF Concluded, Conclude
    <2>3. CASE q = r
      <3>1. /\ pc[q] = "handle" /\ verdict'[q] = [status |-> status, count |-> count]
            /\ pc'[q] = IF count = "nothing" THEN "respond" ELSE "count"
        BY <1>d, <2>1, <2>3 DEF Concluded, Conclude
      <3>2. UNCHANGED <<req, wrapper, sent, panicked>> /\ Fits(req[q].route, status, count)
        BY <2>1, <2>3 DEF Concluded
      <3>3. q \notin changed /\ q \notin panicked
        BY <1>0, <3>1 DEF Local, Changed, Judged, Before
      <3>4. Answer(q)'
        BY <1>0, <3>1, <3>2 DEF Local, Answer
      <3>5. Judged(q)'
        BY <3>1, <3>2, <3>3 DEF Judged, Before
      <3>6. q \in changed' => ~ Unreadable(q) /\ status \in Admits(req[q].route)
        BY <2>1, <2>3, <3>3 DEF Concluded
      <3>7. req[q].route \in {"revoke", "unrevoke"} => req[q].token = "admin"
        BY <1>0, <3>1, Roles DEF Local, Changed
      <3>8. Changed(q)'
        BY <3>1, <3>2, <3>6, <3>7 DEF Changed, Unreadable, Before
      <3>9. Ticketed(q)'
        BY <1>0, <2>1, <2>3, <3>1, <3>2 DEF Concluded, Local, Ticketed
      <3> QED BY <3>4, <3>5, <3>8, <3>9 DEF Local
    <2> QED BY <2>2, <2>3
  <1>4. ASSUME NEW r \in Request, Panic(r) PROVE Local(q)'
    <2>0. /\ UNCHANGED <<req, wrapper, verdict, sent, tickets>>
          /\ panicked' = panicked \cup {r} /\ changed' \in {changed, changed \cup {r}}
          /\ pc' = [pc EXCEPT ![r] = "recover"] /\ pc[r] = "handle"
          /\ changed' # changed => ~ Unreadable(r)
      BY <1>4 DEF Panic, Handles, Take, SetOrder
    <2>1. CASE q # r
      BY <1>0, <1>d, <2>0, <2>1, LocalKept
    <2>2. CASE q = r
      <3>1. pc'[q] = "recover" /\ q \in panicked' /\ q \notin changed
        BY <1>0, <1>d, <2>0, <2>2 DEF Local, Changed, Before
      <3>2. Answer(q)'
        BY <1>0, <2>0, <2>2, <3>1 DEF Local, Answer
      <3>3. Judged(q)'
        BY <1>0, <2>0, <2>2, <3>1 DEF Local, Judged, Before
      <3>4. req[q].route \in {"revoke", "unrevoke"} => req[q].token = "admin"
        BY <1>0, <2>0, <2>2, Roles DEF Local, Changed
      <3>5. Changed(q)'
        BY <2>0, <2>2, <3>1, <3>4 DEF Changed, Unreadable, Before
      <3>6. Ticketed(q)'
        BY <1>0, <2>0, <3>1 DEF Local, Ticketed
      <3> QED BY <3>2, <3>3, <3>5, <3>6 DEF Local
    <2> QED BY <2>1, <2>2
  <1>5. ASSUME NEW r \in Request, Count(r) PROVE Local(q)'
    <2>0. /\ UNCHANGED <<req, wrapper, verdict, sent, tickets, changed, panicked>>
          /\ pc' = [pc EXCEPT ![r] = "respond"] /\ pc[r] = "count"
      BY <1>5 DEF Count, stores
    <2>1. CASE q # r
      BY <1>0, <1>d, <2>0, <2>1, LocalKept
    <2>2. CASE q = r
      <3>1. pc'[q] = "respond" /\ pc[q] = "count"
        BY <1>d, <2>0, <2>2
      <3>2. Answer(q)' /\ Judged(q)'
        BY <1>0, <2>0, <3>1 DEF Local, Answer, Judged, Before
      <3>3. Changed(q)' /\ Ticketed(q)'
        BY <1>0, <2>0, <3>1 DEF Local, Changed, Ticketed, Unreadable, Before
      <3> QED BY <3>2, <3>3 DEF Local
    <2> QED BY <2>1, <2>2
  <1>6. ASSUME NEW r \in Request, Respond(r) PROVE Local(q)'
    <2>0. UNCHANGED <<req, verdict, tickets, changed, panicked>> /\ pc[r] = "respond"
      BY <1>6 DEF Respond, stores
    <2>1. CASE q # r
      BY <1>0, <1>d, <1>6, <2>0, <2>1, LocalKept DEF Respond, WriteHeader
    <2>2. CASE q = r
      <3>1. sent[q] = <<>> /\ ~ wrapper[q].written /\ q \notin panicked
        BY <1>0, <2>0, <2>2 DEF Local, Answer, Judged
      <3>2. /\ sent'[q] = <<verdict[q].status>>
            /\ \/ /\ pc'[q] = "meter" /\ req[q].route \in Chained
                  /\ wrapper'[q].status = verdict[q].status
               \/ pc'[q] = "done"
        <4>1. Append(<<>>, verdict[q].status) = <<verdict[q].status>>
          OBVIOUS
        <4> QED BY <1>d, <1>6, <2>2, <3>1, <4>1 DEF Respond, WriteHeader
      <3>3. Answer(q)'
        BY <2>0, <3>1, <3>2 DEF Answer
      <3>4. Judged(q)'
        BY <1>0, <2>0, <2>2, <3>1, <3>2 DEF Local, Judged, Before
      <3>5. Changed(q)' /\ Ticketed(q)'
        BY <1>0, <2>0, <2>2, <3>2 DEF Local, Changed, Ticketed, Unreadable, Before
      <3> QED BY <3>3, <3>4, <3>5 DEF Local
    <2> QED BY <2>1, <2>2
  <1>7. ASSUME NEW r \in Request, Meter(r) PROVE Local(q)'
    <2>0. /\ UNCHANGED <<req, wrapper, verdict, sent, tickets, changed, panicked>>
          /\ pc' = [pc EXCEPT ![r] = "done"] /\ pc[r] = "meter"
      BY <1>7 DEF Meter, stores
    <2>1. CASE q # r
      BY <1>0, <1>d, <2>0, <2>1, LocalKept
    <2>2. CASE q = r
      <3>1. pc'[q] = "done" /\ pc[q] = "meter"
        BY <1>d, <2>0, <2>2
      <3>2. Answer(q)' /\ Judged(q)'
        BY <1>0, <2>0, <3>1 DEF Local, Answer, Judged, Before
      <3>3. Changed(q)' /\ Ticketed(q)'
        BY <1>0, <2>0, <3>1 DEF Local, Changed, Ticketed, Unreadable, Before
      <3> QED BY <3>2, <3>3 DEF Local
    <2> QED BY <2>1, <2>2
  <1>8. ASSUME NEW r \in Request, Recover(r) PROVE Local(q)'
    <2>0. /\ UNCHANGED <<req, wrapper, verdict, tickets, changed, panicked>>
          /\ pc' = [pc EXCEPT ![r] = "done"] /\ pc[r] = "recover"
          /\ sent' = [sent EXCEPT ![r] = Append(@, 500)]
      BY <1>8, Codes DEF Recover, stores
    <2>1. CASE q # r
      BY <1>0, <1>d, <2>0, <2>1, LocalKept
    <2>2. CASE q = r
      <3>1. pc'[q] = "done" /\ pc[q] = "recover" /\ q \in panicked
        BY <1>0, <1>d, <2>0, <2>2 DEF Local, Judged
      <3>2. sent'[q] = <<500>>
        <4>1. sent[q] = <<>> /\ Append(<<>>, 500) = <<500>>
          BY <1>0, <3>1 DEF Local, Answer
        <4> QED BY <1>d, <2>0, <2>2, <4>1
      <3>3. Answer(q)' /\ Judged(q)'
        BY <1>0, <2>0, <3>1, <3>2 DEF Local, Answer, Judged, Before
      <3>4. Changed(q)' /\ Ticketed(q)'
        BY <1>0, <2>0, <3>1 DEF Local, Changed, Ticketed, Unreadable, Before
      <3> QED BY <3>3, <3>4 DEF Local
    <2> QED BY <2>1, <2>2
  <1> QED BY <1>1, <1>2, <1>3, <1>4, <1>5, <1>6, <1>7, <1>8 DEF Next, Step

-----------------------------------------------------------------------------
\* The request counter keeps up with the answers: Meter adds one request to
\* one set and one to its counter.
LEMMA MeteredStep ==
  ASSUME TypeOK, Next, \A r \in Request : Local(r), MeteredAsAnswered
  PROVE  MeteredAsAnswered'
  <1> DEFINE M(route, status) == MeteredSet(route, status)
  <1>0. \A route \in Chained, status \in Status :
          metered[<<route, status>>] = Cardinality(M(route, status))
    BY DEF MeteredAsAnswered, MeteredSet
  <1>a. SUFFICES ASSUME NEW route \in Chained, NEW status \in Status
                 PROVE  metered'[<<route, status>>] = Cardinality(M(route, status)')
    BY DEF MeteredAsAnswered, MeteredSet
  <1>d. /\ pc \in [Request -> {"idle", "limit", "authorise", "handle", "count", "respond",
                               "meter", "recover", "done"}]
        /\ DOMAIN req = Request /\ DOMAIN sent = Request
        /\ metered \in [Chained \X Status -> Nat]
    BY DEF TypeOK
  <1>e. \A q \in Request : Local(q)
    OBVIOUS
  <1>1. ASSUME UNCHANGED metered, M(route, status)' = M(route, status)
        PROVE  metered'[<<route, status>>] = Cardinality(M(route, status)')
    BY <1>0, <1>1
  <1>2. ASSUME NEW r \in Request, NEW rt \in Route, NEW token \in Tokens(rt),
               NEW body \in Bodies(rt), NEW ticket \in Asked(rt),
               Arrive(r, rt, token, body, ticket)
        PROVE  UNCHANGED metered /\ M(route, status)' = M(route, status)
    BY <1>d, <1>2 DEF Arrive, MeteredSet, Done
  <1>3. ASSUME NEW r \in Request, RateLimit(r) \/ RequireRole(r)
        PROVE  UNCHANGED metered /\ M(route, status)' = M(route, status)
    <2>1. UNCHANGED <<req, sent, metered, panicked>> /\ pc[r] # "done"
          /\ \E p \in {"handle", "authorise", "respond"} : pc' = [pc EXCEPT ![r] = p]
      BY <1>3 DEF RateLimit, RequireRole, Reject
    <2> QED BY <1>d, <2>1 DEF MeteredSet, Done
  <1>4. ASSUME NEW r \in Request, Handle(r)
        PROVE  UNCHANGED metered /\ M(route, status)' = M(route, status)
    <2>1. UNCHANGED <<req, sent, metered, panicked>> /\ pc[r] # "done"
          /\ \E p \in {"count", "respond"} : pc' = [pc EXCEPT ![r] = p]
      BY <1>4, HandlersConclude DEF Concluded, Conclude
    <2> QED BY <1>d, <2>1 DEF MeteredSet, Done
  <1>5. ASSUME NEW r \in Request, Panic(r)
        PROVE  UNCHANGED metered /\ M(route, status)' = M(route, status)
    BY <1>d, <1>5 DEF Panic, MeteredSet, Done
  <1>6. ASSUME NEW r \in Request, Count(r)
        PROVE  UNCHANGED metered /\ M(route, status)' = M(route, status)
    BY <1>d, <1>6 DEF Count, MeteredSet, Done
  <1>7. ASSUME NEW r \in Request, Respond(r)
        PROVE  UNCHANGED metered /\ M(route, status)' = M(route, status)
    <2>1. UNCHANGED <<req, metered, panicked>> /\ pc[r] = "respond"
      BY <1>7 DEF Respond, stores
    <2>4. \/ pc' = [pc EXCEPT ![r] = "meter"]
          \/ pc' = [pc EXCEPT ![r] = "done"] /\ req[r].route \notin Chained
      <3>1. CASE req[r].route \in Chained
        BY <1>7, <3>1 DEF Respond
      <3>2. CASE req[r].route \notin Chained
        BY <1>7, <3>2 DEF Respond
      <3> QED BY <3>1, <3>2
    <2>2. sent' = sent \/ sent' = [sent EXCEPT ![r] = Append(@, verdict[r].status)]
      BY <1>7 DEF Respond, WriteHeader
    <2>3. \A q \in Request \ {r} : sent'[q] = sent[q]
      BY <1>d, <2>2
    <2> QED BY <1>d, <2>1, <2>4, <2>3 DEF MeteredSet, Done
  <1>8. ASSUME NEW r \in Request, Meter(r)
        PROVE  metered'[<<route, status>>] = Cardinality(M(route, status)')
    <2> DEFINE s == wrapper[r].status
    <2>1. /\ UNCHANGED <<req, sent, panicked>> /\ pc[r] = "meter"
          /\ pc' = [pc EXCEPT ![r] = "done"]
          /\ metered' = [metered EXCEPT ![<<req[r].route, s>>] = @ + 1]
      BY <1>8 DEF Meter
    <2>2. sent[r] = <<s>> /\ req[r].route \in Chained /\ r \notin panicked
      BY <1>e, <2>1 DEF Local, Answer, Judged
    <2>3. s \in Status
      BY DEF TypeOK
    <2>4. CASE req[r].route = route /\ s = status
      <3>1. M(route, status)' = M(route, status) \cup {r} /\ r \notin M(route, status)
        BY <1>d, <2>1, <2>2, <2>4 DEF MeteredSet, Done
      <3>2. IsFiniteSet(M(route, status))
        BY RequestAssumption, FS_Subset DEF MeteredSet
      <3>3. Cardinality(M(route, status)') = Cardinality(M(route, status)) + 1
        BY <3>1, <3>2, FS_AddElement
      <3>4. metered'[<<route, status>>] = metered[<<route, status>>] + 1
        BY <1>d, <2>1, <2>4
      <3> QED BY <1>0, <3>3, <3>4
    <2>5. CASE ~ (req[r].route = route /\ s = status)
      <3>1. M(route, status)' = M(route, status)
        BY <1>d, <2>1, <2>2, <2>5 DEF MeteredSet, Done
      <3>2. <<req[r].route, s>> # <<route, status>>
        BY <2>5
      <3>3. metered'[<<route, status>>] = metered[<<route, status>>]
        BY <1>d, <2>1, <3>2
      <3> QED BY <1>0, <3>1, <3>3
    <2> QED BY <2>4, <2>5
  <1>9. ASSUME NEW r \in Request, Recover(r)
        PROVE  UNCHANGED metered /\ M(route, status)' = M(route, status)
    <2>1. UNCHANGED <<req, metered, panicked>> /\ pc[r] = "recover"
          /\ pc' = [pc EXCEPT ![r] = "done"]
          /\ \A q \in Request \ {r} : sent'[q] = sent[q]
      BY <1>d, <1>9 DEF Recover
    <2>2. r \in panicked
      BY <1>e, <2>1 DEF Local, Judged
    <2> QED BY <1>d, <2>1, <2>2 DEF MeteredSet, Done
  <1> QED
    BY <1>1, <1>2, <1>3, <1>4, <1>5, <1>6, <1>7, <1>8, <1>9 DEF Next, Step

\* The handlers' counters keep up with what they settled on: Count adds one
\* request to one set and one to its counter.
LEMMA CountedStep ==
  ASSUME TypeOK, Next, \A r \in Request : Local(r), Counted
  PROVE  Counted'
  <1> DEFINE S(label) == CountedSet(label)
  <1>0. \A label \in CountLabel : counted[label] = Cardinality(S(label))
    BY DEF Counted
  <1>a. SUFFICES ASSUME NEW label \in CountLabel
                 PROVE  counted'[label] = Cardinality(S(label)')
    BY DEF Counted
  <1>d. /\ pc \in [Request -> {"idle", "limit", "authorise", "handle", "count", "respond",
                               "meter", "recover", "done"}]
        /\ DOMAIN verdict = Request
        /\ counted \in [CountLabel -> Nat] /\ label # "nothing"
    BY DEF TypeOK, CountLabel
  <1>e. \A q \in Request : Local(q)
    OBVIOUS
  <1>1. ASSUME UNCHANGED counted, S(label)' = S(label)
        PROVE  counted'[label] = Cardinality(S(label)')
    BY <1>0, <1>1
  <1>2. ASSUME NEW r \in Request, NEW rt \in Route, NEW token \in Tokens(rt),
               NEW body \in Bodies(rt), NEW ticket \in Asked(rt),
               Arrive(r, rt, token, body, ticket)
        PROVE  UNCHANGED counted /\ S(label)' = S(label)
    BY <1>d, <1>2 DEF Arrive, CountedSet
  <1>3. ASSUME NEW r \in Request, RateLimit(r) \/ RequireRole(r)
        PROVE  UNCHANGED counted /\ S(label)' = S(label)
    <2>1. /\ UNCHANGED counted /\ pc[r] \in {"limit", "authorise"}
          /\ \/ /\ \E p \in {"handle", "authorise"} : pc' = [pc EXCEPT ![r] = p]
                /\ UNCHANGED verdict
             \/ /\ pc' = [pc EXCEPT ![r] = "respond"]
                /\ \E status : verdict' =
                     [verdict EXCEPT ![r] = [status |-> status, count |-> "nothing"]]
      BY <1>3 DEF RateLimit, RequireRole, Reject
    <2> QED BY <1>d, <2>1 DEF CountedSet
  <1>4. ASSUME NEW r \in Request, Handle(r)
        PROVE  UNCHANGED counted /\ S(label)' = S(label)
    <2>1. PICK status \in Status, count \in CountLabel \cup {"nothing"} :
            Concluded(r, status, count)
      BY <1>4, HandlersConclude
    <2>2. /\ UNCHANGED counted /\ pc[r] = "handle"
          /\ pc' = [pc EXCEPT ![r] = IF count = "nothing" THEN "respond" ELSE "count"]
          /\ verdict' = [verdict EXCEPT ![r] = [status |-> status, count |-> count]]
      BY <2>1 DEF Concluded, Conclude
    <2> QED BY <1>d, <2>2 DEF CountedSet
  <1>5. ASSUME NEW r \in Request, Panic(r)
        PROVE  UNCHANGED counted /\ S(label)' = S(label)
    BY <1>d, <1>5 DEF Panic, CountedSet
  <1>6. ASSUME NEW r \in Request, Count(r)
        PROVE  counted'[label] = Cardinality(S(label)')
    <2> DEFINE l == verdict[r].count
    <2>1. /\ UNCHANGED verdict /\ pc[r] = "count" /\ pc' = [pc EXCEPT ![r] = "respond"]
          /\ counted' = [counted EXCEPT ![l] = @ + 1]
      BY <1>6 DEF Count
    <2>2. CASE l = label
      <3>1. S(label)' = S(label) \cup {r} /\ r \notin S(label)
        BY <1>d, <2>1, <2>2 DEF CountedSet
      <3>2. IsFiniteSet(S(label))
        BY RequestAssumption, FS_Subset DEF CountedSet
      <3>3. Cardinality(S(label)') = Cardinality(S(label)) + 1
        BY <3>1, <3>2, FS_AddElement
      <3>4. counted'[label] = counted[label] + 1
        BY <1>d, <2>1, <2>2
      <3> QED BY <1>0, <3>3, <3>4
    <2>3. CASE l # label
      <3>1. S(label)' = S(label)
        BY <1>d, <2>1, <2>3 DEF CountedSet
      <3>2. counted'[label] = counted[label]
        BY <1>d, <2>1, <2>3
      <3> QED BY <1>0, <3>1, <3>2
    <2> QED BY <2>2, <2>3
  <1>7. ASSUME NEW r \in Request, Respond(r)
        PROVE  UNCHANGED counted /\ S(label)' = S(label)
    <2>1. UNCHANGED <<verdict, counted>> /\ pc[r] = "respond"
      BY <1>7 DEF Respond
    <2>2. pc' = [pc EXCEPT ![r] = "meter"] \/ pc' = [pc EXCEPT ![r] = "done"]
      BY <1>7 DEF Respond, WriteHeader
    <2> QED BY <1>d, <2>1, <2>2 DEF CountedSet
  <1>8. ASSUME NEW r \in Request, Meter(r)
        PROVE  UNCHANGED counted /\ S(label)' = S(label)
    BY <1>d, <1>8 DEF Meter, CountedSet
  <1>9. ASSUME NEW r \in Request, Recover(r)
        PROVE  UNCHANGED counted /\ S(label)' = S(label)
    <2>1. UNCHANGED <<verdict, counted>> /\ pc[r] = "recover"
          /\ pc' = [pc EXCEPT ![r] = "done"]
      BY <1>9 DEF Recover
    <2>2. verdict[r].count = "nothing"
      BY <1>e, <2>1 DEF Local, Judged
    <2> QED BY <1>d, <2>1, <2>2 DEF CountedSet
  <1> QED
    BY <1>1, <1>2, <1>3, <1>4, <1>5, <1>6, <1>7, <1>8, <1>9 DEF Next, Step

-----------------------------------------------------------------------------
\* The inductive invariant holds initially.
LEMMA InitInv == Init => IInv
  <1> SUFFICES ASSUME Init PROVE IInv
    OBVIOUS
  <1>1. TypeOK
    <2>1. [route |-> "health", token |-> "refused", body |-> "fit", ticket |-> None]
            \in [route : Route, token : Token, body : Body, ticket : Request \cup {None}]
      BY DEF Route, Token, Body
    <2>2. [status |-> 200, written |-> FALSE] \in [status : Status, written : BOOLEAN]
      BY DEF Status
    <2>3. [status |-> 200, count |-> "nothing"]
            \in [status : Status, count : CountLabel \cup {"nothing"}]
      BY DEF Status
    <2>4. /\ req \in [Request -> [route : Route, token : Token, body : Body,
                                 ticket : Request \cup {None}]]
          /\ wrapper \in [Request -> [status : Status, written : BOOLEAN]]
          /\ verdict \in [Request -> [status : Status, count : CountLabel \cup {"nothing"}]]
      BY <2>1, <2>2, <2>3 DEF Init
    <2>5. /\ pc \in [Request -> {"idle", "limit", "authorise", "handle", "count", "respond",
                                "meter", "recover", "done"}]
          /\ sent \in [Request -> Seq(Status)]
      BY DEF Init
    <2>6. metered \in [Chained \X Status -> Nat] /\ counted \in [CountLabel -> Nat]
      BY DEF Init
    <2> QED BY <2>4, <2>5, <2>6 DEF Init, TypeOK
  <1>2. ASSUME NEW r \in Request PROVE Local(r)
    <2>1. /\ pc[r] = "idle" /\ sent[r] = <<>> /\ wrapper[r].written = FALSE
          /\ req[r].ticket = None
          /\ verdict[r] = [status |-> 200, count |-> "nothing"]
          /\ r \notin changed /\ r \notin panicked
      BY DEF Init
    <2> QED BY <2>1 DEF Local, Answer, Judged, Changed, Ticketed, Before
  <1>3. MeteredAsAnswered
    <2> SUFFICES ASSUME NEW route \in Chained, NEW status \in Status
                 PROVE  metered[<<route, status>>] = Cardinality(MeteredSet(route, status))
      BY DEF MeteredAsAnswered, MeteredSet
    <2>1. MeteredSet(route, status) = {}
      BY DEF Init, MeteredSet, Done
    <2> QED BY <2>1, FS_EmptySet DEF Init
  <1>4. Counted
    <2> SUFFICES ASSUME NEW label \in CountLabel
                 PROVE  counted[label] = Cardinality(CountedSet(label))
      BY DEF Counted
    <2>1. CountedSet(label) = {}
      BY DEF Init, CountedSet
    <2> QED BY <2>1, FS_EmptySet DEF Init
  <1> QED BY <1>1, <1>2, <1>3, <1>4 DEF IInv

\* And every step keeps it.
LEMMA StepInv == IInv /\ [Next]_vars => IInv'
  <1> SUFFICES ASSUME IInv, [Next]_vars PROVE IInv'
    OBVIOUS
  <1>1. CASE Next
    BY <1>1, TypeStep, LocalStep, MeteredStep, CountedStep DEF IInv
  <1>2. CASE UNCHANGED vars
    <2>1. UNCHANGED <<pc, req, wrapper, verdict, sent, metered, counted, spent, revoked,
                      tickets, changed, panicked>>
      BY <1>2 DEF vars, stores
    <2>2. TypeOK'
      BY <2>1 DEF IInv, TypeOK
    <2>3. \A r \in Request : Local(r)'
      BY <2>1, LocalKept DEF IInv
    <2>4. MeteredAsAnswered' /\ Counted'
      BY <2>1 DEF IInv, MeteredAsAnswered, Counted, CountedSet, Done
    <2> QED BY <2>2, <2>3, <2>4 DEF IInv
  <1> QED BY <1>1, <1>2

\* The invariant of every behaviour.
LEMMA Invariant == Spec => []IInv
  BY InitInv, StepInv, PTL DEF Spec

\* Every variable keeps its type (the handlers, the middleware, the metrics).
THEOREM TypeCorrect == Spec => []TypeOK
  <1>1. IInv => TypeOK
    BY DEF IInv
  <1> QED BY Invariant, <1>1, PTL

\* No request is answered twice, and none is over without an answer, panics
\* included (responseWriter, RecoveryMiddleware, respondJSON and respondErr).
THEOREM OneAnswer == Spec => []AnsweredOnce
  <1>1. IInv => AnsweredOnce
    <2> SUFFICES ASSUME IInv, NEW r \in Request
                 PROVE  Len(sent[r]) <= 1 /\ (Done(r) => Len(sent[r]) = 1)
      BY DEF AnsweredOnce
    <2>1. Answer(r)
      BY DEF IInv, Local
    <2>2. CASE pc[r] \in {"meter", "done"}
      <3> DEFINE s == IF r \in panicked THEN 500 ELSE verdict[r].status
      <3>1. sent[r] = <<s>>
        BY <2>1, <2>2 DEF Answer
      <3> HIDE DEF s
      <3>2. Len(<<s>>) = 1
        OBVIOUS
      <3> QED BY <3>1, <3>2
    <2>3. CASE pc[r] \notin {"meter", "done"}
      <3>1. sent[r] = <<>> /\ ~ Done(r) /\ Len(<<>>) = 0
        BY <2>1, <2>3 DEF Answer, Done
      <3> QED BY <3>1
    <2> QED BY <2>2, <2>3
  <1> QED BY Invariant, <1>1, PTL

\* The request counter holds what was answered, for any number of requests
\* (LoggerMiddleware, RecordHTTPRequest).
THEOREM RequestsMetered == Spec => []MeteredAsAnswered
  <1>1. IInv => MeteredAsAnswered
    BY DEF IInv
  <1> QED BY Invariant, <1>1, PTL

\* With no request between its counter and its answer, the handlers' counters
\* hold what was answered (handleIssue, handleConsume, handleAdminRevoke,
\* handleAdminUnrevoke).
THEOREM HandlersCounted == Spec => []CountedAsAnswered
  <1>1. IInv => CountedAsAnswered
    <2> SUFFICES ASSUME IInv, Underway = {} PROVE CountedAsAnswered
      BY DEF CountedAsAnswered
    <2>1. ASSUME NEW r \in Request, pc[r] \in {"respond", "meter", "done"},
                 verdict[r].count # "nothing"
          PROVE  /\ pc[r] \in {"meter", "done"} /\ r \notin panicked
                 /\ sent[r] = <<verdict[r].status>>
                 /\ Fits(req[r].route, verdict[r].status, verdict[r].count)
      <3>1. pc[r] # "respond"
        BY <2>1 DEF Underway
      <3>2. Answer(r) /\ Judged(r)
        BY DEF IInv, Local
      <3> QED BY <2>1, <3>1, <3>2 DEF Answer, Judged
    <2>2. ASSUME NEW r \in Request, pc[r] \in {"meter", "done"}, r \notin panicked
          PROVE  /\ sent[r] = <<verdict[r].status>>
                 /\ Fits(req[r].route, verdict[r].status, verdict[r].count)
      <3>1. Answer(r) /\ Judged(r)
        BY DEF IInv, Local
      <3> QED BY <2>2, <3>1 DEF Answer, Judged
    <2>3. ASSUME NEW label \in CountLabel, NEW route, NEW statuses,
                 \A status, count : Fits(route, status, count) =>
                   (count = label <=> status \in statuses),
                 \A rt, status : Fits(rt, status, label) => rt = route
          PROVE  CountedSet(label) = Handled(route, statuses)
      <3>1. label # "nothing"
        BY DEF CountLabel
      <3>2. ASSUME NEW r \in CountedSet(label) PROVE r \in Handled(route, statuses)
        <4>1. /\ r \in Request /\ pc[r] \in {"meter", "done"} /\ r \notin panicked
              /\ sent[r] = <<verdict[r].status>> /\ verdict[r].count = label
              /\ Fits(req[r].route, verdict[r].status, label)
          BY <2>1, <3>1 DEF CountedSet
        <4>2. req[r].route = route /\ verdict[r].status \in statuses
          BY <2>3, <4>1
        <4> QED BY <4>1, <4>2 DEF Handled, Answered
      <3>3. ASSUME NEW r \in Handled(route, statuses) PROVE r \in CountedSet(label)
        <4>1. /\ r \in Request /\ pc[r] \in {"meter", "done"} /\ r \notin panicked
              /\ req[r].route = route /\ Answered(r, statuses)
          BY DEF Handled
        <4>2. sent[r] = <<verdict[r].status>>
              /\ Fits(route, verdict[r].status, verdict[r].count)
          BY <2>2, <4>1
        <4>3. verdict[r].status \in statuses
          BY <4>1, <4>2 DEF Answered
        <4>4. verdict[r].count = label
          BY <2>3, <4>2, <4>3
        <4> QED BY <4>1, <4>4 DEF CountedSet
      <3> QED BY <3>2, <3>3
    <2> DEFINE Agree(label, route, statuses) ==
                 counted[label] = Cardinality(Handled(route, statuses))
    <2>4. ASSUME NEW label \in CountLabel, NEW route, NEW statuses,
                 \A status, count : Fits(route, status, count) =>
                   (count = label <=> status \in statuses),
                 \A rt, status : Fits(rt, status, label) => rt = route
          PROVE  Agree(label, route, statuses)
      BY <2>3, <2>4 DEF IInv, Counted
    <2>5. Agree("consumption_success", "consume", {200})
      <3>1. "consumption_success" \in CountLabel
        BY DEF CountLabel
      <3>2. \A status, count : Fits("consume", status, count) =>
              (count = "consumption_success" <=> status \in {200})
        BY DEF Fits
      <3>3. \A rt, status : Fits(rt, status, "consumption_success") => rt = "consume"
        BY DEF Fits
      <3> HIDE DEF Agree
      <3> QED BY <2>4, <3>1, <3>2, <3>3
    <2>6. Agree("consumption_failure", "consume", {400, 500, 503})
      <3>1. "consumption_failure" \in CountLabel
        BY DEF CountLabel
      <3>2. \A status, count : Fits("consume", status, count) =>
              (count = "consumption_failure" <=> status \in {400, 500, 503})
        BY DEF Fits
      <3>3. \A rt, status : Fits(rt, status, "consumption_failure") => rt = "consume"
        BY DEF Fits
      <3> HIDE DEF Agree
      <3> QED BY <2>4, <3>1, <3>2, <3>3
    <2>7. Agree("issuance_success", "issue", {200})
      <3>1. "issuance_success" \in CountLabel
        BY DEF CountLabel
      <3>2. \A status, count : Fits("issue", status, count) =>
              (count = "issuance_success" <=> status \in {200})
        BY DEF Fits
      <3>3. \A rt, status : Fits(rt, status, "issuance_success") => rt = "issue"
        BY DEF Fits
      <3> HIDE DEF Agree
      <3> QED BY <2>4, <3>1, <3>2, <3>3
    <2>8. Agree("issuance_failure", "issue", {400, 500})
      <3>1. "issuance_failure" \in CountLabel
        BY DEF CountLabel
      <3>2. \A status, count : Fits("issue", status, count) =>
              (count = "issuance_failure" <=> status \in {400, 500})
        BY DEF Fits
      <3>3. \A rt, status : Fits(rt, status, "issuance_failure") => rt = "issue"
        BY DEF Fits
      <3> HIDE DEF Agree
      <3> QED BY <2>4, <3>1, <3>2, <3>3
    <2>9. Agree("revocation_success", "revoke", {200})
      <3>1. "revocation_success" \in CountLabel
        BY DEF CountLabel
      <3>2. \A status, count : Fits("revoke", status, count) =>
              (count = "revocation_success" <=> status \in {200})
        BY DEF Fits
      <3>3. \A rt, status : Fits(rt, status, "revocation_success") => rt = "revoke"
        BY DEF Fits
      <3> HIDE DEF Agree
      <3> QED BY <2>4, <3>1, <3>2, <3>3
    <2>10. Agree("unrevocation_success", "unrevoke", {200})
      <3>1. "unrevocation_success" \in CountLabel
        BY DEF CountLabel
      <3>2. \A status, count : Fits("unrevoke", status, count) =>
              (count = "unrevocation_success" <=> status \in {200})
        BY DEF Fits
      <3>3. \A rt, status : Fits(rt, status, "unrevocation_success") => rt = "unrevoke"
        BY DEF Fits
      <3> HIDE DEF Agree
      <3> QED BY <2>4, <3>1, <3>2, <3>3
    <2>11. counted["consumption_duplicate"] + counted["consumption_revoked"]
             = Cardinality(Handled("consume", {409}))
      <3> DEFINE D == CountedSet("consumption_duplicate")
                 R == CountedSet("consumption_revoked")
      <3>1. /\ counted["consumption_duplicate"] = Cardinality(D)
            /\ counted["consumption_revoked"] = Cardinality(R)
        BY DEF IInv, Counted, CountLabel
      <3>2. ASSUME NEW r \in D \cup R PROVE r \in Handled("consume", {409})
        <4>1. /\ r \in Request /\ pc[r] \in {"respond", "meter", "done"}
              /\ verdict[r].count \in {"consumption_duplicate", "consumption_revoked"}
          BY DEF CountedSet
        <4>2. /\ pc[r] \in {"meter", "done"} /\ r \notin panicked
              /\ sent[r] = <<verdict[r].status>>
              /\ Fits(req[r].route, verdict[r].status, verdict[r].count)
          BY <2>1, <4>1
        <4>3. req[r].route = "consume" /\ verdict[r].status = 409
          BY <4>1, <4>2 DEF Fits
        <4> QED BY <4>1, <4>2, <4>3 DEF Handled, Answered
      <3>3. ASSUME NEW r \in Handled("consume", {409}) PROVE r \in D \cup R
        <4>1. /\ r \in Request /\ pc[r] \in {"meter", "done"} /\ r \notin panicked
              /\ req[r].route = "consume" /\ sent[r] = << 409 >>
          BY DEF Handled, Answered
        <4>2. sent[r] = <<verdict[r].status>>
              /\ Fits("consume", verdict[r].status, verdict[r].count)
          BY <2>2, <4>1
        <4>3. verdict[r].count \in {"consumption_duplicate", "consumption_revoked"}
          BY <4>1, <4>2 DEF Fits
        <4> QED BY <4>1, <4>3 DEF CountedSet
      <3>4. Handled("consume", {409}) = D \cup R
        BY <3>2, <3>3
      <3>5. IsFiniteSet(D) /\ IsFiniteSet(R) /\ D \cap R = {}
        BY RequestAssumption, FS_Subset DEF CountedSet
      <3>6. Cardinality(D) \in Nat /\ Cardinality(R) \in Nat /\ Cardinality({}) = 0
        BY <3>5, FS_CardinalityType, FS_EmptySet
      <3> HIDE DEF D, R
      <3>7. Cardinality(D \cup R) = Cardinality(D) + Cardinality(R) - Cardinality(D \cap R)
        BY <3>5, FS_Union
      <3>8. Cardinality(D \cup R) = Cardinality(D) + Cardinality(R)
        <4>1. Cardinality(D \cap R) = 0
          BY <3>5, <3>6
        <4> QED BY <3>6, <3>7, <4>1
      <3> QED BY <3>1, <3>4, <3>8
    <2> QED
      BY <2>5, <2>6, <2>7, <2>8, <2>9, <2>10, <2>11 DEF CountedAsAnswered
  <1> QED BY Invariant, <1>1, PTL

\* Nothing refused has changed a store, orders are the admin's, and a changed
\* store is not denied but by a failure (RequireRole, BodyLimitMiddleware,
\* validation, the handlers).
THEOREM ChangesAreAnswered == Spec => []ChangesAnswered
  <1>1. IInv => ChangesAnswered
    <2> SUFFICES ASSUME IInv, NEW r \in changed
                 PROVE  /\ ~ Unreadable(r)
                        /\ req[r].route \in {"revoke", "unrevoke"} => req[r].token = "admin"
                        /\ sent[r] # <<>> =>
                             Answered(r, IF req[r].route = "consume" THEN {200, 500, 503}
                                                                     ELSE {200, 400, 500})
      BY DEF ChangesAnswered
    <2>1. r \in Request
      BY DEF IInv, TypeOK
    <2>2. Answer(r) /\ Changed(r)
      BY <2>1 DEF IInv, Local
    <2>3. ASSUME sent[r] # <<>>
          PROVE  Answered(r, IF req[r].route = "consume" THEN {200, 500, 503}
                                                         ELSE {200, 400, 500})
      <3>1. sent[r] = <<IF r \in panicked THEN 500 ELSE verdict[r].status>>
        BY <2>2, <2>3 DEF Answer
      <3>2. r \in panicked \/ verdict[r].status \in Admits(req[r].route)
        BY <2>2 DEF Changed
      <3> QED BY <3>1, <3>2 DEF Answered, Admits
    <2> QED BY <2>2, <2>3 DEF Changed
  <1> QED BY Invariant, <1>1, PTL

\* A ticket that was handed out is found (handleStoreCredential,
\* handleRetrieveCredential).
THEOREM TicketsAreKept == Spec => []TicketsKept
  <1>1. IInv => TicketsKept
    <2> SUFFICES ASSUME IInv, NEW r \in Request, req[r].ticket # None, Answered(r, {404})
                 PROVE  FALSE
      BY DEF TicketsKept
    <2>1. sent[r] = <<404>>
      BY DEF Answered
    <2>2. Answer(r) /\ Ticketed(r)
      BY DEF IInv, Local
    <2>3. sent[r] = <<IF r \in panicked THEN 500 ELSE verdict[r].status>>
      BY <2>1, <2>2 DEF Answer
    <2> QED BY <2>1, <2>2, <2>3 DEF Ticketed
  <1> QED BY Invariant, <1>1, PTL
-----------------------------------------------------------------------------
(* One redemption.  The stores are reached in one step here, and every     *)
(* handler runs beside the others: what is spent, what the handlers took   *)
(* and what they tell must still agree.                                    *)

\* The handler of this redemption had the nullifier store take the credential.
Redeemed(r) == req[r].route = "consume" /\ r \in changed

\* At most one request spends the credential; the answer 200 is that one's,
\* and a duplicate was told so because another one did.
SpentOnce ==
  /\ \A q, r \in Request : Redeemed(q) /\ Redeemed(r) => q = r
  /\ \A r \in Request : req[r].route = "consume" =>
       /\ sent[r] = << 200 >> => Redeemed(r)
       /\ sent[r] = << 409 >> => ~ Redeemed(r)
       /\ sent[r] # <<>> /\ verdict[r].count = "consumption_duplicate" =>
            \E q \in Request : q # r /\ Redeemed(q)

Spendings ==
  /\ spent <=> \E q \in Request : Redeemed(q)
  /\ \A q, r \in Request : Redeemed(q) /\ Redeemed(r) => q = r
  /\ \A r \in Request : verdict[r].count = "consumption_success" => r \in changed
  /\ \A r \in Request : verdict[r].count = "consumption_duplicate" =>
                          spent /\ r \notin changed

Redemptions == {"consumption_success", "consumption_duplicate"}

\* The three ways in which a step bears on the credential.
Aside(r) ==
  /\ UNCHANGED <<spent, changed>>
  /\ \/ verdict'[r].count \notin Redemptions
     \/ verdict'[r].count = "consumption_duplicate" /\ spent /\ r \notin changed
     \/ verdict' = verdict

ChangesElse(r) ==
  /\ UNCHANGED spent
  /\ req[r].route # "consume" /\ changed' \in {changed, changed \cup {r}}
  /\ verdict'[r].count \notin Redemptions

Spends(r) ==
  /\ ~ spent /\ spent'
  /\ req[r].route = "consume" /\ changed' = changed \cup {r}
  /\ verdict'[r].count # "consumption_duplicate"

\* Every step of a request that is there is of one of these ways.
LEMMA StepBears ==
  ASSUME IInv, NEW r \in Request, Step(r)
  PROVE  /\ UNCHANGED req
         /\ \A q \in Request : q # r => verdict'[q] = verdict[q]
         /\ Aside(r) \/ ChangesElse(r) \/ Spends(r)
  <1>0. /\ verdict \in [Request -> [status : Status, count : CountLabel \cup {"nothing"}]]
        /\ Judged(r) /\ Changed(r)
    BY DEF IInv, TypeOK, Local
  <1>1. UNCHANGED req
    BY DEF Step, RateLimit, RequireRole, Handle, RefuseBody, handleIssue, handleConsume,
           handleAdminRevoke, handleAdminUnrevoke, Order, handleAdminListRevocations,
           handleStoreCredential, handleRetrieveCredential, handleHealth, Panic, Count,
           Respond, Meter, Recover
  <1> DEFINE Frame == \A q \in Request : q # r => verdict'[q] = verdict[q]
             Way == Aside(r) \/ ChangesElse(r) \/ Spends(r)
  <1>2. ASSUME RateLimit(r) \/ RequireRole(r) PROVE Frame /\ Way
    <2>1. UNCHANGED <<spent, changed>>
      BY <1>2 DEF RateLimit, RequireRole, stores
    <2>2. \/ UNCHANGED verdict
          \/ \E code \in {"too_many_request", "unauthorized", "forbidden"} : Reject(r, code)
      BY <1>2 DEF RateLimit, RequireRole
    <2>3. ASSUME NEW code, Reject(r, code)
          PROVE  verdict'[r].count = "nothing" /\ Frame
      BY <1>0, <2>3 DEF Reject
    <2> QED BY <1>1, <2>1, <2>2, <2>3 DEF Aside, Redemptions
  <1>3. ASSUME Handle(r) PROVE Frame /\ Way
    <2>1. pc[r] = "handle" /\ \E status, count : Conclude(r, status, count)
      BY <1>3, HandlersConclude DEF IInv, Concluded
    <2>2. ASSUME NEW status, NEW count, Conclude(r, status, count)
          PROVE  verdict'[r].count = count /\ Frame
      BY <1>0, <2>2 DEF Conclude
    <2>3. r \notin changed
      BY <1>0, <2>1 DEF Changed, Before
    <2>4. ASSUME RefuseBody(r) PROVE Way
      <3>1. verdict'[r].count = FailureCount(req[r].route)
        BY <2>2, <2>4 DEF RefuseBody
      <3>2. FailureCount(req[r].route) \notin Redemptions
        <4>1. req[r].route \in {"issue", "consume", "revoke", "unrevoke", "store"}
          BY <2>4 DEF RefuseBody, Unreadable, WithBody
        <4> QED BY <4>1, FailureCounts DEF Redemptions
      <3> QED BY <3>1, <3>2, <2>4 DEF RefuseBody, stores, Aside
    <2>5. ASSUME handleIssue(r) PROVE Way
      <3>1. verdict'[r].count \in {"issuance_success", "issuance_failure"}
        BY <2>2, <2>5 DEF handleIssue
      <3> QED BY <3>1, <2>5 DEF handleIssue, stores, Aside, Redemptions
    <2>6. ASSUME handleConsume(r) PROVE Way
      <3>1. req[r].route = "consume"
        BY <2>6 DEF handleConsume, Handles
      <3>2. \/ ~ spent /\ Take(r) /\ Conclude(r, 200, "consumption_success")
            \/ UNCHANGED <<spent, changed>> /\ Conclude(r, 409, "consumption_revoked")
            \/ spent /\ UNCHANGED <<spent, changed>> /\ Conclude(r, 409, "consumption_duplicate")
            \/ /\ UNCHANGED <<spent, changed>>
               /\ \E status : Conclude(r, status, "consumption_failure")
            \/ /\ ~ spent /\ Take(r)
               /\ \E status : Conclude(r, status, "consumption_failure")
        BY <2>6 DEF handleConsume
      <3>3. CASE ~ spent /\ Take(r) /\ Conclude(r, 200, "consumption_success")
        BY <2>2, <3>1, <3>3 DEF Take, Spends
      <3>4. CASE UNCHANGED <<spent, changed>> /\ Conclude(r, 409, "consumption_revoked")
        BY <2>2, <3>4 DEF Aside, Redemptions
      <3>5. CASE /\ spent /\ UNCHANGED <<spent, changed>>
                 /\ Conclude(r, 409, "consumption_duplicate")
        BY <2>2, <2>3, <3>5 DEF Aside
      <3>6. CASE /\ UNCHANGED <<spent, changed>>
                 /\ \E status : Conclude(r, status, "consumption_failure")
        BY <2>2, <3>6 DEF Aside, Redemptions
      <3>7. CASE /\ ~ spent /\ Take(r)
                 /\ \E status : Conclude(r, status, "consumption_failure")
        BY <2>2, <3>1, <3>7 DEF Take, Spends
      <3> QED BY <3>2, <3>3, <3>4, <3>5, <3>6, <3>7
    <2>7. ASSUME handleAdminRevoke(r) \/ handleAdminUnrevoke(r) PROVE Way
      <3>1. req[r].route # "consume" /\ UNCHANGED spent
        BY <2>7 DEF handleAdminRevoke, handleAdminUnrevoke, Order, Handles
      <3>2. changed' \in {changed, changed \cup {r}}
        BY <2>7 DEF handleAdminRevoke, handleAdminUnrevoke, Order, SetOrder
      <3>3. verdict'[r].count \in {"revocation_success", "revocation_failure",
                                   "unrevocation_success", "unrevocation_failure"}
        <4>1. CASE handleAdminRevoke(r)
          <5>1. \E status, count : /\ Conclude(r, status, count)
                                  /\ count \in {"revocation_success", "revocation_failure"}
            BY <4>1 DEF handleAdminRevoke, Order
          <5> QED BY <2>2, <5>1
        <4>2. CASE handleAdminUnrevoke(r)
          <5>1. \E status, count : /\ Conclude(r, status, count)
                                  /\ count \in {"unrevocation_success", "unrevocation_failure"}
            BY <4>2 DEF handleAdminUnrevoke, Order
          <5> QED BY <2>2, <5>1
        <4> QED BY <2>7, <4>1, <4>2
      <3> QED BY <3>1, <3>2, <3>3 DEF ChangesElse, Redemptions
    <2>8. ASSUME \/ handleAdminListRevocations(r) \/ handleRetrieveCredential(r)
                 \/ handleHealth(r)
          PROVE  Way
      <3>1. UNCHANGED <<spent, changed>>
        BY <2>8 DEF handleAdminListRevocations, handleRetrieveCredential, handleHealth, stores
      <3>2. verdict'[r].count = "nothing"
        BY <2>2, <2>8
           DEF handleAdminListRevocations, handleRetrieveCredential, handleHealth
      <3> QED BY <3>1, <3>2 DEF Aside, Redemptions
    <2>9. ASSUME handleStoreCredential(r) PROVE Way
      <3>1. req[r].route # "consume" /\ UNCHANGED spent /\ changed' = changed \cup {r}
        BY <2>9 DEF handleStoreCredential, Handles
      <3>2. verdict'[r].count = "nothing"
        BY <2>2, <2>9 DEF handleStoreCredential
      <3> QED BY <3>1, <3>2 DEF ChangesElse, Redemptions
    <2>10. Way
      BY <1>3, <2>4, <2>5, <2>6, <2>7, <2>8, <2>9 DEF Handle
    <2> QED BY <2>1, <2>2, <2>10
  <1>4. ASSUME Panic(r) PROVE Frame /\ Way
    <2>1. pc[r] = "handle" /\ UNCHANGED verdict
      BY <1>4 DEF Panic
    <2>2. verdict[r].count = "nothing"
      BY <1>0, <2>1 DEF Judged, Before
    <2>3. \/ UNCHANGED <<spent, changed>>
          \/ req[r].route = "consume" /\ ~ spent /\ Take(r)
          \/ req[r].route # "consume" /\ changed' = changed \cup {r} /\ UNCHANGED spent
      BY <1>4 DEF Panic, Handles, SetOrder
    <2>4. CASE UNCHANGED <<spent, changed>>
      BY <1>1, <2>1, <2>4 DEF Aside
    <2>5. CASE req[r].route = "consume" /\ ~ spent /\ Take(r)
      BY <1>1, <2>1, <2>2, <2>5 DEF Spends, Take
    <2>6. CASE req[r].route # "consume" /\ changed' = changed \cup {r} /\ UNCHANGED spent
      BY <1>1, <2>1, <2>2, <2>6 DEF ChangesElse, Redemptions
    <2> QED BY <2>3, <2>4, <2>5, <2>6
  <1>5. ASSUME Count(r) \/ Respond(r) \/ Meter(r) \/ Recover(r) PROVE Frame /\ Way
    BY <1>1, <1>5 DEF Count, Respond, Meter, Recover, stores, Aside
  <1> QED BY <1>1, <1>2, <1>3, <1>4, <1>5 DEF Step

\* So every step keeps what is known about the credential.
LEMMA SpendingsStep == IInv /\ Spendings /\ [Next]_vars => Spendings'
  <1> SUFFICES ASSUME IInv, Spendings, [Next]_vars PROVE Spendings'
    OBVIOUS
  <1>1. ASSUME NEW r \in Request, Step(r) PROVE Spendings'
    <2>1. /\ UNCHANGED req
          /\ \A q \in Request : q # r => verdict'[q] = verdict[q]
      BY <1>1, StepBears
    <2>2. CASE Aside(r)
      <3>1. \A q \in Request : Redeemed(q)' <=> Redeemed(q)
        BY <2>1, <2>2 DEF Aside, Redeemed
      <3>2. ASSUME NEW q \in Request
            PROVE  /\ verdict'[q].count = "consumption_success" => q \in changed'
                   /\ verdict'[q].count = "consumption_duplicate" =>
                        spent' /\ q \notin changed'
        <4>1. CASE q = r
          BY <2>2, <4>1 DEF Aside, Spendings, Redemptions
        <4>2. CASE q # r
          BY <2>1, <2>2, <4>2 DEF Aside, Spendings
        <4> QED BY <4>1, <4>2
      <3>3. spent' = spent
        BY <2>2 DEF Aside
      <3> QED BY <3>1, <3>2, <3>3 DEF Spendings
    <2>3. CASE ChangesElse(r)
      <3>1. \A q \in Request : Redeemed(q)' <=> Redeemed(q)
        BY <2>1, <2>3 DEF ChangesElse, Redeemed
      <3>2. ASSUME NEW q \in Request
            PROVE  /\ verdict'[q].count = "consumption_success" => q \in changed'
                   /\ verdict'[q].count = "consumption_duplicate" =>
                        spent' /\ q \notin changed'
        <4>1. CASE q = r
          BY <2>3, <4>1 DEF ChangesElse, Redemptions
        <4>2. CASE q # r
          BY <2>1, <2>3, <4>2 DEF ChangesElse, Spendings
        <4> QED BY <4>1, <4>2
      <3>3. spent' = spent
        BY <2>3 DEF ChangesElse
      <3> QED BY <3>1, <3>2, <3>3 DEF Spendings
    <2>4. CASE Spends(r)
      <3>1. \A q \in Request : ~ Redeemed(q)
        BY <2>4 DEF Spends, Spendings
      <3>2. \A q \in Request : Redeemed(q)' <=> q = r
        BY <2>1, <2>4, <3>1 DEF Spends, Redeemed
      <3>3. ASSUME NEW q \in Request
            PROVE  /\ verdict'[q].count = "consumption_success" => q \in changed'
                   /\ verdict'[q].count # "consumption_duplicate"
        <4>1. CASE q = r
          BY <2>4, <4>1 DEF Spends
        <4>2. CASE q # r
          BY <2>1, <2>4, <4>2 DEF Spends, Spendings
        <4> QED BY <4>1, <4>2
      <3>4. spent'
        BY <2>4 DEF Spends
      <3> QED BY <3>2, <3>3, <3>4 DEF Spendings
    <2> QED BY <1>1, <2>2, <2>3, <2>4, StepBears
  <1>2. ASSUME NEW r \in Request, NEW route, NEW token, NEW body, NEW ticket,
               Arrive(r, route, token, body, ticket)
        PROVE  Spendings'
    <2>1. pc[r] = "idle" /\ UNCHANGED <<verdict, spent, changed>>
      BY <1>2 DEF Arrive, stores
    <2>2. r \notin changed
      BY <2>1 DEF IInv, Local, Changed, Before
    <2>3. \A q \in Request : q # r => req'[q] = req[q]
      BY <1>2 DEF Arrive, IInv, TypeOK
    <2>4. \A q \in Request : Redeemed(q)' <=> Redeemed(q)
      BY <2>1, <2>2, <2>3 DEF Redeemed
    <2> QED BY <2>1, <2>4 DEF Spendings
  <1>3. CASE UNCHANGED vars
    <2>1. UNCHANGED <<req, verdict, spent, changed>>
      BY <1>3 DEF vars, stores
    <2>2. \A q \in Request : Redeemed(q)' <=> Redeemed(q)
      BY <2>1 DEF Redeemed
    <2> QED BY <2>1, <2>2 DEF Spendings
  <1> QED BY <1>1, <1>2, <1>3 DEF Next

\* Of the requests that redeem a credential at once, at most one spends it
\* and no other is answered 200; a duplicate's 409 is never the answer to the
\* one that spent it (handleConsume, ConsumeError, HTTPStatus).
THEOREM OneRedemptionAnswered == Spec => []SpentOnce
  <1>1. Init => Spendings
    BY DEF Init, Spendings, Redeemed
  <1>2. IInv /\ Spendings => SpentOnce
    <2> SUFFICES ASSUME IInv, Spendings PROVE SpentOnce
      OBVIOUS
    <2>1. ASSUME NEW r \in Request, req[r].route = "consume", sent[r] # <<>>
          PROVE  /\ sent[r] = << 200 >> => Redeemed(r)
                 /\ sent[r] = << 409 >> => ~ Redeemed(r)
                 /\ verdict[r].count = "consumption_duplicate" =>
                      \E q \in Request : q # r /\ Redeemed(q)
      <3>1. Answer(r) /\ Judged(r) /\ Changed(r)
        BY DEF IInv, Local
      <3>2. /\ pc[r] \in {"meter", "done"}
            /\ sent[r] = <<IF r \in panicked THEN 500 ELSE verdict[r].status>>
        BY <2>1, <3>1 DEF Answer
      <3>3. ASSUME sent[r] = << 200 >> PROVE Redeemed(r)
        <4>1. r \notin panicked /\ verdict[r].status = 200
          BY <3>2, <3>3
        <4>2. Fits("consume", 200, verdict[r].count)
          BY <2>1, <3>1, <3>2, <4>1 DEF Judged
        <4>3. verdict[r].count = "consumption_success"
          BY <4>2 DEF Fits
        <4> QED BY <2>1, <4>3 DEF Spendings, Redeemed
      <3>4. ASSUME sent[r] = << 409 >> PROVE ~ Redeemed(r)
        <4>1. r \notin panicked /\ verdict[r].status = 409
          BY <3>2, <3>4
        <4> QED BY <2>1, <3>1, <4>1 DEF Changed, Admits, Redeemed
      <3>5. ASSUME verdict[r].count = "consumption_duplicate"
            PROVE  \E q \in Request : q # r /\ Redeemed(q)
        <4>1. spent /\ r \notin changed
          BY <3>5 DEF Spendings
        <4> QED BY <4>1 DEF Spendings, Redeemed
      <3> QED BY <3>3, <3>4, <3>5
    <2>2. ASSUME NEW r \in Request PROVE <<>> # << 200 >> /\ <<>> # << 409 >>
      OBVIOUS
    <2> QED BY <2>1, <2>2 DEF SpentOnce, Spendings
  <1> QED BY Invariant, <1>1, <1>2, SpendingsStep, PTL DEF Spec

-----------------------------------------------------------------------------
\* How far a request has come.
Place == [idle |-> 0, limit |-> 1, authorise |-> 2, handle |-> 3, count |-> 4,
          recover |-> 4, respond |-> 5, meter |-> 6, done |-> 7]

\* Every step brings one request on its way and leaves the others where they
\* are: no chain turns back or waits for another, and seven steps see any
\* request out (EveryoneAnswered rests on this and on the scheduling).
THEOREM RequestsAdvance ==
  Spec => [][\E r \in Request :
               /\ Place[pc[r]] < Place[pc'[r]]
               /\ \A q \in Request : q # r => pc'[q] = pc[q]]_vars
  <1> DEFINE Onward == \E r \in Request :
               /\ Place[pc[r]] < Place[pc'[r]]
               /\ \A q \in Request : q # r => pc'[q] = pc[q]
             On(r) ==
               /\ Place[pc[r]] < Place[pc'[r]]
               /\ \A q \in Request : q # r => pc'[q] = pc[q]
             PC == {"idle", "limit", "authorise", "handle", "count", "respond",
                    "meter", "recover", "done"}
  <1>1. ASSUME IInv, Next PROVE Onward
    <2>0. pc \in [Request -> PC]
      BY <1>1 DEF IInv, TypeOK
    <2>2. /\ Place["idle"] = 0 /\ Place["limit"] = 1 /\ Place["authorise"] = 2
          /\ Place["handle"] = 3 /\ Place["count"] = 4 /\ Place["recover"] = 4
          /\ Place["respond"] = 5 /\ Place["meter"] = 6 /\ Place["done"] = 7
      BY DEF Place
    <2>3. ASSUME NEW r \in Request, NEW route, NEW token, NEW body, NEW ticket,
                 Arrive(r, route, token, body, ticket)
          PROVE  On(r)
      <3>1. pc[r] = "idle" /\ \E there \in {"limit", "handle"} : pc' = [pc EXCEPT ![r] = there]
        BY <2>3 DEF Arrive
      <3> QED BY <2>0, <2>2, <3>1
    <2>4. ASSUME NEW r \in Request, RateLimit(r) PROVE On(r)
      <3>1. pc[r] = "limit"
            /\ \E there \in {"handle", "authorise", "respond"} : pc' = [pc EXCEPT ![r] = there]
        BY <2>4 DEF RateLimit, Reject
      <3> QED BY <2>0, <2>2, <3>1
    <2>5. ASSUME NEW r \in Request, RequireRole(r) PROVE On(r)
      <3>1. pc[r] = "authorise"
            /\ \E there \in {"handle", "respond"} : pc' = [pc EXCEPT ![r] = there]
        BY <2>5 DEF RequireRole, Reject
      <3> QED BY <2>0, <2>2, <3>1
    <2>6. ASSUME NEW r \in Request, Handle(r) PROVE On(r)
      <3>1. pc[r] = "handle" /\ \E status, count : Conclude(r, status, count)
        BY <1>1, <2>6, HandlersConclude DEF IInv, Concluded
      <3>2. \E there \in {"respond", "count"} : pc' = [pc EXCEPT ![r] = there]
        BY <3>1 DEF Conclude
      <3> QED BY <2>0, <2>2, <3>1, <3>2
    <2>7. ASSUME NEW r \in Request, Panic(r) PROVE On(r)
      <3>1. pc[r] = "handle" /\ pc' = [pc EXCEPT ![r] = "recover"]
        BY <2>7 DEF Panic
      <3> QED BY <2>0, <2>2, <3>1
    <2>8. ASSUME NEW r \in Request, Count(r) PROVE On(r)
      <3>1. pc[r] = "count" /\ pc' = [pc EXCEPT ![r] = "respond"]
        BY <2>8 DEF Count
      <3> QED BY <2>0, <2>2, <3>1
    <2>9. ASSUME NEW r \in Request, Respond(r) PROVE On(r)
      <3>1. pc[r] = "respond" /\ \E there \in {"meter", "done"} : pc' = [pc EXCEPT ![r] = there]
        BY <2>9 DEF Respond
      <3> QED BY <2>0, <2>2, <3>1
    <2>10. ASSUME NEW r \in Request, Meter(r) PROVE On(r)
      <3>1. pc[r] = "meter" /\ pc' = [pc EXCEPT ![r] = "done"]
        BY <2>10 DEF Meter
      <3> QED BY <2>0, <2>2, <3>1
    <2>11. ASSUME NEW r \in Request, Recover(r) PROVE On(r)
      <3>1. pc[r] = "recover" /\ pc' = [pc EXCEPT ![r] = "done"]
        BY <2>11 DEF Recover
      <3> QED BY <2>0, <2>2, <3>1
    <2> QED BY <1>1, <2>3, <2>4, <2>5, <2>6, <2>7, <2>8, <2>9, <2>10, <2>11 DEF Next, Step
  <1>2. IInv /\ [Next]_vars => [Onward]_vars
    BY <1>1
  <1> HIDE DEF Onward
  <1>3. Spec => [][Onward]_vars
    BY Invariant, <1>2, PTL DEF Spec
  <1> QED BY <1>3 DEF Onward
=============================================================================
