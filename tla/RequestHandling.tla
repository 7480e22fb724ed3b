-------------------------- MODULE RequestHandling --------------------------
(***************************************************************************)
(* The HTTP side of the server (internal/api, internal/auth): the routes   *)
(* of NewServer, each behind its chain Recovery -> Logger -> RateLimit ->  *)
(* BodyLimit -> RequireRole -> handler, the wrapper that captures the      *)
(* status, the counters, and the map from errors to statuses.  Every       *)
(* request is a goroutine of its own; they meet in the counters and in the *)
(* stores.                                                                 *)
(*                                                                         *)
(* What the stores and the credential service do inside a call is the      *)
(* business of the other modules: here a call takes effect in one step and *)
(* returns any result the code can give it.  net/http and the Prometheus   *)
(* client are outside the repository.                                      *)
(***************************************************************************)
EXTENDS Naturals, Sequences, FiniteSets

CONSTANTS Request,   \* requests, each with a goroutine of its own
          None       \* no ticket

ASSUME RequestAssumption == IsFiniteSet(Request) /\ None \notin Request

VARIABLES pc,        \* where the request is in its chain
          req,       \* route, token, body and ticket
          wrapper,   \* responseWriter: the captured status, and written
          verdict,   \* what is to be answered, and counted by the handler
          sent,      \* the statuses that reached the connection
          metered,   \* blindvault_http_requests_total
          counted,   \* the counters of the handlers
          spent,     \* whether the credential that is redeemed is spent
          revoked,   \* whether an order stands for its class
          tickets,   \* demoStore.data, by the request that stored the ticket
          changed,   \* history: requests that changed a store
          panicked   \* history: requests whose handler panicked

stores == <<spent, revoked, tickets, changed>>
vars == <<pc, req, wrapper, verdict, sent, metered, counted, stores, panicked>>

Limited == {"issue", "consume", "revoke", "unrevoke", "list"}
Chained == Limited \cup {"store", "retrieve"}
Route == Chained \cup {"health"}
WithBody == {"issue", "consume", "revoke", "unrevoke", "store"}

\* The role that the route's RequireRole asks for.
Role(route) ==
  CASE route = "issue" -> "issuer"
    [] route \in {"revoke", "unrevoke", "list"} -> "admin"
    [] OTHER -> "none"

\* An Authorization header: none, not of the form "Bearer x" or with a token
\* that Validate refuses, or else the role that the token carries.
Token == {"refused", "plain", "issuer", "admin"}

\* A body: fit, over a megabyte, or not JSON or against the struct's tags.
Body == {"fit", "large", "unfit"}

\* HTTPStatus of an error's code; an error without one is internal.
HTTPStatus(code) ==
  LET table == [invalid_argument |-> 400, unauthorized |-> 401, forbidden |-> 403,
                not_found |-> 404, already_exists |-> 409, too_many_request |-> 429,
                unavailable |-> 503]
  IN IF code \in DOMAIN table THEN table[code] ELSE 500

Status == {200, 400, 401, 403, 404, 409, 429, 500, 503}

\* The labels of the handlers' counters.
CountLabel ==
  {"issuance_success", "issuance_failure", "consumption_success", "consumption_failure",
   "consumption_duplicate", "consumption_revoked", "revocation_success",
   "revocation_failure", "unrevocation_success", "unrevocation_failure"}

Init ==
  /\ pc = [r \in Request |-> "idle"]
  /\ req = [r \in Request |-> [route |-> "health", token |-> "refused",
                               body |-> "fit", ticket |-> None]]
  /\ wrapper = [r \in Request |-> [status |-> 200, written |-> FALSE]]
  /\ verdict = [r \in Request |-> [status |-> 200, count |-> "nothing"]]
  /\ sent = [r \in Request |-> <<>>]
  /\ metered = [label \in Chained \X Status |-> 0]
  /\ counted = [label \in CountLabel |-> 0]
  /\ spent = FALSE /\ revoked = FALSE /\ tickets = {}
  /\ changed = {} /\ panicked = {}

-----------------------------------------------------------------------------
(* The chain.                                                              *)

\* A client asks for tickets it was given, or for one that it makes up.
Given == {q \in Request : req[q].route = "store" /\ sent[q] = <<200>>} \cup {None}

\* RecoveryMiddleware and LoggerMiddleware hand on with a fresh wrapper.
Arrive(r, route, token, body, ticket) ==
  /\ pc[r] = "idle"
  /\ req' = [req EXCEPT ![r] = [route |-> route, token |-> token, body |-> body, ticket |-> ticket]]
  /\ pc' = [pc EXCEPT ![r] = IF route \in Limited THEN "limit" ELSE "handle"]
  /\ UNCHANGED <<wrapper, verdict, sent, metered, counted, stores, panicked>>

\* Mutant: no status belongs to the code.
RejectUnmapped(r, code) ==
  /\ verdict' = [verdict EXCEPT ![r] = [status |-> 0, count |-> "nothing"]]
  /\ pc' = [pc EXCEPT ![r] = "respond"]

\* respondErr from a middleware: nothing is counted, the handler never runs.
Reject(r, code) ==
  /\ verdict' = [verdict EXCEPT ![r] = [status |-> HTTPStatus(code), count |-> "nothing"]]
  /\ pc' = [pc EXCEPT ![r] = "respond"]

\* RateLimitMiddleware: rateLimiter.Allow decides.
RateLimit(r) ==
  /\ pc[r] = "limit"
  /\ \/ /\ pc' = [pc EXCEPT ![r] = IF Role(req[r].route) = "none" THEN "handle" ELSE "authorise"]
        /\ UNCHANGED verdict
     \/ Reject(r, "too_many_request")
  /\ UNCHANGED <<req, wrapper, sent, metered, counted, stores, panicked>>

\* HasRole: the admin claim, or the admin role where that is the one asked for.
HasRole(token, role) == token \in {"admin", role}

\* Mutant: HasRole's answer is not looked at.
RequireToken(r) ==
  /\ pc[r] = "authorise"
  /\ IF req[r].token = "refused" THEN Reject(r, "unauthorized")
     ELSE pc' = [pc EXCEPT ![r] = "handle"] /\ UNCHANGED verdict
  /\ UNCHANGED <<req, wrapper, sent, metered, counted, stores, panicked>>

RequireRole(r) ==
  /\ pc[r] = "authorise"
  /\ IF req[r].token = "refused" THEN Reject(r, "unauthorized")
     ELSE IF ~ HasRole(req[r].token, Role(req[r].route)) THEN Reject(r, "forbidden")
     ELSE pc' = [pc EXCEPT ![r] = "handle"] /\ UNCHANGED verdict
  /\ UNCHANGED <<req, wrapper, sent, metered, counted, stores, panicked>>

-----------------------------------------------------------------------------
(* The handlers.                                                           *)

\* The handler's counter goes up under this label, then the answer is given.
Conclude(r, status, count) ==
  /\ verdict' = [verdict EXCEPT ![r] = [status |-> status, count |-> count]]
  /\ pc' = [pc EXCEPT ![r] = IF count = "nothing" THEN "respond" ELSE "count"]

\* MaxBytesReader cuts a body off only where BodyLimitMiddleware is.
Unreadable(r) ==
  /\ req[r].route \in WithBody
  /\ \/ req[r].body = "unfit"
     \/ req[r].body = "large" /\ req[r].route \in Limited

FailureCount(route) ==
  CASE route = "issue" -> "issuance_failure"
    [] route = "consume" -> "consumption_failure"
    [] OTHER -> "nothing"

\* Mutant: a request that cannot be read is not counted.
RefuseUncounted(r) ==
  /\ pc[r] = "handle"
  /\ Unreadable(r)
  /\ Conclude(r, HTTPStatus("invalid_argument"), "nothing")
  /\ UNCHANGED <<req, wrapper, sent, metered, counted, stores, panicked>>

\* Decoding or validation fails, or the ciphertext is empty.
RefuseBody(r) ==
  /\ pc[r] = "handle"
  /\ Unreadable(r)
  /\ Conclude(r, HTTPStatus("invalid_argument"), FailureCount(req[r].route))
  /\ UNCHANGED <<req, wrapper, sent, metered, counted, stores, panicked>>

Handles(r, route) == pc[r] = "handle" /\ req[r].route = route /\ ~ Unreadable(r)

handleIssue(r) ==
  /\ Handles(r, "issue")
  /\ \/ Conclude(r, 200, "issuance_success")
     \/ Conclude(r, HTTPStatus("internal"), "issuance_failure")
  /\ UNCHANGED <<req, wrapper, sent, metered, counted, stores, panicked>>

\* The nullifier store takes the credential.
Take(r) == spent' = TRUE /\ changed' = changed \cup {r}

\* CredentialService.Consume; a store that reports a failure may have stored.
handleConsume(r) ==
  /\ Handles(r, "consume")
  /\ \/ ~ spent /\ Take(r) /\ Conclude(r, 200, "consumption_success")
     \/ /\ revoked /\ UNCHANGED <<spent, changed>>
        /\ Conclude(r, 409, "consumption_revoked")
     \/ /\ spent /\ UNCHANGED <<spent, changed>>
        /\ Conclude(r, 409, "consumption_duplicate")
     \/ /\ UNCHANGED <<spent, changed>>
        /\ \E code \in {"invalid_argument", "unavailable", "internal"} :
             Conclude(r, HTTPStatus(code), "consumption_failure")
     \/ /\ ~ spent /\ Take(r)
        /\ Conclude(r, HTTPStatus("unavailable"), "consumption_failure")
  /\ UNCHANGED <<req, wrapper, sent, metered, counted, revoked, tickets, panicked>>

SetOrder(r, value) == revoked' = value /\ changed' = changed \cup {r}

\* RevokeClass and UnrevokeClass; a failure may have taken effect as well, and
\* is the client's fault by its code.
Order(r, route, value, done, failed) ==
  /\ Handles(r, route)
  /\ \/ /\ SetOrder(r, value)
        /\ \/ Conclude(r, 200, done)
           \/ Conclude(r, HTTPStatus("invalid_argument"), failed)
     \/ /\ UNCHANGED <<revoked, changed>>
        /\ Conclude(r, HTTPStatus("invalid_argument"), failed)
  /\ UNCHANGED <<req, wrapper, sent, metered, counted, spent, tickets, panicked>>

handleAdminRevoke(r) ==
  Order(r, "revoke", TRUE, "revocation_success", "revocation_failure")

handleAdminUnrevoke(r) ==
  Order(r, "unrevoke", FALSE, "unrevocation_success", "unrevocation_failure")

handleAdminListRevocations(r) ==
  /\ Handles(r, "list")
  /\ Conclude(r, 200, "nothing") \/ Conclude(r, HTTPStatus("invalid_argument"), "nothing")
  /\ UNCHANGED <<req, wrapper, sent, metered, counted, stores, panicked>>

\* Mutant: the ticket is handed out before it is stored, and never stored.
StoreForgetful(r) ==
  /\ Handles(r, "store")
  /\ Conclude(r, 200, "nothing")
  /\ UNCHANGED <<req, wrapper, sent, metered, counted, stores, panicked>>

handleStoreCredential(r) ==
  /\ Handles(r, "store")
  /\ tickets' = tickets \cup {r} /\ changed' = changed \cup {r}
  /\ Conclude(r, 200, "nothing")
  /\ UNCHANGED <<req, wrapper, sent, metered, counted, spent, revoked, panicked>>

handleRetrieveCredential(r) ==
  /\ Handles(r, "retrieve")
  /\ Conclude(r, IF req[r].ticket \in tickets THEN 200 ELSE HTTPStatus("not_found"), "nothing")
  /\ UNCHANGED <<req, wrapper, sent, metered, counted, stores, panicked>>

\* handleHealth stands outside the chain.
handleHealth(r) ==
  /\ Handles(r, "health")
  /\ Conclude(r, 200, "nothing") \/ Conclude(r, HTTPStatus("unavailable"), "nothing")
  /\ UNCHANGED <<req, wrapper, sent, metered, counted, stores, panicked>>

Handle(r) ==
  \/ RefuseBody(r) \/ handleIssue(r) \/ handleConsume(r)
  \/ handleAdminRevoke(r) \/ handleAdminUnrevoke(r) \/ handleAdminListRevocations(r)
  \/ handleStoreCredential(r) \/ handleRetrieveCredential(r) \/ handleHealth(r)

\* The call under a handler panics, before or after it reached its store;
\* LoggerMiddleware's lines after next are skipped.
Panic(r) ==
  /\ pc[r] = "handle" /\ req[r].route \in Chained
  /\ pc' = [pc EXCEPT ![r] = "recover"]
  /\ panicked' = panicked \cup {r}
  /\ \/ UNCHANGED <<spent, revoked, changed>>
     \/ Handles(r, "consume") /\ ~ spent /\ Take(r) /\ UNCHANGED revoked
     \/ Handles(r, "revoke") /\ SetOrder(r, TRUE) /\ UNCHANGED spent
     \/ Handles(r, "unrevoke") /\ SetOrder(r, FALSE) /\ UNCHANGED spent
  /\ UNCHANGED <<req, wrapper, verdict, sent, metered, counted, tickets>>

-----------------------------------------------------------------------------
(* The answer.                                                             *)

\* RecordIssuance, RecordConsumption, RecordRevocation, RecordUnrevocation.
Count(r) ==
  /\ pc[r] = "count"
  /\ counted' = [counted EXCEPT ![verdict[r].count] = @ + 1]
  /\ pc' = [pc EXCEPT ![r] = "respond"]
  /\ UNCHANGED <<req, wrapper, verdict, sent, metered, stores, panicked>>

\* Mutant: the wrapper passes the status on without keeping it.
WriteHeaderUnkept(r, status) ==
  /\ wrapper' = [wrapper EXCEPT ![r].written = TRUE]
  /\ sent' = IF wrapper[r].written THEN sent ELSE [sent EXCEPT ![r] = Append(@, status)]

\* responseWriter.WriteHeader: the first status counts.
WriteHeader(r, status) ==
  IF wrapper[r].written THEN UNCHANGED <<wrapper, sent>>
  ELSE /\ wrapper' = [wrapper EXCEPT ![r] = [status |-> status, written |-> TRUE]]
       /\ sent' = [sent EXCEPT ![r] = Append(@, status)]

\* respondJSON, respondErr and respondError.
Respond(r) ==
  /\ pc[r] = "respond"
  /\ IF req[r].route \in Chained
       THEN WriteHeader(r, verdict[r].status) /\ pc' = [pc EXCEPT ![r] = "meter"]
       ELSE /\ sent' = [sent EXCEPT ![r] = Append(@, verdict[r].status)]
            /\ pc' = [pc EXCEPT ![r] = "done"] /\ UNCHANGED wrapper
  /\ UNCHANGED <<req, verdict, metered, counted, stores, panicked>>

\* RecordHTTPRequest with the status that the wrapper kept.
Meter(r) ==
  /\ pc[r] = "meter"
  /\ metered' = [metered EXCEPT ![<<req[r].route, wrapper[r].status>>] = @ + 1]
  /\ pc' = [pc EXCEPT ![r] = "done"]
  /\ UNCHANGED <<req, wrapper, verdict, sent, counted, stores, panicked>>

\* Mutant: the panic is logged and nothing is answered.
RecoverSilently(r) ==
  /\ pc[r] = "recover"
  /\ pc' = [pc EXCEPT ![r] = "done"]
  /\ UNCHANGED <<req, wrapper, verdict, sent, metered, counted, stores, panicked>>

\* Mutant: after the recovery's answer the chain goes on to its own.
RecoverAndGoOn(r) ==
  /\ pc[r] = "recover"
  /\ sent' = [sent EXCEPT ![r] = Append(@, HTTPStatus("internal"))]
  /\ pc' = [pc EXCEPT ![r] = "respond"]
  /\ UNCHANGED <<req, wrapper, verdict, metered, counted, stores, panicked>>

\* RecoveryMiddleware answers on the connection itself, past the wrapper.
Recover(r) ==
  /\ pc[r] = "recover"
  /\ sent' = [sent EXCEPT ![r] = Append(@, HTTPStatus("internal"))]
  /\ pc' = [pc EXCEPT ![r] = "done"]
  /\ UNCHANGED <<req, wrapper, verdict, metered, counted, stores, panicked>>

-----------------------------------------------------------------------------
\* What a request goes through once it is there.
Step(r) ==
  \/ RateLimit(r) \/ RequireRole(r) \/ Handle(r) \/ Panic(r)
  \/ Count(r) \/ Respond(r) \/ Meter(r) \/ Recover(r)

Tokens(route) == IF Role(route) = "none" THEN {"refused"} ELSE Token
Bodies(route) == IF route \in WithBody THEN Body ELSE {"fit"}
Asked(route) == IF route = "retrieve" THEN Given ELSE {None}

Next == \E r \in Request :
  \/ \E route \in Route : \E token \in Tokens(route) :
       \E body \in Bodies(route) : \E ticket \in Asked(route) :
         Arrive(r, route, token, body, ticket)
  \/ Step(r)

\* Every goroutine is scheduled, and every call returns or panics: the calls
\* to the stores have timeouts or take locks that are given back.
Spec == Init /\ [][Next]_vars /\ \A r \in Request : WF_vars(Step(r))

-----------------------------------------------------------------------------
(* Properties.                                                             *)

\* The type invariant.
TypeOK ==
  /\ pc \in [Request -> {"idle", "limit", "authorise", "handle", "count", "respond",
                         "meter", "recover", "done"}]
  /\ req \in [Request -> [route : Route, token : Token, body : Body, ticket : Request \cup {None}]]
  /\ wrapper \in [Request -> [status : Status, written : BOOLEAN]]
  /\ verdict \in [Request -> [status : Status, count : CountLabel \cup {"nothing"}]]
  /\ sent \in [Request -> Seq(Status)]
  /\ metered \in [Chained \X Status -> Nat] /\ counted \in [CountLabel -> Nat]
  /\ spent \in BOOLEAN /\ revoked \in BOOLEAN /\ tickets \subseteq Request
  /\ changed \subseteq Request /\ panicked \subseteq Request

Done(r) == pc[r] = "done"
Answered(r, statuses) == \E s \in statuses : sent[r] = <<s>>

\* No request is answered with two statuses, whichever of the wrapper, a
\* middleware, the handler and the recovery answers it, and none is over
\* without one.
AnsweredOnce ==
  \A r \in Request : Len(sent[r]) <= 1 /\ (Done(r) => Len(sent[r]) = 1)

\* The request counter tells for each route and status how many requests were
\* answered so, but for those whose handler panicked, which are missing, and
\* those about to be recorded (LoggerMiddleware).
MeteredAsAnswered ==
  \A route \in Chained, status \in Status :
    metered[<<route, status>>] =
      Cardinality({r \in Request : Done(r) /\ req[r].route = route
                                     /\ sent[r] = <<status>> /\ r \notin panicked})

\* Requests that have been answered by their handler.
Handled(route, statuses) ==
  {r \in Request : /\ pc[r] \in {"meter", "done"} /\ req[r].route = route
                   /\ Answered(r, statuses) /\ r \notin panicked}

\* Requests that have been counted and not answered.
Underway == {r \in Request : pc[r] = "respond" /\ verdict[r].count # "nothing"}

\* With no request in between, the handlers' counters and the answers agree:
\* successes are the 200s, duplicates and revoked ones the 409s, failures the
\* rest, less what the middleware refused and what panicked.
CountedAsAnswered ==
  Underway = {} =>
    /\ counted["consumption_success"] = Cardinality(Handled("consume", {200}))
    /\ counted["consumption_duplicate"] + counted["consumption_revoked"]
         = Cardinality(Handled("consume", {409}))
    /\ counted["consumption_failure"]
         = Cardinality(Handled("consume", {400, 500, 503}))
    /\ counted["issuance_success"] = Cardinality(Handled("issue", {200}))
    /\ counted["issuance_failure"] = Cardinality(Handled("issue", {400, 500}))
    /\ counted["revocation_success"] = Cardinality(Handled("revoke", {200}))
    /\ counted["unrevocation_success"] = Cardinality(Handled("unrevoke", {200}))

\* A request that the middleware or the validation refused has changed no
\* store, one that has changed the orders carries the admin's role, and the
\* answer of one that took the credential says so, unless a store or the
\* handler failed.
ChangesAnswered ==
  \A r \in changed :
    /\ ~ Unreadable(r)
    /\ req[r].route \in {"revoke", "unrevoke"} => req[r].token = "admin"
    /\ sent[r] # <<>> => Answered(r, IF req[r].route = "consume" THEN {200, 500, 503}
                                     ELSE {200, 400, 500})

\* A ticket that a client was given is found whenever it asks for it.
TicketsKept ==
  \A r \in Request : req[r].ticket # None => ~ Answered(r, {404})

\* Every request that arrives is answered, its handler panicking or not.
EveryoneAnswered == \A r \in Request : pc[r] # "idle" ~> sent[r] # <<>>
=============================================================================
