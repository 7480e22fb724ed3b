-------------------------- MODULE CredentialClient --------------------------
(***************************************************************************)
(* The client library and its command line (pkg/client, cmd/bv): each bv   *)
(* command is a process of its own that loads state.json whole, works on   *)
(* its copy and writes the copy back, so that commands which overlap and   *)
(* processes that are killed meet in the file.  The user carries what is   *)
(* printed from one command to the next and to the server, whose Issue     *)
(* (internal/service/credentials.go) and redemption answer over a network  *)
(* that loses replies.                                                     *)
(*                                                                         *)
(* os.WriteFile is outside the repository: it truncates the file, then     *)
(* writes it.  A process that loads in between finds no JSON.  A process   *)
(* that writes over another's contents may leave the tail of longer ones.  *)
(***************************************************************************)
EXTENDS BlindSignatures

CONSTANTS Process,     \* bv processes that may run at once
          RequestID,   \* the identifiers generateID draws
          Message,     \* what users blind
          Class,       \* credential classes
          Hash,        \* HashToCurve: message -> point
          Key,         \* DeriveSigningKey: class -> secret key
          Factor,      \* the blinding factors that are drawn
          Nonce,       \* the nonces that DLEQProve draws
          None

ASSUME DrawsAssumption ==
  /\ Hash \in [Message -> NonZero] /\ Key \in [Class -> NonZero]
  /\ Factor \subseteq NonZero /\ Nonce \subseteq NonZero

VARIABLES file,      \* state.json: absent, emptied, torn, or the requests
          pc,        \* what each process is about to do
          job,       \* its command and arguments
          requests,  \* State.Requests, the process's own copy
          handed,    \* what blind printed: identifier -> message and point
          answers,   \* what Issue returned
          results,   \* what unblind printed
          reports,   \* the credentials that redeem printed a success for
          posted,    \* redemptions sent that have not reached the server
          reply,     \* the server's answer on its way to a process
          spent,     \* the server's nullifiers
          mishaps,   \* history: what befell the file
          unheard    \* history: credentials whose call ended with no answer

local == <<pc, job, requests>>
server == <<posted, reply, spent, unheard>>
printed == <<handed, results, reports>>
vars == <<file, local, answers, printed, server, mishaps>>

Empty == [id \in {} |-> None]

Init ==
  /\ file = [is |-> "absent", of |-> Empty]
  /\ pc = [p \in Process |-> "idle"]
  /\ job = [p \in Process |-> None]
  /\ requests = [p \in Process |-> Empty]
  /\ handed = Empty
  /\ answers = {} /\ results = {} /\ reports = {}
  /\ posted = {}
  /\ reply = [p \in Process |-> "none"]
  /\ spent = {} /\ unheard = {}
  /\ mishaps = {}

\* NewState: a file that is not there is fine, one that is not JSON is not,
\* and the command exits.  (verify ignores the error and panics.)
Loads(p) == pc[p] = "idle" /\ file.is \in {"absent", "json"}

With(map, id, value) == [i \in DOMAIN map \cup {id} |-> IF i = id THEN value ELSE map[i]]
Without(map, id) == [i \in DOMAIN map \ {id} |-> map[i]]

Starts(p, step, what, map) ==
  /\ pc' = [pc EXCEPT ![p] = step]
  /\ job' = [job EXCEPT ![p] = what]
  /\ requests' = [requests EXCEPT ![p] = map]

Exits(p) ==
  /\ pc' = [pc EXCEPT ![p] = "idle"]
  /\ job' = [job EXCEPT ![p] = None]
  /\ requests' = [requests EXCEPT ![p] = Empty]

-----------------------------------------------------------------------------
(* bv blind and bv unblind, the commands that write the file.              *)

Drawn == DOMAIN handed \cup DOMAIN file.of \cup UNION {DOMAIN requests[q] : q \in Process}

\* Mutant: the requests in the file are not loaded.
BlindAfresh(p, msg, id, r) ==
  /\ Loads(p)
  /\ id \notin Drawn
  /\ Starts(p, "save", [cmd |-> "blind", id |-> id],
            With(Empty, id, [factor |-> r, msg |-> msg]))
  /\ UNCHANGED <<file, answers, printed, server, mishaps>>

\* Client.Blind up to the save of State.Store.
Blind(p, msg, id, r) ==
  /\ Loads(p)
  /\ id \notin Drawn
  /\ Starts(p, "save", [cmd |-> "blind", id |-> id],
            With(file.of, id, [factor |-> r, msg |-> msg]))
  /\ UNCHANGED <<file, answers, printed, server, mishaps>>

\* Client.Unblind up to the save of State.Delete; an identifier that is not
\* there ends the command.
Unblind(p, id, sig) ==
  /\ Loads(p)
  /\ id \in DOMAIN file.of
  /\ Starts(p, "save",
            [cmd |-> "unblind", id |-> id, sig |-> sig,
             out |-> UnblindSignature(sig, file.of[id].factor)],
            Without(file.of, id))
  /\ UNCHANGED <<file, answers, printed, server, mishaps>>

\* Another process has loaded the file and is going to write it.
Overlaps(p) == \E q \in Process \ {p} : pc[q] \in {"save", "write"}

Truncate(p) ==
  /\ pc[p] = "save"
  /\ pc' = [pc EXCEPT ![p] = "write"]
  /\ file' = [is |-> "emptied", of |-> Empty]
  /\ mishaps' = IF Overlaps(p) THEN mishaps \cup {"overlap"} ELSE mishaps
  /\ UNCHANGED <<job, requests, answers, printed, server>>

\* What is there if another process has written since the truncation.
Write(p) ==
  /\ pc[p] = "write"
  /\ pc' = [pc EXCEPT ![p] = "print"]
  /\ \/ file' = [is |-> "json", of |-> requests[p]]
     \/ file.is # "emptied" /\ file' = [is |-> "torn", of |-> Empty]
  /\ UNCHANGED <<job, requests, answers, printed, server, mishaps>>

\* The save fails before the truncation or after it: blind exits with the
\* error, unblind ignores it.
SaveFails(p) ==
  /\ \/ pc[p] = "save" /\ UNCHANGED <<file, mishaps>>
     \/ /\ pc[p] = "write"
        /\ file' = [is |-> "torn", of |-> Empty]
        /\ mishaps' = mishaps \cup {"cut"}
  /\ IF job[p].cmd = "blind" THEN Exits(p)
     ELSE pc' = [pc EXCEPT ![p] = "print"] /\ UNCHANGED <<job, requests>>
  /\ UNCHANGED <<answers, printed, server>>

Output(p) ==
  /\ pc[p] = "print"
  /\ IF job[p].cmd = "blind"
       THEN /\ handed' = LET req == requests[p][job[p].id]
                         IN With(handed, job[p].id,
                              [msg |-> req.msg,
                               blinded |-> BlindMessage(Hash[req.msg], req.factor)])
            /\ UNCHANGED results
       ELSE /\ results' = results \cup {[id |-> job[p].id, sig |-> job[p].sig, out |-> job[p].out]}
            /\ UNCHANGED handed
  /\ Exits(p)
  /\ UNCHANGED <<file, answers, reports, server, mishaps>>

Credential(p) == [sig |-> job[p].sig, class |-> job[p].class]

Kill(p) ==
  /\ pc[p] # "idle"
  /\ mishaps' = mishaps \cup
       (IF pc[p] = "write" THEN {"cut"}
        ELSE IF pc[p] = "print" /\ job[p].cmd = "unblind" THEN {"unprinted"} ELSE {})
  /\ unheard' = IF pc[p] = "await" THEN unheard \cup {Credential(p)} ELSE unheard
  /\ Exits(p)
  /\ reply' = [reply EXCEPT ![p] = "none"]
  /\ UNCHANGED <<file, answers, printed, posted, spent>>

-----------------------------------------------------------------------------
(* Issue, and bv verify.                                                   *)

\* Mutant: DLEQProve's error is ignored.
IssueAnyway(id, class, t) ==
  LET blinded == handed[id].blinded
  IN /\ \A a \in answers : a.id # id
     /\ answers' = answers \cup
          {[id |-> id, class |-> class, sig |-> SignBlinded(blinded, Key[class]),
            pk |-> PubKey(Key[class]),
            proof |-> DLEQProve(Key[class], blinded, PubKey(Key[class]), t)]}
     /\ UNCHANGED <<file, local, printed, server, mishaps>>

\* CredentialService.Issue: an answer to what the user posted, if DLEQProve
\* does not fail.  One answer is asked for per request.
Issue(id, class, t) ==
  LET blinded == handed[id].blinded
      proof == DLEQProve(Key[class], blinded, PubKey(Key[class]), t)
  IN /\ \A a \in answers : a.id # id
     /\ proof # NoProof
     /\ answers' = answers \cup
          {[id |-> id, class |-> class, sig |-> SignBlinded(blinded, Key[class]),
            pk |-> PubKey(Key[class]), proof |-> proof]}
     /\ UNCHANGED <<file, local, printed, server, mishaps>>

\* What verify prints: the user pastes the point of one request, a signature,
\* and the key and proof of one answer.
Verifies(blinded, sig, a) == DLEQVerify(a.proof, blinded, sig, a.pk)

-----------------------------------------------------------------------------
(* bv redeem, and Consume as the client sees it.                           *)

\* NewClient loads the file for this command too.  The process's earlier
\* request is over before it posts another.
Redeem(p, res, class) ==
  /\ Loads(p)
  /\ \A req \in posted : req.by # p
  /\ Starts(p, "await", [cmd |-> "redeem", sig |-> res.out, class |-> class], Empty)
  /\ posted' = posted \cup
       {[by |-> p, sig |-> res.out, class |-> class, msg |-> handed[res.id].msg]}
  /\ UNCHANGED <<file, answers, printed, reply, spent, mishaps, unheard>>

\* Consume: an order refuses first, then the signature is checked, then the
\* nullifier is stored.  409 is the answer to the first and the last.
Verdict(req, revoked) ==
  IF revoked THEN "conflict"
  ELSE IF ~ VerifyPoint(req.sig, Hash[req.msg], PubKey(Key[req.class])) THEN "error"
  ELSE IF [sig |-> req.sig, class |-> req.class] \in spent THEN "conflict"
  ELSE "ok"

\* The answer reaches the process if it still waits, or is lost on the way.
Answered(req, answer) ==
  /\ posted' = posted \ {req}
  /\ \/ pc[req.by] = "await" /\ reply' = [reply EXCEPT ![req.by] = answer]
     \/ UNCHANGED reply
  /\ UNCHANGED <<file, local, answers, printed, mishaps, unheard>>

\* Mutant: the nullifier is stored before the signature is checked.
ConsumeStoresFirst(req, revoked) ==
  /\ spent' = IF revoked THEN spent
              ELSE spent \cup {[sig |-> req.sig, class |-> req.class]}
  /\ Answered(req, Verdict(req, revoked))

Consume(req, revoked) ==
  /\ spent' = IF Verdict(req, revoked) = "ok"
                THEN spent \cup {[sig |-> req.sig, class |-> req.class]} ELSE spent
  /\ Answered(req, Verdict(req, revoked))

\* Rate limited, unavailable, cancelled, or never arrived.
Decline(req) == UNCHANGED spent /\ Answered(req, "error")

\* Client.Redeem's reading of the status: 409 is "already redeemed", whatever
\* the server refused it for.
Receive(p) ==
  /\ pc[p] = "await" /\ reply[p] # "none"
  /\ reports' = IF reply[p] = "ok" THEN reports \cup {Credential(p)} ELSE reports
  /\ Exits(p)
  /\ reply' = [reply EXCEPT ![p] = "none"]
  /\ UNCHANGED <<file, answers, handed, results, posted, spent, mishaps, unheard>>

\* http.Client's 30 seconds are over.
TimeOut(p) ==
  /\ pc[p] = "await" /\ reply[p] = "none"
  /\ unheard' = unheard \cup {Credential(p)}
  /\ Exits(p)
  /\ UNCHANGED <<file, answers, printed, posted, reply, spent, mishaps>>

-----------------------------------------------------------------------------
WriterStep(p) == Truncate(p) \/ Write(p) \/ SaveFails(p) \/ Output(p)
RedeemStep(p) == Receive(p) \/ TimeOut(p)

Command(p) ==
  \/ \E msg \in Message, id \in RequestID, r \in Factor : Blind(p, msg, id, r)
  \/ \E id \in DOMAIN handed, a \in answers : Unblind(p, id, a.sig)
  \/ \E res \in results, class \in Class : Redeem(p, res, class)

Next ==
  \/ \E p \in Process : Command(p) \/ WriterStep(p) \/ RedeemStep(p) \/ Kill(p)
  \/ \E id \in DOMAIN handed, class \in Class, t \in Nonce : Issue(id, class, t)
  \/ \E req \in posted : Decline(req) \/ \E revoked \in BOOLEAN : Consume(req, revoked)

Spec == Init /\ [][Next]_vars

-----------------------------------------------------------------------------
(* Properties.                                                             *)

Requests(map) ==
  /\ DOMAIN map \subseteq RequestID
  /\ \A id \in DOMAIN map : map[id] \in [factor : Factor, msg : Message]

\* A command and what it was given or has worked out.
WriteJob == [cmd : {"blind"}, id : RequestID]
              \cup [cmd : {"unblind"}, id : RequestID, sig : Scalar, out : Scalar]
RedeemJob == [cmd : {"redeem"}, sig : Scalar, class : Class]

ASSUME NoneAssumption == None \notin WriteJob \cup RedeemJob

\* The type invariant.
TypeOK ==
  /\ file.is \in {"absent", "emptied", "torn", "json"} /\ Requests(file.of)
  /\ pc \in [Process -> {"idle", "save", "write", "print", "await"}]
  /\ job \in [Process -> WriteJob \cup RedeemJob \cup {None}]
  /\ \A p \in Process : job[p] = None <=> pc[p] = "idle"
  /\ DOMAIN requests = Process /\ \A p \in Process : Requests(requests[p])
  /\ DOMAIN handed \subseteq RequestID
  /\ \A id \in DOMAIN handed : handed[id] \in [msg : Message, blinded : Scalar]
  /\ answers \subseteq [id : RequestID, class : Class, sig : Scalar, pk : Scalar, proof : Proof]
  /\ results \subseteq [id : RequestID, sig : Scalar, out : Scalar]
  /\ reports \subseteq [sig : Scalar, class : Class]
  /\ posted \subseteq [by : Process, sig : Scalar, class : Class, msg : Message]
  /\ reply \in [Process -> {"none", "ok", "conflict", "error"}]
  /\ spent \subseteq [sig : Scalar, class : Class] /\ unheard \subseteq [sig : Scalar, class : Class]
  /\ mishaps \subseteq {"overlap", "cut", "unprinted"}

\* The request can be loaded again, now or when the save under way is over.
Kept(id) ==
  \/ file.is = "json" /\ id \in DOMAIN file.of
  \/ \E p \in Process : pc[p] = "write" /\ id \in DOMAIN requests[p]

\* The request has been unblinded, or an unblind that has loaded it will print.
Used(id) ==
  \/ \E res \in results : res.id = id
  \/ \E p \in Process : pc[p] \in {"write", "print"} /\ job[p].cmd = "unblind" /\ job[p].id = id

\* A blinding factor that blind has handed out for is lost only if two saves
\* overlapped, a save was cut short, or an unblind died before it printed
\* (state.go, Client.Unblind).
FactorsSurvive ==
  mishaps = {} => \A id \in DOMAIN handed : Kept(id) \/ Used(id)

\* What verify declared valid unblinds to a signature that the server's check
\* accepts, whatever points, signatures and proofs the user pasted together
\* (VerifyProof, Unblind, VerifyPoint).
ProvedUnblinds ==
  \A a \in answers : \A res \in results :
    Verifies(handed[res.id].blinded, res.sig, a) =>
      VerifyPoint(res.out, Hash[handed[res.id].msg], a.pk)

\* For the point an answer was issued for, verify accepts the answer's proof
\* with the answer's signature and with no other (DLEQProve, DLEQVerify).
ProofsDecide ==
  \A a, b \in answers :
    Verifies(handed[a.id].blinded, b.sig, a) <=> b.sig = a.sig

\* A spent credential's user has been told that it was redeemed, is about to
\* be, or was left without an answer by a call that ended too soon
\* (Client.Redeem).
SpentIsTold ==
  \A c \in spent :
    \/ c \in reports
    \/ \E p \in Process : pc[p] = "await" /\ Credential(p) = c
    \/ c \in unheard
=============================================================================
