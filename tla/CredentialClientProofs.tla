----------------------- MODULE CredentialClientProofs -----------------------
(***************************************************************************)
(* Theorems about CredentialClient, for any processes, requests, messages, *)
(* keys and field: its types, which mishaps lose a blinding factor, what a *)
(* valid proof and a success are worth, where what is spent came from, and *)
(* when a spent credential's user does not know.                           *)
(*                                                                         *)
(* Commands says what the steps of a command know of each other and what   *)
(* an answer is made of, Undisturbed how the copies relate to the file as  *)
(* long as nothing has befallen it, Agreed that all copies of a request    *)
(* hold one factor, Wire where a redemption stands between the process and *)
(* the server, Told what a success on its way is worth, and Traced where   *)
(* everything that is spent came from.                                     *)
(***************************************************************************)
EXTENDS CredentialClient, BlindSignaturesProofs

Saving == {"save", "write", "print"}
Blinds(p) == pc[p] \in Saving /\ job[p].cmd = "blind"

JobOK(p) ==
  /\ pc[p] \in Saving => job[p] \in WriteJob
  /\ pc[p] = "await" => job[p] \in RedeemJob
  /\ Blinds(p) => job[p].id \in DOMAIN requests[p] \ DOMAIN handed
  /\ pc[p] \in Saving /\ ~ Blinds(p) => job[p].id \in DOMAIN handed

\* No two processes blind under one identifier.
Apart == \A p, q \in Process : Blinds(p) /\ Blinds(q) /\ job[p].id = job[q].id => p = q

\* An answer is Issue's to what was posted under its identifier.
AnswerOK(a) ==
  /\ a.id \in DOMAIN handed
  /\ a.sig = SignBlinded(handed[a.id].blinded, Key[a.class]) /\ a.pk = PubKey(Key[a.class])
  /\ \E t \in Nonce : a.proof = DLEQProve(Key[a.class], handed[a.id].blinded, a.pk, t)

Commands ==
  /\ \A p \in Process : JobOK(p)
  /\ Apart
  /\ \A res \in results : res.id \in DOMAIN handed
  /\ \A a \in answers : AnswerOK(a)

-----------------------------------------------------------------------------
(* The maps of requests, and what the engine returns.                      *)

\* A request is stored under its identifier and nothing else changes.
LEMMA WithFacts ==
  ASSUME NEW map, NEW id, NEW value
  PROVE  /\ DOMAIN With(map, id, value) = DOMAIN map \cup {id}
         /\ With(map, id, value)[id] = value
         /\ \A i \in DOMAIN map \ {id} : With(map, id, value)[i] = map[i]
  BY DEF With

\* Storing and deleting keep a map of requests one.
LEMMA RequestsKept ==
  ASSUME NEW map, Requests(map), NEW id \in RequestID, NEW r \in Factor, NEW msg \in Message
  PROVE  /\ Requests(Empty)
         /\ Requests(With(map, id, [factor |-> r, msg |-> msg]))
         /\ Requests(Without(map, id))
  <1>1. Requests(Empty)
    BY DEF Requests, Empty
  <1>2. Requests(With(map, id, [factor |-> r, msg |-> msg]))
    BY WithFacts DEF Requests, With
  <1>3. Requests(Without(map, id))
    BY DEF Requests, Without
  <1> QED BY <1>1, <1>2, <1>3

\* What is drawn, hashed and derived is a scalar other than zero.
LEMMA Draws ==
  /\ Factor \subseteq NonZero /\ Nonce \subseteq NonZero /\ NonZero \subseteq Scalar
  /\ \A m \in Message : Hash[m] \in NonZero
  /\ \A k \in Class : Key[k] \in NonZero
  BY DrawsAssumption DEF NonZero

\* The engine's results are scalars and proofs.
LEMMA EngineTypes ==
  ASSUME NEW a \in Scalar, NEW b \in Scalar, NEW r \in NonZero, NEW t \in Scalar
  PROVE  /\ BlindMessage(a, b) \in Scalar /\ SignBlinded(a, b) \in Scalar
         /\ UnblindSignature(a, r) \in Scalar /\ PubKey(b) \in Scalar
         /\ DLEQProve(b, a, PubKey(b), t) \in Proof \cup {NoProof}
  <1>1. Times(a, b) \in Scalar /\ Times(a, Inverse(r)) \in Scalar /\ Times(a, t) \in Scalar
    BY FieldAssumption DEF NonZero
  <1>2. computeChallenge(t, Times(a, t), b, a, Times(a, b)) \in Scalar
    BY <1>1, HashAssumption DEF computeChallenge
  <1>3. Plus(t, Times(computeChallenge(t, Times(a, t), b, a, Times(a, b)), b)) \in Scalar
    BY <1>2, FieldAssumption
  <1>4. DLEQProve(b, a, PubKey(b), t) \in Proof \cup {NoProof}
    BY <1>1, <1>2, <1>3 DEF DLEQProve, PubKey, Proof
  <1> QED BY <1>1, <1>4 DEF BlindMessage, SignBlinded, UnblindSignature, PubKey

-----------------------------------------------------------------------------
(* Types.                                                                  *)

\* A command that starts has a job of its kind and a map of requests.
LEMMA TypeStarts ==
  ASSUME TypeOK, NEW p \in Process, NEW step, NEW what, NEW map, Starts(p, step, what, map),
         step \in {"save", "write", "print", "await"}, what \in WriteJob \cup RedeemJob,
         Requests(map)
  PROVE  /\ pc' \in [Process -> {"idle", "save", "write", "print", "await"}]
         /\ job' \in [Process -> WriteJob \cup RedeemJob \cup {None}]
         /\ \A q \in Process : job'[q] = None <=> pc'[q] = "idle"
         /\ DOMAIN requests' = Process /\ \A q \in Process : Requests(requests'[q])
  BY NoneAssumption DEF TypeOK, Starts

\* A command that is over leaves its process as it was before it.
LEMMA TypeExits ==
  ASSUME TypeOK, NEW p \in Process, Exits(p)
  PROVE  /\ pc' \in [Process -> {"idle", "save", "write", "print", "await"}]
         /\ job' \in [Process -> WriteJob \cup RedeemJob \cup {None}]
         /\ \A q \in Process : job'[q] = None <=> pc'[q] = "idle"
         /\ DOMAIN requests' = Process /\ \A q \in Process : Requests(requests'[q])
  <1>1. Requests(Empty)
    BY DEF Requests, Empty
  <1> QED BY <1>1 DEF TypeOK, Exits

\* A process that goes on keeps its job and its copy.
LEMMA TypeGoesOn ==
  ASSUME TypeOK, NEW p \in Process, NEW step, pc[p] # "idle",
         step \in {"save", "write", "print", "await"},
         pc' = [pc EXCEPT ![p] = step], UNCHANGED <<job, requests>>
  PROVE  /\ pc' \in [Process -> {"idle", "save", "write", "print", "await"}]
         /\ job' \in [Process -> WriteJob \cup RedeemJob \cup {None}]
         /\ \A q \in Process : job'[q] = None <=> pc'[q] = "idle"
         /\ DOMAIN requests' = Process /\ \A q \in Process : Requests(requests'[q])
  BY DEF TypeOK

\* The commands that write the file keep the types.
LEMMA TypeWriter ==
  ASSUME TypeOK, Commands, NEW p \in Process,
         \/ \E msg \in Message, id \in RequestID, r \in Factor : Blind(p, msg, id, r)
         \/ \E id \in DOMAIN handed, a \in answers : Unblind(p, id, a.sig)
         \/ WriterStep(p)
  PROVE  TypeOK'
  <1> USE DEF server, printed, local
  <1>1. CASE \E msg \in Message, id \in RequestID, r \in Factor : Blind(p, msg, id, r)
    <2>1. PICK msg \in Message, id \in RequestID, r \in Factor : Blind(p, msg, id, r)
      BY <1>1
    <2>2. Requests(With(file.of, id, [factor |-> r, msg |-> msg]))
      BY RequestsKept DEF TypeOK
    <2>3. [cmd |-> "blind", id |-> id] \in WriteJob
      BY DEF WriteJob
    <2>4. Starts(p, "save", [cmd |-> "blind", id |-> id],
                 With(file.of, id, [factor |-> r, msg |-> msg]))
      BY <2>1 DEF Blind
    <2> QED BY <2>1, <2>2, <2>3, <2>4, TypeStarts DEF Blind, TypeOK
  <1>2. CASE \E id \in DOMAIN handed, a \in answers : Unblind(p, id, a.sig)
    <2>1. PICK id \in DOMAIN handed, a \in answers : Unblind(p, id, a.sig)
      BY <1>2
    <2>2. Requests(Without(file.of, id))
      BY DEF TypeOK, Requests, Without
    <2>3. file.of[id].factor \in NonZero
      BY <2>1, Draws DEF Unblind, TypeOK, Requests
    <2>4. a.sig \in Scalar /\ id \in RequestID
      BY DEF TypeOK
    <2>5. UnblindSignature(a.sig, file.of[id].factor) \in Scalar
      BY <2>3, <2>4, EngineTypes
    <2>6. [cmd |-> "unblind", id |-> id, sig |-> a.sig,
           out |-> UnblindSignature(a.sig, file.of[id].factor)] \in WriteJob
      BY <2>4, <2>5 DEF WriteJob
    <2>7. Starts(p, "save",
                 [cmd |-> "unblind", id |-> id, sig |-> a.sig,
                  out |-> UnblindSignature(a.sig, file.of[id].factor)],
                 Without(file.of, id))
      BY <2>1 DEF Unblind
    <2> QED BY <2>1, <2>2, <2>6, <2>7, TypeStarts DEF Unblind, TypeOK
  <1>3. CASE Truncate(p)
    <2>1. Requests(Empty)
      BY DEF Requests, Empty
    <2>2. mishaps' \subseteq {"overlap", "cut", "unprinted"}
      BY <1>3 DEF Truncate, TypeOK
    <2> QED BY <1>3, <2>1, <2>2, TypeGoesOn DEF Truncate, TypeOK
  <1>4. CASE Write(p)
    <2>1. Requests(Empty)
      BY DEF Requests, Empty
    <2>2. file'.is \in {"json", "torn"} /\ Requests(file'.of)
      BY <1>4, <2>1 DEF Write, TypeOK
    <2> QED BY <1>4, <2>2, TypeGoesOn DEF Write, TypeOK
  <1>5. CASE SaveFails(p)
    <2>1. Requests(Empty)
      BY DEF Requests, Empty
    <2>2. /\ file'.is \in {"absent", "emptied", "torn", "json"} /\ Requests(file'.of)
          /\ mishaps' \subseteq {"overlap", "cut", "unprinted"}
      BY <1>5, <2>1 DEF SaveFails, TypeOK
    <2>3. CASE Exits(p)
      BY <1>5, <2>2, <2>3, TypeExits DEF SaveFails, TypeOK
    <2>4. CASE pc' = [pc EXCEPT ![p] = "print"] /\ UNCHANGED <<job, requests>>
      BY <1>5, <2>2, <2>4, TypeGoesOn DEF SaveFails, TypeOK
    <2> QED BY <1>5, <2>3, <2>4 DEF SaveFails
  <1>6. CASE Output(p)
    <2>1. pc[p] = "print" /\ job[p] \in WriteJob
      BY <1>6 DEF Output, Commands, JobOK, Saving
    <2>2. /\ DOMAIN handed' \subseteq RequestID
          /\ \A id \in DOMAIN handed' : handed'[id] \in [msg : Message, blinded : Scalar]
      <3>1. CASE job[p].cmd = "blind"
        <4> DEFINE req == requests[p][job[p].id]
                   out == [msg |-> req.msg, blinded |-> BlindMessage(Hash[req.msg], req.factor)]
        <4>1. req \in [factor : Factor, msg : Message] /\ job[p].id \in RequestID
          BY <2>1, <3>1 DEF Commands, JobOK, Blinds, Saving, TypeOK, Requests
        <4>2. Hash[req.msg] \in NonZero /\ Hash[req.msg] \in Scalar /\ req.factor \in Scalar
          BY <4>1, Draws
        <4>3. BlindMessage(Hash[req.msg], req.factor) \in Scalar
          BY <4>2, FieldAssumption DEF BlindMessage
        <4>4. out \in [msg : Message, blinded : Scalar]
          BY <4>1, <4>3
        <4>5. handed' = With(handed, job[p].id, out)
          BY <1>6, <3>1 DEF Output
        <4> HIDE DEF out, req
        <4> QED BY <4>1, <4>4, <4>5, WithFacts DEF TypeOK, With
      <3>2. CASE job[p].cmd # "blind"
        BY <1>6, <3>2 DEF Output, TypeOK
      <3> QED BY <3>1, <3>2
    <2>3. results' \subseteq [id : RequestID, sig : Scalar, out : Scalar]
      <3>1. CASE job[p].cmd = "blind"
        BY <1>6, <3>1 DEF Output, TypeOK
      <3>2. CASE job[p].cmd # "blind"
        <4>1. job[p] \in [cmd : {"unblind"}, id : RequestID, sig : Scalar, out : Scalar]
          BY <2>1, <3>2 DEF WriteJob
        <4>2. results' = results \cup {[id |-> job[p].id, sig |-> job[p].sig, out |-> job[p].out]}
          BY <1>6, <3>2 DEF Output
        <4> QED BY <4>1, <4>2 DEF TypeOK
      <3> QED BY <3>1, <3>2
    <2>4. Exits(p)
      BY <1>6 DEF Output
    <2> QED BY <1>6, <2>2, <2>3, <2>4, TypeExits DEF Output, TypeOK
  <1> QED BY <1>1, <1>2, <1>3, <1>4, <1>5, <1>6 DEF WriterStep

\* What a waiting process redeems is a signature and a class.
LEMMA CredentialTypes ==
  ASSUME Commands, NEW p \in Process, pc[p] = "await"
  PROVE  Credential(p) \in [sig : Scalar, class : Class]
  BY DEF Commands, JobOK, RedeemJob, Credential

\* Redemptions, kills and the server keep the types.
LEMMA TypeOthers ==
  ASSUME TypeOK, Commands,
         \/ \E p \in Process, res \in results, class \in Class : Redeem(p, res, class)
         \/ \E p \in Process : RedeemStep(p) \/ Kill(p)
         \/ \E id \in DOMAIN handed, class \in Class, t \in Nonce : Issue(id, class, t)
         \/ \E req \in posted : Decline(req) \/ \E revoked \in BOOLEAN : Consume(req, revoked)
  PROVE  TypeOK'
  <1> USE DEF server, printed, local
  <1>1. CASE \E p \in Process, res \in results, class \in Class : Redeem(p, res, class)
    <2>1. PICK p \in Process, res \in results, class \in Class : Redeem(p, res, class)
      BY <1>1
    <2>2. res.id \in DOMAIN handed /\ res.out \in Scalar
      BY DEF Commands, TypeOK
    <2>3. handed[res.id].msg \in Message
      BY <2>2 DEF TypeOK
    <2>4. Requests(Empty)
      BY DEF Requests, Empty
    <2>5. [cmd |-> "redeem", sig |-> res.out, class |-> class] \in RedeemJob
      BY <2>2 DEF RedeemJob
    <2>6. Starts(p, "await", [cmd |-> "redeem", sig |-> res.out, class |-> class], Empty)
      BY <2>1 DEF Redeem
    <2>7. posted' \subseteq [by : Process, sig : Scalar, class : Class, msg : Message]
      BY <2>1, <2>2, <2>3 DEF Redeem, TypeOK
    <2> QED BY <2>1, <2>4, <2>5, <2>6, <2>7, TypeStarts DEF Redeem, TypeOK
  <1>2. ASSUME NEW p \in Process, Receive(p) PROVE TypeOK'
    <2>1. Credential(p) \in [sig : Scalar, class : Class]
      BY <1>2, CredentialTypes DEF Receive
    <2>2. reports' \subseteq [sig : Scalar, class : Class]
      BY <1>2, <2>1 DEF Receive, TypeOK
    <2> QED BY <1>2, <2>2, TypeExits DEF Receive, TypeOK
  <1>3. ASSUME NEW p \in Process, TimeOut(p) PROVE TypeOK'
    <2>1. Credential(p) \in [sig : Scalar, class : Class]
      BY <1>3, CredentialTypes DEF TimeOut
    <2>2. unheard' \subseteq [sig : Scalar, class : Class]
      BY <1>3, <2>1 DEF TimeOut, TypeOK
    <2> QED BY <1>3, <2>2, TypeExits DEF TimeOut, TypeOK
  <1>4. ASSUME NEW p \in Process, Kill(p) PROVE TypeOK'
    <2>1. unheard' \subseteq [sig : Scalar, class : Class]
      BY <1>4, CredentialTypes DEF Kill, TypeOK
    <2>2. mishaps' \subseteq {"overlap", "cut", "unprinted"}
      BY <1>4 DEF Kill, TypeOK
    <2> QED BY <1>4, <2>1, <2>2, TypeExits DEF Kill, TypeOK
  <1>5. CASE \E id \in DOMAIN handed, class \in Class, t \in Nonce : Issue(id, class, t)
    <2>1. PICK id \in DOMAIN handed, class \in Class, t \in Nonce : Issue(id, class, t)
      BY <1>5
    <2> DEFINE blinded == handed[id].blinded
               proof == DLEQProve(Key[class], blinded, PubKey(Key[class]), t)
    <2>2. blinded \in Scalar /\ Key[class] \in Scalar /\ Key[class] \in NonZero /\ t \in Scalar
      BY Draws DEF TypeOK
    <2>3. /\ SignBlinded(blinded, Key[class]) \in Scalar /\ PubKey(Key[class]) \in Scalar
          /\ proof \in Proof \cup {NoProof}
      BY <2>2, EngineTypes
    <2>4. /\ proof # NoProof
          /\ answers' = answers \cup
               {[id |-> id, class |-> class, sig |-> SignBlinded(blinded, Key[class]),
                 pk |-> PubKey(Key[class]), proof |-> proof]}
      BY <2>1 DEF Issue
    <2>5. id \in RequestID
      BY DEF TypeOK
    <2> HIDE DEF proof, blinded
    <2>6. answers' \subseteq [id : RequestID, class : Class, sig : Scalar, pk : Scalar, proof : Proof]
      BY <2>3, <2>4, <2>5 DEF TypeOK
    <2> QED BY <2>1, <2>6 DEF Issue, TypeOK
  <1>6. ASSUME NEW req \in posted,
               Decline(req) \/ \E revoked \in BOOLEAN : Consume(req, revoked)
        PROVE  TypeOK'
    <2>1. req \in [by : Process, sig : Scalar, class : Class, msg : Message]
      BY DEF TypeOK
    <2>2. spent' \subseteq [sig : Scalar, class : Class]
      BY <1>6, <2>1 DEF Decline, Consume, TypeOK
    <2>3. PICK answer \in {"none", "ok", "conflict", "error"} : Answered(req, answer)
      BY <1>6 DEF Decline, Consume, Verdict
    <2>4. reply' \in [Process -> {"none", "ok", "conflict", "error"}]
      BY <2>1, <2>3 DEF Answered, TypeOK
    <2> QED BY <2>2, <2>3, <2>4 DEF Answered, TypeOK
  <1> QED BY <1>1, <1>2, <1>3, <1>4, <1>5, <1>6 DEF RedeemStep

\* Every step keeps the types.
LEMMA TypeStep ==
  ASSUME TypeOK, Commands, [Next]_vars
  PROVE  TypeOK'
  <1>1. CASE UNCHANGED vars
    BY <1>1 DEF vars, local, server, printed, TypeOK
  <1> QED BY <1>1, TypeWriter, TypeOthers DEF Next, Command

-----------------------------------------------------------------------------
(* Commands.                                                               *)

\* Every other process stays as it is.
OnlyMoves(p) ==
  \A q \in Process \ {p} : pc'[q] = pc[q] /\ job'[q] = job[q] /\ requests'[q] = requests[q]

\* A process that starts, ends or goes on leaves the others as they are.
LEMMA Moves ==
  ASSUME TypeOK, NEW p \in Process
  PROVE  /\ \A step, what, map : Starts(p, step, what, map) =>
               /\ OnlyMoves(p)
               /\ pc'[p] = step /\ job'[p] = what /\ requests'[p] = map
         /\ Exits(p) =>
              /\ OnlyMoves(p)
              /\ pc'[p] = "idle" /\ job'[p] = None /\ requests'[p] = Empty
         /\ \A step : pc' = [pc EXCEPT ![p] = step] /\ UNCHANGED <<job, requests>> =>
               /\ OnlyMoves(p)
               /\ pc'[p] = step /\ job'[p] = job[p] /\ requests'[p] = requests[p]
  BY DEF TypeOK, Starts, Exits, OnlyMoves

\* A step of one process that prints and issues nothing keeps Commands if its
\* own job is right and it blinds under an identifier of its own.
LEMMA CommandsMoved ==
  ASSUME Commands, NEW p \in Process, OnlyMoves(p), UNCHANGED <<handed, results, answers>>,
         JobOK(p)',
         Blinds(p)' => \A q \in Process \ {p} : Blinds(q) => job[q].id # job'[p].id
  PROVE  Commands'
  <1>1. ASSUME NEW q \in Process PROVE JobOK(q)'
    <2>1. CASE q = p
      BY <2>1
    <2>2. CASE q # p
      BY <2>2 DEF OnlyMoves, Commands, JobOK, Blinds
    <2> QED BY <2>1, <2>2
  <1>2. Apart'
    <2> SUFFICES ASSUME NEW q \in Process, NEW s \in Process, Blinds(q)', Blinds(s)',
                        job'[q].id = job'[s].id
                 PROVE  q = s
      BY DEF Apart
    <2>1. CASE q # p /\ s # p
      BY <2>1 DEF OnlyMoves, Commands, Apart, Blinds
    <2>2. CASE q = p /\ s # p
      BY <2>2 DEF OnlyMoves, Blinds
    <2>3. CASE q # p /\ s = p
      BY <2>3 DEF OnlyMoves, Blinds
    <2> QED BY <2>1, <2>2, <2>3
  <1>3. \A a \in answers' : AnswerOK(a)'
    BY DEF Commands, AnswerOK
  <1> QED BY <1>1, <1>2, <1>3 DEF Commands

\* Nothing that a process holds is drawn again (generateID).
LEMMA FreshID ==
  ASSUME Commands, NEW id, id \notin Drawn
  PROVE  id \notin DOMAIN handed /\ \A q \in Process : Blinds(q) => job[q].id # id
  BY DEF Commands, JobOK, Drawn

\* Output hands a request out under an identifier that had none, so that the
\* others and the answers that are there are as right as before.
LEMMA CommandsOutput ==
  ASSUME TypeOK, Commands, NEW p \in Process, Output(p)
  PROVE  Commands'
  <1>1. OnlyMoves(p) /\ pc'[p] = "idle"
    BY Moves DEF Output
  <1>2. pc[p] \in Saving /\ answers' = answers
    BY DEF Output, Saving
  <1>3. JobOK(p)'
    BY <1>1 DEF JobOK, Blinds, Saving
  <1>4. CASE job[p].cmd = "blind"
    <2>1. Blinds(p)
      BY <1>2, <1>4 DEF Blinds
    <2>2. job[p].id \notin DOMAIN handed
      BY <2>1 DEF Commands, JobOK
    <2>3. PICK out : handed' = With(handed, job[p].id, out)
      BY <1>4 DEF Output
    <2>4. /\ DOMAIN handed' = DOMAIN handed \cup {job[p].id}
          /\ \A id \in DOMAIN handed : handed'[id] = handed[id]
      BY <2>2, <2>3 DEF With
    <2>5. ASSUME NEW q \in Process \ {p} PROVE JobOK(q)'
      <3>1. Blinds(q) => job[q].id # job[p].id
        BY <2>1 DEF Commands, Apart
      <3> QED BY <1>1, <2>4, <3>1 DEF OnlyMoves, Commands, JobOK, Blinds
    <2>6. Apart'
      BY <1>1 DEF OnlyMoves, Commands, Apart, Blinds, Saving
    <2>7. \A res \in results' : res.id \in DOMAIN handed'
      BY <1>4, <2>4 DEF Output, Commands
    <2>8. \A a \in answers' : AnswerOK(a)'
      BY <1>2, <2>4 DEF Commands, AnswerOK
    <2> QED BY <1>3, <2>5, <2>6, <2>7, <2>8 DEF Commands
  <1>5. CASE job[p].cmd # "blind"
    <2>1. handed' = handed /\ job[p].id \in DOMAIN handed
      BY <1>2, <1>5 DEF Output, Commands, JobOK, Blinds
    <2>2. \A res \in results' : res.id \in DOMAIN handed'
      BY <1>5, <2>1 DEF Output, Commands
    <2>3. ASSUME NEW q \in Process \ {p} PROVE JobOK(q)'
      BY <1>1, <2>1 DEF OnlyMoves, Commands, JobOK, Blinds
    <2>4. Apart'
      BY <1>1 DEF OnlyMoves, Commands, Apart, Blinds, Saving
    <2>5. \A a \in answers' : AnswerOK(a)'
      BY <1>2, <2>1 DEF Commands, AnswerOK
    <2> QED BY <1>3, <2>2, <2>3, <2>4, <2>5 DEF Commands
  <1> QED BY <1>4, <1>5

\* Every step keeps what commands know of each other.
LEMMA CommandsStep ==
  ASSUME TypeOK, Commands, [Next]_vars
  PROVE  Commands'
  <1> USE DEF server, printed, local
  <1>1. ASSUME NEW p \in Process, NEW msg \in Message, NEW id \in RequestID, NEW r \in Factor,
               Blind(p, msg, id, r)
        PROVE  Commands'
    <2> DEFINE map == With(file.of, id, [factor |-> r, msg |-> msg])
    <2>1. /\ OnlyMoves(p) /\ pc'[p] = "save" /\ job'[p] = [cmd |-> "blind", id |-> id]
          /\ requests'[p] = map
      BY <1>1, Moves DEF Blind
    <2>2. id \in DOMAIN map
      BY DEF With
    <2>3. id \notin DOMAIN handed /\ \A q \in Process : Blinds(q) => job[q].id # id
      BY <1>1, FreshID DEF Blind
    <2>4. UNCHANGED <<handed, results, answers>>
      BY <1>1 DEF Blind
    <2> HIDE DEF map
    <2>5. job'[p] \in WriteJob /\ job'[p].id = id
      BY <2>1 DEF WriteJob
    <2>6. JobOK(p)'
      BY <2>1, <2>2, <2>3, <2>4, <2>5 DEF JobOK, Blinds, Saving
    <2> QED BY <2>1, <2>3, <2>4, <2>5, <2>6, CommandsMoved
  <1>2. ASSUME NEW p \in Process, NEW id \in DOMAIN handed, NEW a \in answers,
               Unblind(p, id, a.sig)
        PROVE  Commands'
    <2> DEFINE out == UnblindSignature(a.sig, file.of[id].factor)
               what == [cmd |-> "unblind", id |-> id, sig |-> a.sig, out |-> out]
    <2>1. OnlyMoves(p) /\ pc'[p] = "save" /\ job'[p] = what
      BY <1>2, Moves DEF Unblind
    <2>2. UNCHANGED <<handed, results, answers>>
      BY <1>2 DEF Unblind
    <2>3. file.of[id].factor \in NonZero /\ a.sig \in Scalar /\ id \in RequestID
      BY <1>2, Draws DEF Unblind, TypeOK, Requests
    <2>4. out \in Scalar
      BY <2>3, EngineTypes
    <2> HIDE DEF out
    <2>5. what \in WriteJob /\ what.cmd = "unblind" /\ what.id = id
      BY <2>3, <2>4 DEF WriteJob
    <2> HIDE DEF what
    <2>6. JobOK(p)'
      BY <2>1, <2>2, <2>5 DEF JobOK, Blinds, Saving
    <2> QED BY <2>1, <2>2, <2>5, <2>6, CommandsMoved DEF Blinds
  <1>3. ASSUME NEW p \in Process, Truncate(p) \/ Write(p) PROVE Commands'
    <2>1. /\ OnlyMoves(p) /\ pc[p] \in Saving /\ pc'[p] \in Saving
          /\ job'[p] = job[p] /\ requests'[p] = requests[p]
          /\ UNCHANGED <<handed, results, answers>>
      BY <1>3, Moves DEF Truncate, Write, Saving
    <2>2. JobOK(p)'
      BY <2>1 DEF Commands, JobOK, Blinds, Saving
    <2> QED BY <2>1, <2>2, CommandsMoved DEF Blinds, Commands, Apart
  <1>4. ASSUME NEW p \in Process, SaveFails(p) PROVE Commands'
    <2>1. CASE Exits(p)
      <3>1. OnlyMoves(p) /\ pc'[p] = "idle" /\ UNCHANGED <<handed, results, answers>>
        BY <1>4, <2>1, Moves DEF SaveFails
      <3> QED BY <3>1, CommandsMoved DEF JobOK, Blinds, Saving
    <2>2. CASE pc' = [pc EXCEPT ![p] = "print"] /\ UNCHANGED <<job, requests>>
      <3>1. /\ OnlyMoves(p) /\ pc[p] \in Saving /\ pc'[p] \in Saving
            /\ job'[p] = job[p] /\ requests'[p] = requests[p]
            /\ UNCHANGED <<handed, results, answers>>
        BY <1>4, <2>2, Moves DEF SaveFails, Saving
      <3>2. JobOK(p)'
        BY <3>1 DEF Commands, JobOK, Blinds, Saving
      <3> QED BY <3>1, <3>2, CommandsMoved DEF Blinds, Commands, Apart
    <2> QED BY <1>4, <2>1, <2>2 DEF SaveFails
  <1>5. ASSUME NEW p \in Process, Kill(p) \/ RedeemStep(p) PROVE Commands'
    <2>1. OnlyMoves(p) /\ pc'[p] = "idle" /\ UNCHANGED <<handed, results, answers>>
      BY <1>5, Moves DEF Kill, RedeemStep, Receive, TimeOut
    <2> QED BY <2>1, CommandsMoved DEF JobOK, Blinds, Saving
  <1>6. ASSUME NEW p \in Process, NEW res \in results, NEW class \in Class,
               Redeem(p, res, class)
        PROVE  Commands'
    <2>1. /\ OnlyMoves(p) /\ pc'[p] = "await"
          /\ job'[p] = [cmd |-> "redeem", sig |-> res.out, class |-> class]
      BY <1>6, Moves DEF Redeem
    <2>2. UNCHANGED <<handed, results, answers>>
      BY <1>6 DEF Redeem
    <2>3. job'[p] \in RedeemJob
      BY <2>1 DEF RedeemJob, TypeOK
    <2>4. JobOK(p)' /\ ~ Blinds(p)'
      BY <2>1, <2>3 DEF JobOK, Blinds, Saving
    <2> QED BY <2>1, <2>2, <2>4, CommandsMoved
  <1>7. ASSUME NEW id \in DOMAIN handed, NEW class \in Class, NEW t \in Nonce,
               Issue(id, class, t)
        PROVE  Commands'
    <2> DEFINE blinded == handed[id].blinded
               proof == DLEQProve(Key[class], blinded, PubKey(Key[class]), t)
               new == [id |-> id, class |-> class, sig |-> SignBlinded(blinded, Key[class]),
                       pk |-> PubKey(Key[class]), proof |-> proof]
    <2>1. answers' = answers \cup {new}
      BY <1>7 DEF Issue
    <2>2. UNCHANGED <<handed, results, pc, job, requests>>
      BY <1>7 DEF Issue
    <2>3. AnswerOK(new)
      BY DEF AnswerOK
    <2> HIDE DEF new
    <2>4. \A a \in answers' : AnswerOK(a)'
      BY <2>1, <2>2, <2>3 DEF Commands, AnswerOK
    <2> QED BY <2>2, <2>4 DEF Commands, Apart, JobOK, Blinds
  <1>8. ASSUME NEW req \in posted,
               Decline(req) \/ \E revoked \in BOOLEAN : Consume(req, revoked)
        PROVE  Commands'
    <2>1. UNCHANGED <<handed, results, answers, pc, job, requests>>
      BY <1>8 DEF Decline, Consume, Answered
    <2> QED BY <2>1 DEF Commands, Apart, JobOK, Blinds, AnswerOK
  <1>9. CASE UNCHANGED vars
    BY <1>9 DEF vars, Commands, Apart, JobOK, Blinds, AnswerOK
  <1> QED BY <1>1, <1>2, <1>3, <1>4, <1>5, <1>6, <1>7, <1>8, <1>9, CommandsOutput
          DEF Next, Command, WriterStep

-----------------------------------------------------------------------------
(* The file.                                                               *)

\* A process between loading and saving holds all that the file holds, less
\* what it unblinds; one that is saving has the file to itself.
CopyOK(p) ==
  /\ pc[p] = "write" =>
       file.is = "emptied" /\ \A q \in Process \ {p} : pc[q] \notin {"save", "write"}
  /\ pc[p] = "save" /\ job[p].cmd = "blind" => DOMAIN file.of \subseteq DOMAIN requests[p]
  /\ pc[p] = "save" /\ job[p].cmd # "blind" =>
       DOMAIN file.of \subseteq DOMAIN requests[p] \cup {job[p].id}

\* The point has been printed, or is about to be.
Promised(id) ==
  \/ id \in DOMAIN handed
  \/ \E p \in Process : pc[p] = "print" /\ job[p].cmd = "blind" /\ job[p].id = id

Undisturbed ==
  mishaps = {} =>
    /\ \A p \in Process : CopyOK(p)
    /\ \A id \in RequestID : Promised(id) => Kept(id) \/ Used(id)

\* A step that touches neither the file nor a process that writes it keeps
\* Undisturbed.
LEMMA Aside ==
  ASSUME Undisturbed, UNCHANGED <<file, handed, results>>, mishaps \subseteq mishaps',
         \A p \in Process :
           IF pc[p] \in Saving \/ pc'[p] \in Saving
             THEN pc'[p] = pc[p] /\ job'[p] = job[p] /\ requests'[p] = requests[p] ELSE TRUE
  PROVE  Undisturbed'
  <1> SUFFICES ASSUME mishaps' = {}
               PROVE  /\ \A p \in Process : CopyOK(p)'
                      /\ \A id \in RequestID : Promised(id)' => Kept(id)' \/ Used(id)'
    BY DEF Undisturbed
  <1>1. mishaps = {}
    OBVIOUS
  <1>2. ASSUME NEW p \in Process PROVE CopyOK(p)'
    BY <1>1 DEF Undisturbed, CopyOK, Saving
  <1>3. ASSUME NEW id \in RequestID, Promised(id)' PROVE Kept(id)' \/ Used(id)'
    <2>1. Promised(id)
      BY <1>3 DEF Promised, Saving
    <2>2. CASE Kept(id)
      BY <2>2 DEF Kept, Saving
    <2>3. CASE Used(id)
      BY <2>3 DEF Used, Saving
    <2> QED BY <1>1, <2>1, <2>2, <2>3 DEF Undisturbed
  <1> QED BY <1>2, <1>3

\* What is kept or used stays so as long as the file and the processes that
\* write it stay as they are, whatever else prints or starts.
LEMMA StaysKept ==
  ASSUME NEW p \in Process, OnlyMoves(p), file' = file, results \subseteq results',
         pc[p] # "write", NEW id,
         \/ Kept(id)
         \/ Used(id) /\ (pc[p] = "print" /\ job[p].cmd = "unblind" /\ job[p].id = id =>
                           Used(id)')
  PROVE  Kept(id)' \/ Used(id)'
  <1>1. CASE Kept(id)
    BY <1>1 DEF Kept, OnlyMoves
  <1>2. CASE Used(id) /\ ~ (pc[p] = "print" /\ job[p].cmd = "unblind" /\ job[p].id = id)
    BY <1>2 DEF Used, OnlyMoves
  <1> QED BY <1>1, <1>2

\* A command that has loaded the file holds all of it, and nobody is saving.
LEMMA UndisturbedLoad ==
  ASSUME TypeOK, Undisturbed, NEW p \in Process,
         \/ \E msg \in Message, id \in RequestID, r \in Factor : Blind(p, msg, id, r)
         \/ \E id \in DOMAIN handed, a \in answers : Unblind(p, id, a.sig)
  PROVE  Undisturbed'
  <1> SUFFICES ASSUME mishaps' = {}
               PROVE  /\ \A q \in Process : CopyOK(q)'
                      /\ \A id \in RequestID : Promised(id)' => Kept(id)' \/ Used(id)'
    BY DEF Undisturbed
  <1>1. /\ OnlyMoves(p) /\ pc[p] = "idle" /\ pc'[p] = "save"
        /\ UNCHANGED <<file, handed, results, mishaps>> /\ file.is # "emptied"
    BY Moves DEF Blind, Unblind, Loads, printed
  <1>2. CopyOK(p)'
    <2>1. ASSUME NEW msg \in Message, NEW id \in RequestID, NEW r \in Factor,
                 Blind(p, msg, id, r)
          PROVE  CopyOK(p)'
      <3>1. /\ job'[p] = [cmd |-> "blind", id |-> id]
            /\ requests'[p] = With(file.of, id, [factor |-> r, msg |-> msg])
        BY <2>1, Moves DEF Blind
      <3>2. DOMAIN file.of \subseteq DOMAIN requests'[p]
        BY <3>1 DEF With
      <3> QED BY <1>1, <3>1, <3>2 DEF CopyOK
    <2>2. ASSUME NEW id \in DOMAIN handed, NEW a \in answers, Unblind(p, id, a.sig)
          PROVE  CopyOK(p)'
      <3>1. /\ job'[p].cmd = "unblind" /\ job'[p].id = id
            /\ requests'[p] = Without(file.of, id)
        BY <2>2, Moves DEF Unblind
      <3>2. DOMAIN file.of \subseteq DOMAIN requests'[p] \cup {id}
        BY <3>1 DEF Without
      <3> QED BY <1>1, <3>1, <3>2 DEF CopyOK
    <2> QED BY <2>1, <2>2
  <1>3. ASSUME NEW q \in Process PROVE CopyOK(q)'
    <2>1. CASE q = p
      BY <1>2, <2>1
    <2>2. CASE q # p
      BY <1>1, <2>2 DEF Undisturbed, CopyOK, OnlyMoves
    <2> QED BY <2>1, <2>2
  <1>4. ASSUME NEW id \in RequestID, Promised(id)' PROVE Kept(id)' \/ Used(id)'
    <2>1. Promised(id)
      BY <1>1, <1>4 DEF Promised, OnlyMoves
    <2>2. Kept(id) \/ Used(id)
      BY <1>1, <2>1 DEF Undisturbed
    <2> QED BY <1>1, <2>2, StaysKept
  <1> QED BY <1>3, <1>4

\* If nobody else is between loading and saving, the truncation loses nothing
\* that the process does not hold.
LEMMA UndisturbedTruncate ==
  ASSUME TypeOK, Commands, Undisturbed, NEW p \in Process, Truncate(p)
  PROVE  Undisturbed'
  <1> SUFFICES ASSUME mishaps' = {}
               PROVE  /\ \A q \in Process : CopyOK(q)'
                      /\ \A id \in RequestID : Promised(id)' => Kept(id)' \/ Used(id)'
    BY DEF Undisturbed
  <1>1. /\ mishaps = {} /\ \A q \in Process \ {p} : pc[q] \notin {"save", "write"}
    BY DEF Truncate, Overlaps
  <1>2. /\ OnlyMoves(p) /\ pc[p] = "save" /\ pc'[p] = "write"
        /\ job'[p] = job[p] /\ requests'[p] = requests[p]
        /\ file'.is = "emptied" /\ UNCHANGED <<handed, results>>
    BY Moves DEF Truncate, printed
  <1>3. ASSUME NEW q \in Process PROVE CopyOK(q)'
    BY <1>1, <1>2 DEF CopyOK, OnlyMoves
  <1>4. ASSUME NEW id \in RequestID, Promised(id)' PROVE Kept(id)' \/ Used(id)'
    <2>1. Promised(id)
      BY <1>2, <1>4 DEF Promised, OnlyMoves
    <2>2. CASE Kept(id)
      <3>1. id \in DOMAIN file.of
        BY <1>1, <1>2, <2>2 DEF Kept
      <3>2. CASE id \in DOMAIN requests[p]
        BY <1>2, <3>2 DEF Kept
      <3>3. CASE id \notin DOMAIN requests[p]
        <4>1. job[p].cmd # "blind" /\ job[p].id = id
          BY <1>1, <1>2, <3>1, <3>3 DEF Undisturbed, CopyOK
        <4>2. job[p] \in WriteJob
          BY <1>2 DEF Commands, JobOK, Saving
        <4>3. job[p].cmd = "unblind"
          BY <4>1, <4>2 DEF WriteJob
        <4> QED BY <1>2, <4>1, <4>3 DEF Used
      <3> QED BY <3>2, <3>3
    <2>3. CASE Used(id)
      BY <1>2, <2>3 DEF Used, OnlyMoves
    <2> QED BY <1>1, <2>1, <2>2, <2>3 DEF Undisturbed
  <1> QED BY <1>3, <1>4

\* The process that saves has the file to itself and writes what it holds.
LEMMA UndisturbedWrite ==
  ASSUME TypeOK, Commands, Undisturbed, NEW p \in Process, Write(p)
  PROVE  Undisturbed'
  <1> SUFFICES ASSUME mishaps' = {}
               PROVE  /\ \A q \in Process : CopyOK(q)'
                      /\ \A id \in RequestID : Promised(id)' => Kept(id)' \/ Used(id)'
    BY DEF Undisturbed
  <1>1. /\ OnlyMoves(p) /\ pc[p] = "write" /\ pc'[p] = "print"
        /\ job'[p] = job[p] /\ requests'[p] = requests[p]
        /\ UNCHANGED <<handed, results, mishaps>>
    BY Moves DEF Write, printed
  <1>2. /\ file.is = "emptied" /\ \A q \in Process \ {p} : pc[q] \notin {"save", "write"}
    BY <1>1 DEF Undisturbed, CopyOK
  <1>3. file' = [is |-> "json", of |-> requests[p]]
    BY <1>2 DEF Write
  <1>4. ASSUME NEW q \in Process PROVE CopyOK(q)'
    BY <1>1, <1>2 DEF CopyOK, OnlyMoves
  <1>5. ASSUME NEW id \in RequestID, Promised(id)' PROVE Kept(id)' \/ Used(id)'
    <2>1. CASE Promised(id)
      <3>1. CASE Kept(id)
        BY <1>1, <1>2, <1>3, <3>1 DEF Kept
      <3>2. CASE Used(id)
        BY <1>1, <3>2 DEF Used, OnlyMoves
      <3> QED BY <1>1, <2>1, <3>1, <3>2 DEF Undisturbed
    <2>2. CASE ~ Promised(id)
      <3>1. job[p].cmd = "blind" /\ job[p].id = id
        BY <1>1, <1>5, <2>2 DEF Promised, OnlyMoves
      <3>2. id \in DOMAIN requests[p]
        BY <1>1, <3>1 DEF Commands, JobOK, Blinds, Saving
      <3> QED BY <1>3, <3>2 DEF Kept
    <2> QED BY <2>1, <2>2
  <1> QED BY <1>4, <1>5

\* A failed save leaves the file as it was, or is a mishap.
LEMMA UndisturbedFails ==
  ASSUME TypeOK, Commands, Undisturbed, NEW p \in Process, SaveFails(p)
  PROVE  Undisturbed'
  <1> SUFFICES ASSUME mishaps' = {}
               PROVE  /\ \A q \in Process : CopyOK(q)'
                      /\ \A id \in RequestID : Promised(id)' => Kept(id)' \/ Used(id)'
    BY DEF Undisturbed
  <1>1. /\ pc[p] = "save" /\ UNCHANGED <<file, mishaps, handed, results>>
    BY DEF SaveFails, printed
  <1>2. OnlyMoves(p) /\ pc'[p] \in {"idle", "print"} /\ (pc'[p] = "print" => job'[p].cmd # "blind")
    <2>1. CASE job[p].cmd = "blind"
      BY <2>1, Moves DEF SaveFails
    <2>2. CASE job[p].cmd # "blind"
      BY <2>2, Moves DEF SaveFails
    <2> QED BY <2>1, <2>2
  <1>3. ASSUME NEW q \in Process PROVE CopyOK(q)'
    BY <1>1, <1>2 DEF Undisturbed, CopyOK, OnlyMoves
  <1>4. ASSUME NEW id \in RequestID, Promised(id)' PROVE Kept(id)' \/ Used(id)'
    <2>1. Promised(id)
      BY <1>1, <1>2, <1>4 DEF Promised, OnlyMoves
    <2>2. Kept(id) \/ Used(id)
      BY <1>1, <2>1 DEF Undisturbed
    <2> QED BY <1>1, <1>2, <2>2, StaysKept
  <1> QED BY <1>3, <1>4

\* What is printed was kept, and what an unblind prints is used.
LEMMA UndisturbedOutput ==
  ASSUME TypeOK, Undisturbed, NEW p \in Process, Output(p)
  PROVE  Undisturbed'
  <1> SUFFICES ASSUME mishaps' = {}
               PROVE  /\ \A q \in Process : CopyOK(q)'
                      /\ \A id \in RequestID : Promised(id)' => Kept(id)' \/ Used(id)'
    BY DEF Undisturbed
  <1>1. /\ OnlyMoves(p) /\ pc[p] = "print" /\ pc'[p] = "idle" /\ UNCHANGED <<file, mishaps>>
    BY Moves DEF Output
  <1>2. ASSUME NEW q \in Process PROVE CopyOK(q)'
    BY <1>1 DEF Undisturbed, CopyOK, OnlyMoves
  <1>3. results \subseteq results'
    BY DEF Output
  <1>4. DOMAIN handed' \subseteq
          DOMAIN handed \cup (IF job[p].cmd = "blind" THEN {job[p].id} ELSE {})
    BY DEF Output, With
  <1>5. ASSUME NEW id \in RequestID, Promised(id)' PROVE Kept(id)' \/ Used(id)'
    <2>1. Promised(id)
      BY <1>1, <1>4, <1>5 DEF Promised, OnlyMoves
    <2>2. Kept(id) \/ Used(id)
      BY <1>1, <2>1 DEF Undisturbed
    <2>3. ASSUME job[p].cmd = "unblind", job[p].id = id PROVE Used(id)'
      <3> DEFINE res == [id |-> job[p].id, sig |-> job[p].sig, out |-> job[p].out]
      <3>1. res \in results' /\ res.id = id
        BY <2>3 DEF Output
      <3> QED BY <3>1 DEF Used
    <2> QED BY <1>1, <1>3, <2>2, <2>3, StaysKept
  <1> QED BY <1>2, <1>5

\* A process that is killed loses something only in the middle of a save, or
\* when it was about to print what it had unblinded.
LEMMA UndisturbedKill ==
  ASSUME TypeOK, Undisturbed, NEW p \in Process, Kill(p)
  PROVE  Undisturbed'
  <1> SUFFICES ASSUME mishaps' = {}
               PROVE  /\ \A q \in Process : CopyOK(q)'
                      /\ \A id \in RequestID : Promised(id)' => Kept(id)' \/ Used(id)'
    BY DEF Undisturbed
  <1>1. /\ OnlyMoves(p) /\ pc'[p] = "idle" /\ UNCHANGED <<file, handed, results>>
    BY Moves DEF Kill, printed
  <1>2. /\ mishaps = {} /\ pc[p] # "write" /\ ~ (pc[p] = "print" /\ job[p].cmd = "unblind")
    BY DEF Kill
  <1>3. ASSUME NEW q \in Process PROVE CopyOK(q)'
    BY <1>1, <1>2 DEF Undisturbed, CopyOK, OnlyMoves
  <1>4. ASSUME NEW id \in RequestID, Promised(id)' PROVE Kept(id)' \/ Used(id)'
    <2>1. Promised(id)
      BY <1>1, <1>4 DEF Promised, OnlyMoves
    <2>2. Kept(id) \/ Used(id)
      BY <1>2, <2>1 DEF Undisturbed
    <2> QED BY <1>1, <1>2, <2>2, StaysKept
  <1> QED BY <1>3, <1>4

\* Every step keeps the copies and the file in accord.
LEMMA UndisturbedStep ==
  ASSUME TypeOK, Commands, Undisturbed, [Next]_vars
  PROVE  Undisturbed'
  <1>1. ASSUME NEW p \in Process, NEW res \in results, NEW class \in Class,
               Redeem(p, res, class)
        PROVE  Undisturbed'
    <2>1. /\ OnlyMoves(p) /\ pc[p] \notin Saving /\ pc'[p] \notin Saving
          /\ UNCHANGED <<file, handed, results, mishaps>>
      BY <1>1, Moves DEF Redeem, Loads, Saving, printed
    <2> QED BY <2>1, Aside DEF OnlyMoves
  <1>2. ASSUME NEW p \in Process, RedeemStep(p) PROVE Undisturbed'
    <2>1. /\ OnlyMoves(p) /\ pc[p] \notin Saving /\ pc'[p] \notin Saving
          /\ UNCHANGED <<file, handed, results, mishaps>>
      BY <1>2, Moves DEF RedeemStep, Receive, TimeOut, Saving, printed
    <2> QED BY <2>1, Aside DEF OnlyMoves
  <1>3. CASE \/ \E id \in DOMAIN handed, class \in Class, t \in Nonce : Issue(id, class, t)
             \/ \E req \in posted :
                  Decline(req) \/ \E revoked \in BOOLEAN : Consume(req, revoked)
             \/ UNCHANGED vars
    <2>1. UNCHANGED <<file, handed, results, mishaps, pc, job, requests>>
      BY <1>3 DEF Issue, Decline, Consume, Answered, vars, local, printed
    <2> QED BY <2>1, Aside
  <1> QED BY <1>1, <1>2, <1>3, UndisturbedLoad, UndisturbedTruncate, UndisturbedWrite,
             UndisturbedFails, UndisturbedOutput, UndisturbedKill
          DEF Next, Command, WriterStep

-----------------------------------------------------------------------------
(* The factors.                                                            *)

Copies == {file.of} \cup {requests[p] : p \in Process}

\* What was handed out under an identifier was blinded with that factor.
MadeFrom(id, req) ==
  handed[id].msg = req.msg /\ handed[id].blinded = BlindMessage(Hash[req.msg], req.factor)

\* The signature was unblinded with the factor of the request.
OutOK(id, sig, out) ==
  \E r \in Factor :
    /\ handed[id].blinded = BlindMessage(Hash[handed[id].msg], r)
    /\ out = UnblindSignature(sig, r)

CopiesAgree ==
  \A m, n \in Copies : \A id \in DOMAIN m \cap DOMAIN n : m[id] = n[id]
CopiesMade ==
  \A m \in Copies : \A id \in DOMAIN m \cap DOMAIN handed : MadeFrom(id, m[id])
OutputsOK ==
  /\ \A p \in Process : pc[p] \in Saving /\ ~ Blinds(p) =>
       OutOK(job[p].id, job[p].sig, job[p].out)
  /\ \A res \in results : OutOK(res.id, res.sig, res.out)
Agreed == CopiesAgree /\ CopiesMade /\ OutputsOK

\* The copies after a step of one process are the file's and the processes'.
LEMMA CopiesAfter ==
  ASSUME NEW p \in Process, OnlyMoves(p), NEW m \in Copies'
  PROVE  m \in Copies \/ m = file'.of \/ m = requests'[p]
  BY DEF Copies, OnlyMoves

\* A step that hands nothing out, and whose copies are parts of copies that
\* were there, keeps Agreed if what it unblinds is right.
LEMMA AgreedParts ==
  ASSUME Agreed, UNCHANGED <<handed, results>>,
         \A m \in Copies' : \E n \in Copies :
           DOMAIN m \subseteq DOMAIN n /\ \A id \in DOMAIN m : m[id] = n[id],
         \A p \in Process : pc'[p] \in Saving /\ ~ Blinds(p)' =>
           OutOK(job'[p].id, job'[p].sig, job'[p].out)
  PROVE  Agreed'
  <1>1. CopiesAgree'
    <2> SUFFICES ASSUME NEW m \in Copies', NEW n \in Copies', NEW id \in DOMAIN m \cap DOMAIN n
                 PROVE  m[id] = n[id]
      BY DEF CopiesAgree
    <2>1. PICK m0 \in Copies : DOMAIN m \subseteq DOMAIN m0 /\ \A i \in DOMAIN m : m[i] = m0[i]
      OBVIOUS
    <2>2. PICK n0 \in Copies : DOMAIN n \subseteq DOMAIN n0 /\ \A i \in DOMAIN n : n[i] = n0[i]
      OBVIOUS
    <2> QED BY <2>1, <2>2 DEF Agreed, CopiesAgree
  <1>2. CopiesMade'
    <2> SUFFICES ASSUME NEW m \in Copies', NEW id \in DOMAIN m \cap DOMAIN handed'
                 PROVE  MadeFrom(id, m[id])'
      BY DEF CopiesMade, MadeFrom
    <2>1. PICK n \in Copies : DOMAIN m \subseteq DOMAIN n /\ \A i \in DOMAIN m : m[i] = n[i]
      OBVIOUS
    <2> QED BY <2>1 DEF Agreed, CopiesMade, MadeFrom
  <1>3. OutputsOK'
    BY DEF Agreed, OutputsOK, OutOK
  <1> QED BY <1>1, <1>2, <1>3 DEF Agreed

\* A request under a fresh identifier contradicts no copy.
LEMMA AgreedBlind ==
  ASSUME TypeOK, Commands, Agreed, NEW p \in Process, NEW msg \in Message,
         NEW id \in RequestID, NEW r \in Factor, Blind(p, msg, id, r)
  PROVE  Agreed'
  <1> DEFINE map == With(file.of, id, [factor |-> r, msg |-> msg])
  <1>1. /\ OnlyMoves(p) /\ pc'[p] = "save" /\ requests'[p] = map
        /\ job'[p] = [cmd |-> "blind", id |-> id]
        /\ UNCHANGED <<file, handed, results>>
    BY Moves DEF Blind, printed
  <1>2. id \notin DOMAIN handed /\ \A m \in Copies : id \notin DOMAIN m
    BY DEF Blind, Drawn, Copies
  <1>3. /\ DOMAIN map = DOMAIN file.of \cup {id}
        /\ \A i \in DOMAIN file.of : map[i] = file.of[i]
    <2>1. id \notin DOMAIN file.of
      BY <1>2 DEF Copies
    <2> QED BY <2>1 DEF With
  <1> HIDE DEF map
  <1>4. \A m \in Copies' : m \in Copies \/ m = map
    BY <1>1 DEF Copies, OnlyMoves
  <1>5. file.of \in Copies
    BY DEF Copies
  <1>6. CopiesAgree'
    BY <1>2, <1>3, <1>4, <1>5 DEF Agreed, CopiesAgree
  <1>7. CopiesMade'
    BY <1>1, <1>2, <1>3, <1>4, <1>5 DEF Agreed, CopiesMade, MadeFrom
  <1>8. OutputsOK'
    BY <1>1 DEF Agreed, OutputsOK, OutOK, OnlyMoves, Blinds, Saving
  <1> QED BY <1>6, <1>7, <1>8 DEF Agreed

\* What unblind computes is with the factor of the file, which is the request's.
LEMMA AgreedUnblind ==
  ASSUME TypeOK, Agreed, NEW p \in Process, NEW id \in DOMAIN handed, NEW a \in answers,
         Unblind(p, id, a.sig)
  PROVE  Agreed'
  <1>1. /\ OnlyMoves(p) /\ pc'[p] = "save" /\ requests'[p] = Without(file.of, id)
        /\ job'[p].cmd = "unblind" /\ job'[p].id = id /\ job'[p].sig = a.sig
        /\ job'[p].out = UnblindSignature(a.sig, file.of[id].factor)
        /\ UNCHANGED <<file, handed, results>> /\ id \in DOMAIN file.of
    BY Moves DEF Unblind, printed
  <1>2. file.of \in Copies
    BY DEF Copies
  <1>3. file.of[id].factor \in Factor
    BY <1>1 DEF TypeOK, Requests
  <1>4. MadeFrom(id, file.of[id])
    BY <1>1, <1>2 DEF Agreed, CopiesMade
  <1>5. OutOK(job'[p].id, job'[p].sig, job'[p].out)
    BY <1>1, <1>3, <1>4 DEF OutOK, MadeFrom
  <1>6. ASSUME NEW m \in Copies'
        PROVE  \E n \in Copies : DOMAIN m \subseteq DOMAIN n /\ \A i \in DOMAIN m : m[i] = n[i]
    <2>1. m \in Copies \/ m = Without(file.of, id)
      BY <1>1, <1>6, <1>2 DEF Copies, OnlyMoves
    <2> QED BY <1>2, <2>1 DEF Without
  <1>7. ASSUME NEW q \in Process, pc'[q] \in Saving, ~ Blinds(q)'
        PROVE  OutOK(job'[q].id, job'[q].sig, job'[q].out)
    <2>1. CASE q = p
      BY <1>5, <2>1
    <2>2. CASE q # p
      BY <1>1, <1>7, <2>2 DEF Agreed, OutputsOK, OnlyMoves, Blinds
    <2> QED BY <2>1, <2>2
  <1> QED BY <1>1, <1>6, <1>7, AgreedParts

\* A process that goes on or ends only moves copies about or drops them.
LEMMA AgreedMoves ==
  ASSUME Agreed, NEW p \in Process, OnlyMoves(p), UNCHANGED <<handed, results>>,
         file'.of \in Copies \cup {Empty}, requests'[p] \in Copies \cup {Empty},
         pc'[p] \in Saving => pc[p] \in Saving /\ job'[p] = job[p]
  PROVE  Agreed'
  <1>1. ASSUME NEW m \in Copies'
        PROVE  \E n \in Copies : DOMAIN m \subseteq DOMAIN n /\ \A i \in DOMAIN m : m[i] = n[i]
    <2>1. m \in Copies \/ m = Empty
      BY CopiesAfter
    <2>2. file.of \in Copies
      BY DEF Copies
    <2> QED BY <2>1, <2>2 DEF Empty
  <1>2. ASSUME NEW q \in Process, pc'[q] \in Saving, ~ Blinds(q)'
        PROVE  OutOK(job'[q].id, job'[q].sig, job'[q].out)
    BY <1>2 DEF Agreed, OutputsOK, OnlyMoves, Blinds
  <1> QED BY <1>1, <1>2, AgreedParts

\* What blind prints is made from the request that every copy has under its
\* identifier, and what unblind prints is right already.
LEMMA AgreedOutput ==
  ASSUME TypeOK, Commands, Agreed, NEW p \in Process, Output(p)
  PROVE  Agreed'
  <1>1. /\ OnlyMoves(p) /\ pc[p] = "print" /\ pc'[p] = "idle" /\ requests'[p] = Empty
        /\ file' = file
    BY Moves DEF Output
  <1>2. ASSUME NEW m \in Copies' PROVE m \in Copies \/ m = Empty
    BY <1>1 DEF Copies, OnlyMoves
  <1>3. CopiesAgree'
    BY <1>2 DEF Agreed, CopiesAgree, Empty
  <1>4. CASE job[p].cmd = "blind"
    <2> DEFINE id == job[p].id
               req == requests[p][id]
    <2>1. Blinds(p) /\ id \in DOMAIN requests[p] /\ id \notin DOMAIN handed
      BY <1>1, <1>4 DEF Blinds, Saving, Commands, JobOK
    <2>2. requests[p] \in Copies /\ results' = results
      BY <1>4 DEF Copies, Output
    <2>3. handed' = With(handed, id,
                      [msg |-> req.msg, blinded |-> BlindMessage(Hash[req.msg], req.factor)])
      BY <1>4 DEF Output
    <2>4. /\ DOMAIN handed' = DOMAIN handed \cup {id}
          /\ \A i \in DOMAIN handed : handed'[i] = handed[i]
          /\ handed'[id].msg = req.msg
          /\ handed'[id].blinded = BlindMessage(Hash[req.msg], req.factor)
      BY <2>1, <2>3 DEF With
    <2>5. \A m \in Copies : id \in DOMAIN m => m[id] = req
      BY <2>1, <2>2 DEF Agreed, CopiesAgree
    <2> HIDE DEF id, req
    <2>6. CopiesMade'
      BY <1>2, <2>4, <2>5 DEF Agreed, CopiesMade, MadeFrom, Empty
    <2>7. OutputsOK'
      <3>1. ASSUME NEW q \in Process, pc'[q] \in Saving, ~ Blinds(q)'
            PROVE  OutOK(job[q].id, job[q].sig, job[q].out)' /\ job'[q] = job[q]
        <4>1. q # p
          BY <1>1, <3>1 DEF Saving
        <4>2. /\ pc[q] \in Saving /\ ~ Blinds(q) /\ job'[q] = job[q]
          BY <1>1, <3>1, <4>1 DEF OnlyMoves, Blinds
        <4>3. job[q].id \in DOMAIN handed /\ OutOK(job[q].id, job[q].sig, job[q].out)
          BY <4>2 DEF Commands, JobOK, Agreed, OutputsOK
        <4> QED BY <2>4, <4>2, <4>3 DEF OutOK
      <3>2. ASSUME NEW res \in results'
            PROVE  OutOK(res.id, res.sig, res.out)'
        <4>1. res.id \in DOMAIN handed /\ OutOK(res.id, res.sig, res.out)
          BY <2>2 DEF Commands, Agreed, OutputsOK
        <4> QED BY <2>4, <4>1 DEF OutOK
      <3> QED BY <3>1, <3>2 DEF OutputsOK
    <2> QED BY <1>3, <2>6, <2>7 DEF Agreed
  <1>5. CASE job[p].cmd # "blind"
    <2> DEFINE new == [id |-> job[p].id, sig |-> job[p].sig, out |-> job[p].out]
    <2>1. handed' = handed /\ results' = results \cup {new}
      BY <1>5 DEF Output
    <2>2. OutOK(new.id, new.sig, new.out)
      BY <1>1, <1>5 DEF Agreed, OutputsOK, Saving, Blinds
    <2> HIDE DEF new
    <2>3. CopiesMade'
      BY <1>2, <2>1 DEF Agreed, CopiesMade, MadeFrom, Empty
    <2>4. OutputsOK'
      BY <1>1, <2>1, <2>2 DEF Agreed, OutputsOK, OutOK, OnlyMoves, Blinds, Saving
    <2> QED BY <1>3, <2>3, <2>4 DEF Agreed
  <1> QED BY <1>4, <1>5

\* Every step keeps the factors.
LEMMA AgreedStep ==
  ASSUME TypeOK, Commands, Agreed, [Next]_vars
  PROVE  Agreed'
  <1> USE DEF printed, local, server
  <1>1. ASSUME NEW p \in Process, Truncate(p) \/ Write(p) PROVE Agreed'
    <2>1. /\ OnlyMoves(p) /\ pc[p] \in Saving /\ job'[p] = job[p]
          /\ requests'[p] = requests[p] /\ UNCHANGED <<handed, results>>
      BY <1>1, Moves DEF Truncate, Write, Saving
    <2>2. file'.of \in Copies \cup {Empty} /\ requests[p] \in Copies
      BY <1>1 DEF Truncate, Write, Copies
    <2> QED BY <2>1, <2>2, AgreedMoves
  <1>2. ASSUME NEW p \in Process, SaveFails(p) PROVE Agreed'
    <2>1. file'.of \in Copies \cup {Empty} /\ UNCHANGED <<handed, results>> /\ pc[p] \in Saving
      BY <1>2 DEF SaveFails, Copies, Saving
    <2>2. CASE Exits(p)
      <3>1. OnlyMoves(p) /\ pc'[p] = "idle" /\ requests'[p] = Empty
        BY <2>2, Moves
      <3> QED BY <2>1, <3>1, AgreedMoves DEF Saving
    <2>3. CASE pc' = [pc EXCEPT ![p] = "print"] /\ UNCHANGED <<job, requests>>
      <3>1. OnlyMoves(p) /\ job'[p] = job[p] /\ requests'[p] \in Copies
        BY <2>3, Moves DEF Copies
      <3> QED BY <2>1, <3>1, AgreedMoves
    <2> QED BY <1>2, <2>2, <2>3 DEF SaveFails
  <1>3. ASSUME NEW p \in Process, Kill(p) \/ RedeemStep(p) PROVE Agreed'
    <2>1. /\ OnlyMoves(p) /\ pc'[p] = "idle" /\ requests'[p] = Empty
          /\ file' = file /\ UNCHANGED <<handed, results>>
      BY <1>3, Moves DEF Kill, RedeemStep, Receive, TimeOut
    <2>2. file.of \in Copies
      BY DEF Copies
    <2> QED BY <2>1, <2>2, AgreedMoves DEF Saving
  <1>4. ASSUME NEW p \in Process, NEW res \in results, NEW class \in Class,
               Redeem(p, res, class)
        PROVE  Agreed'
    <2>1. OnlyMoves(p) /\ pc'[p] = "await" /\ requests'[p] = Empty
      BY <1>4, Moves DEF Redeem
    <2>2. file.of \in Copies /\ file' = file /\ UNCHANGED <<handed, results>>
      BY <1>4 DEF Copies, Redeem
    <2> QED BY <2>1, <2>2, AgreedMoves DEF Saving
  <1>5. CASE \/ \E id \in DOMAIN handed, class \in Class, t \in Nonce : Issue(id, class, t)
             \/ \E req \in posted :
                  Decline(req) \/ \E revoked \in BOOLEAN : Consume(req, revoked)
             \/ UNCHANGED vars
    <2>1. UNCHANGED <<file, handed, results, pc, job, requests>>
      BY <1>5 DEF Issue, Decline, Consume, Answered, vars
    <2> QED BY <2>1 DEF Agreed, CopiesAgree, CopiesMade, OutputsOK, Copies, OutOK, MadeFrom, Blinds
  <1> QED BY <1>1, <1>2, <1>3, <1>4, <1>5, AgreedBlind, AgreedUnblind, AgreedOutput
          DEF Next, Command, WriterStep

-----------------------------------------------------------------------------
(* The network.                                                            *)

\* A process will learn of its credential's redemption, or stop waiting.
Tells(p, c) ==
  /\ pc[p] = "await" /\ Credential(p) = c
  /\ \/ reply[p] = "ok"
     \/ reply[p] = "none" /\ \A req \in posted : req.by # p

\* A redemption on the wire is its process's last, which waits for it or has
\* given up; an answered one is off the wire.
Wire ==
  /\ \A p \in Process : reply[p] # "none" =>
       pc[p] = "await" /\ \A req \in posted : req.by # p
  /\ \A req, other \in posted : req.by = other.by => req = other
  /\ \A req \in posted :
       \/ pc[req.by] = "await" /\ Credential(req.by) = [sig |-> req.sig, class |-> req.class]
       \/ [sig |-> req.sig, class |-> req.class] \in unheard
  /\ \A c \in spent : c \in reports \cup unheard \/ \E p \in Process : Tells(p, c)

\* A step of a process that is not waiting leaves the network alone.
LEMMA WireAside ==
  ASSUME TypeOK, Wire, UNCHANGED <<posted, reply, spent, unheard, reports>>,
         \A p \in Process : pc[p] = "await" => pc'[p] = "await" /\ job'[p] = job[p]
  PROVE  Wire'
  <1>1. \A p \in Process : reply'[p] # "none" =>
          pc'[p] = "await" /\ \A req \in posted' : req.by # p
    BY DEF Wire
  <1>2. \A req, other \in posted' : req.by = other.by => req = other
    BY DEF Wire
  <1>3. \A req \in posted' : req.by \in Process
    BY DEF TypeOK
  <1>4. \A req \in posted' :
          \/ pc'[req.by] = "await"
             /\ Credential(req.by)' = [sig |-> req.sig, class |-> req.class]
          \/ [sig |-> req.sig, class |-> req.class] \in unheard'
    BY <1>3 DEF Wire, Credential
  <1>5. \A p \in Process, c \in spent : Tells(p, c) => Tells(p, c)'
    BY DEF Tells, Credential
  <1>6. \A c \in spent' : c \in reports' \cup unheard' \/ \E p \in Process : Tells(p, c)'
    BY <1>5 DEF Wire
  <1> QED BY <1>1, <1>2, <1>4, <1>6 DEF Wire

\* A redemption that is posted is awaited, and nobody else's fate changes.
LEMMA WireRedeem ==
  ASSUME TypeOK, Wire, NEW p \in Process, NEW res \in results, NEW class \in Class,
         Redeem(p, res, class)
  PROVE  Wire'
  <1> DEFINE new == [by |-> p, sig |-> res.out, class |-> class, msg |-> handed[res.id].msg]
  <1>1. /\ OnlyMoves(p) /\ pc[p] = "idle" /\ pc'[p] = "await"
        /\ job'[p].sig = res.out /\ job'[p].class = class
    BY Moves DEF Redeem, Loads
  <1>2. /\ posted' = posted \cup {new} /\ UNCHANGED <<reply, spent, unheard, reports>>
        /\ \A req \in posted : req.by # p /\ req.by \in Process
    BY DEF Redeem, printed, TypeOK
  <1>3. new.by = p /\ new.sig = res.out /\ new.class = class
    OBVIOUS
  <1> HIDE DEF new
  <1>4. reply[p] = "none"
    BY <1>1 DEF Wire
  <1>5. \A q \in Process : reply'[q] # "none" =>
          pc'[q] = "await" /\ \A req \in posted' : req.by # q
    BY <1>1, <1>2, <1>3, <1>4 DEF Wire, OnlyMoves
  <1>6. \A req, other \in posted' : req.by = other.by => req = other
    BY <1>2, <1>3 DEF Wire
  <1>7. \A req \in posted' :
          \/ pc'[req.by] = "await"
             /\ Credential(req.by)' = [sig |-> req.sig, class |-> req.class]
          \/ [sig |-> req.sig, class |-> req.class] \in unheard'
    BY <1>1, <1>2, <1>3 DEF Wire, Credential, OnlyMoves
  <1>8. \A q \in Process, c \in spent : Tells(q, c) => Tells(q, c)'
    BY <1>1, <1>2, <1>3 DEF Tells, Credential, OnlyMoves
  <1>9. \A c \in spent' : c \in reports' \cup unheard' \/ \E q \in Process : Tells(q, c)'
    BY <1>2, <1>8 DEF Wire
  <1> QED BY <1>5, <1>6, <1>7, <1>9 DEF Wire

\* An answer goes to the process that waits for it, and only a credential that
\* is told so is spent.
LEMMA WireAnswered ==
  ASSUME TypeOK, Wire, NEW req \in posted, NEW answer, Answered(req, answer),
         \/ UNCHANGED spent
         \/ answer = "ok" /\ spent' = spent \cup {[sig |-> req.sig, class |-> req.class]}
  PROVE  Wire'
  <1> DEFINE c0 == [sig |-> req.sig, class |-> req.class]
             p == req.by
  <1>1. p \in Process
    BY DEF TypeOK
  <1>2. UNCHANGED <<pc, job, unheard, reports>> /\ posted' = posted \ {req}
    BY DEF Answered, local, printed
  <1>3. reply[p] = "none" /\ \A other \in posted' : other.by # p
    BY <1>1, <1>2 DEF Wire
  <1>4. /\ \A q \in Process \ {p} : reply'[q] = reply[q]
        /\ \/ reply'[p] = "none"
           \/ pc[p] = "await" /\ reply'[p] = answer
    BY <1>1, <1>3 DEF Answered, TypeOK
  <1>5. \A q \in Process : reply'[q] # "none" =>
          pc'[q] = "await" /\ \A other \in posted' : other.by # q
    BY <1>2, <1>3, <1>4 DEF Wire
  <1>6. \A other, another \in posted' : other.by = another.by => other = another
    BY <1>2 DEF Wire
  <1>7. \A other \in posted' :
          \/ pc'[other.by] = "await"
             /\ Credential(other.by)' = [sig |-> other.sig, class |-> other.class]
          \/ [sig |-> other.sig, class |-> other.class] \in unheard'
    BY <1>2 DEF Wire, Credential
  <1>8. \A q \in Process, c \in spent : Tells(q, c) => Tells(q, c)'
    <2> SUFFICES ASSUME NEW q \in Process, NEW c \in spent, Tells(q, c) PROVE Tells(q, c)'
      OBVIOUS
    <2>1. q # p
      BY <1>3 DEF Tells
    <2> QED BY <1>2, <1>4, <2>1 DEF Tells, Credential
  <1>9. answer = "ok" => c0 \in unheard' \/ Tells(p, c0)'
    <2> HAVE answer = "ok"
    <2>1. CASE pc[p] = "await" /\ Credential(p) = c0
      BY <1>2, <1>3, <1>4, <2>1 DEF Tells, Credential
    <2>2. CASE c0 \in unheard
      BY <1>2, <2>2
    <2> QED BY <2>1, <2>2 DEF Wire
  <1>10. \A c \in spent' : c \in reports' \cup unheard' \/ \E q \in Process : Tells(q, c)'
    <2> SUFFICES ASSUME NEW c \in spent'
                 PROVE  c \in reports' \cup unheard' \/ \E q \in Process : Tells(q, c)'
      OBVIOUS
    <2>1. CASE c \in spent
      BY <1>2, <1>8, <2>1 DEF Wire
    <2>2. CASE answer = "ok" /\ c = c0
      BY <1>1, <1>9, <2>2
    <2> QED BY <2>1, <2>2
  <1> QED BY <1>5, <1>6, <1>7, <1>10 DEF Wire

\* A process that stops waiting has been told, or is remembered as unheard.
LEMMA WireStops ==
  ASSUME TypeOK, Wire, NEW p \in Process, Receive(p) \/ TimeOut(p) \/ Kill(p)
  PROVE  Wire'
  <1>1. /\ OnlyMoves(p) /\ pc'[p] = "idle" /\ UNCHANGED <<posted, spent>>
        /\ reports \subseteq reports' /\ unheard \subseteq unheard'
    BY Moves DEF Receive, TimeOut, Kill, printed
  <1>2. /\ \A q \in Process \ {p} : reply'[q] = reply[q]
        /\ reply'[p] = "none"
    BY DEF Receive, TimeOut, Kill, TypeOK
  <1>3. pc[p] = "await" =>
          \/ Credential(p) \in unheard'
          \/ reply[p] # "none" /\ (reply[p] = "ok" => Credential(p) \in reports')
    BY DEF Receive, TimeOut, Kill
  <1>4. \A q \in Process : reply'[q] # "none" =>
          pc'[q] = "await" /\ \A req \in posted' : req.by # q
    BY <1>1, <1>2 DEF Wire, OnlyMoves
  <1>5. \A req, other \in posted' : req.by = other.by => req = other
    BY <1>1 DEF Wire
  <1>6. ASSUME NEW req \in posted'
        PROVE  \/ pc'[req.by] = "await"
                  /\ Credential(req.by)' = [sig |-> req.sig, class |-> req.class]
               \/ [sig |-> req.sig, class |-> req.class] \in unheard'
    <2>1. req \in posted /\ req.by \in Process
      BY <1>1 DEF TypeOK
    <2>2. CASE req.by = p
      BY <1>1, <1>3, <2>1, <2>2 DEF Wire
    <2>3. CASE req.by # p
      BY <1>1, <2>1, <2>3 DEF Wire, OnlyMoves, Credential
    <2> QED BY <2>2, <2>3
  <1>7. ASSUME NEW c \in spent'
        PROVE  c \in reports' \cup unheard' \/ \E q \in Process : Tells(q, c)'
    <2>1. CASE c \in reports \cup unheard
      BY <1>1, <2>1
    <2>2. ASSUME NEW q \in Process, Tells(q, c)
          PROVE  c \in reports' \cup unheard' \/ Tells(q, c)'
      <3>1. CASE q = p
        BY <1>3, <2>2, <3>1 DEF Tells
      <3>2. CASE q # p
        BY <1>1, <1>2, <2>2, <3>2 DEF Tells, OnlyMoves, Credential
      <3> QED BY <3>1, <3>2
    <2> QED BY <1>1, <2>1, <2>2 DEF Wire
  <1> QED BY <1>4, <1>5, <1>6, <1>7 DEF Wire

\* Every step keeps the network's part.
LEMMA WireStep ==
  ASSUME TypeOK, Wire, [Next]_vars
  PROVE  Wire'
  <1>1. ASSUME NEW p \in Process, NEW msg \in Message, NEW id \in RequestID, NEW r \in Factor,
               Blind(p, msg, id, r)
        PROVE  Wire'
    <2>1. /\ OnlyMoves(p) /\ pc[p] # "await"
          /\ UNCHANGED <<posted, reply, spent, unheard, reports>>
      BY <1>1, Moves DEF Blind, Loads, printed, server
    <2> QED BY <2>1, WireAside DEF OnlyMoves
  <1>2. ASSUME NEW p \in Process, NEW id \in DOMAIN handed, NEW a \in answers,
               Unblind(p, id, a.sig)
        PROVE  Wire'
    <2>1. /\ OnlyMoves(p) /\ pc[p] # "await"
          /\ UNCHANGED <<posted, reply, spent, unheard, reports>>
      BY <1>2, Moves DEF Unblind, Loads, printed, server
    <2> QED BY <2>1, WireAside DEF OnlyMoves
  <1>3. ASSUME NEW p \in Process, WriterStep(p) PROVE Wire'
    <2>1. pc[p] # "await" /\ UNCHANGED <<posted, reply, spent, unheard, reports>>
      BY <1>3 DEF WriterStep, Truncate, Write, SaveFails, Output, printed, server
    <2>2. OnlyMoves(p)
      BY <1>3, Moves DEF WriterStep, Truncate, Write, SaveFails, Output
    <2> QED BY <2>1, <2>2, WireAside DEF OnlyMoves
  <1>4. CASE \E id \in DOMAIN handed, class \in Class, t \in Nonce : Issue(id, class, t)
    <2>1. UNCHANGED <<posted, reply, spent, unheard, reports, pc, job>>
      BY <1>4 DEF Issue, local, printed, server
    <2> QED BY <2>1, WireAside
  <1>5. ASSUME NEW req \in posted,
               Decline(req) \/ \E revoked \in BOOLEAN : Consume(req, revoked)
        PROVE  Wire'
    <2>1. PICK answer :
            /\ Answered(req, answer)
            /\ \/ UNCHANGED spent
               \/ answer = "ok" /\ spent' = spent \cup {[sig |-> req.sig, class |-> req.class]}
      BY <1>5 DEF Decline, Consume
    <2> QED BY <2>1, WireAnswered
  <1>6. CASE UNCHANGED vars
    <2>1. UNCHANGED <<posted, reply, spent, unheard, reports, pc, job>>
      BY <1>6 DEF vars, local, printed, server
    <2> QED BY <2>1, WireAside
  <1> QED BY <1>1, <1>2, <1>3, <1>4, <1>5, <1>6, WireRedeem, WireStops
          DEF Next, Command, RedeemStep

-----------------------------------------------------------------------------
(* What a success is worth.                                                *)

\* A process that still waits waits for what it posted; "ok" is on its way to
\* one process at most per credential, for one that is spent and that nobody
\* has been told of yet.
Told ==
  /\ \A req \in posted : pc[req.by] = "await" =>
       Credential(req.by) = [sig |-> req.sig, class |-> req.class]
  /\ \A p \in Process : reply[p] = "ok" => Credential(p) \in spent \ reports
  /\ \A p, q \in Process :
       reply[p] = "ok" /\ reply[q] = "ok" /\ Credential(p) = Credential(q) => p = q
  /\ reports \subseteq spent

\* The credential came out of an unblind whose message it is good for.
Genuine(c) ==
  \E res \in results :
    /\ res.out = c.sig
    /\ VerifyPoint(res.out, Hash[handed[res.id].msg], PubKey(Key[c.class]))

\* What is unblinded was issued, what is posted was unblinded, and what is
\* spent was checked.
Traced ==
  /\ \A res \in results : \E a \in answers : a.sig = res.sig
  /\ \A p \in Process :
       pc[p] \in Saving /\ ~ Blinds(p) => \E a \in answers : a.sig = job[p].sig
  /\ \A req \in posted : \E res \in results :
       res.out = req.sig /\ handed[res.id].msg = req.msg
  /\ \A c \in spent : Genuine(c)

\* A step that neither starts nor ends a wait leaves Told alone.
LEMMA ToldAside ==
  ASSUME TypeOK, Wire, Told, UNCHANGED <<posted, reply, spent, reports>>,
         \A p \in Process : pc[p] = "await" \/ pc'[p] = "await" =>
           pc'[p] = pc[p] /\ job'[p] = job[p]
  PROVE  Told'
  <1>1. \A req \in posted : req.by \in Process
    BY DEF TypeOK
  <1>2. \A p \in Process : reply[p] = "ok" => pc[p] = "await"
    BY DEF Wire
  <1> QED BY <1>1, <1>2 DEF Told, Credential

\* A redemption that is posted is its process's own.
LEMMA ToldRedeem ==
  ASSUME TypeOK, Wire, Told, NEW p \in Process, NEW res \in results, NEW class \in Class,
         Redeem(p, res, class)
  PROVE  Told'
  <1> DEFINE new == [by |-> p, sig |-> res.out, class |-> class, msg |-> handed[res.id].msg]
  <1>1. /\ OnlyMoves(p) /\ pc[p] = "idle"
        /\ job'[p].sig = res.out /\ job'[p].class = class
    BY Moves DEF Redeem, Loads
  <1>2. /\ posted' = posted \cup {new} /\ UNCHANGED <<reply, spent, reports>>
        /\ \A req \in posted : req.by # p /\ req.by \in Process
    BY DEF Redeem, printed, TypeOK
  <1>3. new.by = p /\ new.sig = res.out /\ new.class = class
    OBVIOUS
  <1> HIDE DEF new
  <1>4. reply[p] # "ok"
    BY <1>1 DEF Wire
  <1>5. \A q \in Process : reply'[q] = "ok" => q # p /\ Credential(q)' = Credential(q)
    BY <1>1, <1>2, <1>4 DEF OnlyMoves, Credential
  <1>6. \A req \in posted' : pc'[req.by] = "await" =>
          Credential(req.by)' = [sig |-> req.sig, class |-> req.class]
    BY <1>1, <1>2, <1>3 DEF Told, OnlyMoves, Credential
  <1> QED BY <1>2, <1>5, <1>6 DEF Told

\* The server says "ok" of a credential when it spends it, so that it has said
\* so of no other process's.
LEMMA ToldAnswered ==
  ASSUME TypeOK, Wire, Told, NEW req \in posted, NEW answer, Answered(req, answer),
         \/ answer # "ok" /\ UNCHANGED spent
         \/ /\ answer = "ok" /\ [sig |-> req.sig, class |-> req.class] \notin spent
            /\ spent' = spent \cup {[sig |-> req.sig, class |-> req.class]}
  PROVE  Told'
  <1> DEFINE c0 == [sig |-> req.sig, class |-> req.class]
             p == req.by
  <1>1. p \in Process
    BY DEF TypeOK
  <1>2. UNCHANGED <<pc, job, reports>> /\ posted' = posted \ {req} /\ spent \subseteq spent'
    BY DEF Answered, local, printed
  <1>3. reply[p] = "none"
    BY <1>1 DEF Wire
  <1>4. /\ \A q \in Process \ {p} : reply'[q] = reply[q]
        /\ reply'[p] = "ok" => answer = "ok" /\ pc[p] = "await"
    BY <1>1, <1>3 DEF Answered, TypeOK
  <1>5. reply'[p] = "ok" => Credential(p) = c0 /\ c0 \notin spent /\ c0 \in spent'
    BY <1>4 DEF Told
  <1>6. \A q \in Process : Credential(q)' = Credential(q)
    BY <1>2 DEF Credential
  <1> HIDE DEF c0, p
  <1>7. \A q \in Process \ {p} : reply'[q] = "ok" => Credential(q) \in spent \ reports
    BY <1>4 DEF Told
  <1>8. \A q \in Process : reply'[q] = "ok" => Credential(q)' \in spent' \ reports'
    BY <1>2, <1>5, <1>6, <1>7 DEF Told
  <1>9. \A q, s \in Process :
          reply'[q] = "ok" /\ reply'[s] = "ok" /\ Credential(q)' = Credential(s)' => q = s
    <2> SUFFICES ASSUME NEW q \in Process, NEW s \in Process, reply'[q] = "ok",
                        reply'[s] = "ok", Credential(q) = Credential(s), q # s
                 PROVE  FALSE
      BY <1>6
    <2>1. CASE q = p
      BY <1>5, <1>7, <2>1
    <2>2. CASE s = p
      BY <1>5, <1>7, <2>2
    <2>3. CASE q # p /\ s # p
      BY <1>4, <2>3 DEF Told
    <2> QED BY <2>1, <2>2, <2>3
  <1>10. \A other \in posted' : pc'[other.by] = "await" =>
           Credential(other.by)' = [sig |-> other.sig, class |-> other.class]
    BY <1>2 DEF Told, Credential
  <1>11. reports' \subseteq spent'
    BY <1>2 DEF Told
  <1> QED BY <1>8, <1>9, <1>10, <1>11 DEF Told

\* A process that stops waiting reports at most what it was told.
LEMMA ToldStops ==
  ASSUME TypeOK, Wire, Told, NEW p \in Process, Receive(p) \/ TimeOut(p) \/ Kill(p)
  PROVE  Told'
  <1>1. /\ OnlyMoves(p) /\ pc'[p] = "idle" /\ UNCHANGED <<posted, spent>>
        /\ \A q \in Process \ {p} : reply'[q] = reply[q]
        /\ reply'[p] = "none"
    BY Moves DEF Receive, TimeOut, Kill, printed, TypeOK
  <1>2. \/ UNCHANGED reports
        \/ reply[p] = "ok" /\ reports' = reports \cup {Credential(p)}
    BY DEF Receive, TimeOut, Kill, printed
  <1>3. \A q \in Process : reply'[q] = "ok" =>
          q # p /\ reply[q] = "ok" /\ Credential(q)' = Credential(q)
    BY <1>1 DEF OnlyMoves, Credential
  <1>4. \A q \in Process : reply'[q] = "ok" => Credential(q)' \in spent' \ reports'
    BY <1>1, <1>2, <1>3 DEF Told
  <1>5. \A req \in posted' : pc'[req.by] = "await" =>
          Credential(req.by)' = [sig |-> req.sig, class |-> req.class]
    <2>1. \A req \in posted : req.by \in Process
      BY DEF TypeOK
    <2> QED BY <1>1, <2>1 DEF Told, OnlyMoves, Credential
  <1> QED BY <1>1, <1>2, <1>3, <1>4, <1>5 DEF Told

\* Every step keeps what successes are worth.
LEMMA ToldStep ==
  ASSUME TypeOK, Wire, Told, [Next]_vars
  PROVE  Told'
  <1>1. ASSUME NEW p \in Process,
               \/ \E msg \in Message, id \in RequestID, r \in Factor : Blind(p, msg, id, r)
               \/ \E id \in DOMAIN handed, a \in answers : Unblind(p, id, a.sig)
               \/ WriterStep(p)
        PROVE  Told'
    <2>1. /\ OnlyMoves(p) /\ pc[p] # "await" /\ pc'[p] # "await"
          /\ UNCHANGED <<posted, reply, spent, reports>>
      <3>1. CASE \E msg \in Message, id \in RequestID, r \in Factor : Blind(p, msg, id, r)
        BY <3>1, Moves DEF Blind, Loads, printed, server
      <3>2. CASE \E id \in DOMAIN handed, a \in answers : Unblind(p, id, a.sig)
        BY <3>2, Moves DEF Unblind, Loads, printed, server
      <3>3. CASE WriterStep(p)
        <4>1. pc[p] # "await" /\ UNCHANGED <<posted, reply, spent, reports>>
          BY <3>3 DEF WriterStep, Truncate, Write, SaveFails, Output, printed, server
        <4>2. OnlyMoves(p) /\ pc'[p] \in {"write", "print", "idle"}
          BY <3>3, Moves DEF WriterStep, Truncate, Write, SaveFails, Output
        <4> QED BY <4>1, <4>2
      <3> QED BY <1>1, <3>1, <3>2, <3>3
    <2> QED BY <2>1, ToldAside DEF OnlyMoves
  <1>2. CASE \/ \E id \in DOMAIN handed, class \in Class, t \in Nonce : Issue(id, class, t)
             \/ UNCHANGED vars
    <2>1. UNCHANGED <<posted, reply, spent, reports, pc, job>>
      BY <1>2 DEF Issue, vars, local, printed, server
    <2> QED BY <2>1, ToldAside
  <1>3. ASSUME NEW req \in posted,
               Decline(req) \/ \E revoked \in BOOLEAN : Consume(req, revoked)
        PROVE  Told'
    <2>1. PICK answer :
            /\ Answered(req, answer)
            /\ \/ answer # "ok" /\ UNCHANGED spent
               \/ /\ answer = "ok" /\ [sig |-> req.sig, class |-> req.class] \notin spent
                  /\ spent' = spent \cup {[sig |-> req.sig, class |-> req.class]}
      BY <1>3 DEF Decline, Consume, Verdict
    <2> QED BY <2>1, ToldAnswered
  <1> QED BY <1>1, <1>2, <1>3, ToldRedeem, ToldStops DEF Next, Command, RedeemStep

\* What was printed or answered is never taken back.
LEMMA NothingLost ==
  ASSUME TypeOK, Commands, [Next]_vars
  PROVE  /\ answers \subseteq answers' /\ results \subseteq results'
         /\ \A id \in DOMAIN handed : id \in DOMAIN handed' /\ handed'[id] = handed[id]
  <1> USE DEF printed, local, server
  <1>1. ASSUME NEW p \in Process, Output(p)
        PROVE  /\ answers \subseteq answers' /\ results \subseteq results'
               /\ \A id \in DOMAIN handed : id \in DOMAIN handed' /\ handed'[id] = handed[id]
    <2>1. CASE job[p].cmd = "blind"
      <3>1. Blinds(p)
        BY <1>1, <2>1 DEF Output, Blinds, Saving
      <3>2. job[p].id \notin DOMAIN handed
        BY <3>1 DEF Commands, JobOK
      <3>3. PICK out : handed' = With(handed, job[p].id, out)
        BY <1>1, <2>1 DEF Output
      <3> QED BY <1>1, <2>1, <3>2, <3>3 DEF Output, With
    <2>2. CASE job[p].cmd # "blind"
      BY <1>1, <2>2 DEF Output
    <2> QED BY <2>1, <2>2
  <1>2. ASSUME NEW p \in Process, WriterStep(p) \/ RedeemStep(p) \/ Kill(p), ~ Output(p)
        PROVE  UNCHANGED <<handed, results, answers>>
    BY <1>2 DEF WriterStep, RedeemStep, Truncate, Write, SaveFails, Receive, TimeOut, Kill
  <1>3. ASSUME NEW p \in Process, Command(p) PROVE UNCHANGED <<handed, results, answers>>
    BY <1>3 DEF Command, Blind, Unblind, Redeem
  <1>4. CASE \/ \E id \in DOMAIN handed, class \in Class, t \in Nonce : Issue(id, class, t)
             \/ \E req \in posted :
                  Decline(req) \/ \E revoked \in BOOLEAN : Consume(req, revoked)
             \/ UNCHANGED vars
    BY <1>4 DEF Issue, Decline, Consume, Answered, vars
  <1> QED BY <1>1, <1>2, <1>3, <1>4 DEF Next

\* What was unblinded, posted and spent stays traced when more is printed.
LEMMA TracedKept ==
  ASSUME TypeOK, Commands, Traced, [Next]_vars
  PROVE  /\ \A res \in results : \E a \in answers' : a.sig = res.sig
         /\ \A req \in posted : \E res \in results' :
              res.out = req.sig /\ handed'[res.id].msg = req.msg
         /\ \A c \in spent : Genuine(c)'
  <1>1. /\ answers \subseteq answers' /\ results \subseteq results'
        /\ \A id \in DOMAIN handed : id \in DOMAIN handed' /\ handed'[id] = handed[id]
    BY NothingLost
  <1>2. \A res \in results : handed'[res.id] = handed[res.id]
    BY <1>1 DEF Commands
  <1>3. ASSUME NEW c \in spent PROVE Genuine(c)'
    BY <1>1, <1>2 DEF Traced, Genuine
  <1>4. \A req \in posted : \E res \in results' :
          res.out = req.sig /\ handed'[res.id].msg = req.msg
    BY <1>1, <1>2 DEF Traced
  <1> QED BY <1>1, <1>3, <1>4 DEF Traced

\* Every step keeps the trace from what is spent back to what was issued.
LEMMA TracedStep ==
  ASSUME TypeOK, Commands, Traced, [Next]_vars
  PROVE  Traced'
  <1> USE DEF printed, local, server
  <1>1. answers \subseteq answers' /\ results \subseteq results'
    BY NothingLost
  <1>2. ASSUME UNCHANGED <<results, posted, spent>>,
               \A p \in Process : pc'[p] \in Saving /\ ~ Blinds(p)' =>
                 \E a \in answers : a.sig = job'[p].sig
        PROVE  Traced'
    BY <1>1, <1>2, TracedKept DEF Traced
  <1>3. ASSUME NEW p \in Process, OnlyMoves(p),
               \/ pc'[p] \notin Saving \/ Blinds(p)'
               \/ pc[p] \in Saving /\ job'[p] = job[p]
        PROVE  \A q \in Process : pc'[q] \in Saving /\ ~ Blinds(q)' =>
                 \E a \in answers : a.sig = job'[q].sig
    BY <1>3 DEF OnlyMoves, Traced, Blinds
  <1>4. ASSUME NEW p \in Process, NEW msg \in Message, NEW id \in RequestID, NEW r \in Factor,
               Blind(p, msg, id, r)
        PROVE  Traced'
    <2>1. OnlyMoves(p) /\ Blinds(p)' /\ UNCHANGED <<results, posted, spent>>
      BY <1>4, Moves DEF Blind, Blinds, Saving
    <2> QED BY <1>2, <1>3, <2>1
  <1>5. ASSUME NEW p \in Process, NEW id \in DOMAIN handed, NEW a \in answers,
               Unblind(p, id, a.sig)
        PROVE  Traced'
    <2>1. OnlyMoves(p) /\ job'[p].sig = a.sig /\ UNCHANGED <<results, posted, spent>>
      BY <1>5, Moves DEF Unblind
    <2>2. \A q \in Process : pc'[q] \in Saving /\ ~ Blinds(q)' =>
            \E b \in answers : b.sig = job'[q].sig
      BY <2>1 DEF OnlyMoves, Traced, Blinds
    <2> QED BY <1>2, <2>1, <2>2
  <1>6. ASSUME NEW p \in Process, Truncate(p) \/ Write(p) \/ SaveFails(p) PROVE Traced'
    <2>1. /\ OnlyMoves(p) /\ UNCHANGED <<results, posted, spent>>
          /\ \/ pc'[p] \notin Saving
             \/ pc[p] \in Saving /\ job'[p] = job[p]
      BY <1>6, Moves DEF Truncate, Write, SaveFails, Saving
    <2> QED BY <1>2, <1>3, <2>1
  <1>7. ASSUME NEW p \in Process, Output(p) PROVE Traced'
    <2>1. /\ OnlyMoves(p) /\ pc'[p] = "idle" /\ pc[p] = "print"
          /\ UNCHANGED <<posted, spent, answers>>
      BY <1>7, Moves DEF Output
    <2>2. \A q \in Process : pc'[q] \in Saving /\ ~ Blinds(q)' =>
            \E a \in answers : a.sig = job'[q].sig
      BY <1>3, <2>1 DEF Saving
    <2>3. \A res \in results' : \E a \in answers : a.sig = res.sig
      <3>1. CASE job[p].cmd = "blind"
        BY <1>7, <3>1 DEF Output, Traced
      <3>2. CASE job[p].cmd # "blind"
        <4>1. \E a \in answers : a.sig = job[p].sig
          BY <2>1, <3>2 DEF Traced, Saving, Blinds
        <4>2. \A res \in results' : res \in results \/ res.sig = job[p].sig
          BY <1>7, <3>2 DEF Output
        <4> QED BY <4>1, <4>2 DEF Traced
      <3> QED BY <3>1, <3>2
    <2> QED BY <2>1, <2>2, <2>3, TracedKept DEF Traced
  <1>8. ASSUME NEW p \in Process, RedeemStep(p) \/ Kill(p) PROVE Traced'
    <2>1. OnlyMoves(p) /\ pc'[p] = "idle" /\ UNCHANGED <<results, posted, spent>>
      BY <1>8, Moves DEF RedeemStep, Receive, TimeOut, Kill
    <2> QED BY <1>2, <1>3, <2>1 DEF Saving
  <1>9. ASSUME NEW p \in Process, NEW res \in results, NEW class \in Class,
               Redeem(p, res, class)
        PROVE  Traced'
    <2> DEFINE new == [by |-> p, sig |-> res.out, class |-> class, msg |-> handed[res.id].msg]
    <2>1. /\ OnlyMoves(p) /\ pc'[p] = "await"
          /\ UNCHANGED <<results, spent, handed, answers>> /\ posted' = posted \cup {new}
      BY <1>9, Moves DEF Redeem
    <2>2. new.sig = res.out /\ new.msg = handed[res.id].msg
      OBVIOUS
    <2> HIDE DEF new
    <2>3. \A q \in Process : pc'[q] \in Saving /\ ~ Blinds(q)' =>
            \E a \in answers : a.sig = job'[q].sig
      BY <1>3, <2>1 DEF Saving
    <2>4. \A req \in posted' : \E r \in results' :
            r.out = req.sig /\ handed'[r.id].msg = req.msg
      BY <2>1, <2>2 DEF Traced
    <2> QED BY <2>1, <2>3, <2>4, TracedKept DEF Traced
  <1>10. CASE \/ \E id \in DOMAIN handed, class \in Class, t \in Nonce : Issue(id, class, t)
              \/ UNCHANGED vars
    <2>1. UNCHANGED <<results, posted, spent, pc, job>>
      BY <1>10 DEF Issue, vars
    <2> QED BY <1>2, <2>1 DEF Traced, Blinds
  <1>11. ASSUME NEW req \in posted,
                Decline(req) \/ \E revoked \in BOOLEAN : Consume(req, revoked)
         PROVE  Traced'
    <2> DEFINE c0 == [sig |-> req.sig, class |-> req.class]
    <2>1. /\ UNCHANGED <<results, handed, answers, pc, job>> /\ posted' \subseteq posted
          /\ \/ spent' = spent
             \/ /\ spent' = spent \cup {c0}
                /\ VerifyPoint(req.sig, Hash[req.msg], PubKey(Key[req.class]))
      BY <1>11 DEF Decline, Consume, Answered, Verdict
    <2>2. c0.sig = req.sig /\ c0.class = req.class
      OBVIOUS
    <2> HIDE DEF c0
    <2>3. VerifyPoint(req.sig, Hash[req.msg], PubKey(Key[req.class])) => Genuine(c0)'
      BY <2>1, <2>2 DEF Traced, Genuine
    <2>4. \A c \in spent' : Genuine(c)'
      BY <2>1, <2>3, TracedKept
    <2> QED BY <2>1, <2>4 DEF Traced, Blinds
  <1> QED BY <1>4, <1>5, <1>6, <1>7, <1>8, <1>9, <1>10, <1>11
          DEF Next, Command, WriterStep

-----------------------------------------------------------------------------
(* The theorems.                                                           *)

IInv == TypeOK /\ Commands /\ Undisturbed /\ Agreed /\ Wire /\ Told /\ Traced

\* The invariant holds at first.
LEMMA InitInv == Init => IInv
  <1> SUFFICES ASSUME Init PROVE IInv
    OBVIOUS
  <1>1. TypeOK
    BY DEF Init, TypeOK, Requests, Empty
  <1>2. Commands
    BY DEF Init, Commands, Apart, JobOK, Blinds, Saving
  <1>3. Undisturbed
    BY DEF Init, Undisturbed, CopyOK, Promised, Empty
  <1>4. Agreed
    BY DEF Init, Agreed, CopiesAgree, CopiesMade, OutputsOK, Copies, Empty, Saving
  <1>5. Wire
    BY DEF Init, Wire
  <1>6. Told
    BY DEF Init, Told
  <1>7. Traced
    BY DEF Init, Traced, Saving
  <1> QED BY <1>1, <1>2, <1>3, <1>4, <1>5, <1>6, <1>7 DEF IInv

\* The invariant holds of every state.
LEMMA Invariant == Spec => []IInv
  <1>1. IInv /\ [Next]_vars => IInv'
    BY TypeStep, CommandsStep, UndisturbedStep, AgreedStep, WireStep, ToldStep, TracedStep
       DEF IInv
  <1> QED BY InitInv, <1>1, PTL DEF Spec

\* Every variable of the client, the file and the network keeps its type.
THEOREM TypeCorrect == Spec => []TypeOK
  <1>1. IInv => TypeOK
    BY DEF IInv
  <1> QED BY <1>1, Invariant, PTL

\* A factor that blind has handed out for is lost only if two saves
\* overlapped, a save was cut short, or an unblind died before it printed
\* (state.go, Client.Unblind).
THEOREM OnlyMishapsLose == Spec => []FactorsSurvive
  <1>1. IInv => FactorsSurvive
    BY DEF IInv, TypeOK, Undisturbed, Promised, FactorsSurvive
  <1> QED BY <1>1, Invariant, PTL

\* For the point an answer was issued for, verify accepts the answer's proof
\* with the answer's signature and with no other (DLEQProve, DLEQVerify).
THEOREM ProofsAreDecisive == Spec => []ProofsDecide
  <1>1. ASSUME IInv, NEW a \in answers, NEW b \in answers
        PROVE  Verifies(handed[a.id].blinded, b.sig, a) <=> b.sig = a.sig
    <2> DEFINE blinded == handed[a.id].blinded
               sk == Key[a.class]
    <2>1. /\ a.sig = SignBlinded(blinded, sk) /\ a.pk = PubKey(sk)
          /\ \E t \in Nonce : a.proof = DLEQProve(sk, blinded, PubKey(sk), t)
      BY <1>1 DEF IInv, Commands, AnswerOK
    <2>2. PICK t \in Nonce : a.proof = DLEQProve(sk, blinded, PubKey(sk), t)
      BY <2>1
    <2>3. /\ blinded \in Scalar /\ sk \in Scalar /\ t \in NonZero
          /\ b.sig \in Scalar /\ a.proof \in Proof
      BY <1>1, Draws DEF IInv, TypeOK, Commands, AnswerOK
    <2>4. a.proof # NoProof
      BY <2>3, NoProofAssumption DEF Proof
    <2> HIDE DEF blinded, sk
    <2>5. DLEQVerify(a.proof, blinded, a.sig, a.pk)
      BY <2>1, <2>2, <2>3, <2>4, ProofCompleteness
    <2>6. DLEQVerify(a.proof, blinded, b.sig, a.pk) => b.sig = a.sig
      BY <2>1, <2>2, <2>3, <2>4, ProofBinding
    <2>7. Verifies(handed[a.id].blinded, b.sig, a) <=> DLEQVerify(a.proof, blinded, b.sig, a.pk)
      BY DEF Verifies, blinded
    <2> QED BY <2>5, <2>6, <2>7
  <1>2. IInv => ProofsDecide
    BY <1>1 DEF ProofsDecide
  <1> QED BY <1>2, Invariant, PTL

\* What verify declared valid for the point an answer was issued for unblinds
\* to a signature that the server accepts, and nothing else does: the half of
\* ProvedUnblinds that rests on no hash (VerifyProof, Unblind, VerifyPoint).
THEOREM OwnProofUnblinds ==
  Spec => [](\A a \in answers : \A res \in results :
               res.id = a.id =>
                 (Verifies(handed[res.id].blinded, res.sig, a) <=>
                    VerifyPoint(res.out, Hash[handed[res.id].msg], a.pk)))
  <1>1. ASSUME IInv, NEW a \in answers, NEW res \in results, res.id = a.id
        PROVE  Verifies(handed[res.id].blinded, res.sig, a) <=>
                 VerifyPoint(res.out, Hash[handed[res.id].msg], a.pk)
    <2> DEFINE msg == Hash[handed[a.id].msg]
               blinded == handed[a.id].blinded
               sk == Key[a.class]
    <2>1. /\ a.sig = SignBlinded(blinded, sk) /\ a.pk = PubKey(sk)
          /\ \E t \in Nonce : a.proof = DLEQProve(sk, blinded, PubKey(sk), t)
      BY <1>1 DEF IInv, Commands, AnswerOK
    <2>2. PICK t \in Nonce : a.proof = DLEQProve(sk, blinded, PubKey(sk), t)
      BY <2>1
    <2>3. PICK r \in Factor :
            blinded = BlindMessage(msg, r) /\ res.out = UnblindSignature(res.sig, r)
      BY <1>1 DEF IInv, Agreed, OutputsOK, OutOK
    <2>4. /\ blinded \in Scalar /\ sk \in Scalar /\ t \in NonZero /\ r \in NonZero
          /\ msg \in Scalar /\ res.sig \in Scalar /\ a.proof \in Proof
      BY <1>1, Draws DEF IInv, TypeOK, Commands, AnswerOK
    <2>5. a.proof # NoProof
      BY <2>4, NoProofAssumption DEF Proof
    <2> HIDE DEF msg, blinded, sk
    <2>6. DLEQVerify(a.proof, blinded, res.sig, a.pk) => res.sig = SignBlinded(blinded, sk)
      BY <2>1, <2>2, <2>4, <2>5, ProofBinding
    <2>7. DLEQVerify(a.proof, blinded, SignBlinded(blinded, sk), a.pk)
      BY <2>1, <2>2, <2>4, <2>5, ProofCompleteness
    <2>8. VerifyPoint(res.out, msg, a.pk) => res.sig = SignBlinded(blinded, sk)
      BY <2>1, <2>3, <2>4, UnblindVerifiesOnly
    <2>9. VerifyPoint(UnblindSignature(SignBlinded(blinded, sk), r), msg, a.pk)
      BY <2>1, <2>3, <2>4, UnblindVerifies
    <2>10. DLEQVerify(a.proof, blinded, res.sig, a.pk) <=> VerifyPoint(res.out, msg, a.pk)
      BY <2>3, <2>6, <2>7, <2>8, <2>9
    <2> QED BY <1>1, <2>10 DEF Verifies, blinded, msg
  <1> DEFINE Own == \A a \in answers : \A res \in results :
                      res.id = a.id =>
                        (Verifies(handed[res.id].blinded, res.sig, a) <=>
                           VerifyPoint(res.out, Hash[handed[res.id].msg], a.pk))
  <1>2. IInv => Own
    BY <1>1
  <1> QED BY <1>2, Invariant, PTL

\* No two different statements that verify was given have one challenge: the
\* hash has not collided on what users pasted together.
NoCollision ==
  \A a \in answers : \A res \in results :
    computeChallenge(a.proof.R1, a.proof.R2, a.pk, handed[res.id].blinded, res.sig) = a.proof.C
      => handed[res.id].blinded = handed[a.id].blinded

\* What verify declared valid unblinds to a signature that the server accepts,
\* whatever points, signatures and proofs the user pasted together, unless the
\* hash has collided (VerifyProof, computeChallenge, Unblind, VerifyPoint).
THEOREM ProvedUnblindsBarringCollision == Spec => [](NoCollision => ProvedUnblinds)
  <1>1. ASSUME IInv, NoCollision, NEW a \in answers, NEW res \in results,
               Verifies(handed[res.id].blinded, res.sig, a)
        PROVE  VerifyPoint(res.out, Hash[handed[res.id].msg], a.pk)
    <2> DEFINE msg == Hash[handed[res.id].msg]
               blinded == handed[a.id].blinded
               sk == Key[a.class]
    <2>1. DLEQVerify(a.proof, handed[res.id].blinded, res.sig, a.pk)
      BY <1>1 DEF Verifies
    <2>2. handed[res.id].blinded = blinded
      BY <1>1, <2>1 DEF NoCollision, DLEQVerify
    <2>3. a.pk = PubKey(sk) /\ \E t \in Nonce : a.proof = DLEQProve(sk, blinded, PubKey(sk), t)
      BY <1>1 DEF IInv, Commands, AnswerOK
    <2>4. PICK t \in Nonce : a.proof = DLEQProve(sk, blinded, PubKey(sk), t)
      BY <2>3
    <2>5. PICK r \in Factor :
            /\ handed[res.id].blinded = BlindMessage(msg, r)
            /\ res.out = UnblindSignature(res.sig, r)
      BY <1>1 DEF IInv, Agreed, OutputsOK, OutOK
    <2>6. /\ blinded \in Scalar /\ sk \in Scalar /\ t \in NonZero /\ r \in NonZero
          /\ msg \in Scalar /\ res.sig \in Scalar /\ a.proof \in Proof
      BY <1>1, Draws DEF IInv, TypeOK, Commands, AnswerOK
    <2>7. a.proof # NoProof
      BY <2>6, NoProofAssumption DEF Proof
    <2> HIDE DEF msg, blinded, sk
    <2>8. res.sig = SignBlinded(blinded, sk)
      BY <2>1, <2>2, <2>3, <2>4, <2>6, <2>7, ProofBinding
    <2>9. VerifyPoint(UnblindSignature(SignBlinded(BlindMessage(msg, r), sk), r), msg, PubKey(sk))
      BY <2>6, UnblindVerifies
    <2> QED BY <2>2, <2>3, <2>5, <2>8, <2>9 DEF msg
  <1>2. IInv => (NoCollision => ProvedUnblinds)
    BY <1>1 DEF ProvedUnblinds
  <1> QED BY <1>2, Invariant, PTL

\* A spent credential's user has been told that it was redeemed, is about to
\* be, or was left without an answer by a call that ended too soon
\* (Client.Redeem).
THEOREM UsersAreTold == Spec => []SpentIsTold
  <1>1. IInv => SpentIsTold
    BY DEF IInv, Wire, Tells, SpentIsTold
  <1> QED BY <1>1, Invariant, PTL

\* bv redeem prints its success once: a process that hears "ok" reports a
\* credential that the server has spent and that no process has reported
\* before it, whatever was lost, killed or tried again (Client.Redeem,
\* Consume).
THEOREM SuccessOnce ==
  Spec => [][\A p \in Process :
               Receive(p) /\ reply[p] = "ok" => Credential(p) \in spent \ reports]_vars
  <1>1. IInv => \A p \in Process :
                  Receive(p) /\ reply[p] = "ok" => Credential(p) \in spent \ reports
    BY DEF IInv, Told
  <1> QED BY <1>1, Invariant, PTL

\* Nobody is told of a redemption that did not happen: what bv redeem printed a
\* success for is spent (Client.Redeem, Consume).
THEOREM ReportsAreTrue == Spec => [](reports \subseteq spent)
  <1>1. IInv => reports \subseteq spent
    BY DEF IInv, Told
  <1> QED BY <1>1, Invariant, PTL

\* What is spent goes back to the issuer: every spent credential is the
\* unblinding of a signature that Issue returned, the signature of the very
\* point that blind handed out for it under the key of the class it was spent
\* for (Blind, Issue, Unblind, Consume).
THEOREM SpentWasIssued ==
  Spec => [](\A c \in spent : \E res \in results, a \in answers :
               /\ res.out = c.sig /\ a.sig = res.sig
               /\ res.sig = SignBlinded(handed[res.id].blinded, Key[c.class]))
  <1>1. ASSUME IInv, NEW c \in spent
        PROVE  \E res \in results, a \in answers :
                 /\ res.out = c.sig /\ a.sig = res.sig
                 /\ res.sig = SignBlinded(handed[res.id].blinded, Key[c.class])
    <2>1. PICK res \in results :
            /\ res.out = c.sig
            /\ VerifyPoint(res.out, Hash[handed[res.id].msg], PubKey(Key[c.class]))
      BY <1>1 DEF IInv, Traced, Genuine
    <2>2. PICK a \in answers : a.sig = res.sig
      BY <1>1 DEF IInv, Traced
    <2> DEFINE msg == Hash[handed[res.id].msg]
    <2>3. PICK r \in Factor :
            /\ handed[res.id].blinded = BlindMessage(msg, r)
            /\ res.out = UnblindSignature(res.sig, r)
      BY <1>1 DEF IInv, Agreed, OutputsOK, OutOK
    <2>4. /\ Key[c.class] \in Scalar /\ r \in NonZero
          /\ msg \in Scalar /\ res.sig \in Scalar
      BY <1>1, Draws DEF IInv, TypeOK, Commands
    <2>5. VerifyPoint(UnblindSignature(res.sig, r), msg, PubKey(Key[c.class]))
      BY <2>1, <2>3
    <2> HIDE DEF msg
    <2>6. res.sig = SignBlinded(BlindMessage(msg, r), Key[c.class])
      BY <2>4, <2>5, UnblindVerifiesOnly
    <2> QED BY <2>1, <2>2, <2>3, <2>6
  <1> DEFINE Issued ==
        \A c \in spent : \E res \in results, a \in answers :
          /\ res.out = c.sig /\ a.sig = res.sig
          /\ res.sig = SignBlinded(handed[res.id].blinded, Key[c.class])
  <1>2. IInv => Issued
    BY <1>1
  <1> QED BY <1>2, Invariant, PTL
=============================================================================
