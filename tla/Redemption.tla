----------------------------- MODULE Redemption -----------------------------
(***************************************************************************)
(* What redemption promises, with no server in sight: a request claims a   *)
(* credential and gets one verdict.  A genuine credential is accepted at   *)
(* most once, and "duplicate" is said only of a credential that some       *)
(* request was accepted for.  Declining (revoked, invalid, unavailable) is *)
(* always allowed and never spends anything.                               *)
(*                                                                         *)
(* Promise made by NullifierStore.CheckAndStore's contract                 *)
(* (internal/storage/store.go) and by Consume                              *)
(* (internal/service/credentials.go).                                      *)
(***************************************************************************)
CONSTANTS Request,      \* redemption requests, each made once
          Credential,   \* what a request may claim
          Genuine,      \* the claims that verify under the issuer's keys
          NoClaim       \* a request that has not been made yet

VARIABLES claim, verdict

vars == <<claim, verdict>>

Accepted == {r \in Request : verdict[r] = "accepted"}
Spent == {claim[r] : r \in Accepted}
Undecided(r) == claim[r] # NoClaim /\ verdict[r] = "none"

TypeOK ==
  /\ claim \in [Request -> Credential \cup {NoClaim}]
  /\ verdict \in [Request -> {"none", "accepted", "duplicate", "declined"}]

Init ==
  /\ claim = [r \in Request |-> NoClaim]
  /\ verdict = [r \in Request |-> "none"]

Present(r) ==
  /\ claim[r] = NoClaim
  /\ \E c \in Credential : claim' = [claim EXCEPT ![r] = c]
  /\ UNCHANGED verdict

Accept(r) ==
  /\ Undecided(r)
  /\ claim[r] \in Genuine \ Spent
  /\ verdict' = [verdict EXCEPT ![r] = "accepted"]
  /\ UNCHANGED claim

RefuseDuplicate(r) ==
  /\ Undecided(r)
  /\ claim[r] \in Spent
  /\ verdict' = [verdict EXCEPT ![r] = "duplicate"]
  /\ UNCHANGED claim

Decline(r) ==
  /\ Undecided(r)
  /\ verdict' = [verdict EXCEPT ![r] = "declined"]
  /\ UNCHANGED claim

Next == \E r \in Request :
          Present(r) \/ Accept(r) \/ RefuseDuplicate(r) \/ Decline(r)

Spec == Init /\ [][Next]_vars
=============================================================================
