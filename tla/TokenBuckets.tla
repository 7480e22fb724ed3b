---------------------------- MODULE TokenBuckets ----------------------------
(***************************************************************************)
(* What the rate limiter promises (internal/api/rate_limiter.go: "per-IP   *)
(* rate limiting using a token bucket"): every address has a bucket of its *)
(* own, filled at a steady rate, and a request passes exactly when the     *)
(* bucket holds its cost.  A limiter with a table of limited size may      *)
(* forget buckets, which come back full.                                   *)
(***************************************************************************)
EXTENDS Integers

CONSTANTS Address,
          Rate,       \* what flows into a bucket in one tick
          Cost,       \* of one request
          Capacity    \* of a bucket

VARIABLES now,
          level,      \* of each address's bucket
          granted,    \* requests that passed, per address
          answer,     \* of the latest request
          forgotten   \* addresses whose bucket was ever forgotten

vars == <<now, level, granted, answer, forgotten>>

Min(a, b) == IF a <= b THEN a ELSE b

Init ==
  /\ now = 0
  /\ level = [a \in Address |-> Capacity]
  /\ granted = [a \in Address |-> 0]
  /\ answer = <<>>
  /\ forgotten = {}

\* Some buckets are forgotten, by the way.
Refilled(lost) == [a \in Address |-> IF a \in lost THEN Capacity ELSE level[a]]

Grant(a, lost) ==
  /\ level[a] >= Cost
  /\ level' = [Refilled(lost) EXCEPT ![a] = @ - Cost]
  /\ granted' = [granted EXCEPT ![a] = @ + 1]
  /\ answer' = <<a, TRUE>>
  /\ forgotten' = forgotten \cup lost
  /\ UNCHANGED now

Refuse(a, lost) ==
  /\ level[a] < Cost
  /\ level' = Refilled(lost)
  /\ answer' = <<a, FALSE>>
  /\ forgotten' = forgotten \cup lost
  /\ UNCHANGED <<now, granted>>

Forget(lost) ==
  /\ level' = Refilled(lost)
  /\ forgotten' = forgotten \cup lost
  /\ UNCHANGED <<now, granted, answer>>

Flow ==
  /\ now' = now + 1
  /\ level' = [a \in Address |-> Min(Capacity, level[a] + Rate)]
  /\ UNCHANGED <<granted, answer, forgotten>>

Next ==
  \/ \E lost \in SUBSET Address :
       \/ \E a \in Address \ lost : Grant(a, lost) \/ Refuse(a, lost)
       \/ Forget(lost)
  \/ Flow

Spec == Init /\ [][Next]_vars
=============================================================================
