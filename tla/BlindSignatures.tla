-------------------------- MODULE BlindSignatures --------------------------
(***************************************************************************)
(* BLS12Engine (pkg/crypto): blinding, signing, unblinding, the pairing    *)
(* check and the proof that two discrete logarithms are equal, written     *)
(* over an arbitrary field of scalars.                                     *)
(*                                                                         *)
(* The curve is a library's.  A point of either group is its logarithm to  *)
(* the group's generator, so that multiplying a point by a scalar is Times *)
(* and adding points is Plus; the pairing check e(sig, G2) = e(M, PK)      *)
(* compares sig with Times(M, PK).  That logarithms are hard to find is no *)
(* part of this: what is shown holds of the values themselves.             *)
(***************************************************************************)
CONSTANTS Scalar, Zero, One,
          Plus(_, _), Times(_, _), Inverse(_),
          HashTo(_),    \* blst: bytes to a scalar
          NoProof       \* DLEQProve's error

ASSUME FieldAssumption ==
  /\ Zero \in Scalar /\ One \in Scalar \ {Zero}
  /\ \A a, b \in Scalar : Plus(a, b) \in Scalar /\ Times(a, b) \in Scalar
  /\ \A a, b, c \in Scalar :
       /\ Plus(a, Plus(b, c)) = Plus(Plus(a, b), c)
       /\ Times(a, Times(b, c)) = Times(Times(a, b), c)
       /\ Times(Plus(a, b), c) = Plus(Times(a, c), Times(b, c))
  /\ \A a, b \in Scalar : Plus(a, b) = Plus(b, a) /\ Times(a, b) = Times(b, a)
  /\ \A a \in Scalar : Plus(a, Zero) = a /\ Times(a, One) = a
  /\ \A a \in Scalar : \E b \in Scalar : Plus(a, b) = Zero
  /\ \A a \in Scalar \ {Zero} : Inverse(a) \in Scalar /\ Times(a, Inverse(a)) = One

\* HashTo fails rather than return zero (blst).
ASSUME HashAssumption ==
  \A R1, R2, PK, Bprime, Cprime \in Scalar :
    HashTo(<<R1, R2, PK, Bprime, Cprime>>) \in Scalar \ {Zero}
ASSUME NoProofAssumption == NoProof \notin [R1 : Scalar, R2 : Scalar, S : Scalar, C : Scalar]

\* Secret keys, blinding factors and nonces all come from HashTo.
NonZero == Scalar \ {Zero}

Proof == [R1 : Scalar, R2 : Scalar, S : Scalar, C : Scalar]

PubKey(sk) == sk

BlindMessage(msg, r) == Times(msg, r)

SignBlinded(blinded, sk) == Times(blinded, sk)

\* Mutant: the factor is applied a second time instead of being taken off.
UnblindWithFactor(sig, r) == Times(sig, r)

UnblindSignature(sig, r) == Times(sig, Inverse(r))

VerifyPoint(sig, msg, pk) == sig = Times(msg, pk)

\* The hash of the five compressed points, one after the other: each has its
\* own length, so that they cannot run into each other.
computeChallenge(R1, R2, PK, Bprime, Cprime) == HashTo(<<R1, R2, PK, Bprime, Cprime>>)

\* The nonce t is drawn by the caller here.  blst's scalar addition reports a
\* sum of zero as a failure.
DLEQProve(sk, blinded, pk, t) ==
  LET c == computeChallenge(t, Times(blinded, t), pk, blinded, Times(blinded, sk))
      s == Plus(t, Times(c, sk))
  IN IF s = Zero THEN NoProof
     ELSE [R1 |-> t, R2 |-> Times(blinded, t), S |-> s, C |-> c]

\* Mutant: only the equation for the key is checked.
DLEQVerifyKeyOnly(proof, blinded, sig, pk) ==
  proof.S = Plus(proof.R1, Times(pk, proof.C))

DLEQVerify(proof, blinded, sig, pk) ==
  /\ proof.C = computeChallenge(proof.R1, proof.R2, pk, blinded, sig)
  /\ proof.S = Plus(proof.R1, Times(pk, proof.C))
  /\ Times(blinded, proof.S) = Plus(proof.R2, Times(sig, proof.C))
=============================================================================
