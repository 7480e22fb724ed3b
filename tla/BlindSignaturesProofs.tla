------------------------ MODULE BlindSignaturesProofs ------------------------
(***************************************************************************)
(* Theorems about BlindSignatures, for every field of scalars and every    *)
(* hash: what a blinded signature unblinds to verifies, and for one        *)
(* message and key only; what the server sees at an issue and at a         *)
(* redemption tells nothing of whether they belong together; a proof that  *)
(* the server makes is accepted, with no other signature, and none can be  *)
(* made for a wrong one but at a single challenge.                         *)
(***************************************************************************)
EXTENDS BlindSignatures, TLAPS

\* Products may be taken in another order.
LEMMA Swap ==
  ASSUME NEW a \in Scalar, NEW b \in Scalar, NEW c \in Scalar
  PROVE  Times(Times(a, b), c) = Times(Times(a, c), b)
  <1>1. Times(Times(a, b), c) = Times(a, Times(b, c))
    BY FieldAssumption
  <1>2. Times(Times(a, c), b) = Times(a, Times(c, b))
    BY FieldAssumption
  <1>3. Times(b, c) = Times(c, b)
    BY FieldAssumption
  <1> QED BY <1>1, <1>2, <1>3

\* A factor that is not zero can be taken off again.
LEMMA Cancel ==
  ASSUME NEW a \in Scalar, NEW b \in NonZero
  PROVE  Times(Times(a, b), Inverse(b)) = a
  <1>1. b \in Scalar /\ Inverse(b) \in Scalar /\ Times(b, Inverse(b)) = One
    BY FieldAssumption DEF NonZero
  <1>2. Times(Times(a, b), Inverse(b)) = Times(a, Times(b, Inverse(b)))
    BY <1>1, FieldAssumption
  <1> QED BY <1>1, <1>2, FieldAssumption

\* Two scalars with the same multiple by one that is not zero are the same.
LEMMA TimesInjective ==
  ASSUME NEW a \in Scalar, NEW b \in Scalar, NEW c \in NonZero, Times(a, c) = Times(b, c)
  PROVE  a = b
  BY Cancel

\* A summand can be taken off on both sides.
LEMMA PlusInjective ==
  ASSUME NEW a \in Scalar, NEW b \in Scalar, NEW c \in Scalar, Plus(a, b) = Plus(a, c)
  PROVE  b = c
  <1>1. PICK n \in Scalar : Plus(a, n) = Zero
    BY FieldAssumption
  <1>2. \A d \in Scalar : Plus(n, Plus(a, d)) = d
    <2> TAKE d \in Scalar
    <2>1. Plus(n, Plus(a, d)) = Plus(Plus(n, a), d) /\ Plus(n, a) = Plus(a, n)
      BY FieldAssumption
    <2>2. Plus(Zero, d) = d
      BY FieldAssumption
    <2> QED BY <1>1, <2>1, <2>2
  <1> QED BY <1>2

\* A product distributes over a sum on its right as well.
LEMMA Distributes ==
  ASSUME NEW a \in Scalar, NEW b \in Scalar, NEW c \in Scalar
  PROVE  Times(a, Plus(b, c)) = Plus(Times(a, b), Times(a, c))
  <1>1. Plus(b, c) \in Scalar
    BY FieldAssumption
  <1>2. Times(a, Plus(b, c)) = Times(Plus(b, c), a)
    BY <1>1, FieldAssumption
  <1>3. Times(Plus(b, c), a) = Plus(Times(b, a), Times(c, a))
    BY FieldAssumption
  <1>4. Times(b, a) = Times(a, b) /\ Times(c, a) = Times(a, c)
    BY FieldAssumption
  <1> QED BY <1>2, <1>3, <1>4

\* Zero times anything is zero.
LEMMA TimesZero ==
  ASSUME NEW a \in Scalar
  PROVE  Times(a, Zero) = Zero /\ Times(Zero, a) = Zero
  <1>1. Zero \in Scalar /\ Times(Zero, a) \in Scalar /\ Times(a, Zero) = Times(Zero, a)
    BY FieldAssumption
  <1>2. Plus(Zero, Zero) = Zero
    BY <1>1, FieldAssumption
  <1>3. Times(Plus(Zero, Zero), a) = Plus(Times(Zero, a), Times(Zero, a))
    BY <1>1, FieldAssumption
  <1>4. Plus(Times(Zero, a), Zero) = Times(Zero, a)
    BY <1>1, FieldAssumption
  <1>5. Plus(Times(Zero, a), Zero) = Plus(Times(Zero, a), Times(Zero, a))
    BY <1>2, <1>3, <1>4
  <1>6. Zero = Times(Zero, a)
    BY <1>1, <1>5, PlusInjective
  <1> QED BY <1>1, <1>6

\* Scalars that are not zero are closed under multiplication and inverses.
LEMMA NonZeroClosed ==
  ASSUME NEW a \in NonZero, NEW b \in NonZero
  PROVE  Times(a, b) \in NonZero /\ Inverse(a) \in NonZero
  <1>1. /\ a \in Scalar /\ b \in Scalar /\ Zero \in Scalar /\ One # Zero
        /\ Inverse(a) \in Scalar /\ Times(a, Inverse(a)) = One
        /\ Times(a, b) \in Scalar
    BY FieldAssumption DEF NonZero
  <1>2. Inverse(a) # Zero
    BY <1>1, TimesZero
  <1>3. ASSUME Times(a, b) = Zero PROVE FALSE
    <2>1. Times(Times(a, b), Inverse(b)) = a
      BY <1>1, Cancel
    <2>2. Times(Zero, Inverse(b)) = Zero
      BY TimesZero, FieldAssumption DEF NonZero
    <2> QED BY <1>3, <2>1, <2>2 DEF NonZero
  <1> QED BY <1>1, <1>2, <1>3 DEF NonZero

\* Two scalars differ by a scalar, which is zero only when they are the same.
LEMMA Difference ==
  ASSUME NEW a \in Scalar, NEW b \in Scalar, a # b
  PROVE  \E d \in NonZero : a = Plus(b, d)
  <1>1. PICK n \in Scalar : Plus(b, n) = Zero
    BY FieldAssumption
  <1> DEFINE d == Plus(n, a)
  <1>2. d \in Scalar /\ Plus(b, d) = Plus(Plus(b, n), a)
    BY FieldAssumption
  <1>3. Plus(Zero, a) = a /\ Plus(b, Zero) = b
    BY FieldAssumption
  <1>4. Plus(b, d) = a
    BY <1>1, <1>2, <1>3
  <1>5. d # Zero
    BY <1>3, <1>4
  <1> QED BY <1>2, <1>4, <1>5 DEF NonZero

\* What Client.Unblind makes of the signature of a blinded message is a
\* signature that the server's pairing check accepts for the message itself
\* (BlindMessage, SignBlinded, UnblindSignature, VerifyPoint).
THEOREM UnblindVerifies ==
  ASSUME NEW msg \in Scalar, NEW sk \in Scalar, NEW r \in NonZero
  PROVE  VerifyPoint(UnblindSignature(SignBlinded(BlindMessage(msg, r), sk), r),
                     msg, PubKey(sk))
  <1>1. r \in Scalar
    BY DEF NonZero
  <1>2. Times(Times(msg, r), sk) = Times(Times(msg, sk), r)
    BY <1>1, Swap
  <1>3. Times(msg, sk) \in Scalar
    BY FieldAssumption
  <1>4. Times(Times(Times(msg, sk), r), Inverse(r)) = Times(msg, sk)
    BY <1>3, Cancel
  <1> QED
    BY <1>2, <1>4 DEF VerifyPoint, UnblindSignature, SignBlinded, BlindMessage, PubKey

\* And of a signature with another key or for another message it never makes
\* one that verifies (UnblindSignature, VerifyPoint).
THEOREM UnblindVerifiesOnly ==
  ASSUME NEW msg \in Scalar, NEW sk \in Scalar, NEW r \in NonZero, NEW sig \in Scalar,
         VerifyPoint(UnblindSignature(sig, r), msg, PubKey(sk))
  PROVE  sig = SignBlinded(BlindMessage(msg, r), sk)
  <1>1. r \in Scalar /\ Inverse(r) \in Scalar /\ Times(r, Inverse(r)) = One
    BY FieldAssumption DEF NonZero
  <1>2. Times(sig, Inverse(r)) = Times(msg, sk)
    BY DEF VerifyPoint, UnblindSignature, PubKey
  <1>3. Times(Times(sig, Inverse(r)), r) = Times(Times(sig, r), Inverse(r))
    BY <1>1, Swap
  <1>4. Times(Times(sig, r), Inverse(r)) = sig
    BY Cancel
  <1>5. Times(Times(msg, sk), r) = Times(Times(msg, r), sk)
    BY <1>1, Swap
  <1> QED
    BY <1>2, <1>3, <1>4, <1>5 DEF SignBlinded, BlindMessage

\* The proof that comes with an answer is accepted (DLEQProve, DLEQVerify).
THEOREM ProofCompleteness ==
  ASSUME NEW sk \in Scalar, NEW blinded \in Scalar, NEW t \in NonZero,
         DLEQProve(sk, blinded, PubKey(sk), t) # NoProof
  PROVE  DLEQVerify(DLEQProve(sk, blinded, PubKey(sk), t),
                    blinded, SignBlinded(blinded, sk), PubKey(sk))
  <1> DEFINE c == computeChallenge(t, Times(blinded, t), sk, blinded, Times(blinded, sk))
             s == Plus(t, Times(c, sk))
             proof == [R1 |-> t, R2 |-> Times(blinded, t), S |-> s, C |-> c]
  <1>1. t \in Scalar /\ Times(blinded, t) \in Scalar /\ Times(blinded, sk) \in Scalar
    BY FieldAssumption DEF NonZero
  <1>2. c \in Scalar
    BY <1>1, HashAssumption DEF computeChallenge
  <1>3. Times(c, sk) = Times(sk, c) /\ Times(c, sk) \in Scalar
    BY <1>2, FieldAssumption
  <1>4. DLEQProve(sk, blinded, PubKey(sk), t) = proof
    BY DEF DLEQProve, PubKey
  <1> HIDE DEF c
  <1>5. Times(blinded, s) = Plus(Times(blinded, t), Times(Times(blinded, sk), c))
    <2>1. s \in Scalar /\ Times(blinded, s) = Times(s, blinded)
      BY <1>1, <1>3, FieldAssumption
    <2>2. Times(s, blinded) = Plus(Times(t, blinded), Times(Times(c, sk), blinded))
      BY <1>1, <1>3, FieldAssumption
    <2>3. Times(t, blinded) = Times(blinded, t)
      BY <1>1, FieldAssumption
    <2>4. Times(Times(c, sk), blinded) = Times(blinded, Times(sk, c))
      BY <1>3, FieldAssumption
    <2>5. Times(blinded, Times(sk, c)) = Times(Times(blinded, sk), c)
      BY <1>2, FieldAssumption
    <2> QED BY <2>1, <2>2, <2>3, <2>4, <2>5
  <1>6. proof.C = c /\ proof.S = s /\ proof.R1 = t /\ proof.R2 = Times(blinded, t)
    OBVIOUS
  <1>7. c = computeChallenge(t, Times(blinded, t), sk, blinded, Times(blinded, sk))
    BY DEF c
  <1> HIDE DEF proof
  <1> QED
    BY <1>3, <1>4, <1>5, <1>6, <1>7 DEF DLEQVerify, SignBlinded, PubKey

\* A proof that the server made for a point is accepted for that point with
\* the signature of the key it names, and with no other: nobody passes off
\* another signature under it (DLEQProve, DLEQVerify).
THEOREM ProofBinding ==
  ASSUME NEW sk \in Scalar, NEW blinded \in Scalar, NEW t \in NonZero, NEW sig \in Scalar,
         DLEQProve(sk, blinded, PubKey(sk), t) # NoProof,
         DLEQVerify(DLEQProve(sk, blinded, PubKey(sk), t), blinded, sig, PubKey(sk))
  PROVE  sig = SignBlinded(blinded, sk)
  <1> DEFINE proof == DLEQProve(sk, blinded, PubKey(sk), t)
             good == Times(blinded, sk)
  <1>1. t \in Scalar /\ Times(blinded, t) \in Scalar /\ good \in Scalar
    BY FieldAssumption DEF NonZero
  <1>2. proof.R2 = Times(blinded, t)
        /\ proof.C = computeChallenge(t, Times(blinded, t), sk, blinded, good)
    BY DEF DLEQProve, PubKey
  <1>3. proof.C \in NonZero
    BY <1>1, <1>2, HashAssumption DEF computeChallenge, NonZero
  <1>4. DLEQVerify(proof, blinded, good, PubKey(sk))
    BY ProofCompleteness DEF SignBlinded
  <1>5. Plus(proof.R2, Times(sig, proof.C)) = Plus(proof.R2, Times(good, proof.C))
    BY <1>4 DEF DLEQVerify
  <1> HIDE DEF proof, good
  <1>6. proof.C \in Scalar /\ proof.R2 \in Scalar
    BY <1>1, <1>2, <1>3 DEF NonZero
  <1>7. Times(sig, proof.C) \in Scalar /\ Times(good, proof.C) \in Scalar
    BY <1>1, <1>6, FieldAssumption
  <1>8. Times(sig, proof.C) = Times(good, proof.C)
    BY <1>5, <1>6, <1>7, PlusInjective
  <1>9. sig = good
    BY <1>1, <1>3, <1>8, TimesInjective
  <1> QED BY <1>9 DEF good, SignBlinded

\* The server learns nothing of the message from the point that it signs:
\* whatever message the client may have had, there is exactly one factor that
\* blinds it to that point (BlindMessage).
THEOREM Blindness ==
  ASSUME NEW msg \in NonZero, NEW blinded \in NonZero
  PROVE  \E r \in NonZero :
           /\ BlindMessage(msg, r) = blinded
           /\ \A q \in NonZero : BlindMessage(msg, q) = blinded => q = r
  <1> DEFINE r == Times(blinded, Inverse(msg))
  <1>1. /\ msg \in Scalar /\ blinded \in Scalar
        /\ Inverse(msg) \in Scalar /\ Times(msg, Inverse(msg)) = One
    BY FieldAssumption DEF NonZero
  <1>2. Inverse(msg) \in NonZero
    BY NonZeroClosed
  <1>3. r \in NonZero
    BY <1>2, NonZeroClosed
  <1>4. Times(msg, r) = blinded
    <2>1. r \in Scalar /\ Times(msg, r) = Times(r, msg)
      BY <1>1, FieldAssumption
    <2>2. Times(r, msg) = Times(Times(blinded, msg), Inverse(msg))
      BY <1>1, Swap
    <2> QED BY <1>1, <2>1, <2>2, Cancel
  <1>5. ASSUME NEW q \in NonZero, Times(msg, q) = blinded PROVE q = r
    <2>1. q \in Scalar /\ r \in Scalar
      BY <1>3 DEF NonZero
    <2>2. Times(q, msg) = Times(msg, q) /\ Times(r, msg) = Times(msg, r)
      BY <1>1, <2>1, FieldAssumption
    <2> HIDE DEF r
    <2> QED BY <1>4, <1>5, <2>1, <2>2, TimesInjective
  <1> HIDE DEF r
  <1> QED BY <1>3, <1>4, <1>5 DEF BlindMessage

\* Unlinkability, the promise of the whole scheme: the point and the signature
\* that the server saw when it issued, and the message and the signature that
\* it sees at a redemption under the same key, always fit each other, by
\* exactly one factor.  Of any issue and any redemption the server can
\* therefore not tell whether they are the same ticket's (BlindMessage,
\* SignBlinded, UnblindSignature).
THEOREM Unlinkability ==
  ASSUME NEW sk \in Scalar, NEW blinded \in NonZero, NEW msg \in NonZero,
         NEW sig \in Scalar, VerifyPoint(sig, msg, PubKey(sk))
  PROVE  \E r \in NonZero :
           /\ BlindMessage(msg, r) = blinded
           /\ UnblindSignature(SignBlinded(blinded, sk), r) = sig
           /\ \A q \in NonZero : BlindMessage(msg, q) = blinded => q = r
  <1>1. PICK r \in NonZero :
          /\ BlindMessage(msg, r) = blinded
          /\ \A q \in NonZero : BlindMessage(msg, q) = blinded => q = r
    BY Blindness
  <1>2. msg \in Scalar
    BY DEF NonZero
  <1>3. VerifyPoint(UnblindSignature(SignBlinded(BlindMessage(msg, r), sk), r),
                    msg, PubKey(sk))
    BY <1>2, UnblindVerifies
  <1>4. UnblindSignature(SignBlinded(blinded, sk), r) = sig
    BY <1>1, <1>3 DEF VerifyPoint
  <1> QED BY <1>1, <1>4

\* A signature is accepted for one message under one key only: not for
\* another message under the same key (a key is never zero), and not for the
\* same message under another epoch's or class's key (VerifyPoint, PubKey).
\* It is why the other modules may take a credential to be a pair of a
\* message and a claim (Credentials).
THEOREM SignatureNamesOne ==
  ASSUME NEW msg \in NonZero, NEW other \in NonZero,
         NEW sk \in NonZero, NEW another \in NonZero, NEW sig \in Scalar,
         VerifyPoint(sig, msg, PubKey(sk)), VerifyPoint(sig, other, PubKey(another))
  PROVE  msg = other <=> sk = another
  <1>1. /\ msg \in Scalar /\ other \in Scalar /\ sk \in Scalar /\ another \in Scalar
        /\ Times(msg, sk) = Times(other, another)
    BY DEF NonZero, VerifyPoint, PubKey
  <1>2. ASSUME sk = another PROVE msg = other
    BY <1>1, <1>2, TimesInjective
  <1>3. ASSUME msg = other PROVE sk = another
    <2>1. Times(sk, msg) = Times(another, msg)
      BY <1>1, <1>3, FieldAssumption
    <2> QED BY <1>1, <2>1, TimesInjective
  <1> QED BY <1>2, <1>3

\* What DLEQVerify compares beside the challenge: the two equations of the
\* proof.
Equations(proof, blinded, sig, pk) ==
  /\ proof.S = Plus(proof.R1, Times(pk, proof.C))
  /\ Times(blinded, proof.S) = Plus(proof.R2, Times(sig, proof.C))

\* DLEQVerify accepts a proof whose challenge is the hash of what it is about
\* and which meets the two equations (DLEQVerify).
LEMMA AcceptedEquations ==
  ASSUME NEW proof \in Proof, NEW blinded \in Scalar, NEW sig \in Scalar, NEW pk \in Scalar
  PROVE  DLEQVerify(proof, blinded, sig, pk)
           <=> /\ proof.C = computeChallenge(proof.R1, proof.R2, pk, blinded, sig)
               /\ Equations(proof, blinded, sig, pk)
  BY DEF DLEQVerify, Equations

\* Why a proof can be believed whoever made it: for a signature that is not
\* the key's, whatever the two commitments are, the equations can be met at one
\* challenge at most.  The challenge is a hash over the commitments, so that
\* whoever passes off a wrong signature has to have hit that one value
\* (DLEQVerify).
THEOREM ProofSoundness ==
  ASSUME NEW sk \in Scalar, NEW blinded \in Scalar, NEW sig \in Scalar,
         sig # SignBlinded(blinded, sk),
         NEW p \in Proof, NEW q \in Proof, p.R1 = q.R1, p.R2 = q.R2,
         Equations(p, blinded, sig, PubKey(sk)), Equations(q, blinded, sig, PubKey(sk))
  PROVE  p = q
  <1> DEFINE good == Times(blinded, sk)
  <1>1. /\ p.R1 \in Scalar /\ p.R2 \in Scalar /\ p.S \in Scalar /\ p.C \in Scalar
        /\ q.R1 \in Scalar /\ q.R2 \in Scalar /\ q.S \in Scalar /\ q.C \in Scalar
    BY DEF Proof
  <1>2. ASSUME p.C # q.C PROVE FALSE
    <2>1. PICK d \in NonZero : p.C = Plus(q.C, d)
      BY <1>1, <1>2, Difference
    <2>2. d \in Scalar
      BY DEF NonZero
    <2>3. ASSUME NEW a \in Scalar
          PROVE  Times(a, p.C) = Plus(Times(a, q.C), Times(a, d))
      <3>1. Times(a, Plus(q.C, d)) = Plus(Times(a, q.C), Times(a, d))
        BY <1>1, <2>2, Distributes
      <3> QED BY <2>1, <3>1
    <2>4. ASSUME NEW a \in Scalar, NEW b \in Scalar
          PROVE  Plus(b, Times(a, p.C)) = Plus(Plus(b, Times(a, q.C)), Times(a, d))
      <3>1. Times(a, q.C) \in Scalar /\ Times(a, d) \in Scalar
        BY <1>1, <2>2, FieldAssumption
      <3> QED BY <2>3, <3>1, FieldAssumption
    <2>5. p.S = Plus(q.S, Times(sk, d))
      BY <1>1, <2>4 DEF Equations, PubKey
    <2>6. Times(blinded, p.S) = Plus(Times(blinded, q.S), Times(sig, d))
      BY <1>1, <2>4 DEF Equations
    <2>7. Times(blinded, Plus(q.S, Times(sk, d)))
            = Plus(Times(blinded, q.S), Times(blinded, Times(sk, d)))
      <3>1. Times(sk, d) \in Scalar
        BY <2>2, FieldAssumption
      <3> QED BY <1>1, <3>1, Distributes
    <2>8. Times(blinded, Times(sk, d)) = Times(good, d)
      BY <2>2, FieldAssumption
    <2>9. /\ Times(blinded, q.S) \in Scalar /\ Times(sig, d) \in Scalar
          /\ Times(good, d) \in Scalar /\ good \in Scalar
      BY <1>1, <2>2, FieldAssumption
    <2> HIDE DEF good
    <2>10. Times(sig, d) = Times(good, d)
      BY <2>5, <2>6, <2>7, <2>8, <2>9, PlusInjective
    <2>11. sig = good
      BY <2>9, <2>10, TimesInjective
    <2> QED BY <2>11 DEF good, SignBlinded
  <1>3. p.S = q.S
    BY <1>2 DEF Equations
  <1> QED BY <1>2, <1>3 DEF Proof
=============================================================================
