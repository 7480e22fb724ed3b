---------------------------- MODULE Credentials ----------------------------
(***************************************************************************)
(* The symbolic view of the cryptography that redemption rests on.  There  *)
(* is one signing key per (epoch, class); an unblinded signature is the    *)
(* pair of that key and the token (message) it was made over; it verifies  *)
(* against the token's witness under that key and no other.  Honest        *)
(* clients only: a client presents signatures the issuer made for it, but  *)
(* may present one under another class or epoch, or send a byte string     *)
(* that is no curve point.                                                 *)
(***************************************************************************)
CONSTANTS Class, Epoch, Token,
          SupportedEpochs,     \* Config.SupportedEpochs
          NotAPoint            \* 48 bytes that do not decode to a G1 point

ASSUME SupportedAssumption == SupportedEpochs \subseteq Epoch

\* One BLS key per epoch and class: HKDF over the master seed with both in
\* the info string.
DeriveSigningKey(epoch, class) == <<epoch, class>>

Signature == [key : Epoch \X Class, token : Token]

\* What POST /v1/credential/consume carries once its JSON fields are valid.
Presentation == [class : Class, epoch : Epoch, sig : Signature \cup {NotAPoint}]

IsEpochSupported(epoch) == epoch \in SupportedEpochs

\* e(sig, G2) = e(witness, PK): the signature was made with this very key.
VerifyPoint(sig, pk) == sig.key = pk

\* Mutant: hash the message in place of the signature and forget the class.
HashMessageOnly(epoch, class, sig) == <<epoch, sig.token>>

\* SHA-256 over epoch, class and signature; collisions do not happen.
ComputeNullifier(epoch, class, sig) == <<epoch, class, sig>>

NullifierOf(p) == ComputeNullifier(p.epoch, p.class, p.sig)

\* The presentations that pass every check that depends on the credential.
GenuinePresentation(p) ==
  /\ IsEpochSupported(p.epoch)
  /\ p.sig # NotAPoint
  /\ VerifyPoint(p.sig, DeriveSigningKey(p.epoch, p.class))
=============================================================================
