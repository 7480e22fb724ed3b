------------------------ MODULE MCCredentialService ------------------------
(* Small instances of CredentialService for TLC. *)
EXTENDS CredentialService

CONSTANTS c1, c2, e1, e2, t1

Made(epoch, class, token) == [key |-> DeriveSigningKey(epoch, class), token |-> token]
Shown(class, epoch, sig) == [class |-> class, epoch |-> epoch, sig |-> sig]

\* Two genuine credentials over one message, in different classes; one of them
\* shown under the wrong epoch; one of an epoch no longer supported; junk.
MCPresented ==
  { Shown(c1, e1, Made(e1, c1, t1)),
    Shown(c2, e1, Made(e1, c2, t1)),
    Shown(c1, e1, Made(e2, c1, t1)),
    Shown(c1, e2, Made(e2, c1, t1)),
    Shown(c1, e1, NotAPoint) }

\* Genuine credentials of two supported epochs.
MCGenuine == { Shown(c1, e1, Made(e1, c1, t1)), Shown(c1, e2, Made(e2, c1, t1)) }

\* One permanent order, for the runs that are about redemption.
MCPermanent == {<<c1, AllEpochs, Forever>>}
\* Class-wide orders that run out, an epoch order that does not.
MCOverlapping == {<<c1, AllEpochs, 1>>, <<c1, AllEpochs, 2>>, <<c1, e1, Forever>>}
\* An epoch order that runs out under a permanent class-wide one.
MCLapsing == {<<c1, AllEpochs, Forever>>, <<c1, e1, 1>>}
=============================================================================
