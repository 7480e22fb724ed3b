------------------------- MODULE MCCredentialClient -------------------------
(* A small instance of CredentialClient for TLC: the field of five scalars. *)
EXTENDS CredentialClient, Integers, TLC

Field == 0..4
PlusMod(a, b) == (a + b) % 5
TimesMod(a, b) == (a * b) % 5
InverseMod(a) == IF a = 0 THEN 0 ELSE CHOOSE b \in Field : (a * b) % 5 = 1
HashMod(data) ==
  1 + ((data[1] + 2 * data[2] + 3 * data[3] + data[4] + 2 * data[5]) % 4)

MCHash == [m \in Message |-> 1]
MCKey == [k \in Class |-> 2]

\* No property tells two processes or two identifiers apart.
NamesAlike == Permutations(Process) \cup Permutations(RequestID)
=============================================================================
