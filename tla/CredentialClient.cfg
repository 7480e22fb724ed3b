\* Two bv processes at once over one state file, two requests.
SPECIFICATION Spec
SYMMETRY NamesAlike
CONSTANTS
  Scalar <- Field
  Zero = 0
  One = 1
  Plus <- PlusMod
  Times <- TimesMod
  Inverse <- InverseMod
  HashTo <- HashMod
  NoProof = NoProof
  Process = {p1, p2}
  RequestID = {i1, i2}
  Message = {m1}
  Class = {k1}
  Hash <- MCHash
  Key <- MCKey
  Factor = {2, 3}
  Nonce = {1, 2}
  None = None
INVARIANTS
  TypeOK
  FactorsSurvive
  ProvedUnblinds
  ProofsDecide
  
CHECK_DEADLOCK FALSE
