SPECIFICATION Spec
CONSTANTS
  h = h  v = v  e1 = e1  e2 = e2
  Users = {u1, u2}
  Tokens = {t1}
  Ends = {e1, e2}
  Classes = {h, v}
  Via <- MCVia
  Moves = {"keep", "resend"}
  MaxTokens = 2
  MaxSent = 1
  Ics721 = Ics721
  Nobody = Nobody
  NoEnd = NoEnd
  NoPacket = NoPacket
SYMMETRY MCSymmetry
INVARIANTS EscrowHasChannel
