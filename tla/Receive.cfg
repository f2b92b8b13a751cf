SPECIFICATION Spec
CONSTANTS
  h = h  v = v  e1 = e1  e2 = e2
  Users = {u1, u2}
  Tokens = {t1, t2}
  Ends = {e1, e2}
  Classes = {v}
  Via <- MCVia
  Moves = {"keep", "give", "pause", "resend"}
  MaxTokens = 2
  MaxSent = 1
  Ics721 = Ics721
  Nobody = Nobody
  NoEnd = NoEnd
  NoPacket = NoPacket
SYMMETRY MCSymmetry
INVARIANTS VouchersRecorded CallbackSeesDelivery
PROPERTIES ReceiptSpec
