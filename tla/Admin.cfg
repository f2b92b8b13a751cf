SPECIFICATION AdminSpec
CONSTANTS
  A = A  B = B  x = x
  a1 = a1  a2 = a2  b1 = b1  b2 = b2
  p1 = p1  p2 = p2  u1 = u1
  Chains = {A, B}
  Users = {u1}
  Tokens = {t1}
  Collections = {x}
  Homes <- MCHomes
  Ends = {a1, a2, b1, b2}
  ChainOf <- MCChainOf
  Peer <- MCPeer
  Prefixes = {p1, p2}
  Prefix <- MCPrefix
  MaxHops = 2
  Flights = {f1, f2}
  Admin <- MCAdmin
  Careful = TRUE
  Ics721 = Ics721
  Nobody = Nobody
  NoEnd = NoEnd
  NoPacket = NoPacket
SYMMETRY MCSymmetry
INVARIANTS BackingInv
PROPERTIES RecoverySpec
