SPECIFICATION Spec
CONSTANTS
  x = x  y = y  v = v  w = w
  c1 = c1  c2 = c2
  Collections = {x, y}
  Vouchers = {v, w}
  CodeIds = {c1, c2}
  Checksum <- MCChecksum
  Lengths = {20, 64}
  HashLength = 32
  ChainLength = 20
  Rank <- MCRank
  MaxLimit = 2
  NoClass = NoClass
  NoAddress = NoAddress
INVARIANTS RegisteredExists RegistryInv ListingComplete
PROPERTIES ContractsStay
