SPECIFICATION Spec
CONSTANTS
  alice = alice  bob = bob  p1 = p1  p2 = p2  nft = nft
  Accounts = {alice, bob}
  ProxyAdmins = {alice}
  Proxies = {p1, p2}
  Nfts = {nft}
  Ics721 = Ics721
  MaxMigrations = 2
  NoAddress = NoAddress
SYMMETRY ProxySymmetry
INVARIANTS ProxiesAsAsked PauseOncePerNomination
PROPERTIES PauseHolds OneWayOut
