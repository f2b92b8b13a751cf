SPECIFICATION FairSpec
CONSTANTS
  nft1 = nft1  nft2 = nft2  ics721_1 = ics721_1  ics721_0 = ics721_0
  Nfts = {nft1, nft2}
  Versions = {ics721_1, ics721_0}
  IBC_VERSION = ics721_1
  MaxPackets = 5
INVARIANTS OpenEndsAgree NeverClosesOnIcs721 EscrowClaimed HandshakeInv
PROPERTIES PendingReturned
CHECK_DEADLOCK FALSE
