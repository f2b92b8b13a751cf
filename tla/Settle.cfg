SPECIFICATION FairSpec
CONSTANTS
  v = v  e1 = e1  e2 = e2
  Users = {u1, u2}
  Nfts = {v}
  Ends = {e1, e2}
  Via <- MCVia
  Flights = {f1, f2}
  MaxMoves = 2
  Ics721 = Ics721
  Nobody = Nobody
  NoEnd = NoEnd
  NoPacket = NoPacket
INVARIANTS NeverReverts FailureSeesRefund ReturnsWork
PROPERTIES SettlementSpec AnswersSettle
