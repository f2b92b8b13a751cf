------------------------ MODULE Ics721Channel_proofs ------------------------
(***************************************************************************)
(* Proofs about Ics721Channel: ICS721 is only ever on a channel whose two  *)
(* ends agree, a channel between two ICS721 contracts is never closed, and *)
(* an NFT in escrow has one claim on it, for any set of NFTs and versions  *)
(* and any number of packets.                                              *)
(***************************************************************************)
EXTENDS Ics721Channel, FiniteSetTheorems, TLAPS

USE ChannelAssumption

LEMMA InitHandshake == Init => HandshakeInv
  BY DEF Init, HandshakeInv, NeverClosesOnIcs721, TypeOK, Ends, Orders, NoVersion

\* The steps of the handshake keep the invariant: each end that joins, or is
\* told the other's version, validates what it knows.
LEMMA OpeningKeepsInv ==
  ASSUME HandshakeInv, NEW e \in Ends, NEW v \in Versions,
         ChanOpenInit(e, v) \/ ChanOpenTry(e, v) \/ ChanOpenAck(e) \/ ChanOpenConfirm(e)
  PROVE  HandshakeInv'
<1>1. CASE ChanOpenInit(e, v)
  BY <1>1 DEF HandshakeInv, NeverClosesOnIcs721, TypeOK,
              ChanOpenInit, Agrees, ValidateOrderAndVersion,
              Ends, Other, Orders, nfts
<1>2. CASE ChanOpenTry(e, v)
  BY <1>2 DEF HandshakeInv, NeverClosesOnIcs721, TypeOK,
              ChanOpenTry, Agrees, ValidateOrderAndVersion,
              Ends, Other, Orders, NoVersion, nfts
<1>3. CASE ChanOpenAck(e)
  BY <1>3 DEF HandshakeInv, NeverClosesOnIcs721, TypeOK,
              ChanOpenAck, Agrees, ValidateOrderAndVersion,
              Ends, Other, Orders, NoVersion, nfts
<1>4. CASE ChanOpenConfirm(e)
  BY <1>4 DEF HandshakeInv, NeverClosesOnIcs721, TypeOK,
              ChanOpenConfirm, Agrees, ValidateOrderAndVersion,
              Ends, Other, Orders, NoVersion, nfts
<1> QED BY <1>1, <1>2, <1>3, <1>4

\* An end is closed by another module that asks, or after the other end.
LEMMA ClosingKeepsInv ==
  ASSUME HandshakeInv, NEW e \in Ends, ChanCloseInit(e) \/ ChanCloseConfirm(e)
  PROVE  HandshakeInv'
BY DEF HandshakeInv, NeverClosesOnIcs721, TypeOK,
       ChanCloseInit, ChanCloseConfirm, Ends, Other, Orders,
       NoVersion, nfts

LEMMA NewPacketTyped ==
  ASSUME HandshakeInv, NEW n \in Nfts, NEW e \in Ends, NewPacket(n, e)
  PROVE  /\ packets' \in SUBSET Packets /\ sent' \in 0..MaxPackets
         /\ order = "unordered"
<1>1. sent + 1 \in 1..MaxPackets BY DEF HandshakeInv, TypeOK, NewPacket
<1>2. [seq |-> sent + 1, nft |-> n, from |-> e, status |-> "sent"] \in Packets
  BY <1>1 DEF Packets
<1>3. order = "unordered"
  BY DEF HandshakeInv, NewPacket, Ends, Other
<1> QED BY <1>1, <1>2, <1>3 DEF HandshakeInv, NeverClosesOnIcs721, TypeOK, NewPacket

LEMMA SendingKeepsInv ==
  ASSUME HandshakeInv, NEW n \in Nfts, Send(n) \/ SendBack(n)
  PROVE  HandshakeInv'
<1>1. PICK e \in Ends : NewPacket(n, e) BY DEF Send, SendBack, Ends
<1>2. /\ packets' \in SUBSET Packets /\ sent' \in 0..MaxPackets
      /\ order = "unordered"
  BY <1>1, NewPacketTyped
<1>3. UNCHANGED channel BY <1>1 DEF NewPacket
<1>4. home' \in [Nfts -> {"user", "escrow"}] /\ away' \in SUBSET Nfts
  BY DEF Send, SendBack, HandshakeInv, TypeOK
<1> QED BY <1>2, <1>3, <1>4 DEF HandshakeInv, NeverClosesOnIcs721, TypeOK, channel

\* What happens to a packet leaves the channel alone: no channel is ordered when
\* packets are sent, so a timeout closes none.
LEMMA PacketsKeepInv ==
  ASSUME HandshakeInv, NEW p \in packets,
         \/ RecvPacket(p, "success") \/ RecvPacket(p, "error")
         \/ AcknowledgePacket(p) \/ TimeoutPacket(p)
  PROVE  HandshakeInv'
<1>1. p \in Packets BY DEF HandshakeInv, TypeOK
<1>2. p.nft \in Nfts /\ p.from \in Ends BY <1>1 DEF Packets
<1>3. \A e : Arrive(p.nft, e) =>
        home' \in [Nfts -> {"user", "escrow"}] /\ away' \in SUBSET Nfts
  BY <1>2 DEF Arrive, HandshakeInv, TypeOK
<1>4. CASE RecvPacket(p, "success") \/ RecvPacket(p, "error")
  <2>1. home' \in [Nfts -> {"user", "escrow"}] /\ away' \in SUBSET Nfts
    BY <1>3, <1>4 DEF RecvPacket, HandshakeInv, TypeOK
  <2>2. PICK st \in {"success", "error"} : RecvPacket(p, st) BY <1>4
  <2>3. [p EXCEPT !.status = st] \in Packets BY <1>1 DEF Packets
  <2>4. packets' \in SUBSET Packets BY <2>2, <2>3 DEF RecvPacket, HandshakeInv, TypeOK
  <2> QED BY <2>1, <2>2, <2>4 DEF HandshakeInv, NeverClosesOnIcs721, TypeOK,
                                  RecvPacket, channel
<1>5. CASE AcknowledgePacket(p)
  BY <1>3, <1>5 DEF AcknowledgePacket, HandshakeInv, NeverClosesOnIcs721,
                         TypeOK, channel
<1>6. CASE TimeoutPacket(p)
  <2>1. home' \in [Nfts -> {"user", "escrow"}] /\ away' \in SUBSET Nfts
    BY <1>3, <1>6 DEF TimeoutPacket
  <2>2. packets' \in SUBSET Packets BY <1>6 DEF TimeoutPacket, HandshakeInv, TypeOK
  <2>3. order = "unordered" BY DEF HandshakeInv
  <2> QED BY <1>6, <2>1, <2>2, <2>3 DEF HandshakeInv, NeverClosesOnIcs721, TypeOK,
                                        TimeoutPacket
<1> QED BY <1>4, <1>5, <1>6

\* The invariant of the handshake (validate_order_and_version, ibc_channel_close).
THEOREM HandshakeKept == Spec => []HandshakeInv
<1>1. HandshakeInv /\ [Next]_vars => HandshakeInv'
  <2> SUFFICES ASSUME HandshakeInv, [Next]_vars PROVE HandshakeInv' OBVIOUS
  <2>1. CASE \E e \in Ends, v \in Versions : ChanOpenInit(e, v) \/ ChanOpenTry(e, v)
    BY <2>1, OpeningKeepsInv
  <2>2. CASE \E e \in Ends : ChanOpenAck(e) \/ ChanOpenConfirm(e)
    <3>1. IBC_VERSION \in Versions BY ChannelAssumption
    <3> QED BY <2>2, <3>1, OpeningKeepsInv
  <2>3. CASE \E e \in Ends : ChanCloseInit(e) \/ ChanCloseConfirm(e)
    BY <2>3, ClosingKeepsInv
  <2>4. CASE \E n \in Nfts : Send(n) \/ SendBack(n)
    BY <2>4, SendingKeepsInv
  <2>5. CASE \E p \in packets :
               \/ RecvPacket(p, "success") \/ RecvPacket(p, "error")
               \/ AcknowledgePacket(p) \/ TimeoutPacket(p)
    BY <2>5, PacketsKeepInv
  <2>6. CASE UNCHANGED vars
    BY <2>6 DEF HandshakeInv, NeverClosesOnIcs721, TypeOK, vars
  <2> QED BY <2>1, <2>2, <2>3, <2>4, <2>5, <2>6 DEF Next
<1> QED BY <1>1, InitHandshake, PTL DEF Spec

\* Whoever holds the other end and whoever proposed the channel, ICS721 opens
\* its end when both have agreed to an unordered channel of version ics721-1.
THEOREM OpenChannelsAgree == Spec => []OpenEndsAgree
<1>1. HandshakeInv => OpenEndsAgree BY DEF HandshakeInv, OpenEndsAgree, Ends
<1> QED BY <1>1, HandshakeKept, PTL

\* A channel between two ICS721 contracts is never closed.
THEOREM Ics721StaysOpen == Spec => []NeverClosesOnIcs721
<1>1. HandshakeInv => NeverClosesOnIcs721 BY DEF HandshakeInv
<1> QED BY <1>1, HandshakeKept, PTL
-------------------------------------------------------------------------------
(* Claims on the NFTs in escrow.                                             *)

Open(n) == {p \in packets : p.nft = n /\ p.status # "success"}

\* Where NFT n is: with a user, on the other side, or in one packet.
Placed(n) == \/ home[n] = "user" /\ n \notin away /\ Open(n) = {}
             \/ home[n] = "escrow" /\ n \in away /\ Open(n) = {}
             \/ home[n] = "escrow" /\ n \notin away /\ \E p \in packets : Open(n) = {p}

AllPlaced == \A n \in Nfts : Placed(n)

LEMMA NewPacketOpens ==
  ASSUME NEW n \in Nfts, NEW e \in Ends, NewPacket(n, e), Open(n) = {}
  PROVE  /\ \E p \in packets' : Open(n)' = {p}
         /\ \A k \in Nfts : k # n => Open(k)' = Open(k)
<1> DEFINE p == [seq |-> sent + 1, nft |-> n, from |-> e, status |-> "sent"]
<1>1. packets' = packets \cup {p} /\ p.nft = n /\ p.status = "sent"
  BY DEF NewPacket
<1> HIDE DEF p
<1> QED BY <1>1 DEF Open

LEMMA SendingKeepsPlaced ==
  ASSUME TypeOK, AllPlaced, NEW n \in Nfts, Send(n) \/ SendBack(n)
  PROVE  AllPlaced'
<1>1. PICK e \in Ends : NewPacket(n, e) BY DEF Send, SendBack, Ends
<1>2. Open(n) = {} BY DEF Send, SendBack, AllPlaced, Placed
<1>3. /\ \E p \in packets' : Open(n)' = {p}
      /\ \A k \in Nfts : k # n => Open(k)' = Open(k)
  BY <1>1, <1>2, NewPacketOpens
<1>4. home'[n] = "escrow" /\ n \notin away'
  BY DEF Send, SendBack, TypeOK, AllPlaced, Placed
<1>5. \A k \in Nfts : k # n => home'[k] = home[k] /\ (k \in away' <=> k \in away)
  BY DEF Send, SendBack, TypeOK
<1>6. packets \subseteq packets' BY <1>1 DEF NewPacket
<1> QED BY <1>3, <1>4, <1>5, <1>6 DEF AllPlaced, Placed

\* A packet that is open is the only one of its NFT, and the NFT is nowhere else.
LEMMA OpenIsOnly ==
  ASSUME AllPlaced, NEW p \in packets, p.nft \in Nfts, p.status # "success"
  PROVE  Open(p.nft) = {p} /\ home[p.nft] = "escrow" /\ p.nft \notin away
<1>1. p \in Open(p.nft) BY DEF Open
<1> QED BY <1>1 DEF AllPlaced, Placed

\* The packet goes and its NFT arrives somewhere.
LEMMA ArrivalPlaces ==
  ASSUME TypeOK, AllPlaced, NEW p \in packets, p.status # "success",
         NEW e \in Ends, Arrive(p.nft, e), packets \ {p} \subseteq packets',
         \A q \in packets' : q \in packets \ {p} \/ q.status = "success"
  PROVE  AllPlaced'
<1>1. p.nft \in Nfts BY DEF TypeOK, Packets
<1>2. Open(p.nft) = {p} /\ home[p.nft] = "escrow" /\ p.nft \notin away
  BY <1>1, OpenIsOnly
<1>3. Open(p.nft)' = {} /\ \A k \in Nfts : k # p.nft => Open(k)' = Open(k)
  BY <1>1, <1>2 DEF Open
<1>4. \/ home'[p.nft] = "user" /\ p.nft \notin away'
      \/ home'[p.nft] = "escrow" /\ p.nft \in away'
  BY <1>1, <1>2 DEF Arrive, TypeOK
<1>5. \A k \in Nfts : k # p.nft => home'[k] = home[k] /\ (k \in away' <=> k \in away)
  BY DEF Arrive, TypeOK
<1>6. \A k \in Nfts, q \in packets : Open(k) = {q} /\ k # p.nft => q \in packets'
  BY DEF Open
<1> QED BY <1>1, <1>3, <1>4, <1>5, <1>6 DEF AllPlaced, Placed

LEMMA PacketsKeepPlaced ==
  ASSUME TypeOK, AllPlaced, NEW p \in packets,
         \/ RecvPacket(p, "success") \/ RecvPacket(p, "error")
         \/ AcknowledgePacket(p) \/ TimeoutPacket(p)
  PROVE  AllPlaced'
<1>1. p \in Packets /\ p.nft \in Nfts /\ p.from \in Ends BY DEF TypeOK, Packets
<1>2. CASE RecvPacket(p, "success")
  <2> DEFINE q == [p EXCEPT !.status = "success"]
  <2>1. q.status = "success" BY <1>1 DEF Packets
  <2>2. packets' = (packets \ {p}) \cup {q} /\ p.status = "sent" BY <1>2 DEF RecvPacket
  <2>3. Other(p.from) \in Ends /\ Arrive(p.nft, Other(p.from))
    BY <1>2 DEF RecvPacket, Other, Ends
  <2> HIDE DEF q
  <2> QED BY <2>1, <2>2, <2>3, ArrivalPlaces
<1>3. CASE RecvPacket(p, "error")
  <2> DEFINE q == [p EXCEPT !.status = "error"]
  <2>1. q.status = "error" /\ q.nft = p.nft BY <1>1 DEF Packets
  <2>2. /\ packets' = (packets \ {p}) \cup {q} /\ p.status = "sent"
        /\ home' = home /\ away' = away
    BY <1>3 DEF RecvPacket
  <2> HIDE DEF q
  <2>3. Open(p.nft) = {p} /\ home[p.nft] = "escrow" /\ p.nft \notin away
    BY <1>1, <2>2, OpenIsOnly
  <2>4. Open(p.nft)' = {q} /\ \A k \in Nfts : k # p.nft => Open(k)' = Open(k)
    BY <1>1, <2>1, <2>2, <2>3 DEF Open
  <2>5. q \in packets' BY <2>2
  <2>6. \A k \in Nfts, r \in packets : Open(k) = {r} /\ k # p.nft => r \in packets'
    BY <2>2 DEF Open
  <2> QED BY <2>2, <2>3, <2>4, <2>5, <2>6 DEF AllPlaced, Placed
<1>4. CASE AcknowledgePacket(p)
  <2>1. packets' = packets \ {p} BY <1>4 DEF AcknowledgePacket
  <2>2. CASE p.status = "error"
    <3>1. Arrive(p.nft, p.from) BY <1>4, <2>2 DEF AcknowledgePacket
    <3> QED BY <1>1, <2>1, <2>2, <3>1, ArrivalPlaces
  <2>3. CASE p.status = "success"
    <3>1. home' = home /\ away' = away BY <1>4, <2>3 DEF AcknowledgePacket
    <3>2. \A k \in Nfts : Open(k)' = Open(k) BY <2>1, <2>3 DEF Open
    <3>3. \A k \in Nfts, r \in packets : Open(k) = {r} => r \in packets'
      BY <2>1, <2>3 DEF Open
    <3> QED BY <3>1, <3>2, <3>3 DEF AllPlaced, Placed
  <2> QED BY <1>1, <1>4, <2>2, <2>3 DEF AcknowledgePacket, Packets
<1>5. CASE TimeoutPacket(p)
  <2>1. packets' = packets \ {p} /\ Arrive(p.nft, p.from) /\ p.status = "sent"
    BY <1>5 DEF TimeoutPacket
  <2> QED BY <1>1, <2>1, ArrivalPlaces
<1> QED BY <1>2, <1>3, <1>4, <1>5

LEMMA PlacedIsClaimed == AllPlaced => EscrowClaimed
<1> SUFFICES ASSUME NEW n \in Nfts, Placed(n)
             PROVE  Claims(n) = IF home[n] = "escrow" THEN 1 ELSE 0
  BY DEF AllPlaced, EscrowClaimed
<1>1. Claims(n) = Cardinality(Open(n)) + Cardinality({n} \cap away)
  BY DEF Claims, Open
<1>2. {n} \cap away = IF n \in away THEN {n} ELSE {} OBVIOUS
<1>3. Cardinality({}) = 0 /\ Cardinality({n}) = 1
  BY FS_EmptySet, FS_Singleton
<1>4. CASE Open(n) = {}
  BY <1>1, <1>2, <1>3, <1>4 DEF Placed
<1>5. CASE home[n] = "escrow" /\ n \notin away /\ \E p \in packets : Open(n) = {p}
  <2>1. PICK p \in packets : Open(n) = {p} BY <1>5
  <2>2. Cardinality(Open(n)) = 1 BY <2>1, FS_Singleton
  <2> QED BY <1>1, <1>2, <1>3, <1>5, <2>2
<1> QED BY <1>4, <1>5 DEF Placed

\* An NFT in escrow has one claim on it, while the channel is open and after it
\* closed, however packets, refusals, timeouts and closings interleave.
THEOREM EscrowIsClaimed == Spec => []EscrowClaimed
<1>1. Init => AllPlaced BY DEF Init, AllPlaced, Placed, Open
<1>2. TypeOK /\ AllPlaced /\ [Next]_vars => AllPlaced'
  <2> SUFFICES ASSUME TypeOK, AllPlaced, [Next]_vars PROVE AllPlaced' OBVIOUS
  <2>1. CASE \E n \in Nfts : Send(n) \/ SendBack(n) BY <2>1, SendingKeepsPlaced
  <2>2. CASE \E p \in packets :
               \/ RecvPacket(p, "success") \/ RecvPacket(p, "error")
               \/ AcknowledgePacket(p) \/ TimeoutPacket(p)
    BY <2>2, PacketsKeepPlaced
  <2>3. CASE UNCHANGED nfts BY <2>3 DEF nfts, AllPlaced, Placed, Open
  <2> QED BY <2>1, <2>2, <2>3
          DEF Next, ChanOpenInit, ChanOpenTry, ChanOpenAck, ChanOpenConfirm,
              ChanCloseInit, ChanCloseConfirm, vars, nfts
<1>3. HandshakeInv => TypeOK BY DEF HandshakeInv
<1> QED BY <1>1, <1>2, <1>3, PlacedIsClaimed, HandshakeKept, PTL DEF Spec
=============================================================================
