------------------------ MODULE Ics721Transfer_proofs ------------------------
(***************************************************************************)
(* That the transfer protocol keeps every escrow accounted for and every   *)
(* voucher backed, that it moves NFTs as NftLedger lets them move, and     *)
(* that clean-ups which touch only what no packet and no voucher needs     *)
(* keep all this, for any number of chains, channels, collections, tokens  *)
(* and packets in flight, and whoever makes the clean-ups.                 *)
(***************************************************************************)
EXTENDS Ics721Admin, FiniteSetTheorems, SequenceTheorems, WellFoundedInduction, TLAPS

-------------------------------------------------------------------------------
(* Class ids.                                                                *)

LEMMA PathIsSeq == Paths \subseteq Seq(Prefixes)
  <1> SUFFICES ASSUME NEW n \in 0..MaxHops, NEW p \in [1..n -> Prefixes]
               PROVE  p \in Seq(Prefixes)
    BY DEF Paths
  <1>1. MaxHops \in Nat
    BY TopologyAssumption
  <1> QED
    BY <1>1

LEMMA PathPop == ASSUME NEW p \in Paths, p # << >>
                 PROVE  Tail(p) \in Paths /\ Head(p) \in Prefixes
  <1>1. PICK n \in 0..MaxHops : p \in [1..n -> Prefixes]
    BY DEF Paths
  <1>2. MaxHops \in Nat
    BY TopologyAssumption
  <1>3. p \in Seq(Prefixes) /\ Len(p) = n
    BY <1>1, <1>2
  <1>4. n # 0
    BY <1>3
  <1>5. Tail(p) \in [1..(n - 1) -> Prefixes]
    <2>1. Tail(p) \in Seq(Prefixes) /\ Len(Tail(p)) = n - 1
      BY <1>3, HeadTailProperties
    <2> QED
      BY <2>1, LenProperties
  <1>6. n - 1 \in 0..MaxHops
    BY <1>2, <1>4
  <1>7. Tail(p) \in Paths
    BY <1>5, <1>6 DEF Paths
  <1>8. Head(p) \in Prefixes
    BY <1>1, <1>2, <1>3, <1>4
  <1> QED
    BY <1>7, <1>8

LEMMA PathPush == ASSUME NEW p \in Paths, NEW x \in Prefixes
                  PROVE  /\ <<x>> \o p # << >>
                         /\ Head(<<x>> \o p) = x
                         /\ Tail(<<x>> \o p) = p
  <1>1. p \in Seq(Prefixes)
    BY PathIsSeq
  <1> DEFINE q == <<x>> \o p
  <1>2. q \in Seq(Prefixes) /\ Len(q) = 1 + Len(p)
    BY <1>1
  <1>3. \A i \in 1..Len(q) : q[i] = IF i = 1 THEN x ELSE p[i - 1]
    BY <1>1
  <1>4. q # << >> /\ Head(q) = x
    BY <1>1, <1>2, <1>3
  <1>5. Tail(q) \in Seq(Prefixes) /\ Len(Tail(q)) = Len(p)
    BY <1>1, <1>2, <1>4
  <1>6. \A i \in 1..Len(p) : Tail(q)[i] = p[i]
    BY <1>1, <1>2, <1>3, <1>4
  <1>7. Tail(q) = p
    BY <1>1, <1>5, <1>6
  <1> QED
    BY <1>4, <1>7

\* A class that comes in over end e is recognised when it goes back over e.
LEMMA ClassPush ==
  ASSUME NEW e \in Ends, NEW k \in Classes, ~Pops(e, k)
  PROVE  LET l == LocalClass(e, k)
         IN /\ Pops(Peer[e], l)
            /\ [path |-> Tail(l.path), base |-> l.base] = k
  <1>1. k.path \in Paths /\ Prefix[Peer[e]] \in Prefixes
    BY TopologyAssumption DEF Classes
  <1> DEFINE l == LocalClass(e, k)
  <1>2. l = [path |-> <<Prefix[Peer[e]]>> \o k.path, base |-> k.base]
    BY DEF LocalClass, Classes
  <1>3. l.path # << >> /\ Head(l.path) = Prefix[Peer[e]] /\ Tail(l.path) = k.path
    BY <1>1, <1>2, PathPush
  <1>4. [path |-> Tail(l.path), base |-> l.base] = k
    BY <1>2, <1>3 DEF Classes
  <1> QED
    BY <1>3, <1>4 DEF Pops

LEMMA ClassPop ==
  ASSUME NEW e \in Ends, NEW k \in Classes, Pops(e, k)
  PROVE  /\ LocalClass(e, k) = [path |-> Tail(k.path), base |-> k.base]
         /\ LocalClass(e, k) \in Classes
  <1>1. k.path \in Paths /\ k.base \in Collections /\ k.path # << >>
    BY DEF Classes, Pops
  <1>2. LocalClass(e, k) = [path |-> Tail(k.path), base |-> k.base]
    BY DEF LocalClass, Classes
  <1>3. Tail(k.path) \in Paths
    BY <1>1, PathPop
  <1> QED
    BY <1>1, <1>2, <1>3 DEF LocalClass, Classes

LEMMA HeadTailInjective ==
  ASSUME NEW p \in Seq(Prefixes), NEW q \in Seq(Prefixes),
         p # << >>, q # << >>, Head(p) = Head(q), Tail(p) = Tail(q)
  PROVE  p = q
  <1>1. /\ Len(Tail(p)) = Len(p) - 1 /\ Len(Tail(q)) = Len(q) - 1
        /\ Len(p) \in Nat /\ Len(q) \in Nat
    BY HeadTailProperties, LenProperties
  <1>2. Len(p) = Len(q)
    <2>1. \A m, n \in Nat : m - 1 = n - 1 => m = n
      OBVIOUS
    <2>2. Len(p) - 1 = Len(q) - 1
      BY <1>1, Zenon
    <2> QED
      BY <1>1, <2>1, <2>2, Zenon
  <1>3. ASSUME NEW i \in 1..Len(p) PROVE p[i] = q[i]
    <2>1. CASE i = 1
      BY <2>1
    <2>2. CASE i # 1
      <3>1. i - 1 \in 1..Len(Tail(p)) /\ i - 1 \in 1..Len(Tail(q))
        BY <1>1, <1>2, <2>2
      <3>2. Tail(p)[i - 1] = p[(i - 1) + 1] /\ Tail(q)[i - 1] = q[(i - 1) + 1]
        BY <3>1, HeadTailProperties
      <3>3. (i - 1) + 1 = i
        <4>1. \A m \in Nat : \A j \in 1..m : (j - 1) + 1 = j
          OBVIOUS
        <4> QED
          BY <1>1, <4>1
      <3> QED
        BY <3>2, <3>3
    <2> QED
      BY <2>1, <2>2
  <1> QED
    BY <1>2, <1>3, SeqEqual

-------------------------------------------------------------------------------
(* Types.                                                                    *)

LEMMA PacketTypes ==
  ASSUME TypeOK, NEW n \in Flights, packet[n] # NoPacket
  PROVE  /\ packet[n] \in Packet
         /\ SourceNft(packet[n]) \in Nft
         /\ LocalClass(packet[n].src, packet[n].class) \in Classes
              => DestNft(packet[n]) \in Nft
  <1>1. packet[n] \in Packet
    BY DEF TypeOK
  <1> QED
    BY <1>1, TopologyAssumption DEF Packet, SourceNft, DestNft, Nft

LEMMA InitType == Init => TypeOK /\ PacketsFit
  BY DEF Init, TypeOK, PacketsFit, Originals, IsOriginal, Nft

\* Every transaction keeps the types, and puts only packets in flight that
\* the destination can name.
LEMMA TypeStep == TypeOK /\ PacketsFit /\ [Next]_vars => TypeOK' /\ PacketsFit'
  <1> SUFFICES ASSUME TypeOK, PacketsFit, [Next]_vars
               PROVE  TypeOK' /\ PacketsFit'
    OBVIOUS
  <1>1. ASSUME NEW s \in Nft, NEW u \in Users, TransferNft(s, u)
        PROVE  TypeOK' /\ PacketsFit'
    BY <1>1 DEF TransferNft, TypeOK, PacketsFit
  <1>2. ASSUME NEW s \in Nft, BurnNft(s)
        PROVE  TypeOK' /\ PacketsFit'
    BY <1>2 DEF BurnNft, TypeOK, PacketsFit
  <1>3. ASSUME NEW s \in Nft, NEW e \in Ends, NEW u \in Users, NEW n \in Flights,
               ReceiveNft(s, e, u, n)
        PROVE  TypeOK' /\ PacketsFit'
    <2> DEFINE p == [src |-> e, class |-> s.class, token |-> s.token,
                     sender |-> owner[s], receiver |-> u, status |-> "sent"]
    <2>1. p \in Packet
      BY <1>3 DEF ReceiveNft, Packet, Nft
    <2>2. packet' = [packet EXCEPT ![n] = p] /\ UNCHANGED <<incoming, metadata, paused>>
      BY <1>3 DEF ReceiveNft
    <2>3. registry' = [registry EXCEPT ![s.chain] = @ \cup {s.class}]
      BY <1>3 DEF ReceiveNft
    <2>4. registry' \in [Chains -> SUBSET Classes]
      BY <2>3 DEF TypeOK, Nft
    <2>5. owner' \in [Nft -> Users \cup {Ics721, Nobody}]
          /\ outgoing' \in [Nft -> Ends \cup {NoEnd}]
      BY <1>3 DEF ReceiveNft, TypeOK
    <2>6. TypeOK'
      BY <2>1, <2>2, <2>4, <2>5 DEF TypeOK
    <2>7. LocalClass(p.src, p.class) \in Classes
          /\ p.class \in registry'[ChainOf[p.src]]
      BY <1>3, <2>3 DEF ReceiveNft, TypeOK, Nft
    <2>8. \A m \in Flights : packet'[m] = IF m = n THEN p ELSE packet[m]
      BY <2>2 DEF TypeOK
    <2>9. \A c \in Chains : registry[c] \subseteq registry'[c]
      BY <2>3 DEF TypeOK
    <2>10. ASSUME NEW m \in Flights, packet'[m] # NoPacket
           PROVE  /\ LocalClass(packet'[m].src, packet'[m].class) \in Classes
                  /\ packet'[m].class \in registry'[ChainOf[packet'[m].src]]
      <3>1. CASE m = n
        BY <3>1, <2>7, <2>8
      <3>2. CASE m # n
        <4>1. packet'[m] = packet[m] /\ packet[m] # NoPacket
          BY <3>2, <2>8, <2>10
        <4>2. ChainOf[packet[m].src] \in Chains
          BY <4>1, PacketTypes, TopologyAssumption DEF Packet
        <4> QED
          BY <4>1, <4>2, <2>9 DEF PacketsFit
      <3> QED
        BY <3>1, <3>2
    <2> QED
      BY <2>6, <2>10 DEF PacketsFit
  <1>4. ASSUME NEW n \in Flights, ReceivePacket(n)
        PROVE  TypeOK' /\ PacketsFit'
    <2> DEFINE p == packet[n]
               d == DestNft(p)
    <2>1. /\ p # NoPacket /\ p \in Packet /\ d \in Nft
          /\ packet' = [packet EXCEPT ![n].status = "success"]
          /\ paused' = paused
      BY <1>4, PacketTypes DEF ReceivePacket, InFlight, PacketsFit
    <2>2. /\ owner' \in [Nft -> Users \cup {Ics721, Nobody}]
          /\ registry' \in [Chains -> SUBSET Classes]
          /\ outgoing' \in [Nft -> Ends \cup {NoEnd}]
          /\ incoming' \in [Nft -> Ends \cup {NoEnd}]
          /\ metadata' \in SUBSET Nft
          /\ \A c \in Chains : registry[c] \subseteq registry'[c]
      <3>1. CASE RedeemVoucher(p)
        BY <2>1, <3>1 DEF RedeemVoucher, TypeOK, Packet
      <3>2. CASE CreateVoucher(p)
        BY <2>1, <3>2, TopologyAssumption DEF CreateVoucher, TypeOK, Packet, Nft
      <3> QED
        BY <1>4, <3>1, <3>2 DEF ReceivePacket
    <2>3. packet' \in [Flights -> Packet \cup {NoPacket}]
      BY <2>1 DEF TypeOK, Packet
    <2>4. \A m \in Flights : packet'[m] # NoPacket =>
            /\ packet[m] # NoPacket
            /\ packet'[m].src = packet[m].src
            /\ packet'[m].class = packet[m].class
      BY <2>1 DEF TypeOK, Packet
    <2>5. \A m \in Flights : packet[m] # NoPacket => ChainOf[packet[m].src] \in Chains
      BY PacketTypes, TopologyAssumption DEF Packet
    <2> QED
      BY <2>1, <2>2, <2>3, <2>4, <2>5 DEF TypeOK, PacketsFit
  <1>5. ASSUME NEW n \in Flights, RejectPacket(n)
        PROVE  TypeOK' /\ PacketsFit'
    <2>1. /\ packet[n] # NoPacket /\ packet[n] \in Packet
          /\ packet' = [packet EXCEPT ![n].status = "error"]
      BY <1>5, PacketTypes DEF RejectPacket, InFlight
    <2>2. packet' \in [Flights -> Packet \cup {NoPacket}]
      BY <2>1 DEF TypeOK, Packet
    <2>3. \A m \in Flights : packet'[m] # NoPacket =>
            /\ packet[m] # NoPacket
            /\ packet'[m].src = packet[m].src
            /\ packet'[m].class = packet[m].class
      BY <2>1 DEF TypeOK, Packet
    <2> QED
      BY <1>5, <2>2, <2>3 DEF RejectPacket, TypeOK, PacketsFit
  <1>6. ASSUME NEW n \in Flights, packet[n] # NoPacket, HandlePacketFail(n)
        PROVE  TypeOK' /\ PacketsFit'
    <2>1. packet[n] \in Packet
      BY <1>6, PacketTypes
    <2> QED
      BY <1>6, <2>1 DEF HandlePacketFail, Settle, TypeOK, PacketsFit, Packet
  <1>7. ASSUME NEW n \in Flights, AckSuccess(n)
        PROVE  TypeOK' /\ PacketsFit'
    BY <1>7 DEF AckSuccess, Settle, TypeOK, PacketsFit
  <1>8. ASSUME NEW c \in Chains, Pause(c) \/ Migrate(c)
        PROVE  TypeOK' /\ PacketsFit'
    BY <1>8 DEF Pause, Migrate, TypeOK, PacketsFit
  <1>9. CASE UNCHANGED vars
    BY <1>9 DEF vars, TypeOK, PacketsFit
  <1> QED
    BY <1>1, <1>2, <1>3, <1>4, <1>5, <1>6, <1>7, <1>8, <1>9
    DEF Next, HolderStep, RelayerStep, Arrive, Acknowledge, AckError,
        TimeoutPacket, InFlight

\* Each variable keeps its type through every transaction.
THEOREM TypeCorrect == Spec => [](TypeOK /\ PacketsFit)
  BY InitType, TypeStep, PTL DEF Spec

-------------------------------------------------------------------------------
(* Consequences of the invariant, used by the steps below.                   *)

\* A packet that is on its way or failed holds the NFT it was sent for.
LEMMA SourceClaimed ==
  ASSUME BackingInv, NEW n \in Flights, packet[n] # NoPacket,
         packet[n].status # "success"
  PROVE  LET s == SourceNft(packet[n])
         IN /\ s \in Nft /\ packet[n] \in Packet
            /\ Claims(n, s)
            /\ owner[s] = Ics721
            /\ outgoing[s] = packet[n].src
  BY PacketTypes DEF BackingInv, Claims, ClaimsHeld

LEMMA ParentType ==
  ASSUME BackingInv, NEW x \in Nft, incoming[x] # NoEnd
  PROVE  incoming[x] \in Ends /\ Peer[incoming[x]] \in Ends /\ Parent(x) \in Nft
  <1>1. incoming[x] \in Ends /\ Peer[incoming[x]] \in Ends
        /\ ChainOf[Peer[incoming[x]]] \in Chains
    BY TopologyAssumption DEF BackingInv, TypeOK
  <1>2. Pops(incoming[x], x.class)
    BY DEF BackingInv, VoucherRecorded
  <1>3. Tail(x.class.path) \in Paths
    BY <1>2, PathPop DEF Pops, Nft, Classes
  <1> QED
    BY <1>1, <1>3 DEF Parent, Nft, Classes

\* What a packet holds backs no voucher, and what a user holds backs nothing.
LEMMA ClaimedBacksNothing ==
  ASSUME BackingInv, NEW s \in Nft, NEW n \in Flights, Claims(n, s),
         NEW x \in Nft, Outstanding(x)
  PROVE  Parent(x) # s
  BY DEF BackingInv, VoucherBacked

LEMMA UserHoldsAlone ==
  ASSUME BackingInv, NEW s \in Nft, owner[s] # Ics721
  PROVE  /\ \A n \in Flights : ~Claims(n, s)
         /\ \A x \in Nft : Outstanding(x) => Parent(x) # s
  BY DEF BackingInv, VoucherBacked, ClaimsHeld

\* One NFT backs one voucher.
LEMMA BackingUnique ==
  ASSUME BackingInv, NEW x \in Nft, NEW y \in Nft,
         Outstanding(x), Outstanding(y), Parent(x) = Parent(y)
  PROVE  x = y
  <1>1. /\ incoming[x] \in Ends /\ incoming[y] \in Ends
        /\ Peer[incoming[x]] = Peer[incoming[y]]
    BY ParentType DEF BackingInv, VoucherBacked, Outstanding
  <1>2. incoming[x] = incoming[y]
    BY <1>1, TopologyAssumption
  <1>3. /\ x.chain = y.chain
        /\ x.class.path # << >> /\ y.class.path # << >>
        /\ Head(x.class.path) = Head(y.class.path)
    BY <1>2 DEF Outstanding, BackingInv, VoucherRecorded, Pops
  <1>4. x.token = y.token /\ x.class.base = y.class.base
        /\ Tail(x.class.path) = Tail(y.class.path)
    BY DEF Parent
  <1>5. x.class.path \in Seq(Prefixes) /\ y.class.path \in Seq(Prefixes)
    BY PathIsSeq DEF Nft, Classes
  <1>6. x.class.path = y.class.path
    BY <1>3, <1>4, <1>5, HeadTailInjective
  <1> QED
    BY <1>3, <1>4, <1>6 DEF Nft, Classes

\* A packet that takes a voucher back the way it came in finds the original.
LEMMA ReturnFindsOriginal ==
  ASSUME BackingInv, NEW n \in Flights, packet[n] # NoPacket,
         Pops(packet[n].src, packet[n].class),
         Claims(n, SourceNft(packet[n]))
  PROVE  LET s == SourceNft(packet[n])
         IN incoming[s] = packet[n].src /\ Parent(s) = DestNft(packet[n])
  <1> DEFINE s == SourceNft(packet[n])
             src == packet[n].src
  <1>1. s \in Nft /\ src \in Ends /\ s.class = packet[n].class /\ s.token = packet[n].token
        /\ s.chain = ChainOf[src] /\ s.class \in Classes
    BY PacketTypes DEF BackingInv, SourceNft, Packet
  <1>2. owner[s] # Nobody
    BY <1>1, DistinctAssumption DEF BackingInv, ClaimsHeld
  <1>3. incoming[s] # NoEnd
    BY <1>1, <1>2 DEF BackingInv, VoucherRecorded, IsOriginal, Pops
  <1>4. /\ ChainOf[incoming[s]] = ChainOf[src] /\ Pops(incoming[s], s.class)
        /\ incoming[s] \in Ends
    BY <1>1, <1>3, ParentType DEF BackingInv, VoucherRecorded
  <1>5. incoming[s] = src
    BY <1>1, <1>4, TopologyAssumption DEF Pops
  <1>6. LocalClass(src, s.class) = [path |-> Tail(s.class.path), base |-> s.class.base]
    BY <1>1, ClassPop
  <1> QED
    BY <1>1, <1>5, <1>6 DEF Parent, DestNft

-------------------------------------------------------------------------------
(* Each transaction preserves the invariant.                                 *)

LEMMA InitEscrow == Init => EscrowInv
  <1> SUFFICES ASSUME Init PROVE EscrowInv
    OBVIOUS
  <1>1. TypeOK /\ PacketsFit
    BY InitType
  <1>2. \A n \in Flights : packet[n] = NoPacket
    BY DEF Init
  <1>3. \A s \in Nft : incoming[s] = NoEnd /\ s \notin metadata
    BY DEF Init
  <1>4. \A s \in Nft : owner[s] # Ics721 /\ (owner[s] # Nobody => IsOriginal(s))
    <2>1. PICK holder \in [Originals -> Users] :
            owner = [s \in Nft |-> IF IsOriginal(s) THEN holder[s] ELSE Nobody]
      BY DEF Init
    <2>2. \A s \in Nft : IsOriginal(s) => holder[s] \in Users
      BY DEF Originals
    <2> QED
      BY <2>1, <2>2, DistinctAssumption
  <1> QED
    BY <1>1, <1>2, <1>3, <1>4
    DEF EscrowInv, BackingInv, ClaimsExclusive, ClaimsHeld, VoucherRecorded, VoucherBacked,
        EscrowJustified, Claims, Outstanding

\* Steps that leave the packets and the channel entries alone, and give what
\* a user holds to another user or to nobody: the holder's, Pause, Migrate.
LEMMA LocalStep ==
  ASSUME BackingInv, TypeOK', PacketsFit',
         UNCHANGED <<registry, outgoing, incoming, metadata, packet>>,
         \A s \in Nft : owner'[s] # owner[s] =>
           owner[s] \in Users /\ owner'[s] \in Users \cup {Nobody}
  PROVE  BackingInv' /\ (EscrowJustified => EscrowJustified')
  <1>1. \A n \in Flights, s \in Nft : Claims(n, s)' <=> Claims(n, s)
    BY DEF Claims
  <1>2. \A x \in Nft : (Outstanding(x)' <=> Outstanding(x)) /\ Parent(x)' = Parent(x)
    BY DEF Outstanding, Parent, Claims
  <1>3. \A s \in Nft : owner'[s] = Ics721 <=> owner[s] = Ics721
    BY DistinctAssumption
  <1>4. \A s \in Nft : owner'[s] # Nobody => owner[s] # Nobody
    BY DistinctAssumption
  <1>5. ClaimsExclusive' /\ ClaimsHeld'
    BY <1>1, <1>3 DEF ClaimsExclusive, ClaimsHeld, BackingInv
  <1>6. VoucherRecorded'
    BY <1>4 DEF VoucherRecorded, BackingInv
  <1>7. \A x \in Nft : Outstanding(x) => Parent(x) \in Nft
    BY ParentType DEF Outstanding
  <1>8. VoucherBacked'
    BY <1>1, <1>2, <1>3, <1>7 DEF VoucherBacked, BackingInv
  <1>9. EscrowJustified => EscrowJustified'
    BY <1>1, <1>2, <1>3 DEF EscrowJustified, BackingInv
  <1> QED
    BY <1>5, <1>6, <1>8, <1>9 DEF BackingInv

\* What a send changes: the new packet claims the NFT, which nothing claimed.
LEMMA SendChanges ==
  ASSUME BackingInv,
         NEW s \in Nft, NEW e \in Ends, NEW u \in Users, NEW n \in Flights,
         ReceiveNft(s, e, u, n)
  PROVE  /\ \A m \in Flights : ~Claims(m, s)
         /\ \A x \in Nft : Outstanding(x) => Parent(x) # s
         /\ \A m \in Flights, t \in Nft :
              Claims(m, t)' <=> IF m = n THEN t = s ELSE Claims(m, t)
         /\ \A x \in Nft : (Outstanding(x)' <=> Outstanding(x)) /\ Parent(x)' = Parent(x)
  <1> DEFINE p == [src |-> e, class |-> s.class, token |-> s.token,
                   sender |-> owner[s], receiver |-> u, status |-> "sent"]
  <1>0. TypeOK
    BY DEF BackingInv
  <1>1. /\ UNCHANGED <<incoming, metadata>>
        /\ \A t \in Nft : owner'[t] = IF t = s THEN Ics721 ELSE owner[t]
        /\ \A t \in Nft : outgoing'[t] = IF t = s THEN e ELSE outgoing[t]
        /\ \A m \in Flights : packet'[m] = IF m = n THEN p ELSE packet[m]
        /\ packet[n] = NoPacket
        /\ owner[s] \in Users
    BY <1>0 DEF ReceiveNft, TypeOK
  <1>3. p # NoPacket /\ SourceNft(p) = s
    <2>1. p \in Packet
      BY <1>0, <1>1 DEF Packet, Nft
    <2>2. ChainOf[e] = s.chain
      BY DEF ReceiveNft
    <2> QED
      BY <2>1, <2>2, DistinctAssumption DEF SourceNft, Nft
  <1>4. owner[s] # Ics721
    BY <1>1, DistinctAssumption
  <1>5. /\ \A m \in Flights : ~Claims(m, s)
        /\ \A x \in Nft : Outstanding(x) => Parent(x) # s
    BY <1>4, UserHoldsAlone
  <1>6. \A m \in Flights, t \in Nft :
          Claims(m, t)' <=> IF m = n THEN t = s ELSE Claims(m, t)
    BY <1>1, <1>3 DEF Claims, SourceNft
  <1>7. \A x \in Nft : (Outstanding(x)' <=> Outstanding(x)) /\ Parent(x)' = Parent(x)
    <2>1. \A x \in Nft : Parent(x)' = Parent(x)
      BY <1>1 DEF Parent
    <2>2. \A x \in Nft, m \in Flights :
            (Claims(m, x)' => packet'[m].status # "success")
              <=> (Claims(m, x) => packet[m].status # "success")
      <3>1. \A x \in Nft : ~Claims(n, x)
        BY <1>1 DEF Claims
      <3> QED
        BY <1>1, <1>6, <3>1
    <2> QED
      BY <1>1, <2>1, <2>2 DEF Outstanding
  <1> QED
    BY <1>5, <1>6, <1>7

\* The NFT a user sends was claimed by nothing and backed nothing; now the
\* new packet claims it.
LEMMA SendStep ==
  ASSUME BackingInv, TypeOK', PacketsFit',
         NEW s \in Nft, NEW e \in Ends, NEW u \in Users, NEW n \in Flights,
         ReceiveNft(s, e, u, n)
  PROVE  BackingInv' /\ (EscrowJustified => EscrowJustified')
  <1> DEFINE p == [src |-> e, class |-> s.class, token |-> s.token,
                   sender |-> owner[s], receiver |-> u, status |-> "sent"]
  <1>0. TypeOK
    BY DEF BackingInv
  <1>1. /\ UNCHANGED <<incoming, metadata>>
        /\ \A t \in Nft : owner'[t] = IF t = s THEN Ics721 ELSE owner[t]
        /\ \A t \in Nft : outgoing'[t] = IF t = s THEN e ELSE outgoing[t]
        /\ \A m \in Flights : packet'[m] = IF m = n THEN p ELSE packet[m]
        /\ packet[n] = NoPacket
        /\ owner[s] \in Users
    BY <1>0 DEF ReceiveNft, TypeOK
  <1>2. /\ \A c \in Chains : registry[c] \subseteq registry'[c]
        /\ s.class \in registry'[s.chain]
    BY <1>0 DEF ReceiveNft, TypeOK, Nft
  <1>5. /\ \A m \in Flights : ~Claims(m, s)
        /\ \A x \in Nft : Outstanding(x) => Parent(x) # s
    BY SendChanges
  <1>6. \A m \in Flights, t \in Nft :
          Claims(m, t)' <=> IF m = n THEN t = s ELSE Claims(m, t)
    BY SendChanges
  <1>7. \A x \in Nft : (Outstanding(x)' <=> Outstanding(x)) /\ Parent(x)' = Parent(x)
    BY SendChanges
  <1>8. ClaimsExclusive'
    BY <1>5, <1>6 DEF ClaimsExclusive, BackingInv
  <1>9. ClaimsHeld'
    BY <1>1, <1>5, <1>6 DEF ClaimsHeld, BackingInv
  <1>10. VoucherRecorded'
    <2>1. owner[s] # Nobody
      BY <1>1, DistinctAssumption
    <2> QED
      BY <1>1, <2>1 DEF VoucherRecorded, BackingInv
  <1>11. \A x \in Nft : Outstanding(x) => Parent(x) \in Nft
    BY ParentType DEF Outstanding
  <1>12. VoucherBacked'
    BY <1>1, <1>5, <1>6, <1>7, <1>11 DEF VoucherBacked, BackingInv
  <1>13. EscrowJustified => EscrowJustified'
    <2> SUFFICES ASSUME EscrowJustified, NEW t \in Nft, owner'[t] = Ics721
                 PROVE  /\ t.class \in registry'[t.chain]
                        /\ \/ \E m \in Flights : Claims(m, t)'
                           \/ \E x \in Nft : Outstanding(x)' /\ Parent(x)' = t
      BY DEF EscrowJustified
    <2>1. CASE t = s
      BY <1>2, <1>6, <2>1
    <2>2. CASE t # s
      <3>1. /\ t.class \in registry[t.chain]
            /\ \/ \E m \in Flights : Claims(m, t)
               \/ \E x \in Nft : Outstanding(x) /\ Parent(x) = t
        BY <1>1, <2>2 DEF EscrowJustified, BackingInv
      <3>2. \A m \in Flights : Claims(m, t) => m # n
        BY <1>1 DEF Claims
      <3>3. t.chain \in Chains
        BY DEF Nft
      <3> QED
        BY <1>2, <1>6, <1>7, <3>1, <3>2, <3>3
    <2> QED
      BY <2>1, <2>2
  <1> QED
    BY <1>8, <1>9, <1>10, <1>12, <1>13 DEF BackingInv

\* What receipts change in the packet log: packet n gets a receipt.
LEMMA ReceiptClaims ==
  ASSUME TypeOK, NEW n \in Flights, packet[n] # NoPacket,
         packet[n].status = "sent", NEW st \in {"success", "error"},
         packet' = [packet EXCEPT ![n].status = st]
  PROVE  /\ \A m \in Flights : m # n => packet'[m] = packet[m]
         /\ packet'[n].status = st /\ packet'[n].src = packet[n].src
         /\ \A m \in Flights, t \in Nft : m # n => (Claims(m, t)' <=> Claims(m, t))
         /\ \A t \in Nft : Claims(n, t)' <=>
              /\ t = SourceNft(packet[n])
              /\ st = "success" => Pops(packet[n].src, packet[n].class)
  <1> DEFINE q == [packet[n] EXCEPT !.status = st]
  <1>1. \A m \in Flights : packet'[m] = IF m = n THEN q ELSE packet[m]
    BY DEF TypeOK
  <1>2. packet[n] \in Packet
    BY PacketTypes
  <1>3. /\ q.status = st /\ q.src = packet[n].src
        /\ q.class = packet[n].class /\ q.token = packet[n].token
        /\ q \in Packet
    BY <1>2 DEF Packet
  <1>4. q # NoPacket
    BY <1>3, DistinctAssumption
  <1>5. \A m \in Flights, t \in Nft : m # n => (Claims(m, t)' <=> Claims(m, t))
    BY <1>1 DEF Claims, SourceNft
  <1>6. \A t \in Nft : Claims(n, t)' <=>
          /\ t = SourceNft(packet[n])
          /\ st = "success" => Pops(packet[n].src, packet[n].class)
    BY <1>1, <1>3, <1>4 DEF Claims, SourceNft, Pops
  <1> QED
    BY <1>1, <1>3, <1>5, <1>6

LEMMA RejectStep ==
  ASSUME BackingInv, TypeOK', PacketsFit', NEW n \in Flights, RejectPacket(n)
  PROVE  BackingInv' /\ (EscrowJustified => EscrowJustified')
  <1> DEFINE s == SourceNft(packet[n])
  <1>1. /\ packet[n] # NoPacket /\ packet[n].status = "sent"
        /\ packet' = [packet EXCEPT ![n].status = "error"]
        /\ UNCHANGED <<owner, registry, outgoing, incoming, metadata>>
        /\ TypeOK
    BY DEF RejectPacket, InFlight, BackingInv
  <1>2. /\ \A m \in Flights : m # n => packet'[m] = packet[m]
        /\ packet'[n].status = "error" /\ packet'[n].src = packet[n].src
    BY <1>1, ReceiptClaims
  <1>3. \A m \in Flights, t \in Nft : Claims(m, t)' <=> Claims(m, t)
    <2>1. \A t \in Nft : Claims(n, t)' <=> t = s
      BY <1>1, ReceiptClaims
    <2>2. \A t \in Nft : Claims(n, t) <=> t = s
      BY <1>1 DEF Claims
    <2>3. \A m \in Flights, t \in Nft : m # n => (Claims(m, t)' <=> Claims(m, t))
      BY <1>1, ReceiptClaims
    <2> QED
      BY <2>1, <2>2, <2>3
  <1>4. \A x \in Nft : (Outstanding(x)' <=> Outstanding(x)) /\ Parent(x)' = Parent(x)
    BY <1>1, <1>2, <1>3 DEF Outstanding, Parent
  <1>5. ClaimsExclusive'
    BY <1>3 DEF ClaimsExclusive, BackingInv
  <1>6. ClaimsHeld'
    BY <1>1, <1>2, <1>3 DEF ClaimsHeld, BackingInv
  <1>7. VoucherRecorded'
    BY <1>1 DEF VoucherRecorded, BackingInv
  <1>8. VoucherBacked'
    BY <1>1, <1>3, <1>4, ParentType DEF VoucherBacked, Outstanding, BackingInv
  <1>9. EscrowJustified => EscrowJustified'
    BY <1>1, <1>3, <1>4 DEF EscrowJustified, BackingInv
  <1> QED
    BY <1>5, <1>6, <1>7, <1>8, <1>9 DEF BackingInv

\* What a redemption changes: the packet claims the voucher still, to have it
\* burnt, and what the voucher stood for backs nothing any more.
LEMMA RedeemChanges ==
  ASSUME BackingInv, NEW n \in Flights,
         ReceivePacket(n), RedeemVoucher(packet[n])
  PROVE  LET s == SourceNft(packet[n])
             d == DestNft(packet[n])
         IN /\ Claims(n, s) /\ Outstanding(s) /\ Parent(s) = d
            /\ \A m \in Flights : ~Claims(m, d)
            /\ \A m \in Flights, t \in Nft : Claims(m, t)' <=> Claims(m, t)
            /\ \A x \in Nft : Outstanding(x)' <=> Outstanding(x) /\ x # s
            /\ \A x \in Nft : Parent(x)' = Parent(x)
            /\ \A x \in Nft : Outstanding(x) /\ x # s => Parent(x) # d
  <1>0. PICK p \in Packet : p = packet[n]
    BY PacketTypes DEF ReceivePacket, InFlight, BackingInv
  <1> DEFINE s == SourceNft(p)
             d == DestNft(p)
  <1>1. /\ p = packet[n] /\ p # NoPacket /\ p.status = "sent" /\ TypeOK
        /\ packet' = [packet EXCEPT ![n].status = "success"]
        /\ s \in Nft /\ d \in Nft /\ Pops(p.src, p.class)
    BY <1>0, PacketTypes DEF ReceivePacket, InFlight, BackingInv, PacketsFit,
                             RedeemVoucher, IsRedemption
  <1>2. /\ UNCHANGED <<registry, incoming, metadata>>
        /\ owner[d] = Ics721 /\ p.receiver \in Users
        /\ \A t \in Nft : owner'[t] = IF t = d THEN p.receiver ELSE owner[t]
        /\ \A t \in Nft : outgoing'[t] = IF t = d THEN NoEnd ELSE outgoing[t]
    BY <1>1 DEF RedeemVoucher, TypeOK, Packet
  <1>3. Claims(n, s) /\ owner[s] = Ics721 /\ outgoing[s] = p.src
    BY <1>1, SourceClaimed
  <1>4. incoming[s] = p.src /\ Parent(s) = d
    BY <1>1, <1>3, ReturnFindsOriginal
  <1>5. incoming[s] # NoEnd
    BY <1>1, <1>4, DistinctAssumption DEF Packet
  <1>6. Outstanding(s)
    <2>1. \A m \in Flights : Claims(m, s) => m = n
      BY <1>1, <1>3 DEF BackingInv, ClaimsExclusive
    <2> QED
      BY <1>1, <1>5, <2>1 DEF Outstanding
  <1>7. \A m \in Flights : ~Claims(m, d)
    BY <1>1, <1>4, <1>6 DEF BackingInv, VoucherBacked
  <1>8. s # d
    BY <1>3, <1>7
  <1>9. /\ \A m \in Flights, t \in Nft : Claims(m, t)' <=> Claims(m, t)
        /\ \A m \in Flights : m # n => packet'[m] = packet[m]
        /\ packet'[n].status = "success"
    <2>1. \A t \in Nft : Claims(n, t)' <=> t = s
      BY <1>1, ReceiptClaims
    <2>2. \A t \in Nft : Claims(n, t) <=> t = s
      BY <1>1 DEF Claims
    <2>3. \A m \in Flights, t \in Nft : m # n => (Claims(m, t)' <=> Claims(m, t))
      BY <1>1, ReceiptClaims
    <2>4. /\ \A m \in Flights : m # n => packet'[m] = packet[m]
          /\ packet'[n].status = "success"
      BY <1>1, ReceiptClaims
    <2> QED
      BY <2>1, <2>2, <2>3, <2>4
  <1>10. /\ \A x \in Nft : Outstanding(x)' <=> Outstanding(x) /\ x # s
         /\ \A x \in Nft : Parent(x)' = Parent(x)
    <2>1. ~Outstanding(s)'
      <3>1. Claims(n, s)' /\ packet'[n].status = "success"
        BY <1>1, <1>3, <1>9
      <3> QED
        BY <3>1 DEF Outstanding
    <2>2. ASSUME NEW x \in Nft, x # s PROVE Outstanding(x)' <=> Outstanding(x)
      <3>1. ~Claims(n, x)
        BY <1>1, <2>2 DEF Claims
      <3> QED
        BY <1>2, <1>9, <3>1 DEF Outstanding
    <2>3. Outstanding(s)
      BY <1>6
    <2>4. \A x \in Nft : Outstanding(x)' <=> Outstanding(x) /\ x # s
      BY <2>1, <2>2, <2>3
    <2>5. \A x \in Nft : Parent(x)' = Parent(x)
      BY <1>2 DEF Parent
    <2> QED
      BY <2>4, <2>5
  <1>11. \A x \in Nft : Outstanding(x) /\ x # s => Parent(x) # d
    BY <1>1, <1>4, <1>6, BackingUnique
  <1> QED
    BY <1>1, <1>3, <1>4, <1>6, <1>7, <1>9, <1>10, <1>11

\* The voucher that comes back is no longer outstanding, and what it stood
\* for goes to the receiver.
LEMMA RedeemStep ==
  ASSUME BackingInv, TypeOK', PacketsFit', NEW n \in Flights,
         ReceivePacket(n), RedeemVoucher(packet[n])
  PROVE  BackingInv' /\ (EscrowJustified => EscrowJustified')
  <1>0. PICK p \in Packet : p = packet[n]
    BY PacketTypes DEF ReceivePacket, InFlight, BackingInv
  <1> DEFINE s == SourceNft(p)
             d == DestNft(p)
  <1>1. /\ p = packet[n] /\ p # NoPacket /\ p.status = "sent" /\ TypeOK
        /\ packet' = [packet EXCEPT ![n].status = "success"]
        /\ s \in Nft /\ d \in Nft /\ Pops(p.src, p.class)
    BY <1>0, PacketTypes DEF ReceivePacket, InFlight, BackingInv, PacketsFit,
                             RedeemVoucher, IsRedemption
  <1>2. /\ UNCHANGED <<registry, incoming, metadata>>
        /\ owner[d] = Ics721 /\ p.receiver \in Users
        /\ \A t \in Nft : owner'[t] = IF t = d THEN p.receiver ELSE owner[t]
        /\ \A t \in Nft : outgoing'[t] = IF t = d THEN NoEnd ELSE outgoing[t]
    BY <1>1 DEF RedeemVoucher, TypeOK, Packet
  <1>4. Claims(n, s) /\ Outstanding(s) /\ Parent(s) = d
    BY <1>1, RedeemChanges
  <1>7. \A m \in Flights : ~Claims(m, d)
    BY <1>1, RedeemChanges
  <1>9. /\ \A m \in Flights, t \in Nft : Claims(m, t)' <=> Claims(m, t)
        /\ \A m \in Flights : m # n => packet'[m] = packet[m]
        /\ packet'[n].status = "success"
    BY <1>1, RedeemChanges, ReceiptClaims
  <1>10. /\ \A x \in Nft : Outstanding(x)' <=> Outstanding(x) /\ x # s
         /\ \A x \in Nft : Parent(x)' = Parent(x)
    BY <1>1, RedeemChanges
  <1>11. \A x \in Nft : Outstanding(x) /\ x # s => Parent(x) # d
    BY <1>1, RedeemChanges
  <1>12. Ics721 # p.receiver /\ Ics721 # Nobody
    BY <1>2, DistinctAssumption
  <1>13. ClaimsExclusive'
    BY <1>9 DEF ClaimsExclusive, BackingInv
  <1>14. ClaimsHeld'
    BY <1>2, <1>7, <1>9 DEF ClaimsHeld, BackingInv
  <1>15. VoucherRecorded'
    BY <1>2, <1>12 DEF VoucherRecorded, BackingInv
  <1>16. \A x \in Nft : Outstanding(x) => Parent(x) \in Nft
    BY ParentType DEF Outstanding
  <1>17. VoucherBacked'
    BY <1>2, <1>9, <1>10, <1>11, <1>16 DEF VoucherBacked, BackingInv
  <1>18. EscrowJustified => EscrowJustified'
    <2> SUFFICES ASSUME EscrowJustified, NEW t \in Nft, owner'[t] = Ics721
                 PROVE  /\ t.class \in registry[t.chain]
                        /\ \/ \E m \in Flights : Claims(m, t)'
                           \/ \E x \in Nft : Outstanding(x)' /\ Parent(x)' = t
      BY <1>2 DEF EscrowJustified
    <2>1. t # d /\ owner[t] = Ics721
      BY <1>2, <1>12
    <2>2. /\ t.class \in registry[t.chain]
          /\ \/ \E m \in Flights : Claims(m, t)
             \/ \E x \in Nft : Outstanding(x) /\ Parent(x) = t
      BY <2>1 DEF BackingInv, EscrowJustified
    <2> QED
      BY <1>4, <1>9, <1>10, <2>1, <2>2
  <1> QED
    BY <1>13, <1>14, <1>15, <1>17, <1>18 DEF BackingInv

\* What the receipt of an NFT that is not coming back changes: the packet
\* claims nothing any more, and the new voucher d stands for the NFT it came for.
LEMMA CreateChanges ==
  ASSUME BackingInv, NEW n \in Flights,
         ReceivePacket(n), CreateVoucher(packet[n])
  PROVE  LET s == SourceNft(packet[n])
             d == DestNft(packet[n])
         IN /\ Claims(n, s) /\ \A m \in Flights : Claims(m, s) => m = n
            /\ Pops(Peer[packet[n].src], d.class) /\ d.chain = ChainOf[Peer[packet[n].src]]
            /\ \A m \in Flights, t \in Nft : Claims(m, t)' <=> m # n /\ Claims(m, t)
            /\ \A m \in Flights : ~Claims(m, d)
            /\ ~Outstanding(d)
            /\ \A x \in Nft : x # d =>
                 (Outstanding(x)' <=> Outstanding(x)) /\ Parent(x)' = Parent(x)
            /\ \A x \in Nft : x = d => Outstanding(x)' /\ Parent(x)' = s
  <1>0. PICK p \in Packet : p = packet[n]
    BY PacketTypes DEF ReceivePacket, InFlight, BackingInv
  <1> DEFINE s == SourceNft(p)
             d == DestNft(p)
             f == Peer[p.src]
  <1>1. /\ p = packet[n] /\ p # NoPacket /\ p.status = "sent" /\ TypeOK
        /\ packet' = [packet EXCEPT ![n].status = "success"]
        /\ s \in Nft /\ d \in Nft /\ p.receiver \in Users /\ p.src \in Ends
    BY <1>0, PacketTypes DEF ReceivePacket, InFlight, BackingInv, PacketsFit, Packet
  <1>2. /\ outgoing' = outgoing
        /\ owner[d] = Nobody
        /\ \A t \in Nft : owner'[t] = IF t = d THEN p.receiver ELSE owner[t]
        /\ \A t \in Nft : incoming'[t] = IF t = d THEN f ELSE incoming[t]
        /\ metadata' = metadata \cup {d}
        /\ \A c \in Chains : registry[c] \subseteq registry'[c]
    BY <1>1 DEF CreateVoucher, TypeOK
  <1>3. Claims(n, s) /\ owner[s] = Ics721 /\ outgoing[s] = p.src
    BY <1>1, SourceClaimed
  <1>4. \A m \in Flights : Claims(m, s) => m = n
    BY <1>1, <1>3 DEF BackingInv, ClaimsExclusive
  <1>5. ~Pops(p.src, p.class)
    <2> SUFFICES ASSUME Pops(p.src, p.class) PROVE FALSE
      OBVIOUS
    <2>1. incoming[s] = p.src /\ Parent(s) = d
      BY <1>1, <1>3, ReturnFindsOriginal
    <2>2. Outstanding(s)
      BY <1>1, <1>4, <2>1, DistinctAssumption DEF Outstanding
    <2>3. outgoing[d] = f
      BY <1>1, <2>1, <2>2 DEF BackingInv, VoucherBacked
    <2>4. IsRedemption(p)
      BY <2>3 DEF IsRedemption
    <2> QED
      BY <1>1, <2>4 DEF CreateVoucher
  <1>6. /\ f \in Ends /\ f # NoEnd /\ Peer[f] = p.src
        /\ d.chain = ChainOf[f] /\ Pops(f, d.class)
        /\ [path |-> Tail(d.class.path), base |-> d.class.base] = s.class
        /\ d.token = s.token /\ s.chain = ChainOf[p.src]
    <2>1. f \in Ends /\ f # NoEnd /\ Peer[f] = p.src
      BY <1>1, TopologyAssumption, DistinctAssumption
    <2>2. p.class \in Classes
      BY DEF Packet
    <2> QED
      BY <1>1, <1>5, <2>1, <2>2, ClassPush DEF DestNft, SourceNft
  <1>7. /\ \A m \in Flights, t \in Nft : Claims(m, t)' <=> m # n /\ Claims(m, t)
        /\ \A m \in Flights : m # n => packet'[m] = packet[m]
    <2>1. \A t \in Nft : ~Claims(n, t)'
      BY <1>1, <1>5, ReceiptClaims
    <2>2. \A m \in Flights, t \in Nft : m # n => (Claims(m, t)' <=> Claims(m, t))
      BY <1>1, ReceiptClaims
    <2>3. \A m \in Flights : m # n => packet'[m] = packet[m]
      BY <1>1, ReceiptClaims
    <2> QED
      BY <2>1, <2>2, <2>3
  <1>8. \A m \in Flights : ~Claims(m, d)
    BY <1>1, <1>2, DistinctAssumption DEF BackingInv, ClaimsHeld
  <1>9. ~Outstanding(d)
    <2> SUFFICES ASSUME Outstanding(d) PROVE FALSE
      OBVIOUS
    <2>1. incoming[d] \in Ends /\ ChainOf[incoming[d]] = ChainOf[f]
          /\ Prefix[incoming[d]] = Prefix[f]
      BY <1>1, <1>6, ParentType DEF BackingInv, VoucherRecorded, Outstanding, Pops
    <2>2. incoming[d] = f
      BY <1>6, <2>1, TopologyAssumption
    <2>3. Parent(d) = s
      BY <1>1, <1>6, <2>2 DEF Parent, Nft
    <2> QED
      BY <1>1, <1>3, <2>3, ClaimedBacksNothing
  <1>10. \A x \in Nft : x # d =>
           (Outstanding(x)' <=> Outstanding(x)) /\ Parent(x)' = Parent(x)
    <2>1. \A x \in Nft : x # d => Parent(x)' = Parent(x)
      BY <1>2 DEF Parent
    <2>2. \A x \in Nft : Claims(n, x) => packet[n].status # "success"
      BY <1>1
    <2>3. \A x \in Nft : x # d => (Outstanding(x)' <=> Outstanding(x))
      BY <1>2, <1>7, <2>2 DEF Outstanding
    <2> QED
      BY <2>1, <2>3
  <1>11. ASSUME NEW x \in Nft, x = d PROVE Outstanding(x)' /\ Parent(x)' = s
    <2>1. incoming'[x] = f
      BY <1>2, <1>11
    <2>2. Outstanding(x)'
      BY <1>6, <1>7, <1>8, <1>11, <2>1 DEF Outstanding
    <2>3. Parent(x)' = s
      BY <1>1, <1>6, <1>11, <2>1 DEF Parent, Nft
    <2> QED
      BY <2>2, <2>3
  <1> QED
    BY <1>1, <1>3, <1>4, <1>6, <1>7, <1>8, <1>9, <1>10, <1>11

\* The new voucher takes over from the packet as the reason for the escrow.
LEMMA CreateStep ==
  ASSUME BackingInv, TypeOK', PacketsFit', NEW n \in Flights,
         ReceivePacket(n), CreateVoucher(packet[n])
  PROVE  BackingInv' /\ (EscrowJustified => EscrowJustified')
  <1>0. PICK p \in Packet : p = packet[n]
    BY PacketTypes DEF ReceivePacket, InFlight, BackingInv
  <1> DEFINE s == SourceNft(p)
             d == DestNft(p)
             f == Peer[p.src]
  <1>1. /\ p = packet[n] /\ p # NoPacket /\ p.status = "sent" /\ TypeOK
        /\ packet' = [packet EXCEPT ![n].status = "success"]
        /\ s \in Nft /\ d \in Nft /\ p.receiver \in Users /\ p.src \in Ends
    BY <1>0, PacketTypes DEF ReceivePacket, InFlight, BackingInv, PacketsFit, Packet
  <1>2. /\ outgoing' = outgoing
        /\ owner[d] = Nobody
        /\ \A t \in Nft : owner'[t] = IF t = d THEN p.receiver ELSE owner[t]
        /\ \A t \in Nft : incoming'[t] = IF t = d THEN f ELSE incoming[t]
        /\ metadata' = metadata \cup {d}
        /\ \A c \in Chains : registry[c] \subseteq registry'[c]
    BY <1>1 DEF CreateVoucher, TypeOK
  <1>3. Claims(n, s) /\ owner[s] = Ics721 /\ outgoing[s] = p.src
    BY <1>1, SourceClaimed
  <1>4. \A m \in Flights : Claims(m, s) => m = n
    BY <1>1, CreateChanges
  <1>6. f \in Ends /\ f # NoEnd /\ Peer[f] = p.src /\ d.chain = ChainOf[f] /\ Pops(f, d.class)
    BY <1>1, CreateChanges, TopologyAssumption, DistinctAssumption
  <1>7. /\ \A m \in Flights, t \in Nft : Claims(m, t)' <=> m # n /\ Claims(m, t)
        /\ \A m \in Flights : m # n => packet'[m] = packet[m]
    BY <1>1, CreateChanges, ReceiptClaims
  <1>8. \A m \in Flights : ~Claims(m, d)
    BY <1>1, CreateChanges
  <1>9. ~Outstanding(d)
    BY <1>1, CreateChanges
  <1>10. \A x \in Nft : x # d =>
           (Outstanding(x)' <=> Outstanding(x)) /\ Parent(x)' = Parent(x)
    BY <1>1, CreateChanges
  <1>11. ASSUME NEW x \in Nft, x = d PROVE Outstanding(x)' /\ Parent(x)' = s
    BY <1>1, <1>11, CreateChanges
  <1>12. s # d
    BY <1>3, <1>8
  <1>13. \A x \in Nft : Outstanding(x) => Parent(x) \in Nft /\ Parent(x) # d
    <2>1. owner[d] # Ics721
      BY <1>2, DistinctAssumption
    <2> QED
      BY <1>1, <2>1, ParentType, UserHoldsAlone DEF Outstanding
  <1>14. p.receiver # Ics721
    BY <1>1, DistinctAssumption
  <1>15. ClaimsExclusive'
    BY <1>7 DEF ClaimsExclusive, BackingInv
  <1>16. ClaimsHeld'
    BY <1>2, <1>7, <1>8 DEF ClaimsHeld, BackingInv
  <1>17. VoucherRecorded'
    BY <1>2, <1>6 DEF VoucherRecorded, BackingInv
  <1>18. VoucherBacked'
    <2> SUFFICES ASSUME NEW x \in Nft, Outstanding(x)'
                 PROVE  /\ owner'[Parent(x)'] = Ics721
                        /\ outgoing'[Parent(x)'] = Peer[incoming'[x]]
                        /\ \A m \in Flights : ~Claims(m, Parent(x))'
      BY DEF VoucherBacked
    <2>1. CASE x = d
      <3>1. Parent(x)' = s /\ incoming'[x] = f
        BY <1>2, <1>11, <2>1
      <3>2. \A m \in Flights : ~(m # n /\ Claims(m, s))
        BY <1>4
      <3>3. \A t \in Nft : t = s => \A m \in Flights : ~Claims(m, t)'
        BY <1>7, <3>2
      <3>4. \A m \in Flights : ~Claims(m, Parent(x))'
        BY <1>1, <3>1, <3>3
      <3> QED
        BY <1>1, <1>2, <1>3, <1>6, <1>12, <3>1, <3>4
    <2>2. CASE x # d
      <3>1. Outstanding(x) /\ Parent(x)' = Parent(x) /\ incoming'[x] = incoming[x]
        BY <1>2, <1>10, <2>2
      <3>2. /\ owner[Parent(x)] = Ics721
            /\ outgoing[Parent(x)] = Peer[incoming[x]]
            /\ \A m \in Flights : ~Claims(m, Parent(x))
            /\ Parent(x) \in Nft /\ Parent(x) # d
        BY <1>13, <3>1 DEF BackingInv, VoucherBacked
      <3>3. PICK t \in Nft : t = Parent(x)
        BY <3>2
      <3>4. \A m \in Flights : ~Claims(m, t)'
        BY <1>7, <3>2, <3>3
      <3>5. \A m \in Flights : ~Claims(m, Parent(x))'
        BY <3>1, <3>3, <3>4
      <3> QED
        BY <1>2, <3>1, <3>2, <3>5
    <2> QED
      BY <2>1, <2>2
  <1>19. EscrowJustified => EscrowJustified'
    <2> SUFFICES ASSUME EscrowJustified, NEW t \in Nft, owner'[t] = Ics721
                 PROVE  /\ t.class \in registry'[t.chain]
                        /\ \/ \E m \in Flights : Claims(m, t)'
                           \/ \E x \in Nft : Outstanding(x)' /\ Parent(x)' = t
      BY DEF EscrowJustified
    <2>1. t # d /\ owner[t] = Ics721 /\ t.chain \in Chains
      BY <1>2, <1>14 DEF Nft
    <2>2. /\ t.class \in registry[t.chain]
          /\ \/ \E m \in Flights : Claims(m, t)
             \/ \E x \in Nft : Outstanding(x) /\ Parent(x) = t
      BY <2>1 DEF BackingInv, EscrowJustified
    <2>3. CASE \E m \in Flights : Claims(m, t)
      <3>1. PICK m \in Flights : Claims(m, t)
        BY <2>3
      <3>2. CASE m = n
        <4>1. t = s
          BY <1>1, <3>1, <3>2 DEF Claims
        <4> QED
          BY <1>1, <1>2, <1>11, <2>1, <2>2, <4>1
      <3>3. CASE m # n
        BY <1>2, <1>7, <2>1, <2>2, <3>1, <3>3
      <3> QED
        BY <3>2, <3>3
    <2>4. CASE \E x \in Nft : Outstanding(x) /\ Parent(x) = t
      <3>1. PICK x \in Nft : Outstanding(x) /\ Parent(x) = t
        BY <2>4
      <3>2. x # d
        BY <1>9, <3>1
      <3> QED
        BY <1>2, <1>10, <2>1, <2>2, <3>1, <3>2
    <2> QED
      BY <2>2, <2>3, <2>4
  <1> QED
    BY <1>15, <1>16, <1>17, <1>18, <1>19 DEF BackingInv

\* Settling packet n: it claims nothing any more.
LEMMA SettleClaims ==
  ASSUME TypeOK, NEW n \in Flights, Settle(n)
  PROVE  /\ \A m \in Flights : m # n => packet'[m] = packet[m]
         /\ \A m \in Flights, t \in Nft : Claims(m, t)' <=> m # n /\ Claims(m, t)
  <1>1. \A m \in Flights : packet'[m] = IF m = n THEN NoPacket ELSE packet[m]
    BY DEF Settle, TypeOK
  <1> QED
    BY <1>1 DEF Claims, SourceNft

\* What a refund changes: nothing claims the NFT any more.
LEMMA FailChanges ==
  ASSUME BackingInv, NEW n \in Flights,
         packet[n] # NoPacket, packet[n].status # "success", HandlePacketFail(n)
  PROVE  LET s == SourceNft(packet[n])
         IN /\ \A m \in Flights, t \in Nft : Claims(m, t)' <=> m # n /\ Claims(m, t)
            /\ \A m \in Flights : Claims(m, s) => m = n
            /\ \A x \in Nft : (Outstanding(x)' <=> Outstanding(x)) /\ Parent(x)' = Parent(x)
  <1>0. PICK p \in Packet : p = packet[n]
    BY PacketTypes DEF BackingInv
  <1> DEFINE s == SourceNft(p)
  <1>1. /\ p = packet[n] /\ p.status # "success" /\ TypeOK
        /\ s \in Nft /\ p.sender \in Users
    BY <1>0, PacketTypes DEF BackingInv, Packet
  <1>2. /\ UNCHANGED <<registry, incoming, metadata>>
        /\ \A t \in Nft : owner'[t] = IF t = s THEN p.sender ELSE owner[t]
        /\ \A t \in Nft : outgoing'[t] = IF t = s THEN NoEnd ELSE outgoing[t]
        /\ Settle(n)
    BY <1>1 DEF HandlePacketFail, TypeOK
  <1>3. Claims(n, s) /\ owner[s] = Ics721
    BY <1>1, SourceClaimed
  <1>4. /\ \A m \in Flights, t \in Nft : Claims(m, t)' <=> m # n /\ Claims(m, t)
        /\ \A m \in Flights : m # n => packet'[m] = packet[m]
    BY <1>1, <1>2, SettleClaims
  <1>5. \A m \in Flights : Claims(m, s) => m = n
    BY <1>1, <1>3 DEF BackingInv, ClaimsExclusive
  <1>6. \A x \in Nft : (Outstanding(x)' <=> Outstanding(x)) /\ Parent(x)' = Parent(x)
    <2>1. \A x \in Nft : Parent(x)' = Parent(x)
      BY <1>2 DEF Parent
    <2> QED
      BY <1>1, <1>2, <1>4, <2>1 DEF Outstanding
  <1> QED
    BY <1>1, <1>4, <1>5, <1>6

\* A refund: the packet was the only reason for the escrow.
LEMMA FailStep ==
  ASSUME BackingInv, TypeOK', PacketsFit', NEW n \in Flights,
         packet[n] # NoPacket, packet[n].status # "success", HandlePacketFail(n)
  PROVE  BackingInv' /\ (EscrowJustified => EscrowJustified')
  <1>0. PICK p \in Packet : p = packet[n]
    BY PacketTypes DEF BackingInv
  <1> DEFINE s == SourceNft(p)
  <1>1. /\ p = packet[n] /\ p.status # "success" /\ TypeOK
        /\ s \in Nft /\ p.sender \in Users
    BY <1>0, PacketTypes DEF BackingInv, Packet
  <1>2. /\ UNCHANGED <<registry, incoming, metadata>>
        /\ \A t \in Nft : owner'[t] = IF t = s THEN p.sender ELSE owner[t]
        /\ \A t \in Nft : outgoing'[t] = IF t = s THEN NoEnd ELSE outgoing[t]
        /\ Settle(n)
    BY <1>1 DEF HandlePacketFail, TypeOK
  <1>3. Claims(n, s) /\ owner[s] = Ics721
    BY <1>1, SourceClaimed
  <1>4. /\ \A m \in Flights, t \in Nft : Claims(m, t)' <=> m # n /\ Claims(m, t)
        /\ \A m \in Flights : m # n => packet'[m] = packet[m]
    BY <1>1, <1>2, SettleClaims
  <1>5. \A m \in Flights : Claims(m, s) => m = n
    BY <1>1, FailChanges
  <1>6. \A x \in Nft : (Outstanding(x)' <=> Outstanding(x)) /\ Parent(x)' = Parent(x)
    BY <1>1, FailChanges
  <1>7. p.sender # Ics721
    BY <1>1, DistinctAssumption
  <1>8. \A x \in Nft : Outstanding(x) => Parent(x) \in Nft /\ Parent(x) # s
    BY <1>1, <1>3, ParentType, ClaimedBacksNothing DEF Outstanding
  <1>9. ClaimsExclusive'
    BY <1>4 DEF ClaimsExclusive, BackingInv
  <1>10. ClaimsHeld'
    BY <1>2, <1>4, <1>5 DEF ClaimsHeld, BackingInv
  <1>11. VoucherRecorded'
    <2>1. owner[s] # Nobody
      BY <1>3, DistinctAssumption
    <2> QED
      BY <1>2, <2>1 DEF VoucherRecorded, BackingInv
  <1>12. VoucherBacked'
    BY <1>2, <1>4, <1>6, <1>8 DEF VoucherBacked, BackingInv
  <1>13. EscrowJustified => EscrowJustified'
    <2> SUFFICES ASSUME EscrowJustified, NEW t \in Nft, owner'[t] = Ics721
                 PROVE  /\ t.class \in registry[t.chain]
                        /\ \/ \E m \in Flights : Claims(m, t)'
                           \/ \E x \in Nft : Outstanding(x)' /\ Parent(x)' = t
      BY <1>2 DEF EscrowJustified
    <2>1. t # s /\ owner[t] = Ics721
      BY <1>2, <1>7
    <2>2. /\ t.class \in registry[t.chain]
          /\ \/ \E m \in Flights : Claims(m, t)
             \/ \E x \in Nft : Outstanding(x) /\ Parent(x) = t
      BY <2>1 DEF BackingInv, EscrowJustified
    <2>3. ~Claims(n, t)
      BY <1>1, <2>1 DEF Claims
    <2> QED
      BY <1>4, <1>6, <2>2, <2>3
  <1> QED
    BY <1>9, <1>10, <1>11, <1>12, <1>13 DEF BackingInv

\* What the acknowledgement of a transfer that went through changes: what the
\* packet claimed is burnt, and was not in circulation.
LEMMA AckChanges ==
  ASSUME BackingInv, NEW n \in Flights, AckSuccess(n)
  PROVE  /\ \A m \in Flights, t \in Nft : Claims(m, t)' <=> m # n /\ Claims(m, t)
         /\ \A t \in Nft : IF Claims(n, t)
              THEN owner'[t] = Nobody /\ incoming'[t] = NoEnd /\ ~Outstanding(t)
              ELSE owner'[t] = owner[t] /\ incoming'[t] = incoming[t]
         /\ \A x \in Nft : Outstanding(x)' <=> Outstanding(x)
         /\ \A x \in Nft : Outstanding(x) => Parent(x)' = Parent(x)
  <1>0. PICK p \in Packet : p = packet[n]
    BY PacketTypes DEF AckSuccess, InFlight, BackingInv
  <1> DEFINE s == SourceNft(p)
  <1>1. /\ p = packet[n] /\ p # NoPacket /\ p.status = "success" /\ TypeOK
        /\ s \in Nft /\ p.src \in Ends
    BY <1>0, PacketTypes DEF AckSuccess, InFlight, BackingInv, Packet
  <1>2. /\ \A m \in Flights, t \in Nft : Claims(m, t)' <=> m # n /\ Claims(m, t)
        /\ \A m \in Flights : m # n => packet'[m] = packet[m]
    BY <1>1, SettleClaims DEF AckSuccess
  <1>3. p.class = s.class /\ ChainOf[p.src] = s.chain
    BY DEF SourceNft
  <1>4. \A t \in Nft : Claims(n, t) => t = s /\ ~Outstanding(t)
    BY <1>1 DEF Claims, Outstanding
  <1>5. \A t \in Nft : IF Claims(n, t)
          THEN owner'[t] = Nobody /\ incoming'[t] = NoEnd
          ELSE owner'[t] = owner[t] /\ incoming'[t] = incoming[t]
    <2>1. CASE incoming[s] = p.src
      <3>1. /\ \A t \in Nft : owner'[t] = IF t = s THEN Nobody ELSE owner[t]
            /\ \A t \in Nft : incoming'[t] = IF t = s THEN NoEnd ELSE incoming[t]
        BY <1>1, <2>1 DEF AckSuccess, TypeOK
      <3>2. Pops(p.src, p.class)
        BY <1>1, <1>3, <2>1, DistinctAssumption DEF BackingInv, VoucherRecorded
      <3>3. Claims(n, s)
        BY <1>1, <3>2 DEF Claims
      <3> QED
        BY <1>4, <3>1, <3>3
    <2>2. CASE incoming[s] # p.src
      <3>1. UNCHANGED <<owner, incoming>>
        BY <1>1, <2>2 DEF AckSuccess
      <3>2. ~Claims(n, s)
        <4> SUFFICES ASSUME Claims(n, s) PROVE FALSE
          OBVIOUS
        <4>1. Pops(packet[n].src, packet[n].class)
          BY <1>1 DEF Claims
        <4> QED
          BY <1>1, <2>2, <4>1, ReturnFindsOriginal
      <3> QED
        BY <1>4, <3>1, <3>2
    <2> QED
      BY <2>1, <2>2
  <1>6. \A x \in Nft : Outstanding(x)' <=> Outstanding(x)
    <2>1. ASSUME NEW x \in Nft, Claims(n, x) PROVE Outstanding(x)' <=> Outstanding(x)
      BY <1>4, <1>5, <2>1 DEF Outstanding
    <2>2. ASSUME NEW x \in Nft, ~Claims(n, x) PROVE Outstanding(x)' <=> Outstanding(x)
      BY <1>2, <1>5, <2>2 DEF Outstanding
    <2> QED
      BY <2>1, <2>2
  <1>7. \A x \in Nft : Outstanding(x) => Parent(x)' = Parent(x)
    BY <1>4, <1>5 DEF Parent
  <1> QED
    BY <1>2, <1>4, <1>5, <1>6, <1>7

\* A voucher that went home is burnt, and the packet was the only reason for
\* it to be there.
LEMMA AckStep ==
  ASSUME BackingInv, TypeOK', PacketsFit', NEW n \in Flights, AckSuccess(n)
  PROVE  BackingInv' /\ (EscrowJustified => EscrowJustified')
  <1>1. /\ UNCHANGED <<registry, outgoing>> /\ Settle(n) /\ TypeOK
        /\ SourceNft(packet[n]) \in Nft
    BY PacketTypes DEF AckSuccess, InFlight, BackingInv
  <1>2. /\ \A m \in Flights, t \in Nft : Claims(m, t)' <=> m # n /\ Claims(m, t)
        /\ \A m \in Flights : m # n => packet'[m] = packet[m]
    BY <1>1, SettleClaims
  <1>3. \A t \in Nft : IF Claims(n, t)
          THEN owner'[t] = Nobody /\ incoming'[t] = NoEnd /\ ~Outstanding(t)
          ELSE owner'[t] = owner[t] /\ incoming'[t] = incoming[t]
    BY AckChanges
  <1>4. /\ \A x \in Nft : Outstanding(x)' <=> Outstanding(x)
        /\ \A x \in Nft : Outstanding(x) => Parent(x)' = Parent(x)
    BY AckChanges
  <1>5. ClaimsExclusive'
    BY <1>2 DEF ClaimsExclusive, BackingInv
  <1>6. ClaimsHeld'
    BY <1>1, <1>2, <1>3 DEF ClaimsHeld, ClaimsExclusive, BackingInv
  <1>7. VoucherRecorded'
    <2> DEFINE s == SourceNft(packet[n])
    <2>1. \A t \in Nft : t \in metadata' <=> t \in metadata /\ (t = s => incoming'[t] # NoEnd)
      <3>1. CASE incoming[s] = packet[n].src
        BY <1>1, <3>1 DEF AckSuccess, TypeOK
      <3>2. CASE incoming[s] # packet[n].src
        BY <1>1, <3>2 DEF AckSuccess, BackingInv, VoucherRecorded
      <3> QED
        BY <3>1, <3>2
    <2>2. \A t \in Nft : Claims(n, t) => t = s
      BY DEF Claims
    <2> QED
      BY <1>1, <1>3, <2>1, <2>2 DEF VoucherRecorded, BackingInv
  <1>8. VoucherBacked'
    <2>1. \A x \in Nft : Outstanding(x) => Parent(x) \in Nft
      BY ParentType DEF Outstanding
    <2> QED
      BY <1>1, <1>2, <1>3, <1>4, <2>1 DEF VoucherBacked, BackingInv
  <1>9. EscrowJustified => EscrowJustified'
    BY <1>1, <1>2, <1>3, <1>4, DistinctAssumption DEF EscrowJustified
  <1> QED
    BY <1>5, <1>6, <1>7, <1>8, <1>9 DEF BackingInv

LEMMA BackingStep ==
  ASSUME BackingInv, [Next]_vars
  PROVE  BackingInv' /\ (EscrowJustified => EscrowJustified')
  <1> DEFINE Kept == BackingInv' /\ (EscrowJustified => EscrowJustified')
  <1>1. TypeOK' /\ PacketsFit'
    BY TypeStep DEF BackingInv
  <1>2. ASSUME NEW s \in Nft, NEW u \in Users, TransferNft(s, u)
        PROVE  Kept
    <2>1. \A t \in Nft : owner'[t] = IF t = s THEN u ELSE owner[t]
      BY <1>2 DEF TransferNft, BackingInv, TypeOK
    <2> QED
      BY <1>1, <1>2, <2>1, LocalStep DEF TransferNft
  <1>3. ASSUME NEW s \in Nft, BurnNft(s)
        PROVE  Kept
    <2>1. \A t \in Nft : owner'[t] = IF t = s THEN Nobody ELSE owner[t]
      BY <1>3 DEF BurnNft, BackingInv, TypeOK
    <2> QED
      BY <1>1, <1>3, <2>1, LocalStep DEF BurnNft
  <1>4. ASSUME NEW s \in Nft, NEW e \in Ends, NEW u \in Users, NEW n \in Flights,
               ReceiveNft(s, e, u, n)
        PROVE  Kept
    BY <1>1, <1>4, SendStep
  <1>5. ASSUME NEW n \in Flights, ReceivePacket(n)
        PROVE  Kept
    BY <1>1, <1>5, RedeemStep, CreateStep DEF ReceivePacket
  <1>6. ASSUME NEW n \in Flights, RejectPacket(n)
        PROVE  Kept
    BY <1>1, <1>6, RejectStep
  <1>7. ASSUME NEW n \in Flights, AckError(n) \/ TimeoutPacket(n)
        PROVE  Kept
    BY <1>1, <1>7, FailStep DEF AckError, TimeoutPacket, InFlight
  <1>8. ASSUME NEW n \in Flights, AckSuccess(n)
        PROVE  Kept
    BY <1>1, <1>8, AckStep
  <1>9. ASSUME NEW c \in Chains, Pause(c) \/ Migrate(c)
        PROVE  Kept
    BY <1>1, <1>9, LocalStep DEF Pause, Migrate
  <1>10. ASSUME UNCHANGED vars PROVE Kept
    BY <1>1, <1>10, LocalStep DEF vars
  <1> QED
    BY <1>2, <1>3, <1>4, <1>5, <1>6, <1>7, <1>8, <1>9, <1>10
    DEF Next, HolderStep, RelayerStep, Arrive, Acknowledge

LEMMA EscrowStep == EscrowInv /\ [Next]_vars => EscrowInv'
  BY BackingStep DEF EscrowInv

\* The inductive invariant holds throughout, on every topology.
THEOREM EscrowInvariant == Spec => []EscrowInv
  BY InitEscrow, EscrowStep, PTL DEF Spec

\* Bringing back a voucher in circulation always redeems the original.
THEOREM VouchersAreBacked == Spec => []VoucherBacked
  <1>1. EscrowInv => VoucherBacked
    BY DEF EscrowInv, BackingInv
  <1> QED
    BY <1>1, EscrowInvariant, PTL

\* ICS721 holds an NFT for exactly one reason, or not at all.
THEOREM EscrowIsAccounted == Spec => []EscrowAccounted
  <1>1. EscrowInv => EscrowAccounted
    <2> SUFFICES ASSUME EscrowInv, NEW s \in Nft
                 PROVE  IF owner[s] = Ics721
                        THEN \E r \in Reasons(s) : Reasons(s) = {r}
                        ELSE Reasons(s) = {}
      BY DEF EscrowAccounted
    <2>1. CASE owner[s] # Ics721
      BY <2>1, UserHoldsAlone DEF Reasons, EscrowInv
    <2>2. CASE owner[s] = Ics721
      <3>1. CASE \E n \in Flights : Claims(n, s)
        <4>1. PICK n \in Flights : Claims(n, s)
          BY <3>1
        <4>2. \A m \in Flights : Claims(m, s) => m = n
          BY <4>1 DEF EscrowInv, BackingInv, ClaimsExclusive
        <4>3. \A x \in Nft : ~(Outstanding(x) /\ Parent(x) = s)
          BY <4>1, ClaimedBacksNothing DEF EscrowInv
        <4>4. Reasons(s) = {n}
          BY <4>1, <4>2, <4>3 DEF Reasons
        <4> QED
          BY <2>2, <4>4
      <3>2. CASE \A n \in Flights : ~Claims(n, s)
        <4>1. PICK x \in Nft : Outstanding(x) /\ Parent(x) = s
          BY <2>2, <3>2 DEF EscrowInv, EscrowJustified
        <4>2. \A y \in Nft : Outstanding(y) /\ Parent(y) = s => y = x
          BY <4>1, BackingUnique DEF EscrowInv
        <4>3. Reasons(s) = {x}
          BY <3>2, <4>1, <4>2 DEF Reasons
        <4> QED
          BY <2>2, <4>3
      <3> QED
        BY <3>1, <3>2
    <2> QED
      BY <2>1, <2>2
  <1> QED
    BY <1>1, EscrowInvariant, PTL

\* What a settlement has to send back or to burn is there.
LEMMA BackingSettles == BackingInv => SettlementPossible
  <1> SUFFICES ASSUME BackingInv, NEW n \in Flights, packet[n] # NoPacket
               PROVE  LET p == packet[n]
                          s == SourceNft(p)
                      IN /\ s.class \in registry[s.chain]
                         /\ p.status \in {"sent", "error"} => owner[s] = Ics721
                         /\ p.status = "success" /\ incoming[s] = p.src
                              => owner[s] = Ics721
    BY DEF SettlementPossible
  <1> DEFINE s == SourceNft(packet[n])
  <1>1. packet[n] \in Packet /\ s \in Nft /\ s.chain = ChainOf[packet[n].src]
        /\ s.class = packet[n].class
    BY PacketTypes DEF BackingInv, SourceNft
  <1>2. s.class \in registry[s.chain]
    BY <1>1 DEF BackingInv, PacketsFit
  <1>3. packet[n].status \in {"sent", "error"} => owner[s] = Ics721
    BY SourceClaimed
  <1>4. ASSUME packet[n].status = "success", incoming[s] = packet[n].src
        PROVE  owner[s] = Ics721
    <2>1. incoming[s] # NoEnd
      BY <1>1, <1>4, DistinctAssumption DEF Packet
    <2>2. Pops(packet[n].src, packet[n].class)
      BY <1>1, <1>4, <2>1 DEF BackingInv, VoucherRecorded
    <2>3. Claims(n, s)
      BY <2>2 DEF Claims
    <2> QED
      BY <1>1, <2>3 DEF BackingInv, ClaimsHeld
  <1> QED
    BY <1>2, <1>3, <1>4

\* No acknowledgement and no timeout can fail.
THEOREM SettlementIsPossible == Spec => []SettlementPossible
  <1>1. EscrowInv => SettlementPossible
    BY BackingSettles DEF EscrowInv
  <1> QED
    BY <1>1, EscrowInvariant, PTL

\* Every voucher is on record, with its metadata, under the end it came in on.
THEOREM VouchersAreRecorded == Spec => []VoucherRecorded
  <1>1. EscrowInv => VoucherRecorded
    BY DEF EscrowInv, BackingInv
  <1> QED
    BY <1>1, EscrowInvariant, PTL

-------------------------------------------------------------------------------
(* Where a class comes from: induction over its path.                        *)

\* Induction over the naturals, for a set in the place of a predicate.
LEMMA NatSetInduction ==
  ASSUME NEW S, 0 \in S, \A n \in Nat : n \in S => n + 1 \in S
  PROVE  Nat \subseteq S
  <1> SUFFICES ASSUME Nat \ S # {} PROVE FALSE
    OBVIOUS
  <1>1. \E x \in Nat \ S : \A y \in Nat \ S : ~ (<<y, x>> \in OpToRel(<, Nat))
    BY WFMin, NatLessThanWellFounded, Zenon
  <1>2. PICK x \in Nat \ S : \A y \in Nat \ S : ~ (<<y, x>> \in OpToRel(<, Nat))
    BY <1>1
  <1>3. \A y \in Nat \ S : ~(y < x)
    BY <1>2 DEF OpToRel
  <1>4. x \in Nat /\ x # 0
    BY <1>2
  <1>5. x - 1 \in Nat /\ x - 1 < x /\ (x - 1) + 1 = x
    BY <1>4
  <1>6. x - 1 \in S
    BY <1>3, <1>5
  <1> QED
    BY <1>2, <1>5, <1>6

\* One step back from chain c along path, for the f that takes it from there.
Back(f, path) == [c \in Chains |->
  LET via == {e \in Ends : ChainOf[e] = c /\ Prefix[e] = Head(path)}
  IN IF path = << >> \/ via = {} THEN c
     ELSE f[Tail(path)][ChainOf[Peer[CHOOSE e \in via : TRUE]]]]

\* A path has at most MaxHops prefixes, and popping one shortens it by one.
LEMMA PathLength ==
  ASSUME NEW p \in Paths
  PROVE  /\ Len(p) \in Nat /\ Len(p) <= MaxHops
         /\ Len(p) = 0 <=> p = << >>
         /\ p # << >> => Tail(p) \in Paths /\ Len(Tail(p)) = Len(p) - 1
  <1>1. PICK n \in 0..MaxHops : p \in [1..n -> Prefixes]
    BY DEF Paths
  <1>2. MaxHops \in Nat
    BY TopologyAssumption
  <1>3. p \in Seq(Prefixes) /\ Len(p) = n
    BY <1>1, <1>2
  <1>4. Len(p) = 0 <=> p = << >>
    BY <1>3, EmptySeq
  <1>5. p # << >> => Tail(p) \in Paths /\ Len(Tail(p)) = Len(p) - 1
    BY <1>3, PathPop, HeadTailProperties
  <1> QED
    BY <1>2, <1>3, <1>4, <1>5

\* The recursion is well defined: it ends where the path does.
LEMMA OriginUnfolds == \A p \in Paths : OriginChain[p] = Back(OriginChain, p)
  <1> DEFINE Upto(f, n) == /\ f = [p \in Paths |-> f[p]]
                           /\ \A p \in Paths : Len(p) <= n => f[p] = Back(f, p)
             S == {n \in Nat : \E f : Upto(f, n)}
  <1>1. 0 \in S
    <2> DEFINE f == [p \in Paths |-> [c \in Chains |-> c]]
    <2>1. f = [p \in Paths |-> f[p]]
      OBVIOUS
    <2>2. ASSUME NEW p \in Paths, Len(p) <= 0 PROVE f[p] = Back(f, p)
      <3>1. p = << >>
        BY <2>2, PathLength
      <3> QED
        BY <3>1 DEF Back
    <2>3. Upto(f, 0)
      BY <2>1, <2>2
    <2> QED
      BY <2>3
  <1>2. ASSUME NEW n \in Nat, n \in S PROVE n + 1 \in S
    <2>1. PICK f : Upto(f, n)
      BY <1>2
    <2> DEFINE g == [p \in Paths |-> Back(f, p)]
    <2>2. g = [p \in Paths |-> g[p]]
      OBVIOUS
    <2>3. ASSUME NEW p \in Paths, Len(p) <= n + 1 PROVE g[p] = Back(g, p)
      <3>1. CASE p = << >>
        BY <3>1 DEF Back
      <3>2. CASE p # << >>
        <4>1. Tail(p) \in Paths /\ Len(Tail(p)) <= n
          BY <2>3, <3>2, PathLength
        <4>2. g[Tail(p)] = f[Tail(p)]
          BY <2>1, <4>1
        <4>3. g[p] = Back(f, p)
          OBVIOUS
        <4> HIDE DEF g
        <4>4. Back(f, p) = Back(g, p)
          BY <4>2 DEF Back
        <4> QED
          BY <4>3, <4>4
      <3> QED
        BY <3>1, <3>2
    <2>4. Upto(g, n + 1)
      BY <2>2, <2>3
    <2> HIDE DEF g
    <2> QED
      BY <2>4
  <1>3. MaxHops \in S
    BY <1>1, <1>2, NatSetInduction, TopologyAssumption
  <1>4. PICK f : Upto(f, MaxHops)
    BY <1>3
  <1>5. f = [p \in Paths |-> Back(f, p)]
    BY <1>4, PathLength
  <1>6. OriginChain = CHOOSE h : h = [p \in Paths |-> Back(h, p)]
    BY DEF OriginChain, Back
  <1>7. OriginChain = [p \in Paths |-> Back(OriginChain, p)]
    BY <1>5, <1>6
  <1> QED
    BY <1>7

\* A class without a prefix is at home.
LEMMA OriginRoot ==
  ASSUME NEW p \in Paths, p = << >>, NEW c \in Chains
  PROVE  OriginChain[p][c] = c
  <1>1. OriginChain[p] = Back(OriginChain, p)
    BY OriginUnfolds
  <1>2. Back(OriginChain, p)[c] = c
    BY DEF Back
  <1> QED
    BY <1>1, <1>2

\* The end whose prefix comes first leads one chain back.
LEMMA OriginPop ==
  ASSUME NEW p \in Paths, p # << >>, NEW e \in Ends, Head(p) = Prefix[e]
  PROVE  OriginChain[p][ChainOf[e]] = OriginChain[Tail(p)][ChainOf[Peer[e]]]
  <1> DEFINE via == {f \in Ends : ChainOf[f] = ChainOf[e] /\ Prefix[f] = Head(p)}
  <1>1. via = {e}
    BY TopologyAssumption
  <1>2. (CHOOSE f \in via : TRUE) = e
    BY <1>1
  <1>3. ChainOf[e] \in Chains
    BY TopologyAssumption
  <1>4. Back(OriginChain, p)[ChainOf[e]] =
          IF p = << >> \/ via = {} THEN ChainOf[e]
          ELSE OriginChain[Tail(p)][ChainOf[Peer[CHOOSE f \in via : TRUE]]]
    BY <1>3 DEF Back
  <1> QED
    BY <1>1, <1>2, <1>4, OriginUnfolds

\* A class comes from the same chain under its names at both ends of e.
LEMMA OriginLocal ==
  ASSUME NEW e \in Ends, NEW k \in Classes, LocalClass(e, k) \in Classes
  PROVE  OriginChain[LocalClass(e, k).path][ChainOf[Peer[e]]]
           = OriginChain[k.path][ChainOf[e]]
  <1>1. k.path \in Paths /\ LocalClass(e, k).path \in Paths
    BY DEF Classes
  <1>2. CASE Pops(e, k)
    <2>1. LocalClass(e, k).path = Tail(k.path)
      BY <1>2 DEF LocalClass
    <2>2. k.path # << >> /\ Head(k.path) = Prefix[e]
      BY <1>2 DEF Pops
    <2> QED
      BY <1>1, <2>1, <2>2, OriginPop
  <1>3. CASE ~Pops(e, k)
    <2> DEFINE l == LocalClass(e, k)
    <2>1. /\ Pops(Peer[e], l)
          /\ [path |-> Tail(l.path), base |-> l.base] = k
      BY <1>3, ClassPush
    <2>2. l.path # << >> /\ Head(l.path) = Prefix[Peer[e]] /\ Tail(l.path) = k.path
      BY <2>1 DEF Pops
    <2>3. Peer[e] \in Ends /\ Peer[Peer[e]] = e
      BY TopologyAssumption
    <2>4. l.path \in Paths
      BY <1>1
    <2> HIDE DEF l
    <2>5. OriginChain[l.path][ChainOf[Peer[e]]]
            = OriginChain[Tail(l.path)][ChainOf[Peer[Peer[e]]]]
      BY <2>2, <2>3, <2>4, OriginPop
    <2> QED
      BY <2>2, <2>3, <2>5 DEF l
  <1> QED
    BY <1>2, <1>3

-------------------------------------------------------------------------------
(* Where an original is.                                                     *)

\* What a receipt hands out stands for what was sent.
LEMMA DestStandsFor ==
  ASSUME NEW p \in Packet, LocalClass(p.src, p.class) \in Classes, NEW x
  PROVE  StandsFor(DestNft(p), x) <=> StandsFor(SourceNft(p), x)
  <1>1. p.src \in Ends /\ p.class \in Classes
    BY DEF Packet
  <1>2. LocalClass(p.src, p.class).base = p.class.base
    BY DEF LocalClass
  <1> QED
    BY <1>1, <1>2, OriginLocal DEF StandsFor, DestNft, SourceNft

\* An NFT stands for one original at most.
LEMMA StandsForOne ==
  ASSUME NEW s, NEW x \in Originals, NEW y \in Originals,
         StandsFor(s, x), StandsFor(s, y)
  PROVE  x = y
  <1>1. /\ x = [chain |-> x.chain, class |-> x.class, token |-> x.token]
        /\ x.class = [path |-> << >>, base |-> x.class.base]
        /\ y = [chain |-> y.chain, class |-> y.class, token |-> y.token]
        /\ y.class = [path |-> << >>, base |-> y.class.base]
    BY DEF Originals, IsOriginal, Nft, Classes
  <1>2. x.chain = y.chain /\ x.token = y.token /\ x.class.base = y.class.base
    BY DEF StandsFor
  <1> QED
    BY <1>1, <1>2

\* An original stands for itself alone.
LEMMA OriginalStandsFor ==
  ASSUME NEW s \in Originals, NEW x \in Originals
  PROVE  StandsFor(s, x) <=> s = x
  <1>1. OriginChain[s.class.path][s.chain] = s.chain
    BY OriginRoot DEF Originals, IsOriginal, Nft, Classes
  <1>2. StandsFor(s, s)
    BY <1>1 DEF StandsFor
  <1> QED
    BY <1>2, StandsForOne

\* x has one copy at most, held or on its way.
OneCopy(x) == /\ \A s, t \in HeldCopies(x) : s = t
              /\ \A m, n \in CopiesInTransit(x) : m = n
              /\ HeldCopies(x) = {} \/ CopiesInTransit(x) = {}
Single == \A x \in Originals : OneCopy(x)

\* Where one copy is, or that there is none.
Placed(x) ==
  /\ \A s \in HeldCopies(x) : Place(x) = At(s.chain, owner[s])
  /\ \A n \in CopiesInTransit(x) : Place(x) = Route(packet[n])
  /\ HeldCopies(x) = {} /\ CopiesInTransit(x) = {} => Place(x) = [state |-> "burnt"]
AllPlaced == \A x \in Originals : OneCopy(x) => Placed(x)

\* Place finds the one copy, held or on its way.
LEMMA PlaceOfCopy == AllPlaced
  <1> SUFFICES ASSUME NEW x \in Originals, OneCopy(x) PROVE Placed(x)
    BY DEF AllPlaced
  <1> DEFINE held == HeldCopies(x)
             transit == CopiesInTransit(x)
             Choice == CASE Cardinality(held) + Cardinality(transit) > 1 -> [state |-> "duplicated"]
       [] held # {} -> LET s == CHOOSE s \in held : TRUE IN At(s.chain, owner[s])
       [] transit # {} -> Route(packet[CHOOSE n \in transit : TRUE])
       [] OTHER -> [state |-> "burnt"]
  <1>1. Place(x) = Choice
    BY DEF Place
  <1>2. /\ \A s, t \in held : s = t
        /\ \A m, n \in transit : m = n
        /\ held = {} \/ transit = {}
    BY DEF OneCopy
  <1> HIDE DEF held, transit
  <1>3. ASSUME NEW s \in held PROVE Choice = At(s.chain, owner[s])
    <2>1. held = {s} /\ transit = {} /\ (CHOOSE t \in held : TRUE) = s
      BY <1>2, <1>3
    <2>2. Cardinality(held) = 1 /\ Cardinality(transit) = 0
      BY <2>1, FS_EmptySet, FS_Singleton
    <2> QED
      BY <2>1, <2>2
  <1>4. ASSUME NEW n \in transit PROVE Choice = Route(packet[n])
    <2>1. transit = {n} /\ held = {} /\ (CHOOSE t \in transit : TRUE) = n
      BY <1>2, <1>4
    <2>2. Cardinality(held) = 0 /\ Cardinality(transit) = 1
      BY <2>1, FS_EmptySet, FS_Singleton
    <2> QED
      BY <2>1, <2>2
  <1>5. ASSUME held = {}, transit = {} PROVE Choice = [state |-> "burnt"]
    BY <1>5, FS_EmptySet
  <1> QED
    BY <1>1, <1>3, <1>4, <1>5 DEF held, transit, Placed

\* x stays where it is while its copies and their packets do.
LEMMA PlaceKept ==
  ASSUME NEW x \in Originals, OneCopy(x),
         HeldCopies(x)' = HeldCopies(x), CopiesInTransit(x)' = CopiesInTransit(x),
         \A s \in HeldCopies(x) : owner'[s] = owner[s],
         \A n \in CopiesInTransit(x) : Route(packet'[n]) = Route(packet[n])
  PROVE  OneCopy(x)' /\ Place(x)' = Place(x)
  <1>1. OneCopy(x)'
    BY DEF OneCopy
  <1>2. AllPlaced'
    BY PlaceOfCopy, PTL
  <1> QED
    BY <1>1, <1>2, PlaceOfCopy DEF AllPlaced, Placed

-------------------------------------------------------------------------------
(* The steps that the ledger sees.                                           *)

\* What the ledger lets happen to x.
Moves(x) ==
  \/ /\ Place(x).state = "held"
     /\ \/ \E u \in Users : Place(x)' = At(Place(x).chain, u)
        \/ \E d \in Chains, v \in Users : Place(x)' =
             [state |-> "transit", from |-> At(Place(x).chain, Place(x).user), to |-> At(d, v)]
        \/ Place(x)' = [state |-> "burnt"]
  \/ Place(x).state = "transit" /\ Place(x)' \in {Place(x).to, Place(x).from}

\* A move of x alone is a step of the ledger.
LEMMA OneMoves ==
  ASSUME NEW x \in Originals, Moves(x),
         \A y \in Originals \ {x} : Place(y)' = Place(y)
  PROVE  Ledger!Next
  <1>1. places' = [places EXCEPT ![x] = Place(x)']
    BY DEF places
  <1>2. places[x] = Place(x)
    BY DEF places
  <1>3. \A p : Place(x)' = p => Ledger!Move(x, p)
    BY <1>1 DEF Ledger!Move
  <1> QED
    BY <1>2, <1>3 DEF Moves, Ledger!Next, Ledger!Transfer, Ledger!Send, Ledger!Deliver,
       Ledger!Refund, Ledger!Burn, Ledger!IsHeld, Ledger!InTransit, At,
       Ledger!Held, Ledger!Transit, Ledger!Burnt

\* A transaction on s moves what s stands for, if anything.
LEMMA LedgerMove ==
  ASSUME NEW s,
         \A x \in Originals : ~StandsFor(s, x) => OneCopy(x)' /\ Place(x)' = Place(x),
         \A x \in Originals : StandsFor(s, x) => OneCopy(x)' /\ Moves(x)
  PROVE  Single' /\ [Ledger!Next]_places
  <1>1. Single'
    BY DEF Single
  <1>2. CASE \E x \in Originals : StandsFor(s, x)
    <2>1. PICK x \in Originals : StandsFor(s, x)
      BY <1>2
    <2>2. \A y \in Originals \ {x} : ~StandsFor(s, y)
      BY <2>1, StandsForOne
    <2> QED
      BY <1>1, <2>1, <2>2, OneMoves
  <1>3. CASE \A x \in Originals : ~StandsFor(s, x)
    <2>1. places' = places
      BY <1>3 DEF places
    <2> QED
      BY <1>1, <2>1
  <1> QED
    BY <1>2, <1>3

\* No copy changes hands, and none goes on its way or off it.
LEMMA NothingMoves ==
  ASSUME Single,
         \A s \in Nft : owner'[s] \in Users \/ owner[s] \in Users => owner'[s] = owner[s],
         \A n \in Flights :
           /\ InFlight(n, {"sent", "error"})' <=> InFlight(n, {"sent", "error"})
           /\ InFlight(n, {"sent", "error"}) =>
                /\ SourceNft(packet'[n]) = SourceNft(packet[n])
                /\ Route(packet'[n]) = Route(packet[n])
  PROVE  Single' /\ [Ledger!Next]_places
  <1>1. ASSUME NEW x \in Originals
        PROVE  OneCopy(x)' /\ Place(x)' = Place(x)
    <2>1. HeldCopies(x)' = HeldCopies(x) /\ \A s \in HeldCopies(x) : owner'[s] = owner[s]
      BY DEF HeldCopies
    <2>2. /\ CopiesInTransit(x)' = CopiesInTransit(x)
          /\ \A n \in CopiesInTransit(x) : Route(packet'[n]) = Route(packet[n])
      BY DEF CopiesInTransit
    <2> QED
      BY <2>1, <2>2, PlaceKept DEF Single
  <1>2. places' = places
    BY <1>1 DEF places
  <1> QED
    BY <1>1, <1>2 DEF Single

\* A transfer by its owner moves the NFT to another user of the chain.
LEMMA TransferMoves ==
  ASSUME TypeOK, Single, NEW s \in Nft, NEW u \in Users, TransferNft(s, u)
  PROVE  Single' /\ [Ledger!Next]_places
  <1>1. /\ owner[s] \in Users /\ packet' = packet
        /\ \A t \in Nft : owner'[t] = IF t = s THEN u ELSE owner[t]
    BY DEF TransferNft, TypeOK
  <1>2. ASSUME NEW x \in Originals
        PROVE  HeldCopies(x)' = HeldCopies(x) /\ CopiesInTransit(x)' = CopiesInTransit(x)
    BY <1>1 DEF HeldCopies, CopiesInTransit, InFlight
  <1>3. ASSUME NEW x \in Originals, ~StandsFor(s, x)
        PROVE  OneCopy(x)' /\ Place(x)' = Place(x)
    <2>1. \A t \in HeldCopies(x) : t # s /\ t \in Nft
      BY <1>3 DEF HeldCopies
    <2> QED
      BY <1>1, <1>2, <2>1, PlaceKept DEF Single
  <1>4. ASSUME NEW x \in Originals, StandsFor(s, x)
        PROVE  OneCopy(x)' /\ Moves(x)
    <2>1. s \in HeldCopies(x)
      BY <1>1, <1>4 DEF HeldCopies
    <2>2. OneCopy(x)'
      BY <1>2 DEF Single, OneCopy
    <2>3. AllPlaced'
      BY PlaceOfCopy, PTL
    <2>4. Place(x) = At(s.chain, owner[s]) /\ Place(x)' = At(s.chain, u)
      BY <1>1, <1>2, <2>1, <2>2, <2>3, PlaceOfCopy DEF AllPlaced, Placed, Single
    <2> QED
      BY <2>2, <2>4 DEF Moves, At
  <1> QED
    BY <1>3, <1>4, LedgerMove

\* A burn: of what a user holds, the ledger burns it; of what is in escrow, the
\* ledger sees nothing, for its copy is elsewhere.
LEMMA BurnMoves ==
  ASSUME TypeOK, Single, NEW s \in Nft,
         owner' = [owner EXCEPT ![s] = Nobody], packet' = packet
  PROVE  Single' /\ [Ledger!Next]_places
  <1>1. packet' = packet /\ \A t \in Nft : owner'[t] = IF t = s THEN Nobody ELSE owner[t]
    BY DEF TypeOK
  <1>2. ASSUME NEW x \in Originals
        PROVE  /\ HeldCopies(x)' = HeldCopies(x) \ {s}
               /\ CopiesInTransit(x)' = CopiesInTransit(x)
    BY <1>1, DistinctAssumption DEF HeldCopies, CopiesInTransit, InFlight
  <1>3. ASSUME NEW x \in Originals, ~StandsFor(s, x)
        PROVE  OneCopy(x)' /\ Place(x)' = Place(x)
    <2>1. \A t \in HeldCopies(x) : t # s /\ t \in Nft
      BY <1>3 DEF HeldCopies
    <2>2. HeldCopies(x)' = HeldCopies(x)
      BY <1>2, <2>1
    <2> QED
      BY <1>1, <1>2, <2>1, <2>2, PlaceKept DEF Single
  <1>4. ASSUME NEW x \in Originals, StandsFor(s, x), owner[s] \in Users
        PROVE  OneCopy(x)' /\ Moves(x)
    <2>1. s \in HeldCopies(x)
      BY <1>4 DEF HeldCopies
    <2>2. HeldCopies(x)' = {} /\ CopiesInTransit(x)' = {}
      BY <1>2, <2>1 DEF Single, OneCopy
    <2>3. OneCopy(x)'
      BY <2>2 DEF OneCopy
    <2>4. AllPlaced'
      BY PlaceOfCopy, PTL
    <2>5. Place(x) = At(s.chain, owner[s]) /\ Place(x)' = [state |-> "burnt"]
      BY <2>1, <2>2, <2>3, <2>4, PlaceOfCopy DEF AllPlaced, Placed, Single
    <2> QED
      BY <2>3, <2>5 DEF Moves, At
  <1>5. CASE owner[s] \notin Users
    BY <1>1, <1>5, DistinctAssumption, NothingMoves DEF InFlight
  <1> QED
    BY <1>3, <1>4, <1>5, LedgerMove

\* What a user sends is no longer held, and in packet n.
LEMMA SendCopies ==
  ASSUME TypeOK, NEW s \in Nft, NEW e \in Ends, NEW u \in Users, NEW n \in Flights,
         ReceiveNft(s, e, u, n), NEW x
  PROVE  /\ HeldCopies(x)' = HeldCopies(x) \ {s}
         /\ CopiesInTransit(x)' =
              CopiesInTransit(x) \cup {m \in {n} : StandsFor(s, x)}
  <1> DEFINE p == [src |-> e, class |-> s.class, token |-> s.token,
                   sender |-> owner[s], receiver |-> u, status |-> "sent"]
  <1>1. /\ owner[s] \in Users /\ packet[n] = NoPacket /\ ChainOf[e] = s.chain
        /\ \A t \in Nft : owner'[t] = IF t = s THEN Ics721 ELSE owner[t]
        /\ \A m \in Flights : packet'[m] = IF m = n THEN p ELSE packet[m]
    BY DEF ReceiveNft, TypeOK
  <1>2. p \in Packet /\ p # NoPacket /\ SourceNft(p) = s
    BY <1>1, DistinctAssumption DEF Packet, Nft, SourceNft
  <1>3. HeldCopies(x)' = HeldCopies(x) \ {s}
    BY <1>1, DistinctAssumption DEF HeldCopies
  <1>4. n \in CopiesInTransit(x)' <=> StandsFor(s, x)
    BY <1>1, <1>2 DEF CopiesInTransit, InFlight
  <1>5. n \notin CopiesInTransit(x)
    BY <1>1 DEF CopiesInTransit, InFlight
  <1>6. ASSUME NEW m \in Flights, m # n
        PROVE  m \in CopiesInTransit(x)' <=> m \in CopiesInTransit(x)
    BY <1>1, <1>6 DEF CopiesInTransit, InFlight
  <1>7. CopiesInTransit(x) \subseteq Flights /\ CopiesInTransit(x)' \subseteq Flights
    BY DEF CopiesInTransit
  <1> QED
    BY <1>3, <1>4, <1>5, <1>6, <1>7

\* receive_nft puts what the user held on its way.
LEMMA SendMoves ==
  ASSUME TypeOK, Single, NEW s \in Nft, NEW e \in Ends, NEW u \in Users, NEW n \in Flights,
         ReceiveNft(s, e, u, n)
  PROVE  Single' /\ [Ledger!Next]_places
  <1> DEFINE p == [src |-> e, class |-> s.class, token |-> s.token,
                   sender |-> owner[s], receiver |-> u, status |-> "sent"]
  <1>1. /\ owner[s] \in Users /\ packet[n] = NoPacket /\ ChainOf[e] = s.chain
        /\ \A t \in Nft : owner'[t] = IF t = s THEN Ics721 ELSE owner[t]
        /\ \A m \in Flights : packet'[m] = IF m = n THEN p ELSE packet[m]
    BY DEF ReceiveNft, TypeOK
  <1>2. p \in Packet /\ p # NoPacket /\ SourceNft(p) = s
    BY <1>1, DistinctAssumption DEF Packet, Nft, SourceNft
  <1>3. \A x : /\ HeldCopies(x)' = HeldCopies(x) \ {s}
              /\ CopiesInTransit(x)' =
                   CopiesInTransit(x) \cup {m \in {n} : StandsFor(s, x)}
    BY SendCopies
  <1>4. ASSUME NEW x \in Originals, ~StandsFor(s, x)
        PROVE  OneCopy(x)' /\ Place(x)' = Place(x)
    <2>1. \A t \in HeldCopies(x) : t # s /\ t \in Nft
      BY <1>4 DEF HeldCopies
    <2>2. \A m \in CopiesInTransit(x) : m # n /\ m \in Flights
      BY <1>1 DEF CopiesInTransit, InFlight
    <2>3. HeldCopies(x)' = HeldCopies(x) /\ CopiesInTransit(x)' = CopiesInTransit(x)
      BY <1>3, <1>4, <2>1
    <2> QED
      BY <1>1, <2>1, <2>2, <2>3, PlaceKept DEF Single
  <1>5. ASSUME NEW x \in Originals, StandsFor(s, x)
        PROVE  OneCopy(x)' /\ Moves(x)
    <2>1. s \in HeldCopies(x)
      BY <1>1, <1>5 DEF HeldCopies
    <2>2. HeldCopies(x)' = {} /\ CopiesInTransit(x)' = {n}
      BY <1>3, <1>5, <2>1 DEF Single, OneCopy
    <2>3. OneCopy(x)'
      BY <2>2 DEF OneCopy
    <2>4. AllPlaced'
      BY PlaceOfCopy, PTL
    <2>5. Place(x) = At(s.chain, owner[s])
      BY <2>1, PlaceOfCopy DEF AllPlaced, Placed, Single
    <2>6. Place(x)' = Route(p)
      BY <1>1, <2>2, <2>3, <2>4 DEF AllPlaced, Placed
    <2>7. Route(p) = [state |-> "transit", from |-> At(s.chain, owner[s]),
                      to |-> At(ChainOf[Peer[e]], u)]
      BY <1>1 DEF Route
    <2>8. ChainOf[Peer[e]] \in Chains
      BY TopologyAssumption
    <2> QED
      BY <2>3, <2>5, <2>6, <2>7, <2>8 DEF Moves, At
  <1> QED
    BY <1>4, <1>5, LedgerMove

\* The packet p that carries an NFT ends: t has the NFT now, and it is one of
\* those the packet names.
LEMMA LandMoves ==
  ASSUME TypeOK, Single, NEW n \in Flights, packet[n] # NoPacket,
         packet[n].status # "success",
         NEW t \in Nft, owner[t] \notin Users, NEW u \in Users,
         \A x \in Originals : StandsFor(t, x) <=> StandsFor(SourceNft(packet[n]), x),
         At(t.chain, u) \in {Route(packet[n]).to, Route(packet[n]).from},
         owner' = [owner EXCEPT ![t] = u],
         \A m \in Flights : m # n => packet'[m] = packet[m],
         ~InFlight(n, {"sent", "error"})'
  PROVE  Single' /\ [Ledger!Next]_places
  <1>1. \A r \in Nft : owner'[r] = IF r = t THEN u ELSE owner[r]
    BY DEF TypeOK
  <1>2. packet[n].status \in {"sent", "error"}
    BY DEF TypeOK, Packet
  <1>3. ASSUME NEW x \in Originals
        PROVE  /\ HeldCopies(x)' = HeldCopies(x) \cup {r \in {t} : StandsFor(t, x)}
               /\ CopiesInTransit(x)' = CopiesInTransit(x) \ {n}
    <2>1. HeldCopies(x)' = HeldCopies(x) \cup {r \in {t} : StandsFor(t, x)}
      BY <1>1 DEF HeldCopies
    <2>2. ASSUME NEW m \in Flights
          PROVE  m \in CopiesInTransit(x)' <=> m # n /\ m \in CopiesInTransit(x)
      BY <2>2 DEF CopiesInTransit, InFlight
    <2>3. CopiesInTransit(x) \subseteq Flights /\ CopiesInTransit(x)' \subseteq Flights
      BY DEF CopiesInTransit
    <2> QED
      BY <2>1, <2>2, <2>3
  <1>4. ASSUME NEW x \in Originals, ~StandsFor(t, x)
        PROVE  OneCopy(x)' /\ Place(x)' = Place(x)
    <2>1. \A r \in HeldCopies(x) : r # t /\ r \in Nft
      BY <1>4 DEF HeldCopies
    <2>2. \A m \in CopiesInTransit(x) : m # n /\ m \in Flights
      BY <1>4 DEF CopiesInTransit
    <2>3. HeldCopies(x)' = HeldCopies(x) /\ CopiesInTransit(x)' = CopiesInTransit(x)
      BY <1>3, <1>4, <2>2
    <2> QED
      BY <1>1, <2>1, <2>2, <2>3, PlaceKept DEF Single
  <1>5. ASSUME NEW x \in Originals, StandsFor(t, x)
        PROVE  OneCopy(x)' /\ Moves(x)
    <2>1. n \in CopiesInTransit(x)
      BY <1>2, <1>5 DEF CopiesInTransit, InFlight
    <2>2. HeldCopies(x)' = {t} /\ CopiesInTransit(x)' = {}
      BY <1>3, <1>5, <2>1 DEF Single, OneCopy
    <2>3. OneCopy(x)'
      BY <2>2 DEF OneCopy
    <2>4. AllPlaced'
      BY PlaceOfCopy, PTL
    <2>5. Place(x) = Route(packet[n])
      BY <2>1, PlaceOfCopy DEF AllPlaced, Placed, Single
    <2>6. Place(x)' = At(t.chain, u)
      BY <1>1, <2>2, <2>3, <2>4 DEF AllPlaced, Placed
    <2>7. Place(x).state = "transit"
      BY <2>5 DEF Route
    <2> QED
      BY <2>3, <2>5, <2>6, <2>7 DEF Moves
  <1> QED
    BY <1>4, <1>5, LedgerMove

\* A receipt delivers what the packet carried.
LEMMA ArriveMoves ==
  ASSUME TypeOK, PacketsFit, Single, NEW n \in Flights, ReceivePacket(n)
  PROVE  Single' /\ [Ledger!Next]_places
  <1> DEFINE p == packet[n]
             d == DestNft(p)
  <1>1. /\ p # NoPacket /\ p.status = "sent" /\ p \in Packet /\ d \in Nft
        /\ LocalClass(p.src, p.class) \in Classes
        /\ packet' = [packet EXCEPT ![n].status = "success"]
    BY PacketTypes DEF ReceivePacket, InFlight, PacketsFit
  <1>2. /\ owner[d] \in {Ics721, Nobody}
        /\ owner' = [owner EXCEPT ![d] = p.receiver]
    BY DEF ReceivePacket, RedeemVoucher, CreateVoucher
  <1>3. owner[d] \notin Users /\ p.receiver \in Users
    BY <1>1, <1>2, DistinctAssumption DEF Packet
  <1>4. \A x \in Originals : StandsFor(d, x) <=> StandsFor(SourceNft(p), x)
    BY <1>1, DestStandsFor
  <1>5. At(d.chain, p.receiver) = Route(p).to
    BY DEF DestNft, Route
  <1>6. /\ \A m \in Flights : m # n => packet'[m] = packet[m]
        /\ packet'[n].status = "success"
    BY <1>1 DEF TypeOK, Packet
  <1>7. ~InFlight(n, {"sent", "error"})'
    BY <1>6 DEF InFlight
  <1> HIDE DEF p, d
  <1> QED
    BY <1>1, <1>2, <1>3, <1>4, <1>5, <1>6, <1>7, LandMoves DEF p

\* A failed packet gives back what it carried.
LEMMA RefundMoves ==
  ASSUME TypeOK, PacketsFit, Single, NEW n \in Flights,
         packet[n] # NoPacket, packet[n].status # "success", HandlePacketFail(n)
  PROVE  Single' /\ [Ledger!Next]_places
  <1> DEFINE p == packet[n]
             s == SourceNft(p)
  <1>1. p \in Packet /\ s \in Nft
    BY PacketTypes
  <1>2. owner[s] = Ics721 /\ owner' = [owner EXCEPT ![s] = p.sender]
        /\ packet' = [packet EXCEPT ![n] = NoPacket]
    BY DEF HandlePacketFail, Settle
  <1>3. owner[s] \notin Users /\ p.sender \in Users
    BY <1>1, <1>2, DistinctAssumption DEF Packet
  <1>4. At(s.chain, p.sender) = Route(p).from
    BY DEF SourceNft, Route
  <1>5. /\ \A m \in Flights : m # n => packet'[m] = packet[m]
        /\ packet'[n] = NoPacket
    BY <1>2 DEF TypeOK
  <1>6. ~InFlight(n, {"sent", "error"})'
    BY <1>5 DEF InFlight
  <1> HIDE DEF p, s
  <1> QED
    BY <1>1, <1>2, <1>3, <1>4, <1>5, <1>6, LandMoves DEF p, s

\* Every transaction is a step of the ledger, or none that it sees.
LEMMA LedgerStep ==
  ASSUME TypeOK, PacketsFit, Single, [Next]_vars
  PROVE  Single' /\ [Ledger!Next]_places
  <1> DEFINE Implements == Single' /\ [Ledger!Next]_places
  <1>1. ASSUME NEW n \in Flights, RejectPacket(n) PROVE Implements
    <2>1. /\ packet[n] \in Packet /\ packet[n].status = "sent" /\ packet[n] # NoPacket
          /\ packet' = [packet EXCEPT ![n].status = "error"] /\ owner' = owner
      BY <1>1, PacketTypes DEF RejectPacket, InFlight
    <2>2. /\ \A m \in Flights : m # n => packet'[m] = packet[m]
          /\ packet'[n] = [packet[n] EXCEPT !.status = "error"]
      BY <2>1 DEF TypeOK
    <2>3. packet'[n] \in Packet /\ packet'[n].status = "error"
      BY <2>1, <2>2 DEF Packet
    <2>4. packet'[n] # NoPacket
      BY <2>3, DistinctAssumption
    <2>5. SourceNft(packet'[n]) = SourceNft(packet[n]) /\ Route(packet'[n]) = Route(packet[n])
      BY <2>1, <2>2 DEF SourceNft, Route, Packet
    <2>6. InFlight(n, {"sent", "error"}) /\ InFlight(n, {"sent", "error"})'
      BY <2>1, <2>3, <2>4 DEF InFlight
    <2>7. ASSUME NEW m \in Flights
          PROVE  /\ InFlight(m, {"sent", "error"})' <=> InFlight(m, {"sent", "error"})
                 /\ SourceNft(packet'[m]) = SourceNft(packet[m])
                 /\ Route(packet'[m]) = Route(packet[m])
      BY <2>2, <2>5, <2>6 DEF InFlight
    <2> QED
      BY <2>1, <2>7, NothingMoves
  <1>2. ASSUME NEW n \in Flights, AckSuccess(n) PROVE Implements
    <2> DEFINE s == SourceNft(packet[n])
    <2>1. /\ packet[n].status = "success" /\ packet[n] # NoPacket /\ s \in Nft
          /\ packet' = [packet EXCEPT ![n] = NoPacket]
          /\ \/ owner' = owner
             \/ owner[s] = Ics721 /\ owner' = [owner EXCEPT ![s] = Nobody]
      BY <1>2, PacketTypes DEF AckSuccess, InFlight, Settle
    <2>2. \A t \in Nft : owner'[t] \in Users \/ owner[t] \in Users => owner'[t] = owner[t]
      BY <2>1, DistinctAssumption DEF TypeOK
    <2>3. ASSUME NEW m \in Flights
          PROVE  /\ InFlight(m, {"sent", "error"})' <=> InFlight(m, {"sent", "error"})
                 /\ InFlight(m, {"sent", "error"}) => packet'[m] = packet[m]
      BY <2>1 DEF InFlight, TypeOK
    <2> QED
      BY <2>2, <2>3, NothingMoves
  <1>3. ASSUME UNCHANGED <<owner, packet>> PROVE Implements
    BY <1>3, NothingMoves DEF InFlight
  <1>4. ASSUME NEW n \in Flights, AckError(n) \/ TimeoutPacket(n) PROVE Implements
    BY <1>4, RefundMoves DEF AckError, TimeoutPacket, InFlight
  <1> QED
    BY <1>1, <1>2, <1>3, <1>4, TransferMoves, BurnMoves, SendMoves, ArriveMoves
    DEF Next, HolderStep, BurnNft, RelayerStep, Arrive, Acknowledge, Pause, Migrate, vars

\* At first every original is held at home, and it is its own only copy.
LEMMA InitLedger == Init => Single /\ Ledger!Init
  <1> SUFFICES ASSUME Init PROVE Single /\ Ledger!Init
    OBVIOUS
  <1>1. PICK holder \in [Originals -> Users] :
          owner = [s \in Nft |-> IF IsOriginal(s) THEN holder[s] ELSE Nobody]
    BY DEF Init
  <1>2. ASSUME NEW x \in Originals
        PROVE  HeldCopies(x) = {x} /\ CopiesInTransit(x) = {} /\ owner[x] \in Users
    <2>1. x \in Nft /\ owner[x] = holder[x] /\ holder[x] \in Users
      BY <1>1 DEF Originals
    <2>2. \A s \in Nft : owner[s] \in Users => s \in Originals
      BY <1>1, DistinctAssumption DEF Originals
    <2>3. HeldCopies(x) = {x}
      BY <2>1, <2>2, OriginalStandsFor DEF HeldCopies
    <2>4. CopiesInTransit(x) = {}
      BY DEF Init, CopiesInTransit, InFlight
    <2> QED
      BY <2>1, <2>3, <2>4
  <1>3. Single
    BY <1>2 DEF Single, OneCopy
  <1>4. ASSUME NEW x \in Originals
        PROVE  places[x] = At(x.chain, owner[x])
    <2>1. Place(x) = At(x.chain, owner[x])
      BY <1>2, <1>3, PlaceOfCopy DEF AllPlaced, Placed, Single
    <2> QED
      BY <2>1 DEF places
  <1>5. \A x \in Originals : x.chain \in Chains
    BY DEF Originals, Nft
  <1>6. ASSUME NEW x \in Originals PROVE places[x] \in Ledger!Places
    <2>1. places[x] = Ledger!Held(x.chain, owner[x])
      BY <1>4 DEF Ledger!Held, At
    <2> QED
      BY <1>2, <1>5, <2>1 DEF Ledger!Places
  <1>7. places \in [Originals -> Ledger!Places]
    BY <1>6 DEF places
  <1> QED
    BY <1>3, <1>4, <1>7 DEF Ledger!Init, Ledger!IsHeld, At

\* Whoever calls which entry point and however packets interleave, an NFT is held
\* by one user, on its way in one packet, or burnt: a send takes it from its
\* holder, a receipt gives it to the receiver, an error or a timeout gives it back
\* to the sender, and nothing else moves it between chains.
THEOREM LedgerImplemented == Spec => LedgerSpec
  <1>1. TypeOK /\ PacketsFit /\ Single /\ [Next]_vars => Single' /\ [Ledger!Next]_places
    BY LedgerStep
  <1> QED
    BY <1>1, InitLedger, TypeCorrect, PTL DEF Spec, LedgerSpec, Ledger!Spec

-------------------------------------------------------------------------------
(* Clean-ups by the admin: what they leave backed.                           *)

\* Packets claim what they did; nothing claims s, and nothing stands for it.
LEMMA CleanClaims ==
  ASSUME NEW s \in Nft, Unneeded(s), packet' = packet
  PROVE  /\ \A n \in Flights, t \in Nft : Claims(n, t)' <=> Claims(n, t)
         /\ \A n \in Flights : ~Claims(n, s)
         /\ \A x \in Nft : Outstanding(x) => Parent(x) # s
  BY DEF Claims, Unneeded

\* What burning s changes: s is no voucher any more, and nothing else is.
LEMMA BurnCleanChanges ==
  ASSUME BackingInv, Careful,
         NEW u \in Users, NEW s \in Nft, NEW o \in Users \cup {Ics721},
         AdminCleanAndBurnNft(u, s, o)
  PROVE  /\ \A n \in Flights, t \in Nft : Claims(n, t)' <=> Claims(n, t)
         /\ \A n \in Flights : ~Claims(n, s)
         /\ \A x \in Nft : Outstanding(x) => Parent(x) # s
         /\ \A x \in Nft : Outstanding(x)' <=> x # s /\ Outstanding(x)
         /\ \A x \in Nft : x # s => Parent(x)' = Parent(x)
  <1>1. /\ packet' = packet /\ Unneeded(s)
        /\ \A t \in Nft : incoming'[t] = IF t = s THEN NoEnd ELSE incoming[t]
    BY DEF AdminCleanAndBurnNft, BackingInv, TypeOK
  <1>2. /\ \A n \in Flights, t \in Nft : Claims(n, t)' <=> Claims(n, t)
        /\ \A n \in Flights : ~Claims(n, s)
        /\ \A x \in Nft : Outstanding(x) => Parent(x) # s
    BY <1>1, CleanClaims
  <1>3. ~Outstanding(s)'
    BY <1>1 DEF Outstanding
  <1>4. \A x \in Nft : x # s => (Outstanding(x)' <=> Outstanding(x))
    BY <1>1, <1>2 DEF Outstanding
  <1>5. \A x \in Nft : x # s => Parent(x)' = Parent(x)
    BY <1>1 DEF Parent
  <1> QED
    BY <1>2, <1>3, <1>4, <1>5

\* admin_clean_and_burn_nft keeps every other voucher backed.
LEMMA BurnCleanStep ==
  ASSUME BackingInv, Careful,
         NEW u \in Users, NEW s \in Nft, NEW o \in Users \cup {Ics721},
         AdminCleanAndBurnNft(u, s, o)
  PROVE  BackingInv'
  <1>1. /\ UNCHANGED <<registry, outgoing, paused, packet>>
        /\ \A t \in Nft : owner'[t] = IF t = s THEN Nobody ELSE owner[t]
        /\ \A t \in Nft : incoming'[t] = IF t = s THEN NoEnd ELSE incoming[t]
        /\ metadata' = metadata \ {s}
    BY DEF AdminCleanAndBurnNft, BackingInv, TypeOK
  <1>2. /\ \A n \in Flights, t \in Nft : Claims(n, t)' <=> Claims(n, t)
        /\ \A n \in Flights : ~Claims(n, s)
        /\ \A x \in Nft : Outstanding(x) => Parent(x) # s
        /\ \A x \in Nft : Outstanding(x)' <=> x # s /\ Outstanding(x)
        /\ \A x \in Nft : x # s => Parent(x)' = Parent(x)
    BY BurnCleanChanges
  <1>3. TypeOK'
    BY DEF AdminCleanAndBurnNft, BackingInv, TypeOK
  <1>4. PacketsFit'
    BY <1>1 DEF BackingInv, PacketsFit
  <1>5. ClaimsExclusive' /\ ClaimsHeld'
    BY <1>1, <1>2 DEF BackingInv, ClaimsExclusive, ClaimsHeld
  <1>6. VoucherRecorded'
    BY <1>1 DEF BackingInv, VoucherRecorded
  <1>7. \A x \in Nft : Outstanding(x) => Parent(x) \in Nft
    BY ParentType DEF Outstanding
  <1>8. VoucherBacked'
    BY <1>1, <1>2, <1>7 DEF BackingInv, VoucherBacked
  <1> QED
    BY <1>3, <1>4, <1>5, <1>6, <1>8 DEF BackingInv

\* So does admin_clean_and_unescrow_nft.
LEMMA UnescrowCleanStep ==
  ASSUME BackingInv, Careful,
         NEW u \in Users, NEW s \in Nft, NEW r \in Users,
         AdminCleanAndUnescrowNft(u, s, r)
  PROVE  BackingInv'
  <1>1. /\ UNCHANGED <<registry, incoming, metadata, paused, packet>>
        /\ \A t \in Nft : t # s => owner'[t] = owner[t]
        /\ owner'[s] # Nobody => owner[s] # Nobody
        /\ \A t \in Nft : outgoing'[t] = IF t = s THEN NoEnd ELSE outgoing[t]
        /\ Unneeded(s)
    BY DistinctAssumption DEF AdminCleanAndUnescrowNft, BackingInv, TypeOK
  <1>2. /\ \A n \in Flights, t \in Nft : Claims(n, t)' <=> Claims(n, t)
        /\ \A n \in Flights : ~Claims(n, s)
        /\ \A x \in Nft : Outstanding(x) => Parent(x) # s
    BY <1>1, CleanClaims
  <1>3. TypeOK'
    BY DEF AdminCleanAndUnescrowNft, BackingInv, TypeOK
  <1>4. PacketsFit'
    BY <1>1 DEF BackingInv, PacketsFit
  <1>5. \A x \in Nft : (Outstanding(x)' <=> Outstanding(x)) /\ Parent(x)' = Parent(x)
    BY <1>1, <1>2 DEF Outstanding, Parent
  <1>6. ClaimsExclusive' /\ ClaimsHeld'
    BY <1>1, <1>2 DEF BackingInv, ClaimsExclusive, ClaimsHeld
  <1>7. VoucherRecorded'
    BY <1>1 DEF BackingInv, VoucherRecorded
  <1>8. \A x \in Nft : Outstanding(x) => Parent(x) \in Nft
    BY ParentType DEF Outstanding
  <1>9. VoucherBacked'
    BY <1>1, <1>2, <1>5, <1>8 DEF BackingInv, VoucherBacked
  <1> QED
    BY <1>3, <1>4, <1>6, <1>7, <1>9 DEF BackingInv

\* A careful admin, on any chain and at any moment, leaves every voucher
\* backed and recorded.
THEOREM CarefulCleanUpsKeepBacking == Careful => (AdminSpec => []BackingInv)
  <1> SUFFICES ASSUME Careful PROVE AdminSpec => []BackingInv
    OBVIOUS
  <1>1. Init => BackingInv
    BY InitEscrow DEF EscrowInv
  <1>2. BackingInv /\ [AdminNext]_vars => BackingInv'
    <2> SUFFICES ASSUME BackingInv, [AdminNext]_vars PROVE BackingInv'
      OBVIOUS
    <2>1. CASE [Next]_vars
      BY <2>1, BackingStep
    <2>2. CASE AdminStep
      BY <2>2, BurnCleanStep, UnescrowCleanStep DEF AdminStep
    <2> QED
      BY <2>1, <2>2 DEF AdminNext
  <1> QED
    BY <1>1, <1>2, PTL DEF AdminSpec

\* Nor does it leave an acknowledgement or a timeout that must fail.
THEOREM CarefulCleanUpsKeepSettlement == Careful => (AdminSpec => []SettlementPossible)
  <1> SUFFICES ASSUME Careful PROVE AdminSpec => []SettlementPossible
    OBVIOUS
  <1>1. AdminSpec => []BackingInv
    BY CarefulCleanUpsKeepBacking
  <1> QED
    BY <1>1, BackingSettles, PTL

\* What any clean-up leaves true, careful or not: TOKEN_METADATA and INCOMING
\* have the same keys, whose classes are registered, and what exists is at home
\* or on record.
RecordsAgree == \A s \in Nft :
  /\ s \in metadata <=> incoming[s] # NoEnd
  /\ s \in metadata => s.class \in registry[s.chain]
  /\ owner[s] # Nobody => IsOriginal(s) \/ incoming[s] # NoEnd

RecordsInv == TypeOK /\ PacketsFit /\ RecordsAgree

\* The protocol writes and deletes the two records together.
LEMMA RecordsStep ==
  ASSUME RecordsInv, [Next]_vars
  PROVE  RecordsAgree'
  <1>1. TypeOK
    BY DEF RecordsInv
  <1>2. ASSUME UNCHANGED <<incoming, metadata>>,
               \A c \in Chains : registry[c] \subseteq registry'[c],
               \A s \in Nft : owner'[s] # Nobody => owner[s] # Nobody
        PROVE  RecordsAgree'
    BY <1>2 DEF RecordsInv, RecordsAgree, Nft
  <1>3. ASSUME NEW s \in Nft, NEW u \in Users, TransferNft(s, u) PROVE RecordsAgree'
    BY <1>1, <1>2, <1>3, DistinctAssumption DEF TransferNft, TypeOK
  <1>4. ASSUME NEW s \in Nft, BurnNft(s) PROVE RecordsAgree'
    BY <1>1, <1>2, <1>4 DEF BurnNft, TypeOK
  <1>5. ASSUME NEW s \in Nft, NEW e \in Ends, NEW u \in Users, NEW n \in Flights,
               ReceiveNft(s, e, u, n)
        PROVE  RecordsAgree'
    <2>1. \A c \in Chains : registry[c] \subseteq registry'[c]
      BY <1>1, <1>5 DEF ReceiveNft, TypeOK
    <2> QED
      BY <1>1, <1>2, <1>5, <2>1, DistinctAssumption DEF ReceiveNft, TypeOK
  <1>6. ASSUME NEW n \in Flights, ReceivePacket(n) PROVE RecordsAgree'
    <2> DEFINE p == packet[n]
               d == DestNft(p)
    <2>1. p \in Packet /\ d \in Nft /\ Peer[p.src] \in Ends
      BY <1>1, <1>6, PacketTypes, TopologyAssumption
      DEF ReceivePacket, InFlight, RecordsInv, PacketsFit, Packet
    <2>2. CASE RedeemVoucher(p)
      BY <1>1, <1>2, <2>1, <2>2, DistinctAssumption DEF RedeemVoucher, TypeOK
    <2>3. CASE CreateVoucher(p)
      <3>1. /\ metadata' = metadata \cup {d}
            /\ \A t \in Nft : incoming'[t] = IF t = d THEN Peer[p.src] ELSE incoming[t]
            /\ \A t \in Nft : t # d => owner'[t] = owner[t]
            /\ \A c \in Chains : registry[c] \subseteq registry'[c]
            /\ d.class \in registry'[d.chain]
        BY <1>1, <2>1, <2>3 DEF CreateVoucher, TypeOK, Nft
      <3>2. Peer[p.src] # NoEnd
        BY <2>1, DistinctAssumption
      <3> QED
        BY <3>1, <3>2 DEF RecordsInv, RecordsAgree, Nft
    <2> QED
      BY <1>6, <2>2, <2>3 DEF ReceivePacket
  <1>7. ASSUME NEW n \in Flights, packet[n] # NoPacket, HandlePacketFail(n)
        PROVE  RecordsAgree'
    BY <1>1, <1>2, <1>7, PacketTypes, DistinctAssumption DEF HandlePacketFail, TypeOK
  <1>8. ASSUME NEW n \in Flights, AckSuccess(n) PROVE RecordsAgree'
    <2> DEFINE s == SourceNft(packet[n])
    <2>1. CASE incoming[s] = packet[n].src
      <3>1. /\ metadata' = metadata \ {s} /\ registry' = registry
            /\ \A t \in Nft : owner'[t] = IF t = s THEN Nobody ELSE owner[t]
            /\ \A t \in Nft : incoming'[t] = IF t = s THEN NoEnd ELSE incoming[t]
        BY <1>1, <1>8, <2>1 DEF AckSuccess, TypeOK
      <3> QED
        BY <3>1 DEF RecordsInv, RecordsAgree
    <2>2. CASE incoming[s] # packet[n].src
      BY <1>2, <1>8, <2>2 DEF AckSuccess
    <2> QED
      BY <2>1, <2>2
  <1>9. ASSUME UNCHANGED <<owner, registry, incoming, metadata>> PROVE RecordsAgree'
    BY <1>2, <1>9
  <1> QED
    BY <1>3, <1>4, <1>5, <1>6, <1>7, <1>8, <1>9
    DEF Next, HolderStep, RelayerStep, Arrive, Acknowledge, AckError, TimeoutPacket,
        InFlight, RejectPacket, Pause, Migrate, vars

\* Neither clean-up leaves one record without the other.
LEMMA AdminRecordsStep ==
  ASSUME RecordsInv, AdminStep
  PROVE  RecordsInv'
  <1>1. TypeOK
    BY DEF RecordsInv
  <1>2. ASSUME NEW u \in Users, NEW s \in Nft, NEW o \in Users \cup {Ics721},
               AdminCleanAndBurnNft(u, s, o)
        PROVE  RecordsInv'
    <2>1. /\ UNCHANGED <<registry, packet>> /\ metadata' = metadata \ {s}
          /\ \A t \in Nft : owner'[t] = IF t = s THEN Nobody ELSE owner[t]
          /\ \A t \in Nft : incoming'[t] = IF t = s THEN NoEnd ELSE incoming[t]
      BY <1>1, <1>2 DEF AdminCleanAndBurnNft, TypeOK
    <2>2. TypeOK'
      BY <1>1, <1>2 DEF AdminCleanAndBurnNft, TypeOK
    <2> QED
      BY <2>1, <2>2 DEF RecordsInv, RecordsAgree, PacketsFit
  <1>3. ASSUME NEW u \in Users, NEW s \in Nft, NEW r \in Users,
               AdminCleanAndUnescrowNft(u, s, r)
        PROVE  RecordsInv'
    <2>1. /\ UNCHANGED <<registry, incoming, metadata, packet>>
          /\ \A t \in Nft : owner'[t] # Nobody => owner[t] # Nobody
      BY <1>1, <1>3, DistinctAssumption DEF AdminCleanAndUnescrowNft, TypeOK
    <2>2. TypeOK'
      BY <1>1, <1>3 DEF AdminCleanAndUnescrowNft, TypeOK
    <2> QED
      BY <2>1, <2>2 DEF RecordsInv, RecordsAgree, PacketsFit
  <1> QED
    BY <1>2, <1>3 DEF AdminStep

\* Whoever cleans up whatever they like at whatever moment, TOKEN_METADATA and
\* INCOMING keep the same keys, the class of a token with metadata has a contract
\* (as query_token_metadata asserts), and no voucher exists that is not on record.
\* Nothing is assumed of the admin.
THEOREM CleanUpsKeepRecords == AdminSpec => []RecordsInv
  <1>1. Init => RecordsInv
    <2> SUFFICES ASSUME Init PROVE RecordsAgree
      BY InitType DEF RecordsInv
    <2> QED
      BY DEF Init, RecordsAgree
  <1>2. RecordsInv /\ [AdminNext]_vars => RecordsInv'
    BY TypeStep, RecordsStep, AdminRecordsStep DEF AdminNext, RecordsInv
  <1> QED
    BY <1>1, <1>2, PTL DEF AdminSpec

-------------------------------------------------------------------------------
(* Clean-ups by the admin: what they bring back.                             *)

\* A tip: an NFT of its own, or a voucher of a burnt one, that no packet has to
\* give back or burn and that no voucher stands for.
Tip(s) == (owner[s] # Nobody \/ Outstanding(s)) /\ Unneeded(s)
Tips(x) == {s \in Nft : Tip(s) /\ StandsFor(s, x)}

\* An original has one tip at most, or is on its way in one packet.
OneTip == \A x \in Originals :
  /\ \A s, t \in Tips(x) : s = t
  /\ \A m, n \in CopiesInTransit(x) : m = n
  /\ Tips(x) = {} \/ CopiesInTransit(x) = {}

\* What a user holds nobody else can need.
LEMMA HeldAreTips ==
  ASSUME BackingInv, NEW x
  PROVE  HeldCopies(x) \subseteq Tips(x)
  <1> SUFFICES ASSUME NEW s \in Nft, owner[s] \in Users PROVE Tip(s)
    BY DEF HeldCopies, Tips
  <1>1. owner[s] # Ics721 /\ owner[s] # Nobody
    BY DistinctAssumption
  <1> QED
    BY <1>1, UserHoldsAlone DEF Tip, Unneeded

\* So what has one tip at most has one copy at most.
LEMMA TipsAreSingle == BackingInv /\ OneTip => Single
  BY HeldAreTips DEF Single, OneTip, OneCopy

\* At first the originals are the only tips.
LEMMA InitTip == Init => OneTip
  <1> SUFFICES ASSUME Init, NEW x \in Originals
               PROVE  Tips(x) \subseteq {x} /\ CopiesInTransit(x) = {}
    BY DEF OneTip
  <1>1. CopiesInTransit(x) = {}
    BY DEF Init, CopiesInTransit, InFlight
  <1>2. ASSUME NEW s \in Nft, Tip(s) PROVE s \in Originals
    <2>1. owner[s] # Nobody
      BY <1>2 DEF Tip, Outstanding, Init
    <2> QED
      BY <2>1 DEF Init, Originals
  <1> QED
    BY <1>1, <1>2, OriginalStandsFor DEF Tips

\* Tips and packets go, and none comes.
LEMMA TipsGo ==
  ASSUME OneTip,
         \A t \in Nft : Tip(t)' => Tip(t),
         \A x \in Originals : CopiesInTransit(x)' \subseteq CopiesInTransit(x)
  PROVE  OneTip'
  <1>1. \A x \in Originals : Tips(x)' \subseteq Tips(x)
    BY DEF Tips
  <1> QED
    BY <1>1 DEF OneTip

\* The tip s goes on its way in packet n.
LEMMA TipLeaves ==
  ASSUME OneTip, NEW s \in Nft, NEW n, Tip(s),
         \A t \in Nft : Tip(t)' => Tip(t) /\ t # s,
         \A x \in Originals : CopiesInTransit(x)' \subseteq
           CopiesInTransit(x) \cup {m \in {n} : StandsFor(s, x)}
  PROVE  OneTip'
  <1> SUFFICES ASSUME NEW x \in Originals
               PROVE  /\ \A t, r \in Tips(x)' : t = r
                      /\ \A m, k \in CopiesInTransit(x)' : m = k
                      /\ Tips(x)' = {} \/ CopiesInTransit(x)' = {}
    BY DEF OneTip
  <1>1. Tips(x)' \subseteq Tips(x) \ {s}
    BY DEF Tips
  <1>2. StandsFor(s, x) => s \in Tips(x)
    BY DEF Tips
  <1> QED
    BY <1>1, <1>2 DEF OneTip

\* The NFT that packet n carries becomes the tip t.
LEMMA TipLands ==
  ASSUME OneTip, NEW t \in Nft, NEW n,
         \A r \in Nft : Tip(r)' => Tip(r) \/ r = t,
         \A x \in Originals : /\ StandsFor(t, x) => n \in CopiesInTransit(x)
                              /\ CopiesInTransit(x)' \subseteq CopiesInTransit(x) \ {n}
  PROVE  OneTip'
  <1> SUFFICES ASSUME NEW x \in Originals
               PROVE  /\ \A r, q \in Tips(x)' : r = q
                      /\ \A m, k \in CopiesInTransit(x)' : m = k
                      /\ Tips(x)' = {} \/ CopiesInTransit(x)' = {}
    BY DEF OneTip
  <1>1. Tips(x)' \subseteq Tips(x) \cup {r \in {t} : StandsFor(t, x)}
    BY DEF Tips
  <1> QED
    BY <1>1 DEF OneTip

\* The tip s is no more, and what it stood for is the tip.
LEMMA TipFalls ==
  ASSUME OneTip, NEW s \in Nft, NEW t \in Nft, Tip(s),
         \A r \in Nft : Tip(r)' => r # s /\ (Tip(r) \/ r = t),
         \A x \in Originals : StandsFor(t, x) => StandsFor(s, x),
         \A x \in Originals : CopiesInTransit(x)' = CopiesInTransit(x)
  PROVE  OneTip'
  <1> SUFFICES ASSUME NEW x \in Originals
               PROVE  /\ \A r, q \in Tips(x)' : r = q
                      /\ \A m, k \in CopiesInTransit(x)' : m = k
                      /\ Tips(x)' = {} \/ CopiesInTransit(x)' = {}
    BY DEF OneTip
  <1>1. Tips(x)' \subseteq (Tips(x) \ {s}) \cup {r \in {t} : StandsFor(t, x)}
    BY DEF Tips
  <1>2. StandsFor(s, x) => s \in Tips(x)
    BY DEF Tips
  <1> QED
    BY <1>1, <1>2 DEF OneTip

\* A voucher stands for what its escrowed NFT stands for.
LEMMA ParentStandsFor ==
  ASSUME BackingInv, NEW s \in Nft, incoming[s] # NoEnd, NEW x
  PROVE  StandsFor(Parent(s), x) <=> StandsFor(s, x)
  <1>1. incoming[s] \in Ends /\ s.chain = ChainOf[incoming[s]] /\ Pops(incoming[s], s.class)
    BY ParentType DEF BackingInv, VoucherRecorded
  <1>2. s.class.path \in Paths /\ s.class.path # << >>
        /\ Head(s.class.path) = Prefix[incoming[s]]
    BY <1>1 DEF Pops, Nft, Classes
  <1>3. OriginChain[s.class.path][s.chain]
          = OriginChain[Tail(s.class.path)][ChainOf[Peer[incoming[s]]]]
    BY <1>1, <1>2, OriginPop
  <1> QED
    BY <1>3 DEF StandsFor, Parent

\* Only the packet that ends leaves those on their way.
LEMMA TransitEnds ==
  ASSUME NEW n \in Flights, \A m \in Flights : m # n => packet'[m] = packet[m],
         ~InFlight(n, {"sent", "error"})', NEW x
  PROVE  CopiesInTransit(x)' = CopiesInTransit(x) \ {n}
  <1>1. ASSUME NEW m \in Flights
        PROVE  m \in CopiesInTransit(x)' <=> m # n /\ m \in CopiesInTransit(x)
    BY DEF CopiesInTransit, InFlight
  <1>2. CopiesInTransit(x) \subseteq Flights /\ CopiesInTransit(x)' \subseteq Flights
    BY DEF CopiesInTransit
  <1> QED
    BY <1>1, <1>2

\* Transfers and burns within a chain, and what touches no NFT.
LEMMA LocalTips ==
  ASSUME BackingInv, OneTip, UNCHANGED <<incoming, packet>>,
         \A s \in Nft : owner'[s] # Nobody => owner[s] # Nobody
  PROVE  OneTip'
  <1>1. \A t \in Nft : Tip(t)' => Tip(t)
    BY DEF Tip, Unneeded, Outstanding, Claims, Parent
  <1>2. \A x \in Originals : CopiesInTransit(x)' = CopiesInTransit(x)
    BY DEF CopiesInTransit, InFlight
  <1> QED
    BY <1>1, <1>2, TipsGo

\* receive_nft sends the tip.
LEMMA SendTips ==
  ASSUME BackingInv, OneTip,
         NEW s \in Nft, NEW e \in Ends, NEW u \in Users, NEW n \in Flights,
         ReceiveNft(s, e, u, n)
  PROVE  OneTip'
  <1>1. /\ \A m \in Flights : ~Claims(m, s)
        /\ \A x \in Nft : Outstanding(x) => Parent(x) # s
        /\ \A m \in Flights, t \in Nft :
             Claims(m, t)' <=> IF m = n THEN t = s ELSE Claims(m, t)
        /\ \A x \in Nft : (Outstanding(x)' <=> Outstanding(x)) /\ Parent(x)' = Parent(x)
    BY SendChanges
  <1>2. /\ owner[s] \in Users /\ packet[n] = NoPacket
        /\ \A t \in Nft : t # s => owner'[t] = owner[t]
    BY DEF ReceiveNft, BackingInv, TypeOK
  <1>3. Tip(s)
    BY <1>1, <1>2, DistinctAssumption DEF Tip, Unneeded
  <1>4. ASSUME NEW t \in Nft, Tip(t)' PROVE Tip(t) /\ t # s
    <2>1. t # s
      BY <1>1, <1>4 DEF Tip, Unneeded
    <2>2. ~Claims(n, t)
      BY <1>2 DEF Claims
    <2> QED
      BY <1>1, <1>2, <1>4, <2>1, <2>2 DEF Tip, Unneeded
  <1>5. \A x \in Originals : CopiesInTransit(x)' \subseteq
          CopiesInTransit(x) \cup {m \in {n} : StandsFor(s, x)}
    BY SendCopies DEF BackingInv
  <1> QED
    BY <1>3, <1>4, <1>5, TipLeaves

\* A receipt makes the NFT it hands out the tip.
LEMMA ArriveTips ==
  ASSUME BackingInv, OneTip, NEW n \in Flights, ReceivePacket(n)
  PROVE  OneTip'
  <1> DEFINE s == SourceNft(packet[n])
             d == DestNft(packet[n])
  <1>1. /\ packet[n] # NoPacket /\ packet[n].status = "sent" /\ packet[n] \in Packet
        /\ s \in Nft /\ d \in Nft /\ TypeOK
        /\ LocalClass(packet[n].src, packet[n].class) \in Classes
        /\ packet' = [packet EXCEPT ![n].status = "success"]
    BY PacketTypes DEF ReceivePacket, InFlight, BackingInv, PacketsFit
  <1>2. /\ \A m \in Flights : m # n => packet'[m] = packet[m]
        /\ packet'[n].status = "success"
    BY <1>1 DEF TypeOK, Packet
  <1>3. \A x : CopiesInTransit(x)' = CopiesInTransit(x) \ {n}
    BY <1>2, TransitEnds DEF InFlight
  <1>4. \A x : StandsFor(d, x) => n \in CopiesInTransit(x)
    BY <1>1, DestStandsFor DEF CopiesInTransit, InFlight
  <1>5. \A t \in Nft : t # d => owner'[t] = owner[t]
    BY <1>1 DEF ReceivePacket, RedeemVoucher, CreateVoucher, TypeOK
  <1>6. \A t \in Nft : Claims(n, t) => t = s
    BY DEF Claims
  <1>7. ASSUME NEW t \in Nft, Tip(t)', t # d PROVE Tip(t)
    <2>1. CASE RedeemVoucher(packet[n])
      <3>1. /\ Parent(s) = d
            /\ \A m \in Flights, r \in Nft : Claims(m, r)' <=> Claims(m, r)
            /\ \A x \in Nft : Outstanding(x)' <=> Outstanding(x) /\ x # s
            /\ \A x \in Nft : Parent(x)' = Parent(x)
        BY <2>1, RedeemChanges
      <3> QED
        BY <1>5, <1>7, <3>1 DEF Tip, Unneeded
    <2>2. CASE CreateVoucher(packet[n])
      <3>1. /\ \A m \in Flights, r \in Nft : Claims(m, r)' <=> m # n /\ Claims(m, r)
            /\ ~Outstanding(d)
            /\ \A x \in Nft : x # d =>
                 (Outstanding(x)' <=> Outstanding(x)) /\ Parent(x)' = Parent(x)
            /\ \A x \in Nft : x = d => Outstanding(x)' /\ Parent(x)' = s
        BY <2>2, CreateChanges
      <3>2. t # s
        BY <1>1, <1>7, <3>1 DEF Tip, Unneeded
      <3> QED
        BY <1>5, <1>6, <1>7, <3>1, <3>2 DEF Tip, Unneeded
    <2> QED
      BY <2>1, <2>2 DEF ReceivePacket
  <1> QED
    BY <1>1, <1>3, <1>4, <1>7, TipLands

\* A refund makes the NFT that was sent the tip again.
LEMMA RefundTips ==
  ASSUME BackingInv, OneTip, NEW n \in Flights,
         packet[n] # NoPacket, packet[n].status # "success", HandlePacketFail(n)
  PROVE  OneTip'
  <1> DEFINE s == SourceNft(packet[n])
  <1>1. s \in Nft /\ TypeOK /\ packet[n] \in Packet
    BY PacketTypes DEF BackingInv
  <1>2. /\ \A m \in Flights : m # n => packet'[m] = packet[m]
        /\ packet'[n] = NoPacket
        /\ \A t \in Nft : t # s => owner'[t] = owner[t]
    BY <1>1 DEF HandlePacketFail, Settle, TypeOK
  <1>3. \A x : CopiesInTransit(x)' = CopiesInTransit(x) \ {n}
    BY <1>2, TransitEnds DEF InFlight
  <1>4. packet[n].status \in {"sent", "error"}
    BY <1>1 DEF Packet
  <1>5. \A x : StandsFor(s, x) => n \in CopiesInTransit(x)
    BY <1>4 DEF CopiesInTransit, InFlight
  <1>6. /\ \A m \in Flights, t \in Nft : Claims(m, t)' <=> m # n /\ Claims(m, t)
        /\ \A x \in Nft : (Outstanding(x)' <=> Outstanding(x)) /\ Parent(x)' = Parent(x)
    BY FailChanges
  <1>7. ASSUME NEW t \in Nft, Tip(t)', t # s PROVE Tip(t)
    <2>1. ~Claims(n, t)
      BY <1>7 DEF Claims
    <2> QED
      BY <1>2, <1>6, <1>7, <2>1 DEF Tip, Unneeded
  <1> QED
    BY <1>1, <1>3, <1>5, <1>7, TipLands

\* A success acknowledgement ends the packet whose NFT is at its receiver.
LEMMA AckTips ==
  ASSUME BackingInv, OneTip, NEW n \in Flights, AckSuccess(n)
  PROVE  OneTip'
  <1>1. /\ \A m \in Flights, t \in Nft : Claims(m, t)' <=> m # n /\ Claims(m, t)
        /\ \A t \in Nft : IF Claims(n, t)
             THEN owner'[t] = Nobody /\ incoming'[t] = NoEnd /\ ~Outstanding(t)
             ELSE owner'[t] = owner[t] /\ incoming'[t] = incoming[t]
        /\ \A x \in Nft : Outstanding(x)' <=> Outstanding(x)
        /\ \A x \in Nft : Outstanding(x) => Parent(x)' = Parent(x)
    BY AckChanges
  <1>2. ASSUME NEW t \in Nft, Tip(t)' PROVE Tip(t)
    <2>1. ~Claims(n, t)
      BY <1>1, <1>2 DEF Tip
    <2> QED
      BY <1>1, <1>2, <2>1 DEF Tip, Unneeded
  <1>3. /\ \A m \in Flights : m # n => packet'[m] = packet[m]
        /\ packet'[n] = NoPacket
    BY DEF AckSuccess, Settle, BackingInv, TypeOK
  <1>4. \A x : CopiesInTransit(x)' = CopiesInTransit(x) \ {n}
    BY <1>3, TransitEnds DEF InFlight
  <1> QED
    BY <1>2, <1>4, TipsGo

\* An error answer leaves the NFT on its way back.
LEMMA RejectTips ==
  ASSUME BackingInv, OneTip, NEW n \in Flights, RejectPacket(n)
  PROVE  OneTip'
  <1>1. /\ packet[n] # NoPacket /\ packet[n].status = "sent" /\ packet[n] \in Packet
        /\ packet' = [packet EXCEPT ![n].status = "error"]
        /\ UNCHANGED <<owner, incoming>> /\ TypeOK
    BY PacketTypes DEF RejectPacket, InFlight, BackingInv
  <1>2. \A m \in Flights, t \in Nft : Claims(m, t)' <=> Claims(m, t)
    <2>1. \A t \in Nft : Claims(n, t)' <=> t = SourceNft(packet[n])
      BY <1>1, ReceiptClaims
    <2>2. \A t \in Nft : Claims(n, t) <=> t = SourceNft(packet[n])
      BY <1>1 DEF Claims
    <2> QED
      BY <1>1, <2>1, <2>2, ReceiptClaims
  <1>3. /\ \A m \in Flights : m # n => packet'[m] = packet[m]
        /\ packet'[n].status = "error"
    BY <1>1, ReceiptClaims
  <1>4. \A x \in Nft : (Outstanding(x)' <=> Outstanding(x)) /\ Parent(x)' = Parent(x)
    BY <1>1, <1>2, <1>3 DEF Outstanding, Parent
  <1>5. \A t \in Nft : Tip(t)' => Tip(t)
    BY <1>1, <1>2, <1>4 DEF Tip, Unneeded
  <1>6. SourceNft(packet'[n]) = SourceNft(packet[n])
    BY <1>1 DEF TypeOK, SourceNft, Packet
  <1>7. \A x \in Originals : CopiesInTransit(x)' \subseteq CopiesInTransit(x)
    BY <1>1, <1>3, <1>6 DEF CopiesInTransit, InFlight
  <1> QED
    BY <1>5, <1>7, TipsGo

\* Every step of the protocol.
LEMMA TipStep ==
  ASSUME BackingInv, OneTip, [Next]_vars
  PROVE  OneTip'
  <1>1. ASSUME NEW s \in Nft, NEW u \in Users, TransferNft(s, u) PROVE OneTip'
    <2>1. \A t \in Nft : owner'[t] # Nobody => owner[t] # Nobody
      BY <1>1, DistinctAssumption DEF TransferNft, BackingInv, TypeOK
    <2> QED
      BY <1>1, <2>1, LocalTips DEF TransferNft
  <1>2. ASSUME NEW s \in Nft, BurnNft(s) PROVE OneTip'
    <2>1. \A t \in Nft : owner'[t] # Nobody => owner[t] # Nobody
      BY <1>2 DEF BurnNft, BackingInv, TypeOK
    <2> QED
      BY <1>2, <2>1, LocalTips DEF BurnNft
  <1>3. ASSUME UNCHANGED <<owner, incoming, packet>> PROVE OneTip'
    BY <1>3, LocalTips
  <1>4. ASSUME NEW n \in Flights, AckError(n) \/ TimeoutPacket(n) PROVE OneTip'
    BY <1>4, RefundTips DEF AckError, TimeoutPacket, InFlight
  <1> QED
    BY <1>1, <1>2, <1>3, <1>4, SendTips, ArriveTips, RejectTips, AckTips
    DEF Next, HolderStep, RelayerStep, Arrive, Acknowledge, Pause, Migrate, vars

\* A burning clean-up makes what the voucher stood for the tip, if anything.
LEMMA BurnCleanTips ==
  ASSUME BackingInv, OneTip, Careful,
         NEW u \in Users, NEW s \in Nft, NEW o \in Users \cup {Ics721},
         AdminCleanAndBurnNft(u, s, o)
  PROVE  OneTip'
  <1>1. /\ \A t \in Nft : owner'[t] = IF t = s THEN Nobody ELSE owner[t]
        /\ \A t \in Nft : incoming'[t] = IF t = s THEN NoEnd ELSE incoming[t]
        /\ packet' = packet /\ Unneeded(s)
    BY DEF AdminCleanAndBurnNft, BackingInv, TypeOK
  <1>2. /\ \A m \in Flights, t \in Nft : Claims(m, t)' <=> Claims(m, t)
        /\ \A x \in Nft : Outstanding(x)' <=> x # s /\ Outstanding(x)
        /\ \A x \in Nft : x # s => Parent(x)' = Parent(x)
    BY BurnCleanChanges
  <1>3. \A x \in Originals : CopiesInTransit(x)' = CopiesInTransit(x)
    BY <1>1 DEF CopiesInTransit, InFlight
  <1>4. CASE Outstanding(s)
    <2> DEFINE t == Parent(s)
    <2>1. t \in Nft /\ \A x : StandsFor(t, x) <=> StandsFor(s, x)
      BY <1>4, ParentType, ParentStandsFor DEF Outstanding
    <2>2. Tip(s)
      BY <1>1, <1>4 DEF Tip
    <2>3. ASSUME NEW r \in Nft, Tip(r)' PROVE r # s /\ (Tip(r) \/ r = t)
      <3>1. r # s
        BY <1>1, <1>2, <2>3 DEF Tip
      <3>2. ASSUME r # t PROVE Tip(r)
        BY <1>1, <1>2, <2>3, <3>1, <3>2 DEF Tip, Unneeded
      <3> QED
        BY <3>1, <3>2
    <2> HIDE DEF t
    <2> QED
      BY <1>3, <2>1, <2>2, <2>3, TipFalls
  <1>5. CASE ~Outstanding(s)
    <2>1. \A r \in Nft : Tip(r)' => Tip(r)
      BY <1>1, <1>2, <1>5 DEF Tip, Unneeded
    <2> QED
      BY <1>3, <2>1, TipsGo
  <1> QED
    BY <1>4, <1>5

\* An unescrow changes no tip.
LEMMA UnescrowCleanTips ==
  ASSUME BackingInv, OneTip,
         NEW u \in Users, NEW s \in Nft, NEW r \in Users,
         AdminCleanAndUnescrowNft(u, s, r)
  PROVE  OneTip'
  <1>1. \A t \in Nft : owner'[t] # Nobody => owner[t] # Nobody
    BY DistinctAssumption DEF AdminCleanAndUnescrowNft, BackingInv, TypeOK
  <1> QED
    BY <1>1, LocalTips DEF AdminCleanAndUnescrowNft

\* A careful unescrow gives a burnt NFT back to a user, or nothing.
LEMMA UnescrowRecovers ==
  ASSUME BackingInv, OneTip, Single', Careful,
         NEW u \in Users, NEW s \in Nft, NEW r \in Users,
         AdminCleanAndUnescrowNft(u, s, r)
  PROVE  places' = places \/ \E x \in Originals : Recover(x)
  <1>1. /\ packet' = packet /\ Unneeded(s)
        /\ \A t \in Nft : t # s => owner'[t] = owner[t]
        /\ owner'[s] = IF owner[s] = Ics721 THEN r ELSE owner[s]
        /\ owner[s] \in {Ics721, Nobody}
    BY DEF AdminCleanAndUnescrowNft, BackingInv, TypeOK
  <1>2. Single
    BY TipsAreSingle
  <1>3. \A x : CopiesInTransit(x)' = CopiesInTransit(x)
    BY <1>1 DEF CopiesInTransit, InFlight
  <1>4. ASSUME owner[s] = Nobody \/ \A x \in Originals : ~StandsFor(s, x)
        PROVE  places' = places
    <2>1. ASSUME NEW x \in Originals PROVE Place(x)' = Place(x)
      <3>1. HeldCopies(x)' = HeldCopies(x)
        BY <1>1, <1>4, DistinctAssumption DEF HeldCopies
      <3>2. \A t \in HeldCopies(x) : owner'[t] = owner[t]
        BY <1>1, DistinctAssumption DEF HeldCopies
      <3> QED
        BY <1>1, <1>2, <1>3, <3>1, <3>2, PlaceKept DEF Single
    <2> QED
      BY <2>1 DEF places
  <1>5. ASSUME owner[s] = Ics721, NEW x \in Originals, StandsFor(s, x)
        PROVE  Recover(x)
    <2>1. s \in Tips(x)
      BY <1>1, <1>5, DistinctAssumption DEF Tips, Tip
    <2>2. CopiesInTransit(x) = {} /\ HeldCopies(x) = {}
      <3>1. HeldCopies(x) \subseteq Tips(x)
        BY HeldAreTips
      <3>2. s \notin HeldCopies(x)
        BY <1>5, DistinctAssumption DEF HeldCopies
      <3> QED
        BY <2>1, <3>1, <3>2 DEF OneTip
    <2>3. s \in HeldCopies(x)'
      BY <1>1, <1>5 DEF HeldCopies
    <2>4. AllPlaced'
      BY PlaceOfCopy, PTL
    <2>5. Place(x)' = At(s.chain, r)
      BY <1>1, <1>5, <2>3, <2>4 DEF AllPlaced, Placed, Single
    <2>6. Place(x) = [state |-> "burnt"]
      BY <1>2, <2>2, PlaceOfCopy DEF AllPlaced, Placed, Single
    <2>7. ASSUME NEW y \in Originals \ {x} PROVE Place(y)' = Place(y)
      <3>1. ~StandsFor(s, y)
        BY <1>5, StandsForOne
      <3>2. /\ HeldCopies(y)' = HeldCopies(y)
            /\ \A t \in HeldCopies(y) : owner'[t] = owner[t]
        BY <1>1, <3>1 DEF HeldCopies
      <3> QED
        BY <1>1, <1>2, <1>3, <3>2, PlaceKept DEF Single
    <2>8. s.chain \in Chains
      BY DEF Nft
    <2> QED
      BY <2>5, <2>6, <2>7, <2>8 DEF Recover
  <1> QED
    BY <1>1, <1>4, <1>5

\* Every step of AdminNext is one of the ledger or a recovery.
LEMMA RecoveryStep ==
  ASSUME Careful, BackingInv, OneTip, [AdminNext]_vars
  PROVE  OneTip' /\ [Ledger!Next \/ \E x \in Originals : Recover(x)]_places
  <1>1. TypeOK /\ PacketsFit /\ Single
    BY TipsAreSingle DEF BackingInv
  <1>2. CASE [Next]_vars
    BY <1>1, <1>2, TipStep, LedgerStep
  <1>3. ASSUME NEW u \in Users, NEW s \in Nft, NEW o \in Users \cup {Ics721},
               AdminCleanAndBurnNft(u, s, o)
        PROVE  OneTip' /\ [Ledger!Next]_places
    BY <1>1, <1>3, BurnCleanTips, BurnMoves DEF AdminCleanAndBurnNft
  <1>4. ASSUME NEW u \in Users, NEW s \in Nft, NEW r \in Users,
               AdminCleanAndUnescrowNft(u, s, r)
        PROVE  OneTip' /\ (places' = places \/ \E x \in Originals : Recover(x))
    <2>1. OneTip' /\ BackingInv'
      BY <1>4, UnescrowCleanTips, UnescrowCleanStep
    <2>2. (BackingInv /\ OneTip => Single)'
      BY TipsAreSingle, PTL
    <2> QED
      BY <1>4, <2>1, <2>2, UnescrowRecovers
  <1> QED
    BY <1>2, <1>3, <1>4 DEF AdminNext, AdminStep

\* Careful clean-ups, by whoever is let in, move no NFT that a user holds or a
\* packet carries, except to burn one: all that unescrow does is to give an NFT
\* whose every copy is burnt to a user.
THEOREM CleanUpsRecover == Careful => (AdminSpec => RecoverySpec)
  <1> SUFFICES ASSUME Careful PROVE AdminSpec => RecoverySpec
    OBVIOUS
  <1>1. BackingInv /\ OneTip /\ [AdminNext]_vars
          => OneTip' /\ [Ledger!Next \/ \E x \in Originals : Recover(x)]_places
    BY RecoveryStep
  <1>2. AdminSpec => []BackingInv
    BY CarefulCleanUpsKeepBacking
  <1>3. Init => OneTip /\ Ledger!Init
    BY InitTip, InitLedger
  <1> QED
    BY <1>1, <1>2, <1>3, PTL DEF AdminSpec, RecoverySpec
===============================================================================
