---------------------------- MODULE Ics721Transfer ----------------------------
(***************************************************************************)
(* The ICS721 protocol between chains: every chain runs one ICS721         *)
(* contract, channels join pairs of contracts, and NFTs travel over them.  *)
(* A chain executes a transaction as one atomic step, so an action here is *)
(* a whole transaction: the handler together with every message it emits   *)
(* (Ics721Receive opens up the one that is not a single handler, the       *)
(* receipt of a packet).  What interleaves is the chains, their users and  *)
(* the relayers, who carry packets, acknowledgements and timeouts in any   *)
(* order.                                                                  *)
(*                                                                         *)
(* A class id is the address of a collection behind the path of channel    *)
(* ends the class came in through: "port/channel/port/channel/address" is  *)
(* path <<p, q>> and base address.  A transaction that fails changes       *)
(* nothing: its handler's error paths are the guards below.                *)
(***************************************************************************)
EXTENDS Naturals, Sequences, FiniteSets

CONSTANTS
  Chains, Users, Tokens,
  Collections,  \* addresses of cw721 collections that are not vouchers;
  Homes,        \* Homes[x]: the chains with a collection at address x
  Ends,         \* channel ends: end e is on chain ChainOf[e], its
  ChainOf,      \* counterparty is Peer[e], and Prefix[e] is the string
  Peer,         \* "port_id/channel_id/", unique on its chain only
  Prefixes,
  Prefix,
  MaxHops,      \* bound: the longest path of a class id
  Flights,      \* bound: identities of packets not yet settled; the
                \* sequence number of a settled packet is used again
  Ics721, Nobody, NoEnd, NoPacket

Paths == UNION {[1..n -> Prefixes] : n \in 0..MaxHops}
Classes == [path : Paths, base : Collections]

\* One token of one class on one chain, whether it exists or not.
Nft == [chain : Chains, class : Classes, token : Tokens]

IsOriginal(s) == s.class.path = << >> /\ s.chain \in Homes[s.class.base]
Originals == {s \in Nft : IsOriginal(s)}

Packet == [src : Ends, class : Classes, token : Tokens, sender : Users,
           receiver : Users, status : {"sent", "success", "error"}]

ASSUME TopologyAssumption ==
  /\ ChainOf \in [Ends -> Chains]
  /\ Peer \in [Ends -> Ends]
  /\ \A e \in Ends : Peer[Peer[e]] = e
  /\ Prefix \in [Ends -> Prefixes]
  /\ \A e, f \in Ends : ChainOf[e] = ChainOf[f] /\ Prefix[e] = Prefix[f] => e = f
  /\ Homes \in [Collections -> SUBSET Chains]
  /\ MaxHops \in Nat

ASSUME DistinctAssumption ==
  /\ Ics721 \notin Users /\ Nobody \notin Users /\ Ics721 # Nobody
  /\ NoEnd \notin Ends
  /\ NoPacket \notin Packet

VARIABLES
  owner,     \* the owner every cw721 contract records: a user, ICS721 or nobody
  registry,  \* registry[c]: classes in CLASS_ID_AND_NFT_CONTRACT_INFO
  outgoing,  \* OUTGOING_CLASS_TOKEN_TO_CHANNEL
  incoming,  \* INCOMING_CLASS_TOKEN_TO_CHANNEL
  metadata,  \* the keys of TOKEN_METADATA
  paused,    \* PO.paused of each contract
  packet     \* packet[n]: the packet in flight n, and what became of it

vars == <<owner, registry, outgoing, incoming, metadata, paused, packet>>

TypeOK ==
  /\ owner \in [Nft -> Users \cup {Ics721, Nobody}]
  /\ registry \in [Chains -> SUBSET Classes]
  /\ outgoing \in [Nft -> Ends \cup {NoEnd}]
  /\ incoming \in [Nft -> Ends \cup {NoEnd}]
  /\ metadata \in SUBSET Nft
  /\ paused \in [Chains -> BOOLEAN]
  /\ packet \in [Flights -> Packet \cup {NoPacket}]

Init ==
  /\ \E holder \in [Originals -> Users] :
       owner = [s \in Nft |-> IF IsOriginal(s) THEN holder[s] ELSE Nobody]
  /\ registry = [c \in Chains |-> {}]
  /\ outgoing = [s \in Nft |-> NoEnd]
  /\ incoming = [s \in Nft |-> NoEnd]
  /\ metadata = {}
  /\ paused = [c \in Chains |-> FALSE]
  /\ packet = [n \in Flights |-> NoPacket]

-------------------------------------------------------------------------------
(* Class ids and the NFTs at the two ends of a packet.                       *)

\* try_pop_source_prefix succeeds: class k of the chain of e came in over e.
Pops(e, k) == k.path # << >> /\ Head(k.path) = Prefix[e]

\* What class k of the chain of e is called on the other side of e.
LocalClass(e, k) ==
  [path |-> IF Pops(e, k) THEN Tail(k.path) ELSE <<Prefix[Peer[e]]>> \o k.path,
   base |-> k.base]

SourceNft(p) == [chain |-> ChainOf[p.src], class |-> p.class, token |-> p.token]
DestNft(p) == [chain |-> ChainOf[Peer[p.src]],
               class |-> LocalClass(p.src, p.class), token |-> p.token]

InFlight(n, status) == packet[n] # NoPacket /\ packet[n].status \in status

-------------------------------------------------------------------------------
(* The holder of an NFT.  cw721 lets it transfer and burn.                   *)

TransferNft(s, u) ==
  /\ owner[s] \in Users
  /\ owner' = [owner EXCEPT ![s] = u]
  /\ UNCHANGED <<registry, outgoing, incoming, metadata, paused, packet>>

BurnNft(s) ==
  /\ owner[s] \in Users
  /\ owner' = [owner EXCEPT ![s] = Nobody]
  /\ UNCHANGED <<registry, outgoing, incoming, metadata, paused, packet>>

\* Mistake: the packet leaves without a check that ICS721 owns the NFT.
ReceiveNftUnescrowed(s, e, u, n) ==
  /\ owner[s] \in Users
  /\ ChainOf[e] = s.chain
  /\ ~paused[s.chain]
  /\ s.class \in registry[s.chain] \/ IsOriginal(s)
  /\ LocalClass(e, s.class) \in Classes
  /\ packet[n] = NoPacket
  /\ registry' = [registry EXCEPT ![s.chain] = @ \cup {s.class}]
  /\ outgoing' = [outgoing EXCEPT ![s] = e]
  /\ packet' = [packet EXCEPT ![n] =
       [src |-> e, class |-> s.class, token |-> s.token,
        sender |-> owner[s], receiver |-> u, status |-> "sent"]]
  /\ UNCHANGED <<owner, incoming, metadata, paused>>

\* cw721's SendNft hands the NFT to ICS721 and calls its ReceiveNft, which
\* registers a collection it has not met, records the channel and sends a
\* packet for this one token.
ReceiveNft(s, e, u, n) ==
  /\ owner[s] \in Users
  /\ ChainOf[e] = s.chain
  /\ ~paused[s.chain]
  /\ s.class \in registry[s.chain] \/ IsOriginal(s)
  /\ LocalClass(e, s.class) \in Classes     \* the bound MaxHops
  /\ packet[n] = NoPacket
  /\ registry' = [registry EXCEPT ![s.chain] = @ \cup {s.class}]
  /\ owner' = [owner EXCEPT ![s] = Ics721]
  /\ outgoing' = [outgoing EXCEPT ![s] = e]
  /\ packet' = [packet EXCEPT ![n] =
       [src |-> e, class |-> s.class, token |-> s.token,
        sender |-> owner[s], receiver |-> u, status |-> "sent"]]
  /\ UNCHANGED <<incoming, metadata, paused>>

-------------------------------------------------------------------------------
(* The receiving chain.                                                      *)

\* The token left over the very channel it comes back on.
IsRedemption(p) ==
  Pops(p.src, p.class) /\ outgoing[DestNft(p)] = Peer[p.src]

RedeemVoucher(p) == LET d == DestNft(p) IN
  /\ IsRedemption(p)
  /\ d.class \in registry[d.chain]
  /\ owner[d] = Ics721
  /\ owner' = [owner EXCEPT ![d] = p.receiver]
  /\ outgoing' = [outgoing EXCEPT ![d] = NoEnd]
  /\ UNCHANGED <<registry, incoming, metadata>>

\* Mistake: INCOMING holds the prefix of the class, not the local channel.
CreateVoucherStoresPrefix(p) == LET d == DestNft(p) IN
  /\ ~IsRedemption(p) /\ ~IsOriginal(d) /\ owner[d] = Nobody
  /\ owner' = [owner EXCEPT ![d] = p.receiver]
  /\ registry' = [registry EXCEPT ![d.chain] = @ \cup {d.class}]
  /\ metadata' = metadata \cup {d}
  /\ incoming' = [incoming EXCEPT ![d] = Prefix[Peer[p.src]]]
  /\ UNCHANGED outgoing

\* A collection that is not a voucher has another minter, and no cw721 mints
\* a token that exists.
CreateVoucher(p) == LET d == DestNft(p) IN
  /\ ~IsRedemption(p)
  /\ ~IsOriginal(d)
  /\ owner[d] = Nobody
  /\ owner' = [owner EXCEPT ![d] = p.receiver]
  /\ registry' = [registry EXCEPT ![d.chain] = @ \cup {d.class}]
  /\ metadata' = metadata \cup {d}
  /\ incoming' = [incoming EXCEPT ![d] = Peer[p.src]]
  /\ UNCHANGED outgoing

ReceivePacket(n) ==
  /\ InFlight(n, {"sent"})
  /\ ~paused[DestNft(packet[n]).chain]
  /\ RedeemVoucher(packet[n]) \/ CreateVoucher(packet[n])
  /\ packet' = [packet EXCEPT ![n].status = "success"]
  /\ UNCHANGED paused

\* Mistake: a failure after the mint does not roll the mint back.
RejectPacketKeepsVoucher(n) ==
  /\ InFlight(n, {"sent"})
  /\ CreateVoucher(packet[n])
  /\ packet' = [packet EXCEPT ![n].status = "error"]
  /\ UNCHANGED paused

\* Any failure of the receipt is rolled back and acknowledged as an error:
\* the contract is paused, the data or the receiver is invalid, the proxy or
\* the receiver's callback refuses, the token cannot be minted.
RejectPacket(n) ==
  /\ InFlight(n, {"sent"})
  /\ packet' = [packet EXCEPT ![n].status = "error"]
  /\ UNCHANGED <<owner, registry, outgoing, incoming, metadata, paused>>

-------------------------------------------------------------------------------
(* The sending chain again.  Neither handler looks at PO.                    *)

Settle(n) == packet' = [packet EXCEPT ![n] = NoPacket]

\* Mistakes: the refund goes to the wrong party of the packet; a paused
\* contract does not refund.
HandlePacketFailToReceiver(n) == LET s == SourceNft(packet[n]) IN
  /\ s.class \in registry[s.chain] /\ owner[s] = Ics721
  /\ outgoing' = [outgoing EXCEPT ![s] = NoEnd]
  /\ owner' = [owner EXCEPT ![s] = packet[n].receiver]
  /\ Settle(n)
  /\ UNCHANGED <<registry, incoming, metadata, paused>>
HandlePacketFailUnpaused(n) == LET s == SourceNft(packet[n]) IN
  /\ ~paused[s.chain]
  /\ s.class \in registry[s.chain] /\ owner[s] = Ics721
  /\ outgoing' = [outgoing EXCEPT ![s] = NoEnd]
  /\ owner' = [owner EXCEPT ![s] = packet[n].sender]
  /\ Settle(n)
  /\ UNCHANGED <<registry, incoming, metadata, paused>>

\* handle_packet_fail: only the owner, ICS721, can transfer the NFT back.
HandlePacketFail(n) == LET s == SourceNft(packet[n]) IN
  /\ s.class \in registry[s.chain]
  /\ owner[s] = Ics721
  /\ outgoing' = [outgoing EXCEPT ![s] = NoEnd]
  /\ owner' = [owner EXCEPT ![s] = packet[n].sender]
  /\ Settle(n)
  /\ UNCHANGED <<registry, incoming, metadata, paused>>

AckError(n) == InFlight(n, {"error"}) /\ HandlePacketFail(n)

TimeoutPacket(n) == InFlight(n, {"sent"}) /\ HandlePacketFail(n)

\* Mistakes: the burn is left out; TOKEN_METADATA is left behind; every token
\* sent is burnt, whichever channel it came in on.
AckSuccessWithoutBurn(n) == LET s == SourceNft(packet[n]) IN
  /\ InFlight(n, {"success"})
  /\ IF incoming[s] = packet[n].src
     THEN incoming' = [incoming EXCEPT ![s] = NoEnd] /\ metadata' = metadata \ {s}
     ELSE UNCHANGED <<incoming, metadata>>
  /\ Settle(n)
  /\ UNCHANGED <<owner, registry, outgoing, paused>>
AckSuccessKeepsMetadata(n) == LET s == SourceNft(packet[n]) IN
  /\ InFlight(n, {"success"})
  /\ IF incoming[s] = packet[n].src
     THEN /\ owner' = [owner EXCEPT ![s] = Nobody]
          /\ incoming' = [incoming EXCEPT ![s] = NoEnd]
     ELSE UNCHANGED <<owner, incoming>>
  /\ Settle(n)
  /\ UNCHANGED <<registry, outgoing, metadata, paused>>
AckSuccessBurnsAll(n) == LET s == SourceNft(packet[n]) IN
  /\ InFlight(n, {"success"})
  /\ owner[s] = Ics721
  /\ owner' = [owner EXCEPT ![s] = Nobody]
  /\ incoming' = [incoming EXCEPT ![s] = NoEnd]
  /\ metadata' = metadata \ {s}
  /\ Settle(n)
  /\ UNCHANGED <<registry, outgoing, paused>>

\* A voucher that went back over the channel it came in on is burnt; only
\* the owner, ICS721, can burn it.  Its OUTGOING entry stays.
AckSuccess(n) == LET s == SourceNft(packet[n]) IN
  /\ InFlight(n, {"success"})
  /\ s.class \in registry[s.chain]
  /\ IF incoming[s] = packet[n].src
     THEN /\ owner[s] = Ics721
          /\ owner' = [owner EXCEPT ![s] = Nobody]
          /\ incoming' = [incoming EXCEPT ![s] = NoEnd]
          /\ metadata' = metadata \ {s}
     ELSE UNCHANGED <<owner, incoming, metadata>>
  /\ Settle(n)
  /\ UNCHANGED <<registry, outgoing, paused>>

-------------------------------------------------------------------------------
(* Pausing stops sends and receipts; only a migration lifts it.              *)

Pause(c) ==
  /\ ~paused[c]
  /\ paused' = [paused EXCEPT ![c] = TRUE]
  /\ UNCHANGED <<owner, registry, outgoing, incoming, metadata, packet>>

Migrate(c) ==
  /\ paused' = [paused EXCEPT ![c] = FALSE]
  /\ UNCHANGED <<owner, registry, outgoing, incoming, metadata, packet>>

-------------------------------------------------------------------------------

HolderStep == \E s \in Nft :
  \/ \E u \in Users : TransferNft(s, u)
  \/ BurnNft(s)
  \/ \E e \in Ends, u \in Users, n \in Flights : ReceiveNft(s, e, u, n)

Arrive(n) == ReceivePacket(n) \/ RejectPacket(n) \/ TimeoutPacket(n)
Acknowledge(n) == AckSuccess(n) \/ AckError(n)

RelayerStep == \E n \in Flights : Arrive(n) \/ Acknowledge(n)

Next == \/ HolderStep
        \/ RelayerStep
        \/ \E c \in Chains : Pause(c) \/ Migrate(c)

Spec == Init /\ [][Next]_vars

\* A relayer serves every packet: it gets it to its destination or times it
\* out, and brings the acknowledgement back.  Nothing is assumed of holders,
\* pausers and migrations.
FairSpec == Spec /\ \A n \in Flights :
              WF_vars(Arrive(n)) /\ WF_vars(Acknowledge(n))

-------------------------------------------------------------------------------
(* Properties.                                                               *)

\* Packet n is the reason why ICS721 has NFT s: it is on its way out or has
\* to be refunded, or it went home and has to be burnt.
Claims(n, s) ==
  /\ packet[n] # NoPacket
  /\ SourceNft(packet[n]) = s
  /\ packet[n].status = "success" => Pops(packet[n].src, packet[n].class)

\* Voucher s is in circulation (or its holder burnt it): it was minted, and
\* has not gone home to leave nothing but the acknowledgement that burns it.
Outstanding(s) ==
  /\ incoming[s] # NoEnd
  /\ \A n \in Flights : Claims(n, s) => packet[n].status # "success"

\* The NFT that voucher s stands for, on the chain it came from.
Parent(s) == [chain |-> ChainOf[Peer[incoming[s]]],
              class |-> [path |-> Tail(s.class.path), base |-> s.class.base],
              token |-> s.token]

\* A voucher in circulation is backed: ICS721 on the chain it came from holds
\* what it stands for, recorded as gone out over this channel, and for no
\* other reason.  So bringing the voucher back redeems the original
\* (create_voucher_and_channel_messages finds the OUTGOING entry) and no
\* refund can release it earlier.
VoucherBacked == \A s \in Nft : Outstanding(s) =>
  /\ owner[Parent(s)] = Ics721
  /\ outgoing[Parent(s)] = Peer[incoming[s]]
  /\ \A n \in Flights : ~Claims(n, Parent(s))

\* ICS721 holds an NFT for exactly one reason, so it is neither stranded nor
\* promised twice: a packet in flight, or the one voucher in circulation that
\* stands for it (receive_nft, ibc_packet_receive, ibc_packet_ack and
\* handle_packet_fail, over all their interleavings on two chains).
Reasons(s) == {n \in Flights : Claims(n, s)}
                \cup {x \in Nft : Outstanding(x) /\ Parent(x) = s}
EscrowAccounted == \A s \in Nft :
  IF owner[s] = Ics721 THEN \E r \in Reasons(s) : Reasons(s) = {r}
                       ELSE Reasons(s) = {}

\* No acknowledgement or timeout can fail, however the packets, receipts and
\* acknowledgements of one NFT cross: the class resolves to a contract, and
\* ICS721 still owns what it has to send back or to burn.  (A failing
\* ibc_packet_ack or ibc_packet_timeout could never settle the packet.)
SettlementPossible == \A n \in Flights : packet[n] # NoPacket =>
  LET p == packet[n]
      s == SourceNft(p)
  IN /\ s.class \in registry[s.chain]
     /\ p.status \in {"sent", "error"} => owner[s] = Ics721
     /\ p.status = "success" /\ incoming[s] = p.src => owner[s] = Ics721

\* INCOMING and TOKEN_METADATA are written by two callbacks and removed by a
\* third handler, yet they always have the same keys, and everything a chain
\* did not mint itself is one of them, under the end its class id starts with.
VoucherRecorded == \A s \in Nft :
  /\ s \in metadata <=> incoming[s] # NoEnd
  /\ incoming[s] # NoEnd =>
       ChainOf[incoming[s]] = s.chain /\ Pops(incoming[s], s.class)
  /\ owner[s] # Nobody => IsOriginal(s) \/ incoming[s] # NoEnd

\* With a relayer, every packet is settled, whether or not the contracts at
\* its ends are paused by then.
PacketsSettle == \A n \in Flights : packet[n] # NoPacket ~> packet[n] = NoPacket

-------------------------------------------------------------------------------
(* The inductive invariant: what every transaction of every chain preserves. *)

PacketsFit == \A n \in Flights : packet[n] # NoPacket =>
  /\ LocalClass(packet[n].src, packet[n].class) \in Classes
  /\ packet[n].class \in registry[ChainOf[packet[n].src]]

ClaimsExclusive == \A s \in Nft : \A m, n \in Flights :
  Claims(m, s) /\ Claims(n, s) => m = n

ClaimsHeld == \A s \in Nft : \A n \in Flights : Claims(n, s) =>
  /\ owner[s] = Ics721
  /\ packet[n].status # "success" => outgoing[s] = packet[n].src

EscrowJustified == \A s \in Nft : owner[s] = Ics721 =>
  /\ s.class \in registry[s.chain]
  /\ \/ \E n \in Flights : Claims(n, s)
     \/ \E x \in Nft : Outstanding(x) /\ Parent(x) = s

\* Every voucher in circulation is recorded and backed, and every packet has
\* what it may have to give back or to burn: what also holds where an admin
\* cleans up with care (Ics721Admin).
BackingInv == /\ TypeOK
              /\ PacketsFit
              /\ ClaimsExclusive
              /\ ClaimsHeld
              /\ VoucherRecorded
              /\ VoucherBacked

\* Every escrow has its reason too, on this chain or on the far side of a
\* channel, through every transaction of ICS721 on every chain (all the
\* handlers above).
EscrowInv == BackingInv /\ EscrowJustified

-------------------------------------------------------------------------------
(* The ledger the protocol implements.                                       *)

\* The chain a class of a chain comes from: back over the ends of its path.
OriginChain[path \in Paths] == [c \in Chains |->
  LET via == {e \in Ends : ChainOf[e] = c /\ Prefix[e] = Head(path)}
  IN IF path = << >> \/ via = {} THEN c
     ELSE OriginChain[Tail(path)][ChainOf[Peer[CHOOSE e \in via : TRUE]]]]

StandsFor(s, x) == /\ s.class.base = x.class.base /\ s.token = x.token
                   /\ OriginChain[s.class.path][s.chain] = x.chain

HeldCopies(x) == {s \in Nft : owner[s] \in Users /\ StandsFor(s, x)}
CopiesInTransit(x) == {n \in Flights : /\ InFlight(n, {"sent", "error"})
                                       /\ StandsFor(SourceNft(packet[n]), x)}

At(c, u) == [state |-> "held", chain |-> c, user |-> u]
Route(p) == [state |-> "transit",
             from |-> At(ChainOf[p.src], p.sender),
             to |-> At(ChainOf[Peer[p.src]], p.receiver)]

\* Where original x is; two copies of it are no place the ledger knows.
Place(x) ==
  LET held == HeldCopies(x)
      transit == CopiesInTransit(x)
  IN CASE Cardinality(held) + Cardinality(transit) > 1 -> [state |-> "duplicated"]
       [] held # {} -> LET s == CHOOSE s \in held : TRUE IN At(s.chain, owner[s])
       [] transit # {} -> Route(packet[CHOOSE n \in transit : TRUE])
       [] OTHER -> [state |-> "burnt"]

places == [x \in Originals |-> Place(x)]

Ledger == INSTANCE NftLedger WITH
  Nfts <- Originals,
  Origin <- [x \in Originals |-> x.chain],
  place <- places

\* An NFT is in one place at a time, and every transaction of the protocol
\* moves it the way the ledger allows or leaves it where it is.
LedgerSpec == Ledger!Spec
===============================================================================
