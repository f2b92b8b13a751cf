---------------------------- MODULE Ics721Receive ----------------------------
(***************************************************************************)
(* The receipt of a packet on one chain, message by message.               *)
(*                                                                         *)
(* receive_ibc_packet emits one submessage, the Conjunction of two to four *)
(* operands: the incoming proxy, the creation or redemption of the         *)
(* vouchers, the receive callback and the update of the channel entries.   *)
(* Each operand is a message of its own, handled with every message it     *)
(* emits in turn before the next operand starts, and each one can fail: a  *)
(* failure anywhere rolls the submessage back, and reply turns the result  *)
(* into the acknowledgement.  The callback is any contract, and may call   *)
(* back into cw721 and ICS721 while the receipt is half done.              *)
(*                                                                         *)
(* A class here is a class id of this chain.  The counterparty chain may   *)
(* put any tokens in its packets.                                          *)
(***************************************************************************)
EXTENDS Naturals, Sequences, FiniteSets, SequencesExt

CONSTANTS
  Users, Tokens, Ends,
  Classes,
  Via,        \* Via[k]: the end voucher class k comes in over, or NoEnd for
              \* a collection of this chain
  Moves,      \* what a callback contract does, when it does not fail
  MaxTokens,  \* bound: tokens of one packet
  MaxSent,    \* bound: packets of this chain not yet settled
  Ics721, Nobody, NoEnd, NoPacket

Nft == Classes \X Tokens
Packet == [end : Ends, class : Classes, popped : BOOLEAN,
           tokens : UNION {[1..n -> Tokens] : n \in 1..MaxTokens},
           receiver : Users, callback : Users \cup {Nobody}]

ASSUME ReceiveAssumption ==
  /\ Via \in [Classes -> Ends \cup {NoEnd}]
  /\ Moves \subseteq {"keep", "give", "resend", "pause"}
  /\ Ics721 \notin Users /\ Nobody \notin Users /\ Ics721 # Nobody
  /\ NoEnd \notin Ends /\ NoPacket \notin Packet

VARIABLES
  store,    \* the chain's state, as far as the transaction has changed it
  saved,    \* the chain's state when the transaction started
  current,  \* the packet being received, or NoPacket between transactions
  todo,     \* the messages still to be handled, the next one first
  acked     \* the last packet's channel end and its acknowledgement

vars == <<store, saved, current, todo, acked>>

Stores == [owner : [Nft -> Users \cup {Ics721, Nobody}],
           registry : SUBSET Classes,
           outgoing : [Nft -> Ends \cup {NoEnd}],
           incoming : [Nft -> Ends \cup {NoEnd}],
           metadata : SUBSET Nft,
           sent : SUBSET [nft : Nft, end : Ends, sender : Users],
           proxy : BOOLEAN, paused : BOOLEAN]

\* A message is the name of a call with what it is about.  ICS721 calls
\* itself with the first kind, other contracts with the second, and is
\* called by cw721 with the third.
OwnCalls == {"Conjunction", "RedeemVouchers", "CreateVouchers", "Mint",
             "RedeemOutgoingChannelEntries", "AddIncomingChannelEntries"}
Messages == {<<c>> : c \in OwnCalls \cup {"Proxy", "Instantiate", "Callback", "Pause"}}
              \cup ({"TransferNft", "MintNft", "GiveNft"} \X Nft)
              \cup ({"SendNft", "ReceiveNft"} \X Nft \X Ends)

\* Between receipts nothing is left to do, and nothing can be rolled back.
TypeOK ==
  /\ store \in Stores /\ saved \in Stores
  /\ current \in Packet \cup {NoPacket}
  /\ \A i \in DOMAIN todo : todo[i] \in Messages
  /\ acked \in (Ends \cup {NoEnd}) \X {"none", "success", "error"}
  /\ current = NoPacket => todo = << >> /\ saved = store

Init ==
  /\ \E holder \in [Tokens -> Users] :
       store = [owner |-> [s \in Nft |-> IF Via[s[1]] = NoEnd THEN holder[s[2]]
                                         ELSE Nobody],
                registry |-> {}, metadata |-> {}, sent |-> {},
                outgoing |-> [s \in Nft |-> NoEnd],
                incoming |-> [s \in Nft |-> NoEnd],
                proxy |-> FALSE, paused |-> FALSE]
  /\ saved = store
  /\ current = NoPacket
  /\ todo = << >>
  /\ acked = <<NoEnd, "none">>

-------------------------------------------------------------------------------
(* Transactions of one step: sends, settlements and the contract's admin.    *)

Commit(st) == /\ current = NoPacket
              /\ store' = st
              /\ saved' = st
              /\ UNCHANGED <<current, todo, acked>>

Own(st, s, u) == [st EXCEPT !.owner[s] = u]

\* receive_nft: the channel is recorded and the packet sent once ICS721 owns
\* the NFT.
Escrow(st, s, e, sender) ==
  [st EXCEPT !.registry = @ \cup {s[1]}, !.outgoing[s] = e,
             !.sent = @ \cup {[nft |-> s, end |-> e, sender |-> sender]}]
MaySend(st) == ~st.paused /\ Cardinality(st.sent) < MaxSent

HolderTransfers(s, u) ==
  store.owner[s] \in Users /\ Commit(Own(store, s, u))

HolderSends(s, e) ==
  /\ store.owner[s] \in Users
  /\ MaySend(store)
  /\ Commit(Escrow(Own(store, s, Ics721), s, e, store.owner[s]))

HandlePacketFail(f) ==
  /\ f \in store.sent
  /\ store.owner[f.nft] = Ics721
  /\ Commit([store EXCEPT !.owner[f.nft] = f.sender, !.outgoing[f.nft] = NoEnd,
                          !.sent = @ \ {f}])

AckSuccess(f) ==
  /\ f \in store.sent
  /\ IF store.incoming[f.nft] = f.end
     THEN /\ store.owner[f.nft] = Ics721
          /\ Commit([store EXCEPT !.owner[f.nft] = Nobody, !.sent = @ \ {f},
                                  !.incoming[f.nft] = NoEnd,
                                  !.metadata = @ \ {f.nft}])
     ELSE Commit([store EXCEPT !.sent = @ \ {f}])

PauseContract == ~store.paused /\ Commit([store EXCEPT !.paused = TRUE])

Migrate(proxy) == Commit([store EXCEPT !.paused = FALSE, !.proxy = proxy])

-------------------------------------------------------------------------------
(* The start of a receipt.                                                   *)

NftsOf(p) == {<<p.class, t>> : t \in ToSet(p.tokens)}

\* A class that does not pop gets the local end in front of it.
Localized(p) == ~p.popped => Via[p.class] = p.end

\* Assumed of the counterparty: it gives the name of a collection at home here
\* only to one that this chain has sent out.  No line of the receipt checks it.
KnowsOurCollections(p) ==
  p.popped /\ Via[p.class] = NoEnd => p.class \in store.registry

\* Mistake: what left over any channel is redeemed.
ReturnsFromAnyChannel(p, s) == p.popped /\ store.outgoing[s] # NoEnd

\* A token is redeemed, not created, if it left over this very channel.
ReturningToSource(p, s) == p.popped /\ store.outgoing[s] = p.end

Redeems(p) == \A s \in NftsOf(p) : ReturningToSource(p, s)
Creates(p) == \A s \in NftsOf(p) : ~ReturningToSource(p, s)

If(c, call) == IF c THEN << <<call>> >> ELSE << >>

\* Mistakes: the callback runs before the vouchers; the update of the channel
\* entries is left out.
OperandsCallbackFirst(p) ==
  If(store.proxy, "Proxy")
    \o If(p.callback # Nobody, "Callback")
    \o If(Redeems(p), "RedeemVouchers") \o If(Creates(p), "CreateVouchers")
    \o If(Redeems(p), "RedeemOutgoingChannelEntries")
    \o If(Creates(p), "AddIncomingChannelEntries")
OperandsNoChannel(p) ==
  If(store.proxy, "Proxy")
    \o If(Redeems(p), "RedeemVouchers") \o If(Creates(p), "CreateVouchers")
    \o If(p.callback # Nobody, "Callback")

Operands(p) ==
  If(store.proxy, "Proxy")
    \o If(Redeems(p), "RedeemVouchers") \o If(Creates(p), "CreateVouchers")
    \o If(p.callback # Nobody, "Callback")
    \o If(Redeems(p), "RedeemOutgoingChannelEntries")
    \o If(Creates(p), "AddIncomingChannelEntries")

\* The messages are made here, from this state; the Conjunction carries them.
ReceiveIbcPacket(p) ==
  /\ current = NoPacket
  /\ Localized(p) /\ KnowsOurCollections(p)
  /\ ~store.paused
  /\ Redeems(p) \/ Creates(p)      \* else InvalidTransferBothActions
  /\ current' = p
  /\ todo' = << <<"Conjunction">> >> \o Operands(p)
  /\ UNCHANGED <<store, saved, acked>>

\* The packet is refused before a message is sent.
RefusePacket(p) ==
  /\ current = NoPacket
  /\ Localized(p) /\ KnowsOurCollections(p)
  /\ store.paused \/ ~(Redeems(p) \/ Creates(p))
  /\ acked' = <<p.end, "error">>
  /\ UNCHANGED <<store, saved, current, todo>>

-------------------------------------------------------------------------------
(* One step per message: it changes the store and emits messages that are    *)
(* handled before the others, or it fails.                                   *)

\* ICS721 refuses its own calls too while it is paused.  The registry is read
\* anew by each callback.  cw721 lets ICS721 transfer what it owns and mint
\* vouchers, no token twice; the callback contract uses what it owns.
Fails(m) ==
  \/ store.paused /\ m[1] \in OwnCalls \cup {"ReceiveNft", "Pause"}
  \/ m[1] \in {"RedeemVouchers", "Instantiate", "Mint"}
       /\ current.class \notin store.registry
  \/ m[1] = "TransferNft" /\ store.owner[m[2]] # Ics721
  \/ m[1] = "MintNft" /\ (Via[m[2][1]] = NoEnd \/ store.owner[m[2]] # Nobody)
  \/ m[1] \in {"GiveNft", "SendNft"} /\ store.owner[m[2]] # current.callback
  \/ m[1] = "ReceiveNft" /\ ~MaySend(store)

\* Message m, which is next, succeeds: it makes the store st.
Handle(m, st, emitted) ==
  /\ todo # << >> /\ Head(todo) = m
  /\ ~Fails(m)
  /\ store' = st
  /\ todo' = emitted \o Tail(todo)
  /\ UNCHANGED <<saved, current, acked>>

EachToken(call) == [i \in DOMAIN current.tokens |->
                      <<call, <<current.class, current.tokens[i]>> >>]

Conjunction == Handle(<<"Conjunction">>, store, << >>)
Proxy == Handle(<<"Proxy">>, store, << >>)

RedeemVouchers == Handle(<<"RedeemVouchers">>, store, EachToken("TransferNft"))

TransferNft(s) ==
  Handle(<<"TransferNft", s>>, Own(store, s, current.receiver), << >>)

\* A new collection is registered before it exists.
CreateVouchers ==
  Handle(<<"CreateVouchers">>,
         [store EXCEPT !.registry = @ \cup {current.class}],
         If(current.class \notin store.registry, "Instantiate") \o << <<"Mint">> >>)

\* Its instantiation, with the reply that looks the new address up.
Instantiate == Handle(<<"Instantiate">>, store, << >>)

Mint == Handle(<<"Mint">>, [store EXCEPT !.metadata = @ \cup NftsOf(current)],
               EachToken("MintNft"))

MintNft(s) == Handle(<<"MintNft", s>>, Own(store, s, current.receiver), << >>)

RedeemOutgoingChannelEntries ==
  Handle(<<"RedeemOutgoingChannelEntries">>,
         [store EXCEPT !.outgoing =
            [s \in Nft |-> IF s \in NftsOf(current) THEN NoEnd ELSE @[s]]], << >>)

AddIncomingChannelEntries ==
  Handle(<<"AddIncomingChannelEntries">>,
         [store EXCEPT !.incoming =
            [s \in Nft |-> IF s \in NftsOf(current) THEN current.end ELSE @[s]]], << >>)

\* The callback is any contract: it accepts, pauses ICS721 if it is its
\* pauser, or uses an NFT of the packet.
Callback ==
  \/ "keep" \in Moves /\ Handle(<<"Callback">>, store, << >>)
  \/ "pause" \in Moves /\ Handle(<<"Callback">>, store, << <<"Pause">> >>)
  \/ \E s \in NftsOf(current) :
       \/ "give" \in Moves /\ Handle(<<"Callback">>, store, << <<"GiveNft", s>> >>)
       \/ "resend" \in Moves /\ \E e \in Ends :
            Handle(<<"Callback">>, store, << <<"SendNft", s, e>> >>)

Pause == Handle(<<"Pause">>, [store EXCEPT !.paused = TRUE], << >>)

GiveNft(s, u) == Handle(<<"GiveNft", s>>, Own(store, s, u), << >>)

SendNft(s, e) == Handle(<<"SendNft", s, e>>, Own(store, s, Ics721),
                        << <<"ReceiveNft", s, e>> >>)

ReceiveNft(s, e) == Handle(<<"ReceiveNft", s, e>>,
                           Escrow(store, s, e, current.callback), << >>)

-------------------------------------------------------------------------------
(* The end of a receipt: reply turns the result into the acknowledgement.    *)

EndReceipt(st, ack) == /\ current' = NoPacket
                       /\ todo' = << >>
                       /\ store' = st
                       /\ saved' = st
                       /\ acked' = <<current.end, ack>>

ReplySuccess ==
  /\ current # NoPacket /\ todo = << >>
  /\ EndReceipt(store, "success")

MayFail == todo # << >> /\ (Fails(Head(todo))
                              \/ Head(todo)[1] \in {"Proxy", "Instantiate", "Callback"})

\* A message fails, or a contract it calls refuses: the submessage is rolled
\* back.
ReplyError == MayFail /\ EndReceipt(saved, "error")

-------------------------------------------------------------------------------

HandleMessage == current # NoPacket /\
  (\/ Conjunction \/ Proxy \/ RedeemVouchers \/ CreateVouchers \/ Instantiate
   \/ Mint \/ RedeemOutgoingChannelEntries \/ AddIncomingChannelEntries
   \/ Callback \/ Pause
   \/ \E s \in Nft : \/ TransferNft(s) \/ MintNft(s)
                     \/ \E u \in Users : GiveNft(s, u)
                     \/ \E e \in Ends : SendNft(s, e) \/ ReceiveNft(s, e))

Receipt == \/ \E p \in Packet : ReceiveIbcPacket(p) \/ RefusePacket(p)
           \/ HandleMessage
           \/ ReplySuccess \/ ReplyError

OtherTransaction ==
  \/ \E s \in Nft : \/ \E u \in Users \cup {Nobody} : HolderTransfers(s, u)
                    \/ \E e \in Ends : HolderSends(s, e)
  \/ \E f \in store.sent : HandlePacketFail(f) \/ AckSuccess(f)
  \/ PauseContract
  \/ \E proxy \in BOOLEAN : Migrate(proxy)

Next == Receipt \/ OtherTransaction

Spec == Init /\ [][Next]_vars

-------------------------------------------------------------------------------
(* Properties.                                                               *)

\* However far a receipt got and whatever its callback did, the packet is
\* received as a whole or not at all: the messages of into_submessage and
\* reply implement the one-step receipt.
Atomic == INSTANCE AtomicReceipt WITH
  Nfts <- Nft, owner <- saved.owner, channel <- saved.outgoing
ReceiptSpec == Atomic!Spec

\* "Receiving this message means that the NFT was successfully transferred"
\* (Ics721ReceiveCallbackMsg): when the callback runs, all NFTs of the packet
\* are the receiver's, in a collection it can look up.
CallbackSeesDelivery ==
  todo # << >> /\ Head(todo) = <<"Callback">> =>
    /\ current.class \in store.registry
    /\ \A s \in NftsOf(current) : store.owner[s] = current.receiver

\* The registry, TOKEN_METADATA and INCOMING are written by three messages
\* with other contracts' code between them; after every transaction they
\* agree, no voucher exists without them, and the assertion of
\* query_token_metadata ("token_metadata != None => token_contract != None")
\* cannot fail.
VouchersRecorded == current = NoPacket => \A s \in Nft :
  /\ s \in store.metadata <=> store.incoming[s] # NoEnd
  /\ s \in store.metadata => s[1] \in store.registry
  /\ store.owner[s] # Nobody => Via[s[1]] = NoEnd \/ store.incoming[s] # NoEnd

\* OUTGOING_CLASS_TOKEN_TO_CHANNEL holds "the local channel that NFTs have
\* been sent out on": after every transaction, an NFT that ICS721 holds has its
\* entry, without which it cannot be redeemed.
EscrowHasChannel == current = NoPacket => \A s \in Nft :
  store.owner[s] = Ics721 => store.outgoing[s] # NoEnd
===============================================================================
