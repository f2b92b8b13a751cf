----------------------------- MODULE Ics721Settle -----------------------------
(***************************************************************************)
(* The settlement of a packet on the chain that sent it, message by        *)
(* message.                                                                *)
(*                                                                         *)
(* An acknowledgement or a timeout is one transaction: the handler updates *)
(* ICS721's maps and answers with a message to the collection (Burn or     *)
(* TransferNft) and one to the ack callback.  If the first fails, the      *)
(* transaction reverts and the packet stays unsettled.  The second is a    *)
(* submessage with reply_on_error: if it fails, what it did is rolled back *)
(* to a savepoint and the transaction goes on.  The callback is any        *)
(* contract: before it returns or fails it may give NFTs away, send them   *)
(* out again or pause ICS721.                                              *)
(*                                                                         *)
(* The other chains run ICS721 too.  An NFT is one token of one class.     *)
(***************************************************************************)
EXTENDS Naturals, FiniteSets

CONSTANTS
  Users, Nfts, Ends,
  Via,       \* Via[s]: the end voucher s comes in over, or NoEnd for an NFT
             \* of this chain
  Flights,   \* bound: identities of packets not yet settled
  MaxMoves,  \* bound: what one callback does before it returns or fails
  Ics721, Nobody, NoEnd, NoPacket

\* What the memo of a packet asks for: no ack callback (no memo, one that
\* does not parse, or one without ack_callback_data), the sender, an invalid
\* address, or a contract.
Memos == {"none", "sender", "invalid"} \cup Users

Packet == [nft : Nfts, end : Ends, sender : Users, memo : Memos,
           status : {"sent", "success", "error"}]

ASSUME SettleAssumption ==
  /\ Via \in [Nfts -> Ends \cup {NoEnd}]
  /\ MaxMoves \in Nat
  /\ Ics721 \notin Users /\ Nobody \notin Users /\ Ics721 # Nobody
  /\ NoEnd \notin Ends /\ NoPacket \notin Packet
  /\ Users \cap {"none", "sender", "invalid"} = {}

VARIABLES
  store,    \* the chain's state, as far as the transaction has changed it
  saved,    \* the chain's state when the transaction started
  inner,    \* the chain's state when the callback was called
  current,  \* the packet being settled, or NoPacket between transactions
  step,     \* what runs next in the settlement
  moves,    \* how often the callback has acted
  away      \* away[s]: the end over which s can come in, or NoEnd

vars == <<store, saved, inner, current, step, moves, away>>

Stores == [owner : [Nfts -> Users \cup {Ics721, Nobody}],
           outgoing : [Nfts -> Ends \cup {NoEnd}],
           incoming : [Nfts -> Ends \cup {NoEnd}],
           metadata : SUBSET Nfts,
           packet : [Flights -> Packet \cup {NoPacket}],
           paused : BOOLEAN]

\* The savepoint of a callback is one of a running settlement.
TypeOK ==
  /\ {store, saved, inner} \subseteq Stores
  /\ current \in Packet \cup {NoPacket}
  /\ step \in {"idle", "Burn", "TransferNft", "notify", "callback"}
  /\ moves \in 0..MaxMoves
  /\ away \in [Nfts -> Ends \cup {NoEnd}]
  /\ step = "idle" <=> current = NoPacket
  /\ step = "idle" => saved = store
  /\ step # "callback" => inner = saved /\ moves = 0

Init ==
  /\ \E holder \in [Nfts -> Users] :
       store = [owner |-> [s \in Nfts |-> IF Via[s] = NoEnd THEN holder[s] ELSE Nobody],
                outgoing |-> [s \in Nfts |-> NoEnd],
                incoming |-> [s \in Nfts |-> NoEnd],
                metadata |-> {},
                packet |-> [n \in Flights |-> NoPacket],
                paused |-> FALSE]
  /\ saved = store /\ inner = store
  /\ current = NoPacket /\ step = "idle" /\ moves = 0
  /\ away = Via

-------------------------------------------------------------------------------
(* Transactions of one step.                                                 *)

Commit(st) == /\ step = "idle"
              /\ store' = st /\ saved' = st /\ inner' = st
              /\ UNCHANGED <<current, step, moves>>

Own(st, s, u) == [st EXCEPT !.owner[s] = u]

MaySend(st, s, n) ==
  st.owner[s] \in Users /\ ~st.paused /\ st.packet[n] = NoPacket

\* Mistakes: the packet leaves before ICS721 has the NFT; its channel is not
\* recorded.
EscrowNotHeld(st, s, e, memo, n) ==
  [st EXCEPT !.outgoing[s] = e,
             !.packet[n] = [nft |-> s, end |-> e, sender |-> st.owner[s],
                            memo |-> memo, status |-> "sent"]]
EscrowUnrecorded(st, s, e, memo, n) ==
  [st EXCEPT !.owner[s] = Ics721,
             !.packet[n] = [nft |-> s, end |-> e, sender |-> st.owner[s],
                            memo |-> memo, status |-> "sent"]]

\* cw721's SendNft and receive_nft, which it calls.
Escrow(st, s, e, memo, n) ==
  [st EXCEPT !.owner[s] = Ics721, !.outgoing[s] = e,
             !.packet[n] = [nft |-> s, end |-> e, sender |-> st.owner[s],
                            memo |-> memo, status |-> "sent"]]

HolderSends(s, e, memo, n) == /\ MaySend(store, s, n)
                              /\ Commit(Escrow(store, s, e, memo, n))
                              /\ UNCHANGED away

HolderTransfers(s, u) == /\ store.owner[s] \in Users
                         /\ Commit(Own(store, s, u))
                         /\ UNCHANGED away

\* The other chain answers a packet.  What it has now can come back.
Answer(n, status) ==
  /\ store.packet[n] # NoPacket /\ store.packet[n].status = "sent"
  /\ Commit([store EXCEPT !.packet[n].status = status])
  /\ away' = IF status = "success"
             THEN [away EXCEPT ![store.packet[n].nft] = store.packet[n].end]
             ELSE away

\* An NFT comes in from the other chain: what left over this channel is
\* redeemed, a voucher is minted.
Receive(s, u) ==
  /\ away[s] # NoEnd /\ ~store.paused
  /\ IF Via[s] # away[s]
     THEN /\ store.outgoing[s] = away[s]
          /\ store.owner[s] = Ics721
          /\ Commit([Own(store, s, u) EXCEPT !.outgoing[s] = NoEnd])
     ELSE /\ store.owner[s] = Nobody
          /\ Commit([Own(store, s, u) EXCEPT !.incoming[s] = away[s],
                                             !.metadata = @ \cup {s}])
  /\ away' = [away EXCEPT ![s] = NoEnd]

\* Only a migration lifts a pause.
Migrate == /\ Commit([store EXCEPT !.paused = FALSE])
           /\ UNCHANGED away

-------------------------------------------------------------------------------
(* The handlers.  IBC drops the commitment of the packet, the handler        *)
(* updates the maps, and step is the first message of its response.          *)

Handler(n, st, message) ==
  /\ store' = [st EXCEPT !.packet[n] = NoPacket]
  /\ current' = store.packet[n]
  /\ step' = message
  /\ UNCHANGED <<saved, inner, moves, away>>

\* Mistake: the voucher is burnt whatever channel it went out on.
AckSuccessBurnsVouchers(n) ==
  /\ step = "idle" /\ store.packet[n] # NoPacket
  /\ store.packet[n].status = "success"
  /\ LET s == store.packet[n].nft IN
     IF store.incoming[s] # NoEnd
     THEN Handler(n, [store EXCEPT !.incoming[s] = NoEnd, !.metadata = @ \ {s}], "Burn")
     ELSE Handler(n, store, "notify")

\* ibc_packet_ack: a voucher that came in over the channel of the packet is
\* home again.
AckSuccess(n) ==
  /\ step = "idle" /\ store.packet[n] # NoPacket
  /\ store.packet[n].status = "success"
  /\ LET s == store.packet[n].nft IN
     IF store.incoming[s] = store.packet[n].end
     THEN Handler(n, [store EXCEPT !.incoming[s] = NoEnd, !.metadata = @ \ {s}], "Burn")
     ELSE Handler(n, store, "notify")

\* Mistake: the sender is told, and the NFT is not given back.
HandlePacketFailCallbackOnly(n) ==
  /\ step = "idle" /\ store.packet[n] # NoPacket
  /\ store.packet[n].status # "success"
  /\ Handler(n, [store EXCEPT !.outgoing[store.packet[n].nft] = NoEnd], "notify")

\* An error acknowledgement, or the timeout of a packet that was not received.
HandlePacketFail(n) ==
  /\ step = "idle" /\ store.packet[n] # NoPacket
  /\ store.packet[n].status # "success"
  /\ Handler(n, [store EXCEPT !.outgoing[store.packet[n].nft] = NoEnd], "TransferNft")

\* The message to the collection.  Only ICS721, as the owner, may send it.
VoucherMessage(message, u) ==
  /\ step = message
  /\ store.owner[current.nft] = Ics721
  /\ store' = Own(store, current.nft, u)
  /\ step' = "notify"
  /\ UNCHANGED <<saved, inner, current, moves, away>>

Burn == VoucherMessage("Burn", Nobody)
TransferNft == VoucherMessage("TransferNft", current.sender)

-------------------------------------------------------------------------------
(* The ack callback.                                                         *)

\* ack_callback_msg: whom the memo asks to notify.
AckCallback(p) == CASE p.memo \in {"none", "invalid"} -> Nobody
                    [] p.memo = "sender" -> p.sender
                    [] OTHER -> p.memo

\* The transaction ends with the chain in state st.
EndSettlement(st) == /\ store' = st /\ saved' = st /\ inner' = st
                     /\ current' = NoPacket /\ step' = "idle" /\ moves' = 0
                     /\ UNCHANGED away

NoCallback == /\ step = "notify" /\ AckCallback(current) = Nobody
              /\ EndSettlement(store)

CallCallback == /\ step = "notify" /\ AckCallback(current) # Nobody
                /\ step' = "callback"
                /\ inner' = store
                /\ UNCHANGED <<store, saved, current, moves, away>>

CallbackDoes(st) == /\ step = "callback" /\ moves < MaxMoves
                    /\ store' = st
                    /\ moves' = moves + 1
                    /\ UNCHANGED <<saved, inner, current, step, away>>

CallbackGives(s, u) == /\ step = "callback"
                       /\ store.owner[s] = AckCallback(current)
                       /\ CallbackDoes(Own(store, s, u))

CallbackSends(s, e, memo, n) == /\ step = "callback"
                                /\ store.owner[s] = AckCallback(current)
                                /\ MaySend(store, s, n)
                                /\ CallbackDoes(Escrow(store, s, e, memo, n))

CallbackPauses == ~store.paused /\ CallbackDoes([store EXCEPT !.paused = TRUE])

CallbackReturns == step = "callback" /\ EndSettlement(store)

\* Mistake: a failing callback fails the transaction.
CallbackFailsAll == step = "callback" /\ EndSettlement(saved)

\* reply (ACK_CALLBACK_REPLY_ID) swallows the error: the callback's changes
\* are rolled back, the settlement stands.
CallbackFails == step = "callback" /\ EndSettlement(inner)

-------------------------------------------------------------------------------

Callback == \/ CallCallback \/ CallbackPauses \/ CallbackReturns \/ CallbackFails
            \/ \E s \in Nfts : \/ \E u \in Users : CallbackGives(s, u)
                              \/ \E e \in Ends, memo \in Memos, n \in Flights :
                                   CallbackSends(s, e, memo, n)

Settlement == \/ \E n \in Flights : AckSuccess(n) \/ HandlePacketFail(n)
              \/ Burn \/ TransferNft \/ NoCallback
              \/ Callback

OtherTransaction ==
  \/ \E s \in Nfts : \/ \E u \in Users : HolderTransfers(s, u) \/ Receive(s, u)
                    \/ \E e \in Ends, memo \in Memos, n \in Flights :
                         HolderSends(s, e, memo, n)
  \/ \E n \in Flights, status \in {"success", "error"} : Answer(n, status)
  \/ Migrate

Next == Settlement \/ OtherTransaction

Spec == Init /\ [][Next]_vars

\* A transaction runs to its end: no contract runs for ever.  A relayer offers
\* the acknowledgement or the timeout of a packet until it is settled.
Proceed == Burn \/ TransferNft \/ NoCallback \/ CallCallback
             \/ CallbackReturns \/ CallbackFails
FairSpec == /\ Spec /\ WF_vars(Proceed)
            /\ \A n \in Flights : SF_vars(AckSuccess(n) \/ HandlePacketFail(n))

-------------------------------------------------------------------------------
(* Properties.                                                               *)

\* What reverts a settlement: a message to the collection that ICS721 may not
\* send.
Reverts == step \in {"Burn", "TransferNft"} /\ store.owner[current.nft] # Ics721

\* Whatever earlier callbacks did, and whatever the memo says, no settlement
\* reverts: what handle_packet_fail gives back and ibc_packet_ack burns is
\* ICS721's.  (So Next has no step for it.)
NeverReverts == ~Reverts

\* "We don't want to fail the whole tx if the callback fails ... the NFT would
\* have been minted on the other chain while the NFT on this chain would not
\* have been burned" (ack_callback_msg): every answered packet is settled in
\* the end, even if its callback fails each time.
Answered(n) == saved.packet[n] # NoPacket /\ saved.packet[n].status # "sent"
AnswersSettle == \A n \in Flights : Answered(n) ~> ~Answered(n)

\* "Transfer failed and contract still owns the NFT" (Ics721AckCallbackMsg):
\* when the callback of a failed transfer is called, its sender has the NFT.
FailureSeesRefund ==
  step = "callback" /\ moves = 0 /\ current.status # "success" =>
    store.owner[current.nft] = current.sender

\* What the other chains can send back is redeemed or minted when it comes:
\* the original is in escrow under the channel it comes back on
\* (OUTGOING_CLASS_TOKEN_TO_CHANNEL), and a voucher that is out on its own
\* channel is gone or waits to be burnt.  So also after callbacks that sent
\* NFTs out in the middle of a settlement.
ReturnsWork == step = "idle" => \A s \in Nfts : away[s] # NoEnd =>
  IF Via[s] # away[s]
  THEN store.owner[s] = Ics721 /\ store.outgoing[s] = away[s]
  ELSE \/ store.owner[s] = Nobody
       \/ \E n \in Flights : /\ store.packet[n] # NoPacket
                             /\ store.packet[n].nft = s
                             /\ store.packet[n].status = "success"
                             /\ store.incoming[s] = store.packet[n].end

\* The settlement, message by message and with any callback in its middle,
\* is the one-step settlement: "Failing this message will NOT fail the
\* transfer" (ReceiverExecuteMsg), nor undo the burn or the refund.
Atomic == INSTANCE AtomicSettlement WITH
  owner <- saved.owner, packet <- saved.packet
SettlementSpec == Atomic!Spec
===============================================================================
