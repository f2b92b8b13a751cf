--------------------------- MODULE TesterCallbacks ---------------------------
(***************************************************************************)
(* An NFT between two testers, each with an ICS721 contract on its chain.  *)
(*                                                                         *)
(* ics721-base-tester is the one contract of the repository that uses the  *)
(* callbacks of ICS721: it sends NFTs with a memo that asks for them, and  *)
(* on each call it asks the collection who owns the NFT and keeps the      *)
(* answer, for the end-to-end tests to compare.  Anybody can call it, and  *)
(* anybody's memo can name it: an NFT of one account may have its          *)
(* callbacks at another.                                                   *)
(*                                                                         *)
(* The NFT is at home on chain 1, chain 2 has its voucher.  ICS721 runs a  *)
(* receipt as one transaction, with its callback after the NFT is handed   *)
(* out; a callback after an acknowledgement runs once the NFT is refunded  *)
(* or burned, and may fail by itself.  A transaction is atomic here:       *)
(* Ics721Receive and Ics721Settle model its messages one by one.           *)
(***************************************************************************)
EXTENDS Naturals

CONSTANTS
  MaxPackets,      \* bound: packets ever sent
  ReceiveMemos,    \* bound: what memos ask for at the receipt
  AckMemos         \* bound: what memos ask for at the settlement

VARIABLES
  owner,      \* owner[c]: in c's collection, an account, "ics721" or Nobody
  packets,    \* packets that are not settled
  sent,       \* number of packets sent
  received,   \* received[c]: RECEIVED_CALLBACK, the owner seen, or NotCalled
  notified,   \* notified[c]: SENT_CALLBACK, the owner seen, or NotCalled
  contract,   \* contract[c]: NFT_CONTRACT, whether a callback has named it
  cw721       \* cw721[c]: CW721_RECEIVE, whether cw721 has called the tester

vars == <<owner, packets, sent, received, notified, contract, cw721>>
records == <<received, notified, contract, cw721>>

Chains == {1, 2}
Other(c) == 3 - c
Accounts == {"tester", "user"}  \* of each chain; a user is no contract
Nobody == "nobody"              \* OwnerOf fails: there is no such NFT
NotCalled == "not called"

\* Ics721Callbacks, the data that a memo has for the tester; "none" asks for no
\* callback.
Callbacks == {"NftSent", "NftReceived", "FailCallback", "none"}

\* One callback of a memo, and the address that is to get it.
Unset == "unset"
Invalid == "invalid"            \* a text that is no address
Memos == [data : Callbacks, addr : Accounts \cup {Unset, Invalid}]

ASSUME TesterAssumption ==
  MaxPackets \in Nat /\ ReceiveMemos \subseteq Memos /\ AckMemos \subseteq Memos

Init ==
  /\ owner = [c \in Chains |-> IF c = 1 THEN "user" ELSE Nobody]
  /\ packets = {} /\ sent = 0
  /\ received = [c \in Chains |-> NotCalled]
  /\ notified = [c \in Chains |-> NotCalled]
  /\ contract = [c \in Chains |-> FALSE]
  /\ cw721 = [c \in Chains |-> FALSE]

-------------------------------------------------------------------------------
(* The tester's callbacks: what they accept, and what they keep.             *)

\* nft_sent and nft_received begin with it.
SenderIsIcs721(sender) == sender = "ics721"

\* handle_receive_callback returns Ok: not for NftSent, not for FailCallback.
ReceiveCallbackOk(sender, data) == SenderIsIcs721(sender) /\ data = "NftReceived"

\* handle_ack_callback returns Ok.
AckCallbackOk(sender, data) == SenderIsIcs721(sender) /\ data = "NftSent"

\* Mistake: the callback comes before the messages that move the NFT.
OwnerBefore(c) == owner[c]

\* OwnerOf, asked by a callback: after the messages that precede the callback.
OwnerSeen(c) == owner'[c]

\* nft_received at c.
NftReceived(c) ==
  /\ received' = [received EXCEPT ![c] = OwnerSeen(c)]
  /\ contract' = [contract EXCEPT ![c] = TRUE]
  /\ UNCHANGED <<notified, cw721>>

\* nft_sent; what it does for the status is left to its comments.
NftSent(c) ==
  /\ notified' = [notified EXCEPT ![c] = OwnerSeen(c)]
  /\ contract' = [contract EXCEPT ![c] = TRUE]
  /\ UNCHANGED <<received, cw721>>

-------------------------------------------------------------------------------
(* What a memo asks ICS721 for.                                              *)

\* An address that does not validate drops the callback.
Calls(memo) == memo.data # "none" /\ memo.addr # Invalid

\* The account that is called: the one named, else the packet's own.
Callee(memo, own) == IF memo.addr = Unset THEN own ELSE memo.addr

\* Mistake: the callback is a submessage whose failure is caught.
FailureCaught(p) == TRUE

\* The callback of the receipt does not fail.
Accepted(p) ==
  Calls(p.onReceive) =>
    /\ Callee(p.onReceive, p.receiver) = "tester"
    /\ ReceiveCallbackOk("ics721", p.onReceive.data)

\* The callback of the settlement does not fail; it is undone if it does.
Noticed(p) ==
  /\ Calls(p.onAck)
  /\ Callee(p.onAck, p.sender) = "tester"
  /\ AckCallbackOk("ics721", p.onAck.data)

-------------------------------------------------------------------------------
(* The NFT.                                                                  *)

\* The user hands the NFT to the tester: with SendNft cw721 calls the tester
\* (handle_receive_cw_callback), with TransferNft it does not.
GiveToTester(c) ==
  /\ owner[c] = "user"
  /\ owner' = [owner EXCEPT ![c] = "tester"]
  /\ cw721' \in {cw721, [cw721 EXCEPT ![c] = TRUE]}
  /\ UNCHANGED <<packets, sent, received, notified, contract>>

\* cw721 gives the NFT to ICS721, which sends the packet: execute_send_nft for
\* the tester, a call of cw721 for the user.
SendNft(c, sender, receiver, onReceive, onAck) ==
  /\ owner[c] = sender /\ sent < MaxPackets
  /\ owner' = [owner EXCEPT ![c] = "ics721"]
  /\ sent' = sent + 1
  /\ packets' = packets \cup
       {[seq |-> sent + 1, from |-> c, sender |-> sender, receiver |-> receiver,
         onReceive |-> onReceive, onAck |-> onAck, status |-> "sent"]}
  /\ UNCHANGED records

\* A voucher that is still in escrow cannot be made again.
Deliverable(p) == Other(p.from) = 1 \/ owner[2] = Nobody

\* The receipt: redeem or mint, then the callback, if the memo asks for one.
Receive(p) ==
  LET c == Other(p.from) IN
  /\ p.status = "sent" /\ Deliverable(p) /\ Accepted(p)
  /\ owner' = [owner EXCEPT ![c] = p.receiver]
  /\ packets' = (packets \ {p}) \cup {[p EXCEPT !.status = "success"]}
  /\ IF Calls(p.onReceive) THEN NftReceived(c) ELSE UNCHANGED records
  /\ UNCHANGED sent

\* A receipt that fails changes nothing and is answered with an error.
Reject(p) ==
  /\ p.status = "sent" /\ ~(Deliverable(p) /\ Accepted(p))
  /\ packets' = (packets \ {p}) \cup {[p EXCEPT !.status = "error"]}
  /\ UNCHANGED <<owner, sent, records>>

\* The settlement: refund to the sender, burn of a voucher, or nothing; then the
\* callback, whose failure does no harm.
Settle(p, failed) ==
  LET c == p.from IN
  /\ owner' = [owner EXCEPT ![c] = IF failed THEN p.sender
                                   ELSE IF c = 2 THEN Nobody ELSE @]
  /\ packets' = packets \ {p}
  /\ IF Noticed(p) THEN NftSent(c) ELSE UNCHANGED records
  /\ UNCHANGED sent

Acknowledge(p) == p.status # "sent" /\ Settle(p, p.status = "error")
Timeout(p) == p.status = "sent" /\ Settle(p, TRUE)

\* A stranger calls the tester as ICS721 does after an acknowledgement.
StrangerCalls(c) ==
  /\ UNCHANGED <<owner, packets, sent>>
  /\ IF AckCallbackOk("stranger", "NftSent") THEN NftSent(c) ELSE UNCHANGED records

-------------------------------------------------------------------------------

Next ==
  \/ \E c \in Chains : GiveToTester(c) \/ StrangerCalls(c)
  \/ \E c \in Chains, sender, receiver \in Accounts :
       \E onReceive \in ReceiveMemos, onAck \in AckMemos :
         SendNft(c, sender, receiver, onReceive, onAck)
  \/ \E p \in packets : Receive(p) \/ Reject(p) \/ Acknowledge(p) \/ Timeout(p)

Spec == Init /\ [][Next]_vars

\* Packets are received, or time out, and acknowledgements are relayed.
FairSpec ==
  /\ Spec
  /\ \A n \in 1..MaxPackets :
       /\ WF_vars(\E p \in packets : p.seq = n /\ (Receive(p) \/ Reject(p) \/ Timeout(p)))
       /\ WF_vars(\E p \in packets : p.seq = n /\ Acknowledge(p))
-------------------------------------------------------------------------------
(* Properties.                                                               *)

\* The memo has the tester called with this data.
Asks(memo, own, data) == Calls(memo) /\ Callee(memo, own) = "tester" /\ memo.data = data

Delivered(p) ==
  p.status = "sent" /\ \E q \in packets' : q.seq = p.seq /\ q.status = "success"
Settled(p) == \A q \in packets' : q.seq # p.seq
Out == owner[2] \in Accounts

\* What a callback sees is the outcome, whichever account the NFT is of.  "Owner
\* should be the receiver" (nft_received); "Transfer failed, the NFT owner should be
\* the sender"; "if we on source chain, the owner should be ics721", on the other
\* "the owner should be None" (nft_sent).  On the source chain this holds while the
\* NFT has not come back yet.
CallbacksSeeOutcome ==
  [][\A p \in packets :
       /\ Delivered(p) /\ Asks(p.onReceive, p.receiver, "NftReceived") =>
            received'[Other(p.from)] = p.receiver
       /\ Settled(p) /\ Asks(p.onAck, p.sender, "NftSent") =>
            LET seen == notified'[p.from] IN
            /\ p.status # "success" => seen = p.sender
            /\ p.status = "success" /\ p.from = 2 => seen = Nobody
            /\ p.status = "success" /\ p.from = 1 /\ Out => seen = "ics721"]_vars

\* "If the callback fails it means we didn't get what we wanted, so we should send
\* the NFT back to the sender" (fail_callback): whoever is called, and whoever the
\* receiver is.
FailedCallbackReturns ==
  \A c \in Chains, a \in Accounts :
    (\E p \in packets : /\ p.from = c /\ p.sender = a /\ Calls(p.onReceive)
                        /\ ~Asks(p.onReceive, p.receiver, "NftReceived"))
      ~> owner[c] = a
===============================================================================
