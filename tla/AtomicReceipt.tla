---------------------------- MODULE AtomicReceipt ----------------------------
(***************************************************************************)
(* What the receipt of a packet promises, whatever messages it is made of: *)
(* either every token of the packet is handed to the receiver, the         *)
(* receiver's callback has acted on it and the packet is acknowledged with *)
(* success, or nothing at all has changed and the packet is acknowledged   *)
(* with an error.  Between receipts the holders use their NFTs.            *)
(* Ics721Receive implements it; the receipts of Ics721Transfer are its     *)
(* steps with one token and a callback that does nothing.                  *)
(***************************************************************************)
CONSTANTS Users, Nfts, Ends, Ics721, Nobody, NoEnd

VARIABLES
  owner,     \* owner[s]: a user, ICS721 or nobody
  channel,   \* channel[s]: the end s went out on
  acked      \* the last packet's channel end and its acknowledgement

vars == <<owner, channel, acked>>

Init == /\ owner \in [Nfts -> Users \cup {Nobody}]
        /\ channel = [s \in Nfts |-> NoEnd]
        /\ acked = <<NoEnd, "none">>

\* The tokens of a packet: sent out over e before, or new.  The callback may
\* give one of them to another user, or send it out again; which entry the NFT
\* then has is left open (see EscrowHasChannel).
Succeed(S, receiver, e) ==
  /\ acked' = <<e, "success">>
  /\ S # {}
  /\ \/ \A s \in S : owner[s] = Ics721 /\ channel[s] = e
     \/ \A s \in S : owner[s] = Nobody
  /\ \E t \in S : \A s \in S \ {t} : owner'[s] = receiver
  /\ owner' \in [Nfts -> Users \cup {Ics721, Nobody}]
  /\ channel' \in [Nfts -> Ends \cup {NoEnd}]
  /\ \A s \in Nfts : CASE s \notin S -> owner'[s] = owner[s] /\ channel'[s] = channel[s]
                       [] s \in S /\ owner'[s] # Ics721 ->
                            /\ owner'[s] # Nobody
                            /\ channel'[s] = IF owner[s] = Ics721 THEN NoEnd ELSE channel[s]
                       [] OTHER -> TRUE

Fail(e) == acked' = <<e, "error">> /\ UNCHANGED <<owner, channel>>

Give(s) == /\ owner[s] \in Users
           /\ \E u \in Users \cup {Nobody} : owner' = [owner EXCEPT ![s] = u]
           /\ UNCHANGED <<channel, acked>>

Send(s, e) == /\ owner[s] \in Users
              /\ owner' = [owner EXCEPT ![s] = Ics721]
              /\ channel' = [channel EXCEPT ![s] = e]
              /\ UNCHANGED acked

\* ICS721 burns a voucher that went home, or gives a refund.
Burn(s) == /\ owner[s] = Ics721
           /\ owner' = [owner EXCEPT ![s] = Nobody]
           /\ UNCHANGED <<channel, acked>>
Refund(s) == /\ owner[s] = Ics721
             /\ \E u \in Users : owner' = [owner EXCEPT ![s] = u]
             /\ channel' = [channel EXCEPT ![s] = NoEnd]
             /\ UNCHANGED acked

Next == \/ \E S \in SUBSET Nfts, u \in Users, e \in Ends : Succeed(S, u, e)
        \/ \E e \in Ends : Fail(e)
        \/ \E s \in Nfts : \/ Give(s) \/ Burn(s) \/ Refund(s)
                           \/ \E e \in Ends : Send(s, e)

Spec == Init /\ [][Next]_vars
===============================================================================
