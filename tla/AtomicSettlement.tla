--------------------------- MODULE AtomicSettlement ---------------------------
(***************************************************************************)
(* What the settlement of a packet promises on the chain that sent it.     *)
(* The outcome of the transfer is final: an NFT that went home is burnt,   *)
(* one that was refused is its sender's again, and any other stays where   *)
(* it is.  The sender's callback is only told; it can use what is its own  *)
(* by then, and neither its failure nor its success takes the outcome      *)
(* back.  Ics721Settle implements it.                                      *)
(***************************************************************************)
CONSTANTS Users, Nfts, Flights, Packet, Ics721, Nobody, NoPacket,
          Via  \* Via[s]: the end voucher s comes in over

VARIABLES
  owner,  \* owner[s]: a user, ICS721 or nobody
  packet  \* packet[n]: the packet sent by this chain in flight n

vars == <<owner, packet>>

Init == /\ owner \in [Nfts -> Users \cup {Nobody}]
        /\ packet = [n \in Flights |-> NoPacket]

\* Who has the NFT of p once p is settled.
Outcome(p) == IF p.status # "success" THEN p.sender
              ELSE IF Via[p.nft] = p.end THEN Nobody ELSE owner[p.nft]

\* The NFTs that u holds after owner o may be given away or sent out.
Uses(o, u, S) ==
  /\ S \subseteq {s \in Nfts : o[s] = u}
  /\ \E final \in [S -> Users \cup {Ics721}] :
       owner' = [s \in Nfts |-> IF s \in S THEN final[s] ELSE o[s]]

Settle(n) ==
  /\ packet[n] # NoPacket
  /\ Outcome(packet[n]) # owner[packet[n].nft] => owner[packet[n].nft] = Ics721
  /\ \E u \in Users, S \in SUBSET Nfts :
       Uses([owner EXCEPT ![packet[n].nft] = Outcome(packet[n])], u, S)
  /\ \A m \in Flights \ {n} : packet[m] # NoPacket => packet'[m] = packet[m]
  /\ \A m \in Flights : packet'[m] \notin {packet[m], NoPacket} =>
       owner'[packet'[m].nft] = Ics721
  /\ packet'[n] # NoPacket => packet'[n].status = "sent"

\* A holder uses an NFT; a sent one has a packet.
Use(s) ==
  /\ owner[s] \in Users
  /\ \E u \in Users \cup {Nobody, Ics721} :
       /\ owner' = [owner EXCEPT ![s] = u]
       /\ IF u = Ics721
          THEN \E n \in Flights, p \in Packet :
                 /\ packet[n] = NoPacket
                 /\ p.nft = s /\ p.sender = owner[s] /\ p.status = "sent"
                 /\ packet' = [packet EXCEPT ![n] = p]
          ELSE UNCHANGED packet

\* The other chain answers, or hands an NFT over.
Answer(n) ==
  /\ packet[n] # NoPacket /\ packet[n].status = "sent"
  /\ \E status \in {"success", "error"} :
       packet' = [packet EXCEPT ![n].status = status]
  /\ UNCHANGED owner
Receive(s) == /\ owner[s] \in {Ics721, Nobody}
              /\ \E u \in Users : owner' = [owner EXCEPT ![s] = u]
              /\ UNCHANGED packet

Next == \/ \E n \in Flights : Settle(n) \/ Answer(n)
        \/ \E s \in Nfts : Use(s) \/ Receive(s)

Spec == Init /\ [][Next]_vars
===============================================================================
