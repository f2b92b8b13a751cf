------------------------------ MODULE NftLedger ------------------------------
(***************************************************************************)
(* What ICS721 promises to the holder of an NFT: moving it between chains  *)
(* never multiplies it and never loses it.  Whatever vouchers, escrows and *)
(* packets the contracts keep, each original NFT is in exactly one place:  *)
(* held by one user on one chain, on its way between two of them, or       *)
(* burnt by its holder.  Ics721Transfer implements this ledger.            *)
(***************************************************************************)
CONSTANTS Nfts,     \* the original NFTs
          Chains, Users,
          Origin    \* Origin[x]: the chain of x's own collection

VARIABLE place      \* place[x]: where x is

Held(c, u) == [state |-> "held", chain |-> c, user |-> u]
Transit(c, u, d, v) == [state |-> "transit", from |-> Held(c, u), to |-> Held(d, v)]
Burnt == [state |-> "burnt"]

Places == {Held(c, u) : c \in Chains, u \in Users}
            \cup {Transit(c, u, d, v) : c, d \in Chains, u, v \in Users}
            \cup {Burnt}

IsHeld(x) == place[x].state = "held"
InTransit(x) == place[x].state = "transit"
Move(x, p) == place' = [place EXCEPT ![x] = p]

Init == /\ place \in [Nfts -> Places]
        /\ \A x \in Nfts : IsHeld(x) /\ place[x].chain = Origin[x]

\* The holder gives the NFT to another user of the chain it is on.
Transfer(x) == IsHeld(x) /\ \E u \in Users : Move(x, Held(place[x].chain, u))

\* The holder sends it to a user of some chain.
Send(x) == IsHeld(x) /\ \E d \in Chains, v \in Users :
             Move(x, Transit(place[x].chain, place[x].user, d, v))

\* It arrives where it was sent, or comes back to the user who sent it.
Deliver(x) == InTransit(x) /\ Move(x, place[x].to)
Refund(x) == InTransit(x) /\ Move(x, place[x].from)

Burn(x) == IsHeld(x) /\ Move(x, Burnt)

Next == \E x \in Nfts :
          Transfer(x) \/ Send(x) \/ Deliver(x) \/ Refund(x) \/ Burn(x)

Spec == Init /\ [][Next]_place
==============================================================================
