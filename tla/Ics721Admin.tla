------------------------------ MODULE Ics721Admin ------------------------------
(***************************************************************************)
(* The admin's clean-ups, among the transactions of the protocol.          *)
(*                                                                         *)
(* "In case something goes wrong" the admin of a contract may burn a       *)
(* voucher, or release an NFT from escrow, whatever packets are on their   *)
(* way.  The code checks that the class has this collection and that the   *)
(* owner is the one the admin names, and no more: it cannot see the other  *)
(* chain.  What the admin has to know before it may do so is Careful.      *)
(*                                                                         *)
(* A home chain releases an NFT after its voucher was cleaned away on the  *)
(* other chain.                                                            *)
(***************************************************************************)
EXTENDS Ics721Transfer

CONSTANTS
  Admin,    \* Admin[c]: the admin of ICS721 on chain c, or Nobody
  Careful   \* whether clean-ups are made only where they do no harm

ASSUME AdminAssumption ==
  Admin \in [Chains -> Users \cup {Nobody}] /\ Careful \in BOOLEAN

MayClean(u, c) == (Admin[c] # Nobody => u = Admin[c]) /\ ~paused[c]

\* No packet has to give NFT s back or burn it, and no voucher stands for it.
\* A pending burn counts: once the admin has burnt the voucher, a new one can
\* be minted before the late acknowledgement comes to burn it too.
Unneeded(s) ==
  /\ \A n \in Flights : ~Claims(n, s)
  /\ \A y \in Nft : Outstanding(y) => Parent(y) # s

\* Mistake: an NFT that exists is not burnt.
AdminCleanAndBurnNftNoBurn(u, s, o) ==
  /\ MayClean(u, s.chain)
  /\ s.class \in registry[s.chain]
  /\ Careful => Unneeded(s)
  /\ incoming' = [incoming EXCEPT ![s] = NoEnd]
  /\ metadata' = metadata \ {s}
  /\ UNCHANGED <<owner, registry, outgoing, paused, packet>>

\* cw721 burns s if ICS721 or, with its approval, another owner has it.
AdminCleanAndBurnNft(u, s, o) ==
  /\ MayClean(u, s.chain)
  /\ s.class \in registry[s.chain]
  /\ Careful => Unneeded(s)
  /\ owner[s] \in {o, Nobody}
  /\ owner' = [owner EXCEPT ![s] = Nobody]
  /\ incoming' = [incoming EXCEPT ![s] = NoEnd]
  /\ metadata' = metadata \ {s}
  /\ UNCHANGED <<registry, outgoing, paused, packet>>

\* Mistake: the NFT's owner is not checked.
AdminCleanAndUnescrowNftOfAny(u, s, recipient) ==
  /\ MayClean(u, s.chain)
  /\ s.class \in registry[s.chain]
  /\ Careful => Unneeded(s)
  /\ owner' = [owner EXCEPT ![s] = recipient]
  /\ outgoing' = [outgoing EXCEPT ![s] = NoEnd]
  /\ UNCHANGED <<registry, incoming, metadata, paused, packet>>

AdminCleanAndUnescrowNft(u, s, recipient) ==
  /\ MayClean(u, s.chain)
  /\ s.class \in registry[s.chain]
  /\ Careful => Unneeded(s)
  /\ owner[s] \in {Ics721, Nobody}
  /\ owner' = [owner EXCEPT ![s] = IF @ = Ics721 THEN recipient ELSE @]
  /\ outgoing' = [outgoing EXCEPT ![s] = NoEnd]
  /\ UNCHANGED <<registry, incoming, metadata, paused, packet>>

AdminStep == \E u \in Users, s \in Nft :
  \/ \E o \in Users \cup {Ics721} : AdminCleanAndBurnNft(u, s, o)
  \/ \E recipient \in Users : AdminCleanAndUnescrowNft(u, s, recipient)

AdminNext == Next \/ AdminStep

AdminSpec == Init /\ [][AdminNext]_vars

-------------------------------------------------------------------------------
(* Properties.                                                               *)

\* Of EscrowInv, careful clean-ups keep BackingInv: every voucher stays backed
\* and recorded, and what a packet has to give back is there.

\* A careful admin takes an NFT out of escrow only if no copy of it is held or
\* on its way anywhere: a clean-up on one chain and a clean-up on the other
\* restore the NFT, whatever packets cross them, and never double it.
Recover(x) ==
  /\ Place(x) = [state |-> "burnt"]
  /\ \E c \in Chains, u \in Users : Place(x)' = At(c, u)
  /\ \A y \in Originals \ {x} : Place(y)' = Place(y)
RecoverySpec == Ledger!Init /\
  [][Ledger!Next \/ \E x \in Originals : Recover(x)]_places
===============================================================================
