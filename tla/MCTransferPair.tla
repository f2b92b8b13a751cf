---------------------------- MODULE MCTransferPair ----------------------------
(* Two chains joined by two channels.  The prefixes of the ends of one       *)
(* channel are the same string on both chains, as they are when the chains   *)
(* were set up alike.                                                        *)
EXTENDS Ics721Transfer, TLC

CONSTANTS A, B, x, a1, a2, b1, b2, p1, p2

MCSymmetry == Permutations(Flights) \cup Permutations(Users)

MCHomes == [c \in {x} |-> {A}]
MCTwinHomes == [c \in {x} |-> {A, B}]
MCChainOf == [e \in Ends |-> IF e \in {a1, a2} THEN A ELSE B]
MCPeer == [e \in Ends |-> CASE e = a1 -> b1 [] e = b1 -> a1
                            [] e = a2 -> b2 [] e = b2 -> a2]
MCPrefix == [e \in Ends |-> IF e \in {a1, b1} THEN p1 ELSE p2]
===============================================================================
