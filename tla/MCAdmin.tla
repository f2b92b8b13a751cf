-------------------------------- MODULE MCAdmin --------------------------------
(* Two chains joined by two channels.  ICS721 has an admin on chain A, and   *)
(* none on chain B.                                                          *)
EXTENDS Ics721Admin, TLC

CONSTANTS A, B, x, a1, a2, b1, b2, p1, p2, u1

MCSymmetry == Permutations(Flights)

MCHomes == [c \in {x} |-> {A}]
MCChainOf == [e \in Ends |-> IF e \in {a1, a2} THEN A ELSE B]
MCPeer == [e \in Ends |-> CASE e = a1 -> b1 [] e = b1 -> a1
                            [] e = a2 -> b2 [] e = b2 -> a2]
MCPrefix == [e \in Ends |-> IF e \in {a1, b1} THEN p1 ELSE p2]
MCAdmin == [c \in Chains |-> IF c = A THEN u1 ELSE Nobody]
===============================================================================
