------------------------------ MODULE MCReceive ------------------------------
(* A chain with two channel ends, a collection h of its own and a voucher    *)
(* class v that comes in over e1.                                            *)
EXTENDS Ics721Receive

CONSTANTS h, v, e1, e2

MCSymmetry == Permutations(Users) \cup Permutations(Tokens)
MCVia == [k \in Classes |-> IF k = v THEN e1 ELSE NoEnd]
===============================================================================
