------------------------------- MODULE MCSettle -------------------------------
(* A chain with two channel ends and a voucher v that comes in over e1, so   *)
(* that it goes home over e1 and further away over e2.                       *)
EXTENDS Ics721Settle

CONSTANTS v, e1, e2

MCVia == [s \in Nfts |-> IF s = v THEN e1 ELSE NoEnd]
===============================================================================
