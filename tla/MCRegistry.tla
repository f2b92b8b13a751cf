------------------------------ MODULE MCRegistry ------------------------------
(* Two local collections, two voucher classes and two codes on a chain with  *)
(* addresses of 20 bytes.                                                    *)
EXTENDS Ics721Registry

CONSTANTS x, y, v, w, c1, c2

MCChecksum == [c \in CodeIds |-> c]
MCRank == [k \in Classes |-> CASE k = v -> 1 [] k = x -> 2 [] k = w -> 3 [] k = y -> 4]
===============================================================================
