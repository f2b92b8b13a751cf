------------------------------ MODULE MCChannel ------------------------------
(* Two NFTs on a channel of either order, with two versions.          *)
EXTENDS Ics721Channel

CONSTANTS nft1, nft2, ics721_1, ics721_0
===============================================================================
