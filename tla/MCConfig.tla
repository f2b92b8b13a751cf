------------------------------- MODULE MCConfig -------------------------------
(* Two accounts, two contracts that can be proxies, one NFT.               *)
EXTENDS Ics721Config, TLC

CONSTANTS alice, bob, p1, p2, nft

ProxySymmetry == Permutations(Proxies)
===============================================================================
