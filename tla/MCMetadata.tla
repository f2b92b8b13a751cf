----------------------------- MODULE MCMetadata -----------------------------
(* NFTs of a foreign module, which are alike, and one of chain 1.            *)
EXTENDS Ics721Metadata, TLC

CONSTANTS foreign1, foreign2, home1

ForeignSymmetry == Permutations(Foreign)
=============================================================================
