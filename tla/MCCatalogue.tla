---------------------------- MODULE MCCatalogue ----------------------------
(* Instances of Catalogue for TLC: two tabs of one farmer.                 *)
EXTENDS Catalogue, TLC

CONSTANTS p1, p2
MCSymmetry == Permutations({p1, p2})
=============================================================================
