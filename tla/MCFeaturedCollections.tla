------------------------ MODULE MCFeaturedCollections -------------------------
(***************************************************************************)
(* Constants and symmetry of FeaturedCollections for TLC.                  *)
(***************************************************************************)
EXTENDS FeaturedCollections, TLC

CONSTANTS c1, c2, r1, r2, h1, h2

Symmetry == Permutations(Collections) \cup Permutations(Requests) \cup Permutations(Homes)

=============================================================================
