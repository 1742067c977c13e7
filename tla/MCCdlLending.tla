---------------------------- MODULE MCCdlLending ----------------------------
(* Small instance of CdlLending: two works, a careful and a hasty borrower.  *)
EXTENDS CdlLending, TLC

CONSTANTS w1, w2, u1, u2

MCScopes == {<<>>, <<w1>>, <<w1, w2>>}

Symmetry == Permutations(Sessions)

=============================================================================
