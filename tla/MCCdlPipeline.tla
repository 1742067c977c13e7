---------------------------- MODULE MCCdlPipeline ---------------------------
(* One work with two PDFs of as many pages: the second can be taken for the  *)
(* first by a count.                                                         *)
EXTENDS CdlPipeline, TLC

CONSTANTS p1, p2

MCPages == (p1 :> 2) @@ (p2 :> 2)

=============================================================================
