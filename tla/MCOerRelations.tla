----------------------------- MODULE MCOerRelations ---------------------------
(***************************************************************************)
(* Constants of OerRelations for TLC: a table that relates b to a in two   *)
(* ways.  No symmetry: liveness is checked.                                *)
(***************************************************************************)
EXTENDS OerRelations

CONSTANTS a, b, form1, form2

MCTable == {<<a, "previous-version", b>>, <<a, "newer-version", b>>}

=============================================================================
