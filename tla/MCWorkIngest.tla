------------------------------ MODULE MCWorkIngest ----------------------------
(***************************************************************************)
(* Constants of WorkIngest for TLC.  No symmetry: liveness is checked.     *)
(***************************************************************************)
EXTENDS WorkIngest

CONSTANTS f1, f2, w1, w2, j1, j2

MCUploads == {f1, f2}
MCWorks == {w1, w2}
MCJobs == {j1, j2}

=============================================================================
