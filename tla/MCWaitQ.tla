------------------------------ MODULE MCWaitQ ------------------------------
(* Four sudogs share one queue. *)
EXTENDS WaitQ, TLC

CONSTANTS s1, s2, s3, s4

FourSudogs == {s1, s2, s3, s4}
Symmetry == Permutations(FourSudogs)
=============================================================================
