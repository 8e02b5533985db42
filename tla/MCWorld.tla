------------------------------ MODULE MCWorld ------------------------------
(* Small instances of World. *)
EXTENDS World, TLC

CONSTANTS m0, m1, m2

ThreeMs == {m0, m1, m2}
=============================================================================
