------------------------------ MODULE MCSched ------------------------------
(* Small instances of Sched. *)
EXTENDS Sched, TLC

CONSTANTS m0, m1, m2, g0, g1

ThreeMs == {m0, m1, m2}
TwoGs == {g0, g1}

=============================================================================
