------------------------------ MODULE MCTimers ------------------------------
(* Small instances of Timers. *)
EXTENDS Timers, TLC

CONSTANTS t1, t2, u1, u2, p1, p2, r1

MCOwn == [r \in Runners |-> p1]
OneTicker == [t \in Timers |-> IF t = t1 THEN 2 ELSE 0]
Symmetry == Permutations(Users)
=============================================================================
