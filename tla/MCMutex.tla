------------------------------ MODULE MCMutex ------------------------------
(* Small instances of Mutex. *)
EXTENDS Mutex, TLC

CONSTANTS g1, g2, g3, m1

ThreeGoroutines == {g1, g2, g3}
OneMutex == {m1}
Symmetry == Permutations(Goroutine)
=============================================================================
