---------------------------- MODULE MCSelectOrder ----------------------------
(* Every assignment of a few addresses, or nil, to the cases of a select. *)
EXTENDS SelectOrder

ThreeKeys == {1, 2, 3}
=============================================================================
