----------------------------- MODULE MCNetpoll -----------------------------
(* Small instances of Netpoll. *)
EXTENDS Netpoll
=============================================================================
