----------------------------- MODULE MCChanFast -----------------------------
(* The instances of MCChan, with the history variable of ChanFast. *)
EXTENDS MCChan, ChanFast
=============================================================================
