------------------------------ MODULE MCPollFD ------------------------------
(***************************************************************************)
(* Model checking instances of PollFD.                                     *)
(***************************************************************************)
EXTENDS PollFD, TLC

CONSTANTS g1, g2, g3

ThreeGoroutines == {g1, g2, g3}
AllOps == Mode \cup {"misc", "setBlocking", "close"}
BlockingOps == {"read", "setBlocking", "close"}
=============================================================================
