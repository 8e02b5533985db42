------------------------------ MODULE ChanFast ------------------------------
(***************************************************************************)
(* Chan with a history variable: whether, since a goroutine called its     *)
(* non-blocking operation, there was a moment at which the channel was     *)
(* open and the operation could not proceed.  The comments on the          *)
(* lock-free fast paths of chansend and chanrecv justify a refusal by such *)
(* a moment.                                                               *)
(***************************************************************************)
EXTENDS Chan

VARIABLE refusable

Cannot(g) ==
  /\ call[g].kind = "chan" /\ Ch(g) # Nil /\ ~CaseReady(g, 1)

FastInit == Init /\ refusable = [g \in Goroutine |-> FALSE]

FastNext ==
  /\ Next
  /\ refusable' = [g \in Goroutine |->
       IF pc'[g] = "idle" THEN refusable[g]
       ELSE IF pc[g] = "idle" THEN Cannot(g)' ELSE refusable[g] \/ Cannot(g)']

FastSpec == FastInit /\ [][FastNext]_<<vars, refusable>>

\* Each goroutine goes on, and so does the thread that parks it.
FairFastSpec == FastSpec /\ \A g \in Goroutine : WF_vars(Run(g)) /\ WF_vars(Commit(g))

Refused(g, dir) ==
  /\ pc[g] = "idle" /\ calls[g] > 0 /\ res[g] = "no"
  /\ call[g].kind = "chan" /\ Ch(g) # Nil /\ call[g].cases[1].dir = dir

\* A non-blocking receive that reports nothing to receive was called while, at some
\* moment, the channel was open and had nothing to receive.
RecvRefusalJustified ==
  \A g \in Goroutine : Refused(g, "recv") => refusable[g]

\* A non-blocking send that reports it cannot proceed was called while, at some
\* moment, the channel was open and not ready for sending.
SendRefusalJustified ==
  \A g \in Goroutine : Refused(g, "send") => refusable[g]
=============================================================================
