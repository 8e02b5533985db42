------------------------------ MODULE ChanSpec ------------------------------
(***************************************************************************)
(* What a channel promises, without buffers, queues, locks or goroutines:  *)
(* elements leave it in the order they entered it, at most Cap of them are *)
(* inside, one can pass straight through while the channel is empty or     *)
(* full, and none enters once it is closed.                                *)
(***************************************************************************)
EXTENDS Integers, Sequences

CONSTANTS Channel, Cap, Element

VARIABLES accepted,   \* the elements each channel has taken in, in order
          delivered,  \* the elements each channel has given out, in order
          closed

absVars == <<accepted, delivered, closed>>

Init ==
  /\ accepted = [c \in Channel |-> <<>>]
  /\ delivered = [c \in Channel |-> <<>>]
  /\ closed = [c \in Channel |-> FALSE]

Inside(c) == Len(accepted[c]) - Len(delivered[c])

Send(c, v) ==
  /\ ~closed[c] /\ Inside(c) < Cap[c]
  /\ accepted' = [accepted EXCEPT ![c] = Append(@, v)]
  /\ UNCHANGED <<delivered, closed>>

Receive(c) ==
  /\ Inside(c) > 0
  /\ delivered' = [delivered EXCEPT ![c] = Append(@, accepted[c][Len(@) + 1])]
  /\ UNCHANGED <<accepted, closed>>

\* A sender meets a receiver.
Rendezvous(c, v) ==
  /\ ~closed[c] /\ Inside(c) \in {0, Cap[c]}
  /\ accepted' = [accepted EXCEPT ![c] = Append(@, v)]
  /\ delivered' = [delivered EXCEPT ![c] = Append(@, accepted'[c][Len(@) + 1])]
  /\ UNCHANGED closed

Close(c) ==
  /\ ~closed[c]
  /\ closed' = [closed EXCEPT ![c] = TRUE]
  /\ UNCHANGED <<accepted, delivered>>

\* An element is sent once.
New(v) == \A c \in Channel : \A k \in DOMAIN accepted[c] : accepted[c][k] # v

Next ==
  \E c \in Channel :
    \/ Receive(c) \/ Close(c)
    \/ \E v \in Element : (Send(c, v) \/ Rendezvous(c, v)) /\ New(v)

Spec == Init /\ [][Next]_absVars
=============================================================================
