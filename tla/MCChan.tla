------------------------------- MODULE MCChan -------------------------------
(* Small instances of Chan. *)
EXTENDS Chan, TLC

CONSTANTS g1, g2, g3

ThreeGoroutines == {g1, g2, g3}

Plain(d, c, b) == [kind |-> "chan", cases |-> <<[dir |-> d, c |-> c]>>, block |-> b]
CloseOf(c) == [kind |-> "close", cases |-> <<[dir |-> "send", c |-> c]>>, block |-> TRUE]
Select(b, cs) == [kind |-> "select", cases |-> cs, block |-> b]
S(c) == [dir |-> "send", c |-> c]
R(c) == [dir |-> "recv", c |-> c]

\* One channel, of no or one slot; every plain operation.
OneChannel == {1}
Unbuffered == <<0>>
OneSlot == <<1>>
PlainCalls == {Plain(d, 1, b) : d \in Dir, b \in BOOLEAN} \cup {CloseOf(1)}
AllPlain == [g \in Goroutine |-> PlainCalls]

\* Two channels: one goroutine selects, the others operate on the channels.
TwoChannels == {1, 2}
Selects ==
  {Select(TRUE, cs) : cs \in {<<S(1), R(2)>>, <<R(2), R(1)>>, <<S(1), R(1)>>, <<R(2), R(2), S(1)>>}}
  \cup {Select(FALSE, <<S(1), R(2), S(Nil)>>)}
Peer == {Plain(d, c, TRUE) : d \in Dir, c \in Channel} \cup {Plain(d, 2, FALSE) : d \in Dir}
SelectCalls ==
  (g1 :> Selects) @@ (g2 :> Peer)
  @@ (g3 :> {CloseOf(1), CloseOf(2), CloseOf(Nil), Select(TRUE, <<S(2), R(1)>>)})
\* Every kind of call on one channel, divided among the goroutines.
SharedCalls ==
  (g1 :> {Plain("send", 1, TRUE), Plain("send", 1, FALSE), CloseOf(1)})
  @@ (g2 :> {Plain("recv", 1, TRUE), Plain("recv", 1, FALSE), Plain("send", Nil, FALSE)})
  @@ (g3 :> {Plain("recv", 1, FALSE), Plain("recv", Nil, TRUE), CloseOf(1),
             Select(TRUE, <<S(1), R(1)>>), Select(TRUE, <<R(1), R(Nil)>>)})
Mixed == <<0, 1>>

Symmetry == Permutations(Goroutine)
=============================================================================
