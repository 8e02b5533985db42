------------------------------ MODULE ChanFacts -----------------------------
(***************************************************************************)
(* The inductive invariant of Chan, for any goroutines, channels,          *)
(* capacities and calls, and the facts about its operators that the proofs *)
(* share.                                                                  *)
(*                                                                         *)
(* IInv says what the ring buffer, its history and the queues of a channel *)
(* have to do with each other, and what a goroutine relies on at its place *)
(* in the code: pass 2 of select queues sudogs only because pass 1 found   *)
(* that every case has to wait, and only the locks keep that finding true. *)
(***************************************************************************)
EXTENDS Chan, TLAPS

USE Zenon
USE DEF Nil

\* The two facts about numbers that the lemmas rest on.  They are assumptions of
\* the lemmas, and ChanProofs proves them from the library.
LeastElement == \A S \in SUBSET Nat : S # {} => \E n \in S : \A m \in S : n <= m
CountsSubsets ==
  \A n \in Nat : \A S \in SUBSET (1 .. n) :
    Cardinality(S) \in Nat /\ (Cardinality(S) = 0 <=> S = {})
NatFacts == LeastElement /\ CountsSubsets

-----------------------------------------------------------------------------
(* Sequences *)

\* The empty sequence is a sequence of anything.
LEMMA EmptyIsSeq == \A S : <<>> \in Seq(S)
BY SMT

\* Joining two sequences, and when two are the same.
LEMMA Joined ==
  ASSUME NEW S, NEW s \in Seq(S), NEW t \in Seq(S)
  PROVE  /\ s \o t \in Seq(S) /\ Len(s \o t) = Len(s) + Len(t)
         /\ \A i \in 1 .. Len(s) + Len(t) :
              (s \o t)[i] = IF i <= Len(s) THEN s[i] ELSE t[i - Len(s)]
BY SMT

LEMMA SameSeq ==
  ASSUME NEW S, NEW s \in Seq(S), NEW t \in Seq(S),
         Len(s) = Len(t), \A i \in 1 .. Len(s) : s[i] = t[i]
  PROVE  s = t
BY SMT

\* A non-empty set of natural numbers has a least element.
LEMMA NatMin ==
  ASSUME NatFacts, NEW S \in SUBSET Nat, S # {}
  PROVE  \E n \in S : \A m \in S : n <= m
BY DEF NatFacts, LeastElement

\* A subset of 1 .. n has a count, which is 0 for the empty set alone.
LEMMA CountFacts ==
  ASSUME NatFacts, NEW n \in Nat, NEW S \in SUBSET (1 .. n)
  PROVE  Cardinality(S) \in Nat /\ (Cardinality(S) = 0 <=> S = {})
BY DEF NatFacts, CountsSubsets

\* PastHead drops the entries equal to the head up to the first other one.
LEMMA PastHeadFacts ==
  ASSUME NatFacts, NEW s \in Seq(Channel), s # <<>>
  PROVE  /\ PastHead(s) \in Seq(Channel)
         /\ \A k \in DOMAIN s : s[k] # Head(s) =>
              \E m \in DOMAIN PastHead(s) : PastHead(s)[m] = s[k]
         /\ \E n \in 1 .. Len(s) :
              /\ PastHead(s) = SubSeq(s, n + 1, Len(s))
              /\ n < Len(s) => s[n + 1] # Head(s)
<1> DEFINE Cut(m) == /\ \A k \in 1 .. m : s[k] = s[1]
                     /\ m < Len(s) => s[m + 1] # s[1]
<1> DEFINE D == {k \in 1 .. Len(s) : s[k] # s[1]}
<1>1. \E m \in 1 .. Len(s) : Cut(m)
  <2>1. CASE D = {}
    <3>1. Len(s) \in 1 .. Len(s)
      BY SMT
    <3>2. ASSUME NEW k \in 1 .. Len(s), s[k] # s[1]
          PROVE  FALSE
      <4>1. k \in D
        BY <3>2
      <4> HIDE DEF D
      <4> QED BY <2>1, <4>1
    <3>3. Cut(Len(s))
      BY <3>2, SMT
    <3> QED BY <3>1, <3>3
  <2>2. CASE D # {}
    <3>0. D \in SUBSET Nat
      BY SMT
    <3>1. PICK n \in D : \A m \in D : n <= m
      <4> HIDE DEF D
      <4> QED BY <2>2, <3>0, NatMin
    <3>2. n - 1 \in 1 .. Len(s) /\ Cut(n - 1)
      BY <3>1, SMT
    <3> QED BY <3>2
  <2> QED BY <2>1, <2>2
<1> DEFINE n == CHOOSE m \in 1 .. Len(s) : Cut(m)
<1>2. n \in 1 .. Len(s) /\ Cut(n)
  BY <1>1
<1>3. PastHead(s) = SubSeq(s, n + 1, Len(s))
  BY DEF PastHead
<1> HIDE DEF n, D
<1>4. /\ PastHead(s) \in Seq(Channel)
      /\ \A m \in 1 .. Len(s) - n : m \in DOMAIN PastHead(s) /\ PastHead(s)[m] = s[n + m]
  BY <1>2, <1>3, SMT
<1>5. Head(s) = s[1]
  BY SMT
<1>6. ASSUME NEW k \in DOMAIN s, s[k] # Head(s)
      PROVE  \E m \in DOMAIN PastHead(s) : PastHead(s)[m] = s[k]
  <2>1. k > n
    BY <1>2, <1>5, <1>6, SMT
  <2>2. k - n \in 1 .. Len(s) - n /\ k = n + (k - n)
    BY <1>2, <2>1, SMT
  <2> QED BY <1>4, <2>2
<1> QED BY <1>2, <1>3, <1>4, <1>5, <1>6

\* A lock order has an entry for the channel of every case, and no other.
LEMMA OrderFacts ==
  ASSUME NatFacts, NEW cases \in Seq(Case), NEW s \in LockOrders(cases)
  PROVE  /\ s \in Seq(Channel)
         /\ \A i \in DOMAIN cases : cases[i].c # Nil =>
              \E k \in DOMAIN s : s[k] = cases[i].c
         /\ \A k \in DOMAIN s : \E i \in DOMAIN cases : cases[i].c = s[k]
         /\ \A k \in DOMAIN s : \A m \in 1 .. k : s[m] <= s[k]
<1> DEFINE Of(C) == {i \in DOMAIN cases : cases[i].c \in C}
<1> DEFINE At(c) == {k \in DOMAIN s : s[k] = c}
<1> DEFINE n == Cardinality(Of(Channel))
<1>1. DOMAIN cases = 1 .. Len(cases) /\ Len(cases) \in Nat
  BY SMT
<1>2. ASSUME NEW C
      PROVE  Cardinality(Of(C)) \in Nat /\ (Cardinality(Of(C)) = 0 <=> Of(C) = {})
  <2>1. Of(C) \in SUBSET (1 .. Len(cases))
    BY <1>1
  <2> HIDE DEF Of
  <2> QED BY <1>1, <2>1, CountFacts
<1>3. s \in [1 .. n -> Channel] /\ \A c \in Channel : Cardinality(At(c)) = Cardinality(Of({c}))
  BY DEF LockOrders, Arrangements, NCases
<1>4. n \in Nat
  BY <1>2
<1>5. s \in Seq(Channel) /\ DOMAIN s = 1 .. n
  <2> HIDE DEF n
  <2> QED BY <1>3, <1>4, SMT
<1>6. ASSUME NEW c PROVE Cardinality(At(c)) = 0 <=> At(c) = {}
  <2>1. At(c) \in SUBSET (1 .. n)
    <3> HIDE DEF n
    <3> QED BY <1>5
  <2> HIDE DEF At, n
  <2> QED BY <1>4, <2>1, CountFacts
<1>7. ASSUME NEW i \in DOMAIN cases, cases[i].c # Nil
      PROVE  \E k \in DOMAIN s : s[k] = cases[i].c
  <2> DEFINE c == cases[i].c
  <2>0. cases[i] \in Case
    BY SMT
  <2>1. c \in Channel
    BY <1>7, <2>0 DEF Case
  <2>2. Of({c}) # {}
    OBVIOUS
  <2>3. Cardinality(Of({c})) # 0
    <3> HIDE DEF Of, c
    <3> QED BY <1>2, <2>2
  <2>4. Cardinality(At(c)) # 0
    <3> HIDE DEF Of, At, c
    <3> QED BY <1>3, <2>1, <2>3
  <2>5. At(c) # {}
    <3> HIDE DEF At, c
    <3> QED BY <1>6, <2>4
  <2> QED BY <2>5
<1>8. ASSUME NEW k \in DOMAIN s
      PROVE  \E i \in DOMAIN cases : cases[i].c = s[k]
  <2> DEFINE c == s[k]
  <2>1. c \in Channel
    <3> HIDE DEF n
    <3> QED BY <1>3, <1>5
  <2>2. At(c) # {}
    OBVIOUS
  <2>3. Cardinality(At(c)) # 0
    <3> HIDE DEF At, c
    <3> QED BY <1>6, <2>2
  <2>4. Cardinality(Of({c})) # 0
    <3> HIDE DEF Of, At, c
    <3> QED BY <1>3, <2>1, <2>3
  <2>5. Of({c}) # {}
    <3> HIDE DEF Of, c
    <3> QED BY <1>2, <2>4
  <2> QED BY <2>5
<1> QED BY <1>5, <1>7, <1>8 DEF LockOrders

\* dequeue finds the first live sudog of a queue that has one.
LEMMA FirstLiveFacts ==
  ASSUME NatFacts, NEW q \in Seq(Sudogs), LiveIn(q) # {}
  PROVE  /\ FirstLive(q) \in LiveIn(q)
         /\ FirstLive(q) \in DOMAIN q
         /\ q[FirstLive(q)] \in Sudogs
         /\ Rest(q) \in Seq(Sudogs)
         /\ q # <<>>
<1>1. LiveIn(q) \in SUBSET Nat /\ LiveIn(q) \subseteq DOMAIN q
  BY SMT DEF LiveIn
<1>2. \E n \in LiveIn(q) : \A m \in LiveIn(q) : n <= m
  BY <1>1, NatMin
<1>3. FirstLive(q) \in LiveIn(q)
  BY <1>2 DEF FirstLive
<1>4. FirstLive(q) \in DOMAIN q
  BY <1>1, <1>3
<1>5. Rest(q) = SubSeq(q, FirstLive(q) + 1, Len(q))
  BY DEF Rest
<1> QED BY <1>3, <1>4, <1>5, SMT

-----------------------------------------------------------------------------
(* The ring buffer and its history *)

SlotOf(n, x) == IF x < n THEN x ELSE x - n

\* A buffer b of n slots that holds q elements from slot rx on, the next one going
\* to slot sx, agrees with the elements a taken in and d given out.
Ring(n, q, sx, rx, b, a, d) ==
  /\ q \in Nat /\ q <= n /\ sx \in Nat /\ rx \in Nat
  /\ n > 0 => sx < n /\ rx < n /\ sx = SlotOf(n, rx + q)
  /\ b \in [0 .. n - 1 -> Element \cup {Zero}]
  /\ a \in Seq(Element) /\ d \in Seq(Element)
  /\ Len(a) = Len(d) + q
  /\ \A k \in 1 .. Len(d) : a[k] = d[k]
  /\ \A k \in 0 .. q - 1 : b[SlotOf(n, rx + k)] = a[Len(d) + k + 1]

-----------------------------------------------------------------------------
(* The channels and the goroutines *)

RingOK(c) == Ring(Cap[c], qcount[c], sendx[c], recvx[c], buf[c], accepted[c], delivered[c])

QueuesOK(c) ==
  /\ recvq[c] # <<>> => qcount[c] = 0
  /\ sendq[c] # <<>> => qcount[c] = Cap[c]

\* The channels: what the four transfers change.
DataOK ==
  /\ qcount \in [Channel -> Nat] /\ sendx \in [Channel -> Nat] /\ recvx \in [Channel -> Nat]
  /\ DOMAIN buf = Channel
  /\ sendq \in [Channel -> Seq(Sudogs)] /\ recvq \in [Channel -> Seq(Sudogs)]
  /\ accepted \in [Channel -> Seq(Element)] /\ delivered \in [Channel -> Seq(Element)]
  /\ toReady \in [Goroutine -> SUBSET Sudogs]
  /\ selectDone \in [Goroutine -> BOOLEAN]
  /\ \A c \in Channel : RingOK(c) /\ QueuesOK(c)

GotOK == got \in [Goroutine -> Element \cup {Zero, Old}]

\* The goroutines and the locks.
ControlOK ==
  /\ closed \in [Channel -> BOOLEAN]
  /\ lock \in [Channel -> Goroutine \cup {Free}]
  /\ pc \in [Goroutine -> Label]
  /\ call \in [Goroutine -> Call] /\ calls \in [Goroutine -> 0 .. MaxCalls]
  /\ need \in [Goroutine -> Seq(Channel)] /\ commit \in [Goroutine -> Seq(Channel)]
  /\ param \in [Goroutine -> Nat] /\ success \in [Goroutine -> BOOLEAN]
  /\ res \in [Goroutine -> {"none", "ok", "closed", "no", "panic"}]
  /\ chosen \in [Goroutine -> Nat]

\* p is the queues q, some of them emptied.
Trimmed(q, p) ==
  /\ p \in [Channel -> Seq(Sudogs)]
  /\ \A c \in Channel : p[c] = q[c] \/ p[c] = <<>>

\* dequeue without a live sudog empties the queues it went through.
LEMMA DrainedTrims ==
  ASSUME NEW q \in [Channel -> Seq(Sudogs)], NEW C
  PROVE  /\ Trimmed(q, Drained(q, C))
         /\ \A c \in Channel \cap C : Drained(q, C)[c] = <<>>
         /\ \A c \in Channel \ C : Drained(q, C)[c] = q[c]
BY EmptyIsSeq DEF Drained, Trimmed

-----------------------------------------------------------------------------
(* The inductive invariant *)

Plain == {"fastSend", "thenFull", "thenClosed", "fastRecv", "rclosed", "rempty", "lock",
          "park", "close", "drain"}

\* What goroutine g relies on at its place in the code: a plain operation has a
\* channel; a select holds the locks of its cases, and keeps what pass 1 found
\* true until its sudogs are queued; selparkcommit holds the locks it has still
\* to drop, and the woken select has still to take them.
PlaceOK(g) ==
  /\ pc[g] \in Plain => call[g].kind # "select" /\ Len(call[g].cases) = 1 /\ Ch(g) \in Channel
  /\ pc[g] \in {"park", "drain"} => lock[Ch(g)] = g
  /\ pc[g] \in {"sellock", "pass1", "pass2"} => call[g].kind = "select"
  /\ pc[g] \in {"pass1", "pass2"} => \A i \in Cases(g) : lock[CaseChan(g, i)] = g
  /\ pc[g] = "sellock" =>
       \A i \in Cases(g) : \/ lock[CaseChan(g, i)] = g
                           \/ \E k \in DOMAIN need[g] : need[g][k] = CaseChan(g, i)
  /\ pc[g] = "pass2" =>
       \A i \in Cases(g) :
         qcount[CaseChan(g, i)] = IF Sends(g, i) THEN Cap[CaseChan(g, i)] ELSE 0
  /\ commit[g] # <<>> => pc[g] \in {"waiting", "relock"} /\ call[g].kind = "select"
  /\ \A k \in DOMAIN commit[g] :
       /\ lock[commit[g][k]] = g
       /\ \E m \in DOMAIN need[g] : need[g][m] = commit[g][k]
       /\ \A m \in 1 .. k : commit[g][m] <= commit[g][k]

IInv == DataOK /\ GotOK /\ ControlOK /\ \A g \in Goroutine : PlaceOK(g)

\* And what chan.go states of the queues of a buffered channel.
LEMMA IInvWaiters == IInv => WaitersMatchCount
<1> SUFFICES ASSUME IInv, NEW c \in Channel
             PROVE  /\ qcount[c] > 0 => recvq[c] = <<>>
                    /\ qcount[c] < Cap[c] => sendq[c] = <<>>
  BY DEF WaitersMatchCount
<1>1. QueuesOK(c) /\ Cap[c] \in Nat /\ qcount[c] \in Nat
  BY ChanAssumption DEF IInv, DataOK
<1> QED BY <1>1, SMT DEF QueuesOK

-----------------------------------------------------------------------------
(* Cases and sudogs *)

\* The cases of a call, and those of a select that have a channel.
LEMMA CaseTypes ==
  ASSUME ControlOK, NEW g \in Goroutine
  PROVE  /\ call[g] \in Call /\ call[g].cases \in Seq(Case)
         /\ \A i \in Cases(g) : i \in Nat \ {0} /\ i \in DOMAIN call[g].cases
         /\ \A i \in Cases(g) : CaseChan(g, i) \in Channel
<1>1. call[g] \in Call
  BY DEF ControlOK
<1>2. call[g].cases \in Seq(Case)
  BY <1>1 DEF Call
<1>3. ASSUME NEW i \in Cases(g)
      PROVE  i \in DOMAIN call[g].cases /\ i \in Nat \ {0} /\ CaseChan(g, i) \in Channel
  <2>1. i \in DOMAIN call[g].cases /\ CaseChan(g, i) # Nil
    BY DEF Cases
  <2>2. i \in Nat \ {0} /\ call[g].cases[i] \in Case
    BY <1>2, <2>1, SMT
  <2> QED BY <2>1, <2>2 DEF Case, CaseChan
<1> QED BY <1>1, <1>2, <1>3

\* What a queued sudog is.
LEMMA SudogType ==
  ASSUME ControlOK, NEW g \in Goroutine, NEW i \in Nat \ {0}
  PROVE  Sudog(g, i) \in Sudogs
BY DEF Sudog, Sudogs

=============================================================================
