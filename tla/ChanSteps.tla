------------------------------ MODULE ChanSteps -----------------------------
(***************************************************************************)
(* Every step of Chan keeps its inductive invariant.                       *)
(*                                                                         *)
(* First the four ways an element moves through a channel, which keep its  *)
(* ring buffer, its history and its queues in agreement; then the steps of *)
(* a plain send, receive or close, of parking, and of select.              *)
(***************************************************************************)
EXTENDS ChanFacts

USE Zenon
USE DEF Nil

Sorted(s) == \A k \in DOMAIN s : \A m \in 1 .. k : s[m] <= s[k]

\* In a sorted sequence PastHead drops every entry of the head, and only those.
LEMMA PastHeadSorted ==
  ASSUME NatFacts, NEW s \in Seq(Channel), s # <<>>, Sorted(s)
  PROVE  /\ PastHead(s) \in Seq(Channel) /\ Sorted(PastHead(s))
         /\ \A k \in DOMAIN PastHead(s) :
              /\ PastHead(s)[k] # Head(s)
              /\ \E m \in DOMAIN s : s[m] = PastHead(s)[k]
<1>1. PICK n \in 1 .. Len(s) : /\ PastHead(s) = SubSeq(s, n + 1, Len(s))
                               /\ n < Len(s) => s[n + 1] # Head(s)
  BY PastHeadFacts
<1> DEFINE p == PastHead(s)
<1>2. /\ p \in Seq(Channel) /\ DOMAIN p = 1 .. Len(s) - n /\ DOMAIN s = 1 .. Len(s)
      /\ Len(s) \in Nat /\ n \in Nat
      /\ \A k \in 1 .. Len(s) - n : p[k] = s[n + k]
  BY <1>1, SMT
<1>3. Head(s) = s[1]
  BY SMT
<1>4. \A k \in DOMAIN s : s[k] \in Nat
  BY ChanAssumption, SMT
<1> HIDE DEF p
<1>5. ASSUME NEW k \in DOMAIN p
      PROVE  /\ p[k] # Head(s) /\ \E m \in DOMAIN s : s[m] = p[k]
             /\ \A m \in 1 .. k : p[m] <= p[k]
  <2>1. n + k \in DOMAIN s /\ n + 1 \in DOMAIN s /\ n + 1 \in 1 .. n + k /\ 1 \in 1 .. n + 1
        /\ 1 \in DOMAIN s /\ n < Len(s)
    BY <1>2, SMT
  <2>2. s[n + 1] <= s[n + k] /\ s[1] <= s[n + 1]
    BY <2>1 DEF Sorted
  <2>3. s[1] # s[n + 1]
    BY <1>1, <1>3, <2>1
  <2>4. s[1] \in Nat /\ s[n + 1] \in Nat /\ s[n + k] \in Nat
    BY <1>4, <2>1
  <2>5. s[n + k] # s[1]
    BY <2>2, <2>3, <2>4, SMT
  <2>6. ASSUME NEW m \in 1 .. k PROVE p[m] <= p[k]
    <3>1. n + m \in 1 .. n + k /\ m \in 1 .. Len(s) - n /\ k \in 1 .. Len(s) - n
      BY <1>2, SMT
    <3>2. s[n + m] <= s[n + k]
      BY <2>1, <3>1 DEF Sorted
    <3> QED BY <1>2, <3>1, <3>2
  <2> QED BY <1>2, <1>3, <2>1, <2>5, <2>6
<1>6. Sorted(p)
  BY <1>5 DEF Sorted
<1> QED BY <1>2, <1>5, <1>6 DEF p

\* Putting an element into a free slot keeps the ring in order.
LEMMA RingSend ==
  ASSUME NEW n \in Nat, NEW q, NEW sx, NEW rx, NEW b, NEW a, NEW d, NEW v \in Element,
         Ring(n, q, sx, rx, b, a, d), q < n
  PROVE  Ring(n, q + 1, IF sx + 1 = n THEN 0 ELSE sx + 1, rx, [b EXCEPT ![sx] = v],
              Append(a, v), d)
<1> DEFINE bb == [b EXCEPT ![sx] = v]
           aa == Append(a, v)
           nx == IF sx + 1 = n THEN 0 ELSE sx + 1
<1>0. /\ q \in Nat /\ sx \in 0 .. n - 1 /\ rx \in 0 .. n - 1 /\ sx = SlotOf(n, rx + q)
      /\ a \in Seq(Element) /\ d \in Seq(Element) /\ Len(a) = Len(d) + q
      /\ Len(a) \in Nat /\ Len(d) \in Nat
  BY SMT DEF Ring
<1>1. aa \in Seq(Element) /\ Len(aa) = Len(a) + 1 /\ aa[Len(a) + 1] = v
      /\ \A k \in 1 .. Len(a) : aa[k] = a[k]
  BY <1>0, SMT
<1>2. bb \in [0 .. n - 1 -> Element \cup {Zero}] /\ bb[sx] = v
      /\ \A x \in 0 .. n - 1 : x # sx => bb[x] = b[x]
  BY <1>0 DEF Ring
<1>3. nx \in Nat /\ nx < n /\ nx = SlotOf(n, rx + (q + 1))
  BY <1>0, SMT DEF SlotOf
<1> HIDE DEF aa, bb, nx
<1>4. ASSUME NEW k \in 0 .. q
      PROVE  bb[SlotOf(n, rx + k)] = aa[Len(d) + k + 1]
  <2>1. CASE k = q
    BY <1>0, <1>1, <1>2, <2>1
  <2>2. CASE k < q
    <3>1. SlotOf(n, rx + k) \in 0 .. n - 1 /\ SlotOf(n, rx + k) # sx
      BY <1>0, <2>2, SMT DEF SlotOf
    <3>2. Len(d) + k + 1 \in 1 .. Len(a) /\ k \in 0 .. q - 1
      BY <1>0, <2>2, SMT
    <3>3. b[SlotOf(n, rx + k)] = a[Len(d) + k + 1]
      BY <3>2 DEF Ring
    <3> QED BY <1>1, <1>2, <3>1, <3>2, <3>3
  <2> QED BY <1>0, <2>1, <2>2, SMT
<1>5. \A k \in 1 .. Len(d) : aa[k] = d[k]
  BY <1>0, <1>1, SMT DEF Ring
<1>6. Len(aa) = Len(d) + (q + 1) /\ q + 1 \in Nat /\ q + 1 <= n /\ (q + 1) - 1 = q
  BY <1>0, <1>1, SMT
<1>7. Ring(n, q + 1, nx, rx, bb, aa, d)
  BY <1>0, <1>1, <1>2, <1>3, <1>4, <1>5, <1>6 DEF Ring
<1> QED BY <1>7 DEF aa, bb, nx

\* Taking the element at the head keeps the ring in order.
LEMMA RingRecv ==
  ASSUME NEW n \in Nat, NEW q, NEW sx, NEW rx, NEW b, NEW a, NEW d,
         Ring(n, q, sx, rx, b, a, d), q > 0
  PROVE  /\ b[rx] \in Element
         /\ Ring(n, q - 1, sx, IF rx + 1 = n THEN 0 ELSE rx + 1, [b EXCEPT ![rx] = Zero],
                 a, Append(d, b[rx]))
<1> DEFINE v == b[rx]
           bb == [b EXCEPT ![rx] = Zero]
           dd == Append(d, v)
           nx == IF rx + 1 = n THEN 0 ELSE rx + 1
<1>0. /\ q \in Nat /\ q <= n /\ sx \in 0 .. n - 1 /\ rx \in 0 .. n - 1 /\ sx = SlotOf(n, rx + q)
      /\ a \in Seq(Element) /\ d \in Seq(Element) /\ Len(a) = Len(d) + q
      /\ Len(a) \in Nat /\ Len(d) \in Nat
      /\ b \in [0 .. n - 1 -> Element \cup {Zero}]
  BY SMT DEF Ring
<1>1. v = a[Len(d) + 1] /\ v \in Element
  <2>1. 0 \in 0 .. q - 1 /\ SlotOf(n, rx + 0) = rx
    BY <1>0, SMT DEF SlotOf
  <2>2. b[SlotOf(n, rx + 0)] = a[Len(d) + 0 + 1]
    BY <2>1 DEF Ring
  <2>3. Len(d) + 1 \in 1 .. Len(a)
    BY <1>0, SMT
  <2> QED BY <1>0, <2>1, <2>2, <2>3, SMT
<1> HIDE DEF v
<1>2. dd \in Seq(Element) /\ Len(dd) = Len(d) + 1 /\ dd[Len(d) + 1] = v
      /\ \A k \in 1 .. Len(d) : dd[k] = d[k]
  BY <1>0, <1>1, SMT
<1>3. bb \in [0 .. n - 1 -> Element \cup {Zero}]
      /\ \A x \in 0 .. n - 1 : x # rx => bb[x] = b[x]
  BY <1>0
<1>4. nx \in Nat /\ nx < n /\ sx = SlotOf(n, nx + (q - 1))
  BY <1>0, SMT DEF SlotOf
<1> HIDE DEF dd, bb
<1>5. ASSUME NEW k \in 0 .. (q - 1) - 1
      PROVE  bb[SlotOf(n, nx + k)] = a[Len(dd) + k + 1]
  <2>0. k \in Nat /\ k + 1 < q /\ n \in Nat /\ rx \in Nat /\ rx < n /\ q <= n /\ q \in Nat
    BY <1>0, SMT
  <2>1. /\ SlotOf(n, nx + k) = SlotOf(n, rx + (k + 1))
        /\ SlotOf(n, nx + k) \in 0 .. n - 1 /\ SlotOf(n, nx + k) # rx
    BY <2>0, SMT DEF SlotOf
  <2>2. k + 1 \in 0 .. q - 1 /\ Len(d) + (k + 1) + 1 = Len(dd) + k + 1
    <3>1. k + 1 \in 0 .. q - 1
      BY <2>0, SMT
    <3>2. Len(dd) = Len(d) + 1 /\ Len(d) \in Nat
      BY <1>0, <1>2
    <3> QED BY <2>0, <3>1, <3>2, SMT
  <2>3. b[SlotOf(n, rx + (k + 1))] = a[Len(d) + (k + 1) + 1]
    <3>1. \A j \in 0 .. q - 1 : b[SlotOf(n, rx + j)] = a[Len(d) + j + 1]
      BY DEF Ring
    <3> QED BY <2>2, <3>1
  <2> HIDE DEF nx
  <2> QED BY <1>3, <2>1, <2>2, <2>3
<1> HIDE DEF nx
<1>6. ASSUME NEW k \in 1 .. Len(dd) PROVE a[k] = dd[k]
  <2>1. CASE k = Len(d) + 1
    BY <1>1, <1>2, <2>1
  <2>2. CASE k # Len(d) + 1
    <3>1. k \in 1 .. Len(d)
      BY <1>0, <1>2, <2>2, SMT
    <3> QED BY <1>2, <3>1 DEF Ring
  <2> QED BY <2>1, <2>2
<1>7. Len(a) = Len(dd) + (q - 1) /\ q - 1 \in Nat /\ q - 1 <= n
  BY <1>0, <1>2, SMT
<1>8. Ring(n, q - 1, sx, nx, bb, a, dd)
  BY <1>0, <1>2, <1>3, <1>4, <1>5, <1>6, <1>7 DEF Ring
<1> QED BY <1>1, <1>8 DEF v, bb, dd, nx

\* An element that goes from hand to hand while the buffer is empty leaves it alone.
LEMMA RingPass ==
  ASSUME NEW n \in Nat, NEW sx, NEW rx, NEW b, NEW a, NEW d, NEW v \in Element,
         Ring(n, 0, sx, rx, b, a, d)
  PROVE  Ring(n, 0, sx, rx, b, Append(a, v), Append(d, v))
<1> DEFINE aa == Append(a, v)
           dd == Append(d, v)
<1>0. a \in Seq(Element) /\ d \in Seq(Element) /\ Len(a) = Len(d) /\ Len(d) \in Nat
  BY SMT DEF Ring
<1>1. /\ aa \in Seq(Element) /\ Len(aa) = Len(d) + 1 /\ aa[Len(d) + 1] = v
      /\ \A k \in 1 .. Len(d) : aa[k] = a[k]
  BY <1>0, SMT
<1>2. /\ dd \in Seq(Element) /\ Len(dd) = Len(d) + 1 /\ dd[Len(d) + 1] = v
      /\ \A k \in 1 .. Len(d) : dd[k] = d[k]
  BY <1>0, SMT
<1> HIDE DEF aa, dd
<1>3. ASSUME NEW k \in 1 .. Len(dd) PROVE aa[k] = dd[k]
  <2>1. CASE k = Len(d) + 1
    BY <1>1, <1>2, <2>1
  <2>2. CASE k # Len(d) + 1
    <3>1. k \in 1 .. Len(d)
      BY <1>0, <1>2, <2>2, SMT
    <3> QED BY <1>1, <1>2, <3>1 DEF Ring
  <2> QED BY <2>1, <2>2
<1>4. Len(aa) = Len(dd) + 0
  BY <1>0, <1>1, <1>2, SMT
<1>5. Ring(n, 0, sx, rx, b, aa, dd)
  BY <1>1, <1>2, <1>3, <1>4, SMT DEF Ring
<1> QED BY <1>5 DEF aa, dd

\* Taking the head of a full buffer and putting an element into its slot.
LEMMA RingSwap ==
  ASSUME NEW n \in Nat, n > 0, NEW sx, NEW rx, NEW b, NEW a, NEW d, NEW v \in Element,
         Ring(n, n, sx, rx, b, a, d)
  PROVE  LET nx == IF rx + 1 = n THEN 0 ELSE rx + 1 IN
         /\ b[rx] \in Element
         /\ Ring(n, n, nx, nx, [b EXCEPT ![rx] = v], Append(a, v), Append(d, b[rx]))
<1> DEFINE nx == IF rx + 1 = n THEN 0 ELSE rx + 1
           b1 == [b EXCEPT ![rx] = Zero]
           d1 == Append(d, b[rx])
<1>0. sx = rx /\ rx \in 0 .. n - 1 /\ b \in [0 .. n - 1 -> Element \cup {Zero}]
  BY SMT DEF Ring, SlotOf
<1>1. b[rx] \in Element /\ Ring(n, n - 1, sx, nx, b1, a, d1)
  BY RingRecv
<1>2. Ring(n, (n - 1) + 1, IF sx + 1 = n THEN 0 ELSE sx + 1, nx, [b1 EXCEPT ![sx] = v],
           Append(a, v), d1)
  <2>1. n - 1 < n
    BY SMT
  <2> HIDE DEF nx, b1, d1
  <2> QED BY <1>1, <2>1, RingSend
<1>3. [b1 EXCEPT ![sx] = v] = [b EXCEPT ![rx] = v]
  BY <1>0
<1>4. (n - 1) + 1 = n
  BY SMT
<1> HIDE DEF b1
<1> QED BY <1>0, <1>1, <1>2, <1>3, <1>4

\* The ring in order is the FIFO property of one channel.
LEMMA RingFIFO ==
  ASSUME NEW n \in Nat, NEW q, NEW sx, NEW rx, NEW b, NEW a, NEW d, Ring(n, q, sx, rx, b, a, d)
  PROVE  a = d \o [k \in 1 .. q |->
                     b[IF rx + k - 1 < n THEN rx + k - 1 ELSE rx + k - 1 - n]]
<1> DEFINE At(k) == b[IF rx + k - 1 < n THEN rx + k - 1 ELSE rx + k - 1 - n]
           e == [k \in 1 .. q |-> At(k)]
<1>0. /\ q \in Nat /\ rx \in Nat /\ Len(a) = Len(d) + q /\ Len(a) \in Nat /\ Len(d) \in Nat
      /\ a \in Seq(Element) /\ d \in Seq(Element)
  BY SMT DEF Ring
<1>1. ASSUME NEW k \in 1 .. q PROVE At(k) = a[Len(d) + k]
  <2>1. k - 1 \in 0 .. q - 1 /\ Len(d) + (k - 1) + 1 = Len(d) + k
    BY <1>0, SMT
  <2>2. \A j \in 0 .. q - 1 : b[SlotOf(n, rx + j)] = a[Len(d) + j + 1]
    BY DEF Ring
  <2>3. b[SlotOf(n, rx + (k - 1))] = a[Len(d) + (k - 1) + 1]
    BY <2>1, <2>2
  <2>4. SlotOf(n, rx + (k - 1)) = IF rx + k - 1 < n THEN rx + k - 1 ELSE rx + k - 1 - n
    <3>1. rx + (k - 1) = rx + k - 1
      BY <1>0, SMT
    <3> DEFINE x == rx + (k - 1)
    <3>2. x - n = rx + k - 1 - n /\ x = rx + k - 1
      BY <1>0, <3>1, SMT
    <3> HIDE DEF x
    <3>3. SlotOf(n, x) = IF rx + k - 1 < n THEN rx + k - 1 ELSE rx + k - 1 - n
      BY <3>2 DEF SlotOf
    <3> QED BY <3>3, SMT DEF x
  <2>5. At(k) = b[SlotOf(n, rx + (k - 1))]
    BY <2>4, SMT
  <2> HIDE DEF At
  <2> QED BY <2>1, <2>3, <2>5, SMT
<1>2. e \in Seq(Element) /\ Len(e) = q /\ \A k \in 1 .. q : e[k] = At(k)
  <2>1. \A k \in 1 .. q : At(k) \in Element
    <3> HIDE DEF At
    <3> QED BY <1>0, <1>1, SMT
  <2> HIDE DEF At
  <2> QED BY <1>0, <2>1, SMT
<1>3. /\ d \o e \in Seq(Element) /\ Len(d \o e) = Len(d) + q
      /\ \A k \in 1 .. Len(d) : (d \o e)[k] = d[k]
      /\ \A k \in 1 .. q : (d \o e)[Len(d) + k] = e[k]
  <2> HIDE DEF e
  <2>1. /\ d \o e \in Seq(Element) /\ Len(d \o e) = Len(d) + Len(e)
        /\ \A i \in 1 .. Len(d) + Len(e) :
             (d \o e)[i] = IF i <= Len(d) THEN d[i] ELSE e[i - Len(d)]
    BY <1>0, <1>2, Joined
  <2>2. ASSUME NEW k \in 1 .. q PROVE (d \o e)[Len(d) + k] = e[k]
    <3>1. /\ Len(d) + k \in 1 .. Len(d) + Len(e) /\ ~(Len(d) + k <= Len(d))
          /\ (Len(d) + k) - Len(d) = k
      BY <1>0, <1>2, SMT
    <3> QED BY <2>1, <3>1, SMT
  <2> QED BY <1>0, <1>2, <2>1, <2>2, SMT
<1>4. ASSUME NEW k \in 1 .. Len(a) PROVE a[k] = (d \o e)[k]
  <2>1. CASE k <= Len(d)
    <3> HIDE DEF e
    <3> QED BY <1>0, <1>3, <2>1, SMT DEF Ring
  <2>2. CASE k > Len(d)
    <3>1. k - Len(d) \in 1 .. q /\ Len(d) + (k - Len(d)) = k
      BY <1>0, <2>2, SMT
    <3> HIDE DEF At, e
    <3> QED BY <1>1, <1>2, <1>3, <3>1, SMT
  <2> QED BY <1>0, <2>1, <2>2, SMT
<1>5. a = d \o e
  <2> HIDE DEF e
  <2>1. Len(a) = Len(d \o e)
    BY <1>0, <1>3, SMT
  <2> QED BY <1>0, <1>3, <1>4, <2>1, SameSeq
<1> QED BY <1>5, SMT

-----------------------------------------------------------------------------
(* The transfers keep the channels in order *)

\* Leaving all queues alone trims none.
LEMMA SelfTrims ==
  ASSUME NEW q \in [Channel -> Seq(Sudogs)]
  PROVE  Trimmed(q, q)
BY DEF Trimmed

\* The element a goroutine sends is an element.
LEMMA ElemType ==
  ASSUME ControlOK, NEW g \in Goroutine, NEW i \in Nat
  PROVE  Elem(g, i) \in Element
<1>1. calls[g] \in Nat
  BY ChanAssumption, SMT DEF ControlOK
<1> QED BY <1>1 DEF Elem, Element

\* Handing an element to a waiting receiver: its channel's buffer is empty.
LEMMA SendDirectOK ==
  ASSUME NatFacts, DataOK, GotOK, ControlOK, NEW g \in Goroutine, NEW i \in Nat, NEW c \in Channel,
         NEW sq, NEW rq, Trimmed(sendq, sq), Trimmed(recvq, rq), LiveIn(rq[c]) # {},
         SendDirect(g, i, c, sq, rq)
  PROVE  DataOK' /\ GotOK' /\ qcount' = qcount /\ closed' = closed
<1> DEFINE f == FirstLive(rq[c])
           sg == rq[c][f]
           v == Elem(g, i)
<1>1. rq[c] \in Seq(Sudogs) /\ rq \in [Channel -> Seq(Sudogs)] /\ sq \in [Channel -> Seq(Sudogs)]
  BY DEF Trimmed
<1>2. sg \in Sudogs /\ Rest(rq[c]) \in Seq(Sudogs) /\ rq[c] # <<>>
  BY <1>1, FirstLiveFacts
<1>3. v \in Element
  BY ElemType
<1>4. qcount[c] = 0
  BY <1>2 DEF Trimmed, DataOK, QueuesOK
<1> HIDE DEF v, f
<1>5. /\ recvq' = [rq EXCEPT ![c] = Rest(@)] /\ sendq' = sq
      /\ SetDone({sg})
      /\ got' = [got EXCEPT ![sg.g] = v]
      /\ toReady' = [toReady EXCEPT ![g] = {sg}]
      /\ accepted' = [accepted EXCEPT ![c] = Append(@, v)]
      /\ delivered' = [delivered EXCEPT ![c] = Append(@, v)]
      /\ qcount' = qcount /\ sendx' = sendx /\ recvx' = recvx /\ buf' = buf /\ closed' = closed
  BY DEF SendDirect, chanVars, v, f
<1> HIDE DEF sg
<1>6. Cap[c] \in Nat /\ accepted[c] \in Seq(Element) /\ delivered[c] \in Seq(Element)
  BY ChanAssumption DEF DataOK
<1>7. /\ accepted'[c] = Append(accepted[c], v) /\ delivered'[c] = Append(delivered[c], v)
      /\ \A d \in Channel : d # c => accepted'[d] = accepted[d] /\ delivered'[d] = delivered[d]
      /\ accepted' \in [Channel -> Seq(Element)] /\ delivered' \in [Channel -> Seq(Element)]
  BY <1>3, <1>5, <1>6, SMT DEF DataOK
<1>8. ASSUME NEW d \in Channel PROVE RingOK(d)'
  <2>1. CASE d = c
    <3>1. Ring(Cap[c], 0, sendx[c], recvx[c], buf[c], accepted[c], delivered[c])
      BY <1>4 DEF DataOK, RingOK
    <3>2. Ring(Cap[c], 0, sendx[c], recvx[c], buf[c],
               Append(accepted[c], v), Append(delivered[c], v))
      BY <1>3, <1>6, <3>1, RingPass
    <3> QED BY <1>4, <1>5, <1>7, <2>1, <3>2 DEF RingOK
  <2>2. CASE d # c
    BY <1>5, <1>7, <2>2 DEF DataOK, RingOK
  <2> QED BY <2>1, <2>2
<1>9. recvq' \in [Channel -> Seq(Sudogs)] /\ sendq' \in [Channel -> Seq(Sudogs)]
  BY <1>1, <1>2, <1>5
<1>10. ASSUME NEW d \in Channel PROVE QueuesOK(d)'
  <2>1. QueuesOK(d)
    BY DEF DataOK
  <2>2. recvq'[d] # <<>> => qcount[d] = 0
    BY <1>1, <1>4, <1>5, <2>1 DEF QueuesOK, Trimmed
  <2>3. sendq'[d] # <<>> => qcount[d] = Cap[d]
    BY <1>5, <2>1 DEF QueuesOK, Trimmed
  <2> QED BY <1>5, <2>2, <2>3 DEF QueuesOK
<1>11. GotOK'
  <2>1. sg.g \in Goroutine
    BY <1>2 DEF Sudogs
  <2> QED BY <1>3, <1>5, <2>1 DEF GotOK
<1>12. toReady' \in [Goroutine -> SUBSET Sudogs]
  BY <1>2, <1>5 DEF DataOK
<1>13. selectDone' \in [Goroutine -> BOOLEAN]
  BY <1>5 DEF SetDone
<1>14. DataOK'
  BY <1>5, <1>7, <1>8, <1>9, <1>10, <1>12, <1>13 DEF DataOK
<1> QED BY <1>5, <1>11, <1>14

\* Putting an element into the buffer: nobody waits afterwards for an element.
LEMMA SendBufferedOK ==
  ASSUME DataOK, GotOK, ControlOK, NEW g \in Goroutine, NEW i \in Nat, NEW c \in Channel,
         NEW sq, NEW rq, Trimmed(sendq, sq), Trimmed(recvq, rq), rq[c] = <<>>,
         qcount[c] < Cap[c], SendBuffered(g, i, c, sq, rq)
  PROVE  /\ DataOK' /\ GotOK' /\ closed' = closed
         /\ \A d \in Channel : d # c => qcount'[d] = qcount[d]
<1> DEFINE v == Elem(g, i)
<1>1. v \in Element
  BY ElemType
<1> HIDE DEF v
<1>2. /\ buf' = [buf EXCEPT ![c][sendx[c]] = v]
      /\ sendx' = [sendx EXCEPT ![c] = NextSlot(c, @)]
      /\ qcount' = [qcount EXCEPT ![c] = @ + 1]
      /\ accepted' = [accepted EXCEPT ![c] = Append(@, v)]
      /\ sendq' = sq /\ recvq' = rq /\ recvx' = recvx /\ closed' = closed
      /\ delivered' = delivered /\ got' = got /\ toReady' = toReady /\ selectDone' = selectDone
  BY DEF SendBuffered, v
<1>3. /\ Cap[c] \in Nat /\ accepted[c] \in Seq(Element) /\ delivered[c] \in Seq(Element)
      /\ qcount[c] \in Nat /\ sendx[c] \in Nat /\ RingOK(c)
  BY ChanAssumption DEF DataOK
<1>4. /\ accepted'[c] = Append(accepted[c], v)
      /\ \A d \in Channel : d # c => accepted'[d] = accepted[d]
      /\ accepted' \in [Channel -> Seq(Element)]
  BY <1>1, <1>2, <1>3, SMT DEF DataOK
<1>5. /\ DOMAIN buf' = Channel /\ buf'[c] = [buf[c] EXCEPT ![sendx[c]] = v]
      /\ \A d \in Channel : d # c => buf'[d] = buf[d]
  BY <1>2 DEF DataOK
<1>6. /\ sendx'[c] = IF sendx[c] + 1 = Cap[c] THEN 0 ELSE sendx[c] + 1
      /\ \A d \in Channel : d # c => sendx'[d] = sendx[d]
      /\ sendx' \in [Channel -> Nat]
  BY <1>2, <1>3, SMT DEF DataOK, NextSlot
<1>7. /\ qcount'[c] = qcount[c] + 1
      /\ \A d \in Channel : d # c => qcount'[d] = qcount[d]
      /\ qcount' \in [Channel -> Nat]
  BY <1>2, <1>3, SMT DEF DataOK
<1>8. ASSUME NEW d \in Channel PROVE RingOK(d)'
  <2>1. CASE d = c
    <3>1. Ring(Cap[c], qcount[c] + 1, IF sendx[c] + 1 = Cap[c] THEN 0 ELSE sendx[c] + 1,
               recvx[c], [buf[c] EXCEPT ![sendx[c]] = v], Append(accepted[c], v), delivered[c])
      BY <1>1, <1>3, RingSend DEF RingOK
    <3> QED BY <1>2, <1>4, <1>5, <1>6, <1>7, <2>1, <3>1, SMT DEF RingOK
  <2>2. CASE d # c
    BY <1>2, <1>4, <1>5, <1>6, <1>7, <2>2 DEF DataOK, RingOK
  <2> QED BY <2>1, <2>2
<1>9. ASSUME NEW d \in Channel PROVE QueuesOK(d)'
  <2>1. QueuesOK(d)
    BY DEF DataOK
  <2>2. CASE d = c
    <3>1. sq[c] = <<>>
      BY <1>3, <2>1, <2>2, SMT DEF QueuesOK, Trimmed
    <3> QED BY <1>2, <2>2, <3>1 DEF QueuesOK
  <2>3. CASE d # c
    BY <1>2, <1>7, <2>1, <2>3 DEF QueuesOK, Trimmed
  <2> QED BY <2>2, <2>3
<1>10. DataOK'
  BY <1>2, <1>4, <1>5, <1>6, <1>7, <1>8, <1>9 DEF DataOK, Trimmed
<1> QED BY <1>2, <1>7, <1>10 DEF GotOK

\* Taking the head of the buffer: nobody waits afterwards for a slot.
LEMMA RecvBufferedOK ==
  ASSUME DataOK, GotOK, ControlOK, NEW g \in Goroutine, NEW c \in Channel,
         NEW sq, NEW rq, Trimmed(sendq, sq), Trimmed(recvq, rq), sq[c] = <<>>,
         qcount[c] > 0, RecvBuffered(g, c, sq, rq)
  PROVE  /\ DataOK' /\ GotOK' /\ closed' = closed
         /\ \A d \in Channel : d # c => qcount'[d] = qcount[d]
<1> DEFINE v == buf[c][recvx[c]]
<1>1. /\ Cap[c] \in Nat /\ accepted[c] \in Seq(Element) /\ delivered[c] \in Seq(Element)
      /\ qcount[c] \in Nat /\ recvx[c] \in Nat /\ RingOK(c)
  BY ChanAssumption DEF DataOK
<1>2. /\ v \in Element
      /\ Ring(Cap[c], qcount[c] - 1, sendx[c], IF recvx[c] + 1 = Cap[c] THEN 0 ELSE recvx[c] + 1,
              [buf[c] EXCEPT ![recvx[c]] = Zero], accepted[c], Append(delivered[c], v))
  BY <1>1, RingRecv DEF RingOK
<1> HIDE DEF v
<1>3. /\ got' = [got EXCEPT ![g] = v]
      /\ delivered' = [delivered EXCEPT ![c] = Append(@, v)]
      /\ buf' = [buf EXCEPT ![c][recvx[c]] = Zero]
      /\ recvx' = [recvx EXCEPT ![c] = NextSlot(c, @)]
      /\ qcount' = [qcount EXCEPT ![c] = @ - 1]
      /\ sendq' = sq /\ recvq' = rq /\ sendx' = sendx /\ closed' = closed
      /\ accepted' = accepted /\ toReady' = toReady /\ selectDone' = selectDone
  BY DEF RecvBuffered, v
<1>4. /\ delivered'[c] = Append(delivered[c], v)
      /\ \A d \in Channel : d # c => delivered'[d] = delivered[d]
      /\ delivered' \in [Channel -> Seq(Element)]
  BY <1>1, <1>2, <1>3, SMT DEF DataOK
<1>5. /\ DOMAIN buf' = Channel /\ buf'[c] = [buf[c] EXCEPT ![recvx[c]] = Zero]
      /\ \A d \in Channel : d # c => buf'[d] = buf[d]
  BY <1>3 DEF DataOK
<1>6. /\ recvx'[c] = IF recvx[c] + 1 = Cap[c] THEN 0 ELSE recvx[c] + 1
      /\ \A d \in Channel : d # c => recvx'[d] = recvx[d]
      /\ recvx' \in [Channel -> Nat]
  BY <1>1, <1>3, SMT DEF DataOK, NextSlot
<1>7. /\ qcount'[c] = qcount[c] - 1
      /\ \A d \in Channel : d # c => qcount'[d] = qcount[d]
      /\ qcount' \in [Channel -> Nat]
  BY <1>1, <1>3, SMT DEF DataOK
<1>8. ASSUME NEW d \in Channel PROVE RingOK(d)'
  <2>1. CASE d = c
    BY <1>2, <1>3, <1>4, <1>5, <1>6, <1>7, <2>1, SMT DEF RingOK
  <2>2. CASE d # c
    BY <1>3, <1>4, <1>5, <1>6, <1>7, <2>2 DEF DataOK, RingOK
  <2> QED BY <2>1, <2>2
<1>9. ASSUME NEW d \in Channel PROVE QueuesOK(d)'
  <2>1. QueuesOK(d)
    BY DEF DataOK
  <2>2. CASE d = c
    <3>1. rq[c] = <<>>
      BY <1>1, <2>1, <2>2, SMT DEF QueuesOK, Trimmed
    <3> QED BY <1>3, <2>2, <3>1 DEF QueuesOK
  <2>3. CASE d # c
    BY <1>3, <1>7, <2>1, <2>3 DEF QueuesOK, Trimmed
  <2> QED BY <2>2, <2>3
<1>10. DataOK'
  BY <1>3, <1>4, <1>5, <1>6, <1>7, <1>8, <1>9 DEF DataOK, Trimmed
<1> QED BY <1>2, <1>3, <1>7, <1>10 DEF GotOK

\* Receiving while a sender waits: from hand to hand without a buffer, else the
\* head of the full buffer, whose slot takes the sender's element.
LEMMA RecvDirectOK ==
  ASSUME NatFacts, DataOK, GotOK, ControlOK, NEW g \in Goroutine, NEW c \in Channel,
         NEW sq, NEW rq, Trimmed(sendq, sq), Trimmed(recvq, rq), LiveIn(sq[c]) # {},
         RecvDirect(g, c, sq, rq)
  PROVE  DataOK' /\ GotOK' /\ closed' = closed /\ \A d \in Channel : qcount'[d] = qcount[d]
<1> DEFINE f == FirstLive(sq[c])
           sg == sq[c][f]
           e == Elem(sg.g, sg.i)
           v == OldestElem(c, sg)
           nx == IF recvx[c] + 1 = Cap[c] THEN 0 ELSE recvx[c] + 1
<1>1. /\ Cap[c] \in Nat /\ accepted[c] \in Seq(Element) /\ delivered[c] \in Seq(Element)
      /\ qcount[c] \in Nat /\ recvx[c] \in Nat /\ RingOK(c)
      /\ sq[c] \in Seq(Sudogs) /\ sq \in [Channel -> Seq(Sudogs)]
  BY ChanAssumption DEF DataOK, Trimmed
<1>2. sg \in Sudogs /\ Rest(sq[c]) \in Seq(Sudogs) /\ sq[c] # <<>>
  BY <1>1, FirstLiveFacts
<1>3. e \in Element
  <2>1. sg.g \in Goroutine /\ sg.i \in Nat
    <3> HIDE DEF sg
    <3> QED BY <1>2 DEF Sudogs
  <2> HIDE DEF sg
  <2> QED BY <2>1, ElemType
<1>4. qcount[c] = Cap[c]
  BY <1>2 DEF Trimmed, DataOK, QueuesOK
<1>5. v = IF Cap[c] = 0 THEN e ELSE buf[c][recvx[c]]
  BY DEF OldestElem
<1>6. /\ sendq' = [sq EXCEPT ![c] = Rest(@)] /\ recvq' = rq
      /\ SetDone({sg})
      /\ got' = [got EXCEPT ![g] = v]
      /\ IF Cap[c] = 0
         THEN buf' = buf /\ recvx' = recvx /\ sendx' = sendx
         ELSE /\ buf' = [buf EXCEPT ![c][recvx[c]] = e]
              /\ recvx' = [recvx EXCEPT ![c] = nx]
              /\ sendx' = [sendx EXCEPT ![c] = nx]
      /\ qcount' = [qcount EXCEPT ![c] = qcount[c]]
      /\ toReady' = [toReady EXCEPT ![g] = {sg}]
      /\ accepted' = [accepted EXCEPT ![c] = Append(@, e)]
      /\ delivered' = [delivered EXCEPT ![c] = Append(@, v)]
      /\ closed' = closed
  BY DEF RecvDirect, NextSlot, CountKept
<1> HIDE DEF v, e, sg, f
<1>7. /\ v \in Element
      /\ Cap[c] = 0 => Ring(0, 0, sendx[c], recvx[c], buf[c], Append(accepted[c], e),
                            Append(delivered[c], v))
      /\ Cap[c] # 0 => Ring(Cap[c], Cap[c], nx, nx, [buf[c] EXCEPT ![recvx[c]] = e],
                            Append(accepted[c], e), Append(delivered[c], v))
  <2>1. CASE Cap[c] = 0
    <3>1. Ring(0, 0, sendx[c], recvx[c], buf[c], accepted[c], delivered[c])
      BY <1>1, <1>4, <2>1 DEF RingOK
    <3> QED BY <1>3, <1>5, <2>1, <3>1, RingPass, SMT
  <2>2. CASE Cap[c] # 0
    <3>1. Ring(Cap[c], Cap[c], sendx[c], recvx[c], buf[c], accepted[c], delivered[c])
      BY <1>1, <1>4 DEF RingOK
    <3>2. Cap[c] > 0
      BY <1>1, <2>2, SMT
    <3>3. /\ buf[c][recvx[c]] \in Element
          /\ Ring(Cap[c], Cap[c], nx, nx, [buf[c] EXCEPT ![recvx[c]] = e],
                  Append(accepted[c], e), Append(delivered[c], buf[c][recvx[c]]))
      BY <1>1, <1>3, <3>1, <3>2, RingSwap
    <3> QED BY <1>5, <2>2, <3>3
  <2> QED BY <2>1, <2>2
<1>8. nx \in Nat
  BY <1>1, SMT
<1> HIDE DEF nx
<1>9. /\ accepted'[c] = Append(accepted[c], e) /\ delivered'[c] = Append(delivered[c], v)
      /\ \A d \in Channel : d # c => accepted'[d] = accepted[d] /\ delivered'[d] = delivered[d]
      /\ accepted' \in [Channel -> Seq(Element)] /\ delivered' \in [Channel -> Seq(Element)]
  BY <1>1, <1>3, <1>6, <1>7, SMT DEF DataOK
<1>10. /\ DOMAIN buf' = Channel /\ sendx' \in [Channel -> Nat] /\ recvx' \in [Channel -> Nat]
       /\ \A d \in Channel : d # c =>
            buf'[d] = buf[d] /\ sendx'[d] = sendx[d] /\ recvx'[d] = recvx[d]
  <2>1. DOMAIN buf' = Channel /\ \A d \in Channel : d # c => buf'[d] = buf[d]
    BY <1>6 DEF DataOK
  <2>2. sendx' \in [Channel -> Nat] /\ \A d \in Channel : d # c => sendx'[d] = sendx[d]
    BY <1>6, <1>8, ZenonT(40) DEF DataOK
  <2>3. recvx' \in [Channel -> Nat] /\ \A d \in Channel : d # c => recvx'[d] = recvx[d]
    BY <1>6, <1>8, ZenonT(40) DEF DataOK
  <2> QED BY <2>1, <2>2, <2>3
<1>11. qcount' = qcount /\ \A d \in Channel : qcount'[d] = qcount[d]
  BY <1>6 DEF DataOK
<1>12. RingOK(c)'
  <2>1. CASE Cap[c] = 0
    BY <1>4, <1>6, <1>7, <1>9, <1>11, <2>1 DEF RingOK
  <2>2. CASE Cap[c] # 0
    <3>1. buf'[c] = [buf[c] EXCEPT ![recvx[c]] = e] /\ recvx'[c] = nx /\ sendx'[c] = nx
      BY <1>6, <2>2 DEF DataOK
    <3> QED BY <1>4, <1>7, <1>9, <1>11, <2>2, <3>1 DEF RingOK
  <2> QED BY <2>1, <2>2
<1>13. ASSUME NEW d \in Channel PROVE RingOK(d)'
  <2>1. CASE d # c
    BY <1>9, <1>10, <1>11, <2>1 DEF DataOK, RingOK
  <2> QED BY <1>12, <2>1
<1>14. recvq' \in [Channel -> Seq(Sudogs)] /\ sendq' \in [Channel -> Seq(Sudogs)]
  BY <1>1, <1>2, <1>6 DEF Trimmed
<1>15. ASSUME NEW d \in Channel PROVE QueuesOK(d)'
  <2>1. QueuesOK(d)
    BY DEF DataOK
  <2>2. sendq'[d] # <<>> => qcount[d] = Cap[d]
    BY <1>1, <1>4, <1>6, <2>1 DEF QueuesOK, Trimmed
  <2>3. recvq'[d] # <<>> => qcount[d] = 0
    BY <1>6, <2>1 DEF QueuesOK, Trimmed
  <2> QED BY <1>11, <2>2, <2>3 DEF QueuesOK
<1>16. GotOK'
  BY <1>6, <1>7 DEF GotOK
<1>17. toReady' \in [Goroutine -> SUBSET Sudogs]
  BY <1>2, <1>6 DEF DataOK
<1>18. selectDone' \in [Goroutine -> BOOLEAN]
  BY <1>6 DEF SetDone
<1>19. DataOK'
  BY <1>9, <1>10, <1>11, <1>13, <1>14, <1>15, <1>17, <1>18 DEF DataOK
<1> QED BY <1>6, <1>11, <1>16, <1>19

\* Everything but the queues as it was, and no queue longer.
LEMMA QueuesOnlyOK ==
  ASSUME DataOK, UNCHANGED <<qcount, sendx, recvx, buf, accepted, delivered>>,
         toReady' \in [Goroutine -> SUBSET Sudogs], selectDone' \in [Goroutine -> BOOLEAN],
         sendq' \in [Channel -> Seq(Sudogs)], recvq' \in [Channel -> Seq(Sudogs)],
         \A c \in Channel : sendq'[c] # <<>> => sendq[c] # <<>> \/ qcount[c] = Cap[c],
         \A c \in Channel : recvq'[c] # <<>> => recvq[c] # <<>> \/ qcount[c] = 0
  PROVE  DataOK'
<1>1. ASSUME NEW c \in Channel PROVE RingOK(c)'
  BY DEF DataOK, RingOK
<1>2. ASSUME NEW c \in Channel PROVE QueuesOK(c)'
  BY DEF DataOK, QueuesOK
<1> QED BY <1>1, <1>2 DEF DataOK

\* When no element moves, trimmed queues stay in order.
LEMMA NoTransferOK ==
  ASSUME DataOK, NEW sq, NEW rq, Trimmed(sendq, sq), Trimmed(recvq, rq), NoTransfer(sq, rq)
  PROVE  DataOK' /\ qcount' = qcount /\ closed' = closed
<1>1. /\ UNCHANGED <<qcount, sendx, recvx, buf, accepted, delivered, toReady, selectDone>>
      /\ closed' = closed /\ sendq' = sq /\ recvq' = rq
  BY DEF NoTransfer, chanVars, histVars
<1>2. DataOK'
  BY <1>1, QueuesOnlyOK DEF DataOK, Trimmed
<1> QED BY <1>1, <1>2


-----------------------------------------------------------------------------
(* What a step of one goroutine leaves to the others *)

\* A step of h leaves the others where they are, unless it makes a waiting one
\* ready, and touches neither the locks they hold nor the buffers behind them.
Frame(h) ==
  /\ \A g \in Goroutine \ {h} :
       /\ call'[g] = call[g] /\ need'[g] = need[g] /\ commit'[g] = commit[g]
       /\ pc'[g] = pc[g] \/ (pc[g] = "waiting" /\ pc'[g] = Resume(g))
  /\ \A c \in Channel, g \in Goroutine \ {h} :
       lock[c] = g => lock'[c] = g /\ qcount'[c] = qcount[c]

StepOK(h) == DataOK' /\ GotOK' /\ ControlOK' /\ Frame(h) /\ PlaceOK(h)'

\* What a goroutine relies on survives the steps of the others.
LEMMA FrameKeeps ==
  ASSUME ControlOK, NEW h \in Goroutine, NEW g \in Goroutine \ {h}, Frame(h), PlaceOK(g)
  PROVE  PlaceOK(g)'
<1>1. /\ call'[g] = call[g] /\ need'[g] = need[g] /\ commit'[g] = commit[g]
      /\ \A c \in Channel : lock[c] = g => lock'[c] = g /\ qcount'[c] = qcount[c]
  BY DEF Frame
<1>2. /\ Ch(g)' = Ch(g) /\ Cases(g)' = Cases(g)
      /\ \A i : CaseChan(g, i)' = CaseChan(g, i) /\ Sends(g, i)' = Sends(g, i)
  BY <1>1 DEF Ch, Cases, CaseChan, Sends
<1>3. \A i \in Cases(g) : CaseChan(g, i) \in Channel
  BY CaseTypes
<1>4. commit[g] \in Seq(Channel)
  BY DEF ControlOK
<1>5. \A k \in DOMAIN commit[g] : commit[g][k] \in Channel
  BY <1>4, SMT
<1>6. \A k \in DOMAIN commit'[g] :
        /\ lock'[commit'[g][k]] = g
        /\ \E m \in DOMAIN need'[g] : need'[g][m] = commit'[g][k]
        /\ \A m \in 1 .. k : commit'[g][m] <= commit'[g][k]
  BY <1>1, <1>5, SMT DEF PlaceOK
<1>7. CASE pc'[g] = pc[g]
  <2>1. pc'[g] \in Plain => call'[g].kind # "select" /\ Len(call'[g].cases) = 1 /\ Ch(g)' \in Channel
    BY <1>1, <1>2, <1>7 DEF PlaceOK
  <2>2. pc'[g] \in {"park", "drain"} => lock'[Ch(g)'] = g
    BY <1>1, <1>2, <1>7 DEF PlaceOK, Plain
  <2>3. pc'[g] \in {"sellock", "pass1", "pass2"} => call'[g].kind = "select"
    BY <1>1, <1>7 DEF PlaceOK
  <2>4. pc'[g] \in {"pass1", "pass2"} => \A i \in Cases(g) : lock'[CaseChan(g, i)] = g
    BY <1>1, <1>3, <1>7 DEF PlaceOK
  <2>5. pc'[g] = "sellock" =>
          \A i \in Cases(g) : \/ lock'[CaseChan(g, i)] = g
                              \/ \E k \in DOMAIN need'[g] : need'[g][k] = CaseChan(g, i)
    BY <1>1, <1>3, <1>7, SMT DEF PlaceOK
  <2>6. pc'[g] = "pass2" =>
          \A i \in Cases(g) :
            qcount'[CaseChan(g, i)] = IF Sends(g, i) THEN Cap[CaseChan(g, i)] ELSE 0
    BY <1>1, <1>3, <1>7 DEF PlaceOK
  <2>7. commit'[g] # <<>> => pc'[g] \in {"waiting", "relock"} /\ call'[g].kind = "select"
    BY <1>1, <1>7 DEF PlaceOK
  <2> QED BY <1>2, <1>6, <2>1, <2>2, <2>3, <2>4, <2>5, <2>6, <2>7, SMT DEF PlaceOK
<1>8. CASE pc[g] = "waiting" /\ pc'[g] = Resume(g)
  <2>1. pc'[g] = IF call[g].kind = "select" THEN "relock" ELSE "woken"
    BY <1>8 DEF Resume
  <2>2. commit[g] # <<>> => call[g].kind = "select"
    BY DEF PlaceOK
  <2>3. pc'[g] \notin Plain /\ pc'[g] \notin {"park", "drain", "sellock", "pass1", "pass2"}
    BY <2>1 DEF Plain
  <2>4. commit'[g] # <<>> => pc'[g] \in {"waiting", "relock"} /\ call'[g].kind = "select"
    BY <1>1, <2>1, <2>2
  <2> QED BY <1>6, <2>3, <2>4 DEF PlaceOK
<1> QED BY <1>7, <1>8 DEF Frame

\* A step of one goroutine that is good for it is good for all.
LEMMA StepIInv ==
  ASSUME IInv, NEW h \in Goroutine, StepOK(h)
  PROVE  IInv'
<1>1. ASSUME NEW g \in Goroutine PROVE PlaceOK(g)'
  BY FrameKeeps DEF StepOK, IInv
<1> QED BY <1>1 DEF StepOK, IInv

\* Outside the places PlaceOK speaks of there is nothing to show.
LEMMA ElsewhereOK ==
  ASSUME NEW h \in Goroutine, commit'[h] = <<>>, pc'[h] \notin Plain,
         pc'[h] \notin {"sellock", "pass1", "pass2"}
  PROVE  PlaceOK(h)'
BY SMT DEF PlaceOK, Plain

\* A plain operation before its locked part, or holding the lock of its channel.
LEMMA PlainPlace ==
  ASSUME NEW h \in Goroutine, commit'[h] = <<>>,
         pc'[h] \in {"close", "lock", "fastSend", "fastRecv", "drain"},
         call'[h].kind # "select", Len(call'[h].cases) = 1, Ch(h)' \in Channel,
         pc'[h] = "drain" => lock'[Ch(h)'] = h
  PROVE  PlaceOK(h)'
<1>1. pc'[h] \notin {"park", "sellock", "pass1", "pass2"}
  OBVIOUS
<1> QED BY <1>1, SMT DEF PlaceOK

\* A select that begins: it holds no lock and has still to take those it needs.
LEMMA SelectPlace ==
  ASSUME NEW h \in Goroutine, commit'[h] = <<>>, call'[h].kind = "select",
         pc'[h] \in {"pass1", "sellock"}, pc'[h] = "pass1" => Cases(h)' = {},
         \A i \in Cases(h)' : \E k \in DOMAIN need'[h] : need'[h][k] = CaseChan(h, i)'
  PROVE  PlaceOK(h)'
<1>1. pc'[h] \notin Plain /\ pc'[h] \notin {"park", "drain", "pass2"}
  BY DEF Plain
<1> QED BY <1>1, SMT DEF PlaceOK

\* selparkcommit is through when the goroutine is not waiting or waking up.
LEMMA NoCommit ==
  ASSUME IInv, NEW h \in Goroutine, pc[h] \notin {"waiting", "relock"}
  PROVE  commit[h] = <<>>
BY DEF IInv, PlaceOK

-----------------------------------------------------------------------------
(* One lemma for each action *)

Results == {"none", "ok", "closed", "no", "panic"}

\* Steps that change nothing but the place and the results of the goroutine.
LEMMA QuietStep ==
  ASSUME IInv, NEW h \in Goroutine, NEW l \in Label, pc[h] \notin {"waiting", "relock"},
         Goto(h, l), UNCHANGED <<chanVars, queueVars, toReady, selectDone, histVars>>,
         UNCHANGED <<lockVars, call, calls>>, GotOK',
         param' \in [Goroutine -> Nat], success' \in [Goroutine -> BOOLEAN],
         res' \in [Goroutine -> Results], chosen' \in [Goroutine -> Nat],
         \/ l \notin Plain /\ l \notin {"sellock", "pass1", "pass2"}
         \/ l \in Plain \ {"park", "drain"} /\ pc[h] \in Plain
  PROVE  StepOK(h)
<1>1. ControlOK /\ DataOK /\ PlaceOK(h)
  BY DEF IInv
<1>2. /\ lock' = lock /\ need' = need /\ commit' = commit /\ call' = call /\ calls' = calls
      /\ qcount' = qcount /\ closed' = closed
  BY DEF lockVars, chanVars
<1>3. pc' = [pc EXCEPT ![h] = l]
  BY DEF Goto
<1>4. DataOK'
  <2>1. NoTransfer(sendq, recvq)
    BY DEF NoTransfer, queueVars
  <2> QED BY <1>1, <2>1, SelfTrims, NoTransferOK DEF DataOK
<1>5. ControlOK'
  BY <1>1, <1>2, <1>3 DEF ControlOK, Results
<1>6. pc'[h] = l /\ \A g \in Goroutine : g # h => pc'[g] = pc[g]
  BY <1>1, <1>3 DEF ControlOK
<1>7. Frame(h)
  <2>1. ASSUME NEW g \in Goroutine \ {h}
        PROVE  call'[g] = call[g] /\ need'[g] = need[g] /\ commit'[g] = commit[g] /\ pc'[g] = pc[g]
    BY <1>2, <1>6
  <2>2. \A c : lock'[c] = lock[c] /\ qcount'[c] = qcount[c]
    BY <1>2
  <2>3. ASSUME NEW c \in Channel, NEW g \in Goroutine \ {h}, lock[c] = g
        PROVE  lock'[c] = g /\ qcount'[c] = qcount[c]
    BY <2>2, <2>3
  <2> QED BY <2>1, <2>3 DEF Frame
<1>8. commit'[h] = <<>>
  BY <1>2, NoCommit
<1>9. PlaceOK(h)'
  <2>1. CASE l \notin Plain /\ l \notin {"sellock", "pass1", "pass2"}
    BY <1>6, <1>8, <2>1, ElsewhereOK
  <2>2. CASE l \in Plain \ {"park", "drain"} /\ pc[h] \in Plain
    <3>1. call'[h].kind # "select" /\ Len(call'[h].cases) = 1 /\ Ch(h)' \in Channel
      BY <1>1, <1>2, <2>2 DEF PlaceOK, Ch
    <3>2. pc'[h] \notin {"park", "drain", "sellock", "pass1", "pass2", "waiting", "relock"}
      BY <1>6, <2>2 DEF Plain
    <3> QED BY <1>8, <3>1, <3>2, SMT DEF PlaceOK
  <2> QED BY <2>1, <2>2
<1> QED BY <1>4, <1>5, <1>7, <1>9 DEF StepOK

\* A read on the fast path.
LEMMA ReadStep ==
  ASSUME IInv, NEW h \in Goroutine, NEW l \in Plain \ {"park", "drain"}, pc[h] \in Plain, Read(h, l)
  PROVE  StepOK(h)
<1>1. pc[h] \notin {"waiting", "relock"} /\ l \in Label
  BY DEF Plain, Label
<1>2. /\ Goto(h, l) /\ UNCHANGED <<chanVars, queueVars, toReady, selectDone, histVars>>
      /\ UNCHANGED <<lockVars, call, calls>>
      /\ got' = got /\ param' = param /\ success' = success /\ res' = res /\ chosen' = chosen
  BY DEF Read, wakeVars
<1>3. /\ GotOK' /\ param' \in [Goroutine -> Nat] /\ success' \in [Goroutine -> BOOLEAN]
      /\ res' \in [Goroutine -> Results] /\ chosen' \in [Goroutine -> Nat]
  BY <1>2 DEF IInv, GotOK, ControlOK, Results
<1> QED BY <1>1, <1>2, <1>3, QuietStep

\* A return without the lock.
LEMMA ReturnStep ==
  ASSUME IInv, NEW h \in Goroutine, NEW r \in Results, NEW i \in Nat,
         pc[h] \notin {"waiting", "relock"}, Return(h, r, i), GotOK',
         param' \in [Goroutine -> Nat], success' \in [Goroutine -> BOOLEAN],
         UNCHANGED <<chanVars, queueVars, toReady, selectDone, histVars>>,
         UNCHANGED <<lockVars, call, calls>>
  PROVE  StepOK(h)
<1>1. "idle" \in Label /\ "idle" \notin Plain
  BY DEF Label, Plain
<1>2. Goto(h, "idle")
  BY DEF Return
<1>3. res' \in [Goroutine -> Results] /\ chosen' \in [Goroutine -> Nat]
  BY DEF Return, IInv, ControlOK, Results
<1> QED BY <1>1, <1>2, <1>3, QuietStep

\* The fast path of a send.
LEMMA FastSendStep ==
  ASSUME IInv, NEW h \in Goroutine, FastSend(h)
  PROVE  StepOK(h)
<1>1. pc[h] \in Plain /\ pc[h] \notin {"waiting", "relock"}
  BY DEF FastSend, Plain
<1>2. \/ \E l \in {"lock", "thenFull", "thenClosed"} : Read(h, l)
      \/ ReturnOnly(h, "no")
  BY DEF FastSend
<1>3. CASE \E l \in {"lock", "thenFull", "thenClosed"} : Read(h, l)
  <2>1. PICK l \in {"lock", "thenFull", "thenClosed"} : Read(h, l)
    BY <1>3
  <2>2. l \in Plain \ {"park", "drain"}
    BY DEF Plain
  <2> QED BY <1>1, <2>1, <2>2, ReadStep
<1>4. CASE ReturnOnly(h, "no")
  <2>1. "no" \in Results /\ 0 \in Nat
    BY DEF Results
  <2>2. /\ Return(h, "no", 0) /\ got' = got /\ param' = param /\ success' = success
        /\ UNCHANGED <<chanVars, queueVars, toReady, selectDone, histVars>>
        /\ UNCHANGED <<lockVars, call, calls>>
    BY <1>4 DEF ReturnOnly, wakeVars
  <2>3. GotOK' /\ param' \in [Goroutine -> Nat] /\ success' \in [Goroutine -> BOOLEAN]
    BY <2>2 DEF IInv, GotOK, ControlOK
  <2> QED BY <1>1, <2>1, <2>2, <2>3, ReturnStep
<1> QED BY <1>2, <1>3, <1>4

\* The fast path of a receive.
LEMMA FastRecvStep ==
  ASSUME IInv, NEW h \in Goroutine, FastRecv(h)
  PROVE  StepOK(h)
<1>1. pc[h] \in Plain /\ pc[h] \notin {"waiting", "relock"}
  BY DEF FastRecv, Plain
<1>2. \/ \E l \in {"lock", "rclosed", "rempty"} : Read(h, l)
      \/ /\ \E r \in {"no", "closed"}, i \in {0, 1} : Return(h, r, i)
         /\ got' = got \/ got' = [got EXCEPT ![h] = Zero]
         /\ UNCHANGED <<chanVars, queueVars, lockVars, call, calls, toReady, wakeVars, histVars>>
  BY DEF FastRecv, ReturnOnly
<1>3. CASE \E l \in {"lock", "rclosed", "rempty"} : Read(h, l)
  <2>1. PICK l \in {"lock", "rclosed", "rempty"} : Read(h, l)
    BY <1>3
  <2>2. l \in Plain \ {"park", "drain"}
    BY DEF Plain
  <2> QED BY <1>1, <2>1, <2>2, ReadStep
<1>4. CASE /\ \E r \in {"no", "closed"}, i \in {0, 1} : Return(h, r, i)
           /\ got' = got \/ got' = [got EXCEPT ![h] = Zero]
           /\ UNCHANGED <<chanVars, queueVars, lockVars, call, calls, toReady, wakeVars, histVars>>
  <2>1. PICK r \in {"no", "closed"}, i \in {0, 1} : Return(h, r, i)
    BY <1>4
  <2>2. r \in Results /\ i \in Nat
    BY SMT DEF Results
  <2>3. /\ param' = param /\ success' = success
        /\ UNCHANGED <<chanVars, queueVars, toReady, selectDone, histVars>>
        /\ UNCHANGED <<lockVars, call, calls>>
    BY <1>4 DEF wakeVars
  <2>4. GotOK' /\ param' \in [Goroutine -> Nat] /\ success' \in [Goroutine -> BOOLEAN]
    BY <1>4, <2>3 DEF IInv, GotOK, ControlOK
  <2> QED BY <1>1, <2>1, <2>2, <2>3, <2>4, ReturnStep
<1> QED BY <1>2, <1>3, <1>4

\* Steps that leave the critical section: they may have changed the channels whose
\* locks the goroutine held or found free.
LEMMA LeaveStep ==
  ASSUME IInv, NEW h \in Goroutine, NEW l \in Label, pc[h] \notin {"waiting", "relock"},
         Goto(h, l), l \notin Plain, l \notin {"sellock", "pass1", "pass2"},
         DataOK', GotOK', closed' \in [Channel -> BOOLEAN],
         lock' \in [Channel -> Goroutine \cup {Free}],
         \A d \in Channel : lock[d] \notin {h, Free} => lock'[d] = lock[d] /\ qcount'[d] = qcount[d],
         need' = need, commit' = commit, call' = call, calls' = calls,
         param' \in [Goroutine -> Nat], success' \in [Goroutine -> BOOLEAN],
         res' \in [Goroutine -> Results], chosen' \in [Goroutine -> Nat]
  PROVE  StepOK(h)
<1>1. ControlOK
  BY DEF IInv
<1>2. pc' = [pc EXCEPT ![h] = l]
  BY DEF Goto
<1>3. ControlOK'
  BY <1>1, <1>2 DEF ControlOK, Results
<1>4. pc'[h] = l /\ \A g \in Goroutine : g # h => pc'[g] = pc[g]
  BY <1>1, <1>2 DEF ControlOK
<1>5. Frame(h)
  <2>1. ASSUME NEW g \in Goroutine \ {h}
        PROVE  call'[g] = call[g] /\ need'[g] = need[g] /\ commit'[g] = commit[g] /\ pc'[g] = pc[g]
    BY <1>4
  <2>2. ASSUME NEW c \in Channel, NEW g \in Goroutine \ {h}, lock[c] = g
        PROVE  lock'[c] = g /\ qcount'[c] = qcount[c]
    BY <2>2, ChanAssumption
  <2> QED BY <2>1, <2>2 DEF Frame
<1>6. commit'[h] = <<>>
  BY NoCommit
<1>7. PlaceOK(h)'
  BY <1>4, <1>6, ElsewhereOK
<1> QED BY <1>3, <1>5, <1>7 DEF StepOK

\* After an element has moved the goroutine returns or makes its partner ready.
LEMMA MovedTypes ==
  ASSUME IInv, NEW h \in Goroutine, NEW i \in Nat, NEW b \in BOOLEAN, Moved(h, i, b)
  PROVE  /\ \E l \in {"wake", "idle"} : Goto(h, l)
         /\ res' \in [Goroutine -> Results] /\ chosen' \in [Goroutine -> Nat]
BY DEF Moved, Return, IInv, ControlOK, Results

\* A return leaves the goroutine idle with an outcome of the right type.
LEMMA ReturnTypes ==
  ASSUME IInv, NEW h \in Goroutine, NEW i \in Nat, NEW r \in Results, Return(h, r, i)
  PROVE  /\ \E l \in {"wake", "idle"} : Goto(h, l)
         /\ res' \in [Goroutine -> Results] /\ chosen' \in [Goroutine -> Nat]
BY DEF Return, IInv, ControlOK, Results

\* A send, receive or select that returns or hands over with the lock as it was.
LEMMA DoneStep ==
  ASSUME IInv, NEW h \in Goroutine, NEW c \in Channel, lock[c] = Free, pc[h] = "lock",
         DataOK', GotOK', closed' = closed, \A d \in Channel : d # c => qcount'[d] = qcount[d],
         \E l \in {"wake", "idle"} : Goto(h, l),
         res' \in [Goroutine -> Results], chosen' \in [Goroutine -> Nat],
         UNCHANGED <<lock, param, success>>, UNCHANGED <<need, commit, call, calls>>
  PROVE  StepOK(h)
<1>1. PICK l \in {"wake", "idle"} : Goto(h, l)
  OBVIOUS
<1>2. l \in Label /\ l \notin Plain /\ l \notin {"sellock", "pass1", "pass2"}
  BY DEF Label, Plain
<1>3. /\ closed' \in [Channel -> BOOLEAN] /\ lock' \in [Channel -> Goroutine \cup {Free}]
      /\ param' \in [Goroutine -> Nat] /\ success' \in [Goroutine -> BOOLEAN]
  BY DEF IInv, ControlOK
<1>4. \A d \in Channel : lock[d] \notin {h, Free} => lock'[d] = lock[d] /\ qcount'[d] = qcount[d]
  OBVIOUS
<1>5. pc[h] \notin {"waiting", "relock"}
  OBVIOUS
<1> QED BY <1>1, <1>2, <1>3, <1>4, <1>5, LeaveStep

\* A goroutine that queues up keeps the lock of its channel.
LEMMA EnqueueStep ==
  ASSUME IInv, NEW h \in Goroutine, pc[h] = "lock", lock[Ch(h)] = Free, NEW sq, NEW rq,
         Enqueue(h, sq, rq), sq \in [Channel -> Seq(Sudogs)], rq \in [Channel -> Seq(Sudogs)],
         \A c \in Channel : sq[c] # <<>> => sendq[c] # <<>> \/ qcount[c] = Cap[c],
         \A c \in Channel : rq[c] # <<>> => recvq[c] # <<>> \/ qcount[c] = 0,
         lock' = [lock EXCEPT ![Ch(h)] = h], UNCHANGED <<need, commit, call, calls>>
  PROVE  StepOK(h)
<1>1. ControlOK /\ DataOK /\ GotOK /\ PlaceOK(h)
  BY DEF IInv
<1>2. /\ sendq' = sq /\ recvq' = rq /\ param' = [param EXCEPT ![h] = 0]
      /\ pc' = [pc EXCEPT ![h] = "park"]
      /\ UNCHANGED <<qcount, sendx, recvx, buf, accepted, delivered>>
      /\ closed' = closed /\ toReady' = toReady /\ success' = success
      /\ selectDone' = selectDone /\ got' = got /\ res' = res /\ chosen' = chosen
  BY DEF Enqueue, Goto, chanVars, histVars
<1>3. DataOK'
  <2>1. toReady' \in [Goroutine -> SUBSET Sudogs] /\ selectDone' \in [Goroutine -> BOOLEAN]
    BY <1>1, <1>2 DEF DataOK
  <2> QED BY <1>1, <1>2, <2>1, QueuesOnlyOK
<1>4. GotOK'
  BY <1>1, <1>2 DEF GotOK
<1>5. ControlOK'
  <2>1. "park" \in Label
    BY DEF Label
  <2> QED BY <1>1, <1>2, <2>1 DEF ControlOK
<1>6. pc'[h] = "park" /\ \A g \in Goroutine : g # h => pc'[g] = pc[g]
  BY <1>1, <1>2 DEF ControlOK
<1>7. Ch(h) \in Channel /\ call[h].kind # "select" /\ Len(call[h].cases) = 1 /\ Ch(h)' = Ch(h)
  BY <1>1 DEF PlaceOK, Plain, Ch
<1>8. lock'[Ch(h)] = h /\ \A c \in Channel : c # Ch(h) => lock'[c] = lock[c]
  BY <1>1, <1>7 DEF ControlOK
<1>9. Frame(h)
  <2>1. ASSUME NEW g \in Goroutine \ {h}
        PROVE  call'[g] = call[g] /\ need'[g] = need[g] /\ commit'[g] = commit[g] /\ pc'[g] = pc[g]
    BY <1>6
  <2>2. ASSUME NEW c \in Channel, NEW g \in Goroutine \ {h}, lock[c] = g
        PROVE  lock'[c] = g /\ qcount'[c] = qcount[c]
    BY <1>2, <1>8, <2>2, ChanAssumption
  <2> QED BY <2>1, <2>2 DEF Frame
<1>10. commit'[h] = <<>>
  BY NoCommit
<1>11. PlaceOK(h)'
  BY <1>6, <1>7, <1>8, <1>10, SMT DEF PlaceOK
<1> QED BY <1>3, <1>4, <1>5, <1>9, <1>11 DEF StepOK

\* A send under the lock of its channel.
LEMMA ChansendStep ==
  ASSUME NatFacts, IInv, NEW h \in Goroutine, chansend(h)
  PROVE  StepOK(h)
<1> DEFINE c == Ch(h)
           rq == Drained(recvq, {c})
<1>0. DataOK /\ GotOK /\ ControlOK /\ PlaceOK(h)
  BY DEF IInv
<1>1. pc[h] = "lock" /\ lock[c] = Free /\ UNCHANGED <<need, commit, call, calls>>
  BY DEF chansend
<1>2. c \in Channel
  BY <1>0, <1>1 DEF PlaceOK, Plain
<1>3. /\ Trimmed(sendq, sendq) /\ Trimmed(recvq, recvq) /\ Trimmed(recvq, rq) /\ rq[c] = <<>>
      /\ rq \in [Channel -> Seq(Sudogs)]
  <2>1. sendq \in [Channel -> Seq(Sudogs)] /\ recvq \in [Channel -> Seq(Sudogs)]
    BY <1>0 DEF DataOK
  <2>2. Trimmed(recvq, rq) /\ \A d \in Channel \cap {c} : rq[d] = <<>>
    BY <2>1, DrainedTrims, SMT
  <2>3. rq \in [Channel -> Seq(Sudogs)]
    BY <2>2 DEF Trimmed
  <2> HIDE DEF rq, c
  <2> QED BY <1>2, <2>1, <2>2, <2>3, SelfTrims
<1>4. \/ /\ Return(h, "panic", 1) /\ NoTransfer(sendq, recvq)
         /\ UNCHANGED <<lock, param, success, got>>
      \/ /\ LiveIn(recvq[c]) # {}
         /\ SendDirect(h, 1, c, sendq, recvq) /\ Moved(h, 1, TRUE)
         /\ UNCHANGED <<lock, param, success>>
      \/ /\ qcount[c] < Cap[c]
         /\ SendBuffered(h, 1, c, sendq, rq) /\ Moved(h, 1, FALSE)
         /\ UNCHANGED <<lock, param, success>>
      \/ /\ Return(h, "no", 0) /\ NoTransfer(sendq, rq)
         /\ UNCHANGED <<lock, param, success, got>>
      \/ /\ qcount[c] = Cap[c]
         /\ Enqueue(h, [sendq EXCEPT ![c] = Append(@, Sudog(h, 1))], rq)
         /\ lock' = [lock EXCEPT ![c] = h]
  BY DEF chansend
<1>5. {"panic", "no"} \subseteq Results /\ 0 \in Nat /\ 1 \in Nat
  BY DEF Results
<1> HIDE DEF c, rq
<1>6. CASE /\ Return(h, "panic", 1) /\ NoTransfer(sendq, recvq)
           /\ UNCHANGED <<lock, param, success, got>>
  <2>1. DataOK' /\ qcount' = qcount /\ closed' = closed
    BY <1>0, <1>3, <1>6, NoTransferOK
  <2>2. GotOK'
    BY <1>0, <1>6 DEF GotOK
  <2>3. /\ \E l \in {"wake", "idle"} : Goto(h, l)
        /\ res' \in [Goroutine -> Results] /\ chosen' \in [Goroutine -> Nat]
    BY <1>5, <1>6, ReturnTypes
  <2> QED BY <1>1, <1>2, <1>6, <2>1, <2>2, <2>3, DoneStep
<1>7. CASE /\ LiveIn(recvq[c]) # {}
           /\ SendDirect(h, 1, c, sendq, recvq) /\ Moved(h, 1, TRUE)
           /\ UNCHANGED <<lock, param, success>>
  <2>1. DataOK' /\ GotOK' /\ qcount' = qcount /\ closed' = closed
    BY <1>0, <1>2, <1>3, <1>7, SendDirectOK
  <2>2. /\ \E l \in {"wake", "idle"} : Goto(h, l)
        /\ res' \in [Goroutine -> Results] /\ chosen' \in [Goroutine -> Nat]
    BY <1>5, <1>7, MovedTypes
  <2> QED BY <1>1, <1>2, <1>7, <2>1, <2>2, DoneStep
<1>8. CASE /\ qcount[c] < Cap[c]
           /\ SendBuffered(h, 1, c, sendq, rq) /\ Moved(h, 1, FALSE)
           /\ UNCHANGED <<lock, param, success>>
  <2>1. DataOK' /\ GotOK' /\ closed' = closed /\ \A d \in Channel : d # c => qcount'[d] = qcount[d]
    BY <1>0, <1>2, <1>3, <1>8, SendBufferedOK
  <2>2. /\ \E l \in {"wake", "idle"} : Goto(h, l)
        /\ res' \in [Goroutine -> Results] /\ chosen' \in [Goroutine -> Nat]
    BY <1>5, <1>8, MovedTypes
  <2> QED BY <1>1, <1>2, <1>8, <2>1, <2>2, DoneStep
<1>9. CASE /\ Return(h, "no", 0) /\ NoTransfer(sendq, rq)
           /\ UNCHANGED <<lock, param, success, got>>
  <2>1. DataOK' /\ qcount' = qcount /\ closed' = closed
    BY <1>0, <1>3, <1>9, NoTransferOK
  <2>2. GotOK'
    BY <1>0, <1>9 DEF GotOK
  <2>3. /\ \E l \in {"wake", "idle"} : Goto(h, l)
        /\ res' \in [Goroutine -> Results] /\ chosen' \in [Goroutine -> Nat]
    BY <1>5, <1>9, ReturnTypes
  <2> QED BY <1>1, <1>2, <1>9, <2>1, <2>2, <2>3, DoneStep
<1>10. CASE /\ qcount[c] = Cap[c]
            /\ Enqueue(h, [sendq EXCEPT ![c] = Append(@, Sudog(h, 1))], rq)
            /\ lock' = [lock EXCEPT ![c] = h]
  <2> DEFINE sq == [sendq EXCEPT ![c] = Append(@, Sudog(h, 1))]
  <2>1. Sudog(h, 1) \in Sudogs
    BY <1>0, SudogType, SMT
  <2>2. sq \in [Channel -> Seq(Sudogs)]
    BY <1>0, <1>2, <2>1, SMT DEF DataOK
  <2>3. \A d \in Channel : sq[d] # <<>> => sendq[d] # <<>> \/ qcount[d] = Cap[d]
    BY <1>0, <1>10 DEF DataOK
  <2>4. \A d \in Channel : rq[d] # <<>> => recvq[d] # <<>> \/ qcount[d] = 0
    BY <1>3 DEF Trimmed
  <2>5. Enqueue(h, sq, rq)
    BY <1>10
  <2> HIDE DEF sq
  <2> QED BY <1>1, <1>3, <1>10, <2>2, <2>3, <2>4, <2>5, EnqueueStep DEF c
<1> QED BY <1>4, <1>6, <1>7, <1>8, <1>9, <1>10

\* A receive under the lock of its channel.
LEMMA ChanrecvStep ==
  ASSUME NatFacts, IInv, NEW h \in Goroutine, chanrecv(h)
  PROVE  StepOK(h)
<1> DEFINE c == Ch(h)
           sq == Drained(sendq, {c})
<1>0. DataOK /\ GotOK /\ ControlOK /\ PlaceOK(h)
  BY DEF IInv
<1>1. pc[h] = "lock" /\ lock[c] = Free /\ UNCHANGED <<need, commit, call, calls>>
  BY DEF chanrecv
<1>2. c \in Channel
  BY <1>0, <1>1 DEF PlaceOK, Plain
<1>3. /\ Trimmed(sendq, sendq) /\ Trimmed(recvq, recvq) /\ Trimmed(sendq, sq) /\ sq[c] = <<>>
      /\ sq \in [Channel -> Seq(Sudogs)]
  <2>1. sendq \in [Channel -> Seq(Sudogs)] /\ recvq \in [Channel -> Seq(Sudogs)]
    BY <1>0 DEF DataOK
  <2>2. Trimmed(sendq, sq) /\ \A d \in Channel \cap {c} : sq[d] = <<>>
    BY <2>1, DrainedTrims, SMT
  <2>3. sq \in [Channel -> Seq(Sudogs)]
    BY <2>2 DEF Trimmed
  <2> HIDE DEF sq, c
  <2> QED BY <1>2, <2>1, <2>2, <2>3, SelfTrims
<1>4. \/ /\ Return(h, "closed", 1) /\ NoTransfer(sendq, recvq)
         /\ got' = [got EXCEPT ![h] = Zero]
         /\ UNCHANGED <<lock, param, success>>
      \/ /\ LiveIn(sendq[c]) # {}
         /\ RecvDirect(h, c, sendq, recvq) /\ Moved(h, 1, TRUE)
         /\ UNCHANGED <<lock, param, success>>
      \/ /\ qcount[c] > 0
         /\ RecvBuffered(h, c, sq, recvq) /\ Moved(h, 1, FALSE)
         /\ UNCHANGED <<lock, param, success>>
      \/ /\ Return(h, "no", 0) /\ NoTransfer(sq, recvq)
         /\ UNCHANGED <<lock, param, success, got>>
      \/ /\ qcount[c] = 0
         /\ Enqueue(h, sq, [recvq EXCEPT ![c] = Append(@, Sudog(h, 1))])
         /\ lock' = [lock EXCEPT ![c] = h]
  BY DEF chanrecv
<1>5. {"closed", "no"} \subseteq Results /\ 0 \in Nat /\ 1 \in Nat
  BY DEF Results
<1> HIDE DEF c, sq
<1>6. CASE /\ Return(h, "closed", 1) /\ NoTransfer(sendq, recvq)
           /\ got' = [got EXCEPT ![h] = Zero]
           /\ UNCHANGED <<lock, param, success>>
  <2>1. DataOK' /\ qcount' = qcount /\ closed' = closed
    BY <1>0, <1>3, <1>6, NoTransferOK
  <2>2. GotOK'
    BY <1>0, <1>6 DEF GotOK
  <2>3. /\ \E l \in {"wake", "idle"} : Goto(h, l)
        /\ res' \in [Goroutine -> Results] /\ chosen' \in [Goroutine -> Nat]
    BY <1>5, <1>6, ReturnTypes
  <2> QED BY <1>1, <1>2, <1>6, <2>1, <2>2, <2>3, DoneStep
<1>7. CASE /\ LiveIn(sendq[c]) # {}
           /\ RecvDirect(h, c, sendq, recvq) /\ Moved(h, 1, TRUE)
           /\ UNCHANGED <<lock, param, success>>
  <2>1. DataOK' /\ GotOK' /\ closed' = closed /\ \A d \in Channel : qcount'[d] = qcount[d]
    BY <1>0, <1>2, <1>3, <1>7, RecvDirectOK
  <2>2. /\ \E l \in {"wake", "idle"} : Goto(h, l)
        /\ res' \in [Goroutine -> Results] /\ chosen' \in [Goroutine -> Nat]
    BY <1>5, <1>7, MovedTypes
  <2> QED BY <1>1, <1>2, <1>7, <2>1, <2>2, DoneStep
<1>8. CASE /\ qcount[c] > 0
           /\ RecvBuffered(h, c, sq, recvq) /\ Moved(h, 1, FALSE)
           /\ UNCHANGED <<lock, param, success>>
  <2>1. DataOK' /\ GotOK' /\ closed' = closed /\ \A d \in Channel : d # c => qcount'[d] = qcount[d]
    BY <1>0, <1>2, <1>3, <1>8, RecvBufferedOK
  <2>2. /\ \E l \in {"wake", "idle"} : Goto(h, l)
        /\ res' \in [Goroutine -> Results] /\ chosen' \in [Goroutine -> Nat]
    BY <1>5, <1>8, MovedTypes
  <2> QED BY <1>1, <1>2, <1>8, <2>1, <2>2, DoneStep
<1>9. CASE /\ Return(h, "no", 0) /\ NoTransfer(sq, recvq)
           /\ UNCHANGED <<lock, param, success, got>>
  <2>1. DataOK' /\ qcount' = qcount /\ closed' = closed
    BY <1>0, <1>3, <1>9, NoTransferOK
  <2>2. GotOK'
    BY <1>0, <1>9 DEF GotOK
  <2>3. /\ \E l \in {"wake", "idle"} : Goto(h, l)
        /\ res' \in [Goroutine -> Results] /\ chosen' \in [Goroutine -> Nat]
    BY <1>5, <1>9, ReturnTypes
  <2> QED BY <1>1, <1>2, <1>9, <2>1, <2>2, <2>3, DoneStep
<1>10. CASE /\ qcount[c] = 0
            /\ Enqueue(h, sq, [recvq EXCEPT ![c] = Append(@, Sudog(h, 1))])
            /\ lock' = [lock EXCEPT ![c] = h]
  <2> DEFINE rq == [recvq EXCEPT ![c] = Append(@, Sudog(h, 1))]
  <2>1. Sudog(h, 1) \in Sudogs
    BY <1>0, SudogType, SMT
  <2>2. rq \in [Channel -> Seq(Sudogs)]
    BY <1>0, <1>2, <2>1, SMT DEF DataOK
  <2>3. \A d \in Channel : rq[d] # <<>> => recvq[d] # <<>> \/ qcount[d] = 0
    BY <1>0, <1>10 DEF DataOK
  <2>4. \A d \in Channel : sq[d] # <<>> => sendq[d] # <<>> \/ qcount[d] = Cap[d]
    BY <1>3 DEF Trimmed
  <2>5. Enqueue(h, sq, rq)
    BY <1>10
  <2> HIDE DEF rq
  <2> QED BY <1>1, <1>3, <1>10, <2>2, <2>3, <2>4, <2>5, EnqueueStep DEF c
<1> QED BY <1>4, <1>6, <1>7, <1>8, <1>9, <1>10

\* A call starts: a select has its lock order to go through, a plain operation a
\* channel unless it ends here.
LEMMA StartStep ==
  ASSUME NatFacts, IInv, NEW h \in Goroutine, NEW op \in Calls[h], Start(h, op)
  PROVE  StepOK(h)
<1> DEFINE nil == op.kind # "select" /\ op.cases[1].c = Nil
           next == IF op.kind = "select" THEN IF need'[h] = <<>> THEN "pass1" ELSE "sellock"
                   ELSE IF op.kind = "close" THEN IF nil THEN "idle" ELSE "close"
                   ELSE IF nil THEN IF op.block THEN "forever" ELSE "idle"
                   ELSE IF op.block THEN "lock"
                   ELSE IF op.cases[1].dir = "send" THEN "fastSend" ELSE "fastRecv"
<1>0. DataOK /\ GotOK /\ ControlOK /\ PlaceOK(h)
  BY DEF IInv
<1>1. op \in Call /\ op.cases \in Seq(Case) /\ (op.kind # "select" => Len(op.cases) = 1)
  <2>1. op \in Call
    BY CallsAssumption
  <2> QED BY <2>1, CallsAssumption DEF Call
<1>2. /\ pc[h] = "idle" /\ calls[h] < MaxCalls
      /\ call' = [call EXCEPT ![h] = op] /\ calls' = [calls EXCEPT ![h] = @ + 1]
      /\ got' = [got EXCEPT ![h] = Old] /\ chosen' = [chosen EXCEPT ![h] = 0]
      /\ UNCHANGED <<chanVars, queueVars, lock, commit, toReady, wakeVars, histVars>>
  BY DEF Start
<1>3. PICK s \in LockOrders(op.cases) :
        need' = [need EXCEPT ![h] = IF op.kind = "select" THEN s ELSE <<>>]
  BY DEF Start
<1>4. /\ s \in Seq(Channel)
      /\ \A i \in DOMAIN op.cases : op.cases[i].c # Nil => \E k \in DOMAIN s : s[k] = op.cases[i].c
  BY <1>1, OrderFacts
<1>5. /\ pc' = [pc EXCEPT ![h] = next]
      /\ res' = [res EXCEPT ![h] =
                   IF next # "idle" THEN "none" ELSE IF op.kind = "close" THEN "panic" ELSE "no"]
  BY DEF Start, Goto
<1>6. /\ next \in Label
      /\ op.kind = "select" => next \in {"pass1", "sellock"} /\ (next = "pass1" => need'[h] = <<>>)
      /\ op.kind # "select" =>
           \/ next \in {"idle", "forever"}
           \/ next \in {"close", "lock", "fastSend", "fastRecv"} /\ op.cases[1].c # Nil
  BY DEF Label
<1> HIDE DEF next, nil
<1>7. need'[h] = (IF op.kind = "select" THEN s ELSE <<>>) /\ need' \in [Goroutine -> Seq(Channel)]
  BY <1>0, <1>3, <1>4, EmptyIsSeq DEF ControlOK
<1>8. pc'[h] = next /\ call'[h] = op /\ commit'[h] = <<>>
      /\ \A g \in Goroutine : g # h => pc'[g] = pc[g] /\ call'[g] = call[g] /\ need'[g] = need[g]
  BY <1>0, <1>2, <1>3, <1>5, NoCommit DEF ControlOK
<1>9. DataOK'
  <2>1. NoTransfer(sendq, recvq)
    BY <1>2 DEF NoTransfer, queueVars, wakeVars
  <2> QED BY <1>0, <2>1, SelfTrims, NoTransferOK DEF DataOK
<1>10. GotOK'
  BY <1>0, <1>2 DEF GotOK
<1>11. ControlOK'
  <2>1. calls' \in [Goroutine -> 0 .. MaxCalls]
    <3>1. calls[h] \in 0 .. MaxCalls /\ calls[h] < MaxCalls
      BY <1>0, <1>2 DEF ControlOK
    <3>2. calls[h] + 1 \in 0 .. MaxCalls
      BY <3>1, ChanAssumption, SMT
    <3> QED BY <1>0, <1>2, <3>2 DEF ControlOK
  <2>2. pc' \in [Goroutine -> Label] /\ call' \in [Goroutine -> Call]
    BY <1>0, <1>1, <1>2, <1>5, <1>6 DEF ControlOK
  <2>3. res' \in [Goroutine -> {"none", "ok", "closed", "no", "panic"}]
    BY <1>0, <1>5 DEF ControlOK
  <2> QED BY <1>0, <1>2, <1>7, <2>1, <2>2, <2>3 DEF ControlOK, chanVars, wakeVars
<1>12. Frame(h)
  <2>1. lock' = lock /\ qcount' = qcount /\ commit' = commit
    BY <1>2 DEF chanVars
  <2> QED BY <1>8, <2>1 DEF Frame
<1>13. Cases(h)' = {i \in DOMAIN op.cases : op.cases[i].c # Nil}
       /\ \A i : CaseChan(h, i)' = op.cases[i].c
  BY <1>8 DEF Cases, CaseChan
<1>14. PlaceOK(h)'
  <2>1. CASE op.kind = "select"
    <3>1. pc'[h] \in {"pass1", "sellock"} /\ need'[h] = s
      BY <1>6, <1>7, <1>8, <2>1
    <3>2. pc'[h] = "pass1" => Cases(h)' = {}
      BY <1>4, <1>6, <1>8, <1>13, <2>1, <3>1, SMT
    <3>3. \A i \in Cases(h)' : \E k \in DOMAIN need'[h] : need'[h][k] = CaseChan(h, i)'
      BY <1>4, <1>13, <3>1
    <3> QED BY <1>8, <2>1, <3>1, <3>2, <3>3, SelectPlace
  <2>2. CASE op.kind # "select"
    <3>1. CASE next \in {"idle", "forever"}
      <4>1. next \notin Plain /\ next \notin {"sellock", "pass1", "pass2"}
        BY <3>1 DEF Plain
      <4> QED BY <1>8, <4>1, ElsewhereOK
    <3>2. CASE next \in {"close", "lock", "fastSend", "fastRecv"} /\ op.cases[1].c # Nil
      <4>1. op.cases[1] \in Case /\ Len(op.cases) = 1
        BY <1>1, <2>2, SMT
      <4>2. Ch(h)' \in Channel
        BY <1>8, <3>2, <4>1 DEF Ch, Case
      <4> QED BY <1>8, <2>2, <3>2, <4>1, <4>2, PlainPlace
    <3> QED BY <1>6, <2>2, <3>1, <3>2
  <2> QED BY <2>1, <2>2
<1> QED BY <1>9, <1>10, <1>11, <1>12, <1>14 DEF StepOK

\* A plain operation continues after it was woken.
LEMMA WokenStep ==
  ASSUME IInv, NEW h \in Goroutine, Woken(h)
  PROVE  StepOK(h)
<1>0. DataOK /\ GotOK /\ ControlOK
  BY DEF IInv
<1>1. /\ pc[h] = "woken" /\ param' = [param EXCEPT ![h] = 0]
      /\ UNCHANGED <<chanVars, queueVars, toReady, selectDone, histVars>>
      /\ UNCHANGED <<lockVars, call, calls>> /\ success' = success /\ got' = got
  BY DEF Woken
<1>2. GotOK' /\ param' \in [Goroutine -> Nat] /\ success' \in [Goroutine -> BOOLEAN]
  BY <1>0, <1>1 DEF GotOK, ControlOK
<1>3. \/ Goto(h, "throw") /\ UNCHANGED <<res, chosen>>
      \/ \E r \in {"panic", "ok", "closed"} : Return(h, r, 1)
  BY DEF Woken
<1>4. CASE Goto(h, "throw") /\ UNCHANGED <<res, chosen>>
  <2>1. "throw" \in Label /\ "throw" \notin Plain
    BY DEF Label, Plain
  <2>2. res' \in [Goroutine -> Results] /\ chosen' \in [Goroutine -> Nat]
    BY <1>0, <1>4 DEF ControlOK, Results
  <2> QED BY <1>1, <1>2, <1>4, <2>1, <2>2, QuietStep
<1>5. CASE \E r \in {"panic", "ok", "closed"} : Return(h, r, 1)
  <2>1. PICK r \in {"panic", "ok", "closed"} : Return(h, r, 1)
    BY <1>5
  <2>2. r \in Results /\ 1 \in Nat
    BY DEF Results
  <2> QED BY <1>1, <1>2, <2>1, <2>2, ReturnStep
<1> QED BY <1>3, <1>4, <1>5

\* A close sets the flag and keeps the lock, or panics.
LEMMA CloseBeginStep ==
  ASSUME IInv, NEW h \in Goroutine, CloseBegin(h)
  PROVE  StepOK(h)
<1> DEFINE c == Ch(h)
<1>0. DataOK /\ GotOK /\ ControlOK /\ PlaceOK(h)
  BY DEF IInv
<1>1. /\ pc[h] = "close" /\ lock[c] = Free
      /\ UNCHANGED <<qcount, sendx, recvx, buf, accepted, delivered, sendq, recvq>>
      /\ UNCHANGED <<need, commit, call, calls, toReady, param, success, selectDone, got>>
  BY DEF CloseBegin, queueVars, wakeVars, histVars
<1>2. c \in Channel /\ call[h].kind # "select" /\ Len(call[h].cases) = 1 /\ c' = c
  BY <1>0, <1>1 DEF PlaceOK, Plain, Ch
<1>3. \/ Return(h, "panic", 1) /\ UNCHANGED <<closed, lock>>
      \/ /\ Goto(h, "drain") /\ closed' = [closed EXCEPT ![c] = TRUE]
         /\ lock' = [lock EXCEPT ![c] = h] /\ UNCHANGED <<res, chosen>>
  BY DEF CloseBegin
<1>4. GotOK' /\ param' \in [Goroutine -> Nat] /\ success' \in [Goroutine -> BOOLEAN]
  BY <1>0, <1>1 DEF GotOK, ControlOK
<1>5. CASE Return(h, "panic", 1) /\ UNCHANGED <<closed, lock>>
  <2>1. "panic" \in Results /\ 1 \in Nat
    BY DEF Results
  <2>2. /\ UNCHANGED <<chanVars, queueVars, toReady, selectDone, histVars>>
        /\ UNCHANGED <<lockVars, call, calls>>
    BY <1>1, <1>5 DEF chanVars, queueVars, histVars, lockVars
  <2> QED BY <1>1, <1>4, <1>5, <2>1, <2>2, ReturnStep
<1>6. CASE /\ Goto(h, "drain") /\ closed' = [closed EXCEPT ![c] = TRUE]
           /\ lock' = [lock EXCEPT ![c] = h] /\ UNCHANGED <<res, chosen>>
  <2> HIDE DEF c
  <2>1. DataOK'
    BY <1>0, <1>1, QueuesOnlyOK DEF DataOK
  <2>2. pc' = [pc EXCEPT ![h] = "drain"] /\ "drain" \in Label
    BY <1>6 DEF Goto, Label
  <2>3. ControlOK'
    BY <1>0, <1>1, <1>6, <2>2 DEF ControlOK
  <2>4. pc'[h] = "drain" /\ \A g \in Goroutine : g # h => pc'[g] = pc[g]
    BY <1>0, <2>2 DEF ControlOK
  <2>5. lock'[c] = h /\ \A d \in Channel : d # c => lock'[d] = lock[d]
    BY <1>0, <1>2, <1>6 DEF ControlOK
  <2>6. Frame(h)
    <3>1. ASSUME NEW g \in Goroutine \ {h}
          PROVE  call'[g] = call[g] /\ need'[g] = need[g] /\ commit'[g] = commit[g] /\ pc'[g] = pc[g]
      BY <1>1, <2>4
    <3>2. ASSUME NEW d \in Channel, NEW g \in Goroutine \ {h}, lock[d] = g
          PROVE  lock'[d] = g /\ qcount'[d] = qcount[d]
      BY <1>1, <2>5, <3>2, ChanAssumption
    <3> QED BY <3>1, <3>2 DEF Frame
  <2>7. commit'[h] = <<>>
    BY <1>1, NoCommit
  <2>8. PlaceOK(h)'
    <3>1. Ch(h)' \in Channel /\ lock'[Ch(h)'] = h
      BY <1>2, <2>5 DEF c
    <3> QED BY <1>1, <1>2, <2>4, <2>7, <3>1, PlainPlace
  <2> QED BY <1>4, <2>1, <2>3, <2>6, <2>8 DEF StepOK
<1> QED BY <1>3, <1>5, <1>6

\* A close empties both queues, tells the waiting goroutines and drops the lock.
LEMMA CloseDrainStep ==
  ASSUME IInv, NEW h \in Goroutine, CloseDrain(h)
  PROVE  StepOK(h)
<1> DEFINE c == Ch(h)
           readers == AllLive(recvq[c])
           writers == {sg \in AllLive(sendq[c]) : sg.isSelect => \A r \in readers : r.g # sg.g}
           released == readers \cup writers
           Of(g) == CHOOSE sg \in released : sg.g = g
           who == {sg.g : sg \in released}
<1>0. DataOK /\ GotOK /\ ControlOK /\ PlaceOK(h)
  BY DEF IInv
<1>1. /\ pc[h] = "drain" /\ Goto(h, "readyAll")
      /\ recvq' = [recvq EXCEPT ![c] = <<>>] /\ sendq' = [sendq EXCEPT ![c] = <<>>]
      /\ SetDone(released)
      /\ param' = [g \in Goroutine |-> IF g \in who THEN Of(g).i ELSE param[g]]
      /\ success' = [g \in Goroutine |-> success[g] /\ g \notin who]
      /\ got' = [g \in Goroutine |-> IF \E r \in readers : r.g = g THEN Zero ELSE got[g]]
      /\ toReady' = [toReady EXCEPT ![h] = released]
      /\ lock' = [lock EXCEPT ![c] = Free]
      /\ UNCHANGED <<chanVars, need, commit, call, calls, res, chosen, histVars>>
  BY DEF CloseDrain
<1>2. c \in Channel /\ lock[c] = h
  BY <1>0, <1>1 DEF PlaceOK, Plain
<1>3. released \subseteq Sudogs
  <2>1. ASSUME NEW q \in Seq(Sudogs) PROVE AllLive(q) \subseteq Sudogs
    BY SMT DEF AllLive, LiveIn
  <2>2. recvq[c] \in Seq(Sudogs) /\ sendq[c] \in Seq(Sudogs)
    BY <1>0, <1>2 DEF DataOK
  <2> QED BY <2>1, <2>2
<1> HIDE DEF c, readers, writers, released
<1>4. /\ UNCHANGED <<qcount, sendx, recvx, buf, accepted, delivered>>
      /\ need' = need /\ commit' = commit /\ call' = call /\ calls' = calls /\ closed' = closed
      /\ res' = res /\ chosen' = chosen
  BY <1>1 DEF chanVars, histVars
<1>5. DataOK'
  <2>1. toReady' \in [Goroutine -> SUBSET Sudogs]
    BY <1>0, <1>1, <1>3 DEF DataOK
  <2>2. selectDone' \in [Goroutine -> BOOLEAN]
    BY <1>1 DEF SetDone
  <2>3. sendq' \in [Channel -> Seq(Sudogs)] /\ recvq' \in [Channel -> Seq(Sudogs)]
    BY <1>0, <1>1, <1>2, EmptyIsSeq DEF DataOK
  <2>4. /\ \A d \in Channel : sendq'[d] # <<>> => sendq[d] # <<>>
        /\ \A d \in Channel : recvq'[d] # <<>> => recvq[d] # <<>>
    BY <1>0, <1>1 DEF DataOK
  <2> QED BY <1>0, <1>4, <2>1, <2>2, <2>3, <2>4, QueuesOnlyOK
<1>6. GotOK'
  BY <1>0, <1>1 DEF GotOK
<1>7. param' \in [Goroutine -> Nat]
  <2>1. ASSUME NEW g \in Goroutine, g \in who PROVE Of(g).i \in Nat
    <3>1. Of(g) \in released
      BY <2>1
    <3> HIDE DEF Of
    <3> QED BY <1>3, <3>1 DEF Sudogs
  <2> HIDE DEF who, Of
  <2> QED BY <1>0, <1>1, <2>1 DEF ControlOK
<1> HIDE DEF who, Of
<1>8. success' \in [Goroutine -> BOOLEAN]
  BY <1>1
<1>9. /\ closed' \in [Channel -> BOOLEAN] /\ lock' \in [Channel -> Goroutine \cup {Free}]
      /\ res' \in [Goroutine -> Results] /\ chosen' \in [Goroutine -> Nat]
  BY <1>0, <1>1, <1>4 DEF ControlOK, Results
<1>10. \A d \in Channel : lock[d] \notin {h, Free} => lock'[d] = lock[d] /\ qcount'[d] = qcount[d]
  BY <1>0, <1>1, <1>2, <1>4 DEF ControlOK
<1>11. "readyAll" \in Label /\ "readyAll" \notin Plain /\ pc[h] \notin {"waiting", "relock"}
  BY <1>1 DEF Label, Plain
<1> QED BY <1>1, <1>4, <1>5, <1>6, <1>7, <1>8, <1>9, <1>10, <1>11, LeaveStep

\* Steps that make other goroutines ready.
LEMMA ReadyStep ==
  ASSUME IInv, NEW h \in Goroutine, pc[h] \notin {"waiting", "relock"},
         pc' \in [Goroutine -> Label], pc'[h] \in {"idle", "throw", "readyAll"},
         \A g \in Goroutine : g # h => pc'[g] = pc[g] \/ (pc[g] = "waiting" /\ pc'[g] = Resume(g)),
         UNCHANGED <<chanVars, queueVars, lockVars, call, calls, selectDone, got, histVars>>,
         toReady' \in [Goroutine -> SUBSET Sudogs],
         param' \in [Goroutine -> Nat], success' \in [Goroutine -> BOOLEAN],
         res' \in [Goroutine -> Results], chosen' \in [Goroutine -> Nat]
  PROVE  StepOK(h)
<1>0. DataOK /\ GotOK /\ ControlOK
  BY DEF IInv
<1>1. /\ UNCHANGED <<qcount, sendx, recvx, buf, accepted, delivered>>
      /\ sendq' = sendq /\ recvq' = recvq /\ selectDone' = selectDone /\ got' = got
      /\ closed' = closed /\ lock' = lock /\ need' = need /\ commit' = commit
      /\ call' = call /\ calls' = calls
  BY DEF chanVars, queueVars, lockVars, histVars
<1>2. DataOK'
  BY <1>0, <1>1, QueuesOnlyOK DEF DataOK
<1>3. GotOK'
  BY <1>0, <1>1 DEF GotOK
<1>4. ControlOK'
  BY <1>0, <1>1 DEF ControlOK, Results
<1>5. Frame(h)
  BY <1>1 DEF Frame
<1>6. commit'[h] = <<>>
  BY <1>1, NoCommit
<1>7. PlaceOK(h)'
  <2>1. pc'[h] \notin Plain /\ pc'[h] \notin {"sellock", "pass1", "pass2"}
    BY DEF Plain
  <2> QED BY <1>6, <2>1, ElsewhereOK
<1> QED BY <1>2, <1>3, <1>4, <1>5, <1>7 DEF StepOK

\* send and recv make the goroutine ready that they paired with.
LEMMA WakeStep ==
  ASSUME IInv, NEW h \in Goroutine, Wake(h)
  PROVE  StepOK(h)
<1>0. DataOK /\ GotOK /\ ControlOK
  BY DEF IInv
<1>1. PICK sg \in toReady[h] :
        /\ Signal(sg)
        /\ IF pc[sg.g] = "waiting"
           THEN pc' = [pc EXCEPT ![h] = "idle", ![sg.g] = Resume(sg.g)]
           ELSE Goto(h, "throw")
  BY DEF Wake
<1>2. sg \in Sudogs
  BY <1>0 DEF DataOK
<1>3. sg.g \in Goroutine /\ sg.i \in Nat
  BY <1>2 DEF Sudogs
<1>4. /\ pc[h] = "wake" /\ toReady' = [toReady EXCEPT ![h] = {}] /\ res' = [res EXCEPT ![h] = "ok"]
      /\ UNCHANGED <<chanVars, queueVars, lockVars, call, calls, selectDone, got, histVars>>
      /\ chosen' = chosen
  BY DEF Wake
<1>5. /\ param' \in [Goroutine -> Nat] /\ success' \in [Goroutine -> BOOLEAN]
      /\ res' \in [Goroutine -> Results] /\ chosen' \in [Goroutine -> Nat]
  BY <1>0, <1>1, <1>3, <1>4 DEF Signal, ControlOK, Results
<1>6. toReady' \in [Goroutine -> SUBSET Sudogs]
  BY <1>0, <1>4 DEF DataOK
<1>7. {"idle", "throw", "relock", "woken"} \subseteq Label /\ Resume(sg.g) \in {"relock", "woken"}
  BY DEF Label, Resume
<1>8. /\ pc' \in [Goroutine -> Label] /\ pc'[h] \in {"idle", "throw", "readyAll"}
      /\ \A g \in Goroutine : g # h => pc'[g] = pc[g] \/ (pc[g] = "waiting" /\ pc'[g] = Resume(g))
  <2>1. CASE pc[sg.g] = "waiting"
    <3> DEFINE w == sg.g
               r == Resume(w)
    <3>1. w \in Goroutine /\ w # h /\ pc[w] = "waiting" /\ r \in Label
          /\ pc' = [pc EXCEPT ![h] = "idle", ![w] = r] /\ pc \in [Goroutine -> Label]
      BY <1>0, <1>1, <1>3, <1>4, <1>7, <2>1 DEF ControlOK
    <3>2. r = Resume(w)
      OBVIOUS
    <3> HIDE DEF w, r
    <3>3. /\ pc' \in [Goroutine -> Label] /\ pc'[h] = "idle" /\ pc'[w] = r
          /\ \A g \in Goroutine : g # h /\ g # w => pc'[g] = pc[g]
      BY <1>7, <3>1
    <3> QED BY <3>1, <3>2, <3>3
  <2>2. CASE pc[sg.g] # "waiting"
    BY <1>0, <1>1, <1>7, <2>2 DEF ControlOK, Goto
  <2> QED BY <2>1, <2>2
<1> QED BY <1>4, <1>5, <1>6, <1>8, ReadyStep

\* closechan makes the goroutines ready one by one, and returns.
LEMMA ReadyAllStep ==
  ASSUME IInv, NEW h \in Goroutine, ReadyAll(h)
  PROVE  StepOK(h)
<1>0. DataOK /\ GotOK /\ ControlOK
  BY DEF IInv
<1>1. /\ pc[h] = "readyAll" /\ param' = param /\ success' = success
      /\ UNCHANGED <<chanVars, queueVars, lockVars, call, calls, selectDone, got, histVars>>
  BY DEF ReadyAll, wakeVars
<1>2. param' \in [Goroutine -> Nat] /\ success' \in [Goroutine -> BOOLEAN]
  BY <1>0, <1>1 DEF ControlOK
<1>3. {"idle", "throw", "readyAll", "relock", "woken"} \subseteq Label
  BY DEF Label
<1>4. CASE Return(h, "ok", 1) /\ UNCHANGED toReady
  <2>1. res' \in [Goroutine -> Results] /\ chosen' \in [Goroutine -> Nat]
    BY <1>0, <1>4 DEF Return, ControlOK, Results
  <2>2. pc' = [pc EXCEPT ![h] = "idle"]
    BY <1>4 DEF Return, Goto
  <2>3. /\ pc' \in [Goroutine -> Label] /\ pc'[h] = "idle"
        /\ \A g \in Goroutine : g # h => pc'[g] = pc[g]
    BY <1>0, <1>3, <2>2 DEF ControlOK
  <2>4. toReady' \in [Goroutine -> SUBSET Sudogs]
    BY <1>0, <1>4 DEF DataOK
  <2> QED BY <1>1, <1>2, <2>1, <2>3, <2>4, ReadyStep
<1>5. CASE \E sg \in toReady[h] :
             /\ toReady' = [toReady EXCEPT ![h] = @ \ {sg}]
             /\ IF pc[sg.g] = "waiting" THEN Goto(sg.g, Resume(sg.g)) ELSE Goto(h, "throw")
             /\ UNCHANGED <<res, chosen>>
  <2>1. PICK sg \in toReady[h] :
             /\ toReady' = [toReady EXCEPT ![h] = @ \ {sg}]
             /\ IF pc[sg.g] = "waiting" THEN Goto(sg.g, Resume(sg.g)) ELSE Goto(h, "throw")
             /\ UNCHANGED <<res, chosen>>
    BY <1>5
  <2>2. sg \in Sudogs
    BY <1>0 DEF DataOK
  <2>3. sg.g \in Goroutine
    BY <2>2 DEF Sudogs
  <2>4. Resume(sg.g) \in {"relock", "woken"}
    BY DEF Resume
  <2>5. /\ pc' \in [Goroutine -> Label] /\ pc'[h] \in {"idle", "throw", "readyAll"}
        /\ \A g \in Goroutine : g # h => pc'[g] = pc[g] \/ (pc[g] = "waiting" /\ pc'[g] = Resume(g))
    <3>1. CASE pc[sg.g] = "waiting"
      <4> DEFINE w == sg.g
                 r == Resume(w)
      <4>1. w \in Goroutine /\ w # h /\ pc[w] = "waiting" /\ r \in Label
            /\ pc' = [pc EXCEPT ![w] = r] /\ pc \in [Goroutine -> Label]
        BY <1>0, <1>1, <1>3, <2>1, <2>3, <2>4, <3>1 DEF ControlOK, Goto
      <4>2. r = Resume(w)
        OBVIOUS
      <4> HIDE DEF w, r
      <4>3. /\ pc' \in [Goroutine -> Label] /\ pc'[h] = pc[h] /\ pc'[w] = r
            /\ \A g \in Goroutine : g # w => pc'[g] = pc[g]
        BY <4>1
      <4> QED BY <1>1, <4>1, <4>2, <4>3
    <3>2. CASE pc[sg.g] # "waiting"
      BY <1>0, <1>3, <2>1, <3>2 DEF ControlOK, Goto
    <3> QED BY <3>1, <3>2
  <2>6. toReady' \in [Goroutine -> SUBSET Sudogs]
    BY <1>0, <2>1 DEF DataOK
  <2>7. res' \in [Goroutine -> Results] /\ chosen' \in [Goroutine -> Nat]
    BY <1>0, <2>1 DEF ControlOK, Results
  <2> QED BY <1>1, <1>2, <2>5, <2>6, <2>7, ReadyStep
<1> QED BY <1>4, <1>5 DEF ReadyAll

-----------------------------------------------------------------------------
(* Parking *)

\* Dropping the first of the locks a goroutine has to drop.
LEMMA UnlockFacts ==
  ASSUME NatFacts, ControlOK, NEW h \in Goroutine, NEW s \in Seq(Channel), Sorted(s),
         \A k \in DOMAIN s : lock[s[k]] = h, Unlock(h, s)
  PROVE  /\ lock' \in [Channel -> Goroutine \cup {Free}]
         /\ commit' \in [Goroutine -> Seq(Channel)]
         /\ \A g \in Goroutine : g # h => commit'[g] = commit[g]
         /\ \A d \in Channel : lock[d] # h => lock'[d] = lock[d]
         /\ \A k \in DOMAIN commit'[h] :
              /\ lock'[commit'[h][k]] = h
              /\ \E m \in DOMAIN s : s[m] = commit'[h][k]
              /\ \A m \in 1 .. k : commit'[h][m] <= commit'[h][k]
         /\ commit'[h] # <<>> => s # <<>> /\ \E k \in DOMAIN s : s[k] # Head(s)
<1>1. CASE s = <<>>
  <2>1. lock' = lock /\ commit' = [commit EXCEPT ![h] = <<>>]
    BY <1>1 DEF Unlock
  <2>2. commit'[h] = <<>>
    BY <2>1 DEF ControlOK
  <2> QED BY <2>1, <2>2, EmptyIsSeq, SMT DEF ControlOK
<1>2. CASE s # <<>>
  <2> DEFINE p == PastHead(s)
             c == Head(s)
  <2>1. lock' = [lock EXCEPT ![c] = Free] /\ commit' = [commit EXCEPT ![h] = p]
    BY <1>2 DEF Unlock, NextChannel
  <2>2. /\ p \in Seq(Channel) /\ Sorted(p)
        /\ \A k \in DOMAIN p : p[k] # c /\ \E m \in DOMAIN s : s[m] = p[k]
    BY <1>2, PastHeadSorted
  <2>3. c \in Channel /\ lock[c] = h
    BY <1>2, SMT
  <2> HIDE DEF p, c
  <2>4. commit'[h] = p /\ commit' \in [Goroutine -> Seq(Channel)]
        /\ \A g \in Goroutine : g # h => commit'[g] = commit[g]
    BY <2>1, <2>2 DEF ControlOK
  <2>5. /\ lock' \in [Channel -> Goroutine \cup {Free}]
        /\ \A d \in Channel : d # c => lock'[d] = lock[d]
    BY <2>1, <2>3 DEF ControlOK
  <2>6. ASSUME NEW k \in DOMAIN p
        PROVE  /\ lock'[p[k]] = h /\ \E m \in DOMAIN s : s[m] = p[k]
               /\ \A m \in 1 .. k : p[m] <= p[k]
    <3>1. p[k] \in Channel /\ p[k] # c /\ lock[p[k]] = h
      BY <2>2, SMT
    <3> QED BY <2>2, <2>5, <3>1 DEF Sorted
  <2>7. ASSUME p # <<>> PROVE \E k \in DOMAIN s : s[k] # Head(s)
    <3>1. 1 \in DOMAIN p
      BY <2>2, <2>7, SMT
    <3> QED BY <2>2, <3>1 DEF c
  <2> QED BY <1>2, <2>3, <2>4, <2>5, <2>6, <2>7
<1> QED BY <1>1, <1>2

\* A goroutine counts as waiting from now on; it still holds all its locks but one.
LEMMA ParkStep ==
  ASSUME NatFacts, IInv, NEW h \in Goroutine, Park(h)
  PROVE  StepOK(h)
<1> DEFINE cases == call[h].cases
<1>0. DataOK /\ GotOK /\ ControlOK /\ PlaceOK(h)
  BY DEF IInv
<1>1. /\ pc[h] \in {"park", "pass2"} /\ Goto(h, "waiting")
      /\ UNCHANGED <<chanVars, queueVars, call, calls, toReady, wakeVars, got, res, chosen, histVars>>
  BY DEF Park
<1>2. PICK s \in LockOrders(call[h].cases) :
        /\ Unlock(h, s)
        /\ need' = [need EXCEPT ![h] = IF call[h].kind = "select" THEN s ELSE <<>>]
  BY DEF Park
<1>3. cases \in Seq(Case) /\ \A i \in Cases(h) : CaseChan(h, i) \in Channel
  BY <1>0, CaseTypes
<1>4. /\ s \in Seq(Channel)
      /\ \A k \in DOMAIN s : \E i \in DOMAIN cases : cases[i].c = s[k]
      /\ Sorted(s)
  BY <1>3, OrderFacts DEF Sorted
<1>5. ASSUME NEW k \in DOMAIN s
      PROVE  lock[s[k]] = h /\ (pc[h] = "park" => s[k] = Ch(h))
  <2>1. PICK i \in DOMAIN cases : cases[i].c = s[k]
    BY <1>4
  <2>2. s[k] \in Channel /\ s[k] # Nil
    BY <1>4, ChanAssumption, SMT
  <2>3. CASE pc[h] = "park"
    <3>1. Len(cases) = 1 /\ lock[Ch(h)] = h
      BY <1>0, <2>3 DEF PlaceOK, Plain
    <3>2. i = 1
      BY <1>3, <3>1, SMT
    <3> QED BY <2>1, <3>1, <3>2 DEF Ch
  <2>4. CASE pc[h] = "pass2"
    <3>1. i \in Cases(h) /\ CaseChan(h, i) = s[k]
      BY <2>1, <2>2 DEF Cases, CaseChan
    <3> QED BY <1>0, <2>4, <3>1 DEF PlaceOK
  <2> QED BY <1>1, <2>3, <2>4
<1>6. /\ lock' \in [Channel -> Goroutine \cup {Free}]
      /\ commit' \in [Goroutine -> Seq(Channel)]
      /\ \A g \in Goroutine : g # h => commit'[g] = commit[g]
      /\ \A d \in Channel : lock[d] # h => lock'[d] = lock[d]
      /\ \A k \in DOMAIN commit'[h] :
           /\ lock'[commit'[h][k]] = h
           /\ \E m \in DOMAIN s : s[m] = commit'[h][k]
           /\ \A m \in 1 .. k : commit'[h][m] <= commit'[h][k]
      /\ commit'[h] # <<>> => s # <<>> /\ \E k \in DOMAIN s : s[k] # Head(s)
  BY <1>0, <1>2, <1>4, <1>5, UnlockFacts, SMT
<1> HIDE DEF cases
<1>7. commit'[h] # <<>> => call[h].kind = "select"
  <2>1. CASE pc[h] = "park"
    <3>1. ASSUME commit'[h] # <<>> PROVE FALSE
      <4>1. s # <<>>
        BY <1>6, <3>1
      <4>2. 1 \in DOMAIN s /\ Head(s) = s[1]
        BY <1>4, <4>1, SMT
      <4>3. \A k \in DOMAIN s : s[k] = Ch(h)
        BY <1>5, <2>1
      <4>4. \A k \in DOMAIN s : s[k] = Head(s)
        BY <4>2, <4>3
      <4> QED BY <1>6, <3>1, <4>4
    <3> QED BY <3>1
  <2>2. CASE pc[h] = "pass2"
    BY <1>0, <2>2 DEF PlaceOK
  <2> QED BY <1>1, <2>1, <2>2
<1>8. /\ UNCHANGED <<qcount, sendx, recvx, buf, accepted, delivered>>
      /\ sendq' = sendq /\ recvq' = recvq /\ selectDone' = selectDone /\ got' = got
      /\ closed' = closed /\ call' = call /\ calls' = calls /\ toReady' = toReady
      /\ param' = param /\ success' = success /\ res' = res /\ chosen' = chosen
      /\ pc' = [pc EXCEPT ![h] = "waiting"]
  BY <1>1 DEF chanVars, queueVars, histVars, wakeVars, Goto
<1>9. need'[h] = (IF call[h].kind = "select" THEN s ELSE <<>>) /\ need' \in [Goroutine -> Seq(Channel)]
      /\ \A g \in Goroutine : g # h => need'[g] = need[g]
  BY <1>0, <1>2, <1>4, EmptyIsSeq DEF ControlOK
<1>10. DataOK'
  BY <1>0, <1>8, QueuesOnlyOK DEF DataOK
<1>11. GotOK'
  BY <1>0, <1>8 DEF GotOK
<1>12. ControlOK'
  <2>1. "waiting" \in Label
    BY DEF Label
  <2> QED BY <1>0, <1>6, <1>8, <1>9, <2>1 DEF ControlOK
<1>13. pc'[h] = "waiting" /\ \A g \in Goroutine : g # h => pc'[g] = pc[g]
  BY <1>0, <1>8 DEF ControlOK
<1>14. Frame(h)
  BY <1>6, <1>8, <1>9, <1>13 DEF Frame
<1>15. PlaceOK(h)'
  <2>1. pc'[h] \notin Plain
    BY <1>13 DEF Plain
  <2>2. CASE commit'[h] = <<>>
    BY <1>13, <2>1, <2>2, ElsewhereOK
  <2>3. CASE commit'[h] # <<>>
    <3>1. need'[h] = s /\ call'[h].kind = "select"
      BY <1>7, <1>8, <1>9, <2>3
    <3> QED BY <1>6, <1>13, <2>1, <3>1 DEF PlaceOK
  <2> QED BY <2>2, <2>3
<1> QED BY <1>10, <1>11, <1>12, <1>14, <1>15 DEF StepOK

\* selparkcommit drops the next lock; the goroutine may already be waking up.
LEMMA CommitStep ==
  ASSUME NatFacts, IInv, NEW h \in Goroutine, Commit(h)
  PROVE  StepOK(h)
<1> DEFINE s == commit[h]
<1>0. DataOK /\ GotOK /\ ControlOK /\ PlaceOK(h)
  BY DEF IInv
<1>1. /\ s # <<>> /\ Unlock(h, s)
      /\ UNCHANGED <<qcount, sendx, recvx, buf, accepted, delivered>>
      /\ sendq' = sendq /\ recvq' = recvq /\ selectDone' = selectDone /\ got' = got
      /\ closed' = closed /\ call' = call /\ calls' = calls /\ toReady' = toReady
      /\ param' = param /\ success' = success /\ res' = res /\ chosen' = chosen
      /\ pc' = pc /\ need' = need
  BY DEF Commit, chanVars, queueVars, histVars, wakeVars
<1>2. /\ s \in Seq(Channel) /\ Sorted(s) /\ \A k \in DOMAIN s : lock[s[k]] = h
      /\ \A k \in DOMAIN s : \E m \in DOMAIN need[h] : need[h][m] = s[k]
      /\ pc[h] \in {"waiting", "relock"} /\ call[h].kind = "select"
  BY <1>0, <1>1 DEF PlaceOK, ControlOK, Sorted
<1> HIDE DEF s
<1>3. /\ lock' \in [Channel -> Goroutine \cup {Free}]
      /\ commit' \in [Goroutine -> Seq(Channel)]
      /\ \A g \in Goroutine : g # h => commit'[g] = commit[g]
      /\ \A d \in Channel : lock[d] # h => lock'[d] = lock[d]
      /\ \A k \in DOMAIN commit'[h] :
           /\ lock'[commit'[h][k]] = h
           /\ \E m \in DOMAIN s : s[m] = commit'[h][k]
           /\ \A m \in 1 .. k : commit'[h][m] <= commit'[h][k]
  BY <1>0, <1>1, <1>2, UnlockFacts
<1>4. DataOK'
  BY <1>0, <1>1, QueuesOnlyOK DEF DataOK
<1>5. GotOK'
  BY <1>0, <1>1 DEF GotOK
<1>6. ControlOK'
  BY <1>0, <1>1, <1>3 DEF ControlOK
<1>7. Frame(h)
  BY <1>1, <1>3 DEF Frame
<1>8. PlaceOK(h)'
  <2>1. pc'[h] \in {"waiting", "relock"} /\ pc'[h] \notin Plain /\ call'[h].kind = "select"
    BY <1>1, <1>2 DEF Plain
  <2>2. \A k \in DOMAIN commit'[h] : \E m \in DOMAIN need'[h] : need'[h][m] = commit'[h][k]
    BY <1>1, <1>2, <1>3, SMT
  <2> QED BY <1>3, <2>1, <2>2 DEF PlaceOK
<1> QED BY <1>4, <1>5, <1>6, <1>7, <1>8 DEF StepOK

\* A select takes its next lock: the lock was free, so it is none that
\* selparkcommit has still to drop.
LEMMA SellockStep ==
  ASSUME NatFacts, IInv, NEW h \in Goroutine, sellock(h)
  PROVE  StepOK(h)
<1> DEFINE s == need[h]
           c == Head(s)
           p == PastHead(s)
           l == IF p # <<>> THEN pc[h] ELSE IF pc[h] = "sellock" THEN "pass1" ELSE "pass3"
<1>0. DataOK /\ GotOK /\ ControlOK /\ PlaceOK(h)
  BY DEF IInv
<1>1. /\ pc[h] \in {"sellock", "relock"} /\ s # <<>> /\ lock[c] = Free
      /\ lock' = [lock EXCEPT ![c] = h] /\ need' = [need EXCEPT ![h] = p]
      /\ UNCHANGED <<qcount, sendx, recvx, buf, accepted, delivered>>
      /\ sendq' = sendq /\ recvq' = recvq /\ selectDone' = selectDone /\ got' = got
      /\ closed' = closed /\ call' = call /\ calls' = calls /\ toReady' = toReady
      /\ param' = param /\ success' = success /\ res' = res /\ chosen' = chosen
      /\ commit' = commit
  BY DEF sellock, chanVars, queueVars, histVars, wakeVars
<1>2. s \in Seq(Channel)
  BY <1>0 DEF ControlOK
<1>3. /\ c \in Channel /\ p \in Seq(Channel)
      /\ \A k \in DOMAIN s : s[k] # c => \E m \in DOMAIN p : p[m] = s[k]
  <2> HIDE DEF s
  <2>1. c \in Channel
    BY <1>1, <1>2, SMT
  <2> QED BY <1>1, <1>2, <2>1, PastHeadFacts
<1>4. need'[h] = p /\ need' \in [Goroutine -> Seq(Channel)]
      /\ \A g \in Goroutine : g # h => need'[g] = need[g]
  <2> HIDE DEF s, c, p
  <2> QED BY <1>0, <1>1, <1>3 DEF ControlOK
<1>5. pc' = [pc EXCEPT ![h] = l]
  <2>1. pc' = [pc EXCEPT ![h] = IF need'[h] # <<>> THEN pc[h]
                                ELSE IF pc[h] = "sellock" THEN "pass1" ELSE "pass3"]
    BY DEF sellock, Goto
  <2> QED BY <1>4, <2>1
<1> HIDE DEF c, p
<1>6. lock'[c] = h /\ lock' \in [Channel -> Goroutine \cup {Free}]
      /\ \A d \in Channel : d # c => lock'[d] = lock[d]
  BY <1>0, <1>1, <1>3 DEF ControlOK
<1>7. l \in Label
  BY <1>1 DEF Label
<1>8. pc'[h] = l /\ \A g \in Goroutine : g # h => pc'[g] = pc[g]
  <2> HIDE DEF l
  <2> QED BY <1>0, <1>5 DEF ControlOK
<1>9. DataOK'
  BY <1>0, <1>1, QueuesOnlyOK DEF DataOK
<1>10. GotOK'
  BY <1>0, <1>1 DEF GotOK
<1>11. ControlOK'
  <2> HIDE DEF l, s
  <2> QED BY <1>0, <1>1, <1>4, <1>5, <1>6, <1>7 DEF ControlOK
<1>12. Frame(h)
  <2>1. ASSUME NEW g \in Goroutine \ {h}
        PROVE  call'[g] = call[g] /\ need'[g] = need[g] /\ commit'[g] = commit[g] /\ pc'[g] = pc[g]
    BY <1>1, <1>4, <1>8
  <2>2. ASSUME NEW d \in Channel, NEW g \in Goroutine \ {h}, lock[d] = g
        PROVE  lock'[d] = g /\ qcount'[d] = qcount[d]
    BY <1>1, <1>6, <2>2, ChanAssumption
  <2> QED BY <2>1, <2>2 DEF Frame
<1>13. ASSUME NEW k \in DOMAIN commit[h]
       PROVE  /\ lock'[commit[h][k]] = h
              /\ \E m \in DOMAIN p : p[m] = commit[h][k]
  <2>1. commit[h] \in Seq(Channel) /\ lock[commit[h][k]] = h
    BY <1>0 DEF ControlOK, PlaceOK
  <2>2. commit[h][k] \in Channel /\ commit[h][k] # c
    BY <1>1, <2>1, ChanAssumption, SMT
  <2>3. \E m \in DOMAIN s : s[m] = commit[h][k]
    BY <1>0 DEF PlaceOK
  <2> QED BY <1>3, <1>6, <2>1, <2>2, <2>3
<1>14. p = <<>> => commit[h] = <<>>
  <2>1. ASSUME p = <<>>, commit[h] # <<>> PROVE FALSE
    <3>1. commit[h] \in Seq(Channel)
      BY <1>0 DEF ControlOK
    <3>2. 1 \in DOMAIN commit[h]
      BY <2>1, <3>1, SMT
    <3> QED BY <1>13, <2>1, <3>2, SMT
  <2> QED BY <2>1
<1>15. PlaceOK(h)'
  <2>1. CASE pc[h] = "sellock"
    <3>1. call[h].kind = "select" /\ commit[h] = <<>>
      BY <1>0, <2>1 DEF PlaceOK
    <3>2. ASSUME NEW i \in Cases(h)
          PROVE  \/ lock'[CaseChan(h, i)] = h
                 \/ \E k \in DOMAIN p : p[k] = CaseChan(h, i)
      <4>1. CaseChan(h, i) \in Channel
        BY <1>0, CaseTypes
      <4>2. \/ lock[CaseChan(h, i)] = h
            \/ \E k \in DOMAIN s : s[k] = CaseChan(h, i)
        BY <1>0, <2>1 DEF PlaceOK
      <4> HIDE DEF s
      <4> QED BY <1>3, <1>6, <4>1, <4>2
    <3>3. Cases(h)' = Cases(h) /\ \A i : CaseChan(h, i)' = CaseChan(h, i)
      BY <1>1 DEF Cases, CaseChan
    <3>4. l \in {"sellock", "pass1"} /\ (l = "pass1" => p = <<>>)
      BY <2>1
    <3>5. pc'[h] \notin Plain /\ pc'[h] \notin {"park", "drain", "pass2"}
      BY <1>8, <3>4 DEF Plain
    <3>6. commit'[h] = <<>> /\ call'[h].kind = "select"
      BY <1>1, <3>1
    <3> HIDE DEF l, s
    <3> QED BY <1>4, <1>8, <3>2, <3>3, <3>4, <3>5, <3>6, SMT DEF PlaceOK
  <2>2. CASE pc[h] = "relock"
    <3>1. l \in {"relock", "pass3"} /\ (l = "pass3" => p = <<>>)
      BY <2>2
    <3>2. pc'[h] \notin Plain /\ pc'[h] \notin {"park", "drain", "sellock", "pass1", "pass2"}
      BY <1>8, <3>1 DEF Plain
    <3> HIDE DEF l
    <3>3. commit'[h] # <<>> => pc'[h] \in {"waiting", "relock"} /\ call'[h].kind = "select"
      BY <1>0, <1>1, <1>8, <1>14, <3>1 DEF PlaceOK
    <3>4. \A k \in DOMAIN commit[h] : \A m \in 1 .. k : commit[h][m] <= commit[h][k]
      BY <1>0 DEF PlaceOK
    <3> QED BY <1>1, <1>4, <1>13, <3>2, <3>3, <3>4 DEF PlaceOK
  <2> QED BY <1>1, <2>1, <2>2
<1> QED BY <1>9, <1>10, <1>11, <1>12, <1>15 DEF StepOK

\* The case a select takes in pass 1, as a plain operation would.
LEMMA TakeCaseOK ==
  ASSUME NatFacts, IInv, NEW h \in Goroutine, NEW i \in Cases(h), NEW P \in SUBSET Cases(h),
         \A k \in P : ~CaseReady(h, k), TakeCase(h, i, P)
  PROVE  /\ DataOK' /\ GotOK' /\ closed' = closed
         /\ \A d \in Channel : d # CaseChan(h, i) => qcount'[d] = qcount[d]
         /\ \E l \in {"wake", "idle"} : Goto(h, l)
         /\ res' \in [Goroutine -> Results] /\ chosen' \in [Goroutine -> Nat]
<1> DEFINE c == CaseChan(h, i)
           sq == Drained(sendq, PolledRecv(h, P))
           rq == Drained(recvq, PolledSend(h, P))
           sqc == Drained(sendq, PolledRecv(h, P \cup {i}))
           rqc == Drained(recvq, PolledSend(h, P \cup {i}))
<1>0. DataOK /\ GotOK /\ ControlOK
  BY DEF IInv
<1>1. c \in Channel /\ i \in Nat
  BY <1>0, CaseTypes
<1>2. /\ Trimmed(sendq, sq) /\ Trimmed(recvq, rq) /\ Trimmed(sendq, sqc) /\ Trimmed(recvq, rqc)
      /\ \A d \in Channel \ PolledRecv(h, P) : sq[d] = sendq[d]
      /\ \A d \in Channel \ PolledSend(h, P) : rq[d] = recvq[d]
      /\ \A d \in Channel \cap PolledRecv(h, P \cup {i}) : sqc[d] = <<>>
      /\ \A d \in Channel \cap PolledSend(h, P \cup {i}) : rqc[d] = <<>>
  <2>1. sendq \in [Channel -> Seq(Sudogs)] /\ recvq \in [Channel -> Seq(Sudogs)]
    BY <1>0 DEF DataOK
  <2> QED BY <2>1, DrainedTrims, SMT
<1>3. /\ Sends(h, i) /\ LiveIn(recvq[c]) # {} => c \notin PolledSend(h, P)
      /\ ~Sends(h, i) /\ LiveIn(sendq[c]) # {} => c \notin PolledRecv(h, P)
      /\ Sends(h, i) => c \in PolledSend(h, P \cup {i})
      /\ ~Sends(h, i) => c \in PolledRecv(h, P \cup {i})
  BY DEF CaseReady, PolledSend, PolledRecv
<1>4. \/ /\ Return(h, "panic", i) /\ NoTransfer(sq, rq) /\ UNCHANGED got
      \/ /\ Sends(h, i) /\ LiveIn(recvq[c]) # {}
         /\ SendDirect(h, i, c, sq, rq) /\ Moved(h, i, TRUE)
      \/ /\ Sends(h, i) /\ qcount[c] < Cap[c]
         /\ SendBuffered(h, i, c, sq, rqc) /\ Moved(h, i, FALSE)
      \/ /\ ~Sends(h, i) /\ LiveIn(sendq[c]) # {}
         /\ RecvDirect(h, c, sq, rq) /\ Moved(h, i, TRUE)
      \/ /\ ~Sends(h, i) /\ qcount[c] > 0
         /\ RecvBuffered(h, c, sqc, rq) /\ Moved(h, i, FALSE)
      \/ /\ Return(h, "closed", i) /\ NoTransfer(sqc, rq)
         /\ got' = [got EXCEPT ![h] = Zero]
  BY DEF TakeCase
<1>5. {"panic", "closed"} \subseteq Results
  BY DEF Results
<1>6. c = CaseChan(h, i)
  OBVIOUS
<1> HIDE DEF c, sq, rq, sqc, rqc
<1>7. CASE Return(h, "panic", i) /\ NoTransfer(sq, rq) /\ UNCHANGED got
  <2>1. DataOK' /\ qcount' = qcount /\ closed' = closed
    BY <1>0, <1>2, <1>7, NoTransferOK
  <2>2. GotOK'
    BY <1>0, <1>7 DEF GotOK
  <2> QED BY <1>1, <1>5, <1>7, <2>1, <2>2, ReturnTypes
<1>8. CASE /\ Sends(h, i) /\ LiveIn(recvq[c]) # {}
           /\ SendDirect(h, i, c, sq, rq) /\ Moved(h, i, TRUE)
  <2>1. rq[c] = recvq[c]
    BY <1>1, <1>2, <1>3, <1>8
  <2>2. DataOK' /\ GotOK' /\ qcount' = qcount /\ closed' = closed
    BY <1>0, <1>1, <1>2, <1>8, <2>1, SendDirectOK
  <2> QED BY <1>1, <1>8, <2>2, MovedTypes
<1>9. CASE /\ Sends(h, i) /\ qcount[c] < Cap[c]
           /\ SendBuffered(h, i, c, sq, rqc) /\ Moved(h, i, FALSE)
  <2>1. rqc[c] = <<>>
    BY <1>1, <1>2, <1>3, <1>9
  <2>2. DataOK' /\ GotOK' /\ closed' = closed /\ \A d \in Channel : d # c => qcount'[d] = qcount[d]
    BY <1>0, <1>1, <1>2, <1>9, <2>1, SendBufferedOK
  <2> QED BY <1>1, <1>6, <1>9, <2>2, MovedTypes
<1>10. CASE /\ ~Sends(h, i) /\ LiveIn(sendq[c]) # {}
            /\ RecvDirect(h, c, sq, rq) /\ Moved(h, i, TRUE)
  <2>1. sq[c] = sendq[c]
    BY <1>1, <1>2, <1>3, <1>10
  <2>2. DataOK' /\ GotOK' /\ closed' = closed /\ \A d \in Channel : qcount'[d] = qcount[d]
    BY <1>0, <1>1, <1>2, <1>10, <2>1, RecvDirectOK
  <2> QED BY <1>1, <1>10, <2>2, MovedTypes
<1>11. CASE /\ ~Sends(h, i) /\ qcount[c] > 0
            /\ RecvBuffered(h, c, sqc, rq) /\ Moved(h, i, FALSE)
  <2>1. sqc[c] = <<>>
    BY <1>1, <1>2, <1>3, <1>11
  <2>2. DataOK' /\ GotOK' /\ closed' = closed /\ \A d \in Channel : d # c => qcount'[d] = qcount[d]
    BY <1>0, <1>1, <1>2, <1>11, <2>1, RecvBufferedOK
  <2> QED BY <1>1, <1>6, <1>11, <2>2, MovedTypes
<1>12. CASE /\ Return(h, "closed", i) /\ NoTransfer(sqc, rq)
            /\ got' = [got EXCEPT ![h] = Zero]
  <2>1. DataOK' /\ qcount' = qcount /\ closed' = closed
    BY <1>0, <1>2, <1>12, NoTransferOK
  <2>2. GotOK'
    BY <1>0, <1>12 DEF GotOK
  <2> QED BY <1>1, <1>5, <1>12, <2>1, <2>2, ReturnTypes
<1> QED BY <1>4, <1>7, <1>8, <1>9, <1>10, <1>11, <1>12

\* Dropping all locks at the end of a select.
LEMMA UnlockAllFacts ==
  ASSUME ControlOK, NEW h \in Goroutine, UnlockAll(h)
  PROVE  /\ lock' \in [Channel -> Goroutine \cup {Free}]
         /\ \A d \in Channel : lock[d] \notin {h, Free} => lock'[d] = lock[d]
BY DEF ControlOK, UnlockAll

\* Pass 1 of a select finds a case, or gives up.
LEMMA Pass1Step ==
  ASSUME NatFacts, IInv, NEW h \in Goroutine, Pass1(h)
  PROVE  StepOK(h)
<1> DEFINE ready == {i \in Cases(h) : CaseReady(h, i)}
           sq == Drained(sendq, PolledRecv(h, Cases(h)))
           rq == Drained(recvq, PolledSend(h, Cases(h)))
<1>0. DataOK /\ GotOK /\ ControlOK /\ PlaceOK(h)
  BY DEF IInv
<1>1. /\ pc[h] = "pass1" /\ UnlockAll(h)
      /\ need' = need /\ commit' = commit /\ call' = call /\ calls' = calls
      /\ param' = param /\ success' = success
  BY DEF Pass1
<1>2. \/ \E i \in ready, P \in SUBSET (Cases(h) \ ready) : TakeCase(h, i, P)
      \/ Return(h, "no", 0) /\ UNCHANGED got /\ NoTransfer(sq, rq)
  BY DEF Pass1
<1>3. /\ DataOK' /\ GotOK' /\ closed' = closed
      /\ \A d \in Channel : lock[d] # h => qcount'[d] = qcount[d]
      /\ \E l \in {"wake", "idle"} : Goto(h, l)
      /\ res' \in [Goroutine -> Results] /\ chosen' \in [Goroutine -> Nat]
  <2>1. CASE \E i \in ready, P \in SUBSET (Cases(h) \ ready) : TakeCase(h, i, P)
    <3>1. PICK i \in ready, P \in SUBSET (Cases(h) \ ready) : TakeCase(h, i, P)
      BY <2>1
    <3>2. i \in Cases(h) /\ P \in SUBSET Cases(h) /\ \A k \in P : ~CaseReady(h, k)
      OBVIOUS
    <3>3. lock[CaseChan(h, i)] = h
      BY <1>0, <1>1, <3>2 DEF PlaceOK
    <3> HIDE DEF ready
    <3>4. /\ DataOK' /\ GotOK' /\ closed' = closed
          /\ \A d \in Channel : d # CaseChan(h, i) => qcount'[d] = qcount[d]
          /\ \E l \in {"wake", "idle"} : Goto(h, l)
          /\ res' \in [Goroutine -> Results] /\ chosen' \in [Goroutine -> Nat]
      BY <3>1, <3>2, TakeCaseOK
    <3> QED BY <3>3, <3>4
  <2>2. CASE Return(h, "no", 0) /\ UNCHANGED got /\ NoTransfer(sq, rq)
    <3>1. Trimmed(sendq, sq) /\ Trimmed(recvq, rq)
      BY <1>0, DrainedTrims DEF DataOK
    <3> HIDE DEF sq, rq
    <3>2. DataOK' /\ qcount' = qcount /\ closed' = closed
      BY <1>0, <2>2, <3>1, NoTransferOK
    <3>3. GotOK'
      BY <1>0, <2>2 DEF GotOK
    <3>4. "no" \in Results /\ 0 \in Nat
      BY DEF Results
    <3> QED BY <2>2, <3>2, <3>3, <3>4, ReturnTypes
  <2> QED BY <1>2, <2>1, <2>2
<1> HIDE DEF ready, sq, rq
<1>4. PICK l \in {"wake", "idle"} : Goto(h, l)
  BY <1>3
<1>5. l \in Label /\ l \notin Plain /\ l \notin {"sellock", "pass1", "pass2"}
  BY DEF Label, Plain
<1>6. /\ lock' \in [Channel -> Goroutine \cup {Free}]
      /\ \A d \in Channel : lock[d] \notin {h, Free} => lock'[d] = lock[d] /\ qcount'[d] = qcount[d]
  BY <1>0, <1>1, <1>3, UnlockAllFacts
<1>7. /\ closed' \in [Channel -> BOOLEAN]
      /\ param' \in [Goroutine -> Nat] /\ success' \in [Goroutine -> BOOLEAN]
  BY <1>0, <1>1, <1>3 DEF ControlOK
<1>8. pc[h] \notin {"waiting", "relock"}
  BY <1>1
<1> QED BY <1>1, <1>3, <1>4, <1>5, <1>6, <1>7, <1>8, LeaveStep

\* Pass 2 begins: no case can proceed, and under the locks this stays so.
LEMMA Pass2Step ==
  ASSUME IInv, NEW h \in Goroutine, Pass2(h)
  PROVE  StepOK(h)
<1> DEFINE sq == Drained(sendq, PolledRecv(h, Cases(h)))
           rq == Drained(recvq, PolledSend(h, Cases(h)))
<1>0. DataOK /\ GotOK /\ ControlOK /\ PlaceOK(h)
  BY DEF IInv
<1>1. /\ pc[h] = "pass1" /\ \A i \in Cases(h) : ~CaseReady(h, i)
      /\ sendq' = sq /\ recvq' = rq /\ param' = [param EXCEPT ![h] = 0]
      /\ pc' = [pc EXCEPT ![h] = "pass2"]
      /\ UNCHANGED <<qcount, sendx, recvx, buf, accepted, delivered>>
      /\ closed' = closed /\ lock' = lock /\ need' = need /\ commit' = commit
      /\ call' = call /\ calls' = calls /\ toReady' = toReady /\ success' = success
      /\ selectDone' = selectDone /\ got' = got /\ res' = res /\ chosen' = chosen
  BY DEF Pass2, Goto, chanVars, lockVars, histVars
<1>2. Trimmed(sendq, sq) /\ Trimmed(recvq, rq)
  BY <1>0, DrainedTrims DEF DataOK
<1> HIDE DEF sq, rq
<1>3. DataOK'
  BY <1>0, <1>1, <1>2, QueuesOnlyOK DEF DataOK, Trimmed
<1>4. GotOK'
  BY <1>0, <1>1 DEF GotOK
<1>5. ControlOK'
  <2>1. "pass2" \in Label
    BY DEF Label
  <2> QED BY <1>0, <1>1, <2>1 DEF ControlOK
<1>6. pc'[h] = "pass2" /\ \A g \in Goroutine : g # h => pc'[g] = pc[g]
  BY <1>0, <1>1 DEF ControlOK
<1>7. Frame(h)
  BY <1>1, <1>6 DEF Frame
<1>8. ASSUME NEW i \in Cases(h)
      PROVE  qcount[CaseChan(h, i)] = IF Sends(h, i) THEN Cap[CaseChan(h, i)] ELSE 0
  <2>1. CaseChan(h, i) \in Channel
    BY <1>0, CaseTypes
  <2>2. /\ qcount[CaseChan(h, i)] \in Nat /\ Cap[CaseChan(h, i)] \in Nat
        /\ qcount[CaseChan(h, i)] <= Cap[CaseChan(h, i)]
    BY <1>0, <2>1, ChanAssumption DEF DataOK, RingOK, Ring
  <2> QED BY <1>1, <2>2, SMT DEF CaseReady
<1>9. /\ Cases(h)' = Cases(h)
      /\ \A i : CaseChan(h, i)' = CaseChan(h, i) /\ Sends(h, i)' = Sends(h, i)
  BY <1>1 DEF Cases, CaseChan, Sends
<1>10. PlaceOK(h)'
  <2>1. pc'[h] \notin Plain
    BY <1>6 DEF Plain
  <2>2. commit'[h] = <<>>
    BY <1>1, NoCommit
  <2>3. call'[h].kind = "select" /\ \A i \in Cases(h) : lock'[CaseChan(h, i)] = h
    BY <1>0, <1>1 DEF PlaceOK
  <2>4. \A i \in Cases(h)' : lock'[CaseChan(h, i)'] = h
    BY <1>9, <2>3
  <2>5. \A i \in Cases(h)' :
          qcount'[CaseChan(h, i)'] = IF Sends(h, i)' THEN Cap[CaseChan(h, i)'] ELSE 0
    BY <1>1, <1>8, <1>9
  <2>6. pc'[h] \notin {"park", "drain"} /\ pc'[h] # "sellock"
    BY <1>6
  <2>7. \A k \in DOMAIN commit'[h] : FALSE
    BY <2>2, SMT
  <2> QED BY <2>1, <2>2, <2>3, <2>4, <2>5, <2>6, <2>7 DEF PlaceOK
<1> QED BY <1>3, <1>4, <1>5, <1>7, <1>10 DEF StepOK

\* Steps of a select on the queues of its channels.
LEMMA QueueStep ==
  ASSUME IInv, NEW h \in Goroutine, DataOK',
         UNCHANGED <<chanVars, lockVars, pc, call, calls, param, success, got, res, chosen>>
  PROVE  StepOK(h)
<1>0. GotOK /\ ControlOK /\ PlaceOK(h)
  BY DEF IInv
<1>1. /\ qcount' = qcount /\ closed' = closed /\ lock' = lock /\ need' = need /\ commit' = commit
      /\ pc' = pc /\ call' = call /\ calls' = calls
      /\ param' = param /\ success' = success /\ got' = got /\ res' = res /\ chosen' = chosen
  BY DEF chanVars, lockVars
<1>2. GotOK' /\ ControlOK'
  BY <1>0, <1>1 DEF GotOK, ControlOK
<1>3. Frame(h)
  BY <1>1 DEF Frame
<1>4. /\ Ch(h)' = Ch(h) /\ Cases(h)' = Cases(h)
      /\ \A i : CaseChan(h, i)' = CaseChan(h, i) /\ Sends(h, i)' = Sends(h, i)
  BY <1>1 DEF Ch, Cases, CaseChan, Sends
<1>5. PlaceOK(h)'
  <2>1. /\ pc'[h] \in Plain =>
             call'[h].kind # "select" /\ Len(call'[h].cases) = 1 /\ Ch(h)' \in Channel
        /\ pc'[h] \in {"park", "drain"} => lock'[Ch(h)'] = h
        /\ pc'[h] \in {"sellock", "pass1", "pass2"} => call'[h].kind = "select"
    BY <1>0, <1>1, <1>4 DEF PlaceOK
  <2>2. pc'[h] \in {"pass1", "pass2"} => \A i \in Cases(h)' : lock'[CaseChan(h, i)'] = h
    <3>1. pc[h] \in {"pass1", "pass2"} => \A i \in Cases(h) : lock[CaseChan(h, i)] = h
      BY <1>0 DEF PlaceOK
    <3> QED BY <1>1, <1>4, <3>1
  <2>3. pc'[h] = "sellock" =>
          \A i \in Cases(h)' : \/ lock'[CaseChan(h, i)'] = h
                               \/ \E k \in DOMAIN need'[h] : need'[h][k] = CaseChan(h, i)'
    <3>1. pc[h] = "sellock" =>
            \A i \in Cases(h) : \/ lock[CaseChan(h, i)] = h
                                \/ \E k \in DOMAIN need[h] : need[h][k] = CaseChan(h, i)
      BY <1>0 DEF PlaceOK
    <3> QED BY <1>1, <1>4, <3>1
  <2>4. pc'[h] = "pass2" =>
          \A i \in Cases(h)' :
            qcount'[CaseChan(h, i)'] = IF Sends(h, i)' THEN Cap[CaseChan(h, i)'] ELSE 0
    <3>1. pc[h] = "pass2" =>
            \A i \in Cases(h) :
              qcount[CaseChan(h, i)] = IF Sends(h, i) THEN Cap[CaseChan(h, i)] ELSE 0
      BY <1>0 DEF PlaceOK
    <3> QED BY <1>1, <1>4, <3>1
  <2>5. /\ commit'[h] # <<>> => pc'[h] \in {"waiting", "relock"} /\ call'[h].kind = "select"
        /\ \A k \in DOMAIN commit'[h] :
             /\ lock'[commit'[h][k]] = h
             /\ \E m \in DOMAIN need'[h] : need'[h][m] = commit'[h][k]
             /\ \A m \in 1 .. k : commit'[h][m] <= commit'[h][k]
    BY <1>0, <1>1 DEF PlaceOK
  <2> QED BY <2>1, <2>2, <2>3, <2>4, <2>5 DEF PlaceOK
<1> QED BY <1>2, <1>3, <1>5 DEF StepOK

\* Pass 2 puts a sudog on the queue of a case: the channel is still full, for a
\* send, or empty, for a receive.
LEMMA EnqueueCaseStep ==
  ASSUME IInv, NEW h \in Goroutine, NEW i \in Cases(h), EnqueueCase(h, i)
  PROVE  StepOK(h)
<1> DEFINE c == CaseChan(h, i)
<1>0. DataOK /\ ControlOK /\ PlaceOK(h)
  BY DEF IInv
<1>1. c \in Channel /\ i \in Nat \ {0} /\ Sudog(h, i) \in Sudogs
  BY <1>0, CaseTypes, SudogType
<1>2. pc[h] = "pass2" /\ qcount[c] = IF Sends(h, i) THEN Cap[c] ELSE 0
  BY <1>0 DEF EnqueueCase, PlaceOK
<1>3. \/ Sends(h, i) /\ sendq' = [sendq EXCEPT ![c] = Append(@, Sudog(h, i))] /\ recvq' = recvq
      \/ ~Sends(h, i) /\ recvq' = [recvq EXCEPT ![c] = Append(@, Sudog(h, i))] /\ sendq' = sendq
  BY DEF EnqueueCase
<1>4. /\ UNCHANGED <<chanVars, lockVars, pc, call, calls, param, success, got, res, chosen>>
      /\ UNCHANGED <<qcount, sendx, recvx, buf, accepted, delivered>>
      /\ toReady' = toReady /\ selectDone' = selectDone
  BY DEF EnqueueCase, wakeVars, chanVars, histVars
<1> HIDE DEF c
<1>5. sendq' \in [Channel -> Seq(Sudogs)] /\ recvq' \in [Channel -> Seq(Sudogs)]
  <2>1. sendq \in [Channel -> Seq(Sudogs)] /\ recvq \in [Channel -> Seq(Sudogs)]
    BY <1>0 DEF DataOK
  <2>2. Append(sendq[c], Sudog(h, i)) \in Seq(Sudogs) /\ Append(recvq[c], Sudog(h, i)) \in Seq(Sudogs)
    BY <1>1, <2>1, SMT
  <2>3. CASE Sends(h, i)
    BY <1>1, <1>3, <2>1, <2>2, <2>3
  <2>4. CASE ~Sends(h, i)
    BY <1>1, <1>3, <2>1, <2>2, <2>4
  <2> QED BY <2>3, <2>4
<1>6. \A d \in Channel : sendq'[d] # <<>> => sendq[d] # <<>> \/ qcount[d] = Cap[d]
  BY <1>0, <1>2, <1>3 DEF DataOK
<1>7. \A d \in Channel : recvq'[d] # <<>> => recvq[d] # <<>> \/ qcount[d] = 0
  BY <1>0, <1>2, <1>3 DEF DataOK
<1>8. DataOK'
  BY <1>0, <1>4, <1>5, <1>6, <1>7, QueuesOnlyOK DEF DataOK
<1> QED BY <1>4, <1>8, QueueStep

\* Pass 3 takes a sudog off a queue.
LEMMA DequeueSudoGStep ==
  ASSUME IInv, NEW h \in Goroutine, NEW i \in Cases(h), dequeueSudoG(h, i)
  PROVE  StepOK(h)
<1> DEFINE c == CaseChan(h, i)
<1>0. DataOK /\ ControlOK
  BY DEF IInv
<1>1. c \in Channel
  BY <1>0, CaseTypes
<1>2. PICK k \in DOMAIN Queue(h, i) :
        IF Sends(h, i)
        THEN sendq' = [sendq EXCEPT ![c] = Unlinked(@, k)] /\ UNCHANGED recvq
        ELSE recvq' = [recvq EXCEPT ![c] = Unlinked(@, k)] /\ UNCHANGED sendq
  BY DEF dequeueSudoG
<1>3. ASSUME NEW q \in Seq(Sudogs), NEW m \in DOMAIN q
      PROVE  Unlinked(q, m) \in Seq(Sudogs) /\ q # <<>>
  BY SMT DEF Unlinked
<1>4. /\ UNCHANGED <<chanVars, lockVars, pc, call, calls, param, success, got, res, chosen>>
      /\ UNCHANGED <<qcount, sendx, recvx, buf, accepted, delivered>>
      /\ toReady' = toReady /\ selectDone' = [selectDone EXCEPT ![h] = FALSE]
  BY DEF dequeueSudoG, chanVars, histVars
<1>5. /\ sendq' \in [Channel -> Seq(Sudogs)] /\ recvq' \in [Channel -> Seq(Sudogs)]
      /\ \A d \in Channel : sendq'[d] # <<>> => sendq[d] # <<>>
      /\ \A d \in Channel : recvq'[d] # <<>> => recvq[d] # <<>>
  <2>0. sendq \in [Channel -> Seq(Sudogs)] /\ recvq \in [Channel -> Seq(Sudogs)]
    BY <1>0 DEF DataOK
  <2>1. CASE Sends(h, i)
    <3>1. k \in DOMAIN sendq[c] /\ sendq' = [sendq EXCEPT ![c] = Unlinked(@, k)] /\ recvq' = recvq
      BY <1>2, <2>1 DEF Queue
    <3>2. Unlinked(sendq[c], k) \in Seq(Sudogs) /\ sendq[c] # <<>>
      BY <1>1, <1>3, <2>0, <3>1
    <3> HIDE DEF c
    <3> QED BY <1>1, <2>0, <3>1, <3>2
  <2>2. CASE ~Sends(h, i)
    <3>1. k \in DOMAIN recvq[c] /\ recvq' = [recvq EXCEPT ![c] = Unlinked(@, k)] /\ sendq' = sendq
      BY <1>2, <2>2 DEF Queue
    <3>2. Unlinked(recvq[c], k) \in Seq(Sudogs) /\ recvq[c] # <<>>
      BY <1>1, <1>3, <2>0, <3>1
    <3> HIDE DEF c
    <3> QED BY <1>1, <2>0, <3>1, <3>2
  <2> QED BY <2>1, <2>2
<1>6. toReady' \in [Goroutine -> SUBSET Sudogs] /\ selectDone' \in [Goroutine -> BOOLEAN]
  BY <1>0, <1>4 DEF DataOK
<1>7. DataOK'
  BY <1>0, <1>4, <1>5, <1>6, QueuesOnlyOK
<1> QED BY <1>4, <1>7, QueueStep

\* A select returns with the case it was woken for.
LEMMA Pass3Step ==
  ASSUME IInv, NEW h \in Goroutine, Pass3(h)
  PROVE  StepOK(h)
<1> DEFINE i == param[h]
<1>0. DataOK /\ GotOK /\ ControlOK
  BY DEF IInv
<1>1. /\ pc[h] = "pass3" /\ param' = [param EXCEPT ![h] = 0]
      /\ selectDone' = [selectDone EXCEPT ![h] = FALSE]
      /\ UNCHANGED <<qcount, sendx, recvx, buf, accepted, delivered>>
      /\ sendq' = sendq /\ recvq' = recvq /\ closed' = closed /\ toReady' = toReady
      /\ need' = need /\ commit' = commit /\ call' = call /\ calls' = calls
      /\ success' = success /\ got' = got
  BY DEF Pass3, chanVars, queueVars, histVars
<1>2. \/ Goto(h, "throw") /\ UNCHANGED <<res, chosen, lock>>
      \/ (\E r \in {"ok", "panic", "closed"} : Return(h, r, i)) /\ UnlockAll(h)
  BY DEF Pass3
<1>3. i \in Nat
  BY <1>0 DEF ControlOK
<1> HIDE DEF i
<1>4. DataOK'
  <2>1. toReady' \in [Goroutine -> SUBSET Sudogs] /\ selectDone' \in [Goroutine -> BOOLEAN]
    BY <1>0, <1>1 DEF DataOK
  <2> QED BY <1>0, <1>1, <2>1, QueuesOnlyOK DEF DataOK
<1>5. GotOK'
  BY <1>0, <1>1 DEF GotOK
<1>6. /\ closed' \in [Channel -> BOOLEAN]
      /\ param' \in [Goroutine -> Nat] /\ success' \in [Goroutine -> BOOLEAN]
  BY <1>0, <1>1 DEF ControlOK
<1>7. /\ \E l \in {"idle", "throw"} : Goto(h, l)
      /\ res' \in [Goroutine -> Results] /\ chosen' \in [Goroutine -> Nat]
      /\ lock' \in [Channel -> Goroutine \cup {Free}]
      /\ \A d \in Channel : lock[d] \notin {h, Free} => lock'[d] = lock[d]
  <2>1. CASE Goto(h, "throw") /\ UNCHANGED <<res, chosen, lock>>
    BY <1>0, <2>1 DEF ControlOK, Results
  <2>2. CASE (\E r \in {"ok", "panic", "closed"} : Return(h, r, i)) /\ UnlockAll(h)
    <3>1. PICK r \in {"ok", "panic", "closed"} : Return(h, r, i)
      BY <2>2
    <3>2. /\ lock' \in [Channel -> Goroutine \cup {Free}]
          /\ \A d \in Channel : lock[d] \notin {h, Free} => lock'[d] = lock[d]
      BY <1>0, <2>2, UnlockAllFacts
    <3>3. Goto(h, "idle") /\ res' \in [Goroutine -> Results] /\ chosen' \in [Goroutine -> Nat]
      BY <1>0, <1>3, <3>1 DEF Return, ControlOK, Results
    <3> QED BY <3>2, <3>3
  <2> QED BY <1>2, <2>1, <2>2
<1>8. PICK l \in {"idle", "throw"} : Goto(h, l)
  BY <1>7
<1>9. /\ l \in Label /\ l \notin Plain /\ l \notin {"sellock", "pass1", "pass2"}
      /\ pc[h] \notin {"waiting", "relock"}
  BY <1>1 DEF Label, Plain
<1> QED BY <1>1, <1>4, <1>5, <1>6, <1>7, <1>8, <1>9, LeaveStep

\* Every step keeps the inductive invariant.
LEMMA NextIInv ==
  ASSUME NatFacts, IInv, [Next]_vars
  PROVE  IInv'
<1>1. CASE Next
  <2>1. PICK h \in Goroutine : Run(h) \/ Commit(h) \/ \E op \in Calls[h] : Start(h, op)
    BY <1>1 DEF Next
  <2>2. CASE \E op \in Calls[h] : Start(h, op)
    BY <2>2, StartStep, StepIInv
  <2>3. CASE Commit(h)
    BY <2>3, CommitStep, StepIInv
  <2>4. CASE Run(h)
    <3>1. CASE FastSend(h)
      BY <3>1, FastSendStep, StepIInv
    <3>2. CASE FastRecv(h)
      BY <3>2, FastRecvStep, StepIInv
    <3>3. CASE chansend(h)
      BY <3>3, ChansendStep, StepIInv
    <3>4. CASE chanrecv(h)
      BY <3>4, ChanrecvStep, StepIInv
    <3>5. CASE Park(h)
      BY <3>5, ParkStep, StepIInv
    <3>6. CASE Wake(h)
      BY <3>6, WakeStep, StepIInv
    <3>7. CASE Woken(h)
      BY <3>7, WokenStep, StepIInv
    <3>8. CASE CloseBegin(h)
      BY <3>8, CloseBeginStep, StepIInv
    <3>9. CASE CloseDrain(h)
      BY <3>9, CloseDrainStep, StepIInv
    <3>10. CASE ReadyAll(h)
      BY <3>10, ReadyAllStep, StepIInv
    <3>11. CASE sellock(h)
      BY <3>11, SellockStep, StepIInv
    <3>12. CASE Pass1(h)
      BY <3>12, Pass1Step, StepIInv
    <3>13. CASE Pass2(h)
      BY <3>13, Pass2Step, StepIInv
    <3>14. CASE Pass3(h)
      BY <3>14, Pass3Step, StepIInv
    <3>15. CASE \E i \in Cases(h) : EnqueueCase(h, i)
      BY <3>15, EnqueueCaseStep, StepIInv
    <3>16. CASE \E i \in Cases(h) : dequeueSudoG(h, i)
      BY <3>16, DequeueSudoGStep, StepIInv
    <3> QED BY <2>4, <3>1, <3>2, <3>3, <3>4, <3>5, <3>6, <3>7, <3>8, <3>9, <3>10, <3>11,
        <3>12, <3>13, <3>14, <3>15, <3>16 DEF Run
  <2> QED BY <2>1, <2>2, <2>3, <2>4
<1>2. CASE UNCHANGED vars
  <2>1. /\ UNCHANGED <<qcount, sendx, recvx, buf, accepted, delivered>>
        /\ sendq' = sendq /\ recvq' = recvq /\ toReady' = toReady /\ selectDone' = selectDone
        /\ closed' = closed /\ lock' = lock /\ need' = need /\ commit' = commit /\ pc' = pc
        /\ call' = call /\ calls' = calls /\ param' = param /\ success' = success
        /\ got' = got /\ res' = res /\ chosen' = chosen
    BY <1>2 DEF vars, chanVars, queueVars, lockVars, wakeVars, histVars
  <2>2. DataOK'
    BY <2>1, QueuesOnlyOK DEF IInv, DataOK
  <2>3. GotOK' /\ ControlOK'
    BY <2>1 DEF IInv, GotOK, ControlOK
  <2>4. ASSUME NEW g \in Goroutine PROVE PlaceOK(g)'
    <3>1. UNCHANGED <<chanVars, lockVars, pc, call, calls, param, success, got, res, chosen>>
      BY <2>1 DEF chanVars, lockVars
    <3>2. StepOK(g)
      BY <2>2, <3>1, QueueStep
    <3> QED BY <3>2 DEF StepOK
  <2> QED BY <2>2, <2>3, <2>4 DEF IInv
<1> QED BY <1>1, <1>2

-----------------------------------------------------------------------------
(* The invariant at the start, and what follows from it *)

\* The invariant holds initially.
LEMMA InitIInv == Init => IInv
<1> SUFFICES ASSUME Init PROVE IInv
  OBVIOUS
<1>1. ASSUME NEW c \in Channel PROVE RingOK(c) /\ QueuesOK(c)
  BY ChanAssumption, SMT DEF Init, RingOK, QueuesOK, Ring, SlotOf, Zero
<1>2. DataOK
  BY <1>1, EmptyIsSeq DEF Init, DataOK
<1>3. GotOK
  BY DEF Init, GotOK
<1>4. call \in [Goroutine -> Call]
  BY EmptyIsSeq DEF Init, Call
<1>5. ControlOK
  BY <1>4, EmptyIsSeq, ChanAssumption, SMT DEF Init, ControlOK, Label
<1>6. ASSUME NEW g \in Goroutine PROVE PlaceOK(g)
  <2>1. pc[g] = "idle" /\ commit[g] = <<>>
    BY DEF Init
  <2> QED BY <2>1, SMT DEF PlaceOK, Plain
<1> QED BY <1>2, <1>3, <1>5, <1>6 DEF IInv

\* The inductive invariant contains the type invariant.
LEMMA IInvTypeOK == IInv => TypeOK
<1> SUFFICES ASSUME IInv PROVE TypeOK
  OBVIOUS
<1>1. ASSUME NEW c \in Channel
      PROVE  /\ qcount[c] <= Cap[c]
             /\ Cap[c] > 0 => sendx[c] < Cap[c] /\ recvx[c] < Cap[c]
             /\ buf[c] \in [0 .. Cap[c] - 1 -> Element \cup {Zero}]
  BY DEF IInv, DataOK, RingOK, Ring
<1> QED BY <1>1 DEF IInv, DataOK, GotOK, ControlOK, TypeOK

\* And that selparkcommit holds the locks it drops.
LEMMA IInvCommit == IInv => CommitHoldsLocks
BY SMT DEF IInv, PlaceOK, CommitHoldsLocks

\* The inductive invariant implies first in, first out.
LEMMA IInvFIFO == IInv => FIFO
<1> SUFFICES ASSUME IInv, NEW c \in Channel
             PROVE  accepted[c] = delivered[c] \o Contents(c)
  BY SMT DEF FIFO
<1>1. RingOK(c) /\ Cap[c] \in Nat
  BY ChanAssumption, SMT DEF IInv, DataOK
<1> QED BY <1>1, RingFIFO DEF RingOK, Contents

=============================================================================
