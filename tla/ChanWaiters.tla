----------------------------- MODULE ChanWaiters ----------------------------
(***************************************************************************)
(* Who waits on a channel, and who is about to be woken: every sudog in a  *)
(* queue belongs to a case of a goroutine that blocks there, whoever finds *)
(* a live one wakes its goroutine and nobody else does, and a goroutine    *)
(* that no one is about to wake is in the queues of all its cases.         *)
(***************************************************************************)
EXTENDS ChanFacts

USE Zenon
USE DEF Nil

(***************************************************************************)
(* The queues: Entry says that a sudog is in the queue of direction d of a *)
(* channel, and Its that it is the one of a case there.                    *)
(***************************************************************************)
Qd(d, c) == IF d = "send" THEN sendq[c] ELSE recvq[c]
DirOf(g, i) == IF Sends(g, i) THEN "send" ELSE "recv"
Other(d) == IF d = "send" THEN "recv" ELSE "send"
In(sg, q) == \E k \in DOMAIN q : q[k] = sg
Entry(d, c, sg) == In(sg, Qd(d, c))
NoTwice(q) == \A j, k \in DOMAIN q : q[j] = q[k] => j = k

Its(d, c, sg) ==
  /\ sg.i \in Cases(sg.g) /\ sg = Sudog(sg.g, sg.i)
  /\ DirOf(sg.g, sg.i) = d /\ CaseChan(sg.g, sg.i) = c

QueueSound(d, c) ==
  /\ NoTwice(Qd(d, c))
  /\ \A k \in DOMAIN Qd(d, c) : Its(d, c, Qd(d, c)[k])

QueuesSound == \A d \in Dir, c \in Channel : QueueSound(d, c)

(***************************************************************************)
(* The goroutines.  BlockOK: where one has sudogs, holds locks, or has     *)
(* been told which case woke it.  SignalOK: whoever is about to be made    *)
(* ready waits, is out of the queue of that case, and is made ready once.  *)
(***************************************************************************)
Blocked == {"park", "pass2", "waiting", "relock", "pass3"}

BlockOK(g) ==
  /\ \A i \in Cases(g) : Queued(g, i) => pc[g] \in Blocked
  /\ pc[g] = "park" => Queued(g, 1)
  /\ pc[g] \in {"relock", "pass3"} => call[g].kind = "select"
  /\ pc[g] = "woken" => call[g].kind # "select"
  /\ pc[g] \in {"waiting", "woken"} /\ call[g].kind # "select" => Cases(g) = {1}
  /\ pc[g] = "waiting" /\ ~Signalled(g) => \A i \in Cases(g) : Queued(g, i)
  /\ pc[g] \in {"relock", "pass3", "woken"} => param[g] \in Cases(g) /\ ~Queued(g, param[g])
  /\ pc[g] = "relock" => selectDone[g]
  /\ selectDone[g] => \/ pc[g] = "waiting" /\ Signalled(g) /\ call[g].kind = "select"
                      \/ pc[g] \in {"relock", "pass3"}

RelockOK(g) ==
  /\ pc[g] \in {"waiting", "relock"} /\ call[g].kind = "select" =>
       \A i \in Cases(g) : \/ lock[CaseChan(g, i)] = g
                           \/ \E k \in DOMAIN need[g] : need[g][k] = CaseChan(g, i)
  /\ pc[g] = "pass3" => \A i \in Cases(g) : lock[CaseChan(g, i)] = g

SignalOK(g) ==
  \A h \in Goroutine : \A sg \in toReady[h] : sg.g = g =>
    /\ pc[g] = "waiting" /\ sg.i \in Cases(g) /\ sg = Sudog(g, sg.i) /\ ~Queued(g, sg.i)
    /\ sg.isSelect => selectDone[g]
    /\ pc[h] = "readyAll" => param[g] = sg.i
    /\ \A j \in Goroutine : \A s \in toReady[j] : s.g = g => j = h /\ s = sg

ReadyOK(h) ==
  /\ toReady[h] # {} => pc[h] \in {"wake", "readyAll"}
  /\ pc[h] = "wake" => \E sg \in Sudogs : toReady[h] = {sg}

WaitOK(g) == BlockOK(g) /\ RelockOK(g) /\ SignalOK(g) /\ ReadyOK(g)

(***************************************************************************)
(* The channels.  After the drain of a close the queues are empty for      *)
(* good; only one select can be in both queues; and what pass 1 of a       *)
(* select found stays true until its sudogs are queued.                    *)
(***************************************************************************)
ClosedOK(c) ==
  closed[c] => Draining(c) \/ (sendq[c] = <<>> /\ recvq[c] = <<>>)

OppositeOK(c) ==
  \A k \in DOMAIN sendq[c], m \in DOMAIN recvq[c] :
    sendq[c][k].g = recvq[c][m].g /\ sendq[c][k].isSelect /\ recvq[c][m].isSelect

Pass2OK(g) ==
  pc[g] = "pass2" =>
    \A i \in Cases(g) :
      /\ ~closed[CaseChan(g, i)]
      /\ \A k \in DOMAIN Qd(Other(DirOf(g, i)), CaseChan(g, i)) :
           Qd(Other(DirOf(g, i)), CaseChan(g, i))[k].g = g

WInv ==
  /\ QueuesSound
  /\ \A g \in Goroutine : WaitOK(g) /\ Pass2OK(g)
  /\ \A c \in Channel : ClosedOK(c) /\ OppositeOK(c)

-----------------------------------------------------------------------------
(* What the operations on a queue leave in it *)

\* A queue never holds what an empty one does not.
LEMMA InEmpty == \A sg : ~In(sg, <<>>) /\ NoTwice(<<>>)
BY SMT DEF In, NoTwice

\* A queue without entries is empty.
LEMMA NoneIn ==
  ASSUME NEW q \in Seq(Sudogs), \A sg \in Sudogs : ~In(sg, q)
  PROVE  q = <<>>
<1>1. \A k \in DOMAIN q : q[k] \in Sudogs
  BY SMT
<1>2. DOMAIN q = {}
  BY <1>1 DEF In
<1> QED BY <1>2, SMT

\* Entries of a queue are sudogs.
LEMMA InType ==
  ASSUME NEW q \in Seq(Sudogs), NEW sg, In(sg, q)
  PROVE  sg \in Sudogs /\ sg.g \in Goroutine
<1>1. \A k \in DOMAIN q : q[k] \in Sudogs
  BY SMT
<1>2. sg \in Sudogs
  BY <1>1 DEF In
<1> QED BY <1>2 DEF Sudogs

\* enqueue adds the sudog and nothing else.
LEMMA InAppend ==
  ASSUME NEW q \in Seq(Sudogs), NEW s \in Sudogs, ~In(s, q), NoTwice(q)
  PROVE  /\ NoTwice(Append(q, s)) /\ In(s, Append(q, s))
         /\ \A sg : In(sg, q) => In(sg, Append(q, s))
         /\ \A sg : In(sg, Append(q, s)) => In(sg, q) \/ sg = s
<1> DEFINE p == Append(q, s)
<1>1. /\ Len(q) \in Nat /\ DOMAIN q = 1 .. Len(q) /\ DOMAIN p = 1 .. Len(q) + 1
      /\ p[Len(q) + 1] = s /\ \A k \in 1 .. Len(q) : p[k] = q[k]
  BY SMT
<1> HIDE DEF p
<1>2. Len(q) + 1 \in DOMAIN p /\ \A k \in DOMAIN p : k \in DOMAIN q \/ k = Len(q) + 1
  BY <1>1, SMT
<1>3. \A k \in DOMAIN q : k \in DOMAIN p /\ p[k] = q[k]
  BY <1>1, SMT
<1>4. /\ In(s, p) /\ \A sg : In(sg, q) => In(sg, p)
      /\ \A sg : In(sg, p) => In(sg, q) \/ sg = s
  BY <1>1, <1>2, <1>3 DEF In
<1>5. ASSUME NEW j \in DOMAIN p, NEW k \in DOMAIN p, p[j] = p[k] PROVE j = k
  <2>1. CASE j \in DOMAIN q /\ k \in DOMAIN q
    BY <1>3, <1>5, <2>1 DEF NoTwice
  <2>2. CASE j \notin DOMAIN q /\ k \notin DOMAIN q
    BY <1>2, <2>2
  <2>3. CASE j \in DOMAIN q /\ k \notin DOMAIN q
    BY <1>1, <1>2, <1>3, <1>5, <2>3 DEF In
  <2>4. CASE j \notin DOMAIN q /\ k \in DOMAIN q
    BY <1>1, <1>2, <1>3, <1>5, <2>4 DEF In
  <2> QED BY <2>1, <2>2, <2>3, <2>4
<1> QED BY <1>4, <1>5 DEF NoTwice, p

-----------------------------------------------------------------------------
(* The invariant in terms of the entries *)

\* The queue a case waits in.
LEMMA QueuedEntry ==
  ASSUME NEW g, NEW i
  PROVE  /\ Queued(g, i) <=> Entry(DirOf(g, i), CaseChan(g, i), Sudog(g, i))
         /\ DirOf(g, i) \in Dir
<1>1. Queue(g, i) = Qd(DirOf(g, i), CaseChan(g, i))
  BY DEF Queue, Qd, DirOf
<1>2. DirOf(g, i) \in Dir
  BY DEF DirOf, Dir
<1> QED BY <1>1, <1>2 DEF Queued, Entry, In

\* A step that leaves the call alone leaves the queues of its cases.
LEMMA SameCall ==
  ASSUME NEW g, call'[g] = call[g]
  PROVE  /\ Cases(g)' = Cases(g) /\ Ch(g)' = Ch(g)
         /\ \A i : /\ CaseChan(g, i)' = CaseChan(g, i) /\ Sudog(g, i)' = Sudog(g, i)
                   /\ DirOf(g, i)' = DirOf(g, i) /\ Sends(g, i)' = Sends(g, i)
BY DEF Sends, CaseChan, Sudog, DirOf, Cases, Ch

\* The queue a case waits in after such a step.
LEMMA QueuedNext ==
  ASSUME NEW g, NEW i, call'[g] = call[g], NEW d, NEW c, NEW s,
         d = DirOf(g, i), c = CaseChan(g, i), s = Sudog(g, i)
  PROVE  Queued(g, i)' <=> Entry(d, c, s)'
<1>1. Sends(g, i)' = Sends(g, i) /\ CaseChan(g, i)' = c /\ Sudog(g, i)' = s
  BY SameCall
<1>2. Queue(g, i)' = Qd(d, c)'
  BY <1>1 DEF Queue, Qd, DirOf
<1> QED BY <1>1, <1>2 DEF Queued, Entry, In

\* Every entry is the sudog of a case, and no queue holds it twice.
LEMMA EntryIts ==
  ASSUME QueuesSound, NEW d \in Dir, NEW c \in Channel
  PROVE  NoTwice(Qd(d, c)) /\ \A sg : Entry(d, c, sg) => Its(d, c, sg)
BY DEF QueuesSound, QueueSound, Entry, In

\* A sudog is in one queue only, that of its case.
LEMMA ItsQueue ==
  ASSUME NEW d, NEW c, NEW sg, Its(d, c, sg)
  PROVE  /\ Queued(sg.g, sg.i) <=> Entry(d, c, sg)
         /\ sg.i \in Cases(sg.g) /\ sg = Sudog(sg.g, sg.i)
         /\ d = DirOf(sg.g, sg.i) /\ c = CaseChan(sg.g, sg.i)
         /\ sg.isSelect <=> call[sg.g].kind = "select"
<1>1. /\ sg.i \in Cases(sg.g) /\ sg = Sudog(sg.g, sg.i)
      /\ d = DirOf(sg.g, sg.i) /\ c = CaseChan(sg.g, sg.i)
  BY DEF Its
<1>2. Queued(sg.g, sg.i) <=> Entry(d, c, sg)
  BY <1>1, QueuedEntry
<1>3. Sudog(sg.g, sg.i).isSelect <=> call[sg.g].kind = "select"
  BY DEF Sudog
<1>4. sg.isSelect <=> call[sg.g].kind = "select"
  BY <1>1, <1>3
<1> QED BY <1>1, <1>2, <1>4

\* Queues are sequences of sudogs.
LEMMA QdTypes ==
  ASSUME DataOK, NEW d, NEW c \in Channel
  PROVE  Qd(d, c) \in Seq(Sudogs) /\ \A sg : Entry(d, c, sg) => sg \in Sudogs /\ sg.g \in Goroutine
<1>1. Qd(d, c) \in Seq(Sudogs)
  BY DEF DataOK, Qd
<1> QED BY <1>1, InType DEF Entry

-----------------------------------------------------------------------------
(* What a step of one goroutine does to the others *)

\* Goroutine h may put its own sudog into a queue: it holds the lock of the
\* channel, which is open, and only its own select waits on the other side.
Adds(h, d, c, sg) ==
  /\ sg.g = h /\ Its(d, c, sg) /\ ~closed[c] /\ lock'[c] = h
  /\ \A s : Entry(Other(d), c, s)' => s.g = h /\ s.isSelect /\ sg.isSelect

\* Of the sudogs of the others it takes out only dead ones and those of S.
QStep(h, S) ==
  \A d \in Dir, c \in Channel :
    /\ NoTwice(Qd(d, c))'
    /\ \A sg : Entry(d, c, sg)' => (Entry(d, c, sg) /\ sg \notin S) \/ Adds(h, d, c, sg)
    /\ \A sg : Entry(d, c, sg) /\ Live(sg) /\ sg.g # h /\ (\A x \in S : x.g # sg.g) =>
         Entry(d, c, sg)'

\* S are the sudogs it is about to make ready: one of each goroutine, which waits.
Picked(h, S) ==
  /\ toReady[h] = {} /\ toReady'[h] = S
  /\ \A j \in Goroutine \ {h} : toReady'[j] = toReady[j]
  /\ \A x \in S : /\ x \in Sudogs /\ x.g \in Goroutine /\ pc[x.g] = "waiting" /\ ~Signalled(x.g)
                  /\ x.i \in Cases(x.g) /\ x = Sudog(x.g, x.i)
  /\ \A x, y \in S : x.g = y.g => x = y

\* Otherwise it leaves the other goroutines alone.
Apart(h, S) ==
  /\ \A g \in Goroutine \ {h} :
       /\ pc'[g] = pc[g] /\ call'[g] = call[g] /\ need'[g] = need[g]
       /\ selectDone'[g] <=> selectDone[g] \/ \E x \in S : x.g = g /\ x.isSelect
       /\ (\A x \in S : x.g # g) => param'[g] = param[g]
       /\ \A x \in S : x.g = g /\ pc'[h] = "readyAll" => param'[g] = x.i
  /\ \A c \in Channel, g \in Goroutine \ {h} : lock[c] = g => lock'[c] = g

\* It closes a channel only to drain its queues.
Closes(h) ==
  /\ \A c \in Channel : closed'[c] => closed[c] \/ (pc'[h] = "drain" /\ Ch(h)' = c /\ lock'[c] = h)
  /\ pc[h] = "drain" => sendq'[Ch(h)] = <<>> /\ recvq'[Ch(h)] = <<>>

\* What a step of h leaves in the queue of a case of another goroutine.
StaysQueued(g, i, S) ==
  /\ Queued(g, i)' => Queued(g, i) /\ Sudog(g, i) \notin S
  /\ Queued(g, i) /\ Live(Sudog(g, i)) /\ (\A x \in S : x.g # g) => Queued(g, i)'

\* The sudogs of the others stay unless they are dead or picked.
LEMMA OthersQueued ==
  ASSUME ControlOK, NEW h \in Goroutine, NEW S, QStep(h, S), NEW g \in Goroutine \ {h},
         call'[g] = call[g], NEW i \in Cases(g)
  PROVE  StaysQueued(g, i, S)
<1>0. PICK d, c, s : d = DirOf(g, i) /\ c = CaseChan(g, i) /\ s = Sudog(g, i)
  OBVIOUS
<1>1. /\ Queued(g, i) <=> Entry(d, c, s)
      /\ d \in Dir /\ c \in Channel
  BY <1>0, QueuedEntry, CaseTypes
<1>2. s.g = g
  BY <1>0, SMT DEF Sudog
<1>3. Queued(g, i)' <=> Entry(d, c, s)'
  BY <1>0, QueuedNext
<1>4. /\ Entry(d, c, s)' => (Entry(d, c, s) /\ s \notin S) \/ Adds(h, d, c, s)
      /\ Entry(d, c, s) /\ Live(s) /\ s.g # h /\ (\A x \in S : x.g # s.g) => Entry(d, c, s)'
  BY <1>1 DEF QStep
<1>5. ~Adds(h, d, c, s)
  BY <1>2 DEF Adds
<1> QED BY <1>0, <1>1, <1>2, <1>3, <1>4, <1>5 DEF StaysQueued

\* Which of its sudogs woke a goroutine is a number.
LEMMA ParamQueued ==
  ASSUME NEW g, NEW i, param'[g] = i
  PROVE  Queued(g, param[g])' <=> Queued(g, i)'
BY DEF Queued, Queue, Sends, CaseChan, Sudog

\* What another goroutine relies on survives.
LEMMA OthersBlock ==
  ASSUME IInv, NEW h \in Goroutine, NEW S, QStep(h, S), Picked(h, S), Apart(h, S),
         NEW g \in Goroutine \ {h}, BlockOK(g), SignalOK(g)
  PROVE  BlockOK(g)'
<1>0. ControlOK /\ PlaceOK(g)
  BY DEF IInv
<1> USE <1>0
<1>1. /\ pc'[g] = pc[g] /\ call'[g] = call[g]
      /\ selectDone'[g] <=> selectDone[g] \/ \E x \in S : x.g = g /\ x.isSelect
      /\ (\A x \in S : x.g # g) => param'[g] = param[g]
  BY DEF Apart
<1>2. Cases(g)' = Cases(g)
  BY <1>1, SameCall
<1> USE <1>2
<1>3. \A i \in Cases(g) :
        /\ Queued(g, i)' => Queued(g, i)
        /\ Queued(g, i) /\ Live(Sudog(g, i)) /\ (\A x \in S : x.g # g) => Queued(g, i)'
  <2>1. \A i \in Cases(g) : StaysQueued(g, i, S)
    BY <1>1, OthersQueued
  <2> QED BY <2>1 DEF StaysQueued
<1>4. \A i : Sudog(g, i).g = g /\ (Sudog(g, i).isSelect <=> call[g].kind = "select")
  BY DEF Sudog
<1>5. \A i : call[g].kind # "select" \/ ~selectDone[g] => Live(Sudog(g, i))
  BY <1>4 DEF Live
<1>6. \A x \in S : x.g = g => pc[g] = "waiting" /\ x = Sudog(g, x.i)
  BY DEF Picked
<1>7. Signalled(g) => Signalled(g)'
  BY DEF Signalled, Picked
<1>8. (\E x \in S : x.g = g) => Signalled(g)'
  BY DEF Signalled, Picked
<1>9. \A i \in Cases(g)' : Queued(g, i)' => pc'[g] \in Blocked
  BY <1>1, <1>3 DEF BlockOK
<1>10. pc'[g] = "park" => Queued(g, 1)'
  <2> SUFFICES ASSUME pc[g] = "park" PROVE Queued(g, 1)'
    BY <1>1
  <2>1. call[g].kind # "select" /\ Queued(g, 1) /\ \A x \in S : x.g # g
    BY <1>6 DEF PlaceOK, Plain, BlockOK
  <2>2. 1 \in Cases(g)
    <3>1. Len(call[g].cases) = 1 /\ Ch(g) \in Channel
      BY DEF PlaceOK, Plain
    <3>2. 1 \in DOMAIN call[g].cases
      <4>1. call[g].cases \in Seq(Case)
        BY CaseTypes
      <4> QED BY <3>1, <4>1, SMT
    <3>3. Ch(g) # Nil
      BY <3>1, ChanAssumption
    <3> QED BY <3>2, <3>3 DEF Cases, CaseChan, Ch
  <2> QED BY <1>3, <1>5, <2>1, <2>2
<1>11. /\ pc'[g] \in {"relock", "pass3"} => call'[g].kind = "select"
       /\ pc'[g] = "woken" => call'[g].kind # "select"
       /\ pc'[g] \in {"waiting", "woken"} /\ call'[g].kind # "select" => Cases(g)' = {1}
  BY <1>1 DEF BlockOK
<1>12. pc'[g] = "waiting" /\ ~Signalled(g)' => \A i \in Cases(g)' : Queued(g, i)'
  <2> SUFFICES ASSUME pc[g] = "waiting", ~Signalled(g)', NEW i \in Cases(g)
               PROVE  Queued(g, i)'
    BY <1>1
  <2>1. ~Signalled(g) /\ \A x \in S : x.g # g
    BY <1>7, <1>8
  <2>2. Queued(g, i) /\ ~selectDone[g]
    BY <2>1 DEF BlockOK
  <2> QED BY <1>3, <1>5, <2>1, <2>2
<1>13. pc'[g] \in {"relock", "pass3", "woken"} => param'[g] \in Cases(g)' /\ ~Queued(g, param[g])'
  <2> SUFFICES ASSUME pc[g] \in {"relock", "pass3", "woken"}
               PROVE  param'[g] \in Cases(g)' /\ ~Queued(g, param[g])'
    BY <1>1
  <2>1. param'[g] = param[g]
    BY <1>1, <1>6
  <2>2. param[g] \in Cases(g) /\ ~Queued(g, param[g])
    BY DEF BlockOK
  <2>3. PICK i : i = param[g]
    OBVIOUS
  <2>4. Queued(g, param[g])' <=> Queued(g, i)'
    BY <2>1, <2>3, ParamQueued
  <2> QED BY <1>3, <2>1, <2>2, <2>3, <2>4
<1>14. pc'[g] = "relock" => selectDone'[g]
  BY <1>1 DEF BlockOK
<1>15. selectDone'[g] => \/ pc'[g] = "waiting" /\ Signalled(g)' /\ call'[g].kind = "select"
                         \/ pc'[g] \in {"relock", "pass3"}
  <2>1. selectDone[g] => \/ pc'[g] = "waiting" /\ Signalled(g)' /\ call'[g].kind = "select"
                         \/ pc'[g] \in {"relock", "pass3"}
    BY <1>1, <1>7 DEF BlockOK
  <2>2. (\E x \in S : x.g = g /\ x.isSelect) =>
          pc'[g] = "waiting" /\ Signalled(g)' /\ call'[g].kind = "select"
    BY <1>1, <1>4, <1>6, <1>8
  <2> QED BY <1>1, <2>1, <2>2
<1> QED BY <1>9, <1>10, <1>11, <1>12, <1>13, <1>14, <1>15 DEF BlockOK

\* Nor does it change who is about to make another one ready.
LEMMA OthersSignal ==
  ASSUME IInv, NEW h \in Goroutine, NEW S, QStep(h, S), Picked(h, S), Apart(h, S),
         NEW g \in Goroutine \ {h}, SignalOK(g)
  PROVE  SignalOK(g)'
<1>0. ControlOK
  BY DEF IInv
<1>1. /\ pc'[g] = pc[g] /\ call'[g] = call[g]
      /\ selectDone'[g] <=> selectDone[g] \/ \E x \in S : x.g = g /\ x.isSelect
      /\ (\A x \in S : x.g # g) => param'[g] = param[g]
      /\ \A x \in S : x.g = g /\ pc'[h] = "readyAll" => param'[g] = x.i
  BY DEF Apart
<1>2. Cases(g)' = Cases(g) /\ \A i : Sudog(g, i)' = Sudog(g, i)
  BY <1>1, SameCall
<1>3. \A i \in Cases(g) : StaysQueued(g, i, S)
  BY <1>0, <1>1, OthersQueued
<1>4. ASSUME NEW j \in Goroutine, NEW x \in toReady'[j], x.g = g
      PROVE  \/ j = h /\ x \in S
             \/ j # h /\ x \in toReady[j] /\ pc'[j] = pc[j]
  BY DEF Picked, Apart
<1>5. ASSUME NEW j \in Goroutine, NEW x \in toReady'[j], x.g = g
      PROVE  /\ pc'[g] = "waiting" /\ x.i \in Cases(g)' /\ x = Sudog(g, x.i)'
             /\ ~Queued(g, x.i)'
             /\ x.isSelect => selectDone'[g]
             /\ pc'[j] = "readyAll" => param'[g] = x.i
             /\ \A k \in Goroutine : \A s \in toReady'[k] : s.g = g => k = j /\ s = x
  <2>1. CASE j = h /\ x \in S
    <3>1. pc[g] = "waiting" /\ ~Signalled(g) /\ x.i \in Cases(g) /\ x = Sudog(g, x.i)
      BY <1>5, <2>1 DEF Picked
    <3>2. ~Queued(g, x.i)'
      BY <1>3, <2>1, <3>1 DEF StaysQueued
    <3>3. ASSUME NEW k \in Goroutine, NEW s \in toReady'[k], s.g = g PROVE k = j /\ s = x
      <4>1. k = h /\ s \in S
        BY <1>4, <3>1, <3>3 DEF Signalled
      <4> QED BY <1>5, <2>1, <3>3, <4>1 DEF Picked
    <3> QED BY <1>1, <1>2, <1>5, <2>1, <3>1, <3>2, <3>3
  <2>2. CASE j # h /\ x \in toReady[j] /\ pc'[j] = pc[j]
    <3>1. /\ pc[g] = "waiting" /\ x.i \in Cases(g) /\ x = Sudog(g, x.i)
          /\ ~Queued(g, x.i)
          /\ x.isSelect => selectDone[g]
          /\ pc[j] = "readyAll" => param[g] = x.i
          /\ \A k \in Goroutine : \A s \in toReady[k] : s.g = g => k = j /\ s = x
      BY <1>5, <2>2 DEF SignalOK
    <3>2. ASSUME NEW s \in S PROVE s.g # g
      <4>1. Signalled(g)
        BY <1>5, <2>2 DEF Signalled
      <4>2. ~Signalled(s.g)
        BY DEF Picked
      <4> QED BY <4>1, <4>2
    <3>3. ~Queued(g, x.i)'
      BY <1>3, <3>1 DEF StaysQueued
    <3>4. ASSUME NEW k \in Goroutine, NEW s \in toReady'[k], s.g = g PROVE k = j /\ s = x
      <4>1. s \in toReady[k]
        BY <1>4, <3>2, <3>4
      <4> QED BY <3>1, <3>4, <4>1
    <3> QED BY <1>1, <1>2, <2>2, <3>1, <3>2, <3>3, <3>4
  <2> QED BY <1>4, <1>5, <2>1, <2>2
<1> QED BY <1>5 DEF SignalOK

\* So another goroutine waits as before.
LEMMA OthersWait ==
  ASSUME IInv, NEW h \in Goroutine, NEW S, QStep(h, S), Picked(h, S), Apart(h, S),
         NEW g \in Goroutine \ {h}, WaitOK(g)
  PROVE  WaitOK(g)'
<1>1. BlockOK(g) /\ RelockOK(g) /\ SignalOK(g) /\ ReadyOK(g)
  BY DEF WaitOK
<1>2. BlockOK(g)'
  BY <1>1, OthersBlock
<1>3. SignalOK(g)'
  BY <1>1, OthersSignal
<1>4. RelockOK(g)'
  <2>1. pc'[g] = pc[g] /\ call'[g] = call[g] /\ need'[g] = need[g]
    BY DEF Apart
  <2>2. Cases(g)' = Cases(g) /\ \A i : CaseChan(g, i)' = CaseChan(g, i)
    BY <2>1, SameCall
  <2>3. \A i \in Cases(g) : CaseChan(g, i) \in Channel
    BY CaseTypes DEF IInv
  <2>4. \A i \in Cases(g) : lock[CaseChan(g, i)] = g => lock'[CaseChan(g, i)] = g
    BY <2>3 DEF Apart
  <2> QED BY <1>1, <2>1, <2>2, <2>4 DEF RelockOK
<1>5. pc'[g] = pc[g] /\ toReady'[g] = toReady[g]
  BY DEF Picked, Apart
<1>6. ReadyOK(g)'
  BY <1>1, <1>5 DEF ReadyOK
<1> QED BY <1>2, <1>3, <1>4, <1>6 DEF WaitOK

\* An empty queue is one without entries.
LEMMA NoEntryNext ==
  ASSUME DataOK', NEW d \in Dir, NEW c \in Channel, \A sg : ~Entry(d, c, sg)'
  PROVE  Qd(d, c)' = <<>>
<1>1. PICK q : q = Qd(d, c)'
  OBVIOUS
<1>2. q \in Seq(Sudogs)
  BY <1>1 DEF DataOK, Qd
<1>3. \A sg : ~In(sg, q)
  BY <1>1 DEF Entry
<1> QED BY <1>1, <1>2, <1>3, NoneIn

\* The channels: once drained they stay empty, and the two sides of a channel
\* never wait for each other.
LEMMA ChanNext ==
  ASSUME IInv, IInv', QueuesSound, NEW h \in Goroutine, NEW S, QStep(h, S), Apart(h, S), Closes(h),
         NEW c \in Channel, ClosedOK(c), OppositeOK(c)
  PROVE  ClosedOK(c)' /\ OppositeOK(c)'
<1>0. DataOK'
  BY DEF IInv
<1>1. \A d \in Dir : \A sg : Entry(d, c, sg)' => Entry(d, c, sg) \/ Adds(h, d, c, sg)
  BY DEF QStep
<1>2. ClosedOK(c)'
  <2> SUFFICES ASSUME closed'[c]
               PROVE  Draining(c)' \/ (sendq'[c] = <<>> /\ recvq'[c] = <<>>)
    BY DEF ClosedOK
  <2>1. CASE ~closed[c]
    <3>1. pc'[h] = "drain" /\ Ch(h)' = c
      BY <2>1 DEF Closes
    <3> QED BY <3>1 DEF Draining
  <2>2. CASE closed[c] /\ sendq[c] = <<>> /\ recvq[c] = <<>>
    <3>1. \A d \in Dir : \A sg : ~Entry(d, c, sg)
      BY <2>2, InEmpty DEF Entry, Qd
    <3>2. \A d \in Dir : \A sg : ~Adds(h, d, c, sg)
      BY <2>2 DEF Adds
    <3>3. \A d \in Dir : Qd(d, c)' = <<>>
      BY <1>0, <1>1, <3>1, <3>2, NoEntryNext
    <3>4. "send" \in Dir /\ "recv" \in Dir
      BY DEF Dir
    <3> QED BY <3>3, <3>4, SMT DEF Qd
  <2>3. CASE closed[c] /\ Draining(c)
    <3>1. PICK g \in Goroutine : pc[g] = "drain" /\ Ch(g) = c
      BY <2>3 DEF Draining
    <3>2. CASE g = h
      BY <3>1, <3>2 DEF Closes
    <3>3. CASE g # h
      <4>1. pc'[g] = pc[g] /\ call'[g] = call[g]
        BY <3>3 DEF Apart
      <4>2. Ch(g)' = c
        BY <3>1, <4>1, SameCall
      <4> QED BY <3>1, <4>1, <4>2 DEF Draining
    <3> QED BY <3>2, <3>3
  <2> QED BY <2>1, <2>2, <2>3 DEF ClosedOK
<1>3. ASSUME NEW s, NEW r, Entry("send", c, s)', Entry("recv", c, r)'
      PROVE  s.g = r.g /\ s.isSelect /\ r.isSelect
  <2>0. "send" \in Dir /\ "recv" \in Dir /\ Other("send") = "recv" /\ Other("recv") = "send"
    BY SMT DEF Dir, Other
  <2>1. CASE Adds(h, "send", c, s)
    <3>1. \A x : Entry(Other("send"), c, x)' => x.g = h /\ x.isSelect /\ s.isSelect
      BY <2>1 DEF Adds
    <3> QED BY <1>3, <2>0, <2>1, <3>1 DEF Adds
  <2>2. CASE Adds(h, "recv", c, r)
    <3>1. \A x : Entry(Other("recv"), c, x)' => x.g = h /\ x.isSelect /\ r.isSelect
      BY <2>2 DEF Adds
    <3> QED BY <1>3, <2>0, <2>2, <3>1 DEF Adds
  <2>3. CASE Entry("send", c, s) /\ Entry("recv", c, r)
    BY <2>3, SMT DEF OppositeOK, Entry, In, Qd
  <2> QED BY <1>1, <1>3, <2>0, <2>1, <2>2, <2>3
<1>4. OppositeOK(c)'
  BY <1>3, SMT DEF OppositeOK, Entry, In, Qd
<1> QED BY <1>2, <1>4

\* What pass 1 of another select found stays true: it holds the locks.
LEMMA OthersPass2 ==
  ASSUME IInv, NEW h \in Goroutine, NEW S, QStep(h, S), Apart(h, S), Closes(h),
         NEW g \in Goroutine \ {h}, Pass2OK(g)
  PROVE  Pass2OK(g)'
<1>0. ControlOK /\ PlaceOK(g)
  BY DEF IInv
<1>1. pc'[g] = pc[g] /\ call'[g] = call[g]
  BY DEF Apart
<1>2. /\ Cases(g)' = Cases(g)
      /\ \A i : CaseChan(g, i)' = CaseChan(g, i) /\ DirOf(g, i)' = DirOf(g, i)
  BY <1>1, SameCall
<1> SUFFICES ASSUME pc[g] = "pass2", NEW i \in Cases(g)
             PROVE  /\ ~closed[CaseChan(g, i)]'
                    /\ \A k \in DOMAIN Qd(Other(DirOf(g, i)), CaseChan(g, i))' :
                         Qd(Other(DirOf(g, i)), CaseChan(g, i))'[k].g = g
  BY <1>1, <1>2 DEF Pass2OK
<1>3. PICK c, d : c = CaseChan(g, i) /\ d = Other(DirOf(g, i))
  OBVIOUS
<1> USE <1>3
<1>4. c \in Channel /\ d \in Dir /\ lock[c] = g
  <2>1. c \in Channel /\ lock[c] = g
    BY <1>0, CaseTypes DEF PlaceOK
  <2>2. d \in Dir
    BY DEF Other, Dir
  <2> QED BY <2>1, <2>2
<1>5. ~closed[c] /\ \A sg : Entry(d, c, sg) => sg.g = g
  BY DEF Pass2OK, Entry, In
<1>6. lock'[c] = g
  BY <1>4 DEF Apart
<1>7. ~closed'[c]
  BY <1>4, <1>5, <1>6 DEF Closes
<1>8. \A sg : Entry(d, c, sg)' => sg.g = g
  BY <1>4, <1>5, <1>6 DEF QStep, Adds
<1>9. CaseChan(g, i)' = c /\ Other(DirOf(g, i))' = d
  BY <1>2 DEF Other
<1>10. Qd(Other(DirOf(g, i)), CaseChan(g, i))' = Qd(d, c)'
  BY <1>9 DEF Qd
<1> QED BY <1>7, <1>8, <1>9, <1>10 DEF Entry, In

\* The queues stay sound: what is new there is the sudog of a case.
LEMMA SoundNext ==
  ASSUME IInv, QueuesSound, NEW h \in Goroutine, NEW S, QStep(h, S), Apart(h, S),
         call'[h] = call[h] \/ \A d \in Dir, c \in Channel : \A sg : Entry(d, c, sg)' => sg.g # h
  PROVE  QueuesSound'
<1> SUFFICES ASSUME NEW d \in Dir, NEW c \in Channel
             PROVE  QueueSound(d, c)'
  BY DEF QueuesSound
<1>0. DataOK
  BY DEF IInv
<1>1. ASSUME NEW sg, Entry(d, c, sg)' PROVE Its(d, c, sg)'
  <2>1. Entry(d, c, sg) \/ Adds(h, d, c, sg)
    BY <1>1 DEF QStep
  <2>2. Its(d, c, sg) /\ sg.g \in Goroutine
    BY <1>0, <2>1, EntryIts, QdTypes DEF Adds
  <2>3. call'[sg.g] = call[sg.g]
    <3>1. CASE sg.g = h
      BY <1>1, <3>1
    <3>2. CASE sg.g # h
      BY <2>2, <3>2 DEF Apart
    <3> QED BY <3>1, <3>2
  <2>4. /\ Cases(sg.g)' = Cases(sg.g) /\ DirOf(sg.g, sg.i)' = DirOf(sg.g, sg.i)
        /\ CaseChan(sg.g, sg.i)' = CaseChan(sg.g, sg.i) /\ Sudog(sg.g, sg.i)' = Sudog(sg.g, sg.i)
    BY <2>3, SameCall
  <2> QED BY <2>2, <2>4 DEF Its
<1>2. NoTwice(Qd(d, c))'
  BY DEF QStep
<1> QED BY <1>1, <1>2 DEF QueueSound, Entry, In

\* Together: a step that is good for the goroutine that takes it is good for all.
LEMMA StepW ==
  ASSUME IInv, IInv', WInv, NEW h \in Goroutine, NEW S, QStep(h, S), Picked(h, S), Apart(h, S),
         Closes(h), WaitOK(h)', Pass2OK(h)',
         call'[h] = call[h] \/ \A d \in Dir, c \in Channel : \A sg : Entry(d, c, sg)' => sg.g # h
  PROVE  WInv'
<1>0. /\ QueuesSound
      /\ \A g \in Goroutine : WaitOK(g) /\ Pass2OK(g)
      /\ \A c \in Channel : ClosedOK(c) /\ OppositeOK(c)
  BY DEF WInv
<1>1. QueuesSound'
  BY <1>0, SoundNext
<1>2. ASSUME NEW g \in Goroutine PROVE WaitOK(g)' /\ Pass2OK(g)'
  BY <1>0, OthersWait, OthersPass2
<1>3. ASSUME NEW c \in Channel PROVE ClosedOK(c)' /\ OppositeOK(c)'
  BY <1>0, ChanNext
<1> QED BY <1>1, <1>2, <1>3 DEF WInv

-----------------------------------------------------------------------------
(* The goroutine that takes the step *)

\* A step that takes only dead sudogs and those of S out of the queues.
Trims(S) ==
  \A d \in Dir, c \in Channel :
    /\ NoTwice(Qd(d, c))'
    /\ \A sg : Entry(d, c, sg)' => Entry(d, c, sg) /\ sg \notin S
    /\ \A sg : Entry(d, c, sg) /\ Live(sg) /\ (\A x \in S : x.g # sg.g) => Entry(d, c, sg)'

\* A step of h that leaves the other goroutines alone.
Alone(h) ==
  /\ toReady' = toReady
  /\ \A g \in Goroutine \ {h} :
       /\ pc'[g] = pc[g] /\ call'[g] = call[g] /\ need'[g] = need[g]
       /\ selectDone'[g] = selectDone[g] /\ param'[g] = param[g]
  /\ \A c \in Channel, g \in Goroutine \ {h} : lock[c] = g => lock'[c] = g

\* Trimming is one of the things a step may do to the queues.
LEMMA TrimsQStep ==
  ASSUME NEW h, NEW S, Trims(S)
  PROVE  QStep(h, S)
BY DEF Trims, QStep

\* Leaving the queues as they are trims nothing.
LEMMA SameTrims ==
  ASSUME QueuesSound, sendq' = sendq, recvq' = recvq
  PROVE  Trims({})
<1>1. \A d, c : Qd(d, c)' = Qd(d, c)
  BY DEF Qd
<1>2. \A d, c, sg : Entry(d, c, sg)' <=> Entry(d, c, sg)
  BY <1>1 DEF Entry
<1>3. \A d \in Dir, c \in Channel : NoTwice(Qd(d, c))'
  BY <1>1, EntryIts
<1> QED BY <1>2, <1>3 DEF Trims

\* A goroutine that makes nobody ready and leaves the others alone.
LEMMA AloneParts ==
  ASSUME NEW h \in Goroutine, pc[h] \notin {"wake", "readyAll"}, ReadyOK(h), Alone(h)
  PROVE  Picked(h, {}) /\ Apart(h, {}) /\ toReady[h] = {}
<1>1. toReady[h] = {}
  BY DEF ReadyOK
<1>2. Picked(h, {})
  BY <1>1 DEF Picked, Alone
<1>3. Apart(h, {})
  BY DEF Apart, Alone
<1> QED BY <1>1, <1>2, <1>3

\* Nobody is about to make a goroutine ready that does not wait.
LEMMA OwnSignal ==
  ASSUME NEW h \in Goroutine, pc[h] # "waiting", SignalOK(h), NEW S, Picked(h, S)
  PROVE  SignalOK(h)' /\ ~Signalled(h)'
<1>1. \A j \in Goroutine : \A sg \in toReady[j] : sg.g # h
  BY DEF SignalOK
<1>2. \A x \in S : x.g # h
  BY DEF Picked
<1>3. \A j \in Goroutine : \A sg \in toReady'[j] : sg.g # h
  BY <1>1, <1>2 DEF Picked
<1> QED BY <1>3 DEF SignalOK, Signalled

\* A goroutine that is not blocked has no sudog in a queue.
LEMMA NoneOwn ==
  ASSUME IInv, WInv, NEW h \in Goroutine, pc[h] \notin Blocked
  PROVE  /\ \A d \in Dir, c \in Channel : \A sg : Entry(d, c, sg) => sg.g # h
         /\ \A i \in Cases(h) : ~Queued(h, i)
         /\ ~selectDone[h]
<1>0. QueuesSound /\ BlockOK(h)
  BY DEF WInv, WaitOK
<1>1. \A i \in Cases(h) : ~Queued(h, i)
  BY <1>0 DEF BlockOK
<1>2. ASSUME NEW d \in Dir, NEW c \in Channel, NEW sg, Entry(d, c, sg) PROVE sg.g # h
  <2>1. Its(d, c, sg)
    BY <1>0, <1>2, EntryIts
  <2>2. sg.i \in Cases(sg.g) /\ Queued(sg.g, sg.i)
    BY <1>2, <2>1, ItsQueue
  <2> QED BY <1>1, <2>2
<1>3. ~selectDone[h]
  BY <1>0 DEF BlockOK, Blocked
<1> QED BY <1>1, <1>2, <1>3

\* The sudogs of a goroutine stay when the queues do.
LEMMA SameQueued ==
  ASSUME NEW g, call'[g] = call[g], sendq' = sendq, recvq' = recvq
  PROVE  \A i : Queued(g, i)' <=> Queued(g, i)
<1> SUFFICES ASSUME NEW i PROVE Queued(g, i)' <=> Queued(g, i)
  OBVIOUS
<1>1. PICK d, c, s : d = DirOf(g, i) /\ c = CaseChan(g, i) /\ s = Sudog(g, i)
  OBVIOUS
<1>2. Entry(d, c, s)' <=> Entry(d, c, s)
  BY DEF Entry, Qd
<1> QED BY <1>1, <1>2, QueuedNext, QueuedEntry

-----------------------------------------------------------------------------
(* Waking, and the queues of one case *)

\* The goroutine that h makes ready at this step, and nothing else.
MakesReady(h, sg) ==
  /\ sg \in toReady[h] /\ toReady'[h] = toReady[h] \ {sg}
  /\ \A j \in Goroutine \ {h} : toReady'[j] = toReady[j]
  /\ param'[sg.g] = sg.i /\ \A k \in Goroutine \ {sg.g} : param'[k] = param[k]
  /\ pc'[sg.g] = Resume(sg.g) /\ \A k \in Goroutine \ {h, sg.g} : pc'[k] = pc[k]
  /\ \/ pc[h] = "wake" /\ pc'[h] = "idle" /\ toReady'[h] = {}
     \/ pc[h] = "readyAll" /\ pc'[h] = "readyAll"
  /\ sendq' = sendq /\ recvq' = recvq /\ closed' = closed /\ lock' = lock
  /\ need' = need /\ call' = call /\ selectDone' = selectDone

\* It waits, nobody else makes it ready, and the others notice nothing.
LEMMA ReadyFacts ==
  ASSUME IInv, WInv, NEW h \in Goroutine, NEW sg, MakesReady(h, sg)
  PROVE  /\ sg.g \in Goroutine \ {h} /\ pc[sg.g] = "waiting"
         /\ sg.i \in Cases(sg.g) /\ ~Queued(sg.g, sg.i)
         /\ call[sg.g].kind = "select" => selectDone[sg.g]
         /\ \A j \in Goroutine : \A s \in toReady'[j] : s \in toReady[j] /\ s.g # sg.g
         /\ \A k \in Goroutine \ {sg.g} : Signalled(k)' <=> Signalled(k)
<1>1. sg \in toReady[h] /\ pc[h] \in {"wake", "readyAll"}
  BY DEF MakesReady
<1>2. sg \in Sudogs
  BY <1>1 DEF IInv, DataOK
<1>3. sg.g \in Goroutine
  BY <1>2, SMT DEF Sudogs
<1>4. /\ pc[sg.g] = "waiting" /\ sg.i \in Cases(sg.g) /\ ~Queued(sg.g, sg.i)
      /\ sg = Sudog(sg.g, sg.i)
      /\ sg.isSelect => selectDone[sg.g]
      /\ \A j \in Goroutine : \A s \in toReady[j] : s.g = sg.g => j = h /\ s = sg
  <2>1. SignalOK(sg.g)
    BY <1>3 DEF WInv, WaitOK
  <2> QED BY <1>1, <2>1 DEF SignalOK
<1>5. sg.g # h
  BY <1>1, <1>4
<1>6. call[sg.g].kind = "select" => selectDone[sg.g]
  <2>1. Sudog(sg.g, sg.i).isSelect <=> call[sg.g].kind = "select"
    BY DEF Sudog
  <2> QED BY <1>4, <2>1
<1>7. ASSUME NEW j \in Goroutine, NEW s \in toReady'[j] PROVE s \in toReady[j] /\ s.g # sg.g
  <2>1. s \in toReady[j] /\ (j = h => s # sg)
    BY DEF MakesReady
  <2> QED BY <1>4, <2>1
<1>8. ASSUME NEW k \in Goroutine \ {sg.g} PROVE Signalled(k)' <=> Signalled(k)
  <2>1. ASSUME NEW j \in Goroutine, NEW s \in toReady[j], s.g = k PROVE s \in toReady'[j]
    BY <2>1 DEF MakesReady
  <2> QED BY <1>7, <2>1 DEF Signalled
<1> QED BY <1>3, <1>4, <1>5, <1>6, <1>7, <1>8

\* goready keeps the invariant.
LEMMA ReadyW ==
  ASSUME IInv, IInv', WInv, NEW h \in Goroutine, NEW sg, MakesReady(h, sg)
  PROVE  WInv'
<1>0. /\ QueuesSound
      /\ \A g \in Goroutine : WaitOK(g) /\ Pass2OK(g)
      /\ \A c \in Channel : ClosedOK(c) /\ OppositeOK(c)
  BY DEF WInv
<1>1. /\ sendq' = sendq /\ recvq' = recvq /\ closed' = closed /\ lock' = lock
      /\ need' = need /\ call' = call /\ selectDone' = selectDone
  BY DEF MakesReady
<1> USE <1>1
<1>2. /\ sg.g \in Goroutine \ {h} /\ pc[sg.g] = "waiting"
      /\ sg.i \in Cases(sg.g) /\ ~Queued(sg.g, sg.i)
      /\ call[sg.g].kind = "select" => selectDone[sg.g]
      /\ \A j \in Goroutine : \A s \in toReady'[j] : s \in toReady[j] /\ s.g # sg.g
      /\ \A k \in Goroutine \ {sg.g} : Signalled(k)' <=> Signalled(k)
  BY ReadyFacts
<1>3. /\ param'[sg.g] = sg.i /\ \A k \in Goroutine \ {sg.g} : param'[k] = param[k]
      /\ pc'[sg.g] = Resume(sg.g) /\ \A k \in Goroutine \ {h, sg.g} : pc'[k] = pc[k]
      /\ \/ pc[h] = "wake" /\ pc'[h] = "idle" /\ toReady'[h] = {}
         \/ pc[h] = "readyAll" /\ pc'[h] = "readyAll"
  BY DEF MakesReady
<1>4. \A k : Cases(k)' = Cases(k) /\ Ch(k)' = Ch(k)
  BY SameCall
<1>5. \A k, i : /\ CaseChan(k, i)' = CaseChan(k, i) /\ Sudog(k, i)' = Sudog(k, i)
                /\ DirOf(k, i)' = DirOf(k, i)
  BY SameCall
<1>6. \A k, i : Queued(k, i)' <=> Queued(k, i)
  BY SameQueued
<1>7. \A d, c : Qd(d, c)' = Qd(d, c)
  BY DEF Qd
<1>8. QueuesSound'
  <2>1. \A d, c, s : Its(d, c, s)' <=> Its(d, c, s)
    BY <1>4, <1>5 DEF Its
  <2>2. ASSUME NEW d \in Dir, NEW c \in Channel PROVE QueueSound(d, c)'
    <3>1. NoTwice(Qd(d, c))' /\ \A k \in DOMAIN Qd(d, c) : Its(d, c, Qd(d, c)[k])
      BY <1>0, <1>7 DEF QueuesSound, QueueSound, NoTwice
    <3>2. PICK q : q = Qd(d, c) /\ q = Qd(d, c)'
      BY <1>7
    <3>3. \A k \in DOMAIN q : Its(d, c, q[k])'
      BY <2>1, <3>1, <3>2
    <3> QED BY <3>1, <3>2, <3>3 DEF QueueSound
  <2> QED BY <2>2 DEF QueuesSound
<1>9. ASSUME NEW c \in Channel PROVE ClosedOK(c)' /\ OppositeOK(c)'
  <2>1. Draining(c) => Draining(c)'
    <3> SUFFICES ASSUME NEW j \in Goroutine, pc[j] = "drain", Ch(j) = c PROVE Draining(c)'
      BY DEF Draining
    <3>1. pc'[j] = "drain"
      BY <1>2, <1>3
    <3> QED BY <1>4, <3>1 DEF Draining
  <2>2. ClosedOK(c)'
    BY <1>0, <2>1 DEF ClosedOK
  <2>3. OppositeOK(c)'
    <3>1. OppositeOK(c) /\ sendq'[c] = sendq[c] /\ recvq'[c] = recvq[c]
      BY <1>0
    <3> QED BY <3>1, SMT DEF OppositeOK
  <2> QED BY <2>2, <2>3
<1>10. ASSUME NEW k \in Goroutine PROVE Pass2OK(k)'
  <2>1. pc'[k] = "pass2" => pc[k] = "pass2"
    BY <1>2, <1>3 DEF Resume
  <2> QED BY <1>0, <1>4, <1>5, <1>7, <2>1 DEF Pass2OK
<1>11. ASSUME NEW k \in Goroutine PROVE SignalOK(k)'
  <2>1. ASSUME NEW j \in Goroutine, NEW s \in toReady'[j], s.g = k
        PROVE  /\ pc'[k] = "waiting" /\ s.i \in Cases(k) /\ s = Sudog(k, s.i) /\ ~Queued(k, s.i)
               /\ s.isSelect => selectDone[k]
               /\ pc'[j] = "readyAll" => param'[k] = s.i
               /\ \A m \in Goroutine : \A x \in toReady'[m] : x.g = k => m = j /\ x = s
    <3>1. s \in toReady[j] /\ k # sg.g
      BY <1>2, <2>1
    <3>2. SignalOK(k)
      BY <1>0 DEF WaitOK
    <3>3. /\ pc[k] = "waiting" /\ s.i \in Cases(k) /\ s = Sudog(k, s.i) /\ ~Queued(k, s.i)
          /\ s.isSelect => selectDone[k]
          /\ pc[j] = "readyAll" => param[k] = s.i
          /\ \A m \in Goroutine : \A x \in toReady[m] : x.g = k => m = j /\ x = s
      BY <2>1, <3>1, <3>2 DEF SignalOK
    <3>4. pc'[k] = "waiting" /\ param'[k] = param[k]
      BY <1>2, <1>3, <3>1, <3>3
    <3>5. pc'[j] = "readyAll" => pc[j] = "readyAll"
      BY <1>2, <1>3 DEF Resume
    <3> QED BY <1>2, <3>3, <3>4, <3>5
  <2> QED BY <1>4, <1>5, <1>6, <2>1 DEF SignalOK
<1>12. ASSUME NEW k \in Goroutine PROVE ReadyOK(k)'
  <2>1. ReadyOK(k)
    BY <1>0 DEF WaitOK
  <2>2. CASE k = h
    BY <1>3, <2>2 DEF ReadyOK
  <2>3. CASE k = sg.g
    <3>1. toReady'[k] = {}
      BY <1>2, <2>1, <2>3 DEF ReadyOK, MakesReady
    <3> QED BY <1>3, <2>3, <3>1 DEF ReadyOK, Resume
  <2>4. CASE k \notin {h, sg.g}
    BY <1>3, <2>1, <2>4 DEF ReadyOK, MakesReady
  <2> QED BY <2>2, <2>3, <2>4
<1>13. ASSUME NEW k \in Goroutine PROVE RelockOK(k)'
  <2>1. RelockOK(k)
    BY <1>0 DEF WaitOK
  <2>2. /\ pc'[k] \in {"waiting", "relock"} => pc[k] \in {"waiting", "relock"}
        /\ pc'[k] = "pass3" => pc[k] = "pass3"
    BY <1>2, <1>3 DEF Resume
  <2> QED BY <1>4, <1>5, <2>1, <2>2 DEF RelockOK
<1>14. ASSUME NEW k \in Goroutine PROVE BlockOK(k)'
  <2>0. BlockOK(k)
    BY <1>0 DEF WaitOK
  <2>1. CASE k = h
    <3>1. pc[h] \notin Blocked /\ pc[h] # "waiting"
      BY <1>3 DEF Blocked
    <3>2. (\A i \in Cases(h) : ~Queued(h, i)) /\ ~selectDone[h]
      BY <3>1, NoneOwn
    <3>3. pc'[h] \notin {"park", "relock", "pass3", "woken", "waiting"}
      BY <1>3
    <3> QED BY <1>4, <1>6, <2>1, <3>2, <3>3 DEF BlockOK
  <2>2. CASE k = sg.g
    <3>1. call[k].kind # "select" => Cases(k) = {1}
      BY <1>2, <2>0, <2>2 DEF BlockOK
    <3>2. ~Queued(k, param[k])' /\ param'[k] \in Cases(k)
      BY <1>2, <1>3, <1>6, <2>2, ParamQueued
    <3>3. pc'[k] = IF call[k].kind = "select" THEN "relock" ELSE "woken"
      BY <1>3, <2>2 DEF Resume
    <3>4. selectDone[k] => call[k].kind = "select"
      BY <1>2, <2>0, <2>2 DEF BlockOK
    <3>5. \A i \in Cases(k) : Queued(k, i) => call[k].kind = "select"
      BY <1>2, <2>2, <3>1
    <3>6. CASE call[k].kind = "select"
      <4>1. pc'[k] = "relock" /\ pc'[k] \in Blocked
        BY <3>3, <3>6 DEF Blocked
      <4> QED BY <1>2, <1>4, <2>2, <3>2, <3>6, <4>1 DEF BlockOK
    <3>7. CASE call[k].kind # "select"
      <4>1. pc'[k] = "woken"
        BY <3>3, <3>7
      <4> QED BY <1>4, <1>6, <3>1, <3>2, <3>4, <3>5, <3>7, <4>1 DEF BlockOK
    <3> QED BY <3>6, <3>7
  <2>3. CASE k \notin {h, sg.g}
    <3>1. pc'[k] = pc[k] /\ param'[k] = param[k] /\ (Signalled(k)' <=> Signalled(k))
      BY <1>2, <1>3, <2>3
    <3>2. Queued(k, param[k])' <=> Queued(k, param[k])
      BY <1>6, <3>1, ParamQueued
    <3> QED BY <1>4, <1>6, <2>0, <3>1, <3>2 DEF BlockOK
  <2> QED BY <2>1, <2>2, <2>3
<1>15. \A k \in Goroutine : WaitOK(k)'
  BY <1>11, <1>12, <1>13, <1>14 DEF WaitOK
<1> QED BY <1>8, <1>9, <1>10, <1>15 DEF WInv

\* The end of send and recv.
LEMMA WakeW ==
  ASSUME IInv, IInv', WInv, NEW h \in Goroutine, Wake(h)
  PROVE  WInv'
<1>0. ControlOK /\ DataOK /\ WaitOK(h)
  BY DEF IInv, WInv
<1> USE <1>0
<1>1. PICK sg \in toReady[h] :
        /\ Signal(sg)
        /\ IF pc[sg.g] = "waiting"
           THEN pc' = [pc EXCEPT ![h] = "idle", ![sg.g] = Resume(sg.g)]
           ELSE Goto(h, "throw")
  BY DEF Wake
<1> USE <1>1
<1>2. /\ pc[h] = "wake" /\ toReady' = [toReady EXCEPT ![h] = {}]
      /\ sendq' = sendq /\ recvq' = recvq /\ closed' = closed /\ lock' = lock
      /\ need' = need /\ call' = call /\ selectDone' = selectDone
  BY DEF Wake, chanVars, queueVars, lockVars
<1> USE <1>2
<1>3. toReady[h] = {sg}
  BY DEF WaitOK, ReadyOK
<1>4. sg \in Sudogs
  BY DEF DataOK
<1>5. sg.g \in Goroutine
  BY <1>4, SMT DEF Sudogs
<1>6. pc[sg.g] = "waiting"
  BY <1>5 DEF WInv, WaitOK, SignalOK
<1>7. /\ sg.g # h /\ pc' = [pc EXCEPT ![h] = "idle", ![sg.g] = Resume(sg.g)]
      /\ param' = [param EXCEPT ![sg.g] = sg.i]
  BY <1>6 DEF Signal
<1>8. pc'[h] = "idle" /\ pc'[sg.g] = Resume(sg.g) /\ \A k \in Goroutine \ {h, sg.g} : pc'[k] = pc[k]
  BY <1>5, <1>7 DEF ControlOK
<1>9. param'[sg.g] = sg.i /\ \A k \in Goroutine \ {sg.g} : param'[k] = param[k]
  BY <1>5, <1>7 DEF ControlOK
<1>10. toReady'[h] = {} /\ \A j \in Goroutine \ {h} : toReady'[j] = toReady[j]
  BY DEF DataOK
<1>11. toReady'[h] = toReady[h] \ {sg}
  BY <1>3, <1>10
<1>12. MakesReady(h, sg)
  BY <1>8, <1>9, <1>10, <1>11 DEF MakesReady
<1> QED BY <1>12, ReadyW

\* The queue of one case becomes p.
Requeues(h, i, c, p) ==
  IF Sends(h, i) THEN sendq' = [sendq EXCEPT ![c] = p] /\ recvq' = recvq
                 ELSE recvq' = [recvq EXCEPT ![c] = p] /\ sendq' = sendq
OnlyQueue(d, c, p) ==
  /\ d \in Dir /\ Qd(d, c)' = p
  /\ \A e \in Dir, b \in Channel : e # d \/ b # c => Qd(e, b)' = Qd(e, b)

\* Then no other queue changes.
LEMMA CaseQueue ==
  ASSUME DataOK, NEW h, NEW i, NEW c \in Channel, NEW d, NEW p, d = DirOf(h, i),
         Requeues(h, i, c, p)
  PROVE  OnlyQueue(d, c, p)
<1>1. CASE Sends(h, i)
  <2>1. d = "send"
    BY <1>1 DEF DirOf
  <2>2. sendq'[c] = p /\ \A b \in Channel : b # c => sendq'[b] = sendq[b]
    BY <1>1 DEF DataOK, Requeues
  <2> QED BY <1>1, <2>1, <2>2 DEF Qd, Dir, Requeues, OnlyQueue
<1>2. CASE ~Sends(h, i)
  <2>1. d = "recv"
    BY <1>2 DEF DirOf
  <2>2. recvq'[c] = p /\ \A b \in Channel : b # c => recvq'[b] = recvq[b]
    BY <1>2 DEF DataOK, Requeues
  <2> QED BY <1>2, <2>1, <2>2 DEF Qd, Dir, Requeues, OnlyQueue
<1> QED BY <1>1, <1>2

\* A case of pass 2 queues up; what waits on the other side is the select itself.
LEMMA EnqueueCaseW ==
  ASSUME IInv, IInv', WInv, NEW h \in Goroutine, NEW i \in Cases(h), EnqueueCase(h, i)
  PROVE  WInv'
<1>0. QueuesSound /\ WaitOK(h) /\ Pass2OK(h) /\ ControlOK /\ DataOK /\ PlaceOK(h)
  BY DEF WInv, IInv
<1> USE <1>0
<1>1. PICK d, c, s : d = DirOf(h, i) /\ c = CaseChan(h, i) /\ s = Sudog(h, i)
  OBVIOUS
<1> USE <1>1
<1>2. /\ pc[h] = "pass2" /\ ~Queued(h, i) /\ pc' = pc
      /\ closed' = closed /\ lock' = lock /\ need' = need /\ call' = call
      /\ toReady' = toReady /\ selectDone' = selectDone /\ param' = param
  BY DEF EnqueueCase, chanVars, lockVars, wakeVars
<1> USE <1>2
<1>3. c \in Channel /\ lock[c] = h /\ ~closed[c] /\ call[h].kind = "select"
  BY CaseTypes DEF PlaceOK, Pass2OK
<1> USE <1>3
<1>4. s \in Sudogs /\ s.g = h /\ s.i = i /\ s.isSelect
  <2>1. s \in Sudogs
    BY CaseTypes, SudogType
  <2>2. s.g = h /\ s.i = i /\ s.isSelect
    BY DEF Sudog
  <2> QED BY <2>1, <2>2
<1>5. /\ d \in Dir /\ Qd(d, c)' = Append(Qd(d, c), s)
      /\ \A e \in Dir, b \in Channel : e # d \/ b # c => Qd(e, b)' = Qd(e, b)
  <2>1. PICK p : p = Append(Qd(d, c), s)
    OBVIOUS
  <2>2. Requeues(h, i, c, p)
    BY <2>1 DEF EnqueueCase, Qd, DirOf, Requeues
  <2>3. OnlyQueue(d, c, p)
    BY <2>2, CaseQueue
  <2> QED BY <2>1, <2>3 DEF OnlyQueue
<1>6. Its(d, c, s)
  BY <1>4 DEF Its
<1>7. ~Entry(d, c, s)
  BY QueuedEntry
<1>8. /\ NoTwice(Append(Qd(d, c), s))
      /\ \A sg : In(sg, Qd(d, c)) => In(sg, Append(Qd(d, c), s))
      /\ \A sg : In(sg, Append(Qd(d, c), s)) => In(sg, Qd(d, c)) \/ sg = s
  <2>1. ~In(s, Qd(d, c)) /\ Qd(d, c) \in Seq(Sudogs) /\ NoTwice(Qd(d, c))
    BY <1>5, <1>7, QdTypes, EntryIts DEF Entry
  <2> QED BY <1>4, <2>1, InAppend
<1>9. d # Other(d) /\ Other(d) \in Dir
  BY <1>5, SMT DEF Dir, Other
<1>10. Adds(h, d, c, s)
  <2>1. ASSUME NEW x, Entry(Other(d), c, x)' PROVE x.g = h /\ x.isSelect
    <3>1. Entry(Other(d), c, x)
      BY <1>5, <1>9, <2>1 DEF Entry
    <3>2. x.g = h
      BY <3>1 DEF Pass2OK, Entry, In
    <3>3. Its(Other(d), c, x)
      BY <1>9, <3>1, EntryIts
    <3>4. x.isSelect <=> call[x.g].kind = "select"
      BY <3>3, ItsQueue
    <3> QED BY <3>2, <3>4
  <2> QED BY <1>4, <1>6, <2>1 DEF Adds
<1>11. QStep(h, {})
  <2> SUFFICES ASSUME NEW e \in Dir, NEW b \in Channel
               PROVE  /\ NoTwice(Qd(e, b))'
                      /\ \A sg : Entry(e, b, sg)' => Entry(e, b, sg) \/ Adds(h, e, b, sg)
                      /\ \A sg : Entry(e, b, sg) => Entry(e, b, sg)'
    BY DEF QStep
  <2>1. CASE e # d \/ b # c
    <3>1. Qd(e, b)' = Qd(e, b)
      BY <1>5, <2>1
    <3> QED BY <3>1, EntryIts DEF Entry
  <2>2. CASE b = c /\ e = d
    BY <1>5, <1>8, <1>10, <2>2 DEF Entry
  <2> QED BY <2>1, <2>2
<1>12. Alone(h)
  BY DEF Alone
<1>13. Picked(h, {}) /\ Apart(h, {}) /\ toReady[h] = {}
  BY <1>12, AloneParts DEF WaitOK
<1>14. Closes(h)
  BY DEF Closes
<1>15. pc'[h] = "pass2" /\ ~selectDone'[h]
  BY DEF WaitOK, BlockOK
<1>16. BlockOK(h)' /\ RelockOK(h)' /\ ReadyOK(h)'
  BY <1>13, <1>15 DEF BlockOK, RelockOK, ReadyOK, Blocked
<1>17. SignalOK(h)'
  BY <1>13, OwnSignal DEF WaitOK
<1>18. Pass2OK(h)'
  <2>1. /\ Cases(h)' = Cases(h)
        /\ \A j : CaseChan(h, j)' = CaseChan(h, j) /\ DirOf(h, j)' = DirOf(h, j)
    BY SameCall
  <2>2. ASSUME NEW j \in Cases(h)
        PROVE  /\ ~closed[CaseChan(h, j)]
               /\ \A x : Entry(Other(DirOf(h, j)), CaseChan(h, j), x)' => x.g = h
    <3>1. PICK e, b : e = Other(DirOf(h, j)) /\ b = CaseChan(h, j)
      OBVIOUS
    <3>2. b \in Channel /\ e \in Dir
      BY <3>1, CaseTypes DEF Other, Dir
    <3>3. ~closed[b] /\ \A x : Entry(e, b, x) => x.g = h
      BY <3>1 DEF Pass2OK, Entry, In
    <3>4. ASSUME NEW x, Entry(e, b, x)' PROVE x.g = h
      <4>1. Entry(e, b, x) \/ Adds(h, e, b, x)
        BY <1>11, <3>2, <3>4 DEF QStep
      <4> QED BY <3>3, <4>1 DEF Adds
    <3>5. Other(DirOf(h, j))' = e /\ CaseChan(h, j)' = b
      BY <2>1, <3>1 DEF Other
    <3>6. Qd(Other(DirOf(h, j)), CaseChan(h, j))' = Qd(e, b)'
      BY <3>5 DEF Qd
    <3> QED BY <3>1, <3>3, <3>4, <3>6 DEF Entry
  <2> QED BY <2>1, <2>2 DEF Pass2OK, Entry, In
<1>19. WaitOK(h)' /\ call'[h] = call[h]
  BY <1>16, <1>17 DEF WaitOK
<1> QED BY <1>11, <1>13, <1>14, <1>18, <1>19, StepW

\* dequeueSudoG takes the sudog out and leaves the others.
LEMMA InUnlinked ==
  ASSUME NEW q \in Seq(Sudogs), NEW m \in DOMAIN q, NoTwice(q)
  PROVE  /\ NoTwice(Unlinked(q, m))
         /\ \A sg : In(sg, Unlinked(q, m)) => In(sg, q) /\ sg # q[m]
         /\ \A sg : In(sg, q) /\ sg # q[m] => In(sg, Unlinked(q, m))
<1> DEFINE p == Unlinked(q, m)
           At(k) == IF k < m THEN k ELSE k + 1
<1>1. /\ Len(q) \in Nat /\ DOMAIN q = 1 .. Len(q) /\ m \in 1 .. Len(q)
      /\ DOMAIN p = 1 .. Len(q) - 1 /\ \A k \in 1 .. Len(q) - 1 : p[k] = q[At(k)]
  <2> DEFINE a == SubSeq(q, 1, m - 1)
             b == SubSeq(q, m + 1, Len(q))
  <2>1. Len(q) \in Nat /\ DOMAIN q = 1 .. Len(q) /\ m \in 1 .. Len(q)
    BY SMT
  <2> USE <2>1
  <2>2. /\ a \in Seq(Sudogs) /\ Len(a) = m - 1 /\ \A k \in 1 .. m - 1 : a[k] = q[k]
        /\ b \in Seq(Sudogs) /\ Len(b) = Len(q) - m /\ \A k \in 1 .. Len(q) - m : b[k] = q[m + k]
    <3>1. a \in Seq(Sudogs) /\ b \in Seq(Sudogs)
      BY SMT
    <3>2. Len(a) = m - 1 /\ \A k \in 1 .. m - 1 : a[k] = q[k]
      BY SMT
    <3>3. Len(b) = Len(q) - m /\ \A k \in 1 .. Len(q) - m : b[k] = q[m + k]
      BY SMT
    <3> QED BY <3>1, <3>2, <3>3
  <2>3. p = a \o b
    BY DEF Unlinked
  <2> HIDE DEF a, b, p
  <2>4. DOMAIN p = 1 .. Len(q) - 1
    <3>1. p \in Seq(Sudogs) /\ Len(p) = Len(a) + Len(b)
      BY <2>2, <2>3, Joined
    <3>2. Len(p) = Len(q) - 1
      BY <2>2, <3>1, SMT
    <3>3. DOMAIN p = 1 .. Len(p)
      BY <3>1, SMT
    <3> QED BY <3>2, <3>3
  <2>5. ASSUME NEW k \in 1 .. Len(q) - 1 PROVE p[k] = q[At(k)]
    <3>0. \A i \in 1 .. Len(a) + Len(b) : p[i] = IF i <= Len(a) THEN a[i] ELSE b[i - Len(a)]
      BY <2>2, <2>3, Joined
    <3>1. CASE k < m
      <4>1. k \in 1 .. Len(a) + Len(b) /\ k <= Len(a) /\ k \in 1 .. m - 1
        BY <2>2, <3>1, SMT
      <4> QED BY <2>2, <3>0, <3>1, <4>1
    <3>2. CASE k >= m
      <4>1. k \in 1 .. Len(a) + Len(b) /\ ~(k <= Len(a)) /\ Len(a) = m - 1
        BY <2>2, <3>2, SMT
      <4>2. k - Len(a) \in 1 .. Len(q) - m /\ m + (k - Len(a)) = k + 1 /\ ~(k < m)
        BY <2>2, <3>2, SMT
      <4>3. p[k] = b[k - Len(a)]
        BY <3>0, <4>1
      <4>4. b[k - Len(a)] = q[m + (k - Len(a))]
        BY <2>2, <4>2
      <4> QED BY <4>2, <4>3, <4>4
    <3> QED BY <3>1, <3>2, SMT
  <2> QED BY <2>4, <2>5, SMT
<1> HIDE DEF p
<1>2. \A k \in DOMAIN p : At(k) \in DOMAIN q /\ At(k) # m
  BY <1>1, SMT
<1>3. \A j, k \in DOMAIN p : At(j) = At(k) => j = k
  BY <1>1, SMT
<1>4. ASSUME NEW k \in DOMAIN q, k # m
      PROVE  \E j \in DOMAIN p : At(j) = k
  <2>1. k < m => k \in DOMAIN p /\ At(k) = k
    BY <1>1, SMT
  <2>2. k > m => k - 1 \in DOMAIN p /\ At(k - 1) = k
    BY <1>1, SMT
  <2>3. k < m \/ k > m
    BY <1>1, <1>4, SMT
  <2> QED BY <2>1, <2>2, <2>3
<1> HIDE DEF At
<1>5. \A k \in DOMAIN p : p[k] = q[At(k)]
  BY <1>1
<1>6. \A sg : In(sg, p) => In(sg, q) /\ sg # q[m]
  BY <1>2, <1>5 DEF In, NoTwice
<1>7. \A sg : In(sg, q) /\ sg # q[m] => In(sg, p)
  BY <1>4, <1>5 DEF In
<1>8. NoTwice(p)
  BY <1>2, <1>3, <1>5 DEF NoTwice
<1> QED BY <1>6, <1>7, <1>8 DEF p

\* A case of pass 3 leaves its queue.
LEMMA DequeueSudoGW ==
  ASSUME IInv, IInv', WInv, NEW h \in Goroutine, NEW i \in Cases(h), dequeueSudoG(h, i)
  PROVE  WInv'
<1>0. QueuesSound /\ WaitOK(h) /\ ControlOK /\ DataOK
  BY DEF WInv, IInv
<1> USE <1>0
<1>1. PICK d, c, s : d = DirOf(h, i) /\ c = CaseChan(h, i) /\ s = Sudog(h, i)
  OBVIOUS
<1> USE <1>1
<1>2. /\ pc[h] = "pass3" /\ pc' = pc /\ selectDone' = [selectDone EXCEPT ![h] = FALSE]
      /\ closed' = closed /\ lock' = lock /\ need' = need /\ call' = call
      /\ toReady' = toReady /\ param' = param
  BY DEF dequeueSudoG, chanVars, lockVars
<1> USE <1>2
<1>3. c \in Channel /\ d \in Dir
  BY CaseTypes, QueuedEntry
<1>4. PICK m \in DOMAIN Qd(d, c) :
        /\ Qd(d, c)[m] = s /\ Qd(d, c)' = Unlinked(Qd(d, c), m)
        /\ \A e \in Dir, b \in Channel : e # d \/ b # c => Qd(e, b)' = Qd(e, b)
  <2>1. Queue(h, i) = Qd(d, c)
    BY DEF Queue, Qd, DirOf
  <2>2. PICK m \in DOMAIN Queue(h, i) :
          /\ Queue(h, i)[m] = Sudog(h, i)
          /\ IF Sends(h, i)
             THEN sendq' = [sendq EXCEPT ![c] = Unlinked(@, m)] /\ UNCHANGED recvq
             ELSE recvq' = [recvq EXCEPT ![c] = Unlinked(@, m)] /\ UNCHANGED sendq
    BY DEF dequeueSudoG
  <2>3. PICK p : p = Unlinked(Qd(d, c), m)
    OBVIOUS
  <2>4. Requeues(h, i, c, p)
    BY <2>2, <2>3 DEF Qd, DirOf, Requeues
  <2>5. OnlyQueue(d, c, p)
    BY <1>3, <2>4, CaseQueue
  <2> QED BY <2>1, <2>2, <2>3, <2>5 DEF OnlyQueue
<1>5. /\ NoTwice(Unlinked(Qd(d, c), m))
      /\ \A sg : In(sg, Unlinked(Qd(d, c), m)) => In(sg, Qd(d, c))
      /\ \A sg : In(sg, Qd(d, c)) /\ sg # s => In(sg, Unlinked(Qd(d, c), m))
  <2>1. Qd(d, c) \in Seq(Sudogs) /\ NoTwice(Qd(d, c))
    BY <1>3, QdTypes, EntryIts
  <2> QED BY <1>4, <2>1, InUnlinked
<1>6. s.g = h
  BY SMT DEF Sudog
<1>7. ASSUME NEW e \in Dir, NEW b \in Channel
      PROVE  /\ NoTwice(Qd(e, b))'
             /\ \A sg : Entry(e, b, sg)' => Entry(e, b, sg)
             /\ \A sg : Entry(e, b, sg) /\ sg.g # h => Entry(e, b, sg)'
  <2>1. CASE e # d \/ b # c
    <3>1. Qd(e, b)' = Qd(e, b)
      BY <1>4, <2>1
    <3> QED BY <3>1, EntryIts DEF Entry
  <2>2. CASE b = c /\ e = d
    BY <1>4, <1>5, <1>6, <2>2 DEF Entry
  <2> QED BY <2>1, <2>2
<1>8. QStep(h, {})
  BY <1>7 DEF QStep
<1>9. ~selectDone'[h] /\ \A g \in Goroutine \ {h} : selectDone'[g] = selectDone[g]
  BY DEF DataOK
<1>10. Alone(h)
  BY <1>9 DEF Alone
<1>11. Picked(h, {}) /\ Apart(h, {}) /\ toReady[h] = {}
  BY <1>10, AloneParts DEF WaitOK
<1>12. Closes(h)
  BY DEF Closes
<1>13. /\ call[h].kind = "select" /\ param[h] \in Cases(h) /\ ~Queued(h, param[h])
       /\ \A j \in Cases(h) : lock[CaseChan(h, j)] = h
  BY DEF WaitOK, BlockOK, RelockOK
<1>14. ~Queued(h, param[h])'
  <2>1. PICK e, b, x : e = DirOf(h, param[h]) /\ b = CaseChan(h, param[h]) /\ x = Sudog(h, param[h])
    OBVIOUS
  <2>2. e \in Dir /\ b \in Channel /\ ~Entry(e, b, x)
    BY <1>13, <2>1, CaseTypes, QueuedEntry
  <2>3. ~Entry(e, b, x)'
    BY <1>7, <2>2
  <2>4. PICK j : j = param[h]
    OBVIOUS
  <2>5. ~Queued(h, j)'
    BY <2>1, <2>3, <2>4, QueuedNext
  <2> QED BY <2>4, <2>5, ParamQueued
<1>15. Cases(h)' = Cases(h) /\ \A j : CaseChan(h, j)' = CaseChan(h, j)
  BY SameCall
<1>16. BlockOK(h)'
  <2>1. pc'[h] = "pass3" /\ pc'[h] \in Blocked
    BY DEF Blocked
  <2> QED BY <1>9, <1>13, <1>14, <1>15, <2>1 DEF BlockOK
<1>17. RelockOK(h)' /\ ReadyOK(h)' /\ Pass2OK(h)'
  <2>1. \A j \in Cases(h)' : lock'[CaseChan(h, j)'] = h
    BY <1>13, <1>15
  <2>2. pc'[h] = "pass3"
    OBVIOUS
  <2> QED BY <1>11, <2>1, <2>2 DEF RelockOK, ReadyOK, Pass2OK
<1>18. SignalOK(h)'
  BY <1>11, OwnSignal DEF WaitOK
<1>19. WaitOK(h)' /\ call'[h] = call[h]
  BY <1>16, <1>17, <1>18 DEF WaitOK
<1> QED BY <1>8, <1>11, <1>12, <1>17, <1>19, StepW

-----------------------------------------------------------------------------
(* Starting and parking *)

\* The queue of a case after a step.
LEMMA QueuedAfter ==
  ASSUME NEW g, NEW i, NEW d, NEW c, NEW s,
         d = DirOf(g, i)', c = CaseChan(g, i)', s = Sudog(g, i)'
  PROVE  Queued(g, i)' <=> Entry(d, c, s)'
<1>1. Queue(g, i)' = Qd(d, c)'
  BY DEF Queue, Qd, DirOf
<1> QED BY <1>1 DEF Queued, Entry, In

\* A goroutine calls an operation: it has no sudogs left from the last one.
LEMMA StartW ==
  ASSUME IInv, IInv', WInv, NEW h \in Goroutine, NEW op \in Calls[h], Start(h, op)
  PROVE  WInv'
<1>0. QueuesSound /\ WaitOK(h) /\ ControlOK /\ ControlOK'
  BY DEF WInv, IInv
<1> USE <1>0
<1>1. /\ pc[h] = "idle" /\ call' = [call EXCEPT ![h] = op]
      /\ sendq' = sendq /\ recvq' = recvq /\ closed' = closed /\ lock' = lock
      /\ toReady' = toReady /\ param' = param /\ selectDone' = selectDone
      /\ \E s : need' = [need EXCEPT ![h] = s]
  BY DEF Start, chanVars, queueVars, wakeVars
<1>2. PICK l \in {"pass1", "sellock", "idle", "close", "forever", "lock", "fastSend", "fastRecv"} :
        Goto(h, l)
  BY DEF Start
<1>3. /\ pc'[h] = l
      /\ \A g \in Goroutine \ {h} : pc'[g] = pc[g] /\ call'[g] = call[g] /\ need'[g] = need[g]
  BY <1>1, <1>2 DEF Goto, ControlOK
<1>4. Alone(h)
  BY <1>1, <1>3 DEF Alone
<1>5. Picked(h, {}) /\ Apart(h, {}) /\ toReady[h] = {}
  BY <1>1, <1>4, AloneParts DEF WaitOK
<1>6. QStep(h, {})
  BY <1>1, SameTrims, TrimsQStep
<1>7. Closes(h)
  BY <1>1 DEF Closes
<1>8. /\ \A d \in Dir, c \in Channel : \A sg : Entry(d, c, sg) => sg.g # h
      /\ ~selectDone[h]
  BY <1>1, NoneOwn DEF Blocked
<1>9. \A d \in Dir, c \in Channel : \A sg : Entry(d, c, sg)' => sg.g # h
  BY <1>1, <1>8 DEF Entry, Qd
<1>10. ASSUME NEW i \in Cases(h)' PROVE ~Queued(h, i)'
  <2>1. PICK d, c, s : d = DirOf(h, i)' /\ c = CaseChan(h, i)' /\ s = Sudog(h, i)'
    OBVIOUS
  <2> USE <2>1
  <2>2. d \in Dir
    BY DEF DirOf, Dir
  <2>3. c \in Channel
    <3>1. i \in DOMAIN call'[h].cases /\ c # Nil /\ c = call'[h].cases[i].c
      BY DEF Cases, CaseChan
    <3>2. call'[h] \in Call
      BY DEF ControlOK
    <3>3. call'[h].cases \in Seq(Case)
      BY <3>2 DEF Call
    <3>4. call'[h].cases[i] \in Case
      BY <3>1, <3>3, SMT
    <3> QED BY <3>1, <3>4 DEF Case
  <2>4. s.g = h
    BY SMT DEF Sudog
  <2> QED BY <1>9, <2>2, <2>3, <2>4, QueuedAfter
<1>11. pc'[h] \notin Blocked /\ pc'[h] \notin {"woken", "wake"}
  BY <1>3 DEF Blocked
<1>12. BlockOK(h)'
  BY <1>1, <1>8, <1>10, <1>11 DEF BlockOK, Blocked
<1>13. RelockOK(h)' /\ Pass2OK(h)' /\ ReadyOK(h)'
  BY <1>1, <1>5, <1>11 DEF RelockOK, Pass2OK, ReadyOK, Blocked
<1>14. SignalOK(h)'
  BY <1>1, <1>5, OwnSignal DEF WaitOK
<1>15. WaitOK(h)'
  BY <1>12, <1>13, <1>14 DEF WaitOK
<1> QED BY <1>5, <1>6, <1>7, <1>9, <1>13, <1>15, StepW

\* gopark: every sudog is queued before the goroutine counts as waiting.
LEMMA ParkW ==
  ASSUME NatFacts, IInv, IInv', WInv, NEW h \in Goroutine, Park(h)
  PROVE  WInv'
<1>0. QueuesSound /\ WaitOK(h) /\ ControlOK /\ PlaceOK(h)
  BY DEF WInv, IInv
<1> USE <1>0
<1>1. /\ Goto(h, "waiting") /\ sendq' = sendq /\ recvq' = recvq /\ closed' = closed
      /\ call' = call /\ toReady' = toReady /\ param' = param /\ selectDone' = selectDone
      /\ pc[h] \in {"park", "pass2"}
      /\ pc[h] = "pass2" => \A i \in Cases(h) : Queued(h, i)
  BY DEF Park, chanVars, queueVars, wakeVars
<1>2. PICK s \in LockOrders(call[h].cases) :
        /\ Unlock(h, s)
        /\ need' = [need EXCEPT ![h] = IF call[h].kind = "select" THEN s ELSE <<>>]
  BY DEF Park
<1>3. /\ call[h].cases \in Seq(Case)
      /\ \A i \in Cases(h) : i \in DOMAIN call[h].cases /\ CaseChan(h, i) \in Channel
  BY CaseTypes
<1>4. /\ s \in Seq(Channel)
      /\ \A i \in DOMAIN call[h].cases : call[h].cases[i].c # Nil =>
           \E k \in DOMAIN s : s[k] = call[h].cases[i].c
      /\ \A k \in DOMAIN s : \E i \in DOMAIN call[h].cases : call[h].cases[i].c = s[k]
  BY <1>3, OrderFacts
<1>5. /\ pc'[h] = "waiting" /\ \A g \in Goroutine \ {h} : pc'[g] = pc[g] /\ need'[g] = need[g]
      /\ call[h].kind = "select" => need'[h] = s
  BY <1>1, <1>2 DEF Goto, ControlOK
<1>6. pc[h] = "park" =>
        /\ call[h].kind # "select" /\ Len(call[h].cases) = 1 /\ Ch(h) \in Channel /\ lock[Ch(h)] = h
        /\ Queued(h, 1)
  BY DEF PlaceOK, Plain, WaitOK, BlockOK
<1>7. pc[h] = "park" => Cases(h) = {1}
  <2> SUFFICES ASSUME pc[h] = "park" PROVE Cases(h) = {1}
    OBVIOUS
  <2>1. DOMAIN call[h].cases = {1}
    BY <1>3, <1>6, SMT
  <2>2. CaseChan(h, 1) # Nil
    BY <1>6, ChanAssumption, SMT DEF CaseChan, Ch
  <2> QED BY <2>1, <2>2 DEF Cases
<1>8. \A i \in Cases(h) : Queued(h, i) /\ lock[CaseChan(h, i)] = h
  <2>1. CASE pc[h] = "park"
    BY <1>6, <1>7, <2>1 DEF CaseChan, Ch
  <2>2. CASE pc[h] = "pass2"
    BY <1>1, <2>2 DEF PlaceOK
  <2> QED BY <1>1, <2>1, <2>2
<1>9. ASSUME NEW c \in Channel, NEW g \in Goroutine \ {h}, lock[c] = g PROVE lock'[c] = g
  <2>1. CASE s = <<>>
    BY <1>2, <1>9, <2>1 DEF Unlock
  <2>2. CASE s # <<>>
    <3>1. lock' = [lock EXCEPT ![Head(s)] = Free]
      BY <1>2, <2>2 DEF Unlock
    <3>2. 1 \in DOMAIN s /\ Head(s) = s[1] /\ Head(s) \in Channel
      BY <1>4, <2>2, SMT
    <3>3. PICK i \in DOMAIN call[h].cases : call[h].cases[i].c = Head(s)
      BY <1>4, <3>2
    <3>4. i \in Cases(h) /\ CaseChan(h, i) = Head(s)
      <4>1. Head(s) # Nil
        BY <3>2, ChanAssumption
      <4> QED BY <3>3, <4>1 DEF Cases, CaseChan
    <3>5. lock[Head(s)] = h
      BY <1>8, <3>4
    <3> QED BY <1>9, <3>1, <3>2, <3>5 DEF ControlOK
  <2> QED BY <2>1, <2>2
<1>10. Alone(h)
  BY <1>1, <1>5, <1>9 DEF Alone
<1>11. pc[h] \notin {"wake", "readyAll"} /\ pc[h] # "waiting" /\ pc[h] # "drain"
  BY <1>1
<1>12. Picked(h, {}) /\ Apart(h, {}) /\ toReady[h] = {}
  BY <1>10, <1>11, AloneParts DEF WaitOK
<1>13. QStep(h, {}) /\ Closes(h)
  <2>1. QStep(h, {})
    BY <1>1, SameTrims, TrimsQStep
  <2>2. Closes(h)
    BY <1>1, <1>11 DEF Closes
  <2> QED BY <2>1, <2>2
<1>14. SignalOK(h)' /\ ~Signalled(h)'
  BY <1>11, <1>12, OwnSignal DEF WaitOK
<1>15. /\ Cases(h)' = Cases(h) /\ \A i : CaseChan(h, i)' = CaseChan(h, i)
       /\ \A i : Queued(h, i)' <=> Queued(h, i)
  BY <1>1, SameCall, SameQueued
<1>16. ~selectDone[h] /\ (call[h].kind # "select" => pc[h] = "park")
  BY <1>1 DEF WaitOK, BlockOK, PlaceOK
<1>17. BlockOK(h)'
  BY <1>1, <1>5, <1>7, <1>8, <1>15, <1>16 DEF BlockOK, Blocked
<1>18. RelockOK(h)'
  <2>1. ASSUME NEW i \in Cases(h), call[h].kind = "select"
        PROVE  \E k \in DOMAIN need'[h] : need'[h][k] = CaseChan(h, i)
    <3>1. i \in DOMAIN call[h].cases /\ call[h].cases[i].c # Nil
      BY DEF Cases, CaseChan
    <3>2. PICK k \in DOMAIN s : s[k] = call[h].cases[i].c
      BY <1>4, <3>1
    <3> QED BY <1>5, <2>1, <3>2 DEF CaseChan
  <2>2. pc'[h] # "pass3" /\ call'[h].kind = call[h].kind
    BY <1>1, <1>5
  <2>3. ASSUME NEW i \in Cases(h)', call'[h].kind = "select"
        PROVE  \E k \in DOMAIN need'[h] : need'[h][k] = CaseChan(h, i)'
    BY <1>15, <2>1, <2>2, <2>3
  <2> QED BY <2>2, <2>3 DEF RelockOK
<1>19. Pass2OK(h)' /\ ReadyOK(h)'
  BY <1>1, <1>5, <1>12 DEF Pass2OK, ReadyOK
<1>20. WaitOK(h)' /\ call'[h] = call[h]
  BY <1>1, <1>14, <1>17, <1>18, <1>19 DEF WaitOK
<1> QED BY <1>12, <1>13, <1>19, <1>20, StepW

\* A step of h that leaves the queues and the other goroutines alone.
LEMMA StayW ==
  ASSUME IInv, IInv', WInv, NEW h \in Goroutine, Alone(h), sendq' = sendq, recvq' = recvq,
         closed' = closed, call'[h] = call[h], pc[h] \notin {"wake", "readyAll", "drain"},
         pc'[h] \notin {"wake", "pass2"}, BlockOK(h)', RelockOK(h)', SignalOK(h)'
  PROVE  WInv'
<1>0. QueuesSound /\ ReadyOK(h)
  BY DEF WInv, WaitOK
<1>1. Picked(h, {}) /\ Apart(h, {}) /\ toReady[h] = {}
  BY <1>0, AloneParts
<1>2. QStep(h, {})
  BY <1>0, SameTrims, TrimsQStep
<1>3. Closes(h)
  BY DEF Closes
<1>4. ReadyOK(h)' /\ Pass2OK(h)'
  BY <1>1 DEF ReadyOK, Alone, Pass2OK
<1>5. WaitOK(h)'
  BY <1>4 DEF WaitOK
<1> QED BY <1>1, <1>2, <1>3, <1>4, <1>5, StepW

\* selparkcommit: the lock it drops is one that the select takes again.
LEMMA CommitW ==
  ASSUME IInv, IInv', WInv, NEW h \in Goroutine, Commit(h)
  PROVE  WInv'
<1>0. WaitOK(h) /\ ControlOK /\ PlaceOK(h)
  BY DEF WInv, IInv
<1> USE <1>0
<1> DEFINE c == Head(commit[h])
<1>1. /\ sendq' = sendq /\ recvq' = recvq /\ closed' = closed /\ pc' = pc /\ need' = need
      /\ call' = call /\ toReady' = toReady /\ param' = param /\ selectDone' = selectDone
      /\ commit[h] # <<>> /\ lock' = [lock EXCEPT ![c] = Free]
  BY DEF Commit, Unlock, chanVars, queueVars, wakeVars
<1> USE <1>1
<1>2. pc[h] \in {"waiting", "relock"} /\ call[h].kind = "select"
  BY DEF PlaceOK
<1>3. 1 \in DOMAIN commit[h] /\ c = commit[h][1] /\ c \in Channel
  <2>1. commit[h] \in Seq(Channel)
    BY DEF ControlOK
  <2> QED BY <2>1, SMT
<1> HIDE DEF c
<1>4. lock[c] = h /\ \E m \in DOMAIN need[h] : need[h][m] = c
  BY <1>3 DEF PlaceOK
<1>5. \A b \in Channel \ {c} : lock'[b] = lock[b]
  BY <1>3 DEF ControlOK
<1>6. Alone(h)
  BY <1>4, <1>5 DEF Alone
<1>7. Cases(h)' = Cases(h) /\ \A i : CaseChan(h, i)' = CaseChan(h, i)
  BY SameCall
<1>8. BlockOK(h)'
  <2>1. \A i : Queued(h, i)' <=> Queued(h, i)
    BY SameQueued
  <2>2. Signalled(h)' <=> Signalled(h)
    BY DEF Signalled
  <2>3. Queued(h, param[h])' <=> Queued(h, param[h])
    BY <2>1, ParamQueued
  <2> QED BY <1>7, <2>1, <2>2, <2>3 DEF WaitOK, BlockOK
<1>9. RelockOK(h)'
  <2>1. ASSUME NEW i \in Cases(h)
        PROVE  lock'[CaseChan(h, i)] = h \/ \E k \in DOMAIN need[h] : need[h][k] = CaseChan(h, i)
    <3>1. \/ lock[CaseChan(h, i)] = h
          \/ \E k \in DOMAIN need[h] : need[h][k] = CaseChan(h, i)
      BY <1>2 DEF WaitOK, RelockOK
    <3>2. CaseChan(h, i) \in Channel
      BY CaseTypes
    <3> QED BY <1>4, <1>5, <3>1, <3>2
  <2>2. pc'[h] # "pass3"
    BY <1>2
  <2>3. \A i \in Cases(h)' : \/ lock'[CaseChan(h, i)'] = h
                             \/ \E k \in DOMAIN need'[h] : need'[h][k] = CaseChan(h, i)'
    BY <1>7, <2>1
  <2> QED BY <2>2, <2>3 DEF RelockOK
<1>10. SignalOK(h)'
  <2>1. \A i : /\ Queued(h, i)' <=> Queued(h, i)
               /\ Sudog(h, i)' = Sudog(h, i)
    BY SameQueued, SameCall
  <2>2. SignalOK(h)
    BY DEF WaitOK
  <2> QED BY <1>7, <2>1, <2>2 DEF SignalOK
<1>11. /\ call'[h] = call[h] /\ pc[h] \notin {"wake", "readyAll", "drain"}
       /\ pc'[h] \notin {"wake", "pass2"}
  BY <1>2
<1> QED BY <1>6, <1>8, <1>9, <1>10, <1>11, StayW

\* The select returns: none of its sudogs is left.
LEMMA Pass3W ==
  ASSUME IInv, IInv', WInv, NEW h \in Goroutine, Pass3(h)
  PROVE  WInv'
<1>0. WaitOK(h) /\ ControlOK /\ DataOK
  BY DEF WInv, IInv
<1> USE <1>0
<1>1. /\ pc[h] = "pass3" /\ AllUnlinked(h) /\ selectDone' = [selectDone EXCEPT ![h] = FALSE]
      /\ param' = [param EXCEPT ![h] = 0]
      /\ param[h] # 0 => Goto(h, "idle") /\ UnlockAll(h)
      /\ sendq' = sendq /\ recvq' = recvq /\ closed' = closed /\ need' = need /\ call' = call
      /\ toReady' = toReady
  BY DEF Pass3, Return, chanVars, queueVars
<1> USE <1>1
<1>2. param[h] \in Cases(h) /\ ~Queued(h, param[h])
  BY DEF WaitOK, BlockOK
<1>3. param[h] # 0
  <2>1. param[h] \in Nat \ {0}
    BY <1>2, CaseTypes
  <2> QED BY <2>1
<1>4. \A i \in Cases(h) : ~Queued(h, i)
  BY <1>2 DEF AllUnlinked
<1>5. /\ pc'[h] = "idle" /\ ~selectDone'[h]
      /\ \A g \in Goroutine \ {h} :
           pc'[g] = pc[g] /\ param'[g] = param[g] /\ selectDone'[g] = selectDone[g]
  BY <1>3 DEF Goto, ControlOK, DataOK
<1>6. \A c \in Channel, g \in Goroutine \ {h} : lock[c] = g => lock'[c] = g
  BY <1>3 DEF UnlockAll
<1>7. Alone(h)
  BY <1>5, <1>6 DEF Alone
<1>8. \A i \in Cases(h)' : ~Queued(h, i)'
  BY <1>4, SameCall, SameQueued
<1>9. BlockOK(h)' /\ RelockOK(h)'
  BY <1>5, <1>8 DEF BlockOK, RelockOK
<1>10. SignalOK(h)'
  <2>1. \A j \in Goroutine : \A sg \in toReady[j] : sg.g # h
    BY DEF WaitOK, SignalOK
  <2> QED BY <2>1 DEF SignalOK
<1>11. /\ call'[h] = call[h] /\ pc[h] \notin {"wake", "readyAll", "drain"}
       /\ pc'[h] \notin {"wake", "pass2"}
  BY <1>5
<1> QED BY <1>7, <1>9, <1>10, <1>11, StayW

-----------------------------------------------------------------------------
(* Leaving the queues, and closechan *)

\* A goroutine that is not blocked goes to a place where it is not blocked either.
LEMMA LeaveW ==
  ASSUME IInv, IInv', WInv, NEW h \in Goroutine, NEW S, Trims(S), Picked(h, S), Apart(h, S),
         Closes(h), call'[h] = call[h], selectDone'[h] = selectDone[h], ReadyOK(h)',
         pc[h] \notin Blocked, pc'[h] \notin Blocked, pc'[h] # "woken"
  PROVE  WInv'
<1>0. WaitOK(h) /\ ControlOK
  BY DEF WInv, IInv
<1>1. /\ \A d \in Dir, c \in Channel : \A sg : Entry(d, c, sg) => sg.g # h
      /\ ~selectDone[h]
  BY NoneOwn
<1>2. QStep(h, S)
  BY TrimsQStep
<1>3. SignalOK(h)'
  BY <1>0, OwnSignal DEF WaitOK, Blocked
<1>4. ASSUME NEW i \in Cases(h) PROVE ~Queued(h, i)'
  <2>0. PICK d, c, s : d = DirOf(h, i) /\ c = CaseChan(h, i) /\ s = Sudog(h, i)
    OBVIOUS
  <2>1. s.g = h
    BY <2>0, SMT DEF Sudog
  <2>2. d \in Dir /\ c \in Channel
    BY <1>0, <2>0, QueuedEntry, CaseTypes
  <2>3. ~Entry(d, c, s)'
    BY <1>1, <2>1, <2>2 DEF Trims
  <2> QED BY <2>0, <2>3, QueuedNext
<1>5. Cases(h)' = Cases(h)
  BY SameCall
<1>6. BlockOK(h)'
  <2>1. pc'[h] \notin {"park", "relock", "pass3", "waiting", "woken"}
    BY DEF Blocked
  <2> QED BY <1>1, <1>4, <1>5, <2>1 DEF BlockOK
<1>7. RelockOK(h)' /\ Pass2OK(h)'
  BY DEF RelockOK, Pass2OK, Blocked
<1>8. WaitOK(h)'
  BY <1>3, <1>6, <1>7 DEF WaitOK
<1> QED BY <1>2, <1>7, <1>8, StepW

\* The loop of closechan that makes the released goroutines ready.
LEMMA ReadyAllW ==
  ASSUME IInv, IInv', WInv, NEW h \in Goroutine, ReadyAll(h)
  PROVE  WInv'
<1>0. ControlOK /\ DataOK /\ WaitOK(h) /\ QueuesSound
  BY DEF IInv, WInv
<1>2. /\ pc[h] = "readyAll"
      /\ sendq' = sendq /\ recvq' = recvq /\ closed' = closed /\ lock' = lock
      /\ need' = need /\ call' = call /\ selectDone' = selectDone /\ param' = param
  BY DEF ReadyAll, chanVars, queueVars, lockVars, wakeVars
<1>3. CASE toReady[h] = {} /\ Return(h, "ok", 1) /\ UNCHANGED toReady
  <2>1. toReady' = toReady /\ toReady[h] = {}
    BY <1>3
  <2>2. pc'[h] = "idle" /\ \A k \in Goroutine \ {h} : pc'[k] = pc[k]
    BY <1>0, <1>3 DEF Return, Goto, ControlOK
  <2>3. Picked(h, {}) /\ Apart(h, {}) /\ Closes(h)
    <3>1. Picked(h, {})
      BY <2>1 DEF Picked
    <3>2. Apart(h, {})
      BY <1>2, <2>2 DEF Apart
    <3>3. Closes(h)
      BY <1>2 DEF Closes
    <3> QED BY <3>1, <3>2, <3>3
  <2>4. Trims({})
    BY <1>0, <1>2, SameTrims
  <2>5. ReadyOK(h)' /\ call'[h] = call[h] /\ selectDone'[h] = selectDone[h]
    BY <1>2, <2>1, <2>2 DEF ReadyOK
  <2>6. pc[h] \notin Blocked /\ pc'[h] \notin Blocked /\ pc'[h] # "woken"
    BY <1>2, <2>2 DEF Blocked
  <2> QED BY <2>3, <2>4, <2>5, <2>6, LeaveW
<1>4. ASSUME NEW sg \in toReady[h], toReady' = [toReady EXCEPT ![h] = @ \ {sg}],
             IF pc[sg.g] = "waiting" THEN Goto(sg.g, Resume(sg.g)) ELSE Goto(h, "throw")
      PROVE  WInv'
  <2>1. sg \in Sudogs
    BY <1>0, <1>4 DEF DataOK
  <2>2. sg.g \in Goroutine
    BY <2>1, SMT DEF Sudogs
  <2>3. pc[sg.g] = "waiting" /\ param[sg.g] = sg.i
    BY <1>2, <1>4, <2>2 DEF WInv, WaitOK, SignalOK
  <2>4. sg.g # h /\ pc' = [pc EXCEPT ![sg.g] = Resume(sg.g)]
    BY <1>2, <1>4, <2>3 DEF Goto
  <2>5. /\ pc'[h] = "readyAll" /\ pc'[sg.g] = Resume(sg.g)
        /\ \A k \in Goroutine \ {h, sg.g} : pc'[k] = pc[k]
    BY <1>0, <1>2, <2>2, <2>4 DEF ControlOK
  <2>6. /\ toReady'[h] = toReady[h] \ {sg}
        /\ \A j \in Goroutine \ {h} : toReady'[j] = toReady[j]
    BY <1>0, <1>4 DEF DataOK
  <2>7. MakesReady(h, sg)
    BY <1>2, <2>3, <2>5, <2>6 DEF MakesReady
  <2> QED BY <2>7, ReadyW
<1> QED BY <1>3, <1>4 DEF ReadyAll

\* Whoever finds a live sudog in a queue finds its goroutine waiting, and nobody is
\* about to make it ready: before that it holds the lock of the channel, and after
\* that the sudog is dead or gone.
LEMMA LiveWaits ==
  ASSUME IInv, QueuesSound, NEW d \in Dir, NEW c \in Channel, NEW sg, Entry(d, c, sg), Live(sg),
         WaitOK(sg.g), lock[c] # sg.g
  PROVE  /\ sg \in Sudogs /\ sg.g \in Goroutine /\ pc[sg.g] = "waiting" /\ ~Signalled(sg.g)
         /\ sg.i \in Cases(sg.g) /\ sg = Sudog(sg.g, sg.i)
<1> DEFINE g == sg.g
<1>0. DataOK /\ ControlOK
  BY DEF IInv
<1>1. sg \in Sudogs /\ g \in Goroutine
  BY <1>0, QdTypes
<1>2. /\ sg.i \in Cases(g) /\ sg = Sudog(g, sg.i) /\ c = CaseChan(g, sg.i) /\ Queued(g, sg.i)
      /\ sg.isSelect <=> call[g].kind = "select"
  <2>1. Its(d, c, sg)
    BY EntryIts
  <2> QED BY <2>1, ItsQueue
<1> USE <1>2
<1> HIDE DEF g
<1>3. BlockOK(g) /\ RelockOK(g) /\ SignalOK(g) /\ PlaceOK(g)
  BY <1>1 DEF WaitOK, IInv, g
<1> USE <1>3
<1>4. pc[g] \in Blocked
  BY DEF BlockOK
<1>5. call[g].kind = "select" => ~selectDone[g]
  BY DEF Live, g
<1>6. lock[CaseChan(g, sg.i)] # g
  BY DEF g
<1>7. pc[g] # "park"
  <2>1. pc[g] = "park" => Len(call[g].cases) = 1 /\ lock[Ch(g)] = g
    BY DEF PlaceOK, Plain
  <2>2. call[g].cases \in Seq(Case) /\ sg.i \in DOMAIN call[g].cases
    BY <1>0, <1>1, CaseTypes
  <2>3. Len(call[g].cases) = 1 => sg.i = 1
    BY <2>2, SMT
  <2>4. sg.i = 1 => CaseChan(g, sg.i) = Ch(g)
    BY DEF CaseChan, Ch
  <2> QED BY <1>6, <2>1, <2>3, <2>4
<1>8. pc[g] # "pass2"
  BY <1>6 DEF PlaceOK
<1>9. pc[g] # "pass3"
  BY <1>6 DEF RelockOK
<1>10. pc[g] # "relock"
  BY <1>5 DEF BlockOK
<1>11. pc[g] = "waiting"
  BY <1>4, <1>7, <1>8, <1>9, <1>10 DEF Blocked
<1>12. ASSUME NEW h \in Goroutine, NEW x \in toReady[h], x.g = g PROVE FALSE
  <2>1. /\ x.i \in Cases(g) /\ x = Sudog(g, x.i) /\ ~Queued(g, x.i)
        /\ x.isSelect => selectDone[g]
    BY <1>12 DEF SignalOK
  <2>2. CASE call[g].kind = "select"
    <3>1. Sudog(g, x.i).isSelect
      BY <2>2 DEF Sudog
    <3> QED BY <1>5, <2>1, <2>2, <3>1
  <2>3. CASE call[g].kind # "select"
    <3>1. Cases(g) = {1}
      BY <1>11, <2>3 DEF BlockOK
    <3>2. x.i = sg.i
      BY <2>1, <3>1
    <3> QED BY <2>1, <3>2
  <2> QED BY <2>2, <2>3
<1>13. ~Signalled(g)
  BY <1>12 DEF Signalled
<1> QED BY <1>1, <1>11, <1>13 DEF g

\* A loop of dequeue calls returns one sudog of every select that waits in the
\* queue, and all those of other goroutines.
LEMMA AllLiveFacts ==
  ASSUME NatFacts, NEW q \in Seq(Sudogs),
         \A j, k \in DOMAIN q : q[j].g = q[k].g => q[j].isSelect = q[k].isSelect
  PROVE  /\ \A x \in AllLive(q) : In(x, q) /\ Live(x)
         /\ \A x, y \in AllLive(q) : x.g = y.g /\ x.isSelect /\ y.isSelect => x = y
         /\ \A sg : In(sg, q) /\ Live(sg) => \E x \in AllLive(q) : x.g = sg.g
<1>0. DOMAIN q \in SUBSET Nat /\ \A k \in DOMAIN q : \A j \in 1 .. k - 1 : j \in DOMAIN q /\ j < k
  BY SMT
<1> DEFINE Found(k) == k \in LiveIn(q) /\ (q[k].isSelect => \A j \in 1 .. k - 1 : q[j].g # q[k].g)
<1>1. \A x : x \in AllLive(q) <=> \E k \in DOMAIN q : Found(k) /\ x = q[k]
  BY DEF AllLive, LiveIn
<1>2. \A k \in DOMAIN q : Found(k) <=>
        Live(q[k]) /\ (q[k].isSelect => \A j \in 1 .. k - 1 : q[j].g # q[k].g)
  BY DEF LiveIn
<1> HIDE DEF Found
<1>3. \A x \in AllLive(q) : In(x, q) /\ Live(x)
  <2> SUFFICES ASSUME NEW x \in AllLive(q) PROVE In(x, q) /\ Live(x)
    OBVIOUS
  <2>1. PICK k \in DOMAIN q : Found(k) /\ x = q[k]
    BY <1>1
  <2> QED BY <1>2, <2>1 DEF In
<1>4. ASSUME NEW j \in DOMAIN q, NEW k \in DOMAIN q, Found(j), Found(k), q[j].g = q[k].g,
             q[j].isSelect, q[k].isSelect
      PROVE  j = k
  <2>1. j \in Nat /\ k \in Nat /\ j >= 1 /\ k >= 1
    BY SMT
  <2>2. j \notin 1 .. k - 1 /\ k \notin 1 .. j - 1
    BY <1>2, <1>4
  <2> QED BY <2>1, <2>2, SMT
<1>5. \A x, y \in AllLive(q) : x.g = y.g /\ x.isSelect /\ y.isSelect => x = y
  <2> SUFFICES ASSUME NEW x \in AllLive(q), NEW y \in AllLive(q), x.g = y.g, x.isSelect, y.isSelect
               PROVE  x = y
    OBVIOUS
  <2>1. PICK j \in DOMAIN q : Found(j) /\ x = q[j]
    BY <1>1
  <2>2. PICK k \in DOMAIN q : Found(k) /\ y = q[k]
    BY <1>1
  <2> QED BY <1>4, <2>1, <2>2
<1>6. ASSUME NEW sg, In(sg, q), Live(sg) PROVE \E x \in AllLive(q) : x.g = sg.g
  <2>1. PICK m \in DOMAIN q : q[m] = sg
    BY <1>6 DEF In
  <2>2. CASE ~sg.isSelect
    BY <1>1, <1>2, <1>6, <2>1, <2>2
  <2>3. CASE sg.isSelect
    <3>1. PICK T : T = {k \in DOMAIN q : q[k].g = sg.g}
      OBVIOUS
    <3>2. T \in SUBSET Nat /\ m \in T
      BY <1>0, <2>1, <3>1
    <3>3. PICK k \in T : \A j \in T : k <= j
      BY <3>2, NatMin
    <3>4. k \in DOMAIN q /\ q[k].g = sg.g /\ q[k].isSelect
      BY <2>1, <2>3, <3>1, <3>3
    <3> USE <3>4
    <3>5. Live(q[k])
      BY <1>6, <2>3 DEF Live
    <3>6. ASSUME NEW j \in 1 .. k - 1 PROVE q[j].g # q[k].g
      <4>1. j \in DOMAIN q /\ ~(k <= j)
        BY SMT
      <4> QED BY <3>1, <3>3, <4>1
    <3> QED BY <1>1, <1>2, <3>5, <3>6
  <2> QED BY <2>2, <2>3
<1> QED BY <1>3, <1>5, <1>6

\* The drain of closechan: it takes over everyone who waits on the channel, each once.
LEMMA CloseDrainW ==
  ASSUME NatFacts, IInv, IInv', WInv, NEW h \in Goroutine, CloseDrain(h)
  PROVE  WInv'
<1>0. QueuesSound /\ WaitOK(h) /\ ControlOK /\ DataOK /\ PlaceOK(h)
  BY DEF WInv, IInv
<1> USE <1>0
<1>1. PICK c, readers, writers, S :
        /\ c = Ch(h)
        /\ readers = AllLive(recvq[c])
        /\ writers = {sg \in AllLive(sendq[c]) : sg.isSelect => \A r \in readers : r.g # sg.g}
        /\ S = readers \cup writers
  OBVIOUS
<1>2. /\ pc[h] = "drain" /\ Goto(h, "readyAll")
      /\ recvq' = [recvq EXCEPT ![c] = <<>>] /\ sendq' = [sendq EXCEPT ![c] = <<>>]
      /\ SetDone(S) /\ toReady' = [toReady EXCEPT ![h] = S]
      /\ \A k \in Goroutine : \/ (\A x \in S : x.g # k) /\ param'[k] = param[k]
                             \/ \E x \in S : x.g = k /\ param'[k] = x.i
      /\ lock' = [lock EXCEPT ![c] = Free] /\ closed' = closed /\ need' = need /\ call' = call
  <2> DEFINE cc == Ch(h)
             rr == AllLive(recvq[cc])
             ww == {sg \in AllLive(sendq[cc]) : sg.isSelect => \A r \in rr : r.g # sg.g}
             SS == rr \cup ww
  <2>1. /\ pc[h] = "drain" /\ Goto(h, "readyAll")
        /\ recvq' = [recvq EXCEPT ![cc] = <<>>] /\ sendq' = [sendq EXCEPT ![cc] = <<>>]
        /\ SetDone(SS) /\ toReady' = [toReady EXCEPT ![h] = SS]
        /\ param' = [k \in Goroutine |->
                       IF k \in {sg.g : sg \in SS} THEN (CHOOSE sg \in SS : sg.g = k).i ELSE param[k]]
        /\ lock' = [lock EXCEPT ![cc] = Free] /\ closed' = closed /\ need' = need /\ call' = call
    BY DEF CloseDrain, chanVars
  <2> HIDE DEF SS
  <2>2. ASSUME NEW k \in Goroutine
        PROVE  \/ (\A x \in SS : x.g # k) /\ param'[k] = param[k]
               \/ \E x \in SS : x.g = k /\ param'[k] = x.i
    <3>1. CASE \A x \in SS : x.g # k
      BY <2>1, <3>1
    <3>2. CASE \E x \in SS : x.g = k
      <4>1. PICK x : x = CHOOSE sg \in SS : sg.g = k
        OBVIOUS
      <4>2. x \in SS /\ x.g = k
        BY <3>2, <4>1
      <4>3. param'[k] = x.i
        BY <2>1, <3>2, <4>1
      <4> QED BY <4>2, <4>3
    <3> QED BY <3>1, <3>2
  <2>3. c = cc /\ S = SS
    BY <1>1 DEF SS
  <2> HIDE DEF cc
  <2> QED BY <2>1, <2>2, <2>3
<1>3. c \in Channel /\ lock[c] = h
  BY <1>1, <1>2 DEF PlaceOK, Plain
<1> USE <1>3
<1>4. pc[h] \notin Blocked /\ pc[h] \notin {"wake", "readyAll", "waiting"}
  BY <1>2 DEF Blocked
<1>5. /\ \A d \in Dir, b \in Channel : \A sg : Entry(d, b, sg) => sg.g # h
      /\ ~selectDone[h]
  BY <1>4, NoneOwn
<1>6. ASSUME NEW d \in Dir
      PROVE  /\ \A x \in AllLive(Qd(d, c)) : Entry(d, c, x) /\ Live(x)
             /\ \A x, y \in AllLive(Qd(d, c)) : x.g = y.g /\ x.isSelect /\ y.isSelect => x = y
             /\ \A sg : Entry(d, c, sg) /\ Live(sg) => \E x \in AllLive(Qd(d, c)) : x.g = sg.g
  <2>1. PICK q : q = Qd(d, c)
    OBVIOUS
  <2>2. q \in Seq(Sudogs)
    BY <2>1, QdTypes
  <2>3. \A k \in DOMAIN q : q[k].isSelect = (call[q[k].g].kind = "select")
    <3> SUFFICES ASSUME NEW k \in DOMAIN q PROVE q[k].isSelect = (call[q[k].g].kind = "select")
      OBVIOUS
    <3>1. PICK sg : sg = q[k]
      OBVIOUS
    <3>2. Its(d, c, sg)
      BY <2>1, <3>1 DEF QueuesSound, QueueSound
    <3>3. sg = [g |-> sg.g, i |-> sg.i, isSelect |-> call[sg.g].kind = "select"]
      BY <3>2 DEF Its, Sudog
    <3>4. sg.isSelect = (call[sg.g].kind = "select")
      BY <3>3, SMT
    <3> QED BY <3>1, <3>4
  <2>4. \A j, k \in DOMAIN q : q[j].g = q[k].g => q[j].isSelect = q[k].isSelect
    BY <2>3
  <2> QED BY <2>1, <2>2, <2>4, AllLiveFacts DEF Entry
<1>7. /\ readers = AllLive(Qd("recv", c))
      /\ writers = {sg \in AllLive(Qd("send", c)) : sg.isSelect => \A r \in readers : r.g # sg.g}
      /\ "recv" \in Dir /\ "send" \in Dir
  BY <1>1 DEF Qd, Dir
<1>8. \A x \in S : \E d \in Dir : Entry(d, c, x) /\ Live(x)
  BY <1>1, <1>6, <1>7
<1>9. \A d \in Dir : \A sg : Entry(d, c, sg) /\ Live(sg) => \E x \in S : x.g = sg.g
  <2>1. ASSUME NEW sg, Entry("recv", c, sg), Live(sg) PROVE \E x \in S : x.g = sg.g
    <3>1. PICK x \in AllLive(Qd("recv", c)) : x.g = sg.g
      BY <1>6, <1>7, <2>1
    <3>2. x \in S
      BY <1>1, <1>7
    <3> QED BY <3>1, <3>2
  <2>2. ASSUME NEW sg, Entry("send", c, sg), Live(sg) PROVE \E x \in S : x.g = sg.g
    <3>1. PICK x \in AllLive(Qd("send", c)) : x.g = sg.g
      BY <1>6, <1>7, <2>2
    <3>2. x \in writers \/ \E r \in readers : r.g = x.g
      BY <1>7
    <3> QED BY <1>1, <3>1, <3>2
  <2> QED BY <2>1, <2>2 DEF Dir
<1>10. ASSUME NEW x \in S
       PROVE  /\ x \in Sudogs /\ x.g \in Goroutine /\ x.g # h /\ pc[x.g] = "waiting" /\ ~Signalled(x.g)
              /\ x.i \in Cases(x.g) /\ x = Sudog(x.g, x.i)
  <2>1. PICK d \in Dir : Entry(d, c, x) /\ Live(x)
    BY <1>8
  <2>2. x.g \in Goroutine /\ x.g # h
    BY <1>5, <2>1, QdTypes
  <2>3. WaitOK(x.g) /\ lock[c] # x.g
    BY <2>2 DEF WInv
  <2> QED BY <2>1, <2>2, <2>3, LiveWaits
<1>11. ASSUME NEW x \in S, NEW y \in S, x.g = y.g PROVE x = y
  <2>1. /\ x.g \in Goroutine /\ pc[x.g] = "waiting"
        /\ x.i \in Cases(x.g) /\ x = Sudog(x.g, x.i)
        /\ y.i \in Cases(x.g) /\ y = Sudog(x.g, y.i)
    BY <1>10, <1>11
  <2> USE <2>1
  <2>2. CASE call[x.g].kind = "select"
    <3>1. x.isSelect /\ y.isSelect
      <4>1. \A i : Sudog(x.g, i).isSelect
        BY <2>2 DEF Sudog
      <4> QED BY <4>1
    <3> QED BY <1>1, <1>6, <1>7, <1>11, <3>1
  <2>3. CASE call[x.g].kind # "select"
    <3>1. BlockOK(x.g)
      BY DEF WInv, WaitOK
    <3>2. Cases(x.g) = {1}
      BY <2>3, <3>1 DEF BlockOK
    <3>3. x.i = 1 /\ y.i = 1
      BY <3>2
    <3> QED BY <3>3
  <2> QED BY <2>2, <2>3
<1>12. /\ toReady[h] = {} /\ toReady'[h] = S
       /\ \A j \in Goroutine \ {h} : toReady'[j] = toReady[j]
  BY <1>2, <1>4 DEF DataOK, WaitOK, ReadyOK
<1>13. Picked(h, S)
  BY <1>10, <1>11, <1>12 DEF Picked
<1>14. /\ \A d \in Dir : Qd(d, c)' = <<>>
       /\ \A d \in Dir, b \in Channel : b # c => Qd(d, b)' = Qd(d, b)
  <2>1. /\ sendq'[c] = <<>> /\ recvq'[c] = <<>>
        /\ \A b \in Channel : b # c => sendq'[b] = sendq[b] /\ recvq'[b] = recvq[b]
    BY <1>2 DEF DataOK
  <2> QED BY <2>1 DEF Qd, Dir
<1>15. Trims(S)
  <2> SUFFICES ASSUME NEW d \in Dir, NEW b \in Channel
               PROVE  /\ NoTwice(Qd(d, b))'
                      /\ \A sg : Entry(d, b, sg)' => Entry(d, b, sg) /\ sg \notin S
                      /\ \A sg : Entry(d, b, sg) /\ Live(sg) /\ (\A x \in S : x.g # sg.g) =>
                           Entry(d, b, sg)'
    BY DEF Trims
  <2>1. CASE b = c
    BY <1>9, <1>14, <2>1, InEmpty DEF Entry
  <2>2. CASE b # c
    <3>1. Qd(d, b)' = Qd(d, b)
      BY <1>14, <2>2
    <3>2. ASSUME NEW sg, Entry(d, b, sg) PROVE sg \notin S
      <4>1. CaseChan(sg.g, sg.i) = b
        BY <3>2, EntryIts DEF Its
      <4>2. sg \in S => CaseChan(sg.g, sg.i) = c
        BY <1>8, EntryIts DEF Its
      <4> QED BY <2>2, <4>1, <4>2
    <3> QED BY <3>1, <3>2, EntryIts DEF Entry
  <2> QED BY <2>1, <2>2
<1>16. /\ pc'[h] = "readyAll" /\ \A g \in Goroutine \ {h} : pc'[g] = pc[g]
       /\ \A b \in Channel : b # c => lock'[b] = lock[b]
  BY <1>2 DEF Goto, ControlOK
<1>17. \A g \in Goroutine : selectDone'[g] <=> selectDone[g] \/ \E x \in S : x.g = g /\ x.isSelect
  BY <1>2 DEF SetDone
<1>18. ASSUME NEW g \in Goroutine
       PROVE  /\ (\A x \in S : x.g # g) => param'[g] = param[g]
              /\ \A x \in S : x.g = g => param'[g] = x.i
  <2>1. \/ (\A x \in S : x.g # g) /\ param'[g] = param[g]
        \/ \E x \in S : x.g = g /\ param'[g] = x.i
    BY <1>2
  <2>2. ASSUME NEW x \in S, x.g = g PROVE param'[g] = x.i
    BY <1>11, <2>1, <2>2
  <2> QED BY <2>1, <2>2
<1>19. Apart(h, S)
  <2>1. \A b \in Channel, g \in Goroutine \ {h} : lock[b] = g => lock'[b] = g
    BY <1>16
  <2>2. ASSUME NEW g \in Goroutine \ {h}
        PROVE  /\ pc'[g] = pc[g] /\ call'[g] = call[g] /\ need'[g] = need[g]
               /\ selectDone'[g] <=> selectDone[g] \/ \E x \in S : x.g = g /\ x.isSelect
    BY <1>2, <1>16, <1>17
  <2>3. \A g \in Goroutine \ {h} :
          /\ (\A x \in S : x.g # g) => param'[g] = param[g]
          /\ \A x \in S : x.g = g /\ pc'[h] = "readyAll" => param'[g] = x.i
    BY <1>18
  <2> QED BY <2>1, <2>2, <2>3 DEF Apart
<1>20. Closes(h)
  <2>1. sendq'[c] = <<>> /\ recvq'[c] = <<>>
    BY <1>2 DEF DataOK
  <2> QED BY <1>1, <1>2, <2>1 DEF Closes
<1>21. /\ ReadyOK(h)' /\ call'[h] = call[h]
       /\ pc'[h] \notin Blocked /\ pc'[h] # "woken"
  BY <1>2, <1>16 DEF ReadyOK, Blocked
<1>22. selectDone'[h] = selectDone[h]
  <2>1. selectDone'[h] \in BOOLEAN /\ selectDone[h] \in BOOLEAN
    BY DEF DataOK, IInv
  <2>2. ~selectDone'[h] /\ ~selectDone[h]
    BY <1>5, <1>10, <1>17
  <2> QED BY <2>1, <2>2, SMT
<1> QED BY <1>4, <1>13, <1>15, <1>19, <1>20, <1>21, <1>22, LeaveW

\* The same for a step that leaves the queues and the other goroutines alone.
LEMMA LeaveAloneW ==
  ASSUME IInv, IInv', WInv, NEW h \in Goroutine, Alone(h), sendq' = sendq, recvq' = recvq,
         Closes(h), call'[h] = call[h], selectDone'[h] = selectDone[h],
         pc[h] \notin Blocked, pc[h] \notin {"wake", "readyAll"},
         pc'[h] \notin Blocked, pc'[h] \notin {"woken", "wake"}
  PROVE  WInv'
<1>0. QueuesSound /\ ReadyOK(h)
  BY DEF WInv, WaitOK
<1>1. Picked(h, {}) /\ Apart(h, {}) /\ toReady[h] = {}
  BY <1>0, AloneParts
<1>2. Trims({})
  BY <1>0, SameTrims
<1>3. ReadyOK(h)'
  BY <1>1 DEF ReadyOK, Alone
<1> QED BY <1>1, <1>2, <1>3, LeaveW

\* sellock, before pass 1 and after the wakeup.
LEMMA SellockW ==
  ASSUME NatFacts, IInv, IInv', WInv, NEW h \in Goroutine, sellock(h)
  PROVE  WInv'
<1>0. WaitOK(h) /\ ControlOK
  BY DEF WInv, IInv
<1> USE <1>0
<1> DEFINE c == Head(need[h])
<1>1. /\ sendq' = sendq /\ recvq' = recvq /\ closed' = closed
      /\ call' = call /\ toReady' = toReady /\ param' = param /\ selectDone' = selectDone
      /\ pc[h] \in {"sellock", "relock"} /\ need[h] # <<>> /\ lock[c] = Free
      /\ lock' = [lock EXCEPT ![c] = h] /\ need' = [need EXCEPT ![h] = PastHead(need[h])]
      /\ Goto(h, IF need'[h] # <<>> THEN pc[h] ELSE IF pc[h] = "sellock" THEN "pass1" ELSE "pass3")
  BY DEF sellock, chanVars, queueVars, wakeVars
<1> USE <1>1
<1>2. need[h] \in Seq(Channel)
  BY DEF ControlOK
<1>3. c \in Channel
  BY <1>2, SMT
<1> HIDE DEF c
<1>4. /\ need'[h] = PastHead(need[h])
      /\ pc'[h] = IF need'[h] # <<>> THEN pc[h] ELSE IF pc[h] = "sellock" THEN "pass1" ELSE "pass3"
      /\ \A g \in Goroutine \ {h} : pc'[g] = pc[g] /\ need'[g] = need[g]
  BY DEF Goto, ControlOK
<1>5. lock'[c] = h /\ \A b \in Channel \ {c} : lock'[b] = lock[b]
  BY <1>3 DEF ControlOK
<1>6. Free \notin Goroutine
  BY ChanAssumption
<1>7. Alone(h)
  BY <1>4, <1>5, <1>6 DEF Alone
<1>8. CASE pc[h] = "sellock"
  <2>1. pc'[h] \in {"sellock", "pass1"} /\ call'[h] = call[h] /\ selectDone'[h] = selectDone[h]
    BY <1>4, <1>8
  <2>2. Closes(h)
    BY <1>8 DEF Closes
  <2>3. /\ pc[h] \notin Blocked /\ pc[h] \notin {"wake", "readyAll"}
        /\ pc'[h] \notin Blocked /\ pc'[h] \notin {"woken", "wake"}
    BY <1>8, <2>1 DEF Blocked
  <2> QED BY <1>7, <2>1, <2>2, <2>3, LeaveAloneW
<1>9. CASE pc[h] = "relock"
  <2>1. /\ pc'[h] \in {"relock", "pass3"} /\ call'[h] = call[h]
        /\ pc'[h] = "pass3" => need'[h] = <<>>
    BY <1>4, <1>9
  <2> USE <2>1
  <2>2. /\ Cases(h)' = Cases(h)
        /\ \A i : CaseChan(h, i)' = CaseChan(h, i) /\ (Queued(h, i)' <=> Queued(h, i))
    BY SameCall, SameQueued
  <2>3. /\ call[h].kind = "select" /\ selectDone[h]
        /\ param[h] \in Cases(h) /\ ~Queued(h, param[h])
    BY <1>9 DEF WaitOK, BlockOK
  <2>4. ~Queued(h, param[h])'
    BY <2>2, <2>3, ParamQueued
  <2>5. BlockOK(h)'
    <3>1. pc'[h] \in Blocked /\ pc'[h] \notin {"park", "waiting", "woken"}
      BY DEF Blocked
    <3> QED BY <2>2, <2>3, <2>4, <3>1 DEF BlockOK
  <2>6. ASSUME NEW i \in Cases(h)
        PROVE  \/ lock'[CaseChan(h, i)] = h
               \/ \E k \in DOMAIN need'[h] : need'[h][k] = CaseChan(h, i)
    <3>1. \/ lock[CaseChan(h, i)] = h
          \/ \E k \in DOMAIN need[h] : need[h][k] = CaseChan(h, i)
      BY <1>9, <2>3 DEF WaitOK, RelockOK
    <3>2. CaseChan(h, i) \in Channel
      BY CaseTypes
    <3>3. CASE lock[CaseChan(h, i)] = h
      BY <1>5, <3>2, <3>3
    <3>4. ASSUME NEW k \in DOMAIN need[h], need[h][k] = CaseChan(h, i), CaseChan(h, i) # c
          PROVE  \E m \in DOMAIN need'[h] : need'[h][m] = CaseChan(h, i)
      <4>1. \A n \in DOMAIN need[h] : need[h][n] # Head(need[h]) =>
              \E m \in DOMAIN PastHead(need[h]) : PastHead(need[h])[m] = need[h][n]
        BY <1>2, PastHeadFacts
      <4>2. need[h][k] # Head(need[h])
        BY <3>4 DEF c
      <4>3. PICK m \in DOMAIN PastHead(need[h]) : PastHead(need[h])[m] = need[h][k]
        BY <4>1, <4>2
      <4> QED BY <1>4, <3>4, <4>3
    <3> QED BY <1>5, <3>1, <3>3, <3>4
  <2>7. need'[h] = <<>> => \A i \in Cases(h) : lock'[CaseChan(h, i)] = h
    <3>1. \A k : k \notin DOMAIN <<>>
      BY SMT
    <3> QED BY <2>6, <3>1
  <2>8. RelockOK(h)'
    <3>1. \A i \in Cases(h)' : \/ lock'[CaseChan(h, i)'] = h
                               \/ \E k \in DOMAIN need'[h] : need'[h][k] = CaseChan(h, i)'
      BY <2>2, <2>6
    <3>2. pc'[h] = "pass3" => \A i \in Cases(h)' : lock'[CaseChan(h, i)'] = h
      BY <2>2, <2>7
    <3> QED BY <3>1, <3>2 DEF RelockOK
  <2>9. SignalOK(h)'
    <3>1. \A j \in Goroutine : \A sg \in toReady[j] : sg.g # h
      BY <1>9 DEF WaitOK, SignalOK
    <3> QED BY <3>1 DEF SignalOK
  <2>10. pc[h] \notin {"wake", "readyAll", "drain"} /\ pc'[h] \notin {"wake", "pass2"}
    BY <1>9
  <2> QED BY <1>7, <2>5, <2>8, <2>9, <2>10, StayW
<1> QED BY <1>8, <1>9

-----------------------------------------------------------------------------
(* The other steps of a plain operation *)

\* A step that only moves a goroutine on, outside the blocking part of the code.
LEMMA QuietW ==
  ASSUME IInv, IInv', WInv, NEW h \in Goroutine, NEW l, Goto(h, l),
         pc[h] \notin Blocked, pc[h] \notin {"wake", "readyAll", "drain"},
         l \notin Blocked, l \notin {"woken", "wake", "drain"},
         sendq' = sendq, recvq' = recvq, closed' = closed, lock' = lock, toReady' = toReady,
         call' = call, need' = need, selectDone' = selectDone,
         \A g \in Goroutine \ {h} : param'[g] = param[g]
  PROVE  WInv'
<1>1. pc'[h] = l /\ \A g \in Goroutine \ {h} : pc'[g] = pc[g]
  BY DEF Goto, IInv, ControlOK
<1>2. Alone(h)
  BY <1>1 DEF Alone
<1>3. Closes(h)
  BY DEF Closes
<1> QED BY <1>1, <1>2, <1>3, LeaveAloneW

\* A read of a fast path.
LEMMA ReadW ==
  ASSUME IInv, IInv', WInv, NEW h \in Goroutine, NEW l, Read(h, l) \/ ReturnOnly(h, l),
         pc[h] \in {"fastSend", "thenFull", "thenClosed", "fastRecv", "rclosed", "rempty"},
         l \in {"lock", "thenFull", "thenClosed", "rclosed", "rempty", "no"}
  PROVE  WInv'
<1>1. PICK m \in {"lock", "thenFull", "thenClosed", "rclosed", "rempty", "idle"} : Goto(h, m)
  <2>1. ReturnOnly(h, l) => Goto(h, "idle")
    BY DEF ReturnOnly, Return
  <2>2. Read(h, l) => Goto(h, l)
    BY DEF Read
  <2>3. Read(h, "no") => FALSE
    <3>1. Read(h, "no") => pc'[h] = "no"
      BY DEF Read, Goto, IInv, ControlOK
    <3>2. pc'[h] \in Label
      BY DEF IInv, ControlOK
    <3> QED BY <3>1, <3>2, SMT DEF Label
  <2> QED BY <2>1, <2>2, <2>3
<1>2. /\ sendq' = sendq /\ recvq' = recvq /\ closed' = closed /\ lock' = lock
      /\ toReady' = toReady /\ call' = call /\ need' = need /\ selectDone' = selectDone
      /\ param' = param
  BY DEF Read, ReturnOnly, chanVars, queueVars, lockVars, wakeVars
<1>3. /\ pc[h] \notin Blocked /\ pc[h] \notin {"wake", "readyAll", "drain"}
      /\ m \notin Blocked /\ m \notin {"woken", "wake", "drain"}
  BY DEF Blocked
<1> QED BY <1>1, <1>2, <1>3, QuietW

\* The fast path of a send.
LEMMA FastSendW ==
  ASSUME IInv, IInv', WInv, NEW h \in Goroutine, FastSend(h)
  PROVE  WInv'
<1>1. \E l \in {"lock", "thenFull", "thenClosed", "no"} : Read(h, l) \/ ReturnOnly(h, l)
  BY DEF FastSend
<1>2. pc[h] \in {"fastSend", "thenFull", "thenClosed", "fastRecv", "rclosed", "rempty"}
  BY DEF FastSend
<1> QED BY <1>1, <1>2, ReadW

\* The fast path of a receive.
LEMMA FastRecvW ==
  ASSUME IInv, IInv', WInv, NEW h \in Goroutine, FastRecv(h)
  PROVE  WInv'
<1>1. pc[h] \in {"fastSend", "thenFull", "thenClosed", "fastRecv", "rclosed", "rempty"}
  BY DEF FastRecv
<1>2. CASE \E l \in {"lock", "rclosed", "rempty", "no"} : Read(h, l) \/ ReturnOnly(h, l)
  BY <1>1, <1>2, ReadW
<1>3. CASE /\ Return(h, "closed", 1)
           /\ UNCHANGED <<chanVars, queueVars, lockVars, call, calls, toReady, wakeVars, histVars>>
  <2>1. /\ sendq' = sendq /\ recvq' = recvq /\ closed' = closed /\ lock' = lock
        /\ toReady' = toReady /\ call' = call /\ need' = need /\ selectDone' = selectDone
        /\ param' = param /\ Goto(h, "idle")
    BY <1>3 DEF Return, chanVars, queueVars, lockVars, wakeVars
  <2>2. /\ pc[h] \notin Blocked /\ pc[h] \notin {"wake", "readyAll", "drain"}
        /\ "idle" \notin Blocked /\ "idle" \notin {"woken", "wake", "drain"}
    BY <1>1 DEF Blocked
  <2> QED BY <2>1, <2>2, QuietW
<1> QED BY <1>2, <1>3 DEF FastRecv

\* chansend and chanrecv return after the wakeup.
LEMMA WokenW ==
  ASSUME IInv, IInv', WInv, NEW h \in Goroutine, Woken(h)
  PROVE  WInv'
<1>1. /\ pc[h] = "woken" /\ param' = [param EXCEPT ![h] = 0]
      /\ sendq' = sendq /\ recvq' = recvq /\ closed' = closed /\ lock' = lock
      /\ toReady' = toReady /\ call' = call /\ need' = need /\ selectDone' = selectDone
  BY DEF Woken, chanVars, queueVars, lockVars
<1>2. PICK l \in {"throw", "idle"} : Goto(h, l)
  BY DEF Woken, Return
<1>3. \A g \in Goroutine \ {h} : param'[g] = param[g]
  BY <1>1 DEF IInv, ControlOK
<1>4. /\ pc[h] \notin Blocked /\ pc[h] \notin {"wake", "readyAll", "drain"}
      /\ l \notin Blocked /\ l \notin {"woken", "wake", "drain"}
  BY <1>1 DEF Blocked
<1> QED BY <1>1, <1>2, <1>3, <1>4, QuietW

\* closechan sets closed and goes on to drain the queues.
LEMMA CloseBeginW ==
  ASSUME IInv, IInv', WInv, NEW h \in Goroutine, CloseBegin(h)
  PROVE  WInv'
<1> DEFINE c == Ch(h)
<1>0. ControlOK /\ PlaceOK(h)
  BY DEF IInv
<1>1. /\ pc[h] = "close" /\ lock[c] = Free
      /\ sendq' = sendq /\ recvq' = recvq /\ param' = param
      /\ toReady' = toReady /\ call' = call /\ need' = need /\ selectDone' = selectDone
  BY DEF CloseBegin, queueVars, wakeVars
<1> USE <1>1
<1>2. pc[h] \notin Blocked /\ pc[h] \notin {"wake", "readyAll", "drain"}
  BY DEF Blocked
<1>3. CASE Goto(h, "idle") /\ closed' = closed /\ lock' = lock
  <2>1. "idle" \notin Blocked /\ "idle" \notin {"woken", "wake", "drain"}
    BY DEF Blocked
  <2> QED BY <1>2, <1>3, <2>1, QuietW
<1>4. CASE /\ Goto(h, "drain") /\ closed' = [closed EXCEPT ![c] = TRUE]
           /\ lock' = [lock EXCEPT ![c] = h]
  <2>1. pc'[h] = "drain" /\ \A g \in Goroutine \ {h} : pc'[g] = pc[g]
    BY <1>0, <1>4 DEF Goto, ControlOK
  <2>2. Ch(h)' = c /\ c \in Channel
    BY <1>0 DEF Ch, PlaceOK, Plain
  <2>3. /\ lock'[c] = h /\ \A d \in Channel : d # c => lock'[d] = lock[d]
        /\ \A d \in Channel : d # c => closed'[d] = closed[d]
    BY <1>0, <1>4, <2>2 DEF ControlOK
  <2> HIDE DEF c
  <2>4. Closes(h)
    BY <2>1, <2>2, <2>3 DEF Closes
  <2>5. \A d \in Channel, g \in Goroutine \ {h} : lock[d] = g => lock'[d] = g
    BY <2>3, ChanAssumption
  <2>6. Alone(h)
    BY <2>1, <2>5 DEF Alone
  <2>7. pc'[h] \notin Blocked /\ pc'[h] \notin {"woken", "wake"}
    BY <2>1 DEF Blocked
  <2> QED BY <1>2, <2>4, <2>6, <2>7, LeaveAloneW
<1> QED BY <1>3, <1>4 DEF CloseBegin, Return

-----------------------------------------------------------------------------
(* Sending and receiving *)

\* p is the queues q, some of those emptied in which nobody waits any more.
LiveTrim(q, p) ==
  \A c \in Channel : p[c] = q[c] \/ (p[c] = <<>> /\ LiveIn(q[c]) = {})

\* A queue that the step leaves alone or, finding nobody, empties.
Kept(d, c) == Qd(d, c)' = Qd(d, c) \/ (Qd(d, c)' = <<>> /\ LiveIn(Qd(d, c)) = {})

\* In a queue without live sudogs nobody waits.
LEMMA NoneLive ==
  ASSUME NEW q, LiveIn(q) = {}
  PROVE  \A sg : In(sg, q) => ~Live(sg)
BY DEF LiveIn, In

\* Both queues of all channels, in one form.
LEMMA KeptBoth ==
  ASSUME LiveTrim(sendq, sendq'), LiveTrim(recvq, recvq')
  PROVE  \A d \in Dir, c \in Channel : Kept(d, c)
<1> SUFFICES ASSUME NEW d \in Dir, NEW c \in Channel PROVE Kept(d, c)
  OBVIOUS
<1>1. CASE d = "send"
  BY <1>1 DEF LiveTrim, Kept, Qd
<1>2. CASE d # "send"
  BY <1>2 DEF LiveTrim, Kept, Qd
<1> QED BY <1>1, <1>2

\* What such a queue keeps.
LEMMA KeptEntries ==
  ASSUME QueuesSound, NEW d \in Dir, NEW c \in Channel, Kept(d, c)
  PROVE  /\ NoTwice(Qd(d, c))'
         /\ \A sg : Entry(d, c, sg)' => Entry(d, c, sg)
         /\ \A sg : Entry(d, c, sg) /\ Live(sg) => Entry(d, c, sg)'
<1>0. NoTwice(Qd(d, c))
  BY EntryIts
<1>1. CASE Qd(d, c)' = Qd(d, c)
  BY <1>0, <1>1 DEF Entry
<1>2. CASE Qd(d, c)' = <<>> /\ LiveIn(Qd(d, c)) = {}
  BY <1>2, InEmpty, NoneLive DEF Entry
<1> QED BY <1>1, <1>2 DEF Kept

\* A step that makes nobody ready.
LEMMA KeptTrims ==
  ASSUME QueuesSound, \A d \in Dir, c \in Channel : Kept(d, c)
  PROVE  Trims({})
<1>1. ASSUME NEW d \in Dir, NEW c \in Channel
      PROVE  /\ NoTwice(Qd(d, c))'
             /\ \A sg : Entry(d, c, sg)' => Entry(d, c, sg)
             /\ \A sg : Entry(d, c, sg) /\ Live(sg) => Entry(d, c, sg)'
  BY KeptEntries
<1> QED BY <1>1 DEF Trims

\* dequeue returns the first live sudog and drops the dead ones before it.
LEMMA InRest ==
  ASSUME NatFacts, NEW q \in Seq(Sudogs), LiveIn(q) # {}, NoTwice(q)
  PROVE  /\ NoTwice(Rest(q))
         /\ In(q[FirstLive(q)], q) /\ Live(q[FirstLive(q)])
         /\ \A sg : In(sg, Rest(q)) => In(sg, q) /\ sg # q[FirstLive(q)]
         /\ \A sg : In(sg, q) /\ Live(sg) /\ sg # q[FirstLive(q)] => In(sg, Rest(q))
<1> DEFINE f == FirstLive(q)
           p == Rest(q)
<1>1. f \in LiveIn(q) /\ f \in DOMAIN q /\ q[f] \in Sudogs
  BY FirstLiveFacts
<1>2. \A j \in LiveIn(q) : f <= j
  <2>1. LiveIn(q) \in SUBSET Nat
    BY SMT DEF LiveIn
  <2>2. \E n \in LiveIn(q) : \A j \in LiveIn(q) : n <= j
    BY <2>1, NatMin
  <2> QED BY <2>2 DEF FirstLive
<1>3. p = SubSeq(q, f + 1, Len(q))
  BY DEF Rest
<1> HIDE DEF f, p
<1>4. /\ Len(q) \in Nat /\ DOMAIN q = 1 .. Len(q) /\ f \in 1 .. Len(q)
      /\ DOMAIN p = 1 .. Len(q) - f /\ \A k \in 1 .. Len(q) - f : p[k] = q[k + f]
  BY <1>1, <1>3, SMT
<1>5. \A k \in DOMAIN p : k + f \in DOMAIN q /\ k + f # f
  BY <1>4, SMT
<1>6. \A j, k \in DOMAIN p : j + f = k + f => j = k
  BY <1>4, SMT
<1>7. ASSUME NEW k \in DOMAIN q, Live(q[k]), k # f
      PROVE  \E j \in DOMAIN p : j + f = k
  <2>1. k \in LiveIn(q)
    BY <1>7 DEF LiveIn
  <2>2. f <= k
    BY <1>2, <2>1
  <2>3. k - f \in DOMAIN p /\ (k - f) + f = k
    BY <1>4, <1>7, <2>2, SMT
  <2> QED BY <2>3
<1>8. \A k \in DOMAIN p : p[k] = q[k + f]
  BY <1>4
<1>9. \A sg : In(sg, p) => In(sg, q) /\ sg # q[f]
  BY <1>1, <1>5, <1>8 DEF In, NoTwice
<1>10. \A sg : In(sg, q) /\ Live(sg) /\ sg # q[f] => In(sg, p)
  BY <1>7, <1>8 DEF In
<1>11. NoTwice(p)
  BY <1>5, <1>6, <1>8 DEF NoTwice
<1>12. In(q[f], q) /\ Live(q[f])
  BY <1>1 DEF In, LiveIn
<1> QED BY <1>9, <1>10, <1>11, <1>12 DEF p, f

\* A step that makes the goroutine ready that waits first in the queue of (d, c).
LEMMA PickTrims ==
  ASSUME NatFacts, IInv, QueuesSound, NEW d \in Dir, NEW c \in Channel,
         LiveIn(Qd(d, c)) # {}, Qd(d, c)' = Rest(Qd(d, c)),
         \A e \in Dir, b \in Channel : <<e, b>> # <<d, c>> => Kept(e, b),
         NEW sg, sg = Qd(d, c)[FirstLive(Qd(d, c))]
  PROVE  Trims({sg}) /\ Entry(d, c, sg) /\ Live(sg)
<1>0. DataOK
  BY DEF IInv
<1>1. Qd(d, c) \in Seq(Sudogs) /\ NoTwice(Qd(d, c))
  BY <1>0, QdTypes, EntryIts
<1>2. /\ NoTwice(Rest(Qd(d, c))) /\ In(sg, Qd(d, c)) /\ Live(sg)
      /\ \A s : In(s, Rest(Qd(d, c))) => In(s, Qd(d, c)) /\ s # sg
      /\ \A s : In(s, Qd(d, c)) /\ Live(s) /\ s # sg => In(s, Rest(Qd(d, c)))
  BY <1>1, InRest
<1>3. Its(d, c, sg)
  BY <1>2, EntryIts DEF Entry
<1>4. ASSUME NEW e \in Dir, NEW b \in Channel
      PROVE  /\ NoTwice(Qd(e, b))'
             /\ \A s : Entry(e, b, s)' => Entry(e, b, s) /\ s # sg
             /\ \A s : Entry(e, b, s) /\ Live(s) /\ s # sg => Entry(e, b, s)'
  <2>1. CASE e = d /\ b = c
    BY <1>2, <2>1 DEF Entry
  <2>2. CASE e # d \/ b # c
    <3>1. Kept(e, b)
      BY <2>2, SMT
    <3>2. \A s : Entry(e, b, s) => Its(e, b, s)
      BY EntryIts
    <3>3. ~Its(e, b, sg)
      BY <1>3, <2>2 DEF Its
    <3> QED BY <3>1, <3>2, <3>3, KeptEntries
  <2> QED BY <2>1, <2>2
<1>5. Trims({sg})
  BY <1>4 DEF Trims
<1> QED BY <1>2, <1>5 DEF Entry

\* h has one goroutine to make ready.
Handoff(h) ==
  \E sg \in Sudogs : Trims({sg}) /\ Picked(h, {sg}) /\ SetDone({sg})

\* The first live sudog of a queue belongs to a goroutine that waits.
LEMMA PickOne ==
  ASSUME NatFacts, IInv, WInv, NEW h \in Goroutine, NEW d \in Dir, NEW c \in Channel,
         LiveIn(Qd(d, c)) # {}, Qd(d, c)' = Rest(Qd(d, c)),
         \A e \in Dir, b \in Channel : <<e, b>> # <<d, c>> => Kept(e, b),
         NEW sg, sg = Qd(d, c)[FirstLive(Qd(d, c))], SetDone({sg}),
         toReady' = [toReady EXCEPT ![h] = {sg}],
         lock[c] \in {Free, h}, pc[h] \notin Blocked, pc[h] \notin {"wake", "readyAll"}
  PROVE  Handoff(h)
<1>0. QueuesSound /\ ReadyOK(h) /\ DataOK
  BY DEF WInv, WaitOK, IInv
<1>1. Trims({sg}) /\ Entry(d, c, sg) /\ Live(sg)
  BY <1>0, PickTrims
<1>2. sg \in Sudogs /\ sg.g \in Goroutine /\ sg.g # h
  BY <1>0, <1>1, QdTypes, NoneOwn
<1>3. lock[c] # sg.g /\ WaitOK(sg.g)
  BY <1>2, ChanAssumption DEF WInv
<1>4. pc[sg.g] = "waiting" /\ ~Signalled(sg.g) /\ sg.i \in Cases(sg.g) /\ sg = Sudog(sg.g, sg.i)
  BY <1>0, <1>1, <1>3, LiveWaits
<1>5. toReady[h] = {}
  BY <1>0 DEF ReadyOK
<1>6. toReady'[h] = {sg} /\ \A j \in Goroutine \ {h} : toReady'[j] = toReady[j]
  BY <1>0 DEF DataOK
<1>7. Picked(h, {sg})
  BY <1>2, <1>4, <1>5, <1>6 DEF Picked
<1> QED BY <1>1, <1>2, <1>7 DEF Handoff

\* The goroutine goes on to make it ready.
LEMMA HandoffW ==
  ASSUME IInv, IInv', WInv, NEW h \in Goroutine, Handoff(h), Goto(h, "wake"),
         closed' = closed, param' = param, call' = call, need' = need,
         \A c \in Channel, g \in Goroutine \ {h} : lock[c] = g => lock'[c] = g,
         pc[h] \notin Blocked, pc[h] \notin {"wake", "readyAll", "drain"}
  PROVE  WInv'
<1>1. PICK sg \in Sudogs : Trims({sg}) /\ Picked(h, {sg}) /\ SetDone({sg})
  BY DEF Handoff
<1>2. pc'[h] = "wake" /\ \A g \in Goroutine \ {h} : pc'[g] = pc[g]
  BY DEF Goto, IInv, ControlOK
<1>3. \A g \in Goroutine : selectDone'[g] <=> selectDone[g] \/ (sg.g = g /\ sg.isSelect)
  BY <1>1 DEF SetDone
<1>4. Apart(h, {sg})
  BY <1>2, <1>3, SMT DEF Apart
<1>5. sg.g # h
  BY <1>1 DEF Picked, Blocked
<1>6. selectDone'[h] = selectDone[h]
  <2>1. selectDone[h] \in BOOLEAN /\ selectDone'[h] \in BOOLEAN
    BY DEF IInv, DataOK
  <2> QED BY <1>3, <1>5, <2>1, SMT
<1>7. Closes(h)
  BY DEF Closes
<1>8. ReadyOK(h)'
  BY <1>1, <1>2 DEF ReadyOK, Picked
<1>9. pc'[h] \notin Blocked /\ pc'[h] # "woken"
  BY <1>2 DEF Blocked
<1> QED BY <1>1, <1>4, <1>6, <1>7, <1>8, <1>9, LeaveW

\* The goroutine returns: nobody was there to be made ready.
LEMMA KeptW ==
  ASSUME IInv, IInv', WInv, NEW h \in Goroutine, Goto(h, "idle"),
         LiveTrim(sendq, sendq'), LiveTrim(recvq, recvq'),
         toReady' = toReady, selectDone' = selectDone,
         closed' = closed, param' = param, call' = call, need' = need,
         \A c \in Channel, g \in Goroutine \ {h} : lock[c] = g => lock'[c] = g,
         pc[h] \notin Blocked, pc[h] \notin {"wake", "readyAll", "drain"}
  PROVE  WInv'
<1>0. QueuesSound /\ ReadyOK(h)
  BY DEF WInv, WaitOK
<1>1. Trims({})
  BY <1>0, KeptBoth, KeptTrims
<1>2. pc'[h] = "idle" /\ \A g \in Goroutine \ {h} : pc'[g] = pc[g]
  BY DEF Goto, IInv, ControlOK
<1>3. Alone(h)
  BY <1>2 DEF Alone
<1>4. Picked(h, {}) /\ Apart(h, {}) /\ toReady[h] = {}
  BY <1>0, <1>3, AloneParts
<1>5. Closes(h) /\ ReadyOK(h)'
  BY <1>2, <1>4 DEF Closes, ReadyOK
<1>6. pc'[h] \notin Blocked /\ pc'[h] # "woken"
  BY <1>2 DEF Blocked
<1> QED BY <1>1, <1>4, <1>5, <1>6, LeaveW

\* What surrounds a transfer in chansend, chanrecv and selectgo.
Around(h) ==
  /\ closed' = closed /\ param' = param /\ call' = call /\ need' = need
  /\ \A c \in Channel, g \in Goroutine \ {h} : lock[c] = g => lock'[c] = g
  /\ pc[h] \in {"lock", "pass1"}

\* send to a receiver that waits.
LEMMA SendDirectW ==
  ASSUME NatFacts, IInv, IInv', WInv, NEW h \in Goroutine, NEW i, NEW c \in Channel,
         NEW sq, NEW rq, rq \in [Channel -> Seq(Sudogs)], LiveTrim(sendq, sq), LiveTrim(recvq, rq),
         LiveIn(recvq[c]) # {}, SendDirect(h, i, c, sq, rq), Moved(h, i, TRUE), Around(h),
         lock[c] \in {Free, h}
  PROVE  WInv'
<1>1. rq[c] = recvq[c]
  BY DEF LiveTrim
<1>2. PICK sg : sg = recvq[c][FirstLive(recvq[c])]
  OBVIOUS
<1>3. /\ recvq' = [rq EXCEPT ![c] = Rest(recvq[c])] /\ sendq' = sq /\ SetDone({sg})
      /\ toReady' = [toReady EXCEPT ![h] = {sg}]
  BY <1>1, <1>2 DEF SendDirect
<1>4. recvq'[c] = Rest(recvq[c]) /\ \A b \in Channel : b # c => recvq'[b] = rq[b]
  BY <1>3
<1>5. Qd("recv", c) = recvq[c] /\ Qd("recv", c)' = recvq'[c] /\ "recv" \in Dir
  BY SMT DEF Qd, Dir
<1>6. ASSUME NEW e \in Dir, NEW b \in Channel, <<e, b>> # <<"recv", c>> PROVE Kept(e, b)
  <2>1. CASE e = "send"
    BY <1>3, <2>1 DEF LiveTrim, Kept, Qd
  <2>2. CASE e = "recv" /\ b # c
    BY <1>4, <2>2 DEF LiveTrim, Kept, Qd
  <2> QED BY <1>6, <2>1, <2>2 DEF Dir
<1>7. pc[h] \notin Blocked /\ pc[h] \notin {"wake", "readyAll", "drain"}
  BY DEF Around, Blocked
<1>8. Handoff(h)
  BY <1>2, <1>3, <1>4, <1>5, <1>6, <1>7, PickOne
<1>9. Goto(h, "wake")
  BY DEF Moved
<1> QED BY <1>7, <1>8, <1>9, HandoffW DEF Around

\* recv from a sender that waits.
LEMMA RecvDirectW ==
  ASSUME NatFacts, IInv, IInv', WInv, NEW h \in Goroutine, NEW i, NEW c \in Channel,
         NEW sq, NEW rq, sq \in [Channel -> Seq(Sudogs)], LiveTrim(sendq, sq), LiveTrim(recvq, rq),
         LiveIn(sendq[c]) # {}, RecvDirect(h, c, sq, rq), Moved(h, i, TRUE), Around(h),
         lock[c] \in {Free, h}
  PROVE  WInv'
<1>1. sq[c] = sendq[c]
  BY DEF LiveTrim
<1>2. PICK sg : sg = sendq[c][FirstLive(sendq[c])]
  OBVIOUS
<1>3. /\ sendq' = [sq EXCEPT ![c] = Rest(sendq[c])] /\ recvq' = rq /\ SetDone({sg})
      /\ toReady' = [toReady EXCEPT ![h] = {sg}]
  BY <1>1, <1>2 DEF RecvDirect
<1>4. sendq'[c] = Rest(sendq[c]) /\ \A b \in Channel : b # c => sendq'[b] = sq[b]
  BY <1>3
<1>5. Qd("send", c) = sendq[c] /\ Qd("send", c)' = sendq'[c] /\ "send" \in Dir
  BY SMT DEF Qd, Dir
<1>6. ASSUME NEW e \in Dir, NEW b \in Channel, <<e, b>> # <<"send", c>> PROVE Kept(e, b)
  <2>1. CASE e = "send" /\ b # c
    BY <1>4, <2>1 DEF LiveTrim, Kept, Qd
  <2>2. CASE e = "recv"
    BY <1>3, <2>2 DEF LiveTrim, Kept, Qd
  <2> QED BY <1>6, <2>1, <2>2 DEF Dir
<1>7. pc[h] \notin Blocked /\ pc[h] \notin {"wake", "readyAll", "drain"}
  BY DEF Around, Blocked
<1>8. Handoff(h)
  BY <1>2, <1>3, <1>4, <1>5, <1>6, <1>7, PickOne
<1>9. Goto(h, "wake")
  BY DEF Moved
<1> QED BY <1>7, <1>8, <1>9, HandoffW DEF Around

\* A transfer through the buffer, or none at all.
LEMMA AloneW ==
  ASSUME IInv, IInv', WInv, NEW h \in Goroutine, NEW sq, NEW rq,
         LiveTrim(sendq, sq), LiveTrim(recvq, rq), sendq' = sq, recvq' = rq,
         toReady' = toReady, selectDone' = selectDone, Goto(h, "idle"), Around(h)
  PROVE  WInv'
<1>1. pc[h] \notin Blocked /\ pc[h] \notin {"wake", "readyAll", "drain"}
  BY DEF Around, Blocked
<1>2. LiveTrim(sendq, sendq') /\ LiveTrim(recvq, recvq')
  OBVIOUS
<1> QED BY <1>1, <1>2, KeptW DEF Around

\* Emptying a queue without live sudogs.
LEMMA DrainedLive ==
  ASSUME NEW q, NEW C, \A c \in Channel \cap C : LiveIn(q[c]) = {}
  PROVE  LiveTrim(q, Drained(q, C)) /\ LiveTrim(q, q)
BY DEF LiveTrim, Drained

\* A goroutine queues up in the queue of (d, c), its own case, and holds the lock.
LEMMA EnqueueW ==
  ASSUME IInv, IInv', WInv, NEW h \in Goroutine, pc[h] = "lock", Goto(h, "park"),
         NEW c \in Channel, NEW d \in Dir, NEW s, c = Ch(h), d = DirOf(h, 1), s = Sudog(h, 1),
         Qd(d, c)' = Append(Qd(d, c), s), Qd(Other(d), c)' = <<>>, LiveIn(Qd(Other(d), c)) = {},
         \A e \in Dir, b \in Channel : b # c => Qd(e, b)' = Qd(e, b),
         ~closed[c], closed' = closed, lock[c] = Free, lock' = [lock EXCEPT ![c] = h],
         param' = [param EXCEPT ![h] = 0], toReady' = toReady, selectDone' = selectDone,
         call' = call, need' = need
  PROVE  WInv'
<1>0. QueuesSound /\ WaitOK(h) /\ ControlOK /\ DataOK /\ PlaceOK(h)
  BY DEF WInv, IInv
<1> USE <1>0
<1>1. pc[h] \notin Blocked
  BY DEF Blocked
<1>2. /\ \A e \in Dir, b \in Channel : \A sg : Entry(e, b, sg) => sg.g # h
      /\ ~selectDone[h]
  BY <1>1, NoneOwn
<1>3. 1 \in Cases(h) /\ CaseChan(h, 1) = c
  <2>1. Len(call[h].cases) = 1 /\ c # Nil
    BY ChanAssumption, SMT DEF PlaceOK, Plain
  <2>2. call[h].cases \in Seq(Case)
    BY CaseTypes
  <2>3. 1 \in DOMAIN call[h].cases
    BY <2>1, <2>2, SMT
  <2> QED BY <2>1, <2>3 DEF Cases, CaseChan, Ch
<1>4. s \in Sudogs /\ s.g = h /\ s.i = 1
  <2>1. 1 \in Nat \ {0}
    BY SMT
  <2>2. s \in Sudogs
    BY <2>1, SudogType
  <2>3. s.g = h /\ s.i = 1
    BY SMT DEF Sudog
  <2> QED BY <2>2, <2>3
<1> USE <1>4
<1>5. Its(d, c, s)
  BY <1>3 DEF Its
<1>6. /\ pc'[h] = "park" /\ \A g \in Goroutine \ {h} : pc'[g] = pc[g] /\ param'[g] = param[g]
      /\ lock'[c] = h /\ \A b \in Channel : b # c => lock'[b] = lock[b]
  BY DEF Goto, ControlOK
<1>7. Alone(h)
  <2>1. \A b \in Channel, g \in Goroutine \ {h} : lock[b] = g => lock'[b] = g
    BY <1>6, ChanAssumption
  <2> QED BY <1>6, <2>1 DEF Alone
<1>8. Picked(h, {}) /\ Apart(h, {}) /\ toReady[h] = {}
  BY <1>7, AloneParts DEF WaitOK
<1>9. /\ NoTwice(Append(Qd(d, c), s)) /\ In(s, Append(Qd(d, c), s))
      /\ \A sg : In(sg, Qd(d, c)) => In(sg, Append(Qd(d, c), s))
      /\ \A sg : In(sg, Append(Qd(d, c), s)) => In(sg, Qd(d, c)) \/ sg = s
  <2>1. ~In(s, Qd(d, c)) /\ Qd(d, c) \in Seq(Sudogs) /\ NoTwice(Qd(d, c))
    BY <1>2, QdTypes, EntryIts DEF Entry
  <2> QED BY <2>1, InAppend
<1>10. d # Other(d) /\ Other(d) \in Dir /\ \A e \in Dir : e = d \/ e = Other(d)
  BY SMT DEF Dir, Other
<1>11. \A sg : ~Entry(Other(d), c, sg)'
  BY InEmpty DEF Entry
<1>12. Adds(h, d, c, s)
  BY <1>5, <1>6, <1>11 DEF Adds
<1>13. QStep(h, {})
  <2> SUFFICES ASSUME NEW e \in Dir, NEW b \in Channel
               PROVE  /\ NoTwice(Qd(e, b))'
                      /\ \A sg : Entry(e, b, sg)' => Entry(e, b, sg) \/ Adds(h, e, b, sg)
                      /\ \A sg : Entry(e, b, sg) /\ Live(sg) => Entry(e, b, sg)'
    BY DEF QStep
  <2>1. CASE b # c
    BY <2>1, EntryIts DEF Entry
  <2>2. CASE b = c /\ e = d
    BY <1>9, <1>12, <2>2 DEF Entry
  <2>3. CASE b = c /\ e = Other(d)
    BY <2>3, InEmpty, NoneLive DEF Entry
  <2> QED BY <1>10, <2>1, <2>2, <2>3
<1>14. Closes(h)
  BY DEF Closes
<1>15. SignalOK(h)' /\ ~Signalled(h)'
  BY <1>8, OwnSignal DEF WaitOK
<1>16. Queued(h, 1)'
  <2>1. Entry(d, c, s)'
    BY <1>9 DEF Entry
  <2> QED BY <1>3, <2>1, QueuedNext
<1>17. BlockOK(h)'
  BY <1>2, <1>6, <1>16 DEF BlockOK, Blocked
<1>18. RelockOK(h)' /\ Pass2OK(h)' /\ ReadyOK(h)'
  BY <1>6, <1>8 DEF RelockOK, Pass2OK, ReadyOK
<1>19. WaitOK(h)'
  BY <1>15, <1>17, <1>18 DEF WaitOK
<1> QED BY <1>8, <1>13, <1>14, <1>18, <1>19, StepW

\* chansend.
LEMMA ChansendW ==
  ASSUME NatFacts, IInv, IInv', WInv, NEW h \in Goroutine, chansend(h)
  PROVE  WInv'
<1>0. DataOK /\ ControlOK /\ PlaceOK(h)
  BY DEF IInv
<1>1. PICK c : c = Ch(h)
  OBVIOUS
<1> USE <1>1
<1>2. /\ pc[h] = "lock" /\ lock[c] = Free /\ Sends(h, 1)
      /\ need' = need /\ call' = call
  BY DEF chansend
<1> USE <1>2
<1>3. c \in Channel
  BY <1>0 DEF PlaceOK, Plain
<1> DEFINE rq == Drained(recvq, {c})
<1>4. /\ recvq \in [Channel -> Seq(Sudogs)] /\ LiveTrim(sendq, sendq) /\ LiveTrim(recvq, recvq)
      /\ LiveIn(recvq[c]) = {} => LiveTrim(recvq, rq)
  BY <1>0, DrainedLive DEF DataOK, LiveTrim
<1>5. closed' = closed /\ lock' = lock /\ param' = param => Around(h)
  BY DEF Around
<1>6. /\ closed' = closed
      /\ \/ NoTransfer(sendq, recvq) /\ Goto(h, "idle") /\ lock' = lock /\ param' = param
         \/ /\ LiveIn(recvq[c]) # {} /\ SendDirect(h, 1, c, sendq, recvq) /\ Moved(h, 1, TRUE)
            /\ lock' = lock /\ param' = param
         \/ /\ LiveIn(recvq[c]) = {} /\ Goto(h, "idle") /\ lock' = lock /\ param' = param
            /\ NoTransfer(sendq, rq) \/ SendBuffered(h, 1, c, sendq, rq)
         \/ /\ ~closed[c] /\ LiveIn(recvq[c]) = {} /\ lock' = [lock EXCEPT ![c] = h]
            /\ Enqueue(h, [sendq EXCEPT ![c] = Append(@, Sudog(h, 1))], rq)
  <2>1. closed' = closed
    BY DEF chansend, NoTransfer, SendDirect, SendBuffered, Enqueue, chanVars
  <2> QED BY <2>1 DEF chansend, Return, Moved
<1> USE <1>6
<1>7. CASE NoTransfer(sendq, recvq) /\ Goto(h, "idle") /\ lock' = lock /\ param' = param
  <2>1. sendq' = sendq /\ recvq' = recvq /\ toReady' = toReady /\ selectDone' = selectDone
    BY <1>7 DEF NoTransfer
  <2> QED BY <1>4, <1>5, <1>7, <2>1, AloneW
<1>8. CASE /\ LiveIn(recvq[c]) # {} /\ SendDirect(h, 1, c, sendq, recvq) /\ Moved(h, 1, TRUE)
           /\ lock' = lock /\ param' = param
  BY <1>3, <1>4, <1>5, <1>8, SendDirectW
<1>9. CASE /\ LiveIn(recvq[c]) = {} /\ Goto(h, "idle") /\ lock' = lock /\ param' = param
           /\ NoTransfer(sendq, rq) \/ SendBuffered(h, 1, c, sendq, rq)
  <2>1. sendq' = sendq /\ recvq' = rq /\ toReady' = toReady /\ selectDone' = selectDone
    BY <1>9 DEF NoTransfer, SendBuffered
  <2> HIDE DEF rq
  <2> QED BY <1>4, <1>5, <1>9, <2>1, AloneW
<1>10. CASE /\ ~closed[c] /\ LiveIn(recvq[c]) = {} /\ lock' = [lock EXCEPT ![c] = h]
            /\ Enqueue(h, [sendq EXCEPT ![c] = Append(@, Sudog(h, 1))], rq)
  <2>1. /\ sendq' = [sendq EXCEPT ![c] = Append(@, Sudog(h, 1))] /\ recvq' = rq
        /\ param' = [param EXCEPT ![h] = 0] /\ toReady' = toReady /\ selectDone' = selectDone
        /\ Goto(h, "park")
    BY <1>10 DEF Enqueue
  <2>2. /\ sendq'[c] = Append(sendq[c], Sudog(h, 1)) /\ recvq'[c] = <<>>
        /\ \A b \in Channel : b # c => sendq'[b] = sendq[b] /\ recvq'[b] = recvq[b]
    BY <1>0, <1>3, <2>1 DEF DataOK, Drained
  <2>3. PICK s : s = Sudog(h, 1)
    OBVIOUS
  <2>4. /\ Qd("send", c)' = Append(Qd("send", c), s) /\ Qd(Other("send"), c)' = <<>>
        /\ LiveIn(Qd(Other("send"), c)) = {} /\ "send" \in Dir /\ DirOf(h, 1) = "send"
    BY <1>10, <2>2, <2>3, SMT DEF Qd, Other, Dir, DirOf
  <2>5. \A e \in Dir, b \in Channel : b # c => Qd(e, b)' = Qd(e, b)
    BY <2>2 DEF Qd
  <2> QED BY <1>3, <1>10, <2>1, <2>3, <2>4, <2>5, EnqueueW
<1> QED BY <1>7, <1>8, <1>9, <1>10

\* chanrecv.
LEMMA ChanrecvW ==
  ASSUME NatFacts, IInv, IInv', WInv, NEW h \in Goroutine, chanrecv(h)
  PROVE  WInv'
<1>0. DataOK /\ ControlOK /\ PlaceOK(h)
  BY DEF IInv
<1>1. PICK c : c = Ch(h)
  OBVIOUS
<1> USE <1>1
<1>2. /\ pc[h] = "lock" /\ lock[c] = Free /\ ~Sends(h, 1)
      /\ need' = need /\ call' = call
  BY DEF chanrecv
<1> USE <1>2
<1>3. c \in Channel
  BY <1>0 DEF PlaceOK, Plain
<1> DEFINE sq == Drained(sendq, {c})
<1>4. /\ sendq \in [Channel -> Seq(Sudogs)] /\ LiveTrim(sendq, sendq) /\ LiveTrim(recvq, recvq)
      /\ LiveIn(sendq[c]) = {} => LiveTrim(sendq, sq)
  BY <1>0, DrainedLive DEF DataOK, LiveTrim
<1>5. closed' = closed /\ lock' = lock /\ param' = param => Around(h)
  BY DEF Around
<1>6. /\ closed' = closed
      /\ \/ NoTransfer(sendq, recvq) /\ Goto(h, "idle") /\ lock' = lock /\ param' = param
         \/ /\ LiveIn(sendq[c]) # {} /\ RecvDirect(h, c, sendq, recvq) /\ Moved(h, 1, TRUE)
            /\ lock' = lock /\ param' = param
         \/ /\ LiveIn(sendq[c]) = {} /\ Goto(h, "idle") /\ lock' = lock /\ param' = param
            /\ NoTransfer(sq, recvq) \/ RecvBuffered(h, c, sq, recvq)
         \/ /\ ~closed[c] /\ LiveIn(sendq[c]) = {} /\ lock' = [lock EXCEPT ![c] = h]
            /\ Enqueue(h, sq, [recvq EXCEPT ![c] = Append(@, Sudog(h, 1))])
  <2>1. closed' = closed
    BY DEF chanrecv, NoTransfer, RecvDirect, RecvBuffered, Enqueue, chanVars
  <2> QED BY <2>1 DEF chanrecv, Return, Moved, Exhausted
<1> USE <1>6
<1>7. CASE NoTransfer(sendq, recvq) /\ Goto(h, "idle") /\ lock' = lock /\ param' = param
  <2>1. sendq' = sendq /\ recvq' = recvq /\ toReady' = toReady /\ selectDone' = selectDone
    BY <1>7 DEF NoTransfer
  <2> QED BY <1>4, <1>5, <1>7, <2>1, AloneW
<1>8. CASE /\ LiveIn(sendq[c]) # {} /\ RecvDirect(h, c, sendq, recvq) /\ Moved(h, 1, TRUE)
           /\ lock' = lock /\ param' = param
  BY <1>3, <1>4, <1>5, <1>8, RecvDirectW
<1>9. CASE /\ LiveIn(sendq[c]) = {} /\ Goto(h, "idle") /\ lock' = lock /\ param' = param
           /\ NoTransfer(sq, recvq) \/ RecvBuffered(h, c, sq, recvq)
  <2>1. sendq' = sq /\ recvq' = recvq /\ toReady' = toReady /\ selectDone' = selectDone
    BY <1>9 DEF NoTransfer, RecvBuffered
  <2> HIDE DEF sq
  <2> QED BY <1>4, <1>5, <1>9, <2>1, AloneW
<1>10. CASE /\ ~closed[c] /\ LiveIn(sendq[c]) = {} /\ lock' = [lock EXCEPT ![c] = h]
            /\ Enqueue(h, sq, [recvq EXCEPT ![c] = Append(@, Sudog(h, 1))])
  <2>1. /\ recvq' = [recvq EXCEPT ![c] = Append(@, Sudog(h, 1))] /\ sendq' = sq
        /\ param' = [param EXCEPT ![h] = 0] /\ toReady' = toReady /\ selectDone' = selectDone
        /\ Goto(h, "park")
    BY <1>10 DEF Enqueue
  <2>2. /\ recvq'[c] = Append(recvq[c], Sudog(h, 1)) /\ sendq'[c] = <<>>
        /\ \A b \in Channel : b # c => sendq'[b] = sendq[b] /\ recvq'[b] = recvq[b]
    BY <1>0, <1>3, <2>1 DEF DataOK, Drained
  <2>3. PICK s : s = Sudog(h, 1)
    OBVIOUS
  <2>4. /\ Qd("recv", c)' = Append(Qd("recv", c), s) /\ Qd(Other("recv"), c)' = <<>>
        /\ LiveIn(Qd(Other("recv"), c)) = {} /\ "recv" \in Dir /\ DirOf(h, 1) = "recv"
    BY <1>10, <2>2, <2>3, SMT DEF Qd, Other, Dir, DirOf
  <2>5. \A e \in Dir, b \in Channel : b # c => Qd(e, b)' = Qd(e, b)
    BY <2>2 DEF Qd
  <2> QED BY <1>3, <1>10, <2>1, <2>3, <2>4, <2>5, EnqueueW
<1> QED BY <1>7, <1>8, <1>9, <1>10

-----------------------------------------------------------------------------
(* The passes of selectgo that find a case *)

\* Polling cases whose partners are gone empties queues in which nobody waits.
LEMMA PolledLive ==
  ASSUME DataOK, NEW h, NEW P,
         \A k \in P : IF Sends(h, k) THEN LiveIn(recvq[CaseChan(h, k)]) = {}
                                     ELSE LiveIn(sendq[CaseChan(h, k)]) = {}
  PROVE  /\ LiveTrim(sendq, Drained(sendq, PolledRecv(h, P)))
         /\ LiveTrim(recvq, Drained(recvq, PolledSend(h, P)))
         /\ Drained(sendq, PolledRecv(h, P)) \in [Channel -> Seq(Sudogs)]
         /\ Drained(recvq, PolledSend(h, P)) \in [Channel -> Seq(Sudogs)]
<1>1. \A c \in Channel \cap PolledRecv(h, P) : LiveIn(sendq[c]) = {}
  BY DEF PolledRecv
<1>2. \A c \in Channel \cap PolledSend(h, P) : LiveIn(recvq[c]) = {}
  BY DEF PolledSend
<1>3. /\ Trimmed(sendq, Drained(sendq, PolledRecv(h, P)))
      /\ Trimmed(recvq, Drained(recvq, PolledSend(h, P)))
  BY DrainedTrims DEF DataOK
<1> QED BY <1>1, <1>2, <1>3, DrainedLive DEF Trimmed

\* Such are the cases that pass 1 finds not ready.
LEMMA NotReadyLive ==
  ASSUME NEW h, NEW k, ~CaseReady(h, k)
  PROVE  /\ ~closed[CaseChan(h, k)]
         /\ IF Sends(h, k) THEN LiveIn(recvq[CaseChan(h, k)]) = {}
                           ELSE LiveIn(sendq[CaseChan(h, k)]) = {}
BY DEF CaseReady

\* Pass 1 takes a case: TakeCase, then selunlock.
LEMMA TakeCaseW ==
  ASSUME NatFacts, IInv, IInv', WInv, NEW h \in Goroutine, pc[h] = "pass1", NEW i \in Cases(h),
         NEW P, \A k \in P : ~CaseReady(h, k), TakeCase(h, i, P),
         \A c \in Channel, g \in Goroutine \ {h} : lock[c] = g => lock'[c] = g,
         need' = need, call' = call, param' = param
  PROVE  WInv'
<1>0. DataOK /\ ControlOK /\ PlaceOK(h)
  BY DEF IInv
<1>1. PICK c, sq, rq, sqc, rqc :
        /\ c = CaseChan(h, i)
        /\ sq = Drained(sendq, PolledRecv(h, P)) /\ rq = Drained(recvq, PolledSend(h, P))
        /\ sqc = Drained(sendq, PolledRecv(h, P \cup {i}))
        /\ rqc = Drained(recvq, PolledSend(h, P \cup {i}))
  OBVIOUS
<1> USE <1>1
<1>2. c \in Channel /\ lock[c] = h
  BY <1>0, CaseTypes DEF PlaceOK
<1>3. /\ LiveTrim(sendq, sq) /\ LiveTrim(recvq, rq)
      /\ sq \in [Channel -> Seq(Sudogs)] /\ rq \in [Channel -> Seq(Sudogs)]
  BY <1>0, NotReadyLive, PolledLive
<1> USE <1>3
<1>4. (IF Sends(h, i) THEN LiveIn(recvq[c]) = {} ELSE LiveIn(sendq[c]) = {}) =>
        LiveTrim(sendq, sqc) /\ LiveTrim(recvq, rqc)
  <2> SUFFICES ASSUME IF Sends(h, i) THEN LiveIn(recvq[c]) = {} ELSE LiveIn(sendq[c]) = {}
               PROVE  LiveTrim(sendq, sqc) /\ LiveTrim(recvq, rqc)
    OBVIOUS
  <2>1. \A k \in P \cup {i} : IF Sends(h, k) THEN LiveIn(recvq[CaseChan(h, k)]) = {}
                                             ELSE LiveIn(sendq[CaseChan(h, k)]) = {}
    BY NotReadyLive
  <2> QED BY <1>0, <2>1, PolledLive
<1>5. closed' = closed => Around(h)
  BY DEF Around
<1>6. CASE \E s \in {sq, sqc}, r \in {rq, rqc} :
             /\ LiveTrim(sendq, s) /\ LiveTrim(recvq, r) /\ sendq' = s /\ recvq' = r
             /\ toReady' = toReady /\ selectDone' = selectDone /\ closed' = closed /\ Goto(h, "idle")
  BY <1>5, <1>6, AloneW
<1>7. CASE LiveIn(recvq[c]) # {} /\ SendDirect(h, i, c, sq, rq) /\ Moved(h, i, TRUE)
  <2>1. closed' = closed
    BY <1>7 DEF SendDirect, chanVars
  <2> QED BY <1>2, <1>5, <1>7, <2>1, SendDirectW
<1>8. CASE LiveIn(sendq[c]) # {} /\ RecvDirect(h, c, sq, rq) /\ Moved(h, i, TRUE)
  <2>1. closed' = closed
    BY <1>8 DEF RecvDirect
  <2> QED BY <1>2, <1>5, <1>8, <2>1, RecvDirectW
<1>9. \/ Return(h, "panic", i) /\ NoTransfer(sq, rq)
      \/ LiveIn(recvq[c]) # {} /\ SendDirect(h, i, c, sq, rq) /\ Moved(h, i, TRUE)
      \/ /\ Sends(h, i) /\ LiveIn(recvq[c]) = {}
         /\ SendBuffered(h, i, c, sq, rqc) /\ Moved(h, i, FALSE)
      \/ LiveIn(sendq[c]) # {} /\ RecvDirect(h, c, sq, rq) /\ Moved(h, i, TRUE)
      \/ /\ ~Sends(h, i) /\ LiveIn(sendq[c]) = {}
         /\ RecvBuffered(h, c, sqc, rq) /\ Moved(h, i, FALSE)
      \/ /\ ~Sends(h, i) /\ LiveIn(sendq[c]) = {}
         /\ Return(h, "closed", i) /\ NoTransfer(sqc, rq)
  BY DEF TakeCase
<1>10. CASE Return(h, "panic", i) /\ NoTransfer(sq, rq)
  BY <1>6, <1>10 DEF Return, NoTransfer, chanVars
<1>11. CASE /\ Sends(h, i) /\ LiveIn(recvq[c]) = {}
            /\ SendBuffered(h, i, c, sq, rqc) /\ Moved(h, i, FALSE)
  BY <1>4, <1>6, <1>11 DEF Moved, Return, SendBuffered
<1>12. CASE /\ ~Sends(h, i) /\ LiveIn(sendq[c]) = {}
            /\ RecvBuffered(h, c, sqc, rq) /\ Moved(h, i, FALSE)
  BY <1>4, <1>6, <1>12 DEF Moved, Return, RecvBuffered
<1>13. CASE /\ ~Sends(h, i) /\ LiveIn(sendq[c]) = {}
            /\ Return(h, "closed", i) /\ NoTransfer(sqc, rq)
  BY <1>4, <1>6, <1>13 DEF Return, NoTransfer, chanVars
<1> QED BY <1>7, <1>8, <1>9, <1>10, <1>11, <1>12, <1>13

LEMMA Pass1W ==
  ASSUME NatFacts, IInv, IInv', WInv, NEW h \in Goroutine, Pass1(h)
  PROVE  WInv'
<1>0. DataOK /\ ControlOK
  BY DEF IInv
<1>1. /\ pc[h] = "pass1" /\ UnlockAll(h) /\ need' = need /\ call' = call /\ param' = param
      /\ \/ \E i \in Cases(h) : \E P : (\A k \in P : ~CaseReady(h, k)) /\ TakeCase(h, i, P)
         \/ /\ \A k \in Cases(h) : ~CaseReady(h, k)
            /\ Return(h, "no", 0)
            /\ NoTransfer(Drained(sendq, PolledRecv(h, Cases(h))),
                          Drained(recvq, PolledSend(h, Cases(h))))
  BY DEF Pass1
<1>2. \A c \in Channel, g \in Goroutine \ {h} : lock[c] = g => lock'[c] = g
  BY <1>1 DEF UnlockAll
<1>3. CASE \E i \in Cases(h) : \E P : (\A k \in P : ~CaseReady(h, k)) /\ TakeCase(h, i, P)
  BY <1>1, <1>2, <1>3, TakeCaseW
<1>4. CASE /\ \A k \in Cases(h) : ~CaseReady(h, k)
           /\ Return(h, "no", 0)
           /\ NoTransfer(Drained(sendq, PolledRecv(h, Cases(h))),
                         Drained(recvq, PolledSend(h, Cases(h))))
  <2>1. PICK sq, rq : /\ sq = Drained(sendq, PolledRecv(h, Cases(h)))
                      /\ rq = Drained(recvq, PolledSend(h, Cases(h)))
    OBVIOUS
  <2>2. LiveTrim(sendq, sq) /\ LiveTrim(recvq, rq)
    BY <1>0, <1>4, <2>1, NotReadyLive, PolledLive
  <2>3. /\ sendq' = sq /\ recvq' = rq /\ toReady' = toReady /\ selectDone' = selectDone
        /\ closed' = closed /\ Goto(h, "idle")
    BY <1>4, <2>1 DEF NoTransfer, Return, chanVars
  <2>4. Around(h)
    BY <1>1, <1>2, <2>3 DEF Around
  <2> QED BY <2>2, <2>3, <2>4, AloneW
<1> QED BY <1>1, <1>3, <1>4

\* Pass 2 begins: nobody waits on the other side of a case, and no channel is closed.
LEMMA Pass2W ==
  ASSUME NatFacts, IInv, IInv', WInv, NEW h \in Goroutine, Pass2(h)
  PROVE  WInv'
<1>0. QueuesSound /\ WaitOK(h) /\ ControlOK /\ DataOK
  BY DEF WInv, IInv
<1> USE <1>0
<1>1. PICK S, R : S = PolledRecv(h, Cases(h)) /\ R = PolledSend(h, Cases(h))
  OBVIOUS
<1> USE <1>1
<1>2. /\ pc[h] = "pass1" /\ \A i \in Cases(h) : ~CaseReady(h, i)
      /\ sendq' = Drained(sendq, S) /\ recvq' = Drained(recvq, R)
      /\ param' = [param EXCEPT ![h] = 0] /\ Goto(h, "pass2")
      /\ closed' = closed /\ lock' = lock /\ need' = need /\ call' = call
      /\ toReady' = toReady /\ selectDone' = selectDone
  BY DEF Pass2, chanVars, lockVars
<1>3. LiveTrim(sendq, sendq') /\ LiveTrim(recvq, recvq')
  BY <1>2, NotReadyLive, PolledLive
<1>4. QStep(h, {})
  BY <1>3, KeptBoth, KeptTrims, TrimsQStep
<1>5. pc'[h] = "pass2" /\ \A g \in Goroutine \ {h} : pc'[g] = pc[g] /\ param'[g] = param[g]
  BY <1>2 DEF Goto, ControlOK
<1>6. Alone(h)
  BY <1>2, <1>5 DEF Alone
<1>7. Picked(h, {}) /\ Apart(h, {}) /\ toReady[h] = {}
  BY <1>2, <1>6, AloneParts DEF WaitOK
<1>8. Closes(h)
  BY <1>2 DEF Closes
<1>9. ~selectDone[h]
  BY <1>2, NoneOwn DEF Blocked
<1>10. BlockOK(h)' /\ RelockOK(h)'
  BY <1>2, <1>5, <1>9 DEF BlockOK, RelockOK, Blocked
<1>11. SignalOK(h)' /\ ReadyOK(h)'
  <2>1. SignalOK(h)'
    BY <1>2, <1>7, OwnSignal DEF WaitOK
  <2> QED BY <1>2, <1>5, <1>7, <2>1 DEF ReadyOK
<1>12. Pass2OK(h)'
  <2>1. /\ Cases(h)' = Cases(h)
        /\ \A i : CaseChan(h, i)' = CaseChan(h, i) /\ DirOf(h, i)' = DirOf(h, i)
    BY <1>2, SameCall
  <2>2. ASSUME NEW i \in Cases(h)
        PROVE  ~closed'[CaseChan(h, i)] /\ \A k : k \notin DOMAIN Qd(Other(DirOf(h, i)), CaseChan(h, i))'
    <3>1. PICK c : c = CaseChan(h, i) /\ c \in Channel
      BY CaseTypes
    <3> USE <3>1
    <3>2. ~closed'[c]
      BY <1>2, NotReadyLive
    <3>3. \A k : k \notin DOMAIN <<>>
      BY SMT
    <3>4. CASE Sends(h, i)
      <4>1. c \in R /\ Other(DirOf(h, i)) = "recv"
        BY <3>4 DEF PolledSend, DirOf, Other
      <4>2. recvq'[c] = <<>>
        BY <1>2, <4>1 DEF Drained
      <4> QED BY <2>1, <3>2, <3>3, <4>1, <4>2 DEF Qd
    <3>5. CASE ~Sends(h, i)
      <4>1. c \in S /\ Other(DirOf(h, i)) = "send"
        BY <3>5 DEF PolledRecv, DirOf, Other
      <4>2. sendq'[c] = <<>>
        BY <1>2, <4>1 DEF Drained
      <4> QED BY <2>1, <3>2, <3>3, <4>1, <4>2 DEF Qd
    <3> QED BY <3>4, <3>5
  <2> QED BY <2>1, <2>2 DEF Pass2OK
<1>13. WaitOK(h)' /\ call'[h] = call[h]
  BY <1>2, <1>10, <1>11 DEF WaitOK
<1> QED BY <1>4, <1>7, <1>8, <1>12, <1>13, StepW

-----------------------------------------------------------------------------
(* Every step, and what follows *)

\* Nothing happens.
LEMMA StutterW ==
  ASSUME WInv, UNCHANGED vars
  PROVE  WInv'
<1>1. /\ sendq' = sendq /\ recvq' = recvq /\ closed' = closed /\ lock' = lock
      /\ pc' = pc /\ call' = call /\ need' = need /\ toReady' = toReady
      /\ param' = param /\ selectDone' = selectDone
  BY DEF vars, chanVars, queueVars, lockVars, wakeVars
<1> USE <1>1
<1>2. QueuesSound' <=> QueuesSound
  BY SMT DEF QueuesSound, QueueSound, NoTwice, Its, Qd, Cases, CaseChan, Sudog, DirOf, Sends
<1>3. \A g : WaitOK(g)' <=> WaitOK(g)
  <2> SUFFICES ASSUME NEW g PROVE WaitOK(g)' <=> WaitOK(g)
    OBVIOUS
  <2>0. call'[g] = call[g]
    OBVIOUS
  <2>1. \A i : /\ Queued(g, i)' <=> Queued(g, i)
               /\ Sudog(g, i)' = Sudog(g, i)
               /\ CaseChan(g, i)' = CaseChan(g, i)
    BY <2>0, SameCall, SameQueued
  <2>2. Cases(g)' = Cases(g)
    BY <2>0, SameCall
  <2>3. Signalled(g)' <=> Signalled(g)
    BY DEF Signalled
  <2>4. BlockOK(g)' <=> BlockOK(g)
    BY <2>1, <2>2, <2>3 DEF BlockOK
  <2>5. RelockOK(g)' <=> RelockOK(g)
    BY <2>1, <2>2 DEF RelockOK
  <2>6. SignalOK(g)' <=> SignalOK(g)
    BY <2>1, <2>2, SMT DEF SignalOK
  <2>7. ReadyOK(g)' <=> ReadyOK(g)
    BY DEF ReadyOK
  <2> QED BY <2>4, <2>5, <2>6, <2>7 DEF WaitOK
<1>4. \A g : Pass2OK(g)' <=> Pass2OK(g)
  BY SMT DEF Pass2OK, Qd, Cases, CaseChan, DirOf, Sends, Other
<1>5. \A c : (ClosedOK(c)' <=> ClosedOK(c)) /\ (OppositeOK(c)' <=> OppositeOK(c))
  BY SMT DEF ClosedOK, OppositeOK, Draining, Ch
<1> QED BY <1>2, <1>3, <1>4, <1>5 DEF WInv

\* Nobody waits initially.
LEMMA InitW == Init => WInv
<1> SUFFICES ASSUME Init PROVE WInv
  OBVIOUS
<1>1. \A c \in Channel : sendq[c] = <<>> /\ recvq[c] = <<>> /\ ~closed[c]
  BY DEF Init
<1>2. \A g \in Goroutine : pc[g] = "idle" /\ toReady[g] = {} /\ ~selectDone[g] /\ call[g].cases = <<>>
  BY SMT DEF Init
<1>3. (\A k : k \notin DOMAIN <<>>) /\ NoTwice(<<>>)
  BY SMT DEF NoTwice
<1>4. QueuesSound
  BY <1>1, <1>3 DEF QueuesSound, QueueSound, Qd
<1>5. ASSUME NEW g \in Goroutine PROVE WaitOK(g) /\ Pass2OK(g)
  <2>1. \A i : i \notin Cases(g)
    BY <1>2, <1>3 DEF Cases
  <2>2. BlockOK(g) /\ RelockOK(g) /\ ReadyOK(g) /\ Pass2OK(g)
    BY <1>2, <2>1 DEF BlockOK, RelockOK, ReadyOK, Pass2OK
  <2>3. SignalOK(g)
    BY <1>2 DEF SignalOK
  <2> QED BY <2>2, <2>3 DEF WaitOK
<1>6. ASSUME NEW c \in Channel PROVE ClosedOK(c) /\ OppositeOK(c)
  BY <1>1, <1>3 DEF ClosedOK, OppositeOK
<1> QED BY <1>4, <1>5, <1>6 DEF WInv

\* Every step keeps the invariant.
LEMMA NextW ==
  ASSUME NatFacts, IInv, IInv', WInv, [Next]_vars
  PROVE  WInv'
<1>1. CASE UNCHANGED vars
  BY <1>1, StutterW
<1>2. ASSUME NEW h \in Goroutine, Run(h) PROVE WInv'
  <2>1. CASE FastSend(h) \/ FastRecv(h) \/ chansend(h) \/ chanrecv(h)
    BY <2>1, FastSendW, FastRecvW, ChansendW, ChanrecvW
  <2>2. CASE Park(h) \/ Wake(h) \/ Woken(h)
    BY <2>2, ParkW, WakeW, WokenW
  <2>3. CASE CloseBegin(h) \/ CloseDrain(h) \/ ReadyAll(h)
    BY <2>3, CloseBeginW, CloseDrainW, ReadyAllW
  <2>4. CASE sellock(h) \/ Pass1(h) \/ Pass2(h) \/ Pass3(h)
    BY <2>4, SellockW, Pass1W, Pass2W, Pass3W
  <2>5. CASE \E i \in Cases(h) : EnqueueCase(h, i) \/ dequeueSudoG(h, i)
    BY <2>5, EnqueueCaseW, DequeueSudoGW
  <2> QED BY <1>2, <2>1, <2>2, <2>3, <2>4, <2>5 DEF Run
<1>3. ASSUME NEW h \in Goroutine, Commit(h) PROVE WInv'
  BY <1>3, CommitW
<1>4. ASSUME NEW h \in Goroutine, NEW op \in Calls[h], Start(h, op) PROVE WInv'
  BY <1>4, StartW
<1> QED BY <1>1, <1>2, <1>3, <1>4 DEF Next

\* A goroutine that is not in a blocking operation has no sudog.
LEMMA WInvStale == IInv /\ WInv => NoStaleSudog
<1> SUFFICES ASSUME IInv, WInv, NEW g \in Goroutine, NEW c \in Channel,
                    pc[g] \in {"idle", "lock", "sellock", "pass1", "close"}
             PROVE  \A q \in {sendq[c], recvq[c]} : \A k \in DOMAIN q : q[k].g # g
  BY DEF NoStaleSudog
<1>1. pc[g] \notin Blocked
  BY DEF Blocked
<1>2. \A d \in Dir : \A sg : Entry(d, c, sg) => sg.g # g
  BY <1>1, NoneOwn
<1>3. Qd("send", c) = sendq[c] /\ Qd("recv", c) = recvq[c] /\ "send" \in Dir /\ "recv" \in Dir
  BY DEF Qd, Dir
<1> QED BY <1>2, <1>3 DEF Entry, In

\* Of the queues of a channel one is empty, but for a select that is in both.
LEMMA WInvQueues == IInv /\ WInv => QueueInvariants
<1> SUFFICES ASSUME IInv, WInv, NEW c \in Channel, sendq[c] # <<>>, recvq[c] # <<>>
             PROVE  /\ Cap[c] = 0
                    /\ \E g \in Goroutine :
                         \A q \in {sendq[c], recvq[c]} :
                           \A k \in DOMAIN q : q[k].g = g /\ q[k].isSelect
  BY IInvWaiters DEF QueueInvariants
<1>1. /\ sendq[c] \in Seq(Sudogs) /\ recvq[c] \in Seq(Sudogs) /\ QueuesOK(c) /\ OppositeOK(c)
  BY DEF IInv, DataOK, WInv
<1> USE <1>1
<1>2. Cap[c] = 0
  BY DEF QueuesOK
<1>3. 1 \in DOMAIN sendq[c] /\ 1 \in DOMAIN recvq[c] /\ recvq[c][1].g \in Goroutine
  <2>1. 1 \in DOMAIN sendq[c] /\ 1 \in DOMAIN recvq[c] /\ recvq[c][1] \in Sudogs
    BY SMT
  <2> QED BY <2>1 DEF Sudogs
<1>4. \A k \in DOMAIN sendq[c] : sendq[c][k].g = recvq[c][1].g /\ sendq[c][k].isSelect
  BY <1>3 DEF OppositeOK
<1>5. \A k \in DOMAIN recvq[c] : recvq[c][k].g = recvq[c][1].g /\ recvq[c][k].isSelect
  BY <1>3, <1>4 DEF OppositeOK
<1>6. PICK g \in Goroutine : g = recvq[c][1].g
  BY <1>3
<1>7. ASSUME NEW q \in {sendq[c], recvq[c]}, NEW k \in DOMAIN q PROVE q[k].g = g /\ q[k].isSelect
  <2>1. CASE q = sendq[c]
    BY <1>4, <1>6, <2>1
  <2>2. CASE q = recvq[c]
    BY <1>5, <1>6, <2>2
  <2> QED BY <1>7, <2>1, <2>2
<1> QED BY <1>2, <1>7

\* Who waits and is not about to be woken is queued everywhere, and for a reason.
LEMMA WInvWakeup == IInv /\ WInv => NoLostWakeup
<1> SUFFICES ASSUME IInv, WInv, NEW g \in Goroutine, pc[g] = "waiting", ~Signalled(g),
                    NEW i \in Cases(g)
             PROVE  LET c == CaseChan(g, i)
                        q == IF Sends(g, i) THEN sendq[c] ELSE recvq[c] IN
                    /\ \E k \in DOMAIN q : q[k] = Sudog(g, i) /\ Live(q[k])
                    /\ ~Draining(c) =>
                         /\ ~closed[c]
                         /\ IF Sends(g, i) THEN qcount[c] = Cap[c] /\ ~LiveOther(recvq[c], g)
                            ELSE qcount[c] = 0 /\ ~LiveOther(sendq[c], g)
  BY DEF NoLostWakeup
<1>0. BlockOK(g) /\ ControlOK
  BY DEF WInv, WaitOK, IInv
<1>1. PICK c : c = CaseChan(g, i)
  OBVIOUS
<1> USE <1>1
<1>2. c \in Channel
  BY <1>0, CaseTypes
<1>3. QueuesOK(c) /\ ClosedOK(c) /\ OppositeOK(c)
  BY <1>2 DEF WInv, IInv, DataOK
<1> USE <1>3
<1>4. Queued(g, i) /\ ~selectDone[g]
  BY <1>0 DEF BlockOK
<1> USE <1>4
<1>5. Sudog(g, i).g = g
  BY SMT DEF Sudog
<1>6. Live(Sudog(g, i))
  BY <1>5 DEF Live
<1>7. \E k \in DOMAIN Queue(g, i) : Queue(g, i)[k] = Sudog(g, i) /\ Live(Queue(g, i)[k])
  BY <1>6 DEF Queued
<1>8. \A k : k \notin DOMAIN <<>>
  BY SMT
<1>9. \A k \in DOMAIN sendq[c], m \in DOMAIN recvq[c] : sendq[c][k].g = recvq[c][m].g
  BY DEF OppositeOK
<1>10. CASE Sends(g, i)
  <2>1. PICK k \in DOMAIN sendq[c] : sendq[c][k] = Sudog(g, i)
    BY <1>10 DEF Queued, Queue
  <2>2. sendq[c] # <<>>
    BY <1>8, <2>1
  <2>3. qcount[c] = Cap[c] /\ (~Draining(c) => ~closed[c])
    BY <2>2 DEF QueuesOK, ClosedOK
  <2>4. ~LiveOther(recvq[c], g)
    <3>1. \A m \in DOMAIN recvq[c] : recvq[c][m].g = g
      BY <1>5, <1>9, <2>1
    <3> QED BY <3>1 DEF LiveOther, LiveIn
  <2> QED BY <1>7, <1>10, <2>3, <2>4 DEF Queue
<1>11. CASE ~Sends(g, i)
  <2>1. PICK k \in DOMAIN recvq[c] : recvq[c][k] = Sudog(g, i)
    BY <1>11 DEF Queued, Queue
  <2>2. recvq[c] # <<>>
    BY <1>8, <2>1
  <2>3. qcount[c] = 0 /\ (~Draining(c) => ~closed[c])
    BY <2>2 DEF QueuesOK, ClosedOK
  <2>4. ~LiveOther(sendq[c], g)
    <3>1. \A m \in DOMAIN sendq[c] : sendq[c][m].g = g
      BY <1>5, <1>9, <2>1
    <3> QED BY <3>1 DEF LiveOther, LiveIn
  <2> QED BY <1>7, <1>11, <2>3, <2>4 DEF Queue
<1> QED BY <1>10, <1>11

=============================================================================
