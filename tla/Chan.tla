-------------------------------- MODULE Chan --------------------------------
(***************************************************************************)
(* Channels and select (runtime/chan.go, runtime/select.go).               *)
(*                                                                         *)
(* Goroutines call channel operations; a channel is an hchan: a ring       *)
(* buffer, two queues of waiting sudogs, a closed flag and a lock.  The    *)
(* section a send, receive or close runs under the one channel lock it     *)
(* takes is a single step, except where other code can look inside it:     *)
(* the unlocked reads of the non-blocking fast paths see closechan halfway *)
(* and a parked goroutine is made ready after the lock is dropped.  Select *)
(* takes and drops its locks one at a time.                                *)
(***************************************************************************)
EXTENDS Integers, Sequences, FiniteSets

CONSTANTS Goroutine,  \* goroutines
          Channel,    \* channel addresses: positive numbers, the sort keys
          Cap,        \* dataqsiz of each channel
          Calls,      \* the operations each goroutine may call
          MaxCalls    \* bound on the calls of one goroutine

Nil == 0        \* the nil channel
Zero == <<>>    \* the zero value of the element type
Old == <<"old">>  \* what a variable held before a receive into it
Free == "free"  \* an unlocked mutex

Dir == {"send", "recv"}
Case == [dir : Dir, c : Channel \cup {Nil}]
Call == [kind : {"chan", "select", "close"}, cases : Seq(Case), block : BOOLEAN]

\* Only a select has more or less than one case.
ASSUME CallsAssumption ==
  /\ Calls \in [Goroutine -> SUBSET Call]
  /\ \A g \in Goroutine : \A op \in Calls[g] : op.kind # "select" => Len(op.cases) = 1

ASSUME ChanAssumption ==
  /\ Channel \subseteq Nat \ {Nil}
  /\ Cap \in [Channel -> Nat]
  /\ Free \notin Goroutine
  /\ MaxCalls \in Nat

VARIABLES
  qcount, sendx, recvx, buf,  \* the ring buffer of each hchan
  closed,                     \* hchan.closed
  sendq, recvq,               \* hchan.sendq, recvq: sequences of sudogs
  lock,                       \* hchan.lock: its holder or Free
  pc, call, calls,            \* per goroutine: label, current call, calls made
  need,                       \* sellock: channels still to lock
  commit,                     \* selparkcommit: channels still to unlock
  toReady,                    \* sudogs to make ready once the lock is dropped
  param, success,             \* g.param (the case it names) and its sudog.success
  selectDone,                 \* g.selectDone
  got,                        \* the memory a receive writes its element to
  res, chosen,                \* outcome of the last call, and the case it took
  accepted, delivered         \* history: elements a channel took in, gave out

chanVars == <<qcount, sendx, recvx, buf, closed>>
queueVars == <<sendq, recvq>>
lockVars == <<lock, need, commit>>
wakeVars == <<param, success, selectDone>>
histVars == <<accepted, delivered>>
vars == <<chanVars, queueVars, lockVars, pc, call, calls, toReady,
          wakeVars, got, res, chosen, histVars>>

Init ==
  /\ qcount = [c \in Channel |-> 0]
  /\ sendx = [c \in Channel |-> 0] /\ recvx = [c \in Channel |-> 0]
  /\ buf = [c \in Channel |-> [i \in 0 .. Cap[c] - 1 |-> Zero]]
  /\ closed = [c \in Channel |-> FALSE]
  /\ sendq = [c \in Channel |-> <<>>] /\ recvq = [c \in Channel |-> <<>>]
  /\ lock = [c \in Channel |-> Free]
  /\ pc = [g \in Goroutine |-> "idle"]
  /\ call = [g \in Goroutine |-> [kind |-> "select", cases |-> <<>>, block |-> TRUE]]
  /\ calls = [g \in Goroutine |-> 0]
  /\ need = [g \in Goroutine |-> <<>>] /\ commit = [g \in Goroutine |-> <<>>]
  /\ toReady = [g \in Goroutine |-> {}]
  /\ param = [g \in Goroutine |-> 0] /\ success = [g \in Goroutine |-> FALSE]
  /\ selectDone = [g \in Goroutine |-> FALSE]
  /\ got = [g \in Goroutine |-> Old]
  /\ res = [g \in Goroutine |-> "none"] /\ chosen = [g \in Goroutine |-> 0]
  /\ accepted = [c \in Channel |-> <<>>] /\ delivered = [c \in Channel |-> <<>>]

Goto(g, label) == pc' = [pc EXCEPT ![g] = label]

\* The call returns: r is its outcome, i the case of call[g] it took.
Return(g, r, i) ==
  /\ Goto(g, "idle")
  /\ res' = [res EXCEPT ![g] = r]
  /\ chosen' = [chosen EXCEPT ![g] = i]

\* The element goroutine g sends in case i, different for every call.
Elem(g, i) == <<g, calls[g], i>>

-----------------------------------------------------------------------------
(* Queues of sudogs.  A sudog names its goroutine, its case and isSelect.  *)

Sudog(g, i) == [g |-> g, i |-> i, isSelect |-> call[g].kind = "select"]

\* dequeue returns the first sudog whose goroutine nobody has signalled yet,
\* and drops the ones before it.  (LiveUnchecked: without the compare-and-swap
\* on selectDone.)
LiveUnchecked(sg) == TRUE
Live(sg) == sg.isSelect => ~selectDone[sg.g]
LiveIn(q) == {i \in DOMAIN q : Live(q[i])}
FirstLive(q) == CHOOSE i \in LiveIn(q) : \A j \in LiveIn(q) : i <= j
Rest(q) == IF LiveIn(q) = {} THEN <<>> ELSE SubSeq(q, FirstLive(q) + 1, Len(q))

\* The compare-and-swap of dequeue for the sudogs it returns.
SetDone(sgs) ==
  selectDone' = [g \in Goroutine |->
                   selectDone[g] \/ \E sg \in sgs : sg.g = g /\ sg.isSelect]

\* Everything a loop of dequeue calls returns: of a select that waits on the
\* queue with several cases, only the first.  (OneLive: a single call.)
OneLive(q) == IF LiveIn(q) = {} THEN {} ELSE {q[FirstLive(q)]}
AllLive(q) ==
  {q[i] : i \in {k \in LiveIn(q) :
                   q[k].isSelect => \A j \in 1 .. k - 1 : q[j].g # q[k].g}}

\* full and empty: one read of the state, without the lock.
full(c) == IF Cap[c] = 0 THEN recvq[c] = <<>> ELSE qcount[c] = Cap[c]
empty(c) == IF Cap[c] = 0 THEN sendq[c] = <<>> ELSE qcount[c] = 0

-----------------------------------------------------------------------------
(* The four ways an element moves, shared by chansend, chanrecv and        *)
(* selectgo.  sq and rq are the queues as the caller leaves them.          *)

NextSlot(c, x) == IF x + 1 = Cap[c] THEN 0 ELSE x + 1

\* send: hand the element to a waiting receiver.
SendDirect(g, i, c, sq, rq) ==
  LET sg == rq[c][FirstLive(rq[c])] IN
  /\ recvq' = [rq EXCEPT ![c] = Rest(@)] /\ sendq' = sq
  /\ SetDone({sg})
  /\ got' = [got EXCEPT ![sg.g] = Elem(g, i)]
  /\ toReady' = [toReady EXCEPT ![g] = {sg}]
  /\ accepted' = [accepted EXCEPT ![c] = Append(@, Elem(g, i))]
  /\ delivered' = [delivered EXCEPT ![c] = Append(@, Elem(g, i))]
  /\ UNCHANGED chanVars

\* Put the element into the buffer.
SendBuffered(g, i, c, sq, rq) ==
  /\ buf' = [buf EXCEPT ![c][sendx[c]] = Elem(g, i)]
  /\ sendx' = [sendx EXCEPT ![c] = NextSlot(c, @)]
  /\ qcount' = [qcount EXCEPT ![c] = @ + 1]
  /\ accepted' = [accepted EXCEPT ![c] = Append(@, Elem(g, i))]
  /\ sendq' = sq /\ recvq' = rq
  /\ UNCHANGED <<recvx, closed, delivered, got, toReady, selectDone>>

\* The element recv takes: of a waiting sender, or the head of the full
\* buffer.  (SenderFirst: always the sender's.)
SenderFirst(c, sg) == Elem(sg.g, sg.i)
OldestElem(c, sg) == IF Cap[c] = 0 THEN Elem(sg.g, sg.i) ELSE buf[c][recvx[c]]

\* The count after recv with a waiting sender: its element takes the slot
\* that became free.  (SlotLost: as if the slot stayed free.)
SlotLost(c) == IF Cap[c] = 0 THEN 0 ELSE qcount[c] - 1
CountKept(c) == qcount[c]

\* recv: take an element when a sender waits.
RecvDirect(g, c, sq, rq) ==
  LET sg == sq[c][FirstLive(sq[c])]
      v == OldestElem(c, sg) IN
  /\ sendq' = [sq EXCEPT ![c] = Rest(@)] /\ recvq' = rq
  /\ SetDone({sg})
  /\ got' = [got EXCEPT ![g] = v]
  /\ IF Cap[c] = 0
     THEN UNCHANGED <<buf, recvx, sendx>>
     ELSE /\ buf' = [buf EXCEPT ![c][recvx[c]] = Elem(sg.g, sg.i)]
          /\ recvx' = [recvx EXCEPT ![c] = NextSlot(c, @)]
          /\ sendx' = [sendx EXCEPT ![c] = NextSlot(c, recvx[c])]
  /\ qcount' = [qcount EXCEPT ![c] = CountKept(c)]
  /\ toReady' = [toReady EXCEPT ![g] = {sg}]
  /\ accepted' = [accepted EXCEPT ![c] = Append(@, Elem(sg.g, sg.i))]
  /\ delivered' = [delivered EXCEPT ![c] = Append(@, v)]
  /\ UNCHANGED closed

\* Take the element at the head of the buffer and clear its slot.
RecvBuffered(g, c, sq, rq) ==
  /\ got' = [got EXCEPT ![g] = buf[c][recvx[c]]]
  /\ delivered' = [delivered EXCEPT ![c] = Append(@, buf[c][recvx[c]])]
  /\ buf' = [buf EXCEPT ![c][recvx[c]] = Zero]
  /\ recvx' = [recvx EXCEPT ![c] = NextSlot(c, @)]
  /\ qcount' = [qcount EXCEPT ![c] = @ - 1]
  /\ sendq' = sq /\ recvq' = rq
  /\ UNCHANGED <<sendx, closed, accepted, toReady, selectDone>>

\* No element moves.
NoTransfer(sq, rq) ==
  /\ sendq' = sq /\ recvq' = rq
  /\ UNCHANGED <<chanVars, toReady, selectDone, histVars>>

-----------------------------------------------------------------------------
(* Calls.  A plain operation has one case; its channel is Ch(g).           *)

Ch(g) == call[g].cases[1].c
Sends(g, i) == call[g].cases[i].dir = "send"
CaseChan(g, i) == call[g].cases[i].c

\* The cases of a select that have a channel.
Cases(g) == {i \in DOMAIN call[g].cases : CaseChan(g, i) # Nil}

\* The channels of those cases in lock order, one entry per case, as SelectOrder
\* computes it.  (CaseOrders: in any order.)
NCases(cases, C) == Cardinality({i \in DOMAIN cases : cases[i].c \in C})
Arrangements(cases) ==
  {s \in [1 .. NCases(cases, Channel) -> Channel] :
     \A c \in Channel : Cardinality({k \in DOMAIN s : s[k] = c}) = NCases(cases, {c})}
CaseOrders(cases) == Arrangements(cases)
LockOrders(cases) == {s \in Arrangements(cases) : \A k \in DOMAIN s : \A m \in 1 .. k : s[m] <= s[k]}

\* Past the entries of the channel at the head: sellock and selparkcommit touch
\* a channel's lock once, however many cases name it.
PastHead(s) ==
  LET n == CHOOSE m \in 1 .. Len(s) :
             /\ \A k \in 1 .. m : s[k] = s[1]
             /\ m < Len(s) => s[m + 1] # s[1]
  IN SubSeq(s, n + 1, Len(s))

Locked(g) == {c \in Channel : lock[c] = g}
UnlockAll(g) == lock' = [c \in Channel |-> IF lock[c] = g THEN Free ELSE lock[c]]

\* A goroutine calls an operation; a nil channel never gets as far as a lock.
Start(g, op) ==
  /\ pc[g] = "idle" /\ calls[g] < MaxCalls
  /\ call' = [call EXCEPT ![g] = op]
  /\ calls' = [calls EXCEPT ![g] = @ + 1]
  /\ got' = [got EXCEPT ![g] = Old]
  /\ chosen' = [chosen EXCEPT ![g] = 0]
  /\ \E s \in LockOrders(op.cases) :
       need' = [need EXCEPT ![g] = IF op.kind = "select" THEN s ELSE <<>>]
  /\ LET nil == op.kind # "select" /\ op.cases[1].c = Nil
         next == IF op.kind = "select" THEN IF need'[g] = <<>> THEN "pass1" ELSE "sellock"
                 ELSE IF op.kind = "close" THEN IF nil THEN "idle" ELSE "close"
                 ELSE IF nil THEN IF op.block THEN "forever" ELSE "idle"
                 ELSE IF op.block THEN "lock"
                 ELSE IF op.cases[1].dir = "send" THEN "fastSend" ELSE "fastRecv" IN
     /\ Goto(g, next)
     /\ res' = [res EXCEPT ![g] =
                  IF next # "idle" THEN "none" ELSE IF op.kind = "close" THEN "panic" ELSE "no"]
  /\ UNCHANGED <<chanVars, queueVars, lock, commit, toReady, wakeVars, histVars>>

-----------------------------------------------------------------------------
(* The fast paths of non-blocking operations: reads without the lock.      *)

Read(g, next) ==
  /\ Goto(g, next)
  /\ UNCHANGED <<chanVars, queueVars, lockVars, call, calls, toReady, wakeVars, got,
                 res, chosen, histVars>>

ReturnOnly(g, r) ==
  /\ Return(g, r, 0)
  /\ UNCHANGED <<chanVars, queueVars, lockVars, call, calls, toReady, wakeVars, got, histVars>>

\* chansend: c.closed == 0 && full(c), in either order.  (FullOnly: c.closed is
\* not read.)
FullOnly(g) ==
  \/ pc[g] = "fastSend" /\ full(Ch(g)) /\ ReturnOnly(g, "no")
  \/ pc[g] = "fastSend" /\ ~full(Ch(g)) /\ Read(g, "lock")
FastSend(g) ==
  LET c == Ch(g) IN
  \/ pc[g] = "fastSend" /\ Read(g, IF closed[c] THEN "lock" ELSE "thenFull")
  \/ pc[g] = "fastSend" /\ Read(g, IF full(c) THEN "thenClosed" ELSE "lock")
  \/ pc[g] = "thenFull" /\ full(c) /\ ReturnOnly(g, "no")
  \/ pc[g] = "thenFull" /\ ~full(c) /\ Read(g, "lock")
  \/ pc[g] = "thenClosed" /\ ~closed[c] /\ ReturnOnly(g, "no")
  \/ pc[g] = "thenClosed" /\ closed[c] /\ Read(g, "lock")

\* chanrecv: empty(c), then c.closed, then empty(c) again.  (FastReordered:
\* c.closed first.)
FastReordered(g) ==
  LET c == Ch(g) IN
  \/ pc[g] = "fastRecv" /\ Read(g, IF closed[c] THEN "lock" ELSE "rclosed")
  \/ pc[g] = "rclosed" /\ empty(c) /\ ReturnOnly(g, "no")
  \/ pc[g] = "rclosed" /\ ~empty(c) /\ Read(g, "lock")
FastRecv(g) ==
  LET c == Ch(g) IN
  \/ pc[g] = "fastRecv" /\ Read(g, IF empty(c) THEN "rclosed" ELSE "lock")
  \/ pc[g] = "rclosed" /\ ~closed[c] /\ ReturnOnly(g, "no")
  \/ pc[g] = "rclosed" /\ closed[c] /\ Read(g, "rempty")
  \/ pc[g] = "rempty" /\ ~empty(c) /\ Read(g, "lock")
  \/ /\ pc[g] = "rempty" /\ empty(c)
     /\ Return(g, "closed", 1)
     /\ got' = [got EXCEPT ![g] = Zero]
     /\ UNCHANGED <<chanVars, queueVars, lockVars, call, calls, toReady, wakeVars, histVars>>

-----------------------------------------------------------------------------
(* chansend and chanrecv under the channel lock.                           *)

\* The queues of C hold no live sudog and dequeue has emptied them.
\* (Undrained: it left the dead ones.)
Undrained(q, C) == q
Drained(q, C) == [c \in Channel |-> IF c \in C THEN <<>> ELSE q[c]]

\* The element has moved: make the partner ready, if there is one, or return.
Moved(g, i, handoff) ==
  IF handoff
  THEN Goto(g, "wake") /\ chosen' = [chosen EXCEPT ![g] = i] /\ UNCHANGED res
  ELSE Return(g, "ok", i)

\* Queue up and keep the lock until the goroutine counts as waiting.
Enqueue(g, sq, rq) ==
  /\ sendq' = sq /\ recvq' = rq
  /\ param' = [param EXCEPT ![g] = 0]
  /\ Goto(g, "park")
  /\ UNCHANGED <<chanVars, toReady, success, selectDone, got, res, chosen, histVars>>

chansend(g) ==
  LET c == Ch(g)
      live == LiveIn(recvq[c]) # {}
      rq == Drained(recvq, {c}) IN
  /\ pc[g] = "lock" /\ Sends(g, 1) /\ lock[c] = Free
  /\ \/ /\ closed[c]
        /\ Return(g, "panic", 1) /\ NoTransfer(sendq, recvq)
        /\ UNCHANGED <<lock, param, success, got>>
     \/ /\ ~closed[c] /\ live
        /\ SendDirect(g, 1, c, sendq, recvq) /\ Moved(g, 1, TRUE)
        /\ UNCHANGED <<lock, param, success>>
     \/ /\ ~closed[c] /\ ~live /\ qcount[c] < Cap[c]
        /\ SendBuffered(g, 1, c, sendq, rq) /\ Moved(g, 1, FALSE)
        /\ UNCHANGED <<lock, param, success>>
     \/ /\ ~closed[c] /\ ~live /\ qcount[c] = Cap[c] /\ ~call[g].block
        /\ Return(g, "no", 0) /\ NoTransfer(sendq, rq)
        /\ UNCHANGED <<lock, param, success, got>>
     \/ /\ ~closed[c] /\ ~live /\ qcount[c] = Cap[c] /\ call[g].block
        /\ Enqueue(g, [sendq EXCEPT ![c] = Append(@, Sudog(g, 1))], rq)
        /\ lock' = [lock EXCEPT ![c] = g]
  /\ UNCHANGED <<need, commit, call, calls>>

\* A receive finds the channel closed for good once it is empty too.
\* (ClosedAtOnce: as soon as it is closed.)
ClosedAtOnce(c) == closed[c]
Exhausted(c) == closed[c] /\ qcount[c] = 0

chanrecv(g) ==
  LET c == Ch(g)
      live == LiveIn(sendq[c]) # {}
      sq == Drained(sendq, {c})
      done == Exhausted(c) IN
  /\ pc[g] = "lock" /\ ~Sends(g, 1) /\ lock[c] = Free
  /\ \/ /\ done
        /\ Return(g, "closed", 1) /\ NoTransfer(sendq, recvq)
        /\ got' = [got EXCEPT ![g] = Zero]
        /\ UNCHANGED <<lock, param, success>>
     \/ /\ ~done /\ live
        /\ RecvDirect(g, c, sendq, recvq) /\ Moved(g, 1, TRUE)
        /\ UNCHANGED <<lock, param, success>>
     \/ /\ ~done /\ ~live /\ qcount[c] > 0
        /\ RecvBuffered(g, c, sq, recvq) /\ Moved(g, 1, FALSE)
        /\ UNCHANGED <<lock, param, success>>
     \/ /\ ~done /\ ~live /\ qcount[c] = 0 /\ ~call[g].block
        /\ Return(g, "no", 0) /\ NoTransfer(sq, recvq)
        /\ UNCHANGED <<lock, param, success, got>>
     \/ /\ ~done /\ ~live /\ qcount[c] = 0 /\ call[g].block
        /\ Enqueue(g, sq, [recvq EXCEPT ![c] = Append(@, Sudog(g, 1))])
        /\ lock' = [lock EXCEPT ![c] = g]
  /\ UNCHANGED <<need, commit, call, calls>>

-----------------------------------------------------------------------------
(* Parking and waking.                                                     *)

\* The rest of gp.waiting once a channel is unlocked.  (NextSudog: only its
\* first sudog is passed.)
NextSudog(s) == Tail(s)
NextChannel(s) == PastHead(s)

\* gopark: the goroutine is waiting before the first lock is dropped;
\* chanparkcommit and selparkcommit then unlock in lock order.
Unlock(g, s) ==
  IF s = <<>>
  THEN UNCHANGED lock /\ commit' = [commit EXCEPT ![g] = <<>>]
  ELSE /\ lock' = [lock EXCEPT ![Head(s)] = Free]
       /\ commit' = [commit EXCEPT ![g] = NextChannel(s)]

\* Whether the sudog of a case is in the queue of its channel.
Queue(g, i) == IF Sends(g, i) THEN sendq[CaseChan(g, i)] ELSE recvq[CaseChan(g, i)]
Queued(g, i) == \E k \in DOMAIN Queue(g, i) : Queue(g, i)[k] = Sudog(g, i)

Park(g) ==
  /\ \/ pc[g] = "park"
     \/ pc[g] = "pass2" /\ \A i \in Cases(g) : Queued(g, i)
  /\ Goto(g, "waiting")
  /\ \E s \in LockOrders(call[g].cases) :
       /\ Unlock(g, s)
       /\ need' = [need EXCEPT ![g] = IF call[g].kind = "select" THEN s ELSE <<>>]
  /\ UNCHANGED <<chanVars, queueVars, call, calls, toReady, wakeVars, got, res, chosen, histVars>>

Commit(g) ==
  /\ commit[g] # <<>>
  /\ Unlock(g, commit[g])
  /\ UNCHANGED <<chanVars, queueVars, need, pc, call, calls, toReady, wakeVars, got,
                 res, chosen, histVars>>

\* Where a goroutine made ready continues; ready throws unless it is waiting.
Resume(h) == IF call[h].kind = "select" THEN "relock" ELSE "woken"

\* What send and recv tell the goroutine they wake.
Signal(sg) ==
  /\ param' = [param EXCEPT ![sg.g] = sg.i]
  /\ success' = [success EXCEPT ![sg.g] = TRUE]

\* The end of send and recv, after the unlock.
Wake(g) ==
  /\ pc[g] = "wake"
  /\ \E sg \in toReady[g] :
       /\ Signal(sg)
       /\ IF pc[sg.g] = "waiting"
          THEN pc' = [pc EXCEPT ![g] = "idle", ![sg.g] = Resume(sg.g)]
          ELSE Goto(g, "throw")
  /\ toReady' = [toReady EXCEPT ![g] = {}]
  /\ res' = [res EXCEPT ![g] = "ok"]
  /\ UNCHANGED <<chanVars, queueVars, lockVars, call, calls, selectDone, got, chosen, histVars>>

\* chansend and chanrecv after gopark returns.
Woken(g) ==
  LET closedSend == Sends(g, 1) /\ ~success[g] IN
  /\ pc[g] = "woken"
  /\ param' = [param EXCEPT ![g] = 0]
  /\ IF closedSend /\ ~closed[Ch(g)]
     THEN Goto(g, "throw") /\ UNCHANGED <<res, chosen>>
     ELSE Return(g, IF closedSend THEN "panic" ELSE IF success[g] THEN "ok" ELSE "closed", 1)
  /\ UNCHANGED <<chanVars, queueVars, lockVars, call, calls, toReady, success, selectDone,
                 got, histVars>>

-----------------------------------------------------------------------------
(* closechan: closed is set under the lock before the queues are drained.  *)

CloseBegin(g) ==
  LET c == Ch(g) IN
  /\ pc[g] = "close" /\ lock[c] = Free
  /\ \/ /\ closed[c] /\ Return(g, "panic", 1)
        /\ UNCHANGED <<closed, lock>>
     \/ /\ ~closed[c] /\ Goto(g, "drain")
        /\ closed' = [closed EXCEPT ![c] = TRUE]
        /\ lock' = [lock EXCEPT ![c] = g]
        /\ UNCHANGED <<res, chosen>>
  /\ UNCHANGED <<qcount, sendx, recvx, buf, queueVars, need, commit, call, calls, toReady,
                 wakeVars, got, histVars>>

\* Readers first: a select waiting to receive and to send gets the receive.
CloseDrain(g) ==
  LET c == Ch(g)
      readers == AllLive(recvq[c])
      writers == {sg \in AllLive(sendq[c]) :
                    sg.isSelect => \A r \in readers : r.g # sg.g}
      released == readers \cup writers
      Of(h) == CHOOSE sg \in released : sg.g = h
      who == {sg.g : sg \in released} IN
  /\ pc[g] = "drain"
  /\ recvq' = [recvq EXCEPT ![c] = <<>>] /\ sendq' = [sendq EXCEPT ![c] = <<>>]
  /\ SetDone(released)
  /\ param' = [h \in Goroutine |-> IF h \in who THEN Of(h).i ELSE param[h]]
  /\ success' = [h \in Goroutine |-> success[h] /\ h \notin who]
  /\ got' = [h \in Goroutine |-> IF \E r \in readers : r.g = h THEN Zero ELSE got[h]]
  /\ toReady' = [toReady EXCEPT ![g] = released]
  /\ lock' = [lock EXCEPT ![c] = Free]
  /\ Goto(g, "readyAll")
  /\ UNCHANGED <<chanVars, need, commit, call, calls, res, chosen, histVars>>

ReadyAll(g) ==
  /\ pc[g] = "readyAll"
  /\ \/ /\ toReady[g] = {}
        /\ Return(g, "ok", 1) /\ UNCHANGED toReady
     \/ \E sg \in toReady[g] :
          /\ toReady' = [toReady EXCEPT ![g] = @ \ {sg}]
          /\ IF pc[sg.g] = "waiting" THEN Goto(sg.g, Resume(sg.g)) ELSE Goto(g, "throw")
          /\ UNCHANGED <<res, chosen>>
  /\ UNCHANGED <<chanVars, queueVars, lockVars, call, calls, wakeVars, got, histVars>>

-----------------------------------------------------------------------------
(* selectgo.                                                               *)

\* sellock, before pass 1 and again after the wakeup.
sellock(g) ==
  /\ pc[g] \in {"sellock", "relock"} /\ need[g] # <<>>
  /\ lock[Head(need[g])] = Free
  /\ lock' = [lock EXCEPT ![Head(need[g])] = g]
  /\ need' = [need EXCEPT ![g] = PastHead(need[g])]
  /\ Goto(g, IF need'[g] # <<>> THEN pc[g] ELSE IF pc[g] = "sellock" THEN "pass1" ELSE "pass3")
  /\ UNCHANGED <<chanVars, queueVars, commit, call, calls, toReady, wakeVars, got, res, chosen,
                 histVars>>

\* Pass 1: the cases that can proceed, and what polling the others does.
CaseReady(g, i) ==
  LET c == CaseChan(g, i) IN
  IF Sends(g, i)
  THEN closed[c] \/ LiveIn(recvq[c]) # {} \/ qcount[c] < Cap[c]
  ELSE closed[c] \/ LiveIn(sendq[c]) # {} \/ qcount[c] > 0

PolledRecv(g, P) == {CaseChan(g, i) : i \in {k \in P : ~Sends(g, k)}}
PolledSend(g, P) == {CaseChan(g, i) : i \in {k \in P : Sends(g, k)}}

\* Case i is taken after the cases of P were polled and could not proceed.
TakeCase(g, i, P) ==
  LET c == CaseChan(g, i)
      sq == Drained(sendq, PolledRecv(g, P))
      rq == Drained(recvq, PolledSend(g, P))
      sqc == Drained(sendq, PolledRecv(g, P \cup {i}))
      rqc == Drained(recvq, PolledSend(g, P \cup {i})) IN
  \/ /\ Sends(g, i) /\ closed[c]
     /\ Return(g, "panic", i) /\ NoTransfer(sq, rq) /\ UNCHANGED got
  \/ /\ Sends(g, i) /\ ~closed[c] /\ LiveIn(recvq[c]) # {}
     /\ SendDirect(g, i, c, sq, rq) /\ Moved(g, i, TRUE)
  \/ /\ Sends(g, i) /\ ~closed[c] /\ LiveIn(recvq[c]) = {} /\ qcount[c] < Cap[c]
     /\ SendBuffered(g, i, c, sq, rqc) /\ Moved(g, i, FALSE)
  \/ /\ ~Sends(g, i) /\ LiveIn(sendq[c]) # {}
     /\ RecvDirect(g, c, sq, rq) /\ Moved(g, i, TRUE)
  \/ /\ ~Sends(g, i) /\ LiveIn(sendq[c]) = {} /\ qcount[c] > 0
     /\ RecvBuffered(g, c, sqc, rq) /\ Moved(g, i, FALSE)
  \/ /\ ~Sends(g, i) /\ LiveIn(sendq[c]) = {} /\ qcount[c] = 0 /\ closed[c]
     /\ Return(g, "closed", i) /\ NoTransfer(sqc, rq)
     /\ got' = [got EXCEPT ![g] = Zero]

Pass1(g) ==
  LET ready == {i \in Cases(g) : CaseReady(g, i)} IN
  /\ pc[g] = "pass1"
  /\ \/ \E i \in ready, P \in SUBSET (Cases(g) \ ready) : TakeCase(g, i, P)
     \/ /\ ready = {} /\ ~call[g].block
        /\ Return(g, "no", 0) /\ UNCHANGED got
        /\ NoTransfer(Drained(sendq, PolledRecv(g, Cases(g))),
                      Drained(recvq, PolledSend(g, Cases(g))))
  /\ UnlockAll(g)
  /\ UNCHANGED <<need, commit, call, calls, param, success>>

\* Pass 2: no case can proceed; a sudog goes on every queue, in lock order.
Pass2(g) ==
  /\ pc[g] = "pass1" /\ call[g].block
  /\ \A i \in Cases(g) : ~CaseReady(g, i)
  /\ sendq' = Drained(sendq, PolledRecv(g, Cases(g)))
  /\ recvq' = Drained(recvq, PolledSend(g, Cases(g)))
  /\ param' = [param EXCEPT ![g] = 0]
  /\ Goto(g, "pass2")
  /\ UNCHANGED <<chanVars, lockVars, call, calls, toReady, success, selectDone, got, res, chosen,
                 histVars>>

EnqueueCase(g, i) ==
  LET c == CaseChan(g, i) IN
  /\ pc[g] = "pass2" /\ ~Queued(g, i)
  /\ \A k \in Cases(g) : ~Queued(g, k) => c <= CaseChan(g, k)
  /\ IF Sends(g, i)
     THEN sendq' = [sendq EXCEPT ![c] = Append(@, Sudog(g, i))] /\ UNCHANGED recvq
     ELSE recvq' = [recvq EXCEPT ![c] = Append(@, Sudog(g, i))] /\ UNCHANGED sendq
  /\ UNCHANGED <<chanVars, lockVars, pc, call, calls, toReady, wakeVars, got, res, chosen, histVars>>

\* Pass 3: leave the queues of the cases that were not chosen, in lock order.
Unlinked(q, k) == SubSeq(q, 1, k - 1) \o SubSeq(q, k + 1, Len(q))

dequeueSudoG(g, i) ==
  LET c == CaseChan(g, i) IN
  /\ pc[g] = "pass3" /\ i # param[g] /\ Queued(g, i)
  /\ \A k \in Cases(g) : Queued(g, k) => c <= CaseChan(g, k)
  /\ \E k \in DOMAIN Queue(g, i) :
       /\ Queue(g, i)[k] = Sudog(g, i)
       /\ IF Sends(g, i)
          THEN sendq' = [sendq EXCEPT ![c] = Unlinked(@, k)] /\ UNCHANGED recvq
          ELSE recvq' = [recvq EXCEPT ![c] = Unlinked(@, k)] /\ UNCHANGED sendq
  /\ selectDone' = [selectDone EXCEPT ![g] = FALSE]
  /\ UNCHANGED <<chanVars, lockVars, pc, call, calls, toReady, param, success, got, res, chosen,
                 histVars>>

\* The loop of pass 3 is through.  (LeftEarly: it may end with sudogs queued.)
LeftEarly(g) == TRUE
AllUnlinked(g) == \A k \in Cases(g) \ {param[g]} : ~Queued(g, k)

Pass3(g) ==
  LET i == param[g] IN
  /\ pc[g] = "pass3" /\ AllUnlinked(g)
  /\ selectDone' = [selectDone EXCEPT ![g] = FALSE]
  /\ param' = [param EXCEPT ![g] = 0]
  /\ IF i = 0
     THEN Goto(g, "throw") /\ UNCHANGED <<res, chosen, lock>>
     ELSE /\ Return(g, IF success[g] THEN "ok" ELSE IF Sends(g, i) THEN "panic" ELSE "closed", i)
          /\ UnlockAll(g)
  /\ UNCHANGED <<chanVars, queueVars, need, commit, call, calls, toReady, success, got, histVars>>

-----------------------------------------------------------------------------
Run(g) ==
  \/ FastSend(g) \/ FastRecv(g) \/ chansend(g) \/ chanrecv(g)
  \/ Park(g) \/ Wake(g) \/ Woken(g)
  \/ CloseBegin(g) \/ CloseDrain(g) \/ ReadyAll(g)
  \/ sellock(g) \/ Pass1(g) \/ Pass2(g) \/ Pass3(g)
  \/ \E i \in Cases(g) : EnqueueCase(g, i) \/ dequeueSudoG(g, i)

Next ==
  \E g \in Goroutine : Run(g) \/ Commit(g) \/ \E op \in Calls[g] : Start(g, op)

Spec == Init /\ [][Next]_vars

-----------------------------------------------------------------------------
Label == {"idle", "forever", "fastSend", "thenFull", "thenClosed", "fastRecv", "rclosed",
          "rempty", "lock", "park", "waiting", "wake", "woken", "close", "drain", "readyAll",
          "sellock", "pass1", "pass2", "relock", "pass3", "throw"}
Element == Goroutine \X Nat \X Nat
Sudogs == [g : Goroutine, i : Nat \ {0}, isSelect : BOOLEAN]

\* Every variable has its type: buffer positions stay inside the buffer and the
\* count within its capacity.
TypeOK ==
  /\ qcount \in [Channel -> Nat] /\ sendx \in [Channel -> Nat] /\ recvx \in [Channel -> Nat]
  /\ DOMAIN buf = Channel
  /\ \A c \in Channel :
       /\ qcount[c] <= Cap[c]
       /\ Cap[c] > 0 => sendx[c] < Cap[c] /\ recvx[c] < Cap[c]
       /\ buf[c] \in [0 .. Cap[c] - 1 -> Element \cup {Zero}]
  /\ sendq \in [Channel -> Seq(Sudogs)] /\ recvq \in [Channel -> Seq(Sudogs)]
  /\ accepted \in [Channel -> Seq(Element)] /\ delivered \in [Channel -> Seq(Element)]
  /\ closed \in [Channel -> BOOLEAN]
  /\ lock \in [Channel -> Goroutine \cup {Free}]
  /\ pc \in [Goroutine -> Label]
  /\ call \in [Goroutine -> Call] /\ calls \in [Goroutine -> 0 .. MaxCalls]
  /\ need \in [Goroutine -> Seq(Channel)] /\ commit \in [Goroutine -> Seq(Channel)]
  /\ toReady \in [Goroutine -> SUBSET Sudogs]
  /\ param \in [Goroutine -> Nat] /\ success \in [Goroutine -> BOOLEAN]
  /\ selectDone \in [Goroutine -> BOOLEAN]
  /\ got \in [Goroutine -> Element \cup {Zero, Old}]
  /\ res \in [Goroutine -> {"none", "ok", "closed", "no", "panic"}]
  /\ chosen \in [Goroutine -> Nat]

\* What chan.go states of a buffered channel: elements in the buffer mean that no
\* receiver waits, and a free slot that no sender waits.
WaitersMatchCount ==
  \A c \in Channel :
    /\ qcount[c] > 0 => recvq[c] = <<>>
    /\ qcount[c] < Cap[c] => sendq[c] = <<>>

\* The invariants chan.go states for a channel: of its queues at least one is
\* empty, unless one select waits on the unbuffered channel in both directions; a
\* buffered element means no waiting receiver, a free slot no waiting sender.
QueueInvariants ==
  /\ WaitersMatchCount
  /\ \A c \in Channel :
       \/ sendq[c] = <<>> \/ recvq[c] = <<>>
       \/ /\ Cap[c] = 0
          /\ \E g \in Goroutine :
               \A q \in {sendq[c], recvq[c]} :
                 \A k \in DOMAIN q : q[k].g = g /\ q[k].isSelect

Contents(c) ==
  [k \in 1 .. qcount[c] |->
     buf[c][IF recvx[c] + k - 1 < Cap[c] THEN recvx[c] + k - 1 ELSE recvx[c] + k - 1 - Cap[c]]]

\* First in, first out, nothing lost or invented: what a channel has taken in is
\* what it has given out followed by what the ring buffer holds, in order.
FIFO == \A c \in Channel : accepted[c] = delivered[c] \o Contents(c)

Accepted(v) == \E c \in Channel : \E k \in DOMAIN accepted[c] : accepted[c][k] = v
Took(g) == chosen[g] \in DOMAIN call[g].cases /\ call[g].kind # "close"

\* What a call reports is what happened to the channel: a send that succeeded put
\* its element into the channel of its case exactly once and no other, a send that
\* panicked or did not proceed put it nowhere, a receive got an element the
\* channel gave out, or the zero value from a closed channel.
OutcomeTrue ==
  \A g \in Goroutine :
    (pc[g] = "idle" /\ calls[g] > 0) =>
      /\ Took(g) /\ res[g] = "ok" /\ Sends(g, chosen[g]) =>
           LET a == accepted[CaseChan(g, chosen[g])] IN
           Cardinality({k \in DOMAIN a : a[k] = Elem(g, chosen[g])}) = 1
      /\ \A i \in DOMAIN call[g].cases :
           Accepted(Elem(g, i)) => res[g] = "ok" /\ Sends(g, i) /\ i = chosen[g]
      /\ Took(g) /\ res[g] = "ok" /\ ~Sends(g, chosen[g]) =>
           LET d == delivered[CaseChan(g, chosen[g])] IN \E k \in DOMAIN d : d[k] = got[g]
      /\ Took(g) /\ res[g] = "closed" => got[g] = Zero /\ closed[CaseChan(g, chosen[g])]

\* A receive reports that the channel is closed only when every element sent
\* before the close has been received, on the lock-free path too.
ClosedMeansDrained ==
  \A g \in Goroutine :
    (pc[g] = "idle" /\ Took(g) /\ res[g] = "closed") =>
      LET c == CaseChan(g, chosen[g]) IN accepted[c] = delivered[c]

Signalled(g) == \E h \in Goroutine : \E sg \in toReady[h] : sg.g = g
Draining(c) == \E h \in Goroutine : pc[h] = "drain" /\ Ch(h) = c
LiveOther(q, g) == \E k \in LiveIn(q) : q[k].g # g

\* No lost wakeup: a goroutine that waits and that nobody is about to make ready is
\* in the queue of each of its cases, and none of them could proceed.
NoLostWakeup ==
  \A g \in Goroutine : (pc[g] = "waiting" /\ ~Signalled(g)) =>
    \A i \in Cases(g) :
      LET c == CaseChan(g, i)
          q == IF Sends(g, i) THEN sendq[c] ELSE recvq[c] IN
      /\ \E k \in DOMAIN q : q[k] = Sudog(g, i) /\ Live(q[k])
      /\ ~Draining(c) =>
           /\ ~closed[c]
           /\ IF Sends(g, i) THEN qcount[c] = Cap[c] /\ ~LiveOther(recvq[c], g)
              ELSE qcount[c] = 0 /\ ~LiveOther(sendq[c], g)

\* The channel locks cannot deadlock: of the goroutines that hold one, some one
\* does not wait for another lock, or waits for a free one.
NoLockDeadlock ==
  (\E c \in Channel : lock[c] # Free) =>
    \E g \in Goroutine :
      /\ Locked(g) # {}
      /\ pc[g] \in {"sellock", "relock"} /\ commit[g] = <<>> => lock[Head(need[g])] = Free

\* selparkcommit reads a sudog only while it holds the lock of its channel, though
\* the select may already run again; and the select takes its sudogs back only
\* when selparkcommit is through with them.
CommitHoldsLocks ==
  \A g \in Goroutine :
    /\ \A k \in DOMAIN commit[g] : lock[commit[g][k]] = g
    /\ pc[g] = "pass3" => commit[g] = <<>>

\* Nothing outlives a select in a queue: a goroutine that is not in a blocking
\* operation has no sudog on any channel.
NoStaleSudog ==
  \A g \in Goroutine : pc[g] \in {"idle", "lock", "sellock", "pass1", "close"} =>
    \A c \in Channel : \A q \in {sendq[c], recvq[c]} : \A k \in DOMAIN q : q[k].g # g

CaseNumbers == UNION {DOMAIN op.cases : op \in UNION {Calls[g] : g \in Goroutine}}
Abstract == INSTANCE ChanSpec WITH Element <- Goroutine \X (1 .. MaxCalls) \X CaseNumbers

\* The channels implement ChanSpec: the order of elements, the capacity and the
\* effect of close hold across buffers, hand-offs and selects.
ImplementsChannel == Abstract!Spec

\* Closing a channel releases everyone who waits on it.
CloseReleases ==
  \A g \in Goroutine, c \in Channel :
    (closed[c] /\ pc[g] = "waiting" /\ \E i \in Cases(g) : CaseChan(g, i) = c)
      ~> pc[g] = "idle"

=============================================================================
