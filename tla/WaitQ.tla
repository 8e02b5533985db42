-------------------------------- MODULE WaitQ --------------------------------
(***************************************************************************)
(* waitq (runtime/chan.go, select.go): the doubly linked queue of sudogs   *)
(* of one channel.  Chan takes it for a sequence; here are the links.  The *)
(* channel lock covers each operation, but selectDone of a goroutine can   *)
(* change between the iterations of dequeue's loop, as other channels do   *)
(* not share the lock.                                                     *)
(***************************************************************************)
EXTENDS Integers, Sequences, FiniteSets

CONSTANTS Sudog, Nil

ASSUME WaitQAssumption == Nil \notin Sudog /\ IsFiniteSet(Sudog)

VARIABLES
  first, last,  \* waitq
  next, prev,   \* sudog.next, sudog.prev
  isSelect,     \* sudog.isSelect
  lost,         \* another case of the select has won (selectDone is set)
  status,       \* of each sudog: free, waiting (its owner waits), won
  looping,      \* dequeue is between two iterations
  queue         \* history: the sudogs in the queue, in order

links == <<first, last, next, prev>>
vars == <<links, isSelect, lost, status, looping, queue>>

Init ==
  /\ first = Nil /\ last = Nil
  /\ next = [s \in Sudog |-> Nil] /\ prev = [s \in Sudog |-> Nil]
  /\ isSelect = [s \in Sudog |-> FALSE]
  /\ lost = [s \in Sudog |-> FALSE]
  /\ status = [s \in Sudog |-> "free"]
  /\ looping = FALSE
  /\ queue = <<>>

enqueue(s) ==
  /\ ~looping /\ status[s] = "free"
  /\ next' = [y \in Sudog |-> IF y = last THEN s ELSE IF y = s THEN Nil ELSE next[y]]
  /\ prev' = [prev EXCEPT ![s] = last]
  /\ first' = IF last = Nil THEN s ELSE first
  /\ last' = s
  /\ \E b \in BOOLEAN : isSelect' = [isSelect EXCEPT ![s] = b]
  /\ lost' = [lost EXCEPT ![s] = FALSE]
  /\ status' = [status EXCEPT ![s] = "waiting"]
  /\ queue' = Append(queue, s)
  /\ UNCHANGED looping

\* Unlinking the head.  (NotMarked: without clearing its next.)
NotMarked ==
  LET y == next[first] IN
  /\ first' = y
  /\ last' = IF y = Nil THEN Nil ELSE last
  /\ prev' = [s \in Sudog |-> IF s = y THEN Nil ELSE prev[s]]
  /\ UNCHANGED next
PopHead ==
  LET y == next[first] IN
  /\ first' = y
  /\ last' = IF y = Nil THEN Nil ELSE last
  /\ prev' = [s \in Sudog |-> IF s = y THEN Nil ELSE prev[s]]
  /\ next' = [next EXCEPT ![first] = Nil]

\* The compare-and-swap on selectDone fails.  (NeverLate: it is left out.)
NeverLate(s) == FALSE
Late(s) == isSelect[s] /\ lost[s]

\* One iteration of dequeue: skip a sudog that lost, or return one.
dequeue ==
  \/ /\ first = Nil
     /\ looping' = FALSE
     /\ UNCHANGED <<links, isSelect, lost, status, queue>>
  \/ /\ first # Nil /\ Late(first)
     /\ PopHead /\ looping' = TRUE
     /\ queue' = Tail(queue)
     /\ UNCHANGED <<isSelect, lost, status>>
  \/ /\ first # Nil /\ ~Late(first)
     /\ PopHead /\ looping' = FALSE
     /\ queue' = Tail(queue)
     /\ status' = [status EXCEPT ![first] = "won"]
     /\ UNCHANGED <<isSelect, lost>>

\* The select of s was signalled through another channel.
LoseRace(s) ==
  /\ status[s] = "waiting" /\ isSelect[s] /\ ~lost[s]
  /\ lost' = [lost EXCEPT ![s] = TRUE]
  /\ UNCHANGED <<links, isSelect, status, looping, queue>>

\* (HeadAssumed: without asking q.first whether s is still in the queue.)
HeadAssumed(s) == TRUE
IsHead(s) == first = s

\* Pass 3 of the select that s belongs to.
dequeueSudoG(s) ==
  LET x == prev[s]
      y == next[s] IN
  /\ ~looping /\ status[s] = "waiting" /\ lost[s]
  /\ IF x = Nil /\ y = Nil
     THEN /\ first' = IF IsHead(s) THEN Nil ELSE first
          /\ last' = IF IsHead(s) THEN Nil ELSE last
          /\ UNCHANGED <<next, prev>>
     ELSE /\ next' = [z \in Sudog |-> IF z = s THEN Nil ELSE IF z = x THEN y ELSE next[z]]
          /\ prev' = [z \in Sudog |-> IF z = s THEN Nil ELSE IF z = y THEN x ELSE prev[z]]
          /\ first' = IF x = Nil THEN y ELSE first
          /\ last' = IF y = Nil THEN x ELSE last
  /\ isSelect' = [isSelect EXCEPT ![s] = FALSE]
  /\ status' = [status EXCEPT ![s] = "free"]
  /\ queue' = SelectSeq(queue, LAMBDA z : z # s)
  /\ UNCHANGED <<lost, looping>>

\* The goroutine of a sudog that dequeue returned gives it back.
Release(s) ==
  /\ status[s] = "won"
  /\ isSelect' = [isSelect EXCEPT ![s] = FALSE]
  /\ status' = [status EXCEPT ![s] = "free"]
  /\ UNCHANGED <<links, lost, looping, queue>>

Next ==
  \/ dequeue
  \/ \E s \in Sudog : enqueue(s) \/ LoseRace(s) \/ dequeueSudoG(s) \/ Release(s)

Spec == Init /\ [][Next]_vars

-----------------------------------------------------------------------------
\* The links are those of the sequence Chan takes the queue for: following next
\* from first, and prev from last, visits its sudogs in order and ends in nil.
LinksMatch ==
  LET n == Len(queue)
      At(k) == IF k \in 1 .. n THEN queue[k] ELSE Nil IN
  /\ first = At(1) /\ last = At(n)
  /\ \A k \in 1 .. n : next[queue[k]] = At(k + 1) /\ prev[queue[k]] = At(k - 1)

\* A sudog outside the queue has nil links, which is what dequeueSudoG goes by to
\* find out that a sudog has been removed, and what releaseSudog insists on.
UnlinkedOutside ==
  \A s \in Sudog :
    (\A k \in DOMAIN queue : queue[k] # s) => next[s] = Nil /\ prev[s] = Nil

\* What dequeue returns is the longest waiting sudog of those whose goroutine has
\* not been signalled already, and it is no longer in the queue.
ReturnsOldestLive ==
  [][\A s \in Sudog : (status[s] # "won" /\ status'[s] = "won") =>
       \E k \in DOMAIN queue :
         /\ queue[k] = s /\ status[s] = "waiting" /\ ~lost[s]
         /\ \A m \in 1 .. k - 1 : lost[queue[m]]
         /\ \A m \in DOMAIN queue' : queue'[m] # s]_vars
=============================================================================
