----------------------------- MODULE ChanProofs -----------------------------
(***************************************************************************)
(* The theorems about Chan: its invariant holds of every behaviour, and    *)
(* what follows from it.                                                   *)
(***************************************************************************)
EXTENDS ChanSteps, ChanWaiters

USE Zenon
USE DEF Nil

-----------------------------------------------------------------------------
(* The facts about numbers, from the library *)

INSTANCE FiniteSetTheorems
INSTANCE WellFoundedInduction

\* A non-empty set of natural numbers has a least element.
LEMMA LeastElementHolds == LeastElement
<1> SUFFICES ASSUME NEW S \in SUBSET Nat, S # {}
             PROVE  \E n \in S : \A m \in S : n <= m
  BY SMT DEF LeastElement
<1> DEFINE R == OpToRel(<, Nat)
<1>1. IsWellFoundedOn(R, Nat)
  BY NatLessThanWellFounded
<1>2. \E x \in S : \A y \in S : ~ (<<y, x>> \in R)
  <2> HIDE DEF R
  <2> QED BY <1>1, WFMin
<1>3. \A x, y \in Nat : y < x => <<y, x>> \in R
  BY SMT DEF OpToRel
<1>4. PICK x \in S : \A y \in S : ~ (<<y, x>> \in R)
  BY <1>2
<1>5. \A y \in S : ~ (y < x)
  <2> HIDE DEF R
  <2> QED BY <1>3, <1>4
<1> QED BY <1>5, SMT

\* Counting the subsets of an interval of numbers.
LEMMA CountsSubsetsHolds == CountsSubsets
<1> SUFFICES ASSUME NEW n \in Nat, NEW S \in SUBSET (1 .. n)
             PROVE  Cardinality(S) \in Nat /\ (Cardinality(S) = 0 <=> S = {})
  BY SMT DEF CountsSubsets
<1>1. IsFiniteSet(1 .. n)
  BY FS_Interval, SMT
<1>2. IsFiniteSet(S)
  BY <1>1, FS_Subset
<1> QED BY <1>2, FS_CardinalityType, FS_EmptySet

\* Both facts hold, so the lemmas about the steps do.
LEMMA NatFactsHold == NatFacts
BY LeastElementHolds, CountsSubsetsHolds, SMT DEF NatFacts

-----------------------------------------------------------------------------
(* The theorems *)

\* The inductive invariant holds in every state of every behaviour.
THEOREM Invariance == Spec => []IInv
<1>1. IInv /\ [Next]_vars => IInv'
  BY NatFactsHold, NextIInv, SMT
<1> QED BY <1>1, InitIInv, PTL DEF Spec

\* Type correctness: no index of a ring buffer leaves the buffer and no count
\* exceeds its capacity, whatever chansend, chanrecv, closechan and selectgo do.
THEOREM TypeCorrect == Spec => []TypeOK
BY Invariance, IInvTypeOK, PTL

\* First in, first out: on every channel, of any capacity and under any number of
\* concurrent operations and selects, what went in is what came out followed by
\* what the ring buffer holds, in order.
THEOREM InOrder == Spec => []FIFO
BY Invariance, IInvFIFO, PTL

\* What chan.go says of buffered channels: nobody waits to receive while an element
\* is buffered, and nobody waits to send while a slot is free.
THEOREM WaitersMatch == Spec => []WaitersMatchCount
BY Invariance, IInvWaiters, PTL

\* selparkcommit reads only sudogs whose channel it has locked, and a select does
\* not take its sudogs back before selparkcommit is through.
THEOREM CommitSafe == Spec => []CommitHoldsLocks
BY Invariance, IInvCommit, PTL

\* Who waits where holds in every state: every queued sudog belongs to a case of a
\* blocked goroutine, and whoever is about to be made ready is made ready once.
THEOREM Waiters == Spec => []WInv
<1>1. WInv /\ IInv /\ IInv' /\ [Next]_vars => WInv'
  BY NatFactsHold, NextW
<1> QED BY <1>1, InitW, Invariance, PTL DEF Spec

\* Nothing outlives an operation in a queue: pass 3 of selectgo, the wakeups of
\* chansend and chanrecv and closechan leave no sudog of a goroutine that has gone on.
THEOREM NoStale == Spec => []NoStaleSudog
<1>1. IInv /\ WInv => NoStaleSudog
  BY WInvStale
<1> QED BY <1>1, Invariance, Waiters, PTL

\* The invariants at the head of chan.go: one of the two queues is empty, unless one
\* select waits on the unbuffered channel in both directions, and neither holds
\* anyone whom the ring buffer could serve.
THEOREM QueuesAsStated == Spec => []QueueInvariants
<1>1. IInv /\ WInv => QueueInvariants
  BY WInvQueues
<1> QED BY <1>1, Invariance, Waiters, PTL

\* No wakeup is lost: a goroutine that is parked and that nobody is about to make
\* ready is in the queue of each of its cases, and none of these could go ahead.
THEOREM NoWakeupLost == Spec => []NoLostWakeup
<1>1. IInv /\ WInv => NoLostWakeup
  BY WInvWakeup
<1> QED BY <1>1, Invariance, Waiters, PTL

=============================================================================
