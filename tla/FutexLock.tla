----------------------------- MODULE FutexLock -----------------------------
(***************************************************************************)
(* The lock of the runtime on a futex (runtime/lock_futex.go).  Each       *)
(* exchange or compare-and-swap of the key is one step.  futexsleep checks *)
(* the key and sleeps in one step, and may wake for no reason; futexwakeup *)
(* wakes one of the threads that sleep, if there is one.  A thread may     *)
(* stop spinning at any time.                                              *)
(***************************************************************************)
EXTENDS Naturals

CONSTANT Thread

None == CHOOSE t : t \notin Thread

VARIABLES
  key,     \* mutex.key
  pc,
  wait     \* the local variable of lock2

vars == <<key, pc, wait>>

Key == {"unlocked", "locked", "sleeping"}
InLock == {"grab", "spin", "mark", "futex", "asleep"}

TypeOK ==
  /\ key \in Key
  /\ wait \in [Thread -> {"locked", "sleeping"}]
  /\ pc \in [Thread -> InLock \cup {"out", "in", "wake"}]

Init ==
  /\ key = "unlocked"
  /\ pc = [t \in Thread |-> "out"]
  /\ wait = [t \in Thread |-> "locked"]

At(t, l) == pc[t] = l
Goto(t, l) == pc' = [pc EXCEPT ![t] = l]
Sleepers == {t \in Thread : At(t, "asleep")}

\* The local variable ends with the call.
Acquired(t) == Goto(t, "in") /\ wait' = [wait EXCEPT ![t] = "locked"]

----------------------------------------------------------------------------
(* lock2 *)

Call(t) == At(t, "out") /\ Goto(t, "grab") /\ UNCHANGED <<key, wait>>

\* What was in the key is kept in wait.
Kept(k) == k
Grab(t) ==
  /\ At(t, "grab")
  /\ key' = "locked"
  /\ \/ key = "unlocked" /\ Acquired(t)
     \/ key # "unlocked" /\ Goto(t, "spin") /\ wait' = [wait EXCEPT ![t] = Kept(key)]

SwapSucceeds == key = "unlocked"
SpinTake(t) ==
  /\ At(t, "spin") /\ SwapSucceeds
  /\ key' = wait[t]
  /\ Acquired(t)

SpinEnd(t) ==
  /\ At(t, "spin")
  /\ Goto(t, "mark")
  /\ UNCHANGED <<key, wait>>

Mark(t) ==
  /\ At(t, "mark")
  /\ key' = "sleeping"
  /\ \/ key = "unlocked" /\ Acquired(t)
     \/ /\ key # "unlocked"
        /\ Goto(t, "futex")
        /\ wait' = [wait EXCEPT ![t] = "sleeping"]

StillMarked == key = "sleeping"
FutexSleep(t) ==
  /\ At(t, "futex")
  /\ Goto(t, IF StillMarked THEN "asleep" ELSE "spin")
  /\ UNCHANGED <<key, wait>>

SpuriousWakeup(t) ==
  /\ At(t, "asleep")
  /\ Goto(t, "spin")
  /\ UNCHANGED <<key, wait>>

----------------------------------------------------------------------------
(* unlock2 *)

Unlock(t) ==
  /\ At(t, "in")
  /\ key' = "unlocked"
  /\ Goto(t, IF key = "sleeping" THEN "wake" ELSE "out")
  /\ UNCHANGED wait

FutexWakeup(t) ==
  /\ At(t, "wake")
  /\ \/ Sleepers = {} /\ Goto(t, "out")
     \/ \E s \in Sleepers : pc' = [pc EXCEPT ![t] = "out", ![s] = "spin"]
  /\ UNCHANGED <<key, wait>>

----------------------------------------------------------------------------

Step(t) ==
  \/ Grab(t) \/ SpinTake(t) \/ SpinEnd(t) \/ Mark(t) \/ FutexSleep(t)
  \/ Unlock(t) \/ FutexWakeup(t)

Next == \E t \in Thread : Call(t) \/ SpuriousWakeup(t) \/ Step(t)

Spec == Init /\ [][Next]_vars

----------------------------------------------------------------------------
(* Properties *)

\* The key is unlocked exactly while nobody has the lock.
Holders == {t \in Thread : At(t, "in")}
Exclusion ==
  /\ \A t, u \in Holders : t = u
  /\ key = "unlocked" <=> Holders = {}

\* "If we ever change l->key from MUTEX_SLEEPING to some other value, we must be
\* careful to change it back": while a thread sleeps, the key is marked, or a
\* wakeup is on its way, or some thread that is awake will put the mark back.
SleeperRemembered ==
  Sleepers # {} =>
    \/ key = "sleeping"
    \/ \E t \in Thread : At(t, "wake")
    \/ \E t \in Thread : pc[t] \in {"spin", "mark", "futex"} /\ wait[t] = "sleeping"

\* A thread in the futex code has the mark to put back.
FutexInv ==
  /\ TypeOK
  /\ Exclusion
  /\ SleeperRemembered
  /\ \A t \in Thread : pc[t] \in {"futex", "asleep"} => wait[t] = "sleeping"

\* The futex lock is a lock, with spurious wakeups and all.
Abstract == INSTANCE MutexSpec WITH
  Goroutine <- Thread,
  owner <- IF Holders = {} THEN None ELSE CHOOSE t \in Thread : At(t, "in"),
  asking <- {t \in Thread : pc[t] \in InLock}
ImplementsLock == Abstract!MutexSpecification

=============================================================================
