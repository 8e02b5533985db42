-------------------------------- MODULE Mutex --------------------------------
(***************************************************************************)
(* sync.Mutex (sync/mutex.go) composed with its semaphore (Sema).  state   *)
(* holds the three flags and the number of waiters; each atomic operation  *)
(* on it is one step, and what a goroutine has loaded of it is kept in     *)
(* old, which may be stale when it is used.  In normal mode a woken waiter *)
(* competes with newcomers; in starvation mode Unlock hands the mutex over *)
(* through the semaphore without ever setting the locked bit.              *)
(***************************************************************************)
EXTENDS Sema

CONSTANTS
  Sem,       \* the address of Mutex.sema
  MaxSpin,   \* active_spin of runtime_canSpin
  Patience   \* after so many waits, more than starvationThresholdNs have passed

ASSUME MutexAssumption ==
  /\ Sem \in Addr /\ MaxSpin \in Nat /\ Patience \in Nat \ {0}

VARIABLES
  state,     \* Mutex.state
  mpc,       \* where each goroutine is in Lock, TryLock or Unlock
  old,       \* the local variables of lockSlow and unlockSlow
  awoke, starving, iter,
  waits,     \* how often lockSlow has waited (waitStartTime # 0: at least once)
  delta,     \* whether the hand-over also ends starvation mode
  fault      \* a throw, or an AddInt32 that carries into another field

locals == <<old, awoke, starving, iter, waits, delta>>
mutexVars == <<state, mpc, locals, fault>>
vars == <<semaVars, mutexVars>>

Zero == [locked |-> FALSE, woken |-> FALSE, starving |-> FALSE, waiters |-> 0]

SlowLabels == {"load", "loop", "sema", "handover"}
LockLabels == {"lock", "trylock", "trycas"} \cup SlowLabels

MutexInit ==
  /\ SemaInit /\ count = [a \in Addr |-> 0]
  /\ state = Zero
  /\ mpc = [g \in Goroutine |-> "out"]
  /\ old = [g \in Goroutine |-> Zero]
  /\ awoke = [g \in Goroutine |-> FALSE]
  /\ starving = [g \in Goroutine |-> FALSE]
  /\ iter = [g \in Goroutine |-> 0]
  /\ waits = [g \in Goroutine |-> 0]
  /\ delta = [g \in Goroutine |-> FALSE]
  /\ fault = FALSE

In(g, l) == mpc[g] = l
MGoto(g, l) == mpc' = [mpc EXCEPT ![g] = l]

\* The local variables end with the call.
Forget(g) ==
  /\ old' = [old EXCEPT ![g] = Zero]
  /\ awoke' = [awoke EXCEPT ![g] = FALSE]
  /\ starving' = [starving EXCEPT ![g] = FALSE]
  /\ iter' = [iter EXCEPT ![g] = 0]
  /\ waits' = [waits EXCEPT ![g] = 0]
  /\ delta' = [delta EXCEPT ![g] = FALSE]

----------------------------------------------------------------------------
(* Lock and TryLock *)

Call(g, l) ==
  /\ In(g, "out")
  /\ MGoto(g, l)
  /\ UNCHANGED <<semaVars, state, locals, fault>>

LockFast(g) ==
  /\ In(g, "lock")
  /\ \/ state = Zero /\ state' = [Zero EXCEPT !.locked = TRUE] /\ MGoto(g, "in")
     \/ state # Zero /\ MGoto(g, "load") /\ UNCHANGED state
  /\ UNCHANGED <<semaVars, locals, fault>>

TryLockLoad(g) ==
  /\ In(g, "trylock")
  /\ \/ /\ state.locked \/ state.starving
        /\ MGoto(g, "out") /\ UNCHANGED old
     \/ /\ ~state.locked /\ ~state.starving
        /\ old' = [old EXCEPT ![g] = state]
        /\ MGoto(g, "trycas")
  /\ UNCHANGED <<semaVars, state, awoke, starving, iter, waits, delta, fault>>
TryLockCas(g) ==
  /\ In(g, "trycas")
  /\ \/ state = old[g] /\ state' = [state EXCEPT !.locked = TRUE] /\ MGoto(g, "in")
     \/ state # old[g] /\ MGoto(g, "out") /\ UNCHANGED state
  /\ Forget(g)
  /\ UNCHANGED <<semaVars, fault>>

\* old = m.state, at the start, after spinning and after a failed CAS.
LoadState(g) ==
  /\ In(g, "load")
  /\ old' = [old EXCEPT ![g] = state]
  /\ MGoto(g, "loop")
  /\ UNCHANGED <<semaVars, state, awoke, starving, iter, waits, delta, fault>>

\* runtime_canSpin may refuse at any time.
Spin(g) ==
  LET o == old[g] IN
  /\ In(g, "loop") /\ o.locked /\ ~o.starving /\ iter[g] < MaxSpin
  /\ IF ~awoke[g] /\ ~o.woken /\ o.waiters # 0 /\ state = o
     THEN /\ state' = [state EXCEPT !.woken = TRUE]
          /\ awoke' = [awoke EXCEPT ![g] = TRUE]
     ELSE UNCHANGED <<state, awoke>>
  /\ iter' = [iter EXCEPT ![g] = @ + 1]
  /\ MGoto(g, "load")
  /\ UNCHANGED <<semaVars, old, starving, waits, delta, fault>>

\* The value lockSlow wants to store in place of old.
NewState(g) ==
  LET o == old[g] IN
  [locked   |-> o.locked \/ ~o.starving,
   starving |-> o.starving \/ (starving[g] /\ o.locked),
   woken    |-> o.woken /\ ~awoke[g],
   waiters  |-> IF o.locked \/ o.starving THEN o.waiters + 1 ELSE o.waiters]

\* Whether the CAS of lockSlow takes the mutex: not in starvation mode.
\* (BargesIn: also in starvation mode.)
BargesIn(o) == ~o.locked
ForTheTaking(o) == ~o.locked /\ ~o.starving

\* The CAS of lockSlow, once it does not spin.
TryState(g) ==
  LET o == old[g] IN
  /\ In(g, "loop")
  /\ fault' = (fault \/ (awoke[g] /\ ~o.woken))
  /\ \/ state # o /\ MGoto(g, "load") /\ UNCHANGED <<semaVars, state, locals>>
     \/ /\ state = o /\ ForTheTaking(o)
        /\ state' = NewState(g)
        /\ MGoto(g, "in") /\ Forget(g) /\ UNCHANGED semaVars
     \/ /\ state = o /\ ~ForTheTaking(o)
        /\ state' = NewState(g)
        /\ MGoto(g, "sema")
        /\ semacquire(g, Sem, waits[g] # 0)
        /\ waits' = [waits EXCEPT ![g] = IF @ < Patience THEN @ + 1 ELSE @]
        /\ old' = [old EXCEPT ![g] = Zero]
        /\ awoke' = [awoke EXCEPT ![g] = FALSE]
        /\ UNCHANGED <<starving, iter, delta>>

\* After SemacquireMutex: has this goroutine waited too long, and which mode is it?
Waited(g) ==
  \E late \in BOOLEAN :
    /\ waits[g] = Patience => late
    /\ starving' = [starving EXCEPT ![g] = @ \/ late]
Acquired(g) ==
  /\ In(g, "sema") /\ At(g, "idle")
  /\ Waited(g)
  /\ \/ /\ state.starving
        /\ fault' = (fault \/ state.locked \/ state.woken \/ state.waiters = 0)
        /\ delta' = [delta EXCEPT ![g] = ~starving'[g] \/ state.waiters = 1]
        /\ MGoto(g, "handover")
        /\ UNCHANGED <<old, awoke, iter>>
     \/ /\ ~state.starving
        /\ old' = [old EXCEPT ![g] = state]
        /\ awoke' = [awoke EXCEPT ![g] = TRUE]
        /\ iter' = [iter EXCEPT ![g] = 0]
        /\ MGoto(g, "loop")
        /\ UNCHANGED <<delta, fault>>
  /\ UNCHANGED <<semaVars, state, waits>>

\* AddInt32(&m.state, delta): locked is set, one waiter less and, if delta says
\* so, the end of starvation mode.
HandOver(g) ==
  /\ In(g, "handover")
  /\ fault' = (fault \/ state.locked \/ state.waiters = 0 \/ (delta[g] /\ ~state.starving))
  /\ state' = [state EXCEPT !.locked = TRUE, !.waiters = @ - 1,
                            !.starving = @ /\ ~delta[g]]
  /\ MGoto(g, "in") /\ Forget(g)
  /\ UNCHANGED semaVars

----------------------------------------------------------------------------
(* Unlock *)

\* AddInt32(&m.state, -mutexLocked) and, unless the result is zero, unlockSlow.
Unlock(g) ==
  LET new == [state EXCEPT !.locked = FALSE] IN
  /\ In(g, "in")
  /\ state' = new
  /\ fault' = (fault \/ ~state.locked)
  /\ \/ new = Zero /\ MGoto(g, "out") /\ UNCHANGED old
     \/ /\ new # Zero
        /\ old' = [old EXCEPT ![g] = new]
        /\ MGoto(g, IF new.starving THEN "semrelease" ELSE "unlockSlow")
  /\ UNCHANGED <<semaVars, awoke, starving, iter, waits, delta>>

\* When unlockSlow has nobody to wake.  (WakesAlways: it ignores that another
\* goroutine is already awake.  LastIgnored: it does not wake the last waiter.)
WakesAlways(o) == o.waiters = 0 \/ o.locked \/ o.starving
LastIgnored(o) == o.waiters <= 1 \/ o.locked \/ o.woken \/ o.starving
NobodyToWake(o) == o.waiters = 0 \/ o.locked \/ o.woken \/ o.starving

\* The loop of unlockSlow, on what Unlock or the last iteration has seen.
UnlockSlow(g) ==
  LET o == old[g]
      done == NobodyToWake(o) IN
  /\ In(g, "unlockSlow")
  /\ \/ done /\ MGoto(g, "out") /\ Forget(g) /\ UNCHANGED state
     \/ /\ ~done /\ state = o
        /\ state' = [state EXCEPT !.waiters = @ - 1, !.woken = TRUE]
        /\ MGoto(g, "semrelease") /\ UNCHANGED locals
     \/ /\ ~done /\ state # o
        /\ old' = [old EXCEPT ![g] = state]
        /\ UNCHANGED <<mpc, state, awoke, starving, iter, waits, delta>>
  /\ UNCHANGED <<semaVars, fault>>

\* runtime_Semrelease, with hand-off in starvation mode.
Semrelease(g) ==
  /\ In(g, "semrelease")
  /\ semrelease(g, Sem, old[g].starving)
  /\ MGoto(g, "releasing") /\ Forget(g)
  /\ UNCHANGED <<state, fault>>
UnlockReturns(g) ==
  /\ In(g, "releasing") /\ At(g, "idle")
  /\ MGoto(g, "out")
  /\ UNCHANGED <<semaVars, state, locals, fault>>

----------------------------------------------------------------------------

MutexStep(g) ==
  \/ LockFast(g) \/ TryLockLoad(g) \/ TryLockCas(g)
  \/ LoadState(g) \/ Spin(g) \/ TryState(g) \/ Acquired(g) \/ HandOver(g)
  \/ Unlock(g) \/ UnlockSlow(g) \/ Semrelease(g) \/ UnlockReturns(g)

MutexNext ==
  \E g \in Goroutine :
    \/ Call(g, "lock") \/ Call(g, "trylock")
    \/ MutexStep(g)
    \/ SemaStep(g) /\ UNCHANGED mutexVars

MutexSpecOf == MutexInit /\ [][MutexNext]_vars

----------------------------------------------------------------------------
(* Properties *)

Owners == {g \in Goroutine : In(g, "in")}

\* lockSlow and unlockSlow never throw "inconsistent mutex state" or "unlock of
\* unlocked mutex", and no AddInt32 on the word carries from one field into
\* the next: the hand-over corrects three fields at once from a stale copy.
NeverInconsistent == ~fault

\* Those who are going to lock the mutex or to wake another: they have taken over
\* the duty of the woken bit, are releasing the semaphore, have been woken or given
\* a permit, or will find one, or are in unlockSlow and have seen a waiter.
Rousers ==
  {g \in Goroutine :
     \/ awoke[g] \/ mpc[g] \in {"semrelease", "handover"}
     \/ In(g, "releasing") /\ ~At(g, "idle")
     \/ In(g, "sema") /\ spc[g] \in {"ready", "idle"}
     \/ In(g, "sema") /\ ~At(g, "parked") /\ count[Sem] > 0
     \/ In(g, "unlockSlow") /\ old[g].waiters > 0 /\ ~old[g].locked /\ ~old[g].woken}

\* Nobody sleeps beside a free mutex unless somebody is bound to take it or to wake
\* the sleeper, through the woken bit, which keeps Unlock from waking anyone, and
\* through the count of the semaphore, which semrelease1 adds to before it looks
\* for sleepers and semacquire1 looks at once more before it sleeps.
FreeMutexIsNoticed == (~state.locked /\ waiters[Sem] # <<>>) => Rousers # {}

AbstractLock == INSTANCE MutexSpec WITH
  owner <- IF Owners = {} THEN None ELSE CHOOSE g \in Owners : TRUE,
  asking <- {g \in Goroutine : mpc[g] \in LockLabels}

\* Lock, TryLock and Unlock implement the lock of MutexSpec: one owner at a time,
\* in both modes.
ImplementsLock == AbstractLock!MutexSpecification
=============================================================================
