-------------------------------- MODULE Once --------------------------------
(***************************************************************************)
(* sync.Once (sync/once.go).  The mutex is a lock (MutexSpec, which Mutex  *)
(* is shown to implement); f may return or panic, and the two deferred     *)
(* calls run either way, the store of done before the unlock.              *)
(***************************************************************************)
EXTENDS Naturals

CONSTANT Goroutine

None == CHOOSE g : g \notin Goroutine

VARIABLES
  done,       \* Once.done
  owner,      \* who has Once.m, or None
  pc,
  calls,      \* history: how often f was called
  finished    \* history: whether a call of f has returned or panicked

vars == <<done, owner, pc, calls, finished>>

InMutex == {"test", "f", "store", "unlock"}

TypeOK ==
  /\ done \in BOOLEAN /\ finished \in BOOLEAN /\ calls \in Nat
  /\ owner \in Goroutine \cup {None}
  /\ pc \in [Goroutine -> InMutex \cup {"out", "load", "lock"}]

Init ==
  /\ done = FALSE /\ finished = FALSE /\ calls = 0
  /\ owner = None
  /\ pc = [g \in Goroutine |-> "out"]

At(g, l) == pc[g] = l
Goto(g, l) == pc' = [pc EXCEPT ![g] = l]

Do(g) ==
  /\ At(g, "out")
  /\ Goto(g, "load")
  /\ UNCHANGED <<done, owner, calls, finished>>

LoadDone(g) ==
  /\ At(g, "load")
  /\ Goto(g, IF done THEN "out" ELSE "lock")
  /\ UNCHANGED <<done, owner, calls, finished>>

Lock(g) ==
  /\ At(g, "lock") /\ owner = None
  /\ owner' = g
  /\ Goto(g, "test")
  /\ UNCHANGED <<done, calls, finished>>

TestDone(g) ==
  /\ At(g, "test")
  /\ \/ done /\ Goto(g, "unlock") /\ UNCHANGED calls
     \/ ~done /\ Goto(g, "f") /\ calls' = calls + 1
  /\ UNCHANGED <<done, owner, finished>>

\* f returns, or panics: the deferred calls follow in both cases.
EndOfF(g) ==
  /\ At(g, "f")
  /\ Goto(g, "store")
  /\ finished' = TRUE
  /\ UNCHANGED <<done, owner, calls>>

StoreDone(g) ==
  /\ At(g, "store")
  /\ done' = TRUE
  /\ Goto(g, "unlock")
  /\ UNCHANGED <<owner, calls, finished>>

Unlock(g) ==
  /\ At(g, "unlock")
  /\ owner' = None
  /\ Goto(g, "out")
  /\ UNCHANGED <<done, calls, finished>>

Step(g) ==
  \/ LoadDone(g) \/ Lock(g) \/ TestDone(g) \/ EndOfF(g) \/ StoreDone(g) \/ Unlock(g)

Next == \E g \in Goroutine : Do(g) \/ Step(g)

Spec == Init /\ [][Next]_vars

----------------------------------------------------------------------------
(* Properties *)

\* f is called at most once because whoever calls it has the mutex and leaves it
\* only with done set, and done is set only when f has finished.
OnceInv ==
  /\ TypeOK
  /\ \A g \in Goroutine : owner = g <=> pc[g] \in InMutex
  /\ calls = 0 \/ (calls = 1 /\ (done \/ \E g \in Goroutine : pc[g] \in {"f", "store"}))
  /\ done => finished
  /\ \A g \in Goroutine :
       /\ pc[g] \in {"f", "store"} => ~done /\ calls = 1
       /\ pc[g] = "store" => finished
       /\ pc[g] = "unlock" => done

\* "only the first call will invoke f", also when that call panicked.
CalledOnce == calls <= 1

\* "Do guarantees that when it returns, f has finished", on the fast path and
\* on the slow one.
ReturnsAfterF ==
  [][\A g \in Goroutine : (pc[g] # "out" /\ pc'[g] = "out") => finished]_vars

=============================================================================
