---------------------------- MODULE MutexProofs ----------------------------
(***************************************************************************)
(* Proofs about Mutex, with its semaphore, for any number of goroutines:   *)
(* the lock excludes in both modes, lockSlow and unlockSlow never throw,   *)
(* nobody sleeps beside a free mutex unnoticed, and the whole implements   *)
(* the lock of MutexSpec.                                                  *)
(*                                                                         *)
(* The argument is that there is at most one duty to wake somebody, or to  *)
(* hand the mutex over.  It passes from Unlock through the count of the    *)
(* semaphore, or a ticket, to the goroutine that semacquire1 returns to,   *)
(* and from there to its next CAS of the word.  In normal mode the woken   *)
(* bit says whether the duty exists; in starvation mode it always does,    *)
(* and who has it has the mutex.                                           *)
(*                                                                         *)
(* Beside it, the futex lock of the runtime for any number of threads, and *)
(* Once, which uses a Mutex, for any number of goroutines.                 *)
(***************************************************************************)
EXTENDS Mutex, TLAPS

USE Zenon
USE DEF semaVars, locals, mutexVars, In, MGoto, At, SGoto

AcquireLabels == {"easy", "lock", "announced", "parked", "ready"}
ReleaseLabels == {"loadNwait", "dequeue", "handoff"}
MutexLabels == LockLabels \cup {"out", "in", "unlockSlow", "semrelease", "releasing"}

Word == [locked : BOOLEAN, woken : BOOLEAN, starving : BOOLEAN, waiters : Nat]

Args == [addr : Addr \cup {None}, flag : BOOLEAN]

SemaTypes ==
  /\ count \in [Addr -> Nat] /\ waiters \in [Addr -> Seq(Goroutine)]
  /\ spc \in [Goroutine -> {"idle"} \cup AcquireLabels \cup ReleaseLabels]
  /\ sarg \in [Goroutine -> Args]
  /\ ticket \in [Goroutine -> {0, 1}]
  /\ woken \in [Goroutine -> Goroutine \cup {None}]

LocalTypes ==
  /\ old \in [Goroutine -> Word] /\ delta \in [Goroutine -> BOOLEAN]
  /\ awoke \in [Goroutine -> BOOLEAN] /\ starving \in [Goroutine -> BOOLEAN]

MutexTypes == state \in Word /\ mpc \in [Goroutine -> MutexLabels] /\ LocalTypes

(***************************************************************************)
(* Where a goroutine is in the semaphore, and what its local variables     *)
(* say, given where it is in Lock or Unlock.  A goroutine that is awake    *)
(* has seen the woken bit, however old its copy of the word is.            *)
(***************************************************************************)
Placed(g) ==
  /\ spc[g] \in AcquireLabels => In(g, "sema") /\ AddrOf(g) = Sem
  /\ spc[g] \in ReleaseLabels => In(g, "releasing") /\ AddrOf(g) = Sem
  /\ awoke[g] => mpc[g] \in {"load", "loop"}
  /\ starving[g] => awoke[g] \/ mpc[g] \in {"sema", "handover"}
  /\ awoke[g] /\ In(g, "loop") => old[g].woken
  /\ In(g, "trycas") => ~old[g].locked /\ ~old[g].starving

Control == \A g \in Goroutine : Placed(g)

(***************************************************************************)
(* The owner, and who has the duty: a goroutine that holds a permit of the *)
(* semaphore or is about to make one, is awake, hands the mutex over or,   *)
(* in starvation mode, has it.  Pool: the permit is in the count.          *)
(***************************************************************************)
OwnerIs(o) ==
  /\ o \in Goroutine \cup {None}
  /\ state.locked <=> o # None
  /\ \A g \in Goroutine : In(g, "in") <=> g = o

HasPermit(g) ==
  \/ In(g, "semrelease")
  \/ At(g, "ready") /\ ticket[g] # 0
  \/ In(g, "sema") /\ At(g, "idle")

Duty(g) ==
  \/ HasPermit(g) \/ awoke[g] \/ In(g, "handover")
  \/ state.starving /\ In(g, "in")

Pool == CHOOSE x : x \notin Goroutine \cup {None}

DutyIs(d) ==
  /\ d \in Goroutine \cup {None, Pool}
  /\ count[Sem] = IF d = Pool THEN 1 ELSE 0
  /\ \A g \in Goroutine : Duty(g) <=> g = d
  /\ ~state.starving => (state.woken <=> d # None)
  /\ state.starving => ~state.woken /\ d # None
  /\ \A g \in Goroutine : state.starving => ~awoke[g]
  /\ \A g \in Goroutine : In(g, "handover") => state.starving

(***************************************************************************)
(* The waiters field counts those that wait in the semaphore, less the one *)
(* a permit is under way to in normal mode, where Unlock has subtracted it *)
(* already: the woken bit is set and nobody is awake yet.                  *)
(***************************************************************************)
Waiting == {g \in Goroutine : mpc[g] \in {"sema", "handover"}}
Owed ==
  IF ~state.starving /\ state.woken /\ \A g \in Goroutine : ~awoke[g] THEN 1 ELSE 0
WaitersCounted == Cardinality(Waiting) = state.waiters + Owed

(***************************************************************************)
(* The queue of the semaphore, and whom semrelease1 has taken from it.     *)
(***************************************************************************)
Queued(g) == At(g, "parked") /\ \A h \in Goroutine : woken[h] # g
InQueue(g) == \E i \in 1 .. Len(waiters[Sem]) : waiters[Sem][i] = g
Distinct(q) == \A i, j \in 1 .. Len(q) : q[i] = q[j] => i = j
Taken(g) ==
  /\ woken[g] # None <=> At(g, "handoff")
  /\ \A s \in Goroutine : woken[g] = s =>
       /\ At(s, "parked") /\ ticket[s] = 0
       /\ \A h \in Goroutine : woken[h] = s => h = g
QueueOK ==
  /\ \A g \in Goroutine : InQueue(g) => Queued(g)
  /\ Distinct(waiters[Sem])
  /\ \A g \in Goroutine : Taken(g)

Announced == {g \in Goroutine : At(g, "announced") \/ Queued(g)}
NwaitCounts == nwait = Cardinality(Announced)

(***************************************************************************)
(* No permit lies beside a sleeper unless somebody is on the way who will  *)
(* see one or the other; and no unlocked word with waiters is left by all. *)
(***************************************************************************)
PermitSeen ==
  count[Sem] = 1 /\ waiters[Sem] # <<>> =>
    \E g \in Goroutine : spc[g] \notin {"idle", "parked"}

Untended(w) == ~w.locked /\ ~w.starving /\ ~w.woken /\ w.waiters # 0
WaitersSeen ==
  Untended(state) => \E g \in Goroutine : In(g, "unlockSlow") /\ Untended(old[g])

IInv ==
  /\ SemaTypes /\ MutexTypes /\ Control
  /\ \E o \in Goroutine \cup {None} : OwnerIs(o)
  /\ \E d \in Goroutine \cup {None, Pool} : DutyIs(d)
  /\ WaitersCounted /\ QueueOK /\ NwaitCounts /\ PermitSeen /\ WaitersSeen
  /\ ~fault

(***************************************************************************)
(* What the lemmas need of the constants, and of Cardinality; the latter   *)
(* is proved at the end, from the library.                                 *)
(***************************************************************************)
Consts ==
  /\ None \notin Goroutine /\ Pool \notin Goroutine /\ Pool # None /\ Sem \in Addr
  /\ NoArg \in Args /\ \A b \in BOOLEAN : [addr |-> Sem, flag |-> b] \in Args

GoroutineSets ==
  \A S \in SUBSET Goroutine : \A g \in Goroutine :
    /\ Cardinality(S) \in Nat
    /\ g \notin S => Cardinality(S \cup {g}) = Cardinality(S) + 1
    /\ g \in S => Cardinality(S \ {g}) = Cardinality(S) - 1

\* The constants are as the assumptions say.
LEMMA ConstsHold == Consts
BY SemaAssumption, MutexAssumption, NoSetContainsEverything DEF Consts, Pool, NoArg, Args

-----------------------------------------------------------------------------
(* Types *)


SemaLabels == {"idle"} \cup AcquireLabels \cup ReleaseLabels

\* The updates that the steps of the semaphore are made of keep its types.
LEMMA Updates ==
  ASSUME Consts, SemaTypes, NEW g \in Goroutine
  PROVE  /\ \A l \in SemaLabels : SGoto(g, l) => spc' \in [Goroutine -> SemaLabels]
         /\ Return(g) => spc' \in [Goroutine -> SemaLabels] /\ sarg' \in [Goroutine -> Args]
         /\ cansemacquire(Sem) \/ cannot(Sem) => count' \in [Addr -> Nat]
         /\ \A b : queue(g, Sem, b) => waiters' \in [Addr -> Seq(Goroutine)]
         /\ \A t \in {0, 1} : [ticket EXCEPT ![g] = t] \in [Goroutine -> {0, 1}]
<1> USE DEF Consts, SemaTypes
<1>1. \A l \in SemaLabels : SGoto(g, l) => spc' \in [Goroutine -> SemaLabels]
  BY DEF SemaLabels
<1>2. Return(g) => spc' \in [Goroutine -> SemaLabels] /\ sarg' \in [Goroutine -> Args]
  BY SMT DEF SemaLabels, Return
<1>3. cansemacquire(Sem) \/ cannot(Sem) => count' \in [Addr -> Nat]
  <2>1. cansemacquire(Sem) => count' \in [Addr -> Nat]
    BY SMT DEF cansemacquire
  <2>2. cannot(Sem) => count' \in [Addr -> Nat]
    BY DEF cannot
  <2> QED
    BY <2>1, <2>2
<1>4. \A b : queue(g, Sem, b) => waiters' \in [Addr -> Seq(Goroutine)]
  BY SMT DEF queue
<1>5. \A t \in {0, 1} : [ticket EXCEPT ![g] = t] \in [Goroutine -> {0, 1}]
  OBVIOUS
<1> QED
  BY <1>1, <1>2, <1>3, <1>4, <1>5

\* In the semaphore a goroutine is about the one of the mutex.
LEMMA AboutSem ==
  ASSUME Control, NEW g \in Goroutine, spc[g] \in AcquireLabels \cup ReleaseLabels
  PROVE  AddrOf(g) = Sem
BY DEF Control, Placed

\* Every step of the semaphore keeps its types,
LEMMA SemaTypesSema ==
  ASSUME Consts, SemaTypes, Control, NEW g \in Goroutine, SemaStep(g)
  PROVE  SemaTypes'
<1> USE DEF SemaTypes, SemaLabels, AcquireLabels, ReleaseLabels
<1>1. CASE AcquireEasy(g)
  BY <1>1, Updates, AboutSem DEF AcquireEasy
<1>2. CASE Announce(g)
  BY <1>2, Updates DEF Announce
<1>3. CASE AcquireOrPark(g)
  <2>1. AddrOf(g) = Sem
    BY <1>3, AboutSem DEF AcquireOrPark
  <2>2. waiters' \in [Addr -> Seq(Goroutine)] /\ count' \in [Addr -> Nat]
    BY <1>3, <2>1, Updates DEF AcquireOrPark
  <2>3. spc' \in [Goroutine -> SemaLabels] /\ sarg' \in [Goroutine -> Args]
    BY <1>3, Updates DEF AcquireOrPark
  <2> QED
    BY <1>3, <2>2, <2>3 DEF AcquireOrPark
<1>4. CASE Resume(g)
  BY <1>4, Updates, AboutSem DEF Resume
<1>5. CASE ReleaseEasy(g)
  BY <1>5, Updates DEF ReleaseEasy
<1>6. CASE Dequeue(g)
  <2>1. AddrOf(g) = Sem
    BY <1>6, AboutSem DEF Dequeue
  <2>2. CASE waiters[Sem] = <<>> \/ nwait = 0
    BY <1>6, <2>1, <2>2, Updates DEF Dequeue
  <2>3. CASE waiters[Sem] # <<>> /\ nwait # 0
    <3>1. Head(waiters[Sem]) \in Goroutine /\ Tail(waiters[Sem]) \in Seq(Goroutine)
      BY <2>3, SMT DEF Consts
    <3>2. Dequeued(g, Sem)
      BY <1>6, <2>1, <2>3 DEF Dequeue
    <3> QED
      BY <3>1, <3>2, Updates DEF Dequeued
  <2> QED
    BY <2>2, <2>3
<1>7. CASE Ready(g)
  <2>1. count' \in [Addr -> Nat] /\ ticket' \in [Goroutine -> {0, 1}]
    BY <1>7, Updates, AboutSem DEF Ready
  <2> QED
    BY <1>7, <2>1 DEF Ready, Consts
<1> QED
  BY <1>1, <1>2, <1>3, <1>4, <1>5, <1>6, <1>7 DEF SemaStep

\* and so do semacquire1 and semrelease1 when they are called.
LEMMA SemaTypesMutex ==
  ASSUME Consts, SemaTypes, NEW g \in Goroutine,
         \/ UNCHANGED semaVars
         \/ \E b \in BOOLEAN : semacquire(g, Sem, b)
         \/ \E b \in BOOLEAN : semrelease(g, Sem, b)
  PROVE  SemaTypes'
<1> USE DEF Consts, SemaTypes, AcquireLabels, ReleaseLabels
<1>1. CASE UNCHANGED semaVars
  BY <1>1
<1>2. CASE \E b \in BOOLEAN : semacquire(g, Sem, b)
  BY <1>2, SMT DEF semacquire
<1>3. CASE \E b \in BOOLEAN : semrelease(g, Sem, b)
  BY <1>3, SMT DEF semrelease
<1> QED
  BY <1>1, <1>2, <1>3

\* The words that the code writes, field by field.
WordIs(w, l, k, s, n) ==
  w \in Word /\ w.locked = l /\ w.woken = k /\ w.starving = s /\ w.waiters = n

LEMMA ZeroWord == Zero \in Word
BY SMT DEF Zero, Word

LEMMA Words ==
  ASSUME NEW w \in Word
  PROVE  /\ w.locked \in BOOLEAN /\ w.woken \in BOOLEAN
         /\ w.starving \in BOOLEAN /\ w.waiters \in Nat
         /\ WordIs(Zero, FALSE, FALSE, FALSE, 0)
         /\ WordIs([w EXCEPT !.locked = TRUE], TRUE, w.woken, w.starving, w.waiters)
         /\ WordIs([w EXCEPT !.locked = FALSE], FALSE, w.woken, w.starving, w.waiters)
         /\ WordIs([w EXCEPT !.woken = TRUE], w.locked, TRUE, w.starving, w.waiters)
<1> USE DEF Word, WordIs, Zero
<1>1. w.locked \in BOOLEAN /\ w.woken \in BOOLEAN /\ w.starving \in BOOLEAN /\ w.waiters \in Nat
  BY SMT
<1>2. WordIs(Zero, FALSE, FALSE, FALSE, 0)
  BY SMT
<1>3. /\ WordIs([w EXCEPT !.locked = TRUE], TRUE, w.woken, w.starving, w.waiters)
      /\ WordIs([w EXCEPT !.locked = FALSE], FALSE, w.woken, w.starving, w.waiters)
      /\ WordIs([w EXCEPT !.woken = TRUE], w.locked, TRUE, w.starving, w.waiters)
  OBVIOUS
<1> QED
  BY <1>1, <1>2, <1>3

LEMMA WordsCounted ==
  ASSUME NEW w \in Word, w.waiters # 0, NEW d \in BOOLEAN
  PROVE  /\ w.waiters - 1 \in Nat
         /\ WordIs([w EXCEPT !.waiters = @ - 1, !.woken = TRUE],
                   w.locked, TRUE, w.starving, w.waiters - 1)
         /\ WordIs([w EXCEPT !.locked = TRUE, !.waiters = @ - 1, !.starving = @ /\ ~d],
                   TRUE, w.woken, w.starving /\ ~d, w.waiters - 1)
<1> USE DEF Word, WordIs
<1>1. /\ w.waiters - 1 \in Nat
      /\ WordIs([w EXCEPT !.waiters = @ - 1, !.woken = TRUE],
                w.locked, TRUE, w.starving, w.waiters - 1)
  <2>1. w.waiters \in Nat
    BY SMT
  <2>2. w.waiters - 1 \in Nat
    BY <2>1, SMT
  <2> QED
    BY <2>2
<1>2. CASE d
  <2>1. (w.starving /\ ~d) = FALSE
    BY <1>2, SMT
  <2>2. WordIs([w EXCEPT !.locked = TRUE, !.waiters = @ - 1, !.starving = FALSE],
               TRUE, w.woken, FALSE, w.waiters - 1)
    BY <1>1
  <2> QED
    BY <1>1, <2>1, <2>2
<1>3. CASE ~d
  <2>1. (w.starving /\ ~d) = w.starving
    BY <1>3, SMT
  <2>2. WordIs([w EXCEPT !.locked = TRUE, !.waiters = @ - 1, !.starving = w.starving],
               TRUE, w.woken, w.starving, w.waiters - 1)
    BY <1>1
  <2> QED
    BY <1>1, <2>1, <2>2
<1> QED
  BY <1>2, <1>3

\* What lockSlow stores.
LEMMA NewWord ==
  ASSUME MutexTypes, NEW g \in Goroutine
  PROVE  WordIs(NewState(g), old[g].locked \/ ~old[g].starving,
                old[g].woken /\ ~awoke[g],
                old[g].starving \/ (starving[g] /\ old[g].locked),
                IF old[g].locked \/ old[g].starving THEN old[g].waiters + 1
                                                    ELSE old[g].waiters)
<1>1. old[g] \in Word /\ awoke[g] \in BOOLEAN /\ starving[g] \in BOOLEAN
  BY DEF MutexTypes, LocalTypes
<1> QED
  BY <1>1, SMT DEF NewState, Word, WordIs

-----------------------------------------------------------------------------
(* What a step does to the duty, goroutine by goroutine *)

MoveFrame(g) == \A h \in Goroutine : h # g => mpc'[h] = mpc[h]
LocalFrame(g) ==
  \A h \in Goroutine : h # g =>
    old'[h] = old[h] /\ awoke'[h] = awoke[h] /\ starving'[h] = starving[h]

Done(g) == MoveFrame(g) /\ LocalFrame(g) /\ MutexTypes' /\ Placed(g)'

\* Where a goroutine neither has nor awaits anything.
Plain == {"out", "lock", "trylock", "trycas", "load", "loop", "unlockSlow", "releasing"}

\* A step between two such places that leaves the word alone.
Quiet(g) ==
  /\ mpc[g] \in Plain /\ mpc'[g] \in Plain /\ awoke'[g] = awoke[g]
  /\ Untended(state) /\ In(g, "unlockSlow") /\ Untended(old[g]) =>
       mpc'[g] = "unlockSlow" /\ Untended(old'[g])
  /\ UNCHANGED <<semaVars, state>>

\* A spinning goroutine sets the woken bit.
SetsWoken(g) ==
  /\ In(g, "loop") /\ mpc'[g] = "load" /\ ~awoke[g] /\ awoke'[g]
  /\ state.locked /\ ~state.starving /\ ~state.woken
  /\ WordIs(state', state.locked, TRUE, FALSE, state.waiters)
  /\ UNCHANGED semaVars

\* A CAS takes a free mutex.
Takes(g) ==
  /\ mpc[g] \in {"lock", "trycas", "loop"} /\ mpc'[g] = "in" /\ ~awoke'[g]
  /\ ~state.locked /\ ~state.starving
  /\ WordIs(state', TRUE, state.woken /\ ~awoke[g], FALSE, state.waiters)
  /\ UNCHANGED semaVars

\* A CAS adds a waiter, and may start starvation mode.
JoinsWaiters(g) ==
  /\ In(g, "loop") /\ mpc'[g] = "sema" /\ ~awoke'[g] /\ (starving[g] => awoke[g])
  /\ state.locked \/ state.starving
  /\ WordIs(state', state.locked, state.woken /\ ~awoke[g], state.starving \/ starving[g],
            state.waiters + 1)
  /\ At(g, "idle") /\ spc' = [spc EXCEPT ![g] = "easy"]
  /\ UNCHANGED <<count, nwait, waiters, ticket, woken>>

\* The semaphore was acquired, in normal mode and in starvation mode.
WakesUp(g) ==
  /\ In(g, "sema") /\ At(g, "idle") /\ mpc'[g] = "loop" /\ awoke'[g]
  /\ ~state.starving /\ UNCHANGED <<semaVars, state>>
Inherits(g) ==
  /\ In(g, "sema") /\ At(g, "idle") /\ mpc'[g] = "handover" /\ ~awoke'[g]
  /\ state.starving /\ UNCHANGED <<semaVars, state>>

\* The hand-over, which may end starvation mode.
Inherited(g) ==
  /\ In(g, "handover") /\ mpc'[g] = "in" /\ ~awoke'[g]
  /\ state.waiters # 0
  /\ WordIs(state', TRUE, state.woken, state.starving /\ ~delta[g], state.waiters - 1)
  /\ UNCHANGED semaVars

\* Unlock, in normal mode and in starvation mode.
Frees(g) ==
  /\ In(g, "in") /\ mpc'[g] \in {"out", "unlockSlow"} /\ ~awoke'[g] /\ ~state.starving
  /\ WordIs(state', FALSE, state.woken, FALSE, state.waiters)
  /\ Untended(state') => mpc'[g] = "unlockSlow" /\ Untended(old'[g])
  /\ UNCHANGED semaVars
FreesTo(g) ==
  /\ In(g, "in") /\ mpc'[g] = "semrelease" /\ ~awoke'[g] /\ state.starving
  /\ WordIs(state', FALSE, state.woken, TRUE, state.waiters)
  /\ UNCHANGED semaVars

\* unlockSlow decides to wake a waiter,
WakesOne(g) ==
  /\ In(g, "unlockSlow") /\ mpc'[g] = "semrelease" /\ ~awoke'[g]
  /\ ~state.locked /\ ~state.starving /\ ~state.woken /\ state.waiters # 0
  /\ WordIs(state', FALSE, TRUE, FALSE, state.waiters - 1)
  /\ UNCHANGED semaVars

\* and releases the semaphore.
MakesPermit(g) ==
  /\ In(g, "semrelease") /\ mpc'[g] = "releasing" /\ ~awoke'[g]
  /\ At(g, "idle") /\ spc' = [spc EXCEPT ![g] = "loadNwait"]
  /\ count' = [count EXCEPT ![Sem] = @ + 1]
  /\ UNCHANGED <<nwait, waiters, ticket, woken, state>>

Effect(g) ==
  \/ Quiet(g) \/ SetsWoken(g) \/ Takes(g) \/ JoinsWaiters(g) \/ WakesUp(g) \/ Inherits(g)
  \/ Inherited(g) \/ Frees(g) \/ FreesTo(g) \/ WakesOne(g) \/ MakesPermit(g)

\* What no throw and no carry depends on: the word when the mutex is handed over.
Sound(g) ==
  /\ In(g, "sema") /\ At(g, "idle") /\ state.starving =>
       ~state.locked /\ ~state.woken /\ state.waiters # 0
  /\ In(g, "sema") /\ At(g, "idle") /\ ~state.starving => state.woken
  /\ awoke[g] => state.woken
  /\ In(g, "handover") => state.starving /\ ~state.locked /\ state.waiters # 0
  /\ In(g, "in") => state.locked


\* Assignments to the local variables, and the end of a call.
Moved(g, l) == mpc' \in [Goroutine -> MutexLabels] /\ mpc'[g] = l /\ MoveFrame(g)

LEMMA Moves ==
  ASSUME MutexTypes, NEW g \in Goroutine, NEW l \in MutexLabels, MGoto(g, l)
  PROVE  Moved(g, l)
BY DEF MutexTypes, Moved, MoveFrame

LocalsAre(g, w, a, s) ==
  LocalTypes' /\ LocalFrame(g) /\ old'[g] = w /\ awoke'[g] = a /\ starving'[g] = s

LEMMA Keeps ==
  ASSUME MutexTypes, NEW g \in Goroutine, UNCHANGED <<old, awoke, starving, delta>>
  PROVE  LocalsAre(g, old[g], awoke[g], starving[g])
BY DEF MutexTypes, LocalTypes, LocalsAre, LocalFrame

LEMMA Loads ==
  ASSUME MutexTypes, NEW g \in Goroutine, NEW w \in Word,
         old' = [old EXCEPT ![g] = w], UNCHANGED <<awoke, starving, delta>>
  PROVE  LocalsAre(g, w, awoke[g], starving[g])
BY DEF MutexTypes, LocalTypes, LocalsAre, LocalFrame

LEMMA Forgets ==
  ASSUME MutexTypes, NEW g \in Goroutine, Forget(g)
  PROVE  LocalsAre(g, Zero, FALSE, FALSE)
<1>1. /\ awoke \in [Goroutine -> BOOLEAN] /\ awoke' = [awoke EXCEPT ![g] = FALSE]
      /\ starving \in [Goroutine -> BOOLEAN] /\ starving' = [starving EXCEPT ![g] = FALSE]
      /\ delta \in [Goroutine -> BOOLEAN] /\ delta' = [delta EXCEPT ![g] = FALSE]
      /\ old \in [Goroutine -> Word] /\ old' = [old EXCEPT ![g] = Zero]
  BY DEF Forget, MutexTypes, LocalTypes
<1>2. /\ awoke' \in [Goroutine -> BOOLEAN] /\ awoke'[g] = FALSE
      /\ \A h \in Goroutine : h # g => awoke'[h] = awoke[h]
  BY <1>1
<1>3. /\ starving' \in [Goroutine -> BOOLEAN] /\ starving'[g] = FALSE
      /\ \A h \in Goroutine : h # g => starving'[h] = starving[h]
  BY <1>1
<1>4. delta' \in [Goroutine -> BOOLEAN]
  BY <1>1
<1>5. /\ old' \in [Goroutine -> Word] /\ old'[g] = Zero
      /\ \A h \in Goroutine : h # g => old'[h] = old[h]
  BY <1>1, ZeroWord
<1> QED
  BY <1>2, <1>3, <1>4, <1>5 DEF LocalTypes, LocalFrame, LocalsAre

\* What is left to check of a step, once it is known what it assigns.
LEMMA Finish ==
  ASSUME NEW g \in Goroutine, NEW l, NEW w, NEW a, NEW s,
         Moved(g, l), LocalsAre(g, w, a, s), state' \in Word, Placed(g)'
  PROVE  Done(g)
BY DEF Done, Moved, LocalsAre, MutexTypes

\* All the places there are.
LEMMA Places == \A l \in {"out", "lock", "trylock", "trycas", "load", "loop", "sema", "handover",
                          "in", "unlockSlow", "semrelease", "releasing"} : l \in MutexLabels
BY DEF MutexLabels, LockLabels, SlowLabels

\* What the actions of Lock and Unlock do: the calls,
LEMMA DoesCall ==
  ASSUME NEW g \in Goroutine, MutexTypes, Placed(g), NEW l \in {"lock", "trylock"}, Call(g, l)
  PROVE  Quiet(g) /\ Done(g) /\ fault' = fault
<1>1. Moved(g, l) /\ LocalsAre(g, old[g], awoke[g], starving[g])
  BY Moves, Keeps, Places DEF Call
<1>2. Quiet(g) /\ Placed(g)'
  BY <1>1 DEF Call, Quiet, Placed, Plain, AcquireLabels, ReleaseLabels, Moved, LocalsAre
<1> QED
  BY <1>1, <1>2, Finish DEF Call, MutexTypes

\* Lock without contention,
LEMMA DoesLockFast ==
  ASSUME NEW g \in Goroutine, MutexTypes, Placed(g), LockFast(g)
  PROVE  (Takes(g) \/ Quiet(g)) /\ Done(g) /\ fault' = fault
<1> USE DEF LockFast, Placed, AcquireLabels, ReleaseLabels, Moved, LocalsAre
<1>1. LocalsAre(g, old[g], awoke[g], starving[g])
  BY Keeps
<1>2. CASE state = Zero
  <2>1. Moved(g, "in") /\ state' = [Zero EXCEPT !.locked = TRUE]
    BY <1>2, Moves, Places
  <2>2. awoke[g] = FALSE
    BY DEF MutexTypes, LocalTypes
  <2>3. WordIs(state, FALSE, FALSE, FALSE, 0) /\ WordIs(state', TRUE, FALSE, FALSE, 0)
    BY <1>2, <2>1 DEF WordIs, Zero, Word
  <2>4. Takes(g)
    BY <1>1, <2>1, <2>2, <2>3 DEF Takes, WordIs
  <2>5. Placed(g)'
    BY <1>1, <2>1, <2>2
  <2> QED
    BY <1>1, <2>1, <2>3, <2>4, <2>5, Finish DEF WordIs
<1>3. CASE state # Zero
  <2>1. Moved(g, "load")
    BY <1>3, Moves, Places
  <2>2. Quiet(g) /\ Placed(g)'
    BY <1>1, <1>3, <2>1 DEF Quiet, Plain
  <2> QED
    BY <1>1, <1>3, <2>1, <2>2, Finish DEF MutexTypes
<1> QED
  BY <1>2, <1>3

\* TryLock,
LEMMA DoesTryLockLoad ==
  ASSUME NEW g \in Goroutine, MutexTypes, Placed(g), TryLockLoad(g)
  PROVE  Quiet(g) /\ Done(g) /\ fault' = fault
<1> USE DEF TryLockLoad, Placed, AcquireLabels, ReleaseLabels, Moved, LocalsAre, Quiet, Plain
<1>1. CASE state.locked \/ state.starving
  <2>1. Moved(g, "out") /\ LocalsAre(g, old[g], awoke[g], starving[g])
    BY <1>1, Moves, Keeps, Places
  <2>2. Quiet(g) /\ Placed(g)'
    BY <2>1
  <2> QED
    BY <2>1, <2>2, Finish DEF MutexTypes
<1>2. CASE ~state.locked /\ ~state.starving
  <2>1. Moved(g, "trycas") /\ LocalsAre(g, state, awoke[g], starving[g])
    BY <1>2, Moves, Loads, Places DEF MutexTypes
  <2>2. Quiet(g) /\ Placed(g)'
    BY <1>2, <2>1
  <2> QED
    BY <2>1, <2>2, Finish DEF MutexTypes
<1> QED
  BY <1>1, <1>2

LEMMA DoesTryLockCas ==
  ASSUME NEW g \in Goroutine, MutexTypes, Placed(g), TryLockCas(g)
  PROVE  (Takes(g) \/ Quiet(g)) /\ Done(g) /\ fault' = fault
<1> USE DEF TryLockCas, Placed, AcquireLabels, ReleaseLabels, Moved, LocalsAre
<1>1. LocalsAre(g, Zero, FALSE, FALSE)
  BY Forgets
<1>2. awoke[g] = FALSE /\ state \in Word
  BY DEF MutexTypes, LocalTypes
<1>3. CASE state = old[g]
  <2>1. Moved(g, "in") /\ state' = [state EXCEPT !.locked = TRUE]
    BY <1>3, Moves, Places
  <2>2. ~state.locked /\ ~state.starving /\ (state.woken /\ ~awoke[g]) = state.woken
    BY <1>2, <1>3, Words
  <2>3. WordIs(state', TRUE, state.woken, state.starving, state.waiters)
    BY <1>2, <2>1, Words
  <2>4. state.starving = FALSE
    BY <1>2, <2>2, Words
  <2>5. Takes(g) /\ Placed(g)'
    BY <1>1, <2>1, <2>2, <2>3, <2>4 DEF Takes
  <2> QED
    BY <1>1, <2>1, <2>3, <2>5, Finish DEF WordIs
<1>4. CASE state # old[g]
  <2>1. Moved(g, "out")
    BY <1>4, Moves, Places
  <2>2. Quiet(g) /\ Placed(g)'
    BY <1>1, <1>2, <1>4, <2>1 DEF Quiet, Plain
  <2> QED
    BY <1>1, <1>2, <1>4, <2>1, <2>2, Finish
<1> QED
  BY <1>3, <1>4

\* the loop of lockSlow,
LEMMA DoesLoadState ==
  ASSUME NEW g \in Goroutine, MutexTypes, Placed(g), Sound(g), LoadState(g)
  PROVE  Quiet(g) /\ Done(g) /\ fault' = fault
<1> USE DEF LoadState, Placed, AcquireLabels, ReleaseLabels, Moved, LocalsAre
<1>1. Moved(g, "loop") /\ LocalsAre(g, state, awoke[g], starving[g])
  BY Moves, Loads, Places DEF MutexTypes
<1>2. Quiet(g) /\ Placed(g)'
  BY <1>1 DEF Quiet, Plain, Sound
<1> QED
  BY <1>1, <1>2, Finish DEF MutexTypes

LEMMA DoesSpin ==
  ASSUME NEW g \in Goroutine, MutexTypes, Placed(g), Spin(g)
  PROVE  (SetsWoken(g) \/ Quiet(g)) /\ Done(g) /\ fault' = fault
<1> USE DEF Spin, Placed, AcquireLabels, ReleaseLabels, Moved, LocalsAre
<1>1. Moved(g, "load") /\ state \in Word
  BY Moves, Places DEF MutexTypes
<1>2. CASE ~awoke[g] /\ ~old[g].woken /\ old[g].waiters # 0 /\ state = old[g]
  <2>1. /\ state' = [state EXCEPT !.woken = TRUE] /\ awoke' = [awoke EXCEPT ![g] = TRUE]
        /\ UNCHANGED <<semaVars, old, starving, delta, fault>>
    BY <1>2
  <2>2. WordIs(state', state.locked, TRUE, state.starving, state.waiters)
    BY <1>1, <2>1, Words
  <2>3. state.locked /\ ~state.starving /\ state.starving = FALSE /\ ~state.woken
    BY <1>1, <1>2, Words
  <2>4. LocalsAre(g, old[g], TRUE, starving[g])
    BY <2>1 DEF MutexTypes, LocalTypes, LocalFrame
  <2>5. SetsWoken(g) /\ Placed(g)'
    BY <1>1, <1>2, <2>1, <2>2, <2>3, <2>4 DEF SetsWoken
  <2> QED
    BY <1>1, <2>1, <2>2, <2>4, <2>5, Finish DEF WordIs
<1>3. CASE ~(~awoke[g] /\ ~old[g].woken /\ old[g].waiters # 0 /\ state = old[g])
  <2>1. UNCHANGED <<semaVars, old, starving, delta, fault, state, awoke>>
    BY <1>3
  <2>2. LocalsAre(g, old[g], awoke[g], starving[g])
    BY <2>1, Keeps
  <2>3. Quiet(g) /\ Placed(g)'
    BY <1>1, <2>1, <2>2 DEF Quiet, Plain
  <2> QED
    BY <1>1, <2>1, <2>2, <2>3, Finish
<1> QED
  BY <1>2, <1>3

LEMMA DoesTryState ==
  ASSUME NEW g \in Goroutine, Consts, SemaTypes, MutexTypes, Placed(g), ~fault, TryState(g)
  PROVE  (Takes(g) \/ JoinsWaiters(g) \/ Quiet(g)) /\ Done(g) /\ ~fault'
<1> USE DEF Placed, AcquireLabels, ReleaseLabels, Moved, LocalsAre
<1> DEFINE o == old[g]
<1>1. ~fault' /\ In(g, "loop") /\ At(g, "idle") /\ (starving[g] => awoke[g])
  BY DEF TryState, SemaTypes
<1>2. state \in Word /\ o \in Word /\ awoke[g] \in BOOLEAN /\ starving[g] \in BOOLEAN
  BY DEF MutexTypes, LocalTypes
<1>3. CASE state # o
  <2>1. Moved(g, "load") /\ UNCHANGED <<semaVars, state, locals>>
    BY <1>3, Moves, Places DEF TryState
  <2>2. LocalsAre(g, old[g], awoke[g], starving[g])
    BY <2>1, Keeps
  <2>3. Quiet(g) /\ Placed(g)'
    BY <1>1, <2>1, <2>2 DEF Quiet, Plain
  <2> QED
    BY <1>1, <1>2, <2>1, <2>2, <2>3, Finish
<1>4. CASE state = o /\ ForTheTaking(o)
  <2>1. Moved(g, "in") /\ Forget(g) /\ state' = NewState(g) /\ UNCHANGED semaVars
    BY <1>4, Moves, Places DEF TryState
  <2>2. LocalsAre(g, Zero, FALSE, FALSE)
    BY <2>1, Forgets
  <2>3. ~state.locked /\ ~state.starving
    BY <1>4 DEF ForTheTaking
  <2>4. WordIs(state', TRUE, state.woken /\ ~awoke[g], FALSE, state.waiters)
    BY <1>2, <1>4, <2>1, <2>3, NewWord, Words DEF WordIs
  <2>5. Takes(g) /\ Placed(g)'
    BY <1>1, <2>1, <2>2, <2>3, <2>4 DEF Takes
  <2> QED
    BY <1>1, <2>1, <2>2, <2>4, <2>5, Finish DEF WordIs
<1>5. CASE state = o /\ ~ForTheTaking(o)
  <2>1. /\ Moved(g, "sema") /\ state' = NewState(g) /\ semacquire(g, Sem, waits[g] # 0)
        /\ old' = [old EXCEPT ![g] = Zero] /\ awoke' = [awoke EXCEPT ![g] = FALSE]
        /\ UNCHANGED <<starving, delta>>
    BY <1>5, Moves, Places DEF TryState
  <2>2. LocalsAre(g, Zero, FALSE, starving[g])
    <3>1. /\ old' \in [Goroutine -> Word] /\ old'[g] = Zero
          /\ \A h \in Goroutine : h # g => old'[h] = old[h]
      BY <2>1, ZeroWord DEF MutexTypes, LocalTypes
    <3>2. /\ awoke' \in [Goroutine -> BOOLEAN] /\ awoke'[g] = FALSE
          /\ \A h \in Goroutine : h # g => awoke'[h] = awoke[h]
      BY <2>1 DEF MutexTypes, LocalTypes
    <3> QED
      BY <2>1, <3>1, <3>2 DEF MutexTypes, LocalTypes, LocalFrame
  <2>3. state.locked \/ state.starving
    BY <1>5 DEF ForTheTaking
  <2>4. WordIs(state', state.locked, state.woken /\ ~awoke[g], state.starving \/ starving[g],
               state.waiters + 1)
    <3>1. (o.locked \/ ~o.starving) = o.locked
      BY <1>2, <1>5, <2>3, Words
    <3>2. (o.starving \/ (starving[g] /\ o.locked)) = (o.starving \/ starving[g])
      BY <1>2, <1>5, <2>3, Words, SMT
    <3> QED
      BY <1>5, <2>1, <2>3, <3>1, <3>2, NewWord
  <2>5. spc' = [spc EXCEPT ![g] = "easy"] /\ AddrOf(g)' = Sem
    BY <2>1, SMT DEF semacquire, SemaTypes, AddrOf
  <2>6. JoinsWaiters(g)
    BY <1>1, <2>1, <2>2, <2>3, <2>4, <2>5 DEF JoinsWaiters, semacquire
  <2>7. spc'[g] = "easy"
    BY <2>5 DEF SemaTypes
  <2>8. Placed(g)'
    BY <2>1, <2>2, <2>5, <2>7, SMT
  <2> QED
    BY <1>1, <2>1, <2>2, <2>4, <2>6, <2>8, Finish DEF WordIs
<1> QED
  BY <1>3, <1>4, <1>5

\* the return from the semaphore and the hand-over,
LEMMA DoesAcquired ==
  ASSUME NEW g \in Goroutine, MutexTypes, Placed(g), Sound(g), ~fault, Acquired(g)
  PROVE  (WakesUp(g) \/ Inherits(g)) /\ Done(g) /\ ~fault'
<1> USE DEF Placed, AcquireLabels, ReleaseLabels, Moved, LocalsAre
<1>1. PICK late \in BOOLEAN : starving' = [starving EXCEPT ![g] = @ \/ late]
  BY DEF Acquired, Waited
<1>2. /\ starving' \in [Goroutine -> BOOLEAN]
      /\ \A h \in Goroutine : h # g => starving'[h] = starving[h]
  BY <1>1, SMT DEF MutexTypes, LocalTypes
<1>3. state \in Word /\ state' = state /\ In(g, "sema") /\ At(g, "idle") /\ ~awoke[g]
      /\ UNCHANGED semaVars
  BY DEF Acquired, MutexTypes
<1>4. CASE state.starving
  <2>1. /\ Moved(g, "handover") /\ UNCHANGED <<old, awoke>>
        /\ delta' = [delta EXCEPT ![g] = ~starving'[g] \/ state.waiters = 1]
        /\ ~fault'
    BY <1>4, Moves, Places DEF Acquired, Sound
  <2>2. delta' \in [Goroutine -> BOOLEAN]
    BY <2>1, SMT DEF MutexTypes, LocalTypes
  <2>3. LocalsAre(g, old[g], awoke[g], starving'[g])
    BY <1>2, <2>1, <2>2 DEF MutexTypes, LocalTypes, LocalFrame
  <2>4. Inherits(g) /\ Placed(g)'
    BY <1>3, <1>4, <2>1, <2>3 DEF Inherits
  <2> QED
    BY <1>3, <2>1, <2>3, <2>4, Finish
<1>5. CASE ~state.starving
  <2>1. /\ Moved(g, "loop") /\ UNCHANGED <<delta, fault>>
        /\ old' = [old EXCEPT ![g] = state] /\ awoke' = [awoke EXCEPT ![g] = TRUE]
    BY <1>5, Moves, Places DEF Acquired
  <2>2. /\ old' \in [Goroutine -> Word] /\ old'[g] = state
        /\ \A h \in Goroutine : h # g => old'[h] = old[h]
    BY <1>3, <2>1 DEF MutexTypes, LocalTypes
  <2>3. /\ awoke' \in [Goroutine -> BOOLEAN] /\ awoke'[g] = TRUE
        /\ \A h \in Goroutine : h # g => awoke'[h] = awoke[h]
    BY <2>1 DEF MutexTypes, LocalTypes
  <2>4. LocalsAre(g, state, TRUE, starving'[g])
    BY <1>2, <2>1, <2>2, <2>3 DEF MutexTypes, LocalTypes, LocalFrame
  <2>5. WakesUp(g) /\ Placed(g)'
    BY <1>3, <1>5, <2>1, <2>4 DEF WakesUp, Sound
  <2> QED
    BY <1>3, <2>1, <2>4, <2>5, Finish
<1> QED
  BY <1>4, <1>5

LEMMA DoesHandOver ==
  ASSUME NEW g \in Goroutine, MutexTypes, Placed(g), Sound(g), ~fault, HandOver(g)
  PROVE  Inherited(g) /\ Done(g) /\ ~fault'
<1> USE DEF HandOver, Placed, AcquireLabels, ReleaseLabels, Moved, LocalsAre
<1>1. Moved(g, "in") /\ LocalsAre(g, Zero, FALSE, FALSE)
  BY Moves, Forgets, Places
<1>2. state \in Word /\ delta[g] \in BOOLEAN /\ state.waiters # 0 /\ ~fault'
  BY DEF MutexTypes, LocalTypes, Sound
<1>3. WordIs(state', TRUE, state.woken, state.starving /\ ~delta[g], state.waiters - 1)
  BY <1>2, WordsCounted
<1>4. Inherited(g) /\ Placed(g)'
  BY <1>1, <1>2, <1>3 DEF Inherited
<1> QED
  BY <1>1, <1>2, <1>3, <1>4, Finish DEF WordIs

\* and Unlock.
LEMMA DoesUnlock ==
  ASSUME NEW g \in Goroutine, MutexTypes, Placed(g), Sound(g), ~fault, Unlock(g)
  PROVE  (Frees(g) \/ FreesTo(g)) /\ Done(g) /\ ~fault'
<1> USE DEF Placed, AcquireLabels, ReleaseLabels, Moved, LocalsAre
<1>1. /\ state \in Word /\ state' = [state EXCEPT !.locked = FALSE] /\ In(g, "in") /\ ~fault'
      /\ UNCHANGED <<semaVars, awoke, starving, delta>> /\ awoke[g] = FALSE
  BY DEF Unlock, MutexTypes, LocalTypes, Sound
<1>2. WordIs(state', FALSE, state.woken, state.starving, state.waiters)
  BY <1>1, Words
<1>3. CASE state' = Zero
  <2>1. Moved(g, "out") /\ UNCHANGED old
    BY <1>1, <1>3, Moves, Places DEF Unlock
  <2>2. LocalsAre(g, old[g], awoke[g], starving[g])
    BY <1>1, <2>1, Keeps
  <2>3. state.starving = FALSE /\ ~Untended(state')
    <3>1. WordIs(state', FALSE, FALSE, FALSE, 0)
      BY <1>1, <1>3, Words
    <3> QED
      BY <1>2, <3>1 DEF WordIs, Untended
  <2>4. Frees(g) /\ Placed(g)'
    BY <1>1, <1>2, <2>1, <2>2, <2>3 DEF Frees
  <2> QED
    BY <1>1, <1>2, <2>1, <2>2, <2>4, Finish DEF WordIs
<1>4. CASE state' # Zero
  <2>1. old' = [old EXCEPT ![g] = state']
    BY <1>1, <1>4 DEF Unlock
  <2>2. LocalsAre(g, state', awoke[g], starving[g])
    BY <1>1, <1>2, <2>1, Loads DEF WordIs
  <2>3. CASE state.starving
    <3>1. Moved(g, "semrelease")
      BY <1>1, <1>2, <1>4, <2>3, Moves, Places DEF Unlock, WordIs
    <3>2. state.starving = TRUE
      BY <1>1, <2>3, Words
    <3>3. FreesTo(g) /\ Placed(g)'
      BY <1>1, <1>2, <2>2, <3>1, <3>2 DEF FreesTo
    <3> QED
      BY <1>1, <1>2, <2>2, <3>1, <3>3, Finish DEF WordIs
  <2>4. CASE ~state.starving
    <3>1. Moved(g, "unlockSlow")
      BY <1>1, <1>2, <1>4, <2>4, Moves, Places DEF Unlock, WordIs
    <3>2. state.starving = FALSE
      BY <1>1, <2>4, Words
    <3>3. Frees(g) /\ Placed(g)'
      BY <1>1, <1>2, <2>2, <3>1, <3>2 DEF Frees
    <3> QED
      BY <1>1, <1>2, <2>2, <3>1, <3>3, Finish DEF WordIs
  <2> QED
    BY <2>3, <2>4
<1> QED
  BY <1>3, <1>4

LEMMA DoesUnlockSlow ==
  ASSUME NEW g \in Goroutine, MutexTypes, Placed(g), UnlockSlow(g)
  PROVE  (WakesOne(g) \/ Quiet(g)) /\ Done(g) /\ fault' = fault
<1> USE DEF Placed, AcquireLabels, ReleaseLabels, Moved, LocalsAre
<1> DEFINE o == old[g]
<1>1. state \in Word /\ o \in Word /\ In(g, "unlockSlow") /\ UNCHANGED <<semaVars, fault>>
      /\ awoke[g] = FALSE
  BY DEF UnlockSlow, MutexTypes, LocalTypes
<1>2. CASE NobodyToWake(o)
  <2>1. Moved(g, "out") /\ LocalsAre(g, Zero, FALSE, FALSE) /\ UNCHANGED state
    BY <1>2, Moves, Forgets, Places DEF UnlockSlow
  <2>2. ~Untended(o)
    BY <1>2 DEF NobodyToWake, Untended
  <2>3. Quiet(g) /\ Placed(g)'
    BY <1>1, <2>1, <2>2 DEF Quiet, Plain
  <2> QED
    BY <1>1, <2>1, <2>3, Finish
<1>3. CASE ~NobodyToWake(o) /\ state = o
  <2>1. /\ Moved(g, "semrelease") /\ UNCHANGED locals
        /\ state' = [state EXCEPT !.waiters = @ - 1, !.woken = TRUE]
    BY <1>3, Moves, Places DEF UnlockSlow
  <2>2. LocalsAre(g, old[g], awoke[g], starving[g])
    BY <2>1, Keeps
  <2>3. /\ ~state.locked /\ ~state.starving /\ ~state.woken /\ state.waiters # 0
        /\ state.locked = FALSE /\ state.starving = FALSE
    BY <1>1, <1>3, Words DEF NobodyToWake
  <2>4. WordIs(state', state.locked, TRUE, state.starving, state.waiters - 1)
    BY <1>1, <2>1, <2>3, WordsCounted
  <2>5. WakesOne(g) /\ Placed(g)'
    BY <1>1, <2>1, <2>2, <2>3, <2>4 DEF WakesOne
  <2> QED
    BY <1>1, <2>1, <2>2, <2>4, <2>5, Finish DEF WordIs
<1>4. CASE ~NobodyToWake(o) /\ state # o
  <2>1. UNCHANGED <<mpc, state, awoke, starving, delta>> /\ old' = [old EXCEPT ![g] = state]
    BY <1>4 DEF UnlockSlow
  <2>2. Moved(g, "unlockSlow")
    BY <1>1, <2>1 DEF MutexTypes, MoveFrame
  <2>3. LocalsAre(g, state, awoke[g], starving[g])
    BY <1>1, <2>1, Loads
  <2>4. Quiet(g) /\ Placed(g)'
    BY <1>1, <2>1, <2>2, <2>3 DEF Quiet, Plain
  <2> QED
    BY <1>1, <2>1, <2>2, <2>3, <2>4, Finish
<1> QED
  BY <1>2, <1>3, <1>4

LEMMA DoesSemrelease ==
  ASSUME NEW g \in Goroutine, SemaTypes, MutexTypes, Placed(g), Semrelease(g)
  PROVE  MakesPermit(g) /\ Done(g) /\ fault' = fault
<1> USE DEF Placed, AcquireLabels, ReleaseLabels, Moved, LocalsAre
<1>1. /\ Moved(g, "releasing") /\ LocalsAre(g, Zero, FALSE, FALSE)
      /\ semrelease(g, Sem, old[g].starving) /\ UNCHANGED <<state, fault>> /\ In(g, "semrelease")
  BY Moves, Forgets, Places DEF Semrelease
<1>2. spc' = [spc EXCEPT ![g] = "loadNwait"] /\ AddrOf(g)' = Sem
  BY <1>1, SMT DEF semrelease, SemaTypes, AddrOf
<1>3. MakesPermit(g)
  BY <1>1, <1>2 DEF MakesPermit, semrelease
<1>4. spc'[g] = "loadNwait"
  BY <1>2 DEF SemaTypes
<1>5. Placed(g)'
  BY <1>1, <1>2, <1>4, SMT
<1> QED
  BY <1>1, <1>3, <1>5, Finish DEF MutexTypes

LEMMA DoesUnlockReturns ==
  ASSUME NEW g \in Goroutine, MutexTypes, Placed(g), UnlockReturns(g)
  PROVE  Quiet(g) /\ Done(g) /\ fault' = fault
<1> USE DEF UnlockReturns, Placed, AcquireLabels, ReleaseLabels, Moved, LocalsAre
<1>1. Moved(g, "out") /\ LocalsAre(g, old[g], awoke[g], starving[g])
  BY Moves, Keeps, Places
<1>2. Quiet(g) /\ Placed(g)'
  BY <1>1 DEF Quiet, Plain
<1> QED
  BY <1>1, <1>2, Finish DEF MutexTypes

\* So every action of the mutex has one of these effects and faults never.
LEMMA DoesStep ==
  ASSUME NEW g \in Goroutine, Consts, SemaTypes, MutexTypes, Placed(g), Sound(g), ~fault,
         Call(g, "lock") \/ Call(g, "trylock") \/ MutexStep(g)
  PROVE  Effect(g) /\ Done(g) /\ ~fault'
<1>1. CASE Call(g, "lock") \/ Call(g, "trylock")
  BY <1>1, DoesCall DEF Effect
<1>2. CASE LockFast(g) \/ TryLockLoad(g) \/ TryLockCas(g)
  BY <1>2, DoesLockFast, DoesTryLockLoad, DoesTryLockCas DEF Effect
<1>3. CASE LoadState(g) \/ Spin(g) \/ TryState(g)
  BY <1>3, DoesLoadState, DoesSpin, DoesTryState DEF Effect
<1>4. CASE Acquired(g) \/ HandOver(g)
  BY <1>4, DoesAcquired, DoesHandOver DEF Effect
<1>5. CASE Unlock(g) \/ UnlockSlow(g) \/ Semrelease(g) \/ UnlockReturns(g)
  BY <1>5, DoesUnlock, DoesUnlockSlow, DoesSemrelease, DoesUnlockReturns DEF Effect
<1> QED
  BY <1>1, <1>2, <1>3, <1>4, <1>5 DEF MutexStep

-----------------------------------------------------------------------------
(* The owner and the duty *)

\* A step of the mutex passes the mutex on as it says.
LEMMA OwnerStep ==
  ASSUME NEW g \in Goroutine, Consts, NEW o, OwnerIs(o), Sound(g), Effect(g), Done(g)
  PROVE  \E n \in Goroutine \cup {None} : OwnerIs(n)'
<1> USE DEF OwnerIs, Consts, Done, MoveFrame, WordIs
<1>1. CASE /\ mpc[g] # "in" /\ mpc'[g] # "in" /\ (state'.locked <=> state.locked)
  <2>1. OwnerIs(o)'
    BY <1>1
  <2> QED
    BY <2>1
<1>2. CASE Takes(g) \/ Inherited(g)
  <2>1. ~state.locked /\ state'.locked /\ mpc'[g] = "in" /\ o = None
    BY <1>2 DEF Takes, Inherited, Sound
  <2>2. OwnerIs(g)'
    BY <2>1
  <2> QED
    BY <2>2
<1>3. CASE Frees(g) \/ FreesTo(g)
  <2>1. mpc[g] = "in" /\ mpc'[g] # "in" /\ ~state'.locked /\ o = g
    BY <1>3 DEF Frees, FreesTo
  <2>2. OwnerIs(None)'
    BY <2>1
  <2> QED
    BY <2>2
<1>4. CASE Quiet(g) \/ SetsWoken(g) \/ JoinsWaiters(g)
  BY <1>1, <1>4 DEF Quiet, SetsWoken, JoinsWaiters, Plain
<1>5. CASE WakesUp(g) \/ Inherits(g) \/ WakesOne(g) \/ MakesPermit(g)
  BY <1>1, <1>5 DEF WakesUp, Inherits, WakesOne, MakesPermit
<1> QED
  BY <1>2, <1>3, <1>4, <1>5 DEF Effect

\* What the step of another goroutine leaves alone.
LEMMA Elsewhere ==
  ASSUME NEW g \in Goroutine, Done(g),
         \A h \in Goroutine : h # g => spc'[h] = spc[h] /\ ticket'[h] = ticket[h]
  PROVE  \A h \in Goroutine : h # g =>
           /\ HasPermit(h)' <=> HasPermit(h)
           /\ awoke'[h] = awoke[h] /\ mpc'[h] = mpc[h]
           /\ state'.starving = state.starving => (Duty(h)' <=> Duty(h))
BY DEF Done, MoveFrame, LocalFrame, HasPermit, Duty

\* Which step has spc and ticket of all others unchanged: all of the mutex.
LEMMA SemaElsewhere ==
  ASSUME NEW g \in Goroutine, SemaTypes, Effect(g)
  PROVE  /\ \A h \in Goroutine : h # g => spc'[h] = spc[h] /\ ticket'[h] = ticket[h]
         /\ woken' = woken /\ waiters' = waiters /\ nwait' = nwait /\ ticket' = ticket
BY DEF Effect, SemaTypes, Quiet, SetsWoken, Takes, JoinsWaiters, WakesUp, Inherits,
   Inherited, Frees, FreesTo, WakesOne, MakesPermit

\* A step of the mutex passes the duty on: unless it starts or ends starvation mode,
LEMMA DutyPassed ==
  ASSUME NEW g \in Goroutine, Consts, SemaTypes, MutexTypes, Placed(g), Done(g), Effect(g),
         NEW d, DutyIs(d), state'.starving = state.starving
  PROVE  \E e \in Goroutine \cup {None, Pool} : DutyIs(e)'
<1> USE DEF DutyIs, Consts
<1>1. /\ \A h \in Goroutine : h # g => /\ Duty(h)' <=> Duty(h)
                                       /\ awoke'[h] = awoke[h] /\ mpc'[h] = mpc[h]
      /\ ticket' = ticket
  BY Elsewhere, SemaElsewhere
<1>2. ASSUME count' = count, Duty(g)' <=> Duty(g), state'.woken <=> state.woken,
             ~(mpc'[g] = "handover") \/ state.starving, ~awoke'[g] \/ awoke[g]
      PROVE  \E e \in Goroutine \cup {None, Pool} : DutyIs(e)'
  <2>1. DutyIs(d)'
    BY <1>1, <1>2
  <2> QED
    BY <2>1
<1>3. CASE Quiet(g)
  BY <1>2, <1>3, <1>1 DEF Quiet, Plain, Duty, HasPermit
<1>4. CASE SetsWoken(g)
  <2>1. /\ d = None /\ count' = count /\ state'.woken /\ ~state.starving
        /\ mpc'[g] = "load" /\ awoke'[g]
    BY <1>4 DEF SetsWoken, WordIs
  <2>2. Duty(g)'
    BY <2>1 DEF Duty
  <2>3. DutyIs(g)'
    BY <1>1, <2>1, <2>2
  <2> QED
    BY <2>3
<1>5. CASE Takes(g)
  <2>1. /\ count' = count /\ ~state.starving /\ ~awoke'[g] /\ mpc'[g] = "in"
        /\ mpc[g] \in {"lock", "trycas", "loop"} /\ spc'[g] = spc[g]
        /\ state'.woken <=> state.woken /\ ~awoke[g]
    BY <1>5 DEF Takes, WordIs
  <2>2. ~Duty(g)' /\ (Duty(g) <=> awoke[g])
    BY <1>1, <2>1 DEF Duty, HasPermit, Placed, AcquireLabels
  <2>3. CASE awoke[g]
    <3>1. DutyIs(None)'
      BY <1>1, <2>1, <2>2, <2>3
    <3> QED
      BY <3>1
  <2>4. CASE ~awoke[g]
    BY <1>2, <2>1, <2>2, <2>4
  <2> QED
    BY <2>3, <2>4
<1>6. CASE JoinsWaiters(g)
  <2>1. /\ count' = count /\ ~awoke'[g] /\ mpc'[g] = "sema" /\ spc'[g] = "easy"
        /\ In(g, "loop") /\ spc[g] = "idle"
        /\ state'.woken <=> state.woken /\ ~awoke[g]
    BY <1>6 DEF JoinsWaiters, WordIs, SemaTypes
  <2>2. ~Duty(g)' /\ (Duty(g) <=> awoke[g])
    BY <2>1 DEF Duty, HasPermit
  <2>3. CASE awoke[g]
    <3>1. DutyIs(None)'
      BY <1>1, <2>1, <2>2, <2>3
    <3> QED
      BY <3>1
  <2>4. CASE ~awoke[g]
    BY <1>2, <2>1, <2>2, <2>4
  <2> QED
    BY <2>3, <2>4
<1>7. CASE WakesUp(g)
  <2>1. /\ count' = count /\ awoke'[g] /\ ~state.starving /\ mpc'[g] = "loop"
        /\ state' = state /\ Duty(g) /\ Duty(g)'
    BY <1>7 DEF WakesUp, Duty, HasPermit
  <2>2. DutyIs(g)'
    BY <1>1, <2>1
  <2> QED
    BY <2>2
<1>8. CASE Inherits(g)
  BY <1>2, <1>8 DEF Inherits, Duty, HasPermit
<1>9. CASE Inherited(g)
  BY <1>2, <1>9 DEF Inherited, Duty, WordIs
<1>10. CASE Frees(g)
  BY <1>2, <1>10 DEF Frees, Duty, HasPermit, WordIs, Placed, AcquireLabels
<1>11. CASE FreesTo(g)
  BY <1>2, <1>11 DEF FreesTo, Duty, HasPermit, WordIs
<1>12. CASE WakesOne(g)
  <2>1. /\ d = None /\ count' = count /\ state'.woken /\ ~state.starving
        /\ mpc'[g] = "semrelease" /\ ~awoke'[g] /\ Duty(g)'
    BY <1>12 DEF WakesOne, WordIs, Duty, HasPermit
  <2>2. DutyIs(g)'
    BY <1>1, <2>1
  <2> QED
    BY <2>2
<1>13. CASE MakesPermit(g)
  <2>1. /\ d = g /\ count'[Sem] = count[Sem] + 1 /\ state' = state
        /\ mpc'[g] = "releasing" /\ ~awoke'[g] /\ spc'[g] = "loadNwait"
    BY <1>13, SMT DEF MakesPermit, Duty, HasPermit, SemaTypes
  <2>2. count[Sem] = 0
    BY <2>1
  <2>3. count'[Sem] = 1
    BY <2>1, <2>2, SMT
  <2>4. ~Duty(g)'
    BY <2>1 DEF Duty, HasPermit
  <2>5. DutyIs(Pool)'
    BY <1>1, <2>1, <2>3, <2>4
  <2> QED
    BY <2>5
<1> QED
  BY <1>3, <1>4, <1>5, <1>6, <1>7, <1>8, <1>9, <1>10, <1>11, <1>12, <1>13 DEF Effect

\* and when it does, the owner has it, or nobody.
LEMMA DutySwitched ==
  ASSUME NEW g \in Goroutine, Consts, SemaTypes, MutexTypes, Placed(g), Done(g), Effect(g),
         NEW d, DutyIs(d), NEW o, OwnerIs(o), state'.starving # state.starving
  PROVE  \E e \in Goroutine \cup {None, Pool} : DutyIs(e)'
<1> USE DEF DutyIs, Consts
<1>1. /\ \A h \in Goroutine : h # g => /\ HasPermit(h)' <=> HasPermit(h)
                                       /\ awoke'[h] = awoke[h] /\ mpc'[h] = mpc[h]
      /\ ticket' = ticket
  BY Elsewhere, SemaElsewhere
<1>2. state \in Word /\ awoke[g] \in BOOLEAN /\ starving[g] \in BOOLEAN
  BY DEF MutexTypes, LocalTypes
<1>3. CASE JoinsWaiters(g)
  <2>1. ~state.starving /\ state'.starving /\ awoke[g] /\ state.locked
    BY <1>2, <1>3, Words DEF JoinsWaiters, WordIs
  <2>2. /\ d = g /\ o # None /\ o \in Goroutine /\ o # g
    BY <1>3, <2>1 DEF Duty, OwnerIs, JoinsWaiters
  <2>3. /\ count' = count /\ ~awoke'[g] /\ mpc'[g] = "sema" /\ spc'[g] = "easy"
        /\ ~state'.woken /\ In(g, "loop")
    BY <1>3, <2>1 DEF JoinsWaiters, WordIs, SemaTypes
  <2>4. \A h \in Goroutine : h # g => ~HasPermit(h) /\ ~awoke[h] /\ ~In(h, "handover")
    BY <2>2 DEF Duty
  <2>5. ~Duty(g)'
    BY <2>3 DEF Duty, HasPermit
  <2>6. \A h \in Goroutine : h # g => (Duty(h)' <=> h = o)
    BY <1>1, <2>1, <2>4 DEF Duty, OwnerIs
  <2>7. DutyIs(o)'
    BY <1>1, <2>1, <2>2, <2>3, <2>4, <2>5, <2>6
  <2> QED
    BY <2>7
<1>4. CASE Inherited(g)
  <2>1. /\ state.starving /\ ~state'.starving /\ count' = count
        /\ ~awoke'[g] /\ mpc'[g] = "in" /\ spc'[g] = spc[g] /\ In(g, "handover")
        /\ (state'.woken <=> state.woken)
    BY <1>2, <1>4, Words DEF Inherited, WordIs
  <2>2. d = g
    BY <2>1 DEF Duty
  <2>3. \A h \in Goroutine : h # g => ~HasPermit(h) /\ ~awoke[h] /\ ~In(h, "handover")
    BY <2>2 DEF Duty
  <2>4. ~Duty(g)'
    BY <1>1, <2>1 DEF Duty, HasPermit, Placed, AcquireLabels
  <2>5. \A h \in Goroutine : h # g => ~Duty(h)'
    BY <1>1, <2>1, <2>3 DEF Duty
  <2>6. DutyIs(None)'
    BY <1>1, <2>1, <2>2, <2>3, <2>4, <2>5
  <2> QED
    BY <2>6
<1>5. CASE SetsWoken(g) \/ Takes(g) \/ Frees(g) \/ FreesTo(g) \/ WakesOne(g)
  BY <1>2, <1>5, Words DEF SetsWoken, Takes, Frees, FreesTo, WakesOne, WordIs
<1>6. CASE Quiet(g) \/ WakesUp(g) \/ Inherits(g) \/ MakesPermit(g)
  BY <1>6 DEF Quiet, WakesUp, Inherits, MakesPermit
<1> QED
  BY <1>3, <1>4, <1>5, <1>6 DEF Effect

\* What a step of the semaphore does to the permit, goroutine by goroutine: it takes
\* it from the count,
SemaFrame(g) ==
  \A h \in Goroutine : h # g => spc'[h] = spc[h] /\ ticket'[h] = ticket[h]

GetsPermit(g) ==
  /\ count[Sem] # 0 /\ count'[Sem] = count[Sem] - 1
  /\ spc[g] \in {"easy", "announced", "ready"} /\ spc'[g] = "idle" /\ SemaFrame(g)
  /\ At(g, "ready") => ticket[g] = 0
  /\ waiters' = waiters /\ woken' = woken
  /\ nwait' = IF At(g, "announced") THEN nwait - 1 ELSE nwait

\* uses a ticket,
UsesTicket(g) ==
  /\ At(g, "ready") /\ ticket[g] # 0 /\ spc'[g] = "idle" /\ SemaFrame(g)
  /\ UNCHANGED <<count, waiters, woken, nwait>>

\* goes on without one,
GoesOn(g) ==
  /\ \/ At(g, "easy") /\ spc'[g] = "lock" /\ UNCHANGED nwait
     \/ At(g, "lock") /\ spc'[g] = "announced" /\ nwait' = nwait + 1
     \/ At(g, "ready") /\ ticket[g] = 0 /\ spc'[g] = "lock" /\ UNCHANGED nwait
     \/ At(g, "loadNwait") /\ spc'[g] = "dequeue" /\ UNCHANGED nwait
  /\ spc[g] \in {"easy", "ready"} => count[Sem] = 0
  /\ SemaFrame(g) /\ UNCHANGED <<count, waiters, woken>>

\* parks,
Parks(g) ==
  /\ At(g, "announced") /\ spc'[g] = "parked" /\ count[Sem] = 0
  /\ \E lifo : queue(g, Sem, lifo)
  /\ SemaFrame(g) /\ UNCHANGED <<count, woken, nwait, ticket>>

\* finds nobody to wake,
FindsNobody(g) ==
  /\ spc[g] \in {"loadNwait", "dequeue"} /\ spc'[g] = "idle"
  /\ nwait = 0 \/ waiters[Sem] = <<>>
  /\ SemaFrame(g) /\ UNCHANGED <<count, waiters, woken, nwait>>

\* dequeues the first waiter,
TakesFirst(g) ==
  /\ At(g, "dequeue") /\ spc'[g] = "handoff" /\ waiters[Sem] # <<>>
  /\ \A h \in Goroutine : h # g => spc'[h] = spc[h]
  /\ Dequeued(g, Sem) /\ nwait' = nwait - 1

\* or readies it, with the permit or without.
Readies(g, s) ==
  /\ At(g, "handoff") /\ s = woken[g] /\ s \in Goroutine /\ s # g
  /\ spc' = [spc EXCEPT ![g] = "idle", ![s] = "ready"]
  /\ woken' = [woken EXCEPT ![g] = None]
  /\ \/ count[Sem] # 0 /\ count'[Sem] = count[Sem] - 1 /\ ticket' = [ticket EXCEPT ![s] = 1]
     \/ UNCHANGED <<count, ticket>>
  /\ UNCHANGED <<waiters, nwait>>

SemaEffect(g) ==
  \/ GetsPermit(g) \/ UsesTicket(g) \/ GoesOn(g) \/ Parks(g) \/ FindsNobody(g)
  \/ TakesFirst(g) \/ \E s \in Goroutine : Readies(g, s)

\* The arguments of the others stay, and its own go when the call ends.
ArgsKept(g) ==
  /\ \A h \in Goroutine : h # g => AddrOf(h)' = AddrOf(h)
  /\ spc'[g] # "idle" => AddrOf(g)' = AddrOf(g)

\* semacquire1 does one of these,
LEMMA DoesAcquire ==
  ASSUME NEW g \in Goroutine, Consts, SemaTypes, Control,
         AcquireEasy(g) \/ Announce(g) \/ AcquireOrPark(g) \/ Resume(g)
  PROVE  SemaEffect(g) /\ ArgsKept(g)
<1>0. /\ count \in [Addr -> Nat] /\ spc \in [Goroutine -> SemaLabels] /\ Sem \in Addr
      /\ ticket \in [Goroutine -> {0, 1}] /\ sarg \in [Goroutine -> Args]
  BY DEF SemaTypes, SemaLabels, Consts
<1>1. AddrOf(g) = Sem
  BY AboutSem DEF AcquireEasy, Announce, AcquireOrPark, Resume, AcquireLabels, ReleaseLabels
<1>2. ASSUME cansemacquire(Sem)
      PROVE  count[Sem] # 0 /\ count'[Sem] = count[Sem] - 1
  BY <1>0, <1>2, SMT DEF cansemacquire
<1>3. ASSUME NEW l, SGoto(g, l)
      PROVE  spc'[g] = l /\ \A h \in Goroutine : h # g => spc'[h] = spc[h]
  BY <1>0, <1>3
<1>4. ASSUME Return(g)
      PROVE  /\ spc'[g] = "idle" /\ ArgsKept(g)
             /\ \A h \in Goroutine : h # g => spc'[h] = spc[h]
  BY <1>0, <1>4 DEF Return, ArgsKept, AddrOf
<1>5. UNCHANGED sarg => ArgsKept(g)
  BY DEF ArgsKept, AddrOf
<1>6. CASE AcquireEasy(g)
  <2>1. CASE cansemacquire(Sem) /\ Return(g) /\ UNCHANGED ticket
    BY <1>2, <1>4, <1>6, <2>1 DEF AcquireEasy, SemaEffect, GetsPermit, SemaFrame
  <2>2. CASE cannot(Sem) /\ SGoto(g, "lock") /\ ticket' = [ticket EXCEPT ![g] = 0] /\ UNCHANGED sarg
    <3>1. \A h \in Goroutine : h # g => ticket'[h] = ticket[h]
      BY <1>0, <2>2
    <3> QED
      BY <1>3, <1>5, <1>6, <2>2, <3>1 DEF AcquireEasy, cannot, SemaEffect, GoesOn, SemaFrame
  <2> QED
    BY <1>1, <1>6, <2>1, <2>2 DEF AcquireEasy
<1>7. CASE Announce(g)
  BY <1>3, <1>5, <1>7 DEF Announce, SemaEffect, GoesOn, SemaFrame
<1>8. CASE AcquireOrPark(g)
  <2>1. CASE cansemacquire(Sem) /\ nwait' = nwait - 1 /\ Return(g) /\ UNCHANGED waiters
    BY <1>2, <1>4, <1>8, <2>1 DEF AcquireOrPark, SemaEffect, GetsPermit, SemaFrame
  <2>2. CASE cannot(Sem) /\ queue(g, Sem, sarg[g].flag) /\ SGoto(g, "parked")
             /\ UNCHANGED <<nwait, sarg>>
    BY <1>3, <1>5, <1>8, <2>2 DEF AcquireOrPark, cannot, SemaEffect, Parks, SemaFrame
  <2> QED
    BY <1>1, <1>8, <2>1, <2>2 DEF AcquireOrPark
<1>9. CASE Resume(g)
  <2>1. CASE ticket[g] # 0 /\ Return(g) /\ UNCHANGED count
    BY <1>4, <1>9, <2>1 DEF Resume, SemaEffect, UsesTicket, SemaFrame
  <2>2. CASE ticket[g] = 0 /\ cansemacquire(Sem) /\ Return(g)
    BY <1>2, <1>4, <1>9, <2>2 DEF Resume, SemaEffect, GetsPermit, SemaFrame
  <2>3. CASE ticket[g] = 0 /\ cannot(Sem) /\ SGoto(g, "lock") /\ UNCHANGED sarg
    BY <1>3, <1>5, <1>9, <2>3 DEF Resume, cannot, SemaEffect, GoesOn, SemaFrame
  <2> QED
    BY <1>1, <1>9, <2>1, <2>2, <2>3 DEF Resume
<1> QED
  BY <1>6, <1>7, <1>8, <1>9

\* and so does semrelease1.
LEMMA DoesRelease ==
  ASSUME NEW g \in Goroutine, Consts, SemaTypes, Control, QueueOK,
         ReleaseEasy(g) \/ Dequeue(g) \/ Ready(g)
  PROVE  SemaEffect(g) /\ ArgsKept(g)
<1>0. /\ count \in [Addr -> Nat] /\ spc \in [Goroutine -> SemaLabels] /\ Sem \in Addr
      /\ ticket \in [Goroutine -> {0, 1}] /\ sarg \in [Goroutine -> Args]
      /\ woken \in [Goroutine -> Goroutine \cup {None}] /\ None \notin Goroutine
  BY DEF SemaTypes, SemaLabels, Consts
<1>1. AddrOf(g) = Sem
  BY AboutSem DEF ReleaseEasy, Dequeue, Ready, AcquireLabels, ReleaseLabels
<1>2. ASSUME NEW l, SGoto(g, l)
      PROVE  spc'[g] = l /\ \A h \in Goroutine : h # g => spc'[h] = spc[h]
  BY <1>0, <1>2
<1>3. ASSUME sarg' = [sarg EXCEPT ![g] = NoArg], spc'[g] = "idle"
      PROVE  ArgsKept(g)
  BY <1>0, <1>3 DEF ArgsKept, AddrOf
<1>4. UNCHANGED sarg => ArgsKept(g)
  BY DEF ArgsKept, AddrOf
<1>5. CASE ReleaseEasy(g)
  <2>1. CASE nwait = 0 /\ Return(g)
    BY <1>2, <1>3, <1>5, <2>1 DEF ReleaseEasy, Return, SemaEffect, FindsNobody, SemaFrame
  <2>2. CASE nwait # 0 /\ SGoto(g, "dequeue") /\ UNCHANGED sarg
    BY <1>2, <1>4, <1>5, <2>2 DEF ReleaseEasy, SemaEffect, GoesOn, SemaFrame
  <2> QED
    BY <1>5, <2>1, <2>2 DEF ReleaseEasy
<1>6. CASE Dequeue(g)
  <2>1. CASE /\ nwait = 0 \/ waiters[Sem] = <<>>
             /\ Return(g) /\ UNCHANGED <<count, nwait, waiters, rootLock, ticket, woken>>
    BY <1>2, <1>3, <1>6, <2>1 DEF Dequeue, Return, SemaEffect, FindsNobody, SemaFrame
  <2>2. CASE nwait # 0 /\ waiters[Sem] # <<>> /\ nwait' = nwait - 1 /\ Dequeued(g, Sem)
    <3>1. spc'[g] = "handoff" /\ (\A h \in Goroutine : h # g => spc'[h] = spc[h]) /\ UNCHANGED sarg
      BY <1>2, <2>2 DEF Dequeued
    <3> QED
      BY <1>4, <1>6, <2>2, <3>1 DEF Dequeue, SemaEffect, TakesFirst
  <2> QED
    BY <1>1, <1>6, <2>1, <2>2 DEF Dequeue
<1>7. CASE Ready(g)
  <2>1. PICK s \in Goroutine : s = woken[g] /\ At(g, "handoff") /\ s # g
    <3>1. At(g, "handoff")
      BY <1>7 DEF Ready
    <3>2. woken[g] \in Goroutine
      BY <1>0, <3>1 DEF QueueOK, Taken
    <3>3. At(woken[g], "parked")
      BY <3>2 DEF QueueOK, Taken
    <3> QED
      BY <3>1, <3>2, <3>3
  <2>2. /\ spc' = [spc EXCEPT ![g] = "idle", ![s] = "ready"] /\ spc'[g] = "idle"
        /\ sarg' = [sarg EXCEPT ![g] = NoArg] /\ woken' = [woken EXCEPT ![g] = None]
        /\ UNCHANGED <<waiters, nwait>>
    BY <1>0, <1>7, <2>1 DEF Ready
  <2>3. \/ count[Sem] # 0 /\ count'[Sem] = count[Sem] - 1 /\ ticket' = [ticket EXCEPT ![s] = 1]
        \/ UNCHANGED <<count, ticket>>
    <3>1. cansemacquire(Sem) => count[Sem] # 0 /\ count'[Sem] = count[Sem] - 1
      BY <1>0, SMT DEF cansemacquire
    <3> QED
      BY <1>1, <1>7, <2>1, <3>1 DEF Ready, cannot
  <2>4. Readies(g, s)
    BY <2>1, <2>2, <2>3 DEF Readies
  <2> QED
    BY <1>3, <2>2, <2>4 DEF SemaEffect
<1> QED
  BY <1>5, <1>6, <1>7

\* The first of the queue is parked, and nobody else has taken it.
LEMMA FirstWaiter ==
  ASSUME Consts, SemaTypes, QueueOK, waiters[Sem] # <<>>
  PROVE  Head(waiters[Sem]) \in Goroutine /\ Queued(Head(waiters[Sem]))
<1>1. waiters[Sem] \in Seq(Goroutine)
  BY DEF Consts, SemaTypes
<1>2. /\ 1 \in 1 .. Len(waiters[Sem]) /\ Head(waiters[Sem]) = waiters[Sem][1]
      /\ Head(waiters[Sem]) \in Goroutine
  BY <1>1, SMT
<1>3. InQueue(Head(waiters[Sem]))
  BY <1>2 DEF InQueue
<1> QED
  BY <1>2, <1>3 DEF QueueOK

\* The duty follows the permit.
LEMMA DutySema ==
  ASSUME NEW g \in Goroutine, Consts, SemaTypes, Control, QueueOK, NEW d, DutyIs(d),
         SemaEffect(g), UNCHANGED mutexVars
  PROVE  \E e \in Goroutine \cup {None, Pool} : DutyIs(e)'
<1>0. /\ ticket \in [Goroutine -> {0, 1}] /\ spc \in [Goroutine -> SemaLabels]
      /\ \A h \in Goroutine : spc[h] \in AcquireLabels => In(h, "sema")
      /\ \A h \in Goroutine : spc[h] \in ReleaseLabels => In(h, "releasing")
      /\ \A h \in Goroutine : awoke[h] => mpc[h] \in {"load", "loop"}
  BY DEF SemaTypes, SemaLabels, Control, Placed
<1>1. ASSUME count'[Sem] = count[Sem],
             \A h \in Goroutine : HasPermit(h)' <=> HasPermit(h)
      PROVE  \E e \in Goroutine \cup {None, Pool} : DutyIs(e)'
  <2>1. DutyIs(d)'
    BY <1>1 DEF DutyIs, Duty
  <2> QED
    BY <2>1 DEF DutyIs
<1>2. ASSUME NEW e \in Goroutine, count[Sem] # 0, count'[Sem] = count[Sem] - 1, HasPermit(e)',
             \A h \in Goroutine : h # e => (HasPermit(h)' <=> HasPermit(h))
      PROVE  DutyIs(e)'
  <2>1. d = Pool /\ count[Sem] = 1
    BY <1>2 DEF DutyIs
  <2>2. count'[Sem] = 0
    BY <1>2, <2>1, SMT
  <2> QED
    BY <1>2, <2>1, <2>2 DEF DutyIs, Duty, Consts
<1>3. CASE GetsPermit(g)
  <2>1. HasPermit(g)' /\ \A h \in Goroutine : h # g => (HasPermit(h)' <=> HasPermit(h))
    BY <1>0, <1>3 DEF HasPermit, GetsPermit, SemaFrame, AcquireLabels
  <2> QED
    BY <1>2, <1>3, <2>1 DEF GetsPermit
<1>4. CASE UsesTicket(g)
  <2>1. \A h \in Goroutine : HasPermit(h)' <=> HasPermit(h)
    BY <1>0, <1>4 DEF HasPermit, UsesTicket, SemaFrame, AcquireLabels
  <2> QED
    BY <1>1, <1>4, <2>1 DEF UsesTicket
<1>5. CASE GoesOn(g)
  <2>1. \A h \in Goroutine : HasPermit(h)' <=> HasPermit(h)
    BY <1>0, <1>5 DEF HasPermit, GoesOn, SemaFrame, AcquireLabels, ReleaseLabels
  <2> QED
    BY <1>1, <1>5, <2>1 DEF GoesOn
<1>6. CASE Parks(g)
  <2>1. \A h \in Goroutine : HasPermit(h)' <=> HasPermit(h)
    BY <1>0, <1>6 DEF HasPermit, Parks, SemaFrame, AcquireLabels
  <2> QED
    BY <1>1, <1>6, <2>1 DEF Parks
<1>7. CASE FindsNobody(g)
  <2>1. \A h \in Goroutine : HasPermit(h)' <=> HasPermit(h)
    BY <1>0, <1>7 DEF HasPermit, FindsNobody, SemaFrame, ReleaseLabels
  <2> QED
    BY <1>1, <1>7, <2>1 DEF FindsNobody
<1>8. CASE TakesFirst(g)
  <2>1. /\ spc[g] = "dequeue" /\ spc'[g] = "handoff" /\ count' = count
        /\ \A h \in Goroutine : h # g => spc'[h] = spc[h]
        /\ ticket' = [ticket EXCEPT ![Head(waiters[Sem])] = 0]
    BY <1>8 DEF TakesFirst, Dequeued
  <2>2. Head(waiters[Sem]) \in Goroutine /\ At(Head(waiters[Sem]), "parked")
    BY <1>8, FirstWaiter DEF TakesFirst, Queued
  <2>3. \A h \in Goroutine : At(h, "ready") => ticket'[h] = ticket[h]
    BY <1>0, <2>1, <2>2
  <2> QED
    <3>1. ~HasPermit(g) /\ ~HasPermit(g)'
      BY <1>0, <2>1 DEF HasPermit, ReleaseLabels
    <3>2. \A h \in Goroutine : h # g => (HasPermit(h)' <=> HasPermit(h))
      BY <2>1, <2>3 DEF HasPermit
    <3> QED
      BY <1>1, <2>1, <3>1, <3>2
<1>9. ASSUME NEW s \in Goroutine, Readies(g, s)
      PROVE  \E e \in Goroutine \cup {None, Pool} : DutyIs(e)'
  <2>1. /\ spc[g] = "handoff" /\ spc'[g] = "idle" /\ spc'[s] = "ready" /\ spc[s] = "parked"
        /\ ticket[s] = 0 /\ s # g
        /\ \A h \in Goroutine : h # g /\ h # s => spc'[h] = spc[h]
    <3>1. s = woken[g] /\ s # None /\ s # g /\ spc[g] = "handoff"
      BY <1>9 DEF Readies, Consts
    <3>2. spc[s] = "parked" /\ ticket[s] = 0
      BY <3>1 DEF QueueOK, Taken
    <3>3. /\ spc'[g] = "idle" /\ spc'[s] = "ready"
          /\ \A h \in Goroutine : h # g /\ h # s => spc'[h] = spc[h]
      BY <1>0, <1>9 DEF Readies
    <3> QED
      BY <3>1, <3>2, <3>3
  <2>2. ~HasPermit(g) /\ ~HasPermit(g)' /\ ~HasPermit(s)
    BY <1>0, <2>1 DEF HasPermit, ReleaseLabels, AcquireLabels
  <2>3. CASE count[Sem] # 0 /\ count'[Sem] = count[Sem] - 1 /\ ticket' = [ticket EXCEPT ![s] = 1]
    <3>1. ticket'[s] = 1 /\ \A h \in Goroutine : h # s => ticket'[h] = ticket[h]
      BY <1>0, <2>3
    <3>2. HasPermit(s)'
      BY <2>1, <3>1, SMT DEF HasPermit
    <3>3. \A h \in Goroutine : h # s => (HasPermit(h)' <=> HasPermit(h))
      BY <2>1, <2>2, <3>1 DEF HasPermit
    <3> QED
      BY <1>2, <2>3, <3>2, <3>3
  <2>4. CASE UNCHANGED <<count, ticket>>
    <3>1. \A h \in Goroutine : HasPermit(h)' <=> HasPermit(h)
      <4>1. ~HasPermit(s)'
        BY <1>0, <2>1, <2>4 DEF HasPermit, AcquireLabels
      <4> QED
        BY <2>1, <2>2, <2>4, <4>1 DEF HasPermit
    <3> QED
      BY <1>1, <2>4, <3>1
  <2> QED
    BY <1>9, <2>3, <2>4 DEF Readies
<1> QED
  BY <1>3, <1>4, <1>5, <1>6, <1>7, <1>8, <1>9 DEF SemaEffect

-----------------------------------------------------------------------------
(* The waiters *)

\* Sets of goroutines with the same members.
LEMMA SameSet ==
  ASSUME NEW S \in SUBSET Goroutine, NEW T \in SUBSET Goroutine,
         \A h \in Goroutine : h \in S <=> h \in T
  PROVE  S = T
BY SMT

\* The field and those that wait change together.
LEMMA CountStep ==
  ASSUME NEW g \in Goroutine, Consts, GoroutineSets, MutexTypes, Placed(g), Done(g), Effect(g),
         NEW d, DutyIs(d), WaitersCounted
  PROVE  WaitersCounted'
<1>1. /\ \A h \in Goroutine : h # g => mpc'[h] = mpc[h] /\ awoke'[h] = awoke[h]
      /\ state \in Word /\ state.waiters \in Nat /\ awoke[g] \in BOOLEAN
      /\ Waiting \in SUBSET Goroutine
  BY Words DEF Done, MoveFrame, LocalFrame, MutexTypes, LocalTypes, Waiting
<1>2. /\ Cardinality(Waiting) \in Nat
      /\ g \notin Waiting => Cardinality(Waiting \cup {g}) = Cardinality(Waiting) + 1
      /\ g \in Waiting => Cardinality(Waiting \ {g}) = Cardinality(Waiting) - 1
  BY <1>1 DEF GoroutineSets
<1>3. Owed \in {0, 1} /\ (Owed = 1 <=> ~state.starving /\ state.woken /\ \A h \in Goroutine : ~awoke[h])
  BY SMT DEF Owed
<1>4. Owed' \in {0, 1}
      /\ (Owed' = 1 <=> ~state'.starving /\ state'.woken /\ \A h \in Goroutine : ~awoke'[h])
  BY SMT DEF Owed
<1>5. (g \in Waiting <=> mpc[g] \in {"sema", "handover"}) /\
      (g \in Waiting' <=> mpc'[g] \in {"sema", "handover"})
      /\ \A h \in Goroutine : h # g => (h \in Waiting' <=> h \in Waiting)
  BY <1>1 DEF Waiting
<1>6. Waiting' \in SUBSET Goroutine
  BY DEF Waiting
<1>7. ASSUME g \in Waiting' <=> g \in Waiting, state'.waiters = state.waiters, Owed' = Owed
      PROVE  WaitersCounted'
  <2>1. Waiting' = Waiting
    <3>1. \A h \in Goroutine : h \in Waiting' <=> h \in Waiting
      BY <1>5, <1>7
    <3> QED
      BY <1>1, <1>6, <3>1, SameSet
  <2> QED
    BY <1>7, <2>1 DEF WaitersCounted
<1>8. ASSUME awoke'[g] <=> awoke[g], state'.starving <=> state.starving, state'.woken <=> state.woken
      PROVE  Owed' = Owed
  <2>1. Owed' = 1 <=> Owed = 1
    BY <1>1, <1>3, <1>4, <1>8
  <2> QED
    BY <1>3, <1>4, <2>1, SMT
<1>9. CASE Quiet(g)
  BY <1>5, <1>7, <1>8, <1>9 DEF Quiet, Plain
<1>10. CASE SetsWoken(g)
  <2>1. Owed = 0 /\ Owed' = 0
    BY <1>3, <1>4, <1>10, SMT DEF SetsWoken
  <2> QED
    BY <1>5, <1>7, <1>10, <2>1 DEF SetsWoken, WordIs
<1>11. CASE Takes(g)
  <2>1. Owed' = Owed
    <3>1. CASE awoke[g]
      <4>1. Owed' # 1 /\ Owed # 1
        BY <1>3, <1>4, <1>11, <3>1 DEF Takes, WordIs
      <4> QED
        BY <1>3, <1>4, <4>1, SMT
    <3>2. CASE ~awoke[g]
      BY <1>8, <1>11, <3>2 DEF Takes, WordIs
    <3> QED
      BY <3>1, <3>2
  <2> QED
    BY <1>5, <1>7, <1>11, <2>1 DEF Takes, WordIs
<1>12. CASE JoinsWaiters(g)
  <2>1. Owed' = Owed
    <3>1. CASE awoke[g]
      <4>1. Owed' # 1 /\ Owed # 1
        BY <1>3, <1>4, <1>12, <3>1 DEF JoinsWaiters, WordIs
      <4> QED
        BY <1>3, <1>4, <4>1, SMT
    <3>2. CASE ~awoke[g]
      BY <1>8, <1>12, <3>2 DEF JoinsWaiters, WordIs
    <3> QED
      BY <3>1, <3>2
  <2>2. g \notin Waiting /\ Waiting' = Waiting \cup {g} /\ state'.waiters = state.waiters + 1
    BY <1>1, <1>5, <1>6, <1>12 DEF JoinsWaiters, WordIs
  <2>3. Cardinality(Waiting') = Cardinality(Waiting) + 1
    BY <1>2, <2>2
  <2> QED
    BY <1>1, <1>2, <1>3, <2>1, <2>2, <2>3, SMT DEF WaitersCounted
<1>13. CASE WakesUp(g)
  <2>1. Duty(g) /\ awoke'[g] /\ ~awoke[g] /\ ~state.starving /\ state' = state
    BY <1>13 DEF WakesUp, Duty, HasPermit, Placed
  <2>2. d = g /\ d # None
    BY <2>1 DEF DutyIs, Consts
  <2>3. state.woken /\ \A h \in Goroutine : ~awoke[h]
    BY <2>1, <2>2 DEF DutyIs, Duty
  <2>4. Owed = 1 /\ Owed' # 1
    BY <1>3, <1>4, <2>1, <2>3
  <2>5. Owed' = 0
    BY <1>4, <2>4, SMT
  <2>6. g \in Waiting /\ Waiting' = Waiting \ {g}
    BY <1>1, <1>5, <1>6, <1>13 DEF WakesUp
  <2>7. Cardinality(Waiting') = Cardinality(Waiting) - 1
    BY <1>2, <2>6
  <2> QED
    BY <1>1, <1>2, <2>1, <2>4, <2>5, <2>7, SMT DEF WaitersCounted
<1>14. CASE Inherits(g)
  BY <1>3, <1>4, <1>5, <1>7, <1>14, SMT DEF Inherits
<1>15. CASE Inherited(g)
  <2>1. state.starving /\ ~state.woken /\ ~state'.woken
    BY <1>15 DEF Inherited, DutyIs, WordIs
  <2>2. Owed = 0 /\ Owed' = 0
    BY <1>3, <1>4, <2>1, SMT
  <2>3. g \in Waiting /\ Waiting' = Waiting \ {g} /\ state'.waiters = state.waiters - 1
    BY <1>1, <1>5, <1>6, <1>15 DEF Inherited, WordIs
  <2>4. Cardinality(Waiting') = Cardinality(Waiting) - 1
    BY <1>2, <2>3
  <2> QED
    BY <1>1, <1>2, <2>2, <2>3, <2>4, SMT DEF WaitersCounted
<1>16. CASE Frees(g)
  BY <1>5, <1>7, <1>8, <1>16 DEF Frees, WordIs, Placed
<1>17. CASE FreesTo(g)
  BY <1>5, <1>7, <1>8, <1>17 DEF FreesTo, WordIs, Placed
<1>18. CASE WakesOne(g)
  <2>1. ~state.woken /\ ~state.starving /\ state'.woken /\ ~state'.starving
        /\ state'.waiters = state.waiters - 1 /\ ~awoke'[g]
    BY <1>18 DEF WakesOne, WordIs
  <2>2. \A h \in Goroutine : ~awoke[h]
    BY <2>1 DEF DutyIs, Duty, Consts
  <2>3. Owed # 1 /\ Owed' = 1
    BY <1>1, <1>3, <1>4, <2>1, <2>2
  <2>4. Owed = 0
    BY <1>3, <2>3, SMT
  <2>5. Waiting' = Waiting
    <3>1. \A h \in Goroutine : h \in Waiting' <=> h \in Waiting
      BY <1>5, <1>18 DEF WakesOne
    <3> QED
      BY <1>1, <1>6, <3>1, SameSet
  <2> QED
    BY <1>1, <1>2, <2>1, <2>3, <2>4, <2>5, SMT DEF WaitersCounted
<1>19. CASE MakesPermit(g)
  BY <1>5, <1>7, <1>8, <1>19 DEF MakesPermit, Placed
<1> QED
  BY <1>9, <1>10, <1>11, <1>12, <1>13, <1>14, <1>15, <1>16, <1>17, <1>18, <1>19 DEF Effect

\* Those who wait are counted: the word is as Sound says.
LEMMA SoundHolds ==
  ASSUME NEW g \in Goroutine, Consts, GoroutineSets, MutexTypes, Placed(g),
         NEW o, OwnerIs(o), NEW d, DutyIs(d), WaitersCounted
  PROVE  Sound(g)
<1>1. state \in Word /\ state.waiters \in Nat /\ Waiting \in SUBSET Goroutine
  BY Words DEF MutexTypes, Waiting
<1>2. ASSUME state.starving, g \in Waiting PROVE state.waiters # 0
  <2>1. Owed = 0
    BY <1>2, SMT DEF Owed
  <2>2. Cardinality(Waiting) \in Nat /\ Cardinality(Waiting \ {g}) = Cardinality(Waiting) - 1
        /\ Cardinality(Waiting \ {g}) \in Nat
    <3>1. Waiting \ {g} \in SUBSET Goroutine
      BY <1>1
    <3> QED
      BY <1>1, <1>2, <3>1 DEF GoroutineSets
  <2> QED
    BY <1>1, <2>1, <2>2, SMT DEF WaitersCounted
<1>3. In(g, "sema") \/ In(g, "handover") => g \in Waiting
  BY DEF Waiting
<1>4. ASSUME state.starving, Duty(g), ~In(g, "in") PROVE ~state.locked
  BY <1>4 DEF DutyIs, OwnerIs, Duty
<1>5. In(g, "sema") /\ At(g, "idle") => Duty(g)
  BY DEF Duty, HasPermit
<1>6. In(g, "handover") => Duty(g) /\ state.starving
  BY DEF Duty, DutyIs
<1>7. awoke[g] => Duty(g) /\ ~state.starving
  BY DEF Duty, DutyIs
<1>8. Duty(g) /\ ~state.starving => state.woken
  BY DEF DutyIs, Consts
<1>9. In(g, "in") => state.locked
  BY DEF OwnerIs, Consts
<1>10. In(g, "sema") /\ At(g, "idle") /\ state.starving =>
         ~state.locked /\ ~state.woken /\ state.waiters # 0
  BY <1>2, <1>3, <1>4, <1>5 DEF DutyIs
<1>11. In(g, "handover") => state.starving /\ ~state.locked /\ state.waiters # 0
  BY <1>2, <1>3, <1>4, <1>6
<1> QED
  BY <1>5, <1>7, <1>8, <1>9, <1>10, <1>11 DEF Sound

\* Unlock leaves no waiters without tending to them.
LEMMA TendedStep ==
  ASSUME NEW g \in Goroutine, MutexTypes, Placed(g), Sound(g), Done(g), Effect(g), WaitersSeen
  PROVE  WaitersSeen'
<1>1. \A h \in Goroutine : h # g => mpc'[h] = mpc[h] /\ old'[h] = old[h]
  BY DEF Done, MoveFrame, LocalFrame
<1>2. ASSUME Untended(state') => Untended(state), ~In(g, "unlockSlow")
      PROVE  WaitersSeen'
  BY <1>1, <1>2 DEF WaitersSeen, Untended
<1>3. ASSUME ~Untended(state') PROVE WaitersSeen'
  BY <1>3 DEF WaitersSeen, Untended
<1>4. CASE Quiet(g)
  <2>1. SUFFICES ASSUME Untended(state) PROVE WaitersSeen'
    BY <1>3, <1>4 DEF Quiet
  <2>2. PICK h \in Goroutine : In(h, "unlockSlow") /\ Untended(old[h])
    BY <2>1 DEF WaitersSeen
  <2>3. mpc'[h] = "unlockSlow" /\ Untended(old'[h])
    BY <1>1, <1>4, <2>1, <2>2 DEF Quiet
  <2> QED
    BY <2>3 DEF WaitersSeen, Untended
<1>5. CASE SetsWoken(g) \/ Takes(g) \/ Inherited(g) \/ FreesTo(g) \/ WakesOne(g)
  BY <1>3, <1>5 DEF SetsWoken, Takes, Inherited, FreesTo, WakesOne, WordIs, Untended
<1>6. CASE JoinsWaiters(g)
  BY <1>3, <1>6 DEF JoinsWaiters, WordIs, Untended
<1>7. CASE WakesUp(g) \/ Inherits(g) \/ MakesPermit(g)
  BY <1>2, <1>7 DEF WakesUp, Inherits, MakesPermit
<1>8. CASE Frees(g)
  BY <1>3, <1>8 DEF Frees, WaitersSeen, Untended
<1> QED
  BY <1>4, <1>5, <1>6, <1>7, <1>8 DEF Effect

-----------------------------------------------------------------------------
(* The queue of the semaphore *)

\* Nothing else matters to those that have been taken from the queue.
LEMMA TakenAlone ==
  ASSUME NEW h \in Goroutine, Taken(h), woken' = woken,
         At(h, "handoff")' <=> At(h, "handoff"),
         \A s \in Goroutine : At(s, "parked") => At(s, "parked")' /\ ticket'[s] = ticket[s]
  PROVE  Taken(h)'
<1>1. woken'[h] # None <=> At(h, "handoff")'
  BY DEF Taken
<1>2. ASSUME NEW s \in Goroutine, woken'[h] = s
      PROVE  At(s, "parked")' /\ ticket'[s] = 0 /\ \A k \in Goroutine : woken'[k] = s => k = h
  <2>1. At(s, "parked") /\ ticket[s] = 0 /\ \A k \in Goroutine : woken[k] = s => k = h
    BY <1>2 DEF Taken
  <2> QED
    BY <2>1
<1> QED
  BY <1>1, <1>2 DEF Taken

\* Entering the semaphore changes nothing of it, nor do the other steps of the mutex.
LEMMA QueueStep ==
  ASSUME NEW g \in Goroutine, Consts, SemaTypes, Effect(g), QueueOK, NwaitCounts, PermitSeen
  PROVE  QueueOK' /\ NwaitCounts' /\ PermitSeen'
<1>1. /\ waiters' = waiters /\ woken' = woken /\ nwait' = nwait /\ ticket' = ticket
      /\ \A h \in Goroutine : h # g => spc'[h] = spc[h]
  BY SemaElsewhere
<1>2. \/ UNCHANGED <<spc, count>>
      \/ At(g, "idle") /\ spc'[g] \in {"easy", "loadNwait"}
  BY DEF Effect, SemaTypes, Quiet, SetsWoken, Takes, JoinsWaiters, WakesUp, Inherits,
     Inherited, Frees, FreesTo, WakesOne, MakesPermit
<1>3. \A h \in Goroutine : \A l \in {"parked", "handoff", "announced"} :
        spc'[h] = l <=> spc[h] = l
  BY <1>1, <1>2
<1>4. \A h \in Goroutine : Queued(h)' <=> Queued(h)
  BY <1>1, <1>3 DEF Queued
<1>5. QueueOK'
  <2>1. \A h \in Goroutine : Taken(h)'
    BY <1>1, <1>3, TakenAlone DEF QueueOK
  <2> QED
    BY <1>1, <1>4, <2>1 DEF QueueOK, InQueue
<1>6. NwaitCounts'
  <2>1. Announced' = Announced
    BY <1>3, <1>4 DEF Announced
  <2> QED
    BY <1>1, <2>1 DEF NwaitCounts
<1>7. PermitSeen'
  BY <1>1, <1>2 DEF PermitSeen
<1> QED
  BY <1>5, <1>6, <1>7

\* A queue with one more, in front or at the back, and without its first.
LEMMA QueueWith ==
  ASSUME NEW q \in Seq(Goroutine), NEW g \in Goroutine, NEW r,
         r = <<g>> \o q \/ r = Append(q, g),
         \A i \in 1 .. Len(q) : q[i] # g, Distinct(q)
  PROVE  /\ \A i \in 1 .. Len(r) : r[i] = g \/ \E j \in 1 .. Len(q) : r[i] = q[j]
         /\ Distinct(r)
<1>0. r \in Seq(Goroutine)
  <2>1. <<g>> \o q \in Seq(Goroutine) /\ Append(q, g) \in Seq(Goroutine)
    BY SMT
  <2> QED
    BY <2>1
<1>1. CASE r = <<g>> \o q
  <2>1. /\ Len(r) = Len(q) + 1 /\ r[1] = g /\ Len(q) \in Nat
        /\ \A i \in 1 .. Len(r) : i # 1 => i - 1 \in 1 .. Len(q) /\ r[i] = q[i - 1]
    BY <1>0, <1>1, SMT
  <2>2. \A i \in 1 .. Len(r) : r[i] = g \/ \E j \in 1 .. Len(q) : r[i] = q[j]
    BY <2>1
  <2>3. Distinct(r)
    <3>1. SUFFICES ASSUME NEW i \in 1 .. Len(r), NEW j \in 1 .. Len(r), r[i] = r[j] PROVE i = j
      BY DEF Distinct
    <3>2. (i = 1 <=> j = 1)
      BY <2>1, <3>1
    <3>3. ASSUME i # 1, j # 1 PROVE i - 1 = j - 1
      BY <2>1, <3>1, <3>3 DEF Distinct
    <3> QED
      BY <3>2, <3>3, SMT
  <2> QED
    BY <2>2, <2>3
<1>2. CASE r = Append(q, g)
  <2>1. Len(r) = Len(q) + 1 /\ Len(q) \in Nat
    BY <1>0, <1>2, SMT
  <2>2. \A i \in 1 .. Len(r) : i = Len(r) \/ i \in 1 .. Len(q)
    BY <2>1, SMT
  <2>3. r[Len(r)] = g
    BY <1>0, <1>2, <2>1, SMT
  <2>4. \A i \in 1 .. Len(q) : r[i] = q[i]
    BY <1>0, <1>2, <2>1, SMT
  <2>5. \A i \in 1 .. Len(r) : r[i] = g \/ \E j \in 1 .. Len(q) : r[i] = q[j]
    BY <2>2, <2>3, <2>4
  <2>6. Distinct(r)
    BY <2>2, <2>3, <2>4 DEF Distinct
  <2> QED
    BY <2>5, <2>6
<1> QED
  BY <1>1, <1>2

LEMMA QueueWithout ==
  ASSUME NEW q \in Seq(Goroutine), q # <<>>, Distinct(q)
  PROVE  /\ \A i \in 1 .. Len(Tail(q)) :
              Tail(q)[i] # Head(q) /\ \E j \in 1 .. Len(q) : Tail(q)[i] = q[j]
         /\ Distinct(Tail(q))
<1>1. /\ Len(Tail(q)) = Len(q) - 1 /\ Len(q) \in Nat \ {0} /\ Head(q) = q[1]
      /\ \A i \in 1 .. Len(Tail(q)) : i + 1 \in 1 .. Len(q) /\ Tail(q)[i] = q[i + 1]
  BY SMT
<1> QED
  BY <1>1, SMT DEF Distinct

\* The queue loses nobody and lets nobody in twice: those who are announced or
\* queued change as nwait does.
QueueKept(g) ==
  QueueOK' /\
  \/ nwait' = nwait /\ \A h \in Goroutine : h \in Announced' <=> h \in Announced
  \/ /\ nwait' = nwait + 1 /\ g \notin Announced
     /\ \A h \in Goroutine : h \in Announced' <=> h = g \/ h \in Announced
  \/ \E s \in Goroutine :
       /\ nwait' = nwait - 1 /\ s \in Announced
       /\ \A h \in Goroutine : h \in Announced' <=> h # s /\ h \in Announced

\* The steps that leave the queue alone,
LEMMA QueueAlone ==
  ASSUME NEW g \in Goroutine, Consts, SemaTypes, QueueOK,
         SemaFrame(g), UNCHANGED <<waiters, woken>>,
         spc[g] \notin {"parked", "handoff"}, spc'[g] \notin {"parked", "handoff"}
  PROVE  /\ QueueOK'
         /\ \A h \in Goroutine : h # g => (h \in Announced' <=> h \in Announced)
         /\ \A h \in {g} : h \in Announced <=> At(h, "announced")
         /\ \A h \in {g} : h \in Announced' <=> At(h, "announced")'
<1>1. \A h \in Goroutine : Queued(h)' <=> Queued(h)
  BY DEF Queued, SemaFrame
<1>2. \A h \in Goroutine : Taken(h)'
  <2>1. \A h \in Goroutine : At(h, "handoff")' <=> At(h, "handoff")
    BY DEF SemaFrame
  <2>2. \A h \in Goroutine : At(h, "parked") => At(h, "parked")' /\ ticket'[h] = ticket[h]
    BY DEF SemaFrame
  <2> QED
    BY <2>1, <2>2, TakenAlone DEF QueueOK
<1>3. QueueOK'
  BY <1>1, <1>2 DEF QueueOK, InQueue
<1>4. ~Queued(g) /\ ~Queued(g)'
  BY DEF Queued
<1>5. \A h \in Goroutine : h # g => spc'[h] = spc[h]
  BY DEF SemaFrame
<1> QED
  BY <1>1, <1>3, <1>4, <1>5 DEF Announced

LEMMA QueueOthers ==
  ASSUME NEW g \in Goroutine, Consts, SemaTypes, QueueOK,
         GetsPermit(g) \/ UsesTicket(g) \/ GoesOn(g) \/ FindsNobody(g)
  PROVE  QueueKept(g)
<1>1. /\ SemaFrame(g) /\ UNCHANGED <<waiters, woken>>
      /\ spc[g] \notin {"parked", "handoff"} /\ spc'[g] \notin {"parked", "handoff"}
  BY DEF GetsPermit, UsesTicket, GoesOn, FindsNobody
<1>2. QueueOK' /\ \A h \in Goroutine : h # g => (h \in Announced' <=> h \in Announced)
  BY <1>1, QueueAlone
<1>3. (g \in Announced <=> At(g, "announced")) /\ (g \in Announced' <=> At(g, "announced")')
  BY <1>1, QueueAlone
<1>4. CASE nwait' = nwait /\ spc[g] # "announced" /\ spc'[g] # "announced"
  BY <1>2, <1>3, <1>4 DEF QueueKept
<1>5. CASE GetsPermit(g) /\ At(g, "announced")
  BY <1>2, <1>3, <1>5 DEF QueueKept, GetsPermit
<1>6. CASE GoesOn(g) /\ At(g, "lock")
  BY <1>2, <1>3, <1>6 DEF QueueKept, GoesOn
<1>7. CASE GetsPermit(g) /\ ~At(g, "announced")
  BY <1>4, <1>7 DEF GetsPermit
<1>8. CASE GoesOn(g) /\ ~At(g, "lock")
  BY <1>4, <1>8 DEF GoesOn
<1>9. CASE UsesTicket(g) \/ FindsNobody(g)
  BY <1>4, <1>9 DEF UsesTicket, FindsNobody
<1> QED
  BY <1>5, <1>6, <1>7, <1>8, <1>9

\* going to sleep,
LEMMA QueueParks ==
  ASSUME NEW g \in Goroutine, Consts, SemaTypes, QueueOK, Parks(g)
  PROVE  QueueKept(g)
<1>1. /\ spc[g] = "announced" /\ spc'[g] = "parked" /\ UNCHANGED <<woken, nwait, ticket>>
      /\ \A h \in Goroutine : h # g => spc'[h] = spc[h]
  BY DEF Parks, SemaFrame
<1>2. waiters'[Sem] = <<g>> \o waiters[Sem] \/ waiters'[Sem] = Append(waiters[Sem], g)
  BY DEF Parks, queue, SemaTypes, Consts
<1>3. waiters[Sem] \in Seq(Goroutine)
  BY DEF SemaTypes, Consts
<1>4. \A h \in Goroutine : woken[h] # g
  BY <1>1 DEF QueueOK, Taken
<1>5. \A h \in Goroutine : h # g => (Queued(h)' <=> Queued(h))
  BY <1>1 DEF Queued
<1>6. Queued(g)' /\ ~Queued(g)
  BY <1>1, <1>4 DEF Queued
<1>7. Distinct(waiters[Sem]) /\ \A i \in 1 .. Len(waiters[Sem]) : waiters[Sem][i] # g
  BY <1>6 DEF QueueOK, InQueue
<1>8. Distinct(waiters'[Sem]) /\ \A h \in Goroutine : InQueue(h)' => h = g \/ InQueue(h)
  <2>1. /\ Distinct(waiters'[Sem])
        /\ \A i \in 1 .. Len(waiters'[Sem]) :
             waiters'[Sem][i] = g \/ \E j \in 1 .. Len(waiters[Sem]) : waiters'[Sem][i] = waiters[Sem][j]
    <3> DEFINE q == waiters[Sem]
               r == waiters'[Sem]
    <3>1. q \in Seq(Goroutine) /\ Distinct(q) /\ \A i \in 1 .. Len(q) : q[i] # g
      BY <1>3, <1>7
    <3>2. r = <<g>> \o q \/ r = Append(q, g)
      BY <1>2
    <3> HIDE DEF q, r
    <3>3. Distinct(r) /\ \A i \in 1 .. Len(r) : r[i] = g \/ \E j \in 1 .. Len(q) : r[i] = q[j]
      BY <3>1, <3>2, QueueWith, SMT
    <3> QED
      BY <3>3 DEF q, r
  <2> QED
    BY <2>1 DEF InQueue
<1>9. \A h \in Goroutine : Taken(h)'
  <2>1. \A h \in Goroutine : At(h, "handoff")' <=> At(h, "handoff")
    BY <1>1
  <2>2. \A h \in Goroutine : At(h, "parked") => At(h, "parked")' /\ ticket'[h] = ticket[h]
    BY <1>1
  <2> QED
    BY <1>1, <2>1, <2>2, TakenAlone DEF QueueOK
<1>10. QueueOK'
  BY <1>5, <1>6, <1>8, <1>9 DEF QueueOK
<1>11. \A h \in Goroutine : h \in Announced' <=> h \in Announced
  BY <1>1, <1>5, <1>6 DEF Announced
<1> QED
  BY <1>1, <1>10, <1>11 DEF QueueKept

\* taking the first,
LEMMA QueueTakes ==
  ASSUME NEW g \in Goroutine, Consts, SemaTypes, QueueOK, TakesFirst(g)
  PROVE  QueueKept(g)
<1>0. PICK s \in Goroutine : s = Head(waiters[Sem]) /\ Queued(s) /\ waiters[Sem] # <<>>
  BY FirstWaiter DEF TakesFirst
<1>1. /\ spc[g] = "dequeue" /\ spc'[g] = "handoff" /\ nwait' = nwait - 1
      /\ \A h \in Goroutine : h # g => spc'[h] = spc[h]
  BY DEF TakesFirst
<1>2. woken'[g] = s /\ \A h \in Goroutine : h # g => woken'[h] = woken[h]
  BY <1>0 DEF TakesFirst, Dequeued, SemaTypes
<1>3. ticket'[s] = 0 /\ \A h \in Goroutine : h # s => ticket'[h] = ticket[h]
  BY <1>0 DEF TakesFirst, Dequeued, SemaTypes
<1>4. waiters'[Sem] = Tail(waiters[Sem]) /\ waiters[Sem] \in Seq(Goroutine)
  BY DEF SemaTypes, Consts, TakesFirst, Dequeued
<1>5. s # g /\ spc[s] = "parked" /\ \A h \in Goroutine : woken[h] # s
  BY <1>0, <1>1 DEF Queued
<1>6. woken[g] = None
  BY <1>1 DEF QueueOK, Taken
<1>7. \A h \in Goroutine : Queued(h)' <=> h # s /\ Queued(h)
  <2>1. SUFFICES ASSUME NEW h \in Goroutine PROVE Queued(h)' <=> h # s /\ Queued(h)
    OBVIOUS
  <2>2. (\A k \in Goroutine : woken'[k] # h) <=> h # s /\ \A k \in Goroutine : woken[k] # h
    <3>1. woken[g] # h
      BY <1>6 DEF Consts
    <3> QED
      BY <1>2, <3>1
  <2>3. spc'[h] = "parked" <=> spc[h] = "parked"
    BY <1>1
  <2> QED
    BY <2>2, <2>3 DEF Queued
<1>8. Distinct(waiters'[Sem]) /\ \A h \in Goroutine : InQueue(h)' => h # s /\ InQueue(h)
  <2>1. /\ Distinct(waiters'[Sem])
        /\ \A i \in 1 .. Len(waiters'[Sem]) :
             waiters'[Sem][i] # s /\ \E j \in 1 .. Len(waiters[Sem]) : waiters'[Sem][i] = waiters[Sem][j]
    <3>1. Distinct(waiters[Sem])
      BY DEF QueueOK
    <3> QED
      BY <1>0, <1>4, <3>1, QueueWithout, SMT
  <2> QED
    BY <2>1 DEF InQueue
<1>9. \A h \in Goroutine : Taken(h)'
  <2>1. Taken(g)'
    <3>1. s # None /\ At(g, "handoff")' /\ At(s, "parked")'
      BY <1>1, <1>5 DEF Consts
    <3>2. \A k \in Goroutine : woken'[k] = s => k = g
      BY <1>2, <1>5
    <3> QED
      BY <1>2, <1>3, <3>1, <3>2 DEF Taken
  <2>2. ASSUME NEW h \in Goroutine, h # g PROVE Taken(h)'
    <3>1. woken'[h] # None <=> At(h, "handoff")'
      BY <1>1, <1>2, <2>2 DEF QueueOK, Taken
    <3>2. ASSUME NEW t \in Goroutine, woken'[h] = t
          PROVE  At(t, "parked")' /\ ticket'[t] = 0 /\ \A k \in Goroutine : woken'[k] = t => k = h
      <4>1. woken[h] = t /\ t # s
        BY <1>2, <1>5, <2>2, <3>2
      <4>2. At(t, "parked") /\ ticket[t] = 0 /\ \A k \in Goroutine : woken[k] = t => k = h
        BY <4>1 DEF QueueOK, Taken
      <4> QED
        BY <1>1, <1>2, <1>3, <4>1, <4>2
    <3> QED
      BY <3>1, <3>2 DEF Taken
  <2> QED
    BY <2>1, <2>2
<1>10. QueueOK'
  BY <1>7, <1>8, <1>9 DEF QueueOK
<1>11. s \in Announced /\ \A h \in Goroutine : h \in Announced' <=> h # s /\ h \in Announced
  BY <1>0, <1>1, <1>5, <1>7 DEF Announced
<1> QED
  BY <1>1, <1>10, <1>11 DEF QueueKept

\* and readying it.
LEMMA QueueReadies ==
  ASSUME NEW g \in Goroutine, NEW s \in Goroutine, Consts, SemaTypes, QueueOK, Readies(g, s)
  PROVE  QueueKept(g)
<1>1. /\ spc[g] = "handoff" /\ woken[g] = s /\ s # g /\ s # None
      /\ UNCHANGED <<waiters, nwait>>
  BY DEF Readies, Consts
<1>2. /\ spc'[g] = "idle" /\ spc'[s] = "ready"
      /\ \A h \in Goroutine : h # g /\ h # s => spc'[h] = spc[h]
  BY <1>1 DEF Readies, SemaTypes
<1>3. woken'[g] = None /\ \A h \in Goroutine : h # g => woken'[h] = woken[h]
  BY DEF Readies, SemaTypes
<1>4. \A h \in Goroutine : h # s => ticket'[h] = ticket[h]
  BY DEF Readies, SemaTypes
<1>5. spc[s] = "parked" /\ \A h \in Goroutine : woken[h] = s => h = g
  BY <1>1 DEF QueueOK, Taken
<1>6. \A h \in Goroutine : Queued(h)' <=> Queued(h)
  <2>1. ~Queued(s) /\ ~Queued(s)' /\ ~Queued(g) /\ ~Queued(g)'
    BY <1>1, <1>2 DEF Queued
  <2>2. ASSUME NEW h \in Goroutine, h # s, h # g PROVE Queued(h)' <=> Queued(h)
    <3>1. (\A k \in Goroutine : woken'[k] # h) <=> \A k \in Goroutine : woken[k] # h
      BY <1>1, <1>3, <2>2 DEF Consts
    <3> QED
      BY <1>2, <2>2, <3>1 DEF Queued
  <2> QED
    BY <2>1, <2>2
<1>7. \A h \in Goroutine : Taken(h)'
  <2>1. Taken(g)'
    BY <1>2, <1>3 DEF Taken, Consts
  <2>2. ASSUME NEW h \in Goroutine, h # g PROVE Taken(h)'
    <3>1. woken'[h] # None <=> At(h, "handoff")'
      <4>1. At(h, "handoff")' <=> At(h, "handoff")
        BY <1>2, <1>5, <2>2
      <4> QED
        BY <1>3, <2>2, <4>1 DEF QueueOK, Taken
    <3>2. ASSUME NEW t \in Goroutine, woken'[h] = t
          PROVE  At(t, "parked")' /\ ticket'[t] = 0 /\ \A k \in Goroutine : woken'[k] = t => k = h
      <4>1. woken[h] = t /\ t # s
        BY <1>3, <1>5, <2>2, <3>2
      <4>2. At(t, "parked") /\ ticket[t] = 0 /\ \A k \in Goroutine : woken[k] = t => k = h
        BY <4>1 DEF QueueOK, Taken
      <4>3. t # g /\ t # None
        BY <1>1, <4>2 DEF Consts
      <4> QED
        BY <1>2, <1>3, <1>4, <4>1, <4>2, <4>3
    <3> QED
      BY <3>1, <3>2 DEF Taken
  <2> QED
    BY <2>1, <2>2
<1>8. QueueOK'
  BY <1>1, <1>6, <1>7 DEF QueueOK, InQueue
<1>9. \A h \in Goroutine : h \in Announced' <=> h \in Announced
  BY <1>1, <1>2, <1>5, <1>6 DEF Announced
<1> QED
  BY <1>1, <1>8, <1>9 DEF QueueKept

\* Every step of the semaphore keeps the queue,
LEMMA QueueSema ==
  ASSUME NEW g \in Goroutine, Consts, SemaTypes, QueueOK, SemaEffect(g)
  PROVE  QueueKept(g)
BY QueueOthers, QueueParks, QueueTakes, QueueReadies DEF SemaEffect

\* nwait counts whom it must,
LEMMA NwaitSema ==
  ASSUME NEW g \in Goroutine, GoroutineSets, QueueKept(g), NwaitCounts
  PROVE  NwaitCounts'
<1>1. Announced \in SUBSET Goroutine /\ Announced' \in SUBSET Goroutine
  BY DEF Announced
<1>2. CASE nwait' = nwait /\ \A h \in Goroutine : h \in Announced' <=> h \in Announced
  <2>1. Announced' = Announced
    BY <1>1, <1>2, SameSet
  <2> QED
    BY <1>2, <2>1 DEF NwaitCounts
<1>3. CASE /\ nwait' = nwait + 1 /\ g \notin Announced
           /\ \A h \in Goroutine : h \in Announced' <=> h = g \/ h \in Announced
  <2>1. Announced' = Announced \cup {g}
    BY <1>1, <1>3
  <2> QED
    BY <1>1, <1>3, <2>1 DEF NwaitCounts, GoroutineSets
<1>4. ASSUME NEW s \in Goroutine, nwait' = nwait - 1, s \in Announced,
             \A h \in Goroutine : h \in Announced' <=> h # s /\ h \in Announced
      PROVE  NwaitCounts'
  <2>1. Announced' = Announced \ {s}
    BY <1>1, <1>4
  <2> QED
    BY <1>1, <1>4, <2>1 DEF NwaitCounts, GoroutineSets
<1> QED
  BY <1>2, <1>3, <1>4 DEF QueueKept

\* and no permit is left beside a sleeper.
LEMMA PermitSema ==
  ASSUME NEW g \in Goroutine, Consts, GoroutineSets, SemaTypes, QueueOK, NwaitCounts, PermitSeen,
         NEW d, DutyIs(d), SemaEffect(g)
  PROVE  PermitSeen'
<1>0. spc \in [Goroutine -> SemaLabels] /\ (count[Sem] = 0 \/ count[Sem] = 1)
  BY DEF SemaTypes, SemaLabels, DutyIs
<1>1. ASSUME count'[Sem] = 0 PROVE PermitSeen'
  BY <1>1, SMT DEF PermitSeen
<1>2. ASSUME NEW h \in Goroutine, spc'[h] \notin {"idle", "parked"} PROVE PermitSeen'
  BY <1>2 DEF PermitSeen
<1>3. CASE GetsPermit(g)
  <2>1. count'[Sem] = 0
    BY <1>0, <1>3, SMT DEF GetsPermit
  <2> QED
    BY <1>1, <2>1
<1>4. CASE UsesTicket(g)
  <2>1. Duty(g)
    BY <1>4 DEF UsesTicket, Duty, HasPermit
  <2>2. count[Sem] = 0
    BY <2>1 DEF DutyIs, Consts
  <2> QED
    BY <1>1, <1>4, <2>2 DEF UsesTicket
<1>5. CASE GoesOn(g)
  BY <1>2, <1>5 DEF GoesOn
<1>6. CASE Parks(g)
  BY <1>1, <1>6 DEF Parks
<1>7. CASE FindsNobody(g)
  <2>1. waiters[Sem] = <<>>
    <3>1. SUFFICES ASSUME waiters[Sem] # <<>> PROVE FALSE
      OBVIOUS
    <3>2. PICK s \in Goroutine : s \in Announced
      BY <3>1, FirstWaiter DEF Announced
    <3>3. Announced \in SUBSET Goroutine /\ Announced \ {s} \in SUBSET Goroutine
      BY DEF Announced
    <3>4. Cardinality(Announced \ {s}) \in Nat /\ Cardinality(Announced \ {s}) = nwait - 1
      BY <3>2, <3>3 DEF NwaitCounts, GoroutineSets
    <3>5. nwait = 0
      BY <1>7, <3>1 DEF FindsNobody
    <3> QED
      BY <3>4, <3>5, SMT
  <2> QED
    BY <1>7, <2>1 DEF FindsNobody, PermitSeen
<1>8. CASE TakesFirst(g)
  BY <1>2, <1>8 DEF TakesFirst
<1>9. ASSUME NEW s \in Goroutine, Readies(g, s) PROVE PermitSeen'
  <2>1. spc'[s] = "ready"
    BY <1>0, <1>9 DEF Readies
  <2> QED
    BY <1>2, <2>1
<1> QED
  BY <1>3, <1>4, <1>5, <1>6, <1>7, <1>8, <1>9 DEF SemaEffect

-----------------------------------------------------------------------------
(* Control *)

\* The others stay where they are when the mutex takes a step,
LEMMA ControlStep ==
  ASSUME NEW g \in Goroutine, Consts, SemaTypes, Control, Effect(g), Done(g),
         \A h \in Goroutine : h # g => AddrOf(h)' = AddrOf(h)
  PROVE  Control'
<1>1. \A h \in Goroutine : h # g => spc'[h] = spc[h]
  BY SemaElsewhere
<1>2. Placed(g)'
  BY DEF Done
<1>3. ASSUME NEW h \in Goroutine, h # g PROVE Placed(h)'
  <2>1. /\ mpc'[h] = mpc[h] /\ spc'[h] = spc[h] /\ AddrOf(h)' = AddrOf(h)
        /\ old'[h] = old[h] /\ awoke'[h] = awoke[h] /\ starving'[h] = starving[h]
    BY <1>1, <1>3 DEF Done, MoveFrame, LocalFrame
  <2> QED
    BY <2>1 DEF Control, Placed
<1> QED
  BY <1>2, <1>3 DEF Control

\* and those in the semaphore stay in the call they are in.
LEMMA ControlSema ==
  ASSUME NEW g \in Goroutine, Consts, SemaTypes, Control, QueueOK, SemaEffect(g), ArgsKept(g),
         UNCHANGED mutexVars
  PROVE  Control'
<1>0. spc \in [Goroutine -> SemaLabels]
  BY DEF SemaTypes, SemaLabels
<1>1. ASSUME NEW h \in Goroutine,
             spc'[h] \in AcquireLabels => spc[h] \in AcquireLabels,
             spc'[h] \in ReleaseLabels => spc[h] \in ReleaseLabels,
             spc'[h] # "idle" => AddrOf(h)' = AddrOf(h)
      PROVE  Placed(h)'
  <2>1. Placed(h)
    BY DEF Control
  <2>2. /\ spc'[h] \in AcquireLabels => In(h, "sema") /\ AddrOf(h)' = Sem
        /\ spc'[h] \in ReleaseLabels => In(h, "releasing") /\ AddrOf(h)' = Sem
    BY <1>1, <2>1 DEF Placed, AcquireLabels, ReleaseLabels
  <2> QED
    BY <2>1, <2>2 DEF Placed
<1>2. \A h \in Goroutine : spc'[h] # "idle" => AddrOf(h)' = AddrOf(h)
  BY DEF ArgsKept
<1>3. \A h \in Goroutine :
        /\ spc'[h] \in AcquireLabels => spc[h] \in AcquireLabels
        /\ spc'[h] \in ReleaseLabels => spc[h] \in ReleaseLabels
  <2>1. CASE \E s \in Goroutine : Readies(g, s)
    <3>1. PICK s \in Goroutine : Readies(g, s)
      BY <2>1
    <3>2. /\ spc'[g] = "idle" /\ spc'[s] = "ready" /\ spc[s] = "parked"
          /\ \A h \in Goroutine : h # g /\ h # s => spc'[h] = spc[h]
      BY <1>0, <3>1 DEF Readies, QueueOK, Taken
    <3> QED
      BY <3>2 DEF AcquireLabels, ReleaseLabels
  <2>2. CASE ~\E s \in Goroutine : Readies(g, s)
    <3>1. \A h \in Goroutine : h # g => spc'[h] = spc[h]
      BY <2>2 DEF SemaEffect, GetsPermit, UsesTicket, GoesOn, Parks, FindsNobody, TakesFirst,
         SemaFrame
    <3>2. \/ spc'[g] = "idle"
          \/ spc[g] \in AcquireLabels /\ spc'[g] \in AcquireLabels \ ReleaseLabels
          \/ spc[g] \in ReleaseLabels /\ spc'[g] \in ReleaseLabels \ AcquireLabels
      BY <2>2 DEF SemaEffect, GetsPermit, UsesTicket, GoesOn, Parks, FindsNobody, TakesFirst,
         AcquireLabels, ReleaseLabels
    <3>3. "idle" \notin AcquireLabels /\ "idle" \notin ReleaseLabels
      BY DEF AcquireLabels, ReleaseLabels
    <3> QED
      BY <3>1, <3>2, <3>3
  <2> QED
    BY <2>1, <2>2
<1> QED
  BY <1>1, <1>2, <1>3 DEF Control

-----------------------------------------------------------------------------
(* The inductive invariant *)

\* All that Lock and Unlock do to the semaphore is to call it.
LEMMA CallsSema ==
  ASSUME NEW g \in Goroutine, MutexTypes,
         Call(g, "lock") \/ Call(g, "trylock") \/ MutexStep(g)
  PROVE  \/ UNCHANGED semaVars
         \/ \E b \in BOOLEAN : semacquire(g, Sem, b)
         \/ \E b \in BOOLEAN : semrelease(g, Sem, b)
<1>1. ASSUME Semrelease(g) PROVE \E b \in BOOLEAN : semrelease(g, Sem, b)
  <2>1. old[g].starving \in BOOLEAN
    BY Words DEF MutexTypes, LocalTypes
  <2> QED
    BY <1>1, <2>1 DEF Semrelease
<1>2. ASSUME TryState(g)
      PROVE  UNCHANGED semaVars \/ \E b \in BOOLEAN : semacquire(g, Sem, b)
  <2>1. (waits[g] # 0) \in BOOLEAN
    OBVIOUS
  <2> QED
    BY <1>2, <2>1 DEF TryState
<1>3. CASE Call(g, "lock") \/ Call(g, "trylock") \/ LockFast(g) \/ TryLockLoad(g)
           \/ TryLockCas(g) \/ LoadState(g) \/ Spin(g)
  BY <1>3 DEF Call, LockFast, TryLockLoad, TryLockCas, LoadState, Spin
<1>4. CASE Acquired(g) \/ HandOver(g) \/ Unlock(g) \/ UnlockSlow(g) \/ UnlockReturns(g)
  BY <1>4 DEF Acquired, HandOver, Unlock, UnlockSlow, UnlockReturns
<1> QED
  BY <1>1, <1>2, <1>3, <1>4 DEF MutexStep

LEMMA OthersArgs ==
  ASSUME NEW g \in Goroutine, SemaTypes,
         \/ UNCHANGED semaVars
         \/ \E b \in BOOLEAN : semacquire(g, Sem, b)
         \/ \E b \in BOOLEAN : semrelease(g, Sem, b)
  PROVE  \A h \in Goroutine : h # g => AddrOf(h)' = AddrOf(h)
<1>1. CASE UNCHANGED semaVars
  BY <1>1 DEF AddrOf
<1>2. ASSUME NEW b \in BOOLEAN, semacquire(g, Sem, b) \/ semrelease(g, Sem, b)
      PROVE  \A h \in Goroutine : h # g => AddrOf(h)' = AddrOf(h)
  <2>1. sarg \in [Goroutine -> Args] /\ sarg' = [sarg EXCEPT ![g] = [addr |-> Sem, flag |-> b]]
    BY <1>2 DEF SemaTypes, semacquire, semrelease
  <2>2. \A h \in Goroutine : h # g => sarg'[h] = sarg[h]
    BY <2>1
  <2> QED
    BY <2>2 DEF AddrOf
<1> QED
  BY <1>1, <1>2

\* What is true to begin with, and stays true with every step of Lock or Unlock
LEMMA MutexStepInv ==
  ASSUME NEW g \in Goroutine, Consts, GoroutineSets, IInv,
         Call(g, "lock") \/ Call(g, "trylock") \/ MutexStep(g)
  PROVE  IInv' /\ Effect(g) /\ Done(g)
<1> USE DEF IInv
<1>1. PICK o \in Goroutine \cup {None} : OwnerIs(o)
  OBVIOUS
<1>2. PICK d \in Goroutine \cup {None, Pool} : DutyIs(d)
  OBVIOUS
<1>3. Placed(g) /\ Sound(g)
  <2>1. Placed(g)
    BY DEF Control
  <2> QED
    BY <1>1, <1>2, <2>1, SoundHolds
<1>4. Effect(g) /\ Done(g) /\ ~fault'
  BY <1>3, DoesStep
<1>5. SemaTypes'
  BY CallsSema, SemaTypesMutex
<1>6. Control'
  BY <1>4, CallsSema, OthersArgs, ControlStep
<1>7. \E n \in Goroutine \cup {None} : OwnerIs(n)'
  BY <1>1, <1>3, <1>4, OwnerStep
<1>8. \E e \in Goroutine \cup {None, Pool} : DutyIs(e)'
  BY <1>1, <1>2, <1>3, <1>4, DutyPassed, DutySwitched
<1>9. WaitersCounted'
  BY <1>2, <1>3, <1>4, CountStep
<1>10. QueueOK' /\ NwaitCounts' /\ PermitSeen'
  BY <1>4, QueueStep
<1>11. WaitersSeen'
  BY <1>3, <1>4, TendedStep
<1>12. MutexTypes'
  BY <1>4 DEF Done
<1> QED
  BY <1>4, <1>5, <1>6, <1>7, <1>8, <1>9, <1>10, <1>11, <1>12

\* and of the semaphore.
LEMMA SemaStepInv ==
  ASSUME NEW g \in Goroutine, Consts, GoroutineSets, IInv, SemaStep(g), UNCHANGED mutexVars
  PROVE  IInv'
<1> USE DEF IInv
<1>1. PICK o \in Goroutine \cup {None} : OwnerIs(o)
  OBVIOUS
<1>2. PICK d \in Goroutine \cup {None, Pool} : DutyIs(d)
  OBVIOUS
<1>3. SemaEffect(g) /\ ArgsKept(g)
  BY DoesAcquire, DoesRelease DEF SemaStep
<1>4. QueueKept(g)
  BY <1>3, QueueSema
<1>5. SemaTypes' /\ Control' /\ QueueOK' /\ NwaitCounts' /\ PermitSeen'
  <2>1. SemaTypes'
    BY SemaTypesSema
  <2>2. Control'
    BY <1>3, ControlSema
  <2>3. QueueOK' /\ NwaitCounts'
    BY <1>4, NwaitSema DEF QueueKept
  <2>4. PermitSeen'
    BY <1>2, <1>3, PermitSema
  <2> QED
    BY <2>1, <2>2, <2>3, <2>4
<1>6. \E e \in Goroutine \cup {None, Pool} : DutyIs(e)'
  BY <1>2, <1>3, DutySema
<1>7. OwnerIs(o)'
  BY <1>1 DEF OwnerIs
<1>8. MutexTypes'
  BY DEF MutexTypes, LocalTypes
<1>9. WaitersCounted' /\ WaitersSeen'
  BY DEF WaitersCounted, Waiting, Owed, WaitersSeen, Untended
<1> QED
  BY <1>5, <1>6, <1>7, <1>8, <1>9

LEMMA InitIInv ==
  ASSUME Consts, Cardinality({}) = 0, MutexInit
  PROVE  IInv
<1> USE DEF MutexInit, SemaInit
<1>1. SemaTypes
  <2>1. waiters \in [Addr -> Seq(Goroutine)] /\ count \in [Addr -> Nat]
    BY SMT
  <2>2. ticket \in [Goroutine -> {0, 1}]
    OBVIOUS
  <2> QED
    BY <2>1, <2>2 DEF SemaTypes, Consts
<1>2. MutexTypes
  BY ZeroWord, Places DEF MutexTypes, LocalTypes
<1>3. Control
  BY DEF Control, Placed, AcquireLabels, ReleaseLabels
<1>4. WordIs(state, FALSE, FALSE, FALSE, 0)
  BY <1>2, Words DEF MutexTypes
<1>5. OwnerIs(None)
  BY <1>4 DEF OwnerIs, WordIs, Consts
<1>6. DutyIs(None)
  <2>1. \A g \in Goroutine : ~Duty(g)
    BY <1>4 DEF Duty, HasPermit, WordIs
  <2>2. count[Sem] = 0
    BY DEF Consts
  <2> QED
    BY <1>4, <2>1, <2>2 DEF DutyIs, WordIs, Consts
<1>7. WaitersCounted
  <2>1. Waiting = {}
    BY DEF Waiting
  <2>2. Owed = 0
    BY <1>4 DEF Owed, WordIs
  <2> QED
    BY <1>4, <2>1, <2>2, SMT DEF WaitersCounted, WordIs
<1>8. QueueOK
  <2>1. Distinct(waiters[Sem]) /\ \A g \in Goroutine : ~InQueue(g)
    BY SMT DEF Distinct, InQueue, Consts
  <2>2. \A g \in Goroutine : Taken(g)
    BY DEF Taken, Consts
  <2> QED
    BY <2>1, <2>2 DEF QueueOK
<1>9. NwaitCounts
  <2>1. Announced = {}
    BY DEF Announced, Queued
  <2> QED
    BY <2>1 DEF NwaitCounts
<1>10. PermitSeen
  BY DEF PermitSeen, Consts
<1>11. WaitersSeen
  BY <1>4 DEF WaitersSeen, Untended, WordIs
<1> QED
  BY <1>1, <1>2, <1>3, <1>5, <1>6, <1>7, <1>8, <1>9, <1>10, <1>11 DEF IInv

LEMMA NextIInv ==
  ASSUME Consts, GoroutineSets, IInv, [MutexNext]_vars
  PROVE  IInv'
<1>1. CASE MutexNext
  BY <1>1, MutexStepInv, SemaStepInv DEF MutexNext
<1>2. CASE UNCHANGED vars
  <2>1. SemaTypes' /\ MutexTypes' /\ Control'
    BY <1>2 DEF vars, IInv, SemaTypes, MutexTypes, LocalTypes, Control, Placed, AddrOf
  <2>2. PICK o \in Goroutine \cup {None} : OwnerIs(o)
    BY DEF IInv
  <2>3. OwnerIs(o)'
    BY <1>2, <2>2 DEF vars, OwnerIs
  <2>4. PICK d \in Goroutine \cup {None, Pool} : DutyIs(d)
    BY DEF IInv
  <2>5. DutyIs(d)'
    BY <1>2, <2>4 DEF vars, DutyIs, Duty, HasPermit
  <2>6. WaitersCounted' /\ WaitersSeen' /\ ~fault' /\ PermitSeen'
    BY <1>2 DEF vars, IInv, WaitersCounted, Waiting, Owed, WaitersSeen, Untended, PermitSeen
  <2>7. QueueOK' /\ NwaitCounts'
    <3>1. (\A g \in Goroutine : Queued(g)' <=> Queued(g)) /\ nwait' = nwait
      BY <1>2 DEF vars, Queued
    <3>2. \A g \in Goroutine : Taken(g)'
      BY <1>2, TakenAlone DEF vars, IInv, QueueOK
    <3>3. QueueOK'
      BY <1>2, <3>1, <3>2 DEF vars, IInv, QueueOK, InQueue
    <3>4. Announced' = Announced
      BY <1>2, <3>1 DEF vars, Announced
    <3> QED
      BY <3>1, <3>3, <3>4 DEF IInv, NwaitCounts
  <2> QED
    BY <2>1, <2>3, <2>5, <2>6, <2>7 DEF IInv
<1> QED
  BY <1>1, <1>2

\* A free mutex with somebody asleep beside it: the woken bit and starvation mode
\* have a duty behind them, and a word with neither has a goroutine in unlockSlow.
LEMMA Noticed ==
  ASSUME Consts, GoroutineSets, IInv
  PROVE  FreeMutexIsNoticed
<1> USE DEF IInv
<1>1. SUFFICES ASSUME ~state.locked, waiters[Sem] # <<>> PROVE Rousers # {}
  BY DEF FreeMutexIsNoticed
<1>2. PICK d \in Goroutine \cup {None, Pool} : DutyIs(d)
  OBVIOUS
<1>3. PICK o \in Goroutine \cup {None} : OwnerIs(o)
  OBVIOUS
<1>4. CASE d \in Goroutine
  <2>1. Duty(d) /\ Placed(d) /\ ~In(d, "in")
    <3>1. Duty(d)
      BY <1>2, <1>4 DEF DutyIs
    <3>2. ~In(d, "in")
      BY <1>1, <1>3, <1>4 DEF OwnerIs, Consts
    <3> QED
      BY <1>4, <3>1, <3>2 DEF Control
  <2>2. d \in Rousers
    BY <1>4, <2>1 DEF Duty, HasPermit, Placed, AcquireLabels, Rousers
  <2> QED
    BY <2>2
<1>5. CASE d = Pool
  <2>1. count[Sem] = 1
    BY <1>2, <1>5 DEF DutyIs
  <2>2. PICK h \in Goroutine : spc[h] \notin {"idle", "parked"}
    BY <1>1, <2>1 DEF PermitSeen
  <2>3. Placed(h) /\ spc[h] \in AcquireLabels \cup ReleaseLabels /\ count[Sem] > 0
    <3>1. spc[h] \in AcquireLabels \cup ReleaseLabels
      BY <2>2 DEF SemaTypes
    <3>2. count[Sem] > 0
      BY <2>1, SMT
    <3> QED
      BY <3>1, <3>2 DEF Control
  <2>4. h \in Rousers
    BY <2>2, <2>3 DEF Placed, Rousers
  <2> QED
    BY <2>4
<1>6. CASE d = None
  <2>1. ~state.starving /\ ~state.woken
    BY <1>2, <1>6 DEF DutyIs
  <2>2. PICK s \in Goroutine : At(s, "parked")
    BY <1>1, FirstWaiter DEF Queued
  <2>3. s \in Waiting /\ Waiting \in SUBSET Goroutine /\ Waiting \ {s} \in SUBSET Goroutine
    BY <2>2 DEF Control, Placed, AcquireLabels, Waiting
  <2>4. /\ Cardinality(Waiting \ {s}) \in Nat
        /\ Cardinality(Waiting \ {s}) = Cardinality(Waiting) - 1 /\ Cardinality(Waiting) \in Nat
    BY <2>3 DEF GoroutineSets
  <2>5. state.waiters # 0
    <3>1. Owed = 0
      BY <2>1 DEF Owed
    <3>2. state.waiters \in Nat
      BY Words DEF MutexTypes
    <3> QED
      BY <2>4, <3>1, <3>2, SMT DEF WaitersCounted
  <2>6. PICK h \in Goroutine : In(h, "unlockSlow") /\ Untended(old[h])
    BY <1>1, <2>1, <2>5 DEF WaitersSeen, Untended
  <2>7. old[h].waiters > 0
    <3>1. old[h].waiters \in Nat /\ old[h].waiters # 0
      BY <2>6, Words DEF MutexTypes, LocalTypes, Untended
    <3> QED
      BY <3>1, SMT
  <2>8. h \in Rousers
    BY <2>6, <2>7 DEF Rousers, Untended
  <2> QED
    BY <2>8
<1> QED
  BY <1>4, <1>5, <1>6

-----------------------------------------------------------------------------
(* The refinement *)

Owner == IF Owners = {} THEN None ELSE CHOOSE g \in Owners : TRUE
Asking == {g \in Goroutine : mpc[g] \in LockLabels}

\* The owner of the abstract lock is the goroutine that is in.
LEMMA OwnerFacts ==
  ASSUME Consts
  PROVE  /\ \A o \in Goroutine \cup {None} : OwnerIs(o) => Owner = o
         /\ \A o \in Goroutine \cup {None} : OwnerIs(o)' => Owner' = o
<1>1. ASSUME NEW o \in Goroutine \cup {None}, OwnerIs(o) PROVE Owner = o
  <2>1. Owners = IF o = None THEN {} ELSE {o}
    BY <1>1 DEF OwnerIs, Owners, Consts
  <2> QED
    BY <2>1 DEF Owner
<1>2. ASSUME NEW o \in Goroutine \cup {None}, OwnerIs(o)' PROVE Owner' = o
  <2>1. Owners' = IF o = None THEN {} ELSE {o}
    BY <1>2 DEF OwnerIs, Owners, Consts
  <2> QED
    BY <2>1 DEF Owner
<1> QED
  BY <1>1, <1>2

\* A step of a goroutine takes the abstract lock, gives it back, or only begins
\* or ends to ask for it.
LEMMA StepRefines ==
  ASSUME NEW g \in Goroutine, Consts, IInv, IInv', MoveFrame(g), mpc'[g] # mpc[g],
         \/ ~In(g, "in") /\ ~In(g, "in")'
         \/ mpc[g] \in LockLabels /\ In(g, "in")' /\ ~state.locked
         \/ In(g, "in") /\ ~In(g, "in")' /\ mpc'[g] \notin LockLabels
  PROVE  [AbstractLock!SpecNext]_<<Owner, Asking>>
<1>1. PICK o \in Goroutine \cup {None} : OwnerIs(o)
  BY DEF IInv
<1>2. PICK n \in Goroutine \cup {None} : OwnerIs(n)'
  BY DEF IInv
<1>3. Owner = o /\ Owner' = n
  BY <1>1, <1>2, OwnerFacts
<1>4. \A h \in Goroutine : h # g => (h \in Asking' <=> h \in Asking)
  BY DEF MoveFrame, Asking
<1>5. /\ g \in Asking <=> mpc[g] \in LockLabels
      /\ g \in Asking' <=> mpc'[g] \in LockLabels
      /\ Asking \in SUBSET Goroutine /\ Asking' \in SUBSET Goroutine
  BY DEF Asking
<1>6. CASE ~In(g, "in") /\ ~In(g, "in")'
  <2>1. n = o /\ o # g
    BY <1>1, <1>2, <1>6 DEF OwnerIs, MoveFrame, Consts
  <2>2. CASE g \in Asking' /\ g \notin Asking
    <3>1. Asking' = Asking \cup {g}
      BY <1>4, <1>5, <2>2
    <3> QED
      BY <1>3, <2>1, <2>2, <3>1 DEF AbstractLock!SpecNext, AbstractLock!SpecAsk, Owner, Asking
  <2>3. CASE g \notin Asking' /\ g \in Asking
    <3>1. Asking' = Asking \ {g}
      BY <1>4, <1>5, <2>3
    <3> QED
      BY <1>3, <2>1, <2>3, <3>1 DEF AbstractLock!SpecNext, AbstractLock!SpecGiveUp, Owner, Asking
  <2>4. CASE g \in Asking' <=> g \in Asking
    <3>1. Asking' = Asking
      <4>1. \A h \in Goroutine : h \in Asking' <=> h \in Asking
        BY <1>4, <2>4
      <4> QED
        BY <1>5, <4>1, SameSet
    <3> QED
      BY <1>3, <2>1, <3>1
  <2> QED
    BY <2>2, <2>3, <2>4
<1>7. CASE mpc[g] \in LockLabels /\ In(g, "in")' /\ ~state.locked
  <2>1. o = None /\ n = g
    BY <1>1, <1>2, <1>7 DEF OwnerIs
  <2>2. g \in Asking /\ g \notin Asking'
    BY <1>5, <1>7 DEF LockLabels, SlowLabels
  <2>3. Asking' = Asking \ {g}
    BY <1>4, <1>5, <2>2
  <2> QED
    BY <1>3, <2>1, <2>2, <2>3 DEF AbstractLock!SpecNext, AbstractLock!SpecTake, Owner, Asking
<1>8. CASE In(g, "in") /\ ~In(g, "in")' /\ mpc'[g] \notin LockLabels
  <2>1. o = g /\ n = None
    BY <1>1, <1>2, <1>8 DEF OwnerIs, MoveFrame
  <2>2. Asking' = Asking
    <3>1. g \notin Asking /\ g \notin Asking'
      BY <1>5, <1>8 DEF LockLabels, SlowLabels
    <3>2. \A h \in Goroutine : h \in Asking' <=> h \in Asking
      BY <1>4, <3>1
    <3> QED
      BY <1>5, <3>2, SameSet
  <2> QED
    BY <1>3, <2>1, <2>2 DEF AbstractLock!SpecNext, AbstractLock!SpecUnlock, Owner, Asking
<1> QED
  BY <1>6, <1>7, <1>8

LEMMA NextRefines ==
  ASSUME Consts, GoroutineSets, IInv, IInv', [MutexNext]_vars
  PROVE  [AbstractLock!SpecNext]_<<Owner, Asking>>
<1>1. ASSUME mpc' = mpc PROVE UNCHANGED <<Owner, Asking>>
  <2>1. Owners' = Owners /\ Asking' = Asking
    BY <1>1 DEF Owners, Asking
  <2> QED
    BY <2>1, SMT DEF Owner
<1>2. ASSUME NEW g \in Goroutine, Call(g, "lock") \/ Call(g, "trylock") \/ MutexStep(g), mpc' # mpc
      PROVE  [AbstractLock!SpecNext]_<<Owner, Asking>>
  <2>1. Effect(g) /\ MoveFrame(g) /\ Sound(g)
    <3>1. Effect(g) /\ Done(g)
      BY <1>2, MutexStepInv
    <3>2. Sound(g)
      BY SoundHolds DEF IInv, Control
    <3> QED
      BY <3>1, <3>2 DEF Done
  <2>2. mpc'[g] # mpc[g]
    <3>1. mpc \in [Goroutine -> MutexLabels] /\ mpc' \in [Goroutine -> MutexLabels]
      BY DEF IInv, MutexTypes
    <3>2. ASSUME mpc'[g] = mpc[g] PROVE mpc' = mpc
      <4>1. \A h \in Goroutine : mpc'[h] = mpc[h]
        BY <2>1, <3>2 DEF MoveFrame
      <4> QED
        BY <3>1, <4>1, SMT
    <3> QED
      BY <1>2, <3>2
  <2>3. \/ ~In(g, "in") /\ ~In(g, "in")'
        \/ mpc[g] \in LockLabels /\ In(g, "in")' /\ ~state.locked
        \/ In(g, "in") /\ ~In(g, "in")' /\ mpc'[g] \notin LockLabels
    <3>1. CASE Quiet(g) \/ SetsWoken(g) \/ JoinsWaiters(g) \/ WakesUp(g) \/ Inherits(g)
               \/ WakesOne(g) \/ MakesPermit(g)
      BY <3>1 DEF Quiet, SetsWoken, JoinsWaiters, WakesUp, Inherits, WakesOne, MakesPermit, Plain
    <3>2. CASE Takes(g) \/ Inherited(g)
      BY <2>1, <3>2 DEF Takes, Inherited, Sound, LockLabels, SlowLabels
    <3>3. CASE Frees(g) \/ FreesTo(g)
      BY <3>3 DEF Frees, FreesTo, LockLabels, SlowLabels
    <3> QED
      BY <2>1, <3>1, <3>2, <3>3 DEF Effect
  <2> QED
    BY <2>1, <2>2, <2>3, StepRefines
<1> QED
  BY <1>1, <1>2 DEF MutexNext, vars

LEMMA InitRefines == MutexInit => AbstractLock!SpecInit
<1>1. ASSUME MutexInit PROVE Owner = None /\ Asking = {}
  BY <1>1 DEF MutexInit, Owner, Owners, Asking, LockLabels, SlowLabels
<1> QED
  BY <1>1 DEF AbstractLock!SpecInit, Owner, Asking

-----------------------------------------------------------------------------
(* The futex lock: exclusion, a sleeper's mark is never forgotten, and it  *)
(* implements the abstract lock.                                           *)

CONSTANT Thread

VARIABLES key, tpc, wait

Futex == INSTANCE FutexLock WITH pc <- tpc

\* The owner of a free lock is no thread.
LEMMA NoneIsNoThread == Futex!None \notin Thread
BY NoSetContainsEverything, SMT DEF Futex!None

\* lock2 starts with the key unlocked and nobody asleep.
LEMMA FutexInit == Futex!Init => Futex!FutexInv
BY SMT DEF Futex!Init, Futex!FutexInv, Futex!TypeOK, Futex!Exclusion,
   Futex!SleeperRemembered, Futex!Holders, Futex!Sleepers, Futex!At, Futex!Key,
   Futex!InLock

\* Each exchange of the key, each sleep and each wakeup keeps the invariant.
LEMMA FutexStep == Futex!FutexInv /\ [Futex!Next]_Futex!vars => Futex!FutexInv'
<1> SUFFICES ASSUME Futex!FutexInv, [Futex!Next]_Futex!vars PROVE Futex!FutexInv'
  OBVIOUS
<1> USE DEF Futex!FutexInv, Futex!TypeOK, Futex!Exclusion, Futex!SleeperRemembered,
       Futex!Holders, Futex!Sleepers, Futex!At, Futex!Goto, Futex!Key, Futex!InLock,
       Futex!Acquired
<1>1. ASSUME NEW t \in Thread, Futex!Call(t) PROVE Futex!FutexInv'
  BY <1>1, SMT DEF Futex!Call
<1>2. ASSUME NEW t \in Thread, Futex!SpuriousWakeup(t) PROVE Futex!FutexInv'
  BY <1>2, SMT DEF Futex!SpuriousWakeup
<1>3. ASSUME NEW t \in Thread, Futex!Grab(t) PROVE Futex!FutexInv'
  <2>1. CASE key = "unlocked"
    BY <1>3, <2>1, SMT DEF Futex!Grab
  <2>2. CASE key # "unlocked"
    BY <1>3, <2>2, SMT DEF Futex!Grab, Futex!Kept
  <2>3. QED
    BY <2>1, <2>2, SMT
<1>4. ASSUME NEW t \in Thread, Futex!SpinTake(t) PROVE Futex!FutexInv'
  BY <1>4, SMT DEF Futex!SpinTake, Futex!SwapSucceeds
<1>5. ASSUME NEW t \in Thread, Futex!SpinEnd(t) PROVE Futex!FutexInv'
  BY <1>5, SMT DEF Futex!SpinEnd
<1>6. ASSUME NEW t \in Thread, Futex!Mark(t) PROVE Futex!FutexInv'
  BY <1>6, SMT DEF Futex!Mark
<1>7. ASSUME NEW t \in Thread, Futex!FutexSleep(t) PROVE Futex!FutexInv'
  BY <1>7, SMT DEF Futex!FutexSleep, Futex!StillMarked
<1>8. ASSUME NEW t \in Thread, Futex!Unlock(t) PROVE Futex!FutexInv'
  BY <1>8, SMT DEF Futex!Unlock
<1>9. ASSUME NEW t \in Thread, Futex!FutexWakeup(t) PROVE Futex!FutexInv'
  BY <1>9, SMT DEF Futex!FutexWakeup
<1>10. CASE UNCHANGED Futex!vars
  BY <1>10, SMT DEF Futex!vars
<1>11. QED
  BY <1>1, <1>2, <1>3, <1>4, <1>5, <1>6, <1>7, <1>8, <1>9, <1>10, SMT DEF Futex!Next,
     Futex!Step

\* lock2 and unlock2 exclude each other's holders and never forget a sleeper.
THEOREM FutexInvariant == Futex!Spec => []Futex!FutexInv
BY FutexInit, FutexStep, PTL DEF Futex!Spec

\* The abstract lock: who has it, and who has asked for it.
LockOwner ==
  IF Futex!Holders = {} THEN Futex!None ELSE CHOOSE t \in Thread : Futex!At(t, "in")
LockAsking == {t \in Thread : tpc[t] \in Futex!InLock}

\* How the abstract owner follows from who is in.
LEMMA LockOwnerFacts ==
  /\ Futex!Exclusion => \A t \in Thread : Futex!At(t, "in") => LockOwner = t
  /\ Futex!Exclusion' => \A t \in Thread : Futex!At(t, "in")' => LockOwner' = t
  /\ Futex!Holders = {} => LockOwner = Futex!None
  /\ Futex!Holders' = {} => LockOwner' = Futex!None
  /\ Futex!Holders' = Futex!Holders /\ Futex!Exclusion /\ Futex!Exclusion'
       => LockOwner' = LockOwner
BY SMT DEF Futex!Exclusion, Futex!Holders, LockOwner, Futex!At

\* A step that takes the lock, gives it back or leaves it alone is one of the
\* abstract lock or a stutter.
LEMMA FutexRefines ==
  ASSUME Futex!FutexInv, Futex!FutexInv', [Futex!Next]_Futex!vars
  PROVE  [Futex!Abstract!SpecNext]_<<LockOwner, LockAsking>>
<1> DEFINE TakesIt(t) == key = "unlocked" /\ tpc[t] \in Futex!InLock /\ Futex!Goto(t, "in")
           Untouched == Futex!Holders' = Futex!Holders /\ LockAsking' = LockAsking
<1>0. Futex!TypeOK /\ Futex!TypeOK' /\ Futex!Exclusion /\ Futex!Exclusion'
  BY SMT DEF Futex!FutexInv
<1>1. ASSUME NEW t \in Thread, Futex!Call(t) PROVE Futex!Abstract!SpecAsk(t)
  <2>1. /\ Futex!Holders' = Futex!Holders /\ t \notin Futex!Holders
        /\ LockAsking' = LockAsking \cup {t} /\ t \notin LockAsking
    BY <1>0, <1>1, SMT DEF Futex!Call, LockAsking, Futex!Holders, Futex!At, Futex!Goto,
       Futex!TypeOK, Futex!InLock
  <2>2. LockOwner # t
    BY <2>1, NoneIsNoThread, SMT DEF LockOwner, Futex!Holders
  <2>3. LockOwner' = LockOwner
    BY <1>0, <2>1, LockOwnerFacts, SMT
  <2>4. QED
    BY <2>1, <2>2, <2>3, SMT DEF Futex!Abstract!SpecAsk, LockOwner, LockAsking
<1>2. ASSUME NEW t \in Thread, TakesIt(t) PROVE Futex!Abstract!SpecTake(t)
  <2>1. /\ Futex!Holders = {} /\ Futex!At(t, "in")'
        /\ LockAsking' = LockAsking \ {t} /\ t \in LockAsking
    BY <1>0, <1>2, SMT DEF LockAsking, Futex!Exclusion, Futex!Holders, Futex!At,
       Futex!Goto, Futex!TypeOK, Futex!InLock
  <2>2. LockOwner = Futex!None /\ LockOwner' = t
    BY <1>0, <2>1, LockOwnerFacts, SMT
  <2>3. QED
    BY <2>1, <2>2, SMT DEF Futex!Abstract!SpecTake, LockOwner, LockAsking
<1>3. ASSUME NEW t \in Thread, Futex!Unlock(t) PROVE Futex!Abstract!SpecUnlock(t)
  <2>1. Futex!At(t, "in") /\ LockAsking' = LockAsking
    BY <1>0, <1>3, SMT DEF Futex!Unlock, LockAsking, Futex!At, Futex!Goto,
       Futex!TypeOK, Futex!InLock
  <2>2. Futex!Holders' = {}
    BY <1>0, <1>3, SMT DEF Futex!Unlock, Futex!Exclusion
  <2>3. LockOwner = t /\ LockOwner' = Futex!None
    BY <1>0, <2>1, <2>2, LockOwnerFacts, SMT
  <2>4. QED
    BY <2>1, <2>3, SMT DEF Futex!Abstract!SpecUnlock, LockOwner, LockAsking
<1>4. ASSUME NEW t \in Thread,
             \/ Futex!SpuriousWakeup(t) \/ Futex!SpinEnd(t)
             \/ Futex!FutexSleep(t) \/ Futex!FutexWakeup(t)
      PROVE  Untouched
  BY <1>0, <1>4, SMT DEF Futex!SpuriousWakeup, Futex!SpinEnd, Futex!FutexSleep,
     Futex!FutexWakeup, LockAsking, Futex!Holders, Futex!Sleepers, Futex!At,
     Futex!Goto, Futex!TypeOK, Futex!InLock
<1>5. ASSUME NEW t \in Thread, Futex!Grab(t) \/ Futex!SpinTake(t) \/ Futex!Mark(t)
      PROVE  TakesIt(t) \/ Untouched
  BY <1>0, <1>5, SMT DEF Futex!Grab, Futex!SpinTake, Futex!Mark, Futex!SwapSucceeds,
     Futex!Acquired, LockAsking, Futex!Holders, Futex!At, Futex!Goto, Futex!TypeOK,
     Futex!InLock
<1>6. CASE UNCHANGED Futex!vars
  BY <1>6, SMT DEF Futex!vars, LockOwner, LockAsking, Futex!Holders, Futex!At
<1>7. Untouched => UNCHANGED <<LockOwner, LockAsking>>
  BY <1>0, LockOwnerFacts, SMT
<1>8. QED
  BY <1>1, <1>2, <1>3, <1>4, <1>5, <1>6, <1>7, SMT DEF Futex!Next, Futex!Step,
     Futex!Abstract!SpecNext

\* The futex lock implements the lock that the other modules take it for.
THEOREM FutexImplementsLock == Futex!Spec => Futex!ImplementsLock
<1>1. Futex!Init => Futex!Abstract!SpecInit
  BY SMT DEF Futex!Init, Futex!Abstract!SpecInit, Futex!Holders, Futex!InLock, Futex!At
<1>2. Futex!FutexInv /\ Futex!FutexInv' /\ [Futex!Next]_Futex!vars
        => [Futex!Abstract!SpecNext]_Futex!Abstract!specVars
  BY FutexRefines, SMT DEF Futex!Abstract!specVars, LockOwner, LockAsking
<1>3. QED
  BY <1>1, <1>2, FutexInvariant, PTL DEF Futex!Spec, Futex!ImplementsLock,
     Futex!Abstract!MutexSpecification

-----------------------------------------------------------------------------
(* sync.Once: f is called at most once, and no Do returns before it has    *)
(* finished.                                                               *)

VARIABLES done, owner, opc, calls, finished

DoOnce == INSTANCE Once WITH pc <- opc

\* The owner of a free mutex is no goroutine.
LEMMA NoneIsNoGoroutine == DoOnce!None \notin Goroutine
BY NoSetContainsEverything, SMT DEF DoOnce!None

\* Nobody has called Do yet.
LEMMA OnceInit == DoOnce!Init => DoOnce!OnceInv
<1> SUFFICES ASSUME DoOnce!Init PROVE DoOnce!OnceInv
  OBVIOUS
<1> USE NoneIsNoGoroutine DEF DoOnce!Init, DoOnce!TypeOK, DoOnce!InMutex
<1>1. DoOnce!TypeOK
  OBVIOUS
<1>2. ~done
  OBVIOUS
<1>3. QED
  BY <1>1, <1>2, SMT DEF DoOnce!OnceInv

\* Each step of Do and doSlow keeps the invariant.
LEMMA OnceStep == DoOnce!OnceInv /\ [DoOnce!Next]_DoOnce!vars => DoOnce!OnceInv'
<1> SUFFICES ASSUME DoOnce!OnceInv, [DoOnce!Next]_DoOnce!vars PROVE DoOnce!OnceInv'
  OBVIOUS
<1> USE NoneIsNoGoroutine DEF DoOnce!OnceInv, DoOnce!TypeOK, DoOnce!InMutex, DoOnce!At,
       DoOnce!Goto
<1>1. ASSUME NEW g \in Goroutine, DoOnce!Do(g) PROVE DoOnce!OnceInv'
  BY <1>1, SMT DEF DoOnce!Do
<1>2. ASSUME NEW g \in Goroutine, DoOnce!LoadDone(g) PROVE DoOnce!OnceInv'
  BY <1>2, SMT DEF DoOnce!LoadDone
<1>3. ASSUME NEW g \in Goroutine, DoOnce!Lock(g) PROVE DoOnce!OnceInv'
  BY <1>3, SMT DEF DoOnce!Lock
<1>4. ASSUME NEW g \in Goroutine, DoOnce!TestDone(g) PROVE DoOnce!OnceInv'
  <2>1. CASE done
    BY <1>4, <2>1, SMT DEF DoOnce!TestDone
  <2>2. CASE ~done
    BY <1>4, <2>2, SMT DEF DoOnce!TestDone
  <2>3. QED
    BY <2>1, <2>2, SMT
<1>5. ASSUME NEW g \in Goroutine, DoOnce!EndOfF(g) PROVE DoOnce!OnceInv'
  BY <1>5, SMT DEF DoOnce!EndOfF
<1>6. ASSUME NEW g \in Goroutine, DoOnce!StoreDone(g) PROVE DoOnce!OnceInv'
  BY <1>6, SMT DEF DoOnce!StoreDone
<1>7. ASSUME NEW g \in Goroutine, DoOnce!Unlock(g) PROVE DoOnce!OnceInv'
  BY <1>7, SMT DEF DoOnce!Unlock
<1>8. CASE UNCHANGED DoOnce!vars
  BY <1>8, SMT DEF DoOnce!vars
<1> HIDE DEF DoOnce!OnceInv
<1>9. QED
  BY <1>1, <1>2, <1>3, <1>4, <1>5, <1>6, <1>7, <1>8 DEF DoOnce!Next, DoOnce!Step

\* The invariant of Do and doSlow holds with any number of goroutines.
THEOREM OnceInvariant == DoOnce!Spec => []DoOnce!OnceInv
BY OnceInit, OnceStep, PTL DEF DoOnce!Spec

\* "only the first call will invoke f".
THEOREM OnceCalledOnce == DoOnce!Spec => []DoOnce!CalledOnce
<1>1. DoOnce!OnceInv => DoOnce!CalledOnce
  BY SMT DEF DoOnce!OnceInv, DoOnce!CalledOnce
<1>2. QED
  BY <1>1, OnceInvariant, PTL

\* "Do guarantees that when it returns, f has finished".
THEOREM OnceReturnsAfterF == DoOnce!Spec => DoOnce!ReturnsAfterF
<1> DEFINE Returned == \A g \in Goroutine : (opc[g] # "out" /\ opc'[g] = "out") => finished
<1>1. ASSUME DoOnce!OnceInv, [DoOnce!Next]_DoOnce!vars PROVE [Returned]_DoOnce!vars
  <2> USE NoneIsNoGoroutine DEF DoOnce!OnceInv, DoOnce!TypeOK, DoOnce!InMutex,
         DoOnce!At, DoOnce!Goto
  <2>1. ASSUME NEW g \in Goroutine,
               \/ DoOnce!Do(g) \/ DoOnce!Lock(g) \/ DoOnce!TestDone(g)
               \/ DoOnce!EndOfF(g) \/ DoOnce!StoreDone(g)
        PROVE Returned
    BY <1>1, <2>1, SMT DEF DoOnce!Do, DoOnce!Lock, DoOnce!TestDone, DoOnce!EndOfF,
       DoOnce!StoreDone
  <2>2. ASSUME NEW g \in Goroutine, DoOnce!LoadDone(g) PROVE Returned
    BY <1>1, <2>2, SMT DEF DoOnce!LoadDone
  <2>3. ASSUME NEW g \in Goroutine, DoOnce!Unlock(g) PROVE Returned
    BY <1>1, <2>3, SMT DEF DoOnce!Unlock
  <2>4. QED
    BY <1>1, <2>1, <2>2, <2>3, SMT DEF DoOnce!Next, DoOnce!Step
<1>2. DoOnce!Spec => [][Returned]_DoOnce!vars
  BY <1>1, OnceInvariant, PTL DEF DoOnce!Spec
<1>3. QED
  BY <1>2, SMT DEF DoOnce!ReturnsAfterF

-----------------------------------------------------------------------------
(* The theorems about Mutex *)

INSTANCE FiniteSetTheorems

\* The goroutines are finitely many, and sets of them are counted as usual.
LEMMA GoroutineSetsHold == GoroutineSets
<1> SUFFICES ASSUME NEW S \in SUBSET Goroutine, NEW g \in Goroutine
             PROVE  /\ Cardinality(S) \in Nat
                    /\ g \notin S => Cardinality(S \cup {g}) = Cardinality(S) + 1
                    /\ g \in S => Cardinality(S \ {g}) = Cardinality(S) - 1
  BY DEF GoroutineSets
<1>1. IsFiniteSet(S)
  BY SemaAssumption, FS_Subset
<1> QED
  BY <1>1, FS_CardinalityType, FS_AddElement, FS_RemoveElement

\* The inductive invariant holds in every reachable state.
THEOREM Invariance == MutexSpecOf => []IInv
<1>1. MutexInit => IInv
  BY InitIInv, ConstsHold, FS_EmptySet
<1>2. IInv /\ [MutexNext]_vars => IInv'
  BY NextIInv, ConstsHold, GoroutineSetsHold
<1> QED
  BY <1>1, <1>2, PTL DEF MutexSpecOf

\* lockSlow and unlockSlow never throw, and no AddInt32 on the word carries from
\* one field into the next, for any number of goroutines and any timing.
THEOREM MutexConsistent == MutexSpecOf => []NeverInconsistent
<1>1. IInv => NeverInconsistent
  BY DEF IInv, NeverInconsistent
<1> QED
  BY <1>1, Invariance, PTL

\* No wakeup is lost: nobody sleeps in the semaphore beside a free mutex unless
\* somebody is bound to take it or to wake the sleeper.
THEOREM MutexNoticed == MutexSpecOf => []FreeMutexIsNoticed
<1>1. IInv => FreeMutexIsNoticed
  BY Noticed, ConstsHold, GoroutineSetsHold
<1> QED
  BY <1>1, Invariance, PTL

\* Lock, TryLock and Unlock implement the abstract lock, in normal mode and in
\* starvation mode: at most one goroutine has it, and only who asked gets it.
THEOREM MutexImplementsLock == MutexSpecOf => ImplementsLock
<1>1. IInv /\ IInv' /\ [MutexNext]_vars => [AbstractLock!SpecNext]_AbstractLock!specVars
  <2>1. ASSUME IInv, IInv', [MutexNext]_vars PROVE [AbstractLock!SpecNext]_<<Owner, Asking>>
    BY <2>1, NextRefines, ConstsHold, GoroutineSetsHold
  <2> QED
    BY <2>1 DEF AbstractLock!specVars, Owner, Asking
<1> QED
  BY <1>1, InitRefines, Invariance, PTL DEF MutexSpecOf, ImplementsLock,
     AbstractLock!MutexSpecification
=============================================================================
