---------------------------- MODULE PollFDProofs ----------------------------
(***************************************************************************)
(* Proofs about PollFD for every finite set of goroutines, every set of    *)
(* operations and every width of the counters.                             *)
(***************************************************************************)
EXTENDS PollFD, FiniteSetTheorems, TLAPS

Holders == {g \in Goroutine : pc[g] \in Holding}

\* The goroutines that have dropped the last reference and must destroy.
Destroyers == {g \in Goroutine : \/ pc[g] \in Destroying
                                 \/ pc[g] = "semrelease" /\ last[g]}

\* Labels reached only by reads and writes.
ModeLabels == InIO \cup {"rwlock", "semacquire", "semrelease"}
OpInv == \A g \in Goroutine : pc[g] \in ModeLabels => op[g] \in Mode

\* Once the last reference of a closed FD is gone it stays gone, one
\* goroutine destroys the FD, and each stage of destroy has not yet happened.
DestroyInv ==
  /\ \A g, h \in Destroyers : g = h
  /\ (Destroyers # {} \/ sysfd = "closed" \/ pd = "closed" \/ csema > 0)
        => closed /\ ref = 0
  /\ \A g \in Goroutine :
       /\ (pc[g] = "pdClose" \/ (pc[g] = "semrelease" /\ last[g]))
             => sysfd = "open" /\ pd # "closed" /\ csema = 0
       /\ pc[g] = "closeFunc" => sysfd = "open" /\ csema = 0
       /\ pc[g] = "signal" => sysfd = "closed"
  /\ csema > 0 => sysfd = "closed"

\* Until Close has evicted the poll descriptor it still holds a reference.
EvictInv == closed /\ pd = "open" => \E g \in Goroutine : pc[g] \in Closing

\* At most one Close wakes the waiters up, on a closed FD.
CloserInv == \A g \in Goroutine : pc[g] = "wakeAll" =>
               closed /\ \A h \in Goroutine : pc[h] = "wakeAll" => h = g

IInv == /\ TypeOK /\ OpInv /\ RefsAccounted /\ SerializedIO /\ DestroyInv /\ EvictInv
        /\ CloserInv /\ WaitersAccounted

-----------------------------------------------------------------------------
(* Counting references *)

\* Finitely many goroutines hold a reference.
LEMMA HoldersFinite == IsFiniteSet(Holders) /\ Cardinality(Holders) \in Nat
BY FDAssumption, FS_Subset, FS_CardinalityType, Zenon DEF Holders

\* When the count of holders is zero nobody holds a reference.
LEMMA HoldersEmpty == Cardinality(Holders) = 0 => Holders = {}
BY HoldersFinite, FS_EmptySet, Zenon

\* What RefsAccounted counts are the holders.
LEMMA CountHolders == Count(Holding) = Cardinality(Holders)
BY Zenon DEF Count, Holders

\* A step of one goroutine that leaves ref alone and does not take it
\* across the boundary of Holding.
LEMMA RefKept ==
  ASSUME RefsAccounted, ref' = ref, Holders' = Holders
  PROVE  RefsAccounted'
BY Zenon DEF RefsAccounted, Count, Holders

\* incref, rwlock or increfAndClose takes a reference: the count follows.
LEMMA RefTaken ==
  ASSUME RefsAccounted, NEW g \in Goroutine, g \notin Holders,
         ref' = ref + 1, Holders' = Holders \cup {g}
  PROVE  RefsAccounted'
BY HoldersFinite, FS_AddElement, Zenon DEF RefsAccounted, Count, Holders

\* decref or rwunlock gives one up: the count follows.
LEMMA RefDropped ==
  ASSUME RefsAccounted, NEW g \in Holders,
         ref' = ref - 1, Holders' = Holders \ {g}
  PROVE  RefsAccounted'
<1>1. Cardinality(Holders') = Cardinality(Holders) - 1
  BY HoldersFinite, FS_RemoveElement, Zenon
<1> QED
  BY <1>1, Zenon DEF RefsAccounted, Count, Holders

\* An operation in progress is visible in the reference count.
LEMMA RefPositive ==
  ASSUME RefsAccounted, NEW g \in Goroutine, pc[g] \in Holding
  PROVE  ref > 0
BY HoldersFinite, HoldersEmpty, CountHolders DEF RefsAccounted, Holders

-----------------------------------------------------------------------------
(* Counting wakeups *)

Parked(m) == Users(m, {"semacquire"})
Signalling(m) == Users(m, {"semrelease"})

\* What increfAndClose still owes the waiters of m, in terms of f = pc and
\* w = towake.
Owed(f, w, m) == IF Cardinality({g \in Goroutine : f[g] \in {"wakeAll"}}) > 0
                 THEN w[CHOOSE g \in Goroutine : f[g] = "wakeAll"][m] ELSE 0

\* The equation of WaitersAccounted for one mode.
Balance(m) == Cardinality(Parked(m)) =
                waiters[m] + sema[m] + Cardinality(Signalling(m)) + Owed(pc, towake, m)

\* The waiters of a mode balance when those of the other one do.
LEMMA Balanced == WaitersAccounted <=> \A m \in Mode : Balance(m)
BY Zenon DEF WaitersAccounted, Balance, Parked, Signalling, Owed, Count

\* The same after a step.
LEMMA BalancedNext == WaitersAccounted' <=> \A m \in Mode : Balance(m)'
BY Zenon DEF WaitersAccounted, Balance, Parked, Signalling, Owed, Count

\* What counting needs to know about sets of goroutines.
LEMMA GoroutineSets ==
  ASSUME NEW S \in SUBSET Goroutine, NEW g \in Goroutine
  PROVE  /\ g \notin S => Cardinality(S \cup {g}) = Cardinality(S) + 1
         /\ g \in S => Cardinality(S \ {g}) = Cardinality(S) - 1
<1>1. IsFiniteSet(S)
  BY FDAssumption, FS_Subset, Zenon
<1> QED
  BY <1>1, FS_AddElement, FS_RemoveElement, Zenon

\* Finitely many goroutines wait for the lock or signal one that does.
LEMMA UsersFinite ==
  ASSUME NEW m, NEW L
  PROVE  IsFiniteSet(Users(m, L)) /\ Cardinality(Users(m, L)) \in Nat
<1>1. Users(m, L) \subseteq Goroutine
  BY Zenon DEF Users
<1> QED
  BY <1>1, FDAssumption, FS_Subset, FS_CardinalityType, Zenon

\* Nobody owes a wakeup unless some Close is in its waking loops,
LEMMA OwedNone ==
  ASSUME NEW f, NEW w, NEW m, \A h \in Goroutine : f[h] # "wakeAll"
  PROVE  Owed(f, w, m) = 0
<1>1. {h \in Goroutine : f[h] \in {"wakeAll"}} = {}
  BY Zenon
<1> QED
  BY <1>1, FS_EmptySet DEF Owed

\* and then it is the one that owes,
LEMMA OwedBy ==
  ASSUME NEW g \in Goroutine, \A h \in Goroutine : pc[h] = "wakeAll" <=> h = g, NEW m
  PROVE  Owed(pc, towake, m) = towake[g][m]
<1>1. {h \in Goroutine : pc[h] \in {"wakeAll"}} = {g}
  BY Zenon
<1>2. Cardinality({g}) = 1
  BY FS_Singleton, Zenon
<1>3. (CHOOSE h \in Goroutine : pc[h] = "wakeAll") = g
  BY Zenon
<1> QED
  BY <1>1, <1>2, <1>3 DEF Owed

\* also after a step.
LEMMA OwedByNext ==
  ASSUME NEW g \in Goroutine, \A h \in Goroutine : pc'[h] = "wakeAll" <=> h = g, NEW m
  PROVE  Owed(pc', towake', m) = towake'[g][m]
<1>1. {h \in Goroutine : pc'[h] \in {"wakeAll"}} = {g}
  BY Zenon
<1>2. Cardinality({g}) = 1
  BY FS_Singleton, Zenon
<1>3. (CHOOSE h \in Goroutine : pc'[h] = "wakeAll") = g
  BY Zenon
<1> QED
  BY <1>1, <1>2, <1>3 DEF Owed

-----------------------------------------------------------------------------
(* The inductive invariant *)

\* A field that is not full has room for one more.
LEMMA Room ==
  ASSUME NEW L \in Nat \ {0}, NEW n \in 0 .. L - 1, ~Full(n, L)
  PROVE  n + 1 \in 0 .. L - 1
BY DEF Full

\* A function stays one when an argument gets another value of its range.
LEMMA Update ==
  ASSUME NEW S, NEW T, NEW f \in [S -> T], NEW x, NEW v \in T
  PROVE  [f EXCEPT ![x] = v] \in [S -> T]
BY Zenon

\* The initial FD of FD.Init satisfies the inductive invariant.
LEMMA InitIInv == Init => IInv
<1> SUFFICES ASSUME Init PROVE IInv
  BY Zenon
<1> USE FDAssumption
<1>1. PICK pollable \in BOOLEAN :
          /\ isBlocking = ~pollable /\ nonblock = pollable
          /\ pd = IF pollable THEN "open" ELSE "none"
  BY Zenon DEF Init
<1>2. isBlocking \in BOOLEAN /\ nonblock \in BOOLEAN
  BY <1>1, Zenon
<1>3. closed \in BOOLEAN /\ lock \in [Mode -> BOOLEAN]
  BY Zenon DEF Init
<1>4. /\ ref \in 0 .. RefLimit - 1 /\ waiters \in [Mode -> 0 .. WaitLimit - 1]
      /\ sema \in [Mode -> Nat] /\ csema \in Nat
  BY DEF Init
<1>5. sysfd \in {"open", "closed"} /\ pd \in {"none", "open", "evicted", "closed"}
  BY <1>1, Zenon DEF Init
<1>6. /\ pc \in [Goroutine -> Labels] /\ last \in [Goroutine -> BOOLEAN]
      /\ op \in [Goroutine -> Mode \cup {"misc", "setBlocking", "close"}]
      /\ towake \in [Goroutine -> [Mode -> Nat]]
  BY Zenon DEF Init, Labels
<1>7. TypeOK
  BY <1>2, <1>3, <1>4, <1>5, <1>6, Zenon DEF TypeOK
<1>8. Holders = {}
  BY Zenon DEF Init, Holders, Holding, InIO, InMisc, Closing
<1>9. RefsAccounted
  BY <1>8, FS_EmptySet, Zenon DEF Init, RefsAccounted, Count, Holders
<1>10. OpInv /\ SerializedIO /\ EvictInv
  BY Zenon DEF Init, OpInv, ModeLabels, SerializedIO, EvictInv, Users, InIO
<1>11. DestroyInv
  BY <1>1 DEF Init, DestroyInv, Destroyers, Destroying
<1>12. CloserInv
  BY Zenon DEF Init, CloserInv
<1>13. WaitersAccounted
  <2> SUFFICES ASSUME NEW m \in Mode PROVE Balance(m)
    BY Balanced, Zenon
  <2>1. Parked(m) = {} /\ Signalling(m) = {}
    BY Zenon DEF Init, Parked, Signalling, Users
  <2>2. Owed(pc, towake, m) = 0
    BY OwedNone, Zenon DEF Init
  <2> QED
    BY <2>1, <2>2, FS_EmptySet DEF Init, Balance
<1> QED
  BY <1>7, <1>9, <1>10, <1>11, <1>12, <1>13, Zenon DEF IInv

\* No step leaves the types.
LEMMA TypeStep ==
  ASSUME IInv, NEW g \in Goroutine, Step(g) \/ Environment(g)
  PROVE  TypeOK'
<1>0. TypeOK /\ OpInv /\ RefsAccounted
  BY Zenon DEF IInv
<1> USE <1>0, FDAssumption DEF TypeOK, muVars, fdVars
<1>a. pc[g] \in ModeLabels => op[g] \in Mode
  BY Zenon DEF OpInv
<1>b. pc[g] \in Holding => ref > 0
  BY RefPositive, Zenon
<1>c. LastRef \in BOOLEAN
  BY Zenon DEF LastRef
<1>1. CASE incref(g)
  <2>1. CASE Refuse(g)
    BY <1>1, <2>1, Zenon DEF incref, Refuse, Goto, Labels
  <2>2. CASE ~Refuse(g)
    BY <1>1, <2>2 DEF incref, Full, Goto, Labels, Holding, InMisc
  <2> QED
    BY <2>1, <2>2, Zenon
<1>2. CASE rwlock(g)
  <2> USE <1>2 DEF rwlock
  <2>1. CASE RefuseLock(g, op[g])
    BY <2>1, Zenon DEF RefuseLock, Refuse, Goto, Labels
  <2>2. CASE TakeLock(g, op[g])
    <3>1. lock' \in [Mode -> BOOLEAN]
      BY <2>2, Zenon DEF TakeLock
    <3>2. ref' \in 0 .. RefLimit - 1
      BY <2>2 DEF TakeLock, Full
    <3>3. pc' \in [Goroutine -> Labels]
      BY <2>2, Zenon DEF TakeLock, Goto, Labels, Holding, InIO
    <3> QED
      BY <2>2, <3>1, <3>2, <3>3, Zenon DEF TakeLock
  <2>3. CASE AwaitLock(g, op[g])
    <3>a. op[g] \in Mode
      BY <1>a, Zenon DEF ModeLabels
    <3>b. waiters[op[g]] \in 0 .. WaitLimit - 1
      BY <3>a, Zenon
    <3>c. waiters[op[g]] + 1 \in 0 .. WaitLimit - 1
      BY <2>3, <3>b, Room, Zenon DEF AwaitLock
    <3>d. waiters' = [waiters EXCEPT ![op[g]] = waiters[op[g]] + 1]
      BY <2>3, Zenon DEF AwaitLock
    <3>1. waiters' \in [Mode -> 0 .. WaitLimit - 1]
      BY <3>c, <3>d, Update, Zenon
    <3>2. pc' \in [Goroutine -> Labels]
      BY <2>3, Zenon DEF AwaitLock, Goto, Labels
    <3> QED
      BY <2>3, <3>1, <3>2, Zenon DEF AwaitLock
  <2> QED
    BY <2>1, <2>2, <2>3, Zenon
<1>3. CASE Semacquire(g)
  BY <1>3, <1>a DEF Semacquire, Goto, Labels, ModeLabels
<1>4. CASE rwunlock(g)
  <2> USE <1>4 DEF rwunlock
  <2>1. op[g] \in Mode /\ ref > 0
    BY <1>a, <1>b, Zenon DEF ModeLabels, Holding, InIO
  <2>2. lock' \in [Mode -> BOOLEAN] /\ last' \in [Goroutine -> BOOLEAN]
    BY <1>c, Zenon
  <2>3. ref' \in 0 .. RefLimit - 1
    BY <2>1
  <2>4. waiters' \in [Mode -> 0 .. WaitLimit - 1]
    BY <2>1
  <2>5. pc' \in [Goroutine -> Labels]
    BY Zenon DEF Goto, Released, Labels, Destroying
  <2> QED
    BY <2>2, <2>3, <2>4, <2>5, Zenon
<1>5. CASE Semrelease(g)
  BY <1>5, <1>a DEF Semrelease, Goto, Released, Labels, ModeLabels, Destroying
<1>6. CASE decref(g)
  <2>1. ref' \in 0 .. RefLimit - 1
    BY <1>6, <1>b DEF decref, Holding
  <2>2. pc' \in [Goroutine -> Labels]
    BY <1>6, Zenon DEF decref, Goto, Released, Labels, Destroying
  <2> QED
    BY <1>6, <2>1, <2>2, Zenon DEF decref
<1>7. CASE increfAndClose(g)
  <2>1. CASE Refuse(g)
    BY <1>7, <2>1, Zenon DEF increfAndClose, Refuse, Goto, Labels
  <2>2. CASE ~Refuse(g)
    <3> USE <1>7, <2>2 DEF increfAndClose
    <3>1. closed' \in BOOLEAN
      BY Zenon
    <3>2. ref' \in 0 .. RefLimit - 1
      BY DEF Full
    <3>3. waiters' \in [Mode -> 0 .. WaitLimit - 1]
      OBVIOUS
    <3> waiters \in [Mode -> Nat] /\ towake' = [towake EXCEPT ![g] = waiters]
      OBVIOUS
    <3>4. towake' \in [Goroutine -> [Mode -> Nat]]
      BY Update, Zenon
    <3>5. pc' \in [Goroutine -> Labels]
      BY DEF Goto, Labels, Holding, Closing
    <3> QED
      BY <3>1, <3>2, <3>3, <3>4, <3>5, Zenon
  <2> QED
    BY <2>1, <2>2, Zenon
<1>8. CASE WakeAll(g)
  <2> USE <1>8 DEF WakeAll
  <2>0. sema' \in [Mode -> Nat]
    OBVIOUS
  <2>1. towake' \in [Goroutine -> [Mode -> Nat]]
    <3>1. CASE AllWoken(g) /\ UNCHANGED towake
      BY <3>1, Zenon
    <3>2. CASE \E m \in Mode : /\ towake[g][m] > 0
                              /\ towake' = [towake EXCEPT ![g][m] = @ - 1]
      <4>1. PICK m \in Mode : /\ towake[g][m] > 0
                              /\ towake' = [towake EXCEPT ![g][m] = @ - 1]
        BY <3>2, Zenon
      <4>2. [towake[g] EXCEPT ![m] = @ - 1] \in [Mode -> Nat]
        BY <4>1
      <4> QED
        BY <4>1, <4>2, Update, Zenon
    <3> QED
      BY <3>1, <3>2, Zenon
  <2>2. pc' \in [Goroutine -> Labels]
    BY DEF Goto, Labels, Holding, Closing
  <2> QED
    BY <2>0, <2>1, <2>2, Zenon
<1>9. CASE Prepare(g)
  BY <1>9, Zenon DEF Prepare, Goto, Labels, Holding, InIO
<1>10. CASE WouldBlock(g)
  BY <1>10, Zenon DEF WouldBlock, Goto, Labels, Holding, InIO
<1>11. CASE WaitEvicted(g)
  BY <1>11, Zenon DEF WaitEvicted, Goto, Labels, Holding, InIO
<1>12. CASE Misc(g)
  BY <1>12, Zenon DEF Misc, Goto, Labels, Holding, InMisc
<1>13. CASE SetNonblock(g)
  BY <1>13, Zenon DEF SetNonblock, Goto, Labels, Holding
<1>14. CASE Evict(g)
  BY <1>14, Zenon DEF Evict, Goto, Labels, Holding
<1>15. CASE PdClose(g)
  BY <1>15, Zenon DEF PdClose, Goto, Labels, Destroying
<1>16. CASE CloseFunc(g)
  BY <1>16, Zenon DEF CloseFunc, Goto, Labels, Destroying
<1>17. CASE Signal(g)
  BY <1>17 DEF Signal, Goto, Released, Labels
<1>18. CASE ReadIsBlocking(g)
  BY <1>18, Zenon DEF ReadIsBlocking, Goto, Labels
<1>19. CASE WaitClosed(g)
  BY <1>19 DEF WaitClosed, Goto, Labels
<1>20. CASE Transfer(g)
  BY <1>20, Zenon DEF Transfer, Goto, Labels, Holding, InIO
<1>21. CASE WaitReturns(g)
  BY <1>21 DEF WaitReturns, Goto, Labels, Holding, InIO
<1>22. ASSUME NEW o \in Ops, Call(g, o) PROVE TypeOK'
  BY <1>22, Zenon DEF Call, Goto, Labels
<1> QED
  BY <1>1, <1>2, <1>3, <1>4, <1>5, <1>6, <1>7, <1>8, <1>9, <1>10, <1>11, <1>12, <1>13,
     <1>14, <1>15, <1>16, <1>17, <1>18, <1>19, <1>20, <1>21, <1>22, Zenon
  DEF Step, Environment

\* Only reads and writes reach the labels of rwlock and rwunlock.
LEMMA OpStep ==
  ASSUME TypeOK, OpInv, NEW g \in Goroutine, Step(g) \/ Environment(g)
  PROVE  OpInv'
<1> USE DEF TypeOK, OpInv, ModeLabels, InIO, Goto
<1>1. CASE incref(g)
  BY <1>1 DEF incref, Refuse
<1>2. CASE rwlock(g)
  BY <1>2 DEF rwlock, RefuseLock, TakeLock, AwaitLock, Refuse
<1>3. CASE Semacquire(g)
  BY <1>3, Zenon DEF Semacquire
<1>4. CASE rwunlock(g)
  BY <1>4, Zenon DEF rwunlock, Released
<1>5. CASE Semrelease(g)
  BY <1>5, Zenon DEF Semrelease, Released
<1>6. CASE decref(g)
  BY <1>6, Zenon DEF decref, Released
<1>7. CASE increfAndClose(g)
  BY <1>7 DEF increfAndClose, Refuse
<1>8. CASE WakeAll(g)
  BY <1>8, Zenon DEF WakeAll
<1>9. CASE Prepare(g)
  BY <1>9, Zenon DEF Prepare
<1>10. CASE WouldBlock(g)
  BY <1>10, Zenon DEF WouldBlock
<1>11. CASE WaitEvicted(g)
  BY <1>11, Zenon DEF WaitEvicted
<1>12. CASE Misc(g)
  BY <1>12 DEF Misc
<1>13. CASE SetNonblock(g)
  BY <1>13, Zenon DEF SetNonblock
<1>14. CASE Evict(g)
  BY <1>14, Zenon DEF Evict
<1>15. CASE PdClose(g)
  BY <1>15, Zenon DEF PdClose
<1>16. CASE CloseFunc(g)
  BY <1>16, Zenon DEF CloseFunc
<1>17. CASE Signal(g)
  BY <1>17, Zenon DEF Signal, Released
<1>18. CASE ReadIsBlocking(g)
  BY <1>18, Zenon DEF ReadIsBlocking
<1>19. CASE WaitClosed(g)
  BY <1>19, Zenon DEF WaitClosed
<1>20. CASE Transfer(g)
  BY <1>20, Zenon DEF Transfer
<1>21. CASE WaitReturns(g)
  BY <1>21, Zenon DEF WaitReturns
<1>22. ASSUME NEW o \in Ops, Call(g, o) PROVE OpInv'
  BY <1>22, FDAssumption DEF Call
<1> QED
  BY <1>1, <1>2, <1>3, <1>4, <1>5, <1>6, <1>7, <1>8, <1>9, <1>10, <1>11, <1>12, <1>13,
     <1>14, <1>15, <1>16, <1>17, <1>18, <1>19, <1>20, <1>21, <1>22, Zenon
  DEF Step, Environment

\* Every step keeps the reference count equal to the operations in progress.
LEMMA RefStep ==
  ASSUME TypeOK, RefsAccounted, NEW g \in Goroutine, Step(g) \/ Environment(g)
  PROVE  RefsAccounted'
<1> USE DEF TypeOK, Goto, muVars
<1>1. CASE incref(g)
  <2>1. CASE Refuse(g)
    BY <1>1, <2>1, RefKept, Zenon DEF incref, Refuse, Holders, Holding, InIO, InMisc,
        Closing
  <2>2. CASE ~Refuse(g)
    BY <1>1, <2>2, RefTaken DEF incref, Holders, Holding, InIO, InMisc, Closing
  <2> QED
    BY <2>1, <2>2, Zenon
<1>2. CASE rwlock(g)
  <2>1. CASE TakeLock(g, op[g])
    BY <1>2, <2>1, RefTaken DEF rwlock, TakeLock, Holders, Holding, InIO, InMisc, Closing
  <2>2. CASE RefuseLock(g, op[g]) \/ AwaitLock(g, op[g])
    BY <1>2, <2>2, RefKept
    DEF rwlock, RefuseLock, AwaitLock, Refuse, Holders, Holding, InIO, InMisc, Closing
  <2> QED
    BY <1>2, <2>1, <2>2, Zenon DEF rwlock
<1>3. CASE Semacquire(g)
  BY <1>3, RefKept, Zenon DEF Semacquire, Holders, Holding, InIO, InMisc, Closing
<1>4. CASE rwunlock(g)
  BY <1>4, RefDropped DEF rwunlock, Released, Holders, Holding, InIO, InMisc, Closing
<1>5. CASE Semrelease(g)
  BY <1>5, RefKept, Zenon DEF Semrelease, Released, Holders, Holding, InIO, InMisc,
      Closing
<1>6. CASE decref(g)
  BY <1>6, RefDropped DEF decref, Released, Holders, Holding, InIO, InMisc, Closing
<1>7. CASE increfAndClose(g)
  <2>1. CASE Refuse(g)
    BY <1>7, <2>1, RefKept, Zenon DEF increfAndClose, Refuse, Holders, Holding, InIO,
        InMisc, Closing
  <2>2. CASE ~Refuse(g)
    BY <1>7, <2>2, RefTaken DEF increfAndClose, Holders, Holding, InIO, InMisc, Closing
  <2> QED
    BY <2>1, <2>2, Zenon
<1>8. CASE WakeAll(g)
  BY <1>8, RefKept, Zenon DEF WakeAll, Holders, Holding, InIO, InMisc, Closing
<1>9. CASE Prepare(g)
  BY <1>9, RefKept, Zenon DEF Prepare, Holders, Holding, InIO, InMisc, Closing
<1>10. CASE WouldBlock(g)
  BY <1>10, RefKept, Zenon DEF WouldBlock, Holders, Holding, InIO, InMisc, Closing
<1>11. CASE WaitEvicted(g)
  BY <1>11, RefKept, Zenon DEF WaitEvicted, Holders, Holding, InIO, InMisc, Closing
<1>12. CASE Misc(g)
  BY <1>12, RefKept, Zenon DEF Misc, Holders, Holding, InIO, InMisc, Closing
<1>13. CASE SetNonblock(g)
  BY <1>13, RefKept, Zenon DEF SetNonblock, Holders, Holding, InIO, InMisc, Closing
<1>14. CASE Evict(g)
  BY <1>14, RefKept, Zenon DEF Evict, Holders, Holding, InIO, InMisc, Closing
<1>15. CASE PdClose(g)
  BY <1>15, RefKept, Zenon DEF PdClose, Holders, Holding, InIO, InMisc, Closing
<1>16. CASE CloseFunc(g)
  BY <1>16, RefKept, Zenon DEF CloseFunc, Holders, Holding, InIO, InMisc, Closing
<1>17. CASE Signal(g)
  BY <1>17, RefKept, Zenon DEF Signal, Released, Holders, Holding, InIO, InMisc, Closing
<1>18. CASE ReadIsBlocking(g)
  BY <1>18, RefKept, Zenon DEF ReadIsBlocking, Holders, Holding, InIO, InMisc, Closing
<1>19. CASE WaitClosed(g)
  BY <1>19, RefKept, Zenon DEF WaitClosed, Holders, Holding, InIO, InMisc, Closing
<1>20. CASE Transfer(g)
  BY <1>20, RefKept, Zenon DEF Transfer, Holders, Holding, InIO, InMisc, Closing
<1>21. CASE WaitReturns(g)
  BY <1>21, RefKept DEF WaitReturns, Holders, Holding, InIO, InMisc, Closing
<1>22. ASSUME NEW o \in Ops, Call(g, o) PROVE RefsAccounted'
  BY <1>22, RefKept, Zenon DEF Call, Holders, Holding, InIO, InMisc, Closing
<1> QED
  BY <1>1, <1>2, <1>3, <1>4, <1>5, <1>6, <1>7, <1>8, <1>9, <1>10, <1>11, <1>12, <1>13,
      <1>14, <1>15, <1>16, <1>17, <1>18, <1>19, <1>20, <1>21, <1>22, Zenon DEF Step,
      Environment

\* Reads stay serialized, and so do writes.
LEMMA SerializedStep ==
  ASSUME TypeOK, OpInv, SerializedIO, NEW g \in Goroutine, Step(g) \/ Environment(g)
  PROVE  SerializedIO'
<1> USE DEF TypeOK, Goto, muVars, SerializedIO, Users, InIO
<1>1. CASE incref(g)
  BY <1>1 DEF incref, Refuse
<1>2. CASE rwlock(g)
  BY <1>2 DEF rwlock, RefuseLock, TakeLock, AwaitLock, Refuse, OpInv, ModeLabels, Free
<1>3. CASE Semacquire(g)
  BY <1>3 DEF Semacquire
<1>4. CASE rwunlock(g)
  <2>1. op[g] \in Mode /\ g \in Users(op[g], InIO)
    BY <1>4, Zenon DEF rwunlock, OpInv, ModeLabels
  <2>2. pc'[g] \notin InIO /\ \A h \in Goroutine : h # g => pc'[h] = pc[h]
    BY <1>4 DEF rwunlock, Released
  <2>3. op' = op /\ lock' = [lock EXCEPT ![op[g]] = FALSE]
    BY <1>4, Zenon DEF rwunlock
  <2>4. \A m \in Mode : m # op[g] => Users(m, InIO)' = Users(m, InIO) /\ lock'[m] = lock[m]
    BY <2>1, <2>2, <2>3
  <2>5. ASSUME NEW m \in Mode
        PROVE  /\ lock'[m] <=> Users(m, InIO)' # {}
               /\ \A f, h \in Users(m, InIO)' : f = h
    <3>1. CASE m = op[g]
      <4>1. ~lock'[m] /\ Users(m, InIO)' = {}
        BY <2>1, <2>2, <2>3, <3>1
      <4> HIDE DEF Users
      <4> QED
        BY <4>1, Zenon
    <3>2. CASE m # op[g]
      <4>1. /\ lock[m] <=> Users(m, InIO) # {}
            /\ \A f, h \in Users(m, InIO) : f = h
        BY Zenon
      <4> HIDE DEF Users
      <4> QED
        BY <2>4, <3>2, <4>1, Zenon
    <3> QED
      BY <3>1, <3>2, Zenon
  <2> QED
    BY <2>5, Zenon
<1>5. CASE Semrelease(g)
  BY <1>5 DEF Semrelease, Released
<1>6. CASE decref(g)
  BY <1>6 DEF decref, Released
<1>7. CASE increfAndClose(g)
  <2>1. pc[g] = "increfAndClose" /\ UNCHANGED <<lock, op>>
    BY <1>7, Zenon DEF increfAndClose, Refuse
  <2>2. Goto(g, "idle") \/ Goto(g, "wakeAll")
    BY <1>7, Zenon DEF increfAndClose, Refuse
  <2> QED
    BY <2>1, <2>2
<1>8. CASE WakeAll(g)
  BY <1>8 DEF WakeAll
<1>9. CASE Prepare(g)
  BY <1>9 DEF Prepare
<1>10. CASE WouldBlock(g)
  BY <1>10 DEF WouldBlock
<1>11. CASE WaitEvicted(g)
  BY <1>11 DEF WaitEvicted
<1>12. CASE Misc(g)
  <2>1. PICK l \in {"setNonblock", "decref"} : pc' = [pc EXCEPT ![g] = l]
    BY <1>12, Zenon DEF Misc
  <2>2. UNCHANGED <<closed, ref, lock, csema, sysfd, pd, op, last>>
    BY <1>12, Zenon DEF Misc
  <2> QED
    BY <1>12, <2>1, <2>2 DEF Misc
<1>13. CASE SetNonblock(g)
  BY <1>13 DEF SetNonblock
<1>14. CASE Evict(g)
  BY <1>14 DEF Evict
<1>15. CASE PdClose(g)
  BY <1>15 DEF PdClose
<1>16. CASE CloseFunc(g)
  BY <1>16 DEF CloseFunc
<1>17. CASE Signal(g)
  BY <1>17 DEF Signal, Released
<1>18. CASE ReadIsBlocking(g)
  BY <1>18 DEF ReadIsBlocking
<1>19. CASE WaitClosed(g)
  BY <1>19 DEF WaitClosed
<1>20. CASE Transfer(g)
  BY <1>20 DEF Transfer
<1>21. CASE WaitReturns(g)
  BY <1>21 DEF WaitReturns
<1>22. ASSUME NEW o \in Ops, Call(g, o) PROVE SerializedIO'
  BY <1>22 DEF Call
<1> QED
  BY <1>1, <1>2, <1>3, <1>4, <1>5, <1>6, <1>7, <1>8, <1>9, <1>10, <1>11, <1>12, <1>13,
     <1>14, <1>15, <1>16, <1>17, <1>18, <1>19, <1>20, <1>21, <1>22, Zenon
  DEF Step, Environment

\* At most one goroutine destroys the FD, after its last reference is gone.
LEMMA DestroyStep ==
  ASSUME TypeOK, RefsAccounted, DestroyInv,
         NEW g \in Goroutine, Step(g) \/ Environment(g)
  PROVE  DestroyInv'
<1>0. pc[g] \in Holding => ref > 0
  BY RefPositive, Zenon
<1> USE DEF TypeOK, Goto, muVars, fdVars, DestroyInv, Destroyers, Destroying
<1>1. CASE incref(g)
  BY <1>1 DEF incref, Refuse
<1>2. CASE rwlock(g)
  BY <1>2 DEF rwlock, RefuseLock, TakeLock, AwaitLock, Refuse
<1>3. CASE Semacquire(g)
  BY <1>3 DEF Semacquire
<1>4. CASE rwunlock(g)
  <2>1. /\ UNCHANGED <<closed, csema, sysfd, pd>> /\ ref' = ref - 1
        /\ \A h \in Goroutine : h # g => pc'[h] = pc[h] /\ last'[h] = last[h]
    BY <1>4 DEF rwunlock
  <2>2. pc[g] = "rwunlock" /\ ref > 0
    BY <1>0, <1>4, Zenon DEF rwunlock, Holding, InIO
  <2>3. CASE LastRef
    <3>1. pc'[g] \in {"semrelease", "pdClose"}
      BY <1>4, <2>3, Zenon DEF rwunlock, Released
    <3>2. closed /\ ref = 1 /\ csema = 0 /\ sysfd = "open" /\ pd # "closed"
      BY <2>3 DEF LastRef
    <3>3. Destroyers = {}
      BY <3>2
    <3> QED
      BY <2>1, <3>1, <3>2, <3>3
  <2>4. CASE ~LastRef
    <3>1. pc'[g] \in {"semrelease", "readIsBlocking", "idle"}
      BY <1>4, <2>4 DEF rwunlock, Released
    <3>2. pc'[g] = "semrelease" => ~last'[g]
      BY <1>4, <2>4 DEF rwunlock, Released
    <3>3. Destroyers' = Destroyers
      BY <2>1, <2>2, <3>1, <3>2
    <3> QED
      BY <2>1, <2>2, <3>1, <3>2, <3>3
  <2> QED
    BY <2>3, <2>4, Zenon
<1>5. CASE Semrelease(g)
  BY <1>5 DEF Semrelease, Released
<1>6. CASE decref(g)
  BY <1>0, <1>6 DEF decref, Released, LastRef, Holding, InIO
<1>7. CASE increfAndClose(g)
  BY <1>7 DEF increfAndClose, Refuse
<1>8. CASE WakeAll(g)
  BY <1>8 DEF WakeAll
<1>9. CASE Prepare(g)
  BY <1>9 DEF Prepare
<1>10. CASE WouldBlock(g)
  BY <1>10 DEF WouldBlock
<1>11. CASE WaitEvicted(g)
  BY <1>11 DEF WaitEvicted
<1>12. CASE Misc(g)
  <2>1. PICK l \in {"setNonblock", "decref"} : pc' = [pc EXCEPT ![g] = l]
    BY <1>12, Zenon DEF Misc
  <2>2. UNCHANGED <<closed, ref, lock, csema, sysfd, pd, op, last>>
    BY <1>12, Zenon DEF Misc
  <2> QED
    BY <1>12, <2>1, <2>2 DEF Misc
<1>13. CASE SetNonblock(g)
  BY <1>13 DEF SetNonblock
<1>14. CASE Evict(g)
  BY <1>0, <1>14 DEF Evict, Pollable, Holding, Closing
<1>15. CASE PdClose(g)
  BY <1>15 DEF PdClose, Pollable, Holding, Closing
<1>16. CASE CloseFunc(g)
  BY <1>16 DEF CloseFunc
<1>17. CASE Signal(g)
  BY <1>17 DEF Signal, Released
<1>18. CASE ReadIsBlocking(g)
  BY <1>18 DEF ReadIsBlocking
<1>19. CASE WaitClosed(g)
  BY <1>19 DEF WaitClosed
<1>20. CASE Transfer(g)
  BY <1>20 DEF Transfer
<1>21. CASE WaitReturns(g)
  BY <1>21 DEF WaitReturns
<1>22. ASSUME NEW o \in Ops, Call(g, o) PROVE DestroyInv'
  BY <1>22 DEF Call
<1> QED
  BY <1>1, <1>2, <1>3, <1>4, <1>5, <1>6, <1>7, <1>8, <1>9, <1>10, <1>11, <1>12, <1>13,
     <1>14, <1>15, <1>16, <1>17, <1>18, <1>19, <1>20, <1>21, <1>22, Zenon
  DEF Step, Environment

\* Close keeps its reference until it has evicted the poll descriptor.
LEMMA EvictStep ==
  ASSUME TypeOK, EvictInv, NEW g \in Goroutine, Step(g) \/ Environment(g)
  PROVE  EvictInv'
<1> USE DEF TypeOK, Goto, muVars, fdVars, EvictInv, Closing
<1>1. CASE incref(g)
  BY <1>1, Zenon DEF incref, Refuse
<1>2. CASE rwlock(g)
  BY <1>2, Zenon DEF rwlock, RefuseLock, TakeLock, AwaitLock, Refuse
<1>3. CASE Semacquire(g)
  BY <1>3, Zenon DEF Semacquire
<1>4. CASE rwunlock(g)
  BY <1>4, Zenon DEF rwunlock, Released
<1>5. CASE Semrelease(g)
  BY <1>5, Zenon DEF Semrelease, Released
<1>6. CASE decref(g)
  BY <1>6, Zenon DEF decref, Released
<1>7. CASE increfAndClose(g)
  BY <1>7, Zenon DEF increfAndClose, Refuse
<1>8. CASE WakeAll(g)
  BY <1>8, Zenon DEF WakeAll
<1>9. CASE Prepare(g)
  BY <1>9, Zenon DEF Prepare
<1>10. CASE WouldBlock(g)
  BY <1>10, Zenon DEF WouldBlock
<1>11. CASE WaitEvicted(g)
  BY <1>11, Zenon DEF WaitEvicted
<1>12. CASE Misc(g)
  BY <1>12, Zenon DEF Misc
<1>13. CASE SetNonblock(g)
  BY <1>13, Zenon DEF SetNonblock
<1>14. CASE Evict(g)
  BY <1>14, Zenon DEF Evict, Pollable
<1>15. CASE PdClose(g)
  BY <1>15, Zenon DEF PdClose, Pollable
<1>16. CASE CloseFunc(g)
  BY <1>16, Zenon DEF CloseFunc
<1>17. CASE Signal(g)
  BY <1>17, Zenon DEF Signal, Released
<1>18. CASE ReadIsBlocking(g)
  BY <1>18, Zenon DEF ReadIsBlocking
<1>19. CASE WaitClosed(g)
  BY <1>19, Zenon DEF WaitClosed
<1>20. CASE Transfer(g)
  BY <1>20, Zenon DEF Transfer
<1>21. CASE WaitReturns(g)
  BY <1>21, Zenon DEF WaitReturns
<1>22. ASSUME NEW o \in Ops, Call(g, o) PROVE EvictInv'
  BY <1>22, Zenon DEF Call
<1> QED
  BY <1>1, <1>2, <1>3, <1>4, <1>5, <1>6, <1>7, <1>8, <1>9, <1>10, <1>11, <1>12, <1>13,
      <1>14, <1>15, <1>16, <1>17, <1>18, <1>19, <1>20, <1>21, <1>22, Zenon DEF Step,
      Environment

\* Only a Close that finds the FD open starts to wake the waiters up.
LEMMA CloserStep ==
  ASSUME TypeOK, CloserInv, NEW g \in Goroutine, Step(g) \/ Environment(g)
  PROVE  CloserInv'
<1> USE DEF TypeOK, Goto, muVars, CloserInv
<1>1. CASE incref(g)
  BY <1>1 DEF incref, Refuse
<1>2. CASE rwlock(g)
  BY <1>2 DEF rwlock, RefuseLock, TakeLock, AwaitLock, Refuse
<1>3. CASE Semacquire(g)
  BY <1>3 DEF Semacquire
<1>4. CASE rwunlock(g)
  BY <1>4 DEF rwunlock, Released
<1>5. CASE Semrelease(g)
  BY <1>5 DEF Semrelease, Released
<1>6. CASE decref(g)
  BY <1>6 DEF decref, Released
<1>7. CASE increfAndClose(g)
  BY <1>7 DEF increfAndClose, Refuse
<1>8. CASE WakeAll(g)
  BY <1>8 DEF WakeAll
<1>9. CASE Prepare(g)
  BY <1>9, Zenon DEF Prepare
<1>10. CASE WouldBlock(g)
  BY <1>10 DEF WouldBlock
<1>11. CASE WaitEvicted(g)
  BY <1>11 DEF WaitEvicted
<1>12. CASE Misc(g)
  BY <1>12 DEF Misc
<1>13. CASE SetNonblock(g)
  BY <1>13, Zenon DEF SetNonblock
<1>14. CASE Evict(g)
  BY <1>14, Zenon DEF Evict
<1>15. CASE PdClose(g)
  BY <1>15, Zenon DEF PdClose
<1>16. CASE CloseFunc(g)
  BY <1>16, Zenon DEF CloseFunc
<1>17. CASE Signal(g)
  BY <1>17 DEF Signal, Released
<1>18. CASE ReadIsBlocking(g)
  BY <1>18, Zenon DEF ReadIsBlocking
<1>19. CASE WaitClosed(g)
  BY <1>19 DEF WaitClosed
<1>20. CASE Transfer(g)
  BY <1>20, Zenon DEF Transfer
<1>21. CASE WaitReturns(g)
  BY <1>21 DEF WaitReturns
<1>22. ASSUME NEW o \in Ops, Call(g, o) PROVE CloserInv'
  BY <1>22 DEF Call
<1> QED
  BY <1>1, <1>2, <1>3, <1>4, <1>5, <1>6, <1>7, <1>8, <1>9, <1>10, <1>11, <1>12, <1>13,
     <1>14, <1>15, <1>16, <1>17, <1>18, <1>19, <1>20, <1>21, <1>22, Zenon
  DEF Step, Environment

\* A step of g outside increfAndClose leaves what is owed alone.
LEMMA OwedKept ==
  ASSUME TypeOK, CloserInv, NEW g \in Goroutine, pc[g] # "wakeAll",
         NEW l, l # "wakeAll", pc' = [pc EXCEPT ![g] = l], towake' = towake,
         NEW m \in Mode
  PROVE  /\ Owed(pc', towake', m) = Owed(pc, towake, m)
         /\ Owed(pc, towake, m) \in Nat
<1>1. \A h \in Goroutine : pc'[h] = "wakeAll" <=> pc[h] = "wakeAll"
  BY Zenon DEF TypeOK
<1>2. CASE \A h \in Goroutine : pc[h] # "wakeAll"
  <2>1. Owed(pc, towake, m) = 0 /\ Owed(pc', towake', m) = 0
    BY <1>1, <1>2, OwedNone, Zenon
  <2> QED
    BY <2>1
<1>3. ASSUME NEW h \in Goroutine, pc[h] = "wakeAll"
      PROVE  /\ Owed(pc', towake', m) = Owed(pc, towake, m)
             /\ Owed(pc, towake, m) \in Nat
  <2>1. \A f \in Goroutine : pc[f] = "wakeAll" <=> f = h
    BY <1>3, Zenon DEF CloserInv
  <2>4. \A f \in Goroutine : pc'[f] = "wakeAll" <=> f = h
    BY <1>1, <2>1, Zenon
  <2>2. Owed(pc, towake, m) = towake[h][m]
    BY <1>3, <2>1, OwedBy, Zenon
  <2>3. Owed(pc', towake', m) = towake'[h][m]
    BY <1>3, <2>4, OwedByNext, Zenon
  <2> QED
    BY <2>2, <2>3 DEF TypeOK
<1> QED
  BY <1>2, <1>3, Zenon

\* A step that neither enters nor leaves the labels of a wait or a wakeup, and
\* leaves the counters alone.
LEMMA BalanceKept ==
  ASSUME TypeOK, CloserInv, WaitersAccounted, NEW g \in Goroutine,
         pc[g] \notin {"semacquire", "semrelease", "wakeAll"},
         NEW l, l \notin {"semacquire", "semrelease", "wakeAll"},
         pc' = [pc EXCEPT ![g] = l], waiters' = waiters, sema' = sema, towake' = towake,
         op' = [op EXCEPT ![g] = op'[g]]
  PROVE  WaitersAccounted'
<1> SUFFICES ASSUME NEW m \in Mode PROVE Balance(m)'
  BY BalancedNext, Zenon
<1>1. Parked(m)' = Parked(m) /\ Signalling(m)' = Signalling(m)
  BY DEF Parked, Signalling, Users, TypeOK
<1>2. Owed(pc', towake', m) = Owed(pc, towake, m)
  BY OwedKept, Zenon
<1>3. Balance(m)
  BY Balanced, Zenon
<1> QED
  BY <1>1, <1>2, <1>3, Zenon DEF Balance

\* Every wait for the lock keeps its wakeup.
LEMMA WaitersStep ==
  ASSUME TypeOK, OpInv, CloserInv, WaitersAccounted,
         NEW g \in Goroutine, Step(g) \/ Environment(g)
  PROVE  WaitersAccounted'
<1> USE DEF TypeOK, Goto, muVars
<1>a. \A m \in Mode : Balance(m)
  BY Balanced, Zenon
<1>b. \A m \in Mode :
        /\ Parked(m) \subseteq Goroutine /\ Signalling(m) \subseteq Goroutine
        /\ Cardinality(Parked(m)) \in Nat /\ Cardinality(Signalling(m)) \in Nat
        /\ waiters[m] \in Nat /\ sema[m] \in Nat
  <2>1. \A m, L : Users(m, L) \subseteq Goroutine
    BY Zenon DEF Users
  <2>2. \A m \in Mode : waiters[m] \in Nat /\ sema[m] \in Nat
    BY FDAssumption
  <2> QED
    BY <2>1, <2>2, UsersFinite, Zenon DEF Parked, Signalling
<1>1. CASE incref(g)
  BY <1>1, BalanceKept DEF incref, Refuse
<1>2. CASE rwlock(g)
  <2>1. CASE RefuseLock(g, op[g]) \/ TakeLock(g, op[g])
    BY <1>2, <2>1, BalanceKept DEF rwlock, RefuseLock, TakeLock, Refuse
  <2>2. CASE AwaitLock(g, op[g])
    <3> SUFFICES ASSUME NEW m \in Mode PROVE Balance(m)'
      BY BalancedNext, Zenon
    <3> USE <1>2, <2>2 DEF rwlock, AwaitLock
    <3>1. Owed(pc', towake', m) = Owed(pc, towake, m) /\ Owed(pc, towake, m) \in Nat
      BY OwedKept, Zenon
    <3>2. Signalling(m)' = Signalling(m)
      BY Zenon DEF Signalling, Users
    <3>3. CASE m = op[g]
      <4>1. Parked(m)' = Parked(m) \cup {g} /\ g \notin Parked(m)
        BY <3>3 DEF Parked, Users
      <4>2. Cardinality(Parked(m)') = Cardinality(Parked(m)) + 1
        BY <4>1, <1>b, GoroutineSets, Zenon
      <4>3. waiters'[m] = waiters[m] + 1 /\ sema'[m] = sema[m]
        BY <3>3, Zenon
      <4> QED
        BY <1>a, <1>b, <3>1, <3>2, <4>2, <4>3 DEF Balance
    <3>4. CASE m # op[g]
      <4>1. Parked(m)' = Parked(m) /\ waiters'[m] = waiters[m] /\ sema'[m] = sema[m]
        BY <3>4, Zenon DEF Parked, Users
      <4> QED
        BY <1>a, <3>1, <3>2, <4>1, Zenon DEF Balance
    <3> QED
      BY <3>3, <3>4, Zenon
  <2> QED
    BY <1>2, <2>1, <2>2, Zenon DEF rwlock
<1>3. CASE Semacquire(g)
  <2> SUFFICES ASSUME NEW m \in Mode PROVE Balance(m)'
    BY BalancedNext, Zenon
  <2> USE <1>3 DEF Semacquire
  <2>1. Owed(pc', towake', m) = Owed(pc, towake, m) /\ Owed(pc, towake, m) \in Nat
    BY OwedKept, Zenon
  <2>2. Signalling(m)' = Signalling(m) /\ waiters'[m] = waiters[m]
    BY Zenon DEF Signalling, Users
  <2>3. CASE m = op[g]
    <3>1. Parked(m)' = Parked(m) \ {g} /\ g \in Parked(m)
      BY <2>3, Zenon DEF Parked, Users
    <3>2. Cardinality(Parked(m)') = Cardinality(Parked(m)) - 1
      BY <3>1, <1>b, GoroutineSets, Zenon
    <3>3. sema'[m] = sema[m] - 1
      BY <2>3, Zenon
    <3> QED
      BY <1>a, <1>b, <2>1, <2>2, <3>2, <3>3 DEF Balance
  <2>4. CASE m # op[g]
    <3>1. Parked(m)' = Parked(m) /\ sema'[m] = sema[m]
      BY <2>4, Zenon DEF Parked, Users
    <3> QED
      BY <1>a, <2>1, <2>2, <3>1, Zenon DEF Balance
  <2> QED
    BY <2>3, <2>4, Zenon
<1>4. CASE rwunlock(g)
  <2>1. CASE ~(waiters[op[g]] > 0)
    BY <1>4, <2>1, BalanceKept DEF rwunlock, Released
  <2>2. CASE waiters[op[g]] > 0
    <3> SUFFICES ASSUME NEW m \in Mode PROVE Balance(m)'
      BY BalancedNext, Zenon
    <3> USE <1>4, <2>2 DEF rwunlock
    <3>1. Owed(pc', towake', m) = Owed(pc, towake, m) /\ Owed(pc, towake, m) \in Nat
      BY OwedKept, Zenon
    <3>2. Parked(m)' = Parked(m) /\ sema'[m] = sema[m]
      BY Zenon DEF Parked, Users
    <3>3. CASE m = op[g]
      <4>1. Signalling(m)' = Signalling(m) \cup {g} /\ g \notin Signalling(m)
        BY <3>3 DEF Signalling, Users
      <4>2. Cardinality(Signalling(m)') = Cardinality(Signalling(m)) + 1
        BY <4>1, <1>b, GoroutineSets, Zenon
      <4>3. waiters'[m] = waiters[m] - 1
        BY <3>3, Zenon
      <4> QED
        BY <1>a, <1>b, <3>1, <3>2, <4>2, <4>3 DEF Balance
    <3>4. CASE m # op[g]
      <4>1. Signalling(m)' = Signalling(m) /\ waiters'[m] = waiters[m]
        BY <3>4, Zenon DEF Signalling, Users
      <4> QED
        BY <1>a, <3>1, <3>2, <4>1, Zenon DEF Balance
    <3> QED
      BY <3>3, <3>4, Zenon
  <2> QED
    BY <2>1, <2>2, Zenon
<1>5. CASE Semrelease(g)
  <2> SUFFICES ASSUME NEW m \in Mode PROVE Balance(m)'
    BY BalancedNext, Zenon
  <2> USE <1>5 DEF Semrelease, Released
  <2>1. Owed(pc', towake', m) = Owed(pc, towake, m) /\ Owed(pc, towake, m) \in Nat
    BY OwedKept, Zenon
  <2>2. Parked(m)' = Parked(m) /\ waiters'[m] = waiters[m]
    BY Zenon DEF Parked, Users
  <2>3. CASE m = op[g]
    <3>1. Signalling(m)' = Signalling(m) \ {g} /\ g \in Signalling(m)
      BY <2>3, Zenon DEF Signalling, Users
    <3>2. Cardinality(Signalling(m)') = Cardinality(Signalling(m)) - 1
      BY <3>1, <1>b, GoroutineSets, Zenon
    <3>3. sema'[m] = sema[m] + 1
      BY <2>3, Zenon
    <3> QED
      BY <1>a, <1>b, <2>1, <2>2, <3>2, <3>3 DEF Balance
  <2>4. CASE m # op[g]
    <3>1. Signalling(m)' = Signalling(m) /\ sema'[m] = sema[m]
      BY <2>4, Zenon DEF Signalling, Users
    <3> QED
      BY <1>a, <2>1, <2>2, <3>1, Zenon DEF Balance
  <2> QED
    BY <2>3, <2>4, Zenon
<1>6. CASE decref(g)
  BY <1>6, BalanceKept, Zenon DEF decref, Released
<1>7. CASE increfAndClose(g)
  <2>1. CASE Refuse(g) /\ UNCHANGED towake
    BY <1>7, <2>1, BalanceKept, Zenon DEF increfAndClose, Refuse
  <2>2. CASE ~closed /\ ~Full(ref, RefLimit)
    <3> SUFFICES ASSUME NEW m \in Mode PROVE Balance(m)'
      BY BalancedNext, Zenon
    <3> USE <1>7, <2>2 DEF increfAndClose
    <3>1. \A h \in Goroutine : pc[h] # "wakeAll"
      BY Zenon DEF CloserInv
    <3>2. \A h \in Goroutine : pc'[h] = "wakeAll" <=> h = g
      BY <3>1, Zenon
    <3>3. Owed(pc, towake, m) = 0
      BY <3>1, OwedNone, Zenon
    <3>4. Owed(pc', towake', m) = waiters[m]
      BY <3>2, OwedByNext
    <3>5. Parked(m)' = Parked(m) /\ Signalling(m)' = Signalling(m)
      BY Zenon DEF Parked, Signalling, Users
    <3>6. waiters'[m] = 0 /\ sema'[m] = sema[m]
      OBVIOUS
    <3> QED
      BY <1>a, <1>b, <3>3, <3>4, <3>5, <3>6 DEF Balance
  <2> QED
    BY <1>7, <2>1, <2>2, Zenon DEF increfAndClose
<1>8. CASE WakeAll(g)
  <2>0. \A h \in Goroutine : pc[h] = "wakeAll" <=> h = g
    BY <1>8, Zenon DEF WakeAll, CloserInv
  <2>1. \A m \in Mode : Owed(pc, towake, m) = towake[g][m]
    BY <2>0, OwedBy, Zenon
  <2> SUFFICES ASSUME NEW m \in Mode PROVE Balance(m)'
    BY BalancedNext, Zenon
  <2>2. Parked(m)' = Parked(m) /\ Signalling(m)' = Signalling(m) /\ waiters'[m] = waiters[m]
    BY <1>8, Zenon DEF WakeAll, Parked, Signalling, Users
  <2>3. CASE AllWoken(g) /\ Goto(g, "evict") /\ UNCHANGED <<sema, towake>>
    <3>1. \A h \in Goroutine : pc'[h] # "wakeAll"
      BY <2>0, <2>3, Zenon
    <3>2. Owed(pc', towake', m) = 0 /\ towake[g][m] = 0
      BY <2>3, <3>1, OwedNone, Zenon DEF AllWoken
    <3> QED
      BY <1>a, <2>1, <2>2, <2>3, <3>2, Zenon DEF Balance
  <2>4. ASSUME NEW n \in Mode, towake[g][n] > 0, UNCHANGED pc,
               towake' = [towake EXCEPT ![g][n] = @ - 1], sema' = [sema EXCEPT ![n] = @ + 1]
        PROVE  Balance(m)'
    <3>0. \A h \in Goroutine : pc'[h] = "wakeAll" <=> h = g
      BY <2>0, <2>4, Zenon
    <3>1. Owed(pc', towake', m) = towake'[g][m]
      BY <3>0, OwedByNext, Zenon
    <3>2. CASE m = n
      <4>1. towake'[g][m] = towake[g][m] - 1 /\ sema'[m] = sema[m] + 1
        BY <2>4, <3>2, Zenon
      <4> QED
        BY <1>a, <1>b, <2>1, <2>2, <3>1, <4>1 DEF Balance
    <3>3. CASE m # n
      <4>1. towake'[g][m] = towake[g][m] /\ sema'[m] = sema[m]
        BY <2>4, <3>3, Zenon
      <4> QED
        BY <1>a, <2>1, <2>2, <3>1, <4>1, Zenon DEF Balance
    <3> QED
      BY <3>2, <3>3, Zenon
  <2> QED
    BY <1>8, <2>3, <2>4, Zenon DEF WakeAll
<1>9. CASE Prepare(g)
  BY <1>9, BalanceKept, Zenon DEF Prepare
<1>10. CASE WouldBlock(g)
  BY <1>10, BalanceKept, Zenon DEF WouldBlock
<1>11. CASE WaitEvicted(g)
  BY <1>11, BalanceKept, Zenon DEF WaitEvicted
<1>12. CASE Misc(g)
  BY <1>12, BalanceKept DEF Misc
<1>13. CASE SetNonblock(g)
  BY <1>13, BalanceKept, Zenon DEF SetNonblock
<1>14. CASE Evict(g)
  BY <1>14, BalanceKept, Zenon DEF Evict
<1>15. CASE PdClose(g)
  BY <1>15, BalanceKept, Zenon DEF PdClose
<1>16. CASE CloseFunc(g)
  BY <1>16, BalanceKept, Zenon DEF CloseFunc
<1>17. CASE Signal(g)
  BY <1>17, BalanceKept, Zenon DEF Signal, Released
<1>18. CASE ReadIsBlocking(g)
  BY <1>18, BalanceKept, Zenon DEF ReadIsBlocking
<1>19. CASE WaitClosed(g)
  BY <1>19, BalanceKept, Zenon DEF WaitClosed
<1>20. CASE Transfer(g)
  BY <1>20, BalanceKept, Zenon DEF Transfer
<1>21. CASE WaitReturns(g)
  BY <1>21, BalanceKept, Zenon DEF WaitReturns
<1>22. ASSUME NEW o \in Ops, Call(g, o) PROVE WaitersAccounted'
  BY <1>22, BalanceKept, Zenon DEF Call
<1> QED
  BY <1>1, <1>2, <1>3, <1>4, <1>5, <1>6, <1>7, <1>8, <1>9, <1>10, <1>11, <1>12, <1>13,
     <1>14, <1>15, <1>16, <1>17, <1>18, <1>19, <1>20, <1>21, <1>22, Zenon
  DEF Step, Environment

\* Every step of the FD preserves the inductive invariant.
LEMMA NextIInv == IInv /\ [Next]_vars => IInv'
<1> SUFFICES ASSUME IInv, [Next]_vars PROVE IInv'
  BY Zenon
<1>1. CASE UNCHANGED vars
  <2> USE <1>1 DEF vars, muVars, fdVars, IInv
  <2>1. TypeOK' /\ OpInv' /\ RefsAccounted' /\ SerializedIO' /\ DestroyInv' /\ EvictInv'
    BY DEF TypeOK, OpInv, RefsAccounted, Count, SerializedIO, Users, DestroyInv,
      Destroyers, EvictInv
  <2>2. CloserInv' /\ WaitersAccounted'
    BY Zenon DEF CloserInv, WaitersAccounted, Users, Count
  <2> QED
    BY <2>1, <2>2, Zenon
<1>2. ASSUME NEW g \in Goroutine, Step(g) \/ Environment(g) PROVE IInv'
  BY <1>2, TypeStep, OpStep, RefStep, SerializedStep, DestroyStep, EvictStep, CloserStep,
      WaitersStep, Zenon DEF IInv
<1> QED
  BY <1>1, <1>2, Zenon DEF Next

\* The inductive invariant holds in every reachable state.
THEOREM Invariance == Spec => []IInv
BY InitIInv, NextIInv, PTL DEF Spec

\* The invariant implies what the code promises about one state.
LEMMA IInvImplies ==
  IInv => NoUseAfterClose /\ DestroyOnce /\ EvictedBeforeClosed
<1> SUFFICES ASSUME IInv PROVE NoUseAfterClose /\ DestroyOnce /\ EvictedBeforeClosed
  BY Zenon
<1>1. NoUseAfterClose
  <2> SUFFICES ASSUME NEW g \in Goroutine, pc[g] \in Holding
               PROVE  sysfd = "open" /\ pd # "closed"
    BY Zenon DEF NoUseAfterClose
  <2>1. ref # 0
    BY RefPositive DEF IInv
  <2> QED
    BY <2>1, Zenon DEF IInv, DestroyInv, TypeOK
<1>2. DestroyOnce
  BY Zenon DEF IInv, DestroyInv, Destroyers, DestroyOnce
<1>3. EvictedBeforeClosed
  <2> SUFFICES ASSUME NEW g \in Goroutine, pc[g] = "pdClose", pd = "open"
               PROVE  FALSE
    BY Zenon DEF EvictedBeforeClosed
  <2>1. closed /\ ref = 0
    BY Zenon DEF IInv, DestroyInv, Destroyers, Destroying
  <2>2. PICK h \in Goroutine : pc[h] \in Closing
    BY <2>1, Zenon DEF IInv, EvictInv
  <2> QED
    BY <2>1, <2>2, RefPositive DEF IInv, Holding
<1> QED
  BY <1>1, <1>2, <1>3, Zenon

\* Type correctness: for every width of the counters and every number of
\* goroutines, no field of fdMutex.state overflows or goes negative.
THEOREM TypeCorrect == Spec => []TypeOK
BY Invariance, PTL DEF IInv

\* The reference field always equals the number of operations in progress.
THEOREM ReferencesCounted == Spec => []RefsAccounted
BY Invariance, PTL DEF IInv

\* Reads exclude one another, writes exclude one another, and the lock bits
\* are exact.
THEOREM IOSerialized == Spec => []SerializedIO
BY Invariance, PTL DEF IInv

\* No operation ever runs on a closed descriptor or poll descriptor.
THEOREM UseBeforeClose == Spec => []NoUseAfterClose
BY Invariance, IInvImplies, PTL

\* The system descriptor is closed at most once.
THEOREM DestroyedOnce == Spec => []DestroyOnce
BY Invariance, IInvImplies, PTL

\* runtime_pollClose never meets a poll descriptor that was not unblocked.
THEOREM EvictedFirst == Spec => []EvictedBeforeClosed
BY Invariance, IInvImplies, PTL

\* No wakeup of a reader or writer that waits for the lock is lost, and none
\* is spare, however locks, unlocks and the one successful Close interleave.
THEOREM WakeupsCounted == Spec => []WaitersAccounted
BY Invariance, PTL DEF IInv

\* A Close that waits on csema returns only after the descriptor is closed.
THEOREM CloseIsSynchronous == Spec => CloseWaits
<1> DEFINE A == \A g \in Goroutine :
                  pc[g] = "wait" /\ pc'[g] = "idle" => sysfd = "closed"
<1>1. IInv /\ [Next]_vars => [A]_vars
  <2> SUFFICES ASSUME IInv, [Next]_vars, vars' # vars,
                      NEW g \in Goroutine, pc[g] = "wait", pc'[g] = "idle"
               PROVE  sysfd = "closed"
    BY Zenon
  <2>1. PICK h \in Goroutine : Step(h) \/ Environment(h)
    BY Zenon DEF Next
  <2>2. csema > 0
    BY <2>1, Zenon DEF Step, Environment, Goto, IInv, TypeOK,
      incref, rwlock, RefuseLock, TakeLock, AwaitLock, Refuse, Semacquire,
      rwunlock, Semrelease, decref, increfAndClose, WakeAll, Prepare,
      WouldBlock, WaitEvicted, Misc, SetNonblock, Evict, PdClose, CloseFunc,
      Signal, ReadIsBlocking, WaitClosed, Call, Transfer, WaitReturns
  <2> QED
    BY <2>2, Zenon DEF IInv, DestroyInv
<1> QED
  BY <1>1, Invariance, PTL DEF Spec, CloseWaits
=============================================================================
