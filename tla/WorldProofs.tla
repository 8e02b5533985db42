---------------------------- MODULE WorldProofs ----------------------------
(***************************************************************************)
(* Proofs about World for every finite set of Ms and every number of Ps.   *)
(***************************************************************************)
EXTENDS World, TLAPS

\* Where a thread has a P to hand off.
Handing == {"handoff", "startm"}

USE DEF stw, safe, local, count, At, Goto, Handing

(***************************************************************************)
(* Types, in three groups: the threads, the Ps, and the counters.          *)
(***************************************************************************)
Labels == {"go", "sysmon", "parked", "stopSyscall", "stopWait", "stopped", "startWake",
           "each", "eachWait", "eachDone", "safePoint", "safePointDec", "sched", "gcstop",
           "release", "stopm", "enter", "entered", "gcwait", "syscall", "exit0", "handoff",
           "startm"}

MTypes ==
  /\ pc \in [Actors -> Labels] /\ ret \in [Actors -> Labels]
  /\ left \in [Ms -> SUBSET Ps] /\ midle \subseteq Ms
  /\ lock \in Ms \cup {None} /\ worldsema \in Ms \cup {None} /\ gcwaiting \in BOOLEAN

PTypes ==
  /\ status \in [Ps -> {"running", "syscall", "idle", "gcstop"}] /\ pidle \subseteq Ps
  /\ p \in [Ms -> Ps \cup {None}] /\ oldp \in [Ms -> Ps \cup {None}]
  /\ argp \in [Actors -> Ps \cup {None}]

CountTypes ==
  /\ runFn \in [Ps -> {0, 1}] /\ ran \in [Ps -> Nat]
  /\ stopnote \in Nat /\ spNote \in Nat

(***************************************************************************)
(* Control: where a thread has a P, where it returns to from handoffp and  *)
(* runSafePointFn, and which position means that it holds sched.lock or    *)
(* worldsema, or that the world is being stopped.                          *)
(***************************************************************************)
Stopping == {"stopSyscall", "stopWait", "stopped"}
Eaching == {"each", "eachWait", "eachDone"}
WithP == {"go", "startWake", "safePoint", "safePointDec", "sched", "gcstop", "release",
          "enter"} \cup Stopping \cup Eaching
WithoutP == {"parked", "stopm", "entered", "gcwait", "syscall", "exit0"}

Returns(m) ==
  /\ pc[m] \in {"safePoint", "safePointDec"} => ret[m] \in {"sched", "enter"}
  /\ pc[m] = "each" \/ (pc[m] \in Handing /\ worldsema = m) => ret[m] \in {"eachWait", "eachDone"}
  /\ pc[m] \in Handing /\ worldsema # m => ret[m] = "syscall"

Holds(m) ==
  /\ pc[m] \in WithP => p[m] # None
  /\ pc[m] \in WithoutP => p[m] = None
  /\ pc[m] \in Handing => (p[m] # None <=> worldsema = m)
  /\ pc[m] \in {"entered", "gcwait"} => oldp[m] # None
  /\ pc[m] # "sysmon"

Locks(m) ==
  /\ pc[m] \in Stopping \cup Eaching \cup {"startWake"} => worldsema = m
  /\ worldsema = m => pc[m] \in Stopping \cup Eaching \cup {"startWake"} \cup Handing
  /\ lock = m <=> pc[m] = "stopSyscall"
  /\ pc[m] \in Stopping \cup {"gcstop"} => gcwaiting

Control ==
  /\ \A m \in Ms : Returns(m) /\ Holds(m) /\ Locks(m)
  /\ \A a \in Actors : argp[a] # None <=> pc[a] \in Handing
  /\ pc[Sysmon] = "sysmon" \/ (pc[Sysmon] \in Handing /\ ret[Sysmon] = "sysmon")
  /\ gcwaiting => worldsema \in Ms /\ pc[worldsema] \in Stopping
  /\ \A m \in Ms : m \in midle <=> pc[m] = "parked"

(***************************************************************************)
(* A P that an M has is running, or stopped by that M; an idle one is on   *)
(* the idle list or being handed off, not both.                            *)
(***************************************************************************)
POwned ==
  /\ \A m, n \in Ms : m # n /\ p[m] = p[n] => p[m] = None
  /\ \A a, b \in Actors : a # b /\ argp[a] = argp[b] => argp[a] = None
  /\ \A m \in Ms : p[m] # None =>
       status[p[m]] = IF pc[m] \in Stopping THEN "gcstop" ELSE "running"
  /\ \A a \in Actors : argp[a] # None => status[argp[a]] = "idle" /\ argp[a] \notin pidle
  /\ \A q \in pidle : status[q] = "idle"

(***************************************************************************)
(* While the world is being stopped, stopwait counts the Ps that are not   *)
(* stopped yet, and a wakeup is sent only when none is left.               *)
(***************************************************************************)
Unstopped == {q \in Ps : status[q] # "gcstop"}

StopCounted ==
  /\ gcwaiting => stopwait = Cardinality(Unstopped)
  /\ ~gcwaiting => stopwait = 0 /\ \A q \in Ps : status[q] # "gcstop"
  /\ stopnote # 0 => stopwait = 0 /\ worldsema \in Ms /\ pc[worldsema] = "stopWait"
  /\ \A m \in Ms : pc[m] = "stopped" => stopwait = 0

(***************************************************************************)
(* safePointWait counts the flags that are set and the Ms that have run    *)
(* the function and not said so yet; while forEachP runs, a P has either   *)
(* its flag set or had the function run once.                              *)
(***************************************************************************)
Flagged == {q \in Ps : runFn[q] = 1}
Deciding == {m \in Ms : pc[m] = "safePointDec"}
Awaiting(m) == \/ pc[m] = "eachWait"
               \/ pc[m] \in {"each"} \cup Handing /\ ret[m] = "eachWait"

EachCounted ==
  /\ spWait = Cardinality(Flagged) + Cardinality(Deciding)
  /\ spWait # 0 => worldsema \in Ms /\ Awaiting(worldsema)
  /\ spNote # 0 => spWait = 0 /\ worldsema \in Ms /\ Awaiting(worldsema)
  /\ \A m \in Ms : worldsema = m /\ pc[m] \in Eaching \cup Handing =>
       \A q \in Ps : ran[q] + runFn[q] = 1

IInv == MTypes /\ PTypes /\ CountTypes /\ Control /\ POwned /\ StopCounted /\ EachCounted

(***************************************************************************)
(* What the lemmas need of the constants, and of Cardinality; the latter   *)
(* is proved at the end, from the library.                                 *)
(***************************************************************************)
Consts ==
  /\ Ms \subseteq Actors /\ Sysmon \in Actors /\ Sysmon \notin Ms
  /\ \A a \in Actors : a \notin Ms => a = Sysmon
  /\ None \notin Ps /\ None \notin Ms

CountedSets(U) ==
  \A S \in SUBSET U :
    /\ Cardinality(S) \in Nat
    /\ Cardinality(S) = 0 <=> S = {}
    /\ \A x \in U : x \notin S => Cardinality(S \cup {x}) = Cardinality(S) + 1
    /\ \A x \in S : Cardinality(S \ {x}) = Cardinality(S) - 1
    /\ \A T \in SUBSET S : Cardinality(S \ T) = Cardinality(S) - Cardinality(T)

Counting == CountedSets(Ps) /\ CountedSets(Ms) /\ Cardinality(Ps) = NP

\* The constants are as WorldAssumption says.
LEMMA ConstsHold == Consts
BY WorldAssumption, Zenon DEF Consts, Actors

-----------------------------------------------------------------------------
(* Control *)

\* What a thread relies on, at its position in the code.
MControl(m) == Returns(m) /\ Holds(m) /\ Locks(m)

SysmonControl == pc[Sysmon] = "sysmon" \/ (pc[Sysmon] \in Handing /\ ret[Sysmon] = "sysmon")

Common(a) ==
  /\ argp[a] # None <=> pc[a] \in Handing
  /\ a \in Ms => (a \in midle <=> pc[a] = "parked")

StopperKnown == gcwaiting => worldsema \in Ms /\ pc[worldsema] \in Stopping

\* A thread that a step does not concern, except that gcwaiting may change while
\* the thread does not mind, and that another one may take or release sched.lock
\* or worldsema.
Apart(b) ==
  /\ pc'[b] = pc[b] /\ ret'[b] = ret[b] /\ argp'[b] = argp[b]
  /\ b \in Ms => /\ p'[b] = p[b] /\ oldp'[b] = oldp[b]
                 /\ b \in midle' <=> b \in midle
                 /\ worldsema' = b <=> worldsema = b
                 /\ lock' = b <=> lock = b
                 /\ gcwaiting /\ ~gcwaiting' => pc[b] \notin Stopping \cup {"gcstop"}

\* Such a thread keeps what it relies on.
LEMMA ApartKeeps ==
  ASSUME Consts, Control, NEW b \in Actors, Apart(b)
  PROVE  /\ b \in Ms => MControl(b)'
         /\ b = Sysmon => SysmonControl'
         /\ Common(b)'
<1>1. b \in Ms => Returns(b)' /\ Holds(b)'
  BY Zenon DEF Control, Apart, Returns, Holds
<1>2. b \in Ms => Locks(b)'
  BY Zenon DEF Control, Apart, Locks
<1>3. b = Sysmon => SysmonControl'
  BY Zenon DEF Control, Apart, SysmonControl
<1>4. Common(b)'
  BY Zenon DEF Control, Apart, Common
<1> QED
  BY <1>1, <1>2, <1>3, <1>4, Zenon DEF MControl

\* So the control of the threads that make the step is all there is to check.
LEMMA ControlOf ==
  ASSUME Consts, Control, NEW T \in SUBSET Actors,
         \A b \in Actors : b \notin T => Apart(b),
         \A b \in T : /\ b \in Ms => MControl(b)'
                      /\ b = Sysmon => SysmonControl'
                      /\ Common(b)',
         StopperKnown'
  PROVE  Control'
<1>1. \A b \in Actors : /\ b \in Ms => MControl(b)'
                        /\ b = Sysmon => SysmonControl'
                        /\ Common(b)'
  BY ApartKeeps, Zenon
<1>2. \A m \in Ms : MControl(m)' /\ Common(m)'
  BY <1>1, Zenon DEF Consts
<1>3. SysmonControl' /\ \A a \in Actors : Common(a)'
  BY <1>1, Zenon DEF Consts
<1> QED
  BY <1>2, <1>3, Zenon DEF Control, MControl, Common, SysmonControl, StopperKnown

\* A step of one thread that starts none concerns no other.
LEMMA Alone ==
  ASSUME Consts, MTypes, PTypes, Control, NEW m \in Ms, User(m) \/ Step(m) \/ ExitSyscall(m),
         ~ Wake(m), ~ StartWake(m), ~ Start(m)
  PROVE  \A b \in Actors : b # m => Apart(b)
<1> USE DEF Consts, MTypes, PTypes, Apart
<1>1. CASE Stop(m)
  BY <1>1, Zenon DEF Stop
<1>2. CASE StopSyscall(m)
  BY <1>2, Zenon DEF StopSyscall
<1>3. CASE StopIdle(m)
  BY <1>3, Zenon DEF StopIdle, Control, Locks, Stopping, Eaching
<1>4. CASE StopWait(m)
  BY <1>4, Zenon DEF StopWait
<1>5. CASE Each(m)
  BY <1>5, Zenon DEF Each
<1>6. CASE EachSyscall(m)
  BY <1>6 DEF EachSyscall
<1>7. CASE EachLoopEnd(m)
  BY <1>7, Zenon DEF EachLoopEnd
<1>8. CASE EachWait(m)
  BY <1>8, Zenon DEF EachWait
<1>9. CASE EachDone(m)
  BY <1>9, Zenon DEF EachDone, Control, Locks, Stopping, Eaching
<1>10. CASE SafePoint(m)
  BY <1>10, Zenon DEF SafePoint, TakesFn
<1>11. CASE SafePointDec(m)
  BY <1>11, Zenon DEF SafePointDec, SafePointOne
<1>12. CASE Yield(m)
  BY <1>12, Zenon DEF Yield
<1>13. CASE Schedule(m)
  <2>1. UNCHANGED <<status, pidle, midle, lock, stw, safe, worldsema, p, oldp, argp>>
    BY <1>13, Zenon DEF Schedule
  <2>2. \A b \in Actors : b # m => pc'[b] = pc[b]
    BY <1>13, Zenon DEF Schedule
  <2>3. \A b \in Actors : b # m => ret'[b] = ret[b]
    BY <1>13, Zenon DEF Schedule
  <2> QED
    BY <2>1, <2>2, <2>3, Zenon DEF stw, safe
<1>14. CASE GcStopM(m)
  BY <1>14, Zenon DEF GcStopM, StopOne
<1>15. CASE Release(m)
  BY <1>15, Zenon DEF Release, MustStop
<1>16. CASE StopM(m)
  BY <1>16, Zenon DEF StopM
<1>17. CASE EnterSyscall(m)
  BY <1>17, Zenon DEF EnterSyscall
<1>18. CASE EnterSyscallStatus(m)
  BY <1>18, Zenon DEF EnterSyscallStatus
<1>19. CASE EnterSyscallLoad(m)
  BY <1>19, Zenon DEF EnterSyscallLoad, SeesGcWaiting
<1>20. CASE GcWait(m)
  BY <1>20, Zenon DEF GcWait, StillMine, StopOne
<1>21. CASE EnterSyscallBlock(m)
  BY <1>21, Zenon DEF EnterSyscallBlock
<1>22. CASE ExitSyscall(m)
  BY <1>22, Zenon DEF ExitSyscall, CanReacquire
<1>23. CASE ExitSyscall0(m)
  BY <1>23, Zenon DEF ExitSyscall0
<1> QED
  BY <1>1, <1>2, <1>3, <1>4, <1>5, <1>6, <1>7, <1>8, <1>9, <1>10, <1>11, <1>12, <1>13,
     <1>14, <1>15, <1>16, <1>17, <1>18, <1>19, <1>20, <1>21, <1>22, <1>23, Zenon DEF User,
     Step

\* and leaves it with what it relies on next.
LEMMA Moves ==
  ASSUME Consts, MTypes, PTypes, Control, NEW m \in Ms, User(m) \/ Step(m) \/ ExitSyscall(m),
         ~ Wake(m), ~ StartWake(m), ~ Start(m)
  PROVE  MControl(m)' /\ Common(m)' /\ StopperKnown'
<1> USE DEF Consts, MTypes, PTypes, Control, MControl, Returns, Holds, Locks, Common,
    StopperKnown, Stopping, Eaching, WithP, WithoutP
<1>1. CASE Stop(m)
  BY <1>1 DEF Stop
<1>2. CASE StopSyscall(m)
  BY <1>2 DEF StopSyscall
<1>3. CASE StopIdle(m)
  BY <1>3 DEF StopIdle
<1>4. CASE StopWait(m)
  BY <1>4 DEF StopWait
<1>5. CASE Each(m)
  BY <1>5 DEF Each
<1>6. CASE EachSyscall(m)
  BY <1>6 DEF EachSyscall
<1>7. CASE EachLoopEnd(m)
  BY <1>7 DEF EachLoopEnd
<1>8. CASE EachWait(m)
  BY <1>8 DEF EachWait
<1>9. CASE EachDone(m)
  BY <1>9 DEF EachDone
<1>10. CASE SafePoint(m)
  BY <1>10 DEF SafePoint, TakesFn
<1>11. CASE SafePointDec(m)
  BY <1>11 DEF SafePointDec, SafePointOne
<1>12. CASE Yield(m)
  BY <1>12 DEF Yield
<1>13. CASE Schedule(m)
  BY <1>13 DEF Schedule
<1>14. CASE GcStopM(m)
  BY <1>14 DEF GcStopM, StopOne
<1>15. CASE Release(m)
  BY <1>15 DEF Release, MustStop
<1>16. CASE StopM(m)
  BY <1>16 DEF StopM
<1>17. CASE EnterSyscall(m)
  BY <1>17 DEF EnterSyscall
<1>18. CASE EnterSyscallStatus(m)
  BY <1>18 DEF EnterSyscallStatus
<1>19. CASE EnterSyscallLoad(m)
  BY <1>19 DEF EnterSyscallLoad, SeesGcWaiting
<1>20. CASE GcWait(m)
  BY <1>20 DEF GcWait, StillMine, StopOne
<1>21. CASE EnterSyscallBlock(m)
  BY <1>21 DEF EnterSyscallBlock
<1>22. CASE ExitSyscall(m)
  BY <1>22 DEF ExitSyscall, CanReacquire
<1>23. CASE ExitSyscall0(m)
  BY <1>23 DEF ExitSyscall0
<1> QED
  BY <1>1, <1>2, <1>3, <1>4, <1>5, <1>6, <1>7, <1>8, <1>9, <1>10, <1>11, <1>12, <1>13,
     <1>14, <1>15, <1>16, <1>17, <1>18, <1>19, <1>20, <1>21, <1>22, <1>23, Zenon DEF User,
     Step

\* startm: an idle M, and it alone, gets the P and starts to look for work.
Started(a, l, n, q) ==
  /\ n \in Ms /\ n # a /\ pc[n] = "parked"
  /\ pc' = [pc EXCEPT ![a] = l, ![n] = "sched"]
  /\ p' = [p EXCEPT ![n] = q] /\ q \in Ps
  /\ midle' = midle \ {n}

StartedEffect(a, l, n, q) ==
  /\ pc'[n] = "sched" /\ pc'[a] = l /\ p'[n] = q
  /\ \A b \in Actors : b # n /\ b # a => pc'[b] = pc[b]
  /\ \A k \in Ms : k # n => p'[k] = p[k]
  /\ n # None /\ q # None /\ n \in Actors /\ n # Sysmon

\* What startm does to the two threads.
LEMMA StartedFacts ==
  ASSUME Consts, MTypes, PTypes, NEW a \in Actors, NEW l, NEW n, NEW q, Started(a, l, n, q)
  PROVE  StartedEffect(a, l, n, q)
BY Zenon DEF Consts, MTypes, PTypes, Started, StartedEffect

\* The M that is started has what it needs.
LEMMA StartedControl ==
  ASSUME Consts, MTypes, PTypes, Control, NEW a \in Actors, NEW l, NEW n, NEW q,
         Started(a, l, n, q), argp'[n] = argp[n], worldsema' = n => worldsema = n, lock' = lock
  PROVE  MControl(n)' /\ Common(n)'
<1>0. n \in Ms /\ n \notin midle' /\ pc[n] = "parked"
  BY Zenon DEF Started
<1>1. pc'[n] = "sched" /\ p'[n] # None /\ n \in Ms /\ n \in Actors /\ n \notin midle'
  <2>1. StartedEffect(a, l, n, q)
    BY StartedFacts, Zenon
  <2> QED
    BY <1>0, <2>1, Zenon DEF StartedEffect
<1>2. pc[n] = "parked"
  BY <1>0, Zenon
<1>3. Common(n)'
  BY <1>1, <1>2, Zenon DEF Control, Common
<1>4. Returns(n)' /\ Holds(n)'
  BY <1>1, Zenon DEF Returns, Holds, WithP, WithoutP, Stopping, Eaching
<1>5. worldsema' # n /\ lock' # n
  BY <1>1, <1>2, Zenon DEF Control, Locks, Stopping, Eaching
<1>6. Locks(n)'
  BY <1>1, <1>5, Zenon DEF Locks, Stopping, Eaching
<1> QED
  BY <1>3, <1>4, <1>6, Zenon DEF MControl

\* The steps that start an M keep control: wakep,
LEMMA WakeControl ==
  ASSUME Consts, MTypes, PTypes, Control, NEW m \in Ms, Wake(m) \/ StartWake(m)
  PROVE  Control'
<1>1. \A n \in midle, q \in pidle : n \in Ms /\ n # m /\ pc[n] = "parked" /\ q \in Ps
  BY Zenon DEF MTypes, PTypes, Control, Wake, StartWake
<1>2. /\ UNCHANGED <<lock, gcwaiting, argp, oldp, ret>>
      /\ \/ worldsema' = worldsema /\ worldsema # m
         \/ worldsema' = None /\ worldsema = m
      /\ m \in Actors /\ m # None /\ m # Sysmon /\ pc[m] \in {"go", "startWake"}
  BY Zenon DEF Consts, Wake, StartWake, Control, Locks, Stopping, Eaching
<1>3. \/ pc' = [pc EXCEPT ![m] = "go"] /\ UNCHANGED <<p, midle>>
      \/ \E n \in midle, q \in pidle : Started(m, "go", n, q)
  BY <1>1, Zenon DEF Wake, StartWake, StartM, Started
<1>4. /\ pc'[m] = "go" /\ p'[m] = p[m] /\ (m \in midle' <=> m \in midle)
      /\ \A b \in Actors : b # m => \/ Apart(b)
                                    \/ \E q \in pidle : Started(m, "go", b, q)
  <2>1. CASE pc' = [pc EXCEPT ![m] = "go"] /\ UNCHANGED <<p, midle>>
    BY <1>2, <2>1, Zenon DEF Consts, MTypes, Apart
  <2>2. ASSUME NEW n \in midle, NEW q \in pidle, Started(m, "go", n, q)
        PROVE  /\ pc'[m] = "go" /\ p'[m] = p[m] /\ (m \in midle' <=> m \in midle)
               /\ \A b \in Actors : b # m => Apart(b) \/ b = n
    <3>0. StartedEffect(m, "go", n, q)
      BY <1>2, <2>2, StartedFacts, Zenon
    <3>1. /\ pc'[m] = "go"
          /\ \A b \in Actors : b # n /\ b # m => pc'[b] = pc[b]
          /\ \A k \in Ms : k # n => p'[k] = p[k]
      BY <3>0, Zenon DEF StartedEffect
    <3>2. midle' = midle \ {n} /\ n # m
      BY <2>2, Zenon DEF Started
    <3> QED
      BY <1>2, <3>1, <3>2, Zenon DEF Consts, Apart
  <2> QED
    BY <1>3, <2>1, <2>2, Zenon
<1>5. MControl(m)' /\ Common(m)'
  <2>1. Common(m)'
    BY <1>2, <1>4, Zenon DEF Control, Common
  <2>2. Returns(m)' /\ Holds(m)'
    BY <1>2, <1>4, Zenon DEF Control, Returns, Holds, WithP, WithoutP, Stopping, Eaching
  <2>3. Locks(m)'
    BY <1>2, <1>4, Zenon DEF Control, Locks, Stopping, Eaching
  <2> QED
    BY <2>1, <2>2, <2>3, Zenon DEF MControl
<1>6. StopperKnown'
  BY <1>2, <1>4, Zenon DEF Consts, Control, StopperKnown, Apart, Started, Locks, Stopping,
     Eaching
<1>7. \A b \in Actors : b # m /\ ~Apart(b) => b \in Ms /\ b # Sysmon /\ MControl(b)' /\ Common(b)'
  BY <1>2, <1>4, StartedControl, Zenon DEF Started, Consts
<1> DEFINE T == {b \in Actors : ~Apart(b)} \cup {m}
<1>8. T \in SUBSET Actors
  BY <1>2, Zenon
<1> QED
  BY <1>2, <1>5, <1>6, <1>7, <1>8, ControlOf, Zenon

\* The steps of handoffp with which the P changes hands.
GivesP(a) == HandoffStart(a) \/ HandoffIdle(a)

\* handoffp,
LEMMA HandoffControl ==
  ASSUME Consts, MTypes, PTypes, Control, NEW a \in Actors, GivesP(a)
  PROVE  Control'
<1>1. /\ pc[a] \in Handing /\ argp' = [argp EXCEPT ![a] = None]
      /\ UNCHANGED <<lock, gcwaiting, worldsema, oldp, ret>>
  BY Zenon DEF GivesP, HandoffStart, HandoffIdle
<1>2. argp[a] \in Ps
  BY <1>1, Zenon DEF Control, PTypes
<1>3. \/ pc' = [pc EXCEPT ![a] = HandoffRet(a)] /\ UNCHANGED <<p, midle>>
      \/ \E n \in midle : Started(a, HandoffRet(a), n, argp[a])
  <2>1. \A n \in midle : n \in Ms /\ n # a /\ pc[n] = "parked"
    BY <1>1, Zenon DEF MTypes, Control
  <2> QED
    BY <1>2, <2>1, Zenon DEF GivesP, HandoffStart, HandoffIdle, Started
<1>4. \A b \in Actors : b # a => argp'[b] = argp[b]
  BY <1>1, Zenon DEF PTypes
<1>5. argp'[a] = None
  BY <1>1, Zenon DEF PTypes
<1>6. /\ pc'[a] = HandoffRet(a) /\ (a \in Ms => p'[a] = p[a] /\ (a \in midle' <=> a \in midle))
      /\ \A b \in Actors : b # a => \/ Apart(b)
                                    \/ Started(a, HandoffRet(a), b, argp[a])
  <2> DEFINE r == HandoffRet(a)
  <2> HIDE DEF r
  <2>1. ASSUME pc' = [pc EXCEPT ![a] = r], UNCHANGED <<p, midle>>
        PROVE  /\ pc'[a] = r /\ (a \in Ms => p'[a] = p[a] /\ (a \in midle' <=> a \in midle))
               /\ \A b \in Actors : b # a => Apart(b)
    BY <1>1, <1>4, <2>1, Zenon DEF Consts, MTypes, Apart
  <2>2. ASSUME NEW n \in midle, Started(a, r, n, argp[a])
        PROVE  /\ pc'[a] = r /\ (a \in Ms => p'[a] = p[a] /\ (a \in midle' <=> a \in midle))
               /\ \A b \in Actors : b # a => Apart(b) \/ b = n
    <3>1. StartedEffect(a, r, n, argp[a])
      BY <2>2, StartedFacts, Zenon
    <3>2. midle' = midle \ {n} /\ n # a
      BY <2>2, Zenon DEF Started
    <3> QED
      BY <1>1, <1>4, <3>1, <3>2, Zenon DEF Consts, Apart, StartedEffect
  <2> QED
    BY <1>3, <2>1, <2>2, Zenon DEF r
<1>7. a \in Ms => MControl(a)'
  <2> SUFFICES ASSUME a \in Ms PROVE MControl(a)'
    BY Zenon
  <2>1. CASE worldsema = a
    <3>1. /\ pc'[a] = "each" /\ p'[a] = p[a] /\ p[a] # None
          /\ ret'[a] \in {"eachWait", "eachDone"} /\ worldsema' = a /\ lock' # a
      BY <1>1, <1>6, <2>1, Zenon DEF HandoffRet, Control, Returns, Holds, Locks
    <3> QED
      BY <3>1, Zenon DEF MControl, Returns, Holds, Locks, WithP, WithoutP, Stopping, Eaching
  <2>2. CASE worldsema # a
    <3>1. /\ pc'[a] = "syscall" /\ p'[a] = None /\ worldsema' # a /\ lock' # a
      BY <1>1, <1>6, <2>2, Zenon DEF HandoffRet, Control, Returns, Holds, Locks
    <3> QED
      BY <3>1, Zenon DEF MControl, Returns, Holds, Locks, WithP, WithoutP, Stopping, Eaching
  <2> QED
    BY <2>1, <2>2, Zenon
<1>8. /\ a = Sysmon => pc'[a] = "sysmon"
      /\ a \in Ms => pc'[a] \in {"each", "syscall"}
  BY <1>1, <1>6, Zenon DEF Consts, Control, HandoffRet, Returns
<1>9. (a = Sysmon => SysmonControl') /\ Common(a)'
  <2>1. pc'[a] \notin Handing \cup {"parked"}
    BY <1>8, Zenon DEF Consts
  <2>2. a \in Ms => a \notin midle'
    BY <1>1, <1>6, Zenon DEF Control
  <2>3. Common(a)'
    BY <1>5, <2>1, <2>2, Zenon DEF Common
  <2> QED
    BY <1>8, <2>3, Zenon DEF SysmonControl
<1>10. \A b \in Actors : b # a /\ ~Apart(b) => b \in Ms /\ b # Sysmon /\ MControl(b)' /\ Common(b)'
  <2> SUFFICES ASSUME NEW b \in Actors, b # a, Started(a, HandoffRet(a), b, argp[a])
               PROVE  b \in Ms /\ b # Sysmon /\ MControl(b)' /\ Common(b)'
    BY <1>6, Zenon
  <2> DEFINE r == HandoffRet(a)
  <2> HIDE DEF r
  <2>1. Started(a, r, b, argp[a])
    BY Zenon DEF r
  <2>2. b \in Ms /\ b # Sysmon
    BY <2>1, Zenon DEF Started, Consts
  <2>3. argp'[b] = argp[b] /\ worldsema' = worldsema /\ lock' = lock
    BY <1>1, <1>4, Zenon
  <2> QED
    BY <2>1, <2>2, <2>3, StartedControl, Zenon
<1>11. StopperKnown'
  <2>1. gcwaiting => worldsema \in Ms /\ pc[worldsema] \in Stopping /\ worldsema \in Actors
    BY Zenon DEF Control, Consts
  <2>2. \A b \in Actors : pc[b] \in Stopping => b # a /\ pc[b] # "parked"
    BY <1>1, Zenon DEF Stopping
  <2>3. \A b \in Actors : pc[b] \in Stopping => pc'[b] = pc[b]
    BY <1>6, <2>2, Zenon DEF Apart, Started
  <2> QED
    BY <1>1, <2>1, <2>3, Zenon DEF StopperKnown
<1> DEFINE T == {b \in Actors : ~Apart(b)} \cup {a}
<1>12. T \in SUBSET Actors
  BY Zenon
<1>13. \A b \in T : /\ b \in Ms => MControl(b)'
                    /\ b = Sysmon => SysmonControl'
                    /\ Common(b)'
  BY <1>7, <1>9, <1>10, Zenon
<1>14. \A b \in Actors : b \notin T => Apart(b)
  BY Zenon
<1> HIDE DEF T
<1> QED
  BY <1>11, <1>12, <1>13, <1>14, ControlOf, Zenon

\* also when it goes on to startm,
LEMMA WorkControl ==
  ASSUME Consts, MTypes, PTypes, Control, NEW a \in Actors, HandoffWork(a)
  PROVE  Control'
<1>1. /\ pc[a] = "handoff" /\ pc' = [pc EXCEPT ![a] = "startm"]
      /\ UNCHANGED <<lock, gcwaiting, worldsema, oldp, p, midle, ret, argp>>
  BY Zenon DEF HandoffWork
<1>2. \A b \in Actors : b \notin {a} => Apart(b)
  BY <1>1, Zenon DEF Consts, MTypes, PTypes, Apart
<1>3. pc'[a] = "startm"
  BY <1>1, Zenon DEF MTypes
<1>4. a \in Ms => MControl(a)'
  <2>1. a \in Ms => Returns(a) /\ Holds(a) /\ Locks(a)
    BY Zenon DEF Control
  <2>2. a \in Ms => Returns(a)' /\ Holds(a)'
    BY <1>1, <1>3, <2>1, Zenon DEF Returns, Holds, WithP, WithoutP, Stopping, Eaching
  <2>3. a \in Ms => Locks(a)'
    BY <1>1, <1>3, <2>1, Zenon DEF Locks, Stopping, Eaching
  <2> QED
    BY <2>2, <2>3, Zenon DEF MControl
<1>5. (a = Sysmon => SysmonControl') /\ Common(a)'
  BY <1>1, <1>3, Zenon DEF Control, SysmonControl, Common
<1>6. StopperKnown'
  BY <1>1, <1>2, Zenon DEF Consts, Control, StopperKnown, Apart, Stopping
<1> DEFINE T == {a}
<1>7. T \in SUBSET Actors
  BY Zenon
<1> QED
  BY <1>2, <1>4, <1>5, <1>6, <1>7, ControlOf, Zenon

\* and sysmon's retake.
LEMMA RetakeControl ==
  ASSUME Consts, MTypes, PTypes, Control, Retake
  PROVE  Control'
<1>1. /\ pc' = [pc EXCEPT ![Sysmon] = "handoff"] /\ ret' = [ret EXCEPT ![Sysmon] = "sysmon"]
      /\ UNCHANGED <<lock, gcwaiting, worldsema, oldp, p, midle>>
  BY Zenon DEF Retake
<1>2. PICK q \in Ps : argp' = [argp EXCEPT ![Sysmon] = q]
  BY Zenon DEF Retake
<1>3. \A b \in Actors : b \notin {Sysmon} => Apart(b)
  BY <1>1, <1>2, Zenon DEF Consts, MTypes, PTypes, Apart
<1>4. SysmonControl' /\ Common(Sysmon)' /\ Sysmon \notin Ms
  BY <1>1, <1>2, Zenon DEF Consts, MTypes, PTypes, SysmonControl, Common
<1>5. StopperKnown'
  BY <1>1, <1>3, Zenon DEF Consts, Control, StopperKnown, Apart
<1> DEFINE T == {Sysmon}
<1>6. T \in SUBSET Actors
  BY Zenon DEF Consts
<1> QED
  BY <1>3, <1>4, <1>5, <1>6, ControlOf, Zenon

\* When stopwait is down to 0 every P is stopped, so the stopper alone has one
\* and none is idle or being handed off.
LEMMA AllStopped ==
  ASSUME Counting, Consts, MTypes, PTypes, Control, POwned, StopCounted,
         NEW m \in Ms, pc[m] = "stopped"
  PROVE  /\ \A q \in Ps : status[q] = "gcstop"
         /\ \A n \in Ms : n # m => p[n] = None
         /\ pidle = {} /\ \A a \in Actors : argp[a] = None
<1>1. gcwaiting /\ stopwait = 0 /\ worldsema = m
  BY Zenon DEF Control, Locks, Stopping, StopCounted
<1>2. Cardinality(Unstopped) = 0 /\ Unstopped \in SUBSET Ps
  BY <1>1, Zenon DEF StopCounted, Unstopped
<1>3. Unstopped = {}
  BY <1>2, Zenon DEF Counting, CountedSets
<1>4. \A q \in Ps : status[q] = "gcstop"
  BY <1>3, Zenon DEF Unstopped
<1>5. \A n \in Ms : n # m => pc[n] \notin Stopping
  BY <1>1, Zenon DEF Control, Locks
<1>6. \A n \in Ms : n # m => p[n] = None
  BY <1>4, <1>5, Zenon DEF PTypes, POwned
<1>7. \A q \in pidle : FALSE
  BY <1>4, Zenon DEF PTypes, POwned
<1>8. \A a \in Actors : argp[a] = None
  BY <1>4, Zenon DEF PTypes, POwned
<1> QED
  BY <1>4, <1>6, <1>7, <1>8, Zenon

StartEffect(m, W) ==
  /\ W \subseteq Ps /\ p[m] \notin W
  /\ \A q \in Ps : status'[q] = IF q \in W \/ q = p[m] THEN "running" ELSE "idle"
  /\ \A q \in Ps : q \in pidle' <=> q \notin W /\ q # p[m]
  /\ \A n \in Ms : n # m => \/ /\ pc[n] = "parked" /\ pc'[n] = "sched" /\ n \notin midle'
                               /\ p'[n] \in W
                            \/ /\ p'[n] = p[n] /\ pc'[n] = pc[n]
                               /\ n \in midle' <=> n \in midle
  /\ \A n, k \in Ms : p'[n] \in W /\ p'[n] = p'[k] => n = k
  /\ pc'[m] = "startWake" /\ p'[m] = p[m] /\ (m \in midle' <=> m \in midle)
  /\ pc'[Sysmon] = pc[Sysmon]

\* startTheWorld gives the Ps with work to different idle Ms.
LEMMA StartFacts ==
  ASSUME Counting, Consts, MTypes, PTypes, Control, POwned, StopCounted,
         NEW m \in Ms, Start(m)
  PROVE  \E W : StartEffect(m, W)
<1>0. /\ pc[m] = "stopped" /\ p[m] \in Ps /\ m \notin midle /\ m \in Actors /\ m # Sysmon
      /\ \A n \in midle : n \in Ms /\ pc[n] = "parked"
  <2>1. pc[m] = "stopped"
    BY Zenon DEF Start
  <2>2. p[m] # None
    BY <2>1, Zenon DEF Control, Holds, WithP, Stopping
  <2> QED
    BY <2>1, <2>2, Zenon DEF Consts, MTypes, PTypes, Control
<1>1. PICK W \in SUBSET (Ps \ {p[m]}) : \E f \in [W -> midle] :
       /\ \A q, r \in W : f[q] = f[r] => q = r
       /\ status' = [q \in Ps |-> IF q \in W \cup {p[m]} THEN "running" ELSE "idle"]
       /\ pidle' = Ps \ (W \cup {p[m]})
       /\ midle' = midle \ {f[q] : q \in W}
       /\ p' = [n \in Ms |-> IF \E q \in W : f[q] = n
                             THEN CHOOSE q \in W : f[q] = n ELSE p[n]]
       /\ pc' = [a \in Actors |-> IF a = m THEN "startWake"
                                  ELSE IF \E q \in W : f[q] = a THEN "sched" ELSE pc[a]]
  BY Zenon DEF Start
<1>2. PICK f \in [W -> midle] :
       /\ status' = [q \in Ps |-> IF q \in W \cup {p[m]} THEN "running" ELSE "idle"]
       /\ pidle' = Ps \ (W \cup {p[m]})
       /\ midle' = midle \ {f[q] : q \in W}
       /\ p' = [n \in Ms |-> IF \E q \in W : f[q] = n
                             THEN CHOOSE q \in W : f[q] = n ELSE p[n]]
       /\ pc' = [a \in Actors |-> IF a = m THEN "startWake"
                                  ELSE IF \E q \in W : f[q] = a THEN "sched" ELSE pc[a]]
  BY <1>1, Zenon
<1> DEFINE Chosen(n) == \E q \in W : f[q] = n
<1>3. \A n \in Ms : ~Chosen(n) => p'[n] = p[n]
  BY <1>2, Zenon
<1>4. \A n \in Ms : Chosen(n) => p'[n] \in W /\ f[p'[n]] = n
  <2> SUFFICES ASSUME NEW n \in Ms, Chosen(n) PROVE p'[n] \in W /\ f[p'[n]] = n
    BY Zenon
  <2>1. p'[n] = CHOOSE q \in W : f[q] = n
    BY <1>2, Zenon
  <2> QED
    BY <2>1, Zenon
<1>5. \A n : Chosen(n) => n \in midle /\ n \notin midle' /\ n \in Ms /\ n # m
  BY <1>0, <1>2, Zenon
<1>6. \A n \in midle : ~Chosen(n) => n \in midle'
  BY <1>2, Zenon
<1>7. \A n \in midle' : n \in midle
  BY <1>2, Zenon
<1>8. \A b \in Actors : pc'[b] = IF b = m THEN "startWake" ELSE IF Chosen(b) THEN "sched" ELSE pc[b]
  BY <1>2, Zenon
<1>9. \A q \in Ps : /\ status'[q] = IF q \in W \/ q = p[m] THEN "running" ELSE "idle"
                    /\ q \in pidle' <=> q \notin W /\ q # p[m]
  BY <1>2, Zenon
<1>10. \A n \in Ms : n # m => \/ /\ pc[n] = "parked" /\ pc'[n] = "sched" /\ n \notin midle'
                                /\ p'[n] \in W
                             \/ /\ p'[n] = p[n] /\ pc'[n] = pc[n]
                                /\ n \in midle' <=> n \in midle
  <2> HIDE DEF Chosen
  <2> QED
    BY <1>0, <1>3, <1>4, <1>5, <1>6, <1>7, <1>8, Zenon DEF Consts
<1>11. \A n, k \in Ms : p'[n] \in W /\ p'[n] = p'[k] => n = k
  <2>1. \A n \in Ms : n # m => p[n] = None
    BY <1>0, AllStopped, Zenon
  <2>2. \A n \in Ms : p'[n] \in W => Chosen(n)
    <3>1. p[m] \notin W /\ None \notin W
      BY Zenon DEF Consts
    <3> HIDE DEF Chosen
    <3> QED
      BY <1>3, <2>1, <3>1, Zenon
  <2> HIDE DEF Chosen
  <2> QED
    BY <1>4, <2>2, Zenon
<1>12. ~Chosen(m) /\ ~Chosen(Sysmon)
  <2> HIDE DEF Chosen
  <2> QED
    BY <1>5, Zenon DEF Consts
<1>13. pc'[m] = "startWake" /\ p'[m] = p[m] /\ (m \in midle' <=> m \in midle)
       /\ pc'[Sysmon] = pc[Sysmon]
  <2> HIDE DEF Chosen
  <2> QED
    BY <1>0, <1>3, <1>6, <1>7, <1>8, <1>12, Zenon DEF Consts
<1> HIDE DEF Chosen
<1> QED
  BY <1>1, <1>9, <1>10, <1>11, <1>13, Zenon DEF StartEffect

\* startTheWorld keeps control.
LEMMA StartControl ==
  ASSUME Counting, Consts, MTypes, PTypes, Control, POwned, StopCounted,
         NEW m \in Ms, Start(m)
  PROVE  Control'
<1>1. PICK W : StartEffect(m, W)
  BY StartFacts, Zenon
<1>2. UNCHANGED <<lock, worldsema, oldp, argp, ret>> /\ ~gcwaiting' /\ pc[m] = "stopped" /\ lock = None
  BY Zenon DEF Start
<1>3. worldsema = m /\ m \in Actors /\ m # Sysmon /\ p[m] # None
  BY <1>2, Zenon DEF Control, Locks, Holds, WithP, Stopping, Consts
<1>4. \A n \in Ms : n # m => p[n] = None
  BY <1>2, AllStopped, Zenon
<1>5. \A n \in Ms : n # m => pc[n] \notin Stopping \cup {"gcstop"}
  BY <1>4, Zenon DEF Control, Holds, WithP
<1>6. \A n \in Ms : n # m => \/ Apart(n)
                            \/ /\ pc[n] = "parked" /\ pc'[n] = "sched" /\ n \notin midle'
                               /\ p'[n] # None
  BY <1>1, <1>2, <1>5, Zenon DEF Apart, StartEffect, Consts
<1>7. Apart(Sysmon)
  BY <1>1, <1>2, Zenon DEF Apart, StartEffect, Consts
<1>8. ASSUME NEW n \in Ms, pc[n] = "parked", pc'[n] = "sched", n \notin midle', p'[n] # None, n # m
      PROVE  MControl(n)' /\ Common(n)'
  <2>1. Common(n)'
    BY <1>2, <1>8, Zenon DEF Control, Common, Consts
  <2>2. Returns(n)' /\ Holds(n)'
    BY <1>8, Zenon DEF Returns, Holds, WithP, WithoutP, Stopping, Eaching
  <2>3. Locks(n)'
    BY <1>2, <1>3, <1>8, Zenon DEF Locks, Stopping, Eaching, Consts
  <2> QED
    BY <2>1, <2>2, <2>3, Zenon DEF MControl
<1>9. MControl(m)' /\ Common(m)'
  <2>1. pc'[m] = "startWake" /\ p'[m] # None /\ (m \in midle' <=> m \in midle)
    BY <1>1, <1>3, Zenon DEF StartEffect
  <2>2. Common(m)'
    BY <1>2, <1>3, <2>1, Zenon DEF Control, Common
  <2>3. Returns(m)' /\ Holds(m)'
    BY <2>1, Zenon DEF Returns, Holds, WithP, WithoutP, Stopping, Eaching
  <2>4. Locks(m)'
    BY <1>2, <1>3, <2>1, Zenon DEF Locks, Stopping, Eaching, Consts
  <2> QED
    BY <2>2, <2>3, <2>4, Zenon DEF MControl
<1>10. StopperKnown'
  BY <1>2, Zenon DEF StopperKnown
<1> DEFINE T == {b \in Actors : ~Apart(b)} \cup {m}
<1>11. T \in SUBSET Actors
  BY <1>3, Zenon
<1>12. \A b \in T : /\ b \in Ms => MControl(b)'
                    /\ b = Sysmon => SysmonControl'
                    /\ Common(b)'
  BY <1>3, <1>6, <1>7, <1>8, <1>9, Zenon DEF Consts
<1>13. \A b \in Actors : b \notin T => Apart(b)
  BY Zenon
<1> HIDE DEF T
<1> QED
  BY <1>10, <1>11, <1>12, <1>13, ControlOf, Zenon

\* Every step keeps control.
LEMMA ControlStep ==
  ASSUME Counting, Consts, MTypes, PTypes, Control, POwned, StopCounted, Next
  PROVE  Control'
<1>1. ASSUME NEW m \in Ms, User(m) \/ Step(m) \/ ExitSyscall(m),
             ~ Wake(m), ~ StartWake(m), ~ Start(m)
      PROVE  Control'
  <2>1. MControl(m)' /\ Common(m)' /\ StopperKnown' /\ \A b \in Actors : b # m => Apart(b)
    BY <1>1, Alone, Moves, Zenon
  <2> DEFINE T == {m}
  <2>2. T \in SUBSET Actors /\ m # Sysmon
    BY Zenon DEF Consts
  <2> QED
    BY <2>1, <2>2, ControlOf, Zenon
<1> QED
  BY <1>1, WakeControl, StartControl, HandoffControl, WorkControl, RetakeControl, Zenon
     DEF Next, Handoff, GivesP

-----------------------------------------------------------------------------
(* The Ps *)

\* A step that moves no P, and makes nobody start or end to stop the world.
LEMMA PKept ==
  ASSUME POwned, UNCHANGED <<p, argp, pidle, status>>,
         \A n \in Ms : pc'[n] \in Stopping <=> pc[n] \in Stopping
  PROVE  POwned'
BY Zenon DEF POwned

\* Many steps only move their thread to another position.
LEMMA PMoves ==
  ASSUME Consts, MTypes, PTypes, Control, POwned, NEW m \in Ms,
         EachLoopEnd(m) \/ EachWait(m) \/ EachDone(m) \/ SafePoint(m) \/ SafePointDec(m)
         \/ Yield(m) \/ Schedule(m) \/ StopM(m) \/ EnterSyscall(m) \/ EnterSyscallLoad(m)
         \/ StopWait(m) \/ Each(m)
  PROVE  POwned'
<1>1. UNCHANGED <<p, argp, pidle, status>>
  BY Zenon DEF EachLoopEnd, EachWait, EachDone, SafePoint, SafePointDec, Yield, Schedule,
     StopM, EnterSyscall, EnterSyscallLoad, StopWait, Each
<1>2. \A n \in Ms : n # m => pc'[n] = pc[n]
  BY Zenon DEF EachLoopEnd, EachWait, EachDone, SafePoint, SafePointDec, Yield, Schedule,
     StopM, EnterSyscall, EnterSyscallLoad, StopWait, Each, MTypes, Consts
<1>3. pc'[m] \in Stopping <=> pc[m] \in Stopping
  <2>1. CASE EachLoopEnd(m) \/ SafePoint(m) \/ SafePointDec(m)
    BY <2>1 DEF EachLoopEnd, SafePoint, SafePointDec, MTypes, Consts, Control, Returns,
       Stopping
  <2>2. CASE EachWait(m) \/ EachDone(m) \/ Yield(m) \/ Schedule(m) \/ StopM(m) \/ EnterSyscall(m)
             \/ EnterSyscallLoad(m) \/ StopWait(m) \/ Each(m)
    BY <2>2, Zenon DEF EachWait, EachDone, Yield, Schedule, StopM, EnterSyscall,
       EnterSyscallLoad,
       StopWait, Each, MTypes, Consts, Stopping
  <2> QED
    BY <2>1, <2>2, Zenon
<1> QED
  BY <1>1, <1>2, <1>3, PKept, Zenon

\* The steps of an M that move Ps.
LEMMA POwnedM ==
  ASSUME Consts, MTypes, PTypes, Control, POwned, NEW m \in Ms,
         \/ Stop(m) \/ StopSyscall(m) \/ StopIdle(m) \/ EachSyscall(m) \/ GcStopM(m)
         \/ Release(m) \/ EnterSyscallStatus(m) \/ GcWait(m) \/ EnterSyscallBlock(m)
         \/ ExitSyscall(m) \/ ExitSyscall0(m)
  PROVE  POwned'
<1> USE DEF Consts, MTypes, PTypes, Control, Holds, Locks, Stopping, Eaching, WithP, WithoutP
<1>1. CASE Stop(m)
  BY <1>1 DEF Stop, POwned
<1>2. CASE StopSyscall(m)
  BY <1>2 DEF StopSyscall, POwned
<1>3. CASE StopIdle(m)
  BY <1>3 DEF StopIdle, POwned
<1>4. CASE EachSyscall(m)
  BY <1>4 DEF EachSyscall, POwned
<1>5. CASE GcStopM(m)
  BY <1>5 DEF GcStopM, StopOne, POwned
<1>6. CASE Release(m)
  BY <1>6 DEF Release, MustStop, POwned
<1>7. CASE EnterSyscallStatus(m)
  BY <1>7 DEF EnterSyscallStatus, POwned
<1>8. CASE GcWait(m)
  BY <1>8 DEF GcWait, StillMine, StopOne, POwned
<1>9. CASE EnterSyscallBlock(m)
  BY <1>9 DEF EnterSyscallBlock, POwned
<1>10. CASE ExitSyscall(m)
  BY <1>10 DEF ExitSyscall, CanReacquire, POwned
<1>11. CASE ExitSyscall0(m)
  BY <1>11 DEF ExitSyscall0, POwned
<1> QED
  BY <1>1, <1>2, <1>3, <1>4, <1>5, <1>6, <1>7, <1>8, <1>9, <1>10, <1>11, Zenon

\* The steps that start an M: wakep,
LEMMA POwnedWake ==
  ASSUME Consts, MTypes, PTypes, Control, POwned, NEW m \in Ms, Wake(m) \/ StartWake(m)
  PROVE  POwned'
<1>1. argp' = argp /\ pc[m] \notin Stopping
  BY Zenon DEF Wake, StartWake, Stopping
<1>2. CASE StartM(m, "go")
  <2>1. PICK q \in pidle, n \in midle :
          /\ pidle' = pidle \ {q} /\ status' = [status EXCEPT ![q] = "running"]
          /\ p' = [p EXCEPT ![n] = q] /\ pc' = [pc EXCEPT ![m] = "go", ![n] = "sched"]
    BY <1>2, Zenon DEF StartM
  <2>2. n \in Ms /\ p[n] = None /\ q \in Ps /\ pc[n] \notin Stopping
    BY Zenon DEF MTypes, PTypes, Control, Holds, WithoutP, Stopping
  <2>3. \A k \in Ms : pc'[k] \in Stopping <=> pc[k] \in Stopping
    BY <1>1, <2>1, <2>2, Zenon DEF MTypes, Consts, Stopping
  <2>4. \A k \in Ms : p'[k] = IF k = n THEN q ELSE p[k]
    BY <2>1, <2>2, Zenon DEF PTypes
  <2>5. \A r \in Ps : status'[r] = IF r = q THEN "running" ELSE status[r]
    BY <2>1, <2>2, Zenon DEF PTypes
  <2>6. status[q] = "idle" /\ \A r : r \in pidle' <=> r \in pidle /\ r # q
    BY <2>1, Zenon DEF POwned
  <2> QED
    BY <1>1, <2>2, <2>3, <2>4, <2>5, <2>6 DEF POwned, PTypes, Consts
<1>3. CASE pc' = [pc EXCEPT ![m] = "go"] /\ UNCHANGED <<status, pidle, midle, p>>
  <2>1. \A n \in Ms : pc'[n] \in Stopping <=> pc[n] \in Stopping
    BY <1>1, <1>3, Zenon DEF MTypes, Consts, Stopping
  <2> QED
    BY <1>1, <1>3, <2>1, PKept, Zenon
<1> QED
  BY <1>2, <1>3, Zenon DEF Wake, StartWake

\* startTheWorld,
LEMMA POwnedStart ==
  ASSUME Counting, Consts, MTypes, PTypes, Control, POwned, StopCounted,
         NEW m \in Ms, Start(m)
  PROVE  POwned'
<1>0. pc[m] = "stopped" /\ argp' = argp
  BY Zenon DEF Start
<1>1. PICK W : StartEffect(m, W)
  BY StartFacts, Zenon
<1>2. /\ \A n \in Ms : n # m => p[n] = None
      /\ \A a \in Actors : argp[a] = None
  BY <1>0, AllStopped, Zenon
<1>3. \A n \in Ms : n # m => pc[n] \notin Stopping
  BY <1>2, Zenon DEF Control, Holds, WithP
<1>4. \A n \in Ms : pc'[n] \notin Stopping
  BY <1>1, <1>3, Zenon DEF StartEffect, Stopping
<1>5. p[m] \in Ps
  BY <1>0, Zenon DEF PTypes, Control, Holds, WithP, Stopping
<1>6. \A n \in Ms : p'[n] # None => p'[n] \in W \/ (n = m /\ p'[n] = p[m])
  BY <1>1, <1>2, Zenon DEF StartEffect
<1>7. \A n, k \in Ms : n # k /\ p'[n] = p'[k] => p'[n] = None
  <2>1. (\A n, k \in Ms : p'[n] \in W /\ p'[n] = p'[k] => n = k) /\ p[m] \notin W
    BY <1>1, Zenon DEF StartEffect
  <2> QED
    BY <1>6, <2>1, Zenon
<1>8. \A n \in Ms : p'[n] # None => status'[p'[n]] = "running"
  BY <1>1, <1>5, <1>6, Zenon DEF StartEffect
<1>9. pidle' \subseteq Ps
  BY Zenon DEF Start
<1>10. \A q \in pidle' : status'[q] = "idle"
  BY <1>1, <1>9, Zenon DEF StartEffect
<1> QED
  BY <1>0, <1>2, <1>4, <1>7, <1>8, <1>10, Zenon DEF POwned

\* handoffp,
LEMMA POwnedHandoff ==
  ASSUME Consts, MTypes, PTypes, Control, POwned, NEW a \in Actors, GivesP(a), Control'
  PROVE  POwned'
<1>1. pc[a] \in Handing /\ argp' = [argp EXCEPT ![a] = None]
  BY Zenon DEF GivesP, HandoffStart, HandoffIdle
<1>2. argp[a] \in Ps /\ status[argp[a]] = "idle" /\ argp[a] \notin pidle
  <2>1. argp[a] # None
    BY <1>1, Zenon DEF Control
  <2> QED
    BY <2>1, Zenon DEF PTypes, POwned
<1>3. \A b \in Actors : argp'[b] = IF b = a THEN None ELSE argp[b]
  BY <1>1, Zenon DEF PTypes
<1>4. a \in Ms => HandoffRet(a) \notin Stopping
  BY <1>1, Zenon DEF HandoffRet, Control, Returns, Stopping
<1>5. CASE HandoffStart(a)
  <2>1. PICK n \in midle :
          /\ status' = [status EXCEPT ![argp[a]] = "running"]
          /\ p' = [p EXCEPT ![n] = argp[a]] /\ pc' = [pc EXCEPT ![a] = HandoffRet(a), ![n] = "sched"]
    BY <1>5, Zenon DEF HandoffStart
  <2>2. n \in Ms /\ p[n] = None /\ pc[n] \notin Stopping /\ n # a /\ pidle' = pidle
    <3>1. n \in Ms /\ pc[n] = "parked"
      BY Zenon DEF MTypes, Control
    <3>2. p[n] = None
      BY <3>1, Zenon DEF Control, Holds, WithoutP
    <3> QED
      BY <1>1, <1>5, <3>1, <3>2, Zenon DEF Stopping, HandoffStart
  <2>3. \A k \in Ms : pc'[k] \in Stopping <=> pc[k] \in Stopping
    BY <1>1, <1>4, <2>1, <2>2, Zenon DEF MTypes, Consts, Stopping
  <2>4. \A k \in Ms : p'[k] = IF k = n THEN argp[a] ELSE p[k]
    BY <2>1, <2>2, Zenon DEF PTypes
  <2>5. \A r \in Ps : status'[r] = IF r = argp[a] THEN "running" ELSE status[r]
    BY <1>2, <2>1, <2>2, Zenon DEF PTypes
  <2> QED
    BY <1>2, <1>3, <2>2, <2>3, <2>4, <2>5 DEF POwned, PTypes, Consts
<1>6. CASE HandoffIdle(a)
  <2>1. pc' = [pc EXCEPT ![a] = HandoffRet(a)] /\ p' = p
    BY <1>6, Zenon DEF HandoffIdle
  <2>2. \A k \in Ms : pc'[k] \in Stopping <=> pc[k] \in Stopping
    BY <1>1, <1>4, <2>1, Zenon DEF MTypes, Consts, Stopping
  <2>3. CASE gcwaiting
    <3>1. pidle' = pidle /\ status' = [status EXCEPT ![argp[a]] = "gcstop"]
      BY <1>6, <2>3, Zenon DEF HandoffIdle
    <3> QED
      BY <1>2, <1>3, <2>1, <2>2, <3>1 DEF POwned, PTypes, Consts
  <2>4. CASE ~gcwaiting
    <3>1. pidle' = pidle \cup {argp[a]} /\ status' = status
      BY <1>6, <2>4, Zenon DEF HandoffIdle
    <3> QED
      BY <1>2, <1>3, <2>1, <2>2, <3>1 DEF POwned, PTypes, Consts
  <2> QED
    BY <2>3, <2>4, Zenon
<1> QED
  BY <1>5, <1>6, Zenon DEF GivesP

\* and sysmon's retake.
LEMMA POwnedRetake ==
  ASSUME Consts, MTypes, PTypes, Control, POwned, Retake
  PROVE  POwned'
<1>1. PICK q \in Ps : /\ status[q] = "syscall" /\ status' = [status EXCEPT ![q] = "idle"]
                      /\ argp' = [argp EXCEPT ![Sysmon] = q]
  BY Zenon DEF Retake
<1>2. \A b \in Actors : argp'[b] = IF b = Sysmon THEN q ELSE argp[b]
  BY <1>1, Zenon DEF PTypes
<1>3. /\ p' = p /\ pidle' = pidle
      /\ \A k \in Ms : pc'[k] = pc[k]
  BY Zenon DEF Retake, MTypes, Consts
<1> QED
  BY <1>1, <1>2, <1>3 DEF POwned, PTypes, Consts, Stopping

-----------------------------------------------------------------------------
(* Stopping the world *)

\* Sets with the same members are equal.
LEMMA SameSet ==
  ASSUME NEW S, NEW T, \A x : x \in S <=> x \in T
  PROVE  S = T
OBVIOUS

\* stopwait is never negative.
LEMMA StopNat ==
  ASSUME Counting, MTypes, StopCounted
  PROVE  stopwait \in Nat
<1>1. Unstopped \in SUBSET Ps
  BY Zenon DEF Unstopped
<1>2. Cardinality(Unstopped) \in Nat
  BY <1>1, Zenon DEF Counting, CountedSets
<1>3. 0 \in Nat
  OBVIOUS
<1> QED
  BY <1>2, <1>3, Zenon DEF StopCounted, MTypes

\* A step that stops no P and starts none leaves the stopper where it is.
LEMMA StopKept ==
  ASSUME MTypes, Control, StopCounted, UNCHANGED <<gcwaiting, stopwait, stopnote>>, Control',
         \A q \in Ps : status'[q] = "gcstop" <=> status[q] = "gcstop",
         gcwaiting => worldsema' = worldsema /\ pc'[worldsema] = pc[worldsema]
  PROVE  StopCounted'
<1>1. \A q : q \in Unstopped' <=> q \in Unstopped
  BY Zenon DEF Unstopped
<1>2. Unstopped' = Unstopped
  BY <1>1, SameSet, Zenon
<1>3. /\ gcwaiting' => stopwait' = Cardinality(Unstopped')
      /\ ~gcwaiting' => stopwait' = 0 /\ \A q \in Ps : status'[q] # "gcstop"
  BY <1>2, Zenon DEF StopCounted
<1>4. stopnote' # 0 => stopwait' = 0 /\ worldsema' \in Ms /\ pc'[worldsema'] = "stopWait"
  BY Zenon DEF StopCounted, Control, Locks, Stopping
<1>5. \A m \in Ms : pc'[m] = "stopped" => worldsema' = m /\ gcwaiting'
  BY Zenon DEF Control, Locks, Stopping
<1>6. \A m \in Ms : pc'[m] = "stopped" => stopwait' = 0
  BY <1>5, Zenon DEF StopCounted
<1> QED
  BY <1>3, <1>4, <1>6, Zenon DEF StopCounted

\* The last of the Ps that are given up to the stopper wakes it up.
LEMMA StopOneKept ==
  ASSUME Counting, Consts, MTypes, CountTypes, Control, StopCounted, Control', StopOne,
         gcwaiting, gcwaiting', lock = None, worldsema' = worldsema,
         pc'[worldsema] = pc[worldsema],
         NEW q \in Ps, status[q] # "gcstop", status'[q] = "gcstop",
         \A r \in Ps : r # q => status'[r] = status[r]
  PROVE  StopCounted'
<1> DEFINE k == Cardinality(Unstopped)
<1>1. stopwait = k /\ k \in Nat
  BY StopNat, Zenon DEF StopCounted
<1>2. Cardinality(Unstopped') = k - 1
  <2>1. \A r : r \in Unstopped' <=> r \in Unstopped \ {q}
    BY Zenon DEF Unstopped
  <2>2. Unstopped' = Unstopped \ {q}
    BY <2>1, SameSet, Zenon
  <2>3. Unstopped \in SUBSET Ps /\ q \in Unstopped
    BY Zenon DEF Unstopped
  <2> QED
    BY <2>2, <2>3, Zenon DEF Counting, CountedSets
<1>3. k # 0
  <2>1. Unstopped \in SUBSET Ps /\ q \in Unstopped
    BY Zenon DEF Unstopped
  <2> QED
    BY <2>1, Zenon DEF Counting, CountedSets
<1> HIDE DEF k
<1>4. stopwait' = k - 1 /\ (stopwait' = 0 <=> stopwait = 1)
  BY <1>1, <1>3 DEF StopOne
<1>5. worldsema \in Ms /\ pc[worldsema] = "stopWait"
  <2>1. worldsema \in Ms /\ pc[worldsema] \in Stopping /\ pc[worldsema] # "stopped"
    BY <1>1, <1>3, Zenon DEF Control, StopCounted
  <2>2. pc[worldsema] # "stopSyscall"
    BY <2>1, Zenon DEF Consts, Control, Locks
  <2> QED
    BY <2>1, <2>2, Zenon DEF Stopping
<1>6. stopnote' # 0 => stopwait' = 0
  <2>1. stopnote = 0
    BY <1>1, <1>3, Zenon DEF StopCounted
  <2> QED
    BY <1>4, <2>1, Zenon DEF StopOne
<1>7. \A m \in Ms : pc'[m] # "stopped"
  BY <1>5, Zenon DEF Control, Locks, Stopping
<1> QED
  BY <1>2, <1>4, <1>5, <1>6, <1>7, Zenon DEF StopCounted

\* stopTheWorldWithSema: it counts the Ps but its own,
LEMMA StopCountedStop ==
  ASSUME Counting, Consts, MTypes, PTypes, Control, StopCounted, NEW m \in Ms, Stop(m), Control'
  PROVE  StopCounted'
<1>1. /\ gcwaiting' /\ stopwait' = NP - 1 /\ stopnote' = stopnote /\ worldsema = None
      /\ worldsema' = m /\ pc[m] = "go"
      /\ status' = [status EXCEPT ![p[m]] = "gcstop"] /\ pc'[m] = "stopSyscall"
  BY Zenon DEF Stop, MTypes, Consts
<1>2. p[m] \in Ps /\ ~gcwaiting
  <2>1. Holds(m) /\ ~gcwaiting
    BY <1>1, Zenon DEF Control, Consts
  <2> QED
    BY <1>1, <2>1, Zenon DEF PTypes, Holds, WithP
<1>3. \A r : r \in Unstopped' <=> r \in Ps \ {p[m]}
  BY <1>1, <1>2, Zenon DEF PTypes, StopCounted, Unstopped
<1>4. Unstopped' = Ps \ {p[m]}
  BY <1>3, SameSet, Zenon
<1>5. Cardinality(Unstopped') = NP - 1
  BY <1>2, <1>4, Zenon DEF Counting, CountedSets
<1>6. stopnote' = 0
  BY <1>1, <1>2, Zenon DEF StopCounted, Consts
<1>7. \A n \in Ms : pc'[n] # "stopped"
  BY <1>1, Zenon DEF Control, Locks, Stopping
<1> QED
  BY <1>1, <1>5, <1>6, <1>7, Zenon DEF StopCounted

\* takes those in system calls away,
LEMMA StopCountedSyscall ==
  ASSUME Counting, Consts, MTypes, PTypes, Control, StopCounted, NEW m \in Ms, StopSyscall(m),
         Control'
  PROVE  StopCounted'
<1>1. /\ gcwaiting' = gcwaiting /\ stopnote' = stopnote /\ worldsema' = worldsema
      /\ pc' = pc /\ pc[m] = "stopSyscall"
  BY Zenon DEF StopSyscall
<1>2. gcwaiting /\ worldsema = m
  BY <1>1, Zenon DEF Control, Locks, Stopping
<1>3. CASE UNCHANGED <<status, stopwait>>
  BY <1>1, <1>3, StopKept, Zenon
<1>4. ASSUME NEW q \in left[m], status[q] = "syscall",
             status' = [status EXCEPT ![q] = "gcstop"], stopwait' = stopwait - 1
      PROVE  StopCounted'
  <2>1. q \in Ps
    BY Zenon DEF MTypes
  <2>2. \A r : r \in Unstopped' <=> r \in Unstopped \ {q}
    BY <1>4, <2>1, Zenon DEF PTypes, Unstopped
  <2>3. Unstopped' = Unstopped \ {q}
    BY <2>2, SameSet, Zenon
  <2>4. Unstopped \in SUBSET Ps /\ q \in Unstopped
    BY <1>4, <2>1, Zenon DEF Unstopped
  <2>5. Cardinality(Unstopped') = Cardinality(Unstopped) - 1
    BY <2>3, <2>4, Zenon DEF Counting, CountedSets
  <2>6. stopwait' = Cardinality(Unstopped')
    BY <1>2, <1>4, <2>5, Zenon DEF StopCounted
  <2>7. stopnote' = 0
    BY <1>1, <1>2, Zenon DEF StopCounted
  <2>8. \A n \in Ms : pc'[n] # "stopped"
    BY <1>1, <1>2, Zenon DEF Control, Locks, Stopping
  <2> QED
    BY <1>1, <1>2, <2>6, <2>7, <2>8, Zenon DEF StopCounted
<1> QED
  BY <1>3, <1>4, Zenon DEF StopSyscall

\* and the idle ones,
LEMMA StopCountedIdle ==
  ASSUME Counting, Consts, MTypes, PTypes, Control, POwned, StopCounted, NEW m \in Ms,
         StopIdle(m), Control'
  PROVE  StopCounted'
<1>1. /\ gcwaiting' = gcwaiting /\ stopnote' = stopnote /\ worldsema' = worldsema
      /\ pc[m] = "stopSyscall" /\ stopwait' = stopwait - Cardinality(pidle)
      /\ status' = [q \in Ps |-> IF q \in pidle THEN "gcstop" ELSE status[q]]
      /\ pc' = [pc EXCEPT ![m] = IF stopwait' > 0 THEN "stopWait" ELSE "stopped"]
  BY Zenon DEF StopIdle
<1>2. gcwaiting /\ worldsema = m
  BY <1>1, Zenon DEF Control, Locks, Stopping
<1>3. \A r : r \in Unstopped' <=> r \in Unstopped \ pidle
  BY <1>1, Zenon DEF Unstopped
<1>4. Unstopped' = Unstopped \ pidle
  BY <1>3, SameSet, Zenon
<1>5. Unstopped \in SUBSET Ps /\ Unstopped' \in SUBSET Ps /\ pidle \in SUBSET Unstopped
  BY Zenon DEF PTypes, POwned, Unstopped
<1>6. /\ Cardinality(Unstopped') = Cardinality(Unstopped) - Cardinality(pidle)
      /\ Cardinality(Unstopped') \in Nat
  BY <1>4, <1>5, Zenon DEF Counting, CountedSets
<1>7. stopwait' = Cardinality(Unstopped') /\ stopwait' \in Nat
  BY <1>1, <1>2, <1>6, Zenon DEF StopCounted
<1>8. stopnote' = 0
  BY <1>1, <1>2, Zenon DEF StopCounted
<1>9. pc'[m] = IF stopwait' > 0 THEN "stopWait" ELSE "stopped"
  BY <1>1, Zenon DEF MTypes, Consts
<1>10. pc'[m] = "stopped" => stopwait' = 0
  BY <1>7, <1>9
<1>11. \A n \in Ms : pc'[n] = "stopped" => n = m
  BY <1>1, <1>2, Zenon DEF Control, Locks, Stopping
<1> QED
  BY <1>1, <1>2, <1>7, <1>8, <1>10, <1>11, Zenon DEF StopCounted

\* and wakes up only when none is left.
LEMMA StopCountedWait ==
  ASSUME Consts, MTypes, CountTypes, Control, StopCounted, NEW m \in Ms, StopWait(m), Control'
  PROVE  StopCounted'
<1>1. /\ gcwaiting' = gcwaiting /\ stopwait' = stopwait /\ status' = status
      /\ worldsema' = worldsema /\ stopnote' = 0 /\ pc[m] = "stopWait" /\ stopnote > 0
  BY Zenon DEF StopWait
<1>2. stopnote # 0
  BY <1>1 DEF CountTypes
<1>3. stopwait' = 0
  BY <1>1, <1>2, Zenon DEF StopCounted
<1>4. Unstopped' = Unstopped
  BY <1>1, Zenon DEF Unstopped
<1> QED
  BY <1>1, <1>3, <1>4, Zenon DEF StopCounted

\* startTheWorld leaves no P stopped.
LEMMA StopCountedStart ==
  ASSUME Counting, Consts, MTypes, PTypes, Control, POwned, StopCounted,
         NEW m \in Ms, Start(m), Control'
  PROVE  StopCounted'
<1>1. /\ ~gcwaiting' /\ stopwait' = stopwait /\ stopnote' = stopnote /\ worldsema' = worldsema
      /\ pc[m] = "stopped"
  BY Zenon DEF Start
<1>2. PICK W : StartEffect(m, W)
  BY StartFacts, Zenon
<1>3. stopwait = 0 /\ worldsema = m
  BY <1>1, Zenon DEF Control, Locks, Stopping, StopCounted
<1>4. \A q \in Ps : status'[q] # "gcstop"
  BY <1>2, Zenon DEF StartEffect
<1>5. stopnote' = 0
  BY <1>1, <1>3, Zenon DEF StopCounted
<1> QED
  BY <1>1, <1>3, <1>4, <1>5, Zenon DEF StopCounted

\* An M that runs has a P, and unless it is stopping the world the P runs.
LEMMA RunningP ==
  ASSUME PTypes, Control, POwned, NEW m \in Ms, pc[m] \in WithP, pc[m] \notin Stopping
  PROVE  p[m] \in Ps /\ status[p[m]] = "running"
<1>1. p[m] # None
  BY Zenon DEF Control, Holds
<1> QED
  BY <1>1, Zenon DEF PTypes, POwned

\* The other steps: those that stop no P,
LEMMA StopCountedOthers ==
  ASSUME Consts, MTypes, PTypes, Control, POwned, StopCounted, NEW m \in Ms, Control',
         \/ Each(m) \/ EachSyscall(m) \/ EachLoopEnd(m) \/ EachWait(m) \/ EachDone(m)
         \/ SafePoint(m) \/ SafePointDec(m) \/ Yield(m) \/ Schedule(m) \/ Release(m)
         \/ StopM(m) \/ EnterSyscall(m) \/ EnterSyscallStatus(m) \/ EnterSyscallLoad(m)
         \/ EnterSyscallBlock(m) \/ ExitSyscall(m) \/ ExitSyscall0(m)
         \/ Wake(m) \/ StartWake(m)
  PROVE  StopCounted'
<1>1. UNCHANGED <<gcwaiting, stopwait, stopnote>> /\ pc[m] \notin Stopping
  BY Zenon DEF Each, EachSyscall, EachLoopEnd, EachWait, EachDone, SafePoint, SafePointDec,
     Yield, Schedule, Release, StopM, EnterSyscall, EnterSyscallStatus, EnterSyscallLoad,
     EnterSyscallBlock, ExitSyscall, ExitSyscall0, Wake, StartWake, Stopping
<1>2. gcwaiting => worldsema' = worldsema
  <2>1. gcwaiting => worldsema \in Ms /\ worldsema # None /\ worldsema # m
    BY <1>1, Zenon DEF Consts, Control
  <2>2. worldsema' # worldsema => worldsema = None \/ worldsema = m
    BY Zenon DEF Each, EachSyscall, EachLoopEnd, EachWait, EachDone, SafePoint,
       SafePointDec,
       Yield, Schedule, Release, StopM, EnterSyscall, EnterSyscallStatus, EnterSyscallLoad,
       EnterSyscallBlock, ExitSyscall, ExitSyscall0, Wake, StartWake, Control, Locks, Eaching
  <2> QED
    BY <2>1, <2>2, Zenon
<1>3. \A b \in Actors : b # m /\ pc[b] # "parked" => pc'[b] = pc[b]
  <2>1. CASE Wake(m) \/ StartWake(m)
    <3>1. CASE StartM(m, "go")
      <4>1. PICK n \in midle : pc' = [pc EXCEPT ![m] = "go", ![n] = "sched"]
        BY <3>1, Zenon DEF StartM
      <4>2. n \in Ms /\ pc[n] = "parked"
        BY Zenon DEF MTypes, Control
      <4> QED
        BY <4>1, <4>2, Zenon DEF MTypes
    <3> QED
      BY <2>1, <3>1, Zenon DEF Wake, StartWake, MTypes
  <2>2. CASE ~ Wake(m) /\ ~ StartWake(m)
    <3>1. ~Start(m)
      BY <1>1, Zenon DEF Start, Stopping
    <3>2. \A b \in Actors : b # m => Apart(b)
      BY <2>2, <3>1, Alone, Zenon DEF User, Step
    <3> QED
      BY <3>2, Zenon DEF Apart
  <2> QED
    BY <2>1, <2>2, Zenon
<1>4. gcwaiting => pc'[worldsema] = pc[worldsema]
  BY <1>1, <1>3, Zenon DEF Consts, Control, Stopping
<1>5. \A q \in Ps : status'[q] = "gcstop" <=> status[q] = "gcstop"
  <2>1. CASE \/ Each(m) \/ EachLoopEnd(m) \/ EachWait(m) \/ EachDone(m) \/ SafePoint(m)
             \/ SafePointDec(m) \/ Yield(m) \/ Schedule(m) \/ StopM(m) \/ EnterSyscall(m)
             \/ EnterSyscallLoad(m)
    <3>1. status' = status
      BY <2>1, Zenon DEF Each, EachLoopEnd, EachWait, EachDone, SafePoint,
         SafePointDec, Yield, Schedule, StopM, EnterSyscall, EnterSyscallLoad
    <3> QED
      BY <3>1, Zenon
  <2>2. CASE EachSyscall(m) \/ ExitSyscall(m)
    BY <2>2, Zenon DEF EachSyscall, ExitSyscall, CanReacquire, PTypes, MTypes
  <2>3. CASE Release(m) \/ EnterSyscallStatus(m) \/ EnterSyscallBlock(m)
    <3>1. pc[m] \in WithP
      BY <2>3, Zenon DEF Release, EnterSyscallStatus, EnterSyscallBlock, WithP
    <3>2. p[m] \in Ps /\ status[p[m]] = "running"
      BY <1>1, <3>1, RunningP, Zenon
    <3> QED
      BY <2>3, <3>2, Zenon DEF Release, EnterSyscallStatus, EnterSyscallBlock, PTypes
  <2>4. CASE ExitSyscall0(m) \/ Wake(m) \/ StartWake(m)
    <3>1. \A r \in pidle : r \in Ps /\ status[r] = "idle"
      BY Zenon DEF POwned, PTypes
    <3>2. \/ status' = status
          \/ \E r \in pidle : status' = [status EXCEPT ![r] = "running"]
      BY <2>4, Zenon DEF ExitSyscall0, Wake, StartWake, StartM
    <3> QED
      BY <3>1, <3>2, Zenon DEF PTypes
  <2> QED
    BY <2>1, <2>2, <2>3, <2>4, Zenon
<1> QED
  BY <1>1, <1>2, <1>4, <1>5, StopKept, Zenon

\* the steps in which an M gives its P up,
LEMMA StopCountedGive ==
  ASSUME Counting, Consts, MTypes, PTypes, CountTypes, Control, POwned, StopCounted,
         NEW m \in Ms, GcStopM(m) \/ GcWait(m), Control'
  PROVE  StopCounted'
<1>1. /\ gcwaiting' = gcwaiting /\ worldsema' = worldsema /\ lock = None
      /\ pc[m] \notin Stopping
      /\ \A b \in Actors : b # m => pc'[b] = pc[b]
  BY Zenon DEF GcStopM, GcWait, Stopping, MTypes
<1>2. gcwaiting => pc'[worldsema] = pc[worldsema]
  BY <1>1, Zenon DEF Consts, Control
<1>3. CASE GcStopM(m)
  <2>0. pc[m] = "gcstop" /\ StopOne /\ status' = [status EXCEPT ![p[m]] = "gcstop"]
    BY <1>3, Zenon DEF GcStopM
  <2>1. gcwaiting /\ p[m] \in Ps /\ status[p[m]] = "running"
    <3>1. pc[m] \in WithP /\ gcwaiting
      BY <2>0, Zenon DEF WithP, Control, Locks
    <3> QED
      BY <1>1, <3>1, RunningP, Zenon
  <2>2. status'[p[m]] = "gcstop" /\ \A r \in Ps : r # p[m] => status'[r] = status[r]
    BY <2>0, <2>1, Zenon DEF PTypes
  <2>3. status[p[m]] # "gcstop"
    BY <2>1, Zenon
  <2> QED
    BY <1>1, <1>2, <2>0, <2>1, <2>2, <2>3, StopOneKept, Zenon
<1>4. CASE GcWait(m)
  <2>1. CASE StillMine(m)
    <3>1. /\ oldp[m] \in Ps /\ status[oldp[m]] = "syscall" /\ StopOne /\ stopwait > 0
          /\ status' = [status EXCEPT ![oldp[m]] = "gcstop"]
      BY <1>4, <2>1, Zenon DEF GcWait, StillMine, Control, Holds, PTypes
    <3>2. gcwaiting
      <4>1. stopwait # 0
        BY <3>1, StopNat
      <4> QED
        BY <4>1, Zenon DEF StopCounted
    <3>3. status'[oldp[m]] = "gcstop" /\ \A r \in Ps : r # oldp[m] => status'[r] = status[r]
      BY <3>1, Zenon DEF PTypes
    <3>4. status[oldp[m]] # "gcstop"
      BY <3>1, Zenon
    <3> QED
      BY <1>1, <1>2, <3>1, <3>2, <3>3, <3>4, StopOneKept, Zenon
  <2>2. CASE ~StillMine(m)
    <3>1. UNCHANGED <<gcwaiting, status, stopwait, stopnote>>
      BY <1>4, <2>2, Zenon DEF GcWait
    <3> QED
      BY <1>1, <1>2, <3>1, StopKept, Zenon
  <2> QED
    BY <2>1, <2>2, Zenon
<1> QED
  BY <1>3, <1>4, Zenon

\* handoffp,
LEMMA StopCountedHandoff ==
  ASSUME Counting, Consts, MTypes, PTypes, CountTypes, Control, POwned, StopCounted,
         NEW a \in Actors, GivesP(a), Control'
  PROVE  StopCounted'
<1>1. /\ gcwaiting' = gcwaiting /\ worldsema' = worldsema /\ lock = None /\ pc[a] \in Handing
  BY Zenon DEF GivesP, HandoffStart, HandoffIdle
<1>2. argp[a] \in Ps /\ status[argp[a]] = "idle"
  <2>1. argp[a] # None
    BY <1>1, Zenon DEF Control
  <2> QED
    BY <2>1, Zenon DEF POwned, PTypes
<1>3. \A b \in Actors : b # a /\ pc[b] # "parked" => pc'[b] = pc[b]
  <2>1. CASE HandoffStart(a)
    <3>1. PICK n \in midle : pc' = [pc EXCEPT ![a] = HandoffRet(a), ![n] = "sched"]
      BY <2>1, Zenon DEF HandoffStart
    <3>2. n \in Ms /\ pc[n] = "parked"
      BY Zenon DEF MTypes, Control
    <3> QED
      BY <3>1, <3>2, Zenon DEF MTypes
  <2>2. CASE HandoffIdle(a)
    BY <2>2, Zenon DEF HandoffIdle, MTypes
  <2> QED
    BY <2>1, <2>2, Zenon DEF GivesP
<1>4. gcwaiting => pc'[worldsema] = pc[worldsema]
  BY <1>1, <1>3, Zenon DEF Consts, Control, Stopping
<1>5. CASE HandoffIdle(a) /\ gcwaiting
  <2>1. StopOne /\ status' = [status EXCEPT ![argp[a]] = "gcstop"]
    BY <1>5, Zenon DEF HandoffIdle
  <2>2. status'[argp[a]] = "gcstop" /\ \A r \in Ps : r # argp[a] => status'[r] = status[r]
    BY <1>2, <2>1, Zenon DEF PTypes
  <2>3. status[argp[a]] # "gcstop"
    BY <1>2, Zenon
  <2> QED
    BY <1>1, <1>2, <1>4, <1>5, <2>1, <2>2, <2>3, StopOneKept, Zenon
<1>6. CASE HandoffStart(a) \/ ~gcwaiting
  <2>1. UNCHANGED <<gcwaiting, stopwait, stopnote>>
    BY <1>6, Zenon DEF GivesP, HandoffStart, HandoffIdle
  <2>2. status' = status \/ status' = [status EXCEPT ![argp[a]] = "running"]
    BY <1>6, Zenon DEF GivesP, HandoffStart, HandoffIdle
  <2>3. \A q \in Ps : status'[q] = "gcstop" <=> status[q] = "gcstop"
    BY <1>2, <2>2, Zenon DEF PTypes
  <2> QED
    BY <1>1, <1>4, <2>1, <2>3, StopKept, Zenon
<1> QED
  BY <1>5, <1>6, Zenon DEF GivesP

\* and sysmon's retake.
LEMMA StopCountedRetake ==
  ASSUME Consts, MTypes, PTypes, Control, StopCounted, Retake, Control'
  PROVE  StopCounted'
<1>1. UNCHANGED <<gcwaiting, stopwait, stopnote, worldsema>>
  BY Zenon DEF Retake
<1>2. \A n \in Ms : pc'[n] = pc[n]
  BY Zenon DEF Retake, MTypes, Consts
<1>3. \A q \in Ps : status'[q] = "gcstop" <=> status[q] = "gcstop"
  BY Zenon DEF Retake, PTypes
<1>4. gcwaiting => pc'[worldsema] = pc[worldsema]
  BY <1>2, Zenon DEF Control
<1> QED
  BY <1>1, <1>3, <1>4, StopKept, Zenon

-----------------------------------------------------------------------------
(* forEachP *)

Flags == Cardinality(Flagged)
Decs == Cardinality(Deciding)

\* safePointWait is never negative.
LEMMA EachNat ==
  ASSUME Counting, EachCounted
  PROVE  /\ Flags \in Nat /\ Decs \in Nat /\ spWait = Flags + Decs /\ spWait \in Nat
         /\ Flagged \in SUBSET Ps /\ Deciding \in SUBSET Ms
         /\ spWait = 0 => Flagged = {} /\ Deciding = {}
<1>1. Flagged \in SUBSET Ps /\ Deciding \in SUBSET Ms
  BY Zenon DEF Flagged, Deciding
<1>2. /\ Flags \in Nat /\ Decs \in Nat /\ spWait = Flags + Decs
      /\ Flags = 0 <=> Flagged = {}
      /\ Decs = 0 <=> Deciding = {}
  BY <1>1, Zenon DEF Counting, CountedSets, EachCounted, Flags, Decs
<1>3. spWait \in Nat /\ (spWait = 0 => Flags = 0 /\ Decs = 0)
  BY <1>2
<1> QED
  BY <1>1, <1>2, <1>3, Zenon

\* A step that touches neither flags nor counters, and does not move the caller
\* of forEachP past its wait.
LEMMA EachKept ==
  ASSUME EachCounted, UNCHANGED <<runFn, spWait, spNote, ran>>,
         \A n \in Ms : pc'[n] = "safePointDec" <=> pc[n] = "safePointDec",
         worldsema \in Ms /\ Awaiting(worldsema) =>
           worldsema' = worldsema /\ Awaiting(worldsema)',
         \A n \in Ms : worldsema' = n /\ pc'[n] \in Eaching \cup Handing =>
           worldsema = n /\ pc[n] \in Eaching \cup Handing
  PROVE  EachCounted'
<1>1. \A q : q \in Flagged' <=> q \in Flagged
  BY Zenon DEF Flagged
<1>2. \A n : n \in Deciding' <=> n \in Deciding
  BY Zenon DEF Deciding
<1>3. Flagged' = Flagged /\ Deciding' = Deciding
  BY <1>1, <1>2, SameSet, Zenon
<1>4. spWait' = Cardinality(Flagged') + Cardinality(Deciding')
  BY <1>3, Zenon DEF EachCounted
<1>5. /\ spWait' # 0 => worldsema' \in Ms /\ Awaiting(worldsema)'
      /\ spNote' # 0 => spWait' = 0 /\ worldsema' \in Ms /\ Awaiting(worldsema)'
  BY Zenon DEF EachCounted
<1>6. \A m \in Ms : worldsema' = m /\ pc'[m] \in Eaching \cup Handing =>
        \A q \in Ps : ran'[q] + runFn'[q] = 1
  BY Zenon DEF EachCounted
<1> QED
  BY <1>4, <1>5, <1>6, Zenon DEF EachCounted

\* While somebody has the function to run, a caller of forEachP waits for it.
LEMMA CallerWaits ==
  ASSUME Counting, CountTypes, Control, EachCounted, spWait # 0
  PROVE  /\ worldsema \in Ms /\ pc[worldsema] \in {"each", "eachWait"} \cup Handing /\ spNote = 0
         /\ \A q \in Ps : runFn[q] = 1 => ran[q] = 0
<1>1. worldsema \in Ms /\ pc[worldsema] \in {"each", "eachWait"} \cup Handing /\ spNote = 0
  BY Zenon DEF EachCounted, Awaiting
<1>2. pc[worldsema] \in Eaching \cup Handing
  BY <1>1, Zenon DEF Eaching
<1>3. \A q \in Ps : ran[q] + runFn[q] = 1
  BY <1>1, <1>2, Zenon DEF EachCounted
<1>4. \A q \in Ps : runFn[q] = 1 => ran[q] = 0
  BY <1>3 DEF CountTypes
<1> QED
  BY <1>1, <1>4, Zenon

\* The function is run for P q: its flag is cleared,
Taken(q) ==
  /\ q \in Ps /\ runFn[q] = 1
  /\ runFn' = [runFn EXCEPT ![q] = 0] /\ ran' = [ran EXCEPT ![q] = @ + 1]

\* and one flag less is counted.
LEMMA TakenFacts ==
  ASSUME Counting, CountTypes, Control, EachCounted, NEW q, Taken(q)
  PROVE  /\ spWait # 0 /\ Flags' = Flags - 1
         /\ \A r \in Ps : ran[r] + runFn[r] = 1 => ran'[r] + runFn'[r] = 1
<1>1. q \in Ps /\ q \in Flagged /\ Flagged \in SUBSET Ps
  BY Zenon DEF Taken, Flagged
<1>2. \A r \in Ps : runFn'[r] = IF r = q THEN 0 ELSE runFn[r]
  BY Zenon DEF Taken, CountTypes
<1>3. \A r : r \in Flagged' <=> r \in Flagged \ {q}
  <2>1. \A r \in Ps : runFn'[r] = 1 <=> runFn[r] = 1 /\ r # q
    BY <1>2
  <2> QED
    BY <2>1, Zenon DEF Flagged
<1>4. Flagged' = Flagged \ {q}
  BY <1>3, SameSet, Zenon
<1>5. Flags' = Flags - 1
  BY <1>1, <1>4, Zenon DEF Counting, CountedSets, Flags
<1>6. spWait # 0
  BY <1>1, EachNat, Zenon
<1>7. \A r \in Ps : ran'[r] = IF r = q THEN ran[q] + 1 ELSE ran[r]
  BY Zenon DEF Taken, CountTypes
<1>8. ran[q] = 0
  BY <1>1, <1>6, CallerWaits, Zenon DEF Flagged
<1>9. \A r \in Ps : ran[r] + runFn[r] = 1 => ran'[r] + runFn'[r] = 1
  BY <1>2, <1>7, <1>8
<1> QED
  BY <1>5, <1>6, <1>9, Zenon

\* The counters after the caller of forEachP, if there is one, has not moved.
LEMMA EachOf ==
  ASSUME Counting, CountTypes, Control, EachCounted, Control', spWait # 0,
         worldsema' = worldsema, Awaiting(worldsema)',
         spWait' = Flags' + Decs', spNote' # 0 => spWait' = 0,
         \A r \in Ps : ran[r] + runFn[r] = 1 => ran'[r] + runFn'[r] = 1
  PROVE  EachCounted'
<1>1. worldsema \in Ms /\ pc[worldsema] \in Eaching \cup Handing
  BY CallerWaits, Zenon DEF Eaching
<1>2. \A q \in Ps : ran[q] + runFn[q] = 1
  BY <1>1, Zenon DEF EachCounted
<1>3. \A q \in Ps : ran'[q] + runFn'[q] = 1
  BY <1>2, Zenon
<1>4. spWait' = Cardinality(Flagged') + Cardinality(Deciding')
  BY Zenon DEF Flags, Decs
<1> QED
  BY <1>1, <1>3, <1>4, Zenon DEF EachCounted

\* forEachP sets the flags of the Ps that are neither its own nor idle,
LEMMA EachCountedEach ==
  ASSUME Counting, Consts, MTypes, PTypes, CountTypes, Control, POwned, EachCounted,
         NEW m \in Ms, Each(m)
  PROVE  EachCounted'
<1>1. /\ pc[m] = "go" /\ worldsema = None /\ worldsema' = m
      /\ runFn' = [q \in Ps |-> IF q = p[m] \/ q \in pidle THEN runFn[q] ELSE 1]
      /\ ran' = [q \in Ps |-> IF q = p[m] \/ q \in pidle THEN 1 ELSE 0]
      /\ spWait' = NP - 1 - Cardinality(pidle) /\ spNote' = spNote
      /\ pc' = [pc EXCEPT ![m] = "each"]
      /\ ret' = [ret EXCEPT ![m] = IF spWait' > 0 THEN "eachWait" ELSE "eachDone"]
  BY Zenon DEF Each
<1>2. spWait = 0 /\ spNote = 0
  BY <1>1, Zenon DEF EachCounted, Consts
<1>3. Flagged = {} /\ Deciding = {}
  BY <1>2, EachNat, Zenon
<1>4. p[m] \in Ps /\ status[p[m]] = "running"
  BY <1>1, RunningP, Zenon DEF WithP, Stopping
<1>5. p[m] \notin pidle
  BY <1>4, Zenon DEF POwned
<1>6. \A q \in Ps : runFn[q] = 0
  BY <1>3, Zenon DEF Flagged, CountTypes
<1>7. \A q \in Ps : /\ runFn'[q] = IF q = p[m] \/ q \in pidle THEN 0 ELSE 1
                    /\ ran'[q] = IF q = p[m] \/ q \in pidle THEN 1 ELSE 0
  BY <1>1, <1>6, Zenon
<1>8. \A q \in Ps : runFn'[q] = 1 <=> q # p[m] /\ q \notin pidle
  BY <1>7
<1>9. \A q : q \in Flagged' <=> q \in (Ps \ {p[m]}) \ pidle
  BY <1>8, Zenon DEF Flagged
<1>10. Flagged' = (Ps \ {p[m]}) \ pidle
  BY <1>9, SameSet, Zenon
<1>11. \A n : n \in Deciding' <=> n \in {}
  BY <1>1, <1>3, Zenon DEF Deciding, MTypes, Consts
<1>12. Deciding' = {}
  BY <1>11, SameSet, Zenon
<1>13. Cardinality(Deciding') = 0 /\ Cardinality(Flagged') \in Nat
  BY <1>10, <1>12, Zenon DEF Counting, CountedSets
<1>14. Cardinality(Flagged') = Cardinality(Ps \ {p[m]}) - Cardinality(pidle)
  <2>1. Ps \ {p[m]} \in SUBSET Ps /\ pidle \in SUBSET (Ps \ {p[m]})
    BY <1>5, Zenon DEF PTypes
  <2> QED
    BY <1>10, <2>1, Zenon DEF Counting, CountedSets
<1>15. Cardinality(Ps \ {p[m]}) = NP - 1
  BY <1>4, Zenon DEF Counting, CountedSets
<1>16. /\ spWait' = Cardinality(Flagged') + Cardinality(Deciding') /\ spWait' \in Nat
  BY <1>1, <1>13, <1>14, <1>15
<1>17. \A q \in Ps : ran'[q] + runFn'[q] = 1
  BY <1>7
<1>18. pc'[m] = "each" /\ ret'[m] = IF spWait' > 0 THEN "eachWait" ELSE "eachDone"
  BY <1>1, Zenon DEF MTypes, Consts
<1>19. spWait' # 0 => Awaiting(m)'
  <2>1. spWait' # 0 => spWait' > 0
    BY <1>16
  <2> QED
    BY <1>18, <2>1, Zenon DEF Awaiting
<1>20. spNote' = 0
  BY <1>1, <1>2, Zenon
<1> QED
  BY <1>1, <1>16, <1>17, <1>19, <1>20, Zenon DEF EachCounted

\* goes on once it has been woken up, when nothing is left to wait for,
LEMMA EachCountedWait ==
  ASSUME Counting, Consts, MTypes, CountTypes, Control, EachCounted, NEW m \in Ms, EachWait(m)
  PROVE  EachCounted'
<1>1. /\ pc[m] = "eachWait" /\ spNote > 0 /\ spNote' = 0 /\ pc' = [pc EXCEPT ![m] = "eachDone"]
      /\ UNCHANGED <<runFn, spWait, ran, worldsema>>
  BY Zenon DEF EachWait
<1>2. worldsema = m /\ spNote # 0
  <2>1. worldsema = m
    BY <1>1, Zenon DEF Control, Locks, Eaching
  <2>2. spNote # 0
    BY <1>1 DEF CountTypes
  <2> QED
    BY <2>1, <2>2, Zenon
<1>3. spWait' = 0
  BY <1>1, <1>2, Zenon DEF EachCounted
<1>4. \A n : n \in Deciding' <=> n \in Deciding
  BY <1>1, Zenon DEF Deciding, MTypes, Consts
<1>5. Deciding' = Deciding /\ Flagged' = Flagged
  BY <1>1, <1>4, SameSet, Zenon DEF Flagged
<1>6. spWait' = Cardinality(Flagged') + Cardinality(Deciding')
  BY <1>1, <1>5, Zenon DEF EachCounted
<1>7. \A q \in Ps : ran'[q] + runFn'[q] = 1
  BY <1>1, <1>2, Zenon DEF EachCounted, Eaching
<1> QED
  BY <1>1, <1>3, <1>6, <1>7, Zenon DEF EachCounted

\* runSafePointFn runs the function if the flag is set,
LEMMA EachCountedSafePoint ==
  ASSUME Counting, Consts, MTypes, PTypes, CountTypes, Control, POwned, EachCounted,
         NEW m \in Ms, SafePoint(m), Control'
  PROVE  EachCounted'
<1>1. pc[m] = "safePoint" /\ UNCHANGED <<spWait, spNote, worldsema, ret>>
  BY Zenon DEF SafePoint
<1>2. worldsema # m /\ p[m] \in Ps /\ m \in Actors
  <2>1. p[m] # None
    BY <1>1, Zenon DEF Control, Holds, WithP
  <2> QED
    BY <1>1, <2>1, Zenon DEF Consts, Control, Locks, Stopping, Eaching, PTypes
<1>3. \A n \in Ms : n # m => pc'[n] = pc[n]
  BY Zenon DEF SafePoint, MTypes, Consts
<1>4. worldsema \in Ms => pc'[worldsema] = pc[worldsema] /\ ret'[worldsema] = ret[worldsema]
  BY <1>1, <1>2, <1>3, Zenon
<1>5. worldsema \in Ms /\ Awaiting(worldsema) => Awaiting(worldsema)'
  BY <1>1, <1>4, Zenon DEF Awaiting
<1>6. CASE TakesFn(p[m])
  <2>1. Taken(p[m]) /\ pc'[m] = "safePointDec"
    BY <1>2, <1>6, Zenon DEF SafePoint, TakesFn, Taken, MTypes
  <2>2. /\ spWait # 0 /\ Flags' = Flags - 1
        /\ \A r \in Ps : ran[r] + runFn[r] = 1 => ran'[r] + runFn'[r] = 1
    BY <2>1, TakenFacts, Zenon
  <2>3. \A n : n \in Deciding' <=> n \in Deciding \cup {m}
    BY <1>3, <2>1, Zenon DEF Deciding
  <2>4. Deciding' = Deciding \cup {m}
    BY <2>3, SameSet, Zenon
  <2>5. m \notin Deciding
    BY <1>1, Zenon DEF Deciding
  <2>6. Decs' = Decs + 1
    BY <2>4, <2>5, EachNat, Zenon DEF Counting, CountedSets, Decs
  <2>7. spWait' = Flags' + Decs'
    <3>1. Flags \in Nat /\ Decs \in Nat /\ spWait = Flags + Decs
      BY EachNat, Zenon
    <3> QED
      BY <1>1, <2>2, <2>6, <3>1
  <2>8. Awaiting(worldsema)' /\ (spNote' # 0 => spWait' = 0)
    BY <1>1, <1>5, <2>2, Zenon DEF EachCounted
  <2> QED
    BY <1>1, <2>2, <2>7, <2>8, EachOf, Zenon
<1>7. CASE ~TakesFn(p[m])
  <2>1. UNCHANGED <<runFn, ran>> /\ pc'[m] = ret[m]
    BY <1>2, <1>7, Zenon DEF SafePoint, MTypes
  <2>2. \A n \in Ms : pc'[n] = "safePointDec" <=> pc[n] = "safePointDec"
    BY <1>1, <1>3, <2>1, Zenon DEF Control, Returns
  <2>3. \A n \in Ms : worldsema' = n /\ pc'[n] \in Eaching \cup Handing =>
          worldsema = n /\ pc[n] \in Eaching \cup Handing
    BY <1>1, <1>4, Zenon
  <2> QED
    BY <1>1, <1>5, <2>1, <2>2, <2>3, EachKept, Zenon
<1> QED
  BY <1>6, <1>7, Zenon

\* and says so.
LEMMA EachCountedDec ==
  ASSUME Counting, Consts, MTypes, CountTypes, Control, EachCounted,
         NEW m \in Ms, SafePointDec(m), Control'
  PROVE  EachCounted'
<1>1. /\ pc[m] = "safePointDec" /\ SafePointOne /\ UNCHANGED <<runFn, ran, worldsema, ret>>
      /\ pc' = [pc EXCEPT ![m] = ret[m]]
  BY Zenon DEF SafePointDec
<1>2. worldsema # m /\ m \in Deciding /\ ret[m] \in {"sched", "enter"}
  BY <1>1, Zenon DEF Deciding, Control, Returns, Locks, Stopping, Eaching
<1>3. \A n \in Ms : n # m => pc'[n] = pc[n]
  BY <1>1, Zenon DEF MTypes, Consts
<1>4. pc'[m] # "safePointDec"
  BY <1>1, <1>2, Zenon DEF MTypes, Consts
<1>5. \A n : n \in Deciding' <=> n \in Deciding \ {m}
  BY <1>3, <1>4, Zenon DEF Deciding
<1>6. Deciding' = Deciding \ {m} /\ Flagged' = Flagged
  BY <1>1, <1>5, SameSet, Zenon DEF Flagged
<1>7. Decs' = Decs - 1 /\ Flags' = Flags
  BY <1>2, <1>6, EachNat, Zenon DEF Counting, CountedSets, Decs, Flags
<1>8. Flags \in Nat /\ Decs \in Nat /\ spWait = Flags + Decs /\ spWait # 0 /\ spWait \in Nat
  BY <1>2, EachNat, Zenon
<1>9. worldsema \in Ms /\ spNote = 0 /\ Awaiting(worldsema)
  BY <1>8, CallerWaits, Zenon DEF EachCounted
<1>10. Awaiting(worldsema)'
  BY <1>1, <1>2, <1>3, <1>9, Zenon DEF Awaiting
<1>11. spWait' = Flags' + Decs'
  BY <1>1, <1>7, <1>8 DEF SafePointOne
<1>12. spNote' # 0 => spWait' = 0
  <2>1. spNote' # 0 => spWait = 1
    BY <1>1, <1>9, Zenon DEF SafePointOne
  <2> QED
    BY <1>1, <2>1 DEF SafePointOne
<1> QED
  BY <1>1, <1>8, <1>10, <1>11, <1>12, EachOf, Zenon

\* The other steps of an M touch neither flags nor counters.
LEMMA EachCountedOthers ==
  ASSUME Counting, Consts, MTypes, PTypes, Control, POwned, StopCounted, EachCounted,
         NEW m \in Ms, Control',
         \/ Stop(m) \/ StopSyscall(m) \/ StopIdle(m) \/ StopWait(m) \/ Start(m)
         \/ StartWake(m) \/ EachSyscall(m) \/ EachLoopEnd(m) \/ EachDone(m) \/ Wake(m)
         \/ Yield(m) \/ Schedule(m) \/ GcStopM(m) \/ Release(m) \/ StopM(m)
         \/ EnterSyscall(m) \/ EnterSyscallStatus(m) \/ EnterSyscallLoad(m) \/ GcWait(m)
         \/ EnterSyscallBlock(m) \/ ExitSyscall(m) \/ ExitSyscall0(m)
  PROVE  EachCounted'
<1>1. UNCHANGED <<runFn, spWait, spNote, ran>> /\ pc[m] # "safePointDec"
  BY Zenon DEF Stop, StopSyscall, StopIdle, StopWait, Start, StartWake, EachSyscall,
     EachLoopEnd, EachDone, Wake, Yield, Schedule, GcStopM, Release, StopM, EnterSyscall,
     EnterSyscallStatus, EnterSyscallLoad, GcWait, EnterSyscallBlock, ExitSyscall, ExitSyscall0
<1>2. \A n \in Ms : n # m => \/ pc'[n] = pc[n] /\ ret'[n] = ret[n]
                             \/ pc[n] = "parked" /\ pc'[n] = "sched"
  <2>1. CASE Wake(m) \/ StartWake(m)
    <3>0. ret' = ret
      BY <2>1, Zenon DEF Wake, StartWake
    <3>1. CASE StartM(m, "go")
      <4>1. PICK n \in midle : pc' = [pc EXCEPT ![m] = "go", ![n] = "sched"]
        BY <3>1, Zenon DEF StartM
      <4>2. n \in Ms /\ pc[n] = "parked"
        BY Zenon DEF MTypes, Control
      <4> QED
        BY <3>0, <4>1, <4>2, Zenon DEF MTypes, Consts
    <3> QED
      BY <2>1, <3>0, <3>1, Zenon DEF Wake, StartWake, MTypes, Consts
  <2>2. CASE Start(m)
    <3>1. PICK W : StartEffect(m, W)
      BY <2>2, StartFacts, Zenon
    <3>2. ret' = ret
      BY <2>2, Zenon DEF Start
    <3> QED
      BY <3>1, <3>2, Zenon DEF StartEffect
  <2>3. CASE ~ Wake(m) /\ ~ StartWake(m) /\ ~Start(m)
    <3>1. \A b \in Actors : b # m => Apart(b)
      BY <2>3, Alone, Zenon DEF User, Step
    <3> QED
      BY <3>1, Zenon DEF Apart, Consts
  <2> QED
    BY <2>1, <2>2, <2>3, Zenon
<1>3. pc'[m] # "safePointDec"
  <2>1. CASE Stop(m) \/ StopSyscall(m) \/ StopIdle(m) \/ StopWait(m) \/ EachSyscall(m)
             \/ EachDone(m) \/ Yield(m) \/ Schedule(m) \/ GcStopM(m) \/ Release(m) \/ StopM(m)
             \/ EnterSyscall(m) \/ EnterSyscallStatus(m) \/ EnterSyscallLoad(m) \/ GcWait(m)
             \/ EnterSyscallBlock(m) \/ ExitSyscall(m) \/ ExitSyscall0(m)
    BY <1>1, <2>1, Zenon DEF Stop, StopSyscall, StopIdle, StopWait, EachSyscall, EachDone,
       Yield, Schedule, GcStopM, Release, StopM, EnterSyscall, EnterSyscallStatus,
       EnterSyscallLoad, GcWait, EnterSyscallBlock, ExitSyscall, ExitSyscall0, MTypes, Consts
  <2>2. CASE EachLoopEnd(m)
    BY <2>2, Zenon DEF EachLoopEnd, Control, Returns, MTypes, Consts
  <2>3. CASE Wake(m) \/ StartWake(m)
    <3>1. \A n \in midle : n # m
      BY <2>3, Zenon DEF Wake, StartWake, Control
    <3> QED
      BY <2>3, <3>1, Zenon DEF Wake, StartWake, StartM, MTypes, Consts
  <2>4. CASE Start(m)
    BY <2>4, StartFacts, Zenon DEF StartEffect
  <2> QED
    BY <2>1, <2>2, <2>3, <2>4, Zenon
<1>4. \A n \in Ms : pc'[n] = "safePointDec" <=> pc[n] = "safePointDec"
  BY <1>1, <1>2, <1>3, Zenon
<1>5. \A n \in Ms : worldsema' = n /\ n # m => worldsema = n
  <2>1. worldsema' \in {worldsema, m, None}
    BY Zenon DEF Stop, StopSyscall, StopIdle, StopWait, Start, StartWake, EachSyscall,
       EachLoopEnd, EachDone, Wake, Yield, Schedule, GcStopM, Release, StopM, EnterSyscall,
       EnterSyscallStatus, EnterSyscallLoad, GcWait, EnterSyscallBlock, ExitSyscall, ExitSyscall0
  <2> QED
    BY <2>1, Zenon DEF Consts
<1>6. CASE worldsema # m
  <2>1. \A n \in Ms : worldsema = n => worldsema' = n /\ pc'[n] = pc[n] /\ ret'[n] = ret[n]
    <3>1. worldsema \in Ms => worldsema' = worldsema
      BY <1>6, Zenon DEF Stop, StopSyscall, StopIdle, StopWait, Start, StartWake,
         EachSyscall,
         EachLoopEnd, EachDone, Wake, Yield, Schedule, GcStopM, Release, StopM, EnterSyscall,
         EnterSyscallStatus, EnterSyscallLoad, GcWait, EnterSyscallBlock, ExitSyscall,
         ExitSyscall0, Consts, Control, Locks, Stopping, Eaching
    <3>2. \A n \in Ms : worldsema = n => pc[n] # "parked"
      BY Zenon DEF Control, Locks, Stopping, Eaching
    <3> QED
      BY <1>2, <1>6, <3>1, <3>2, Zenon
  <2>2. worldsema \in Ms /\ Awaiting(worldsema) => worldsema' = worldsema /\ Awaiting(worldsema)'
    BY <2>1, Zenon DEF Awaiting
  <2>3. worldsema' = m => pc'[m] = "stopSyscall"
    BY <1>6, Zenon DEF Stop, StopSyscall, StopIdle, StopWait, Start, StartWake, EachSyscall,
       EachLoopEnd, EachDone, Wake, Yield, Schedule, GcStopM, Release, StopM, EnterSyscall,
       EnterSyscallStatus, EnterSyscallLoad, GcWait, EnterSyscallBlock, ExitSyscall,
       ExitSyscall0, MTypes, Consts
  <2>4. \A n \in Ms : worldsema' = n /\ pc'[n] \in Eaching \cup Handing =>
          worldsema = n /\ pc[n] \in Eaching \cup Handing
    BY <1>5, <2>1, <2>3, Zenon DEF Eaching
  <2> QED
    BY <1>1, <1>4, <2>2, <2>4, EachKept, Zenon
<1>7. CASE worldsema = m
  <2>1. pc[m] \in Stopping \cup {"startWake", "each", "eachDone"}
    BY <1>7, Zenon DEF Stop, StopSyscall, StopIdle, StopWait, Start, StartWake, EachSyscall,
       EachLoopEnd, EachDone, Wake, Yield, Schedule, GcStopM, Release, StopM, EnterSyscall,
       EnterSyscallStatus, EnterSyscallLoad, GcWait, EnterSyscallBlock, ExitSyscall,
       ExitSyscall0, Control, Locks, Stopping, Eaching
  <2>2. CASE pc[m] = "each"
    <3>1. EachSyscall(m) \/ EachLoopEnd(m)
      BY <2>2, Zenon DEF Stop, StopSyscall, StopIdle, StopWait, Start, StartWake,
         EachDone, Wake, Yield, Schedule, GcStopM, Release, StopM, EnterSyscall,
         EnterSyscallStatus, EnterSyscallLoad, GcWait, EnterSyscallBlock, ExitSyscall, ExitSyscall0
    <3>2. worldsema' = worldsema /\ ret' = ret
      BY <3>1, Zenon DEF EachSyscall, EachLoopEnd
    <3>3. /\ pc'[m] \in {"each", "handoff", "eachWait", "eachDone"}
          /\ pc'[m] \in {"eachWait", "eachDone"} => pc'[m] = ret[m]
      <4>1. ret[m] \in {"eachWait", "eachDone"}
        BY <2>2, Zenon DEF Control, Returns
      <4>2. pc'[m] \in {"each", "handoff", ret[m]}
        BY <2>2, <3>1, Zenon DEF EachSyscall, EachLoopEnd, MTypes, Consts
      <4> QED
        BY <4>1, <4>2, Zenon
    <3>4. Awaiting(m) => Awaiting(m)'
      BY <2>2, <3>2, <3>3, Zenon DEF Awaiting
    <3>5. worldsema \in Ms /\ Awaiting(worldsema) => worldsema' = worldsema /\ Awaiting(worldsema)'
      <4>1. Awaiting(worldsema)' <=> Awaiting(m)'
        BY <1>7, <3>2, Zenon DEF Awaiting
      <4> QED
        BY <1>7, <3>2, <3>4, <4>1, Zenon
    <3>6. \A n \in Ms : worldsema' = n /\ pc'[n] \in Eaching \cup Handing =>
            worldsema = n /\ pc[n] \in Eaching \cup Handing
      BY <1>7, <2>2, <3>2, Zenon DEF Eaching
    <3> QED
      BY <1>1, <1>4, <3>5, <3>6, EachKept, Zenon
  <2>3. CASE pc[m] = "eachDone"
    <3>1. EachDone(m)
      BY <2>3, Zenon DEF Stop, StopSyscall, StopIdle, StopWait, Start, StartWake,
         EachSyscall,
         EachLoopEnd, Wake, Yield, Schedule, GcStopM, Release, StopM, EnterSyscall,
         EnterSyscallStatus, EnterSyscallLoad, GcWait, EnterSyscallBlock, ExitSyscall, ExitSyscall0
    <3>2. worldsema' = None /\ ~Awaiting(worldsema)
      BY <1>7, <2>3, <3>1, Zenon DEF EachDone, Awaiting
    <3> QED
      BY <1>1, <1>4, <3>2, EachKept, Zenon DEF Consts
  <2>4. CASE pc[m] \in Stopping \cup {"startWake"}
    <3>1. ~Awaiting(worldsema)
      BY <1>7, <2>4, Zenon DEF Stopping, Awaiting
    <3>2. pc'[m] \notin Eaching \cup Handing
      <4>1. StopSyscall(m) \/ StopIdle(m) \/ StopWait(m) \/ Start(m) \/ StartWake(m)
        BY <2>4, Zenon DEF Stop, EachSyscall, EachLoopEnd, EachDone, Wake, Yield, Schedule,
           GcStopM, Release, StopM, EnterSyscall, EnterSyscallStatus, EnterSyscallLoad, GcWait,
           EnterSyscallBlock, ExitSyscall, ExitSyscall0, Stopping
      <4>2. CASE StopSyscall(m) \/ StopIdle(m) \/ StopWait(m)
        BY <2>4, <4>2, Zenon DEF StopSyscall, StopIdle, StopWait, MTypes, Consts, Eaching
      <4>3. CASE Start(m)
        BY <4>3, StartFacts, Zenon DEF StartEffect, Eaching
      <4>4. CASE StartWake(m)
        <5>1. \A n \in midle : n # m
          BY <4>4, Zenon DEF StartWake, Control
        <5>2. pc'[m] = "go"
          BY <4>4, <5>1, Zenon DEF StartWake, StartM, MTypes, Consts
        <5> QED
          BY <5>2, Zenon DEF Eaching
      <4> QED
        BY <4>1, <4>2, <4>3, <4>4, Zenon
    <3>3. \A n \in Ms : worldsema' = n /\ pc'[n] \in Eaching \cup Handing =>
            worldsema = n /\ pc[n] \in Eaching \cup Handing
      BY <1>5, <1>7, <3>2, Zenon
    <3> QED
      BY <1>1, <1>4, <3>1, <3>3, EachKept, Zenon
  <2> QED
    BY <2>1, <2>2, <2>3, <2>4, Zenon
<1> QED
  BY <1>6, <1>7, Zenon

\* The function is run, or not, for a P without an M.
LEMMA EachFor ==
  ASSUME Counting, CountTypes, Control, EachCounted, Control', NEW q \in Ps, SafePointFor(q),
         worldsema' = worldsema,
         \A n \in Ms : pc'[n] = "safePointDec" <=> pc[n] = "safePointDec",
         worldsema \in Ms /\ Awaiting(worldsema) => Awaiting(worldsema)',
         \A n \in Ms : worldsema' = n /\ pc'[n] \in Eaching \cup Handing =>
           worldsema = n /\ pc[n] \in Eaching \cup Handing
  PROVE  EachCounted'
<1>1. CASE ~TakesFn(q)
  BY <1>1, EachKept, Zenon DEF SafePointFor
<1>2. CASE TakesFn(q)
  <2>1. Taken(q) /\ SafePointOne
    BY <1>2, Zenon DEF SafePointFor, Taken, TakesFn
  <2>2. /\ spWait # 0 /\ Flags' = Flags - 1
        /\ \A r \in Ps : ran[r] + runFn[r] = 1 => ran'[r] + runFn'[r] = 1
    BY <2>1, TakenFacts, Zenon
  <2>3. \A n : n \in Deciding' <=> n \in Deciding
    BY Zenon DEF Deciding
  <2>4. Deciding' = Deciding
    BY <2>3, SameSet, Zenon
  <2>5. Decs' = Decs
    BY <2>4, Zenon DEF Decs
  <2>6. Flags \in Nat /\ Decs \in Nat /\ spWait = Flags + Decs
    BY EachNat, Zenon
  <2>7. spWait' = Flags' + Decs'
    BY <2>1, <2>2, <2>5, <2>6 DEF SafePointOne
  <2>8. worldsema \in Ms /\ Awaiting(worldsema) /\ spNote = 0
    BY <2>2, CallerWaits, Zenon DEF EachCounted
  <2>9. spNote' # 0 => spWait' = 0
    <3>1. spNote' # 0 => spWait = 1
      BY <2>1, <2>8, Zenon DEF SafePointOne
    <3> QED
      BY <2>1, <3>1 DEF SafePointOne
  <2> QED
    BY <2>2, <2>7, <2>8, <2>9, EachOf, Zenon
<1> QED
  BY <1>1, <1>2, Zenon

\* handoffp runs the function for a P that goes idle.
LEMMA EachCountedHandoff ==
  ASSUME Counting, Consts, MTypes, PTypes, CountTypes, Control, POwned, EachCounted,
         NEW a \in Actors, GivesP(a), Control'
  PROVE  EachCounted'
<1>1. pc[a] \in Handing /\ UNCHANGED <<worldsema, ret>>
  BY Zenon DEF GivesP, HandoffStart, HandoffIdle
<1>2. argp[a] \in Ps
  <2>1. argp[a] # None
    BY <1>1, Zenon DEF Control
  <2> QED
    BY <2>1, Zenon DEF PTypes
<1>3. /\ pc'[a] = HandoffRet(a)
      /\ \A n \in Ms : n # a => pc'[n] = pc[n] \/ (pc[n] = "parked" /\ pc'[n] = "sched")
  <2>1. CASE HandoffStart(a)
    <3>1. PICK n \in midle : pc' = [pc EXCEPT ![a] = HandoffRet(a), ![n] = "sched"]
      BY <2>1, Zenon DEF HandoffStart
    <3>2. n \in Ms /\ pc[n] = "parked"
      BY Zenon DEF MTypes, Control
    <3>3. n # a /\ n \in Actors
      BY <1>1, <3>2, Zenon DEF Consts
    <3> QED
      BY <3>1, <3>2, <3>3, Zenon DEF MTypes, Consts
  <2>2. CASE HandoffIdle(a)
    BY <2>2, Zenon DEF HandoffIdle, MTypes, Consts
  <2> QED
    BY <2>1, <2>2, Zenon DEF GivesP
<1>4. a \in Ms => /\ worldsema = a => pc'[a] = "each"
                  /\ worldsema # a => pc'[a] = "syscall"
  BY <1>1, <1>3, Zenon DEF HandoffRet, Control, Returns
<1>5. \A n \in Ms : pc'[n] = "safePointDec" <=> pc[n] = "safePointDec"
  BY <1>1, <1>3, <1>4, Zenon
<1>6. worldsema \in Ms /\ Awaiting(worldsema) => Awaiting(worldsema)'
  <2>1. CASE worldsema = a /\ a \in Ms
    BY <1>1, <1>4, <2>1, Zenon DEF Awaiting
  <2>2. CASE worldsema # a /\ worldsema \in Ms
    <3>1. pc'[worldsema] = pc[worldsema]
      BY <1>3, <2>2, Zenon DEF Control, Locks, Stopping, Eaching
    <3> QED
      BY <1>1, <3>1, Zenon DEF Awaiting
  <2> QED
    BY <2>1, <2>2, Zenon
<1>7. \A n \in Ms : worldsema' = n /\ pc'[n] \in Eaching \cup Handing =>
        worldsema = n /\ pc[n] \in Eaching \cup Handing
  <2>1. \A n \in Ms : worldsema = n => pc[n] # "parked"
    BY Zenon DEF Control, Locks, Stopping, Eaching
  <2> QED
    BY <1>1, <1>3, <2>1, Zenon
<1>8. CASE UNCHANGED <<runFn, spWait, spNote, ran>>
  BY <1>1, <1>5, <1>6, <1>7, <1>8, EachKept, Zenon
<1>9. CASE SafePointFor(argp[a])
  BY <1>1, <1>2, <1>5, <1>6, <1>7, <1>9, EachFor, Zenon
<1> QED
  BY <1>8, <1>9, Zenon DEF GivesP, HandoffStart, HandoffIdle

\* On the way to startm nothing changes but what the function does.
LEMMA WorkKeeps ==
  ASSUME Counting, Consts, MTypes, PTypes, CountTypes, Control, POwned, StopCounted,
         EachCounted, NEW a \in Actors, HandoffWork(a), Control'
  PROVE  POwned' /\ StopCounted' /\ EachCounted'
<1>1. /\ pc[a] = "handoff" /\ pc' = [pc EXCEPT ![a] = "startm"] /\ SafePointFor(argp[a])
      /\ UNCHANGED <<status, pidle, gcwaiting, stopwait, stopnote, worldsema, p, argp, ret>>
  BY Zenon DEF HandoffWork
<1>2. argp[a] \in Ps
  <2>1. argp[a] # None
    BY <1>1, Zenon DEF Control
  <2> QED
    BY <2>1, Zenon DEF PTypes
<1>3. pc'[a] = "startm" /\ \A b \in Actors : b # a => pc'[b] = pc[b]
  BY <1>1, Zenon DEF MTypes
<1>4. \A n \in Ms : /\ pc'[n] \in Stopping <=> pc[n] \in Stopping
                    /\ pc'[n] = "safePointDec" <=> pc[n] = "safePointDec"
                    /\ pc'[n] \in Eaching \cup Handing <=> pc[n] \in Eaching \cup Handing
  BY <1>1, <1>3, Zenon DEF Consts, Stopping, Eaching
<1>5. POwned'
  BY <1>1, <1>4, PKept, Zenon
<1>6. gcwaiting => pc'[worldsema] = pc[worldsema]
  BY <1>1, <1>3, Zenon DEF Consts, Control, Stopping
<1>7. StopCounted'
  BY <1>1, <1>6, StopKept, Zenon
<1>8. worldsema \in Ms /\ Awaiting(worldsema) => Awaiting(worldsema)'
  BY <1>1, <1>3, Zenon DEF Consts, Awaiting
<1>9. EachCounted'
  BY <1>1, <1>2, <1>4, <1>8, EachFor, Zenon
<1> QED
  BY <1>5, <1>7, <1>9, Zenon

\* sysmon's retake leaves it all as it is.
LEMMA EachCountedRetake ==
  ASSUME Consts, MTypes, EachCounted, Retake
  PROVE  EachCounted'
<1>1. UNCHANGED <<runFn, spWait, spNote, ran, worldsema>>
  BY Zenon DEF Retake
<1>2. \A n \in Ms : pc'[n] = pc[n] /\ ret'[n] = ret[n]
  BY Zenon DEF Retake, MTypes, Consts
<1>3. worldsema \in Ms /\ Awaiting(worldsema) => Awaiting(worldsema)'
  BY <1>1, <1>2, Zenon DEF Awaiting
<1> QED
  BY <1>1, <1>2, <1>3, EachKept, Zenon

-----------------------------------------------------------------------------
(* The inductive invariant *)

\* The steps of the Ms keep what is counted and who owns the Ps,
LEMMA CountsM ==
  ASSUME Counting, Consts, MTypes, PTypes, CountTypes, Control, POwned, StopCounted,
         EachCounted, NEW m \in Ms, User(m) \/ Step(m) \/ ExitSyscall(m), Control'
  PROVE  POwned' /\ StopCounted' /\ EachCounted'
<1>1. POwned'
  BY PMoves, POwnedM, POwnedWake, POwnedStart, Zenon DEF User, Step
<1>2. StopCounted'
  BY StopCountedStop, StopCountedSyscall, StopCountedIdle, StopCountedWait,
     StopCountedStart,
     StopCountedOthers, StopCountedGive, Zenon DEF User, Step
<1>3. EachCounted'
  BY EachCountedEach, EachCountedWait, EachCountedSafePoint, EachCountedDec,
     EachCountedOthers, Zenon DEF User, Step
<1> QED
  BY <1>1, <1>2, <1>3, Zenon

\* and so does every step.
LEMMA CountsStep ==
  ASSUME Counting, Consts, MTypes, PTypes, CountTypes, Control, POwned, StopCounted,
         EachCounted, Next
  PROVE  Control' /\ POwned' /\ StopCounted' /\ EachCounted'
<1>1. Control'
  BY ControlStep, Zenon
<1>2. CASE \E m \in Ms : User(m) \/ Step(m) \/ ExitSyscall(m)
  BY <1>1, <1>2, CountsM, Zenon
<1>3. CASE \E a \in Actors : Handoff(a)
  <2>1. CASE \E a \in Actors : GivesP(a)
    BY <1>1, <2>1, POwnedHandoff, StopCountedHandoff, EachCountedHandoff, Zenon
  <2>2. CASE \E a \in Actors : HandoffWork(a)
    BY <1>1, <2>2, WorkKeeps, Zenon
  <2> QED
    BY <1>3, <2>1, <2>2, Zenon DEF Handoff, GivesP
<1>4. CASE Retake
  BY <1>1, <1>4, POwnedRetake, StopCountedRetake, EachCountedRetake, Zenon
<1> QED
  BY <1>2, <1>3, <1>4, Zenon DEF Next

-----------------------------------------------------------------------------
(* Types *)

\* No step of an M leaves the types of the threads.
LEMMA MTypesM ==
  ASSUME Consts, MTypes, PTypes, CountTypes, Control, NEW m \in Ms,
         User(m) \/ Step(m) \/ ExitSyscall(m)
  PROVE  MTypes'
<1> USE DEF Consts, MTypes, Labels
<1>1. CASE Stop(m)
  BY <1>1 DEF Stop
<1>2. CASE StopSyscall(m)
  BY <1>2 DEF StopSyscall
<1>3. CASE StopIdle(m)
  BY <1>3 DEF StopIdle
<1>4. CASE StopWait(m)
  BY <1>4 DEF StopWait
<1>5. CASE Each(m)
  BY <1>5 DEF Each
<1>6. CASE EachSyscall(m)
  BY <1>6 DEF EachSyscall
<1>7. CASE EachLoopEnd(m)
  BY <1>7 DEF EachLoopEnd
<1>8. CASE EachWait(m)
  BY <1>8 DEF EachWait
<1>9. CASE EachDone(m)
  BY <1>9 DEF EachDone
<1>10. CASE SafePoint(m)
  BY <1>10 DEF SafePoint, TakesFn
<1>11. CASE SafePointDec(m)
  BY <1>11 DEF SafePointDec, SafePointOne
<1>12. CASE Wake(m)
  BY <1>12 DEF Wake, StartM
<1>13. CASE StartWake(m)
  BY <1>13 DEF StartWake, StartM
<1>14. CASE Start(m)
  <2>1. \A b \in Actors : pc'[b] \in Labels
    BY <1>14, Zenon DEF Start
  <2>2. pc' \in [Actors -> Labels]
    BY <1>14, <2>1, Zenon DEF Start
  <2>3. midle' \subseteq midle
    BY <1>14, Zenon DEF Start
  <2> QED
    BY <1>14, <2>2, <2>3, Zenon DEF Start
<1>15. CASE Yield(m)
  BY <1>15 DEF Yield
<1>16. CASE Schedule(m)
  BY <1>16 DEF Schedule
<1>17. CASE GcStopM(m)
  BY <1>17 DEF GcStopM, StopOne
<1>18. CASE Release(m)
  BY <1>18 DEF Release, MustStop
<1>19. CASE StopM(m)
  BY <1>19 DEF StopM
<1>20. CASE EnterSyscall(m)
  BY <1>20 DEF EnterSyscall
<1>21. CASE EnterSyscallStatus(m)
  BY <1>21 DEF EnterSyscallStatus
<1>22. CASE EnterSyscallLoad(m)
  BY <1>22 DEF EnterSyscallLoad, SeesGcWaiting
<1>23. CASE GcWait(m)
  BY <1>23 DEF GcWait, StillMine, StopOne
<1>24. CASE EnterSyscallBlock(m)
  BY <1>24 DEF EnterSyscallBlock
<1>25. CASE ExitSyscall(m)
  BY <1>25 DEF ExitSyscall, CanReacquire
<1>26. CASE ExitSyscall0(m)
  BY <1>26 DEF ExitSyscall0
<1> QED
  BY <1>1, <1>2, <1>3, <1>4, <1>5, <1>6, <1>7, <1>8, <1>9, <1>10, <1>11, <1>12, <1>13,
        <1>14, <1>15, <1>16, <1>17, <1>18, <1>19, <1>20, <1>21, <1>22, <1>23, <1>24, <1>25,
        <1>26, Zenon DEF User, Step

\* Nor does handoffp or sysmon's retake.
LEMMA MTypesHand ==
  ASSUME Consts, MTypes, PTypes, CountTypes, Control, NEW a \in Actors, Handoff(a) \/ Retake
  PROVE  MTypes'
<1> USE DEF Consts, MTypes, Labels
<1>1. CASE HandoffStart(a)
  BY <1>1 DEF HandoffStart, HandoffRet
<1>2. CASE HandoffIdle(a)
  BY <1>2 DEF HandoffIdle, HandoffRet, StopOne, SafePointFor, SafePointOne, TakesFn
<1>3. CASE Retake
  BY <1>3 DEF Retake
<1>4. CASE HandoffWork(a)
  BY <1>4 DEF HandoffWork
<1> QED
  BY <1>1, <1>2, <1>3, <1>4, Zenon DEF Handoff

\* No step of an M leaves the types of the Ps.
LEMMA PTypesM ==
  ASSUME Consts, MTypes, PTypes, CountTypes, Control, NEW m \in Ms,
         User(m) \/ Step(m) \/ ExitSyscall(m)
  PROVE  PTypes'
<1> USE DEF Consts, MTypes, PTypes
<1>1. CASE StopWait(m) \/ Each(m) \/ EachLoopEnd(m) \/ EachWait(m) \/ EachDone(m)
           \/ SafePoint(m) \/ SafePointDec(m) \/ Yield(m) \/ Schedule(m) \/ StopM(m)
           \/ EnterSyscall(m) \/ EnterSyscallLoad(m)
  BY <1>1, Zenon DEF StopWait, Each, EachLoopEnd, EachWait, EachDone, SafePoint,
        SafePointDec, Yield, Schedule, StopM, EnterSyscall, EnterSyscallLoad
<1>2. CASE Stop(m)
  BY <1>2, Zenon DEF Stop
<1>3. CASE StopSyscall(m)
  BY <1>3 DEF StopSyscall
<1>4. CASE StopIdle(m)
  BY <1>4 DEF StopIdle
<1>5. CASE EachSyscall(m)
  BY <1>5 DEF EachSyscall
<1>6. CASE Wake(m)
  BY <1>6 DEF Wake, StartM
<1>7. CASE StartWake(m)
  BY <1>7 DEF StartWake, StartM
<1>8. CASE Start(m)
  BY <1>8 DEF Start
<1>9. CASE GcStopM(m)
  BY <1>9, Zenon DEF GcStopM, StopOne
<1>10. CASE Release(m)
  <2>1. p[m] # None
    BY <1>10, Zenon DEF Release, Control, Holds, WithP
  <2> QED
    BY <1>10, <2>1 DEF Release
<1>11. CASE EnterSyscallStatus(m)
  BY <1>11, Zenon DEF EnterSyscallStatus
<1>12. CASE GcWait(m)
  BY <1>12 DEF GcWait, StillMine, StopOne
<1>13. CASE EnterSyscallBlock(m)
  BY <1>13, Zenon DEF EnterSyscallBlock
<1>14. CASE ExitSyscall(m)
  BY <1>14 DEF ExitSyscall, CanReacquire
<1>15. CASE ExitSyscall0(m)
  BY <1>15 DEF ExitSyscall0
<1> QED
  BY <1>1, <1>2, <1>3, <1>4, <1>5, <1>6, <1>7, <1>8, <1>9, <1>10, <1>11, <1>12, <1>13,
        <1>14, <1>15, Zenon DEF User, Step

\* Nor does handoffp or sysmon's retake.
LEMMA PTypesHand ==
  ASSUME Consts, MTypes, PTypes, CountTypes, Control, NEW a \in Actors, Handoff(a) \/ Retake
  PROVE  PTypes'
<1> USE DEF Consts, MTypes, PTypes
<1>1. CASE HandoffStart(a)
  <2>1. argp[a] # None
    BY <1>1, Zenon DEF HandoffStart, Control
  <2> QED
    BY <1>1, <2>1 DEF HandoffStart
<1>2. CASE HandoffIdle(a)
  <2>1. argp[a] # None
    BY <1>2, Zenon DEF HandoffIdle, Control
  <2> QED
    BY <1>2, <2>1 DEF HandoffIdle
<1>3. CASE Retake
  BY <1>3 DEF Retake
<1>4. CASE HandoffWork(a)
  BY <1>4 DEF HandoffWork
<1> QED
  BY <1>1, <1>2, <1>3, <1>4, Zenon DEF Handoff

\* No step of an M leaves the types of the counters.
LEMMA CountTypesM ==
  ASSUME Consts, MTypes, PTypes, CountTypes, Control, NEW m \in Ms,
         User(m) \/ Step(m) \/ ExitSyscall(m)
  PROVE  CountTypes'
<1> USE DEF CountTypes
<1>1. CASE Stop(m) \/ StopSyscall(m) \/ StopIdle(m) \/ EachSyscall(m) \/ EachLoopEnd(m)
           \/ EachDone(m) \/ Wake(m) \/ StartWake(m) \/ Start(m) \/ Yield(m) \/ Schedule(m)
           \/ Release(m) \/ StopM(m) \/ EnterSyscall(m) \/ EnterSyscallStatus(m)
           \/ EnterSyscallLoad(m) \/ EnterSyscallBlock(m) \/ ExitSyscall(m) \/ ExitSyscall0(m)
  BY <1>1, Zenon DEF Stop, StopSyscall, StopIdle, EachSyscall, EachLoopEnd, EachDone, Wake,
        StartWake, Start, Yield, Schedule, Release, StopM, EnterSyscall, EnterSyscallStatus,
        EnterSyscallLoad, EnterSyscallBlock, ExitSyscall, ExitSyscall0
<1>2. CASE StopWait(m)
  BY <1>2 DEF StopWait
<1>3. CASE Each(m)
  BY <1>3 DEF Each
<1>4. CASE EachWait(m)
  BY <1>4 DEF EachWait
<1>5. CASE SafePoint(m)
  BY <1>5 DEF SafePoint, TakesFn
<1>6. CASE SafePointDec(m)
  BY <1>6 DEF SafePointDec, SafePointOne
<1>7. CASE GcStopM(m)
  BY <1>7 DEF GcStopM, StopOne
<1>8. CASE GcWait(m)
  BY <1>8 DEF GcWait, StillMine, StopOne
<1> QED
  BY <1>1, <1>2, <1>3, <1>4, <1>5, <1>6, <1>7, <1>8, Zenon DEF User, Step

\* Nor does handoffp or sysmon's retake.
LEMMA CountTypesHand ==
  ASSUME Consts, MTypes, PTypes, CountTypes, Control, NEW a \in Actors, Handoff(a) \/ Retake
  PROVE  CountTypes'
<1> USE DEF CountTypes
<1>1. CASE HandoffStart(a)
  BY <1>1 DEF HandoffStart, HandoffRet
<1>2. CASE HandoffIdle(a)
  BY <1>2 DEF HandoffIdle, HandoffRet, StopOne, SafePointFor, SafePointOne, TakesFn
<1>3. CASE Retake
  BY <1>3 DEF Retake
<1>4. CASE HandoffWork(a)
  BY <1>4 DEF HandoffWork, SafePointFor, SafePointOne, TakesFn
<1> QED
  BY <1>1, <1>2, <1>3, <1>4, Zenon DEF Handoff

-----------------------------------------------------------------------------
(* The theorems *)

\* schedinit leaves the first M on the first P and the others idle.
LEMMA InitIInv ==
  ASSUME Counting, Init
  PROVE  IInv
<1> USE ConstsHold DEF Init, Consts
<1>1. 1 \in Ps
  BY WorldAssumption DEF Ps
<1>2. MTypes
  BY WorldAssumption, Zenon DEF MTypes, Labels
<1>3. PTypes
  BY <1>1, Zenon DEF PTypes
<1>4. CountTypes
  BY DEF CountTypes
<1>5. Control
  <2>1. \A m \in Ms : Returns(m) /\ Holds(m)
    BY <1>1, WorldAssumption, Zenon DEF Returns, Holds, WithP, WithoutP, Stopping, Eaching
  <2>2. \A m \in Ms : Locks(m)
    BY WorldAssumption, Zenon DEF Locks, Stopping, Eaching
  <2>3. /\ \A a \in Actors : argp[a] # None <=> pc[a] \in Handing
        /\ pc[Sysmon] = "sysmon"
        /\ \A m \in Ms : m \in midle <=> pc[m] = "parked"
    BY WorldAssumption, Zenon
  <2> QED
    BY <2>1, <2>2, <2>3, Zenon DEF Control
<1>6. POwned
  BY <1>1, WorldAssumption, Zenon DEF POwned, Stopping
<1>7. StopCounted
  BY WorldAssumption, Zenon DEF StopCounted
<1>8. EachCounted
  <2>1. \A q : q \in Flagged <=> q \in {}
    BY DEF Flagged
  <2>2. \A n : n \in Deciding <=> n \in {}
    BY Zenon DEF Deciding
  <2>3. Flagged = {} /\ Deciding = {}
    BY <2>1, <2>2, SameSet, Zenon
  <2>4. Cardinality({}) = 0
    BY Zenon DEF Counting, CountedSets
  <2>5. spWait = Cardinality(Flagged) + Cardinality(Deciding)
    BY <2>3, <2>4
  <2> QED
    BY <2>5, Zenon DEF EachCounted
<1> QED
  BY <1>2, <1>3, <1>4, <1>5, <1>6, <1>7, <1>8, Zenon DEF IInv

\* Every step preserves the inductive invariant.
LEMMA NextIInv ==
  ASSUME Counting, IInv, [Next]_vars
  PROVE  IInv'
<1>0. /\ Consts /\ MTypes /\ PTypes /\ CountTypes /\ Control /\ POwned /\ StopCounted
      /\ EachCounted
  BY ConstsHold, Zenon DEF IInv
<1>1. CASE Next
  <2>1. Control' /\ POwned' /\ StopCounted' /\ EachCounted'
    BY <1>0, <1>1, CountsStep, Zenon
  <2>2. CASE \E m \in Ms : User(m) \/ Step(m) \/ ExitSyscall(m)
    BY <1>0, <2>1, <2>2, MTypesM, PTypesM, CountTypesM, Zenon DEF IInv
  <2>3. CASE \E a \in Actors : Handoff(a) \/ Retake
    BY <1>0, <2>1, <2>3, MTypesHand, PTypesHand, CountTypesHand, Zenon DEF IInv
  <2>4. Sysmon \in Actors
    BY Zenon DEF Actors
  <2> QED
    BY <1>1, <2>2, <2>3, <2>4, Zenon DEF Next
<1>2. CASE UNCHANGED vars
  <2> USE <1>2 DEF vars
  <2>1. MTypes' /\ PTypes' /\ CountTypes'
    BY <1>0, Zenon DEF MTypes, PTypes, CountTypes
  <2>2. Control'
    BY <1>0, Zenon DEF Control, Returns, Holds, Locks
  <2>3. POwned'
    BY <1>0, PKept, Zenon
  <2>4. StopCounted'
    BY <1>0, <2>2, StopKept, Zenon
  <2>5. EachCounted'
    <3>1. worldsema \in Ms /\ Awaiting(worldsema) => Awaiting(worldsema)'
      BY Zenon DEF Awaiting
    <3> QED
      BY <1>0, <3>1, EachKept, Zenon
  <2> QED
    BY <2>1, <2>2, <2>3, <2>4, <2>5, Zenon DEF IInv
<1> QED
  BY <1>1, <1>2, Zenon

INSTANCE FiniteSetTheorems

\* The subsets of a finite set are counted as usual.
LEMMA FiniteCounted ==
  ASSUME NEW U, IsFiniteSet(U)
  PROVE  CountedSets(U)
<1> SUFFICES ASSUME NEW S \in SUBSET U
             PROVE  /\ Cardinality(S) \in Nat
                    /\ Cardinality(S) = 0 <=> S = {}
                    /\ \A x \in U : x \notin S => Cardinality(S \cup {x}) = Cardinality(S) + 1
                    /\ \A x \in S : Cardinality(S \ {x}) = Cardinality(S) - 1
                    /\ \A T \in SUBSET S : Cardinality(S \ T) = Cardinality(S) - Cardinality(T)
  BY Zenon DEF CountedSets
<1>1. IsFiniteSet(S)
  BY FS_Subset, Zenon
<1>2. /\ Cardinality(S) \in Nat
      /\ Cardinality(S) = 0 <=> S = {}
      /\ \A x \in U : x \notin S => Cardinality(S \cup {x}) = Cardinality(S) + 1
      /\ \A x \in S : Cardinality(S \ {x}) = Cardinality(S) - 1
  BY <1>1, FS_CardinalityType, FS_EmptySet, FS_AddElement, FS_RemoveElement, Zenon
<1>3. ASSUME NEW T \in SUBSET S
      PROVE  Cardinality(S \ T) = Cardinality(S) - Cardinality(T)
  <2>1. S \cap T = T
    OBVIOUS
  <2> QED
    BY <1>1, <2>1, FS_Difference, Zenon
<1> QED
  BY <1>2, <1>3, Zenon

\* So are the sets of Ms, and of the NP Ps.
LEMMA CountingHolds == Counting
<1>1. IsFiniteSet(Ps) /\ Cardinality(Ps) = NP
  BY WorldAssumption, FS_Interval DEF Ps
<1> QED
  BY <1>1, WorldAssumption, FiniteCounted, Zenon DEF Counting

\* The inductive invariant holds in every reachable state.
THEOREM Invariance == Spec => []IInv
<1>1. Init => IInv
  BY InitIInv, CountingHolds, Zenon
<1>2. IInv /\ [Next]_vars => IInv'
  BY NextIInv, CountingHolds, Zenon
<1> QED
  BY <1>1, <1>2, PTL DEF Spec

\* Once stopTheWorld returns nothing runs, for any number of Ms and Ps: every P
\* is stopped, no other M has one, and none is idle or being handed off.
THEOREM StoppedForGood == Spec => []WorldIsStopped
<1>1. IInv => WorldIsStopped
  BY AllStopped, CountingHolds, ConstsHold, Zenon DEF IInv, WorldIsStopped
<1> QED
  BY <1>1, Invariance, PTL

\* When forEachP returns, its function has been run for every P, and only once,
\* whoever ran it: the caller, the M of the P, or a thread that handed it off.
THEOREM RanOnceEach == Spec => []EachRanOnce
<1>1. ASSUME IInv, NEW m \in Ms, pc[m] = "eachDone", NEW q \in Ps
      PROVE  ran[q] = 1
  <2>1. worldsema = m
    BY <1>1, Zenon DEF IInv, Control, Locks, Eaching
  <2>2. spWait = 0
    BY <1>1, <2>1, Zenon DEF IInv, EachCounted, Awaiting
  <2>3. Flagged = {}
    BY <1>1, <2>2, EachNat, CountingHolds, Zenon DEF IInv
  <2>4. runFn[q] = 0 /\ ran[q] \in Nat
    BY <1>1, <2>3, Zenon DEF IInv, CountTypes, Flagged
  <2>5. ran[q] + runFn[q] = 1
    BY <1>1, <2>1, Zenon DEF IInv, EachCounted, Eaching
  <2> QED
    BY <2>4, <2>5
<1>2. IInv => EachRanOnce
  BY <1>1, Zenon DEF EachRanOnce
<1> QED
  BY <1>2, Invariance, PTL

\* The counters of both protocols are exact: while the world is being stopped,
\* stopwait is the number of Ps that are not stopped yet, and safePointWait the
\* number of flags that are set and of Ms that have still to report a run of
\* the function; so neither is ever negative and no P is counted twice.
THEOREM CountersExact ==
  Spec => [](StopCounted /\ EachCounted /\ stopwait \in Nat /\ spWait \in Nat)
<1>1. IInv => StopCounted /\ EachCounted /\ stopwait \in Nat /\ spWait \in Nat
  BY StopNat, EachNat, CountingHolds, Zenon DEF IInv
<1> QED
  BY <1>1, Invariance, PTL
=============================================================================
