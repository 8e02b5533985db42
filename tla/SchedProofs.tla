---------------------------- MODULE SchedProofs ----------------------------
(***************************************************************************)
(* Proofs about Sched for every finite set of Ms and of goroutines and     *)
(* every number of Ps.                                                     *)
(***************************************************************************)
EXTENDS Sched, TLAPS

USE DEF queues, idle, call, loop, own, hist, At, Goto

(***************************************************************************)
(* Types, in three groups: where the threads and the Ps are, where the     *)
(* goroutines are, and the flags.                                          *)
(***************************************************************************)
Labels == {"go", "syscall", "sysmon", "wakep", "wakep2", "startm", "undo", "sched",
           "reset", "global", "maySpin", "spin", "steal", "release", "unspin",
           "recheck", "getp", "respin", "stopm", "parked", "exit0", "handoff",
           "handoff2", "handoff3", "handoff4", "handoff5"}

PTypes ==
  /\ pc \in [Actors -> Labels] /\ ret \in [Actors -> {"go", "syscall", "sysmon"}]
  /\ p \in [Ms -> Ps \cup {None}] /\ oldp \in [Ms -> Ps \cup {None}]
  /\ argp \in [Actors -> Ps \cup {None}]
  /\ pidle \subseteq Ps /\ midle \subseteq Ms /\ syscallp \subseteq Ps

GTypes ==
  /\ runq \in [Ps -> SUBSET Gs] /\ globq \subseteq Gs
  /\ gp \in [Ms -> Gs \cup {None}] /\ left \in [Ms -> SUBSET Ps]
  /\ seen \in [Ms -> Nat] /\ readied \in 0 .. MaxReady

FlagTypes == spinning \in [Ms -> BOOLEAN] /\ argspin \in [Actors -> BOOLEAN]

Told == preempt \subseteq Gs

(***************************************************************************)
(* Control: where an M has a P, has none, or hands one over; what it holds *)
(* and whether it spins while it does; and where sysmon is.                *)
(***************************************************************************)
WithP == {"go", "wakep", "wakep2", "undo", "sched", "reset", "global",
          "maySpin", "spin", "steal", "release", "respin"}
WithoutP == {"syscall", "exit0", "stopm", "parked", "unspin", "recheck", "getp"}
Handing == {"handoff", "handoff2", "handoff3", "handoff4", "handoff5"}
WithG == {"go", "wakep", "wakep2", "undo", "startm", "reset", "syscall", "exit0"} \cup Handing
Spinning == {"sched", "global", "steal", "release", "unspin", "reset"}

MControl(m) ==
  /\ pc[m] \in WithP => p[m] # None /\ argp[m] = None
  /\ pc[m] \in WithoutP => p[m] = None /\ argp[m] = None
  /\ pc[m] \in Handing => p[m] = None /\ argp[m] # None /\ ret[m] = "syscall"
  /\ pc[m] = "startm" => \/ p[m] = None /\ argp[m] # None /\ ret[m] = "syscall"
                         \/ p[m] # None /\ argp[m] = None /\ ret[m] = "go"
  /\ pc[m] \in {"wakep", "wakep2", "undo"} => ret[m] = "go"
  /\ pc[m] \in WithG => gp[m] # None
  /\ pc[m] = "steal" => p[m] \notin left[m]
  /\ pc[m] # "sysmon"

StartControl(a) ==
  /\ argspin[a] => pc[a] \in {"startm", "undo"}
  /\ pc[a] = "undo" => argspin[a]
  /\ pc[a] = "startm" /\ argp[a] = None => argspin[a]

SpinControl(m) ==
  /\ spinning[m] => pc[m] \in Spinning
  /\ pc[m] \in {"reset", "unspin"} => spinning[m]
  /\ StartControl(m)

SysmonControl ==
  /\ \/ pc[Sysmon] = "sysmon" /\ argp[Sysmon] = None
     \/ pc[Sysmon] \in Handing \cup {"startm"} /\ argp[Sysmon] # None /\ ret[Sysmon] = "sysmon"
  /\ argspin[Sysmon] => pc[Sysmon] = "startm"

Control ==
  /\ \A m \in Ms : MControl(m) /\ SpinControl(m)
  /\ SysmonControl
  /\ midle = {m \in Ms : pc[m] = "parked"}

(***************************************************************************)
(* A P is in one place at least and in one place at most.                  *)
(***************************************************************************)
POwned ==
  /\ \A m, n \in Ms : m # n /\ p[m] = p[n] => p[m] = None
  /\ \A a, b \in Actors : a # b /\ argp[a] = argp[b] => argp[a] = None
  /\ \A m \in Ms, a \in Actors : p[m] = argp[a] => p[m] = None
  /\ \A m \in Ms : p[m] \notin pidle \cup syscallp
  /\ \A a \in Actors : argp[a] \notin pidle \cup syscallp
  /\ pidle \cap syscallp = {}
  /\ \A q \in Ps : \/ q \in pidle \cup syscallp
                   \/ \E m \in Ms : p[m] = q
                   \/ \E a \in Actors : argp[a] = q

(***************************************************************************)
(* A goroutine is in one place at most.                                    *)
(***************************************************************************)
GOwned ==
  /\ \A m, n \in Ms : m # n /\ gp[m] = gp[n] => gp[m] = None
  /\ \A m \in Ms : gp[m] \notin globq
  /\ \A m \in Ms, q \in Ps : gp[m] \notin runq[q]
  /\ \A q \in Ps : runq[q] \cap globq = {}
  /\ \A q, r \in Ps : q # r => runq[q] \cap runq[r] = {}

(***************************************************************************)
(* nmspinning counts the spinning Ms and the startm calls that are about   *)
(* to start or to give up one; so it is never negative.                    *)
(***************************************************************************)
Spinners == {m \in Ms : spinning[m]}
Starters == {a \in Actors : argspin[a]}

SpinCount == nmspinning = Cardinality(Spinners) + Cardinality(Starters)

IInv == /\ PTypes /\ GTypes /\ FlagTypes /\ Told
        /\ Control /\ POwned /\ GOwned /\ SpinCount

(***************************************************************************)
(* What the lemmas need of the constants, and of Cardinality; the latter   *)
(* is proved at the end, from the library.                                 *)
(***************************************************************************)
Consts ==
  /\ Ms \subseteq Actors /\ Sysmon \in Actors /\ Sysmon \notin Ms
  /\ None \notin Ps /\ None \notin Gs /\ MaxReady \in Nat

ActorSets ==
  \A S \in SUBSET Actors : \A a \in Actors :
    /\ Cardinality(S) \in Nat
    /\ a \notin S => Cardinality(S \cup {a}) = Cardinality(S) + 1
    /\ a \in S => Cardinality(S \ {a}) = Cardinality(S) - 1

\* The constants are as SchedAssumption says.
LEMMA ConstsHold == Consts
BY SchedAssumption, Zenon DEF Consts, Actors

-----------------------------------------------------------------------------
(* Taking goroutines *)

FromGlobal(m, S, g) ==
  /\ globq' = globq \ S
  /\ runq' = [runq EXCEPT ![p[m]] = @ \cup (S \ {g})]
  /\ Found(m, g)

FromP(m, q, S, g) ==
  /\ runq' = [runq EXCEPT ![q] = @ \ S, ![p[m]] = @ \cup (S \ {g})]
  /\ globq' = globq
  /\ Found(m, g)

\* What globrunqget takes is in the global queue.
LEMMA GlobTakes ==
  ASSUME NEW m \in Ms, NEW max, GlobRunqGet(m, max)
  PROVE  \E S \in SUBSET globq : \E g \in S : FromGlobal(m, S, g)
BY Zenon DEF GlobRunqGet, kSubset, Leaves, FromGlobal

\* What runqsteal takes is in the queue of another P.
LEMMA StealTakes ==
  ASSUME NEW m \in Ms, Steal(m)
  PROVE  \/ \E q \in left[m] : \E S \in SUBSET runq[q] : \E g \in S :
              FromP(m, q, S, g) /\ left' = [left EXCEPT ![m] = {}]
         \/ UNCHANGED <<runq, gp>> /\ (UNCHANGED pc \/ pc' = [pc EXCEPT ![m] = "release"])
BY Zenon DEF Steal, kSubset, Leaves, FromP

\* schedule takes from the global queue or from the one of its P.
LEMMA ScheduleTakes ==
  ASSUME NEW m \in Ms, Schedule(m)
  PROVE  \/ \E S \in SUBSET globq : \E g \in S : FromGlobal(m, S, g)
         \/ \E g \in runq[p[m]] : /\ runq' = [runq EXCEPT ![p[m]] = @ \ {g}]
                                  /\ \/ globq' = globq /\ Found(m, g)
                                     \/ globq' = globq \cup {g} /\ UNCHANGED <<gp, pc>>
         \/ UNCHANGED <<queues, gp>> /\ pc' = [pc EXCEPT ![m] = "global"]
BY GlobTakes, Zenon DEF Schedule, Requeue

-----------------------------------------------------------------------------
(* The Ps *)

\* A step that leaves every P where it is.
LEMMA PKept ==
  ASSUME POwned, UNCHANGED <<p, argp, pidle, syscallp>>
  PROVE  POwned'
BY Zenon DEF POwned

\* No step duplicates a P or loses one: the operations of goroutines,
LEMMA POwnedUser ==
  ASSUME Consts, PTypes, Control, POwned, NEW m \in Ms, User(m) \/ ExitSyscall(m)
  PROVE  POwned'
<1> USE DEF Consts, PTypes, Control, MControl, SysmonControl, WithP, WithoutP, Handing
<1>1. CASE Ready(m) \/ Park(m) \/ Gosched(m)
  BY <1>1, PKept, Zenon DEF Ready, Park, Gosched
<1>2. CASE EnterSyscall(m)
  BY <1>2 DEF EnterSyscall, POwned
<1>3. CASE EnterSyscallBlock(m)
  BY <1>3 DEF EnterSyscallBlock, POwned
<1>4. CASE ExitSyscall(m)
  BY <1>4 DEF ExitSyscall, CanReacquire, POwned
<1> QED
  BY <1>1, <1>2, <1>3, <1>4, Zenon DEF User

\* The same for schedule, findrunnable and wakep,
LEMMA POwnedFind ==
  ASSUME Consts, PTypes, Control, POwned, NEW m \in Ms, Find(m)
  PROVE  POwned'
<1> USE DEF Consts, PTypes, Control, MControl, SysmonControl, WithP, WithoutP, Handing
<1>1. CASE Schedule(m) \/ Global(m) \/ MaySpin(m) \/ Spin(m) \/ Steal(m) \/ Unspin(m)
           \/ Recheck(m) \/ Respin(m) \/ StopM(m) \/ ResetSpinning(m) \/ Wakep(m)
  BY <1>1, PKept, Zenon DEF Schedule, Global, MaySpin, Spin, Steal, Unspin, Recheck, Respin,
      StopM, ResetSpinning, Wakep
<1>2. CASE Release(m)
  <2>1. CASE GlobalWork
    BY <1>2, <2>1, PKept, Zenon DEF Release
  <2>2. CASE ~GlobalWork
    BY <1>2, <2>2 DEF Release, POwned
  <2> QED
    BY <2>1, <2>2, Zenon
<1>3. CASE RecheckGetP(m)
  BY <1>3 DEF RecheckGetP, POwned
<1>4. CASE WakepSpin(m)
  <2>1. argp' = argp
    BY <1>4 DEF WakepSpin
  <2> QED
    BY <1>4, <2>1, PKept, Zenon DEF WakepSpin
<1>5. CASE ExitSyscall0(m)
  BY <1>5 DEF ExitSyscall0, POwned
<1> QED
  BY <1>1, <1>2, <1>3, <1>4, <1>5, Zenon DEF Find

\* and for startm, handoffp and sysmon.
LEMMA POwnedHand ==
  ASSUME Consts, PTypes, Control, POwned, NEW a \in Actors, Hand(a) \/ Retake
  PROVE  POwned'
<1> USE DEF Consts, PTypes, Control, MControl, SysmonControl, WithP, WithoutP, Handing
<1>1. CASE StartMUndo(a) \/ Handoff(a) \/ HandoffSpinning(a) \/ HandoffIdle(a)
           \/ HandoffCas(a)
  BY <1>1, PKept, Zenon DEF StartMUndo, Handoff, HandoffSpinning, HandoffIdle, HandoffCas
<1>2. CASE StartM(a)
  <2>1. ASSUME NEW n \in midle, NEW q, Start(a, n, q),
               \/ argp[a] # None /\ q = argp[a] /\ pidle' = pidle
               \/ argp[a] = None /\ q \in pidle /\ pidle' = pidle \ {q}
        PROVE  POwned'
    <3>1. n \in Ms /\ p[n] = None /\ q \in Ps
      BY <2>1, Zenon
    <3>2. /\ \A k \in Ms : p'[k] = IF k = n THEN q ELSE p[k]
          /\ \A b \in Actors : argp'[b] = IF b = a THEN None ELSE argp[b]
          /\ syscallp' = syscallp
      BY <1>2, <2>1, <3>1 DEF StartM, Start
    <3> QED
      BY <2>1, <3>1, <3>2 DEF POwned
  <2>2. CASE argp[a] = None /\ UNCHANGED <<pidle, p>>
    <3>1. argp' = argp /\ syscallp' = syscallp
      BY <1>2, <2>2, Zenon DEF StartM
    <3> QED
      BY <2>2, <3>1, PKept, Zenon
  <2> QED
    BY <1>2, <2>1, <2>2, Zenon DEF StartM
<1>3. CASE HandoffIdleput(a)
  <2>0. argp[a] \in Ps
    BY <1>3, Zenon DEF HandoffIdleput, Actors
  <2>1. CASE UNCHANGED <<pidle, argp>>
    BY <1>3, <2>1, PKept, Zenon DEF HandoffIdleput
  <2>2. CASE pidle' = pidle \cup {argp[a]} /\ argp' = [argp EXCEPT ![a] = None]
    BY <1>3, <2>0, <2>2 DEF HandoffIdleput, POwned
  <2> QED
    BY <1>3, <2>1, <2>2, Zenon DEF HandoffIdleput
<1>4. CASE Retake
  BY <1>4 DEF Retake, POwned
<1> QED
  BY <1>1, <1>2, <1>3, <1>4, Zenon DEF Hand

-----------------------------------------------------------------------------
(* The goroutines *)

\* A step that leaves every goroutine where it is.
LEMMA GKept ==
  ASSUME GOwned, UNCHANGED <<runq, globq, gp>>
  PROVE  GOwned'
BY Zenon DEF GOwned

\* What is taken from the global queue is nowhere else,
LEMMA GlobOwned ==
  ASSUME Consts, GTypes, GOwned, NEW m \in Ms, p[m] \in Ps,
         NEW S \in SUBSET globq, NEW g \in S, FromGlobal(m, S, g)
  PROVE  GOwned'
BY DEF Consts, GTypes, GOwned, FromGlobal, Found

\* nor is what is stolen.
LEMMA StealOwned ==
  ASSUME Consts, GTypes, GOwned, NEW m \in Ms, p[m] \in Ps, NEW q \in Ps, q # p[m],
         NEW S \in SUBSET runq[q], NEW g \in S, FromP(m, q, S, g)
  PROVE  GOwned'
<1>1. \A r \in Ps : runq'[r] = IF r = q THEN runq[q] \ S
                              ELSE IF r = p[m] THEN runq[r] \cup (S \ {g}) ELSE runq[r]
  BY Zenon DEF GTypes, FromP
<1>2. \A n \in Ms : gp'[n] = IF n = m THEN g ELSE gp[n]
  BY Zenon DEF GTypes, FromP, Found
<1>3. globq' = globq /\ g # None /\ S \subseteq Gs
  BY Zenon DEF Consts, GTypes, FromP
<1>4. \A r, t \in Ps : r # t => runq'[r] \cap runq'[t] = {}
  BY <1>1, Zenon DEF GOwned
<1>5. \A r \in Ps : runq'[r] \cap globq' = {}
  BY <1>1, <1>3, Zenon DEF GOwned
<1>6. \A n \in Ms, r \in Ps : gp'[n] \notin runq'[r]
  <2>1. \A r \in Ps : r # q => runq[q] \cap runq[r] = {}
    BY Zenon DEF GOwned
  <2>2. \A r \in Ps : g \notin runq'[r]
    BY <1>1, <2>1, Zenon
  <2>3. \A n \in Ms, r \in Ps : gp[n] \notin runq[r] /\ gp[n] \notin S
    BY Zenon DEF GOwned
  <2>4. \A n \in Ms, r \in Ps : gp[n] \notin runq'[r]
    BY <1>1, <2>3, Zenon
  <2> QED
    BY <1>2, <2>2, <2>4, Zenon
<1> QED
  BY <1>2, <1>3, <1>4, <1>5, <1>6 DEF GOwned

\* No step puts a goroutine in two places: the operations of goroutines,
LEMMA GOwnedUser ==
  ASSUME Consts, PTypes, GTypes, Control, GOwned, NEW m \in Ms, User(m) \/ ExitSyscall(m)
  PROVE  GOwned'
<1> USE DEF Consts, PTypes, Control, MControl, WithP, WithG
<1>1. CASE EnterSyscall(m) \/ EnterSyscallBlock(m) \/ ExitSyscall(m)
  BY <1>1, GKept, Zenon DEF EnterSyscall, EnterSyscallBlock, ExitSyscall
<1>2. CASE Ready(m)
  BY <1>2 DEF Ready, Waiting, Runnable, GOwned, GTypes
<1>3. CASE Park(m)
  BY <1>3, Zenon DEF Park, GOwned, GTypes
<1>4. CASE Gosched(m)
  BY <1>4 DEF Gosched, GOwned, GTypes
<1> QED
  BY <1>1, <1>2, <1>3, <1>4, Zenon DEF User

\* The same for schedule, findrunnable and wakep,
LEMMA GOwnedFind ==
  ASSUME Consts, PTypes, GTypes, Control, GOwned, NEW m \in Ms, Find(m)
  PROVE  GOwned'
<1> USE DEF Consts, PTypes, Control, MControl, WithP
<1>1. CASE MaySpin(m) \/ Spin(m) \/ Unspin(m) \/ Recheck(m) \/ RecheckGetP(m) \/ Respin(m)
           \/ StopM(m) \/ ResetSpinning(m) \/ Wakep(m) \/ WakepSpin(m)
  BY <1>1, GKept, Zenon DEF MaySpin, Spin, Unspin, Recheck, RecheckGetP, Respin, StopM,
      ResetSpinning, Wakep, WakepSpin
<1>2. CASE Schedule(m)
  <2>1. CASE UNCHANGED <<queues, gp>>
    BY <2>1, GKept, Zenon
  <2>2. p[m] \in Ps
    BY <1>2, Zenon DEF Schedule
  <2>3. ASSUME NEW g \in runq[p[m]], runq' = [runq EXCEPT ![p[m]] = @ \ {g}],
               globq' = globq, Found(m, g)
        PROVE  GOwned'
    BY <2>2, <2>3 DEF GOwned, Found, GTypes
  <2>4. ASSUME NEW g \in runq[p[m]], runq' = [runq EXCEPT ![p[m]] = @ \ {g}],
               globq' = globq \cup {g}, gp' = gp
        PROVE  GOwned'
    BY <2>2, <2>4 DEF GOwned, GTypes
  <2> QED
    BY <1>2, <2>1, <2>2, <2>3, <2>4, ScheduleTakes, GlobOwned, Zenon
<1>3. CASE Global(m)
  <2>1. CASE UNCHANGED <<queues, gp>>
    BY <2>1, GKept, Zenon
  <2>2. p[m] \in Ps
    BY <1>3, Zenon DEF Global
  <2> QED
    BY <1>3, <2>1, <2>2, GlobTakes, GlobOwned, Zenon DEF Global
<1>4. CASE Steal(m)
  <2>0. globq' = globq
    BY <1>4, Zenon DEF Steal
  <2>1. CASE UNCHANGED <<runq, gp>>
    BY <2>0, <2>1, GKept, Zenon
  <2>2. p[m] \in Ps /\ p[m] \notin left[m] /\ left[m] \subseteq Ps
    BY <1>4, Zenon DEF Steal, GTypes
  <2>3. CASE \E q \in left[m] : \E S \in SUBSET runq[q] : \E g \in S : FromP(m, q, S, g)
    BY <2>2, <2>3, StealOwned, Zenon
  <2> QED
    BY <1>4, <2>1, <2>3, StealTakes, Zenon
<1>5. CASE Release(m)
  <2>1. CASE UNCHANGED <<queues, gp>>
    BY <2>1, GKept, Zenon
  <2>2. p[m] \in Ps
    BY <1>5, Zenon DEF Release
  <2> QED
    BY <1>5, <2>1, <2>2, GlobTakes, GlobOwned, Zenon DEF Release
<1>6. CASE ExitSyscall0(m)
  BY <1>6 DEF ExitSyscall0, GOwned, GTypes, WithG
<1> QED
  BY <1>1, <1>2, <1>3, <1>4, <1>5, <1>6, Zenon DEF Find

\* and for startm, handoffp and sysmon.
LEMMA GOwnedHand ==
  ASSUME GOwned, NEW a \in Actors, Hand(a) \/ Retake
  PROVE  GOwned'
<1>1. CASE StartM(a) \/ StartMUndo(a) \/ Handoff(a) \/ HandoffSpinning(a)
           \/ HandoffIdle(a) \/ HandoffCas(a) \/ HandoffIdleput(a) \/ Retake
  BY <1>1, GKept, Zenon DEF StartM, StartMUndo, Handoff, HandoffSpinning, HandoffIdle,
      HandoffCas, HandoffIdleput, Retake
<1> QED
  BY <1>1, Zenon DEF Hand

-----------------------------------------------------------------------------
(* nmspinning *)

\* A step that changes neither nmspinning nor who spins.
LEMMA SpinKept ==
  ASSUME SpinCount, UNCHANGED <<spinning, argspin, nmspinning>>
  PROVE  SpinCount'
BY Zenon DEF SpinCount, Spinners, Starters

\* One more or one less of either kind, with nmspinning to match.
LEMMA SpinMoves ==
  ASSUME ActorSets, Ms \subseteq Actors, SpinCount, NEW a \in Actors,
         \/ /\ a \notin Spinners /\ Spinners' = Spinners \cup {a}
            /\ Starters' = Starters /\ nmspinning' = nmspinning + 1
         \/ /\ a \in Spinners /\ Spinners' = Spinners \ {a}
            /\ Starters' = Starters /\ nmspinning' = nmspinning - 1
         \/ /\ a \notin Starters /\ Starters' = Starters \cup {a}
            /\ Spinners' = Spinners /\ nmspinning' = nmspinning + 1
         \/ /\ a \in Starters /\ Starters' = Starters \ {a}
            /\ Spinners' = Spinners /\ nmspinning' = nmspinning - 1
  PROVE  SpinCount'
<1>1. Spinners \in SUBSET Actors /\ Starters \in SUBSET Actors
  BY Zenon DEF Spinners, Starters
<1> DEFINE k == Cardinality(Spinners)
           l == Cardinality(Starters)
<1>2. k \in Nat /\ l \in Nat /\ nmspinning = k + l
  BY <1>1, Zenon DEF ActorSets, SpinCount
<1>3. \/ /\ Cardinality(Spinners') = k + 1 /\ Cardinality(Starters') = l
         /\ nmspinning' = nmspinning + 1
      \/ /\ Cardinality(Spinners') = k - 1 /\ Cardinality(Starters') = l
         /\ nmspinning' = nmspinning - 1
      \/ /\ Cardinality(Spinners') = k /\ Cardinality(Starters') = l + 1
         /\ nmspinning' = nmspinning + 1
      \/ /\ Cardinality(Spinners') = k /\ Cardinality(Starters') = l - 1
         /\ nmspinning' = nmspinning - 1
  BY <1>1, Zenon DEF ActorSets
<1> HIDE DEF k, l
<1>4. nmspinning' = Cardinality(Spinners') + Cardinality(Starters')
  BY <1>2, <1>3
<1> QED
  BY <1>4, Zenon DEF SpinCount

\* startm passes a spinning count on to the M that it starts.
LEMMA SpinPassed ==
  ASSUME ActorSets, Ms \subseteq Actors, SpinCount, NEW a \in Actors, NEW n \in Ms,
         a \in Starters, n \notin Spinners, Spinners' = Spinners \cup {n},
         Starters' = Starters \ {a}, nmspinning' = nmspinning
  PROVE  SpinCount'
<1>1. Spinners \in SUBSET Actors /\ Starters \in SUBSET Actors
  BY Zenon DEF Spinners, Starters
<1> DEFINE k == Cardinality(Spinners)
           l == Cardinality(Starters)
<1>2. k \in Nat /\ l \in Nat /\ nmspinning = k + l
  BY <1>1, Zenon DEF ActorSets, SpinCount
<1>3. Cardinality(Spinners') = k + 1 /\ Cardinality(Starters') = l - 1
  BY <1>1, Zenon DEF ActorSets
<1> HIDE DEF k, l
<1>4. nmspinning' = Cardinality(Spinners') + Cardinality(Starters')
  BY <1>2, <1>3
<1> QED
  BY <1>4, Zenon DEF SpinCount

\* nmspinning keeps counting the spinning Ms and those to be started, whatever
\* goroutines do,
LEMMA SpinCountUser ==
  ASSUME SpinCount, NEW m \in Ms, User(m) \/ ExitSyscall(m)
  PROVE  SpinCount'
<1>1. CASE Ready(m) \/ Park(m) \/ Gosched(m) \/ EnterSyscall(m) \/ EnterSyscallBlock(m)
           \/ ExitSyscall(m)
  BY <1>1, SpinKept, Zenon DEF Ready, Park, Gosched, EnterSyscall, EnterSyscallBlock,
      ExitSyscall
<1> QED
  BY <1>1, Zenon DEF User

\* The same for schedule, findrunnable and wakep,
LEMMA SpinCountFind ==
  ASSUME ActorSets, Consts, PTypes, FlagTypes, Control, SpinCount, NEW m \in Ms, Find(m)
  PROVE  SpinCount'
<1> USE DEF Consts, PTypes, FlagTypes, Control, SpinControl, StartControl, Spinning
<1>1. CASE Schedule(m) \/ Global(m) \/ MaySpin(m) \/ Steal(m) \/ Release(m) \/ Recheck(m)
           \/ RecheckGetP(m) \/ StopM(m) \/ Wakep(m) \/ ExitSyscall0(m)
  BY <1>1, SpinKept, Zenon DEF Schedule, Global, MaySpin, Steal, Release, Recheck,
      RecheckGetP, StopM, Wakep, ExitSyscall0
<1>2. CASE Spin(m)
  <2>1. /\ m \notin Spinners /\ Spinners' = Spinners \cup {m}
        /\ Starters' = Starters /\ nmspinning' = nmspinning + 1
    BY <1>2, ZenonT(40) DEF Spin, Spinners, Starters
  <2> QED
    BY <2>1, SpinMoves, Zenon
<1>3. CASE Unspin(m)
  <2>1. /\ m \in Spinners /\ Spinners' = Spinners \ {m}
        /\ Starters' = Starters /\ nmspinning' = nmspinning - 1
    BY <1>3, Zenon DEF Unspin, ToRecheck, Spinners, Starters
  <2> QED
    BY <2>1, SpinMoves, Zenon
<1>4. CASE Respin(m)
  <2>1. /\ m \notin Spinners /\ Spinners' = Spinners \cup {m}
        /\ Starters' = Starters /\ nmspinning' = nmspinning + 1
    BY <1>4, ZenonT(40) DEF Respin, Spinners, Starters
  <2> QED
    BY <2>1, SpinMoves, Zenon
<1>5. CASE ResetSpinning(m)
  <2>1. /\ m \in Spinners /\ Spinners' = Spinners \ {m}
        /\ Starters' = Starters /\ nmspinning' = nmspinning - 1
    BY <1>5, Zenon DEF ResetSpinning, Spinners, Starters
  <2> QED
    BY <2>1, SpinMoves, Zenon
<1>6. CASE WakepSpin(m)
  <2>1. CASE nmspinning = 0
    <3>1. /\ m \notin Starters /\ Starters' = Starters \cup {m}
          /\ Spinners' = Spinners /\ nmspinning' = nmspinning + 1
      BY <1>6, <2>1 DEF WakepSpin, Spinners, Starters
    <3> QED
      BY <3>1, SpinMoves, Zenon
  <2>2. CASE nmspinning # 0
    BY <1>6, <2>2, SpinKept, Zenon DEF WakepSpin
  <2> QED
    BY <2>1, <2>2, Zenon
<1> QED
  BY <1>1, <1>2, <1>3, <1>4, <1>5, <1>6, Zenon DEF Find

\* and for startm, handoffp and sysmon.
LEMMA SpinCountHand ==
  ASSUME ActorSets, Consts, PTypes, FlagTypes, Control, SpinCount, NEW a \in Actors, Hand(a)
         \/ Retake
  PROVE  SpinCount'
<1> StartControl(a) BY DEF Consts, Control, SpinControl, StartControl, SysmonControl,
    Handing, Actors, Spinning <1> USE DEF Consts, PTypes, FlagTypes, Control, SpinControl,
    StartControl, Spinning
<1>1. CASE HandoffSpinning(a) \/ HandoffIdle(a) \/ Retake
  BY <1>1, SpinKept, Zenon DEF HandoffSpinning, HandoffIdle, Retake
<1>2. CASE StartM(a)
  <2>1. ASSUME NEW n \in midle, NEW q, Start(a, n, q) PROVE SpinCount'
    <3>1. n \in Ms /\ n # a /\ ~spinning[n] /\ pc'[a] # "undo"
      BY <1>2, <2>1 DEF StartM, Start
    <3>2. /\ argspin' = [argspin EXCEPT ![a] = FALSE]
          /\ spinning' = [spinning EXCEPT ![n] = argspin[a]] /\ nmspinning' = nmspinning
      BY <1>2, <2>1, <3>1, Zenon DEF StartM, Start
    <3>3. CASE argspin[a]
      <4>1. /\ Spinners' = Spinners \cup {n} /\ Starters' = Starters \ {a}
            /\ a \in Starters /\ n \notin Spinners
        BY <3>1, <3>2, <3>3, ZenonT(40) DEF Spinners, Starters
      <4> QED
        BY <3>1, <3>2, <4>1, SpinPassed, Zenon
    <3>4. CASE ~argspin[a]
      <4>1. Spinners' = Spinners /\ Starters' = Starters
        BY <3>1, <3>2, <3>4, ZenonT(40) DEF Spinners, Starters
      <4> QED
        BY <3>2, <4>1, Zenon DEF SpinCount
    <3> QED
      BY <3>3, <3>4, Zenon
  <2>2. CASE argp[a] = None /\ Goto(a, "undo") /\ UNCHANGED spinning
    <3>1. argspin' = [argspin EXCEPT ![a] = TRUE] /\ argspin[a] /\ nmspinning' = nmspinning
      BY <1>2, <2>2, Zenon DEF StartM
    <3>2. Spinners' = Spinners /\ Starters' = Starters
      BY <2>2, <3>1, Zenon DEF Spinners, Starters
    <3> QED
      BY <3>1, <3>2, Zenon DEF SpinCount
  <2> QED
    BY <1>2, <2>1, <2>2, Zenon DEF StartM
<1>3. CASE StartMUndo(a)
  <2>1. /\ a \in Starters /\ Starters' = Starters \ {a}
        /\ Spinners' = Spinners /\ nmspinning' = nmspinning - 1
    BY <1>3, Zenon DEF StartMUndo, Return, UndoStep, Spinners, Starters
  <2> QED
    BY <2>1, SpinMoves, Zenon
<1>4. CASE Handoff(a)
  <2>1. Spinners' = Spinners /\ Starters' = Starters /\ nmspinning' = nmspinning
    BY <1>4 DEF Handoff, HandTo, Spinners, Starters
  <2> QED
    BY <2>1, Zenon DEF SpinCount
<1>5. CASE HandoffCas(a)
  <2>1. CASE nmspinning = 0
    <3>1. /\ a \notin Starters /\ Starters' = Starters \cup {a}
          /\ Spinners' = Spinners /\ nmspinning' = nmspinning + 1
      BY <1>5, <2>1 DEF HandoffCas, HandTo, Spinners, Starters
    <3> QED
      BY <3>1, SpinMoves, Zenon
  <2>2. CASE nmspinning # 0
    BY <1>5, <2>2, SpinKept, Zenon DEF HandoffCas
  <2> QED
    BY <2>1, <2>2, Zenon
<1>6. CASE HandoffIdleput(a)
  <2>1. Spinners' = Spinners /\ Starters' = Starters /\ nmspinning' = nmspinning
    BY <1>6 DEF HandoffIdleput, HandTo, Spinners, Starters
  <2> QED
    BY <2>1, Zenon DEF SpinCount
<1> QED
  BY <1>1, <1>2, <1>3, <1>4, <1>5, <1>6, Zenon DEF Hand

-----------------------------------------------------------------------------
(* Control *)

\* A step of one thread concerns no other one.
Others(a) ==
  /\ \A b \in Actors : b # a => /\ pc'[b] = pc[b] /\ ret'[b] = ret[b]
                                /\ argp'[b] = argp[b] /\ argspin'[b] = argspin[b]
  /\ \A n \in Ms : n # a => /\ p'[n] = p[n] /\ gp'[n] = gp[n]
                            /\ left'[n] = left[n] /\ spinning'[n] = spinning[n]
  /\ midle' = {n \in Ms : pc'[n] = "parked"}

\* The control of the thread that makes the step is all there is to check.
LEMMA ControlOf ==
  ASSUME Consts, Control, NEW a \in Actors, Others(a),
         a \in Ms => MControl(a)' /\ SpinControl(a)', a = Sysmon => SysmonControl'
  PROVE  Control'
<1>1. \A n \in Ms : n # a => MControl(n)' /\ SpinControl(n)'
  BY DEF Consts, Control, Others, MControl, SpinControl, StartControl
<1>2. a # Sysmon => SysmonControl'
  BY Zenon DEF Consts, Control, Others, SysmonControl
<1> QED
  BY <1>1, <1>2, Zenon DEF Control, Others

\* A step changes the state of the thread that makes it only: the operations of
\* goroutines,
LEMMA OthersUser ==
  ASSUME Consts, PTypes, GTypes, FlagTypes, Control, NEW m \in Ms, User(m) \/ ExitSyscall(m)
  PROVE  Others(m)
<1> USE DEF Consts, PTypes, GTypes, FlagTypes, Control, Others
<1>1. CASE Ready(m)
  BY <1>1, Zenon DEF Ready, Waiting
<1>2. CASE Park(m)
  BY <1>2, Zenon DEF Park
<1>3. CASE Gosched(m)
  BY <1>3, Zenon DEF Gosched
<1>4. CASE EnterSyscall(m)
  BY <1>4, Zenon DEF EnterSyscall
<1>5. CASE EnterSyscallBlock(m)
  BY <1>5, Zenon DEF EnterSyscallBlock
<1>6. CASE ExitSyscall(m)
  BY <1>6, Zenon DEF ExitSyscall, CanReacquire
<1> QED
  BY <1>1, <1>2, <1>3, <1>4, <1>5, <1>6, Zenon DEF User

\* The same for schedule, findrunnable and wakep,
LEMMA OthersFind ==
  ASSUME Consts, PTypes, GTypes, FlagTypes, Control, NEW m \in Ms, Find(m)
  PROVE  Others(m)
<1> USE DEF Consts, PTypes, GTypes, FlagTypes, Control, Others
<1>1. CASE Schedule(m)
  BY <1>1 DEF Schedule, GlobRunqGet, Found, Requeue
<1>2. CASE Global(m)
  BY <1>2 DEF Global, GlobRunqGet, Found
<1>3. CASE MaySpin(m)
  BY <1>3, Zenon DEF MaySpin
<1>4. CASE Spin(m)
  BY <1>4, Zenon DEF Spin
<1>5. CASE Steal(m)
  BY <1>5 DEF Steal, Found
<1>6. CASE Release(m)
  BY <1>6 DEF Release, GlobRunqGet, Found
<1>7. CASE Unspin(m)
  BY <1>7, Zenon DEF Unspin, ToRecheck
<1>8. CASE Recheck(m)
  BY <1>8, Zenon DEF Recheck
<1>9. CASE RecheckGetP(m)
  BY <1>9 DEF RecheckGetP
<1>10. CASE Respin(m)
  BY <1>10, Zenon DEF Respin
<1>11. CASE StopM(m)
  BY <1>11 DEF StopM
<1>12. CASE ResetSpinning(m)
  BY <1>12, Zenon DEF ResetSpinning
<1>13. CASE Wakep(m)
  BY <1>13, Zenon DEF Wakep, Return
<1>14. CASE WakepSpin(m)
  BY <1>14, ZenonT(40) DEF WakepSpin, Return
<1>15. CASE ExitSyscall0(m)
  BY <1>15 DEF ExitSyscall0
<1> QED
  BY <1>1, <1>2, <1>3, <1>4, <1>5, <1>6, <1>7, <1>8, <1>9, <1>10, <1>11, <1>12, <1>13,
      <1>14, <1>15, Zenon DEF Find

\* and for startm, handoffp and sysmon.
LEMMA OthersHand ==
  ASSUME Consts, PTypes, GTypes, FlagTypes, Control, NEW a \in Actors, Hand(a), ~StartM(a)
  PROVE  Others(a)
<1> USE DEF Consts, PTypes, GTypes, FlagTypes, Control, Others
<1>1. CASE StartMUndo(a)
  BY <1>1, Zenon DEF StartMUndo, Return
<1>2. CASE Handoff(a)
  BY <1>2, Zenon DEF Handoff, HandTo
<1>3. CASE HandoffSpinning(a)
  BY <1>3, Zenon DEF HandoffSpinning
<1>4. CASE HandoffIdle(a)
  BY <1>4, Zenon DEF HandoffIdle
<1>5. CASE HandoffCas(a)
  BY <1>5, Zenon DEF HandoffCas, HandTo
<1>6. CASE HandoffIdleput(a)
  BY <1>6, Zenon DEF HandoffIdleput, HandTo, Return
<1> QED
  BY <1>1, <1>2, <1>3, <1>4, <1>5, <1>6, Zenon DEF Hand

Moved(m) == MControl(m)' /\ SpinControl(m)'

\* and it leaves an M with what it needs at its next step: the operations of goroutines,
LEMMA MovesUser ==
  ASSUME Consts, PTypes, GTypes, FlagTypes, Control, NEW m \in Ms, User(m) \/ ExitSyscall(m)
  PROVE  Moved(m)
<1> USE DEF Consts, PTypes, GTypes, FlagTypes, Control, Moved, MControl, SpinControl,
    StartControl, WithP, WithoutP, Handing, WithG, Spinning
<1>1. CASE Ready(m)
  BY <1>1, Zenon DEF Ready, Waiting
<1>2. CASE Park(m)
  BY <1>2, Zenon DEF Park
<1>3. CASE Gosched(m)
  BY <1>3, Zenon DEF Gosched
<1>4. CASE EnterSyscall(m)
  BY <1>4, Zenon DEF EnterSyscall
<1>5. CASE EnterSyscallBlock(m)
  BY <1>5, Zenon DEF EnterSyscallBlock
<1>6. CASE ExitSyscall(m)
  BY <1>6 DEF ExitSyscall, CanReacquire
<1> QED
  BY <1>1, <1>2, <1>3, <1>4, <1>5, <1>6, Zenon DEF User

\* The same for schedule, findrunnable and wakep,
LEMMA MovesFind ==
  ASSUME Consts, PTypes, GTypes, FlagTypes, Control, NEW m \in Ms, Find(m)
  PROVE  Moved(m)
<1> USE DEF Consts, PTypes, GTypes, FlagTypes, Control, Moved, MControl, SpinControl,
    StartControl, WithP, WithoutP, Handing, WithG, Spinning
<1>1. CASE Schedule(m)
  <2>0. p[m] \in Ps /\ globq \subseteq Gs /\ left[m] \subseteq Ps /\ \A q \in Ps : runq[q] \subseteq Gs
    BY <1>1, Zenon DEF Schedule
  <2>1. ASSUME NEW g \in Gs, Found(m, g) PROVE Moved(m)
    BY <1>1, <2>1 DEF Schedule, Found
  <2>2. CASE UNCHANGED gp /\ pc' = [pc EXCEPT ![m] = "global"]
    BY <1>1, <2>2, Zenon DEF Schedule
  <2>3. CASE UNCHANGED <<gp, pc>>
    BY <1>1, <2>3, Zenon DEF Schedule
  <2> QED
    BY <1>1, <2>0, <2>1, <2>2, <2>3, ScheduleTakes, Zenon DEF FromGlobal
<1>2. CASE Global(m)
  <2>0. p[m] \in Ps /\ globq \subseteq Gs /\ left[m] \subseteq Ps /\ \A q \in Ps : runq[q] \subseteq Gs
    BY <1>2, Zenon DEF Global
  <2>1. ASSUME NEW g \in Gs, Found(m, g) PROVE Moved(m)
    BY <1>2, <2>1, Zenon DEF Global, Found
  <2>2. CASE globq = {}
    BY <1>2, <2>2 DEF Global
  <2> QED
    BY <1>2, <2>0, <2>1, <2>2, GlobTakes, Zenon DEF Global, FromGlobal
<1>3. CASE MaySpin(m)
  BY <1>3, Zenon DEF MaySpin
<1>4. CASE Spin(m)
  BY <1>4, Zenon DEF Spin
<1>5. CASE Steal(m)
  <2>0. p[m] \in Ps /\ globq \subseteq Gs /\ left[m] \subseteq Ps /\ \A q \in Ps : runq[q] \subseteq Gs
    BY <1>5, Zenon DEF Steal
  <2>1. ASSUME NEW g \in Gs, Found(m, g) PROVE Moved(m)
    BY <1>5, <2>1 DEF Steal, Found
  <2>2. CASE UNCHANGED <<runq, gp>> /\ (UNCHANGED pc \/ pc' = [pc EXCEPT ![m] = "release"])
    BY <1>5, <2>2 DEF Steal
  <2> QED
    BY <1>5, <2>0, <2>1, <2>2, StealTakes, Zenon DEF FromP
<1>6. CASE Release(m)
  <2>0. p[m] \in Ps /\ globq \subseteq Gs /\ left[m] \subseteq Ps /\ \A q \in Ps : runq[q] \subseteq Gs
    BY <1>6, Zenon DEF Release
  <2>1. ASSUME NEW g \in Gs, Found(m, g) PROVE Moved(m)
    BY <1>6, <2>1 DEF Release, Found
  <2>2. CASE ~GlobalWork
    BY <1>6, <2>2 DEF Release
  <2> QED
    BY <1>6, <2>0, <2>1, <2>2, GlobTakes, Zenon DEF Release, FromGlobal
<1>7. CASE Unspin(m)
  BY <1>7, Zenon DEF Unspin, ToRecheck
<1>8. CASE Recheck(m)
  BY <1>8 DEF Recheck
<1>9. CASE RecheckGetP(m)
  BY <1>9 DEF RecheckGetP
<1>10. CASE Respin(m)
  BY <1>10, Zenon DEF Respin
<1>11. CASE StopM(m)
  BY <1>11, Zenon DEF StopM
<1>12. CASE ResetSpinning(m)
  BY <1>12, Zenon DEF ResetSpinning
<1>13. CASE Wakep(m)
  BY <1>13 DEF Wakep, Return
<1>14. CASE WakepSpin(m)
  BY <1>14 DEF WakepSpin, Return
<1>15. CASE ExitSyscall0(m)
  BY <1>15 DEF ExitSyscall0
<1> QED
  BY <1>1, <1>2, <1>3, <1>4, <1>5, <1>6, <1>7, <1>8, <1>9, <1>10, <1>11, <1>12, <1>13,
      <1>14, <1>15, Zenon DEF Find

\* and for startm, handoffp and sysmon.
LEMMA MovesHand ==
  ASSUME Consts, PTypes, GTypes, FlagTypes, Control, NEW a \in Actors, Hand(a), ~StartM(a)
  PROVE  a \in Ms => Moved(a)
<1> USE DEF Consts, PTypes, GTypes, FlagTypes, Control, Moved, MControl, SpinControl,
    StartControl, WithP, WithoutP, Handing, WithG, Spinning
<1>1. CASE StartMUndo(a)
  BY <1>1, Zenon DEF StartMUndo, Return
<1>2. CASE Handoff(a)
  BY <1>2 DEF Handoff, HandTo
<1>3. CASE HandoffSpinning(a)
  BY <1>3, Zenon DEF HandoffSpinning
<1>4. CASE HandoffIdle(a)
  BY <1>4 DEF HandoffIdle
<1>5. CASE HandoffCas(a)
  BY <1>5 DEF HandoffCas, HandTo
<1>6. CASE HandoffIdleput(a)
  BY <1>6 DEF HandoffIdleput, HandTo, Return
<1> QED
  BY <1>1, <1>2, <1>3, <1>4, <1>5, <1>6, Zenon DEF Hand

\* Nor does sysmon lose its way in handoffp.
LEMMA SysmonHand ==
  ASSUME Consts, PTypes, GTypes, FlagTypes, Control, NEW a \in Actors, Hand(a), ~StartM(a)
  PROVE  a = Sysmon => SysmonControl'
<1> USE DEF Consts, PTypes, GTypes, FlagTypes, Control, SysmonControl, Handing
<1>1. CASE StartMUndo(a)
  BY <1>1, Zenon DEF StartMUndo, Return
<1>2. CASE Handoff(a)
  BY <1>2, Zenon DEF Handoff, HandTo
<1>3. CASE HandoffSpinning(a)
  BY <1>3, Zenon DEF HandoffSpinning
<1>4. CASE HandoffIdle(a)
  BY <1>4, Zenon DEF HandoffIdle
<1>5. CASE HandoffCas(a)
  BY <1>5, Zenon DEF HandoffCas, HandTo
<1>6. CASE HandoffIdleput(a)
  BY <1>6 DEF HandoffIdleput, HandTo, Return
<1> QED
  BY <1>1, <1>2, <1>3, <1>4, <1>5, <1>6, Zenon DEF Hand

\* startm moves two threads.
LEMMA ControlStartM ==
  ASSUME Consts, PTypes, GTypes, FlagTypes, Control, NEW a \in Actors, StartM(a)
  PROVE  Control'
<1>1. ASSUME NEW n \in midle, NEW q \in Ps, Start(a, n, q) PROVE Control'
  <2>0. /\ n \in Ms /\ n # a /\ n # Sysmon /\ pc[n] = "parked" /\ q # None
        /\ MControl(n) /\ SpinControl(n)
    BY <1>1, Zenon DEF Consts, Control, StartM
  <2>1. /\ argp' = [argp EXCEPT ![a] = None] /\ UNCHANGED <<ret, gp, left>>
        /\ argspin' = [argspin EXCEPT ![a] = pc'[a] = "undo"]
        /\ pc[a] = "startm" /\ midle = {k \in Ms : pc[k] = "parked"}
    BY Zenon DEF StartM, Control
  <2>2. /\ pc'[a] = ret[a] /\ pc'[n] = "sched" /\ argp'[a] = None /\ p'[n] = q
        /\ spinning'[n] = argspin[a] /\ ~argspin'[a]
        /\ \A b \in Actors : b # a /\ b # n => pc'[b] = pc[b]
        /\ \A b \in Actors : b # a => argp'[b] = argp[b] /\ argspin'[b] = argspin[b]
        /\ \A k \in Ms : k # n => p'[k] = p[k] /\ spinning'[k] = spinning[k]
    BY <1>1, <2>0, <2>1, Zenon DEF Start, Consts, PTypes, FlagTypes
  <2>3. a \in Ms => Moved(a)
    <3> SUFFICES ASSUME a \in Ms PROVE Moved(a)
      BY Zenon
    <3>1. p'[a] = p[a] /\ spinning'[a] = spinning[a] /\ MControl(a) /\ SpinControl(a)
      BY <2>0, <2>2, Zenon DEF Control
    <3>2. MControl(a)'
      BY <2>1, <2>2, <3>1, Zenon DEF MControl, WithP, WithoutP, Handing, WithG
    <3>3. SpinControl(a)'
      BY <2>1, <2>2, <3>1, Zenon DEF MControl, SpinControl, StartControl, Spinning
    <3> QED
      BY <3>2, <3>3, Zenon DEF Moved
  <2>4. Moved(n)
    BY <2>0, <2>1, <2>2, Zenon DEF Consts, Moved, MControl, SpinControl, StartControl,
        WithP, WithoutP, Handing, WithG, Spinning
  <2>5. ASSUME NEW k \in Ms, k # a, k # n PROVE Moved(k)
    <3>1. /\ pc'[k] = pc[k] /\ p'[k] = p[k] /\ argp'[k] = argp[k] /\ argspin'[k] = argspin[k]
          /\ spinning'[k] = spinning[k] /\ MControl(k) /\ SpinControl(k)
      BY <2>2, <2>5, Zenon DEF Consts, Control
    <3> QED
      BY <2>1, <3>1, Zenon DEF Moved, MControl, SpinControl, StartControl
  <2>6. SysmonControl'
    BY <2>0, <2>1, <2>2, ZenonT(40) DEF Consts, Control, SysmonControl, Handing
  <2>7. midle' = {k \in Ms : pc'[k] = "parked"}
    BY <1>1, <2>0, <2>1, <2>2, Zenon DEF Start, Consts, PTypes
  <2> QED
    BY <2>3, <2>4, <2>5, <2>6, <2>7, Zenon DEF Control, Moved
<1>2. CASE /\ argp[a] = None /\ Goto(a, "undo") /\ UNCHANGED <<midle, p, spinning>>
  <2> USE <1>2 DEF StartM, Consts, PTypes, GTypes, FlagTypes, Control
  <2>1. Others(a)
    BY Zenon DEF Others
  <2>2. a \in Ms => Moved(a)
    BY ZenonT(40) DEF Moved, MControl, SpinControl, StartControl, WithP, WithoutP, Handing,
        WithG, Spinning
  <2>3. a = Sysmon => SysmonControl'
    BY Zenon DEF SysmonControl, Handing
  <2> QED
    BY <2>1, <2>2, <2>3, ControlOf, Zenon DEF Moved
<1> QED
  BY <1>1, <1>2, Zenon DEF StartM, PTypes

\* retake moves sysmon.
LEMMA ControlRetake ==
  ASSUME Consts, PTypes, GTypes, FlagTypes, Control, Retake
  PROVE  Control'
<1> USE DEF Consts, PTypes, FlagTypes, Control, Retake
<1>0. PICK q \in syscallp : argp' = [argp EXCEPT ![Sysmon] = q]
  BY Zenon
<1>1. Others(Sysmon)
  BY <1>0, Zenon DEF Others
<1>2. SysmonControl'
  <2>1. /\ pc'[Sysmon] = "handoff" /\ argp'[Sysmon] \in syscallp /\ ret'[Sysmon] = "sysmon"
        /\ argspin' = argspin
    BY Zenon
  <2> QED
    BY <2>1, Zenon DEF SysmonControl, Handing
<1> QED
  BY <1>1, <1>2, ControlOf, Zenon

\* Every step keeps the threads on their way.
LEMMA ControlStep ==
  ASSUME Consts, PTypes, GTypes, FlagTypes, Control, Next, ~PreemptOne
  PROVE  Control'
<1> USE DEF Consts
<1>1. ASSUME NEW m \in Ms, User(m) \/ ExitSyscall(m) PROVE Control'
  BY <1>1, OthersUser, MovesUser, ControlOf, Zenon DEF Moved
<1>2. ASSUME NEW m \in Ms, Find(m) PROVE Control'
  BY <1>2, OthersFind, MovesFind, ControlOf, Zenon DEF Moved
<1>3. ASSUME NEW a \in Actors, Hand(a) PROVE Control'
  BY <1>3, OthersHand, MovesHand, SysmonHand, ControlOf, ControlStartM, Zenon DEF Moved
<1> QED
  BY <1>1, <1>2, <1>3, ControlRetake, Zenon DEF Next

-----------------------------------------------------------------------------
(* Types *)

\* No step leaves the types of the threads and the Ps: the operations of goroutines,
LEMMA PTypesUser ==
  ASSUME Consts, PTypes, Control, NEW m \in Ms, User(m) \/ ExitSyscall(m)
  PROVE  PTypes'
<1> USE DEF Consts, PTypes, Labels
<1>1. CASE Ready(m)
  BY <1>1, Zenon DEF Ready, Waiting
<1>2. CASE Park(m)
  BY <1>2, Zenon DEF Park
<1>3. CASE Gosched(m)
  BY <1>3, Zenon DEF Gosched
<1>4. CASE EnterSyscall(m)
  BY <1>4, Zenon DEF EnterSyscall, Control, MControl, WithP
<1>5. CASE EnterSyscallBlock(m)
  BY <1>5, Zenon DEF EnterSyscallBlock
<1>6. CASE ExitSyscall(m)
  BY <1>6, Zenon DEF ExitSyscall, CanReacquire
<1> QED
  BY <1>1, <1>2, <1>3, <1>4, <1>5, <1>6, Zenon DEF User

\* The same for schedule, findrunnable and wakep,
LEMMA PTypesFind ==
  ASSUME Consts, PTypes, Control, NEW m \in Ms, Find(m)
  PROVE  PTypes'
<1> USE DEF Consts, PTypes, Labels
<1>1. CASE Schedule(m)
  BY <1>1, Zenon DEF Schedule, GlobRunqGet, Found, Requeue
<1>2. CASE Global(m)
  BY <1>2, Zenon DEF Global, GlobRunqGet, Found
<1>3. CASE MaySpin(m)
  BY <1>3, Zenon DEF MaySpin
<1>4. CASE Spin(m)
  BY <1>4, Zenon DEF Spin
<1>5. CASE Steal(m)
  BY <1>5, Zenon DEF Steal, Found
<1>6. CASE Release(m)
  BY <1>6 DEF Release, GlobRunqGet, Found, Control, MControl, WithP
<1>7. CASE Unspin(m)
  BY <1>7, Zenon DEF Unspin, ToRecheck
<1>8. CASE Recheck(m)
  BY <1>8, Zenon DEF Recheck
<1>9. CASE RecheckGetP(m)
  BY <1>9 DEF RecheckGetP
<1>10. CASE Respin(m)
  BY <1>10, Zenon DEF Respin
<1>11. CASE StopM(m)
  BY <1>11, Zenon DEF StopM
<1>12. CASE ResetSpinning(m)
  BY <1>12, Zenon DEF ResetSpinning
<1>13. CASE Wakep(m)
  BY <1>13 DEF Wakep, Return
<1>14. CASE WakepSpin(m)
  BY <1>14, ZenonT(40) DEF WakepSpin, Return
<1>15. CASE ExitSyscall0(m)
  BY <1>15 DEF ExitSyscall0
<1> QED
  BY <1>1, <1>2, <1>3, <1>4, <1>5, <1>6, <1>7, <1>8, <1>9, <1>10, <1>11, <1>12, <1>13,
      <1>14, <1>15, Zenon DEF Find

\* and for startm, handoffp and sysmon.
LEMMA PTypesHand ==
  ASSUME Consts, PTypes, Control, NEW a \in Actors, Hand(a) \/ Retake
  PROVE  PTypes'
<1> USE DEF Consts, PTypes, Labels
<1>1. CASE StartM(a)
  BY <1>1 DEF StartM, Start
<1>2. CASE StartMUndo(a)
  BY <1>2, Zenon DEF StartMUndo, Return
<1>3. CASE Handoff(a)
  BY <1>3, Zenon DEF Handoff, HandTo
<1>4. CASE HandoffSpinning(a)
  BY <1>4, Zenon DEF HandoffSpinning
<1>5. CASE HandoffIdle(a)
  BY <1>5, Zenon DEF HandoffIdle
<1>6. CASE HandoffCas(a)
  BY <1>6, Zenon DEF HandoffCas, HandTo
<1>7. CASE HandoffIdleput(a)
  BY <1>7 DEF HandoffIdleput, HandTo, Return, Control, MControl, SysmonControl, Handing,
      Actors
<1>8. CASE Retake
  BY <1>8, Zenon DEF Retake
<1> QED
  BY <1>1, <1>2, <1>3, <1>4, <1>5, <1>6, <1>7, <1>8, Zenon DEF Hand

\* A step that moves no goroutine.
LEMMA GTypesKept ==
  ASSUME GTypes, UNCHANGED <<queues, gp, loop, readied>>
  PROVE  GTypes'
BY Zenon DEF GTypes

\* Goroutines taken from the global queue stay goroutines,
LEMMA GlobTypes ==
  ASSUME GTypes, NEW m \in Ms, p[m] \in Ps,
         NEW S \in SUBSET globq, NEW g \in S, FromGlobal(m, S, g)
  PROVE  runq' \in [Ps -> SUBSET Gs] /\ globq' \subseteq Gs /\ gp' \in [Ms -> Gs \cup {None}]
<1>1. runq[p[m]] \cup (S \ {g}) \in SUBSET Gs
  BY Zenon DEF GTypes
<1> QED
  BY <1>1, Zenon DEF GTypes, FromGlobal, Found

\* and so do stolen ones.
LEMMA StealTypes ==
  ASSUME GTypes, NEW m \in Ms, p[m] \in Ps, NEW q \in Ps,
         NEW S \in SUBSET runq[q], NEW g \in S, FromP(m, q, S, g)
  PROVE  runq' \in [Ps -> SUBSET Gs] /\ globq' \subseteq Gs /\ gp' \in [Ms -> Gs \cup {None}]
<1>1. S \in SUBSET Gs /\ runq[q] \in SUBSET Gs
  BY Zenon DEF GTypes
<1>2. \A r \in Ps : runq'[r] \in SUBSET Gs
  BY <1>1, Zenon DEF GTypes, FromP
<1> QED
  BY <1>1, <1>2, Zenon DEF GTypes, FromP, Found

\* No step leaves the types of the goroutines' places: the operations of goroutines,
LEMMA GTypesUser ==
  ASSUME Consts, PTypes, GTypes, Control, NEW m \in Ms, User(m) \/ ExitSyscall(m)
  PROVE  GTypes'
<1>1. CASE ExitSyscall(m)
  BY <1>1, GTypesKept, Zenon DEF ExitSyscall
<1>2. CASE Ready(m)
  <2>0. p[m] \in Ps
    BY <1>2, Zenon DEF Consts, PTypes, Control, MControl, WithP, Ready
  <2>1. PICK g \in Waiting : runq' = [runq EXCEPT ![p[m]] = @ \cup {g}]
    BY <1>2, Zenon DEF Ready
  <2>2. runq[p[m]] \cup {g} \in SUBSET Gs
    BY <2>0, Zenon DEF GTypes, Waiting
  <2>3. runq' \in [Ps -> SUBSET Gs]
    BY <2>1, <2>2, Zenon DEF GTypes
  <2> QED
    BY <1>2, <2>3 DEF Consts, GTypes, Ready
<1>3. CASE Park(m)
  BY <1>3, Zenon DEF Consts, GTypes, Park
<1>4. CASE Gosched(m)
  BY <1>4 DEF Consts, GTypes, PTypes, Control, MControl, WithG, Gosched
<1>5. CASE EnterSyscall(m)
  BY <1>5 DEF Consts, GTypes, EnterSyscall
<1>6. CASE EnterSyscallBlock(m)
  BY <1>6 DEF Consts, GTypes, EnterSyscallBlock
<1> QED
  BY <1>1, <1>2, <1>3, <1>4, <1>5, <1>6, Zenon DEF User

\* The same for schedule, findrunnable and wakep,
LEMMA GTypesFind ==
  ASSUME Consts, PTypes, GTypes, Control, nmspinning \in Nat, NEW m \in Ms, Find(m)
  PROVE  GTypes'
<1>1. CASE RecheckGetP(m) \/ Respin(m) \/ StopM(m) \/ ResetSpinning(m) \/ Wakep(m)
           \/ WakepSpin(m)
  BY <1>1, GTypesKept, Zenon DEF RecheckGetP, Respin, StopM, ResetSpinning, Wakep, WakepSpin
<1>2. CASE Schedule(m)
  <2>0. p[m] \in Ps
    BY <1>2, Zenon DEF Consts, PTypes, Control, MControl, WithP, Schedule
  <2>1. UNCHANGED <<loop, readied>>
    BY <1>2, Zenon DEF Schedule
  <2>2. CASE \E S \in SUBSET globq : \E g \in S : FromGlobal(m, S, g)
    BY <2>0, <2>1, <2>2, GlobTypes, Zenon DEF GTypes
  <2>3. CASE \E g \in runq[p[m]] : /\ runq' = [runq EXCEPT ![p[m]] = @ \ {g}]
                                  /\ \/ globq' = globq /\ Found(m, g)
                                     \/ globq' = globq \cup {g} /\ UNCHANGED <<gp, pc>>
    BY <2>0, <2>1, <2>3 DEF GTypes, Found
  <2>4. CASE UNCHANGED <<queues, gp>>
    BY <2>1, <2>4, Zenon DEF GTypes
  <2> QED
    BY <1>2, <2>2, <2>3, <2>4, ScheduleTakes, Zenon
<1>3. CASE Global(m)
  <2>0. p[m] \in Ps
    BY <1>3, Zenon DEF Consts, PTypes, Control, MControl, WithP, Global
  <2>1. left' \in [Ms -> SUBSET Ps] /\ seen' \in [Ms -> Nat] /\ readied' = readied
    BY <1>3, Zenon DEF GTypes, Global
  <2>2. CASE \E S \in SUBSET globq : \E g \in S : FromGlobal(m, S, g)
    BY <2>0, <2>1, <2>2, GlobTypes, Zenon DEF GTypes
  <2>3. CASE UNCHANGED <<queues, gp>>
    BY <2>1, <2>3, Zenon DEF GTypes
  <2> QED
    BY <1>3, <2>2, <2>3, GlobTakes, Zenon DEF Global
<1>4. CASE MaySpin(m)
  BY <1>4, Zenon DEF Consts, GTypes, MaySpin
<1>5. CASE Spin(m)
  BY <1>5, Zenon DEF Consts, GTypes, Spin
<1>6. CASE Steal(m)
  <2>0. p[m] \in Ps
    BY <1>6, Zenon DEF Consts, PTypes, Control, MControl, WithP, Steal
  <2>1. left' \in [Ms -> SUBSET Ps] /\ seen' = seen /\ readied' = readied /\ globq' = globq
    BY <1>6, Zenon DEF GTypes, Steal
  <2>2. CASE \E q \in left[m] : \E S \in SUBSET runq[q] : \E g \in S : FromP(m, q, S, g)
    BY <2>0, <2>1, <2>2, StealTypes, Zenon DEF GTypes
  <2>3. CASE UNCHANGED <<runq, gp>>
    BY <2>1, <2>3, Zenon DEF GTypes
  <2> QED
    BY <1>6, <2>2, <2>3, StealTakes, Zenon
<1>7. CASE Release(m)
  <2>0. p[m] \in Ps
    BY <1>7, Zenon DEF Consts, PTypes, Control, MControl, WithP, Release
  <2>1. left' \in [Ms -> SUBSET Ps] /\ seen' \in [Ms -> Nat] /\ readied' = readied
    BY <1>7, Zenon DEF GTypes, Release
  <2>2. CASE \E S \in SUBSET globq : \E g \in S : FromGlobal(m, S, g)
    BY <2>0, <2>1, <2>2, GlobTypes, Zenon DEF GTypes
  <2>3. CASE UNCHANGED <<queues, gp>>
    BY <2>1, <2>3, Zenon DEF GTypes
  <2> QED
    BY <1>7, <2>2, <2>3, GlobTakes, Zenon DEF Release
<1>8. CASE Unspin(m)
  BY <1>8, Zenon DEF Consts, GTypes, Unspin, ToRecheck
<1>9. CASE Recheck(m)
  BY <1>9 DEF Consts, GTypes, Recheck
<1>10. CASE ExitSyscall0(m)
  BY <1>10 DEF Consts, GTypes, PTypes, Control, MControl, WithG, ExitSyscall0
<1> QED
  BY <1>1, <1>2, <1>3, <1>4, <1>5, <1>6, <1>7, <1>8, <1>9, <1>10, Zenon DEF Find

\* and for startm, handoffp and sysmon.
LEMMA GTypesHand ==
  ASSUME GTypes, NEW a \in Actors, Hand(a) \/ Retake
  PROVE  GTypes'
<1>1. CASE StartM(a) \/ StartMUndo(a) \/ Handoff(a) \/ HandoffSpinning(a)
           \/ HandoffIdle(a) \/ HandoffCas(a) \/ HandoffIdleput(a) \/ Retake
  BY <1>1, GTypesKept, Zenon DEF StartM, StartMUndo, Handoff, HandoffSpinning, HandoffIdle,
      HandoffCas, HandoffIdleput, Retake
<1> QED
  BY <1>1, Zenon DEF Hand

\* A step that changes no flag.
LEMMA FlagTypesKept ==
  ASSUME FlagTypes, UNCHANGED <<spinning, argspin>>
  PROVE  FlagTypes'
BY Zenon DEF FlagTypes

\* No step leaves the types of the flags: the operations of goroutines,
LEMMA FlagTypesUser ==
  ASSUME FlagTypes, NEW m \in Ms, User(m) \/ ExitSyscall(m)
  PROVE  FlagTypes'
<1>1. CASE Ready(m) \/ Park(m) \/ Gosched(m) \/ EnterSyscall(m) \/ EnterSyscallBlock(m)
           \/ ExitSyscall(m)
  BY <1>1, FlagTypesKept, Zenon DEF Ready, Park, Gosched, EnterSyscall,
      EnterSyscallBlock, ExitSyscall
<1> QED
  BY <1>1, Zenon DEF User

\* The same for schedule, findrunnable and wakep,
LEMMA FlagTypesFind ==
  ASSUME FlagTypes, NEW m \in Ms, Find(m)
  PROVE  FlagTypes'
<1>1. CASE Schedule(m) \/ Global(m) \/ MaySpin(m) \/ Steal(m) \/ Release(m) \/ Recheck(m)
           \/ RecheckGetP(m) \/ StopM(m) \/ Wakep(m) \/ ExitSyscall0(m)
  BY <1>1, FlagTypesKept, Zenon DEF Schedule, Global, MaySpin, Steal, Release, Recheck,
      RecheckGetP, StopM, Wakep, ExitSyscall0
<1>2. CASE Spin(m)
  BY <1>2, Zenon DEF Spin, FlagTypes
<1>3. CASE Unspin(m)
  BY <1>3, Zenon DEF Unspin, ToRecheck, FlagTypes
<1>4. CASE Respin(m)
  BY <1>4, Zenon DEF Respin, FlagTypes
<1>5. CASE ResetSpinning(m)
  BY <1>5, Zenon DEF ResetSpinning, FlagTypes
<1>6. CASE WakepSpin(m)
  BY <1>6, Zenon DEF WakepSpin, Return, FlagTypes
<1> QED
  BY <1>1, <1>2, <1>3, <1>4, <1>5, <1>6, Zenon DEF Find

\* and for startm, handoffp and sysmon.
LEMMA FlagTypesHand ==
  ASSUME FlagTypes, NEW a \in Actors, Hand(a) \/ Retake
  PROVE  FlagTypes'
<1>1. CASE HandoffSpinning(a) \/ HandoffIdle(a) \/ Retake
  BY <1>1, FlagTypesKept, Zenon DEF HandoffSpinning, HandoffIdle, Retake
<1>2. CASE StartM(a)
  BY <1>2, Zenon DEF StartM, Start, FlagTypes
<1>3. CASE StartMUndo(a)
  BY <1>3, Zenon DEF StartMUndo, Return, FlagTypes
<1>4. CASE Handoff(a)
  BY <1>4, Zenon DEF Handoff, HandTo, FlagTypes
<1>5. CASE HandoffCas(a)
  BY <1>5, Zenon DEF HandoffCas, HandTo, FlagTypes
<1>6. CASE HandoffIdleput(a)
  BY <1>6, Zenon DEF HandoffIdleput, HandTo, Return, FlagTypes
<1> QED
  BY <1>1, <1>2, <1>3, <1>4, <1>5, <1>6, Zenon DEF Hand

\* A goroutine is told to stop while it runs.
LEMMA ToldStep ==
  ASSUME PTypes, GTypes, Control, Told, Next
  PROVE  Told'
<1> USE DEF Told
<1>1. ASSUME NEW m \in Ms, User(m) \/ ExitSyscall(m) PROVE preempt' = preempt
  BY <1>1, Zenon DEF User, Ready, Park, Gosched, EnterSyscall, EnterSyscallBlock, ExitSyscall
<1>2. ASSUME NEW m \in Ms, Find(m) PROVE preempt' \subseteq preempt
  <2>1. CASE Schedule(m)
    BY <2>1, Zenon DEF Schedule, Requeue, GlobRunqGet, Found
  <2>2. CASE Global(m) \/ Release(m)
    BY <2>2, Zenon DEF Global, Release, GlobRunqGet, Found
  <2>3. CASE Steal(m)
    BY <2>3, Zenon DEF Steal, Found
  <2>4. CASE ExitSyscall0(m)
    BY <2>4, Zenon DEF ExitSyscall0
  <2>5. CASE MaySpin(m) \/ Spin(m) \/ Unspin(m) \/ Recheck(m) \/ RecheckGetP(m) \/ Respin(m)
             \/ StopM(m) \/ ResetSpinning(m) \/ Wakep(m) \/ WakepSpin(m)
    BY <2>5, Zenon DEF MaySpin, Spin, Unspin, Recheck, RecheckGetP, Respin, StopM,
        ResetSpinning, Wakep, WakepSpin
  <2> QED
    BY <1>2, <2>1, <2>2, <2>3, <2>4, <2>5, Zenon DEF Find
<1>3. ASSUME NEW a \in Actors, Hand(a) \/ Retake PROVE preempt' = preempt
  BY <1>3, Zenon DEF Hand, StartM, StartMUndo, Handoff, HandoffSpinning, HandoffIdle,
      HandoffCas, HandoffIdleput, Retake
<1>4. CASE PreemptOne
  <2>1. PICK m \in Ms : pc[m] = "go" /\ preempt' = preempt \cup {gp[m]}
    BY <1>4, Zenon DEF PreemptOne
  <2>2. gp[m] \in Gs
    BY <2>1, Zenon DEF GTypes, Control, MControl, WithG
  <2> QED
    BY <2>1, <2>2, Zenon
<1> QED
  BY <1>1, <1>2, <1>3, <1>4, Zenon DEF Next, Actors

-----------------------------------------------------------------------------
(* The inductive invariant *)

\* schedinit leaves main on the first P, the others idle.
LEMMA InitIInv ==
  ASSUME Cardinality({}) = 0, Init
  PROVE  IInv
<1> USE ConstsHold DEF Init, Consts
<1>1. FlagTypes /\ Told
  BY Zenon DEF FlagTypes, Told
<1>2. 1 \in Ps
  BY SchedAssumption DEF Ps
<1>3. PTypes
  BY <1>2, Zenon DEF PTypes, Labels
<1>4. GTypes
  BY SchedAssumption DEF GTypes
<1>5. Control
  <2>1. \A m \in Ms : MControl(m)
    BY <1>2, SchedAssumption, Zenon DEF MControl, WithP, WithoutP, WithG, Handing
  <2>2. \A m \in Ms : SpinControl(m)
    BY SchedAssumption, Zenon DEF SpinControl, StartControl
  <2>3. SysmonControl
    BY SchedAssumption, Zenon DEF SysmonControl
  <2>4. midle = {m \in Ms : pc[m] = "parked"}
    BY Zenon
  <2> QED
    BY <2>1, <2>2, <2>3, <2>4, Zenon DEF Control
<1>6. POwned
  BY <1>2, SchedAssumption, Zenon DEF POwned
<1>7. GOwned
  BY Zenon DEF GOwned
<1>8. SpinCount
  <2>1. Spinners = {} /\ Starters = {}
    BY Zenon DEF Spinners, Starters
  <2> QED
    BY <2>1 DEF SpinCount
<1> QED
  BY <1>1, <1>3, <1>4, <1>5, <1>6, <1>7, <1>8, Zenon DEF IInv

\* nmspinning is never negative.
LEMMA SpinNat ==
  ASSUME ActorSets, SpinCount
  PROVE  nmspinning \in Nat
<1>1. Spinners \in SUBSET Actors /\ Starters \in SUBSET Actors /\ Sysmon \in Actors
  BY Zenon DEF Spinners, Starters, Actors
<1> DEFINE k == Cardinality(Spinners)
           l == Cardinality(Starters)
<1>2. k \in Nat /\ l \in Nat /\ nmspinning = k + l
  BY <1>1, Zenon DEF ActorSets, SpinCount
<1> HIDE DEF k, l
<1> QED
  BY <1>2

\* Every step of the scheduler preserves the inductive invariant.
LEMMA NextIInv ==
  ASSUME ActorSets, IInv, [Next]_vars
  PROVE  IInv'
<1>1. CASE Next /\ ~PreemptOne
  <2>0. /\ Consts /\ PTypes /\ GTypes /\ FlagTypes /\ Told /\ Control
        /\ POwned /\ GOwned /\ SpinCount /\ nmspinning \in Nat /\ Sysmon \in Actors
    BY ConstsHold, SpinNat, Zenon DEF IInv, Consts
  <2> HIDE DEF queues, idle, call, loop, own, hist, At, Goto
  <2>1. Control' /\ Told'
    BY <1>1, <2>0, ControlStep, ToldStep, Zenon
  <2>2. CASE \E m \in Ms : User(m) \/ ExitSyscall(m)
    BY <2>0, <2>1, <2>2, PTypesUser, GTypesUser, FlagTypesUser, POwnedUser, GOwnedUser,
       SpinCountUser, Zenon DEF IInv
  <2>3. CASE \E m \in Ms : Find(m)
    BY <2>0, <2>1, <2>3, PTypesFind, GTypesFind, FlagTypesFind, POwnedFind, GOwnedFind,
       SpinCountFind, Zenon DEF IInv
  <2>4. CASE \E a \in Actors : Hand(a) \/ Retake
    BY <2>0, <2>1, <2>4, PTypesHand, GTypesHand, FlagTypesHand, POwnedHand, GOwnedHand,
       SpinCountHand, Zenon DEF IInv
  <2> QED
    BY <1>1, <2>0, <2>2, <2>3, <2>4, Zenon DEF Next
<1>2. CASE UNCHANGED vars \/ PreemptOne
  <2>0. /\ UNCHANGED <<pc, runq, globq, pidle, midle, nmspinning, syscallp>>
        /\ UNCHANGED <<ret, argp, argspin, left, seen, p, oldp, gp, spinning, readied>>
    BY <1>2, Zenon DEF PreemptOne, vars
  <2> USE <2>0 DEF IInv
  <2>1. PTypes' /\ GTypes' /\ FlagTypes'
    BY Zenon DEF PTypes, GTypes, FlagTypes
  <2>2. Control'
    BY Zenon DEF Control, MControl, SpinControl, StartControl, SysmonControl
  <2>3. POwned' /\ GOwned' /\ SpinCount'
    BY PKept, GKept, SpinKept, Zenon
  <2>4. Told'
    <3>1. CASE UNCHANGED vars
      BY <3>1, Zenon DEF vars, Told
    <3>2. CASE PreemptOne
      BY <3>2, ToldStep, Zenon DEF Next
    <3> QED
      BY <1>2, <3>1, <3>2, Zenon
  <2> QED
    BY <2>1, <2>2, <2>3, <2>4, Zenon
<1> QED
  BY <1>1, <1>2, Zenon

-----------------------------------------------------------------------------
(* The theorems *)

INSTANCE FiniteSetTheorems

\* The threads are finitely many, and sets of them are counted as usual.
LEMMA ActorSetsHold == ActorSets
<1> SUFFICES ASSUME NEW S \in SUBSET Actors, NEW a \in Actors
             PROVE  /\ Cardinality(S) \in Nat
                    /\ a \notin S => Cardinality(S \cup {a}) = Cardinality(S) + 1
                    /\ a \in S => Cardinality(S \ {a}) = Cardinality(S) - 1
  BY Zenon DEF ActorSets
<1>1. IsFiniteSet(Actors)
  BY SchedAssumption, FS_AddElement, Zenon DEF Actors
<1>2. IsFiniteSet(S)
  BY <1>1, FS_Subset, Zenon
<1> QED
  BY <1>2, FS_CardinalityType, FS_AddElement, FS_RemoveElement, Zenon

\* The inductive invariant holds in every reachable state.
THEOREM Invariance == Spec => []IInv
<1>1. Init => IInv
  BY InitIInv, FS_EmptySet, Zenon
<1>2. IInv /\ [Next]_vars => IInv'
  BY NextIInv, ActorSetsHold, Zenon
<1> QED
  BY <1>1, <1>2, PTL DEF Spec

\* A set whose members are all equal is empty or a singleton.
LEMMA AtMostOne ==
  ASSUME NEW S, \A x, y \in S : x = y
  PROVE  Cardinality(S) = IF S = {} THEN 0 ELSE 1
<1>1. CASE S = {}
  BY <1>1, FS_EmptySet, Zenon
<1>2. CASE S # {}
  <2>1. PICK x : x \in S
    BY <1>2, Zenon
  <2>2. S = {x}
    BY <2>1, Zenon
  <2> QED
    BY <1>2, <2>2, FS_Singleton, Zenon
<1> QED
  BY <1>1, <1>2, Zenon

\* Where each P is, is what EachPHasOneOwner counts.
LEMMA OneOwner == IInv => EachPHasOneOwner
<1> SUFFICES ASSUME IInv PROVE EachPHasOneOwner
  BY Zenon
<1>0. TypeOK
  <2>1. nmspinning \in Nat
    BY ActorSetsHold, SpinNat, Zenon DEF IInv
  <2> QED
    BY <2>1, Zenon DEF IInv, PTypes, GTypes, FlagTypes, Told, TypeOK
<1>1. ASSUME NEW q \in Ps
      PROVE  Cardinality({m \in Ms : p[m] = q}) + Cardinality({a \in Actors : argp[a] = q})
               + (IF q \in pidle THEN 1 ELSE 0) + (IF q \in syscallp THEN 1 ELSE 0) = 1
  <2> DEFINE OnM == {m \in Ms : p[m] = q}
             OnA == {a \in Actors : argp[a] = q}
  <2>0. POwned /\ q # None
    BY SchedAssumption, Zenon DEF IInv
  <2>1. (\A x, y \in OnM : x = y) /\ (\A x, y \in OnA : x = y)
    BY <2>0 DEF POwned
  <2>2. /\ OnM # {} => OnA = {} /\ q \notin pidle /\ q \notin syscallp
        /\ OnA # {} => q \notin pidle /\ q \notin syscallp
        /\ q \in pidle => q \notin syscallp
        /\ OnM = {} /\ OnA = {} => q \in pidle \/ q \in syscallp
    BY <2>0 DEF POwned
  <2> HIDE DEF OnM, OnA
  <2>3. /\ Cardinality(OnM) = IF OnM = {} THEN 0 ELSE 1
        /\ Cardinality(OnA) = IF OnA = {} THEN 0 ELSE 1
    BY <2>1, AtMostOne, Zenon
  <2>4. Cardinality(OnM) + Cardinality(OnA)
          + (IF q \in pidle THEN 1 ELSE 0) + (IF q \in syscallp THEN 1 ELSE 0) = 1
    BY <2>2, <2>3
  <2> QED
    BY <2>4, Zenon DEF OnM, OnA
<1> QED
  BY <1>0, <1>1, Zenon DEF EachPHasOneOwner

\* Where each goroutine is, is what EachGOnce counts.
LEMMA OncePerG == IInv => EachGOnce
<1> SUFFICES ASSUME IInv, NEW g \in Gs
             PROVE  Cardinality({m \in Ms : gp[m] = g}) + (IF g \in globq THEN 1 ELSE 0)
                      + Cardinality({q \in Ps : g \in runq[q]}) <= 1
  BY Zenon DEF EachGOnce
<1> DEFINE OnM == {m \in Ms : gp[m] = g}
           InQ == {q \in Ps : g \in runq[q]}
<1>0. GOwned /\ g # None
  BY SchedAssumption, Zenon DEF IInv
<1>1. (\A x, y \in OnM : x = y) /\ (\A x, y \in InQ : x = y)
  BY <1>0, Zenon DEF GOwned
<1>2. /\ OnM # {} => InQ = {} /\ g \notin globq
      /\ InQ # {} => g \notin globq
  BY <1>0 DEF GOwned
<1> HIDE DEF OnM, InQ
<1>3. /\ Cardinality(OnM) = IF OnM = {} THEN 0 ELSE 1
      /\ Cardinality(InQ) = IF InQ = {} THEN 0 ELSE 1
  BY <1>1, AtMostOne, Zenon
<1>4. Cardinality(OnM) + (IF g \in globq THEN 1 ELSE 0) + Cardinality(InQ) <= 1
  BY <1>2, <1>3
<1> QED
  BY <1>4, Zenon DEF OnM, InQ

\* Every P has exactly one owner at all times, for any number of Ms, Ps and
\* goroutines: an M, the idle list, a system call, or a thread handing it over.
THEOREM OwnerOfEachP == Spec => []EachPHasOneOwner
BY Invariance, OneOwner, PTL

\* No goroutine is queued twice, runs twice, or is queued while it runs.
THEOREM PlaceOfEachG == Spec => []EachGOnce
BY Invariance, OncePerG, PTL

\* sched.nmspinning counts the spinning Ms and the startm calls that are about
\* to start one or to give up, so the checks for a negative nmspinning in
\* resetspinning and findrunnable never fail.
THEOREM SpinningCounted == Spec => [](SpinCount /\ nmspinning \in Nat)
<1>1. IInv => SpinCount /\ nmspinning \in Nat
  BY ActorSetsHold, SpinNat, Zenon DEF IInv
<1> QED
  BY <1>1, Invariance, PTL
=============================================================================
