------------------------------- MODULE Sched -------------------------------
(***************************************************************************)
(* The thread parking and unparking of the goroutine scheduler             *)
(* (libgo/go/runtime/proc.go).  A worker thread (an M) needs a processor   *)
(* (a P) to run goroutines.  An M without work spins, looking through the  *)
(* queues of the other Ps, then gives its P back, drops out of the count   *)
(* of spinning Ms, looks at every queue once more and parks.  An M that    *)
(* makes a goroutine runnable wakes another M only if some P is idle and   *)
(* nobody spins.  Around a system call an M leaves its P behind: it hands  *)
(* the P off itself, or sysmon retakes it, or the M finds it again.        *)
(*                                                                         *)
(* Each action is one atomic operation of the code or one section under    *)
(* sched.lock.  The order inside a run queue, runnext and the ring it is   *)
(* kept in are left out: a run queue is the set of its goroutines, and a   *)
(* theft is one step.  An M that does not exist yet is an idle M, and      *)
(* an M that startm wakes owns its P from the wakeup on (m.nextp).  The    *)
(* network poller is not started, no timer is set and no collection runs.  *)
(***************************************************************************)
EXTENDS Integers, FiniteSets, FiniteSetsExt

CONSTANTS
  Ms,          \* the worker threads
  M0,          \* the thread that runs main
  Sysmon,      \* the monitor thread; it has no P
  NP,          \* gomaxprocs
  Gs,          \* the goroutines
  G0,          \* the main goroutine
  None,
  Ops,         \* what goroutines do: some of "gosched", "syscall", "block"
  MaxReady     \* bound: how often a goroutine is made runnable or makes a call

Ps == 1 .. NP
Actors == Ms \cup {Sysmon}

ASSUME SchedAssumption ==
  /\ NP \in Nat \ {0} /\ MaxReady \in Nat
  /\ IsFiniteSet(Ms) /\ IsFiniteSet(Gs)
  /\ M0 \in Ms /\ G0 \in Gs /\ Sysmon \notin Ms
  /\ None \notin Ps \cup Gs

VARIABLES
  runq,        \* per P: its run queue
  globq,       \* sched.runq
  pidle,       \* sched.pidle, sched.npidle and idlepMask
  midle,       \* sched.midle: the parked Ms
  nmspinning,  \* sched.nmspinning
  syscallp,    \* the Ps in status _Psyscall
  pc,          \* per actor: where it is
  ret,         \* per actor: where wakep, startm or handoffp returns to
  p,           \* per M: m.p
  oldp,        \* per M: m.oldp
  gp,          \* per M: the goroutine it runs or is about to run
  preempt,     \* the goroutines with gp.preempt set
  spinning,    \* per M: m.spinning
  argp,        \* per actor: the P that startm or handoffp was given
  argspin,     \* per actor: the spinning argument of startm
  left,        \* per M: the Ps its loop has not looked at yet
  seen,        \* per M: the value of nmspinning it has loaded
  readied,     \* how many goroutines were made runnable
  gap          \* history: a window was hit (see DanceLosesNothing)

queues == <<runq, globq>>
idle   == <<pidle, midle, nmspinning, syscallp>>
call   == <<ret, argp, argspin>>
loop   == <<left, seen>>
own    == <<p, oldp, gp, spinning, preempt>>
hist   == <<readied, gap>>
vars   == <<queues, idle, call, loop, own, pc, hist>>

npidle == Cardinality(pidle)

Runnable == globq \cup UNION {runq[q] : q \in Ps}
Waiting  == Gs \ (Runnable \cup {gp[m] : m \in Ms})

Init ==
  /\ runq = [q \in Ps |-> {}] /\ globq = {}
  /\ pidle = Ps \ {1} /\ midle = Ms \ {M0}
  /\ nmspinning = 0 /\ syscallp = {}
  /\ pc = [a \in Actors |-> IF a = M0 THEN "go"
                            ELSE IF a = Sysmon THEN "sysmon" ELSE "parked"]
  /\ ret = [a \in Actors |-> IF a = Sysmon THEN "sysmon" ELSE "go"]
  /\ p = [m \in Ms |-> IF m = M0 THEN 1 ELSE None]
  /\ oldp = [m \in Ms |-> None]
  /\ gp = [m \in Ms |-> IF m = M0 THEN G0 ELSE None]
  /\ spinning = [m \in Ms |-> FALSE]
  /\ preempt = {}
  /\ argp = [a \in Actors |-> None] /\ argspin = [a \in Actors |-> FALSE]
  /\ left = [m \in Ms |-> {}] /\ seen = [m \in Ms |-> 0]
  /\ readied = 0 /\ gap = FALSE

At(a, l) == pc[a] = l
Goto(a, l) == pc' = [pc EXCEPT ![a] = l]

\* History: a window is hit if c.
Gap(c) == gap' = (gap \/ c)

-----------------------------------------------------------------------------
(* What a running goroutine does *)

\* ready and newproc: on the own run queue, then wakep.
Ready(m) ==
  /\ At(m, "go") /\ readied < MaxReady
  /\ \E g \in Waiting : runq' = [runq EXCEPT ![p[m]] = @ \cup {g}]
  /\ readied' = readied + 1
  /\ ret' = [ret EXCEPT ![m] = "go"]
  /\ Goto(m, "wakep")
  /\ UNCHANGED <<globq, idle, own, argp, argspin, loop, gap>>

\* park_m: the goroutine waits; the M looks for another one.
Park(m) ==
  /\ At(m, "go")
  /\ gp' = [gp EXCEPT ![m] = None]
  /\ Goto(m, "sched")
  /\ UNCHANGED <<queues, idle, p, oldp, spinning, preempt, call, loop, hist>>

\* goschedImpl, of Gosched and of a goroutine that finds its gp.preempt set
\* (checkPreempt, which exitsyscall and others call).  Window: it goes to the
\* global queue and nobody is woken.
Gosched(m) ==
  /\ "gosched" \in Ops /\ At(m, "go") /\ readied < MaxReady
  /\ globq' = globq \cup {gp[m]}
  /\ gp' = [gp EXCEPT ![m] = None]
  /\ readied' = readied + 1
  /\ Gap(pidle # {})
  /\ Goto(m, "sched")
  /\ UNCHANGED <<runq, idle, p, oldp, spinning, preempt, call, loop>>

\* reentersyscall: the P stays behind in status _Psyscall.
EnterSyscall(m) ==
  /\ "syscall" \in Ops /\ At(m, "go") /\ readied < MaxReady
  /\ oldp' = [oldp EXCEPT ![m] = p[m]]
  /\ p' = [p EXCEPT ![m] = None]
  /\ syscallp' = syscallp \cup {p[m]}
  /\ readied' = readied + 1
  /\ Goto(m, "syscall")
  /\ UNCHANGED <<queues, pidle, midle, nmspinning, gp, spinning, preempt, call, loop,
                 gap>>

\* reentersyscallblock: the M hands its P off itself.
EnterSyscallBlock(m) ==
  /\ "block" \in Ops /\ At(m, "go") /\ readied < MaxReady
  /\ p' = [p EXCEPT ![m] = None]
  /\ argp' = [argp EXCEPT ![m] = p[m]]
  /\ ret' = [ret EXCEPT ![m] = "syscall"]
  /\ readied' = readied + 1
  /\ Goto(m, "handoff")
  /\ UNCHANGED <<queues, idle, oldp, gp, spinning, preempt, argspin, loop, gap>>

\* (TakesOldP: without the compare-and-swap on the status.)
TakesOldP(m) == oldp[m] # None
CanReacquire(m) == oldp[m] # None /\ oldp[m] \in syscallp

\* exitsyscall: take the old P back if it is still in a system call, even a
\* later one of another M.
ExitSyscall(m) ==
  /\ At(m, "syscall")
  /\ oldp' = [oldp EXCEPT ![m] = None]
  /\ IF CanReacquire(m)
     THEN /\ syscallp' = syscallp \ {oldp[m]}
          /\ p' = [p EXCEPT ![m] = oldp[m]]
          /\ Goto(m, "go")
     ELSE /\ Goto(m, "exit0") /\ UNCHANGED <<syscallp, p>>
  /\ UNCHANGED <<queues, pidle, midle, nmspinning, gp, spinning, preempt, call, loop,
                 hist>>

\* exitsyscallfast_pidle and exitsyscall0: an idle P if there is one, else
\* the goroutine goes to the global queue and the M stops.  The latter takes
\* the idle P through execute, which clears gp.preempt; the former does not.
ExitSyscall0(m) ==
  /\ At(m, "exit0")
  /\ \/ /\ \E q \in pidle : /\ pidle' = pidle \ {q}
                            /\ p' = [p EXCEPT ![m] = q]
        /\ preempt' \in {preempt, preempt \ {gp[m]}}
        /\ Goto(m, "go")
        /\ UNCHANGED <<globq, gp>>
     \/ /\ pidle = {}
        /\ globq' = globq \cup {gp[m]}
        /\ gp' = [gp EXCEPT ![m] = None]
        /\ Goto(m, "stopm")
        /\ UNCHANGED <<pidle, p, preempt>>
  /\ UNCHANGED <<runq, midle, nmspinning, syscallp, oldp, spinning, call, loop, hist>>

-----------------------------------------------------------------------------
(* wakep and startm *)

Return(a) == Goto(a, ret[a])

\* wakep: the load of npidle.
Wakep(m) ==
  /\ At(m, "wakep")
  /\ IF npidle = 0 THEN Return(m) ELSE Goto(m, "wakep2")
  /\ UNCHANGED <<queues, idle, own, call, loop, hist>>

\* wakep: nmspinning from 0 to 1, or somebody spins already.
WakepSpin(m) ==
  /\ At(m, "wakep2")
  /\ IF nmspinning = 0
     THEN /\ nmspinning' = nmspinning + 1
          /\ argp' = [argp EXCEPT ![m] = None]
          /\ argspin' = [argspin EXCEPT ![m] = TRUE]
          /\ Goto(m, "startm")
     ELSE Return(m) /\ UNCHANGED <<nmspinning, argp, argspin>>
  /\ UNCHANGED <<queues, pidle, midle, syscallp, own, ret, loop, hist>>

\* The M that startm takes from midle starts in schedule, with q.
Start(a, n, q) ==
  /\ midle' = midle \ {n}
  /\ p' = [p EXCEPT ![n] = q]
  /\ spinning' = [spinning EXCEPT ![n] = argspin[a]]
  /\ pc' = [pc EXCEPT ![a] = ret[a], ![n] = "sched"]

\* startm: the given P or an idle one, and an idle M.
StartM(a) ==
  /\ At(a, "startm")
  /\ \/ /\ argp[a] # None
        /\ \E n \in midle : Start(a, n, argp[a])
        /\ UNCHANGED pidle
     \/ /\ argp[a] = None
        /\ \E q \in pidle : /\ pidle' = pidle \ {q}
                            /\ \E n \in midle : Start(a, n, q)
     \/ /\ argp[a] = None /\ pidle = {}
        /\ Goto(a, "undo")
        /\ UNCHANGED <<pidle, midle, p, spinning>>
  /\ argp' = [argp EXCEPT ![a] = None]
  /\ argspin' = [argspin EXCEPT ![a] = pc'[a] = "undo"]
  /\ UNCHANGED <<queues, nmspinning, syscallp, oldp, gp, preempt, ret, loop, hist>>

UndoStep == 1

\* startm without an idle P: undo the caller's increment.  Window: the P that
\* has become idle since, while others saw a spinning M.
StartMUndo(a) ==
  /\ At(a, "undo")
  /\ nmspinning' = nmspinning - UndoStep
  /\ argspin' = [argspin EXCEPT ![a] = FALSE]
  /\ Gap(pidle # {} /\ Runnable # {})
  /\ Return(a)
  /\ UNCHANGED <<queues, pidle, midle, syscallp, own, ret, argp, loop, readied>>

-----------------------------------------------------------------------------
(* schedule and findrunnable *)

\* A goroutine was found: schedule executes it, after resetspinning if the M
\* was spinning; execute clears gp.preempt.
Found(m, g) ==
  /\ gp' = [gp EXCEPT ![m] = g]
  /\ preempt' = preempt \ {g}
  /\ Goto(m, IF spinning[m] THEN "reset" ELSE "go")

\* resetspinning: one spinning M less, then wakep.
ResetSpinning(m) ==
  /\ At(m, "reset")
  /\ spinning' = [spinning EXCEPT ![m] = FALSE]
  /\ nmspinning' = nmspinning - 1
  /\ ret' = [ret EXCEPT ![m] = "go"]
  /\ Goto(m, "wakep")
  /\ UNCHANGED <<queues, pidle, midle, syscallp, p, oldp, gp, preempt, argp, argspin,
                 loop, hist>>

\* (LeavesAll: copies the goroutines and does not advance the head.)
LeavesAll(Q, S) == Q
Leaves(Q, S) == Q \ S

\* globrunqget: a share of the global queue, one of it to run.
GlobRunqGet(m, max) ==
  LET n == Min({Cardinality(globq), Cardinality(globq) \div NP + 1, max})
  IN  \E S \in kSubset(n, globq) : \E g \in S :
        /\ globq' = Leaves(globq, S)
        /\ runq' = [runq EXCEPT ![p[m]] = @ \cup (S \ {g})]
        /\ Found(m, g)

\* schedule: a goroutine of the own queue that was told to stop goes to the
\* global queue instead.  Window: nobody is woken, and an M that has looked at
\* the global queue already looks only at the run queues again.
Requeue(m, g) ==
  /\ globq' = globq \cup {g}
  /\ preempt' = preempt \ {g}
  /\ Gap(pidle # {})
  /\ UNCHANGED <<gp, pc>>

\* schedule and the top of findrunnable: every 61st time the global queue,
\* then the own queue.
Schedule(m) ==
  /\ At(m, "sched")
  /\ \/ globq # {} /\ GlobRunqGet(m, 1) /\ UNCHANGED gap
     \/ \E g \in runq[p[m]] :
          /\ runq' = [runq EXCEPT ![p[m]] = @ \ {g}]
          /\ \/ g \notin preempt /\ Found(m, g) /\ UNCHANGED <<globq, gap>>
             \/ g \in preempt /\ Requeue(m, g)
     \/ /\ runq[p[m]] = {}
        /\ Goto(m, "global")
        /\ UNCHANGED <<queues, gp, preempt, gap>>
  /\ UNCHANGED <<idle, p, oldp, spinning, call, loop, readied>>

\* findrunnable: the global queue; then an M that spins already goes
\* stealing and another one loads nmspinning.
Global(m) ==
  /\ At(m, "global")
  /\ \/ globq # {} /\ GlobRunqGet(m, NP + Cardinality(Gs))
        /\ UNCHANGED loop
     \/ /\ globq = {} /\ spinning[m]
        /\ left' = [left EXCEPT ![m] = Ps \ {p[m]}]
        /\ Goto(m, "steal")
        /\ UNCHANGED <<queues, gp, preempt, seen>>
     \/ /\ globq = {} /\ ~spinning[m]
        /\ seen' = [seen EXCEPT ![m] = nmspinning]
        /\ Goto(m, "maySpin")
        /\ UNCHANGED <<queues, gp, preempt, left>>
  /\ UNCHANGED <<idle, p, oldp, spinning, call, hist>>

\* At most half as many spinning Ms as busy Ps.
MaySpin(m) ==
  /\ At(m, "maySpin")
  /\ Goto(m, IF 2 * seen[m] < NP - npidle THEN "spin" ELSE "release")
  /\ seen' = [seen EXCEPT ![m] = 0]
  /\ UNCHANGED <<queues, idle, own, call, left, hist>>

Spin(m) ==
  /\ At(m, "spin")
  /\ spinning' = [spinning EXCEPT ![m] = TRUE]
  /\ nmspinning' = nmspinning + 1
  /\ left' = [left EXCEPT ![m] = Ps \ {p[m]}]
  /\ Goto(m, "steal")
  /\ UNCHANGED <<queues, pidle, midle, syscallp, p, oldp, gp, preempt, call, seen,
                 hist>>

\* stealWork and runqsteal: half of the queue of another P, in any order of
\* the Ps.
Steal(m) ==
  /\ At(m, "steal")
  /\ \/ \E q \in left[m] :
          LET n == Cardinality(runq[q])
          IN IF n = 0
             THEN /\ left' = [left EXCEPT ![m] = @ \ {q}]
                  /\ UNCHANGED <<runq, gp, preempt, pc>>
             ELSE /\ \E S \in kSubset(n - n \div 2, runq[q]) : \E g \in S :
                       /\ runq' = [runq EXCEPT ![q] = Leaves(@, S),
                                               ![p[m]] = @ \cup (S \ {g})]
                       /\ Found(m, g)
                  /\ left' = [left EXCEPT ![m] = {}]
     \/ /\ left[m] = {}
        /\ Goto(m, "release")
        /\ UNCHANGED <<runq, left, gp, preempt>>
  /\ UNCHANGED <<globq, idle, p, oldp, spinning, call, seen, hist>>

\* (NoGlobalCheck: gives the P back without a look at the global queue.)
NoGlobalCheck == FALSE
GlobalWork == globq # {}

\* findrunnable, "return P and block": under sched.lock, a last look at the
\* global queue.  Window: an M that was not allowed to spin parks without the
\* second look.
Release(m) ==
  /\ At(m, "release")
  /\ IF GlobalWork
     THEN GlobRunqGet(m, NP + Cardinality(Gs)) /\ UNCHANGED <<pidle, p, gap>>
     ELSE /\ p' = [p EXCEPT ![m] = None]
          /\ pidle' = pidle \cup {p[m]}
          /\ Goto(m, IF spinning[m] THEN "unspin" ELSE "stopm")
          /\ Gap(~spinning[m] /\ Runnable # {})
          /\ UNCHANGED <<queues, gp, preempt>>
  /\ UNCHANGED <<midle, nmspinning, syscallp, oldp, spinning, call, loop, readied>>

\* (NoRecheck: parks without a second look at the run queues.)
NoRecheck == {}
ToRecheck == Ps

\* "Delicate dance": drop nmspinning, then look at every run queue again.
Unspin(m) ==
  /\ At(m, "unspin")
  /\ spinning' = [spinning EXCEPT ![m] = FALSE]
  /\ nmspinning' = nmspinning - 1
  /\ left' = [left EXCEPT ![m] = ToRecheck]
  /\ Goto(m, "recheck")
  /\ UNCHANGED <<queues, pidle, midle, syscallp, p, oldp, gp, preempt, call, seen,
                 hist>>

\* checkRunqsNoP: one P after the other.
Recheck(m) ==
  /\ At(m, "recheck")
  /\ IF left[m] = {} THEN Goto(m, "stopm") /\ UNCHANGED left
     ELSE LET q == Min(left[m])
          IN IF runq[q] # {}
             THEN /\ left' = [left EXCEPT ![m] = {}] /\ Goto(m, "getp")
             ELSE /\ left' = [left EXCEPT ![m] = @ \ {q}] /\ UNCHANGED pc
  /\ UNCHANGED <<queues, idle, own, call, seen, hist>>

\* checkRunqsNoP: work was seen; without an idle P the M gives up.
RecheckGetP(m) ==
  /\ At(m, "getp")
  /\ \/ \E q \in pidle : /\ pidle' = pidle \ {q}
                         /\ p' = [p EXCEPT ![m] = q]
                         /\ Goto(m, "respin")
     \/ pidle = {} /\ Goto(m, "stopm") /\ UNCHANGED <<pidle, p>>
  /\ UNCHANGED <<queues, midle, nmspinning, syscallp, oldp, gp, spinning, preempt,
                 call, loop, hist>>

Respin(m) ==
  /\ At(m, "respin")
  /\ spinning' = [spinning EXCEPT ![m] = TRUE]
  /\ nmspinning' = nmspinning + 1
  /\ Goto(m, "sched")
  /\ UNCHANGED <<queues, pidle, midle, syscallp, p, oldp, gp, preempt, call, loop,
                 hist>>

\* stopm: mput and mPark.
StopM(m) ==
  /\ At(m, "stopm")
  /\ midle' = midle \cup {m}
  /\ Goto(m, "parked")
  /\ UNCHANGED <<queues, pidle, nmspinning, syscallp, own, call, loop, hist>>

-----------------------------------------------------------------------------
(* handoffp, and sysmon's retake *)

\* startm(argp[a], s), called by handoffp.
HandTo(a, s) ==
  /\ argspin' = [argspin EXCEPT ![a] = s]
  /\ Goto(a, "startm")

\* handoffp: the queues; a P with work gets an M straight away.
Handoff(a) ==
  /\ At(a, "handoff")
  /\ IF runq[argp[a]] # {} \/ globq # {}
     THEN HandTo(a, FALSE)
     ELSE Goto(a, "handoff2") /\ UNCHANGED argspin
  /\ UNCHANGED <<queues, idle, own, ret, argp, loop, hist>>

\* handoffp: the loads of nmspinning and npidle.
HandoffSpinning(a) ==
  /\ At(a, "handoff2")
  /\ Goto(a, IF nmspinning = 0 THEN "handoff3" ELSE "handoff5")
  /\ UNCHANGED <<queues, idle, own, call, loop, hist>>

HandoffIdle(a) ==
  /\ At(a, "handoff3")
  /\ Goto(a, IF npidle = 0 THEN "handoff4" ELSE "handoff5")
  /\ UNCHANGED <<queues, idle, own, call, loop, hist>>

\* handoffp: the compare-and-swap of nmspinning.
HandoffCas(a) ==
  /\ At(a, "handoff4")
  /\ IF nmspinning = 0
     THEN nmspinning' = 1 /\ HandTo(a, TRUE)
     ELSE Goto(a, "handoff5") /\ UNCHANGED <<nmspinning, argspin>>
  /\ UNCHANGED <<queues, pidle, midle, syscallp, own, ret, argp, loop, hist>>

\* handoffp under sched.lock: a P with nothing to do becomes idle.  Window:
\* only the global queue is looked at again.
HandoffIdleput(a) ==
  /\ At(a, "handoff5")
  /\ IF globq # {} \/ npidle = NP - 1
     THEN HandTo(a, FALSE) /\ UNCHANGED <<pidle, argp, gap>>
     ELSE /\ pidle' = pidle \cup {argp[a]}
          /\ argp' = [argp EXCEPT ![a] = None]
          /\ Gap(Runnable # {})
          /\ Return(a)
          /\ UNCHANGED argspin
  /\ UNCHANGED <<queues, midle, nmspinning, syscallp, own, ret, loop, readied>>

\* retake: sysmon takes a P that has been in a system call for long.
Retake ==
  /\ At(Sysmon, "sysmon")
  /\ \E q \in syscallp :
       /\ syscallp' = syscallp \ {q}
       /\ argp' = [argp EXCEPT ![Sysmon] = q]
  /\ ret' = [ret EXCEPT ![Sysmon] = "sysmon"]
  /\ Goto(Sysmon, "handoff")
  /\ UNCHANGED <<queues, pidle, midle, nmspinning, own, argspin, loop, hist>>

\* retake and preemptone: the goroutine of an M that has run for long is told
\* to stop.  Besides that goroutine only schedule and execute look at the flag,
\* so a store that comes after the goroutine has moved on is one made while it
\* ran (unless schedule has requeued the goroutine in between).
PreemptOne ==
  /\ At(Sysmon, "sysmon")
  /\ \E m \in Ms : /\ At(m, "go") /\ gp[m] \notin preempt
                   /\ preempt' = preempt \cup {gp[m]}
  /\ UNCHANGED <<queues, idle, p, oldp, gp, spinning, pc, call, loop, hist>>

-----------------------------------------------------------------------------
User(m) == \/ Ready(m) \/ Park(m) \/ Gosched(m)
           \/ EnterSyscall(m) \/ EnterSyscallBlock(m)

Find(m) == \/ Schedule(m) \/ Global(m) \/ MaySpin(m) \/ Spin(m) \/ Steal(m)
           \/ Release(m) \/ Unspin(m) \/ Recheck(m) \/ RecheckGetP(m)
           \/ Respin(m) \/ StopM(m) \/ ResetSpinning(m)
           \/ Wakep(m) \/ WakepSpin(m) \/ ExitSyscall0(m)

Hand(a) == \/ StartM(a) \/ StartMUndo(a)
           \/ Handoff(a) \/ HandoffSpinning(a) \/ HandoffIdle(a)
           \/ HandoffCas(a) \/ HandoffIdleput(a)

Next ==
  \/ \E m \in Ms : User(m)
  \/ \E m \in Ms : ExitSyscall(m)
  \/ \E m \in Ms : Find(m)
  \/ \E a \in Actors : Hand(a)
  \/ Retake \/ PreemptOne

Spec == Init /\ [][Next]_vars

\* The operating system runs every thread, so no M stops in the middle of the
\* scheduler; a goroutine parks or makes a call sooner or later, and system
\* calls return.  An M is at one place at a time, so fairness of what it does
\* next is fairness of each part.  Nothing is assumed of sysmon.
FairSpec ==
  /\ Spec
  /\ \A m \in Ms : WF_vars(Find(m) \/ Hand(m) \/ Park(m) \/ ExitSyscall(m))

-----------------------------------------------------------------------------
(* Properties *)

TypeOK ==
  /\ runq \in [Ps -> SUBSET Gs] /\ globq \subseteq Gs
  /\ pidle \subseteq Ps /\ midle \subseteq Ms /\ syscallp \subseteq Ps
  /\ nmspinning \in Nat /\ readied \in 0 .. MaxReady
  /\ p \in [Ms -> Ps \cup {None}] /\ oldp \in [Ms -> Ps \cup {None}]
  /\ gp \in [Ms -> Gs \cup {None}] /\ spinning \in [Ms -> BOOLEAN]
  /\ preempt \subseteq Gs
  /\ argp \in [Actors -> Ps \cup {None}] /\ argspin \in [Actors -> BOOLEAN]
  /\ left \in [Ms -> SUBSET Ps] /\ seen \in [Ms -> Nat]

\* A P has exactly one owner: an M that runs on it, the idle list, a system
\* call, or a thread that is handing it over.  So wirep never finds a P that
\* is taken ("wirep: invalid p state"), whatever the order in which an M
\* leaves its system call, sysmon retakes the P and others look for one.
EachPHasOneOwner ==
  /\ TypeOK
  /\ \A q \in Ps :
       Cardinality({m \in Ms : p[m] = q}) + Cardinality({a \in Actors : argp[a] = q})
         + (IF q \in pidle THEN 1 ELSE 0) + (IF q \in syscallp THEN 1 ELSE 0) = 1

\* A goroutine is in one run queue or runs on one M, never twice.
EachGOnce ==
  \A g \in Gs : Cardinality({m \in Ms : gp[m] = g}) + (IF g \in globq THEN 1 ELSE 0)
                  + Cardinality({q \in Ps : g \in runq[q]}) <= 1

\* Every M runs a goroutine, is in a system call or is parked, and sysmon has
\* nothing in hand: the scheduler does nothing more by itself.
AtRest == \A a \in Actors : pc[a] \in {"go", "syscall", "parked", "sysmon"}

\* proc.go:134, the parking scheme "guarantees eventual maximal CPU
\* parallelism utilization": at rest no P is idle while a goroutine is
\* runnable.
MaximalUtilization == AtRest /\ Runnable # {} => pidle = {}

\* The spinning protocol itself: unless one of the five windows was hit
\* (Gosched, StartMUndo, Requeue, Release, HandoffIdleput), the drop of
\* nmspinning, the second look at the queues and the wakeups of submitters and
\* of resetspinning leave no P idle next to a runnable goroutine.
DanceLosesNothing == ~gap => MaximalUtilization

\* A runnable goroutine is run, as long as running goroutines stop: no queue
\* is forgotten, whether sysmon retakes Ps or not.
RunnableRuns == \A g \in Gs : g \in Runnable ~> \E m \in Ms : gp[m] = g

=============================================================================
