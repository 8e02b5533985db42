------------------------------- MODULE World -------------------------------
(***************************************************************************)
(* Stopping the world, and the ragged barrier forEachP                     *)
(* (libgo/go/runtime/proc.go).  Both wait for every P.  To stop the world  *)
(* an M sets gcwaiting and stopwait, takes the Ps that are idle or in a    *)
(* system call away itself, and waits until the Ms that run on the others  *)
(* give them up.  forEachP sets a flag on every P instead and waits until  *)
(* a function was run for each of them: by its M, or on its behalf while   *)
(* it is idle or being handed off.  In both, a P that is just then entering*)
(* or leaving a system call, being handed off, retaken by sysmon or put on *)
(* the idle list must be counted exactly once.                             *)
(*                                                                         *)
(* sched.lock is explicit, because the status of a P in a system call      *)
(* changes without it.  What an M finds to run, and which P has work, is   *)
(* left open.  An M that does not exist yet is a parked one; an M that is  *)
(* started owns its P from the wakeup on.                                  *)
(***************************************************************************)
EXTENDS Integers, FiniteSets

CONSTANTS
  Ms,       \* the worker threads
  M0,       \* the one that runs first
  Sysmon,
  NP,       \* gomaxprocs
  None,
  Ops,      \* some of "stop", "each", "syscall", "block"
  MaxOps,   \* bound: how often the world is stopped or forEachP called
  MaxSys    \* bound: how many system calls are made

Ps == 1 .. NP
Actors == Ms \cup {Sysmon}

ASSUME WorldAssumption ==
  /\ NP \in Nat \ {0} /\ MaxOps \in Nat /\ MaxSys \in Nat
  /\ IsFiniteSet(Ms) /\ M0 \in Ms /\ Sysmon \notin Ms /\ None \notin Ps \cup Ms

VARIABLES
  status,     \* per P: "running", "syscall", "idle" or "gcstop"
  pidle,      \* sched.pidle
  midle,      \* sched.midle
  lock,       \* who holds sched.lock between two steps
  gcwaiting,  \* sched.gcwaiting
  stopwait,   \* sched.stopwait
  stopnote,   \* sched.stopnote: wakeups not yet consumed
  runFn,      \* per P: p.runSafePointFn
  spWait,     \* sched.safePointWait
  spNote,     \* sched.safePointNote
  worldsema,  \* who holds worldsema
  pc,         \* per actor: where it is
  ret,        \* per actor: where handoffp or runSafePointFn returns to
  p,          \* per M: m.p
  oldp,       \* per M: m.oldp
  argp,       \* per actor: the P in handoffp
  left,       \* per M: the Ps its loop has not looked at yet
  ran,        \* per P: how often forEachP's function was run for it
  ops, sys    \* the bounded counters

stw   == <<gcwaiting, stopwait, stopnote>>
safe  == <<runFn, spWait, spNote, ran>>
local == <<p, oldp, argp, ret, left>>
count == <<ops, sys>>
vars  == <<status, pidle, midle, lock, stw, safe, worldsema, pc, local, count>>

Init ==
  /\ status = [q \in Ps |-> IF q = 1 THEN "running" ELSE "idle"]
  /\ pidle = Ps \ {1} /\ midle = Ms \ {M0} /\ lock = None
  /\ gcwaiting = FALSE /\ stopwait = 0 /\ stopnote = 0
  /\ runFn = [q \in Ps |-> 0] /\ spWait = 0 /\ spNote = 0
  /\ ran = [q \in Ps |-> 0] /\ worldsema = None
  /\ pc = [a \in Actors |-> IF a = M0 THEN "go"
                            ELSE IF a = Sysmon THEN "sysmon" ELSE "parked"]
  /\ ret = [a \in Actors |-> "go"]
  /\ p = [m \in Ms |-> IF m = M0 THEN 1 ELSE None]
  /\ oldp = [m \in Ms |-> None] /\ argp = [a \in Actors |-> None]
  /\ left = [m \in Ms |-> {}]
  /\ ops = 0 /\ sys = 0

At(a, l) == pc[a] = l
Goto(a, l) == pc' = [pc EXCEPT ![a] = l]

\* One P less to wait for; the last one wakes the stopper up.
StopOne ==
  /\ stopwait' = stopwait - 1
  /\ stopnote' = IF stopwait = 1 THEN stopnote + 1 ELSE stopnote

\* One safe point less to wait for.
SafePointOne ==
  /\ spWait' = spWait - 1
  /\ spNote' = IF spWait = 1 THEN spNote + 1 ELSE spNote

-----------------------------------------------------------------------------
(* stopTheWorldWithSema and startTheWorldWithSema *)

\* stopTheWorld: with worldsema held, lock sched.lock, announce the stop and
\* stop the own P.
Stop(m) ==
  /\ "stop" \in Ops /\ At(m, "go") /\ worldsema = None /\ lock = None
  /\ ops < MaxOps
  /\ worldsema' = m /\ lock' = m
  /\ gcwaiting' = TRUE /\ stopwait' = NP - 1
  /\ status' = [status EXCEPT ![p[m]] = "gcstop"]
  /\ left' = [left EXCEPT ![m] = Ps]
  /\ ops' = ops + 1
  /\ Goto(m, "stopSyscall")
  /\ UNCHANGED <<pidle, midle, stopnote, safe, p, oldp, argp, ret, sys>>

\* Retake the Ps in system calls, one compare-and-swap after the other.
StopSyscall(m) ==
  /\ At(m, "stopSyscall")
  /\ \E q \in left[m] :
       /\ left' = [left EXCEPT ![m] = @ \ {q}]
       /\ IF status[q] = "syscall"
          THEN /\ status' = [status EXCEPT ![q] = "gcstop"]
               /\ stopwait' = stopwait - 1
          ELSE UNCHANGED <<status, stopwait>>
  /\ UNCHANGED <<pidle, midle, lock, gcwaiting, stopnote, safe, worldsema, pc, p,
                 oldp, argp, ret, count>>

\* Take the idle Ps, unlock, and wait for the rest.
StopIdle(m) ==
  /\ At(m, "stopSyscall") /\ left[m] = {}
  /\ status' = [q \in Ps |-> IF q \in pidle THEN "gcstop" ELSE status[q]]
  /\ stopwait' = stopwait - Cardinality(pidle)
  /\ pidle' = {}
  /\ lock' = None
  /\ Goto(m, IF stopwait' > 0 THEN "stopWait" ELSE "stopped")
  /\ UNCHANGED <<midle, gcwaiting, stopnote, safe, worldsema, local, count>>

StopWait(m) ==
  /\ At(m, "stopWait") /\ stopnote > 0
  /\ stopnote' = 0
  /\ Goto(m, "stopped")
  /\ UNCHANGED <<status, pidle, midle, lock, gcwaiting, stopwait, safe, worldsema,
                 local, count>>

\* startTheWorld: procresize returns the Ps with work, which get an M each;
\* the others become idle.
Start(m) ==
  /\ At(m, "stopped") /\ lock = None
  /\ \E W \in SUBSET (Ps \ {p[m]}) : \E f \in [W -> midle] :
       /\ \A q, r \in W : f[q] = f[r] => q = r
       /\ status' = [q \in Ps |-> IF q \in W \cup {p[m]} THEN "running" ELSE "idle"]
       /\ pidle' = Ps \ (W \cup {p[m]})
       /\ midle' = midle \ {f[q] : q \in W}
       /\ p' = [n \in Ms |-> IF \E q \in W : f[q] = n
                             THEN CHOOSE q \in W : f[q] = n ELSE p[n]]
       /\ pc' = [a \in Actors |-> IF a = m THEN "startWake"
                                  ELSE IF \E q \in W : f[q] = a THEN "sched" ELSE pc[a]]
  /\ gcwaiting' = FALSE
  /\ UNCHANGED <<lock, stopwait, stopnote, safe, worldsema, oldp, argp, ret, left,
                 count>>

\* An idle P for an idle M: startm.
StartM(a, l) ==
  /\ lock = None
  /\ \E q \in pidle, n \in midle :
       /\ pidle' = pidle \ {q} /\ midle' = midle \ {n}
       /\ status' = [status EXCEPT ![q] = "running"]
       /\ p' = [p EXCEPT ![n] = q]
       /\ pc' = [pc EXCEPT ![a] = l, ![n] = "sched"]

\* The final wakep of startTheWorld, which starts an M unless no P is idle or
\* another M spins; then worldsema is released.
StartWake(m) ==
  /\ At(m, "startWake")
  /\ \/ StartM(m, "go")
     \/ Goto(m, "go") /\ UNCHANGED <<status, pidle, midle, p>>
  /\ worldsema' = None
  /\ UNCHANGED <<lock, stw, safe, oldp, argp, ret, left, count>>

-----------------------------------------------------------------------------
(* forEachP and runSafePointFn *)

\* forEachP under sched.lock: set the flag of every other P, and run the
\* function for the idle ones; then for the own P.
Each(m) ==
  /\ "each" \in Ops /\ At(m, "go") /\ worldsema = None /\ lock = None
  /\ ops < MaxOps
  /\ worldsema' = m
  /\ runFn' = [q \in Ps |-> IF q = p[m] \/ q \in pidle THEN runFn[q] ELSE 1]
  /\ ran' = [q \in Ps |-> IF q = p[m] \/ q \in pidle THEN 1 ELSE 0]
  /\ spWait' = NP - 1 - Cardinality(pidle)
  /\ left' = [left EXCEPT ![m] = Ps]
  /\ ops' = ops + 1
  \* ret keeps whether there is somebody to wait for
  /\ ret' = [ret EXCEPT ![m] = IF spWait' > 0 THEN "eachWait" ELSE "eachDone"]
  /\ Goto(m, "each")
  /\ UNCHANGED <<status, pidle, midle, lock, stw, spNote, p, oldp, argp, sys>>

\* Force the Ps in system calls to be handed off.
EachSyscall(m) ==
  /\ At(m, "each")
  /\ \E q \in left[m] :
       /\ left' = [left EXCEPT ![m] = @ \ {q}]
       /\ IF status[q] = "syscall" /\ runFn[q] = 1
          THEN /\ status' = [status EXCEPT ![q] = "idle"]
               /\ argp' = [argp EXCEPT ![m] = q]
               /\ Goto(m, "handoff")
          ELSE UNCHANGED <<status, argp, pc>>
  /\ UNCHANGED <<pidle, midle, lock, stw, safe, worldsema, p, oldp, ret, count>>

EachLoopEnd(m) ==
  /\ At(m, "each") /\ left[m] = {}
  /\ Goto(m, ret[m])
  /\ UNCHANGED <<status, pidle, midle, lock, stw, safe, worldsema, local, count>>

EachWait(m) ==
  /\ At(m, "eachWait") /\ spNote > 0
  /\ spNote' = 0
  /\ Goto(m, "eachDone")
  /\ UNCHANGED <<status, pidle, midle, lock, stw, runFn, spWait, ran, worldsema,
                 local, count>>

EachDone(m) ==
  /\ At(m, "eachDone")
  /\ worldsema' = None
  /\ Goto(m, "go")
  /\ UNCHANGED <<status, pidle, midle, lock, stw, safe, local, count>>

\* (RunsAnyway: without the compare-and-swap of the flag.)
RunsAnyway(q) == TRUE
TakesFn(q) == runFn[q] = 1

\* runSafePointFn: the swap decides who runs the function.
SafePoint(m) ==
  /\ At(m, "safePoint")
  /\ IF TakesFn(p[m])
     THEN /\ runFn' = [runFn EXCEPT ![p[m]] = 0]
          /\ ran' = [ran EXCEPT ![p[m]] = @ + 1]
          /\ Goto(m, "safePointDec")
     ELSE Goto(m, ret[m]) /\ UNCHANGED <<runFn, ran>>
  /\ UNCHANGED <<status, pidle, midle, lock, stw, spWait, spNote, worldsema, local,
                 count>>

SafePointDec(m) ==
  /\ At(m, "safePointDec") /\ lock = None
  /\ SafePointOne
  /\ Goto(m, ret[m])
  /\ UNCHANGED <<status, pidle, midle, lock, stw, runFn, ran, worldsema, local, count>>

-----------------------------------------------------------------------------
(* The Ms *)

\* A running goroutine makes another one runnable: wakep.
Wake(m) ==
  /\ At(m, "go") /\ StartM(m, "go")
  /\ UNCHANGED <<lock, stw, safe, worldsema, oldp, argp, ret, left, count>>

\* The goroutine parks, yields or is preempted.
Yield(m) ==
  /\ At(m, "go")
  /\ Goto(m, "sched")
  /\ UNCHANGED <<status, pidle, midle, lock, stw, safe, worldsema, local, count>>

\* schedule and findrunnable: first the stop, then the safe point, then work.
Schedule(m) ==
  /\ At(m, "sched")
  /\ \/ gcwaiting /\ Goto(m, "gcstop") /\ UNCHANGED ret
     \/ /\ ~gcwaiting /\ runFn[p[m]] = 1
        /\ ret' = [ret EXCEPT ![m] = "sched"]
        /\ Goto(m, "safePoint")
     \/ /\ ~gcwaiting /\ runFn[p[m]] = 0
        /\ Goto(m, "go") \/ Goto(m, "release")
        /\ UNCHANGED ret
  /\ UNCHANGED <<status, pidle, midle, lock, stw, safe, worldsema, p, oldp, argp,
                 left, count>>

\* gcstopm.
GcStopM(m) ==
  /\ At(m, "gcstop") /\ lock = None
  /\ status' = [status EXCEPT ![p[m]] = "gcstop"]
  /\ p' = [p EXCEPT ![m] = None]
  /\ StopOne
  /\ Goto(m, "stopm")
  /\ UNCHANGED <<pidle, midle, lock, gcwaiting, safe, worldsema, oldp, argp, ret,
                 left, count>>

MustStop(m) == gcwaiting \/ runFn[p[m]] = 1

\* findrunnable, "return P and block".
Release(m) ==
  /\ At(m, "release") /\ lock = None
  /\ IF MustStop(m)
     THEN Goto(m, "sched") /\ UNCHANGED <<status, pidle, p>>
     ELSE /\ status' = [status EXCEPT ![p[m]] = "idle"]
          /\ pidle' = pidle \cup {p[m]}
          /\ p' = [p EXCEPT ![m] = None]
          /\ Goto(m, "stopm")
  /\ UNCHANGED <<midle, lock, stw, safe, worldsema, oldp, argp, ret, left, count>>

StopM(m) ==
  /\ At(m, "stopm") /\ lock = None
  /\ midle' = midle \cup {m}
  /\ Goto(m, "parked")
  /\ UNCHANGED <<status, pidle, lock, stw, safe, worldsema, local, count>>

-----------------------------------------------------------------------------
(* System calls *)

\* reentersyscall: the safe point first,
EnterSyscall(m) ==
  /\ "syscall" \in Ops /\ At(m, "go") /\ sys < MaxSys
  /\ sys' = sys + 1
  /\ ret' = [ret EXCEPT ![m] = "enter"]
  /\ Goto(m, IF runFn[p[m]] = 1 THEN "safePoint" ELSE "enter")
  /\ UNCHANGED <<status, pidle, midle, lock, stw, safe, worldsema, p, oldp, argp,
                 left, ops>>

\* then the P is left behind,
EnterSyscallStatus(m) ==
  /\ At(m, "enter")
  /\ oldp' = [oldp EXCEPT ![m] = p[m]]
  /\ p' = [p EXCEPT ![m] = None]
  /\ status' = [status EXCEPT ![p[m]] = "syscall"]
  /\ Goto(m, "entered")
  /\ UNCHANGED <<pidle, midle, lock, stw, safe, worldsema, argp, ret, left, count>>

\* (NoGcWait: does not look at gcwaiting.)
NoGcWait == FALSE
SeesGcWaiting == gcwaiting

\* then the load of gcwaiting,
EnterSyscallLoad(m) ==
  /\ At(m, "entered")
  /\ Goto(m, IF SeesGcWaiting THEN "gcwait" ELSE "syscall")
  /\ UNCHANGED <<status, pidle, midle, lock, stw, safe, worldsema, local, count>>

StillMine(m) == stopwait > 0 /\ status[oldp[m]] = "syscall"

\* and entersyscall_gcwait: stop the own P unless somebody else took it.
GcWait(m) ==
  /\ At(m, "gcwait") /\ lock = None
  /\ IF StillMine(m)
     THEN /\ status' = [status EXCEPT ![oldp[m]] = "gcstop"]
          /\ StopOne
     ELSE UNCHANGED <<status, stopwait, stopnote>>
  /\ Goto(m, "syscall")
  /\ UNCHANGED <<pidle, midle, lock, gcwaiting, safe, worldsema, local, count>>

\* reentersyscallblock: the M hands its P off itself.
EnterSyscallBlock(m) ==
  /\ "block" \in Ops /\ At(m, "go") /\ sys < MaxSys
  /\ sys' = sys + 1
  /\ status' = [status EXCEPT ![p[m]] = "idle"]
  /\ p' = [p EXCEPT ![m] = None]
  /\ argp' = [argp EXCEPT ![m] = p[m]]
  /\ ret' = [ret EXCEPT ![m] = "syscall"]
  /\ Goto(m, "handoff")
  /\ UNCHANGED <<pidle, midle, lock, stw, safe, worldsema, oldp, left, ops>>

\* (AnyStatus: takes the old P back whatever became of it.)
AnyStatus(m) == oldp[m] # None
CanReacquire(m) == oldp[m] # None /\ status[oldp[m]] = "syscall"

\* exitsyscall: the compare-and-swap on the old P.
ExitSyscall(m) ==
  /\ At(m, "syscall")
  /\ oldp' = [oldp EXCEPT ![m] = None]
  /\ IF CanReacquire(m)
     THEN /\ status' = [status EXCEPT ![oldp[m]] = "running"]
          /\ p' = [p EXCEPT ![m] = oldp[m]]
          /\ Goto(m, "go")
     ELSE Goto(m, "exit0") /\ UNCHANGED <<status, p>>
  /\ UNCHANGED <<pidle, midle, lock, stw, safe, worldsema, argp, ret, left, count>>

\* exitsyscall0: an idle P, or the goroutine is queued and the M stops.
ExitSyscall0(m) ==
  /\ At(m, "exit0") /\ lock = None
  /\ \/ \E q \in pidle :
          /\ pidle' = pidle \ {q}
          /\ status' = [status EXCEPT ![q] = "running"]
          /\ p' = [p EXCEPT ![m] = q]
          /\ Goto(m, "go")
     \/ pidle = {} /\ Goto(m, "stopm") /\ UNCHANGED <<status, pidle, p>>
  /\ UNCHANGED <<midle, lock, stw, safe, worldsema, oldp, argp, ret, left, count>>

\* sysmon's retake of a P from a system call.
Retake ==
  /\ At(Sysmon, "sysmon")
  /\ \E q \in Ps :
       /\ status[q] = "syscall"
       /\ status' = [status EXCEPT ![q] = "idle"]
       /\ argp' = [argp EXCEPT ![Sysmon] = q]
  /\ ret' = [ret EXCEPT ![Sysmon] = "sysmon"]
  /\ Goto(Sysmon, "handoff")
  /\ UNCHANGED <<pidle, midle, lock, stw, safe, worldsema, p, oldp, left, count>>

\* forEachP goes on with its loop after a handoffp.
HandoffRet(a) == IF a \in Ms /\ worldsema = a THEN "each" ELSE ret[a]

\* handoffp's startm: of a P with work straight away, or after HandoffWork.
HandoffStart(a) ==
  /\ pc[a] \in {"handoff", "startm"} /\ lock = None
  /\ \E n \in midle :
       /\ midle' = midle \ {n}
       /\ status' = [status EXCEPT ![argp[a]] = "running"]
       /\ p' = [p EXCEPT ![n] = argp[a]]
       /\ pc' = [pc EXCEPT ![a] = HandoffRet(a), ![n] = "sched"]
  /\ argp' = [argp EXCEPT ![a] = None]
  /\ UNCHANGED <<pidle, lock, stw, safe, worldsema, oldp, ret, left, count>>

\* handoffp runs the safe point function on behalf of the P.
SafePointFor(q) ==
  IF TakesFn(q)
  THEN /\ runFn' = [runFn EXCEPT ![q] = 0]
       /\ ran' = [ran EXCEPT ![q] = @ + 1]
       /\ SafePointOne
  ELSE UNCHANGED safe

\* handoffp of a P without work, under sched.lock: stop it, or run the safe
\* point function for it and make it idle.
HandoffIdle(a) ==
  /\ At(a, "handoff") /\ lock = None
  /\ LET q == argp[a]
     IN IF gcwaiting
        THEN /\ status' = [status EXCEPT ![q] = "gcstop"]
             /\ StopOne
             /\ UNCHANGED <<pidle, safe>>
        ELSE /\ SafePointFor(q)
             /\ pidle' = pidle \cup {q}
             /\ UNCHANGED <<status, stopwait, stopnote>>
  /\ argp' = [argp EXCEPT ![a] = None]
  /\ Goto(a, HandoffRet(a))
  /\ UNCHANGED <<midle, lock, gcwaiting, worldsema, p, oldp, ret, left, count>>

\* handoffp after the safe point, still under sched.lock: the global queue has
\* work by now, or nobody else would poll the network; unlock and startm.
HandoffWork(a) ==
  /\ At(a, "handoff") /\ lock = None /\ ~gcwaiting
  /\ SafePointFor(argp[a])
  /\ Goto(a, "startm")
  /\ UNCHANGED <<status, pidle, midle, lock, stw, worldsema, local, count>>

-----------------------------------------------------------------------------
User(m) == \/ Stop(m) \/ Each(m) \/ Wake(m) \/ EnterSyscall(m) \/ EnterSyscallBlock(m)

Step(m) == \/ StopSyscall(m) \/ StopIdle(m) \/ StopWait(m) \/ Start(m) \/ StartWake(m)
           \/ EachSyscall(m) \/ EachLoopEnd(m) \/ EachWait(m) \/ EachDone(m)
           \/ SafePoint(m) \/ SafePointDec(m)
           \/ Yield(m) \/ Schedule(m) \/ GcStopM(m) \/ Release(m) \/ StopM(m)
           \/ EnterSyscallStatus(m) \/ EnterSyscallLoad(m) \/ GcWait(m)
           \/ ExitSyscall0(m)

Handoff(a) == HandoffStart(a) \/ HandoffIdle(a) \/ HandoffWork(a)

Next ==
  \/ \E m \in Ms : User(m)
  \/ \E m \in Ms : Step(m)
  \/ \E m \in Ms : ExitSyscall(m)
  \/ \E a \in Actors : Handoff(a)
  \/ Retake

Spec == Init /\ [][Next]_vars

\* The operating system runs every thread.  Yield is an assumption about the
\* program, not about the runtime: every running goroutine sooner or later
\* parks, makes a call, or reaches one of the places that look at gp.preempt
\* (schedule, mallocgc, selectgo, maps, channels, the end of a system call).
\* preemptall sets the flag again every 100 microseconds, but gccgo has no check
\* in function prologues and no asynchronous preemption (proc.go:5049-5062,
\* signal_unix.go:363), so a loop without such a place is never stopped.  A
\* system call need not return.  sysmon keeps retaking except while gcwaiting
\* is set, when it may go to sleep (proc.go:4820).
FairSpec ==
  /\ Spec
  /\ \A m \in Ms : WF_vars(Step(m)) /\ WF_vars(Yield(m))
  /\ \A a \in Actors : WF_vars(Handoff(a))
  /\ WF_vars(~gcwaiting /\ Retake)

-----------------------------------------------------------------------------
(* Properties *)

\* Once stopTheWorld returns, every P is stopped, nobody else has a P, and
\* none is idle or being handed off: no goroutine runs, whatever returns from
\* a system call.
WorldIsStopped ==
  \A m \in Ms : pc[m] = "stopped" =>
    /\ \A q \in Ps : status[q] = "gcstop"
    /\ \A n \in Ms : n # m => p[n] = None
    /\ pidle = {} /\ \A a \in Actors : argp[a] = None

\* When forEachP returns, its function was run exactly once for every P.
EachRanOnce == \A m \in Ms : pc[m] = "eachDone" => \A q \in Ps : ran[q] = 1

\* A stop of the world succeeds, if every running goroutine reaches a place that
\* looks at gp.preempt; system calls need not return for it.
WorldStops == \A m \in Ms : pc[m] = "stopSyscall" ~> pc[m] = "stopped"

=============================================================================
