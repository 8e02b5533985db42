------------------------------- MODULE PollFD -------------------------------
(***************************************************************************)
(* internal/poll.FD: the lifetime of one file descriptor that goroutines   *)
(* read, write, use and close concurrently, built on fdMutex.              *)
(*                                                                         *)
(* The 64-bit word fdMutex.state is split into its bit fields (closed,     *)
(* ref, lock, waiters).  Each method is a loop "load; compute; CAS" whose  *)
(* new value depends on the loaded word only, so the iteration that        *)
(* succeeds is one atomic step.  The semaphores are counters: Semrelease   *)
(* increments, Semacquire waits for a positive count and takes one.        *)
(***************************************************************************)
EXTENDS Integers, FiniteSets

CONSTANTS Goroutine,  \* the goroutines that use the descriptor
          Ops,        \* the operations they may call
          RefLimit,   \* 2^20 in the code: first value the ref field cannot hold
          WaitLimit   \* 2^20 in the code: the same for a waiter field

Mode == {"read", "write"}

ASSUME FDAssumption == /\ IsFiniteSet(Goroutine)
                       /\ Ops \subseteq Mode \cup {"misc", "setBlocking", "close"}
                       /\ RefLimit \in Nat \ {0}
                       /\ WaitLimit \in Nat \ {0}

VARIABLES
  closed,      \* mutexClosed
  ref,         \* mutexRefMask field
  lock,        \* mutexRLock, mutexWLock
  waiters,     \* mutexRMask, mutexWMask fields
  sema,        \* rsema, wsema
  csema,       \* FD.csema
  isBlocking,  \* FD.isBlocking
  nonblock,    \* O_NONBLOCK of the system descriptor
  sysfd,       \* whether the system descriptor is open
  pd,          \* the poll descriptor: "none" when not pollable
  pc, op,      \* per goroutine: where it is, in which operation
  last,        \* result of the unlock: this was the last reference of a closed FD
  towake       \* waiters increfAndClose still has to wake

muVars == <<closed, ref, lock, waiters>>
fdVars == <<isBlocking, nonblock, sysfd, pd>>
vars == <<muVars, sema, csema, fdVars, pc, op, last, towake>>

Pollable == pd # "none"

(***************************************************************************)
(* Labels.  A goroutine at a label of Holding owns one unit of ref.        *)
(***************************************************************************)
InIO == {"prepare", "syscall", "poll", "rwunlock"}
InMisc == {"misc", "setNonblock"}
Closing == {"wakeAll", "evict"}
Holding == InIO \cup InMisc \cup Closing \cup {"decref"}
Destroying == {"pdClose", "closeFunc", "signal"}
Labels == Holding \cup Destroying \cup
          {"idle", "rwlock", "semacquire", "semrelease", "incref",
           "increfAndClose", "readIsBlocking", "wait"}

Init ==
  /\ closed = FALSE /\ ref = 0
  /\ lock = [m \in Mode |-> FALSE] /\ waiters = [m \in Mode |-> 0]
  /\ sema = [m \in Mode |-> 0] /\ csema = 0
  /\ \E pollable \in BOOLEAN :
       /\ isBlocking = ~pollable /\ nonblock = pollable
       /\ pd = IF pollable THEN "open" ELSE "none"
  /\ sysfd = "open"
  /\ pc = [g \in Goroutine |-> "idle"]
  /\ op = [g \in Goroutine |-> "misc"]
  /\ last = [g \in Goroutine |-> FALSE]
  /\ towake = [g \in Goroutine |-> [m \in Mode |-> 0]]

Goto(g, label) == pc' = [pc EXCEPT ![g] = label]

\* A goroutine calls an operation of the FD.
Call(g, o) ==
  /\ pc[g] = "idle"
  /\ op' = [op EXCEPT ![g] = o]
  /\ Goto(g, CASE o \in Mode -> "rwlock"
               [] o = "close" -> "increfAndClose"
               [] OTHER -> "incref")
  /\ UNCHANGED <<muVars, sema, csema, fdVars, last, towake>>

-----------------------------------------------------------------------------
(* fdMutex *)

\* Adding one to a field of state would carry out of it (overflowMsg).
Full(n, limit) == n + 1 = limit

\* The bit of the lock is clear.
AlwaysFree(m) == TRUE
Free(m) == ~lock[m]

\* The unlock in progress drops the last reference of a closed FD.
LastOfAny == closed
LastRef == closed /\ ref = 1

RefuseCounted(g) ==
  Goto(g, "idle") /\ ref' = ref + 1 /\ UNCHANGED <<closed, lock, waiters>>

\* A closed FD (errClosing) or a full counter (panic) leaves state alone.
Refuse(g) == Goto(g, "idle") /\ UNCHANGED muVars

incref(g) ==
  /\ pc[g] = "incref"
  /\ IF closed \/ Full(ref, RefLimit)
     THEN Refuse(g)
     ELSE /\ ref' = ref + 1
          /\ Goto(g, "misc")
          /\ UNCHANGED <<closed, lock, waiters>>
  /\ UNCHANGED <<sema, csema, fdVars, op, last, towake>>

\* The three outcomes of an iteration of rwlock.
RefuseLock(g, m) ==
  /\ closed \/ (IF Free(m) THEN Full(ref, RefLimit) ELSE Full(waiters[m], WaitLimit))
  /\ Refuse(g)

TakeLock(g, m) ==
  /\ ~closed /\ Free(m) /\ ~Full(ref, RefLimit)
  /\ lock' = [lock EXCEPT ![m] = TRUE]
  /\ ref' = ref + 1
  /\ Goto(g, "prepare")
  /\ UNCHANGED <<closed, waiters>>

AwaitLock(g, m) ==
  /\ ~closed /\ ~Free(m) /\ ~Full(waiters[m], WaitLimit)
  /\ waiters' = [waiters EXCEPT ![m] = @ + 1]
  /\ Goto(g, "semacquire")
  /\ UNCHANGED <<closed, ref, lock>>

rwlock(g) ==
  /\ pc[g] = "rwlock"
  /\ RefuseLock(g, op[g]) \/ TakeLock(g, op[g]) \/ AwaitLock(g, op[g])
  /\ UNCHANGED <<sema, csema, fdVars, op, last, towake>>

\* The Semacquire inside rwlock; the signaller has subtracted the waiter.
Semacquire(g) ==
  /\ pc[g] = "semacquire"
  /\ sema[op[g]] > 0
  /\ sema' = [sema EXCEPT ![op[g]] = @ - 1]
  /\ Goto(g, "rwlock")
  /\ UNCHANGED <<muVars, csema, fdVars, op, last, towake>>

\* Where a goroutine goes after giving up its reference.
Released(g, destroy) == IF destroy THEN "pdClose"
                        ELSE IF op[g] = "close" THEN "readIsBlocking" ELSE "idle"

rwunlock(g) ==
  LET m == op[g] IN
  /\ pc[g] = "rwunlock"
  /\ lock' = [lock EXCEPT ![m] = FALSE]
  /\ ref' = ref - 1
  /\ IF waiters[m] > 0
     THEN /\ waiters' = [waiters EXCEPT ![m] = @ - 1]
          /\ last' = [last EXCEPT ![g] = LastRef]
          /\ Goto(g, "semrelease")
     ELSE /\ Goto(g, Released(g, LastRef))
          /\ UNCHANGED <<waiters, last>>
  /\ UNCHANGED <<closed, sema, csema, fdVars, op, towake>>

\* The Semrelease of rwunlock, and its return to readUnlock/writeUnlock.
Semrelease(g) ==
  /\ pc[g] = "semrelease"
  /\ sema' = [sema EXCEPT ![op[g]] = @ + 1]
  /\ Goto(g, Released(g, last[g]))
  /\ last' = [last EXCEPT ![g] = FALSE]
  /\ UNCHANGED <<muVars, csema, fdVars, op, towake>>

decref(g) ==
  /\ pc[g] = "decref"
  /\ ref' = ref - 1
  /\ Goto(g, Released(g, LastRef))
  /\ UNCHANGED <<closed, lock, waiters, sema, csema, fdVars, op, last, towake>>

increfAndClose(g) ==
  /\ pc[g] = "increfAndClose"
  /\ IF closed \/ Full(ref, RefLimit)
     THEN Refuse(g) /\ UNCHANGED towake
     ELSE /\ closed' = TRUE
          /\ ref' = ref + 1
          /\ waiters' = [m \in Mode |-> 0]
          /\ towake' = [towake EXCEPT ![g] = waiters]
          /\ Goto(g, "wakeAll")
          /\ UNCHANGED lock
  /\ UNCHANGED <<sema, csema, fdVars, op, last>>

WritersWoken(g) == towake[g]["write"] = 0
ReadersWoken(g) == towake[g]["read"] = 0
AllWoken(g) == \A m \in Mode : towake[g][m] = 0

\* The two loops of increfAndClose: every reader, then every writer.
WakeAll(g) ==
  /\ pc[g] = "wakeAll"
  /\ \/ \E m \in Mode :
          /\ towake[g][m] > 0
          /\ m = "write" => towake[g]["read"] = 0
          /\ towake' = [towake EXCEPT ![g][m] = @ - 1]
          /\ sema' = [sema EXCEPT ![m] = @ + 1]
          /\ UNCHANGED pc
     \/ /\ AllWoken(g)
        /\ Goto(g, "evict")
        /\ UNCHANGED <<sema, towake>>
  /\ UNCHANGED <<muVars, csema, fdVars, op, last>>

-----------------------------------------------------------------------------
(* The bodies of the operations *)

\* pd.prepareRead / prepareWrite.
Prepare(g) ==
  /\ pc[g] = "prepare"
  /\ Goto(g, IF pd = "evicted" THEN "rwunlock" ELSE "syscall")
  /\ UNCHANGED <<muVars, sema, csema, fdVars, op, last, towake>>

\* The read or write system call finds nothing to do on a non-blocking
\* descriptor (EAGAIN).
WouldBlock(g) ==
  /\ pc[g] = "syscall"
  /\ nonblock
  /\ Goto(g, IF Pollable THEN "poll" ELSE "rwunlock")
  /\ UNCHANGED <<muVars, sema, csema, fdVars, op, last, towake>>

\* The system call has data or buffer space: chosen by the environment.
Transfer(g) ==
  /\ pc[g] = "syscall"
  /\ Goto(g, "rwunlock")
  /\ UNCHANGED <<muVars, sema, csema, fdVars, op, last, towake>>

\* pd.wait returns because the descriptor was evicted.
WaitEvicted(g) ==
  /\ pc[g] = "poll"
  /\ pd = "evicted"
  /\ Goto(g, "rwunlock")
  /\ UNCHANGED <<muVars, sema, csema, fdVars, op, last, towake>>

\* pd.wait returns because of readiness (loop) or a deadline (give up).
WaitReturns(g) ==
  /\ pc[g] = "poll"
  /\ pd # "evicted"
  /\ \E label \in {"syscall", "rwunlock"} : Goto(g, label)
  /\ UNCHANGED <<muVars, sema, csema, fdVars, op, last, towake>>

\* An operation under incref (Pread, Seek, Fstat, SetDeadline, ...), and
\* the first statement of SetBlocking.  ReadDirent, which under incref also
\* waits in the poller, is left out.
Misc(g) ==
  /\ pc[g] = "misc"
  /\ IF op[g] = "setBlocking"
     THEN isBlocking' = TRUE /\ Goto(g, "setNonblock")
     ELSE UNCHANGED isBlocking /\ Goto(g, "decref")
  /\ UNCHANGED <<muVars, sema, csema, nonblock, sysfd, pd, op, last, towake>>

\* syscall.SetNonblock(fd.Sysfd, false)
SetNonblock(g) ==
  /\ pc[g] = "setNonblock"
  /\ nonblock' = FALSE
  /\ Goto(g, "decref")
  /\ UNCHANGED <<muVars, sema, csema, isBlocking, sysfd, pd, op, last, towake>>

-----------------------------------------------------------------------------
(* Close and destroy *)

NoEvict(g) ==
  /\ pc[g] = "evict"
  /\ Goto(g, "decref")
  /\ UNCHANGED <<muVars, sema, csema, fdVars, op, last, towake>>

\* fd.pd.evict() in Close.
Evict(g) ==
  /\ pc[g] = "evict"
  /\ pd' = IF Pollable THEN "evicted" ELSE pd
  /\ Goto(g, "decref")
  /\ UNCHANGED <<muVars, sema, csema, isBlocking, nonblock, sysfd, op, last, towake>>

\* destroy, in three steps: fd.pd.close(), CloseFunc(fd.Sysfd), and
\* fd.Sysfd = -1 with Semrelease(&fd.csema).
PdClose(g) ==
  /\ pc[g] = "pdClose"
  /\ pd' = IF Pollable THEN "closed" ELSE pd
  /\ Goto(g, "closeFunc")
  /\ UNCHANGED <<muVars, sema, csema, isBlocking, nonblock, sysfd, op, last, towake>>

CloseFunc(g) ==
  /\ pc[g] = "closeFunc"
  /\ sysfd' = "closed"
  /\ Goto(g, "signal")
  /\ UNCHANGED <<muVars, sema, csema, isBlocking, nonblock, pd, op, last, towake>>

Signal(g) ==
  /\ pc[g] = "signal"
  /\ csema' = csema + 1
  /\ Goto(g, Released(g, FALSE))
  /\ UNCHANGED <<muVars, sema, fdVars, op, last, towake>>

\* Close reads isBlocking without synchronization, then waits or returns.
ReadIsBlocking(g) ==
  /\ pc[g] = "readIsBlocking"
  /\ Goto(g, IF isBlocking THEN "idle" ELSE "wait")
  /\ UNCHANGED <<muVars, sema, csema, fdVars, op, last, towake>>

WaitClosed(g) ==
  /\ pc[g] = "wait"
  /\ csema > 0
  /\ csema' = csema - 1
  /\ Goto(g, "idle")
  /\ UNCHANGED <<muVars, sema, fdVars, op, last, towake>>

-----------------------------------------------------------------------------
\* The steps a running goroutine takes by itself.
Step(g) ==
  \/ incref(g) \/ rwlock(g) \/ Semacquire(g) \/ rwunlock(g) \/ Semrelease(g)
  \/ decref(g) \/ increfAndClose(g) \/ WakeAll(g)
  \/ Prepare(g) \/ WouldBlock(g) \/ WaitEvicted(g) \/ Misc(g) \/ SetNonblock(g)
  \/ Evict(g) \/ PdClose(g) \/ CloseFunc(g) \/ Signal(g)
  \/ ReadIsBlocking(g) \/ WaitClosed(g)

\* The steps the caller or the outside world decides on.
Environment(g) == (\E o \in Ops : Call(g, o)) \/ Transfer(g) \/ WaitReturns(g)

Next == \E g \in Goroutine : Step(g) \/ Environment(g)

Spec == Init /\ [][Next]_vars

\* Every goroutine the Go scheduler can run is eventually run; no call has
\* to be made and no I/O has to become possible.
FairSpec == Spec /\ \A g \in Goroutine : WF_vars(Step(g))

-----------------------------------------------------------------------------
Count(labels) == Cardinality({g \in Goroutine : pc[g] \in labels})
Users(m, labels) == {g \in Goroutine : op[g] = m /\ pc[g] \in labels}

\* The bit fields never leave their width and no counter goes negative.
TypeOK ==
  /\ closed \in BOOLEAN /\ ref \in 0 .. RefLimit - 1
  /\ lock \in [Mode -> BOOLEAN] /\ waiters \in [Mode -> 0 .. WaitLimit - 1]
  /\ sema \in [Mode -> Nat] /\ csema \in Nat
  /\ isBlocking \in BOOLEAN /\ nonblock \in BOOLEAN
  /\ sysfd \in {"open", "closed"}
  /\ pd \in {"none", "open", "evicted", "closed"}
  /\ pc \in [Goroutine -> Labels]
  /\ op \in [Goroutine -> Mode \cup {"misc", "setBlocking", "close"}]
  /\ last \in [Goroutine -> BOOLEAN]
  /\ towake \in [Goroutine -> [Mode -> Nat]]

\* The reference field counts exactly the operations in progress, across
\* every interleaving of lock, unlock, incref, decref and Close.
RefsAccounted == ref = Count(Holding)

\* Read operations are serialized with one another, and so are writes; the
\* lock bit says whether one is in progress (so rwunlock never panics).
SerializedIO ==
  \A m \in Mode : /\ lock[m] <=> Users(m, InIO) # {}
                  /\ \A g, h \in Users(m, InIO) : g = h

\* "otherwise fd can be closed under their feet": while any operation holds
\* a reference, neither the descriptor nor its poll descriptor is closed.
NoUseAfterClose ==
  (\E g \in Goroutine : pc[g] \in Holding) => sysfd = "open" /\ pd # "closed"

\* destroy runs at most once, so the number in Sysfd, which the kernel may
\* have given to someone else by then, is never closed twice.
DestroyOnce ==
  /\ \A g, h \in Goroutine : pc[g] \in Destroying /\ pc[h] \in Destroying => g = h
  /\ \A g \in Goroutine : pc[g] \in {"pdClose", "closeFunc"} => sysfd = "open"

\* The poll descriptor is evicted before it is closed: runtime_pollClose
\* throws on one that is not.
EvictedBeforeClosed == \A g \in Goroutine : pc[g] = "pdClose" => pd # "open"

\* No wakeup is lost or spare: the goroutines inside Semacquire are those
\* still counted in the state word, those already signalled, and those a
\* rwunlock or increfAndClose is about to signal.
WaitersAccounted ==
  \A m \in Mode :
    Cardinality(Users(m, {"semacquire"})) =
      waiters[m] + sema[m] + Cardinality(Users(m, {"semrelease"}))
        + (IF Count({"wakeAll"}) > 0
           THEN towake[CHOOSE g \in Goroutine : pc[g] = "wakeAll"][m] ELSE 0)

\* A Close that waits returns only once the system descriptor is closed.
CloseWaits ==
  [][\A g \in Goroutine :
       pc[g] = "wait" /\ pc'[g] = "idle" => sysfd = "closed"]_vars

\* Every Close returns: eviction gets all I/O out of the descriptor, as the
\* comment in Close says ("This should happen fairly quickly ...").
CloseReturns ==
  \A g \in Goroutine : (pc[g] \in Closing) ~> (pc[g] = "idle")

\* What of that holds: every Close returns unless a SetBlocking takes effect on a
\* descriptor that was pollable; I/O that never becomes possible does not hold it up.
CloseReturnsUnlessSet ==
  \A g \in Goroutine : (pc[g] \in Closing) ~> (pc[g] = "idle" \/ (isBlocking /\ pd # "none"))

\* Closing the FD gets every reader and writer out of its wait for the lock.
ClosedWakes ==
  \A g \in Goroutine : (closed /\ pc[g] = "semacquire") ~> (pc[g] = "idle")
=============================================================================
