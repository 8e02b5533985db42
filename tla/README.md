# Verification of the concurrency core of libgo

The repository holds two programs: the Go compiler front end (`go/`, C++) and
`libgo`, the Go runtime and standard library (`libgo/`). This project models
the part of libgo that is concurrent and that everything else rests on:
channels and `select`, file descriptors and the network poller below them,
semaphores and mutexes, timers, the wakeups of the scheduler and the stopping of
the world. TLC checks the models on small instances, and TLAPS proves the central
invariants of channels, descriptors, mutexes with their semaphores, `sync.Once`, the
futex lock, the scheduler and the stopping of the world for every number of
goroutines, channels, threads and processors, every capacity and every counter width.

Paths below are relative to `src/libgo/go/` unless they start with `src/`.

## The system

| Part | State | Operations | What makes it hard | Module |
|---|---|---|---|---|
| Channels, `runtime/chan.go` | ring buffer, `closed`, queues of waiting sudogs, lock | `chansend`, `chanrecv`, `closechan`, non-blocking forms with lock-free fast paths | a partner is found, copied from or to, and made ready in three places, the last after the unlock; unlocked reads race with close | `Chan`, `ChanFast`, `ChanSpec` |
| Select, `runtime/select.go` | `pollorder`, `lockorder`, one sudog per case, `selectDone` | `selectgo` (three passes), `sellock`, `selparkcommit`, `dequeueSudoG` | many locks; one winner among cases signalled at the same time; sudogs read after the goroutine may run again | `Chan`, `SelectOrder` |
| Wait queues, `waitq` in both files | doubly linked list | `enqueue`, `dequeue`, `dequeueSudoG` | a sudog may leave by either end or from the middle, or have left already | `WaitQ` |
| Parking, `runtime/proc.go` | goroutine status, `param` | `gopark`, `goready`, sudog cache | a goroutine counts as waiting before its locks are dropped | in `Chan` |
| Descriptors, `internal/poll` | one 64-bit word, semaphores, `isBlocking`, poll descriptor | `fdMutex` operations, `FD` I/O, `SetBlocking`, `Close`, `destroy` | close against everything else; the last one out closes the descriptor | `PollFD` |
| Network poller, `runtime/netpoll.go` | `pollDesc`: `rg`/`wg`, deadlines, sequence numbers | open, close, reset, wait, set deadline, unblock, ready | readiness, deadline and close race; descriptors are reused | `Netpoll` |
| Semaphores, `runtime/sema.go` | count, waiters | `semacquire1`, `semrelease1` | missed wakeups, hand-off | `Sema` |
| `sync.Mutex`, `sync/mutex.go` | three flags and a counter in one word | `Lock`, `TryLock`, `Unlock` | stale copies of the word, starvation mode | `Mutex`, `MutexSpec` |
| `sync.Once`, `sync/once.go` | `done`, a mutex | `Do` | order of the store and the call, panics | `Once` |
| Runtime locks, `runtime/lock_futex.go` | one word | `lock2`, `unlock2` | the mark of sleeping threads | `FutexLock` |
| Timers, `runtime/time.go` | status of each timer, heap of each P | add, delete, modify, reset, run, adjust, clear, move | a ten-state protocol between Ps | `Timers`, `TimerSpec` |
| Scheduler, `runtime/proc.go` | run queues, idle Ps, spinning Ms | `wakep`, `startm`, `stopm`, `findrunnable`, `handoffp`, system calls | lost wakeups | `Sched` |
| Stopping the world, `runtime/proc.go` | `gcwaiting`, `stopwait`, `runSafePointFn` | `stopTheWorldWithSema`, `forEachP`, `gcstopm`, `retake` | a P in a system call changes hands without a lock | `World` |

Interactions: channels, select and semaphores park and wake goroutines through
`proc.go`; `sync` rests on `sema.go`; `internal/poll` rests on `sema.go` and the
network poller; the poller rests on timers and `gopark`; all of the runtime
rests on the futex locks. `PROJECT.json` lists the components with their status
and the hazards with the line where each bites.

## Modules

### Chan: channels and select

`Chan.tla` models `chan.go` and `select.go` together, since a select and a plain
operation meet in the same queues.

State. For each channel: `qcount`, `sendx`, `recvx`, `buf`, `closed`, `sendq`,
`recvq` and the holder of `lock`, as in `hchan`. A channel is its address, a
positive number, because `sellock` sorts by it; `Nil` is the nil channel. For
each goroutine: its place `pc`, its call (kind, cases, blocking or not), the
locks it still has to take (`need`) and `selparkcommit` still has to drop
(`commit`), the goroutines it still has to make ready (`toReady`), `param`,
`success` of the sudog that `param` names, `selectDone`, and the memory a
receive writes to (`got`). `accepted` and `delivered` are history: the elements
a channel took in and gave out. An element is an identity (goroutine, call,
case), which is all that a channel may do with it.

Steps. A section under one channel lock is a single step (`chansend`,
`chanrecv`) because nothing in it can be seen from outside until the unlock,
with three exceptions that are steps of their own:

- the unlocked reads of the fast paths (`FastSend`, `FastRecv`), which is why
  `closechan` is cut after `closed` is set (`CloseBegin`, `CloseDrain`). The two
  reads of a send happen in either order, as the comment in `chansend` allows;
- `goready`, which runs after the unlock (`Wake`, `ReadyAll`); `ready` throws
  when its goroutine is not waiting, and so does the model;
- parking: the goroutine is waiting first, and the locks are dropped one by one
  afterwards (`Park`, `Commit`).

Select takes its locks one at a time (`sellock`), looks at its cases (`Pass1`),
queues a sudog per case (`Pass2`, `EnqueueCase`), parks, takes the locks again,
leaves the other queues (`dequeueSudoG`) and returns (`Pass3`). Pass 1 polls in a
random order: a case that can proceed is taken after an arbitrary set `P` of
cases that cannot, whose queues `dequeue` has cleared of dead sudogs on the way.

Abstractions, and why they keep the behaviour: `selunlock` is joined to the
section it ends, because dropping a lock commutes with every step of another
goroutine before it; `closechan` makes
its goroutines ready in any order instead of the order of its list; the order
of several cases on one channel within the lock order is arbitrary, as a heap
sort leaves it. `Calls` and `MaxCalls` choose the operations and bound the
number of calls of a goroutine.

`ChanSpec.tla` is what a channel promises: first in, first out, at most `Cap`
elements inside, a sender and a receiver may meet while the channel is empty or
full, nothing enters after close. The refinement mapping is the identity on
`accepted`, `delivered` and `closed`. `ChanFast.tla` adds a history variable to
`Chan`: whether, since its call, there was a moment at which a non-blocking
operation could not proceed on an open channel.

### WaitQ: the queue itself

`Chan` takes a queue for a sequence. `WaitQ.tla` has the links (`first`, `last`,
`next`, `prev`) and the sequence as history, with one step per iteration of
`dequeue`, because `selectDone` of a waiter may change in between.

### SelectOrder: poll order and lock order

`Chan` takes the lock order for granted (`LockOrders`). `SelectOrder.tla` is the
shuffle and the heap sort of `selectgo`, an iteration per step, on arrays that
start with arbitrary contents.

### PollFD: a descriptor and its users

`PollFD.tla` models `fdMutex` and `FD`. The word `fdMutex.state` is split into
`closed`, `ref`, `lock` and `waiters`; each method is a loop of load, compute and
compare-and-swap whose new value depends on the loaded word only, so the
iteration that succeeds is one step. A carry out of a 20-bit field is the panic
`overflowMsg`; `RefLimit` and `WaitLimit` are the widths. The semaphores are
counters (external: `runtime_Semacquire`, `runtime_Semrelease`). Operations that
hold a reference and differ only in the system call share the action `Misc`;
`ReadDirent` and `WaitWrite`, which wait without a read or write lock, are left out. The
network poller appears as `FD` uses it: open, evicted, closed.

### Sema and Mutex

`Sema.tla` has the steps of `semacquire1` and `semrelease1`: the count is changed
without the root's lock and `nwait` is read without it, so each of these accesses
is a step; the sections under the lock are steps except where the unlocked
accesses can fall into them (between the announcement in `nwait` and the second try
at the count). The waiters of an address are a sequence, in place of the treap.
`Mutex.tla` is `sync.Mutex` over these steps: `state` is split into its fields, each
atomic operation is a step and `old` is the copy the code works from. Time appears
as the number of waits: after `Patience` of them a goroutine has certainly waited
longer than the starvation threshold, before that it may have. `MutexSpec.tla` is a
lock that a goroutine in `Lock` or `TryLock` may take while nobody has it.

### Once and FutexLock

`Once.tla` is `Do`, with a lock for its mutex and an `f` that returns or panics;
either way the deferred store and the deferred unlock follow. `FutexLock.tla` is
`lock2` and `unlock2`: each exchange or compare-and-swap of the key is a step,
`futexsleep` compares and sleeps in one step and may return for no reason. These two
are small enough for their proofs to stand alone; no run instantiates them.

### Netpoll: a pollDesc

`Netpoll.tla` follows one `pollDesc` from its first `pollOpen` through close and
reuse. A section under `pd.lock` is cut into the steps that `netpollblock` and
`netpollcheckerr`, which do not take the lock, can tell apart: `todo` holds the rest
of the section. A timer that has fired waits for the lock in `firing`, with the
sequence number it was armed with; an event that `epollwait` has returned waits in
`events` and may be delivered after the descriptor was closed and opened again.
There is one waiter per mode, which is what `fdMutex` ensures. `Never` is what a
deadline becomes whose addition to the clock overflows: a time that is not reached.

### Timers

`Timers.tla` has the status word of each timer, the heap of each P as a set with the
published `timer0When`, `timerModifiedEarliest` and `deletedTimers`, users who stop,
set and reset timers without the heap's lock, runners that adjust, clear and run
under it and drop it around the timer's function, and the destruction of a P, whose
timers move. Statuses in which others can only spin are passed within one step. Times
are natural numbers: the clamp of a period that overflows (`maxWhen`) is left out.
`TimerSpec.tla` says what is promised of a timer: it runs once per setting, not
before its time, and who stops or sets it is told truly whether it came first.
The refinement mapping gives a timer the time of the call that modifies it, the
time it was modified to or its place in the heap, depending on its status.

### Sched: parking and unparking threads

`Sched.tla` has the Ms, the Ps, the idle lists and the count of spinning Ms. Each
load or atomic operation on `nmspinning`, `npidle` and the queues of other Ps is a
step, and so is each section under `sched.lock`. A run queue is the set of its
goroutines. `preempt` holds the goroutines whose `gp.preempt` is set: sysmon sets it
(`PreemptOne`), `schedule` moves a flagged goroutine of the own queue to the global
one (`Requeue`), and `execute` clears it. `gap` records, as history, whether one of
five windows was hit in which the code leaves a P idle beside runnable work (see
Disagreements).

### World: stopping the world and forEachP

`World.tla` has the status of each P, `sched.lock` as a variable (because the status
of a P in a system call changes without it), `stopwait` and `safePointWait` with
their notes, entering and leaving system calls, `handoffp` (which may also start an M
after it has run the safe point function, `HandoffWork`), `gcstopm` and sysmon's
`retake`.

## Runs

`tlc -config X.cfg M` in this directory. Sizes are distinct states.

| Run | Configuration | Instance | What it shows |
|---|---|---|---|
| `chan_select` | `ChanSelect.cfg`, `MCChan` | 3 goroutines, 2 calls each: selects with up to 3 cases, plain operations and closes on an unbuffered and a one-slot channel (1,327,000) | the queue invariants of `chan.go`, order of elements, truthful outcomes, one winner, no lock deadlock, no lost wakeup, sudogs never used after they are given back nor left behind |
| `chan_fastpath` | `ChanFast.cfg`, `MCChanFast` | 3 goroutines, 1 slot, 2 calls each, every kind of call, closes by two of them (175,000) | a refusal on the lock-free path is justified; closed is reported only when drained; `Chan` implements `ChanSpec`; close releases everyone |
| `chan_fastpath_unbuffered` | `ChanFastSend.cfg`, `MCChanFast` | 3 goroutines, unbuffered, every plain operation | violated: see Findings |
| `waitq_links` | `WaitQ.cfg`, `MCWaitQ` | 4 sudogs (678, up to symmetry) | the links are the sequence; removal is recognised; the oldest live waiter is returned |
| `select_order` | `SelectOrder.cfg`, `MCSelectOrder` | 5 cases, 3 addresses or nil, every shuffle (860,000) | the lock order is complete and sorted |
| `fd_safety` | `PollFD.cfg`, `MCPollFD` | 3 goroutines, all operations, fields of 3 and 2 (89,000) | accounting of references and waiters, exclusion, no use after close, eviction first; `Close` returns unless `SetBlocking` took effect, and waiters for the lock get out |
| `fd_setblocking` | `PollFDSetBlocking.cfg`, `MCPollFD` | 3 goroutines that read, set blocking and close | violated: see Findings |
| `mutex` | `Mutex.cfg`, `MCMutex` | 3 goroutines, any number of calls (445,000, up to symmetry) | no throw and no carry between fields; nobody sleeps beside a free mutex unless somebody is bound to take it or wake the sleeper; `Mutex` implements `MutexSpec` |
| `netpoll` | `Netpoll.cfg`, `MCNetpoll` | a writer, deadlines for writing and for both, 2 openings, 1 event for both modes, times up to 3 and `Never` (795,000) | no throw, readiness consumed once, no early timeout, every wait ends |
| `timers` | `Timers.cfg`, `MCTimers` | 2 timers, one periodic, 2 users, 1 runner, 2 Ps, 3 operations, times up to 2 (382,000, up to symmetry) | no throw, the published wake time is not late, `Timers` implements `TimerSpec` |
| `sched` | `Sched.cfg`, `MCSched` | 3 Ms, 2 Ps, 2 goroutines, sysmon (270,000) | one owner for each P, each goroutine in one place, no lost wakeup outside the five windows, runnable goroutines run |
| `world` | `World.cfg`, `MCWorld` | 3 Ms, 2 Ps, sysmon, 1 stop or `forEachP`, 1 system call (100,000) | a stopped world runs nothing, each P runs the function once, the stop ends if goroutines look at `gp.preempt` |

Bounds. Three goroutines are needed for the cases that matter: a waiter, the
one that signals it and a third that interferes (a second signaller, a closer,
a barging receiver, a newcomer to a mutex). Two calls let a goroutine come back
while what it left behind is still in use, and take `sendx` and `recvx` round a ring
of one slot and into the case where a sender waits on a full buffer; longer rings
are covered by the proof of `InOrder`. A second goroutine that may close lets a
non-blocking send find the channel full and closed. Two channels, one named twice and one nil, are
what `sellock` and `selparkcommit` distinguish. Five cases give a heap of three
levels, so that an entry can be sifted twice, past nodes with two, one and no
children. `RefLimit` 3 and `WaitLimit` 2 make the counters of `fdMutex` reach their
limit with three goroutines. `Mutex` bounds nothing but the number of goroutines:
`MaxCount` is never reached and `Patience` 2 allows a wait in each mode. A timer or
an event of a descriptor's first use needs a second opening and a second deadline to
be mistaken for another, and three moments let the timer of the first deadline come
late, between its own time and that of the second; modes are alike, so one goroutine waits while deadlines and
events are about both. Two users of one timer, a runner and a P that is destroyed are
the four parties of the timer protocol, and three operations an add and two that
race. Three Ms on two Ps leave one M without a P: the one that comes back from a
system call, or that is woken for nothing. `MaxReady` counts how often a goroutine is
made runnable, `MaxOps` and `MaxSys` the stops and the system calls.
Goroutines, sudogs or users are symmetric in the runs that declare it; runs with
liveness properties use no symmetry. Deadlock is reported for `PollFD`, `Mutex` and
`WaitQ`, where somebody can always go on. Elsewhere it is not, because the bounds let
the system stop: goroutines that all wait, or that have used up their calls, are
legal; that nobody waits wrongly is what the properties say. A sort that is done is
the end of `SelectOrder`.

Fairness. `FairFastSpec` of `ChanFast` has weak fairness for the steps of each
goroutine and for the thread that parks it; no goroutine has to make a call. That is
what the Go scheduler gives: a goroutine that stays runnable is run. Weak fairness
is enough for a goroutine that waits for a channel lock because the number of
calls is bounded, so the others leave the lock alone at last; nothing is claimed
of a lock that is contended forever. `FairSpec` of `PollFD` is weak fairness for
the steps a goroutine takes by itself; neither new calls nor readiness of I/O is
assumed, so `Close` has to return when no data ever arrives. `FairSpec` of `Netpoll`
lets goroutines, fired timers and the poller go on and time pass, but nobody need
send data, set a deadline or close. `FairSpec` of `Sched` is that the operating
system runs every M, that system calls return and that a goroutine parks sooner or
later; `RunnableRuns` can hold only then, since a goroutine that never stops keeps its
P. Nothing is assumed of sysmon. `FairSpec` of `World` lets system calls last
forever and sysmon sleep while `gcwaiting` is set. Its fairness of `Yield` is an
assumption about the program: every running goroutine parks, makes a call, or reaches
one of the places that look at `gp.preempt` (allocation, select, maps, channels, the end
of a system call). gccgo has neither a check in function prologues nor asynchronous
preemption (`runtime/proc.go:5049`), so the code gives no more: a goroutine in a loop
without such a place keeps the world from stopping. For `Mutex` and `Timers` safety only is claimed: a mutex in normal mode
may be barged forever by the model's unbounded newcomers, and timers may be modified
again and again.

## Findings

- `fd_setblocking`: `Close` can wait forever for a reader when a `SetBlocking`
  that began before it stores `isBlocking` after `Close` has read it
  (`internal/poll/fd_unix.go:115`). The comment there says no atomic read is
  needed because `increfAndClose` gives exclusive access; it keeps new operations
  out, not those in progress.
- `chan_fastpath_unbuffered`: the comment on the fast path of `chansend`
  (`runtime/chan.go:197`) argues that a refused send implies a moment at which the
  channel was open and not ready for sending, since a closed channel never turns
  from ready to not ready. On an unbuffered channel it does: `closechan` takes the
  waiting receivers away. The refusal is then not justified by any such moment. On
  buffered channels the argument holds.
- A comment without a run: `runtime/chan.go:165` still says that a closed channel
  wakes the sleeper with `g.param == nil`; the code sets `gp.param = sg` and
  `sg.success = false`.

## Disagreements without a run of their own

The models contain these behaviours too; they make a comment inexact and break none
of the checked properties.

- `sync/mutex.go:53` says that in starvation mode ownership is handed "directly" to
  the waiter at the front. The hand-over passes through the semaphore's count
  (`runtime/sema.go:105`), where a goroutine that has just queued up can take it first.
- `runtime/netpoll.go:173` says stale notifications are detected by `seq`. That holds
  of timers; `netpollready` compares nothing, and an event of a closed descriptor makes
  its successor ready. The user tries its system call again, so it costs a wakeup.
- `netpollblockcommit` (`runtime/netpoll.go:490`) adds to `netpollWaiters` and only
  deadlines and close subtract: goroutines made ready by events stay counted.
- `deltimer` (`runtime/time.go:321`) adds to `deletedTimers` after it has let go of the
  status; if the P was destroyed meanwhile, the count stays at one for an empty heap.
  `runtimer` (`runtime/time.go:789`) leaves `timerModifiedEarliest` set when it moves
  the last such timer, although `runtime2.go:728` says it is 0 then.
- `runtime/proc.go:133` says the parking scheme "guarantees eventual maximal CPU
  parallelism utilization". Five windows leave a P idle beside a runnable goroutine
  until the next scheduling event: an M that was not spinning gives its P back without
  a second look (`proc.go:2581`); `startm` undoes its count of spinning Ms while a
  submitter relies on it (`proc.go:2159`); `Gosched` puts its goroutine on the global
  queue after the parking M looked there (`proc.go:3246`), and so does `schedule` with a
  goroutine that was told to stop (`proc.go:3076`); `handoffp` decides on a stale
  `npidle` (`proc.go:2270`). `DanceLosesNothing` excludes them by `gap`,
  `RunnableRuns` does not.
- `runtime/proc.go:1517` says a P entering a system call observes `runSafePointFn`.
  `reentersyscall` looks at it before it stores `_Psyscall`; if `forEachP` passes in
  between, it is sysmon or the return of the call that runs the function.

## Proofs

All constants are arbitrary, subject to the named assumptions: channel addresses
are positive numbers, capacities are natural numbers, only a select has more or
less than one case (`ChanAssumption`, `CallsAssumption`); finitely many
goroutines share a descriptor or a semaphore (`FDAssumption`, `SemaAssumption`), and
there are finitely many Ms, Ps and goroutines (`SchedAssumption`, `WorldAssumption`),
since the proofs count them; field widths are positive. The bounds that make a model
finite are arbitrary numbers too. TLC evaluates the assumptions in the runs. `Once` and
`FutexLock` assume nothing: their `None` is chosen outside the goroutines and threads.

Each invariant below was checked by TLC, on the instance of the component's run,
before it was proved.

**PollFDProofs** proves of `PollFD`: `TypeCorrect` (no field of the word overflows
or goes negative), `ReferencesCounted`, `IOSerialized`, `UseBeforeClose`,
`DestroyedOnce`, `EvictedFirst`, `WakeupsCounted` (`WaitersAccounted`: the wait fields
of the word and the semaphores count the sleepers) and the action property
`CloseIsSynchronous`. The
invariant adds to these what they need of each other: who may be destroying (only
after the closed bit is set and the reference count has come to zero), what a
goroutine between `rwunlock` and its `Semrelease` knows, and what `csema` says of
the descriptor. The count of references is a cardinality, so each action either
leaves the set of holders alone, adds its goroutine or removes it.

**ChanFacts, ChanSteps, ChanWaiters, ChanProofs** prove of `Chan`: `TypeCorrect`,
`InOrder` (`FIFO`), `WaitersMatch` (buffered elements mean no waiting receiver, a free
slot no waiting sender), `CommitSafe` (`CommitHoldsLocks`), `NoStale` (`NoStaleSudog`),
`QueuesAsStated` (`QueueInvariants`) and `NoWakeupLost` (`NoLostWakeup`), for plain
operations and selects in any mix. There are two invariants. The first, `IInv`, is about
elements and locks and has four parts:

- `DataOK`: for each channel, `Ring` says that the slot of position `k` of the
  history (`k` modulo the capacity) holds the `k`-th element taken in, for the
  positions between what was given out and what was taken in, and that `sendx` and
  `recvx` are the slots of the next positions; `QueuesOK` says whom the count
  allows to wait;
- `GotOK` and `ControlOK`: types;
- `PlaceOK(g)`: what the place of `g` in the code implies about locks. A plain
  operation about to park holds its channel's lock; a select between pass 1 and
  parking holds all its locks and none of its cases can proceed; the locks in
  `commit` are held; a select waiting for its locks holds those it has passed.

The locks are part of the invariant because a select queues its sudogs some steps
after it found that it has to wait: `QueuesOK` survives only because nobody else
could change the channel in between. `FIFO` itself is not inductive: it says what
the buffer holds but not where the next element goes.

`ChanSteps` shows that the four ways an element moves (hand-over to a
receiver, into the buffer, out of the buffer, out of a full buffer with a sender
waiting) keep `DataOK`. It then shows, action by action, that a step of `h` establishes `StepOK(h)`: its own part of the invariant, and `Frame(h)`, that what
the others rely on is as it was (a channel locked by another goroutine keeps its
count and its closed flag, others keep their place unless they are woken).
`StepIInv` turns that into `IInv'` for everybody.

The second invariant, `WInv` of `ChanWaiters`, is about who waits and who is about to be
woken (theorem `Waiters`):

- `QueuesSound`: every sudog in a queue is that of a case, on that channel and in that
  direction, of the call its goroutine is in, and is there once;
- `BlockOK(g)`: `g` has queued sudogs only while it blocks; waiting with nobody about to
  wake it, it is in the queue of each of its cases; awake again, it is out of the queue
  of the case that woke it; `selectDone` is set only of a select that has been won;
- `RelockOK(g)`: a select on its way out has each of its locks or is still to take it,
  and in pass 3 has all of them;
- `SignalOK(g)` and `ReadyOK(h)`: whoever is about to be made ready waits, is out of the
  queue of the case that woke it, and is in the `toReady` of one goroutine, once;
- `ClosedOK(c)` and `OppositeOK(c)`: a closed channel has empty queues once the close has
  drained them; two goroutines never wait at opposite sides of a channel, only a select
  with itself;
- `Pass2OK(g)`: while a select queues its sudogs, none of its channels is closed and
  nobody else waits at the opposite side.

None of the three properties is inductive. That no wakeup is lost depends on each waiter
being signalled by one goroutine only, which depends on `dequeue` passing over the sudogs
of a select that has been won, which depends on `selectDone` being set in the step that
finds the winner. `StepW` reduces a step of `h` to what it does to `h`,
to the queues it touches and to those it picks; for everybody else the invariant is kept
because their sudogs stay where they are.

The lemmas assume two facts about numbers, `NatFacts` (a set of numbers has a least
element; a subset of `1 .. n` has a count), where they need them; `ChanProofs` proves
them from the library and derives the theorems.

**MutexProofs** proves of `Mutex` over `Sema`: `MutexConsistent` (`NeverInconsistent`:
no throw, no carry between the fields of the word), `MutexNoticed`
(`FreeMutexIsNoticed`) and `MutexImplementsLock`, the refinement of `MutexSpec`. The
argument is that there is at most one *duty* to wake somebody or to hand the mutex
over. It goes from `Unlock` through the count of the semaphore, or a ticket, to the
goroutine that `semacquire1` returns to, and from there to its next compare-and-swap.
`DutyIs(d)` says who has it: in normal mode it exists exactly when the woken bit is
set, in starvation mode always, and whoever has it has the mutex. `WaitersCounted`
relates the waiters field to those in the semaphore, less the one that a permit is on
the way to; `QueueOK`, `NwaitCounts` and `PermitSeen` are the invariant of the semaphore
(the queue holds each sleeper once, `nwait` counts announcements and sleepers, a permit
beside a sleeper means that somebody is on the way to see one or the other). None of the
three properties is inductive: all of them depend on the copies of the word being stale
only in harmless ways, which `Placed` and `WaitersSeen` express.

`MutexProofs` also holds the theorems about the two small locks. Of `Once` it proves
`OnceInvariant`, `OnceCalledOnce` (also when `f`
panics) and the action property `OnceReturnsAfterF`. `CalledOnce` is not inductive:
the invariant says who has the mutex at each place, that `calls` is 1 only with `done`
set or its caller inside `f`, and that `done` comes after the end of `f`.

Of `FutexLock` it proves `FutexInvariant` and `FutexImplementsLock`, the
refinement of `MutexSpec`. The invariant is exclusion together with what makes a
sleeper safe: while a thread sleeps, the key is marked, or a wakeup is on its way, or
an awake thread holds the mark in its local variable and will put it back.

**SchedProofs** proves of `Sched`: `OwnerOfEachP` (`EachPHasOneOwner`), `PlaceOfEachG`
(`EachGOnce`) and `SpinningCounted`. `Control` says at which places of the code an M
has a P, hands one over, holds a goroutine or spins; with it `POwned` and `GOwned` are
inductive, and `nmspinning` is the number of spinning Ms plus that of `startm` calls
under way for one, so the throws of `resetspinning` and `findrunnable` on a negative
count are unreachable.

**WorldProofs** proves of `World`: `StoppedForGood` (`WorldIsStopped`), `RanOnceEach`
(`EachRanOnce`) and `CountersExact`. `WorldIsStopped` follows from counting: while the
world is being stopped, `stopwait` is the number of Ps not stopped yet
(`StopCounted`), so that zero means all, whoever stopped them (`stopTheWorldWithSema`,
`gcstopm`, `entersyscall_gcwait`, `handoffp`). `safePointWait` is the number of flags
that are set plus that of Ms that have run the function and not reported it
(`EachCounted`), and while `forEachP` runs each P has either its flag set or one run
behind it. Both need `POwned` (a P that an M has is running, or was stopped by it; an
idle P is on the list or being handed off) and `Control` (who holds `sched.lock` and
`worldsema`, and where `handoffp` and `runSafePointFn` return to).

`PROJECT.json` says which theorem states which property of a run.

Only model-checked: `OutcomeTrue`, `ClosedMeansDrained` and `NoLockDeadlock` of `Chan`,
the refinement of `ChanSpec`, the refusals of
`ChanFast`, `DanceLosesNothing` of `Sched`, and everything about `WaitQ`, `SelectOrder`,
`Netpoll` and `Timers`. What the heap sort of `SelectOrder` computes needs induction over
the array, which the installed provers cannot do. Liveness under fairness is outside the
prover's reach and stays with TLC.

## Not modelled

- In the modelled files: allocation of channels, element sizes and copying,
  profiling, tracing, the race detector, stack shrinking flags, and the reflect entry
  points, which only call the modelled functions; the treap of `sema.go` and the
  four-ary array of `time.go`, sequential structures under a lock that the models
  take for the sequence and the set they stand for; in `proc.go` locked Ms, collector
  workers, the thread limit and the wait in the poller (`netpollBreak`, `pollUntil`).
- The lock-free ring of a P (`runqput`, `runqget`, `runqgrab`), notify lists and
  `sync.Cond`, `RWMutex`, `WaitGroup`, `Pool`, `Map`, notes, the runtime's `rwmutex`,
  signal delivery, `context` and `io.Pipe`: protocols of their own that none of the
  modelled parts needs beyond what is stated of them here. The ring comes next, as it
  is what `Sched` takes for a set.
- The memory allocator and garbage collector, whose Go files depend on stack
  scanning and barriers supplied by the compiler and by C code; the compiler front
  end, a sequential translator with no protocol to explore; the rest of the
  standard library, mostly sequential code over the primitives above.
