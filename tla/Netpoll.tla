------------------------------- MODULE Netpoll -------------------------------
(***************************************************************************)
(* The platform-independent network poller (runtime/netpoll.go) for one    *)
(* pollDesc, from its first pollOpen through reuse.  One goroutine per     *)
(* mode, named by the mode, resets and waits on it, as internal/poll's     *)
(* fdMutex ensures; others set deadlines and close.  pd.lock is held while *)
(* todo, the rest of a section, is not empty; netpollblock does not take   *)
(* it, so each publication and each change of rg or wg is a step.  Timers  *)
(* that have fired but not yet locked the descriptor are in firing, and    *)
(* events that epollwait has returned but netpoll not delivered in events. *)
(***************************************************************************)
EXTENDS Integers, Sequences

CONSTANTS
  Waiters,    \* the modes that goroutines wait for in an instance
  DeadlineModes, \* the modes with which SetDeadline is called: "r", "w" or "rw"
  EventModes, \* the sets of modes that an event is about
  MaxTime, MaxSets, MaxOpens, MaxEvents   \* bounds

Mode == {"r", "w"}

ASSUME NetpollAssumption ==
  /\ Waiters \subseteq Mode /\ DeadlineModes \subseteq {"r", "w", "rw"}
  /\ EventModes \subseteq SUBSET Mode \ {{}}
  /\ {MaxTime, MaxSets, MaxOpens, MaxEvents} \subseteq Nat

VARIABLES
  word,      \* rg and wg: "nil", "ready", "wait" or "G"
  closing,
  d,         \* rd and wd: 0 none, -1 expired, or a time
  seq,       \* rseq and wseq
  timer,     \* rt and wt: f = "nil", "r", "w" or "rw", whether it is armed, when, seq
  info,      \* atomicInfo
  life,      \* "free", "open", or "evicted" between pollUnblock and pollClose
  todo,      \* what the holder of pd.lock still does
  toReady,   \* goroutines that a holder of the lock has unblocked, to be readied
  firing, events,
  deliver,   \* what netpollready still does for the event at hand
  pc,        \* of the waiters
  waiters,   \* netpollWaiters
  now, sets, opens, polled,  \* time, SetDeadline calls, openings and events so far
  fresh,     \* history: notifications not yet consumed, by opening
  thrown

locked == <<closing, d, seq, timer, info>>
counters == <<now, sets, opens, polled>>
vars == <<word, locked, life, todo, toReady, firing, events, deliver, pc, waiters,
          counters, fresh, thrown>>

NoTimer == [f |-> "nil", armed |-> FALSE, when |-> 0, seq |-> 0]

Init ==
  /\ word = [m \in Mode |-> "nil"]
  /\ closing = FALSE /\ d = [m \in Mode |-> 0] /\ seq = [m \in Mode |-> 0]
  /\ timer = [m \in Mode |-> NoTimer]
  /\ info = [closing |-> FALSE, expired |-> {}, err |-> FALSE]
  /\ life = "free" /\ todo = <<>> /\ toReady = {}
  /\ firing = {} /\ events = {} /\ deliver = <<>>
  /\ pc = [m \in Mode |-> "idle"]
  /\ waiters = 0 /\ now = 1 /\ sets = 0 /\ opens = 0 /\ polled = 0
  /\ fresh = [m \in Mode |-> {}] /\ thrown = FALSE

At(m, l) == pc[m] = l
Goto(m, l) == pc' = [pc EXCEPT ![m] = l]
Set(m, w) == word' = [word EXCEPT ![m] = w]
Throw(b) == thrown' = (thrown \/ b)

\* publishInfo keeps the error bit.
Publish(cl, dl) ==
  info' = [info EXCEPT !.closing = cl, !.expired = {m \in Mode : dl[m] < 0}]

\* netpollcheckerr
CheckErr(m) ==
  IF info.closing THEN "closing"
  ELSE IF m \in info.expired THEN "timeout"
  ELSE IF m = "r" /\ info.err THEN "notpollable"
  ELSE "none"

----------------------------------------------------------------------------
(* pollOpen and pollClose.  The users of the descriptor hold references, so
   pollClose finds none of them at work. *)

Open ==
  /\ life = "free" /\ todo = <<>> /\ opens < MaxOpens
  /\ Throw(\E m \in Mode : word[m] \notin {"nil", "ready"})
  /\ word' = [m \in Mode |-> "nil"]
  /\ closing' = FALSE /\ d' = [m \in Mode |-> 0] /\ seq' = [m \in Mode |-> seq[m] + 1]
  /\ info' = [closing |-> FALSE, expired |-> {}, err |-> FALSE]
  /\ life' \in {"open", "free"}  \* netpollopen may fail
  /\ opens' = opens + 1
  /\ fresh' = [m \in Mode |-> {}]
  /\ UNCHANGED <<timer, todo, toReady, firing, events, deliver, pc, waiters, now, sets, polled>>

Close ==
  /\ life = "evicted" /\ \A m \in Mode : At(m, "idle")
  /\ (todo # <<>> => Head(todo).by = "timer")
  /\ Throw(~closing \/ \E m \in Mode : word[m] \notin {"nil", "ready"})
  /\ life' = "free"
  /\ UNCHANGED <<word, locked, todo, toReady, firing, events, deliver, pc, waiters, counters, fresh>>

----------------------------------------------------------------------------
(* pollReset and pollWait, as a Read or Write calls them *)

Reset(m) ==
  /\ m \in Waiters /\ At(m, "idle") /\ life = "open"
  /\ CheckErr(m) = "none"   \* otherwise the error is returned
  /\ Goto(m, "reset")
  /\ UNCHANGED <<word, locked, life, todo, toReady, firing, events, deliver, waiters, counters, fresh, thrown>>
ResetWord(m) ==
  /\ At(m, "reset")
  /\ Set(m, "nil") /\ Goto(m, "io")
  /\ fresh' = [fresh EXCEPT ![m] = {}]
  /\ UNCHANGED <<locked, life, todo, toReady, firing, events, deliver, waiters, counters, thrown>>

\* The system call succeeds, or fails with EAGAIN and the caller waits.
IODone(m) ==
  /\ At(m, "io")
  /\ Goto(m, "idle")
  /\ UNCHANGED <<word, locked, life, todo, toReady, firing, events, deliver, waiters, counters, fresh, thrown>>
Wait(m) ==
  /\ At(m, "io")
  /\ Goto(m, IF CheckErr(m) = "none" THEN "block" ELSE "idle")
  /\ UNCHANGED <<word, locked, life, todo, toReady, firing, events, deliver, waiters, counters, fresh, thrown>>

\* Consumes a notification, or announces the wait.
Block(m) ==
  /\ At(m, "block")
  /\ \/ /\ word[m] = "ready"
        /\ Set(m, "nil") /\ Goto(m, "io")
        /\ fresh' = [fresh EXCEPT ![m] = {}] /\ UNCHANGED thrown
     \/ /\ word[m] = "nil"
        /\ Set(m, "wait") /\ Goto(m, "recheck") /\ UNCHANGED <<fresh, thrown>>
     \/ /\ word[m] \notin {"nil", "ready"}
        /\ Throw(TRUE) /\ UNCHANGED <<word, pc, fresh>>
  /\ UNCHANGED <<locked, life, todo, toReady, firing, events, deliver, waiters, counters>>

NoErrorYet(m) == CheckErr(m) = "none"
Recheck(m) ==
  /\ At(m, "recheck")
  /\ Goto(m, IF NoErrorYet(m) THEN "commit" ELSE "swap")
  /\ UNCHANGED <<word, locked, life, todo, toReady, firing, events, deliver, waiters, counters, fresh, thrown>>

\* netpollblockcommit, on another stack: the goroutine is parked already.  The
\* count, an addition of its own in the code, is taken with the swap.
Commit(m) ==
  /\ At(m, "commit")
  /\ IF word[m] = "wait" THEN Set(m, "G") /\ Goto(m, "parked") /\ waiters' = waiters + 1
     ELSE Goto(m, "swap") /\ UNCHANGED <<word, waiters>>
  /\ UNCHANGED <<locked, life, todo, toReady, firing, events, deliver, counters, fresh, thrown>>

\* After a wakeup without readiness the errors are checked, and if there is none
\* (the deadline was changed meanwhile) the wait starts again.
\* (NotWaiting: any wakeup passes for readiness.)
NotWaiting(m) == word[m] # "wait"
WasReady(m) == word[m] = "ready"
Swap(m) ==
  /\ At(m, "swap")
  /\ Throw(word[m] = "G")
  /\ Set(m, "nil")
  /\ IF WasReady(m) THEN Goto(m, "io") ELSE Goto(m, "checkerr")
  /\ fresh' = IF WasReady(m) THEN [fresh EXCEPT ![m] = {}] ELSE fresh
  /\ UNCHANGED <<locked, life, todo, toReady, firing, events, deliver, waiters, counters>>
WaitAgain(m) ==
  /\ At(m, "checkerr")
  /\ Goto(m, IF CheckErr(m) = "none" THEN "block" ELSE "idle")
  /\ UNCHANGED <<word, locked, life, todo, toReady, firing, events, deliver, waiters, counters, fresh, thrown>>

----------------------------------------------------------------------------
(* Sections under pd.lock.  A section sets the fields, publishes them, and
   leaves in todo whom it unblocks; "expire w" is the second half of a
   combined deadline. *)

Unblocks(by, ms) ==
  SelectSeq(<<[by |-> by, what |-> "r"], [by |-> by, what |-> "w"]>>, LAMBDA x : x.what \in ms)

\* The new value of a timer: resettimer and modtimer arm it, deltimer stops it
\* but not a function that runs already.
\* (SameSeq: the sequence number is not advanced when the timer changes.)
SameSeq(m, changed) == seq[m]
NewSeq(m, changed) == IF timer[m].f # "nil" /\ changed THEN seq[m] + 1 ELSE seq[m]
NewTimer(m, when, changed, f) ==
  IF timer[m].f # "nil" /\ ~changed THEN timer[m]
  ELSE IF when > 0 /\ f # "nil"
       THEN [f |-> f, armed |-> TRUE, when |-> when, seq |-> NewSeq(m, changed)]
       ELSE NoTimer

\* What a deadline that overflows is set to: a time that never comes.
Never == MaxTime + 1

\* pollSetDeadline, with no deadline, one in the past, or one at a later time; it
\* does nothing when it gets the lock only after pollUnblock.
SetDeadline(mode, t) ==
  LET dl == [m \in Mode |-> IF mode \in {m, "rw"} THEN t ELSE d[m]]
      combo0 == d["r"] > 0 /\ d["r"] = d["w"]
      combo == dl["r"] > 0 /\ dl["r"] = dl["w"]
      changed == [m \in Mode |-> dl[m] # d[m] \/ combo # combo0] IN
  /\ life = "open" /\ todo = <<>> /\ sets < MaxSets
  /\ sets' = sets + 1
  /\ t \in {-1, 0} \cup ((now + 1)..Never)
  /\ d' = dl
  /\ Publish(closing, dl)
  /\ seq' = [m \in Mode |-> NewSeq(m, changed[m])]
  /\ timer' = [r |-> NewTimer("r", dl["r"], changed["r"], IF combo THEN "rw" ELSE "r"),
               w |-> NewTimer("w", dl["w"], changed["w"], IF combo THEN "nil" ELSE "w")]
  /\ todo' = Unblocks("set", {m \in Mode : dl[m] < 0})
  /\ UNCHANGED <<word, closing, life, toReady, firing, events, deliver, pc, waiters, now, opens, polled, fresh, thrown>>

\* pollUnblock, from FD.Close.
Unblock ==
  /\ life = "open" /\ todo = <<>>
  /\ Throw(closing)
  /\ life' = "evicted"
  /\ closing' = TRUE
  /\ Publish(TRUE, d)
  /\ seq' = [m \in Mode |-> seq[m] + 1]
  /\ timer' = [m \in Mode |-> NoTimer]
  /\ todo' = Unblocks("evict", Mode)
  /\ UNCHANGED <<word, d, toReady, firing, events, deliver, pc, waiters, counters, fresh>>

\* A timer fires, and later its function gets the lock.
Fire(m) ==
  /\ timer[m].armed /\ timer[m].when <= now
  /\ timer' = [timer EXCEPT ![m].armed = FALSE]
  /\ firing' = firing \cup {[f |-> timer[m].f, seq |-> timer[m].seq]}
  /\ UNCHANGED <<word, closing, d, seq, info, life, todo, toReady, events, deliver, pc, waiters, counters, fresh, thrown>>

\* (AnySeq: a stale timer is not told apart.)
AnySeq(c) == TRUE
CurrentSeq(c) == c.seq = IF c.f = "w" THEN seq["w"] ELSE seq["r"]
DeadlineImpl(c) ==
  /\ c \in firing /\ todo = <<>>
  /\ firing' = firing \ {c}
  /\ IF ~CurrentSeq(c) THEN UNCHANGED <<d, info, todo, thrown>>
     ELSE IF c.f = "w"
     THEN /\ Throw(d["w"] <= 0 \/ timer["w"].f = "nil")
          /\ d' = [d EXCEPT !["w"] = -1]
          /\ Publish(closing, d')
          /\ todo' = Unblocks("timer", {"w"})
     ELSE /\ Throw(d["r"] <= 0 \/ timer["r"].f = "nil")
          /\ d' = [d EXCEPT !["r"] = -1]
          /\ Publish(closing, d')
          /\ todo' = Unblocks("timer", {"r"}) \o
                     (IF c.f = "rw" THEN <<[by |-> "timer", what |-> "expire w"]>> ELSE <<>>)
  /\ UNCHANGED <<word, closing, seq, timer, life, toReady, events, deliver, pc, waiters, counters, fresh>>
DeadlineImplWrite ==
  /\ todo # <<>> /\ Head(todo).what = "expire w"
  /\ Throw(d["w"] <= 0)
  /\ d' = [d EXCEPT !["w"] = -1]
  /\ Publish(closing, d')
  /\ todo' = Unblocks("timer", {"w"})
  /\ UNCHANGED <<word, closing, seq, timer, life, toReady, firing, events, deliver, pc, waiters, counters, fresh>>

\* netpollunblock without readiness.
UnblockOne ==
  LET m == Head(todo).what IN
  /\ todo # <<>> /\ m \in Mode
  /\ IF word[m] \in {"wait", "G"} THEN Set(m, "nil") ELSE UNCHANGED word
  /\ toReady' = IF word[m] = "G" THEN toReady \cup {m} ELSE toReady
  /\ todo' = Tail(todo)
  /\ UNCHANGED <<locked, life, firing, events, deliver, pc, waiters, counters, fresh, thrown>>

\* netpollgoready, after the lock is released.
GoReady(m) ==
  /\ m \in toReady /\ todo = <<>>
  /\ toReady' = toReady \ {m}
  /\ waiters' = waiters - 1
  /\ Goto(m, "swap")
  /\ UNCHANGED <<word, locked, life, todo, firing, events, deliver, counters, fresh, thrown>>

----------------------------------------------------------------------------
(* netpoll *)

\* epollwait returns an event while the descriptor is registered.
EpollWait(ms, err) ==
  /\ life \in {"open", "evicted"} /\ polled < MaxEvents
  /\ polled' = polled + 1
  /\ err => ms = Mode
  /\ events' = events \cup {[ms |-> ms, err |-> err, opening |-> opens]}
  /\ UNCHANGED <<word, locked, life, todo, toReady, firing, deliver, pc, waiters, now, sets, opens, fresh, thrown>>

\* setEventErr, before netpollready.
Deliver(e) ==
  /\ e \in events /\ deliver = <<>>
  /\ events' = events \ {e}
  /\ info' = [info EXCEPT !.err = e.err]
  /\ deliver' = SelectSeq(<<[m |-> "r", opening |-> e.opening], [m |-> "w", opening |-> e.opening]>>,
                          LAMBDA x : x.m \in e.ms)
  /\ UNCHANGED <<word, closing, d, seq, timer, life, todo, toReady, firing, pc, waiters, counters, fresh, thrown>>

\* netpollunblock with readiness; the poller runs the goroutines it unblocked.
\* (IdleIgnored: readiness is dropped when nobody waits yet.)
IdleIgnored(m) == IF word[m] = "nil" THEN "nil" ELSE "ready"
ReadyWord(m) == "ready"
NetpollReady ==
  LET m == Head(deliver).m IN
  /\ deliver # <<>>
  /\ Set(m, ReadyWord(m))
  /\ IF word[m] = "G" THEN Goto(m, "swap") ELSE UNCHANGED pc
  /\ fresh' = [fresh EXCEPT ![m] = @ \cup {Head(deliver).opening}]
  /\ deliver' = Tail(deliver)
  /\ UNCHANGED <<locked, life, todo, toReady, firing, events, waiters, counters, thrown>>

Tick ==
  /\ now < MaxTime
  /\ now' = now + 1
  /\ UNCHANGED <<word, locked, life, todo, toReady, firing, events, deliver, pc, waiters, sets, opens, polled, fresh, thrown>>

----------------------------------------------------------------------------

WaiterStep(m) ==
  \/ ResetWord(m) \/ IODone(m) \/ Block(m) \/ Recheck(m) \/ Commit(m) \/ Swap(m) \/ WaitAgain(m)
RuntimeStep ==
  \/ UnblockOne \/ DeadlineImplWrite \/ NetpollReady
  \/ \E m \in Mode : Fire(m) \/ GoReady(m)
  \/ \E c \in firing : DeadlineImpl(c)
  \/ \E e \in events : Deliver(e)

Next ==
  \/ Open \/ Close \/ Unblock \/ Tick \/ RuntimeStep
  \/ \E m \in Mode : Reset(m) \/ Wait(m) \/ WaiterStep(m)
  \/ \E mode \in DeadlineModes, t \in -1..Never : SetDeadline(mode, t)
  \/ \E ms \in EventModes, err \in BOOLEAN : EpollWait(ms, err)

Spec == Init /\ [][Next]_vars

\* Goroutines, timers and the poller go on, and time passes; nobody need send
\* data, set a deadline or close.
FairSpec ==
  /\ Spec /\ WF_vars(RuntimeStep) /\ WF_vars(Tick)
  /\ \A m \in Waiters : WF_vars(WaiterStep(m))

----------------------------------------------------------------------------
(* Properties *)

\* None of the throws is reached: no goroutine waits on a descriptor that is
\* freed or reused, and timers and deadlines agree.
NeverThrows == ~thrown

\* "a goroutine consumes the notification": no wait reports readiness twice for
\* one notification, or without one.
ReadinessConsumedOnce ==
  [][\A m \in Mode :
       (pc[m] \in {"block", "swap"} /\ pc'[m] = "io") => fresh[m] # {}]_vars

\* Only a timer whose time has come expires a deadline, whatever was set and
\* reset while its function waited for the lock.
NoEarlyTimeout ==
  [][\A m \in Mode :
       (sets' = sets /\ opens' = opens /\ d[m] >= 0 /\ d'[m] < 0) => d[m] \in 1..now]_vars

\* A goroutine that is parked has been evicted, or its deadline has passed.
DueToWake(m) == At(m, "parked") /\ (closing \/ (d[m] # 0 /\ d[m] <= now))

\* A goroutine that waits returns once the descriptor is evicted, its deadline
\* passes, or readiness is reported.
WaitEnds ==
  \A m \in Waiters :
    /\ DueToWake(m) ~> ~DueToWake(m)
    /\ (pc[m] \notin {"idle", "reset", "io"} /\ fresh[m] # {}) ~> (fresh[m] = {} \/ CheckErr(m) # "none")

=============================================================================
