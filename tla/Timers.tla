------------------------------- MODULE Timers -------------------------------
(***************************************************************************)
(* The timers of the runtime (runtime/time.go, and checkTimers in          *)
(* runtime/proc.go).  A timer is in the heap of at most one P, under the   *)
(* timersLock of which runners adjust, run and clear; users stop and set   *)
(* timers without that lock, through the status word.  A heap is the set   *)
(* of its timers, and its head any of the first in time: the order of the  *)
(* array is left out.  timerRemoving, timerRunning, and timerMoving        *)
(* outside of adjusttimers, under which users can only wait or report      *)
(* FALSE, are passed within one step.                                      *)
(***************************************************************************)
EXTENDS Integers, FiniteSets, FiniteSetsExt

CONSTANTS
  Timers, Users, Ps, Runners,
  Own,         \* the P of a runner
  Period,      \* of a timer, or 0
  CounterMod,  \* the range of deletedTimers, 2^32
  Moves,       \* whether Ps may be destroyed
  MaxTime, MaxOps, \* bounds
  None

ASSUME TimersAssumption ==
  /\ Own \in [Runners -> Ps] /\ Period \in [Timers -> Nat]
  /\ CounterMod \in Nat /\ CounterMod > Cardinality(Timers) + Cardinality(Users)
  /\ Moves \in BOOLEAN /\ {MaxTime, MaxOps} \subseteq Nat

VARIABLES
  status, when, nextwhen, pp,
  timer0When, modifiedEarliest, deletedTimers,
  lock,            \* timersLock: a runner, a user or None
  rpc, rp, rnow,   \* a runner's position, the P it looks after and its time
  todo, moved,     \* the timers it has yet to look at, or to put back
  upc, ut, uw, up, \* a user's position, timer, time (0 to stop) and P
  now, ops,
  out,             \* what the last call of a user reported
  thrown

timerVars == <<status, when, nextwhen, pp>>
pVars == <<timer0When, modifiedEarliest, deletedTimers>>
runnerVars == <<rpc, rp, rnow, todo, moved>>
userVars == <<upc, ut, uw, up, ops, out>>
vars == <<timerVars, pVars, lock, runnerVars, userVars, now, thrown>>

Init ==
  /\ status = [t \in Timers |-> "NoStatus"]
  /\ when = [t \in Timers |-> 0] /\ nextwhen = [t \in Timers |-> 0]
  /\ pp = [t \in Timers |-> None]
  /\ timer0When = [p \in Ps |-> 0] /\ modifiedEarliest = [p \in Ps |-> 0]
  /\ deletedTimers = [p \in Ps |-> 0]
  /\ lock = [p \in Ps |-> None]
  /\ rpc = [r \in Runners |-> "idle"] /\ rp = Own /\ rnow = [r \in Runners |-> 0]
  /\ todo = [r \in Runners |-> {}] /\ moved = [r \in Runners |-> {}]
  /\ upc = [u \in Users |-> "idle"] /\ ut = [u \in Users |-> None]
  /\ uw = [u \in Users |-> 0] /\ up = [u \in Users |-> None]
  /\ now = 1 /\ ops = 0 /\ out = [u \in Users |-> FALSE] /\ thrown = FALSE

Modified == {"ModifiedEarlier", "ModifiedLater"}
Heap(p) == {t \in Timers : pp[t] = p}
Heads(p) == {t \in Heap(p) : \A v \in Heap(p) : when[t] <= when[v]}
First(ts, wh) == IF ts = {} THEN 0 ELSE Min({wh[t] : t \in ts})

\* updateTimer0When, for the heap ts with the times wh.
Timer0(p, ts, wh) == timer0When' = [timer0When EXCEPT ![p] = First(ts, wh)]
Count(p, n) == deletedTimers' = [deletedTimers EXCEPT ![p] = (@ + n) % CounterMod]

\* nobarrierWakeTime
WakeTime(p) ==
  IF timer0When[p] = 0 \/ (modifiedEarliest[p] # 0 /\ modifiedEarliest[p] < timer0When[p])
  THEN modifiedEarliest[p] ELSE timer0When[p]

----------------------------------------------------------------------------
(* What is done to the timer t of a heap, under its lock *)

\* timerDeleted -> timerRemoving -> timerRemoved
Removing(p, t) ==
  /\ status[t] = "Deleted"
  /\ status' = [status EXCEPT ![t] = "Removed"]
  /\ pp' = [pp EXCEPT ![t] = None]
  /\ Count(p, -1)
  /\ UNCHANGED <<when, nextwhen, modifiedEarliest>>
RemoveDeleted(p, t) == Removing(p, t) /\ Timer0(p, Heap(p) \ {t}, when)

\* (KeepWhen: a timer is put in its place by its old time.)
KeepWhen(t) == when[t]
MovedWhen(t) == nextwhen[t]

\* timerModifiedXX -> timerMoving -> timerWaiting
Moving(t) ==
  /\ status[t] \in Modified
  /\ status' = [status EXCEPT ![t] = "Waiting"]
  /\ when' = [when EXCEPT ![t] = MovedWhen(t)]
  /\ UNCHANGED <<nextwhen, pp, modifiedEarliest, deletedTimers>>
MoveModified(p, t) == Moving(t) /\ Timer0(p, Heap(p), when')

\* doaddtimer
DoAdd(p, t, w) ==
  /\ pp' = [pp EXCEPT ![t] = p]
  /\ when' = [when EXCEPT ![t] = w]
  /\ Timer0(p, Heap(p) \cup {t}, when')

----------------------------------------------------------------------------
(* Users: addtimer, deltimer and modtimer *)

UserAt(u, l) == upc[u] = l
UserGoto(u, l) == upc' = [upc EXCEPT ![u] = l]

\* addtimer is called with timers that nobody else knows.
Adding(t) == \E u \in Users : upc[u] \in {"add", "clean"} /\ ut[u] = t
Begin(u, t, w) ==
  /\ UserAt(u, "idle") /\ ops < MaxOps /\ ~Adding(t)
  /\ ops' = ops + 1
  /\ ut' = [ut EXCEPT ![u] = t] /\ uw' = [uw EXCEPT ![u] = w]

AddTimer(u, t, w) ==
  /\ Begin(u, t, w)
  /\ status[t] = "NoStatus" /\ when[t] = 0 /\ nextwhen[t] = 0 /\ ~\E v \in Users : ut[v] = t
  /\ status' = [status EXCEPT ![t] = "Waiting"]
  /\ when' = [when EXCEPT ![t] = w]
  /\ UserGoto(u, "add")
  /\ UNCHANGED <<nextwhen, pp, pVars, lock, runnerVars, up, now, out, thrown>>
AddLock(u, p) ==
  /\ UserAt(u, "add") /\ lock[p] = None
  /\ lock' = [lock EXCEPT ![p] = u]
  /\ up' = [up EXCEPT ![u] = p]
  /\ UserGoto(u, "clean")
  /\ UNCHANGED <<timerVars, pVars, runnerVars, ut, uw, now, ops, out, thrown>>
CleanTimers(u, t) ==
  /\ UserAt(u, "clean") /\ t \in Heads(up[u])
  /\ RemoveDeleted(up[u], t) \/ MoveModified(up[u], t)
  /\ UNCHANGED <<lock, runnerVars, userVars, now, thrown>>
\* cleantimers may also stop early, to be preempted.
AddEnd(u) ==
  /\ UserAt(u, "clean")
  /\ DoAdd(up[u], ut[u], uw[u])
  /\ lock' = [lock EXCEPT ![up[u]] = None]
  /\ UserGoto(u, "idle")
  /\ UNCHANGED <<status, nextwhen, modifiedEarliest, deletedTimers, runnerVars,
                 ut, uw, up, now, ops, out, thrown>>

DelTimer(u, t) ==
  /\ Begin(u, t, 0)
  /\ \/ /\ status[t] \in {"Waiting"} \cup Modified
        /\ status' = [status EXCEPT ![t] = "Modifying"]
        /\ out' = [out EXCEPT ![u] = TRUE]
        /\ UserGoto(u, "del")
     \/ /\ status[t] \in {"Deleted", "Removed", "NoStatus"}
        /\ out' = [out EXCEPT ![u] = FALSE]
        /\ UNCHANGED <<status, upc>>
  /\ UNCHANGED <<when, nextwhen, pp, pVars, lock, runnerVars, up, now, thrown>>
DelMark(u) ==
  /\ UserAt(u, "del")
  /\ up' = [up EXCEPT ![u] = pp[ut[u]]]
  /\ status' = [status EXCEPT ![ut[u]] = "Deleted"]
  /\ UserGoto(u, "delcount")
  /\ UNCHANGED <<when, nextwhen, pp, pVars, lock, runnerVars, ut, uw, now, ops, out, thrown>>
DelCount(u) ==
  /\ UserAt(u, "delcount")
  /\ Count(up[u], 1)
  /\ UserGoto(u, "idle")
  /\ UNCHANGED <<timerVars, timer0When, modifiedEarliest, lock, runnerVars,
                 ut, uw, up, now, ops, out, thrown>>

Uncount(t) == Count(pp[t], -1)
ModTimer(u, t, w) ==
  /\ Begin(u, t, w)
  /\ status' = [status EXCEPT ![t] = "Modifying"]
  /\ \/ /\ status[t] \in {"Waiting"} \cup Modified
        /\ out' = [out EXCEPT ![u] = TRUE] /\ UserGoto(u, "mod")
        /\ UNCHANGED deletedTimers
     \/ /\ status[t] \in {"NoStatus", "Removed"}
        /\ out' = [out EXCEPT ![u] = FALSE] /\ UserGoto(u, "modadd")
        /\ UNCHANGED deletedTimers
     \/ /\ status[t] = "Deleted"
        /\ out' = [out EXCEPT ![u] = FALSE] /\ UserGoto(u, "mod")
        /\ Uncount(t)
  /\ UNCHANGED <<when, nextwhen, pp, timer0When, modifiedEarliest, lock, runnerVars, up, now, thrown>>
ModAdd(u, p) ==
  /\ UserAt(u, "modadd") /\ lock[p] = None
  /\ DoAdd(p, ut[u], uw[u])
  /\ UserGoto(u, "modwait")
  /\ UNCHANGED <<status, nextwhen, modifiedEarliest, deletedTimers, lock, runnerVars,
                 ut, uw, up, now, ops, out, thrown>>
ModWait(u) ==
  /\ UserAt(u, "modwait")
  /\ status' = [status EXCEPT ![ut[u]] = "Waiting"]
  /\ UserGoto(u, "idle")
  /\ UNCHANGED <<when, nextwhen, pp, pVars, lock, runnerVars, ut, uw, up, now, ops, out, thrown>>

\* updateTimerModifiedEarliest
\* (FirstRecorded: an earlier time than the recorded one is not recorded.)
FirstRecorded(old, w) == IF old # 0 THEN old ELSE w
Earliest(old, w) == IF old # 0 /\ old < w THEN old ELSE w
ModNextWhen(u) ==
  LET t == ut[u] IN
  /\ UserAt(u, "mod")
  /\ nextwhen' = [nextwhen EXCEPT ![t] = uw[u]]
  /\ modifiedEarliest' =
       IF uw[u] < when[t] THEN [modifiedEarliest EXCEPT ![pp[t]] = Earliest(@, uw[u])]
       ELSE modifiedEarliest
  /\ UserGoto(u, "modstatus")
  /\ UNCHANGED <<status, when, pp, timer0When, deletedTimers, lock, runnerVars,
                 ut, uw, up, now, ops, out, thrown>>
ModStatus(u) ==
  LET t == ut[u] IN
  /\ UserAt(u, "modstatus")
  /\ status' = [status EXCEPT ![t] =
                  IF nextwhen[t] < when[t] THEN "ModifiedEarlier" ELSE "ModifiedLater"]
  /\ UserGoto(u, "idle")
  /\ UNCHANGED <<when, nextwhen, pp, pVars, lock, runnerVars, ut, uw, up, now, ops, out, thrown>>

----------------------------------------------------------------------------
(* Runners: checkTimers *)

RunnerAt(r, l) == rpc[r] = l
RunnerGoto(r, l) == rpc' = [rpc EXCEPT ![r] = l]
Unlock(r) == lock' = [lock EXCEPT ![rp[r]] = None]
Throw(b) == thrown' = (thrown \/ b)

ManyDeleted(r, p) == Own[r] = p /\ deletedTimers[p] > Cardinality(Heap(p)) \div 4

CheckTimers(r, p) ==
  /\ RunnerAt(r, "idle") /\ lock[p] = None
  /\ WakeTime(p) # 0
  /\ WakeTime(p) <= now \/ ManyDeleted(r, p)
  /\ lock' = [lock EXCEPT ![p] = r]
  /\ rp' = [rp EXCEPT ![r] = p] /\ rnow' = [rnow EXCEPT ![r] = now]
  /\ RunnerGoto(r, IF Heap(p) = {} THEN "clear" ELSE "adjust")
  /\ UNCHANGED <<timerVars, pVars, todo, moved, userVars, now, thrown>>

\* adjusttimers.  After a removal the loop goes back, and may look again at
\* timers it has seen.
AdjustTimers(r) ==
  /\ RunnerAt(r, "adjust")
  /\ RunnerGoto(r, IF modifiedEarliest[rp[r]] \in 1..rnow[r] THEN "adjuststore" ELSE "run")
  /\ UNCHANGED <<timerVars, pVars, lock, rp, rnow, todo, moved, userVars, now, thrown>>
AdjustStore(r) ==
  /\ RunnerAt(r, "adjuststore")
  /\ modifiedEarliest' = [modifiedEarliest EXCEPT ![rp[r]] = 0]
  /\ todo' = [todo EXCEPT ![r] = Heap(rp[r])]
  /\ RunnerGoto(r, "adjusting")
  /\ UNCHANGED <<timerVars, timer0When, deletedTimers, lock, rp, rnow, moved, userVars, now, thrown>>

\* (NoPatience: timers that are being modified are not waited for.)
NoPatience(t) == TRUE
Settled(t) == status[t] # "Modifying"
AdjustOne(r, t) ==
  LET p == rp[r] IN
  /\ RunnerAt(r, "adjusting") /\ t \in todo[r] /\ Settled(t)
  /\ Throw(status[t] \notin {"Waiting", "Deleted"} \cup Modified)
  /\ \/ /\ status[t] \notin {"Deleted"} \cup Modified
        /\ todo' = [todo EXCEPT ![r] = @ \ {t}]
        /\ UNCHANGED <<timerVars, pVars, moved>>
     \/ /\ RemoveDeleted(p, t)
        /\ \E again \in SUBSET Heap(p) : todo' = [todo EXCEPT ![r] = (@ \cup again) \ {t}]
        /\ UNCHANGED moved
     \/ /\ status[t] \in Modified
        /\ status' = [status EXCEPT ![t] = "Moving"]
        /\ when' = [when EXCEPT ![t] = MovedWhen(t)]
        /\ pp' = [pp EXCEPT ![t] = None]
        /\ Timer0(p, Heap(p) \ {t}, when)
        /\ moved' = [moved EXCEPT ![r] = @ \cup {t}]
        /\ \E again \in SUBSET Heap(p) : todo' = [todo EXCEPT ![r] = (@ \cup again) \ {t}]
        /\ UNCHANGED <<nextwhen, modifiedEarliest, deletedTimers>>
  /\ UNCHANGED <<lock, rpc, rp, rnow, userVars, now>>
AddAdjustedTimers(r) ==
  LET p == rp[r] IN
  /\ RunnerAt(r, "adjusting") /\ todo[r] = {}
  /\ status' = [t \in Timers |-> IF t \in moved[r] THEN "Waiting" ELSE status[t]]
  /\ pp' = [t \in Timers |-> IF t \in moved[r] THEN p ELSE pp[t]]
  /\ Timer0(p, Heap(p) \cup moved[r], when)
  /\ moved' = [moved EXCEPT ![r] = {}]
  /\ RunnerGoto(r, "run")
  /\ UNCHANGED <<when, nextwhen, modifiedEarliest, deletedTimers, lock, rp, rnow, todo, userVars, now, thrown>>

\* runtimer, until the head is not due or the heap is empty.
RunDone(r) ==
  /\ RunnerAt(r, "run")
  /\ Heap(rp[r]) = {} \/ \E t \in Heads(rp[r]) : status[t] = "Waiting" /\ when[t] > rnow[r]
  /\ RunnerGoto(r, "clear")
  /\ UNCHANGED <<timerVars, pVars, lock, rp, rnow, todo, moved, userVars, now, thrown>>
RunClean(r, t) ==
  /\ RunnerAt(r, "run") /\ t \in Heads(rp[r]) /\ Settled(t)
  /\ status[t] # "Waiting"
  /\ Throw(status[t] \notin {"Deleted"} \cup Modified)
  /\ IF status[t] = "Deleted" THEN RemoveDeleted(rp[r], t)
     ELSE IF status[t] \in Modified THEN MoveModified(rp[r], t)
     ELSE UNCHANGED <<timerVars, pVars>>
  /\ UNCHANGED <<lock, runnerVars, userVars, now>>
\* runOneTimer: the timer leaves the heap, or is set by its period.  Times are
\* naturals: that one which overflows becomes maxWhen is left out.
RunOne(r, t) ==
  LET p == rp[r] IN
  /\ RunnerAt(r, "run") /\ t \in Heads(p)
  /\ status[t] = "Waiting" /\ when[t] <= rnow[r]
  /\ IF Period[t] > 0
     THEN /\ when' = [when EXCEPT ![t] = @ + Period[t] * (1 + (rnow[r] - @) \div Period[t])]
          /\ Timer0(p, Heap(p), when')
          /\ UNCHANGED <<status, pp>>
     ELSE /\ status' = [status EXCEPT ![t] = "NoStatus"]
          /\ pp' = [pp EXCEPT ![t] = None]
          /\ Timer0(p, Heap(p) \ {t}, when)
          /\ UNCHANGED when
  /\ Unlock(r)
  /\ RunnerGoto(r, "f")
  /\ UNCHANGED <<nextwhen, modifiedEarliest, deletedTimers, rp, rnow, todo, moved, userVars, now, thrown>>
RunF(r) ==
  /\ RunnerAt(r, "f") /\ lock[rp[r]] = None
  /\ lock' = [lock EXCEPT ![rp[r]] = r]
  /\ RunnerGoto(r, "run")
  /\ UNCHANGED <<timerVars, pVars, rp, rnow, todo, moved, userVars, now, thrown>>

\* clearDeletedTimers; deletedTimers, which only the test above reads, is
\* decreased timer by timer.
CheckEnd(r) ==
  /\ RunnerAt(r, "clear") /\ ~ManyDeleted(r, rp[r])
  /\ Unlock(r)
  /\ RunnerGoto(r, "idle")
  /\ UNCHANGED <<timerVars, pVars, rp, rnow, todo, moved, userVars, now, thrown>>
ClearDeletedTimers(r) ==
  /\ RunnerAt(r, "clear") /\ ManyDeleted(r, rp[r])
  /\ modifiedEarliest' = [modifiedEarliest EXCEPT ![rp[r]] = 0]
  /\ todo' = [todo EXCEPT ![r] = Heap(rp[r])]
  /\ RunnerGoto(r, "clearing")
  /\ UNCHANGED <<timerVars, timer0When, deletedTimers, lock, rp, rnow, moved, userVars, now, thrown>>
ClearOne(r, t) ==
  /\ RunnerAt(r, "clearing") /\ t \in todo[r] /\ Settled(t)
  /\ Throw(status[t] \notin {"Waiting", "Deleted"} \cup Modified)
  /\ \/ Removing(rp[r], t) /\ UNCHANGED timer0When
     \/ Moving(t) /\ UNCHANGED timer0When
     \/ status[t] \notin {"Deleted"} \cup Modified /\ UNCHANGED <<timerVars, pVars>>
  /\ todo' = [todo EXCEPT ![r] = @ \ {t}]
  /\ UNCHANGED <<lock, rpc, rp, rnow, moved, userVars, now>>
ClearEnd(r) ==
  /\ RunnerAt(r, "clearing") /\ todo[r] = {}
  /\ Timer0(rp[r], Heap(rp[r]), when)
  /\ Unlock(r)
  /\ RunnerGoto(r, "idle")
  /\ UNCHANGED <<timerVars, modifiedEarliest, deletedTimers, rp, rnow, todo, moved, userVars, now, thrown>>

\* p.destroy: p is left without timers, and q has them.
Destroyed(p, q) ==
  /\ timer0When' = [timer0When EXCEPT ![p] = 0, ![q] = First({t \in Timers : pp'[t] = q}, when')]
  /\ deletedTimers' = [deletedTimers EXCEPT ![p] = 0]

\* moveTimers, from p.destroy: the world is stopped, which no user is while it
\* modifies a timer, and no runner.
MoveTimers(p, q) ==
  /\ Moves /\ p # q /\ Heap(p) # {} /\ ops < MaxOps
  /\ ops' = ops + 1
  /\ \A r \in Runners : RunnerAt(r, "idle")
  /\ \A u \in Users : upc[u] \in {"idle", "delcount"}
  /\ Throw(\E t \in Heap(p) : status[t] \notin {"Waiting", "Deleted"} \cup Modified)
  /\ status' = [t \in Timers |-> IF pp[t] # p THEN status[t]
                                 ELSE IF status[t] = "Deleted" THEN "Removed" ELSE "Waiting"]
  /\ when' = [t \in Timers |-> IF pp[t] = p /\ status[t] \in Modified THEN nextwhen[t] ELSE when[t]]
  /\ pp' = [t \in Timers |-> IF pp[t] # p THEN pp[t]
                             ELSE IF status[t] = "Deleted" THEN None ELSE q]
  /\ Destroyed(p, q)
  /\ UNCHANGED <<nextwhen, modifiedEarliest, lock, runnerVars, upc, ut, uw, up, out, now>>

Tick ==
  /\ now < MaxTime
  /\ now' = now + 1
  /\ UNCHANGED <<timerVars, pVars, lock, runnerVars, userVars, thrown>>

----------------------------------------------------------------------------

UserStep(u) ==
  \/ \E p \in Ps : AddLock(u, p) \/ ModAdd(u, p)
  \/ \E t \in Timers : CleanTimers(u, t)
  \/ AddEnd(u) \/ DelMark(u) \/ DelCount(u)
  \/ ModWait(u) \/ ModNextWhen(u) \/ ModStatus(u)
RunnerStep(r) ==
  \/ AdjustTimers(r) \/ AdjustStore(r) \/ AddAdjustedTimers(r) \/ RunDone(r)
  \/ \E t \in Timers : AdjustOne(r, t) \/ RunClean(r, t) \/ RunOne(r, t) \/ ClearOne(r, t)
  \/ RunF(r) \/ CheckEnd(r) \/ ClearDeletedTimers(r) \/ ClearEnd(r)

Next ==
  \/ Tick
  \/ \E u \in Users :
       \/ UserStep(u)
       \/ \E t \in Timers : DelTimer(u, t)
       \/ \E t \in Timers, w \in 1..MaxTime : AddTimer(u, t, w) \/ ModTimer(u, t, w)
  \/ \E r \in Runners : RunnerStep(r) \/ \E p \in Ps : CheckTimers(r, p)
  \/ \E p, q \in Ps : MoveTimers(p, q)

Spec == Init /\ [][Next]_vars

----------------------------------------------------------------------------
(* Properties *)

Modifier(t) == CHOOSE u \in Users : ut[u] = t /\ upc[u] \in {"del", "mod", "modadd", "modwait", "modstatus"}

\* When a timer is to run: that of the call that modifies it, the time it has been
\* modified to, or its place in the heap.
Due(t) ==
  CASE status[t] \in {"NoStatus", "Deleted", "Removed"} -> 0
    [] status[t] = "Modifying" -> uw[Modifier(t)]
    [] status[t] \in Modified -> nextwhen[t]
    [] OTHER -> when[t]

Abstract == INSTANCE TimerSpec WITH due <- [t \in Timers |-> Due(t)]

\* The timers run once and in time or are stopped, and stopTimer, resetTimer and
\* modTimer report truly which, however they race with the heap's owner.
ImplementsTimers == Abstract!TimerSpec

\* badTimer and the throws are not reached: timers are in the heap that their
\* status says, and in no state that their owner does not expect.
NeverThrows ==
  /\ ~thrown
  /\ \A t \in Timers : status[t] \in {"Deleted"} \cup Modified => pp[t] \in Ps
  /\ \A t \in Timers : status[t] \in {"Removed", "NoStatus", "Moving"} => pp[t] = None

\* Unless somebody is at work on the heap, the time at which the P is to be looked
\* at is not after that of any of its timers: earlier times get through although
\* the heap is not touched.
WakeTimeNotLate ==
  \A p \in Ps : lock[p] = None =>
    \A t \in Heap(p) :
      (status[t] # "Modifying" /\ Due(t) # 0) => WakeTime(p) \in 1..Due(t)

=============================================================================
