-------------------------------- MODULE Sema --------------------------------
(***************************************************************************)
(* Semaphores (runtime/sema.go): semacquire1 and semrelease1 on addresses  *)
(* that hash to one semaRoot.  The count is a word of its own, changed     *)
(* without the root's lock; nwait counts the waiters of all addresses of   *)
(* the root and is read without it.  The treap of waiters is taken for a   *)
(* sequence per address, which is what queue and dequeue make of it.  The  *)
(* actions have no caller of their own: Mutex calls them as its code does. *)
(***************************************************************************)
EXTENDS Naturals, Sequences, FiniteSets

CONSTANTS Goroutine, Addr, None, MaxCount

ASSUME SemaAssumption ==
  /\ IsFiniteSet(Goroutine) /\ None \notin Goroutine \cup Addr
  /\ MaxCount \in Nat \ {0}

VARIABLES
  count,     \* *addr
  nwait,     \* semaRoot.nwait
  waiters,   \* semaRoot.treap: per address, in the order dequeue takes them
  rootLock,  \* the goroutine that holds semaRoot.lock across steps, or None
  spc,       \* where each goroutine is in semacquire1 or semrelease1
  sarg,      \* their arguments: the address, and lifo or handoff
  ticket,    \* sudog.ticket, of a goroutine's sudog
  woken      \* the goroutine semrelease1 has dequeued, or None

semaVars == <<count, nwait, waiters, rootLock, spc, sarg, ticket, woken>>

NoArg == [addr |-> None, flag |-> FALSE]

SemaInit ==
  /\ nwait = 0
  /\ waiters = [a \in Addr |-> <<>>]
  /\ rootLock = None
  /\ spc = [g \in Goroutine |-> "idle"]
  /\ sarg = [g \in Goroutine |-> NoArg]
  /\ ticket = [g \in Goroutine |-> 0]
  /\ woken = [g \in Goroutine |-> None]

At(g, l) == spc[g] = l
SGoto(g, l) == spc' = [spc EXCEPT ![g] = l]
AddrOf(g) == sarg[g].addr
Return(g) ==
  /\ SGoto(g, "idle")
  /\ sarg' = [sarg EXCEPT ![g] = NoArg]

\* cansemacquire, when it succeeds and when it does not.
cansemacquire(a) == count[a] > 0 /\ count' = [count EXCEPT ![a] = @ - 1]
cannot(a) == count[a] = 0 /\ UNCHANGED count

----------------------------------------------------------------------------
(* semacquire1 *)

semacquire(g, a, lifo) ==
  /\ At(g, "idle")
  /\ SGoto(g, "easy")
  /\ sarg' = [sarg EXCEPT ![g] = [addr |-> a, flag |-> lifo]]
  /\ UNCHANGED <<count, nwait, waiters, rootLock, ticket, woken>>

AcquireEasy(g) ==
  /\ At(g, "easy")
  /\ \/ cansemacquire(AddrOf(g)) /\ Return(g) /\ UNCHANGED ticket
     \/ /\ cannot(AddrOf(g))
        /\ SGoto(g, "lock")
        /\ ticket' = [ticket EXCEPT ![g] = 0]
        /\ UNCHANGED sarg
  /\ UNCHANGED <<nwait, waiters, rootLock, woken>>

\* Takes the root's lock and adds itself to nwait.
Announce(g) ==
  /\ At(g, "lock") /\ rootLock = None
  /\ rootLock' = g
  /\ nwait' = nwait + 1
  /\ SGoto(g, "announced")
  /\ UNCHANGED <<count, waiters, sarg, ticket, woken>>

\* queue: a waiter goes to the front with lifo, to the back without.
queue(g, a, lifo) ==
  waiters' = [waiters EXCEPT ![a] = IF lifo THEN <<g>> \o @ ELSE Append(@, g)]

\* The second try, then queue and goparkunlock.
AcquireOrPark(g) ==
  /\ At(g, "announced")
  /\ \/ cansemacquire(AddrOf(g)) /\ nwait' = nwait - 1 /\ Return(g) /\ UNCHANGED waiters
     \/ /\ cannot(AddrOf(g))
        /\ queue(g, AddrOf(g), sarg[g].flag)
        /\ SGoto(g, "parked")
        /\ UNCHANGED <<nwait, sarg>>
  /\ rootLock' = None
  /\ UNCHANGED <<ticket, woken>>

\* After the park: done with a ticket or a permit, else once more round the loop.
Resume(g) ==
  /\ At(g, "ready")
  /\ \/ ticket[g] # 0 /\ Return(g) /\ UNCHANGED count
     \/ ticket[g] = 0 /\ cansemacquire(AddrOf(g)) /\ Return(g)
     \/ ticket[g] = 0 /\ cannot(AddrOf(g)) /\ SGoto(g, "lock") /\ UNCHANGED sarg
  /\ UNCHANGED <<nwait, waiters, rootLock, ticket, woken>>

----------------------------------------------------------------------------
(* semrelease1 *)

semrelease(g, a, handoff) ==
  /\ At(g, "idle") /\ count[a] < MaxCount
  /\ count' = [count EXCEPT ![a] = @ + 1]
  /\ SGoto(g, "loadNwait")
  /\ sarg' = [sarg EXCEPT ![g] = [addr |-> a, flag |-> handoff]]
  /\ UNCHANGED <<nwait, waiters, rootLock, ticket, woken>>

ReleaseEasy(g) ==
  /\ At(g, "loadNwait")
  /\ \/ nwait = 0 /\ Return(g)
     \/ nwait # 0 /\ SGoto(g, "dequeue") /\ UNCHANGED sarg
  /\ UNCHANGED <<count, nwait, waiters, rootLock, ticket, woken>>

\* The section under the root's lock.  A waiter of another address can make
\* nwait nonzero, so there may be none to dequeue.
Dequeued(g, a) ==
  /\ woken' = [woken EXCEPT ![g] = Head(waiters[a])]
  /\ waiters' = [waiters EXCEPT ![a] = Tail(@)]
  /\ ticket' = [ticket EXCEPT ![Head(waiters[a])] = 0]
  /\ SGoto(g, "handoff")
  /\ UNCHANGED <<count, rootLock, sarg>>
Dequeue(g) ==
  LET a == AddrOf(g) IN
  /\ At(g, "dequeue") /\ rootLock = None
  /\ \/ /\ nwait = 0 \/ waiters[a] = <<>>
        /\ Return(g)
        /\ UNCHANGED <<count, nwait, waiters, rootLock, ticket, woken>>
     \/ /\ nwait # 0 /\ waiters[a] # <<>>
        /\ nwait' = nwait - 1
        /\ Dequeued(g, a)

\* The permit is taken for the waiter when handoff is asked and one is left;
\* then the waiter is readied.
Ready(g) ==
  LET a == AddrOf(g)
      s == woken[g] IN
  /\ At(g, "handoff")
  /\ \/ sarg[g].flag /\ cansemacquire(a) /\ ticket' = [ticket EXCEPT ![s] = 1]
     \/ sarg[g].flag /\ cannot(a) /\ UNCHANGED ticket
     \/ ~sarg[g].flag /\ UNCHANGED <<count, ticket>>
  /\ spc' = [spc EXCEPT ![g] = "idle", ![s] = "ready"]
  /\ sarg' = [sarg EXCEPT ![g] = NoArg]
  /\ woken' = [woken EXCEPT ![g] = None]
  /\ UNCHANGED <<nwait, waiters, rootLock>>

----------------------------------------------------------------------------

SemaStep(g) ==
  \/ AcquireEasy(g) \/ Announce(g) \/ AcquireOrPark(g) \/ Resume(g)
  \/ ReleaseEasy(g) \/ Dequeue(g) \/ Ready(g)
=============================================================================
