----------------------------- MODULE MutexSpec -----------------------------
(***************************************************************************)
(* What a lock promises: a goroutine that asks for it may get it while     *)
(* nobody has it, and TryLock may give up at any time.                     *)
(***************************************************************************)
CONSTANTS Goroutine, None

VARIABLES
  owner,   \* the goroutine that has the lock, or None
  asking   \* the goroutines inside Lock or TryLock

specVars == <<owner, asking>>

SpecInit == owner = None /\ asking = {}

SpecAsk(g) ==
  /\ g \notin asking /\ owner # g
  /\ asking' = asking \cup {g} /\ UNCHANGED owner
SpecTake(g) ==
  /\ g \in asking /\ owner = None
  /\ asking' = asking \ {g} /\ owner' = g
SpecGiveUp(g) ==
  /\ g \in asking
  /\ asking' = asking \ {g} /\ UNCHANGED owner
SpecUnlock(g) == owner = g /\ owner' = None /\ UNCHANGED asking

SpecNext ==
  \E g \in Goroutine : SpecAsk(g) \/ SpecTake(g) \/ SpecGiveUp(g) \/ SpecUnlock(g)

MutexSpecification == SpecInit /\ [][SpecNext]_specVars
=============================================================================
