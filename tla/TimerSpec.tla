----------------------------- MODULE TimerSpec -----------------------------
(***************************************************************************)
(* What the timers of the runtime promise: a timer that is set runs once,  *)
(* not before its time, unless it is set anew or stopped, and these say    *)
(* truly whether they came before it ran.  A timer with a period is set    *)
(* again when it runs.                                                     *)
(***************************************************************************)
EXTENDS Integers

CONSTANTS Timers, Users, Period, MaxTime

VARIABLES
  due,   \* when a timer is to run, or 0
  now,
  out    \* what the last call of a user reported

specVars == <<due, now, out>>

SpecInit ==
  /\ due = [t \in Timers |-> 0] /\ now = 1 /\ out = [u \in Users |-> FALSE]

Add(t, w) ==
  /\ due[t] = 0
  /\ due' = [due EXCEPT ![t] = w]
  /\ UNCHANGED <<now, out>>

Set(u, t, w) ==
  /\ due' = [due EXCEPT ![t] = w]
  /\ out' = [out EXCEPT ![u] = due[t] # 0]
  /\ UNCHANGED now

Fire(t) ==
  /\ due[t] \in 1..now
  /\ \/ Period[t] = 0 /\ due' = [due EXCEPT ![t] = 0]
     \/ Period[t] > 0 /\ \E n \in due[t]..now :
          due' = [due EXCEPT ![t] = @ + Period[t] * (1 + (n - @) \div Period[t])]
  /\ UNCHANGED <<now, out>>

Tick == now' = now + 1 /\ UNCHANGED <<due, out>>

SpecNext ==
  \/ Tick
  \/ \E t \in Timers :
       \/ Fire(t)
       \/ \E w \in 1..MaxTime : Add(t, w)
       \/ \E u \in Users, w \in 0..MaxTime : Set(u, t, w)   \* 0 stops it

TimerSpec == SpecInit /\ [][SpecNext]_specVars
=============================================================================
