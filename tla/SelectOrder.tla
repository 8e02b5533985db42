----------------------------- MODULE SelectOrder -----------------------------
(***************************************************************************)
(* The two orders selectgo computes before it locks anything               *)
(* (runtime/select.go): a random order to poll the cases in, and the cases *)
(* sorted by channel address, by heap sort in place.  Cases are numbered   *)
(* from 0; each iteration of a loop is one step.                           *)
(***************************************************************************)
EXTENDS Integers, Sequences, FiniteSets

CONSTANTS N,    \* number of cases
          Keys  \* channel addresses

Nil == 0         \* no channel
Junk == N        \* what an uninitialised entry may hold: no case has this number

ASSUME OrderAssumption == N \in Nat /\ Keys \subseteq Nat \ {Nil}

VARIABLES
  key,        \* sortkey of the channel of each case, Nil for a nil channel
  pollorder, lockorder,
  norder,     \* number of cases with a channel
  phase,      \* the loop being executed
  i, j, o     \* loop variables; o is the entry being sifted down

vars == <<key, pollorder, lockorder, norder, phase, i, j, o>>

Init ==
  /\ key \in [0 .. N - 1 -> Keys \cup {Nil}]
  /\ pollorder = [k \in 0 .. N - 1 |-> IF k = 0 THEN 0 ELSE Junk]
  /\ lockorder = [k \in 0 .. N - 1 |-> Junk]
  /\ norder = 0 /\ phase = "shuffle" /\ i = 0 /\ j = 0 /\ o = 0

\* Entry r makes room for case i.
Placed(r) == [pollorder EXCEPT ![norder] = pollorder[r], ![r] = i]

\* Generate the poll order; a case without a channel is left out.
Shuffle ==
  /\ phase = "shuffle" /\ i < N
  /\ i' = i + 1
  /\ IF key[i] = Nil
     THEN UNCHANGED <<pollorder, norder>>
     ELSE /\ \E r \in 0 .. norder : pollorder' = Placed(r)
          /\ norder' = norder + 1
  /\ UNCHANGED <<key, lockorder, phase, j, o>>

ShuffleDone ==
  /\ phase = "shuffle" /\ i = N
  /\ phase' = "insert" /\ i' = 0 /\ j' = 0
  /\ UNCHANGED <<key, pollorder, lockorder, norder, o>>

\* Build the heap: entry i moves up until its parent is not smaller.
Parent(k) == (k - 1) \div 2

Above(k) == k > 0 /\ key[lockorder[Parent(k)]] < key[pollorder[i]]

SiftUp ==
  /\ phase = "insert" /\ i < norder /\ Above(j)
  /\ lockorder' = [lockorder EXCEPT ![j] = lockorder[Parent(j)]]
  /\ j' = Parent(j)
  /\ UNCHANGED <<key, pollorder, norder, phase, i, o>>

Insert ==
  /\ phase = "insert" /\ i < norder /\ ~Above(j)
  /\ lockorder' = [lockorder EXCEPT ![j] = pollorder[i]]
  /\ i' = i + 1 /\ j' = i + 1
  /\ UNCHANGED <<key, pollorder, norder, phase, o>>

InsertDone ==
  /\ phase = "insert" /\ i = norder
  /\ phase' = "extract" /\ i' = norder - 1
  /\ UNCHANGED <<key, pollorder, lockorder, norder, j, o>>

\* Move the largest entry to the end and sift the one it replaces down.
Extract ==
  /\ phase = "extract" /\ i >= 0
  /\ o' = lockorder[i]
  /\ lockorder' = [lockorder EXCEPT ![i] = lockorder[0]]
  /\ j' = 0 /\ phase' = "sift"
  /\ UNCHANGED <<key, pollorder, norder, i>>

\* The larger child of k among the entries before i.  (LeftChild: the left one.)
LeftChild(k) == 2 * k + 1
Child(k) ==
  LET l == 2 * k + 1 IN
  IF l + 1 < i /\ key[lockorder[l]] < key[lockorder[l + 1]] THEN l + 1 ELSE l

Below(k) == 2 * k + 1 < i /\ key[o] < key[lockorder[Child(k)]]

SiftDown ==
  /\ phase = "sift" /\ Below(j)
  /\ lockorder' = [lockorder EXCEPT ![j] = lockorder[Child(j)]]
  /\ j' = Child(j)
  /\ UNCHANGED <<key, pollorder, norder, phase, i, o>>

Place ==
  /\ phase = "sift" /\ ~Below(j)
  /\ lockorder' = [lockorder EXCEPT ![j] = o]
  /\ i' = i - 1 /\ phase' = "extract"
  /\ UNCHANGED <<key, pollorder, norder, j, o>>

ExtractDone ==
  /\ phase = "extract" /\ i < 0
  /\ phase' = "done"
  /\ UNCHANGED <<key, pollorder, lockorder, norder, i, j, o>>

Next ==
  \/ Shuffle \/ ShuffleDone
  \/ SiftUp \/ Insert \/ InsertDone
  \/ Extract \/ SiftDown \/ Place \/ ExtractDone

Spec == Init /\ [][Next]_vars

-----------------------------------------------------------------------------
Entries == 0 .. norder - 1
WithChannel == {k \in 0 .. N - 1 : key[k] # Nil}

\* In the end the lock order is the cases with a channel, each once, by increasing
\* address: what sellock needs to take every lock once and in the global order.
LockOrderSorted ==
  phase = "done" =>
    /\ {lockorder[k] : k \in Entries} = WithChannel
    /\ \A k, m \in Entries : k < m => key[lockorder[k]] <= key[lockorder[m]]
=============================================================================
