----------------------------- MODULE ByteLimiter -----------------------------
(***************************************************************************)
(* The byte budget shared by concurrent chunk reads                        *)
(* (src/src/chunk/limiter.ts): a FIFO semaphore that counts bytes.         *)
(* Whoever uses it says which tasks hold a reservation.                    *)
(***************************************************************************)
EXTENDS Integers, Sequences, FiniteSets

CONSTANTS
  Tasks,     \* acquisitions: each chunk task acquires at most once
  Cost,      \* task -> bytes asked for, of any sign
  Capacity   \* the constructor raises it to at least one

VARIABLES
  available,   \* bytes not reserved
  waiters      \* tasks in arrival order, none of them with a reservation

\* What a cost reserves: nothing if it is not positive, the whole budget if it
\* is larger than that.
Clamp(t) ==
  IF Cost[t] <= 0 THEN 0 ELSE IF Cost[t] > Capacity THEN Capacity ELSE Cost[t]

\* The bytes the tasks of S reserve together, and how many they are.
Bytes(S) == {b \in S \X (1..Capacity) : b[2] <= Clamp(b[1])}
Size(S)  == Cardinality(Bytes(S))

FirstWaiters(k) == {waiters[i] : i \in 1..k}

\* Mutant: the fast path asks only whether somebody waits.
Admits_Unbounded(t) == Clamp(t) = 0 \/ waiters = <<>>

\* acquire() returns without queueing: for nothing, or when nobody waits and the
\* budget allows it.
Admits(t) == Clamp(t) = 0 \/ (waiters = <<>> /\ available >= Clamp(t))

\* Mutant: a small request overtakes the waiting ones.
Reserve_Overtakes(t) ==
  /\ available >= Clamp(t)
  /\ available' = available - Clamp(t)
  /\ UNCHANGED waiters

Reserve(t) ==
  /\ Admits(t)
  /\ available' = available - Clamp(t)
  /\ UNCHANGED waiters

Enqueue(t) ==
  /\ ~Admits(t)
  /\ waiters' = Append(waiters, t)
  /\ UNCHANGED available

\* Mutant: one waiter is woken at most.
Release_PumpsOnce(t, k) ==
  LET sum  == available + Clamp(t)
      free == IF sum > Capacity THEN Capacity ELSE sum
  IN
  /\ k = IF waiters # <<>> /\ Clamp(waiters[1]) <= free THEN 1 ELSE 0
  /\ available' = free - Size(FirstWaiters(k))
  /\ waiters' = SubSeq(waiters, k + 1, Len(waiters))

\* release() and its pump(): the budget of t comes back and the first k waiters
\* get theirs, k being where the loop stops.
Release(t, k) ==
  LET sum  == available + Clamp(t)
      free == IF sum > Capacity THEN Capacity ELSE sum
  IN
  /\ k \in 0..Len(waiters)
  /\ Size(FirstWaiters(k)) <= free
  /\ k < Len(waiters) => Size(FirstWaiters(k + 1)) > free
  /\ available' = free - Size(FirstWaiters(k))
  /\ waiters' = SubSeq(waiters, k + 1, Len(waiters))
==============================================================================
