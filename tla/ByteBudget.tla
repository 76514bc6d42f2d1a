------------------------------ MODULE ByteBudget ------------------------------
(***************************************************************************)
(* What the byte limiter promises: the reservations never exceed the       *)
(* capacity together, and they are granted in the order they were asked    *)
(* for; only a request for nothing passes the others.                      *)
(***************************************************************************)
EXTENDS Naturals, Sequences

CONSTANTS
  Tasks,
  Capacity,
  Load(_)    \* bytes a set of tasks reserves

VARIABLES
  holders,   \* tasks with a reservation
  queue      \* tasks that wait for one

Init == holders = {} /\ queue = <<>>

Grant(t) ==
  /\ queue = <<>> \/ Load({t}) = 0
  /\ holders' = holders \cup {t}
  /\ Load(holders') <= Capacity
  /\ UNCHANGED queue

Wait(t) ==
  /\ t \notin holders
  /\ queue' = Append(queue, t)
  /\ UNCHANGED holders

\* One reservation ends; the first k waiters get theirs.
Return(t, k) ==
  /\ t \in holders
  /\ holders' = (holders \ {t}) \cup {queue[i] : i \in 1..k}
  /\ Load(holders') <= Capacity
  /\ queue' = SubSeq(queue, k + 1, Len(queue))

Next == \E t \in Tasks :
          \/ Grant(t) \/ Wait(t)
          \/ \E k \in 0..Len(queue) : Return(t, k)

Spec == Init /\ [][Next]_<<holders, queue>>
==============================================================================
