------------------------------- MODULE Lookup -------------------------------
(***************************************************************************)
(* What the storage of a dataset promises the callers of one key: an atomic *)
(* lookup. A call that is asked is answered once, with what the key has, or *)
(* fails; calls that are answered together are answered alike; a crash ends *)
(* all calls. Nothing of attempts, caches, files or other processes shows.  *)
(***************************************************************************)
CONSTANT Calls

VARIABLES
  content,  \* what the key has
  lenient,  \* the calls that may take a failure for an absence
  outcome   \* call -> "idle" before it, "pending", or its answer

Init ==
  /\ content \in {"value", "absent"}
  /\ lenient \in SUBSET Calls
  /\ outcome = [c \in Calls |-> "idle"]

Pending == {c \in Calls : outcome[c] = "pending"}

Ask(c) ==
  /\ outcome[c] = "idle"
  /\ outcome' = [outcome EXCEPT ![c] = "pending"]

Reply(S, a) ==
  /\ S \subseteq Pending
  /\ outcome' = [c \in Calls |-> IF c \in S THEN a ELSE outcome[c]]

Crash == outcome' = [c \in Calls |-> "idle"]

Next ==
  /\ \/ \E c \in Calls : Ask(c)
     \/ \E S \in SUBSET Calls : \E a \in {content, "failed"} : Reply(S, a)
     \/ \E c \in lenient : Reply({c}, "absent")
     \/ Crash
  /\ UNCHANGED <<content, lenient>>

Spec == Init /\ [][Next]_<<content, lenient, outcome>>
=============================================================================
