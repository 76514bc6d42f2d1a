----------------------------- MODULE ChunkLoader -----------------------------
(***************************************************************************)
(* Concurrent chunk reads (src/src/chunk/loader.ts) that share one byte    *)
(* limiter, and the call that starts them all, ZarrGroup.readMultiple      *)
(* (src/src/group.ts). A single ZarrArray read is the case of one read.    *)
(*                                                                         *)
(* A task is one processTask(). Its counter is where the task is           *)
(* suspended; every action is one turn of the event loop for one task or   *)
(* scheduler, so the launches of one turn are steps of their own here.     *)
(***************************************************************************)
EXTENDS Integers, Sequences, FiniteSets

CONSTANTS
  Reads,        \* array reads of the call
  Chunks,       \* read -> number of its chunk tasks
  Ranged,       \* tasks that ask for a byte range of an uncompressed chunk
  Cost,         \* task -> bytes it asks the limiter for
  Capacity,     \* of the limiter: maxInFlightBytes
  Concurrency,  \* most tasks of one read in flight
  Strict,       \* option: an absent chunk is an error
  NoTask        \* no error yet

Tasks == UNION {{r} \X (1..Chunks[r]) : r \in Reads}
TasksOf(r) == {r} \X (1..Chunks[r])
ReadOf(t) == t[1]

ASSUME ReadsAssumption == IsFiniteSet(Reads) /\ Chunks \in [Reads -> Nat]
ASSUME CostAssumption == Cost \in [Tasks -> Int] /\ Ranged \subseteq Tasks
ASSUME BoundsAssumption == Capacity \in Nat \ {0} /\ Concurrency \in Nat \ {0}
ASSUME OptionsAssumption == Strict \in BOOLEAN /\ NoTask \notin Tasks

VARIABLES
  available, waiters,   \* the limiter
  pc,          \* where each task is suspended
  index,       \* read -> tasks launched so far
  failed,      \* read -> a task of it has failed
  firstError,  \* read -> the task whose error the read rejects with
  outcome,     \* read -> how its promise settled
  call,        \* how the promise of readMultiple settled
  delivered,   \* tasks whose chunk was copied into the output
  missing      \* tasks whose chunk was absent

INSTANCE ByteLimiter

limiterVars == <<available, waiters>>
outputVars  == <<delivered, missing>>
readVars    == <<index, failed, firstError, outcome, call>>
vars == <<limiterVars, pc, readVars, outputVars>>

Pcs == {"todo", "queued", "granted", "fetching", "decoding",
        "returned", "threw", "done"}

\* Tasks between acquire() and release(), and members of the set inFlight.
Holding  == {"granted", "fetching", "decoding"}
Holders  == {t \in Tasks : pc[t] \in Holding}
InFlight(r) == {t \in TasksOf(r) : pc[t] \notin {"todo", "done"}}

TypeOK ==
  /\ available \in 0..Capacity
  /\ waiters \in Seq(Tasks)
  /\ pc \in [Tasks -> Pcs]
  /\ index \in [Reads -> Nat]
  /\ failed \in [Reads -> BOOLEAN]
  /\ firstError \in [Reads -> Tasks \cup {NoTask}]
  /\ outcome \in [Reads -> {"running", "resolved", "rejected"}]
  /\ call \in {"running", "resolved", "rejected"}
  /\ delivered \in SUBSET Tasks
  /\ missing \in SUBSET Tasks

Init ==
  /\ available = Capacity
  /\ waiters = <<>>
  /\ pc = [t \in Tasks |-> "todo"]
  /\ index = [r \in Reads |-> 0]
  /\ failed = [r \in Reads |-> FALSE]
  /\ firstError = [r \in Reads |-> NoTask]
  /\ outcome = [r \in Reads |-> "running"]
  /\ call = "running"
  /\ delivered = {}
  /\ missing = {}

------------------------------------------------------------------------------
(* The scheduler of a read *)

\* The next task of the read starts and runs to its first await, at `to`.
Launches(t, to) ==
  LET r == ReadOf(t) IN
  /\ t[2] = index[r] + 1
  /\ ~failed[r]
  /\ Cardinality(InFlight(r)) < Concurrency
  /\ index' = [index EXCEPT ![r] = t[2]]
  /\ pc' = [pc EXCEPT ![t] = to]
  /\ UNCHANGED <<failed, firstError, outcome, call, missing>>

\* The decoded chunk is in the memory cache: no byte is reserved for it.
LaunchHit(t) ==
  /\ Launches(t, "returned")
  /\ delivered' = delivered \cup {t}
  /\ UNCHANGED limiterVars

\* ... and copying it into the output throws.
LaunchHitThrows(t) ==
  /\ Launches(t, "threw")
  /\ UNCHANGED <<limiterVars, delivered>>

\* acquire() returns at once; the task goes on in a turn of its own.
LaunchAdmitted(t) ==
  /\ Launches(t, "granted")
  /\ Reserve(t)
  /\ UNCHANGED delivered

LaunchQueued(t) ==
  /\ Launches(t, "queued")
  /\ Enqueue(t)
  /\ UNCHANGED delivered

------------------------------------------------------------------------------
(* processTask(), from the grant of its reservation on *)

\* The task goes on to its next await.
Moves(t, from, to) ==
  /\ pc[t] = from
  /\ pc' = [pc EXCEPT ![t] = to]
  /\ UNCHANGED <<limiterVars, readVars, outputVars>>

\* The task ends as `how`; its `finally` releases the reservation, and the
\* waiters woken by that get the grant.
Ends(t, how) ==
  \E k \in 0..Len(waiters) :
    /\ Release(t, k)
    /\ pc' = [u \in Tasks |-> IF u = t THEN how
                              ELSE IF u \in FirstWaiters(k) THEN "granted" ELSE pc[u]]
    /\ UNCHANGED readVars

\* Mutant: the return on failure stands before the `try`.
Aborts_NoRelease(t) ==
  /\ pc[t] \in Holding
  /\ failed[ReadOf(t)]
  /\ pc' = [pc EXCEPT ![t] = "returned"]
  /\ UNCHANGED <<limiterVars, readVars, outputVars>>

\* `if (failed) return` after the acquire, the fetch or the decode.
Aborts(t) ==
  /\ pc[t] \in Holding
  /\ failed[ReadOf(t)]
  /\ Ends(t, "returned")
  /\ UNCHANGED outputVars

StartsFetch(t) ==
  /\ ~failed[ReadOf(t)]
  /\ Moves(t, "granted", "fetching")

\* store.get() resolves with bytes: decode them.
FetchesChunk(t) ==
  /\ t \notin Ranged
  /\ ~failed[ReadOf(t)]
  /\ Moves(t, "fetching", "decoding")

\* Mutant: a late answer is copied although the read has failed.
Delivers_NoRecheck(t) ==
  /\ pc[t] = IF t \in Ranged THEN "fetching" ELSE "decoding"
  /\ delivered' = delivered \cup {t}
  /\ Ends(t, "returned")
  /\ UNCHANGED missing

\* The byte range, or the decoded chunk, is copied into the output.
Delivers(t) ==
  /\ pc[t] = IF t \in Ranged THEN "fetching" ELSE "decoding"
  /\ ~failed[ReadOf(t)]
  /\ delivered' = delivered \cup {t}
  /\ Ends(t, "returned")
  /\ UNCHANGED missing

\* The chunk is absent: handleMissing().
FindsNothing(t) ==
  /\ pc[t] = "fetching"
  /\ ~failed[ReadOf(t)]
  /\ missing' = missing \cup {t}
  /\ Ends(t, IF Strict THEN "threw" ELSE "returned")
  /\ UNCHANGED delivered

\* The store, the codec or the copy throws.
Throws(t) ==
  /\ pc[t] \in {"fetching", "decoding"}
  /\ Ends(t, "threw")
  /\ UNCHANGED outputVars

------------------------------------------------------------------------------
(* The handlers on the promise of processTask() and the end of the read *)

HandlerFulfilled(t) ==
  /\ pc[t] = "returned"
  /\ pc' = [pc EXCEPT ![t] = "done"]
  /\ UNCHANGED <<limiterVars, readVars, outputVars>>

\* Mutant: a task that failed stays in the set inFlight.
HandlerRejected_StaysInFlight(t) ==
  LET r == ReadOf(t) IN
  /\ pc[t] = "threw"
  /\ ~failed[r]
  /\ failed' = [failed EXCEPT ![r] = TRUE]
  /\ firstError' = [firstError EXCEPT ![r] = t]
  /\ UNCHANGED <<limiterVars, pc, index, outcome, call, outputVars>>

HandlerRejected(t) ==
  LET r == ReadOf(t) IN
  /\ pc[t] = "threw"
  /\ pc' = [pc EXCEPT ![t] = "done"]
  /\ failed' = [failed EXCEPT ![r] = TRUE]
  /\ firstError' = [firstError EXCEPT ![r] = IF failed[r] THEN @ ELSE t]
  /\ UNCHANGED <<limiterVars, index, outcome, call, outputVars>>

\* Mutant: the scheduler stops one task early.
ReadSettles_OneShort(r) ==
  /\ outcome[r] = "running"
  /\ failed[r] \/ index[r] >= Chunks[r] - 1
  /\ InFlight(r) = {}
  /\ outcome' = [outcome EXCEPT ![r] = IF failed[r] THEN "rejected" ELSE "resolved"]
  /\ UNCHANGED <<limiterVars, pc, index, failed, firstError, call, outputVars>>

\* Nothing is left to launch and nothing is in flight.
ReadSettles(r) ==
  /\ outcome[r] = "running"
  /\ failed[r] \/ index[r] = Chunks[r]
  /\ InFlight(r) = {}
  /\ outcome' = [outcome EXCEPT ![r] = IF failed[r] THEN "rejected" ELSE "resolved"]
  /\ UNCHANGED <<limiterVars, pc, index, failed, firstError, call, outputVars>>

\* Mutant: Promise.all in the place of Promise.allSettled.
CallSettles_FailFast ==
  /\ call = "running"
  /\ \/ \A r \in Reads : outcome[r] # "running"
     \/ \E r \in Reads : outcome[r] = "rejected"
  /\ call' = IF \E r \in Reads : outcome[r] = "rejected" THEN "rejected" ELSE "resolved"
  /\ UNCHANGED <<limiterVars, pc, index, failed, firstError, outcome, outputVars>>

\* readMultiple() awaits every read before it looks for a failure.
CallSettles ==
  /\ call = "running"
  /\ \A r \in Reads : outcome[r] # "running"
  /\ call' = IF \E r \in Reads : outcome[r] = "rejected" THEN "rejected" ELSE "resolved"
  /\ UNCHANGED <<limiterVars, pc, index, failed, firstError, outcome, outputVars>>

------------------------------------------------------------------------------
TaskStep(t) ==
  \/ Aborts(t) \/ StartsFetch(t) \/ FetchesChunk(t)
  \/ Delivers(t) \/ FindsNothing(t) \/ Throws(t)
  \/ HandlerFulfilled(t) \/ HandlerRejected(t)

Launch(t) ==
  LaunchHit(t) \/ LaunchHitThrows(t) \/ LaunchAdmitted(t) \/ LaunchQueued(t)

Next ==
  \/ \E t \in Tasks : Launch(t) \/ TaskStep(t)
  \/ \E r \in Reads : ReadSettles(r)
  \/ CallSettles

Spec == Init /\ [][Next]_vars

\* The event loop runs every continuation and handler, and stores and codecs
\* answer or fail. Nothing is assumed of a task that waits for the limiter.
Fairness ==
  /\ \A t \in Tasks : WF_vars(Launch(t)) /\ WF_vars(TaskStep(t))
  /\ \A r \in Reads : WF_vars(ReadSettles(r))
  /\ WF_vars(CallSettles)

FairSpec == Spec /\ Fairness

------------------------------------------------------------------------------
(* Properties *)

\* Every byte of the budget is available or reserved by one task, whatever way
\* the tasks ended.
BudgetExact == available + Size(Holders) = Capacity

\* While tasks wait, the first of them does not fit and somebody else holds a
\* reservation whose release will wake it: the limiter is never stuck.
WaitersAreBlocked ==
  waiters # <<>> => available < Clamp(waiters[1]) /\ Holders # {}

\* A read settles only when none of its tasks waits for or holds budget, and it
\* resolves only when every chunk was delivered or, if allowed, was absent.
SettledReads ==
  \A r \in Reads :
    /\ outcome[r] # "running" => InFlight(r) = {}
    /\ outcome[r] = "resolved" =>
         /\ TasksOf(r) \subseteq delivered \cup missing
         /\ Strict => missing \cap TasksOf(r) = {}

\* When readMultiple settles, the whole budget is back and nobody waits for it.
CallReturnsBudget == call # "running" => available = Capacity /\ waiters = <<>>

\* Nothing that settles leaves work or a reservation behind.
SettledDrained == SettledReads /\ CallReturnsBudget

\* After the first failure of a read nothing more is copied into its output,
\* and the error it will reject with does not change.
NothingAfterFailure ==
  [][\A r \in Reads : failed[r] =>
       /\ delivered' \cap TasksOf(r) = delivered \cap TasksOf(r)
       /\ firstError'[r] = firstError[r]]_vars

Budget == INSTANCE ByteBudget WITH Load <- Size, holders <- Holders, queue <- waiters
BudgetSpec == Budget!Spec

\* Every call of readMultiple settles, and with it every read: no task waits for the
\* limiter for ever.
CallSettlesEventually == <>(call # "running")
------------------------------------------------------------------------------
(* The inductive invariant behind the safety properties *)

\* The queue lists the tasks suspended in acquire() once each; the first of them
\* does not fit.
QueueInv ==
  /\ \A t \in Tasks : pc[t] = "queued" <=> \E i \in 1..Len(waiters) : waiters[i] = t
  /\ \A i, j \in 1..Len(waiters) : waiters[i] = waiters[j] => i = j
  /\ waiters # <<>> => available < Clamp(waiters[1])

\* The tasks of a read are launched in order.
LaunchInv ==
  /\ \A r \in Reads : index[r] <= Chunks[r]
  /\ \A t \in Tasks : pc[t] = "todo" <=> t[2] > index[ReadOf(t)]

\* What is known of a task that ended while its read had not failed.
OutputInv ==
  \A t \in Tasks : ~failed[ReadOf(t)] =>
    /\ pc[t] \in {"returned", "done"} => t \in delivered \cup missing
    /\ Strict /\ t \in missing => pc[t] = "threw"

\* A read settles after its last task, a call after its last read.
SettleInv ==
  /\ \A r \in Reads : outcome[r] # "running" =>
       /\ InFlight(r) = {}
       /\ failed[r] \/ index[r] = Chunks[r]
       /\ outcome[r] = "resolved" => ~failed[r]
  /\ call # "running" => \A r \in Reads : outcome[r] # "running"

Inv == TypeOK /\ QueueInv /\ BudgetExact /\ LaunchInv /\ OutputInv /\ SettleInv
==============================================================================
