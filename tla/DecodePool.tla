----------------------------- MODULE DecodePool -----------------------------
(***************************************************************************)
(* The worker-thread pool that decodes chunks off the event loop           *)
(* (src/src/codec/decode-pool.ts, decode-worker.ts).                       *)
(*                                                                         *)
(* A handler of the pool is one step. What a worker thread posts, and the  *)
(* "error" event of its death, travel on two ports of their own: a thread  *)
(* may answer and die, and the pool hears of it in either order, also      *)
(* after terminate().                                                      *)
(***************************************************************************)
EXTENDS Integers, Sequences, FiniteSets

CONSTANTS
  Jobs,           \* calls of decode()
  Workers,        \* threads, each spawned at most once; bounds the deaths
  PoolSize,
  SpawnMayThrow,  \* `new Worker` may throw when the pool starts
  NoJob

ASSUME JobsAssumption == NoJob \notin Jobs
ASSUME WorkersAssumption == IsFiniteSet(Workers)
ASSUME PoolAssumption == PoolSize \in Nat \ {0} /\ SpawnMayThrow \in BOOLEAN

VARIABLES
  started, terminated,
  workers,   \* the pool's threads
  idle,      \* thread -> how often it stands in the list of idle threads
  queue,     \* jobs no thread has taken yet
  jobOf,     \* thread -> job the pool waits for on it
  outcome,   \* job -> how the promise of its decode() settled
  thread,    \* thread -> "crashed": its "error" event is still to come
  requests,  \* thread -> jobs posted to it that it has not answered
  inbox      \* thread -> its answers that the pool has not handled

poolVars   == <<started, terminated, workers, idle, queue, jobOf>>
threadVars == <<thread, requests, inbox>>
vars == <<poolVars, outcome, threadVars>>

TypeOK ==
  /\ started \in BOOLEAN /\ terminated \in BOOLEAN
  /\ workers \in SUBSET Workers
  /\ idle \in [Workers -> Nat]
  /\ queue \in Seq(Jobs)
  /\ jobOf \in [Workers -> Jobs \cup {NoJob}]
  /\ outcome \in [Jobs -> {"none", "pending", "resolved", "rejected"}]
  /\ thread \in [Workers -> {"none", "up", "crashed", "gone"}]
  /\ requests \in [Workers -> SUBSET Jobs]
  /\ inbox \in [Workers -> SUBSET (Jobs \X BOOLEAN)]

Init ==
  /\ started = FALSE /\ terminated = FALSE
  /\ workers = {}
  /\ idle = [w \in Workers |-> 0]
  /\ queue = <<>>
  /\ jobOf = [w \in Workers |-> NoJob]
  /\ outcome = [j \in Jobs |-> "none"]
  /\ thread = [w \in Workers |-> "none"]
  /\ requests = [w \in Workers |-> {}]
  /\ inbox = [w \in Workers |-> {}]

Unspawned == {w \in Workers : thread[w] = "none"}

------------------------------------------------------------------------------
(* decode() *)

Settle(j, how) == outcome' = [outcome EXCEPT ![j] = how]

DecodeRefused(j) ==
  /\ outcome[j] = "none"
  /\ terminated
  /\ Settle(j, "rejected")
  /\ UNCHANGED <<poolVars, threadVars>>

\* The first call spawns the pool; the last thread spawned takes the job.
DecodeStarts(j) ==
  /\ outcome[j] = "none"
  /\ ~terminated /\ ~started
  /\ \E spawned \in SUBSET Unspawned : \E w \in spawned :
       /\ Cardinality(spawned) = PoolSize
       /\ workers' = spawned
       /\ idle' = [v \in Workers |-> IF v \in spawned \ {w} THEN 1 ELSE 0]
       /\ thread' = [v \in Workers |-> IF v \in spawned THEN "up" ELSE thread[v]]
       /\ jobOf' = [jobOf EXCEPT ![w] = j]
       /\ requests' = [requests EXCEPT ![w] = @ \cup {j}]
  /\ started' = TRUE
  /\ Settle(j, "pending")
  /\ UNCHANGED <<terminated, queue, inbox>>

\* ... unless a thread cannot be created: the call throws to its async caller
\* and the pool counts as started with the threads it had got.
DecodeThrows(j) ==
  /\ SpawnMayThrow
  /\ outcome[j] = "none"
  /\ ~terminated /\ ~started
  /\ \E spawned \in SUBSET Unspawned :
       /\ Cardinality(spawned) < PoolSize
       /\ workers' = spawned
       /\ idle' = [v \in Workers |-> IF v \in spawned THEN 1 ELSE 0]
       /\ thread' = [v \in Workers |-> IF v \in spawned THEN "up" ELSE thread[v]]
  /\ started' = TRUE
  /\ Settle(j, "rejected")
  /\ UNCHANGED <<terminated, queue, jobOf, requests, inbox>>

\* Mutant: threads take jobs in turn, idle or not.
DecodeDispatched_AnyThread(j) ==
  /\ outcome[j] = "none"
  /\ ~terminated /\ started
  /\ \E w \in workers :
       /\ idle' = [idle EXCEPT ![w] = @ - 1]
       /\ jobOf' = [jobOf EXCEPT ![w] = j]
       /\ requests' = [requests EXCEPT ![w] = @ \cup {j}]
  /\ Settle(j, "pending")
  /\ UNCHANGED <<started, terminated, workers, queue, thread, inbox>>

DecodeDispatched(j) ==
  /\ outcome[j] = "none"
  /\ ~terminated /\ started
  /\ \E w \in Workers :
       /\ idle[w] > 0
       /\ idle' = [idle EXCEPT ![w] = @ - 1]
       /\ jobOf' = [jobOf EXCEPT ![w] = j]
       /\ requests' = [requests EXCEPT ![w] = @ \cup {j}]
  /\ Settle(j, "pending")
  /\ UNCHANGED <<started, terminated, workers, queue, thread, inbox>>

DecodeQueued(j) ==
  /\ outcome[j] = "none"
  /\ ~terminated /\ started
  /\ \A w \in Workers : idle[w] = 0
  /\ queue' = Append(queue, j)
  /\ Settle(j, "pending")
  /\ UNCHANGED <<started, terminated, workers, idle, jobOf, threadVars>>

DecodeCalled(j) ==
  DecodeRefused(j) \/ DecodeStarts(j) \/ DecodeThrows(j) \/ DecodeDispatched(j) \/ DecodeQueued(j)

------------------------------------------------------------------------------
(* The worker threads *)

\* decode-worker.ts: the thread answers a request, decoded or not.
Answers(w, j) ==
  /\ thread[w] = "up"
  /\ j \in requests[w]
  /\ requests' = [requests EXCEPT ![w] = @ \ {j}]
  /\ \E ok \in BOOLEAN : inbox' = [inbox EXCEPT ![w] = @ \cup {<<j, ok>>}]
  /\ UNCHANGED <<poolVars, outcome, thread>>

\* Bound: a thread dies only while Workers holds a replacement for it.
Replaceable ==
  Cardinality({w \in Workers : thread[w] = "crashed"}) < Cardinality(Unspawned)

\* An uncaught error ends the thread, at start-up or in any state.
Crashes(w) ==
  /\ thread[w] = "up"
  /\ Replaceable
  /\ thread' = [thread EXCEPT ![w] = "crashed"]
  /\ UNCHANGED <<poolVars, outcome, requests, inbox>>

------------------------------------------------------------------------------
(* The pool's handlers *)

\* Mutant: a released thread is idle, whoever waits in the queue.
Releases_IgnoresQueue(w, idleNow, jobsNow) ==
  /\ idle' = [idleNow EXCEPT ![w] = @ + 1]
  /\ jobOf' = jobsNow
  /\ UNCHANGED <<queue, requests>>

\* release(w), with the list of idle threads and the jobs its caller left.
Releases(w, idleNow, jobsNow) ==
  \/ /\ queue = <<>>
     /\ idle' = [idleNow EXCEPT ![w] = @ + 1]
     /\ jobOf' = jobsNow
     /\ UNCHANGED <<queue, requests>>
  \/ /\ queue # <<>>
     /\ queue' = Tail(queue)
     /\ idle' = idleNow
     /\ jobOf' = [jobsNow EXCEPT ![w] = Head(queue)]
     /\ requests' = [requests EXCEPT ![w] = @ \cup {Head(queue)}]

\* Mutant: a rejected decode does not free its thread.
Message_ReleasesOnSuccess(w) ==
  \E j \in Jobs, ok \in BOOLEAN :
    /\ <<j, ok>> \in inbox[w]
    /\ inbox' = [inbox EXCEPT ![w] = @ \ {<<j, ok>>}]
    /\ \/ /\ jobOf[w] # j
          /\ UNCHANGED <<poolVars, outcome, thread, requests>>
       \/ /\ jobOf[w] = j /\ ok
          /\ Settle(j, "resolved")
          /\ Releases(w, idle, [jobOf EXCEPT ![w] = NoJob])
          /\ UNCHANGED <<started, terminated, workers, thread>>
       \/ /\ jobOf[w] = j /\ ~ok
          /\ Settle(j, "rejected")
          /\ jobOf' = [jobOf EXCEPT ![w] = NoJob]
          /\ UNCHANGED <<started, terminated, workers, idle, queue, thread, requests>>

\* "message". terminate() forgets the job of every thread, so release()'s own
\* test of `terminated` is false here.
Message(w) ==
  \E j \in Jobs, ok \in BOOLEAN :
    /\ <<j, ok>> \in inbox[w]
    /\ inbox' = [inbox EXCEPT ![w] = @ \ {<<j, ok>>}]
    /\ \/ /\ jobOf[w] # j
          /\ UNCHANGED <<poolVars, outcome, thread, requests>>
       \/ /\ jobOf[w] = j
          /\ Settle(j, IF ok THEN "resolved" ELSE "rejected")
          /\ Releases(w, idle, [jobOf EXCEPT ![w] = NoJob])
          /\ UNCHANGED <<started, terminated, workers, thread>>

RejectsJobOf(w) ==
  outcome' = [j \in Jobs |-> IF j = jobOf[w] THEN "rejected" ELSE outcome[j]]

\* Mutant: the job of the dead thread is forgotten, not rejected.
ErrorReplaces_DropsJob(w) ==
  /\ thread[w] = "crashed"
  /\ ~terminated
  /\ \E fresh \in Unspawned :
       /\ workers' = (workers \ {w}) \cup {fresh}
       /\ thread' = [thread EXCEPT ![w] = "gone", ![fresh] = "up"]
       /\ Releases(fresh, [idle EXCEPT ![w] = 0], [jobOf EXCEPT ![w] = NoJob])
  /\ UNCHANGED <<started, terminated, outcome, inbox>>

\* Mutant: the dead thread stays in the pool's list.
ErrorReplaces_KeepsDead(w) ==
  /\ thread[w] = "crashed"
  /\ ~terminated
  /\ RejectsJobOf(w)
  /\ \E fresh \in Unspawned :
       /\ workers' = workers \cup {fresh}
       /\ thread' = [thread EXCEPT ![w] = "gone", ![fresh] = "up"]
       /\ Releases(fresh, [idle EXCEPT ![w] = 0], [jobOf EXCEPT ![w] = NoJob])
  /\ UNCHANGED <<started, terminated, inbox>>

\* "error", while the pool lives: the thread is replaced.
ErrorReplaces(w) ==
  /\ thread[w] = "crashed"
  /\ ~terminated
  /\ RejectsJobOf(w)
  /\ \E fresh \in Unspawned :
       /\ workers' = (workers \ {w}) \cup {fresh}
       /\ thread' = [thread EXCEPT ![w] = "gone", ![fresh] = "up"]
       /\ Releases(fresh, [idle EXCEPT ![w] = 0], [jobOf EXCEPT ![w] = NoJob])
  /\ UNCHANGED <<started, terminated, inbox>>

\* Mutant: the replacement is spawned before the test of `terminated`.
ErrorIgnored_Respawns(w) ==
  /\ thread[w] = "crashed"
  /\ terminated
  /\ RejectsJobOf(w)
  /\ workers' = workers \ {w}
  /\ idle' = [idle EXCEPT ![w] = 0]
  /\ jobOf' = [jobOf EXCEPT ![w] = NoJob]
  /\ \E fresh \in Unspawned : thread' = [thread EXCEPT ![w] = "gone", ![fresh] = "up"]
  /\ UNCHANGED <<started, terminated, queue, requests, inbox>>

\* "error" after terminate(): no replacement.
ErrorIgnored(w) ==
  /\ thread[w] = "crashed"
  /\ terminated
  /\ RejectsJobOf(w)
  /\ workers' = workers \ {w}
  /\ idle' = [idle EXCEPT ![w] = 0]
  /\ jobOf' = [jobOf EXCEPT ![w] = NoJob]
  /\ thread' = [thread EXCEPT ![w] = "gone"]
  /\ UNCHANGED <<started, terminated, queue, requests, inbox>>

\* Mutant: only the queued jobs are rejected.
TerminateCalled_ForgetsInFlight ==
  /\ terminated' = TRUE
  /\ outcome' = [j \in Jobs |-> IF \E i \in DOMAIN queue : queue[i] = j
                                THEN "rejected" ELSE outcome[j]]
  /\ queue' = <<>>
  /\ workers' = {}
  /\ idle' = [w \in Workers |-> 0]
  /\ jobOf' = [w \in Workers |-> IF w \in workers THEN NoJob ELSE jobOf[w]]
  /\ thread' = [w \in Workers |-> IF w \in workers /\ thread[w] = "up"
                                  THEN "gone" ELSE thread[w]]
  /\ UNCHANGED <<started, requests, inbox>>

\* The threads stop; what they had posted may still arrive.
TerminateCalled ==
  /\ terminated' = TRUE
  /\ outcome' = [j \in Jobs |-> IF \/ \E i \in DOMAIN queue : queue[i] = j
                                   \/ \E w \in workers : jobOf[w] = j
                                THEN "rejected" ELSE outcome[j]]
  /\ queue' = <<>>
  /\ workers' = {}
  /\ idle' = [w \in Workers |-> 0]
  /\ jobOf' = [w \in Workers |-> IF w \in workers THEN NoJob ELSE jobOf[w]]
  /\ thread' = [w \in Workers |-> IF w \in workers /\ thread[w] = "up"
                                  THEN "gone" ELSE thread[w]]
  /\ UNCHANGED <<started, requests, inbox>>

------------------------------------------------------------------------------
Next ==
  \/ \E j \in Jobs : DecodeCalled(j)
  \/ \E w \in Workers : \/ Crashes(w) \/ Message(w)
                        \/ ErrorReplaces(w) \/ ErrorIgnored(w)
                        \/ \E j \in Jobs : Answers(w, j)
  \/ TerminateCalled

Spec == Init /\ [][Next]_vars

\* A live thread answers what it was asked, and the event loop delivers.
FairSpec ==
  /\ Spec
  /\ \A w \in Workers : /\ \A j \in Jobs : WF_vars(Answers(w, j))
                        /\ WF_vars(Message(w))
                        /\ WF_vars(ErrorReplaces(w))

------------------------------------------------------------------------------
(* Properties *)

Pending == {j \in Jobs : outcome[j] = "pending"}

\* Jobs P are those of queue q and those threads W have by f, each in one place.
Placement(q, f, W, P) ==
  /\ P = {q[i] : i \in DOMAIN q} \cup ({f[w] : w \in W} \ {NoJob})
  /\ \A i, k \in DOMAIN q : q[i] = q[k] => i = k
  /\ \A w \in W : \A i \in DOMAIN q : q[i] # f[w]
  /\ \A v, w \in W : f[v] = f[w] /\ f[v] # NoJob => v = w

\* A job whose promise is pending waits once in the queue or is the job of one
\* thread of the pool, and nothing else is: no answer, death, refill or
\* terminate() loses a job or hands it out twice.
JobsAccounted == Placement(queue, jobOf, workers, Pending)

\* The list of idle threads holds each thread of the pool that has no job, once,
\* and no other; and no job waits while a thread is idle.
WorkConserving ==
  /\ \A w \in Workers : idle[w] = IF w \in workers /\ jobOf[w] = NoJob THEN 1 ELSE 0
  /\ queue # <<>> => \A w \in workers : jobOf[w] # NoJob

\* A running thread belongs to the pool, so that terminate() stops every thread
\* (a forgotten one would keep the process alive): handleDeath(), terminate().
NoThreadLeaks == \A w \in Workers : thread[w] = "up" => w \in workers

\* "so the pool keeps its size": from its start to terminate() a death neither
\* shrinks nor grows the pool.
PoolKeepsSize ==
  [][started /\ ~terminated' => Cardinality(workers') = Cardinality(workers)]_vars

\* decode(): "Decode `input` on a worker thread": a queued job has a thread that
\* will take it.
QueuedJobsHaveThreads == queue # <<>> => workers # {}

\* What the threads of the pool and its flags have to do with each other.
PoolInv ==
  /\ IsFiniteSet(workers)
  /\ \A w \in Workers \ workers : jobOf[w] = NoJob
  /\ \A w \in workers : thread[w] \in {"up", "crashed"}
  /\ ~terminated => \A w \in Workers : thread[w] = "crashed" => w \in workers
  /\ terminated \/ ~started => workers = {} /\ queue = <<>>

\* The inductive invariant.
Inv == TypeOK /\ PoolInv /\ JobsAccounted /\ WorkConserving /\ NoThreadLeaks

\* The pool implements the service its callers see: one answer per job,
\* terminate() answers every pending job, and nothing is taken after it.
Service == INSTANCE DecodeService WITH answer <- outcome, open <- ~terminated
ServiceSpec == Service!Spec

\* Every decode() of a pool that has a thread settles, however many threads die.
JobsSettle ==
  \A j \in Jobs : outcome[j] = "pending" /\ workers # {} ~> outcome[j] # "pending"
==============================================================================
