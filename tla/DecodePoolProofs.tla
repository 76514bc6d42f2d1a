-------------------------- MODULE DecodePoolProofs --------------------------
(***************************************************************************)
(* Theorems about DecodePool, for every set of jobs, of threads and every  *)
(* size of the pool.                                                       *)
(***************************************************************************)
EXTENDS DecodePool, FiniteSetTheorems, TLAPS

------------------------------------------------------------------------------
(* Where jobs are placed *)

\* A job appended to the queue.
LEMMA PlacementAppend ==
  ASSUME NEW q \in Seq(Jobs), NEW f, NEW W, NEW P, Placement(q, f, W, P),
         NEW j \in Jobs, j \notin P
  PROVE  Placement(Append(q, j), f, W, P \cup {j})
<1> DEFINE r == Append(q, j)
<1>1. /\ Len(q) \in Nat /\ DOMAIN q = 1..Len(q) /\ DOMAIN r = 1..(Len(q) + 1)
      /\ \A i \in DOMAIN q : r[i] = q[i]
      /\ r[Len(q) + 1] = j
  OBVIOUS
<1>2. \A i \in DOMAIN q : q[i] # j
  BY DEF Placement
<1>3. \A w \in W : f[w] # j
  BY JobsAssumption DEF Placement
<1> HIDE DEF r
<1>4. {r[i] : i \in DOMAIN r} = {q[i] : i \in DOMAIN q} \cup {j}
  <2>1. \A i \in DOMAIN r : i \in DOMAIN q \/ i = Len(q) + 1
    BY <1>1
  <2>2. DOMAIN q \subseteq DOMAIN r /\ Len(q) + 1 \in DOMAIN r
    BY <1>1
  <2> QED
    BY <1>1, <2>1, <2>2
<1>5. \A i, k \in DOMAIN r : r[i] = r[k] => i = k
  BY <1>1, <1>2 DEF Placement
<1>6. \A w \in W : \A i \in DOMAIN r : r[i] # f[w]
  BY <1>1, <1>3 DEF Placement
<1>7. Placement(r, f, W, P \cup {j})
  BY <1>4, <1>5, <1>6 DEF Placement
<1> QED
  BY <1>7 DEF r

\* A job handed to a thread without one.
LEMMA PlacementGive ==
  ASSUME NEW q, NEW f \in [Workers -> Jobs \cup {NoJob}], NEW W \in SUBSET Workers, NEW P,
         Placement(q, f, W, P), NEW w \in W, f[w] = NoJob, NEW j \in Jobs, j \notin P
  PROVE  Placement(q, [f EXCEPT ![w] = j], W, P \cup {j})
<1> DEFINE g == [f EXCEPT ![w] = j]
<1>1. g[w] = j /\ \A v \in W \ {w} : g[v] = f[v]
  OBVIOUS
<1>2. (\A i \in DOMAIN q : q[i] # j) /\ (\A v \in W : f[v] # j) /\ j # NoJob
  BY JobsAssumption DEF Placement
<1> HIDE DEF g
<1>3. {g[v] : v \in W} \ {NoJob} = ({f[v] : v \in W} \ {NoJob}) \cup {j}
  BY <1>1, <1>2
<1>4. Placement(q, g, W, P \cup {j})
  BY <1>1, <1>2, <1>3 DEF Placement
<1> QED
  BY <1>4 DEF g

\* A thread that is freed of its job, if it had one.
LEMMA PlacementFree ==
  ASSUME NEW q \in Seq(Jobs), NEW f \in [Workers -> Jobs \cup {NoJob}], NEW W \in SUBSET Workers,
         NEW P, Placement(q, f, W, P), NEW w \in W
  PROVE  Placement(q, [f EXCEPT ![w] = NoJob], W, P \ {f[w]})
<1> DEFINE g == [f EXCEPT ![w] = NoJob]
<1>1. g[w] = NoJob /\ \A v \in W \ {w} : g[v] = f[v]
  OBVIOUS
<1> HIDE DEF g
<1>2. \A i \in DOMAIN q : q[i] # f[w] /\ q[i] # NoJob
  BY JobsAssumption DEF Placement
<1>3. {g[v] : v \in W} \ {NoJob} = ({f[v] : v \in W} \ {NoJob}) \ {f[w]}
  BY <1>1 DEF Placement
<1>4. P \ {f[w]} = {q[i] : i \in DOMAIN q} \cup ({g[v] : v \in W} \ {NoJob})
  BY <1>2, <1>3 DEF Placement
<1>5. Placement(q, g, W, P \ {f[w]})
  BY <1>1, <1>2, <1>4 DEF Placement
<1> QED
  BY <1>5 DEF g

\* A thread without a job that is replaced by another.
LEMMA PlacementReplace ==
  ASSUME NEW q \in Seq(Jobs), NEW f, NEW W, NEW P, Placement(q, f, W, P),
         NEW w, NEW x, f[w] = NoJob, f[x] = NoJob
  PROVE  Placement(q, f, (W \ {w}) \cup {x}, P)
<1> DEFINE V == (W \ {w}) \cup {x}
<1>1. {f[v] : v \in V} \ {NoJob} = {f[v] : v \in W} \ {NoJob}
  OBVIOUS
<1>2. \A i \in DOMAIN q : q[i] # NoJob
  BY JobsAssumption
<1> QED
  BY <1>1, <1>2 DEF Placement

\* The first job of the queue handed to a thread without one.
LEMMA PlacementHandOver ==
  ASSUME NEW q \in Seq(Jobs), q # <<>>, NEW f \in [Workers -> Jobs \cup {NoJob}],
         NEW W \in SUBSET Workers, NEW P, Placement(q, f, W, P), NEW w \in W, f[w] = NoJob
  PROVE  Placement(Tail(q), [f EXCEPT ![w] = Head(q)], W, P)
<1> DEFINE r == Tail(q)
           Q == P \ {q[1]}
<1>1. /\ Len(q) \in Nat \ {0} /\ DOMAIN q = 1..Len(q) /\ DOMAIN r = 1..(Len(q) - 1)
      /\ \A i \in DOMAIN r : r[i] = q[i + 1]
      /\ Head(q) = q[1] /\ q[1] \in Jobs /\ r \in Seq(Jobs)
  OBVIOUS
<1> HIDE DEF r
<1>2. {r[i] : i \in DOMAIN r} = {q[i] : i \in DOMAIN q} \ {q[1]}
  <2>1. \A i \in DOMAIN r : i + 1 \in DOMAIN q /\ i + 1 # 1 /\ 1 \in DOMAIN q
    BY <1>1
  <2>2. \A i \in DOMAIN q \ {1} : i - 1 \in DOMAIN r /\ r[i - 1] = q[i]
    BY <1>1
  <2>3. \A i \in DOMAIN q \ {1} : q[i] # q[1]
    BY <1>1 DEF Placement
  <2> QED
    BY <1>1, <2>1, <2>2, <2>3
<1>3. \A v \in W : f[v] # q[1]
  BY <1>1 DEF Placement
<1>4. Placement(r, f, W, Q)
  <2>1. Q = {r[i] : i \in DOMAIN r} \cup ({f[v] : v \in W} \ {NoJob})
    BY <1>2, <1>3 DEF Placement
  <2>2. \A i, k \in DOMAIN r : r[i] = r[k] => i = k
    <3> TAKE i, k \in DOMAIN r
    <3>1. i + 1 \in DOMAIN q /\ k + 1 \in DOMAIN q /\ r[i] = q[i + 1] /\ r[k] = q[k + 1]
      BY <1>1
    <3> QED
      BY <1>1, <3>1 DEF Placement
  <2>3. \A v \in W : \A i \in DOMAIN r : r[i] # f[v]
    <3> TAKE v \in W
    <3> TAKE i \in DOMAIN r
    <3>1. i + 1 \in DOMAIN q /\ r[i] = q[i + 1]
      BY <1>1
    <3> QED
      BY <3>1 DEF Placement
  <2> QED
    BY <2>1, <2>2, <2>3 DEF Placement
<1>5. q[1] \notin Q /\ q[1] \in P
  BY <1>1 DEF Placement
<1>6. Placement(r, [f EXCEPT ![w] = q[1]], W, Q \cup {q[1]})
  BY <1>1, <1>4, <1>5, PlacementGive
<1>7. Q \cup {q[1]} = P
  BY <1>5
<1> QED
  BY <1>1, <1>6, <1>7 DEF r

------------------------------------------------------------------------------
(* Parts of the handlers *)

\* A promise that settles, or that starts to be pending.
LEMMA SettleEffect ==
  ASSUME TypeOK, NEW j \in Jobs, NEW how \in {"pending", "resolved", "rejected"}, Settle(j, how)
  PROVE  /\ outcome' \in [Jobs -> {"none", "pending", "resolved", "rejected"}]
         /\ how = "pending" => Pending' = Pending \cup {j}
         /\ how # "pending" => Pending' = Pending \ {j}
BY DEF TypeOK, Settle, Pending

\* The rejection of the job of a dead thread.
LEMMA RejectsEffect ==
  ASSUME TypeOK, NEW w \in Workers, RejectsJobOf(w)
  PROVE  /\ outcome' \in [Jobs -> {"none", "pending", "resolved", "rejected"}]
         /\ Pending' = Pending \ {jobOf[w]}
BY DEF TypeOK, RejectsJobOf, Pending

\* What release(w) of a thread of W needs, and what it leaves.
ReadyToRelease(w, W, P, idleNow, jobsNow) ==
  /\ W \in SUBSET Workers /\ w \in W
  /\ idleNow \in [Workers -> Nat] /\ jobsNow \in [Workers -> Jobs \cup {NoJob}]
  /\ jobsNow[w] = NoJob
  /\ \A v \in Workers \ W : jobsNow[v] = NoJob
  /\ \A v \in Workers : idleNow[v] = IF v \in W \ {w} /\ jobsNow[v] = NoJob THEN 1 ELSE 0
  /\ queue # <<>> => \A v \in W \ {w} : jobsNow[v] # NoJob
  /\ Placement(queue, jobsNow, W, P)

Released(W, P) ==
  /\ idle' \in [Workers -> Nat] /\ queue' \in Seq(Jobs)
  /\ jobOf' \in [Workers -> Jobs \cup {NoJob}]
  /\ requests' \in [Workers -> SUBSET Jobs]
  /\ Placement(queue', jobOf', W, P)
  /\ \A v \in Workers \ W : jobOf'[v] = NoJob
  /\ \A v \in Workers : idle'[v] = IF v \in W /\ jobOf'[v] = NoJob THEN 1 ELSE 0
  /\ queue' # <<>> => \A v \in W : jobOf'[v] # NoJob

\* release() places every job, and either the thread is idle and nobody waits or
\* it takes the first job of the queue.
LEMMA ReleasesEffect ==
  ASSUME TypeOK, NEW w, NEW W, NEW P, NEW idleNow, NEW jobsNow,
         ReadyToRelease(w, W, P, idleNow, jobsNow), Releases(w, idleNow, jobsNow)
  PROVE  Released(W, P)
<1> USE DEF ReadyToRelease
<1>1. CASE /\ queue = <<>> /\ idle' = [idleNow EXCEPT ![w] = @ + 1]
           /\ jobOf' = jobsNow /\ UNCHANGED <<queue, requests>>
  BY <1>1 DEF TypeOK, Released
<1>2. CASE /\ queue # <<>> /\ queue' = Tail(queue) /\ idle' = idleNow
           /\ jobOf' = [jobsNow EXCEPT ![w] = Head(queue)]
           /\ requests' = [requests EXCEPT ![w] = @ \cup {Head(queue)}]
  <2>1. /\ queue \in Seq(Jobs) /\ Head(queue) \in Jobs /\ Tail(queue) \in Seq(Jobs)
        /\ Head(queue) # NoJob
    BY <1>2, JobsAssumption DEF TypeOK
  <2>2. Placement(queue', jobOf', W, P)
    BY <1>2, <2>1, PlacementHandOver
  <2>3. jobOf'[w] # NoJob /\ \A v \in Workers \ {w} : jobOf'[v] = jobsNow[v]
    BY <1>2, <2>1
  <2>4. jobOf' \in [Workers -> Jobs \cup {NoJob}] /\ requests' \in [Workers -> SUBSET Jobs]
    BY <1>2, <2>1 DEF TypeOK
  <2>5. \A v \in Workers : idle'[v] = IF v \in W /\ jobOf'[v] = NoJob THEN 1 ELSE 0
    BY <1>2, <2>3
  <2> QED
    BY <1>2, <2>1, <2>2, <2>3, <2>4, <2>5 DEF Released
<1> QED
  BY <1>1, <1>2 DEF Releases

------------------------------------------------------------------------------
(* The inductive invariant *)

\* The initial state satisfies the invariant.
LEMMA InitInv == Init => Inv
<1> SUFFICES ASSUME Init PROVE Inv
  OBVIOUS
<1>1. TypeOK
  <2>1. queue \in Seq(Jobs)
    BY DEF Init
  <2>2. workers \in SUBSET Workers /\ inbox \in [Workers -> SUBSET (Jobs \X BOOLEAN)]
    BY DEF Init
  <2> QED
    BY <2>1, <2>2 DEF Init, TypeOK
<1>2. WorkConserving /\ NoThreadLeaks
  BY DEF Init, WorkConserving, NoThreadLeaks
<1>3. PoolInv
  BY FS_EmptySet DEF Init, PoolInv
<1>4. JobsAccounted
  BY DEF Init, JobsAccounted, Placement, Pending
<1> QED
  BY <1>1, <1>3, <1>4, <1>2 DEF Inv

\* decode() after terminate() changes one promise only.
LEMMA RefusedStep == ASSUME Inv, NEW j \in Jobs, DecodeRefused(j) PROVE Inv'
<1>1. Pending' = Pending /\ outcome' \in [Jobs -> {"none", "pending", "resolved", "rejected"}]
  BY DEF DecodeRefused, Settle, Pending, Inv, TypeOK
<1> QED
  BY <1>1 DEF DecodeRefused, Inv, TypeOK, PoolInv, JobsAccounted, WorkConserving, NoThreadLeaks,
              poolVars, threadVars

\* The pool before its start.
LEMMA Unstarted ==
  ASSUME Inv, ~started
  PROVE  /\ workers = {} /\ queue = <<>>
         /\ jobOf = [w \in Workers |-> NoJob]
         /\ Pending = {}
         /\ \A w \in Workers : thread[w] \notin {"up", "crashed"} \/ terminated
<1>1. workers = {} /\ queue = <<>>
  BY DEF Inv, PoolInv
<1>2. Pending = {}
  BY <1>1 DEF Inv, JobsAccounted, Placement
<1> QED
  BY <1>1, <1>2 DEF Inv, PoolInv, TypeOK, NoThreadLeaks

\* The first decode() gives its job to one of the new threads.
LEMMA StartsStep == ASSUME Inv, NEW j \in Jobs, DecodeStarts(j) PROVE Inv'
<1>1. PICK spawned \in SUBSET Unspawned :
      \E w \in spawned :
        /\ workers' = spawned
        /\ idle' = [v \in Workers |-> IF v \in spawned \ {w} THEN 1 ELSE 0]
        /\ thread' = [v \in Workers |-> IF v \in spawned THEN "up" ELSE thread[v]]
        /\ jobOf' = [jobOf EXCEPT ![w] = j]
        /\ requests' = [requests EXCEPT ![w] = @ \cup {j}]
  BY DEF DecodeStarts
<1>2. PICK w \in spawned :
        /\ workers' = spawned
        /\ idle' = [v \in Workers |-> IF v \in spawned \ {w} THEN 1 ELSE 0]
        /\ thread' = [v \in Workers |-> IF v \in spawned THEN "up" ELSE thread[v]]
        /\ jobOf' = [jobOf EXCEPT ![w] = j]
        /\ requests' = [requests EXCEPT ![w] = @ \cup {j}]
  BY <1>1
<1>3. spawned \subseteq Workers /\ IsFiniteSet(spawned)
  BY WorkersAssumption, FS_Subset DEF Unspawned
<1>4. /\ workers = {} /\ queue = <<>> /\ jobOf = [v \in Workers |-> NoJob] /\ Pending = {}
      /\ \A v \in Workers : thread[v] \notin {"up", "crashed"}
  BY Unstarted DEF DecodeStarts
<1>5. started' = TRUE /\ ~terminated /\ terminated' = terminated /\ queue' = queue /\ inbox' = inbox
  BY DEF DecodeStarts
<1>6. Pending' = {j} /\ outcome' \in [Jobs -> {"none", "pending", "resolved", "rejected"}]
  BY <1>4, SettleEffect DEF DecodeStarts, Inv
<1>7. TypeOK'
  BY <1>2, <1>3, <1>4, <1>5, <1>6 DEF Inv, TypeOK
<1>8. JobsAccounted'
  <2>1. Placement(queue, jobOf, spawned, {})
    BY <1>4, <1>3 DEF Placement
  <2>2. Placement(queue, [jobOf EXCEPT ![w] = j], spawned, {} \cup {j})
    BY <1>3, <1>4, <2>1, PlacementGive DEF Inv, TypeOK
  <2> QED
    BY <1>2, <1>5, <1>6, <2>2 DEF JobsAccounted
<1>9. jobOf'[w] = j /\ j # NoJob /\ \A v \in Workers \ {w} : jobOf'[v] = NoJob
  BY <1>2, <1>3, <1>4, JobsAssumption
<1>10. WorkConserving'
  BY <1>2, <1>3, <1>4, <1>5, <1>9 DEF WorkConserving
<1>11. PoolInv' /\ NoThreadLeaks'
  BY <1>2, <1>3, <1>4, <1>5, <1>9 DEF PoolInv, NoThreadLeaks
<1> QED
  BY <1>7, <1>8, <1>10, <1>11 DEF Inv

\* A pool that starts with too few threads has no job yet.
LEMMA ThrowsStep == ASSUME Inv, NEW j \in Jobs, DecodeThrows(j) PROVE Inv'
<1>1. PICK spawned \in SUBSET Unspawned :
        /\ workers' = spawned
        /\ idle' = [v \in Workers |-> IF v \in spawned THEN 1 ELSE 0]
        /\ thread' = [v \in Workers |-> IF v \in spawned THEN "up" ELSE thread[v]]
  BY DEF DecodeThrows
<1>2. spawned \subseteq Workers /\ IsFiniteSet(spawned)
  BY WorkersAssumption, FS_Subset DEF Unspawned
<1>3. /\ workers = {} /\ queue = <<>> /\ jobOf = [v \in Workers |-> NoJob] /\ Pending = {}
      /\ \A v \in Workers : thread[v] \notin {"up", "crashed"}
  BY Unstarted DEF DecodeThrows
<1>4. /\ started' = TRUE /\ ~terminated
      /\ UNCHANGED <<terminated, queue, jobOf, requests, inbox>>
  BY DEF DecodeThrows
<1>5. Pending' = {} /\ outcome' \in [Jobs -> {"none", "pending", "resolved", "rejected"}]
  BY <1>3, SettleEffect DEF DecodeThrows, Inv
<1>6. TypeOK'
  BY <1>1, <1>2, <1>3, <1>4, <1>5 DEF Inv, TypeOK
<1>7. JobsAccounted'
  BY <1>1, <1>2, <1>3, <1>4, <1>5 DEF JobsAccounted, Placement
<1>8. WorkConserving' /\ PoolInv' /\ NoThreadLeaks'
  BY <1>1, <1>2, <1>3, <1>4 DEF WorkConserving, PoolInv, NoThreadLeaks
<1> QED
  BY <1>6, <1>7, <1>8 DEF Inv

\* decode() hands the job to an idle thread.
LEMMA DispatchedStep == ASSUME Inv, NEW j \in Jobs, DecodeDispatched(j) PROVE Inv'
<1>1. PICK w \in Workers :
        /\ idle[w] > 0
        /\ idle' = [idle EXCEPT ![w] = @ - 1]
        /\ jobOf' = [jobOf EXCEPT ![w] = j]
        /\ requests' = [requests EXCEPT ![w] = @ \cup {j}]
  BY DEF DecodeDispatched
<1>2. w \in workers /\ jobOf[w] = NoJob /\ idle[w] = 1 /\ queue = <<>>
  BY <1>1 DEF Inv, WorkConserving
<1>3. UNCHANGED <<started, terminated, workers, queue, thread, inbox>> /\ j \notin Pending
  BY DEF DecodeDispatched, Pending
<1>4. Pending' = Pending \cup {j} /\ outcome' \in [Jobs -> {"none", "pending", "resolved", "rejected"}]
  BY SettleEffect DEF DecodeDispatched, Inv
<1>5. TypeOK'
  BY <1>1, <1>2, <1>3, <1>4 DEF Inv, TypeOK
<1>6. JobsAccounted'
  BY <1>1, <1>2, <1>3, <1>4, PlacementGive DEF Inv, TypeOK, JobsAccounted
<1>7. jobOf'[w] = j /\ j # NoJob /\ \A v \in Workers \ {w} : jobOf'[v] = jobOf[v]
  BY <1>1, JobsAssumption DEF Inv, TypeOK
<1>8. idle'[w] = 0 /\ \A v \in Workers \ {w} : idle'[v] = idle[v]
  BY <1>1, <1>2 DEF Inv, TypeOK
<1>9. WorkConserving'
  BY <1>2, <1>3, <1>7, <1>8 DEF Inv, WorkConserving
<1>10. PoolInv' /\ NoThreadLeaks'
  BY <1>2, <1>3, <1>7 DEF Inv, PoolInv, NoThreadLeaks
<1> QED
  BY <1>5, <1>6, <1>9, <1>10 DEF Inv

\* decode() queues the job when no thread is idle.
LEMMA QueuedStep == ASSUME Inv, NEW j \in Jobs, DecodeQueued(j) PROVE Inv'
<1>1. /\ queue' = Append(queue, j) /\ started /\ ~terminated
      /\ UNCHANGED <<started, terminated, workers, idle, jobOf, thread, requests, inbox>>
      /\ j \notin Pending
  BY DEF DecodeQueued, threadVars, Pending
<1>2. Pending' = Pending \cup {j} /\ outcome' \in [Jobs -> {"none", "pending", "resolved", "rejected"}]
  BY SettleEffect DEF DecodeQueued, Inv
<1>3. TypeOK'
  BY <1>1, <1>2 DEF Inv, TypeOK
<1>4. JobsAccounted'
  BY <1>1, <1>2, PlacementAppend DEF Inv, TypeOK, JobsAccounted
<1>5. \A w \in workers : jobOf[w] # NoJob
  BY DEF DecodeQueued, Inv, WorkConserving, TypeOK
<1>6. WorkConserving'
  BY <1>1, <1>5 DEF Inv, WorkConserving
<1>7. PoolInv' /\ NoThreadLeaks'
  BY <1>1 DEF Inv, PoolInv, NoThreadLeaks
<1> QED
  BY <1>3, <1>4, <1>6, <1>7 DEF Inv

\* A thread's answer changes only what is under way to the pool.
LEMMA AnswersStep == ASSUME Inv, NEW w \in Workers, NEW j \in Jobs, Answers(w, j) PROVE Inv'
<1>1. /\ requests' = [requests EXCEPT ![w] = @ \ {j}]
      /\ \E ok \in BOOLEAN : inbox' = [inbox EXCEPT ![w] = @ \cup {<<j, ok>>}]
      /\ UNCHANGED <<started, terminated, workers, idle, queue, jobOf, outcome, thread>>
  BY DEF Answers, poolVars
<1>2. TypeOK'
  BY <1>1 DEF Inv, TypeOK
<1> QED
  BY <1>1, <1>2 DEF Inv, PoolInv, JobsAccounted, Pending, WorkConserving, NoThreadLeaks

\* A thread that dies is still the pool's until its error event.
LEMMA CrashesStep == ASSUME Inv, NEW w \in Workers, Crashes(w) PROVE Inv'
<1>1. /\ thread[w] = "up" /\ thread' = [thread EXCEPT ![w] = "crashed"]
      /\ UNCHANGED <<started, terminated, workers, idle, queue, jobOf, outcome, requests, inbox>>
  BY DEF Crashes, poolVars
<1>2. TypeOK' /\ thread'[w] = "crashed" /\ \A v \in Workers \ {w} : thread'[v] = thread[v]
  BY <1>1 DEF Inv, TypeOK
<1>3. w \in workers
  BY <1>1 DEF Inv, NoThreadLeaks
<1>4. PoolInv' /\ NoThreadLeaks'
  BY <1>1, <1>2, <1>3 DEF Inv, PoolInv, NoThreadLeaks, TypeOK
<1> QED
  BY <1>1, <1>2, <1>4 DEF Inv, JobsAccounted, Pending, WorkConserving

\* An answer frees its thread, which takes the next job; a late one does nothing.
LEMMA MessageStep == ASSUME Inv, NEW w \in Workers, Message(w) PROVE Inv'
<1>1. PICK j \in Jobs, ok \in BOOLEAN :
        /\ inbox' = [inbox EXCEPT ![w] = @ \ {<<j, ok>>}]
        /\ \/ /\ jobOf[w] # j
              /\ UNCHANGED <<poolVars, outcome, thread, requests>>
           \/ /\ jobOf[w] = j
              /\ Settle(j, IF ok THEN "resolved" ELSE "rejected")
              /\ Releases(w, idle, [jobOf EXCEPT ![w] = NoJob])
              /\ UNCHANGED <<started, terminated, workers, thread>>
  BY DEF Message
<1>2. inbox' \in [Workers -> SUBSET (Jobs \X BOOLEAN)]
  BY <1>1 DEF Inv, TypeOK
<1>3. CASE UNCHANGED <<poolVars, outcome, thread, requests>>
  BY <1>2, <1>3 DEF Inv, TypeOK, PoolInv, JobsAccounted, Pending, WorkConserving, NoThreadLeaks,
                    poolVars
<1>4. CASE /\ jobOf[w] = j
           /\ Settle(j, IF ok THEN "resolved" ELSE "rejected")
           /\ Releases(w, idle, [jobOf EXCEPT ![w] = NoJob])
           /\ UNCHANGED <<started, terminated, workers, thread>>
  <2> DEFINE jobsNow == [jobOf EXCEPT ![w] = NoJob]
  <2>1. w \in workers /\ ~terminated /\ started /\ j # NoJob
    BY <1>4, JobsAssumption DEF Inv, PoolInv
  <2>2. Pending' = Pending \ {j} /\ outcome' \in [Jobs -> {"none", "pending", "resolved", "rejected"}]
    BY <1>4, SettleEffect DEF Inv
  <2>3. /\ jobsNow \in [Workers -> Jobs \cup {NoJob}] /\ jobsNow[w] = NoJob
        /\ \A v \in Workers \ {w} : jobsNow[v] = jobOf[v]
    BY DEF Inv, TypeOK
  <2>4. Placement(queue, jobsNow, workers, Pending \ {j})
    BY <1>4, <2>1, PlacementFree DEF Inv, TypeOK, JobsAccounted
  <2>5. Releases(w, idle, jobsNow)
    BY <1>4
  <2> HIDE DEF jobsNow
  <2>6. \A v \in Workers : idle[v] = IF v \in workers \ {w} /\ jobsNow[v] = NoJob THEN 1 ELSE 0
    BY <1>4, <2>1, <2>3 DEF Inv, WorkConserving
  <2>7. /\ \A v \in Workers \ workers : jobsNow[v] = NoJob
        /\ queue # <<>> => \A v \in workers \ {w} : jobsNow[v] # NoJob
    BY <2>3 DEF Inv, PoolInv, WorkConserving, TypeOK
  <2>8. idle \in [Workers -> Nat] /\ workers \in SUBSET Workers /\ TypeOK
    BY DEF Inv, TypeOK
  <2>9. ReadyToRelease(w, workers, Pending \ {j}, idle, jobsNow)
    BY <2>1, <2>3, <2>4, <2>6, <2>7, <2>8 DEF ReadyToRelease
  <2>10. Released(workers, Pending \ {j})
    BY <2>5, <2>8, <2>9, ReleasesEffect
  <2>11. TypeOK'
    BY <1>2, <1>4, <2>2, <2>10 DEF Inv, TypeOK, Released
  <2>12. JobsAccounted' /\ WorkConserving'
    BY <1>4, <2>2, <2>10 DEF JobsAccounted, WorkConserving, Released
  <2>13. PoolInv' /\ NoThreadLeaks'
    BY <1>4, <2>1, <2>10 DEF Inv, PoolInv, NoThreadLeaks, Released
  <2> QED
    BY <2>11, <2>12, <2>13 DEF Inv
<1> QED
  BY <1>1, <1>3, <1>4

\* A dead thread's job is rejected and its replacement takes the next job.
LEMMA ReplacesStep == ASSUME Inv, NEW w \in Workers, ErrorReplaces(w) PROVE Inv'
<1> DEFINE jobsNow == [jobOf EXCEPT ![w] = NoJob]
           idleNow == [idle EXCEPT ![w] = 0]
<1>1. PICK fresh \in Unspawned :
        /\ workers' = (workers \ {w}) \cup {fresh}
        /\ thread' = [thread EXCEPT ![w] = "gone", ![fresh] = "up"]
        /\ Releases(fresh, idleNow, jobsNow)
  BY DEF ErrorReplaces
<1>2. /\ thread[w] = "crashed" /\ ~terminated /\ w \in workers /\ started
      /\ terminated' = terminated /\ started' = started /\ inbox' = inbox
  BY DEF ErrorReplaces, Inv, PoolInv
<1>3. fresh \in Workers /\ thread[fresh] = "none" /\ fresh \notin workers /\ fresh # w
  BY <1>2 DEF Unspawned, Inv, PoolInv
<1>4. /\ Pending' = Pending \ {jobOf[w]}
      /\ outcome' \in [Jobs -> {"none", "pending", "resolved", "rejected"}]
  BY RejectsEffect DEF ErrorReplaces, Inv
<1>5. /\ jobsNow \in [Workers -> Jobs \cup {NoJob}] /\ jobsNow[w] = NoJob
      /\ \A v \in Workers \ {w} : jobsNow[v] = jobOf[v]
  BY DEF Inv, TypeOK
<1>6. jobsNow[fresh] = NoJob
  BY <1>3, <1>5 DEF Inv, PoolInv
<1>7. /\ idleNow \in [Workers -> Nat] /\ idleNow[w] = 0
      /\ \A v \in Workers \ {w} : idleNow[v] = idle[v]
  BY DEF Inv, TypeOK
<1>8. Placement(queue, jobsNow, workers, Pending \ {jobOf[w]})
  BY <1>2, PlacementFree DEF Inv, TypeOK, JobsAccounted
<1> HIDE DEF jobsNow, idleNow
<1> DEFINE W == (workers \ {w}) \cup {fresh}
<1>9. Placement(queue, jobsNow, W, Pending \ {jobOf[w]})
  BY <1>5, <1>6, <1>8, PlacementReplace DEF Inv, TypeOK
<1>10. /\ W \in SUBSET Workers /\ fresh \in W /\ TypeOK
       /\ \A v \in Workers \ W : jobsNow[v] = NoJob
       /\ queue # <<>> => \A v \in W \ {fresh} : jobsNow[v] # NoJob
  BY <1>3, <1>5 DEF Inv, TypeOK, PoolInv, WorkConserving
<1>11. \A v \in Workers : idleNow[v] = IF v \in W \ {fresh} /\ jobsNow[v] = NoJob THEN 1 ELSE 0
  BY <1>3, <1>5, <1>7 DEF Inv, WorkConserving
<1>12. IsFiniteSet(W)
  BY FS_AddElement, FS_RemoveElement DEF Inv, PoolInv
<1>13. workers' = W /\ Releases(fresh, idleNow, jobsNow)
  BY <1>1
<1> HIDE DEF W
<1>14. ReadyToRelease(fresh, W, Pending \ {jobOf[w]}, idleNow, jobsNow)
  BY <1>5, <1>6, <1>7, <1>9, <1>10, <1>11 DEF ReadyToRelease
<1>15. Released(W, Pending \ {jobOf[w]})
  BY <1>10, <1>13, <1>14, ReleasesEffect
<1>16. /\ thread' \in [Workers -> {"none", "up", "crashed", "gone"}]
       /\ thread'[w] = "gone" /\ thread'[fresh] = "up"
       /\ \A v \in Workers \ {w, fresh} : thread'[v] = thread[v]
  BY <1>1, <1>3 DEF Inv, TypeOK
<1>17. TypeOK'
  BY <1>2, <1>4, <1>10, <1>13, <1>15, <1>16 DEF Inv, TypeOK, Released
<1>18. JobsAccounted' /\ WorkConserving'
  BY <1>4, <1>13, <1>15 DEF JobsAccounted, WorkConserving, Released
<1>19. \A v \in Workers : v \in W <=> v = fresh \/ (v \in workers /\ v # w)
  BY <1>3 DEF W
<1>20. \A v \in Workers : /\ v \in W => thread'[v] \in {"up", "crashed"}
                          /\ thread'[v] \in {"up", "crashed"} => v \in W
  BY <1>2, <1>3, <1>16, <1>19 DEF Inv, PoolInv, NoThreadLeaks
<1>21. PoolInv' /\ NoThreadLeaks'
  BY <1>2, <1>10, <1>12, <1>13, <1>15, <1>20 DEF PoolInv, NoThreadLeaks, Released
<1> QED
  BY <1>17, <1>18, <1>21 DEF Inv

\* After terminate() there is no job left to reject.
LEMMA IgnoredStep == ASSUME Inv, NEW w \in Workers, ErrorIgnored(w) PROVE Inv'
<1>1. /\ thread[w] = "crashed" /\ terminated /\ workers = {} /\ queue = <<>> /\ workers' = {}
      /\ idle' = [idle EXCEPT ![w] = 0] /\ jobOf' = [jobOf EXCEPT ![w] = NoJob]
      /\ thread' = [thread EXCEPT ![w] = "gone"]
      /\ UNCHANGED <<started, terminated, queue, requests, inbox>>
  BY DEF ErrorIgnored, Inv, PoolInv
<1>2. jobOf' = jobOf /\ jobOf[w] = NoJob /\ idle' = idle
  BY <1>1 DEF Inv, TypeOK, PoolInv, WorkConserving
<1>3. /\ Pending' = Pending
      /\ outcome' \in [Jobs -> {"none", "pending", "resolved", "rejected"}]
  BY <1>2, RejectsEffect, JobsAssumption DEF ErrorIgnored, Inv, Pending
<1>4. TypeOK' /\ \A v \in Workers : thread'[v] = "up" => thread[v] = "up"
  BY <1>1, <1>2, <1>3 DEF Inv, TypeOK
<1>5. JobsAccounted'
  BY <1>1, <1>2, <1>3 DEF Inv, JobsAccounted
<1> QED
  BY <1>1, <1>2, <1>4, <1>5, FS_EmptySet DEF Inv, PoolInv, WorkConserving, NoThreadLeaks

\* terminate() rejects exactly the jobs that are placed somewhere.
LEMMA TerminateStep == ASSUME Inv, TerminateCalled PROVE Inv'
<1>1. /\ terminated' = TRUE /\ queue' = <<>> /\ workers' = {}
      /\ idle' = [w \in Workers |-> 0]
      /\ jobOf' = [w \in Workers |-> IF w \in workers THEN NoJob ELSE jobOf[w]]
      /\ thread' = [w \in Workers |-> IF w \in workers /\ thread[w] = "up"
                                      THEN "gone" ELSE thread[w]]
      /\ UNCHANGED <<started, requests, inbox>>
  BY DEF TerminateCalled
<1>2. /\ outcome' \in [Jobs -> {"none", "pending", "resolved", "rejected"}]
      /\ \A j \in Jobs : outcome'[j] # "pending"
  <2>1. \A j \in Pending : \/ \E i \in DOMAIN queue : queue[i] = j
                           \/ \E w \in workers : jobOf[w] = j
    BY DEF Inv, JobsAccounted, Placement
  <2> QED
    BY <2>1 DEF TerminateCalled, Inv, TypeOK, Pending
<1>3. TypeOK'
  BY <1>1, <1>2 DEF Inv, TypeOK
<1>4. JobsAccounted'
  BY <1>1, <1>2 DEF JobsAccounted, Placement, Pending
<1>5. WorkConserving' /\ NoThreadLeaks'
  BY <1>1 DEF Inv, TypeOK, WorkConserving, NoThreadLeaks
<1>6. PoolInv'
  BY <1>1, FS_EmptySet DEF Inv, PoolInv
<1> QED
  BY <1>3, <1>4, <1>5, <1>6 DEF Inv

\* Every step preserves the invariant.
LEMMA StepInv == Inv /\ [Next]_vars => Inv'
<1> SUFFICES ASSUME Inv, [Next]_vars PROVE Inv'
  OBVIOUS
<1>1. ASSUME NEW j \in Jobs, DecodeCalled(j) PROVE Inv'
  BY <1>1, RefusedStep, StartsStep, ThrowsStep, DispatchedStep, QueuedStep DEF DecodeCalled
<1>2. ASSUME NEW w \in Workers,
             \/ Crashes(w) \/ Message(w) \/ ErrorReplaces(w) \/ ErrorIgnored(w)
             \/ \E j \in Jobs : Answers(w, j)
      PROVE  Inv'
  BY <1>2, CrashesStep, MessageStep, ReplacesStep, IgnoredStep, AnswersStep
<1>3. CASE TerminateCalled
  BY <1>3, TerminateStep
<1>4. CASE UNCHANGED vars
  BY <1>4 DEF Inv, TypeOK, PoolInv, JobsAccounted, Pending, WorkConserving, NoThreadLeaks,
              vars, poolVars, threadVars
<1> QED
  BY <1>1, <1>2, <1>3, <1>4 DEF Next

\* The inductive invariant holds in every reachable state.
THEOREM Invariance == Spec => []Inv
BY InitInv, StepInv, PTL DEF Spec

\* Every variable keeps its type.
THEOREM TypeCorrectness == Spec => []TypeOK
<1>1. Inv => TypeOK
  BY DEF Inv
<1> QED
  BY Invariance, <1>1, PTL

\* No job is lost or handed out twice.
THEOREM NoJobLost == Spec => []JobsAccounted
<1>1. Inv => JobsAccounted
  BY DEF Inv
<1> QED
  BY Invariance, <1>1, PTL

\* The idle threads are exactly those without a job, and no job waits for one.
THEOREM NoIdleWhileQueued == Spec => []WorkConserving
<1>1. Inv => WorkConserving
  BY DEF Inv
<1> QED
  BY Invariance, <1>1, PTL

\* Every running thread is one that terminate() would stop.
THEOREM ThreadsOwned == Spec => []NoThreadLeaks
<1>1. Inv => NoThreadLeaks
  BY DEF Inv
<1> QED
  BY Invariance, <1>1, PTL

\* A pool that runs keeps its number of threads.
THEOREM SizeKept == Spec => PoolKeepsSize
<1> DEFINE Keeps == started /\ ~terminated' => Cardinality(workers') = Cardinality(workers)
<1>1. ASSUME Inv, Next PROVE Keeps
  <2>1. ASSUME NEW w \in Workers, ErrorReplaces(w) PROVE Keeps
    <3>1. PICK fresh \in Unspawned : workers' = (workers \ {w}) \cup {fresh}
      BY <2>1 DEF ErrorReplaces
    <3>2. w \in workers /\ fresh \notin workers /\ IsFiniteSet(workers)
      BY <1>1, <2>1 DEF ErrorReplaces, Inv, PoolInv, Unspawned
    <3>3. Cardinality(workers \ {w}) = Cardinality(workers) - 1 /\ IsFiniteSet(workers \ {w})
      BY <3>2, FS_RemoveElement
    <3>4. Cardinality((workers \ {w}) \cup {fresh}) = Cardinality(workers \ {w}) + 1
      BY <3>2, <3>3, FS_AddElement
    <3>5. Cardinality(workers) \in Nat
      BY <3>2, FS_CardinalityType
    <3> QED
      BY <3>1, <3>3, <3>4, <3>5
  <2>2. ASSUME NEW j \in Jobs, DecodeCalled(j) PROVE Keeps
    BY <2>2 DEF DecodeCalled, DecodeRefused, DecodeStarts, DecodeThrows, DecodeDispatched,
                DecodeQueued, poolVars
  <2>3. ASSUME NEW w \in Workers,
               Crashes(w) \/ Message(w) \/ \E j \in Jobs : Answers(w, j)
        PROVE  Keeps
    BY <2>3 DEF Crashes, Message, Answers, poolVars
  <2>4. ASSUME NEW w \in Workers, ErrorIgnored(w) PROVE Keeps
    <3>1. terminated /\ terminated' = terminated
      BY <2>4 DEF ErrorIgnored
    <3>2. terminated'
      BY <3>1
    <3> QED
      BY <3>2
  <2>5. ASSUME TerminateCalled PROVE Keeps
    BY <2>5 DEF TerminateCalled
  <2> QED
    BY <1>1, <2>1, <2>2, <2>3, <2>5, <2>4 DEF Next
<1>2. Inv /\ [Next]_vars => [Keeps]_vars
  BY <1>1
<1> QED
  BY Invariance, <1>2, PTL DEF Spec, PoolKeepsSize

\* The pool implements the service its callers see.
THEOREM ServiceImplemented == Spec => ServiceSpec
<1> DEFINE Same == UNCHANGED <<outcome, terminated>>
<1>1. Init => Service!Init
  BY DEF Init, Service!Init
<1>2. ASSUME Inv, Next PROVE Service!Next \/ Same
  <2>1. ASSUME NEW j \in Jobs, DecodeCalled(j) PROVE Service!Submit(j)
    BY <2>1 DEF DecodeCalled, DecodeRefused, DecodeStarts, DecodeThrows, DecodeDispatched,
                DecodeQueued, poolVars, Settle, Service!Submit
  <2>2. ASSUME NEW w \in Workers, Message(w)
        PROVE  Same \/ \E j \in Jobs : Service!Reply(j)
    <3>1. PICK j \in Jobs, ok \in BOOLEAN :
            \/ UNCHANGED <<terminated, outcome>>
            \/ /\ jobOf[w] = j /\ Settle(j, IF ok THEN "resolved" ELSE "rejected")
               /\ UNCHANGED terminated
      BY <2>2 DEF Message, poolVars
    <3>2. CASE /\ jobOf[w] = j /\ Settle(j, IF ok THEN "resolved" ELSE "rejected")
               /\ UNCHANGED terminated
      <4>1. outcome[j] = "pending"
        BY <1>2, <3>2, JobsAssumption DEF Inv, PoolInv, JobsAccounted, Placement, Pending
      <4> QED
        BY <3>2, <4>1 DEF Settle, Service!Reply
    <3> QED
      BY <3>1, <3>2
  <2>3. ASSUME NEW w \in Workers, ErrorReplaces(w) \/ ErrorIgnored(w)
        PROVE  Same \/ \E j \in Jobs : Service!Reply(j)
    <3>1. RejectsJobOf(w) /\ terminated' = terminated /\ outcome = [j \in Jobs |-> outcome[j]]
      BY <1>2, <2>3 DEF ErrorReplaces, ErrorIgnored, Inv, TypeOK
    <3>2. CASE jobOf[w] = NoJob
      BY <3>1, <3>2, JobsAssumption DEF RejectsJobOf
    <3>3. CASE jobOf[w] # NoJob
      <4>1. jobOf[w] \in Jobs /\ outcome[jobOf[w]] = "pending"
        BY <1>2, <3>3 DEF Inv, TypeOK, PoolInv, JobsAccounted, Placement, Pending
      <4>2. outcome' = [outcome EXCEPT ![jobOf[w]] = "rejected"]
        BY <3>1, <4>1 DEF RejectsJobOf
      <4> QED
        BY <3>1, <4>1, <4>2 DEF Service!Reply
    <3> QED
      BY <3>2, <3>3
  <2>4. ASSUME NEW w \in Workers, Crashes(w) \/ \E j \in Jobs : Answers(w, j)
        PROVE  Same
    BY <2>4 DEF Crashes, Answers, poolVars
  <2>5. ASSUME TerminateCalled PROVE Service!Close
    <3>1. \A j \in Jobs : outcome[j] = "pending" <=>
            \/ \E i \in DOMAIN queue : queue[i] = j
            \/ \E w \in workers : jobOf[w] = j
      BY <1>2, JobsAssumption DEF Inv, JobsAccounted, Placement, Pending
    <3>2. outcome' = [j \in Jobs |-> IF outcome[j] = "pending" THEN "rejected" ELSE outcome[j]]
      BY <2>5, <3>1 DEF TerminateCalled
    <3> QED
      BY <2>5, <3>2 DEF TerminateCalled, Service!Close, Service!Pending
  <2> QED
    BY <1>2, <2>1, <2>2, <2>3, <2>4, <2>5 DEF Next, Service!Next
<1>3. Inv /\ [Next]_vars => [Service!Next]_<<outcome, ~terminated>>
  <2>1. UNCHANGED vars => Same
    BY DEF vars, poolVars
  <2> QED
    BY <1>2, <2>1
<1> QED
  BY Invariance, <1>1, <1>3, PTL DEF Spec, ServiceSpec, Service!Spec
==============================================================================
