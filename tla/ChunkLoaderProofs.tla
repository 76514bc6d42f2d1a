-------------------------- MODULE ChunkLoaderProofs --------------------------
(***************************************************************************)
(* Theorems about ChunkLoader and its byte limiter, for every set of       *)
(* reads, every number and cost of their tasks and every capacity.         *)
(***************************************************************************)
EXTENDS ChunkLoader, FiniteSetTheorems, TLAPS

------------------------------------------------------------------------------
(* The size of a set of reservations *)

\* A task is a task of its read.
LEMMA TaskTypes ==
  /\ \A t \in Tasks : ReadOf(t) \in Reads /\ t \in TasksOf(ReadOf(t)) /\ t[2] \in Nat
  /\ \A r \in Reads : TasksOf(r) \subseteq Tasks
  /\ \A r \in Reads : \A t \in TasksOf(r) : ReadOf(t) = r /\ t[2] \in 1..Chunks[r]
<1>1. \A r \in Reads : Chunks[r] \in Nat
  BY ReadsAssumption
<1>2. \A r \in Reads : \A t \in TasksOf(r) : ReadOf(t) = r /\ t[2] \in 1..Chunks[r]
  BY DEF TasksOf, ReadOf
<1>3. \A r \in Reads : TasksOf(r) \subseteq Tasks
  BY DEF TasksOf, Tasks
<1>4. ASSUME NEW t \in Tasks
      PROVE  ReadOf(t) \in Reads /\ t \in TasksOf(ReadOf(t)) /\ t[2] \in Nat
  <2>1. PICK r \in Reads : t \in {r} \X (1..Chunks[r])
    BY DEF Tasks
  <2>2. t \in TasksOf(r)
    BY <2>1 DEF TasksOf
  <2>3. ReadOf(t) = r /\ t[2] \in 1..Chunks[r]
    BY <2>2, <1>2
  <2> QED
    BY <2>1, <2>2, <2>3, <1>1
<1> QED
  BY <1>2, <1>3, <1>4

\* There are finitely many tasks.
LEMMA TasksFinite == IsFiniteSet(Tasks)
<1> DEFINE F == [r \in Reads |-> {r} \X (1..Chunks[r])]
           Family == {F[r] : r \in Reads}
<1>1. IsFiniteSet(Family)
  <2>1. F \in Surjection(Reads, Family)
    BY DEF Surjection
  <2> QED
    BY <2>1, ReadsAssumption, FS_Surjection
<1>2. \A r \in Reads : IsFiniteSet(F[r])
  <2> TAKE r \in Reads
  <2>1. IsFiniteSet({r})
    BY FS_Singleton
  <2>2. IsFiniteSet(1..Chunks[r])
    BY ReadsAssumption, FS_Interval
  <2>3. IsFiniteSet({r} \X (1..Chunks[r]))
    BY <2>1, <2>2, FS_Product
  <2> QED
    BY <2>3
<1>3. \A S \in Family : IsFiniteSet(S)
  BY <1>2
<1>4. IsFiniteSet(UNION Family)
  BY <1>1, <1>3, FS_UNION
<1>5. Tasks = UNION Family
  BY DEF Tasks
<1> QED
  BY <1>4, <1>5

\* A clamped cost fits the capacity.
LEMMA ClampType == \A t \in Tasks : Clamp(t) \in 0..Capacity
BY CostAssumption, BoundsAssumption DEF Clamp

\* A set of tasks reserves finitely many bytes.
LEMMA BytesFinite ==
  ASSUME NEW S \in SUBSET Tasks
  PROVE  IsFiniteSet(Bytes(S)) /\ Size(S) \in Nat
<1>1. IsFiniteSet(S)
  BY TasksFinite, FS_Subset
<1>2. IsFiniteSet(1..Capacity)
  BY BoundsAssumption, FS_Interval
<1>3. IsFiniteSet(S \X (1..Capacity))
  BY <1>1, <1>2, FS_Product
<1>4. Bytes(S) \in SUBSET (S \X (1..Capacity))
  BY DEF Bytes
<1>5. IsFiniteSet(Bytes(S))
  BY <1>3, <1>4, FS_Subset
<1> QED
  BY <1>5, FS_CardinalityType DEF Size

\* No task reserves nothing.
LEMMA SizeEmpty == Size({}) = 0
<1>1. Bytes({}) = {}
  BY DEF Bytes
<1> QED
  BY <1>1, FS_EmptySet DEF Size

\* Disjoint sets of tasks reserve disjoint bytes.
LEMMA SizeUnion ==
  ASSUME NEW S \in SUBSET Tasks, NEW T \in SUBSET Tasks, S \cap T = {}
  PROVE  Size(S \cup T) = Size(S) + Size(T)
<1>1. IsFiniteSet(Bytes(S)) /\ IsFiniteSet(Bytes(T))
  BY BytesFinite
<1>2. Bytes(S \cup T) = Bytes(S) \cup Bytes(T)
  BY DEF Bytes
<1>3. Bytes(S) \cap Bytes(T) = {}
  BY DEF Bytes
<1>4. Cardinality(Bytes(S) \cap Bytes(T)) = 0
  BY <1>3, FS_EmptySet
<1>5. Cardinality(Bytes(S) \cup Bytes(T)) =
        Cardinality(Bytes(S)) + Cardinality(Bytes(T)) - Cardinality(Bytes(S) \cap Bytes(T))
  BY <1>1, FS_Union
<1>6. Size(S) \in Nat /\ Size(T) \in Nat
  BY BytesFinite
<1> QED
  BY <1>2, <1>4, <1>5, <1>6 DEF Size

\* A task reserves its clamped cost.
LEMMA SizeOne == ASSUME NEW t \in Tasks PROVE Size({t}) = Clamp(t)
<1>1. Clamp(t) \in 0..Capacity
  BY ClampType
<1>2. Bytes({t}) = {t} \X (1..Clamp(t))
  <2>1. ASSUME NEW b PROVE b \in Bytes({t}) <=> b \in {t} \X (1..Clamp(t))
    BY <1>1, BoundsAssumption DEF Bytes
  <2> QED
    BY <2>1
<1>3. IsFiniteSet({t}) /\ Cardinality({t}) = 1
  BY FS_Singleton
<1>4. IsFiniteSet(1..Clamp(t)) /\ Cardinality(1..Clamp(t)) = Clamp(t)
  BY <1>1, FS_Interval
<1>5. Cardinality({t} \X (1..Clamp(t))) = Cardinality({t}) * Cardinality(1..Clamp(t))
  BY <1>3, <1>4, FS_Product
<1>6. Cardinality({t} \X (1..Clamp(t))) = 1 * Clamp(t)
  BY <1>3, <1>4, <1>5
<1>7. 1 * Clamp(t) = Clamp(t)
  BY <1>1, BoundsAssumption
<1> QED
  BY <1>2, <1>6, <1>7 DEF Size

------------------------------------------------------------------------------
(* The limiter *)

\* release() gives back what the task reserved, hands it on in queue order and
\* stops at a waiter that does not fit.
LEMMA EndsEffect ==
  ASSUME TypeOK, QueueInv, BudgetExact,
         NEW t \in Tasks, pc[t] \in Holding,
         NEW how \in {"returned", "threw"}, Ends(t, how)
  PROVE  /\ available' \in 0..Capacity
         /\ waiters' \in Seq(Tasks)
         /\ pc' \in [Tasks -> Pcs]
         /\ pc'[t] = how
         /\ \A u \in Tasks \ {t} :
              pc'[u] = pc[u] \/ (pc[u] = "queued" /\ pc'[u] = "granted")
         /\ QueueInv'
         /\ BudgetExact'
<1>1. PICK k \in 0..Len(waiters) :
        /\ Release(t, k)
        /\ pc' = [u \in Tasks |-> IF u = t THEN how
                                  ELSE IF u \in FirstWaiters(k) THEN "granted" ELSE pc[u]]
  BY DEF Ends
<1> DEFINE W == FirstWaiters(k)
           Rest == Holders \ {t}
<1>2. waiters \in Seq(Tasks) /\ Len(waiters) \in Nat /\ k \in Nat /\ k <= Len(waiters)
  BY DEF TypeOK
<1>3. \A i \in 1..Len(waiters) : waiters[i] \in Tasks /\ pc[waiters[i]] = "queued"
  BY <1>2 DEF QueueInv
<1>4. W \subseteq Tasks /\ \A u \in W : pc[u] = "queued"
  BY <1>2, <1>3 DEF FirstWaiters
<1>5. t \in Holders /\ t \notin W /\ Holders \subseteq Tasks /\ W \cap Rest = {}
  BY <1>4 DEF Holders, Holding
<1>6. Holders' = Rest \cup W
  <2>1. ASSUME NEW u \in Tasks
        PROVE  pc'[u] \in Holding <=> u \in Rest \/ u \in W
    BY <1>1, <1>4, <1>5 DEF Holders, Holding
  <2> QED
    BY <2>1, <1>4 DEF Holders
<1>7. Size(Holders) = Size(Rest) + Clamp(t)
  <2>1. Size(Rest \cup {t}) = Size(Rest) + Size({t})
    BY <1>5, SizeUnion
  <2>2. Rest \cup {t} = Holders
    BY <1>5
  <2> QED
    BY <2>1, <2>2, SizeOne
<1>8. Size(Holders') = Size(Rest) + Size(W)
  BY <1>4, <1>5, <1>6, SizeUnion
<1>9. Size(Rest) \in Nat /\ Size(W) \in Nat /\ Clamp(t) \in Nat /\ Capacity \in Nat
  BY <1>4, <1>5, BytesFinite, ClampType, BoundsAssumption
<1> HIDE DEF W, Rest
<1>10. available \in Nat /\ available + Clamp(t) = Capacity - Size(Rest)
  BY <1>7, <1>9 DEF BudgetExact, TypeOK
<1>11. /\ Size(W) <= available + Clamp(t)
       /\ available' = available + Clamp(t) - Size(W)
       /\ k < Len(waiters) => Size(FirstWaiters(k + 1)) > available + Clamp(t)
       /\ waiters' = SubSeq(waiters, k + 1, Len(waiters))
  <2>1. ~(available + Clamp(t) > Capacity)
    BY <1>9, <1>10
  <2> DEFINE free == IF available + Clamp(t) > Capacity THEN Capacity ELSE available + Clamp(t)
  <2>2. free = available + Clamp(t)
    BY <2>1
  <2>3. /\ Size(FirstWaiters(k)) <= free
        /\ k < Len(waiters) => Size(FirstWaiters(k + 1)) > free
        /\ available' = free - Size(FirstWaiters(k))
        /\ waiters' = SubSeq(waiters, k + 1, Len(waiters))
    BY <1>1 DEF Release
  <2> HIDE DEF free
  <2>4. W = FirstWaiters(k)
    BY DEF W
  <2>5. Size(W) <= free /\ available' = free - Size(W)
    BY <2>3, <2>4
  <2>6. Size(W) <= available + Clamp(t) /\ available' = available + Clamp(t) - Size(W)
    BY <2>2, <2>5, <1>9, <1>10
  <2>7. k < Len(waiters) => Size(FirstWaiters(k + 1)) > available + Clamp(t)
    BY <2>2, <2>3
  <2> QED
    BY <2>3, <2>6, <2>7
<1>12. available' \in 0..Capacity /\ available' + Size(Holders') = Capacity
  BY <1>8, <1>9, <1>10, <1>11
<1>13. BudgetExact'
  BY <1>12 DEF BudgetExact
<1>14. /\ waiters' \in Seq(Tasks) /\ Len(waiters') = Len(waiters) - k
       /\ \A i \in 1..(Len(waiters) - k) : waiters'[i] = waiters[k + i]
  BY <1>2, <1>11
<1>15. \A u \in Tasks : pc'[u] = "queued" <=> pc[u] = "queued" /\ u \notin W
  BY <1>1, <1>4, <1>5 DEF Holders, Holding, W
<1>16. ASSUME NEW u \in Tasks
       PROVE  pc'[u] = "queued" <=> \E i \in 1..Len(waiters') : waiters'[i] = u
  <2>1. ASSUME pc'[u] = "queued"
        PROVE  \E i \in 1..Len(waiters') : waiters'[i] = u
    <3>1. PICK j \in 1..Len(waiters) : waiters[j] = u
      BY <2>1, <1>15 DEF QueueInv
    <3>2. j > k
      BY <2>1, <3>1, <1>2, <1>15 DEF W, FirstWaiters
    <3>3. j - k \in 1..Len(waiters') /\ waiters'[j - k] = u
      BY <3>1, <3>2, <1>2, <1>14
    <3> QED
      BY <3>3
  <2>2. ASSUME NEW i \in 1..Len(waiters'), waiters'[i] = u
        PROVE  pc'[u] = "queued"
    <3>1. k + i \in 1..Len(waiters) /\ waiters[k + i] = u
      BY <2>2, <1>2, <1>14
    <3>2. u \notin W
      BY <3>1, <1>2 DEF W, FirstWaiters, QueueInv
    <3> QED
      BY <3>1, <3>2, <1>3, <1>15
  <2> QED
    BY <2>1, <2>2
<1>17. ASSUME NEW i \in 1..Len(waiters'), NEW j \in 1..Len(waiters'), waiters'[i] = waiters'[j]
       PROVE  i = j
  <2>1. /\ k + i \in 1..Len(waiters) /\ waiters'[i] = waiters[k + i]
        /\ k + j \in 1..Len(waiters) /\ waiters'[j] = waiters[k + j]
    BY <1>2, <1>14
  <2>2. \A m, n \in 1..Len(waiters) : waiters[m] = waiters[n] => m = n
    BY DEF QueueInv
  <2>3. waiters[k + i] = waiters[k + j]
    BY <2>1, <1>17
  <2>4. k + i = k + j
    BY <2>1, <2>2, <2>3
  <2> QED
    BY <2>4, <1>2
<1>18. ASSUME waiters' # <<>> PROVE available' < Clamp(waiters'[1])
  <2>1. Len(waiters') >= 1
    BY <1>18, <1>14
  <2>2. k + 1 \in 1..Len(waiters) /\ waiters'[1] = waiters[k + 1]
    BY <2>1, <1>2, <1>14
  <2> DEFINE head == waiters[k + 1]
  <2>3. FirstWaiters(k + 1) = W \cup {head}
    <3>1. 1..(k + 1) = (1..k) \cup {k + 1}
      BY <1>2
    <3> QED
      BY <3>1 DEF W, FirstWaiters
  <2>4. head \in Tasks /\ head \notin W
    BY <2>2, <1>2, <1>3 DEF W, FirstWaiters, QueueInv
  <2>5. Size(W \cup {head}) = Size(W) + Size({head})
    BY <2>4, <1>4, SizeUnion DEF W
  <2>6. Size({head}) = Clamp(head) /\ Clamp(head) \in Nat
    BY <2>4, SizeOne, ClampType, BoundsAssumption
  <2> HIDE DEF head
  <2>7. k < Len(waiters)
    BY <2>2, <1>2
  <2>8. Size(FirstWaiters(k + 1)) = Size(W) + Clamp(head)
    BY <2>3, <2>5, <2>6
  <2>9. Size(W) + Clamp(head) > available + Clamp(t)
    BY <2>7, <2>8, <1>11
  <2> QED
    BY <2>2, <2>6, <2>9, <1>9, <1>10, <1>11 DEF head
<1>19. QueueInv'
  BY <1>16, <1>17, <1>18 DEF QueueInv
<1>20. /\ pc' \in [Tasks -> Pcs]
       /\ pc'[t] = how
       /\ \A u \in Tasks \ {t} :
            pc'[u] = pc[u] \/ (pc[u] = "queued" /\ pc'[u] = "granted")
  BY <1>1, <1>4 DEF TypeOK, Pcs, W
<1> QED
  BY <1>12, <1>13, <1>14, <1>19, <1>20

\* A step that leaves the limiter alone, and who waits and who holds, keeps its
\* invariants.
LEMMA LimiterFrame ==
  ASSUME QueueInv, BudgetExact, UNCHANGED limiterVars,
         \A u \in Tasks : pc'[u] = "queued" <=> pc[u] = "queued",
         \A u \in Tasks : pc'[u] \in Holding <=> pc[u] \in Holding
  PROVE  QueueInv' /\ BudgetExact'
<1>1. Holders' = Holders
  BY DEF Holders
<1>2. BudgetExact'
  BY <1>1 DEF BudgetExact, limiterVars
<1>3. QueueInv'
  BY DEF QueueInv, limiterVars
<1> QED
  BY <1>2, <1>3

------------------------------------------------------------------------------
(* The actions preserve the invariant *)

\* Launching a task concerns no read that has settled.
LEMMA LaunchesEffect ==
  ASSUME Inv, NEW t \in Tasks, NEW to \in Pcs \ {"todo", "done"}, Launches(t, to)
  PROVE  /\ pc[t] = "todo" /\ pc'[t] = to /\ \A u \in Tasks \ {t} : pc'[u] = pc[u]
         /\ ~failed[ReadOf(t)] /\ failed' = failed /\ missing' = missing
         /\ pc' \in [Tasks -> Pcs] /\ index' \in [Reads -> Nat]
         /\ UNCHANGED <<firstError, outcome, call>>
         /\ LaunchInv' /\ SettleInv'
<1> DEFINE r == ReadOf(t)
<1>1. /\ r \in Reads /\ t[2] \in 1..Chunks[r] /\ Chunks[r] \in Nat
      /\ index \in [Reads -> Nat] /\ pc \in [Tasks -> Pcs]
  BY TaskTypes, ReadsAssumption DEF Inv, TypeOK
<1>2. /\ t[2] = index[r] + 1 /\ ~failed[r]
      /\ index' = [index EXCEPT ![r] = t[2]]
      /\ pc' = [pc EXCEPT ![t] = to]
      /\ UNCHANGED <<failed, firstError, outcome, call, missing>>
  BY DEF Launches
<1>3. pc[t] = "todo"
  BY <1>1, <1>2 DEF Inv, LaunchInv
<1>4. pc'[t] = to /\ (\A u \in Tasks \ {t} : pc'[u] = pc[u]) /\ pc' \in [Tasks -> Pcs]
  BY <1>1, <1>2
<1>5. /\ index'[r] = t[2] /\ (\A q \in Reads \ {r} : index'[q] = index[q])
      /\ index' \in [Reads -> Nat]
  BY <1>1, <1>2
<1>6. outcome[r] = "running"
  BY <1>1, <1>2 DEF Inv, SettleInv
<1>7. ASSUME NEW u \in Tasks
      PROVE  pc'[u] = "todo" <=> u[2] > index'[ReadOf(u)]
  <2>1. /\ ReadOf(u) \in Reads /\ u[2] \in Nat
        /\ pc[u] = "todo" <=> u[2] > index[ReadOf(u)]
    BY TaskTypes DEF Inv, LaunchInv
  <2>2. CASE u = t
    BY <2>2, <1>1, <1>4, <1>5
  <2>3. CASE u # t /\ ReadOf(u) # r
    BY <2>1, <2>3, <1>4, <1>5
  <2>4. CASE u # t /\ ReadOf(u) = r
    <3>1. u[2] # t[2]
      BY <2>4, TaskTypes DEF ReadOf, TasksOf
    <3> QED
      BY <2>1, <2>4, <3>1, <1>1, <1>2, <1>4, <1>5
  <2> QED
    BY <2>2, <2>3, <2>4
<1>8. LaunchInv'
  <2>1. \A q \in Reads : index'[q] <= Chunks[q]
    BY <1>1, <1>5 DEF Inv, LaunchInv
  <2> QED
    BY <2>1, <1>7 DEF LaunchInv
<1>9. ASSUME NEW q \in Reads, outcome'[q] # "running"
      PROVE  /\ InFlight(q)' = {}
             /\ failed'[q] \/ index'[q] = Chunks[q]
             /\ outcome'[q] = "resolved" => ~failed'[q]
  <2>1. outcome[q] # "running" /\ q # r
    BY <1>2, <1>6, <1>9
  <2>2. /\ InFlight(q) = {} /\ (failed[q] \/ index[q] = Chunks[q])
        /\ outcome[q] = "resolved" => ~failed[q]
    BY <2>1 DEF Inv, SettleInv
  <2>3. \A u \in TasksOf(q) : u \in Tasks /\ pc'[u] = pc[u]
    BY <2>1, <1>4, TaskTypes
  <2>4. InFlight(q)' = {}
    BY <2>2, <2>3 DEF InFlight, TasksOf
  <2> QED
    BY <2>1, <2>2, <2>4, <1>2, <1>5
<1>10. call' # "running" => \A q \in Reads : outcome'[q] # "running"
  BY <1>2 DEF Inv, SettleInv
<1>11. SettleInv'
  BY <1>9, <1>10 DEF SettleInv
<1> QED
  BY <1>2, <1>3, <1>4, <1>5, <1>8, <1>11

\* A task that is launched has no output yet that the invariant restricts.
LEMMA LaunchOutput ==
  ASSUME Inv, NEW t \in Tasks, NEW to \in Pcs \ {"todo", "done"}, Launches(t, to),
         delivered \subseteq delivered', to = "returned" => t \in delivered'
  PROVE  OutputInv'
<1>1. /\ pc[t] = "todo" /\ pc'[t] = to /\ \A u \in Tasks \ {t} : pc'[u] = pc[u]
      /\ ~failed[ReadOf(t)] /\ failed' = failed /\ missing' = missing
  BY LaunchesEffect
<1>2. OutputInv
  BY DEF Inv
<1>3. ASSUME NEW u \in Tasks, ~failed'[ReadOf(u)]
      PROVE  /\ pc'[u] \in {"returned", "done"} => u \in delivered' \cup missing'
             /\ Strict /\ u \in missing' => pc'[u] = "threw"
  <2>1. CASE u = t
    BY <2>1, <1>1, <1>2, <1>3 DEF OutputInv
  <2>2. CASE u # t
    BY <2>2, <1>1, <1>2, <1>3 DEF OutputInv
  <2> QED
    BY <2>1, <2>2
<1> QED
  BY <1>3 DEF OutputInv

\* LaunchHit preserves the inductive invariant.
LEMMA LaunchHitStep ==
  ASSUME Inv, NEW t \in Tasks, LaunchHit(t)
  PROVE  Inv'
<1>1. Launches(t, "returned") /\ delivered' = delivered \cup {t} /\ UNCHANGED limiterVars
  BY DEF LaunchHit
<1>2. "returned" \in Pcs \ {"todo", "done"}
  BY DEF Pcs
<1>3. /\ pc[t] = "todo" /\ pc'[t] = "returned" /\ (\A u \in Tasks \ {t} : pc'[u] = pc[u])
      /\ failed' = failed /\ missing' = missing
      /\ pc' \in [Tasks -> Pcs] /\ index' \in [Reads -> Nat]
      /\ UNCHANGED <<firstError, outcome, call>>
      /\ LaunchInv' /\ SettleInv'
  BY <1>1, <1>2, LaunchesEffect
<1>4. OutputInv'
  BY <1>1, <1>2, LaunchOutput
<1>5. QueueInv' /\ BudgetExact'
  BY <1>1, <1>3, LimiterFrame DEF Inv, Holding
<1>6. TypeOK'
  BY <1>1, <1>3 DEF Inv, TypeOK, limiterVars
<1> QED
  BY <1>3, <1>4, <1>5, <1>6 DEF Inv

\* LaunchHitThrows preserves the inductive invariant.
LEMMA LaunchHitThrowsStep ==
  ASSUME Inv, NEW t \in Tasks, LaunchHitThrows(t)
  PROVE  Inv'
<1>1. Launches(t, "threw") /\ delivered' = delivered /\ UNCHANGED limiterVars
  BY DEF LaunchHitThrows
<1>2. "threw" \in Pcs \ {"todo", "done"}
  BY DEF Pcs
<1>3. /\ pc[t] = "todo" /\ pc'[t] = "threw" /\ (\A u \in Tasks \ {t} : pc'[u] = pc[u])
      /\ failed' = failed /\ missing' = missing
      /\ pc' \in [Tasks -> Pcs] /\ index' \in [Reads -> Nat]
      /\ UNCHANGED <<firstError, outcome, call>>
      /\ LaunchInv' /\ SettleInv'
  BY <1>1, <1>2, LaunchesEffect
<1>4. OutputInv'
  BY <1>1, <1>2, LaunchOutput
<1>5. QueueInv' /\ BudgetExact'
  BY <1>1, <1>3, LimiterFrame DEF Inv, Holding
<1>6. TypeOK'
  BY <1>1, <1>3 DEF Inv, TypeOK, limiterVars
<1> QED
  BY <1>3, <1>4, <1>5, <1>6 DEF Inv

\* LaunchAdmitted preserves the inductive invariant: the budget had room for the
\* task, and if anybody waits the task reserves nothing.
LEMMA LaunchAdmittedStep ==
  ASSUME Inv, NEW t \in Tasks, LaunchAdmitted(t)
  PROVE  Inv'
<1>1. /\ Launches(t, "granted") /\ delivered' = delivered
      /\ Clamp(t) = 0 \/ (waiters = <<>> /\ available >= Clamp(t))
      /\ available' = available - Clamp(t) /\ waiters' = waiters
  BY DEF LaunchAdmitted, Reserve, Admits
<1>2. "granted" \in Pcs \ {"todo", "done"}
  BY DEF Pcs
<1>3. /\ pc[t] = "todo" /\ pc'[t] = "granted" /\ (\A u \in Tasks \ {t} : pc'[u] = pc[u])
      /\ failed' = failed /\ missing' = missing
      /\ pc' \in [Tasks -> Pcs] /\ index' \in [Reads -> Nat]
      /\ UNCHANGED <<firstError, outcome, call>>
      /\ LaunchInv' /\ SettleInv'
  BY <1>1, <1>2, LaunchesEffect
<1>4. OutputInv'
  BY <1>1, <1>2, LaunchOutput
<1>5. Clamp(t) \in 0..Capacity /\ available \in 0..Capacity /\ Capacity \in Nat
  BY ClampType, BoundsAssumption DEF Inv, TypeOK
<1>6. available' \in 0..Capacity
  BY <1>1, <1>5
<1>7. BudgetExact'
  <2>1. Holders' = Holders \cup {t} /\ t \notin Holders /\ Holders \subseteq Tasks
    BY <1>3 DEF Holders, Holding
  <2>2. Size(Holders \cup {t}) = Size(Holders) + Size({t})
    BY <2>1, SizeUnion
  <2>3. Size({t}) = Clamp(t) /\ Size(Holders) \in Nat
    BY <2>1, SizeOne, BytesFinite
  <2>4. available + Size(Holders) = Capacity
    BY DEF Inv, BudgetExact
  <2>5. available' + Size(Holders') = Capacity
    BY <2>1, <2>2, <2>3, <2>4, <1>1, <1>5
  <2> QED
    BY <2>5 DEF BudgetExact
<1>8. QueueInv'
  <2>1. \A u \in Tasks : pc'[u] = "queued" <=> pc[u] = "queued"
    BY <1>3
  <2>2. waiters # <<>> => available' = available
    BY <1>1, <1>5
  <2> QED
    BY <2>1, <2>2, <1>1 DEF Inv, QueueInv
<1>9. TypeOK'
  BY <1>1, <1>3, <1>6 DEF Inv, TypeOK
<1> QED
  BY <1>3, <1>4, <1>7, <1>8, <1>9 DEF Inv

\* LaunchQueued preserves the inductive invariant: the task is new in the queue,
\* and if it is the first one it does not fit.
LEMMA LaunchQueuedStep ==
  ASSUME Inv, NEW t \in Tasks, LaunchQueued(t)
  PROVE  Inv'
<1>1. /\ Launches(t, "queued") /\ delivered' = delivered
      /\ Clamp(t) # 0 /\ (waiters = <<>> => ~(available >= Clamp(t)))
      /\ available' = available /\ waiters' = Append(waiters, t)
  BY DEF LaunchQueued, Enqueue, Admits
<1>2. "queued" \in Pcs \ {"todo", "done"}
  BY DEF Pcs
<1>3. /\ pc[t] = "todo" /\ pc'[t] = "queued" /\ (\A u \in Tasks \ {t} : pc'[u] = pc[u])
      /\ failed' = failed /\ missing' = missing
      /\ pc' \in [Tasks -> Pcs] /\ index' \in [Reads -> Nat]
      /\ UNCHANGED <<firstError, outcome, call>>
      /\ LaunchInv' /\ SettleInv'
  BY <1>1, <1>2, LaunchesEffect
<1>4. OutputInv'
  BY <1>1, <1>2, LaunchOutput
<1>5. /\ Clamp(t) \in 0..Capacity /\ available \in 0..Capacity /\ Capacity \in Nat
      /\ waiters \in Seq(Tasks) /\ QueueInv
  BY ClampType, BoundsAssumption DEF Inv, TypeOK
<1>6. BudgetExact'
  <2>1. Holders' = Holders
    BY <1>3 DEF Holders, Holding
  <2> QED
    BY <2>1, <1>1 DEF Inv, BudgetExact
<1> DEFINE n == Len(waiters)
<1>7. /\ n \in Nat /\ Len(waiters') = n + 1 /\ waiters' \in Seq(Tasks)
      /\ (\A i \in 1..n : waiters'[i] = waiters[i]) /\ waiters'[n + 1] = t
      /\ waiters = <<>> <=> n = 0
  BY <1>1, <1>5
<1>8. \A i \in 1..n : waiters[i] # t
  BY <1>3, <1>5 DEF QueueInv
<1> HIDE DEF n
<1>9. ASSUME NEW u \in Tasks
      PROVE  pc'[u] = "queued" <=> \E i \in 1..Len(waiters') : waiters'[i] = u
  <2>1. CASE u = t
    <3>1. n + 1 \in 1..Len(waiters') /\ waiters'[n + 1] = u
      BY <2>1, <1>7
    <3> QED
      BY <2>1, <3>1, <1>3
  <2>2. CASE u # t
    <3>1. pc'[u] = "queued" <=> \E i \in 1..n : waiters[i] = u
      BY <2>2, <1>3, <1>5 DEF QueueInv, n
    <3>2. (\E i \in 1..n : waiters[i] = u) <=> \E i \in 1..Len(waiters') : waiters'[i] = u
      BY <2>2, <1>7
    <3> QED
      BY <3>1, <3>2
  <2> QED
    BY <2>1, <2>2
<1>10. ASSUME NEW i \in 1..Len(waiters'), NEW j \in 1..Len(waiters'), waiters'[i] = waiters'[j]
       PROVE  i = j
  <2>1. \A k, m \in 1..n : waiters[k] = waiters[m] => k = m
    BY <1>5 DEF QueueInv, n
  <2>2. (i \in 1..n \/ i = n + 1) /\ (j \in 1..n \/ j = n + 1)
    BY <1>7
  <2> QED
    BY <2>1, <2>2, <1>7, <1>8, <1>10
<1>11. available' < Clamp(waiters'[1])
  <2>1. CASE n = 0
    BY <2>1, <1>1, <1>5, <1>7
  <2>2. CASE n # 0
    <3>1. waiters'[1] = waiters[1] /\ waiters # <<>>
      BY <2>2, <1>7
    <3> QED
      BY <3>1, <1>1, <1>5 DEF QueueInv
  <2> QED
    BY <2>1, <2>2
<1>12. QueueInv'
  BY <1>9, <1>10, <1>11 DEF QueueInv
<1>13. TypeOK'
  BY <1>1, <1>3, <1>7 DEF Inv, TypeOK
<1> QED
  BY <1>3, <1>4, <1>6, <1>12, <1>13 DEF Inv

\* A task that gives its reservation back is in flight, so its read has not
\* settled; the other tasks only move within the same read's flight.
LEMMA EndsFrame ==
  ASSUME Inv, NEW t \in Tasks, pc[t] \in Holding,
         NEW how \in {"returned", "threw"}, Ends(t, how)
  PROVE  /\ pc' \in [Tasks -> Pcs] /\ available' \in 0..Capacity /\ waiters' \in Seq(Tasks)
         /\ pc'[t] = how
         /\ \A u \in Tasks \ {t} :
              pc'[u] = pc[u] \/ (pc[u] = "queued" /\ pc'[u] = "granted")
         /\ UNCHANGED readVars
         /\ QueueInv' /\ BudgetExact' /\ LaunchInv' /\ SettleInv'
<1>1. /\ pc' \in [Tasks -> Pcs] /\ available' \in 0..Capacity /\ waiters' \in Seq(Tasks)
      /\ pc'[t] = how
      /\ \A u \in Tasks \ {t} :
           pc'[u] = pc[u] \/ (pc[u] = "queued" /\ pc'[u] = "granted")
      /\ QueueInv' /\ BudgetExact'
  BY EndsEffect DEF Inv
<1>2. UNCHANGED readVars
  BY DEF Ends
<1>3. \A u \in Tasks : /\ pc'[u] = "todo" <=> pc[u] = "todo"
                       /\ pc'[u] \in {"todo", "done"} <=> pc[u] \in {"todo", "done"}
  <2> TAKE u \in Tasks
  <2>1. CASE u = t
    BY <2>1, <1>1 DEF Holding
  <2>2. CASE u # t
    BY <2>2, <1>1
  <2> QED
    BY <2>1, <2>2
<1>4. LaunchInv'
  BY <1>2, <1>3 DEF Inv, LaunchInv, readVars
<1>5. \A q \in Reads : InFlight(q)' = InFlight(q)
  BY <1>3, TaskTypes DEF InFlight, TasksOf
<1>6. SettleInv'
  BY <1>2, <1>5 DEF Inv, SettleInv, readVars
<1> QED
  BY <1>1, <1>2, <1>4, <1>6

\* What is left of the invariant after a task gave its reservation back.
LEMMA EndsInv ==
  ASSUME Inv, NEW t \in Tasks, pc[t] \in Holding,
         NEW how \in {"returned", "threw"}, Ends(t, how),
         delivered' \in SUBSET Tasks, missing' \in SUBSET Tasks,
         delivered \subseteq delivered', missing \subseteq missing',
         missing' \subseteq missing \cup {t},
         ~failed[ReadOf(t)] => /\ how = "returned" => t \in delivered' \cup missing'
                               /\ Strict /\ t \in missing' => how = "threw"
  PROVE  Inv'
<1>1. /\ pc' \in [Tasks -> Pcs] /\ available' \in 0..Capacity /\ waiters' \in Seq(Tasks)
      /\ pc'[t] = how
      /\ \A u \in Tasks \ {t} :
           pc'[u] = pc[u] \/ (pc[u] = "queued" /\ pc'[u] = "granted")
      /\ UNCHANGED readVars
      /\ QueueInv' /\ BudgetExact' /\ LaunchInv' /\ SettleInv'
  BY EndsFrame
<1>2. OutputInv /\ failed' = failed
  BY <1>1 DEF Inv, readVars
<1>3. ASSUME NEW u \in Tasks, ~failed'[ReadOf(u)]
      PROVE  /\ pc'[u] \in {"returned", "done"} => u \in delivered' \cup missing'
             /\ Strict /\ u \in missing' => pc'[u] = "threw"
  <2>1. CASE u = t
    BY <2>1, <1>1, <1>2, <1>3
  <2>2. CASE u # t
    <3>1. /\ pc[u] \in {"returned", "done"} => u \in delivered \cup missing
          /\ Strict /\ u \in missing => pc[u] = "threw"
      BY <1>2, <1>3 DEF OutputInv
    <3>2. pc'[u] = pc[u] \/ (pc[u] = "queued" /\ pc'[u] = "granted")
      BY <2>2, <1>1
    <3>3. u \in missing' => u \in missing
      BY <2>2
    <3> QED
      BY <3>1, <3>2, <3>3
  <2> QED
    BY <2>1, <2>2
<1>4. OutputInv'
  BY <1>3 DEF OutputInv
<1>5. TypeOK'
  BY <1>1 DEF Inv, TypeOK, readVars
<1> QED
  BY <1>1, <1>4, <1>5 DEF Inv

\* Nothing can be known to be absent of a task that still holds its reservation.
LEMMA HoldingNotMissing ==
  ASSUME Inv, NEW t \in Tasks, pc[t] \in Holding, ~failed[ReadOf(t)], Strict
  PROVE  t \notin missing
BY DEF Inv, OutputInv, Holding

\* Aborts preserves the inductive invariant.
LEMMA AbortsStep ==
  ASSUME Inv, NEW t \in Tasks, Aborts(t)
  PROVE  Inv'
<1>1. /\ pc[t] \in Holding /\ failed[ReadOf(t)] /\ Ends(t, "returned")
      /\ delivered' = delivered /\ missing' = missing
  BY DEF Aborts, outputVars
<1>2. delivered \in SUBSET Tasks /\ missing \in SUBSET Tasks
  BY DEF Inv, TypeOK
<1> QED
  BY <1>1, <1>2, EndsInv

\* Delivers preserves the inductive invariant.
LEMMA DeliversStep ==
  ASSUME Inv, NEW t \in Tasks, Delivers(t)
  PROVE  Inv'
<1>1. /\ pc[t] \in Holding /\ ~failed[ReadOf(t)] /\ Ends(t, "returned")
      /\ delivered' = delivered \cup {t} /\ missing' = missing
  BY DEF Delivers, Holding
<1>2. delivered \in SUBSET Tasks /\ missing \in SUBSET Tasks
  BY DEF Inv, TypeOK
<1>3. Strict => t \notin missing'
  BY <1>1, HoldingNotMissing
<1> QED
  BY <1>1, <1>2, <1>3, EndsInv

\* FindsNothing preserves the inductive invariant.
LEMMA FindsNothingStep ==
  ASSUME Inv, NEW t \in Tasks, FindsNothing(t)
  PROVE  Inv'
<1> DEFINE how == IF Strict THEN "threw" ELSE "returned"
<1>1. /\ pc[t] \in Holding /\ ~failed[ReadOf(t)] /\ Ends(t, how)
      /\ missing' = missing \cup {t} /\ delivered' = delivered
  BY DEF FindsNothing, Holding
<1>2. delivered \in SUBSET Tasks /\ missing \in SUBSET Tasks
  BY DEF Inv, TypeOK
<1>3. how \in {"returned", "threw"} /\ (Strict => how = "threw")
  OBVIOUS
<1> HIDE DEF how
<1> QED
  BY <1>1, <1>2, <1>3, EndsInv

\* Throws preserves the inductive invariant.
LEMMA ThrowsStep ==
  ASSUME Inv, NEW t \in Tasks, Throws(t)
  PROVE  Inv'
<1>1. /\ pc[t] \in Holding /\ Ends(t, "threw")
      /\ delivered' = delivered /\ missing' = missing
  BY DEF Throws, Holding, outputVars
<1>2. delivered \in SUBSET Tasks /\ missing \in SUBSET Tasks
  BY DEF Inv, TypeOK
<1> QED
  BY <1>1, <1>2, EndsInv

\* A move from one await to the next preserves the inductive invariant.
LEMMA MovesStep ==
  ASSUME Inv, NEW t \in Tasks, NEW from \in Holding, NEW to \in Holding, Moves(t, from, to)
  PROVE  Inv'
<1>1. /\ pc[t] = from /\ pc' = [pc EXCEPT ![t] = to] /\ pc \in [Tasks -> Pcs]
      /\ UNCHANGED limiterVars /\ UNCHANGED readVars /\ UNCHANGED outputVars
  BY DEF Moves, Inv, TypeOK
<1>2. /\ pc' \in [Tasks -> Pcs] /\ pc'[t] = to
      /\ \A u \in Tasks \ {t} : pc'[u] = pc[u]
  BY <1>1 DEF Pcs, Holding
<1>3. \A u \in Tasks :
        /\ \A p \in Pcs \ Holding : pc'[u] = p <=> pc[u] = p
        /\ pc'[u] \in Holding <=> pc[u] \in Holding
  BY <1>1, <1>2
<1>4. {"todo", "queued", "returned", "threw", "done"} \subseteq Pcs \ Holding
  BY DEF Pcs, Holding
<1>5. QueueInv' /\ BudgetExact'
  BY <1>1, <1>3, <1>4, LimiterFrame DEF Inv
<1>6. LaunchInv'
  BY <1>1, <1>3, <1>4 DEF Inv, LaunchInv, readVars
<1>7. \A q \in Reads : InFlight(q)' = InFlight(q)
  BY <1>3, <1>4, TaskTypes DEF InFlight, TasksOf
<1>8. SettleInv'
  BY <1>1, <1>7 DEF Inv, SettleInv, readVars
<1>9. OutputInv'
  BY <1>1, <1>3, <1>4 DEF Inv, OutputInv, readVars, outputVars
<1>10. TypeOK'
  BY <1>1, <1>2 DEF Inv, TypeOK, limiterVars, readVars, outputVars
<1> QED
  BY <1>5, <1>6, <1>8, <1>9, <1>10 DEF Inv

\* HandlerFulfilled preserves the inductive invariant.
LEMMA HandlerFulfilledStep ==
  ASSUME Inv, NEW t \in Tasks, HandlerFulfilled(t)
  PROVE  Inv'
<1>1. /\ pc[t] = "returned" /\ pc' = [pc EXCEPT ![t] = "done"] /\ pc \in [Tasks -> Pcs]
      /\ UNCHANGED limiterVars /\ UNCHANGED readVars /\ UNCHANGED outputVars
  BY DEF HandlerFulfilled, Inv, TypeOK
<1>2. pc' \in [Tasks -> Pcs] /\ pc'[t] = "done" /\ \A u \in Tasks \ {t} : pc'[u] = pc[u]
  BY <1>1 DEF Pcs
<1>3. QueueInv' /\ BudgetExact'
  BY <1>1, <1>2, LimiterFrame DEF Inv, Holding
<1>4. LaunchInv'
  BY <1>1, <1>2 DEF Inv, LaunchInv, readVars
<1>5. \A q \in Reads : InFlight(q)' \subseteq InFlight(q)
  BY <1>1, <1>2, TaskTypes DEF InFlight, TasksOf
<1>6. SettleInv'
  BY <1>1, <1>5 DEF Inv, SettleInv, readVars
<1>7. OutputInv'
  BY <1>1, <1>2 DEF Inv, OutputInv, readVars, outputVars
<1>8. TypeOK'
  BY <1>1, <1>2 DEF Inv, TypeOK, limiterVars, readVars, outputVars
<1> QED
  BY <1>3, <1>4, <1>6, <1>7, <1>8 DEF Inv

\* HandlerRejected preserves the inductive invariant: the read it fails has a
\* task in flight, so it has not settled.
LEMMA HandlerRejectedStep ==
  ASSUME Inv, NEW t \in Tasks, HandlerRejected(t)
  PROVE  Inv'
<1> DEFINE r == ReadOf(t)
<1>1. /\ pc[t] = "threw" /\ pc' = [pc EXCEPT ![t] = "done"] /\ pc \in [Tasks -> Pcs]
      /\ failed' = [failed EXCEPT ![r] = TRUE] /\ failed \in [Reads -> BOOLEAN]
      /\ firstError' = [firstError EXCEPT ![r] = IF failed[r] THEN @ ELSE t]
      /\ firstError \in [Reads -> Tasks \cup {NoTask}]
      /\ UNCHANGED limiterVars /\ UNCHANGED <<index, outcome, call>> /\ UNCHANGED outputVars
  BY DEF HandlerRejected, Inv, TypeOK
<1>2. r \in Reads /\ t \in TasksOf(r)
  BY TaskTypes
<1>3. pc' \in [Tasks -> Pcs] /\ pc'[t] = "done" /\ \A u \in Tasks \ {t} : pc'[u] = pc[u]
  BY <1>1 DEF Pcs
<1>4. /\ failed' \in [Reads -> BOOLEAN] /\ failed'[r]
      /\ \A q \in Reads \ {r} : failed'[q] = failed[q]
  BY <1>1, <1>2
<1>5. QueueInv' /\ BudgetExact'
  BY <1>1, <1>3, LimiterFrame DEF Inv, Holding
<1>6. LaunchInv'
  BY <1>1, <1>3 DEF Inv, LaunchInv
<1>7. \A q \in Reads : InFlight(q)' \subseteq InFlight(q)
  BY <1>1, <1>3, TaskTypes DEF InFlight, TasksOf
<1>8. outcome[r] = "running"
  <2>1. t \in InFlight(r)
    BY <1>1, <1>2 DEF InFlight
  <2> QED
    BY <2>1, <1>2 DEF Inv, SettleInv
<1>9. SettleInv'
  BY <1>1, <1>4, <1>7, <1>8 DEF Inv, SettleInv
<1>10. OutputInv'
  <2>1. ASSUME NEW u \in Tasks, ~failed'[ReadOf(u)]
        PROVE  /\ pc'[u] \in {"returned", "done"} => u \in delivered' \cup missing'
               /\ Strict /\ u \in missing' => pc'[u] = "threw"
    <3>1. u # t /\ ~failed[ReadOf(u)]
      BY <2>1, <1>4, TaskTypes
    <3> QED
      BY <3>1, <1>1, <1>3 DEF Inv, OutputInv, outputVars
  <2> QED
    BY <2>1 DEF OutputInv
<1>11. firstError' \in [Reads -> Tasks \cup {NoTask}]
  BY <1>1, <1>2
<1>12. TypeOK'
  BY <1>1, <1>3, <1>4, <1>11 DEF Inv, TypeOK, limiterVars, outputVars
<1> QED
  BY <1>5, <1>6, <1>9, <1>10, <1>12 DEF Inv

\* ReadSettles preserves the inductive invariant.
LEMMA ReadSettlesStep ==
  ASSUME Inv, NEW r \in Reads, ReadSettles(r)
  PROVE  Inv'
<1>1. /\ outcome[r] = "running" /\ (failed[r] \/ index[r] = Chunks[r]) /\ InFlight(r) = {}
      /\ outcome' = [outcome EXCEPT ![r] = IF failed[r] THEN "rejected" ELSE "resolved"]
      /\ outcome \in [Reads -> {"running", "resolved", "rejected"}]
      /\ UNCHANGED limiterVars /\ UNCHANGED <<pc, index, failed, firstError, call>>
      /\ UNCHANGED outputVars
  BY DEF ReadSettles, Inv, TypeOK
<1>2. /\ outcome' \in [Reads -> {"running", "resolved", "rejected"}]
      /\ outcome'[r] = IF failed[r] THEN "rejected" ELSE "resolved"
      /\ \A q \in Reads \ {r} : outcome'[q] = outcome[q]
  BY <1>1
<1>3. QueueInv' /\ BudgetExact'
  BY <1>1, LimiterFrame DEF Inv
<1>4. LaunchInv' /\ OutputInv'
  BY <1>1 DEF Inv, LaunchInv, OutputInv, outputVars
<1>5. \A q \in Reads : InFlight(q)' = InFlight(q)
  BY <1>1 DEF InFlight
<1>6. SettleInv'
  <2>1. ASSUME NEW q \in Reads, outcome'[q] # "running"
        PROVE  /\ InFlight(q)' = {}
               /\ failed'[q] \/ index'[q] = Chunks[q]
               /\ outcome'[q] = "resolved" => ~failed'[q]
    <3>1. CASE q = r
      BY <3>1, <1>1, <1>2, <1>5
    <3>2. CASE q # r
      BY <3>2, <2>1, <1>1, <1>2, <1>5 DEF Inv, SettleInv
    <3> QED
      BY <3>1, <3>2
  <2>2. call' # "running" => \A q \in Reads : outcome'[q] # "running"
    BY <1>1, <1>2 DEF Inv, SettleInv
  <2> QED
    BY <2>1, <2>2 DEF SettleInv
<1>7. TypeOK'
  BY <1>1, <1>2 DEF Inv, TypeOK, limiterVars, outputVars
<1> QED
  BY <1>3, <1>4, <1>6, <1>7 DEF Inv

\* CallSettles preserves the inductive invariant.
LEMMA CallSettlesStep ==
  ASSUME Inv, CallSettles
  PROVE  Inv'
<1>1. /\ \A r \in Reads : outcome[r] # "running"
      /\ call' \in {"rejected", "resolved"}
      /\ UNCHANGED limiterVars /\ UNCHANGED <<pc, index, failed, firstError, outcome>>
      /\ UNCHANGED outputVars
  BY DEF CallSettles
<1>2. QueueInv' /\ BudgetExact'
  BY <1>1, LimiterFrame DEF Inv
<1>3. LaunchInv' /\ OutputInv'
  BY <1>1 DEF Inv, LaunchInv, OutputInv, outputVars
<1>4. \A q \in Reads : InFlight(q)' = InFlight(q)
  BY <1>1 DEF InFlight
<1>5. SettleInv'
  BY <1>1, <1>4 DEF Inv, SettleInv
<1>6. TypeOK'
  BY <1>1 DEF Inv, TypeOK, limiterVars, outputVars
<1> QED
  BY <1>2, <1>3, <1>5, <1>6 DEF Inv

\* A step that changes nothing preserves the inductive invariant.
LEMMA StutterStep ==
  ASSUME Inv, UNCHANGED vars
  PROVE  Inv'
<1>1. /\ UNCHANGED limiterVars /\ UNCHANGED outputVars
      /\ UNCHANGED <<pc, index, failed, firstError, outcome, call>>
  BY DEF vars, readVars
<1>2. QueueInv' /\ BudgetExact'
  BY <1>1, LimiterFrame DEF Inv
<1>3. LaunchInv' /\ OutputInv'
  BY <1>1 DEF Inv, LaunchInv, OutputInv, outputVars
<1>4. \A q \in Reads : InFlight(q)' = InFlight(q)
  BY <1>1 DEF InFlight
<1>5. SettleInv'
  BY <1>1, <1>4 DEF Inv, SettleInv
<1>6. TypeOK'
  BY <1>1 DEF Inv, TypeOK, limiterVars, outputVars
<1> QED
  BY <1>2, <1>3, <1>5, <1>6 DEF Inv

\* The inductive invariant holds initially.
LEMMA InitInv == Init => Inv
<1> SUFFICES ASSUME Init PROVE Inv
  OBVIOUS
<1>1. TypeOK
  BY BoundsAssumption DEF Init, TypeOK, Pcs
<1>2. QueueInv
  BY DEF Init, QueueInv
<1>3. BudgetExact
  <2>1. Holders = {}
    BY DEF Init, Holders, Holding
  <2> QED
    BY <2>1, SizeEmpty, BoundsAssumption DEF Init, BudgetExact
<1>4. LaunchInv
  <2>1. \A t \in Tasks : ReadOf(t) \in Reads /\ t[2] \in Nat /\ t[2] > 0
    BY TaskTypes, ReadsAssumption
  <2> QED
    BY <2>1, ReadsAssumption DEF Init, LaunchInv
<1>5. OutputInv /\ SettleInv
  BY DEF Init, OutputInv, SettleInv
<1> QED
  BY <1>1, <1>2, <1>3, <1>4, <1>5 DEF Inv

\* Every step preserves the inductive invariant.
LEMMA StepInv == Inv /\ [Next]_vars => Inv'
<1> SUFFICES ASSUME Inv, [Next]_vars PROVE Inv'
  OBVIOUS
<1>1. ASSUME NEW t \in Tasks, Launch(t) PROVE Inv'
  BY <1>1, LaunchHitStep, LaunchHitThrowsStep, LaunchAdmittedStep, LaunchQueuedStep DEF Launch
<1>2. ASSUME NEW t \in Tasks, StartsFetch(t) \/ FetchesChunk(t) PROVE Inv'
  <2>1. {"granted", "fetching", "decoding"} \subseteq Holding
    BY DEF Holding
  <2>2. Moves(t, "granted", "fetching") \/ Moves(t, "fetching", "decoding")
    BY <1>2 DEF StartsFetch, FetchesChunk
  <2> QED
    BY <2>1, <2>2, MovesStep
<1>3. ASSUME NEW t \in Tasks, TaskStep(t) PROVE Inv'
  BY <1>2, <1>3, AbortsStep, DeliversStep, FindsNothingStep, ThrowsStep,
     HandlerFulfilledStep, HandlerRejectedStep DEF TaskStep
<1>4. ASSUME NEW r \in Reads, ReadSettles(r) PROVE Inv'
  BY <1>4, ReadSettlesStep
<1>5. CASE CallSettles
  BY <1>5, CallSettlesStep
<1>6. CASE UNCHANGED vars
  BY <1>6, StutterStep
<1> QED
  BY <1>1, <1>3, <1>4, <1>5, <1>6 DEF Next

------------------------------------------------------------------------------
(* Theorems *)

\* The inductive invariant holds in every reachable state.
THEOREM Invariance == Spec => []Inv
BY InitInv, StepInv, PTL DEF Spec

\* Every variable keeps its type: in particular the budget stays between nothing
\* and the capacity.
THEOREM TypeCorrectness == Spec => []TypeOK
<1>1. Inv => TypeOK
  BY DEF Inv
<1> QED
  BY Invariance, <1>1, PTL

\* What is available and what the tasks hold always add up to the capacity.
THEOREM BudgetConserved == Spec => []BudgetExact
<1>1. Inv => BudgetExact
  BY DEF Inv
<1> QED
  BY Invariance, <1>1, PTL

\* The limiter is never stuck: whoever waits does not fit and somebody holds a
\* reservation. An oversized cost is covered because it is clamped.
THEOREM NeverStuck == Spec => []WaitersAreBlocked
<1>1. Inv => WaitersAreBlocked
  <2> SUFFICES ASSUME Inv, waiters # <<>>
               PROVE  available < Clamp(waiters[1]) /\ Holders # {}
    BY DEF WaitersAreBlocked
  <2>1. available < Clamp(waiters[1])
    BY DEF Inv, QueueInv
  <2>2. waiters[1] \in Tasks
    BY DEF Inv, TypeOK
  <2>3. Clamp(waiters[1]) \in 0..Capacity
    BY <2>2, ClampType
  <2>4. Holders # {}
    <3> SUFFICES ASSUME Holders = {} PROVE FALSE
      OBVIOUS
    <3>1. available + 0 = Capacity
      BY SizeEmpty DEF Inv, BudgetExact
    <3> QED
      BY <3>1, <2>1, <2>3, BoundsAssumption DEF Inv, TypeOK
  <2> QED
    BY <2>1, <2>4
<1> QED
  BY Invariance, <1>1, PTL

\* A read settles with nothing in flight, and resolves with every chunk in place.
THEOREM ReadsSettleDrained == Spec => []SettledReads
<1>1. Inv => SettledReads
  <2> SUFFICES ASSUME Inv, NEW r \in Reads
               PROVE  /\ outcome[r] # "running" => InFlight(r) = {}
                      /\ outcome[r] = "resolved" =>
                           /\ TasksOf(r) \subseteq delivered \cup missing
                           /\ Strict => missing \cap TasksOf(r) = {}
    BY DEF SettledReads
  <2>1. outcome[r] # "running" => InFlight(r) = {}
    BY DEF Inv, SettleInv
  <2>2. ASSUME outcome[r] = "resolved", NEW t \in TasksOf(r)
        PROVE  t \in delivered \cup missing /\ (Strict => t \notin missing)
    <3>1. InFlight(r) = {} /\ index[r] = Chunks[r] /\ ~failed[r]
      BY <2>2 DEF Inv, SettleInv
    <3>2. t \in Tasks /\ ReadOf(t) = r /\ t[2] \in 1..Chunks[r] /\ Chunks[r] \in Nat
      BY TaskTypes, ReadsAssumption
    <3>3. pc[t] # "todo"
      BY <3>1, <3>2 DEF Inv, LaunchInv
    <3>4. pc[t] = "done"
      BY <3>1, <3>3 DEF InFlight
    <3> QED
      BY <3>1, <3>2, <3>4 DEF Inv, OutputInv
  <2> QED
    BY <2>1, <2>2
<1> QED
  BY Invariance, <1>1, PTL

\* readMultiple settles with the whole budget returned and nobody waiting.
THEOREM BudgetReturned == Spec => []CallReturnsBudget
<1>1. Inv => CallReturnsBudget
  <2> SUFFICES ASSUME Inv, call # "running"
               PROVE  available = Capacity /\ waiters = <<>>
    BY DEF CallReturnsBudget
  <2>1. \A r \in Reads : InFlight(r) = {}
    BY DEF Inv, SettleInv
  <2>2. \A t \in Tasks : pc[t] \in {"todo", "done"}
    BY <2>1, TaskTypes DEF InFlight
  <2>3. Holders = {}
    BY <2>2 DEF Holders, Holding
  <2>4. available = Capacity
    BY <2>3, SizeEmpty, BoundsAssumption DEF Inv, BudgetExact, TypeOK
  <2>5. waiters = <<>>
    <3>1. waiters \in Seq(Tasks)
      BY DEF Inv, TypeOK
    <3>2. ASSUME waiters # <<>> PROVE FALSE
      <4>1. 1 \in 1..Len(waiters) /\ waiters[1] \in Tasks
        BY <3>1, <3>2
      <4>2. pc[waiters[1]] = "queued"
        BY <4>1 DEF Inv, QueueInv
      <4> QED
        BY <4>1, <4>2, <2>2
    <3> QED
      BY <3>2
  <2> QED
    BY <2>4, <2>5
<1> QED
  BY Invariance, <1>1, PTL

\* Nothing that settles, a read or the whole call, leaves work or a reservation behind.
THEOREM NothingLeftBehind == Spec => []SettledDrained
<1>1. SettledReads /\ CallReturnsBudget => SettledDrained
  BY DEF SettledDrained
<1> QED
  BY <1>1, ReadsSettleDrained, BudgetReturned, PTL

\* Once a read has failed its output and its error are final.
THEOREM FailureIsFinal == Spec => NothingAfterFailure
<1> DEFINE Final(r) == failed[r] => /\ delivered' \cap TasksOf(r) = delivered \cap TasksOf(r)
                                    /\ firstError'[r] = firstError[r]
<1>1. ASSUME Inv, Next, NEW r \in Reads
      PROVE  Final(r)
  <2>1. ASSUME NEW t \in Tasks, Launch(t)
        PROVE  Final(r)
    <3>1. /\ ~failed[ReadOf(t)] /\ firstError' = firstError
          /\ delivered' = delivered \/ delivered' = delivered \cup {t}
      BY <2>1 DEF Launch, LaunchHit, LaunchHitThrows, LaunchAdmitted, LaunchQueued, Launches
    <3>2. failed[r] => t \notin TasksOf(r)
      BY <3>1, TaskTypes
    <3> QED
      BY <3>1, <3>2
  <2>2. ASSUME NEW t \in Tasks, Delivers(t)
        PROVE  Final(r)
    <3>1. /\ ~failed[ReadOf(t)] /\ firstError' = firstError
          /\ delivered' = delivered \cup {t}
      BY <2>2 DEF Delivers, Ends, readVars
    <3>2. failed[r] => t \notin TasksOf(r)
      BY <3>1, TaskTypes
    <3> QED
      BY <3>1, <3>2
  <2>3. ASSUME NEW t \in Tasks, HandlerRejected(t)
        PROVE  Final(r)
    <3>1. /\ firstError' = [firstError EXCEPT ![ReadOf(t)] = IF failed[ReadOf(t)] THEN @ ELSE t]
          /\ delivered' = delivered
          /\ firstError \in [Reads -> Tasks \cup {NoTask}]
      BY <1>1, <2>3 DEF HandlerRejected, outputVars, Inv, TypeOK
    <3>2. failed[r] => firstError'[r] = firstError[r]
      BY <3>1
    <3> QED
      BY <3>1, <3>2
  <2>4. ASSUME NEW t \in Tasks,
               Aborts(t) \/ StartsFetch(t) \/ FetchesChunk(t) \/ FindsNothing(t)
                 \/ Throws(t) \/ HandlerFulfilled(t)
        PROVE  delivered' = delivered /\ firstError' = firstError
    BY <2>4 DEF Aborts, StartsFetch, FetchesChunk, FindsNothing, Throws, HandlerFulfilled,
                Moves, Ends, readVars, outputVars
  <2>5. ASSUME NEW q \in Reads, ReadSettles(q)
        PROVE  delivered' = delivered /\ firstError' = firstError
    BY <2>5 DEF ReadSettles, outputVars
  <2>6. ASSUME CallSettles
        PROVE  delivered' = delivered /\ firstError' = firstError
    BY <2>6 DEF CallSettles, outputVars
  <2>7. ASSUME NEW t \in Tasks, TaskStep(t)
        PROVE  Final(r)
    BY <2>7, <2>2, <2>3, <2>4 DEF TaskStep
  <2> QED
    BY <1>1, <2>1, <2>5, <2>6, <2>7 DEF Next
<1>2. Inv /\ [Next]_vars => [\A r \in Reads : Final(r)]_vars
  BY <1>1
<1> QED
  BY Invariance, <1>2, PTL DEF Spec, NothingAfterFailure

\* A step that moves no reservation is no step of the budget.
LEMMA BudgetStutter ==
  ASSUME waiters' = waiters,
         \A u \in Tasks : pc'[u] \in Holding <=> pc[u] \in Holding
  PROVE  UNCHANGED <<Holders, waiters>>
BY DEF Holders

\* The end of a task is the return of its reservation.
LEMMA EndsReturns ==
  ASSUME Inv, NEW t \in Tasks, pc[t] \in Holding,
         NEW how \in {"returned", "threw"}, Ends(t, how)
  PROVE  \E k \in 0..Len(waiters) : Budget!Return(t, k)
<1>1. PICK k \in 0..Len(waiters) :
        /\ Release(t, k)
        /\ pc' = [u \in Tasks |-> IF u = t THEN how
                                  ELSE IF u \in FirstWaiters(k) THEN "granted" ELSE pc[u]]
  BY DEF Ends
<1>2. waiters \in Seq(Tasks) /\ Len(waiters) \in Nat
  BY DEF Inv, TypeOK
<1>3. FirstWaiters(k) \subseteq Tasks /\ \A u \in FirstWaiters(k) : pc[u] = "queued"
  BY <1>2 DEF FirstWaiters, Inv, QueueInv
<1>4. ASSUME NEW u \in Tasks
      PROVE  pc'[u] \in Holding <=> u \in (Holders \ {t}) \cup FirstWaiters(k)
  BY <1>1, <1>3 DEF Holders, Holding
<1>5. Holders' = (Holders \ {t}) \cup FirstWaiters(k)
  BY <1>3, <1>4 DEF Holders
<1>6. t \in Holders
  BY DEF Holders
<1>7. waiters' = SubSeq(waiters, k + 1, Len(waiters))
  BY <1>1 DEF Release
<1>8. Size(Holders') <= Capacity
  <2>1. available' \in 0..Capacity /\ available' + Size(Holders') = Capacity
    BY EndsFrame DEF BudgetExact
  <2>2. Size(Holders') \in Nat
    BY BytesFinite DEF Holders
  <2> QED
    BY <2>1, <2>2, BoundsAssumption
<1>9. Budget!Return(t, k)
  BY <1>5, <1>6, <1>7, <1>8 DEF Budget!Return, FirstWaiters
<1> QED
  BY <1>9

\* The loader implements the abstract budget: reservations within the capacity,
\* granted in the order they were asked for.
THEOREM BudgetImplemented == Spec => BudgetSpec
<1> DEFINE Stutters == UNCHANGED <<Holders, waiters>>
<1>1. Init => Budget!Init
  BY DEF Init, Budget!Init, Holders, Holding
<1>2. ASSUME Inv, Inv', Next
      PROVE  Budget!Next \/ Stutters
  <2>1. ASSUME NEW t \in Tasks, LaunchHit(t) \/ LaunchHitThrows(t)
        PROVE  Stutters
    <3>1. PICK to \in {"returned", "threw"} : Launches(t, to)
      BY <2>1 DEF LaunchHit, LaunchHitThrows
    <3>2. to \in Pcs \ {"todo", "done"}
      BY DEF Pcs
    <3>3. pc[t] = "todo" /\ pc'[t] = to /\ \A u \in Tasks \ {t} : pc'[u] = pc[u]
      BY <1>2, <3>1, <3>2, LaunchesEffect
    <3>4. \A u \in Tasks : pc'[u] \in Holding <=> pc[u] \in Holding
      BY <3>3 DEF Holding
    <3>5. waiters' = waiters
      BY <2>1 DEF LaunchHit, LaunchHitThrows, limiterVars
    <3> QED
      BY <3>4, <3>5, BudgetStutter
  <2>2. ASSUME NEW t \in Tasks, LaunchAdmitted(t)
        PROVE  Budget!Grant(t)
    <3>1. Launches(t, "granted") /\ "granted" \in Pcs \ {"todo", "done"}
      BY <2>2 DEF LaunchAdmitted, Pcs
    <3>2. pc[t] = "todo" /\ pc'[t] = "granted" /\ \A u \in Tasks \ {t} : pc'[u] = pc[u]
      BY <1>2, <3>1, LaunchesEffect
    <3>3. Holders' = Holders \cup {t}
      BY <3>2 DEF Holders, Holding
    <3>4. (waiters = <<>> \/ Size({t}) = 0) /\ waiters' = waiters
      BY <2>2, SizeOne DEF LaunchAdmitted, Reserve, Admits
    <3>5. Size(Holders') <= Capacity
      <4>1. available' \in 0..Capacity /\ available' + Size(Holders') = Capacity
        BY <1>2 DEF Inv, TypeOK, BudgetExact
      <4>2. Size(Holders') \in Nat
        BY BytesFinite DEF Holders
      <4> QED
        BY <4>1, <4>2, BoundsAssumption
    <3> QED
      BY <3>3, <3>4, <3>5 DEF Budget!Grant
  <2>3. ASSUME NEW t \in Tasks, LaunchQueued(t)
        PROVE  Budget!Wait(t)
    <3>1. Launches(t, "queued") /\ "queued" \in Pcs \ {"todo", "done"}
      BY <2>3 DEF LaunchQueued, Pcs
    <3>2. pc[t] = "todo" /\ pc'[t] = "queued" /\ \A u \in Tasks \ {t} : pc'[u] = pc[u]
      BY <1>2, <3>1, LaunchesEffect
    <3>3. Holders' = Holders /\ t \notin Holders
      BY <3>2 DEF Holders, Holding
    <3>4. waiters' = Append(waiters, t)
      BY <2>3 DEF LaunchQueued, Enqueue
    <3> QED
      BY <3>3, <3>4 DEF Budget!Wait
  <2>4. ASSUME NEW t \in Tasks, Aborts(t) \/ Delivers(t) \/ FindsNothing(t) \/ Throws(t)
        PROVE  \E k \in 0..Len(waiters) : Budget!Return(t, k)
    <3>1. /\ pc[t] \in Holding
          /\ \E how \in {"returned", "threw"} : Ends(t, how)
      BY <2>4 DEF Aborts, Delivers, FindsNothing, Throws, Holding
    <3> QED
      BY <1>2, <3>1, EndsReturns
  <2>5. ASSUME NEW t \in Tasks, StartsFetch(t) \/ FetchesChunk(t)
        PROVE  Stutters
    <3>1. PICK from \in Holding, to \in Holding : Moves(t, from, to)
      BY <2>5 DEF StartsFetch, FetchesChunk, Holding
    <3>2. pc[t] = from /\ pc' = [pc EXCEPT ![t] = to] /\ pc \in [Tasks -> Pcs]
          /\ waiters' = waiters
      BY <1>2, <3>1 DEF Moves, limiterVars, Inv, TypeOK
    <3>3. \A u \in Tasks : pc'[u] \in Holding <=> pc[u] \in Holding
      BY <3>2
    <3> QED
      BY <3>2, <3>3, BudgetStutter
  <2>6. ASSUME NEW t \in Tasks, HandlerFulfilled(t) \/ HandlerRejected(t)
        PROVE  Stutters
    <3>1. /\ pc[t] \in {"returned", "threw"} /\ pc' = [pc EXCEPT ![t] = "done"]
          /\ pc \in [Tasks -> Pcs] /\ waiters' = waiters
      BY <1>2, <2>6 DEF HandlerFulfilled, HandlerRejected, limiterVars, Inv, TypeOK
    <3>2. \A u \in Tasks : pc'[u] \in Holding <=> pc[u] \in Holding
      BY <3>1 DEF Holding
    <3> QED
      BY <3>1, <3>2, BudgetStutter
  <2>7. ASSUME (\E r \in Reads : ReadSettles(r)) \/ CallSettles
        PROVE  Stutters
    BY <2>7 DEF ReadSettles, CallSettles, limiterVars, Holders
  <2> QED
    BY <1>2, <2>1, <2>2, <2>3, <2>4, <2>5, <2>6, <2>7
    DEF Next, Launch, TaskStep, Budget!Next
<1>3. Inv /\ Inv' /\ [Next]_vars => [Budget!Next]_<<Holders, waiters>>
  <2>1. UNCHANGED vars => Stutters
    BY DEF vars, limiterVars, Holders
  <2> QED
    BY <1>2, <2>1
<1> QED
  BY Invariance, <1>1, <1>3, PTL DEF Spec, BudgetSpec, Budget!Spec
==============================================================================
