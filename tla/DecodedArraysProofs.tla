------------------------ MODULE DecodedArraysProofs ------------------------
(***************************************************************************)
(* Proofs about decodedArray(): how far dispose() can undo the sharing of  *)
(* loads, and that only loads under way can be joined.                     *)
(***************************************************************************)
EXTENDS DecodedArrays, FoldTheorems, SequenceTheorems

\* The loads of a key that the in-flight map does not lead to, and those of it that
\* a dispose() cut off.
Strays(h, k) == LoadsOf(h, k) \ {inflight[h][k]}
CutOf(h, k) == {c \in cut : HandleOf[c] = h /\ KeyOf[c] = k}

\* A stray is the work of a dispose(): it cut the load off, or it cut off another one
\* that dropped this one's entry when it ended, and was a stray itself.
StraysInv ==
  \A h \in Handles, k \in Keys : Cardinality(Strays(h, k)) <= Cardinality(CutOf(h, k))

\* The inductive invariant.
Inv ==
  /\ CallsTypeOK
  /\ \A c \in cut : pc[c] # "idle"
  /\ JoinableLoads
  /\ StraysInv

LEMMA FiniteLoads ==
  ASSUME CallsTypeOK, NEW h, NEW k
  PROVE  /\ IsFiniteSet(LoadsOf(h, k)) /\ IsFiniteSet(Strays(h, k)) /\ IsFiniteSet(CutOf(h, k))
         /\ Cardinality(LoadsOf(h, k)) \in Nat
         /\ Cardinality(Strays(h, k)) \in Nat
         /\ Cardinality(CutOf(h, k)) \in Nat
<1>1. IsFiniteSet(LoadsOf(h, k))
  BY CallsAssumption, FS_Subset DEF LoadsOf
<1>2. IsFiniteSet(Strays(h, k))
  BY <1>1, FS_Subset DEF Strays
<1>3. IsFiniteSet(CutOf(h, k))
  BY CallsAssumption, FS_Subset DEF CutOf, CallsTypeOK
<1> QED
  BY <1>1, <1>2, <1>3, FS_CardinalityType

LEMMA InitInv == Init => Inv
<1> SUFFICES ASSUME Init PROVE Inv
  OBVIOUS
<1>1. CallsTypeOK /\ JoinableLoads
  BY DEF Init, CallsTypeOK, JoinableLoads
<1>2. \A c \in cut : pc[c] # "idle"
  BY DEF Init
<1>3. StraysInv
  <2>1. ASSUME NEW h \in Handles, NEW k \in Keys
        PROVE  Cardinality(Strays(h, k)) <= Cardinality(CutOf(h, k))
    <3>1. Strays(h, k) = {} /\ CutOf(h, k) = {}
      BY DEF Init, Strays, LoadsOf, Loading, CutOf
    <3> QED
      BY <3>1, FS_EmptySet
  <2> QED
    BY <2>1 DEF StraysInv
<1> QED
  BY <1>1, <1>2, <1>3 DEF Inv

\* A step after which the same loads are under way, and the map is as it was.
LEMMA FrameInv ==
  ASSUME Inv, CallsTypeOK', UNCHANGED <<inflight, cut>>,
         \A c \in Calls : Loading(c)' = Loading(c) /\ (pc'[c] = "idle" => pc[c] = "idle")
  PROVE  Inv'
<1>1. \A h \in Handles, k \in Keys :
        LoadsOf(h, k)' = LoadsOf(h, k) /\ Strays(h, k)' = Strays(h, k) /\ CutOf(h, k)' = CutOf(h, k)
  BY DEF LoadsOf, Strays, CutOf
<1>2. JoinableLoads' /\ StraysInv'
  BY <1>1 DEF Inv, JoinableLoads, StraysInv
<1>3. \A c \in cut' : pc'[c] # "idle"
  BY DEF Inv, CallsTypeOK
<1> QED
  BY <1>2, <1>3 DEF Inv

\* A call begins a load and registers it.
LEMMA LoadsInv ==
  ASSUME Inv, NEW c \in Calls, Loads(c)
  PROVE  Inv'
<1>1. /\ CallsTypeOK' /\ cut' = cut
      /\ pc'[c] \in {"lookup", "store"} /\ pc[c] = "idle" /\ inflight'[HandleOf[c]][KeyOf[c]] = c
      /\ \A d \in Calls \ {c} : pc'[d] = pc[d]
      /\ \A h \in Handles, k \in Keys :
           ~(h = HandleOf[c] /\ k = KeyOf[c]) => inflight'[h][k] = inflight[h][k]
  <2>1. HandleOf[c] \in Handles /\ KeyOf[c] \in Keys
    BY CallsAssumption DEF Keys
  <2> QED
    BY <2>1 DEF Loads, MovesTo, Inv, CallsTypeOK
<1>2. \A d \in cut' : d # c /\ pc'[d] # "idle"
  BY <1>1 DEF Inv, CallsTypeOK
<1>3. ASSUME NEW h \in Handles, NEW k \in Keys
      PROVE  /\ inflight'[h][k] # NoCall => inflight'[h][k] \in LoadsOf(h, k)' \ cut'
             /\ Strays(h, k)' = Strays(h, k) /\ CutOf(h, k)' = CutOf(h, k)
  <2>1. CutOf(h, k)' = CutOf(h, k)
    BY <1>1 DEF CutOf
  <2>2. CASE h = HandleOf[c] /\ k = KeyOf[c]
    <3>1. LoadsOf(h, k)' = LoadsOf(h, k) \cup {c} /\ c \notin LoadsOf(h, k)
      BY <1>1, <2>2 DEF LoadsOf, Loading
    <3>2. inflight[h][k] = NoCall
      BY <2>2 DEF Loads
    <3>3. NoCall \notin LoadsOf(h, k)
      BY CallsAssumption DEF LoadsOf
    <3>4. Strays(h, k)' = Strays(h, k)
      BY <1>1, <2>2, <3>1, <3>2, <3>3 DEF Strays
    <3> QED
      BY <1>1, <1>2, <2>1, <2>2, <3>1, <3>4
  <2>3. CASE ~(h = HandleOf[c] /\ k = KeyOf[c])
    <3>1. LoadsOf(h, k)' = LoadsOf(h, k)
      BY <1>1, <2>3 DEF LoadsOf, Loading
    <3>2. inflight'[h][k] = inflight[h][k]
      BY <1>1, <2>3
    <3> QED
      BY <1>1, <2>1, <3>1, <3>2 DEF Inv, JoinableLoads, Strays
  <2> QED
    BY <2>2, <2>3
<1>4. JoinableLoads' /\ StraysInv'
  BY <1>3 DEF Inv, JoinableLoads, StraysInv
<1> QED
  BY <1>1, <1>2, <1>4 DEF Inv

\* A load ends. If it was a stray, the load whose entry it drops takes its place.
LEMMA EndsInv ==
  ASSUME Inv, NEW c \in Calls, Loading(c), NEW result \in {"array", "failed"}, Ends(c, result),
         decoded' \in [Handles -> SUBSET Keys]
  PROVE  Inv'
<1>1. /\ CallsTypeOK' /\ cut' = cut
      /\ pc'[c] = "settled" /\ inflight'[HandleOf[c]][KeyOf[c]] = NoCall
      /\ \A d \in Calls \ {c} : pc'[d] = pc[d]
      /\ \A h \in Handles, k \in Keys :
           ~(h = HandleOf[c] /\ k = KeyOf[c]) => inflight'[h][k] = inflight[h][k]
  <2>1. HandleOf[c] \in Handles /\ KeyOf[c] \in Keys
    BY CallsAssumption DEF Keys
  <2> QED
    BY <2>1 DEF Ends, MovesTo, Inv, CallsTypeOK
<1>2. \A d \in cut' : pc'[d] # "idle"
  BY <1>1 DEF Inv, CallsTypeOK
<1>3. ASSUME NEW h \in Handles, NEW k \in Keys
      PROVE  /\ inflight'[h][k] # NoCall => inflight'[h][k] \in LoadsOf(h, k)' \ cut'
             /\ Cardinality(Strays(h, k)') <= Cardinality(CutOf(h, k)')
  <2>1. CutOf(h, k)' = CutOf(h, k) /\ Cardinality(Strays(h, k)) <= Cardinality(CutOf(h, k))
    BY <1>1 DEF CutOf, Inv, StraysInv
  <2>2. CASE h = HandleOf[c] /\ k = KeyOf[c]
    <3>1. LoadsOf(h, k)' = LoadsOf(h, k) \ {c} /\ c \in LoadsOf(h, k)
      BY <1>1, <2>2 DEF LoadsOf, Loading
    <3>2. Strays(h, k)' = LoadsOf(h, k) \ {c}
      <4>1. NoCall \notin LoadsOf(h, k)
        BY CallsAssumption DEF LoadsOf
      <4> QED
        BY <1>1, <2>2, <3>1, <4>1 DEF Strays
    <3>3. /\ IsFiniteSet(Strays(h, k)) /\ Cardinality(Strays(h, k)) \in Nat
          /\ Cardinality(CutOf(h, k)) \in Nat
      BY FiniteLoads DEF Inv
    <3>4. CASE inflight[h][k] = c
      BY <1>1, <2>1, <2>2, <3>2, <3>4 DEF Strays
    <3>5. CASE inflight[h][k] # c
      <4>1. c \in Strays(h, k)
        BY <3>1, <3>5 DEF Strays
      <4> DEFINE rest == Strays(h, k) \ {c}
      <4>2. IsFiniteSet(rest) /\ Cardinality(rest) = Cardinality(Strays(h, k)) - 1
        BY <3>3, <4>1, FS_RemoveElement
      <4>3. Strays(h, k)' \subseteq rest \cup {inflight[h][k]}
        BY <3>2 DEF Strays
      <4> HIDE DEF rest
      <4>4. /\ IsFiniteSet(rest \cup {inflight[h][k]})
            /\ Cardinality(rest \cup {inflight[h][k]}) <= Cardinality(rest) + 1
        <5>1. Cardinality(rest) \in Nat
          BY <4>2, FS_CardinalityType
        <5>2. /\ IsFiniteSet(rest \cup {inflight[h][k]})
              /\ Cardinality(rest \cup {inflight[h][k]}) =
                   IF inflight[h][k] \in rest THEN Cardinality(rest) ELSE Cardinality(rest) + 1
          BY <4>2, FS_AddElement
        <5> QED
          BY <5>1, <5>2
      <4>5. /\ Cardinality(Strays(h, k)') <= Cardinality(rest \cup {inflight[h][k]})
            /\ Cardinality(Strays(h, k)') \in Nat
            /\ Cardinality(rest \cup {inflight[h][k]}) \in Nat
        BY <4>3, <4>4, FS_Subset, FS_CardinalityType
      <4>6. Cardinality(Strays(h, k)') <= Cardinality(CutOf(h, k))
        BY <2>1, <3>3, <4>2, <4>4, <4>5
      <4> QED
        BY <1>1, <2>1, <2>2, <4>6
    <3> QED
      BY <1>1, <2>2, <3>4, <3>5
  <2>3. CASE ~(h = HandleOf[c] /\ k = KeyOf[c])
    <3>1. LoadsOf(h, k)' = LoadsOf(h, k)
      BY <1>1, <2>3 DEF LoadsOf, Loading
    <3>2. inflight'[h][k] = inflight[h][k]
      BY <1>1, <2>3
    <3>3. Strays(h, k)' = Strays(h, k)
      BY <3>1, <3>2 DEF Strays
    <3> QED
      BY <1>1, <2>1, <3>1, <3>2, <3>3 DEF Inv, JoinableLoads
  <2> QED
    BY <2>2, <2>3
<1>4. JoinableLoads' /\ StraysInv'
  BY <1>3 DEF JoinableLoads, StraysInv
<1> QED
  BY <1>1, <1>2, <1>4 DEF Inv

\* dispose() makes strays of all loads of its handle, and cuts off as many.
LEMMA DisposeInv ==
  ASSUME Inv, NEW g \in Handles, Dispose(g)
  PROVE  Inv'
<1>1. /\ CallsTypeOK' /\ pc' = pc
      /\ \A k \in Keys : inflight'[g][k] = NoCall
      /\ \A h \in Handles \ {g} : inflight'[h] = inflight[h]
      /\ cut' = cut \cup {c \in Calls : HandleOf[c] = g /\ Loading(c)}
  BY DEF Dispose, Inv, CallsTypeOK
<1>2. \A d \in cut' : pc'[d] # "idle"
  BY <1>1 DEF Inv, Loading
<1>3. ASSUME NEW h \in Handles, NEW k \in Keys
      PROVE  /\ inflight'[h][k] # NoCall => inflight'[h][k] \in LoadsOf(h, k)' \ cut'
             /\ Cardinality(Strays(h, k)') <= Cardinality(CutOf(h, k)')
  <2>1. LoadsOf(h, k)' = LoadsOf(h, k)
    BY <1>1 DEF LoadsOf, Loading
  <2>2. CASE h = g
    <3>1. Strays(h, k)' \subseteq CutOf(h, k)'
      BY <1>1, <2>1, <2>2 DEF Strays, CutOf, LoadsOf
    <3>2. IsFiniteSet(CutOf(h, k)')
      BY <1>1, CallsAssumption, FS_Subset DEF CutOf, CallsTypeOK
    <3> QED
      BY <1>1, <2>2, <3>1, <3>2, FS_Subset
  <2>3. CASE h # g
    <3>1. CutOf(h, k)' = CutOf(h, k) /\ inflight'[h] = inflight[h]
      BY <1>1, <2>3 DEF CutOf
    <3>2. LoadsOf(h, k) \cap cut' = LoadsOf(h, k) \cap cut
      BY <1>1, <2>3 DEF LoadsOf
    <3> QED
      BY <2>1, <3>1, <3>2 DEF Inv, JoinableLoads, StraysInv, Strays
  <2> QED
    BY <2>2, <2>3
<1>4. JoinableLoads' /\ StraysInv'
  BY <1>3 DEF JoinableLoads, StraysInv
<1> QED
  BY <1>1, <1>2, <1>4 DEF Inv

\* A step of a load: it goes on, or it ends.
LEMMA LoadStepInv ==
  ASSUME Inv, NEW c \in Calls, LoadStep(c)
  PROVE  Inv'
<1>1. HandleOf[c] \in Handles /\ KeyOf[c] \in Keys
  BY CallsAssumption DEF Keys
<1>2. Fills(c) => decoded' \in [Handles -> SUBSET Keys]
  BY <1>1 DEF Fills, Inv, CallsTypeOK
<1>3. ASSUME NEW at \in {"lookup", "store", "write"}, Loading(c), MovesTo(c, at),
             UNCHANGED <<inflight, joined, outcome, cut>>, UNCHANGED decoded \/ Fills(c)
      PROVE  Inv'
  <2>1. CallsTypeOK'
    BY <1>2, <1>3 DEF MovesTo, Inv, CallsTypeOK
  <2>2. \A d \in Calls : Loading(d)' = Loading(d) /\ (pc'[d] = "idle" => pc[d] = "idle")
    <3>1. \A d \in Calls : pc'[d] = IF d = c THEN at ELSE pc[d]
      BY <1>3 DEF MovesTo, Inv, CallsTypeOK
    <3> QED
      BY <1>3, <3>1 DEF Loading
  <2> QED
    BY <1>3, <2>1, <2>2, FrameInv
<1>4. ASSUME NEW result \in {"array", "failed"}, Loading(c), Ends(c, result), UNCHANGED decoded \/ Fills(c)
      PROVE  Inv'
  BY <1>2, <1>4, EndsInv DEF Inv, CallsTypeOK
<1>5. CASE L2Hits(c)
  BY <1>4, <1>5 DEF L2Hits, Loading
<1>6. CASE L2Misses(c) \/ L2Throws(c)
  BY <1>3, <1>6 DEF L2Misses, L2Throws, Loading
<1>7. CASE Decodes(c)
  <2>1. Loading(c) /\ Fills(c)
    BY <1>7 DEF Decodes, Loading
  <2>2. CASE MovesTo(c, "write") /\ UNCHANGED <<inflight, joined, outcome, cut>>
    BY <1>3, <2>1, <2>2
  <2>3. CASE Ends(c, "array")
    BY <1>4, <2>1, <2>3
  <2> QED
    BY <1>7, <2>2, <2>3 DEF Decodes
<1>8. CASE ReadFails(c) \/ Writes(c) \/ WriteThrows(c)
  BY <1>4, <1>8 DEF ReadFails, Writes, WriteThrows, Loading
<1> QED
  BY <1>5, <1>6, <1>7, <1>8 DEF LoadStep

LEMMA StepInv == Inv /\ [Next]_vars => Inv'
<1> SUFFICES ASSUME Inv, [Next]_vars PROVE Inv'
  OBVIOUS
<1>1. ASSUME UNCHANGED callVars PROVE Inv'
  <2>1. UNCHANGED <<decoded, inflight, pc, joined, outcome, cut>>
    BY <1>1 DEF callVars
  <2> QED
    BY <2>1, FrameInv DEF Inv, CallsTypeOK, Loading
<1>2. ASSUME NEW c \in Calls, L1Hits(c) \/ Joins(c) \/ JoinedSettles(c) PROVE Inv'
  <2>1. PICK at \in {"joined", "settled"} : MovesTo(c, at)
    BY <1>2 DEF L1Hits, Joins, JoinedSettles
  <2>2. \A d \in Calls : pc'[d] = IF d = c THEN at ELSE pc[d]
    BY <2>1 DEF MovesTo, Inv, CallsTypeOK
  <2>3. pc[c] \in {"idle", "joined"} /\ UNCHANGED <<decoded, inflight, cut>>
    BY <1>2 DEF L1Hits, Joins, JoinedSettles
  <2>4. CallsTypeOK'
    <3>1. HandleOf[c] \in Handles /\ KeyOf[c] \in Keys
      BY CallsAssumption DEF Keys
    <3>2. /\ joined' \in [Calls -> Calls \cup {NoCall}]
          /\ \A d \in Calls : pc'[d] = "joined" => joined'[d] # NoCall
      BY <1>2, <2>2, <3>1 DEF L1Hits, Joins, JoinedSettles, MovesTo, Inv, CallsTypeOK
    <3>3. outcome' \in [Calls -> {"none", "array", "failed"}]
      <4>1. CASE JoinedSettles(c)
        <5>1. joined[c] \in Calls
          BY <2>3, <4>1 DEF JoinedSettles, Inv, CallsTypeOK
        <5> QED
          BY <4>1, <5>1 DEF JoinedSettles, Inv, CallsTypeOK
      <4> QED
        BY <1>2, <4>1 DEF L1Hits, Joins, Inv, CallsTypeOK
    <3> QED
      BY <2>1, <2>3, <3>2, <3>3 DEF MovesTo, Inv, CallsTypeOK
  <2> QED
    BY <2>1, <2>2, <2>3, <2>4, FrameInv DEF Loading
<1>3. ASSUME NEW c \in Calls, Loads(c) PROVE Inv'
  BY <1>3, LoadsInv
<1>4. ASSUME NEW c \in Calls, LoadStep(c) PROVE Inv'
  BY <1>4, LoadStepInv
<1>5. ASSUME NEW h \in Handles, Dispose(h) PROVE Inv'
  BY <1>5, DisposeInv
<1>6. CASE MetadataAccess \/ TimePasses \/ UNCHANGED vars
  BY <1>1, <1>6 DEF MetadataAccess, TimePasses, vars
<1> QED
  BY <1>2, <1>3, <1>4, <1>5, <1>6 DEF Next

\* The inductive invariant holds in every reachable state.
THEOREM Invariance == Spec => []Inv
<1> QED
  BY InitInv, StepInv, PTL DEF Spec

\* Only a load that is under way, and that no dispose() has cut off, can be joined
\* (decodedInflight).
THEOREM OnlyLiveLoadsJoined == Spec => []JoinableLoads
<1>1. Inv => JoinableLoads
  BY DEF Inv
<1> QED
  BY <1>1, Invariance, PTL

\* A key is loaded once at a time, but for one load more per load that a dispose()
\* of the handle has cut off.
THEOREM DuplicatesBounded == Spec => []LoadsShared
<1>1. Inv => LoadsShared
  <2> SUFFICES ASSUME Inv, NEW h \in Handles, NEW k \in Keys
               PROVE  Cardinality(LoadsOf(h, k)) <= 1 + Cardinality(CutOf(h, k))
    BY DEF LoadsShared, CutOf
  <2>1. /\ IsFiniteSet(Strays(h, k)) /\ Cardinality(Strays(h, k)) \in Nat
        /\ Cardinality(CutOf(h, k)) \in Nat /\ Cardinality(Strays(h, k)) <= Cardinality(CutOf(h, k))
    BY FiniteLoads DEF Inv, StraysInv
  <2> DEFINE all == Strays(h, k) \cup {inflight[h][k]}
  <2>2. IsFiniteSet(all) /\ Cardinality(all) <= Cardinality(Strays(h, k)) + 1
    <3> DEFINE A == Strays(h, k)
               x == inflight[h][k]
    <3>1. /\ IsFiniteSet(A \cup {x})
          /\ Cardinality(A \cup {x}) = IF x \in A THEN Cardinality(A) ELSE Cardinality(A) + 1
      BY <2>1, FS_AddElement
    <3>2. IsFiniteSet(all) /\ Cardinality(all) = IF x \in A THEN Cardinality(A) ELSE Cardinality(A) + 1
      BY <3>1
    <3>3. Cardinality(A) \in Nat
      BY <2>1
    <3> HIDE DEF A, x, all
    <3>4. IsFiniteSet(all) /\ Cardinality(all) <= Cardinality(A) + 1
      BY <3>2, <3>3
    <3> QED
      BY <3>4 DEF A
  <2>3. LoadsOf(h, k) \subseteq all
    BY DEF Strays
  <2> HIDE DEF all
  <2>4. /\ Cardinality(LoadsOf(h, k)) <= Cardinality(all)
        /\ Cardinality(LoadsOf(h, k)) \in Nat /\ Cardinality(all) \in Nat
    BY <2>2, <2>3, FS_Subset, FS_CardinalityType
  <2> QED
    BY <2>1, <2>2, <2>4
<1> QED
  BY <1>1, Invariance, PTL

\* Loads are shared, and only with those whose result a caller may have.
THEOREM Deduplication == Spec => []DedupSound
<1>1. Inv /\ LoadsShared /\ JoinableLoads => DedupSound
  BY DEF Inv, DedupSound
<1> QED
  BY <1>1, Invariance, DuplicatesBounded, OnlyLiveLoadsJoined, PTL


------------------------------------------------------------------------------
(* The bytes of entries *)

Entries == Seq(CacheKeys \X CacheValues)
Bytes(es) == [i \in 1..Len(es) |-> Cost[es[i][1]][es[i][2]]]

LEMMA BytesFacts ==
  ASSUME NEW es \in Entries
  PROVE  /\ Len(es) \in Nat /\ Bytes(es) \in [1..Len(es) -> Int]
         /\ \A i \in 1..Len(es) : /\ es[i] \in CacheKeys \X CacheValues
                                  /\ Bytes(es)[i] = Cost[es[i][1]][es[i][2]]
                                  /\ Bytes(es)[i] \in Nat \ {0}
         /\ Weight(es) = SumFunctionOnSet(Bytes(es), 1..Len(es))
<1>1. Len(es) \in Nat /\ \A i \in 1..Len(es) : es[i] \in CacheKeys \X CacheValues
  BY DEF Entries
<1>2. \A i \in 1..Len(es) : Cost[es[i][1]][es[i][2]] \in Nat \ {0}
  BY <1>1, CostAssumption
<1>3. Bytes(es) \in [1..Len(es) -> Int]
  BY <1>2 DEF Bytes
<1>4. Weight(es) = SumFunction(Bytes(es))
  BY DEF Weight, Bytes
<1> DEFINE f == Bytes(es)
           n == Len(es)
<1>5. SumFunction(f) = SumFunctionOnSet(f, 1..n)
  <2> HIDE DEF f, n
  <2> QED
    BY <1>1, <1>3, IntervalSums DEF f, n
<1> QED
  BY <1>1, <1>2, <1>3, <1>4, <1>5 DEF Bytes

LEMMA WeightIsNat ==
  ASSUME NEW es \in Entries
  PROVE  Weight(es) \in Nat
<1> DEFINE f == Bytes(es)
           n == Len(es)
           S == {m \in 0..n : SumFunctionOnSet(f, 1..m) \in Nat}
<1>1. n \in Nat /\ f \in [1..n -> Int] /\ (\A i \in 1..n : f[i] \in Nat) /\ Weight(es) = SumFunctionOnSet(f, 1..n)
  BY BytesFacts
<1> HIDE DEF f, n
<1>2. 0 \in S
  BY <1>1, IntervalSums
<1>3. ASSUME NEW m \in 1..n, m - 1 \in S PROVE m \in S
  <2>1. SumFunctionOnSet(f, 1..m) = f[m] + SumFunctionOnSet(f, 1..(m - 1))
    BY <1>1, IntervalSums
  <2> QED
    BY <1>1, <1>3, <2>1
<1>4. n \in S
  <2> HIDE DEF S
  <2>1. \A m \in 0..n : m \in S
    BY <1>1, <1>2, <1>3, IntervalInduction
  <2> QED
    BY <1>1, <2>1
<1> QED
  BY <1>1, <1>4

LEMMA WeightConcat ==
  ASSUME NEW a \in Entries, NEW b \in Entries
  PROVE  a \o b \in Entries /\ Weight(a \o b) = Weight(a) + Weight(b)
<1> DEFINE c == a \o b
           k == Len(a)
           n == Len(b)
           f == Bytes(a)
           g == Bytes(b)
           h == Bytes(c)
           S == {m \in 0..n : SumFunctionOnSet(h, 1..(k + m))
                               = SumFunctionOnSet(f, 1..k) + SumFunctionOnSet(g, 1..m)}
<1>1. /\ c \in Entries /\ k \in Nat /\ n \in Nat /\ Len(c) = k + n
      /\ \A i \in 1..k : c[i] = a[i]
      /\ \A i \in 1..n : c[k + i] = b[i]
  BY DEF Entries
<1> HIDE DEF c
<1>2. /\ f \in [1..k -> Int] /\ g \in [1..n -> Int] /\ h \in [1..(k + n) -> Int]
      /\ Weight(a) = SumFunctionOnSet(f, 1..k) /\ Weight(b) = SumFunctionOnSet(g, 1..n)
      /\ Weight(c) = SumFunctionOnSet(h, 1..(k + n))
  BY <1>1, BytesFacts
<1>3. /\ \A i \in 1..k : h[i] = f[i]
      /\ \A i \in 1..n : h[k + i] = g[i]
  BY <1>1 DEF Bytes
<1> HIDE DEF f, g, h, k, n
<1>4. SumFunctionOnSet(f, 1..k) \in Int
  <2>1. Weight(a) \in Nat
    BY WeightIsNat
  <2> QED
    BY <1>2, <2>1
<1>5. 0 \in S
  <2>1. SumFunctionOnSet(h, 1..k) = SumFunctionOnSet(f, 1..k)
    <3>1. 1..k \in SUBSET ((1..(k + n)) \cap (1..k)) /\ IsFiniteSet(1..k)
      BY <1>1, FS_Interval
    <3> DEFINE D == 1..(k + n)
               E == 1..k
    <3> HIDE DEF D, E
    <3>2. h \in [D -> Int] /\ f \in [E -> Int] /\ E \in SUBSET (D \cap E) /\ IsFiniteSet(E)
          /\ \A x \in E : h[x] = f[x]
      BY <1>2, <1>3, <3>1 DEF D, E
    <3>3. SumFunctionOnSet(h, E) = SumFunctionOnSet(f, E)
      BY <3>2, SumEqual
    <3> QED
      BY <3>3 DEF E
  <2>2. SumFunctionOnSet(g, 1..0) = 0
    BY <1>1, <1>2, IntervalSums
  <2> QED
    BY <1>1, <1>4, <2>1, <2>2
<1>6. ASSUME NEW m \in 1..n, m - 1 \in S PROVE m \in S
  <2>1. k + m \in 1..(k + n) /\ k + m - 1 = k + (m - 1)
    BY <1>1
  <2> DEFINE K == k + n
             M == k + m
  <2>2. K \in Nat /\ h \in [1..K -> Int] /\ M \in 1..K
    BY <1>1, <1>2, <2>1
  <2>3. SumFunctionOnSet(h, 1..M) = h[M] + SumFunctionOnSet(h, 1..(M - 1))
    <3> HIDE DEF K, M
    <3> QED
      BY <2>2, IntervalSums
  <2>4. /\ SumFunctionOnSet(g, 1..m) = g[m] + SumFunctionOnSet(g, 1..(m - 1))
        /\ SumFunctionOnSet(g, 1..(m - 1)) \in Int
    BY <1>1, <1>2, IntervalSums
  <2>5. h[M] = g[m] /\ g[m] \in Int
    BY <1>2, <1>3
  <2>6. SumFunctionOnSet(h, 1..(M - 1)) = SumFunctionOnSet(f, 1..k) + SumFunctionOnSet(g, 1..(m - 1))
    BY <1>1, <1>6, <2>1
  <2> QED
    BY <1>4, <2>3, <2>4, <2>5, <2>6
<1>7. n \in S
  <2> HIDE DEF S
  <2>1. \A m \in 0..n : m \in S
    BY <1>1, <1>5, <1>6, IntervalInduction
  <2> QED
    BY <1>1, <2>1
<1> QED
  BY <1>1, <1>2, <1>7 DEF c

LEMMA WeightOne ==
  ASSUME NEW k \in CacheKeys, NEW v \in CacheValues
  PROVE  <<<<k, v>>>> \in Entries /\ Weight(<<<<k, v>>>>) = Cost[k][v]
<1> DEFINE es == <<<<k, v>>>>
           f == Bytes(es)
<1>1. es \in Entries /\ Len(es) = 1 /\ es[1] = <<k, v>>
  BY DEF Entries
<1> HIDE DEF es
<1>2. f \in [1..1 -> Int] /\ Weight(es) = SumFunctionOnSet(f, 1..1) /\ f[1] = Cost[k][v] /\ f[1] \in Int
  BY <1>1, BytesFacts
<1> HIDE DEF f
<1>3. SumFunctionOnSet(f, 1..1) = f[1] + SumFunctionOnSet(f, 1..(1 - 1)) /\ SumFunctionOnSet(f, 1..0) = 0
  <2>1. 1 \in Nat /\ 1 \in 1..1
    OBVIOUS
  <2> QED
    BY <1>2, <2>1, IntervalSums
<1> QED
  BY <1>1, <1>2, <1>3 DEF es

\* A sequence is its first entries and the others.
LEMMA SplitAt ==
  ASSUME NEW es \in Entries, NEW n \in 0..Len(es)
  PROVE  /\ SubSeq(es, 1, n) \in Entries /\ SubSeq(es, n + 1, Len(es)) \in Entries
         /\ Weight(es) = Weight(SubSeq(es, 1, n)) + Weight(SubSeq(es, n + 1, Len(es)))
<1>1. SubSeq(es, 1, n) \in Entries /\ SubSeq(es, n + 1, Len(es)) \in Entries
  BY DEF Entries
<1>2. es = SubSeq(es, 1, n) \o SubSeq(es, n + 1, Len(es))
  <2>1. 1 \in 1..(Len(es) + 1) /\ n \in (1 - 1)..Len(es) /\ Len(es) \in n..Len(es)
    BY DEF Entries
  <2>2. SubSeq(es, 1, n) \o SubSeq(es, n + 1, Len(es)) = SubSeq(es, 1, Len(es))
    BY <2>1, ConcatAdjacentSubSeq DEF Entries
  <2> QED
    BY <2>2, SubSeqFull DEF Entries
<1> QED
  BY <1>1, <1>2, WeightConcat


------------------------------------------------------------------------------
(* The keys of entries *)

KeysIn(es) == {es[i][1] : i \in 1..Len(es)}
Distinct(es) == \A i, j \in 1..Len(es) : es[i][1] = es[j][1] => i = j

\* What remains when the entry at a position is taken out.
LEMMA RemovalFacts ==
  ASSUME NEW es \in Entries, Distinct(es), NEW p \in 1..Len(es)
  PROVE  /\ RemoveAt(es, p) \in Entries /\ Distinct(RemoveAt(es, p))
         /\ KeysIn(RemoveAt(es, p)) = KeysIn(es) \ {es[p][1]}
         /\ Len(RemoveAt(es, p)) = Len(es) - 1
         /\ Weight(RemoveAt(es, p)) = Weight(es) - Cost[es[p][1]][es[p][2]]
<1> DEFINE n == Len(es)
           r == RemoveAt(es, p)
           left == SubSeq(es, 1, p - 1)
           right == SubSeq(es, p + 1, n)
           from(i) == IF i < p THEN i ELSE i + 1
<1>1. n \in Nat /\ \A i \in 1..n : es[i] \in CacheKeys \X CacheValues
  BY DEF Entries
<1>2. /\ left \in Entries /\ Len(left) = p - 1 /\ (\A i \in 1..(p - 1) : left[i] = es[i])
      /\ right \in Entries /\ Len(right) = n - p /\ (\A i \in 1..(n - p) : right[i] = es[p + i])
  BY <1>1 DEF Entries
<1>3. r = left \o right
  BY DEF RemoveAt
<1> HIDE DEF left, right, r, n
<1>4. r \in Entries /\ Weight(r) = Weight(left) + Weight(right)
  BY <1>2, <1>3, WeightConcat
<1>5. Len(r) = n - 1
  BY <1>1, <1>2, <1>3 DEF Entries, n
<1>6. ASSUME NEW i \in 1..(n - 1) PROVE from(i) \in 1..n /\ from(i) # p /\ r[i] = es[from(i)]
  <2>1. CASE i < p
    BY <1>1, <1>2, <1>3, <2>1 DEF Entries, n
  <2>2. CASE ~(i < p)
    <3>1. i - (p - 1) \in 1..(n - p) /\ p + (i - (p - 1)) = i + 1
      BY <1>1, <2>2 DEF n
    <3>2. r[i] = right[i - (p - 1)]
      BY <1>1, <1>2, <1>3, <2>2 DEF Entries, n
    <3> QED
      BY <1>1, <1>2, <2>2, <3>1, <3>2 DEF n
  <2> QED
    BY <2>1, <2>2
<1>7. Distinct(r)
  <2> SUFFICES ASSUME NEW i \in 1..(n - 1), NEW j \in 1..(n - 1), r[i][1] = r[j][1]
               PROVE  i = j
    BY <1>5 DEF Distinct
  <2>1. from(i) = from(j)
    <3> HIDE DEF from
    <3>1. from(i) \in 1..n /\ r[i] = es[from(i)]
      BY <1>6
    <3>2. from(j) \in 1..n /\ r[j] = es[from(j)]
      BY <1>6
    <3>3. es[from(i)][1] = es[from(j)][1]
      BY <3>1, <3>2
    <3> QED
      BY <3>1, <3>2, <3>3 DEF Distinct, n
  <2> QED
    BY <1>1, <2>1
<1>8. KeysIn(r) = KeysIn(es) \ {es[p][1]}
  <2>1. ASSUME NEW i \in 1..(n - 1) PROVE r[i][1] \in KeysIn(es) \ {es[p][1]}
    <3> HIDE DEF from
    <3> QED
      BY <1>6 DEF Distinct, KeysIn, n
  <2>2. ASSUME NEW j \in 1..n, es[j][1] # es[p][1] PROVE \E i \in 1..(n - 1) : r[i][1] = es[j][1]
    <3>1. CASE j < p
      <4>1. j \in 1..(n - 1) /\ from(j) = j
        BY <1>1, <3>1 DEF n
      <4> QED
        BY <1>6, <4>1
    <3>2. CASE j > p
      <4>1. j - 1 \in 1..(n - 1) /\ from(j - 1) = j
        BY <1>1, <3>2 DEF n
      <4> QED
        BY <1>6, <4>1
    <3>3. j # p
      BY <2>2
    <3> QED
      BY <3>1, <3>2, <3>3
  <2> HIDE DEF r
  <2>3. KeysIn(r) = {r[i][1] : i \in 1..(n - 1)} /\ KeysIn(es) = {es[j][1] : j \in 1..n}
    BY <1>5 DEF KeysIn, n
  <2> HIDE DEF n
  <2>4. KeysIn(r) \subseteq KeysIn(es) \ {es[p][1]}
    BY <2>1, <2>3
  <2>5. KeysIn(es) \ {es[p][1]} \subseteq KeysIn(r)
    BY <2>2, <2>3
  <2> QED
    BY <2>4, <2>5
<1>9. Weight(es) = Weight(left) + (Cost[es[p][1]][es[p][2]] + Weight(right))
  <2> DEFINE one == <<es[p]>>
             tail == SubSeq(es, p, n)
  <2>1. Weight(es) = Weight(left) + Weight(tail)
    <3>1. p - 1 \in 0..Len(es) /\ p - 1 + 1 = p
      BY <1>1 DEF n
    <3> QED
      BY <3>1, SplitAt DEF left, n
  <2>2. tail = one \o right
    <3>1. p \in 1..Len(es) /\ Len(es) \in p..Len(es)
      BY <1>1 DEF n
    <3> QED
      BY <3>1, SubSeqRecursiveFirst DEF Entries, right, n
  <2>3. one \in Entries /\ Weight(one) = Cost[es[p][1]][es[p][2]]
    <3>1. PICK k \in CacheKeys, v \in CacheValues : es[p] = <<k, v>>
      BY <1>1 DEF n
    <3> QED
      BY <3>1, WeightOne
  <2>4. Weight(tail) = Weight(one) + Weight(right)
    <3> HIDE DEF one, tail
    <3> QED
      BY <1>2, <2>2, <2>3, WeightConcat
  <2> QED
    BY <2>1, <2>3, <2>4
<1>10. Weight(left) \in Nat /\ Weight(right) \in Nat /\ Cost[es[p][1]][es[p][2]] \in Nat
  BY <1>1, <1>2, WeightIsNat, CostAssumption DEF n
<1> QED
  BY <1>4, <1>5, <1>7, <1>8, <1>9, <1>10 DEF r, n

LEMMA AppendFacts ==
  ASSUME NEW es \in Entries, Distinct(es), NEW k \in CacheKeys, NEW v \in CacheValues,
         k \notin KeysIn(es)
  PROVE  LET new == Append(es, <<k, v>>) IN
         /\ new \in Entries /\ Distinct(new) /\ KeysIn(new) = KeysIn(es) \cup {k}
         /\ Len(new) = Len(es) + 1 /\ new[Len(new)] = <<k, v>>
         /\ Weight(new) = Weight(es) + Cost[k][v]
<1> DEFINE new == Append(es, <<k, v>>)
           n == Len(es)
<1>1. n \in Nat /\ \A i \in 1..n : es[i] \in CacheKeys \X CacheValues
  BY DEF Entries
<1>2. /\ new \in Entries /\ Len(new) = n + 1 /\ new[n + 1] = <<k, v>>
      /\ \A i \in 1..n : new[i] = es[i]
  BY DEF Entries
<1>3. new = es \o <<<<k, v>>>>
  BY DEF Entries
<1> HIDE DEF new
<1>4. Weight(new) = Weight(es) + Cost[k][v]
  BY <1>3, WeightOne, WeightConcat
<1> HIDE DEF n
<1>5. \A i \in 1..(n + 1) : i \in 1..n \/ i = n + 1
  BY <1>1
<1>6. Distinct(new) /\ KeysIn(new) = KeysIn(es) \cup {k}
  <2>1. \A i \in 1..n : es[i][1] # k
    BY DEF KeysIn, n
  <2>2. new[n + 1][1] = k /\ n + 1 \in 1..(n + 1) /\ \A i \in 1..n : i \in 1..(n + 1)
    BY <1>1, <1>2
  <2>3. ASSUME NEW i \in 1..(n + 1), NEW j \in 1..(n + 1), new[i][1] = new[j][1] PROVE i = j
    BY <1>2, <1>5, <2>1, <2>2, <2>3 DEF Distinct, n
  <2>4. KeysIn(new) = KeysIn(es) \cup {k}
    BY <1>2, <1>5, <2>2 DEF KeysIn, n
  <2> QED
    BY <1>2, <2>3, <2>4 DEF Distinct
<1> QED
  BY <1>2, <1>4, <1>6 DEF new, n

\* What is left when the oldest entries go.
LEMMA EvictionFacts ==
  ASSUME NEW es \in Entries, Distinct(es), NEW n \in 0..Len(es)
  PROVE  LET rest == SubSeq(es, n + 1, Len(es)) IN
         /\ rest \in Entries /\ Distinct(rest) /\ Len(rest) = Len(es) - n
         /\ KeysIn(rest) = KeysIn(es) \ {es[i][1] : i \in 1..n}
         /\ Weight(rest) = Weight(es) - Weight(SubSeq(es, 1, n))
<1> DEFINE rest == SubSeq(es, n + 1, Len(es))
           l == Len(es)
<1>1. l \in Nat /\ \A i \in 1..l : es[i] \in CacheKeys \X CacheValues
  BY DEF Entries
<1>2. rest \in Entries /\ Len(rest) = l - n /\ \A i \in 1..(l - n) : rest[i] = es[n + i]
  BY <1>1 DEF Entries
<1>3. Weight(rest) = Weight(es) - Weight(SubSeq(es, 1, n))
  <2>1. /\ SubSeq(es, 1, n) \in Entries
        /\ Weight(es) = Weight(SubSeq(es, 1, n)) + Weight(rest)
    BY SplitAt
  <2>2. Weight(SubSeq(es, 1, n)) \in Nat /\ Weight(rest) \in Nat
    BY <1>2, <2>1, WeightIsNat
  <2> QED
    BY <2>1, <2>2
<1> HIDE DEF rest
<1>4. ASSUME NEW i \in 1..(l - n) PROVE n + i \in 1..l
  BY <1>1
<1>5. Distinct(rest)
  <2> SUFFICES ASSUME NEW i \in 1..(l - n), NEW j \in 1..(l - n), rest[i][1] = rest[j][1] PROVE i = j
    BY <1>2 DEF Distinct
  <2>1. n + i = n + j
    BY <1>2, <1>4 DEF Distinct
  <2> QED
    BY <1>1, <2>1
<1>6. KeysIn(rest) = KeysIn(es) \ {es[i][1] : i \in 1..n}
  <2>1. ASSUME NEW i \in 1..(l - n) PROVE rest[i][1] \in KeysIn(es) /\ \A j \in 1..n : es[j][1] # rest[i][1]
    <3>1. n + i \in 1..l /\ \A j \in 1..n : j \in 1..l /\ j # n + i
      BY <1>1
    <3> QED
      BY <1>2, <3>1 DEF KeysIn, Distinct
  <2>2. ASSUME NEW j \in 1..l, \A i \in 1..n : es[i][1] # es[j][1] PROVE \E i \in 1..(l - n) : rest[i][1] = es[j][1]
    <3>1. j \notin 1..n
      BY <2>2
    <3>2. j - n \in 1..(l - n) /\ n + (j - n) = j
      BY <1>1, <3>1
    <3> QED
      BY <1>2, <3>2
  <2>3. KeysIn(rest) = {rest[i][1] : i \in 1..(l - n)} /\ KeysIn(es) = {es[j][1] : j \in 1..l}
    BY <1>2 DEF KeysIn
  <2> DEFINE gone == {es[i][1] : i \in 1..n}
  <2>4. ASSUME NEW x \in KeysIn(rest) PROVE x \in KeysIn(es) \ gone
    BY <2>1, <2>3
  <2>5. ASSUME NEW x \in KeysIn(es) \ gone PROVE x \in KeysIn(rest)
    <3>1. PICK j \in 1..l : x = es[j][1]
      BY <2>3
    <3>2. \A i \in 1..n : es[i][1] # es[j][1]
      BY <3>1
    <3> QED
      BY <2>2, <2>3, <3>1, <3>2
  <2> QED
    BY <2>4, <2>5
<1> QED
  BY <1>2, <1>3, <1>5, <1>6 DEF rest


------------------------------------------------------------------------------
(* The cache *)

\* What holds of the cache between operations, in the terms of the lemmas above.
CacheInv ==
  /\ entries \in Entries /\ Distinct(entries)
  /\ totalBytes = Weight(entries)
  /\ totalBytes <= MaxBytes \/ Len(entries) = 1
  /\ expiries \in [CacheKeys -> Int \cup {Never}]
  /\ \A k \in CacheKeys : expiries[k] # Never => k \in KeysIn(entries)
  /\ now \in 0..MaxTime

LEMMA WeightEmpty ==
  ASSUME NEW es \in Entries, Len(es) = 0
  PROVE  Weight(es) = 0
<1> DEFINE f == Bytes(es)
<1>1. f \in [1..0 -> Int] /\ Weight(es) = SumFunctionOnSet(f, 1..0)
  BY BytesFacts
<1> HIDE DEF f
<1>2. 0 \in Nat
  OBVIOUS
<1> QED
  BY <1>1, <1>2, IntervalSums

\* The invariant is the one the runs check.
LEMMA CacheInvMeans == CacheInv => CacheTypeOK /\ BytesExact
<1> SUFFICES ASSUME CacheInv PROVE CacheTypeOK /\ BytesExact
  OBVIOUS
<1>1. Weight(entries) \in Nat
  BY WeightIsNat DEF CacheInv
<1>2. CacheTypeOK
  BY <1>1 DEF CacheInv, CacheTypeOK, Entries
<1>3. \A k \in CacheKeys : k \in KeysIn(entries) => Has(k)
  BY DEF KeysIn, Has
<1> QED
  BY <1>2, <1>3 DEF CacheInv, BytesExact, Distinct

\* The other entries.
LEMMA WithoutFacts ==
  ASSUME CacheInv, NEW k \in CacheKeys
  PROVE  /\ Without(k) \in Entries /\ Distinct(Without(k))
         /\ KeysIn(Without(k)) = KeysIn(entries) \ {k}
         /\ Weight(Without(k)) = totalBytes - Occupied(k)
         /\ Has(k) <=> k \in KeysIn(entries)
         /\ Has(k) => /\ Len(Without(k)) = Len(entries) - 1
                      /\ Value(k) \in CacheValues /\ Occupied(k) = Cost[k][Value(k)]
         /\ ~Has(k) => Without(k) = entries /\ Occupied(k) = 0
<1>1. entries \in Entries /\ Distinct(entries) /\ totalBytes = Weight(entries) /\ Weight(entries) \in Nat
  BY WeightIsNat DEF CacheInv
<1>2. Has(k) <=> k \in KeysIn(entries)
  BY DEF KeysIn, Has
<1>3. CASE Has(k)
  <2>1. At(k) \in 1..Len(entries) /\ entries[At(k)][1] = k
    BY <1>3 DEF Has, At
  <2>2. Value(k) \in CacheValues /\ Value(k) = entries[At(k)][2]
    BY <1>1, <2>1 DEF Value, Entries
  <2>3. Without(k) = RemoveAt(entries, At(k)) /\ Occupied(k) = Cost[k][Value(k)]
    BY <1>3 DEF Without, Occupied
  <2> DEFINE p == At(k)
  <2> HIDE DEF p
  <2>4. /\ RemoveAt(entries, p) \in Entries /\ Distinct(RemoveAt(entries, p))
        /\ KeysIn(RemoveAt(entries, p)) = KeysIn(entries) \ {entries[p][1]}
        /\ Len(RemoveAt(entries, p)) = Len(entries) - 1
        /\ Weight(RemoveAt(entries, p)) = Weight(entries) - Cost[entries[p][1]][entries[p][2]]
    BY <1>1, <2>1, RemovalFacts DEF p
  <2> QED
    BY <1>1, <1>2, <1>3, <2>1, <2>2, <2>3, <2>4 DEF p
<1>4. CASE ~Has(k)
  <2>1. Without(k) = entries /\ Occupied(k) = 0
    BY <1>4 DEF Without, Occupied
  <2> QED
    BY <1>1, <1>2, <1>4, <2>1
<1> QED
  BY <1>3, <1>4

LEMMA DropsInv ==
  ASSUME CacheInv, NEW k \in CacheKeys, Expired(k), Drops(k), UNCHANGED now
  PROVE  CacheInv'
<1>1. k \in KeysIn(entries)
  BY DEF Expired, CacheInv
<1>2. /\ entries' \in Entries /\ Distinct(entries')
      /\ KeysIn(entries') = KeysIn(entries) \ {k}
      /\ Weight(entries') = totalBytes - Occupied(k)
      /\ Len(entries') = Len(entries) - 1
      /\ Occupied(k) \in Nat
  <2>1. Occupied(k) = Cost[k][Value(k)] /\ Value(k) \in CacheValues
    BY <1>1, WithoutFacts
  <2>2. Occupied(k) \in Nat
    BY <2>1, CostAssumption
  <2> QED
    BY <1>1, <2>2, WithoutFacts DEF Drops
<1>3. totalBytes' = Weight(entries')
  BY <1>2 DEF Drops
<1>4. totalBytes' <= MaxBytes
  <2>1. CASE Len(entries) = 1
    <3>1. Weight(entries') = 0
      BY <1>2, <2>1, WeightEmpty
    <3> QED
      BY <1>3, <3>1, SizeAssumption
  <2>2. CASE totalBytes <= MaxBytes
    <3>1. totalBytes \in Nat
      BY WeightIsNat DEF CacheInv
    <3> QED
      BY <1>2, <1>3, <2>2, <3>1, SizeAssumption
  <2> QED
    BY <2>1, <2>2 DEF CacheInv
<1>5. /\ expiries' \in [CacheKeys -> Int \cup {Never}]
      /\ \A l \in CacheKeys : expiries'[l] # Never => l \in KeysIn(entries')
  BY <1>2 DEF Drops, CacheInv
<1> QED
  BY <1>2, <1>3, <1>4, <1>5 DEF CacheInv

LEMMA GetInv ==
  ASSUME CacheInv, NEW k \in CacheKeys, Get(k)
  PROVE  CacheInv'
<1>1. CASE Expired(k) /\ Drops(k)
  BY <1>1, DropsInv DEF Get
<1>2. CASE ~Expired(k) /\ Has(k) /\ entries' = Append(Without(k), <<k, Value(k)>>)
           /\ UNCHANGED <<totalBytes, expiries>>
  <2> DEFINE es == Without(k)
             v == Value(k)
  <2>1. /\ es \in Entries /\ Distinct(es) /\ v \in CacheValues
        /\ KeysIn(es) = KeysIn(entries) \ {k} /\ k \in KeysIn(entries)
        /\ Weight(es) = totalBytes - Cost[k][v] /\ Len(es) = Len(entries) - 1
    BY <1>2, WithoutFacts
  <2>2. entries' = Append(es, <<k, v>>)
    BY <1>2
  <2> HIDE DEF es, v
  <2>3. k \notin KeysIn(es)
    BY <2>1
  <2>4. /\ entries' \in Entries /\ Distinct(entries') /\ KeysIn(entries') = KeysIn(es) \cup {k}
        /\ Len(entries') = Len(es) + 1 /\ Weight(entries') = Weight(es) + Cost[k][v]
    BY <2>1, <2>2, <2>3, AppendFacts
  <2>5. KeysIn(entries') = KeysIn(entries)
    BY <2>1, <2>4
  <2>6. Len(entries') = Len(entries)
    BY <2>1, <2>4 DEF CacheInv, Entries
  <2>7. Weight(entries') = totalBytes
    <3>1. totalBytes \in Nat /\ Cost[k][v] \in Nat
      BY <2>1, WeightIsNat, CostAssumption DEF CacheInv
    <3> QED
      BY <2>1, <2>4, <3>1
  <2> QED
    BY <1>2, <2>4, <2>5, <2>6, <2>7 DEF Get, CacheInv
<1>3. CASE ~Expired(k) /\ ~Has(k) /\ expiries' = [expiries EXCEPT ![k] = Never]
           /\ UNCHANGED <<entries, totalBytes>>
  <2>1. \A l \in CacheKeys : expiries'[l] # Never => expiries[l] # Never
    BY <1>3 DEF CacheInv
  <2>2. expiries' \in [CacheKeys -> Int \cup {Never}]
    BY <1>3 DEF CacheInv
  <2> QED
    BY <1>3, <2>1, <2>2 DEF CacheInv, Get
<1> QED
  BY <1>1, <1>2, <1>3 DEF Get

\* The count of evictions: the entry that was just set always stays.
LEMMA EvictedFacts ==
  ASSUME NEW es \in Entries, Len(es) > 0, NEW bytes \in Int
  PROVE  /\ Evicted(es, bytes) \in 0..(Len(es) - 1)
         /\ \/ bytes - Weight(SubSeq(es, 1, Evicted(es, bytes))) <= MaxBytes
            \/ Evicted(es, bytes) = Len(es) - 1
<1> DEFINE last == Len(es) - 1
           left(n) == bytes - Weight(SubSeq(es, 1, n))
           Enough == {n \in 0..last : left(n) <= MaxBytes \/ n = last}
<1>1. last \in Nat /\ Enough \subseteq Nat /\ last \in Enough
  BY DEF Entries
<1>2. \A n \in 0..last : left(n) \in Int
  <2> SUFFICES ASSUME NEW n \in 0..last PROVE left(n) \in Int
    OBVIOUS
  <2>1. n \in 0..Len(es)
    BY <1>1 DEF Entries
  <2>2. SubSeq(es, 1, n) \in Entries
    BY <2>1, SplitAt
  <2>3. Weight(SubSeq(es, 1, n)) \in Nat
    BY <2>2, WeightIsNat
  <2> QED
    BY <2>3
<1>3. PICK n \in Enough : \A m \in Enough : n <= m
  <2> HIDE DEF Enough, last
  <2> QED
    BY <1>1, LeastNumber
<1>4. n \in 0..last /\ (left(n) <= MaxBytes \/ n = last) /\ \A m \in 0..(n - 1) : left(m) > MaxBytes
  <2>1. ASSUME NEW m \in 0..(n - 1) PROVE left(m) > MaxBytes
    <3>1. m \in 0..last /\ ~(n <= m)
      BY <1>1, <1>3
    <3>2. m \notin Enough
      BY <1>3, <3>1
    <3> HIDE DEF left
    <3> QED
      BY <1>2, <3>1, <3>2, SizeAssumption
  <2> QED
    BY <1>3, <2>1
<1>5. /\ Evicted(es, bytes) \in 0..last
      /\ left(Evicted(es, bytes)) <= MaxBytes \/ Evicted(es, bytes) = last
  BY <1>4 DEF Evicted
<1> QED
  BY <1>5

LEMMA SetInv ==
  ASSUME CacheInv, NEW k \in CacheKeys, NEW v \in CacheValues, NEW ttl \in Int \cup {Never},
         Set(k, v, ttl)
  PROVE  CacheInv'
<1> DEFINE before == Without(k)
           es == Append(before, <<k, v>>)
           l == Len(es)
           bytes == totalBytes - Occupied(k) + Cost[k][v]
           n == Evicted(es, bytes)
           first == SubSeq(es, 1, n)
           gone == {es[i][1] : i \in 1..n}
<1>1. /\ entries' = SubSeq(es, n + 1, l)
      /\ totalBytes' = bytes - Weight(first)
      /\ expiries' = [m \in CacheKeys |->
           IF m = k THEN IF ttl = Never THEN Never ELSE now + ttl
           ELSE IF m \in gone THEN Never ELSE expiries[m]]
      /\ now' = now
  BY DEF Set
<1>2. /\ before \in Entries /\ Distinct(before) /\ KeysIn(before) = KeysIn(entries) \ {k}
      /\ Weight(before) = totalBytes - Occupied(k) /\ Weight(before) \in Nat
  BY WithoutFacts, WeightIsNat
<1>3. bytes = Weight(before) + Cost[k][v] /\ Cost[k][v] \in Nat
  BY <1>2, CostAssumption
<1> HIDE DEF before, bytes
<1>4. k \notin KeysIn(before)
  BY <1>2
<1>5. /\ es \in Entries /\ Distinct(es) /\ KeysIn(es) = KeysIn(before) \cup {k}
      /\ l = Len(before) + 1 /\ es[l] = <<k, v>> /\ Weight(es) = bytes
  BY <1>2, <1>3, <1>4, AppendFacts
<1>6. l \in Nat /\ l > 0 /\ bytes \in Int
  BY <1>2, <1>3, <1>5 DEF Entries
<1> HIDE DEF es
<1>7. n \in 0..(l - 1) /\ (bytes - Weight(first) <= MaxBytes \/ n = l - 1)
  BY <1>5, <1>6, EvictedFacts
<1> HIDE DEF n, first
<1>8. /\ entries' \in Entries /\ Distinct(entries') /\ Len(entries') = l - n
      /\ KeysIn(entries') = KeysIn(es) \ gone
      /\ Weight(entries') = Weight(es) - Weight(first)
  <2>1. n \in 0..Len(es)
    BY <1>6, <1>7
  <2> QED
    BY <1>1, <1>5, <2>1, EvictionFacts DEF first
<1> HIDE DEF l
<1>9. totalBytes' = Weight(entries') /\ (totalBytes' <= MaxBytes \/ Len(entries') = 1)
  <2>1. n = l - 1 => l - n = 1
    BY <1>6
  <2> QED
    BY <1>1, <1>5, <1>7, <1>8, <2>1
<1>10. k \notin gone
  <2> SUFFICES ASSUME NEW i \in 1..n PROVE es[i][1] # k
    OBVIOUS
  <2>1. i \in 1..l /\ l \in 1..l /\ i # l
    BY <1>6, <1>7
  <2>2. es[l][1] = k
    BY <1>5
  <2> QED
    BY <1>5, <2>1, <2>2 DEF Distinct, l
<1> HIDE DEF gone
<1>11. expiries' \in [CacheKeys -> Int \cup {Never}]
  <2>1. ttl # Never => now + ttl \in Int
    BY SizeAssumption DEF CacheInv
  <2>2. ASSUME NEW m \in CacheKeys PROVE expiries'[m] \in Int \cup {Never}
    BY <1>1, <2>1 DEF CacheInv
  <2> QED
    BY <1>1, <2>2
<1>12. ASSUME NEW m \in CacheKeys, expiries'[m] # Never PROVE m \in KeysIn(entries')
  <2>1. CASE m = k
    BY <1>5, <1>8, <1>10, <2>1
  <2>2. CASE m # k
    <3>1. m \notin gone /\ expiries[m] # Never
      BY <1>1, <1>12, <2>2
    <3>2. m \in KeysIn(entries)
      BY <3>1 DEF CacheInv
    <3> QED
      BY <1>2, <1>5, <1>8, <2>2, <3>1, <3>2
  <2> QED
    BY <2>1, <2>2
<1> QED
  BY <1>1, <1>8, <1>9, <1>11, <1>12 DEF CacheInv


------------------------------------------------------------------------------
(* The cache under decodedArray() *)

\* The L2 cache is asked and written for keys that it has.
KeyedInv == \A c \in Calls : pc[c] \in {"lookup", "write"} => KeyOf[c] \in Shared

LEMMA KeyedStep ==
  ASSUME CallsTypeOK, KeyedInv, [Next]_vars
  PROVE  KeyedInv'
<1>1. CASE UNCHANGED vars
  BY <1>1 DEF vars, callVars, KeyedInv
<1>2. ASSUME NEW c \in Calls, L1Hits(c) \/ Joins(c) \/ Loads(c) \/ LoadStep(c) \/ JoinedSettles(c)
      PROVE  KeyedInv'
  <2>1. \E at : pc' = [pc EXCEPT ![c] = at] /\ (at \in {"lookup", "write"} => KeyOf[c] \in Shared)
    BY <1>2 DEF KeyedInv, L1Hits, Joins, Loads, LoadStep, JoinedSettles, L2Hits, L2Misses, L2Throws,
                Decodes, ReadFails, Writes, WriteThrows, Ends, MovesTo
  <2> QED
    BY <2>1 DEF KeyedInv, CallsTypeOK
<1>3. ASSUME NEW h \in Handles, Dispose(h) PROVE KeyedInv'
  BY <1>3 DEF Dispose, KeyedInv
<1>4. CASE MetadataAccess \/ TimePasses
  BY <1>4 DEF MetadataAccess, TimePasses, callVars, KeyedInv
<1> QED
  BY <1>1, <1>2, <1>3, <1>4 DEF Next

LEMMA CacheStep ==
  ASSUME CacheInv, KeyedInv, [Next]_vars
  PROVE  CacheInv'
<1>1. ASSUME UNCHANGED cacheVars PROVE CacheInv'
  BY <1>1 DEF cacheVars, CacheInv
<1>2. ASSUME NEW c \in Calls, L1Hits(c) \/ Joins(c) \/ Loads(c) \/ JoinedSettles(c) PROVE CacheInv'
  BY <1>1, <1>2 DEF L1Hits, Joins, Loads, JoinedSettles
<1>3. ASSUME NEW c \in Calls, LoadStep(c) PROVE CacheInv'
  <2>1. CASE L2Throws(c) \/ Decodes(c) \/ ReadFails(c) \/ WriteThrows(c)
    BY <1>1, <2>1 DEF L2Throws, Decodes, ReadFails, WriteThrows
  <2>2. CASE L2Hits(c) \/ L2Misses(c)
    <3>1. KeyOf[c] \in CacheKeys /\ Get(KeyOf[c])
      BY <2>2, CallsAssumption DEF L2Hits, L2Misses, KeyedInv
    <3> QED
      BY <3>1, GetInv
  <2>3. CASE Writes(c)
    <3>1. KeyOf[c] \in Shared /\ Set(KeyOf[c], "array", Ttl[KeyOf[c]])
      BY <2>3 DEF Writes, KeyedInv
    <3>2. KeyOf[c] \in CacheKeys /\ "array" \in CacheValues /\ Ttl[KeyOf[c]] \in Int \cup {Never}
      BY <3>1, CallsAssumption, EntriesAssumption
    <3> QED
      BY <3>1, <3>2, SetInv
  <2> QED
    BY <1>3, <2>1, <2>2, <2>3 DEF LoadStep
<1>4. ASSUME NEW h \in Handles, Dispose(h) PROVE CacheInv'
  BY <1>1, <1>4 DEF Dispose
<1>5. CASE MetadataAccess
  <2>1. PICK k \in CacheKeys : Get(k) \/ \E v \in CacheValues : Set(k, v, MetadataTtl)
    BY <1>5 DEF MetadataAccess
  <2> QED
    BY <2>1, GetInv, SetInv, EntriesAssumption
<1>6. CASE TimePasses
  BY <1>6, SizeAssumption DEF TimePasses, Tick, CacheInv
<1>7. CASE UNCHANGED vars
  BY <1>1, <1>7 DEF vars
<1> QED
  BY <1>2, <1>3, <1>4, <1>5, <1>6, <1>7 DEF Next

LEMMA InitCache == Init => CacheInv /\ KeyedInv
<1> SUFFICES ASSUME Init PROVE CacheInv /\ KeyedInv
  OBVIOUS
<1>1. entries \in Entries /\ Len(entries) = 0 /\ Distinct(entries)
  BY DEF Init, CacheInit, Entries, Distinct
<1>2. Weight(entries) = 0
  BY <1>1, WeightEmpty
<1>3. CacheInv
  BY <1>1, <1>2, SizeAssumption DEF Init, CacheInit, CacheInv
<1>4. KeyedInv
  BY DEF Init, KeyedInv
<1> QED
  BY <1>3, <1>4

\* The cache keeps its invariant under every interleaving of the calls.
LEMMA CacheInvariance == Spec => []CacheInv
<1>1. Inv /\ CacheInv /\ KeyedInv /\ [Next]_vars => Inv' /\ CacheInv' /\ KeyedInv'
  BY StepInv, CacheStep, KeyedStep DEF Inv
<1>2. Init => Inv /\ CacheInv /\ KeyedInv
  BY InitInv, InitCache
<1> QED
  BY <1>1, <1>2, PTL DEF Spec

\* The byte count of MemoryCache is that of its entries, each key's once, within the
\* bound but for a single entry, and no expiry outlives its entry, whatever the
\* costs, the bound, the times to live and the order of the accesses.
THEOREM BytesAreExact == Spec => []BytesExact
<1>1. CacheInv => BytesExact
  BY CacheInvMeans
<1> QED
  BY <1>1, CacheInvariance, PTL

\* The variables of decodedArray() and of the cache have their types.
THEOREM TypeCorrect == Spec => []TypeOK
<1>1. CacheInv /\ Inv => TypeOK
  BY CacheInvMeans DEF Inv, TypeOK
<1> QED
  BY <1>1, CacheInvariance, Invariance, PTL
==============================================================================
