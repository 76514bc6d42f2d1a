------------------------ MODULE DatasetRegistryProofs ------------------------
(***************************************************************************)
(* Theorems about DatasetRegistry, for every set of ids, readers and       *)
(* closers, every number of handles and every cap.                         *)
(***************************************************************************)
EXTENDS DatasetRegistry, SequenceTheorems, TLAPS

\* A handle's directory is that of one of the ids.
LEMMA DirType == \A h \in Handles : Dir(h) \in Ids
BY DEF Handles, Dir

\* Moving an element of a sequence to its end keeps the length and permutes
\* the elements.
LEMMA TouchLemma ==
  ASSUME NEW s \in Seq(Handles), NEW i \in 1..Len(s)
  PROVE  /\ Touch(s, i) \in Seq(Handles)
         /\ Len(Touch(s, i)) = Len(s)
         /\ \A j \in 1..Len(s) :
              Touch(s, i)[j] = IF j < i THEN s[j]
                               ELSE IF j < Len(s) THEN s[j+1] ELSE s[i]
<1> DEFINE t == Touch(s, i)
<1> DEFINE a == SubSeq(s, 1, i - 1)
           b == SubSeq(s, i + 1, Len(s))
<1>1. /\ a \in Seq(Handles) /\ Len(a) = i - 1
      /\ \A j \in 1..(i - 1) : a[j] = s[j]
  OBVIOUS
<1>2. /\ b \in Seq(Handles) /\ Len(b) = Len(s) - i
      /\ \A j \in 1..(Len(s) - i) : b[j] = s[i + j]
  OBVIOUS
<1>3. RemoveAt(s, i) = a \o b
  BY DEF RemoveAt
<1> HIDE DEF a, b
<1>4. /\ a \o b \in Seq(Handles) /\ Len(a \o b) = Len(s) - 1
      /\ \A j \in 1..(Len(s) - 1) : (a \o b)[j] = IF j < i THEN s[j] ELSE s[j+1]
  <2>1. /\ a \o b \in Seq(Handles) /\ Len(a \o b) = Len(s) - 1
        /\ \A j \in 1..(Len(s) - 1) :
             (a \o b)[j] = IF j <= i - 1 THEN a[j] ELSE b[j - (i - 1)]
    <3>1. Len(a) + Len(b) = Len(s) - 1
      BY <1>1, <1>2
    <3>2. a \in Seq(Handles) /\ b \in Seq(Handles) /\ Len(a) = i - 1
      BY <1>1, <1>2
    <3>3. /\ a \o b \in Seq(Handles) /\ Len(a \o b) = Len(a) + Len(b)
          /\ \A j \in 1..(Len(a) + Len(b)) :
               (a \o b)[j] = IF j <= Len(a) THEN a[j] ELSE b[j - Len(a)]
      BY <3>2, ConcatProperties
    <3> QED
      BY <3>1, <3>2, <3>3
  <2>2. ASSUME NEW j \in 1..(Len(s) - 1)
        PROVE  (a \o b)[j] = IF j < i THEN s[j] ELSE s[j+1]
    <3>1. CASE j < i
      BY <1>1, <2>1, <3>1
    <3>2. CASE j >= i
      <4>1. j - (i - 1) \in 1..(Len(s) - i) /\ i + (j - (i - 1)) = j + 1
        BY <3>2
      <4> QED
        BY <1>2, <2>1, <3>2, <4>1
    <3>3. j < i \/ j >= i
      OBVIOUS
    <3> QED
      BY <3>1, <3>2, <3>3
  <2> QED
    BY <2>1, <2>2
<1>5. t = Append(a \o b, s[i]) /\ s[i] \in Handles
  BY <1>3 DEF Touch
<1> DEFINE c == a \o b
<1>6. c \in Seq(Handles) /\ Len(c) = Len(s) - 1 /\ t = Append(c, s[i]) /\ Len(s) \in Nat
  BY <1>4, <1>5
<1> HIDE DEF c, t
<1>7. /\ t \in Seq(Handles) /\ Len(t) = Len(s)
      /\ \A j \in 1..(Len(s) - 1) : t[j] = c[j]
      /\ t[Len(s)] = s[i]
  BY <1>5, <1>6
<1>8. \A j \in 1..(Len(s) - 1) : t[j] = IF j < i THEN s[j] ELSE s[j+1]
  BY <1>4, <1>7 DEF c
<1>9. \A j \in 1..Len(s) : j \in 1..(Len(s) - 1) \/ j = Len(s)
  BY <1>6
<1> QED
  BY <1>6, <1>7, <1>8, <1>9 DEF t

\* OpenNew preserves the inductive invariant.
LEMMA OpenNewStep ==
  ASSUME Inv, NEW h \in Handles, OpenNew(h)
  PROVE  Inv'
<1> USE DirType DEF Inv, OpenNew, Phases, Closed, Settled, registryVars, storeVars, closerVars
<1>1. TypeOK'
  BY DEF TypeOK
<1>2. MapsInv'
  <2>1. h # NoHandle /\ teardowns[Dir(h)] # h
    BY NoHandleAssumption DEF MapsInv, TypeOK
  <2>2. \A x \in Handles : phase'[x] \in {"waiting", "building"} => inflight'[Dir(x)] = x
    BY NoHandleAssumption DEF MapsInv, TypeOK
  <2>3. \A id \in Ids : inflight'[id] # NoHandle => Dir(inflight'[id]) = id
    BY DEF MapsInv, TypeOK
  <2>4. \A x \in Handles : phase'[x] \in {"draining", "removing"} <=> teardowns'[Dir(x)] = x
    BY <2>1 DEF MapsInv, TypeOK
  <2> QED
    BY <2>2, <2>3, <2>4 DEF MapsInv
<1>3. EntriesInv'
  BY DEF EntriesInv, TypeOK
<1>4. TenancyInv'
  <2>1. \A x \in Handles : Dir(x) = Dir(h) => phase[x] \notin {"waiting", "building", "live"}
    <3>1. \A x \in Handles : Dir(x) = Dir(h) => phase[x] \notin {"waiting", "building"}
      BY NoHandleAssumption DEF MapsInv
    <3>2. \A x \in Handles : Dir(x) = Dir(h) => phase[x] # "live"
      BY DEF EntriesInv
    <3> QED
      BY <3>1, <3>2
  <2>2. \A x \in Handles : x # h => phase'[x] = phase[x] /\ awaits'[x] = awaits[x]
    BY DEF TypeOK
  <2>3. /\ awaits'[h] = teardowns[Dir(h)]
        /\ phase'[h] = IF teardowns[Dir(h)] = NoHandle THEN "building" ELSE "waiting"
    BY DEF TypeOK
  <2>4. teardowns[Dir(h)] # NoHandle => /\ teardowns[Dir(h)] \in Handles \ {h}
                                        /\ phase[teardowns[Dir(h)]] \in Closed
    BY DEF TypeOK, MapsInv
  <2>5. \A h1, h2 \in Handles :
           /\ Dir(h1) = Dir(h2)
           /\ phase'[h1] \in {"waiting", "building", "live"}
           /\ phase'[h2] \in {"waiting", "building", "live"}
           => h1 = h2
    BY <2>1, <2>2 DEF TenancyInv
  <2>6. \A x \in Handles : phase'[x] \in {"building", "live"} => teardowns'[Dir(x)] = NoHandle
    BY <2>2, <2>3 DEF TenancyInv
  <2>7. ASSUME NEW x \in Handles, phase'[x] = "waiting"
        PROVE  /\ awaits'[x] \in Handles
               /\ phase'[awaits'[x]] \in Closed
               /\ teardowns'[Dir(x)] \in {NoHandle, awaits'[x]}
    <3>1. CASE x = h
      BY <2>2, <2>3, <2>4, <2>7, <3>1
    <3>2. CASE x # h
      BY <2>2, <2>7, <3>2 DEF TenancyInv
    <3> QED
      BY <3>1, <3>2
  <2> QED
    BY <2>5, <2>6, <2>7 DEF TenancyInv
<1>5. ReadersInv'
  BY DEF ReadersInv, TypeOK, TenancyInv
<1>6. ClosersInv'
  BY DEF ClosersInv, TypeOK, MapsInv, EntriesInv
<1>7. NoResurrection'
  BY DEF NoResurrection, TypeOK, ReadersInv
<1>8. ReturnedMeansTornDown'
  BY DEF ReturnedMeansTornDown, TypeOK, ClosersInv, MapsInv, EntriesInv
<1> QED
  BY <1>1, <1>2, <1>3, <1>4, <1>5, <1>6, <1>7, <1>8


\* StartBuild preserves the inductive invariant.
LEMMA StartBuildStep ==
  ASSUME Inv, NEW h \in Handles, StartBuild(h)
  PROVE  Inv'
<1> USE DirType DEF Inv, StartBuild, Phases, Closed, Settled, registryVars, storeVars, closerVars
<1>1. TypeOK'
  BY DEF TypeOK
<1>2. MapsInv'
  BY DEF MapsInv, TypeOK
<1>3. EntriesInv'
  BY DEF EntriesInv, TypeOK
<1>4. TenancyInv'
  BY DEF TenancyInv, TypeOK, MapsInv, EntriesInv
<1>5. ReadersInv'
  BY DEF ReadersInv, TypeOK, TenancyInv
<1>6. ClosersInv'
  BY DEF ClosersInv, TypeOK, MapsInv, EntriesInv
<1>7. NoResurrection'
  BY DEF NoResurrection, TypeOK, ReadersInv
<1>8. ReturnedMeansTornDown'
  BY DEF ReturnedMeansTornDown, TypeOK, ClosersInv, MapsInv, EntriesInv
<1> QED
  BY <1>1, <1>2, <1>3, <1>4, <1>5, <1>6, <1>7, <1>8


\* BuildFails preserves the inductive invariant.
LEMMA BuildFailsStep ==
  ASSUME Inv, NEW h \in Handles, BuildFails(h)
  PROVE  Inv'
<1> USE DirType DEF Inv, BuildFails, Phases, Closed, Settled, registryVars, storeVars, closerVars
<1>1. TypeOK'
  BY DEF TypeOK
<1>2. MapsInv'
  BY DEF MapsInv, TypeOK
<1>3. EntriesInv'
  BY DEF EntriesInv, TypeOK
<1>4. TenancyInv'
  BY DEF TenancyInv, TypeOK, MapsInv, EntriesInv
<1>5. ReadersInv'
  BY DEF ReadersInv, TypeOK, TenancyInv
<1>6. ClosersInv'
  BY DEF ClosersInv, TypeOK, MapsInv, EntriesInv
<1>7. NoResurrection'
  BY DEF NoResurrection, TypeOK, ReadersInv
<1>8. ReturnedMeansTornDown'
  BY DEF ReturnedMeansTornDown, TypeOK, ClosersInv, MapsInv, EntriesInv
<1> QED
  BY <1>1, <1>2, <1>3, <1>4, <1>5, <1>6, <1>7, <1>8


\* OpenSettles preserves the inductive invariant.
LEMMA OpenSettlesStep ==
  ASSUME Inv, NEW h \in Handles, OpenSettles(h)
  PROVE  Inv'
<1> USE DirType DEF Inv, OpenSettles, Phases, Closed, Settled, registryVars, storeVars, closerVars
<1>1. TypeOK'
  BY DEF TypeOK
<1>2. MapsInv'
  BY DEF MapsInv, TypeOK
<1>3. EntriesInv'
  BY DEF EntriesInv, TypeOK
<1>4. TenancyInv'
  BY DEF TenancyInv, TypeOK, MapsInv, EntriesInv
<1>5. ReadersInv'
  BY DEF ReadersInv, TypeOK, TenancyInv
<1>6. ClosersInv'
  BY DEF ClosersInv, TypeOK, MapsInv, EntriesInv
<1>7. NoResurrection'
  BY DEF NoResurrection, TypeOK, ReadersInv
<1>8. ReturnedMeansTornDown'
  BY DEF ReturnedMeansTornDown, TypeOK, ClosersInv, MapsInv, EntriesInv
<1> QED
  BY <1>1, <1>2, <1>3, <1>4, <1>5, <1>6, <1>7, <1>8


\* StartRemove preserves the inductive invariant.
LEMMA StartRemoveStep ==
  ASSUME Inv, NEW h \in Handles, StartRemove(h)
  PROVE  Inv'
<1> USE DirType DEF Inv, StartRemove, Phases, Closed, Settled, registryVars, storeVars, closerVars
<1>1. TypeOK'
  BY DEF TypeOK
<1>2. MapsInv'
  BY DEF MapsInv, TypeOK
<1>3. EntriesInv'
  BY DEF EntriesInv, TypeOK
<1>4. TenancyInv'
  BY DEF TenancyInv, TypeOK, MapsInv, EntriesInv
<1>5. ReadersInv'
  BY DEF ReadersInv, TypeOK, TenancyInv
<1>6. ClosersInv'
  BY DEF ClosersInv, TypeOK, MapsInv, EntriesInv
<1>7. NoResurrection'
  BY DEF NoResurrection, TypeOK, ReadersInv
<1>8. ReturnedMeansTornDown'
  BY DEF ReturnedMeansTornDown, TypeOK, ClosersInv, MapsInv, EntriesInv
<1> QED
  BY <1>1, <1>2, <1>3, <1>4, <1>5, <1>6, <1>7, <1>8


\* RemoveSucceeds preserves the inductive invariant.
LEMMA RemoveSucceedsStep ==
  ASSUME Inv, NEW h \in Handles, RemoveSucceeds(h)
  PROVE  Inv'
<1> USE DirType DEF Inv, RemoveSucceeds, Phases, Closed, Settled, registryVars, storeVars, closerVars, Untrack
<1>1. TypeOK'
  BY DEF TypeOK
<1>2. MapsInv'
  BY NoHandleAssumption DEF MapsInv, TypeOK
<1>3. EntriesInv'
  BY DEF EntriesInv, TypeOK
<1>4. TenancyInv'
  BY DEF TenancyInv, TypeOK, MapsInv, EntriesInv
<1>5. ReadersInv'
  BY DEF ReadersInv, TypeOK, TenancyInv
<1>6. ClosersInv'
  BY DEF ClosersInv, TypeOK, MapsInv, EntriesInv
<1>7. NoResurrection'
  BY DEF NoResurrection, TypeOK, ReadersInv
<1>8. ReturnedMeansTornDown'
  BY DEF ReturnedMeansTornDown, TypeOK, ClosersInv, MapsInv, EntriesInv
<1> QED
  BY <1>1, <1>2, <1>3, <1>4, <1>5, <1>6, <1>7, <1>8


\* RemoveFails preserves the inductive invariant.
LEMMA RemoveFailsStep ==
  ASSUME Inv, NEW h \in Handles, RemoveFails(h)
  PROVE  Inv'
<1> USE DirType DEF Inv, RemoveFails, Phases, Closed, Settled, registryVars, storeVars, closerVars, Untrack
<1>1. TypeOK'
  BY DEF TypeOK
<1>2. MapsInv'
  BY NoHandleAssumption DEF MapsInv, TypeOK
<1>3. EntriesInv'
  BY DEF EntriesInv, TypeOK
<1>4. TenancyInv'
  BY DEF TenancyInv, TypeOK, MapsInv, EntriesInv
<1>5. ReadersInv'
  BY DEF ReadersInv, TypeOK, TenancyInv
<1>6. ClosersInv'
  BY DEF ClosersInv, TypeOK, MapsInv, EntriesInv
<1>7. NoResurrection'
  BY DEF NoResurrection, TypeOK, ReadersInv
<1>8. ReturnedMeansTornDown'
  BY DEF ReturnedMeansTornDown, TypeOK, ClosersInv, MapsInv, EntriesInv
<1> QED
  BY <1>1, <1>2, <1>3, <1>4, <1>5, <1>6, <1>7, <1>8


\* StartRead preserves the inductive invariant.
LEMMA StartReadStep ==
  ASSUME Inv, NEW r \in Readers, NEW h \in Handles, StartRead(r, h)
  PROVE  Inv'
<1> USE DirType DEF Inv, StartRead, Phases, Closed, Settled, registryVars, storeVars, closerVars, ReaderPcs
<1>1. TypeOK'
  BY DEF TypeOK
<1>2. MapsInv'
  BY DEF MapsInv, TypeOK
<1>3. EntriesInv'
  BY DEF EntriesInv, TypeOK
<1>4. TenancyInv'
  BY DEF TenancyInv, TypeOK, MapsInv, EntriesInv
<1>5. ReadersInv'
  BY DEF ReadersInv, TypeOK, TenancyInv
<1>6. ClosersInv'
  BY DEF ClosersInv, TypeOK, MapsInv, EntriesInv
<1>7. NoResurrection'
  BY DEF NoResurrection, TypeOK, ReadersInv
<1>8. ReturnedMeansTornDown'
  BY DEF ReturnedMeansTornDown, TypeOK, ClosersInv, MapsInv, EntriesInv
<1> QED
  BY <1>1, <1>2, <1>3, <1>4, <1>5, <1>6, <1>7, <1>8


\* LookupHit preserves the inductive invariant.
LEMMA LookupHitStep ==
  ASSUME Inv, NEW r \in Readers, LookupHit(r)
  PROVE  Inv'
<1> USE DirType DEF Inv, LookupHit, Phases, Closed, Settled, registryVars, storeVars, closerVars, ReaderPcs, ReadDone
<1>1. TypeOK'
  BY DEF TypeOK
<1>2. MapsInv'
  BY DEF MapsInv, TypeOK
<1>3. EntriesInv'
  BY DEF EntriesInv, TypeOK
<1>4. TenancyInv'
  BY DEF TenancyInv, TypeOK, MapsInv, EntriesInv
<1>5. ReadersInv'
  BY DEF ReadersInv, TypeOK, TenancyInv
<1>6. ClosersInv'
  BY DEF ClosersInv, TypeOK, MapsInv, EntriesInv
<1>7. NoResurrection'
  BY DEF NoResurrection, TypeOK, ReadersInv
<1>8. ReturnedMeansTornDown'
  BY DEF ReturnedMeansTornDown, TypeOK, ClosersInv, MapsInv, EntriesInv
<1> QED
  BY <1>1, <1>2, <1>3, <1>4, <1>5, <1>6, <1>7, <1>8


\* LookupMiss preserves the inductive invariant.
LEMMA LookupMissStep ==
  ASSUME Inv, NEW r \in Readers, LookupMiss(r)
  PROVE  Inv'
<1> USE DirType DEF Inv, LookupMiss, Phases, Closed, Settled, registryVars, storeVars, closerVars, ReaderPcs
<1>1. TypeOK'
  BY DEF TypeOK
<1>2. MapsInv'
  BY DEF MapsInv, TypeOK
<1>3. EntriesInv'
  BY DEF EntriesInv, TypeOK
<1>4. TenancyInv'
  BY DEF TenancyInv, TypeOK, MapsInv, EntriesInv
<1>5. ReadersInv'
  BY DEF ReadersInv, TypeOK, TenancyInv
<1>6. ClosersInv'
  BY DEF ClosersInv, TypeOK, MapsInv, EntriesInv
<1>7. NoResurrection'
  BY DEF NoResurrection, TypeOK, ReadersInv
<1>8. ReturnedMeansTornDown'
  BY DEF ReturnedMeansTornDown, TypeOK, ClosersInv, MapsInv, EntriesInv
<1> QED
  BY <1>1, <1>2, <1>3, <1>4, <1>5, <1>6, <1>7, <1>8


\* FetchSkipsWrite preserves the inductive invariant.
LEMMA FetchSkipsWriteStep ==
  ASSUME Inv, NEW r \in Readers, FetchSkipsWrite(r)
  PROVE  Inv'
<1> USE DirType DEF Inv, FetchSkipsWrite, Phases, Closed, Settled, registryVars, storeVars, closerVars, ReaderPcs, ReadDone
<1>1. TypeOK'
  BY DEF TypeOK
<1>2. MapsInv'
  BY DEF MapsInv, TypeOK
<1>3. EntriesInv'
  BY DEF EntriesInv, TypeOK
<1>4. TenancyInv'
  BY DEF TenancyInv, TypeOK, MapsInv, EntriesInv
<1>5. ReadersInv'
  BY DEF ReadersInv, TypeOK, TenancyInv
<1>6. ClosersInv'
  BY DEF ClosersInv, TypeOK, MapsInv, EntriesInv
<1>7. NoResurrection'
  BY DEF NoResurrection, TypeOK, ReadersInv
<1>8. ReturnedMeansTornDown'
  BY DEF ReturnedMeansTornDown, TypeOK, ClosersInv, MapsInv, EntriesInv
<1> QED
  BY <1>1, <1>2, <1>3, <1>4, <1>5, <1>6, <1>7, <1>8


\* FetchWrites preserves the inductive invariant.
LEMMA FetchWritesStep ==
  ASSUME Inv, NEW r \in Readers, FetchWrites(r)
  PROVE  Inv'
<1> USE DirType DEF Inv, FetchWrites, Phases, Closed, Settled, registryVars, storeVars, closerVars, ReaderPcs
<1>1. TypeOK'
  BY DEF TypeOK
<1>2. MapsInv'
  BY DEF MapsInv, TypeOK
<1>3. EntriesInv'
  BY DEF EntriesInv, TypeOK
<1>4. TenancyInv'
  BY DEF TenancyInv, TypeOK, MapsInv, EntriesInv
<1>5. ReadersInv'
  BY DEF ReadersInv, TypeOK, TenancyInv
<1>6. ClosersInv'
  BY DEF ClosersInv, TypeOK, MapsInv, EntriesInv
<1>7. NoResurrection'
  BY DEF NoResurrection, TypeOK, ReadersInv
<1>8. ReturnedMeansTornDown'
  BY DEF ReturnedMeansTornDown, TypeOK, ClosersInv, MapsInv, EntriesInv
<1> QED
  BY <1>1, <1>2, <1>3, <1>4, <1>5, <1>6, <1>7, <1>8


\* WriteDone preserves the inductive invariant.
LEMMA WriteDoneStep ==
  ASSUME Inv, NEW r \in Readers, WriteDone(r)
  PROVE  Inv'
<1> USE DirType DEF Inv, WriteDone, Phases, Closed, Settled, registryVars, storeVars, closerVars, ReaderPcs, ReadDone
<1>1. TypeOK'
  BY DEF TypeOK, ReadersInv
<1>2. MapsInv'
  BY DEF MapsInv, TypeOK
<1>3. EntriesInv'
  BY DEF EntriesInv, TypeOK
<1>4. TenancyInv'
  BY DEF TenancyInv, TypeOK, MapsInv, EntriesInv
<1>5. ReadersInv'
  BY DEF ReadersInv, TypeOK, TenancyInv
<1>6. ClosersInv'
  BY DEF ClosersInv, TypeOK, MapsInv, EntriesInv
<1>7. NoResurrection'
  BY DEF NoResurrection, TypeOK, ReadersInv
<1>8. ReturnedMeansTornDown'
  BY DEF ReturnedMeansTornDown, TypeOK, ClosersInv, MapsInv, EntriesInv
<1> QED
  BY <1>1, <1>2, <1>3, <1>4, <1>5, <1>6, <1>7, <1>8


\* ClearDrains preserves the inductive invariant.
LEMMA ClearDrainsStep ==
  ASSUME Inv, NEW c \in Closers, ClearDrains(c)
  PROVE  Inv'
<1> USE DirType DEF Inv, ClearDrains, Phases, Closed, Settled, registryVars, storeVars, closerVars, CloserPcs, Tracked
<1>1. TypeOK'
  BY DEF TypeOK
<1>2. MapsInv'
  BY DEF MapsInv, TypeOK
<1>3. EntriesInv'
  BY DEF EntriesInv, TypeOK
<1>4. TenancyInv'
  BY DEF TenancyInv, TypeOK, MapsInv, EntriesInv
<1>5. ReadersInv'
  BY DEF ReadersInv, TypeOK, TenancyInv
<1>6. ClosersInv'
  BY NoHandleAssumption DEF ClosersInv, TypeOK, MapsInv, EntriesInv
<1>7. NoResurrection'
  BY DEF NoResurrection, TypeOK, ReadersInv
<1>8. ReturnedMeansTornDown'
  BY DEF ReturnedMeansTornDown, TypeOK, ClosersInv, MapsInv, EntriesInv
<1> QED
  BY <1>1, <1>2, <1>3, <1>4, <1>5, <1>6, <1>7, <1>8


\* WhenTornDownCalled preserves the inductive invariant.
LEMMA WhenTornDownCalledStep ==
  ASSUME Inv, NEW c \in Closers, WhenTornDownCalled(c)
  PROVE  Inv'
<1> USE DirType DEF Inv, WhenTornDownCalled, Phases, Closed, Settled, registryVars, storeVars, closerVars, CloserPcs, Tracked
<1>1. TypeOK'
  BY DEF TypeOK
<1>2. MapsInv'
  BY DEF MapsInv, TypeOK
<1>3. EntriesInv'
  BY DEF EntriesInv, TypeOK
<1>4. TenancyInv'
  BY DEF TenancyInv, TypeOK, MapsInv, EntriesInv
<1>5. ReadersInv'
  BY DEF ReadersInv, TypeOK, TenancyInv
<1>6. ClosersInv'
  BY NoHandleAssumption DEF ClosersInv, TypeOK, MapsInv, EntriesInv
<1>7. NoResurrection'
  BY DEF NoResurrection, TypeOK, ReadersInv
<1>8. ReturnedMeansTornDown'
  BY DEF ReturnedMeansTornDown, TypeOK, ClosersInv, MapsInv, EntriesInv
<1> QED
  BY <1>1, <1>2, <1>3, <1>4, <1>5, <1>6, <1>7, <1>8


\* CloserReturns preserves the inductive invariant.
LEMMA CloserReturnsStep ==
  ASSUME Inv, NEW c \in Closers, CloserReturns(c)
  PROVE  Inv'
<1> USE DirType DEF Inv, CloserReturns, Phases, Closed, Settled, registryVars, storeVars, closerVars, CloserPcs, Tracked
<1>1. TypeOK'
  BY DEF TypeOK
<1>2. MapsInv'
  BY DEF MapsInv, TypeOK
<1>3. EntriesInv'
  BY DEF EntriesInv, TypeOK
<1>4. TenancyInv'
  BY DEF TenancyInv, TypeOK, MapsInv, EntriesInv
<1>5. ReadersInv'
  BY DEF ReadersInv, TypeOK, TenancyInv
<1>6. ClosersInv'
  BY DEF ClosersInv, TypeOK, MapsInv, EntriesInv
<1>7. NoResurrection'
  BY DEF NoResurrection, TypeOK, ReadersInv
<1>8. ReturnedMeansTornDown'
  BY DEF ReturnedMeansTornDown, TypeOK, ClosersInv, MapsInv, EntriesInv
<1> QED
  BY <1>1, <1>2, <1>3, <1>4, <1>5, <1>6, <1>7, <1>8

\* OpenCached preserves the inductive invariant.
LEMMA OpenCachedStep ==
  ASSUME Inv, NEW id \in Ids, OpenCached(id)
  PROVE  Inv'
<1> DEFINE n == Len(entries)
<1>1. PICK i \in 1..n : entries' = Touch(entries, i)
  BY DEF OpenCached
<1>2. UNCHANGED <<inflight, teardowns, phase, awaits, storeVars, closerVars>>
  BY DEF OpenCached
<1>3. entries \in Seq(Handles) /\ n \in Nat /\ n <= MaxDatasets
  BY DEF Inv, TypeOK, EntriesInv
<1>4. /\ entries' \in Seq(Handles) /\ Len(entries') = n
      /\ \A j \in 1..n : entries'[j] = IF j < i THEN entries[j]
                                       ELSE IF j < n THEN entries[j+1] ELSE entries[i]
  <2>1. entries \in Seq(Handles) /\ i \in 1..Len(entries)
    BY <1>3
  <2> QED
    BY <1>1, <2>1, TouchLemma
<1> HIDE DEF n
<1>5. ASSUME NEW j \in 1..n
      PROVE  \E k \in 1..n : entries'[k] = entries[j]
  <2>1. CASE j < i
    BY <1>4, <2>1
  <2>2. CASE j = i
    BY <1>3, <1>4, <2>2
  <2>3. CASE j > i
    <3>1. j - 1 \in 1..n /\ ~(j - 1 < i) /\ j - 1 < n /\ (j - 1) + 1 = j
      BY <1>3, <2>3
    <3> QED
      BY <1>4, <3>1
  <2> QED
    BY <1>3, <2>1, <2>2, <2>3
<1>6. ASSUME NEW j \in 1..n
      PROVE  \E k \in 1..n : entries'[j] = entries[k]
  <2>1. CASE j < i
    BY <1>4, <2>1
  <2>2. CASE ~(j < i) /\ j < n
    <3>1. j + 1 \in 1..n
      BY <1>3, <2>2
    <3> QED
      BY <1>4, <2>2, <3>1
  <2>3. CASE ~(j < i) /\ ~(j < n)
    BY <1>4, <2>3
  <2> QED
    BY <2>1, <2>2, <2>3
<1>7. TypeOK'
  BY <1>2, <1>4 DEF Inv, TypeOK, storeVars, closerVars
<1>8. EntriesInv'
  <2>1. Len(entries') <= MaxDatasets
    BY <1>3, <1>4
  <2>2. ASSUME NEW h \in Handles
        PROVE  phase[h] = "live" <=> \E k \in 1..n : entries'[k] = h
    <3>1. phase[h] = "live" <=> \E k \in 1..n : entries[k] = h
      BY DEF Inv, EntriesInv, n
    <3>2. ASSUME NEW j \in 1..n, entries[j] = h
          PROVE  \E k \in 1..n : entries'[k] = h
      BY <3>2, <1>5
    <3>3. ASSUME NEW j \in 1..n, entries'[j] = h
          PROVE  \E k \in 1..n : entries[k] = h
      BY <3>3, <1>6
    <3> QED
      BY <3>1, <3>2, <3>3, Zenon
  <2>3. ASSUME NEW j \in 1..n, NEW k \in 1..n, entries'[j] = entries'[k]
        PROVE  j = k
    <3>1. \A x, y \in 1..n : entries[x] = entries[y] => x = y
      BY DEF Inv, EntriesInv, n
    <3> DEFINE src(x) == IF x < i THEN x ELSE IF x < n THEN x + 1 ELSE i
    <3>2. src(j) \in 1..n /\ src(k) \in 1..n
      BY <1>3
    <3>3. entries'[j] = entries[src(j)] /\ entries'[k] = entries[src(k)]
      BY <1>4
    <3>4. src(j) = src(k)
      BY <2>3, <3>1, <3>2, <3>3
    <3>5. CASE j < i
      BY <1>3, <3>4, <3>5
    <3>6. CASE ~(j < i) /\ j < n
      BY <1>3, <3>4, <3>6
    <3>7. CASE ~(j < i) /\ ~(j < n)
      BY <1>3, <3>4, <3>7
    <3> QED
      BY <3>5, <3>6, <3>7
  <2> QED
    BY <1>2, <1>4, <2>1, <2>2, <2>3 DEF EntriesInv
<1> QED
  BY <1>2, <1>7, <1>8 DEF Inv, MapsInv, TenancyInv, ReadersInv, ClosersInv, NoResurrection,
                          ReturnedMeansTornDown, storeVars, closerVars

\* What caching the handle h does to the handles: below the cap nothing is
\* evicted; at the cap exactly the oldest handle is, and it is not h.
LEMMA BuildSucceedsEffect ==
  ASSUME Inv, NEW h \in Handles, BuildSucceeds(h)
  PROVE  /\ entries' \in Seq(Handles)
         /\ phase[h] = "building"
         /\ \/ /\ Len(entries) < MaxDatasets
               /\ Len(entries') = Len(entries) + 1
               /\ \A j \in 1..Len(entries) : entries'[j] = entries[j]
               /\ entries'[Len(entries')] = h
               /\ phase' = [phase EXCEPT ![h] = "live"]
               /\ UNCHANGED <<teardowns, draining>>
            \/ /\ Len(entries) = MaxDatasets
               /\ Len(entries') = Len(entries)
               /\ \A j \in 1..(Len(entries) - 1) : entries'[j] = entries[j+1]
               /\ entries'[Len(entries')] = h
               /\ entries[1] \in Handles \ {h}
               /\ phase' = [phase EXCEPT ![h] = "live", ![entries[1]] = "draining"]
               /\ teardowns' = [teardowns EXCEPT ![Dir(entries[1])] = entries[1]]
               /\ draining' = [draining EXCEPT ![entries[1]] = StoreInflight(entries[1])]
<1> DEFINE cached  == Append(entries, h)
           excess  == Len(cached) - MaxDatasets
           evicted == {cached[i] : i \in 1..excess}
<1>1. /\ entries \in Seq(Handles) /\ Len(entries) \in Nat /\ Len(entries) <= MaxDatasets
      /\ MaxDatasets \in Nat \ {0}
  BY CapAssumption DEF Inv, TypeOK, EntriesInv
<1>2. /\ cached \in Seq(Handles) /\ Len(cached) = Len(entries) + 1
      /\ \A j \in 1..Len(entries) : cached[j] = entries[j]
      /\ cached[Len(entries) + 1] = h
  BY <1>1
<1>3. /\ phase[h] = "building"
      /\ entries' = SubSeq(cached, IF excess > 0 THEN excess + 1 ELSE 1, Len(cached))
      /\ Track(evicted)
      /\ Disposing(evicted)
      /\ phase' = [x \in Handles |-> IF x \in evicted THEN "draining"
                                     ELSE IF x = h THEN "live" ELSE phase[x]]
  BY DEF BuildSucceeds
<1> HIDE DEF cached
<1>4. CASE Len(entries) < MaxDatasets
  <2>1. excess <= 0 /\ evicted = {} /\ ~(excess > 0)
    BY <1>1, <1>2, <1>4
  <2>2. entries' = SubSeq(cached, 1, Len(cached))
    BY <1>3, <2>1
  <2>3. /\ entries' \in Seq(Handles) /\ Len(entries') = Len(entries) + 1
        /\ \A j \in 1..(Len(entries) + 1) : entries'[j] = cached[j]
    BY <1>1, <1>2, <2>2
  <2>4. phase' = [phase EXCEPT ![h] = "live"] /\ UNCHANGED <<teardowns, draining>>
    BY <1>3, <2>1 DEF Track, Disposing, Inv, TypeOK
  <2>5. /\ \A j \in 1..Len(entries) : entries'[j] = entries[j]
        /\ entries'[Len(entries')] = h
    BY <1>1, <1>2, <2>3
  <2> QED
    BY <1>3, <1>4, <2>3, <2>4, <2>5
<1>5. CASE Len(entries) = MaxDatasets
  <2> DEFINE o == entries[1]
  <2>1. excess = 1 /\ evicted = {o}
    BY <1>1, <1>2, <1>5
  <2>2. entries' = SubSeq(cached, 2, Len(cached))
    BY <1>3, <2>1
  <2>3. /\ entries' \in Seq(Handles) /\ Len(entries') = Len(entries)
        /\ \A j \in 1..Len(entries) : entries'[j] = cached[j+1]
    BY <1>1, <1>2, <1>5, <2>2
  <2>4. o \in Handles /\ phase[o] = "live" /\ o # h
    BY <1>1, <1>3, <1>5 DEF Inv, EntriesInv
  <2>5. teardowns' = [teardowns EXCEPT ![Dir(o)] = o]
    BY <1>3, <2>1, <2>4, DirType DEF Track, Inv, TypeOK
  <2>6. /\ phase' = [phase EXCEPT ![h] = "live", ![o] = "draining"]
        /\ draining' = [draining EXCEPT ![o] = StoreInflight(o)]
    BY <1>3, <2>1, <2>4 DEF Disposing, Inv, TypeOK
  <2>7. /\ \A j \in 1..(Len(entries) - 1) : entries'[j] = entries[j+1]
        /\ entries'[Len(entries')] = h
    BY <1>1, <1>2, <1>5, <2>3
  <2> QED
    BY <1>3, <1>5, <2>3, <2>4, <2>5, <2>6, <2>7
<1> QED
  BY <1>1, <1>4, <1>5

\* BuildSucceeds preserves the inductive invariant.
LEMMA BuildSucceedsStep ==
  ASSUME Inv, NEW h \in Handles, BuildSucceeds(h)
  PROVE  Inv'
<1> DEFINE o == entries[1]
           n == Len(entries)
           evicts == n = MaxDatasets
<1>1. UNCHANGED <<inflight, awaits, files, rpc, on, cpc, cwait, owed>>
  BY DEF BuildSucceeds, closerVars
<1>2. n \in Nat /\ n <= MaxDatasets /\ MaxDatasets \in Nat \ {0} /\ entries \in Seq(Handles)
  BY CapAssumption DEF Inv, TypeOK, EntriesInv
<1>3. phase[h] = "building" /\ entries' \in Seq(Handles)
  BY BuildSucceedsEffect
<1>4. \/ /\ ~evicts
         /\ Len(entries') = n + 1
         /\ \A j \in 1..n : entries'[j] = entries[j]
         /\ entries'[n + 1] = h
         /\ phase' = [phase EXCEPT ![h] = "live"]
         /\ UNCHANGED <<teardowns, draining>>
      \/ /\ evicts
         /\ Len(entries') = n
         /\ \A j \in 1..(n - 1) : entries'[j] = entries[j+1]
         /\ entries'[n] = h
         /\ o \in Handles /\ o # h
         /\ phase' = [phase EXCEPT ![h] = "live", ![o] = "draining"]
         /\ teardowns' = [teardowns EXCEPT ![Dir(o)] = o]
         /\ draining' = [draining EXCEPT ![o] = StoreInflight(o)]
  BY <1>2, BuildSucceedsEffect
<1>5. evicts => phase[o] = "live" /\ o \in Handles /\ Dir(o) \in Ids
  BY <1>2, DirType DEF Inv, EntriesInv
<1>6. StoreInflight(o) \in SUBSET Readers
  BY DEF StoreInflight
<1>7. /\ phase \in [Handles -> Phases] /\ teardowns \in [Ids -> Handles \cup {NoHandle}]
      /\ draining \in [Handles -> SUBSET Readers]
  BY DEF Inv, TypeOK
<1> HIDE DEF n, o, evicts
<1>8. /\ phase' \in [Handles -> Phases] /\ teardowns' \in [Ids -> Handles \cup {NoHandle}]
      /\ draining' \in [Handles -> SUBSET Readers]
  BY <1>4, <1>6, <1>7 DEF Phases
<1>9. TypeOK'
  BY <1>1, <1>3, <1>8 DEF Inv, TypeOK
\* The handles other than h, and than o when it is evicted, keep their phase.
<1>10. /\ phase'[h] = "live"
       /\ evicts => o # h /\ phase'[o] = "draining"
       /\ \A x \in Handles : x # h /\ ~(evicts /\ x = o) => phase'[x] = phase[x]
  BY <1>4, <1>5, <1>7
<1>11. /\ evicts => teardowns'[Dir(o)] = o
       /\ \A id \in Ids : ~(evicts /\ id = Dir(o)) => teardowns'[id] = teardowns[id]
  BY <1>4, <1>5, <1>7
<1>12. evicts => teardowns[Dir(o)] = NoHandle /\ Dir(o) # Dir(h)
  BY <1>3, <1>5, <1>10 DEF Inv, TenancyInv
<1>13. MapsInv'
  <2>1. \A x \in Handles : phase'[x] \in {"waiting", "building"} => inflight'[Dir(x)] = x
    BY <1>1, <1>10 DEF Inv, MapsInv
  <2>2. \A id \in Ids : inflight'[id] # NoHandle => Dir(inflight'[id]) = id
    BY <1>1 DEF Inv, MapsInv
  <2>3. ASSUME NEW x \in Handles
        PROVE  phase'[x] \in {"draining", "removing"} <=> teardowns'[Dir(x)] = x
    <3>1. phase[x] \in {"draining", "removing"} <=> teardowns[Dir(x)] = x
      BY DEF Inv, MapsInv
    <3>2. Dir(x) \in Ids /\ x # NoHandle
      BY DirType, NoHandleAssumption
    <3>3. CASE x = h
      BY <1>3, <1>10, <1>11, <1>12, <3>1, <3>2, <3>3
    <3>4. CASE evicts /\ x = o
      BY <1>10, <1>11, <3>4
    <3>5. CASE x # h /\ ~(evicts /\ x = o)
      BY <1>10, <1>11, <1>12, <3>1, <3>2, <3>5
    <3> QED
      BY <3>3, <3>4, <3>5
  <2>4. \A id \in Ids : teardowns'[id] # NoHandle => Dir(teardowns'[id]) = id
    BY <1>11 DEF Inv, MapsInv
  <2> QED
    BY <2>1, <2>2, <2>3, <2>4 DEF MapsInv
<1>14. TenancyInv'
  <2>1. \A h1, h2 \in Handles :
           /\ Dir(h1) = Dir(h2)
           /\ phase'[h1] \in {"waiting", "building", "live"}
           /\ phase'[h2] \in {"waiting", "building", "live"}
           => h1 = h2
    BY <1>3, <1>10 DEF Inv, TenancyInv
  <2>2. \A x \in Handles : phase'[x] \in {"building", "live"} => teardowns'[Dir(x)] = NoHandle
    BY <1>3, <1>5, <1>10, <1>11, <1>12, DirType DEF Inv, TenancyInv
  <2>3. ASSUME NEW x \in Handles, phase'[x] = "waiting"
        PROVE  /\ awaits'[x] \in Handles
               /\ phase'[awaits'[x]] \in Closed
               /\ teardowns'[Dir(x)] \in {NoHandle, awaits'[x]}
    <3>1. phase[x] = "waiting" /\ x # h /\ ~(evicts /\ x = o)
      BY <1>10, <2>3
    <3>2. /\ awaits[x] \in Handles /\ phase[awaits[x]] \in Closed
          /\ teardowns[Dir(x)] \in {NoHandle, awaits[x]}
      BY <3>1 DEF Inv, TenancyInv
    <3>3. phase'[awaits[x]] = phase[awaits[x]]
      BY <1>3, <1>5, <1>10, <3>2 DEF Closed, Settled
    <3>4. evicts => Dir(x) # Dir(o)
      BY <1>5, <3>1 DEF Inv, TenancyInv
    <3> QED
      BY <1>1, <1>11, <3>2, <3>3, <3>4, DirType
  <2> QED
    BY <2>1, <2>2, <2>3 DEF TenancyInv
<1>15. ReadersInv'
  <2> SUFFICES ASSUME NEW r \in Readers
               PROVE  /\ rpc[r] # "idle" => on[r] \in Handles /\ phase'[on[r]] \in {"live"} \cup Closed
                      /\ rpc[r] = "writing" => \/ phase'[on[r]] = "live"
                                               \/ phase'[on[r]] = "draining" /\ r \in draining'[on[r]]
    BY <1>1 DEF ReadersInv
  <2>1. /\ rpc[r] # "idle" => on[r] \in Handles /\ phase[on[r]] \in {"live"} \cup Closed
        /\ rpc[r] = "writing" => \/ phase[on[r]] = "live"
                                 \/ phase[on[r]] = "draining" /\ r \in draining[on[r]]
    BY DEF Inv, ReadersInv
  <2>2. evicts => draining'[o] = StoreInflight(o)
    BY <1>4, <1>7
  <2>3. rpc[r] # "idle" /\ ~(evicts /\ on[r] = o) => draining'[on[r]] = draining[on[r]]
    BY <1>4, <1>7, <2>1
  <2>4. CASE evicts /\ on[r] = o
    BY <1>10, <2>2, <2>4, <1>5 DEF StoreInflight, Closed
  <2>5. CASE ~(evicts /\ on[r] = o)
    BY <1>10, <2>1, <2>3, <2>5 DEF Closed
  <2> QED
    BY <2>4, <2>5
<1>16. ClosersInv'
  BY <1>1, <1>3, <1>5, <1>9, <1>10 DEF Inv, ClosersInv, Closed, Settled, TypeOK
<1>17. NoResurrection' /\ ReturnedMeansTornDown'
  <2>1. \A x \in Handles : phase'[x] = "gone" => phase[x] = "gone"
    BY <1>10
  <2>2. \A x \in Handles : phase[x] \in Settled \cup {"failed"} => phase'[x] = phase[x]
    BY <1>3, <1>5, <1>10 DEF Settled
  <2> QED
    BY <1>1, <2>1, <2>2 DEF Inv, NoResurrection, ReturnedMeansTornDown, TypeOK
<1>18. EntriesInv'
  <2>1. /\ \A x \in Handles : phase[x] = "live" <=> \E i \in 1..n : entries[i] = x
        /\ \A i, j \in 1..n : entries[i] = entries[j] => i = j
    BY DEF Inv, EntriesInv, n
  <2>2. CASE ~evicts
    <3>1. /\ Len(entries') = n + 1 /\ n + 1 <= MaxDatasets
          /\ \A j \in 1..n : entries'[j] = entries[j]
          /\ entries'[n + 1] = h
      BY <1>2, <1>4, <2>2 DEF evicts
    <3>2. ASSUME NEW x \in Handles
          PROVE  phase'[x] = "live" <=> \E i \in 1..(n + 1) : entries'[i] = x
      <4>1. CASE x = h
        BY <1>2, <1>10, <3>1, <4>1
      <4>2. CASE x # h
        BY <1>2, <1>10, <2>1, <2>2, <3>1, <4>2
      <4> QED
        BY <4>1, <4>2
    <3>3. \A i \in 1..n : entries[i] # h
      BY <1>3, <2>1
    <3>4. \A i, j \in 1..(n + 1) : entries'[i] = entries'[j] => i = j
      BY <1>2, <2>1, <3>1, <3>3
    <3> QED
      BY <3>1, <3>2, <3>4 DEF EntriesInv
  <2>3. CASE evicts
    <3>1. /\ Len(entries') = n /\ n >= 1
          /\ \A j \in 1..(n - 1) : entries'[j] = entries[j+1]
          /\ entries'[n] = h
          /\ entries[1] = o
      BY <1>2, <1>4, <2>3 DEF evicts, o
    <3>2. \A i \in 1..n : entries[i] # h
      BY <1>3, <2>1
    <3>3. ASSUME NEW x \in Handles
          PROVE  phase'[x] = "live" <=> \E i \in 1..n : entries'[i] = x
      <4>1. CASE x = h
        BY <1>2, <1>10, <3>1, <4>1
      <4>2. CASE x = o
        <5>1. phase'[x] = "draining"
          BY <1>10, <2>3, <4>2
        <5>2. \A i \in 1..(n - 1) : entries[i + 1] # o
          BY <1>2, <2>1, <3>1
        <5> QED
          BY <1>2, <1>10, <2>3, <3>1, <4>2, <5>1, <5>2
      <4>3. CASE x # h /\ x # o
        <5>1. phase'[x] = "live" <=> \E i \in 1..n : entries[i] = x
          BY <1>10, <2>1, <4>3
        <5>2. ASSUME NEW i \in 1..n, entries[i] = x
              PROVE  \E k \in 1..n : entries'[k] = x
          <6>1. i - 1 \in 1..(n - 1) /\ i - 1 \in 1..n /\ (i - 1) + 1 = i
            BY <1>2, <3>1, <4>3, <5>2
          <6>2. entries'[i - 1] = entries[(i - 1) + 1]
            BY <3>1, <6>1
          <6> QED
            BY <5>2, <6>1, <6>2
        <5>3. ASSUME NEW i \in 1..n, entries'[i] = x
              PROVE  \E k \in 1..n : entries[k] = x
          <6>1. i \in 1..(n - 1) /\ i + 1 \in 1..n
            BY <1>2, <3>1, <4>3, <5>3
          <6> QED
            BY <3>1, <5>3, <6>1
        <5> QED
          BY <5>1, <5>2, <5>3, Zenon
      <4> QED
        BY <4>1, <4>2, <4>3
    <3>4. ASSUME NEW i \in 1..n, NEW j \in 1..n, entries'[i] = entries'[j]
          PROVE  i = j
      <4>1. CASE i = n \/ j = n
        <5>1. \A k \in 1..(n - 1) : k + 1 \in 1..n
          BY <1>2
        <5> QED
          BY <1>2, <3>1, <3>2, <3>4, <4>1, <5>1
      <4>2. CASE i # n /\ j # n
        <5>1. i \in 1..(n - 1) /\ j \in 1..(n - 1) /\ i + 1 \in 1..n /\ j + 1 \in 1..n
          BY <1>2, <4>2
        <5>2. entries[i + 1] = entries[j + 1]
          BY <3>1, <3>4, <5>1
        <5> QED
          BY <1>2, <2>1, <5>1, <5>2
      <4> QED
        BY <4>1, <4>2
    <3> QED
      BY <1>2, <3>1, <3>3, <3>4 DEF EntriesInv
  <2> QED
    BY <2>2, <2>3
<1> QED
  BY <1>9, <1>13, <1>14, <1>15, <1>16, <1>17, <1>18 DEF Inv

\* What a turn of clear() that finds no pending open does to the handles.
LEMMA ClearTurnEffect ==
  ASSUME Inv, NEW c \in Closers, ClearTurn(c), InFlight = {}
  PROVE  /\ cpc' = [cpc EXCEPT ![c] = "disposing"]
         /\ UNCHANGED <<inflight, awaits>>
         /\ entries' = <<>>
         /\ cwait' \in [Closers -> SUBSET Handles]
         /\ \A x \in Closers : x # c => cwait'[x] = cwait[x]
         /\ \A h \in Handles : phase[h] \notin {"waiting", "building"}
         /\ phase' = [h \in Handles |-> IF phase[h] = "live" THEN "draining" ELSE phase[h]]
         /\ draining' = [h \in Handles |-> IF phase[h] = "live" THEN StoreInflight(h)
                                          ELSE draining[h]]
         /\ teardowns' \in [Ids -> Handles \cup {NoHandle}]
         /\ \A h \in Handles : phase[h] = "live" => teardowns'[Dir(h)] = h
         /\ \A id \in Ids : \/ teardowns'[id] = teardowns[id]
                            \/ /\ teardowns'[id] \in Handles
                               /\ phase[teardowns'[id]] = "live"
                               /\ Dir(teardowns'[id]) = id
<1>1. /\ cpc' = [cpc EXCEPT ![c] = "disposing"]
      /\ cwait' = [cwait EXCEPT ![c] = Cached]
      /\ entries' = <<>>
      /\ Track(Cached)
      /\ Disposing(Cached)
      /\ phase' = [h \in Handles |-> IF h \in Cached THEN "draining" ELSE phase[h]]
      /\ UNCHANGED <<inflight, awaits>>
  BY DEF ClearTurn
<1>2. Cached \subseteq Handles /\ \A h \in Handles : h \in Cached <=> phase[h] = "live"
  BY DEF Cached, ToSet, Inv, TypeOK, EntriesInv
<1>3. \A h \in Handles : phase[h] \notin {"waiting", "building"}
  BY DirType, NoHandleAssumption DEF Inv, MapsInv, InFlight
<1>4. \A id \in Ids : IF \E h \in Cached : Dir(h) = id
                     THEN /\ teardowns'[id] \in Cached
                          /\ Dir(teardowns'[id]) = id
                     ELSE teardowns'[id] = teardowns[id]
  BY <1>1 DEF Track
<1>5. \A h \in Handles : phase[h] = "live" => teardowns'[Dir(h)] = h
  BY <1>2, <1>4, DirType DEF Inv, TenancyInv
<1>6. teardowns' \in [Ids -> Handles \cup {NoHandle}]
  <2>1. /\ DOMAIN teardowns' = Ids
        /\ teardowns' = [id \in Ids |-> teardowns'[id]]
    BY <1>1 DEF Track
  <2>2. \A id \in Ids : teardowns'[id] \in Handles \cup {NoHandle}
    BY <1>2, <1>4 DEF Inv, TypeOK
  <2> QED
    BY <2>1, <2>2
<1>7. /\ phase' = [h \in Handles |-> IF phase[h] = "live" THEN "draining" ELSE phase[h]]
      /\ draining' = [h \in Handles |-> IF phase[h] = "live" THEN StoreInflight(h)
                                       ELSE draining[h]]
  BY <1>1, <1>2 DEF Disposing
<1>8. /\ cwait' \in [Closers -> SUBSET Handles]
      /\ \A x \in Closers : x # c => cwait'[x] = cwait[x]
  BY <1>1, <1>2 DEF Inv, TypeOK
<1> QED
  BY <1>1, <1>2, <1>3, <1>4, <1>5, <1>6, <1>7, <1>8

\* A turn of clear(), at its call or when it resumes, owing only handles that
\* were opened.
LEMMA ClearTurnStep ==
  ASSUME Inv, NEW c \in Closers, ClearTurn(c), UNCHANGED <<files, rpc, on>>,
         owed' \in [Closers -> SUBSET Handles],
         \A x \in Closers : x # c => owed'[x] = owed[x],
         \A h \in owed'[c] : phase[h] # "fresh"
  PROVE  Inv'
<1>1. CASE InFlight # {}
  <2>1. /\ cpc' = [cpc EXCEPT ![c] = "settling"]
        /\ cwait' = [cwait EXCEPT ![c] = InFlight]
        /\ UNCHANGED <<entries, inflight, teardowns, phase, awaits, draining>>
    BY <1>1 DEF ClearTurn, registryVars
  <2>2. InFlight \subseteq Handles
    BY DEF InFlight, Inv, TypeOK
  <2>3. TypeOK'
    BY <2>1, <2>2 DEF Inv, TypeOK, CloserPcs
  <2>4. ClosersInv' /\ ReturnedMeansTornDown'
    BY <2>1 DEF Inv, TypeOK, ClosersInv, ReturnedMeansTornDown
  <2> QED
    BY <2>1, <2>3, <2>4 DEF Inv, MapsInv, EntriesInv, TenancyInv, ReadersInv, NoResurrection
<1>2. CASE InFlight = {}
  <2>1. /\ cpc' = [cpc EXCEPT ![c] = "disposing"]
        /\ UNCHANGED <<inflight, awaits>>
        /\ entries' = <<>>
        /\ cwait' \in [Closers -> SUBSET Handles]
        /\ \A x \in Closers : x # c => cwait'[x] = cwait[x]
        /\ \A h \in Handles : phase[h] \notin {"waiting", "building"}
        /\ phase' = [h \in Handles |-> IF phase[h] = "live" THEN "draining" ELSE phase[h]]
        /\ draining' = [h \in Handles |-> IF phase[h] = "live" THEN StoreInflight(h)
                                         ELSE draining[h]]
        /\ teardowns' \in [Ids -> Handles \cup {NoHandle}]
        /\ \A h \in Handles : phase[h] = "live" => teardowns'[Dir(h)] = h
        /\ \A id \in Ids : \/ teardowns'[id] = teardowns[id]
                           \/ /\ teardowns'[id] \in Handles
                              /\ phase[teardowns'[id]] = "live"
                              /\ Dir(teardowns'[id]) = id
    BY <1>2, ClearTurnEffect
  <2>2. \A h \in Handles : phase'[h] = IF phase[h] = "live" THEN "draining" ELSE phase[h]
    BY <2>1
  <2>3. TypeOK'
    BY <2>1 DEF Inv, TypeOK, Phases, CloserPcs, StoreInflight
  <2>4. MapsInv'
    <3>1. ASSUME NEW x \in Handles
          PROVE  phase'[x] \in {"draining", "removing"} <=> teardowns'[Dir(x)] = x
      <4>1. CASE phase[x] = "live"
        BY <2>1, <2>2, <4>1
      <4>2. CASE phase[x] # "live"
        <5>1. phase[x] \in {"draining", "removing"} <=> teardowns[Dir(x)] = x
          BY DEF Inv, MapsInv
        <5>2. teardowns[Dir(x)] = x => teardowns'[Dir(x)] = x
          BY <2>1, <5>1, DirType, NoHandleAssumption DEF Inv, TenancyInv
        <5>3. teardowns'[Dir(x)] = x => teardowns[Dir(x)] = x
          BY <2>1, <4>2, DirType
        <5> QED
          BY <2>2, <4>2, <5>1, <5>2, <5>3
      <4> QED
        BY <4>1, <4>2
    <3>2. \A id \in Ids : teardowns'[id] # NoHandle => Dir(teardowns'[id]) = id
      BY <2>1 DEF Inv, MapsInv
    <3> QED
      BY <2>1, <2>2, <3>1, <3>2 DEF Inv, MapsInv
  <2>5. EntriesInv'
    BY <2>1, <2>2, CapAssumption DEF EntriesInv
  <2>6. TenancyInv'
    BY <2>1, <2>2 DEF Inv, TenancyInv
  <2>7. ReadersInv'
    BY <2>1, <2>2 DEF Inv, ReadersInv, StoreInflight, Closed
  <2>8. ClosersInv'
    <3> SUFFICES ASSUME NEW x \in Closers, NEW h \in owed'[x]
                 PROVE  /\ cpc'[x] = "settling"  => phase'[h] # "fresh"
                        /\ cpc'[x] = "disposing" => phase'[h] \in Closed \cup {"failed"}
                        /\ cpc'[x] = "awaiting"  => \/ h \in cwait'[x]
                                                   \/ phase'[h] \in Settled \cup {"failed"}
      BY DEF ClosersInv
    <3>1. h \in Handles /\ phase[h] \in Phases
      BY DEF Inv, TypeOK
    <3>2. CASE x = c
      BY <2>1, <2>2, <3>1, <3>2 DEF Inv, TypeOK, Phases, Closed, Settled
    <3>3. CASE x # c
      <4>1. h \in owed[x] /\ cpc'[x] = cpc[x] /\ cwait'[x] = cwait[x]
        BY <2>1, <3>3 DEF Inv, TypeOK
      <4> QED
        BY <2>2, <3>1, <4>1 DEF Inv, ClosersInv, Closed, Settled
    <3> QED
      BY <3>2, <3>3
  <2>9. NoResurrection'
    BY <2>2 DEF Inv, NoResurrection
  <2>10. ReturnedMeansTornDown'
    BY <2>1, <2>2 DEF Inv, TypeOK, ReturnedMeansTornDown, Settled
  <2> QED
    BY <2>3, <2>4, <2>5, <2>6, <2>7, <2>8, <2>9, <2>10 DEF Inv
<1> QED
  BY <1>1, <1>2

\* ClearCalled preserves the inductive invariant.
LEMMA ClearCalledStep ==
  ASSUME Inv, NEW c \in Closers, ClearCalled(c)
  PROVE  Inv'
<1>1. /\ owed' = [owed EXCEPT ![c] = {h \in Handles : phase[h] \in Owing}]
      /\ ClearTurn(c)
      /\ UNCHANGED <<files, rpc, on>>
  BY DEF ClearCalled
<1>2. /\ owed' \in [Closers -> SUBSET Handles]
      /\ \A x \in Closers : x # c => owed'[x] = owed[x]
      /\ \A h \in owed'[c] : phase[h] # "fresh"
  BY <1>1 DEF Inv, TypeOK, Owing
<1> QED
  BY <1>1, <1>2, ClearTurnStep

\* ClearResumes preserves the inductive invariant.
LEMMA ClearResumesStep ==
  ASSUME Inv, NEW c \in Closers, ClearResumes(c)
  PROVE  Inv'
<1>1. /\ cpc[c] = "settling"
      /\ ClearTurn(c)
      /\ UNCHANGED <<owed, files, rpc, on>>
  BY DEF ClearResumes
<1>2. /\ owed' \in [Closers -> SUBSET Handles]
      /\ \A x \in Closers : x # c => owed'[x] = owed[x]
      /\ \A h \in owed'[c] : phase[h] # "fresh"
  BY <1>1 DEF Inv, TypeOK, ClosersInv
<1> QED
  BY <1>1, <1>2, ClearTurnStep

------------------------------------------------------------------------------
\* The inductive invariant holds in every reachable state.
THEOREM Invariance == Spec => []Inv
<1>1. Init => Inv
  BY CapAssumption, DirType, NoHandleAssumption
  DEF Init, Inv, TypeOK, MapsInv, EntriesInv, TenancyInv, ReadersInv, ClosersInv,
      NoResurrection, ReturnedMeansTornDown, Phases, ReaderPcs, CloserPcs
<1>2. Inv /\ [Next]_vars => Inv'
  <2> SUFFICES ASSUME Inv, [Next]_vars
               PROVE  Inv'
    OBVIOUS
  <2>1. ASSUME NEW id \in Ids, OpenCached(id)
        PROVE  Inv'
    BY <2>1, OpenCachedStep
  <2>2. ASSUME NEW h \in Handles,
               \/ OpenNew(h) \/ StartBuild(h) \/ BuildFails(h) \/ BuildSucceeds(h)
               \/ OpenSettles(h) \/ StartRemove(h) \/ RemoveSucceeds(h) \/ RemoveFails(h)
        PROVE  Inv'
    BY <2>2, OpenNewStep, StartBuildStep, BuildFailsStep, BuildSucceedsStep,
       OpenSettlesStep, StartRemoveStep, RemoveSucceedsStep, RemoveFailsStep
  <2>3. ASSUME NEW r \in Readers, NEW h \in Handles, StartRead(r, h)
        PROVE  Inv'
    BY <2>3, StartReadStep
  <2>4. ASSUME NEW r \in Readers,
               \/ LookupHit(r) \/ LookupMiss(r)
               \/ FetchSkipsWrite(r) \/ FetchWrites(r) \/ WriteDone(r)
        PROVE  Inv'
    BY <2>4, LookupHitStep, LookupMissStep, FetchSkipsWriteStep, FetchWritesStep, WriteDoneStep
  <2>5. ASSUME NEW c \in Closers,
               \/ ClearCalled(c) \/ ClearResumes(c) \/ ClearDrains(c)
               \/ WhenTornDownCalled(c) \/ CloserReturns(c)
        PROVE  Inv'
    BY <2>5, ClearCalledStep, ClearResumesStep, ClearDrainsStep, WhenTornDownCalledStep,
       CloserReturnsStep
  <2>6. CASE UNCHANGED vars
    BY <2>6 DEF vars, registryVars, storeVars, closerVars, Inv, TypeOK, MapsInv, EntriesInv,
                TenancyInv, ReadersInv, ClosersInv, NoResurrection, ReturnedMeansTornDown
  <2> QED
    BY <2>1, <2>2, <2>3, <2>4, <2>5, <2>6 DEF Next
<1> QED
  BY <1>1, <1>2, PTL DEF Spec

\* Every variable keeps its type.
THEOREM TypeCorrectness == Spec => []TypeOK
<1>1. Inv => TypeOK
  BY DEF Inv
<1> QED
  BY <1>1, Invariance, PTL

\* No two handles of one id can ever touch its directory at the same time.
LEMMA OneTenant ==
  ASSUME Inv, NEW h1 \in Handles, NEW h2 \in Handles,
         Dir(h1) = Dir(h2), phase[h1] \in Tenants, phase[h2] \in Tenants
  PROVE  h1 = h2
BY NoHandleAssumption DEF Inv, MapsInv, TenancyInv, Tenants

\* The rm -r of a teardown never races another handle of the same dataset.
THEOREM RemovalExclusive == Spec => []RemovalIsExclusive
<1>1. Inv => RemovalIsExclusive
  <2> SUFFICES ASSUME Inv, NEW h1 \in Handles, NEW h2 \in Handles,
                      phase[h1] = "removing", phase[h2] \in Tenants, Dir(h1) = Dir(h2)
               PROVE  h1 = h2
    BY DEF RemovalIsExclusive
  <2>1. phase[h1] \in Tenants
    BY DEF Tenants
  <2> QED
    BY <2>1, OneTenant
<1> QED
  BY <1>1, Invariance, PTL

\* A removed directory never gets a file of its old handle back.
THEOREM RemovedStaysRemoved == Spec => []NoResurrection
<1>1. Inv => NoResurrection
  BY DEF Inv
<1> QED
  BY <1>1, Invariance, PTL

\* Cached handles are open, unique, untracked and within the cap.
THEOREM CachedSound == Spec => []CachedHandlesSound
<1>1. Inv => CachedHandlesSound
  <2> SUFFICES ASSUME Inv
               PROVE  CachedHandlesSound
    OBVIOUS
  <2>1. ASSUME NEW i \in 1..Len(entries)
        PROVE  entries[i] \in Handles /\ phase[entries[i]] = "live"
    BY <2>1 DEF Inv, TypeOK, EntriesInv
  <2> QED
    BY <2>1 DEF CachedHandlesSound, Inv, EntriesInv, TenancyInv
<1> QED
  BY <1>1, Invariance, PTL

\* clear() and whenTornDown() resolve only when what they owe is torn down.
THEOREM ReturnsAfterTeardown == Spec => []ReturnedMeansTornDown
<1>1. Inv => ReturnedMeansTornDown
  BY DEF Inv
<1> QED
  BY <1>1, Invariance, PTL

------------------------------------------------------------------------------
\* A step of the registry never replaces a tracked teardown by another one.
THEOREM TeardownsNotReplaced == Spec => TrackNeverReplaces
<1> DEFINE Kept == \A id \in Ids : teardowns[id] # NoHandle =>
                     teardowns'[id] \in {teardowns[id], NoHandle}
<1>1. Inv /\ [Next]_vars => Kept
  <2> SUFFICES ASSUME Inv, [Next]_vars
               PROVE  Kept
    OBVIOUS
  <2>1. CASE UNCHANGED teardowns
    BY <2>1
  <2>2. ASSUME NEW h \in Handles, BuildSucceeds(h)
        PROVE  Kept
    <3>1. UNCHANGED teardowns
          \/ /\ teardowns' = [teardowns EXCEPT ![Dir(entries[1])] = entries[1]]
             /\ Len(entries) = MaxDatasets
      BY <2>2, BuildSucceedsEffect
    <3>2. Len(entries) = MaxDatasets => teardowns[Dir(entries[1])] = NoHandle
      <4>1. Len(entries) = MaxDatasets => entries[1] \in Handles /\ phase[entries[1]] = "live"
        BY CapAssumption DEF Inv, TypeOK, EntriesInv
      <4> QED
        BY <4>1 DEF Inv, TenancyInv
    <3> QED
      BY <3>1, <3>2 DEF Inv, TypeOK
  <2>3. ASSUME NEW h \in Handles, RemoveSucceeds(h) \/ RemoveFails(h)
        PROVE  Kept
    BY <2>3, DirType DEF Inv, TypeOK, RemoveSucceeds, RemoveFails, Untrack
  <2>4. ASSUME NEW c \in Closers, ClearTurn(c)
        PROVE  Kept
    <3>1. CASE InFlight = {}
      <4>1. \A id \in Ids : \/ teardowns'[id] = teardowns[id]
                           \/ /\ teardowns'[id] \in Handles
                              /\ phase[teardowns'[id]] = "live"
                              /\ Dir(teardowns'[id]) = id
        BY <2>4, <3>1, ClearTurnEffect
      <4> QED
        BY <4>1 DEF Inv, TenancyInv
    <3>2. CASE InFlight # {}
      BY <2>4, <3>2 DEF ClearTurn, registryVars
    <3> QED
      BY <3>1, <3>2
  <2>5. ASSUME NEW h \in Handles,
               OpenNew(h) \/ StartBuild(h) \/ BuildFails(h) \/ OpenSettles(h) \/ StartRemove(h)
        PROVE  UNCHANGED teardowns
    BY <2>5 DEF OpenNew, StartBuild, BuildFails, OpenSettles, StartRemove
  <2>6. ASSUME NEW r \in Readers,
               \/ \E h \in Handles : StartRead(r, h)
               \/ LookupHit(r) \/ LookupMiss(r)
               \/ FetchSkipsWrite(r) \/ FetchWrites(r) \/ WriteDone(r)
        PROVE  UNCHANGED teardowns
    BY <2>6 DEF StartRead, LookupHit, LookupMiss, FetchSkipsWrite, FetchWrites, WriteDone,
                registryVars
  <2>7. ASSUME NEW c \in Closers, ClearDrains(c) \/ WhenTornDownCalled(c) \/ CloserReturns(c)
        PROVE  UNCHANGED teardowns
    BY <2>7 DEF ClearDrains, WhenTornDownCalled, CloserReturns, registryVars
  <2>8. ASSUME NEW id \in Ids, OpenCached(id)
        PROVE  UNCHANGED teardowns
    BY <2>8 DEF OpenCached
  <2>9. ASSUME NEW c \in Closers, ClearCalled(c) \/ ClearResumes(c)
        PROVE  ClearTurn(c)
    BY <2>9 DEF ClearCalled, ClearResumes
  <2>10. CASE UNCHANGED vars
    BY <2>1, <2>10 DEF vars, registryVars
  <2> QED
    BY <2>1, <2>2, <2>3, <2>4, <2>5, <2>6, <2>7, <2>8, <2>9, <2>10 DEF Next
<1>2. Inv /\ [Next]_vars => [Kept]_vars
  BY <1>1
<1> QED
  BY <1>2, Invariance, PTL DEF Spec, TrackNeverReplaces

------------------------------------------------------------------------------
(* Implementation of the directory lease *)

OneTenantPerId(p) ==
  \A h1, h2 \in Handles :
    Dir(h1) = Dir(h2) /\ p[h1] \in Tenants /\ p[h2] \in Tenants => h1 = h2

\* With one tenant per id, the holder of its directory is that tenant.
LEMMA HolderIsTenant ==
  ASSUME NEW p, OneTenantPerId(p)
  PROVE  /\ \A h \in Handles : p[h] \in Tenants => HolderOf(p, Dir(h)) = h
         /\ \A id \in Ids : (\A h \in Handles : Dir(h) = id => p[h] \notin Tenants)
                              => HolderOf(p, id) = NoHandle
<1>1. ASSUME NEW h \in Handles, p[h] \in Tenants
      PROVE  HolderOf(p, Dir(h)) = h
  <2>1. /\ HolderOf(p, Dir(h)) \in Handles
        /\ Dir(HolderOf(p, Dir(h))) = Dir(h)
        /\ p[HolderOf(p, Dir(h))] \in Tenants
    BY <1>1 DEF HolderOf
  <2> QED
    BY <1>1, <2>1 DEF OneTenantPerId
<1>2. ASSUME NEW id \in Ids, \A h \in Handles : Dir(h) = id => p[h] \notin Tenants
      PROVE  HolderOf(p, id) = NoHandle
  BY <1>2 DEF HolderOf
<1> QED
  BY <1>1, <1>2

\* Phases with the same tenants have the same holders.
LEMMA SameHolders ==
  ASSUME NEW p, NEW q, OneTenantPerId(p), OneTenantPerId(q),
         \A h \in Handles : p[h] \in Tenants <=> q[h] \in Tenants
  PROVE  \A id \in Ids : HolderOf(p, id) = HolderOf(q, id)
<1> SUFFICES ASSUME NEW id \in Ids
             PROVE  HolderOf(p, id) = HolderOf(q, id)
  OBVIOUS
<1>1. CASE \E h \in Handles : Dir(h) = id /\ p[h] \in Tenants
  <2>1. PICK h \in Handles : Dir(h) = id /\ p[h] \in Tenants
    BY <1>1
  <2>2. HolderOf(p, Dir(h)) = h
    BY <2>1, HolderIsTenant
  <2>3. HolderOf(q, Dir(h)) = h
    BY <2>1, HolderIsTenant
  <2> QED
    BY <2>1, <2>2, <2>3
<1>2. CASE \A h \in Handles : Dir(h) = id => p[h] \notin Tenants
  <2>1. HolderOf(p, id) = NoHandle
    BY <1>2, HolderIsTenant
  <2>2. HolderOf(q, id) = NoHandle
    BY <1>2, HolderIsTenant
  <2> QED
    BY <2>1, <2>2
<1> QED
  BY <1>1, <1>2

Holders == [id \in Ids |-> HolderOf(phase, id)]

\* A step that keeps the tenants and the files is no step of the lease.
LEMMA LeaseStutter ==
  ASSUME OneTenantPerId(phase), OneTenantPerId(phase)',
         \A h \in Handles : phase[h] \in Tenants <=> phase'[h] \in Tenants
  PROVE  Holders' = Holders
<1>1. \A id \in Ids : HolderOf(phase', id) = HolderOf(phase, id)
  <2>1. OneTenantPerId(phase')
    BY DEF OneTenantPerId
  <2> QED
    BY <2>1, SameHolders
<1> QED
  BY <1>1 DEF Holders

\* A step that changes the tenancy of the one handle h changes its holder only.
LEMMA LeaseChange ==
  ASSUME OneTenantPerId(phase), OneTenantPerId(phase)', NEW h \in Handles,
         phase[h] \in Tenants \/ phase'[h] \in Tenants,
         \A x \in Handles \ {h} : phase[x] \in Tenants <=> phase'[x] \in Tenants
  PROVE  /\ phase'[h] \notin Tenants => Holders' = [Holders EXCEPT ![Dir(h)] = NoHandle]
         /\ phase'[h] \in Tenants => Holders' = [Holders EXCEPT ![Dir(h)] = h]
<1>1. OneTenantPerId(phase')
  BY DEF OneTenantPerId
<1>2. \A x \in Handles \ {h} : Dir(x) = Dir(h) => phase[x] \notin Tenants /\ phase'[x] \notin Tenants
  BY DEF OneTenantPerId
<1>3. ASSUME NEW id \in Ids, id # Dir(h)
      PROVE  HolderOf(phase', id) = HolderOf(phase, id)
  <2>1. CASE \E x \in Handles : Dir(x) = id /\ phase[x] \in Tenants
    <3>1. PICK x \in Handles : Dir(x) = id /\ phase[x] \in Tenants
      BY <2>1
    <3>2. x # h /\ phase'[x] \in Tenants
      BY <1>3, <3>1
    <3>3. HolderOf(phase, Dir(x)) = x
      BY <3>1, HolderIsTenant
    <3>4. HolderOf(phase', Dir(x)) = x
      BY <1>1, <3>2, HolderIsTenant
    <3> QED
      BY <3>1, <3>3, <3>4
  <2>2. CASE \A x \in Handles : Dir(x) = id => phase[x] \notin Tenants
    <3>1. \A x \in Handles : Dir(x) = id => phase'[x] \notin Tenants
      BY <1>3, <2>2
    <3>2. HolderOf(phase, id) = NoHandle
      BY <2>2, HolderIsTenant
    <3>3. HolderOf(phase', id) = NoHandle
      BY <1>1, <3>1, HolderIsTenant
    <3> QED
      BY <3>2, <3>3
  <2> QED
    BY <2>1, <2>2
<1>4. Dir(h) \in Ids
  BY DirType
<1>5. phase'[h] \in Tenants => HolderOf(phase', Dir(h)) = h
  BY <1>1, HolderIsTenant
<1>6. phase'[h] \notin Tenants => HolderOf(phase', Dir(h)) = NoHandle
  <2>1. phase'[h] \notin Tenants => \A x \in Handles : Dir(x) = Dir(h) => phase'[x] \notin Tenants
    BY <1>2
  <2> QED
    BY <1>1, <1>4, <2>1, HolderIsTenant
<1> QED
  BY <1>3, <1>4, <1>5, <1>6 DEF Holders

\* The registry implements the lease: no step of it gives, uses or ends the
\* lease of a directory other than as the abstract specification allows.
THEOREM LeaseImplemented == Spec => LeaseSpec
<1>1. Inv => OneTenantPerId(phase)
  BY OneTenant DEF OneTenantPerId
<1>2. Init => Lease!Init
  BY DEF Init, Lease!Init, HolderOf, Tenants
<1>3. Inv /\ OneTenantPerId(phase) /\ OneTenantPerId(phase)' /\ [Next]_vars
        => [Lease!Next]_<<Holders, files>>
  <2> SUFFICES ASSUME Inv, OneTenantPerId(phase), OneTenantPerId(phase)', [Next]_vars
               PROVE  [Lease!Next]_<<Holders, files>>
    OBVIOUS
  <2> DEFINE Stutters == Holders' = Holders /\ files' = files
  <2>1. CASE UNCHANGED <<phase, files>>
    BY <2>1 DEF Holders
  <2>2. ASSUME NEW h \in Handles,
               OpenNew(h) \/ StartBuild(h) \/ BuildFails(h) \/ StartRemove(h)
        PROVE  Stutters
    <3>1. \A x \in Handles : phase[x] \in Tenants <=> phase'[x] \in Tenants
      BY <2>2 DEF Inv, TypeOK, OpenNew, StartBuild, BuildFails, StartRemove, Tenants
    <3>2. files' = files
      BY <2>2 DEF OpenNew, StartBuild, BuildFails, StartRemove, storeVars
    <3> QED
      BY <3>1, <3>2, LeaseStutter
  <2>3. ASSUME NEW h \in Handles, BuildSucceeds(h)
        PROVE  Lease!Take(h)
    <3>1. /\ phase[h] = "building"
          /\ \/ phase' = [phase EXCEPT ![h] = "live"]
             \/ /\ Len(entries) = MaxDatasets
                /\ entries[1] \in Handles \ {h}
                /\ phase' = [phase EXCEPT ![h] = "live", ![entries[1]] = "draining"]
      BY <2>3, BuildSucceedsEffect
    <3>2. Len(entries) = MaxDatasets => phase[entries[1]] = "live"
      BY CapAssumption DEF Inv, TypeOK, EntriesInv
    <3>3. /\ phase'[h] \in Tenants
          /\ \A x \in Handles \ {h} : phase[x] \in Tenants <=> phase'[x] \in Tenants
      BY <3>1, <3>2 DEF Inv, TypeOK, Tenants
    <3>4. Holders' = [Holders EXCEPT ![Dir(h)] = h]
      BY <3>3, LeaseChange
    <3>5. \A x \in Handles : Dir(x) = Dir(h) => phase[x] \notin Tenants
      BY <3>1, DirType, NoHandleAssumption DEF Inv, MapsInv, TenancyInv, Tenants
    <3>6. HolderOf(phase, Dir(h)) = NoHandle
      BY <3>5, HolderIsTenant, DirType
    <3>7. files' = files
      BY <2>3 DEF BuildSucceeds
    <3> QED
      BY <3>4, <3>6, <3>7, DirType DEF Holders, Lease!Take
  <2>4. ASSUME NEW h \in Handles, RemoveSucceeds(h) \/ RemoveFails(h)
        PROVE  Lease!Release(h)
    <3>1. /\ phase[h] = "removing"
          /\ phase'[h] \notin Tenants /\ phase[h] \in Tenants
          /\ \A x \in Handles \ {h} : phase[x] \in Tenants <=> phase'[x] \in Tenants
      BY <2>4 DEF RemoveSucceeds, RemoveFails, Inv, TypeOK, Tenants
    <3>2. Holders' = [Holders EXCEPT ![Dir(h)] = NoHandle]
      BY <3>1, LeaseChange
    <3>3. HolderOf(phase, Dir(h)) = h
      BY <3>1, HolderIsTenant
    <3>4. \E left \in SUBSET files[Dir(h)] : files' = [files EXCEPT ![Dir(h)] = left]
      BY <2>4 DEF RemoveSucceeds, RemoveFails
    <3> QED
      BY <3>2, <3>3, <3>4, DirType DEF Holders, Lease!Release
  <2>5. ASSUME NEW r \in Readers, WriteDone(r)
        PROVE  (Lease!Put(on[r]) /\ on[r] \in Handles) \/ Stutters
    <3>1. on[r] \in Handles /\ phase[on[r]] \in Tenants
      BY <2>5 DEF WriteDone, Inv, ReadersInv, Tenants
    <3>2. HolderOf(phase, Dir(on[r])) = on[r]
      BY <3>1, HolderIsTenant
    <3>3. phase' = phase
      BY <2>5 DEF WriteDone, registryVars
    <3>4. Holders' = Holders
      BY <3>3 DEF Holders
    <3>5. \/ files' = [files EXCEPT ![Dir(on[r])] = @ \cup {on[r]}]
          \/ files' = files
      BY <2>5 DEF WriteDone
    <3> QED
      BY <3>1, <3>2, <3>4, <3>5, DirType DEF Holders, Lease!Put
  <2>6. ASSUME NEW c \in Closers, ClearTurn(c), files' = files
        PROVE  Stutters
    <3>1. CASE InFlight = {}
      <4>1. phase' = [h \in Handles |-> IF phase[h] = "live" THEN "draining" ELSE phase[h]]
        BY <2>6, <3>1, ClearTurnEffect
      <4>2. \A x \in Handles : phase[x] \in Tenants <=> phase'[x] \in Tenants
        BY <4>1 DEF Tenants
      <4> QED
        BY <2>6, <4>2, LeaseStutter
    <3>2. CASE InFlight # {}
      BY <2>6, <3>2 DEF ClearTurn, registryVars, Holders
    <3> QED
      BY <3>1, <3>2
  <2>7. ASSUME NEW c \in Closers, ClearCalled(c) \/ ClearResumes(c)
        PROVE  ClearTurn(c) /\ files' = files
    BY <2>7 DEF ClearCalled, ClearResumes
  <2>8. ASSUME NEW c \in Closers, ClearDrains(c) \/ WhenTornDownCalled(c) \/ CloserReturns(c)
        PROVE  UNCHANGED <<phase, files>>
    BY <2>8 DEF ClearDrains, WhenTornDownCalled, CloserReturns, registryVars, storeVars
  <2>9. ASSUME NEW r \in Readers,
               \/ \E h \in Handles : StartRead(r, h)
               \/ LookupHit(r) \/ LookupMiss(r) \/ FetchSkipsWrite(r) \/ FetchWrites(r)
        PROVE  UNCHANGED <<phase, files>>
    BY <2>9 DEF StartRead, LookupHit, LookupMiss, FetchSkipsWrite, FetchWrites, registryVars
  <2>10. ASSUME NEW h \in Handles, OpenSettles(h)
         PROVE  UNCHANGED <<phase, files>>
    BY <2>10 DEF OpenSettles, storeVars
  <2>11. ASSUME NEW id \in Ids, OpenCached(id)
         PROVE  UNCHANGED <<phase, files>>
    BY <2>11 DEF OpenCached, storeVars
  <2>12. CASE UNCHANGED vars
    BY <2>1, <2>12 DEF vars, registryVars, storeVars
  <2>13. (\E h \in Handles : Lease!Take(h) \/ Lease!Put(h) \/ Lease!Release(h)) => Lease!Next
    BY DEF Lease!Next
  <2> HIDE DEF Stutters
  <2>14. Stutters => [Lease!Next]_<<Holders, files>>
    BY DEF Stutters
  <2> QED
    BY <2>1, <2>2, <2>3, <2>4, <2>5, <2>6, <2>7, <2>8, <2>9, <2>10, <2>11, <2>12, <2>13, <2>14
    DEF Next
<1> QED
  BY <1>1, <1>2, <1>3, Invariance, PTL DEF Spec, LeaseSpec, Lease!Spec, Holders

==============================================================================
