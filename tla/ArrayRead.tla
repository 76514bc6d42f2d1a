------------------------------ MODULE ArrayRead ------------------------------
(***************************************************************************)
(* Which chunks a read of an array asks for, and where their elements go   *)
(* (src/src/array.ts, src/src/chunk/indexing.ts).                          *)
(*                                                                         *)
(* An element is its index in the array, so that the output shows which    *)
(* elements were copied where. Chunks arrive in any order (the loader is   *)
(* module ChunkLoader) or are absent from the store. Sizes and byte ranges *)
(* are counted in elements: the element size only scales them.             *)
(***************************************************************************)
EXTENDS Integers, Sequences, FiniteSets, Functions

CONSTANTS
  Reads,      \* reads of arrays, see IsRead
  Fill,       \* fill_value
  Pad,        \* what an edge chunk stores beyond the bounds of the array
  Undefined   \* JavaScript's

\* A read has the shape, chunk shape and order of its array, asks for all of it
\* (full) or for a selection, and may read byte ranges (ranged): the array has
\* no codec and the store has getRange(). A selection is a vector of <<>> (null),
\* <<i>> (one index) and <<start, stop>>, within the bounds of the array.
IsRead(rd) ==
  /\ rd.order \in {"C", "F"} /\ rd.full \in BOOLEAN /\ rd.ranged \in BOOLEAN
  /\ rd.shape \in Seq(Nat)
  /\ rd.chunks \in [DOMAIN rd.shape -> Nat \ {0}]
  /\ DOMAIN rd.sel = DOMAIN rd.shape
  /\ \A d \in DOMAIN rd.shape :
       \/ rd.sel[d] = <<>>
       \/ \E i \in 0..(rd.shape[d] - 1) : rd.sel[d] = <<i>>
       \/ \E a, b \in 0..rd.shape[d] : a <= b /\ rd.sel[d] = <<a, b>>

ASSUME ReadsAssumption == \A rd \in Reads : IsRead(rd)
ASSUME UndefinedAssumption == Undefined \notin Int

VARIABLES
  read,
  pending,   \* chunk tasks that have not been answered
  missing,   \* tasks whose chunk was absent
  output     \* linear position -> element, or Fill

vars == <<read, pending, missing, output>>

------------------------------------------------------------------------------
(* Vectors and boxes of indices *)

Plus(a, b)  == [d \in DOMAIN a |-> a[d] + b[d]]
Minus(a, b) == [d \in DOMAIN a |-> a[d] - b[d]]
Times(a, b) == [d \in DOMAIN a |-> a[d] * b[d]]
Zero(a)     == [d \in DOMAIN a |-> 0]
Volume(a)   == FoldFunction(LAMBDA x, y : x * y, 1, a)

\* The indices i with lo <= i < hi in every dimension.
Box(lo, hi) ==
  {i \in [DOMAIN lo -> UNION {lo[d]..(hi[d] - 1) : d \in DOMAIN lo}] :
     \A d \in DOMAIN lo : lo[d] <= i[d] /\ i[d] < hi[d]}

CStrides(shape) ==
  LET n == Len(shape)
      strides[d \in 1..n] == IF d = n THEN 1 ELSE strides[d + 1] * shape[d + 1]
  IN strides

FStrides(shape) ==
  LET strides[d \in 1..Len(shape)] ==
        IF d = 1 THEN 1 ELSE strides[d - 1] * shape[d - 1]
  IN strides

Linear(i, strides) == SumFunction(Times(i, strides))

------------------------------------------------------------------------------
(* The chunks of a read *)

\* normalizeSelection(); a full read selects every index.
Start(rd) ==
  [d \in DOMAIN rd.shape |-> IF rd.full \/ rd.sel[d] = <<>> THEN 0 ELSE rd.sel[d][1]]
Stop(rd) ==
  [d \in DOMAIN rd.shape |->
     IF rd.full \/ rd.sel[d] = <<>> THEN rd.shape[d]
     ELSE IF Len(rd.sel[d]) = 1 THEN rd.sel[d][1] + 1 ELSE rd.sel[d][2]]

\* ceil(shape / chunk) chunks in every dimension.
ComputeChunkRanges(rd) ==
  [d \in DOMAIN rd.shape |-> 0..((rd.shape[d] + rd.chunks[d] - 1) \div rd.chunks[d] - 1)]

\* Mutant: the chunk of `stop`, which is not selected.
ComputeSliceChunkRanges_ToStop(rd) ==
  [d \in DOMAIN rd.shape |->
     (Start(rd)[d] \div rd.chunks[d])..(Stop(rd)[d] \div rd.chunks[d])]

ComputeSliceChunkRanges(rd) ==
  [d \in DOMAIN rd.shape |->
     (Start(rd)[d] \div rd.chunks[d])..((Stop(rd)[d] - 1) \div rd.chunks[d])]

\* The generator yields before it counts: a dimension without chunks is walked
\* once, with `undefined` for its index.
AllChunkCoords(ranges) ==
  {c \in [DOMAIN ranges -> UNION {ranges[d] : d \in DOMAIN ranges} \cup {Undefined}] :
     \A d \in DOMAIN ranges : c[d] \in (IF ranges[d] = {} THEN {Undefined} ELSE ranges[d])}

Tasks(rd) ==
  AllChunkCoords(IF rd.full THEN ComputeChunkRanges(rd) ELSE ComputeSliceChunkRanges(rd))

\* The part of the selection that lies in the chunk: from Lo up to Hi.
ChunkStart(rd, c) == Times(c, rd.chunks)
Larger(a, b)  == IF a > b THEN a ELSE b
Smaller(a, b) == IF a < b THEN a ELSE b
Lo(rd, c) == [d \in DOMAIN c |-> Larger(Start(rd)[d], c[d] * rd.chunks[d])]
Hi(rd, c) ==
  [d \in DOMAIN c |->
     Smaller(Stop(rd)[d], Smaller((c[d] + 1) * rd.chunks[d], rd.shape[d]))]

\* Mutant: an edge chunk counts as covered when its part within the array is.
HasByteRange_Clipped(rd, c) ==
  /\ rd.ranged /\ ~rd.full /\ rd.order = "C"
  /\ \A d \in DOMAIN c : d > 1 =>
       Hi(rd, c)[d] - Lo(rd, c)[d]
         = Smaller((c[d] + 1) * rd.chunks[d], rd.shape[d]) - c[d] * rd.chunks[d]

\* computeChunkByteRange(): all dimensions but the first cover the stored chunk.
HasByteRange(rd, c) ==
  /\ rd.ranged /\ ~rd.full /\ rd.order = "C"
  /\ \A d \in DOMAIN c : d > 1 => Hi(rd, c)[d] - Lo(rd, c)[d] = rd.chunks[d]

ByteRangeOffset(rd, c) ==
  Linear(Minus(Lo(rd, c), ChunkStart(rd, c)), CStrides(rd.chunks))

------------------------------------------------------------------------------
(* Reference: storage layout and the meaning of a read *)

\* The position of index i in an array of this shape: the last dimension varies
\* fastest in C order, the first one in F order.
Position(i, shape, order) ==
  LET n == Len(shape)
      c[d \in 0..n] == IF d = 0 THEN 0 ELSE c[d - 1] * shape[d] + i[d]
      f[d \in 1..(n + 1)] == IF d = n + 1 THEN 0 ELSE f[d + 1] * shape[d] + i[d]
  IN IF order = "C" THEN c[n] ELSE f[1]

\* What a stored chunk, padded to the chunk shape, has at a position.
StoredElement(rd, c, p) ==
  LET i == Plus(ChunkStart(rd, c), CHOOSE x \in Box(Zero(c), rd.chunks) :
                                     Position(x, rd.chunks, rd.order) = p)
  IN IF \A d \in DOMAIN c : i[d] < rd.shape[d] THEN i ELSE Pad

Selected(rd) == Box(Start(rd), Stop(rd))
ChunkOf(rd, i) == [d \in DOMAIN i |-> i[d] \div rd.chunks[d]]

------------------------------------------------------------------------------
(* Copying a chunk into the output *)

ChunkStrides(rd) == IF rd.order = "F" THEN FStrides(rd.chunks) ELSE CStrides(rd.chunks)
OutputShape(rd) == Minus(Stop(rd), Start(rd))
OutputStrides(rd) == CStrides(OutputShape(rd))

\* Mutant: edge chunks are copied with their padding.
FullCopies_Padded(rd, c) ==
  {<<Linear(i, ChunkStrides(rd)), Linear(Plus(ChunkStart(rd, c), i), OutputStrides(rd))>> :
     i \in Box(Zero(c), rd.chunks)}

\* copyChunkToOutput(): pairs of a position in the chunk and one in the output.
FullCopies(rd, c) ==
  LET actualChunkShape ==
        [d \in DOMAIN c |-> Smaller(rd.chunks[d], rd.shape[d] - c[d] * rd.chunks[d])]
  IN {<<Linear(i, ChunkStrides(rd)), Linear(Plus(ChunkStart(rd, c), i), OutputStrides(rd))>> :
        i \in Box(Zero(c), actualChunkShape)}

\* copySliceChunkToOutput()
SliceCopies(rd, c) ==
  {<<Linear(Minus(i, ChunkStart(rd, c)), ChunkStrides(rd)),
     Linear(Minus(i, Start(rd)), OutputStrides(rd))>> : i \in Box(Lo(rd, c), Hi(rd, c))}

\* copyPartialToOutput(): positions in the range count from its offset.
PartialCopies(rd, c) ==
  LET overlapShape == Minus(Hi(rd, c), Lo(rd, c)) IN
  {<<ByteRangeOffset(rd, c) + Linear(i, CStrides(overlapShape)),
     Linear(Plus(Minus(Lo(rd, c), Start(rd)), i), OutputStrides(rd))>> :
     i \in Box(Zero(c), overlapShape)}

\* A typed array ignores a write beyond its end.
Write(rd, c, copies) ==
  output' = [p \in DOMAIN output |->
               IF \E k \in copies : k[2] = p
               THEN StoredElement(rd, c, (CHOOSE k \in copies : k[2] = p)[1])
               ELSE output[p]]

------------------------------------------------------------------------------
(* A read *)

Init ==
  /\ read \in Reads
  /\ pending = Tasks(read)
  /\ missing = {}
  /\ output = [p \in 0..(Volume(OutputShape(read)) - 1) |-> Fill]

Answered(c) ==
  /\ c \in pending
  /\ pending' = pending \ {c}
  /\ UNCHANGED read

\* The chunk is absent; none has an `undefined` index (an empty part of its key).
FindsNothing(c) ==
  /\ Answered(c)
  /\ missing' = missing \cup {c}
  /\ UNCHANGED output

IsChunk(c) == \A d \in DOMAIN c : c[d] # Undefined

DeliversFull(c) ==
  /\ IsChunk(c) /\ read.full
  /\ Answered(c)
  /\ Write(read, c, FullCopies(read, c))
  /\ UNCHANGED missing

DeliversPartial(c) ==
  /\ IsChunk(c) /\ HasByteRange(read, c)
  /\ Answered(c)
  /\ Write(read, c, PartialCopies(read, c))
  /\ UNCHANGED missing

\* A chunk fetched whole or, byte range or not, found in the memory cache.
DeliversSlice(c) ==
  /\ IsChunk(c) /\ ~read.full
  /\ Answered(c)
  /\ Write(read, c, SliceCopies(read, c))
  /\ UNCHANGED missing

Next ==
  \E c \in pending :
    FindsNothing(c) \/ DeliversFull(c) \/ DeliversPartial(c) \/ DeliversSlice(c)

Spec == Init /\ [][Next]_vars

------------------------------------------------------------------------------
(* Properties *)

TypeOK ==
  /\ IsRead(read)
  /\ pending \in SUBSET Tasks(read)
  /\ missing \in SUBSET Tasks(read)
  /\ DOMAIN output = 0..(Cardinality(Selected(read)) - 1)
  /\ \A p \in DOMAIN output : output[p] \in Selected(read) \cup {Fill}

\* A read asks for exactly the chunks that hold a selected element: none is
\* left out, whose cells would silently keep the fill value, and none is
\* fetched in vain (computeChunkRanges, computeSliceChunkRanges).
TasksExact ==
  Selected(read) # {} => Tasks(read) = {ChunkOf(read, i) : i \in Selected(read)}

\* A selection of nothing asks for no chunk: allChunkCoords() promises "a
\* cartesian product of the ranges".
EmptyReadAsksNothing == Selected(read) = {} => Tasks(read) = {}

\* Whatever the order of the chunks' arrival, every cell whose chunk arrived has
\* the element that belongs there, and every other cell has the fill value: the
\* copies of different chunks never meet, on any of the three copy paths, and stay
\* within the output.
OutputExact ==
  /\ TypeOK
  /\ \A i \in Selected(read) :
       output[Position(Minus(i, Start(read)), OutputShape(read), "C")] =
         IF ChunkOf(read, i) \in pending \cup missing THEN Fill ELSE i
==============================================================================
