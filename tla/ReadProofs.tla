----------------------------- MODULE ReadProofs -----------------------------
(***************************************************************************)
(* The reads of an array and of a polygon, for every shape, grid and ring. *)
(*                                                                         *)
(* Array reads: the chunks a read asks for are exactly the chunks that     *)
(* hold a selected element, every chunk that arrives puts its selected     *)
(* elements, and nothing else, into their cells of the output, and in the  *)
(* end the output has the value of every selected element. A position is a *)
(* number written in mixed radix: the index of a dimension is a digit.     *)
(* Positions of different indices differ because the digits of a number    *)
(* are unique, and the strides of the code are the weights of the digits.  *)
(* All three copy paths then copy the same pairs of positions.             *)
(*                                                                         *)
(* Polygon reads: a selection has exactly the cells that the rule of       *)
(* membership keeps and the stride samples, because the box that is        *)
(* searched has them all, and the rule is that of the documentation. Two   *)
(* facts of plane geometry carry this. Off the ring, a ray crosses it an   *)
(* odd number of times or an even one whatever its direction; and a        *)
(* rectangle that holds a point inside the polygon has a corner inside,    *)
(* holds a vertex or is touched by an edge. The values that are yielded    *)
(* are then those of the cells by the arithmetic of blocks.                *)
(***************************************************************************)
EXTENDS ArrayRead, PolygonRead, FoldTheorems, FunctionTheorems

\* Floor division by a positive chunk length is the chunk that holds a position.
LEMMA DivIsChunk ==
  ASSUME NEW c \in Nat \ {0}, NEW x \in Int, NEW q \in Int
  PROVE  /\ x \div c \in Int
         /\ (x \div c) * c <= x
         /\ x < (x \div c + 1) * c
         /\ (q * c <= x /\ x < (q + 1) * c) => q = x \div c
<1> DEFINE v == x \div c
<1>1. v \in Int /\ v * c <= x /\ x < (v + 1) * c
  OBVIOUS
<1>2. ASSUME q * c <= x, x < (q + 1) * c PROVE q = v
  <2> HIDE DEF v
  <2>1. q * c < (v + 1) * c /\ v * c < (q + 1) * c
    BY <1>1, <1>2
  <2>2. q < v + 1
    BY <2>1, <1>1
  <2>3. v < q + 1
    BY <2>1, <1>1
  <2> QED
    BY <2>2, <2>3, <1>1
<1> QED
  BY <1>1, <1>2

\* The selection of a read is a range of indices in every dimension.
LEMMA RangeTypes ==
  ASSUME NEW rd, IsRead(rd), NEW d \in DOMAIN rd.shape
  PROVE  /\ rd.shape[d] \in Nat
         /\ rd.chunks[d] \in Nat \ {0}
         /\ Start(rd)[d] \in Nat /\ Stop(rd)[d] \in Nat
         /\ Start(rd)[d] <= Stop(rd)[d] /\ Stop(rd)[d] <= rd.shape[d]
<1>1. rd.shape[d] \in Nat /\ rd.chunks[d] \in Nat \ {0}
  BY DEF IsRead
<1>2. CASE rd.full \/ rd.sel[d] = <<>>
  BY <1>1, <1>2 DEF Start, Stop
<1>3. CASE ~rd.full /\ rd.sel[d] # <<>>
  <2>1. CASE \E i \in 0..(rd.shape[d] - 1) : rd.sel[d] = <<i>>
    <3>1. PICK i \in 0..(rd.shape[d] - 1) : rd.sel[d] = <<i>>
      BY <2>1
    <3>2. Len(rd.sel[d]) = 1 /\ rd.sel[d][1] = i
      BY <3>1
    <3>3. Start(rd)[d] = i
      BY <1>3, <3>2 DEF Start
    <3>4. Stop(rd)[d] = i + 1
      BY <1>3, <3>2 DEF Stop
    <3> QED
      BY <1>1, <3>3, <3>4
  <2>2. CASE \E a, b \in 0..rd.shape[d] : a <= b /\ rd.sel[d] = <<a, b>>
    <3>1. PICK a \in 0..rd.shape[d] : \E b \in 0..rd.shape[d] : a <= b /\ rd.sel[d] = <<a, b>>
      BY <2>2
    <3>2. PICK b \in 0..rd.shape[d] : a <= b /\ rd.sel[d] = <<a, b>>
      BY <3>1
    <3>3. Start(rd)[d] = a /\ Stop(rd)[d] = b
      BY <1>3, <3>2 DEF Start, Stop
    <3> QED
      BY <1>1, <3>2, <3>3
  <2> QED
    BY <1>3, <2>1, <2>2 DEF IsRead
<1> QED
  BY <1>2, <1>3

\* A dimension's chunks of a read that selects something: from the chunk of its
\* first index to the chunk of its last.
Ranges(rd) == IF rd.full THEN ComputeChunkRanges(rd) ELSE ComputeSliceChunkRanges(rd)

\* What a selection that is not empty says of a dimension.
LEMMA SelectedRange ==
  ASSUME NEW rd, IsRead(rd), NEW i \in Selected(rd), NEW d \in DOMAIN rd.shape
  PROVE  i[d] \in Int /\ Start(rd)[d] <= i[d] /\ i[d] < Stop(rd)[d]
<1>1. DOMAIN Start(rd) = DOMAIN rd.shape
  BY DEF Start
<1>2. i[d] \in UNION {Start(rd)[e]..(Stop(rd)[e] - 1) : e \in DOMAIN Start(rd)}
  BY <1>1 DEF Selected, Box
<1>3. PICK e \in DOMAIN rd.shape : i[d] \in Start(rd)[e]..(Stop(rd)[e] - 1)
  BY <1>1, <1>2
<1>4. i[d] \in Int
  BY <1>3, RangeTypes
<1> QED
  BY <1>1, <1>4 DEF Selected, Box

\* Both ways to compute the ranges agree on a selection that is not empty.
LEMMA RangesCover ==
  ASSUME NEW rd, IsRead(rd), NEW i \in Selected(rd), NEW d \in DOMAIN rd.shape
  PROVE  Ranges(rd)[d]
           = (Start(rd)[d] \div rd.chunks[d])..((Stop(rd)[d] - 1) \div rd.chunks[d])
<1> DEFINE c == rd.chunks[d]
           s == rd.shape[d]
<1>1. c \in Nat \ {0} /\ s \in Nat /\ Start(rd)[d] \in Nat /\ Stop(rd)[d] \in Nat
  BY RangeTypes
<1>2. CASE rd.full
  <2>1. Start(rd)[d] = 0 /\ Stop(rd)[d] = s
    BY <1>2 DEF Start, Stop
  <2>2. s > 0
    BY <2>1, <1>1, SelectedRange
  <2> DEFINE q == (s - 1) \div c
  <2>3. q \in Int /\ q * c <= s - 1 /\ s - 1 < (q + 1) * c
    BY <1>1, DivIsChunk
  <2> HIDE DEF q, c, s
  <2>4. (q + 1) * c = q * c + c /\ (q + 1 + 1) * c = q * c + c + c
    BY <1>1, <2>3
  <2>5. (q + 1) * c <= s + c - 1 /\ s + c - 1 < (q + 1 + 1) * c
    BY <1>1, <2>3, <2>4
  <2>6. q + 1 = (s + c - 1) \div c
    <3>1. s + c - 1 \in Int /\ q + 1 \in Int /\ c \in Nat \ {0}
      BY <1>1, <2>3
    <3> DEFINE x == s + c - 1
               r == q + 1
    <3>2. x \in Int /\ r \in Int /\ r * c <= x /\ x < (r + 1) * c
      BY <3>1, <2>5
    <3> HIDE DEF x, r
    <3>3. r = x \div c
      BY <3>1, <3>2, DivIsChunk
    <3> QED
      BY <3>3 DEF x, r
  <2>7. 0 = 0 \div c
    BY <1>1, DivIsChunk
  <2>8. Ranges(rd)[d] = 0..((s + c - 1) \div c - 1)
    BY <1>2 DEF Ranges, ComputeChunkRanges, s, c
  <2>9. (s + c - 1) \div c - 1 = q
    BY <2>3, <2>6
  <2> QED
    BY <2>1, <2>7, <2>8, <2>9 DEF q, c, s
<1>3. CASE ~rd.full
  BY <1>3 DEF Ranges, ComputeSliceChunkRanges
<1> QED
  BY <1>2, <1>3

\* The chunk index of a selected element in one dimension is in the range.
LEMMA ChunkInRange ==
  ASSUME NEW a \in Int, NEW b \in Int, NEW x \in Int, NEW c \in Nat \ {0},
         a <= x, x < b
  PROVE  x \div c \in (a \div c)..((b - 1) \div c)
<1> DEFINE u == a \div c
           v == x \div c
           w == (b - 1) \div c
<1>1. /\ u \in Int /\ u * c <= a
      /\ v \in Int /\ v * c <= x /\ x < (v + 1) * c
      /\ w \in Int /\ b - 1 < (w + 1) * c
  BY DivIsChunk
<1> HIDE DEF u, v, w
<1>2. u * c < (v + 1) * c /\ v * c < (w + 1) * c
  BY <1>1
<1>3. u < v + 1 /\ v < w + 1
  BY <1>1, <1>2
<1>4. v \in u..w
  BY <1>1, <1>3
<1> QED
  BY <1>4 DEF u, v, w

\* Every chunk index in the range is the chunk of a selected index: of the
\* larger of the range's start and the chunk's.
LEMMA RangeHasIndex ==
  ASSUME NEW a \in Int, NEW b \in Int, NEW c \in Nat \ {0}, a < b,
         NEW k \in (a \div c)..((b - 1) \div c)
  PROVE  /\ Larger(a, k * c) \in a..(b - 1)
         /\ Larger(a, k * c) \div c = k
<1> DEFINE u == a \div c
           w == (b - 1) \div c
           x == Larger(a, k * c)
<1>1. /\ u \in Int /\ u * c <= a /\ a < (u + 1) * c
      /\ w \in Int /\ w * c <= b - 1
  BY DivIsChunk
<1>2. k \in Int /\ u <= k /\ k <= w
  BY <1>1
<1> HIDE DEF u, w
<1>3. k * c \in Int /\ k * c <= w * c /\ (u + 1) * c <= (k + 1) * c /\ k * c < (k + 1) * c
  BY <1>1, <1>2
<1>4. x \in Int /\ a <= x /\ k * c <= x /\ (x = a \/ x = k * c)
  BY <1>3 DEF Larger
<1>5. x <= b - 1
  BY <1>1, <1>3, <1>4
<1>6. x < (k + 1) * c
  BY <1>1, <1>2, <1>3, <1>4
<1> HIDE DEF x
<1>7. k = x \div c
  BY <1>2, <1>4, <1>6, DivIsChunk
<1> QED
  BY <1>4, <1>5, <1>7 DEF x

\* The tasks of a read that selects something.
LEMMA TasksAreRanges ==
  ASSUME NEW rd, IsRead(rd), Selected(rd) # {}
  PROVE  /\ DOMAIN Ranges(rd) = DOMAIN rd.shape
         /\ \A d \in DOMAIN rd.shape : Ranges(rd)[d] # {}
         /\ Tasks(rd) = {c \in [DOMAIN rd.shape ->
                                  UNION {Ranges(rd)[d] : d \in DOMAIN rd.shape} \cup {Undefined}] :
                           \A d \in DOMAIN rd.shape : c[d] \in Ranges(rd)[d]}
<1>1. DOMAIN Ranges(rd) = DOMAIN rd.shape
  BY DEF Ranges, ComputeChunkRanges, ComputeSliceChunkRanges
<1>2. ASSUME NEW d \in DOMAIN rd.shape PROVE Ranges(rd)[d] # {}
  <2>1. PICK i \in Selected(rd) : TRUE
    OBVIOUS
  <2>2. /\ i[d] \in Int /\ Start(rd)[d] <= i[d] /\ i[d] < Stop(rd)[d]
        /\ rd.chunks[d] \in Nat \ {0} /\ Start(rd)[d] \in Int /\ Stop(rd)[d] \in Int
    BY SelectedRange, RangeTypes
  <2>3. i[d] \div rd.chunks[d] \in Ranges(rd)[d]
    BY <2>2, ChunkInRange, RangesCover
  <2> QED
    BY <2>3
<1>3. Tasks(rd) = AllChunkCoords(Ranges(rd))
  BY DEF Tasks, Ranges
<1> QED
  BY <1>1, <1>2, <1>3 DEF AllChunkCoords

\* The chunk of a selected element is a task.
LEMMA ChunkIsTask ==
  ASSUME NEW rd, IsRead(rd), NEW i \in Selected(rd)
  PROVE  ChunkOf(rd, i) \in Tasks(rd)
<1>1. DOMAIN i = DOMAIN rd.shape
  BY DEF Selected, Box, Start
<1>2. ASSUME NEW d \in DOMAIN rd.shape PROVE ChunkOf(rd, i)[d] \in Ranges(rd)[d]
  <2>1. /\ i[d] \in Int /\ Start(rd)[d] <= i[d] /\ i[d] < Stop(rd)[d]
        /\ rd.chunks[d] \in Nat \ {0} /\ Start(rd)[d] \in Int /\ Stop(rd)[d] \in Int
    BY SelectedRange, RangeTypes
  <2>2. i[d] \div rd.chunks[d] \in Ranges(rd)[d]
    BY <2>1, ChunkInRange, RangesCover
  <2> QED
    BY <1>1, <2>2 DEF ChunkOf
<1>3. ChunkOf(rd, i) \in [DOMAIN rd.shape -> UNION {Ranges(rd)[d] : d \in DOMAIN rd.shape} \cup {Undefined}]
  BY <1>1, <1>2 DEF ChunkOf
<1> QED
  BY <1>2, <1>3, TasksAreRanges

\* A task is the chunk of a selected element.
LEMMA TaskHoldsElement ==
  ASSUME NEW rd, IsRead(rd), Selected(rd) # {}, NEW c \in Tasks(rd)
  PROVE  \E i \in Selected(rd) : c = ChunkOf(rd, i)
<1> DEFINE D == DOMAIN rd.shape
           i == [d \in D |-> Larger(Start(rd)[d], c[d] * rd.chunks[d])]
<1>1. DOMAIN c = D /\ c = [d \in D |-> c[d]] /\ \A d \in D : c[d] \in Ranges(rd)[d]
  BY TasksAreRanges
<1>2. ASSUME NEW d \in D
      PROVE  /\ i[d] \in Start(rd)[d]..(Stop(rd)[d] - 1)
             /\ i[d] \div rd.chunks[d] = c[d]
  <2>1. PICK s \in Selected(rd) : TRUE
    OBVIOUS
  <2>2. /\ rd.chunks[d] \in Nat \ {0} /\ Start(rd)[d] \in Int /\ Stop(rd)[d] \in Int
        /\ Start(rd)[d] < Stop(rd)[d]
    BY <2>1, SelectedRange, RangeTypes
  <2>3. c[d] \in (Start(rd)[d] \div rd.chunks[d])..((Stop(rd)[d] - 1) \div rd.chunks[d])
    BY <1>1, <2>1, RangesCover
  <2>4. i[d] = Larger(Start(rd)[d], c[d] * rd.chunks[d])
    OBVIOUS
  <2> QED
    BY <2>2, <2>3, <2>4, RangeHasIndex
<1>3. DOMAIN Start(rd) = D
  BY DEF Start
<1>4. i \in Selected(rd)
  <2>1. i \in [D -> UNION {Start(rd)[d]..(Stop(rd)[d] - 1) : d \in D}]
    BY <1>2
  <2>2. ASSUME NEW d \in D PROVE Start(rd)[d] <= i[d] /\ i[d] < Stop(rd)[d]
    <3> HIDE DEF i
    <3>1. Start(rd)[d] \in Nat /\ Stop(rd)[d] \in Nat
      BY RangeTypes
    <3>2. i[d] \in Start(rd)[d]..(Stop(rd)[d] - 1)
      BY <1>2
    <3> QED
      BY <3>1, <3>2
  <2> QED
    BY <1>3, <2>1, <2>2 DEF Selected, Box
<1>5. c = ChunkOf(rd, i)
  BY <1>1, <1>2 DEF ChunkOf
<1> QED
  BY <1>4, <1>5

\* What a read keeps: its description.
LEMMA ReadKept == Spec => []IsRead(read)
<1>1. Init => IsRead(read)
  BY ReadsAssumption DEF Init
<1>2. IsRead(read) /\ [Next]_vars => IsRead(read)'
  <2> SUFFICES ASSUME IsRead(read), [Next]_vars PROVE IsRead(read')
    OBVIOUS
  <2>1. read' = read
    BY DEF Next, vars, FindsNothing, DeliversFull, DeliversPartial, DeliversSlice, Answered
  <2> QED
    BY <2>1
<1> QED
  BY <1>1, <1>2, PTL DEF Spec

\* For every shape, chunk shape and selection, a read that selects something asks
\* for exactly the chunks that hold a selected element: no cell is left with the
\* fill value by a chunk too few (computeChunkRanges, computeSliceChunkRanges,
\* allChunkCoords).
THEOREM ChunksExact == Spec => []TasksExact
<1>1. IsRead(read) => TasksExact
  BY ChunkIsTask, TaskHoldsElement DEF TasksExact
<1> QED
  BY <1>1, ReadKept, PTL

\* The part of a read's selection that lies in a chunk.
Part(rd, c) == {i \in Selected(rd) : ChunkOf(rd, i) = c}

LEMMA PartIsBox ==
  ASSUME NEW rd, IsRead(rd), NEW c \in [DOMAIN rd.shape -> Int]
  PROVE  Box(Lo(rd, c), Hi(rd, c)) = Part(rd, c)
<1> DEFINE D == DOMAIN rd.shape
<1>1. DOMAIN c = D /\ c = [d \in D |-> c[d]]
  OBVIOUS
<1>2. DOMAIN Lo(rd, c) = D /\ DOMAIN Hi(rd, c) = D /\ DOMAIN Start(rd) = D
  BY <1>1 DEF Lo, Hi, Start
<1>3. ASSUME NEW d \in D
      PROVE  /\ c[d] \in Int /\ rd.chunks[d] \in Nat \ {0} /\ rd.shape[d] \in Nat
             /\ Start(rd)[d] \in Nat /\ Stop(rd)[d] \in Nat /\ Stop(rd)[d] <= rd.shape[d]
             /\ c[d] * rd.chunks[d] \in Int /\ (c[d] + 1) * rd.chunks[d] \in Int
             /\ Lo(rd, c)[d] \in Int /\ Hi(rd, c)[d] \in Int
  <2>1. /\ rd.chunks[d] \in Nat \ {0} /\ rd.shape[d] \in Nat
        /\ Start(rd)[d] \in Nat /\ Stop(rd)[d] \in Nat /\ Stop(rd)[d] <= rd.shape[d]
    BY RangeTypes
  <2>2. c[d] * rd.chunks[d] \in Int /\ (c[d] + 1) * rd.chunks[d] \in Int
    BY <2>1
  <2> QED
    BY <1>1, <2>1, <2>2 DEF Lo, Hi, Larger, Smaller
<1>4. ASSUME NEW d \in D, NEW x \in Int
      PROVE  (Lo(rd, c)[d] <= x /\ x < Hi(rd, c)[d])
               <=> (Start(rd)[d] <= x /\ x < Stop(rd)[d] /\ x \div rd.chunks[d] = c[d])
  <2> DEFINE k == c[d] * rd.chunks[d]
             l == (c[d] + 1) * rd.chunks[d]
  <2>1. k \in Int /\ l \in Int
    BY <1>3
  <2>2. (k <= x /\ x < l) <=> x \div rd.chunks[d] = c[d]
    BY <1>3, DivIsChunk
  <2>3. Lo(rd, c)[d] = Larger(Start(rd)[d], k) /\ Hi(rd, c)[d] = Smaller(Stop(rd)[d], Smaller(l, rd.shape[d]))
    BY <1>1 DEF Lo, Hi
  <2> HIDE DEF k, l
  <2>4. (Lo(rd, c)[d] <= x /\ x < Hi(rd, c)[d])
           <=> (Start(rd)[d] <= x /\ k <= x /\ x < Stop(rd)[d] /\ x < l)
    BY <1>3, <2>1, <2>3 DEF Larger, Smaller
  <2> QED
    BY <2>2, <2>4
<1>5. ASSUME NEW i \in Box(Lo(rd, c), Hi(rd, c)) PROVE i \in Selected(rd) /\ ChunkOf(rd, i) = c
  <2>1. DOMAIN i = D /\ i = [d \in D |-> i[d]]
    BY <1>2 DEF Box
  <2>2. ASSUME NEW d \in D
        PROVE  i[d] \in Int /\ Lo(rd, c)[d] <= i[d] /\ i[d] < Hi(rd, c)[d]
    <3>1. PICK e \in D : i[d] \in Lo(rd, c)[e]..(Hi(rd, c)[e] - 1)
      BY <1>2 DEF Box
    <3>2. i[d] \in Int
      BY <1>3, <3>1
    <3> QED
      BY <1>2, <3>2 DEF Box
  <2>3. ASSUME NEW d \in D
        PROVE  /\ i[d] \in Start(rd)[d]..(Stop(rd)[d] - 1) /\ Start(rd)[d] <= i[d] /\ i[d] < Stop(rd)[d]
               /\ i[d] \div rd.chunks[d] = c[d]
    BY <1>3, <1>4, <2>2
  <2>4. i \in [D -> UNION {Start(rd)[d]..(Stop(rd)[d] - 1) : d \in D}]
    BY <2>1, <2>3
  <2>5. i \in Selected(rd)
    BY <1>2, <2>3, <2>4 DEF Selected, Box
  <2> QED
    BY <1>1, <2>1, <2>3, <2>5 DEF ChunkOf
<1>6. ASSUME NEW i \in Selected(rd), ChunkOf(rd, i) = c PROVE i \in Box(Lo(rd, c), Hi(rd, c))
  <2>1. DOMAIN i = D /\ i = [d \in D |-> i[d]]
    BY <1>2 DEF Selected, Box
  <2>2. ASSUME NEW d \in D
        PROVE  i[d] \in Lo(rd, c)[d]..(Hi(rd, c)[d] - 1) /\ Lo(rd, c)[d] <= i[d] /\ i[d] < Hi(rd, c)[d]
    <3>1. i[d] \in Int /\ Start(rd)[d] <= i[d] /\ i[d] < Stop(rd)[d]
      BY SelectedRange
    <3>2. i[d] \div rd.chunks[d] = c[d]
      BY <1>6, <2>1 DEF ChunkOf
    <3> QED
      BY <1>3, <1>4, <3>1, <3>2
  <2>3. i \in [D -> UNION {Lo(rd, c)[d]..(Hi(rd, c)[d] - 1) : d \in D}]
    BY <2>1, <2>2
  <2> QED
    BY <1>2, <2>2, <2>3 DEF Box
<1> QED
  BY <1>2, <1>5, <1>6 DEF Part

\* The part of a chunk that a sliced read copies is exactly the selected elements
\* that the chunk holds, so the chunks' parts are disjoint and cover the selection
\* (overlapStart and overlapEnd in copySliceChunkToOutput, copyPartialToOutput).
THEOREM OverlapExact ==
  ASSUME NEW rd, IsRead(rd), Selected(rd) # {}, NEW c \in Tasks(rd)
  PROVE  Box(Lo(rd, c), Hi(rd, c)) = {i \in Selected(rd) : ChunkOf(rd, i) = c}
<1>1. DOMAIN c = DOMAIN rd.shape /\ c = [d \in DOMAIN rd.shape |-> c[d]]
  BY TasksAreRanges
<1>2. ASSUME NEW d \in DOMAIN rd.shape PROVE c[d] \in Int
  <2>1. PICK s \in Selected(rd) : TRUE
    OBVIOUS
  <2>2. c[d] \in (Start(rd)[d] \div rd.chunks[d])..((Stop(rd)[d] - 1) \div rd.chunks[d])
    BY <2>1, RangesCover, TasksAreRanges
  <2>3. Start(rd)[d] \div rd.chunks[d] \in Int /\ (Stop(rd)[d] - 1) \div rd.chunks[d] \in Int
    BY RangeTypes, DivIsChunk
  <2> QED
    BY <2>2, <2>3
<1> QED
  BY <1>1, <1>2, PartIsBox DEF Part

------------------------------------------------------------------------------
(* Vectors *)

Vectors(n) == [1..n -> Int]

\* A shift and back.
LEMMA ShiftBack ==
  ASSUME NEW n \in Nat, NEW a \in Vectors(n), NEW b \in Vectors(n)
  PROVE  Plus(a, Minus(b, a)) = b
BY DEF Vectors, Plus, Minus

LEMMA ShiftForth ==
  ASSUME NEW n \in Nat, NEW a \in Vectors(n), NEW b \in Vectors(n)
  PROVE  Plus(a, b) \in Vectors(n) /\ Minus(Plus(a, b), a) = b
BY DEF Vectors, Plus, Minus

\* A box has the vectors between its corners.
LEMMA BoxMembers ==
  ASSUME NEW n \in Nat, NEW lo \in Vectors(n), NEW hi \in Vectors(n)
  PROVE  Box(lo, hi) = {i \in Vectors(n) : \A d \in 1..n : lo[d] <= i[d] /\ i[d] < hi[d]}
<1> DEFINE U == UNION {lo[d]..(hi[d] - 1) : d \in 1..n}
<1>1. DOMAIN lo = 1..n /\ U \subseteq Int
  BY DEF Vectors
<1>2. ASSUME NEW i \in Vectors(n), \A d \in 1..n : lo[d] <= i[d] /\ i[d] < hi[d]
      PROVE  i \in [1..n -> U]
  <2>1. ASSUME NEW d \in 1..n PROVE i[d] \in lo[d]..(hi[d] - 1)
    BY <1>2 DEF Vectors
  <2> QED
    BY <2>1 DEF Vectors
<1> HIDE DEF U
<1>3. Box(lo, hi) = {i \in [1..n -> U] : \A d \in 1..n : lo[d] <= i[d] /\ i[d] < hi[d]}
  BY <1>1 DEF Box, U
<1> QED
  BY <1>1, <1>2, <1>3 DEF Vectors

LEMMA BoxMember ==
  ASSUME NEW n \in Nat, NEW lo \in Vectors(n), NEW hi \in Vectors(n), NEW i \in Vectors(n)
  PROVE  i \in Box(lo, hi) <=> \A d \in 1..n : lo[d] <= i[d] /\ i[d] < hi[d]
BY BoxMembers

------------------------------------------------------------------------------
(* Positions *)

\* A digit and what comes before it are told apart by their weighted sum.
LEMMA DigitUnique ==
  ASSUME NEW s \in Int, NEW a \in Int, NEW b \in Int, NEW x \in 0..(s - 1), NEW y \in 0..(s - 1),
         a * s + x = b * s + y
  PROVE  a = b /\ x = y
<1>1. CASE a < b
  <2>1. a + 1 <= b /\ s \in Nat
    BY <1>1
  <2>2. (a + 1) * s <= b * s
    BY <2>1
  <2>3. (a + 1) * s = a * s + s
    OBVIOUS
  <2>4. a * s \in Int /\ b * s \in Int
    OBVIOUS
  <2> QED
    BY <2>2, <2>3, <2>4
<1>2. CASE b < a
  <2>1. b + 1 <= a /\ s \in Nat
    BY <1>2
  <2>2. (b + 1) * s <= a * s
    BY <2>1
  <2>3. (b + 1) * s = b * s + s
    OBVIOUS
  <2>4. a * s \in Int /\ b * s \in Int
    OBVIOUS
  <2> QED
    BY <2>2, <2>3, <2>4
<1>3. CASE a = b
  <2>1. a * s \in Int
    OBVIOUS
  <2> QED
    BY <1>3, <2>1
<1> QED
  BY <1>1, <1>2, <1>3

\* The digits of a vector, read from its first dimension on.
Reading(c, i, shape, n) ==
  c \in [0..n -> Int] /\ c[0] = 0 /\ \A d \in 1..n : c[d] = c[d - 1] * shape[d] + i[d]

\* Position in C order is the last value of any reading.
LEMMA CPosition ==
  ASSUME NEW n \in Nat, NEW shape \in Vectors(n), Len(shape) = n, NEW i \in Vectors(n), NEW c,
         Reading(c, i, shape, n)
  PROVE  Position(i, shape, "C") = c[n]
<1> DEFINE IsSolution(g) == g = [d \in 0..n |-> IF d = 0 THEN 0 ELSE g[d - 1] * shape[d] + i[d]]
           solution == CHOOSE g : IsSolution(g)
<1>1. IsSolution(c)
  BY DEF Reading
<1>2. IsSolution(solution)
  <2> HIDE DEF IsSolution
  <2> QED
    BY <1>1
<1> HIDE DEF solution
<1> DEFINE same == {d \in 0..n : solution[d] = c[d]}
<1>3. 0 \in same
  BY <1>1, <1>2
<1>4. ASSUME NEW d \in 1..n, d - 1 \in same PROVE d \in same
  <2>1. solution[d] = solution[d - 1] * shape[d] + i[d]
    BY <1>2
  <2>2. c[d] = c[d - 1] * shape[d] + i[d]
    BY DEF Reading
  <2> QED
    BY <1>4, <2>1, <2>2
<1>5. n \in same
  <2> HIDE DEF same
  <2>1. \A d \in 0..n : d \in same
    BY <1>3, <1>4, IntervalInduction
  <2> QED
    BY <2>1
<1>6. Position(i, shape, "C") = solution[n]
  BY DEF Position, solution
<1> QED
  BY <1>5, <1>6

LEMMA ReadingExists ==
  ASSUME NEW n \in Nat, NEW shape \in Vectors(n), NEW i \in Vectors(n)
  PROVE  \E c : Reading(c, i, shape, n)
<1> DEFINE G == [p \in (1..n) \X Int |-> p[2] * shape[p[1]] + i[p[1]]]
<1>1. G \in [(1..n) \X Int -> Int] /\ 0 \in Int
  BY DEF Vectors
<1>2. PICK c : IsRecursion(c, n, Int, 0, G)
  <2> HIDE DEF G
  <2> QED
    BY <1>1, Recursion, Zenon
<1>3. ASSUME NEW d \in 1..n PROVE c[d] = c[d - 1] * shape[d] + i[d]
  <2>1. c[d - 1] \in Int /\ <<d, c[d - 1]>> \in (1..n) \X Int
    BY <1>2 DEF IsRecursion
  <2> QED
    BY <1>2, <2>1 DEF IsRecursion
<1> QED
  BY <1>2, <1>3 DEF Reading, IsRecursion

\* The digits of a vector, read from its last dimension on.
ReadingBack(f, i, shape, n) ==
  f \in [1..(n + 1) -> Int] /\ f[n + 1] = 0 /\ \A d \in 1..n : f[d] = f[d + 1] * shape[d] + i[d]

LEMMA ReadingBackExists ==
  ASSUME NEW n \in Nat, NEW shape \in Vectors(n), NEW i \in Vectors(n)
  PROVE  \E f : ReadingBack(f, i, shape, n)
<1> DEFINE G == [p \in (1..n) \X Int |-> p[2] * shape[n + 1 - p[1]] + i[n + 1 - p[1]]]
<1>1. G \in [(1..n) \X Int -> Int] /\ 0 \in Int
  <2>1. ASSUME NEW k \in 1..n PROVE shape[n + 1 - k] \in Int /\ i[n + 1 - k] \in Int
    <3>1. n + 1 - k \in 1..n
      OBVIOUS
    <3> QED
      BY <3>1 DEF Vectors
  <2> QED
    BY <2>1
<1>2. PICK c : IsRecursion(c, n, Int, 0, G)
  <2> HIDE DEF G
  <2> QED
    BY <1>1, Recursion, Zenon
<1> DEFINE f == [d \in 1..(n + 1) |-> c[n + 1 - d]]
<1>3. f \in [1..(n + 1) -> Int] /\ f[n + 1] = 0
  <2>1. ASSUME NEW d \in 1..(n + 1) PROVE c[n + 1 - d] \in Int
    <3>1. n + 1 - d \in 0..n
      OBVIOUS
    <3> QED
      BY <1>2, <3>1 DEF IsRecursion
  <2>2. n + 1 \in 1..(n + 1) /\ n + 1 - (n + 1) = 0 /\ c[0] = 0
    BY <1>2 DEF IsRecursion
  <2> QED
    BY <2>1, <2>2
<1>4. ASSUME NEW d \in 1..n PROVE f[d] = f[d + 1] * shape[d] + i[d]
  <2> DEFINE k == n + 1 - d
  <2>1. k \in 1..n /\ k - 1 \in 0..n /\ n + 1 - k = d /\ k - 1 = n + 1 - (d + 1)
    OBVIOUS
  <2>2. d \in 1..(n + 1) /\ d + 1 \in 1..(n + 1)
    OBVIOUS
  <2>3. c[k - 1] \in Int
    BY <1>2, <2>1 DEF IsRecursion
  <2>4. G[<<k, c[k - 1]>>] = c[k - 1] * shape[d] + i[d]
    BY <2>1, <2>3
  <2>5. c[k] = G[<<k, c[k - 1]>>]
    BY <1>2, <2>1 DEF IsRecursion
  <2>6. f[d] = c[k] /\ f[d + 1] = c[k - 1]
    BY <2>1, <2>2
  <2> QED
    BY <2>4, <2>5, <2>6
<1> QED
  <2> HIDE DEF f
  <2> QED
    BY <1>3, <1>4 DEF ReadingBack

\* Position in F order is the first value of any reading from the back.
LEMMA FPosition ==
  ASSUME NEW n \in Nat, NEW shape \in Vectors(n), Len(shape) = n, NEW i \in Vectors(n), NEW f,
         ReadingBack(f, i, shape, n)
  PROVE  Position(i, shape, "F") = f[1]
<1> DEFINE IsSolution(g) == g = [d \in 1..(n + 1) |-> IF d = n + 1 THEN 0 ELSE g[d + 1] * shape[d] + i[d]]
           solution == CHOOSE g : IsSolution(g)
<1>1. IsSolution(f)
  <2>1. \A d \in 1..(n + 1) : d # n + 1 => d \in 1..n
    OBVIOUS
  <2> QED
    BY <2>1 DEF ReadingBack
<1>2. IsSolution(solution)
  <2> HIDE DEF IsSolution
  <2> QED
    BY <1>1
<1> HIDE DEF solution
<1> DEFINE same == {k \in 0..n : solution[n + 1 - k] = f[n + 1 - k]}
<1>3. 0 \in same
  <2>1. n + 1 \in 1..(n + 1) /\ n + 1 - 0 = n + 1
    OBVIOUS
  <2> QED
    BY <1>1, <1>2, <2>1
<1>4. ASSUME NEW k \in 1..n, k - 1 \in same PROVE k \in same
  <2> DEFINE d == n + 1 - k
  <2>1. d \in 1..(n + 1) /\ d \in 1..n /\ d # n + 1 /\ d + 1 = n + 1 - (k - 1)
    OBVIOUS
  <2>2. solution[d] = solution[d + 1] * shape[d] + i[d]
    BY <1>2, <2>1
  <2>3. f[d] = f[d + 1] * shape[d] + i[d]
    BY <2>1 DEF ReadingBack
  <2>4. solution[d + 1] = f[d + 1]
    BY <1>4, <2>1
  <2> QED
    BY <2>2, <2>3, <2>4
<1>5. solution[1] = f[1]
  <2> HIDE DEF same
  <2>1. \A k \in 0..n : k \in same
    BY <1>3, <1>4, IntervalInduction
  <2>2. n \in same
    BY <2>1
  <2>3. n + 1 - n = 1
    OBVIOUS
  <2> QED
    BY <2>2, <2>3 DEF same
<1>6. Position(i, shape, "F") = solution[1]
  BY DEF Position, solution
<1> QED
  BY <1>5, <1>6

------------------------------------------------------------------------------
(* Strides *)

CRule(s, shape, n) ==
  /\ n > 0 => s[n] = 1
  /\ \A d \in 1..n : d < n => s[d] = s[d + 1] * shape[d + 1]
IsCStrides(s, shape, n) == s \in Vectors(n) /\ CRule(s, shape, n)

FRule(s, shape, n) ==
  /\ n > 0 => s[1] = 1
  /\ \A d \in 1..n : d > 1 => s[d] = s[d - 1] * shape[d - 1]
IsFStrides(s, shape, n) == s \in Vectors(n) /\ FRule(s, shape, n)

LEMMA CStridesUnique ==
  ASSUME NEW n \in Nat, NEW shape, NEW s, NEW t, IsCStrides(s, shape, n), CRule(t, shape, n)
  PROVE  \A d \in 1..n : t[d] = s[d]
<1> SUFFICES ASSUME n > 0 PROVE \A d \in 1..n : t[d] = s[d]
  OBVIOUS
<1> DEFINE m == n - 1
           same == {k \in 0..m : t[n - k] = s[n - k]}
<1>1. m \in Nat /\ 0 \in same
  BY DEF IsCStrides, CRule
<1>2. ASSUME NEW k \in 1..m, k - 1 \in same PROVE k \in same
  <2> DEFINE d == n - k
  <2>1. d \in 1..n /\ d < n /\ d + 1 = n - (k - 1)
    OBVIOUS
  <2>2. t[d + 1] = s[d + 1]
    BY <1>2, <2>1
  <2>3. t[d] = t[d + 1] * shape[d + 1] /\ s[d] = s[d + 1] * shape[d + 1]
    BY <2>1 DEF IsCStrides, CRule
  <2> QED
    BY <2>2, <2>3
<1>3. \A k \in 0..m : k \in same
  <2> HIDE DEF same, m
  <2> QED
    BY <1>1, <1>2, IntervalInduction
<1>4. ASSUME NEW d \in 1..n PROVE t[d] = s[d]
  <2>1. n - d \in 0..m /\ n - (n - d) = d
    OBVIOUS
  <2>2. n - d \in same
    BY <1>3, <2>1
  <2> QED
    BY <2>1, <2>2
<1> QED
  BY <1>4

LEMMA FStridesUnique ==
  ASSUME NEW n \in Nat, NEW shape, NEW s, NEW t, IsFStrides(s, shape, n), FRule(t, shape, n)
  PROVE  \A d \in 1..n : t[d] = s[d]
<1> SUFFICES ASSUME n > 0 PROVE \A d \in 1..n : t[d] = s[d]
  OBVIOUS
<1> DEFINE m == n - 1
           same == {k \in 0..m : t[k + 1] = s[k + 1]}
<1>1. m \in Nat /\ 0 \in same
  BY DEF IsFStrides, FRule
<1>2. ASSUME NEW k \in 1..m, k - 1 \in same PROVE k \in same
  <2> DEFINE d == k + 1
  <2>1. d \in 1..n /\ d > 1 /\ d - 1 = (k - 1) + 1
    OBVIOUS
  <2>2. t[d - 1] = s[d - 1]
    BY <1>2, <2>1
  <2>3. t[d] = t[d - 1] * shape[d - 1] /\ s[d] = s[d - 1] * shape[d - 1]
    BY <2>1 DEF IsFStrides, FRule
  <2> QED
    BY <2>2, <2>3
<1>3. \A k \in 0..m : k \in same
  <2> HIDE DEF same, m
  <2> QED
    BY <1>1, <1>2, IntervalInduction
<1>4. ASSUME NEW d \in 1..n PROVE t[d] = s[d]
  <2>1. d - 1 \in 0..m /\ (d - 1) + 1 = d
    OBVIOUS
  <2>2. d - 1 \in same
    BY <1>3, <2>1
  <2> QED
    BY <2>1, <2>2
<1> QED
  BY <1>4

LEMMA CStridesFacts ==
  ASSUME NEW n \in Nat, NEW shape \in Vectors(n), Len(shape) = n
  PROVE  IsCStrides(CStrides(shape), shape, n)
<1> DEFINE IsSolution(g) == g = [d \in 1..n |-> IF d = n THEN 1 ELSE g[d + 1] * shape[d + 1]]
<1>1. PICK s : IsCStrides(s, shape, n)
  <2>1. CASE n = 0
    <3> DEFINE s == [d \in 1..0 |-> 1]
    <3>1. IsCStrides(s, shape, n)
      BY <2>1 DEF IsCStrides, CRule, Vectors
    <3> QED
      BY <3>1
  <2>2. CASE n > 0
    <3> DEFINE m == n - 1
               G == [p \in (1..m) \X Int |-> p[2] * shape[n + 1 - p[1]]]
    <3>1. G \in [(1..m) \X Int -> Int] /\ 1 \in Int /\ m \in Nat
      <4>1. ASSUME NEW k \in 1..m PROVE shape[n + 1 - k] \in Int
        <5>1. n + 1 - k \in 1..n
          OBVIOUS
        <5> QED
          BY <5>1 DEF Vectors
      <4> QED
        BY <2>2, <4>1
    <3>2. PICK c : IsRecursion(c, m, Int, 1, G)
      <4> HIDE DEF G, m
      <4> QED
        BY <3>1, Recursion, Zenon
    <3> DEFINE s == [d \in 1..n |-> c[n - d]]
    <3>3. s \in Vectors(n)
      <4>1. ASSUME NEW d \in 1..n PROVE c[n - d] \in Int
        <5>1. n - d \in 0..m
          OBVIOUS
        <5> QED
          BY <3>2, <5>1 DEF IsRecursion
      <4> QED
        BY <4>1 DEF Vectors
    <3>4. s[n] = 1
      <4>1. n \in 1..n /\ n - n = 0
        BY <2>2
      <4> QED
        BY <3>2, <4>1 DEF IsRecursion
    <3>5. ASSUME NEW d \in 1..n, d < n PROVE s[d] = s[d + 1] * shape[d + 1]
      <4> DEFINE k == n - d
      <4>1. k \in 1..m /\ k - 1 \in 0..m /\ n + 1 - k = d + 1 /\ k - 1 = n - (d + 1) /\ d + 1 \in 1..n
        BY <3>5
      <4>2. c[k - 1] \in Int /\ c[k] = G[<<k, c[k - 1]>>]
        BY <3>2, <4>1 DEF IsRecursion
      <4>3. G[<<k, c[k - 1]>>] = c[k - 1] * shape[d + 1]
        BY <4>1, <4>2
      <4> QED
        BY <4>1, <4>2, <4>3
    <3>6. IsCStrides(s, shape, n)
      <4> HIDE DEF s
      <4> QED
        BY <3>3, <3>4, <3>5 DEF IsCStrides, CRule
    <3> QED
      BY <3>6
  <2> QED
    BY <2>1, <2>2
<1>2. IsSolution(s)
  <2>1. ASSUME NEW d \in 1..n PROVE s[d] = IF d = n THEN 1 ELSE s[d + 1] * shape[d + 1]
    BY <1>1 DEF IsCStrides, CRule
  <2>2. s = [d \in 1..n |-> s[d]]
    BY <1>1 DEF IsCStrides, Vectors
  <2> QED
    BY <2>1, <2>2
<1>3. IsSolution(CStrides(shape))
  <2>1. CStrides(shape) = CHOOSE g : IsSolution(g)
    BY DEF CStrides
  <2> HIDE DEF IsSolution
  <2> QED
    BY <1>2, <2>1
<1> DEFINE t == CStrides(shape)
<1>4. t = [d \in 1..n |-> t[d]] /\ CRule(t, shape, n)
  <2> HIDE DEF t
  <2> QED
    BY <1>3 DEF t, CRule
<1>5. \A d \in 1..n : t[d] = s[d]
  <2> HIDE DEF t
  <2> QED
    BY <1>1, <1>4, CStridesUnique
<1>6. t = s
  BY <1>1, <1>4, <1>5 DEF IsCStrides, CRule, Vectors
<1> QED
  BY <1>1, <1>6

LEMMA FStridesFacts ==
  ASSUME NEW n \in Nat, NEW shape \in Vectors(n), Len(shape) = n
  PROVE  IsFStrides(FStrides(shape), shape, n)
<1> DEFINE IsSolution(g) == g = [d \in 1..n |-> IF d = 1 THEN 1 ELSE g[d - 1] * shape[d - 1]]
<1>1. PICK s : IsFStrides(s, shape, n)
  <2>1. CASE n = 0
    <3> DEFINE s == [d \in 1..0 |-> 1]
    <3>1. IsFStrides(s, shape, n)
      BY <2>1 DEF IsFStrides, FRule, Vectors
    <3> QED
      BY <3>1
  <2>2. CASE n > 0
    <3> DEFINE m == n - 1
               G == [p \in (1..m) \X Int |-> p[2] * shape[p[1]]]
    <3>1. G \in [(1..m) \X Int -> Int] /\ 1 \in Int /\ m \in Nat
      <4>1. ASSUME NEW k \in 1..m PROVE shape[k] \in Int
        <5>1. k \in 1..n
          OBVIOUS
        <5> QED
          BY <5>1 DEF Vectors
      <4> QED
        BY <2>2, <4>1
    <3>2. PICK c : IsRecursion(c, m, Int, 1, G)
      <4> HIDE DEF G, m
      <4> QED
        BY <3>1, Recursion, Zenon
    <3> DEFINE s == [d \in 1..n |-> c[d - 1]]
    <3>3. s \in Vectors(n)
      <4>1. ASSUME NEW d \in 1..n PROVE c[d - 1] \in Int
        <5>1. d - 1 \in 0..m
          OBVIOUS
        <5> QED
          BY <3>2, <5>1 DEF IsRecursion
      <4> QED
        BY <4>1 DEF Vectors
    <3>4. s[1] = 1
      <4>1. 1 \in 1..n /\ 1 - 1 = 0
        BY <2>2
      <4> QED
        BY <3>2, <4>1 DEF IsRecursion
    <3>5. ASSUME NEW d \in 1..n, d > 1 PROVE s[d] = s[d - 1] * shape[d - 1]
      <4> DEFINE k == d - 1
      <4>1. k \in 1..m /\ k - 1 \in 0..m /\ d - 1 \in 1..n
        BY <3>5
      <4>2. c[k - 1] \in Int /\ c[k] = G[<<k, c[k - 1]>>]
        BY <3>2, <4>1 DEF IsRecursion
      <4>3. G[<<k, c[k - 1]>>] = c[k - 1] * shape[k]
        BY <4>1, <4>2
      <4> QED
        BY <4>1, <4>2, <4>3
    <3>6. IsFStrides(s, shape, n)
      <4> HIDE DEF s
      <4> QED
        BY <3>3, <3>4, <3>5 DEF IsFStrides, FRule
    <3> QED
      BY <3>6
  <2> QED
    BY <2>1, <2>2
<1>2. IsSolution(s)
  <2>1. ASSUME NEW d \in 1..n PROVE s[d] = IF d = 1 THEN 1 ELSE s[d - 1] * shape[d - 1]
    BY <1>1 DEF IsFStrides, FRule
  <2>2. s = [d \in 1..n |-> s[d]]
    BY <1>1 DEF IsFStrides, Vectors
  <2> QED
    BY <2>1, <2>2
<1>3. IsSolution(FStrides(shape))
  <2>1. FStrides(shape) = CHOOSE g : IsSolution(g)
    BY DEF FStrides
  <2> HIDE DEF IsSolution
  <2> QED
    BY <1>2, <2>1
<1> DEFINE t == FStrides(shape)
<1>4. t = [d \in 1..n |-> t[d]] /\ FRule(t, shape, n)
  <2> HIDE DEF t
  <2> QED
    BY <1>3 DEF t, FRule
<1>5. \A d \in 1..n : t[d] = s[d]
  <2> HIDE DEF t
  <2> QED
    BY <1>1, <1>4, FStridesUnique
<1>6. t = s
  BY <1>1, <1>4, <1>5 DEF IsFStrides, FRule, Vectors
<1> QED
  BY <1>1, <1>6


------------------------------------------------------------------------------
(* Linear positions *)

\* A sum from the first dimension on, and one from the last dimension back.
LEMMA PartialSums ==
  ASSUME NEW n \in Nat, NEW f \in Vectors(n)
  PROVE  /\ SumFunctionOnSet(f, 1..0) = 0
         /\ SumFunctionOnSet(f, (n + 1)..n) = 0
         /\ SumFunction(f) = SumFunctionOnSet(f, 1..n)
         /\ \A d \in 1..n :
              /\ SumFunctionOnSet(f, 1..d) = f[d] + SumFunctionOnSet(f, 1..(d - 1))
              /\ SumFunctionOnSet(f, d..n) = f[d] + SumFunctionOnSet(f, (d + 1)..n)
              /\ SumFunctionOnSet(f, 1..(d - 1)) \in Int
              /\ SumFunctionOnSet(f, (d + 1)..n) \in Int
<1>1. f \in [1..n -> Int]
  BY DEF Vectors
<1> QED
  BY <1>1, IntervalSums

\* The sum of the products with the strides of C order is the position in C order.
LEMMA LinearC ==
  ASSUME NEW n \in Nat, NEW shape \in Vectors(n), Len(shape) = n, NEW i \in Vectors(n)
  PROVE  Linear(i, CStrides(shape)) = Position(i, shape, "C")
<1>1. PICK c : Reading(c, i, shape, n)
  BY ReadingExists
<1>2. Position(i, shape, "C") = c[n]
  BY <1>1, CPosition
<1> DEFINE st == CStrides(shape)
           t == Times(i, st)
           S == {m \in 0..n : m > 0 => SumFunctionOnSet(t, 1..m) = c[m] * st[m]}
<1>3. st \in Vectors(n) /\ CRule(st, shape, n)
  BY CStridesFacts DEF IsCStrides
<1> HIDE DEF st
<1>4. t \in Vectors(n) /\ \A d \in 1..n : t[d] = i[d] * st[d]
  BY <1>3 DEF Vectors, Times
<1> HIDE DEF t
<1>5. 0 \in S
  OBVIOUS
<1>6. ASSUME NEW m \in 1..n, m - 1 \in S PROVE m \in S
  <2> DEFINE before == SumFunctionOnSet(t, 1..(m - 1))
  <2>1. SumFunctionOnSet(t, 1..m) = i[m] * st[m] + before
    BY <1>4, PartialSums
  <2>2. i[m] \in Int /\ st[m] \in Int /\ shape[m] \in Int /\ c[m - 1] \in Int
    BY <1>1, <1>3 DEF Vectors, Reading
  <2>3. c[m] = c[m - 1] * shape[m] + i[m]
    BY <1>1 DEF Reading
  <2>4. before = c[m - 1] * (st[m] * shape[m])
    <3>1. CASE m = 1
      <4>1. before = 0
        BY <1>4, <3>1, PartialSums
      <4>2. c[m - 1] = 0
        BY <1>1, <3>1 DEF Reading
      <4> QED
        BY <2>2, <4>1, <4>2
    <3>2. CASE m # 1
      <4>1. before = c[m - 1] * st[m - 1]
        BY <1>6, <3>2
      <4>2. m - 1 \in 1..n /\ m - 1 < n /\ m - 1 + 1 = m
        BY <3>2
      <4>3. st[m - 1] = st[m] * shape[m]
        BY <1>3, <4>2 DEF CRule
      <4> QED
        BY <4>1, <4>3
    <3> QED
      BY <3>1, <3>2
  <2>5. c[m] * st[m] = c[m - 1] * (st[m] * shape[m]) + i[m] * st[m]
    BY <2>2, <2>3
  <2>6. c[m - 1] * (st[m] * shape[m]) \in Int /\ i[m] * st[m] \in Int
    BY <2>2
  <2> HIDE DEF before
  <2> QED
    BY <2>1, <2>4, <2>5, <2>6
<1>7. \A m \in 0..n : m \in S
  <2> HIDE DEF S
  <2> QED
    BY <1>5, <1>6, IntervalInduction
<1>8. SumFunction(t) = c[n]
  <2>1. CASE n = 0
    <3>1. SumFunction(t) = 0
      BY <1>4, <2>1, PartialSums
    <3> QED
      BY <1>1, <2>1, <3>1 DEF Reading
  <2>2. CASE n > 0
    <3>1. SumFunction(t) = c[n] * st[n]
      BY <1>4, <1>7, <2>2, PartialSums
    <3>2. st[n] = 1 /\ c[n] \in Int
      BY <1>1, <1>3, <2>2 DEF CRule, Reading
    <3> QED
      BY <3>1, <3>2
  <2> QED
    BY <2>1, <2>2
<1> QED
  BY <1>2, <1>8 DEF Linear, t, st

\* Likewise in F order.
LEMMA LinearF ==
  ASSUME NEW n \in Nat, NEW shape \in Vectors(n), Len(shape) = n, NEW i \in Vectors(n)
  PROVE  Linear(i, FStrides(shape)) = Position(i, shape, "F")
<1>1. PICK f : ReadingBack(f, i, shape, n)
  BY ReadingBackExists
<1>2. Position(i, shape, "F") = f[1]
  BY <1>1, FPosition
<1> DEFINE st == FStrides(shape)
           t == Times(i, st)
           S == {k \in 0..n : k > 0 =>
                   SumFunctionOnSet(t, (n + 1 - k)..n) = f[n + 1 - k] * st[n + 1 - k]}
<1>3. st \in Vectors(n) /\ FRule(st, shape, n)
  BY FStridesFacts DEF IsFStrides
<1> HIDE DEF st
<1>4. t \in Vectors(n) /\ \A d \in 1..n : t[d] = i[d] * st[d]
  BY <1>3 DEF Vectors, Times
<1> HIDE DEF t
<1>5. 0 \in S
  OBVIOUS
<1>6. ASSUME NEW k \in 1..n, k - 1 \in S PROVE k \in S
  <2> DEFINE d == n + 1 - k
             before == SumFunctionOnSet(t, (d + 1)..n)
  <2>1. d \in 1..n /\ d + 1 = n + 1 - (k - 1)
    OBVIOUS
  <2>2. SumFunctionOnSet(t, d..n) = i[d] * st[d] + before
    <3> HIDE DEF d
    <3> QED
      BY <1>4, <2>1, PartialSums
  <2>3. i[d] \in Int /\ st[d] \in Int /\ shape[d] \in Int /\ f[d + 1] \in Int
    <3>1. d + 1 \in 1..(n + 1)
      BY <2>1
    <3> HIDE DEF d
    <3> QED
      BY <1>1, <1>3, <2>1, <3>1 DEF Vectors, ReadingBack
  <2>4. f[d] = f[d + 1] * shape[d] + i[d]
    BY <1>1, <2>1 DEF ReadingBack
  <2>5. before = f[d + 1] * (st[d] * shape[d])
    <3>1. CASE k = 1
      <4>1. d = n
        BY <3>1
      <4>2. before = 0
        BY <1>4, <4>1, PartialSums
      <4>3. f[d + 1] = 0
        BY <1>1, <4>1 DEF ReadingBack
      <4> QED
        BY <2>3, <4>2, <4>3
    <3>2. CASE k # 1
      <4>1. before = f[d + 1] * st[d + 1]
        BY <1>6, <2>1, <3>2
      <4>2. d + 1 \in 1..n /\ d + 1 > 1 /\ d + 1 - 1 = d
        BY <3>2
      <4>3. st[d + 1] = st[d] * shape[d]
        BY <1>3, <4>2 DEF FRule
      <4> QED
        BY <4>1, <4>3
    <3> QED
      BY <3>1, <3>2
  <2>6. f[d] * st[d] = f[d + 1] * (st[d] * shape[d]) + i[d] * st[d]
    BY <2>3, <2>4
  <2>7. f[d + 1] * (st[d] * shape[d]) \in Int /\ i[d] * st[d] \in Int
    BY <2>3
  <2>8. SumFunctionOnSet(t, d..n) = f[d] * st[d]
    <3> HIDE DEF before, d
    <3> QED
      BY <2>2, <2>5, <2>6, <2>7
  <2> QED
    BY <2>8
<1>7. \A k \in 0..n : k \in S
  <2> HIDE DEF S
  <2> QED
    BY <1>5, <1>6, IntervalInduction
<1>8. SumFunction(t) = f[1]
  <2>1. CASE n = 0
    <3>1. SumFunction(t) = 0
      BY <1>4, <2>1, PartialSums
    <3> QED
      BY <1>1, <2>1, <3>1 DEF ReadingBack
  <2>2. CASE n > 0
    <3>1. n \in S /\ n + 1 - n = 1
      BY <1>7
    <3>2. SumFunctionOnSet(t, 1..n) = f[1] * st[1]
      BY <2>2, <3>1
    <3>3. st[1] = 1 /\ f[1] \in Int
      BY <1>1, <1>3, <2>2 DEF FRule, ReadingBack
    <3> QED
      BY <1>4, <3>2, <3>3, PartialSums
  <2> QED
    BY <2>1, <2>2
<1> QED
  BY <1>2, <1>8 DEF Linear, t, st

\* Positions add up.
LEMMA LinearAdds ==
  ASSUME NEW n \in Nat, NEW st \in Vectors(n), NEW a \in Vectors(n), NEW b \in Vectors(n)
  PROVE  Linear(Plus(a, b), st) = Linear(a, st) + Linear(b, st)
<1> DEFINE s == Plus(a, b)
           x == Times(a, st)
           y == Times(b, st)
           z == Times(s, st)
           S == {m \in 0..n : SumFunctionOnSet(z, 1..m)
                               = SumFunctionOnSet(x, 1..m) + SumFunctionOnSet(y, 1..m)}
<1>1. s \in Vectors(n) /\ \A d \in 1..n : s[d] = a[d] + b[d]
  BY DEF Vectors, Plus
<1> HIDE DEF s
<1>2. /\ x \in Vectors(n) /\ y \in Vectors(n) /\ z \in Vectors(n)
      /\ \A d \in 1..n : x[d] = a[d] * st[d] /\ y[d] = b[d] * st[d] /\ z[d] = s[d] * st[d]
  BY <1>1 DEF Vectors, Times
<1> HIDE DEF x, y, z
<1>3. 0 \in S
  BY <1>2, PartialSums
<1>4. ASSUME NEW m \in 1..n, m - 1 \in S PROVE m \in S
  <2>1. a[m] \in Int /\ b[m] \in Int /\ st[m] \in Int
    BY DEF Vectors
  <2>2. z[m] = x[m] + y[m] /\ x[m] \in Int /\ y[m] \in Int
    BY <1>1, <1>2, <2>1
  <2>3. /\ SumFunctionOnSet(x, 1..m) = x[m] + SumFunctionOnSet(x, 1..(m - 1))
        /\ SumFunctionOnSet(y, 1..m) = y[m] + SumFunctionOnSet(y, 1..(m - 1))
        /\ SumFunctionOnSet(z, 1..m) = z[m] + SumFunctionOnSet(z, 1..(m - 1))
        /\ SumFunctionOnSet(x, 1..(m - 1)) \in Int /\ SumFunctionOnSet(y, 1..(m - 1)) \in Int
    BY <1>2, PartialSums
  <2> QED
    BY <1>4, <2>2, <2>3
<1>5. n \in S
  <2> HIDE DEF S
  <2>1. \A m \in 0..n : m \in S
    BY <1>3, <1>4, IntervalInduction
  <2> QED
    BY <2>1
<1>6. /\ SumFunction(x) = SumFunctionOnSet(x, 1..n) /\ SumFunction(y) = SumFunctionOnSet(y, 1..n)
      /\ SumFunction(z) = SumFunctionOnSet(z, 1..n)
  BY <1>2, PartialSums
<1> QED
  BY <1>5, <1>6 DEF Linear, x, y, z, s


------------------------------------------------------------------------------
(* The positions of a box *)

\* The indices of an array of this shape.
Indices(shape, n) == {i \in Vectors(n) : \A d \in 1..n : 0 <= i[d] /\ i[d] < shape[d]}

LEMMA PositionInjectiveC ==
  ASSUME NEW n \in Nat, NEW shape \in Vectors(n), Len(shape) = n,
         NEW a \in Indices(shape, n), NEW b \in Indices(shape, n),
         Position(a, shape, "C") = Position(b, shape, "C")
  PROVE  a = b
<1>1. /\ a \in Vectors(n) /\ b \in Vectors(n)
      /\ \A d \in 1..n : /\ shape[d] \in Int
                         /\ a[d] \in 0..(shape[d] - 1) /\ b[d] \in 0..(shape[d] - 1)
  BY DEF Indices, Vectors
<1>2. PICK c : Reading(c, a, shape, n)
  BY <1>1, ReadingExists
<1>3. PICK e : Reading(e, b, shape, n)
  BY <1>1, ReadingExists
<1>4. c[n] = e[n]
  BY <1>1, <1>2, <1>3, CPosition
<1>5. ASSUME NEW d \in 1..n, c[d] = e[d] PROVE c[d - 1] = e[d - 1] /\ a[d] = b[d]
  <2> DEFINE s == shape[d]
             u == c[d - 1]
             v == e[d - 1]
             x == a[d]
             y == b[d]
  <2>1. u \in Int /\ v \in Int /\ s \in Int /\ x \in 0..(s - 1) /\ y \in 0..(s - 1)
    BY <1>1, <1>2, <1>3 DEF Reading
  <2>2. c[d] = u * s + x /\ e[d] = v * s + y
    BY <1>2, <1>3 DEF Reading
  <2>3. u * s + x = v * s + y
    BY <1>5, <2>2
  <2>4. u = v /\ x = y
    <3> HIDE DEF s, u, v, x, y
    <3> QED
      BY <2>1, <2>3, DigitUnique
  <2> QED
    BY <2>4
<1> DEFINE S == {k \in 0..n : c[n - k] = e[n - k]}
<1>6. 0 \in S
  BY <1>4
<1>7. ASSUME NEW k \in 1..n, k - 1 \in S PROVE k \in S
  <2>1. n - (k - 1) \in 1..n /\ n - (k - 1) - 1 = n - k
    OBVIOUS
  <2> QED
    BY <1>5, <1>7, <2>1
<1>8. \A k \in 0..n : k \in S
  <2> HIDE DEF S
  <2> QED
    BY <1>6, <1>7, IntervalInduction
<1>9. ASSUME NEW d \in 1..n PROVE a[d] = b[d]
  <2>1. n - d \in S /\ n - (n - d) = d
    BY <1>8
  <2> QED
    BY <1>5, <2>1
<1> QED
  BY <1>1, <1>9 DEF Vectors

LEMMA PositionInjectiveF ==
  ASSUME NEW n \in Nat, NEW shape \in Vectors(n), Len(shape) = n,
         NEW a \in Indices(shape, n), NEW b \in Indices(shape, n),
         Position(a, shape, "F") = Position(b, shape, "F")
  PROVE  a = b
<1>1. /\ a \in Vectors(n) /\ b \in Vectors(n)
      /\ \A d \in 1..n : /\ shape[d] \in Int
                         /\ a[d] \in 0..(shape[d] - 1) /\ b[d] \in 0..(shape[d] - 1)
  BY DEF Indices, Vectors
<1>2. PICK f : ReadingBack(f, a, shape, n)
  BY <1>1, ReadingBackExists
<1>3. PICK g : ReadingBack(g, b, shape, n)
  BY <1>1, ReadingBackExists
<1>4. f[1] = g[1]
  BY <1>1, <1>2, <1>3, FPosition
<1>5. ASSUME NEW d \in 1..n, f[d] = g[d] PROVE f[d + 1] = g[d + 1] /\ a[d] = b[d]
  <2>1. d + 1 \in 1..(n + 1)
    OBVIOUS
  <2> DEFINE s == shape[d]
             u == f[d + 1]
             v == g[d + 1]
             x == a[d]
             y == b[d]
  <2>2. u \in Int /\ v \in Int /\ s \in Int /\ x \in 0..(s - 1) /\ y \in 0..(s - 1)
    BY <1>1, <1>2, <1>3, <2>1 DEF ReadingBack
  <2>3. f[d] = u * s + x /\ g[d] = v * s + y
    BY <1>2, <1>3 DEF ReadingBack
  <2>4. u * s + x = v * s + y
    BY <1>5, <2>3
  <2>5. u = v /\ x = y
    <3> HIDE DEF s, u, v, x, y
    <3> QED
      BY <2>2, <2>4, DigitUnique
  <2> QED
    BY <2>5
<1> DEFINE S == {k \in 0..n : f[k + 1] = g[k + 1]}
<1>6. 0 \in S
  BY <1>4
<1>7. ASSUME NEW k \in 1..n, k - 1 \in S PROVE k \in S
  BY <1>5, <1>7
<1>8. \A k \in 0..n : k \in S
  <2> HIDE DEF S
  <2> QED
    BY <1>6, <1>7, IntervalInduction
<1>9. ASSUME NEW d \in 1..n PROVE a[d] = b[d]
  <2>1. d - 1 \in S /\ d - 1 + 1 = d
    BY <1>8
  <2> QED
    BY <1>5, <2>1
<1> QED
  BY <1>1, <1>9 DEF Vectors

\* The number of indices in the first d dimensions.
Prefix(shape, d) == ProductOnSet(shape, 1..d)

PrefixRule(shape, n) ==
  /\ Prefix(shape, 0) = 1
  /\ Volume(shape) = Prefix(shape, n)
  /\ \A d \in 1..n : Prefix(shape, d) = shape[d] * Prefix(shape, d - 1)
  /\ \A d \in 0..n : Prefix(shape, d) \in Nat
  /\ \A d \in 1..n : shape[d] = 0 => Volume(shape) = 0

LEMMA PrefixFacts ==
  ASSUME NEW n \in Nat, NEW shape \in [1..n -> Nat]
  PROVE  PrefixRule(shape, n)
<1>1. shape \in [DOMAIN shape -> Int] /\ DOMAIN shape = 1..n
  OBVIOUS
<1>2. Prefix(shape, 0) = 1
  <2>1. IsFiniteSet({}) /\ {} \in SUBSET (1..n) /\ 1..0 = {}
    BY FS_EmptySet
  <2> QED
    BY <1>1, <2>1, ProductFacts DEF Prefix
<1>3. Volume(shape) = Prefix(shape, n)
  BY <1>1 DEF Volume, Prefix, ProductOnSet, FoldFunction
<1>4. ASSUME NEW S \in SUBSET (1..n), IsFiniteSet(S), NEW x \in S
      PROVE  ProductOnSet(shape, S) = shape[x] * ProductOnSet(shape, S \ {x})
  BY <1>1, <1>4, ProductRemove
<1>5. ASSUME NEW d \in 1..n PROVE Prefix(shape, d) = shape[d] * Prefix(shape, d - 1)
  <2>1. 1..d \in SUBSET (1..n) /\ d \in 1..d /\ (1..d) \ {d} = 1..(d - 1)
    OBVIOUS
  <2>2. IsFiniteSet(1..d)
    BY FS_Interval
  <2> QED
    BY <1>4, <2>1, <2>2 DEF Prefix
<1> DEFINE S == {d \in 0..n : Prefix(shape, d) \in Nat}
<1>6. 0 \in S
  BY <1>2
<1>7. ASSUME NEW d \in 1..n, d - 1 \in S PROVE d \in S
  <2>1. shape[d] \in Nat
    OBVIOUS
  <2> QED
    BY <1>5, <1>7, <2>1
<1>8. \A d \in 0..n : d \in S
  <2> HIDE DEF S
  <2> QED
    BY <1>6, <1>7, IntervalInduction
<1>9. ASSUME NEW d \in 1..n, shape[d] = 0 PROVE Volume(shape) = 0
  <2>1. 1..n \in SUBSET (1..n) /\ IsFiniteSet(1..n) /\ IsFiniteSet((1..n) \ {d})
    BY FS_Interval, FS_Subset
  <2>2. Volume(shape) = shape[d] * ProductOnSet(shape, (1..n) \ {d})
    BY <1>3, <1>4, <2>1 DEF Prefix
  <2>3. ProductOnSet(shape, (1..n) \ {d}) \in Int
    BY <1>1, <2>1, ProductFacts
  <2> QED
    BY <1>9, <2>2, <2>3
<1> QED
  BY <1>2, <1>3, <1>5, <1>8, <1>9 DEF PrefixRule

\* The positions of an array's indices are below its volume.
LEMMA PositionRange ==
  ASSUME NEW n \in Nat, NEW shape \in [1..n -> Nat], Len(shape) = n, NEW i \in Indices(shape, n)
  PROVE  Position(i, shape, "C") \in 0..(Volume(shape) - 1)
<1>1. PrefixRule(shape, n)
  BY PrefixFacts
<1>2. /\ i \in Vectors(n) /\ shape \in Vectors(n)
      /\ \A d \in 1..n : shape[d] \in Nat /\ i[d] \in Int /\ 0 <= i[d] /\ i[d] < shape[d]
  BY DEF Indices, Vectors
<1>3. PICK c : Reading(c, i, shape, n)
  BY <1>2, ReadingExists
<1> DEFINE S == {d \in 0..n : 0 <= c[d] /\ c[d] < Prefix(shape, d)}
<1>4. 0 \in S
  BY <1>3, <1>1 DEF PrefixRule, Reading
<1>5. ASSUME NEW d \in 1..n, d - 1 \in S PROVE d \in S
  <2> DEFINE s == shape[d]
             p == Prefix(shape, d - 1)
             q == c[d - 1]
             x == i[d]
  <2>1. s \in Nat /\ p \in Nat /\ q \in Int /\ x \in Int /\ 0 <= q /\ q < p /\ 0 <= x /\ x < s
    BY <1>2, <1>3, <1>5, <1>1 DEF PrefixRule, Reading
  <2>2. c[d] = q * s + x /\ Prefix(shape, d) = s * p
    BY <1>3, <1>1 DEF PrefixRule, Reading
  <2> HIDE DEF s, p, q, x
  <2>3. 0 <= q * s /\ (q + 1) * s <= p * s /\ (q + 1) * s = q * s + s
    BY <2>1
  <2>4. q * s \in Int /\ p * s \in Int /\ s * p = p * s
    BY <2>1
  <2> DEFINE z == q * s
             w == p * s
  <2>5. z \in Int /\ w \in Int /\ 0 <= z /\ z + s <= w /\ c[d] = z + x /\ Prefix(shape, d) = w
    BY <2>2, <2>3, <2>4
  <2>6. 0 <= c[d] /\ c[d] < Prefix(shape, d)
    <3> HIDE DEF z, w
    <3> QED
      BY <2>1, <2>5
  <2> QED
    BY <2>6
<1>6. n \in S
  <2> HIDE DEF S
  <2>1. \A d \in 0..n : d \in S
    BY <1>4, <1>5, IntervalInduction
  <2> QED
    BY <2>1
<1>7. Position(i, shape, "C") = c[n] /\ c[n] \in Int
  <2>1. Position(i, shape, "C") = c[n]
    BY <1>2, <1>3, CPosition
  <2>2. c[n] \in Int
    BY <1>3 DEF Reading
  <2> QED
    BY <2>1, <2>2
<1>8. Volume(shape) = Prefix(shape, n) /\ Volume(shape) \in Nat
  BY <1>1 DEF PrefixRule
<1> QED
  BY <1>6, <1>7, <1>8

\* Every position below the volume is the position of an index.
LEMMA PositionCovers ==
  ASSUME NEW n \in Nat, NEW shape \in [1..n -> Nat], Len(shape) = n,
         NEW p \in 0..(Volume(shape) - 1)
  PROVE  \E i \in Indices(shape, n) : Position(i, shape, "C") = p
<1>1. PrefixRule(shape, n)
  BY PrefixFacts
<1>2. \A d \in 1..n : shape[d] \in Nat \ {0}
  BY <1>1 DEF PrefixRule
<1> DEFINE G == [x \in (1..n) \X Int |-> x[2] \div shape[n + 1 - x[1]]]
<1>3. G \in [(1..n) \X Int -> Int] /\ p \in Int
  <2>1. ASSUME NEW k \in 1..n, NEW v \in Int PROVE v \div shape[n + 1 - k] \in Int
    <3>1. n + 1 - k \in 1..n
      OBVIOUS
    <3> QED
      BY <1>2, <3>1, DivIsChunk
  <2> QED
    BY <2>1
<1>4. PICK r : IsRecursion(r, n, Int, p, G)
  <2> HIDE DEF G
  <2> QED
    BY <1>3, Recursion, Zenon
<1> DEFINE q == [d \in 0..n |-> r[n - d]]
           i == [d \in 1..n |-> q[d] - (q[d] \div shape[d]) * shape[d]]
<1>5. q \in [0..n -> Int] /\ q[n] = p
  <2>1. ASSUME NEW d \in 0..n PROVE r[n - d] \in Int
    BY <1>4 DEF IsRecursion
  <2>2. n - n = 0 /\ r[0] = p
    BY <1>4 DEF IsRecursion
  <2> QED
    BY <2>1, <2>2
<1>6. ASSUME NEW d \in 1..n PROVE q[d - 1] = q[d] \div shape[d]
  <2> DEFINE k == n - (d - 1)
  <2>1. k \in 1..n /\ k - 1 = n - d /\ k - 1 \in 0..n /\ n + 1 - k = d /\ d \in 0..n /\ d - 1 \in 0..n
    OBVIOUS
  <2>2. q[d] = r[k - 1] /\ q[d - 1] = r[k]
    BY <2>1
  <2>3. r[k - 1] \in Int /\ r[k] = G[<<k, r[k - 1]>>]
    BY <1>4, <2>1 DEF IsRecursion
  <2>4. G[<<k, r[k - 1]>>] = r[k - 1] \div shape[d]
    BY <2>1, <2>3
  <2> QED
    BY <2>2, <2>3, <2>4
<1> HIDE DEF q
<1>7. ASSUME NEW d \in 1..n
      PROVE  i[d] \in Int /\ 0 <= i[d] /\ i[d] < shape[d] /\ q[d] = q[d - 1] * shape[d] + i[d]
  <2> DEFINE v == q[d]
             m == shape[d]
             u == v \div m
  <2>1. v \in Int /\ m \in Nat \ {0} /\ i[d] = v - u * m /\ q[d - 1] = u
    BY <1>2, <1>5, <1>6
  <2>2. u \in Int /\ u * m <= v /\ v < (u + 1) * m
    <3> HIDE DEF v, m
    <3> QED
      BY <2>1, DivIsChunk
  <2> HIDE DEF i, v, m, u
  <2>3. u * m \in Int /\ (u + 1) * m = u * m + m
    BY <2>1, <2>2
  <2>4. i[d] \in Int /\ 0 <= i[d] /\ i[d] < m /\ v = u * m + i[d]
    BY <2>1, <2>2, <2>3
  <2> QED
    BY <2>1, <2>4 DEF v, m
<1>8. i \in Vectors(n)
  BY <1>7 DEF Vectors
<1> HIDE DEF i
<1>9. i \in Indices(shape, n)
  BY <1>7, <1>8 DEF Indices
<1> DEFINE S == {k \in 0..n : 0 <= q[n - k] /\ q[n - k] < Prefix(shape, n - k)}
<1>10. 0 \in S
  <2>1. n - 0 = n /\ Volume(shape) = Prefix(shape, n) /\ Volume(shape) \in Int
    BY <1>1 DEF PrefixRule
  <2> QED
    BY <1>5, <2>1
<1>11. ASSUME NEW k \in 1..n, k - 1 \in S PROVE k \in S
  <2> DEFINE d == n - (k - 1)
             s == shape[d]
             v == q[d]
             u == q[d - 1]
             w == Prefix(shape, d - 1)
  <2>1. d \in 1..n /\ d - 1 = n - k
    OBVIOUS
  <2>2. /\ s \in Nat \ {0} /\ v \in Int /\ u \in Int /\ w \in Nat
        /\ 0 <= v /\ v < Prefix(shape, d) /\ Prefix(shape, d) = s * w
        /\ u = v \div s
    <3> HIDE DEF d
    <3>1. w \in Nat /\ Prefix(shape, d) = s * w
      BY <2>1, <1>1 DEF PrefixRule
    <3>2. 0 <= v /\ v < Prefix(shape, d)
      BY <1>11 DEF d
    <3>3. u = v \div s /\ s \in Nat \ {0} /\ v \in Int /\ u \in Int
      BY <1>2, <1>5, <1>6, <2>1
    <3> QED
      BY <3>1, <3>2, <3>3
  <2>3. 0 <= u /\ u < w
    <3> HIDE DEF d, s, v, u, w
    <3>1. u * s <= v /\ v < (u + 1) * s
      BY <2>2, DivIsChunk
    <3>2. 0 <= u
      BY <2>2
    <3>3. u * s < s * w
      BY <2>2, <3>1
    <3>4. u < w
      BY <2>2, <3>3
    <3> QED
      BY <3>2, <3>4
  <2> QED
    BY <2>1, <2>3
<1>12. q[0] = 0
  <2>1. \A k \in 0..n : k \in S
    <3> HIDE DEF S
    <3> QED
      BY <1>10, <1>11, IntervalInduction
  <2>2. n \in S /\ n - n = 0
    BY <2>1
  <2>3. Prefix(shape, 0) = 1 /\ q[0] \in Int
    BY <1>1, <1>5 DEF PrefixRule
  <2>4. 0 <= q[0] /\ q[0] < Prefix(shape, 0)
    BY <2>2
  <2> QED
    BY <2>3, <2>4
<1>13. Reading(q, i, shape, n)
  BY <1>5, <1>7, <1>12 DEF Reading
<1>14. Position(i, shape, "C") = p
  <2>1. shape \in Vectors(n)
    BY DEF Vectors
  <2> QED
    BY <1>5, <1>8, <1>13, <2>1, CPosition
<1> QED
  BY <1>9, <1>14

\* A box shifted to the origin.
LEMMA BoxShifts ==
  ASSUME NEW n \in Nat, NEW lo \in Vectors(n), NEW hi \in Vectors(n), NEW i \in Vectors(n)
  PROVE  i \in Box(lo, hi) <=> Minus(i, lo) \in Indices(Minus(hi, lo), n)
<1>1. /\ Minus(i, lo) \in Vectors(n)
      /\ \A d \in 1..n : Minus(i, lo)[d] = i[d] - lo[d] /\ Minus(hi, lo)[d] = hi[d] - lo[d]
  BY DEF Vectors, Minus
<1>2. \A d \in 1..n : i[d] \in Int /\ lo[d] \in Int /\ hi[d] \in Int
  BY DEF Vectors
<1>3. i \in Box(lo, hi) <=> \A d \in 1..n : lo[d] <= i[d] /\ i[d] < hi[d]
  BY BoxMembers
<1>4. Minus(i, lo) \in Indices(Minus(hi, lo), n)
        <=> \A d \in 1..n : 0 <= i[d] - lo[d] /\ i[d] - lo[d] < hi[d] - lo[d]
  BY <1>1 DEF Indices
<1> QED
  BY <1>2, <1>3, <1>4

\* A box has as many indices as its volume, and each has a position of its own.
LEMMA BoxCount ==
  ASSUME NEW n \in Nat, NEW lo \in Vectors(n), NEW hi \in Vectors(n),
         Minus(hi, lo) \in [1..n -> Nat], Len(Minus(hi, lo)) = n
  PROVE  Cardinality(Box(lo, hi)) = Volume(Minus(hi, lo))
<1> DEFINE shape == Minus(hi, lo)
           B == Box(lo, hi)
           N == 0..(Volume(shape) - 1)
           f == [i \in B |-> Position(Minus(i, lo), shape, "C")]
<1>1. shape \in [1..n -> Nat] /\ shape \in Vectors(n) /\ Len(shape) = n /\ Volume(shape) \in Nat
  <2>1. Volume(shape) \in Nat
    BY PrefixFacts DEF PrefixRule
  <2> QED
    BY <2>1 DEF Vectors
<1>2. \A i \in Vectors(n) : i \in B <=> Minus(i, lo) \in Indices(shape, n)
  BY BoxShifts
<1>3. B \subseteq Vectors(n)
  BY BoxMembers
<1> HIDE DEF shape, B
<1>4. f \in [B -> N]
  BY <1>1, <1>2, <1>3, PositionRange
<1>5. ASSUME NEW i \in B, NEW j \in B, f[i] = f[j] PROVE i = j
  <2>1. Minus(i, lo) \in Indices(shape, n) /\ Minus(j, lo) \in Indices(shape, n)
    BY <1>2, <1>3
  <2>2. Minus(i, lo) = Minus(j, lo)
    BY <1>1, <1>5, <2>1, PositionInjectiveC
  <2>3. Plus(lo, Minus(i, lo)) = i /\ Plus(lo, Minus(j, lo)) = j
    BY <1>3, ShiftBack
  <2> QED
    BY <2>2, <2>3
<1>6. ASSUME NEW p \in N PROVE \E i \in B : f[i] = p
  <2>1. PICK x \in Indices(shape, n) : Position(x, shape, "C") = p
    BY <1>1, PositionCovers
  <2>2. x \in Vectors(n)
    BY DEF Indices
  <2>3. Plus(lo, x) \in Vectors(n) /\ Minus(Plus(lo, x), lo) = x
    BY <2>2, ShiftForth
  <2>4. Plus(lo, x) \in B
    BY <1>2, <2>3
  <2> QED
    BY <2>1, <2>3, <2>4
<1>7. f \in Bijection(B, N)
  <2> HIDE DEF f, N
  <2> QED
    BY <1>4, <1>5, <1>6, Zenon DEF Bijection, Injection, Surjection, IsInjective
<1>8. IsFiniteSet(N) /\ Cardinality(N) = Volume(shape)
  <2>1. 0 \in Int /\ Volume(shape) - 1 \in Int
    BY <1>1
  <2> QED
    BY <1>1, <2>1, FS_Interval
<1>9. Cardinality(B) = Cardinality(N)
  <2>1. ExistsBijection(N, B)
    <3>1. ExistsBijection(B, N)
      BY <1>7, Zenon DEF ExistsBijection
    <3> HIDE DEF N
    <3> QED
      BY <3>1, Fun_ExistsBijSymmetric
  <2> HIDE DEF N
  <2> QED
    BY <1>8, <2>1, FS_Bijection
<1> QED
  BY <1>8, <1>9 DEF B, shape


------------------------------------------------------------------------------
(* The vectors of a read *)

Rank(rd) == Len(rd.shape)

LEMMA ReadVectors ==
  ASSUME NEW rd, IsRead(rd)
  PROVE  /\ Rank(rd) \in Nat /\ DOMAIN rd.shape = 1..Rank(rd)
         /\ rd.shape \in Vectors(Rank(rd))
         /\ rd.chunks \in Vectors(Rank(rd)) /\ Len(rd.chunks) = Rank(rd)
         /\ Start(rd) \in Vectors(Rank(rd)) /\ Stop(rd) \in Vectors(Rank(rd))
         /\ OutputShape(rd) \in [1..Rank(rd) -> Nat] /\ OutputShape(rd) \in Vectors(Rank(rd))
         /\ Len(OutputShape(rd)) = Rank(rd)
<1> DEFINE n == Rank(rd)
<1>1. n \in Nat /\ DOMAIN rd.shape = 1..n /\ rd.shape \in Vectors(n)
  BY DEF IsRead, Rank, Vectors
<1> HIDE DEF n
<1>2. rd.chunks \in Vectors(n) /\ Len(rd.chunks) = n
  BY <1>1 DEF IsRead, Vectors
<1>3. DOMAIN Start(rd) = 1..n /\ DOMAIN Stop(rd) = 1..n /\ DOMAIN OutputShape(rd) = 1..n
  BY <1>1 DEF Start, Stop, OutputShape, Minus
<1>4. ASSUME NEW d \in 1..n
      PROVE  /\ Start(rd)[d] \in Int /\ Stop(rd)[d] \in Int
             /\ OutputShape(rd)[d] = Stop(rd)[d] - Start(rd)[d]
             /\ OutputShape(rd)[d] \in Nat
  <2>1. Start(rd)[d] \in Nat /\ Stop(rd)[d] \in Nat /\ Start(rd)[d] <= Stop(rd)[d]
    BY <1>1, RangeTypes
  <2>2. OutputShape(rd)[d] = Stop(rd)[d] - Start(rd)[d]
    BY <1>3 DEF OutputShape, Minus
  <2> QED
    BY <2>1, <2>2
<1>5. /\ Start(rd) = [d \in 1..n |-> Start(rd)[d]] /\ Stop(rd) = [d \in 1..n |-> Stop(rd)[d]]
      /\ OutputShape(rd) = [d \in 1..n |-> OutputShape(rd)[d]]
  BY <1>1 DEF Start, Stop, OutputShape, Minus
<1>6. Start(rd) \in Vectors(n) /\ Stop(rd) \in Vectors(n)
  BY <1>4, <1>5 DEF Vectors
<1>7. OutputShape(rd) \in [1..n -> Nat] /\ OutputShape(rd) \in Vectors(n)
  BY <1>4, <1>5 DEF Vectors
<1>8. Len(OutputShape(rd)) = n
  BY <1>1, <1>7
<1> QED
  BY <1>1, <1>2, <1>6, <1>7, <1>8 DEF n

\* The task of a chunk has an index in every dimension.
LEMMA ChunkIsVector ==
  ASSUME NEW rd, IsRead(rd), NEW c \in Tasks(rd), IsChunk(c)
  PROVE  c \in [1..Rank(rd) -> Nat]
<1> DEFINE D == DOMAIN rd.shape
<1>1. c \in AllChunkCoords(Ranges(rd)) /\ DOMAIN Ranges(rd) = D
  BY DEF Tasks, Ranges, ComputeChunkRanges, ComputeSliceChunkRanges
<1>2. DOMAIN c = D /\ c = [d \in D |-> c[d]]
  BY <1>1 DEF AllChunkCoords
<1>3. ASSUME NEW d \in D PROVE c[d] \in Nat
  <2>1. c[d] \in Ranges(rd)[d]
    BY <1>1, <1>2 DEF AllChunkCoords, IsChunk
  <2>2. CASE rd.full
    <3>1. Ranges(rd)[d] = 0..((rd.shape[d] + rd.chunks[d] - 1) \div rd.chunks[d] - 1)
      BY <2>2 DEF Ranges, ComputeChunkRanges
    <3> DEFINE last == rd.shape[d] + rd.chunks[d] - 1
    <3>2. last \in Int /\ rd.chunks[d] \in Nat \ {0}
      BY RangeTypes
    <3>3. last \div rd.chunks[d] \in Int
      <4> HIDE DEF last
      <4> QED
        BY <3>2, DivIsChunk
    <3> QED
      BY <2>1, <3>1, <3>3
  <2>3. CASE ~rd.full
    <3>1. Ranges(rd)[d] = (Start(rd)[d] \div rd.chunks[d])..((Stop(rd)[d] - 1) \div rd.chunks[d])
      BY <2>3 DEF Ranges, ComputeSliceChunkRanges
    <3>2. Start(rd)[d] \div rd.chunks[d] \in Nat /\ (Stop(rd)[d] - 1) \div rd.chunks[d] \in Int
      <4> DEFINE a == Start(rd)[d]
                 k == rd.chunks[d]
                 q == a \div k
      <4>1. a \in Nat /\ k \in Nat \ {0} /\ Stop(rd)[d] - 1 \in Int
        BY RangeTypes
      <4>2. q \in Int /\ a < (q + 1) * k
        <5> HIDE DEF a, k
        <5> QED
          BY <4>1, DivIsChunk
      <4>3. q >= 0
        <5> HIDE DEF a, k, q
        <5> QED
          BY <4>1, <4>2
      <4>4. (Stop(rd)[d] - 1) \div k \in Int
        <5> HIDE DEF k
        <5> QED
          BY <4>1, DivIsChunk
      <4> QED
        BY <4>2, <4>3, <4>4
    <3> QED
      BY <2>1, <3>1, <3>2
  <2> QED
    BY <2>2, <2>3
<1>4. c \in [D -> Nat]
  BY <1>2, <1>3
<1> QED
  BY <1>4, ReadVectors

LEMMA ZeroBox ==
  ASSUME NEW n \in Nat, NEW z \in Vectors(n), NEW k \in Vectors(n), \A d \in 1..n : z[d] = 0
  PROVE  Box(z, k) = Indices(k, n)
<1>1. Box(z, k) = {i \in Vectors(n) : \A d \in 1..n : z[d] <= i[d] /\ i[d] < k[d]}
  BY BoxMembers
<1> QED
  BY <1>1 DEF Indices

------------------------------------------------------------------------------
(* What a copy has to do *)

InChunk(rd, c, i) == Position(Minus(i, ChunkStart(rd, c)), rd.chunks, rd.order)
InOutput(rd, i) == Position(Minus(i, Start(rd)), OutputShape(rd), "C")
Meant(rd, c) == {<<InChunk(rd, c, i), InOutput(rd, i)>> : i \in Part(rd, c)}

LEMMA SelectedVectors ==
  ASSUME NEW rd, IsRead(rd), NEW i \in Selected(rd)
  PROVE  i \in Vectors(Rank(rd)) /\ Minus(i, Start(rd)) \in Indices(OutputShape(rd), Rank(rd))
<1>1. i \in Vectors(Rank(rd))
  BY ReadVectors, BoxMembers DEF Selected
<1> QED
  BY <1>1, ReadVectors, BoxShifts DEF Selected, OutputShape

\* A selected index of a chunk lies in the chunk.
LEMMA InChunkIndex ==
  ASSUME NEW rd, IsRead(rd), NEW c \in Vectors(Rank(rd)), NEW i \in Part(rd, c)
  PROVE  /\ ChunkStart(rd, c) \in Vectors(Rank(rd))
         /\ Minus(i, ChunkStart(rd, c)) \in Indices(rd.chunks, Rank(rd))
<1> DEFINE n == Rank(rd)
           s == ChunkStart(rd, c)
<1>1. i \in Vectors(n) /\ ChunkOf(rd, i) = c /\ n \in Nat /\ DOMAIN rd.shape = 1..n
  BY SelectedVectors, ReadVectors DEF Part
<1>2. s \in Vectors(n) /\ \A d \in 1..n : s[d] = c[d] * rd.chunks[d]
  BY ReadVectors DEF ChunkStart, Times, Vectors
<1>3. ASSUME NEW d \in 1..n
      PROVE  0 <= i[d] - s[d] /\ i[d] - s[d] < rd.chunks[d]
  <2> DEFINE x == i[d]
             k == rd.chunks[d]
             q == c[d]
  <2>1. x \in Int /\ k \in Nat \ {0} /\ q = x \div k /\ s[d] = q * k
    BY <1>1, <1>2, RangeTypes DEF ChunkOf, Vectors
  <2>2. q \in Int /\ q * k <= x /\ x < (q + 1) * k
    <3> HIDE DEF x, k, q
    <3> QED
      BY <2>1, DivIsChunk
  <2> HIDE DEF x, k, q
  <2>3. (q + 1) * k = q * k + k /\ q * k \in Int
    BY <2>1, <2>2
  <2>4. 0 <= x - s[d] /\ x - s[d] < k
    BY <2>1, <2>2, <2>3
  <2> QED
    BY <2>4 DEF x, k
<1> HIDE DEF s
<1>4. Minus(i, s) \in Vectors(n) /\ \A d \in 1..n : Minus(i, s)[d] = i[d] - s[d]
  BY <1>1, <1>2 DEF Minus, Vectors
<1>5. Minus(i, s) \in Indices(rd.chunks, n)
  BY <1>3, <1>4 DEF Indices
<1> QED
  BY <1>2, <1>5 DEF s, n

\* Different elements have different cells.
LEMMA InOutputInjective ==
  ASSUME NEW rd, IsRead(rd), NEW i \in Selected(rd), NEW j \in Selected(rd),
         InOutput(rd, i) = InOutput(rd, j)
  PROVE  i = j
<1> DEFINE n == Rank(rd)
           a == Minus(i, Start(rd))
           b == Minus(j, Start(rd))
<1>1. a \in Indices(OutputShape(rd), n) /\ b \in Indices(OutputShape(rd), n)
  BY SelectedVectors
<1>2. a = b
  <2> HIDE DEF a, b
  <2> QED
    BY <1>1, ReadVectors, PositionInjectiveC DEF InOutput, a, b
<1>3. Plus(Start(rd), a) = i /\ Plus(Start(rd), b) = j
  BY SelectedVectors, ReadVectors, ShiftBack
<1> QED
  BY <1>2, <1>3

\* What the chunk stores where a selected element is read.
LEMMA StoredIsElement ==
  ASSUME NEW rd, IsRead(rd), NEW c \in Vectors(Rank(rd)), NEW i \in Part(rd, c)
  PROVE  StoredElement(rd, c, InChunk(rd, c, i)) = i
<1> DEFINE n == Rank(rd)
           x == Minus(i, ChunkStart(rd, c))
           p == InChunk(rd, c, i)
           y == CHOOSE z \in Box(Zero(c), rd.chunks) : Position(z, rd.chunks, rd.order) = p
<1>1. /\ x \in Indices(rd.chunks, n) /\ ChunkStart(rd, c) \in Vectors(n)
      /\ i \in Vectors(n) /\ i \in Selected(rd) /\ n \in Nat /\ DOMAIN rd.shape = 1..n
      /\ rd.chunks \in Vectors(n) /\ Len(rd.chunks) = n
  BY InChunkIndex, SelectedVectors, ReadVectors DEF Part
<1>2. Box(Zero(c), rd.chunks) = Indices(rd.chunks, n)
  <2> DEFINE z == Zero(c)
             k == rd.chunks
  <2>1. z \in Vectors(n) /\ (\A d \in 1..n : z[d] = 0) /\ k \in Vectors(n)
    BY <1>1 DEF Zero, Vectors
  <2> HIDE DEF n, z, k
  <2>2. Box(z, k) = Indices(k, n)
    BY <1>1, <2>1, ZeroBox
  <2> QED
    BY <2>2 DEF z, k
<1>3. p = Position(x, rd.chunks, rd.order)
  BY DEF InChunk
<1>4. y \in Indices(rd.chunks, n) /\ Position(y, rd.chunks, rd.order) = p
  <2> HIDE DEF x, p, n
  <2> QED
    BY <1>1, <1>2, <1>3
<1>5. y = x
  <2> HIDE DEF x, y, p, n
  <2>1. CASE rd.order = "C"
    BY <1>1, <1>3, <1>4, <2>1, PositionInjectiveC
  <2>2. CASE rd.order = "F"
    BY <1>1, <1>3, <1>4, <2>2, PositionInjectiveF
  <2> QED
    BY <2>1, <2>2 DEF IsRead
<1>6. Plus(ChunkStart(rd, c), x) = i
  BY <1>1, ShiftBack
<1>7. \A d \in DOMAIN c : i[d] < rd.shape[d]
  <2>1. DOMAIN c = 1..n
    BY DEF Vectors
  <2>2. ASSUME NEW d \in 1..n PROVE i[d] < rd.shape[d]
    <3>1. i[d] \in Int /\ i[d] < Stop(rd)[d] /\ Stop(rd)[d] <= rd.shape[d] /\ Stop(rd)[d] \in Nat /\ rd.shape[d] \in Nat
      BY <1>1, SelectedRange, RangeTypes
    <3> QED
      BY <3>1
  <2> QED
    BY <2>1, <2>2
<1> HIDE DEF x, y
<1>8. StoredElement(rd, c, p) = IF \A d \in DOMAIN c : Plus(ChunkStart(rd, c), y)[d] < rd.shape[d]
                                THEN Plus(ChunkStart(rd, c), y) ELSE Pad
  BY DEF StoredElement, y
<1> QED
  BY <1>5, <1>6, <1>7, <1>8


LEMMA LinearIsPosition ==
  ASSUME NEW rd, IsRead(rd), NEW x \in Vectors(Rank(rd))
  PROVE  /\ Linear(x, ChunkStrides(rd)) = Position(x, rd.chunks, rd.order)
         /\ Linear(x, OutputStrides(rd)) = Position(x, OutputShape(rd), "C")
<1>1. CASE rd.order = "F"
  BY <1>1, ReadVectors, LinearC, LinearF DEF ChunkStrides, OutputStrides
<1>2. CASE rd.order = "C"
  BY <1>2, ReadVectors, LinearC DEF ChunkStrides, OutputStrides
<1> QED
  BY <1>1, <1>2 DEF IsRead

------------------------------------------------------------------------------
(* The copy paths *)

\* copySliceChunkToOutput()
LEMMA SliceCopiesMeant ==
  ASSUME NEW rd, IsRead(rd), NEW c \in Vectors(Rank(rd))
  PROVE  SliceCopies(rd, c) = Meant(rd, c)
<1> DEFINE n == Rank(rd)
<1>1. Box(Lo(rd, c), Hi(rd, c)) = Part(rd, c)
  BY ReadVectors, PartIsBox DEF Vectors
<1>2. ASSUME NEW i \in Part(rd, c)
      PROVE  /\ Linear(Minus(i, ChunkStart(rd, c)), ChunkStrides(rd)) = InChunk(rd, c, i)
             /\ Linear(Minus(i, Start(rd)), OutputStrides(rd)) = InOutput(rd, i)
  <2>1. Minus(i, ChunkStart(rd, c)) \in Vectors(n) /\ Minus(i, Start(rd)) \in Vectors(n)
    BY InChunkIndex, SelectedVectors DEF Part, Indices
  <2> QED
    BY <2>1, LinearIsPosition DEF InChunk, InOutput
<1> QED
  BY <1>1, <1>2 DEF SliceCopies, Meant

\* copyChunkToOutput(): the indices of the chunk within the bounds of the array,
\* moved to the chunk, are the chunk's part.
LEMMA FullPart ==
  ASSUME NEW rd, IsRead(rd), rd.full, NEW c \in [1..Rank(rd) -> Nat], NEW i \in Vectors(Rank(rd))
  PROVE  i \in Part(rd, c)
           <=> Minus(i, ChunkStart(rd, c))
                 \in Indices([d \in DOMAIN c |-> Smaller(rd.chunks[d], rd.shape[d] - c[d] * rd.chunks[d])],
                             Rank(rd))
<1> DEFINE n == Rank(rd)
           s == ChunkStart(rd, c)
           actual == [d \in DOMAIN c |-> Smaller(rd.chunks[d], rd.shape[d] - c[d] * rd.chunks[d])]
<1>1. /\ n \in Nat /\ DOMAIN rd.shape = 1..n /\ DOMAIN c = 1..n /\ c \in Vectors(n)
      /\ Start(rd) \in Vectors(n) /\ Stop(rd) \in Vectors(n)
  BY ReadVectors DEF Vectors
<1>2. \A d \in 1..n : Start(rd)[d] = 0 /\ Stop(rd)[d] = rd.shape[d]
  BY <1>1 DEF Start, Stop
<1>3. i \in Selected(rd) <=> \A d \in 1..n : Start(rd)[d] <= i[d] /\ i[d] < Stop(rd)[d]
  BY <1>1, BoxMember DEF Selected
<1>4. ChunkOf(rd, i) = c <=> \A d \in 1..n : i[d] \div rd.chunks[d] = c[d]
  BY <1>1 DEF ChunkOf, Vectors
<1>5. Minus(i, s) \in Vectors(n) /\ \A d \in 1..n : Minus(i, s)[d] = i[d] - c[d] * rd.chunks[d]
  <2>1. s \in Vectors(n) /\ \A d \in 1..n : s[d] = c[d] * rd.chunks[d]
    BY <1>1, ReadVectors DEF ChunkStart, Times, Vectors
  <2> HIDE DEF s
  <2> QED
    BY <1>1, <2>1 DEF Minus, Vectors
<1>6. ASSUME NEW d \in 1..n
      PROVE  /\ i[d] \in Int
             /\ (0 <= i[d] /\ i[d] < rd.shape[d] /\ i[d] \div rd.chunks[d] = c[d])
                  <=> (0 <= i[d] - c[d] * rd.chunks[d] /\ i[d] - c[d] * rd.chunks[d] < actual[d])
  <2> DEFINE x == i[d]
             k == rd.chunks[d]
             q == c[d]
             z == q * k
             w == rd.shape[d]
  <2>1. x \in Int /\ k \in Nat \ {0} /\ q \in Nat /\ w \in Nat
    BY <1>1, RangeTypes DEF Vectors
  <2>2. actual[d] = Smaller(k, w - z)
    BY <1>1
  <2> HIDE DEF x, k, q, w, actual
  <2>3. z \in Nat /\ (q + 1) * k = z + k
    BY <2>1
  <2>4. x \div k = q <=> z <= x /\ x < z + k
    BY <2>1, <2>3, DivIsChunk
  <2> HIDE DEF z
  <2>5. (0 <= x /\ x < w /\ x \div k = q) <=> (0 <= x - z /\ x - z < actual[d])
    BY <2>1, <2>2, <2>3, <2>4 DEF Smaller
  <2> QED
    BY <2>1, <2>5 DEF x, k, q, w, z
<1> HIDE DEF s, actual
<1>7. i \in Part(rd, c)
        <=> \A d \in 1..n : 0 <= i[d] /\ i[d] < rd.shape[d] /\ i[d] \div rd.chunks[d] = c[d]
  BY <1>2, <1>3, <1>4 DEF Part
<1>8. Minus(i, s) \in Indices(actual, n)
        <=> \A d \in 1..n : 0 <= i[d] - c[d] * rd.chunks[d] /\ i[d] - c[d] * rd.chunks[d] < actual[d]
  BY <1>5 DEF Indices
<1> QED
  BY <1>6, <1>7, <1>8 DEF s, actual

LEMMA FullCopiesMeant ==
  ASSUME NEW rd, IsRead(rd), rd.full, NEW c \in [1..Rank(rd) -> Nat]
  PROVE  FullCopies(rd, c) = Meant(rd, c)
<1> DEFINE n == Rank(rd)
           s == ChunkStart(rd, c)
           actual == [d \in DOMAIN c |-> Smaller(rd.chunks[d], rd.shape[d] - c[d] * rd.chunks[d])]
           from(i) == Linear(i, ChunkStrides(rd))
           to(i) == Linear(Plus(s, i), OutputStrides(rd))
<1>1. n \in Nat /\ DOMAIN rd.shape = 1..n /\ DOMAIN c = 1..n /\ c \in Vectors(n) /\ s \in Vectors(n)
  BY ReadVectors DEF Vectors, ChunkStart, Times
<1>2. actual \in Vectors(n)
  <2>1. ASSUME NEW d \in 1..n PROVE Smaller(rd.chunks[d], rd.shape[d] - c[d] * rd.chunks[d]) \in Int
    BY <1>1, RangeTypes DEF Smaller, Vectors
  <2> QED
    BY <1>1, <2>1 DEF Vectors
<1>3. Box(Zero(c), actual) = Indices(actual, n)
  <2>1. Zero(c) \in Vectors(n) /\ \A d \in 1..n : Zero(c)[d] = 0
    BY <1>1 DEF Zero, Vectors
  <2> HIDE DEF actual, n
  <2> QED
    BY <1>1, <1>2, <2>1, ZeroBox
<1>4. \A i \in Vectors(n) : i \in Part(rd, c) <=> Minus(i, s) \in Indices(actual, n)
  BY FullPart
<1>5. Start(rd) \in Vectors(n) /\ \A d \in 1..n : Start(rd)[d] = 0
  BY <1>1, ReadVectors DEF Start
<1> HIDE DEF actual, s
<1>6. ASSUME NEW i \in Vectors(n)
      PROVE  from(Minus(i, s)) = InChunk(rd, c, i) /\ to(Minus(i, s)) = InOutput(rd, i)
  <2>0. Minus(i, s) \in Vectors(n)
    BY <1>1 DEF Minus, Vectors
  <2>1. Minus(i, s) \in Vectors(n) /\ Plus(s, Minus(i, s)) = i
    BY <1>1, <2>0, ShiftBack
  <2>2. Minus(i, Start(rd)) = i
    BY <1>5 DEF Minus, Vectors
  <2>3. from(Minus(i, s)) = InChunk(rd, c, i)
    BY <2>1, LinearIsPosition DEF InChunk, s
  <2>4. to(Minus(i, s)) = Linear(i, OutputStrides(rd))
    BY <2>1
  <2> QED
    BY <2>2, <2>3, <2>4, LinearIsPosition DEF InOutput
<1>7. FullCopies(rd, c) = {<<from(i), to(i)>> : i \in Indices(actual, n)}
  BY <1>3 DEF FullCopies, actual, s
<1> HIDE DEF from, to
<1>8. ASSUME NEW x \in Indices(actual, n) PROVE <<from(x), to(x)>> \in Meant(rd, c)
  <2> DEFINE i == Plus(s, x)
  <2>1. x \in Vectors(n)
    BY DEF Indices
  <2>2. i \in Vectors(n) /\ Minus(i, s) = x
    BY <1>1, <2>1, ShiftForth
  <2>3. i \in Part(rd, c)
    BY <1>4, <2>2
  <2> HIDE DEF i
  <2>4. from(x) = InChunk(rd, c, i) /\ to(x) = InOutput(rd, i)
    BY <1>6, <2>2
  <2> QED
    BY <2>3, <2>4 DEF Meant
<1>9. ASSUME NEW i \in Part(rd, c)
      PROVE  \E x \in Indices(actual, n) : <<InChunk(rd, c, i), InOutput(rd, i)>> = <<from(x), to(x)>>
  <2>1. i \in Vectors(n)
    BY SelectedVectors DEF Part
  <2> QED
    BY <1>4, <1>6, <2>1
<1> QED
  BY <1>7, <1>8, <1>9 DEF Meant

\* Two shapes that differ in the first dimension only have the same strides.
LEMMA SameCStrides ==
  ASSUME NEW n \in Nat, NEW a \in Vectors(n), NEW b \in Vectors(n), Len(a) = n, Len(b) = n,
         \A d \in 1..n : d > 1 => a[d] = b[d]
  PROVE  CStrides(a) = CStrides(b)
<1> DEFINE s == CStrides(a)
           t == CStrides(b)
<1>1. IsCStrides(s, a, n) /\ IsCStrides(t, b, n)
  BY CStridesFacts
<1> HIDE DEF s, t
<1>2. CRule(t, a, n)
  BY <1>1 DEF IsCStrides, CRule
<1>3. \A d \in 1..n : t[d] = s[d]
  BY <1>1, <1>2, CStridesUnique
<1>4. s = t
  BY <1>1, <1>3 DEF IsCStrides, Vectors
<1> QED
  BY <1>4 DEF s, t

\* copyPartialToOutput(): a byte range that spans all dimensions but the first
\* has the elements of the chunk's part in the places of the whole chunk.
LEMMA PartialCopiesMeant ==
  ASSUME NEW rd, IsRead(rd), NEW c \in Vectors(Rank(rd)), HasByteRange(rd, c)
  PROVE  PartialCopies(rd, c) = Meant(rd, c)
<1> DEFINE n == Rank(rd)
           s == ChunkStart(rd, c)
           lo == Lo(rd, c)
           hi == Hi(rd, c)
           overlap == Minus(hi, lo)
           from(x) == ByteRangeOffset(rd, c) + Linear(x, CStrides(overlap))
           to(x) == Linear(Plus(Minus(lo, Start(rd)), x), OutputStrides(rd))
<1>1. /\ n \in Nat /\ DOMAIN rd.shape = 1..n /\ DOMAIN c = 1..n /\ Start(rd) \in Vectors(n)
      /\ rd.chunks \in Vectors(n) /\ Len(rd.chunks) = n
  BY ReadVectors DEF Vectors
<1>2. s \in Vectors(n) /\ lo \in Vectors(n) /\ hi \in Vectors(n)
  <2>1. ASSUME NEW d \in 1..n
        PROVE  c[d] * rd.chunks[d] \in Int /\ lo[d] \in Int /\ hi[d] \in Int
    <3>1. /\ c[d] \in Int /\ rd.chunks[d] \in Int /\ rd.shape[d] \in Int
          /\ Start(rd)[d] \in Int /\ Stop(rd)[d] \in Int
      BY <1>1, RangeTypes DEF Vectors
    <3>2. c[d] * rd.chunks[d] \in Int /\ (c[d] + 1) * rd.chunks[d] \in Int
      BY <3>1
    <3> QED
      BY <1>1, <3>1, <3>2 DEF Lo, Hi, Larger, Smaller
  <2>2. s = [d \in 1..n |-> c[d] * rd.chunks[d]]
    BY <1>1 DEF ChunkStart, Times
  <2>3. lo = [d \in 1..n |-> lo[d]] /\ hi = [d \in 1..n |-> hi[d]]
    BY <1>1 DEF Lo, Hi
  <2> HIDE DEF s, lo, hi
  <2> QED
    BY <2>1, <2>2, <2>3 DEF Vectors
<1>3. Box(lo, hi) = Part(rd, c)
  BY <1>1, PartIsBox DEF Vectors
<1>4. rd.order = "C" /\ \A d \in 1..n : d > 1 => hi[d] - lo[d] = rd.chunks[d]
  BY <1>1 DEF HasByteRange
<1>5. ByteRangeOffset(rd, c) = Linear(Minus(lo, s), CStrides(rd.chunks))
  BY DEF ByteRangeOffset
<1>6. PartialCopies(rd, c) = {<<from(x), to(x)>> : x \in Box(Zero(c), overlap)}
  BY DEF PartialCopies
<1> HIDE DEF s, lo, hi
<1>7. overlap \in Vectors(n) /\ Len(overlap) = n /\ \A d \in 1..n : overlap[d] = hi[d] - lo[d]
  BY <1>1, <1>2 DEF Minus, Vectors
<1> HIDE DEF overlap
<1>8. CStrides(overlap) = CStrides(rd.chunks)
  BY <1>1, <1>4, <1>7, SameCStrides
<1>9. Box(Zero(c), overlap) = Indices(overlap, n)
  <2>1. Zero(c) \in Vectors(n) /\ \A d \in 1..n : Zero(c)[d] = 0
    BY <1>1 DEF Zero, Vectors
  <2> HIDE DEF n
  <2> QED
    BY <1>1, <1>7, <2>1, ZeroBox
<1>10. ASSUME NEW i \in Vectors(n)
       PROVE  /\ Minus(i, lo) \in Vectors(n)
              /\ i \in Part(rd, c) <=> Minus(i, lo) \in Indices(overlap, n)
  <2>1. Minus(i, lo) \in Vectors(n)
    BY <1>2 DEF Minus, Vectors
  <2> QED
    BY <1>1, <1>2, <1>3, <2>1, BoxShifts DEF overlap
<1>11. ASSUME NEW i \in Vectors(n)
       PROVE  from(Minus(i, lo)) = InChunk(rd, c, i) /\ to(Minus(i, lo)) = InOutput(rd, i)
  <2> DEFINE x == Minus(i, lo)
             a == Minus(lo, s)
             b == Minus(lo, Start(rd))
             st == CStrides(rd.chunks)
  <2>1. /\ x \in Vectors(n) /\ a \in Vectors(n) /\ b \in Vectors(n)
        /\ Plus(a, x) = Minus(i, s) /\ Plus(b, x) = Minus(i, Start(rd))
        /\ Minus(i, s) \in Vectors(n) /\ Minus(i, Start(rd)) \in Vectors(n)
    <3>1. Start(rd) \in Vectors(n) /\ s \in Vectors(n) /\ lo \in Vectors(n) /\ i \in Vectors(n)
      BY <1>1, <1>2
    <3> HIDE DEF n, s, lo
    <3>2. /\ x \in Vectors(n) /\ a \in Vectors(n) /\ b \in Vectors(n)
          /\ Minus(i, s) \in Vectors(n) /\ Minus(i, Start(rd)) \in Vectors(n)
      BY <3>1 DEF Minus, Vectors
    <3>3. Plus(a, x) = Minus(i, s)
      BY <3>1 DEF Minus, Plus, Vectors
    <3>4. Plus(b, x) = Minus(i, Start(rd))
      BY <3>1 DEF Minus, Plus, Vectors
    <3> QED
      BY <3>2, <3>3, <3>4
  <2>2. st \in Vectors(n)
    BY <1>1, CStridesFacts DEF IsCStrides
  <2> HIDE DEF x, a, b, st
  <2>3. from(x) = Linear(Minus(i, s), st)
    <3>1. from(x) = Linear(a, st) + Linear(x, st)
      BY <1>5, <1>8 DEF a, st
    <3> QED
      BY <1>1, <2>1, <2>2, <3>1, LinearAdds
  <2>4. Linear(Minus(i, s), st) = InChunk(rd, c, i)
    BY <1>1, <1>4, <2>1, LinearC DEF InChunk, s, st
  <2>5. to(x) = InOutput(rd, i)
    BY <2>1, LinearIsPosition DEF InOutput, b
  <2> QED
    BY <2>3, <2>4, <2>5 DEF x
<1> HIDE DEF from, to
<1>12. ASSUME NEW x \in Indices(overlap, n) PROVE <<from(x), to(x)>> \in Meant(rd, c)
  <2> DEFINE i == Plus(lo, x)
  <2>1. x \in Vectors(n)
    BY DEF Indices
  <2>2. i \in Vectors(n) /\ Minus(i, lo) = x
    BY <1>1, <1>2, <2>1, ShiftForth
  <2>3. i \in Part(rd, c)
    BY <1>10, <2>2
  <2> HIDE DEF i
  <2>4. from(x) = InChunk(rd, c, i) /\ to(x) = InOutput(rd, i)
    BY <1>11, <2>2
  <2> QED
    BY <2>3, <2>4 DEF Meant
<1>13. ASSUME NEW i \in Part(rd, c)
       PROVE  \E x \in Indices(overlap, n) : <<InChunk(rd, c, i), InOutput(rd, i)>> = <<from(x), to(x)>>
  <2>1. i \in Vectors(n)
    BY SelectedVectors DEF Part
  <2> QED
    BY <1>10, <1>11, <2>1
<1> QED
  BY <1>6, <1>9, <1>12, <1>13 DEF Meant


------------------------------------------------------------------------------
(* The output of a read *)

\* The copies of a task's chunk put every element of its part into its cell.
LEMMA CopiesMeant ==
  ASSUME IsRead(read), NEW c \in Tasks(read), IsChunk(c),
         NEW copies,
         \/ read.full /\ copies = FullCopies(read, c)
         \/ HasByteRange(read, c) /\ copies = PartialCopies(read, c)
         \/ copies = SliceCopies(read, c)
  PROVE  copies = Meant(read, c)
<1>1. c \in [1..Rank(read) -> Nat]
  BY ChunkIsVector
<1>2. c \in Vectors(Rank(read))
  BY <1>1 DEF Vectors
<1> QED
  BY <1>1, <1>2, FullCopiesMeant, PartialCopiesMeant, SliceCopiesMeant

\* Every selected element has a cell of the output.
LEMMA CellsOfSelection ==
  ASSUME NEW rd, IsRead(rd)
  PROVE  /\ Cardinality(Selected(rd)) = Volume(OutputShape(rd))
         /\ \A i \in Selected(rd) : InOutput(rd, i) \in 0..(Volume(OutputShape(rd)) - 1)
<1>1. Cardinality(Selected(rd)) = Volume(OutputShape(rd))
  BY ReadVectors, BoxCount DEF Selected, OutputShape
<1>2. ASSUME NEW i \in Selected(rd) PROVE InOutput(rd, i) \in 0..(Volume(OutputShape(rd)) - 1)
  <2>1. Minus(i, Start(rd)) \in Indices(OutputShape(rd), Rank(rd))
    BY SelectedVectors
  <2> QED
    BY <2>1, ReadVectors, PositionRange DEF InOutput
<1> QED
  BY <1>1, <1>2

\* The cells of the chunks that arrived have their elements. Only a task that has
\* not been answered can arrive, so an absent chunk's cells are never written.
Inv ==
  /\ OutputExact
  /\ pending \cap missing = {}

LEMMA InitInv == Init => Inv
<1> SUFFICES ASSUME Init PROVE Inv
  OBVIOUS
<1>1. IsRead(read) /\ pending = Tasks(read) /\ missing = {}
  BY ReadsAssumption DEF Init
<1>2. output = [p \in 0..(Volume(OutputShape(read)) - 1) |-> Fill]
  BY DEF Init
<1>3. DOMAIN output = 0..(Cardinality(Selected(read)) - 1) /\ \A p \in DOMAIN output : output[p] = Fill
  BY <1>1, <1>2, CellsOfSelection
<1>4. TypeOK
  BY <1>1, <1>3 DEF TypeOK
<1>5. ASSUME NEW i \in Selected(read)
      PROVE  output[InOutput(read, i)] = Fill /\ ChunkOf(read, i) \in pending
  BY <1>1, <1>2, CellsOfSelection, ChunkIsTask
<1> QED
  BY <1>1, <1>4, <1>5 DEF Inv, OutputExact, InOutput

\* A chunk's arrival writes its part of the selection and nothing else.
LEMMA Delivery ==
  ASSUME Inv, NEW c \in pending, IsChunk(c), Write(read, c, Meant(read, c)),
         pending' = pending \ {c}, read' = read, missing' = missing
  PROVE  Inv'
<1> DEFINE M == Meant(read, c)
<1>1. /\ IsRead(read) /\ c \in Tasks(read)
      /\ DOMAIN output = 0..(Cardinality(Selected(read)) - 1)
      /\ \A p \in DOMAIN output : output[p] \in Selected(read) \cup {Fill}
  BY DEF Inv, OutputExact, TypeOK
<1>2. c \in Vectors(Rank(read))
  <2>1. c \in [1..Rank(read) -> Nat]
    BY <1>1, ChunkIsVector
  <2> QED
    BY <2>1 DEF Vectors
<1>3. output' = [p \in DOMAIN output |->
                   IF \E k \in M : k[2] = p
                   THEN StoredElement(read, c, (CHOOSE k \in M : k[2] = p)[1])
                   ELSE output[p]]
  BY DEF Write
<1>4. ASSUME NEW p \in DOMAIN output, NEW i \in Part(read, c), InOutput(read, i) = p
      PROVE  output'[p] = i
  <2> DEFINE k == CHOOSE k \in M : k[2] = p
  <2>1. <<InChunk(read, c, i), InOutput(read, i)>> \in M
    BY DEF Meant
  <2>2. \E m \in M : m[2] = p
    BY <1>4, <2>1
  <2>3. k \in M /\ k[2] = p
    <3> HIDE DEF M
    <3> QED
      BY <2>2
  <2>4. output'[p] = StoredElement(read, c, k[1])
    <3> HIDE DEF M
    <3> QED
      BY <1>3, <2>2
  <2> HIDE DEF k
  <2>5. PICK j \in Part(read, c) : k = <<InChunk(read, c, j), InOutput(read, j)>>
    BY <2>3 DEF Meant
  <2>6. k[1] = InChunk(read, c, j) /\ InOutput(read, j) = p
    BY <2>3, <2>5
  <2>7. i = j
    BY <1>1, <1>4, <2>6, InOutputInjective DEF Part
  <2> QED
    BY <1>1, <1>2, <2>4, <2>6, <2>7, StoredIsElement
<1>5. ASSUME NEW p \in DOMAIN output, \A i \in Part(read, c) : InOutput(read, i) # p
      PROVE  output'[p] = output[p]
  <2>1. ~\E k \in M : k[2] = p
    BY <1>5 DEF Meant
  <2> HIDE DEF M
  <2> QED
    BY <1>3, <2>1
<1>6. DOMAIN output' = DOMAIN output
  BY <1>3
<1>7. TypeOK'
  <2>1. ASSUME NEW p \in DOMAIN output PROVE output'[p] \in Selected(read) \cup {Fill}
    <3>1. CASE \E i \in Part(read, c) : InOutput(read, i) = p
      BY <1>4, <3>1 DEF Part
    <3>2. CASE \A i \in Part(read, c) : InOutput(read, i) # p
      BY <1>1, <1>5, <3>2
    <3> QED
      BY <3>1, <3>2
  <2> QED
    BY <1>1, <1>6, <2>1 DEF Inv, OutputExact, TypeOK
<1>8. ASSUME NEW i \in Selected(read)
      PROVE  output'[InOutput(read, i)]
               = IF ChunkOf(read, i) \in (pending \ {c}) \cup missing THEN Fill ELSE i
  <2>1. InOutput(read, i) \in DOMAIN output
    BY <1>1, CellsOfSelection
  <2>2. CASE ChunkOf(read, i) = c
    <3>1. output'[InOutput(read, i)] = i
      BY <1>4, <2>1, <2>2 DEF Part
    <3>2. c \notin missing
      BY DEF Inv
    <3> QED
      BY <2>2, <3>1, <3>2
  <2>3. CASE ChunkOf(read, i) # c
    <3>1. ASSUME NEW j \in Part(read, c) PROVE InOutput(read, j) # InOutput(read, i)
      BY <1>1, <2>3, InOutputInjective DEF Part
    <3>2. output'[InOutput(read, i)] = output[InOutput(read, i)]
      BY <1>5, <2>1, <3>1
    <3>3. output[InOutput(read, i)] = IF ChunkOf(read, i) \in pending \cup missing THEN Fill ELSE i
      BY DEF Inv, OutputExact, InOutput
    <3> QED
      BY <2>3, <3>2, <3>3
  <2> QED
    BY <2>2, <2>3
<1> QED
  BY <1>7, <1>8 DEF Inv, OutputExact, InOutput

LEMMA NextInv == Inv /\ [Next]_vars => Inv'
<1> SUFFICES ASSUME Inv, [Next]_vars PROVE Inv'
  OBVIOUS
<1>1. CASE UNCHANGED vars
  BY <1>1 DEF vars, Inv, OutputExact, TypeOK
<1>2. ASSUME NEW c \in pending, FindsNothing(c) PROVE Inv'
  <2>1. /\ pending' = pending \ {c} /\ missing' = missing \cup {c}
        /\ read' = read /\ output' = output
    BY <1>2 DEF FindsNothing, Answered
  <2>2. pending \cup missing = pending' \cup missing'
    BY <2>1
  <2>3. TypeOK'
    BY <2>1 DEF Inv, OutputExact, TypeOK
  <2>4. OutputExact'
    BY <2>1, <2>2, <2>3 DEF Inv, OutputExact
  <2> QED
    BY <2>1, <2>4 DEF Inv
<1>3. IsRead(read) /\ pending \subseteq Tasks(read)
  BY DEF Inv, OutputExact, TypeOK
<1>4. ASSUME NEW c \in pending, DeliversFull(c) PROVE Inv'
  <2>1. FullCopies(read, c) = Meant(read, c)
    BY <1>3, <1>4, CopiesMeant DEF DeliversFull
  <2> QED
    BY <1>4, <2>1, Delivery DEF DeliversFull, Answered
<1>5. ASSUME NEW c \in pending, DeliversPartial(c) PROVE Inv'
  <2>1. PartialCopies(read, c) = Meant(read, c)
    BY <1>3, <1>5, CopiesMeant DEF DeliversPartial
  <2> QED
    BY <1>5, <2>1, Delivery DEF DeliversPartial, Answered
<1>6. ASSUME NEW c \in pending, DeliversSlice(c) PROVE Inv'
  <2>1. SliceCopies(read, c) = Meant(read, c)
    BY <1>3, <1>6, CopiesMeant DEF DeliversSlice
  <2> QED
    BY <1>6, <2>1, Delivery DEF DeliversSlice, Answered
<1> QED
  BY <1>1, <1>2, <1>4, <1>5, <1>6 DEF Next

\* For every shape, chunk shape, order and selection, and whatever the order in
\* which the chunks arrive: every cell of the output has the element that belongs
\* there once its chunk arrived, and the fill value otherwise, on all three copy
\* paths (copyChunkToOutput, copySliceChunkToOutput, copyPartialToOutput).
THEOREM OutputIsExact == Spec => []OutputExact
<1>1. Init => Inv
  BY InitInv
<1>2. Inv /\ [Next]_vars => Inv'
  BY NextInv
<1>3. Inv => OutputExact
  BY DEF Inv
<1> QED
  BY <1>1, <1>2, <1>3, PTL DEF Spec

\* The output has a cell for every selected element, which holds a selected element
\* or the fill value: no chunk's padding ever reaches it.
THEOREM TypeCorrect == Spec => []TypeOK
<1>1. OutputExact => TypeOK
  BY DEF OutputExact
<1> QED
  BY <1>1, OutputIsExact, PTL

------------------------------------------------------------------------------
(* Least and greatest numbers *)

\* A function whose values are subsets of its domain has a smallest value.
HasSmallest(f, S) == \E m \in S : \A n \in S : f[n] \subseteq f[m] => f[n] = f[m]

\* One of finitely many sets has no other of them within it.
LEMMA SmallestImage ==
  ASSUME NEW S, IsFiniteSet(S), S # {}, NEW f \in [S -> SUBSET S]
  PROVE  HasSmallest(f, S)
<1> DEFINE Q == {f[x] : x \in S}
<1>1. Q \in SUBSET SUBSET S /\ Q # {}
  OBVIOUS
<1>2. PICK T \in Q : \A U \in Q : U \subseteq T => U = T
  <2> HIDE DEF Q
  <2> QED
    BY <1>1, SmallestSubset
<1> QED
  BY <1>2 DEF HasSmallest

\* A finite set of numbers has a least one and a greatest one.
LEMMA FiniteMin ==
  ASSUME NEW S, S \subseteq Int, IsFiniteSet(S), S # {}
  PROVE  \E m \in S : \A n \in S : m <= n
<1> DEFINE upto == [x \in S |-> {y \in S : y <= x}]
<1>1. \A x \in S : x \in Int
  OBVIOUS
<1>2. \A x, y \in S : y \in upto[x] <=> y <= x
  OBVIOUS
<1>3. upto \in [S -> SUBSET S]
  OBVIOUS
<1> HIDE DEF upto
<1>4. PICK m \in S : \A n \in S : upto[n] \subseteq upto[m] => upto[n] = upto[m]
  <2>1. HasSmallest(upto, S)
    BY <1>3, SmallestImage
  <2> QED
    BY <2>1 DEF HasSmallest
<1>5. ASSUME NEW n \in S PROVE m <= n
  <2> SUFFICES ASSUME n < m PROVE FALSE
    BY <1>1
  <2>1. ASSUME NEW y \in upto[n] PROVE y \in upto[m]
    <3>1. y \in S
      BY <1>3
    <3> QED
      BY <1>1, <1>2, <2>1, <3>1
  <2>2. upto[n] = upto[m]
    BY <1>4, <2>1
  <2>3. m \in upto[m] <=> m <= m
    BY <1>2
  <2>4. m \in upto[n] <=> m <= n
    BY <1>2
  <2> QED
    BY <1>1, <2>2, <2>3, <2>4
<1> QED
  BY <1>5

LEMMA FiniteMax ==
  ASSUME NEW S, S \subseteq Int, IsFiniteSet(S), S # {}
  PROVE  \E m \in S : \A n \in S : n <= m
<1> DEFINE from == [x \in S |-> {y \in S : y >= x}]
<1>1. \A x \in S : x \in Int
  OBVIOUS
<1>2. \A x, y \in S : y \in from[x] <=> y >= x
  OBVIOUS
<1>3. from \in [S -> SUBSET S]
  OBVIOUS
<1> HIDE DEF from
<1>4. PICK m \in S : \A n \in S : from[n] \subseteq from[m] => from[n] = from[m]
  <2>1. HasSmallest(from, S)
    BY <1>3, SmallestImage
  <2> QED
    BY <2>1 DEF HasSmallest
<1>5. ASSUME NEW n \in S PROVE n <= m
  <2> SUFFICES ASSUME m < n PROVE FALSE
    BY <1>1
  <2>1. ASSUME NEW y \in from[n] PROVE y \in from[m]
    <3>1. y \in S
      BY <1>3
    <3> QED
      BY <1>1, <1>2, <2>1, <3>1
  <2>2. from[n] = from[m]
    BY <1>4, <2>1
  <2>3. m \in from[m] <=> m >= m
    BY <1>2
  <2>4. m \in from[n] <=> m >= n
    BY <1>2
  <2> QED
    BY <1>1, <2>2, <2>3, <2>4
<1> QED
  BY <1>5

\* The span of a finite set of numbers.
LEMMA SpanFacts ==
  ASSUME NEW S, S \subseteq Int, IsFiniteSet(S), S # {}
  PROVE  /\ Min(S) \in S /\ Max(S) \in S
         /\ \A x \in S : Within(x, Span(S))
         /\ Span(S) \in Int \X Int /\ Span(S)[1] = Min(S) /\ Span(S)[2] = Max(S)
         /\ Span(S)[1] <= Span(S)[2]
<1>1. Min(S) \in S /\ \A x \in S : Min(S) <= x
  BY FiniteMin DEF Min
<1>2. Max(S) \in S /\ \A x \in S : x <= Max(S)
  <2>1. PICK m \in S : \A n \in S : n <= m
    BY FiniteMax
  <2>2. \A n \in S : m >= n
    BY <2>1
  <2>3. Max(S) \in S /\ \A x \in S : Max(S) >= x
    BY <2>2 DEF Max
  <2> QED
    BY <2>3
<1> QED
  BY <1>1, <1>2 DEF Span, Within

\* The interval between two numbers.
LEMMA SpanOfTwo ==
  ASSUME NEW x \in Int, NEW y \in Int
  PROVE  /\ Span({x, y}) \in Int \X Int /\ Span({x, y})[1] <= Span({x, y})[2]
         /\ x <= y => Span({x, y}) = <<x, y>>
         /\ y <= x => Span({x, y}) = <<y, x>>
         /\ \A z \in Int : Within(z, Span({x, y})) <=> (x <= z /\ z <= y) \/ (y <= z /\ z <= x)
<1> DEFINE S == {x, y}
<1>1. S \subseteq Int /\ IsFiniteSet(S) /\ S # {}
  <2>1. IsFiniteSet({x}) /\ S = {x} \cup {y}
    BY FS_Singleton
  <2> QED
    BY <2>1, FS_AddElement
<1>2. /\ Min(S) \in S /\ Max(S) \in S
      /\ \A z \in S : Within(z, Span(S))
      /\ Span(S) = <<Min(S), Max(S)>>
      /\ Min(S) <= Max(S)
  <2> HIDE DEF S
  <2> QED
    BY <1>1, SpanFacts DEF Span
<1>3. x <= y => Min(S) = x /\ Max(S) = y
  BY <1>2 DEF Within
<1>4. y <= x => Min(S) = y /\ Max(S) = x
  BY <1>2 DEF Within
<1> QED
  BY <1>2, <1>3, <1>4 DEF Within

------------------------------------------------------------------------------
(* Parity *)

Odd(S) == Cardinality(S) % 2 = 1
Differ(A, B, N) == {n \in N : (n \in A) # (n \in B)}

\* The members that two sets do not share are odd in number when just one of the
\* sets is.
LEMMA OddDiffer ==
  ASSUME NEW N, IsFiniteSet(N), NEW A \in SUBSET N, NEW B \in SUBSET N
  PROVE  Odd(Differ(A, B, N)) <=> (Odd(A) # Odd(B))
<1> DEFINE a == Cardinality(A)
           b == Cardinality(B)
           m == Cardinality(A \cap B)
           D == Differ(A, B, N)
<1>1. IsFiniteSet(A) /\ IsFiniteSet(B)
  BY FS_Subset
<1>2. a \in Nat /\ b \in Nat
  BY <1>1, FS_CardinalityType
<1>3. m \in Nat
  <2>1. IsFiniteSet(A \cap B)
    BY <1>1, FS_Subset
  <2> QED
    BY <2>1, FS_CardinalityType
<1>4. IsFiniteSet(A \ B) /\ Cardinality(A \ B) = a - m
  BY <1>1, FS_Difference
<1>5. IsFiniteSet(B \ A) /\ Cardinality(B \ A) = b - m
  <2>1. A \cap B = B \cap A
    OBVIOUS
  <2>2. IsFiniteSet(B \ A) /\ Cardinality(B \ A) = b - Cardinality(B \cap A)
    BY <1>1, FS_Difference
  <2> QED
    BY <2>1, <2>2
<1>6. Cardinality(D) = (a - m) + (b - m)
  <2>1. D = (A \ B) \cup (B \ A)
    BY DEF Differ
  <2>2. (A \ B) \cap (B \ A) = {}
    OBVIOUS
  <2>3. Cardinality(D) = Cardinality(A \ B) + Cardinality(B \ A) - Cardinality({})
    BY <1>4, <1>5, <2>1, <2>2, FS_Union
  <2>4. Cardinality({}) = 0
    BY FS_EmptySet
  <2> HIDE DEF a, b, m, D
  <2> QED
    BY <1>2, <1>3, <1>4, <1>5, <2>3, <2>4
<1> HIDE DEF a, b, m, D
<1>7. Cardinality(D) % 2 = 1 <=> (a % 2 = 1) # (b % 2 = 1)
  BY <1>2, <1>3, <1>6
<1> QED
  BY <1>7 DEF Odd, a, b, D

\* A set with an odd number of members has one.
LEMMA OddMembers ==
  ASSUME NEW S, Odd(S)
  PROVE  S # {}
<1> SUFFICES ASSUME S = {} PROVE FALSE
  OBVIOUS
<1>1. Cardinality(S) = 0
  BY FS_EmptySet
<1> QED
  BY <1>1 DEF Odd

\* The number before n on a ring of k.
Before(n, k) == IF n = 1 THEN k ELSE n - 1

\* As many numbers have their predecessor in a set as the set has members.
LEMMA BeforeIsBijection ==
  ASSUME NEW k \in Nat \ {0}, NEW P \in SUBSET (1..k)
  PROVE  Cardinality({n \in 1..k : Before(n, k) \in P}) = Cardinality(P)
<1> DEFINE R == {n \in 1..k : Before(n, k) \in P}
           f == [n \in R |-> Before(n, k)]
<1>1. \A n \in 1..k : Before(n, k) \in 1..k
  BY DEF Before
<1>2. f \in [R -> P]
  OBVIOUS
<1>3. \A a, b \in R : f[a] = f[b] => a = b
  BY DEF Before
<1>4. ASSUME NEW p \in P PROVE \E n \in R : f[n] = p
  <2> DEFINE n == IF p = k THEN 1 ELSE p + 1
  <2>1. n \in 1..k /\ Before(n, k) = p
    BY DEF Before
  <2> QED
    BY <2>1
<1>5. f \in Bijection(R, P)
  <2>1. \A p \in P : \E n \in R : f[n] = p
    BY <1>4
  <2> HIDE DEF f, R
  <2> QED
    BY <1>2, <1>3, <2>1, Fun_IsBij
<1>6. ExistsBijection(R, P)
  BY <1>5 DEF ExistsBijection
<1>7. IsFiniteSet(R)
  <2>1. IsFiniteSet(1..k)
    BY FS_Interval
  <2> QED
    BY <2>1, FS_Subset
<1> QED
  BY <1>6, <1>7, FS_Bijection

\* Around a ring one enters a set as often as one leaves it.
LEMMA ChangesEven ==
  ASSUME NEW k \in Nat \ {0}, NEW P \in SUBSET (1..k)
  PROVE  ~Odd(Differ(P, {n \in 1..k : Before(n, k) \in P}, 1..k))
<1> DEFINE R == {n \in 1..k : Before(n, k) \in P}
<1>1. IsFiniteSet(1..k)
  BY FS_Interval
<1>2. Odd(R) = Odd(P)
  BY BeforeIsBijection DEF Odd
<1>3. R \in SUBSET (1..k)
  OBVIOUS
<1> HIDE DEF R
<1>4. Odd(Differ(P, R, 1..k)) <=> (Odd(P) # Odd(R))
  BY <1>1, <1>3, OddDiffer
<1> QED
  BY <1>2, <1>4 DEF R

------------------------------------------------------------------------------
(* Binary search *)

\* One round of the loop.
Halved(b, S) ==
  LET mid == (b[1] + b[2]) \div 2 IN
  IF b[1] >= b[2] THEN b
  ELSE IF mid \in S THEN <<mid + 1, b[2]>> ELSE <<b[1], mid>>

IsSearch(f, n, lo, hi, S) ==
  /\ f \in [0..n -> Int \X Int] /\ f[0] = <<lo, hi>>
  /\ \A k \in 1..n : f[k] = Halved(f[k - 1], S)

\* A round of the search leaves a pair of bounds.
LEMMA HalvedType ==
  ASSUME NEW b \in Int \X Int, NEW S
  PROVE  Halved(b, S) \in Int \X Int
<1>1. b[1] \in Int /\ b[2] \in Int /\ (b[1] + b[2]) \div 2 \in Int
  OBVIOUS
<1> QED
  BY <1>1 DEF Halved

\* The recursive function of Bisect exists: its value is the last of the bounds.
LEMMA BisectIsSearch ==
  ASSUME NEW lo \in Int, NEW hi \in Int, lo <= hi, NEW S
  PROVE  \E f : IsSearch(f, hi - lo, lo, hi, S) /\ Bisect(lo, hi, S) = f[hi - lo][1]
<1> DEFINE n == hi - lo
           V == Int \X Int
           G == [p \in (1..n) \X V |-> Halved(p[2], S)]
           IsSolution(g) == g = [k \in 0..n |-> IF k = 0 THEN <<lo, hi>> ELSE Halved(g[k - 1], S)]
           solution == CHOOSE g : IsSolution(g)
<1>1. n \in Nat /\ <<lo, hi>> \in V
  OBVIOUS
<1>2. G \in [(1..n) \X V -> V]
  BY HalvedType
<1>3. PICK f : IsRecursion(f, n, V, <<lo, hi>>, G)
  <2> HIDE DEF G, V, n
  <2> QED
    BY <1>1, <1>2, Recursion, Zenon
<1>4. IsSearch(f, n, lo, hi, S)
  <2>1. f \in [0..n -> V] /\ f[0] = <<lo, hi>>
    BY <1>3 DEF IsRecursion
  <2>2. ASSUME NEW k \in 1..n PROVE f[k] = Halved(f[k - 1], S)
    <3>1. k - 1 \in 0..n /\ f[k - 1] \in V
      BY <1>1, <2>1
    <3>2. f[k] = G[<<k, f[k - 1]>>]
      BY <1>3 DEF IsRecursion
    <3> QED
      BY <3>1, <3>2
  <2> QED
    BY <2>1, <2>2 DEF IsSearch
<1>5. IsSolution(f)
  <2> DEFINE g == [k \in 0..n |-> IF k = 0 THEN <<lo, hi>> ELSE Halved(f[k - 1], S)]
  <2>1. ASSUME NEW k \in 0..n PROVE f[k] = g[k]
    <3>1. CASE k = 0
      BY <3>1, <1>4 DEF IsSearch
    <3>2. CASE k # 0
      <4>1. k \in 1..n
        BY <1>1, <3>2
      <4> QED
        BY <3>2, <4>1, <1>4 DEF IsSearch
    <3> QED
      BY <3>1, <3>2
  <2>2. f \in [0..n -> V]
    BY <1>4 DEF IsSearch
  <2>3. f = [k \in 0..n |-> f[k]]
    BY <2>2
  <2> QED
    BY <2>1, <2>3
<1>6. IsSolution(solution)
  <2> HIDE DEF IsSolution
  <2> QED
    BY <1>5
<1>7. \A k \in 0..n : solution[k] = f[k]
  <2> DEFINE same == {k \in 0..n : solution[k] = f[k]}
  <2>1. 0 \in same
    <3>1. 0 \in 0..n
      BY <1>1
    <3>2. solution[0] = <<lo, hi>>
      <4> HIDE DEF solution
      <4> QED
        BY <1>6, <3>1
    <3> QED
      BY <3>1, <3>2, <1>4 DEF IsSearch
  <2>2. ASSUME NEW d \in 1..n, d - 1 \in same PROVE d \in same
    <3>1. d \in 0..n /\ d # 0
      BY <1>1
    <3>2. solution[d] = Halved(solution[d - 1], S)
      <4> HIDE DEF solution
      <4> QED
        BY <1>6, <3>1
    <3>3. solution[d - 1] = f[d - 1]
      BY <2>2
    <3>4. f[d] = Halved(f[d - 1], S)
      BY <1>4 DEF IsSearch
    <3> QED
      BY <3>1, <3>2, <3>3, <3>4
  <2>3. \A k \in 0..n : k \in same
    <3> HIDE DEF same
    <3> QED
      BY <1>1, <2>1, <2>2, IntervalInduction
  <2> QED
    BY <2>3
<1>8. Bisect(lo, hi, S) = solution[n][1]
  BY DEF Bisect, Halved
<1>9. Bisect(lo, hi, S) = f[n][1]
  <2>1. n \in 0..n
    BY <1>1
  <2> QED
    BY <1>7, <1>8, <2>1
<1> QED
  BY <1>4, <1>9

\* What the bounds are after k rounds, if `cut` is what is sought.
Between(b, lo, hi, cut, width) ==
  /\ b[1] \in Int /\ b[2] \in Int
  /\ lo <= b[1] /\ b[1] <= cut /\ cut <= b[2] /\ b[2] <= hi /\ b[2] - b[1] <= width

\* A round keeps what is sought between the bounds, and brings these closer.
LEMMA HalvedCloser ==
  ASSUME NEW lo \in Int, NEW hi \in Int, NEW cut \in Int, NEW S,
         \A m \in lo..(hi - 1) : m \in S <=> m < cut,
         NEW width \in Nat, NEW b \in Int \X Int, Between(b, lo, hi, cut, width + 1)
  PROVE  Between(Halved(b, S), lo, hi, cut, width)
<1> DEFINE x == b[1]
           y == b[2]
           mid == (x + y) \div 2
<1>1. x \in Int /\ y \in Int /\ lo <= x /\ x <= cut /\ cut <= y /\ y <= hi /\ y - x <= width + 1
  BY DEF Between
<1>2. CASE x >= y
  BY <1>1, <1>2 DEF Halved, Between
<1>3. CASE x < y
  <2>1. mid \in Int /\ x <= mid /\ mid < y
    <3> HIDE DEF x, y
    <3> QED
      BY <1>1, <1>3
  <2>2. mid \in S <=> mid < cut
    BY <1>1, <2>1
  <2>3. Halved(b, S) = IF mid \in S THEN <<mid + 1, y>> ELSE <<x, mid>>
    BY <1>1, <1>3 DEF Halved
  <2> HIDE DEF x, y, mid
  <2>4. CASE mid \in S
    BY <1>1, <2>1, <2>2, <2>3, <2>4 DEF Between
  <2>5. CASE mid \notin S
    BY <1>1, <2>1, <2>2, <2>3, <2>5 DEF Between
  <2> QED
    BY <2>4, <2>5
<1> QED
  BY <1>1, <1>2, <1>3

\* The search finds the first number that is past the members of S.
LEMMA BisectFinds ==
  ASSUME NEW lo \in Int, NEW hi \in Int, lo <= hi, NEW S, NEW cut \in lo..hi,
         \A m \in lo..(hi - 1) : m \in S <=> m < cut
  PROVE  Bisect(lo, hi, S) = cut
<1> DEFINE n == hi - lo
<1>1. PICK f : IsSearch(f, n, lo, hi, S) /\ Bisect(lo, hi, S) = f[n][1]
  BY BisectIsSearch
<1> DEFINE good == {k \in 0..n : Between(f[k], lo, hi, cut, n - k)}
<1>2. n \in Nat
  OBVIOUS
<1>3. 0 \in good
  BY <1>1 DEF IsSearch, Between
<1>4. ASSUME NEW d \in 1..n, d - 1 \in good PROVE d \in good
  <2>1. d \in 0..n /\ n - d \in Nat /\ n - (d - 1) = (n - d) + 1
    BY <1>2
  <2>2. f[d - 1] \in Int \X Int /\ f[d] = Halved(f[d - 1], S)
    <3>1. d - 1 \in 0..n
      BY <1>2
    <3> QED
      BY <1>1, <3>1 DEF IsSearch
  <2>3. Between(f[d - 1], lo, hi, cut, (n - d) + 1)
    BY <1>4, <2>1
  <2>4. Between(Halved(f[d - 1], S), lo, hi, cut, n - d)
    <3> DEFINE w == n - d
    <3>1. cut \in Int /\ w \in Nat
      BY <2>1
    <3> HIDE DEF w, n, good
    <3>2. Between(f[d - 1], lo, hi, cut, w + 1)
      BY <2>3 DEF w
    <3>3. Between(Halved(f[d - 1], S), lo, hi, cut, w)
      BY <2>2, <3>1, <3>2, HalvedCloser
    <3> QED
      BY <3>3 DEF w
  <2> QED
    BY <2>1, <2>2, <2>4
<1>5. n \in good
  <2>1. \A k \in 0..n : k \in good
    <3> HIDE DEF good, n
    <3> QED
      BY <1>2, <1>3, <1>4, IntervalInduction
  <2> QED
    BY <1>2, <2>1
<1>6. Between(f[n], lo, hi, cut, 0)
  BY <1>5
<1>7. f[n][1] = cut
  BY <1>6 DEF Between
<1> QED
  BY <1>1, <1>7

\* Whatever S is, the search stays between the bounds.
LEMMA BisectBetween ==
  ASSUME NEW lo \in Int, NEW hi \in Int, lo <= hi, NEW S
  PROVE  Bisect(lo, hi, S) \in lo..hi
<1> DEFINE n == hi - lo
<1>1. PICK f : IsSearch(f, n, lo, hi, S) /\ Bisect(lo, hi, S) = f[n][1]
  BY BisectIsSearch
<1> DEFINE good == {k \in 0..n : lo <= f[k][1] /\ f[k][1] <= hi /\ lo <= f[k][2] /\ f[k][2] <= hi}
<1>2. n \in Nat
  OBVIOUS
<1>3. 0 \in good
  BY <1>1 DEF IsSearch
<1>4. ASSUME NEW d \in 1..n, d - 1 \in good PROVE d \in good
  <2>1. d \in 0..n /\ d - 1 \in 0..n
    BY <1>2
  <2> DEFINE b == f[d - 1]
             x == b[1]
             y == b[2]
             mid == (x + y) \div 2
  <2>2. b \in Int \X Int /\ f[d] = Halved(b, S)
    BY <1>1, <2>1 DEF IsSearch
  <2>3. x \in Int /\ y \in Int /\ lo <= x /\ x <= hi /\ lo <= y /\ y <= hi
    BY <1>4, <2>2
  <2>4. f[d] = IF x >= y THEN b ELSE IF mid \in S THEN <<mid + 1, y>> ELSE <<x, mid>>
    BY <2>2 DEF Halved
  <2>5. x < y => mid \in Int /\ x <= mid /\ mid < y
    <3> HIDE DEF x, y
    <3> QED
      BY <2>3
  <2>6. /\ lo <= f[d][1] /\ f[d][1] <= hi /\ lo <= f[d][2] /\ f[d][2] <= hi
    <3>1. CASE x >= y
      BY <2>3, <2>4, <3>1
    <3>2. CASE x < y /\ mid \in S
      <4>1. f[d] = <<mid + 1, y>>
        BY <2>3, <2>4, <3>2
      <4> HIDE DEF mid, x, y
      <4> QED
        BY <2>3, <2>5, <3>2, <4>1
    <3>3. CASE x < y /\ mid \notin S
      <4>1. f[d] = <<x, mid>>
        BY <2>3, <2>4, <3>3
      <4> HIDE DEF mid, x, y
      <4> QED
        BY <2>3, <2>5, <3>3, <4>1
    <3> QED
      BY <2>3, <3>1, <3>2, <3>3
  <2> QED
    BY <2>1, <2>6
<1>5. n \in good
  <2>1. \A k \in 0..n : k \in good
    <3> HIDE DEF good, n
    <3> QED
      BY <1>2, <1>3, <1>4, IntervalInduction
  <2> QED
    BY <1>2, <2>1
<1>6. f[n] \in Int \X Int
  <2>1. n \in 0..n
    BY <1>2
  <2> QED
    BY <1>1, <2>1 DEF IsSearch
<1> QED
  BY <1>1, <1>5, <1>6

------------------------------------------------------------------------------
(* The samples of a box *)

\* A number smaller than the divisor has quotient zero.
LEMMA DivIsZero ==
  ASSUME NEW c \in Nat \ {0}, NEW x \in Nat, x < c
  PROVE  0 = x \div c
<1>1. 0 * c <= x /\ x < (0 + 1) * c /\ 0 \in Int /\ x \in Int
  OBVIOUS
<1> QED
  BY <1>1, DivIsChunk

\* What remains of a division is the only such remainder.
LEMMA ModIsRest ==
  ASSUME NEW c \in Nat \ {0}, NEW x \in Int
  PROVE  x % c = x - (x \div c) * c /\ x % c \in 0..(c - 1) /\ x \div c \in Int
<1>1. x % c = x - (x \div c) * c
  BY SMT
<1>2. x % c \in 0..(c - 1)
  BY SMT
<1> QED
  BY <1>1, <1>2

\* kept is, for every n, the sequence of those of the first n samples that are in K.
IsFilter(kept, N, sample, K, V) ==
  /\ kept \in [0..N -> Seq(V)] /\ kept[0] = <<>>
  /\ \A n \in 1..N : kept[n] = IF sample[n] \in K THEN Append(kept[n - 1], sample[n])
                               ELSE kept[n - 1]

\* The members of s are the first n samples in K, in their order R.
IsFiltered(s, n, sample, K, R) ==
  /\ \A m \in DOMAIN s : \E i \in 1..n : s[m] = sample[i] /\ sample[i] \in K
  /\ \A i \in 1..n : sample[i] \in K => \E m \in DOMAIN s : s[m] = sample[i]
  /\ \A m, k \in DOMAIN s : m < k => <<s[m], s[k]>> \in R

\* One more sample that is kept.
LEMMA FilteredAppend ==
  ASSUME NEW n \in Nat, NEW V, NEW sample, NEW K, NEW R, NEW s \in Seq(V),
         sample[n + 1] \in V, sample[n + 1] \in K,
         \A i \in 1..n : <<sample[i], sample[n + 1]>> \in R,
         IsFiltered(s, n, sample, K, R)
  PROVE  IsFiltered(Append(s, sample[n + 1]), n + 1, sample, K, R)
<1> DEFINE x == sample[n + 1]
           u == Append(s, x)
           l == Len(s)
<1>1. l \in Nat /\ DOMAIN s = 1..l /\ DOMAIN u = 1..(l + 1) /\ u[l + 1] = x
  OBVIOUS
<1>2. \A m \in 1..l : u[m] = s[m]
  OBVIOUS
<1>3. n + 1 \in 1..(n + 1) /\ \A i \in 1..(n + 1) : i = n + 1 \/ i \in 1..n
  OBVIOUS
<1>4. l + 1 \in 1..(l + 1) /\ \A i \in 1..(l + 1) : i = l + 1 \/ i \in 1..l
  BY <1>1
<1> HIDE DEF u, l
<1>5. ASSUME NEW m \in DOMAIN u PROVE \E i \in 1..(n + 1) : u[m] = sample[i] /\ sample[i] \in K
  <2>1. CASE m = l + 1
    BY <1>1, <1>3, <2>1
  <2>2. CASE m \in 1..l
    <3>1. PICK i \in 1..n : s[m] = sample[i] /\ sample[i] \in K
      BY <1>1, <2>2 DEF IsFiltered
    <3>2. i \in 1..(n + 1)
      OBVIOUS
    <3> QED
      BY <1>2, <2>2, <3>1, <3>2
  <2> QED
    BY <1>1, <1>4, <2>1, <2>2
<1>6. ASSUME NEW i \in 1..(n + 1), sample[i] \in K PROVE \E m \in DOMAIN u : u[m] = sample[i]
  <2>1. CASE i = n + 1
    BY <1>1, <1>4, <2>1
  <2>2. CASE i \in 1..n
    <3>1. PICK m \in 1..l : s[m] = sample[i]
      BY <1>1, <1>6, <2>2 DEF IsFiltered
    <3>2. m \in DOMAIN u /\ u[m] = s[m]
      BY <1>1, <1>2
    <3> QED
      BY <3>1, <3>2
  <2> QED
    BY <1>3, <2>1, <2>2
<1>7. ASSUME NEW m \in DOMAIN u, NEW k \in DOMAIN u, m < k PROVE <<u[m], u[k]>> \in R
  <2>1. m \in 1..l
    BY <1>1, <1>7
  <2>2. u[m] = s[m] /\ m \in DOMAIN s
    BY <1>1, <1>2, <2>1
  <2>3. CASE k = l + 1
    <3>1. PICK i \in 1..n : s[m] = sample[i]
      BY <2>2 DEF IsFiltered
    <3> QED
      BY <1>1, <2>2, <2>3, <3>1
  <2>4. CASE k \in 1..l
    <3>1. k \in DOMAIN s /\ u[k] = s[k]
      BY <1>1, <1>2, <2>4
    <3> QED
      BY <1>7, <2>2, <3>1 DEF IsFiltered
  <2> QED
    BY <1>1, <1>4, <2>3, <2>4
<1> QED
  BY <1>5, <1>6, <1>7 DEF IsFiltered, u

\* After n samples, the kept ones of these.
LEMMA FilterFacts ==
  ASSUME NEW N \in Nat, NEW V, NEW sample \in [1..N -> V], NEW K, NEW R, NEW kept,
         IsFilter(kept, N, sample, K, V),
         \A i, j \in 1..N : i < j => <<sample[i], sample[j]>> \in R
  PROVE  IsFiltered(kept[N], N, sample, K, R)
<1> DEFINE good == {n \in 0..N : IsFiltered(kept[n], n, sample, K, R)}
<1>1. 0 \in good
  BY DEF IsFilter, IsFiltered
<1>2. ASSUME NEW d \in 1..N, d - 1 \in good PROVE d \in good
  <2> DEFINE n == d - 1
  <2>1. n \in Nat /\ n \in 0..N /\ n + 1 = d /\ d \in 0..N
    OBVIOUS
  <2>2. kept[n] \in Seq(V) /\ IsFiltered(kept[n], n, sample, K, R)
    BY <1>2, <2>1 DEF IsFilter
  <2>3. kept[d] = IF sample[d] \in K THEN Append(kept[n], sample[d]) ELSE kept[n]
    BY DEF IsFilter
  <2>4. \A i \in 1..n : <<sample[i], sample[d]>> \in R
    <3> TAKE i \in 1..n
    <3>1. i \in 1..N /\ i < d
      BY <2>1
    <3> QED
      BY <3>1
  <2>5. sample[d] \in V
    OBVIOUS
  <2>6. CASE sample[d] \in K
    <3> HIDE DEF n, good
    <3>1. IsFiltered(Append(kept[n], sample[n + 1]), n + 1, sample, K, R)
      BY <2>1, <2>2, <2>4, <2>5, <2>6, FilteredAppend
    <3> QED
      BY <2>1, <2>3, <2>6, <3>1 DEF good
  <2>7. CASE sample[d] \notin K
    <3>1. \A i \in 1..d : i \in 1..n \/ i = d
      BY <2>1
    <3>2. \A i \in 1..n : i \in 1..d
      BY <2>1
    <3> HIDE DEF n
    <3>3. IsFiltered(kept[n], d, sample, K, R)
      BY <2>2, <2>7, <3>1, <3>2 DEF IsFiltered
    <3> QED
      BY <2>1, <2>3, <2>7, <3>3
  <2> QED
    BY <2>6, <2>7
<1>3. \A n \in 0..N : n \in good
  <2> HIDE DEF good
  <2> QED
    BY <1>1, <1>2, IntervalInduction
<1> QED
  BY <1>3

\* No more than n of n samples are kept.
LEMMA FilterLength ==
  ASSUME NEW N \in Nat, NEW V, NEW sample \in [1..N -> V], NEW K, NEW kept,
         IsFilter(kept, N, sample, K, V)
  PROVE  Len(kept[N]) <= N
<1> DEFINE good == {n \in 0..N : Len(kept[n]) <= n}
<1>1. 0 \in good
  BY DEF IsFilter
<1>2. ASSUME NEW d \in 1..N, d - 1 \in good PROVE d \in good
  <2>1. d \in 0..N /\ d \in Int /\ kept[d - 1] \in Seq(V) /\ Len(kept[d - 1]) <= d - 1
    BY <1>2 DEF IsFilter
  <2>2. sample[d] \in V
    OBVIOUS
  <2>3. kept[d] = IF sample[d] \in K THEN Append(kept[d - 1], sample[d]) ELSE kept[d - 1]
    BY DEF IsFilter
  <2>4. Len(kept[d - 1]) \in Nat /\ Len(Append(kept[d - 1], sample[d])) = Len(kept[d - 1]) + 1
    BY <2>1, <2>2
  <2>5. Len(kept[d]) <= d
    BY <2>1, <2>3, <2>4
  <2> QED
    BY <2>1, <2>5
<1>3. \A n \in 0..N : n \in good
  <2> HIDE DEF good
  <2> QED
    BY <1>1, <1>2, IntervalInduction
<1> QED
  BY <1>3

\* The recursive function of GatherCells exists.
LEMMA FilterExists ==
  ASSUME NEW N \in Nat, NEW V, NEW sample \in [1..N -> V], NEW K
  PROVE  \E kept : IsFilter(kept, N, sample, K, V)
<1> DEFINE G == [p \in (1..N) \X Seq(V) |->
                   IF sample[p[1]] \in K THEN Append(p[2], sample[p[1]]) ELSE p[2]]
<1>1. G \in [(1..N) \X Seq(V) -> Seq(V)]
  OBVIOUS
<1>2. <<>> \in Seq(V)
  OBVIOUS
<1>3. PICK kept : IsRecursion(kept, N, Seq(V), <<>>, G)
  <2> HIDE DEF G
  <2> QED
    BY <1>1, <1>2, Recursion, Zenon
<1>4. kept \in [0..N -> Seq(V)] /\ kept[0] = <<>>
  BY <1>3 DEF IsRecursion
<1>5. ASSUME NEW n \in 1..N
      PROVE  kept[n] = IF sample[n] \in K THEN Append(kept[n - 1], sample[n]) ELSE kept[n - 1]
  <2>1. n - 1 \in 0..N /\ kept[n - 1] \in Seq(V)
    BY <1>4
  <2>2. kept[n] = G[<<n, kept[n - 1]>>]
    BY <1>3 DEF IsRecursion
  <2> QED
    BY <2>1, <2>2
<1> QED
  BY <1>4, <1>5 DEF IsFilter

\* The number of multiples of b from 0 on that are below a.
LEMMA CeilDivFacts ==
  ASSUME NEW a \in Nat, NEW s \in Nat \ {0}
  PROVE  /\ CeilDiv(a, s) \in Nat
         /\ a > 0 => CeilDiv(a, s) > 0
         /\ \A x \in Int : x * s < a <=> x < CeilDiv(a, s)
<1> DEFINE d == CeilDiv(a, s)
<1>1. d \in Int /\ d * s <= a + s - 1 /\ a + s - 1 < (d + 1) * s
  <2>1. a + s - 1 \in Int
    OBVIOUS
  <2> QED
    BY <2>1, DivIsChunk DEF CeilDiv
<1> HIDE DEF d
<1>2. (d + 1) * s = d * s + s /\ d * s \in Int
  BY <1>1
<1>3. a <= d * s /\ d * s < a + s
  BY <1>1, <1>2
<1>4. ASSUME NEW x \in Int PROVE x * s < a <=> x < d
  <2>1. CASE x < d
    <3> DEFINE e == d - 1 - x
    <3>1. e \in Nat /\ x = d - 1 - e
      BY <1>1, <2>1
    <3>2. x * s = d * s - s - e * s /\ e * s \in Nat
      BY <1>1, <3>1
    <3> HIDE DEF e
    <3> DEFINE u == x * s
               v == d * s
               w == e * s
    <3>3. u = v - s - w /\ w \in Nat /\ v \in Int /\ v < a + s
      BY <1>2, <1>3, <3>2
    <3> HIDE DEF u, v, w
    <3>4. u < a
      BY <3>3
    <3> QED
      BY <2>1, <3>4 DEF u
  <2>2. CASE x >= d
    <3> DEFINE e == x - d
    <3>1. e \in Nat /\ x = d + e
      BY <1>1, <2>2
    <3>2. x * s = d * s + e * s /\ e * s \in Nat
      BY <1>1, <3>1
    <3> HIDE DEF e
    <3> DEFINE u == x * s
               v == d * s
               w == e * s
    <3>3. u = v + w /\ w \in Nat /\ v \in Int /\ a <= v
      BY <1>2, <1>3, <3>2
    <3> HIDE DEF u, v, w
    <3>4. u >= a
      BY <3>3
    <3>5. x * s >= a
      BY <3>4 DEF u
    <3> QED
      BY <1>1, <2>2, <3>5
  <2> QED
    BY <1>1, <2>1, <2>2
<1>5. d >= 0
  <2>1. (-1) * s < a <=> -1 < d
    BY <1>4
  <2> QED
    BY <1>1, <2>1
<1>6. a > 0 => d > 0
  <2>1. 0 * s < a <=> 0 < d
    BY <1>4
  <2> QED
    BY <1>1, <2>1
<1> QED
  BY <1>1, <1>4, <1>5, <1>6 DEF d

\* Row and column of the n-th of the samples of a box with `cols` columns.
RowOf(n, cols) == (n - 1) \div cols
ColOf(n, cols) == (n - 1) % cols

\* Every number has a row and a column,
LEMMA RowAndCol ==
  ASSUME NEW rows \in Nat, NEW cols \in Nat \ {0}, NEW n \in 1..(rows * cols)
  PROVE  /\ RowOf(n, cols) \in 0..(rows - 1) /\ ColOf(n, cols) \in 0..(cols - 1)
         /\ n = RowOf(n, cols) * cols + ColOf(n, cols) + 1
<1> DEFINE i == RowOf(n, cols)
           j == ColOf(n, cols)
           rc == rows * cols
           ic == i * cols
<1>1. rc \in Int /\ n \in 1..rc /\ n - 1 \in Int
  OBVIOUS
<1>2. j \in 0..(cols - 1) /\ j = (n - 1) - ic /\ i \in Int
  BY <1>1, ModIsRest DEF RowOf, ColOf
<1>3. i >= 0
  <2> SUFFICES ASSUME i < 0 PROVE FALSE
    BY <1>2
  <2>1. ic <= -cols
    <3> DEFINE e == -1 - i
    <3>1. e \in Nat /\ i = -1 - e
      BY <1>2
    <3> HIDE DEF e, i
    <3>2. e * cols \in Nat /\ ic = -cols - e * cols
      BY <3>1
    <3> QED
      BY <3>2
  <2> HIDE DEF i, j, ic, rc
  <2>2. ic \in Int
    BY <1>2 DEF ic
  <2> QED
    BY <1>1, <1>2, <2>1, <2>2
<1>4. i < rows
  <2> SUFFICES ASSUME i >= rows PROVE FALSE
    BY <1>2
  <2>1. ic >= rc
    <3> DEFINE e == i - rows
    <3>1. e \in Nat /\ i = rows + e
      BY <1>2
    <3> HIDE DEF e, i
    <3>2. e * cols \in Nat /\ ic = rc + e * cols
      BY <3>1
    <3> QED
      BY <1>1, <3>2
  <2>2. ic \in Int
    BY <1>2
  <2> HIDE DEF i, j, ic, rc
  <2> QED
    BY <1>1, <1>2, <2>1, <2>2
<1>5. n = ic + j + 1
  <2>1. ic \in Int
    BY <1>2
  <2> HIDE DEF i, j, ic
  <2> QED
    BY <1>2, <2>1
<1> QED
  BY <1>2, <1>3, <1>4, <1>5

\* The n-th of rows * cols samples is that in row i and column j.
IsNumber(n, rows, cols, i, j) ==
  n \in 1..(rows * cols) /\ RowOf(n, cols) = i /\ ColOf(n, cols) = j

\* and every row and column a number.
LEMMA RowAndColOf ==
  ASSUME NEW rows \in Nat, NEW cols \in Nat \ {0}, NEW i \in 0..(rows - 1), NEW j \in 0..(cols - 1)
  PROVE  IsNumber(i * cols + j + 1, rows, cols, i, j)
<1> DEFINE ic == i * cols
           rc == rows * cols
           n == ic + j + 1
<1>1. ic \in Nat /\ rc \in Nat
  OBVIOUS
<1>2. ic + cols <= rc
  <2> DEFINE e == rows - 1 - i
  <2>1. e \in Nat /\ rows = i + 1 + e
    OBVIOUS
  <2> HIDE DEF e
  <2>2. e * cols \in Nat /\ rc = ic + cols + e * cols
    BY <2>1
  <2> DEFINE ec == e * cols
  <2> HIDE DEF ic, rc, ec
  <2>3. ec \in Nat /\ rc = ic + cols + ec
    BY <2>2 DEF ec
  <2> QED
    BY <1>1, <2>3
<1>3. n \in 1..rc /\ n - 1 = ic + j
  <2> HIDE DEF ic, rc
  <2> QED
    BY <1>1, <1>2
<1>4. RowOf(n, cols) = i
  <2>1. n - 1 \in Int /\ i * cols <= n - 1
    <3> HIDE DEF n
    <3> QED
      BY <1>1, <1>3
  <2>2. (i + 1) * cols = ic + cols
    OBVIOUS
  <2>3. n - 1 < (i + 1) * cols
    <3> HIDE DEF ic, n
    <3> QED
      BY <1>1, <1>3, <2>2
  <2> HIDE DEF n
  <2>4. i = (n - 1) \div cols
    BY <2>1, <2>3, DivIsChunk
  <2> QED
    BY <2>4 DEF RowOf
<1>5. ColOf(n, cols) = j
  <2>1. n - 1 \in Int
    <3> HIDE DEF n
    <3> QED
      BY <1>1, <1>3
  <2> HIDE DEF n
  <2>2. ColOf(n, cols) = (n - 1) - RowOf(n, cols) * cols
    BY <2>1, ModIsRest DEF RowOf, ColOf
  <2>3. ColOf(n, cols) = (n - 1) - ic
    BY <1>4, <2>2
  <2> HIDE DEF ic
  <2> QED
    BY <1>1, <1>3, <2>3
<1>6. IsNumber(n, rows, cols, i, j)
  <2> HIDE DEF n
  <2> QED
    BY <1>3, <1>4, <1>5 DEF IsNumber
<1> QED
  BY <1>6

\* Of two samples the later one has the larger row, or the same and the larger column.
LEMMA LaterSample ==
  ASSUME NEW rows \in Nat, NEW cols \in Nat \ {0}, NEW n \in 1..(rows * cols), NEW m \in 1..(rows * cols),
         n < m
  PROVE  \/ RowOf(n, cols) < RowOf(m, cols)
         \/ RowOf(n, cols) = RowOf(m, cols) /\ ColOf(n, cols) < ColOf(m, cols)
<1> DEFINE i == RowOf(n, cols)
           j == ColOf(n, cols)
           k == RowOf(m, cols)
           l == ColOf(m, cols)
           ic == i * cols
           kc == k * cols
<1>1. i \in Int /\ j \in 0..(cols - 1) /\ n = ic + j + 1
  <2>1. /\ RowOf(n, cols) \in 0..(rows - 1) /\ ColOf(n, cols) \in 0..(cols - 1)
        /\ n = RowOf(n, cols) * cols + ColOf(n, cols) + 1
    BY RowAndCol
  <2> QED
    BY <2>1
<1>2. k \in Int /\ l \in 0..(cols - 1) /\ m = kc + l + 1
  <2>1. /\ RowOf(m, cols) \in 0..(rows - 1) /\ ColOf(m, cols) \in 0..(cols - 1)
        /\ m = RowOf(m, cols) * cols + ColOf(m, cols) + 1
    BY RowAndCol
  <2> QED
    BY <2>1
<1> HIDE DEF i, j, k, l
<1>3. ic \in Int /\ kc \in Int
  BY <1>1, <1>2
<1>4. CASE i < k
  BY <1>4 DEF i, k
<1>5. CASE i = k
  <2>1. ic = kc
    BY <1>5
  <2> HIDE DEF ic, kc
  <2>2. j < l
    BY <1>1, <1>2, <1>3, <2>1
  <2> QED
    BY <1>5, <2>2 DEF i, j, k, l
<1>6. CASE i > k
  <2> DEFINE e == i - k - 1
             ec == e * cols
  <2>1. e \in Nat /\ i = k + 1 + e
    BY <1>1, <1>2, <1>6
  <2> HIDE DEF e
  <2>2. ec \in Nat /\ ic = kc + cols + ec
    BY <1>2, <2>1
  <2> HIDE DEF ic, kc, ec
  <2> QED
    BY <1>1, <1>2, <1>3, <2>2
<1> QED
  BY <1>1, <1>2, <1>4, <1>5, <1>6

BoxCells(b) == (b.rMin..(b.rMax - 1)) \X (b.cMin..(b.cMax - 1))
IsBox(b) == b.rMin \in Nat /\ b.rMax \in Nat /\ b.cMin \in Nat /\ b.cMax \in Nat
HasCells(b) == b.rMin < b.rMax /\ b.cMin < b.cMax
SampledOf(b, s, c) == (c[1] - b.rMin) % s = 0 /\ (c[2] - b.cMin) % s = 0

BoxRows(b, s) == CeilDiv(b.rMax - b.rMin, s)
BoxCols(b, s) == CeilDiv(b.cMax - b.cMin, s)
SampleAt(b, s, n) ==
  <<b.rMin + RowOf(n, BoxCols(b, s)) * s, b.cMin + ColOf(n, BoxCols(b, s)) * s>>

\* The samples of a box are those whose offsets lie within it.
LEMMA BoxSize ==
  ASSUME NEW b, IsBox(b), HasCells(b), NEW s \in Nat \ {0}
  PROVE  /\ BoxRows(b, s) \in Nat \ {0} /\ BoxCols(b, s) \in Nat \ {0}
         /\ \A x \in Int : x * s < b.rMax - b.rMin <=> x < BoxRows(b, s)
         /\ \A x \in Int : x * s < b.cMax - b.cMin <=> x < BoxCols(b, s)
<1> DEFINE r == b.rMax - b.rMin
           c == b.cMax - b.cMin
<1>1. r \in Nat /\ r > 0 /\ c \in Nat /\ c > 0
  BY DEF IsBox, HasCells
<1> HIDE DEF r, c
<1>2. /\ CeilDiv(r, s) \in Nat
      /\ r > 0 => CeilDiv(r, s) > 0
      /\ \A x \in Int : x * s < r <=> x < CeilDiv(r, s)
  BY <1>1, CeilDivFacts
<1>3. /\ CeilDiv(c, s) \in Nat
      /\ c > 0 => CeilDiv(c, s) > 0
      /\ \A x \in Int : x * s < c <=> x < CeilDiv(c, s)
  BY <1>1, CeilDivFacts
<1>4. CeilDiv(r, s) \in Nat \ {0} /\ CeilDiv(c, s) \in Nat \ {0}
  BY <1>1, <1>2, <1>3
<1> QED
  BY <1>2, <1>3, <1>4 DEF BoxRows, BoxCols, r, c

\* Every sample lies in the box, on the stride.
LEMMA SampleInBox ==
  ASSUME NEW b, IsBox(b), HasCells(b), NEW s \in Nat \ {0},
         NEW n \in 1..(BoxRows(b, s) * BoxCols(b, s))
  PROVE  SampleAt(b, s, n) \in BoxCells(b) /\ SampledOf(b, s, SampleAt(b, s, n))
<1> DEFINE rows == BoxRows(b, s)
           cols == BoxCols(b, s)
           i == RowOf(n, cols)
           j == ColOf(n, cols)
           is == i * s
           js == j * s
<1>1. rows \in Nat \ {0} /\ cols \in Nat \ {0}
  BY BoxSize
<1>2. i \in 0..(rows - 1) /\ j \in 0..(cols - 1)
  <2>1. n \in 1..(rows * cols)
    OBVIOUS
  <2> HIDE DEF rows, cols
  <2> QED
    BY <1>1, <2>1, RowAndCol
<1>3. i * s < b.rMax - b.rMin <=> i < rows
  <2> HIDE DEF i
  <2> QED
    BY <1>2, BoxSize
<1>4. j * s < b.cMax - b.cMin <=> j < cols
  <2> HIDE DEF j
  <2> QED
    BY <1>2, BoxSize
<1> HIDE DEF rows, cols, i, j
<1>5. is \in Nat /\ js \in Nat /\ is < b.rMax - b.rMin /\ js < b.cMax - b.cMin
  BY <1>1, <1>2, <1>3, <1>4
<1>6. SampleAt(b, s, n) = <<b.rMin + is, b.cMin + js>>
  BY DEF SampleAt, i, j, cols
<1>7. is % s = 0 /\ js % s = 0
  <2>1. i = is \div s /\ j = js \div s
    <3>1. i * s <= is /\ is < (i + 1) * s /\ i \in Int /\ is \in Int
      BY <1>1, <1>2
    <3>2. j * s <= js /\ js < (j + 1) * s /\ j \in Int /\ js \in Int
      BY <1>1, <1>2
    <3> HIDE DEF is, js
    <3>3. i = is \div s
      BY <3>1, DivIsChunk
    <3>4. j = js \div s
      BY <3>2, DivIsChunk
    <3> QED
      BY <3>3, <3>4
  <2>2. is % s = is - (is \div s) * s /\ js % s = js - (js \div s) * s
    <3> HIDE DEF is, js
    <3>1. is \in Int /\ js \in Int /\ s \in Nat \ {0}
      BY <1>5
    <3>2. is % s = is - (is \div s) * s
      BY <3>1, ModIsRest
    <3>3. js % s = js - (js \div s) * s
      BY <3>1, ModIsRest
    <3> QED
      BY <3>2, <3>3
  <2> QED
    BY <1>5, <2>1, <2>2
<1> HIDE DEF is, js
<1>8. SampleAt(b, s, n) \in BoxCells(b)
  BY <1>5, <1>6 DEF BoxCells, IsBox
<1>9. (b.rMin + is) - b.rMin = is /\ (b.cMin + js) - b.cMin = js
  BY <1>5 DEF IsBox
<1> QED
  BY <1>6, <1>7, <1>8, <1>9 DEF SampledOf

\* Every cell of the box on the stride is a sample.
LEMMA SampleOfCell ==
  ASSUME NEW b, IsBox(b), HasCells(b), NEW s \in Nat \ {0},
         NEW c \in BoxCells(b), SampledOf(b, s, c)
  PROVE  \E n \in 1..(BoxRows(b, s) * BoxCols(b, s)) : SampleAt(b, s, n) = c
<1> DEFINE rows == BoxRows(b, s)
           cols == BoxCols(b, s)
           x == c[1] - b.rMin
           y == c[2] - b.cMin
           i == x \div s
           j == y \div s
           n == i * cols + j + 1
<1>1. /\ x \in Nat /\ x < b.rMax - b.rMin /\ y \in Nat /\ y < b.cMax - b.cMin
      /\ c = <<b.rMin + x, b.cMin + y>>
      /\ x % s = 0 /\ y % s = 0
  BY DEF BoxCells, IsBox, SampledOf
<1>2. rows \in Nat \ {0} /\ cols \in Nat \ {0}
  BY BoxSize
<1> HIDE DEF x, y
<1>3. i \in Int /\ x = i * s /\ j \in Int /\ y = j * s
  <2>1. i \in Int /\ i * s \in Int /\ x % s = x - i * s
    <3>1. x \in Int
      BY <1>1
    <3>2. x % s = x - (x \div s) * s /\ x % s \in 0..(s - 1) /\ x \div s \in Int
      BY <3>1, ModIsRest
    <3> QED
      BY <3>2
  <2>2. j \in Int /\ j * s \in Int /\ y % s = y - j * s
    <3>1. y \in Int
      BY <1>1
    <3>2. y % s = y - (y \div s) * s /\ y % s \in 0..(s - 1) /\ y \div s \in Int
      BY <3>1, ModIsRest
    <3> QED
      BY <3>2
  <2> HIDE DEF i, j
  <2>3. x = i * s
    BY <1>1, <2>1
  <2>4. y = j * s
    BY <1>1, <2>2
  <2> QED
    BY <2>1, <2>2, <2>3, <2>4
<1> HIDE DEF i, j
<1>4. i >= 0 /\ j >= 0
  <2>1. ASSUME NEW k \in Int, k * s >= 0 PROVE k >= 0
    <3> SUFFICES ASSUME k < 0 PROVE FALSE
      OBVIOUS
    <3> DEFINE e == -1 - k
               es == e * s
               ks == k * s
    <3>1. e \in Nat /\ k = -1 - e
      OBVIOUS
    <3> HIDE DEF e
    <3>2. es \in Nat /\ ks = -s - es /\ ks >= 0
      BY <2>1, <3>1
    <3> HIDE DEF es, ks
    <3> QED
      BY <3>2
  <2>2. i * s >= 0
    BY <1>1, <1>3
  <2>3. j * s >= 0
    BY <1>1, <1>3
  <2> QED
    BY <1>3, <2>1, <2>2, <2>3
<1>5. i \in 0..(rows - 1)
  <2>1. i * s < b.rMax - b.rMin <=> i < rows
    BY <1>3, BoxSize
  <2> HIDE DEF rows
  <2> QED
    BY <1>1, <1>2, <1>3, <1>4, <2>1
<1>6. j \in 0..(cols - 1)
  <2>1. j * s < b.cMax - b.cMin <=> j < cols
    BY <1>3, BoxSize
  <2> HIDE DEF cols
  <2> QED
    BY <1>1, <1>2, <1>3, <1>4, <2>1
<1>7. n \in 1..(rows * cols) /\ RowOf(n, cols) = i /\ ColOf(n, cols) = j
  <2> HIDE DEF rows, cols
  <2>1. rows \in Nat
    BY <1>2
  <2>2. IsNumber(i * cols + j + 1, rows, cols, i, j)
    BY <1>2, <1>5, <1>6, <2>1, RowAndColOf
  <2> HIDE DEF n
  <2>3. IsNumber(n, rows, cols, i, j)
    BY <2>2 DEF n
  <2> QED
    BY <2>3 DEF IsNumber
<1>8. SampleAt(b, s, n) = <<b.rMin + i * s, b.cMin + j * s>>
  <2> HIDE DEF n
  <2> QED
    BY <1>7 DEF SampleAt
<1>9. SampleAt(b, s, n) = c
  BY <1>1, <1>3, <1>8
<1> QED
  BY <1>7, <1>9

\* The samples are numbered row by row.
LEMMA SampleOrder ==
  ASSUME NEW b, IsBox(b), HasCells(b), NEW s \in Nat \ {0},
         NEW n \in 1..(BoxRows(b, s) * BoxCols(b, s)), NEW m \in 1..(BoxRows(b, s) * BoxCols(b, s)),
         n < m
  PROVE  RowMajor(SampleAt(b, s, n), SampleAt(b, s, m))
<1> DEFINE rows == BoxRows(b, s)
           cols == BoxCols(b, s)
           i == RowOf(n, cols)
           j == ColOf(n, cols)
           k == RowOf(m, cols)
           l == ColOf(m, cols)
<1>1. rows \in Nat \ {0} /\ cols \in Nat \ {0} /\ n \in 1..(rows * cols) /\ m \in 1..(rows * cols)
  BY BoxSize
<1> HIDE DEF rows, cols
<1>2. i \in Int /\ j \in Int
  <2>1. RowOf(n, cols) \in 0..(rows - 1) /\ ColOf(n, cols) \in 0..(cols - 1)
    BY <1>1, RowAndCol
  <2> QED
    BY <2>1
<1>3. k \in Int /\ l \in Int
  <2>1. RowOf(m, cols) \in 0..(rows - 1) /\ ColOf(m, cols) \in 0..(cols - 1)
    BY <1>1, RowAndCol
  <2> QED
    BY <2>1
<1>4. i < k \/ (i = k /\ j < l)
  BY <1>1, LaterSample
<1> HIDE DEF i, j, k, l
<1>5. ASSUME NEW x \in Int, NEW y \in Int, x < y PROVE x * s < y * s
  <2> DEFINE e == y - x - 1
             es == e * s
             xs == x * s
             ys == y * s
  <2>1. e \in Nat /\ y = x + 1 + e
    BY <1>5
  <2> HIDE DEF e
  <2>2. es \in Nat /\ xs \in Int /\ ys = xs + s + es
    BY <2>1
  <2> HIDE DEF es, xs, ys
  <2>3. xs < ys
    BY <2>2
  <2> QED
    BY <2>3 DEF xs, ys
<1>6. i < k => i * s < k * s
  BY <1>2, <1>3, <1>5
<1>7. j < l => j * s < l * s
  BY <1>2, <1>3, <1>5
<1>8. i * s \in Int /\ k * s \in Int /\ j * s \in Int /\ l * s \in Int
  BY <1>2, <1>3
<1>9. /\ SampleAt(b, s, n) = <<b.rMin + i * s, b.cMin + j * s>>
      /\ SampleAt(b, s, m) = <<b.rMin + k * s, b.cMin + l * s>>
  BY DEF SampleAt, i, j, k, l, cols
<1> DEFINE is == i * s
           ks == k * s
           js == j * s
           ls == l * s
<1>10. /\ is \in Int /\ ks \in Int /\ js \in Int /\ ls \in Int
       /\ (i < k => is < ks) /\ (j < l => js < ls) /\ (i = k => is = ks)
       /\ SampleAt(b, s, n) = <<b.rMin + is, b.cMin + js>>
       /\ SampleAt(b, s, m) = <<b.rMin + ks, b.cMin + ls>>
  BY <1>6, <1>7, <1>8, <1>9
<1> HIDE DEF is, ks, js, ls
<1> QED
  BY <1>4, <1>10 DEF RowMajor, IsBox

\* The selection of a box: its cells that are kept and on the stride, row by row.
IsSelection(cs, q, b, s) ==
  /\ cs \in Seq(BoxCells(b))
  /\ \A c : c \in ToSet(cs) <=> c \in BoxCells(b) /\ Kept(q, c) /\ SampledOf(b, s, c)
  /\ \A m, n \in DOMAIN cs : m < n => RowMajor(cs[m], cs[n])
  /\ Len(cs) <= BoxRows(b, s) * BoxCols(b, s)

\* GatherCells selects exactly the cells that are kept and on the stride, in order.
LEMMA GatherFacts ==
  ASSUME NEW q, NEW b, IsBox(b), HasCells(b), NEW s \in Nat \ {0}
  PROVE  IsSelection(GatherCells(q, b, s), q, b, s)
<1> DEFINE rows == BoxRows(b, s)
           cols == BoxCols(b, s)
           N == rows * cols
           V == BoxCells(b)
           sample == [n \in 1..N |-> SampleAt(b, s, n)]
           K == {c \in V : Kept(q, c)}
           R == {p \in V \X V : RowMajor(p[1], p[2])}
           IsSolution(g) == g = [n \in 0..N |->
             IF n = 0 THEN <<>>
             ELSE IF Kept(q, SampleAt(b, s, n)) THEN Append(g[n - 1], SampleAt(b, s, n)) ELSE g[n - 1]]
           solution == CHOOSE g : IsSolution(g)
<1>1. N \in Nat
  BY BoxSize
<1>2. \A n \in 1..N : SampleAt(b, s, n) \in V /\ SampledOf(b, s, SampleAt(b, s, n))
  BY SampleInBox
<1>3. sample \in [1..N -> V]
  <2> HIDE DEF N, V
  <2> QED
    BY <1>2
<1>4. PICK kept : IsFilter(kept, N, sample, K, V)
  <2> HIDE DEF N, V, sample, K
  <2> QED
    BY <1>1, <1>3, FilterExists
<1>5. \A n \in 1..N : (sample[n] \in K <=> Kept(q, SampleAt(b, s, n))) /\ sample[n] = SampleAt(b, s, n)
  <2> HIDE DEF N, V
  <2> QED
    BY <1>2
<1>6. kept = [n \in 0..N |->
             IF n = 0 THEN <<>>
             ELSE IF Kept(q, SampleAt(b, s, n)) THEN Append(kept[n - 1], SampleAt(b, s, n)) ELSE kept[n - 1]]
  <2> HIDE DEF N, V, sample, K
  <2> DEFINE g == [n \in 0..N |->
             IF n = 0 THEN <<>>
             ELSE IF Kept(q, SampleAt(b, s, n)) THEN Append(kept[n - 1], SampleAt(b, s, n)) ELSE kept[n - 1]]
  <2>1. ASSUME NEW n \in 0..N PROVE kept[n] = g[n]
    <3>1. CASE n = 0
      BY <3>1, <1>4 DEF IsFilter
    <3>2. CASE n # 0
      <4>1. n \in 1..N
        BY <1>1, <3>2
      <4>2. kept[n] = IF sample[n] \in K THEN Append(kept[n - 1], sample[n]) ELSE kept[n - 1]
        BY <1>4, <4>1 DEF IsFilter
      <4> QED
        BY <3>2, <4>1, <4>2, <1>5
    <3> QED
      BY <3>1, <3>2
  <2>2. kept = [n \in 0..N |-> kept[n]]
    BY <1>4 DEF IsFilter
  <2> QED
    BY <2>1, <2>2
<1>7. IsSolution(solution)
  <2>1. IsSolution(kept)
    BY <1>6
  <2> HIDE DEF IsSolution
  <2> QED
    BY <2>1
<1>8. \A n \in 0..N : solution[n] = kept[n]
  <2> DEFINE same == {n \in 0..N : solution[n] = kept[n]}
  <2>1. 0 \in same
    <3>1. 0 \in 0..N
      BY <1>1
    <3>2. solution[0] = <<>>
      <4> HIDE DEF solution, N
      <4> QED
        BY <1>7, <3>1
    <3> QED
      BY <3>1, <3>2, <1>4 DEF IsFilter
  <2>2. ASSUME NEW d \in 1..N, d - 1 \in same PROVE d \in same
    <3> HIDE DEF N
    <3>1. d \in 0..N /\ d # 0
      BY <1>1
    <3>2. solution[d] = IF Kept(q, SampleAt(b, s, d)) THEN Append(solution[d - 1], SampleAt(b, s, d))
                        ELSE solution[d - 1]
      <4> HIDE DEF solution
      <4> QED
        BY <1>7, <3>1
    <3>3. kept[d] = IF Kept(q, SampleAt(b, s, d)) THEN Append(kept[d - 1], SampleAt(b, s, d))
                    ELSE kept[d - 1]
      <4> HIDE DEF sample, K, V
      <4> QED
        BY <1>6, <3>1
    <3>4. solution[d - 1] = kept[d - 1]
      BY <2>2
    <3> QED
      BY <3>1, <3>2, <3>3, <3>4
  <2>3. \A n \in 0..N : n \in same
    <3> HIDE DEF same, N
    <3> QED
      BY <1>1, <2>1, <2>2, IntervalInduction
  <2> QED
    BY <2>3
<1>9. GatherCells(q, b, s) = solution[N]
  BY DEF GatherCells, SampleAt, BoxRows, BoxCols, RowOf, ColOf
<1> DEFINE cs == kept[N]
<1>10. GatherCells(q, b, s) = cs
  <2>1. N \in 0..N
    <3> HIDE DEF N
    <3> QED
      BY <1>1
  <2> QED
    BY <1>8, <1>9, <2>1
<1>11. \A i, j \in 1..N : i < j => <<sample[i], sample[j]>> \in R
  <2> TAKE i, j \in 1..N
  <2> HAVE i < j
  <2>1. RowMajor(SampleAt(b, s, i), SampleAt(b, s, j))
    BY SampleOrder
  <2> HIDE DEF N, V
  <2> QED
    BY <1>2, <2>1
<1>12. IsFiltered(cs, N, sample, K, R)
  <2> HIDE DEF N, V, sample, K, R
  <2> QED
    BY <1>1, <1>3, <1>4, <1>11, FilterFacts
<1>13. cs \in Seq(V)
  <2> HIDE DEF N, V, sample, K
  <2> QED
    BY <1>1, <1>4 DEF IsFilter
<1>14. \A m, n \in DOMAIN cs : m < n => RowMajor(cs[m], cs[n])
  <2>1. \A m, n \in DOMAIN cs : m < n => <<cs[m], cs[n]>> \in R
    BY <1>12 DEF IsFiltered
  <2> HIDE DEF cs
  <2> QED
    BY <2>1
<1>15. ASSUME NEW c PROVE c \in ToSet(cs) <=> c \in BoxCells(b) /\ Kept(q, c) /\ SampledOf(b, s, c)
  <2>1. ASSUME c \in ToSet(cs) PROVE c \in BoxCells(b) /\ Kept(q, c) /\ SampledOf(b, s, c)
    <3>1. PICK m \in DOMAIN cs : c = cs[m]
      BY <2>1 DEF ToSet
    <3>2. PICK i \in 1..N : cs[m] = sample[i] /\ sample[i] \in K
      BY <1>12, <3>1 DEF IsFiltered
    <3> HIDE DEF cs, N, V
    <3> QED
      BY <1>2, <1>5, <3>1, <3>2 DEF V
  <2>2. ASSUME c \in BoxCells(b), Kept(q, c), SampledOf(b, s, c) PROVE c \in ToSet(cs)
    <3>1. PICK i \in 1..N : SampleAt(b, s, i) = c
      BY <2>2, SampleOfCell
    <3>2. sample[i] = c /\ sample[i] \in K
      BY <1>5, <2>2, <3>1
    <3>3. PICK m \in DOMAIN cs : cs[m] = sample[i]
      BY <1>12, <3>2 DEF IsFiltered
    <3> HIDE DEF cs
    <3> QED
      BY <3>2, <3>3 DEF ToSet
  <2> QED
    BY <2>1, <2>2
<1>16. Len(cs) <= N
  <2> HIDE DEF N, V, sample, K
  <2> QED
    BY <1>1, <1>3, <1>4, FilterLength
<1> HIDE DEF cs, V
<1>17. IsSelection(cs, q, b, s)
  BY <1>13, <1>14, <1>15, <1>16 DEF IsSelection, V
<1> QED
  BY <1>10, <1>17

------------------------------------------------------------------------------
(* Ranges of axes *)

\* A set of the first numbers ends somewhere.
LEMMA PrefixEnds ==
  ASSUME NEW n \in Nat, NEW S, \A i, j \in 0..(n - 1) : i < j /\ j \in S => i \in S
  PROVE  \E cut \in 0..n : \A m \in 0..(n - 1) : m \in S <=> m < cut
<1> DEFINE T == {m \in 0..n : m = n \/ m \notin S}
<1>1. T \in SUBSET Nat /\ n \in T
  OBVIOUS
<1>2. PICK cut \in T : \A m \in T : cut <= m
  <2> HIDE DEF T
  <2> QED
    BY <1>1, LeastNumber
<1>3. cut \in 0..n
  OBVIOUS
<1>4. ASSUME NEW m \in 0..(n - 1) PROVE m \in S <=> m < cut
  <2>1. m \notin S => cut <= m
    <3>1. m \notin S => m \in T
      OBVIOUS
    <3> HIDE DEF T
    <3> QED
      BY <1>2, <3>1
  <2>2. m \in S => m < cut
    <3> SUFFICES ASSUME m \in S, cut <= m PROVE FALSE
      BY <1>3
    <3>1. cut \notin S /\ cut \in 0..(n - 1)
      BY <1>3
    <3>2. cut < m
      BY <1>3, <3>1
    <3> HIDE DEF T
    <3> QED
      BY <3>1, <3>2
  <2> QED
    BY <1>3, <2>1, <2>2
<1> QED
  BY <1>3, <1>4

\* The search for the end of such a set finds it.
LEMMA PrefixSearch ==
  ASSUME NEW n \in Nat, NEW S, \A i, j \in 0..(n - 1) : i < j /\ j \in S => i \in S
  PROVE  Bisect(0, n, S) \in 0..n /\ \A m \in 0..(n - 1) : m \in S <=> m < Bisect(0, n, S)
<1>1. PICK cut \in 0..n : \A m \in 0..(n - 1) : m \in S <=> m < cut
  BY PrefixEnds
<1>2. Bisect(0, n, S) = cut
  <2>1. 0 \in Int /\ n \in Int /\ 0 <= n
    OBVIOUS
  <2> QED
    BY <1>1, <2>1, BisectFinds
<1> QED
  BY <1>1, <1>2

\* The length of an axis.
LEMMA AxisSize ==
  ASSUME NEW n \in Nat, NEW axis, IsAxis(axis, n)
  PROVE  Size(axis) = n /\ DOMAIN axis = 0..(n - 1) /\ \A i \in 0..(n - 1) : axis[i] \in Int
<1>1. Cardinality(0..(n - 1)) = n
  <2>1. 0 \in Int /\ n - 1 \in Int
    OBVIOUS
  <2>2. Cardinality(0..(n - 1)) = IF 0 > n - 1 THEN 0 ELSE n - 1 - 0 + 1
    BY <2>1, FS_Interval
  <2> QED
    BY <2>2
<1> QED
  BY <1>1 DEF Size, IsAxis

Rising(axis, n) == \A i, j \in 0..(n - 1) : i < j => axis[i] <= axis[j]
Falling(axis, n) == \A i, j \in 0..(n - 1) : i < j => axis[i] >= axis[j]

\* A monotonic axis runs in the direction from its first coordinate to its last.
LEMMA AxisDirection ==
  ASSUME NEW n \in Nat \ {0}, NEW axis, IsAxis(axis, n), Monotonic(axis)
  PROVE  IF axis[n - 1] >= axis[0] THEN Rising(axis, n) ELSE Falling(axis, n)
<1>1. DOMAIN axis = 0..(n - 1) /\ \A i \in 0..(n - 1) : axis[i] \in Int
  BY AxisSize
<1>2. 0 \in 0..(n - 1) /\ n - 1 \in 0..(n - 1)
  OBVIOUS
<1>3. Rising(axis, n) \/ Falling(axis, n)
  BY <1>1 DEF Monotonic, Rising, Falling
<1>4. CASE Rising(axis, n) /\ ~(axis[n - 1] >= axis[0])
  <2>1. n - 1 = 0 \/ 0 < n - 1
    OBVIOUS
  <2> QED
    BY <1>1, <1>2, <1>4, <2>1 DEF Rising
<1>5. CASE Falling(axis, n) /\ axis[n - 1] >= axis[0]
  <2>1. ASSUME NEW i \in 0..(n - 1) PROVE axis[i] = axis[0]
    <3>1. i = 0 \/ 0 < i
      OBVIOUS
    <3>2. axis[i] <= axis[0]
      BY <1>1, <1>2, <1>5, <3>1 DEF Falling
    <3>3. i = n - 1 \/ i < n - 1
      OBVIOUS
    <3>4. axis[n - 1] <= axis[i]
      BY <1>1, <1>2, <1>5, <3>3 DEF Falling
    <3> QED
      BY <1>1, <1>2, <1>5, <3>2, <3>4
  <2>2. Rising(axis, n)
    BY <1>1, <1>2, <2>1 DEF Rising
  <2> QED
    BY <1>5, <2>2
<1> QED
  BY <1>3, <1>4, <1>5

\* r is a range within 0..n with the members of S.
IsRangeOf(r, n, S) ==
  r \in Nat \X Nat /\ r[2] <= n /\ \A i \in S : r[1] <= i /\ i < r[2]

\* A range that may be empty.
LEMMA IntervalHolds ==
  ASSUME NEW n \in Nat, NEW x \in 0..n, NEW y \in 0..n, NEW S, S \subseteq Int,
         \A i \in S : x <= i /\ i < y
  PROVE  IsRangeOf(Interval(x, y), n, S)
<1>1. \A i \in S : i \in Int
  OBVIOUS
<1>2. CASE x >= y
  <2>1. Interval(x, y) = <<0, 0>> /\ S = {}
    BY <1>1, <1>2 DEF Interval
  <2> QED
    BY <2>1 DEF IsRangeOf
<1>3. CASE x < y
  <2>1. Interval(x, y) = <<x, y>>
    BY <1>3 DEF Interval
  <2> QED
    BY <2>1 DEF IsRangeOf
<1> QED
  BY <1>2, <1>3

\* The range has every index whose coordinate is within the bounds.
LEMMA AxisRangeHolds ==
  ASSUME NEW n \in Nat, NEW axis, IsAxis(axis, n), Monotonic(axis), NEW b \in Int \X Int
  PROVE  IsRangeOf(AxisRange(axis, b), n, {i \in 0..(n - 1) : Within(axis[i], b)})
<1> DEFINE I == 0..(n - 1)
           S == {i \in I : Within(axis[i], b)}
           past   == {m \in I : axis[m] < b[1]}
           upTo   == {m \in I : axis[m] <= b[2]}
           after  == {m \in I : axis[m] > b[2]}
           downTo == {m \in I : axis[m] >= b[1]}
<1>1. Size(axis) = n /\ DOMAIN axis = I /\ \A i \in I : axis[i] \in Int
  BY AxisSize
<1>2. b[1] \in Int /\ b[2] \in Int
  OBVIOUS
<1>3. S \subseteq Int /\ \A i \in S : i \in I /\ b[1] <= axis[i] /\ axis[i] <= b[2]
  BY DEF Within
<1>4. CASE n = 0
  <2>1. AxisRange(axis, b) = <<0, 0>> /\ S = {}
    BY <1>1, <1>4 DEF AxisRange
  <2> QED
    BY <1>4, <2>1 DEF IsRangeOf
<1>5. CASE n # 0 /\ axis[n - 1] >= axis[0]
  <2>1. Rising(axis, n)
    BY <1>5, AxisDirection
  <2>2. AxisRange(axis, b) = Interval(Bisect(0, n, past), Bisect(0, n, upTo))
    BY <1>1, <1>5 DEF AxisRange
  <2>3. \A i, j \in I : i < j /\ j \in past => i \in past
    BY <1>1, <1>2, <2>1 DEF Rising
  <2>4. \A i, j \in I : i < j /\ j \in upTo => i \in upTo
    BY <1>1, <1>2, <2>1 DEF Rising
  <2>5. \A i \in S : i \notin past /\ i \in upTo
    BY <1>1, <1>2, <1>3
  <2> HIDE DEF past, upTo, S
  <2>6. Bisect(0, n, past) \in 0..n /\ \A m \in I : m \in past <=> m < Bisect(0, n, past)
    BY <2>3, PrefixSearch
  <2>7. Bisect(0, n, upTo) \in 0..n /\ \A m \in I : m \in upTo <=> m < Bisect(0, n, upTo)
    BY <2>4, PrefixSearch
  <2>8. \A i \in S : Bisect(0, n, past) <= i /\ i < Bisect(0, n, upTo)
    BY <1>3, <2>5, <2>6, <2>7
  <2>9. IsRangeOf(Interval(Bisect(0, n, past), Bisect(0, n, upTo)), n, S)
    BY <1>3, <2>6, <2>7, <2>8, IntervalHolds
  <2> QED
    BY <2>2, <2>9 DEF S
<1>6. CASE n # 0 /\ ~(axis[n - 1] >= axis[0])
  <2>1. Falling(axis, n)
    BY <1>6, AxisDirection
  <2>2. AxisRange(axis, b) = Interval(Bisect(0, n, after), Bisect(0, n, downTo))
    BY <1>1, <1>6 DEF AxisRange
  <2>3. \A i, j \in I : i < j /\ j \in after => i \in after
    BY <1>1, <1>2, <2>1 DEF Falling
  <2>4. \A i, j \in I : i < j /\ j \in downTo => i \in downTo
    BY <1>1, <1>2, <2>1 DEF Falling
  <2>5. \A i \in S : i \notin after /\ i \in downTo
    BY <1>1, <1>2, <1>3
  <2> HIDE DEF after, downTo, S
  <2>6. Bisect(0, n, after) \in 0..n /\ \A m \in I : m \in after <=> m < Bisect(0, n, after)
    BY <2>3, PrefixSearch
  <2>7. Bisect(0, n, downTo) \in 0..n /\ \A m \in I : m \in downTo <=> m < Bisect(0, n, downTo)
    BY <2>4, PrefixSearch
  <2>8. \A i \in S : Bisect(0, n, after) <= i /\ i < Bisect(0, n, downTo)
    BY <1>3, <2>5, <2>6, <2>7
  <2>9. IsRangeOf(Interval(Bisect(0, n, after), Bisect(0, n, downTo)), n, S)
    BY <1>3, <2>6, <2>7, <2>8, IntervalHolds
  <2> QED
    BY <2>2, <2>9 DEF S
<1> QED
  BY <1>4, <1>5, <1>6

\* The least range around some numbers.
LEMMA SpanIsRange ==
  ASSUME NEW n \in Nat, NEW S \in SUBSET (0..(n - 1)), S # {}
  PROVE  IsRangeOf(<<Min(S), Max(S) + 1>>, n, S)
<1>1. IsFiniteSet(S)
  <2>1. IsFiniteSet(0..(n - 1))
    BY FS_Interval
  <2> QED
    BY <2>1, FS_Subset
<1>2. S \subseteq Int
  OBVIOUS
<1>3. /\ Min(S) \in S /\ Max(S) \in S
      /\ \A x \in S : Within(x, Span(S))
      /\ Span(S) \in Int \X Int /\ Span(S)[1] = Min(S) /\ Span(S)[2] = Max(S)
      /\ Span(S)[1] <= Span(S)[2]
  BY <1>1, <1>2, SpanFacts
<1>4. \A x \in S : x \in Int /\ 0 <= x /\ x < n
  OBVIOUS
<1>5. \A x \in S : Min(S) <= x /\ x <= Max(S)
  BY <1>3 DEF Within
<1> QED
  BY <1>3, <1>4, <1>5 DEF IsRangeOf

\* The range of footprints has every index whose footprint overlaps the bounds.
LEMMA AxisFootprintRangeHolds ==
  ASSUME NEW n \in Nat, NEW axis, IsAxis(axis, n), NEW b
  PROVE  IsRangeOf(AxisFootprintRange(axis, b), n,
                   {i \in 0..(n - 1) : Overlap(AxisCellSpan(axis, i), b)})
<1> DEFINE S == {i \in 0..(n - 1) : Overlap(AxisCellSpan(axis, i), b)}
<1>1. AxisFootprintRange(axis, b) = IF S = {} THEN <<0, 0>> ELSE <<Min(S), Max(S) + 1>>
  BY AxisSize DEF AxisFootprintRange
<1>2. S \in SUBSET (0..(n - 1))
  OBVIOUS
<1> HIDE DEF S
<1>3. CASE S = {}
  BY <1>1, <1>3 DEF IsRangeOf, S
<1>4. CASE S # {}
  <2>1. IsRangeOf(<<Min(S), Max(S) + 1>>, n, S)
    BY <1>2, <1>4, SpanIsRange
  <2> QED
    BY <1>1, <1>4, <2>1 DEF S
<1> QED
  BY <1>3, <1>4

\* On a monotonic axis a coordinate lies in the span of its cell.
LEMMA CentreInSpan ==
  ASSUME NEW n \in Nat, NEW axis, IsAxis(axis, n), NEW i \in 0..(n - 1)
  PROVE  /\ AxisCellSpan(axis, i) \in Int \X Int
         /\ AxisCellSpan(axis, i)[1] <= AxisCellSpan(axis, i)[2]
         /\ Monotonic(axis) => Within(axis[i], AxisCellSpan(axis, i))
<1> DEFINE v == axis[i]
           low == IF i > 0 THEN (v + axis[i - 1]) \div 2
                  ELSE IF n > 1 THEN v - (axis[1] - axis[0]) \div 2 ELSE v
           high == IF i < n - 1 THEN (v + axis[i + 1]) \div 2
                   ELSE IF n > 1 THEN v + (axis[n - 1] - axis[n - 2]) \div 2 ELSE v
<1>1. Size(axis) = n /\ DOMAIN axis = 0..(n - 1) /\ \A j \in 0..(n - 1) : axis[j] \in Int
  BY AxisSize
<1>2. AxisCellSpan(axis, i) = Span({low, high})
  BY <1>1 DEF AxisCellSpan
<1>3. /\ i > 0 => i - 1 \in 0..(n - 1)
      /\ i < n - 1 => i + 1 \in 0..(n - 1)
      /\ n > 1 => 0 \in 0..(n - 1) /\ 1 \in 0..(n - 1) /\ n - 1 \in 0..(n - 1) /\ n - 2 \in 0..(n - 1)
  OBVIOUS
<1>4. v \in Int /\ low \in Int /\ high \in Int
  <2>1. v \in Int
    BY <1>1
  <2>2. low \in Int
    <3>1. /\ i > 0 => axis[i - 1] \in Int
          /\ n > 1 => axis[0] \in Int /\ axis[1] \in Int
      BY <1>1, <1>3
    <3> HIDE DEF v
    <3> QED
      BY <2>1, <3>1
  <2>3. high \in Int
    <3>1. /\ i < n - 1 => axis[i + 1] \in Int
          /\ n > 1 => axis[n - 1] \in Int /\ axis[n - 2] \in Int
      BY <1>1, <1>3
    <3> HIDE DEF v
    <3> QED
      BY <2>1, <3>1
  <2> QED
    BY <2>1, <2>2, <2>3
<1>5. Monotonic(axis) => (low <= v /\ v <= high) \/ (high <= v /\ v <= low)
  <2>1. CASE Rising(axis, n)
    <3>1. low <= v
      <4>1. CASE i > 0
        <5>1. axis[i - 1] <= v /\ axis[i - 1] \in Int
          BY <1>1, <1>3, <2>1, <4>1 DEF Rising
        <5> QED
          BY <1>4, <4>1, <5>1
      <4>2. CASE ~(i > 0) /\ n > 1
        <5>1. axis[0] <= axis[1] /\ axis[0] \in Int /\ axis[1] \in Int
          BY <1>1, <1>3, <2>1, <4>2 DEF Rising
        <5> QED
          BY <1>4, <4>2, <5>1
      <4>3. CASE ~(i > 0) /\ ~(n > 1)
        BY <1>4, <4>3
      <4> QED
        BY <4>1, <4>2, <4>3
    <3>2. v <= high
      <4>1. CASE i < n - 1
        <5>1. v <= axis[i + 1] /\ axis[i + 1] \in Int
          BY <1>1, <1>3, <2>1, <4>1 DEF Rising
        <5> QED
          BY <1>4, <4>1, <5>1
      <4>2. CASE ~(i < n - 1) /\ n > 1
        <5>1. axis[n - 2] <= axis[n - 1] /\ axis[n - 2] \in Int /\ axis[n - 1] \in Int
          <6>1. n - 2 < n - 1
            OBVIOUS
          <6> QED
            BY <1>1, <1>3, <2>1, <4>2, <6>1 DEF Rising
        <5> QED
          BY <1>4, <4>2, <5>1
      <4>3. CASE ~(i < n - 1) /\ ~(n > 1)
        BY <1>4, <4>3
      <4> QED
        BY <4>1, <4>2, <4>3
    <3> QED
      BY <3>1, <3>2
  <2>2. CASE Falling(axis, n)
    <3>1. low >= v
      <4>1. CASE i > 0
        <5>1. axis[i - 1] >= v /\ axis[i - 1] \in Int
          BY <1>1, <1>3, <2>2, <4>1 DEF Falling
        <5> QED
          BY <1>4, <4>1, <5>1
      <4>2. CASE ~(i > 0) /\ n > 1
        <5>1. axis[0] >= axis[1] /\ axis[0] \in Int /\ axis[1] \in Int
          BY <1>1, <1>3, <2>2, <4>2 DEF Falling
        <5> QED
          BY <1>4, <4>2, <5>1
      <4>3. CASE ~(i > 0) /\ ~(n > 1)
        BY <1>4, <4>3
      <4> QED
        BY <4>1, <4>2, <4>3
    <3>2. v >= high
      <4>1. CASE i < n - 1
        <5>1. v >= axis[i + 1] /\ axis[i + 1] \in Int
          BY <1>1, <1>3, <2>2, <4>1 DEF Falling
        <5> QED
          BY <1>4, <4>1, <5>1
      <4>2. CASE ~(i < n - 1) /\ n > 1
        <5>1. axis[n - 2] >= axis[n - 1] /\ axis[n - 2] \in Int /\ axis[n - 1] \in Int
          <6>1. n - 2 < n - 1
            OBVIOUS
          <6> QED
            BY <1>1, <1>3, <2>2, <4>2, <6>1 DEF Falling
        <5> QED
          BY <1>4, <4>2, <5>1
      <4>3. CASE ~(i < n - 1) /\ ~(n > 1)
        BY <1>4, <4>3
      <4> QED
        BY <4>1, <4>2, <4>3
    <3> QED
      BY <3>1, <3>2
  <2> QED
    BY <1>1, <2>1, <2>2 DEF Monotonic, Rising, Falling
<1> HIDE DEF low, high, v
<1>6. /\ Span({low, high}) \in Int \X Int /\ Span({low, high})[1] <= Span({low, high})[2]
      /\ \A z \in Int : Within(z, Span({low, high})) <=> (low <= z /\ z <= high) \/ (high <= z /\ z <= low)
  BY <1>4, SpanOfTwo
<1> QED
  BY <1>2, <1>4, <1>5, <1>6 DEF v

------------------------------------------------------------------------------
(* Rings *)

IsRing(ring) == ring \in Seq(Int \X Int) /\ Len(ring) > 0

\* The vertices of a ring, and the one before each.
LEMMA RingFacts ==
  ASSUME NEW ring, IsRing(ring)
  PROVE  /\ Len(ring) \in Nat \ {0} /\ DOMAIN ring = 1..Len(ring)
         /\ \A n \in 1..Len(ring) : /\ ring[n] \in Int \X Int
                                    /\ Before(n, Len(ring)) \in 1..Len(ring)
                                    /\ Previous(ring, n) = ring[Before(n, Len(ring))]
                                    /\ Previous(ring, n) \in Int \X Int
<1>1. Len(ring) \in Nat \ {0} /\ DOMAIN ring = 1..Len(ring)
  BY DEF IsRing
<1>2. \A n \in 1..Len(ring) : ring[n] \in Int \X Int
  BY <1>1 DEF IsRing
<1>3. ASSUME NEW n \in 1..Len(ring)
      PROVE  Before(n, Len(ring)) \in 1..Len(ring) /\ Previous(ring, n) = ring[Before(n, Len(ring))]
  BY <1>1 DEF Before, Previous
<1> QED
  BY <1>1, <1>2, <1>3

\* The coordinates of the vertices are finitely many.
LEMMA ImageFinite ==
  ASSUME NEW S, IsFiniteSet(S), NEW f, DOMAIN f = S, f = [x \in S |-> f[x]]
  PROVE  IsFiniteSet({f[x] : x \in S})
<1> DEFINE T == {f[x] : x \in S}
<1>1. f \in [S -> T]
  OBVIOUS
<1>2. \A t \in T : \E x \in S : f[x] = t
  OBVIOUS
<1>3. f \in Surjection(S, T)
  BY <1>1, <1>2, Fun_IsSurj
<1> HIDE DEF T
<1>4. IsFiniteSet(T)
  BY <1>3, FS_Surjection
<1> QED
  BY <1>4 DEF T

\* The vertices of a ring lie within its envelope.
LEMMA VertexInEnvelope ==
  ASSUME NEW ring, IsRing(ring), NEW n \in 1..Len(ring)
  PROVE  /\ PolygonEnvelope(ring) \in (Int \X Int) \X (Int \X Int)
         /\ Within(ring[n][1], PolygonEnvelope(ring)[1])
         /\ Within(ring[n][2], PolygonEnvelope(ring)[2])
<1> DEFINE V == ToSet(ring)
           S(d) == {v[d] : v \in V}
<1>1. \A m \in DOMAIN ring : ring[m] \in Int \X Int
  BY RingFacts
<1>2. ring[n] \in V /\ \A v \in V : v \in Int \X Int
  BY <1>1, RingFacts DEF ToSet
<1>3. IsFiniteSet(V)
  <2>1. IsFiniteSet(1..Len(ring))
    BY RingFacts, FS_Interval
  <2>2. V = {ring[m] : m \in 1..Len(ring)}
    BY RingFacts DEF ToSet
  <2>3. DOMAIN ring = 1..Len(ring) /\ ring = [m \in 1..Len(ring) |-> ring[m]]
    BY RingFacts DEF IsRing
  <2> HIDE DEF V
  <2> QED
    BY <2>1, <2>2, <2>3, ImageFinite
<1> HIDE DEF V
<1>4. ASSUME NEW d \in {1, 2}
      PROVE  Span(S(d)) \in Int \X Int /\ Within(ring[n][d], Span(S(d)))
  <2>1. IsFiniteSet(S(d))
    <3> DEFINE f == [v \in V |-> v[d]]
    <3>1. DOMAIN f = V /\ f = [v \in V |-> f[v]]
      OBVIOUS
    <3>2. S(d) = {f[v] : v \in V}
      OBVIOUS
    <3> HIDE DEF f, S
    <3> QED
      BY <1>3, <3>1, <3>2, ImageFinite
  <2>2. ring[n][d] \in S(d)
    BY <1>2
  <2>3. S(d) \subseteq Int
    <3>1. \A v \in V : v[d] \in Int
      BY <1>2
    <3> QED
      BY <3>1
  <2>4. S(d) # {}
    BY <2>2
  <2> DEFINE T == S(d)
  <2>5. T \subseteq Int /\ IsFiniteSet(T) /\ T # {} /\ ring[n][d] \in T
    BY <2>1, <2>2, <2>3, <2>4
  <2> HIDE DEF T, S
  <2>6. /\ Min(T) \in T /\ Max(T) \in T
        /\ \A x \in T : Within(x, Span(T))
        /\ Span(T) \in Int \X Int /\ Span(T)[1] = Min(T) /\ Span(T)[2] = Max(T)
        /\ Span(T)[1] <= Span(T)[2]
    BY <2>5, SpanFacts
  <2>7. Span(T) \in Int \X Int /\ Within(ring[n][d], Span(T))
    BY <2>5, <2>6
  <2> QED
    BY <2>7 DEF T
<1>5. PolygonEnvelope(ring) = <<Span(S(1)), Span(S(2))>>
  BY DEF PolygonEnvelope, V
<1>6. Span(S(1)) \in Int \X Int /\ Within(ring[n][1], Span(S(1)))
  BY <1>4
<1>7. Span(S(2)) \in Int \X Int /\ Within(ring[n][2], Span(S(2)))
  BY <1>4
<1> HIDE DEF S
<1> QED
  BY <1>5, <1>6, <1>7

\* Multiplication by a number that is not negative, or positive, keeps the order.
LEMMA TimesNat ==
  ASSUME NEW x \in Int, NEW y \in Int, NEW u \in Nat
  PROVE  /\ x * u \in Int /\ y * u \in Int
         /\ x <= y => x * u <= y * u
         /\ (x < y /\ u > 0) => x * u < y * u
<1>1. ASSUME x <= y PROVE x * u <= y * u
  <2> DEFINE e == y - x
             eu == e * u
             xu == x * u
             yu == y * u
  <2>1. e \in Nat /\ y = x + e
    BY <1>1
  <2> HIDE DEF e
  <2>2. eu \in Nat /\ xu \in Int /\ yu = xu + eu
    BY <2>1
  <2> HIDE DEF eu, xu, yu
  <2>3. xu <= yu
    BY <2>2
  <2> QED
    BY <2>3 DEF xu, yu
<1>2. ASSUME x < y, u > 0 PROVE x * u < y * u
  <2> DEFINE e == y - x - 1
             eu == e * u
             xu == x * u
             yu == y * u
  <2>1. e \in Nat /\ y = x + 1 + e
    BY <1>2
  <2> HIDE DEF e
  <2>2. eu \in Nat /\ xu \in Int /\ yu = xu + u + eu
    BY <2>1
  <2> HIDE DEF eu, xu, yu
  <2>3. xu < yu
    BY <1>2, <2>2
  <2> QED
    BY <2>3 DEF xu, yu
<1> QED
  BY <1>1, <1>2

\* A segment that straddles the latitude of p crosses the ray from p if both ends are
\* beyond p, and does not if neither is.
LEMMA CrossesBeyond ==
  ASSUME NEW p \in Int \X Int, NEW a \in Int \X Int, NEW b \in Int \X Int
  PROVE  /\ (a[1] > p[1]) # (b[1] > p[1]) /\ p[2] < a[2] /\ p[2] < b[2] => Crosses(p, a, b)
         /\ a[2] <= p[2] /\ b[2] <= p[2] => ~Crosses(p, a, b)
<1> DEFINE u == p[2] - a[2]
           w == b[2] - a[2]
           rise == b[1] - a[1]
           up == p[1] - a[1]
           U == u * rise
           W == w * up
           M == u * up
           D == u * (rise - up)
<1>1. u \in Int /\ w \in Int /\ rise \in Int /\ up \in Int
  OBVIOUS
<1>2. U \in Int /\ W \in Int /\ M \in Int /\ D \in Int /\ U = M + D
  OBVIOUS
<1>3. Crosses(p, a, b) <=> /\ (a[1] > p[1]) # (b[1] > p[1])
                           /\ IF rise > 0 THEN U < W ELSE U > W
  BY DEF Crosses
<1>4. (a[1] > p[1]) # (b[1] > p[1]) =>
         (rise > 0 /\ 0 <= up /\ up < rise) \/ (rise < 0 /\ up < 0 /\ rise <= up)
  OBVIOUS
<1>5. \A x, y \in Int : \A z \in Nat : x <= y => x * z <= y * z
  BY TimesNat
<1>6. \A x, y \in Int : \A z \in Nat : x < y /\ z > 0 => x * z < y * z
  BY TimesNat
<1>7. \A x, y, z \in Int : x <= y /\ z <= 0 => y * z <= x * z
  <2> TAKE x, y, z \in Int
  <2> HAVE x <= y /\ z <= 0
  <2>1. -z \in Nat
    OBVIOUS
  <2>2. x * (-z) <= y * (-z)
    BY <1>5, <2>1
  <2>3. x * (-z) = -(x * z) /\ y * (-z) = -(y * z) /\ x * z \in Int /\ y * z \in Int
    OBVIOUS
  <2> DEFINE xz == x * z
             yz == y * z
  <2>4. -xz <= -yz /\ xz \in Int /\ yz \in Int
    BY <2>2, <2>3
  <2> HIDE DEF xz, yz
  <2>5. yz <= xz
    BY <2>4
  <2> QED
    BY <2>5 DEF xz, yz
<1>8. \A x, z \in Int : x <= 0 /\ z <= 0 => x * z >= 0
  <2> TAKE x, z \in Int
  <2> HAVE x <= 0 /\ z <= 0
  <2>1. 0 * z <= x * z
    BY <1>7
  <2> QED
    BY <2>1
<1>9. ASSUME (a[1] > p[1]) # (b[1] > p[1]), u < 0, u < w PROVE Crosses(p, a, b)
  <2>1. CASE rise > 0 /\ 0 <= up /\ up < rise
    <3>1. M <= W
      <4>1. up \in Nat /\ u <= w
        BY <1>1, <1>9, <2>1
      <4> HIDE DEF u, w, up
      <4> QED
        BY <1>1, <1>5, <4>1
    <3>2. D < 0
      <4> DEFINE e == rise - up
      <4>1. e \in Nat /\ e > 0
        BY <1>1, <2>1
      <4> HIDE DEF e, u
      <4>2. u * e < 0 * e
        BY <1>1, <1>6, <1>9, <4>1
      <4> QED
        BY <4>1, <4>2 DEF e
    <3> HIDE DEF U, W, M, D, rise
    <3> QED
      BY <1>2, <1>3, <1>9, <2>1, <3>1, <3>2
  <2>2. CASE rise < 0 /\ up < 0 /\ rise <= up
    <3>1. M > W
      <4> DEFINE e == -up
      <4>1. e \in Nat /\ e > 0 /\ up = -e
        BY <1>1, <2>2
      <4> HIDE DEF e, u, w, up
      <4>2. u * e < w * e
        BY <1>1, <1>6, <1>9, <4>1
      <4>3. M = -(u * e) /\ W = -(w * e) /\ u * e \in Int /\ w * e \in Int
        BY <1>1, <4>1
      <4> DEFINE ue == u * e
                 we == w * e
      <4>4. ue < we /\ M = -ue /\ W = -we /\ ue \in Int /\ we \in Int
        BY <4>2, <4>3
      <4> HIDE DEF ue, we, M, W
      <4> QED
        BY <4>4
    <3>2. D >= 0
      <4> DEFINE e == rise - up
      <4>1. e \in Int /\ e <= 0
        BY <1>1, <2>2
      <4> HIDE DEF e, u
      <4>2. u * e >= 0
        BY <1>1, <1>8, <1>9, <4>1
      <4> QED
        BY <4>2 DEF e
    <3> HIDE DEF U, W, M, D, rise
    <3>3. ~(rise > 0)
      BY <1>1, <2>2
    <3> QED
      BY <1>2, <1>3, <1>9, <3>1, <3>2, <3>3
  <2> HIDE DEF U, W, M, D, rise, up, u, w
  <2> QED
    BY <1>4, <1>9, <2>1, <2>2
<1>10. ASSUME (a[1] > p[1]) # (b[1] > p[1]), u >= 0, u >= w PROVE ~Crosses(p, a, b)
  <2>1. CASE rise > 0 /\ 0 <= up /\ up < rise
    <3>1. M >= W
      <4>1. up \in Nat /\ w <= u
        BY <1>1, <1>10, <2>1
      <4> HIDE DEF u, w, up
      <4> QED
        BY <1>1, <1>5, <4>1
    <3>2. D >= 0
      <4> DEFINE e == rise - up
      <4>1. e \in Nat
        BY <1>1, <2>1
      <4> HIDE DEF e, u
      <4>2. 0 * e <= u * e
        BY <1>1, <1>5, <1>10, <4>1
      <4> QED
        BY <4>1, <4>2 DEF e
    <3> HIDE DEF U, W, M, D, rise
    <3> QED
      BY <1>2, <1>3, <1>10, <2>1, <3>1, <3>2
  <2>2. CASE rise < 0 /\ up < 0 /\ rise <= up
    <3>1. M <= W
      <4>1. up \in Int /\ up <= 0
        BY <1>1, <2>2
      <4> HIDE DEF u, w, up
      <4> QED
        BY <1>1, <1>7, <1>10, <4>1
    <3>2. D <= 0
      <4> DEFINE e == rise - up
      <4>1. e \in Int /\ e <= 0
        BY <1>1, <2>2
      <4> HIDE DEF e, u
      <4>2. u * e <= 0 * e
        BY <1>1, <1>7, <1>10, <4>1
      <4> QED
        BY <4>1, <4>2 DEF e
    <3>3. ~(rise > 0)
      BY <1>1, <2>2
    <3> HIDE DEF U, W, M, D, rise
    <3> QED
      BY <1>2, <1>3, <1>10, <3>1, <3>2, <3>3
  <2> HIDE DEF U, W, M, D, rise, up, u, w
  <2> QED
    BY <1>4, <1>10, <2>1, <2>2
<1>11. ~((a[1] > p[1]) # (b[1] > p[1])) => ~Crosses(p, a, b)
  BY <1>3
<1>12. (p[2] < a[2] => u < 0) /\ (p[2] < b[2] => u < w) /\ (a[2] <= p[2] => u >= 0) /\ (b[2] <= p[2] => u >= w)
  OBVIOUS
<1> HIDE DEF u, w
<1> QED
  BY <1>9, <1>10, <1>11, <1>12

Crossing(p, ring) == {n \in DOMAIN ring : Crosses(p, ring[n], Previous(ring, n))}

\* On which side of a value the ends of the edges of a ring lie.
Above(ring, d, x) == {n \in 1..Len(ring) : ring[n][d] > x}
AboveBefore(ring, d, x) == {n \in 1..Len(ring) : Previous(ring, n)[d] > x}

\* An even number of edges leads from one side of a value to the other.
LEMMA StraddlesEven ==
  ASSUME NEW ring, IsRing(ring), NEW d, NEW x
  PROVE  ~Odd(Differ(Above(ring, d, x), AboveBefore(ring, d, x), 1..Len(ring)))
<1> DEFINE k == Len(ring)
           P == Above(ring, d, x)
<1>1. k \in Nat \ {0} /\ P \in SUBSET (1..k)
  BY RingFacts DEF Above
<1>2. AboveBefore(ring, d, x) = {n \in 1..k : Before(n, k) \in P}
  <2>1. ASSUME NEW n \in 1..k PROVE Previous(ring, n)[d] > x <=> Before(n, k) \in P
    <3>1. Before(n, k) \in 1..k /\ Previous(ring, n) = ring[Before(n, k)]
      BY RingFacts
    <3> QED
      BY <3>1 DEF Above
  <2> HIDE DEF P, k
  <2> QED
    BY <2>1 DEF AboveBefore, k
<1> HIDE DEF P, k
<1>3. ~Odd(Differ(P, {n \in 1..k : Before(n, k) \in P}, 1..k))
  BY <1>1, ChangesEven
<1> QED
  BY <1>2, <1>3 DEF P, k

\* A point in the polygon is within the envelope.
LEMMA InsideEnvelope ==
  ASSUME NEW ring, IsRing(ring), NEW p \in Int \X Int, PointInPolygon(p, ring)
  PROVE  /\ Within(p[1], PolygonEnvelope(ring)[1])
         /\ Within(p[2], PolygonEnvelope(ring)[2])
<1> DEFINE env == PolygonEnvelope(ring)
           k == Len(ring)
           C == Crossing(p, ring)
<1>1. Odd(C)
  BY DEF PointInPolygon, Odd, Crossing
<1>2. DOMAIN ring = 1..k
  BY RingFacts
<1>3. C # {}
  <2> HIDE DEF C
  <2> QED
    BY <1>1, OddMembers
<1>4. PICK n \in 1..k : Crosses(p, ring[n], Previous(ring, n))
  BY <1>2, <1>3 DEF Crossing
<1>5. \A m \in 1..k : /\ ring[m] \in Int \X Int /\ Previous(ring, m) \in Int \X Int
                      /\ Before(m, k) \in 1..k /\ Previous(ring, m) = ring[Before(m, k)]
  BY RingFacts
<1>6. /\ env[1][1] \in Int /\ env[1][2] \in Int /\ env[2][1] \in Int /\ env[2][2] \in Int
      /\ \A m \in 1..k : /\ env[1][1] <= ring[m][1] /\ ring[m][1] <= env[1][2]
                         /\ env[2][1] <= ring[m][2] /\ ring[m][2] <= env[2][2]
  <2>1. \A m \in 1..k : /\ env \in (Int \X Int) \X (Int \X Int)
                        /\ Within(ring[m][1], env[1]) /\ Within(ring[m][2], env[2])
    BY VertexInEnvelope
  <2> HIDE DEF env
  <2> QED
    BY <1>4, <2>1 DEF Within
<1>7. \A m \in 1..k : /\ env[1][1] <= Previous(ring, m)[1] /\ Previous(ring, m)[1] <= env[1][2]
                      /\ env[2][1] <= Previous(ring, m)[2] /\ Previous(ring, m)[2] <= env[2][2]
  <2> HIDE DEF env
  <2> QED
    BY <1>5, <1>6
<1> HIDE DEF env
<1>8. (ring[n][1] > p[1]) # (Previous(ring, n)[1] > p[1])
  BY <1>4 DEF Crosses
<1>9. p[1] \in Int /\ p[2] \in Int /\ ring[n][1] \in Int /\ Previous(ring, n)[1] \in Int
      /\ ring[n][2] \in Int /\ Previous(ring, n)[2] \in Int
  BY <1>5
<1>10. env[1][1] <= p[1] /\ p[1] <= env[1][2]
  <2> DEFINE a == ring[n][1]
             b == Previous(ring, n)[1]
             x == p[1]
             low == env[1][1]
             high == env[1][2]
  <2>1. low <= a /\ a <= high /\ low <= b /\ b <= high
    BY <1>6, <1>7
  <2>2. a \in Int /\ b \in Int /\ x \in Int /\ low \in Int /\ high \in Int /\ (a > x) # (b > x)
    BY <1>6, <1>8, <1>9
  <2>3. low <= x /\ x <= high
    <3> HIDE DEF a, b, x, low, high
    <3> QED
      BY <2>1, <2>2
  <2> QED
    BY <2>3
<1>11. p[2] <= env[2][2]
  <2> SUFFICES ASSUME env[2][2] < p[2] PROVE FALSE
    BY <1>6, <1>9
  <2>1. ring[n][2] <= p[2] /\ Previous(ring, n)[2] <= p[2]
    <3>1. ring[n][2] <= env[2][2] /\ Previous(ring, n)[2] <= env[2][2] /\ env[2][2] \in Int
      BY <1>6, <1>7
    <3> QED
      BY <1>9, <3>1
  <2>2. ~Crosses(p, ring[n], Previous(ring, n))
    BY <1>5, <2>1, CrossesBeyond
  <2> QED
    BY <1>4, <2>2
<1>12. env[2][1] <= p[2]
  <2> SUFFICES ASSUME p[2] < env[2][1] PROVE FALSE
    BY <1>6, <1>9
  <2>1. ASSUME NEW m \in 1..k
        PROVE  Crosses(p, ring[m], Previous(ring, m))
                 <=> (ring[m][1] > p[1]) # (Previous(ring, m)[1] > p[1])
    <3>1. ring[m] \in Int \X Int /\ Previous(ring, m) \in Int \X Int
      BY <1>5
    <3>2. p[2] < ring[m][2] /\ p[2] < Previous(ring, m)[2]
      <4> DEFINE a == ring[m][2]
                 b == Previous(ring, m)[2]
                 y == p[2]
                 low == env[2][1]
      <4>1. a \in Int /\ b \in Int /\ y \in Int /\ low \in Int
        BY <1>6, <1>9, <3>1
      <4>2. low <= a /\ low <= b /\ y < low
        BY <1>6, <1>7
      <4>3. y < a /\ y < b
        <5> HIDE DEF a, b, y, low
        <5> QED
          BY <4>1, <4>2
      <4> QED
        BY <4>3
    <3>3. (ring[m][1] > p[1]) # (Previous(ring, m)[1] > p[1]) => Crosses(p, ring[m], Previous(ring, m))
      BY <3>1, <3>2, CrossesBeyond
    <3> QED
      BY <3>3 DEF Crosses
  <2>2. C = Differ(Above(ring, 1, p[1]), AboveBefore(ring, 1, p[1]), 1..k)
    BY <1>2, <2>1 DEF Crossing, Differ, Above, AboveBefore
  <2>3. ~Odd(C)
    <3> HIDE DEF C
    <3> QED
      BY <2>2, StraddlesEven
  <2> QED
    BY <1>1, <2>3
<1> QED
  BY <1>10, <1>11, <1>12 DEF Within, env

------------------------------------------------------------------------------
(* Segments *)

\* A value beyond both ends of a segment is beyond the segment.
LEMMA Beyond ==
  ASSUME NEW u \in Int, NEW w \in Int, NEW rise \in Int, NEW up \in Int,
         rise > 0, 0 <= up, up <= rise
  PROVE  /\ u * rise \in Int /\ w * up \in Int
         /\ u < 0 /\ u < w => u * rise < w * up
         /\ u > 0 /\ u > w => u * rise > w * up
         /\ u <= 0 /\ u <= w => u * rise <= w * up
         /\ u >= 0 /\ u >= w => u * rise >= w * up
<1> DEFINE e == rise - up
           U == u * rise
           W == w * up
           M == u * up
           D == u * e
<1>1. e \in Nat /\ up \in Nat /\ (e > 0 \/ up > 0)
  OBVIOUS
<1>2. U \in Int /\ W \in Int /\ M \in Int /\ D \in Int /\ U = M + D
  OBVIOUS
<1> HIDE DEF e
<1>3. /\ u <= w => M <= W
      /\ u < w /\ up > 0 => M < W
  <2>1. /\ u * up \in Int /\ w * up \in Int
        /\ u <= w => u * up <= w * up
        /\ (u < w /\ up > 0) => u * up < w * up
    BY <1>1, TimesNat
  <2> QED
    BY <2>1
<1>4. /\ w <= u => W <= M
      /\ w < u /\ up > 0 => W < M
  <2>1. /\ w * up \in Int /\ u * up \in Int
        /\ w <= u => w * up <= u * up
        /\ (w < u /\ up > 0) => w * up < u * up
    BY <1>1, TimesNat
  <2> QED
    BY <2>1
<1>5. /\ u <= 0 => D <= 0
      /\ u < 0 /\ e > 0 => D < 0
  <2>1. /\ u * e \in Int /\ 0 * e \in Int
        /\ u <= 0 => u * e <= 0 * e
        /\ (u < 0 /\ e > 0) => u * e < 0 * e
    BY <1>1, TimesNat
  <2>2. 0 * e = 0
    BY <1>1
  <2> QED
    BY <2>1, <2>2
<1>6. /\ 0 <= u => 0 <= D
      /\ 0 < u /\ e > 0 => 0 < D
  <2>1. /\ 0 * e \in Int /\ u * e \in Int
        /\ 0 <= u => 0 * e <= u * e
        /\ (0 < u /\ e > 0) => 0 * e < u * e
    BY <1>1, TimesNat
  <2>2. 0 * e = 0
    BY <1>1
  <2> QED
    BY <2>1, <2>2
<1> HIDE DEF U, W, M, D
<1>7. /\ u < 0 /\ u < w => U < W
      /\ u > 0 /\ u > w => U > W
      /\ u <= 0 /\ u <= w => U <= W
      /\ u >= 0 /\ u >= w => U >= W
  BY <1>1, <1>2, <1>3, <1>4, <1>5, <1>6
<1> QED
  BY <1>2, <1>7 DEF U, W

\* The same in either direction.
LEMMA BeyondEither ==
  ASSUME NEW u \in Int, NEW w \in Int, NEW rise \in Int, NEW up \in Int, rise # 0,
         (0 <= up /\ up <= rise) \/ (rise <= up /\ up <= 0)
  PROVE  /\ u * rise - w * up \in Int
         /\ u < 0 /\ u < w => IF rise > 0 THEN u * rise - w * up < 0 ELSE u * rise - w * up > 0
         /\ u > 0 /\ u > w => IF rise > 0 THEN u * rise - w * up > 0 ELSE u * rise - w * up < 0
<1>1. CASE rise > 0
  <2>1. 0 <= up /\ up <= rise
    BY <1>1
  <2>2. /\ u * rise \in Int /\ w * up \in Int
        /\ u < 0 /\ u < w => u * rise < w * up
        /\ u > 0 /\ u > w => u * rise > w * up
    BY <1>1, <2>1, Beyond
  <2> DEFINE U == u * rise
             W == w * up
  <2> HIDE DEF U, W
  <2>3. /\ U \in Int /\ W \in Int
        /\ u < 0 /\ u < w => U < W
        /\ u > 0 /\ u > w => U > W
    BY <2>2 DEF U, W
  <2>4. /\ U - W \in Int
        /\ u < 0 /\ u < w => U - W < 0
        /\ u > 0 /\ u > w => U - W > 0
    BY <2>3
  <2> QED
    BY <1>1, <2>4 DEF U, W
<1>2. CASE rise < 0
  <2> DEFINE r == -rise
             v == -up
  <2>1. r \in Int /\ v \in Int /\ r > 0 /\ 0 <= v /\ v <= r
    BY <1>2
  <2>2. rise = -r /\ up = -v
    OBVIOUS
  <2> HIDE DEF r, v
  <2>3. /\ u * r \in Int /\ w * v \in Int
        /\ u < 0 /\ u < w => u * r < w * v
        /\ u > 0 /\ u > w => u * r > w * v
    BY <2>1, Beyond
  <2>4. u * rise = -(u * r) /\ w * up = -(w * v)
    BY <2>1, <2>2
  <2> DEFINE U == u * rise
             W == w * up
             X == u * r
             Y == w * v
  <2> HIDE DEF U, W, X, Y
  <2>5. /\ X \in Int /\ Y \in Int
        /\ u < 0 /\ u < w => X < Y
        /\ u > 0 /\ u > w => X > Y
        /\ U = -X /\ W = -Y
    BY <2>3, <2>4 DEF U, W, X, Y
  <2>6. /\ U - W \in Int
        /\ u < 0 /\ u < w => U - W > 0
        /\ u > 0 /\ u > w => U - W < 0
    BY <2>5
  <2>7. ~(rise > 0)
    BY <1>2
  <2> QED
    BY <2>6, <2>7 DEF U, W
<1> QED
  BY <1>1, <1>2

\* The two intervals spanned by x, y and by v, w share a number.
Meet(x, y, v, w) ==
  /\ x <= v \/ x <= w \/ y <= v \/ y <= w
  /\ x >= v \/ x >= w \/ y >= v \/ y >= w

SignsDiffer(x, y) == (x > 0) # (y > 0) \/ (x < 0) # (y < 0)

\* A segment from (a, c) to (b, d) that meets the one from (h, x) to (h, y) by the signs
\* of the four orientations also meets the box of it.
LEMMA SignsMeet ==
  ASSUME NEW a \in Int, NEW b \in Int, NEW c \in Int, NEW d \in Int,
         NEW h \in Int, NEW x \in Int, NEW y \in Int,
         SignsDiffer((y - x) * (a - h), (y - x) * (b - h)),
         SignsDiffer((x - c) * (b - a) - (d - c) * (h - a), (y - c) * (b - a) - (d - c) * (h - a))
  PROVE  Meet(a, b, h, h) /\ Meet(c, d, x, y)
<1> DEFINE rise == b - a
           up == h - a
<1>1. rise \in Int /\ up \in Int
  OBVIOUS
<1>2. rise # 0 /\ ((0 <= up /\ up <= rise) \/ (rise <= up /\ up <= 0))
  <2> DEFINE l == y - x
             s == a - h
             t == b - h
  <2>1. l \in Int /\ s \in Int /\ t \in Int
    OBVIOUS
  <2>2. SignsDiffer(l * s, l * t)
    OBVIOUS
  <2> HIDE DEF l, s, t
  <2>3. \A i, j \in Int : i > 0 /\ j > 0 => i * j > 0
    <3> TAKE i, j \in Int
    <3> HAVE i > 0 /\ j > 0
    <3>1. i \in Nat /\ j \in Nat /\ j > 0 /\ i > 0
      OBVIOUS
    <3>2. 0 * j < i * j
      BY <3>1, TimesNat
    <3> QED
      BY <3>2
  <2>4. \A i, j \in Int : /\ i > 0 /\ j < 0 => i * j < 0
                          /\ i < 0 /\ j > 0 => i * j < 0
                          /\ i < 0 /\ j < 0 => i * j > 0
    <3> TAKE i, j \in Int
    <3>1. /\ i * (-j) = -(i * j) /\ (-i) * j = -(i * j) /\ (-i) * (-j) = i * j
          /\ i * j \in Int /\ -i \in Int /\ -j \in Int
      OBVIOUS
    <3>2. i > 0 /\ j < 0 => i * (-j) > 0
      BY <2>3, <3>1
    <3>3. i < 0 /\ j > 0 => (-i) * j > 0
      BY <2>3, <3>1
    <3>4. i < 0 /\ j < 0 => (-i) * (-j) > 0
      BY <2>3, <3>1
    <3> DEFINE ij == i * j
    <3> HIDE DEF ij
    <3>5. /\ ij \in Int
          /\ i > 0 /\ j < 0 => -ij > 0
          /\ i < 0 /\ j > 0 => -ij > 0
          /\ i < 0 /\ j < 0 => ij > 0
      BY <3>1, <3>2, <3>3, <3>4 DEF ij
    <3>6. /\ i > 0 /\ j < 0 => ij < 0
          /\ i < 0 /\ j > 0 => ij < 0
          /\ i < 0 /\ j < 0 => ij > 0
      BY <3>5
    <3> QED
      BY <3>6 DEF ij
  <2>5. ~(s > 0 /\ t > 0) /\ ~(s < 0 /\ t < 0) /\ ~(s = 0 /\ t = 0)
    <3> DEFINE ls == l * s
               lt == l * t
    <3>1. /\ ls \in Int /\ lt \in Int
          /\ l = 0 => ls = 0 /\ lt = 0
          /\ s = 0 => ls = 0
          /\ t = 0 => lt = 0
      BY <2>1
    <3>2. /\ l > 0 /\ s > 0 => ls > 0
          /\ l > 0 /\ s < 0 => ls < 0
          /\ l < 0 /\ s > 0 => ls < 0
          /\ l < 0 /\ s < 0 => ls > 0
      BY <2>1, <2>3, <2>4
    <3>3. /\ l > 0 /\ t > 0 => lt > 0
          /\ l > 0 /\ t < 0 => lt < 0
          /\ l < 0 /\ t > 0 => lt < 0
          /\ l < 0 /\ t < 0 => lt > 0
      BY <2>1, <2>3, <2>4
    <3> HIDE DEF ls, lt
    <3>4. SignsDiffer(ls, lt)
      BY <2>2 DEF ls, lt
    <3> QED
      BY <2>1, <3>1, <3>2, <3>3, <3>4 DEF SignsDiffer
  <2>6. ((s <= 0 /\ 0 <= t) \/ (t <= 0 /\ 0 <= s)) /\ s # t
    BY <2>1, <2>5
  <2> QED
    BY <2>6 DEF s, t
<1>3. Meet(a, b, h, h)
  BY <1>2 DEF Meet
<1> HIDE DEF rise, up
<1>4. ASSUME NEW z \in Int
      PROVE  /\ z < c /\ z < d => IF rise > 0 THEN (z - c) * rise - (d - c) * up < 0
                                  ELSE (z - c) * rise - (d - c) * up > 0
             /\ z > c /\ z > d => IF rise > 0 THEN (z - c) * rise - (d - c) * up > 0
                                  ELSE (z - c) * rise - (d - c) * up < 0
  <2> DEFINE u == z - c
             w == d - c
  <2>1. u \in Int /\ w \in Int /\ (z < c => u < 0) /\ (z > c => u > 0) /\ (z < d => u < w) /\ (z > d => u > w)
    OBVIOUS
  <2> HIDE DEF u, w
  <2>2. /\ u * rise - w * up \in Int
        /\ u < 0 /\ u < w => IF rise > 0 THEN u * rise - w * up < 0 ELSE u * rise - w * up > 0
        /\ u > 0 /\ u > w => IF rise > 0 THEN u * rise - w * up > 0 ELSE u * rise - w * up < 0
    BY <1>1, <1>2, <2>1, BeyondEither
  <2>3. /\ z < c /\ z < d => IF rise > 0 THEN u * rise - w * up < 0 ELSE u * rise - w * up > 0
        /\ z > c /\ z > d => IF rise > 0 THEN u * rise - w * up > 0 ELSE u * rise - w * up < 0
    BY <2>1, <2>2
  <2> QED
    BY <2>3 DEF u, w
<1>5. Meet(c, d, x, y)
  <2> DEFINE m == (x - c) * rise - (d - c) * up
             n == (y - c) * rise - (d - c) * up
  <2>1. SignsDiffer(m, n)
    BY DEF rise, up
  <2>2. m \in Int /\ n \in Int
    BY <1>1
  <2>3. /\ x < c /\ x < d => IF rise > 0 THEN m < 0 ELSE m > 0
        /\ x > c /\ x > d => IF rise > 0 THEN m > 0 ELSE m < 0
    BY <1>4
  <2>4. /\ y < c /\ y < d => IF rise > 0 THEN n < 0 ELSE n > 0
        /\ y > c /\ y > d => IF rise > 0 THEN n > 0 ELSE n < 0
    BY <1>4
  <2> HIDE DEF m, n
  <2>5. ~(x < c /\ x < d /\ y < c /\ y < d)
    BY <2>1, <2>2, <2>3, <2>4 DEF SignsDiffer
  <2>6. ~(x > c /\ x > d /\ y > c /\ y > d)
    BY <2>1, <2>2, <2>3, <2>4 DEF SignsDiffer
  <2> QED
    BY <2>5, <2>6 DEF Meet
<1> QED
  BY <1>3, <1>5

\* Segments that intersect, one of them along an axis, have boxes that meet.
LEMMA IntersectionsMeet ==
  ASSUME NEW a1 \in Int \X Int, NEW a2 \in Int \X Int, NEW b1 \in Int \X Int, NEW b2 \in Int \X Int,
         b1[1] = b2[1] \/ b1[2] = b2[2], SegmentsIntersect(a1, a2, b1, b2)
  PROVE  /\ Meet(a1[1], a2[1], b1[1], b2[1])
         /\ Meet(a1[2], a2[2], b1[2], b2[2])
<1> DEFINE d1 == Cross(b1, b2, a1)
           d2 == Cross(b1, b2, a2)
           d3 == Cross(a1, a2, b1)
           d4 == Cross(a1, a2, b2)
<1>1. \/ (d1 > 0) # (d2 > 0) /\ (d3 > 0) # (d4 > 0)
      \/ OnSegment(a1, b1, b2) \/ OnSegment(a2, b1, b2)
      \/ OnSegment(b1, a1, a2) \/ OnSegment(b2, a1, a2)
  BY DEF SegmentsIntersect
<1>2. /\ a1[1] \in Int /\ a1[2] \in Int /\ a2[1] \in Int /\ a2[2] \in Int
      /\ b1[1] \in Int /\ b1[2] \in Int /\ b2[1] \in Int /\ b2[2] \in Int
  OBVIOUS
<1>3. ASSUME NEW p \in Int \X Int, NEW o \in Int \X Int, NEW q \in Int \X Int, OnSegment(p, o, q)
      PROVE  \A i \in {1, 2} : (o[i] <= p[i] /\ p[i] <= q[i]) \/ (q[i] <= p[i] /\ p[i] <= o[i])
  <2> TAKE i \in {1, 2}
  <2>1. Within(p[i], Span({o[i], q[i]}))
    BY <1>3 DEF OnSegment
  <2>2. p[i] \in Int /\ o[i] \in Int /\ q[i] \in Int
    OBVIOUS
  <2> QED
    BY <2>1, <2>2, SpanOfTwo
<1>4. CASE OnSegment(a1, b1, b2)
  <2>1. \A i \in {1, 2} : (b1[i] <= a1[i] /\ a1[i] <= b2[i]) \/ (b2[i] <= a1[i] /\ a1[i] <= b1[i])
    BY <1>3, <1>4
  <2> QED
    BY <1>2, <2>1 DEF Meet
<1>5. CASE OnSegment(a2, b1, b2)
  <2>1. \A i \in {1, 2} : (b1[i] <= a2[i] /\ a2[i] <= b2[i]) \/ (b2[i] <= a2[i] /\ a2[i] <= b1[i])
    BY <1>3, <1>5
  <2> QED
    BY <1>2, <2>1 DEF Meet
<1>6. CASE OnSegment(b1, a1, a2)
  <2>1. \A i \in {1, 2} : (a1[i] <= b1[i] /\ b1[i] <= a2[i]) \/ (a2[i] <= b1[i] /\ b1[i] <= a1[i])
    BY <1>3, <1>6
  <2> QED
    BY <1>2, <2>1 DEF Meet
<1>7. CASE OnSegment(b2, a1, a2)
  <2>1. \A i \in {1, 2} : (a1[i] <= b2[i] /\ b2[i] <= a2[i]) \/ (a2[i] <= b2[i] /\ b2[i] <= a1[i])
    BY <1>3, <1>7
  <2> QED
    BY <1>2, <2>1 DEF Meet
<1>8. CASE (d1 > 0) # (d2 > 0) /\ (d3 > 0) # (d4 > 0)
  <2>1. CASE b1[1] = b2[1]
    <3> DEFINE a == a1[1]
               b == a2[1]
               c == a1[2]
               d == a2[2]
               h == b1[1]
               x == b1[2]
               y == b2[2]
               e1 == (y - x) * (a - h)
               e2 == (y - x) * (b - h)
               e3 == (x - c) * (b - a) - (d - c) * (h - a)
               e4 == (y - c) * (b - a) - (d - c) * (h - a)
    <3>1. d1 = -e1 /\ d2 = -e2 /\ d3 = e3 /\ d4 = e4
      BY <1>2, <2>1 DEF Cross
    <3>2. e1 \in Int /\ e2 \in Int /\ e3 \in Int /\ e4 \in Int
      BY <1>2
    <3>3. SignsDiffer(e1, e2) /\ SignsDiffer(e3, e4)
      <4> HIDE DEF e1, e2, e3, e4, d1, d2, d3, d4
      <4> QED
        BY <1>8, <3>1, <3>2 DEF SignsDiffer
    <3>4. /\ a \in Int /\ b \in Int /\ c \in Int /\ d \in Int /\ h \in Int /\ x \in Int /\ y \in Int
          /\ SignsDiffer((y - x) * (a - h), (y - x) * (b - h))
          /\ SignsDiffer((x - c) * (b - a) - (d - c) * (h - a), (y - c) * (b - a) - (d - c) * (h - a))
      BY <1>2, <3>3
    <3> HIDE DEF a, b, c, d, h, x, y
    <3>5. Meet(a, b, h, h) /\ Meet(c, d, x, y)
      BY <3>4, SignsMeet
    <3> QED
      BY <2>1, <3>5 DEF a, b, c, d, h, x, y
  <2>2. CASE b1[2] = b2[2]
    <3> DEFINE a == a1[2]
               b == a2[2]
               c == a1[1]
               d == a2[1]
               h == b1[2]
               x == b1[1]
               y == b2[1]
               e1 == (y - x) * (a - h)
               e2 == (y - x) * (b - h)
               e3 == (x - c) * (b - a) - (d - c) * (h - a)
               e4 == (y - c) * (b - a) - (d - c) * (h - a)
    <3>1. d1 = e1 /\ d2 = e2 /\ d3 = -e3 /\ d4 = -e4
      BY <1>2, <2>2 DEF Cross
    <3>2. e1 \in Int /\ e2 \in Int /\ e3 \in Int /\ e4 \in Int
      BY <1>2
    <3>3. SignsDiffer(e1, e2) /\ SignsDiffer(e3, e4)
      <4> HIDE DEF e1, e2, e3, e4, d1, d2, d3, d4
      <4> QED
        BY <1>8, <3>1, <3>2 DEF SignsDiffer
    <3>4. /\ a \in Int /\ b \in Int /\ c \in Int /\ d \in Int /\ h \in Int /\ x \in Int /\ y \in Int
          /\ SignsDiffer((y - x) * (a - h), (y - x) * (b - h))
          /\ SignsDiffer((x - c) * (b - a) - (d - c) * (h - a), (y - c) * (b - a) - (d - c) * (h - a))
      BY <1>2, <3>3
    <3> HIDE DEF a, b, c, d, h, x, y
    <3>5. Meet(a, b, h, h) /\ Meet(c, d, x, y)
      BY <3>4, SignsMeet
    <3> QED
      BY <2>2, <3>5 DEF a, b, c, d, h, x, y
  <2> QED
    BY <2>1, <2>2
<1> QED
  BY <1>1, <1>4, <1>5, <1>6, <1>7, <1>8

\* A rectangle: the lower bound of an axis comes first.
IsRect(r) ==
  /\ r \in (Int \X Int) \X (Int \X Int)
  /\ r[1][1] <= r[1][2] /\ r[2][1] <= r[2][2]

InRect(p, r) == Within(p[1], r[1]) /\ Within(p[2], r[2])

\* The corners of a rectangle lie in it, and each side is parallel to an axis.
LEMMA CornerFacts ==
  ASSUME NEW r, IsRect(r)
  PROVE  /\ \A n \in 1..4 : Corners(r)[n] \in Int \X Int /\ InRect(Corners(r)[n], r)
         /\ \A e \in 1..4 : /\ (e % 4) + 1 \in 1..4
                            /\ \/ Corners(r)[e][1] = Corners(r)[(e % 4) + 1][1]
                               \/ Corners(r)[e][2] = Corners(r)[(e % 4) + 1][2]
<1> DEFINE c == Corners(r)
<1>1. /\ r[1][1] \in Int /\ r[1][2] \in Int /\ r[2][1] \in Int /\ r[2][2] \in Int
      /\ r[1][1] <= r[1][2] /\ r[2][1] <= r[2][2]
  BY DEF IsRect
<1>2. /\ c[1] = <<r[1][1], r[2][1]>> /\ c[2] = <<r[1][1], r[2][2]>>
      /\ c[3] = <<r[1][2], r[2][2]>> /\ c[4] = <<r[1][2], r[2][1]>>
  BY DEF Corners
<1> HIDE DEF c
<1>3. \A n \in 1..4 : n = 1 \/ n = 2 \/ n = 3 \/ n = 4
  OBVIOUS
<1>4. 1 % 4 = 1 /\ 2 % 4 = 2 /\ 3 % 4 = 3 /\ 4 % 4 = 0
  OBVIOUS
<1>5. /\ c[1] \in Int \X Int /\ InRect(c[1], r) /\ c[2] \in Int \X Int /\ InRect(c[2], r)
      /\ c[3] \in Int \X Int /\ InRect(c[3], r) /\ c[4] \in Int \X Int /\ InRect(c[4], r)
  BY <1>1, <1>2 DEF InRect, Within
<1>6. c[1][1] = c[2][1] /\ c[2][2] = c[3][2] /\ c[3][1] = c[4][1] /\ c[4][2] = c[1][2]
  BY <1>2
<1>7. \A n \in 1..4 : c[n] \in Int \X Int /\ InRect(c[n], r)
  BY <1>3, <1>5
<1>8. \A e \in 1..4 : /\ (e % 4) + 1 \in 1..4
                      /\ c[e][1] = c[(e % 4) + 1][1] \/ c[e][2] = c[(e % 4) + 1][2]
  BY <1>3, <1>4, <1>6
<1> QED
  BY <1>7, <1>8 DEF c

\* Both ends of an edge lie within the envelope.
LEMMA PreviousInEnvelope ==
  ASSUME NEW ring, IsRing(ring), NEW n \in 1..Len(ring)
  PROVE  InRect(ring[n], PolygonEnvelope(ring)) /\ InRect(Previous(ring, n), PolygonEnvelope(ring))
<1>1. Before(n, Len(ring)) \in 1..Len(ring) /\ Previous(ring, n) = ring[Before(n, Len(ring))]
  BY RingFacts
<1>2. \A m \in 1..Len(ring) : InRect(ring[m], PolygonEnvelope(ring))
  BY VertexInEnvelope DEF InRect
<1> QED
  BY <1>1, <1>2

\* Intervals overlap when they hold intervals that meet.
LEMMA MeetOverlap ==
  ASSUME NEW e \in Int \X Int, NEW s \in Int \X Int,
         NEW x \in Int, NEW y \in Int, NEW v \in Int, NEW w \in Int,
         Within(x, e), Within(y, e), Within(v, s), Within(w, s), Meet(x, y, v, w)
  PROVE  Overlap(s, e)
<1>1. e[1] \in Int /\ e[2] \in Int /\ s[1] \in Int /\ s[2] \in Int
  OBVIOUS
<1>2. /\ e[1] <= x /\ x <= e[2] /\ e[1] <= y /\ y <= e[2]
      /\ s[1] <= v /\ v <= s[2] /\ s[1] <= w /\ w <= s[2]
  BY DEF Within
<1>3. s[2] >= e[1]
  BY <1>1, <1>2 DEF Meet
<1>4. s[1] <= e[2]
  BY <1>1, <1>2 DEF Meet
<1> QED
  BY <1>3, <1>4 DEF Overlap

\* A rectangle that the polygon overlaps also overlaps the envelope.
LEMMA OverlapsEnvelope ==
  ASSUME NEW ring, IsRing(ring), NEW r, IsRect(r), PolygonOverlapsRect(ring, r)
  PROVE  /\ Overlap(r[1], PolygonEnvelope(ring)[1])
         /\ Overlap(r[2], PolygonEnvelope(ring)[2])
<1> DEFINE env == PolygonEnvelope(ring)
           c == Corners(r)
           k == Len(ring)
<1> SUFFICES Overlap(r[1], env[1]) /\ Overlap(r[2], env[2])
  OBVIOUS
<1>1. DOMAIN ring = 1..k /\ k \in Nat \ {0}
  BY RingFacts
<1>2. env \in (Int \X Int) \X (Int \X Int)
  BY <1>1, VertexInEnvelope
<1>3. /\ r[1][1] \in Int /\ r[1][2] \in Int /\ r[2][1] \in Int /\ r[2][2] \in Int
      /\ env[1][1] \in Int /\ env[1][2] \in Int /\ env[2][1] \in Int /\ env[2][2] \in Int
  <2> HIDE DEF env
  <2> QED
    BY <1>2 DEF IsRect
<1>4. ASSUME NEW p \in Int \X Int, InRect(p, r), InRect(p, env)
      PROVE  Overlap(r[1], env[1]) /\ Overlap(r[2], env[2])
  <2> HIDE DEF env
  <2>1. p[1] \in Int /\ p[2] \in Int
    OBVIOUS
  <2> QED
    BY <1>3, <1>4, <2>1 DEF InRect, Within, Overlap
<1>5. CASE \E n \in 1..4 : PointInPolygon(c[n], ring)
  <2>1. PICK n \in 1..4 : PointInPolygon(c[n], ring)
    BY <1>5
  <2>2. c[n] \in Int \X Int /\ InRect(c[n], r)
    BY CornerFacts
  <2> HIDE DEF c
  <2>3. InRect(c[n], env)
    BY <2>1, <2>2, InsideEnvelope DEF InRect
  <2> HIDE DEF env
  <2> QED
    BY <1>4, <2>2, <2>3
<1>6. CASE \E n \in DOMAIN ring : Within(ring[n][1], r[1]) /\ Within(ring[n][2], r[2])
  <2>1. PICK n \in 1..k : InRect(ring[n], r)
    BY <1>1, <1>6 DEF InRect
  <2>2. ring[n] \in Int \X Int /\ InRect(ring[n], env)
    BY RingFacts, PreviousInEnvelope
  <2> HIDE DEF env
  <2> QED
    BY <1>4, <2>1, <2>2
<1>7. CASE \E n \in DOMAIN ring, e \in 1..4 :
             SegmentsIntersect(Previous(ring, n), ring[n], c[e], c[(e % 4) + 1])
  <2>1. PICK n \in 1..k, e \in 1..4 : SegmentsIntersect(Previous(ring, n), ring[n], c[e], c[(e % 4) + 1])
    BY <1>1, <1>7
  <2> DEFINE a1 == Previous(ring, n)
             a2 == ring[n]
             b1 == c[e]
             b2 == c[(e % 4) + 1]
  <2>2. a1 \in Int \X Int /\ a2 \in Int \X Int /\ InRect(a1, env) /\ InRect(a2, env)
    BY RingFacts, PreviousInEnvelope
  <2>3. (e % 4) + 1 \in 1..4 /\ (b1[1] = b2[1] \/ b1[2] = b2[2])
    BY CornerFacts
  <2>4. b1 \in Int \X Int /\ b2 \in Int \X Int /\ InRect(b1, r) /\ InRect(b2, r)
    <3>1. \A m \in 1..4 : c[m] \in Int \X Int /\ InRect(c[m], r)
      BY CornerFacts
    <3> HIDE DEF c
    <3> QED
      BY <2>3, <3>1
  <2>5. SegmentsIntersect(a1, a2, b1, b2)
    BY <2>1
  <2> HIDE DEF a1, a2, b1, b2, env
  <2>6. Meet(a1[1], a2[1], b1[1], b2[1]) /\ Meet(a1[2], a2[2], b1[2], b2[2])
    BY <2>2, <2>3, <2>4, <2>5, IntersectionsMeet
  <2>7. /\ a1[1] \in Int /\ a1[2] \in Int /\ a2[1] \in Int /\ a2[2] \in Int
        /\ b1[1] \in Int /\ b1[2] \in Int /\ b2[1] \in Int /\ b2[2] \in Int
    BY <2>2, <2>4
  <2>8. /\ env[1] \in Int \X Int /\ env[2] \in Int \X Int
        /\ r[1] \in Int \X Int /\ r[2] \in Int \X Int
    BY <1>2 DEF IsRect
  <2>9. /\ Within(a1[1], env[1]) /\ Within(a2[1], env[1]) /\ Within(b1[1], r[1]) /\ Within(b2[1], r[1])
        /\ Within(a1[2], env[2]) /\ Within(a2[2], env[2]) /\ Within(b1[2], r[2]) /\ Within(b2[2], r[2])
    BY <2>2, <2>4 DEF InRect
  <2>10. Overlap(r[1], env[1])
    BY <2>6, <2>7, <2>8, <2>9, MeetOverlap
  <2>11. Overlap(r[2], env[2])
    BY <2>6, <2>7, <2>8, <2>9, MeetOverlap
  <2> QED
    BY <2>10, <2>11
<1> QED
  BY <1>5, <1>6, <1>7 DEF PolygonOverlapsRect

------------------------------------------------------------------------------
(* The box of a selection *)

RightBox(q) == IF Covers(q) THEN CoverBBox(q.layout, q.ring) ELSE BBox(q.layout, q.ring)

FitsGrid(b, l) ==
  /\ b \in [{"rMin", "rMax", "cMin", "cMax"} -> Nat] /\ IsBox(b)
  /\ b.rMax <= l.rows /\ b.cMax <= l.cols

\* A box of two ranges lies within the grid and has the cells whose indices are in both.
LEMMA BoxOfRanges ==
  ASSUME NEW l, l.rows \in Nat, l.cols \in Nat, NEW S, NEW T,
         NEW x, NEW y, IsRangeOf(x, l.rows, S), IsRangeOf(y, l.cols, T)
  PROVE  /\ FitsGrid(BoxOf(x, y), l)
         /\ \A c \in Grid(l) : c[1] \in S /\ c[2] \in T => c \in BoxCells(BoxOf(x, y))
<1> DEFINE b == BoxOf(x, y)
<1>1. b.rMin = x[1] /\ b.rMax = x[2] /\ b.cMin = y[1] /\ b.cMax = y[2]
  BY DEF BoxOf
<1>2. /\ x[1] \in Nat /\ x[2] \in Nat /\ y[1] \in Nat /\ y[2] \in Nat /\ x[2] <= l.rows /\ y[2] <= l.cols
      /\ \A i \in S : x[1] <= i /\ i < x[2]
      /\ \A j \in T : y[1] <= j /\ j < y[2]
  BY DEF IsRangeOf
<1>3. b \in [{"rMin", "rMax", "cMin", "cMax"} -> Nat]
  BY <1>2 DEF BoxOf
<1>4. FitsGrid(b, l)
  <2> HIDE DEF b
  <2> QED
    BY <1>1, <1>2, <1>3 DEF FitsGrid, IsBox
<1>5. ASSUME NEW c \in Grid(l), c[1] \in S, c[2] \in T PROVE c \in BoxCells(b)
  <2>1. c = <<c[1], c[2]>> /\ c[1] \in Int /\ c[2] \in Int
    BY DEF Grid
  <2>2. x[1] <= c[1] /\ c[1] < x[2] /\ y[1] <= c[2] /\ c[2] < y[2]
    BY <1>2, <1>5
  <2>3. c[1] \in b.rMin..(b.rMax - 1) /\ c[2] \in b.cMin..(b.cMax - 1)
    <3> HIDE DEF b
    <3> QED
      BY <1>1, <1>2, <2>1, <2>2
  <2> HIDE DEF b
  <2> QED
    BY <2>1, <2>3 DEF BoxCells
<1> QED
  BY <1>4, <1>5

\* The box around some cells has them.
LEMMA AroundHolds ==
  ASSUME NEW l, l.rows \in Nat, l.cols \in Nat, NEW S \in SUBSET Grid(l)
  PROVE  FitsGrid(Around(S), l) /\ \A c \in S : c \in BoxCells(Around(S))
<1>1. \A c \in S : c \in Grid(l) /\ c[1] \in 0..(l.rows - 1) /\ c[2] \in 0..(l.cols - 1)
  BY DEF Grid
<1>2. CASE S = {}
  <2>1. Around(S) = BoxOf(<<0, 0>>, <<0, 0>>)
    BY <1>2 DEF Around
  <2>2. IsRangeOf(<<0, 0>>, l.rows, {}) /\ IsRangeOf(<<0, 0>>, l.cols, {})
    BY DEF IsRangeOf
  <2>3. FitsGrid(BoxOf(<<0, 0>>, <<0, 0>>), l)
    BY <2>2, BoxOfRanges
  <2> QED
    BY <1>2, <2>1, <2>3
<1>3. CASE S # {}
  <2> DEFINE R == {c[1] : c \in S}
             C == {c[2] : c \in S}
             x == <<Min(R), Max(R) + 1>>
             y == <<Min(C), Max(C) + 1>>
  <2>1. Around(S) = BoxOf(x, y)
    BY <1>3 DEF Around
  <2>2. R \in SUBSET (0..(l.rows - 1)) /\ R # {} /\ C \in SUBSET (0..(l.cols - 1)) /\ C # {}
    BY <1>1, <1>3
  <2>3. \A c \in S : c[1] \in R /\ c[2] \in C
    OBVIOUS
  <2> HIDE DEF R, C
  <2>4. IsRangeOf(x, l.rows, R)
    BY <2>2, SpanIsRange
  <2>5. IsRangeOf(y, l.cols, C)
    BY <2>2, SpanIsRange
  <2> HIDE DEF x, y
  <2>6. FitsGrid(BoxOf(x, y), l) /\ \A c \in Grid(l) : c[1] \in R /\ c[2] \in C => c \in BoxCells(BoxOf(x, y))
    BY <2>4, <2>5, BoxOfRanges
  <2> QED
    BY <1>1, <2>1, <2>3, <2>6
<1> QED
  BY <1>2, <1>3

\* What the layouts of the three kinds are.
LEMMA LayoutFacts ==
  ASSUME NEW l, IsLayout(l)
  PROVE  /\ l.rows \in Nat /\ l.cols \in Nat
         /\ l.kind \in {"1d", "2d", "npoints"}
         /\ l.kind = "1d" => IsAxis(l.lat, l.rows) /\ Monotonic(l.lat) /\ IsAxis(l.lon, l.cols) /\ Monotonic(l.lon)
         /\ l.kind = "2d" => l.lat \in [Grid(l) -> Int] /\ l.lon \in [Grid(l) -> Int]
         /\ l.kind = "npoints" => IsAxis(l.lat, l.rows) /\ IsAxis(l.lon, l.rows) /\ l.cols = 1
         /\ \A c \in Grid(l) : At(l, c) \in Int \X Int
<1>1. l.rows \in Nat /\ l.cols \in Nat
  BY DEF IsLayout
<1>2. l.kind = "1d" => IsAxis(l.lat, l.rows) /\ Monotonic(l.lat) /\ IsAxis(l.lon, l.cols) /\ Monotonic(l.lon)
  BY DEF IsLayout
<1>3. l.kind = "2d" => l.lat \in [Grid(l) -> Int] /\ l.lon \in [Grid(l) -> Int]
  BY DEF IsLayout, Grid
<1>4. l.kind = "npoints" => IsAxis(l.lat, l.rows) /\ IsAxis(l.lon, l.rows) /\ l.cols = 1
  BY DEF IsLayout
<1>5. l.kind \in {"1d", "2d", "npoints"}
  BY DEF IsLayout
<1>6. ASSUME NEW c \in Grid(l) PROVE At(l, c) \in Int \X Int
  <2>1. c[1] \in 0..(l.rows - 1) /\ c[2] \in 0..(l.cols - 1)
    BY DEF Grid
  <2>2. CASE l.kind = "1d"
    BY <1>2, <2>1, <2>2 DEF At, IsAxis
  <2>3. CASE l.kind = "2d"
    BY <1>3, <2>3 DEF At
  <2>4. CASE l.kind = "npoints"
    BY <1>4, <2>1, <2>4 DEF At, IsAxis
  <2> QED
    BY <1>5, <2>2, <2>3, <2>4
<1> QED
  BY <1>1, <1>2, <1>3, <1>4, <1>5, <1>6

\* The footprint of a cell is a rectangle around its centre.
LEMMA BoundsFacts ==
  ASSUME NEW l, IsLayout(l), l.kind # "npoints", NEW c \in Grid(l)
  PROVE  IsRect(CellBounds(l, c)) /\ InRect(At(l, c), CellBounds(l, c))
<1>1. /\ l.rows \in Nat /\ l.cols \in Nat
      /\ l.kind \in {"1d", "2d", "npoints"}
      /\ l.kind = "1d" => IsAxis(l.lat, l.rows) /\ Monotonic(l.lat) /\ IsAxis(l.lon, l.cols) /\ Monotonic(l.lon)
      /\ \A e \in Grid(l) : At(l, e) \in Int \X Int
  BY LayoutFacts
<1>2. c[1] \in 0..(l.rows - 1) /\ c[2] \in 0..(l.cols - 1)
  BY DEF Grid
<1>3. CASE l.kind = "1d"
  <2> DEFINE x == AxisCellSpan(l.lat, c[1])
             y == AxisCellSpan(l.lon, c[2])
  <2>1. x \in Int \X Int /\ x[1] <= x[2] /\ Within(l.lat[c[1]], x)
    <3>1. IsAxis(l.lat, l.rows) /\ Monotonic(l.lat)
      BY <1>1, <1>3
    <3> QED
      BY <1>1, <1>2, <3>1, CentreInSpan
  <2>2. y \in Int \X Int /\ y[1] <= y[2] /\ Within(l.lon[c[2]], y)
    <3>1. IsAxis(l.lon, l.cols) /\ Monotonic(l.lon)
      BY <1>1, <1>3
    <3> QED
      BY <1>1, <1>2, <3>1, CentreInSpan
  <2>3. CellBounds(l, c) = <<x, y>> /\ At(l, c) = <<l.lat[c[1]], l.lon[c[2]]>>
    BY <1>3 DEF CellBounds, At
  <2> HIDE DEF x, y
  <2> QED
    BY <2>1, <2>2, <2>3 DEF IsRect, InRect
<1>4. CASE l.kind # "1d"
  <2> DEFINE centre == At(l, c)
             next(d) == <<c[1] + d[1], c[2] + d[2]>>
             half(d, axis) == (At(l, next(d))[axis] - centre[axis]) \div 2
             D == {<<-1, 0>>, <<1, 0>>, <<0, -1>>, <<0, 1>>}
             inside == {d \in D : next(d) \in Grid(l)}
             mirrored == {d \in inside : next(<<-d[1], -d[2]>>) \notin Grid(l)}
             U(axis) == {centre[axis] + half(d, axis) : d \in inside}
             W(axis) == {centre[axis] - half(d, axis) : d \in mirrored}
             B(axis) == {centre[axis]} \cup U(axis) \cup W(axis)
  <2>1. CellBounds(l, c) = <<Span(B(1)), Span(B(2))>>
    BY <1>4 DEF CellBounds, CellBounds2d
  <2>2. centre \in Int \X Int
    BY <1>1
  <2>3. IsFiniteSet(inside) /\ IsFiniteSet(mirrored)
    <3>1. IsFiniteSet({<<-1, 0>>})
      BY FS_Singleton
    <3>2. IsFiniteSet({<<-1, 0>>} \cup {<<1, 0>>})
      BY <3>1, FS_AddElement
    <3>3. IsFiniteSet(({<<-1, 0>>} \cup {<<1, 0>>}) \cup {<<0, -1>>})
      BY <3>2, FS_AddElement
    <3>4. IsFiniteSet((({<<-1, 0>>} \cup {<<1, 0>>}) \cup {<<0, -1>>}) \cup {<<0, 1>>})
      BY <3>3, FS_AddElement
    <3>5. D = (({<<-1, 0>>} \cup {<<1, 0>>}) \cup {<<0, -1>>}) \cup {<<0, 1>>}
      OBVIOUS
    <3>6. IsFiniteSet(D)
      BY <3>4, <3>5
    <3>7. inside \subseteq D /\ mirrored \subseteq D
      OBVIOUS
    <3> HIDE DEF D, inside, mirrored
    <3> QED
      BY <3>6, <3>7, FS_Subset
  <2>4. \A d \in inside : At(l, next(d)) \in Int \X Int
    BY <1>1
  <2>5. \A d \in mirrored : d \in inside
    OBVIOUS
  <2> HIDE DEF inside, mirrored, next, centre
  <2>6. ASSUME NEW axis \in {1, 2}
        PROVE  /\ Span(B(axis)) \in Int \X Int /\ Span(B(axis))[1] <= Span(B(axis))[2]
               /\ Within(centre[axis], Span(B(axis)))
    <3>1. \A d \in inside : half(d, axis) \in Int
      BY <2>2, <2>4
    <3>2. centre[axis] \in Int
      BY <2>2
    <3> DEFINE f == [d \in inside |-> centre[axis] + half(d, axis)]
               g == [d \in mirrored |-> centre[axis] - half(d, axis)]
    <3>3. IsFiniteSet(U(axis))
      <4>1. DOMAIN f = inside /\ f = [d \in inside |-> f[d]] /\ U(axis) = {f[d] : d \in inside}
        OBVIOUS
      <4> HIDE DEF f, U
      <4> QED
        BY <2>3, <4>1, ImageFinite
    <3>4. IsFiniteSet(W(axis))
      <4>1. DOMAIN g = mirrored /\ g = [d \in mirrored |-> g[d]] /\ W(axis) = {g[d] : d \in mirrored}
        OBVIOUS
      <4> HIDE DEF g, W
      <4> QED
        BY <2>3, <4>1, ImageFinite
    <3>5. \A z \in U(axis) : z \in Int
      BY <3>1, <3>2
    <3>6. \A z \in W(axis) : z \in Int
      BY <2>5, <3>1, <3>2
    <3> DEFINE S == B(axis)
    <3> HIDE DEF U, W, f, g, half
    <3>7. IsFiniteSet(S)
      <4>1. IsFiniteSet({centre[axis]})
        BY FS_Singleton
      <4>2. IsFiniteSet({centre[axis]} \cup U(axis))
        BY <3>3, <4>1, FS_Union
      <4> QED
        BY <3>4, <4>2, FS_Union
    <3>8. S \subseteq Int /\ S # {} /\ centre[axis] \in S
      BY <3>2, <3>5, <3>6
    <3> HIDE DEF S, B
    <3>9. /\ Min(S) \in S /\ Max(S) \in S
          /\ \A x \in S : Within(x, Span(S))
          /\ Span(S) \in Int \X Int /\ Span(S)[1] = Min(S) /\ Span(S)[2] = Max(S)
          /\ Span(S)[1] <= Span(S)[2]
      BY <3>7, <3>8, SpanFacts
    <3>10. Span(S) \in Int \X Int /\ Span(S)[1] <= Span(S)[2] /\ Within(centre[axis], Span(S))
      BY <3>8, <3>9
    <3> QED
      BY <3>10 DEF S
  <2>7. /\ Span(B(1)) \in Int \X Int /\ Span(B(1))[1] <= Span(B(1))[2]
        /\ Within(centre[1], Span(B(1)))
    BY <2>6
  <2>8. /\ Span(B(2)) \in Int \X Int /\ Span(B(2))[1] <= Span(B(2))[2]
        /\ Within(centre[2], Span(B(2)))
    BY <2>6
  <2> HIDE DEF B
  <2>9. InRect(centre, CellBounds(l, c)) /\ IsRect(CellBounds(l, c))
    BY <2>1, <2>7, <2>8 DEF IsRect, InRect
  <2> QED
    BY <2>9 DEF centre
<1> QED
  BY <1>3, <1>4

\* What the options of a caller are.
LEMMA QueryFacts ==
  ASSUME NEW q \in Queries
  PROVE  IsLayout(q.layout) /\ q.cover \in BOOLEAN /\ q.ring \in Seq(Int \X Int)
         /\ q.maxCells \in Int \cup {Unlimited} /\ Unlimited \notin Int
BY QueriesAssumption, RequestsAssumption

\* A cell that is kept has its centre within the envelope or, with a cover, its footprint
\* meets it.
LEMMA KeptInEnvelope ==
  ASSUME NEW q \in Queries, IsRing(q.ring), NEW c \in Grid(q.layout), Kept(q, c)
  PROVE  IF Covers(q) THEN /\ Overlap(CellBounds(q.layout, c)[1], PolygonEnvelope(q.ring)[1])
                           /\ Overlap(CellBounds(q.layout, c)[2], PolygonEnvelope(q.ring)[2])
         ELSE InRect(At(q.layout, c), PolygonEnvelope(q.ring))
<1> DEFINE l == q.layout
           env == PolygonEnvelope(q.ring)
           b == CellBounds(l, c)
           p == At(l, c)
<1>1. IsLayout(l)
  BY QueryFacts
<1>2. p \in Int \X Int
  BY <1>1, LayoutFacts
<1>3. PointInPolygon(p, q.ring) => InRect(p, env)
  <2> HIDE DEF p
  <2> QED
    BY <1>2, InsideEnvelope DEF InRect
<1>4. CASE ~Covers(q)
  BY <1>3, <1>4 DEF Kept
<1>5. CASE Covers(q)
  <2>1. l.kind # "npoints"
    BY <1>5 DEF Covers
  <2>2. IsRect(b) /\ InRect(p, b)
    <3> HIDE DEF l
    <3> QED
      BY <1>1, <2>1, BoundsFacts DEF l
  <2>3. CASE PolygonOverlapsRect(q.ring, b)
    <3> HIDE DEF b
    <3>1. Overlap(b[1], env[1]) /\ Overlap(b[2], env[2])
      BY <2>2, <2>3, OverlapsEnvelope
    <3> QED
      BY <1>5, <3>1 DEF b
  <2>4. CASE PointInPolygon(p, q.ring)
    <3>1. InRect(p, env)
      BY <1>3, <2>4
    <3>2. env \in (Int \X Int) \X (Int \X Int)
      <4>1. 1 \in 1..Len(q.ring)
        BY DEF IsRing
      <4> QED
        BY <4>1, VertexInEnvelope
    <3> HIDE DEF b, env, p
    <3>3. /\ p[1] \in Int /\ p[2] \in Int
          /\ b[1][1] \in Int /\ b[1][2] \in Int /\ b[2][1] \in Int /\ b[2][2] \in Int
          /\ env[1][1] \in Int /\ env[1][2] \in Int /\ env[2][1] \in Int /\ env[2][2] \in Int
      BY <1>2, <2>2, <3>2 DEF IsRect
    <3>4. /\ b[1][1] <= p[1] /\ p[1] <= b[1][2] /\ b[2][1] <= p[2] /\ p[2] <= b[2][2]
          /\ env[1][1] <= p[1] /\ p[1] <= env[1][2] /\ env[2][1] <= p[2] /\ p[2] <= env[2][2]
      BY <2>2, <3>1 DEF InRect, Within
    <3>5. Overlap(b[1], env[1]) /\ Overlap(b[2], env[2])
      BY <3>3, <3>4 DEF Overlap
    <3> QED
      BY <1>5, <3>5 DEF b, env
  <2> QED
    BY <2>3, <2>4 DEF Kept
<1> QED
  BY <1>4, <1>5

\* The box lies within the grid and has every cell that is kept.
LEMMA BoxKeeps ==
  ASSUME NEW q \in Queries, IsRing(q.ring)
  PROVE  /\ FitsGrid(RightBox(q), q.layout)
         /\ \A c \in Grid(q.layout) : Kept(q, c) => c \in BoxCells(RightBox(q))
<1> DEFINE l == q.layout
           env == PolygonEnvelope(q.ring)
           G == Grid(l)
<1>1. /\ l.rows \in Nat /\ l.cols \in Nat
      /\ l.kind \in {"1d", "2d", "npoints"}
      /\ l.kind = "1d" => IsAxis(l.lat, l.rows) /\ Monotonic(l.lat) /\ IsAxis(l.lon, l.cols) /\ Monotonic(l.lon)
      /\ l.kind = "2d" => l.lat \in [Grid(l) -> Int] /\ l.lon \in [Grid(l) -> Int]
      /\ l.kind = "npoints" => IsAxis(l.lat, l.rows) /\ IsAxis(l.lon, l.rows) /\ l.cols = 1
      /\ \A c \in Grid(l) : At(l, c) \in Int \X Int
  <2>1. IsLayout(l)
    BY QueryFacts
  <2> HIDE DEF l
  <2> QED
    BY <2>1, LayoutFacts
<1>2. \A c \in G : Kept(q, c) /\ Covers(q) => /\ Overlap(CellBounds(l, c)[1], env[1])
                                              /\ Overlap(CellBounds(l, c)[2], env[2])
  BY KeptInEnvelope
<1>3. \A c \in G : Kept(q, c) /\ ~Covers(q) => InRect(At(l, c), env)
  BY KeptInEnvelope
<1>4. env[1] \in Int \X Int /\ env[2] \in Int \X Int
  <2>1. 1 \in 1..Len(q.ring)
    BY DEF IsRing
  <2>2. env \in (Int \X Int) \X (Int \X Int)
    BY <2>1, VertexInEnvelope
  <2> HIDE DEF env
  <2> QED
    BY <2>2
<1>5. \A c \in G : c[1] \in 0..(l.rows - 1) /\ c[2] \in 0..(l.cols - 1)
  BY DEF Grid
<1>6. CASE Covers(q) /\ l.kind = "1d"
  <2> DEFINE S == {i \in 0..(l.rows - 1) : Overlap(AxisCellSpan(l.lat, i), env[1])}
             T == {i \in 0..(l.cols - 1) : Overlap(AxisCellSpan(l.lon, i), env[2])}
             x == AxisFootprintRange(l.lat, env[1])
             y == AxisFootprintRange(l.lon, env[2])
  <2>1. RightBox(q) = BoxOf(x, y)
    BY <1>6 DEF RightBox, CoverBBox
  <2>2. IsRangeOf(x, l.rows, S) /\ IsRangeOf(y, l.cols, T)
    <3>1. IsAxis(l.lat, l.rows) /\ IsAxis(l.lon, l.cols)
      BY <1>1, <1>6
    <3> HIDE DEF l, env
    <3> QED
      BY <1>1, <3>1, AxisFootprintRangeHolds
  <2>3. \A c \in G : CellBounds(l, c) = <<AxisCellSpan(l.lat, c[1]), AxisCellSpan(l.lon, c[2])>>
    BY <1>6 DEF CellBounds
  <2> HIDE DEF l, env, x, y
  <2>4. \A c \in G : Kept(q, c) => c[1] \in S /\ c[2] \in T
    BY <1>2, <1>5, <1>6, <2>3
  <2> HIDE DEF S, T
  <2>5. /\ FitsGrid(BoxOf(x, y), l)
        /\ \A c \in Grid(l) : c[1] \in S /\ c[2] \in T => c \in BoxCells(BoxOf(x, y))
    BY <1>1, <2>2, BoxOfRanges
  <2> QED
    BY <2>1, <2>4, <2>5 DEF l
<1>7. CASE Covers(q) /\ l.kind # "1d"
  <2> DEFINE S == {c \in G : LET b == CellBounds2d(l, c) IN Overlap(b[1], env[1]) /\ Overlap(b[2], env[2])}
  <2>1. RightBox(q) = Around(S)
    BY <1>7 DEF RightBox, CoverBBox
  <2>2. \A c \in G : CellBounds(l, c) = CellBounds2d(l, c)
    BY <1>7 DEF CellBounds
  <2> HIDE DEF l, env
  <2>3. S \in SUBSET Grid(l)
    OBVIOUS
  <2>4. \A c \in G : Kept(q, c) => c \in S
    BY <1>2, <1>7, <2>2
  <2> HIDE DEF S
  <2>5. FitsGrid(Around(S), l) /\ \A c \in S : c \in BoxCells(Around(S))
    BY <1>1, <2>3, AroundHolds
  <2> QED
    BY <2>1, <2>4, <2>5 DEF l
<1>8. CASE ~Covers(q) /\ l.kind = "1d"
  <2> DEFINE S == {i \in 0..(l.rows - 1) : Within(l.lat[i], env[1])}
             T == {i \in 0..(l.cols - 1) : Within(l.lon[i], env[2])}
             x == AxisRange(l.lat, env[1])
             y == AxisRange(l.lon, env[2])
  <2>1. RightBox(q) = BoxOf(x, y)
    BY <1>8 DEF RightBox, BBox
  <2>2. IsRangeOf(x, l.rows, S) /\ IsRangeOf(y, l.cols, T)
    <3>1. IsAxis(l.lat, l.rows) /\ IsAxis(l.lon, l.cols) /\ Monotonic(l.lat) /\ Monotonic(l.lon)
      BY <1>1, <1>8
    <3> HIDE DEF l, env
    <3>2. IsRangeOf(x, l.rows, S)
      BY <1>1, <1>4, <3>1, AxisRangeHolds
    <3>3. IsRangeOf(y, l.cols, T)
      BY <1>1, <1>4, <3>1, AxisRangeHolds
    <3> QED
      BY <3>2, <3>3
  <2>3. \A c \in G : At(l, c) = <<l.lat[c[1]], l.lon[c[2]]>>
    BY <1>8 DEF At
  <2> HIDE DEF l, env, x, y
  <2>4. \A c \in G : Kept(q, c) => c[1] \in S /\ c[2] \in T
    BY <1>3, <1>5, <1>8, <2>3 DEF InRect
  <2> HIDE DEF S, T
  <2>5. /\ FitsGrid(BoxOf(x, y), l)
        /\ \A c \in Grid(l) : c[1] \in S /\ c[2] \in T => c \in BoxCells(BoxOf(x, y))
    BY <1>1, <2>2, BoxOfRanges
  <2> QED
    BY <2>1, <2>4, <2>5 DEF l
<1>9. CASE ~Covers(q) /\ l.kind = "2d"
  <2> DEFINE S == {c \in G : Within(At(l, c)[1], env[1]) /\ Within(At(l, c)[2], env[2])}
  <2>1. RightBox(q) = Around(S)
    BY <1>9 DEF RightBox, BBox
  <2> HIDE DEF l, env
  <2>2. S \in SUBSET Grid(l)
    OBVIOUS
  <2>3. \A c \in G : Kept(q, c) => c \in S
    BY <1>3, <1>9 DEF InRect
  <2> HIDE DEF S
  <2>4. FitsGrid(Around(S), l) /\ \A c \in S : c \in BoxCells(Around(S))
    BY <1>1, <2>2, AroundHolds
  <2> QED
    BY <2>1, <2>3, <2>4 DEF l
<1>10. CASE ~Covers(q) /\ l.kind = "npoints"
  <2> DEFINE x == <<0, l.rows>>
             y == <<0, 1>>
             S == 0..(l.rows - 1)
             T == 0..(l.cols - 1)
  <2>1. RightBox(q) = BoxOf(x, y)
    BY <1>10 DEF RightBox, BBox
  <2>2. IsRangeOf(x, l.rows, S) /\ IsRangeOf(y, l.cols, T)
    BY <1>1, <1>10 DEF IsRangeOf
  <2> HIDE DEF l, x, y, S, T
  <2>3. /\ FitsGrid(BoxOf(x, y), l)
        /\ \A c \in Grid(l) : c[1] \in S /\ c[2] \in T => c \in BoxCells(BoxOf(x, y))
    BY <1>1, <2>2, BoxOfRanges
  <2> QED
    BY <1>5, <2>1, <2>3 DEF l, S, T
<1> HIDE DEF l
<1> QED
  BY <1>1, <1>6, <1>7, <1>8, <1>9, <1>10 DEF l

\* The cells of a box within the grid are cells of the grid.
LEMMA BoxWithinGrid ==
  ASSUME NEW l, l.rows \in Nat, l.cols \in Nat, NEW b, FitsGrid(b, l)
  PROVE  BoxCells(b) \subseteq Grid(l)
<1>1. /\ b.rMin \in Nat /\ b.rMax \in Nat /\ b.cMin \in Nat /\ b.cMax \in Nat
      /\ b.rMax <= l.rows /\ b.cMax <= l.cols
  BY DEF FitsGrid, IsBox
<1> QED
  BY <1>1 DEF BoxCells, Grid

\* A stride is at least 1, with any budget.
LEMMA StrideType ==
  ASSUME NEW rows \in Nat, NEW cols \in Nat, rows > 0, cols > 0, NEW m
  PROVE  ComputeStride(rows, cols, m) \in Nat \ {0}
<1> DEFINE longest == Max({rows, cols})
           S == {s \in 1..longest : CeilDiv(rows, s) * CeilDiv(cols, s) > m}
<1>1. longest \in Int /\ longest >= 1
  <2>1. /\ Span({rows, cols}) \in Int \X Int
        /\ rows <= cols => Span({rows, cols}) = <<rows, cols>>
        /\ cols <= rows => Span({rows, cols}) = <<cols, rows>>
    BY SpanOfTwo
  <2>2. longest = Span({rows, cols})[2]
    BY DEF Span
  <2> HIDE DEF longest
  <2> QED
    BY <2>1, <2>2
<1>2. Bisect(1, longest, S) \in 1..longest
  <2> HIDE DEF longest, S
  <2> QED
    BY <1>1, BisectBetween
<1>3. ComputeStride(rows, cols, m) = IF m = Unlimited \/ rows * cols <= m THEN 1 ELSE Bisect(1, longest, S)
  BY DEF ComputeStride
<1> HIDE DEF longest, S
<1> QED
  BY <1>1, <1>2, <1>3

\* A larger stride samples no more of an axis,
LEMMA FewerSamples ==
  ASSUME NEW a \in Nat, NEW s \in Nat \ {0}, NEW t \in Nat \ {0}, s <= t
  PROVE  CeilDiv(a, t) <= CeilDiv(a, s)
<1> DEFINE d == CeilDiv(a, t)
           e == CeilDiv(a, s)
<1>1. d \in Nat /\ e \in Nat
  BY CeilDivFacts
<1> SUFFICES ASSUME e < d PROVE FALSE
  BY <1>1
<1>2. e * t < a <=> e < d
  <2>1. \A x \in Int : x * t < a <=> x < d
    BY CeilDivFacts
  <2> HIDE DEF d, e
  <2> QED
    BY <1>1, <2>1
<1>3. e * s < a <=> e < e
  <2>1. \A x \in Int : x * s < a <=> x < e
    BY CeilDivFacts
  <2> HIDE DEF d, e
  <2> QED
    BY <1>1, <2>1
<1> HIDE DEF d, e
<1>4. e * s \in Int /\ e * t \in Int /\ e * s <= e * t
  <2>1. s * e \in Int /\ t * e \in Int /\ s * e <= t * e
    <3>1. s \in Int /\ t \in Int
      OBVIOUS
    <3> QED
      BY <1>1, <3>1, TimesNat
  <2>2. s * e = e * s /\ t * e = e * t
    BY <1>1
  <2> QED
    BY <2>1, <2>2
<1> DEFINE u == e * s
           v == e * t
<1>5. u \in Int /\ v \in Int /\ u <= v /\ v < a /\ ~(u < a)
  BY <1>1, <1>2, <1>3, <1>4
<1> HIDE DEF u, v
<1> QED
  BY <1>5

\* and no more of a grid.
LEMMA FewerSamplesInBox ==
  ASSUME NEW a \in Nat, NEW b \in Nat, NEW s \in Nat \ {0}, NEW t \in Nat \ {0}, s <= t
  PROVE  /\ CeilDiv(a, s) * CeilDiv(b, s) \in Nat /\ CeilDiv(a, t) * CeilDiv(b, t) \in Nat
         /\ CeilDiv(a, t) * CeilDiv(b, t) <= CeilDiv(a, s) * CeilDiv(b, s)
<1> DEFINE w == CeilDiv(a, t)
           x == CeilDiv(a, s)
           y == CeilDiv(b, t)
           z == CeilDiv(b, s)
<1>1. w \in Nat /\ x \in Nat /\ y \in Nat /\ z \in Nat
  BY CeilDivFacts
<1>2. w <= x /\ y <= z
  BY FewerSamples
<1> HIDE DEF w, x, y, z
<1>3. w * y \in Int /\ x * y \in Int /\ w * y <= x * y
  <2>1. w \in Int /\ x \in Int
    BY <1>1
  <2> QED
    BY <1>1, <1>2, <2>1, TimesNat
<1>4. y * x \in Int /\ z * x \in Int /\ y * x <= z * x
  <2>1. y \in Int /\ z \in Int
    BY <1>1
  <2> QED
    BY <1>1, <1>2, <2>1, TimesNat
<1>5. y * x = x * y /\ z * x = x * z /\ w * y \in Nat /\ x * z \in Nat
  BY <1>1
<1> DEFINE i == w * y
           j == x * y
           k == x * z
<1>6. i \in Nat /\ j \in Int /\ k \in Nat /\ i <= j /\ j <= k
  BY <1>3, <1>4, <1>5
<1>7. i <= k
  <2> HIDE DEF i, j, k
  <2> QED
    BY <1>6
<1> QED
  BY <1>6, <1>7 DEF w, x, y, z

\* A stride of 1 samples all, one as long as the axis the first only.
LEMMA ExtremeStrides ==
  ASSUME NEW a \in Nat, NEW s \in Nat \ {0}
  PROVE  /\ CeilDiv(a, 1) = a
         /\ a > 0 /\ a <= s => CeilDiv(a, s) = 1
<1>1. CeilDiv(a, 1) = a
  <2>1. a + 1 - 1 = a
    OBVIOUS
  <2>2. \A x \in Nat : x \div 1 = x
    BY SMT
  <2> QED
    BY <2>1, <2>2 DEF CeilDiv
<1>2. ASSUME a > 0, a <= s PROVE CeilDiv(a, s) = 1
  <2> DEFINE d == CeilDiv(a, s)
  <2>1. d \in Nat /\ d > 0
    BY <1>2, CeilDivFacts
  <2>2. 1 * s < a <=> 1 < d
    <3>1. \A x \in Int : x * s < a <=> x < d
      BY CeilDivFacts
    <3> HIDE DEF d
    <3> QED
      BY <3>1
  <2>3. 1 * s = s
    OBVIOUS
  <2> HIDE DEF d
  <2>4. d = 1
    BY <1>2, <2>1, <2>2, <2>3
  <2> QED
    BY <2>4 DEF d
<1> QED
  BY <1>1, <1>2

\* A budget, or none.
IsBudget(m) == m = Unlimited \/ (m \in Int /\ m >= 1)
FitsBudget(rows, cols, m, s) == m = Unlimited \/ CeilDiv(rows, s) * CeilDiv(cols, s) <= m

\* Once a stride fits every larger one does.
LEMMA LargerFits ==
  ASSUME NEW rows \in Nat, NEW cols \in Nat, NEW m, IsBudget(m),
         NEW s \in Nat \ {0}, NEW t \in Nat \ {0}, s <= t, FitsBudget(rows, cols, m, s)
  PROVE  FitsBudget(rows, cols, m, t)
<1> DEFINE x == CeilDiv(rows, s) * CeilDiv(cols, s)
           y == CeilDiv(rows, t) * CeilDiv(cols, t)
<1>1. x \in Nat /\ y \in Nat /\ y <= x
  BY FewerSamplesInBox
<1>2. m = Unlimited \/ (m \in Int /\ x <= m)
  BY DEF IsBudget, FitsBudget
<1>3. m = Unlimited \/ y <= m
  <2> HIDE DEF x, y
  <2> QED
    BY <1>1, <1>2
<1> QED
  BY <1>3 DEF FitsBudget

\* The stride is the smallest that fits.
LEMMA StrideIsLeast ==
  ASSUME NEW rows \in Nat, NEW cols \in Nat, rows > 0, cols > 0, NEW m, IsBudget(m)
  PROVE  /\ ComputeStride(rows, cols, m) \in Nat \ {0}
         /\ \A s \in 1..(ComputeStride(rows, cols, m) - 1) : ~FitsBudget(rows, cols, m, s)
         /\ FitsBudget(rows, cols, m, ComputeStride(rows, cols, m))
<1> DEFINE longest == Max({rows, cols})
           samples(s) == CeilDiv(rows, s) * CeilDiv(cols, s)
           S == {s \in 1..longest : samples(s) > m}
           t == ComputeStride(rows, cols, m)
<1>1. longest \in Nat \ {0} /\ rows <= longest /\ cols <= longest
  <2>1. /\ Span({rows, cols}) \in Int \X Int
        /\ rows <= cols => Span({rows, cols}) = <<rows, cols>>
        /\ cols <= rows => Span({rows, cols}) = <<cols, rows>>
    BY SpanOfTwo
  <2>2. longest = Span({rows, cols})[2]
    BY DEF Span
  <2> HIDE DEF longest
  <2> QED
    BY <2>1, <2>2
<1>2. t = IF m = Unlimited \/ rows * cols <= m THEN 1 ELSE Bisect(1, longest, S)
  BY DEF ComputeStride
<1>3. CASE m = Unlimited \/ rows * cols <= m
  <2>1. t = 1
    BY <1>2, <1>3
  <2>2. CeilDiv(rows, 1) = rows /\ CeilDiv(cols, 1) = cols
    <3>1. 1 \in Nat \ {0}
      OBVIOUS
    <3> QED
      BY <3>1, ExtremeStrides
  <2>3. FitsBudget(rows, cols, m, t)
    BY <1>3, <2>1, <2>2 DEF FitsBudget
  <2> HIDE DEF t
  <2>4. t \in Nat \ {0} /\ 1..(t - 1) = {}
    BY <2>1
  <2>5. t \in Nat \ {0} /\ (\A s \in 1..(t - 1) : ~FitsBudget(rows, cols, m, s)) /\ FitsBudget(rows, cols, m, t)
    BY <2>3, <2>4
  <2> QED
    BY <2>5 DEF t
<1>4. CASE ~(m = Unlimited \/ rows * cols <= m)
  <2>1. t = Bisect(1, longest, S) /\ m # Unlimited /\ m \in Int /\ m >= 1
    BY <1>2, <1>4 DEF IsBudget
  <2>2. \A s \in Nat \ {0} : FitsBudget(rows, cols, m, s) <=> samples(s) <= m
    BY <2>1 DEF FitsBudget
  <2>3. \A s \in Nat \ {0} : samples(s) \in Nat
    <3> TAKE s \in Nat \ {0}
    <3>1. s <= s
      OBVIOUS
    <3> QED
      BY <3>1, FewerSamplesInBox
  <2> HIDE DEF samples
  <2>4. \A s \in 1..longest : s \in S <=> ~FitsBudget(rows, cols, m, s)
    <3> TAKE s \in 1..longest
    <3>1. s \in Nat \ {0} /\ samples(s) \in Nat
      BY <2>3
    <3>2. FitsBudget(rows, cols, m, s) <=> samples(s) <= m
      BY <2>2, <3>1
    <3>3. samples(s) > m <=> ~(samples(s) <= m)
      BY <2>1, <3>1
    <3>4. s \in S <=> samples(s) > m
      OBVIOUS
    <3> QED
      BY <3>2, <3>3, <3>4
  <2> DEFINE P == {0} \cup S
  <2>5. \A i, j \in 0..(longest - 1) : i < j /\ j \in P => i \in P
    <3> TAKE i, j \in 0..(longest - 1)
    <3> HAVE i < j /\ j \in P
    <3>1. CASE i = 0
      BY <3>1
    <3>2. CASE i # 0
      <4> HIDE DEF longest, S
      <4>1. /\ i \in 1..longest /\ j \in 1..longest /\ i <= j
            /\ i \in Nat \ {0} /\ j \in Nat \ {0} /\ j \in S
        BY <1>1, <3>2
      <4>2. ~FitsBudget(rows, cols, m, j)
        BY <2>4, <4>1
      <4>3. ~FitsBudget(rows, cols, m, i)
        BY <4>1, <4>2, LargerFits
      <4> QED
        BY <2>4, <4>1, <4>3
    <3> QED
      BY <3>1, <3>2
  <2>6. PICK cut \in 0..longest : \A i \in 0..(longest - 1) : i \in P <=> i < cut
    <3> HIDE DEF longest, P
    <3>1. longest \in Nat
      BY <1>1
    <3> QED
      BY <2>5, <3>1, PrefixEnds
  <2> HIDE DEF longest, S
  <2>7. cut \in 1..longest
    <3>1. 0 \in 0..(longest - 1) /\ 0 \in P
      BY <1>1
    <3>2. 0 < cut
      BY <2>6, <3>1
    <3> QED
      BY <1>1, <3>2
  <2>8. \A i \in 1..(longest - 1) : i \in S <=> i < cut
    <3> TAKE i \in 1..(longest - 1)
    <3>1. i \in 0..(longest - 1) /\ i # 0
      BY <1>1
    <3>2. i \in P <=> i \in S
      BY <3>1
    <3> QED
      BY <2>6, <3>1, <3>2
  <2>9. t = cut
    <3>1. 1 \in Int /\ longest \in Int /\ 1 <= longest
      BY <1>1
    <3>2. Bisect(1, longest, S) = cut
      BY <2>7, <2>8, <3>1, BisectFinds
    <3> QED
      BY <2>1, <3>2
  <2>10. ASSUME NEW s \in 1..(cut - 1) PROVE ~FitsBudget(rows, cols, m, s)
    <3>1. s \in 1..(longest - 1) /\ s \in 1..longest /\ s < cut
      BY <1>1, <2>7
    <3>2. s \in S
      BY <2>8, <3>1
    <3> QED
      BY <2>4, <3>1, <3>2
  <2>11. FitsBudget(rows, cols, m, cut)
    <3>1. CASE cut \in 1..(longest - 1)
      <4>1. cut \in 1..longest /\ ~(cut < cut)
        BY <1>1, <3>1
      <4>2. cut \notin S
        BY <2>8, <3>1, <4>1
      <4> QED
        BY <2>4, <4>1, <4>2
    <3>2. CASE cut = longest
      <4>1. CeilDiv(rows, longest) = 1 /\ CeilDiv(cols, longest) = 1
        BY <1>1, ExtremeStrides
      <4>2. samples(longest) = 1 * 1
        BY <4>1 DEF samples
      <4>3. 1 * 1 = 1 /\ cut \in Nat \ {0}
        BY <1>1, <3>2
      <4> QED
        BY <2>1, <2>2, <3>2, <4>2, <4>3
    <3> QED
      BY <1>1, <2>7, <3>1, <3>2
  <2>12. cut \in Nat \ {0}
    BY <2>7
  <2> HIDE DEF t
  <2>13. t \in Nat \ {0} /\ (\A s \in 1..(t - 1) : ~FitsBudget(rows, cols, m, s)) /\ FitsBudget(rows, cols, m, t)
    BY <2>9, <2>10, <2>11, <2>12
  <2> QED
    BY <2>13 DEF t
<1> QED
  BY <1>3, <1>4

\* What is gathered from the box loses none of the cells that are kept.
LEMMA GatherLosesNone ==
  ASSUME query \in Queries, IsRing(query.ring), bbox = RightBox(query), stride \in Nat \ {0},
         HasCells(bbox) => cells = GatherCells(query, bbox, stride),
         ~HasCells(bbox) => cells = <<>> /\ stride = 1,
         cells # <<>> \/ stride = 1
  PROVE  BoxLosesNone
<1> DEFINE l == query.layout
           kept == {c \in Grid(l) : Kept(query, c)}
<1>1. /\ FitsGrid(bbox, l)
      /\ \A c \in Grid(l) : Kept(query, c) => c \in BoxCells(bbox)
  BY BoxKeeps
<1>2. IsBox(bbox)
  BY <1>1 DEF FitsGrid
<1>3. BoxCells(bbox) \subseteq Grid(l)
  <2>1. IsLayout(l)
    BY QueryFacts
  <2>2. l.rows \in Nat /\ l.cols \in Nat
    BY <2>1 DEF IsLayout
  <2> HIDE DEF l
  <2> QED
    BY <1>1, <2>2, BoxWithinGrid
<1>4. CASE HasCells(bbox)
  <2>1. IsSelection(cells, query, bbox, stride)
    BY <1>2, <1>4, GatherFacts
  <2>2. \A c : Sampled(c) <=> SampledOf(bbox, stride, c)
    BY DEF Sampled, SampledBy, SampledOf
  <2>3. \A c : c \in ToSet(cells) <=> c \in BoxCells(bbox) /\ Kept(query, c) /\ SampledOf(bbox, stride, c)
    BY <2>1 DEF IsSelection
  <2>4. ToSet(cells) = {c \in kept : Sampled(c)}
    BY <1>1, <1>3, <2>2, <2>3
  <2>5. \A m, n \in DOMAIN cells : m < n => RowMajor(cells[m], cells[n])
    BY <2>1 DEF IsSelection
  <2>6. ASSUME kept # {} PROVE cells # <<>>
    <3> SUFFICES ASSUME cells = <<>> PROVE FALSE
      OBVIOUS
    <3>1. PICK c \in kept : TRUE
      BY <2>6
    <3>2. c \in BoxCells(bbox) /\ Kept(query, c)
      BY <1>1
    <3>3. SampledOf(bbox, stride, c)
      <4>1. c[1] \in Int /\ c[2] \in Int /\ bbox.rMin \in Int /\ bbox.cMin \in Int
        BY <1>2, <3>2 DEF BoxCells, IsBox
      <4>2. \A x \in Int : x % 1 = 0
        BY SMT
      <4>3. c[1] - bbox.rMin \in Int /\ c[2] - bbox.cMin \in Int
        BY <4>1
      <4> QED
        BY <4>2, <4>3 DEF SampledOf
    <3>4. c \in ToSet(cells)
      BY <2>3, <3>2, <3>3
    <3> QED
      BY <3>4 DEF ToSet
  <2> QED
    BY <2>4, <2>5, <2>6 DEF BoxLosesNone
<1>5. CASE ~HasCells(bbox)
  <2>1. BoxCells(bbox) = {}
    BY <1>2, <1>5 DEF BoxCells, HasCells, IsBox
  <2>2. kept = {}
    BY <1>1, <2>1
  <2>3. ToSet(cells) = {} /\ DOMAIN cells = {}
    BY <1>5 DEF ToSet
  <2> QED
    BY <2>2, <2>3 DEF BoxLosesNone
<1> QED
  BY <1>4, <1>5

------------------------------------------------------------------------------
(* Rays in two directions *)

Flip(v) == <<v[2], v[1]>>
FlipRing(ring) == [n \in DOMAIN ring |-> Flip(ring[n])]

\* A ring with latitude and longitude exchanged.
LEMMA FlipFacts ==
  ASSUME NEW ring, IsRing(ring)
  PROVE  /\ IsRing(FlipRing(ring)) /\ Len(FlipRing(ring)) = Len(ring)
         /\ \A n \in 1..Len(ring) : /\ FlipRing(ring)[n] = Flip(ring[n])
                                    /\ Previous(FlipRing(ring), n) = Flip(Previous(ring, n))
<1> DEFINE k == Len(ring)
           f == FlipRing(ring)
<1>1. k \in Nat \ {0} /\ DOMAIN ring = 1..k
  BY RingFacts
<1>2. \A n \in 1..k : ring[n] \in Int \X Int
  BY RingFacts
<1>3. f \in [1..k -> Int \X Int]
  BY <1>1, <1>2 DEF FlipRing, Flip
<1>4. f \in Seq(Int \X Int)
  BY <1>1, <1>3
<1>5. Len(f) = k
  <2>1. DOMAIN f = 1..k
    BY <1>3
  <2> HIDE DEF f
  <2> QED
    BY <1>1, <1>4, <2>1
<1>6. \A n \in 1..k : f[n] = Flip(ring[n])
  BY <1>1 DEF FlipRing
<1> HIDE DEF f
<1>7. ASSUME NEW n \in 1..k PROVE Previous(f, n) = Flip(Previous(ring, n))
  <2>1. Before(n, k) \in 1..k /\ Previous(ring, n) = ring[Before(n, k)]
    BY RingFacts
  <2>2. Previous(f, n) = f[Before(n, k)]
    BY <1>5 DEF Previous, Before
  <2> QED
    BY <1>6, <2>1, <2>2
<1> QED
  BY <1>1, <1>4, <1>5, <1>6, <1>7 DEF IsRing, f

BeyondBoth(v, p) == v[1] > p[1] /\ v[2] > p[2]

\* A segment that p is not on crosses just one of the rays from p in the two directions
\* when just one of its ends lies between these rays.
LEMMA TwoRays ==
  ASSUME NEW p \in Int \X Int, NEW a \in Int \X Int, NEW b \in Int \X Int,
         ~(Cross(b, a, p) = 0 /\ OnSegment(p, b, a))
  PROVE  (Crosses(p, a, b) <=> Crosses(Flip(p), Flip(a), Flip(b))) <=> (BeyondBoth(a, p) <=> BeyondBoth(b, p))
<1> DEFINE X == (p[2] - a[2]) * (b[1] - a[1])
           Y == (b[2] - a[2]) * (p[1] - a[1])
           C == Crosses(p, a, b)
           D == Crosses(Flip(p), Flip(a), Flip(b))
<1>1. /\ p[1] \in Int /\ p[2] \in Int /\ a[1] \in Int /\ a[2] \in Int /\ b[1] \in Int /\ b[2] \in Int
  OBVIOUS
<1>2. X \in Int /\ Y \in Int
  BY <1>1
<1>3. C <=> /\ (a[1] > p[1]) # (b[1] > p[1])
            /\ IF b[1] - a[1] > 0 THEN X < Y ELSE X > Y
  BY DEF Crosses
<1>4. D <=> /\ (a[2] > p[2]) # (b[2] > p[2])
            /\ IF b[2] - a[2] > 0 THEN Y < X ELSE Y > X
  <2> DEFINE U == (p[1] - a[1]) * (b[2] - a[2])
             W == (b[1] - a[1]) * (p[2] - a[2])
  <2>1. D <=> /\ (a[2] > p[2]) # (b[2] > p[2])
              /\ IF b[2] - a[2] > 0 THEN U < W ELSE U > W
    BY DEF Crosses, Flip
  <2>2. U = Y /\ W = X
    BY <1>1
  <2> HIDE DEF U, W, X, Y
  <2> QED
    BY <2>1, <2>2
<1>5. ~(a[2] > p[2]) /\ ~(b[2] > p[2]) => ~C
  <2>1. a[2] <= p[2] /\ b[2] <= p[2] => ~C
    BY CrossesBeyond
  <2> QED
    BY <1>1, <2>1
<1>6. (a[1] > p[1]) # (b[1] > p[1]) /\ a[2] > p[2] /\ b[2] > p[2] => C
  <2>1. (a[1] > p[1]) # (b[1] > p[1]) /\ p[2] < a[2] /\ p[2] < b[2] => C
    BY CrossesBeyond
  <2> QED
    BY <1>1, <2>1
<1>7. Flip(p) \in Int \X Int /\ Flip(a) \in Int \X Int /\ Flip(b) \in Int \X Int
  BY DEF Flip
<1>8. ~(a[1] > p[1]) /\ ~(b[1] > p[1]) => ~D
  <2>1. Flip(a)[2] <= Flip(p)[2] /\ Flip(b)[2] <= Flip(p)[2] => ~D
    BY <1>7, CrossesBeyond
  <2> HIDE DEF D
  <2> QED
    BY <1>1, <2>1 DEF Flip
<1>9. (a[2] > p[2]) # (b[2] > p[2]) /\ a[1] > p[1] /\ b[1] > p[1] => D
  <2>1. (Flip(a)[1] > Flip(p)[1]) # (Flip(b)[1] > Flip(p)[1]) /\ Flip(p)[2] < Flip(a)[2] /\ Flip(p)[2] < Flip(b)[2]
          => D
    BY <1>7, CrossesBeyond
  <2> HIDE DEF D
  <2> QED
    BY <1>1, <2>1 DEF Flip
<1>10. (a[1] > p[1]) # (b[1] > p[1]) /\ (a[2] > p[2]) # (b[2] > p[2]) => X # Y
  <2> SUFFICES ASSUME (a[1] > p[1]) # (b[1] > p[1]), (a[2] > p[2]) # (b[2] > p[2]), X = Y
               PROVE  Cross(b, a, p) = 0 /\ OnSegment(p, b, a)
    OBVIOUS
  <2>1. Cross(b, a, p) = Y - X
    BY <1>1 DEF Cross
  <2>2. Cross(b, a, p) = 0
    <3> HIDE DEF X, Y
    <3> QED
      BY <1>2, <2>1
  <2>3. Within(p[1], Span({b[1], a[1]}))
    <3>1. (b[1] <= p[1] /\ p[1] <= a[1]) \/ (a[1] <= p[1] /\ p[1] <= b[1])
      BY <1>1
    <3> QED
      BY <1>1, <3>1, SpanOfTwo
  <2>4. Within(p[2], Span({b[2], a[2]}))
    <3>1. (b[2] <= p[2] /\ p[2] <= a[2]) \/ (a[2] <= p[2] /\ p[2] <= b[2])
      BY <1>1
    <3> QED
      BY <1>1, <3>1, SpanOfTwo
  <2> QED
    BY <2>2, <2>3, <2>4 DEF OnSegment
<1> HIDE DEF X, Y, C, D
<1>11. (C <=> D) <=> (BeyondBoth(a, p) <=> BeyondBoth(b, p))
  <2>1. CASE (a[1] > p[1]) # (b[1] > p[1]) /\ (a[2] > p[2]) # (b[2] > p[2])
    BY <1>1, <1>2, <1>3, <1>4, <1>10, <2>1 DEF BeyondBoth
  <2>2. CASE ~((a[1] > p[1]) # (b[1] > p[1]))
    BY <1>3, <1>4, <1>8, <1>9, <2>2 DEF BeyondBoth
  <2>3. CASE ~((a[2] > p[2]) # (b[2] > p[2]))
    BY <1>3, <1>4, <1>5, <1>6, <2>3 DEF BeyondBoth
  <2> QED
    BY <2>1, <2>2, <2>3
<1> QED
  BY <1>11 DEF C, D

\* Off the ring, the rays in both directions agree.
THEOREM RaysAgree ==
  ASSUME NEW ring, IsRing(ring), NEW p \in Int \X Int, ~OnRing(p, ring)
  PROVE  PointInPolygon(Flip(p), FlipRing(ring)) <=> PointInPolygon(p, ring)
<1> DEFINE k == Len(ring)
           N == 1..k
           C == Crossing(p, ring)
           D == Crossing(Flip(p), FlipRing(ring))
           P == {n \in N : BeyondBoth(ring[n], p)}
<1>1. k \in Nat \ {0} /\ DOMAIN ring = N
  BY RingFacts
<1>2. \A n \in N : /\ ring[n] \in Int \X Int /\ Previous(ring, n) \in Int \X Int
                   /\ Before(n, k) \in N /\ Previous(ring, n) = ring[Before(n, k)]
  BY RingFacts
<1>3. IsRing(FlipRing(ring)) /\ Len(FlipRing(ring)) = k /\ DOMAIN FlipRing(ring) = N
  BY <1>1, FlipFacts DEF FlipRing
<1>4. C \in SUBSET N /\ D \in SUBSET N
  BY <1>1, <1>3 DEF Crossing
<1>5. ASSUME NEW n \in N
      PROVE  ((n \in C) # (n \in D)) <=> ((n \in P) # (Before(n, k) \in P))
  <2> DEFINE a == ring[n]
             b == Previous(ring, n)
  <2>1. a \in Int \X Int /\ b \in Int \X Int
    BY <1>2
  <2>2. ~(Cross(b, a, p) = 0 /\ OnSegment(p, b, a))
    BY <1>1 DEF OnRing
  <2>3. n \in C <=> Crosses(p, a, b)
    BY <1>1 DEF Crossing
  <2>4. n \in D <=> Crosses(Flip(p), Flip(a), Flip(b))
    <3>1. FlipRing(ring)[n] = Flip(a) /\ Previous(FlipRing(ring), n) = Flip(b)
      BY FlipFacts
    <3> HIDE DEF a, b
    <3> QED
      BY <1>3, <3>1 DEF Crossing
  <2>5. n \in P <=> BeyondBoth(a, p)
    OBVIOUS
  <2>6. Before(n, k) \in P <=> BeyondBoth(b, p)
    BY <1>2
  <2> HIDE DEF a, b, C, D, P
  <2>7. (Crosses(p, a, b) <=> Crosses(Flip(p), Flip(a), Flip(b))) <=> (BeyondBoth(a, p) <=> BeyondBoth(b, p))
    BY <2>1, <2>2, TwoRays
  <2> QED
    BY <2>3, <2>4, <2>5, <2>6, <2>7
<1> DEFINE R == {n \in N : Before(n, k) \in P}
<1>6. Differ(C, D, N) = Differ(P, R, N)
  <2> HIDE DEF C, D, P, N
  <2>1. \A n \in N : (n \in R) <=> (Before(n, k) \in P)
    OBVIOUS
  <2> HIDE DEF R
  <2> QED
    BY <1>5, <2>1 DEF Differ
<1>7. ~Odd(Differ(P, R, N))
  <2>1. P \in SUBSET (1..k)
    OBVIOUS
  <2> HIDE DEF P
  <2> QED
    BY <1>1, <2>1, ChangesEven
<1>8. Odd(C) <=> Odd(D)
  <2>1. IsFiniteSet(N)
    BY <1>1, FS_Interval
  <2> HIDE DEF C, D, P, N, R
  <2>2. Odd(Differ(C, D, N)) <=> (Odd(C) # Odd(D))
    BY <1>4, <2>1, OddDiffer
  <2> QED
    BY <1>6, <1>7, <2>2 DEF Odd
<1> QED
  BY <1>8 DEF PointInPolygon, Odd, Crossing

\* Inside, by the ray in the other direction, is what the code computes.
LEMMA InsideIsIn ==
  ASSUME NEW ring, IsRing(ring), NEW p \in Int \X Int
  PROVE  Inside(p, ring) <=> ~OnRing(p, ring) /\ PointInPolygon(p, ring)
<1>1. Inside(p, ring) <=> ~OnRing(p, ring) /\ PointInPolygon(Flip(p), FlipRing(ring))
  BY DEF Inside, Flip, FlipRing
<1> QED
  BY <1>1, RaysAgree

------------------------------------------------------------------------------
(* Edges and sides *)

\* The intervals spanned by x and y has z.
Amid(z, x, y) == (x <= z /\ z <= y) \/ (y <= z /\ z <= x)

Opposite(x, y) == (x <= 0 /\ 0 <= y) \/ (y <= 0 /\ 0 <= x)
StrictlyOpposite(x, y) == (x < 0 /\ 0 < y) \/ (y < 0 /\ 0 < x)

\* The sign of a product.
LEMMA ProductSigns ==
  ASSUME NEW i \in Int, NEW j \in Int
  PROVE  /\ i * j \in Int
         /\ i > 0 /\ j > 0 => i * j > 0
         /\ i > 0 /\ j < 0 => i * j < 0
         /\ i < 0 /\ j > 0 => i * j < 0
         /\ i < 0 /\ j < 0 => i * j > 0
         /\ i = 0 \/ j = 0 => i * j = 0
<1>1. \A x, y \in Int : x > 0 /\ y > 0 => x * y > 0
  <2> TAKE x, y \in Int
  <2> HAVE x > 0 /\ y > 0
  <2>1. y \in Nat /\ y > 0 /\ x > 0
    OBVIOUS
  <2>2. 0 * y < x * y
    BY <2>1, TimesNat
  <2> QED
    BY <2>2
<1>2. /\ i * (-j) = -(i * j) /\ (-i) * j = -(i * j) /\ (-i) * (-j) = i * j
      /\ i * j \in Int /\ -i \in Int /\ -j \in Int
  OBVIOUS
<1>3. i > 0 /\ j > 0 => i * j > 0
  BY <1>1
<1>4. i > 0 /\ j < 0 => i * (-j) > 0
  BY <1>1, <1>2
<1>5. i < 0 /\ j > 0 => (-i) * j > 0
  BY <1>1, <1>2
<1>6. i < 0 /\ j < 0 => (-i) * (-j) > 0
  BY <1>1, <1>2
<1>7. i = 0 \/ j = 0 => i * j = 0
  OBVIOUS
<1> DEFINE ij == i * j
<1> HIDE DEF ij
<1>8. /\ ij \in Int
      /\ i > 0 /\ j > 0 => ij > 0
      /\ i > 0 /\ j < 0 => -ij > 0
      /\ i < 0 /\ j > 0 => -ij > 0
      /\ i < 0 /\ j < 0 => ij > 0
      /\ i = 0 \/ j = 0 => ij = 0
  BY <1>2, <1>3, <1>4, <1>5, <1>6, <1>7 DEF ij
<1>9. /\ ij \in Int
      /\ i > 0 /\ j > 0 => ij > 0
      /\ i > 0 /\ j < 0 => ij < 0
      /\ i < 0 /\ j > 0 => ij < 0
      /\ i < 0 /\ j < 0 => ij > 0
      /\ i = 0 \/ j = 0 => ij = 0
  BY <1>8
<1> QED
  BY <1>9 DEF ij

\* On which side of the edge from (a, c) to (b, d) the point (h, z) lies.
SideOf(a, b, c, d, h, z) == (z - c) * (b - a) - (d - c) * (h - a)

\* a is beyond h and b is not, or the other way round.
Astride(a, b, h) == (a > h) # (b > h)

\* How the edge from (a, c) to (b, d) meets the side from (h, x) to (h, y).
MeetsSide(a, b, c, d, h, x, y) ==
  \/ /\ StrictlyOpposite((y - x) * (a - h), (y - x) * (b - h))
     /\ StrictlyOpposite(SideOf(a, b, c, d, h, x), SideOf(a, b, c, d, h, y))
  \/ SideOf(a, b, c, d, h, x) = 0 /\ Amid(h, a, b) /\ Amid(x, c, d)
  \/ SideOf(a, b, c, d, h, y) = 0 /\ Amid(h, a, b) /\ Amid(y, c, d)
  \/ a = h /\ Amid(c, x, y)
  \/ b = h /\ Amid(d, x, y)

\* An edge whose ends are astride a line, and that has the ends of a side on this
\* line on its two sides, meets the side.
LEMMA SideMet ==
  ASSUME NEW a \in Int, NEW b \in Int, NEW c \in Int, NEW d \in Int,
         NEW h \in Int, NEW x \in Int, NEW y \in Int,
         Astride(a, b, h),
         Opposite(SideOf(a, b, c, d, h, x), SideOf(a, b, c, d, h, y))
  PROVE  MeetsSide(a, b, c, d, h, x, y)
<1> DEFINE rise == b - a
           up == h - a
           gx == SideOf(a, b, c, d, h, x)
           gy == SideOf(a, b, c, d, h, y)
<1>1. rise \in Int /\ up \in Int /\ rise # 0 /\ ((0 <= up /\ up <= rise) \/ (rise <= up /\ up <= 0))
  BY DEF Astride
<1>2. Amid(h, a, b)
  BY DEF Amid, Astride
<1>3. ASSUME NEW z \in Int
      PROVE  /\ SideOf(a, b, c, d, h, z) \in Int
             /\ SideOf(a, b, c, d, h, z) = 0 => Amid(z, c, d)
             /\ a = h => SideOf(a, b, c, d, h, z) = (z - c) * rise
             /\ b = h => SideOf(a, b, c, d, h, z) = (z - d) * rise
  <2> DEFINE u == z - c
             w == d - c
             g == u * rise - w * up
  <2>1. u \in Int /\ w \in Int /\ g = SideOf(a, b, c, d, h, z)
    BY DEF SideOf
  <2>2. /\ g \in Int
        /\ u < 0 /\ u < w => IF rise > 0 THEN g < 0 ELSE g > 0
        /\ u > 0 /\ u > w => IF rise > 0 THEN g > 0 ELSE g < 0
    <3> HIDE DEF u, w, rise, up
    <3>1. /\ u * rise - w * up \in Int
          /\ u < 0 /\ u < w => IF rise > 0 THEN u * rise - w * up < 0 ELSE u * rise - w * up > 0
          /\ u > 0 /\ u > w => IF rise > 0 THEN u * rise - w * up > 0 ELSE u * rise - w * up < 0
      BY <1>1, <2>1, BeyondEither
    <3> QED
      BY <3>1
  <2>3. g = 0 => ~(u < 0 /\ u < w) /\ ~(u > 0 /\ u > w)
    <3> HIDE DEF g, u, w, rise, up
    <3> QED
      BY <2>2
  <2>4. g = 0 => Amid(z, c, d)
    <3> HIDE DEF g
    <3> QED
      BY <2>3 DEF Amid
  <2>5. a = h => g = (z - c) * rise
    <3>1. a = h => up = 0
      OBVIOUS
    <3> HIDE DEF rise, up
    <3>2. a = h => w * up = 0
      BY <2>1, <3>1
    <3>3. u * rise \in Int
      BY <1>1, <2>1
    <3> QED
      BY <3>2, <3>3
  <2>6. b = h => g = (z - d) * rise
    <3>1. b = h => up = rise
      OBVIOUS
    <3> HIDE DEF rise, up
    <3>2. b = h => g = u * rise - w * rise
      BY <3>1
    <3>3. u * rise - w * rise = (u - w) * rise
      BY <1>1, <2>1
    <3>4. u - w = z - d
      OBVIOUS
    <3> HIDE DEF u, w, g
    <3> QED
      BY <3>2, <3>3, <3>4
  <2> HIDE DEF g
  <2> QED
    BY <2>1, <2>2, <2>4, <2>5, <2>6
<1>4. gx \in Int /\ gy \in Int /\ Opposite(gx, gy)
  BY <1>3
<1>5. gx = 0 => Amid(x, c, d)
  BY <1>3
<1>6. gy = 0 => Amid(y, c, d)
  BY <1>3
<1>7. ASSUME StrictlyOpposite(gx, gy), a = h PROVE Amid(c, x, y)
  <2>1. gx = (x - c) * rise /\ gy = (y - c) * rise
    BY <1>3, <1>7
  <2> DEFINE s == x - c
             t == y - c
  <2>2. s \in Int /\ t \in Int /\ StrictlyOpposite(s * rise, t * rise)
    BY <1>7, <2>1
  <2>3. Opposite(s, t)
    <3> HIDE DEF s, t, rise
    <3> DEFINE sr == s * rise
               tr == t * rise
    <3>1. /\ sr \in Int
          /\ s > 0 /\ rise > 0 => sr > 0
          /\ s > 0 /\ rise < 0 => sr < 0
          /\ s < 0 /\ rise > 0 => sr < 0
          /\ s < 0 /\ rise < 0 => sr > 0
          /\ s = 0 \/ rise = 0 => sr = 0
      BY <1>1, <2>2, ProductSigns
    <3>2. /\ tr \in Int
          /\ t > 0 /\ rise > 0 => tr > 0
          /\ t > 0 /\ rise < 0 => tr < 0
          /\ t < 0 /\ rise > 0 => tr < 0
          /\ t < 0 /\ rise < 0 => tr > 0
          /\ t = 0 \/ rise = 0 => tr = 0
      BY <1>1, <2>2, ProductSigns
    <3>3. StrictlyOpposite(sr, tr)
      BY <2>2
    <3> HIDE DEF sr, tr
    <3> QED
      BY <1>1, <2>2, <3>1, <3>2, <3>3 DEF StrictlyOpposite, Opposite
  <2> QED
    BY <2>3 DEF Opposite, Amid
<1>8. ASSUME StrictlyOpposite(gx, gy), b = h PROVE Amid(d, x, y)
  <2>1. gx = (x - d) * rise /\ gy = (y - d) * rise
    BY <1>3, <1>8
  <2> DEFINE s == x - d
             t == y - d
  <2>2. s \in Int /\ t \in Int /\ StrictlyOpposite(s * rise, t * rise)
    BY <1>8, <2>1
  <2>3. Opposite(s, t)
    <3> HIDE DEF s, t, rise
    <3> DEFINE sr == s * rise
               tr == t * rise
    <3>1. /\ sr \in Int
          /\ s > 0 /\ rise > 0 => sr > 0
          /\ s > 0 /\ rise < 0 => sr < 0
          /\ s < 0 /\ rise > 0 => sr < 0
          /\ s < 0 /\ rise < 0 => sr > 0
          /\ s = 0 \/ rise = 0 => sr = 0
      BY <1>1, <2>2, ProductSigns
    <3>2. /\ tr \in Int
          /\ t > 0 /\ rise > 0 => tr > 0
          /\ t > 0 /\ rise < 0 => tr < 0
          /\ t < 0 /\ rise > 0 => tr < 0
          /\ t < 0 /\ rise < 0 => tr > 0
          /\ t = 0 \/ rise = 0 => tr = 0
      BY <1>1, <2>2, ProductSigns
    <3>3. StrictlyOpposite(sr, tr)
      BY <2>2
    <3> HIDE DEF sr, tr
    <3> QED
      BY <1>1, <2>2, <3>1, <3>2, <3>3 DEF StrictlyOpposite, Opposite
  <2> QED
    BY <2>3 DEF Opposite, Amid
<1>9. ASSUME StrictlyOpposite(gx, gy), a # h, b # h
      PROVE  StrictlyOpposite((y - x) * (a - h), (y - x) * (b - h))
  <2> DEFINE l == y - x
             s == a - h
             t == b - h
             ls == l * s
             lt == l * t
  <2>1. l \in Int /\ s \in Int /\ t \in Int /\ StrictlyOpposite(s, t)
    BY <1>9 DEF StrictlyOpposite, Astride
  <2>2. l # 0
    <3> SUFFICES ASSUME x = y PROVE FALSE
      OBVIOUS
    <3>1. gx = gy
      OBVIOUS
    <3> HIDE DEF gx, gy
    <3> QED
      BY <1>4, <1>9, <3>1 DEF StrictlyOpposite
  <2> HIDE DEF l, s, t
  <2>3. /\ ls \in Int
        /\ l > 0 /\ s > 0 => ls > 0
        /\ l > 0 /\ s < 0 => ls < 0
        /\ l < 0 /\ s > 0 => ls < 0
        /\ l < 0 /\ s < 0 => ls > 0
        /\ l = 0 \/ s = 0 => ls = 0
    BY <2>1, ProductSigns
  <2>4. /\ lt \in Int
        /\ l > 0 /\ t > 0 => lt > 0
        /\ l > 0 /\ t < 0 => lt < 0
        /\ l < 0 /\ t > 0 => lt < 0
        /\ l < 0 /\ t < 0 => lt > 0
        /\ l = 0 \/ t = 0 => lt = 0
    BY <2>1, ProductSigns
  <2> HIDE DEF ls, lt
  <2>5. StrictlyOpposite(ls, lt)
    BY <2>1, <2>2, <2>3, <2>4 DEF StrictlyOpposite
  <2> QED
    BY <2>5 DEF ls, lt, l, s, t
<1> HIDE DEF gx, gy
<1>10. gx = 0 \/ gy = 0 \/ StrictlyOpposite(gx, gy)
  BY <1>4 DEF Opposite, StrictlyOpposite
<1> QED
  <2>1. gx = 0 => gx = 0 /\ Amid(h, a, b) /\ Amid(x, c, d)
    BY <1>2, <1>5
  <2>2. gy = 0 => gy = 0 /\ Amid(h, a, b) /\ Amid(y, c, d)
    BY <1>2, <1>6
  <2> QED
    BY <2>1, <2>2, <1>7, <1>8, <1>9, <1>10 DEF gx, gy, MeetsSide

\* The orientation of three points, and that of the exchanged ones.
LEMMA CrossType ==
  ASSUME NEW o \in Int \X Int, NEW p \in Int \X Int, NEW q \in Int \X Int
  PROVE  Cross(o, p, q) \in Int /\ Cross(p, o, q) = -Cross(o, p, q)
<1>1. o[1] \in Int /\ o[2] \in Int /\ p[1] \in Int /\ p[2] \in Int /\ q[1] \in Int /\ q[2] \in Int
  OBVIOUS
<1> QED
  BY <1>1 DEF Cross

\* On a segment: between its ends on both axes.
LEMMA AmidSegment ==
  ASSUME NEW p \in Int \X Int, NEW o \in Int \X Int, NEW q \in Int \X Int
  PROVE  OnSegment(p, o, q) <=> Amid(p[1], o[1], q[1]) /\ Amid(p[2], o[2], q[2])
<1>1. o[1] \in Int /\ o[2] \in Int /\ p[1] \in Int /\ p[2] \in Int /\ q[1] \in Int /\ q[2] \in Int
  OBVIOUS
<1>2. Within(p[1], Span({o[1], q[1]})) <=> Amid(p[1], o[1], q[1])
  BY <1>1, SpanOfTwo DEF Amid
<1>3. Within(p[2], Span({o[2], q[2]})) <=> Amid(p[2], o[2], q[2])
  BY <1>1, SpanOfTwo DEF Amid
<1> QED
  BY <1>2, <1>3 DEF OnSegment

\* The ways in which two segments touch or cross, whatever their directions.
Touch(e1, e2, s1, s2) ==
  \/ /\ StrictlyOpposite(Cross(s1, s2, e1), Cross(s1, s2, e2))
     /\ StrictlyOpposite(Cross(e1, e2, s1), Cross(e1, e2, s2))
  \/ Cross(e1, e2, s1) = 0 /\ OnSegment(s1, e1, e2)
  \/ Cross(e1, e2, s2) = 0 /\ OnSegment(s2, e1, e2)
  \/ Cross(s1, s2, e1) = 0 /\ OnSegment(e1, s1, s2)
  \/ Cross(s1, s2, e2) = 0 /\ OnSegment(e2, s1, s2)

\* The side is the same in either direction, and so is the edge.
LEMMA TouchIntersects ==
  ASSUME NEW e1 \in Int \X Int, NEW e2 \in Int \X Int, NEW s1 \in Int \X Int, NEW s2 \in Int \X Int,
         Touch(e1, e2, s1, s2)
  PROVE  /\ SegmentsIntersect(e1, e2, s1, s2) /\ SegmentsIntersect(e2, e1, s1, s2)
         /\ SegmentsIntersect(e1, e2, s2, s1) /\ SegmentsIntersect(e2, e1, s2, s1)
<1> DEFINE d1 == Cross(s1, s2, e1)
           d2 == Cross(s1, s2, e2)
           d3 == Cross(e1, e2, s1)
           d4 == Cross(e1, e2, s2)
           f1 == Cross(s2, s1, e1)
           f2 == Cross(s2, s1, e2)
           f3 == Cross(e2, e1, s1)
           f4 == Cross(e2, e1, s2)
           o1 == OnSegment(e1, s1, s2)
           o2 == OnSegment(e2, s1, s2)
           o3 == OnSegment(s1, e1, e2)
           o4 == OnSegment(s2, e1, e2)
<1>1. /\ d1 \in Int /\ d2 \in Int /\ d3 \in Int /\ d4 \in Int
      /\ f1 = -d1 /\ f2 = -d2 /\ f3 = -d3 /\ f4 = -d4
  <2>1. d1 \in Int /\ f1 = -d1
    BY CrossType
  <2>2. d2 \in Int /\ f2 = -d2
    BY CrossType
  <2>3. d3 \in Int /\ f3 = -d3
    BY CrossType
  <2>4. d4 \in Int /\ f4 = -d4
    BY CrossType
  <2> QED
    BY <2>1, <2>2, <2>3, <2>4
<1>2. /\ OnSegment(e1, s2, s1) <=> o1
      /\ OnSegment(e2, s2, s1) <=> o2
      /\ OnSegment(s1, e2, e1) <=> o3
      /\ OnSegment(s2, e2, e1) <=> o4
  <2>1. \A p, o, q : OnSegment(p, o, q) <=> OnSegment(p, q, o)
    <3> TAKE p, o, q
    <3>1. \A i \in {1, 2} : {o[i], q[i]} = {q[i], o[i]}
      OBVIOUS
    <3> QED
      BY <3>1 DEF OnSegment
  <2> QED
    BY <2>1
<1>3. \/ StrictlyOpposite(d1, d2) /\ StrictlyOpposite(d3, d4)
      \/ d3 = 0 /\ o3
      \/ d4 = 0 /\ o4
      \/ d1 = 0 /\ o1
      \/ d2 = 0 /\ o2
  BY DEF Touch
<1> DEFINE Meets(i1, i2, i3, i4, b1, b2, b3, b4) ==
             \/ StrictlyOpposite(i1, i2) /\ StrictlyOpposite(i3, i4)
             \/ i1 = 0 /\ b1
             \/ i2 = 0 /\ b2
             \/ i3 = 0 /\ b3
             \/ i4 = 0 /\ b4
<1>4. Meets(d1, d2, d3, d4, OnSegment(e1, s1, s2), OnSegment(e2, s1, s2),
           OnSegment(s1, e1, e2), OnSegment(s2, e1, e2))
        => SegmentsIntersect(e1, e2, s1, s2)
  <2>1. StrictlyOpposite(d1, d2) => ((d1 > 0) # (d2 > 0))
    BY <1>1 DEF StrictlyOpposite
  <2>2. StrictlyOpposite(d3, d4) => ((d3 > 0) # (d4 > 0))
    BY <1>1 DEF StrictlyOpposite
  <2> QED
    BY <2>1, <2>2, Zenon DEF SegmentsIntersect
<1>5. Meets(d2, d1, f3, f4, OnSegment(e2, s1, s2), OnSegment(e1, s1, s2),
           OnSegment(s1, e2, e1), OnSegment(s2, e2, e1))
        => SegmentsIntersect(e2, e1, s1, s2)
  <2>1. StrictlyOpposite(d2, d1) => ((d2 > 0) # (d1 > 0))
    BY <1>1 DEF StrictlyOpposite
  <2>2. StrictlyOpposite(f3, f4) => ((f3 > 0) # (f4 > 0))
    BY <1>1 DEF StrictlyOpposite
  <2> QED
    BY <2>1, <2>2, Zenon DEF SegmentsIntersect
<1>6. Meets(f1, f2, d4, d3, OnSegment(e1, s2, s1), OnSegment(e2, s2, s1),
           OnSegment(s2, e1, e2), OnSegment(s1, e1, e2))
        => SegmentsIntersect(e1, e2, s2, s1)
  <2>1. StrictlyOpposite(f1, f2) => ((f1 > 0) # (f2 > 0))
    BY <1>1 DEF StrictlyOpposite
  <2>2. StrictlyOpposite(d4, d3) => ((d4 > 0) # (d3 > 0))
    BY <1>1 DEF StrictlyOpposite
  <2> QED
    BY <2>1, <2>2, Zenon DEF SegmentsIntersect
<1>7. Meets(f2, f1, f4, f3, OnSegment(e2, s2, s1), OnSegment(e1, s2, s1),
           OnSegment(s2, e2, e1), OnSegment(s1, e2, e1))
        => SegmentsIntersect(e2, e1, s2, s1)
  <2>1. StrictlyOpposite(f2, f1) => ((f2 > 0) # (f1 > 0))
    BY <1>1 DEF StrictlyOpposite
  <2>2. StrictlyOpposite(f4, f3) => ((f4 > 0) # (f3 > 0))
    BY <1>1 DEF StrictlyOpposite
  <2> QED
    BY <2>1, <2>2, Zenon DEF SegmentsIntersect
<1> HIDE DEF d1, d2, d3, d4, f1, f2, f3, f4
<1>8. SegmentsIntersect(e1, e2, s1, s2)
  <2>1. StrictlyOpposite(d1, d2) <=> StrictlyOpposite(d1, d2)
    BY <1>1 DEF StrictlyOpposite
  <2>2. StrictlyOpposite(d3, d4) <=> StrictlyOpposite(d3, d4)
    BY <1>1 DEF StrictlyOpposite
  <2>3. /\ d1 = 0 <=> d1 = 0
        /\ d2 = 0 <=> d2 = 0
        /\ d3 = 0 <=> d3 = 0
        /\ d4 = 0 <=> d4 = 0
    BY <1>1
  <2> QED
    BY <2>1, <2>2, <2>3, <1>2, <1>3, <1>4, Zenon
<1>9. SegmentsIntersect(e2, e1, s1, s2)
  <2>1. StrictlyOpposite(d2, d1) <=> StrictlyOpposite(d1, d2)
    BY <1>1 DEF StrictlyOpposite
  <2>2. StrictlyOpposite(f3, f4) <=> StrictlyOpposite(d3, d4)
    BY <1>1 DEF StrictlyOpposite
  <2>3. /\ d2 = 0 <=> d2 = 0
        /\ d1 = 0 <=> d1 = 0
        /\ f3 = 0 <=> d3 = 0
        /\ f4 = 0 <=> d4 = 0
    BY <1>1
  <2> QED
    BY <2>1, <2>2, <2>3, <1>2, <1>3, <1>5, Zenon
<1>10. SegmentsIntersect(e1, e2, s2, s1)
  <2>1. StrictlyOpposite(f1, f2) <=> StrictlyOpposite(d1, d2)
    BY <1>1 DEF StrictlyOpposite
  <2>2. StrictlyOpposite(d4, d3) <=> StrictlyOpposite(d3, d4)
    BY <1>1 DEF StrictlyOpposite
  <2>3. /\ f1 = 0 <=> d1 = 0
        /\ f2 = 0 <=> d2 = 0
        /\ d4 = 0 <=> d4 = 0
        /\ d3 = 0 <=> d3 = 0
    BY <1>1
  <2> QED
    BY <2>1, <2>2, <2>3, <1>2, <1>3, <1>6, Zenon
<1>11. SegmentsIntersect(e2, e1, s2, s1)
  <2>1. StrictlyOpposite(f2, f1) <=> StrictlyOpposite(d1, d2)
    BY <1>1 DEF StrictlyOpposite
  <2>2. StrictlyOpposite(f4, f3) <=> StrictlyOpposite(d3, d4)
    BY <1>1 DEF StrictlyOpposite
  <2>3. /\ f2 = 0 <=> d2 = 0
        /\ f1 = 0 <=> d1 = 0
        /\ f4 = 0 <=> d4 = 0
        /\ f3 = 0 <=> d3 = 0
    BY <1>1
  <2> QED
    BY <2>1, <2>2, <2>3, <1>2, <1>3, <1>7, Zenon
<1> QED
  BY <1>8, <1>9, <1>10, <1>11

\* An edge with the ends of a side of constant latitude on its two sides, and its own
\* ends on the two sides of that latitude, touches the side.
LEMMA TouchesLevel ==
  ASSUME NEW e1 \in Int \X Int, NEW e2 \in Int \X Int, NEW s1 \in Int \X Int, NEW s2 \in Int \X Int,
         s1[1] = s2[1], Astride(e1[1], e2[1], s1[1]),
         Opposite(Cross(e1, e2, s1), Cross(e1, e2, s2))
  PROVE  Touch(e1, e2, s1, s2)
<1> DEFINE a == e1[1]
           b == e2[1]
           c == e1[2]
           d == e2[2]
           h == s1[1]
           x == s1[2]
           y == s2[2]
           gx == SideOf(a, b, c, d, h, x)
           gy == SideOf(a, b, c, d, h, y)
           k1 == (y - x) * (a - h)
           k2 == (y - x) * (b - h)
<1>1. /\ a \in Int /\ b \in Int /\ c \in Int /\ d \in Int /\ h \in Int /\ x \in Int /\ y \in Int
      /\ s2[1] = h
  OBVIOUS
<1>2. gx = Cross(e1, e2, s1) /\ gy = Cross(e1, e2, s2)
  BY <1>1 DEF Cross, SideOf
<1>3. Cross(s1, s2, e1) = -k1 /\ Cross(s1, s2, e2) = -k2 /\ k1 \in Int /\ k2 \in Int
  BY <1>1 DEF Cross
<1>4. Astride(a, b, h) /\ Opposite(gx, gy)
  BY <1>2
<1>5. /\ OnSegment(s1, e1, e2) <=> Amid(h, a, b) /\ Amid(x, c, d)
      /\ OnSegment(s2, e1, e2) <=> Amid(h, a, b) /\ Amid(y, c, d)
      /\ OnSegment(e1, s1, s2) <=> Amid(a, h, h) /\ Amid(c, x, y)
      /\ OnSegment(e2, s1, s2) <=> Amid(b, h, h) /\ Amid(d, x, y)
  BY <1>1, AmidSegment
<1>6. /\ a = h => k1 = 0 /\ Amid(a, h, h)
      /\ b = h => k2 = 0 /\ Amid(b, h, h)
  BY <1>1 DEF Amid
<1> HIDE DEF a, b, c, d, h, x, y
<1>7. \/ StrictlyOpposite(k1, k2) /\ StrictlyOpposite(gx, gy)
      \/ gx = 0 /\ Amid(h, a, b) /\ Amid(x, c, d)
      \/ gy = 0 /\ Amid(h, a, b) /\ Amid(y, c, d)
      \/ a = h /\ Amid(c, x, y)
      \/ b = h /\ Amid(d, x, y)
  <2>1. Opposite(SideOf(a, b, c, d, h, x), SideOf(a, b, c, d, h, y))
    BY <1>4
  <2>2. Astride(a, b, h)
    BY <1>4
  <2>3. MeetsSide(a, b, c, d, h, x, y)
    BY <1>1, <2>1, <2>2, SideMet
  <2> QED
    BY <2>3 DEF MeetsSide
<1> HIDE DEF gx, gy, k1, k2
<1>8. StrictlyOpposite(k1, k2) => StrictlyOpposite(Cross(s1, s2, e1), Cross(s1, s2, e2))
  BY <1>3 DEF StrictlyOpposite
<1>9. /\ k1 = 0 => Cross(s1, s2, e1) = 0
      /\ k2 = 0 => Cross(s1, s2, e2) = 0
  BY <1>3
<1> QED
  BY <1>2, <1>5, <1>6, <1>7, <1>8, <1>9 DEF Touch

\* The same for a side of constant longitude.
LEMMA TouchesUpright ==
  ASSUME NEW e1 \in Int \X Int, NEW e2 \in Int \X Int, NEW s1 \in Int \X Int, NEW s2 \in Int \X Int,
         s1[2] = s2[2], Astride(e1[2], e2[2], s1[2]),
         Opposite(Cross(e1, e2, s1), Cross(e1, e2, s2))
  PROVE  Touch(e1, e2, s1, s2)
<1> DEFINE a == e1[2]
           b == e2[2]
           c == e1[1]
           d == e2[1]
           h == s1[2]
           x == s1[1]
           y == s2[1]
           gx == SideOf(a, b, c, d, h, x)
           gy == SideOf(a, b, c, d, h, y)
           k1 == (y - x) * (a - h)
           k2 == (y - x) * (b - h)
<1>1. /\ a \in Int /\ b \in Int /\ c \in Int /\ d \in Int /\ h \in Int /\ x \in Int /\ y \in Int
      /\ s2[2] = h
  OBVIOUS
<1>2. Cross(e1, e2, s1) = -gx /\ Cross(e1, e2, s2) = -gy /\ gx \in Int /\ gy \in Int
  BY <1>1 DEF Cross, SideOf
<1>3. Cross(s1, s2, e1) = k1 /\ Cross(s1, s2, e2) = k2 /\ k1 \in Int /\ k2 \in Int
  BY <1>1 DEF Cross
<1>4. Astride(a, b, h) /\ Opposite(gx, gy)
  <2>1. Opposite(-gx, -gy)
    BY <1>2
  <2> HIDE DEF gx, gy
  <2> QED
    BY <1>2, <2>1 DEF Opposite
<1>5. /\ OnSegment(s1, e1, e2) <=> Amid(h, a, b) /\ Amid(x, c, d)
      /\ OnSegment(s2, e1, e2) <=> Amid(h, a, b) /\ Amid(y, c, d)
      /\ OnSegment(e1, s1, s2) <=> Amid(a, h, h) /\ Amid(c, x, y)
      /\ OnSegment(e2, s1, s2) <=> Amid(b, h, h) /\ Amid(d, x, y)
  BY <1>1, AmidSegment
<1>6. /\ a = h => k1 = 0 /\ Amid(a, h, h)
      /\ b = h => k2 = 0 /\ Amid(b, h, h)
  BY <1>1 DEF Amid
<1> HIDE DEF a, b, c, d, h, x, y
<1>7. \/ StrictlyOpposite(k1, k2) /\ StrictlyOpposite(gx, gy)
      \/ gx = 0 /\ Amid(h, a, b) /\ Amid(x, c, d)
      \/ gy = 0 /\ Amid(h, a, b) /\ Amid(y, c, d)
      \/ a = h /\ Amid(c, x, y)
      \/ b = h /\ Amid(d, x, y)
  <2>1. Opposite(SideOf(a, b, c, d, h, x), SideOf(a, b, c, d, h, y))
    BY <1>4
  <2>2. Astride(a, b, h)
    BY <1>4
  <2>3. MeetsSide(a, b, c, d, h, x, y)
    BY <1>1, <2>1, <2>2, SideMet
  <2> QED
    BY <2>3 DEF MeetsSide
<1> HIDE DEF gx, gy, k1, k2
<1>8. StrictlyOpposite(gx, gy) => StrictlyOpposite(Cross(e1, e2, s1), Cross(e1, e2, s2))
  BY <1>2 DEF StrictlyOpposite
<1>9. /\ gx = 0 => Cross(e1, e2, s1) = 0
      /\ gy = 0 => Cross(e1, e2, s2) = 0
  BY <1>2
<1> QED
  BY <1>3, <1>5, <1>6, <1>7, <1>8, <1>9 DEF Touch

\* A point farther in longitude lies farther to one side of an edge that goes up, and
\* so does one nearer in latitude when the edge runs to larger longitudes.
LEMMA SideOrder ==
  ASSUME NEW a \in Int, NEW b \in Int, NEW c \in Int, NEW d \in Int, a <= b,
         NEW y \in Int, NEW x \in Int, NEW v \in Int, NEW w \in Int,
         (c <= d /\ v <= y) \/ (d <= c /\ y <= v), x <= w
  PROVE  /\ SideOf(a, b, c, d, y, x) <= SideOf(a, b, c, d, v, w)
         /\ a < b /\ x < w => SideOf(a, b, c, d, y, x) < SideOf(a, b, c, d, v, w)
<1> DEFINE i == w - x
           j == b - a
           k == d - c
           l == y - v
           ij == i * j
           kl == k * l
           g == SideOf(a, b, c, d, y, x)
           h == SideOf(a, b, c, d, v, w)
<1>1. h - g = ij + kl /\ g \in Int /\ h \in Int
  BY DEF SideOf
<1>2. i \in Int /\ j \in Int /\ i >= 0 /\ j >= 0 /\ (a < b /\ x < w => i > 0 /\ j > 0)
  OBVIOUS
<1>3. k \in Int /\ l \in Int /\ ((k >= 0 /\ l >= 0) \/ (k <= 0 /\ l <= 0))
  OBVIOUS
<1> HIDE DEF i, j, k, l, g, h
<1>4. /\ ij \in Int
      /\ i > 0 /\ j > 0 => ij > 0
      /\ i > 0 /\ j < 0 => ij < 0
      /\ i < 0 /\ j > 0 => ij < 0
      /\ i < 0 /\ j < 0 => ij > 0
      /\ i = 0 \/ j = 0 => ij = 0
  BY <1>2, ProductSigns
<1>5. /\ kl \in Int
      /\ k > 0 /\ l > 0 => kl > 0
      /\ k > 0 /\ l < 0 => kl < 0
      /\ k < 0 /\ l > 0 => kl < 0
      /\ k < 0 /\ l < 0 => kl > 0
      /\ k = 0 \/ l = 0 => kl = 0
  BY <1>3, ProductSigns
<1> HIDE DEF ij, kl
<1>6. kl >= 0
  BY <1>3, <1>5
<1>7. ij >= 0 /\ (a < b /\ x < w => ij > 0)
  BY <1>2, <1>4
<1>8. g <= h /\ (a < b /\ x < w => g < h)
  BY <1>1, <1>4, <1>5, <1>6, <1>7
<1> QED
  BY <1>8 DEF g, h

\* The ends of an edge lie on neither side of it.
LEMMA SideOfEnds ==
  ASSUME NEW a \in Int, NEW b \in Int, NEW c \in Int, NEW d \in Int
  PROVE  SideOf(a, b, c, d, a, c) = 0 /\ SideOf(a, b, c, d, b, d) = 0
BY DEF SideOf

\* The edge from (a, c) up to (b, d) separates the corners of a side of the rectangle
\* from L1 to H1 and from L2 to H2, and its ends lie on the two sides of that side.
Separates(a, b, c, d, L1, H1, L2, H2) ==
  \/ Astride(a, b, L1) /\ Opposite(SideOf(a, b, c, d, L1, L2), SideOf(a, b, c, d, L1, H2))
  \/ Astride(c, d, H2) /\ Opposite(SideOf(a, b, c, d, L1, H2), SideOf(a, b, c, d, H1, H2))
  \/ Astride(a, b, H1) /\ Opposite(SideOf(a, b, c, d, H1, H2), SideOf(a, b, c, d, H1, L2))

\* An edge with its ends outside of a rectangle that passes between a point of the
\* rectangle and the right side separates the corners of a side.
LEMMA EdgeLeaves ==
  ASSUME NEW a \in Int, NEW b \in Int, NEW c \in Int, NEW d \in Int,
         NEW L1 \in Int, NEW H1 \in Int, NEW L2 \in Int, NEW H2 \in Int,
         NEW y \in Int, NEW x \in Int,
         L1 <= y, y <= H1, L2 <= x, x <= H2, a <= y, y < b,
         ~(L1 <= a /\ a <= H1 /\ L2 <= c /\ c <= H2),
         ~(L1 <= b /\ b <= H1 /\ L2 <= d /\ d <= H2),
         SideOf(a, b, c, d, y, x) < 0, ~(SideOf(a, b, c, d, y, H2) < 0)
  PROVE  Separates(a, b, c, d, L1, H1, L2, H2)
<1> DEFINE g(v, w) == SideOf(a, b, c, d, v, w)
<1>1. \A v, w \in Int : g(v, w) \in Int
  BY DEF SideOf
<1>6. /\ g(L1, L2) \in Int /\ g(L1, H2) \in Int /\ g(H1, L2) \in Int /\ g(H1, H2) \in Int
      /\ g(y, x) \in Int /\ g(y, H2) \in Int
  <2> HIDE DEF g
  <2> QED
    BY <1>1
<1>2. g(a, c) = 0 /\ g(b, d) = 0
  BY SideOfEnds
<1>3. g(y, x) < 0 /\ 0 <= g(y, H2)
  BY <1>1
<1>4. CASE c <= d
  <2>1. \A v1, w1, v2, w2 \in Int :
          v2 <= v1 /\ w1 <= w2 => g(v1, w1) <= g(v2, w2) /\ (w1 < w2 => g(v1, w1) < g(v2, w2))
    <3> TAKE v1, w1, v2, w2 \in Int
    <3> HAVE v2 <= v1 /\ w1 <= w2
    <3>1. a <= b /\ a < b
      OBVIOUS
    <3>2. /\ SideOf(a, b, c, d, v1, w1) <= SideOf(a, b, c, d, v2, w2)
          /\ a < b /\ w1 < w2 => SideOf(a, b, c, d, v1, w1) < SideOf(a, b, c, d, v2, w2)
      BY <1>4, <3>1, SideOrder
    <3> QED
      BY <3>1, <3>2
  <2> HIDE DEF g
  <2>2. g(H1, L2) < 0
    <3>1. g(H1, L2) <= g(y, x)
      BY <2>1
    <3> QED
      BY <1>3, <1>6, <3>1
  <2>3. g(L1, H2) >= 0
    <3>1. g(y, H2) <= g(L1, H2)
      BY <2>1
    <3> QED
      BY <1>3, <1>6, <3>1
  <2>4. CASE g(H1, H2) >= 0
    <3>1. b > H1
      <4> SUFFICES ASSUME b <= H1 PROVE FALSE
        OBVIOUS
      <4>1. CASE d > H2
        <5>1. g(H1, H2) < g(b, d)
          BY <2>1, <4>1
        <5> QED
          BY <1>1, <1>2, <2>4, <5>1
      <4>2. CASE d < L2
        <5>1. g(b, d) <= g(y, x)
          BY <2>1, <4>2
        <5> QED
          BY <1>1, <1>2, <1>3, <5>1
      <4> QED
        BY <4>1, <4>2
    <3>2. Astride(a, b, H1) /\ Opposite(g(H1, H2), g(H1, L2))
      BY <1>6, <2>2, <2>4, <3>1 DEF Astride, Opposite
    <3> QED
      BY <3>2 DEF Separates, g
  <2>5. CASE g(H1, H2) < 0
    <3>1. c <= H2
      <4> SUFFICES ASSUME c > H2 PROVE FALSE
        OBVIOUS
      <4>1. g(y, H2) < g(a, c)
        BY <2>1
      <4> QED
        BY <1>1, <1>2, <1>3, <4>1
    <3>2. d > H2
      <4> SUFFICES ASSUME d <= H2 PROVE FALSE
        OBVIOUS
      <4>1. CASE b > H1
        <5>1. g(b, d) <= g(H1, H2)
          BY <2>1, <4>1
        <5> QED
          BY <1>1, <1>2, <2>5, <5>1
      <4>2. CASE d < L2
        <5>1. g(b, d) <= g(y, x)
          BY <2>1, <4>2
        <5> QED
          BY <1>1, <1>2, <1>3, <5>1
      <4> QED
        BY <4>1, <4>2
    <3>3. Astride(c, d, H2) /\ Opposite(g(L1, H2), g(H1, H2))
      BY <1>6, <2>3, <2>5, <3>1, <3>2 DEF Astride, Opposite
    <3> QED
      BY <3>3 DEF Separates, g
  <2> QED
    BY <1>6, <2>4, <2>5
<1>5. CASE d <= c
  <2>1. \A v1, w1, v2, w2 \in Int :
          v1 <= v2 /\ w1 <= w2 => g(v1, w1) <= g(v2, w2) /\ (w1 < w2 => g(v1, w1) < g(v2, w2))
    <3> TAKE v1, w1, v2, w2 \in Int
    <3> HAVE v1 <= v2 /\ w1 <= w2
    <3>1. a <= b /\ a < b
      OBVIOUS
    <3>2. /\ SideOf(a, b, c, d, v1, w1) <= SideOf(a, b, c, d, v2, w2)
          /\ a < b /\ w1 < w2 => SideOf(a, b, c, d, v1, w1) < SideOf(a, b, c, d, v2, w2)
      BY <1>5, <3>1, SideOrder
    <3> QED
      BY <3>1, <3>2
  <2> HIDE DEF g
  <2>2. g(L1, L2) < 0
    <3>1. g(L1, L2) <= g(y, x)
      BY <2>1
    <3> QED
      BY <1>3, <1>6, <3>1
  <2>3. g(H1, H2) >= 0
    <3>1. g(y, H2) <= g(H1, H2)
      BY <2>1
    <3> QED
      BY <1>3, <1>6, <3>1
  <2>4. CASE g(L1, H2) >= 0
    <3>1. a <= L1
      <4> SUFFICES ASSUME a > L1 PROVE FALSE
        OBVIOUS
      <4>1. CASE c > H2
        <5>1. g(L1, H2) < g(a, c)
          BY <2>1, <4>1
        <5> QED
          BY <1>1, <1>2, <2>4, <5>1
      <4>2. CASE c < L2
        <5>1. g(a, c) <= g(y, x)
          BY <2>1, <4>2
        <5> QED
          BY <1>1, <1>2, <1>3, <5>1
      <4> QED
        BY <4>1, <4>2
    <3>2. Astride(a, b, L1) /\ Opposite(g(L1, L2), g(L1, H2))
      BY <1>6, <2>2, <2>4, <3>1 DEF Astride, Opposite
    <3> QED
      BY <3>2 DEF Separates, g
  <2>5. CASE g(L1, H2) < 0
    <3>1. d <= H2
      <4> SUFFICES ASSUME d > H2 PROVE FALSE
        OBVIOUS
      <4>1. g(y, H2) < g(b, d)
        BY <2>1
      <4> QED
        BY <1>1, <1>2, <1>3, <4>1
    <3>2. c > H2
      <4> SUFFICES ASSUME c <= H2 PROVE FALSE
        OBVIOUS
      <4>1. CASE a < L1
        <5>1. g(a, c) <= g(L1, H2)
          BY <2>1, <4>1
        <5> QED
          BY <1>1, <1>2, <2>5, <5>1
      <4>2. CASE c < L2
        <5>1. g(a, c) <= g(y, x)
          BY <2>1, <4>2
        <5> QED
          BY <1>1, <1>2, <1>3, <5>1
      <4> QED
        BY <4>1, <4>2
    <3>3. Astride(c, d, H2) /\ Opposite(g(L1, H2), g(H1, H2))
      BY <1>6, <2>3, <2>5, <3>1, <3>2 DEF Astride, Opposite
    <3> QED
      BY <3>3 DEF Separates, g
  <2> QED
    BY <1>6, <2>4, <2>5
<1> QED
  BY <1>4, <1>5

\* The edge from D up to U crosses the ray from p.
RunsPast(p, D, U) == D[1] <= p[1] /\ p[1] < U[1] /\ Cross(D, U, p) < 0

\* The orientation by coordinates.
LEMMA CrossIsSide ==
  ASSUME NEW o \in Int \X Int, NEW p \in Int \X Int, NEW q \in Int \X Int
  PROVE  Cross(o, p, q) = SideOf(o[1], p[1], o[2], p[2], q[1], q[2])
<1>1. o[1] \in Int /\ o[2] \in Int /\ p[1] \in Int /\ p[2] \in Int /\ q[1] \in Int /\ q[2] \in Int
  OBVIOUS
<1> QED
  BY <1>1 DEF Cross, SideOf

\* An edge crosses the ray just when it does from its lower end to its upper one.
LEMMA CrossesRunsPast ==
  ASSUME NEW p \in Int \X Int, NEW a \in Int \X Int, NEW b \in Int \X Int
  PROVE  Crosses(p, a, b) <=> RunsPast(p, a, b) \/ RunsPast(p, b, a)
<1>1. /\ p[1] \in Int /\ p[2] \in Int /\ a[1] \in Int /\ a[2] \in Int /\ b[1] \in Int /\ b[2] \in Int
  OBVIOUS
<1> DEFINE X == (p[2] - a[2]) * (b[1] - a[1])
           Y == (b[2] - a[2]) * (p[1] - a[1])
           ab == Cross(a, b, p)
           ba == Cross(b, a, p)
<1>2. X \in Int /\ Y \in Int
  BY <1>1
<1>3. ab = X - Y
  <2>1. Cross(a, b, p) = (b[1] - a[1]) * (p[2] - a[2]) - (b[2] - a[2]) * (p[1] - a[1])
    BY DEF Cross
  <2>2. (b[1] - a[1]) * (p[2] - a[2]) = X
    BY <1>1
  <2> QED
    BY <2>1, <2>2
<1>4. ab \in Int /\ ba = -ab
  BY CrossType
<1>5. Crosses(p, a, b) <=> /\ (a[1] > p[1]) # (b[1] > p[1])
                           /\ IF b[1] - a[1] > 0 THEN X < Y ELSE X > Y
  BY DEF Crosses
<1> HIDE DEF X, Y, ab, ba
<1>6. X < Y <=> ab < 0
  BY <1>2, <1>3, <1>4
<1>7. X > Y <=> ba < 0
  BY <1>2, <1>3, <1>4
<1>8. RunsPast(p, a, b) <=> a[1] <= p[1] /\ p[1] < b[1] /\ ab < 0
  BY DEF RunsPast, ab
<1>9. RunsPast(p, b, a) <=> b[1] <= p[1] /\ p[1] < a[1] /\ ba < 0
  BY DEF RunsPast, ba
<1> QED
  BY <1>1, <1>5, <1>6, <1>7, <1>8, <1>9

\* The corners of a rectangle, in the order of Corners.
Corner(r, n) == Corners(r)[n]

\* The corners, by name.
LEMMA CornersAre ==
  ASSUME NEW r, IsRect(r)
  PROVE  /\ r[1][1] \in Int /\ r[1][2] \in Int /\ r[2][1] \in Int /\ r[2][2] \in Int
         /\ r[1][1] <= r[1][2] /\ r[2][1] <= r[2][2]
         /\ Corner(r, 1) = <<r[1][1], r[2][1]>> /\ Corner(r, 2) = <<r[1][1], r[2][2]>>
         /\ Corner(r, 3) = <<r[1][2], r[2][2]>> /\ Corner(r, 4) = <<r[1][2], r[2][1]>>
         /\ \A n \in 1..4 : Corner(r, n) \in Int \X Int
BY CornerFacts DEF IsRect, Corners, Corner

\* The edge touches a side of the rectangle.
TouchesRect(e1, e2, r) ==
  \/ Touch(e1, e2, Corner(r, 1), Corner(r, 2))
  \/ Touch(e1, e2, Corner(r, 2), Corner(r, 3))
  \/ Touch(e1, e2, Corner(r, 3), Corner(r, 4))

\* A polygon with an edge that touches a rectangle overlaps it.
LEMMA TouchOverlaps ==
  ASSUME NEW ring, IsRing(ring), NEW r, IsRect(r), NEW n \in 1..Len(ring),
         TouchesRect(ring[n], Previous(ring, n), r) \/ TouchesRect(Previous(ring, n), ring[n], r)
  PROVE  PolygonOverlapsRect(ring, r)
<1> DEFINE a == ring[n]
           b == Previous(ring, n)
<1>1. a \in Int \X Int /\ b \in Int \X Int /\ DOMAIN ring = 1..Len(ring)
  BY RingFacts
<1>2. \A m \in 1..4 : Corner(r, m) \in Int \X Int
  BY CornersAre
<1>3. SUFFICES \E e \in 1..4 : SegmentsIntersect(b, a, Corners(r)[e], Corners(r)[(e % 4) + 1])
  BY <1>1 DEF PolygonOverlapsRect
<1>4. 1 % 4 = 1 /\ 2 % 4 = 2 /\ 3 % 4 = 3 /\ 1 \in 1..4 /\ 2 \in 1..4 /\ 3 \in 1..4 /\ 4 \in 1..4
  OBVIOUS
<1> HIDE DEF a, b
<1>5. ASSUME NEW s1 \in Int \X Int, NEW s2 \in Int \X Int, Touch(a, b, s1, s2) \/ Touch(b, a, s1, s2)
      PROVE  SegmentsIntersect(b, a, s1, s2)
  <2>1. CASE Touch(a, b, s1, s2)
    BY <1>1, <2>1, TouchIntersects
  <2>2. CASE Touch(b, a, s1, s2)
    BY <1>1, <2>2, TouchIntersects
  <2> QED
    BY <1>5, <2>1, <2>2
<1>6. ASSUME NEW e \in 1..3,
             Touch(a, b, Corner(r, e), Corner(r, e + 1)) \/ Touch(b, a, Corner(r, e), Corner(r, e + 1))
      PROVE  \E m \in 1..4 : SegmentsIntersect(b, a, Corners(r)[m], Corners(r)[(m % 4) + 1])
  <2>1. Corner(r, e) \in Int \X Int /\ Corner(r, e + 1) \in Int \X Int
    BY <1>2
  <2>2. SegmentsIntersect(b, a, Corner(r, e), Corner(r, e + 1))
    BY <1>5, <1>6, <2>1
  <2>3. (e % 4) + 1 = e + 1 /\ e \in 1..4
    BY <1>4
  <2> QED
    BY <2>2, <2>3 DEF Corner
<1>7. \E e \in 1..3 : \/ Touch(a, b, Corner(r, e), Corner(r, e + 1))
                      \/ Touch(b, a, Corner(r, e), Corner(r, e + 1))
  <2>1. TouchesRect(a, b, r) \/ TouchesRect(b, a, r)
    BY DEF a, b
  <2>2. 1 + 1 = 2 /\ 2 + 1 = 3 /\ 3 + 1 = 4 /\ 1 \in 1..3 /\ 2 \in 1..3 /\ 3 \in 1..3
    OBVIOUS
  <2>3. ASSUME NEW e \in 1..3, NEW f, e + 1 = f,
               Touch(a, b, Corner(r, e), Corner(r, f)) \/ Touch(b, a, Corner(r, e), Corner(r, f))
        PROVE  \E m \in 1..3 : \/ Touch(a, b, Corner(r, m), Corner(r, m + 1))
                               \/ Touch(b, a, Corner(r, m), Corner(r, m + 1))
    BY <2>3
  <2> QED
    BY <2>1, <2>2, <2>3, Zenon DEF TouchesRect
<1> QED
  BY <1>6, <1>7 DEF a, b

\* An edge that separates the corners of a side touches that side.
LEMMA SeparatesTouches ==
  ASSUME NEW D \in Int \X Int, NEW U \in Int \X Int, NEW r, IsRect(r),
         Separates(D[1], U[1], D[2], U[2], r[1][1], r[1][2], r[2][1], r[2][2])
  PROVE  TouchesRect(D, U, r)
<1> DEFINE L1 == r[1][1]
           H1 == r[1][2]
           L2 == r[2][1]
           H2 == r[2][2]
           c1 == Corner(r, 1)
           c2 == Corner(r, 2)
           c3 == Corner(r, 3)
           c4 == Corner(r, 4)
           g(v) == SideOf(D[1], U[1], D[2], U[2], v[1], v[2])
<1>1. /\ c1 \in Int \X Int /\ c2 \in Int \X Int /\ c3 \in Int \X Int /\ c4 \in Int \X Int
      /\ c1 = <<L1, L2>> /\ c2 = <<L1, H2>> /\ c3 = <<H1, H2>> /\ c4 = <<H1, L2>>
  BY CornersAre
<1>2. \A v \in Int \X Int : Cross(D, U, v) = g(v)
  BY CrossIsSide
<1>3. \/ Astride(D[1], U[1], L1) /\ Opposite(g(<<L1, L2>>), g(<<L1, H2>>))
      \/ Astride(D[2], U[2], H2) /\ Opposite(g(<<L1, H2>>), g(<<H1, H2>>))
      \/ Astride(D[1], U[1], H1) /\ Opposite(g(<<H1, H2>>), g(<<H1, L2>>))
  BY DEF Separates
<1> HIDE DEF g
<1>4. \/ Astride(D[1], U[1], c1[1]) /\ Opposite(Cross(D, U, c1), Cross(D, U, c2))
      \/ Astride(D[2], U[2], c2[2]) /\ Opposite(Cross(D, U, c2), Cross(D, U, c3))
      \/ Astride(D[1], U[1], c3[1]) /\ Opposite(Cross(D, U, c3), Cross(D, U, c4))
  <2>1. c1[1] = L1 /\ c2[2] = H2 /\ c3[1] = H1
    BY <1>1
  <2>2. /\ Cross(D, U, c1) = g(<<L1, L2>>) /\ Cross(D, U, c2) = g(<<L1, H2>>)
        /\ Cross(D, U, c3) = g(<<H1, H2>>) /\ Cross(D, U, c4) = g(<<H1, L2>>)
    BY <1>1, <1>2
  <2> QED
    BY <1>3, <2>1, <2>2
<1>5. c1[1] = c2[1] /\ c2[2] = c3[2] /\ c3[1] = c4[1]
  BY <1>1
<1> HIDE DEF c1, c2, c3, c4
<1>6. CASE Astride(D[1], U[1], c1[1]) /\ Opposite(Cross(D, U, c1), Cross(D, U, c2))
  <2>1. Touch(D, U, c1, c2)
    BY <1>1, <1>5, <1>6, TouchesLevel
  <2> QED
    BY <2>1 DEF TouchesRect, c1, c2
<1>7. CASE Astride(D[2], U[2], c2[2]) /\ Opposite(Cross(D, U, c2), Cross(D, U, c3))
  <2>1. Touch(D, U, c2, c3)
    BY <1>1, <1>5, <1>7, TouchesUpright
  <2> QED
    BY <2>1 DEF TouchesRect, c2, c3
<1>8. CASE Astride(D[1], U[1], c3[1]) /\ Opposite(Cross(D, U, c3), Cross(D, U, c4))
  <2>1. Touch(D, U, c3, c4)
    BY <1>1, <1>5, <1>8, TouchesLevel
  <2> QED
    BY <2>1 DEF TouchesRect, c3, c4
<1> QED
  BY <1>4, <1>6, <1>7, <1>8

RightOf(p, r) == <<p[1], r[2][2]>>

\* An edge with its ends outside of the rectangle that does not touch it crosses the
\* ray from a point of the rectangle just when it crosses the ray from the point at
\* the right side.
LEMMA RunsPastRight ==
  ASSUME NEW D \in Int \X Int, NEW U \in Int \X Int, NEW r, IsRect(r),
         NEW p \in Int \X Int, InRect(p, r), ~InRect(D, r), ~InRect(U, r), ~TouchesRect(D, U, r)
  PROVE  RunsPast(p, D, U) <=> RunsPast(RightOf(p, r), D, U)
<1> DEFINE a == D[1]
           b == U[1]
           c == D[2]
           d == U[2]
           L1 == r[1][1]
           H1 == r[1][2]
           L2 == r[2][1]
           H2 == r[2][2]
           y == p[1]
           x == p[2]
           gp == SideOf(a, b, c, d, y, x)
           gq == SideOf(a, b, c, d, y, H2)
<1>1. /\ a \in Int /\ b \in Int /\ c \in Int /\ d \in Int /\ y \in Int /\ x \in Int
      /\ L1 \in Int /\ H1 \in Int /\ L2 \in Int /\ H2 \in Int
  BY CornersAre
<1>2. /\ L1 <= y /\ y <= H1 /\ L2 <= x /\ x <= H2
      /\ ~(L1 <= a /\ a <= H1 /\ L2 <= c /\ c <= H2)
      /\ ~(L1 <= b /\ b <= H1 /\ L2 <= d /\ d <= H2)
  BY DEF InRect, Within
<1>3. RunsPast(p, D, U) <=> a <= y /\ y < b /\ gp < 0
  <2>1. Cross(D, U, p) = gp
    BY CrossIsSide
  <2> QED
    BY <2>1 DEF RunsPast
<1>4. RunsPast(RightOf(p, r), D, U) <=> a <= y /\ y < b /\ gq < 0
  <2> DEFINE q == RightOf(p, r)
  <2>1. q \in Int \X Int /\ q[1] = y /\ q[2] = H2
    BY <1>1 DEF RightOf
  <2> HIDE DEF q
  <2>2. Cross(D, U, q) = SideOf(a, b, c, d, q[1], q[2])
    BY <2>1, CrossIsSide
  <2> QED
    BY <2>1, <2>2 DEF RunsPast, q
<1>5. ~Separates(a, b, c, d, L1, H1, L2, H2)
  BY SeparatesTouches
<1> HIDE DEF a, b, c, d, L1, H1, L2, H2, y, x
<1>6. gp \in Int /\ gq \in Int
  BY <1>1 DEF SideOf
<1>7. ASSUME a <= y, y < b PROVE gp < 0 <=> gq < 0
  <2>1. gp <= gq
    <3>1. a <= b
      BY <1>1, <1>7
    <3>2. y <= y /\ (c <= d \/ d <= c)
      BY <1>1
    <3>3. SideOf(a, b, c, d, y, x) <= SideOf(a, b, c, d, y, H2)
      BY <1>1, <1>2, <3>1, <3>2, SideOrder
    <3> QED
      BY <3>3
  <2>2. ~(gp < 0 /\ ~(gq < 0))
    BY <1>1, <1>2, <1>5, <1>7, EdgeLeaves
  <2> HIDE DEF gp, gq
  <2> QED
    BY <1>6, <2>1, <2>2
<1> HIDE DEF gp, gq
<1> QED
  BY <1>3, <1>4, <1>7

\* On the line of a longitude the side of an edge changes in one direction only.
LEMMA SideOrderUp ==
  ASSUME NEW a \in Int, NEW b \in Int, NEW c \in Int, NEW d \in Int,
         NEW y \in Int, NEW x \in Int, NEW v \in Int,
         (c <= d /\ v <= y) \/ (d <= c /\ y <= v)
  PROVE  SideOf(a, b, c, d, y, x) <= SideOf(a, b, c, d, v, x)
<1> DEFINE k == d - c
           l == y - v
           kl == k * l
           g == SideOf(a, b, c, d, y, x)
           h == SideOf(a, b, c, d, v, x)
<1>1. h - g = kl /\ g \in Int /\ h \in Int
  BY DEF SideOf
<1>2. k \in Int /\ l \in Int /\ ((k >= 0 /\ l >= 0) \/ (k <= 0 /\ l <= 0))
  OBVIOUS
<1> HIDE DEF k, l, g, h
<1>3. /\ kl \in Int
      /\ k > 0 /\ l > 0 => kl > 0
      /\ k > 0 /\ l < 0 => kl < 0
      /\ k < 0 /\ l > 0 => kl < 0
      /\ k < 0 /\ l < 0 => kl > 0
      /\ k = 0 \/ l = 0 => kl = 0
  BY <1>2, ProductSigns
<1> HIDE DEF kl
<1>4. kl >= 0
  BY <1>2, <1>3
<1>5. g <= h
  BY <1>1, <1>3, <1>4
<1> QED
  BY <1>5 DEF g, h

\* An edge that does not touch the right side crosses both of the rays that go up from
\* two points of it, or none.
LEMMA RunsPastUp ==
  ASSUME NEW D \in Int \X Int, NEW U \in Int \X Int, NEW r, IsRect(r),
         NEW p \in Int \X Int, InRect(p, r), ~TouchesRect(D, U, r)
  PROVE  RunsPast(Flip(RightOf(p, r)), Flip(D), Flip(U)) <=> RunsPast(Flip(Corner(r, 3)), Flip(D), Flip(U))
<1> DEFINE a == D[1]
           b == U[1]
           c == D[2]
           d == U[2]
           L1 == r[1][1]
           H1 == r[1][2]
           H2 == r[2][2]
           y == p[1]
           q == RightOf(p, r)
           c2 == Corner(r, 2)
           c3 == Corner(r, 3)
           g2 == SideOf(a, b, c, d, L1, H2)
           g3 == SideOf(a, b, c, d, H1, H2)
           gq == SideOf(a, b, c, d, y, H2)
<1>1. /\ a \in Int /\ b \in Int /\ c \in Int /\ d \in Int /\ y \in Int
      /\ L1 \in Int /\ H1 \in Int /\ H2 \in Int /\ L1 <= y /\ y <= H1
  BY CornersAre DEF InRect, Within
<1>2. /\ c2 \in Int \X Int /\ c2 = <<L1, H2>> /\ c3 \in Int \X Int /\ c3 = <<H1, H2>>
      /\ q \in Int \X Int /\ q = <<y, H2>>
  BY <1>1, CornersAre DEF RightOf
<1>3. /\ Cross(D, U, c2) = g2 /\ Cross(D, U, c3) = g3 /\ Cross(D, U, q) = gq
      /\ g2 \in Int /\ g3 \in Int /\ gq \in Int
  <2>1. \A v \in Int \X Int : Cross(D, U, v) = SideOf(a, b, c, d, v[1], v[2])
    BY CrossIsSide
  <2>2. c2[1] = L1 /\ c2[2] = H2 /\ c3[1] = H1 /\ c3[2] = H2 /\ q[1] = y /\ q[2] = H2
    BY <1>2
  <2>3. g2 \in Int /\ g3 \in Int /\ gq \in Int
    BY <1>1 DEF SideOf
  <2> HIDE DEF a, b, c, d, L1, H1, H2, y, q, c2, c3
  <2> QED
    BY <1>2, <2>1, <2>2, <2>3
<1>4. ASSUME NEW v \in Int \X Int, v[2] = H2
      PROVE  RunsPast(Flip(v), Flip(D), Flip(U)) <=> c <= H2 /\ H2 < d /\ 0 < Cross(D, U, v)
  <2> DEFINE X == (b - a) * (v[2] - c)
             Y == (d - c) * (v[1] - a)
  <2>1. v[1] \in Int /\ v[2] \in Int
    OBVIOUS
  <2>2. X \in Int /\ Y \in Int
    BY <1>1, <2>1
  <2>3. Cross(D, U, v) = X - Y
    BY DEF Cross
  <2>4. Cross(Flip(D), Flip(U), Flip(v)) = Y - X
    BY DEF Cross, Flip
  <2>5. RunsPast(Flip(v), Flip(D), Flip(U)) <=> c <= H2 /\ H2 < d /\ Cross(Flip(D), Flip(U), Flip(v)) < 0
    BY <1>4 DEF RunsPast, Flip
  <2> HIDE DEF X, Y
  <2> QED
    BY <2>2, <2>3, <2>4, <2>5
<1>5. ASSUME c <= H2, H2 < d PROVE 0 < gq <=> 0 < g3
  <2>1. g3 <= gq /\ gq <= g2
    <3> HIDE DEF a, b, c, d, L1, H1, H2, y
    <3>1. c <= d
      BY <1>1, <1>5
    <3>2. SideOf(a, b, c, d, H1, H2) <= SideOf(a, b, c, d, y, H2)
      BY <1>1, <3>1, SideOrderUp
    <3>3. SideOf(a, b, c, d, y, H2) <= SideOf(a, b, c, d, L1, H2)
      BY <1>1, <3>1, SideOrderUp
    <3> QED
      BY <3>2, <3>3
  <2>2. ~Opposite(g2, g3)
    <3> SUFFICES ASSUME Opposite(g2, g3) PROVE FALSE
      OBVIOUS
    <3>1. c2[2] = H2 /\ c3[2] = H2
      BY <1>2
    <3>2. Astride(D[2], U[2], c2[2])
      <4>1. Astride(c, d, H2)
        <5> HIDE DEF c, d, H2
        <5> QED
          BY <1>1, <1>5 DEF Astride
      <4> QED
        BY <3>1, <4>1
    <3>3. Opposite(Cross(D, U, c2), Cross(D, U, c3))
      BY <1>3
    <3> HIDE DEF c2, c3
    <3>4. Touch(D, U, c2, c3)
      BY <1>2, <3>1, <3>2, <3>3, TouchesUpright
    <3> QED
      BY <3>4 DEF TouchesRect, c2, c3
  <2> HIDE DEF g2, g3, gq
  <2> QED
    BY <1>3, <2>1, <2>2 DEF Opposite
<1>6. RunsPast(Flip(q), Flip(D), Flip(U)) <=> c <= H2 /\ H2 < d /\ 0 < gq
  <2>1. q[2] = H2
    BY <1>2
  <2> HIDE DEF q
  <2> QED
    BY <1>2, <1>3, <1>4, <2>1
<1>7. RunsPast(Flip(c3), Flip(D), Flip(U)) <=> c <= H2 /\ H2 < d /\ 0 < g3
  <2>1. c3[2] = H2
    BY <1>2
  <2> HIDE DEF c3
  <2> QED
    BY <1>2, <1>3, <1>4, <2>1
<1> HIDE DEF gq, g3, a, b, c, d, H2
<1> QED
  BY <1>5, <1>6, <1>7

\* A rectangle with a point of the right side on an edge is touched by the edge, or
\* has an end of it.
LEMMA OnEdgeTouches ==
  ASSUME NEW D \in Int \X Int, NEW U \in Int \X Int, NEW r, IsRect(r),
         NEW p \in Int \X Int, InRect(p, r), ~InRect(D, r), ~InRect(U, r),
         Cross(D, U, RightOf(p, r)) = 0, OnSegment(RightOf(p, r), D, U)
  PROVE  TouchesRect(D, U, r)
<1> DEFINE a == D[1]
           b == U[1]
           c == D[2]
           d == U[2]
           L1 == r[1][1]
           H1 == r[1][2]
           L2 == r[2][1]
           H2 == r[2][2]
           y == p[1]
           q == RightOf(p, r)
           c2 == Corner(r, 2)
           c3 == Corner(r, 3)
           g2 == SideOf(a, b, c, d, L1, H2)
           g3 == SideOf(a, b, c, d, H1, H2)
           gq == SideOf(a, b, c, d, y, H2)
<1>1. /\ a \in Int /\ b \in Int /\ c \in Int /\ d \in Int /\ y \in Int
      /\ L1 \in Int /\ H1 \in Int /\ L2 \in Int /\ H2 \in Int /\ L1 <= y /\ y <= H1 /\ L2 <= H2
      /\ ~(L1 <= a /\ a <= H1 /\ L2 <= c /\ c <= H2)
      /\ ~(L1 <= b /\ b <= H1 /\ L2 <= d /\ d <= H2)
  BY CornersAre DEF InRect, Within
<1>2. /\ c2 \in Int \X Int /\ c2 = <<L1, H2>> /\ c3 \in Int \X Int /\ c3 = <<H1, H2>>
      /\ q \in Int \X Int /\ q = <<y, H2>>
  BY <1>1, CornersAre DEF RightOf
<1>3. /\ Cross(D, U, c2) = g2 /\ Cross(D, U, c3) = g3 /\ Cross(D, U, q) = gq
      /\ g2 \in Int /\ g3 \in Int /\ gq \in Int
  <2>1. \A v \in Int \X Int : Cross(D, U, v) = SideOf(a, b, c, d, v[1], v[2])
    BY CrossIsSide
  <2>2. c2[1] = L1 /\ c2[2] = H2 /\ c3[1] = H1 /\ c3[2] = H2 /\ q[1] = y /\ q[2] = H2
    BY <1>2
  <2>3. g2 \in Int /\ g3 \in Int /\ gq \in Int
    BY <1>1 DEF SideOf
  <2> HIDE DEF a, b, c, d, L1, H1, H2, y, q, c2, c3
  <2> QED
    BY <1>2, <2>1, <2>2, <2>3
<1>4. gq = 0
  BY <1>3
<1>5. Amid(y, a, b) /\ Amid(H2, c, d)
  <2>1. q[1] = y /\ q[2] = H2
    BY <1>2
  <2> HIDE DEF q
  <2>2. Amid(q[1], D[1], U[1]) /\ Amid(q[2], D[2], U[2])
    BY <1>2, AmidSegment DEF q
  <2> QED
    BY <2>1, <2>2
<1>6. CASE Astride(c, d, H2)
  <2>1. Opposite(g2, g3)
    <3>1. \/ g3 <= gq /\ gq <= g2
          \/ g2 <= gq /\ gq <= g3
      <4> HIDE DEF a, b, c, d, L1, H1, H2, y
      <4>1. CASE c <= d
        <5>1. SideOf(a, b, c, d, H1, H2) <= SideOf(a, b, c, d, y, H2)
          BY <1>1, <4>1, SideOrderUp
        <5>2. SideOf(a, b, c, d, y, H2) <= SideOf(a, b, c, d, L1, H2)
          BY <1>1, <4>1, SideOrderUp
        <5> QED
          BY <5>1, <5>2
      <4>2. CASE d <= c
        <5>1. SideOf(a, b, c, d, y, H2) <= SideOf(a, b, c, d, H1, H2)
          BY <1>1, <4>2, SideOrderUp
        <5>2. SideOf(a, b, c, d, L1, H2) <= SideOf(a, b, c, d, y, H2)
          BY <1>1, <4>2, SideOrderUp
        <5> QED
          BY <5>1, <5>2
      <4> QED
        BY <1>1, <4>1, <4>2
    <3> HIDE DEF gq, g2, g3
    <3> QED
      BY <1>3, <1>4, <3>1 DEF Opposite
  <2>2. c2[2] = H2 /\ c3[2] = H2
    BY <1>2
  <2>3. Astride(D[2], U[2], c2[2])
    BY <1>6, <2>2
  <2>4. Opposite(Cross(D, U, c2), Cross(D, U, c3))
    BY <1>3, <2>1
  <2> HIDE DEF c2, c3
  <2>5. Touch(D, U, c2, c3)
    BY <1>2, <2>2, <2>3, <2>4, TouchesUpright
  <2> QED
    BY <2>5 DEF TouchesRect, c2, c3
<1>7. CASE ~Astride(c, d, H2)
  <2>1. c <= H2 /\ d <= H2 /\ (c = H2 \/ d = H2)
    <3> HIDE DEF c, d, H2
    <3> QED
      BY <1>1, <1>5, <1>7 DEF Astride, Amid
  <2>2. c = H2 /\ d = H2
    <3>1. ASSUME c = H2, d # H2 PROVE FALSE
      <4> DEFINE k == d - c
                 l == y - a
                 kl == k * l
      <4>1. k \in Int /\ l \in Int /\ k # 0 /\ kl \in Int /\ gq = -kl
        <5> HIDE DEF a, b, c, d, H2, y
        <5> QED
          BY <1>1, <3>1 DEF SideOf
      <4>2. kl = 0
        <5> HIDE DEF kl, gq
        <5> QED
          BY <1>4, <4>1
      <4>3. l = 0
        <5> HIDE DEF k, l
        <5>1. /\ kl \in Int
              /\ k > 0 /\ l > 0 => kl > 0
              /\ k > 0 /\ l < 0 => kl < 0
              /\ k < 0 /\ l > 0 => kl < 0
              /\ k < 0 /\ l < 0 => kl > 0
              /\ k = 0 \/ l = 0 => kl = 0
          BY <4>1, ProductSigns
        <5> HIDE DEF kl
        <5> QED
          BY <4>1, <4>2, <5>1
      <4> HIDE DEF a, b, c, d, L1, H1, L2, H2, y
      <4> QED
        BY <1>1, <3>1, <4>3
    <3>2. ASSUME d = H2, c # H2 PROVE FALSE
      <4> DEFINE k == d - c
                 l == b - y
                 kl == k * l
      <4>1. k \in Int /\ l \in Int /\ k # 0 /\ kl = gq
        <5> HIDE DEF a, b, c, d, H2, y
        <5>1. k \in Int /\ l \in Int /\ k # 0 /\ b - a \in Int /\ y - a \in Int
          BY <1>1, <3>2
        <5>2. gq = k * (b - a) - k * (y - a)
          BY <3>2 DEF SideOf
        <5>3. l = (b - a) - (y - a)
          BY <1>1
        <5>4. \A i, j \in Int : k * (i - j) = k * i - k * j
          <6> HIDE DEF k
          <6> QED
            BY <5>1
        <5> HIDE DEF k, l, gq
        <5> QED
          BY <5>1, <5>2, <5>3, <5>4
      <4>2. kl = 0
        <5> HIDE DEF kl, gq
        <5> QED
          BY <1>4, <4>1
      <4>3. l = 0
        <5> HIDE DEF k, l
        <5>1. /\ kl \in Int
              /\ k > 0 /\ l > 0 => kl > 0
              /\ k > 0 /\ l < 0 => kl < 0
              /\ k < 0 /\ l > 0 => kl < 0
              /\ k < 0 /\ l < 0 => kl > 0
              /\ k = 0 \/ l = 0 => kl = 0
          BY <4>1, ProductSigns
        <5> HIDE DEF kl
        <5> QED
          BY <4>1, <4>2, <5>1
      <4> HIDE DEF a, b, c, d, L1, H1, L2, H2, y
      <4> QED
        BY <1>1, <3>2, <4>3
    <3> QED
      BY <2>1, <3>1, <3>2
  <2>3. g3 = 0
    <3> HIDE DEF a, b, c, d, L1, H1, L2, H2, y
    <3> QED
      BY <1>1, <2>2 DEF SideOf
  <2>4. Amid(H1, a, b) /\ Amid(H2, c, d)
    <3> HIDE DEF a, b, c, d, L1, H1, L2, H2, y
    <3> QED
      BY <1>1, <1>5, <2>2 DEF Amid
  <2>5. c3[1] = H1 /\ c3[2] = H2
    BY <1>2
  <2>6. OnSegment(c3, D, U)
    <3>1. Amid(c3[1], D[1], U[1]) /\ Amid(c3[2], D[2], U[2])
      BY <2>4, <2>5
    <3> HIDE DEF c3
    <3> QED
      BY <1>2, <3>1, AmidSegment
  <2>7. Cross(D, U, c3) = 0
    BY <1>3, <2>3
  <2> HIDE DEF c2, c3
  <2>8. Touch(D, U, c2, c3)
    BY <2>6, <2>7 DEF Touch
  <2> QED
    BY <2>8 DEF TouchesRect, c2, c3
<1> QED
  BY <1>6, <1>7

\* A polygon overlaps every rectangle with a point inside the polygon: follow the ray
\* from the point to the right side of the rectangle and then this side up to its
\* corner. If no edge touches the rectangle and no vertex lies in it, none is crossed
\* on the way, and the corner is inside too.
THEOREM CoverSound ==
  ASSUME NEW ring, IsRing(ring), NEW r, IsRect(r), NEW p \in Int \X Int, InRect(p, r), Inside(p, ring)
  PROVE  PolygonOverlapsRect(ring, r)
<1> SUFFICES ASSUME ~PolygonOverlapsRect(ring, r) PROVE FALSE
  OBVIOUS
<1> DEFINE N == 1..Len(ring)
           q == RightOf(p, r)
           c3 == Corner(r, 3)
<1>1. /\ DOMAIN ring = N
      /\ \A n \in N : /\ ring[n] \in Int \X Int /\ Previous(ring, n) \in Int \X Int
                      /\ Before(n, Len(ring)) \in N /\ Previous(ring, n) = ring[Before(n, Len(ring))]
  BY RingFacts
<1>2. c3 \in Int \X Int /\ q \in Int \X Int
  BY CornersAre DEF RightOf
<1>3. \A n \in N : ~InRect(ring[n], r) /\ ~InRect(Previous(ring, n), r)
  <2>1. \A n \in N : ~InRect(ring[n], r)
    BY <1>1 DEF PolygonOverlapsRect, InRect
  <2> QED
    BY <1>1, <2>1
<1>4. \A n \in N : ~TouchesRect(ring[n], Previous(ring, n), r) /\ ~TouchesRect(Previous(ring, n), ring[n], r)
  BY TouchOverlaps
<1>5. ~PointInPolygon(c3, ring)
  <2>1. 3 \in 1..4
    OBVIOUS
  <2> QED
    BY <2>1 DEF PolygonOverlapsRect, Corner
<1>6. PointInPolygon(q, ring)
  <2>1. PointInPolygon(p, ring)
    BY InsideIsIn
  <2>2. ASSUME NEW n \in N
        PROVE  Crosses(p, ring[n], Previous(ring, n)) <=> Crosses(q, ring[n], Previous(ring, n))
    <3> DEFINE a == ring[n]
               b == Previous(ring, n)
    <3>1. /\ a \in Int \X Int /\ b \in Int \X Int /\ ~InRect(a, r) /\ ~InRect(b, r)
          /\ ~TouchesRect(a, b, r) /\ ~TouchesRect(b, a, r)
      BY <1>1, <1>3, <1>4
    <3> HIDE DEF a, b, q
    <3>2. Crosses(p, a, b) <=> RunsPast(p, a, b) \/ RunsPast(p, b, a)
      BY <3>1, CrossesRunsPast
    <3>3. Crosses(q, a, b) <=> RunsPast(q, a, b) \/ RunsPast(q, b, a)
      BY <1>2, <3>1, CrossesRunsPast
    <3>4. RunsPast(p, a, b) <=> RunsPast(RightOf(p, r), a, b)
      BY <3>1, RunsPastRight
    <3>5. RunsPast(p, b, a) <=> RunsPast(RightOf(p, r), b, a)
      BY <3>1, RunsPastRight
    <3>6. Crosses(p, a, b) <=> Crosses(q, a, b)
      BY <3>2, <3>3, <3>4, <3>5 DEF q
    <3> QED
      BY <3>6 DEF a, b
  <2>3. Crossing(p, ring) = Crossing(q, ring)
    <3> HIDE DEF q
    <3> QED
      BY <1>1, <2>2 DEF Crossing
  <2> QED
    BY <2>1, <2>3 DEF PointInPolygon, Crossing
<1>7. ~OnRing(q, ring)
  <2> SUFFICES ASSUME NEW n \in N, Cross(Previous(ring, n), ring[n], q) = 0, OnSegment(q, Previous(ring, n), ring[n])
               PROVE  FALSE
    BY <1>1 DEF OnRing
  <2> DEFINE a == ring[n]
             b == Previous(ring, n)
  <2>1. /\ a \in Int \X Int /\ b \in Int \X Int /\ ~InRect(a, r) /\ ~InRect(b, r)
        /\ ~TouchesRect(b, a, r)
        /\ Cross(b, a, RightOf(p, r)) = 0 /\ OnSegment(RightOf(p, r), b, a)
    BY <1>1, <1>3, <1>4
  <2> HIDE DEF a, b
  <2> QED
    BY <2>1, OnEdgeTouches
<1>8. ~OnRing(c3, ring)
  <2> SUFFICES ASSUME NEW n \in N, Cross(Previous(ring, n), ring[n], c3) = 0, OnSegment(c3, Previous(ring, n), ring[n])
               PROVE  FALSE
    BY <1>1 DEF OnRing
  <2>1. Touch(Previous(ring, n), ring[n], Corner(r, 2), Corner(r, 3))
    BY DEF Touch
  <2> QED
    BY <1>4, <2>1 DEF TouchesRect
<1>9. PointInPolygon(Flip(q), FlipRing(ring))
  BY <1>2, <1>6, <1>7, RaysAgree
<1>10. PointInPolygon(Flip(c3), FlipRing(ring))
  <2>1. ASSUME NEW n \in N
        PROVE  Crosses(Flip(q), FlipRing(ring)[n], Previous(FlipRing(ring), n))
                 <=> Crosses(Flip(c3), FlipRing(ring)[n], Previous(FlipRing(ring), n))
    <3> DEFINE a == ring[n]
               b == Previous(ring, n)
    <3>1. /\ a \in Int \X Int /\ b \in Int \X Int
          /\ ~TouchesRect(a, b, r) /\ ~TouchesRect(b, a, r)
      BY <1>1, <1>4
    <3>2. FlipRing(ring)[n] = Flip(a) /\ Previous(FlipRing(ring), n) = Flip(b)
      BY FlipFacts
    <3> HIDE DEF a, b, q, c3
    <3>3. Flip(a) \in Int \X Int /\ Flip(b) \in Int \X Int /\ Flip(q) \in Int \X Int /\ Flip(c3) \in Int \X Int
      BY <1>2, <3>1 DEF Flip
    <3>4. Crosses(Flip(q), Flip(a), Flip(b)) <=> RunsPast(Flip(q), Flip(a), Flip(b)) \/ RunsPast(Flip(q), Flip(b), Flip(a))
      BY <3>3, CrossesRunsPast
    <3>5. Crosses(Flip(c3), Flip(a), Flip(b)) <=> RunsPast(Flip(c3), Flip(a), Flip(b)) \/ RunsPast(Flip(c3), Flip(b), Flip(a))
      BY <3>3, CrossesRunsPast
    <3>6. RunsPast(Flip(RightOf(p, r)), Flip(a), Flip(b)) <=> RunsPast(Flip(Corner(r, 3)), Flip(a), Flip(b))
      BY <3>1, RunsPastUp
    <3>7. RunsPast(Flip(RightOf(p, r)), Flip(b), Flip(a)) <=> RunsPast(Flip(Corner(r, 3)), Flip(b), Flip(a))
      BY <3>1, RunsPastUp
    <3> QED
      BY <3>2, <3>4, <3>5, <3>6, <3>7 DEF q, c3
  <2>2. DOMAIN FlipRing(ring) = N
    BY <1>1 DEF FlipRing
  <2>3. Crossing(Flip(q), FlipRing(ring)) = Crossing(Flip(c3), FlipRing(ring))
    <3> HIDE DEF q, c3
    <3> QED
      BY <2>1, <2>2 DEF Crossing
  <2> HIDE DEF q, c3
  <2> QED
    BY <1>9, <2>3 DEF PointInPolygon, Crossing
<1>11. PointInPolygon(c3, ring)
  BY <1>2, <1>8, <1>10, RaysAgree
<1> QED
  BY <1>5, <1>11

\* What the rule of membership keeps is what the documentation says.
LEMMA RuleFollows ==
  ASSUME query \in Queries, IsRing(query.ring), BoxLosesNone
  PROVE  RuleIsMeant
<1> DEFINE l == query.layout
           ring == query.ring
<1>1. IsLayout(l)
  BY QueryFacts
<1> SUFFICES ASSUME NEW c \in Grid(l), Sampled(c)
             PROVE  /\ Inside(At(l, c), ring) => c \in ToSet(cells)
                    /\ ~Covers(query) /\ c \in ToSet(cells) =>
                         Inside(At(l, c), ring) \/ OnRing(At(l, c), ring)
                    /\ Covers(query) /\ (\E p \in Footprint(c) : Inside(p, ring)) => c \in ToSet(cells)
  BY DEF RuleIsMeant
<1> DEFINE centre == At(l, c)
<1>2. c \in ToSet(cells) <=> Kept(query, c)
  BY DEF BoxLosesNone
<1>3. Kept(query, c) <=> \/ PointInPolygon(centre, ring)
                         \/ Covers(query) /\ PolygonOverlapsRect(ring, CellBounds(l, c))
  BY DEF Kept
<1>4. centre \in Int \X Int
  BY <1>1, LayoutFacts
<1>5. Inside(centre, ring) <=> ~OnRing(centre, ring) /\ PointInPolygon(centre, ring)
  <2> HIDE DEF centre, ring
  <2> QED
    BY <1>4, InsideIsIn DEF ring
<1>6. ASSUME Covers(query), NEW p \in Footprint(c), Inside(p, ring)
      PROVE  PolygonOverlapsRect(ring, CellBounds(l, c))
  <2> DEFINE r == CellBounds(l, c)
  <2>1. l.kind # "npoints"
    BY <1>6 DEF Covers
  <2>2. IsRect(r)
    <3> HIDE DEF l
    <3> QED
      BY <1>1, <2>1, BoundsFacts DEF l
  <2>3. p \in (r[1][1]..r[1][2]) \X (r[2][1]..r[2][2])
    BY DEF Footprint
  <2> HIDE DEF r
  <2>4. p \in Int \X Int /\ InRect(p, r)
    <3>1. r[1][1] \in Int /\ r[1][2] \in Int /\ r[2][1] \in Int /\ r[2][2] \in Int
      BY <2>2 DEF IsRect
    <3> QED
      BY <2>3, <3>1 DEF InRect, Within
  <2> HIDE DEF ring
  <2>5. IsRing(ring)
    BY DEF ring
  <2>6. PolygonOverlapsRect(ring, r)
    BY <1>6, <2>2, <2>4, <2>5, CoverSound
  <2> QED
    BY <2>6 DEF r
<1> HIDE DEF centre, ring, l
<1> QED
  BY <1>2, <1>3, <1>5, <1>6 DEF centre

------------------------------------------------------------------------------
(* Blocks of an array *)

\* How many elements an index of dimension d stands for.
VolumeAfter(size, n, d) == ProductOnSet(size, (d + 1)..n)

\* The volume of a dimension is that of the next one times the length of this one.
LEMMA TailProducts ==
  ASSUME NEW n \in Nat, NEW size \in [1..n -> Nat \ {0}]
  PROVE  /\ VolumeAfter(size, n, n) = 1
         /\ \A d \in 1..n : VolumeAfter(size, n, d - 1) = size[d] * VolumeAfter(size, n, d)
         /\ \A d \in 0..n : VolumeAfter(size, n, d) \in Nat \ {0}
<1>1. size \in [DOMAIN size -> Int] /\ DOMAIN size = 1..n /\ size \in [1..n -> Int]
  OBVIOUS
<1>2. VolumeAfter(size, n, n) = 1
  <2>1. IsFiniteSet({}) /\ {} \in SUBSET (1..n) /\ (n + 1)..n = {}
    BY FS_EmptySet
  <2> QED
    BY <1>1, <2>1, ProductFacts DEF VolumeAfter
<1>3. ASSUME NEW d \in 1..n PROVE VolumeAfter(size, n, d - 1) = size[d] * VolumeAfter(size, n, d)
  <2>1. /\ d..n \in SUBSET DOMAIN size /\ d \in d..n /\ (d..n) \ {d} = (d + 1)..n
        /\ (d - 1) + 1 = d
    BY <1>1
  <2>2. IsFiniteSet(d..n)
    BY FS_Interval
  <2>3. ProductOnSet(size, d..n) = size[d] * ProductOnSet(size, (d..n) \ {d})
    <3> DEFINE S == d..n
    <3>1. S \in SUBSET DOMAIN size /\ IsFiniteSet(S) /\ d \in S
      BY <2>1, <2>2
    <3> HIDE DEF S
    <3>2. ProductOnSet(size, S) = size[d] * ProductOnSet(size, S \ {d})
      BY <1>1, <3>1, ProductRemove
    <3> QED
      BY <3>2 DEF S
  <2> QED
    BY <2>1, <2>3 DEF VolumeAfter
<1> DEFINE S == {e \in 0..n : VolumeAfter(size, n, n - e) \in Nat \ {0}}
<1>4. 0 \in S
  BY <1>2
<1>5. ASSUME NEW e \in 1..n, e - 1 \in S PROVE e \in S
  <2> DEFINE d == n - e + 1
             after == VolumeAfter(size, n, d)
             w == size[d]
  <2>1. d \in 1..n /\ n - (e - 1) = d /\ d - 1 = n - e
    OBVIOUS
  <2>2. after \in Nat \ {0}
    BY <1>5, <2>1
  <2>3. w \in Nat \ {0}
    BY <2>1
  <2>4. VolumeAfter(size, n, n - e) = w * after
    BY <1>3, <2>1
  <2> HIDE DEF w, after, d
  <2>5. w * after \in Nat \ {0}
    <3>1. w \in Int /\ after \in Int
      BY <2>2, <2>3
    <3>2. /\ w * after \in Int
          /\ w > 0 /\ after > 0 => w * after > 0
      BY <3>1, ProductSigns
    <3> QED
      BY <2>2, <2>3, <3>2
  <2> QED
    BY <2>4, <2>5
<1>6. \A e \in 0..n : e \in S
  <2> HIDE DEF S
  <2> QED
    BY <1>4, <1>5, IntervalInduction
<1>7. ASSUME NEW d \in 0..n PROVE VolumeAfter(size, n, d) \in Nat \ {0}
  <2>1. n - d \in 0..n /\ n - (n - d) = d
    OBVIOUS
  <2> QED
    BY <1>6, <2>1
<1> QED
  BY <1>2, <1>3, <1>7

\* Dimensions of length 1 in front do not count.
LEMMA LeadingUnits ==
  ASSUME NEW n \in Nat, NEW size \in [1..n -> Nat \ {0}], NEW k \in 0..n, \A d \in 1..k : size[d] = 1
  PROVE  VolumeAfter(size, n, 0) = VolumeAfter(size, n, k)
<1> DEFINE S == {d \in 0..k : VolumeAfter(size, n, 0) = VolumeAfter(size, n, d)}
<1>1. 0 \in S /\ k \in Nat
  OBVIOUS
<1>2. ASSUME NEW d \in 1..k, d - 1 \in S PROVE d \in S
  <2>1. d \in 1..n /\ size[d] = 1 /\ d \in 0..n
    OBVIOUS
  <2>2. VolumeAfter(size, n, d - 1) = size[d] * VolumeAfter(size, n, d)
    BY <2>1, TailProducts
  <2>3. VolumeAfter(size, n, d) \in Nat
    BY <2>1, TailProducts
  <2> QED
    BY <1>2, <2>1, <2>2, <2>3
<1>3. \A d \in 0..k : d \in S
  <2> HIDE DEF S
  <2> QED
    BY <1>1, <1>2, IntervalInduction
<1> QED
  BY <1>1, <1>3

\* What element o of a block is, from the first one.
Digit(o, size, n, d) == (o \div VolumeAfter(size, n, d)) % size[d]

\* In a dimension of length 1 every element has index 0.
LEMMA UnitDigit ==
  ASSUME NEW n \in Nat, NEW size \in [1..n -> Nat \ {0}], NEW d \in 1..n, size[d] = 1, NEW o \in Nat
  PROVE  Digit(o, size, n, d) = 0
<1>1. VolumeAfter(size, n, d) \in Nat \ {0}
  BY TailProducts
<1>2. o \div VolumeAfter(size, n, d) \in Int
  BY <1>1
<1>3. \A x \in Int : x % 1 = 0
  BY SMT
<1> QED
  BY <1>2, <1>3 DEF Digit

\* The elements of a block that only the last dimension distinguishes,
LEMMA DigitsOfOne ==
  ASSUME NEW n \in Nat \ {0}, NEW size \in [1..n -> Nat \ {0}], \A d \in 1..(n - 1) : size[d] = 1,
         NEW i \in 0..(size[n] - 1)
  PROVE  /\ i \in 0..(VolumeAfter(size, n, 0) - 1)
         /\ \A d \in 1..(n - 1) : Digit(i, size, n, d) = 0
         /\ Digit(i, size, n, n) = i
<1>1. n \in 1..n /\ size[n] \in Nat \ {0} /\ i \in Nat /\ i < size[n] /\ n - 1 \in 0..n
  OBVIOUS
<1>2. VolumeAfter(size, n, n) = 1
  BY TailProducts
<1>3. VolumeAfter(size, n, 0) = size[n]
  <2>1. VolumeAfter(size, n, 0) = VolumeAfter(size, n, n - 1)
    BY <1>1, LeadingUnits
  <2>2. VolumeAfter(size, n, n - 1) = size[n] * VolumeAfter(size, n, n)
    BY <1>1, TailProducts
  <2> QED
    BY <1>1, <1>2, <2>1, <2>2
<1>4. i \div 1 = i /\ i % size[n] = i
  BY <1>1, SMT
<1>5. Digit(i, size, n, n) = i
  BY <1>2, <1>4 DEF Digit
<1>6. ASSUME NEW d \in 1..(n - 1) PROVE Digit(i, size, n, d) = 0
  BY <1>1, UnitDigit
<1> QED
  BY <1>1, <1>3, <1>5, <1>6

\* Element o of a block with `size` is in row i and column j of the last dimensions.
TwoDigits(o, size, n, i, j) ==
  /\ o \in 0..(VolumeAfter(size, n, 0) - 1)
  /\ \A d \in 1..(n - 2) : Digit(o, size, n, d) = 0
  /\ Digit(o, size, n, n - 1) = i
  /\ Digit(o, size, n, n) = j

\* and of one that the last two dimensions distinguish.
LEMMA DigitsOfTwo ==
  ASSUME NEW n \in Nat, n >= 2, NEW size \in [1..n -> Nat \ {0}], \A d \in 1..(n - 2) : size[d] = 1,
         NEW i \in 0..(size[n - 1] - 1), NEW j \in 0..(size[n] - 1), NEW o, o = i * size[n] + j
  PROVE  TwoDigits(o, size, n, i, j)
<1> DEFINE rows == size[n - 1]
           cols == size[n]
<1>1. /\ n \in 1..n /\ n - 1 \in 1..n /\ n - 2 \in 0..n
      /\ rows \in Nat \ {0} /\ cols \in Nat \ {0} /\ i \in 0..(rows - 1) /\ j \in 0..(cols - 1)
      /\ o = i * cols + j
  OBVIOUS
<1>2. VolumeAfter(size, n, n) = 1
  BY TailProducts
<1>3. VolumeAfter(size, n, n - 1) = cols
  <2>1. VolumeAfter(size, n, n - 1) = cols * VolumeAfter(size, n, n)
    BY <1>1, TailProducts
  <2> HIDE DEF cols
  <2> QED
    BY <1>1, <1>2, <2>1
<1>4. VolumeAfter(size, n, 0) = rows * cols
  <2>1. VolumeAfter(size, n, 0) = VolumeAfter(size, n, n - 2)
    BY <1>1, LeadingUnits
  <2>2. (n - 1) - 1 = n - 2
    OBVIOUS
  <2>3. VolumeAfter(size, n, (n - 1) - 1) = rows * VolumeAfter(size, n, n - 1)
    BY <1>1, TailProducts
  <2> QED
    BY <1>3, <2>1, <2>2, <2>3
<1> HIDE DEF rows, cols
<1>5. IsNumber(i * cols + j + 1, rows, cols, i, j)
  BY <1>1, RowAndColOf
<1> DEFINE m == i * cols
<1>6. m \in Nat /\ rows * cols \in Int
  BY <1>1
<1>7. o \in Nat /\ o + 1 \in 1..(rows * cols) /\ o = o + 1 - 1
  <2>1. m + j + 1 \in 1..(rows * cols)
    BY <1>5 DEF IsNumber
  <2>2. o = m + j
    BY <1>1
  <2> HIDE DEF m
  <2> QED
    BY <1>1, <1>6, <2>1, <2>2
<1>8. o \div cols = i /\ o % cols = j
  <2> DEFINE k == m + j + 1
  <2>1. k - 1 = o
    <3> HIDE DEF m
    <3>1. m + j + 1 - 1 = m + j
      BY <1>1, <1>6
    <3> QED
      BY <1>1, <3>1 DEF m
  <2>2. RowOf(k, cols) = i /\ ColOf(k, cols) = j
    BY <1>5 DEF IsNumber
  <2> HIDE DEF k
  <2> QED
    BY <2>1, <2>2 DEF RowOf, ColOf
<1>9. o \div 1 = o /\ i % rows = i
  <2>1. \A x \in Nat : x \div 1 = x
    BY SMT
  <2>2. i \in Nat /\ i \in Int /\ i < rows /\ rows \in Nat \ {0}
    BY <1>1
  <2> DEFINE q == i \div rows
  <2>3. 0 = q
    BY <2>2, DivIsZero
  <2>4. i % rows = i - q * rows
    BY <2>2, ModIsRest
  <2> HIDE DEF q
  <2>5. i - 0 * rows = i
    BY <2>2
  <2>6. i % rows = i
    BY <2>3, <2>4, <2>5
  <2>7. o \div 1 = o
    BY <1>7, <2>1
  <2> QED
    BY <2>6, <2>7
<1>10. Digit(o, size, n, n - 1) = i
  BY <1>3, <1>8, <1>9 DEF Digit, rows
<1>11. Digit(o, size, n, n) = j
  BY <1>2, <1>8, <1>9 DEF Digit, cols
<1>12. ASSUME NEW d \in 1..(n - 2) PROVE Digit(o, size, n, d) = 0
  <2>1. d \in 1..n
    OBVIOUS
  <2> QED
    BY <1>7, <2>1, UnitDigit
<1>13. o \in 0..(rows * cols - 1)
  BY <1>6, <1>7
<1> QED
  BY <1>4, <1>10, <1>11, <1>12, <1>13 DEF TwoDigits

\* One part after the other: first a, then k times x, then g.
Parts(s, V, a, k, x, g) ==
  /\ s \in Seq(V) /\ Len(s) = 1 + k + Len(g)
  /\ s[1] = a
  /\ \A d \in 2..(1 + k) : s[d] = x
  /\ \A d \in 1..Len(g) : s[1 + k + d] = g[d]

\* The parts of a concatenation.
LEMMA ThreeParts ==
  ASSUME NEW V, NEW a \in V, NEW k \in Nat, NEW x \in V, NEW g \in Seq(V)
  PROVE  Parts(<<a>> \o [d \in 1..k |-> x] \o g, V, a, k, x, g)
<1> DEFINE m == [d \in 1..k |-> x]
           h == <<a>> \o m
           s == h \o g
<1>1. m \in Seq(V) /\ Len(m) = k
  OBVIOUS
<1>2. \A d \in 1..k : m[d] = x
  OBVIOUS
<1>3. <<a>> \in Seq(V) /\ Len(<<a>>) = 1 /\ <<a>>[1] = a
  OBVIOUS
<1> HIDE DEF m
<1>4. h \in Seq(V) /\ Len(h) = 1 + k
  BY <1>1, <1>3
<1>5. h[1] = a
  BY <1>1, <1>3
<1>6. ASSUME NEW d \in 2..(1 + k) PROVE h[d] = x
  <2>1. d \in 1..(Len(<<a>>) + Len(m)) /\ d > Len(<<a>>) /\ d - Len(<<a>>) = d - 1 /\ d - 1 \in 1..k
    BY <1>1, <1>3
  <2>2. h[d] = m[d - 1]
    BY <1>1, <1>3, <2>1
  <2> QED
    BY <1>2, <2>1, <2>2
<1> HIDE DEF h
<1>7. s \in Seq(V) /\ Len(s) = 1 + k + Len(g) /\ Len(g) \in Nat
  BY <1>4
<1>8. \A d \in 1..(1 + k) : s[d] = h[d]
  BY <1>4, <1>7
<1>9. \A d \in 1..Len(g) : s[1 + k + d] = g[d]
  BY <1>4, <1>7
<1>10. 1 \in 1..(1 + k) /\ \A d \in 2..(1 + k) : d \in 1..(1 + k)
  OBVIOUS
<1> HIDE DEF s
<1>11. Parts(s, V, a, k, x, g)
  BY <1>5, <1>6, <1>7, <1>8, <1>9, <1>10 DEF Parts
<1> QED
  BY <1>11 DEF s, h, m

\* The block of some ranges, with the operators above.
SizeOf(ranges) == [d \in DOMAIN ranges |-> ranges[d][2] - ranges[d][1]]
IndexAt(ranges, o) ==
  [d \in DOMAIN ranges |-> ranges[d][1] + Digit(o, SizeOf(ranges), Len(ranges), d)]

\* An element of a block, by its index in every dimension.
LEMMA BlockAt ==
  ASSUME NEW shape, NEW ranges, NEW o \in 0..(VolumeAfter(SizeOf(ranges), Len(ranges), 0) - 1)
  PROVE  Block(shape, ranges)[o] = IF \A d \in DOMAIN shape : IndexAt(ranges, o)[d] < shape[d]
                                   THEN IndexAt(ranges, o) ELSE FillValue
<1>1. Block(shape, ranges)
        = [i \in 0..(VolumeAfter(SizeOf(ranges), Len(ranges), 0) - 1) |->
             IF \A d \in DOMAIN shape : IndexAt(ranges, i)[d] < shape[d]
             THEN IndexAt(ranges, i) ELSE FillValue]
  BY DEF Block, SizeOf, IndexAt, Digit, VolumeAfter, ProductOnSet
<1> QED
  BY <1>1

\* The index of a cell at a time.
CellIndex(l, shape, step, c) ==
  <<step>> \o [d \in 1..MiddleDims(l, shape) |-> 0] \o SubSeq(c, 1, Ndim(l) - 1)

GridRanges(l) ==
  IF Ndim(l) = 3 THEN <<<<bbox.rMin, bbox.rMax>>, <<bbox.cMin, bbox.cMax>>>>
  ELSE <<<<bbox.rMin, bbox.rMax>>>>

\* The ranges of a time step: the step, index 0 in the middle, the box.
LEMMA RangesFacts ==
  ASSUME NEW l, NEW shape, MiddleDims(l, shape) \in Nat, NEW step \in Int, IsBox(bbox)
  PROVE  /\ Parts(SelectionAt(l, shape, step), Int \X Int, <<step, step + 1>>,
                  MiddleDims(l, shape), <<0, 1>>, GridRanges(l))
         /\ Len(GridRanges(l)) = Ndim(l) - 1
<1> DEFINE k == MiddleDims(l, shape)
           g == GridRanges(l)
           V == Int \X Int
<1>1. g \in Seq(V) /\ Len(g) = Ndim(l) - 1
  <2>1. <<bbox.rMin, bbox.rMax>> \in V /\ <<bbox.cMin, bbox.cMax>> \in V
    BY DEF IsBox
  <2>2. CASE Ndim(l) = 3
    <3>1. g = <<<<bbox.rMin, bbox.rMax>>, <<bbox.cMin, bbox.cMax>>>>
      BY <2>2 DEF GridRanges
    <3> HIDE DEF V, g
    <3> QED
      BY <2>1, <2>2, <3>1
  <2>3. CASE Ndim(l) # 3
    <3>1. g = <<<<bbox.rMin, bbox.rMax>>>> /\ Ndim(l) = 2
      BY <2>3 DEF GridRanges, Ndim
    <3> HIDE DEF V, g
    <3> QED
      BY <2>1, <3>1
  <2> QED
    BY <2>2, <2>3
<1>2. <<step, step + 1>> \in V /\ <<0, 1>> \in V /\ k \in Nat
  OBVIOUS
<1>3. SelectionAt(l, shape, step) = <<<<step, step + 1>>>> \o [d \in 1..k |-> <<0, 1>>] \o g
  BY DEF SelectionAt, GridRanges
<1> HIDE DEF g, k, V
<1>4. Parts(<<<<step, step + 1>>>> \o [d \in 1..k |-> <<0, 1>>] \o g, V, <<step, step + 1>>, k, <<0, 1>>, g)
  BY <1>1, <1>2, ThreeParts
<1> QED
  BY <1>1, <1>3, <1>4 DEF g, k, V

\* The index of a cell: the step, 0 in the middle, row and column.
LEMMA IndexFacts ==
  ASSUME NEW l, NEW shape, MiddleDims(l, shape) \in Nat, NEW step \in Int, NEW c \in Int \X Int
  PROVE  /\ Parts(CellIndex(l, shape, step, c), Int, step, MiddleDims(l, shape), 0, SubSeq(c, 1, Ndim(l) - 1))
         /\ Len(SubSeq(c, 1, Ndim(l) - 1)) = Ndim(l) - 1
         /\ SubSeq(c, 1, Ndim(l) - 1)[1] = c[1]
         /\ Ndim(l) = 3 => SubSeq(c, 1, Ndim(l) - 1)[2] = c[2]
<1> DEFINE k == MiddleDims(l, shape)
           g == SubSeq(c, 1, Ndim(l) - 1)
<1>1. c \in Seq(Int) /\ Len(c) = 2 /\ Ndim(l) - 1 \in 1..2
  <2>1. c = <<c[1], c[2]>> /\ c[1] \in Int /\ c[2] \in Int
    OBVIOUS
  <2>2. <<c[1], c[2]>> \in Seq(Int) /\ Len(<<c[1], c[2]>>) = 2
    BY <2>1
  <2>3. Ndim(l) = 2 \/ Ndim(l) = 3
    BY DEF Ndim
  <2>4. Ndim(l) - 1 \in 1..2
    BY <2>3
  <2> QED
    BY <2>1, <2>2, <2>4
<1>2. g \in Seq(Int) /\ Len(g) = Ndim(l) - 1 /\ g[1] = c[1] /\ (Ndim(l) = 3 => g[2] = c[2])
  BY <1>1
<1>3. k \in Nat /\ 0 \in Int
  OBVIOUS
<1>4. CellIndex(l, shape, step, c) = <<step>> \o [d \in 1..k |-> 0] \o g
  BY DEF CellIndex
<1> HIDE DEF g, k
<1>5. Parts(<<step>> \o [d \in 1..k |-> 0] \o g, Int, step, k, 0, g)
  BY <1>2, <1>3, ThreeParts
<1> QED
  BY <1>2, <1>4, <1>5 DEF g, k

\* The element of the block that is taken for a cell is the one of the cell.
LEMMA BlockOfCell ==
  ASSUME NEW l, IsLayout(l), NEW shape \in Seq(Nat), RankFits(l, shape), NEW step \in Int,
         FitsGrid(bbox, l), HasCells(bbox), NEW c \in BoxCells(bbox)
  PROVE  ValueAt(Block(shape, SelectionAt(l, shape, step)), c)
           = IF \A d \in DOMAIN shape : CellIndex(l, shape, step, c)[d] < shape[d]
             THEN CellIndex(l, shape, step, c) ELSE FillValue
<1> DEFINE n == Len(shape)
           k == MiddleDims(l, shape)
           nd == Ndim(l)
           ranges == SelectionAt(l, shape, step)
           size == SizeOf(ranges)
           idx == CellIndex(l, shape, step, c)
           g == GridRanges(l)
           e == SubSeq(c, 1, nd - 1)
           rows == bbox.rMax - bbox.rMin
           cols == bbox.cMax - bbox.cMin
           i == c[1] - bbox.rMin
           j == c[2] - bbox.cMin
           o == (c[1] - bbox.rMin) * (bbox.cMax - bbox.cMin) + c[2] - bbox.cMin
<1>1. /\ n \in Nat /\ nd \in {2, 3} /\ k = n - nd /\ k \in Nat
      /\ l.rows \in Nat /\ l.cols \in Nat
      /\ nd = 2 => l.cols = 1
  BY LayoutFacts DEF RankFits, MiddleDims, Ndim
<1>2. /\ bbox.rMin \in Nat /\ bbox.rMax \in Nat /\ bbox.cMin \in Nat /\ bbox.cMax \in Nat
      /\ bbox.rMin < bbox.rMax /\ bbox.cMin < bbox.cMax /\ bbox.cMax <= l.cols /\ IsBox(bbox)
  BY DEF FitsGrid, IsBox, HasCells
<1>3. /\ c \in Int \X Int /\ c[1] \in Int /\ c[2] \in Int
      /\ bbox.rMin <= c[1] /\ c[1] < bbox.rMax /\ bbox.cMin <= c[2] /\ c[2] < bbox.cMax
  BY <1>2 DEF BoxCells
<1>4. /\ rows \in Nat \ {0} /\ cols \in Nat \ {0} /\ i \in 0..(rows - 1) /\ j \in 0..(cols - 1)
      /\ c[1] = bbox.rMin + i /\ c[2] = bbox.cMin + j
      /\ nd = 2 => cols = 1 /\ j = 0
  <2>1. /\ rows \in Nat \ {0} /\ cols \in Nat \ {0} /\ i \in 0..(rows - 1) /\ j \in 0..(cols - 1)
        /\ c[1] = bbox.rMin + i /\ c[2] = bbox.cMin + j
    <3>1. rows \in Nat \ {0} /\ i \in 0..(rows - 1) /\ c[1] = bbox.rMin + i
      BY <1>2, <1>3
    <3>2. cols \in Nat \ {0} /\ j \in 0..(cols - 1) /\ c[2] = bbox.cMin + j
      BY <1>2, <1>3
    <3> QED
      BY <3>1, <3>2
  <2>2. nd = 2 => bbox.cMax = 1 /\ bbox.cMin = 0 /\ c[2] = 0
    <3> HIDE DEF nd
    <3> QED
      BY <1>1, <1>2, <1>3
  <2>3. nd = 2 => cols = 1 /\ j = 0
    <3> HIDE DEF nd
    <3> QED
      BY <2>2
  <2> QED
    BY <2>1, <2>3
<1>5. o = i * cols + j
  <2> DEFINE m == i * cols
  <2>1. m \in Int
    BY <1>4
  <2>2. o = m + c[2] - bbox.cMin
    OBVIOUS
  <2> HIDE DEF m, o
  <2>3. o = m + j
    BY <1>2, <1>3, <2>1, <2>2
  <2> QED
    BY <2>3 DEF m
<1>6. Parts(ranges, Int \X Int, <<step, step + 1>>, k, <<0, 1>>, g) /\ Len(g) = nd - 1
  <2> HIDE DEF nd, k, ranges, g
  <2> QED
    BY <1>1, <1>2, RangesFacts DEF nd, k, ranges, g
<1>7. g[1] = <<bbox.rMin, bbox.rMax>> /\ (nd = 3 => g[2] = <<bbox.cMin, bbox.cMax>>)
  BY DEF GridRanges
<1>8. Parts(idx, Int, step, k, 0, e) /\ Len(e) = nd - 1 /\ e[1] = c[1] /\ (nd = 3 => e[2] = c[2])
  BY <1>1, <1>3, IndexFacts
<1> HIDE DEF n, k, nd, ranges, size, idx, g, e, rows, cols, i, j, o
<1>9. /\ Len(ranges) = n /\ DOMAIN ranges = 1..n
      /\ ranges[1] = <<step, step + 1>>
      /\ \A d \in 2..(1 + k) : ranges[d] = <<0, 1>>
      /\ ranges[2 + k] = g[1] /\ (nd = 3 => ranges[3 + k] = g[2])
  <2>1. ranges \in Seq(Int \X Int) /\ Len(ranges) = 1 + k + (nd - 1)
    BY <1>6 DEF Parts
  <2>2. Len(ranges) = n
    BY <1>1, <2>1
  <2>3. DOMAIN ranges = 1..n
    BY <2>1, <2>2
  <2>4. \A d \in 1..(nd - 1) : ranges[1 + k + d] = g[d]
    BY <1>6 DEF Parts
  <2>5. ranges[2 + k] = g[1]
    <3>1. 1 \in 1..(nd - 1) /\ 1 + k + 1 = 2 + k
      BY <1>1
    <3> QED
      BY <2>4, <3>1
  <2>6. nd = 3 => ranges[3 + k] = g[2]
    <3>1. nd = 3 => 2 \in 1..(nd - 1) /\ 1 + k + 2 = 3 + k
      BY <1>1
    <3> QED
      BY <2>4, <3>1
  <2> QED
    BY <1>6, <2>2, <2>3, <2>5, <2>6 DEF Parts
<1>10. /\ idx \in Seq(Int) /\ Len(idx) = n /\ DOMAIN idx = 1..n
       /\ idx[1] = step
       /\ \A d \in 2..(1 + k) : idx[d] = 0
       /\ idx[2 + k] = c[1] /\ (nd = 3 => idx[3 + k] = c[2])
  <2>1. idx \in Seq(Int) /\ Len(idx) = 1 + k + (nd - 1)
    BY <1>8 DEF Parts
  <2>2. Len(idx) = n
    BY <1>1, <2>1
  <2>3. DOMAIN idx = 1..n
    BY <2>1, <2>2
  <2>4. \A d \in 1..(nd - 1) : idx[1 + k + d] = e[d]
    BY <1>8 DEF Parts
  <2>5. idx[2 + k] = c[1]
    <3>1. 1 \in 1..(nd - 1) /\ 1 + k + 1 = 2 + k
      BY <1>1
    <3> QED
      BY <1>8, <2>4, <3>1
  <2>6. nd = 3 => idx[3 + k] = c[2]
    <3>1. nd = 3 => 2 \in 1..(nd - 1) /\ 1 + k + 2 = 3 + k
      BY <1>1
    <3> QED
      BY <1>8, <2>4, <3>1
  <2> QED
    BY <1>8, <2>1, <2>2, <2>3, <2>5, <2>6 DEF Parts
<1>11. /\ n >= 2 /\ (nd = 2 => n - 1 = 1 + k /\ n = 2 + k)
       /\ (nd = 3 => n - 2 = 1 + k /\ n - 1 = 2 + k /\ n = 3 + k)
       /\ \A d \in 1..n : d = 1 \/ d \in 2..(1 + k) \/ d = 2 + k \/ (nd = 3 /\ d = 3 + k)
  BY <1>1
<1>12. /\ DOMAIN size = 1..n /\ \A d \in 1..n : size[d] = ranges[d][2] - ranges[d][1]
  BY <1>9 DEF size, SizeOf
<1>13. /\ \A d \in 1..(1 + k) : size[d] = 1
       /\ size[2 + k] = rows /\ (nd = 3 => size[3 + k] = cols)
  <2>1. \A d \in 1..(1 + k) : d \in 1..n /\ (d = 1 \/ d \in 2..(1 + k))
    BY <1>1
  <2>2. ranges[1][2] - ranges[1][1] = 1
    BY <1>9
  <2>3. \A d \in 2..(1 + k) : ranges[d][2] - ranges[d][1] = 1
    BY <1>9
  <2>4. ranges[2 + k][2] - ranges[2 + k][1] = rows /\ 2 + k \in 1..n
    BY <1>1, <1>7, <1>9 DEF rows
  <2>5. nd = 3 => ranges[3 + k][2] - ranges[3 + k][1] = cols /\ 3 + k \in 1..n
    BY <1>1, <1>7, <1>9 DEF cols
  <2> QED
    BY <1>12, <2>1, <2>2, <2>3, <2>4, <2>5
<1>14. size \in [1..n -> Nat \ {0}]
  <2>1. \A d \in 1..n : size[d] \in Nat \ {0}
    <3> TAKE d \in 1..n
    <3>1. d \in 1..(1 + k) \/ d = 2 + k \/ (nd = 3 /\ d = 3 + k)
      BY <1>1, <1>11
    <3> QED
      BY <1>4, <1>13, <3>1
  <2>2. size = [d \in 1..n |-> size[d]]
    BY <1>9 DEF size, SizeOf
  <2> HIDE DEF size
  <2> QED
    BY <2>1, <2>2
<1>15. /\ o \in 0..(VolumeAfter(size, n, 0) - 1)
       /\ \A d \in 1..(1 + k) : Digit(o, size, n, d) = 0
       /\ Digit(o, size, n, 2 + k) = i /\ (nd = 3 => Digit(o, size, n, 3 + k) = j)
  <2>1. CASE nd = 2
    <3>1. /\ n \in Nat \ {0} /\ \A d \in 1..(n - 1) : size[d] = 1
          /\ i \in 0..(size[n] - 1) /\ n - 1 = 1 + k /\ n = 2 + k
      BY <1>1, <1>4, <1>11, <1>13, <2>1
    <3>2. /\ i \in 0..(VolumeAfter(size, n, 0) - 1)
          /\ \A d \in 1..(n - 1) : Digit(i, size, n, d) = 0
          /\ Digit(i, size, n, n) = i
      <4> HIDE DEF i, n, size
      <4> QED
        BY <1>14, <3>1, DigitsOfOne
    <3>3. o = i
      <4>1. i * 1 + 0 = i
        BY <1>4
      <4> QED
        BY <1>4, <1>5, <2>1, <4>1
    <3> QED
      BY <2>1, <3>1, <3>2, <3>3
  <2>2. CASE nd = 3
    <3>1. /\ n \in Nat /\ n >= 2 /\ \A d \in 1..(n - 2) : size[d] = 1
          /\ i \in 0..(size[n - 1] - 1) /\ j \in 0..(size[n] - 1) /\ o = i * size[n] + j
          /\ n - 2 = 1 + k /\ n - 1 = 2 + k /\ n = 3 + k
      BY <1>1, <1>4, <1>5, <1>11, <1>13, <2>2
    <3>2. TwoDigits(o, size, n, i, j)
      BY <1>14, <3>1, DigitsOfTwo
    <3> QED
      BY <2>2, <3>1, <3>2 DEF TwoDigits
  <2> QED
    BY <1>1, <2>1, <2>2
<1>16. IndexAt(ranges, o) = idx
  <2>1. IndexAt(ranges, o) = [d \in 1..n |-> ranges[d][1] + Digit(o, size, n, d)]
    BY <1>9 DEF IndexAt, size
  <2>2. \A d \in 1..n : ranges[d][1] + Digit(o, size, n, d) = idx[d]
    <3> TAKE d \in 1..n
    <3>1. CASE d = 1
      <4>1. 1 \in 1..(1 + k)
        BY <1>1
      <4> QED
        BY <1>9, <1>10, <1>15, <3>1, <4>1
    <3>2. CASE d \in 2..(1 + k)
      <4>1. d \in 1..(1 + k)
        BY <1>1, <3>2
      <4>2. ranges[d] = <<0, 1>> /\ idx[d] = 0 /\ Digit(o, size, n, d) = 0
        BY <1>9, <1>10, <1>15, <3>2, <4>1
      <4> QED
        BY <4>2
    <3>3. CASE d = 2 + k
      BY <1>4, <1>7, <1>9, <1>10, <1>15, <3>3
    <3>4. CASE nd = 3 /\ d = 3 + k
      BY <1>4, <1>7, <1>9, <1>10, <1>15, <3>4
    <3> QED
      BY <1>11, <3>1, <3>2, <3>3, <3>4
  <2>3. idx = [d \in 1..n |-> idx[d]]
    BY <1>10
  <2> QED
    BY <2>1, <2>2, <2>3
<1>17. ValueAt(Block(shape, ranges), c) = Block(shape, ranges)[o]
  BY DEF ValueAt, o
<1>18. Block(shape, ranges)[o] = IF \A d \in DOMAIN shape : IndexAt(ranges, o)[d] < shape[d]
                                 THEN IndexAt(ranges, o) ELSE FillValue
  <2>1. o \in 0..(VolumeAfter(SizeOf(ranges), Len(ranges), 0) - 1)
    BY <1>9, <1>15 DEF size
  <2> QED
    BY <2>1, BlockAt
<1> QED
  BY <1>16, <1>17, <1>18 DEF ranges, idx

------------------------------------------------------------------------------
(* The invariant of the reader *)

\* What a given selection asks for lies in the array.
LEMMA CellInArray ==
  ASSUME NEW l, IsLayout(l), NEW shape \in Seq(Nat), RankFits(l, shape), NEW step \in Int,
         FitsGrid(bbox, l), HasCells(bbox), NEW c \in BoxCells(bbox),
         step < shape[1], SelectionInBounds(l, shape)
  PROVE  \A d \in DOMAIN shape : CellIndex(l, shape, step, c)[d] < shape[d]
<1> DEFINE n == Len(shape)
           k == MiddleDims(l, shape)
           nd == Ndim(l)
           idx == CellIndex(l, shape, step, c)
           e == SubSeq(c, 1, nd - 1)
<1>1. /\ n \in Nat /\ nd \in {2, 3} /\ k = n - nd /\ k \in Nat /\ DOMAIN shape = 1..n
      /\ \A d \in 1..n : shape[d] \in Nat
      /\ \A d \in 2..(1 + k) : shape[d] = 1
  BY DEF RankFits, MiddleDims, Ndim
<1>2. /\ bbox.rMin \in Nat /\ bbox.rMax \in Nat /\ bbox.cMin \in Nat /\ bbox.cMax \in Nat
  BY DEF FitsGrid, IsBox
<1>3. c \in Int \X Int /\ c[1] \in Int /\ c[2] \in Int /\ c[1] < bbox.rMax /\ c[2] < bbox.cMax
  BY <1>2 DEF BoxCells
<1>4. Parts(idx, Int, step, k, 0, e) /\ Len(e) = nd - 1 /\ e[1] = c[1] /\ (nd = 3 => e[2] = c[2])
  BY <1>1, <1>3, IndexFacts
<1>5. bbox.rMax <= ArrayRows(l, shape) /\ bbox.cMax <= ArrayCols(l, shape)
  BY DEF SelectionInBounds
<1>6. /\ nd = 3 => ArrayRows(l, shape) = shape[n - 1] /\ ArrayCols(l, shape) = shape[n]
      /\ nd = 2 => ArrayRows(l, shape) = shape[n]
  BY DEF ArrayRows, ArrayCols
<1> HIDE DEF n, k, nd, idx, e
<1>7. \A d \in 1..(nd - 1) : idx[1 + k + d] = e[d]
  BY <1>4 DEF Parts
<1>8. idx[1] = step /\ \A d \in 2..(1 + k) : idx[d] = 0
  BY <1>4 DEF Parts
<1>9. idx[2 + k] = c[1] /\ 2 + k \in 1..n
  <2>1. 1 \in 1..(nd - 1) /\ 1 + k + 1 = 2 + k /\ 2 + k \in 1..n
    BY <1>1
  <2> QED
    BY <1>4, <1>7, <2>1
<1>10. nd = 3 => idx[3 + k] = c[2] /\ 3 + k \in 1..n
  <2>1. nd = 3 => 2 \in 1..(nd - 1) /\ 1 + k + 2 = 3 + k /\ 3 + k \in 1..n
    BY <1>1
  <2> QED
    BY <1>4, <1>7, <2>1
<1>11. /\ nd = 3 => n = 3 + k /\ n - 1 = 2 + k
       /\ nd = 2 => n = 2 + k
       /\ \A d \in 1..n : d = 1 \/ d \in 2..(1 + k) \/ d = 2 + k \/ (nd = 3 /\ d = 3 + k)
  BY <1>1
<1>12. idx[2 + k] < shape[2 + k]
  <2>1. ArrayRows(l, shape) = shape[2 + k]
    BY <1>1, <1>6, <1>11
  <2>2. shape[2 + k] \in Nat
    BY <1>1, <1>9
  <2> QED
    BY <1>2, <1>3, <1>5, <1>9, <2>1, <2>2
<1>13. nd = 3 => idx[3 + k] < shape[3 + k]
  <2>1. nd = 3 => ArrayCols(l, shape) = shape[3 + k]
    BY <1>6, <1>11
  <2>2. nd = 3 => shape[3 + k] \in Nat
    BY <1>1, <1>10
  <2> QED
    BY <1>2, <1>3, <1>5, <1>10, <2>1, <2>2
<1>14. ASSUME NEW d \in 1..n PROVE idx[d] < shape[d]
  <2>1. CASE d = 1
    BY <1>8, <2>1
  <2>2. CASE d \in 2..(1 + k)
    BY <1>1, <1>8, <2>2
  <2> QED
    BY <1>11, <1>12, <1>13, <2>1, <2>2
<1> QED
  BY <1>1, <1>14 DEF idx

\* A polygon that passes the checks has vertices.
LEMMA RingOfInput ==
  ASSUME NEW q \in Queries, NEW c, Accepts(q, c)
  PROVE  IsRing(q.ring)
<1>1. q.ring \in Seq(Int \X Int) /\ Cardinality(ToSet(q.ring)) >= 3
  BY QueryFacts DEF Accepts, ValidInput
<1>2. Len(q.ring) # 0
  <2> SUFFICES ASSUME Len(q.ring) = 0 PROVE FALSE
    OBVIOUS
  <2>1. ToSet(q.ring) = {}
    BY <1>1 DEF ToSet
  <2>2. Cardinality(ToSet(q.ring)) = 0
    BY <2>1, FS_EmptySet
  <2> QED
    BY <1>1, <2>2
<1> QED
  BY <1>1, <1>2 DEF IsRing

\* The selection is that of the box and of the stride.
SelectionHolds ==
  /\ IsRing(query.ring) /\ bbox = RightBox(query)
  /\ IF HasCells(bbox) THEN cells = GatherCells(query, bbox, stride) ELSE cells = <<>> /\ stride = 1

Aligned ==
  \A k \in DOMAIN cells :
    LET index == CellIndex(query.layout, call.shape, timeStep - 1, cells[k])
    IN values[k] = index \/ (values[k] = FillValue /\ ~given)

\* The invariant: a selection, once there is one, is the one that the box and the stride
\* determine; nothing is yielded before it is resolved, and nothing is read that the
\* guards have not let pass.
PolygonInv ==
  /\ PolygonTypeOK
  /\ phase = "idle" => bbox = NoBox /\ stride = 1 /\ cells = <<>>
  /\ phase \in {"idle", "gathering", "resolved"} => values = <<>>
  /\ phase \in {"gathering", "resolved", "streaming", "done"} => SelectionHolds /\ Accepts(query, call)
  /\ phase = "gathering" => HasCells(bbox)
  /\ phase = "resolved" => cells # <<>> \/ stride = 1
  /\ phase \in {"streaming", "done"} => (given => SelectionInBounds(query.layout, call.shape))
  /\ phase \in {"streaming", "done"} /\ values # <<>> => Aligned

\* The box of a selection lies within the grid.
LEMMA BoxFits ==
  ASSUME query \in Queries, SelectionHolds
  PROVE  FitsGrid(bbox, query.layout)
BY BoxKeeps DEF SelectionHolds

\* The cells of a box are cells of the grid.
LEMMA CellsFit ==
  ASSUME NEW q \in Queries, NEW b, FitsGrid(b, q.layout), HasCells(b), NEW s \in Nat \ {0}
  PROVE  GatherCells(q, b, s) \in Seq(BoxCells(b)) /\ GatherCells(q, b, s) \in Seq(Grid(q.layout))
<1> DEFINE l == q.layout
           cs == GatherCells(q, b, s)
<1>1. IsBox(b)
  BY DEF FitsGrid
<1>2. cs \in Seq(BoxCells(b))
  BY <1>1, GatherFacts DEF IsSelection
<1>3. BoxCells(b) \subseteq Grid(l)
  <2>1. l.rows \in Nat /\ l.cols \in Nat
    <3>1. IsLayout(l)
      BY QueryFacts
    <3> QED
      BY <3>1 DEF IsLayout
  <2> HIDE DEF l
  <2> QED
    BY <2>1, BoxWithinGrid DEF l
<1>4. cs \in Seq(Grid(l))
  <2> HIDE DEF cs, l
  <2> QED
    BY <1>2, <1>3
<1> QED
  BY <1>2, <1>4

\* What the arrays and times of a caller are.
LEMMA RequestFacts ==
  ASSUME NEW c \in Calls
  PROVE  c.shape \in Seq(Nat) /\ Len(c.shape) > 0 /\ c.range \in Int \X Int
BY CallsAssumption

\* No box lies within every grid.
LEMMA NoBoxFits ==
  ASSUME NEW q \in Queries
  PROVE  FitsGrid(NoBox, q.layout)
<1>1. q.layout.rows \in Nat /\ q.layout.cols \in Nat
  BY QueryFacts, LayoutFacts
<1> QED
  BY <1>1 DEF FitsGrid, IsBox, NoBox, BoxOf

\* The invariant holds at first.
LEMMA PolygonInvInit == PolygonInit => PolygonInv
<1> SUFFICES ASSUME PolygonInit PROVE PolygonInv
  OBVIOUS
<1>1. query \in Queries /\ call \in Calls
  BY RequestsAssumption DEF PolygonInit
<1>2. /\ phase = "idle" /\ bbox = NoBox /\ stride = 1 /\ cells = <<>> /\ given = FALSE /\ timeStep = 0 /\ values = <<>>
  BY DEF PolygonInit
<1>3. FitsGrid(bbox, query.layout)
  BY <1>1, <1>2, NoBoxFits
<1>4. PolygonTypeOK
  <2>1. /\ bbox \in [{"rMin", "rMax", "cMin", "cMax"} -> Nat]
        /\ bbox.rMax <= query.layout.rows /\ bbox.cMax <= query.layout.cols
    BY <1>3 DEF FitsGrid
  <2>2. <<>> \in Seq(Grid(query.layout))
    OBVIOUS
  <2>3. stride \in Nat \ {0} /\ timeStep \in Nat /\ cells \in Seq(Grid(query.layout))
    BY <1>2, <2>2
  <2>5. given \in BOOLEAN
    BY <1>2, Zenon
  <2>4. phase \in {"idle", "gathering", "resolved", "streaming", "done", "rejected"}
    BY <1>2
  <2> QED
    BY <1>1, <1>2, <2>1, <2>3, <2>4, <2>5 DEF PolygonTypeOK
<1>5. phase \notin {"gathering", "resolved", "streaming", "done"}
  BY <1>2
<1> QED
  BY <1>2, <1>4, <1>5 DEF PolygonInv

\* A box has no cells just when the code finds it empty.
LEMMA EmptyBox ==
  ASSUME NEW b, IsBox(b)
  PROVE  /\ HasCells(b) <=> ~(b.rMax - b.rMin <= 0 \/ b.cMax - b.cMin <= 0)
         /\ HasCells(b) => /\ b.rMax - b.rMin \in Nat /\ b.rMax - b.rMin > 0
                           /\ b.cMax - b.cMin \in Nat /\ b.cMax - b.cMin > 0
BY DEF IsBox, HasCells

\* Resolving establishes the selection of the box,
LEMMA ResolvesKeeps ==
  ASSUME PolygonInv, Resolves
  PROVE  PolygonInv'
<1>1. /\ query \in Queries /\ query' = query /\ call \in Calls /\ call' = call
      /\ given \in BOOLEAN /\ given' = given /\ timeStep \in Nat /\ timeStep' = timeStep
      /\ values = <<>> /\ values' = values /\ stride = 1 /\ cells = <<>>
      /\ Accepts(query, call)
  BY DEF Resolves, PolygonInv, PolygonTypeOK
<1>2. IsRing(query.ring)
  BY <1>1, RingOfInput
<1>3. bbox' = RightBox(query)
  BY DEF Resolves, RightBox
<1>4. FitsGrid(bbox', query.layout) /\ IsBox(bbox')
  <2>1. FitsGrid(RightBox(query), query.layout)
    BY <1>1, <1>2, BoxKeeps
  <2> QED
    BY <1>3, <2>1 DEF FitsGrid
<1> DEFINE rows == bbox'.rMax - bbox'.rMin
           cols == bbox'.cMax - bbox'.cMin
<1>5. IF rows <= 0 \/ cols <= 0
      THEN phase' = "resolved" /\ UNCHANGED <<stride, cells>>
      ELSE /\ stride' = ComputeStride(rows, cols, query.maxCells)
           /\ cells' = GatherCells(query, bbox', stride')
           /\ phase' = "gathering"
  BY DEF Resolves
<1>6. /\ HasCells(bbox') <=> ~(rows <= 0 \/ cols <= 0)
      /\ HasCells(bbox') => rows \in Nat /\ rows > 0 /\ cols \in Nat /\ cols > 0
  BY <1>4, EmptyBox
<1> HIDE DEF rows, cols
<1>7. CASE ~HasCells(bbox')
  <2>1. phase' = "resolved" /\ stride' = 1 /\ cells' = <<>>
    BY <1>1, <1>5, <1>6, <1>7
  <2>2. PolygonTypeOK'
    BY <1>1, <1>4, <2>1 DEF PolygonTypeOK, FitsGrid
  <2>3. SelectionHolds'
    BY <1>1, <1>2, <1>3, <1>7, <2>1 DEF SelectionHolds, RightBox, HasCells
  <2>4. Accepts(query, call)'
    BY <1>1
  <2> QED
    BY <1>1, <2>1, <2>2, <2>3, <2>4 DEF PolygonInv
<1>8. CASE HasCells(bbox')
  <2>1. /\ stride' = ComputeStride(rows, cols, query.maxCells)
        /\ cells' = GatherCells(query, bbox', stride')
        /\ phase' = "gathering"
    BY <1>5, <1>6, <1>8
  <2>2. stride' \in Nat \ {0}
    BY <1>6, <1>8, <2>1, StrideType
  <2>3. cells' \in Seq(Grid(query.layout))
    BY <1>1, <1>4, <1>8, <2>1, <2>2, CellsFit
  <2>4. PolygonTypeOK'
    BY <1>1, <1>4, <2>1, <2>2, <2>3 DEF PolygonTypeOK, FitsGrid
  <2>5. SelectionHolds'
    BY <1>1, <1>2, <1>3, <1>8, <2>1 DEF SelectionHolds
  <2>6. Accepts(query, call)' /\ HasCells(bbox)'
    BY <1>1, <1>8
  <2> QED
    BY <1>1, <2>1, <2>4, <2>5, <2>6 DEF PolygonInv
<1> QED
  BY <1>7, <1>8

\* a smaller stride that of the same box,
LEMMA ClampsKeeps ==
  ASSUME PolygonInv, Clamps
  PROVE  PolygonInv'
<1>1. /\ query \in Queries /\ query' = query /\ call \in Calls /\ call' = call
      /\ given \in BOOLEAN /\ given' = given /\ timeStep \in Nat /\ timeStep' = timeStep
      /\ values = <<>> /\ values' = values /\ bbox' = bbox /\ phase = "gathering" /\ phase' = phase
      /\ stride \in Nat \ {0} /\ stride > 1 /\ stride' = stride - 1
      /\ cells' = GatherCells(query, bbox, stride')
      /\ Accepts(query, call) /\ SelectionHolds /\ HasCells(bbox)
  BY DEF Clamps, PolygonInv, PolygonTypeOK
<1>2. stride' \in Nat \ {0}
  BY <1>1
<1>3. FitsGrid(bbox, query.layout)
  BY <1>1, BoxFits
<1>4. cells' \in Seq(Grid(query.layout))
  BY <1>1, <1>2, <1>3, CellsFit
<1>5. PolygonTypeOK'
  BY <1>1, <1>2, <1>3, <1>4 DEF PolygonTypeOK, FitsGrid
<1>6. SelectionHolds'
  BY <1>1 DEF SelectionHolds
<1>7. Accepts(query, call)' /\ HasCells(bbox)'
  BY <1>1
<1> QED
  BY <1>1, <1>5, <1>6, <1>7 DEF PolygonInv

\* and a step of the stream puts the value of every cell in its place.
LEMMA YieldsKeeps ==
  ASSUME PolygonInv, Yields
  PROVE  PolygonInv'
<1> DEFINE l == query.layout
           shape == call.shape
           block == Block(shape, SelectionAt(l, shape, timeStep))
<1>1. /\ query \in Queries /\ query' = query /\ call \in Calls /\ call' = call
      /\ given \in BOOLEAN /\ given' = given /\ timeStep \in Nat /\ timeStep' = timeStep + 1
      /\ phase = "streaming" /\ phase' = phase
      /\ bbox' = bbox /\ stride' = stride /\ cells' = cells
      /\ cells \in Seq(Grid(l)) /\ SelectionHolds /\ Accepts(query, call)
      /\ given => SelectionInBounds(l, shape)
      /\ timeStep < call.range[2]
      /\ values' = [k \in DOMAIN cells |-> ValueAt(block, cells[k])]
  BY DEF Yields, PolygonInv, PolygonTypeOK, selection
<1>2. /\ IsLayout(l) /\ RankFits(l, shape) /\ shape \in Seq(Nat)
      /\ call.range[2] \in Int /\ shape[1] \in Nat /\ call.range[2] <= shape[1]
  <2>1. IsLayout(l) /\ shape \in Seq(Nat) /\ Len(shape) > 0 /\ call.range \in Int \X Int
    BY <1>1, QueryFacts, RequestFacts
  <2>2. shape[1] \in Nat
    BY <2>1
  <2> QED
    BY <1>1, <2>1, <2>2 DEF Accepts, ValidInput
<1>3. FitsGrid(bbox, l)
  BY <1>1, BoxFits
<1>4. /\ cells \in Seq(BoxCells(bbox))
      /\ cells # <<>> => HasCells(bbox)
  <2>1. CASE HasCells(bbox)
    <3>1. cells = GatherCells(query, bbox, stride) /\ stride \in Nat \ {0}
      BY <1>1, <2>1 DEF SelectionHolds, PolygonInv, PolygonTypeOK
    <3> QED
      BY <1>1, <1>3, <2>1, <3>1, CellsFit
  <2>2. CASE ~HasCells(bbox)
    BY <1>1, <2>2 DEF SelectionHolds
  <2> QED
    BY <2>1, <2>2
<1>5. ASSUME NEW k \in DOMAIN cells
      PROVE  LET index == CellIndex(l, shape, timeStep, cells[k])
             IN values'[k] = index \/ (values'[k] = FillValue /\ ~given)
  <2> DEFINE c == cells[k]
  <2>1. c \in BoxCells(bbox) /\ HasCells(bbox)
    BY <1>4
  <2>2. values'[k] = ValueAt(block, c)
    BY <1>1
  <2> HIDE DEF c, l, shape
  <2>3. timeStep \in Int
    BY <1>1
  <2>4. ValueAt(Block(shape, SelectionAt(l, shape, timeStep)), c)
          = IF \A d \in DOMAIN shape : CellIndex(l, shape, timeStep, c)[d] < shape[d]
            THEN CellIndex(l, shape, timeStep, c) ELSE FillValue
    BY <1>2, <1>3, <2>1, <2>3, BlockOfCell
  <2>5. given => \A d \in DOMAIN shape : CellIndex(l, shape, timeStep, c)[d] < shape[d]
    <3> SUFFICES ASSUME given PROVE \A d \in DOMAIN shape : CellIndex(l, shape, timeStep, c)[d] < shape[d]
      OBVIOUS
    <3>1. timeStep < shape[1] /\ SelectionInBounds(l, shape)
      BY <1>1, <1>2
    <3> QED
      BY <1>2, <1>3, <2>1, <2>3, <3>1, CellInArray
  <2> QED
    BY <2>2, <2>4, <2>5 DEF c
<1>6. values' = <<>> \/ Len(values') = Len(cells)
  <2> DEFINE V == {ValueAt(block, cells[k]) : k \in DOMAIN cells}
             f == [k \in 1..Len(cells) |-> ValueAt(block, cells[k])]
  <2>1. Len(cells) \in Nat /\ DOMAIN cells = 1..Len(cells)
    BY <1>1
  <2>2. f \in Seq(V) /\ DOMAIN f = 1..Len(cells)
    BY <2>1
  <2>3. Len(f) = Len(cells)
    <3> HIDE DEF f, V
    <3> QED
      BY <2>1, <2>2
  <2> HIDE DEF block
  <2> QED
    BY <1>1, <2>1, <2>3
<1>7. PolygonTypeOK'
  BY <1>1, <1>6 DEF PolygonTypeOK, PolygonInv
<1>8. SelectionHolds'
  BY <1>1 DEF SelectionHolds
<1>9. Accepts(query, call)' /\ (given => SelectionInBounds(query.layout, call.shape))'
  BY <1>1 DEF SelectionInBounds
<1>10. Aligned'
  <2>1. timeStep' - 1 = timeStep
    BY <1>1
  <2> QED
    BY <1>1, <1>5, <2>1 DEF Aligned
<1> QED
  BY <1>1, <1>7, <1>8, <1>9, <1>10 DEF PolygonInv

\* A stream starts with nothing yielded.
LEMMA StreamsKeeps ==
  ASSUME PolygonInv, phase = "resolved", NEW c \in Calls, Streams(c), given' \in BOOLEAN,
         Accepts(query, c), given' => SelectionInBounds(query.layout, c.shape)
  PROVE  PolygonInv'
<1>1. /\ query \in Queries /\ query' = query /\ call' = c /\ call' \in Calls
      /\ timeStep' = c.range[1] /\ values = <<>> /\ values' = values
      /\ bbox' = bbox /\ stride' = stride /\ cells' = cells /\ SelectionHolds
      /\ phase' \in {"streaming", "done"}
  BY DEF Streams, PolygonInv, PolygonTypeOK, selection
<1>2. timeStep' \in Nat
  <2>1. c.range \in Int \X Int /\ 0 <= c.range[1]
    BY RequestFacts DEF Accepts, ValidInput
  <2> QED
    BY <1>1, <2>1
<1>3. PolygonTypeOK'
  BY <1>1, <1>2 DEF PolygonTypeOK, PolygonInv
<1>4. SelectionHolds'
  BY <1>1 DEF SelectionHolds
<1>5. Accepts(query, call)' /\ (given => SelectionInBounds(query.layout, call.shape))'
  BY <1>1 DEF SelectionInBounds
<1> QED
  BY <1>1, <1>3, <1>4, <1>5 DEF PolygonInv

\* Every step keeps the invariant.
LEMMA PolygonInvNext == PolygonInv /\ [PolygonNext]_polygonVars => PolygonInv'
<1> SUFFICES ASSUME PolygonInv, [PolygonNext]_polygonVars PROVE PolygonInv'
  OBVIOUS
<1>1. CASE Rejects
  BY <1>1 DEF Rejects, PolygonInv, PolygonTypeOK, selection
<1>2. CASE Resolves
  BY <1>2, ResolvesKeeps
<1>3. CASE Clamps
  BY <1>3, ClampsKeeps
<1>4. CASE Resolved
  <2>1. /\ phase = "gathering" /\ phase' = "resolved" /\ query' = query /\ call' = call
        /\ bbox' = bbox /\ stride' = stride /\ cells' = cells /\ given' = given /\ timeStep' = timeStep /\ values' = values
        /\ cells # <<>> \/ stride = 1
    BY <1>4 DEF Resolved, selection
  <2>2. PolygonTypeOK'
    BY <2>1 DEF PolygonInv, PolygonTypeOK
  <2>3. SelectionHolds' /\ Accepts(query, call)'
    BY <2>1 DEF PolygonInv, SelectionHolds
  <2> QED
    BY <2>1, <2>2, <2>3 DEF PolygonInv
<1>5. CASE ReadsOwn
  <2>1. phase = "resolved" /\ given' = FALSE /\ Streams(call) /\ call \in Calls /\ Accepts(query, call)
    BY <1>5 DEF ReadsOwn, PolygonInv, PolygonTypeOK
  <2>2. given' \in BOOLEAN /\ ~given'
    BY <2>1, Zenon
  <2> QED
    BY <2>1, <2>2, StreamsKeeps
<1>6. CASE ReadsGiven
  <2>1. phase = "resolved" /\ given' = TRUE
    BY <1>6 DEF ReadsGiven
  <2>2. given' \in BOOLEAN
    BY <2>1, Zenon
  <2>3. PICK c \in Calls :
          IF Accepts(query, c) /\ SelectionInBounds(query.layout, c.shape)
          THEN Streams(c)
          ELSE phase' = "rejected" /\ call' = c /\ UNCHANGED <<query, selection, timeStep, values>>
    BY <1>6 DEF ReadsGiven
  <2>4. CASE Accepts(query, c) /\ SelectionInBounds(query.layout, c.shape)
    <3>1. Streams(c)
      BY <2>3, <2>4
    <3> QED
      BY <2>1, <2>2, <2>4, <3>1, StreamsKeeps
  <2>5. CASE ~(Accepts(query, c) /\ SelectionInBounds(query.layout, c.shape))
    <3>1. /\ phase' = "rejected" /\ call' = c /\ query' = query /\ timeStep' = timeStep /\ values' = values
          /\ bbox' = bbox /\ stride' = stride /\ cells' = cells
      BY <2>3, <2>5 DEF selection
    <3>2. PolygonTypeOK'
      BY <2>2, <3>1 DEF PolygonInv, PolygonTypeOK
    <3> QED
      BY <3>1, <3>2 DEF PolygonInv
  <2> QED
    BY <2>4, <2>5
<1>7. CASE Yields
  BY <1>7, YieldsKeeps
<1>8. CASE Ends
  <2>1. /\ phase = "streaming" /\ phase' = "done" /\ query' = query /\ call' = call
        /\ bbox' = bbox /\ stride' = stride /\ cells' = cells /\ given' = given /\ timeStep' = timeStep /\ values' = values
    BY <1>8 DEF Ends, selection
  <2>2. PolygonTypeOK'
    BY <2>1 DEF PolygonInv, PolygonTypeOK
  <2>3. SelectionHolds' /\ Accepts(query, call)'
    BY <2>1 DEF PolygonInv, SelectionHolds
  <2>4. (given => SelectionInBounds(query.layout, call.shape))'
    BY <2>1 DEF PolygonInv, SelectionInBounds
  <2>5. Aligned <=> Aligned'
    BY <2>1 DEF Aligned
  <2> QED
    BY <2>1, <2>2, <2>3, <2>4, <2>5 DEF PolygonInv
<1>9. CASE UNCHANGED polygonVars
  <2>1. /\ query' = query /\ phase' = phase /\ call' = call /\ bbox' = bbox /\ stride' = stride
        /\ cells' = cells /\ given' = given /\ timeStep' = timeStep /\ values' = values
    BY <1>9 DEF polygonVars, selection
  <2>2. PolygonTypeOK <=> PolygonTypeOK'
    BY <2>1 DEF PolygonTypeOK
  <2>3. (SelectionHolds <=> SelectionHolds') /\ (Accepts(query, call) <=> Accepts(query, call)')
    BY <2>1 DEF SelectionHolds
  <2>4. SelectionInBounds(query.layout, call.shape) <=> SelectionInBounds(query.layout, call.shape)'
    BY <2>1 DEF SelectionInBounds
  <2>5. Aligned <=> Aligned'
    BY <2>1 DEF Aligned
  <2> QED
    BY <2>1, <2>2, <2>3, <2>4, <2>5 DEF PolygonInv
<1> QED
  BY <1>1, <1>2, <1>3, <1>4, <1>5, <1>6, <1>7, <1>8, <1>9 DEF PolygonNext

\* The stride is the smallest that fits, or was lowered from it past strides that keep
\* nothing.
StrideHolds ==
  /\ \A s \in 1..(stride - 1) : ~Fits(s)
  /\ \A s \in Nat : s > stride /\ ~Fits(s - 1) => GatherCells(query, bbox, s) = <<>>

StrideInv == phase \in {"gathering", "resolved"} /\ HasCells(bbox) => StrideHolds

\* A budget that passes the checks is positive.
LEMMA BudgetOfInput ==
  ASSUME NEW q \in Queries, NEW c, Accepts(q, c)
  PROVE  IsBudget(q.maxCells)
<1>1. q.maxCells \in Int \cup {Unlimited}
  BY QueriesAssumption
<1>2. q.maxCells # Unlimited => q.maxCells >= 1
  BY DEF Accepts, ValidInput
<1> QED
  BY <1>1, <1>2 DEF IsBudget

\* Resolving takes the smallest stride that fits,
LEMMA ResolvesKeepsStride ==
  ASSUME PolygonInv, PolygonInv', Resolves, HasCells(bbox')
  PROVE  StrideHolds'
<1> DEFINE rows == bbox'.rMax - bbox'.rMin
           cols == bbox'.cMax - bbox'.cMin
           m == query.maxCells
<1>1. query \in Queries /\ query' = query /\ Accepts(query, call)
  BY DEF Resolves, PolygonInv, PolygonTypeOK
<1>2. IsBox(bbox')
  BY DEF PolygonInv, PolygonTypeOK, IsBox
<1>3. rows \in Nat /\ rows > 0 /\ cols \in Nat /\ cols > 0 /\ stride' = ComputeStride(rows, cols, m)
  <2>1. /\ HasCells(bbox') <=> ~(rows <= 0 \/ cols <= 0)
        /\ HasCells(bbox') => rows \in Nat /\ rows > 0 /\ cols \in Nat /\ cols > 0
    BY <1>2, EmptyBox
  <2>2. IF rows <= 0 \/ cols <= 0
        THEN phase' = "resolved" /\ UNCHANGED <<stride, cells>>
        ELSE /\ stride' = ComputeStride(rows, cols, m)
             /\ cells' = GatherCells(query, bbox', stride')
             /\ phase' = "gathering"
    BY DEF Resolves
  <2> HIDE DEF rows, cols, m
  <2> QED
    BY <2>1, <2>2
<1>4. IsBudget(m)
  BY <1>1, BudgetOfInput
<1>5. \A s : Fits(s)' <=> FitsBudget(rows, cols, m, s)
  BY <1>1 DEF Fits, FitsBudget
<1> HIDE DEF rows, cols, m
<1>6. /\ ComputeStride(rows, cols, m) \in Nat \ {0}
      /\ \A s \in 1..(ComputeStride(rows, cols, m) - 1) : ~FitsBudget(rows, cols, m, s)
      /\ FitsBudget(rows, cols, m, ComputeStride(rows, cols, m))
  BY <1>3, <1>4, StrideIsLeast
<1>7. /\ stride' \in Nat \ {0}
      /\ \A s \in 1..(stride' - 1) : ~FitsBudget(rows, cols, m, s)
      /\ FitsBudget(rows, cols, m, stride')
  BY <1>3, <1>6
<1>8. ASSUME NEW s \in Nat, s > stride' PROVE FitsBudget(rows, cols, m, s - 1)
  <2>1. s - 1 \in Nat \ {0} /\ stride' <= s - 1
    BY <1>7, <1>8
  <2> QED
    BY <1>3, <1>4, <1>7, <2>1, LargerFits
<1> QED
  BY <1>5, <1>7, <1>8 DEF StrideHolds

\* and lowering it passes one more that keeps nothing.
LEMMA ClampsKeepsStride ==
  ASSUME PolygonInv, StrideHolds, Clamps
  PROVE  StrideHolds'
<1>1. /\ query' = query /\ bbox' = bbox /\ stride' = stride - 1 /\ stride \in Nat \ {0} /\ stride > 1
      /\ cells = <<>> /\ HasCells(bbox) /\ SelectionHolds
  BY DEF Clamps, PolygonInv, PolygonTypeOK
<1>2. GatherCells(query, bbox, stride) = <<>>
  BY <1>1 DEF SelectionHolds
<1>3. \A s : Fits(s)' <=> Fits(s)
  BY <1>1 DEF Fits
<1>4. ASSUME NEW s \in 1..(stride' - 1) PROVE ~Fits(s)
  <2>1. s \in 1..(stride - 1)
    BY <1>1
  <2> QED
    BY <2>1 DEF StrideHolds
<1>5. ASSUME NEW s \in Nat, s > stride', ~Fits(s - 1) PROVE GatherCells(query, bbox, s) = <<>>
  <2>1. s = stride \/ s > stride
    BY <1>1, <1>5
  <2>2. s > stride => GatherCells(query, bbox, s) = <<>>
    BY <1>5 DEF StrideHolds
  <2> QED
    BY <1>2, <2>1, <2>2
<1> QED
  BY <1>1, <1>3, <1>4, <1>5 DEF StrideHolds

\* Every step keeps it.
LEMMA StrideInvNext ==
  ASSUME PolygonInv, PolygonInv', StrideInv, [PolygonNext]_polygonVars
  PROVE  StrideInv'
<1> SUFFICES ASSUME phase' \in {"gathering", "resolved"}, HasCells(bbox') PROVE StrideHolds'
  BY DEF StrideInv
<1>1. CASE Resolves
  BY <1>1, ResolvesKeepsStride
<1>2. CASE Clamps
  <2>1. StrideHolds
    BY <1>2 DEF StrideInv, PolygonInv, Clamps
  <2> QED
    BY <1>2, <2>1, ClampsKeepsStride
<1>3. CASE Resolved \/ UNCHANGED polygonVars
  <2>1. /\ query' = query /\ bbox' = bbox /\ stride' = stride
        /\ phase \in {"gathering", "resolved"}
    BY <1>3 DEF Resolved, polygonVars, selection
  <2>2. StrideHolds
    BY <2>1 DEF StrideInv
  <2>3. \A s : Fits(s)' <=> Fits(s)
    BY <2>1 DEF Fits
  <2> QED
    BY <2>1, <2>2, <2>3 DEF StrideHolds
<1>4. CASE Rejects \/ ReadsOwn \/ ReadsGiven \/ Yields \/ Ends
  <2>1. phase' \in {"streaming", "done", "rejected"}
    BY <1>4 DEF Rejects, ReadsOwn, ReadsGiven, Yields, Ends, Streams
  <2> QED
    BY <2>1
<1> QED
  BY <1>1, <1>2, <1>3, <1>4 DEF PolygonNext

\* What follows for the stride of a selection that is resolved.
LEMMA StrideFollows ==
  ASSUME PolygonInv, StrideInv, phase = "resolved"
  PROVE  StrideIsMeant
<1> DEFINE rows == bbox.rMax - bbox.rMin
           cols == bbox.cMax - bbox.cMin
           m == query.maxCells
<1>1. /\ query \in Queries /\ SelectionHolds /\ Accepts(query, call) /\ stride \in Nat \ {0}
      /\ IsRing(query.ring) /\ bbox = RightBox(query)
  BY DEF PolygonInv, PolygonTypeOK, SelectionHolds
<1>2. /\ FitsGrid(bbox, query.layout)
      /\ \A c \in Grid(query.layout) : Kept(query, c) => c \in BoxCells(bbox)
  BY <1>1, BoxKeeps
<1>3. IsBox(bbox)
  BY <1>2 DEF FitsGrid
<1>4. IsBudget(m)
  BY <1>1, BudgetOfInput
<1>5. query.layout.rows \in Nat /\ query.layout.cols \in Nat
  BY <1>1, QueryFacts, LayoutFacts
<1>6. CASE HasCells(bbox)
  <2>1. StrideHolds /\ cells = GatherCells(query, bbox, stride)
    BY <1>1, <1>6 DEF StrideInv, SelectionHolds
  <2>2. ASSUME NEW s \in (stride + 1)..(query.layout.rows + query.layout.cols), ~Fits(s - 1),
               NEW c \in Grid(query.layout), Kept(query, c), SampledBy(s, c)
        PROVE  FALSE
    <3>1. s \in Nat \ {0} /\ s > stride
      BY <1>1, <1>5
    <3>2. GatherCells(query, bbox, s) = <<>>
      BY <2>1, <2>2, <3>1 DEF StrideHolds
    <3>3. IsSelection(<<>>, query, bbox, s)
      BY <1>3, <1>6, <3>1, <3>2, GatherFacts
    <3>4. c \in BoxCells(bbox) /\ SampledOf(bbox, s, c)
      BY <1>2, <2>2 DEF SampledBy, SampledOf
    <3>5. c \in ToSet(<<>>)
      BY <2>2, <3>3, <3>4 DEF IsSelection
    <3> QED
      BY <3>5 DEF ToSet
  <2>3. ASSUME Fits(stride), m # Unlimited PROVE Len(cells) <= m
    <3> DEFINE n == BoxRows(bbox, stride) * BoxCols(bbox, stride)
    <3>1. IsSelection(cells, query, bbox, stride)
      BY <1>1, <1>3, <1>6, <2>1, GatherFacts
    <3>2. Len(cells) <= n /\ Len(cells) \in Nat
      BY <3>1 DEF IsSelection
    <3>3. n <= m
      BY <2>3 DEF Fits, BoxRows, BoxCols
    <3>4. m \in Int
      BY <1>4, <2>3 DEF IsBudget
    <3>5. n \in Nat
      BY <1>1, <1>3, <1>6, BoxSize
    <3> HIDE DEF n, m
    <3> QED
      BY <3>2, <3>3, <3>4, <3>5
  <2>4. \A s \in 1..(stride - 1) : ~Fits(s)
    BY <2>1 DEF StrideHolds
  <2> QED
    BY <2>2, <2>3, <2>4 DEF StrideIsMeant
<1>7. CASE ~HasCells(bbox)
  <2>1. cells = <<>> /\ stride = 1
    BY <1>1, <1>7 DEF SelectionHolds
  <2>2. BoxCells(bbox) = {}
    BY <1>3, <1>7 DEF BoxCells, HasCells, IsBox
  <2>3. ~\E c \in Grid(query.layout) : Kept(query, c)
    BY <1>2, <2>2
  <2>4. m # Unlimited => Len(cells) <= m
    <3>1. Len(cells) = 0
      BY <2>1
    <3> HIDE DEF m
    <3> QED
      BY <1>4, <3>1 DEF IsBudget
  <2>5. 1..(stride - 1) = {}
    BY <2>1
  <2> QED
    BY <2>3, <2>4, <2>5 DEF StrideIsMeant
<1> QED
  BY <1>6, <1>7

\* The invariant of the polygon reader.
THEOREM PolygonInvHolds == PolygonSpec => []PolygonInv
<1>1. PolygonInit => PolygonInv
  BY PolygonInvInit
<1>2. PolygonInv /\ [PolygonNext]_polygonVars => PolygonInv'
  BY PolygonInvNext
<1> QED
  BY <1>1, <1>2, PTL DEF PolygonSpec

\* The search for a stride and its way down, beside it.
THEOREM StrideInvHolds == PolygonSpec => []StrideInv
<1>1. PolygonInit => StrideInv
  <2> SUFFICES ASSUME PolygonInit PROVE StrideInv
    OBVIOUS
  <2>1. phase \notin {"gathering", "resolved"}
    BY DEF PolygonInit
  <2> QED
    BY <2>1 DEF StrideInv
<1>2. PolygonInv /\ PolygonInv' /\ StrideInv /\ [PolygonNext]_polygonVars => StrideInv'
  BY StrideInvNext
<1> QED
  BY <1>1, <1>2, PolygonInvHolds, PTL DEF PolygonSpec

\* What resolvePolygonCells() returns is exact: whatever the grid, the polygon, the
\* budget and the rule of membership, the selection has the cells that the
\* documentation promises, sampled by the stride, row by row, and no other; and the
\* stride is the smallest that fits the budget, lowered only where nothing is kept.
THEOREM SelectionIsExact == PolygonSpec => []SelectionExact
<1>1. ASSUME PolygonInv, StrideInv PROVE SelectionExact
  <2>1. PolygonTypeOK
    BY <1>1 DEF PolygonInv
  <2>2. ASSUME phase = "resolved" PROVE BoxLosesNone /\ RuleIsMeant /\ StrideIsMeant
    <3>1. /\ query \in Queries /\ IsRing(query.ring) /\ bbox = RightBox(query) /\ stride \in Nat \ {0}
          /\ HasCells(bbox) => cells = GatherCells(query, bbox, stride)
          /\ ~HasCells(bbox) => cells = <<>> /\ stride = 1
          /\ cells # <<>> \/ stride = 1
      BY <1>1, <2>1, <2>2 DEF PolygonInv, PolygonTypeOK, SelectionHolds
    <3>2. BoxLosesNone
      BY <3>1, GatherLosesNone
    <3>3. StrideIsMeant
      BY <1>1, <2>2, StrideFollows
    <3> QED
      BY <3>1, <3>2, <3>3, RuleFollows
  <2> QED
    BY <2>1, <2>2 DEF SelectionExact
<1> QED
  BY <1>1, PolygonInvHolds, StrideInvHolds, PTL

\* Every step of readPolygon() yields the values of the cells at its time, in their
\* order, and with a given selection none that pads an array that is too small.
THEOREM ValuesAreAligned == PolygonSpec => []ValuesAligned
<1>1. ASSUME PolygonInv PROVE ValuesAligned
  BY <1>1 DEF PolygonInv, ValuesAligned, Aligned, CellIndex
<1> QED
  BY <1>1, PolygonInvHolds, PTL
=============================================================================
