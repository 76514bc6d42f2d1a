---------------------------- MODULE PolygonRead ----------------------------
(***************************************************************************)
(* The polygon reader (src/src/spatial/polygon-reader.ts): which cells of a *)
(* grid a polygon selects, and the values of these cells, one time step    *)
(* after the other. Coordinates are even integers and vertices integers, so *)
(* that midpoints, crossings and orientations are exact. A point is         *)
(* <<lat, lon>>, a cell <<i, j>>, an axis a function on 0..n-1.             *)
(***************************************************************************)
EXTENDS Integers, FiniteSets, SequencesExt, FiniteSetsExt

CONSTANTS
  Queries,    \* the options: layout, ring, maxCells, and whether to cover
  Calls,      \* the arrays' shapes and ranges of times that are asked for
  Requests,   \* which query comes with which call
  Unlimited,  \* no budget
  FillValue   \* what arr.get() gives for an index outside of the array

\* The coordinates are numbers, and those of an axis monotonic ("Half-open
\* [start, end) index range on a monotonic axis").
Monotonic(axis) ==
  \/ \A i, j \in DOMAIN axis : i < j => axis[i] <= axis[j]
  \/ \A i, j \in DOMAIN axis : i < j => axis[i] >= axis[j]

IsAxis(axis, n) == axis \in [0..(n - 1) -> Int]

IsLayout(l) ==
  /\ l.rows \in Nat /\ l.cols \in Nat
  /\ CASE l.kind = "1d"      -> /\ IsAxis(l.lat, l.rows) /\ Monotonic(l.lat)
                                /\ IsAxis(l.lon, l.cols) /\ Monotonic(l.lon)
       [] l.kind = "2d"      -> LET C == (0..(l.rows - 1)) \X (0..(l.cols - 1)) IN
                                l.lat \in [C -> Int] /\ l.lon \in [C -> Int]
       [] l.kind = "npoints" -> IsAxis(l.lat, l.rows) /\ IsAxis(l.lon, l.rows) /\ l.cols = 1
       [] OTHER              -> FALSE

ASSUME QueriesAssumption ==
  \A q \in Queries :
    /\ IsLayout(q.layout) /\ q.ring \in Seq(Int \X Int) /\ q.cover \in BOOLEAN
    /\ q.maxCells \in Int \cup {Unlimited}
ASSUME CallsAssumption ==
  \A c \in Calls : c.shape \in Seq(Nat) /\ Len(c.shape) > 0 /\ c.range \in Int \X Int
ASSUME RequestsAssumption == Requests \subseteq Queries \X Calls /\ Unlimited \notin Int

------------------------------------------------------------------------------
(* Geometry *)

Previous(ring, n) == IF n = 1 THEN ring[Len(ring)] ELSE ring[n - 1]

\* Does the edge from b to a cross the ray from p towards larger longitudes?
Crosses(p, a, b) ==
  LET rise == b[1] - a[1]
      run  == (b[2] - a[2]) * (p[1] - a[1])
  IN
  /\ (a[1] > p[1]) # (b[1] > p[1])
  /\ IF rise > 0 THEN (p[2] - a[2]) * rise < run ELSE (p[2] - a[2]) * rise > run

PointInPolygon(p, ring) ==
  Cardinality({n \in DOMAIN ring : Crosses(p, ring[n], Previous(ring, n))}) % 2 = 1

Cross(o, p, q) == (p[1] - o[1]) * (q[2] - o[2]) - (p[2] - o[2]) * (q[1] - o[1])
Within(x, bounds) == bounds[1] <= x /\ x <= bounds[2]
Span(S) == <<Min(S), Max(S)>>
OnSegment(p, o, q) == \A axis \in {1, 2} : Within(p[axis], Span({o[axis], q[axis]}))

SegmentsIntersect(a1, a2, b1, b2) ==
  LET d1 == Cross(b1, b2, a1)
      d2 == Cross(b1, b2, a2)
      d3 == Cross(a1, a2, b1)
      d4 == Cross(a1, a2, b2)
  IN
  \/ (d1 > 0) # (d2 > 0) /\ (d3 > 0) # (d4 > 0)
  \/ d1 = 0 /\ OnSegment(a1, b1, b2)
  \/ d2 = 0 /\ OnSegment(a2, b1, b2)
  \/ d3 = 0 /\ OnSegment(b1, a1, a2)
  \/ d4 = 0 /\ OnSegment(b2, a1, a2)

\* A rectangle is <<bounds of lat, bounds of lon>>.
Corners(r) == <<<<r[1][1], r[2][1]>>, <<r[1][1], r[2][2]>>, <<r[1][2], r[2][2]>>, <<r[1][2], r[2][1]>>>>

PolygonOverlapsRect(ring, r) ==
  LET corners == Corners(r) IN
  \/ \E n \in 1..4 : PointInPolygon(corners[n], ring)
  \/ \E n \in DOMAIN ring : Within(ring[n][1], r[1]) /\ Within(ring[n][2], r[2])
  \/ \E n \in DOMAIN ring, e \in 1..4 :
       SegmentsIntersect(Previous(ring, n), ring[n], corners[e], corners[(e % 4) + 1])

PolygonEnvelope(ring) == <<Span({v[1] : v \in ToSet(ring)}), Span({v[2] : v \in ToSet(ring)})>>

------------------------------------------------------------------------------
(* One-dimensional axes *)

\* Binary search, from lo and before hi, for what is past the members of S: the
\* bounds after k rounds of the loop.
Bisect(lo, hi, S) ==
  LET bounds[k \in 0..(hi - lo)] ==
        IF k = 0 THEN <<lo, hi>>
        ELSE LET b   == bounds[k - 1]
                 mid == (b[1] + b[2]) \div 2
             IN IF b[1] >= b[2] THEN b
                ELSE IF mid \in S THEN <<mid + 1, b[2]>> ELSE <<b[1], mid>>
  IN bounds[hi - lo][1]

Size(axis) == Cardinality(DOMAIN axis)
Interval(start, end) == IF start >= end THEN <<0, 0>> ELSE <<start, end>>

\* The indices of a monotonic axis whose coordinates are within b.
AxisRange(axis, b) ==
  LET n      == Size(axis)
      I      == DOMAIN axis
      past   == Bisect(0, n, {m \in I : axis[m] < b[1]})
      upTo   == Bisect(0, n, {m \in I : axis[m] <= b[2]})
      after  == Bisect(0, n, {m \in I : axis[m] > b[2]})
      downTo == Bisect(0, n, {m \in I : axis[m] >= b[1]})
  IN
  IF n = 0 THEN <<0, 0>>
  ELSE IF axis[n - 1] >= axis[0] THEN Interval(past, upTo) ELSE Interval(after, downTo)

\* From the midpoint to one neighbour to that to the other; at an end the one step
\* there is mirrored.
AxisCellSpan(axis, i) ==
  LET n    == Size(axis)
      v    == axis[i]
      low  == IF i > 0 THEN (v + axis[i - 1]) \div 2
              ELSE IF n > 1 THEN v - (axis[1] - axis[0]) \div 2 ELSE v
      high == IF i < n - 1 THEN (v + axis[i + 1]) \div 2
              ELSE IF n > 1 THEN v + (axis[n - 1] - axis[n - 2]) \div 2 ELSE v
  IN Span({low, high})

Overlap(a, b) == a[2] >= b[1] /\ a[1] <= b[2]

AxisFootprintRange(axis, b) ==
  LET S == {i \in DOMAIN axis : Overlap(AxisCellSpan(axis, i), b)} IN
  IF S = {} THEN <<0, 0>> ELSE <<Min(S), Max(S) + 1>>

------------------------------------------------------------------------------
(* Layouts *)

OneD(lat, lon) == [kind |-> "1d", lat |-> lat, lon |-> lon, rows |-> Size(lat), cols |-> Size(lon)]
\* lat and lon are functions on the cells.
TwoD(lat, lon, rows, cols) == [kind |-> "2d", lat |-> lat, lon |-> lon, rows |-> rows, cols |-> cols]
NPoints(lat, lon) == [kind |-> "npoints", lat |-> lat, lon |-> lon, rows |-> Size(lat), cols |-> 1]

Grid(l) == (0..(l.rows - 1)) \X (0..(l.cols - 1))
Ndim(l) == IF l.kind = "npoints" THEN 2 ELSE 3

At(l, c) ==
  CASE l.kind = "1d"      -> <<l.lat[c[1]], l.lon[c[2]]>>
    [] l.kind = "2d"      -> <<l.lat[c], l.lon[c]>>
    [] l.kind = "npoints" -> <<l.lat[c[1]], l.lon[c[1]]>>

\* The points halfway to the neighbours in the grid, where one is missing mirrored
\* from the opposite one.
CellBounds2d(l, c) ==
  LET centre == At(l, c)
      next(d) == <<c[1] + d[1], c[2] + d[2]>>
      half(d, axis) == (At(l, next(d))[axis] - centre[axis]) \div 2
      inside == {d \in {<<-1, 0>>, <<1, 0>>, <<0, -1>>, <<0, 1>>} : next(d) \in Grid(l)}
      mirrored == {d \in inside : next(<<-d[1], -d[2]>>) \notin Grid(l)}
      bounds(axis) == Span({centre[axis]} \cup {centre[axis] + half(d, axis) : d \in inside}
                                          \cup {centre[axis] - half(d, axis) : d \in mirrored})
  IN <<bounds(1), bounds(2)>>

CellBounds(l, c) ==
  IF l.kind = "1d" THEN <<AxisCellSpan(l.lat, c[1]), AxisCellSpan(l.lon, c[2])>>
  ELSE CellBounds2d(l, c)

BoxOf(rows, cols) == [rMin |-> rows[1], rMax |-> rows[2], cMin |-> cols[1], cMax |-> cols[2]]

\* The box around some cells; it lies within the grid, so the clamps of the code
\* leave it as it is.
Around(S) ==
  IF S = {} THEN BoxOf(<<0, 0>>, <<0, 0>>)
  ELSE BoxOf(<<Min({c[1] : c \in S}), Max({c[1] : c \in S}) + 1>>,
           <<Min({c[2] : c \in S}), Max({c[2] : c \in S}) + 1>>)

\* Mutant: the points are taken for columns.
BBox_PointsAsColumns(l, ring) ==
  LET env == PolygonEnvelope(ring) IN
  IF l.kind = "npoints" THEN BoxOf(<<0, 1>>, <<0, l.rows>>)
  ELSE Around({c \in Grid(l) : Within(At(l, c)[1], env[1]) /\ Within(At(l, c)[2], env[2])})

BBox(l, ring) ==
  LET env == PolygonEnvelope(ring) IN
  CASE l.kind = "1d" -> BoxOf(AxisRange(l.lat, env[1]), AxisRange(l.lon, env[2]))
    [] l.kind = "2d" ->
         Around({c \in Grid(l) : Within(At(l, c)[1], env[1]) /\ Within(At(l, c)[2], env[2])})
    [] l.kind = "npoints" -> BoxOf(<<0, l.rows>>, <<0, 1>>)

CoverBBox(l, ring) ==
  LET env == PolygonEnvelope(ring) IN
  IF l.kind = "1d"
  THEN BoxOf(AxisFootprintRange(l.lat, env[1]), AxisFootprintRange(l.lon, env[2]))
  ELSE Around({c \in Grid(l) : LET b == CellBounds2d(l, c) IN
                               Overlap(b[1], env[1]) /\ Overlap(b[2], env[2])})

------------------------------------------------------------------------------
(* Selections *)

Covers(q) == q.cover /\ q.layout.kind # "npoints"

Kept(q, c) ==
  \/ PointInPolygon(At(q.layout, c), q.ring)
  \/ Covers(q) /\ PolygonOverlapsRect(q.ring, CellBounds(q.layout, c))

CeilDiv(a, b) == (a + b - 1) \div b

\* The smallest stride that keeps the samples of a box within the budget.
ComputeStride(rows, cols, maxCells) ==
  IF maxCells = Unlimited \/ rows * cols <= maxCells THEN 1
  ELSE LET longest == Max({rows, cols}) IN
       Bisect(1, longest, {s \in 1..longest : CeilDiv(rows, s) * CeilDiv(cols, s) > maxCells})

\* The cells that are kept among the samples of the box, row by row: those of the
\* first n samples.
GatherCells(q, b, s) ==
  LET rows == CeilDiv(b.rMax - b.rMin, s)
      cols == CeilDiv(b.cMax - b.cMin, s)
      sample(n) == <<b.rMin + ((n - 1) \div cols) * s, b.cMin + ((n - 1) % cols) * s>>
      kept[n \in 0..(rows * cols)] ==
        IF n = 0 THEN <<>>
        ELSE IF Kept(q, sample(n)) THEN Append(kept[n - 1], sample(n)) ELSE kept[n - 1]
  IN kept[rows * cols]

\* A call is an array's shape and a range of times.
ValidInput(q, call) ==
  /\ Cardinality(ToSet(q.ring)) >= 3
  /\ 0 <= call.range[1] /\ call.range[1] <= call.range[2] /\ call.range[2] <= call.shape[1]
  /\ q.maxCells # Unlimited => q.maxCells >= 1

\* Dimensions between time and the grid: all of length 1.
MiddleDims(l, shape) == Len(shape) - Ndim(l)
RankFits(l, shape) ==
  /\ MiddleDims(l, shape) >= 0
  /\ \A d \in 2..(1 + MiddleDims(l, shape)) : shape[d] = 1

Accepts(q, call) == ValidInput(q, call) /\ RankFits(q.layout, call.shape)

VARIABLES
  query,   \* the options of the caller
  phase,
  call,    \* the array and times of the call of resolvePolygonCells or readPolygon
  bbox, stride, cells,  \* the PolygonSelection
  given,   \* the call was given the selection (resolvedSelection)
  timeStep, \* the next time step
  values   \* what the last step yielded

selection == <<bbox, stride, cells>>
polygonVars == <<query, phase, call, bbox, stride, cells, given, timeStep, values>>

NoBox == BoxOf(<<0, 0>>, <<0, 0>>)

PolygonTypeOK ==
  /\ query \in Queries
  /\ phase \in {"idle", "gathering", "resolved", "streaming", "done", "rejected"}
  /\ call \in Calls
  /\ bbox \in [{"rMin", "rMax", "cMin", "cMax"} -> Nat]
  /\ bbox.rMax <= query.layout.rows /\ bbox.cMax <= query.layout.cols
  /\ stride \in Nat \ {0}
  /\ cells \in Seq(Grid(query.layout))
  /\ given \in BOOLEAN
  /\ timeStep \in Nat
  /\ values = <<>> \/ Len(values) = Len(cells)

PolygonInit ==
  /\ \E r \in Requests : query = r[1] /\ call = r[2]
  /\ phase = "idle"
  /\ bbox = NoBox
  /\ stride = 1
  /\ cells = <<>>
  /\ given = FALSE
  /\ timeStep = 0
  /\ values = <<>>

Rejects ==
  /\ phase = "idle"
  /\ ~Accepts(query, call)
  /\ phase' = "rejected"
  /\ UNCHANGED <<query, call, selection, given, timeStep, values>>

\* Mutant: the cells of a cover are sought in the box of the centres.
Resolves_CentreBox ==
  /\ phase = "idle"
  /\ Accepts(query, call)
  /\ bbox' = BBox(query.layout, query.ring)
  /\ LET rows == bbox'.rMax - bbox'.rMin
         cols == bbox'.cMax - bbox'.cMin
     IN IF rows <= 0 \/ cols <= 0
        THEN phase' = "resolved" /\ UNCHANGED <<stride, cells>>
        ELSE /\ stride' = ComputeStride(rows, cols, query.maxCells)
             /\ cells' = GatherCells(query, bbox', stride')
             /\ phase' = "gathering"
  /\ UNCHANGED <<query, call, given, timeStep, values>>

\* resolveSelection(), of resolvePolygonCells() or of readPolygon() itself.
Resolves ==
  /\ phase = "idle"
  /\ Accepts(query, call)
  /\ bbox' = IF Covers(query) THEN CoverBBox(query.layout, query.ring)
             ELSE BBox(query.layout, query.ring)
  /\ LET rows == bbox'.rMax - bbox'.rMin
         cols == bbox'.cMax - bbox'.cMin
     IN IF rows <= 0 \/ cols <= 0
        THEN phase' = "resolved" /\ UNCHANGED <<stride, cells>>
        ELSE /\ stride' = ComputeStride(rows, cols, query.maxCells)
             /\ cells' = GatherCells(query, bbox', stride')
             /\ phase' = "gathering"
  /\ UNCHANGED <<query, call, given, timeStep, values>>

\* While no cell is kept the stride goes down.
Clamps ==
  /\ phase = "gathering"
  /\ cells = <<>> /\ stride > 1
  /\ stride' = stride - 1
  /\ cells' = GatherCells(query, bbox, stride')
  /\ UNCHANGED <<query, phase, call, bbox, given, timeStep, values>>

Resolved ==
  /\ phase = "gathering"
  /\ cells # <<>> \/ stride = 1
  /\ phase' = "resolved"
  /\ UNCHANGED <<query, call, selection, given, timeStep, values>>

------------------------------------------------------------------------------
(* Reads *)

ArrayRows(l, shape) == IF Ndim(l) = 3 THEN shape[Len(shape) - 1] ELSE shape[Len(shape)]
ArrayCols(l, shape) == IF Ndim(l) = 3 THEN shape[Len(shape)] ELSE l.cols

\* Mutant: the box is compared with the grid of the layout.
SelectionInBounds_OfLayout(l, shape) == bbox.rMax <= l.rows /\ bbox.cMax <= l.cols

\* A selection that resolvePolygonCells returned satisfies the rest of
\* assertSelectionInBounds, whatever the array.
SelectionInBounds(l, shape) ==
  bbox.rMax <= ArrayRows(l, shape) /\ bbox.cMax <= ArrayCols(l, shape)

\* The ranges that arr.get() is asked for: index 0 in the middle dimensions.
SelectionAt(l, shape, step) ==
  LET middle == [d \in 1..MiddleDims(l, shape) |-> <<0, 1>>]
      grid == IF Ndim(l) = 3 THEN <<<<bbox.rMin, bbox.rMax>>, <<bbox.cMin, bbox.cMax>>>>
              ELSE <<<<bbox.rMin, bbox.rMax>>>>
  IN <<<<step, step + 1>>>> \o middle \o grid

\* arr.get(): the elements of the ranges in C order, where an index of a dimension
\* stands for `volume` elements. An element is its index.
Block(shape, ranges) ==
  LET size      == [d \in DOMAIN ranges |-> ranges[d][2] - ranges[d][1]]
      volume(d) == FoldFunctionOnSet(LAMBDA x, y : x * y, 1, size, (d + 1)..Len(ranges))
      index(o)  == [d \in DOMAIN ranges |-> ranges[d][1] + ((o \div volume(d)) % size[d])]
  IN [o \in 0..(volume(0) - 1) |->
        IF \A d \in DOMAIN shape : index(o)[d] < shape[d] THEN index(o) ELSE FillValue]

ValueAt(block, c) == block[(c[1] - bbox.rMin) * (bbox.cMax - bbox.cMin) + c[2] - bbox.cMin]

Streams(c) ==
  /\ phase' = IF cells = <<>> THEN "done" ELSE "streaming"
  /\ timeStep' = c.range[1]
  /\ call' = c
  /\ UNCHANGED <<query, selection, values>>

\* readPolygon() goes on with the selection it has resolved.
ReadsOwn == phase = "resolved" /\ given' = FALSE /\ Streams(call)

\* readPolygon() of any array with the selection resolved before.
ReadsGiven ==
  /\ phase = "resolved"
  /\ given' = TRUE
  /\ \E c \in Calls :
       IF Accepts(query, c) /\ SelectionInBounds(query.layout, c.shape)
       THEN Streams(c)
       ELSE phase' = "rejected" /\ call' = c /\ UNCHANGED <<query, selection, timeStep, values>>

\* One time step is read and yielded.
Yields ==
  /\ phase = "streaming"
  /\ timeStep < call.range[2]
  /\ LET block == Block(call.shape, SelectionAt(query.layout, call.shape, timeStep))
     IN values' = [k \in DOMAIN cells |-> ValueAt(block, cells[k])]
  /\ timeStep' = timeStep + 1
  /\ UNCHANGED <<query, phase, call, selection, given>>

Ends ==
  /\ phase = "streaming"
  /\ timeStep = call.range[2]
  /\ phase' = "done"
  /\ UNCHANGED <<query, call, selection, given, timeStep, values>>

PolygonNext ==
  \/ Rejects \/ Resolves \/ Clamps \/ Resolved
  \/ ReadsOwn \/ ReadsGiven \/ Yields \/ Ends

PolygonSpec == PolygonInit /\ [][PolygonNext]_polygonVars

------------------------------------------------------------------------------
(* Properties *)

RowMajor(c, d) == c[1] < d[1] \/ (c[1] = d[1] /\ c[2] < d[2])
SampledBy(s, c) == (c[1] - bbox.rMin) % s = 0 /\ (c[2] - bbox.cMin) % s = 0
Sampled(c) == SampledBy(stride, c)
Fits(s) ==
  query.maxCells = Unlimited \/
  CeilDiv(bbox.rMax - bbox.rMin, s) * CeilDiv(bbox.cMax - bbox.cMin, s) <= query.maxCells

\* Inside by a ray in the other direction, for points that are not on the ring.
OnRing(p, ring) ==
  \E n \in DOMAIN ring : LET q == Previous(ring, n) IN
    Cross(q, ring[n], p) = 0 /\ OnSegment(p, q, ring[n])
Inside(p, ring) ==
  LET flip(v) == <<v[2], v[1]>> IN
  ~OnRing(p, ring) /\ PointInPolygon(flip(p), [n \in DOMAIN ring |-> flip(ring[n])])
Footprint(c) ==
  LET b == CellBounds(query.layout, c) IN (b[1][1]..b[1][2]) \X (b[2][1]..b[2][2])

\* No box loses a cell: a selection has, in the order of rows, exactly the cells of
\* the whole grid that the rule of membership keeps and the stride samples, and at
\* least one if the rule keeps any ("a non-empty polygon never yields zero cells").
BoxLosesNone ==
  LET kept == {c \in Grid(query.layout) : Kept(query, c)} IN
  /\ ToSet(cells) = {c \in kept : Sampled(c)}
  /\ \A m, n \in DOMAIN cells : m < n => RowMajor(cells[m], cells[n])
  /\ kept # {} => cells # <<>>

\* The rule is that of the documentation: by the centre, the cells whose centres
\* lie inside, with a cover also the cells that share a point with the inside.
RuleIsMeant ==
  \A c \in {c \in Grid(query.layout) : Sampled(c)} :
    LET centre == At(query.layout, c) IN
    /\ Inside(centre, query.ring) => c \in ToSet(cells)
    /\ ~Covers(query) /\ c \in ToSet(cells) =>
         Inside(centre, query.ring) \/ OnRing(centre, query.ring)
    /\ Covers(query) /\ (\E p \in Footprint(c) : Inside(p, query.ring)) => c \in ToSet(cells)

\* The stride is the one the budget asks for ("Smallest integer stride s >= 1 with
\* ceil(rows/s) * ceil(cols/s) <= maxCells", "clamp the stride down until at least one
\* cell survives"): no smaller one fits, and on the way down from the smallest that
\* fits it passed only strides that sample no cell that is kept. If it fits itself the
\* cells are within the budget.
StrideIsMeant ==
  /\ \A s \in 1..(stride - 1) : ~Fits(s)
  /\ \A s \in (stride + 1)..(query.layout.rows + query.layout.cols) :
       ~Fits(s - 1) => ~\E c \in Grid(query.layout) : Kept(query, c) /\ SampledBy(s, c)
  /\ Fits(stride) /\ query.maxCells # Unlimited => Len(cells) <= query.maxCells

\* resolvePolygonCells() returns the cells inside or covered, and only these, in a
\* box within the grid, by the stride that the budget asks for.
SelectionExact ==
  PolygonTypeOK /\ (phase = "resolved" => BoxLosesNone /\ RuleIsMeant /\ StrideIsMeant)

\* The values of a step are those of the cells at the time of the step, in their
\* order; and with a selection that is given never what pads an array that is too
\* small ("throws SliceError on a shape mismatch rather than slicing out of range
\* into silent fill/NaN").
ValuesAligned ==
  phase \in {"streaming", "done"} /\ values # <<>> =>
    \A k \in DOMAIN cells :
      LET l == query.layout
          middle == [d \in 1..MiddleDims(l, call.shape) |-> 0]
          index == <<timeStep - 1>> \o middle \o SubSeq(cells[k], 1, Ndim(l) - 1)
      IN values[k] = index \/ (values[k] = FillValue /\ ~given)

\* SC-005: "the returned cell count is <= the budget".
BudgetKept ==
  phase = "resolved" /\ query.maxCells # Unlimited => Len(cells) <= query.maxCells
==============================================================================
