---------------------------- MODULE MCPolygonRead ----------------------------
(* PolygonRead on grids of up to 3 by 3 cells. *)
EXTENDS PolygonRead, TLC

Axis(s) == [i \in 0..(Len(s) - 1) |-> s[i + 1]]

Rectilinear == OneD(Axis(<<0, 2, 6>>), Axis(<<0, 4, 6>>))
Descending  == OneD(Axis(<<6, 2, 0>>), Axis(<<0, 4, 6>>))
OneRow      == OneD(Axis(<<2>>), Axis(<<0, 2, 4>>))
Rotated     == LET C == (0..2) \X (0..2) IN
               TwoD([c \in C |-> 2 * c[1] + 2 * c[2] - 2], [c \in C |-> 2 * c[2] - 2 * c[1] + 4], 3, 3)
Points      == NPoints(Axis(<<2, 0, 4>>), Axis(<<2, 2, 0>>))

Grids == {Rectilinear, Descending, OneRow, Rotated}

Vertices == {-1, 1, 3, 4} \X {0, 2, 5}
Precedes(v, w) == v[1] < w[1] \/ (v[1] = w[1] /\ v[2] < w[2])
Triangles == {r \in {<<u, v, w>> : u, v, w \in Vertices} : Precedes(r[1], r[2]) /\ Precedes(r[2], r[3])}

\* A notch, a thin band, a crossing of itself, a closed ring, too few vertices.
Others == {<<<<-1, -1>>, <<7, -1>>, <<1, 3>>, <<7, 7>>, <<-1, 7>>>>,
           <<<<1, -1>>, <<1, 7>>, <<0, 7>>>>,
           <<<<0, 0>>, <<6, 6>>, <<0, 6>>, <<6, 0>>>>,
           <<<<0, 0>>, <<6, 0>>, <<0, 6>>, <<0, 0>>>>,
           <<<<0, 0>>, <<6, 6>>, <<0, 0>>>>}

Query(layouts, rings, budgets) ==
  [layout : layouts, ring : rings, maxCells : budgets, cover : BOOLEAN]

Call(shape, range) == [shape |-> shape, range |-> range]
MCCalls ==
  {Call(<<2, 3, 3>>, <<0, 2>>), Call(<<2, 1, 3, 3>>, <<1, 2>>), Call(<<2, 2, 3, 3>>, <<0, 2>>),
   Call(<<2, 2, 3>>, <<0, 1>>), Call(<<2, 3>>, <<0, 2>>), Call(<<2, 1, 3>>, <<1, 3>>),
   Call(<<2, 1, 3>>, <<1, 2>>)}

\* The geometry with calls that read one step, and few rings with all calls.
MCRequests ==
  (Query(Grids, Triangles, {Unlimited, 4}) \X {Call(<<2, 1, 3, 3>>, <<1, 2>>)})
  \cup (Query({Points}, Triangles, {Unlimited}) \X {Call(<<2, 1, 3>>, <<1, 2>>)})
  \cup (Query(Grids \cup {Points}, Others, {Unlimited, 0, 1, 3}) \X MCCalls)
MCQueries == {r[1] : r \in MCRequests}
==============================================================================
