---------------------------- MODULE MCArrayRead ----------------------------
(* ArrayRead on every small array of one dimension and on some of two and *)
(* three; chunk shapes that divide the array's and chunk shapes that do not. *)
EXTENDS ArrayRead

CONSTANTS MaxShape, MaxChunk   \* bounds in one dimension

Vectors(n, S) == [1..n -> S]

\* Selections of one dimension of length len.
MCSelections(len) ==
  {<<>>} \cup {<<i>> : i \in 0..(len - 1)}
         \cup {<<a, b>> \in (0..len) \X (0..len) : a <= b}

\* Every read of arrays with these shapes and chunks and the given selections.
ReadsOf(shapes, chunkShapes, Sel(_)) ==
  LET n == Len(CHOOSE s \in shapes : TRUE)
      slices == UNION {{[shape |-> s, chunks |-> c, order |-> o, full |-> FALSE,
                         ranged |-> r, sel |-> x] :
                          c \in chunkShapes, o \in {"C", "F"}, r \in BOOLEAN,
                          x \in {y \in [1..n -> UNION {Sel(s[d]) : d \in 1..n}] :
                                   \A d \in 1..n : y[d] \in Sel(s[d])}} : s \in shapes}
      full == {[shape |-> s, chunks |-> c, order |-> o, full |-> TRUE, ranged |-> FALSE,
                sel |-> [d \in 1..n |-> <<>>]] :
                  s \in shapes, c \in chunkShapes, o \in {"C", "F"}}
  IN slices \cup full

MCReads ==
  ReadsOf({<<>>}, {<<>>}, MCSelections)
  \cup ReadsOf(Vectors(1, 0..MaxShape), Vectors(1, 1..MaxChunk), MCSelections)
  \cup ReadsOf({<<3, 3>>, <<2, 4>>}, {<<2, 2>>, <<1, 3>>, <<3, 1>>},
               LAMBDA len : {<<>>, <<len - 1>>, <<0, len - 1>>, <<1, len>>})
  \cup ReadsOf({<<2, 3, 3>>}, {<<1, 2, 3>>, <<2, 2, 3>>}, LAMBDA len : {<<>>, <<1>>, <<1, len>>})
==============================================================================
