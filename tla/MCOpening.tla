----------------------------- MODULE MCOpening -----------------------------
(* Opening and GridIndex on a small tree, without .zmetadata and with one that *)
(* is complete or lacks a document, and datasets whose keys differ in a part. *)
EXTENDS GridIndex

Docs(p, leaves) == {Key(p, leaf) : leaf \in leaves}

\* A root group with arrays lat and lon and a group g, which has an array lat and
\* a plain file in the place of lon.
MCTree ==
  Docs(<<>>, {".zgroup", ".zattrs"})
  \cup Docs(<<"lat">>, {".zarray", ".zattrs"}) \cup Docs(<<"lon">>, {".zarray"})
  \cup Docs(<<"g">>, {".zgroup"}) \cup Docs(<<"g", "lat">>, {".zarray"})

Plain == {Key(<<"g">>, "lon")}

\* The same without .zgroup of g.
MCTrees == {MCTree, MCTree \ {Key(<<"g">>, ".zgroup")}}

MCCorrupt ==
  {{}, {Zmetadata}, {Key(<<"lat">>, ".zarray")}, {Key(<<"lat">>, ".zattrs")}, {Key(<<"g">>, ".zgroup")}}

MCDangling == {{}, {Key(<<"lat">>, ".zarray")}}

\* .zmetadata lists all of the tree, or lacks one document.
MCWorlds ==
  {w \in [store : {"fs", "http", "s3", "reference"},
          tree : {t \cup Plain \cup z : t \in MCTrees, z \in {{}, {Zmetadata}}},
          entries : {{}} \cup {t \ lack : t \in MCTrees, lack \in {{k} : k \in MCTree}},
          corrupt : MCCorrupt, dangling : MCDangling,
          context : BOOLEAN, storeId : BOOLEAN] :
     /\ w.corrupt \subseteq w.tree /\ IsWorld(w)
     /\ IF Zmetadata \in w.tree THEN \E lack \in {{}} \cup {{k} : k \in MCTree} : w.entries = (w.tree \cap MCTree) \ lack
        ELSE w.entries = {}
     /\ w.corrupt = {} \/ (w.dangling = {} /\ w.entries \in {{}} \cup MCTrees)
     /\ w.storeId => w.context /\ w.store \in {"fs", "reference"}}

MCOpenPaths == {<<>>, <<"lat">>, <<"g">>, <<"g", "lon">>}

MCDataset ==
  [attrs |-> <<<<"a">>, <<>>, <<"b">>>>, gridKey |-> <<>>, verify |-> FALSE, bigint |-> FALSE,
   lat |-> <<2, 2>>, lon |-> <<2, 2>>, layout |-> "chunked", corner |-> <<1>>, distances |-> <<3, 1, NaN, 1>>]

MCVerified == [MCDataset EXCEPT !.attrs = <<<<"a">>, <<"b">>, <<"a", "b">>>>, !.verify = TRUE]

\* Datasets that differ from them in a domain, which reads the same when it is joined,
\* the shape, the corner or the gridKey; and some that make no grid.
MCDatasets ==
  {MCDataset,
   [MCDataset EXCEPT !.attrs = <<<<"a">>, <<"b">>, <<>>>>, !.distances = <<2, 2, 2, 2>>],
   [MCDataset EXCEPT !.lat = <<1, 3>>, !.lon = <<1, 3>>, !.distances = <<NaN, NaN, NaN>>],
   MCVerified,
   [MCVerified EXCEPT !.corner = <<2>>, !.distances = <<NaN, 0, 4, 0>>],
   [MCVerified EXCEPT !.attrs = <<<<"a">>, <<"b", "a">>, <<"b">>>>],
   [MCDataset EXCEPT !.gridKey = <<"a", " ">>],
   [MCDataset EXCEPT !.gridKey = <<"a">>, !.lat = <<1, 2>>, !.lon = <<1, 2>>, !.distances = <<4, 2>>],
   [MCDataset EXCEPT !.lon = <<2, 1>>],
   [MCDataset EXCEPT !.bigint = TRUE]}
=============================================================================
