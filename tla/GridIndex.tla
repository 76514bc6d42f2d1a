----------------------------- MODULE GridIndex -----------------------------
(***************************************************************************)
(* GridIndex (src/src/spatial/grid-index.ts): the lat/lon grid of a group, *)
(* opened like any array (module Opening), read from the store or from a   *)
(* cache that other datasets and pods share, and searched for the cell     *)
(* nearest to a point.                                                     *)
(*                                                                         *)
(* Of the coordinates only the distance of each cell to the point is kept: *)
(* a grid is its shape and the vector of distances, in row-major order.    *)
(***************************************************************************)
EXTENDS Opening, FiniteSets

CONSTANTS
  Lat, Lon,   \* the names of the coordinate arrays
  Datasets,   \* datasets that share the cache, see IsDataset
  NoDataset,
  NoEntry, Unreadable,   \* of the cache: no entry, one that is empty or does not parse
  NaN,
  Infinity    \* bound: above every distance

\* A dataset has domain attributes (source_model, experiment, grid_id, each a
\* sequence of symbols, empty when it is missing), its two arrays' shapes, what
\* else of them goes into the key (layout: chunks and dtypes), the coordinates of
\* one corner, whether they are 64-bit integers, and its distances.
\* It is loaded with a gridKey or without (<<>>), with verifyGrid or not.
IsDataset(d) ==
  /\ d.attrs \in Seq(Seq(STRING)) /\ Len(d.attrs) = 3
  /\ d.gridKey \in Seq(STRING)
  /\ d.verify \in BOOLEAN /\ d.bigint \in BOOLEAN
  /\ d.corner # <<>>
  /\ d.lat \in Seq(Nat) /\ d.lon \in Seq(Nat)
  /\ Len(d.lat) = 2 => /\ d.distances \in Seq(Nat \cup {NaN})
                       /\ Len(d.distances) = d.lat[1] * d.lat[2]
                       /\ \A k \in DOMAIN d.distances : d.distances[k] \in Nat => d.distances[k] < Infinity

ASSUME DatasetsAssumption == \A d \in Datasets : IsDataset(d)
ASSUME CoordinatesAssumption == Lat \in Names /\ Lon \in Names
ASSUME NumbersAssumption == Infinity \in Nat /\ NaN \notin Nat

Symbols == {"a", "b", "-"}   \* stands for what sanitize() keeps, [A-Za-z0-9._-]

VARIABLES
  gstep,      \* where fromGroup() or loadCached() is suspended, or nearest() is
  load,       \* the call: fromGroup(), or loadCached() with a cache or without
  dataset,    \* whose arrays the group has
  entry,      \* the entry of the cache under the dataset's key
  grid,       \* the GridIndex
  cell,       \* nearest(): how many cells it has looked at
  best, bestCell,
  gridFault   \* a read of coordinates has failed (history)

gridVars == <<gstep, load, dataset, entry, grid, cell, best, bestCell, gridFault>>
allVars == <<vars, gridVars>>

Loads == {"fromGroup", "uncached", "cached"}

NoGrid == [ny |-> 0, nx |-> 0, distances |-> <<>>, owner |-> NoDataset]

\* owner: whose coordinates these are (history).
GridOf(d) == [ny |-> d.lat[1], nx |-> d.lat[2], distances |-> d.distances, owner |-> d]

\* assertGridShape() and numericCoords() accept the arrays.
Griddable(d) == Len(d.lat) = 2 /\ d.lon = d.lat

------------------------------------------------------------------------------
(* deriveGridKey() *)

Join(a, b) == IF a = <<>> \/ b = <<>> THEN a \o b ELSE a \o <<"-">> \o b

\* The attributes that are there, joined with "-".
Domain(d) == Join(Join(d.attrs[1], d.attrs[2]), d.attrs[3])

Sanitized(s) == SelectSeq(s, LAMBDA c : c \in Symbols)

\* safeKeyComponent(): the hash of a key of which nothing is left is as good as the key.
SafeKey(s) == IF Sanitized(s) = <<>> THEN s ELSE Sanitized(s)

\* Mutant: the shapes are not part of the key.
GridKey_NoShape(d) ==
  IF d.gridKey # <<>> THEN <<SafeKey(d.gridKey)>>
  ELSE <<Domain(d), d.layout, IF d.verify THEN d.corner ELSE <<>>>>

\* The hash in a derived key is taken to tell apart what is hashed.
GridKey(d) ==
  IF d.gridKey # <<>> THEN <<SafeKey(d.gridKey)>>
  ELSE <<Domain(d), d.lat, d.lon, d.layout, IF d.verify THEN d.corner ELSE <<>>>>

------------------------------------------------------------------------------
(* fromGroup() and loadCached() *)

GridInit ==
  /\ gstep = "none" /\ load = "none" /\ dataset = NoDataset
  /\ entry = NoEntry /\ grid = NoGrid
  /\ cell = 0 /\ best = Infinity /\ bestCell = 0
  /\ gridFault = FALSE

\* The group at hand holds the dataset. Its entry is empty, or something else has been
\* written there.
GridCalled(d, how, found) ==
  /\ gstep = "none" /\ group # NoGroup
  /\ ChildCalled("getArray", Lat)
  /\ gstep' = "lat" /\ dataset' = d /\ load' = how /\ entry' = found
  /\ UNCHANGED <<grid, cell, best, bestCell, gridFault>>

\* The steps of getArray()
OpensArray == gstep \in {"lat", "lon"} /\ OpeningStep /\ UNCHANGED gridVars

Goes(from, to) ==
  /\ gstep = from /\ pc = "idle"
  /\ gstep' = to
  /\ UNCHANGED <<vars, load, dataset>>

LatOpened ==
  /\ gstep = "lat" /\ answer = "array"
  /\ ChildCalled("getArray", Lon)
  /\ gstep' = "lon"
  /\ UNCHANGED <<load, dataset, entry, grid, cell, best, bestCell, gridFault>>

\* Where the grid is looked for first.
Source == IF load = "cached" THEN "lookup" ELSE "read"

\* getArray() throws, or the shapes do not make a grid.
GridRefused ==
  /\ \/ gstep = "lat" /\ answer # "array" /\ Goes("lat", "failed")
     \/ gstep = "lon" /\ (answer = "array" => ~Griddable(dataset)) /\ Goes("lon", "failed")
  /\ UNCHANGED <<entry, grid, cell, best, bestCell, gridFault>>

LonOpened ==
  /\ gstep = "lon" /\ answer = "array" /\ Griddable(dataset)
  /\ Goes("lon", IF load # "fromGroup" /\ dataset.gridKey = <<>> /\ dataset.verify THEN "corner"
                 ELSE Source)
  /\ UNCHANGED <<entry, grid, cell, best, bestCell, gridFault>>

\* The corner of both arrays is read for the key, also when there is no cache; a
\* fault is one of the load.
ReadsCorner ==
  /\ \/ Goes("corner", Source) /\ UNCHANGED gridFault
     \/ Goes("corner", "failed") /\ gridFault' = TRUE
  /\ UNCHANGED <<entry, grid, cell, best, bestCell>>

\* fromBytes() of what the cache has. Its shape is its own: it is not compared
\* with the arrays'.
LookupHits ==
  /\ entry \notin {NoEntry, Unreadable}
  /\ Goes("lookup", "loaded")
  /\ grid' = entry
  /\ UNCHANGED <<entry, cell, best, bestCell, gridFault>>

\* There is nothing, nothing that parses, or cache.get() rejects.
LookupMisses ==
  /\ Goes("lookup", "read")
  /\ UNCHANGED <<entry, grid, cell, best, bestCell, gridFault>>

\* Both arrays are read; integers of 64 bits are rejected.
ReadsGrid ==
  /\ gstep = "read" /\ ~dataset.bigint
  /\ Goes("read", IF load = "cached" THEN "write" ELSE "loaded")
  /\ grid' = GridOf(dataset)
  /\ UNCHANGED <<entry, cell, best, bestCell, gridFault>>

ReadFails ==
  /\ gstep = "read" /\ Goes("read", "failed")
  /\ gridFault' \in {TRUE, ~dataset.bigint}
  /\ UNCHANGED <<entry, grid, cell, best, bestCell>>

\* Mutant: a failing cache fails the load.
Writes_Throws ==
  /\ \/ Goes("write", "loaded") /\ entry' = grid
     \/ Goes("write", "failed") /\ UNCHANGED entry
  /\ UNCHANGED <<grid, cell, best, bestCell, gridFault>>

\* cache.set() of toBytes(); when it rejects nobody learns whether it was written.
Writes ==
  /\ Goes("write", "loaded")
  /\ entry' \in {entry, grid}
  /\ UNCHANGED <<grid, cell, best, bestCell, gridFault>>

\* Another load, of this pod or of another, stores its dataset's grid under its own key,
\* which shows here if it is the same key; or the entry expires.
OtherPod ==
  /\ gstep \in {"lat", "lon", "corner", "lookup", "read", "write"}
  /\ \/ \E d \in Datasets : /\ Griddable(d) /\ ~d.bigint
                            /\ GridKey(d) = GridKey(dataset)
                            /\ entry' = GridOf(d)
     \/ entry' = NoEntry
  /\ UNCHANGED <<vars, gstep, load, dataset, grid, cell, best, bestCell, gridFault>>

------------------------------------------------------------------------------
(* nearest() *)

NearestCalled ==
  /\ Goes("loaded", "scan") \/ Goes("found", "scan")
  /\ cell' = 0 /\ best' = Infinity /\ bestCell' = 0
  /\ UNCHANGED <<entry, grid, gridFault>>

\* Mutant: of equally near cells the last one wins.
Nearer_OrEqual(d) == d # NaN /\ d <= best

\* d < best, which is false of NaN.
Nearer(d) == d # NaN /\ d < best

\* The loop over rows and, within, columns: cell i * nx + j.
LooksAtCell ==
  /\ gstep = "scan" /\ cell < grid.ny * grid.nx
  /\ UNCHANGED <<vars, gstep, load, dataset>>
  /\ cell' = cell + 1
  /\ LET d == grid.distances[cell + 1]
     IN IF Nearer(d) THEN best' = d /\ bestCell' = cell ELSE UNCHANGED <<best, bestCell>>
  /\ UNCHANGED <<entry, grid, gridFault>>

Nearest ==
  /\ gstep = "scan" /\ cell = grid.ny * grid.nx
  /\ Goes("scan", "found")
  /\ UNCHANGED <<entry, grid, cell, best, bestCell, gridFault>>

GridStep ==
  \/ OpensArray \/ LatOpened \/ GridRefused \/ LonOpened \/ ReadsCorner
  \/ LookupHits \/ LookupMisses \/ ReadsGrid \/ ReadFails \/ Writes
  \/ OtherPod \/ NearestCalled \/ LooksAtCell \/ Nearest

GridTypeOK ==
  /\ TypeOK
  /\ gstep \in {"none", "lat", "lon", "corner", "lookup", "read", "write", "loaded", "failed",
                "scan", "found"}
  /\ load \in {"none"} \cup Loads /\ gridFault \in BOOLEAN
  /\ dataset \in Datasets \cup {NoDataset}
  /\ entry \in {NoEntry, Unreadable} \cup {GridOf(e) : e \in {d \in Datasets : Griddable(d)}}
  /\ grid \in {NoGrid} \cup {GridOf(e) : e \in {d \in Datasets : Griddable(d)}}
  /\ cell \in 0..(grid.ny * grid.nx) /\ bestCell \in 0..cell
  /\ best \in 0..Infinity

GroupInit == Init /\ GridInit

GroupNext ==
  \/ gstep = "none" /\ Next /\ UNCHANGED gridVars
  \/ \E d \in Datasets, how \in Loads :
       \E found \in {NoEntry, Unreadable} : GridCalled(d, how, found)
  \/ GridStep

GroupSpec == GroupInit /\ [][GroupNext]_allVars

------------------------------------------------------------------------------
(* Properties *)

HasGrid == gstep \in {"write", "loaded", "scan", "found"}

\* The key of the dataset can be read in one way only: sanitize() drops nothing of its
\* gridKey, or each of the domain attributes is there and has no "-".
Unambiguous(d) ==
  IF d.gridKey # <<>> THEN Sanitized(d.gridKey) = d.gridKey
  ELSE \A i \in 1..3 : d.attrs[i] # <<>> /\ \A k \in DOMAIN d.attrs[i] : d.attrs[i][k] # "-"

\* Whatever other loads have left in the shared cache, whose entries nobody compares
\* with the arrays: a load without the cache has the dataset's own grid; a derived key
\* never leads to a grid of another shape than the arrays' nor, with verifyGrid, to one
\* with another corner; and where no key is ambiguous the grid is that of a dataset
\* given the same gridKey or, without any, of the same domain.
GridIsOwn ==
  HasGrid =>
    LET d == grid.owner IN
      /\ load # "cached" => d = dataset
      /\ dataset.gridKey = <<>> => /\ <<grid.ny, grid.nx>> = dataset.lat
                                   /\ dataset.verify => d.corner = dataset.corner
      /\ Unambiguous(d) /\ Unambiguous(dataset) =>
           /\ d.gridKey = dataset.gridKey
           /\ dataset.gridKey = <<>> => d.attrs = dataset.attrs

\* A grid that is loaded under a gridKey belongs to a dataset that was given this very
\* gridKey: safeKeyComponent() promises that "distinct overrides never collapse".
OverridesKeepApart ==
  HasGrid /\ dataset.gridKey # <<>> => grid.owner.gridKey = dataset.gridKey

\* A call fails only for a cause of its own, and a load of the grid with a request,
\* a document or arrays that make no grid, never on account of the cache.
FailuresHaveCause ==
  /\ FailsForCause
  /\ gstep = "failed" =>
       \/ gridFault
       \/ answer \in {"absent", "failed"}
       \/ ~Griddable(dataset) \/ dataset.bigint

\* nearest() finds the first cell, in row-major order, of those at the least
\* distance: cells without coordinates are never found, unless there are no others
\* (then it is the first one, infinitely far).
NearestExact ==
  gstep = "found" =>
    LET known == {k \in 1..(grid.ny * grid.nx) : grid.distances[k] # NaN}
    IN IF known = {} THEN bestCell = 0 /\ best = Infinity
       ELSE /\ bestCell + 1 \in known
            /\ best = grid.distances[bestCell + 1]
            /\ \A k \in known : best < grid.distances[k] \/ (best = grid.distances[k] /\ bestCell < k)
=============================================================================
