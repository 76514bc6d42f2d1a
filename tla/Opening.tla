------------------------------ MODULE Opening ------------------------------
(***************************************************************************)
(* Opening groups and arrays (src/src/open.ts, src/src/group.ts) over the  *)
(* four kinds of store, with or without consolidated metadata and a shared *)
(* metadata cache.                                                         *)
(*                                                                         *)
(* A call is a sequence of requests, each of which may fail. Calls share   *)
(* nothing that changes but the metadata cache, which answers what the     *)
(* store would (module Storage), so one call at a time shows all of them.  *)
(***************************************************************************)
EXTENDS Naturals, Sequences

CONSTANTS
  Names,      \* names of children, and of other files
  Worlds,     \* the stores checked, see IsWorld
  OpenPaths,  \* the paths that open(), openGroup() and openArray() are called with
  NoGroup

Paths == Seq(Names)

Documents == {".zarray", ".zgroup", ".zattrs"}

Key(p, leaf) == [path |-> p, leaf |-> leaf]

Metadata == [path : Paths, leaf : Documents]

\* A key is a document of a node, .zmetadata, or another file.
Keys == [path : Paths, leaf : Documents \cup {".zmetadata"} \cup Names]

Zmetadata == Key(<<>>, ".zmetadata")

\* Path q is p or below it.
Under(p, q) == Len(p) <= Len(q) /\ SubSeq(q, 1, Len(p)) = p

\* A world has the kind of the store, its keys (tree), those .zmetadata lists
\* (entries), those that do not parse or name an unknown codec (corrupt), those a
\* reference store lists although their target is gone (dangling), and whether
\* metadata is read through a shared cache (context), with a storeId or without. In a
\* file system nothing is below a plain file.
IsWorld(w) ==
  /\ w.store \in {"fs", "http", "s3", "reference"}
  /\ w.tree \subseteq Keys
  /\ w.entries \subseteq w.tree \cap Metadata
  /\ w.corrupt \subseteq w.tree
  /\ w.dangling \subseteq IF w.store = "reference" THEN w.tree \ w.entries ELSE {}
  /\ w.context \in BOOLEAN /\ w.storeId \in BOOLEAN
  /\ w.store = "fs" =>
       \A f \in w.tree, k \in w.tree : f.leaf \in Names => ~Under(Append(f.path, f.leaf), k.path)

ASSUME WorldsAssumption == \A w \in Worlds : IsWorld(w)
ASSUME PathsAssumption == OpenPaths \subseteq Paths
ASSUME NamesAssumption == Names \cap (Documents \cup {".zmetadata"}) = {}

Opens    == {"open", "openGroup", "openArray"}
Yields   == {"arrays", "groups"}
GroupOps == {"getArray", "getGroup", "contains", "readMultiple"} \cup Yields

VARIABLES
  world,
  group,         \* the ZarrGroup at hand: its path, and whether it has consolidated metadata
  op,            \* the call, or the last one
  pc,            \* where it is suspended
  at,            \* the path it opens or looks at
  consolidated,  \* it looks into consolidated metadata
  todo,          \* children that arrays(), groups() or readMultiple() have not come to
  asked,         \* the names of readMultiple()
  opened,        \* children it has opened
  node,          \* what was found at the path
  attrs,         \* the attributes of what was opened
  answer,        \* what the call came to
  faulted        \* a request of the call has failed (history)

vars == <<world, group, op, pc, at, consolidated, todo, asked, opened, node, attrs, answer, faulted>>

Groups == [path : Paths, consolidated : BOOLEAN]

TypeOK ==
  /\ world \in Worlds
  /\ group \in Groups \cup {NoGroup}
  /\ op \in Opens \cup GroupOps \cup {"none"}
  /\ pc \in {"idle", "zarray", "zgroup", "zmetadata", "zattrs", "children", "next", "has", "hasGroup"}
  /\ at \in Paths
  /\ consolidated \in BOOLEAN
  /\ todo \subseteq Names /\ asked \subseteq Names /\ opened \subseteq Names
  /\ node \in {"none", "array", "group"}
  /\ attrs \in {"own", "empty"}
  /\ answer \in {"none", "array", "group", "true", "false", "listed", "absent", "failed", "refused"}
  /\ faulted \in BOOLEAN

Init ==
  /\ world \in Worlds
  /\ group = NoGroup
  /\ op = "none" /\ pc = "idle" /\ at = <<>>
  /\ consolidated = FALSE
  /\ todo = {} /\ asked = {} /\ opened = {}
  /\ node = "none" /\ attrs = "empty" /\ answer = "none"
  /\ faulted = FALSE

------------------------------------------------------------------------------
(* Stores. A request has an answer, or fails: then the call is faulted. *)

\* A plain file stands where the path of the key has a directory.
BlockedByFile(k) ==
  \E f \in world.tree : f.leaf \in Names /\ Under(Append(f.path, f.leaf), k.path)

\* Mutant: every error of readFile() counts as ENOENT.
Gets_AnyErrorAbsent(k, res) ==
  IF world.store = "fs"
  THEN /\ res \in {"absent", IF k \in world.tree THEN "value" ELSE "absent"}
       /\ faulted' \in {faulted, res = "absent"}
  ELSE \/ /\ res = IF k \in world.tree \ world.dangling THEN "value" ELSE "absent"
          /\ UNCHANGED faulted
       \/ res = "failed" /\ faulted' = TRUE

\* get(). In the file system only ENOENT means absent: a file in place of a
\* directory is ENOTDIR, which throws. Through the shared metadata cache
\* (readMetadataThrough) the answers are the same.
Gets(k, res) ==
  \/ /\ res = IF world.store = "fs" /\ BlockedByFile(k) THEN "failed"
              ELSE IF k \in world.tree \ world.dangling THEN "value" ELSE "absent"
     /\ UNCHANGED faulted
  \/ res = "failed" /\ faulted' = TRUE

\* has(): false for whatever access() or the HTTP request failed with; a
\* reference store looks into its map.
Has(k, res) ==
  \/ /\ res = IF k \in world.tree THEN "value" ELSE "absent"
     /\ UNCHANGED faulted
  \/ /\ world.store # "reference"
     /\ res = IF world.store = "s3" THEN "failed" ELSE "absent"
     /\ faulted' = TRUE

\* Mutant: children are taken from keys in deeper groups only.
Children_Grandchildren(keys, p) ==
  {n \in Names : \E k \in keys : Under(Append(p, n), k.path) /\ k.path # Append(p, n)}

\* ConsolidatedMetadata.listChildren(): the next component of every key that
\* goes on below the path. Names that start with a dot are not names of children.
Children(keys, p) == {n \in Names : \E k \in keys : Under(Append(p, n), k.path)}

Files(p) == {n \in Names : Key(p, n) \in world.tree}

\* discoverChildren() over list(): the file system has one level, S3 and the
\* reference store have all keys, HTTP has no listing. readdir() that fails lists
\* nothing.
Lists(p, res, names) ==
  \/ /\ world.store # "http"
     /\ res = "value" /\ names = Children(world.tree, p) \cup Files(p)
     /\ UNCHANGED faulted
  \/ /\ world.store = "http"
     /\ res = "failed" /\ names = {}
     /\ UNCHANGED faulted
  \/ /\ world.store \in {"fs", "s3"}
     /\ res = (IF world.store = "fs" THEN "value" ELSE "failed") /\ names = {}
     /\ faulted' = TRUE

------------------------------------------------------------------------------
(* Metadata of a group *)

\* Mutant: what .zmetadata lacks is not looked for in the store.
GetsMeta_NoFallback(k, res) ==
  IF consolidated
  THEN res = (IF k \in world.entries THEN "value" ELSE "absent") /\ UNCHANGED faulted
  ELSE Gets(k, res)

\* getMeta()
GetsMeta(k, res) ==
  IF consolidated /\ k \in world.entries
  THEN res = "value" /\ UNCHANGED faulted
  ELSE Gets(k, res)

\* Mutant: a child of which .zmetadata has anything exists.
HasMeta_Listed(k, res) ==
  IF consolidated /\ \E e \in world.entries : Under(k.path, e.path)
  THEN res = "value" /\ UNCHANGED faulted
  ELSE IF world.context THEN Gets(k, res)
  ELSE Has(k, res)

\* hasMeta()
HasMeta(k, res) ==
  IF consolidated /\ k \in world.entries THEN res = "value" /\ UNCHANGED faulted
  ELSE IF world.context THEN Gets(k, res)
  ELSE Has(k, res)

------------------------------------------------------------------------------
(* Calls *)

Begins(o, p, first) ==
  /\ pc = "idle"
  /\ op' = o /\ at' = p /\ pc' = first
  /\ opened' = {} /\ node' = "none" /\ attrs' = "empty" /\ answer' = "none"
  /\ faulted' = FALSE
  /\ UNCHANGED <<world, group>>

\* resolveMetaContext() throws before any request when there is a cache and the
\* store has no identity (deriveStoreId()).
Refused == world.context /\ ~world.storeId /\ world.store \notin {"http", "s3"}

OpenRefused(o, p) ==
  /\ Refused /\ pc = "idle"
  /\ op' = o /\ at' = p
  /\ opened' = {} /\ node' = "none" /\ attrs' = "empty" /\ answer' = "refused"
  /\ faulted' = FALSE /\ consolidated' = FALSE /\ todo' = {} /\ asked' = {}
  /\ UNCHANGED <<world, group, pc>>

\* open(), openArray(), openGroup()
OpenCalled(o, p) ==
  /\ ~Refused
  /\ Begins(o, p, IF o = "openGroup" THEN "zgroup" ELSE "zarray")
  /\ consolidated' = FALSE /\ todo' = {} /\ asked' = {}

\* getArray(), getGroup(), contains()
ChildCalled(o, n) ==
  /\ group # NoGroup
  /\ Begins(o, Append(group.path, n),
            CASE o = "getArray" -> "zarray" [] o = "getGroup" -> "zgroup" [] o = "contains" -> "has")
  /\ consolidated' = group.consolidated /\ todo' = {} /\ asked' = {}

\* arrays(), groups(): a consolidated group lists without a request.
IterationCalled(o) ==
  /\ group # NoGroup
  /\ Begins(o, group.path, IF group.consolidated THEN "next" ELSE "children")
  /\ consolidated' = group.consolidated
  /\ todo' = IF group.consolidated THEN Children(world.entries, group.path) ELSE {}
  /\ asked' = {}

\* readMultiple(), which opens the arrays one after the other; then they are read
\* (modules ArrayRead, ChunkLoader).
MultipleCalled(names) ==
  /\ group # NoGroup
  /\ Begins("readMultiple", group.path, "next")
  /\ consolidated' = group.consolidated
  /\ todo' = names /\ asked' = names

------------------------------------------------------------------------------
(* Steps of a call *)

Ends(ans) ==
  /\ pc' = "idle" /\ answer' = ans
  /\ UNCHANGED <<world, op, at, consolidated, todo, asked, opened>>

\* The call throws; readMultiple() skips the name instead.
Throws(ans) ==
  /\ UNCHANGED <<group, node, attrs>>
  /\ IF op = "readMultiple"
     THEN pc' = "next" /\ UNCHANGED <<world, op, at, consolidated, todo, asked, opened, answer>>
     ELSE Ends(ans)

Proceeds(to) ==
  /\ pc' = to
  /\ UNCHANGED <<world, group, op, at, consolidated, todo, asked, opened, answer>>

\* What a read comes to: a document that parses (and whose codec is known), or an
\* exception of the request or of the parser.
Sound(k, res)   == res = "value" /\ k \notin world.corrupt
Unsound(k, res) == res = "failed" \/ (res = "value" /\ k \in world.corrupt)

\* .zarray, asked for by open(), openArray() and getArray()
ReadsZarray ==
  /\ pc = "zarray"
  /\ \E res \in {"value", "absent", "failed"} :
       /\ GetsMeta(Key(at, ".zarray"), res)
       /\ \/ /\ Sound(Key(at, ".zarray"), res)
             /\ node' = "array" /\ UNCHANGED attrs
             /\ Proceeds("zattrs")
          \/ /\ res = "absent" /\ op = "open"
             /\ UNCHANGED <<node, attrs>>
             /\ Proceeds("zgroup")
          \/ /\ res = "absent" /\ op # "open"
             /\ Throws(IF op = "arrays" THEN "failed" ELSE "absent")
          \/ /\ Unsound(Key(at, ".zarray"), res)
             /\ Throws("failed")

\* .zgroup, asked for by open(), openGroup() and getGroup(). Only open() and
\* openGroup() look for .zmetadata, and only in the root (loadConsolidatedMetadata).
ReadsZgroup ==
  /\ pc = "zgroup"
  /\ \E res \in {"value", "absent", "failed"} :
       /\ GetsMeta(Key(at, ".zgroup"), res)
       /\ \/ /\ Sound(Key(at, ".zgroup"), res)
             /\ node' = "group" /\ UNCHANGED attrs
             /\ Proceeds(IF op \in Opens /\ at = <<>> THEN "zmetadata" ELSE "zattrs")
          \/ /\ res = "absent"
             /\ Throws(IF op = "groups" THEN "failed" ELSE "absent")
          \/ /\ Unsound(Key(at, ".zgroup"), res)
             /\ Throws("failed")

\* Mutant: a store without .zmetadata fails.
ReadsZmetadata_Required ==
  /\ pc = "zmetadata"
  /\ \E res \in {"value", "absent", "failed"} :
       /\ Gets(Zmetadata, res)
       /\ \/ /\ Sound(Zmetadata, res)
             /\ pc' = "zattrs"
             /\ consolidated' = TRUE
             /\ UNCHANGED <<world, group, op, at, todo, asked, opened, node, attrs, answer>>
          \/ /\ Unsound(Zmetadata, res) \/ res = "absent"
             /\ Throws("failed")

ReadsZmetadata ==
  /\ pc = "zmetadata"
  /\ \E res \in {"value", "absent", "failed"} :
       /\ Gets(Zmetadata, res)
       /\ \/ /\ Sound(Zmetadata, res) \/ res = "absent"
             /\ pc' = "zattrs"
             /\ consolidated' = (res = "value")
             /\ UNCHANGED <<world, group, op, at, todo, asked, opened, node, attrs, answer>>
          \/ /\ Unsound(Zmetadata, res)
             /\ Throws("failed")

\* The node is complete: it is returned, yielded or kept for readMultiple().
\* Whoever gets a group may go on with it.
Opened ==
  LET g == [path |-> at, consolidated |-> consolidated]
  IN IF op \in Yields \cup {"readMultiple"}
     THEN /\ pc' = "next"
          /\ opened' = opened \cup {at[Len(at)]}
          /\ UNCHANGED <<world, group, op, at, consolidated, todo, asked, node, answer>>
     ELSE /\ Ends(node)
          /\ group' \in IF node = "group" THEN {group, g} ELSE {group}
          /\ UNCHANGED node

\* Mutant: for a group, .zattrs that .zmetadata lacks is not looked for.
ReadsZattrs_NoFallback ==
  /\ pc = "zattrs"
  /\ LET k == Key(at, ".zattrs")
     IN /\ GetsMeta_NoFallback(k, "value") \/ GetsMeta_NoFallback(k, "absent")
        /\ attrs' = IF k \in world.entries THEN "own" ELSE "empty"
  /\ Opened

\* Mutant: attributes that are not there are null.
ReadsZattrs_Null ==
  /\ pc = "zattrs"
  /\ \E res \in {"value", "absent"} :
       /\ GetsMeta(Key(at, ".zattrs"), res)
       /\ attrs' = IF res = "value" THEN "own" ELSE "null"
  /\ Opened

\* .zattrs, by loadAttrs(), openArrayFromMeta() and openGroupFromMeta(), which
\* does not go to the store for what .zmetadata lacks.
ReadsZattrs ==
  /\ pc = "zattrs"
  /\ LET k == Key(at, ".zattrs")
     IN \E res \in {"value", "absent", "failed"} :
          /\ IF consolidated /\ op \in Opens
             THEN res = (IF k \in world.entries THEN "value" ELSE "absent") /\ UNCHANGED faulted
             ELSE GetsMeta(k, res)
          /\ \/ /\ Sound(k, res) \/ res = "absent"
                /\ attrs' = IF res = "value" THEN "own" ELSE "empty"
                /\ Opened
             \/ /\ Unsound(k, res)
                /\ Throws("failed")

ListsChildren ==
  /\ pc = "children"
  /\ \E res \in {"value", "failed"}, names \in SUBSET Names :
       /\ Lists(at, res, names)
       /\ \/ /\ res = "value"
             /\ pc' = "next" /\ todo' = names
             /\ UNCHANGED <<world, group, op, at, consolidated, asked, opened, node, attrs, answer>>
          \/ res = "failed" /\ Throws("failed")

\* The loop over the names: arrays() and groups() ask hasMeta() first.
NextName ==
  /\ pc = "next"
  /\ UNCHANGED faulted
  /\ \/ /\ todo = {}
        /\ Ends("listed")
        /\ UNCHANGED <<group, node, attrs>>
     \/ \E n \in todo :
          /\ todo' = todo \ {n}
          /\ at' = Append(group.path, n)
          /\ pc' = IF op = "readMultiple" THEN "zarray" ELSE "has"
          /\ UNCHANGED <<world, group, op, consolidated, asked, opened, node, attrs, answer>>

\* hasMeta() of .zarray, by contains() and arrays(), or of .zgroup, by groups()
Probes ==
  /\ pc = "has"
  /\ \E res \in {"value", "absent", "failed"} :
       /\ HasMeta(Key(at, IF op = "groups" THEN ".zgroup" ELSE ".zarray"), res)
       /\ \/ /\ op = "contains" /\ res # "failed"
             /\ node' = (IF res = "value" THEN "array" ELSE "none") /\ UNCHANGED attrs
             /\ Proceeds("hasGroup")
          \/ /\ op \in Yields /\ res # "failed"
             /\ UNCHANGED <<node, attrs>>
             /\ Proceeds(IF res = "absent" THEN "next"
                         ELSE IF op = "arrays" THEN "zarray" ELSE "zgroup")
          \/ res = "failed" /\ Throws("failed")

ProbesGroup ==
  /\ pc = "hasGroup"
  /\ \E res \in {"value", "absent", "failed"} :
       /\ HasMeta(Key(at, ".zgroup"), res)
       /\ \/ /\ res # "failed"
             /\ Ends(IF node = "array" \/ res = "value" THEN "true" ELSE "false")
             /\ UNCHANGED <<group, node, attrs>>
          \/ res = "failed" /\ Throws("failed")

OpeningStep ==
  \/ ReadsZarray \/ ReadsZgroup \/ ReadsZmetadata \/ ReadsZattrs
  \/ ListsChildren \/ NextName \/ Probes \/ ProbesGroup

Next ==
  \/ \E o \in Opens, p \in OpenPaths : OpenRefused(o, p) \/ OpenCalled(o, p)
  \/ \E o \in {"getArray", "getGroup", "contains"}, n \in Names : ChildCalled(o, n)
  \/ \E o \in Yields : IterationCalled(o)
  \/ \E names \in SUBSET Names : MultipleCalled(names)
  \/ OpeningStep

Spec == Init /\ [][Next]_vars

------------------------------------------------------------------------------
(* Properties *)

\* The store has the document.
Is(p, leaf) == Key(p, leaf) \in world.tree \ world.dangling

Child(n) == Append(group.path, n)

Sought == IF op = "groups" THEN ".zgroup" ELSE ".zarray"

\* has(), or readdir(), failed, and that was taken for an absence.
HasSwallowed  == faulted /\ ~world.context /\ world.store \in {"fs", "http"}
ListSwallowed == faulted /\ ~consolidated /\ world.store = "fs"

NothingHidden ==
  /\ answer = "absent" =>
       /\ op \in {"open", "openArray", "getArray"} => ~Is(at, ".zarray")
       /\ op \in {"open", "openGroup", "getGroup"} => ~Is(at, ".zgroup")
  /\ answer = "false" /\ ~HasSwallowed => ~Is(at, ".zarray") /\ ~Is(at, ".zgroup")
  /\ answer = "listed" /\ op \in Yields /\ ~HasSwallowed /\ ~ListSwallowed =>
       \A n \in Names : Is(Child(n), Sought) =>
         n \in opened \/ (consolidated /\ n \notin Children(world.entries, group.path))
  /\ answer = "listed" /\ op = "readMultiple" /\ ~faulted =>
       \A n \in asked : Is(Child(n), ".zarray") =>
         n \in opened \/ \E k \in world.corrupt : k.path = Child(n)

NothingInvented ==
  /\ answer = "array" => Is(at, ".zarray")
  /\ answer = "group" => Is(at, ".zgroup")
  /\ answer = "true" => \E leaf \in {".zarray", ".zgroup"} : Key(at, leaf) \in world.tree
  /\ op \in Yields \cup {"readMultiple"} => \A n \in opened : Is(Child(n), Sought)

AttrsOwn ==
  answer \in {"array", "group"} =>
    \/ attrs = IF Is(at, ".zattrs") THEN "own" ELSE "empty"
    \/ consolidated /\ op \in Opens /\ Key(at, ".zattrs") \notin world.entries

\* What is in the store is found, whatever .zmetadata lacks (FR-005) and whether
\* there is one (FR-004), and what is opened, yielded or said to be there is in the
\* store: a fault never looks like an absence. The exceptions are those of the code:
\* contains() and iterations when has() or readdir() swallows a fault, iterations
\* over children of which .zmetadata has no trace, and readMultiple(), which skips
\* what it could not open (FR-013). A node has its own attributes, or none when it
\* has none, except a root group whose .zattrs is not in .zmetadata.
AnswersAreTheStores == NothingHidden /\ NothingInvented /\ AttrsOwn

\* A call fails only with a request or a document that does not parse, or because
\* HTTP has no listing, a plain file of the file system stands in the way, or a
\* reference has no target.
FailsForCause ==
  answer = "failed" =>
    \/ faulted
    \/ \E k \in world.corrupt : k.path = at
    \/ world.store = "http" /\ op \in Yields /\ ~consolidated
    \/ world.store = "fs" /\ BlockedByFile(Key(at, ".zarray"))
    \/ world.dangling # {} /\ op \in Yields
=============================================================================
