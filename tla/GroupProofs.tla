----------------------------- MODULE GroupProofs -----------------------------
(***************************************************************************)
(* Proofs about Opening and GridIndex. What the operations of a group      *)
(* answer is what the store has. A load of the grid is a use of Opening,   *)
(* the grid is the group's own unless datasets cannot be told apart,       *)
(* nearest() finds the first of the nearest cells of any grid, and a load  *)
(* fails for a cause.                                                      *)
(***************************************************************************)
EXTENDS GridIndex, SequenceTheorems, TLAPS

------------------------------------------------------------------------------
(* Opening *)

Iterates == op \in Yields \cup {"readMultiple"}

Blocked == world.store = "fs" /\ BlockedByFile(Key(at, ".zarray"))

\* What a call that is suspended at pc has learnt so far.
CallInv ==
  /\ pc # "idle" => answer = "none"
  /\ Iterates => group # NoGroup
  /\ pc = "zarray" => /\ op \in {"open", "openArray", "getArray", "arrays", "readMultiple"}
                      /\ op = "arrays" => Key(at, ".zarray") \in world.tree
  /\ pc = "zgroup" => /\ op \in {"open", "openGroup", "getGroup", "groups"}
                      /\ op = "open" => ~Is(at, ".zarray")
                      /\ op = "groups" => Key(at, ".zgroup") \in world.tree
  /\ pc = "zmetadata" => op \in Opens /\ at = <<>> /\ node = "group" /\ Is(at, ".zgroup")
  /\ pc = "zattrs" => /\ \/ node = "array" /\ Is(at, ".zarray")
                         \/ node = "group" /\ Is(at, ".zgroup")
                      /\ Iterates => Is(at, Sought)
                      /\ op = "readMultiple" => node = "array"
  /\ pc = "children" => op \in Yields /\ ~consolidated /\ at = group.path
  /\ pc = "next" => Iterates
  /\ pc = "has" => op \in Yields \cup {"contains"}
  /\ pc = "hasGroup" => /\ op = "contains"
                        /\ node = "array" => Key(at, ".zarray") \in world.tree
                        /\ node # "array" => ~Is(at, ".zarray") \/ HasSwallowed
  /\ Iterates /\ pc \in {"zarray", "zgroup", "zattrs", "has"} => \E n \in Names : at = Child(n)

\* A child of an iteration that the store has was opened, is still to come, is the
\* one looked at, or is one of the exceptions.
Accounted(n) ==
  \/ n \in opened \cup todo
  \/ pc # "next" /\ at = Child(n)
  \/ op \in Yields /\ (HasSwallowed \/ ListSwallowed)
  \/ op \in Yields /\ consolidated /\ n \notin Children(world.entries, group.path)
  \/ op = "readMultiple" /\ (faulted \/ \E k \in world.corrupt : k.path = Child(n))

Wanted == IF op = "readMultiple" THEN asked ELSE Names

LoopInv ==
  Iterates /\ pc \notin {"idle", "children"} =>
    \A n \in Wanted : Is(Child(n), Sought) => Accounted(n)

OpenedInv == Iterates => \A n \in opened : Is(Child(n), Sought)

\* The inductive invariant.
Inv == TypeOK /\ CallInv /\ LoopInv /\ OpenedInv /\ AnswersAreTheStores /\ FailsForCause

LEMMA InitInv == Init => Inv
<1> SUFFICES ASSUME Init PROVE Inv
  OBVIOUS
<1>1. TypeOK
  BY EmptySeq DEF Init, TypeOK, Paths
<1> QED
  BY <1>1 DEF Init, Inv, CallInv, LoopInv, OpenedInv, AnswersAreTheStores, NothingHidden,
              NothingInvented, AttrsOwn, FailsForCause, Iterates, Yields

------------------------------------------------------------------------------
(* Paths and requests *)

LEMMA ChildTypes ==
  ASSUME NEW p \in Paths, NEW n \in Names
  PROVE  /\ Append(p, n) \in Paths
         /\ Append(p, n)[Len(Append(p, n))] = n
         /\ Append(p, n) # <<>>
         /\ \A m \in Names : Append(p, m) = Append(p, n) => m = n
  BY AppendProperties, AppendInjective DEF Paths

\* A key of a child is one that makes the child known.
LEMMA ChildListed ==
  ASSUME NEW p \in Paths, NEW n \in Names, NEW leaf, NEW keys, Key(Append(p, n), leaf) \in keys
  PROVE  n \in Children(keys, p)
<1> DEFINE q == Append(p, n)
<1>1. q \in Seq(Names)
  BY ChildTypes DEF Paths
<1>2. Under(q, q)
  BY <1>1, SubSeqFull DEF Under
<1>3. Key(q, leaf).path = q
  BY DEF Key
<1> QED
  BY <1>2, <1>3 DEF Children

LEMMA WorldFacts ==
  ASSUME TypeOK
  PROVE  /\ world.store \in {"fs", "http", "s3", "reference"}
         /\ world.entries \subseteq world.tree \ world.dangling
         /\ \A k \in world.tree : world.store = "fs" => ~BlockedByFile(k)
  BY WorldsAssumption DEF TypeOK, IsWorld, BlockedByFile

\* What the answer to get() says of the store.
Told(k, res) ==
  /\ res \in {"value", "absent", "failed"}
  /\ res = "value" => k \in world.tree \ world.dangling
  /\ res = "absent" => k \notin world.tree \ world.dangling
  /\ res = "failed" => faulted' \/ (world.store = "fs" /\ BlockedByFile(k))
  /\ faulted' \in BOOLEAN /\ (faulted => faulted')

LEMMA GetsTells ==
  ASSUME TypeOK, NEW k, NEW res, Gets(k, res)
  PROVE  Told(k, res)
  BY DEF Gets, Told, TypeOK

LEMMA GetsMetaTells ==
  ASSUME TypeOK, NEW k, NEW res, GetsMeta(k, res)
  PROVE  Told(k, res)
  BY GetsTells, WorldFacts DEF GetsMeta, Told, TypeOK

\* What the answer to hasMeta() says of it.
HasTold(k, res) ==
  /\ res = "value" => k \in world.tree
  /\ res = "absent" => \/ k \notin world.tree \ world.dangling
                       \/ faulted' /\ ~world.context /\ world.store \in {"fs", "http"}
  /\ res = "failed" => faulted' \/ (world.store = "fs" /\ BlockedByFile(k))
  /\ faulted' \in BOOLEAN /\ (faulted => faulted')

LEMMA HasMetaTells ==
  ASSUME TypeOK, NEW k, NEW res, HasMeta(k, res)
  PROVE  HasTold(k, res)
<1>1. CASE Gets(k, res)
  BY <1>1, GetsTells DEF Told, HasTold
<1>2. CASE Has(k, res) /\ ~world.context
  <2>1. world.store \in {"fs", "http", "s3", "reference"} /\ faulted \in BOOLEAN
    BY WorldFacts DEF TypeOK
  <2>2. CASE res = (IF k \in world.tree THEN "value" ELSE "absent") /\ UNCHANGED faulted
    BY <2>1, <2>2 DEF HasTold
  <2>3. CASE /\ world.store # "reference"
             /\ res = IF world.store = "s3" THEN "failed" ELSE "absent"
             /\ faulted' = TRUE
    BY <1>2, <2>1, <2>3 DEF HasTold
  <2> QED
    BY <1>2, <2>2, <2>3 DEF Has
<1>3. CASE k \in world.entries /\ res = "value" /\ UNCHANGED faulted
  BY <1>3, WorldFacts DEF HasTold, TypeOK
<1> QED
  BY <1>1, <1>2, <1>3 DEF HasMeta

\* A document that stands in the way is one of the node.
LEMMA SamePath ==
  ASSUME NEW p, NEW leaf
  PROVE  BlockedByFile(Key(p, leaf)) <=> BlockedByFile(Key(p, ".zarray"))
  BY DEF BlockedByFile, Key

------------------------------------------------------------------------------
(* Calls *)

\* While a call goes on only what it has opened says something of the store.
LEMMA GoesOn ==
  ASSUME answer' = "none", OpenedInv'
  PROVE  AnswersAreTheStores' /\ FailsForCause'
  BY DEF OpenedInv, Iterates, Yields, AnswersAreTheStores, NothingHidden, NothingInvented, AttrsOwn,
         FailsForCause

LEMMA BeginsInv ==
  ASSUME TypeOK, NEW o \in Opens \cup GroupOps, NEW p \in Paths, NEW first,
         Begins(o, p, first),
         first \in {"zarray", "zgroup", "children", "next", "has"},
         consolidated' \in BOOLEAN, todo' \subseteq Names, asked' \subseteq Names
  PROVE  TypeOK' /\ OpenedInv' /\ AnswersAreTheStores' /\ FailsForCause'
<1>1. TypeOK'
  BY DEF Begins, TypeOK, Opens, GroupOps
<1>2. OpenedInv' /\ answer' = "none"
  BY DEF Begins, OpenedInv
<1> QED
  BY <1>1, <1>2, GoesOn

LEMMA OpenRefusedInv ==
  ASSUME Inv, NEW o \in Opens, NEW p \in OpenPaths, OpenRefused(o, p)
  PROVE  Inv'
<1>1. TypeOK'
  BY PathsAssumption DEF OpenRefused, Inv, TypeOK
<1>2. op' \notin Yields \cup {"readMultiple"} /\ pc' = "idle" /\ answer' = "refused"
  BY DEF OpenRefused, Opens, Yields
<1>3. CallInv' /\ LoopInv' /\ OpenedInv'
  BY <1>2 DEF CallInv, LoopInv, OpenedInv, Iterates
<1>4. AnswersAreTheStores' /\ FailsForCause'
  BY <1>2 DEF AnswersAreTheStores, NothingHidden, NothingInvented, AttrsOwn, FailsForCause
<1> QED
  BY <1>1, <1>3, <1>4 DEF Inv

LEMMA OpenCalledInv ==
  ASSUME Inv, NEW o \in Opens, NEW p \in OpenPaths, OpenCalled(o, p)
  PROVE  Inv'
<1>1. /\ Begins(o, p, IF o = "openGroup" THEN "zgroup" ELSE "zarray")
      /\ consolidated' = FALSE /\ todo' = {} /\ asked' = {} /\ p \in Paths
  BY PathsAssumption DEF OpenCalled
<1>2. TypeOK' /\ OpenedInv' /\ AnswersAreTheStores' /\ FailsForCause'
  BY <1>1, BeginsInv DEF Inv
<1>3. /\ op' = o /\ answer' = "none" /\ o \in {"open", "openGroup", "openArray"}
      /\ pc' = IF o = "openGroup" THEN "zgroup" ELSE "zarray"
  BY <1>1 DEF Begins, Opens
<1>4. CallInv' /\ LoopInv'
  BY <1>3 DEF CallInv, LoopInv, Iterates, Yields
<1> QED
  BY <1>2, <1>4 DEF Inv

LEMMA ChildCalledInv ==
  ASSUME Inv, NEW o \in {"getArray", "getGroup", "contains"}, NEW n \in Names, ChildCalled(o, n)
  PROVE  Inv'
<1> DEFINE first == CASE o = "getArray" -> "zarray" [] o = "getGroup" -> "zgroup" [] o = "contains" -> "has"
<1>1. /\ Begins(o, Append(group.path, n), first)
      /\ group # NoGroup /\ consolidated' = group.consolidated /\ todo' = {} /\ asked' = {}
  BY DEF ChildCalled
<1>2. Append(group.path, n) \in Paths /\ group.consolidated \in BOOLEAN
  BY <1>1, ChildTypes DEF Inv, TypeOK, Groups
<1>3. TypeOK' /\ OpenedInv' /\ AnswersAreTheStores' /\ FailsForCause'
  BY <1>1, <1>2, BeginsInv DEF Inv, GroupOps
<1>4. op' = o /\ answer' = "none" /\ pc' = first
  BY <1>1 DEF Begins
<1>5. CallInv' /\ LoopInv'
  BY <1>4 DEF CallInv, LoopInv, Iterates, Yields
<1> QED
  BY <1>3, <1>5 DEF Inv

LEMMA IterationCalledInv ==
  ASSUME Inv, NEW o \in Yields, IterationCalled(o)
  PROVE  Inv'
<1>1. /\ Begins(o, group.path, IF group.consolidated THEN "next" ELSE "children")
      /\ group # NoGroup /\ consolidated' = group.consolidated
      /\ todo' = IF group.consolidated THEN Children(world.entries, group.path) ELSE {}
      /\ asked' = {}
  BY DEF IterationCalled
<1>2. group.path \in Paths /\ group.consolidated \in BOOLEAN /\ todo' \subseteq Names
  BY <1>1 DEF Inv, TypeOK, Groups, Children
<1>3. TypeOK' /\ OpenedInv' /\ AnswersAreTheStores' /\ FailsForCause'
  BY <1>1, <1>2, BeginsInv DEF Inv, GroupOps
<1>4. /\ op' = o /\ answer' = "none" /\ at' = group.path /\ group' = group /\ world' = world
      /\ pc' = IF group.consolidated THEN "next" ELSE "children"
  BY <1>1 DEF Begins
<1>5. CallInv'
  BY <1>1, <1>4 DEF CallInv, Iterates, Yields
<1>6. LoopInv'
  BY <1>1, <1>4 DEF LoopInv, Iterates, Accounted, Wanted, Yields
<1> QED
  BY <1>3, <1>5, <1>6 DEF Inv

LEMMA MultipleCalledInv ==
  ASSUME Inv, NEW names \in SUBSET Names, MultipleCalled(names)
  PROVE  Inv'
<1>1. /\ Begins("readMultiple", group.path, "next")
      /\ group # NoGroup /\ consolidated' = group.consolidated /\ todo' = names /\ asked' = names
  BY DEF MultipleCalled
<1>2. group.path \in Paths /\ group.consolidated \in BOOLEAN
  BY <1>1 DEF Inv, TypeOK, Groups
<1>3. TypeOK' /\ OpenedInv' /\ AnswersAreTheStores' /\ FailsForCause'
  BY <1>1, <1>2, BeginsInv DEF Inv, GroupOps
<1>4. op' = "readMultiple" /\ answer' = "none" /\ group' = group /\ pc' = "next"
  BY <1>1 DEF Begins
<1>5. CallInv'
  BY <1>1, <1>4 DEF CallInv, Iterates
<1>6. LoopInv'
  BY <1>1, <1>4 DEF LoopInv, Accounted, Wanted
<1> QED
  BY <1>3, <1>5, <1>6 DEF Inv
------------------------------------------------------------------------------
(* Steps of a call *)

\* What justifies a failure.
Cause ==
  \/ faulted
  \/ \E k \in world.corrupt : k.path = at
  \/ world.store = "http" /\ op \in Yields /\ ~consolidated
  \/ world.store = "fs" /\ BlockedByFile(Key(at, ".zarray"))
  \/ world.dangling # {} /\ op \in Yields

\* A step that goes on with another request, or with the next name once the child
\* at hand is accounted for.
LEMMA ProceedsInv ==
  ASSUME Inv, pc \notin {"idle", "children"}, NEW to, to \notin {"idle", "children"}, Proceeds(to),
         TypeOK', CallInv', faulted => faulted',
         ASSUME to = "next", Iterates, NEW n \in Wanted, at = Child(n), Is(at, Sought)
         PROVE  Accounted(n)'
  PROVE  Inv'
<1>1. /\ UNCHANGED <<world, group, op, at, consolidated, todo, asked, opened, answer>>
      /\ pc' = to /\ answer = "none"
  BY DEF Proceeds, Inv, CallInv
<1>2. OpenedInv'
  BY <1>1 DEF Inv, OpenedInv, Iterates, Is, Child, Sought
<1>3. LoopInv'
  <2> SUFFICES ASSUME Iterates', NEW n \in Wanted', Is(Child(n), Sought)' PROVE Accounted(n)'
    BY DEF LoopInv
  <2>1. Iterates /\ n \in Wanted /\ Is(Child(n), Sought)
    BY <1>1 DEF Iterates, Wanted, Is, Child, Sought
  <2>2. Accounted(n)
    BY <2>1 DEF Inv, LoopInv
  <2>3. CASE pc # "next" /\ at = Child(n)
    <3>1. CASE to = "next"
      BY <2>1, <2>3, <3>1
    <3>2. CASE to # "next"
      BY <1>1, <2>3, <3>2 DEF Accounted, Child
    <3> QED
      BY <3>1, <3>2
  <2>4. CASE ~(pc # "next" /\ at = Child(n))
    BY <1>1, <2>2, <2>4 DEF Accounted, Child, HasSwallowed, ListSwallowed
  <2> QED
    BY <2>3, <2>4
<1> QED
  BY <1>1, <1>2, <1>3, GoesOn DEF Inv

\* A step that ends the call.
LEMMA EndsInv ==
  ASSUME Inv, NEW ans \in {"array", "group", "true", "false", "listed", "absent", "failed"}, Ends(ans),
         group' \in Groups \cup {NoGroup}, Iterates => group' = group,
         node' \in {"none", "array", "group"}, attrs' \in {"own", "empty"}, faulted' \in BOOLEAN,
         AnswersAreTheStores', FailsForCause'
  PROVE  Inv'
<1>1. TypeOK'
  BY DEF Ends, Inv, TypeOK
<1>2. OpenedInv' /\ CallInv' /\ LoopInv'
  BY DEF Ends, Inv, OpenedInv, CallInv, LoopInv, Iterates, Is, Child, Sought
<1> QED
  BY <1>1, <1>2 DEF Inv

\* A step that throws.
LEMMA ThrowsInv ==
  ASSUME Inv, pc \in {"zarray", "zgroup", "zmetadata", "zattrs", "children", "has", "hasGroup"},
         NEW ans \in {"absent", "failed"}, Throws(ans), faulted' \in BOOLEAN, faulted => faulted',
         ans = "failed" => Cause',
         ans = "absent" => /\ op \in {"open", "openArray", "getArray", "readMultiple"} => ~Is(at, ".zarray")
                           /\ op \in {"open", "openGroup", "getGroup"} => ~Is(at, ".zgroup")
  PROVE  Inv'
<1>1. UNCHANGED <<group, node, attrs, world, op, at, consolidated, todo, asked, opened>>
  BY DEF Throws, Ends
<1>2. CASE op = "readMultiple"
  <2>1. Proceeds("next") /\ pc' = "next"
    BY <1>1, <1>2 DEF Throws, Proceeds
  <2>2. pc \notin {"idle", "children"}
    BY <1>2 DEF Inv, CallInv, Yields
  <2>3. TypeOK'
    BY <1>1, <2>1 DEF Proceeds, Inv, TypeOK
  <2>4. CallInv'
    BY <1>1, <1>2, <2>1 DEF Proceeds, Inv, CallInv, Iterates
  <2>5. ASSUME NEW n \in Wanted, at = Child(n), Is(at, Sought) PROVE Accounted(n)'
    <3>1. Key(at, ".zarray") \in world.tree /\ Is(at, ".zarray")
      BY <1>2, <2>5 DEF Sought, Is
    <3>2. Cause' /\ ~(world.store = "fs" /\ BlockedByFile(Key(at, ".zarray")))
      BY <1>2, <3>1, WorldFacts DEF Inv
    <3>3. faulted' \/ \E k \in world.corrupt : k.path = at
      BY <1>1, <1>2, <3>2 DEF Cause, Yields, BlockedByFile
    <3> QED
      BY <1>1, <1>2, <2>5, <3>3 DEF Accounted, Child
  <2> QED
    BY <2>1, <2>2, <2>3, <2>4, <2>5, ProceedsInv
<1>3. CASE op # "readMultiple"
  <2>1. Ends(ans) /\ answer' = ans
    BY <1>3 DEF Throws, Ends
  <2>2. FailsForCause'
    BY <2>1 DEF FailsForCause, Cause
  <2>3. OpenedInv'
    BY <1>1 DEF Inv, OpenedInv, Iterates, Is, Child, Sought
  <2>4. AnswersAreTheStores'
    <3>1. NothingHidden'
      BY <1>1, <1>3, <2>1 DEF NothingHidden, Is
    <3>2. NothingInvented' /\ AttrsOwn'
      BY <2>1, <2>3 DEF NothingInvented, AttrsOwn, OpenedInv, Iterates
    <3> QED
      BY <3>1, <3>2 DEF AnswersAreTheStores
  <2> QED
    BY <1>1, <2>1, <2>2, <2>4, EndsInv DEF Inv, TypeOK
<1> QED
  BY <1>2, <1>3

LEMMA ReadsZarrayInv ==
  ASSUME Inv, ReadsZarray
  PROVE  Inv'
<1> DEFINE k == Key(at, ".zarray")
<1>1. PICK res \in {"value", "absent", "failed"} :
       /\ GetsMeta(Key(at, ".zarray"), res)
       /\ \/ /\ Sound(Key(at, ".zarray"), res)
             /\ node' = "array" /\ UNCHANGED attrs
             /\ Proceeds("zattrs")
          \/ /\ res = "absent" /\ op = "open"
             /\ UNCHANGED <<node, attrs>>
             /\ Proceeds("zgroup")
          \/ /\ res = "absent" /\ op # "open"
             /\ Throws(IF op = "arrays" THEN "failed" ELSE "absent")
          \/ /\ Unsound(Key(at, ".zarray"), res)
             /\ Throws("failed")
  BY DEF ReadsZarray
<1>2. Told(Key(at, ".zarray"), res) /\ pc = "zarray" /\ TypeOK /\ CallInv
  BY <1>1, GetsMetaTells DEF ReadsZarray, Inv
<1>3. op \in {"open", "openArray", "getArray", "arrays", "readMultiple"} /\ faulted' \in BOOLEAN /\ (faulted => faulted')
  BY <1>2 DEF CallInv, Told
<1>4. CASE Sound(Key(at, ".zarray"), res) /\ node' = "array" /\ UNCHANGED attrs /\ Proceeds("zattrs")
  <2>1. Is(at, ".zarray")
    BY <1>2, <1>4 DEF Sound, Told, Is
  <2>2. TypeOK'
    BY <1>2, <1>3, <1>4 DEF Proceeds, TypeOK
  <2>3. CallInv'
    BY <1>2, <1>3, <1>4, <2>1 DEF Proceeds, CallInv, Iterates, Sought, Is, Child, Yields
  <2> QED
    BY <1>2, <1>3, <1>4, <2>2, <2>3, ProceedsInv
<1>5. CASE res = "absent" /\ op = "open" /\ UNCHANGED <<node, attrs>> /\ Proceeds("zgroup")
  <2>1. ~Is(at, ".zarray")
    BY <1>2, <1>5 DEF Told, Is
  <2>2. TypeOK'
    BY <1>2, <1>3, <1>5 DEF Proceeds, TypeOK
  <2>3. CallInv'
    BY <1>2, <1>5, <2>1 DEF Proceeds, CallInv, Iterates, Is, Yields
  <2> QED
    BY <1>2, <1>3, <1>5, <2>2, <2>3, ProceedsInv
<1>6. CASE res = "absent" /\ op # "open" /\ Throws(IF op = "arrays" THEN "failed" ELSE "absent")
  <2>1. ~Is(at, ".zarray") /\ UNCHANGED <<world, op, at, consolidated>>
    BY <1>2, <1>6 DEF Told, Is, Throws, Ends
  <2>2. op = "arrays" => Cause'
    BY <1>2, <1>6, <2>1 DEF CallInv, Is, Cause, Yields
  <2> QED
    BY <1>2, <1>3, <1>6, <2>1, <2>2, ThrowsInv
<1>7. CASE Unsound(Key(at, ".zarray"), res) /\ Throws("failed")
  <2>1. UNCHANGED <<world, op, at, consolidated>>
    BY <1>7 DEF Throws, Ends
  <2>2. Cause'
    BY <1>2, <1>7, <2>1 DEF Unsound, Told, Cause, Key, BlockedByFile
  <2> QED
    BY <1>2, <1>3, <1>7, <2>2, ThrowsInv
<1> QED
  BY <1>1, <1>4, <1>5, <1>6, <1>7

LEMMA ReadsZgroupInv ==
  ASSUME Inv, ReadsZgroup
  PROVE  Inv'
<1> DEFINE to == IF op \in Opens /\ at = <<>> THEN "zmetadata" ELSE "zattrs"
<1>1. PICK res \in {"value", "absent", "failed"} :
       /\ GetsMeta(Key(at, ".zgroup"), res)
       /\ \/ /\ Sound(Key(at, ".zgroup"), res)
             /\ node' = "group" /\ UNCHANGED attrs
             /\ Proceeds(to)
          \/ /\ res = "absent"
             /\ Throws(IF op = "groups" THEN "failed" ELSE "absent")
          \/ /\ Unsound(Key(at, ".zgroup"), res)
             /\ Throws("failed")
  BY DEF ReadsZgroup
<1>2. Told(Key(at, ".zgroup"), res) /\ pc = "zgroup" /\ TypeOK /\ CallInv
  BY <1>1, GetsMetaTells DEF ReadsZgroup, Inv
<1>3. op \in {"open", "openGroup", "getGroup", "groups"} /\ faulted' \in BOOLEAN /\ (faulted => faulted')
  BY <1>2 DEF CallInv, Told
<1>4. CASE Sound(Key(at, ".zgroup"), res) /\ node' = "group" /\ UNCHANGED attrs /\ Proceeds(to)
  <2>1. Is(at, ".zgroup")
    BY <1>2, <1>4 DEF Sound, Told, Is
  <2>2. TypeOK'
    BY <1>2, <1>3, <1>4 DEF Proceeds, TypeOK
  <2>3. CallInv'
    BY <1>2, <1>3, <1>4, <2>1 DEF Proceeds, CallInv, Iterates, Sought, Is, Child, Yields, Opens
  <2> QED
    BY <1>2, <1>3, <1>4, <2>2, <2>3, ProceedsInv
<1>5. CASE res = "absent" /\ Throws(IF op = "groups" THEN "failed" ELSE "absent")
  <2>1. ~Is(at, ".zgroup") /\ UNCHANGED <<world, op, at, consolidated>>
    BY <1>2, <1>5 DEF Told, Is, Throws, Ends
  <2>2. op = "groups" => Cause'
    BY <1>2, <1>5, <2>1 DEF CallInv, Is, Cause, Yields
  <2>3. op = "open" => ~Is(at, ".zarray")
    BY <1>2 DEF CallInv
  <2> QED
    BY <1>2, <1>3, <1>5, <2>1, <2>2, <2>3, ThrowsInv
<1>6. CASE Unsound(Key(at, ".zgroup"), res) /\ Throws("failed")
  <2>1. UNCHANGED <<world, op, at, consolidated>>
    BY <1>6 DEF Throws, Ends
  <2>2. Cause'
    BY <1>2, <1>6, <2>1 DEF Unsound, Told, Cause, Key, BlockedByFile
  <2> QED
    BY <1>2, <1>3, <1>6, <2>2, ThrowsInv
<1> QED
  BY <1>1, <1>4, <1>5, <1>6

LEMMA ReadsZmetadataInv ==
  ASSUME Inv, ReadsZmetadata
  PROVE  Inv'
<1>1. PICK res \in {"value", "absent", "failed"} :
       /\ Gets(Zmetadata, res)
       /\ \/ /\ Sound(Zmetadata, res) \/ res = "absent"
             /\ pc' = "zattrs"
             /\ consolidated' = (res = "value")
             /\ UNCHANGED <<world, group, op, at, todo, asked, opened, node, attrs, answer>>
          \/ /\ Unsound(Zmetadata, res)
             /\ Throws("failed")
  BY DEF ReadsZmetadata
<1>2. Told(Zmetadata, res) /\ pc = "zmetadata" /\ TypeOK /\ CallInv
  BY <1>1, GetsTells DEF ReadsZmetadata, Inv
<1>3. /\ op \in Opens /\ at = <<>> /\ node = "group" /\ Is(at, ".zgroup") /\ answer = "none"
      /\ faulted' \in BOOLEAN /\ (faulted => faulted')
  BY <1>2 DEF CallInv, Told
<1>4. CASE /\ pc' = "zattrs" /\ consolidated' = (res = "value")
           /\ UNCHANGED <<world, group, op, at, todo, asked, opened, node, attrs, answer>>
  <2>1. ~Iterates' /\ answer' = "none"
    BY <1>3, <1>4 DEF Iterates, Opens, Yields
  <2>2. TypeOK'
    BY <1>2, <1>3, <1>4 DEF TypeOK
  <2>3. CallInv'
    BY <1>3, <1>4, <2>1 DEF CallInv, Is, Iterates
  <2>4. LoopInv' /\ OpenedInv'
    BY <2>1 DEF LoopInv, OpenedInv
  <2> QED
    BY <2>1, <2>2, <2>3, <2>4, GoesOn DEF Inv
<1>5. CASE Unsound(Zmetadata, res) /\ Throws("failed")
  <2>1. UNCHANGED <<world, op, at, consolidated>>
    BY <1>5 DEF Throws, Ends
  <2>2. Cause'
    BY <1>2, <1>3, <1>5, <2>1 DEF Unsound, Told, Cause, Zmetadata, Key, BlockedByFile
  <2> QED
    BY <1>2, <1>3, <1>5, <2>2, ThrowsInv
<1> QED
  BY <1>1, <1>4, <1>5

\* A node that was opened, with the attributes it has.
LEMMA OpenedNodeInv ==
  ASSUME Inv, pc = "zattrs", Opened, attrs' \in {"own", "empty"}, faulted' \in BOOLEAN, faulted => faulted',
         \/ attrs' = IF Is(at, ".zattrs") THEN "own" ELSE "empty"
         \/ consolidated /\ op \in Opens /\ Key(at, ".zattrs") \notin world.entries
  PROVE  Inv'
<1>1. /\ \/ node = "array" /\ Is(at, ".zarray")
         \/ node = "group" /\ Is(at, ".zgroup")
      /\ Iterates => Is(at, Sought) /\ group # NoGroup
      /\ answer = "none"
      /\ Iterates => \E n \in Names : at = Child(n)
  BY DEF Inv, CallInv
<1>2. TypeOK
  BY DEF Inv
<1>3. CASE Iterates
  <2>1. /\ pc' = "next" /\ opened' = opened \cup {at[Len(at)]}
        /\ UNCHANGED <<world, group, op, at, consolidated, todo, asked, node, answer>>
    BY <1>3 DEF Opened, Iterates
  <2>2. PICK n \in Names : at = Child(n)
    BY <1>1, <1>3
  <2>3. group.path \in Paths
    BY <1>1, <1>2, <1>3 DEF TypeOK, Groups
  <2>4. at[Len(at)] = n /\ \A m \in Names : at = Child(m) => m = n
    BY <2>2, <2>3, ChildTypes DEF Child
  <2>5. opened' = opened \cup {n}
    BY <2>1, <2>4
  <2>6. TypeOK'
    BY <1>2, <2>1, <2>5 DEF TypeOK
  <2>7. CallInv'
    BY <1>1, <1>3, <2>1 DEF CallInv, Iterates
  <2>8. OpenedInv'
    BY <1>1, <1>3, <2>1, <2>2, <2>5 DEF Inv, OpenedInv, Iterates, Is, Child, Sought
  <2>9. LoopInv'
    <3> SUFFICES ASSUME NEW m \in Wanted', Is(Child(m), Sought)' PROVE Accounted(m)'
      BY DEF LoopInv
    <3>1. m \in Wanted /\ m \in Names /\ Is(Child(m), Sought)
      BY <1>2, <2>1 DEF Wanted, Is, Child, Sought, TypeOK
    <3>2. Accounted(m)
      BY <1>3, <3>1 DEF Inv, LoopInv
    <3>3. CASE at = Child(m)
      BY <2>4, <2>5, <3>1, <3>3 DEF Accounted
    <3>4. CASE at # Child(m)
      BY <2>1, <2>5, <3>2, <3>4 DEF Accounted, Child, HasSwallowed, ListSwallowed
    <3> QED
      BY <3>3, <3>4
  <2> QED
    BY <1>1, <2>1, <2>6, <2>7, <2>8, <2>9, GoesOn DEF Inv
<1>4. CASE ~Iterates
  <2> DEFINE g == [path |-> at, consolidated |-> consolidated]
  <2>1. Ends(node) /\ group' \in {group, g} /\ UNCHANGED node
    BY <1>4 DEF Opened, Iterates
  <2>2. group' \in Groups \cup {NoGroup}
    BY <1>2, <2>1 DEF TypeOK, Groups
  <2>3. answer' = node /\ UNCHANGED <<world, op, at, consolidated>>
    BY <2>1 DEF Ends
  <2>4. FailsForCause' /\ NothingHidden'
    BY <1>1, <2>3 DEF FailsForCause, NothingHidden
  <2>5. NothingInvented'
    BY <1>1, <1>4, <2>3 DEF NothingInvented, Is, Iterates
  <2>6. AttrsOwn'
    BY <2>3 DEF AttrsOwn, Is
  <2> QED
    BY <1>1, <1>2, <1>4, <2>1, <2>2, <2>4, <2>5, <2>6, EndsInv DEF AnswersAreTheStores, TypeOK
<1> QED
  BY <1>3, <1>4

LEMMA ReadsZattrsInv ==
  ASSUME Inv, ReadsZattrs
  PROVE  Inv'
<1> DEFINE k == Key(at, ".zattrs")
           direct(res) == IF consolidated /\ op \in Opens
                          THEN res = (IF k \in world.entries THEN "value" ELSE "absent") /\ UNCHANGED faulted
                          ELSE GetsMeta(k, res)
<1>1. PICK res \in {"value", "absent", "failed"} :
        /\ direct(res)
        /\ \/ /\ Sound(k, res) \/ res = "absent"
              /\ attrs' = IF res = "value" THEN "own" ELSE "empty"
              /\ Opened
           \/ /\ Unsound(k, res)
              /\ Throws("failed")
  BY DEF ReadsZattrs
<1>2. pc = "zattrs" /\ TypeOK
  BY DEF ReadsZattrs, Inv
<1>3. \/ Told(k, res)
      \/ /\ consolidated /\ op \in Opens /\ UNCHANGED faulted
         /\ \/ res = "value" /\ k \in world.entries
            \/ res = "absent" /\ k \notin world.entries
  BY <1>1, <1>2, GetsMetaTells
<1>4. faulted' \in BOOLEAN /\ (faulted => faulted')
  BY <1>2, <1>3 DEF Told, TypeOK
<1>5. CASE (Sound(k, res) \/ res = "absent") /\ attrs' = (IF res = "value" THEN "own" ELSE "empty") /\ Opened
  <2>1. res \in {"value", "absent"}
    BY <1>5 DEF Sound
  <2>2. \/ attrs' = IF Is(at, ".zattrs") THEN "own" ELSE "empty"
        \/ consolidated /\ op \in Opens /\ Key(at, ".zattrs") \notin world.entries
    BY <1>2, <1>3, <1>5, <2>1, WorldFacts DEF Told, Is
  <2> QED
    BY <1>2, <1>4, <1>5, <2>2, OpenedNodeInv
<1>6. CASE Unsound(k, res) /\ Throws("failed")
  <2>1. UNCHANGED <<world, op, at, consolidated>>
    BY <1>6 DEF Throws, Ends
  <2>2. k.path = at
    BY DEF Key
  <2>3. faulted' \/ (world.store = "fs" /\ BlockedByFile(k)) \/ k \in world.corrupt
    BY <1>3, <1>6 DEF Unsound, Told
  <2>4. Cause'
    BY <2>1, <2>2, <2>3, SamePath DEF Cause, BlockedByFile
  <2> QED
    BY <1>2, <1>4, <1>6, <2>4, ThrowsInv
<1> QED
  BY <1>1, <1>5, <1>6

LEMMA ListsChildrenInv ==
  ASSUME Inv, ListsChildren
  PROVE  Inv'
<1>1. PICK res \in {"value", "failed"} : \E names \in SUBSET Names :
       /\ Lists(at, res, names)
       /\ \/ /\ res = "value"
             /\ pc' = "next" /\ todo' = names
             /\ UNCHANGED <<world, group, op, at, consolidated, asked, opened, node, attrs, answer>>
          \/ res = "failed" /\ Throws("failed")
  BY DEF ListsChildren
<1>2. PICK names \in SUBSET Names :
       /\ Lists(at, res, names)
       /\ \/ /\ res = "value"
             /\ pc' = "next" /\ todo' = names
             /\ UNCHANGED <<world, group, op, at, consolidated, asked, opened, node, attrs, answer>>
          \/ res = "failed" /\ Throws("failed")
  BY <1>1
<1>3. /\ pc = "children" /\ TypeOK /\ answer = "none"
      /\ op \in Yields /\ ~consolidated /\ at = group.path /\ group # NoGroup /\ Iterates
  BY DEF ListsChildren, Inv, CallInv, Iterates
<1>4. faulted' \in BOOLEAN /\ (faulted => faulted')
  BY <1>2, <1>3 DEF Lists, TypeOK
<1>5. CASE /\ res = "value" /\ pc' = "next" /\ todo' = names
           /\ UNCHANGED <<world, group, op, at, consolidated, asked, opened, node, attrs, answer>>
  <2>1. TypeOK' /\ CallInv'
    BY <1>3, <1>4, <1>5 DEF TypeOK, CallInv, Iterates
  <2>2. OpenedInv'
    BY <1>5 DEF Inv, OpenedInv, Iterates, Is, Child, Sought
  <2>3. LoopInv'
    <3> SUFFICES ASSUME NEW n \in Wanted', Is(Child(n), Sought)' PROVE Accounted(n)'
      BY DEF LoopInv
    <3>1. n \in Names /\ Key(Append(at, n), Sought) \in world.tree
      BY <1>3, <1>5 DEF Wanted, Is, Child, Sought, Yields
    <3>2. at \in Paths
      BY <1>3 DEF TypeOK
    <3>3. n \in Children(world.tree, at)
      BY <3>1, <3>2, ChildListed
    <3>4. n \in names \/ (faulted' /\ world.store = "fs")
      BY <1>2, <1>5, <3>3 DEF Lists
    <3> QED
      BY <1>3, <1>5, <3>4 DEF Accounted, ListSwallowed
  <2> QED
    BY <1>3, <1>5, <2>1, <2>2, <2>3, GoesOn DEF Inv
<1>6. CASE res = "failed" /\ Throws("failed")
  <2>1. UNCHANGED <<world, op, at, consolidated>>
    BY <1>6 DEF Throws, Ends
  <2>2. Cause'
    BY <1>2, <1>3, <1>6, <2>1 DEF Lists, Cause
  <2> QED
    BY <1>3, <1>4, <1>6, <2>2, ThrowsInv
<1> QED
  BY <1>2, <1>5, <1>6

LEMMA NextNameInv ==
  ASSUME Inv, NextName
  PROVE  Inv'
<1>1. pc = "next" /\ UNCHANGED faulted /\ Iterates /\ TypeOK /\ group # NoGroup /\ answer = "none"
  BY DEF NextName, Inv, CallInv
<1>2. CASE todo = {} /\ Ends("listed") /\ UNCHANGED <<group, node, attrs>>
  <2>1. answer' = "listed" /\ UNCHANGED <<world, op, at, consolidated, todo, asked, opened>>
    BY <1>2 DEF Ends
  <2>2. \A n \in Wanted : Is(Child(n), Sought) => Accounted(n)
    BY <1>1 DEF Inv, LoopInv
  <2>3. NothingHidden'
    <3>1. ASSUME op \in Yields, ~HasSwallowed, ~ListSwallowed, NEW n \in Names, Is(Child(n), Sought)
          PROVE  n \in opened \/ (consolidated /\ n \notin Children(world.entries, group.path))
      BY <1>1, <1>2, <2>2, <3>1 DEF Accounted, Wanted, Yields
    <3>2. ASSUME op = "readMultiple", ~faulted, NEW n \in asked, Is(Child(n), ".zarray")
          PROVE  n \in opened \/ \E k \in world.corrupt : k.path = Child(n)
      BY <1>1, <1>2, <2>2, <3>2 DEF Accounted, Wanted, Yields, Sought
    <3>3. UNCHANGED <<world, group, op, consolidated, asked, opened, faulted>>
      BY <1>1, <1>2, <2>1
    <3> QED
      BY <2>1, <3>1, <3>2, <3>3 DEF NothingHidden, Is, Child, Sought, HasSwallowed, ListSwallowed
  <2>4. NothingInvented' /\ AttrsOwn' /\ FailsForCause'
    BY <1>1, <1>2, <2>1 DEF Inv, OpenedInv, Iterates, NothingInvented, AttrsOwn, FailsForCause, Is, Child, Sought
  <2> QED
    BY <1>1, <1>2, <2>3, <2>4, EndsInv DEF AnswersAreTheStores, TypeOK
<1>3. ASSUME NEW n \in todo,
             todo' = todo \ {n}, at' = Append(group.path, n),
             pc' = IF op = "readMultiple" THEN "zarray" ELSE "has",
             UNCHANGED <<world, group, op, consolidated, asked, opened, node, attrs, answer>>
      PROVE  Inv'
  <2>1. n \in Names /\ group.path \in Paths /\ at' \in Paths
    BY <1>1, <1>3, ChildTypes DEF TypeOK, Groups
  <2>2. TypeOK'
    BY <1>1, <1>3, <2>1 DEF TypeOK
  <2>3. CallInv'
    BY <1>1, <1>3, <2>1 DEF CallInv, Iterates, Child, Yields
  <2>4. OpenedInv'
    BY <1>3 DEF Inv, OpenedInv, Iterates, Is, Child, Sought
  <2>5. LoopInv'
    <3> SUFFICES ASSUME NEW m \in Wanted', Is(Child(m), Sought)' PROVE Accounted(m)'
      BY DEF LoopInv
    <3>1. m \in Wanted /\ Is(Child(m), Sought)
      BY <1>3 DEF Wanted, Is, Child, Sought
    <3>2. Accounted(m)
      BY <1>1, <3>1 DEF Inv, LoopInv
    <3> QED
      BY <1>1, <1>3, <3>2 DEF Accounted, Child, HasSwallowed, ListSwallowed
  <2> QED
    BY <1>1, <1>3, <2>2, <2>3, <2>4, <2>5, GoesOn DEF Inv
<1> QED
  BY <1>2, <1>3 DEF NextName

LEMMA ProbesInv ==
  ASSUME Inv, Probes
  PROVE  Inv'
<1> DEFINE leaf == IF op = "groups" THEN ".zgroup" ELSE ".zarray"
           to(res) == IF res = "absent" THEN "next" ELSE IF op = "arrays" THEN "zarray" ELSE "zgroup"
<1>1. PICK res \in {"value", "absent", "failed"} :
       /\ HasMeta(Key(at, leaf), res)
       /\ \/ /\ op = "contains" /\ res # "failed"
             /\ node' = (IF res = "value" THEN "array" ELSE "none") /\ UNCHANGED attrs
             /\ Proceeds("hasGroup")
          \/ /\ op \in Yields /\ res # "failed"
             /\ UNCHANGED <<node, attrs>>
             /\ Proceeds(to(res))
          \/ res = "failed" /\ Throws("failed")
  BY DEF Probes
<1>2. HasTold(Key(at, leaf), res) /\ pc = "has" /\ TypeOK /\ CallInv
  BY <1>1, HasMetaTells DEF Probes, Inv
<1>3. op \in Yields \cup {"contains"} /\ faulted' \in BOOLEAN /\ (faulted => faulted')
  BY <1>2 DEF CallInv, HasTold
<1>4. CASE op = "contains" /\ res # "failed" /\ node' = (IF res = "value" THEN "array" ELSE "none")
             /\ UNCHANGED attrs /\ Proceeds("hasGroup")
  <2>1. TypeOK'
    BY <1>2, <1>3, <1>4 DEF Proceeds, TypeOK
  <2>2. leaf = ".zarray" /\ res \in {"value", "absent"}
    BY <1>1, <1>4
  <2>3. CallInv'
    BY <1>2, <1>4, <2>2 DEF Proceeds, CallInv, Iterates, Yields, HasTold, HasSwallowed, Is
  <2>4. ~Iterates
    BY <1>4 DEF Iterates, Yields
  <2> QED
    BY <1>2, <1>3, <1>4, <2>1, <2>3, <2>4, ProceedsInv
<1>5. CASE op \in Yields /\ res # "failed" /\ UNCHANGED <<node, attrs>> /\ Proceeds(to(res))
  <2>1. TypeOK' /\ op \in {"arrays", "groups"} /\ Iterates
    BY <1>2, <1>3, <1>5 DEF Proceeds, TypeOK, Yields, Iterates
  <2>2. CallInv'
    BY <1>1, <1>2, <1>5, <2>1 DEF Proceeds, CallInv, Iterates, Yields, HasTold, Is, Child
  <2>3. ASSUME to(res) = "next", NEW n \in Wanted, at = Child(n), Is(at, Sought)
        PROVE  Accounted(n)'
    <3>1. res = "absent" /\ leaf = Sought
      BY <2>3 DEF Sought
    <3>2. faulted' /\ ~world.context /\ world.store \in {"fs", "http"}
      BY <1>2, <2>3, <3>1 DEF HasTold, Is
    <3> QED
      BY <1>5, <3>2 DEF Proceeds, Accounted, HasSwallowed
  <2> QED
    BY <1>2, <1>3, <1>5, <2>1, <2>2, <2>3, ProceedsInv
<1>6. CASE res = "failed" /\ Throws("failed")
  <2>1. UNCHANGED <<world, op, at, consolidated>>
    BY <1>6 DEF Throws, Ends
  <2>2. Cause'
    BY <1>2, <1>6, <2>1, SamePath DEF HasTold, Cause, BlockedByFile
  <2> QED
    BY <1>2, <1>3, <1>6, <2>2, ThrowsInv
<1> QED
  BY <1>1, <1>4, <1>5, <1>6

LEMMA ProbesGroupInv ==
  ASSUME Inv, ProbesGroup
  PROVE  Inv'
<1> DEFINE ans(res) == IF node = "array" \/ res = "value" THEN "true" ELSE "false"
<1>1. PICK res \in {"value", "absent", "failed"} :
       /\ HasMeta(Key(at, ".zgroup"), res)
       /\ \/ /\ res # "failed"
             /\ Ends(ans(res))
             /\ UNCHANGED <<group, node, attrs>>
          \/ res = "failed" /\ Throws("failed")
  BY DEF ProbesGroup
<1>2. HasTold(Key(at, ".zgroup"), res) /\ pc = "hasGroup" /\ TypeOK /\ CallInv
  BY <1>1, HasMetaTells DEF ProbesGroup, Inv
<1>3. /\ op = "contains" /\ faulted' \in BOOLEAN /\ (faulted => faulted')
      /\ node = "array" => Key(at, ".zarray") \in world.tree
      /\ node # "array" => ~Is(at, ".zarray") \/ HasSwallowed
  BY <1>2 DEF CallInv, HasTold
<1>4. CASE res # "failed" /\ Ends(ans(res)) /\ UNCHANGED <<group, node, attrs>>
  <2>1. answer' = ans(res) /\ UNCHANGED <<world, group, op, at>>
    BY <1>4 DEF Ends
  <2>2. NothingHidden'
    BY <1>1, <1>2, <1>3, <1>4, <2>1 DEF NothingHidden, HasTold, HasSwallowed, Is
  <2>3. NothingInvented'
    BY <1>1, <1>2, <1>3, <1>4, <2>1 DEF NothingInvented, HasTold, Yields
  <2>4. AttrsOwn' /\ FailsForCause'
    BY <2>1 DEF AttrsOwn, FailsForCause
  <2>5. ans(res) \in {"true", "false"}
    OBVIOUS
  <2>6. group \in Groups \cup {NoGroup} /\ node \in {"none", "array", "group"} /\ attrs \in {"own", "empty"}
    BY <1>2 DEF TypeOK
  <2> QED
    BY <1>3, <1>4, <2>2, <2>3, <2>4, <2>5, <2>6, EndsInv DEF AnswersAreTheStores
<1>5. CASE res = "failed" /\ Throws("failed")
  <2>1. UNCHANGED <<world, op, at, consolidated>>
    BY <1>5 DEF Throws, Ends
  <2>2. Cause'
    BY <1>2, <1>5, <2>1, SamePath DEF HasTold, Cause, BlockedByFile
  <2> QED
    BY <1>2, <1>3, <1>5, <2>2, ThrowsInv
<1> QED
  BY <1>1, <1>4, <1>5

------------------------------------------------------------------------------

LEMMA StepInv == Inv /\ [Next]_vars => Inv'
<1> SUFFICES ASSUME Inv, [Next]_vars PROVE Inv'
  OBVIOUS
<1>1. ASSUME NEW o \in Opens, NEW p \in OpenPaths, OpenRefused(o, p) \/ OpenCalled(o, p) PROVE Inv'
  BY <1>1, OpenRefusedInv, OpenCalledInv
<1>2. ASSUME NEW o \in {"getArray", "getGroup", "contains"}, NEW n \in Names, ChildCalled(o, n) PROVE Inv'
  BY <1>2, ChildCalledInv
<1>3. ASSUME NEW o \in Yields, IterationCalled(o) PROVE Inv'
  BY <1>3, IterationCalledInv
<1>4. ASSUME NEW names \in SUBSET Names, MultipleCalled(names) PROVE Inv'
  BY <1>4, MultipleCalledInv
<1>5. CASE OpeningStep
  BY <1>5, ReadsZarrayInv, ReadsZgroupInv, ReadsZmetadataInv, ReadsZattrsInv, ListsChildrenInv,
     NextNameInv, ProbesInv, ProbesGroupInv DEF OpeningStep
<1>6. CASE UNCHANGED vars
  BY <1>6 DEF vars, Inv, TypeOK, CallInv, LoopInv, OpenedInv, AnswersAreTheStores, NothingHidden,
              NothingInvented, AttrsOwn, FailsForCause, Iterates, Accounted, Wanted, Is, Child, Sought,
              HasSwallowed, ListSwallowed, BlockedByFile
<1> QED
  BY <1>1, <1>2, <1>3, <1>4, <1>5, <1>6 DEF Next

\* The inductive invariant holds in every reachable state.
THEOREM Invariance == Spec => []Inv
<1> QED
  BY InitInv, StepInv, PTL DEF Spec

\* What is in the store is found and what is found is in the store, for every tree,
\* .zmetadata, kind of store and sequence of calls and faults.
THEOREM OpeningTruthful == Spec => []AnswersAreTheStores
<1>1. Inv => AnswersAreTheStores
  BY DEF Inv
<1> QED
  BY <1>1, Invariance, PTL
------------------------------------------------------------------------------
(* GridIndex *)

\* getArray() is under way, or over.
GettingArray ==
  /\ op = "getArray"
  /\ \/ pc = "zarray"
     \/ pc = "zattrs" /\ node = "array"
     \/ pc = "idle" /\ answer \in {"array", "absent", "failed"}

\* Of the first n cells of the grid, the one found is the first of the nearest.
FoundAmong(n) ==
  LET known == {k \in 1..n : grid.distances[k] # NaN}
  IN IF known = {} THEN bestCell = 0 /\ best = Infinity
     ELSE /\ bestCell + 1 \in known
          /\ best = grid.distances[bestCell + 1]
          /\ \A k \in known : best < grid.distances[k] \/ (best = grid.distances[k] /\ bestCell < k)

\* The arrays make a grid.
Shaped == {"corner", "lookup", "read", "write", "loaded", "scan", "found"}

\* The grid is there.
Loaded == {"write", "loaded", "scan", "found"}

GridTypes ==
  /\ gstep \in {"none", "lat", "lon", "failed"} \cup Shaped
  /\ load \in {"none"} \cup Loads /\ gridFault \in BOOLEAN
  /\ dataset \in Datasets \cup {NoDataset}
  /\ entry \in {NoEntry, Unreadable} \cup {GridOf(e) : e \in {d \in Datasets : Griddable(d)}}
  /\ grid \in {NoGrid} \cup {GridOf(e) : e \in {d \in Datasets : Griddable(d)}}
  /\ cell \in 0..(grid.ny * grid.nx) /\ bestCell \in 0..cell
  /\ best \in 0..Infinity

FailedForCause ==
  \/ gridFault
  \/ answer \in {"absent", "failed"}
  \/ ~Griddable(dataset) \/ dataset.bigint

\* The datasets that share the entry, and their grids.
Sharers(d) == {e \in Datasets : Griddable(e) /\ ~e.bigint /\ GridKey(e) = GridKey(d)}
Snapshots(d) == {GridOf(e) : e \in Sharers(d)}

\* The cache and the grid only ever hold grids of datasets that share the key.
GridInv ==
  /\ GridTypes
  /\ gstep # "none" => dataset \in Datasets /\ entry \in {NoEntry, Unreadable} \cup Snapshots(dataset)
  /\ gstep \in {"lat", "lon"} => GettingArray
  /\ gstep \in Shaped => Griddable(dataset)
  /\ gstep \in Loaded => grid \in Snapshots(dataset)
  /\ gstep = "failed" => FailedForCause
  /\ gstep \in {"scan", "found"} => FoundAmong(cell)
  /\ gstep = "found" => cell = grid.ny * grid.nx
  /\ gstep \in {"none", "lat", "lon", "corner", "lookup", "read", "write", "loaded"} => cell = 0 /\ bestCell = 0

\* Every step of a load is a step of Opening or leaves its state alone.
LEMMA OpeningSteps == [GroupNext]_allVars => [Next]_vars
<1> SUFFICES ASSUME [GroupNext]_allVars PROVE [Next]_vars
  OBVIOUS
<1>1. ASSUME NEW n \in Names, ChildCalled("getArray", n) PROVE Next
  BY <1>1 DEF Next
<1>2. Lat \in Names /\ Lon \in Names
  BY CoordinatesAssumption
<1>3. ASSUME NEW d \in Datasets, NEW how, NEW found, GridCalled(d, how, found) PROVE Next
  BY <1>1, <1>2, <1>3 DEF GridCalled
<1>4. CASE GridStep
  <2>1. CASE OpensArray
    BY <2>1 DEF OpensArray, Next
  <2>2. CASE LatOpened
    BY <1>1, <1>2, <2>2 DEF LatOpened
  <2>3. CASE \/ GridRefused \/ LonOpened \/ ReadsCorner \/ LookupHits \/ LookupMisses \/ ReadsGrid
             \/ ReadFails \/ Writes \/ OtherPod \/ NearestCalled \/ LooksAtCell \/ Nearest
    BY <2>3 DEF GridRefused, LonOpened, ReadsCorner, LookupHits, LookupMisses, ReadsGrid, ReadFails,
                Writes, OtherPod, NearestCalled, LooksAtCell, Nearest, Goes
  <2> QED
    BY <1>4, <2>1, <2>2, <2>3 DEF GridStep
<1> QED
  BY <1>3, <1>4 DEF GroupNext, allVars

\* Loading a grid is one more use of open groups: what holds of Opening holds there.
THEOREM ImplementsOpening == GroupSpec => Spec
<1>1. GroupInit => Init
  BY DEF GroupInit
<1> QED
  BY <1>1, OpeningSteps, PTL DEF GroupSpec, Spec

\* What is opened while grids are loaded is what the store has.
THEOREM GroupsTruthful == GroupSpec => []AnswersAreTheStores
<1> QED
  BY ImplementsOpening, OpeningTruthful, PTL

------------------------------------------------------------------------------
(* Grids *)

Cells(g) == g.ny * g.nx

LEMMA GridFacts ==
  ASSUME NEW d \in Datasets, Griddable(d)
  PROVE  /\ Cells(GridOf(d)) \in Nat
         /\ \A k \in 1..Cells(GridOf(d)) :
              GridOf(d).distances[k] = NaN \/ (GridOf(d).distances[k] \in Nat /\ GridOf(d).distances[k] < Infinity)
<1>1. /\ d.lat \in Seq(Nat) /\ Len(d.lat) = 2
      /\ d.distances \in Seq(Nat \cup {NaN}) /\ Len(d.distances) = d.lat[1] * d.lat[2]
      /\ \A k \in DOMAIN d.distances : d.distances[k] \in Nat => d.distances[k] < Infinity
  BY DatasetsAssumption DEF Griddable, IsDataset
<1>2. d.lat[1] \in Nat /\ d.lat[2] \in Nat
  BY <1>1
<1>3. Cells(GridOf(d)) = Len(d.distances) /\ GridOf(d).distances = d.distances
  BY <1>1 DEF Cells, GridOf
<1>4. Len(d.distances) \in Nat /\ DOMAIN d.distances = 1..Len(d.distances)
  BY <1>1
<1>5. \A k \in 1..Len(d.distances) : d.distances[k] \in Nat \cup {NaN}
  BY <1>1
<1> QED
  BY <1>1, <1>3, <1>4, <1>5

LEMMA SnapshotFacts ==
  ASSUME NEW d \in Datasets
  PROVE  /\ Snapshots(d) \subseteq {GridOf(e) : e \in {f \in Datasets : Griddable(f)}}
         /\ Griddable(d) /\ ~d.bigint => GridOf(d) \in Snapshots(d)
  BY DEF Snapshots, Sharers

\* Looking at one more cell.
LEMMA LooksFound ==
  ASSUME LooksAtCell, FoundAmong(cell), cell \in Nat, bestCell \in Nat, best \in 0..Infinity,
         grid.distances[cell + 1] = NaN
           \/ (grid.distances[cell + 1] \in Nat /\ grid.distances[cell + 1] < Infinity),
         \A k \in 1..cell : grid.distances[k] = NaN
           \/ (grid.distances[k] \in Nat /\ grid.distances[k] < Infinity)
  PROVE  FoundAmong(cell)' /\ best' \in 0..Infinity /\ bestCell' \in {bestCell, cell}
<1> DEFINE d == grid.distances[cell + 1]
           known == {k \in 1..cell : grid.distances[k] # NaN}
           known2 == {k \in 1..(cell + 1) : grid.distances[k] # NaN}
<1>1. /\ cell' = cell + 1 /\ grid' = grid
      /\ IF d # NaN /\ d < best THEN best' = d /\ bestCell' = cell ELSE best' = best /\ bestCell' = bestCell
  BY DEF LooksAtCell, Nearer
<1>2. Infinity \in Nat /\ NaN \notin Nat
  BY NumbersAssumption
<1>3. known2 = IF d = NaN THEN known ELSE known \cup {cell + 1}
  <2>1. 1..(cell + 1) = (1..cell) \cup {cell + 1}
    OBVIOUS
  <2> QED
    BY <2>1
<1>4. IF known = {} THEN bestCell = 0 /\ best = Infinity
      ELSE /\ bestCell + 1 \in known
           /\ best = grid.distances[bestCell + 1]
           /\ \A k \in known : best < grid.distances[k] \/ (best = grid.distances[k] /\ bestCell < k)
  BY DEF FoundAmong
<1>5. \A k \in known : k \in 1..cell /\ grid.distances[k] \in Nat /\ grid.distances[k] < Infinity
  OBVIOUS
<1>6. IF known2 = {} THEN bestCell' = 0 /\ best' = Infinity
      ELSE /\ bestCell' + 1 \in known2
           /\ best' = grid.distances[bestCell' + 1]
           /\ \A k \in known2 : best' < grid.distances[k] \/ (best' = grid.distances[k] /\ bestCell' < k)
  <2>1. CASE d = NaN
    <3>1. known2 = known /\ best' = best /\ bestCell' = bestCell
      BY <1>1, <1>3, <2>1
    <3> HIDE DEF known, known2
    <3> QED
      BY <3>1, <1>4
  <2>2. CASE d # NaN /\ d < best
    <3>1. known2 = known \cup {cell + 1} /\ best' = d /\ bestCell' = cell /\ d \in Nat
      BY <1>1, <1>3, <2>2
    <3>2. ASSUME NEW k \in known2 PROVE d < grid.distances[k] \/ (d = grid.distances[k] /\ cell < k)
      <4>1. CASE k = cell + 1
        BY <4>1, <3>1
      <4>2. CASE k \in known
        <5>1. known # {} /\ best <= grid.distances[k] /\ grid.distances[k] \in Nat
          <6> HIDE DEF known
          <6> QED
            BY <1>4, <1>5, <4>2
        <5> QED
          BY <2>2, <3>1, <5>1
      <4> QED
        BY <3>1, <4>1, <4>2
    <3>3. bestCell' + 1 \in known2 /\ known2 # {}
      BY <3>1
    <3> HIDE DEF known, known2
    <3> QED
      BY <3>1, <3>2, <3>3
  <2>3. CASE d # NaN /\ ~(d < best)
    <3>1. known2 = known \cup {cell + 1} /\ best' = best /\ bestCell' = bestCell /\ d \in Nat /\ d < Infinity
      BY <1>1, <1>3, <2>3
    <3>2. known # {}
      <4> HIDE DEF known
      <4> QED
        BY <1>2, <1>4, <2>3, <3>1
    <3>3. /\ bestCell + 1 \in known /\ best = grid.distances[bestCell + 1]
          /\ \A k \in known : best < grid.distances[k] \/ (best = grid.distances[k] /\ bestCell < k)
      <4> HIDE DEF known
      <4> QED
        BY <1>4, <3>2
    <3>4. bestCell + 1 <= cell
      BY <1>5, <3>3
    <3>5. best < d \/ (best = d /\ bestCell < cell + 1)
      BY <1>2, <2>3, <3>1, <3>4
    <3> HIDE DEF known, known2, d
    <3>6. \A k \in known2 : best < grid.distances[k] \/ (best = grid.distances[k] /\ bestCell < k)
      BY <3>1, <3>3, <3>5 DEF d
    <3> QED
      BY <3>1, <3>3, <3>6
  <2> QED
    BY <2>1, <2>2, <2>3
<1>7. FoundAmong(cell)'
  <2> HIDE DEF known2
  <2> QED
    BY <1>1, <1>6 DEF FoundAmong, known2
<1> QED
  BY <1>1, <1>2, <1>7

------------------------------------------------------------------------------
(* The load *)

LEMMA GridInitInv == GroupInit => GridInv
<1> SUFFICES ASSUME GroupInit PROVE GridInv
  OBVIOUS
<1>1. GridTypes
  <2>1. /\ grid = NoGrid /\ cell = 0 /\ bestCell = 0 /\ best = Infinity /\ Infinity \in Nat
        /\ entry = NoEntry /\ dataset = NoDataset /\ gstep = "none" /\ load = "none" /\ gridFault = FALSE
    BY NumbersAssumption DEF GroupInit, GridInit
  <2>2. grid.ny * grid.nx = 0
    BY <2>1 DEF NoGrid
  <2>3. cell \in 0..(grid.ny * grid.nx) /\ bestCell \in 0..cell
    BY <2>1, <2>2
  <2>4. best \in 0..Infinity
    BY <2>1
  <2>5. gridFault \in BOOLEAN
    BY DEF GroupInit, GridInit
  <2> QED
    BY <2>1, <2>3, <2>4, <2>5 DEF GridTypes, Loads
<1> QED
  BY <1>1 DEF GroupInit, GridInit, GridInv, Shaped, Loaded

\* A step of getArray().
LEMMA ArrayStep ==
  ASSUME GettingArray, OpeningStep
  PROVE  GettingArray'
<1>1. ReadsZarray \/ (ReadsZattrs /\ node = "array")
  BY DEF GettingArray, OpeningStep, ReadsZarray, ReadsZgroup, ReadsZmetadata, ReadsZattrs, ListsChildren,
         NextName, Probes, ProbesGroup
<1>2. ASSUME NEW ans \in {"absent", "failed"}, Throws(ans) PROVE GettingArray'
  BY <1>2 DEF GettingArray, Throws, Ends
<1>3. CASE ReadsZarray
  <2>1. \/ node' = "array" /\ Proceeds("zattrs")
        \/ Throws("absent") \/ Throws("failed")
    BY <1>3 DEF ReadsZarray, GettingArray
  <2> QED
    BY <1>2, <2>1 DEF GettingArray, Proceeds
<1>4. CASE ReadsZattrs /\ node = "array"
  <2>1. Opened \/ Throws("failed")
    BY <1>4 DEF ReadsZattrs
  <2>2. CASE Opened
    BY <1>4, <2>2 DEF GettingArray, Opened, Ends, Yields
  <2> QED
    BY <1>2, <2>1, <2>2
<1> QED
  BY <1>1, <1>3, <1>4

\* The call of getArray().
LEMMA ArrayCalled ==
  ASSUME NEW n, ChildCalled("getArray", n)
  PROVE  GettingArray'
  BY DEF ChildCalled, Begins, GettingArray

LEMMA GridStepInv ==
  ASSUME GridInv, [GroupNext]_allVars
  PROVE  GridInv'
<1> DEFINE grids == {GridOf(e) : e \in {d \in Datasets : Griddable(d)}}
<1>1. Infinity \in Nat
  BY NumbersAssumption
<1>2. CASE UNCHANGED gridVars /\ (gstep = "none" \/ UNCHANGED vars)
  <2>1. GridTypes'
    BY <1>2 DEF GridInv, GridTypes, gridVars, Shaped
  <2>2. gstep \in {"lat", "lon"} => GettingArray'
    BY <1>2 DEF GridInv, GettingArray, vars
  <2>3. gstep = "failed" => FailedForCause'
    BY <1>2 DEF GridInv, FailedForCause, vars, gridVars
  <2>4. gstep \in {"scan", "found"} => FoundAmong(cell)'
    BY <1>2 DEF GridInv, FoundAmong, gridVars
  <2> QED
    BY <1>2, <2>1, <2>2, <2>3, <2>4 DEF GridInv, gridVars, Snapshots, Sharers
<1>3. CASE OpensArray
  <2>1. gstep \in {"lat", "lon"} /\ OpeningStep /\ UNCHANGED gridVars
    BY <1>3 DEF OpensArray
  <2>2. GettingArray'
    BY <2>1, ArrayStep DEF GridInv
  <2>3. GridTypes'
    BY <2>1 DEF GridInv, GridTypes, gridVars, Shaped
  <2> QED
    BY <2>1, <2>2, <2>3 DEF GridInv, gridVars, Shaped, Loaded
<1>4. ASSUME NEW d \in Datasets, NEW how \in Loads, NEW found \in {NoEntry, Unreadable},
             GridCalled(d, how, found)
      PROVE  GridInv'
  <2>1. GettingArray'
    BY <1>4, ArrayCalled DEF GridCalled
  <2>2. GridTypes'
    BY <1>4 DEF GridInv, GridTypes, GridCalled
  <2> QED
    BY <1>4, <2>1, <2>2 DEF GridInv, GridCalled, Shaped, Loaded
<1>5. CASE LatOpened
  <2>1. GettingArray'
    BY <1>5, ArrayCalled DEF LatOpened
  <2>2. GridTypes'
    BY <1>5 DEF GridInv, GridTypes, LatOpened
  <2> QED
    BY <1>5, <2>1, <2>2 DEF GridInv, LatOpened, Shaped, Loaded
<1>6. CASE GridRefused
  <2>1. /\ gstep \in {"lat", "lon"} /\ gstep' = "failed" /\ pc = "idle" /\ UNCHANGED vars
        /\ UNCHANGED <<load, dataset, entry, grid, cell, best, bestCell, gridFault>>
        /\ answer = "array" => ~Griddable(dataset)
    BY <1>6 DEF GridRefused, Goes
  <2>2. answer \in {"array", "absent", "failed"}
    BY <2>1 DEF GridInv, GettingArray
  <2>3. FailedForCause'
    BY <2>1, <2>2 DEF FailedForCause, vars
  <2>4. GridTypes'
    BY <2>1 DEF GridInv, GridTypes
  <2> QED
    BY <2>1, <2>3, <2>4 DEF GridInv, Shaped, Loaded
<1>7. CASE LonOpened \/ LookupMisses
  <2>1. /\ gstep # "none" /\ gstep' \in {"corner", "lookup", "read"} /\ Griddable(dataset)
        /\ gstep \in {"lon", "lookup"}
        /\ UNCHANGED <<load, dataset, entry, grid, cell, best, bestCell, gridFault>>
    BY <1>7 DEF LonOpened, LookupMisses, Goes, Source, GridInv, Shaped
  <2>2. GridTypes'
    BY <2>1 DEF GridInv, GridTypes, Shaped
  <2> QED
    BY <2>1, <2>2 DEF GridInv, Shaped, Loaded
<1>8. CASE ReadsCorner \/ ReadFails
  <2>1. /\ gstep \in {"corner", "read"} /\ UNCHANGED <<load, dataset, entry, grid, cell, best, bestCell>>
        /\ gridFault' \in BOOLEAN
        /\ \/ gstep' \in {"lookup", "read"}
           \/ gstep' = "failed" /\ (gridFault' \/ dataset.bigint)
    BY <1>8 DEF ReadsCorner, ReadFails, Goes, Source, GridInv, GridTypes
  <2>2. gstep' = "failed" => FailedForCause'
    BY <2>1 DEF FailedForCause
  <2>3. GridTypes'
    BY <2>1 DEF GridInv, GridTypes, Shaped
  <2> QED
    BY <2>1, <2>2, <2>3 DEF GridInv, Shaped, Loaded
<1>9. CASE LookupHits
  <2>1. /\ gstep = "lookup" /\ gstep' = "loaded" /\ grid' = entry /\ entry \in Snapshots(dataset)
        /\ UNCHANGED <<load, dataset, entry, cell, best, bestCell, gridFault>>
    BY <1>9 DEF LookupHits, Goes, GridInv
  <2>2. grid' \in grids /\ dataset \in Datasets
    BY <2>1, SnapshotFacts DEF GridInv
  <2>3. grid'.ny * grid'.nx \in Nat
    BY <2>2, GridFacts DEF Cells
  <2>4. GridTypes'
    BY <2>1, <2>2, <2>3 DEF GridInv, GridTypes, Shaped
  <2> QED
    BY <2>1, <2>4 DEF GridInv, Shaped, Loaded, Snapshots, Sharers
<1>10. CASE ReadsGrid
  <2>1. /\ gstep = "read" /\ gstep' \in {"write", "loaded"} /\ grid' = GridOf(dataset) /\ ~dataset.bigint
        /\ UNCHANGED <<load, dataset, entry, cell, best, bestCell, gridFault>>
    BY <1>10 DEF ReadsGrid, Goes
  <2>2. dataset \in Datasets /\ Griddable(dataset)
    BY <2>1 DEF GridInv, Shaped
  <2>3. grid' \in grids /\ grid' \in Snapshots(dataset)
    BY <2>1, <2>2, SnapshotFacts
  <2>4. grid'.ny * grid'.nx \in Nat
    BY <2>1, <2>2, GridFacts DEF Cells
  <2>5. GridTypes'
    BY <2>1, <2>3, <2>4 DEF GridInv, GridTypes, Shaped
  <2> QED
    BY <2>1, <2>3, <2>5 DEF GridInv, Shaped, Loaded, Snapshots, Sharers
<1>11. CASE Writes \/ OtherPod
  <2>0. OtherPod => entry' \in {NoEntry} \cup Snapshots(dataset)
    BY DEF OtherPod, Snapshots, Sharers
  <2>1. /\ gstep \in {"lat", "lon", "corner", "lookup", "read", "write"}
        /\ gstep' = gstep \/ (gstep = "write" /\ gstep' = "loaded")
        /\ UNCHANGED <<load, dataset, grid, cell, best, bestCell, gridFault>>
        /\ entry' \in {entry, NoEntry} \cup Snapshots(dataset)
    BY <1>11, <2>0 DEF Writes, OtherPod, Goes, GridInv, Loaded
  <2>4. gstep' \in {"lat", "lon"} => GettingArray'
    BY <1>11, <2>1 DEF Writes, OtherPod, Goes, GridInv, GettingArray, vars
  <2>2. dataset \in Datasets /\ Snapshots(dataset) \subseteq grids
    BY <2>1, SnapshotFacts DEF GridInv
  <2>3. GridTypes'
    BY <2>1, <2>2 DEF GridInv, GridTypes, Shaped
  <2> QED
    BY <2>1, <2>2, <2>3, <2>4 DEF GridInv, Shaped, Loaded, Snapshots, Sharers
<1>12. CASE NearestCalled \/ LooksAtCell \/ Nearest
  <2>1. /\ gstep \in {"loaded", "scan", "found"} /\ gstep' \in {"scan", "found"}
        /\ UNCHANGED <<load, dataset, entry, grid, gridFault>>
    BY <1>12 DEF NearestCalled, LooksAtCell, Nearest, Goes
  <2>2. grid \in grids /\ dataset \in Datasets
    BY <2>1, SnapshotFacts DEF GridInv, Loaded
  <2>3. /\ grid.ny * grid.nx \in Nat
        /\ \A k \in 1..(grid.ny * grid.nx) :
             grid.distances[k] = NaN \/ (grid.distances[k] \in Nat /\ grid.distances[k] < Infinity)
    BY <2>2, GridFacts DEF Cells
  <2> DEFINE size == grid.ny * grid.nx
  <2>4. size \in Nat
    BY <2>3
  <2>5. cell \in 0..size /\ bestCell \in 0..cell /\ best \in 0..Infinity
    BY DEF GridInv, GridTypes
  <2>6. /\ cell' \in 0..size /\ bestCell' \in 0..cell' /\ best' \in 0..Infinity /\ FoundAmong(cell)'
        /\ gstep' = "found" => cell' = size
    <3>1. CASE NearestCalled
      <4>1. cell' = 0 /\ best' = Infinity /\ bestCell' = 0 /\ gstep' = "scan"
        BY <3>1 DEF NearestCalled, Goes
      <4>2. 1..0 = {}
        OBVIOUS
      <4>3. FoundAmong(cell)'
        BY <4>1, <4>2 DEF FoundAmong
      <4> HIDE DEF size
      <4> QED
        BY <1>1, <2>4, <4>1, <4>3
    <3>2. CASE LooksAtCell
      <4>1. gstep = "scan" /\ gstep' = gstep /\ cell < size /\ cell' = cell + 1
        BY <3>2 DEF LooksAtCell
      <4>2. cell \in Nat /\ cell + 1 \in 1..size /\ bestCell \in Nat /\ (1..cell) \subseteq 1..size
        <5> HIDE DEF size
        <5> QED
          BY <2>4, <2>5, <4>1
      <4>3. FoundAmong(cell)' /\ best' \in 0..Infinity /\ bestCell' \in {bestCell, cell}
        BY <2>3, <2>5, <3>2, <4>1, <4>2, LooksFound DEF GridInv
      <4> HIDE DEF size
      <4> QED
        BY <2>4, <2>5, <4>1, <4>2, <4>3
    <3>3. CASE Nearest
      <4>1. cell = size /\ gstep = "scan" /\ UNCHANGED <<grid, cell, best, bestCell>>
        BY <3>3 DEF Nearest, Goes
      <4>2. FoundAmong(cell)'
        BY <4>1 DEF GridInv, FoundAmong
      <4> HIDE DEF size
      <4> QED
        BY <2>5, <4>1, <4>2
    <3> QED
      BY <1>12, <3>1, <3>2, <3>3
  <2>7. grid' = grid /\ gstep' \in {"scan", "found"} /\ gstep' \in Shaped /\ gstep' \in Loaded
    BY <2>1 DEF Shaped, Loaded
  <2>8. GridTypes'
    BY <2>1, <2>6, <2>7 DEF GridInv, GridTypes
  <2>9. Griddable(dataset) /\ grid \in Snapshots(dataset) /\ entry \in {NoEntry, Unreadable} \cup Snapshots(dataset)
    BY <2>1 DEF GridInv, Shaped, Loaded
  <2>10. Snapshots(dataset)' = Snapshots(dataset) /\ Griddable(dataset)' = Griddable(dataset)
    BY <2>1 DEF Snapshots, Sharers, Griddable
  <2> QED
    BY <2>1, <2>2, <2>6, <2>7, <2>8, <2>9, <2>10 DEF GridInv
<1> QED
  BY <1>2, <1>3, <1>4, <1>5, <1>6, <1>7, <1>8, <1>9, <1>10, <1>11, <1>12
     DEF GroupNext, GridStep, allVars

\* The inductive invariant holds in every reachable state.
THEOREM GridInvariance == GroupSpec => []GridInv
<1> QED
  BY GridInitInv, GridStepInv, PTL DEF GroupSpec

\* The variables of Opening and of the load keep their types: in particular the grid is
\* empty or a grid of some dataset, and the cell found is one that was looked at.
THEOREM GridTypeCorrectness == GroupSpec => []GridTypeOK
<1>1. Inv /\ GridInv => GridTypeOK
  BY DEF Inv, GridInv, GridTypes, GridTypeOK, Shaped
<1> QED
  BY <1>1, GridInvariance, ImplementsOpening, Invariance, PTL

\* nearest() finds the first of the nearest cells, whatever the grid's size, the
\* ties in it and the cells without coordinates.
THEOREM NearestCorrect == GroupSpec => []NearestExact
<1>1. GridInv => NearestExact
  BY DEF GridInv, FoundAmong, NearestExact
<1> QED
  BY <1>1, GridInvariance, PTL

\* Calls and loads fail for a cause of their own, never on account of the cache.
THEOREM GroupFailures == GroupSpec => []FailuresHaveCause
<1>1. Inv /\ GridInv => FailuresHaveCause
  BY DEF Inv, GridInv, FailedForCause, FailuresHaveCause
<1> QED
  BY <1>1, GridInvariance, ImplementsOpening, Invariance, PTL

------------------------------------------------------------------------------
(* Whose grid it is *)

\* Only a load with the cache looks into it; any other has what it reads itself.
OwnInv ==
  /\ gstep = "lookup" => load = "cached"
  /\ gstep \in Loaded /\ load # "cached" => grid = GridOf(dataset)

\* Every step preserves it.
LEMMA OwnStep ==
  ASSUME OwnInv, [GroupNext]_allVars
  PROVE  OwnInv'
<1>1. CASE UNCHANGED gridVars
  BY <1>1 DEF OwnInv, gridVars, Loaded
<1>2. ASSUME NEW d \in Datasets, NEW how, NEW found, GridCalled(d, how, found)
      PROVE  OwnInv'
  BY <1>2 DEF GridCalled, OwnInv, Loaded
<1>3. CASE OpensArray
  BY <1>3 DEF OpensArray, OwnInv, gridVars, Loaded
<1>4. CASE LatOpened \/ GridRefused \/ LonOpened \/ ReadsCorner \/ LookupMisses \/ ReadFails
  BY <1>4 DEF LatOpened, GridRefused, LonOpened, ReadsCorner, LookupMisses, ReadFails, Goes, Source,
              OwnInv, Loaded
<1>5. CASE LookupHits
  BY <1>5 DEF LookupHits, Goes, OwnInv, Loaded
<1>6. CASE ReadsGrid
  BY <1>6 DEF ReadsGrid, Goes, OwnInv, Loaded, GridOf
<1>7. CASE Writes \/ OtherPod \/ NearestCalled \/ LooksAtCell \/ Nearest
  BY <1>7 DEF Writes, OtherPod, NearestCalled, LooksAtCell, Nearest, Goes, OwnInv, Loaded, GridOf
<1> QED
  BY <1>1, <1>2, <1>3, <1>4, <1>5, <1>6, <1>7 DEF GroupNext, GridStep, allVars

\* The strings, of which the provers do not know that "-" is one.
Text == STRING \cup {"-"}

\* The library's facts about concatenation, for these sequences.
LEMMA TextConcat ==
  \A s, t \in Seq(Text) :
    /\ s \o t \in Seq(Text)
    /\ Len(s \o t) = Len(s) + Len(t)
    /\ \A k \in 1..(Len(s) + Len(t)) : (s \o t)[k] = IF k <= Len(s) THEN s[k] ELSE t[k - Len(s)]
BY ConcatProperties

\* The same of three sequences.
LEMMA TextAssociative ==
  \A s, t, u \in Seq(Text) : (s \o t) \o u = s \o (t \o u)
BY ConcatAssociative

\* Two parts joined with "-".
Dashed(a, b) == a \o <<"-">> \o b

\* Its elements.
LEMMA DashedFacts ==
  ASSUME NEW a \in Seq(Text), NEW b \in Seq(Text)
  PROVE  /\ Dashed(a, b) \in Seq(Text) /\ Dashed(a, b) # <<>>
         /\ Len(Dashed(a, b)) = Len(a) + 1 + Len(b)
         /\ \A k \in 1..Len(a) : Dashed(a, b)[k] = a[k]
         /\ Dashed(a, b)[Len(a) + 1] = "-"
         /\ \A k \in 1..Len(b) : Dashed(a, b)[Len(a) + 1 + k] = b[k]
<1> DEFINE dash == <<"-">>  h == a \o dash
<1>1. dash \in Seq(Text) /\ Len(dash) = 1
  <2>1. "-" \in Text
    BY DEF Text
  <2>2. \A s \in Text : <<s>> \in Seq(Text)
    OBVIOUS
  <2>3. \A s \in Text : Len(<<s>>) = 1
    OBVIOUS
  <2> QED
    BY <2>1, <2>2, <2>3
<1>2. dash[1] = "-"
  OBVIOUS
<1>3. Dashed(a, b) = h \o b
  BY DEF Dashed
<1> HIDE DEF dash
<1>4. h \in Seq(Text)
  BY <1>1, TextConcat
<1>5. Len(h) = Len(a) + 1
  <2>1. Len(a \o dash) = Len(a) + Len(dash)
    BY <1>1, TextConcat
  <2> QED
    BY <1>1, <2>1
<1>6. Len(a) \in Nat /\ Len(b) \in Nat
  OBVIOUS
<1>7. \A k \in 1..(Len(a) + 1) : h[k] = IF k <= Len(a) THEN a[k] ELSE dash[k - Len(a)]
  <2>1. \A k \in 1..(Len(a) + Len(dash)) :
          (a \o dash)[k] = IF k <= Len(a) THEN a[k] ELSE dash[k - Len(a)]
    BY <1>1, TextConcat, Zenon
  <2> QED
    BY <1>1, <2>1
<1>8. h[Len(a) + 1] = "-"
  <2>1. Len(a) + 1 \in 1..(Len(a) + 1) /\ ~(Len(a) + 1 <= Len(a)) /\ (Len(a) + 1) - Len(a) = 1
    BY <1>6
  <2>2. h[Len(a) + 1] = dash[(Len(a) + 1) - Len(a)]
    BY <1>7, <2>1
  <2> QED
    BY <1>2, <2>1, <2>2
<1>9. \A k \in 1..Len(a) : h[k] = a[k]
  BY <1>6, <1>7
<1> HIDE DEF h
<1>10. Dashed(a, b) \in Seq(Text)
  BY <1>3, <1>4, TextConcat
<1>11. Len(Dashed(a, b)) = Len(a) + 1 + Len(b)
  BY <1>3, <1>4, <1>5, TextConcat
<1>12. \A k \in 1..(Len(a) + 1 + Len(b)) :
         Dashed(a, b)[k] = IF k <= Len(a) + 1 THEN h[k] ELSE b[k - (Len(a) + 1)]
  BY <1>3, <1>4, <1>5, TextConcat
<1>13. \A k \in 1..Len(a) : Dashed(a, b)[k] = a[k]
  BY <1>6, <1>9, <1>12
<1>14. Dashed(a, b)[Len(a) + 1] = "-"
  BY <1>6, <1>8, <1>12
<1>15. \A k \in 1..Len(b) : Dashed(a, b)[Len(a) + 1 + k] = b[k]
  BY <1>6, <1>12
<1>16. Dashed(a, b) # <<>>
  BY <1>6, <1>11
<1> QED
  BY <1>10, <1>11, <1>13, <1>14, <1>15, <1>16

\* Joining three parts, in either order.
LEMMA DashedAssociative ==
  ASSUME NEW a \in Seq(Text), NEW b \in Seq(Text), NEW c \in Seq(Text)
  PROVE  Dashed(Dashed(a, b), c) = Dashed(a, Dashed(b, c))
<1> DEFINE dash == <<"-">>  ab == a \o dash  bc == dash \o c  all == ab \o b
<1>1. dash \in Seq(Text)
  <2>1. "-" \in Text
    BY DEF Text
  <2> QED
    BY <2>1
<1> HIDE DEF dash
<1>2. ab \in Seq(Text) /\ bc \in Seq(Text)
  BY <1>1, TextConcat
<1>3. (b \o dash) \o c = b \o bc
  BY <1>1, TextAssociative, Zenon
<1> HIDE DEF ab
<1>4. all \in Seq(Text)
  BY <1>2, TextConcat
<1> HIDE DEF all
<1>5. (all \o dash) \o c = all \o bc
  BY <1>1, <1>4, TextAssociative, Zenon
<1> HIDE DEF bc
<1>6. (ab \o b) \o bc = ab \o (b \o bc)
  <2>1. \A t, u \in Seq(Text) : (ab \o t) \o u = ab \o (t \o u)
    BY <1>2, TextAssociative, Zenon
  <2> QED
    BY <1>2, <2>1, Zenon
<1> QED
  BY <1>3, <1>5, <1>6 DEF Dashed, dash, ab, all

\* A part without a "-" ends at the first one,
LEMMA DashStops ==
  ASSUME NEW a \in Seq(Text), NEW b \in Seq(Text), NEW x \in Seq(Text), NEW y \in Seq(Text),
         \A k \in DOMAIN x : x[k] # "-",
         Dashed(a, b) = Dashed(x, y)
  PROVE  Len(x) <= Len(a)
<1> SUFFICES ASSUME Len(a) < Len(x) PROVE FALSE
  OBVIOUS
<1>1. Len(a) + 1 \in 1..Len(x) /\ Len(a) + 1 \in DOMAIN x
  OBVIOUS
<1>2. Dashed(a, b)[Len(a) + 1] = "-"
  BY DashedFacts
<1>3. \A k \in 1..Len(x) : Dashed(x, y)[k] = x[k]
  BY DashedFacts
<1> QED
  BY <1>1, <1>2, <1>3

\* so two parts can be read off their join.
LEMMA DashedInjective ==
  ASSUME NEW a \in Seq(Text), NEW b \in Seq(Text), NEW x \in Seq(Text), NEW y \in Seq(Text),
         \A k \in DOMAIN a : a[k] # "-",
         \A k \in DOMAIN x : x[k] # "-",
         Dashed(a, b) = Dashed(x, y)
  PROVE  a = x /\ b = y
<1>1. Len(a) = Len(x)
  <2>1. Len(x) <= Len(a)
    BY DashStops
  <2>2. Len(a) <= Len(x)
    BY DashStops
  <2> QED
    BY <2>1, <2>2
<1>2. /\ Len(Dashed(a, b)) = Len(a) + 1 + Len(b)
      /\ \A k \in 1..Len(a) : Dashed(a, b)[k] = a[k]
      /\ \A k \in 1..Len(b) : Dashed(a, b)[Len(a) + 1 + k] = b[k]
  BY DashedFacts
<1>3. /\ Len(Dashed(x, y)) = Len(x) + 1 + Len(y)
      /\ \A k \in 1..Len(x) : Dashed(x, y)[k] = x[k]
      /\ \A k \in 1..Len(y) : Dashed(x, y)[Len(x) + 1 + k] = y[k]
  BY DashedFacts
<1>4. Len(b) = Len(y)
  BY <1>1, <1>2, <1>3
<1>5. a = x
  BY <1>1, <1>2, <1>3
<1>6. b = y
  BY <1>1, <1>2, <1>3, <1>4
<1> QED
  BY <1>5, <1>6

\* Of three attributes that are there and have no "-" the domain is a join.
LEMMA DomainDashed ==
  ASSUME NEW d \in Datasets, d.gridKey = <<>>, Unambiguous(d)
  PROVE  /\ d.attrs \in Seq(Seq(STRING)) /\ Len(d.attrs) = 3
         /\ \A i \in 1..3 : d.attrs[i] \in Seq(Text)
         /\ \A i \in 1..3 : \A k \in DOMAIN d.attrs[i] : d.attrs[i][k] # "-"
         /\ Domain(d) = Dashed(d.attrs[1], Dashed(d.attrs[2], d.attrs[3]))
<1> DEFINE a == d.attrs[1]  b == d.attrs[2]  c == d.attrs[3]
<1>1. d.attrs \in Seq(Seq(STRING)) /\ Len(d.attrs) = 3
  BY DatasetsAssumption DEF IsDataset
<1>2. \A i \in 1..3 : d.attrs[i] \in Seq(Text)
  <2>1. \A s \in Seq(STRING) : s \in Seq(Text)
    BY SeqMonotonic DEF Text
  <2>2. \A i \in 1..3 : d.attrs[i] \in Seq(STRING)
    BY <1>1
  <2> QED
    BY <2>1, <2>2
<1>3. \A i \in 1..3 : d.attrs[i] # <<>> /\ \A k \in DOMAIN d.attrs[i] : d.attrs[i][k] # "-"
  BY DEF Unambiguous
<1>4. a \in Seq(Text) /\ b \in Seq(Text) /\ c \in Seq(Text) /\ a # <<>> /\ b # <<>> /\ c # <<>>
  BY <1>2, <1>3
<1>5. Domain(d) = Join(Join(a, b), c)
  BY DEF Domain
<1> HIDE DEF a, b, c
<1>6. Join(a, b) = Dashed(a, b) /\ Dashed(a, b) # <<>>
  BY <1>4, DashedFacts DEF Join, Dashed
<1>7. Join(Join(a, b), c) = Dashed(Dashed(a, b), c)
  BY <1>4, <1>6 DEF Join, Dashed
<1>8. Domain(d) = Dashed(a, Dashed(b, c))
  BY <1>4, <1>5, <1>7, DashedAssociative
<1> QED
  BY <1>1, <1>2, <1>3, <1>8 DEF a, b, c

\* They can be read off it.
LEMMA DomainInjective ==
  ASSUME NEW d \in Datasets, NEW e \in Datasets, d.gridKey = <<>>, e.gridKey = <<>>,
         Unambiguous(d), Unambiguous(e), Domain(d) = Domain(e)
  PROVE  d.attrs = e.attrs
<1>1. /\ d.attrs[1] \in Seq(Text) /\ d.attrs[2] \in Seq(Text) /\ d.attrs[3] \in Seq(Text)
      /\ e.attrs[1] \in Seq(Text) /\ e.attrs[2] \in Seq(Text) /\ e.attrs[3] \in Seq(Text)
  BY DomainDashed
<1>2. /\ Dashed(d.attrs[2], d.attrs[3]) \in Seq(Text)
      /\ Dashed(e.attrs[2], e.attrs[3]) \in Seq(Text)
  BY <1>1, DashedFacts
<1>3. \A i \in 1..3 : /\ \A k \in DOMAIN d.attrs[i] : d.attrs[i][k] # "-"
                      /\ \A k \in DOMAIN e.attrs[i] : e.attrs[i][k] # "-"
  BY DomainDashed
<1>4. Dashed(d.attrs[1], Dashed(d.attrs[2], d.attrs[3])) = Dashed(e.attrs[1], Dashed(e.attrs[2], e.attrs[3]))
  BY DomainDashed
<1>5. d.attrs[1] = e.attrs[1] /\ Dashed(d.attrs[2], d.attrs[3]) = Dashed(e.attrs[2], e.attrs[3])
  <2>1. /\ \A k \in DOMAIN d.attrs[1] : d.attrs[1][k] # "-"
        /\ \A k \in DOMAIN e.attrs[1] : e.attrs[1][k] # "-"
    BY <1>3
  <2>2. d.attrs[1] \in Seq(Text) /\ e.attrs[1] \in Seq(Text)
    BY <1>1
  <2> QED
    BY <1>2, <1>4, <2>1, <2>2, DashedInjective
<1>6. d.attrs[2] = e.attrs[2] /\ d.attrs[3] = e.attrs[3]
  <2>1. /\ \A k \in DOMAIN d.attrs[2] : d.attrs[2][k] # "-"
        /\ \A k \in DOMAIN e.attrs[2] : e.attrs[2][k] # "-"
    BY <1>3
  <2>2. Dashed(d.attrs[2], d.attrs[3]) = Dashed(e.attrs[2], e.attrs[3])
    BY <1>5
  <2>3. /\ d.attrs[2] \in Seq(Text) /\ d.attrs[3] \in Seq(Text)
        /\ e.attrs[2] \in Seq(Text) /\ e.attrs[3] \in Seq(Text)
    BY <1>1
  <2> QED
    BY <2>1, <2>2, <2>3, DashedInjective
<1>7. /\ d.attrs \in Seq(Seq(STRING)) /\ Len(d.attrs) = 3
      /\ e.attrs \in Seq(Seq(STRING)) /\ Len(e.attrs) = 3
  BY DomainDashed
<1>8. \A i \in 1..3 : i = 1 \/ i = 2 \/ i = 3
  OBVIOUS
<1>9. \A i \in 1..3 : d.attrs[i] = e.attrs[i]
  BY <1>5, <1>6, <1>8
<1>10. Len(d.attrs) = Len(e.attrs) /\ \A i \in 1..Len(d.attrs) : d.attrs[i] = e.attrs[i]
  BY <1>7, <1>9
<1> QED
  BY <1>7, <1>10, SeqEqual

\* What the key tells of the datasets that share an entry.
LEMMA SharersAlike ==
  ASSUME NEW d \in Datasets, NEW e \in Sharers(d)
  PROVE  /\ d.gridKey = <<>> => e.lat = d.lat /\ (d.verify => e.corner = d.corner)
         /\ Unambiguous(e) /\ Unambiguous(d) =>
              e.gridKey = d.gridKey /\ (d.gridKey = <<>> => e.attrs = d.attrs)
<1>1. e \in Datasets /\ GridKey(e) = GridKey(d)
  BY DEF Sharers
<1>2. d.corner # <<>> /\ e.corner # <<>> /\ d.verify \in BOOLEAN /\ e.verify \in BOOLEAN
  BY <1>1, DatasetsAssumption DEF IsDataset
<1>3. CASE d.gridKey = <<>> /\ e.gridKey = <<>>
  <2>1. /\ Domain(e) = Domain(d) /\ e.lat = d.lat
        /\ (IF e.verify THEN e.corner ELSE <<>>) = (IF d.verify THEN d.corner ELSE <<>>)
    BY <1>1, <1>3 DEF GridKey
  <2>2. d.verify => e.corner = d.corner
    BY <1>2, <2>1
  <2>3. Unambiguous(e) /\ Unambiguous(d) => e.attrs = d.attrs
    BY <1>1, <1>3, <2>1, DomainInjective
  <2> QED
    BY <1>3, <2>1, <2>2, <2>3
<1>4. CASE d.gridKey # <<>> /\ e.gridKey # <<>>
  <2>1. SafeKey(e.gridKey) = SafeKey(d.gridKey)
    BY <1>1, <1>4 DEF GridKey
  <2>2. Unambiguous(d) => SafeKey(d.gridKey) = d.gridKey
    BY <1>4 DEF Unambiguous, SafeKey
  <2>3. Unambiguous(e) => SafeKey(e.gridKey) = e.gridKey
    BY <1>4 DEF Unambiguous, SafeKey
  <2> QED
    BY <1>4, <2>1, <2>2, <2>3
<1>5. CASE (d.gridKey = <<>>) # (e.gridKey = <<>>)
  BY <1>1, <1>5 DEF GridKey
<1> QED
  BY <1>3, <1>4, <1>5

\* A load without the cache has the dataset's own grid, whatever others do to the
\* cache; one with it never has a grid of another shape or, with verifyGrid, of another
\* corner under a derived key, and where no key is ambiguous only one of its gridKey or
\* its domain.
THEOREM GridBelongs == GroupSpec => []GridIsOwn
<1>1. GroupInit => OwnInv
  BY DEF GroupInit, GridInit, OwnInv, Loaded
<1>2. GridInv /\ OwnInv => GridIsOwn
  <2> SUFFICES ASSUME GridInv, OwnInv, HasGrid PROVE GridIsOwn
    BY DEF GridIsOwn
  <2>1. gstep \in Loaded /\ dataset \in Datasets /\ grid \in Snapshots(dataset)
    BY DEF GridInv, Loaded, HasGrid
  <2>2. PICK e \in Sharers(dataset) : grid = GridOf(e)
    BY <2>1 DEF Snapshots
  <2>3. e \in Datasets /\ Len(e.lat) = 2 /\ e.lat \in Seq(Nat)
    BY <2>2, DatasetsAssumption DEF Sharers, Griddable, IsDataset
  <2>4. grid.owner = e /\ <<grid.ny, grid.nx>> = e.lat
    BY <2>2, <2>3 DEF GridOf
  <2>5. load # "cached" => e = dataset
    BY <2>1, <2>4 DEF OwnInv, GridOf
  <2> QED
    BY <2>1, <2>2, <2>4, <2>5, SharersAlike DEF GridIsOwn
<1> QED
  BY <1>1, <1>2, OwnStep, GridInvariance, PTL DEF GroupSpec
=============================================================================
