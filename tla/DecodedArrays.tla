--------------------------- MODULE DecodedArrays ---------------------------
(***************************************************************************)
(* decodedArray() of the dataset handles (src/src/dataset/registry.ts):    *)
(* small arrays are decoded once per handle, kept in its map (L1) and, if  *)
(* the caller names a cacheKey, in a cache the handles share (L2), here an *)
(* InMemoryCache that metadata is written to as well. A handle may be      *)
(* disposed at any time and goes on working.                               *)
(***************************************************************************)
EXTENDS InMemoryCache, FiniteSets

CONSTANTS
  Handles,
  Calls,      \* calls of decodedArray(), one each
  HandleOf,
  KeyOf,      \* call -> its name and cacheKey
  Shared,     \* the keys with a cacheKey: they are keys of the L2 cache
  Ttl,        \* option: key -> the time its L2 entry lives, or Never
  MetadataTtl,
  NoCall

ASSUME CallsAssumption ==
  /\ IsFiniteSet(Calls)
  /\ HandleOf \in [Calls -> Handles]
  /\ Shared \subseteq CacheKeys
  /\ NoCall \notin Calls

ASSUME EntriesAssumption ==
  /\ "array" \in CacheValues
  /\ \A c \in Calls : KeyOf[c] \in Shared => Ttl[KeyOf[c]] \in Int \cup {Never}
  /\ MetadataTtl \in Int \cup {Never}

Keys == {KeyOf[c] : c \in Calls}

VARIABLES
  decoded,   \* handle -> the keys of its L1
  inflight,  \* handle -> key -> the call whose load its promise is, or NoCall
  pc,        \* call -> where it is, or where the load it has started is
  joined,    \* call -> the call whose load it awaits, or NoCall
  outcome,   \* call -> what it resolved or failed with
  cut        \* loads that were under way at a dispose() of their handle (history)

callVars == <<decoded, inflight, pc, joined, outcome, cut>>
vars == <<cacheVars, callVars>>

CallsTypeOK ==
  /\ decoded \in [Handles -> SUBSET Keys]
  /\ inflight \in [Handles -> [Keys -> Calls \cup {NoCall}]]
  /\ pc \in [Calls -> {"idle", "lookup", "store", "write", "joined", "settled"}]
  /\ joined \in [Calls -> Calls \cup {NoCall}]
  /\ \A c \in Calls : pc[c] = "joined" => joined[c] # NoCall
  /\ outcome \in [Calls -> {"none", "array", "failed"}]
  /\ cut \in SUBSET Calls

TypeOK == CacheTypeOK /\ CallsTypeOK

Init ==
  /\ CacheInit
  /\ decoded = [h \in Handles |-> {}]
  /\ inflight = [h \in Handles |-> [k \in Keys |-> NoCall]]
  /\ pc = [c \in Calls |-> "idle"]
  /\ joined = [c \in Calls |-> NoCall]
  /\ outcome = [c \in Calls |-> "none"]
  /\ cut = {}

Loading(c) == pc[c] \in {"lookup", "store", "write"}
LoadsOf(h, k) == {c \in Calls : HandleOf[c] = h /\ KeyOf[c] = k /\ Loading(c)}

------------------------------------------------------------------------------
(* decodedArray() *)

MovesTo(c, at) == pc' = [pc EXCEPT ![c] = at]

L1Hits(c) ==
  /\ pc[c] = "idle"
  /\ KeyOf[c] \in decoded[HandleOf[c]]
  /\ MovesTo(c, "settled")
  /\ outcome' = [outcome EXCEPT ![c] = "array"]
  /\ UNCHANGED <<cacheVars, decoded, inflight, joined, cut>>

Joins(c) ==
  LET load == inflight[HandleOf[c]][KeyOf[c]] IN
  /\ pc[c] = "idle"
  /\ KeyOf[c] \notin decoded[HandleOf[c]]
  /\ load # NoCall
  /\ joined' = [joined EXCEPT ![c] = load]
  /\ MovesTo(c, "joined")
  /\ UNCHANGED <<cacheVars, decoded, inflight, outcome, cut>>

\* Mutant: the promise is not registered.
Loads_Unregistered(c) ==
  /\ pc[c] = "idle"
  /\ KeyOf[c] \notin decoded[HandleOf[c]]
  /\ inflight[HandleOf[c]][KeyOf[c]] = NoCall
  /\ MovesTo(c, IF KeyOf[c] \in Shared THEN "lookup" ELSE "store")
  /\ UNCHANGED <<cacheVars, decoded, inflight, joined, outcome, cut>>

Loads(c) ==
  /\ pc[c] = "idle"
  /\ KeyOf[c] \notin decoded[HandleOf[c]]
  /\ inflight[HandleOf[c]][KeyOf[c]] = NoCall
  /\ inflight' = [inflight EXCEPT ![HandleOf[c]][KeyOf[c]] = c]
  /\ MovesTo(c, IF KeyOf[c] \in Shared THEN "lookup" ELSE "store")
  /\ UNCHANGED <<cacheVars, decoded, joined, outcome, cut>>

------------------------------------------------------------------------------
(* loadDecodedArray() *)

Fills(c) == decoded' = [decoded EXCEPT ![HandleOf[c]] = @ \cup {KeyOf[c]}]

\* Mutant: the entry is dropped only when the load succeeds.
Ends_OnSuccess(c, result) ==
  /\ MovesTo(c, "settled")
  /\ outcome' = [outcome EXCEPT ![c] = result]
  /\ inflight' = IF result = "failed" THEN inflight
                 ELSE [inflight EXCEPT ![HandleOf[c]][KeyOf[c]] = NoCall]
  /\ UNCHANGED <<joined, cut>>

\* The load settles and its `finally` runs: it drops the key's entry, even when
\* that is a later load's.
Ends(c, result) ==
  /\ MovesTo(c, "settled")
  /\ outcome' = [outcome EXCEPT ![c] = result]
  /\ inflight' = [inflight EXCEPT ![HandleOf[c]][KeyOf[c]] = NoCall]
  /\ UNCHANGED <<joined, cut>>

L2Hits(c) ==
  /\ pc[c] = "lookup"
  /\ Hit(KeyOf[c]) /\ Get(KeyOf[c])
  /\ Fills(c)
  /\ Ends(c, "array")

L2Misses(c) ==
  /\ pc[c] = "lookup"
  /\ ~Hit(KeyOf[c]) /\ Get(KeyOf[c])
  /\ MovesTo(c, "store")
  /\ UNCHANGED <<decoded, inflight, joined, outcome, cut>>

\* Another cache than the in-process one may reject.
L2Throws(c) ==
  /\ pc[c] = "lookup"
  /\ MovesTo(c, "store")
  /\ UNCHANGED <<cacheVars, decoded, inflight, joined, outcome, cut>>

\* The array is read in full; L1 has it before it is written to L2.
Decodes(c) ==
  /\ pc[c] = "store"
  /\ Fills(c)
  /\ \/ /\ KeyOf[c] \in Shared
        /\ MovesTo(c, "write")
        /\ UNCHANGED <<inflight, joined, outcome, cut>>
     \/ KeyOf[c] \notin Shared /\ Ends(c, "array")
  /\ UNCHANGED cacheVars

ReadFails(c) ==
  /\ pc[c] = "store"
  /\ Ends(c, "failed")
  /\ UNCHANGED <<cacheVars, decoded>>

Writes(c) ==
  /\ pc[c] = "write"
  /\ Set(KeyOf[c], "array", Ttl[KeyOf[c]])
  /\ Ends(c, "array")
  /\ UNCHANGED decoded

WriteThrows(c) ==
  /\ pc[c] = "write"
  /\ Ends(c, "array")
  /\ UNCHANGED <<cacheVars, decoded>>

JoinedSettles(c) ==
  /\ pc[c] = "joined"
  /\ pc[joined[c]] = "settled"
  /\ MovesTo(c, "settled")
  /\ outcome' = [outcome EXCEPT ![c] = outcome[joined[c]]]
  /\ UNCHANGED <<cacheVars, decoded, inflight, joined, cut>>

------------------------------------------------------------------------------

\* dispose(): the heap of the handle is emptied.
Dispose(h) ==
  /\ decoded' = [decoded EXCEPT ![h] = {}]
  /\ inflight' = [inflight EXCEPT ![h] = [k \in Keys |-> NoCall]]
  /\ cut' = cut \cup {c \in Calls : HandleOf[c] = h /\ Loading(c)}
  /\ UNCHANGED <<cacheVars, pc, joined, outcome>>

\* The metadata read-through uses the same cache, also for absences.
MetadataAccess ==
  /\ \E k \in CacheKeys \ Shared :
       Get(k) \/ \E v \in CacheValues \ {"array"} : Set(k, v, MetadataTtl)
  /\ UNCHANGED callVars

TimePasses == Tick /\ UNCHANGED callVars

LoadStep(c) ==
  \/ L2Hits(c) \/ L2Misses(c) \/ L2Throws(c) \/ Decodes(c) \/ ReadFails(c)
  \/ Writes(c) \/ WriteThrows(c)

Next ==
  \/ \E c \in Calls : L1Hits(c) \/ Joins(c) \/ Loads(c) \/ LoadStep(c) \/ JoinedSettles(c)
  \/ \E h \in Handles : Dispose(h)
  \/ MetadataAccess
  \/ TimePasses

Spec == Init /\ [][Next]_vars

------------------------------------------------------------------------------
(* Properties *)

\* Concurrent calls for a key share one load ("In-flight dedup for concurrent
\* decodedArray() calls on the same key"), but for one more per load that a
\* dispose() has cut off, which keeps running and may drop a newer one's entry.
LoadsShared ==
  \A h \in Handles, k \in Keys :
    Cardinality(LoadsOf(h, k)) <=
      1 + Cardinality({c \in cut : HandleOf[c] = h /\ KeyOf[c] = k})

\* What the in-flight map offers to join is under way: no later call is given the
\* failure of an earlier one, or what was decoded before a dispose().
JoinableLoads ==
  \A h \in Handles, k \in Keys : inflight[h][k] # NoCall =>
    inflight[h][k] \in LoadsOf(h, k) \ cut

\* The in-flight map leads to calls of its own handle and key (a typed state), shares
\* their loads and offers none that is over.
DedupSound == CallsTypeOK /\ LoadsShared /\ JoinableLoads
==============================================================================
