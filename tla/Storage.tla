------------------------------ MODULE Storage ------------------------------
(***************************************************************************)
(* The storage of a dataset: a network store, under a CachedStore, read    *)
(* for metadata through the shared cache and for chunks through the disk.  *)
(* CachedStore.get() tells the two apart by the suffix of the key, and     *)
(* passes metadata to the inner store.                                     *)
(***************************************************************************)
EXTENDS MetadataRead, CachedStore

VARIABLE metadata   \* the key is a metadata key (isMetadataKey)

storageVars == <<vars, diskVars, metadata>>

\* Of a metadata key the directory has no file.
StorageInit ==
  /\ metadata \in BOOLEAN
  /\ Init
  /\ CachedInit
  /\ metadata => file = "none"

MetadataKey(A) == metadata /\ A /\ UNCHANGED <<diskVars, metadata>>

ChunkKey(A) == ~metadata /\ A /\ UNCHANGED <<cacheVars, metadata>>

StorageNext == MetadataKey(Next) \/ ChunkKey(CachedNext)

StorageSpec == StorageInit /\ [][StorageNext]_storageVars

\* The next step of a call that is the process's own: a continuation, a timer, a
\* file operation, an answer or failure of the shared cache.
CallProceeds(c) ==
  \/ MetadataKey(MetadataStep(c))
  \/ ChunkKey(GetStep(c))
  \/ (Deadline(c) \/ ClientResumes(c) \/ ClientThrows(c) \/ BackoffEnds(c))
       /\ UNCHANGED <<cacheVars, diskVars, metadata>>

\* The calls proceed, the loading of the client's modules settles and clearCache()
\* goes on. Nothing is assumed of the backend, nor of the other process.
StorageFairness ==
  /\ \A c \in Calls : WF_storageVars(CallProceeds(c))
  /\ WF_storageVars(ClientSettles /\ UNCHANGED <<cacheVars, diskVars, metadata>>)
  /\ WF_storageVars(ChunkKey(ClearRemoves))

StorageFairSpec == StorageSpec /\ StorageFairness

------------------------------------------------------------------------------
(* Properties *)

StorageTypeOK == TypeOK /\ DiskTypeOK /\ metadata \in BOOLEAN

\* Whatever is read, for metadata or for a chunk, is what the store has, or null when
\* it has nothing: no fault, cache, crash, eviction or other process changes that.
Truthful == AnswersTruthful /\ GetsTruthful

\* Every call is an atomic lookup: it is answered once and for good, the calls that
\* share a fetch all at once and alike, and only a crash undoes an answer.
Outcome(place, ans) ==
  CASE place = "idle"                -> "idle"
    [] place \in {"done", "settled"} -> ans
    [] OTHER                         -> "pending"

OutcomeOf(c) ==
  IF asks[c] # "get" THEN Outcome(pc[c], result[c])
  ELSE IF metadata THEN Outcome(mpc[c], answer[c]) ELSE Outcome(gpc[c], got[c])

Lookups == INSTANCE Lookup WITH content <- Truth,
                                lenient <- {c \in Calls : Swallows(c)},
                                outcome <- [c \in Calls |-> OutcomeOf(c)]
LookupSpec == Lookups!Spec

\* Caches and the disk never fail a read: it fails with its request, after a fault
\* that is not retried or with all its attempts, or with the fetch that it joined.
FailuresJustified == FailsOnlyExhausted /\ DiskNeverFails

\* The call is under way, in the store, in the metadata read or in the disk cache.
Pending(c) ==
  \/ pc[c] \notin {"idle", "settled"}
  \/ mpc[c] \notin {"idle", "done"}
  \/ gpc[c] \notin {"idle", "done"}

\* Every call settles, unless the process is killed, whatever the backend, the
\* shared cache and the disk do, and so does clearCache(): each attempt has a
\* deadline, nobody joins a fetch that is over, and the drain awaits only
\* fetches that end.
CallsSettle ==
  /\ \A c \in Calls : Pending(c) ~> ~Pending(c)
  /\ closing = "draining" ~> closing # "draining"
=============================================================================
