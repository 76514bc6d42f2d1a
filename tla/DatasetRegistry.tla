--------------------------- MODULE DatasetRegistry ---------------------------
(***************************************************************************)
(* The registry of opened datasets (src/src/dataset/registry.ts) together  *)
(* with the part of the disk-backed store (src/src/cache/cached-store.ts)  *)
(* that its teardown depends on.                                           *)
(*                                                                         *)
(* A handle is one run of build(): <<id, n>> is the n-th handle of id.     *)
(* All handles of an id share ONE directory, derived from the id, so the   *)
(* `rm -r` that tears an evicted handle down must never meet a newer       *)
(* handle of the same id.                                                  *)
(*                                                                         *)
(* The program is one JavaScript thread: code between two awaits is one    *)
(* action, and the actions of this module are the turns between awaits.    *)
(***************************************************************************)
EXTENDS Integers, Sequences, FiniteSets, SequencesExt

CONSTANTS
  Ids,          \* dataset identities
  MaxBuilds,    \* id -> bound on the opens of it that build a handle
  Readers,      \* concurrent chunk reads through a handle's store
  Closers,      \* calls of clear() and whenTornDown()
  MaxDatasets,  \* cap on cached handles
  NoHandle      \* the absent map entry

Handles == UNION {{id} \X (1..MaxBuilds[id]) : id \in Ids}
Dir(h) == h[1]

ASSUME BuildsAssumption == MaxBuilds \in [Ids -> Nat]
ASSUME CapAssumption == MaxDatasets \in Nat \ {0}
ASSUME NoHandleAssumption == NoHandle \notin Handles

VARIABLES
  entries,    \* registry.entries: handles in insertion (= recency) order
  inflight,   \* registry.inflight: id -> handle whose open() is pending
  teardowns,  \* registry.teardowns: id -> handle whose dispose() is tracked
  phase,      \* life of each handle
  awaits,     \* handle -> the teardown its open() is chained on
  draining,   \* handle -> store reads its clearCache() still awaits
  files,      \* id -> handles that have files in the id's directory
  rpc,        \* reader -> where its CachedStore.get() is suspended
  on,         \* reader -> handle it reads through
  cpc,        \* closer -> where its clear()/whenTornDown() is suspended
  cwait,      \* closer -> handles whose promise it awaits
  owed        \* closer -> handles its call promised to tear down (history)

registryVars == <<entries, inflight, teardowns, phase, awaits>>
storeVars    == <<draining, files, rpc, on>>
closerVars   == <<cpc, cwait, owed>>
vars == <<registryVars, storeVars, closerVars>>

Phases == {"fresh", "waiting", "building", "failed",
           "live", "draining", "removing", "gone", "leaked"}
Settled == {"gone", "leaked"}               \* dispose() has settled
Closed  == {"draining", "removing"} \cup Settled  \* CachedStore.closed
Owing   == {"waiting", "building", "live", "draining", "removing"}
ReaderPcs == {"idle", "lookup", "fetching", "writing"}
CloserPcs == {"idle", "settling", "disposing", "awaiting", "returned"}

InFlight == {inflight[id] : id \in Ids} \ {NoHandle}
Tracked  == {teardowns[id] : id \in Ids} \ {NoHandle}
Cached   == ToSet(entries)

\* Reads whose fetchAndCache promise is in the inflight map of h's store.
StoreInflight(h) == {r \in Readers : on[r] = h /\ rpc[r] \in {"fetching", "writing"}}

TypeOK ==
  /\ entries \in Seq(Handles)
  /\ inflight \in [Ids -> Handles \cup {NoHandle}]
  /\ teardowns \in [Ids -> Handles \cup {NoHandle}]
  /\ phase \in [Handles -> Phases]
  /\ awaits \in [Handles -> Handles \cup {NoHandle}]
  /\ draining \in [Handles -> SUBSET Readers]
  /\ files \in [Ids -> SUBSET Handles]
  /\ rpc \in [Readers -> ReaderPcs]
  /\ on \in [Readers -> Handles \cup {NoHandle}]
  /\ cpc \in [Closers -> CloserPcs]
  /\ cwait \in [Closers -> SUBSET Handles]
  /\ owed \in [Closers -> SUBSET Handles]

Init ==
  /\ entries = <<>>
  /\ inflight = [id \in Ids |-> NoHandle]
  /\ teardowns = [id \in Ids |-> NoHandle]
  /\ phase = [h \in Handles |-> "fresh"]
  /\ awaits = [h \in Handles |-> NoHandle]
  /\ draining = [h \in Handles |-> {}]
  /\ files = [id \in Ids |-> {}]
  /\ rpc = [r \in Readers |-> "idle"]
  /\ on = [r \in Readers |-> NoHandle]
  /\ cpc = [c \in Closers |-> "idle"]
  /\ cwait = [c \in Closers |-> {}]
  /\ owed = [c \in Closers |-> {}]

------------------------------------------------------------------------------
(* dispose() and track() *)

\* Mutant: the id is stored where the teardown belongs.
Track_StoresId(hs) ==
  teardowns' = [id \in Ids |-> IF \E h \in hs : Dir(h) = id THEN id ELSE teardowns[id]]

\* track(id, dispose()) for each handle of hs: the latest teardown of an id
\* replaces the one recorded before.
Track(hs) ==
  teardowns' = [id \in Ids |-> IF \E h \in hs : Dir(h) = id
                               THEN CHOOSE h \in hs : Dir(h) = id
                               ELSE teardowns[id]]

\* The synchronous part of dispose() for the handles hs: each store is closed
\* and its pending fetches are snapshotted before anything is awaited.
Disposing(hs) ==
  draining' = [h \in Handles |-> IF h \in hs THEN StoreInflight(h) ELSE draining[h]]

------------------------------------------------------------------------------
(* open(id) *)

\* Map.delete(id); Map.set(id, handle): the i-th entry becomes the newest.
Touch(s, i) == Append(RemoveAt(s, i), s[i])

\* A cached handle is returned and becomes the most recently used one.
OpenCached(id) ==
  \E i \in 1..Len(entries) :
    /\ Dir(entries[i]) = id
    /\ entries' = Touch(entries, i)
    /\ UNCHANGED <<inflight, teardowns, phase, awaits, storeVars, closerVars>>

\* Mutant: open() does not look for a pending teardown of the id.
OpenNew_NoWait(h) ==
  LET id == Dir(h) IN
  /\ phase[h] = "fresh"
  /\ \A n \in 1..(h[2] - 1) : phase[<<id, n>>] # "fresh"
  /\ \A i \in 1..Len(entries) : Dir(entries[i]) # id
  /\ inflight[id] = NoHandle
  /\ inflight' = [inflight EXCEPT ![id] = h]
  /\ phase' = [phase EXCEPT ![h] = "building"]
  /\ UNCHANGED <<entries, teardowns, awaits, storeVars, closerVars>>

\* Neither cached nor being opened (a pending open is shared: no new state).
\* The build is chained on the pending teardown of the id, if there is one.
OpenNew(h) ==
  LET id == Dir(h) IN
  /\ phase[h] = "fresh"
  /\ \A n \in 1..(h[2] - 1) : phase[<<id, n>>] # "fresh"   \* the next handle of id
  /\ \A i \in 1..Len(entries) : Dir(entries[i]) # id
  /\ inflight[id] = NoHandle
  /\ inflight' = [inflight EXCEPT ![id] = h]
  /\ awaits' = [awaits EXCEPT ![h] = teardowns[id]]
  /\ phase' = [phase EXCEPT ![h] =
                 IF teardowns[id] = NoHandle THEN "building" ELSE "waiting"]
  /\ UNCHANGED <<entries, teardowns, storeVars, closerVars>>

\* pending.then(() => build(...)): the awaited teardown has settled.
StartBuild(h) ==
  /\ phase[h] = "waiting"
  /\ phase[awaits[h]] \in Settled
  /\ phase' = [phase EXCEPT ![h] = "building"]
  /\ awaits' = [awaits EXCEPT ![h] = NoHandle]
  /\ UNCHANGED <<entries, inflight, teardowns, storeVars, closerVars>>

\* storeFactory() or openGroup() rejects. Metadata keys bypass the disk tier,
\* so a failed build leaves nothing in the directory.
BuildFails(h) ==
  /\ phase[h] = "building"
  /\ phase' = [phase EXCEPT ![h] = "failed"]
  /\ UNCHANGED <<entries, inflight, teardowns, awaits, storeVars, closerVars>>

\* Mutant: the cap is exceeded by one before anything is evicted.
BuildSucceeds_LateEviction(h) ==
  LET cached  == Append(entries, h)
      excess  == Len(cached) - MaxDatasets - 1
      evicted == {cached[i] : i \in 1..excess}
  IN
  /\ phase[h] = "building"
  /\ entries' = SubSeq(cached, IF excess > 0 THEN excess + 1 ELSE 1, Len(cached))
  /\ Track(evicted)
  /\ Disposing(evicted)
  /\ phase' = [x \in Handles |-> IF x \in evicted THEN "draining"
                                 ELSE IF x = h THEN "live" ELSE phase[x]]
  /\ UNCHANGED <<inflight, awaits, files, rpc, on, closerVars>>

\* build() resolves: the handle is cached and evictIfOverCap() disposes the
\* oldest handles beyond the cap, in the same turn.
BuildSucceeds(h) ==
  LET cached  == Append(entries, h)
      excess  == Len(cached) - MaxDatasets
      evicted == {cached[i] : i \in 1..excess}
  IN
  /\ phase[h] = "building"
  /\ entries' = SubSeq(cached, IF excess > 0 THEN excess + 1 ELSE 1, Len(cached))
  /\ Track(evicted)
  /\ Disposing(evicted)
  /\ phase' = [x \in Handles |-> IF x \in evicted THEN "draining"
                                 ELSE IF x = h THEN "live" ELSE phase[x]]
  /\ UNCHANGED <<inflight, awaits, files, rpc, on, closerVars>>

\* Mutant: the in-flight entry is dropped only when the build succeeded.
OpenSettles_OnSuccess(h) ==
  /\ inflight[Dir(h)] = h
  /\ phase[h] \notin {"waiting", "building", "failed"}
  /\ inflight' = [inflight EXCEPT ![Dir(h)] = NoHandle]
  /\ UNCHANGED <<entries, teardowns, phase, awaits, storeVars, closerVars>>

\* .finally(() => inflight.delete(id)), a turn after the outcome above.
OpenSettles(h) ==
  /\ inflight[Dir(h)] = h
  /\ phase[h] \notin {"waiting", "building"}
  /\ inflight' = [inflight EXCEPT ![Dir(h)] = NoHandle]
  /\ UNCHANGED <<entries, teardowns, phase, awaits, storeVars, closerVars>>

------------------------------------------------------------------------------
(* CachedStore.get(key) of a data key through an opened handle. Reads of one *)
(* key share the fetch of the first, so a reader is the owner of a key. Once *)
(* the store is closed a new read never touches the disk: no action.         *)

StartRead(r, h) ==
  /\ rpc[r] = "idle"
  /\ phase[h] = "live"
  /\ inflight[Dir(h)] # h          \* the caller has the handle
  /\ rpc' = [rpc EXCEPT ![r] = "lookup"]
  /\ on' = [on EXCEPT ![r] = h]
  /\ UNCHANGED <<registryVars, draining, files, closerVars>>

\* Mutant: the store's in-flight entry outlives the read.
ReadDone_StaysInflight(r) ==
  /\ rpc' = [rpc EXCEPT ![r] = "idle"]
  /\ on' = [on EXCEPT ![r] = NoHandle]
  /\ UNCHANGED draining

\* The read's promise settles: a clearCache() that awaits it goes on.
ReadDone(r) ==
  /\ rpc' = [rpc EXCEPT ![r] = "idle"]
  /\ on' = [on EXCEPT ![r] = NoHandle]
  /\ draining' = [draining EXCEPT ![on[r]] = @ \ {r}]

\* DiskCache.get() resolves with the file's bytes: the read is over.
LookupHit(r) ==
  /\ rpc[r] = "lookup"
  /\ files[Dir(on[r])] # {}
  /\ ReadDone(r)
  /\ UNCHANGED <<registryVars, files, closerVars>>

\* DiskCache.get() resolves with null: the fetch goes into the store's inflight
\* map. The store may have been closed since `closed` was tested.
LookupMiss(r) ==
  /\ rpc[r] = "lookup"
  /\ rpc' = [rpc EXCEPT ![r] = "fetching"]
  /\ UNCHANGED <<registryVars, draining, files, on, closerVars>>

\* The backend answers with no chunk, with an error, or after the store was
\* closed: nothing is written.
FetchSkipsWrite(r) ==
  /\ rpc[r] = "fetching"
  /\ ReadDone(r)
  /\ UNCHANGED <<registryVars, files, closerVars>>

\* Mutant: `closed` is not tested again after the backend answered.
FetchWrites_NoRecheck(r) ==
  /\ rpc[r] = "fetching"
  /\ rpc' = [rpc EXCEPT ![r] = "writing"]
  /\ UNCHANGED <<registryVars, draining, files, on, closerVars>>

\* The backend answers with a chunk while the store is open.
FetchWrites(r) ==
  /\ rpc[r] = "fetching"
  /\ phase[on[r]] \notin Closed
  /\ rpc' = [rpc EXCEPT ![r] = "writing"]
  /\ UNCHANGED <<registryVars, draining, files, on, closerVars>>

\* DiskCache.set() swallows every failure, so the file may or may not be there;
\* its mkdir re-creates the directory if it was removed.
WriteDone(r) ==
  /\ rpc[r] = "writing"
  /\ \/ files' = [files EXCEPT ![Dir(on[r])] = @ \cup {on[r]}]
     \/ UNCHANGED files
  /\ ReadDone(r)
  /\ UNCHANGED <<registryVars, closerVars>>

------------------------------------------------------------------------------
(* CachedStore.clearCache(), after its synchronous part *)

\* Mutant: the directory is removed without draining the pending fetches.
StartRemove_NoDrain(h) ==
  /\ phase[h] = "draining"
  /\ phase' = [phase EXCEPT ![h] = "removing"]
  /\ UNCHANGED <<entries, inflight, teardowns, awaits, storeVars, closerVars>>

\* Promise.allSettled over the snapshot resolves: rm -r starts.
StartRemove(h) ==
  /\ phase[h] = "draining"
  /\ draining[h] = {}
  /\ phase' = [phase EXCEPT ![h] = "removing"]
  /\ UNCHANGED <<entries, inflight, teardowns, awaits, storeVars, closerVars>>

\* track(): the settled teardown is dropped if it is still the tracked one.
Untrack(h) ==
  teardowns' = [teardowns EXCEPT ![Dir(h)] = IF @ = h THEN NoHandle ELSE @]

\* rm -r succeeds.
RemoveSucceeds(h) ==
  /\ phase[h] = "removing"
  /\ phase' = [phase EXCEPT ![h] = "gone"]
  /\ files' = [files EXCEPT ![Dir(h)] = {}]
  /\ Untrack(h)
  /\ UNCHANGED <<entries, inflight, awaits, draining, rpc, on, closerVars>>

\* rm -r fails part way; the failure is swallowed.
RemoveFails(h) ==
  /\ phase[h] = "removing"
  /\ phase' = [phase EXCEPT ![h] = "leaked"]
  /\ \E left \in SUBSET files[Dir(h)] : files' = [files EXCEPT ![Dir(h)] = left]
  /\ Untrack(h)
  /\ UNCHANGED <<entries, inflight, awaits, draining, rpc, on, closerVars>>

------------------------------------------------------------------------------
(* clear() and whenTornDown() *)

\* Mutant: clear() does not settle the pending opens first.
ClearTurn_NoSettle(c) ==
  /\ cpc' = [cpc EXCEPT ![c] = "disposing"]
  /\ cwait' = [cwait EXCEPT ![c] = Cached]
  /\ entries' = <<>>
  /\ Track(Cached)
  /\ Disposing(Cached)
  /\ phase' = [h \in Handles |-> IF h \in Cached THEN "draining" ELSE phase[h]]
  /\ UNCHANGED <<inflight, awaits>>

\* The loop of clear(): while opens are pending await them all; then dispose
\* and track every cached handle and empty the map, in one turn.
ClearTurn(c) ==
  IF InFlight # {}
  THEN /\ cpc' = [cpc EXCEPT ![c] = "settling"]
       /\ cwait' = [cwait EXCEPT ![c] = InFlight]
       /\ UNCHANGED <<registryVars, draining>>
  ELSE /\ cpc' = [cpc EXCEPT ![c] = "disposing"]
       /\ cwait' = [cwait EXCEPT ![c] = Cached]
       /\ entries' = <<>>
       /\ Track(Cached)
       /\ Disposing(Cached)
       /\ phase' = [h \in Handles |-> IF h \in Cached THEN "draining" ELSE phase[h]]
       /\ UNCHANGED <<inflight, awaits>>

\* clear() promises the teardown of every handle opened or being opened now.
ClearCalled(c) ==
  /\ cpc[c] = "idle"
  /\ owed' = [owed EXCEPT ![c] = {h \in Handles : phase[h] \in Owing}]
  /\ ClearTurn(c)
  /\ UNCHANGED <<files, rpc, on>>

ClearResumes(c) ==
  /\ cpc[c] = "settling"
  /\ cwait[c] \cap InFlight = {}
  /\ ClearTurn(c)
  /\ UNCHANGED <<owed, files, rpc, on>>

\* Promise.all(teardowns) resolves: drain whatever is tracked now.
ClearDrains(c) ==
  /\ cpc[c] = "disposing"
  /\ \A h \in cwait[c] : phase[h] \in Settled
  /\ cpc' = [cpc EXCEPT ![c] = "awaiting"]
  /\ cwait' = [cwait EXCEPT ![c] = Tracked]
  /\ UNCHANGED <<registryVars, storeVars, owed>>

\* whenTornDown() promises the end of the teardowns started by then.
WhenTornDownCalled(c) ==
  /\ cpc[c] = "idle"
  /\ owed' = [owed EXCEPT ![c] = {h \in Handles : phase[h] \in Closed \ Settled}]
  /\ cpc' = [cpc EXCEPT ![c] = "awaiting"]
  /\ cwait' = [cwait EXCEPT ![c] = Tracked]
  /\ UNCHANGED <<registryVars, storeVars>>

\* The last allSettled of clear() or whenTornDown() resolves.
CloserReturns(c) ==
  /\ cpc[c] = "awaiting"
  /\ \A h \in cwait[c] : phase[h] \in Settled
  /\ cpc' = [cpc EXCEPT ![c] = "returned"]
  /\ cwait' = [cwait EXCEPT ![c] = {}]
  /\ UNCHANGED <<registryVars, storeVars, owed>>

------------------------------------------------------------------------------
Next ==
  \/ \E id \in Ids : OpenCached(id)
  \/ \E h \in Handles :
       \/ OpenNew(h) \/ StartBuild(h) \/ BuildFails(h) \/ BuildSucceeds(h)
       \/ OpenSettles(h) \/ StartRemove(h) \/ RemoveSucceeds(h) \/ RemoveFails(h)
  \/ \E r \in Readers :
       \/ \E h \in Handles : StartRead(r, h)
       \/ LookupHit(r) \/ LookupMiss(r)
       \/ FetchSkipsWrite(r) \/ FetchWrites(r) \/ WriteDone(r)
  \/ \E c \in Closers :
       \/ ClearCalled(c) \/ ClearResumes(c) \/ ClearDrains(c)
       \/ WhenTornDownCalled(c) \/ CloserReturns(c)

Spec == Init /\ [][Next]_vars

\* Every promise the program awaits settles: the event loop runs each resumed
\* continuation, and backends and the file system answer or fail. No fairness
\* on new calls: nobody is obliged to open, read or clear.
Fairness ==
  /\ \A h \in Handles :
       /\ WF_vars(StartBuild(h))
       /\ WF_vars(BuildFails(h) \/ BuildSucceeds(h))
       /\ WF_vars(OpenSettles(h))
       /\ WF_vars(StartRemove(h))
       /\ WF_vars(RemoveSucceeds(h) \/ RemoveFails(h))
  /\ \A r \in Readers :
       /\ WF_vars(LookupHit(r) \/ LookupMiss(r))
       /\ WF_vars(FetchSkipsWrite(r) \/ FetchWrites(r))
       /\ WF_vars(WriteDone(r))
  /\ \A c \in Closers :
       WF_vars(ClearResumes(c) \/ ClearDrains(c) \/ CloserReturns(c))

FairSpec == Spec /\ Fairness

\* dispose() is public and documented as safe to call more than once: callers
\* may dispose a handle themselves, live or already torn down. Such a call is
\* not tracked by the registry.
DisposeCalled(h) ==
  /\ phase[h] \in {"live"} \cup Settled
  /\ phase' = [phase EXCEPT ![h] = "draining"]
  /\ Disposing({h})
  /\ UNCHANGED <<entries, inflight, teardowns, awaits, files, rpc, on, closerVars>>

SpecWithDispose == Init /\ [][Next \/ \E h \in Handles : DisposeCalled(h)]_vars

------------------------------------------------------------------------------
(* Properties *)

Tenants == {"live", "draining", "removing"}   \* handles that may touch the directory

\* While a teardown removes the directory of an id, no other handle of the id
\* can use it: open() waits for the tracked teardown before it builds.
RemovalIsExclusive ==
  \A h1, h2 \in Handles :
    /\ phase[h1] = "removing" /\ phase[h2] \in Tenants /\ Dir(h1) = Dir(h2)
    => h1 = h2

\* A directory that was removed stays free of the files of its old handle:
\* clearCache() drains the fetches it found and the others see `closed`.
NoResurrection ==
  \A h \in Handles : phase[h] = "gone" => h \notin files[Dir(h)]

\* What open() serves from the cache is the one open handle of its id, within
\* the cap, with no teardown of the id pending and no second build under way.
CachedHandlesSound ==
  /\ Len(entries) <= MaxDatasets
  /\ \A i \in 1..Len(entries) :
       /\ phase[entries[i]] = "live"
       /\ teardowns[Dir(entries[i])] = NoHandle
       /\ \A h \in Handles :
            /\ Dir(h) = Dir(entries[i])
            /\ phase[h] \in {"waiting", "building", "live"}
            => h = entries[i]

\* When clear() resolves, every handle opened or being opened at its call is
\* torn down; when whenTornDown() resolves, every teardown begun by its call.
ReturnedMeansTornDown ==
  \A c \in Closers : cpc[c] = "returned" =>
    \A h \in owed[c] : phase[h] \in Settled \cup {"failed"}

\* track() never replaces a pending teardown of an id by another one: the
\* registry never has two teardowns of one directory under way.
TrackNeverReplaces ==
  [][\A id \in Ids : teardowns[id] # NoHandle =>
       teardowns'[id] \in {teardowns[id], NoHandle}]_vars

\* The handle that may touch the id's directory when the phases are p.
HolderOf(p, id) ==
  IF \E h \in Handles : Dir(h) = id /\ p[h] \in Tenants
  THEN CHOOSE h \in Handles : Dir(h) = id /\ p[h] \in Tenants
  ELSE NoHandle

\* The directory of an id is leased to one handle at a time.
Lease == INSTANCE DirectoryLease WITH
  Owners <- Handles, Nobody <- NoHandle,
  holder <- [id \in Ids |-> HolderOf(phase, id)]
LeaseSpec == Lease!Spec

\* Nobody waits for ever on a ring of opens, teardowns and reads: every open()
\* settles, also when it waits for the teardown of its id, every eviction's teardown
\* does, whatever reads it has to drain, and clear() and whenTornDown() return.
WaitsEnd ==
  /\ \A h \in Handles : phase[h] \in {"waiting", "building"} ~> inflight[Dir(h)] # h
  /\ \A h \in Handles : phase[h] = "draining" ~> phase[h] \in Settled
  /\ \A c \in Closers : cpc[c] # "idle" ~> cpc[c] = "returned"

------------------------------------------------------------------------------
(* The inductive invariant behind the safety properties *)

\* The maps agree with the life of the handles they hold.
MapsInv ==
  /\ \A h \in Handles : phase[h] \in {"waiting", "building"} => inflight[Dir(h)] = h
  /\ \A id \in Ids : inflight[id] # NoHandle => Dir(inflight[id]) = id
  /\ \A h \in Handles : phase[h] \in {"draining", "removing"} <=> teardowns[Dir(h)] = h
  /\ \A id \in Ids : teardowns[id] # NoHandle => Dir(teardowns[id]) = id

\* entries lists the live handles once each, within the cap.
EntriesInv ==
  /\ Len(entries) <= MaxDatasets
  /\ \A h \in Handles : phase[h] = "live" <=> \E i \in 1..Len(entries) : entries[i] = h
  /\ \A i, j \in 1..Len(entries) : entries[i] = entries[j] => i = j

\* An id has one open or opening handle; past the wait no teardown is pending,
\* and during it the only one that can be pending is the awaited one.
TenancyInv ==
  /\ \A h1, h2 \in Handles :
       /\ Dir(h1) = Dir(h2)
       /\ phase[h1] \in {"waiting", "building", "live"}
       /\ phase[h2] \in {"waiting", "building", "live"}
       => h1 = h2
  /\ \A h \in Handles : phase[h] \in {"building", "live"} => teardowns[Dir(h)] = NoHandle
  /\ \A h \in Handles : phase[h] = "waiting" =>
       /\ awaits[h] \in Handles
       /\ phase[awaits[h]] \in Closed
       /\ teardowns[Dir(h)] \in {NoHandle, awaits[h]}

\* A write under way belongs to an open store or is awaited by its teardown.
ReadersInv ==
  \A r \in Readers :
    /\ rpc[r] # "idle" => on[r] \in Handles /\ phase[on[r]] \in {"live"} \cup Closed
    /\ rpc[r] = "writing" => \/ phase[on[r]] = "live"
                             \/ phase[on[r]] = "draining" /\ r \in draining[on[r]]

\* What a pending clear() or whenTornDown() owes is still on its way out.
ClosersInv ==
  \A c \in Closers : \A h \in owed[c] :
    /\ cpc[c] = "settling"  => phase[h] # "fresh"
    /\ cpc[c] = "disposing" => phase[h] \in Closed \cup {"failed"}
    /\ cpc[c] = "awaiting"  => h \in cwait[c] \/ phase[h] \in Settled \cup {"failed"}

Inv ==
  /\ TypeOK
  /\ MapsInv
  /\ EntriesInv
  /\ TenancyInv
  /\ ReadersInv
  /\ ClosersInv
  /\ NoResurrection
  /\ ReturnedMeansTornDown
==============================================================================
