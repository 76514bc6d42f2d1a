# A verification of zarr-node

zarr-node reads Zarr v2 arrays from object stores, HTTP servers, file systems
and reference manifests. It is a library for one Node.js process: a single
thread runs the program, everything that waits is a promise, and the hard
behaviours come from what other turns of the event loop do between two awaits.
Only decoding leaves that thread.

This directory holds TLA+ models of the parts that keep state across awaits
(registry, chunk loader and byte limiter, decode pool, retrying stores under a
disk cache and a shared metadata cache, the opening of groups, arrays and grids,
decoded arrays over a byte-bounded cache) and of the arithmetic that decides
which chunks a read fetches, where their elements go, which cells a polygon
selects and which one is nearest to a point. TLC checks the models on small
instances and TLAPS proves their safety properties for every value of the
constants. Paths below are relative to `src/src/`.

Run from this directory:

    tlc -workers 2 -config MCDatasetRegistry.cfg MCDatasetRegistry.tla
    tlapm DatasetRegistryProofs.tla

`PROJECT.json` lists every run with what it shows, every definition with the
lines it models, the hazards of the code with the properties that cover them,
a mutation of the code per property that the property catches, and the theorems.

## 1. Inventory

| Part | State it keeps | Operations | What is hard about it | What makes it correct |
|---|---|---|---|---|
| `dataset/registry.ts` ZarrDatasetRegistry | `entries` (LRU map of handles), `inflight` (pending opens), `teardowns` (tracked disposals) | `open`, `clear`, `whenTornDown` | an id is re-opened while its evicted handle is torn down; `clear()` meets opens that are still pending; caps with concurrent opens | one handle at a time owns the directory of an id; `clear()` keeps its promise; everything settles |
| `dataset/registry.ts` ManagedDataset | decoded-array maps, in-flight decodes, its memory cache and store | `read`, `decodedArray`, `dispose` | `dispose()` between the start and the end of a decode | one decode per key; a disposed handle holds nothing |
| `cache/cached-store.ts` CachedStore | in-flight fetches, `closed` | `get`, `getRange`, `clearCache` | reads of one chunk that miss at different times; a fetch that outlives the teardown of its directory | one fetch at a time; a removed directory stays removed |
| `cache/disk.ts` DiskCache | files of one directory per store | `get`, `set`, `clear`, eviction by size | failures and kills part way, several processes, files that vanish | what is read was written whole; no failure of it fails a read |
| `chunk/limiter.ts` ByteLimiter | `available`, FIFO of waiters | `acquire`, `release` | requests larger than the budget, wake-ups, fairness | bytes are conserved; nobody overtakes; nobody waits for nothing |
| `chunk/loader.ts` loadChunks | `index`, `inFlight`, `failed`, first error | one call per read | a failure while siblings fetch, decode or queue | a settled read has nothing in flight; every path gives its bytes back |
| `group.ts` readMultiple | one shared limiter | reads several arrays | one read fails while its siblings still run | the call settles after all of them |
| `codec/decode-pool.ts` DecodePool | `workers`, `idle`, `queue`, the job of each thread | `decode`, `terminate`, event handlers | threads that die, late answers, `terminate()` at any time | no job is lost or answered twice; no thread is forgotten |
| `array.ts`, `chunk/indexing.ts` | the output of a read | `get` | edges, selections, padded chunks, byte ranges, C and F order, chunks in any order | exactly the needed chunks, every element where it belongs |
| `cache/memory.ts` MemoryCache, InMemoryCache | byte-bounded LRU, expiry times | `get`, `set`, `delete`, `clear` | accounting of replaced and of empty values | the byte count is exact and bounded |
| `cache/read-through.ts`, `redis/index.ts` | a shared cache of metadata | `readMetadataThrough` | failing, evicting and expiring caches, absence that is cached | a cache failure never fails a read; a fault is never cached, nor taken for absence |
| `open.ts`, `metadata/consolidated.ts`, `group.ts` lookups | the group's path and consolidated metadata | `open`, `openGroup`, `openArray`, `getArray`, `getGroup`, `arrays`, `groups`, `contains`, `readMultiple` | `.zmetadata` that lacks what the store has; requests that fail part way; stores that disagree on what an error is | what is found, and what is said to be missing, is what the store has and lacks |
| `store/retry.ts`, `store/http.ts`, `store/s3.ts` | attempts, deadlines, a lazily created client | `get`, `has`, `head`, `getRange`, `list`, `prewarm` | a late answer meets a timeout; a failed client is kept | bounded attempts, absent is not an error, an error is not absence |
| `spatial/polygon-reader.ts` | a resolved selection | `resolve`, `readPolygon` | index ranges and strides at the edges of a grid | the cells returned are the selected ones |
| `spatial/grid-index.ts` | a cached grid, the index | `fromGroup`, `loadCached`, `nearest` | a cached grid of another dataset; cells without coordinates, ties | the grid is the dataset's own; the cell is the nearest |
| `store/reference.ts`, `store/filesystem.ts` | a map of clients | `get`, `has`, `list` | they do not agree on what is absent | as for the opening of groups |
| codecs, dtypes, metadata parsing, errors, hooks | none | conversions | none of it spans an await with state | pure input and output |

How they interact. The registry builds a handle from a CachedStore over a
backend and a group opened on it; a handle reads arrays; a read turns a
selection into chunk tasks (`chunk/indexing.ts`) and gives them to `loadChunks`,
which reserves bytes of a limiter (its own, or the one `readMultiple` shares),
fetches from the store, decodes on the pool and calls back to copy the chunk
into the output. Eviction disposes a handle, which closes its store, drains the
store's fetches and removes the directory, while later opens of the id wait.

## 2. Modules

| Module | Models | Extends / instantiates |
|---|---|---|
| `DirectoryLease` | abstract: a directory has one holder at a time, and is removed before it is leased again | - |
| `DatasetRegistry` | registry, plus the part of CachedStore and DiskCache its teardown depends on | INSTANCE `DirectoryLease` |
| `ByteBudget` | abstract: a budget granted in FIFO order | - |
| `ByteLimiter` | `acquire`, `release`, `pump` as operators on the budget and the queue | - |
| `ChunkLoader` | `loadChunks`, `processTask`, `readMultiple` over one limiter | EXTENDS `ByteLimiter`, INSTANCE `ByteBudget` |
| `DecodeService` | abstract: what a caller of the pool sees | - |
| `DecodePool` | pool, threads and their messages | INSTANCE `DecodeService` |
| `ArrayRead` | which chunks a read asks for and where their elements go | - |
| `RetryingStore` | `get`, `getRange`, `has`, `head` and `prewarm` of the HTTP and S3 stores over the retry policy | - |
| `MetadataRead` | `readMetadataThrough` and its shared cache | EXTENDS `RetryingStore` |
| `CachedStore` | `CachedStore` over `DiskCache` and a directory | EXTENDS `RetryingStore` |
| `Lookup` | abstract: an atomic lookup of a key, answered once | - |
| `Storage` | the two on one store, as a dataset uses them | EXTENDS `MetadataRead`, `CachedStore`, INSTANCE `Lookup` |
| `Opening` | groups and arrays, with and without consolidated metadata | - |
| `GridIndex` | the grid of a group, its cache and `nearest` | EXTENDS `Opening` |
| `InMemoryCache` | the byte-bounded LRU and its expiry times as operators | - |
| `DecodedArrays` | `decodedArray()` and `dispose()` of the handles over one shared cache | EXTENDS `InMemoryCache` |
| `PolygonRead` | `resolvePolygonCells`, `readPolygon` | - |
| `MC*` | the constants of the small instances (`MCReading`: of array and polygon reads, one beside the other) | EXTEND the above |
| `FoldTheorems` | folds and recursive functions, proved by induction over intervals and finite sets | - |
| `*Proofs` | the theorems (`GroupProofs`: of `Opening` and `GridIndex`; `ReadProofs`: of `ArrayRead` and `PolygonRead`) | EXTEND the above and TLAPS |

### Conventions

An action is one turn of the event loop: the code between two awaits of one
asynchronous function, with every call it makes. A promise that is awaited is a
state the awaiting function is suspended in. Failures (backend, file system,
decoder) are alternatives of the action that meets them. `X_Something`
operators marked "Mutant" are changes of `X` a bug could make; no specification
uses them, they are the variants the properties are tested with.

### DatasetRegistry

A handle `<<id, n>>` is the n-th run of `build()` for `id`; all handles of an id
share the directory derived from the id. `entries`, `inflight`, `teardowns` are
the maps of the class, `entries` a sequence because a JavaScript Map keeps
insertion order and the code uses it as the LRU order. `phase` is the life of a
handle: fresh, waiting (for the teardown its open is chained on), building,
live, draining (in `clearCache`, its fetches not yet settled), removing (`rm -r`
running), gone or leaked (the removal failed and was swallowed). The reader
processes are `CachedStore.get` calls suspended in the disk lookup, the backend
fetch or the disk write; the closers are calls of `clear()` and
`whenTornDown()`. `files` says which handles have files in the directory of an
id, `owed` is a history variable: what a closer promised at its call.

Not represented because it adds no state: an open that joins a pending one; a
cached handle returned. With no disk tier the teardown is immediate and the
directory hazards vanish, so the tier is always configured. One key per reader:
two reads of one key share a fetch, which is the `inflight` map again.

### ByteLimiter and ChunkLoader

`ByteLimiter` gives the limiter as operators over `available` and `waiters` so
that the loader composes with it by calling them, as the code does. A task of
`ChunkLoader` is a chunk of a read; `pc` is where its `processTask` is
suspended. `failed`, `index` and `outcome` are the variables of `loadChunks`,
`delivered` and `missing` record the effects on the output. The launches of one
turn of the scheduler are separate steps: they only reserve bytes, nothing else
runs in between in the code, so the model has more interleavings than the
program. A memory-cache hit is a choice. `CallSettles` is `readMultiple`'s wait
for all its reads.

### DecodePool

`workers`, `queue`, `started`, `terminated` are the fields of the class; `idle`
counts the occurrences of each thread in the idle list, whose order the code
uses only to pick one (it pops the last; here any, which allows more).
`thread` is the life of a thread: absent, up, crashed (its error event not yet
delivered), gone. `requests` and `inbox` are the two directions of its message
port. Messages and the error event travel apart, so an answer may arrive before
or after the error event of the same thread. A thread may crash at start-up or
with a job, as long as `Workers` holds a replacement: the set of threads is the
bound on deaths. A throw of `new Worker` is modelled where a caller sees it (the
first start); in the handler of an error event it is an uncaught exception that
ends the process, which the model leaves out.

### ArrayRead

An element is its index in the array, so an output shows which elements were
copied where. `Reads` is a set of reads: shape, chunk shape, order, selection,
whether the array can use byte ranges. The chunk ranges, the byte-range test,
the offset, the strides and the three copy loops (whole read, whole chunk of a
slice, byte range of a slice) are operators with the names of the functions they
translate; the reference they are checked against is the definition of C and F
order (`Position`), of a padded stored chunk (`StoredElement`) and of a
selection (`Selected`, `ChunkOf`). Chunks arrive in any order, or are absent,
and a chunk with a byte range may be found whole in the memory cache. A full
read is the selection of everything, copied by its own loop. Element size is
scaled out and dtype conversion is not modelled.

### RetryingStore, MetadataRead, CachedStore, Storage

`RetryingStore` follows a call through its attempts: waiting for S3's client,
for the response, for the body, in a backoff, settled. `transport` says which
store is meant, `asks` which operation a call is of; what differs is a guard: S3
has a client to wait for and the body inside its retry loop, HTTP reads the body
after the loop, checks the length of a range and has a `has()` that answers
false after a fault (`Swallows`). Every fault the classification (`isRetryable`)
tells apart is transient or permanent; `fault` remembers the last one and where
it struck. The deadline of an attempt is a transient fault that is sure to come,
so `Deadline` is `TransientFault` under fairness. Lengths of backoffs are
abstracted.

`MetadataRead` puts `readMetadataThrough` on top. Its calls share one cache entry
(the key's), which any of them, in this process or another, may write, and which
may vanish at any time (eviction and TTL). `ABSENT` is the entry "absent". A
lookup that rejects is a lookup that misses. What is stored under a key does not
change: the documentation asks for a store identity that names the version
(`cache/read-through.ts:19-28`). So the staleness of a cached absence when the
key is created later under the same identity is outside the model: the code
keeps such an entry until its TTL, if there is one.

`CachedStore` puts the disk cache on top. `file` and `tmp` are the chunk's file
and the temporary file of this process: whether they are there and whole is all
that is kept of them. `gpc` is where a `get()` is suspended: in `stat`, in
`readFile`, after a miss, in the fetch, in the steps of `DiskCache.set`
(`mkdir`, `writeFile`, `rename`, the cleanup, the eviction), joined to another's
fetch. `inflight` is the map's entry, `drains` what `clearCache()` awaits. Every
file operation may fail. `OtherProcess` stands for whatever another process does
to the directory, `Restarts` for a kill and a new start that finds the files as
they are, a half-written temporary file among them. Which files the eviction
takes depends on the sizes of others, so it takes the chunk's or not. With no
TTL the age of a file is simply not looked at. `metadata` in `Storage` says of
which kind the key is: a metadata key never reaches the disk, a chunk never the
shared cache.

`DatasetRegistry` models the same store by what its teardown depends on, per
handle and with several directories; `CachedStore` models one directory file
operation by file operation. `ClearedStaysGone` here is `NoResurrection` there.

`Lookup` is what the callers of a key see of all this: a call is asked, is
answered once with what the key has or fails, the callers of one fetch are
answered in one step and alike, and a kill ends every call. The mapping
(`OutcomeOf`) takes a call to its answer in the outermost layer that it goes
through: the store's for `getRange`, `has` and `head`, the metadata read's or
the disk cache's for `get`. `lenient` are the calls of HTTP's `has()`, which may
answer that a key is absent after a fault.

### Opening and GridIndex

A `world` is a store and what it holds: its keys, as pairs of a path and a name,
those that `.zmetadata` lists, those that do not parse, and for a reference store
those whose target is gone. Requests are steps; each may fail, which `faulted`
records. The four kinds of store differ as their code does: the file system has
ENOENT for absent and throws on other errors (a plain file in place of a
directory is one), answers false to `has()` and lists nothing when it cannot; the
HTTP store has no listing; the S3 store throws; the reference store looks into
its map. With a shared metadata cache `hasMeta()` asks with `get()`. That a
cached answer is the store's is `Truthful` of `Storage`, so the cache itself is
not repeated. The calls of a group share nothing that changes, so one call at a
time shows what all of them can do; the order of a loop over children is any. A
document that does not parse and a codec that is not known are both `corrupt`.

`GridIndex` uses `Opening` for `getArray()` of the two coordinate arrays and
adds the load: the shapes, the key, the corner samples of `verifyGrid`, the
shared cache with its entry, the two reads, the write. `Datasets` are those that
share a cache; they differ in what the key is made of and in their coordinates.
Each is loaded under its own key, here or in another process: `OtherPod` writes
the grid of any of them whose key is that of the dataset at hand, so it is the
key alone, as the code derives it, that keeps grids apart. `owner` is a history
of whose coordinates a grid has; nothing but the properties looks at it.
`GridIsOwn` says what a load may rely on, `Unambiguous` where the key can be read
in one way only, and `OverridesKeepApart` what the code says of a `gridKey`
(finding 5).
Strings of keys are sequences of symbols, so that what `sanitize` drops and what
`join("-")` confuses are in the model; the 64 bits of the hash are taken to tell
apart what is hashed. Of coordinates only the distances to the point asked for
are kept, `NaN` among them: `nearest()` is the loop over them, cell by cell.

### InMemoryCache and DecodedArrays

`InMemoryCache` gives `get` and `set` as operators on the map, its byte count,
the expiries and the clock; the eviction loop is the shortest prefix of the
entries that has to go (`Evicted`). A value is what its cost tells apart: an
array, a document, the marker of an absence. `DecodedArrays` puts
`decodedArray()` on top: the map of a handle (L1), its in-flight map and the
shared cache (L2), which the metadata read-through also uses. `pc` is where the
load that a call has started is suspended. The shared cache is the in-process
one, whose answers the code awaits all the same; like Redis it may also reject.
`dispose()` empties the two maps and leaves the loads running; when one of them
ends, its `finally` drops whatever entry the key has by then, which may be that
of a newer load. `cut` records the loads under way at a dispose, a history
variable. The key of L2 is that of L1; `Shared` are the keys given with a
`cacheKey`. The handle's cache of chunks is a choice of `ChunkLoader`, and an
empty array, which L2 does not return, is not represented.

### PolygonRead

The options of a call (layout, ring, budget, mode) are a `query`; the geometry
is translated operator by operator over integers: centres are even, so that the
midpoints between them, the crossings of a ray and the orientations are exact
and rounding cannot decide. (Any finite set of coordinates can be scaled to
such. The theorems hold of all integers.) The four binary searches of an axis and that of the
stride are one operator, `Bisect`. Axes are monotonic, in either direction and
with repetitions, which `axisRange` asks of them (`Monotonic`): on any other the
binary search finds nothing in particular. A behaviour resolves a selection, lowers the
stride while nothing is kept, and streams the time steps, either of the same
call or of another `readPolygon` that is given the selection. An element is its
index and `Block` is what `arr.get()` returns, fill values where the ranges
leave the array (`ArrayRead` shows this of ranges within it). What a cell inside
is meant to be is stated by other means than the code's: a ray in the other
direction, and the points with integer coordinates of a footprint.

## 3. Runs

| Run | Instance | Shows |
|---|---|---|
| `registry` | 2 ids, one built twice and one once, cap 1, 1 reader, 1 closer, fair | `RemovalIsExclusive`, `CachedHandlesSound`, `ReturnedMeansTornDown`, `NoResurrection`, `TrackNeverReplaces`, refinement `LeaseSpec`, `WaitsEnd` |
| `registry_dispose` | callers also call `dispose()` | violates `RemovalIsExclusive` (finding 1) |
| `loader` | 2 reads of 3 and 2 chunks, budget 3, concurrency 2, strict, fair | `BudgetExact`, `WaitersAreBlocked`, `SettledDrained`, `NothingAfterFailure`, refinement `BudgetSpec`, `CallSettlesEventually` |
| `pool` | 2 threads, 1 replacement, 4 jobs, fair | `JobsAccounted`, `WorkConserving`, `NoThreadLeaks`, `PoolKeepsSize`, refinement `ServiceSpec`, `JobsSettle` |
| `pool_spawn` | 1 thread, 2 jobs | violates `QueuedJobsHaveThreads` (finding 2) |
| `reads` | arrays: all 1-D arrays up to 5 with chunks up to 3 and every selection, 2-D and 3-D samples, both orders, byte ranges or not; polygons: 220 triangles and 5 other rings, 5 layouts of up to 3 by 3 cells, both modes, budgets, 7 calls | `TasksExact`, `OutputExact`; `SelectionExact`, `ValuesAligned` |
| `array_empty` | the arrays of `reads`, up to 2 | violates `EmptyReadAsksNothing` (finding 3) |
| `storage` | a read of metadata or of a chunk beside a second one, or beside a range read, `has` or `head` of the key, 1 retry, both transports, any state of the directory, fair | `Truthful`, `FailuresJustified`, `OneFetch`, `ClearedStaysGone`, refinement `LookupSpec`, `CallsSettle` |
| `opening` | a tree of 3 arrays and a sub-group, with a plain file, 4 stores, with and without `.zmetadata`; 10 datasets of up to 4 cells | `AnswersAreTheStores`, `FailuresHaveCause`, `GridIsOwn`, `NearestExact` |
| `grid_key` | the same | violates `OverridesKeepApart` (finding 5) |
| `decoded` | 3 calls for one coordinate of a handle, 1 on another handle, 1 without L2; 3 bytes, 2 instants | `BytesExact`, `DedupSound` |
| `polygon_budget` | the polygons of `reads` | violates `BudgetKept` (finding 4) |

`reads` checks two components in one run: array reads and polygon reads share no
state, so each is run from its own initial states while the other one rests, and
no interleaving of the two is lost.

Every component has a type invariant, checked by its passing run: `TypeOK`,
`StorageTypeOK`, `GridTypeOK`, or a part of `OutputExact`, `SelectionExact`,
`BytesExact` and `DedupSound`.

Why the bounds are enough for what is asked. Registry: an eviction needs two
ids under a cap of one, a re-open during a teardown needs two handles of one id,
and a write into a removed directory needs a reader that started before it; a
third handle of an id would have to wait for the second as the second did for
the first, and the id that evicts need not be built again. Loader: a budget of 3 with costs 2, 1 and 5 (clamped to 3) makes
requests fit, queue, overtake if they could, and exceed the budget; two reads
share it and a concurrency of 2 leaves tasks unlaunched when a sibling fails.
Pool: with two threads and four jobs two jobs are queued while one thread dies
and its replacement takes one over. Arrays: three chunks of which the last is an
edge, selections that begin and end inside a chunk, on its boundary and that are
empty, an inner dimension whose edge chunk is padded. Storage: two reads share
the cache's entry or the file, so that one meets what the other wrote, lost or
has under way between its own lookup and write; a call of another operation
shares the client they wait for; and one retry gives a call a first, a retried
and a last attempt's fault. More calls would meet the same entry, file and map,
and a third reader joins a fetch as the second does. A kill is a step only when
it leaves a temporary file: after any other the process starts in an initial
state. Opening: the tree has a root array and one in a group, attributes that are
there or not, a group whose `.zgroup` may be missing and a plain file where an
array could be; `.zmetadata` is absent, complete or lacks any one document; one
document at a time does not parse, or one reference has no target. Two levels are
enough because a call looks at one path and the one above it. The session ends
with the load of a grid. Grids: every way for two keys to coincide (domains that
join alike, a dropped character) and to differ (shape, corner, domain without
ambiguity, gridKey), no coordinates at all, the nearest cell first, last and twice.
Decoded
arrays: of three calls for a key one is cut off by a dispose, one loses its
entry to the first, and one loads again; the entries of two keys do not fit
together. Polygons: three rows and columns have a middle and two edges, on axes
of uneven steps; the vertices lie on centres, on midpoints, between and outside,
and the other rings are concave, thin, crossing themselves, closed, and too
short. The proofs remove these bounds for the safety properties. The loader's run is strict (a missing chunk
fails); the proofs cover both.

Deadlock is not checked where the system may rest: a registry nobody calls, a
call that has settled, a read that is complete or rejected. `terminate()` can always be
called, so the pool's runs check it.

### Fairness

Registry: every promise the program awaits settles. The event loop runs a
resumed continuation, and the backend, the build and the file system answer or
fail (the stores have timeouts, `store/retry.ts`, and the file system is the
kernel's). Nobody is obliged to open, read or clear. The loop
of `clear()` (`dataset/registry.ts:344`) goes on while any open is pending, so
callers that never stop opening can keep it from returning; the bound on builds
excludes them, and what `WaitsEnd` says of `clear()` is said of callers that stop
at some point. Loader: each suspended task
that can go on does, and each `finally` runs. Decoders are taken to answer or
fail, which is not true of a pool without threads (finding 2). A task in the limiter's queue is
not assumed to be granted: `CallSettlesEventually` shows it is, since a call
settles with all its tasks. Pool: a live thread
answers what it was asked and its messages and error events are delivered; a
queued job is not assumed to be taken. Storage: the process's own timers fire
(`AbortSignal.timeout`, backoff), its continuations run, loading the S3 client
settles, and the shared cache and the file operations answer or fail. Nothing is
assumed of the backend or of another process: `CallsSettle` holds when they
never act. `Opening` states no liveness: each of its calls is a bounded sequence
of requests that `Storage` shows to settle.

## 4. Proofs

All theorems are checked by `tlapm` to the last leaf. Their assumptions are
those on the constants: a positive cap and a natural number of builds
(`CapAssumption`, `BuildsAssumption`: per id, a bound of the model that is any number), a positive capacity and concurrency
(`BoundsAssumption`; costs are any integers, the limiter clamps them), a finite
set of threads and a positive pool size, finitely many calls of
`decodedArray()` (`CallsAssumption`), reads with selections within their arrays
(`ReadsAssumption`), any number of retries (`RetriesAssumption`), worlds that are
stores (`WorldsAssumption`, `IsWorld`) and datasets with a distance per cell
(`DatasetsAssumption`, `IsDataset`), queries whose grids have coordinates of
their size, monotonic where they are axes, and whose rings have vertices
(`QueriesAssumption`, `CallsAssumption` of `PolygonRead`: neither the rings nor
the ranges need be valid, the code rejects those that are not), and that the "none" values are none of the others.

* `DatasetRegistryProofs`. `Inv` joins the type invariant with `MapsInv` (the
  three maps agree with the phases), `EntriesInv` (the cache lists the live
  handles once, within the cap), `TenancyInv` (an id has at most one handle that
  is waiting, building or live; past the wait no teardown is pending),
  `ReadersInv` (a disk write belongs to an open store, or its teardown awaits
  it) and `ClosersInv` (what a closer owes is on its way out). Mutual exclusion
  of a directory follows from `TenancyInv` and `MapsInv` but is not inductive
  alone: it is the `waiting` phase, chained on the one tracked teardown, that
  keeps a new handle out. `ReturnedMeansTornDown` needs `ClosersInv` because the
  promise is kept over several turns. From `Inv`: all the registry's safety
  properties, `TrackNeverReplaces` as an action property, and the refinement of
  `DirectoryLease` by one lemma per action.
* `ChunkLoaderProofs`. `BudgetExact` says free bytes and reserved bytes sum to
  the capacity. The sum is the cardinality of the set of pairs (task, byte)
  (`Size`), so that it needs no recursion and its additivity is a fact on finite
  sets. The pump is the longest prefix of the queue that fits (`Released`); the
  lemmas about it are shared by every action that ends a task (`EndsInv`).
  `Inv` adds `QueueInv` (the queue holds the queued tasks once, and its first
  does not fit), `LaunchInv`, `OutputInv` and `SettleInv`. `NeverStuck` is the
  absence of a lost wake-up, `BudgetReturned` that a settled call leaves nothing
  reserved, `FailureIsFinal` and `BudgetImplemented` are step properties.
* `DecodePoolProofs`. `JobsAccounted` is a bijection between pending jobs and
  places (positions of the queue and threads), `WorkConserving` fixes the idle
  list; with `PoolInv` and `NoThreadLeaks` they are inductive. Each handler's
  lemma moves one job between places (`Placement`). `ServiceImplemented` and
  `SizeKept` follow step by step.
* `FoldTheorems`. The strides, positions and sums of the models are recursive
  functions and folds of the community modules, which are CHOOSEs: that they
  satisfy their equations needs induction. The induction theorems of the library
  take an operator; here a property is a set and a step a function, which every
  prover can instantiate, and the induction itself is by a least counterexample
  (`LeastNumber`, `SmallestSubset`). `Recursion` and `FoldExists` give the
  functions, `FoldRemove` that the order of a commutative fold does not matter,
  `SumFacts` and `ProductFacts` the equations of the sums and products used.
* `ReadProofs`, array reads. `ChunksExact`: for every shape, chunk shape and non-empty
  selection the tasks are exactly the chunks that hold a selected element, from
  the characterisation of floor division (`DivIsChunk`) in one dimension and the
  product over dimensions. `OverlapExact`: what the sliced copy loops take from
  a chunk is exactly the selected elements of that chunk, so the parts of
  different chunks are disjoint and cover the selection. `OutputIsExact` adds
  where they go. A position is a number in mixed radix whose digits are the
  indices: digits are unique (`PositionInjectiveC`, `PositionInjectiveF`) and
  every number below the volume has them (`PositionCovers`). The strides of the
  code are the weights of the digits (`LinearC`, `LinearF`). So all three copy
  loops copy the pairs `Meant` names (`SliceCopiesMeant`, `FullCopiesMeant`,
  `PartialCopiesMeant`), of which no two meet. The invariant needed beside
  `OutputExact` is that a chunk is not both awaited and missing.
* `ReadProofs`, polygon reads. `PolygonInv` says that from its resolution on the
  selection is what `GatherCells` computes of the right box (`SelectionHolds`),
  that the input was accepted, that a given selection fits the array, and that
  the values are aligned; `StrideInv` that the stride is the one that is meant.
  `SelectionIsExact` and `ValuesAreAligned` follow by five arguments about the
  operators.
  (1) `Bisect` finds the end of an initial part of its interval (`PrefixSearch`),
  so by `Monotonic` the index ranges of an axis are exact (`AxisRangeHolds`).
  (2) No box loses a cell: a centre inside, and a footprint that the polygon
  overlaps, meet the envelope of the ring (`KeptInEnvelope`), the box has every
  cell whose centre or footprint does (`BoxKeeps`), and the filter over its
  samples loses and reorders none (`GatherLosesNone`). While nothing is kept the
  stride goes down, and at stride one every cell of the box is a sample.
  (3) The rule is that of the documentation. `RaysAgree`: off the ring, the rays
  from a point in the two directions are crossed by the same edges but for those
  with one end in the quadrant between them, and around the ring the ways into a
  quadrant and out of it are even in number. So being inside does not depend on
  the direction of the ray, which the property takes other than the code does.
  `CoverSound`: if no vertex is in a rectangle and no edge touches it, the edges
  that cross the ray from an inner point are those that cross it from the right
  side on (`RunsPastRight`), and, in the other direction, those that cross it
  from the side are those that cross it from the corner (`RunsPastUp`): the
  corner is inside if the point is.
  (4) The block of a step is in C order with the middle dimensions of length one,
  so a position is the row and the column in mixed radix (`BlockOfCell`), and a
  selection within bounds has no padded cell (`CellInArray`).
  (5) A larger stride samples no more cells of a box (`FewerSamples`), so the
  strides that fit a budget are all those from one on (`LargerFits`) and the
  bisection finds it (`StrideIsLeast`): the stride of the box's larger side
  leaves one sample, which every budget allows (`ExtremeStrides`). On the way
  down from it `StrideInv` keeps two facts, that no smaller stride fits and that
  every larger one up to the first that fits keeps no cell; a stride whose
  successor fits needs nothing. With them `SelectionExact` has what is true of
  the budget: a selection is within it if the stride it was taken with fits
  (finding 4 is the other case).
* `StorageProofs`. `Inv` joins `StoreInv` (a result comes with settling and is
  the truth or a failure with its reason; a body is awaited only of a key that is
  there; a backoff leaves a retry), `ReadInv` (a metadata read writes to the
  cache only what its settled call answered) and `DiskInv` (the in-flight entry
  is the one `get()` that fetches or writes; what is renamed is whole; while the
  store closes, only the `get()` that is waited for writes). `Truthful` needs all
  three: the directory holds no partial file because a rename is always that of
  a finished write, and it is always its own because of the one writer. The
  steps of a store call are of two shapes, one that suspends and one that
  settles; a lemma for each (`SuspendsInv`, `SettlesInv`) serves all of them.
  A step of the store does not change calls that have settled (`StoreFrame`),
  which is what carries `ReadInv` and `DiskInv` over it.
  `LookupImplemented` uses `Inv` of both ends of a step: a step of the store or
  of the metadata read shows as the call being asked, as its answer or not at
  all, because what settles is the truth, a failure or the absence of a lenient
  call. A step of the disk cache that ends the fetch answers the call and all
  that joined it, which is the abstract reply to a set of calls; the files, the
  other process and `clearCache()` stutter; a kill is the abstract crash.
* `GroupProofs`. Of `Opening`, `CallInv` says what a suspended call has learnt on its way
  (that open() looks for a group because the array is not there, that a probe
  which missed told the truth or was swallowed), `LoopInv` accounts for every
  child of an iteration: opened, to come, looked at now, or one of the exceptions
  of the code. The answers follow when the loop is over. Paths and trees are
  arbitrary, so the only facts about them are those on sequences.
  Of `GridIndex`, the load only makes steps that `Opening` makes
  (`ImplementsOpening`), so its theorems hold of groups while grids are loaded
  and are used for the two `getArray()`. `GridInv` keeps the cache's entry among
  the grids of the datasets with the same key (`Sharers`), `OwnInv` says that a
  load without the cache has what it read itself. `GridBelongs` then needs that
  the key tells those datasets apart (`SharersAlike`): a derived key has the
  shapes and, when verified, the corner as parts of their own; the domain is
  three attributes joined with "-", which can be read off the join if none of
  them is missing or has a "-" of its own (`DomainInjective`, by `DashStops`: a
  part ends at the first "-"); a gridKey of which nothing is dropped is its own
  key. Where that fails the theorem says nothing of the domain, and the code
  gives no more. `NearestCorrect`
  carries the statement of `NearestExact` over the loop for the first n cells
  (`FoundAmong`).

* `DecodedArraysProofs`. How many loads of a key run at once is bounded by
  counting: `StraysInv` says the loads the in-flight map does not lead to are no
  more than the loads that were cut off. Not every one of them was cut off
  itself: the end of a cut load makes a stray of a newer one, but it ends with
  that. So each end of a load takes one from the left side for the one it may
  add, and only a dispose adds to both. `JoinableLoads` is inductive beside it;
  together they are `DedupSound`. The cache beneath is a
  sequence of pairs: `RemovalFacts`, `AppendFacts` and `EvictionFacts` say what
  taking one out, adding one and dropping the oldest do to the keys and to the
  sum of the costs. `CacheInv` (`BytesExact` and the types) is kept by every
  operation, so by every interleaving; the entry just set is never evicted
  because `Evicted` stops before the last.

Only model-checked: the liveness properties `WaitsEnd`, `CallSettlesEventually`,
`JobsSettle` and `CallsSettle`: the prover has no fairness reasoning. Every
safety property of the passing runs has a theorem.

## 5. Findings

1. `registry_dispose` (`dataset/registry.ts:235`). `dispose()` is public, says
   "Safe to call more than once", and is not tracked by the registry: a second
   call on an evicted handle removes the directory under the handle opened
   since, which the comment at line 261 says can never happen.
2. `pool_spawn` (`codec/decode-pool.ts:142`). The pool counts as started before
   its threads exist. If the first `new Worker` throws, the call rejects, and
   every later `decode()` queues a job for a pool without threads: it never
   settles.
3. `array_empty` (`chunk/indexing.ts:43`). A dimension without chunks is walked
   once with `undefined`. Reading an array of length 0, or an empty selection at
   a chunk boundary, asks the store for a key that names no chunk: for a
   one-dimensional array it is the array's directory. In strict mode such a read
   fails.
4. `polygon_budget` (`spatial/polygon-reader.ts:938`). If no sample of the
   stride that fits the budget lies in the polygon, the stride is lowered until
   one does, and with it others may: more cells are returned than `maxCells`,
   which the specification of the reader rules out (SC-005).
5. `grid_key` (`spatial/grid-index.ts:299`). A `gridKey` is sanitized, and hashed
   only when nothing of it is left: `"a "` and `"a"` are one key, although the
   comment at lines 295-296 says that distinct overrides never collapse. The
   second load takes the grid of the first from the cache, whose shape is not
   compared with the arrays': cells and coordinates of another place.

Divergences met while modelling that have no run of their own, each visible in a
definition of the models:

* `store/http.ts:56`. The HTTP store reads the body after the retry loop: a
  connection that breaks there fails the call at once, where the S3 store
  retries it, although `store/retry.ts:4-6` says the attempts of both are
  identical (`Retried`).
* `cache/disk.ts:57`. The temporary file carries the process id alone. Two
  stores of one process on one directory, two sets of one `DiskCache` for one key
  (`tests/unit/disk-cache.test.ts:67-84` expects atomicity of them, with sizes at
  which it does not show), or containers with equal ids on a shared volume write
  to one temporary file; a rename of one may publish what the other has written
  so far, which a reader takes for the chunk, and which stays after a kill.
  Specification 003 (FR-008) asks for atomic writes. `CachedStore` takes writers
  to have different ids; within one store `OneFetch` makes it so.
* `cache/disk.ts:50`. A file that cannot be read is a miss and stays;
  specification 003 (line 133) wants a corrupt entry deleted. `cache/disk.ts:44`
  compares with `>`, so that a TTL of 0, which "expires immediately"
  (`cache/cached-store.ts:12`), serves a file within the millisecond it was
  written.
* `group.ts:120`. `readMultiple()` skips an array whose metadata could not be
  read as it skips a name that does not exist; specification 004 (FR-013, lines
  286-288) wants the error to name the array (`AnswersAreTheStores` has it as an
  exception, as it has `contains()` and the iterations over stores whose `has()`
  or `readdir()` swallow errors).
* `open.ts:181-186`. The root group's attributes have no fallback when
  `.zmetadata` lacks them, and iteration (`group.ts:166`) does not see a child
  without any entry; specification 002 (FR-005, lines 127-129) states the
  fallback for every key. `.zmetadata` is read after `.zgroup`, only in the root
  and only by `open()` and `openGroup()`.
* `store/reference.ts:77`. `has()` of a reference whose target is gone is true,
  `get()` null: `contains()` says an array is there that `getArray()` does not
  find, and `arrays()` throws half-way (`FailsForCause`).
* `spatial/grid-index.ts:346`. Domain attributes are joined with "-" and empty
  ones dropped, so that attributes in different places, or with a "-" of their
  own, give one domain (`Domain`), and datasets of different grids with equal
  shapes share an entry, unless `verifyGrid` compares a corner. The code warns of
  a domain that is empty, not of these (`Unambiguous` is where it cannot happen).

## 6. Not modelled, and why

Byte-level conversions (codecs, dtypes) and the formula of a distance on the
globe (floating point) are out of TLC's reach; that a metadata document parses
is a choice. The commands of the Redis adapter are those of an external client.
Byte ranges of files and the URLs of references keep no state, and the pages of
an S3 listing are taken as one request. Hooks are observers: `safeInvoke`
isolates them. The values 0 and NaN for concurrency and budget are excluded by
assumption and listed as hazards. The S3 store does not compare the length of a
range; its server is taken to honour the range.

## 7. Plan

In order of importance; each step ends with its run, its mutants and its proofs.

Done: registry and teardown, loader and limiter, decode pool, array reads, the
storage of a dataset (retrying stores, metadata read-through, disk cache) as an
atomic lookup, the opening of groups and arrays, the grid index, decoded arrays
over the in-process cache, polygon reads.

1. Theorem: a failed or empty read leaves the output as it was.
2. Several writers with one process id, as a violation of FR-008.
3. The pages of an S3 listing, each with its retries.
