---------------------------- MODULE CachedStore ----------------------------
(***************************************************************************)
(* CachedStore (src/src/cache/cached-store.ts) over DiskCache              *)
(* (src/src/cache/disk.ts): get() of one chunk, through a directory that   *)
(* outlives the process and that another process may use, above the        *)
(* network store of RetryingStore.                                         *)
(*                                                                         *)
(* Every file operation is a step and may fail. set() writes a temporary   *)
(* file that carries the process id and renames it, so the processes on a  *)
(* directory, and the stores of one process, are taken to have different   *)
(* ids: what happens when they have not is told in README.md.              *)
(***************************************************************************)
EXTENDS RetryingStore, FiniteSets

CONSTANT NoCall

ASSUME NoCallAssumption == NoCall \notin Calls

VARIABLES
  shared,    \* another process has used the directory (history)
  file,      \* the cached file: none, a part of the chunk, or all of it, of which
             \* the time to live has passed ("old") or not ("fresh")
  tmp,       \* the temporary file of this process
  gpc,       \* get() -> where it is suspended
  inflight,  \* CachedStore.inflight: the get() whose fetchAndCache() is in the map
  got,       \* get() -> what it resolved with, or that it failed
  closing,   \* clearCache(): not called, draining, or over, having removed the directory or not
  drains     \* the get() whose fetch it waits for

diskVars == <<shared, file, tmp, gpc, inflight, got, closing, drains>>
cachedVars == <<storeVars, diskVars>>

\* Where a get() is whose promise is in the map, and that of those it is to blame for.
InSet == {"mkdir", "writing", "rename", "cleanup", "evict"}
Fetching == {"fetch"} \cup InSet

DiskTypeOK ==
  /\ StoreTypeOK
  /\ shared \in BOOLEAN
  /\ file \in {"none", "part", "fresh", "old"}
  /\ tmp \in {"none", "part", "whole"}
  /\ gpc \in [Calls -> {"idle", "stat", "read", "missed", "inner", "joined", "done"} \cup Fetching]
  /\ inflight \in Calls \cup {NoCall}
  /\ got \in [Calls -> {"none", "value", "short", "absent", "failed"}]
  /\ closing \in {"open", "draining", "removed", "left"}
  /\ drains \in Calls \cup {NoCall}

\* The process finds the directory as an earlier one left it.
CachedInit ==
  /\ StoreInit
  /\ shared = FALSE
  /\ file \in IF present THEN {"none", "fresh", "old"} ELSE {"none"}
  /\ tmp = "none"
  /\ gpc = [c \in Calls |-> "idle"]
  /\ inflight = NoCall
  /\ got = [c \in Calls |-> "none"]
  /\ closing = "open"
  /\ drains = NoCall

closed == closing # "open"

\* get() moves on and nothing else of the cache changes.
Goes(c, from, at) ==
  /\ gpc[c] = from
  /\ gpc' = [gpc EXCEPT ![c] = at]

------------------------------------------------------------------------------
(* CachedStore.get(), with DiskCache.get() *)

\* A closed store serves from the backend.
GetBypasses(c) ==
  /\ closed
  /\ Goes(c, "idle", "inner")
  /\ Starts(c)
  /\ UNCHANGED <<shared, file, tmp, inflight, got, closing, drains>>

GetLooksUp(c) ==
  /\ ~closed
  /\ Goes(c, "idle", "stat")
  /\ UNCHANGED <<storeVars, shared, file, tmp, inflight, got, closing, drains>>

\* stat(): a file older than the TTL is not read.
Stats(c) ==
  /\ file # "none"
  /\ Goes(c, "stat", IF file = "old" THEN "missed" ELSE "read")
  /\ UNCHANGED <<storeVars, shared, file, tmp, inflight, got, closing, drains>>

\* stat() or readFile() fails, because the file is not there or for any reason.
LookupFails(c) ==
  /\ Goes(c, "stat", "missed") \/ Goes(c, "read", "missed")
  /\ UNCHANGED <<storeVars, shared, file, tmp, inflight, got, closing, drains>>

\* readFile() reads the file that it opened, whatever replaces it.
Hits(c) ==
  /\ file # "none"
  /\ Goes(c, "read", "done")
  /\ got' = [got EXCEPT ![c] = IF file = "part" THEN "short" ELSE "value"]
  /\ UNCHANGED <<storeVars, shared, file, tmp, inflight, closing, drains>>

Joins(c) ==
  /\ inflight # NoCall
  /\ Goes(c, "missed", "joined")
  /\ UNCHANGED <<storeVars, shared, file, tmp, inflight, got, closing, drains>>

\* Mutant: no request is shared.
Fetches_Always(c) ==
  /\ Goes(c, "missed", "fetch")
  /\ Starts(c)
  /\ inflight' = c
  /\ UNCHANGED <<shared, file, tmp, got, closing, drains>>

\* `closed` is not looked at again: the fetch of a store that was closed
\* meanwhile is one more that does not write.
Fetches(c) ==
  /\ inflight = NoCall
  /\ Goes(c, "missed", "fetch")
  /\ Starts(c)
  /\ inflight' = c
  /\ UNCHANGED <<shared, file, tmp, got, closing, drains>>

BypassAnswers(c) ==
  /\ pc[c] = "settled"
  /\ Goes(c, "inner", "done")
  /\ got' = [got EXCEPT ![c] = result[c]]
  /\ UNCHANGED <<storeVars, shared, file, tmp, inflight, closing, drains>>

------------------------------------------------------------------------------
(* fetchAndCache(), with DiskCache.set() *)

\* The promise settles, for everyone who awaits it, and leaves the map.
Finishes(c) ==
  /\ LET ends == {c} \cup {d \in Calls : gpc[d] = "joined"}
     IN /\ gpc' = [d \in Calls |-> IF d \in ends THEN "done" ELSE gpc[d]]
        /\ got' = [d \in Calls |-> IF d \in ends THEN result[c] ELSE got[d]]
  /\ inflight' = NoCall
  /\ UNCHANGED <<storeVars, shared, tmp, closing, drains>>

\* Mutant: fetchAndCache() does not look at `closed`.
FetchCaches_Closed(c) ==
  /\ pc[c] = "settled" /\ result[c] = "value"
  /\ Goes(c, "fetch", "mkdir")
  /\ UNCHANGED <<storeVars, shared, file, tmp, inflight, got, closing, drains>>

FetchCaches(c) ==
  /\ pc[c] = "settled" /\ result[c] = "value"
  /\ ~closed
  /\ Goes(c, "fetch", "mkdir")
  /\ UNCHANGED <<storeVars, shared, file, tmp, inflight, got, closing, drains>>

\* The chunk is absent, its fetch failed, or the store was closed meanwhile.
FetchSkipsCache(c) ==
  /\ gpc[c] = "fetch"
  /\ pc[c] = "settled"
  /\ result[c] # "value" \/ closed
  /\ Finishes(c)
  /\ UNCHANGED file

\* mkdir(), then writeFile() creates or truncates the temporary file.
OpensTemp(c) ==
  /\ Goes(c, "mkdir", "writing")
  /\ tmp' = "part"
  /\ UNCHANGED <<storeVars, shared, file, inflight, got, closing, drains>>

\* Mutant: the file itself is written, not a temporary one.
WritesTemp_InPlace(c) ==
  /\ Goes(c, "writing", "rename")
  /\ file' = "part"
  /\ UNCHANGED <<storeVars, shared, tmp, inflight, got, closing, drains>>

\* writeFile() ends. When another process has removed the file meanwhile, what
\* was written belongs to no name.
WritesTemp(c) ==
  /\ Goes(c, "writing", "rename")
  /\ tmp' = IF tmp = "none" THEN "none" ELSE "whole"
  /\ UNCHANGED <<storeVars, shared, file, inflight, got, closing, drains>>

Renames(c) ==
  /\ tmp # "none"
  /\ Goes(c, "rename", "evict")
  /\ file' = IF tmp = "whole" THEN "fresh" ELSE "part"
  /\ tmp' = "none"
  /\ UNCHANGED <<storeVars, shared, inflight, got, closing, drains>>

\* Mutant: a failing write rejects, and with it the read.
SetFails_Throws(c) ==
  /\ Goes(c, "mkdir", "done") \/ Goes(c, "writing", "done") \/ Goes(c, "rename", "done")
  /\ got' = [got EXCEPT ![c] = "failed"]
  /\ inflight' = NoCall
  /\ UNCHANGED <<storeVars, shared, file, tmp, closing, drains>>

\* mkdir(), writeFile() or rename() fails: the last one surely when the temporary
\* file is gone.
SetFails(c) ==
  /\ Goes(c, "mkdir", "cleanup") \/ Goes(c, "writing", "cleanup") \/ Goes(c, "rename", "cleanup")
  /\ UNCHANGED <<storeVars, shared, file, tmp, inflight, got, closing, drains>>

\* rm() of the temporary file, which may fail too.
CleansUp(c) ==
  /\ Goes(c, "cleanup", "evict")
  /\ tmp' \in {tmp, "none"}
  /\ UNCHANGED <<storeVars, shared, file, inflight, got, closing, drains>>

\* evictLRU() over scanDirectory(): the oldest files go until the rest fits, this
\* one or not (the directory's other files decide, and may each fail to be
\* removed). The own temporary file is not looked at. set() is over.
Evicts(c) ==
  /\ gpc[c] = "evict"
  /\ file' \in {file, "none"}
  /\ Finishes(c)

GetStep(c) ==
  \/ Stats(c) \/ LookupFails(c) \/ Hits(c)
  \/ Joins(c) \/ Fetches(c) \/ BypassAnswers(c)
  \/ FetchCaches(c) \/ FetchSkipsCache(c)
  \/ OpensTemp(c) \/ WritesTemp(c) \/ Renames(c) \/ SetFails(c) \/ CleansUp(c) \/ Evicts(c)

------------------------------------------------------------------------------
(* clearCache(), the other process, time, crashes *)

ClearCalled ==
  /\ closing = "open"
  /\ closing' = "draining"
  /\ drains' = inflight
  /\ UNCHANGED <<storeVars, shared, file, tmp, gpc, inflight, got>>

\* Mutant: the reads in flight are not waited for.
ClearRemoves_NoDrain ==
  /\ closing = "draining"
  /\ closing' = "removed" /\ file' = "none" /\ tmp' = "none" /\ drains' = NoCall
  /\ UNCHANGED <<storeVars, shared, gpc, inflight, got>>

\* allSettled(), then DiskCache.clear(), whose rm() may fail.
ClearRemoves ==
  /\ closing = "draining"
  /\ drains \in Calls => gpc[drains] = "done"
  /\ \/ closing' = "removed" /\ file' = "none" /\ tmp' = "none"
     \/ closing' = "left" /\ UNCHANGED <<file, tmp>>
  /\ drains' = NoCall
  /\ UNCHANGED <<storeVars, shared, gpc, inflight, got>>

\* Another process caches the chunk, or evicts or clears what is in the
\* directory: its scan counts and removes the temporary files of other ids.
OtherProcess ==
  /\ shared' = TRUE
  /\ \/ present /\ file' = "fresh" /\ UNCHANGED tmp
     \/ file' \in {file, "none"} /\ tmp' \in {tmp, "none"}
  /\ UNCHANGED <<storeVars, gpc, inflight, got, closing, drains>>

Ages ==
  /\ file = "fresh"
  /\ file' = "old"
  /\ UNCHANGED <<storeVars, shared, tmp, gpc, inflight, got, closing, drains>>

\* The process is killed and started again, with the directory as it is. The
\* temporary file is its own again if its id is the same. Only a kill that leaves a
\* temporary file is a step: after any other the process starts as in CachedInit.
Restarts ==
  /\ tmp # "none"
  /\ tmp' \in {tmp, "none"}
  /\ client' = "none"
  /\ pc' = [c \in Calls |-> "idle"]
  /\ attempt' = [c \in Calls |-> 0]
  /\ fault' = [c \in Calls |-> "none"]
  /\ result' = [c \in Calls |-> "none"]
  /\ gpc' = [c \in Calls |-> "idle"]
  /\ inflight' = NoCall
  /\ got' = [c \in Calls |-> "none"]
  /\ closing' = "open"
  /\ drains' = NoCall
  /\ UNCHANGED <<transport, asks, present, shared, file>>

------------------------------------------------------------------------------

\* has(), head() and getRange() go to the inner store.
Delegates(c) == Starts(c) /\ UNCHANGED diskVars

InnerStep(c) == CallStep(c) /\ UNCHANGED diskVars

InnerClient == (ClientSettles \/ Prewarms) /\ UNCHANGED diskVars

CachedNext ==
  \/ \E c \in Gets : GetBypasses(c) \/ GetLooksUp(c) \/ GetStep(c)
  \/ \E c \in Calls \ Gets : Delegates(c)
  \/ \E c \in Calls : InnerStep(c)
  \/ InnerClient
  \/ ClearCalled \/ ClearRemoves
  \/ OtherProcess \/ Ages \/ Restarts

CachedSpec == CachedInit /\ [][CachedNext]_cachedVars

------------------------------------------------------------------------------
(* Properties *)

\* FR-008: get() resolves with all of the chunk, or with null when there is none,
\* whatever crashed half-way through a write, here or in another process, and
\* whatever is evicted while it is read; a chunk is never cut short.
GetsTruthful == \A c \in Calls : got[c] \in {"none", "failed", Truth}

\* FR-010: the disk never fails a read. A get() fails only with a fetch from the
\* inner store, its own or the one it joined.
DiskNeverFails == \A c \in Calls : got[c] = "failed" => \E d \in Calls : result[d] = "failed"

\* FR-011: one request at a time for a chunk, and so one writer of its temporary
\* file, whichever lookups miss before, during and after it.
OneFetch == Cardinality({c \in Calls : gpc[c] \in Fetching}) <= 1

\* A directory that clearCache() removed stays gone when nobody else uses it: no
\* fetch that was on its way writes again.
ClearedStaysGone == closing = "removed" /\ ~shared => file = "none" /\ tmp = "none"
=============================================================================
