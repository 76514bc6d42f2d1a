--------------------------- MODULE InMemoryCache ---------------------------
(***************************************************************************)
(* The byte-bounded LRU MemoryCache and the cache with expiry times that   *)
(* is built on it (src/src/cache/memory.ts). A value is what its size      *)
(* tells apart. Users run these operations as parts of their own steps.    *)
(***************************************************************************)
EXTENDS Integers, Sequences, SequencesExt

CONSTANTS
  CacheKeys,
  CacheValues,
  Cost,       \* costOf: key -> value -> its bytes, or the key's if it has none
  MaxBytes,
  MaxTime,    \* bound on the clock
  Never       \* no expiry

ASSUME CostAssumption == \A k \in CacheKeys, v \in CacheValues : Cost[k][v] \in Nat \ {0}
ASSUME SizeAssumption == MaxBytes \in Nat \ {0} /\ MaxTime \in Nat /\ Never \notin Int

VARIABLES
  entries,    \* MemoryCache.entries: a Map, whose insertion order is the LRU's
  totalBytes,
  expiries,   \* key -> time, or Never: the Map has no such key
  now

cacheVars == <<entries, totalBytes, expiries, now>>

CacheTypeOK ==
  /\ entries \in Seq(CacheKeys \X CacheValues)
  /\ totalBytes \in Nat
  /\ expiries \in [CacheKeys -> Int \cup {Never}]
  /\ now \in 0..MaxTime

CacheInit ==
  /\ entries = <<>>
  /\ totalBytes = 0
  /\ expiries = [k \in CacheKeys |-> Never]
  /\ now = 0

Has(k) == \E i \in 1..Len(entries) : entries[i][1] = k
At(k) == CHOOSE i \in 1..Len(entries) : entries[i][1] = k
Value(k) == entries[At(k)][2]
Without(k) == IF Has(k) THEN RemoveAt(entries, At(k)) ELSE entries

Weight(es) == SumFunction([i \in 1..Len(es) |-> Cost[es[i][1]][es[i][2]]])
Occupied(k) == IF Has(k) THEN Cost[k][Value(k)] ELSE 0
Expired(k) == expiries[k] # Never /\ now >= expiries[k]

\* MemoryCache.delete(), for an entry that has expired.
Drops(k) ==
  /\ entries' = Without(k)
  /\ totalBytes' = totalBytes - Occupied(k)
  /\ expiries' = [expiries EXCEPT ![k] = Never]

\* get(): a hit becomes the most recent entry; a miss forgets a stale expiry.
Get(k) ==
  /\ UNCHANGED now
  /\ \/ Expired(k) /\ Drops(k)
     \/ /\ ~Expired(k) /\ Has(k)
        /\ entries' = Append(Without(k), <<k, Value(k)>>)
        /\ UNCHANGED <<totalBytes, expiries>>
     \/ /\ ~Expired(k) /\ ~Has(k)
        /\ expiries' = [expiries EXCEPT ![k] = Never]
        /\ UNCHANGED <<entries, totalBytes>>

Hit(k) == ~Expired(k) /\ Has(k)

\* How many of the oldest entries of es go: while their bytes are over the bound,
\* but never the last one.
Evicted(es, bytes) ==
  CHOOSE n \in 0..(Len(es) - 1) :
    /\ bytes - Weight(SubSeq(es, 1, n)) <= MaxBytes \/ n = Len(es) - 1
    /\ \A m \in 0..(n - 1) : bytes - Weight(SubSeq(es, 1, m)) > MaxBytes

\* Mutant: the evicted values leave their expiries behind.
Set_KeepsExpiries(k, v, ttl) ==
  LET es    == Append(Without(k), <<k, v>>)
      bytes == totalBytes - Occupied(k) + Cost[k][v]
      n     == Evicted(es, bytes)
  IN
  /\ entries' = SubSeq(es, n + 1, Len(es))
  /\ totalBytes' = bytes - Weight(SubSeq(es, 1, n))
  /\ expiries' = [expiries EXCEPT ![k] = IF ttl = Never THEN Never ELSE now + ttl]
  /\ UNCHANGED now

\* set(): MemoryCache.set(), whose evictions drop their expiries (onEvict), then
\* the expiry of the entry.
Set(k, v, ttl) ==
  LET es    == Append(Without(k), <<k, v>>)
      bytes == totalBytes - Occupied(k) + Cost[k][v]
      n     == Evicted(es, bytes)
      gone  == {es[i][1] : i \in 1..n}
  IN
  /\ entries' = SubSeq(es, n + 1, Len(es))
  /\ totalBytes' = bytes - Weight(SubSeq(es, 1, n))
  /\ expiries' = [l \in CacheKeys |->
       IF l = k THEN IF ttl = Never THEN Never ELSE now + ttl
       ELSE IF l \in gone THEN Never ELSE expiries[l]]
  /\ UNCHANGED now

\* Date.now()
Tick ==
  /\ now < MaxTime
  /\ now' = now + 1
  /\ UNCHANGED <<entries, totalBytes, expiries>>

------------------------------------------------------------------------------
(* Properties *)

\* The cache is well-formed; its count of bytes is that of the entries, each key's
\* once, and within the bound but for a single entry; and an expiry belongs to an
\* entry, so neither map outgrows the bound ("the expiries map can never outgrow the bounded LRU").
BytesExact ==
  /\ CacheTypeOK
  /\ totalBytes = Weight(entries)
  /\ totalBytes <= MaxBytes \/ Len(entries) = 1
  /\ \A i, j \in 1..Len(entries) : entries[i][1] = entries[j][1] => i = j
  /\ \A k \in CacheKeys : expiries[k] # Never => Has(k)
==============================================================================
