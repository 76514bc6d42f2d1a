---------------------------- MODULE MetadataRead ----------------------------
(***************************************************************************)
(* readMetadataThrough() (src/src/cache/read-through.ts): metadata is read *)
(* through a cache that other calls, and other processes, share, and that  *)
(* may fail, evict and expire. Absence is cached too.                      *)
(***************************************************************************)
EXTENDS RetryingStore

VARIABLES
  cache,    \* the entry of the key
  mpc,      \* call of get(), of a metadata key -> where its read is suspended
  answer    \* the same -> what the read resolved with, or that it failed

cacheVars == <<cache, mpc, answer>>
vars == <<storeVars, cacheVars>>

TypeOK ==
  /\ StoreTypeOK
  /\ cache \in {"empty", "value", "short", "absent"}
  /\ mpc \in [Calls -> {"idle", "lookup", "store", "write", "done"}]
  /\ answer \in [Calls -> {"none", "value", "short", "absent", "failed"}]

Init ==
  /\ StoreInit
  /\ cache = "empty"
  /\ mpc = [c \in Calls |-> "idle"]
  /\ answer = [c \in Calls |-> "none"]

ReadStarts(c) ==
  /\ mpc[c] = "idle"
  /\ mpc' = [mpc EXCEPT ![c] = "lookup"]
  /\ UNCHANGED <<storeVars, cache, answer>>

Answers(c, ans) ==
  /\ mpc' = [mpc EXCEPT ![c] = "done"]
  /\ answer' = [answer EXCEPT ![c] = ans]

LookupHits(c) ==
  /\ mpc[c] = "lookup"
  /\ cache # "empty"
  /\ Answers(c, cache)
  /\ UNCHANGED <<storeVars, cache>>

\* The entry is missing, or cache.get() rejects: store.get().
LookupMisses(c) ==
  /\ mpc[c] = "lookup"
  /\ mpc' = [mpc EXCEPT ![c] = "store"]
  /\ Starts(c)
  /\ UNCHANGED <<cache, answer>>

StoreAnswers(c) ==
  /\ mpc[c] = "store"
  /\ pc[c] = "settled" /\ result[c] # "failed"
  /\ mpc' = [mpc EXCEPT ![c] = "write"]
  /\ UNCHANGED <<storeVars, cache, answer>>

\* Mutant: a read that fails is cached as an absence.
StoreThrows_CachesAbsence(c) ==
  /\ mpc[c] = "store"
  /\ pc[c] = "settled" /\ result[c] = "failed"
  /\ Answers(c, "failed")
  /\ cache' = "absent"
  /\ UNCHANGED storeVars

StoreThrows(c) ==
  /\ mpc[c] = "store"
  /\ pc[c] = "settled" /\ result[c] = "failed"
  /\ Answers(c, "failed")
  /\ UNCHANGED <<storeVars, cache>>

\* cache.set(), with ABSENT for null.
WriteSucceeds(c) ==
  /\ mpc[c] = "write"
  /\ cache' = result[c]
  /\ Answers(c, result[c])
  /\ UNCHANGED storeVars

\* Mutant: a failing cache fails the read.
WriteFails_Throws(c) ==
  /\ mpc[c] = "write"
  /\ Answers(c, "failed")
  /\ UNCHANGED <<storeVars, cache>>

\* cache.set() rejects; whether the entry was written or not is seen by nobody.
WriteFails(c) ==
  /\ mpc[c] = "write"
  /\ Answers(c, result[c])
  /\ UNCHANGED <<storeVars, cache>>

\* The entry is evicted or expires.
Forgets ==
  /\ cache # "empty"
  /\ cache' = "empty"
  /\ UNCHANGED <<storeVars, mpc, answer>>

MetadataStep(c) ==
  \/ LookupHits(c) \/ LookupMisses(c)
  \/ StoreAnswers(c) \/ StoreThrows(c)
  \/ WriteSucceeds(c) \/ WriteFails(c)

OtherStarts(c) == Starts(c) /\ UNCHANGED cacheVars

StoreStep(c) == CallStep(c) /\ UNCHANGED cacheVars

ClientStep == (ClientSettles \/ Prewarms) /\ UNCHANGED cacheVars

Next ==
  \/ \E c \in Gets : ReadStarts(c) \/ MetadataStep(c)
  \/ \E c \in Calls \ Gets : OtherStarts(c)
  \/ \E c \in Calls : StoreStep(c)
  \/ ClientStep
  \/ Forgets

Spec == Init /\ [][Next]_vars

------------------------------------------------------------------------------
(* Properties *)

\* null means that the key is absent, and bytes are the key's: on no path does
\* a fault become an absence (which would be filled with the fill value, or hide
\* an array), nor a part of a range the range (http.ts getRange). Nor does a fault
\* outlive its call in the cache, for other calls and processes to be answered
\* with. Only has() of HTTPStore says false after a fault.
AnswersTruthful ==
  /\ \A c \in Calls :
       \/ result[c] \in {"none", "failed", Truth}
       \/ Swallows(c) /\ fault[c] # "none" /\ result[c] = "absent"
  /\ \A c \in Calls : answer[c] \in {"none", "failed", Truth}
  /\ cache \in {"empty", Truth}

Failed(c) == result[c] = "failed" \/ answer[c] = "failed"

\* A call fails only after a permanent fault or with its retries used up, or, on
\* HTTP, in the body: never on account of the cache (FR-011), nor a retry early.
FailsOnlyExhausted ==
  \A c \in Calls : Failed(c) =>
    \/ fault[c] = "permanent"
    \/ fault[c] \in {"request", "body"} /\ attempt[c] = MaxRetries
    \/ transport = "http" /\ fault[c] = "body"
==============================================================================
