---------------------------- MODULE StorageProofs ----------------------------
(***************************************************************************)
(* Proofs of the safety properties of Storage: on no path through retries, *)
(* deadlines, client, shared cache and disk does a fault become an         *)
(* absence, or a crash a chunk cut short; one fetch at a time; what was    *)
(* cleared stays gone.                                                     *)
(***************************************************************************)
EXTENDS Storage, FiniteSetTheorems, TLAPS

\* What justifies the failure of a call of the store.
Justified(c) ==
  \/ fault[c] = "permanent"
  \/ fault[c] \in {"request", "body"} /\ attempt[c] = MaxRetries
  \/ transport = "http" /\ fault[c] = "body"

\* A call has a result once it has settled: the truth, or a failure with its
\* reason. A body is only awaited of a key that is there, a backoff leaves a retry.
CallInv(c) ==
  /\ result[c] = "none" <=> pc[c] # "settled"
  /\ pc[c] = "body" => present
  /\ pc[c] = "backoff" => attempt[c] < MaxRetries
  /\ \/ result[c] \in {"none", "failed", Truth}
     \/ Swallows(c) /\ fault[c] # "none" /\ result[c] = "absent"
  /\ result[c] = "failed" => Justified(c)

StoreInv == StoreTypeOK /\ \A c \in Calls : CallInv(c)

ReadTypeOK ==
  /\ cache \in {"empty", "value", "short", "absent"}
  /\ mpc \in [Calls -> {"idle", "lookup", "store", "write", "done"}]
  /\ answer \in [Calls -> {"none", "value", "short", "absent", "failed"}]

\* Only a get() is a metadata read; it writes to the cache what its store call
\* resolved with, and fails only with it.
ReadInv ==
  /\ ReadTypeOK
  /\ cache \in {"empty", Truth}
  /\ \A c \in Calls :
       /\ mpc[c] # "idle" => asks[c] = "get"
       /\ mpc[c] = "write" => pc[c] = "settled" /\ result[c] # "failed"
       /\ answer[c] \in {"none", "failed", Truth}
       /\ answer[c] = "failed" => result[c] = "failed"

FilesTypeOK ==
  /\ shared \in BOOLEAN
  /\ file \in {"none", "part", "fresh", "old"}
  /\ tmp \in {"none", "part", "whole"}
  /\ gpc \in [Calls -> {"idle", "stat", "read", "missed", "inner", "joined", "done"} \cup Fetching]
  /\ inflight \in Calls \cup {NoCall}
  /\ got \in [Calls -> {"none", "value", "short", "absent", "failed"}]
  /\ closing \in {"open", "draining", "removed", "left"}
  /\ drains \in Calls \cup {NoCall}

\* The entry of the map is the one get() that fetches or writes; it writes the
\* chunk, and the file it renames is all of it. While the store is being closed only
\* the get() that is waited for writes, and none once it is closed.
GetInv(c) ==
  /\ gpc[c] # "idle" => asks[c] = "get"
  /\ gpc[c] \in Fetching <=> inflight = c
  /\ gpc[c] \in InSet => result[c] = "value"
  /\ gpc[c] = "rename" => tmp # "part"
  /\ gpc[c] \in InSet /\ closing # "open" => closing = "draining" /\ drains = c
  /\ got[c] \in {"none", "failed", Truth}
  /\ got[c] = "failed" => \E d \in Calls : result[d] = "failed"

DiskInv ==
  /\ FilesTypeOK
  /\ \A c \in Calls : GetInv(c)
  /\ file # "part"
  /\ file # "none" => present
  /\ ClearedStaysGone

\* The inductive invariant.
Inv ==
  /\ StoreInv /\ ReadInv /\ DiskInv
  /\ metadata \in BOOLEAN
  /\ ~metadata => \A c \in Calls : mpc[c] = "idle" /\ answer[c] = "none"

LEMMA InitInv == StorageInit => Inv
<1> SUFFICES ASSUME StorageInit PROVE Inv
  OBVIOUS
<1> USE DEF StorageInit, Init, StoreInit, CachedInit
<1>1. StoreTypeOK
  BY RetriesAssumption, AsksAssumption DEF StoreTypeOK, Faults
<1>2. StoreInv
  BY <1>1 DEF StoreInv, CallInv
<1>3. ReadInv
  BY DEF ReadInv, ReadTypeOK
<1>4. FilesTypeOK
  BY DEF FilesTypeOK, Fetching, InSet
<1>5. DiskInv
  BY <1>4, NoCallAssumption DEF DiskInv, GetInv, ClearedStaysGone, Fetching, InSet
<1> QED
  BY <1>2, <1>3, <1>5 DEF Inv

------------------------------------------------------------------------------
(* The network store *)

\* What a step of the store leaves alone: the calls that have settled.
StoreFrame ==
  /\ UNCHANGED <<transport, asks, present>>
  /\ \A d \in Calls : pc[d] = "settled" =>
       /\ pc'[d] = pc[d] /\ result'[d] = result[d]
       /\ fault'[d] = fault[d] /\ attempt'[d] = attempt[d]

\* Call c changes and no other does.
Only(c) ==
  /\ UNCHANGED <<transport, asks, present>>
  /\ pc[c] # "settled"
  /\ \A d \in Calls \ {c} :
       /\ pc'[d] = pc[d] /\ result'[d] = result[d]
       /\ fault'[d] = fault[d] /\ attempt'[d] = attempt[d]

LEMMA OnlyInv ==
  ASSUME StoreInv, NEW c \in Calls, Only(c), StoreTypeOK', CallInv(c)'
  PROVE  StoreInv' /\ StoreFrame
<1>1. ASSUME NEW d \in Calls \ {c} PROVE CallInv(d)'
  BY DEF StoreInv, CallInv, Only, Justified, Truth, Swallows
<1>2. StoreInv'
  BY <1>1 DEF StoreInv
<1>3. StoreFrame
  BY DEF StoreFrame, Only
<1> QED
  BY <1>2, <1>3

\* A call that goes on.
LEMMA SuspendsInv ==
  ASSUME StoreInv, NEW c \in Calls, NEW from \in {"idle", "client", "request", "backoff", "body"},
         NEW at \in {"client", "request", "body", "backoff"},
         Suspends(c, from, at), at = "body" => present,
         at = "backoff" => attempt'[c] < MaxRetries,
         client' \in {"none", "creating", "ready", "broken"},
         attempt' \in [Calls -> 0..MaxRetries],
         \A d \in Calls \ {c} : attempt'[d] = attempt[d],
         fault' \in [Calls -> Faults \cup {"none"}],
         \A d \in Calls \ {c} : fault'[d] = fault[d]
  PROVE  StoreInv' /\ StoreFrame
<1>1. StoreTypeOK'
  BY DEF StoreInv, StoreTypeOK, Suspends
<1>2. pc[c] # "settled" /\ pc'[c] = at /\ \A d \in Calls \ {c} : pc'[d] = pc[d]
  BY DEF StoreInv, StoreTypeOK, Suspends
<1>3. Only(c)
  BY <1>2 DEF Only, Suspends
<1>4. result'[c] = "none"
  BY <1>2 DEF StoreInv, CallInv, Suspends
<1>5. CallInv(c)'
  BY <1>2, <1>3, <1>4 DEF CallInv, Only
<1> QED
  BY <1>1, <1>3, <1>5, OnlyInv

\* A call that settles, truthfully or with a fault that justifies it.
LEMMA SettlesInv ==
  ASSUME StoreInv, NEW c \in Calls, NEW from \in {"client", "request", "body"},
         NEW res \in {"value", "absent", "failed"}, Settles(c, from, res),
         fault' \in [Calls -> Faults \cup {"none"}],
         \A d \in Calls \ {c} : fault'[d] = fault[d],
         \/ res = Truth
         \/ res = "failed" /\ (\/ fault'[c] = "permanent"
                               \/ fault'[c] \in {"request", "body"} /\ attempt[c] = MaxRetries
                               \/ transport = "http" /\ fault'[c] = "body")
         \/ res = "absent" /\ Swallows(c) /\ fault'[c] # "none"
  PROVE  StoreInv' /\ StoreFrame
<1>1. StoreTypeOK'
  BY DEF StoreInv, StoreTypeOK, Settles
<1>2. /\ pc[c] # "settled" /\ pc'[c] = "settled" /\ result'[c] = res
      /\ \A d \in Calls \ {c} : pc'[d] = pc[d] /\ result'[d] = result[d]
  BY DEF StoreInv, StoreTypeOK, Settles
<1>3. Only(c) /\ attempt' = attempt
  BY <1>2 DEF Only, Settles
<1>4. Truth' = Truth /\ Truth # "failed" /\ Swallows(c)' = Swallows(c) /\ transport' = transport
  BY <1>3 DEF Truth, Swallows, Only
<1>5. res = "failed" => Justified(c)'
  BY <1>3, <1>4 DEF Justified
<1>6. CallInv(c)'
  BY <1>2, <1>3, <1>4, <1>5 DEF CallInv
<1> QED
  BY <1>1, <1>3, <1>6, OnlyInv

\* The start of a call, by a read through a cache or by the store's user.
LEMMA StartsInv ==
  ASSUME StoreInv, NEW c \in Calls, Starts(c)
  PROVE  StoreInv' /\ StoreFrame
<1> USE DEF StoreInv, StoreTypeOK
<1>1. CASE StartsHTTP(c)
  <2>1. Suspends(c, "idle", "request") /\ UNCHANGED <<client, attempt, fault>>
    BY <1>1 DEF StartsHTTP
  <2> QED
    BY <2>1, SuspendsInv
<1>2. CASE StartsS3(c)
  <2>1. /\ Suspends(c, "idle", "client") /\ UNCHANGED <<attempt, fault>>
        /\ client' \in {"none", "creating", "ready", "broken"}
    BY <1>2 DEF StartsS3
  <2> QED
    BY <2>1, SuspendsInv
<1> QED
  BY <1>1, <1>2 DEF Starts

\* A call whose fault is of kind f settles with it.
LEMMA FaultedInv ==
  ASSUME StoreInv, NEW c \in Calls, NEW from \in {"request", "body"}, NEW f \in Faults,
         Settles(c, from, Faulted(c)), fault' = [fault EXCEPT ![c] = f],
         \/ f = "permanent"
         \/ attempt[c] = MaxRetries
         \/ transport = "http" /\ f = "body"
  PROVE  StoreInv' /\ StoreFrame
<1>1. fault' \in [Calls -> Faults \cup {"none"}] /\ fault'[c] = f /\ f # "none"
  BY DEF StoreInv, StoreTypeOK, Faults
<1>2. \A d \in Calls \ {c} : fault'[d] = fault[d]
  BY DEF StoreInv, StoreTypeOK
<1>3. Faulted(c) = "failed" \/ (Faulted(c) = "absent" /\ Swallows(c))
  BY DEF Faulted
<1>4. f = "permanent" \/ f \in {"request", "body"}
  BY DEF Faults
<1> QED
  BY <1>1, <1>2, <1>3, <1>4, SettlesInv

LEMMA TransientFaultInv ==
  ASSUME StoreInv, NEW c \in Calls, TransientFault(c)
  PROVE  StoreInv' /\ StoreFrame
<1>1. PICK phase \in {"request", "body"} :
        /\ fault' = [fault EXCEPT ![c] = phase]
        /\ \/ /\ Retried(phase) /\ attempt[c] < MaxRetries
              /\ Suspends(c, phase, "backoff")
              /\ UNCHANGED <<client, attempt>>
           \/ /\ ~(Retried(phase) /\ attempt[c] < MaxRetries)
              /\ Settles(c, phase, Faulted(c))
  BY DEF TransientFault
<1>2. /\ fault' \in [Calls -> Faults \cup {"none"}] /\ phase \in Faults
      /\ \A d \in Calls \ {c} : fault'[d] = fault[d]
  BY <1>1 DEF StoreInv, StoreTypeOK, Faults
<1>3. CASE Suspends(c, phase, "backoff") /\ UNCHANGED <<client, attempt>> /\ attempt[c] < MaxRetries
  BY <1>2, <1>3, SuspendsInv DEF StoreInv, StoreTypeOK
<1>4. CASE Settles(c, phase, Faulted(c)) /\ ~(Retried(phase) /\ attempt[c] < MaxRetries)
  <2>1. (transport = "http" /\ phase = "body") \/ attempt[c] = MaxRetries
    <3>1. attempt[c] \in 0..MaxRetries /\ transport \in {"http", "s3"}
      BY TransportsAssumption DEF StoreInv, StoreTypeOK
    <3> QED
      BY <1>4, <3>1, RetriesAssumption DEF Retried
  <2> QED
    BY <1>1, <1>2, <1>4, <2>1, FaultedInv
<1> QED
  BY <1>1, <1>3, <1>4

LEMMA CallStepInv ==
  ASSUME StoreInv, NEW c \in Calls, CallStep(c)
  PROVE  StoreInv' /\ StoreFrame
<1>1. /\ client \in {"none", "creating", "ready", "broken"} /\ attempt \in [Calls -> 0..MaxRetries]
      /\ fault \in [Calls -> Faults \cup {"none"}] /\ present \in BOOLEAN
  BY DEF StoreInv, StoreTypeOK
<1>2. CASE ClientResumes(c)
  <2>1. Suspends(c, "client", "request") /\ UNCHANGED <<client, attempt, fault>>
    BY <1>2 DEF ClientResumes
  <2> QED
    BY <1>1, <2>1, SuspendsInv
<1>3. CASE Found(c)
  <2>1. Suspends(c, "request", "body") /\ UNCHANGED <<client, attempt, fault>> /\ present
    BY <1>3 DEF Found
  <2> QED
    BY <1>1, <2>1, SuspendsInv
<1>4. CASE BackoffEnds(c)
  <2>1. /\ Suspends(c, "backoff", "request") /\ UNCHANGED client
        /\ attempt' = [attempt EXCEPT ![c] = @ + 1] /\ fault' = [fault EXCEPT ![c] = "none"]
    BY <1>4 DEF BackoffEnds
  <2>2. attempt' \in [Calls -> 0..MaxRetries]
    <3>1. attempt[c] < MaxRetries /\ attempt[c] \in 0..MaxRetries
      BY <1>1, <2>1 DEF Suspends, StoreInv, CallInv
    <3> QED
      BY <1>1, <2>1, <3>1, RetriesAssumption
  <2>3. /\ \A d \in Calls \ {c} : attempt'[d] = attempt[d] /\ fault'[d] = fault[d]
        /\ fault' \in [Calls -> Faults \cup {"none"}]
    BY <1>1, <2>1
  <2> QED
    BY <1>1, <2>1, <2>2, <2>3, SuspendsInv
<1>5. CASE TransientFault(c) \/ Deadline(c)
  BY <1>5, TransientFaultInv DEF Deadline
<1>6. CASE PermanentFault(c) /\ Settles(c, "request", Faulted(c))
  BY <1>6, FaultedInv DEF PermanentFault, Faults
<1>7. CASE /\ \E from \in {"client", "body"} : Settles(c, from, "failed")
           /\ fault' = [fault EXCEPT ![c] = "permanent"]
  <2>1. fault' \in [Calls -> Faults \cup {"none"}] /\ fault'[c] = "permanent"
    BY <1>1, <1>7 DEF Faults
  <2>2. \A d \in Calls \ {c} : fault'[d] = fault[d]
    BY <1>1, <1>7
  <2> QED
    BY <1>7, <2>1, <2>2, SettlesInv
<1>8. CASE NotFound(c)
  <2>1. Settles(c, "request", "absent") /\ fault' = fault /\ Truth = "absent"
    BY <1>8 DEF NotFound, Truth
  <2> QED
    BY <1>1, <2>1, SettlesInv
<1>9. CASE HeadFound(c)
  <2>1. Settles(c, "request", "value") /\ fault' = fault /\ Truth = "value"
    BY <1>9 DEF HeadFound, Truth
  <2> QED
    BY <1>1, <2>1, SettlesInv
<1>10. CASE BodyArrives(c)
  <2>1. Settles(c, "body", "value") /\ fault' = fault
    BY <1>10 DEF BodyArrives
  <2>2. Truth = "value"
    BY <2>1 DEF Settles, StoreInv, CallInv, Truth
  <2> QED
    BY <1>1, <2>1, <2>2, SettlesInv
<1> QED
  BY <1>2, <1>3, <1>4, <1>5, <1>6, <1>7, <1>8, <1>9, <1>10
     DEF CallStep, ClientThrows, PermanentFault, ShortBody

LEMMA ClientInv ==
  ASSUME StoreInv, ClientSettles \/ Prewarms
  PROVE  StoreInv' /\ StoreFrame
  BY DEF ClientSettles, Prewarms, StoreInv, StoreTypeOK, CallInv, StoreFrame, Truth, Swallows, Justified

\* What a get() resolves with is the truth, or that it failed.
LEMMA GetResult ==
  ASSUME StoreInv, NEW c \in Calls, asks[c] = "get", pc[c] = "settled"
  PROVE  result[c] \in {"failed", Truth}
  BY DEF StoreInv, CallInv, Swallows

\* A result stays.
LEMMA ResultStays ==
  ASSUME StoreInv, StoreFrame, NEW c \in Calls, result[c] # "none"
  PROVE  pc[c] = "settled" /\ pc'[c] = "settled" /\ result'[c] = result[c]
  BY DEF StoreInv, CallInv, StoreFrame

------------------------------------------------------------------------------
(* The metadata read *)

LEMMA TruthValues == Truth \in {"value", "absent"}
  BY DEF Truth

\* A step of the store that the reads do not see.
LEMMA ReadFrame ==
  ASSUME StoreInv, StoreFrame, ReadInv, UNCHANGED cacheVars
  PROVE  ReadInv'
<1>1. ReadTypeOK'
  BY DEF ReadInv, ReadTypeOK, cacheVars
<1>2. Truth' = Truth /\ asks' = asks
  BY DEF Truth, StoreFrame
<1>3. ASSUME NEW d \in Calls, mpc[d] = "write" PROVE pc'[d] = "settled" /\ result'[d] # "failed"
  BY <1>3 DEF ReadInv, StoreFrame
<1>4. ASSUME NEW d \in Calls, answer[d] = "failed" PROVE result'[d] = "failed"
  BY <1>4, ResultStays DEF ReadInv
<1> QED
  BY <1>1, <1>2, <1>3, <1>4 DEF ReadInv, cacheVars

\* Read c moves to `at`, with the answer it has or gets.
LEMMA ReadMoves ==
  ASSUME StoreInv, StoreFrame, ReadInv, NEW c \in Calls, asks[c] = "get",
         NEW at \in {"lookup", "store", "write", "done"}, mpc' = [mpc EXCEPT ![c] = at],
         at = "write" => pc[c] = "settled" /\ result[c] # "failed",
         NEW ans, answer' = [answer EXCEPT ![c] = ans],
         ans \in {answer[c], Truth} \/ (ans = "failed" /\ result[c] = "failed"),
         cache' \in {cache, Truth}
  PROVE  ReadInv'
<1>1. ReadTypeOK'
  BY TruthValues DEF ReadInv, ReadTypeOK
<1>2. Truth' = Truth /\ asks' = asks
  BY DEF Truth, StoreFrame
<1>3. /\ \A d \in Calls : answer'[d] = IF d = c THEN ans ELSE answer[d]
      /\ \A d \in Calls : mpc'[d] = IF d = c THEN at ELSE mpc[d]
  BY DEF ReadInv, ReadTypeOK
<1>4. ASSUME NEW d \in Calls, mpc'[d] = "write" PROVE pc'[d] = "settled" /\ result'[d] # "failed"
  BY <1>3, <1>4 DEF ReadInv, StoreFrame
<1>5. ASSUME NEW d \in Calls, answer'[d] = "failed" PROVE result'[d] = "failed"
  <2>1. result[d] = "failed"
    BY <1>3, <1>5, TruthValues DEF ReadInv
  <2> QED
    BY <2>1, ResultStays
<1>6. ASSUME NEW d \in Calls PROVE answer'[d] \in {"none", "failed", Truth} /\ (mpc'[d] # "idle" => asks[d] = "get")
  BY <1>3 DEF ReadInv
<1> QED
  BY <1>1, <1>2, <1>4, <1>5, <1>6 DEF ReadInv

LEMMA MetadataStepInv ==
  ASSUME StoreInv, ReadInv, NEW c \in Gets, ReadStarts(c) \/ MetadataStep(c)
  PROVE  StoreInv' /\ StoreFrame /\ ReadInv'
<1>1. c \in Calls /\ asks[c] = "get" /\ answer = [answer EXCEPT ![c] = answer[c]]
  BY DEF Gets, ReadInv, ReadTypeOK
<1>2. CASE LookupMisses(c)
  <2>1. /\ Starts(c) /\ mpc' = [mpc EXCEPT ![c] = "store"]
        /\ UNCHANGED cache /\ UNCHANGED answer
    BY <1>2 DEF LookupMisses
  <2>2. StoreInv' /\ StoreFrame
    BY <1>1, <2>1, StartsInv
  <2> QED
    BY <1>1, <2>1, <2>2, ReadMoves
<1>3. ASSUME UNCHANGED storeVars PROVE StoreInv' /\ StoreFrame
  BY <1>3 DEF storeVars, StoreInv, StoreTypeOK, CallInv, StoreFrame, Truth, Swallows, Justified
<1>4. CASE ReadStarts(c)
  BY <1>1, <1>3, <1>4, ReadMoves DEF ReadStarts
<1>5. CASE LookupHits(c)
  <2>1. cache = Truth
    BY <1>5 DEF LookupHits, ReadInv
  <2> QED
    BY <1>1, <1>3, <1>5, <2>1, ReadMoves DEF LookupHits, Answers
<1>6. CASE StoreAnswers(c)
  BY <1>1, <1>3, <1>6, ReadMoves DEF StoreAnswers
<1>7. CASE StoreThrows(c)
  BY <1>1, <1>3, <1>7, ReadMoves DEF StoreThrows, Answers
<1>8. ASSUME mpc[c] = "write" PROVE result[c] = Truth
  BY <1>1, <1>8, GetResult DEF ReadInv
<1>9. CASE WriteSucceeds(c)
  BY <1>1, <1>3, <1>8, <1>9, ReadMoves DEF WriteSucceeds, Answers
<1>10. CASE WriteFails(c)
  BY <1>1, <1>3, <1>8, <1>10, ReadMoves DEF WriteFails, Answers
<1> QED
  BY <1>2, <1>4, <1>5, <1>6, <1>7, <1>9, <1>10 DEF MetadataStep

LEMMA UnchangedStore ==
  ASSUME StoreInv, UNCHANGED storeVars
  PROVE  StoreInv' /\ StoreFrame
  BY DEF storeVars, StoreInv, StoreTypeOK, CallInv, StoreFrame, Truth, Swallows, Justified

\* A step of the process on a metadata key.
LEMMA ReadNextInv ==
  ASSUME StoreInv, ReadInv, Next
  PROVE  StoreInv' /\ StoreFrame /\ ReadInv'
<1>1. ASSUME NEW c \in Gets, ReadStarts(c) \/ MetadataStep(c) PROVE StoreInv' /\ StoreFrame /\ ReadInv'
  BY <1>1, MetadataStepInv
<1>2. ASSUME NEW c \in Calls \ Gets, OtherStarts(c) PROVE StoreInv' /\ StoreFrame /\ ReadInv'
  BY <1>2, StartsInv, ReadFrame DEF OtherStarts
<1>3. ASSUME NEW c \in Calls, StoreStep(c) PROVE StoreInv' /\ StoreFrame /\ ReadInv'
  BY <1>3, CallStepInv, ReadFrame DEF StoreStep
<1>4. CASE ClientStep
  BY <1>4, ClientInv, ReadFrame DEF ClientStep
<1>5. CASE Forgets
  <2>1. StoreInv' /\ StoreFrame
    BY <1>5, UnchangedStore DEF Forgets
  <2> QED
    BY <1>5, <2>1 DEF Forgets, ReadInv, ReadTypeOK, storeVars, Truth
<1> QED
  BY <1>1, <1>2, <1>3, <1>4, <1>5 DEF Next

------------------------------------------------------------------------------
(* The disk *)

\* The places of a get() between its call and its fetch, or after it.
Places == {"idle", "stat", "read", "missed", "inner", "joined", "done"} \cup Fetching

\* A failure stays one.
LEMMA FailureStays ==
  ASSUME StoreInv, StoreFrame, \E d \in Calls : result[d] = "failed"
  PROVE  \E d \in Calls : result'[d] = "failed"
  BY ResultStays

\* A step of the store that the disk does not see.
LEMMA DiskFrame ==
  ASSUME StoreInv, StoreFrame, DiskInv, UNCHANGED diskVars
  PROVE  DiskInv'
<1>1. FilesTypeOK'
  BY DEF DiskInv, FilesTypeOK, diskVars
<1>2. ASSUME NEW d \in Calls PROVE GetInv(d)'
  <2>1. gpc[d] \in InSet => result'[d] = "value"
    BY ResultStays DEF DiskInv, GetInv
  <2>2. Truth' = Truth /\ asks' = asks
    BY DEF Truth, StoreFrame
  <2> QED
    BY <2>1, <2>2, FailureStays DEF DiskInv, GetInv, diskVars
<1> QED
  BY <1>1, <1>2 DEF DiskInv, ClearedStaysGone, diskVars, StoreFrame

\* get() c moves, alone.
LEMMA MovesInv ==
  ASSUME StoreInv, StoreFrame, DiskInv, NEW c \in Calls, asks[c] = "get",
         NEW from \in Places, NEW at \in Places \ {"idle"}, Goes(c, from, at),
         UNCHANGED <<shared, closing, drains>>,
         NEW g, got' = [got EXCEPT ![c] = g],
         g \in {got[c], Truth} \/ (g = "failed" /\ result[c] = "failed"),
         at \in InSet => result[c] = "value" /\ (from \in InSet \/ closing = "open"),
         inflight' = IF at \in Fetching THEN c ELSE inflight,
         from \in Fetching => at \in Fetching,
         at \in Fetching => from \in Fetching \/ inflight = NoCall,
         tmp' \in {"none", "part", "whole"},
         tmp' = "part" => tmp = "part" \/ from \in Fetching,
         at = "rename" => tmp' # "part",
         file' \in {"none", "fresh", "old"},
         file' # "none" => file # "none" \/ result[c] = "value",
         ClearedStaysGone'
  PROVE  DiskInv'
<1>1. FilesTypeOK'
  BY TruthValues DEF DiskInv, FilesTypeOK, Goes, Places
<1>2. /\ gpc[c] = from /\ gpc'[c] = at /\ \A d \in Calls \ {c} : gpc'[d] = gpc[d]
      /\ got'[c] = g /\ \A d \in Calls \ {c} : got'[d] = got[d]
  BY DEF DiskInv, FilesTypeOK, Goes
<1>3. Truth' = Truth /\ asks' = asks /\ present' = present
  BY DEF Truth, StoreFrame
<1>4. c # NoCall
  BY NoCallAssumption
<1>5. InSet \subseteq Fetching /\ "rename" \in InSet
  BY DEF Fetching, InSet
<1>6. ASSUME NEW d \in Calls \ {c} PROVE GetInv(d)'
  <2>1. GetInv(d) /\ d \in Calls /\ d # NoCall
    BY NoCallAssumption DEF DiskInv
  <2>2. inflight' = d <=> inflight = d
    BY <1>2, <1>4, <2>1 DEF DiskInv, GetInv
  <2>3. gpc[d] = "rename" => tmp' # "part"
    <3>1. gpc[d] = "rename" => inflight = d /\ from \notin Fetching
      BY <1>2, <1>5, <2>1 DEF DiskInv, GetInv
    <3> QED
      BY <2>1, <3>1 DEF GetInv
  <2>4. gpc[d] \in InSet => result'[d] = "value"
    BY <2>1, ResultStays DEF GetInv
  <2> QED
    BY <1>2, <1>3, <2>1, <2>2, <2>3, <2>4, FailureStays DEF GetInv
<1>7. GetInv(c)'
  <2>1. GetInv(c)
    BY DEF DiskInv
  <2>2. at \in Fetching <=> inflight' = c
    BY <1>2, <2>1 DEF GetInv
  <2>3. at \in InSet => result'[c] = "value"
    BY ResultStays
  <2>4. g = "failed" => \E d \in Calls : result'[d] = "failed"
    BY <2>1, FailureStays, TruthValues DEF GetInv
  <2> QED
    BY <1>2, <1>3, <2>1, <2>2, <2>3, <2>4 DEF GetInv
<1>8. file' # "none" => present
  <2>1. result[c] = "value" /\ asks[c] = "get" => present
    BY DEF StoreInv, CallInv, Truth, Swallows
  <2> QED
    BY <2>1 DEF DiskInv
<1> QED
  BY <1>1, <1>3, <1>6, <1>7, <1>8 DEF DiskInv

\* The promise of fetch c settles.
LEMMA FinishesInv ==
  ASSUME StoreInv, DiskInv, NEW c \in Calls, gpc[c] \in Fetching, Finishes(c),
         asks[c] = "get", pc[c] = "settled", file' \in {file, "none"}
  PROVE  DiskInv'
<1> DEFINE ends == {c} \cup {d \in Calls : gpc[d] = "joined"}
<1>1. /\ \A d \in Calls : gpc'[d] = IF d \in ends THEN "done" ELSE gpc[d]
      /\ \A d \in Calls : got'[d] = IF d \in ends THEN result[c] ELSE got[d]
      /\ inflight' = NoCall /\ UNCHANGED <<shared, tmp, closing, drains>> /\ UNCHANGED storeVars
      /\ gpc' = [d \in Calls |-> IF d \in ends THEN "done" ELSE gpc[d]]
      /\ got' = [d \in Calls |-> IF d \in ends THEN result[c] ELSE got[d]]
  BY DEF Finishes
<1>2. result[c] \in {"failed", Truth}
  BY GetResult
<1>3. FilesTypeOK'
  BY <1>1, <1>2, TruthValues DEF DiskInv, FilesTypeOK
<1>4. Truth' = Truth /\ asks' = asks /\ result' = result /\ present' = present
  BY <1>1 DEF Truth, storeVars
<1>5. ASSUME NEW d \in Calls PROVE GetInv(d)'
  <2>1. GetInv(d) /\ GetInv(c) /\ d # NoCall
    BY NoCallAssumption DEF DiskInv
  <2>2. inflight = c /\ "done" \notin Fetching /\ "done" \notin InSet /\ InSet \subseteq Fetching
    BY <2>1 DEF GetInv, Fetching, InSet
  <2>3. gpc'[d] \notin Fetching
    BY <1>1, <2>1, <2>2 DEF GetInv
  <2>4. gpc'[d] # "rename" /\ gpc'[d] \notin InSet
    BY <2>2, <2>3 DEF InSet
  <2>5. gpc'[d] # "idle" => asks[d] = "get"
    BY <1>1, <2>1 DEF GetInv
  <2>6. got'[d] \in {"none", "failed", Truth} /\ (got'[d] = "failed" => \E e \in Calls : result[e] = "failed")
    BY <1>1, <1>2, <2>1 DEF GetInv
  <2> QED
    BY <1>1, <1>4, <2>1, <2>3, <2>4, <2>5, <2>6 DEF GetInv
<1> QED
  BY <1>1, <1>3, <1>4, <1>5 DEF DiskInv, ClearedStaysGone

\* A lookup, of a get() that leaves the files and the map alone.
LEMMA LooksInv ==
  ASSUME StoreInv, StoreFrame, DiskInv, NEW c \in Calls, asks[c] = "get",
         NEW from \in Places \ Fetching, NEW at \in Places \ (Fetching \cup {"idle"}), Goes(c, from, at),
         UNCHANGED <<shared, file, tmp, inflight, closing, drains>>,
         NEW g, got' = [got EXCEPT ![c] = g],
         g \in {got[c], Truth} \/ (g = "failed" /\ result[c] = "failed")
  PROVE  DiskInv'
<1>1. InSet \subseteq Fetching /\ at # "rename"
  BY DEF Fetching, InSet
<1>2. /\ tmp \in {"none", "part", "whole"} /\ file \in {"none", "fresh", "old"}
      /\ ClearedStaysGone'
  BY DEF DiskInv, FilesTypeOK, ClearedStaysGone
<1> QED
  BY <1>1, <1>2, MovesInv

LEMMA LookupInv ==
  ASSUME StoreInv, DiskInv, NEW c \in Calls, asks[c] = "get",
         GetBypasses(c) \/ GetLooksUp(c) \/ Stats(c) \/ LookupFails(c) \/ Hits(c) \/ Joins(c)
           \/ BypassAnswers(c)
  PROVE  StoreInv' /\ StoreFrame /\ DiskInv'
<1>1. got = [got EXCEPT ![c] = got[c]]
  BY DEF DiskInv, FilesTypeOK
<1>2. /\ {"idle", "stat", "read", "missed", "inner", "joined"} \subseteq Places \ Fetching
      /\ {"stat", "read", "missed", "inner", "joined", "done"} \subseteq Places \ (Fetching \cup {"idle"})
  BY DEF Places, Fetching, InSet
<1>3. CASE GetBypasses(c)
  BY <1>1, <1>2, <1>3, StartsInv, LooksInv DEF GetBypasses
<1>4. ASSUME UNCHANGED storeVars PROVE StoreInv' /\ StoreFrame
  BY <1>4, UnchangedStore
<1>5. CASE GetLooksUp(c)
  BY <1>1, <1>2, <1>4, <1>5, LooksInv DEF GetLooksUp
<1>6. CASE Stats(c)
  BY <1>1, <1>2, <1>4, <1>6, LooksInv DEF Stats
<1>7. CASE LookupFails(c)
  BY <1>1, <1>2, <1>4, <1>7, LooksInv DEF LookupFails
<1>8. CASE Hits(c)
  <2>1. Truth = "value" /\ file # "part"
    BY <1>8 DEF Hits, DiskInv, Truth
  <2>2. got' = [got EXCEPT ![c] = "value"]
    BY <1>8, <2>1 DEF Hits
  <2> QED
    BY <1>2, <1>4, <1>8, <2>1, <2>2, LooksInv DEF Hits
<1>9. CASE Joins(c)
  BY <1>1, <1>2, <1>4, <1>9, LooksInv DEF Joins
<1>10. CASE BypassAnswers(c)
  <2>1. result[c] \in {"failed", Truth}
    BY <1>10, GetResult DEF BypassAnswers
  <2> QED
    BY <1>2, <1>4, <1>10, <2>1, LooksInv DEF BypassAnswers
<1> QED
  BY <1>3, <1>5, <1>6, <1>7, <1>8, <1>9, <1>10

\* A step of a write, of the get() whose promise is in the map.
LEMMA WritesInv ==
  ASSUME StoreInv, DiskInv, NEW c \in Calls, asks[c] = "get", UNCHANGED storeVars,
         NEW from \in Fetching, NEW at \in InSet, Goes(c, from, at),
         UNCHANGED <<shared, inflight, got, closing, drains>>,
         result[c] = "value", from = "fetch" => closing = "open",
         tmp' \in {"none", "part", "whole"}, at = "rename" => tmp' # "part",
         file' \in {"none", "fresh", "old"},
         ClearedStaysGone'
  PROVE  StoreInv' /\ StoreFrame /\ DiskInv'
<1>1. got = [got EXCEPT ![c] = got[c]]
  BY DEF DiskInv, FilesTypeOK
<1>2. InSet \subseteq Fetching /\ from \in Places /\ at \in Places \ {"idle"} /\ from # "idle"
  BY DEF Fetching, InSet, Places
<1>3. from \in InSet \/ closing = "open"
  BY DEF Fetching
<1>4. gpc[c] = from /\ inflight = c
  BY DEF Goes, DiskInv, GetInv
<1>5. StoreInv' /\ StoreFrame
  BY UnchangedStore
<1> QED
  BY <1>1, <1>2, <1>3, <1>4, <1>5, MovesInv

LEMMA FetchInv ==
  ASSUME StoreInv, DiskInv, NEW c \in Calls, asks[c] = "get",
         Fetches(c) \/ FetchCaches(c) \/ FetchSkipsCache(c) \/ OpensTemp(c) \/ WritesTemp(c)
           \/ Renames(c) \/ SetFails(c) \/ CleansUp(c) \/ Evicts(c)
  PROVE  StoreInv' /\ StoreFrame /\ DiskInv'
<1> USE DEF InSet, Fetching
<1>1. CASE Fetches(c)
  <2>1. StoreInv' /\ StoreFrame
    BY <1>1, StartsInv DEF Fetches
  <2>2. got = [got EXCEPT ![c] = got[c]]
    BY DEF DiskInv, FilesTypeOK
  <2>3. /\ tmp \in {"none", "part", "whole"} /\ file \in {"none", "fresh", "old"}
        /\ ClearedStaysGone'
    BY <1>1 DEF DiskInv, FilesTypeOK, ClearedStaysGone, Fetches
  <2> QED
    BY <1>1, <2>1, <2>2, <2>3, MovesInv DEF Fetches, Places
<1>2. ASSUME NEW from \in InSet, gpc[c] = from
      PROVE  result[c] = "value" /\ (closing = "removed" => FALSE)
  BY <1>2 DEF DiskInv, GetInv
<1>3. file \in {"none", "fresh", "old"} /\ tmp \in {"none", "part", "whole"}
  BY DEF DiskInv, FilesTypeOK
<1>4. ClearedStaysGone
  BY DEF DiskInv
<1>5. CASE FetchCaches(c)
  <2>1. ClearedStaysGone'
    BY <1>4, <1>5 DEF FetchCaches, ClearedStaysGone
  <2> QED
    BY <1>3, <1>5, <2>1, WritesInv DEF FetchCaches, closed
<1>6. CASE OpensTemp(c)
  <2>1. ClearedStaysGone'
    BY <1>2, <1>6 DEF OpensTemp, ClearedStaysGone, Goes
  <2> QED
    BY <1>2, <1>3, <1>6, <2>1, WritesInv DEF OpensTemp, Goes
<1>7. CASE WritesTemp(c)
  <2>1. ClearedStaysGone'
    BY <1>2, <1>7 DEF WritesTemp, ClearedStaysGone, Goes
  <2> QED
    BY <1>2, <1>3, <1>7, <2>1, WritesInv DEF WritesTemp, Goes
<1>8. CASE Renames(c)
  <2>1. ClearedStaysGone'
    BY <1>2, <1>8 DEF Renames, ClearedStaysGone, Goes
  <2>2. tmp = "whole"
    BY <1>3, <1>8 DEF Renames, Goes, DiskInv, GetInv
  <2> QED
    BY <1>2, <1>3, <1>8, <2>1, <2>2, WritesInv DEF Renames, Goes
<1>9. CASE SetFails(c)
  <2>1. ClearedStaysGone'
    BY <1>4, <1>9 DEF SetFails, ClearedStaysGone
  <2> QED
    BY <1>2, <1>3, <1>9, <2>1, WritesInv DEF SetFails, Goes
<1>10. CASE CleansUp(c)
  <2>1. ClearedStaysGone'
    BY <1>2, <1>10 DEF CleansUp, ClearedStaysGone, Goes
  <2> QED
    BY <1>2, <1>3, <1>10, <2>1, WritesInv DEF CleansUp, Goes
<1>11. CASE FetchSkipsCache(c)
  <2>1. StoreInv' /\ StoreFrame
    BY <1>11, UnchangedStore DEF FetchSkipsCache, Finishes
  <2> QED
    BY <1>11, <2>1, FinishesInv DEF FetchSkipsCache
<1>12. CASE Evicts(c)
  <2>1. StoreInv' /\ StoreFrame
    BY <1>12, UnchangedStore DEF Evicts, Finishes
  <2>2. pc[c] = "settled"
    BY <1>2, <1>12 DEF Evicts, StoreInv, CallInv
  <2> QED
    BY <1>12, <2>1, <2>2, FinishesInv DEF Evicts
<1> QED
  BY <1>1, <1>5, <1>6, <1>7, <1>8, <1>9, <1>10, <1>11, <1>12

\* clearCache(), the other process and time.
LEMMA DirectoryInv ==
  ASSUME StoreInv, DiskInv, ClearCalled \/ ClearRemoves \/ OtherProcess \/ Ages
  PROVE  StoreInv' /\ StoreFrame /\ DiskInv'
<1>1. /\ UNCHANGED storeVars /\ gpc' = gpc /\ inflight' = inflight /\ got' = got
  BY DEF ClearCalled, ClearRemoves, OtherProcess, Ages
<1>2. StoreInv' /\ StoreFrame
  BY <1>1, UnchangedStore
<1>3. Truth' = Truth /\ asks' = asks /\ result' = result /\ present' = present
  BY <1>1 DEF Truth, storeVars
<1>4. FilesTypeOK'
  BY <1>1 DEF DiskInv, FilesTypeOK, ClearCalled, ClearRemoves, OtherProcess, Ages
<1>5. ASSUME NEW d \in Calls PROVE GetInv(d)'
  <2>1. GetInv(d) /\ InSet \subseteq Fetching /\ d # NoCall
    BY NoCallAssumption DEF DiskInv, Fetching
  <2>2. tmp' = "part" => tmp = "part"
    BY DEF ClearCalled, ClearRemoves, OtherProcess, Ages
  <2>3. gpc[d] \in InSet /\ closing' # "open" => closing' = "draining" /\ drains' = d
    <3>1. CASE ClearCalled
      BY <2>1, <3>1 DEF ClearCalled, GetInv
    <3>2. CASE ClearRemoves
      <4>1. gpc[d] \in InSet => drains = d /\ gpc[d] # "done"
        BY <2>1, <3>2 DEF ClearRemoves, GetInv, InSet
      <4> QED
        BY <3>2, <4>1 DEF ClearRemoves
    <3>3. CASE OtherProcess \/ Ages
      BY <2>1, <3>3 DEF OtherProcess, Ages, GetInv
    <3> QED
      BY <3>1, <3>2, <3>3
  <2> QED
    BY <1>1, <1>3, <2>1, <2>2, <2>3 DEF GetInv
<1>6. file' # "part" /\ (file' # "none" => present)
  BY DEF DiskInv, ClearCalled, ClearRemoves, OtherProcess, Ages
<1>7. ClearedStaysGone'
  BY DEF DiskInv, ClearCalled, ClearRemoves, OtherProcess, Ages, ClearedStaysGone
<1> QED
  BY <1>2, <1>3, <1>4, <1>5, <1>6, <1>7 DEF DiskInv

LEMMA RestartsInv ==
  ASSUME StoreInv, DiskInv, Restarts
  PROVE  StoreInv' /\ DiskInv'
<1>1. StoreTypeOK'
  BY RetriesAssumption DEF Restarts, StoreInv, StoreTypeOK, Faults
<1>2. StoreInv'
  BY <1>1 DEF Restarts, StoreInv, CallInv
<1>3. FilesTypeOK'
  BY DEF Restarts, DiskInv, FilesTypeOK
<1>4. DiskInv'
  BY <1>3, NoCallAssumption DEF Restarts, DiskInv, GetInv, ClearedStaysGone, Fetching, InSet
<1> QED
  BY <1>2, <1>4

------------------------------------------------------------------------------

LEMMA StepInv == Inv /\ [StorageNext]_storageVars => Inv'
<1> SUFFICES ASSUME Inv, [StorageNext]_storageVars PROVE Inv'
  OBVIOUS
<1>1. StoreInv /\ ReadInv /\ DiskInv
  BY DEF Inv
<1>2. CASE MetadataKey(Next)
  <2>1. StoreInv' /\ StoreFrame /\ ReadInv'
    BY <1>1, <1>2, ReadNextInv DEF MetadataKey
  <2> QED
    BY <1>1, <1>2, <2>1, DiskFrame DEF Inv, MetadataKey
<1>3. CASE ChunkKey(CachedNext)
  <2>1. /\ ~metadata /\ CachedNext /\ UNCHANGED cacheVars /\ metadata' = metadata
        /\ \A c \in Calls : mpc[c] = "idle" /\ answer[c] = "none"
    BY <1>3 DEF ChunkKey, Inv
  <2>2. CASE Restarts
    <3>1. StoreInv' /\ DiskInv' /\ Truth' = Truth /\ asks' = asks
      BY <1>1, <2>2, RestartsInv DEF Restarts, Truth
    <3>2. ReadInv'
      BY <1>1, <2>1, <3>1 DEF ReadInv, ReadTypeOK, cacheVars
    <3> QED
      BY <2>1, <3>1, <3>2 DEF Inv, cacheVars
  <2>3. ASSUME StoreInv' /\ StoreFrame /\ DiskInv' PROVE Inv'
    <3>1. ReadInv'
      BY <1>1, <2>1, <2>3, ReadFrame
    <3> QED
      BY <2>1, <2>3, <3>1 DEF Inv, cacheVars
  <2>4. ASSUME NEW c \in Gets, GetBypasses(c) \/ GetLooksUp(c) \/ GetStep(c) PROVE Inv'
    BY <1>1, <2>3, <2>4, LookupInv, FetchInv DEF Gets, GetStep
  <2>5. ASSUME NEW c \in Calls \ Gets, Delegates(c) PROVE Inv'
    BY <1>1, <2>3, <2>5, StartsInv, DiskFrame DEF Delegates
  <2>6. ASSUME NEW c \in Calls, InnerStep(c) PROVE Inv'
    BY <1>1, <2>3, <2>6, CallStepInv, DiskFrame DEF InnerStep
  <2>7. CASE InnerClient
    BY <1>1, <2>3, <2>7, ClientInv, DiskFrame DEF InnerClient
  <2>8. CASE ClearCalled \/ ClearRemoves \/ OtherProcess \/ Ages
    BY <1>1, <2>3, <2>8, DirectoryInv
  <2> QED
    BY <2>1, <2>2, <2>4, <2>5, <2>6, <2>7, <2>8 DEF CachedNext
<1>4. CASE UNCHANGED storageVars
  <2>1. /\ UNCHANGED storeVars /\ UNCHANGED cacheVars /\ UNCHANGED diskVars /\ metadata' = metadata
    BY <1>4 DEF storageVars, vars
  <2>2. StoreInv' /\ StoreFrame
    BY <1>1, <2>1, UnchangedStore
  <2>3. ReadInv' /\ DiskInv'
    BY <1>1, <2>1, <2>2, ReadFrame, DiskFrame
  <2> QED
    BY <2>1, <2>2, <2>3 DEF Inv, cacheVars
<1> QED
  BY <1>2, <1>3, <1>4 DEF StorageNext

\* The inductive invariant holds in every reachable state.
THEOREM Invariance == StorageSpec => []Inv
<1> QED
  BY InitInv, StepInv, PTL DEF StorageSpec

\* Every variable of the store, the shared cache and the disk cache keeps its type; in
\* particular no call makes more than maxRetries retries (executeWithRetry).
THEOREM TypeCorrectness == StorageSpec => []StorageTypeOK
<1>1. Inv => StorageTypeOK
  BY DEF Inv, StoreInv, ReadInv, DiskInv, ReadTypeOK, FilesTypeOK, StorageTypeOK, TypeOK, DiskTypeOK
<1> QED
  BY <1>1, Invariance, PTL

\* Whatever fails, crashes or is evicted: null means that the key is absent, bytes are
\* the key's, and all of them; the shared cache only holds what the store would answer.
THEOREM ReadsAreTruthful == StorageSpec => []Truthful
<1>1. Inv => Truthful
  BY DEF Inv, StoreInv, CallInv, ReadInv, DiskInv, GetInv, Truthful, AnswersTruthful, GetsTruthful
<1> QED
  BY <1>1, Invariance, PTL

\* A read fails only after a permanent fault, with its retries used up, in the body of
\* an HTTP response, or with the fetch it joined; never because a cache failed.
THEOREM FailuresHaveReason == StorageSpec => []FailuresJustified
<1>1. ASSUME Inv, NEW c \in Calls, Failed(c)
      PROVE  \/ fault[c] = "permanent"
             \/ fault[c] \in {"request", "body"} /\ attempt[c] = MaxRetries
             \/ transport = "http" /\ fault[c] = "body"
  <2>1. result[c] = "failed"
    BY <1>1 DEF Inv, ReadInv, Failed
  <2> QED
    BY <1>1, <2>1 DEF Inv, StoreInv, CallInv, Justified
<1>2. Inv => FailuresJustified
  BY <1>1 DEF Inv, DiskInv, GetInv, FailuresJustified, FailsOnlyExhausted, DiskNeverFails
<1> QED
  BY <1>2, Invariance, PTL

\* At most one get() fetches a chunk or writes it at a time.
THEOREM RequestsAreShared == StorageSpec => []OneFetch
<1>1. ASSUME Inv PROVE OneFetch
  <2> DEFINE S == {c \in Calls : gpc[c] \in Fetching}
  <2>1. S \subseteq {inflight}
    BY <1>1 DEF Inv, DiskInv, GetInv
  <2>2. IsFiniteSet({inflight}) /\ Cardinality({inflight}) = 1
    BY FS_Singleton
  <2>3. Cardinality(S) <= Cardinality({inflight})
    BY <2>1, <2>2, FS_Subset
  <2> QED
    BY <2>2, <2>3 DEF OneFetch
<1> QED
  BY <1>1, Invariance, PTL

\* After clearCache() no write of this process brings the directory back.
THEOREM ClearIsFinal == StorageSpec => []ClearedStaysGone
<1>1. Inv => ClearedStaysGone
  BY DEF Inv, DiskInv
<1> QED
  BY <1>1, Invariance, PTL

------------------------------------------------------------------------------
(* The abstract lookup *)

Lenient == {c \in Calls : Swallows(c)}
View == [c \in Calls |-> OutcomeOf(c)]

\* The step is one of the lookup, or shows nothing.
LookupStep == [Lookups!Next]_<<Truth, Lenient, View>>

\* What is looked up, and by whom, does not change.
Fixed == Truth' = Truth /\ asks' = asks /\ transport' = transport /\ metadata' = metadata

LEMMA FixedLenient ==
  ASSUME Fixed
  PROVE  Lenient' = Lenient
BY DEF Fixed, Lenient, Swallows

\* A step in which no call is asked or answered.
LEMMA NothingShows ==
  ASSUME Fixed, \A d \in Calls : OutcomeOf(d)' = OutcomeOf(d)
  PROVE  LookupStep
<1>1. View' = View
  BY DEF View
<1> QED
  BY <1>1, FixedLenient DEF LookupStep, Fixed

\* A step in which calls that are pending are answered alike.
LEMMA AnswersTogether ==
  ASSUME Fixed, NEW S \in SUBSET Calls, NEW a \in {Truth, "failed"},
         \A d \in S : OutcomeOf(d) = "pending",
         \A d \in Calls : OutcomeOf(d)' = IF d \in S THEN a ELSE OutcomeOf(d)
  PROVE  LookupStep
<1>1. S \subseteq Lookups!Pending
  BY DEF Lookups!Pending, View
<1>2. View' = [d \in Calls |-> IF d \in S THEN a ELSE View[d]]
  BY DEF View
<1>3. Lookups!Reply(S, a)
  BY <1>1, <1>2 DEF Lookups!Reply, View
<1> QED
  BY <1>3, FixedLenient DEF LookupStep, Lookups!Next, Fixed, Lenient

\* A step of one call.
LEMMA OneShows ==
  ASSUME Fixed, NEW c \in Calls, \A d \in Calls \ {c} : OutcomeOf(d)' = OutcomeOf(d),
         \/ OutcomeOf(c)' = OutcomeOf(c)
         \/ OutcomeOf(c) = "idle" /\ OutcomeOf(c)' = "pending"
         \/ OutcomeOf(c) = "pending" /\ OutcomeOf(c)' \in {Truth, "failed"}
         \/ OutcomeOf(c) = "pending" /\ OutcomeOf(c)' = "absent" /\ Swallows(c)
  PROVE  LookupStep
<1>1. CASE OutcomeOf(c)' = OutcomeOf(c)
  BY <1>1, NothingShows
<1>2. CASE OutcomeOf(c) = "idle" /\ OutcomeOf(c)' = "pending"
  <2>1. View' = [View EXCEPT ![c] = "pending"] /\ View[c] = "idle"
    <3>1. ASSUME NEW d \in Calls PROVE OutcomeOf(d)' = IF d = c THEN "pending" ELSE OutcomeOf(d)
      BY <1>2
    <3>2. View' = [d \in Calls |-> IF d = c THEN "pending" ELSE OutcomeOf(d)]
      BY <3>1 DEF View
    <3> QED
      BY <1>2, <3>2 DEF View
  <2>2. Lookups!Ask(c)
    BY <2>1 DEF Lookups!Ask, View
  <2> QED
    BY <2>2, FixedLenient DEF LookupStep, Lookups!Next, Fixed, Lenient
<1>3. CASE OutcomeOf(c) = "pending" /\ OutcomeOf(c)' \in {Truth, "failed"}
  <2> DEFINE S == {c}
             a == OutcomeOf(c)'
  <2>1. /\ S \in SUBSET Calls /\ a \in {Truth, "failed"} /\ \A d \in S : OutcomeOf(d) = "pending"
        /\ \A d \in Calls : OutcomeOf(d)' = IF d \in S THEN a ELSE OutcomeOf(d)
    BY <1>3
  <2> HIDE DEF S, a
  <2> QED
    BY <2>1, AnswersTogether
<1>4. CASE OutcomeOf(c) = "pending" /\ OutcomeOf(c)' = "absent" /\ Swallows(c)
  <2>1. View' = [d \in Calls |-> IF d \in {c} THEN "absent" ELSE View[d]]
    BY <1>4 DEF View
  <2>2. {c} \subseteq Lookups!Pending /\ c \in Lenient
    BY <1>4 DEF Lookups!Pending, View, Lenient
  <2>3. Lookups!Reply({c}, "absent")
    BY <2>1, <2>2 DEF Lookups!Reply, View
  <2> QED
    BY <2>2, <2>3, FixedLenient DEF LookupStep, Lookups!Next, Fixed, Lenient
<1> QED
  BY <1>1, <1>2, <1>3, <1>4

\* A kill ends all calls.
LEMMA CrashShows ==
  ASSUME Fixed, \A d \in Calls : OutcomeOf(d)' = "idle"
  PROVE  LookupStep
<1>1. View' = [d \in Calls |-> "idle"]
  BY DEF View
<1>2. Lookups!Crash
  BY <1>1 DEF Lookups!Crash, View
<1> QED
  BY <1>2, FixedLenient DEF LookupStep, Lookups!Next, Fixed, Lenient

\* A step of call c in the store.
LEMMA CallStepAlone ==
  ASSUME StoreInv, NEW c \in Calls, CallStep(c)
  PROVE  /\ UNCHANGED <<transport, asks, present>>
         /\ pc[c] \notin {"idle", "settled"} /\ pc'[c] # "idle"
         /\ \A d \in Calls \ {c} : pc'[d] = pc[d] /\ result'[d] = result[d]
<1>1. ASSUME NEW from \in {"client", "request", "backoff", "body"}, NEW at \in {"request", "body", "backoff"},
             Suspends(c, from, at)
      PROVE  /\ UNCHANGED <<transport, asks, present>>
             /\ pc[c] \notin {"idle", "settled"} /\ pc'[c] # "idle"
             /\ \A d \in Calls \ {c} : pc'[d] = pc[d] /\ result'[d] = result[d]
  BY <1>1 DEF Suspends, StoreInv, StoreTypeOK
<1>2. ASSUME NEW from \in {"client", "request", "body"}, NEW res, Settles(c, from, res)
      PROVE  /\ UNCHANGED <<transport, asks, present>>
             /\ pc[c] \notin {"idle", "settled"} /\ pc'[c] # "idle"
             /\ \A d \in Calls \ {c} : pc'[d] = pc[d] /\ result'[d] = result[d]
  BY <1>2 DEF Settles, StoreInv, StoreTypeOK
<1>3. CASE ClientResumes(c) \/ Found(c) \/ BackoffEnds(c)
  BY <1>1, <1>3 DEF ClientResumes, Found, BackoffEnds
<1>4. CASE TransientFault(c) \/ Deadline(c)
  BY <1>1, <1>2, <1>4 DEF TransientFault, Deadline
<1>5. CASE ClientThrows(c) \/ HeadFound(c) \/ NotFound(c) \/ PermanentFault(c) \/ BodyArrives(c) \/ ShortBody(c)
  BY <1>2, <1>5 DEF ClientThrows, HeadFound, NotFound, PermanentFault, BodyArrives, ShortBody
<1> QED
  BY <1>3, <1>4, <1>5 DEF CallStep

\* A call that the store starts.
LEMMA StartsAlone ==
  ASSUME StoreInv, NEW c \in Calls, Starts(c)
  PROVE  /\ UNCHANGED <<transport, asks, present>>
         /\ pc[c] = "idle" /\ pc'[c] \in {"client", "request"}
         /\ \A d \in Calls \ {c} : pc'[d] = pc[d] /\ result'[d] = result[d]
BY DEF Starts, StartsHTTP, StartsS3, Suspends, StoreInv, StoreTypeOK

\* What the store does for a call: only of a call of its user does it show.
LEMMA StoreStepShows ==
  ASSUME StoreInv, StoreInv', NEW c \in Calls,
         CallStep(c) \/ (Starts(c) /\ asks[c] # "get"),
         metadata' = metadata, UNCHANGED <<mpc, answer, gpc, got>>
  PROVE  LookupStep
<1>1. /\ UNCHANGED <<transport, asks, present>>
      /\ \A d \in Calls \ {c} : pc'[d] = pc[d] /\ result'[d] = result[d]
  BY CallStepAlone, StartsAlone
<1>2. Fixed
  BY <1>1 DEF Fixed, Truth
<1>3. ASSUME NEW d \in Calls \ {c} PROVE OutcomeOf(d)' = OutcomeOf(d)
  BY <1>1 DEF OutcomeOf
<1>4. CASE asks[c] = "get"
  <2>1. OutcomeOf(c)' = OutcomeOf(c)
    BY <1>1, <1>4 DEF OutcomeOf
  <2> QED
    BY <1>2, <1>3, <2>1, OneShows
<1>5. CASE asks[c] # "get" /\ CallStep(c)
  <2>1. pc[c] \notin {"idle", "settled"} /\ pc'[c] # "idle"
    BY <1>5, CallStepAlone
  <2>2. pc[c] # "done" /\ pc'[c] # "done"
    BY DEF StoreInv, StoreTypeOK
  <2>3. OutcomeOf(c) = "pending" /\ OutcomeOf(c)' = IF pc'[c] = "settled" THEN result'[c] ELSE "pending"
    BY <1>1, <1>5, <2>1, <2>2 DEF OutcomeOf, Outcome
  <2>4. pc'[c] = "settled" => \/ result'[c] \in {Truth, "failed"}
                              \/ Swallows(c) /\ result'[c] = "absent"
    BY <1>1, <1>2 DEF StoreInv, CallInv, Swallows, Fixed
  <2> QED
    BY <1>2, <1>3, <2>3, <2>4, OneShows
<1>6. CASE asks[c] # "get" /\ Starts(c)
  <2>1. OutcomeOf(c) = "idle" /\ OutcomeOf(c)' = "pending"
    BY <1>1, <1>6, StartsAlone DEF OutcomeOf, Outcome
  <2> QED
    BY <1>2, <1>3, <2>1, OneShows
<1> QED
  BY <1>4, <1>5, <1>6

\* A step of the read of a metadata key.
LEMMA MetadataShows ==
  ASSUME Inv, Inv', metadata, metadata' = metadata, NEW c \in Gets, ReadStarts(c) \/ MetadataStep(c)
  PROVE  LookupStep
<1>1. /\ c \in Calls /\ asks[c] = "get" /\ StoreInv /\ ReadInv
      /\ mpc \in [Calls -> {"idle", "lookup", "store", "write", "done"}]
      /\ answer \in [Calls -> {"none", "value", "short", "absent", "failed"}]
  BY DEF Gets, Inv, ReadInv, ReadTypeOK
<1>2. CASE LookupMisses(c)
  <2>1. /\ UNCHANGED <<transport, asks, present>>
        /\ \A d \in Calls \ {c} : pc'[d] = pc[d] /\ result'[d] = result[d]
    BY <1>1, <1>2, StartsAlone DEF LookupMisses
  <2>2. Fixed
    BY <2>1 DEF Fixed, Truth
  <2>3. ASSUME NEW d \in Calls \ {c} PROVE OutcomeOf(d)' = OutcomeOf(d)
    BY <1>1, <1>2, <2>1 DEF LookupMisses, OutcomeOf
  <2>4. OutcomeOf(c)' = OutcomeOf(c)
    BY <1>1, <1>2, <2>1 DEF LookupMisses, OutcomeOf, Outcome
  <2> QED
    BY <1>1, <2>2, <2>3, <2>4, OneShows
<1>3. CASE ReadStarts(c) \/ LookupHits(c) \/ StoreAnswers(c) \/ StoreThrows(c) \/ WriteSucceeds(c) \/ WriteFails(c)
  <2>1. UNCHANGED storeVars
    BY <1>3 DEF ReadStarts, LookupHits, StoreAnswers, StoreThrows, WriteSucceeds, WriteFails
  <2>2. Fixed
    BY <2>1 DEF Fixed, Truth, storeVars
  <2>3. \A d \in Calls \ {c} : mpc'[d] = mpc[d] /\ answer'[d] = answer[d]
    BY <1>1, <1>3 DEF ReadStarts, LookupHits, StoreAnswers, StoreThrows, WriteSucceeds, WriteFails, Answers
  <2>4. ASSUME NEW d \in Calls \ {c} PROVE OutcomeOf(d)' = OutcomeOf(d)
    BY <2>1, <2>3 DEF OutcomeOf, storeVars
  <2>5. OutcomeOf(c) = Outcome(mpc[c], answer[c]) /\ OutcomeOf(c)' = Outcome(mpc'[c], answer'[c])
    BY <1>1, <2>1 DEF OutcomeOf, storeVars
  <2>6. CASE ReadStarts(c)
    <3>1. mpc[c] = "idle" /\ mpc'[c] = "lookup"
      BY <1>1, <2>6 DEF ReadStarts
    <3> QED
      BY <1>1, <2>2, <2>4, <2>5, <3>1, OneShows DEF Outcome
  <2>7. CASE StoreAnswers(c)
    <3>1. mpc[c] = "store" /\ mpc'[c] = "write"
      BY <1>1, <2>7 DEF StoreAnswers
    <3> QED
      BY <1>1, <2>2, <2>4, <2>5, <3>1, OneShows DEF Outcome
  <2>8. CASE LookupHits(c) \/ StoreThrows(c) \/ WriteSucceeds(c) \/ WriteFails(c)
    <3>1. mpc[c] \in {"lookup", "store", "write"} /\ mpc'[c] = "done"
      BY <1>1, <2>8 DEF LookupHits, StoreThrows, WriteSucceeds, WriteFails, Answers
    <3>2. answer'[c] \in {Truth, "failed"}
      <4>1. answer'[c] # "none"
        BY <1>1, <2>8, TruthValues, GetResult
           DEF LookupHits, StoreThrows, WriteSucceeds, WriteFails, Answers, ReadInv
      <4>2. answer'[c] \in {"none", "failed", Truth}
        BY <1>1, <2>2 DEF Inv, ReadInv, Fixed
      <4> QED
        BY <4>1, <4>2
    <3>3. OutcomeOf(c) = "pending" /\ OutcomeOf(c)' = answer'[c]
      BY <2>5, <3>1 DEF Outcome
    <3> QED
      BY <1>1, <2>2, <2>4, <3>2, <3>3, OneShows
  <2> QED
    BY <1>3, <2>6, <2>7, <2>8
<1> QED
  BY <1>2, <1>3 DEF MetadataStep

\* A step of one get() of a chunk.
LEMMA GetShows ==
  ASSUME Inv, NEW c \in Calls, asks[c] = "get", ~metadata, metadata' = metadata,
         UNCHANGED <<transport, asks, present>>,
         \A d \in Calls \ {c} : asks[d] # "get" => pc'[d] = pc[d] /\ result'[d] = result[d],
         NEW from, NEW at, at # "idle", from # "done", from # "settled", at # "settled",
         Goes(c, from, at), \A d \in Calls \ {c} : got'[d] = got[d],
         at = "done" => from # "idle" /\ got'[c] \in {Truth, "failed"}
  PROVE  LookupStep
<1>1. Fixed
  BY DEF Fixed, Truth
<1>2. gpc[c] = from /\ gpc'[c] = at /\ \A d \in Calls \ {c} : gpc'[d] = gpc[d]
  BY DEF Goes, Inv, DiskInv, FilesTypeOK
<1>3. ASSUME NEW d \in Calls \ {c} PROVE OutcomeOf(d)' = OutcomeOf(d)
  BY <1>2 DEF OutcomeOf
<1>4. OutcomeOf(c) = Outcome(from, got[c]) /\ OutcomeOf(c)' = Outcome(at, got'[c])
  BY <1>2 DEF OutcomeOf
<1> QED
  BY <1>1, <1>3, <1>4, OneShows DEF Outcome

\* The end of a fetch, for all who await it.
LEMMA FinishShows ==
  ASSUME Inv, NEW c \in Calls, asks[c] = "get", ~metadata, metadata' = metadata,
         gpc[c] \in Fetching, pc[c] = "settled", Finishes(c)
  PROVE  LookupStep
<1> DEFINE S == {c} \cup {d \in Calls : gpc[d] = "joined"}
           a == result[c]
<1>1. /\ UNCHANGED storeVars
      /\ gpc' = [d \in Calls |-> IF d \in S THEN "done" ELSE gpc[d]]
      /\ got' = [d \in Calls |-> IF d \in S THEN a ELSE got[d]]
  BY DEF Finishes
<1>2. Fixed
  BY <1>1 DEF Fixed, Truth, storeVars
<1>3. a \in {Truth, "failed"}
  BY GetResult DEF Inv
<1>4. ASSUME NEW d \in S PROVE d \in Calls /\ asks[d] = "get" /\ gpc[d] \notin {"idle", "done", "settled"}
  BY <1>4 DEF Inv, DiskInv, GetInv, Fetching, InSet
<1>5. ASSUME NEW d \in S PROVE OutcomeOf(d) = "pending"
  BY <1>4 DEF OutcomeOf, Outcome
<1>6. ASSUME NEW d \in Calls PROVE OutcomeOf(d)' = IF d \in S THEN a ELSE OutcomeOf(d)
  <2>1. gpc'[d] = (IF d \in S THEN "done" ELSE gpc[d]) /\ got'[d] = (IF d \in S THEN a ELSE got[d])
    BY <1>1
  <2>2. CASE d \in S
    BY <1>1, <1>4, <2>1, <2>2 DEF OutcomeOf, Outcome, storeVars
  <2>3. CASE d \notin S
    BY <1>1, <2>1, <2>3 DEF OutcomeOf, storeVars
  <2> QED
    BY <2>2, <2>3
<1> HIDE DEF S, a
<1>7. S \in SUBSET Calls
  BY <1>4
<1> QED
  BY <1>2, <1>3, <1>5, <1>6, <1>7, AnswersTogether

\* A step of the process on a chunk.
LEMMA ChunkShows ==
  ASSUME Inv, Inv', ~metadata, metadata' = metadata, NEW c \in Gets,
         GetBypasses(c) \/ GetLooksUp(c) \/ GetStep(c)
  PROVE  LookupStep
<1>1. /\ c \in Calls /\ asks[c] = "get" /\ StoreInv
      /\ got \in [Calls -> {"none", "value", "short", "absent", "failed"}]
  BY DEF Gets, Inv, DiskInv, FilesTypeOK
<1>2. CASE GetBypasses(c) \/ Fetches(c)
  <2>1. Starts(c) /\ (Goes(c, "idle", "inner") \/ Goes(c, "missed", "fetch")) /\ got' = got
    BY <1>2 DEF GetBypasses, Fetches
  <2>2. /\ UNCHANGED <<transport, asks, present>>
        /\ \A d \in Calls \ {c} : pc'[d] = pc[d] /\ result'[d] = result[d]
    BY <1>1, <2>1, StartsAlone
  <2> QED
    BY <1>1, <2>1, <2>2, GetShows
<1>3. ASSUME UNCHANGED storeVars
      PROVE  /\ UNCHANGED <<transport, asks, present>> /\ Truth' = Truth
             /\ \A d \in Calls \ {c} : pc'[d] = pc[d] /\ result'[d] = result[d]
  BY <1>3 DEF storeVars, Truth
<1>4. CASE GetLooksUp(c) \/ Stats(c) \/ LookupFails(c) \/ Joins(c)
  BY <1>1, <1>3, <1>4, GetShows DEF GetLooksUp, Stats, LookupFails, Joins
<1>5. CASE Hits(c) \/ BypassAnswers(c)
  <2>1. /\ UNCHANGED storeVars /\ (Goes(c, "read", "done") \/ Goes(c, "inner", "done"))
        /\ \A d \in Calls \ {c} : got'[d] = got[d]
    BY <1>1, <1>5 DEF Hits, BypassAnswers
  <2>2. got'[c] \in {Truth, "failed"}
    <3>1. got'[c] # "none"
      BY <1>1, <1>5, GetResult, TruthValues DEF Hits, BypassAnswers
    <3>2. got'[c] \in {"none", "failed", Truth}
      BY <1>1, <1>3, <2>1 DEF Inv, DiskInv, GetInv
    <3> QED
      BY <3>1, <3>2
  <2> QED
    BY <1>1, <1>3, <2>1, <2>2, GetShows
<1>6. CASE FetchCaches(c) \/ OpensTemp(c) \/ WritesTemp(c) \/ Renames(c) \/ SetFails(c) \/ CleansUp(c)
  BY <1>1, <1>3, <1>6, GetShows DEF FetchCaches, OpensTemp, WritesTemp, Renames, SetFails, CleansUp
<1>7. CASE FetchSkipsCache(c)
  BY <1>1, <1>7, FinishShows DEF FetchSkipsCache, Fetching
<1>8. CASE Evicts(c)
  <2>1. pc[c] = "settled" /\ gpc[c] \in Fetching
    BY <1>1, <1>8 DEF Evicts, Inv, DiskInv, GetInv, StoreInv, CallInv, Fetching, InSet
  <2> QED
    BY <1>1, <1>8, <2>1, FinishShows DEF Evicts
<1> QED
  BY <1>2, <1>4, <1>5, <1>6, <1>7, <1>8 DEF GetStep

\* Every step of the storage is one of the lookup, or shows nothing.
LEMMA StorageShows == Inv /\ Inv' /\ [StorageNext]_storageVars => LookupStep
<1> SUFFICES ASSUME Inv, Inv', [StorageNext]_storageVars PROVE LookupStep
  OBVIOUS
<1>1. StoreInv /\ StoreInv'
  BY DEF Inv
<1>2. ASSUME UNCHANGED <<transport, asks, present, pc, result, mpc, answer, gpc, got, metadata>>
      PROVE  LookupStep
  <2>1. Fixed
    BY <1>2 DEF Fixed, Truth
  <2>2. ASSUME NEW d \in Calls PROVE OutcomeOf(d)' = OutcomeOf(d)
    BY <1>2 DEF OutcomeOf
  <2> QED
    BY <2>1, <2>2, NothingShows
<1>3. CASE MetadataKey(Next)
  <2>1. metadata /\ metadata' = metadata /\ Next /\ UNCHANGED <<gpc, got>>
    BY <1>3 DEF MetadataKey, diskVars
  <2>2. ASSUME NEW c \in Gets, ReadStarts(c) \/ MetadataStep(c) PROVE LookupStep
    BY <2>1, <2>2, MetadataShows
  <2>3. ASSUME NEW c \in Calls \ Gets, OtherStarts(c) PROVE LookupStep
    BY <1>1, <2>1, <2>3, StoreStepShows DEF OtherStarts, cacheVars, Gets
  <2>4. ASSUME NEW c \in Calls, StoreStep(c) PROVE LookupStep
    BY <1>1, <2>1, <2>4, StoreStepShows DEF StoreStep, cacheVars
  <2>5. CASE ClientStep \/ Forgets
    BY <1>2, <2>1, <2>5 DEF ClientStep, ClientSettles, Prewarms, Forgets, cacheVars, storeVars
  <2> QED
    BY <2>1, <2>2, <2>3, <2>4, <2>5 DEF Next
<1>4. CASE ChunkKey(CachedNext)
  <2>1. ~metadata /\ metadata' = metadata /\ CachedNext /\ UNCHANGED <<mpc, answer>>
    BY <1>4 DEF ChunkKey, cacheVars
  <2>2. ASSUME NEW c \in Gets, GetBypasses(c) \/ GetLooksUp(c) \/ GetStep(c) PROVE LookupStep
    BY <2>1, <2>2, ChunkShows
  <2>3. ASSUME NEW c \in Calls \ Gets, Delegates(c) PROVE LookupStep
    BY <1>1, <2>1, <2>3, StoreStepShows DEF Delegates, diskVars, Gets
  <2>4. ASSUME NEW c \in Calls, InnerStep(c) PROVE LookupStep
    BY <1>1, <2>1, <2>4, StoreStepShows DEF InnerStep, diskVars
  <2>5. CASE InnerClient \/ ClearCalled \/ ClearRemoves \/ OtherProcess \/ Ages
    BY <1>2, <2>1, <2>5 DEF InnerClient, ClientSettles, Prewarms, ClearCalled, ClearRemoves, OtherProcess,
                            Ages, diskVars, storeVars
  <2>6. CASE Restarts
    <3>1. Fixed
      BY <2>1, <2>6 DEF Restarts, Fixed, Truth
    <3>2. ASSUME NEW d \in Calls PROVE OutcomeOf(d)' = "idle"
      BY <2>1, <2>6 DEF Restarts, OutcomeOf, Outcome
    <3> QED
      BY <3>1, <3>2, CrashShows
  <2> QED
    BY <2>1, <2>2, <2>3, <2>4, <2>5, <2>6 DEF CachedNext
<1>5. CASE UNCHANGED storageVars
  BY <1>2, <1>5 DEF storageVars, vars, storeVars, cacheVars, diskVars
<1> QED
  BY <1>3, <1>4, <1>5 DEF StorageNext

\* The storage implements the atomic lookup: with retries, deadlines, a shared cache, a
\* disk, another process, evictions and kills in between, its callers see one lookup
\* answered once, and the get()s that share a fetch answered together and alike.
THEOREM LookupImplemented == StorageSpec => LookupSpec
<1>1. StorageInit => Lookups!Init
  <2> SUFFICES ASSUME StorageInit PROVE Lookups!Init
    OBVIOUS
  <2>1. ASSUME NEW d \in Calls PROVE OutcomeOf(d) = "idle"
    BY DEF StorageInit, Init, StoreInit, CachedInit, OutcomeOf, Outcome
  <2>2. View = [d \in Calls |-> "idle"]
    BY <2>1 DEF View
  <2> QED
    BY <2>2, TruthValues DEF Lookups!Init, View
<1>2. Inv /\ Inv' /\ [StorageNext]_storageVars => [Lookups!Next]_<<Truth, Lenient, View>>
  BY StorageShows DEF LookupStep
<1> QED
  BY <1>1, <1>2, Invariance, PTL DEF StorageSpec, LookupSpec, Lookups!Spec, Lenient, View
=============================================================================
