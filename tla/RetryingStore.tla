--------------------------- MODULE RetryingStore ---------------------------
(***************************************************************************)
(* get(), getRange(), has() and head() of the network stores               *)
(* (src/src/store/http.ts, src/src/store/s3.ts) over the shared retry      *)
(* policy (src/src/store/retry.ts), for calls on one key.                  *)
(*                                                                         *)
(* A call makes attempts, each a request and, if the key is there and the  *)
(* call asks for bytes, a body.                                            *)
(* Both transports retry a transient fault of the request. HTTPStore reads *)
(* the body after its retry loop, S3Store within it. S3Store creates its   *)
(* client at the first call, or before it when it is told to warm up.      *)
(*                                                                         *)
(* The content of the key does not change: a store identity that is cached *)
(* names a version (src/src/cache/read-through.ts). S3Store does not       *)
(* compare the length of a range: its server is taken to honour the range. *)
(***************************************************************************)
EXTENDS Integers

CONSTANTS
  Calls,
  Transports,  \* the kinds of store checked, of "http" and "s3"
  Asks,        \* the mixes of operations checked: functions call -> operation
  MaxRetries

Operations == {"get", "range", "has", "head"}

ASSUME TransportsAssumption == Transports \subseteq {"http", "s3"}
ASSUME AsksAssumption == Asks \subseteq [Calls -> Operations]
ASSUME RetriesAssumption == MaxRetries \in Nat

VARIABLES
  transport,
  asks,      \* call -> the operation it is a call of
  present,   \* the backend has the key
  client,    \* S3Store.clientPromise
  pc,        \* call -> where it is suspended
  attempt,   \* call -> number of its current attempt, from 0
  fault,     \* call -> the fault of its current attempt: permanent, or a transient
             \* one of the request or of the body (history)
  result     \* call -> what it resolved with: the key's bytes, a part of them
             \* ("short"), null ("absent"), or that it failed; of has() and
             \* head(), "value" for a key that is there

storeVars == <<transport, asks, present, client, pc, attempt, fault, result>>

Gets == {c \in Calls : asks[c] = "get"}

Faults == {"permanent", "request", "body"}

StoreTypeOK ==
  /\ transport \in Transports
  /\ asks \in [Calls -> Operations]
  /\ present \in BOOLEAN
  /\ client \in {"none", "creating", "ready", "broken"}
  /\ pc \in [Calls -> {"idle", "client", "request", "body", "backoff", "settled"}]
  /\ attempt \in [Calls -> 0..MaxRetries]
  /\ fault \in [Calls -> Faults \cup {"none"}]
  /\ result \in [Calls -> {"none", "value", "short", "absent", "failed"}]

StoreInit ==
  /\ transport \in Transports
  /\ asks \in Asks
  /\ \A c \in Calls : asks[c] = "head" => transport = "s3"   \* HTTPStore has none
  /\ present \in BOOLEAN
  /\ client = "none"
  /\ pc = [c \in Calls |-> "idle"]
  /\ attempt = [c \in Calls |-> 0]
  /\ fault = [c \in Calls |-> "none"]
  /\ result = [c \in Calls |-> "none"]

------------------------------------------------------------------------------
(* Steps of a call *)

\* The call is suspended at `at` instead of `from`.
Suspends(c, from, at) ==
  /\ pc[c] = from
  /\ pc' = [pc EXCEPT ![c] = at]
  /\ UNCHANGED <<transport, asks, present, result>>

Settles(c, from, res) ==
  /\ pc[c] = from
  /\ pc' = [pc EXCEPT ![c] = "settled"]
  /\ result' = [result EXCEPT ![c] = res]
  /\ UNCHANGED <<transport, asks, present, client, attempt>>

\* fetchWithRetry()
StartsHTTP(c) ==
  /\ transport = "http"
  /\ Suspends(c, "idle", "request")
  /\ UNCHANGED <<client, attempt, fault>>

\* getClient(): the first call creates the client, all calls await it.
StartsS3(c) ==
  /\ transport = "s3"
  /\ Suspends(c, "idle", "client")
  /\ client' = IF client = "none" THEN "creating" ELSE client
  /\ UNCHANGED <<attempt, fault>>

Starts(c) == StartsHTTP(c) \/ StartsS3(c)

\* prewarm(), awaited or left alone by the constructor: it creates the client;
\* what becomes of its request is swallowed.
Prewarms ==
  /\ transport = "s3"
  /\ client = "none"
  /\ client' = "creating"
  /\ UNCHANGED <<transport, asks, present, pc, attempt, fault, result>>

\* createClient() settles; its promise is kept, also when it rejects.
ClientSettles ==
  /\ client = "creating"
  /\ client' \in {"ready", "broken"}
  /\ UNCHANGED <<transport, asks, present, pc, attempt, fault, result>>

ClientResumes(c) ==
  /\ client = "ready"
  /\ Suspends(c, "client", "request")
  /\ UNCHANGED <<client, attempt, fault>>

ClientThrows(c) ==
  /\ client = "broken"
  /\ Settles(c, "client", "failed")
  /\ fault' = [fault EXCEPT ![c] = "permanent"]

HasBody(c) == asks[c] \in {"get", "range"}

\* A 2xx response, whose body is still to come.
Found(c) ==
  /\ present /\ HasBody(c)
  /\ Suspends(c, "request", "body")
  /\ UNCHANGED <<client, attempt, fault>>

\* The answer to a HEAD request is all of it.
HeadFound(c) ==
  /\ present /\ ~HasBody(c)
  /\ Settles(c, "request", "value")
  /\ UNCHANGED fault

\* A 404 of HTTP is a response like another; NoSuchKey of S3 is an error that
\* is not retried. Both are null, or false of has().
NotFound(c) ==
  /\ ~present
  /\ Settles(c, "request", "absent")
  /\ UNCHANGED fault

\* has() of HTTPStore is false for a response that is not ok and for a throw.
Swallows(c) == transport = "http" /\ asks[c] = "has"

\* Mutant: head() swallows like has().
Faulted_Swallowed(c) == IF asks[c] \in {"has", "head"} THEN "absent" ELSE "failed"

Faulted(c) == IF Swallows(c) THEN "absent" ELSE "failed"

\* Another status than 404 and the retryable ones, a 2xx of S3 without a body, a
\* body of S3 that fails its checksum: the call throws at once.
PermanentFault(c) ==
  /\ \/ Settles(c, "request", Faulted(c))
     \/ transport = "s3" /\ Settles(c, "body", "failed")
  /\ fault' = [fault EXCEPT ![c] = "permanent"]

\* executeWithRetry() spans the request; the body only in S3Store.
Retried(phase) == transport = "s3" \/ phase = "request"

\* Mutant: one attempt more.
TransientFault_OneMore(c) ==
  \E phase \in {"request", "body"} :
    /\ fault' = [fault EXCEPT ![c] = phase]
    /\ \/ /\ Retried(phase) /\ attempt[c] <= MaxRetries
          /\ Suspends(c, phase, "backoff")
          /\ UNCHANGED <<client, attempt>>
       \/ /\ ~(Retried(phase) /\ attempt[c] <= MaxRetries)
          /\ Settles(c, phase, Faulted(c))

\* A status of RETRYABLE_STATUS, a network error, the deadline's TimeoutError:
\* back off or give up. An HTTP status that survived every attempt is returned
\* from the retry loop and thrown like any other status.
TransientFault(c) ==
  \E phase \in {"request", "body"} :
    /\ fault' = [fault EXCEPT ![c] = phase]
    /\ \/ /\ Retried(phase) /\ attempt[c] < MaxRetries
          /\ Suspends(c, phase, "backoff")
          /\ UNCHANGED <<client, attempt>>
       \/ /\ ~(Retried(phase) /\ attempt[c] < MaxRetries)
          /\ Settles(c, phase, Faulted(c))

\* Mutant: the deadline does not reach the body (readBody() without the race).
Deadline_RequestOnly(c) == pc[c] = "request" /\ TransientFault(c)

\* AbortSignal.timeout(): the deadline of an attempt covers request and body.
Deadline(c) == TransientFault(c)

BackoffEnds(c) ==
  /\ Suspends(c, "backoff", "request")
  /\ attempt' = [attempt EXCEPT ![c] = @ + 1]
  /\ fault' = [fault EXCEPT ![c] = "none"]
  /\ UNCHANGED client

\* The body is complete: the object, or the range (of a server that ignores
\* the Range header, cut out of the object).
BodyArrives(c) ==
  /\ Settles(c, "body", "value")
  /\ UNCHANGED fault

\* Mutant: the length of a range is not compared.
ShortBody_Unchecked(c) ==
  /\ transport = "http" /\ asks[c] = "range"
  /\ Settles(c, "body", "short")
  /\ UNCHANGED fault

\* An HTTP server returns fewer bytes than the range has.
ShortBody(c) ==
  /\ transport = "http" /\ asks[c] = "range"
  /\ Settles(c, "body", "failed")
  /\ fault' = [fault EXCEPT ![c] = "permanent"]

CallStep(c) ==
  \/ ClientResumes(c) \/ ClientThrows(c)
  \/ Found(c) \/ HeadFound(c) \/ NotFound(c) \/ PermanentFault(c)
  \/ TransientFault(c) \/ Deadline(c) \/ BackoffEnds(c) \/ BodyArrives(c) \/ ShortBody(c)

\* What a call must resolve with: "null means strictly key absent".
Truth == IF present THEN "value" ELSE "absent"
==============================================================================
