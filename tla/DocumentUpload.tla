--------------------------- MODULE DocumentUpload ---------------------------
(***************************************************************************)
(* POST /api/documents (insight-api routes/documents.rs): the two-phase    *)
(* idempotency protocol around the creation of a document, and the check   *)
(* of the plan's document cap (insight-core billing.rs).                   *)
(*                                                                         *)
(* An attempt is one HTTP request; a client that repeats its request makes *)
(* another attempt with the same Idempotency-Key.  An attempt creates at   *)
(* most one document, so documents are named by the attempts that create   *)
(* them.  One Redis command or Postgres transaction per step.  What        *)
(* becomes of the document and its job is the business of IngestPipeline.  *)
(*                                                                         *)
(* Calls to Redis and Postgres fail, and handlers are killed, at most      *)
(* MaxFaults times; a failed call may or may not have taken effect.  The   *)
(* 24 h for which a response is kept are taken to be longer than any run.  *)
(***************************************************************************)
EXTENDS Naturals, FiniteSets

CONSTANTS
  Attempts,    \* HTTP requests
  Keys,        \* Idempotency-Key values of one tenant
  NoKey,       \* the request carries no key
  Empty,       \* no value under the Redis key
  Pending,     \* IDEMPOTENCY_PENDING
  Cap,         \* plans.document_cap; 0 is unlimited
  MaxFaults,   \* bound on failed calls and killed handlers
  MayOutlive   \* may a handler outlast IDEMPOTENCY_PENDING_TTL_SECS?

ASSUME NamesAssumption ==
  /\ NoKey \notin Keys
  /\ Empty \notin Attempts /\ Pending \notin Attempts /\ Empty # Pending
ASSUME NumbersAssumption ==
  Cap \in Nat /\ MaxFaults \in Nat /\ MayOutlive \in BOOLEAN

VARIABLES
  cache,       \* the value under idem:{tenant}:{key}
  documents,   \* attempts whose document is inserted
  announced,   \* attempts whose ingest job is on the stream
  at,          \* the attempts
  faults       \* failed calls and killed handlers so far

vars == <<cache, documents, announced, at, faults>>

\* `lookup` follows a SET NX that found the key taken; `cap` to `reread` are
\* create_document_inner; `finalize` and `release` follow its Ok and its Err.
PC == {"new", "lookup", "cap", "insert", "enqueue", "reread", "finalize",
       "release", "ok", "conflict", "error", "killed"}

\* The document an attempt that ended in `ok` reported is its `answer`.
AttemptRec == [pc : PC, key : Keys \cup {NoKey}, answer : Attempts \cup {Empty}]

TypeOK ==
  /\ cache \in [Keys -> {Empty, Pending} \cup Attempts]
  /\ documents \subseteq Attempts
  /\ announced \subseteq documents
  /\ at \in [Attempts -> AttemptRec]
  /\ faults \in 0 .. MaxFaults

\* Clients decide which attempts repeat which; nothing else tells them apart.
Init ==
  /\ cache = [k \in Keys |-> Empty]
  /\ documents = {}
  /\ announced = {}
  /\ at \in [Attempts -> [pc : {"new"}, key : Keys \cup {NoKey},
                          answer : {Empty}]]
  /\ faults = 0

At(a, pc) == at[a].pc = pc

KeyOf(a) == at[a].key

Keyed(a) == KeyOf(a) # NoKey

Goto(a, pc) == at' = [at EXCEPT ![a].pc = pc]

Answer(a, d) == at' = [at EXCEPT ![a] = [pc |-> "ok", key |-> KeyOf(a), answer |-> d]]

Fault == faults < MaxFaults /\ faults' = faults + 1

Store(a, v) == cache' = [cache EXCEPT ![KeyOf(a)] = v]

-----------------------------------------------------------------------------
(* create_document: reserving the key. *)

\* A request without a key has nothing to reserve.
Unkeyed(a) ==
  /\ At(a, "new")
  /\ ~Keyed(a)
  /\ Goto(a, "cap")
  /\ UNCHANGED <<cache, documents, announced, faults>>

\* Mutant of Reserve: SETEX in place of SET NX EX.
ReserveAlways(a) ==
  /\ At(a, "new")
  /\ Keyed(a)
  /\ Store(a, Pending)
  /\ Goto(a, "cap")
  /\ UNCHANGED <<documents, announced, faults>>

\* SET NX EX 60
Reserve(a) ==
  /\ At(a, "new")
  /\ Keyed(a)
  /\ IF cache[KeyOf(a)] = Empty
     THEN Store(a, Pending) /\ Goto(a, "cap")
     ELSE Goto(a, "lookup") /\ UNCHANGED cache
  /\ UNCHANGED <<documents, announced, faults>>

\* `?` leaves the marker behind if the command was applied.
ReserveFails(a) ==
  /\ At(a, "new")
  /\ Keyed(a)
  /\ Fault
  /\ \/ UNCHANGED cache
     \/ cache[KeyOf(a)] = Empty /\ Store(a, Pending)
  /\ Goto(a, "error")
  /\ UNCHANGED <<documents, announced>>

\* Mutant of Lookup: a conflict takes the error arm, which deletes the key.
LookupReleases(a) ==
  /\ At(a, "lookup")
  /\ IF cache[KeyOf(a)] \in Attempts
     THEN Answer(a, cache[KeyOf(a)])
     ELSE Goto(a, "release")
  /\ UNCHANGED <<cache, documents, announced, faults>>

\* GET: replay what is stored; pending, or gone by now, is a conflict.
Lookup(a) ==
  /\ At(a, "lookup")
  /\ IF cache[KeyOf(a)] \in Attempts
     THEN Answer(a, cache[KeyOf(a)])
     ELSE Goto(a, "conflict")
  /\ UNCHANGED <<cache, documents, announced, faults>>

LookupFails(a) ==
  /\ At(a, "lookup")
  /\ Fault
  /\ Goto(a, "error")
  /\ UNCHANGED <<cache, documents, announced>>

-----------------------------------------------------------------------------
(* create_document_inner *)

\* Mutant of CheckCap: the job is enqueued before the document is inserted.
CheckCapThenEnqueue(a) ==
  /\ At(a, "cap")
  /\ Goto(a, IF Cap > 0 /\ Cardinality(documents) >= Cap
             THEN "release" ELSE "enqueue")
  /\ UNCHANGED <<cache, documents, announced, faults>>

\* check_document_cap: a SELECT count in a transaction of its own.
CheckCap(a) ==
  /\ At(a, "cap")
  /\ Goto(a, IF Cap > 0 /\ Cardinality(documents) >= Cap
             THEN "release" ELSE "insert")
  /\ UNCHANGED <<cache, documents, announced, faults>>

InsertDocument(a) ==
  /\ At(a, "insert")
  /\ documents' = documents \cup {a}
  /\ Goto(a, "enqueue")
  /\ UNCHANGED <<cache, announced, faults>>

\* The flip to processing and the enqueue.
Enqueue(a) ==
  /\ At(a, "enqueue")
  /\ announced' = announced \cup {a}
  /\ Goto(a, "reread")
  /\ UNCHANGED <<cache, documents, faults>>

\* Mutant of EnqueueFails: the error is logged and the response built.
EnqueueFailsQuietly(a) ==
  /\ At(a, "enqueue")
  /\ Fault
  /\ Goto(a, "reread")
  /\ UNCHANGED <<cache, documents, announced>>

\* The document stays, failed; the entry may be on the stream all the same.
EnqueueFails(a) ==
  /\ At(a, "enqueue")
  /\ Fault
  /\ announced' \in {announced, announced \cup {a}}
  /\ Goto(a, "release")
  /\ UNCHANGED <<cache, documents>>

\* get_document for the response
Reread(a) ==
  /\ At(a, "reread")
  /\ Goto(a, "finalize")
  /\ UNCHANGED <<cache, documents, announced, faults>>

\* One of the SELECTs or the INSERT of create_document_inner fails.
InnerFails(a) ==
  /\ at[a].pc \in {"cap", "insert", "reread"}
  /\ Fault
  /\ \/ UNCHANGED documents
     \/ At(a, "insert") /\ documents' = documents \cup {a}
  /\ Goto(a, "release")
  /\ UNCHANGED <<cache, announced>>

-----------------------------------------------------------------------------
(* create_document: finalizing or releasing the key. *)

\* Mutant of Finalize: the pending marker is left to expire.
FinalizeNot(a) ==
  /\ At(a, "finalize")
  /\ Answer(a, a)
  /\ UNCHANGED <<cache, documents, announced, faults>>

\* SETEX of the response, over whatever is there.
Finalize(a) ==
  /\ At(a, "finalize")
  /\ IF Keyed(a) THEN Store(a, a) ELSE UNCHANGED cache
  /\ Answer(a, a)
  /\ UNCHANGED <<documents, announced, faults>>

FinalizeFails(a) ==
  /\ At(a, "finalize")
  /\ Keyed(a)
  /\ Fault
  /\ Store(a, a) \/ UNCHANGED cache
  /\ Goto(a, "error")
  /\ UNCHANGED <<documents, announced>>

\* DEL, of whatever is there.
Release(a) ==
  /\ At(a, "release")
  /\ IF Keyed(a) THEN Store(a, Empty) ELSE UNCHANGED cache
  /\ Goto(a, "error")
  /\ UNCHANGED <<documents, announced, faults>>

ReleaseFails(a) ==
  /\ At(a, "release")
  /\ Keyed(a)
  /\ Fault
  /\ Store(a, Empty) \/ UNCHANGED cache
  /\ Goto(a, "error")
  /\ UNCHANGED <<documents, announced>>

Ended == {"ok", "conflict", "error", "killed"}

\* Attempt a is between its reservation and the end of its request.
Holding(a) ==
  at[a].pc \in {"cap", "insert", "enqueue", "reread", "finalize", "release"}

Killed(a) ==
  /\ at[a].pc \notin Ended \cup {"new"}
  /\ Fault
  /\ Goto(a, "killed")
  /\ UNCHANGED <<cache, documents, announced>>

\* Mutant of Expire: SET NX without EX.
ExpireNever(k) ==
  /\ FALSE
  /\ UNCHANGED vars

\* The pending marker reaches its TTL.  It outlives its attempt unless a
\* handler can take longer than that.
Expire(k) ==
  /\ cache[k] = Pending
  /\ MayOutlive \/ \A a \in Attempts : KeyOf(a) = k => ~Holding(a)
  /\ cache' = [cache EXCEPT ![k] = Empty]
  /\ UNCHANGED <<documents, announced, at, faults>>

-----------------------------------------------------------------------------

\* What an attempt does once its key is reserved.
Proceed(a) ==
  \/ Lookup(a) \/ CheckCap(a) \/ InsertDocument(a) \/ Enqueue(a) \/ Reread(a)
  \/ Finalize(a) \/ Release(a)

Fails(a) ==
  \/ ReserveFails(a) \/ LookupFails(a) \/ EnqueueFails(a) \/ InnerFails(a)
  \/ FinalizeFails(a) \/ ReleaseFails(a) \/ Killed(a)

Next ==
  \/ \E a \in Attempts : Unkeyed(a) \/ Reserve(a) \/ Proceed(a) \/ Fails(a)
  \/ \E k \in Keys : Expire(k)

Spec == Init /\ [][Next]_vars

\* A handler runs to its end unless killed; Redis expires keys.  When clients
\* send their requests is up to them.
Fairness ==
  /\ \A a \in Attempts : WF_vars(Proceed(a))
  /\ \A k \in Keys : WF_vars(Expire(k))

FairSpec == Spec /\ Fairness

-----------------------------------------------------------------------------
(* Properties. *)

SameKey(a, b) == Keyed(a) /\ KeyOf(a) = KeyOf(b)

(***************************************************************************)
(* While no call fails, the attempts with one key insert one document      *)
(* between them, however they overlap (documents.rs:225-228).              *)
(***************************************************************************)
OneDocumentPerKey ==
  faults = 0 => \A a, b \in documents : SameKey(a, b) => a = b

(***************************************************************************)
(* Whatever fails, two successful answers to one key report the same       *)
(* document: a client never sees two (documents.rs:234-263).               *)
(***************************************************************************)
AnswersAgree ==
  \A a, b \in Attempts :
    SameKey(a, b) /\ At(a, "ok") /\ At(b, "ok") => at[a].answer = at[b].answer

(***************************************************************************)
(* A stored response, which may be replayed for a day, reports a document  *)
(* whose ingest job is on the stream.                                      *)
(***************************************************************************)
ReplaysAreReal == \A k \in Keys : cache[k] \in Attempts => cache[k] \in announced

KeepsStored == \A k \in Keys : cache[k] \in Attempts => cache'[k] = cache[k]

(***************************************************************************)
(* A stored response is never overwritten or released, in particular not   *)
(* by the DEL of another attempt's error path (documents.rs:264-276).      *)
(***************************************************************************)
StoredStays == [][KeepsStored]_vars

(***************************************************************************)
(* No failure blocks a key for good: "the TTL bounds a lost DEL"           *)
(* (documents.rs:266).                                                     *)
(***************************************************************************)
KeysUnblock == \A k \in Keys : cache[k] = Pending ~> cache[k] # Pending

-----------------------------------------------------------------------------
(* What comments claim and the code does not keep. *)

(***************************************************************************)
(* "it can never insert a second document" (documents.rs:228), said of a   *)
(* concurrent or retried request with the same key.                        *)
(***************************************************************************)
NeverSecondDocument == \A a, b \in documents : SameKey(a, b) => a = b

(***************************************************************************)
(* "Ensure the tenant is below its document cap before creating a          *)
(* document" (billing.rs:130).                                             *)
(***************************************************************************)
CapRespected == Cap > 0 => Cardinality(documents) <= Cap
=============================================================================
