# TLA+ verification of the InsightLibrary AI engine

The engine (`src/backend`) is a Rust workspace: `insight-api` (axum HTTP API),
`insight-worker` (background jobs) and `insight-core` (storage, ingest,
knowledge plane, tenancy). State lives in Postgres (row-level security per
tenant), Redis (job stream, cache, pub/sub) and an S3 object store. There is no
transaction across two of these stores; most of what can go wrong follows from
that, from workers that are killed, and from work that is delivered twice.

Paths below are relative to `src/backend/crates/`.

## 1. Inventory

| component | state it keeps | operations | hard behaviour | what makes it correct |
|---|---|---|---|---|
| Job queue (`insight-core/src/storage/queue.rs`) | `jobs` rows; Redis stream, pending list | enqueue, next_job, claim_stale, ack, publish_progress, is_cancelled | two stores; redelivery; lost replies | at-least-once delivery, no run after an acknowledgement |
| Ingest worker (`insight-worker/src/main.rs`, `insight-core/src/ingest.rs`) | documents, pages, blocks, chunks; what a run holds in memory | main loop, sweep, stages, persist, embed, error path, auto-chain | duplicate runs, crashes, cancellation between stages, half an embedding | one writer per document, honest status, documents settle |
| Job control (`insight-api/src/routes/processing.rs`) | writes jobs and documents | retry_job, cancel_job | races with the worker | cancelled work does not complete |
| Upload (`routes/documents.rs`, `billing.rs`, `storage/cache.rs`) | idempotency key in Redis, documents | create_document | overlapping attempts, key expiry, failure after the insert, check-then-insert cap | one document per key, replays are real |
| Sessions (`auth.rs`, `routes/auth.rs`, `tenancy.rs`) | refresh allowlist in Redis, `auth_sessions` | sign-in, refresh, sign-out, revocations, suspension | rotation over two stores, revocation against refresh, lost replies | a token is redeemed once, a revoked session is never renewed |
| Membership (`tenancy.rs`, `billing.rs`, `routes/users.rs`) | users, invitations, plans | invite, cancel, sign-up, roles, plan changes | lookup and insert of a sign-up apart, several tenants inviting one email | invitations are honoured and stay accepted |
| LLM routing and metering (`llm.rs`, `routes/ai.rs`, `routes/usage.rs`) | provider keys, routing override, usage records | save key, route, call, fall back, meter | budget checked long before the call is metered, keys of a lost KEK | bounded overrun, natives as the last resort |
| Claims and review (`claims.rs`, `correlate.rs`, `routes/review.rs`) | claims, review queue | extract, correlate, resolve | overlapping passes, decisions read before they are written | who waits for a review has one, no meaning is lost |
| Topics (`synth.rs`, `routes/topics.rs`) | topics, topic_versions | ensure_topic, synthesize, restore | concurrent builds and restores | no version lost |
| Concept graph (`graph.rs`, `routes/graph.rs`) | nodes and edges | build_graph, adjacency | builds under READ COMMITTED, readers between two statements | no concept lost, pagerank never panics |
| Ontology (`ontology.rs`, `routes/ontology.rs`) | concepts, is_a edges, vectors, catalogue | import, embed_concepts | row-wise autocommit, paging through a result that shrinks | an embedding run leaves nothing out |
| Study (`study.rs`, `routes/study.rs`) | card schedules, questions, attempts | review, generate, publish, attempt | read-modify-write, JSON keys that differ | intervals grow |
| Settings (`settings.rs`) | rows and a TTL cache per process | resolve, patch, replace | lost update, stale fill | caches converge, a lone patch keeps the rest |
| Billing (`billing.rs`, `routes/billing.rs`) | plan of a tenant | subscription events, caps | check, then insert | caps |
| Rate limit (`middleware.rs`) | counters in Redis | fixed_window | three commands, lost EXPIRE | no counter blocks for good |
| Search (`retrieve.rs`, `storage/vector_store.rs`, `routes/search.rs`) | cached results in Redis | two candidate lists, fusion, reranking | stale entries, lists read at two times | nothing old is missing |
| Webhooks (`webhooks.rs`, `routes/webhooks.rs`) | subscriptions, last delivery | edit, test, dispatch | dispatchers that die, duplicates, edits meanwhile | acked means posted |
| Events (`ws.rs`, `sse.rs`) | none | fan-out | order | - |
| Evaluation, copilot, research, CRUD routes | rows | single transactions | little | - |
| Clients (`src/apps`), `parser-svc`, `inference-svc` | - | - | external to the engine | - |

How they interact: the upload API and `retry_job` enqueue `ingest`; a worker
that indexed a document enqueues `knowledge_build`; `resolve_review` enqueues
`webhook_deliver`. `cancel_job` talks to the worker only through the `jobs` row.
Progress goes out on Redis channels that `ws.rs` and `sse.rs` forward.

The hazards of this code, each at its line, are in `PROJECT.json` ("hazards").
A hazard without properties is one the code does not master: its note says what
happens, and which property excludes the case by its hypothesis.

## 2. Plan

Order: the ingest path first, as every document and most of the concurrency
goes through it; then what feeds it; then the other places with two stores;
then the single stores that several processes share.

| family | modules | state |
|---|---|---|
| Ingest (section 3) | `JobQueue`, `IngestPipeline`, `IngestProperties`, `AtLeastOnce`, `IngestProofs` | modelled, checked, safety proved |
| Uploads (4) | `DocumentUpload`, `UploadProofs` | modelled, checked, safety proved |
| Accounts (5) | `Sessions`, `Membership`, `LlmRouting`, `SessionProofs`, `MembershipProofs`, `LlmProofs` | modelled, checked, safety proved |
| Knowledge (6) | `ClaimReview`, `TopicVersions`, `ConceptGraph`, `Ontology`, `Flashcards`, `QuestionBank`, `Search`, `TopicProofs`, `KnowledgeProofs` | modelled, checked, safety proved |
| Runtime (7) | `Settings`, `RateLimit`, `WebhookDelivery`, `WebhookProofs` | modelled, checked, safety proved |

Every invariant and action property of a passing run, and the refinement, is
also a theorem; liveness is checked by TLC only. What is left: whether
`AnswersAgree` and `SettledWhenAcked` have weaker hypotheses that keep them
(sections 3 and 4), the order of progress events, and the chunker against a
reference definition.

### How the families are checked

The modules of a family share no state: sessions, memberships and LLM calls meet
only through rows that the others take as given. A run of the product of their
states would only multiply interleavings that cannot disturb each other. `MCAccounts`, `MCKnowledge` and
`MCRuntime` therefore have a variable `part`: a behaviour belongs to one module
of the family and leaves the others in their initial state, so a run has the
sum of their states. Every initial state of a part is an initial state of its
module's own specification, and so is every step. The sets of the parts share
model values (`TwoX`, `TwoY`, `TwoZ`) so that one small symmetry group serves
all of them. `Runtime` has no symmetry, as it checks liveness. That a behaviour
of `KnowledgeSpec` is one of each part is the theorem `Parts`; `AccountsTyped`
and `RuntimeTyped` step through the same argument for the other two families.

## 3. The ingest path

### Modules

`JobQueue` holds the two stores of the queue and one operator per primitive.
`jobs` is the table; an entry of the stream is named by its job. `stream` are the
entries not yet delivered, `pel` the delivered ones that are not acknowledged,
`acked` the acknowledged ones. `InsertRow` and `Xadd` are the two halves of
`enqueue`. The operators ending in `Error` are calls that return `Err` with or
without having taken effect.

`IngestPipeline` extends it with documents, workers and API handlers.

| model | code |
|---|---|
| `doc[d]` | `documents.status` |
| `persisted[d]` | the document has rows in pages, blocks and chunks |
| `unembedded[d]` | its batches of chunks with `embedded = false` |
| `wk[w]` | where the worker is, and `PersistOutcome.needs_review`, `embed_ok`, `final_status` |
| `req[r]` | the handler of create_document, retry_job or cancel_job |
| `NextJob`, `ClaimStale` | the two ways the main loop takes a job |
| `CheckCancelled`, `PublishStage` | the two transactions of `stage()` |
| `FetchOrParse`, `Persist`, `EmbedBatch`, `SetFinalStatus` ... | the work after each stage |
| `MarkDocument`, `MarkJob`, `Ack` | the error path of run_ingest, and the XACK |
| `AutoChainRow`, `AutoChainAnnounce` | enqueue of knowledge_build |
| `FlipToProcessing`, `EnqueueRow`, `Announce`, `MarkFailed` | create_document_inner |
| `Retry`, `CancelRead`, `CancelCommit`, `Reindex` | retry_job, cancel_job, the admin reindex |

A step is one Postgres transaction or one Redis command. What is read in one and
used in another is kept in the process record; that is how the race between
`is_cancelled` and `publish_progress` arises. `PersistConflict` is the unique
key on (document_id, page_no): persist never deletes what an earlier run wrote.
It assumes that two parses of one document have a page number in common.

Not in the model: text, figures, thumbnails and vectors (data), progress events,
knowledge work itself (`RunKnowledge` leaves queue and documents alone), tenants
(one tenant: row-level security separates them).

`AtLeastOnce` is the abstract specification: submit, start, finish, abandon.
`IngestProperties` states the properties and the refinement mapping: a job is
submitted when it has an entry, finished when acknowledged, and a worker runs
the job in its record.

### Failures

The object store, parser and embedder may fail at any call. Postgres and Redis
calls fail, and handlers are killed, at most `MaxFaults` times; a failed call may
have been applied. Workers are killed at most `MaxCrashes` times. `MayOverrun`
says whether a run can exceed the 300 s of `CLAIM_MIN_IDLE_MS`; if not, only
entries whose worker is gone are reclaimed.

### Runs

All are instances of `MCIngest`. Deadlock is not checked: users may stop asking,
and job ids run out (`CanAllocate` lets a request start only if one is left).

| run | instance | shows |
|---|---|---|
| IngestDuplicates | 2 workers, overruns, 1 crash, 2 jobs, 2 batches | `OneWriter`, `IndexedIsSearchable`, `ImplementsQueue` (refinement of `AtLeastOnce`) |
| IngestFaults | 2 workers, 2 handlers, 1 fault, 1 crash, no overrun | `TypeOK`, `StageIsHonest`, the inductive invariant `IInv`, `SettledWhenAcked`, `NoOrphanDocument` |
| IngestDelivery | 1 worker, 2 faults, 1 crash, fair | `Delivers`, `CancelledNeverCompletes` |
| IngestLiveness | 2 workers, overruns, 1 crash, fair | `DocumentsSettle` |

`SettledWhenAcked` and `NoOrphanDocument` are stated for `faults = 0`: the error
paths of the code are best effort, and a lost write of theirs is not repaired.
Crashes of workers are allowed there, crashes of handlers count as faults.
`CancelledNeverCompletes` is stated for runs without either: the aborting run
reports `failed` over `cancelled`, and a crash before its XACK lets the redelivery
run the job to `done`. One worker suffices for it: without overruns no two
workers have the same job.

Why these bounds: two workers and one entry are enough for a duplicate run, two
jobs of one document for a retry that meets its predecessor, two batches for a
half finished embedding, one crash for a redelivery, two faults for an error path
that fails itself. The bad behaviours below are all found within them.

One run is expected to fail, as a comment disagrees with the code.
`StrandedJob`: queue.rs:161-163 says that no job stays running forever; a slow
run acknowledges the entry of its duplicate, which is then killed, and the job
does.

Two more instances refute properties that one could expect (their
configurations are kept and are run by hand): `CancelRace.cfg`, where the stage
written after the check overwrites the cancellation (`CancelAborts`,
processing.rs:203), and `LateDuplicate.cfg`, where a live run is reclaimed and
its duplicate fails the indexed document (`IndexedStays`, main.rs:36-37).

### Fairness

`Fairness` is weak fairness of the steps of a live worker, of its reads of the
stream and of its sweeps, and of a started handler. The worker loop does exactly
this: it blocks at most 5 s for the stream, sweeps every 60 s, and `process` runs
to its end. `WF(ClaimStale)` stands for the sweep once an entry is stale. Users
and the admin have no fairness, failures have none.

### Proofs (`IngestProofs`)

Proved by TLAPS for every number of workers, handlers, jobs, documents and
batches, and every bound on faults and crashes, from the assumptions
`JobsAssumption` (ids are positive numbers), `NoDocAssumption`,
`BoundsAssumption` and `MayOverrunAssumption` of the modules:

| theorem | states | hypothesis |
|---|---|---|
| `Invariance`, `TypeCorrect`, `SingleWriter`, `IndexedSearchable`, `HonestStages` | `IInv` and the properties it implies | none |
| `Delivered`, `ImplementsAtLeastOnce` | `DeliveryInv`; the refinement `ImplementsQueue` | none |
| `Awaiting`, `NoOrphans` | `AwaitInv`, `NoOrphanDocument` | none |
| `Settling`, `AckedIsSettled` | `SettleInv`, `SettledWhenAcked` | `~MayOverrun` |
| `CancelledStays` | `CancelledNeverCompletes` | `~MayOverrun` |

`~MayOverrun` says that no run outlasts the 300 s after which its entry is
claimed. It is a hypothesis because the code does not enforce it: with
overruns `SettledWhenAcked` and `CancelledNeverCompletes` are false (the run
`StrandedJob` is the counterexample to the first; the instance of `IngestFaults`
with `MayOverrun = TRUE` has one to the second), so the theorems say what rests on
that interval. The instances of `IngestFaults` and `IngestDelivery` satisfy it.
The other lines of the table hold with and without overruns.

The argument, in layers, each of which uses the ones before it.

1. `IInv`. None of its properties is inductive alone. `OneWriter` needs that a
   run past persist finds its pages committed (`WritersPersisted`): then the
   guard of `Persist` keeps a second run out. `IndexedIsSearchable` needs that
   `embed_ok` of a run still describes the database when it is used
   (`EmbeddedStays`): nobody adds batches to a document that is persisted, and
   reindexing only removes them. Both need that processes refer to existing rows
   whose document never changes (`RowsHaveDocs`, `WorkersHaveJobs`,
   `RequestsHaveDocs`, `EntriesHaveRows`). One lemma per queue primitive, one per
   shape of step (`WorkerMove`, `GotoMove`, `StageMove`, `FreshMove`,
   `HandlerMove`), then one per group of actions.
2. `DeliveryInv`. The refinement maps `Submitted` to the entries in the stream,
   pending or acknowledged. That an XADD submits something new, and that no run
   starts of what was acknowledged, needs that an entry is in one place only
   (`EntriesOnce`), that workers run delivered entries (`RunsDelivered`), and
   that a row is announced once, by one process (`AnnouncedOnce`). Each step then
   maps to one step of `AtLeastOnce` or to a stutter (`NextQueue`).
3. `AwaitInv`. `NoOrphanDocument` is not inductive: that some run works on a job
   does not say that the run will still write the status of its document, and
   one of several runs of a reclaimed entry may acknowledge it while the others
   go on. What is inductive is that a document in progress has a handler that
   will queue its ingest, or an ingest with an entry *all* of whose runs will
   still write the status (`Open`): a run ceases to be of that kind only by
   writing the status, and only a run that has ceased acknowledges the entry. A
   new run of an ingest is of that kind, and an entry that is announced has no
   run yet, by `DeliveryInv`.
4. `SettleInv`. Without overruns a job has one run (`OneRun`), whose entry is
   pending (`RunsPending`), so nobody acknowledges it but that run. While no call
   fails, a run that is about to acknowledge an ingest finds its row terminal
   (`ClosedSettled`). The steps that carry `AwaitInv` and `ClosedSettled` are the
   same and are treated together (`Carried`).
5. `Aborting(j)`. From the cancellation of a job without a run on, its row is
   cancelled or failed, and a run of it either has not checked the row yet or is
   on its way out. The step that would break it, a second run after the abort,
   needs the one-run argument of `SettleInv` and `DeliveryInv`.

`IInv` is an invariant of the run `IngestFaults`. `DeliveryInv`, `AwaitInv` (with
and without overruns), `SettleInv` and
the part `Aborting` of the cancellation argument were checked on instances of
`MCIngest` before they were proved (list them in `IngestDuplicates.cfg` and
`IngestFaults.cfg`).

Checked only by TLC: the liveness properties `Delivers` and `DocumentsSettle`.

## 4. Uploads

`DocumentUpload` models create_document: SET NX of a pending marker, the work,
SETEX of the response or DEL on an error, GET by the attempts that came second.
Attempts are HTTP requests; which of them repeat which is arbitrary. `Expire` is
the TTL of the marker; with `MayOutlive = FALSE` no handler takes longer than its
60 s. Documents are named by the attempt that inserted them; the status flip and
the enqueue are one step here, as `IngestPipeline` has them in detail. Responses
are kept for 24 h, longer than any run.

| run | instance | shows |
|---|---|---|
| UploadOnce | 3 attempts, 2 keys, cap 2, 2 faults, fair | `OneDocumentPerKey`, `AnswersAgree`, `ReplaysAreReal`, `StoredStays`, `KeysUnblock` |
| SecondDocument (fails) | 1 fault | documents.rs:225-228: a second document is inserted after an error behind the insert |

Three attempts on two keys allow three rivals for a key, an attempt that finds it
stored, pending, expired or released, and one that meets the cap. Fairness: a handler that reserved its
key runs on unless killed, Redis expires keys; clients have none.

`UploadProofs` proves the five safety properties for any attempts, keys, cap and
number of failures. `UploadTyped` and `StoredIsReal` hold as they are. The other
three have the hypothesis `~MayOutlive`: the marker in Redis lives 60 s, nothing
keeps a handler from working longer, and then a second attempt reserves the same
key (`MayOutlive = TRUE` refutes all three). With
it the marker is a lock (`SoleHolder`): while an attempt holds a key the marker is
there and nobody else holds it. What is answered is what is stored
(`AnswersStored`), and while nothing fails a document's attempt still holds its
key or has stored it (`DocumentsStored`). `StoredIsReal` needs that whoever is
about to store a document has announced its job (`FinalizersAnnounced`).

`CapRace.cfg` (2 attempts, cap 1) refutes `CapRespected`: both count before
either inserts (billing.rs:140). It is run by hand.

## 5. Accounts

`Sessions`: one user's device sessions. `allow` is the set of refresh jtis in
Redis, `rows` the table `auth_sessions`; a handler (`at[h]`) makes one call to
one of them at a time, as the code does. `issued` are the tokens clients hold,
with the role they were minted for. Every operation that ends sessions is there:
sign-out, revoke one or the others, suspension of the user or the tenant, the
password reset, revoke-all and role changes. A call that fails may have been
applied.

`Membership`: users, invitations and plans. A step is a transaction, except
that the lookup of `sign_up_with_invite` is a step of its own, since READ
COMMITTED lets others commit before the insert. `CheckSeat` and
`CreateInvitation` are apart for the same reason. Of `accepted_at` the model
keeps whether it is NULL and whether a later acceptance has set it again
(`Now`), so that accepting an accepted row is a change one can see.

`LlmRouting`: the key of a provider (user, org, environment), the chain a call
walks through, fallback, metering, and the budget gate of interactive calls.
Three providers stand for seven: two natives and the generic one, whose registry
name differs from the name its key is looked up by.

Run `Accounts`: 2 sessions, 2 handlers, 1 rotation, 1 failed call, all
operations; 2 tenants inviting 1 email by at most 2 invitations, 2 requests, 1
free seat; 2 copilots and 1 job, limit 1, costs 0 and 1, 2 changes, 1 fault.

| property | says |
|---|---|
| `OneLiveToken` | a session has at most one token that can be redeemed or is being rotated |
| `RowNamesToken` | a row names the token that Redis accepts, so a revocation can find it (it says nothing of the row's `expires_at`) |
| `NoRenewalAfterRevocation` | a refresh that began after the revocation never allowlists a token |
| `ListedIsRenewable` | before any fault, a listed session can be renewed |
| `InvitationsHonoured`, `AcceptedStays` | who accepted is a member where the invitation says; nobody else is; an invitation is accepted once (`accepted_at` is set once) and stays so |
| `OverrunBounded` | the calls beyond the budget are those in flight and those whose check failed |
| `NativesLastResort` | a call fails only after every native that had a key, unless a key was undecryptable |

Two handlers are needed for a refresh that meets a revocation or another
refresh, one rotation for an old token that is sent again, two tenants for
rival invitations. Deadlock is not checked: tokens, invitations and the budget
run out.

Run `StoredKeyResolves` fails (llm.rs:12-13): a key stored for the generic
provider is never the one it is called with. Refuted without a run of their own,
by listing them in `Accounts.cfg` (with `AccountsSpec`): `RenewableIsListed` and
`DemotionTakesEffect` of `Sessions` (a demotion racing a refresh mints a token
with the old role), `UnresolvableIsSkipped` of `LlmRouting`.

## 6. Knowledge

| module | state | steps |
|---|---|---|
| `ClaimReview` | claims of one concept by meaning, `created_at` and status, open reviews per claim, what a pass has decided, whether passes have overlapped (history) | extraction of an answer, `add_claim`, the read and the write of a correlation pass, `resolve_review` |
| `TopicVersions` | topics, their numbered pages, the claims behind a page | lookup and insert of `ensure_topic`, gather and write of `synthesize`, restore |
| `ConceptGraph` | nodes, edges, open transactions, what a reader has read | each statement of `build_graph` under READ COMMITTED with its row locks, commit, the two reads of `adjacency` |
| `Ontology` | concepts, edges, vectors, catalogue | import row by row, `embed_concepts` page by page, failures between rows |
| `Flashcards` | the stored SM-2 state | read, schedule, write of a review |
| `QuestionBank` | questions, attempts | generation, publication, the two reads of an attempt and its insert |
| `Search` | stored chunks and vectors, the cached result, searches | cache read, embedding of the query, the two candidate lists, fusion and reranking, cache write, TTL |

Data that no property tells apart is abstract: a meaning is a member of a set
with a relation of contradiction, a page is the set of claims it was written
from, a chunk is its rank. `Search` takes the vector scan as exact, the text
search as ranking the other way round (so that fusion has something to do), and
a tick as longer than a search; nothing in the engine deletes a chunk.

`created_at` is the start of a transaction: the claims of one answer share it,
and a transaction may commit after one that started later, so any time may be
given to an insert. The SELECT of a pass lists the newest pending claims, and
claims of one time in any order (`Examined`), as its ORDER BY has no tie-breaker.

Run `Knowledge`: 2 passes, limit 2, over at most 3 claims of 2 meanings and 3
times, answers of 1 or 2 claims, 2 open reviews; 2 topics, 2 writers, 2 claims,
versions up to 4; 2 concepts, 2 builds, 1 reader, 6 node ids; 2 codes, 3
releases, 2 embedders, 1 fault; 1 card, 2 learners, 3 reviews; 2 questions, 2
attempts; 3 chunks, 2 of them matching, 2 searches, 1 fault, a TTL of 2 ticks.

| property | says |
|---|---|
| `ReviewBacked` | a claim that waits for a review has an open one |
| `MeaningKept` | the claims that say one thing are not all duplicates, unless passes overlapped and the newest of them share a `created_at` |
| `HistoryComplete` | the versions of a topic have no gap and end in the page it shows |
| `NoConceptLost` | no build wipes what another one has committed and it has not read |
| `NeighboursAreNodes` | a neighbour that pagerank unwraps is a node it has read |
| `EmbedRunIsComplete` | a finished embedding run has left out nothing it could see |
| `NothingOldMissing` | a chunk that could be found for one TTL is in every answer with room for it |

Two overlapping passes over different lists of the claims, twins of one answer, two builds of which one
waits for a lock, two embedders that take each other's rows, and an entry that
is read at the last moment of its TTL all occur within these bounds. Types of
the parts are one invariant, `KnowledgeTypeOK`. Deadlock is not checked, as ids
and versions run out.

`MeaningLost.cfg` (2 passes, 2 claims of one time; run by hand on `ClaimReview`)
refutes `NoMeaningLost`, which makes no exception: an answer says a thing twice,
two passes list the twins in different orders, and each marks the one the other
keeps. No tie-breaker in the ORDER BY (correlate.rs:48) prevents it.

Run `IntervalsGrow` fails (study.rs:1-3): the schedule is written with other
keys than it is read by, so the third pass in a row sets the interval to 0.
Refuted without a run of their own, by listing them in `Knowledge.cfg`:
`SettledStays` (a pass overwrites a claim settled since its read),
`RetiredStaysOut` and `OneTopicPerConcept`, `OneNodePerConcept`, and
`VectorsAreFresh` (a reload changes a text and never its vector).

## 7. Runtime

`Settings`: one scope, its stored overrides and the cache of each process. A
patch reads, merges and writes back in three steps; invalidation follows and
reaches the writer's process only. `RateLimit`: INCR, TTL and EXPIRE on one
counter, each of which may fail, and a clock. `WebhookDelivery`: one event, the
hooks an admin edits meanwhile, and dispatchers that load, post, record and
acknowledge; the job comes at least once, which section 3 shows of the queue.

Run `Runtime`: 2 processes, 2 requests, one key with two members, 4 patches of
which 2 are written, a TTL of 2 ticks; 2 callers, limit 2, window 2, 2 failed
calls; 2 hooks, 2 dispatchers, 3 edits, 2 crashes or failed calls.

| property | says |
|---|---|
| `CachesConverge` | once nobody writes, all processes come to serve what is stored |
| `LonePatchKeepsRest` | a patch that none overtook keeps what it does not name |
| `LimitLifts` | whoever is limited is let through again, also after a lost EXPIRE |
| `AckedMeansPosted` | an event is acked only after it was posted to every hook subscribed since |
| `EventSettles` | a queued event is acked or dropped |

Fairness is that of each module. `Settings`: the clock only, no request need
ever finish. `RateLimit`: the clock, and a step of every caller, as the lost
EXPIRE is repaired by the next request: a caller that never comes back is not
limited either. `WebhookDelivery`: the steps of a dispatcher, who either runs or
is replaced by the sweep; `MaxTrouble` bounds crashes. `ClearedIsDefault` of
`Settings` is refuted by listing it in `Runtime.cfg`.

## 8. Proofs beside the ingest path

| module | theorems | inductive invariants |
|---|---|---|
| `UploadProofs` | `UploadTyped`, `StoredIsReal`, `SameAnswer`, `OneDocument`, `StoredKept` | `StoredInv`, `LockInv` (section 4) |
| `SessionProofs` | `SessionsTyped`, `OneToken`, `RowNames`, `RevokedStopped`, `ListedRenewable` | `TokenInv` |
| `MembershipProofs` | `MembershipTyped`, `Honoured`, `AcceptedKept` | `MInv`: types, `InvitationsHonoured`, `RequestsCarry` |
| `LlmProofs` | `LlmTyped`, `OverrunIsBounded`, `NativesAreLast`, `AccountsTyped` | `LlmInv`: types, `Chains`, `Overrun` |
| `KnowledgeProofs` | `ClaimsTyped`, `ReviewsBacked`, `MeaningsKept`, `GraphTyped`, `ConceptsKept`, `NeighboursRead`, `EmbedComplete`, `OntologyTyped`, `OldIsFound`, `SearchTyped`, `CardsTyped`, `QuizTyped`, `Parts`, `KnowledgeTyped` | `ClaimInv`, `GraphInv`, `EmbedInv`, `ReferInv`, `SearchInv`, `ListInv`, `CardsInv`, `QuizInv` |
| `TopicProofs` | `TopicTyped`, `HistoryHolds` | `HistoryInv`: types, and that the numbered pages are those the row has counted |
| `WebhookProofs` | `WebhookTyped`, `Posted`, `SettingsTyped`, `LonePatch`, `RateTyped`, `RuntimeTyped` | `WebhookInv`: types, `AckedMeansPosted`, `DispatchCovers`; `SettingsInv` |

They hold for all values of the constants that satisfy the named assumptions of
the modules. Bounds, limits and TTLs are numbers (positive where the code's
constant is: `EMBED_BATCH`, the limit, the window, the sizes of the lists);
names that stand for "nobody" or "nothing" are not among the real ones. Three
assumptions say more: patches have keys and fields of the defaults
(`SettingsAssumption`: `merge_and_clamp` drops all others), the nodes of a
release carry one of the texts or none (`OntologyAssumption`), and chunks are
finitely many numbers (`SearchAssumption`, the ranks of a finite corpus). No
theorem of this table but the three of `UploadProofs` has a hypothesis of its
own. TLC evaluates every assumption in the runs.

Why the strengthenings are needed:

- Sessions. `RowNamesToken` is broken for a moment in every rotation, between
  the touch of the row and the SET of the new token. `TokenInv` says who may be
  in that moment: a handler that mints is alone in its session
  (`MintersAlone`), until its token is allowed no other is (`OneAllowed`), a row
  exists before a client holds a token of it (`RowsFirst`), behind
  touch_session the row names the new token and is not revoked
  (`TouchedFirst`), and what a revocation deletes belongs to revoked sessions
  (`DropsRevoked`).
- Membership. `InvitationsHonoured` is disturbed by the insert of a sign-up,
  which uses an invitation found earlier: `RequestsCarry` says that this row
  still has the tenant and the email of the lookup, whatever became of its
  status. `AcceptedKept` is the same argument for a step: the UPDATE that
  accepts does not look at the status and would set `accepted_at` again; what
  keeps it from an accepted row is the unique email, through
  `InvitationsHonoured`.
- LLM calls. The bound on the overrun counts, with the calls already metered
  beyond the limit, those in flight: each may still be (`Overrun`). That natives
  come last needs that a call has each native it may use still before it or
  behind it (`Chains`).
- Claims. Passes over different lists may each mark a claim that the other one
  keeps. With overlap the argument goes by time: a duplicate has another claim
  that says the same and is not older (`DuplicatesHaveNewer`), so a newest claim
  without twin is never one. Without, it goes by the list: the first of each
  group is spared by the pass that made the list, and nobody else marks
  (`KeptApart`, `FirstStays`). Where passes overlap on twins, neither holds, and
  `MeaningLost.cfg` shows the loss.
- Graph. Under READ COMMITTED a build deletes rows it has seen and inserts rows
  nobody sees. `GraphInv` says that ids name nodes across snapshots
  (`IdsNameNodes`), that uncommitted rows are private (`NewIsPrivate`), that the
  two ends of an edge come and go together, in snapshots too
  (`EdgesHoldTogether`), and that what is deleted is replaced
  (`DeletedIsReplaced`).
- Ontology. Concepts and vectors only grow, which is why the shrinking
  anti-join may be paged without an offset (`EmbedInv`); an edge is inserted
  after both its ends (`ReferInv`, `ImportOk`).
- Search. A chunk that could be found before a search began is in the list it
  holds at every step, unless the list is full (`SearcherOk`); an entry lacks
  only chunks younger than itself (`EntryOk`). That the first k of an ordered set
  are k elements or all is the lemma `Ranks`. `ListInv` adds that lists repeat
  nothing through fusion and reranking.
- Cards and questions. The schedule a request holds was read back, so its ease
  is the default (`CardsInv`); an attempt holds a question that exists
  (`QuizInv`).
- Topics. The next number is free when a page is appended: the domain of a
  history is exactly what the row of the topic has counted.
- Settings. A write that nobody overtook starts from the blob it is about to
  replace (`RequestsFollow`).
- Webhooks. A busy dispatcher has posted to, or still has on its list, every
  hook that was there all the time, and these hooks are still subscribed, so
  that a dispatcher that loads late has them too (`DispatchCovers`).

Only model-checked: the liveness properties `Delivers`, `DocumentsSettle`,
`KeysUnblock`, `CachesConverge`, `LimitLifts` and `EventSettles`, as liveness
under fairness and `ENABLED` are beyond the prover, and the properties that runs
refute.

## 9. Not modelled

See the components marked `not_modelled` in `PROJECT.json`.

- Event fan-out: sockets that forward pub/sub messages and keep nothing.
- Copilot and research: prompts around searches and LLM calls, and rows nobody
  else writes.
- Folders, figures, sources, API keys, audit, notifications, evaluation: rows
  in single transactions.
- Storage adapters: what they do is in the actions that call them.
- Trimming of the stream at 100000 entries: a bound small enough for TLC would say nothing
  about the code.
- Parsing, chunking, prompts, embeddings, password hashing, signatures: data.
- The clients and the two Python services are outside the engine; the services
  appear as calls that answer or fail.

## Running

    tlc -workers 2 -config IngestFaults.cfg MCIngest
    tlc -workers 2 -config UploadOnce.cfg MCUpload
    tlc -workers 2 -config Accounts.cfg MCAccounts
    tlc -workers 2 -config Knowledge.cfg MCKnowledge
    tlc -workers 2 -config Runtime.cfg MCRuntime
    tlc -workers 2 -config IntervalsGrow.cfg Flashcards
    tlapm IngestProofs.tla
    tlapm MembershipProofs.tla
    tlapm SessionProofs.tla
    tlapm UploadProofs.tla
    tlapm LlmProofs.tla
    tlapm TopicProofs.tla
    tlapm KnowledgeProofs.tla
    tlapm WebhookProofs.tla

The largest run, `Accounts`, has 2.7 million states and takes about two minutes.
