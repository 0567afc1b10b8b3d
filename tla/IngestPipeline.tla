--------------------------- MODULE IngestPipeline ---------------------------
(***************************************************************************)
(* The ingest path of the engine: API handlers that create documents and   *)
(* cancel or retry jobs (insight-api routes/documents.rs, processing.rs),  *)
(* the job queue (JobQueue), and the workers that run the ingest pipeline  *)
(* (insight-worker main.rs, insight-core ingest.rs).                       *)
(*                                                                         *)
(* Grain of atomicity: one Postgres transaction or one Redis command per   *)
(* step.  Everything a process reads in one transaction and uses in a      *)
(* later one is kept in the record of that process.                        *)
(*                                                                         *)
(* Two kinds of failure are kept apart.  The object store, the parser and  *)
(* the embedding service may fail at any call.  Postgres and Redis calls   *)
(* fail, and API handlers are killed, at most MaxFaults times, and a       *)
(* failed call may or may not have taken effect; workers are killed at     *)
(* most MaxCrashes times.                                                  *)
(***************************************************************************)
EXTENDS JobQueue, FiniteSets

CONSTANTS
  Workers,     \* worker processes
  Requests,    \* API request handlers
  Chunks,      \* chunk batches a document can be cut into
  Operations,  \* what users ask for: subset of create, retry, cancel
  MaxFaults,   \* bound on failed Postgres/Redis calls and killed handlers
  MaxCrashes,  \* bound on killed workers
  MayOverrun   \* may a run outlast the 300 s of CLAIM_MIN_IDLE_MS?

ASSUME BoundsAssumption == MaxFaults \in Nat /\ MaxCrashes \in Nat
ASSUME MayOverrunAssumption == MayOverrun \in BOOLEAN

VARIABLES
  doc,         \* documents.status
  persisted,   \* does the document have pages, blocks and chunks?
  unembedded,  \* its chunk batches with embedded = false
  wk,          \* the workers
  req,         \* the API handlers
  faults,      \* failed Postgres/Redis calls and killed handlers so far
  crashes      \* killed workers so far

docVars == <<doc, persisted, unembedded>>
budget == <<faults, crashes>>
vars == <<queueVars, docVars, wk, req, budget>>

DocStatus == {"absent", "pending", "processing", "indexed", "needs_review",
              "failed"}

\* Where a worker is: `check` and `publish` are the two halves of stage(),
\* `work` is what follows the stage, `markdoc` and `markjob` are the error
\* path of run_ingest.
WorkerPC == {"idle", "check", "publish", "work", "announce", "markdoc",
             "markjob", "knowledge", "ack"}

WorkerRec == [pc : WorkerPC, job : Jobs \cup {NoJob}, stage : Stages,
              review : BOOLEAN,           \* PersistOutcome.needs_review
              embedOk : BOOLEAN,          \* embed_ok
              indexed : BOOLEAN,          \* final_status = "indexed"
              next : Jobs \cup {NoJob}]   \* knowledge_build row to announce

IdleWorker == [pc |-> "idle", job |-> NoJob, stage |-> "extract",
               review |-> FALSE, embedOk |-> FALSE, indexed |-> FALSE,
               next |-> NoJob]

\* Where a handler is: `created` has inserted the document, `enqueue` has set
\* it to processing, `announce` has inserted the jobs row, `markfailed` is
\* the error path of create_document, `cancelling` has read the job.
RequestPC == {"idle", "created", "enqueue", "announce", "markfailed",
              "cancelling"}

RequestRec == [pc : RequestPC, doc : Docs \cup {NoDoc},
               job : Jobs \cup {NoJob}, creates : BOOLEAN]

IdleRequest == [pc |-> "idle", doc |-> NoDoc, job |-> NoJob,
                creates |-> FALSE]

TypeOK ==
  /\ QueueTypeOK
  /\ doc \in [Docs -> DocStatus]
  /\ persisted \in [Docs -> BOOLEAN]
  /\ unembedded \in [Docs -> SUBSET Chunks]
  /\ wk \in [Workers -> WorkerRec]
  /\ req \in [Requests -> RequestRec]
  /\ faults \in 0 .. MaxFaults
  /\ crashes \in 0 .. MaxCrashes

Init ==
  /\ QueueInit
  /\ doc = [d \in Docs |-> "absent"]
  /\ persisted = [d \in Docs |-> FALSE]
  /\ unembedded = [d \in Docs |-> {}]
  /\ wk = [w \in Workers |-> IdleWorker]
  /\ req = [r \in Requests |-> IdleRequest]
  /\ faults = 0
  /\ crashes = 0

-----------------------------------------------------------------------------
(* Helpers. *)

\* The document of the job a worker runs.
DocOf(w) == jobs[wk[w].job].doc

At(w, pc) == wk[w].pc = pc

AtStage(w, pc, s) == At(w, pc) /\ wk[w].stage = s

Goto(w, pc) == wk' = [wk EXCEPT ![w].pc = pc]

\* On to stage s: its cancellation check comes first.
Enter(w, s) == wk' = [wk EXCEPT ![w].pc = "check", ![w].stage = s]

SetDoc(d, s) == doc' = [doc EXCEPT ![d] = s]

Fault == faults < MaxFaults /\ faults' = faults + 1 /\ UNCHANGED crashes

Crash == crashes < MaxCrashes /\ crashes' = crashes + 1 /\ UNCHANGED faults

\* Bound: a request or an auto-chain starts only if a job id is left for it.
CanAllocate ==
  Cardinality({j \in Jobs : ~Exists(j)})
    > Cardinality({r \in Requests : req[r].pc \in {"created", "enqueue"}})

ReqGoto(r, pc) == req' = [req EXCEPT ![r].pc = pc]

ReqDone(r) == req' = [req EXCEPT ![r] = IdleRequest]

-----------------------------------------------------------------------------
(* Worker: taking a job. *)

\* The worker turns to job j; an ingest starts at its first stage.
Begin(w, j) ==
  wk' = [wk EXCEPT ![w] =
          [IdleWorker EXCEPT !.job = j,
             !.pc = IF jobs[j].kind = "ingest" THEN "check" ELSE "knowledge"]]

\* The main loop reads the next entry of the stream.
NextJob(w) ==
  /\ At(w, "idle")
  /\ \E j \in Jobs : ReadNext(j) /\ Begin(w, j)
  /\ UNCHANGED <<docVars, req, budget>>

\* Mutant of ClaimStale: the sweep is never made.
ClaimStaleNever(w) ==
  /\ FALSE
  /\ UNCHANGED vars

\* The sweep reclaims a stale entry.  An entry whose worker is gone goes
\* stale in time; that of a live worker does only if a run can take 300 s,
\* which one call of the parser already may.
ClaimStale(w) ==
  /\ At(w, "idle")
  /\ \E j \in Jobs :
       /\ MayOverrun \/ \A v \in Workers : wk[v].job # j
       /\ Reclaim(j)
       /\ Begin(w, j)
  /\ UNCHANGED <<docVars, req, budget>>

-----------------------------------------------------------------------------
(* Worker: stage(), called before every stage of ingest_inner. *)

\* Mutant of CheckCancelled: the pipeline never looks at the row.
CheckNothing(w) ==
  /\ At(w, "check")
  /\ Goto(w, "publish")
  /\ UNCHANGED <<queueVars, docVars, req, budget>>

\* is_cancelled: a cancelled job bails out to the error path.
CheckCancelled(w) ==
  /\ At(w, "check")
  /\ Goto(w, IF IsCancelled(wk[w].job) THEN "markdoc" ELSE "publish")
  /\ UNCHANGED <<queueVars, docVars, req, budget>>

\* The read failed: unwrap_or(false) goes on as if nothing was cancelled.
CheckFails(w) ==
  /\ At(w, "check")
  /\ Fault
  /\ Goto(w, "publish")
  /\ UNCHANGED <<queueVars, docVars, req>>

\* Loading the documents row at the head of ingest_inner failed.
LoadFails(w) ==
  /\ AtStage(w, "check", "extract")
  /\ Fault
  /\ Goto(w, "markdoc")
  /\ UNCHANGED <<queueVars, docVars, req>>

\* publish_progress.  Nothing happens between `embed` and `index`.
PublishStage(w) ==
  /\ At(w, "publish")
  /\ SetStatus(wk[w].job, wk[w].stage)
  /\ IF wk[w].stage = "embed" THEN Enter(w, "index") ELSE Goto(w, "work")
  /\ UNCHANGED <<docVars, req, budget>>

PublishStageFails(w) ==
  /\ At(w, "publish")
  /\ Fault
  /\ SetStatusError(wk[w].job, wk[w].stage)
  /\ Goto(w, "markdoc")
  /\ UNCHANGED <<docVars, req>>

-----------------------------------------------------------------------------
(* Worker: the work of each stage. *)

\* Bytes fetched from the object store, then parsed by parser-svc.
FetchOrParse(w) ==
  /\ At(w, "work")
  /\ \/ wk[w].stage = "extract" /\ Enter(w, "parse")
     \/ wk[w].stage = "parse" /\ Enter(w, "chunk")
  /\ UNCHANGED <<queueVars, docVars, req, budget>>

\* Mutant of ServiceFails: the error skips the error path of run_ingest.
ServiceFailsSilently(w) ==
  /\ AtStage(w, "work", "extract") \/ AtStage(w, "work", "parse")
  /\ Goto(w, "ack")
  /\ UNCHANGED <<queueVars, docVars, req, budget>>

\* The object or the parse is not to be had: missing object, timeout, error
\* status, or nothing in the document.
ServiceFails(w) ==
  /\ AtStage(w, "work", "extract") \/ AtStage(w, "work", "parse")
  /\ Goto(w, "markdoc")
  /\ UNCHANGED <<queueVars, docVars, req, budget>>

\* persist: one transaction.  What the parser returned decides needs_review
\* and which chunk batches there are.
Persist(w) ==
  /\ AtStage(w, "work", "chunk")
  /\ ~persisted[DocOf(w)]
  /\ persisted' = [persisted EXCEPT ![DocOf(w)] = TRUE]
  /\ \E cs \in SUBSET Chunks, r \in BOOLEAN :
       /\ unembedded' = [unembedded EXCEPT ![DocOf(w)] = cs]
       /\ wk' = [wk EXCEPT ![w].pc = "check", ![w].stage = "contextualize",
                           ![w].review = r]
  /\ UNCHANGED <<queueVars, doc, req, budget>>

\* Mutant of PersistConflict: pages are upserted and the run goes on.
PersistUpserts(w) ==
  /\ AtStage(w, "work", "chunk")
  /\ persisted[DocOf(w)]
  /\ Enter(w, "contextualize")
  /\ UNCHANGED <<queueVars, docVars, req, budget>>

\* The document has pages already: UNIQUE (document_id, page_no) aborts the
\* transaction, as persist never clears what an earlier run left.  (Two parses
\* of one document have a page in common.)
PersistConflict(w) ==
  /\ AtStage(w, "work", "chunk")
  /\ persisted[DocOf(w)]
  /\ Goto(w, "markdoc")
  /\ UNCHANGED <<queueVars, docVars, req, budget>>

\* Mutant of PersistFails: the error of persist is dropped.
PersistFailsIgnored(w) ==
  /\ AtStage(w, "work", "chunk")
  /\ Fault
  /\ Enter(w, "contextualize")
  /\ UNCHANGED <<queueVars, docVars, req>>

PersistFails(w) ==
  /\ AtStage(w, "work", "chunk")
  /\ Fault
  /\ Goto(w, "markdoc")
  /\ UNCHANGED <<queueVars, docVars, req>>

\* The transaction is committed and the reply lost: pages without a run.
PersistLost(w) ==
  /\ AtStage(w, "work", "chunk")
  /\ ~persisted[DocOf(w)]
  /\ Fault
  /\ persisted' = [persisted EXCEPT ![DocOf(w)] = TRUE]
  /\ \E cs \in SUBSET Chunks :
       unembedded' = [unembedded EXCEPT ![DocOf(w)] = cs]
  /\ Goto(w, "markdoc")
  /\ UNCHANGED <<queueVars, doc, req>>

\* embed_document: one transaction per batch ...
EmbedBatch(w) ==
  /\ AtStage(w, "work", "contextualize")
  /\ \E c \in unembedded[DocOf(w)] :
       unembedded' = [unembedded EXCEPT ![DocOf(w)] = @ \ {c}]
  /\ UNCHANGED <<queueVars, doc, persisted, wk, req, budget>>

\* ... until none is left.
EmbedDone(w) ==
  /\ AtStage(w, "work", "contextualize")
  /\ unembedded[DocOf(w)] = {}
  /\ wk' = [wk EXCEPT ![w].pc = "check", ![w].stage = "embed",
                      ![w].embedOk = TRUE]
  /\ UNCHANGED <<queueVars, docVars, req, budget>>

\* The embedder or a transaction fails, possibly after its commit: the rest
\* stays unembedded and the ingest goes on.
EmbedFails(w) ==
  /\ AtStage(w, "work", "contextualize")
  /\ wk' = [wk EXCEPT ![w].pc = "check", ![w].stage = "embed",
                      ![w].embedOk = FALSE]
  /\ UNCHANGED <<queueVars, docVars, req, budget>>

\* Mutants of FinalStatus: embed_ok is forgotten; the job's vocabulary is
\* written into the document.
FinalStatusNoEmbed(w) == IF wk[w].review THEN "needs_review" ELSE "indexed"
FinalStatusDone(w) == IF wk[w].review \/ ~wk[w].embedOk THEN "needs_review"
                                                        ELSE "done"

FinalStatus(w) == IF wk[w].review \/ ~wk[w].embedOk THEN "needs_review"
                                                    ELSE "indexed"

SetFinalStatus(w) ==
  /\ AtStage(w, "work", "index")
  /\ SetDoc(DocOf(w), FinalStatus(w))
  /\ wk' = [wk EXCEPT ![w].pc = "check", ![w].stage = "done",
                      ![w].indexed = (FinalStatus(w) = "indexed")]
  /\ UNCHANGED <<queueVars, persisted, unembedded, req, budget>>

SetFinalStatusFails(w) ==
  /\ AtStage(w, "work", "index")
  /\ Fault
  /\ SetDoc(DocOf(w), FinalStatus(w)) \/ UNCHANGED doc
  /\ Goto(w, "markdoc")
  /\ UNCHANGED <<queueVars, persisted, unembedded, req>>

\* Not indexed, or autoSsotTopics is off (or could not be read).
NoAutoChain(w) ==
  /\ AtStage(w, "work", "done")
  /\ Goto(w, "ack")
  /\ UNCHANGED <<queueVars, docVars, req, budget>>

\* enqueue("knowledge_build"): the row, then the entry.
AutoChainRow(w) ==
  /\ AtStage(w, "work", "done")
  /\ wk[w].indexed
  /\ CanAllocate
  /\ \E j \in Jobs :
       /\ InsertRow(j, "knowledge_build", DocOf(w))
       /\ wk' = [wk EXCEPT ![w].pc = "announce", ![w].next = j]
  /\ UNCHANGED <<docVars, req, budget>>

AutoChainAnnounce(w) ==
  /\ At(w, "announce")
  /\ Xadd(wk[w].next)
  /\ wk' = [wk EXCEPT ![w].pc = "ack", ![w].next = NoJob]
  /\ UNCHANGED <<docVars, req, budget>>

\* A failure to enqueue does not fail the ingest.
AutoChainFails(w) ==
  /\ At(w, "announce")
  /\ Fault
  /\ XaddError(wk[w].next)
  /\ wk' = [wk EXCEPT ![w].pc = "ack", ![w].next = NoJob]
  /\ UNCHANGED <<docVars, req>>

-----------------------------------------------------------------------------
(* Worker: the error path of run_ingest, knowledge jobs, and the XACK. *)

\* Mutant of MarkDocument: the document keeps its status.
MarkNoDocument(w) ==
  /\ At(w, "markdoc")
  /\ Goto(w, "markjob")
  /\ UNCHANGED <<queueVars, docVars, req, budget>>

MarkDocument(w) ==
  /\ At(w, "markdoc")
  /\ SetDoc(DocOf(w), "failed")
  /\ Goto(w, "markjob")
  /\ UNCHANGED <<queueVars, persisted, unembedded, req, budget>>

MarkDocumentFails(w) ==
  /\ At(w, "markdoc")
  /\ Fault
  /\ SetDoc(DocOf(w), "failed") \/ UNCHANGED doc
  /\ Goto(w, "markjob")
  /\ UNCHANGED <<queueVars, persisted, unembedded, req>>

\* Mutant of MarkJob: the failed event is not published.
MarkNoJob(w) ==
  /\ At(w, "markjob")
  /\ Goto(w, "ack")
  /\ UNCHANGED <<queueVars, docVars, req, budget>>

MarkJob(w) ==
  /\ At(w, "markjob")
  /\ SetStatus(wk[w].job, "failed")
  /\ Goto(w, "ack")
  /\ UNCHANGED <<docVars, req, budget>>

MarkJobFails(w) ==
  /\ At(w, "markjob")
  /\ Fault
  /\ SetStatusError(wk[w].job, "failed")
  /\ Goto(w, "ack")
  /\ UNCHANGED <<docVars, req>>

\* run_knowledge: well or badly, the row of the job is never touched again.
RunKnowledge(w) ==
  /\ At(w, "knowledge")
  /\ Goto(w, "ack")
  /\ UNCHANGED <<queueVars, docVars, req, budget>>

\* process always ends with the XACK ...
Ack(w) ==
  /\ At(w, "ack")
  /\ Xack(wk[w].job)
  /\ wk' = [wk EXCEPT ![w] = IdleWorker]
  /\ UNCHANGED <<docVars, req, budget>>

\* ... whose failure is only logged.
AckFails(w) ==
  /\ At(w, "ack")
  /\ Fault
  /\ XackError(wk[w].job)
  /\ wk' = [wk EXCEPT ![w] = IdleWorker]
  /\ UNCHANGED <<docVars, req>>

\* The process is killed; its successor starts with an empty hand.
WorkerCrash(w) ==
  /\ ~At(w, "idle")
  /\ Crash
  /\ wk' = [wk EXCEPT ![w] = IdleWorker]
  /\ UNCHANGED <<queueVars, docVars, req>>

-----------------------------------------------------------------------------
(* API: create_document. *)

InsertDocument(r, d) ==
  /\ req[r].pc = "idle"
  /\ doc[d] = "absent"
  /\ CanAllocate
  /\ SetDoc(d, "pending")
  /\ req' = [req EXCEPT ![r] = [pc |-> "created", doc |-> d, job |-> NoJob,
                                creates |-> TRUE]]
  /\ UNCHANGED <<queueVars, persisted, unembedded, wk, budget>>

FlipToProcessing(r) ==
  /\ req[r].pc = "created"
  /\ SetDoc(req[r].doc, "processing")
  /\ ReqGoto(r, "enqueue")
  /\ UNCHANGED <<queueVars, persisted, unembedded, wk, budget>>

\* The flip fails before anything is enqueued: `?` leaves the document as is.
FlipFails(r) ==
  /\ req[r].pc = "created"
  /\ Fault
  /\ SetDoc(req[r].doc, "processing") \/ UNCHANGED doc
  /\ ReqDone(r)
  /\ UNCHANGED <<queueVars, persisted, unembedded, wk>>

EnqueueRow(r) ==
  /\ req[r].pc = "enqueue"
  /\ \E j \in Jobs :
       /\ InsertRow(j, "ingest", req[r].doc)
       /\ req' = [req EXCEPT ![r].pc = "announce", ![r].job = j]
  /\ UNCHANGED <<docVars, wk, budget>>

Announce(r) ==
  /\ req[r].pc = "announce"
  /\ Xadd(req[r].job)
  /\ ReqDone(r)
  /\ UNCHANGED <<docVars, wk, budget>>

\* enqueue returned Err: creation goes on to mark the document, a retry just
\* reports the error.
EnqueueError(r) ==
  IF req[r].creates THEN ReqGoto(r, "markfailed") ELSE ReqDone(r)

EnqueueRowFails(r) ==
  /\ req[r].pc = "enqueue"
  /\ Fault
  /\ EnqueueError(r)
  /\ \/ UNCHANGED jobs
     \/ \E j \in Jobs : InsertRow(j, "ingest", req[r].doc)
  /\ UNCHANGED <<stream, pel, acked, docVars, wk>>

AnnounceFails(r) ==
  /\ req[r].pc = "announce"
  /\ Fault
  /\ XaddError(req[r].job)
  /\ EnqueueError(r)
  /\ UNCHANGED <<docVars, wk>>

MarkFailed(r) ==
  /\ req[r].pc = "markfailed"
  /\ SetDoc(req[r].doc, "failed")
  /\ ReqDone(r)
  /\ UNCHANGED <<queueVars, persisted, unembedded, wk, budget>>

MarkFailedFails(r) ==
  /\ req[r].pc = "markfailed"
  /\ Fault
  /\ SetDoc(req[r].doc, "failed") \/ UNCHANGED doc
  /\ ReqDone(r)
  /\ UNCHANGED <<queueVars, persisted, unembedded, wk>>

-----------------------------------------------------------------------------
(* API: retry_job, cancel_job, reindex. *)

\* Any row may be retried, whatever its kind or status.
Retry(r, j) ==
  /\ req[r].pc = "idle"
  /\ Exists(j)
  /\ CanAllocate
  /\ SetDoc(jobs[j].doc, "processing")
  /\ req' = [req EXCEPT ![r] = [pc |-> "enqueue", doc |-> jobs[j].doc,
                                job |-> NoJob, creates |-> FALSE]]
  /\ UNCHANGED <<queueVars, persisted, unembedded, wk, budget>>

\* The SELECT of cancel_job; a finished job ends the request.
CancelRead(r, j) ==
  /\ req[r].pc = "idle"
  /\ Exists(j)
  /\ jobs[j].status # "done"
  /\ req' = [req EXCEPT ![r] = [pc |-> "cancelling", doc |-> jobs[j].doc,
                                job |-> j, creates |-> FALSE]]
  /\ UNCHANGED <<queueVars, docVars, wk, budget>>

\* Its UPDATEs, committed together.
CancelCommit(r) ==
  /\ req[r].pc = "cancelling"
  /\ SetStatus(req[r].job, "cancelled")
  /\ SetDoc(req[r].doc, "failed")
  /\ ReqDone(r)
  /\ UNCHANGED <<persisted, unembedded, wk, budget>>

CancelFails(r) ==
  /\ req[r].pc = "cancelling"
  /\ Fault
  /\ ReqDone(r)
  /\ UNCHANGED <<queueVars, docVars, wk>>

\* reindex_unembedded: an admin embeds batches that are still unembedded.
Reindex(d) ==
  /\ unembedded[d] # {}
  /\ \E cs \in (SUBSET unembedded[d]) \ {{}} :
       unembedded' = [unembedded EXCEPT ![d] = @ \ cs]
  /\ UNCHANGED <<queueVars, doc, persisted, wk, req, budget>>

RequestCrash(r) ==
  /\ req[r].pc # "idle"
  /\ Fault
  /\ ReqDone(r)
  /\ UNCHANGED <<queueVars, docVars, wk>>

-----------------------------------------------------------------------------

\* What worker w does when nothing fails ...
WorkerStep(w) ==
  \/ CheckCancelled(w) \/ PublishStage(w) \/ FetchOrParse(w) \/ ServiceFails(w)
  \/ Persist(w) \/ PersistConflict(w)
  \/ EmbedBatch(w) \/ EmbedDone(w) \/ EmbedFails(w) \/ SetFinalStatus(w)
  \/ NoAutoChain(w) \/ AutoChainRow(w) \/ AutoChainAnnounce(w)
  \/ MarkDocument(w) \/ MarkJob(w) \/ RunKnowledge(w) \/ Ack(w)

\* ... and when a Postgres or Redis call does.
WorkerFault(w) ==
  \/ CheckFails(w) \/ LoadFails(w) \/ PublishStageFails(w) \/ PersistFails(w)
  \/ PersistLost(w) \/ SetFinalStatusFails(w) \/ AutoChainFails(w) \/ MarkDocumentFails(w)
  \/ MarkJobFails(w) \/ AckFails(w)

RequestStart(r) ==
  \/ "create" \in Operations /\ \E d \in Docs : InsertDocument(r, d)
  \/ "retry" \in Operations /\ \E j \in Jobs : Retry(r, j)
  \/ "cancel" \in Operations /\ \E j \in Jobs : CancelRead(r, j)

RequestStep(r) ==
  \/ FlipToProcessing(r) \/ EnqueueRow(r) \/ Announce(r) \/ MarkFailed(r)
  \/ CancelCommit(r)

RequestFault(r) ==
  \/ FlipFails(r) \/ EnqueueRowFails(r) \/ AnnounceFails(r)
  \/ MarkFailedFails(r) \/ CancelFails(r)

Next ==
  \/ \E w \in Workers : \/ NextJob(w) \/ ClaimStale(w) \/ WorkerStep(w)
                        \/ WorkerFault(w) \/ WorkerCrash(w)
  \/ \E r \in Requests : \/ RequestStart(r) \/ RequestStep(r)
                         \/ RequestFault(r) \/ RequestCrash(r)
  \/ \E d \in Docs : Reindex(d)

Spec == Init /\ [][Next]_vars

(***************************************************************************)
(* A live worker keeps running its job, keeps polling the stream and keeps *)
(* sweeping; a handler that has started runs to its end.  Users start      *)
(* requests as they please, so RequestStart and Reindex have no fairness.  *)
(***************************************************************************)
Fairness ==
  /\ \A w \in Workers : /\ WF_vars(WorkerStep(w))
                        /\ WF_vars(NextJob(w))
                        /\ WF_vars(ClaimStale(w))
  /\ \A r \in Requests : WF_vars(RequestStep(r))

FairSpec == Spec /\ Fairness
=============================================================================
