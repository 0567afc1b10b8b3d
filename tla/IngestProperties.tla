-------------------------- MODULE IngestProperties --------------------------
(***************************************************************************)
(* What the ingest path must guarantee, and what comments in its code say  *)
(* it guarantees.                                                          *)
(***************************************************************************)
EXTENDS IngestPipeline

\* Worker w committed the pages of its document itself.
PastPersist(w) == wk[w].stage \in {"contextualize", "embed", "index", "done"}

Working(j) == \E w \in Workers : wk[w].job = j

Submitted == {j \in Jobs : Queued(j)} \cup pel \cup acked

(***************************************************************************)
(* Duplicate delivery never gives a document two writers: past persist, a  *)
(* document belongs to one run, so its chunks are embedded and its final   *)
(* status decided from one parse.  The unique key on pages is all that     *)
(* ensures it (ingest.rs persist; migrations/0002_documents.sql:44).       *)
(***************************************************************************)
OneWriter ==
  \A v, w \in Workers :
    PastPersist(v) /\ PastPersist(w) /\ DocOf(v) = DocOf(w) => v = w

(***************************************************************************)
(* A document shown as indexed can be found: its pages are stored and no   *)
(* chunk of it lacks its vector (ingest.rs:318-334).                       *)
(***************************************************************************)
IndexedIsSearchable ==
  \A d \in Docs : doc[d] = "indexed" => persisted[d] /\ unembedded[d] = {}

(***************************************************************************)
(* A job that reports contextualize or later has its pages committed,      *)
(* whatever retries, redeliveries and cancellations did to its row.        *)
(***************************************************************************)
StageIsHonest ==
  \A j \in Jobs :
    jobs[j].status \in {"contextualize", "embed", "index", "done"}
      => persisted[jobs[j].doc]

(***************************************************************************)
(* The inductive invariant behind the three properties above.  Rows,       *)
(* entries and processes refer to each other: a worker at work runs an     *)
(* existing job of an existing document, entries and pending enqueues name *)
(* existing rows.  A run past persist has its document's pages committed,  *)
(* and one that saw every batch embedded is past persist and still finds   *)
(* no batch without a vector.                                              *)
(***************************************************************************)
RowsHaveDocs == \A j \in Jobs : Exists(j) => jobs[j].doc \in Docs

WorkersHaveJobs ==
  \A w \in Workers :
    IF At(w, "idle")
    THEN wk[w] = IdleWorker
    ELSE /\ wk[w].job \in Jobs
         /\ Exists(wk[w].job)
         /\ At(w, "announce") => wk[w].next \in Jobs /\ Exists(wk[w].next)

RequestsHaveDocs ==
  \A r \in Requests :
    /\ req[r].pc # "idle" => req[r].doc \in Docs
    /\ req[r].pc \in {"announce", "cancelling"}
         => req[r].job \in Jobs /\ Exists(req[r].job)

EntriesHaveRows ==
  /\ \A i \in DOMAIN stream : Exists(stream[i])
  /\ \A j \in pel : Exists(j)

WritersPersisted ==
  \A w \in Workers : PastPersist(w) => persisted[DocOf(w)]

EmbeddedStays ==
  \A w \in Workers :
    wk[w].embedOk => PastPersist(w) /\ unembedded[DocOf(w)] = {}

IInv ==
  /\ TypeOK
  /\ RowsHaveDocs
  /\ WorkersHaveJobs
  /\ RequestsHaveDocs
  /\ EntriesHaveRows
  /\ WritersPersisted
  /\ EmbeddedStays
  /\ OneWriter
  /\ IndexedIsSearchable
  /\ StageIsHonest

(***************************************************************************)
(* As long as Postgres and Redis answer, an acknowledged ingest that no    *)
(* worker is running is in a terminal state: nobody would ever move it on. *)
(***************************************************************************)
SettledWhenAcked ==
  faults = 0 =>
    \A j \in acked :
      jobs[j].kind = "ingest" /\ ~Working(j) => jobs[j].status \in Terminal

(***************************************************************************)
(* As long as Postgres and Redis answer and handlers run to their end, a   *)
(* document in progress has somebody to finish it: the handler about to    *)
(* enqueue its job, an entry of the stream or of the pending list, or a    *)
(* worker.                                                                 *)
(***************************************************************************)
NoOrphanDocument ==
  faults = 0 =>
    \A d \in Docs : doc[d] \in {"pending", "processing"} =>
      \/ \E r \in Requests :
           req[r].doc = d /\ req[r].pc \in {"created", "enqueue", "announce"}
      \/ \E j \in Jobs :
           /\ jobs[j].doc = d
           /\ jobs[j].kind = "ingest"
           /\ Queued(j) \/ j \in pel \/ Working(j)

(***************************************************************************)
(* The inductive invariant behind NoOrphanDocument.  A document in         *)
(* progress has a handler that will queue its ingest, or an ingest that    *)
(* waits in the stream or in the pending list and all of whose runs, of    *)
(* which there may be none or several, will still write its status: a run  *)
(* that will not has written it, and only such a run acknowledges the      *)
(* entry.                                                                  *)
(***************************************************************************)
Ingest(j) == jobs[j].kind = "ingest"

InProgress(d) == doc[d] \in {"pending", "processing"}

HandsFit ==
  /\ \A w \in Workers : At(w, "knowledge") => ~Ingest(wk[w].job)
  /\ \A r \in Requests : req[r].pc = "announce" =>
       Ingest(req[r].job) /\ jobs[req[r].job].doc = req[r].doc

\* A run that will still write the status of its document.
Pursuing(r) ==
  \/ r.pc = "markdoc"
  \/ r.pc \in {"check", "publish", "work"} /\ r.stage # "done"

Handling(r, d) == req[r].doc = d /\ req[r].pc \in {"created", "enqueue", "announce"}

Open(j) ==
  /\ Queued(j) \/ j \in pel
  /\ \A w \in Workers : wk[w].job = j => Pursuing(wk[w])

Awaited(d) ==
  \/ \E r \in Requests : Handling(r, d)
  \/ \E j \in Jobs : Ingest(j) /\ jobs[j].doc = d /\ Open(j)

AwaitInv ==
  /\ HandsFit
  /\ faults = 0 => \A d \in Docs : InProgress(d) => Awaited(d)

(***************************************************************************)
(* The inductive invariant behind SettledWhenAcked, as long as no run      *)
(* outlasts the 300 s after which its entry is claimed.  Then a job has    *)
(* one run, whose entry stays pending, and an ingest about to be           *)
(* acknowledged has a terminal row.                                        *)
(***************************************************************************)
OneRun ==
  \A v, w \in Workers : wk[v].job # NoJob /\ wk[v].job = wk[w].job => v = w

RunsPending == \A w \in Workers : wk[w].job # NoJob => wk[w].job \in pel

\* A run that is about to acknowledge its entry, or to end.
Closing(r) == r.pc \in {"ack", "announce"} \/ (r.pc = "work" /\ r.stage = "done")

ClosedSettled ==
  /\ \A w \in Workers : Closing(wk[w]) /\ Ingest(wk[w].job) =>
       jobs[wk[w].job].status \in Terminal
  /\ \A j \in acked : Ingest(j) => jobs[j].status \in Terminal

SettleInv ==
  /\ OneRun
  /\ RunsPending
  /\ faults = 0 => ClosedSettled

(***************************************************************************)
(* The inductive invariant behind ImplementsQueue.  An entry is in one     *)
(* place: waiting once in the stream, pending, or acknowledged; workers    *)
(* run delivered entries; and a row whose XADD is still to come has no     *)
(* entry yet and one process that will add it.                             *)
(***************************************************************************)
EntriesOnce ==
  /\ \A i, k \in DOMAIN stream : stream[i] = stream[k] => i = k
  /\ \A i \in DOMAIN stream : stream[i] \notin pel \cup acked
  /\ pel \cap acked = {}
  /\ \A j \in acked : Exists(j)

RunsDelivered ==
  \A w \in Workers : wk[w].job # NoJob => wk[w].job \in pel \cup acked

\* The row a handler, or a worker that chains a knowledge job, is to announce.
AnnouncedBy(r) == IF req[r].pc = "announce" THEN req[r].job ELSE NoJob
ChainedBy(w) == IF At(w, "announce") THEN wk[w].next ELSE NoJob

AnnouncedOnce ==
  /\ \A r \in Requests : AnnouncedBy(r) # NoJob =>
       /\ AnnouncedBy(r) \notin Submitted
       /\ \A q \in Requests : AnnouncedBy(q) = AnnouncedBy(r) => q = r
       /\ \A w \in Workers : ChainedBy(w) # AnnouncedBy(r)
  /\ \A w \in Workers : ChainedBy(w) # NoJob =>
       /\ ChainedBy(w) \notin Submitted
       /\ \A v \in Workers : ChainedBy(v) = ChainedBy(w) => v = w

DeliveryInv == EntriesOnce /\ RunsDelivered /\ AnnouncedOnce

(***************************************************************************)
(* The pipeline's use of Redis and its workers implement the at-least-once *)
(* queue: nothing is run that was not submitted, and no new run starts     *)
(* once a run was acknowledged.                                            *)
(***************************************************************************)
Queue == INSTANCE AtLeastOnce WITH
           submitted <- Submitted,
           finished <- acked,
           running <- [w \in Workers |-> wk[w].job]

ImplementsQueue == Queue!Spec

(***************************************************************************)
(* Every entry on the stream is eventually acknowledged, whatever crashes  *)
(* and faults happen on the way (claim_stale, queue.rs:158-163).           *)
(***************************************************************************)
Delivers == Queue!Delivers

(***************************************************************************)
(* Every document in progress is eventually indexed, sent to review or     *)
(* failed, though workers crash.                                           *)
(***************************************************************************)
DocumentsSettle ==
  \A d \in Docs : doc[d] \in {"pending", "processing"}
                    ~> doc[d] \in {"indexed", "needs_review", "failed"}

(***************************************************************************)
(* As long as nothing fails and no worker is killed, a job cancelled while *)
(* no worker has it never completes: the first check of its next run sees  *)
(* the cancellation, and the failure that the abort reports is final       *)
(* (processing.rs:203-210, ingest.rs:546-561).                             *)
(***************************************************************************)
CancelledNeverCompletes ==
  \A j \in Jobs :
    [](IsCancelled(j) /\ ~Working(j) =>
         [](faults + crashes = 0 => jobs[j].status # "done"))

(***************************************************************************)
(* What holds of such a job from then on.  Its row is cancelled or failed; *)
(* a run of it has not checked the row yet, or has found the cancellation  *)
(* and is on its way out; and without a run the row is still cancelled for *)
(* the next one to find, unless the entry is acknowledged and no run will  *)
(* come.                                                                   *)
(***************************************************************************)
Aborting(j) ==
  /\ jobs[j].status \in {"cancelled", "failed"}
  /\ \A w \in Workers : wk[w].job = j =>
       \/ wk[w].pc \in {"markdoc", "markjob", "ack"}
       \/ IsCancelled(j) /\ (At(w, "knowledge") \/ AtStage(w, "check", "extract"))
  /\ Working(j) \/ IsCancelled(j) \/ j \in acked

-----------------------------------------------------------------------------
(* What comments claim and the code does not keep. *)

(***************************************************************************)
(* "The worker checks for the cancelled status between stages and aborts"  *)
(* (processing.rs:203): a cancelled job goes nowhere but to failed.        *)
(***************************************************************************)
CancelAborts ==
  [][\A j \in Jobs :
       IsCancelled(j) => jobs'[j].status \in {"cancelled", "failed"}]_vars

(***************************************************************************)
(* Reclaiming is there so that a crash does not "strand its in-flight job  *)
(* as running forever" (queue.rs:161-163): an acknowledged job with no     *)
(* worker is not left in a running stage.                                  *)
(***************************************************************************)
NeverStranded == SettledWhenAcked

(***************************************************************************)
(* "A pending entry idle this long is considered abandoned (its worker     *)
(* crashed/was killed before XACK)" (main.rs:36-37): with no crash, no     *)
(* fault, no retry and no cancellation nothing takes back an ingest that   *)
(* succeeded.                                                              *)
(***************************************************************************)
IndexedStays ==
  [][\A d \in Docs : doc[d] = "indexed" => doc'[d] = "indexed"]_vars
=============================================================================
