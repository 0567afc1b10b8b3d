------------------------------ MODULE JobQueue ------------------------------
(***************************************************************************)
(* The durable job queue of the engine                                     *)
(* (backend/crates/insight-core/src/storage/queue.rs): the `jobs` rows in  *)
(* Postgres, which carry status, and the Redis stream `insight:jobs` with  *)
(* its consumer group `workers`, which carries delivery.                   *)
(*                                                                         *)
(* The two stores are independent: a row is inserted and committed first,  *)
(* the stream entry is added afterwards, and nothing ties them together.   *)
(* This module holds the state of both stores and one operator per queue   *)
(* primitive; IngestPipeline composes them into the actions of the workers *)
(* and of the API.  An entry carries the id of its job, so entries are     *)
(* named by jobs.                                                          *)
(***************************************************************************)
EXTENDS Naturals, Sequences

CONSTANTS
  Jobs,      \* job ids that can be allocated; its size bounds a model
  Docs,      \* documents
  NoDoc      \* the document of a row that does not exist yet

ASSUME JobsAssumption == Jobs \subseteq Nat \ {0}
ASSUME NoDocAssumption == NoDoc \notin Docs

NoJob == 0

VARIABLES
  jobs,      \* the jobs table: [kind, doc, status] per job id
  stream,    \* entries not yet delivered to the group, oldest first
  pel,       \* delivered and not acknowledged: the pending-entries list
  acked      \* acknowledged entries

queueVars == <<jobs, stream, pel, acked>>

Kinds == {"ingest", "knowledge_build"}

\* The progress stages of ingest.rs; the worker writes them into jobs.status.
Stages == {"extract", "parse", "chunk", "contextualize", "embed", "index",
           "done"}

JobStatus == {"absent", "queued", "failed", "cancelled"} \cup Stages

\* No handler of a live pipeline writes to a row that reached one of these.
Terminal == {"done", "failed", "cancelled"}

JobRow == [kind : Kinds \cup {"none"}, doc : Docs \cup {NoDoc},
           status : JobStatus]

NoRow == [kind |-> "none", doc |-> NoDoc, status |-> "absent"]

QueueTypeOK ==
  /\ jobs \in [Jobs -> JobRow]
  /\ stream \in Seq(Jobs)
  /\ pel \subseteq Jobs
  /\ acked \subseteq Jobs

QueueInit ==
  /\ jobs = [j \in Jobs |-> NoRow]
  /\ stream = <<>>
  /\ pel = {}
  /\ acked = {}

Exists(j) == jobs[j].status # "absent"

Queued(j) == \E i \in DOMAIN stream : stream[i] = j

\* Ids are handed out in increasing order.
Fresh(j) == ~Exists(j) /\ \A k \in Jobs : k < j => Exists(k)

\* enqueue, first half: the row is inserted as `queued` and committed.
InsertRow(j, k, d) ==
  /\ Fresh(j)
  /\ jobs' = [jobs EXCEPT ![j] = [kind |-> k, doc |-> d,
                                  status |-> "queued"]]
  /\ UNCHANGED <<stream, pel, acked>>

\* enqueue, second half: the `queued` event is out and the entry is added.
Xadd(j) ==
  /\ stream' = Append(stream, j)
  /\ UNCHANGED <<jobs, pel, acked>>

\* enqueue, second half, returning Err: a publish failed, the XADD failed, or
\* the XADD was applied and its reply was lost.
XaddError(j) ==
  /\ stream' \in {stream, Append(stream, j)}
  /\ UNCHANGED <<jobs, pel, acked>>

\* next_job: XREADGROUP `>` COUNT 1 delivers the oldest undelivered entry.
ReadNext(j) ==
  /\ stream # <<>>
  /\ j = Head(stream)
  /\ stream' = Tail(stream)
  /\ pel' = pel \cup {j}
  /\ UNCHANGED <<jobs, acked>>

\* Mutant of Reclaim: entries stay claimable once acknowledged.
ReclaimAcked(j) ==
  /\ j \in pel \cup acked
  /\ UNCHANGED queueVars

\* claim_stale: XAUTOCLAIM moves a pending entry to the caller.  Whether the
\* entry has been idle long enough is the caller's premise.
Reclaim(j) ==
  /\ j \in pel
  /\ UNCHANGED queueVars

\* ack: XACK drops the entry from the group's pending list, whichever
\* consumer the list says owns it.
Xack(j) ==
  /\ pel' = pel \ {j}
  /\ acked' = acked \cup (pel \cap {j})
  /\ UNCHANGED <<jobs, stream>>

XackError(j) == Xack(j) \/ UNCHANGED queueVars

\* publish_progress: an unconditional UPDATE of the row.
SetStatus(j, s) ==
  /\ jobs' = [jobs EXCEPT ![j].status = s]
  /\ UNCHANGED <<stream, pel, acked>>

\* publish_progress returning Err: the UPDATE failed, or it was committed and
\* the event could not be published.
SetStatusError(j, s) == SetStatus(j, s) \/ UNCHANGED queueVars

\* is_cancelled
IsCancelled(j) == jobs[j].status = "cancelled"
=============================================================================
