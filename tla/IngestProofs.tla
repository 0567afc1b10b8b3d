---------------------------- MODULE IngestProofs ----------------------------
(***************************************************************************)
(* Proofs about IngestPipeline, for any number of workers, handlers, jobs, *)
(* documents and chunk batches and any bounds on faults and crashes.       *)
(***************************************************************************)
EXTENDS IngestProperties, TLAPS

USE DEF NoJob

-----------------------------------------------------------------------------
(* The stream as a sequence. *)

LEMMA StreamAppend ==
  ASSUME NEW s \in Seq(Jobs), NEW j \in Jobs
  PROVE  /\ Append(s, j) \in Seq(Jobs)
         /\ \A i \in DOMAIN Append(s, j) :
              \/ Append(s, j)[i] = j
              \/ \E k \in DOMAIN s : Append(s, j)[i] = s[k]
<1>1. Append(s, j) \in Seq(Jobs)
  OBVIOUS
<1>2. ASSUME NEW i \in DOMAIN Append(s, j)
      PROVE  Append(s, j)[i] = j \/ \E k \in DOMAIN s : Append(s, j)[i] = s[k]
  <2>1. CASE i = Len(s) + 1
    BY <2>1
  <2>2. CASE i \in DOMAIN s
    BY <2>2
  <2>. QED
    BY <2>1, <2>2
<1>. QED
  BY <1>1, <1>2

LEMMA StreamTail ==
  ASSUME NEW s \in Seq(Jobs), s # <<>>
  PROVE  /\ Head(s) \in Jobs
         /\ \E k \in DOMAIN s : Head(s) = s[k]
         /\ Tail(s) \in Seq(Jobs)
         /\ \A i \in DOMAIN Tail(s) : \E k \in DOMAIN s : Tail(s)[i] = s[k]
<1>1. Head(s) \in Jobs /\ Tail(s) \in Seq(Jobs)
  OBVIOUS
<1>2. 1 \in DOMAIN s /\ Head(s) = s[1]
  OBVIOUS
<1>3. ASSUME NEW i \in DOMAIN Tail(s)
      PROVE  i + 1 \in DOMAIN s /\ Tail(s)[i] = s[i + 1]
  OBVIOUS
<1>. QED
  BY <1>1, <1>2, <1>3

-----------------------------------------------------------------------------
(* The queue primitives keep the queue's part of the invariant, and keep   *)
(* every row with its document.                                            *)

QueueOK == QueueTypeOK /\ RowsHaveDocs /\ EntriesHaveRows

RowsKept ==
  \A j \in Jobs : Exists(j) => Exists(j)' /\ jobs'[j].doc = jobs[j].doc

LEMMA QueueUnchanged ==
  ASSUME QueueOK, UNCHANGED queueVars
  PROVE  QueueOK' /\ RowsKept
BY DEF QueueOK, QueueTypeOK, RowsHaveDocs, EntriesHaveRows, RowsKept, Exists,
       queueVars

LEMMA InsertRowStep ==
  ASSUME QueueOK, NEW j \in Jobs, NEW k \in Kinds, NEW d \in Docs,
         InsertRow(j, k, d)
  PROVE  QueueOK' /\ RowsKept /\ Exists(j)'
<1>1. jobs' \in [Jobs -> JobRow]
  BY DEF QueueOK, QueueTypeOK, InsertRow, JobRow, JobStatus, Kinds
<1>2. RowsKept /\ Exists(j)'
  BY DEF QueueOK, QueueTypeOK, InsertRow, JobRow, RowsKept, Exists, Fresh
<1>3. RowsHaveDocs'
  BY DEF QueueOK, QueueTypeOK, InsertRow, JobRow, RowsHaveDocs, Exists
<1>4. EntriesHaveRows'
  BY <1>2 DEF QueueOK, QueueTypeOK, InsertRow, RowsKept, EntriesHaveRows
<1>. QED
  BY <1>1, <1>2, <1>3, <1>4 DEF QueueOK, QueueTypeOK, InsertRow

LEMMA XaddStep ==
  ASSUME QueueOK, NEW j \in Jobs, Exists(j), XaddError(j) \/ Xadd(j)
  PROVE  QueueOK' /\ RowsKept
<1>1. CASE stream' = stream
  BY <1>1, QueueUnchanged DEF XaddError, Xadd, queueVars
<1>2. CASE stream' = Append(stream, j)
  <2>1. stream' \in Seq(Jobs) /\ \A i \in DOMAIN stream' :
           stream'[i] = j \/ \E k \in DOMAIN stream : stream'[i] = stream[k]
    BY <1>2, StreamAppend DEF QueueOK, QueueTypeOK
  <2>2. UNCHANGED <<jobs, pel, acked>>
    BY DEF XaddError, Xadd
  <2>3. EntriesHaveRows'
    BY <2>1, <2>2 DEF QueueOK, EntriesHaveRows, Exists
  <2>. QED
    BY <2>1, <2>2, <2>3 DEF QueueOK, QueueTypeOK, RowsHaveDocs, RowsKept, Exists
<1>. QED
  BY <1>1, <1>2 DEF XaddError, Xadd

LEMMA ReadNextStep ==
  ASSUME QueueOK, NEW j \in Jobs, ReadNext(j)
  PROVE  QueueOK' /\ RowsKept /\ Exists(j)
<1>1. /\ \E k \in DOMAIN stream : j = stream[k]
      /\ stream' \in Seq(Jobs)
      /\ \A i \in DOMAIN stream' : \E k \in DOMAIN stream :
           stream'[i] = stream[k]
  BY StreamTail DEF QueueOK, QueueTypeOK, ReadNext
<1>2. UNCHANGED <<jobs, acked>> /\ pel' = pel \cup {j}
  BY DEF ReadNext
<1>3. Exists(j)
  BY <1>1 DEF QueueOK, EntriesHaveRows
<1>4. EntriesHaveRows'
  BY <1>1, <1>2, <1>3 DEF QueueOK, EntriesHaveRows, Exists
<1>. QED
  BY <1>1, <1>2, <1>3, <1>4
     DEF QueueOK, QueueTypeOK, RowsHaveDocs, RowsKept, Exists

LEMMA XackStep ==
  ASSUME QueueOK, NEW j \in Jobs, XackError(j) \/ Xack(j)
  PROVE  QueueOK' /\ RowsKept
BY DEF QueueOK, QueueTypeOK, RowsHaveDocs, EntriesHaveRows, RowsKept, Exists,
       XackError, Xack, queueVars

LEMMA SetStatusStep ==
  ASSUME QueueOK, NEW j \in Jobs, Exists(j),
         NEW s \in JobStatus, s # "absent",
         SetStatusError(j, s) \/ SetStatus(j, s)
  PROVE  QueueOK' /\ RowsKept
<1>1. CASE UNCHANGED queueVars
  BY <1>1, QueueUnchanged
<1>2. CASE SetStatus(j, s)
  <2>1. jobs' \in [Jobs -> JobRow]
    BY <1>2 DEF QueueOK, QueueTypeOK, SetStatus, JobRow
  <2>2. \A k \in Jobs : jobs'[k].doc = jobs[k].doc /\ (Exists(k)' <=> Exists(k))
    BY <1>2 DEF QueueOK, QueueTypeOK, SetStatus, JobRow, Exists
  <2>3. UNCHANGED <<stream, pel, acked>>
    BY <1>2 DEF SetStatus
  <2>. QED
    BY <2>1, <2>2, <2>3
       DEF QueueOK, QueueTypeOK, RowsHaveDocs, EntriesHaveRows, RowsKept
<1>. QED
  BY <1>1, <1>2 DEF SetStatusError

-----------------------------------------------------------------------------
(* A step of one worker: what has to be checked of it to keep the          *)
(* invariant.                                                              *)

OnlyWorker(w) ==
  /\ wk' \in [Workers -> WorkerRec]
  /\ \A v \in Workers : v # w => wk'[v] = wk[v]

BudgetOK == faults' \in 0 .. MaxFaults /\ crashes' \in 0 .. MaxCrashes

LEMMA FaultBudget ==
  ASSUME TypeOK, Fault \/ Crash \/ UNCHANGED budget
  PROVE  BudgetOK
BY BoundsAssumption DEF TypeOK, Fault, Crash, budget, BudgetOK

\* The part of the invariant about the queue follows from the primitives.
LEMMA SplitInv ==
  IInv <=> /\ TypeOK /\ QueueOK /\ WorkersHaveJobs /\ RequestsHaveDocs
           /\ WritersPersisted /\ EmbeddedStays /\ OneWriter
           /\ IndexedIsSearchable /\ StageIsHonest
BY DEF IInv, QueueOK, TypeOK

LEMMA RequestsKept ==
  ASSUME TypeOK, RequestsHaveDocs, RowsKept, UNCHANGED req
  PROVE  RequestsHaveDocs'
BY DEF TypeOK, RequestsHaveDocs, RowsKept, RequestRec

LEMMA HonestRows ==
  ASSUME TypeOK, QueueOK', StageIsHonest, UNCHANGED persisted,
         \A j \in Jobs : \/ jobs'[j] = jobs[j]
                         \/ jobs'[j].status \in {"queued", "cancelled"}
  PROVE  StageIsHonest'
BY DEF TypeOK, StageIsHonest, QueueOK, QueueTypeOK

\* The record worker w has after the step fits the rows there are then.
WorkerFits(w) ==
  IF wk'[w].pc = "idle"
  THEN wk'[w] = IdleWorker
  ELSE /\ wk'[w].job \in Jobs
       /\ jobs'[wk'[w].job].status # "absent"
       /\ wk'[w].pc = "announce" =>
            /\ wk'[w].next \in Jobs
            /\ jobs'[wk'[w].next].status # "absent"

\* Only the document of worker w may change, and it is indexed only after its
\* batches were all embedded.
OwnDocument(w) ==
  \/ UNCHANGED doc
  \/ \E s \in DocStatus : /\ doc' = [doc EXCEPT ![DocOf(w)] = s]
                          /\ s = "indexed" => wk[w].embedOk

\* A step that does not persist: nobody moves past persist by it.
LEMMA WorkerMove ==
  ASSUME IInv, NEW w \in Workers, OnlyWorker(w), QueueOK', RowsKept, BudgetOK,
         StageIsHonest', UNCHANGED <<req, persisted, unembedded>>,
         OwnDocument(w), WorkerFits(w),
         PastPersist(w)' => PastPersist(w) /\ wk'[w].job = wk[w].job,
         wk'[w].embedOk =>
           /\ PastPersist(w)'
           /\ wk[w].embedOk \/ unembedded[DocOf(w)] = {}
  PROVE  IInv'
<1> USE SplitInv
<1>1. doc' \in [Docs -> DocStatus]
  BY DEF TypeOK, OwnDocument
<1>2. TypeOK'
  BY <1>1 DEF TypeOK, QueueOK, OnlyWorker, BudgetOK
<1>3. WorkersHaveJobs'
  <2>. SUFFICES ASSUME NEW v \in Workers, v # w
                PROVE  IF At(v, "idle")'
                       THEN wk'[v] = IdleWorker
                       ELSE /\ wk'[v].job \in Jobs
                            /\ jobs'[wk'[v].job].status # "absent"
                            /\ At(v, "announce")' =>
                                 /\ wk'[v].next \in Jobs
                                 /\ jobs'[wk'[v].next].status # "absent"
    BY DEF WorkersHaveJobs, WorkerFits, At, Exists
  <2>. USE DEF Exists
  <2>1. wk'[v] = wk[v]
    BY DEF OnlyWorker
  <2>2. CASE At(v, "idle")
    BY <2>1, <2>2 DEF WorkersHaveJobs, At
  <2>3. CASE ~At(v, "idle")
    BY <2>1, <2>3 DEF WorkersHaveJobs, At, RowsKept
  <2>. QED
    BY <2>2, <2>3
<1>4. \A v \in Workers : PastPersist(v) => wk[v].job \in Jobs /\ Exists(wk[v].job)
  BY DEF WorkersHaveJobs, IdleWorker, PastPersist
<1>5. \A v \in Workers :
        PastPersist(v)' => PastPersist(v) /\ wk'[v].job = wk[v].job
  BY DEF OnlyWorker, PastPersist
<1>6. \A v \in Workers : PastPersist(v)' => PastPersist(v) /\ DocOf(v)' = DocOf(v)
  BY <1>4, <1>5 DEF RowsKept, DocOf
<1>7. WritersPersisted'
  BY <1>6 DEF WritersPersisted
<1>8. OneWriter'
  BY <1>6 DEF OneWriter
<1>9. EmbeddedStays'
  <2>1. ASSUME NEW v \in Workers, wk'[v].embedOk
        PROVE  PastPersist(v)' /\ unembedded[DocOf(v)] = {}
    <3>1. CASE v = w
      BY <2>1, <3>1 DEF EmbeddedStays
    <3>2. CASE v # w
      BY <2>1, <3>2 DEF EmbeddedStays, OnlyWorker, PastPersist
    <3>. QED
      BY <3>1, <3>2
  <2>. QED
    BY <2>1, <1>6 DEF EmbeddedStays
<1>10. IndexedIsSearchable'
  <2>1. ASSUME NEW d \in Docs, doc'[d] = "indexed", doc'[d] # doc[d]
        PROVE  persisted[d] /\ unembedded[d] = {}
    <3>1. d = DocOf(w) /\ wk[w].embedOk
      BY <2>1 DEF TypeOK, OwnDocument
    <3>. QED
      BY <3>1 DEF EmbeddedStays, WritersPersisted
  <2>. QED
    BY <2>1 DEF IndexedIsSearchable
<1>11. RequestsHaveDocs'
  BY RequestsKept
<1>. QED
  BY <1>2, <1>3, <1>7, <1>8, <1>9, <1>10, <1>11
     DEF IInv, QueueOK

-----------------------------------------------------------------------------
(* The steps of a worker at work. *)

\* A worker at work has a record of the right type, an existing job and the
\* document of that job.
LEMMA AtWork ==
  ASSUME IInv, NEW w \in Workers, ~At(w, "idle")
  PROVE  /\ wk[w] \in WorkerRec
         /\ wk[w].job \in Jobs
         /\ Exists(wk[w].job)
         /\ DocOf(w) \in Docs
BY DEF IInv, TypeOK, WorkersHaveJobs, RowsHaveDocs, DocOf

\* Changing the fields of one record of wk.
LEMMA WorkerUpdate ==
  ASSUME TypeOK, NEW w \in Workers, NEW r \in WorkerRec,
         wk' = [wk EXCEPT ![w] = r]
  PROVE  OnlyWorker(w) /\ wk'[w] = r
BY DEF TypeOK, OnlyWorker

\* A step that leaves the queue alone keeps its part of the invariant.
LEMMA QueueSame ==
  ASSUME IInv, UNCHANGED <<queueVars, persisted>>
  PROVE  QueueOK' /\ RowsKept /\ StageIsHonest'
<1>1. QueueOK' /\ RowsKept
  BY QueueUnchanged, SplitInv DEF queueVars
<1>. QED
  BY <1>1 DEF IInv, StageIsHonest, queueVars

\* Publishing a stage that the run of the worker has really reached.
LEMMA StatusHonest ==
  ASSUME IInv, NEW w \in Workers, ~At(w, "idle"), UNCHANGED persisted,
         NEW s \in JobStatus, s # "absent",
         s \in {"contextualize", "embed", "index", "done"} => PastPersist(w),
         SetStatusError(wk[w].job, s) \/ SetStatus(wk[w].job, s)
  PROVE  QueueOK' /\ RowsKept /\ StageIsHonest'
<1>1. QueueOK' /\ RowsKept
  BY SetStatusStep, SplitInv, AtWork
<1>2. CASE UNCHANGED queueVars
  BY <1>1, <1>2 DEF IInv, StageIsHonest, queueVars
<1>3. CASE SetStatus(wk[w].job, s)
  <2>. SUFFICES ASSUME NEW j \in Jobs,
                       jobs'[j].status \in
                         {"contextualize", "embed", "index", "done"}
                PROVE  persisted[jobs'[j].doc]
    BY <1>1 DEF StageIsHonest
  <2>1. jobs'[j].doc = jobs[j].doc
    BY <1>3 DEF IInv, TypeOK, QueueTypeOK, SetStatus, JobRow
  <2>2. CASE j = wk[w].job
    <3>1. jobs'[j].status = s
      BY <1>3, <2>2 DEF IInv, TypeOK, QueueTypeOK, SetStatus, JobRow
    <3>. QED
      BY <2>1, <2>2, <3>1 DEF IInv, WritersPersisted, DocOf
  <2>3. CASE j # wk[w].job
    <3>1. jobs'[j] = jobs[j]
      BY <1>3, <2>3 DEF IInv, TypeOK, QueueTypeOK, SetStatus
    <3>. QED
      BY <3>1 DEF IInv, StageIsHonest
  <2>. QED
    BY <2>2, <2>3
<1>. QED
  BY <1>1, <1>2, <1>3 DEF SetStatusError

\* The worker goes on at the same stage.
LEMMA GotoMove ==
  ASSUME IInv, NEW w \in Workers, ~At(w, "idle"),
         NEW pc \in WorkerPC \ {"idle", "announce"}, Goto(w, pc),
         QueueOK', RowsKept, StageIsHonest', BudgetOK,
         UNCHANGED <<req, persisted, unembedded>>, OwnDocument(w)
  PROVE  IInv'
<1> DEFINE r == [wk[w] EXCEPT !.pc = pc]
<1>1. wk[w] \in WorkerRec /\ wk[w].job \in Jobs /\ Exists(wk[w].job)
  BY AtWork
<1>2. r \in WorkerRec
  BY <1>1 DEF WorkerRec
<1>3. r.pc = pc /\ r.job = wk[w].job /\ r.stage = wk[w].stage
      /\ r.embedOk = wk[w].embedOk
  BY <1>1 DEF WorkerRec
<1>4. wk' = [wk EXCEPT ![w] = r]
  BY DEF Goto
<1>5. OnlyWorker(w) /\ wk'[w] = r
  BY <1>2, <1>4, WorkerUpdate DEF IInv
<1>6. WorkerFits(w)
  BY <1>1, <1>3, <1>5 DEF WorkerFits, RowsKept, Exists
<1>7. PastPersist(w)' <=> PastPersist(w)
  BY <1>3, <1>5 DEF PastPersist
<1>8. wk'[w].embedOk => PastPersist(w)' /\ wk[w].embedOk
  BY <1>3, <1>5, <1>7 DEF IInv, EmbeddedStays
<1>9. wk'[w].job = wk[w].job
  BY <1>3, <1>5
<1>. QED
  BY <1>5, <1>6, <1>7, <1>8, <1>9, WorkerMove


\* The worker goes on to stage s, which it does not reach past persist unless
\* it is there already; embed_ok may be set if no batch is left.
LEMMA StageMove ==
  ASSUME IInv, NEW w \in Workers, ~At(w, "idle"), NEW r \in WorkerRec,
         wk' = [wk EXCEPT ![w] = r],
         r.pc = "check", r.job = wk[w].job,
         r.stage \in {"contextualize", "embed", "index", "done"}
           <=> PastPersist(w),
         r.embedOk => wk[w].embedOk \/ (/\ PastPersist(w)
                                        /\ unembedded[DocOf(w)] = {}),
         QueueOK', RowsKept, StageIsHonest', BudgetOK,
         UNCHANGED <<req, persisted, unembedded>>, OwnDocument(w)
  PROVE  IInv'
<1>1. wk[w].job \in Jobs /\ Exists(wk[w].job)
  BY AtWork
<1>2. OnlyWorker(w) /\ wk'[w] = r
  BY WorkerUpdate DEF IInv
<1>3. WorkerFits(w)
  BY <1>1, <1>2 DEF WorkerFits, RowsKept, Exists
<1>4. PastPersist(w)' <=> PastPersist(w)
  BY <1>2 DEF PastPersist
<1>5. wk'[w].embedOk => /\ PastPersist(w)'
                        /\ wk[w].embedOk \/ unembedded[DocOf(w)] = {}
  BY <1>2, <1>4 DEF IInv, EmbeddedStays
<1>6. wk'[w].job = wk[w].job
  BY <1>2
<1>. QED
  BY <1>2, <1>3, <1>4, <1>5, <1>6, WorkerMove

\* stage(): the cancellation check and the published stage.
LEMMA StageSteps ==
  ASSUME IInv, NEW w \in Workers,
         \/ CheckCancelled(w) \/ CheckFails(w) \/ LoadFails(w)
         \/ PublishStage(w) \/ PublishStageFails(w)
  PROVE  IInv'
<1>1. ~At(w, "idle") /\ BudgetOK /\ UNCHANGED <<req, persisted, unembedded>>
      /\ OwnDocument(w)
  BY FaultBudget
     DEF IInv, CheckCancelled, CheckFails, LoadFails, PublishStage,
         PublishStageFails, At, AtStage, docVars, OwnDocument, budget
<1>2. wk[w] \in WorkerRec
  BY <1>1, AtWork
<1>3. CASE CheckCancelled(w) \/ CheckFails(w) \/ LoadFails(w)
  <2>1. QueueOK' /\ RowsKept /\ StageIsHonest'
    BY <1>1, <1>3, QueueSame DEF CheckCancelled, CheckFails, LoadFails
  <2>2. \E pc \in WorkerPC \ {"idle", "announce"} : Goto(w, pc)
    BY <1>3 DEF CheckCancelled, CheckFails, LoadFails, WorkerPC
  <2>. QED
    BY <1>1, <2>1, <2>2, GotoMove
<1>4. CASE PublishStage(w) \/ PublishStageFails(w)
  <2>1. wk[w].stage \in JobStatus /\ wk[w].stage # "absent"
    BY <1>2 DEF WorkerRec, JobStatus, Stages
  <2>2. QueueOK' /\ RowsKept /\ StageIsHonest'
    <3>1. SetStatusError(wk[w].job, wk[w].stage)
          \/ SetStatus(wk[w].job, wk[w].stage)
      BY <1>4 DEF PublishStage, PublishStageFails
    <3>. QED
      BY <1>1, <2>1, <3>1, StatusHonest DEF PastPersist
  <2>3. CASE PublishStage(w) /\ wk[w].stage = "embed"
    <3> DEFINE r == [wk[w] EXCEPT !.pc = "check", !.stage = "index"]
    <3>1. wk' = [wk EXCEPT ![w] = r]
      BY <2>3 DEF PublishStage, Enter
    <3>2. r \in WorkerRec
      BY <1>2 DEF WorkerRec, WorkerPC, Stages
    <3>3. /\ r.pc = "check" /\ r.job = wk[w].job /\ r.stage = "index"
          /\ r.embedOk = wk[w].embedOk
      BY <1>2 DEF WorkerRec
    <3>4. PastPersist(w)
      BY <2>3 DEF PastPersist
    <3>. HIDE DEF r
    <3>. QED
      BY <1>1, <2>2, <3>1, <3>2, <3>3, <3>4, StageMove
  <2>4. CASE \E pc \in WorkerPC \ {"idle", "announce"} : Goto(w, pc)
    BY <1>1, <2>2, <2>4, GotoMove
  <2>. QED
    BY <1>4, <2>3, <2>4 DEF PublishStage, PublishStageFails, WorkerPC
<1>. QED
  BY <1>3, <1>4

\* Fetching, parsing, and everything that can fail on the way to persist:
\* the error path is entered with the document and the queue untouched.
LEMMA ServiceSteps ==
  ASSUME IInv, NEW w \in Workers,
         \/ FetchOrParse(w) \/ ServiceFails(w) \/ PersistConflict(w)
         \/ PersistFails(w) \/ NoAutoChain(w) \/ RunKnowledge(w)
  PROVE  IInv'
<1>1. ~At(w, "idle") /\ BudgetOK /\ UNCHANGED <<req, persisted, unembedded>>
      /\ OwnDocument(w)
  BY FaultBudget
     DEF IInv, FetchOrParse, ServiceFails, PersistConflict, PersistFails,
         NoAutoChain, RunKnowledge, At, AtStage, docVars, OwnDocument, budget
<1>2. QueueOK' /\ RowsKept /\ StageIsHonest'
  BY <1>1, QueueSame
     DEF FetchOrParse, ServiceFails, PersistConflict, PersistFails,
         NoAutoChain, RunKnowledge
<1>3. CASE FetchOrParse(w)
  <2>1. PICK s \in {"parse", "chunk"} :
               Enter(w, s) /\ wk[w].stage \in {"extract", "parse"}
    BY <1>3 DEF FetchOrParse
  <2> DEFINE r == [wk[w] EXCEPT !.pc = "check", !.stage = s]
  <2>2. wk' = [wk EXCEPT ![w] = r]
    BY <2>1 DEF Enter
  <2>3. wk[w] \in WorkerRec
    BY <1>1, AtWork
  <2>4. r \in WorkerRec
    BY <2>3 DEF WorkerRec, WorkerPC, Stages
  <2>5. /\ r.pc = "check" /\ r.job = wk[w].job /\ r.stage = s
        /\ r.embedOk = wk[w].embedOk
    BY <2>3 DEF WorkerRec
  <2>6. ~PastPersist(w)
    BY <2>1 DEF PastPersist
  <2>. HIDE DEF r
  <2>. QED
    BY <1>1, <1>2, <2>2, <2>4, <2>5, <2>6, StageMove
<1>4. CASE ~FetchOrParse(w)
  <2>1. \E pc \in WorkerPC \ {"idle", "announce"} : Goto(w, pc)
    BY <1>4
       DEF ServiceFails, PersistConflict, PersistFails, NoAutoChain,
           RunKnowledge, WorkerPC
  <2>. QED
    BY <1>1, <1>2, <2>1, GotoMove
<1>. QED
  BY <1>3, <1>4


\* The error path of run_ingest.
LEMMA ErrorSteps ==
  ASSUME IInv, NEW w \in Workers,
         \/ MarkDocument(w) \/ MarkDocumentFails(w)
         \/ MarkJob(w) \/ MarkJobFails(w)
  PROVE  IInv'
<1>1. ~At(w, "idle") /\ BudgetOK /\ UNCHANGED <<req, persisted, unembedded>>
  BY FaultBudget
     DEF IInv, MarkDocument, MarkDocumentFails, MarkJob, MarkJobFails, At,
         docVars, budget
<1>2. OwnDocument(w)
  BY DEF MarkDocument, MarkDocumentFails, MarkJob, MarkJobFails, SetDoc,
         docVars, OwnDocument, DocStatus
<1>3. \E pc \in WorkerPC \ {"idle", "announce"} : Goto(w, pc)
  BY DEF MarkDocument, MarkDocumentFails, MarkJob, MarkJobFails, WorkerPC
<1>4. QueueOK' /\ RowsKept /\ StageIsHonest'
  <2>1. CASE MarkDocument(w) \/ MarkDocumentFails(w)
    BY <1>1, <2>1, QueueSame DEF MarkDocument, MarkDocumentFails
  <2>2. CASE MarkJob(w) \/ MarkJobFails(w)
    BY <1>1, <2>2, StatusHonest DEF MarkJob, MarkJobFails, JobStatus
  <2>. QED
    BY <2>1, <2>2
<1>. QED
  BY <1>1, <1>2, <1>3, <1>4, GotoMove

\* The end of embed_document: embed_ok is set only if no batch is left.
LEMMA EmbedSteps ==
  ASSUME IInv, NEW w \in Workers, EmbedDone(w) \/ EmbedFails(w)
  PROVE  IInv'
<1>1. ~At(w, "idle") /\ BudgetOK /\ UNCHANGED <<req, persisted, unembedded>>
      /\ OwnDocument(w) /\ PastPersist(w)
  BY FaultBudget
     DEF IInv, EmbedDone, EmbedFails, At, AtStage, docVars, OwnDocument, budget,
         PastPersist
<1>2. QueueOK' /\ RowsKept /\ StageIsHonest'
  BY <1>1, QueueSame DEF EmbedDone, EmbedFails
<1>3. wk[w] \in WorkerRec
  BY <1>1, AtWork
<1>4. PICK b \in BOOLEAN :
        /\ wk' = [wk EXCEPT ![w] = [wk[w] EXCEPT !.pc = "check",
                                      !.stage = "embed", !.embedOk = b]]
        /\ b => unembedded[DocOf(w)] = {}
  BY DEF EmbedDone, EmbedFails
<1> DEFINE r == [wk[w] EXCEPT !.pc = "check", !.stage = "embed", !.embedOk = b]
<1>5. r \in WorkerRec
  BY <1>3 DEF WorkerRec, WorkerPC, Stages
<1>6. /\ r.pc = "check" /\ r.job = wk[w].job /\ r.stage = "embed"
      /\ r.embedOk = b
  BY <1>3 DEF WorkerRec
<1>7. wk' = [wk EXCEPT ![w] = r] /\ (b => unembedded[DocOf(w)] = {})
  BY <1>4
<1>. HIDE DEF r
<1>. QED
  BY <1>1, <1>2, <1>5, <1>6, <1>7, StageMove

\* The final status of the document: indexed only after embed_ok.
LEMMA FinalSteps ==
  ASSUME IInv, NEW w \in Workers, SetFinalStatus(w) \/ SetFinalStatusFails(w)
  PROVE  IInv'
<1>1. ~At(w, "idle") /\ BudgetOK /\ UNCHANGED <<req, persisted, unembedded>>
      /\ PastPersist(w)
  BY FaultBudget
     DEF IInv, SetFinalStatus, SetFinalStatusFails, At, AtStage, docVars, budget,
         PastPersist
<1>2. QueueOK' /\ RowsKept /\ StageIsHonest'
  BY <1>1, QueueSame DEF SetFinalStatus, SetFinalStatusFails
<1>3. wk[w] \in WorkerRec
  BY <1>1, AtWork
<1>4. OwnDocument(w)
  <2>1. FinalStatus(w) \in DocStatus
        /\ (FinalStatus(w) = "indexed" => wk[w].embedOk)
    BY <1>3 DEF FinalStatus, DocStatus, WorkerRec
  <2>. QED
    BY <2>1 DEF SetFinalStatus, SetFinalStatusFails, SetDoc, OwnDocument
<1>5. CASE SetFinalStatus(w)
  <2> DEFINE r == [wk[w] EXCEPT !.pc = "check", !.stage = "done",
                                !.indexed = (FinalStatus(w) = "indexed")]
  <2>1. wk' = [wk EXCEPT ![w] = r]
    BY <1>5 DEF SetFinalStatus
  <2>2. r \in WorkerRec
    BY <1>3 DEF WorkerRec, WorkerPC, Stages
  <2>3. /\ r.pc = "check" /\ r.job = wk[w].job /\ r.stage = "done"
        /\ r.embedOk = wk[w].embedOk
    BY <1>3 DEF WorkerRec
  <2>. HIDE DEF r
  <2>. QED
    BY <1>1, <1>2, <1>4, <2>1, <2>2, <2>3, StageMove
<1>6. CASE SetFinalStatusFails(w)
  <2>1. Goto(w, "markdoc") /\ "markdoc" \in WorkerPC \ {"idle", "announce"}
    BY <1>6 DEF SetFinalStatusFails, WorkerPC
  <2>. QED
    BY <1>1, <1>2, <1>4, <2>1, GotoMove
<1>. QED
  BY <1>5, <1>6

\* A new row is queued, so it claims no stage.
LEMMA InsertHonest ==
  ASSUME IInv, NEW j \in Jobs, NEW k \in Kinds, NEW d \in Docs,
         InsertRow(j, k, d), UNCHANGED persisted
  PROVE  StageIsHonest'
<1>1. \A i \in Jobs : jobs'[i] = jobs[i] \/ jobs'[i].status = "queued"
  BY DEF IInv, TypeOK, QueueTypeOK, InsertRow
<1>. QED
  BY <1>1 DEF IInv, StageIsHonest

\* The auto-chain: the row of the knowledge job, then its entry.
LEMMA AutoChainSteps ==
  ASSUME IInv, NEW w \in Workers,
         AutoChainRow(w) \/ AutoChainAnnounce(w) \/ AutoChainFails(w)
  PROVE  IInv'
<1>1. ~At(w, "idle") /\ BudgetOK /\ UNCHANGED <<req, persisted, unembedded>>
      /\ OwnDocument(w)
  BY FaultBudget
     DEF IInv, AutoChainRow, AutoChainAnnounce, AutoChainFails, At, AtStage,
         docVars, OwnDocument, budget
<1>2. /\ wk[w] \in WorkerRec /\ wk[w].job \in Jobs /\ Exists(wk[w].job)
      /\ DocOf(w) \in Docs
  BY <1>1, AtWork
<1>3. CASE AutoChainRow(w)
  <2>1. PICK j \in Jobs :
          /\ InsertRow(j, "knowledge_build", DocOf(w))
          /\ wk' = [wk EXCEPT ![w] = [wk[w] EXCEPT !.pc = "announce",
                                                   !.next = j]]
    BY <1>3 DEF AutoChainRow
  <2>2. QueueOK' /\ RowsKept /\ Exists(j)' /\ StageIsHonest'
    BY <1>1, <1>2, <2>1, InsertRowStep, InsertHonest, SplitInv DEF Kinds
  <2> DEFINE r == [wk[w] EXCEPT !.pc = "announce", !.next = j]
  <2>3. r \in WorkerRec
    BY <1>2 DEF WorkerRec, WorkerPC
  <2>4. /\ r.pc = "announce" /\ r.job = wk[w].job /\ r.stage = wk[w].stage
        /\ r.embedOk = wk[w].embedOk /\ r.next = j
    BY <1>2 DEF WorkerRec
  <2>5. wk' = [wk EXCEPT ![w] = r]
    BY <2>1
  <2>. HIDE DEF r
  <2>6. OnlyWorker(w) /\ wk'[w] = r
    BY <2>3, <2>5, WorkerUpdate DEF IInv
  <2>7. WorkerFits(w)
    BY <1>2, <2>2, <2>4, <2>6 DEF WorkerFits, RowsKept, Exists
  <2>8. PastPersist(w)' <=> PastPersist(w)
    BY <2>4, <2>6 DEF PastPersist
  <2>9. wk'[w].embedOk => PastPersist(w)' /\ wk[w].embedOk
    BY <2>4, <2>6, <2>8 DEF IInv, EmbeddedStays
  <2>10. wk'[w].job = wk[w].job
    BY <2>4, <2>6
  <2>. QED
    BY <1>1, <2>2, <2>6, <2>7, <2>8, <2>9, <2>10, WorkerMove
<1>4. CASE AutoChainAnnounce(w) \/ AutoChainFails(w)
  <2>1. wk[w].next \in Jobs /\ Exists(wk[w].next)
    BY <1>4
       DEF IInv, WorkersHaveJobs, AutoChainAnnounce, AutoChainFails, At
  <2>2. QueueOK' /\ RowsKept
    BY <1>4, <2>1, XaddStep, SplitInv DEF AutoChainAnnounce, AutoChainFails
  <2>3. StageIsHonest'
    BY <1>1, <1>4
       DEF IInv, StageIsHonest, AutoChainAnnounce, AutoChainFails, Xadd,
           XaddError
  <2> DEFINE r == [wk[w] EXCEPT !.pc = "ack", !.next = NoJob]
  <2>4. r \in WorkerRec
    BY <1>2 DEF WorkerRec, WorkerPC
  <2>5. /\ r.pc = "ack" /\ r.job = wk[w].job /\ r.stage = wk[w].stage
        /\ r.embedOk = wk[w].embedOk
    BY <1>2 DEF WorkerRec
  <2>6. wk' = [wk EXCEPT ![w] = r]
    BY <1>4 DEF AutoChainAnnounce, AutoChainFails
  <2>. HIDE DEF r
  <2>7. OnlyWorker(w) /\ wk'[w] = r
    BY <2>4, <2>6, WorkerUpdate DEF IInv
  <2>8. WorkerFits(w)
    BY <1>2, <2>2, <2>5, <2>7 DEF WorkerFits, RowsKept, Exists
  <2>9. PastPersist(w)' <=> PastPersist(w)
    BY <2>5, <2>7 DEF PastPersist
  <2>10. wk'[w].embedOk => PastPersist(w)' /\ wk[w].embedOk
    BY <2>5, <2>7, <2>9 DEF IInv, EmbeddedStays
  <2>11. wk'[w].job = wk[w].job
    BY <2>5, <2>7
  <2>. QED
    BY <1>1, <2>2, <2>3, <2>7, <2>8, <2>9, <2>10, <2>11, WorkerMove
<1>. QED
  BY <1>3, <1>4

\* Taking up a job or laying it down: the worker holds nothing past persist.
LEMMA FreshMove ==
  ASSUME IInv, NEW w \in Workers, NEW r \in WorkerRec,
         wk' = [wk EXCEPT ![w] = r],
         r.stage = "extract", ~r.embedOk, WorkerFits(w),
         QueueOK', RowsKept, StageIsHonest', BudgetOK,
         UNCHANGED <<req, doc, persisted, unembedded>>
  PROVE  IInv'
<1>1. OnlyWorker(w) /\ wk'[w] = r
  BY WorkerUpdate DEF IInv
<1>2. ~PastPersist(w)' /\ ~wk'[w].embedOk
  BY <1>1 DEF PastPersist
<1>. QED
  BY <1>1, <1>2, WorkerMove DEF OwnDocument

LEMMA DropSteps ==
  ASSUME IInv, NEW w \in Workers, Ack(w) \/ AckFails(w) \/ WorkerCrash(w)
  PROVE  IInv'
<1>1. /\ ~At(w, "idle") /\ BudgetOK
      /\ UNCHANGED <<req, doc, persisted, unembedded>>
      /\ wk' = [wk EXCEPT ![w] = IdleWorker]
  BY FaultBudget
     DEF IInv, Ack, AckFails, WorkerCrash, At, docVars, budget
<1>2. IdleWorker \in WorkerRec /\ IdleWorker.stage = "extract"
      /\ IdleWorker.embedOk = FALSE
  BY DEF IdleWorker, WorkerRec, WorkerPC, Stages
<1>3. WorkerFits(w)
  BY <1>1 DEF IInv, TypeOK, WorkerFits, IdleWorker
<1>4. QueueOK' /\ RowsKept /\ StageIsHonest'
  <2>1. CASE WorkerCrash(w)
    BY <1>1, <2>1, QueueSame DEF WorkerCrash
  <2>2. CASE Ack(w) \/ AckFails(w)
    <3>1. QueueOK' /\ RowsKept
      BY <1>1, <2>2, AtWork, XackStep, SplitInv DEF Ack, AckFails
    <3>2. UNCHANGED jobs
      BY <2>2 DEF Ack, AckFails, Xack, XackError, queueVars
    <3>. QED
      BY <1>1, <3>1, <3>2 DEF IInv, StageIsHonest
  <2>. QED
    BY <2>1, <2>2
<1>. QED
  BY <1>1, <1>2, <1>3, <1>4, FreshMove

LEMMA TakeSteps ==
  ASSUME IInv, NEW w \in Workers, NextJob(w) \/ ClaimStale(w)
  PROVE  IInv'
<1>1. PICK j \in Jobs : (ReadNext(j) \/ Reclaim(j)) /\ Begin(w, j)
  BY DEF NextJob, ClaimStale
<1>2. UNCHANGED <<req, doc, persisted, unembedded>> /\ BudgetOK
  BY FaultBudget DEF IInv, NextJob, ClaimStale, docVars, budget
<1>3. QueueOK' /\ RowsKept /\ Exists(j)
  <2>1. CASE ReadNext(j)
    BY <2>1, ReadNextStep, SplitInv
  <2>2. CASE Reclaim(j)
    BY <2>2, QueueUnchanged, SplitInv DEF Reclaim, IInv, EntriesHaveRows
  <2>. QED
    BY <1>1, <2>1, <2>2
<1>4. StageIsHonest'
  BY <1>1, <1>2 DEF IInv, StageIsHonest, ReadNext, Reclaim, queueVars
<1>5. PICK pc \in {"check", "knowledge"} :
        wk' = [wk EXCEPT ![w] = [IdleWorker EXCEPT !.job = j, !.pc = pc]]
  BY <1>1 DEF Begin
<1> DEFINE r == [IdleWorker EXCEPT !.job = j, !.pc = pc]
<1>6. r \in WorkerRec
  BY DEF IdleWorker, WorkerRec, WorkerPC, Stages
<1>7. r.pc = pc /\ r.job = j /\ r.stage = "extract" /\ ~r.embedOk
  BY DEF IdleWorker
<1>. HIDE DEF r
<1>8. wk' = [wk EXCEPT ![w] = r]
  BY <1>5 DEF r
<1>9. wk'[w] = r
  BY <1>6, <1>8, WorkerUpdate DEF IInv
<1>10. WorkerFits(w)
  BY <1>3, <1>7, <1>9 DEF WorkerFits, RowsKept, Exists
<1>. QED
  BY <1>2, <1>3, <1>4, <1>6, <1>7, <1>8, <1>10, FreshMove


-----------------------------------------------------------------------------
(* The steps that write pages and batches. *)

\* persist: the unique key keeps every other run of the document out, and the
\* document it writes cannot be shown as indexed before.
LEMMA PersistStep ==
  ASSUME IInv, NEW w \in Workers, Persist(w) \/ PersistLost(w)
  PROVE  IInv'
<1> DEFINE d == DocOf(w)
<1>1. /\ ~At(w, "idle") /\ UNCHANGED <<queueVars, req, doc>> /\ BudgetOK
      /\ wk[w].stage = "chunk" /\ ~persisted[d]
      /\ persisted' = [persisted EXCEPT ![d] = TRUE]
  BY FaultBudget DEF IInv, Persist, PersistLost, At, AtStage, budget
<1>2. /\ wk[w] \in WorkerRec /\ wk[w].job \in Jobs /\ Exists(wk[w].job)
      /\ d \in Docs
  BY <1>1, AtWork
<1>3. \E cs \in SUBSET Chunks, r \in WorkerRec :
        /\ unembedded' = [unembedded EXCEPT ![d] = cs]
        /\ wk' = [wk EXCEPT ![w] = r]
        /\ r.pc \in {"check", "markdoc"}
        /\ r.job = wk[w].job
        /\ r.embedOk = wk[w].embedOk
  <2>1. CASE Persist(w)
    <3>1. PICK cs \in SUBSET Chunks, b \in BOOLEAN :
            /\ unembedded' = [unembedded EXCEPT ![d] = cs]
            /\ wk' = [wk EXCEPT ![w] = [wk[w] EXCEPT !.pc = "check",
                               !.stage = "contextualize", !.review = b]]
      BY <2>1 DEF Persist
    <3> DEFINE r == [wk[w] EXCEPT !.pc = "check", !.stage = "contextualize",
                                  !.review = b]
    <3>2. r \in WorkerRec
      BY <1>2 DEF WorkerRec, WorkerPC, Stages
    <3>3. r.pc = "check" /\ r.job = wk[w].job /\ r.embedOk = wk[w].embedOk
      BY <1>2 DEF WorkerRec
    <3>. QED
      BY <3>1, <3>2, <3>3
  <2>2. CASE PersistLost(w)
    <3>1. PICK cs \in SUBSET Chunks :
            unembedded' = [unembedded EXCEPT ![d] = cs]
      BY <2>2 DEF PersistLost
    <3> DEFINE r == [wk[w] EXCEPT !.pc = "markdoc"]
    <3>2. r \in WorkerRec
      BY <1>2 DEF WorkerRec, WorkerPC
    <3>3. r.pc = "markdoc" /\ r.job = wk[w].job /\ r.embedOk = wk[w].embedOk
      BY <1>2 DEF WorkerRec
    <3>4. wk' = [wk EXCEPT ![w] = r]
      BY <2>2 DEF PersistLost, Goto
    <3>. QED
      BY <3>1, <3>2, <3>3, <3>4
  <2>. QED
    BY <2>1, <2>2
<1>4. PICK cs \in SUBSET Chunks, r \in WorkerRec :
        /\ unembedded' = [unembedded EXCEPT ![d] = cs]
        /\ wk' = [wk EXCEPT ![w] = r]
        /\ r.pc \in {"check", "markdoc"}
        /\ r.job = wk[w].job
        /\ r.embedOk = wk[w].embedOk
  BY <1>3
<1>5. OnlyWorker(w) /\ wk'[w] = r
  BY <1>4, WorkerUpdate DEF IInv
<1>6. QueueOK' /\ RowsKept
  BY <1>1, QueueUnchanged, SplitInv
<1>7. /\ persisted' \in [Docs -> BOOLEAN]
      /\ persisted'[d] /\ \A e \in Docs : e # d => persisted'[e] = persisted[e]
  BY <1>1, <1>2 DEF IInv, TypeOK
<1>8. /\ unembedded' \in [Docs -> SUBSET Chunks]
       /\ \A e \in Docs : e # d => unembedded'[e] = unembedded[e]
  BY <1>2, <1>4 DEF IInv, TypeOK
<1>9. TypeOK'
  BY <1>1, <1>5, <1>6, <1>7, <1>8 DEF IInv, TypeOK, QueueOK, OnlyWorker, BudgetOK
<1>10. WorkersHaveJobs'
  BY <1>1, <1>2, <1>4, <1>5
     DEF IInv, WorkersHaveJobs, OnlyWorker, At, Exists, queueVars
<1>11. RequestsHaveDocs'
  BY <1>1, <1>6, RequestsKept DEF IInv
<1>12. \A v \in Workers : DocOf(v)' = DocOf(v)
  BY <1>1, <1>4, <1>5 DEF DocOf, OnlyWorker, queueVars
<1>13. ASSUME NEW v \in Workers, v # w, PastPersist(v)'
       PROVE  PastPersist(v) /\ DocOf(v) \in Docs /\ DocOf(v) # d
  <2>1. PastPersist(v) /\ persisted[DocOf(v)]
    BY <1>5, <1>13 DEF IInv, PastPersist, OnlyWorker, WritersPersisted
  <2>2. DocOf(v) \in Docs
    BY <2>1, AtWork DEF IInv, WorkersHaveJobs, IdleWorker, PastPersist
  <2>. QED
    BY <1>1, <2>1, <2>2
<1>14. WritersPersisted'
  <2>1. ASSUME NEW v \in Workers, PastPersist(v)'
        PROVE  persisted'[DocOf(v)]
    <3>1. CASE v = w
      BY <1>7, <3>1
    <3>2. CASE v # w
      BY <1>7, <1>13, <2>1, <3>2 DEF IInv, WritersPersisted
    <3>. QED
      BY <3>1, <3>2
  <2>. QED
    BY <1>12, <2>1 DEF WritersPersisted
<1>15. OneWriter'
  <2>1. ASSUME NEW u \in Workers, NEW v \in Workers,
               PastPersist(u)', PastPersist(v)', DocOf(u) = DocOf(v)
        PROVE  u = v
    BY <1>13, <2>1 DEF IInv, OneWriter
  <2>. QED
    BY <1>12, <2>1 DEF OneWriter
<1>16. EmbeddedStays'
  <2>1. ASSUME NEW v \in Workers, wk'[v].embedOk
        PROVE  PastPersist(v)' /\ unembedded'[DocOf(v)] = {}
    <3>1. v # w
      BY <1>1, <1>4, <1>5, <2>1 DEF IInv, EmbeddedStays, PastPersist
    <3>2. PastPersist(v)' /\ unembedded[DocOf(v)] = {}
      BY <1>5, <2>1, <3>1 DEF IInv, EmbeddedStays, PastPersist, OnlyWorker
    <3>. QED
      BY <1>8, <1>13, <3>1, <3>2
  <2>. QED
    BY <1>12, <2>1 DEF EmbeddedStays
<1>17. IndexedIsSearchable'
  BY <1>1, <1>7, <1>8 DEF IInv, IndexedIsSearchable
<1>18. StageIsHonest'
  BY <1>1, <1>2, <1>7 DEF IInv, StageIsHonest, queueVars
<1>. QED
  BY <1>6, <1>9, <1>10, <1>11, <1>14, <1>15, <1>16, <1>17, <1>18
     DEF IInv, QueueOK

\* embed_document and reindex_unembedded: batches only ever leave the set.
LEMMA BatchSteps ==
  ASSUME IInv,
         \/ \E w \in Workers : EmbedBatch(w)
         \/ \E d \in Docs : Reindex(d)
  PROVE  IInv'
<1>1. UNCHANGED <<queueVars, doc, persisted, wk, req, faults, crashes>>
  BY DEF EmbedBatch, Reindex, budget
<1>2. /\ unembedded' \in [Docs -> SUBSET Chunks]
      /\ \A d \in Docs : unembedded'[d] \subseteq unembedded[d]
  <2>1. CASE \E d \in Docs : Reindex(d)
    BY <2>1 DEF IInv, TypeOK, Reindex
  <2>2. CASE \E w \in Workers : EmbedBatch(w)
    <3>1. PICK w \in Workers : EmbedBatch(w)
      BY <2>2
    <3>2. DocOf(w) \in Docs
      BY <3>1, AtWork DEF EmbedBatch, AtStage, At
    <3>. QED
      BY <3>1, <3>2 DEF IInv, TypeOK, EmbedBatch
  <2>. QED
    BY <2>1, <2>2
<1>3. QueueOK' /\ RowsKept
  BY <1>1, QueueUnchanged, SplitInv
<1>4. TypeOK' /\ RequestsHaveDocs'
  BY <1>1, <1>2, <1>3, RequestsKept DEF IInv, TypeOK, QueueOK
<1>5. \A v \in Workers : /\ DocOf(v)' = DocOf(v)
                         /\ PastPersist(v)' = PastPersist(v)
  BY <1>1 DEF DocOf, PastPersist, queueVars
<1>6. WorkersHaveJobs'
  BY <1>1 DEF IInv, WorkersHaveJobs, At, Exists, queueVars
<1>7. WritersPersisted' /\ OneWriter'
  BY <1>1, <1>5 DEF IInv, WritersPersisted, OneWriter
<1>8. EmbeddedStays'
  <2>1. ASSUME NEW v \in Workers, wk[v].embedOk
        PROVE  PastPersist(v) /\ unembedded'[DocOf(v)] = {}
    <3>1. PastPersist(v) /\ unembedded[DocOf(v)] = {}
      BY <2>1 DEF IInv, EmbeddedStays
    <3>2. DocOf(v) \in Docs
      BY <3>1, AtWork DEF IInv, WorkersHaveJobs, IdleWorker, PastPersist
    <3>. QED
      BY <1>2, <3>1, <3>2
  <2>. QED
    BY <1>1, <1>5, <2>1 DEF EmbeddedStays
<1>9. IndexedIsSearchable' /\ StageIsHonest'
  BY <1>1, <1>2 DEF IInv, IndexedIsSearchable, StageIsHonest, queueVars
<1>. QED
  BY <1>3, <1>4, <1>6, <1>7, <1>8, <1>9 DEF IInv, QueueOK


-----------------------------------------------------------------------------
(* The steps of the API handlers. *)

\* No handler ever writes `indexed`, or pages, or batches.
HandlerDocument ==
  \/ UNCHANGED doc
  \/ \E d \in Docs, s \in DocStatus \ {"indexed"} :
       doc' = [doc EXCEPT ![d] = s]

\* The record handler r has after the step fits the rows there are then.
HandlerFits(r) ==
  /\ req' \in [Requests -> RequestRec]
  /\ \A q \in Requests : q # r => req'[q] = req[q]
  /\ req'[r].pc # "idle" => req'[r].doc \in Docs
  /\ req'[r].pc \in {"announce", "cancelling"} =>
       req'[r].job \in Jobs /\ jobs'[req'[r].job].status # "absent"

LEMMA HandlerMove ==
  ASSUME IInv, NEW r \in Requests, HandlerFits(r), HandlerDocument,
         QueueOK', RowsKept, StageIsHonest', BudgetOK,
         UNCHANGED <<wk, persisted, unembedded>>
  PROVE  IInv'
<1>1. /\ doc' \in [Docs -> DocStatus]
      /\ \A d \in Docs : doc'[d] = "indexed" => doc[d] = "indexed"
  BY DEF IInv, TypeOK, HandlerDocument
<1>2. TypeOK'
  BY <1>1 DEF IInv, TypeOK, QueueOK, BudgetOK, HandlerFits
<1>3. \A v \in Workers : PastPersist(v)' = PastPersist(v)
  BY DEF PastPersist
<1>4. \A v \in Workers : PastPersist(v) => DocOf(v)' = DocOf(v)
  BY DEF IInv, WorkersHaveJobs, IdleWorker, PastPersist, DocOf, RowsKept
<1>5. WorkersHaveJobs'
  BY DEF IInv, WorkersHaveJobs, At, RowsKept, Exists
<1>6. RequestsHaveDocs'
  <2>1. ASSUME NEW q \in Requests, q # r
        PROVE  /\ req'[q].pc # "idle" => req'[q].doc \in Docs
               /\ req'[q].pc \in {"announce", "cancelling"} =>
                    req'[q].job \in Jobs /\ jobs'[req'[q].job].status # "absent"
    <3>1. req'[q] = req[q]
      BY <2>1 DEF HandlerFits
    <3>. QED
      BY <3>1 DEF IInv, RequestsHaveDocs, RowsKept, Exists
  <2>. QED
    BY <2>1 DEF RequestsHaveDocs, HandlerFits, Exists
<1>7. WritersPersisted' /\ OneWriter'
  BY <1>3, <1>4 DEF IInv, WritersPersisted, OneWriter
<1>8. EmbeddedStays'
  BY <1>3, <1>4 DEF IInv, EmbeddedStays
<1>9. IndexedIsSearchable'
  BY <1>1 DEF IInv, IndexedIsSearchable
<1>. QED
  BY <1>2, <1>5, <1>6, <1>7, <1>8, <1>9 DEF IInv, QueueOK

\* The handler ends.
LEMMA HandlerDone ==
  ASSUME IInv, NEW r \in Requests, ReqDone(r)
  PROVE  HandlerFits(r)
<1>1. IdleRequest \in RequestRec /\ IdleRequest.pc = "idle"
  BY DEF IdleRequest, RequestRec, RequestPC
<1>2. req' = [req EXCEPT ![r] = IdleRequest]
  BY DEF ReqDone
<1>. QED
  BY <1>1, <1>2 DEF IInv, TypeOK, HandlerFits

\* The handler holds a document and, where it needs one, an existing job.
LEMMA HandlerAt ==
  ASSUME IInv, NEW r \in Requests, NEW q \in RequestRec,
         req' = [req EXCEPT ![r] = q], q.doc \in Docs,
         q.pc \in {"announce", "cancelling"} =>
           q.job \in Jobs /\ jobs'[q.job].status # "absent"
  PROVE  HandlerFits(r)
<1>1. req'[r] = q
  BY DEF IInv, TypeOK
<1>. QED
  BY <1>1 DEF IInv, TypeOK, HandlerFits

\* The handler goes on to one of the steps that need no job.
LEMMA HandlerGoto ==
  ASSUME IInv, NEW r \in Requests, req[r].doc \in Docs,
         NEW pc \in {"enqueue", "markfailed"}, ReqGoto(r, pc)
  PROVE  HandlerFits(r)
<1> DEFINE q == [req[r] EXCEPT !.pc = pc]
<1>1. req[r] \in RequestRec
  BY DEF IInv, TypeOK
<1>2. q \in RequestRec
  BY <1>1 DEF RequestRec, RequestPC
<1>3. q.doc = req[r].doc /\ q.pc = pc
  BY <1>1 DEF RequestRec
<1>4. req' = [req EXCEPT ![r] = q]
  BY DEF ReqGoto
<1>. HIDE DEF q
<1>. QED
  BY <1>2, <1>3, <1>4, HandlerAt

\* Starting a request.
LEMMA StartSteps ==
  ASSUME IInv, NEW r \in Requests, RequestStart(r)
  PROVE  IInv'
<1>1. UNCHANGED <<queueVars, wk, persisted, unembedded, budget>>
  BY DEF RequestStart, InsertDocument, Retry, CancelRead, docVars
<1>2. QueueOK' /\ RowsKept /\ StageIsHonest' /\ BudgetOK
  BY <1>1, QueueSame, FaultBudget DEF IInv
<1>3. \A j \in Jobs : Exists(j) => jobs[j].doc \in Docs
  BY DEF IInv, RowsHaveDocs
<1>4. HandlerDocument
  BY <1>3
     DEF RequestStart, InsertDocument, Retry, CancelRead, docVars, SetDoc,
         HandlerDocument, DocStatus
<1>5. PICK d \in Docs, j \in Jobs \cup {NoJob}, b \in BOOLEAN,
           pc \in {"created", "enqueue", "cancelling"} :
        /\ req' = [req EXCEPT ![r] = [pc |-> pc, doc |-> d, job |-> j,
                                      creates |-> b]]
        /\ pc = "cancelling" => j \in Jobs /\ Exists(j)
  BY <1>3 DEF RequestStart, InsertDocument, Retry, CancelRead
<1> DEFINE q == [pc |-> pc, doc |-> d, job |-> j, creates |-> b]
<1>6. q \in RequestRec
  BY DEF RequestRec, RequestPC
<1>7. q.doc \in Docs /\ q.pc = pc /\ q.job = j
  OBVIOUS
<1>8. req' = [req EXCEPT ![r] = q]
  BY <1>5
<1>9. pc = "cancelling" => j \in Jobs /\ jobs'[j].status # "absent"
  BY <1>1, <1>5 DEF Exists, queueVars
<1>. HIDE DEF q
<1>10. HandlerFits(r)
  BY <1>6, <1>7, <1>8, <1>9, HandlerAt
<1>. QED
  BY <1>1, <1>2, <1>4, <1>10, HandlerMove

\* enqueue: the row is inserted, and the handler keeps its id or gives up.
LEMMA EnqueueRowSteps ==
  ASSUME IInv, NEW r \in Requests, EnqueueRow(r) \/ EnqueueRowFails(r)
  PROVE  IInv'
<1>1. /\ UNCHANGED <<wk, doc, persisted, unembedded>> /\ BudgetOK
      /\ HandlerDocument
  BY FaultBudget
     DEF IInv, EnqueueRow, EnqueueRowFails, docVars, HandlerDocument
<1>2. req[r] \in RequestRec /\ req[r].doc \in Docs
  BY DEF IInv, TypeOK, RequestsHaveDocs, EnqueueRow, EnqueueRowFails
<1>3. ASSUME NEW j \in Jobs, InsertRow(j, "ingest", req[r].doc)
      PROVE  QueueOK' /\ RowsKept /\ Exists(j)' /\ StageIsHonest'
  BY <1>1, <1>2, <1>3, InsertRowStep, InsertHonest, SplitInv DEF Kinds
<1>4. CASE EnqueueRow(r)
  <2>1. PICK j \in Jobs :
          /\ InsertRow(j, "ingest", req[r].doc)
          /\ req' = [req EXCEPT ![r] = [req[r] EXCEPT !.pc = "announce",
                                                      !.job = j]]
    BY <1>4 DEF EnqueueRow
  <2> DEFINE q == [req[r] EXCEPT !.pc = "announce", !.job = j]
  <2>2. q \in RequestRec
    BY <1>2 DEF RequestRec, RequestPC
  <2>3. q.doc = req[r].doc /\ q.job = j
    BY <1>2 DEF RequestRec
  <2>4. req' = [req EXCEPT ![r] = q]
    BY <2>1
  <2>. HIDE DEF q
  <2>5. HandlerFits(r)
    BY <1>2, <1>3, <2>1, <2>2, <2>3, <2>4, HandlerAt DEF Exists
  <2>. QED
    BY <1>1, <1>3, <2>1, <2>5, HandlerMove
<1>5. CASE EnqueueRowFails(r)
  <2>1. HandlerFits(r)
    BY <1>2, <1>5, HandlerGoto, HandlerDone DEF EnqueueRowFails, EnqueueError
  <2>2. CASE UNCHANGED jobs
    <3>1. UNCHANGED queueVars
      BY <1>5, <2>2 DEF EnqueueRowFails, queueVars
    <3>. QED
      BY <1>1, <2>1, <3>1, QueueSame, HandlerMove
  <2>3. CASE \E j \in Jobs : InsertRow(j, "ingest", req[r].doc)
    BY <1>1, <1>3, <2>1, <2>3, HandlerMove
  <2>. QED
    BY <1>5, <2>2, <2>3 DEF EnqueueRowFails
<1>. QED
  BY <1>4, <1>5

\* enqueue: the entry is added, or an error comes back.
LEMMA AnnounceSteps ==
  ASSUME IInv, NEW r \in Requests, Announce(r) \/ AnnounceFails(r)
  PROVE  IInv'
<1>1. /\ UNCHANGED <<wk, doc, persisted, unembedded>> /\ BudgetOK
      /\ HandlerDocument
  BY FaultBudget
     DEF IInv, Announce, AnnounceFails, docVars, HandlerDocument
<1>2. /\ req[r].doc \in Docs /\ req[r].job \in Jobs /\ Exists(req[r].job)
  BY DEF IInv, RequestsHaveDocs, Announce, AnnounceFails
<1>3. HandlerFits(r)
  BY <1>2, HandlerGoto, HandlerDone DEF Announce, AnnounceFails, EnqueueError
<1>4. QueueOK' /\ RowsKept
  BY <1>2, XaddStep, SplitInv DEF Announce, AnnounceFails
<1>5. StageIsHonest'
  BY <1>1
     DEF IInv, StageIsHonest, Announce, AnnounceFails, Xadd, XaddError
<1>. QED
  BY <1>1, <1>3, <1>4, <1>5, HandlerMove

\* cancel_job commits: the row is cancelled, its document failed.
LEMMA CancelCommitStep ==
  ASSUME IInv, NEW r \in Requests, CancelCommit(r)
  PROVE  IInv'
<1>1. /\ UNCHANGED <<wk, persisted, unembedded>> /\ BudgetOK
      /\ HandlerFits(r)
  BY FaultBudget, HandlerDone DEF IInv, CancelCommit
<1>2. /\ req[r].doc \in Docs /\ req[r].job \in Jobs /\ Exists(req[r].job)
  BY DEF IInv, RequestsHaveDocs, CancelCommit
<1>3. HandlerDocument
  BY <1>2 DEF CancelCommit, SetDoc, HandlerDocument, DocStatus
<1>4. QueueOK' /\ RowsKept
  BY <1>2, SetStatusStep, SplitInv DEF CancelCommit, JobStatus
<1>5. StageIsHonest'
  <2>1. \A j \in Jobs : jobs'[j] = jobs[j] \/ jobs'[j].status = "cancelled"
    BY DEF CancelCommit, IInv, TypeOK, QueueTypeOK, SetStatus, JobRow
  <2>. QED
    BY <1>1, <2>1 DEF IInv, StageIsHonest
<1>. QED
  BY <1>1, <1>3, <1>4, <1>5, HandlerMove

\* The rest of create_document and cancel_job: only the document changes.
LEMMA DocumentSteps ==
  ASSUME IInv, NEW r \in Requests,
         \/ FlipToProcessing(r) \/ FlipFails(r) \/ MarkFailed(r)
         \/ MarkFailedFails(r) \/ CancelFails(r) \/ RequestCrash(r)
  PROVE  IInv'
<1>1. UNCHANGED <<queueVars, wk, persisted, unembedded>> /\ BudgetOK
  BY FaultBudget
     DEF IInv, FlipToProcessing, FlipFails, MarkFailed, MarkFailedFails,
         CancelFails, RequestCrash, docVars
<1>2. req[r].doc \in Docs
  BY DEF IInv, RequestsHaveDocs, FlipToProcessing, FlipFails, MarkFailed,
         MarkFailedFails, CancelFails, RequestCrash
<1>3. HandlerDocument
  BY <1>2
     DEF FlipToProcessing, FlipFails, MarkFailed, MarkFailedFails, CancelFails,
         RequestCrash, docVars, SetDoc, HandlerDocument, DocStatus
<1>4. HandlerFits(r)
  BY <1>2, HandlerGoto, HandlerDone
     DEF FlipToProcessing, FlipFails, MarkFailed, MarkFailedFails, CancelFails,
         RequestCrash
<1>. QED
  BY <1>1, <1>3, <1>4, QueueSame, HandlerMove


-----------------------------------------------------------------------------
(* The inductive invariant and what follows from it. *)

\* Nothing exists yet, and nobody is at work.
LEMMA InitInv == Init => IInv
<1>. SUFFICES ASSUME Init PROVE IInv
  OBVIOUS
<1>1. NoRow \in JobRow /\ NoRow.status = "absent"
  BY DEF NoRow, JobRow, JobStatus
<1>2. jobs \in [Jobs -> JobRow] /\ \A j \in Jobs : jobs[j] = NoRow
  BY <1>1 DEF Init, QueueInit
<1>3. stream = <<>> /\ pel = {} /\ acked = {}
  BY DEF Init, QueueInit
<1>4. stream \in Seq(Jobs) /\ DOMAIN stream = {}
  BY <1>3
<1>5. QueueTypeOK
  BY <1>2, <1>3, <1>4 DEF QueueTypeOK
<1>6. IdleWorker \in WorkerRec /\ IdleWorker.pc = "idle"
      /\ IdleWorker.stage = "extract" /\ IdleWorker.embedOk = FALSE
  BY DEF IdleWorker, WorkerRec, WorkerPC, Stages
<1>7. wk \in [Workers -> WorkerRec] /\ \A w \in Workers : wk[w] = IdleWorker
  BY <1>6 DEF Init
<1>8. IdleRequest \in RequestRec /\ IdleRequest.pc = "idle"
  BY DEF IdleRequest, RequestRec, RequestPC
<1>9. req \in [Requests -> RequestRec] /\ \A r \in Requests : req[r] = IdleRequest
  BY <1>8 DEF Init
<1>10. /\ doc \in [Docs -> DocStatus]
       /\ persisted \in [Docs -> BOOLEAN]
       /\ unembedded \in [Docs -> SUBSET Chunks]
       /\ faults \in 0 .. MaxFaults /\ crashes \in 0 .. MaxCrashes
  BY BoundsAssumption DEF Init, DocStatus
<1>11. TypeOK
  BY <1>5, <1>7, <1>9, <1>10 DEF TypeOK
<1>12. RowsHaveDocs /\ EntriesHaveRows /\ StageIsHonest
  BY <1>1, <1>2, <1>3, <1>4
     DEF RowsHaveDocs, EntriesHaveRows, StageIsHonest, Exists
<1>13. WorkersHaveJobs /\ RequestsHaveDocs
  BY <1>6, <1>7, <1>8, <1>9 DEF WorkersHaveJobs, RequestsHaveDocs, At
<1>14. \A w \in Workers : ~PastPersist(w) /\ ~wk[w].embedOk
  BY <1>6, <1>7 DEF PastPersist
<1>15. WritersPersisted /\ EmbeddedStays /\ OneWriter
  BY <1>14 DEF WritersPersisted, EmbeddedStays, OneWriter
<1>16. IndexedIsSearchable
  BY DEF Init, IndexedIsSearchable
<1>. QED
  BY <1>11, <1>12, <1>13, <1>15, <1>16 DEF IInv

\* Every step of a worker, a handler or the admin keeps the invariant.
LEMMA NextInv == IInv /\ [Next]_vars => IInv'
<1>. SUFFICES ASSUME IInv, [Next]_vars PROVE IInv'
  OBVIOUS
<1>1. ASSUME NEW w \in Workers, WorkerStep(w)
      PROVE  IInv'
  BY <1>1, StageSteps, ServiceSteps, PersistStep, BatchSteps, EmbedSteps,
     FinalSteps, AutoChainSteps, ErrorSteps, DropSteps
     DEF WorkerStep
<1>2. ASSUME NEW w \in Workers, WorkerFault(w)
      PROVE  IInv'
  BY <1>2, StageSteps, ServiceSteps, PersistStep, FinalSteps, AutoChainSteps,
     ErrorSteps, DropSteps
     DEF WorkerFault
<1>3. ASSUME NEW r \in Requests, RequestStep(r) \/ RequestFault(r)
      PROVE  IInv'
  BY <1>3, EnqueueRowSteps, AnnounceSteps, CancelCommitStep, DocumentSteps
     DEF RequestStep, RequestFault
<1>4. CASE Next
  BY <1>1, <1>2, <1>3, <1>4, TakeSteps, DropSteps, StartSteps, DocumentSteps,
     BatchSteps
     DEF Next
<1>5. CASE UNCHANGED vars
  <2>1. UNCHANGED <<queueVars, doc, persisted, unembedded, wk, req, faults,
                    crashes>>
    BY <1>5 DEF vars, docVars, budget
  <2>2. QueueOK' /\ RowsKept
    BY <2>1, QueueUnchanged, SplitInv
  <2>3. TypeOK' /\ WorkersHaveJobs' /\ RequestsHaveDocs'
    BY <2>1, <2>2, RequestsKept
       DEF IInv, TypeOK, QueueOK, WorkersHaveJobs, At, Exists, queueVars
  <2>4. WritersPersisted' /\ EmbeddedStays' /\ OneWriter'
    BY <2>1
       DEF IInv, WritersPersisted, EmbeddedStays, OneWriter, PastPersist, DocOf,
           queueVars
  <2>5. IndexedIsSearchable' /\ StageIsHonest'
    BY <2>1 DEF IInv, IndexedIsSearchable, StageIsHonest, queueVars
  <2>. QED
    BY <2>2, <2>3, <2>4, <2>5 DEF IInv, QueueOK
<1>. QED
  BY <1>4, <1>5

\* The invariant holds in every reachable state.
THEOREM Invariance == Spec => []IInv
BY InitInv, NextInv, PTL DEF Spec

(***************************************************************************)
(* Jobs, documents, workers and handlers keep their types: no handler      *)
(* writes a status the table does not know, whatever the interleaving.     *)
(***************************************************************************)
THEOREM TypeCorrect == Spec => []TypeOK
<1>1. IInv => TypeOK
  BY DEF IInv
<1>. QED
  BY <1>1, Invariance, PTL

(***************************************************************************)
(* However often an entry is redelivered (claim_stale) and a document      *)
(* retried (retry_job), at most one run per document is past persist.      *)
(***************************************************************************)
THEOREM SingleWriter == Spec => []OneWriter
<1>1. IInv => OneWriter
  BY DEF IInv
<1>. QED
  BY <1>1, Invariance, PTL

(***************************************************************************)
(* A document that run_ingest shows as indexed has its pages and all of    *)
(* its vectors.                                                            *)
(***************************************************************************)
THEOREM IndexedSearchable == Spec => []IndexedIsSearchable
<1>1. IInv => IndexedIsSearchable
  BY DEF IInv
<1>. QED
  BY <1>1, Invariance, PTL

(***************************************************************************)
(* A stage past persist that publish_progress reports was really reached.  *)
(***************************************************************************)
THEOREM HonestStages == Spec => []StageIsHonest
<1>1. IInv => StageIsHonest
  BY DEF IInv
<1>. QED
  BY <1>1, Invariance, PTL

-----------------------------------------------------------------------------
(* Delivery: the steps as the queue sees them. *)

\* Nothing is added, taken or dropped; announcements may be forgotten.
HandsDown ==
  /\ \A r \in Requests : AnnouncedBy(r)' \in {AnnouncedBy(r), NoJob}
  /\ \A w \in Workers : ChainedBy(w)' \in {ChainedBy(w), NoJob}

RunsSame == \A w \in Workers : wk'[w].job = wk[w].job

QuietStep == UNCHANGED <<stream, pel, acked>> /\ RunsSame /\ HandsDown

\* A new row, and the one process that is to announce it.
RowStep(j) ==
  /\ UNCHANGED <<stream, pel, acked>> /\ RunsSame /\ ~Exists(j)
  /\ \/ \E r \in Requests :
          /\ AnnouncedBy(r)' = j
          /\ \A q \in Requests \ {r} : AnnouncedBy(q)' = AnnouncedBy(q)
          /\ \A w \in Workers : ChainedBy(w)' = ChainedBy(w)
     \/ \E w \in Workers :
          /\ ChainedBy(w)' = j
          /\ \A v \in Workers \ {w} : ChainedBy(v)' = ChainedBy(v)
          /\ \A r \in Requests : AnnouncedBy(r)' = AnnouncedBy(r)

\* The XADD of an announced row, perhaps with an error for an answer.
AddStep(j) ==
  /\ Xadd(j) \/ XaddError(j)
  /\ RunsSame /\ HandsDown
  /\ \/ \E r \in Requests : AnnouncedBy(r) = j /\ AnnouncedBy(r)' = NoJob
     \/ \E w \in Workers : ChainedBy(w) = j /\ ChainedBy(w)' = NoJob

RunsBut(w) == \A v \in Workers \ {w} : wk'[v].job = wk[v].job

TakeStep(w, j) ==
  /\ ReadNext(j) \/ Reclaim(j)
  /\ MayOverrun \/ ReadNext(j) \/ \A v \in Workers : wk[v].job # j
  /\ wk[w].job = NoJob /\ wk'[w].job = j /\ RunsBut(w) /\ HandsDown

DropStep(w) ==
  /\ wk[w].job \in Jobs /\ wk'[w].job = NoJob /\ RunsBut(w) /\ HandsDown
  /\ XackError(wk[w].job)

Delivering ==
  \/ QuietStep
  \/ \E j \in Jobs : RowStep(j) \/ AddStep(j)
  \/ \E w \in Workers : DropStep(w) \/ \E j \in Jobs : TakeStep(w, j)

-----------------------------------------------------------------------------
(* Every step of the pipeline is one of them. *)

\* Worker w gets a new record; the handlers are left alone.
LEMMA RecordStep ==
  ASSUME TypeOK, NEW w \in Workers, NEW r \in WorkerRec,
         wk' = [wk EXCEPT ![w] = r], UNCHANGED req
  PROVE  /\ wk'[w] = r /\ RunsBut(w)
         /\ \A q \in Requests : AnnouncedBy(q)' = AnnouncedBy(q)
         /\ \A v \in Workers \ {w} : ChainedBy(v)' = ChainedBy(v)
         /\ ChainedBy(w)' = IF r.pc = "announce" THEN r.next ELSE NoJob
         /\ r.pc # "announce" => HandsDown
BY DEF TypeOK, RunsBut, HandsDown, AnnouncedBy, ChainedBy, At

\* Worker w goes on with its job.
Internal(w) ==
  \/ CheckCancelled(w) \/ CheckFails(w) \/ LoadFails(w)
  \/ PublishStage(w) \/ PublishStageFails(w)
  \/ FetchOrParse(w) \/ ServiceFails(w)
  \/ Persist(w) \/ PersistConflict(w) \/ PersistFails(w) \/ PersistLost(w)
  \/ EmbedBatch(w) \/ EmbedDone(w) \/ EmbedFails(w)
  \/ SetFinalStatus(w) \/ SetFinalStatusFails(w) \/ NoAutoChain(w)
  \/ MarkDocument(w) \/ MarkDocumentFails(w) \/ MarkJob(w) \/ MarkJobFails(w)
  \/ RunKnowledge(w)

LEMMA EditPc ==
  ASSUME NEW r \in WorkerRec, NEW pc \in WorkerPC
  PROVE  /\ [r EXCEPT !.pc = pc] \in WorkerRec
         /\ [r EXCEPT !.pc = pc].pc = pc /\ [r EXCEPT !.pc = pc].job = r.job
         /\ [r EXCEPT !.pc = pc].stage = r.stage
BY DEF WorkerRec

\* What an internal step makes of the record of worker w.
Follows(w, r) ==
  /\ wk' = [wk EXCEPT ![w] = r]
  /\ r.job = wk[w].job
  /\ r.pc \notin {"idle", "announce", "knowledge"}
  /\ Closing(r) => \/ Closing(wk[w]) \/ (PublishStage(w) /\ wk[w].stage = "done")
                   \/ MarkJob(w) \/ MarkJobFails(w) \/ RunKnowledge(w)
  /\ Pursuing(wk[w]) => \/ Pursuing(r) \/ SetFinalStatus(w)
                        \/ MarkDocument(w) \/ MarkDocumentFails(w)

LEMMA GotoFollows ==
  ASSUME TypeOK, NEW w \in Workers, NEW pc \in WorkerPC, Goto(w, pc),
         \/ pc = "markdoc"
         \/ pc = "publish" /\ At(w, "check")
         \/ pc = "work" /\ PublishStage(w)
         \/ pc = "ack" /\ \/ NoAutoChain(w) \/ MarkJob(w) \/ MarkJobFails(w)
                          \/ RunKnowledge(w)
         \/ pc = "markjob" /\ (MarkDocument(w) \/ MarkDocumentFails(w))
  PROVE  \E r \in WorkerRec : Follows(w, r)
<1> DEFINE r == [wk[w] EXCEPT !.pc = pc]
<1>1. wk[w] \in WorkerRec
  BY DEF TypeOK
<1>2. /\ r \in WorkerRec /\ r.pc = pc /\ r.job = wk[w].job /\ r.stage = wk[w].stage
  BY <1>1, EditPc
<1>3. wk' = [wk EXCEPT ![w] = r]
  BY DEF Goto
<1>. HIDE DEF r
<1>4. Closing(r) => \/ Closing(wk[w]) \/ (PublishStage(w) /\ wk[w].stage = "done")
                    \/ MarkJob(w) \/ MarkJobFails(w) \/ RunKnowledge(w)
  BY <1>2 DEF Closing, NoAutoChain, AtStage, At
<1>5. Pursuing(wk[w]) => \/ Pursuing(r) \/ SetFinalStatus(w)
                         \/ MarkDocument(w) \/ MarkDocumentFails(w)
  BY <1>2 DEF Pursuing, PublishStage, NoAutoChain, MarkJob, MarkJobFails, RunKnowledge, AtStage, At
<1>. QED
  BY <1>2, <1>3, <1>4, <1>5 DEF Follows

LEMMA StageFollows ==
  ASSUME TypeOK, NEW w \in Workers, NEW r \in WorkerRec,
         wk' = [wk EXCEPT ![w] = r], r.job = wk[w].job, r.pc = "check",
         r.stage = "done" => SetFinalStatus(w)
  PROVE  Follows(w, r)
BY DEF Follows, Closing, Pursuing

\* An internal step leaves the handlers, the stream and the lists of delivered
\* entries alone.
LEMMA InternalStep ==
  ASSUME TypeOK, NEW w \in Workers, Internal(w)
  PROVE  /\ ~At(w, "idle") /\ ~At(w, "announce")
         /\ UNCHANGED <<stream, pel, acked, req>>
         /\ \E r \in WorkerRec : Follows(w, r)
<1>0. wk[w] \in WorkerRec
  BY DEF TypeOK
<1>1. /\ ~At(w, "idle") /\ ~At(w, "announce")
      /\ UNCHANGED <<stream, pel, acked, req>>
  <2>1. CASE PublishStage(w) \/ PublishStageFails(w) \/ MarkJob(w) \/ MarkJobFails(w)
    BY <2>1 DEF PublishStage, PublishStageFails, MarkJob, MarkJobFails, SetStatus,
                SetStatusError, At, queueVars
  <2>2. CASE ~(PublishStage(w) \/ PublishStageFails(w) \/ MarkJob(w) \/ MarkJobFails(w))
    BY <2>2 DEF Internal, CheckCancelled, CheckFails, LoadFails, FetchOrParse,
                ServiceFails, Persist, PersistConflict, PersistFails, PersistLost,
                EmbedBatch, EmbedDone, EmbedFails, SetFinalStatus,
                SetFinalStatusFails, NoAutoChain, MarkDocument, MarkDocumentFails,
                RunKnowledge, At, AtStage, queueVars
  <2>. QED
    BY <2>1, <2>2
<1>2. CASE \E pc \in WorkerPC : /\ Goto(w, pc)
             /\ \/ pc = "markdoc"
                \/ pc = "publish" /\ At(w, "check")
                \/ pc = "work" /\ PublishStage(w)
                \/ pc = "ack" /\ \/ NoAutoChain(w) \/ MarkJob(w) \/ MarkJobFails(w)
                                 \/ RunKnowledge(w)
                \/ pc = "markjob" /\ (MarkDocument(w) \/ MarkDocumentFails(w))
  BY <1>1, <1>2, GotoFollows
<1>3. CASE PublishStage(w)
  <2>1. CASE wk[w].stage = "embed"
    <3> DEFINE r == [wk[w] EXCEPT !.pc = "check", !.stage = "index"]
    <3>1. r \in WorkerRec /\ r.pc = "check" /\ r.job = wk[w].job /\ r.stage = "index"
      BY <1>0 DEF WorkerRec, WorkerPC, Stages
    <3>2. wk' = [wk EXCEPT ![w] = r]
      BY <1>3, <2>1 DEF PublishStage, Enter
    <3>. QED
      BY <1>1, <3>1, <3>2, StageFollows
  <2>2. CASE wk[w].stage # "embed"
    BY <1>2, <1>3, <2>2 DEF PublishStage, WorkerPC
  <2>. QED
    BY <2>1, <2>2
<1>4. CASE FetchOrParse(w)
  <2>1. PICK s \in {"parse", "chunk"} : Enter(w, s)
    BY <1>4 DEF FetchOrParse
  <2> DEFINE r == [wk[w] EXCEPT !.pc = "check", !.stage = s]
  <2>2. r \in WorkerRec /\ r.pc = "check" /\ r.job = wk[w].job /\ r.stage = s
    BY <1>0 DEF WorkerRec, WorkerPC, Stages
  <2>3. wk' = [wk EXCEPT ![w] = r]
    BY <2>1 DEF Enter
  <2>. QED
    BY <1>1, <2>2, <2>3, StageFollows
<1>5. CASE Persist(w)
  <2>1. PICK b \in BOOLEAN :
          wk' = [wk EXCEPT ![w].pc = "check", ![w].stage = "contextualize", ![w].review = b]
    BY <1>5 DEF Persist
  <2> DEFINE r == [wk[w] EXCEPT !.pc = "check", !.stage = "contextualize", !.review = b]
  <2>2. r \in WorkerRec /\ r.pc = "check" /\ r.job = wk[w].job /\ r.stage = "contextualize"
    BY <1>0 DEF WorkerRec, WorkerPC, Stages
  <2>3. wk' = [wk EXCEPT ![w] = r]
    BY <2>1
  <2>. QED
    BY <1>1, <2>2, <2>3, StageFollows
<1>6. CASE EmbedDone(w) \/ EmbedFails(w)
  <2>1. PICK b \in BOOLEAN :
          wk' = [wk EXCEPT ![w].pc = "check", ![w].stage = "embed", ![w].embedOk = b]
    BY <1>6 DEF EmbedDone, EmbedFails
  <2> DEFINE r == [wk[w] EXCEPT !.pc = "check", !.stage = "embed", !.embedOk = b]
  <2>2. r \in WorkerRec /\ r.pc = "check" /\ r.job = wk[w].job /\ r.stage = "embed"
    BY <1>0 DEF WorkerRec, WorkerPC, Stages
  <2>3. wk' = [wk EXCEPT ![w] = r]
    BY <2>1
  <2>. QED
    BY <1>1, <2>2, <2>3, StageFollows
<1>7. CASE SetFinalStatus(w)
  <2> DEFINE b == FinalStatus(w) = "indexed"
             r == [wk[w] EXCEPT !.pc = "check", !.stage = "done", !.indexed = b]
  <2>2. r \in WorkerRec /\ r.pc = "check" /\ r.job = wk[w].job /\ r.stage = "done"
    <3>1. b \in BOOLEAN
      OBVIOUS
    <3>. HIDE DEF b
    <3>. QED
      BY <1>0, <3>1 DEF WorkerRec, WorkerPC, Stages
  <2>3. wk' = [wk EXCEPT ![w] = r]
    BY <1>7 DEF SetFinalStatus
  <2>. QED
    BY <1>1, <1>7, <2>2, <2>3, StageFollows
<1>8. CASE EmbedBatch(w)
  <2>1. wk[w].pc = "work" /\ wk[w].stage = "contextualize" /\ wk' = wk
    BY <1>8 DEF EmbedBatch, AtStage, At
  <2>2. wk' = [wk EXCEPT ![w] = wk[w]]
    BY <2>1 DEF TypeOK
  <2>. QED
    BY <1>0, <1>1, <2>1, <2>2 DEF Follows, Closing
<1>9. CASE \/ CheckCancelled(w) \/ CheckFails(w) \/ LoadFails(w)
           \/ PublishStageFails(w) \/ ServiceFails(w) \/ PersistConflict(w)
           \/ PersistFails(w) \/ PersistLost(w) \/ SetFinalStatusFails(w)
           \/ NoAutoChain(w) \/ MarkDocument(w) \/ MarkDocumentFails(w)
           \/ MarkJob(w) \/ MarkJobFails(w) \/ RunKnowledge(w)
  <2>1. \E pc \in WorkerPC : /\ Goto(w, pc)
             /\ \/ pc = "markdoc"
                \/ pc = "publish" /\ At(w, "check")
                \/ pc = "work" /\ PublishStage(w)
                \/ pc = "ack" /\ \/ NoAutoChain(w) \/ MarkJob(w) \/ MarkJobFails(w)
                                 \/ RunKnowledge(w)
                \/ pc = "markjob" /\ (MarkDocument(w) \/ MarkDocumentFails(w))
    BY <1>9 DEF CheckCancelled, CheckFails, LoadFails,
                PublishStageFails, ServiceFails, PersistConflict,
                PersistFails, PersistLost, SetFinalStatusFails,
                NoAutoChain, MarkDocument, MarkDocumentFails,
                MarkJob, MarkJobFails, RunKnowledge, WorkerPC
  <2>. QED
    BY <1>2, <2>1
<1>. QED
  BY <1>3, <1>4, <1>5, <1>6, <1>7, <1>8, <1>9 DEF Internal

LEMMA FreshNobody ==
  ASSUME IInv, NEW j \in Jobs, NEW k, NEW d, InsertRow(j, k, d)
  PROVE  ~Exists(j) /\ j # NoJob /\ UNCHANGED <<stream, pel, acked>>
<1>1. j # NoJob
  BY JobsAssumption
<1>. QED
  BY <1>1 DEF InsertRow, Fresh

\* A step of a handler that announces nothing new.
LEMMA HandlerQuiet ==
  ASSUME TypeOK, NEW r \in Requests, UNCHANGED <<stream, pel, acked, wk>>,
         \E q : req' = [req EXCEPT ![r] = q] /\ q.pc # "announce"
  PROVE  QuietStep
BY DEF TypeOK, QuietStep, RunsSame, HandsDown, AnnouncedBy, ChainedBy, At

LEMMA DoneQuiet ==
  ASSUME NEW r \in Requests, \/ ReqDone(r) \/ EnqueueError(r)
                             \/ ReqGoto(r, "enqueue"),
         TypeOK
  PROVE  \E q \in RequestRec : req' = [req EXCEPT ![r] = q] /\ q.pc # "announce"
<1>1. IdleRequest \in RequestRec /\ IdleRequest.pc = "idle"
  BY DEF IdleRequest, RequestRec, RequestPC
<1>2. ASSUME NEW pc \in {"enqueue", "markfailed"}, ReqGoto(r, pc)
      PROVE  \E q \in RequestRec : req' = [req EXCEPT ![r] = q] /\ q.pc # "announce"
  <2> DEFINE q == [req[r] EXCEPT !.pc = pc]
  <2>1. q \in RequestRec /\ q.pc = pc
    BY DEF TypeOK, RequestRec, RequestPC
  <2>2. req' = [req EXCEPT ![r] = q]
    BY <1>2 DEF ReqGoto
  <2>. HIDE DEF q
  <2>. QED
    BY <2>1, <2>2
<1>. QED
  BY <1>1, <1>2 DEF ReqDone, EnqueueError

LEMMA WorkerDelivers ==
  ASSUME IInv, NEW w \in Workers,
         \/ NextJob(w) \/ ClaimStale(w) \/ WorkerStep(w) \/ WorkerFault(w)
         \/ WorkerCrash(w)
  PROVE  Delivering
<1>0. TypeOK /\ wk[w] \in WorkerRec
  BY DEF IInv, TypeOK
<1>1. CASE Internal(w)
  <2>1. PICK r \in WorkerRec : Follows(w, r)
    BY <1>0, <1>1, InternalStep
  <2>2. UNCHANGED <<stream, pel, acked, req>>
    BY <1>0, <1>1, InternalStep
  <2>3. /\ wk'[w] = r /\ RunsBut(w) /\ HandsDown /\ r.job = wk[w].job
    BY <1>0, <2>1, <2>2, RecordStep DEF Follows
  <2>. QED
    BY <2>2, <2>3 DEF Delivering, QuietStep, RunsSame, RunsBut
<1>2. CASE AutoChainRow(w)
  <2>1. PICK j \in Jobs :
          /\ InsertRow(j, "knowledge_build", DocOf(w))
          /\ wk' = [wk EXCEPT ![w] = [wk[w] EXCEPT !.pc = "announce", !.next = j]]
    BY <1>2 DEF AutoChainRow
  <2> DEFINE r == [wk[w] EXCEPT !.pc = "announce", !.next = j]
  <2>2. r \in WorkerRec /\ r.pc = "announce" /\ r.next = j /\ r.job = wk[w].job
    BY <1>0 DEF WorkerRec, WorkerPC
  <2>3. wk' = [wk EXCEPT ![w] = r] /\ UNCHANGED req
    BY <1>2, <2>1 DEF AutoChainRow
  <2>. HIDE DEF r
  <2>4. /\ wk'[w] = r /\ RunsBut(w)
        /\ \A q \in Requests : AnnouncedBy(q)' = AnnouncedBy(q)
        /\ \A v \in Workers \ {w} : ChainedBy(v)' = ChainedBy(v)
        /\ ChainedBy(w)' = j
    BY <1>0, <2>2, <2>3, RecordStep
  <2>5. RowStep(j)
    BY <2>1, <2>2, <2>4, FreshNobody DEF RowStep, RunsSame, RunsBut
  <2>. QED
    BY <2>5 DEF Delivering
<1>3. CASE AutoChainAnnounce(w) \/ AutoChainFails(w)
  <2>1. /\ At(w, "announce") /\ UNCHANGED req
        /\ wk' = [wk EXCEPT ![w].pc = "ack", ![w].next = NoJob]
        /\ Xadd(wk[w].next) \/ XaddError(wk[w].next)
    BY <1>3 DEF AutoChainAnnounce, AutoChainFails
  <2>2. wk[w].next \in Jobs
    BY <2>1 DEF IInv, WorkersHaveJobs, At
  <2> DEFINE r == [wk[w] EXCEPT !.pc = "ack", !.next = NoJob]
  <2>3. r \in WorkerRec /\ r.pc = "ack" /\ r.job = wk[w].job
    BY <1>0 DEF WorkerRec, WorkerPC
  <2>4. wk' = [wk EXCEPT ![w] = r]
    BY <2>1
  <2>. HIDE DEF r
  <2>5. /\ wk'[w] = r /\ RunsBut(w) /\ HandsDown /\ ChainedBy(w)' = NoJob
    BY <1>0, <2>1, <2>3, <2>4, RecordStep
  <2>6. AddStep(wk[w].next)
    BY <2>1, <2>3, <2>5 DEF AddStep, RunsSame, RunsBut, ChainedBy
  <2>. QED
    BY <2>2, <2>6 DEF Delivering
<1>4. CASE Ack(w) \/ AckFails(w) \/ WorkerCrash(w)
  <2>1. /\ ~At(w, "idle") /\ UNCHANGED req /\ XackError(wk[w].job)
        /\ wk' = [wk EXCEPT ![w] = IdleWorker]
    BY <1>4 DEF Ack, AckFails, WorkerCrash, At, XackError
  <2>2. IdleWorker \in WorkerRec /\ IdleWorker.pc = "idle" /\ IdleWorker.job = NoJob
    BY DEF IdleWorker, WorkerRec, WorkerPC, Stages
  <2>3. wk'[w] = IdleWorker /\ RunsBut(w) /\ HandsDown
    BY <1>0, <2>1, <2>2, RecordStep
  <2>4. wk[w].job \in Jobs
    BY <2>1, AtWork
  <2>5. DropStep(w)
    BY <2>1, <2>2, <2>3, <2>4 DEF DropStep
  <2>. QED
    BY <2>5 DEF Delivering
<1>5. CASE NextJob(w) \/ ClaimStale(w)
  <2>1. PICK j \in Jobs :
          /\ ReadNext(j) \/ Reclaim(j)
          /\ MayOverrun \/ ReadNext(j) \/ \A v \in Workers : wk[v].job # j
          /\ Begin(w, j)
    BY <1>5 DEF NextJob, ClaimStale
  <2>2. At(w, "idle") /\ UNCHANGED req
    BY <1>5 DEF NextJob, ClaimStale
  <2>3. wk[w].job = NoJob
    BY <2>2 DEF IInv, WorkersHaveJobs, IdleWorker
  <2>4. PICK pc \in {"check", "knowledge"} :
          wk' = [wk EXCEPT ![w] = [IdleWorker EXCEPT !.job = j, !.pc = pc]]
    BY <2>1 DEF Begin
  <2> DEFINE r == [IdleWorker EXCEPT !.job = j, !.pc = pc]
  <2>5. r \in WorkerRec /\ r.pc = pc /\ r.job = j
    BY DEF IdleWorker, WorkerRec, WorkerPC, Stages
  <2>6. wk' = [wk EXCEPT ![w] = r]
    BY <2>4
  <2>. HIDE DEF r
  <2>7. wk'[w] = r /\ RunsBut(w) /\ HandsDown
    BY <1>0, <2>2, <2>5, <2>6, RecordStep
  <2>8. TakeStep(w, j)
    BY <2>1, <2>3, <2>5, <2>7 DEF TakeStep
  <2>. QED
    BY <2>8 DEF Delivering
<1>. QED
  BY <1>1, <1>2, <1>3, <1>4, <1>5 DEF Internal, WorkerStep, WorkerFault

LEMMA HandlerDelivers ==
  ASSUME IInv, NEW r \in Requests,
         RequestStart(r) \/ RequestStep(r) \/ RequestFault(r) \/ RequestCrash(r)
  PROVE  Delivering
<1>0. TypeOK /\ req[r] \in RequestRec
  BY DEF IInv, TypeOK
<1>1. CASE RequestStart(r)
  <2>1. \E q : req' = [req EXCEPT ![r] = q] /\ q.pc # "announce"
    BY <1>1 DEF RequestStart, InsertDocument, Retry, CancelRead
  <2>2. UNCHANGED <<stream, pel, acked, wk>>
    BY <1>1 DEF RequestStart, InsertDocument, Retry, CancelRead, queueVars
  <2>. QED
    BY <1>0, <2>1, <2>2, HandlerQuiet DEF Delivering
<1>2. CASE EnqueueRow(r)
  <2>1. PICK j \in Jobs :
          /\ InsertRow(j, "ingest", req[r].doc)
          /\ req' = [req EXCEPT ![r] = [req[r] EXCEPT !.pc = "announce", !.job = j]]
    BY <1>2 DEF EnqueueRow
  <2> DEFINE q == [req[r] EXCEPT !.pc = "announce", !.job = j]
  <2>2. q.pc = "announce" /\ q.job = j
    BY <1>0 DEF RequestRec
  <2>3. req' = [req EXCEPT ![r] = q] /\ UNCHANGED wk
    BY <1>2, <2>1 DEF EnqueueRow
  <2>. HIDE DEF q
  <2>4. /\ AnnouncedBy(r)' = j
        /\ \A p \in Requests \ {r} : AnnouncedBy(p)' = AnnouncedBy(p)
        /\ \A w \in Workers : ChainedBy(w)' = ChainedBy(w)
        /\ RunsSame
    BY <1>0, <2>2, <2>3 DEF TypeOK, AnnouncedBy, ChainedBy, At, RunsSame
  <2>5. RowStep(j)
    BY <2>1, <2>4, FreshNobody DEF RowStep
  <2>. QED
    BY <2>5 DEF Delivering
<1>3. CASE Announce(r) \/ AnnounceFails(r)
  <2>1. /\ req[r].pc = "announce" /\ UNCHANGED wk
        /\ ReqDone(r) \/ EnqueueError(r)
        /\ Xadd(req[r].job) \/ XaddError(req[r].job)
    BY <1>3 DEF Announce, AnnounceFails
  <2>2. PICK q \in RequestRec : req' = [req EXCEPT ![r] = q] /\ q.pc # "announce"
    BY <1>0, <2>1, DoneQuiet
  <2>3. /\ AnnouncedBy(r)' = NoJob /\ RunsSame /\ HandsDown
        /\ AnnouncedBy(r) = req[r].job
    BY <1>0, <2>1, <2>2 DEF TypeOK, AnnouncedBy, ChainedBy, At, RunsSame, HandsDown
  <2>4. req[r].job \in Jobs
    BY <2>1 DEF IInv, RequestsHaveDocs
  <2>. QED
    BY <2>1, <2>3, <2>4 DEF Delivering, AddStep
<1>4. CASE \/ FlipToProcessing(r) \/ MarkFailed(r) \/ CancelCommit(r) \/ FlipFails(r)
           \/ EnqueueRowFails(r) \/ MarkFailedFails(r) \/ CancelFails(r)
           \/ RequestCrash(r)
  <2>1. ReqDone(r) \/ EnqueueError(r) \/ ReqGoto(r, "enqueue")
    BY <1>4 DEF FlipToProcessing, MarkFailed, CancelCommit, FlipFails, EnqueueRowFails,
                MarkFailedFails, CancelFails, RequestCrash
  <2>2. UNCHANGED <<stream, pel, acked, wk>>
    BY <1>4 DEF FlipToProcessing, MarkFailed, CancelCommit, FlipFails, EnqueueRowFails,
                MarkFailedFails, CancelFails, RequestCrash, SetStatus, queueVars
  <2>3. \E q : req' = [req EXCEPT ![r] = q] /\ q.pc # "announce"
    BY <1>0, <2>1, DoneQuiet
  <2>. QED
    BY <1>0, <2>2, <2>3, HandlerQuiet DEF Delivering
<1>. QED
  BY <1>1, <1>2, <1>3, <1>4 DEF RequestStep, RequestFault

LEMMA StepDelivers == IInv /\ [Next]_vars => Delivering
<1>. SUFFICES ASSUME IInv, [Next]_vars PROVE Delivering
  OBVIOUS
<1>1. CASE UNCHANGED vars \/ \E d \in Docs : Reindex(d)
  <2>1. UNCHANGED <<stream, pel, acked, wk, req>>
    BY <1>1 DEF vars, Reindex, queueVars
  <2>. QED
    BY <2>1 DEF Delivering, QuietStep, RunsSame, HandsDown, AnnouncedBy, ChainedBy, At
<1>. QED
  BY <1>1, WorkerDelivers, HandlerDelivers DEF Next

-----------------------------------------------------------------------------
(* The delivery invariant, and the refinement of AtLeastOnce. *)

LEMMA SubmittedSplit ==
  ASSUME NEW j
  PROVE  j \in Submitted <=> (j \in Jobs /\ Queued(j)) \/ j \in pel \cup acked
BY DEF Submitted

LEMMA InitDelivery == Init => DeliveryInv
<1>. SUFFICES ASSUME Init PROVE DeliveryInv
  OBVIOUS
<1>1. stream = <<>> /\ pel = {} /\ acked = {}
  BY DEF Init, QueueInit
<1>2. DOMAIN stream = {}
  BY <1>1
<1>3. \A w \in Workers : wk[w].job = NoJob /\ ChainedBy(w) = NoJob
  BY DEF Init, IdleWorker, ChainedBy, At
<1>4. \A r \in Requests : AnnouncedBy(r) = NoJob
  BY DEF Init, IdleRequest, AnnouncedBy
<1>. QED
  BY <1>1, <1>2, <1>3, <1>4 DEF DeliveryInv, EntriesOnce, RunsDelivered, AnnouncedOnce

\* Rows stay, with their kind and document; but for a cancellation only the
\* worker that runs a job writes its status.
RowsStay ==
  \A j \in Jobs : Exists(j) =>
    /\ Exists(j)'
    /\ jobs'[j].kind = jobs[j].kind
    /\ jobs'[j].doc = jobs[j].doc
    /\ \/ jobs'[j].status \in {jobs[j].status, "cancelled"}
       \/ \E w \in Workers : wk[w].job = j /\ Internal(w)

LEMMA StatusRow ==
  ASSUME TypeOK, NEW j \in Jobs, NEW s \in JobStatus, s # "absent",
         SetStatusError(j, s) \/ SetStatus(j, s)
  PROVE  \A k \in Jobs : Exists(k) =>
           /\ Exists(k)' /\ jobs'[k].kind = jobs[k].kind /\ jobs'[k].doc = jobs[k].doc
           /\ jobs'[k].status = jobs[k].status \/ (k = j /\ jobs'[k].status = s)
BY DEF TypeOK, QueueTypeOK, JobRow, SetStatusError, SetStatus, Exists, queueVars

LEMMA NewRow ==
  ASSUME TypeOK, NEW j \in Jobs, NEW k, NEW d, InsertRow(j, k, d)
  PROVE  /\ \A i \in Jobs : Exists(i) => Exists(i)' /\ jobs'[i] = jobs[i]
         /\ jobs'[j].kind = k /\ jobs'[j].doc = d
BY DEF TypeOK, QueueTypeOK, InsertRow, Fresh, Exists

LEMMA StepRows == IInv /\ [Next]_vars => RowsStay
<1>. SUFFICES ASSUME IInv, [Next]_vars PROVE RowsStay
  OBVIOUS
<1>0. TypeOK
  BY DEF IInv
<1>1. CASE UNCHANGED jobs
  BY <1>1 DEF RowsStay, Exists
<1>2. CASE \E j \in Jobs : \E k, d : InsertRow(j, k, d)
  BY <1>0, <1>2, NewRow DEF RowsStay
<1>3. ASSUME NEW w \in Workers,
             PublishStage(w) \/ PublishStageFails(w) \/ MarkJob(w) \/ MarkJobFails(w)
      PROVE  RowsStay
  <2>1. ~At(w, "idle") /\ Internal(w)
    BY <1>3 DEF PublishStage, PublishStageFails, MarkJob, MarkJobFails, At, Internal
  <2>2. wk[w].job \in Jobs /\ wk[w].stage \in JobStatus \ {"absent"}
        /\ "failed" \in JobStatus
    BY <2>1, AtWork DEF WorkerRec, JobStatus, Stages
  <2>3. \E s \in JobStatus \ {"absent"} :
          SetStatusError(wk[w].job, s) \/ SetStatus(wk[w].job, s)
    BY <1>3, <2>2 DEF PublishStage, PublishStageFails, MarkJob, MarkJobFails
  <2>. QED
    BY <1>0, <2>1, <2>2, <2>3, StatusRow DEF RowsStay
<1>4. ASSUME NEW r \in Requests, CancelCommit(r) PROVE RowsStay
  <2>1. req[r].job \in Jobs /\ SetStatus(req[r].job, "cancelled")
        /\ "cancelled" \in JobStatus
    BY <1>4 DEF IInv, RequestsHaveDocs, CancelCommit, JobStatus
  <2>. QED
    BY <1>0, <2>1, StatusRow DEF RowsStay
<1>5. CASE UNCHANGED vars \/ \E d \in Docs : Reindex(d)
  BY <1>1, <1>5 DEF vars, Reindex, queueVars
<1>6. ASSUME NEW w \in Workers, WorkerStep(w) \/ WorkerFault(w) PROVE RowsStay
  <2>1. CASE AutoChainRow(w)
    BY <1>2, <2>1 DEF AutoChainRow
  <2>2. CASE ~ (\/ PublishStage(w) \/ PublishStageFails(w) \/ MarkJob(w)
                \/ MarkJobFails(w) \/ AutoChainRow(w))
    <3>1. UNCHANGED jobs
      BY <1>6, <2>2 DEF WorkerStep, WorkerFault, CheckCancelled, CheckFails, LoadFails, FetchOrParse,
                ServiceFails, Persist, PersistConflict, PersistFails, PersistLost,
                EmbedBatch, EmbedDone, EmbedFails, SetFinalStatus,
                SetFinalStatusFails, NoAutoChain, MarkDocument, MarkDocumentFails,
                RunKnowledge, AutoChainAnnounce, AutoChainFails, Ack, AckFails,
                Xadd, XaddError, Xack, XackError, queueVars
    <3>. QED
      BY <1>1, <3>1
  <2>. QED
    BY <1>3, <2>1, <2>2
<1>7. ASSUME NEW w \in Workers, NextJob(w) \/ ClaimStale(w) \/ WorkerCrash(w)
      PROVE  UNCHANGED jobs
  BY <1>7 DEF NextJob, ClaimStale, WorkerCrash, ReadNext, Reclaim, queueVars
<1>8. ASSUME NEW r \in Requests,
             RequestStart(r) \/ RequestStep(r) \/ RequestFault(r) \/ RequestCrash(r)
      PROVE  RowsStay
  <2>1. CASE EnqueueRow(r) \/ EnqueueRowFails(r)
    BY <1>1, <1>2, <2>1 DEF EnqueueRow, EnqueueRowFails
  <2>2. CASE ~(EnqueueRow(r) \/ EnqueueRowFails(r) \/ CancelCommit(r))
    <3>1. UNCHANGED jobs
      BY <1>8, <2>2 DEF RequestStart, RequestStep, RequestFault, RequestCrash,
              InsertDocument, Retry, CancelRead, FlipToProcessing, FlipFails, Announce,
              AnnounceFails, MarkFailed, MarkFailedFails, CancelFails, Xadd, XaddError,
              queueVars
    <3>. QED
      BY <1>1, <3>1
  <2>. QED
    BY <1>4, <2>1, <2>2
<1>. QED
  BY <1>1, <1>5, <1>6, <1>7, <1>8 DEF Next

\* Everything with an entry, and everything announced, has a row.
LEMMA NamedExist ==
  ASSUME IInv, DeliveryInv
  PROVE  /\ Submitted \subseteq Jobs /\ \A j \in Submitted : Exists(j)
         /\ \A r \in Requests : AnnouncedBy(r) # NoJob =>
              AnnouncedBy(r) \in Jobs /\ Exists(AnnouncedBy(r))
         /\ \A w \in Workers : ChainedBy(w) # NoJob =>
              ChainedBy(w) \in Jobs /\ Exists(ChainedBy(w))
<1>1. Submitted \subseteq Jobs
  BY DEF Submitted, IInv, TypeOK, QueueTypeOK
<1>2. \A j \in Submitted : Exists(j)
  BY DEF Submitted, Queued, IInv, EntriesHaveRows, DeliveryInv, EntriesOnce
<1>3. \A r \in Requests : AnnouncedBy(r) # NoJob =>
         AnnouncedBy(r) \in Jobs /\ Exists(AnnouncedBy(r))
  BY DEF IInv, RequestsHaveDocs, AnnouncedBy
<1>4. \A w \in Workers : ChainedBy(w) # NoJob =>
         ChainedBy(w) \in Jobs /\ Exists(ChainedBy(w))
  BY DEF IInv, WorkersHaveJobs, ChainedBy, At
<1>. QED
  BY <1>1, <1>2, <1>3, <1>4

\* Forgetting announcements breaks nothing.
LEMMA HandsDownKeeps ==
  ASSUME DeliveryInv, HandsDown, Submitted' = Submitted
  PROVE  AnnouncedOnce'
BY DEF DeliveryInv, AnnouncedOnce, HandsDown

LEMMA QuietDelivery ==
  ASSUME IInv, DeliveryInv, RowsStay, QuietStep
  PROVE  DeliveryInv' /\ Submitted' = Submitted
<1>1. UNCHANGED <<stream, pel, acked>> /\ RunsSame /\ HandsDown
  BY DEF QuietStep
<1>2. Submitted' = Submitted
  BY <1>1 DEF Submitted, Queued
<1>3. EntriesOnce'
  BY <1>1 DEF DeliveryInv, EntriesOnce, RowsStay, IInv, TypeOK, QueueTypeOK
<1>4. RunsDelivered'
  BY <1>1 DEF DeliveryInv, RunsDelivered, RunsSame
<1>. QED
  BY <1>1, <1>2, <1>3, <1>4, HandsDownKeeps DEF DeliveryInv

LEMMA RowDelivery ==
  ASSUME IInv, DeliveryInv, RowsStay, NEW j \in Jobs, RowStep(j)
  PROVE  DeliveryInv' /\ Submitted' = Submitted
<1>1. UNCHANGED <<stream, pel, acked>> /\ RunsSame /\ ~Exists(j)
  BY DEF RowStep
<1>2. Submitted' = Submitted /\ j \notin Submitted /\ j # NoJob
  BY <1>1, NamedExist, JobsAssumption DEF Submitted, Queued
<1>3. EntriesOnce'
  BY <1>1 DEF DeliveryInv, EntriesOnce, RowsStay, IInv, TypeOK, QueueTypeOK
<1>4. RunsDelivered'
  BY <1>1 DEF DeliveryInv, RunsDelivered, RunsSame
<1>5. /\ \A r \in Requests : AnnouncedBy(r) # j
      /\ \A w \in Workers : ChainedBy(w) # j
  BY <1>1, <1>2, NamedExist
<1>6. AnnouncedOnce'
  <2>1. CASE \E r \in Requests :
              /\ AnnouncedBy(r)' = j
              /\ \A q \in Requests \ {r} : AnnouncedBy(q)' = AnnouncedBy(q)
              /\ \A w \in Workers : ChainedBy(w)' = ChainedBy(w)
    BY <1>2, <1>5, <2>1 DEF DeliveryInv, AnnouncedOnce
  <2>2. CASE \E w \in Workers :
              /\ ChainedBy(w)' = j
              /\ \A v \in Workers \ {w} : ChainedBy(v)' = ChainedBy(v)
              /\ \A r \in Requests : AnnouncedBy(r)' = AnnouncedBy(r)
    BY <1>2, <1>5, <2>2 DEF DeliveryInv, AnnouncedOnce
  <2>. QED
    BY <2>1, <2>2 DEF RowStep
<1>. QED
  BY <1>2, <1>3, <1>4, <1>6 DEF DeliveryInv

LEMMA AddDelivery ==
  ASSUME IInv, DeliveryInv, RowsStay, NEW j \in Jobs, AddStep(j)
  PROVE  /\ DeliveryInv' /\ UNCHANGED acked /\ RunsSame
         /\ Submitted' = Submitted \/ (/\ j \notin Submitted
                                       /\ Submitted' = Submitted \cup {j})
<1>1. /\ stream' \in {stream, Append(stream, j)} /\ UNCHANGED <<jobs, pel, acked>>
      /\ RunsSame /\ HandsDown
  BY DEF AddStep, Xadd, XaddError
<1>2. CASE stream' = stream
  <2>1. QuietStep
    BY <1>1, <1>2 DEF QuietStep
  <2>. QED
    BY <1>1, <2>1, QuietDelivery
<1>3. CASE stream' = Append(stream, j)
  <2>1. j \notin Submitted /\ j # NoJob
    BY NamedExist, JobsAssumption DEF AddStep, DeliveryInv, AnnouncedOnce
  <2>2. stream \in Seq(Jobs)
    BY DEF IInv, TypeOK, QueueTypeOK
  <2>3. /\ DOMAIN stream' = 1 .. Len(stream) + 1 /\ DOMAIN stream = 1 .. Len(stream)
        /\ Len(stream) \in Nat
        /\ \A i \in 1 .. Len(stream) : stream'[i] = stream[i]
        /\ stream'[Len(stream) + 1] = j
    BY <1>3, <2>2
  <2>4. \A i \in DOMAIN stream : stream[i] # j /\ stream[i] \in Jobs
    BY <2>1, <2>2 DEF Submitted, Queued
  <2>5. j \notin pel \cup acked
    BY <2>1 DEF Submitted
  <2>6. \A k : (\E i \in DOMAIN stream' : stream'[i] = k)
                  <=> k = j \/ \E i \in DOMAIN stream : stream[i] = k
    BY <2>3
  <2>7. Submitted' = Submitted \cup {j}
    BY <1>1, <2>6 DEF Submitted, Queued
  <2>8. EntriesOnce'
    <3>1. \A i, k \in DOMAIN stream' : stream'[i] = stream'[k] => i = k
      BY <2>3, <2>4 DEF DeliveryInv, EntriesOnce
    <3>2. \A i \in DOMAIN stream' : stream'[i] \notin pel' \cup acked'
      BY <1>1, <2>3, <2>5 DEF DeliveryInv, EntriesOnce
    <3>. QED
      BY <1>1, <3>1, <3>2 DEF DeliveryInv, EntriesOnce, Exists
  <2>9. RunsDelivered'
    BY <1>1 DEF DeliveryInv, RunsDelivered, RunsSame
  <2>10. AnnouncedOnce'
    <3>1. /\ \A r \in Requests : AnnouncedBy(r)' # j
          /\ \A w \in Workers : ChainedBy(w)' # j
      <4>1. CASE \E r \in Requests : AnnouncedBy(r) = j /\ AnnouncedBy(r)' = NoJob
        BY <1>1, <2>1, <4>1 DEF HandsDown, DeliveryInv, AnnouncedOnce
      <4>2. CASE \E w \in Workers : ChainedBy(w) = j /\ ChainedBy(w)' = NoJob
        BY <1>1, <2>1, <4>2 DEF HandsDown, DeliveryInv, AnnouncedOnce
      <4>. QED
        BY <4>1, <4>2 DEF AddStep
    <3>. QED
      BY <1>1, <2>7, <3>1 DEF HandsDown, DeliveryInv, AnnouncedOnce
  <2>. QED
    BY <1>1, <2>1, <2>7, <2>8, <2>9, <2>10 DEF DeliveryInv
<1>. QED
  BY <1>1, <1>2, <1>3

LEMMA TakeDelivery ==
  ASSUME IInv, DeliveryInv, RowsStay, NEW w \in Workers, NEW j \in Jobs, TakeStep(w, j)
  PROVE  /\ DeliveryInv' /\ UNCHANGED acked /\ Submitted' = Submitted
         /\ j \in Submitted \ acked /\ j \in pel'
<1>1. /\ wk[w].job = NoJob /\ wk'[w].job = j /\ RunsBut(w) /\ HandsDown
      /\ UNCHANGED <<jobs, acked>>
  BY DEF TakeStep, ReadNext, Reclaim, queueVars
<1>2. CASE Reclaim(j)
  <2>1. UNCHANGED <<stream, pel>> /\ j \in pel
    BY <1>2 DEF Reclaim, queueVars
  <2>2. Submitted' = Submitted /\ j \in Submitted \ acked
    BY <1>1, <2>1 DEF Submitted, Queued, DeliveryInv, EntriesOnce
  <2>3. EntriesOnce'
    BY <1>1, <2>1 DEF DeliveryInv, EntriesOnce, Exists
  <2>4. RunsDelivered'
    BY <1>1, <2>1 DEF DeliveryInv, RunsDelivered, RunsBut
  <2>. QED
    BY <1>1, <2>1, <2>2, <2>3, <2>4, HandsDownKeeps DEF DeliveryInv
<1>3. CASE ReadNext(j)
  <2>1. /\ stream # <<>> /\ j = Head(stream) /\ stream' = Tail(stream)
        /\ pel' = pel \cup {j}
    BY <1>3 DEF ReadNext
  <2>2. stream \in Seq(Jobs)
    BY DEF IInv, TypeOK, QueueTypeOK
  <2>3. /\ Len(stream) \in Nat /\ Len(stream) # 0
        /\ DOMAIN stream = 1 .. Len(stream) /\ DOMAIN stream' = 1 .. Len(stream) - 1
        /\ j = stream[1]
        /\ \A i \in 1 .. Len(stream) - 1 : stream'[i] = stream[i + 1]
    BY <2>1, <2>2
  <2>4. \A i \in DOMAIN stream' : stream'[i] # j
    BY <2>3 DEF DeliveryInv, EntriesOnce
  <2>5. j \notin pel \cup acked
    BY <2>3 DEF DeliveryInv, EntriesOnce
  <2>6. \A k : (\E i \in DOMAIN stream : stream[i] = k)
                  <=> k = j \/ \E i \in DOMAIN stream' : stream'[i] = k
    <3>1. \A i \in DOMAIN stream : i = 1 \/ (i - 1 \in DOMAIN stream' /\ stream[i] = stream'[i - 1])
      BY <2>3
    <3>2. \A i \in DOMAIN stream' : i + 1 \in DOMAIN stream
      BY <2>3
    <3>. QED
      BY <2>3, <3>1, <3>2
  <2>7. Submitted' = Submitted /\ j \in Submitted \ acked
    BY <1>1, <2>1, <2>5, <2>6 DEF Submitted, Queued
  <2>8. EntriesOnce'
    <3>1. \A i, k \in DOMAIN stream' : stream'[i] = stream'[k] => i = k
      BY <2>3 DEF DeliveryInv, EntriesOnce
    <3>2. \A i \in DOMAIN stream' : stream'[i] \notin pel' \cup acked'
      BY <1>1, <2>1, <2>3, <2>4 DEF DeliveryInv, EntriesOnce
    <3>. QED
      BY <1>1, <2>1, <2>5, <3>1, <3>2 DEF DeliveryInv, EntriesOnce, Exists
  <2>9. RunsDelivered'
    BY <1>1, <2>1 DEF DeliveryInv, RunsDelivered, RunsBut
  <2>. QED
    BY <1>1, <2>1, <2>7, <2>8, <2>9, HandsDownKeeps DEF DeliveryInv
<1>. QED
  BY <1>2, <1>3 DEF TakeStep

LEMMA DropDelivery ==
  ASSUME IInv, DeliveryInv, RowsStay, NEW w \in Workers, DropStep(w)
  PROVE  /\ DeliveryInv' /\ Submitted' = Submitted
         /\ acked' = acked \/ acked' = acked \cup {wk[w].job}
<1> DEFINE j == wk[w].job
<1>1. /\ j \in Jobs /\ wk'[w].job = NoJob /\ RunsBut(w) /\ HandsDown
      /\ UNCHANGED <<jobs, stream>>
  BY DEF DropStep, Xack, XackError, queueVars
<1>2. j \in pel \cup acked
  BY <1>1, JobsAssumption DEF DeliveryInv, RunsDelivered
<1>3. \/ pel' = pel /\ acked' = acked
      \/ pel' = pel \ {j} /\ acked' = acked \cup {j}
  BY <1>2 DEF DropStep, Xack, XackError, queueVars
<1>4. pel' \cup acked' = pel \cup acked /\ pel' \cap acked' = {}
  BY <1>2, <1>3 DEF DeliveryInv, EntriesOnce
<1>5. Submitted' = Submitted
  BY <1>1, <1>4 DEF Submitted, Queued
<1>6. EntriesOnce'
  <2>1. Exists(j)
    BY <1>2, NamedExist DEF Submitted
  <2>2. \A i \in DOMAIN stream : stream[i] \notin pel' \cup acked'
    BY <1>4 DEF DeliveryInv, EntriesOnce
  <2>3. \A k \in acked' : Exists(k)
    BY <1>3, <2>1 DEF DeliveryInv, EntriesOnce
  <2>. QED
    BY <1>1, <1>4, <2>2, <2>3 DEF DeliveryInv, EntriesOnce, Exists
<1>7. RunsDelivered'
  BY <1>1, <1>4 DEF DeliveryInv, RunsDelivered, RunsBut
<1>. QED
  BY <1>1, <1>3, <1>5, <1>6, <1>7, HandsDownKeeps DEF DeliveryInv

LEMMA NextDelivery == IInv /\ DeliveryInv /\ [Next]_vars => DeliveryInv'
BY StepDelivers, StepRows, QuietDelivery, RowDelivery, AddDelivery, TakeDelivery,
   DropDelivery DEF Delivering

(***************************************************************************)
(* An entry waits once, is pending, or is acknowledged; workers run what   *)
(* was delivered to them; a row is announced once, by one process.         *)
(***************************************************************************)
THEOREM Delivered == Spec => []DeliveryInv
BY InitDelivery, NextDelivery, Invariance, PTL DEF Spec

-----------------------------------------------------------------------------
(* The refinement: each step is a step of AtLeastOnce or leaves that queue *)
(* alone.                                                                  *)

Running == [w \in Workers |-> wk[w].job]

LEMMA RunningOf ==
  ASSUME NEW w \in Workers, RunsBut(w)
  PROVE  Running' = [Running EXCEPT ![w] = wk'[w].job]
BY DEF Running, RunsBut

LEMMA NextQueue == IInv /\ DeliveryInv /\ [Next]_vars => [Queue!Next]_(Queue!vars)
<1>. SUFFICES ASSUME IInv, DeliveryInv, [Next]_vars PROVE [Queue!Next]_(Queue!vars)
  OBVIOUS
<1>0. RowsStay /\ Delivering
  BY StepRows, StepDelivers
<1>1. ASSUME Submitted' = Submitted, UNCHANGED acked, RunsSame
      PROVE  UNCHANGED Queue!vars
  <2>1. Running' = Running
    BY <1>1 DEF RunsSame, Running
  <2>. QED
    BY <1>1, <2>1 DEF Queue!vars, Running
<1>2. CASE QuietStep \/ \E j \in Jobs : RowStep(j)
  <2>1. UNCHANGED acked /\ RunsSame
    BY <1>2 DEF QuietStep, RowStep
  <2>. QED
    BY <1>0, <1>1, <1>2, <2>1, QuietDelivery, RowDelivery
<1>3. ASSUME NEW j \in Jobs, AddStep(j) PROVE [Queue!Next]_(Queue!vars)
  <2>1. /\ UNCHANGED acked /\ RunsSame
        /\ Submitted' = Submitted \/ (/\ j \notin Submitted
                                      /\ Submitted' = Submitted \cup {j})
    BY <1>0, <1>3, AddDelivery
  <2>2. Running' = Running
    BY <2>1 DEF RunsSame, Running
  <2>. QED
    BY <1>1, <2>1, <2>2 DEF Queue!Next, Queue!Submit, Running
<1>4. ASSUME NEW w \in Workers, NEW j \in Jobs, TakeStep(w, j)
      PROVE  [Queue!Next]_(Queue!vars)
  <2>1. /\ UNCHANGED acked /\ Submitted' = Submitted /\ j \in Submitted \ acked
    BY <1>0, <1>4, TakeDelivery
  <2>2. Running[w] = NoJob /\ Running' = [Running EXCEPT ![w] = j]
    BY <1>4, RunningOf DEF TakeStep, Running
  <2>3. Queue!Start(w, j)
    BY <2>1, <2>2 DEF Queue!Start, Running
  <2>. QED
    BY <2>3 DEF Queue!Next
<1>5. ASSUME NEW w \in Workers, DropStep(w) PROVE [Queue!Next]_(Queue!vars)
  <2>1. /\ Submitted' = Submitted
        /\ acked' = acked \/ acked' = acked \cup {wk[w].job}
    BY <1>0, <1>5, DropDelivery
  <2>2. /\ Running[w] = wk[w].job /\ Running[w] # NoJob
        /\ Running' = [Running EXCEPT ![w] = NoJob]
    BY <1>5, RunningOf, JobsAssumption DEF DropStep, Running
  <2>3. Queue!Finish(w) \/ Queue!Abandon(w)
    BY <2>1, <2>2 DEF Queue!Finish, Queue!Abandon, Running
  <2>. QED
    BY <2>3 DEF Queue!Next
<1>. QED
  BY <1>0, <1>2, <1>3, <1>4, <1>5 DEF Delivering

(***************************************************************************)
(* Jobs table, stream, pending list and workers together are the           *)
(* at-least-once queue: enqueue's XADD submits, XREADGROUP and XAUTOCLAIM  *)
(* start runs, XACK finishes one, and no run starts after that.            *)
(***************************************************************************)
THEOREM ImplementsAtLeastOnce == Spec => ImplementsQueue
<1>1. Init => Queue!Init
  <2>. SUFFICES ASSUME Init PROVE Queue!Init
    OBVIOUS
  <2>1. stream = <<>> /\ pel = {} /\ acked = {}
    BY DEF Init, QueueInit
  <2>2. Submitted = {}
    BY <2>1 DEF Submitted, Queued
  <2>3. Running = [w \in Workers |-> NoJob]
    BY DEF Init, Running, IdleWorker
  <2>. QED
    BY <2>1, <2>2, <2>3 DEF Queue!Init, Running
<1>. QED
  BY <1>1, Invariance, Delivered, NextQueue, PTL DEF Spec, ImplementsQueue, Queue!Spec

-----------------------------------------------------------------------------
(* Settling, when no run outlasts the claim interval: one run per job.     *)

LEMMA RunsStep ==
  ASSUME IInv, DeliveryInv, OneRun, RunsPending, ~MayOverrun, Delivering
  PROVE  OneRun' /\ RunsPending'
<1>1. CASE QuietStep \/ \E j \in Jobs : RowStep(j) \/ AddStep(j)
  <2>1. RunsSame /\ UNCHANGED pel
    BY <1>1 DEF QuietStep, RowStep, AddStep, Xadd, XaddError
  <2>. QED
    BY <2>1 DEF RunsSame, OneRun, RunsPending
<1>2. ASSUME NEW w \in Workers, DropStep(w) PROVE OneRun' /\ RunsPending'
  <2>1. /\ wk'[w].job = NoJob /\ RunsBut(w)
        /\ pel' = pel \/ pel' = pel \ {wk[w].job}
    BY <1>2 DEF DropStep, XackError, Xack, queueVars
  <2>2. OneRun'
    BY <2>1 DEF OneRun, RunsBut
  <2>3. RunsPending'
    BY <2>1 DEF OneRun, RunsPending, RunsBut
  <2>. QED
    BY <2>2, <2>3
<1>3. ASSUME NEW w \in Workers, NEW j \in Jobs, TakeStep(w, j)
      PROVE  OneRun' /\ RunsPending'
  <2>1. /\ wk[w].job = NoJob /\ wk'[w].job = j /\ RunsBut(w) /\ j # NoJob
        /\ j \in pel' /\ pel \subseteq pel'
    BY <1>3, JobsAssumption DEF TakeStep, ReadNext, Reclaim, queueVars
  <2>2. \A v \in Workers : wk[v].job # j
    <3>1. CASE ReadNext(j)
      <4>1. j \notin pel
        <5>1. stream \in Seq(Jobs) /\ stream # <<>> /\ j = Head(stream)
          BY <3>1 DEF ReadNext, IInv, TypeOK, QueueTypeOK
        <5>2. 1 \in DOMAIN stream /\ j = stream[1]
          BY <5>1
        <5>. QED
          BY <5>2 DEF DeliveryInv, EntriesOnce
      <4>. QED
        BY <2>1, <4>1 DEF RunsPending
    <3>2. CASE ~ReadNext(j)
      BY <1>3, <3>2 DEF TakeStep
    <3>. QED
      BY <3>1, <3>2
  <2>3. OneRun'
    BY <2>1, <2>2 DEF OneRun, RunsBut
  <2>4. RunsPending'
    BY <2>1 DEF RunsPending, RunsBut
  <2>. QED
    BY <2>3, <2>4
<1>. QED
  BY <1>1, <1>2, <1>3 DEF Delivering

-----------------------------------------------------------------------------
(* Awaiting and settling: what has to be checked of a step.                *)

LEMMA HandsFitStep ==
  ASSUME IInv, HandsFit, RowsStay,
         \A v \in Workers : wk'[v].pc = "knowledge" =>
           \/ wk'[v].job = wk[v].job /\ At(v, "knowledge")
           \/ jobs'[wk'[v].job].kind # "ingest",
         \A q \in Requests : req'[q].pc = "announce" =>
           \/ req'[q] = req[q]
           \/ /\ jobs'[req'[q].job].kind = "ingest"
              /\ jobs'[req'[q].job].doc = req'[q].doc
  PROVE  HandsFit'
<1>1. ASSUME NEW v \in Workers, wk'[v].pc = "knowledge"
      PROVE  jobs'[wk'[v].job].kind # "ingest"
  BY <1>1 DEF IInv, WorkersHaveJobs, RowsStay, HandsFit, Ingest, At
<1>2. ASSUME NEW q \in Requests, req'[q].pc = "announce"
      PROVE  jobs'[req'[q].job].kind = "ingest" /\ jobs'[req'[q].job].doc = req'[q].doc
  BY <1>2 DEF IInv, RequestsHaveDocs, RowsStay, HandsFit, Ingest
<1>. QED
  BY <1>1, <1>2 DEF HandsFit, Ingest, At

LEMMA StillAwaited ==
  ASSUME IInv, RowsStay, NEW d \in Docs, Awaited(d),
         \A r \in Requests : Handling(r, d) => Handling(r, d)' \/ Awaited(d)',
         \A j \in Jobs : Ingest(j) /\ jobs[j].doc = d /\ Open(j) =>
           Open(j)' \/ Awaited(d)'
  PROVE  Awaited(d)'
<1>0. SUFFICES ASSUME ~Awaited(d)' PROVE FALSE
  OBVIOUS
<1>1. CASE \E r \in Requests : Handling(r, d)
  BY <1>0, <1>1 DEF Awaited
<1>2. ASSUME NEW j \in Jobs, Ingest(j), jobs[j].doc = d, Open(j)
      PROVE  FALSE
  <2>1. Exists(j)
    BY <1>2 DEF Open, Queued, IInv, EntriesHaveRows
  <2>2. Ingest(j)' /\ jobs'[j].doc = d
    BY <1>2, <2>1 DEF RowsStay, Ingest
  <2>3. Open(j)'
    BY <1>0, <1>2
  <2>. QED
    BY <1>0, <2>2, <2>3 DEF Awaited
<1>. QED
  BY <1>1, <1>2 DEF Awaited

-----------------------------------------------------------------------------
(* Awaiting and settling: a worker goes on with its job.                   *)

LEMMA FaultCounts ==
  ASSUME TypeOK, Fault
  PROVE  faults' # 0
BY DEF TypeOK, Fault

LEMMA InternalRows ==
  ASSUME IInv, NEW w \in Workers, Internal(w)
  PROVE  /\ \A j \in Jobs : j # wk[w].job => jobs'[j] = jobs[j]
         /\ PublishStage(w) => jobs'[wk[w].job].status = wk[w].stage
         /\ MarkJob(w) => jobs'[wk[w].job].status = "failed"
         /\ Closing(wk[w]) \/ At(w, "knowledge") => UNCHANGED jobs
<1>0. TypeOK /\ ~At(w, "idle") /\ ~At(w, "announce") /\ wk[w].job \in Jobs
  <2>1. TypeOK
    BY DEF IInv
  <2>. QED
    BY <2>1, InternalStep, AtWork
<1>1. CASE PublishStage(w) \/ PublishStageFails(w) \/ MarkJob(w) \/ MarkJobFails(w)
  <2>1. \E s : SetStatusError(wk[w].job, s) \/ SetStatus(wk[w].job, s)
    BY <1>1 DEF PublishStage, PublishStageFails, MarkJob, MarkJobFails
  <2>2. \A j \in Jobs : j # wk[w].job => jobs'[j] = jobs[j]
    BY <1>0, <2>1 DEF TypeOK, QueueTypeOK, SetStatus, SetStatusError, queueVars
  <2>3. ASSUME NEW s, SetStatus(wk[w].job, s) PROVE jobs'[wk[w].job].status = s
    BY <1>0, <2>3 DEF TypeOK, QueueTypeOK, SetStatus, JobRow
  <2>4. ~Closing(wk[w]) /\ ~At(w, "knowledge")
    BY <1>1 DEF PublishStage, PublishStageFails, MarkJob, MarkJobFails, Closing, At
  <2>. QED
    BY <2>2, <2>3, <2>4 DEF PublishStage, MarkJob
<1>2. CASE ~(PublishStage(w) \/ PublishStageFails(w) \/ MarkJob(w) \/ MarkJobFails(w))
  <2>1. UNCHANGED jobs
    BY <1>2 DEF Internal, CheckCancelled, CheckFails, LoadFails, FetchOrParse,
                ServiceFails, Persist, PersistConflict, PersistFails, PersistLost,
                EmbedBatch, EmbedDone, EmbedFails, SetFinalStatus,
                SetFinalStatusFails, NoAutoChain, MarkDocument, MarkDocumentFails,
                RunKnowledge, queueVars
  <2>. QED
    BY <1>2, <2>1
<1>. QED
  BY <1>1, <1>2

LEMMA InternalDoc ==
  ASSUME IInv, NEW w \in Workers, Internal(w)
  PROVE  /\ \A d \in Docs : InProgress(d)' => InProgress(d)
         /\ \A d \in Docs : DocOf(w) = d /\ (SetFinalStatus(w) \/ MarkDocument(w)) =>
              ~InProgress(d)'
<1>0. TypeOK /\ DocOf(w) \in Docs
  <2>1. TypeOK
    BY DEF IInv
  <2>. QED
    BY <2>1, InternalStep, AtWork
<1>1. CASE \/ SetFinalStatus(w) \/ SetFinalStatusFails(w) \/ MarkDocument(w)
           \/ MarkDocumentFails(w)
  <2>1. FinalStatus(w) \in {"needs_review", "indexed"}
    BY DEF FinalStatus
  <2>2. \E s \in {"needs_review", "indexed", "failed"} :
           \/ doc' = [doc EXCEPT ![DocOf(w)] = s]
           \/ doc' = doc /\ ~SetFinalStatus(w) /\ ~MarkDocument(w)
    BY <1>1, <2>1 DEF SetFinalStatus, SetFinalStatusFails, MarkDocument,
              MarkDocumentFails, SetDoc, At, AtStage
  <2>. QED
    BY <1>0, <2>2 DEF InProgress, TypeOK
<1>2. CASE ~ (\/ SetFinalStatus(w) \/ SetFinalStatusFails(w) \/ MarkDocument(w)
              \/ MarkDocumentFails(w))
  <2>1. UNCHANGED doc
    BY <1>2 DEF Internal, CheckCancelled, CheckFails, LoadFails, FetchOrParse,
                ServiceFails, Persist, PersistConflict, PersistFails, PersistLost,
                EmbedBatch, EmbedDone, EmbedFails, NoAutoChain, RunKnowledge, docVars,
                PublishStage, PublishStageFails, MarkJob, MarkJobFails
  <2>. QED
    BY <1>2, <2>1 DEF InProgress
<1>. QED
  BY <1>1, <1>2

\* What the steps below start from, and what they lead to.
Sound == IInv /\ DeliveryInv /\ AwaitInv /\ RowsStay
Carried == AwaitInv' /\ (SettleInv => (faults = 0 => ClosedSettled)')

LEMMA InternalSettles ==
  ASSUME Sound, NEW w \in Workers, Internal(w)
  PROVE  Carried
<1>0. TypeOK
  BY DEF Sound, IInv
<1>1. PICK r \in WorkerRec : Follows(w, r)
  BY <1>0, InternalStep
<1>2. UNCHANGED <<stream, pel, acked, req>> /\ ~At(w, "idle")
  BY <1>0, InternalStep
<1>3. /\ wk'[w] = r /\ \A v \in Workers : v # w => wk'[v] = wk[v]
      /\ r.job = wk[w].job
  BY <1>0, <1>1 DEF Follows, TypeOK
<1>4. wk[w].job \in Jobs /\ Exists(wk[w].job)
  BY <1>2, AtWork DEF Sound
<1>5. HandsFit'
  <2>1. \A v \in Workers : wk'[v].pc = "knowledge" =>
           wk'[v].job = wk[v].job /\ At(v, "knowledge")
    BY <1>1, <1>3 DEF Follows, At
  <2>. QED
    BY <1>2, <2>1, HandsFitStep DEF Sound, AwaitInv
<1>6. ASSUME faults' = 0 PROVE faults = 0 /\ ~Fault
  <2>1. ~Fault
    BY <1>0, <1>6, FaultCounts
  <2>2. UNCHANGED faults
    BY <2>1 DEF Internal, CheckCancelled, CheckFails, LoadFails, FetchOrParse,
                ServiceFails, Persist, PersistConflict, PersistFails, PersistLost,
                EmbedBatch, EmbedDone, EmbedFails, SetFinalStatus,
                SetFinalStatusFails, NoAutoChain, MarkDocument, MarkDocumentFails,
                RunKnowledge, PublishStage, PublishStageFails, MarkJob, MarkJobFails, budget
  <2>. QED
    BY <1>6, <2>1, <2>2
<1>7. ASSUME SettleInv, faults' = 0 PROVE ClosedSettled'
  <2>1. ClosedSettled
    BY <1>6, <1>7 DEF SettleInv
  <2>2. ASSUME NEW v \in Workers, Closing(wk'[v]), jobs'[wk'[v].job].kind = "ingest"
        PROVE  jobs'[wk'[v].job].status \in Terminal
    <3>1. CASE v # w
      <4>1. Closing(wk[v]) /\ wk'[v] = wk[v]
        BY <1>3, <2>2, <3>1
      <4>2. wk[v].job \in Jobs /\ Exists(wk[v].job)
        BY <4>1, AtWork DEF Closing, At, Sound
      <4>3. wk[v].job # wk[w].job
        BY <1>4, <1>7, <3>1, <4>2, JobsAssumption DEF SettleInv, OneRun
      <4>4. jobs'[wk[v].job] = jobs[wk[v].job]
        BY <4>2, <4>3, InternalRows DEF Sound
      <4>. QED
        BY <2>1, <2>2, <4>1, <4>4 DEF ClosedSettled, Ingest
    <3>2. CASE v = w
      <4>1. Ingest(wk[w].job)
        BY <1>3, <1>4, <2>2, <3>2 DEF Sound, RowsStay, Ingest
      <4>2. CASE Closing(wk[w])
        <5>1. UNCHANGED jobs
          BY <4>2, InternalRows DEF Sound
        <5>. QED
          BY <1>3, <2>1, <3>2, <4>1, <4>2, <5>1 DEF ClosedSettled
      <4>3. CASE PublishStage(w) /\ wk[w].stage = "done"
        BY <1>3, <3>2, <4>3, InternalRows DEF Terminal, Sound
      <4>4. CASE MarkJob(w)
        BY <1>3, <3>2, <4>4, InternalRows DEF Terminal, Sound
      <4>5. CASE MarkJobFails(w)
        BY <1>6, <1>7, <4>5 DEF MarkJobFails
      <4>6. CASE RunKnowledge(w)
        BY <4>1, <4>6 DEF RunKnowledge, Sound, AwaitInv, HandsFit
      <4>. QED
        BY <1>1, <1>3, <2>2, <3>2, <4>2, <4>3, <4>4, <4>5, <4>6 DEF Follows
    <3>. QED
      BY <3>1, <3>2
  <2>3. ASSUME NEW j \in acked, jobs'[j].kind = "ingest" PROVE jobs'[j].status \in Terminal
    <3>1. j \in Jobs
      BY <1>0 DEF TypeOK, QueueTypeOK
    <3>2. j # wk[w].job
      BY <1>4, <1>7, JobsAssumption DEF Sound, SettleInv, RunsPending, DeliveryInv, EntriesOnce
    <3>3. jobs'[j] = jobs[j]
      BY <3>1, <3>2, InternalRows DEF Sound
    <3>. QED
      BY <2>1, <2>3, <3>3 DEF ClosedSettled, Ingest
  <2>. QED
    BY <1>2, <2>2, <2>3 DEF ClosedSettled, Ingest, Closing
<1>8. ASSUME faults' = 0, NEW d \in Docs, InProgress(d)' PROVE Awaited(d)'
  <2>1. InProgress(d) /\ Awaited(d)
    BY <1>6, <1>8, InternalDoc DEF Sound, AwaitInv
  <2>2. Pursuing(wk[w]) /\ DocOf(w) = d => Pursuing(wk'[w])
    <3>1. ~MarkDocumentFails(w)
      BY <1>6, <1>8 DEF MarkDocumentFails
    <3>2. DocOf(w) = d => ~SetFinalStatus(w) /\ ~MarkDocument(w)
      BY <1>8, InternalDoc DEF Sound
    <3>. QED
      BY <1>1, <1>3, <3>1, <3>2 DEF Follows
  <2>3. ASSUME NEW j \in Jobs, jobs[j].doc = d, Open(j) PROVE Open(j)'
    <3>1. ASSUME NEW v \in Workers, wk'[v].job = j PROVE Pursuing(wk'[v])
      <4>1. wk[v].job = j /\ Pursuing(wk[v])
        BY <1>3, <2>3, <3>1 DEF Open
      <4>. QED
        BY <1>3, <2>2, <2>3, <4>1 DEF DocOf
    <3>. QED
      BY <1>2, <2>3, <3>1 DEF Open, Queued, Pursuing
  <2>4. \A q \in Requests : Handling(q, d) => Handling(q, d)'
    BY <1>2 DEF Handling
  <2>. QED
    BY <2>1, <2>3, <2>4, StillAwaited DEF Sound
<1>. QED
  BY <1>5, <1>7, <1>8 DEF Carried, AwaitInv

-----------------------------------------------------------------------------
(* Awaiting and settling: a worker takes a job, lays it down, or chains    *)
(* the next one.                                                           *)

LEMMA HandSettles ==
  ASSUME Sound, NEW w \in Workers, \A v \in Workers : v # w => wk'[v] = wk[v],
         UNCHANGED <<doc, req>>,
         \A j \in Jobs : Exists(j) => jobs'[j] = jobs[j],
         faults' = 0 => faults = 0,
         wk'[w].pc = "knowledge" => jobs'[wk'[w].job].kind # "ingest",
         Closing(wk'[w]) => Closing(wk[w]) /\ wk'[w].job = wk[w].job,
         \A j \in acked' : j \in acked \/ (Closing(wk[w]) /\ j = wk[w].job),
         \A j \in Jobs : Ingest(j) /\ Open(j) =>
           /\ Queued(j)' \/ j \in pel'
           /\ wk'[w].job = j => Pursuing(wk'[w])
  PROVE  Carried
<1>1. HandsFit'
  <2>1. \A v \in Workers : wk'[v].pc = "knowledge" =>
           \/ wk'[v].job = wk[v].job /\ At(v, "knowledge")
           \/ jobs'[wk'[v].job].kind # "ingest"
    BY DEF At
  <2>. QED
    BY <2>1, HandsFitStep DEF Sound, AwaitInv
<1>2. ASSUME SettleInv, faults' = 0 PROVE ClosedSettled'
  <2>1. ClosedSettled
    BY <1>2 DEF SettleInv
  <2>2. ASSUME NEW v \in Workers, Closing(wk[v]), Ingest(wk[v].job)
        PROVE  jobs[wk[v].job].status \in Terminal
    BY <2>1, <2>2 DEF ClosedSettled
  <2>3. ASSUME NEW v \in Workers, Closing(wk'[v])
        PROVE  /\ Closing(wk[v]) /\ wk'[v].job = wk[v].job
               /\ jobs'[wk[v].job] = jobs[wk[v].job]
    <3>1. Closing(wk[v]) /\ wk'[v].job = wk[v].job
      BY <2>3
    <3>2. wk[v].job \in Jobs /\ Exists(wk[v].job)
      BY <3>1, AtWork DEF Closing, At, Sound
    <3>. QED
      BY <3>1, <3>2
  <2>4. ASSUME NEW v \in Workers, Closing(wk[v])'
        PROVE  Ingest(wk[v].job)' => jobs'[wk'[v].job].status \in Terminal
    <3>1. Closing(wk'[v])
      BY <2>4 DEF Closing
    <3>. QED
      BY <2>2, <2>3, <3>1 DEF Ingest
  <2>5. ASSUME NEW j \in acked', Ingest(j)' PROVE jobs'[j].status \in Terminal
    <3>1. j \in Jobs /\ Exists(j)
      <4>1. CASE j \in acked
        BY <4>1 DEF Sound, IInv, TypeOK, QueueTypeOK, DeliveryInv, EntriesOnce
      <4>2. CASE Closing(wk[w]) /\ j = wk[w].job
        BY <4>2, AtWork DEF Closing, At, Sound
      <4>. QED
        BY <4>1, <4>2
    <3>2. jobs'[j] = jobs[j] /\ Ingest(j)
      BY <2>5, <3>1 DEF Ingest
    <3>. QED
      BY <2>1, <2>2, <3>2 DEF ClosedSettled
  <2>. QED
    BY <2>4, <2>5 DEF ClosedSettled
<1>3. ASSUME faults' = 0, NEW d \in Docs, InProgress(d)' PROVE Awaited(d)'
  <2>1. Awaited(d)
    BY <1>3 DEF Sound, AwaitInv, InProgress
  <2>2. ASSUME NEW j \in Jobs, Ingest(j), Open(j) PROVE Open(j)'
    <3>1. \A v \in Workers : wk'[v].job = j => Pursuing(wk'[v])
      BY <2>2 DEF Open
    <3>2. Queued(j)' \/ j \in pel'
      BY <2>2
    <3>. QED
      BY <3>1, <3>2 DEF Open, Pursuing
  <2>3. \A q \in Requests : Handling(q, d) => Handling(q, d)'
    BY DEF Handling
  <2>. QED
    BY <2>1, <2>2, <2>3, StillAwaited DEF Sound
<1>. QED
  BY <1>1, <1>2, <1>3 DEF Carried, AwaitInv

LEMMA ChainSettles ==
  ASSUME Sound, NEW w \in Workers,
         AutoChainRow(w) \/ AutoChainAnnounce(w) \/ AutoChainFails(w)
  PROVE  Carried
<1>0. TypeOK /\ wk[w] \in WorkerRec
  BY DEF Sound, IInv, TypeOK
<1>1. /\ UNCHANGED <<doc, req, pel, acked>> /\ (faults' = 0 => faults = 0)
      /\ Closing(wk[w]) /\ ~Pursuing(wk[w])
  BY <1>0, FaultCounts
     DEF AutoChainRow, AutoChainAnnounce, AutoChainFails, InsertRow, Xadd, XaddError,
         docVars, budget, Closing, Pursuing, At, AtStage
<1>2. \A j \in Jobs : Queued(j) => Queued(j)'
  <2>1. stream \in Seq(Jobs) /\ (stream' = stream \/ \E k \in Jobs : stream' = Append(stream, k))
    BY <1>0 DEF AutoChainRow, AutoChainAnnounce, AutoChainFails, InsertRow, Xadd, XaddError,
                TypeOK, QueueTypeOK, Sound, IInv, WorkersHaveJobs, At
  <2>. QED
    BY <2>1 DEF Queued
<1>3. \A j \in Jobs : Exists(j) => jobs'[j] = jobs[j]
  BY <1>0, NewRow DEF AutoChainRow, AutoChainAnnounce, AutoChainFails, Xadd, XaddError
<1>4. /\ \A v \in Workers : v # w => wk'[v] = wk[v]
      /\ wk'[w].pc \in {"announce", "ack"} /\ wk'[w].job = wk[w].job
  <2>1. CASE AutoChainRow(w)
    <3>1. PICK j \in Jobs :
            wk' = [wk EXCEPT ![w] = [wk[w] EXCEPT !.pc = "announce", !.next = j]]
      BY <2>1 DEF AutoChainRow
    <3> DEFINE r == [wk[w] EXCEPT !.pc = "announce", !.next = j]
    <3>2. r.pc = "announce" /\ r.job = wk[w].job
      BY <1>0 DEF WorkerRec
    <3>3. wk' = [wk EXCEPT ![w] = r]
      BY <3>1
    <3>. HIDE DEF r
    <3>. QED
      BY <1>0, <3>2, <3>3 DEF TypeOK
  <2>2. CASE AutoChainAnnounce(w) \/ AutoChainFails(w)
    <3> DEFINE r == [wk[w] EXCEPT !.pc = "ack", !.next = NoJob]
    <3>1. r.pc = "ack" /\ r.job = wk[w].job
      BY <1>0 DEF WorkerRec
    <3>2. wk' = [wk EXCEPT ![w] = r]
      BY <2>2 DEF AutoChainAnnounce, AutoChainFails
    <3>. HIDE DEF r
    <3>. QED
      BY <1>0, <3>1, <3>2 DEF TypeOK
  <2>. QED
    BY <2>1, <2>2
<1>5. \A j \in Jobs : Open(j) => wk'[w].job # j
  BY <1>1, <1>4 DEF Open
<1>6. \A j \in Jobs : Open(j) => Queued(j)' \/ j \in pel'
  BY <1>1, <1>2 DEF Open
<1>7. ~(wk'[w].pc = "knowledge")
  BY <1>4
<1>. QED
  BY <1>1, <1>3, <1>4, <1>5, <1>6, <1>7, HandSettles

LEMMA DropSettles ==
  ASSUME Sound, NEW w \in Workers, Ack(w) \/ AckFails(w) \/ WorkerCrash(w)
  PROVE  Carried
<1>0. TypeOK
  BY DEF Sound, IInv
<1>1. /\ UNCHANGED <<doc, req, stream, jobs>> /\ (faults' = 0 => faults = 0)
      /\ ~At(w, "idle") /\ wk' = [wk EXCEPT ![w] = IdleWorker]
  BY <1>0, FaultCounts
     DEF Ack, AckFails, WorkerCrash, Xack, XackError, Crash, queueVars, docVars, budget, At
<1>2. /\ \A v \in Workers : v # w => wk'[v] = wk[v]
      /\ wk'[w] = IdleWorker
  BY <1>0, <1>1 DEF TypeOK
<1>3. /\ wk'[w].job = NoJob /\ wk'[w].pc = "idle"
      /\ ~Closing(wk'[w]) /\ ~Pursuing(wk'[w])
  BY <1>2 DEF IdleWorker, Closing, Pursuing
<1>4. \A j \in Jobs : j # wk'[w].job
  BY <1>3, JobsAssumption
<1>5. CASE WorkerCrash(w)
  <2>1. UNCHANGED <<pel, acked>>
    BY <1>5 DEF WorkerCrash, queueVars
  <2>2. \A j \in Jobs : Open(j) => Queued(j)' \/ j \in pel'
    BY <1>1, <2>1 DEF Open, Queued
  <2>. QED
    BY <1>1, <1>2, <1>3, <1>4, <2>1, <2>2, HandSettles
<1>6. CASE Ack(w) \/ AckFails(w)
  <2>1. Closing(wk[w]) /\ ~Pursuing(wk[w])
    BY <1>6 DEF Ack, AckFails, At, Closing, Pursuing
  <2>2. /\ \A j \in acked' : j \in acked \/ j = wk[w].job
        /\ \A j \in pel : j \in pel' \/ j = wk[w].job
    BY <1>6 DEF Ack, AckFails, Xack, XackError, queueVars
  <2>3. \A j \in Jobs : Open(j) => Queued(j)' \/ j \in pel'
    BY <1>1, <2>1, <2>2 DEF Open, Queued
  <2>. QED
    BY <1>1, <1>2, <1>3, <1>4, <2>1, <2>2, <2>3, HandSettles
<1>. QED
  BY <1>5, <1>6

LEMMA TakeSettles ==
  ASSUME Sound, NEW w \in Workers, NextJob(w) \/ ClaimStale(w)
  PROVE  Carried
<1>0. TypeOK
  BY DEF Sound, IInv
<1>1. PICK j \in Jobs : (ReadNext(j) \/ Reclaim(j)) /\ Begin(w, j)
  BY DEF NextJob, ClaimStale
<1>2. /\ UNCHANGED <<doc, req, jobs, acked, faults>> /\ At(w, "idle")
  BY <1>1 DEF NextJob, ClaimStale, ReadNext, Reclaim, queueVars, docVars, budget
<1>3. PICK pc \in {"check", "knowledge"} :
        /\ wk' = [wk EXCEPT ![w] = [IdleWorker EXCEPT !.job = j, !.pc = pc]]
        /\ pc = "check" <=> Ingest(j)
  BY <1>1 DEF Begin, Ingest
<1> DEFINE r == [IdleWorker EXCEPT !.job = j, !.pc = pc]
<1>4. r.pc = pc /\ r.job = j /\ r.stage = "extract"
  BY DEF IdleWorker
<1>5. wk' = [wk EXCEPT ![w] = r]
  BY <1>3
<1>. HIDE DEF r
<1>6. wk'[w] = r /\ \A v \in Workers : v # w => wk'[v] = wk[v]
  BY <1>0, <1>5 DEF TypeOK
<1>7. /\ wk'[w].job = j /\ (Ingest(j) => Pursuing(wk'[w])) /\ ~Closing(wk'[w])
      /\ wk'[w].pc = "knowledge" => jobs'[j].kind # "ingest"
  BY <1>2, <1>3, <1>4, <1>6 DEF Pursuing, Closing, Ingest
<1>8. ~Pursuing(wk[w])
  BY <1>2 DEF At, Pursuing
<1>9. \A k \in Jobs : Queued(k) => Queued(k)' \/ k = j
  <2>1. CASE ReadNext(j)
    <3>1. stream \in Seq(Jobs) /\ stream # <<>> /\ j = Head(stream) /\ stream' = Tail(stream)
      BY <1>0, <2>1 DEF ReadNext, TypeOK, QueueTypeOK
    <3>2. \A i \in DOMAIN stream :
            \/ stream[i] = j
            \/ i - 1 \in DOMAIN stream' /\ stream[i] = stream'[i - 1]
      BY <3>1
    <3>. QED
      BY <3>2 DEF Queued
  <2>2. CASE Reclaim(j)
    BY <2>2 DEF Reclaim, queueVars, Queued
  <2>. QED
    BY <1>1, <2>1, <2>2
<1>10. pel \subseteq pel'
  BY <1>1 DEF ReadNext, Reclaim, queueVars
<1>11. \A k \in Jobs : Ingest(k) /\ Open(k) =>
         /\ Queued(k)' \/ k \in pel'
         /\ wk'[w].job = k => Pursuing(wk'[w])
  <2>1. j \in pel'
    BY <1>1 DEF ReadNext, Reclaim, queueVars
  <2>. QED
    BY <1>7, <1>9, <1>10, <2>1 DEF Open
<1>. QED
  BY <1>2, <1>6, <1>7, <1>8, <1>11, HandSettles

-----------------------------------------------------------------------------
(* Awaiting and settling: the handlers.                                    *)

LEMMA CallSettles ==
  ASSUME Sound, UNCHANGED <<wk, pel, acked>>,
         faults' = 0 => faults = 0,
         \A j \in Jobs : Exists(j) => jobs'[j].status \in {jobs[j].status, "cancelled"},
         \A j \in Jobs : Queued(j) => Queued(j)',
         \A q \in Requests : req'[q].pc = "announce" =>
           \/ req'[q] = req[q]
           \/ /\ jobs'[req'[q].job].kind = "ingest"
              /\ jobs'[req'[q].job].doc = req'[q].doc,
         \A d \in Docs : faults' = 0 /\ InProgress(d)' =>
           /\ InProgress(d) \/ \E q \in Requests : Handling(q, d)'
           /\ \A q \in Requests : Handling(q, d) =>
                \/ Handling(q, d)'
                \/ /\ req[q].pc = "announce"
                   /\ \E i \in DOMAIN stream' : stream'[i] = req[q].job
  PROVE  Carried
<1>1. HandsFit'
  BY HandsFitStep DEF Sound, AwaitInv, At
<1>2. ASSUME SettleInv, faults' = 0 PROVE ClosedSettled'
  <2>1. ClosedSettled
    BY <1>2 DEF SettleInv
  <2>2. ASSUME NEW j \in Jobs, Exists(j), jobs[j].status \in Terminal
        PROVE  jobs'[j].status \in Terminal
    BY <2>2 DEF Terminal
  <2>3. ASSUME NEW w \in Workers, Closing(wk[w]), jobs'[wk[w].job].kind = "ingest"
        PROVE  jobs'[wk[w].job].status \in Terminal
    <3>1. wk[w].job \in Jobs /\ Exists(wk[w].job)
      BY <2>3, AtWork DEF Closing, At, Sound
    <3>2. Ingest(wk[w].job)
      BY <2>3, <3>1 DEF Sound, RowsStay, Ingest
    <3>. QED
      BY <2>1, <2>2, <2>3, <3>1, <3>2 DEF ClosedSettled
  <2>4. ASSUME NEW j \in acked, jobs'[j].kind = "ingest"
        PROVE  jobs'[j].status \in Terminal
    <3>1. j \in Jobs /\ Exists(j)
      BY DEF Sound, IInv, TypeOK, QueueTypeOK, DeliveryInv, EntriesOnce
    <3>2. Ingest(j)
      BY <2>4, <3>1 DEF Sound, RowsStay, Ingest
    <3>. QED
      BY <2>1, <2>2, <3>1, <3>2 DEF ClosedSettled
  <2>. QED
    BY <2>3, <2>4 DEF ClosedSettled, Ingest, Closing
<1>3. ASSUME faults' = 0, NEW d \in Docs, InProgress(d)' PROVE Awaited(d)'
  <2>1. CASE \E q \in Requests : Handling(q, d)'
    BY <2>1 DEF Awaited, Handling
  <2>2. CASE Awaited(d)
    <3>1. ASSUME NEW q \in Requests, Handling(q, d), req[q].pc = "announce",
                 \E i \in DOMAIN stream' : stream'[i] = req[q].job
          PROVE  Awaited(d)'
      <4>1. PICK j \in Jobs : j = req[q].job
        BY <3>1 DEF Sound, IInv, RequestsHaveDocs
      <4>2. Ingest(j) /\ jobs[j].doc = d /\ Exists(j)
        BY <3>1, <4>1 DEF Sound, AwaitInv, HandsFit, IInv, RequestsHaveDocs, Handling
      <4>3. Ingest(j)' /\ jobs'[j].doc = d
        BY <4>2 DEF Sound, RowsStay, Ingest
      <4>4. \A w \in Workers : wk[w].job # j
        <5>1. AnnouncedBy(q) = j /\ j # NoJob
          BY <3>1, <4>1, JobsAssumption DEF AnnouncedBy, NoJob
        <5>2. j \notin Submitted
          BY <5>1 DEF Sound, DeliveryInv, AnnouncedOnce
        <5>. QED
          BY <5>1, <5>2 DEF Sound, DeliveryInv, RunsDelivered, Submitted
      <4>5. Open(j)'
        BY <3>1, <4>1, <4>4 DEF Open, Queued
      <4>. QED
        BY <4>3, <4>5 DEF Awaited
    <3>2. \A q \in Requests : Handling(q, d) => Handling(q, d)' \/ Awaited(d)'
      BY <1>3, <3>1
    <3>3. \A j \in Jobs : Open(j) => Open(j)'
      BY DEF Open, Pursuing
    <3>. QED
      BY <2>2, <3>2, <3>3, StillAwaited DEF Sound
  <2>. QED
    BY <1>3, <2>1, <2>2 DEF Sound, AwaitInv
<1>. QED
  BY <1>1, <1>2, <1>3 DEF Carried, AwaitInv

\* A step of handler r that leaves it with record q.
LEMMA HandlerSettles ==
  ASSUME Sound, \A w \in Workers : ~Internal(w), UNCHANGED <<wk, pel, acked>>,
         NEW r \in Requests, NEW q \in RequestRec, req' = [req EXCEPT ![r] = q],
         faults' = 0 => faults = 0,
         stream' = stream \/ \E j \in Jobs : stream' = Append(stream, j),
         q.pc = "announce" => jobs'[q.job].kind = "ingest" /\ jobs'[q.job].doc = q.doc,
         \A d \in Docs : faults' = 0 /\ InProgress(d)' =>
           /\ \/ InProgress(d)
              \/ q.doc = d /\ q.pc \in {"created", "enqueue", "announce"}
           /\ Handling(r, d) =>
                \/ q.doc = d /\ q.pc \in {"created", "enqueue", "announce"}
                \/ /\ req[r].pc = "announce"
                   /\ \E i \in DOMAIN stream' : stream'[i] = req[r].job
  PROVE  Carried
<1>1. req'[r] = q /\ \A p \in Requests : p # r => req'[p] = req[p]
  BY DEF Sound, IInv, TypeOK
<1>2. \A j \in Jobs : Exists(j) => jobs'[j].status \in {jobs[j].status, "cancelled"}
  BY DEF Sound, RowsStay
<1>3. \A j \in Jobs : Queued(j) => Queued(j)'
  <2>1. stream \in Seq(Jobs)
    BY DEF Sound, IInv, TypeOK, QueueTypeOK
  <2>. QED
    BY <2>1 DEF Queued
<1>4. \A p \in Requests : req'[p].pc = "announce" =>
        \/ req'[p] = req[p]
        \/ jobs'[req'[p].job].kind = "ingest" /\ jobs'[req'[p].job].doc = req'[p].doc
  BY <1>1
<1>5. \A d \in Docs :
        /\ Handling(r, d)' <=> q.doc = d /\ q.pc \in {"created", "enqueue", "announce"}
        /\ \A p \in Requests : p # r => (Handling(p, d)' <=> Handling(p, d))
  BY <1>1 DEF Handling
<1>6. \A d \in Docs : faults' = 0 /\ InProgress(d)' =>
        /\ InProgress(d) \/ \E p \in Requests : Handling(p, d)'
        /\ \A p \in Requests : Handling(p, d) =>
             \/ Handling(p, d)'
             \/ /\ req[p].pc = "announce"
                /\ \E i \in DOMAIN stream' : stream'[i] = req[p].job
  BY <1>5
<1>. QED
  BY <1>2, <1>3, <1>4, <1>6, CallSettles

\* Starting a request.
LEMMA StartSettles ==
  ASSUME Sound, \A w \in Workers : ~Internal(w), NEW r \in Requests, RequestStart(r)
  PROVE  Carried
<1>0. TypeOK
  BY DEF Sound, IInv
<1>1. \A j \in Jobs : Exists(j) => jobs[j].doc \in Docs
  BY DEF Sound, IInv, RowsHaveDocs
<1>2. /\ UNCHANGED <<wk, pel, acked, stream, faults>> /\ req[r].pc = "idle"
  BY DEF RequestStart, InsertDocument, Retry, CancelRead, queueVars, budget
<1>3. PICK d \in Docs, j \in Jobs \cup {NoJob}, b \in BOOLEAN,
           pc \in {"created", "enqueue", "cancelling"} :
        /\ req' = [req EXCEPT ![r] = [pc |-> pc, doc |-> d, job |-> j, creates |-> b]]
        /\ \/ doc' = doc
           \/ pc \in {"created", "enqueue"} /\ \E s : doc' = [doc EXCEPT ![d] = s]
  BY <1>1 DEF RequestStart, InsertDocument, Retry, CancelRead, SetDoc, docVars
<1> DEFINE q == [pc |-> pc, doc |-> d, job |-> j, creates |-> b]
<1>4. q \in RequestRec /\ q.pc = pc /\ q.doc = d
  BY DEF RequestRec, RequestPC
<1>5. req' = [req EXCEPT ![r] = q]
  BY <1>3
<1>. HIDE DEF q
<1>6. \A e \in Docs : /\ InProgress(e)' => \/ InProgress(e)
                                           \/ q.doc = e /\ q.pc \in {"created", "enqueue"}
                      /\ ~Handling(r, e)
  BY <1>0, <1>2, <1>3, <1>4 DEF InProgress, Handling, TypeOK
<1>. QED
  BY <1>2, <1>4, <1>5, <1>6, HandlerSettles

\* Every answer of a handler that is not an announcement.
LEMMA EndSettles ==
  ASSUME Sound, \A w \in Workers : ~Internal(w), NEW r \in Requests,
         \/ FlipToProcessing(r) \/ MarkFailed(r) \/ CancelCommit(r) \/ FlipFails(r)
         \/ EnqueueRowFails(r) \/ MarkFailedFails(r) \/ CancelFails(r)
         \/ RequestCrash(r) \/ AnnounceFails(r) \/ Announce(r)
  PROVE  Carried
<1>0. TypeOK /\ req[r] \in RequestRec
  BY DEF Sound, IInv, TypeOK
<1>1. /\ UNCHANGED <<wk, pel, acked>> /\ (faults' = 0 => faults = 0 /\ ~Fault)
  BY <1>0, FaultCounts
     DEF FlipToProcessing, MarkFailed, CancelCommit, FlipFails, EnqueueRowFails,
         MarkFailedFails, CancelFails, RequestCrash, AnnounceFails, Announce, Xadd,
         XaddError, SetStatus, queueVars, budget
<1>2. stream' = stream \/ \E j \in Jobs : stream' = Append(stream, j)
  BY DEF FlipToProcessing, MarkFailed, CancelCommit, FlipFails, EnqueueRowFails,
         MarkFailedFails, CancelFails, RequestCrash, AnnounceFails, Announce, Xadd,
         XaddError, SetStatus, queueVars, Sound, IInv, RequestsHaveDocs
<1>3. CASE FlipToProcessing(r)
  <2> DEFINE q == [req[r] EXCEPT !.pc = "enqueue"]
  <2>1. q \in RequestRec /\ q.pc = "enqueue" /\ q.doc = req[r].doc
    BY <1>0 DEF RequestRec, RequestPC
  <2>2. req' = [req EXCEPT ![r] = q]
    BY <1>3 DEF FlipToProcessing, ReqGoto
  <2>. HIDE DEF q
  <2>3. doc' = [doc EXCEPT ![req[r].doc] = "processing"]
    BY <1>3 DEF FlipToProcessing, SetDoc
  <2>4. \A d \in Docs : /\ InProgress(d)' => InProgress(d) \/ q.doc = d
                        /\ Handling(r, d) => q.doc = d
    BY <1>0, <2>1, <2>3 DEF InProgress, Handling, TypeOK
  <2>. QED
    BY <1>1, <1>2, <2>1, <2>2, <2>4, HandlerSettles
<1>4. CASE MarkFailed(r) \/ CancelCommit(r)
  <2>1. IdleRequest \in RequestRec /\ IdleRequest.pc = "idle"
    BY DEF IdleRequest, RequestRec, RequestPC
  <2>2. /\ req' = [req EXCEPT ![r] = IdleRequest]
        /\ doc' = [doc EXCEPT ![req[r].doc] = "failed"]
        /\ req[r].pc \in {"markfailed", "cancelling"}
    BY <1>4 DEF MarkFailed, CancelCommit, ReqDone, SetDoc
  <2>3. \A d \in Docs : /\ InProgress(d)' => InProgress(d)
                        /\ ~Handling(r, d)
    BY <1>0, <2>2 DEF InProgress, Handling, TypeOK
  <2>. QED
    BY <1>1, <1>2, <2>1, <2>2, <2>3, HandlerSettles
<1>5. CASE Announce(r)
  <2>1. IdleRequest \in RequestRec /\ IdleRequest.pc = "idle"
    BY DEF IdleRequest, RequestRec, RequestPC
  <2>2. /\ req' = [req EXCEPT ![r] = IdleRequest] /\ doc' = doc
        /\ req[r].pc = "announce" /\ stream' = Append(stream, req[r].job)
    BY <1>5 DEF Announce, ReqDone, docVars, Xadd
  <2>3. \E i \in DOMAIN stream' : stream'[i] = req[r].job
    <3>1. stream \in Seq(Jobs)
      BY <1>0 DEF TypeOK, QueueTypeOK
    <3>. QED
      BY <2>2, <3>1
  <2>4. \A d \in Docs : InProgress(d)' => InProgress(d)
    BY <2>2 DEF InProgress
  <2>. QED
    BY <1>1, <1>2, <2>1, <2>2, <2>3, <2>4, HandlerSettles
<1>6. CASE \/ FlipFails(r) \/ EnqueueRowFails(r) \/ MarkFailedFails(r) \/ CancelFails(r)
           \/ RequestCrash(r) \/ AnnounceFails(r)
  <2>1. Fault /\ (ReqDone(r) \/ EnqueueError(r))
    BY <1>6 DEF FlipFails, EnqueueRowFails, MarkFailedFails, CancelFails, RequestCrash,
                AnnounceFails
  <2>2. \E q \in RequestRec : req' = [req EXCEPT ![r] = q] /\ q.pc # "announce"
    BY <1>0, <2>1, DoneQuiet
  <2>. QED
    BY <1>1, <1>2, <2>1, <2>2, HandlerSettles
<1>. QED
  BY <1>3, <1>4, <1>5, <1>6

LEMMA EnqueueSettles ==
  ASSUME Sound, \A w \in Workers : ~Internal(w), NEW r \in Requests, EnqueueRow(r)
  PROVE  Carried
<1>0. TypeOK /\ req[r] \in RequestRec
  BY DEF Sound, IInv, TypeOK
<1>1. PICK j \in Jobs :
        /\ InsertRow(j, "ingest", req[r].doc)
        /\ req' = [req EXCEPT ![r] = [req[r] EXCEPT !.pc = "announce", !.job = j]]
  BY DEF EnqueueRow
<1> DEFINE q == [req[r] EXCEPT !.pc = "announce", !.job = j]
<1>2. q \in RequestRec /\ q.pc = "announce" /\ q.job = j /\ q.doc = req[r].doc
  BY <1>0 DEF RequestRec, RequestPC
<1>3. req' = [req EXCEPT ![r] = q]
  BY <1>1
<1>. HIDE DEF q
<1>4. UNCHANGED <<wk, pel, acked, stream, faults, doc>>
  BY <1>1 DEF EnqueueRow, InsertRow, docVars, budget
<1>5. jobs'[j].kind = "ingest" /\ jobs'[j].doc = req[r].doc
  BY <1>0, <1>1, NewRow
<1>6. \A d \in Docs : /\ InProgress(d)' => InProgress(d)
                      /\ Handling(r, d) => q.doc = d
  BY <1>2, <1>4 DEF InProgress, Handling
<1>. QED
  BY <1>2, <1>3, <1>4, <1>5, <1>6, HandlerSettles

-----------------------------------------------------------------------------
(* Awaiting and settling: the invariant and what follows from it.          *)

LEMMA InitSettle == Init => AwaitInv /\ SettleInv
<1>. SUFFICES ASSUME Init PROVE AwaitInv /\ SettleInv
  OBVIOUS
<1>1. \A w \in Workers : /\ wk[w].job = NoJob /\ ~At(w, "knowledge")
                         /\ ~Closing(wk[w])
  BY DEF Init, IdleWorker, At, Closing
<1>2. \A r \in Requests : req[r].pc # "announce"
  BY DEF Init, IdleRequest
<1>3. acked = {} /\ \A d \in Docs : ~InProgress(d)
  BY DEF Init, QueueInit, InProgress
<1>. QED
  BY <1>1, <1>2, <1>3
     DEF SettleInv, OneRun, RunsPending, ClosedSettled, AwaitInv, HandsFit

LEMMA NextCarries == IInv /\ DeliveryInv /\ AwaitInv /\ [Next]_vars => Carried
<1>. SUFFICES ASSUME IInv, DeliveryInv, AwaitInv, [Next]_vars PROVE Carried
  OBVIOUS
<1>1. Sound
  BY StepRows DEF Sound
<1>2. CASE \E w \in Workers : Internal(w)
  BY <1>1, <1>2, InternalSettles
<1>3. CASE \A w \in Workers : ~Internal(w)
  <2>1. CASE UNCHANGED vars \/ \E d \in Docs : Reindex(d)
    <3>1. UNCHANGED <<stream, pel, acked, jobs, wk, req, faults, doc>>
      BY <2>1 DEF vars, Reindex, queueVars, docVars, budget
    <3>2. \A j \in Jobs : Queued(j) => Queued(j)'
      BY <3>1 DEF Queued
    <3>3. \A d \in Docs : /\ InProgress(d)' => InProgress(d)
                          /\ \A q \in Requests : Handling(q, d) => Handling(q, d)'
      BY <3>1 DEF InProgress, Handling
    <3>. QED
      BY <1>1, <3>1, <3>2, <3>3, CallSettles
  <2>2. ASSUME NEW w \in Workers, NextJob(w) \/ ClaimStale(w) \/ WorkerStep(w)
                                  \/ WorkerFault(w) \/ WorkerCrash(w)
        PROVE  Carried
    BY <1>1, <1>3, <2>2, TakeSettles, DropSettles, ChainSettles
       DEF WorkerStep, WorkerFault, Internal
  <2>3. ASSUME NEW r \in Requests,
               RequestStart(r) \/ RequestStep(r) \/ RequestFault(r) \/ RequestCrash(r)
        PROVE  Carried
    BY <1>1, <1>3, <2>3, StartSettles, EndSettles, EnqueueSettles
       DEF RequestStep, RequestFault
  <2>. QED
    BY <2>1, <2>2, <2>3 DEF Next
<1>. QED
  BY <1>2, <1>3

LEMMA NextSettle ==
  ASSUME ~MayOverrun
  PROVE  IInv /\ DeliveryInv /\ AwaitInv /\ SettleInv /\ [Next]_vars => SettleInv'
<1>. SUFFICES ASSUME IInv, DeliveryInv, AwaitInv, SettleInv, [Next]_vars PROVE SettleInv'
  OBVIOUS
<1>1. OneRun' /\ RunsPending'
  BY StepDelivers, RunsStep DEF SettleInv
<1>2. (faults = 0 => ClosedSettled)'
  BY NextCarries DEF Carried
<1>. QED
  BY <1>1, <1>2 DEF SettleInv

(***************************************************************************)
(* While Postgres and Redis answer and handlers run to their end, every    *)
(* document in progress has a handler about to queue its ingest, or an     *)
(* ingest with an entry, all of whose runs will still write its status.    *)
(***************************************************************************)
THEOREM Awaiting == Spec => []AwaitInv
<1>1. IInv /\ DeliveryInv /\ AwaitInv /\ [Next]_vars => AwaitInv'
  BY NextCarries DEF Carried
<1>. QED
  BY <1>1, InitSettle, Invariance, Delivered, PTL DEF Spec

(***************************************************************************)
(* Under the same conditions a document that create_document or retry_job  *)
(* left in progress has a handler, an entry or a worker to finish it,      *)
(* whatever workers are killed and however long runs take: duplicate runs  *)
(* of a reclaimed entry never leave the document to nobody.                *)
(***************************************************************************)
THEOREM NoOrphans == Spec => []NoOrphanDocument
<1>1. AwaitInv => NoOrphanDocument
  <2>. SUFFICES ASSUME AwaitInv, faults = 0, NEW d \in Docs, InProgress(d)
                PROVE  \/ \E r \in Requests :
                            req[r].doc = d /\ req[r].pc \in {"created", "enqueue", "announce"}
                       \/ \E j \in Jobs : /\ jobs[j].doc = d /\ jobs[j].kind = "ingest"
                                          /\ Queued(j) \/ j \in pel \/ Working(j)
    BY DEF NoOrphanDocument, InProgress
  <2>1. Awaited(d)
    BY DEF AwaitInv
  <2>. QED
    BY <2>1 DEF Awaited, Handling, Open, Ingest
<1>. QED
  BY <1>1, Awaiting, PTL

(***************************************************************************)
(* When no run outlasts the interval after which claim_stale takes its     *)
(* entry, every job has one run, whose entry is pending, and an ingest     *)
(* about to be acknowledged has a terminal row.                            *)
(***************************************************************************)
THEOREM Settling ==
  ASSUME ~MayOverrun
  PROVE  Spec => []SettleInv
BY InitSettle, NextSettle, Invariance, Delivered, Awaiting, PTL DEF Spec

(***************************************************************************)
(* With Postgres and Redis up and no run claimed while it is alive, the    *)
(* XACK of process() comes after the row of an ingest is terminal.         *)
(***************************************************************************)
THEOREM AckedIsSettled ==
  ASSUME ~MayOverrun
  PROVE  Spec => []SettledWhenAcked
<1>1. SettleInv => SettledWhenAcked
  BY DEF SettleInv, ClosedSettled, SettledWhenAcked, Ingest
<1>. QED
  BY <1>1, Settling, PTL

-----------------------------------------------------------------------------
(* Cancelled jobs. *)

\* What the steps below start from.
Punctual == IInv /\ DeliveryInv /\ SettleInv /\ ~MayOverrun

\* Without a fault or a crash, a step of a worker on a job that aborts is one
\* of these.
LEMMA AbortingMoves ==
  ASSUME IInv, NEW j \in Jobs, Aborting(j), NEW w \in Workers, wk[w].job = j,
         Internal(w), ~Fault
  PROVE  \/ CheckCancelled(w) /\ IsCancelled(j)
         \/ MarkDocument(w) \/ MarkJob(w) \/ RunKnowledge(w)
BY DEF Aborting, Internal, CheckCancelled, CheckFails, LoadFails, PublishStage,
       PublishStageFails, FetchOrParse, ServiceFails, Persist, PersistConflict,
       PersistFails, PersistLost, EmbedBatch, EmbedDone, EmbedFails, SetFinalStatus,
       SetFinalStatusFails, NoAutoChain, MarkDocument, MarkDocumentFails, MarkJob,
       MarkJobFails, RunKnowledge, At, AtStage

LEMMA InternalAborts ==
  ASSUME Punctual, NEW j \in Jobs, Aborting(j), NEW w \in Workers, Internal(w), ~Fault
  PROVE  Aborting(j)'
<1>0. TypeOK /\ IInv
  BY DEF Punctual, IInv
<1>1. PICK r \in WorkerRec : Follows(w, r)
  BY <1>0, InternalStep
<1>2. UNCHANGED acked
  BY <1>0, InternalStep
<1>3. /\ wk'[w] = r /\ \A v \in Workers : v # w => wk'[v] = wk[v]
      /\ r.job = wk[w].job
  BY <1>0, <1>1 DEF Follows, TypeOK
<1>4. Working(j) => Working(j)'
  BY <1>3 DEF Working
<1>5. CASE wk[w].job = j
  <2>1. /\ \A v \in Workers : wk'[v].job = j => v = w
        /\ Working(j)'
    BY <1>3, <1>5, JobsAssumption DEF Punctual, OneRun, SettleInv, Working, NoJob
  <2>2. /\ r.pc \in {"markdoc", "markjob", "ack"}
        /\ jobs'[j].status \in {"cancelled", "failed"}
    <3>1. CASE CheckCancelled(w) /\ IsCancelled(j)
      BY <1>0, <1>3, <1>5, <3>1 DEF CheckCancelled, Goto, TypeOK, WorkerRec, Aborting, queueVars
    <3>2. CASE MarkDocument(w) \/ RunKnowledge(w)
      BY <1>0, <1>3, <1>5, <3>2
         DEF MarkDocument, RunKnowledge, Goto, TypeOK, WorkerRec, Aborting, queueVars
    <3>3. CASE MarkJob(w)
      BY <1>0, <1>3, <1>5, <3>3
         DEF MarkJob, SetStatus, Goto, TypeOK, QueueTypeOK, JobRow, WorkerRec
    <3>. QED
      BY <1>0, <1>5, <3>1, <3>2, <3>3, AbortingMoves
  <2>. QED
    BY <1>3, <2>1, <2>2 DEF Aborting
<1>6. CASE wk[w].job # j
  <2>1. jobs'[j] = jobs[j]
    BY <1>0, <1>6, InternalRows
  <2>. QED
    BY <1>2, <1>3, <1>4, <1>6, <2>1 DEF Aborting, IsCancelled, At, AtStage
<1>. QED
  BY <1>5, <1>6

\* Neither the stream nor the pending list brings an acknowledged job back, so
\* a worker that takes a job that aborts finds it cancelled.
LEMMA TakeAborts ==
  ASSUME Punctual, NEW j \in Jobs, Aborting(j), NEW w \in Workers, NextJob(w) \/ ClaimStale(w)
  PROVE  Aborting(j)'
<1>0. TypeOK /\ ~MayOverrun
  BY DEF Punctual, IInv
<1>1. PICK k \in Jobs : /\ ReadNext(k) \/ Reclaim(k)
                        /\ ReadNext(k) \/ \A v \in Workers : wk[v].job # k
                        /\ Begin(w, k)
  BY <1>0 DEF NextJob, ClaimStale
<1>2. UNCHANGED <<jobs, acked>> /\ At(w, "idle")
  BY <1>1 DEF NextJob, ClaimStale, ReadNext, Reclaim, queueVars
<1>3. /\ wk'[w].job = k /\ \A v \in Workers : v # w => wk'[v] = wk[v]
      /\ wk'[w].pc = "knowledge" \/ (wk'[w].pc = "check" /\ wk'[w].stage = "extract")
  <2>1. PICK pc \in {"check", "knowledge"} :
          wk' = [wk EXCEPT ![w] = [IdleWorker EXCEPT !.job = k, !.pc = pc]]
    BY <1>1 DEF Begin
  <2> DEFINE r == [IdleWorker EXCEPT !.job = k, !.pc = pc]
  <2>2. r.pc = pc /\ r.job = k /\ r.stage = "extract"
    BY DEF IdleWorker
  <2>3. wk' = [wk EXCEPT ![w] = r]
    BY <2>1
  <2>. HIDE DEF r
  <2>4. wk'[w] = r /\ \A v \in Workers : v # w => wk'[v] = wk[v]
    BY <1>0, <2>3 DEF TypeOK
  <2>. QED
    BY <2>1, <2>2, <2>4
<1>4. wk[w].job = NoJob /\ j # NoJob
  BY <1>2, JobsAssumption DEF At, Punctual, IInv, WorkersHaveJobs, IdleWorker, NoJob
<1>5. Working(j) => Working(j)'
  BY <1>3, <1>4 DEF Working
<1>6. k \notin acked /\ ~Working(k)
  <2>1. CASE ReadNext(k)
    <3>1. stream \in Seq(Jobs) /\ stream # <<>> /\ k = Head(stream)
      BY <1>0, <2>1 DEF ReadNext, TypeOK, QueueTypeOK
    <3>2. 1 \in DOMAIN stream /\ stream[1] = k
      BY <3>1
    <3>3. k \notin pel \cup acked
      BY <3>2 DEF Punctual, DeliveryInv, EntriesOnce
    <3>4. k # NoJob
      BY JobsAssumption DEF NoJob
    <3>. QED
      BY <3>3, <3>4 DEF Punctual, DeliveryInv, RunsDelivered, Working
  <2>2. CASE Reclaim(k)
    BY <1>1, <2>2 DEF Reclaim, Punctual, DeliveryInv, EntriesOnce, Working, ReadNext
  <2>. QED
    BY <1>1, <2>1, <2>2
<1>7. k = j => IsCancelled(j)
  BY <1>6 DEF Aborting
<1>8. ASSUME NEW v \in Workers, wk'[v].job = j
      PROVE  \/ wk'[v].pc \in {"markdoc", "markjob", "ack"}
             \/ IsCancelled(j)' /\ (At(v, "knowledge")' \/ AtStage(v, "check", "extract")')
  <2>1. CASE v = w
    BY <1>2, <1>3, <1>7, <1>8, <2>1 DEF IsCancelled, At, AtStage
  <2>2. CASE v # w
    BY <1>2, <1>3, <1>8, <2>2 DEF Aborting, IsCancelled, At, AtStage
  <2>. QED
    BY <2>1, <2>2
<1>. QED
  BY <1>2, <1>5, <1>8 DEF Aborting, IsCancelled

\* The XACK ends the run of a job that aborts for good.
LEMMA AckAborts ==
  ASSUME Punctual, NEW j \in Jobs, Aborting(j), NEW w \in Workers, Ack(w)
  PROVE  Aborting(j)'
<1>1. UNCHANGED jobs /\ acked' = acked \cup (pel \cap {wk[w].job}) /\ ~At(w, "idle")
  BY DEF Ack, Xack, At
<1>2. /\ wk'[w].job = NoJob /\ \A v \in Workers : v # w => wk'[v] = wk[v]
      /\ j # NoJob
  BY JobsAssumption DEF Ack, Punctual, IInv, TypeOK, IdleWorker, NoJob
<1>3. wk[w].job = j => j \in acked'
  BY <1>1, <1>2 DEF Punctual, SettleInv, RunsPending
<1>4. wk[w].job # j /\ Working(j) => Working(j)'
  BY <1>2 DEF Working
<1>5. \A v \in Workers : wk'[v].job = j => wk'[v] = wk[v]
  BY <1>2
<1>. QED
  BY <1>1, <1>3, <1>4, <1>5 DEF Aborting, IsCancelled, At, AtStage

\* Whatever leaves the acknowledged entries and the runs of the job alone, and
\* does no more to its row than cancel it.
LEMMA OtherAborts ==
  ASSUME NEW j \in Jobs, Aborting(j),
         jobs'[j].status \in {jobs[j].status, "cancelled"}, acked \subseteq acked',
         \A w \in Workers : wk[w].job = j \/ wk'[w].job = j => wk'[w] = wk[w]
  PROVE  Aborting(j)'
<1>1. Working(j) => Working(j)'
  BY DEF Working
<1>2. IsCancelled(j) => IsCancelled(j)'
  BY DEF IsCancelled
<1>. QED
  BY <1>1, <1>2 DEF Aborting, At, AtStage

LEMMA NextAborts ==
  ASSUME ~MayOverrun, NEW j \in Jobs
  PROVE  IInv /\ DeliveryInv /\ SettleInv /\ (faults + crashes = 0 => Aborting(j)) /\ [Next]_vars
           => (faults + crashes = 0 => Aborting(j))'
<1>. SUFFICES ASSUME IInv, DeliveryInv, SettleInv, faults + crashes = 0 => Aborting(j),
                     [Next]_vars, faults' + crashes' = 0
              PROVE  Aborting(j)'
  OBVIOUS
<1>1. Punctual
  BY DEF Punctual
<1>2. IInv' /\ TypeOK /\ TypeOK'
  BY NextInv DEF IInv
<1>3. faults \in Nat /\ crashes \in Nat /\ faults' \in Nat /\ crashes' \in Nat
  BY <1>2, BoundsAssumption DEF TypeOK
<1>4. faults' = 0 /\ crashes' = 0 /\ ~Fault /\ ~Crash
  <2>0. \A m, n \in Nat : m + n = 0 => m = 0 /\ n = 0
    OBVIOUS
  <2>1. faults' = 0 /\ crashes' = 0
    BY <1>3, <2>0
  <2>2. ~Fault
    BY <1>3, <2>1 DEF Fault
  <2>3. ~Crash
    BY <1>3, <2>1 DEF Crash
  <2>. QED
    BY <2>1, <2>2, <2>3
<1>5. UNCHANGED <<faults, crashes>> => Aborting(j)
  BY <1>3, <1>4
<1>6. CASE UNCHANGED vars \/ \E d \in Docs : Reindex(d)
  <2>1. UNCHANGED <<jobs, acked, wk, faults, crashes>>
    BY <1>6 DEF vars, Reindex, queueVars, docVars, budget
  <2>. QED
    BY <1>5, <2>1, OtherAborts
<1>7. ASSUME NEW w \in Workers, NextJob(w) \/ ClaimStale(w) \/ WorkerStep(w)
                                \/ WorkerFault(w) \/ WorkerCrash(w)
      PROVE  Aborting(j)'
  <2>1. ~WorkerFault(w) /\ ~WorkerCrash(w)
    BY <1>4 DEF WorkerFault, CheckFails, LoadFails, PublishStageFails, PersistFails,
                PersistLost, SetFinalStatusFails, AutoChainFails, MarkDocumentFails,
                MarkJobFails, AckFails, WorkerCrash
  <2>2. UNCHANGED <<faults, crashes>>
    BY <1>7, <2>1
       DEF NextJob, ClaimStale, WorkerStep, CheckCancelled, PublishStage, FetchOrParse,
           ServiceFails, Persist, PersistConflict, EmbedBatch, EmbedDone, EmbedFails,
           SetFinalStatus, NoAutoChain, AutoChainRow, AutoChainAnnounce, MarkDocument,
           MarkJob, RunKnowledge, Ack, budget
  <2>3. Aborting(j)
    BY <1>5, <2>2
  <2>4. CASE NextJob(w) \/ ClaimStale(w)
    BY <1>1, <2>3, <2>4, TakeAborts
  <2>5. CASE Ack(w)
    BY <1>1, <2>3, <2>5, AckAborts
  <2>6. CASE AutoChainRow(w) \/ AutoChainAnnounce(w)
    <3>1. wk[w].job # j
      BY <2>3, <2>6 DEF Aborting, AutoChainRow, AutoChainAnnounce, At, AtStage
    <3>2. /\ wk'[w].job = wk[w].job /\ \A v \in Workers : v # w => wk'[v] = wk[v]
          /\ UNCHANGED acked
      BY <1>2, <2>6 DEF AutoChainRow, AutoChainAnnounce, InsertRow, Xadd, TypeOK, WorkerRec
    <3>3. jobs'[j] = jobs[j]
      <4>1. Exists(j)
        BY <2>3 DEF Aborting, Exists
      <4>. QED
        BY <1>2, <2>6, <4>1, NewRow DEF AutoChainRow, AutoChainAnnounce, Xadd
    <3>. QED
      BY <2>3, <3>1, <3>2, <3>3, OtherAborts
  <2>7. CASE Internal(w)
    BY <1>1, <1>4, <2>3, <2>7, InternalAborts
  <2>. QED
    BY <1>7, <2>1, <2>4, <2>5, <2>6, <2>7 DEF WorkerStep, Internal
<1>8. ASSUME NEW r \in Requests,
             RequestStart(r) \/ RequestStep(r) \/ RequestFault(r) \/ RequestCrash(r)
      PROVE  Aborting(j)'
  <2>1. ~RequestFault(r) /\ ~RequestCrash(r)
    BY <1>4 DEF RequestFault, FlipFails, EnqueueRowFails, AnnounceFails, MarkFailedFails,
                CancelFails, RequestCrash
  <2>2. UNCHANGED <<acked, wk, faults, crashes>>
    BY <1>8, <2>1
       DEF RequestStart, RequestStep, InsertDocument, Retry, CancelRead, FlipToProcessing,
           EnqueueRow, Announce, MarkFailed, CancelCommit, InsertRow, Xadd, SetStatus,
           queueVars, budget
  <2>3. Aborting(j) /\ Exists(j)
    BY <1>5, <2>2 DEF Aborting, Exists
  <2>4. jobs'[j].status \in {jobs[j].status, "cancelled"}
    <3>1. CASE CancelCommit(r)
      BY <1>2, <3>1 DEF CancelCommit, SetStatus, TypeOK, QueueTypeOK, JobRow
    <3>2. CASE EnqueueRow(r)
      BY <1>2, <2>3, <3>2, NewRow DEF EnqueueRow
    <3>3. CASE ~CancelCommit(r) /\ ~EnqueueRow(r)
      BY <1>8, <2>1, <3>3
         DEF RequestStart, RequestStep, InsertDocument, Retry, CancelRead,
             FlipToProcessing, Announce, MarkFailed, Xadd, queueVars
    <3>. QED
      BY <3>1, <3>2, <3>3
  <2>. QED
    BY <2>2, <2>3, <2>4, OtherAborts
<1>. QED
  BY <1>6, <1>7, <1>8 DEF Next

(***************************************************************************)
(* A job that cancel_job finds without a run never completes, as long as   *)
(* nothing fails, no process is killed and no run outlasts the claim       *)
(* interval: stage() of its next run reads the cancellation, and no entry  *)
(* leads to a run after the one that aborts.                               *)
(***************************************************************************)
THEOREM CancelledStays ==
  ASSUME ~MayOverrun
  PROVE  Spec => CancelledNeverCompletes
<1>1. ASSUME NEW j \in Jobs
      PROVE  Spec => [](IsCancelled(j) /\ ~Working(j) =>
                          [](faults + crashes = 0 => jobs[j].status # "done"))
  <2>1. IsCancelled(j) /\ ~Working(j) => Aborting(j)
    BY DEF Aborting, IsCancelled, Working
  <2>2. Aborting(j) => jobs[j].status # "done"
    BY DEF Aborting
  <2>3. IInv /\ DeliveryInv /\ SettleInv /\ (faults + crashes = 0 => Aborting(j)) /\ [Next]_vars
          => (faults + crashes = 0 => Aborting(j))'
    BY NextAborts
  <2> DEFINE Before == IsCancelled(j) /\ ~Working(j)
             During == faults + crashes = 0 => Aborting(j)
             After == faults + crashes = 0 => jobs[j].status # "done"
  <2>4. (Before => During) /\ (During => After)
    BY <2>1, <2>2
  <2>5. IInv /\ DeliveryInv /\ SettleInv /\ During /\ [Next]_vars => During'
    BY <2>3
  <2>. HIDE DEF Before, During, After
  <2>6. Spec => [](Before => []After)
    BY <2>4, <2>5, Invariance, Delivered, Settling, PTL DEF Spec
  <2>. QED
    BY <2>6 DEF Before, After
<1>. QED
  BY <1>1 DEF CancelledNeverCompletes
=============================================================================
