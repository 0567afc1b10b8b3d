----------------------------- MODULE UploadProofs -----------------------------
(***************************************************************************)
(* Proofs about DocumentUpload, for any attempts and keys, any cap and any *)
(* bound on failures.  What rests on a reservation that outlives its       *)
(* handler has ~MayOutlive as a hypothesis: see SoleHolder.                *)
(***************************************************************************)
EXTENDS DocumentUpload, TLAPS

(* Whoever is past the insert has a document, and whoever is about to       *)
(* report it has put its job on the stream.                                 *)
FinalizersAnnounced ==
  \A a \in Attempts :
    /\ At(a, "enqueue") => a \in documents
    /\ at[a].pc \in {"reread", "finalize"} => a \in announced

(* The reservation is a lock: while an attempt holds a key the marker is    *)
(* there, and nobody else holds it.                                         *)
SoleHolder ==
  \A a \in Attempts : Holding(a) /\ Keyed(a) =>
    /\ cache[KeyOf(a)] = Pending
    /\ \A b \in Attempts : Holding(b) /\ KeyOf(b) = KeyOf(a) => b = a

(* An answer is what is stored under the key.                               *)
AnswersStored ==
  \A a \in Attempts : At(a, "ok") /\ Keyed(a) =>
    cache[KeyOf(a)] \in Attempts /\ cache[KeyOf(a)] = at[a].answer

(* While nothing fails, the attempt that inserted a document still holds    *)
(* the key, or its document is stored under it.                             *)
DocumentsStored ==
  faults = 0 => \A a \in documents : Keyed(a) =>
    at[a].pc \in {"enqueue", "reread", "finalize"} \/ cache[KeyOf(a)] = a

StoredInv == TypeOK /\ FinalizersAnnounced /\ ReplaysAreReal

LockInv == SoleHolder /\ AnswersStored /\ DocumentsStored

-----------------------------------------------------------------------------
(* The two ways a request moves. *)

LEMMA GotoMoves ==
  ASSUME TypeOK, NEW a \in Attempts, NEW pc \in PC, Goto(a, pc)
  PROVE  /\ at' \in [Attempts -> AttemptRec]
         /\ at'[a] = [pc |-> pc, key |-> at[a].key, answer |-> at[a].answer]
         /\ \A b \in Attempts : b # a => at'[b] = at[b]
BY DEF TypeOK, AttemptRec, Goto

LEMMA AnswerMoves ==
  ASSUME TypeOK, NEW a \in Attempts, NEW d \in Attempts, Answer(a, d)
  PROVE  /\ at' \in [Attempts -> AttemptRec]
         /\ at'[a] = [pc |-> "ok", key |-> at[a].key, answer |-> d]
         /\ \A b \in Attempts : b # a => at'[b] = at[b]
BY DEF TypeOK, AttemptRec, Answer, KeyOf, PC

LEMMA StoreChanges ==
  ASSUME TypeOK, NEW a \in Attempts, Keyed(a), NEW v \in {Empty, Pending} \cup Attempts,
         Store(a, v)
  PROVE  /\ cache' \in [Keys -> {Empty, Pending} \cup Attempts]
         /\ cache'[KeyOf(a)] = v
         /\ \A k \in Keys : k # KeyOf(a) => cache'[k] = cache[k]
         /\ KeyOf(a) \in Keys
BY DEF TypeOK, AttemptRec, Store, Keyed, KeyOf

LEMMA FaultCounted ==
  ASSUME TypeOK, Fault
  PROVE  faults' \in 0 .. MaxFaults /\ faults' # 0
BY NumbersAssumption DEF TypeOK, Fault

(* What every step of an attempt does to the attempts.                      *)
Moves(a, r) ==
  /\ r \in AttemptRec /\ r.key = at[a].key
  /\ at' \in [Attempts -> AttemptRec]
  /\ at'[a] = r
  /\ \A b \in Attempts : b # a => at'[b] = at[b]

(* A step that leaves the stored values alone. *)
LEMMA CacheUntouched ==
  ASSUME StoredInv, NEW a \in Attempts, NEW r \in AttemptRec, Moves(a, r), UNCHANGED cache,
         documents' \in SUBSET Attempts, announced \subseteq announced',
         announced' \subseteq documents', faults' \in 0 .. MaxFaults,
         r.pc = "enqueue" => a \in documents',
         documents \subseteq documents',
         r.pc \in {"reread", "finalize"} => a \in announced'
  PROVE  StoredInv'
BY DEF StoredInv, TypeOK, FinalizersAnnounced, ReplaysAreReal, Moves, At

LEMMA LockUntouched ==
  ASSUME StoredInv, LockInv, NEW a \in Attempts, NEW r \in AttemptRec, Moves(a, r),
         UNCHANGED cache, documents' \subseteq documents \cup {a},
         faults' = 0 => faults = 0,
         r.pc \in {"cap", "insert", "enqueue", "reread", "finalize", "release"}
           => Holding(a) \/ ~Keyed(a),
         r.pc = "ok" /\ Keyed(a) =>
           cache[KeyOf(a)] \in Attempts /\ r.answer = cache[KeyOf(a)],
         faults' = 0 /\ a \in documents' /\ Keyed(a) =>
           r.pc \in {"enqueue", "reread", "finalize"} \/ cache[KeyOf(a)] = a
  PROVE  LockInv' /\ KeepsStored
<1>1. SoleHolder'
  BY DEF LockInv, SoleHolder, Moves, Holding, Keyed, KeyOf
<1>2. AnswersStored'
  BY DEF LockInv, AnswersStored, Moves, At, Keyed, KeyOf
<1>3. DocumentsStored'
  BY DEF StoredInv, TypeOK, LockInv, DocumentsStored, Moves, Keyed, KeyOf
<1>. QED
  BY <1>1, <1>2, <1>3 DEF LockInv, KeepsStored

(* A step that writes under the key of its attempt. *)
LEMMA CacheWritten ==
  ASSUME StoredInv, NEW a \in Attempts, NEW r \in AttemptRec, Moves(a, r), Keyed(a),
         NEW v \in {Empty, Pending} \cup Attempts, Store(a, v), v \in Attempts => v \in announced,
         UNCHANGED <<documents, announced>>, faults' \in 0 .. MaxFaults,
         r.pc \notin {"enqueue", "reread", "finalize"}
  PROVE  StoredInv'
<1>1. TypeOK'
  BY StoreChanges DEF StoredInv, TypeOK, Moves
<1>2. FinalizersAnnounced'
  BY DEF StoredInv, FinalizersAnnounced, Moves, At
<1>3. ReplaysAreReal'
  BY StoreChanges DEF StoredInv, ReplaysAreReal
<1>. QED
  BY <1>1, <1>2, <1>3 DEF StoredInv

LEMMA LockWritten ==
  ASSUME StoredInv, LockInv, NEW a \in Attempts, NEW r \in AttemptRec, Moves(a, r), Keyed(a),
         NEW v \in {Empty, Pending} \cup Attempts, Store(a, v),
         cache[KeyOf(a)] \notin Attempts,
         cache[KeyOf(a)] # Pending \/ Holding(a),
         UNCHANGED documents, faults' = 0 => faults = 0,
         v # Pending => r.pc \notin {"cap", "insert", "enqueue", "reread", "finalize", "release"},
         r.pc = "ok" => v = r.answer /\ v \in Attempts,
         faults' = 0 /\ a \in documents =>
           v = a \/ r.pc \in {"enqueue", "reread", "finalize"}
  PROVE  LockInv' /\ KeepsStored
<1>0. /\ cache'[KeyOf(a)] = v /\ KeyOf(a) \in Keys
      /\ \A k \in Keys : k # KeyOf(a) => cache'[k] = cache[k]
      /\ \A b \in Attempts : Keyed(b) => KeyOf(b) \in Keys
  BY StoreChanges DEF StoredInv, TypeOK, AttemptRec, Keyed, KeyOf
<1>1. \A b \in Attempts : Holding(b) /\ KeyOf(b) = KeyOf(a) => b = a
  BY DEF LockInv, SoleHolder, Keyed
<1>2. SoleHolder'
  BY <1>0, <1>1 DEF LockInv, SoleHolder, Moves, Holding, Keyed, KeyOf
<1>3. AnswersStored'
  BY <1>0 DEF LockInv, AnswersStored, Moves, At, Keyed, KeyOf
<1>4. DocumentsStored'
  BY <1>0, <1>1 DEF StoredInv, TypeOK, LockInv, DocumentsStored, Moves, Keyed, KeyOf, Holding
<1>. QED
  BY <1>0, <1>2, <1>3, <1>4 DEF LockInv, KeepsStored

-----------------------------------------------------------------------------
(* The steps of an attempt. *)

StepKeeps == StoredInv' /\ (LockInv => LockInv' /\ KeepsStored)

LEMMA GotoRecord ==
  ASSUME TypeOK, NEW a \in Attempts, NEW pc \in PC, Goto(a, pc)
  PROVE  LET r == [pc |-> pc, key |-> at[a].key, answer |-> at[a].answer]
         IN  r \in AttemptRec /\ Moves(a, r)
BY GotoMoves DEF Moves, TypeOK, AttemptRec

LEMMA AnswerRecord ==
  ASSUME TypeOK, NEW a \in Attempts, NEW d \in Attempts, Answer(a, d)
  PROVE  LET r == [pc |-> "ok", key |-> at[a].key, answer |-> d]
         IN  r \in AttemptRec /\ Moves(a, r)
BY AnswerMoves DEF Moves, TypeOK, AttemptRec, PC

(* Most steps go on and leave the cache alone. *)
LEMMA Walks ==
  ASSUME StoredInv, NEW a \in Attempts, NEW pc \in PC, Goto(a, pc), UNCHANGED cache,
         documents' \in SUBSET Attempts, announced \subseteq announced',
         announced' \subseteq documents', documents \subseteq documents', documents' \subseteq documents \cup {a},
         UNCHANGED faults \/ Fault,
         pc = "enqueue" => a \in documents',
         pc \in {"reread", "finalize"} => a \in announced',
         pc \in {"cap", "insert", "enqueue", "reread", "finalize", "release"}
           => Holding(a) \/ ~Keyed(a),
         pc # "ok",
         UNCHANGED faults /\ a \in documents' /\ Keyed(a) =>
           \/ pc \in {"enqueue", "reread", "finalize"}
           \/ ~Holding(a) /\ a \in documents
           \/ LockInv => faults # 0
  PROVE  StepKeeps
<1>. DEFINE r == [pc |-> pc, key |-> at[a].key, answer |-> at[a].answer]
<1>1. r \in AttemptRec /\ Moves(a, r)
  BY GotoRecord DEF StoredInv
<1>2. faults' \in 0 .. MaxFaults /\ (faults' = 0 => faults = 0 /\ UNCHANGED faults)
  BY FaultCounted DEF StoredInv, TypeOK
<1>3. StoredInv'
  BY <1>1, <1>2, CacheUntouched
<1>4. ASSUME LockInv PROVE LockInv' /\ KeepsStored
  <2>1. ASSUME faults' = 0, a \in documents', Keyed(a)
        PROVE  r.pc \in {"enqueue", "reread", "finalize"} \/ cache[KeyOf(a)] = a
    BY <1>2, <1>4, <2>1 DEF LockInv, DocumentsStored, Holding
  <2>. QED
    BY <1>1, <1>2, <1>4, <2>1, LockUntouched
<1>. QED
  BY <1>3, <1>4 DEF StepKeeps

LEMMA ReserveSteps ==
  ASSUME StoredInv, NEW a \in Attempts, Unkeyed(a) \/ Reserve(a) \/ ReserveFails(a)
  PROVE  StepKeeps
<1>1. CASE Unkeyed(a)
  BY <1>1, Walks DEF Unkeyed, PC, Holding, Keyed, StoredInv, TypeOK
<1>2. ASSUME At(a, "new"), Keyed(a), cache[KeyOf(a)] = Empty, Store(a, Pending),
             UNCHANGED <<documents, announced>>,
             NEW pc \in {"cap", "error"}, Goto(a, pc),
             Fault \/ (pc = "cap" /\ UNCHANGED faults)
      PROVE  StepKeeps
  <2>. DEFINE r == [pc |-> pc, key |-> at[a].key, answer |-> at[a].answer]
  <2>1. r \in AttemptRec /\ Moves(a, r)
    BY <1>2, GotoRecord DEF StoredInv, PC
  <2>2. faults' \in 0 .. MaxFaults /\ (faults' = 0 => faults = 0 /\ pc = "cap")
    BY <1>2, FaultCounted DEF StoredInv, TypeOK
  <2>3. StoredInv'
    BY <1>2, <2>1, <2>2, CacheWritten, NamesAssumption
  <2>4. ASSUME LockInv, faults' = 0, a \in documents PROVE FALSE
    BY <1>2, <2>2, <2>4, NamesAssumption DEF LockInv, DocumentsStored, At, StoredInv, TypeOK
  <2>5. LockInv => LockInv' /\ KeepsStored
    BY <1>2, <2>1, <2>2, <2>4, LockWritten, NamesAssumption
  <2>. QED
    BY <2>3, <2>5 DEF StepKeeps
<1>3. CASE /\ At(a, "new") /\ UNCHANGED <<cache, documents, announced>>
           /\ \/ Goto(a, "lookup") /\ UNCHANGED faults
              \/ Goto(a, "error") /\ Fault
  BY <1>3, Walks DEF PC, Holding, At, StoredInv, TypeOK
<1>4. CASE Reserve(a)
  <2>1. /\ At(a, "new") /\ Keyed(a)
        /\ UNCHANGED <<documents, announced>> /\ UNCHANGED faults
    BY <1>4 DEF Reserve
  <2>2. CASE cache[KeyOf(a)] = Empty
    <3>1. Store(a, Pending) /\ Goto(a, "cap")
      BY <1>4, <2>2 DEF Reserve
    <3>. QED
      BY <1>2, <2>1, <2>2, <3>1
  <2>3. CASE cache[KeyOf(a)] # Empty
    <3>1. Goto(a, "lookup") /\ UNCHANGED cache
      BY <1>4, <2>3 DEF Reserve
    <3>. QED
      BY <1>3, <2>1, <3>1
  <2>. QED
    BY <2>2, <2>3
<1>5. CASE ReserveFails(a)
  <2>1. /\ At(a, "new") /\ Keyed(a) /\ Fault /\ Goto(a, "error")
        /\ UNCHANGED <<documents, announced>>
        /\ UNCHANGED cache \/ (cache[KeyOf(a)] = Empty /\ Store(a, Pending))
    BY <1>5 DEF ReserveFails
  <2>2. CASE UNCHANGED cache
    BY <1>3, <2>1, <2>2
  <2>3. CASE cache[KeyOf(a)] = Empty /\ Store(a, Pending)
    BY <1>2, <2>1, <2>3
  <2>. QED
    BY <2>1, <2>2, <2>3
<1>. QED
  BY <1>1, <1>4, <1>5

LEMMA LookupSteps ==
  ASSUME StoredInv, NEW a \in Attempts, Lookup(a) \/ LookupFails(a)
  PROVE  StepKeeps
<1>1. CASE At(a, "lookup") /\ cache[KeyOf(a)] \in Attempts /\ Answer(a, cache[KeyOf(a)])
           /\ UNCHANGED <<cache, documents, announced, faults>>
  <2>. DEFINE r == [pc |-> "ok", key |-> at[a].key, answer |-> cache[KeyOf(a)]]
  <2>1. r \in AttemptRec /\ Moves(a, r)
    BY <1>1, AnswerRecord DEF StoredInv
  <2>2. StoredInv'
    BY <1>1, <2>1, CacheUntouched DEF StoredInv, TypeOK
  <2>3. ASSUME LockInv, faults' = 0, a \in documents', Keyed(a)
        PROVE  cache[KeyOf(a)] = a
    BY <1>1, <2>3 DEF LockInv, DocumentsStored, At
  <2>4. LockInv => LockInv' /\ KeepsStored
    BY <1>1, <2>1, <2>3, LockUntouched
  <2>. QED
    BY <2>2, <2>4 DEF StepKeeps
<1>2. CASE /\ At(a, "lookup") /\ UNCHANGED <<cache, documents, announced>>
           /\ \/ Goto(a, "conflict") /\ UNCHANGED faults
              \/ Goto(a, "error") /\ Fault
  BY <1>2, Walks DEF PC, Holding, At, StoredInv, TypeOK
<1>. QED
  BY <1>1, <1>2 DEF Lookup, LookupFails

LEMMA InnerSteps ==
  ASSUME StoredInv, NEW a \in Attempts,
         \/ CheckCap(a) \/ InsertDocument(a) \/ Enqueue(a) \/ EnqueueFails(a) \/ Reread(a)
         \/ InnerFails(a)
  PROVE  StepKeeps
<1>0. LockInv /\ at[a].pc = "cap" /\ Keyed(a) /\ faults = 0 => a \notin documents
  BY NamesAssumption DEF LockInv, SoleHolder, DocumentsStored, Holding
<1>1. CASE CheckCap(a)
  BY <1>0, <1>1, Walks DEF CheckCap, PC, Holding, At, StoredInv, TypeOK
<1>2. CASE InsertDocument(a)
  BY <1>2, Walks DEF InsertDocument, PC, Holding, At, StoredInv, TypeOK
<1>3. CASE Enqueue(a) \/ EnqueueFails(a)
  BY <1>3, Walks, NumbersAssumption
  DEF Enqueue, EnqueueFails, PC, Holding, At, StoredInv, TypeOK, FinalizersAnnounced, Fault
<1>4. CASE Reread(a)
  BY <1>4, Walks DEF Reread, PC, Holding, At, StoredInv, TypeOK, FinalizersAnnounced
<1>5. CASE InnerFails(a)
  BY <1>5, Walks, NumbersAssumption
  DEF InnerFails, PC, Holding, At, StoredInv, TypeOK, FinalizersAnnounced, Fault
<1>. QED
  BY <1>1, <1>2, <1>3, <1>4, <1>5

LEMMA FinalSteps ==
  ASSUME StoredInv, NEW a \in Attempts,
         \/ Finalize(a) \/ FinalizeFails(a) \/ Release(a) \/ ReleaseFails(a) \/ Killed(a)
  PROVE  StepKeeps
<1>0. LockInv /\ Holding(a) /\ Keyed(a) => cache[KeyOf(a)] \notin Attempts
  BY NamesAssumption DEF LockInv, SoleHolder
<1>1. CASE Finalize(a)
  <2>. DEFINE r == [pc |-> "ok", key |-> at[a].key, answer |-> a]
  <2>1. r \in AttemptRec /\ Moves(a, r)
    BY <1>1, AnswerRecord DEF StoredInv, Finalize
  <2>2. a \in announced /\ Holding(a)
    BY <1>1 DEF StoredInv, FinalizersAnnounced, Finalize, At, Holding
  <2>3. CASE Keyed(a)
    <3>1. Store(a, a) /\ UNCHANGED <<documents, announced, faults>>
      BY <1>1, <2>3 DEF Finalize
    <3>2. StoredInv'
      BY <2>1, <2>2, <2>3, <3>1, CacheWritten DEF StoredInv, TypeOK
    <3>3. LockInv => LockInv' /\ KeepsStored
      BY <1>0, <2>1, <2>2, <2>3, <3>1, LockWritten
    <3>. QED
      BY <3>2, <3>3 DEF StepKeeps
  <2>4. CASE ~Keyed(a)
    <3>1. UNCHANGED <<cache, documents, announced, faults>>
      BY <1>1, <2>4 DEF Finalize
    <3>2. StoredInv'
      BY <2>1, <3>1, CacheUntouched DEF StoredInv, TypeOK
    <3>3. LockInv => LockInv' /\ KeepsStored
      BY <2>1, <2>4, <3>1, LockUntouched
    <3>. QED
      BY <3>2, <3>3 DEF StepKeeps
  <2>. QED
    BY <2>3, <2>4
<1>2. ASSUME Goto(a, "error"), Holding(a), Keyed(a),
             Fault \/ (At(a, "release") /\ UNCHANGED faults),
             NEW v \in {Empty, a}, Store(a, v), v = a => At(a, "finalize"),
             UNCHANGED <<documents, announced>>
      PROVE  StepKeeps
  <2>. DEFINE r == [pc |-> "error", key |-> at[a].key, answer |-> at[a].answer]
  <2>1. r \in AttemptRec /\ Moves(a, r)
    BY <1>2, GotoRecord DEF StoredInv, PC
  <2>2. faults' \in 0 .. MaxFaults /\ (faults' = 0 => faults = 0 /\ At(a, "release"))
    BY <1>2, FaultCounted DEF StoredInv, TypeOK
  <2>3. v = a => v \in announced
    BY <1>2 DEF StoredInv, FinalizersAnnounced, At
  <2>4. v \in {Empty, Pending} \cup Attempts /\ v # Pending /\ (v \in Attempts => v = a)
    BY <1>2, NamesAssumption
  <2>5. StoredInv'
    BY <1>2, <2>1, <2>2, <2>3, <2>4, CacheWritten
  <2>6. ASSUME LockInv, faults' = 0, a \in documents PROVE FALSE
    BY <1>0, <1>2, <2>2, <2>6 DEF LockInv, DocumentsStored, At
  <2>7. LockInv => LockInv' /\ KeepsStored
    BY <1>0, <1>2, <2>1, <2>2, <2>4, <2>6, LockWritten
  <2>. QED
    BY <2>5, <2>7 DEF StepKeeps
<1>3. ASSUME Goto(a, "error") \/ Goto(a, "killed"), Fault, UNCHANGED <<cache, documents, announced>>
      PROVE  StepKeeps
  BY <1>3, Walks, NumbersAssumption DEF PC, StoredInv, TypeOK, Fault
<1>4. ASSUME At(a, "release"), ~Keyed(a), Goto(a, "error"), UNCHANGED <<cache, documents, announced, faults>>
      PROVE  StepKeeps
  BY <1>4, Walks DEF PC, StoredInv, TypeOK
<1>5. CASE FinalizeFails(a)
  <2>1. /\ At(a, "finalize") /\ Holding(a) /\ Keyed(a) /\ Fault
        /\ Store(a, a) \/ UNCHANGED cache
        /\ Goto(a, "error") /\ UNCHANGED <<documents, announced>>
    BY <1>5 DEF FinalizeFails, Holding, At
  <2>2. CASE Store(a, a)
    BY <1>2, <2>1, <2>2
  <2>3. CASE UNCHANGED cache
    BY <1>3, <2>1, <2>3
  <2>. QED
    BY <2>1, <2>2, <2>3
<1>6. CASE Release(a)
  <2>1. /\ At(a, "release") /\ Holding(a) /\ Goto(a, "error")
        /\ UNCHANGED <<documents, announced, faults>>
    BY <1>6 DEF Release, Holding, At
  <2>2. CASE Keyed(a)
    <3>1. Store(a, Empty) /\ Empty # a
      BY <1>6, <2>2, NamesAssumption DEF Release
    <3>. QED
      BY <1>2, <2>1, <2>2, <3>1
  <2>3. CASE ~Keyed(a)
    <3>1. UNCHANGED cache
      BY <1>6, <2>3 DEF Release
    <3>. QED
      BY <1>4, <2>1, <2>3, <3>1
  <2>. QED
    BY <2>2, <2>3
<1>7. CASE ReleaseFails(a)
  <2>1. /\ At(a, "release") /\ Holding(a) /\ Keyed(a) /\ Fault
        /\ Store(a, Empty) \/ UNCHANGED cache
        /\ Goto(a, "error") /\ UNCHANGED <<documents, announced>>
    BY <1>7 DEF ReleaseFails, Holding, At
  <2>2. CASE Store(a, Empty)
    <3>1. Empty # a
      BY NamesAssumption
    <3>. QED
      BY <1>2, <2>1, <2>2, <3>1
  <2>3. CASE UNCHANGED cache
    BY <1>3, <2>1, <2>3
  <2>. QED
    BY <2>1, <2>2, <2>3
<1>8. CASE Killed(a)
  BY <1>3, <1>8 DEF Killed
<1>. QED
  BY <1>1, <1>5, <1>6, <1>7, <1>8

(* The TTL frees a key that is still held only if handlers may outlive it.  *)
LEMMA ExpireStep ==
  ASSUME StoredInv, NEW k \in Keys, Expire(k)
  PROVE  StoredInv' /\ (LockInv /\ ~MayOutlive => LockInv' /\ KeepsStored)
<1>1. /\ cache' \in [Keys -> {Empty, Pending} \cup Attempts]
      /\ cache[k] = Pending /\ cache'[k] = Empty
      /\ \A l \in Keys : l # k => cache'[l] = cache[l]
  BY DEF StoredInv, TypeOK, Expire
<1>2. UNCHANGED <<documents, announced, at, faults>>
  BY DEF Expire
<1>3. StoredInv'
  BY <1>1, <1>2, NamesAssumption DEF StoredInv, TypeOK, FinalizersAnnounced, ReplaysAreReal, At
<1>4. ASSUME LockInv, ~MayOutlive PROVE LockInv' /\ KeepsStored
  <2>1. \A a \in Attempts : KeyOf(a) = k => ~Holding(a)
    BY <1>4 DEF Expire
  <2>2. \A a \in Attempts : Keyed(a) => KeyOf(a) \in Keys
    BY DEF StoredInv, TypeOK, AttemptRec, Keyed, KeyOf
  <2>3. SoleHolder'
    BY <1>1, <1>2, <1>4, <2>1, <2>2 DEF LockInv, SoleHolder, Holding, Keyed, KeyOf
  <2>4. AnswersStored'
    BY <1>1, <1>2, <1>4, <2>2, NamesAssumption DEF LockInv, AnswersStored, At, Keyed, KeyOf
  <2>5. DocumentsStored'
    BY <1>1, <1>2, <1>4, <2>2, NamesAssumption
    DEF StoredInv, TypeOK, LockInv, DocumentsStored, Keyed, KeyOf
  <2>6. KeepsStored
    BY <1>1, NamesAssumption DEF KeepsStored
  <2>. QED
    BY <2>3, <2>4, <2>5, <2>6 DEF LockInv
<1>. QED
  BY <1>3, <1>4

-----------------------------------------------------------------------------

LEMMA UploadStart == Init => StoredInv /\ LockInv
<1>. SUFFICES ASSUME Init PROVE StoredInv /\ LockInv
  OBVIOUS
<1>1. TypeOK
  BY NumbersAssumption DEF Init, TypeOK, AttemptRec, PC
<1>2. \A a \in Attempts : at[a].pc = "new"
  BY DEF Init
<1>. QED
  BY <1>1, <1>2, NamesAssumption
  DEF Init, StoredInv, FinalizersAnnounced, ReplaysAreReal, LockInv, SoleHolder, AnswersStored,
      DocumentsStored, At, Holding

LEMMA UploadStep ==
  ASSUME StoredInv, [Next]_vars
  PROVE  StoredInv' /\ (LockInv /\ ~MayOutlive => LockInv' /\ KeepsStored)
<1>1. ASSUME NEW a \in Attempts, Unkeyed(a) \/ Reserve(a) \/ Proceed(a) \/ Fails(a)
      PROVE  StepKeeps
  BY <1>1, ReserveSteps, LookupSteps, InnerSteps, FinalSteps DEF Proceed, Fails
<1>2. CASE UNCHANGED vars
  BY <1>2 DEF vars, StoredInv, TypeOK, FinalizersAnnounced, ReplaysAreReal, LockInv, SoleHolder,
      AnswersStored, DocumentsStored, KeepsStored, At, Holding, Keyed, KeyOf
<1>. QED
  BY <1>1, <1>2, ExpireStep DEF Next, StepKeeps

LEMMA StoredAlways == Spec => []StoredInv
BY UploadStart, UploadStep, PTL DEF Spec

LEMMA LockAlways ==
  ASSUME ~MayOutlive
  PROVE  Spec => []LockInv
<1>1. StoredInv /\ LockInv /\ [Next]_vars => LockInv'
  BY UploadStep
<1>. QED
  BY <1>1, UploadStart, StoredAlways, PTL DEF Spec

\* The cache, the documents and the attempts keep their types.
THEOREM UploadTyped == Spec => []TypeOK
<1>1. StoredInv => TypeOK
  BY DEF StoredInv
<1>. QED
  BY <1>1, StoredAlways, PTL

\* What may be replayed for a day names a document whose job is announced,
\* also when handlers outlive the marker (documents.rs create_document).
THEOREM StoredIsReal == Spec => []ReplaysAreReal
<1>1. StoredInv => ReplaysAreReal
  BY DEF StoredInv
<1>. QED
  BY <1>1, StoredAlways, PTL

\* With the marker as a lock, no two answers to one key differ, whatever fails
\* (documents.rs:234-263).
THEOREM SameAnswer ==
  ASSUME ~MayOutlive
  PROVE  Spec => []AnswersAgree
<1>1. LockInv => AnswersAgree
  BY DEF LockInv, AnswersStored, AnswersAgree, SameKey, Keyed, KeyOf
<1>. QED
  BY <1>1, LockAlways, PTL

\* While no call fails, one key stands for one document (documents.rs:225-228).
THEOREM OneDocument ==
  ASSUME ~MayOutlive
  PROVE  Spec => []OneDocumentPerKey
<1>1. ASSUME StoredInv, LockInv PROVE OneDocumentPerKey
  <2>1. ASSUME faults = 0, NEW a \in documents, NEW b \in documents, SameKey(a, b)
        PROVE  a = b
    <3>1. /\ a \in Attempts /\ b \in Attempts
          /\ Keyed(a) /\ Keyed(b) /\ KeyOf(a) = KeyOf(b)
      BY <1>1, <2>1 DEF StoredInv, TypeOK, SameKey, Keyed
    <3>. QED
      BY <1>1, <2>1, <3>1, NamesAssumption DEF LockInv, DocumentsStored, SoleHolder, Holding
  <2>. QED
    BY <2>1 DEF OneDocumentPerKey
<1>. QED
  BY <1>1, StoredAlways, LockAlways, PTL

\* No step overwrites or releases a stored response, the DEL of an error path
\* included (documents.rs:264-276).
THEOREM StoredKept ==
  ASSUME ~MayOutlive
  PROVE  Spec => StoredStays
<1>1. StoredInv /\ LockInv /\ [Next]_vars => [KeepsStored]_vars
  BY UploadStep
<1>. QED
  BY <1>1, StoredAlways, LockAlways, PTL DEF Spec, StoredStays
=============================================================================
