------------------------------ MODULE TopicProofs ------------------------------
(***************************************************************************)
(* Proofs about TopicVersions, for any claims, topics and writers and any  *)
(* bound on the versions.                                                  *)
(***************************************************************************)
EXTENDS TopicVersions, TLAPS

TopicRows == [version : 0 .. MaxVersion, page : SUBSET Evidence]
WriterStates == [pc : {"idle", "lookup", "insert", "gather", "write"},
                 topic : {{}} \cup {{t} : t \in Topics}, page : SUBSET Evidence]

(* The numbered pages of a topic are exactly those the row has counted, so  *)
(* that the next number is free and the one before it is the row's page.    *)
HistoryInv ==
  /\ TopicTypeOK
  /\ versions = [t \in Topics |-> versions[t]]
  /\ \A t \in Topics : DOMAIN versions[t] = 2 .. topic[t].version
  /\ HistoryComplete

LEMMA HistoryStart == TopicInit => HistoryInv
<1>. SUFFICES ASSUME TopicInit PROVE HistoryInv
  OBVIOUS
<1>1. ASSUME NEW t \in Topics
      PROVE  /\ topic[t].version = 0 /\ DOMAIN versions[t] = 2 .. 0
             /\ versions[t] \in [2 .. 1 -> SUBSET Evidence]
  BY DEF TopicInit, NoTopic
<1>2. 1 \in 1 .. MaxVersion /\ 0 \in 0 .. MaxVersion
  BY TopicVersionsAssumption
<1>3. TopicTypeOK
  BY <1>1, <1>2 DEF TopicInit, TopicTypeOK, NoTopic, NoPage, IdleWriter
<1>4. HistoryComplete
  BY <1>1 DEF HistoryComplete, Exists
<1>. QED
  BY <1>1, <1>3, <1>4 DEF HistoryInv, TopicInit

(* A step that leaves the pages alone: claims and writers. *)
LEMMA PagesUntouched ==
  ASSUME HistoryInv, UNCHANGED <<topic, versions>>,
         retired' \subseteq grounded' /\ grounded' \subseteq Evidence,
         writer' \in [Writers -> WriterStates]
  PROVE  HistoryInv'
BY DEF HistoryInv, TopicTypeOK, HistoryComplete, Exists, WriterStates

(* The one step that numbers a page. *)
LEMMA Appended ==
  ASSUME HistoryInv, NEW t \in Topics, NEW page \in SUBSET Evidence, AppendVersion(t, page),
         UNCHANGED <<grounded, retired>>, writer' \in [Writers -> WriterStates]
  PROVE  HistoryInv'
<1> DEFINE v == topic[t].version + 1
           pages == [n \in 2 .. v |-> IF n = v THEN page ELSE versions[t][n]]
<1>1. topic \in [Topics -> TopicRows] /\ topic[t].version \in 0 .. MaxVersion
  BY DEF HistoryInv, TopicTypeOK, TopicRows
<1>2. /\ v \in 1 .. MaxVersion
      /\ topic' = [topic EXCEPT ![t] = [version |-> v, page |-> page]]
      /\ versions' = [versions EXCEPT ![t] = pages]
  BY <1>1, TopicVersionsAssumption DEF AppendVersion
<1>3. \A n \in 2 .. v : n # v => n \in DOMAIN versions[t]
  BY <1>1 DEF HistoryInv
<1>4. \A n \in DOMAIN versions[t] : versions[t][n] \in SUBSET Evidence
  BY DEF HistoryInv, TopicTypeOK
<1>5. pages \in [2 .. v -> SUBSET Evidence]
  BY <1>3, <1>4
<1>6. DOMAIN pages = 2 .. v /\ (v > 1 => pages[v] = page)
  BY <1>2
<1> HIDE DEF pages, v
<1>7. /\ topic' \in [Topics -> TopicRows]
      /\ topic'[t].version = v /\ topic'[t].page = page
      /\ \A u \in Topics : u # t => topic'[u] = topic[u]
  BY <1>1, <1>2 DEF TopicRows
<1>8. /\ versions' = [u \in Topics |-> versions'[u]]
      /\ versions'[t] = pages
      /\ \A u \in Topics : u # t => versions'[u] = versions[u]
  BY <1>2 DEF HistoryInv
<1>9. TopicTypeOK'
  BY <1>2, <1>5, <1>7, <1>8 DEF HistoryInv, TopicTypeOK, TopicRows, WriterStates
<1>10. \A u \in Topics : DOMAIN versions'[u] = 2 .. topic'[u].version
  BY <1>6, <1>7, <1>8 DEF HistoryInv
<1>11. HistoryComplete'
  BY <1>6, <1>7, <1>8, <1>10 DEF HistoryInv, HistoryComplete, Exists
<1>. QED
  BY <1>8, <1>9, <1>10, <1>11 DEF HistoryInv

LEMMA HistoryStep == HistoryInv /\ [TopicNext]_tvars => HistoryInv'
<1>. SUFFICES ASSUME HistoryInv, [TopicNext]_tvars PROVE HistoryInv'
  OBVIOUS
<1>1. /\ retired \subseteq grounded /\ grounded \subseteq Evidence
      /\ writer \in [Writers -> WriterStates] /\ IdleWriter \in WriterStates
  BY DEF HistoryInv, TopicTypeOK, WriterStates, IdleWriter, NoPage
<1>2. CASE Ground \/ Retire
  <2>1. UNCHANGED <<topic, versions, writer>>
    BY <1>2 DEF Ground, Retire
  <2>2. retired' \subseteq grounded' /\ grounded' \subseteq Evidence
    BY <1>1, <1>2 DEF Ground, Retire
  <2>. QED
    BY <1>1, <2>1, <2>2, PagesUntouched
<1>3. ASSUME NEW t \in Topics, RestoreVersion(t)
      PROVE  HistoryInv'
  <2>1. PICK v \in DOMAIN versions[t] : AppendVersion(t, versions[t][v])
    BY <1>3 DEF RestoreVersion
  <2>2. versions[t][v] \in SUBSET Evidence
    BY <2>1 DEF HistoryInv, TopicTypeOK
  <2>3. UNCHANGED <<grounded, retired, writer>>
    BY <1>3 DEF RestoreVersion
  <2>. QED
    BY <1>1, <2>1, <2>2, <2>3, Appended
<1>4. ASSUME NEW w \in Writers,
             StartCompile(w) \/ LookupTopic(w) \/ StartRegenerate(w) \/ Gather(w) \/ WriteFails(w)
      PROVE  HistoryInv'
  <2>1. UNCHANGED <<grounded, retired, topic, versions>>
    BY <1>4 DEF StartCompile, LookupTopic, StartRegenerate, Gather, WriteFails
  <2>2. \E r \in WriterStates : writer' = [writer EXCEPT ![w] = r]
    BY <1>1, <1>4 DEF StartCompile, LookupTopic, StartRegenerate, Gather, WriteFails, Proceed,
                      WriterStates, IdleWriter, NoPage
  <2>. QED
    BY <1>1, <2>1, <2>2, PagesUntouched
<1>5. ASSUME NEW w \in Writers, InsertTopic(w)
      PROVE  HistoryInv'
  <2> DEFINE Gathers(t) == [IdleWriter EXCEPT !.pc = "gather", !.topic = {t}]
  <2>1. PICK t \in Topics : /\ ~Exists(t)
                            /\ topic' = [topic EXCEPT ![t].version = 1]
                            /\ writer' = [writer EXCEPT ![w] = Gathers(t)]
    BY <1>5 DEF InsertTopic, Proceed
  <2>2. UNCHANGED <<grounded, retired, versions>>
    BY <1>5 DEF InsertTopic
  <2>3. writer' \in [Writers -> WriterStates]
    <3>1. Gathers(t) \in WriterStates
      BY DEF WriterStates, IdleWriter, NoPage
    <3> HIDE DEF Gathers
    <3>. QED
      BY <1>1, <2>1, <3>1
  <2>4. /\ topic' \in [Topics -> TopicRows]
        /\ topic[t].version = 0 /\ topic'[t].version = 1
        /\ \A u \in Topics : u # t => topic'[u] = topic[u]
    <3>1. topic \in [Topics -> TopicRows]
      BY DEF HistoryInv, TopicTypeOK, TopicRows
    <3>2. topic[t].version = 0
      BY <2>1, <3>1, TopicVersionsAssumption DEF Exists, TopicRows
    <3>3. topic' = [topic EXCEPT ![t] = [topic[t] EXCEPT !.version = 1]]
      BY <2>1
    <3>4. /\ [topic[t] EXCEPT !.version = 1] \in TopicRows
          /\ [topic[t] EXCEPT !.version = 1].version = 1
      BY <3>1, TopicVersionsAssumption DEF TopicRows
    <3>. QED
      BY <3>1, <3>2, <3>3, <3>4
  <2>5. TopicTypeOK'
    BY <1>1, <2>2, <2>3, <2>4 DEF HistoryInv, TopicTypeOK, TopicRows, WriterStates
  <2>6. \A u \in Topics : DOMAIN versions'[u] = 2 .. topic'[u].version
    BY <2>2, <2>4 DEF HistoryInv
  <2>7. HistoryComplete'
    BY <2>2, <2>4, <2>6 DEF HistoryInv, HistoryComplete, Exists
  <2>. QED
    BY <2>2, <2>5, <2>6, <2>7 DEF HistoryInv
<1>6. ASSUME NEW w \in Writers, WriteVersion(w)
      PROVE  HistoryInv'
  <2>1. writer[w] \in WriterStates
    BY <1>1
  <2>2. PICK t \in writer[w].topic : AppendVersion(t, writer[w].page)
    BY <1>6 DEF WriteVersion
  <2>3. t \in Topics /\ writer[w].page \in SUBSET Evidence
    BY <2>1, <2>2 DEF WriterStates
  <2>4. UNCHANGED <<grounded, retired>> /\ writer' \in [Writers -> WriterStates]
    BY <1>1, <1>6 DEF WriteVersion, Proceed
  <2>. QED
    BY <2>2, <2>3, <2>4, Appended
<1>7. CASE UNCHANGED tvars
  BY <1>1, <1>7, PagesUntouched DEF tvars
<1>. QED
  BY <1>2, <1>3, <1>4, <1>5, <1>6, <1>7 DEF TopicNext

(* The history of a topic has no gap and ends in the page the topic shows,  *)
(* whoever synthesizes and restores at the same time (synth.rs synthesize,  *)
(* restore_version).                                                        *)
THEOREM HistoryHolds == TopicSpec => []HistoryComplete
<1>1. HistoryInv => HistoryComplete
  BY DEF HistoryInv
<1>. QED
  BY <1>1, HistoryStart, HistoryStep, PTL DEF TopicSpec

(* Rows, pages and writers have their types. *)
THEOREM TopicTyped == TopicSpec => []TopicTypeOK
<1>1. HistoryInv => TopicTypeOK
  BY DEF HistoryInv
<1>. QED
  BY <1>1, HistoryStart, HistoryStep, PTL DEF TopicSpec
=============================================================================
