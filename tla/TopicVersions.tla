----------------------------- MODULE TopicVersions -----------------------------
(***************************************************************************)
(* Topics and their versions (insight-core synth.rs; insight-api           *)
(* routes/topics.rs).  A synthesis reads the claims of a concept, calls    *)
(* the LLM, and writes the page in a later transaction; builds, and the    *)
(* regenerate and restore handlers, overlap.  A page stands for the claims *)
(* it was written from.  topics.version starts at 1 without a row in       *)
(* topic_versions.                                                         *)
(***************************************************************************)
EXTENDS Naturals, FiniteSets

CONSTANTS
  Evidence,    \* claims that can be grounded to the concept
  Topics,      \* bound: ids of the topic rows of the concept
  Writers,     \* builds and handlers in flight
  MaxVersion,  \* bound on the versions of a topic
  MinClaims    \* MIN_CLAIMS_FOR_TOPIC

ASSUME TopicVersionsAssumption == MaxVersion \in Nat \ {0} /\ MinClaims \in Nat

VARIABLES
  grounded,  \* the claims of the concept that are not marked duplicate
  retired,   \* those a reviewer rejected
  topic,     \* version and page of each topic; version 0: no row
  versions,  \* topic_versions: page by number, for each topic
  writer     \* builds and handlers

tvars == <<grounded, retired, topic, versions, writer>>

NoPage == {}
NoTopic == [version |-> 0, page |-> NoPage]
IdleWriter == [pc |-> "idle", topic |-> {}, page |-> NoPage]

TopicTypeOK ==
  /\ retired \subseteq grounded /\ grounded \subseteq Evidence
  /\ topic \in [Topics -> [version : 0 .. MaxVersion, page : SUBSET Evidence]]
  /\ \A t \in Topics : \E n \in 1 .. MaxVersion : versions[t] \in [2 .. n -> SUBSET Evidence]
  /\ writer \in [Writers -> [pc : {"idle", "lookup", "insert", "gather", "write"},
                             topic : {{}} \cup {{t} : t \in Topics}, page : SUBSET Evidence]]

TopicInit ==
  /\ grounded = {} /\ retired = {}
  /\ topic = [t \in Topics |-> NoTopic]
  /\ versions = [t \in Topics |-> [v \in {} |-> NoPage]]
  /\ writer = [w \in Writers |-> IdleWriter]

Exists(t) == topic[t].version > 0
WriterAt(w, pc) == writer[w].pc = pc
Proceed(w, r) == writer' = [writer EXCEPT ![w] = r]

-----------------------------------------------------------------------------
\* Claims come, and reviewers retire them, meanwhile.
Ground ==
  /\ \E c \in Evidence \ grounded : grounded' = grounded \cup {c}
  /\ UNCHANGED <<retired, topic, versions, writer>>

Retire ==
  /\ \E c \in grounded \ retired : retired' = retired \cup {c}
  /\ UNCHANGED <<grounded, topic, versions, writer>>

\* compile_topics: the concept has enough claims that are not retired.
StartCompile(w) ==
  /\ WriterAt(w, "idle")
  /\ Cardinality(grounded \ retired) >= MinClaims
  /\ Proceed(w, [IdleWriter EXCEPT !.pc = "lookup"])
  /\ UNCHANGED <<grounded, retired, topic, versions>>

\* ensure_topic: the SELECT ...
LookupTopic(w) ==
  /\ WriterAt(w, "lookup")
  /\ \/ \E t \in Topics : /\ Exists(t)
                          /\ Proceed(w, [IdleWriter EXCEPT !.pc = "gather", !.topic = {t}])
     \/ /\ \A t \in Topics : ~Exists(t)
        /\ Proceed(w, [IdleWriter EXCEPT !.pc = "insert"])
  /\ UNCHANGED <<grounded, retired, topic, versions>>

\* ... and the INSERT, with no unique key on the concept.
InsertTopic(w) ==
  /\ WriterAt(w, "insert")
  /\ \E t \in Topics :
       /\ ~Exists(t)
       /\ topic' = [topic EXCEPT ![t].version = 1]
       /\ Proceed(w, [IdleWriter EXCEPT !.pc = "gather", !.topic = {t}])
  /\ UNCHANGED <<grounded, retired, versions>>

\* regenerate_topic enters synthesize with a topic of the user's choice.
StartRegenerate(w) ==
  /\ WriterAt(w, "idle")
  /\ \E t \in Topics : /\ Exists(t)
                       /\ Proceed(w, [IdleWriter EXCEPT !.pc = "gather", !.topic = {t}])
  /\ UNCHANGED <<grounded, retired, topic, versions>>

\* topic_claims: all but the duplicates, the retired ones included; none, or
\* a failure, ends the synthesis.
Gather(w) ==
  /\ WriterAt(w, "gather")
  /\ \/ grounded # {} /\ Proceed(w, [writer[w] EXCEPT !.pc = "write", !.page = grounded])
     \/ Proceed(w, IdleWriter)
  /\ UNCHANGED <<grounded, retired, topic, versions>>

\* UPDATE version = version + 1 RETURNING version holds the row lock until the
\* INSERT of that version commits.
AppendVersion(t, page) ==
  LET v == topic[t].version + 1 IN
  /\ v <= MaxVersion
  /\ topic' = [topic EXCEPT ![t] = [version |-> v, page |-> page]]
  /\ versions' = [versions EXCEPT ![t] = [n \in 2 .. v |-> IF n = v THEN page ELSE versions[t][n]]]

WriteVersion(w) ==
  /\ WriterAt(w, "write")
  /\ \E t \in writer[w].topic : AppendVersion(t, writer[w].page)
  /\ Proceed(w, IdleWriter)
  /\ UNCHANGED <<grounded, retired>>

\* The transaction fails and is rolled back, or the worker is killed.
WriteFails(w) ==
  /\ writer[w].pc \in {"insert", "write"}
  /\ Proceed(w, IdleWriter)
  /\ UNCHANGED <<grounded, retired, topic, versions>>

\* Mutant of RestoreVersion: the topic goes back to the old number.
RestoreRewinds(t) ==
  /\ \E v \in DOMAIN versions[t] : topic' = [topic EXCEPT ![t] = [version |-> v, page |-> versions[t][v]]]
  /\ UNCHANGED <<grounded, retired, versions, writer>>

\* restore_version: the page of a version becomes a new version.
RestoreVersion(t) ==
  /\ \E v \in DOMAIN versions[t] : AppendVersion(t, versions[t][v])
  /\ UNCHANGED <<grounded, retired, writer>>

TopicNext ==
  \/ Ground \/ Retire
  \/ \E t \in Topics : RestoreVersion(t)
  \/ \E w \in Writers : \/ StartCompile(w) \/ LookupTopic(w) \/ InsertTopic(w) \/ StartRegenerate(w)
                        \/ Gather(w) \/ WriteVersion(w) \/ WriteFails(w)

TopicSpec == TopicInit /\ [][TopicNext]_tvars

-----------------------------------------------------------------------------
(* Properties *)

\* The history of a topic has no gap and ends in the page it shows, whoever
\* synthesizes and restores at the same time.
HistoryComplete ==
  \A t \in Topics : Exists(t) =>
     /\ DOMAIN versions[t] = 2 .. topic[t].version
     /\ topic[t].version > 1 => versions[t][topic[t].version] = topic[t].page

\* A page is "a list of verified claims" (synth.rs SYNTH_SYSTEM): one written
\* from claims read now shows none that a reviewer has rejected by now.
RetiredStaysOut ==
  [][\A w \in Writers : WriterAt(w, "gather") /\ WriterAt(w, "write")' =>
       writer'[w].page \cap retired = {}]_tvars

\* A topic is the "Single Source of Truth" of its concept (topics.rs:1).
OneTopicPerConcept == \A t, u \in Topics : Exists(t) /\ Exists(u) => t = u
=============================================================================
