------------------------------ MODULE MCKnowledge ------------------------------
(***************************************************************************)
(* The knowledge plane and what is studied from it.  The components meet   *)
(* only through claims that the others take as given, so a behaviour       *)
(* belongs to one of them; their sets share the model values for a small   *)
(* symmetry group.                                                         *)
(***************************************************************************)
EXTENDS ClaimReview, TopicVersions, ConceptGraph, Ontology, Flashcards, QuestionBank, Search, TLC

CONSTANTS x1, x2, y1, y2, z1, z2, reader1, document1, editor, viewer

TwoX == {x1, x2}
TwoY == {y1, y2}
TwoZ == {z1, z2}
Symmetry == Permutations(TwoX) \cup Permutations(TwoY) \cup Permutations(TwoZ)

MeaningsChecked == {"is", "is not"}
NegatesChecked == {<<"is", "is not">>}
OneReader == {reader1}
OneDocument == {document1}
OneImporter == {"importer"}
OneSlug == {"custom"}
OneCard == {"card"}
EditorAndViewer == {editor, viewer}
OneEditor == {editor}
TwoOptions == {0, 1}
ThreeChunks == 1 .. 3
TwoMatching == {1, 3}
TwoCodes == {"MONDO:1", "MONDO:2"}
TwoTexts == {"text", "new text"}

Class(code, text) == [code |-> code, class |-> TRUE, text |-> text]

\* One with an edge to an unknown class, one with everything that is skipped,
\* one that repeats a class and thereby exceeds MaxSync.
ReleasesChecked ==
  {[nodes |-> <<Class("MONDO:1", "text"), Class("MONDO:2", "text")>>,
    subclass |-> {<<"MONDO:1", "MONDO:2">>, <<"MONDO:1", "HP:1">>}],
   [nodes |-> <<Class("MONDO:1", "new text"), Class("HP:1", "text"), Class("MONDO:2", ""),
                [code |-> "MONDO:2", class |-> FALSE, text |-> "text"]>>,
    subclass |-> {<<"MONDO:1", "MONDO:2">>}],
   [nodes |-> <<Class("MONDO:2", "text"), Class("MONDO:1", "text"), Class("MONDO:2", "new text")>>,
    subclass |-> {}]}

VARIABLE part

KnowledgeVars == <<part, cvars, tvars, gvars, ontologyvars, cardvars, quizvars, searchvars>>

KnowledgeInit ==
  /\ part \in {"claims", "topics", "graph", "ontology", "cards", "quiz", "search"}
  /\ ClaimInit /\ TopicInit /\ GraphInit /\ OntologyInit /\ CardsInit /\ QuizInit /\ SearchInit

KnowledgeNext ==
  \/ part = "claims" /\ ClaimNext
       /\ UNCHANGED <<part, tvars, gvars, ontologyvars, cardvars, quizvars, searchvars>>
  \/ part = "topics" /\ TopicNext
       /\ UNCHANGED <<part, cvars, gvars, ontologyvars, cardvars, quizvars, searchvars>>
  \/ part = "graph" /\ GraphNext
       /\ UNCHANGED <<part, cvars, tvars, ontologyvars, cardvars, quizvars, searchvars>>
  \/ part = "ontology" /\ OntologyNext
       /\ UNCHANGED <<part, cvars, tvars, gvars, cardvars, quizvars, searchvars>>
  \/ part = "cards" /\ CardsNext
       /\ UNCHANGED <<part, cvars, tvars, gvars, ontologyvars, quizvars, searchvars>>
  \/ part = "quiz" /\ QuizNext
       /\ UNCHANGED <<part, cvars, tvars, gvars, ontologyvars, cardvars, searchvars>>
  \/ part = "search" /\ SearchNext
       /\ UNCHANGED <<part, cvars, tvars, gvars, ontologyvars, cardvars, quizvars>>

KnowledgeSpec == KnowledgeInit /\ [][KnowledgeNext]_KnowledgeVars

\* The types of the parts, with what their tables guarantee: versions count from
\* 2 without a gap (synth.rs), edges, vectors and attempts refer to rows that
\* exist (graph.rs, ontology.rs, study.rs), a review closes an open row (review.rs),
\* no result names a chunk twice (retrieve.rs).
KnowledgeTypeOK ==
  /\ ClaimTypeOK /\ TopicTypeOK /\ GraphTypeOK /\ OntologyTypeOK
  /\ CardsTypeOK /\ QuizTypeOK /\ SearchTypeOK
=============================================================================
