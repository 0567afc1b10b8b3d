------------------------------ MODULE Ontology ------------------------------
(* The shared concept tables and the tenants' ontology catalogue: importing *)
(* a release into concepts and concept_edges one autocommitted row at a     *)
(* time, and embedding the concepts that have no vector, in batches         *)
(* (ontology.rs, routes/ontology.rs).                                       *)
EXTENDS Integers, FiniteSets, SequencesExt

CONSTANTS
    Codes,              \* compact ids of classes, CURIEs
    Texts,              \* what is embedded for a concept: its label and synonyms
    Unlabelled,         \* the label of a node that has none
    Releases,          \* OBO Graphs documents a client may import
    Importers,          \* concurrent imports
    Embedders,          \* concurrent runs of embed_concepts
    Slugs,              \* slugs of catalogue rows, none of them reserved
    EmbedBatch,         \* CONCEPT_EMBED_BATCH
    MaxSync,            \* MAX_SYNC_CONCEPTS
    MaxCatalogue,       \* bound: catalogue rows
    MaxOntologyFaults   \* bound: failed statements, crashes

ASSUME OntologyAssumption ==
    /\ EmbedBatch \in Nat \ {0} /\ MaxCatalogue \in Nat
    /\ Unlabelled \notin Texts
    /\ \A doc \in Releases : \A k \in DOMAIN doc.nodes :
          doc.nodes[k].text \in Texts \cup {Unlabelled}

VARIABLES
    concepts,           \* concepts under ontology MONDO: a text per loaded code
    isA,               \* concept_edges, <<child, parent>>
    vectors,            \* concept_embeddings: [code, text, by]
    catalogue,          \* rows of ontologies: [slug, status]
    importing,          \* the request each importer runs
    embedding,          \* the run of each embedder
    ontologyFaults      \* faults so far

tables == <<concepts, isA, vectors, catalogue>>
ontologyvars == <<concepts, isA, vectors, catalogue, importing, embedding, ontologyFaults>>

Resting == [step |-> "idle"]

OntologyFault == ontologyFaults < MaxOntologyFaults /\ ontologyFaults' = ontologyFaults + 1

-----------------------------------------------------------------------------
(* A document is a sequence of nodes [code, class, text] and a set of is_a  *)
(* pairs.                                                                   *)

\* parse_obographs: the positions of the labelled classes.
ParsedConcepts(doc) ==
    {k \in DOMAIN doc.nodes : /\ doc.nodes[k].class /\ doc.nodes[k].code \in Codes
                              /\ doc.nodes[k].text # Unlabelled}

\* Only the pairs whose two ends are concepts of the same document.
ParsedEdges(doc) ==
    LET known == {doc.nodes[k].code : k \in ParsedConcepts(doc)}
    IN  doc.subclass \cap (known \X known)

\* import_ontology: slugs of the bundled ontologies are refused, so is a
\* document without concepts; an accepted one is loaded, always as MONDO.
ImportStart(i) ==
    /\ importing[i] = Resting
    /\ \E doc \in Releases, slug \in Slugs :
          /\ ParsedConcepts(doc) # {}
          /\ importing' = [importing EXCEPT ![i] =
                [step |-> "concepts", doc |-> doc, slug |-> slug, upserted |-> {},
                 wired |-> {}]]
    /\ UNCHANGED <<tables, embedding, ontologyFaults>>

\* One upsert of persist_concepts: a reload replaces the label and synonyms and
\* keeps the id, so whatever refers to the concept.
UpsertConcept(i) ==
    LET q == importing[i]
        left == ParsedConcepts(q.doc) \ q.upserted
    IN  /\ q.step = "concepts"
        /\ \E k \in left :
              /\ \A l \in left : k <= l
              /\ LET n == q.doc.nodes[k]
                 IN  concepts' = [c \in DOMAIN concepts \cup {n.code} |->
                                    IF c = n.code THEN n.text ELSE concepts[c]]
              /\ importing' = [importing EXCEPT ![i].upserted = @ \cup {k}]
        /\ UNCHANGED <<isA, vectors, catalogue, embedding, ontologyFaults>>

\* One insert of an is_a edge, on conflict do nothing.
UpsertEdge(i) ==
    LET q == importing[i]
    IN  /\ q.step = "concepts"
        /\ q.upserted = ParsedConcepts(q.doc)
        /\ \E e \in ParsedEdges(q.doc) \ q.wired :
              /\ isA' = isA \cup {e}
              /\ importing' = [importing EXCEPT ![i].wired = @ \cup {e}]
        /\ UNCHANGED <<concepts, vectors, catalogue, embedding, ontologyFaults>>

\* A statement fails or the process dies: the rows upserted so far stay.
ImportFails(i) ==
    /\ importing[i] # Resting
    /\ OntologyFault
    /\ importing' = [importing EXCEPT ![i] = Resting]
    /\ UNCHANGED <<tables, embedding>>

\* The size limit is checked after the load, and refuses only the catalogue row.
Refuse(i) ==
    LET q == importing[i]
    IN  /\ q.step = "concepts"
        /\ q.upserted = ParsedConcepts(q.doc) /\ q.wired = ParsedEdges(q.doc)
        /\ Cardinality(q.upserted) > MaxSync
        /\ importing' = [importing EXCEPT ![i] = Resting]
        /\ UNCHANGED <<tables, embedding, ontologyFaults>>

\* The catalogue row of a finished load.
Register(i) ==
    LET q == importing[i]
    IN  /\ q.step = "concepts"
        /\ q.upserted = ParsedConcepts(q.doc) /\ q.wired = ParsedEdges(q.doc)
        /\ Cardinality(q.upserted) <= MaxSync
        /\ Cardinality(catalogue) < MaxCatalogue
        /\ catalogue' = catalogue \cup
              {[slug |-> q.slug, status |-> "active"]}
        /\ importing' = [importing EXCEPT ![i] = Resting]
        /\ UNCHANGED <<concepts, isA, vectors, embedding, ontologyFaults>>

\* create_ontology: an empty draft row.
CreateOntology ==
    /\ Cardinality(catalogue) < MaxCatalogue
    /\ \E slug \in Slugs :
          catalogue' = catalogue \cup {[slug |-> slug, status |-> "draft"]}
    /\ UNCHANGED <<concepts, isA, vectors, importing, embedding, ontologyFaults>>

\* put_schema: the status and the schema of a row.
PutSchema ==
    /\ \E row \in catalogue, status \in {"active", "draft"} :
          catalogue' = (catalogue \ {row}) \cup {[row EXCEPT !.status = status]}
    /\ UNCHANGED <<concepts, isA, vectors, importing, embedding, ontologyFaults>>

\* delete_ontology: the row goes, the shared concepts stay for everybody.
DeleteOntology ==
    /\ \E row \in catalogue : catalogue' = catalogue \ {row}
    /\ UNCHANGED <<concepts, isA, vectors, importing, embedding, ontologyFaults>>

-----------------------------------------------------------------------------
(* embed_concepts                                                           *)

Unembedded == DOMAIN concepts \ {v.code : v \in vectors}

\* A batch of the concepts that have no vector, LIMIT EmbedBatch.
BatchesOf(pool) ==
    {b \in SUBSET pool : Cardinality(b) = IF Cardinality(pool) < EmbedBatch
                                          THEN Cardinality(pool) ELSE EmbedBatch}

\* Mutant: paged by an offset over a result that shrinks as rows are embedded.
EmbedFetchPaged(e) ==
    /\ embedding[e].step \in {"idle", "next"}
    /\ LET skip == IF embedding[e].step = "idle" THEN 0 ELSE EmbedBatch
           pool == IF Cardinality(Unembedded) <= skip THEN {}
                   ELSE CHOOSE p \in SUBSET Unembedded : Cardinality(p) = Cardinality(Unembedded) - skip
           known == IF embedding[e].step = "idle" THEN DOMAIN concepts ELSE embedding[e].known
       IN  \E batch \in BatchesOf(pool) :
              embedding' = [embedding EXCEPT ![e] =
                  [step |-> IF batch = {} THEN "done" ELSE "insert", known |-> known,
                   batch |-> [c \in batch |-> concepts[c]]]]
    /\ UNCHANGED <<tables, importing, ontologyFaults>>

\* The anti-join, and the texts read with it; an empty batch ends the run.
EmbedFetch(e) ==
    /\ embedding[e].step \in {"idle", "next"}
    /\ LET known == IF embedding[e].step = "idle" THEN DOMAIN concepts ELSE embedding[e].known
       IN  \E batch \in BatchesOf(Unembedded) :
              embedding' = [embedding EXCEPT ![e] =
                  [step |-> IF batch = {} THEN "done" ELSE "insert", known |-> known,
                   batch |-> [c \in batch |-> concepts[c]]]]
    /\ UNCHANGED <<tables, importing, ontologyFaults>>

\* One insert, of the text as it was read: another run may have embedded the
\* concept meanwhile, nothing makes the row unique.
EmbedInsert(e) ==
    LET q == embedding[e]
    IN  /\ q.step = "insert"
        /\ \E c \in DOMAIN q.batch :
              LET left == Restrict(q.batch, DOMAIN q.batch \ {c})
              IN  /\ vectors' = vectors \cup {[code |-> c, text |-> q.batch[c], by |-> e]}
                  /\ embedding' = [embedding EXCEPT ![e] =
                        [step |-> IF DOMAIN left = {} THEN "next" ELSE "insert",
                         known |-> q.known, batch |-> left]]
        /\ UNCHANGED <<concepts, isA, catalogue, importing, ontologyFaults>>

\* The inference service or an insert fails, or the process dies.
EmbedFails(e) ==
    /\ embedding[e].step \in {"insert", "next"}
    /\ OntologyFault
    /\ embedding' = [embedding EXCEPT ![e] = Resting]
    /\ UNCHANGED <<tables, importing>>

\* A finished run may be started again.
EmbedAgain(e) ==
    /\ embedding[e].step = "done"
    /\ embedding' = [embedding EXCEPT ![e] = Resting]
    /\ UNCHANGED <<tables, importing, ontologyFaults>>

-----------------------------------------------------------------------------
OntologyInit ==
    /\ concepts = <<>>
    /\ isA = {}
    /\ vectors = {}
    /\ catalogue = {}
    /\ importing = [i \in Importers |-> Resting]
    /\ embedding = [e \in Embedders |-> Resting]
    /\ ontologyFaults = 0

OntologyNext ==
    \/ \E i \in Importers :
          ImportStart(i) \/ UpsertConcept(i) \/ UpsertEdge(i) \/ ImportFails(i)
              \/ Refuse(i) \/ Register(i)
    \/ CreateOntology \/ PutSchema \/ DeleteOntology
    \/ \E e \in Embedders :
          EmbedFetch(e) \/ EmbedInsert(e) \/ EmbedFails(e) \/ EmbedAgain(e)

OntologySpec == OntologyInit /\ [][OntologyNext]_ontologyvars

-----------------------------------------------------------------------------
\* The tables keep their shape and their references resolve (0003_knowledge.sql,
\* 0006_vectors.sql).
OntologyTypeOK ==
    /\ DOMAIN concepts \subseteq Codes
    /\ Range(concepts) \subseteq Texts
    /\ isA \subseteq (DOMAIN concepts) \X (DOMAIN concepts)
    /\ {v.code : v \in vectors} \subseteq DOMAIN concepts
    /\ Cardinality(catalogue) <= MaxCatalogue

\* A run of embed_concepts that ends leaves no concept it could see at its start
\* without a vector, although runs overlap, resume after failures and page
\* through a result their own inserts change.
EmbedRunIsComplete ==
    \A e \in Embedders : embedding[e].step = "done" =>
        embedding[e].known \subseteq {v.code : v \in vectors}

\* A vector is the embedding of the concept's present text.  Does not hold:
\* a reload replaces the text and the anti-join never visits the concept again.
VectorsAreFresh ==
    \A v \in vectors : v.text = concepts[v.code]
=============================================================================
