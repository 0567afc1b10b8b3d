-------------------------------- MODULE Search --------------------------------
(***************************************************************************)
(* Hybrid search of one query in one tenant (insight-core retrieve.rs,     *)
(* storage/vector_store.rs; insight-api routes/search.rs): two candidate   *)
(* lists read in two transactions, fused, reranked, and cached in Redis.   *)
(*                                                                         *)
(* Chunks are numbered by their distance to the query, and rank the other  *)
(* way round in the text search; the index scan of the vectors is taken to *)
(* be exact.  Nothing in the engine deletes a chunk.  A tick is longer     *)
(* than a search.                                                          *)
(***************************************************************************)
EXTENDS Integers, Sequences, FiniteSets

CONSTANTS
  Chunks,       \* 1 .. n
  Matching,     \* the chunks that the text search finds
  Searchers,    \* searches in flight
  TopK, Candidates, RerankPool,
  SearchTtl,    \* CACHE_TTL_SECS, in ticks
  MaxSearchFaults

ASSUME SearchAssumption ==
  /\ Chunks \subseteq Nat /\ IsFiniteSet(Chunks) /\ Matching \subseteq Chunks
  /\ {TopK, Candidates, RerankPool, SearchTtl} \subseteq Nat \ {0} /\ TopK <= Candidates
  /\ MaxSearchFaults \in Nat

VARIABLES
  stored,    \* of a chunk: "none", its "text", or its "vector" too
  foundFor,  \* ticks since a search can find it, up to SearchTtl
  results,   \* the entry of the query: set, age, hits
  searcher,
  searchFaults

searchvars == <<stored, foundFor, results, searcher, searchFaults>>

NoResults == [set |-> FALSE, age |-> 0, hits |-> <<>>]
IdleSearch == [pc |-> "idle", dense |-> <<>>, hits |-> <<>>]

SearchInit ==
  /\ stored = [c \in Chunks |-> "none"]
  /\ foundFor = [c \in Chunks |-> 0]
  /\ results = NoResults
  /\ searcher = [s \in Searchers |-> IdleSearch]
  /\ searchFaults = 0

SearchAt(s, pc) == searcher[s].pc = pc
SetSearch(s, r) == searcher' = [searcher EXCEPT ![s] = r]
SearchFault == searchFaults < MaxSearchFaults /\ searchFaults' = searchFaults + 1

-----------------------------------------------------------------------------
(* The chunks *)

\* persist inserts the text of a chunk.
StoreText ==
  /\ \E c \in Chunks : stored[c] = "none" /\ stored' = [stored EXCEPT ![c] = "text"]
  /\ UNCHANGED <<foundFor, results, searcher, searchFaults>>

\* The ingest, or a reindex when it could not, adds the vector.
StoreVector ==
  /\ \E c \in Chunks : stored[c] = "text" /\ stored' = [stored EXCEPT ![c] = "vector"]
  /\ UNCHANGED <<foundFor, results, searcher, searchFaults>>

Findable(c) == stored[c] = "vector" \/ (stored[c] = "text" /\ c \in Matching)

\* The first k of a set of chunks.
First(S, k, Before(_, _)) ==
  [i \in 1 .. (IF Cardinality(S) < k THEN Cardinality(S) ELSE k) |->
     CHOOSE c \in S : Cardinality({d \in S : Before(d, c)}) = i - 1]

\* knn_search: the chunks that have a vector, nearest first.
KnnSearch == First({c \in Chunks : stored[c] = "vector"}, Candidates, LAMBDA c, d : c < d)

\* fts_search: the chunks that match, with a vector or without, best first.
FtsSearch ==
  First({c \in Matching : stored[c] # "none"}, Candidates, LAMBDA c, d : c > d)

-----------------------------------------------------------------------------
(* search *)

RangeOf(list) == {list[i] : i \in 1 .. Len(list)}
Orders(S) == {list \in [1 .. Cardinality(S) -> S] : RangeOf(list) = S}
Take(list, k) == SubSeq(list, 1, IF Len(list) < k THEN Len(list) ELSE k)

\* 1 / (RRF_K + rank), ranks counted from 0, in units that keep it exact.
RrfK == 60
Unit == RrfK * (RrfK + 1) * (RrfK + 2)
Contribution(list, c) ==
  LET ranks == {i \in 1 .. Len(list) : list[i] = c}
  IN IF ranks = {} THEN 0 ELSE Unit \div (RrfK + (CHOOSE i \in ranks : TRUE) - 1)

\* rrf_fuse: every candidate once, by descending sum; a hash map breaks ties.
RrfFuse(dense, fts) ==
  LET Score(c) == Contribution(dense, c) + Contribution(fts, c)
  IN {list \in Orders(RangeOf(dense) \cup RangeOf(fts)) :
        \A i \in 1 .. Len(list) - 1 : Score(list[i]) >= Score(list[i + 1])}

\* Mutant of CacheGet: an entry that is served lives on for another TTL.
CacheGetSlides(s) ==
  /\ SearchAt(s, "idle")
  /\ \/ /\ results.set
        /\ SetSearch(s, [IdleSearch EXCEPT !.pc = "answer", !.hits = results.hits])
        /\ results' = [results EXCEPT !.age = 0]
     \/ /\ ~results.set
        /\ SetSearch(s, [IdleSearch EXCEPT !.pc = "embed"])
        /\ UNCHANGED results
  /\ UNCHANGED <<stored, foundFor, searchFaults>>

\* The entry of the tenant, the normalized query and top_k.
CacheGet(s) ==
  /\ SearchAt(s, "idle")
  /\ IF results.set
     THEN SetSearch(s, [pc |-> "answer", dense |-> <<>>, hits |-> results.hits])
     ELSE SetSearch(s, [IdleSearch EXCEPT !.pc = "embed"])
  /\ UNCHANGED <<stored, foundFor, results, searchFaults>>

\* A GET that fails is a miss.
CacheGetFails(s) ==
  /\ SearchAt(s, "idle") /\ SearchFault
  /\ SetSearch(s, [IdleSearch EXCEPT !.pc = "embed"])
  /\ UNCHANGED <<stored, foundFor, results>>

\* embed_query_cached: the embedding is a function of the query, cached or not.
EmbedQuery(s) ==
  /\ SearchAt(s, "embed")
  /\ SetSearch(s, [searcher[s] EXCEPT !.pc = "knn"])
  /\ UNCHANGED <<stored, foundFor, results, searchFaults>>

Knn(s) ==
  /\ SearchAt(s, "knn")
  /\ SetSearch(s, [pc |-> "fts", dense |-> KnnSearch, hits |-> <<>>])
  /\ UNCHANGED <<stored, foundFor, results, searchFaults>>

\* The second list, and the fusion; nothing found is cached as it is.
Fts(s) ==
  /\ SearchAt(s, "fts")
  /\ \E fused \in RrfFuse(searcher[s].dense, FtsSearch) :
       SetSearch(s, [pc |-> IF fused = <<>> THEN "put" ELSE "rerank", dense |-> <<>>,
                     hits |-> Take(fused, RerankPool)])
  /\ UNCHANGED <<stored, foundFor, results, searchFaults>>

\* The order of the cross-encoder, which may be any, or of the fusion if it does
\* not answer; resolve_document_ids then reads where the hits are, if it can.
Rerank(s) ==
  /\ SearchAt(s, "rerank")
  /\ \E order \in Orders(RangeOf(searcher[s].hits)) :
       SetSearch(s, [pc |-> "put", dense |-> <<>>, hits |-> Take(order, TopK)])
  /\ UNCHANGED <<stored, foundFor, results, searchFaults>>

\* cache_hits, best effort.
CacheHits(s) ==
  /\ SearchAt(s, "put")
  /\ \/ results' = [set |-> TRUE, age |-> 0, hits |-> searcher[s].hits] /\ UNCHANGED searchFaults
     \/ UNCHANGED results /\ SearchFault
  /\ SetSearch(s, [searcher[s] EXCEPT !.pc = "answer"])
  /\ UNCHANGED <<stored, foundFor>>

\* The answer is sent, or the search failed or was dropped before it.
SearchEnds(s) ==
  /\ \/ SearchAt(s, "answer") /\ UNCHANGED searchFaults
     \/ searcher[s].pc \in {"embed", "knn", "fts"} /\ SearchFault
  /\ SetSearch(s, IdleSearch)
  /\ UNCHANGED <<stored, foundFor, results>>

\* Redis drops the entry when its TTL is over.
SearchTick ==
  /\ \A s \in Searchers : SearchAt(s, "idle")
  /\ results' = IF results.set /\ results.age + 1 < SearchTtl
                THEN [results EXCEPT !.age = @ + 1] ELSE NoResults
  /\ foundFor' = [c \in Chunks |-> IF Findable(c) /\ foundFor[c] < SearchTtl
                                   THEN foundFor[c] + 1 ELSE foundFor[c]]
  /\ UNCHANGED <<stored, searcher, searchFaults>>

SearchNext ==
  \/ StoreText \/ StoreVector \/ SearchTick
  \/ \E s \in Searchers :
       \/ CacheGet(s) \/ CacheGetFails(s) \/ EmbedQuery(s) \/ Knn(s) \/ Fts(s) \/ Rerank(s)
       \/ CacheHits(s) \/ SearchEnds(s)

SearchSpec == SearchInit /\ [][SearchNext]_searchvars

-----------------------------------------------------------------------------
(* Properties *)

\* A list names a chunk once, and the cache holds no more than was asked for.
SearchTypeOK ==
  /\ stored \in [Chunks -> {"none", "text", "vector"}]
  /\ foundFor \in [Chunks -> 0 .. SearchTtl]
  /\ results.age \in 0 .. SearchTtl - 1 /\ Len(results.hits) <= TopK
  /\ \A s \in Searchers : LET hits == searcher[s].hits IN
       hits \in Orders(RangeOf(hits)) /\ RangeOf(hits) \subseteq Chunks

\* A chunk that a search has been able to find for one TTL is in every answer
\* that has room for it: neither a cached answer of before, nor a list read
\* while the chunk was stored, hides it any longer (retrieve.rs search).
NothingOldMissing ==
  \A s \in Searchers : LET hits == searcher[s].hits IN
     SearchAt(s, "answer") /\ Len(hits) < TopK /\ Len(hits) < RerankPool =>
       \A c \in Chunks : foundFor[c] = SearchTtl => c \in RangeOf(hits)
=============================================================================
