----------------------------- MODULE ConceptGraph -----------------------------
(***************************************************************************)
(* The concept graph of a tenant: build_graph and its readers              *)
(* (insight-core graph.rs, insight-api routes/graph.rs).                   *)
(*                                                                         *)
(* A build is one transaction under READ COMMITTED: every statement sees   *)
(* what is committed when it starts.  A DELETE waits for another build     *)
(* that has deleted one of its rows, and then deletes those of its rows    *)
(* that are left.  Builds and readers of the graph overlap freely.         *)
(***************************************************************************)
EXTENDS Naturals, FiniteSets

CONSTANTS
  Concepts,
  Labels,     \* display labels: canonical_topic, or "(concept)" without one
  Documents,
  Builds,     \* builds in progress
  Readers,    \* adjacency, for communities, pagerank and stats
  MaxNodeId,  \* bound on the node ids
  MaxClaimRows

ASSUME ConceptGraphAssumption == MaxNodeId \in Nat /\ MaxClaimRows \in Nat

VARIABLES
  claimRows,  \* grounded claims: concept, label and document
  nodes,      \* committed rows: id and concept
  edges,      \* committed rows: pairs of ids, from and to
  lastId,
  build,      \* the transactions
  reader,     \* what a reader has read
  shown       \* the concepts that committed builds have read

gvars == <<claimRows, nodes, edges, lastId, build, reader, shown>>

NoBuild == [pc |-> "idle", target |-> {}, gone |-> {}, new |-> {}, nodeOf |-> {}, links |-> {}]
NoRead == [pc |-> "idle", ids |-> {}, pairs |-> {}]

Ids(S) == {n.id : n \in S}
ConceptsOf(S) == {n.concept : n \in S}

GraphTypeOK ==
  /\ claimRows \subseteq Concepts \X Labels \X Documents
  /\ ConceptsOf(nodes) \subseteq Concepts /\ Ids(nodes) \subseteq 1 .. lastId
  /\ \A e \in edges : {e.from, e.to} \subseteq Ids(nodes)
  /\ \A b \in Builds : build[b].pc \in {"idle", "edges", "delete-nodes", "nodes", "select",
                                        "pairs", "commit"}
  /\ \A r \in Readers : reader[r].pc \in {"idle", "edges", "compute"}

GraphInit ==
  /\ claimRows = {} /\ nodes = {} /\ edges = {} /\ lastId = 0 /\ shown = {}
  /\ build = [b \in Builds |-> NoBuild]
  /\ reader = [r \in Readers |-> NoRead]

GroundClaim ==
  /\ Cardinality(claimRows) < MaxClaimRows
  /\ \E row \in Concepts \X Labels \X Documents : claimRows' = claimRows \cup {row}
  /\ UNCHANGED <<nodes, edges, lastId, build, reader, shown>>

BuildAt(b, pc) == build[b].pc = pc
SetBuild(b, r) == build' = [build EXCEPT ![b] = r]
OnlyBuild == UNCHANGED <<claimRows, nodes, edges, lastId, reader, shown>>

\* The rows a DELETE has to wait for are those another build has deleted.
Locked(b) == UNION {build[o].gone : o \in Builds \ {b}}

\* DELETE FROM edges: its snapshot, and its end.
StartDeleteEdges(b) ==
  /\ BuildAt(b, "idle")
  /\ SetBuild(b, [pc |-> "edges", target |-> edges, gone |-> {}, new |-> {}, nodeOf |-> {},
                 links |-> {}])
  /\ OnlyBuild

DeleteEdges(b) ==
  /\ BuildAt(b, "edges") /\ build[b].target \cap Locked(b) = {}
  /\ SetBuild(b, [pc |-> "delete-nodes", target |-> build[b].target,
                 gone |-> build[b].target \cap edges, new |-> {}, nodeOf |-> {}, links |-> {}])
  /\ OnlyBuild

\* DELETE FROM nodes
StartDeleteNodes(b) ==
  /\ BuildAt(b, "delete-nodes")
  /\ SetBuild(b, [pc |-> "nodes", target |-> nodes, gone |-> build[b].gone, new |-> {},
                 nodeOf |-> {}, links |-> {}])
  /\ OnlyBuild

DeleteNodes(b) ==
  /\ BuildAt(b, "nodes") /\ build[b].target \cap Locked(b) = {}
  /\ SetBuild(b, [pc |-> "select", target |-> {}, new |-> {}, nodeOf |-> {}, links |-> {},
                 gone |-> build[b].gone \cup (build[b].target \cap nodes)])
  /\ OnlyBuild

Rows == {<<r[1], r[2]>> : r \in claimRows}

\* SELECT DISTINCT concept, label; a node per row, and per concept the last
\* one in node_of.
InsertNodes(b) ==
  /\ BuildAt(b, "select")
  /\ lastId + Cardinality(Rows) <= MaxNodeId
  /\ lastId' = lastId + Cardinality(Rows)
  /\ \E id \in [Rows -> lastId + 1 .. lastId'] :
       /\ \A r, q \in Rows : id[r] = id[q] => r = q
       /\ LET new == {[id |-> id[r], concept |-> r[1]] : r \in Rows} IN
          SetBuild(b, [pc |-> "pairs", target |-> {}, gone |-> build[b].gone, new |-> new,
            nodeOf |-> {n \in new : \A m \in new : m.concept = n.concept => m.id <= n.id},
            links |-> {}])
  /\ UNCHANGED <<claimRows, nodes, edges, reader, shown>>

\* Pairs of concepts that have claims from one document.
CoOccur(c, d) == \E r, q \in claimRows : r[1] = c /\ q[1] = d /\ r[3] = q[3]

\* An edge for each such pair of a set, from the lesser concept (here: id).
Links(pairs) ==
  {[from |-> p[1].id, to |-> p[2].id] : p \in
     {p \in pairs : /\ CoOccur(p[1].concept, p[2].concept)
                   /\ p[1].concept # p[2].concept /\ p[1].id < p[2].id}}

\* Mutant of InsertEdges: the nodes that others have committed are linked too.
InsertEdgesToAll(b) ==
  /\ BuildAt(b, "pairs")
  /\ LET linked == (nodes \ build[b].gone) \cup build[b].nodeOf
     IN SetBuild(b, [build[b] EXCEPT !.pc = "commit", !.links = Links(linked \X build[b].nodeOf)])
  /\ OnlyBuild

\* The pairs that have nodes.
InsertEdges(b) ==
  /\ BuildAt(b, "pairs")
  /\ SetBuild(b, [pc |-> "commit", target |-> {}, gone |-> build[b].gone, new |-> build[b].new,
                 nodeOf |-> build[b].nodeOf,
                 links |-> Links(build[b].nodeOf \X build[b].nodeOf)])
  /\ OnlyBuild

\* Mutant of CommitBuild: it deletes at its end, what others committed included.
CommitWipes(b) ==
  /\ BuildAt(b, "commit")
  /\ nodes' = build[b].new
  /\ edges' = build[b].links
  /\ shown' = shown \cup ConceptsOf(build[b].new)
  /\ SetBuild(b, NoBuild)
  /\ UNCHANGED <<claimRows, lastId, reader>>

\* Deleting a node deletes its edges.
CommitBuild(b) ==
  /\ BuildAt(b, "commit")
  /\ nodes' = (nodes \ build[b].gone) \cup build[b].new
  /\ edges' = {e \in (edges \ build[b].gone) \cup build[b].links :
                 {e.from, e.to} \subseteq Ids(nodes')}
  /\ shown' = shown \cup ConceptsOf(build[b].new)
  /\ SetBuild(b, NoBuild)
  /\ UNCHANGED <<claimRows, lastId, reader>>

\* The database or the worker fails; two builds that wait for each other never
\* occur, as all delete the edges first.
AbortBuild(b) ==
  /\ ~BuildAt(b, "idle")
  /\ SetBuild(b, NoBuild)
  /\ OnlyBuild

\* adjacency: SELECT id FROM nodes, and SELECT ... FROM edges in the same
\* transaction but of a later snapshot.
ReadNodes(r) ==
  /\ reader[r].pc = "idle"
  /\ reader' = [reader EXCEPT ![r] = [pc |-> "edges", ids |-> Ids(nodes), pairs |-> {}]]
  /\ UNCHANGED <<claimRows, nodes, edges, lastId, build, shown>>

ReadEdges(r) ==
  /\ reader[r].pc = "edges"
  /\ reader' = [reader EXCEPT ![r] = [pc |-> "compute", ids |-> reader[r].ids, pairs |-> edges]]
  /\ UNCHANGED <<claimRows, nodes, edges, lastId, build, shown>>

Answer(r) ==
  /\ reader[r].pc = "compute"
  /\ reader' = [reader EXCEPT ![r] = NoRead]
  /\ UNCHANGED <<claimRows, nodes, edges, lastId, build, shown>>

GraphNext ==
  \/ GroundClaim
  \/ \E b \in Builds : \/ StartDeleteEdges(b) \/ DeleteEdges(b) \/ StartDeleteNodes(b)
                       \/ DeleteNodes(b) \/ InsertNodes(b) \/ InsertEdges(b)
                       \/ CommitBuild(b) \/ AbortBuild(b)
  \/ \E r \in Readers : ReadNodes(r) \/ ReadEdges(r) \/ Answer(r)

GraphSpec == GraphInit /\ [][GraphNext]_gvars

-----------------------------------------------------------------------------
(* Properties *)

\* However builds overlap, a concept that a committed build has shown stays in
\* the graph: no build wipes the nodes of another whose claims it did not read
\* (graph.rs build_graph deletes before it selects).
NoConceptLost == shown \subseteq ConceptsOf(nodes)

\* pagerank unwraps the rank of every neighbour (graph.rs:257): though it reads
\* the edges after the nodes, a neighbour of a node it has read is one it has
\* read, because no build links its nodes to those of another.
NeighboursAreNodes ==
  \A r \in Readers : reader[r].pc = "compute" =>
     \A e \in reader[r].pairs : e.from \in reader[r].ids <=> e.to \in reader[r].ids

\* "Insert a node per concept" (graph.rs:63).
OneNodePerConcept == \A m, n \in nodes : m.concept = n.concept => m = n
=============================================================================
