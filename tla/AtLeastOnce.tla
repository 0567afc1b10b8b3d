----------------------------- MODULE AtLeastOnce -----------------------------
(***************************************************************************)
(* What the job queue promises to its workers, without streams, rows or    *)
(* stages: a submitted job is run by some worker, perhaps by several and   *)
(* perhaps again after a crash, until one run of it is acknowledged; after *)
(* that no new run of it starts.                                           *)
(***************************************************************************)
CONSTANTS Jobs, Workers, NoJob

VARIABLES
  submitted,   \* jobs handed to the queue
  finished,    \* jobs with an acknowledged run
  running      \* the job each worker runs

vars == <<submitted, finished, running>>

TypeOK ==
  /\ submitted \subseteq Jobs
  /\ finished \subseteq submitted
  /\ running \in [Workers -> Jobs \cup {NoJob}]

Init ==
  /\ submitted = {}
  /\ finished = {}
  /\ running = [w \in Workers |-> NoJob]

Submit(j) ==
  /\ j \notin submitted
  /\ submitted' = submitted \cup {j}
  /\ UNCHANGED <<finished, running>>

Start(w, j) ==
  /\ running[w] = NoJob
  /\ j \in submitted \ finished
  /\ running' = [running EXCEPT ![w] = j]
  /\ UNCHANGED <<submitted, finished>>

Finish(w) ==
  /\ running[w] # NoJob
  /\ finished' = finished \cup {running[w]}
  /\ running' = [running EXCEPT ![w] = NoJob]
  /\ UNCHANGED submitted

\* The worker dies, or its acknowledgement is lost.
Abandon(w) ==
  /\ running[w] # NoJob
  /\ running' = [running EXCEPT ![w] = NoJob]
  /\ UNCHANGED <<submitted, finished>>

Next ==
  \/ \E j \in Jobs : Submit(j)
  \/ \E w \in Workers, j \in Jobs : Start(w, j)
  \/ \E w \in Workers : Finish(w) \/ Abandon(w)

Spec == Init /\ [][Next]_vars

\* Every submitted job is eventually finished.
Delivers == \A j \in Jobs : j \in submitted ~> j \in finished
=============================================================================
