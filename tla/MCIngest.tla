------------------------------ MODULE MCIngest ------------------------------
(***************************************************************************)
(* Instances of IngestPipeline for TLC.  Worker and handler names are      *)
(* interchangeable, so runs of safety properties use them as symmetric.    *)
(***************************************************************************)
EXTENDS IngestProperties, TLC

CONSTANTS w1, w2, r1, r2, d1, c1, c2

OneWorker == {w1}
TwoWorkers == {w1, w2}
OneRequest == {r1}
TwoRequests == {r1, r2}
OneDoc == {d1}
OneChunk == {c1}
TwoChunks == {c1, c2}

OneJob == 1 .. 1
TwoJobs == 1 .. 2

CreateOnly == {"create"}
CreateCancel == {"create", "cancel"}
AllOperations == {"create", "retry", "cancel"}

Symmetry == Permutations(Workers) \cup Permutations(Requests)
              \cup Permutations(Chunks)
=============================================================================
