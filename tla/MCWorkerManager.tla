--------------------------- MODULE MCWorkerManager ---------------------------
(* WorkerManager on small instances: who shares a queue.                   *)
EXTENDS WorkerManager, TLC

CONSTANTS api, post, thing, qApi, qWork, qOther

\* A processor and a scraper that wait for each other's queue
SharedQueue == api :> qApi @@ post :> qWork @@ thing :> qWork

\* A queue each
OwnQueues == api :> qApi @@ post :> qWork @@ thing :> qOther

Symmetry == Permutations(Worker)
=============================================================================
