----------------------------- MODULE MCWorkerPool -----------------------------
(* Two workers, two posters, two start/stop rounds.                        *)
EXTENDS WorkerPool

===============================================================================
