---------------------------- MODULE MCWorkerRegistry ----------------------------
(* The worker registry on a small instance: two workers that may be given   *)
(* one or two documents at a time, three documents, and enough batch ids    *)
(* for every document to be handed out, taken back and handed out again.    *)
EXTENDS WorkerRegistry, TLC

Symmetry == Permutations(Workers) \cup Permutations(Docs)
=============================================================================
