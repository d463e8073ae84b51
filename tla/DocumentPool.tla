------------------------------ MODULE DocumentPool ------------------------------
(***************************************************************************)
(* What the coordinator of the distributed worker pool promises about the  *)
(* documents it is given, without batches, heartbeats or reaping: a        *)
(* document waits, is leased to one worker, and either comes back to wait  *)
(* again or is settled by the worker that holds it.  A settled document    *)
(* never comes back.  WorkerRegistry.tla is shown to implement this.       *)
(***************************************************************************)
CONSTANTS Workers,   \* the worker processes
          Docs,      \* the documents (one element per DocRef handed in)
          Nobody     \* the holder of a document that no worker holds

VARIABLES place,     \* where each document is
          holder     \* the worker that leased, or settled, each document

poolVars == <<place, holder>>

Init ==
  /\ place = [d \in Docs |-> "outside"]
  /\ holder = [d \in Docs |-> Nobody]

(* The scheduler hands in documents the pool has not seen. *)
Add(D) ==
  /\ \A d \in D : place[d] = "outside"
  /\ place' = [d \in Docs |-> IF d \in D THEN "waiting" ELSE place[d]]
  /\ UNCHANGED holder

(* Worker w is given documents that were waiting. *)
Lease(w, D) ==
  /\ \A d \in D : place[d] = "waiting"
  /\ place' = [d \in Docs |-> IF d \in D THEN "leased" ELSE place[d]]
  /\ holder' = [d \in Docs |-> IF d \in D THEN w ELSE holder[d]]

(* Leased documents are taken away from their holders. *)
TakeBack(D) ==
  /\ \A d \in D : place[d] = "leased"
  /\ place' = [d \in Docs |-> IF d \in D THEN "waiting" ELSE place[d]]
  /\ holder' = [d \in Docs |-> IF d \in D THEN Nobody ELSE holder[d]]

(* Worker w, and only the worker that holds them, settles documents. *)
Settle(w, D) ==
  /\ \A d \in D : place[d] = "leased" /\ holder[d] = w
  /\ place' = [d \in Docs |-> IF d \in D THEN "settled" ELSE place[d]]
  /\ UNCHANGED holder

Next ==
  \E D \in SUBSET Docs :
    \/ Add(D)
    \/ TakeBack(D)
    \/ \E w \in Workers : Lease(w, D) \/ Settle(w, D)

Spec == Init /\ [][Next]_poolVars
=============================================================================
