----------------------------- MODULE WorkerRegistry -----------------------------
(***************************************************************************)
(* The worker registry of the distributed pool                             *)
(* (src/backend/coordinator/registry.py): documents waiting in a deque,    *)
(* batches leased to workers, heartbeats, completion reports and the       *)
(* reaper that takes a silent worker's batch back.                         *)
(*                                                                         *)
(* Every method holds the registry's one asyncio.Lock from its first to    *)
(* its last statement, so each is one action.  Here the callers are        *)
(* unconstrained: any worker may call any method with any batch id at any  *)
(* time, which covers duplicated, reordered and late calls.                *)
(* DistributedIngest.tla composes the same actions with the real callers.  *)
(*                                                                         *)
(* Time: last_seen and the timeout are abstracted to the set `silent` of   *)
(* workers whose last_seen is older than heartbeat_timeout; time passes in *)
(* FallSilent.  Left out: host, the batch's completed/total and the        *)
(* dead_workers/reassignments counters, which only the status views read.  *)
(***************************************************************************)
EXTENDS Naturals, Sequences, FiniteSets, Functions

CONSTANTS Workers,   \* worker ids
          Docs,      \* DocRef objects: each is handed in at most once
          BatchIds,  \* the uuids batches draw; bounds the number of batches
          Limits,    \* the max_docs values workers ask with
          Nobody,    \* "no worker"
          NoBatch    \* "no batch" (None)

ASSUME RegistryAssumption ==
  /\ IsFiniteSet(Docs)
  /\ Limits \subseteq Nat \ {0}
  /\ Nobody \notin Workers
  /\ NoBatch \notin BatchIds

VARIABLES pending,      \* _pending, head first
          workerState,  \* Worker.state; "absent" when the id is not in _workers
          workerBatch,  \* Worker.batch_id
          silent,       \* workers with now - last_seen > heartbeat_timeout
          batchState,   \* Batch.state; "unknown" when the id is not in _batches
          batchOwner,   \* Batch.worker_id
          batchDocs,    \* Batch.docs
          added         \* history: every document add_documents was given

workerVars == <<workerState, workerBatch, silent>>
batchVars == <<batchState, batchOwner, batchDocs>>
registryVars == <<pending, workerVars, batchVars, added>>

WorkerStates == {"absent", "idle", "processing", "dead"}
BatchStates == {"unknown", "assigned", "done", "reassigned"}

TypeOK ==
  /\ pending \in Seq(Docs)
  /\ workerState \in [Workers -> WorkerStates]
  /\ workerBatch \in [Workers -> BatchIds \cup {NoBatch}]
  /\ silent \subseteq Workers
  /\ batchState \in [BatchIds -> BatchStates]
  /\ batchOwner \in [BatchIds -> Workers \cup {Nobody}]
  /\ batchDocs \in [BatchIds -> Seq(Docs)]
  /\ added \subseteq Docs

Init ==
  /\ pending = <<>>
  /\ workerState = [w \in Workers |-> "absent"]
  /\ workerBatch = [w \in Workers |-> NoBatch]
  /\ silent = {}
  /\ batchState = [b \in BatchIds |-> "unknown"]
  /\ batchOwner = [b \in BatchIds |-> Nobody]
  /\ batchDocs = [b \in BatchIds |-> <<>>]
  /\ added = {}

-----------------------------------------------------------------------------
(* add_documents: the scheduler appends a source's documents, in order. *)
AddDocuments(ds) ==
  /\ Range(ds) \cap added = {}
  /\ pending' = pending \o ds
  /\ added' = added \cup Range(ds)
  /\ UNCHANGED <<workerVars, batchVars>>

(* register: a fresh Worker object replaces whatever was known of the id,  *)
(* its batch_id included.  The batch itself is not touched.                *)
Register(w) ==
  /\ workerState' = [workerState EXCEPT ![w] = "idle"]
  /\ workerBatch' = [workerBatch EXCEPT ![w] = NoBatch]
  /\ silent' = silent \ {w}
  /\ UNCHANGED <<pending, batchVars, added>>

(* request_work finding nothing to hand out: only an unknown worker leaves *)
(* a trace, the record it is registered under.                             *)
RequestNothing(w) ==
  /\ pending = <<>>
  /\ IF workerState[w] = "absent"
       THEN /\ workerState' = [workerState EXCEPT ![w] = "idle"]
            /\ silent' = silent \ {w}
       ELSE UNCHANGED <<workerState, silent>>
  /\ UNCHANGED <<pending, workerBatch, batchVars, added>>

FreshIds == {b \in BatchIds : batchState[b] = "unknown"}
NextId == CHOOSE b \in FreshIds : TRUE

(* Broken: the last document popped stays in the deque. *)
TakeBatchPeeks(w, max) ==
  /\ pending # <<>>
  /\ FreshIds # {}
  /\ LET n == IF max < Len(pending) THEN max ELSE Len(pending)
     IN /\ pending' = SubSeq(pending, n, Len(pending))
        /\ batchDocs' = [batchDocs EXCEPT ![NextId] = SubSeq(pending, 1, n)]
  /\ batchState' = [batchState EXCEPT ![NextId] = "assigned"]
  /\ batchOwner' = [batchOwner EXCEPT ![NextId] = w]
  /\ workerState' = [workerState EXCEPT ![w] = "processing"]
  /\ workerBatch' = [workerBatch EXCEPT ![w] = NextId]
  /\ silent' = silent \ {w}
  /\ UNCHANGED added

(* request_work: pop up to max documents off the left into a new batch.    *)
(* The worker's record is overwritten: a dead worker is alive again, and   *)
(* a batch it still held is no longer its batch_id.                        *)
TakeBatch(w, max) ==
  /\ pending # <<>>
  /\ FreshIds # {}
  /\ LET n == IF max < Len(pending) THEN max ELSE Len(pending)
     IN /\ pending' = SubSeq(pending, n + 1, Len(pending))
        /\ batchDocs' = [batchDocs EXCEPT ![NextId] = SubSeq(pending, 1, n)]
  /\ batchState' = [batchState EXCEPT ![NextId] = "assigned"]
  /\ batchOwner' = [batchOwner EXCEPT ![NextId] = w]
  /\ workerState' = [workerState EXCEPT ![w] = "processing"]
  /\ workerBatch' = [workerBatch EXCEPT ![w] = NextId]
  /\ silent' = silent \ {w}
  /\ UNCHANGED added

RequestWork(w, max) == RequestNothing(w) \/ TakeBatch(w, max)

(* heartbeat's answer keep_going: FALSE once the batch was taken away. *)
KeepGoing(w, b) ==
  b \in FreshIds \/ (batchOwner[b] = w /\ batchState[b] # "reassigned")

(* Broken: any status string is stored. *)
HeartbeatUnfiltered(w, b, status) ==
  /\ IF workerState[w] \in {"absent", "dead"}
       THEN UNCHANGED <<workerState, silent>>
       ELSE /\ silent' = silent \ {w}
            /\ workerState' = [workerState EXCEPT ![w] = status]
  /\ UNCHANGED <<pending, workerBatch, batchVars, added>>

(* heartbeat: liveness is recorded for any worker not declared dead, even  *)
(* when the batch it speaks of is not its own any more.                    *)
Heartbeat(w, b, status) ==
  /\ IF workerState[w] \in {"absent", "dead"}
       THEN UNCHANGED <<workerState, silent>>
       ELSE /\ silent' = silent \ {w}
            /\ workerState' =
                 [workerState EXCEPT ![w] =
                    IF status \in {"idle", "processing"} THEN status ELSE @]
  /\ UNCHANGED <<pending, workerBatch, batchVars, added>>

(* Broken: a reassigned batch can still be completed. *)
AcceptsReassigned(w, b) == batchState[b] # "unknown" /\ batchOwner[b] = w

(* complete's answer: only the owner of a batch not reassigned is heard. *)
Accepts(w, b) ==
  /\ batchState[b] \notin {"unknown", "reassigned"}
  /\ batchOwner[b] = w

(* Broken: the worker's batch_id is not cleared. *)
CompleteKeepsBatch(w, b) ==
  /\ IF Accepts(w, b)
       THEN /\ batchState' = [batchState EXCEPT ![b] = "done"]
            /\ workerState' = IF workerState[w] \in {"absent", "dead"} THEN workerState
                              ELSE [workerState EXCEPT ![w] = "idle"]
       ELSE UNCHANGED <<batchState, workerState>>
  /\ UNCHANGED <<pending, workerBatch, silent, batchOwner, batchDocs, added>>

(* complete: the batch is done, whatever part of it the report names, and  *)
(* the worker record is freed, whatever batch it holds by now.             *)
Complete(w, b) ==
  /\ IF Accepts(w, b)
       THEN /\ batchState' = [batchState EXCEPT ![b] = "done"]
            /\ IF workerState[w] \in {"absent", "dead"}
                 THEN UNCHANGED <<workerState, workerBatch>>
                 ELSE /\ workerState' = [workerState EXCEPT ![w] = "idle"]
                      /\ workerBatch' = [workerBatch EXCEPT ![w] = NoBatch]
       ELSE UNCHANGED <<batchState, workerState, workerBatch>>
  /\ UNCHANGED <<pending, silent, batchOwner, batchDocs, added>>

(* Time passes: nothing was heard of w for longer than heartbeat_timeout. *)
FallSilent(w) ==
  /\ workerState[w] # "absent"
  /\ silent' = silent \cup {w}
  /\ UNCHANGED <<pending, workerState, workerBatch, batchVars, added>>

-----------------------------------------------------------------------------
(* One pass of reap_dead.  Idle workers send no heartbeats and are skipped. *)
Expired == {w \in silent : workerState[w] = "processing"}

(* The batches the pass takes back: held by an expired worker, still open. *)
Reclaimed ==
  {b \in BatchIds : batchState[b] = "assigned"
                    /\ \E w \in Expired : workerBatch[w] = b}

ReclaimedDocs == UNION {Range(batchDocs[b]) : b \in Reclaimed}

(* s holds the batch's documents as one block, in the batch's own order. *)
KeepsBlock(s, b) ==
  \E k \in 0 .. Len(s) - Len(batchDocs[b]) :
    \A i \in 1 .. Len(batchDocs[b]) : s[k + i] = batchDocs[b][i]

(* What extendleft puts in front: the reclaimed batches one after another, *)
(* in the order _workers is iterated, which is left open.                  *)
Requeues ==
  {s \in Bijection(1 .. Cardinality(ReclaimedDocs), ReclaimedDocs) :
     \A b \in Reclaimed : KeepsBlock(s, b)}

RetireExpired ==
  /\ Expired # {}
  /\ workerState' =
       [w \in Workers |-> IF w \in Expired THEN "dead" ELSE workerState[w]]
  /\ workerBatch' =
       [w \in Workers |-> IF w \in Expired THEN NoBatch ELSE workerBatch[w]]

CloseReclaimed ==
  batchState' =
    [b \in BatchIds |-> IF b \in Reclaimed THEN "reassigned" ELSE batchState[b]]

(* Broken: the documents go to the back of the deque. *)
ReapToTheBack ==
  /\ RetireExpired
  /\ CloseReclaimed
  /\ \E s \in Requeues : pending' = pending \o s
  /\ UNCHANGED <<silent, batchOwner, batchDocs, added>>

(* Broken: the batch is taken away and its documents are not requeued. *)
ReapDrops ==
  /\ RetireExpired
  /\ CloseReclaimed
  /\ UNCHANGED <<pending, silent, batchOwner, batchDocs, added>>

ReapDead ==
  /\ RetireExpired
  /\ CloseReclaimed
  /\ \E s \in Requeues : pending' = s \o pending
  /\ UNCHANGED <<silent, batchOwner, batchDocs, added>>

-----------------------------------------------------------------------------
Arrivals == UNION {Bijection(1 .. Cardinality(D), D) : D \in SUBSET (Docs \ added)}
HeartbeatStatus == {"idle", "processing", ""}   \* "" is the unset proto field

Next ==
  \/ \E ds \in Arrivals : AddDocuments(ds)
  \/ \E w \in Workers :
       \/ Register(w)
       \/ \E max \in Limits : RequestWork(w, max)
       \/ \E b \in BatchIds, st \in HeartbeatStatus : Heartbeat(w, b, st)
       \/ \E b \in BatchIds : Complete(w, b)
       \/ FallSilent(w)
  \/ ReapDead

Spec == Init /\ [][Next]_registryVars

-----------------------------------------------------------------------------
Held(b) == batchState[b] \in {"assigned", "done"}
HandedOut(d) == \E b \in BatchIds : d \in Range(batchDocs[b])

(* Nothing is lost or doubled inside the registry: every document handed to *)
(* add_documents is in exactly one place, once - in the deque, or in one    *)
(* batch that is assigned or done (request_work, reap_dead's requeue).      *)
OnePlaceEach ==
  /\ IsInjective(pending)
  /\ \A b \in BatchIds : Held(b) =>
       /\ IsInjective(batchDocs[b])
       /\ Range(batchDocs[b]) \cap Range(pending) = {}
       /\ \A c \in BatchIds \ {b} :
            Held(c) => Range(batchDocs[b]) \cap Range(batchDocs[c]) = {}
  /\ added = Range(pending) \cup UNION {Range(batchDocs[b]) : b \in {c \in BatchIds : Held(c)}}

(* A worker record only ever points at an open batch of its own, and a dead *)
(* worker's record at none: so the reaper never takes back a finished batch *)
(* or another worker's, and a report by a dead worker cannot free a live    *)
(* one (register, request_work, complete and reap_dead each write batch_id).*)
RecordPointsAtOwnOpenBatch ==
  \A w \in Workers : workerBatch[w] # NoBatch =>
    /\ batchState[workerBatch[w]] = "assigned"
    /\ batchOwner[workerBatch[w]] = w
    /\ workerState[w] \notin {"absent", "dead"}

(* Documents taken back from a silent worker are handed out again before    *)
(* any document that no worker has had yet (extendleft in reap_dead: one    *)
(* worker's death does not send its documents to the back of the queue).    *)
RetriesComeFirst ==
  \A i, j \in DOMAIN pending :
    i < j /\ HandedOut(pending[j]) => HandedOut(pending[i])

(* A batch that is done or was taken away stays so, whoever reports or      *)
(* heartbeats late: neither a reaped worker's completion nor a second reap  *)
(* reopens it (complete's and reap_dead's state checks).                    *)
ClosedBatchStaysClosed ==
  [][\A b \in BatchIds : batchState[b] \in {"done", "reassigned"}
                           => batchState'[b] = batchState[b]]_registryVars

-----------------------------------------------------------------------------
(* The registry implements DocumentPool: where each document is, and who    *)
(* holds it, follows from the one batch that holds it.                      *)
HoldingBatch(d) == CHOOSE b \in BatchIds : Held(b) /\ d \in Range(batchDocs[b])
IsHeld(d) == \E b \in BatchIds : Held(b) /\ d \in Range(batchDocs[b])

PlaceOf(d) ==
  IF d \notin added THEN "outside"
  ELSE IF ~IsHeld(d) THEN "waiting"
  ELSE IF batchState[HoldingBatch(d)] = "assigned" THEN "leased" ELSE "settled"

HolderOf(d) == IF IsHeld(d) THEN batchOwner[HoldingBatch(d)] ELSE Nobody

PoolPlace == [d \in Docs |-> PlaceOf(d)]
PoolHolder == [d \in Docs |-> HolderOf(d)]

Pool == INSTANCE DocumentPool WITH place <- PoolPlace, holder <- PoolHolder

(* Every behaviour of the registry is one of the document pool: leased      *)
(* documents come back or are settled for good, never settled twice, never  *)
(* leased to two workers at once.                                           *)
ImplementsPool == Pool!Spec
=============================================================================
