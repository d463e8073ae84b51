------------------------ MODULE DistributedIngestProofs -------------------------
(***************************************************************************)
(* The distributed pool, for any number of workers, documents, sources and *)
(* batches, and any faults: whatever the clients, the scheduler and the    *)
(* tracker do between their awaits, rows follow accepted reports.          *)
(***************************************************************************)
EXTENDS DistributedIngest, FiniteSetTheorems, TLAPS

RP == INSTANCE WorkerRegistryProofs

-----------------------------------------------------------------------------
(* The inductive invariant.  The registry keeps its own, since the clients   *)
(* are among the callers it allows.                                          *)

(* A client between the answer it asked for and its next request speaks of a *)
(* batch that is its own, and until it has reported nobody has completed it. *)
ClientsSpeakOfTheirBatch ==
  \A w \in Workers :
    phase[w] \in {"handed", "work", "report"} =>
      /\ batch[w] \in BatchIds
      /\ batchOwner[batch[w]] = w
      /\ batchState[batch[w]] \in {"assigned", "reassigned"}
      /\ phase[w] # "handed" => ok[w] \cup bad[w] \subseteq Range(batchDocs[batch[w]])

(* Only a report that closed a batch decides a document, so that the         *)
(* documents of an open batch are undecided (OnePlaceEach).                  *)
DecidedInDoneBatches ==
  \A d \in Docs : outcome[d] # "none" =>
    \E b \in BatchIds : batchState[b] = "done" /\ d \in Range(batchDocs[b])

(* The report a tracker call carries is the one that decided its documents.  *)
WritesFollowReports ==
  \A x \in writes : x.kind = "complete" =>
    /\ \A d \in x.ok : outcome[d] = "success"
    /\ \A d \in x.bad \ x.ok : outcome[d] = "failed"

(* A source is fetched once: from its scheduling to create_jobs it has no    *)
(* rows, and it does not go back to pending.                                 *)
SourcesAreFetchedOnce ==
  /\ scheduler = "idle" => toFetch = {} /\ fetched = {} /\ unfetched = {}
  /\ scheduler = "fetching" =>
       \A s \in toFetch \cup fetched \cup unfetched : source[s] = "pending"
  /\ scheduler = "creating" =>
       toFetch = {} /\ unfetched = {} /\ \A s \in fetched : source[s] = "running"
  /\ \A s \in Sources : source[s] = "pending" \/ s \in fetched => Tracker!Rows(s) = {}

(* create_jobs makes the rows of a source in one transaction.                *)
RowsAreWhole ==
  \A s \in Sources : Tracker!Rows(s) = {} \/ Tracker!Rows(s) = Tracker!DocsOf(s)

IInv ==
  /\ RP!RegistryInv
  /\ TypeOK
  /\ ClientsSpeakOfTheirBatch
  /\ DecidedInDoneBatches
  /\ WritesFollowReports
  /\ SourcesAreFetchedOnce
  /\ RowsAreWhole
  /\ RowsFollowAcceptedReports
  /\ VerdictsAreEarned

(* No batch is stranded while its worker goes on: the worker of an open      *)
(* batch is on it, has left for good, or is about to.                        *)
OwnersAreOnTheirBatch ==
  \A b \in BatchIds : batchState[b] = "assigned" =>
    LET w == batchOwner[b]
    IN /\ w \in Workers /\ workerBatch[w] = b
       /\ \/ phase[w] \in {"handed", "work", "report"} /\ batch[w] = b
          \/ phase[w] = "off"
          \/ phase[w] = "ask" /\ w \in stopping

(* A client told to stop its batch has lost it.                              *)
RevokedAreReassigned ==
  \A w \in revoked : phase[w] = "work" => batchState[batch[w]] = "reassigned"

OpenBatchesHaveDocuments ==
  \A b \in BatchIds : batchState[b] = "assigned" => batchDocs[b] # <<>>

LeaseInv ==
  /\ OwnersAreOnTheirBatch
  /\ RevokedAreReassigned
  /\ OpenBatchesHaveDocuments

-----------------------------------------------------------------------------
(* The registry of the composition is the one its proofs speak of.           *)

(* The proofs' assumption about the registry is part of the composition's.   *)
LEMMA RegistryFits == RP!RegistryAssumption
BY IngestAssumption DEF RP!RegistryAssumption, RP!IsFiniteSet, IsFiniteSet

(* ... and so is the number of documents in a set.                           *)
LEMMA SameCardinality ==
  ASSUME NEW D
  PROVE  RP!Cardinality(D) = Cardinality(D) /\ Registry!Cardinality(D) = Cardinality(D)
BY DEF RP!Cardinality, Registry!Cardinality, Cardinality

(* The same state under both names.                                          *)
LEMMA SameRegistry ==
  /\ Registry!Init => RP!Init
  /\ UNCHANGED registryVars => UNCHANGED RP!registryVars
  /\ RP!TypeOK <=> Registry!TypeOK
  /\ RP!NextId = Registry!NextId
  /\ \A w \in Workers, b \in BatchIds : RP!Accepts(w, b) <=> Registry!Accepts(w, b)
<1>1. Registry!Init => RP!Init
  BY DEF Registry!Init, RP!Init
<1>2. UNCHANGED registryVars => UNCHANGED RP!registryVars
  BY DEF RP!registryVars, RP!workerVars, RP!batchVars, registryVars
<1>3. RP!TypeOK <=> Registry!TypeOK
  BY DEF RP!TypeOK, Registry!TypeOK, RP!WorkerStates, Registry!WorkerStates,
     RP!BatchStates, Registry!BatchStates
<1>4. RP!NextId = Registry!NextId
  BY DEF RP!NextId, Registry!NextId, RP!FreshIds, Registry!FreshIds
<1>5. \A w \in Workers, b \in BatchIds : RP!Accepts(w, b) <=> Registry!Accepts(w, b)
  BY DEF RP!Accepts, Registry!Accepts
<1> QED BY <1>1, <1>2, <1>3, <1>4, <1>5

(* The same steps under both names.                                          *)
LEMMA SameSteps ==
  /\ \A ds : Registry!AddDocuments(ds) => RP!AddDocuments(ds)
  /\ \A w \in Workers :
       /\ Registry!Register(w) => RP!Register(w)
       /\ Registry!RequestNothing(w) => RP!RequestNothing(w)
       /\ \A max \in Limits : Registry!TakeBatch(w, max) => RP!TakeBatch(w, max)
       /\ \A b \in BatchIds : \A st : Registry!Heartbeat(w, b, st) => RP!Heartbeat(w, b, st)
       /\ \A b \in BatchIds : Registry!Complete(w, b) => RP!Complete(w, b)
       /\ Registry!FallSilent(w) => RP!FallSilent(w)
  /\ Registry!ReapDead => RP!ReapDead
<1> USE DEF Registry!batchVars, RP!batchVars, Registry!workerVars, RP!workerVars
<1>1. \A ds : Registry!AddDocuments(ds) => RP!AddDocuments(ds)
  BY DEF Registry!AddDocuments, RP!AddDocuments, Registry!Range, RP!Range
<1>2. ASSUME NEW w \in Workers
      PROVE  /\ Registry!Register(w) => RP!Register(w)
             /\ Registry!RequestNothing(w) => RP!RequestNothing(w)
             /\ Registry!FallSilent(w) => RP!FallSilent(w)
  BY DEF Registry!Register, RP!Register, Registry!RequestNothing, RP!RequestNothing,
     Registry!FallSilent, RP!FallSilent
<1>3. ASSUME NEW w \in Workers, NEW max \in Limits, Registry!TakeBatch(w, max)
      PROVE  RP!TakeBatch(w, max)
  <2>1. RP!NextId = Registry!NextId /\ RP!FreshIds = Registry!FreshIds
    BY DEF RP!NextId, Registry!NextId, RP!FreshIds, Registry!FreshIds
  <2> QED BY <1>3, <2>1 DEF Registry!TakeBatch, RP!TakeBatch
<1>4. ASSUME NEW w \in Workers, NEW b \in BatchIds
      PROVE  /\ \A st : Registry!Heartbeat(w, b, st) => RP!Heartbeat(w, b, st)
             /\ Registry!Complete(w, b) => RP!Complete(w, b)
  BY DEF Registry!Heartbeat, RP!Heartbeat, Registry!Complete, RP!Complete,
     Registry!Accepts, RP!Accepts
<1>5. Registry!ReapDead => RP!ReapDead
  <2>1. RP!Expired = Registry!Expired
    BY DEF RP!Expired, Registry!Expired
  <2>2. RP!Reclaimed = Registry!Reclaimed
    BY <2>1 DEF RP!Reclaimed, Registry!Reclaimed
  <2>3. RP!ReclaimedDocs = Registry!ReclaimedDocs
    BY <2>2 DEF RP!ReclaimedDocs, Registry!ReclaimedDocs, RP!Range, Registry!Range
  <2>4. RP!Requeues = Registry!Requeues
    <3> DEFINE R == Registry!ReclaimedDocs
    <3>1. RP!Bijection(1 .. RP!Cardinality(R), R)
            = Registry!Bijection(1 .. Registry!Cardinality(R), R)
      <4>1. \A S, T : RP!Bijection(S, T) = Registry!Bijection(S, T)
        BY DEF RP!Bijection, Registry!Bijection, RP!Injection, Registry!Injection,
           RP!Surjection, Registry!Surjection, RP!IsInjective, Registry!IsInjective
      <4> QED BY <4>1, SameCardinality
    <3>2. \A s, b : RP!KeepsBlock(s, b) <=> Registry!KeepsBlock(s, b)
      BY DEF RP!KeepsBlock, Registry!KeepsBlock
    <3> QED BY <2>2, <2>3, <3>1, <3>2 DEF RP!Requeues, Registry!Requeues
  <2> QED
    BY <2>1, <2>2, <2>4 DEF Registry!ReapDead, RP!ReapDead, Registry!RetireExpired,
       RP!RetireExpired, Registry!CloseReclaimed, RP!CloseReclaimed
<1> QED BY <1>1, <1>2, <1>3, <1>4, <1>5

(* A source's listing is one of the arrivals the registry allows.            *)
LEMMA ListingArrives ==
  ASSUME NEW s \in Sources, Range(Listing(s)) \cap added = {}
  PROVE  Listing(s) \in RP!Arrivals
<1> DEFINE D == Tracker!DocsOf(s)
<1>1. D \subseteq Docs
  BY DEF Tracker!DocsOf
<1>2. \E f : f \in Bijection(1 .. Cardinality(D), D)
  <2>1. IsFiniteSet(D)
    BY <1>1, IngestAssumption, FS_Subset
  <2>2. ExistsBijection(1 .. Cardinality(D), D)
    BY <2>1, FS_CardinalityType
  <2> QED BY <2>2 DEF ExistsBijection
<1>3. Listing(s) \in Bijection(1 .. Cardinality(D), D)
  BY <1>2 DEF Listing
<1>4. Range(Listing(s)) = D
  BY <1>3 DEF Range, Bijection, Surjection
<1>5. D \in SUBSET (Docs \ added)
  BY <1>1, <1>4
<1>6. Listing(s) \in RP!Bijection(1 .. RP!Cardinality(D), D)
  BY <1>3, SameCardinality DEF Bijection, Injection, Surjection, IsInjective, RP!Bijection,
     RP!Injection, RP!Surjection, RP!IsInjective
<1> QED BY <1>5, <1>6 DEF RP!Arrivals

(* Every step of the composition is a step of the registry or leaves it.     *)
LEMMA StepsOfTheRegistry ==
  ASSUME TypeOK, ClientsSpeakOfTheirBatch, [Next]_vars
  PROVE  [RP!Next]_(RP!registryVars)
<1>1. ASSUME NEW s \in Sources, FetchSource(s) PROVE RP!Next
  <2>1. Range(Listing(s)) \cap added = {} /\ RP!AddDocuments(Listing(s))
    BY <1>1, SameSteps DEF FetchSource, Registry!AddDocuments, Registry!Range, Range
  <2> QED BY <2>1, ListingArrives DEF RP!Next
<1>2. ASSUME NEW w \in Workers, Connect(w) PROVE RP!Next \/ UNCHANGED registryVars
  BY <1>2, SameSteps DEF Connect, RP!Next
<1>3. ASSUME NEW w \in Workers, AskInVain(w) PROVE RP!Next
  <2>1. PICK max \in Limits : TRUE
    BY IngestAssumption
  <2> QED BY <1>3, <2>1, SameSteps DEF AskInVain, RP!Next, RP!RequestWork
<1>4. ASSUME NEW w \in Workers, NEW max \in Limits, AskForBatch(w, max) PROVE RP!Next
  BY <1>4, SameSteps DEF AskForBatch, RP!Next, RP!RequestWork
<1>5. ASSUME NEW w \in Workers, Beat(w) PROVE RP!Next
  <2>1. batch[w] \in BatchIds /\ "processing" \in RP!HeartbeatStatus
    BY <1>5 DEF Beat, ClientsSpeakOfTheirBatch, RP!HeartbeatStatus
  <2> QED BY <1>5, <2>1, SameSteps DEF Beat, RP!Next
<1>6. ASSUME NEW w \in Workers, Report(w) PROVE RP!Next
  <2>1. batch[w] \in BatchIds
    BY <1>6 DEF Report, ClientsSpeakOfTheirBatch
  <2> QED BY <1>6, <2>1, SameSteps DEF Report, RP!Next
<1>7. ASSUME NEW w \in Workers, FallSilent(w) PROVE RP!Next
  BY <1>7, SameSteps DEF FallSilent, RP!Next
<1>8. CASE Reap
  BY <1>8, SameSteps DEF Reap, RP!Next
<1>9. CASE UNCHANGED registryVars
  BY <1>9, SameRegistry
<1>10. CASE Schedule
  BY <1>1, <1>9, <1>10 DEF Schedule, Poll, FetchFails, CommitPoll, CreateRows
<1>11. ASSUME NEW w \in Workers, Client(w)
       PROVE  RP!Next \/ UNCHANGED registryVars
  BY <1>2, <1>4, <1>6, <1>11 DEF Client, ReceiveBatch, Process, LeaveBatch,
     ReportAnswered, Leave
<1>12. CASE Track
  BY <1>9, <1>12 DEF Track, TrackAssigned, TrackCompleted, TrackRollup
<1>13. CASE Mishap
  BY <1>9, <1>13 DEF Mishap, CreateRowsFails, TrackFails, LoseAnswer, LoseHeartbeat,
     LoseReport, Crash, Restart, Stop
<1>14. CASE UNCHANGED vars
  BY <1>9, <1>14 DEF vars
<1> QED
  BY <1>3, <1>5, <1>7, <1>8, <1>9, <1>10, <1>11, <1>12, <1>13, <1>14 DEF Next

-----------------------------------------------------------------------------
(* What the calls of the registry do to batches.                             *)

(* A batch handed out is a new one, of the worker that asked, and not empty. *)
LEMMA AskingEffect ==
  ASSUME RP!RegistryInv, NEW w \in Workers, NEW max \in Limits,
         Registry!TakeBatch(w, max)
  PROVE  /\ Registry!NextId \in BatchIds
         /\ batchState[Registry!NextId] = "unknown"
         /\ batchState' = [batchState EXCEPT ![Registry!NextId] = "assigned"]
         /\ batchOwner' = [batchOwner EXCEPT ![Registry!NextId] = w]
         /\ workerBatch' = [workerBatch EXCEPT ![w] = Registry!NextId]
         /\ \A b \in BatchIds \ {Registry!NextId} : batchDocs'[b] = batchDocs[b]
         /\ batchDocs'[Registry!NextId] # <<>>
<1>1. Registry!NextId \in BatchIds /\ batchState[Registry!NextId] = "unknown"
  BY DEF Registry!TakeBatch, Registry!NextId, Registry!FreshIds
<1>2. PICK id \in BatchIds : id = Registry!NextId
  BY <1>1
<1>3. /\ batchState' = [batchState EXCEPT ![id] = "assigned"]
      /\ batchOwner' = [batchOwner EXCEPT ![id] = w]
      /\ workerBatch' = [workerBatch EXCEPT ![w] = id]
  BY <1>2 DEF Registry!TakeBatch
<1> DEFINE n == IF max < Len(pending) THEN max ELSE Len(pending)
           head == SubSeq(pending, 1, n)
<1>4. batchDocs' = [batchDocs EXCEPT ![id] = head] /\ pending # <<>>
  BY <1>2 DEF Registry!TakeBatch
<1>5. pending \in Seq(Docs) /\ batchDocs \in [BatchIds -> Seq(Docs)]
  BY DEF RP!RegistryInv, RP!TypeOK
<1>6. n \in 1 .. Len(pending)
  BY <1>4, <1>5, IngestAssumption
<1>7. Len(head) = n
  <2> HIDE DEF n
  <2> QED BY <1>5, <1>6
<1>8. head # <<>>
  <2> HIDE DEF n, head
  <2> QED BY <1>6, <1>7
<1> HIDE DEF head
<1>9. batchDocs'[id] # <<>> /\ \A b \in BatchIds \ {id} : batchDocs'[b] = batchDocs[b]
  BY <1>4, <1>5, <1>8
<1> QED BY <1>1, <1>2, <1>3, <1>9

(* What a client's next report may change: the state of its batch.           *)
LEMMA ReportEffect ==
  ASSUME ClientsSpeakOfTheirBatch, NEW w \in Workers, Report(w)
  PROVE  /\ batch[w] \in BatchIds /\ batchOwner[batch[w]] = w
         /\ UNCHANGED <<batchOwner, batchDocs>>
         /\ Registry!Accepts(w, batch[w]) =>
              /\ batchState[batch[w]] = "assigned"
              /\ batchState' = [batchState EXCEPT ![batch[w]] = "done"]
         /\ ~Registry!Accepts(w, batch[w]) => batchState' = batchState
<1>1. batch[w] \in BatchIds /\ batchOwner[batch[w]] = w
      /\ batchState[batch[w]] \in {"assigned", "reassigned"}
  BY DEF Report, ClientsSpeakOfTheirBatch
<1>2. Registry!Complete(w, batch[w])
  BY DEF Report
<1>3. UNCHANGED <<batchOwner, batchDocs>>
  BY <1>2 DEF Registry!Complete
<1>4. ASSUME Registry!Accepts(w, batch[w])
      PROVE  /\ batchState[batch[w]] = "assigned"
             /\ batchState' = [batchState EXCEPT ![batch[w]] = "done"]
  BY <1>1, <1>2, <1>4 DEF Registry!Complete, Registry!Accepts
<1>5. ASSUME ~Registry!Accepts(w, batch[w]) PROVE batchState' = batchState
  BY <1>2, <1>5 DEF Registry!Complete
<1> QED BY <1>1, <1>3, <1>4, <1>5

(* A batch that is known keeps its owner and its documents; it changes state *)
(* when its worker reports it or when the reaper takes it back.              *)
LEMMA BatchesGoOn ==
  ASSUME IInv, [Next]_vars, NEW b \in BatchIds, batchState[b] # "unknown"
  PROVE  /\ batchOwner'[b] = batchOwner[b] /\ batchDocs'[b] = batchDocs[b]
         /\ batchState[b] \in {"done", "reassigned"} => batchState'[b] = batchState[b]
         /\ \/ batchState'[b] = batchState[b]
            \/ batchState'[b] = "reassigned"
            \/ /\ batchState'[b] = "done"
               /\ \E w \in Workers : Report(w) /\ batch[w] = b /\ batchOwner[b] = w
<1> DEFINE Goal ==
      /\ batchOwner'[b] = batchOwner[b] /\ batchDocs'[b] = batchDocs[b]
      /\ batchState[b] \in {"done", "reassigned"} => batchState'[b] = batchState[b]
      /\ \/ batchState'[b] = batchState[b]
         \/ batchState'[b] = "reassigned"
         \/ /\ batchState'[b] = "done"
            /\ \E w \in Workers : Report(w) /\ batch[w] = b /\ batchOwner[b] = w
<1> USE DEF IInv
<1>1. batchState \in [BatchIds -> Registry!BatchStates]
      /\ batchOwner \in [BatchIds -> Workers \cup {Nobody}]
  BY DEF TypeOK, Registry!TypeOK
<1>2. ASSUME NEW w \in Workers, NEW max \in Limits, AskForBatch(w, max) PROVE Goal
  <2> HIDE DEF IInv
  <2>1. Registry!TakeBatch(w, max) /\ RP!RegistryInv
    BY <1>2 DEF AskForBatch, IInv
  <2>2. b # Registry!NextId
    BY <2>1, AskingEffect
  <2> QED BY <1>1, <2>1, <2>2, AskingEffect
<1>3. ASSUME NEW w \in Workers, Report(w) PROVE Goal
  BY <1>1, <1>3, ReportEffect
<1>4. ASSUME Reap PROVE Goal
  BY <1>1, <1>4 DEF Reap, Registry!ReapDead, Registry!CloseReclaimed, Registry!Reclaimed
<1>5. ASSUME UNCHANGED <<batchState, batchOwner, batchDocs>> PROVE Goal
  BY <1>5
<1> HIDE DEF Goal, IInv
<1>6. ASSUME Schedule PROVE Goal
  BY <1>5, <1>6 DEF Schedule, Poll, FetchSource, FetchFails, CommitPoll, CreateRows,
     registryVars, Registry!AddDocuments, Registry!batchVars
<1>7. ASSUME NEW w \in Workers, Client(w) PROVE Goal
  BY <1>2, <1>3, <1>5, <1>7 DEF Client, Connect, ReceiveBatch, Process, LeaveBatch,
     ReportAnswered, Leave, registryVars, Registry!Register, Registry!batchVars
<1>8. ASSUME NEW w \in Workers, AskInVain(w) \/ Beat(w) \/ FallSilent(w) PROVE Goal
  BY <1>5, <1>8 DEF AskInVain, Beat, FallSilent, Registry!RequestNothing,
     Registry!Heartbeat, Registry!FallSilent, Registry!batchVars
<1>9. ASSUME Track PROVE Goal
  BY <1>5, <1>9 DEF Track, TrackAssigned, TrackCompleted, TrackRollup, registryVars
<1>10. ASSUME Mishap PROVE Goal
  BY <1>5, <1>10 DEF Mishap, CreateRowsFails, TrackFails, LoseAnswer, LoseHeartbeat,
     LoseReport, Crash, Restart, Stop, registryVars
<1>11. ASSUME UNCHANGED vars PROVE Goal
  BY <1>5, <1>11 DEF vars, registryVars
<1>12. Goal
  BY <1>4, <1>6, <1>7, <1>8, <1>9, <1>10, <1>11 DEF Next
<1> QED BY <1>12 DEF Goal

-----------------------------------------------------------------------------
(* The clients.                                                              *)

(* A worker that the step is not about still speaks of its batch: only its   *)
(* own report would have closed it.                                          *)
LEMMA OthersSpeakOfTheirBatch ==
  ASSUME IInv, [Next]_vars, NEW w \in Workers,
         phase[w] \in {"handed", "work", "report"}, batch'[w] = batch[w], ~Report(w)
  PROVE  /\ batch'[w] \in BatchIds
         /\ batchOwner'[batch'[w]] = w
         /\ batchState'[batch'[w]] \in {"assigned", "reassigned"}
         /\ batchDocs'[batch'[w]] = batchDocs[batch[w]]
<1>1. /\ batch[w] \in BatchIds /\ batchOwner[batch[w]] = w
      /\ batchState[batch[w]] \in {"assigned", "reassigned"}
  BY DEF IInv, ClientsSpeakOfTheirBatch
<1> QED BY <1>1, BatchesGoOn

(* Every step keeps a client's batch its own.                                *)
LEMMA ClientsInv ==
  ASSUME IInv, [Next]_vars
  PROVE  ClientsSpeakOfTheirBatch'
<1> SUFFICES ASSUME NEW w \in Workers, phase'[w] \in {"handed", "work", "report"}
             PROVE  /\ batch'[w] \in BatchIds
                    /\ batchOwner'[batch'[w]] = w
                    /\ batchState'[batch'[w]] \in {"assigned", "reassigned"}
                    /\ phase'[w] # "handed" =>
                         ok'[w] \cup bad'[w] \subseteq Range(batchDocs'[batch'[w]])
  BY DEF ClientsSpeakOfTheirBatch
<1> DEFINE Goal == /\ batch'[w] \in BatchIds
                   /\ batchOwner'[batch'[w]] = w
                   /\ batchState'[batch'[w]] \in {"assigned", "reassigned"}
                   /\ phase'[w] # "handed" =>
                        ok'[w] \cup bad'[w] \subseteq Range(batchDocs'[batch'[w]])
<1>1. /\ phase \in [Workers -> Phases] /\ batch \in [Workers -> BatchIds \cup {NoBatch}]
      /\ ok \in [Workers -> SUBSET Docs] /\ bad \in [Workers -> SUBSET Docs]
  BY DEF IInv, TypeOK
<1>2. ASSUME /\ phase[w] \in {"handed", "work", "report"} /\ batch'[w] = batch[w] /\ ~Report(w)
             /\ ok'[w] = ok[w] /\ bad'[w] = bad[w]
             /\ phase[w] = "handed" => phase'[w] = "handed"
      PROVE Goal
  <2>1. phase[w] # "handed" => ok[w] \cup bad[w] \subseteq Range(batchDocs[batch[w]])
    BY <1>2 DEF IInv, ClientsSpeakOfTheirBatch
  <2> QED BY <1>2, <2>1, OthersSpeakOfTheirBatch
<1>3. ASSUME NEW v \in Workers, NEW max \in Limits, AskForBatch(v, max) PROVE Goal
  <2>1. CASE v = w
    <3>1. Registry!TakeBatch(w, max) /\ RP!RegistryInv /\ batch'[w] = Registry!NextId
          /\ phase'[w] = "handed"
      BY <1>1, <1>3, <2>1 DEF AskForBatch, IInv, Goto
    <3>2. batchState \in [BatchIds -> Registry!BatchStates]
          /\ batchOwner \in [BatchIds -> Workers \cup {Nobody}]
      BY DEF IInv, TypeOK, Registry!TypeOK
    <3> QED BY <3>1, <3>2, AskingEffect
  <2>2. CASE v # w
    <3>1. phase'[w] = phase[w] /\ batch'[w] = batch[w] /\ ok' = ok /\ bad' = bad
      BY <1>1, <1>3, <2>2 DEF AskForBatch, Goto
    <3>2. ~Report(w)
      BY <1>3, <2>2, <3>1, <1>1 DEF Report, Goto
    <3> QED BY <1>2, <3>1, <3>2
  <2> QED BY <2>1, <2>2
<1>4. ASSUME NEW v \in Workers, ReceiveBatch(v) PROVE Goal
  <2>1. phase'[w] # "report" \/ phase[w] = "report"
    BY <1>1, <1>4 DEF ReceiveBatch, Goto
  <2>2. /\ batch' = batch /\ ~Report(w)
        /\ w # v => phase'[w] = phase[w] /\ ok'[w] = ok[w] /\ bad'[w] = bad[w]
        /\ w = v => phase[w] = "handed" /\ ok'[w] = {} /\ bad'[w] = {}
    BY <1>1, <1>4 DEF ReceiveBatch, Goto, Report
  <2> QED BY <1>2, <2>2, OthersSpeakOfTheirBatch
<1>5. ASSUME NEW v \in Workers, NEW succeeds \in BOOLEAN, Process(v, succeeds) PROVE Goal
  <2>1. /\ phase' = phase /\ batch' = batch /\ batchDocs' = batchDocs /\ phase[v] = "work"
        /\ ~Report(w)
        /\ w # v => ok'[w] = ok[w] /\ bad'[w] = bad[w]
        /\ w = v => ok'[w] \cup bad'[w] = ok[w] \cup bad[w] \cup {Current(w)}
    BY <1>1, <1>5 DEF Process, registryVars, Report, Goto
  <2>2. CASE v = w
    <3>1. batch[w] \in BatchIds /\ ok[w] \cup bad[w] \subseteq Range(batchDocs[batch[w]])
      BY <2>1, <2>2 DEF IInv, ClientsSpeakOfTheirBatch
    <3>2. Current(w) \in Range(batchDocs[batch[w]])
      <4>1. batchDocs[batch[w]] \in Seq(Docs)
        BY <3>1 DEF IInv, TypeOK, Registry!TypeOK
      <4>2. Seen(w) \in Nat
        <5>1. IsFiniteSet(ok[w] \cup bad[w])
          BY <1>1, IngestAssumption, FS_Subset
        <5> QED BY <5>1, FS_CardinalityType DEF Seen
      <4>3. Seen(w) + 1 \in DOMAIN batchDocs[batch[w]]
        BY <1>5, <2>2, <4>1, <4>2 DEF Process, Left
      <4> QED BY <4>3 DEF Current, Range
    <3>3. batchDocs'[batch'[w]] = batchDocs[batch[w]]
      BY <2>1
    <3> QED BY <2>1, <2>2, <3>1, <3>2, <3>3, OthersSpeakOfTheirBatch
  <2> QED BY <1>2, <2>1, <2>2
<1>6. ASSUME NEW v \in Workers, LeaveBatch(v) PROVE Goal
  <2>1. /\ batch' = batch /\ ok' = ok /\ bad' = bad /\ ~Report(w)
        /\ w # v => phase'[w] = phase[w]
        /\ w = v => phase[w] = "work"
    BY <1>1, <1>6 DEF LeaveBatch, Goto, Report
  <2> QED BY <1>2, <2>1
<1>7. ASSUME NEW v \in Workers, Report(v) PROVE Goal
  <2>1. v # w
    BY <1>1, <1>7 DEF Report, Goto
  <2>2. phase'[w] = phase[w] /\ batch' = batch /\ ok' = ok /\ bad' = bad
    BY <1>1, <1>7, <2>1 DEF Report, Goto
  <2>3. ~Report(w)
    BY <1>1, <2>2 DEF Report, Goto
  <2> QED BY <1>2, <2>2, <2>3
<1>8. ASSUME /\ UNCHANGED <<batch, ok, bad>> /\ phase'[w] = phase[w] PROVE Goal
  <2>1. ~Report(w)
    BY <1>1, <1>8 DEF Report, Goto
  <2> QED BY <1>2, <1>8, <2>1
<1>9. ASSUME NEW v \in Workers, Connect(v) \/ ReportAnswered(v) \/ Leave(v)
      PROVE  Goal
  <2>1. UNCHANGED <<batch, ok, bad>> /\ phase'[w] = phase[w]
    BY <1>1, <1>9 DEF Connect, ReportAnswered, Leave, Goto
  <2> QED BY <1>8, <2>1
<1>10. ASSUME NEW v \in Workers, LoseAnswer(v) \/ LoseReport(v) \/ Crash(v) \/ Restart(v)
       PROVE  Goal
  <2>1. UNCHANGED <<ok, bad>> /\ phase'[w] = phase[w] /\ batch'[w] = batch[w]
    BY <1>1, <1>10 DEF LoseAnswer, LoseReport, Crash, Restart, Goto
  <2>2. ~Report(w)
    BY <1>1, <2>1 DEF Report, Goto
  <2> QED BY <1>2, <2>1, <2>2
<1> HIDE DEF Goal
<1>11. ASSUME Schedule PROVE Goal
  BY <1>8, <1>11 DEF Schedule, Poll, FetchSource, FetchFails, CommitPoll, CreateRows,
     clientVars
<1>12. ASSUME NEW v \in Workers, Client(v) PROVE Goal
  BY <1>3, <1>4, <1>5, <1>6, <1>7, <1>9, <1>12 DEF Client
<1>13. ASSUME NEW v \in Workers, AskInVain(v) \/ Beat(v) \/ FallSilent(v) PROVE Goal
  BY <1>8, <1>13 DEF AskInVain, Beat, FallSilent, clientVars
<1>14. ASSUME Track \/ Reap \/ UNCHANGED vars PROVE Goal
  BY <1>8, <1>14 DEF Track, TrackAssigned, TrackCompleted, TrackRollup, Reap, vars, clientVars
<1>15. ASSUME Mishap PROVE Goal
  BY <1>8, <1>10, <1>15 DEF Mishap, CreateRowsFails, TrackFails, LoseHeartbeat, Stop,
     clientVars
<1>16. Goal
  BY <1>11, <1>12, <1>13, <1>14, <1>15 DEF Next
<1> QED BY <1>16 DEF Goal

-----------------------------------------------------------------------------
(* Decisions: what reports say of documents.                                 *)

(* Nothing but a report the registry accepts decides a document, and it      *)
(* decides documents of its own batch.                                       *)
LEMMA ReportsDecide ==
  ASSUME IInv, [Next]_vars, outcome' # outcome
  PROVE  \E w \in Workers :
           /\ Report(w) /\ Registry!Accepts(w, batch[w])
           /\ ok[w] \cup bad[w] \subseteq Range(batchDocs[batch[w]])
           /\ outcome' = [d \in Docs |-> IF d \in ok[w] THEN "success"
                                         ELSE IF d \in bad[w] THEN "failed"
                                         ELSE outcome[d]]
<1>1. PICK w \in Workers : Report(w)
  <2>1. ~Schedule
    BY DEF Schedule, Poll, FetchSource, FetchFails, CommitPoll, CreateRows, ghostVars
  <2>2. ASSUME NEW w \in Workers, Client(w) PROVE Report(w)
    BY <2>2 DEF Client, Connect, AskForBatch, ReceiveBatch, Process, LeaveBatch,
       ReportAnswered, Leave, ghostVars
  <2>3. ASSUME NEW w \in Workers PROVE ~AskInVain(w) /\ ~Beat(w) /\ ~FallSilent(w)
    BY DEF AskInVain, Beat, FallSilent, Fault, ghostVars
  <2>4. ~Track /\ ~Reap
    BY DEF Track, TrackAssigned, TrackCompleted, TrackRollup, Reap, ghostVars
  <2>5. ~Mishap
    BY DEF Mishap, CreateRowsFails, TrackFails, LoseAnswer, LoseHeartbeat, LoseReport,
       Crash, Restart, Stop, Fault
  <2>6. ~UNCHANGED vars
    BY DEF vars, ghostVars
  <2> QED BY <2>1, <2>2, <2>3, <2>4, <2>5, <2>6 DEF Next
<1>2. phase[w] = "report"
  BY <1>1 DEF Report
<1>3. ok[w] \cup bad[w] \subseteq Range(batchDocs[batch[w]])
  BY <1>2 DEF IInv, ClientsSpeakOfTheirBatch
<1>4. /\ Registry!Accepts(w, batch[w])
      /\ outcome' = [d \in Docs |-> IF d \in ok[w] THEN "success"
                                    ELSE IF d \in bad[w] THEN "failed"
                                    ELSE outcome[d]]
  BY <1>1 DEF Report
<1> QED BY <1>1, <1>3, <1>4

(* A document of an open batch is undecided: the batch that decided it would *)
(* hold it as well.                                                          *)
LEMMA OpenIsUndecided ==
  ASSUME IInv, NEW b \in BatchIds, batchState[b] = "assigned",
         NEW d \in Docs, d \in Range(batchDocs[b])
  PROVE  outcome[d] = "none"
<1> SUFFICES ASSUME outcome[d] # "none" PROVE FALSE
  OBVIOUS
<1>1. PICK c \in BatchIds : batchState[c] = "done" /\ d \in Range(batchDocs[c])
  BY DEF IInv, DecidedInDoneBatches
<1>2. c # b /\ RP!Held(b) /\ RP!Held(c)
  BY <1>1 DEF RP!Held
<1>3. RP!Range(batchDocs[b]) \cap RP!Range(batchDocs[c]) = {}
  BY <1>2 DEF IInv, RP!RegistryInv, RP!OnePlaceEach
<1> QED BY <1>1, <1>3 DEF Range, RP!Range

(* A document is decided once.                                               *)
LEMMA DecisionsAreFinal ==
  ASSUME IInv, [Next]_vars, NEW d \in Docs, outcome[d] # "none"
  PROVE  outcome'[d] = outcome[d]
<1> SUFFICES ASSUME outcome' # outcome PROVE outcome'[d] = outcome[d]
  OBVIOUS
<1>1. PICK w \in Workers :
        /\ Report(w) /\ Registry!Accepts(w, batch[w])
        /\ ok[w] \cup bad[w] \subseteq Range(batchDocs[batch[w]])
        /\ outcome' = [e \in Docs |-> IF e \in ok[w] THEN "success"
                                      ELSE IF e \in bad[w] THEN "failed"
                                      ELSE outcome[e]]
  BY ReportsDecide
<1>2. batch[w] \in BatchIds /\ batchState[batch[w]] = "assigned"
  BY <1>1, ReportEffect DEF IInv
<1>3. d \notin ok[w] \cup bad[w]
  BY <1>1, <1>2, OpenIsUndecided
<1> QED BY <1>1, <1>3

(* A decided document is in a batch its report closed.                       *)
LEMMA DecidedInv ==
  ASSUME IInv, [Next]_vars
  PROVE  DecidedInDoneBatches'
<1> SUFFICES ASSUME NEW d \in Docs, outcome'[d] # "none"
             PROVE  \E b \in BatchIds : batchState'[b] = "done" /\ d \in Range(batchDocs'[b])
  BY DEF DecidedInDoneBatches
<1>1. CASE outcome[d] # "none"
  <2>1. PICK b \in BatchIds : batchState[b] = "done" /\ d \in Range(batchDocs[b])
    BY <1>1 DEF IInv, DecidedInDoneBatches
  <2>2. batchState'[b] = "done" /\ batchDocs'[b] = batchDocs[b]
    BY <2>1, BatchesGoOn
  <2> QED BY <2>1, <2>2
<1>2. CASE outcome[d] = "none"
  <2>1. PICK w \in Workers :
          /\ Report(w) /\ Registry!Accepts(w, batch[w])
          /\ ok[w] \cup bad[w] \subseteq Range(batchDocs[batch[w]])
          /\ outcome' = [e \in Docs |-> IF e \in ok[w] THEN "success"
                                        ELSE IF e \in bad[w] THEN "failed"
                                        ELSE outcome[e]]
    BY <1>2, ReportsDecide
  <2>2. /\ batch[w] \in BatchIds /\ UNCHANGED batchDocs
        /\ batchState' = [batchState EXCEPT ![batch[w]] = "done"]
    BY <2>1, ReportEffect DEF IInv
  <2>3. batchState'[batch[w]] = "done"
    BY <2>2 DEF IInv, TypeOK, Registry!TypeOK
  <2>4. d \in ok[w] \cup bad[w]
    BY <1>2, <2>1
  <2> QED BY <2>1, <2>2, <2>3, <2>4
<1> QED BY <1>1, <1>2

(* The tracker calls that appear are a report's, with what it decided, or    *)
(* carry no outcome.                                                         *)
LEMMA WritesInv ==
  ASSUME IInv, [Next]_vars
  PROVE  WritesFollowReports'
<1> SUFFICES ASSUME NEW x \in writes', x.kind = "complete"
             PROVE  /\ \A d \in x.ok : outcome'[d] = "success"
                    /\ \A d \in x.bad \ x.ok : outcome'[d] = "failed"
  BY DEF WritesFollowReports
<1> DEFINE Goal == /\ \A d \in x.ok : outcome'[d] = "success"
                   /\ \A d \in x.bad \ x.ok : outcome'[d] = "failed"
<1>1. ASSUME x \in writes PROVE Goal
  <2>1. x.ok \cup x.bad \subseteq Docs
    BY <1>1 DEF IInv, TypeOK
  <2>2. /\ \A d \in x.ok : outcome[d] = "success"
        /\ \A d \in x.bad \ x.ok : outcome[d] = "failed"
    BY <1>1 DEF IInv, WritesFollowReports
  <2> QED BY <2>1, <2>2, DecisionsAreFinal
<1>2. ASSUME NEW w \in Workers, Report(w) PROVE Goal
  <2>1. CASE x = CompleteWrite(batch[w], ok[w], bad[w]) /\ Registry!Accepts(w, batch[w])
    <3>1. ok[w] \subseteq Docs /\ bad[w] \subseteq Docs
      BY DEF IInv, TypeOK
    <3>2. x.ok = ok[w] /\ x.bad = bad[w]
      BY <2>1 DEF CompleteWrite
    <3> QED BY <1>2, <2>1, <3>1, <3>2 DEF Report
  <2> QED BY <1>1, <1>2, <2>1 DEF Report
<1>3. ASSUME NEW w \in Workers, NEW max \in Limits, AskForBatch(w, max) PROVE Goal
  BY <1>1, <1>3 DEF AskForBatch, AssignWrite
<1>4. ASSUME NEW y \in writes, TrackCompleted(y) PROVE Goal
  BY <1>1, <1>4 DEF TrackCompleted, RollupWrite
<1>5. ASSUME NEW y \in writes, TrackAssigned(y) \/ TrackRollup(y) \/ TrackFails(y) PROVE Goal
  BY <1>1, <1>5 DEF TrackAssigned, TrackRollup, TrackFails
<1>6. ASSUME UNCHANGED writes PROVE Goal
  BY <1>1, <1>6
<1> HIDE DEF Goal
<1>7. ASSUME Schedule PROVE Goal
  BY <1>6, <1>7 DEF Schedule, Poll, FetchSource, FetchFails, CommitPoll, CreateRows
<1>8. ASSUME NEW w \in Workers, Client(w) PROVE Goal
  BY <1>2, <1>3, <1>6, <1>8 DEF Client, Connect, ReceiveBatch, Process, LeaveBatch,
     ReportAnswered, Leave
<1>9. ASSUME NEW w \in Workers, AskInVain(w) \/ Beat(w) \/ FallSilent(w) PROVE Goal
  BY <1>6, <1>9 DEF AskInVain, Beat, FallSilent
<1>10. ASSUME Track PROVE Goal
  BY <1>4, <1>5, <1>10 DEF Track
<1>11. ASSUME Reap \/ UNCHANGED vars PROVE Goal
  BY <1>6, <1>11 DEF Reap, vars
<1>12. ASSUME Mishap PROVE Goal
  BY <1>5, <1>6, <1>12 DEF Mishap, CreateRowsFails, LoseAnswer, LoseHeartbeat,
     LoseReport, Crash, Restart, Stop
<1>13. Goal
  BY <1>7, <1>8, <1>9, <1>10, <1>11, <1>12 DEF Next
<1> QED BY <1>13 DEF Goal

-----------------------------------------------------------------------------
(* The scheduler and the tracker.                                            *)

(* The rows and verdicts there are, kept through what reports decide.        *)
TablesInv ==
  /\ SourcesAreFetchedOnce
  /\ RowsAreWhole
  /\ RowsFollowAcceptedReports
  /\ VerdictsAreEarned

(* A final row's document is decided.                                        *)
LEMMA FinalIsDecided ==
  ASSUME IInv, [Next]_vars, NEW d \in Docs, job[d] \in {"success", "failed"}
  PROVE  outcome[d] = job[d] /\ outcome'[d] = job[d]
<1>1. outcome[d] = job[d]
  BY DEF IInv, RowsFollowAcceptedReports
<1> QED BY <1>1, DecisionsAreFinal

(* Verdicts given stay earned while the rows stay.                           *)
LEMMA VerdictsStay ==
  ASSUME IInv, [Next]_vars, NEW s \in Sources
  PROVE  /\ source[s] = "success" =>
              /\ \A d \in Tracker!DocsOf(s) : outcome'[d] # "none"
              /\ \E d \in Tracker!DocsOf(s) : outcome'[d] = "success"
         /\ source[s] = "error" /\ Tracker!Rows(s) # {} =>
              \A d \in Tracker!DocsOf(s) : outcome'[d] = "failed"
<1>1. Tracker!DocsOf(s) \subseteq Docs
  BY DEF Tracker!DocsOf
<1>2. /\ source[s] = "success" =>
           /\ \A d \in Tracker!DocsOf(s) : outcome[d] # "none"
           /\ \E d \in Tracker!DocsOf(s) : outcome[d] = "success"
      /\ source[s] = "error" /\ Tracker!Rows(s) # {} =>
           \A d \in Tracker!DocsOf(s) : outcome[d] = "failed"
  BY DEF IInv, VerdictsAreEarned
<1>3. \A d \in Docs : outcome[d] # "none" => outcome'[d] = outcome[d]
  BY DecisionsAreFinal
<1> QED BY <1>1, <1>2, <1>3

(* Whoever leaves the tables and the scheduler alone keeps what they say.    *)
LEMMA TablesUntouched ==
  ASSUME IInv, [Next]_vars, UNCHANGED <<schedulerVars, trackerVars>>
  PROVE  TablesInv'
<1> USE DEF schedulerVars, trackerVars
<1>1. \A s : Tracker!Rows(s)' = Tracker!Rows(s)
  BY DEF Tracker!Rows, Tracker!DocsOf
<1>2. SourcesAreFetchedOnce'
  BY <1>1 DEF IInv, SourcesAreFetchedOnce
<1>3. RowsAreWhole'
  BY <1>1 DEF IInv, RowsAreWhole
<1>4. RowsFollowAcceptedReports'
  BY FinalIsDecided DEF RowsFollowAcceptedReports
<1>5. VerdictsAreEarned'
  BY <1>1, VerdictsStay DEF VerdictsAreEarned
<1> QED BY <1>2, <1>3, <1>4, <1>5 DEF TablesInv

(* A poll takes pending sources, which have no rows, up to its commit.       *)
LEMMA PollInv ==
  ASSUME IInv, [Next]_vars,
         Poll \/ \E s \in Sources : FetchSource(s) \/ FetchFails(s)
  PROVE  TablesInv'
<1>1. UNCHANGED trackerVars
  BY DEF Poll, FetchSource, FetchFails
<1> USE <1>1 DEF trackerVars
<1>2. \A s : Tracker!Rows(s)' = Tracker!Rows(s)
  BY DEF Tracker!Rows, Tracker!DocsOf
<1>3. SourcesAreFetchedOnce'
  <2>1. CASE Poll
    BY <1>2, <2>1 DEF Poll, IInv, SourcesAreFetchedOnce, Unscheduled
  <2>2. ASSUME NEW s \in Sources, FetchSource(s) PROVE SourcesAreFetchedOnce'
    BY <1>2, <2>2 DEF FetchSource, IInv, SourcesAreFetchedOnce
  <2>3. ASSUME NEW s \in Sources, FetchFails(s) PROVE SourcesAreFetchedOnce'
    BY <1>2, <2>3 DEF FetchFails, IInv, SourcesAreFetchedOnce
  <2> QED BY <2>1, <2>2, <2>3
<1>4. RowsAreWhole'
  BY <1>2 DEF IInv, RowsAreWhole
<1>5. RowsFollowAcceptedReports'
  BY FinalIsDecided DEF RowsFollowAcceptedReports
<1>6. VerdictsAreEarned'
  BY <1>2, VerdictsStay DEF VerdictsAreEarned
<1> QED BY <1>3, <1>4, <1>5, <1>6 DEF TablesInv

(* The commit gives no verdict to a source with rows.                        *)
LEMMA CommitInv ==
  ASSUME IInv, [Next]_vars, CommitPoll
  PROVE  TablesInv'
<1>1. /\ scheduler = "fetching" /\ toFetch = {} /\ toFetch' = {} /\ fetched' = fetched
      /\ unfetched' = {} /\ job' = job
      /\ scheduler' = IF fetched = {} THEN "idle" ELSE "creating"
      /\ source' = [s \in Sources |-> IF s \in fetched THEN "running"
                                      ELSE IF s \in unfetched THEN "error"
                                      ELSE source[s]]
  BY DEF CommitPoll
<1>2. \A s : Tracker!Rows(s)' = Tracker!Rows(s)
  BY <1>1 DEF Tracker!Rows, Tracker!DocsOf
<1>3. /\ fetched \subseteq Sources /\ unfetched \subseteq Sources
      /\ \A s \in fetched \cup unfetched : source[s] = "pending" /\ Tracker!Rows(s) = {}
  BY <1>1 DEF IInv, SourcesAreFetchedOnce, TypeOK
<1>4. SourcesAreFetchedOnce'
  BY <1>1, <1>2, <1>3 DEF IInv, SourcesAreFetchedOnce
<1>5. RowsAreWhole'
  BY <1>2 DEF IInv, RowsAreWhole
<1>6. RowsFollowAcceptedReports'
  BY <1>1, FinalIsDecided DEF RowsFollowAcceptedReports
<1>7. VerdictsAreEarned'
  <2> SUFFICES ASSUME NEW s \in Sources
               PROVE  /\ source'[s] = "success" =>
                           /\ \A d \in Tracker!DocsOf(s) : outcome'[d] # "none"
                           /\ \E d \in Tracker!DocsOf(s) : outcome'[d] = "success"
                      /\ source'[s] = "error" /\ Tracker!Rows(s)' # {} =>
                           \A d \in Tracker!DocsOf(s) : outcome'[d] = "failed"
    BY DEF VerdictsAreEarned, Tracker!DocsOf
  <2>1. source'[s] = "success" => source[s] = "success"
    BY <1>1
  <2>2. source'[s] = "error" /\ Tracker!Rows(s)' # {} => source[s] = "error"
    BY <1>1, <1>2, <1>3
  <2> QED BY <1>2, <2>1, <2>2, VerdictsStay
<1> QED BY <1>4, <1>5, <1>6, <1>7 DEF TablesInv

(* create_jobs makes rows where there were none, for a source that runs.     *)
LEMMA CreateRowsInv ==
  ASSUME IInv, [Next]_vars, NEW s \in Sources, CreateRows(s)
  PROVE  TablesInv'
<1>1. /\ scheduler = "creating" /\ s \in fetched /\ fetched' = fetched \ {s}
      /\ scheduler' = IF fetched' = {} THEN "idle" ELSE "creating"
      /\ toFetch' = toFetch /\ unfetched' = unfetched /\ source' = source
      /\ job' = [d \in Docs |-> IF d \in Tracker!DocsOf(s) THEN "queued" ELSE job[d]]
  BY DEF CreateRows, Tracker!CreateJobs
<1>2. toFetch = {} /\ unfetched = {} /\ source[s] = "running"
      /\ \A r \in fetched : source[r] = "running"
  BY <1>1 DEF IInv, SourcesAreFetchedOnce
<1>3. Tracker!Rows(s)' = Tracker!DocsOf(s)
  BY <1>1 DEF Tracker!Rows, Tracker!DocsOf
<1>4. \A r \in Sources \ {s} : Tracker!Rows(r)' = Tracker!Rows(r)
  BY <1>1 DEF Tracker!Rows, Tracker!DocsOf
<1>5. SourcesAreFetchedOnce'
  BY <1>1, <1>2, <1>4 DEF IInv, SourcesAreFetchedOnce
<1>6. RowsAreWhole'
  BY <1>3, <1>4 DEF IInv, RowsAreWhole, Tracker!DocsOf
<1>7. RowsFollowAcceptedReports'
  BY <1>1, FinalIsDecided DEF RowsFollowAcceptedReports
<1>8. VerdictsAreEarned'
  <2> SUFFICES ASSUME NEW r \in Sources
               PROVE  /\ source'[r] = "success" =>
                           /\ \A d \in Tracker!DocsOf(r) : outcome'[d] # "none"
                           /\ \E d \in Tracker!DocsOf(r) : outcome'[d] = "success"
                      /\ source'[r] = "error" /\ Tracker!Rows(r)' # {} =>
                           \A d \in Tracker!DocsOf(r) : outcome'[d] = "failed"
    BY DEF VerdictsAreEarned, Tracker!DocsOf
  <2> QED BY <1>1, <1>2, <1>4, VerdictsStay
<1> QED BY <1>5, <1>6, <1>7, <1>8 DEF TablesInv

(* An exception ends the poll: the sources left keep having no rows.         *)
LEMMA CreateRowsFailsInv ==
  ASSUME IInv, [Next]_vars, CreateRowsFails
  PROVE  TablesInv'
<1>1. /\ scheduler = "creating" /\ scheduler' = "idle" /\ fetched' = {}
      /\ toFetch' = toFetch /\ unfetched' = unfetched /\ UNCHANGED <<job, source>>
  BY DEF CreateRowsFails, trackerVars
<1>2. \A s : Tracker!Rows(s)' = Tracker!Rows(s)
  BY <1>1 DEF Tracker!Rows, Tracker!DocsOf
<1>3. SourcesAreFetchedOnce'
  BY <1>1, <1>2 DEF IInv, SourcesAreFetchedOnce
<1>4. RowsAreWhole'
  BY <1>2 DEF IInv, RowsAreWhole
<1>5. RowsFollowAcceptedReports'
  BY <1>1, FinalIsDecided DEF RowsFollowAcceptedReports
<1>6. VerdictsAreEarned'
  BY <1>1, <1>2, VerdictsStay DEF VerdictsAreEarned
<1> QED BY <1>3, <1>4, <1>5, <1>6 DEF TablesInv

(* An update writes only rows that are there and not yet successful, and     *)
(* gives a final word only as the report of the document did.                *)
LEMMA RowUpdatesInv ==
  ASSUME IInv, [Next]_vars, UNCHANGED <<schedulerVars, source>>,
         job' \in [Docs -> Tracker!JobStates],
         \A d \in Docs : /\ job[d] = "none" <=> job'[d] = "none"
                         /\ job'[d] \in {"success", "failed"} =>
                              job'[d] = job[d] \/ job'[d] = outcome'[d]
  PROVE  TablesInv'
<1>1. \A s : Tracker!Rows(s)' = Tracker!Rows(s)
  BY DEF Tracker!Rows, Tracker!DocsOf
<1>2. SourcesAreFetchedOnce'
  BY <1>1 DEF IInv, SourcesAreFetchedOnce, schedulerVars
<1>3. RowsAreWhole'
  BY <1>1 DEF IInv, RowsAreWhole
<1>4. RowsFollowAcceptedReports'
  BY FinalIsDecided DEF RowsFollowAcceptedReports
<1>5. VerdictsAreEarned'
  BY <1>1, VerdictsStay DEF VerdictsAreEarned
<1> QED BY <1>2, <1>3, <1>4, <1>5 DEF TablesInv

(* mark_assigned and mark_completed are such updates.                        *)
LEMMA TrackRowsInv ==
  ASSUME IInv, [Next]_vars, NEW x \in writes, TrackAssigned(x) \/ TrackCompleted(x)
  PROVE  TablesInv'
<1> USE DEF Tracker!Writable, Tracker!JobStates
<1>1. job \in [Docs -> Tracker!JobStates] /\ x.ok \cup x.bad \subseteq Docs
  BY DEF IInv, TypeOK, Tracker!TypeOK
<1>2. CASE TrackAssigned(x)
  <2>1. UNCHANGED <<schedulerVars, source>> /\ job' \in [Docs -> Tracker!JobStates]
        /\ \A d \in Docs : /\ job[d] = "none" <=> job'[d] = "none"
                           /\ job'[d] \in {"success", "failed"} => job'[d] = job[d]
    BY <1>1, <1>2 DEF TrackAssigned, Tracker!MarkAssigned
  <2> HIDE DEF Tracker!JobStates
  <2> QED BY <2>1, RowUpdatesInv
<1>3. CASE TrackCompleted(x)
  <2>1. /\ \A d \in x.ok : outcome'[d] = "success"
        /\ \A d \in x.bad \ x.ok : outcome'[d] = "failed"
    <3>1. outcome' = outcome
      BY <1>3 DEF TrackCompleted, ghostVars
    <3> QED BY <1>3, <3>1 DEF TrackCompleted, IInv, WritesFollowReports
  <2>2. UNCHANGED <<schedulerVars, source>>
        /\ job' = [d \in Docs |-> IF ~Tracker!Writable(d) THEN job[d]
                                  ELSE IF d \in x.ok \cap Range(batchDocs[x.batch]) THEN "success"
                                  ELSE IF d \in x.bad \cap Range(batchDocs[x.batch]) THEN "failed"
                                  ELSE job[d]]
    BY <1>3 DEF TrackCompleted, Tracker!MarkCompleted
  <2>3. job' \in [Docs -> Tracker!JobStates]
    BY <1>1, <2>2
  <2>4. \A d \in Docs : /\ job[d] = "none" <=> job'[d] = "none"
                        /\ job'[d] \in {"success", "failed"} =>
                             job'[d] = job[d] \/ job'[d] = outcome'[d]
    BY <1>1, <2>1, <2>2
  <2> HIDE DEF Tracker!JobStates
  <2> QED BY <2>2, <2>3, <2>4, RowUpdatesInv
<1> QED BY <1>2, <1>3

(* The rollup: all rows of the source are final, and they are all there.     *)
LEMMA RollupInv ==
  ASSUME IInv, [Next]_vars, NEW x \in writes, TrackRollup(x)
  PROVE  TablesInv'
<1> DEFINE S == {SourceOf[d] : d \in Range(batchDocs[x.batch])}
<1>1. /\ UNCHANGED schedulerVars /\ job' = job
      /\ source' = [s \in Sources |-> IF s \in S /\ Tracker!Final(s) THEN Tracker!Verdict(s)
                                      ELSE source[s]]
  BY DEF TrackRollup, Tracker!Rollup
<1> HIDE DEF S
<1>2. \A s : Tracker!Rows(s)' = Tracker!Rows(s)
  BY <1>1 DEF Tracker!Rows, Tracker!DocsOf
<1>3. \A s \in Sources : source[s] = "pending" \/ s \in fetched => source'[s] = source[s]
  BY <1>1 DEF Tracker!Final, IInv, SourcesAreFetchedOnce
<1>4. \A s \in Sources : source'[s] = "pending" => source[s] = "pending"
  BY <1>1 DEF Tracker!Verdict
<1>5. SourcesAreFetchedOnce'
  <2>1. toFetch \cup fetched \cup unfetched \subseteq Sources
    BY DEF IInv, TypeOK
  <2> QED
    BY <1>1, <1>2, <1>3, <1>4, <2>1 DEF IInv, SourcesAreFetchedOnce, schedulerVars
<1>6. RowsAreWhole'
  BY <1>2 DEF IInv, RowsAreWhole
<1>7. RowsFollowAcceptedReports'
  BY <1>1, FinalIsDecided DEF RowsFollowAcceptedReports
<1>8. VerdictsAreEarned'
  <2> SUFFICES ASSUME NEW s \in Sources
               PROVE  /\ source'[s] = "success" =>
                           /\ \A d \in Tracker!DocsOf(s) : outcome'[d] # "none"
                           /\ \E d \in Tracker!DocsOf(s) : outcome'[d] = "success"
                      /\ source'[s] = "error" /\ Tracker!Rows(s) # {} =>
                           \A d \in Tracker!DocsOf(s) : outcome'[d] = "failed"
    BY <1>2 DEF VerdictsAreEarned, Tracker!DocsOf
  <2>1. CASE source'[s] = source[s]
    BY <2>1, VerdictsStay
  <2>2. CASE Tracker!Final(s) /\ source'[s] = Tracker!Verdict(s)
    <3>1. Tracker!Rows(s) = Tracker!DocsOf(s) /\ Tracker!DocsOf(s) \subseteq Docs
      BY <2>2 DEF Tracker!Final, IInv, RowsAreWhole, Tracker!DocsOf
    <3>2. \A d \in Tracker!DocsOf(s) : job[d] \in {"success", "failed"} /\ outcome'[d] = job[d]
      BY <2>2, <3>1, FinalIsDecided DEF Tracker!Final
    <3> QED BY <2>2, <3>1, <3>2 DEF Tracker!Verdict
  <2> QED BY <1>1, <2>1, <2>2
<1> QED BY <1>5, <1>6, <1>7, <1>8 DEF TablesInv

(* Every step keeps what the tables say.                                     *)
LEMMA TablesStayTrue ==
  ASSUME IInv, [Next]_vars
  PROVE  TablesInv'
<1>1. ASSUME UNCHANGED <<schedulerVars, trackerVars>> PROVE TablesInv'
  BY <1>1, TablesUntouched
<1>2. ASSUME Schedule PROVE TablesInv'
  BY <1>2, PollInv, CommitInv, CreateRowsInv DEF Schedule
<1>3. ASSUME NEW w \in Workers, Client(w) PROVE TablesInv'
  BY <1>1, <1>3 DEF Client, Connect, AskForBatch, ReceiveBatch, Process, LeaveBatch,
     Report, ReportAnswered, Leave
<1>4. ASSUME NEW w \in Workers, AskInVain(w) \/ Beat(w) \/ FallSilent(w) PROVE TablesInv'
  BY <1>1, <1>4 DEF AskInVain, Beat, FallSilent
<1>5. ASSUME Track PROVE TablesInv'
  BY <1>5, TrackRowsInv, RollupInv DEF Track
<1>6. ASSUME Reap \/ UNCHANGED vars PROVE TablesInv'
  BY <1>1, <1>6 DEF Reap, vars
<1>7. ASSUME Mishap PROVE TablesInv'
  BY <1>1, <1>7, CreateRowsFailsInv DEF Mishap, TrackFails, LoseAnswer, LoseHeartbeat,
     LoseReport, Crash, Restart, Stop
<1> QED BY <1>2, <1>3, <1>4, <1>5, <1>6, <1>7 DEF Next

-----------------------------------------------------------------------------
(* Types.                                                                    *)

(* The scheduler, the clients and the writes, without the registry's and the *)
(* tracker's own fields.                                                     *)
OwnTypes ==
  /\ Tracker!TypeOK
  /\ scheduler \in {"idle", "fetching", "creating"}
  /\ toFetch \subseteq Sources /\ fetched \subseteq Sources /\ unfetched \subseteq Sources
  /\ phase \in [Workers -> Phases]
  /\ batch \in [Workers -> BatchIds \cup {NoBatch}]
  /\ ok \in [Workers -> SUBSET Docs] /\ bad \in [Workers -> SUBSET Docs]
  /\ beating \subseteq Workers /\ revoked \subseteq Workers /\ stopping \subseteq Workers
  /\ \A x \in writes : /\ x.kind \in {"assign", "complete", "rollup"}
                       /\ x.batch \in BatchIds
                       /\ x.ok \cup x.bad \subseteq Docs
  /\ mishaps \in 0 .. Mishaps
  /\ outcome \in [Docs -> {"none", "success", "failed"}]

(* A fault is counted up to the bound.                                       *)
LEMMA FaultTypes ==
  ASSUME mishaps \in 0 .. Mishaps, NEW kind, Fault(kind)
  PROVE  mishaps' \in 0 .. Mishaps /\ outcome' = outcome
BY IngestAssumption DEF Fault

(* The scheduler's steps keep them.                                          *)
LEMMA ScheduleTypes ==
  ASSUME OwnTypes, Schedule \/ CreateRowsFails
  PROVE  OwnTypes'
<1> USE DEF OwnTypes
<1>1. CASE Poll
  BY <1>1 DEF Poll, Unscheduled, clientVars, trackerVars, ghostVars, Tracker!TypeOK
<1>2. ASSUME NEW s \in Sources, FetchSource(s) \/ FetchFails(s) PROVE OwnTypes'
  BY <1>2 DEF FetchSource, FetchFails, clientVars, trackerVars, ghostVars, Tracker!TypeOK
<1>3. CASE CommitPoll
  BY <1>3 DEF CommitPoll, clientVars, ghostVars, Tracker!TypeOK, Tracker!SourceStates
<1>4. ASSUME NEW s \in Sources, CreateRows(s) PROVE OwnTypes'
  BY <1>4 DEF CreateRows, Tracker!CreateJobs, clientVars, ghostVars, Tracker!TypeOK,
     Tracker!JobStates
<1>5. CASE CreateRowsFails
  BY <1>5, FaultTypes DEF CreateRowsFails, clientVars, trackerVars, Tracker!TypeOK
<1> QED BY <1>1, <1>2, <1>3, <1>4, <1>5 DEF Schedule

(* The tracker's writes keep them.                                           *)
LEMMA TrackTypes ==
  ASSUME OwnTypes, Track \/ \E x \in writes : TrackFails(x)
  PROVE  OwnTypes'
<1> USE DEF OwnTypes
<1>1. ASSUME NEW x \in writes, TrackAssigned(x) PROVE OwnTypes'
  BY <1>1 DEF TrackAssigned, Tracker!MarkAssigned, schedulerVars, clientVars, ghostVars,
     Tracker!TypeOK, Tracker!JobStates
<1>2. ASSUME NEW x \in writes, TrackCompleted(x) PROVE OwnTypes'
  <2>1. Tracker!TypeOK'
    BY <1>2 DEF TrackCompleted, Tracker!MarkCompleted, Tracker!TypeOK, Tracker!JobStates
  <2>2. \A y \in writes' : /\ y.kind \in {"assign", "complete", "rollup"}
                           /\ y.batch \in BatchIds
                           /\ y.ok \cup y.bad \subseteq Docs
    BY <1>2 DEF TrackCompleted, RollupWrite
  <2> QED BY <1>2, <2>1, <2>2 DEF TrackCompleted, schedulerVars, clientVars, ghostVars
<1>3. ASSUME NEW x \in writes, TrackRollup(x) PROVE OwnTypes'
  <2>1. Tracker!TypeOK'
    BY <1>3 DEF TrackRollup, Tracker!Rollup, Tracker!TypeOK, Tracker!SourceStates,
       Tracker!Verdict
  <2> QED BY <1>3, <2>1 DEF TrackRollup, schedulerVars, clientVars, ghostVars
<1>4. ASSUME NEW x \in writes, TrackFails(x) PROVE OwnTypes'
  BY <1>4, FaultTypes DEF TrackFails, schedulerVars, clientVars, trackerVars, Tracker!TypeOK
<1> QED BY <1>1, <1>2, <1>3, <1>4 DEF Track

(* The clients' steps keep them.                                             *)
LEMMA ClientTypes ==
  ASSUME IInv, OwnTypes, NEW w \in Workers, Client(w)
  PROVE  OwnTypes'
<1> USE DEF OwnTypes, schedulerVars, trackerVars, Tracker!TypeOK
<1>1. CASE Connect(w)
  BY <1>1 DEF Connect, Goto, Phases, ghostVars
<1>2. ASSUME NEW max \in Limits, AskForBatch(w, max) PROVE OwnTypes'
  <2>1. Registry!NextId \in BatchIds
    BY <1>2 DEF AskForBatch, Registry!TakeBatch, Registry!NextId, Registry!FreshIds
  <2>2. \A x \in writes' : /\ x.kind \in {"assign", "complete", "rollup"}
                           /\ x.batch \in BatchIds
                           /\ x.ok \cup x.bad \subseteq Docs
    BY <1>2, <2>1 DEF AskForBatch, AssignWrite
  <2> QED BY <1>2, <2>1, <2>2 DEF AskForBatch, Goto, Phases, ghostVars
<1>3. CASE ReceiveBatch(w)
  BY <1>3 DEF ReceiveBatch, Goto, Phases, ghostVars
<1>4. ASSUME NEW succeeds \in BOOLEAN, Process(w, succeeds) PROVE OwnTypes'
  <2>1. UNCHANGED <<phase, batch, registryVars>> /\ phase[w] = "work"
    BY <1>4 DEF Process
  <2>2. ok'[w] \cup bad'[w] \subseteq Docs
    <3>1. ClientsSpeakOfTheirBatch'
      BY <1>4, ClientsInv DEF Next, Client
    <3>2. phase'[w] = "work" /\ batch'[w] = batch[w] /\ batchDocs' = batchDocs
      BY <2>1 DEF registryVars
    <3>3. batch[w] \in BatchIds /\ ok'[w] \cup bad'[w] \subseteq Range(batchDocs[batch[w]])
      BY <3>1, <3>2 DEF ClientsSpeakOfTheirBatch
    <3>4. Range(batchDocs[batch[w]]) \subseteq Docs
      BY <3>3 DEF IInv, TypeOK, Registry!TypeOK, Range
    <3> QED BY <3>3, <3>4
  <2>3. ok' \in [Workers -> SUBSET Docs] /\ bad' \in [Workers -> SUBSET Docs]
    BY <1>4, <2>2 DEF Process
  <2> QED BY <1>4, <2>3 DEF Process, ghostVars
<1>5. CASE LeaveBatch(w)
  BY <1>5 DEF LeaveBatch, Goto, Phases, ghostVars
<1>6. CASE Report(w)
  <2>1. batch[w] \in BatchIds
    BY <1>6 DEF Report, IInv, ClientsSpeakOfTheirBatch
  <2>2. \A x \in writes' : /\ x.kind \in {"assign", "complete", "rollup"}
                           /\ x.batch \in BatchIds
                           /\ x.ok \cup x.bad \subseteq Docs
    BY <1>6, <2>1 DEF Report, CompleteWrite
  <2>3. outcome' \in [Docs -> {"none", "success", "failed"}]
    BY <1>6 DEF Report
  <2>4. phase' \in [Workers -> Phases]
    BY <1>6 DEF Report, Goto, Phases
  <2> QED BY <1>6, <2>2, <2>3, <2>4 DEF Report
<1>7. CASE ReportAnswered(w)
  BY <1>7 DEF ReportAnswered, Goto, Phases, ghostVars
<1>8. CASE Leave(w)
  BY <1>8 DEF Leave, Goto, Phases, ghostVars
<1> QED BY <1>1, <1>2, <1>3, <1>4, <1>5, <1>6, <1>7, <1>8 DEF Client

(* So do mishaps of clients, and time.                                       *)
LEMMA MishapTypes ==
  ASSUME OwnTypes, NEW w \in Workers,
         \/ LoseAnswer(w) \/ LoseHeartbeat(w) \/ LoseReport(w)
         \/ Crash(w) \/ Restart(w) \/ Stop(w)
         \/ AskInVain(w) \/ Beat(w) \/ FallSilent(w)
  PROVE  OwnTypes'
<1> USE DEF OwnTypes, schedulerVars, trackerVars, clientVars, Tracker!TypeOK
<1>1. CASE LoseAnswer(w) \/ LoseReport(w) \/ Restart(w)
  BY <1>1, FaultTypes DEF LoseAnswer, LoseReport, Restart, Goto, Phases
<1>2. CASE Crash(w)
  BY <1>2, FaultTypes DEF Crash, Goto, Phases
<1>3. CASE LoseHeartbeat(w) \/ Stop(w)
  BY <1>3, FaultTypes DEF LoseHeartbeat, Stop
<1>4. CASE AskInVain(w) \/ Beat(w)
  BY <1>4 DEF AskInVain, Beat, ghostVars
<1>5. CASE FallSilent(w)
  BY <1>5, FaultTypes DEF FallSilent, ghostVars
<1> QED BY <1>1, <1>2, <1>3, <1>4, <1>5

LEMMA OwnTypesInv ==
  ASSUME IInv, [Next]_vars
  PROVE  OwnTypes'
<1>1. OwnTypes
  BY DEF IInv, TypeOK, OwnTypes
<1>2. CASE Reap \/ UNCHANGED vars
  BY <1>1, <1>2 DEF Reap, OwnTypes, Tracker!TypeOK, vars, schedulerVars, trackerVars,
     clientVars, ghostVars
<1> QED
  BY <1>1, <1>2, ScheduleTypes, TrackTypes, ClientTypes, MishapTypes DEF Next, Mishap

-----------------------------------------------------------------------------
(* The invariant and what follows from it.                                   *)

(* The composition starts with nothing handed out and nothing decided.       *)
LEMMA InitIInv == Init => IInv
<1> SUFFICES ASSUME Init PROVE IInv
  OBVIOUS
<1>1. RP!RegistryInv
  BY SameRegistry, RegistryFits, RP!InitInv DEF Init
<1>2. TypeOK
  <2>1. Registry!TypeOK
    BY <1>1, SameRegistry DEF RP!RegistryInv
  <2> QED
    BY <2>1, IngestAssumption DEF Init, TypeOK, Tracker!Init, Tracker!TypeOK,
       Tracker!JobStates, Tracker!SourceStates, Phases
<1>3. \A s \in Sources : Tracker!Rows(s) = {} /\ source[s] = "pending"
  BY DEF Init, Tracker!Init, Tracker!Rows, Tracker!DocsOf
<1>4. ClientsSpeakOfTheirBatch /\ DecidedInDoneBatches /\ WritesFollowReports
  BY DEF Init, ClientsSpeakOfTheirBatch, DecidedInDoneBatches, WritesFollowReports
<1>5. SourcesAreFetchedOnce /\ RowsAreWhole
  BY <1>3 DEF Init, SourcesAreFetchedOnce, RowsAreWhole
<1>6. RowsFollowAcceptedReports /\ VerdictsAreEarned
  BY <1>3 DEF Init, Tracker!Init, RowsFollowAcceptedReports, VerdictsAreEarned
<1> QED BY <1>1, <1>2, <1>4, <1>5, <1>6 DEF IInv

(* Every step of the composition keeps the invariant.                        *)
LEMMA NextIInv == IInv /\ [Next]_vars => IInv'
<1> SUFFICES ASSUME IInv, [Next]_vars PROVE IInv'
  OBVIOUS
<1>1. RP!RegistryInv'
  <2>1. RP!RegistryInv /\ [RP!Next]_(RP!registryVars)
    BY StepsOfTheRegistry DEF IInv
  <2> QED BY <2>1, RegistryFits, RP!NextInv
<1>2. TypeOK'
  <2>1. Registry!TypeOK'
    BY <1>1 DEF RP!RegistryInv, RP!TypeOK, Registry!TypeOK, RP!WorkerStates,
       Registry!WorkerStates, RP!BatchStates, Registry!BatchStates
  <2> QED BY <2>1, OwnTypesInv DEF OwnTypes, TypeOK
<1> QED
  BY <1>1, <1>2, ClientsInv, DecidedInv, WritesInv, TablesStayTrue DEF IInv, TablesInv

(* The inductive invariant holds in every reachable state.                   *)
THEOREM Invariant == Spec => []IInv
BY InitIInv, NextIInv, PTL DEF Spec

(* The pool's fields keep their types, whatever fails.                       *)
THEOREM Typing == Spec => []TypeOK
<1>1. IInv => TypeOK
  BY DEF IInv
<1> QED BY <1>1, Invariant, PTL

(* A finished row says what the accepted report said: no late report and no  *)
(* late write of a worker that lost its batch changes a document's verdict.  *)
THEOREM RowsFollowReports == Spec => []RowsFollowAcceptedReports
<1>1. IInv => RowsFollowAcceptedReports
  BY DEF IInv
<1> QED BY <1>1, Invariant, PTL

(* rollup_sources gives a verdict only when every document of the source has *)
(* an accepted outcome, and success only when one succeeded.                 *)
THEOREM VerdictsEarned == Spec => []VerdictsAreEarned
<1>1. IInv => VerdictsAreEarned
  BY DEF IInv
<1> QED BY <1>1, Invariant, PTL

(* No update downgrades a row that says success.                             *)
THEOREM SuccessFinal == Spec => SuccessIsFinal
<1> DEFINE Stays == \A d \in Docs : job[d] = "success" => job'[d] = "success"
<1>1. ASSUME IInv, Next PROVE Stays
  <2>1. ASSUME UNCHANGED job PROVE Stays
    BY <2>1
  <2>2. ASSUME NEW s \in Sources, CreateRows(s) PROVE Stays
    <3>1. Tracker!Rows(s) = {}
      BY <1>1, <2>2 DEF CreateRows, IInv, SourcesAreFetchedOnce
    <3> QED BY <2>2, <3>1 DEF CreateRows, Tracker!CreateJobs, Tracker!Rows
  <2>3. ASSUME NEW x \in writes, TrackAssigned(x) \/ TrackCompleted(x) PROVE Stays
    BY <2>3 DEF TrackAssigned, TrackCompleted, Tracker!MarkAssigned,
       Tracker!MarkCompleted, Tracker!Writable
  <2> HIDE DEF Stays
  <2>4. ASSUME Schedule PROVE Stays
    BY <2>1, <2>2, <2>4 DEF Schedule, Poll, FetchSource, FetchFails, CommitPoll, trackerVars
  <2>5. ASSUME NEW w \in Workers, Client(w) PROVE Stays
    BY <2>1, <2>5 DEF Client, Connect, AskForBatch, ReceiveBatch, Process, LeaveBatch,
       Report, ReportAnswered, Leave, trackerVars
  <2>6. ASSUME NEW w \in Workers, AskInVain(w) \/ Beat(w) \/ FallSilent(w) PROVE Stays
    BY <2>1, <2>6 DEF AskInVain, Beat, FallSilent, trackerVars
  <2>7. ASSUME Track PROVE Stays
    BY <2>1, <2>3, <2>7 DEF Track, TrackRollup, Tracker!Rollup
  <2>8. ASSUME Mishap \/ Reap PROVE Stays
    BY <2>1, <2>8 DEF Mishap, CreateRowsFails, TrackFails, LoseAnswer, LoseHeartbeat,
       LoseReport, Crash, Restart, Stop, Reap, trackerVars
  <2> QED BY <1>1, <2>4, <2>5, <2>6, <2>7, <2>8 DEF Next
<1>2. IInv /\ [Next]_vars => [Stays]_vars
  BY <1>1
<1> QED BY <1>2, Invariant, PTL DEF Spec, SuccessIsFinal

(* The clients, the scheduler and the reaper use the registry as its         *)
(* specification allows, in every behaviour of the composition.              *)
THEOREM RegistryIsUsedAsSpecified == Spec => RP!Spec
<1>1. Init => RP!Init
  BY SameRegistry DEF Init
<1>2. IInv /\ [Next]_vars => [RP!Next]_(RP!registryVars)
  BY StepsOfTheRegistry DEF IInv
<1> QED BY <1>1, <1>2, Invariant, PTL DEF Spec, RP!Spec

(* ... so that it is a document pool: no document of the system is leased to *)
(* two workers, settled twice or lost.                                       *)
THEOREM SystemImplementsPool == Spec => RP!ImplementsPool
BY RegistryIsUsedAsSpecified, RegistryFits, RP!RegistryImplementsPool

-----------------------------------------------------------------------------
(* No batch is stranded, where no worker comes back under an id it had, no   *)
(* answer of request_work is lost and no report either: each of the three    *)
(* makes a worker forget a batch that the registry keeps open.               *)

NobodyForgets == Faults \cap {"restart", "network", "report"} = {}

(* Types the steps below rest on.                                            *)
LEMMA LeaseTypes ==
  ASSUME IInv
  PROVE  /\ phase \in [Workers -> Phases]
         /\ batch \in [Workers -> BatchIds \cup {NoBatch}]
         /\ workerBatch \in [Workers -> BatchIds \cup {NoBatch}]
         /\ workerState \in [Workers -> Registry!WorkerStates]
         /\ batchState \in [BatchIds -> Registry!BatchStates]
         /\ batchOwner \in [BatchIds -> Workers \cup {Nobody}]
         /\ batchDocs \in [BatchIds -> Seq(Docs)]
         /\ ok \in [Workers -> SUBSET Docs] /\ bad \in [Workers -> SUBSET Docs]
BY DEF IInv, TypeOK, Registry!TypeOK

(* A client that is asking, and not told to stop, has no open batch.         *)
LEMMA AskersHoldNothing ==
  ASSUME LeaseInv, NEW w \in Workers, phase[w] \in {"connect", "ask", "reporting"},
         phase[w] = "ask" => w \notin stopping
  PROVE  \A b \in BatchIds : batchState[b] = "assigned" => batchOwner[b] # w
BY DEF LeaseInv, OwnersAreOnTheirBatch

(* A client leaves its batch without a report only when it was told that the *)
(* batch is no longer its own, or to stop.                                   *)
LEMMA LeavingUnreported ==
  ASSUME IInv, LeaseInv, NEW w \in Workers, LeaveBatch(w),
         ok[w] \cup bad[w] = {}, w \notin stopping
  PROVE  batchState[batch[w]] # "assigned"
<1>1. phase[w] = "work" /\ batch[w] \in BatchIds
  BY DEF LeaveBatch, IInv, ClientsSpeakOfTheirBatch
<1>2. CASE w \in revoked
  BY <1>1, <1>2 DEF LeaseInv, RevokedAreReassigned
<1>3. CASE w \notin revoked
  <2> SUFFICES ASSUME batchState[batch[w]] = "assigned" PROVE FALSE
    OBVIOUS
  <2>1. batchDocs[batch[w]] # <<>> /\ batchDocs[batch[w]] \in Seq(Docs)
    BY <1>1, LeaseTypes DEF LeaseInv, OpenBatchesHaveDocuments
  <2>2. Len(batchDocs[batch[w]]) > 0
    BY <2>1
  <2>3. Seen(w) = 0
    BY FS_EmptySet DEF Seen
  <2> QED BY <1>3, <2>2, <2>3 DEF LeaveBatch, Left
<1> QED BY <1>2, <1>3

(* Where a batch's owner is after a step that neither hands out nor closes   *)
(* nor takes back a batch, and keeps the clients' records.                   *)
LEMMA OwnersStay ==
  ASSUME IInv, LeaseInv, UNCHANGED <<batchState, batchOwner, workerBatch>>,
         \A w \in Workers : \/ phase'[w] = phase[w] /\ batch'[w] = batch[w]
                               /\ (w \in stopping => w \in stopping')
                            \/ \A b \in BatchIds : batchState[b] = "assigned"
                                                     => batchOwner[b] # w
                            \/ phase'[w] \in {"handed", "work", "report"}
                               /\ phase[w] \in {"handed", "work", "report"}
                               /\ batch'[w] = batch[w]
                            \/ phase'[w] = "off"
                            \/ phase'[w] = "ask" /\ w \in stopping'
  PROVE  OwnersAreOnTheirBatch'
<1> SUFFICES ASSUME NEW b \in BatchIds, batchState[b] = "assigned"
             PROVE  LET w == batchOwner[b]
                    IN /\ w \in Workers /\ workerBatch[w] = b
                       /\ \/ phase'[w] \in {"handed", "work", "report"} /\ batch'[w] = b
                          \/ phase'[w] = "off"
                          \/ phase'[w] = "ask" /\ w \in stopping'
  BY DEF OwnersAreOnTheirBatch
<1>1. PICK w \in Workers : w = batchOwner[b]
  BY DEF LeaseInv, OwnersAreOnTheirBatch
<1> QED BY <1>1 DEF LeaseInv, OwnersAreOnTheirBatch

(* Only request_work opens a batch.                                          *)
LEMMA NewBatchesAreAskedFor ==
  ASSUME IInv, [Next]_vars, NEW b \in BatchIds,
         batchState[b] = "unknown", batchState'[b] # "unknown"
  PROVE  \E w \in Workers, max \in Limits :
           AskForBatch(w, max) /\ b = Registry!NextId
<1> USE LeaseTypes
<1>1. batchState' # batchState
  OBVIOUS
<1>2. ~Schedule
  BY <1>1 DEF Schedule, Poll, FetchSource, FetchFails, CommitPoll, CreateRows,
     registryVars, Registry!AddDocuments, Registry!batchVars
<1>3. ASSUME NEW w \in Workers, Report(w) PROVE FALSE
  <2>1. batchState[batch[w]] # "unknown" /\ batch[w] \in BatchIds
    BY <1>3 DEF Report, IInv, ClientsSpeakOfTheirBatch
  <2> QED BY <1>3, <2>1, ReportEffect DEF IInv
<1>4. ASSUME NEW w \in Workers, Client(w)
      PROVE  \E max \in Limits : AskForBatch(w, max)
  BY <1>1, <1>3, <1>4 DEF Client, Connect, ReceiveBatch, Process, LeaveBatch,
     ReportAnswered, Leave, registryVars, Registry!Register, Registry!batchVars
<1>5. ASSUME NEW w \in Workers, NEW max \in Limits, AskForBatch(w, max)
      PROVE  b = Registry!NextId
  BY <1>5, AskingEffect DEF AskForBatch, IInv
<1>6. ASSUME NEW w \in Workers PROVE ~AskInVain(w) /\ ~Beat(w) /\ ~FallSilent(w)
  BY <1>1 DEF AskInVain, Beat, FallSilent, Registry!RequestNothing, Registry!Heartbeat,
     Registry!FallSilent, Registry!batchVars
<1>7. ~Track
  BY <1>1 DEF Track, TrackAssigned, TrackCompleted, TrackRollup, registryVars
<1>8. ~Reap
  BY DEF Reap, Registry!ReapDead, Registry!CloseReclaimed, Registry!Reclaimed
<1>9. ~Mishap
  BY <1>1 DEF Mishap, CreateRowsFails, TrackFails, LoseAnswer, LoseHeartbeat,
     LoseReport, Crash, Restart, Stop, registryVars
<1>10. ~UNCHANGED vars
  BY <1>1 DEF vars, registryVars
<1> QED
  BY <1>2, <1>4, <1>5, <1>6, <1>7, <1>8, <1>9, <1>10 DEF Next

(* A batch handed out holds a document.                                      *)
LEMMA OpenBatchesInv ==
  ASSUME IInv, LeaseInv, [Next]_vars
  PROVE  OpenBatchesHaveDocuments'
<1> SUFFICES ASSUME NEW b \in BatchIds, batchState'[b] = "assigned"
             PROVE  batchDocs'[b] # <<>>
  BY DEF OpenBatchesHaveDocuments
<1>1. CASE batchState[b] = "unknown"
  BY <1>1, NewBatchesAreAskedFor, AskingEffect DEF AskForBatch, IInv
<1>2. CASE batchState[b] # "unknown"
  BY <1>2, BatchesGoOn DEF LeaseInv, OpenBatchesHaveDocuments
<1> QED BY <1>1, <1>2

(* A heartbeat tells a client to stop only when the reaper has its batch.    *)
LEMMA RevokedInv ==
  ASSUME IInv, LeaseInv, [Next]_vars
  PROVE  RevokedAreReassigned'
<1> SUFFICES ASSUME NEW w \in revoked', phase'[w] = "work"
             PROVE  batchState'[batch'[w]] = "reassigned"
  BY DEF RevokedAreReassigned
<1> USE LeaseTypes
<1>1. w \in Workers
  BY OwnTypesInv DEF OwnTypes
<1> DEFINE Goal == batchState'[batch'[w]] = "reassigned"
<1>2. ASSUME phase[w] = "work", batch'[w] = batch[w], batchState[batch[w]] = "reassigned"
      PROVE  Goal
  <2>1. batch[w] \in BatchIds
    BY <1>1, <1>2 DEF IInv, ClientsSpeakOfTheirBatch
  <2> QED BY <1>2, <2>1, BatchesGoOn
<1>3. ASSUME phase[w] = "work", batch'[w] = batch[w], w \in revoked PROVE Goal
  BY <1>2, <1>3 DEF LeaseInv, RevokedAreReassigned
<1>4. ASSUME UNCHANGED <<batch, revoked>>, phase[w] = "work" PROVE Goal
  BY <1>3, <1>4
<1>5. ASSUME NEW v \in Workers, Beat(v) PROVE Goal
  <2>1. CASE w \in revoked
    BY <1>3, <1>5, <2>1 DEF Beat
  <2>2. CASE w \notin revoked
    <3>1. w = v /\ ~Registry!KeepGoing(w, batch[w]) /\ phase[w] = "work" /\ batch' = batch
      BY <1>5, <2>2 DEF Beat
    <3>2. batch[w] \in BatchIds /\ batchOwner[batch[w]] = w
      BY <1>1, <3>1 DEF IInv, ClientsSpeakOfTheirBatch
    <3>3. batchState[batch[w]] = "reassigned"
      BY <3>1, <3>2 DEF Registry!KeepGoing
    <3> QED BY <1>2, <3>1, <3>3
  <2> QED BY <2>1, <2>2
<1>6. ASSUME NEW v \in Workers, ReceiveBatch(v) PROVE Goal
  <2>1. w # v /\ w \in revoked /\ batch' = batch
    BY <1>6 DEF ReceiveBatch
  <2>2. phase[w] = "work"
    BY <1>1, <1>6, <2>1 DEF ReceiveBatch, Goto
  <2> QED BY <1>3, <2>1, <2>2
<1>7. ASSUME NEW v \in Workers, NEW max \in Limits, AskForBatch(v, max) PROVE Goal
  <2>1. w # v /\ phase[w] = "work" /\ revoked' = revoked
    BY <1>1, <1>7 DEF AskForBatch, Goto
  <2>2. batch'[w] = batch[w]
    BY <1>1, <1>7, <2>1 DEF AskForBatch
  <2> QED BY <1>3, <2>1, <2>2
<1>8. ASSUME NEW v \in Workers,
             Connect(v) \/ LeaveBatch(v) \/ Report(v) \/ ReportAnswered(v) \/ Leave(v)
      PROVE  Goal
  <2>1. UNCHANGED <<batch, revoked>> /\ phase[w] = "work"
    BY <1>1, <1>8 DEF Connect, LeaveBatch, Report, ReportAnswered, Leave, Goto
  <2> QED BY <1>4, <2>1
<1>9. ASSUME NEW v \in Workers, LoseAnswer(v) \/ LoseReport(v) \/ Crash(v) \/ Restart(v)
      PROVE  Goal
  <2>1. w \in revoked /\ phase[w] = "work" /\ batch'[w] = batch[w]
    BY <1>1, <1>9 DEF LoseAnswer, LoseReport, Crash, Restart, Goto
  <2> QED BY <1>3, <2>1
<1>10. ASSUME UNCHANGED <<batch, revoked, phase>> PROVE Goal
  BY <1>4, <1>10
<1> HIDE DEF Goal
<1>11. ASSUME Schedule \/ Track \/ Reap \/ UNCHANGED vars PROVE Goal
  BY <1>10, <1>11 DEF Schedule, Poll, FetchSource, FetchFails, CommitPoll, CreateRows,
     Track, TrackAssigned, TrackCompleted, TrackRollup, Reap, vars, clientVars
<1>12. ASSUME NEW v \in Workers, Client(v) PROVE Goal
  BY <1>6, <1>7, <1>8, <1>10, <1>12 DEF Client, Process
<1>13. ASSUME NEW v \in Workers, AskInVain(v) \/ Beat(v) \/ FallSilent(v) PROVE Goal
  BY <1>5, <1>10, <1>13 DEF AskInVain, FallSilent, clientVars
<1>14. ASSUME Mishap PROVE Goal
  BY <1>9, <1>10, <1>14 DEF Mishap, CreateRowsFails, TrackFails, LoseHeartbeat, Stop,
     clientVars
<1>15. Goal
  BY <1>11, <1>12, <1>13, <1>14 DEF Next
<1> QED BY <1>15 DEF Goal

(* Every step keeps the owner of an open batch on it.                        *)
LEMMA OwnersInv ==
  ASSUME IInv, LeaseInv, [Next]_vars, NobodyForgets
  PROVE  OwnersAreOnTheirBatch'
<1> USE LeaseTypes
<1> DEFINE Kept == OwnersAreOnTheirBatch'
<1>1. ASSUME UNCHANGED <<batchState, batchOwner, workerBatch, phase, batch>>,
             stopping \subseteq stopping'
      PROVE  Kept
  BY <1>1, OwnersStay
<1>2. ASSUME NEW w \in Workers, Connect(w) PROVE Kept
  <2>1. /\ phase[w] = "connect" /\ UNCHANGED <<batchState, batchOwner, batch, stopping>>
        /\ \A v \in Workers \ {w} : phase'[v] = phase[v] /\ workerBatch'[v] = workerBatch[v]
    BY <1>2 DEF Connect, Goto, Registry!Register, Registry!batchVars, registryVars
  <2>2. \A b \in BatchIds : batchState[b] = "assigned" => batchOwner[b] # w
    BY <2>1, AskersHoldNothing
  <2> QED BY <2>1, <2>2 DEF LeaseInv, OwnersAreOnTheirBatch
<1>3. ASSUME NEW w \in Workers, NEW max \in Limits, AskForBatch(w, max) PROVE Kept
  <2>1. /\ phase[w] = "ask" /\ w \notin stopping /\ stopping' = stopping
        /\ phase' = [phase EXCEPT ![w] = "handed"]
        /\ batch' = [batch EXCEPT ![w] = Registry!NextId]
    BY <1>3 DEF AskForBatch, Goto
  <2>2. \A b \in BatchIds : batchState[b] = "assigned" => batchOwner[b] # w
    BY <2>1, AskersHoldNothing
  <2>3. PICK id \in BatchIds : id = Registry!NextId
    BY <1>3, AskingEffect DEF AskForBatch, IInv
  <2>4. /\ batchState' = [batchState EXCEPT ![id] = "assigned"]
        /\ batchOwner' = [batchOwner EXCEPT ![id] = w]
        /\ workerBatch' = [workerBatch EXCEPT ![w] = id]
    BY <1>3, <2>3, AskingEffect DEF AskForBatch, IInv
  <2>5. /\ batchOwner'[id] = w /\ workerBatch'[w] = id
        /\ phase'[w] = "handed" /\ batch'[w] = id
    BY <2>1, <2>3, <2>4
  <2>6. ASSUME NEW b \in BatchIds \ {id}, batchState'[b] = "assigned"
        PROVE  LET v == batchOwner'[b]
               IN /\ v \in Workers /\ workerBatch'[v] = b
                  /\ \/ phase'[v] \in {"handed", "work", "report"} /\ batch'[v] = b
                     \/ phase'[v] = "off"
                     \/ phase'[v] = "ask" /\ v \in stopping'
    <3>1. batchState[b] = "assigned" /\ batchOwner'[b] = batchOwner[b] /\ batchOwner[b] # w
      BY <2>2, <2>4, <2>6
    <3>2. PICK v \in Workers : v = batchOwner[b] /\ v # w
      BY <3>1 DEF LeaseInv, OwnersAreOnTheirBatch
    <3>3. phase'[v] = phase[v] /\ batch'[v] = batch[v] /\ workerBatch'[v] = workerBatch[v]
      BY <2>1, <2>4, <3>2
    <3> QED BY <2>1, <3>1, <3>2, <3>3 DEF LeaseInv, OwnersAreOnTheirBatch
  <2> QED BY <2>5, <2>6 DEF OwnersAreOnTheirBatch
<1>4. ASSUME NEW w \in Workers, ReceiveBatch(w) PROVE Kept
  <2>1. /\ UNCHANGED <<batchState, batchOwner, workerBatch, batch, stopping>>
        /\ phase[w] = "handed" /\ phase'[w] = "work"
        /\ \A v \in Workers \ {w} : phase'[v] = phase[v]
    BY <1>4 DEF ReceiveBatch, Goto, registryVars
  <2> QED BY <2>1, OwnersStay
<1>5. ASSUME NEW w \in Workers, LeaveBatch(w) PROVE Kept
  <2>1. /\ UNCHANGED <<batchState, batchOwner, workerBatch, batch, stopping>>
        /\ phase[w] = "work"
        /\ phase'[w] = IF ok[w] \cup bad[w] # {} THEN "report" ELSE "ask"
        /\ \A v \in Workers \ {w} : phase'[v] = phase[v]
    BY <1>5 DEF LeaveBatch, Goto, registryVars
  <2>2. CASE ok[w] \cup bad[w] # {} \/ w \in stopping
    BY <2>1, <2>2, OwnersStay
  <2>3. CASE ok[w] \cup bad[w] = {} /\ w \notin stopping
    <3>1. batchState[batch[w]] # "assigned"
      BY <1>5, <2>3, LeavingUnreported
    <3>2. \A b \in BatchIds : batchState[b] = "assigned" => batchOwner[b] # w
      BY <2>1, <3>1 DEF LeaseInv, OwnersAreOnTheirBatch
    <3> QED BY <2>1, <3>2, OwnersStay
  <2> QED BY <2>2, <2>3
<1>6. ASSUME NEW w \in Workers, Report(w) PROVE Kept
  <2>1. /\ phase[w] = "report" /\ UNCHANGED <<batch, stopping>>
        /\ \A v \in Workers \ {w} : phase'[v] = phase[v]
        /\ batch[w] \in BatchIds /\ batchOwner[batch[w]] = w
        /\ UNCHANGED <<batchOwner, batchDocs>>
    BY <1>6, ReportEffect DEF Report, Goto, IInv
  <2>2. \A v \in Workers \ {w} : workerBatch'[v] = workerBatch[v]
    BY <1>6 DEF Report, Registry!Complete
  <2>3. \A b \in BatchIds : batchState'[b] = "assigned" => batchState[b] = "assigned" /\ batchOwner[b] # w
    <3>1. CASE Registry!Accepts(w, batch[w])
      BY <1>6, <2>1, <3>1, ReportEffect DEF IInv, LeaseInv, OwnersAreOnTheirBatch
    <3>2. CASE ~Registry!Accepts(w, batch[w])
      <4>1. batchState' = batchState
        BY <1>6, <3>2, ReportEffect DEF IInv
      <4>2. batchState[batch[w]] = "reassigned"
        BY <2>1, <3>2 DEF Registry!Accepts, IInv, ClientsSpeakOfTheirBatch
      <4> QED BY <2>1, <4>1, <4>2 DEF LeaseInv, OwnersAreOnTheirBatch
    <3> QED BY <3>1, <3>2
  <2> QED BY <2>1, <2>2, <2>3 DEF LeaseInv, OwnersAreOnTheirBatch
<1>7. ASSUME NEW w \in Workers, ReportAnswered(w) PROVE Kept
  <2>1. /\ UNCHANGED <<batchState, batchOwner, workerBatch, batch, stopping>>
        /\ phase[w] = "reporting"
        /\ \A v \in Workers \ {w} : phase'[v] = phase[v]
    BY <1>7 DEF ReportAnswered, Goto, registryVars
  <2> QED BY <2>1, AskersHoldNothing, OwnersStay
<1>8. ASSUME NEW w \in Workers, Leave(w) \/ Crash(w) PROVE Kept
  <2>1. /\ UNCHANGED <<batchState, batchOwner, workerBatch, batch>>
        /\ stopping' = stopping \ {w} /\ phase'[w] = "off"
        /\ \A v \in Workers \ {w} : phase'[v] = phase[v]
    BY <1>8 DEF Leave, Crash, Goto, registryVars
  <2> QED BY <2>1, OwnersStay
<1>9. ASSUME NEW w \in Workers, AskInVain(w) \/ Beat(w) \/ FallSilent(w) PROVE Kept
  <2>1. UNCHANGED <<batchState, batchOwner, workerBatch, phase, batch, stopping>>
    BY <1>9 DEF AskInVain, Beat, FallSilent, Registry!RequestNothing, Registry!Heartbeat,
       Registry!FallSilent, Registry!batchVars, clientVars
  <2> QED BY <1>1, <2>1
<1>10. ASSUME Reap PROVE Kept
  <2>1. /\ UNCHANGED <<batchOwner, phase, batch, stopping>>
        /\ batchState' = [b \in BatchIds |-> IF b \in Registry!Reclaimed THEN "reassigned"
                                             ELSE batchState[b]]
        /\ workerBatch' = [w \in Workers |-> IF w \in Registry!Expired THEN NoBatch
                                             ELSE workerBatch[w]]
    BY <1>10 DEF Reap, Registry!ReapDead, Registry!CloseReclaimed, Registry!RetireExpired,
       clientVars
  <2> SUFFICES ASSUME NEW b \in BatchIds, batchState'[b] = "assigned"
               PROVE  LET v == batchOwner'[b]
                      IN /\ v \in Workers /\ workerBatch'[v] = b
                         /\ \/ phase'[v] \in {"handed", "work", "report"} /\ batch'[v] = b
                            \/ phase'[v] = "off"
                            \/ phase'[v] = "ask" /\ v \in stopping'
    BY DEF OwnersAreOnTheirBatch
  <2>2. batchState[b] = "assigned" /\ b \notin Registry!Reclaimed
    BY <2>1
  <2>3. PICK v \in Workers : v = batchOwner[b] /\ workerBatch[v] = b
    BY <2>2 DEF LeaseInv, OwnersAreOnTheirBatch
  <2>4. v \notin Registry!Expired
    BY <2>2, <2>3 DEF Registry!Reclaimed
  <2>5. workerBatch'[v] = b
    BY <2>1, <2>3, <2>4
  <2> QED BY <2>1, <2>2, <2>3, <2>5 DEF LeaseInv, OwnersAreOnTheirBatch
<1>11. ASSUME NEW w \in Workers PROVE ~LoseAnswer(w) /\ ~LoseReport(w) /\ ~Restart(w)
  BY DEF NobodyForgets, LoseAnswer, LoseReport, Restart, Fault
<1> HIDE DEF Kept
<1>12. ASSUME Schedule \/ Track \/ UNCHANGED vars PROVE Kept
  <2>1. UNCHANGED <<batchState, batchOwner, workerBatch, phase, batch, stopping>>
    BY <1>12 DEF Schedule, Poll, FetchSource, FetchFails, CommitPoll, CreateRows,
       Track, TrackAssigned, TrackCompleted, TrackRollup, vars, clientVars, registryVars,
       Registry!AddDocuments, Registry!workerVars, Registry!batchVars
  <2> QED BY <1>1, <2>1
<1>13. ASSUME NEW w \in Workers, Client(w) PROVE Kept
  <2>1. ASSUME NEW succeeds \in BOOLEAN, Process(w, succeeds) PROVE Kept
    BY <1>1, <2>1 DEF Process, registryVars
  <2> QED
    BY <1>2, <1>3, <1>4, <1>5, <1>6, <1>7, <1>8, <1>13, <2>1 DEF Client
<1>14. ASSUME Mishap PROVE Kept
  <2>1. ASSUME CreateRowsFails \/ \E x \in writes : TrackFails(x) PROVE Kept
    BY <1>1, <2>1 DEF CreateRowsFails, TrackFails, clientVars, registryVars
  <2>2. ASSUME NEW w \in Workers, LoseHeartbeat(w) \/ Stop(w) PROVE Kept
    BY <1>1, <2>2 DEF LoseHeartbeat, Stop, registryVars
  <2> QED BY <1>8, <1>11, <1>14, <2>1, <2>2 DEF Mishap
<1>15. Kept
  BY <1>9, <1>10, <1>12, <1>13, <1>14 DEF Next
<1> QED BY <1>15 DEF Kept

(* No batch is stranded: whatever crashes, falls silent or is told to stop,  *)
(* the record of an open batch's worker points at it, so that the reaper can *)
(* take it back.                                                             *)
THEOREM NoneIsStranded ==
  ASSUME NobodyForgets
  PROVE  Spec => []NoBatchIsStranded
<1>1. Init => LeaseInv
  BY DEF Init, Registry!Init, LeaseInv, OwnersAreOnTheirBatch, RevokedAreReassigned,
     OpenBatchesHaveDocuments
<1>2. IInv /\ LeaseInv /\ [Next]_vars => LeaseInv'
  BY OwnersInv, RevokedInv, OpenBatchesInv DEF LeaseInv
<1>3. LeaseInv => NoBatchIsStranded
  BY DEF LeaseInv, OwnersAreOnTheirBatch, NoBatchIsStranded
<1> QED BY <1>1, <1>2, <1>3, Invariant, PTL DEF Spec
=============================================================================
