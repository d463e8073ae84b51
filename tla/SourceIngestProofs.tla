--------------------------- MODULE SourceIngestProofs ---------------------------
(***************************************************************************)
(* What SourceIngest promises for any sources, listings, faults and        *)
(* bounds: a source runs only while a job works on it, unless that job     *)
(* ended in a way that sets no status; where nothing is forced, deleted or *)
(* cleaned up, what a job row, a checkpoint or a source's status calls done *)
(* can be searched; and a deletion and a cleanup beside which no job runs  *)
(* leave nothing of a deleted source.                                      *)
(***************************************************************************)
EXTENDS SourceIngest, FiniteSetTheorems, SequenceTheorems, TLAPS

(* A job has a phase, and its documents have stages once it has listed them. *)
PhaseFits ==
  /\ phase = "idle" <=> current = None
  /\ phase \in {"idle", "fetch"} => stage = NoStages

Shape == TypeOK /\ PhaseFits

USE SourceIngestAssumption
    DEF apiVars, workerVars, storeVars, sweepVars, ghostVars, requestFrame, docFrame,
        SourceStates, RowStates, Stages, NoRows, NoStages

-----------------------------------------------------------------------------
LEMMA InitFits == Init => Shape
  BY DEF Init, Shape, TypeOK, PhaseFits, NoChunks

(* Requests. *)
LEMMA DemandFits ==
  ASSUME Shape, NEW k \in Nat, NEW order \in [1 .. k -> Sources], NEW force, NEW n \in 0 .. k,
         Demand(order, force, n), mishaps' \in 0 .. Mishaps
  PROVE  Shape'
  <1> DEFINE jobs == [i \in 1 .. n |-> [source |-> order[i], force |-> force]]
  <1>1. force \in BOOLEAN /\ requests' \in 0 .. Requests
    BY DEF Demand, Shape, TypeOK
  <1>2. order \in Seq(Sources) /\ Len(order) = k
    OBVIOUS
  <1>3. jobs \in Seq(Jobs)
    <2>1. ASSUME NEW i \in 1 .. n PROVE jobs[i] \in Jobs
      <3>1. i \in 1 .. k
        BY <2>1
      <3>2. order[i] \in Sources
        BY <3>1
      <3>3. QED BY <1>1, <3>2 DEF Jobs
    <2>2. n \in Nat /\ jobs \in [1 .. n -> Jobs]
      BY <2>1
    <2> HIDE DEF jobs
    <2>3. QED BY <2>2
  <1>4. queue' \in Seq(Jobs)
    BY <1>3, ConcatProperties DEF Demand, Shape, TypeOK
  <1> HIDE DEF jobs
  <1>5. source' \in [Sources -> SourceStates]
    BY DEF Demand, Shape, TypeOK
  <1>6. Range(order) \subseteq Sources
    BY DEF Range
  <1>7. {order[i] : i \in n + 1 .. Len(order)} \subseteq Sources
    BY <1>2
  <1>8. stranded' \subseteq Sources
    BY <1>6, <1>7 DEF Demand, Shape, TypeOK
  <1>9. QED
    BY <1>1, <1>4, <1>5, <1>8 DEF Demand, Shape, TypeOK, PhaseFits

LEMMA OneDemandFits ==
  ASSUME Shape, NEW s \in Sources, NEW force, NEW n \in {0, 1}, Demand(<<s>>, force, n),
         mishaps' \in 0 .. Mishaps
  PROVE  Shape'
  <1>1. <<s>> \in [1 .. 1 -> Sources] /\ 1 \in Nat /\ n \in 0 .. 1
    OBVIOUS
  <1> DEFINE order == <<s>>
  <1>2. order \in [1 .. 1 -> Sources] /\ Demand(order, force, n)
    BY <1>1
  <1> HIDE DEF order
  <1>3. QED BY <1>1, <1>2, DemandFits

LEMMA OrderFits ==
  ASSUME NEW set \in SUBSET Sources, NEW order \in Orders(set)
  PROVE  /\ Cardinality(set) \in Nat /\ order \in [1 .. Cardinality(set) -> Sources]
         /\ Len(order) = Cardinality(set)
  <1>1. IsFiniteSet(set)
    BY FS_Subset
  <1>2. Cardinality(set) \in Nat
    BY <1>1, FS_CardinalityType
  <1>3. order \in [1 .. Cardinality(set) -> Sources]
    BY DEF Orders
  <1>4. QED BY <1>2, <1>3

LEMMA FaultCounts == ASSUME TypeOK, NEW kind, Fault(kind) PROVE mishaps' \in 0 .. Mishaps
  BY DEF TypeOK, Fault

LEMMA RequestsFit ==
  ASSUME Shape,
         \/ \E s \in Sources : CreateSource(s) \/ \E force \in Forced : Retry(s, force)
         \/ ReingestWorkspace \/ EnqueueFails
  PROVE  Shape'
  <1>1. ASSUME NEW s \in Sources, CreateSource(s) \/ \E force \in Forced : Retry(s, force)
        PROVE  Shape'
    BY <1>1, OneDemandFits DEF CreateSource, Retry, Shape, TypeOK
  <1>2. ASSUME ReingestWorkspace PROVE Shape'
    <2> DEFINE all == {s \in Sources : Exists(s)}
    <2>1. PICK order \in Orders(all) : Demand(order, TRUE, Len(order)) /\ UNCHANGED mishaps
      BY <1>2 DEF ReingestWorkspace
    <2> DEFINE k == Cardinality(all)
    <2>2. k \in Nat /\ order \in [1 .. k -> Sources] /\ Len(order) = k
      BY OrderFits
    <2> HIDE DEF all, k
    <2>3. k \in 0 .. k
      BY <2>2
    <2>4. Demand(order, TRUE, k)
      BY <2>1, <2>2
    <2>5. mishaps' \in 0 .. Mishaps
      BY <2>1 DEF Shape, TypeOK
    <2>6. QED BY <2>2, <2>3, <2>4, <2>5, DemandFits
  <1>3. ASSUME EnqueueFails PROVE Shape'
    <2> DEFINE all == {s \in Sources : Exists(s)}
    <2>1. mishaps' \in 0 .. Mishaps
      BY <1>3, FaultCounts DEF EnqueueFails, Shape
    <2>2. ASSUME NEW s \in Sources, NEW force \in BOOLEAN, Demand(<<s>>, force, 0) PROVE Shape'
      BY <2>1, <2>2, OneDemandFits
    <2>3. ASSUME NEW order \in Orders(all), NEW n \in 0 .. Len(order) - 1, Demand(order, TRUE, n)
          PROVE  Shape'
      <3> DEFINE k == Cardinality(all)
      <3>1. k \in Nat /\ order \in [1 .. k -> Sources] /\ Len(order) = k
        BY OrderFits
      <3> HIDE DEF all, k
      <3>2. n \in 0 .. k
        BY <3>1
      <3>3. QED BY <2>1, <2>3, <3>1, <3>2, DemandFits
    <2>4. QED BY <1>3, <2>2, <2>3 DEF EnqueueFails
  <1>4. QED BY <1>1, <1>2, <1>3

(* The job. *)
LEMMA BeginFits == ASSUME Shape, Begin PROVE Shape'
  <1>1. Head(queue) \in Jobs /\ Tail(queue) \in Seq(Jobs)
    BY HeadTailProperties DEF Begin, Shape, TypeOK
  <1>2. Head(queue).source \in Sources /\ Head(queue) # None
    BY <1>1 DEF Jobs
  <1>3. source' \in [Sources -> SourceStates] /\ rows' \in [Sources -> [Docs -> RowStates]]
    BY <1>2 DEF Begin, Shape, TypeOK
  <1>4. QED BY <1>1, <1>2, <1>3 DEF Begin, Shape, TypeOK, PhaseFits

LEMMA BeginFailsFits == ASSUME Shape, BeginFails PROVE Shape'
  <1>1. Head(queue) \in Jobs /\ Tail(queue) \in Seq(Jobs)
    BY HeadTailProperties DEF BeginFails, Shape, TypeOK
  <1>2. Head(queue).source \in Sources
    BY <1>1 DEF Jobs
  <1>3. QED BY <1>1, <1>2 DEF BeginFails, Fault, Shape, TypeOK, PhaseFits

LEMMA RestFits ==
  ASSUME NEW listing \in Seq(Docs), NEW c PROVE FromCheckpoint(listing, c) \in Seq(Docs)
  <1>1. ASSUME NEW i \in DOMAIN listing PROVE SubSeq(listing, i + 1, Len(listing)) \in Seq(Docs)
    BY SubSeqProperties
  <1>2. QED BY <1>1 DEF FromCheckpoint

LEMMA FetchFits ==
  ASSUME Shape, NEW listing \in Feeds[Sid], phase = "fetch", Fetch(listing) PROVE Shape'
  <1>1. current \in Jobs /\ Sid \in Sources
    BY DEF Shape, TypeOK, PhaseFits, Sid, Jobs
  <1>2. listing \in Seq(Docs)
    BY <1>1
  <1>3. todo' \in Seq(Docs)
    BY <1>2, RestFits DEF Fetch
  <1>4. Range(listing) \subseteq Docs
    BY <1>2 DEF Range
  <1>5. QED BY <1>1, <1>3, <1>4 DEF Fetch, Shape, TypeOK, PhaseFits

LEMMA BeginGoneFits == ASSUME Shape, BeginGone PROVE Shape'
  BY DEF Shape, TypeOK, PhaseFits, BeginGone

LEMMA FetchFailsFits == ASSUME Shape, FetchFails PROVE Shape'
  BY DEF Shape, TypeOK, PhaseFits, FetchFails, SetStatus, Exists, Sid, EndJob, Jobs

LEMMA RaiseOutsideTryFits == ASSUME Shape, RaiseOutsideTry PROVE Shape'
  BY DEF Shape, TypeOK, PhaseFits, RaiseOutsideTry, EndJob, Fault, Sid, Jobs

LEMMA LoadFailsFits == ASSUME Shape, LoadFails PROVE Shape'
  BY DEF Shape, TypeOK, PhaseFits, LoadFails, FailSource, SetStatus, Exists, Sid, EndJob,
         Fault, Jobs

LEMMA StartDocFits == ASSUME Shape, StartDoc PROVE Shape'
  BY DEF Shape, TypeOK, PhaseFits, StartDoc, Reach, Sid, Jobs

LEMMA StartDocFailsFits == ASSUME Shape, StartDocFails PROVE Shape'
  BY DEF Shape, TypeOK, PhaseFits, StartDocFails, Reach, Fault

(* A document. *)
LEMMA SkipFits == ASSUME Shape, NEW d \in Docs, Skip(d) PROVE Shape'
  BY DEF Shape, TypeOK, PhaseFits, Skip, Reach

LEMMA MergePaperFits == ASSUME Shape, NEW d \in Docs, MergePaper(d) PROVE Shape'
  BY DEF Shape, TypeOK, PhaseFits, MergePaper, Reach, Sid, Jobs

LEMMA DropChunksFits == ASSUME Shape, NEW d \in Docs, DropChunks(d) PROVE Shape'
  BY DEF Shape, TypeOK, PhaseFits, DropChunks, Reach, DeleteChunksOf

LEMMA AddChunksFits == ASSUME Shape, NEW d \in Docs, AddChunks(d) PROVE Shape'
  BY DEF Shape, TypeOK, PhaseFits, AddChunks, Reach, AddChunksOf, Sid, Jobs

LEMMA LinkFits == ASSUME Shape, NEW d \in Docs, NEW found \in BOOLEAN, Link(d, found) PROVE Shape'
  BY DEF Shape, TypeOK, PhaseFits, Link, Reach, Sid, Jobs

LEMMA DocFailsFits == ASSUME Shape, NEW d \in Docs, DocFails(d) PROVE Shape'
  BY DEF Shape, TypeOK, PhaseFits, DocFails, Reach

LEMMA SaveCheckpointFits == ASSUME Shape, NEW d \in Docs, SaveCheckpoint(d) PROVE Shape'
  BY DEF Shape, TypeOK, PhaseFits, SaveCheckpoint, Reach, Sid, Jobs

LEMMA SaveCheckpointFailsFits == ASSUME Shape, NEW d \in Docs, SaveCheckpointFails(d) PROVE Shape'
  BY DEF Shape, TypeOK, PhaseFits, SaveCheckpointFails, Reach, Fault

LEMMA RecordDocFits == ASSUME Shape, NEW d \in Docs, RecordDoc(d) PROVE Shape'
  BY DEF Shape, TypeOK, PhaseFits, RecordDoc, Reach, Sid, Jobs

LEMMA RecordDocFailsFits == ASSUME Shape, NEW d \in Docs, RecordDocFails(d) PROVE Shape'
  BY DEF Shape, TypeOK, PhaseFits, RecordDocFails, Reach, Fault

LEMMA FlushFits == ASSUME Shape, Flush PROVE Shape'
  BY DEF Shape, TypeOK, PhaseFits, Flush, Sid, Jobs

LEMMA FlushFailsFits == ASSUME Shape, FlushFails PROVE Shape'
  BY DEF Shape, TypeOK, PhaseFits, FlushFails, Fault

LEMMA VerdictFits == ASSUME Shape, Verdict PROVE Shape'
  BY DEF Shape, TypeOK, PhaseFits, Verdict, SetStatus, Exists, Outcome, Sid, EndJob, Jobs

LEMMA VerdictFailsFits == ASSUME Shape, VerdictFails PROVE Shape'
  BY DEF Shape, TypeOK, PhaseFits, VerdictFails, FailSource, SetStatus, Exists, Sid, EndJob,
         Fault, Jobs

LEMMA CrashFits == ASSUME Shape, Crash PROVE Shape'
  BY DEF Shape, TypeOK, PhaseFits, Crash, EndJob, Sid, Fault, Jobs

LEMMA RebootFits == ASSUME Shape, Reboot PROVE Shape'
  BY DEF Shape, TypeOK, PhaseFits, Reboot, ResetToError, Stuck, Fault

(* Housekeeping. *)
LEMMA SweepStuckFits == ASSUME Shape, NEW stuck \in SUBSET Sources, SweepStuck(stuck) PROVE Shape'
  BY DEF Shape, TypeOK, PhaseFits, SweepStuck, ResetToError, Stuck

LEMMA DeleteGraphFits == ASSUME Shape, NEW s \in Sources, DeleteGraph(s) PROVE Shape'
  BY DEF Shape, TypeOK, PhaseFits, DeleteGraph, Named

LEMMA DeleteChunksFits == ASSUME Shape, DeleteChunks PROVE Shape'
  BY DEF Shape, TypeOK, PhaseFits, DeleteChunks, DeleteChunksOf, DeleteChunksFrom

LEMMA DeleteChunksFailsFits == ASSUME Shape, DeleteChunksFails PROVE Shape'
  BY DEF Shape, TypeOK, PhaseFits, DeleteChunksFails, Fault

LEMMA DeleteRowFits == ASSUME Shape, DeleteRow PROVE Shape'
  BY DEF Shape, TypeOK, PhaseFits, DeleteRow

LEMMA CleanupScanFits == ASSUME Shape, NEW stuck \in SUBSET Sources, CleanupScan(stuck) PROVE Shape'
  BY DEF Shape, TypeOK, PhaseFits, CleanupScan, ResetToError, Stuck, Named, Fault

LEMMA CleanupPurgeFits == ASSUME Shape, CleanupPurge PROVE Shape'
  BY DEF Shape, TypeOK, PhaseFits, CleanupPurge, DeleteChunksOf, PurgeRows, Purged

LEMMA CleanupPurgeFailsFits == ASSUME Shape, CleanupPurgeFails PROVE Shape'
  <1>1. chunks' \in [Docs -> Sources \cup {None}]
    BY DEF Shape, TypeOK, CleanupPurgeFails, DeleteChunksOf
  <1>2. paper' \in [Docs -> SUBSET Sources] /\ entities' \in [Docs -> SUBSET Sources]
    BY DEF Shape, TypeOK, CleanupPurgeFails, PurgeRows, Purged
  <1>3. rows' \in [Sources -> [Docs -> RowStates]]
    BY DEF Shape, TypeOK, CleanupPurgeFails, PurgeRows
  <1>4. /\ UNCHANGED <<source, queue, requests, fetched, current, phase, todo, stage, checkpoint>>
        /\ UNCHANGED <<deleting, doomed, stranded, leftovers, listed>>
        /\ active' = None /\ mishaps' \in 0 .. Mishaps
    BY DEF Shape, TypeOK, CleanupPurgeFails, Fault
  <1>5. QED BY <1>1, <1>2, <1>3, <1>4 DEF Shape, TypeOK, PhaseFits

LEMMA NextFits == ASSUME Shape, [Next]_vars PROVE Shape'
  <1>1. ASSUME NEW d \in Docs, DocSteps(d) PROVE Shape'
    BY <1>1, SkipFits, MergePaperFits, DropChunksFits, AddChunksFits, LinkFits, DocFailsFits,
       SaveCheckpointFits, RecordDocFits DEF DocSteps
  <1>2. CASE Work
    BY <1>1, <1>2, BeginGoneFits, BeginFits, FetchFailsFits, FetchFits, StartDocFits, FlushFits,
       VerdictFits DEF Work
  <1>3. CASE Mishap
    BY <1>3, RequestsFit, BeginFailsFits, RaiseOutsideTryFits, LoadFailsFits, StartDocFailsFits, FlushFailsFits,
       VerdictFailsFits, SaveCheckpointFailsFits, RecordDocFailsFits, CrashFits, RebootFits
       DEF Mishap
  <1>4. CASE Housekeeping
    BY <1>4, SweepStuckFits, CleanupScanFits, CleanupPurgeFits, CleanupPurgeFailsFits, DeleteGraphFits, DeleteChunksFits,
       DeleteChunksFailsFits, DeleteRowFits DEF Housekeeping
  <1>5. CASE UNCHANGED vars
    BY <1>5 DEF vars, Shape, TypeOK, PhaseFits
  <1>6. QED BY <1>2, <1>3, <1>4, <1>5, RequestsFit DEF Next

(* The variables keep their types, and a job its phases. *)
THEOREM Typing == Spec => []TypeOK
  <1>1. Shape => TypeOK
    BY DEF Shape
  <1>2. QED BY <1>1, InitFits, NextFits, PTL DEF Spec

-----------------------------------------------------------------------------
(* Nothing but Begin makes a source running, and every end of its job takes *)
(* that back or strands it.                                                 *)
quiet == <<source, current, stranded>>

LEMMA QuietWorks == ASSUME RunningMeansWorking, UNCHANGED quiet PROVE RunningMeansWorking'
  BY DEF RunningMeansWorking, quiet, Sid

LEMMA DemandWorks ==
  ASSUME Shape, RunningMeansWorking, NEW order, NEW force, NEW n, Demand(order, force, n)
  PROVE  RunningMeansWorking'
  BY DEF RunningMeansWorking, Demand, Shape, TypeOK, Sid

LEMMA RequestsWork ==
  ASSUME Shape, RunningMeansWorking,
         \/ \E s \in Sources : CreateSource(s) \/ \E force \in Forced : Retry(s, force)
         \/ ReingestWorkspace \/ EnqueueFails
  PROVE  RunningMeansWorking'
  BY DemandWorks DEF CreateSource, Retry, ReingestWorkspace, EnqueueFails

LEMMA BeginWorks == ASSUME Shape, RunningMeansWorking, Begin PROVE RunningMeansWorking'
  <1>1. Head(queue) \in Jobs /\ Head(queue) # None
    BY HeadTailProperties DEF Begin, Shape, TypeOK
  <1>2. QED BY <1>1 DEF RunningMeansWorking, Begin, Shape, TypeOK, Sid, Jobs

LEMMA StatusSet ==
  ASSUME Shape, RunningMeansWorking, NEW status, status # "running", SetStatus(Sid, status),
         EndJob, stranded' = stranded
  PROVE  RunningMeansWorking'
  BY DEF RunningMeansWorking, SetStatus, Exists, EndJob, Shape, TypeOK, Sid

LEMMA StrandedWorks ==
  ASSUME Shape, RunningMeansWorking, EndJob, UNCHANGED source, stranded' = stranded \cup {Sid}
  PROVE  RunningMeansWorking'
  BY DEF RunningMeansWorking, EndJob, Sid

LEMMA BeginFailsWorks == ASSUME RunningMeansWorking, BeginFails PROVE RunningMeansWorking'
  BY DEF RunningMeansWorking, BeginFails, Sid

LEMMA ResetWorks ==
  ASSUME RunningMeansWorking, NEW stuck, ResetToError(stuck), current' = current
  PROVE  RunningMeansWorking'
  BY DEF RunningMeansWorking, ResetToError, Sid

LEMMA DeleteRowWorks == ASSUME Shape, RunningMeansWorking, DeleteRow PROVE RunningMeansWorking'
  BY DEF RunningMeansWorking, DeleteRow, Shape, TypeOK, Sid

LEMMA DocStepsAreQuiet ==
  ASSUME NEW d \in Docs, DocSteps(d) \/ SaveCheckpointFails(d) \/ RecordDocFails(d)
  PROVE  UNCHANGED quiet
  BY DEF quiet, DocSteps, Skip, MergePaper, DropChunks, AddChunks, Link, DocFails, SaveCheckpoint,
         RecordDoc, SaveCheckpointFails, RecordDocFails

LEMMA WorkWorks == ASSUME Shape, RunningMeansWorking, Work PROVE RunningMeansWorking'
  <1>1. ASSUME BeginGone \/ StartDoc \/ Flush \/ \E listing \in Feeds[Sid] : Fetch(listing)
        PROVE  UNCHANGED quiet
    BY <1>1 DEF BeginGone, StartDoc, Flush, Fetch, quiet
  <1>2. CASE FetchFails
    BY <1>2, StatusSet DEF FetchFails
  <1>3. CASE Verdict
    BY <1>3, StatusSet DEF Verdict, Outcome
  <1>4. QED BY <1>1, <1>2, <1>3, QuietWorks, BeginWorks, DocStepsAreQuiet DEF Work

LEMMA MishapsWork == ASSUME Shape, RunningMeansWorking, Mishap PROVE RunningMeansWorking'
  <1>1. CASE RaiseOutsideTry \/ Crash
    BY <1>1, StrandedWorks DEF RaiseOutsideTry, Crash
  <1>2. CASE LoadFails \/ VerdictFails
    BY <1>2, StatusSet, StrandedWorks DEF LoadFails, VerdictFails, FailSource
  <1>3. CASE StartDocFails \/ FlushFails
    BY <1>3, QuietWorks DEF StartDocFails, FlushFails, quiet
  <1>4. CASE Reboot
    BY <1>4, ResetWorks DEF Reboot
  <1>5. QED BY <1>1, <1>2, <1>3, <1>4, RequestsWork, BeginFailsWorks, DocStepsAreQuiet,
            QuietWorks DEF Mishap

LEMMA HousekeepingWorks ==
  ASSUME Shape, RunningMeansWorking, Housekeeping PROVE RunningMeansWorking'
  <1>1. ASSUME \/ CleanupPurge \/ CleanupPurgeFails \/ DeleteChunks \/ DeleteChunksFails
               \/ \E s \in Sources : DeleteGraph(s)
        PROVE  UNCHANGED quiet
    BY <1>1 DEF CleanupPurge, CleanupPurgeFails, DeleteChunks, DeleteChunksFails, DeleteGraph, quiet
  <1>2. ASSUME NEW stuck \in SUBSET Sources, SweepStuck(stuck) \/ CleanupScan(stuck)
        PROVE  RunningMeansWorking'
    BY <1>2, ResetWorks DEF SweepStuck, CleanupScan
  <1>3. QED BY <1>1, <1>2, QuietWorks, DeleteRowWorks DEF Housekeeping

(* A source runs only while a job works on it, whatever fails, is retried,  *)
(* deleted or swept: but after its job ended with the process, outside of   *)
(* _run_async's try blocks or with _fail_source failing, and after no other *)
(* end (docs/15 on source status).                                          *)
THEOREM RunningSourcesAreWorkedOn == Spec => []RunningMeansWorking
  <1>1. Init => RunningMeansWorking
    BY DEF Init, RunningMeansWorking
  <1>2. ASSUME Shape, RunningMeansWorking, [Next]_vars PROVE RunningMeansWorking'
    <2>1. CASE UNCHANGED vars
      BY <1>2, <2>1, QuietWorks DEF vars, quiet
    <2>2. QED BY <1>2, <2>1, RequestsWork, WorkWorks, MishapsWork, HousekeepingWorks DEF Next
  <1>3. QED BY <1>1, <1>2, InitFits, NextFits, PTL DEF Spec

-----------------------------------------------------------------------------
(* Where nothing is forced, deleted or cleaned up, chunks are dropped only  *)
(* of a document that has none: it passed the skip check, and its stage     *)
(* tells whether they are written again.                                    *)
NothingIsForced ==
  /\ \A i \in DOMAIN queue : ~queue[i].force
  /\ current # None => ~current.force

NothingIsTakenAway == deleting = None /\ active = None

StagesTellChunks ==
  \A d \in Docs : /\ stage[d] \in {"merged", "dropped"} => chunks[d] = None
                  /\ stage[d] \in {"embedded", "ok", "saved"} => chunks[d] # None

Kept ==
  /\ Shape
  /\ NothingIsForced /\ NothingIsTakenAway /\ StagesTellChunks
  /\ SuccessfulRowsAreSearchable /\ CheckpointIsDone

Cautious == Forced \subseteq {FALSE} /\ Faults \cap {"delete", "cleanup"} = {}

LEMMA InitKeeps == Init => Kept
  BY InitFits DEF Init, Kept, NothingIsForced, NothingIsTakenAway, StagesTellChunks,
     SuccessfulRowsAreSearchable, CheckpointIsDone

(* What leaves chunks, rows and checkpoints alone, and its job unforced. *)
LEMMA StillKept ==
  ASSUME Kept, Shape', NothingIsForced', NothingIsTakenAway',
         UNCHANGED <<chunks, rows, checkpoint>>, stage' = stage \/ stage' = NoStages
  PROVE  Kept'
  BY DEF Kept, StagesTellChunks, SuccessfulRowsAreSearchable, CheckpointIsDone

LEMMA DemandKeeps ==
  ASSUME Kept, Shape', Cautious, NEW order, NEW force, NEW n \in Nat, Demand(order, force, n)
  PROVE  Kept'
  <1> DEFINE jobs == [i \in 1 .. n |-> [source |-> order[i], force |-> force]]
  <1>1. force = FALSE
    BY DEF Demand, Cautious
  <1>2. queue' = queue \o jobs /\ queue \in Seq(Jobs)
    BY DEF Demand, Kept, Shape, TypeOK
  <1>3. Len(jobs) = n /\ \A i \in 1 .. n : ~jobs[i].force
    BY <1>1
  <1> HIDE DEF jobs
  <1>4. ASSUME NEW i \in DOMAIN queue' PROVE ~queue'[i].force
    <2>1. i \in 1 .. Len(queue) \/ (i - Len(queue) \in 1 .. n /\ queue'[i] = jobs[i - Len(queue)])
      BY <1>2, <1>3
    <2>2. i \in 1 .. Len(queue) => queue'[i] = queue[i]
      BY <1>2, <1>3
    <2>3. QED BY <1>2, <1>3, <2>1, <2>2 DEF Kept, NothingIsForced
  <1>5. NothingIsForced' /\ NothingIsTakenAway'
    BY <1>4 DEF Kept, NothingIsForced, NothingIsTakenAway, Demand
  <1>6. QED BY <1>5, StillKept DEF Demand

LEMMA RequestsKeep ==
  ASSUME Kept, Shape', Cautious,
         \/ \E s \in Sources : CreateSource(s) \/ \E force \in Forced : Retry(s, force)
         \/ ReingestWorkspace \/ EnqueueFails
  PROVE  Kept'
  <1>1. ~ReingestWorkspace
    BY DEF ReingestWorkspace, Demand, Cautious
  <1>2. ASSUME EnqueueFails
        PROVE  \E s \in Sources, force \in BOOLEAN : Demand(<<s>>, force, 0)
    BY <1>2 DEF EnqueueFails, Demand, Cautious
  <1>3. 0 \in Nat /\ 1 \in Nat
    OBVIOUS
  <1>4. QED BY <1>1, <1>2, <1>3, DemandKeeps DEF CreateSource, Retry

(* A job. *)
LEMMA TakenFromQueue ==
  ASSUME Kept, queue # <<>>
  PROVE  /\ ~Head(queue).force
         /\ \A i \in DOMAIN Tail(queue) : ~Tail(queue)[i].force
  <1>1. queue \in Seq(Jobs)
    BY DEF Kept, Shape, TypeOK
  <1>2. Head(queue) = queue[1] /\ 1 \in DOMAIN queue
    BY <1>1
  <1>3. ASSUME NEW i \in DOMAIN Tail(queue)
        PROVE  Tail(queue)[i] = queue[i + 1] /\ i + 1 \in DOMAIN queue
    BY <1>1
  <1>4. QED BY <1>2, <1>3 DEF Kept, NothingIsForced

LEMMA BeginsKeep == ASSUME Kept, Shape', BeginGone \/ Begin \/ BeginFails PROVE Kept'
  <1>1. NothingIsForced' /\ NothingIsTakenAway'
    BY TakenFromQueue DEF BeginGone, Begin, BeginFails, Kept, NothingIsForced, NothingIsTakenAway
  <1>2. CASE BeginGone \/ BeginFails
    BY <1>1, <1>2, StillKept DEF BeginGone, BeginFails
  <1>3. CASE Begin
    <2>1. StagesTellChunks' /\ CheckpointIsDone'
      BY <1>3 DEF Begin, Kept, StagesTellChunks, CheckpointIsDone
    <2>2. Head(queue).source \in Sources
      BY <1>3, HeadTailProperties DEF Begin, Kept, Shape, TypeOK, Jobs
    <2>3. SuccessfulRowsAreSearchable'
      BY <1>3, <2>2 DEF Begin, Kept, SuccessfulRowsAreSearchable, Shape, TypeOK
    <2>4. QED BY <1>1, <2>1, <2>3 DEF Kept
  <1>4. QED BY <1>2, <1>3

LEMMA EndsKeep ==
  ASSUME Kept, Shape',
         FetchFails \/ Verdict \/ RaiseOutsideTry \/ LoadFails \/ VerdictFails \/ Crash
  PROVE  Kept'
  BY StillKept DEF Kept, NothingIsForced, NothingIsTakenAway, FetchFails, Verdict, RaiseOutsideTry,
     LoadFails, VerdictFails, Crash, EndJob

LEMMA QuietStepsKeep ==
  ASSUME Kept, Shape',
         \/ \E listing \in Feeds[Sid] : Fetch(listing)
         \/ FlushFails \/ Reboot \/ \E stuck \in SUBSET Sources : SweepStuck(stuck)
  PROVE  Kept'
  BY StillKept DEF Kept, NothingIsForced, NothingIsTakenAway, Fetch, FlushFails, Reboot, SweepStuck

LEMMA FlushKeeps == ASSUME Kept, Shape', Flush PROVE Kept'
  BY DEF Flush, Kept, NothingIsForced, NothingIsTakenAway, StagesTellChunks,
         SuccessfulRowsAreSearchable, CheckpointIsDone, Shape, TypeOK

(* A document. *)
docQuiet == <<queue, current, deleting, active>>

LEMMA DocKept ==
  ASSUME Kept, Shape', UNCHANGED docQuiet, StagesTellChunks', SuccessfulRowsAreSearchable',
         CheckpointIsDone'
  PROVE  Kept'
  BY DEF Kept, NothingIsForced, NothingIsTakenAway, docQuiet

LEMMA StartsKeep == ASSUME Kept, Shape', StartDoc \/ StartDocFails PROVE Kept'
  <1>1. UNCHANGED <<docQuiet, chunks, checkpoint>>
    BY DEF StartDoc, StartDocFails, docQuiet
  <1>2. StagesTellChunks'
    BY DEF StartDoc, StartDocFails, Reach, Kept, StagesTellChunks, Shape, TypeOK
  <1>3. SuccessfulRowsAreSearchable'
    <2>1. ASSUME NEW s \in Sources, NEW d \in Docs, rows'[s][d] = "success"
          PROVE  rows[s][d] = "success"
      <3>1. rows \in [Sources -> [Docs -> RowStates]]
        BY DEF Kept, Shape, TypeOK
      <3>2. rows' = rows \/ rows' = [rows EXCEPT ![Sid][Head(todo)] = "running"]
        BY DEF StartDoc, StartDocFails
      <3>3. QED BY <2>1, <3>1, <3>2
    <2>2. QED BY <1>1, <2>1 DEF Kept, SuccessfulRowsAreSearchable
  <1>4. CheckpointIsDone'
    BY <1>1 DEF Kept, CheckpointIsDone
  <1>5. QED BY <1>1, <1>2, <1>3, <1>4, DocKept

LEMMA SkipKeeps == ASSUME Kept, Shape', NEW d \in Docs, Skip(d) PROVE Kept'
  BY DocKept DEF Skip, Skippable, HasChunks, Reach, Kept, StagesTellChunks,
     SuccessfulRowsAreSearchable, CheckpointIsDone, Shape, TypeOK, docQuiet

LEMMA MergeKeeps == ASSUME Kept, Shape', NEW d \in Docs, MergePaper(d) PROVE Kept'
  <1>1. current # None
    BY DEF Kept, Shape, TypeOK, PhaseFits, MergePaper
  <1>2. chunks[d] = None
    BY <1>1 DEF MergePaper, Skippable, HasChunks, Kept, NothingIsForced
  <1>3. QED BY <1>2, DocKept DEF MergePaper, Reach, Kept, StagesTellChunks,
               SuccessfulRowsAreSearchable, CheckpointIsDone, Shape, TypeOK, docQuiet

LEMMA DropKeeps == ASSUME Kept, Shape', NEW d \in Docs, DropChunks(d) PROVE Kept'
  <1>1. \A e \in Docs : chunks'[e] = chunks[e]
    BY DEF DropChunks, DeleteChunksOf, Kept, StagesTellChunks
  <1>2. StagesTellChunks'
    BY <1>1 DEF DropChunks, Reach, Kept, StagesTellChunks, Shape, TypeOK
  <1>3. SuccessfulRowsAreSearchable' /\ CheckpointIsDone'
    BY <1>1 DEF DropChunks, Kept, SuccessfulRowsAreSearchable, CheckpointIsDone, Shape, TypeOK
  <1>4. QED BY <1>2, <1>3, DocKept DEF DropChunks, docQuiet

LEMMA AddKeeps == ASSUME Kept, Shape', NEW d \in Docs, AddChunks(d) PROVE Kept'
  <1>1. current \in Jobs /\ Sid \in Sources /\ Sid # None
    BY DEF AddChunks, Kept, Shape, TypeOK, PhaseFits, Sid, Jobs
  <1>2. chunks'[d] # None /\ \A e \in Docs \ {d} : chunks'[e] = chunks[e]
    BY <1>1 DEF AddChunks, AddChunksOf, Kept, Shape, TypeOK
  <1>3. StagesTellChunks'
    BY <1>2 DEF AddChunks, Reach, Kept, StagesTellChunks, Shape, TypeOK
  <1>4. QED BY <1>2, <1>3, DocKept DEF AddChunks, Kept, SuccessfulRowsAreSearchable,
               CheckpointIsDone, Shape, TypeOK, docQuiet

LEMMA StageKeeps ==
  ASSUME Kept, Shape', NEW d \in Docs,
         \/ \E found \in BOOLEAN : Link(d, found)
         \/ DocFails(d) \/ SaveCheckpointFails(d) \/ RecordDocFails(d)
  PROVE  Kept'
  <1>1. UNCHANGED <<docQuiet, chunks, rows, checkpoint>>
    BY DEF Link, DocFails, SaveCheckpointFails, RecordDocFails, docQuiet
  <1>2. StagesTellChunks'
    BY DEF Link, DocFails, SaveCheckpointFails, RecordDocFails, Reach, Kept, StagesTellChunks,
           Shape, TypeOK
  <1>3. QED BY <1>1, <1>2, DocKept DEF Kept, SuccessfulRowsAreSearchable, CheckpointIsDone

LEMMA SaveKeeps == ASSUME Kept, Shape', NEW d \in Docs, SaveCheckpoint(d) PROVE Kept'
  <1>1. StagesTellChunks' /\ chunks[d] # None
    BY DEF SaveCheckpoint, Reach, Kept, StagesTellChunks, Shape, TypeOK
  <1>2. CheckpointIsDone'
    BY <1>1 DEF SaveCheckpoint, Kept, CheckpointIsDone, Shape, TypeOK
  <1>3. QED BY <1>1, <1>2, DocKept DEF SaveCheckpoint, Kept, SuccessfulRowsAreSearchable, docQuiet

LEMMA RecordKeeps == ASSUME Kept, Shape', NEW d \in Docs, RecordDoc(d) PROVE Kept'
  <1>1. StagesTellChunks'
    BY DEF RecordDoc, Reach, Kept, StagesTellChunks, Shape, TypeOK
  <1>2. SuccessfulRowsAreSearchable'
    BY DEF RecordDoc, Kept, StagesTellChunks, SuccessfulRowsAreSearchable, Shape, TypeOK
  <1>3. QED BY <1>1, <1>2, DocKept DEF RecordDoc, Kept, CheckpointIsDone, docQuiet

LEMMA HousekeepingKeeps == ASSUME Kept, Shape', Cautious, Housekeeping PROVE Kept'
  <1>1. \E stuck \in SUBSET Sources : SweepStuck(stuck)
    BY DEF Housekeeping, CleanupScan, CleanupPurge, CleanupPurgeFails, DeleteGraph, DeleteChunks,
           DeleteChunksFails, DeleteRow, Fault, Kept, NothingIsTakenAway, Cautious
  <1>2. QED BY <1>1, QuietStepsKeep

LEMMA NextKeeps == ASSUME Cautious, Kept, [Next]_vars PROVE Kept'
  <1>1. Shape'
    BY NextFits DEF Kept
  <1>2. ASSUME NEW d \in Docs, DocSteps(d) \/ SaveCheckpointFails(d) \/ RecordDocFails(d)
        PROVE  Kept'
    BY <1>1, <1>2, SkipKeeps, MergeKeeps, DropKeeps, AddKeeps, StageKeeps, SaveKeeps, RecordKeeps
       DEF DocSteps
  <1>3. CASE Work
    BY <1>1, <1>2, <1>3, BeginsKeep, EndsKeep, QuietStepsKeep, FlushKeeps, StartsKeep DEF Work
  <1>4. CASE Mishap
    BY <1>1, <1>2, <1>4, RequestsKeep, BeginsKeep, EndsKeep, QuietStepsKeep, StartsKeep DEF Mishap
  <1>5. CASE UNCHANGED vars
    BY <1>1, <1>5, StillKept DEF vars, Kept, NothingIsForced, NothingIsTakenAway
  <1>6. QED BY <1>1, <1>3, <1>4, <1>5, RequestsKeep, HousekeepingKeeps DEF Next

(* What a job row calls a success the workspace can search, for any sources *)
(* that list the same documents, and through crashes and retries: the skip  *)
(* check keeps _embed away from a document that has chunks.                 *)
THEOREM RowsAreEarned ==
  ASSUME Forced \subseteq {FALSE}, Faults \cap {"delete", "cleanup"} = {}
  PROVE  Spec => []SuccessfulRowsAreSearchable
  <1>1. Cautious
    BY DEF Cautious
  <1>2. Kept => SuccessfulRowsAreSearchable
    BY DEF Kept
  <1>3. QED BY <1>1, <1>2, InitKeeps, NextKeeps, PTL DEF Spec

(* ... and so can it the document a checkpoint names, up to which a resumed *)
(* job skips.                                                               *)
THEOREM CheckpointsAreEarned ==
  ASSUME Forced \subseteq {FALSE}, Faults \cap {"delete", "cleanup"} = {}
  PROVE  Spec => []CheckpointIsDone
  <1>1. Cautious
    BY DEF Cautious
  <1>2. Kept => CheckpointIsDone
    BY DEF Kept
  <1>3. QED BY <1>1, <1>2, InitKeeps, NextKeeps, PTL DEF Spec

-----------------------------------------------------------------------------
(* What a source lists is what its job, its rows, its checkpoint and its    *)
(* chunks are about, whatever happens.                                      *)
Documents(s) == UNION {Range(listing) : listing \in Feeds[s]}

JobIsListed ==
  /\ phase \in {"idle", "fetch"} => todo = <<>>
  /\ current # None =>
       /\ \A i \in DOMAIN todo : todo[i] \in Documents(Sid)
       /\ \A d \in Docs : stage[d] # "idle" => d \in Documents(Sid)

RowsAreListed == \A s \in Sources, d \in Docs : rows[s][d] # "none" => d \in Documents(s)

CheckpointsAreListed ==
  \A s \in Sources : checkpoint[s] # None => checkpoint[s] \in Documents(s)

ChunksAreListed == \A d \in Docs : chunks[d] # None => d \in Documents(chunks[d])

Listed == JobIsListed /\ RowsAreListed /\ CheckpointsAreListed /\ ChunksAreListed

LEMMA InitIsListed == Init => Listed
  BY DEF Init, Listed, JobIsListed, RowsAreListed, CheckpointsAreListed, ChunksAreListed, NoChunks

(* What adds nothing keeps it. *)
LEMMA StillListed ==
  ASSUME Shape, Shape', Listed,
         UNCHANGED <<current, phase, todo, stage>> \/ EndJob,
         \A s \in Sources, d \in Docs : rows'[s][d] \in {rows[s][d], "none"},
         \A s \in Sources : checkpoint'[s] \in {checkpoint[s], None},
         \A d \in Docs : chunks'[d] \in {chunks[d], None}
  PROVE  Listed'
  <1>1. JobIsListed'
    <2>1. CASE UNCHANGED <<current, phase, todo, stage>>
      BY <2>1 DEF Listed, JobIsListed, Sid
    <2>2. CASE EndJob
      BY <2>2 DEF EndJob, JobIsListed
    <2>3. QED BY <2>1, <2>2
  <1>2. RowsAreListed' /\ CheckpointsAreListed' /\ ChunksAreListed'
    BY DEF Listed, RowsAreListed, CheckpointsAreListed, ChunksAreListed
  <1>3. QED BY <1>1, <1>2 DEF Listed

LEMMA SameStoresListed ==
  ASSUME Shape, Shape', Listed, UNCHANGED <<rows, checkpoint, chunks>>,
         UNCHANGED <<current, phase, todo, stage>> \/ EndJob
  PROVE  Listed'
  BY StillListed

LEMMA RestIsListed ==
  ASSUME NEW listing \in Seq(Docs), NEW c, NEW i \in DOMAIN FromCheckpoint(listing, c)
  PROVE  FromCheckpoint(listing, c)[i] \in Range(listing)
  <1>1. ASSUME NEW j \in DOMAIN listing, NEW k \in DOMAIN SubSeq(listing, j + 1, Len(listing))
        PROVE  SubSeq(listing, j + 1, Len(listing))[k] \in Range(listing)
    <2>1. k + j \in DOMAIN listing /\ SubSeq(listing, j + 1, Len(listing))[k] = listing[k + j]
      BY <1>1
    <2>2. QED BY <2>1 DEF Range
  <1>2. CASE c = None
    BY <1>2 DEF FromCheckpoint, Range
  <1>3. CASE c # None /\ \E j \in DOMAIN listing : listing[j] = c
    <2>1. (CHOOSE j \in DOMAIN listing : listing[j] = c) \in DOMAIN listing
      BY <1>3
    <2>2. QED BY <1>1, <1>3, <2>1 DEF FromCheckpoint
  <1>4. CASE c # None /\ ~\E j \in DOMAIN listing : listing[j] = c
    BY <1>4 DEF FromCheckpoint
  <1>5. QED BY <1>2, <1>3, <1>4

LEMMA BeginListed == ASSUME Shape, Shape', Listed, Begin PROVE Listed'
  <1>1. current = None /\ current' # None /\ phase' = "fetch"
    BY DEF Begin, Shape, PhaseFits
  <1>2. todo = <<>> /\ \A d \in Docs : stage[d] = "idle"
    BY <1>1 DEF Shape, PhaseFits, Listed, JobIsListed
  <1>3. JobIsListed'
    BY <1>2 DEF Begin, JobIsListed
  <1>4. RowsAreListed'
    BY DEF Begin, Listed, RowsAreListed, Shape, TypeOK
  <1>5. QED BY <1>3, <1>4 DEF Begin, Listed, CheckpointsAreListed, ChunksAreListed

LEMMA FetchListed ==
  ASSUME Shape, Shape', Listed, phase = "fetch", NEW listing \in Feeds[Sid], Fetch(listing)
  PROVE  Listed'
  <1>1. current \in Jobs /\ Sid \in Sources /\ current' = current
    BY DEF Shape, TypeOK, PhaseFits, Sid, Jobs, Fetch
  <1>2. listing \in Seq(Docs)
    BY <1>1
  <1>3. \A i \in DOMAIN todo' : todo'[i] \in Documents(Sid)
    BY <1>1, <1>2, RestIsListed DEF Fetch, Documents
  <1>4. JobIsListed'
    BY <1>1, <1>3 DEF Fetch, Shape, PhaseFits, JobIsListed, Sid
  <1>5. QED BY <1>4 DEF Fetch, Listed, RowsAreListed, CheckpointsAreListed, ChunksAreListed

LEMMA StartListed == ASSUME Shape, Shape', Listed, StartDoc \/ StartDocFails PROVE Listed'
  <1>1. current \in Jobs /\ Sid \in Sources /\ current' = current /\ phase = "docs"
        /\ phase' = "docs" /\ todo # <<>> /\ todo \in Seq(Docs)
    BY DEF StartDoc, StartDocFails, Shape, TypeOK, PhaseFits, Sid, Jobs
  <1>2. Head(todo) \in Docs /\ Head(todo) \in Documents(Sid)
    BY <1>1 DEF Listed, JobIsListed
  <1>3. ASSUME NEW i \in DOMAIN todo' PROVE todo'[i] \in Documents(Sid)
    <2>1. todo' = Tail(todo)
      BY DEF StartDoc, StartDocFails
    <2>2. i + 1 \in DOMAIN todo /\ todo'[i] = todo[i + 1]
      BY <1>1, <2>1
    <2>3. QED BY <1>1, <2>2 DEF Listed, JobIsListed
  <1>4. \A d \in Docs : stage'[d] # "idle" => d \in Documents(Sid)
    BY <1>1, <1>2 DEF StartDoc, StartDocFails, Reach, Listed, JobIsListed, Shape, TypeOK
  <1>5. JobIsListed'
    BY <1>1, <1>3, <1>4 DEF JobIsListed, Sid
  <1>6. ASSUME NEW s \in Sources, NEW d \in Docs, rows'[s][d] # "none" PROVE d \in Documents(s)
    <2>1. rows' = rows \/ rows' = [rows EXCEPT ![Sid][Head(todo)] = "running"]
      BY DEF StartDoc, StartDocFails
    <2>2. rows[s][d] # "none" \/ (s = Sid /\ d = Head(todo))
      BY <1>6, <2>1 DEF Shape, TypeOK
    <2>3. QED BY <1>2, <2>2 DEF Listed, RowsAreListed
  <1>7. QED
    BY <1>5, <1>6 DEF StartDoc, StartDocFails, Listed, RowsAreListed, CheckpointsAreListed,
       ChunksAreListed

(* Every step of a document: its stage is past idle. *)
LEMMA DocListed ==
  ASSUME Shape, Shape', Listed, NEW d \in Docs,
         DocSteps(d) \/ SaveCheckpointFails(d) \/ RecordDocFails(d)
  PROVE  Listed'
  <1>1. stage[d] # "idle" /\ UNCHANGED <<current, phase, todo>>
        /\ \E st \in Stages : Reach(d, st)
    BY DEF DocSteps, Skip, MergePaper, DropChunks, AddChunks, Link, DocFails, SaveCheckpoint,
           RecordDoc, SaveCheckpointFails, RecordDocFails
  <1>2. current \in Jobs /\ Sid \in Sources
    BY <1>1 DEF Shape, TypeOK, PhaseFits, Sid, Jobs
  <1>3. d \in Documents(Sid)
    BY <1>1, <1>2 DEF Listed, JobIsListed
  <1>4. JobIsListed'
    BY <1>1, <1>3 DEF Listed, JobIsListed, Reach, Shape, TypeOK, Sid
  <1>5. RowsAreListed'
    <2>1. CASE rows' = rows
      BY <2>1 DEF Listed, RowsAreListed
    <2>2. CASE RecordDoc(d)
      BY <1>2, <1>3, <2>2 DEF RecordDoc, Listed, RowsAreListed, Shape, TypeOK
    <2>3. QED
      BY <2>1, <2>2 DEF DocSteps, Skip, MergePaper, DropChunks, AddChunks, Link, DocFails,
         SaveCheckpoint, SaveCheckpointFails, RecordDocFails
  <1>6. CheckpointsAreListed'
    <2>1. CASE checkpoint' = checkpoint
      BY <2>1 DEF Listed, CheckpointsAreListed
    <2>2. CASE SaveCheckpoint(d)
      BY <1>2, <1>3, <2>2 DEF SaveCheckpoint, Listed, CheckpointsAreListed, Shape, TypeOK
    <2>3. QED
      BY <2>1, <2>2 DEF DocSteps, Skip, MergePaper, DropChunks, AddChunks, Link, DocFails,
         RecordDoc, SaveCheckpointFails, RecordDocFails
  <1>7. ChunksAreListed'
    <2>1. CASE \A e \in Docs : chunks'[e] \in {chunks[e], None}
      BY <2>1 DEF Listed, ChunksAreListed
    <2>2. CASE AddChunks(d)
      BY <1>2, <1>3, <2>2 DEF AddChunks, AddChunksOf, Listed, ChunksAreListed, Shape, TypeOK
    <2>3. QED
      BY <2>1, <2>2 DEF DocSteps, Skip, MergePaper, DropChunks, DeleteChunksOf, Link, DocFails,
         RecordDoc, SaveCheckpoint, SaveCheckpointFails, RecordDocFails
  <1>8. QED BY <1>4, <1>5, <1>6, <1>7 DEF Listed

LEMMA FlushListed == ASSUME Shape, Shape', Listed, Flush \/ FlushFails PROVE Listed'
  <1>1. JobIsListed'
    BY DEF Flush, FlushFails, Listed, JobIsListed, Sid
  <1>2. CheckpointsAreListed'
    BY DEF Flush, FlushFails, Listed, CheckpointsAreListed, Shape, TypeOK
  <1>3. QED BY <1>1, <1>2 DEF Flush, FlushFails, Listed, RowsAreListed, ChunksAreListed

LEMMA HousekeepingListed == ASSUME Shape, Shape', Listed, Housekeeping PROVE Listed'
  <1>1. UNCHANGED <<current, phase, todo, stage>>
    BY DEF Housekeeping, SweepStuck, CleanupScan, CleanupPurge, CleanupPurgeFails, DeleteGraph,
           DeleteChunks, DeleteChunksFails, DeleteRow
  <1>2. CASE CleanupPurge \/ CleanupPurgeFails
    <2>1. \A s \in Sources, d \in Docs : rows'[s][d] \in {rows[s][d], "none"}
      BY <1>2 DEF CleanupPurge, CleanupPurgeFails, PurgeRows, Shape, TypeOK
    <2>2. \A d \in Docs : chunks'[d] \in {chunks[d], None}
      BY <1>2 DEF CleanupPurge, CleanupPurgeFails, DeleteChunksOf, Shape, TypeOK
    <2>3. QED BY <1>1, <1>2, <2>1, <2>2, StillListed DEF CleanupPurge, CleanupPurgeFails
  <1>3. CASE DeleteChunks
    <2>1. \A d \in Docs : chunks'[d] \in {chunks[d], None}
      BY <1>3 DEF DeleteChunks, DeleteChunksOf, DeleteChunksFrom
    <2>2. QED BY <1>1, <1>3, <2>1, StillListed DEF DeleteChunks
  <1>4. CASE DeleteRow
    <2>1. /\ \A s \in Sources, d \in Docs : rows'[s][d] \in {rows[s][d], "none"}
          /\ \A s \in Sources : checkpoint'[s] \in {checkpoint[s], None}
      BY <1>4 DEF DeleteRow, Shape, TypeOK
    <2>2. QED BY <1>1, <1>4, <2>1, StillListed DEF DeleteRow
  <1>5. CASE UNCHANGED <<rows, checkpoint, chunks>>
    BY <1>1, <1>5, SameStoresListed
  <1>6. QED
    BY <1>2, <1>3, <1>4, <1>5 DEF Housekeeping, SweepStuck, CleanupScan, DeleteGraph,
       DeleteChunksFails

LEMMA RequestsListed ==
  ASSUME Shape, Shape', Listed,
         \/ \E s \in Sources : CreateSource(s) \/ \E force \in Forced : Retry(s, force)
         \/ ReingestWorkspace \/ EnqueueFails
  PROVE  Listed'
  BY SameStoresListed DEF CreateSource, Retry, ReingestWorkspace, EnqueueFails, Demand

LEMMA NextListed == ASSUME Shape, Listed, [Next]_vars PROVE Listed'
  <1>1. Shape'
    BY NextFits
  <1>2. ASSUME \/ BeginGone \/ BeginFails \/ FetchFails \/ Verdict \/ RaiseOutsideTry
               \/ LoadFails \/ VerdictFails \/ Crash \/ Reboot
        PROVE  Listed'
    BY <1>1, <1>2, SameStoresListed
       DEF BeginGone, BeginFails, FetchFails, Verdict, RaiseOutsideTry, LoadFails, VerdictFails, Crash, Reboot
  <1>3. CASE Work
    BY <1>1, <1>2, <1>3, BeginListed, FetchListed, StartListed, DocListed, FlushListed DEF Work
  <1>4. CASE Mishap
    BY <1>1, <1>2, <1>4, RequestsListed, StartListed, DocListed, FlushListed DEF Mishap
  <1>5. CASE UNCHANGED vars
    BY <1>1, <1>5, SameStoresListed DEF vars
  <1>6. QED BY <1>1, <1>3, <1>4, <1>5, RequestsListed, HousekeepingListed DEF Next
(* While no job runs beside them, a deletion has its source and the cleanup *)
(* the workspace to itself.                                                 *)
OneAtATime ==
  /\ current # None => deleting = None /\ active = None /\ Exists(Sid)
  /\ deleting # None => active = None /\ Exists(deleting)

Unmarked(s) == \A d \in Docs : s \notin paper[d] \cup entities[d]
Unchunked(s) == s \in leftovers \/ \A d \in Docs : chunks[d] # s

DeletionAdvances ==
  deleting # None => Unmarked(deleting) /\ (doomed = None => Unchunked(deleting))

Deletes == Shape /\ OneAtATime /\ DeletionAdvances /\ DeletedLeavesNothing

(* A source that is there goes only by the last step of its deletion. *)
NobodyGoes == \A s \in Sources : ~Exists(s)' => source'[s] = source[s]

LEMMA StatusGoesOn ==
  ASSUME Shape, NEW status \in {"error", "success"}, SetStatus(Sid, status) PROVE NobodyGoes
  BY DEF SetStatus, Exists, NobodyGoes, Shape, TypeOK

LEMMA ResetGoesOn == ASSUME NEW stuck \in SUBSET Sources, ResetToError(stuck) PROVE NobodyGoes
  BY DEF ResetToError, Exists, NobodyGoes

LEMMA RequestsGoOn ==
  ASSUME \/ \E s \in Sources : CreateSource(s) \/ \E force \in Forced : Retry(s, force)
         \/ ReingestWorkspace \/ EnqueueFails
  PROVE  NobodyGoes
  <1>1. \A order, force, n : Demand(order, force, n) => NobodyGoes
    BY DEF Demand, NobodyGoes, Exists
  <1>2. QED BY <1>1 DEF CreateSource, Retry, ReingestWorkspace, EnqueueFails

LEMMA FirstIsAJob ==
  ASSUME Shape, queue # <<>> PROVE Head(queue) \in Jobs /\ Head(queue).source \in Sources
  <1>1. Head(queue) \in Jobs
    BY HeadTailProperties DEF Shape, TypeOK
  <1>2. QED BY <1>1 DEF Jobs

LEMMA NextGoesOn == ASSUME Shape, [Next]_vars, ~DeleteRow PROVE NobodyGoes
  <1>1. ASSUME UNCHANGED source PROVE NobodyGoes
    BY <1>1 DEF NobodyGoes, Exists
  <1>2. ASSUME FetchFails \/ LoadFails \/ VerdictFails \/ Verdict PROVE NobodyGoes
    BY <1>1, <1>2, StatusGoesOn DEF FetchFails, LoadFails, VerdictFails, FailSource, Verdict, Outcome
  <1>3. ASSUME Begin PROVE NobodyGoes
    <2>1. Head(queue).source \in Sources
      BY <1>3, FirstIsAJob DEF Begin
    <2>2. source' = [source EXCEPT ![Head(queue).source] = "running"]
      BY <1>3 DEF Begin
    <2>3. QED BY <2>1, <2>2 DEF NobodyGoes, Exists, Shape, TypeOK
  <1>4. ASSUME NEW d \in Docs, DocSteps(d) \/ SaveCheckpointFails(d) \/ RecordDocFails(d)
        PROVE  NobodyGoes
    BY <1>1, <1>4, DocStepsAreQuiet DEF quiet
  <1>5. CASE Work
    BY <1>1, <1>2, <1>3, <1>4, <1>5 DEF Work, BeginGone, Fetch, StartDoc, Flush
  <1>6. CASE Mishap
    BY <1>1, <1>2, <1>4, <1>6, RequestsGoOn, ResetGoesOn
       DEF Mishap, BeginFails, RaiseOutsideTry, StartDocFails, FlushFails, Crash, Reboot, Stuck
  <1>7. CASE Housekeeping
    BY <1>1, <1>7, ResetGoesOn
       DEF Housekeeping, SweepStuck, CleanupScan, CleanupPurge, CleanupPurgeFails, DeleteGraph,
           DeleteChunks, DeleteChunksFails
  <1>8. CASE UNCHANGED vars
    BY <1>1, <1>8 DEF vars
  <1>9. QED BY <1>5, <1>6, <1>7, <1>8, RequestsGoOn DEF Next

(* Only one at a time. *)
LEMMA StillAlone ==
  ASSUME Shape, OneAtATime, NobodyGoes, current' \in {current, None},
         UNCHANGED <<deleting, active>> \/ (deleting' = None /\ active' = None)
  PROVE  OneAtATime'
  <1>1. \A s \in Sources : Exists(s) => Exists(s)'
    BY DEF NobodyGoes, Exists
  <1>2. current # None => Sid \in Sources
    BY DEF Shape, TypeOK, Sid, Jobs
  <1>3. current' # None => Sid' = Sid
    BY DEF Sid
  <1>4. deleting # None => deleting \in Sources
    BY DEF Shape, TypeOK
  <1>5. current' # None => deleting' = None /\ active' = None /\ Exists(Sid)'
    BY <1>1, <1>2, <1>3 DEF OneAtATime, Exists
  <1>6. deleting' # None => active' = None /\ Exists(deleting)'
    BY <1>1, <1>4 DEF OneAtATime, Exists
  <1>7. QED BY <1>5, <1>6 DEF OneAtATime

LEMMA BeginsAlone ==
  ASSUME Shape, OneAtATime, Begin, "busy" \notin Faults PROVE OneAtATime'
  <1>1. Head(queue).source \in Sources
    BY FirstIsAJob DEF Begin
  <1>2. current' = Head(queue) /\ source' = [source EXCEPT ![Head(queue).source] = "running"]
        /\ deleting' = None /\ active' = None
    BY DEF Begin
  <1>3. Sid' = Head(queue).source
    BY <1>2 DEF Sid
  <1>4. source'[Sid'] = "running"
    BY <1>1, <1>2, <1>3 DEF Shape, TypeOK
  <1>5. QED BY <1>2, <1>4 DEF OneAtATime, Exists

LEMMA WorksAlone ==
  ASSUME NEW d \in Docs, DocSteps(d) \/ SaveCheckpointFails(d) \/ RecordDocFails(d)
  PROVE  UNCHANGED <<current, deleting, active>>
  BY DEF DocSteps, Skip, MergePaper, DropChunks, AddChunks, Link, DocFails, SaveCheckpoint,
         RecordDoc, SaveCheckpointFails, RecordDocFails

LEMMA HousekeepingAlone ==
  ASSUME Shape, OneAtATime, Housekeeping, "busy" \notin Faults PROVE OneAtATime'
  <1>1. CASE DeleteRow
    BY <1>1 DEF DeleteRow, OneAtATime
  <1>2. ASSUME ~DeleteRow PROVE NobodyGoes
    BY <1>2, NextGoesOn DEF Next
  <1>3. ASSUME NEW s \in Sources, DeleteGraph(s) PROVE OneAtATime'
    BY <1>3 DEF DeleteGraph, OneAtATime, Exists
  <1>4. ASSUME NEW stuck \in SUBSET Sources, CleanupScan(stuck) PROVE OneAtATime'
    BY <1>4 DEF CleanupScan, OneAtATime
  <1>5. ASSUME CleanupPurge \/ CleanupPurgeFails PROVE OneAtATime'
    BY <1>5 DEF CleanupPurge, CleanupPurgeFails, OneAtATime, Exists, Sid
  <1>6. CASE UNCHANGED <<current, deleting, active>> /\ ~DeleteRow
    BY <1>2, <1>6, StillAlone
  <1>7. QED
    BY <1>1, <1>3, <1>4, <1>5, <1>6
       DEF Housekeeping, SweepStuck, DeleteChunks, DeleteChunksFails, DeleteRow

LEMMA NextAlone ==
  ASSUME Shape, OneAtATime, [Next]_vars, "busy" \notin Faults PROVE OneAtATime'
  <1>1. ASSUME ~Housekeeping, ~Begin PROVE OneAtATime'
    <2>1. NobodyGoes
      BY <1>1, NextGoesOn DEF Housekeeping
    <2>2. CASE UNCHANGED <<current, deleting, active>>
      BY <2>1, <2>2, StillAlone
    <2>3. CASE EndJob /\ UNCHANGED <<deleting, active>>
      BY <2>1, <2>3, StillAlone DEF EndJob
    <2>4. CASE Reboot
      BY <2>1, <2>4, StillAlone DEF Reboot
    <2>5. CASE Work
      BY <1>1, <2>2, <2>3, <2>5, WorksAlone
         DEF Work, BeginGone, FetchFails, Fetch, StartDoc, Flush, Verdict
    <2>6. CASE Mishap
      BY <2>2, <2>3, <2>4, <2>6, WorksAlone
         DEF Mishap, EnqueueFails, BeginFails, Demand, RaiseOutsideTry, LoadFails, StartDocFails,
             FlushFails, VerdictFails, Crash
    <2>7. QED
      BY <1>1, <2>2, <2>5, <2>6
         DEF Next, vars, CreateSource, Retry, ReingestWorkspace, Demand
  <1>2. QED BY <1>1, BeginsAlone, HousekeepingAlone

(* The stores: what takes marks away, or adds those of the running job, *)
(* whose source is there and not being deleted.                        *)
StoresShrink ==
  /\ \A d \in Docs : /\ paper'[d] \subseteq paper[d] /\ entities'[d] \subseteq entities[d]
                     /\ chunks'[d] \in {chunks[d], None}
  /\ leftovers \subseteq leftovers'

LEMMA ShrinkingDeletes ==
  ASSUME Deletes, Shape', OneAtATime', NobodyGoes, StoresShrink,
         UNCHANGED <<deleting, doomed>> \/ deleting' = None
  PROVE  Deletes'
  <1>1. \A s \in Sources : Unmarked(s) => Unmarked(s)'
    BY DEF Unmarked, StoresShrink
  <1>2. \A s \in Sources : Unchunked(s) => Unchunked(s)'
    BY DEF Unchunked, StoresShrink
  <1>3. deleting' # None => deleting' = deleting /\ doomed' = doomed /\ deleting \in Sources
    BY DEF Deletes, Shape, TypeOK
  <1>4. DeletionAdvances'
    BY <1>1, <1>2, <1>3 DEF Deletes, DeletionAdvances, Unmarked, Unchunked
  <1>5. DeletedLeavesNothing'
    <2>1. ASSUME NEW s \in Sources, source'[s] = "deleted" PROVE source[s] = "deleted"
      BY <2>1 DEF NobodyGoes, Exists
    <2>2. QED BY <2>1 DEF Deletes, DeletedLeavesNothing, StoresShrink
  <1>6. QED BY <1>4, <1>5 DEF Deletes

LEMMA MarkingDeletes ==
  ASSUME Deletes, Shape', OneAtATime', NobodyGoes, current # None,
         UNCHANGED <<source, deleting, doomed, leftovers>>,
         \A d \in Docs : /\ paper'[d] \subseteq paper[d] \cup {Sid}
                         /\ entities'[d] \subseteq entities[d] \cup {Sid}
                         /\ chunks'[d] \in {chunks[d], None, Sid}
  PROVE  Deletes'
  <1>1. deleting' = None /\ Exists(Sid) /\ Sid \in Sources
    BY DEF Deletes, OneAtATime, Shape, TypeOK, Sid, Jobs
  <1>2. DeletedLeavesNothing'
    <2>1. ASSUME NEW s \in Sources, source'[s] = "deleted" PROVE s # Sid
      BY <1>1, <2>1 DEF Exists
    <2>2. ASSUME NEW s \in Sources, source'[s] = "deleted", NEW d \in Docs
          PROVE  s \notin paper'[d] \cup entities'[d] /\ (chunks'[d] # s \/ s \in leftovers')
      <3>1. s # Sid /\ source[s] = "deleted" /\ s # None
        BY <2>1, <2>2
      <3>2. s \notin paper[d] \cup entities[d] /\ (chunks[d] # s \/ s \in leftovers)
        BY <3>1 DEF Deletes, DeletedLeavesNothing
      <3>3. QED BY <3>1, <3>2
    <2>3. QED BY <2>2 DEF DeletedLeavesNothing
  <1>3. QED BY <1>1, <1>2 DEF Deletes, DeletionAdvances

LEMMA DocDeletes ==
  ASSUME Deletes, Shape', OneAtATime', NobodyGoes, NEW d \in Docs,
         DocSteps(d) \/ SaveCheckpointFails(d) \/ RecordDocFails(d)
  PROVE  Deletes'
  <1>1. UNCHANGED <<source, deleting, doomed, leftovers>> /\ stage[d] # "idle"
    BY DEF DocSteps, Skip, MergePaper, DropChunks, AddChunks, Link, DocFails, SaveCheckpoint,
           RecordDoc, SaveCheckpointFails, RecordDocFails
  <1>2. current # None
    BY <1>1 DEF Deletes, Shape, PhaseFits
  <1>3. CASE UNCHANGED storeVars
    BY <1>1, <1>3, ShrinkingDeletes DEF StoresShrink
  <1>4. CASE MergePaper(d) \/ \E found \in BOOLEAN : Link(d, found)
    <2>1. UNCHANGED chunks
      BY <1>4 DEF MergePaper, Link
    <2>2. \A e \in Docs : /\ paper'[e] \subseteq paper[e] \cup {Sid}
                         /\ entities'[e] \subseteq entities[e] \cup {Sid}
      <3>1. paper \in [Docs -> SUBSET Sources] /\ entities \in [Docs -> SUBSET Sources]
        BY DEF Deletes, Shape, TypeOK
      <3>2. CASE MergePaper(d)
        BY <3>1, <3>2 DEF MergePaper
      <3>3. ASSUME NEW found \in BOOLEAN, Link(d, found)
            PROVE  \A e \in Docs : /\ paper'[e] \subseteq paper[e] \cup {Sid}
                                   /\ entities'[e] \subseteq entities[e] \cup {Sid}
        BY <3>1, <3>3 DEF Link
      <3>4. QED BY <1>4, <3>2, <3>3
    <2>3. QED BY <1>1, <1>2, <2>1, <2>2, MarkingDeletes
  <1>5. CASE DropChunks(d)
    BY <1>1, <1>5, ShrinkingDeletes DEF DropChunks, DeleteChunksOf, StoresShrink
  <1>6. CASE AddChunks(d)
    BY <1>1, <1>2, <1>6, MarkingDeletes DEF AddChunks, AddChunksOf, Deletes, Shape, TypeOK
  <1>7. QED
    BY <1>3, <1>4, <1>5, <1>6
       DEF DocSteps, Skip, DocFails, SaveCheckpoint, RecordDoc, SaveCheckpointFails,
           RecordDocFails

LEMMA DeleteGraphDeletes ==
  ASSUME Deletes, Shape', OneAtATime', NobodyGoes, NEW s \in Sources, DeleteGraph(s)
  PROVE  Deletes'
  <1>1. deleting' = s /\ doomed' # None
    BY NoneAssumption DEF DeleteGraph, Named
  <1>2. Unmarked(s)'
    BY DEF DeleteGraph, Unmarked
  <1>3. DeletedLeavesNothing'
    BY DEF DeleteGraph, Deletes, DeletedLeavesNothing
  <1>4. DeletionAdvances'
    BY <1>1, <1>2 DEF DeletionAdvances, Unmarked
  <1>5. QED BY <1>3, <1>4 DEF Deletes

LEMMA DeleteChunksDeletes ==
  ASSUME Deletes, Shape', OneAtATime', DeleteChunks \/ DeleteChunksFails PROVE Deletes'
  <1>1. UNCHANGED <<source, paper, entities, deleting>> /\ deleting \in Sources
    BY DEF DeleteChunks, DeleteChunksFails, Deletes, Shape, TypeOK
  <1>2. \A d \in Docs : chunks'[d] \in {chunks[d], None}
    BY DEF DeleteChunks, DeleteChunksFails, DeleteChunksOf, DeleteChunksFrom, Deletes, Shape,
           TypeOK
  <1>3. leftovers \subseteq leftovers'
    BY DEF DeleteChunks, DeleteChunksFails
  <1>4. DeletedLeavesNothing'
    BY <1>1, <1>2, <1>3 DEF Deletes, DeletedLeavesNothing
  <1>5. Unchunked(deleting)'
    BY <1>1 DEF DeleteChunks, DeleteChunksFails, DeleteChunksOf, DeleteChunksFrom, Unchunked
  <1>6. DeletionAdvances'
    BY <1>1, <1>5 DEF Deletes, DeletionAdvances, Unmarked, Unchunked, DeleteChunks,
       DeleteChunksFails
  <1>7. QED BY <1>4, <1>6 DEF Deletes

LEMMA DeleteRowDeletes == ASSUME Deletes, Shape', OneAtATime', DeleteRow PROVE Deletes'
  <1>1. Unmarked(deleting) /\ Unchunked(deleting) /\ deleting \in Sources
    BY DEF DeleteRow, Deletes, DeletionAdvances, Shape, TypeOK
  <1>2. DeletedLeavesNothing'
    BY <1>1 DEF DeleteRow, Deletes, DeletedLeavesNothing, Unmarked, Unchunked, Shape, TypeOK
  <1>3. QED BY <1>2 DEF DeleteRow, Deletes, DeletionAdvances

LEMMA NextDeletes == ASSUME Deletes, [Next]_vars, "busy" \notin Faults PROVE Deletes'
  <1>1. Shape' /\ OneAtATime'
    BY NextFits, NextAlone DEF Deletes
  <1>2. ASSUME UNCHANGED <<storeVars, deleting, doomed, leftovers>>, ~DeleteRow PROVE Deletes'
    BY <1>1, <1>2, NextGoesOn, ShrinkingDeletes DEF StoresShrink, Deletes
  <1>3. CASE Reboot
    <2>1. NobodyGoes
      BY <1>3, ResetGoesOn DEF Reboot, Stuck
    <2>2. QED BY <1>1, <1>3, <2>1, ShrinkingDeletes DEF Reboot, StoresShrink
  <1>4. CASE CleanupPurge \/ CleanupPurgeFails
    <2>1. StoresShrink
      BY <1>4 DEF CleanupPurge, CleanupPurgeFails, PurgeRows, StoresShrink, DeleteChunksOf, Purged
    <2>2. ~DeleteRow
      BY <1>4 DEF CleanupPurge, CleanupPurgeFails, DeleteRow, Deletes, OneAtATime
    <2>3. QED BY <1>1, <1>4, <2>1, <2>2, NextGoesOn, ShrinkingDeletes
              DEF CleanupPurge, CleanupPurgeFails, Deletes
  <1>5. ASSUME NEW d \in Docs, DocSteps(d) \/ SaveCheckpointFails(d) \/ RecordDocFails(d)
        PROVE  Deletes'
    <2>1. ~DeleteRow
      BY <1>5, DocStepsAreQuiet, WorksAlone DEF DeleteRow
    <2>2. QED BY <1>1, <1>5, <2>1, NextGoesOn, DocDeletes DEF Deletes
  <1>6. ASSUME NEW s \in Sources, DeleteGraph(s) PROVE Deletes'
    <2>1. ~DeleteRow
      BY <1>6 DEF DeleteGraph, DeleteRow
    <2>2. QED BY <1>1, <1>6, <2>1, NextGoesOn, DeleteGraphDeletes DEF Deletes
  <1>7. CASE DeleteChunks \/ DeleteChunksFails
    BY <1>1, <1>7, DeleteChunksDeletes
  <1>8. CASE DeleteRow
    BY <1>1, <1>8, DeleteRowDeletes
  <1>9. CASE Work /\ ~DeleteRow
    BY <1>2, <1>5, <1>9
       DEF Work, BeginGone, Begin, FetchFails, Fetch, StartDoc, Flush, Verdict
  <1>10. CASE Mishap /\ ~DeleteRow
    BY <1>2, <1>3, <1>5, <1>10
       DEF Mishap, EnqueueFails, BeginFails, Demand, RaiseOutsideTry, LoadFails, StartDocFails,
           FlushFails, VerdictFails, Crash
  <1>11. CASE Housekeeping /\ ~DeleteRow
    BY <1>2, <1>4, <1>6, <1>7, <1>11 DEF Housekeeping, SweepStuck, CleanupScan
  <1>12. QED
    BY <1>2, <1>8, <1>9, <1>10, <1>11
       DEF Next, vars, CreateSource, Retry, ReingestWorkspace, Demand

(* A deleted source leaves nothing of its own behind, whatever is queued    *)
(* for it, over restarts of the API and of the worker and failures of the   *)
(* vector store (save the chunks that one kept), while no job runs beside   *)
(* the deletion.                                                            *)
THEOREM DeletionIsComplete ==
  ASSUME "busy" \notin Faults PROVE Spec => []DeletedLeavesNothing
  <1>1. Init => Deletes
    BY InitFits DEF Init, Deletes, OneAtATime, DeletionAdvances, DeletedLeavesNothing
  <1>2. Deletes => DeletedLeavesNothing
    BY DEF Deletes
  <1>3. QED BY <1>1, <1>2, NextDeletes, PTL DEF Spec

-----------------------------------------------------------------------------
(* What the cleanup spares belongs to a source that is still there when it  *)
(* purges: nothing is deleted under it.  And what job rows name by then is   *)
(* what they named when it scanned: no job runs beside it.                   *)
ActiveAreClaimed ==
  active # None => \A d \in active : \E s \in Sources : Exists(s) /\ d \in Documents(s)

NamedAreActive ==
  active # None => \A s \in Sources : Exists(s) => Named(s) \subseteq active

NewHaveNoRows == \A s \in Sources : source[s] = "absent" => Named(s) = {}

Cleans ==
  /\ Shape /\ OneAtATime /\ Listed
  /\ ActiveAreClaimed /\ NamedAreActive /\ NewHaveNoRows

FeedsApart ==
  \A s, t \in Sources : s # t => Documents(s) \cap Documents(t) = {}

(* No source comes back, or becomes one that was never added. *)
Onwards ==
  \A s \in Sources :
    /\ Exists(s)' => source[s] # "deleted"
    /\ source'[s] = "absent" => source[s] = "absent"

LEMMA NextGoesOnwards == ASSUME Shape, [Next]_vars PROVE Onwards
  <1>1. ASSUME UNCHANGED source PROVE Onwards
    BY <1>1 DEF Onwards, Exists
  <1>2. ASSUME NEW status \in {"error", "success"}, SetStatus(Sid, status) PROVE Onwards
    BY <1>2 DEF SetStatus, Exists, Onwards, Shape, TypeOK
  <1>3. ASSUME NEW stuck, ResetToError(stuck), stuck \subseteq Stuck PROVE Onwards
    BY <1>3 DEF ResetToError, Stuck, Exists, Onwards
  <1>4. ASSUME NEW order, NEW force, NEW n, Demand(order, force, n),
               \A s \in Range(order) \cap Sources : source[s] # "deleted"
        PROVE  Onwards
    BY <1>4 DEF Demand, Onwards, Exists
  <1>5. ASSUME NEW s \in Sources PROVE Range(<<s>>) = {s}
    BY DEF Range
  <1>6. ASSUME NEW order \in Orders({s \in Sources : Exists(s)})
        PROVE  \A s \in Range(order) : source[s] # "deleted"
    BY DEF Orders, Exists
  <1>7. ASSUME \/ \E s \in Sources : CreateSource(s) \/ \E force \in Forced : Retry(s, force)
               \/ ReingestWorkspace \/ EnqueueFails
        PROVE  Onwards
    <2>1. ASSUME NEW s \in Sources, source[s] # "deleted", NEW force, NEW n, Demand(<<s>>, force, n)
          PROVE  Onwards
      BY <1>4, <1>5, <2>1
    <2>2. ASSUME NEW order \in Orders({s \in Sources : Exists(s)}), NEW force, NEW n,
                 Demand(order, force, n)
          PROVE  Onwards
      BY <1>4, <1>6, <2>2
    <2>3. QED BY <1>7, <2>1, <2>2 DEF CreateSource, Retry, Exists, ReingestWorkspace, EnqueueFails
  <1>8. ASSUME FetchFails \/ LoadFails \/ VerdictFails \/ Verdict PROVE Onwards
    BY <1>1, <1>2, <1>8 DEF FetchFails, LoadFails, VerdictFails, FailSource, Verdict, Outcome
  <1>9. ASSUME Begin PROVE Onwards
    <2>1. Head(queue).source \in Sources
      BY <1>9, FirstIsAJob DEF Begin
    <2>2. source' = [source EXCEPT ![Head(queue).source] = "running"] /\ Exists(Head(queue).source)
      BY <1>9 DEF Begin
    <2>3. QED BY <2>1, <2>2 DEF Onwards, Exists, Shape, TypeOK
  <1>10. ASSUME NEW d \in Docs, DocSteps(d) \/ SaveCheckpointFails(d) \/ RecordDocFails(d)
         PROVE  Onwards
    BY <1>1, <1>10, DocStepsAreQuiet DEF quiet
  <1>11. CASE Work
    BY <1>1, <1>8, <1>9, <1>10, <1>11 DEF Work, BeginGone, Fetch, StartDoc, Flush
  <1>12. CASE Mishap
    BY <1>1, <1>3, <1>7, <1>8, <1>10, <1>12
       DEF Mishap, BeginFails, RaiseOutsideTry, StartDocFails, FlushFails, Crash, Reboot
  <1>13. CASE Housekeeping
    <2>1. CASE DeleteRow
      BY <2>1 DEF DeleteRow, Onwards, Exists, Shape, TypeOK
    <2>2. QED
      BY <1>1, <1>3, <1>13, <2>1
         DEF Housekeeping, SweepStuck, CleanupScan, CleanupPurge, CleanupPurgeFails, DeleteGraph,
             DeleteChunks, DeleteChunksFails
  <1>14. CASE UNCHANGED vars
    BY <1>1, <1>14 DEF vars
  <1>15. QED BY <1>7, <1>11, <1>12, <1>13, <1>14 DEF Next

(* Rows are written for the running job's source, and deleted. *)
LEMMA RowsFollowTheJob ==
  ASSUME Shape, [Next]_vars
  PROVE  \A s \in Sources : \/ rows'[s] = rows[s]
                            \/ rows'[s] = NoRows /\ (Begin \/ DeleteRow \/ active' = None)
                            \/ current # None /\ s = Sid
  <1> DEFINE Goal == \A s \in Sources :
                       \/ rows'[s] = rows[s]
                       \/ rows'[s] = NoRows /\ (Begin \/ DeleteRow \/ active' = None)
                       \/ current # None /\ s = Sid
  <1>1. rows \in [Sources -> [Docs -> RowStates]]
    BY DEF Shape, TypeOK
  <1>2. ASSUME UNCHANGED rows PROVE Goal
    BY <1>2
  <1>3. ASSUME Begin PROVE Goal
    BY <1>1, <1>3, FirstIsAJob DEF Begin
  <1>4. ASSUME StartDoc PROVE Goal
    BY <1>1, <1>4 DEF StartDoc, Shape, PhaseFits
  <1>5. ASSUME NEW d \in Docs, RecordDoc(d) PROVE Goal
    <2>1. current # None
      BY <1>5 DEF RecordDoc, Shape, PhaseFits
    <2>2. QED BY <1>1, <1>5, <2>1 DEF RecordDoc
  <1>6. ASSUME DeleteRow PROVE Goal
    BY <1>1, <1>6 DEF DeleteRow
  <1>7. ASSUME CleanupPurge \/ CleanupPurgeFails PROVE Goal
    BY <1>7 DEF CleanupPurge, CleanupPurgeFails, PurgeRows
  <1>8. ASSUME NEW d \in Docs, DocSteps(d) \/ SaveCheckpointFails(d) \/ RecordDocFails(d)
        PROVE  Goal
    BY <1>2, <1>5, <1>8 DEF DocSteps, Skip, MergePaper, DropChunks, AddChunks, Link, DocFails,
       SaveCheckpoint, SaveCheckpointFails, RecordDocFails
  <1> HIDE DEF Goal
  <1>9. ASSUME Work PROVE Goal
    BY <1>2, <1>3, <1>4, <1>8, <1>9 DEF Work, BeginGone, FetchFails, Fetch, Flush, Verdict
  <1>10. ASSUME Mishap PROVE Goal
    BY <1>2, <1>8, <1>10
       DEF Mishap, EnqueueFails, Demand, BeginFails, RaiseOutsideTry, LoadFails, StartDocFails,
           FlushFails, VerdictFails, Crash, Reboot
  <1>11. ASSUME Housekeeping PROVE Goal
    BY <1>2, <1>6, <1>7, <1>11
       DEF Housekeeping, SweepStuck, CleanupScan, DeleteGraph, DeleteChunks, DeleteChunksFails
  <1>12. Goal
    BY <1>2, <1>9, <1>10, <1>11 DEF Next, vars, CreateSource, Retry, ReingestWorkspace, Demand
  <1>13. QED BY <1>12 DEF Goal

LEMMA NextCleans == ASSUME Cleans, [Next]_vars, "busy" \notin Faults PROVE Cleans'
  <1>1. Shape' /\ OneAtATime' /\ Listed'
    BY NextFits, NextAlone, NextListed DEF Cleans
  <1>14. Onwards
    BY NextGoesOnwards DEF Cleans
  <1>2. NewHaveNoRows'
    <2>1. ASSUME NEW s \in Sources, source'[s] = "absent" PROVE Named(s)' = {}
      <3>1. source[s] = "absent" /\ Named(s) = {}
        BY <1>14, <2>1 DEF Onwards, Cleans, NewHaveNoRows
      <3>2. ~(current # None /\ s = Sid)
        BY <3>1 DEF Cleans, OneAtATime, Exists
      <3>3. CASE rows'[s] = rows[s]
        BY <3>1, <3>3 DEF Named
      <3>4. CASE rows'[s] = NoRows
        BY <3>4 DEF Named
      <3>5. QED BY <3>2, <3>3, <3>4, RowsFollowTheJob DEF Cleans
    <2>2. QED BY <2>1 DEF NewHaveNoRows
  <1>3. ASSUME active' = None PROVE Cleans'
    BY <1>1, <1>2, <1>3 DEF Cleans, ActiveAreClaimed, NamedAreActive
  <1>4. CASE DeleteRow
    BY <1>3, <1>4 DEF DeleteRow, Cleans, OneAtATime
  <1>5. ASSUME ~DeleteRow, NEW s \in Sources, Exists(s) PROVE Exists(s)'
    BY <1>5, NextGoesOn DEF Cleans, NobodyGoes, Exists
  <1>6. ASSUME ~DeleteRow, active' = active, active # None PROVE Cleans'
    <2>1. ActiveAreClaimed'
      BY <1>5, <1>6 DEF Cleans, ActiveAreClaimed, Documents
    <2>2. current = None /\ ~Begin
      BY <1>6 DEF Cleans, OneAtATime, Begin
    <2>3. ASSUME NEW s \in Sources, Exists(s)' PROVE Named(s)' \subseteq active'
      <3>1. rows'[s] = rows[s]
        BY <1>6, <2>2, RowsFollowTheJob DEF Cleans
      <3>2. Exists(s) \/ Named(s) = {}
        BY <1>14, <2>3 DEF Onwards, Cleans, NewHaveNoRows, Exists
      <3>3. QED BY <1>6, <3>1, <3>2 DEF Cleans, NamedAreActive, Named
    <2>4. NamedAreActive'
      BY <2>3 DEF NamedAreActive
    <2>5. QED BY <1>1, <1>2, <2>1, <2>4 DEF Cleans
  <1>7. ASSUME ~DeleteRow, NEW stuck \in SUBSET Sources, CleanupScan(stuck) PROVE Cleans'
    <2>1. active' = UNION {Named(s) : s \in {t \in Sources : Exists(t)}} /\ rows' = rows
      BY <1>7 DEF CleanupScan
    <2>2. ASSUME NEW d \in active' PROVE \E s \in Sources : Exists(s)' /\ d \in Documents(s)
      <3>1. PICK s \in Sources : Exists(s) /\ d \in Named(s)
        BY <2>1, <2>2
      <3>2. d \in Documents(s)
        BY <3>1 DEF Named, Cleans, Listed, RowsAreListed
      <3>3. QED BY <1>5, <1>7, <3>1, <3>2
    <2>3. ActiveAreClaimed'
      BY <2>2 DEF ActiveAreClaimed, Documents
    <2>4. ASSUME NEW s \in Sources, Exists(s)' PROVE Named(s)' \subseteq active'
      <3>1. Exists(s) \/ Named(s) = {}
        BY <1>14, <2>4 DEF Onwards, Cleans, NewHaveNoRows, Exists
      <3>2. Named(s)' = Named(s)
        BY <2>1 DEF Named
      <3>3. QED BY <2>1, <3>1, <3>2 DEF Named
    <2>5. NamedAreActive'
      BY <2>4 DEF NamedAreActive
    <2>6. QED BY <1>1, <1>2, <2>3, <2>5 DEF Cleans
  <1>8. ASSUME active' \in {active, None}, ~DeleteRow PROVE Cleans'
    BY <1>3, <1>6, <1>8
  <1>9. ASSUME NEW d \in Docs, DocSteps(d) \/ SaveCheckpointFails(d) \/ RecordDocFails(d)
        PROVE  active' = active
    BY <1>9, WorksAlone
  <1>10. CASE Work /\ ~DeleteRow
    BY <1>8, <1>9, <1>10
       DEF Work, BeginGone, Begin, FetchFails, Fetch, StartDoc, Flush, Verdict
  <1>11. CASE Mishap /\ ~DeleteRow
    BY <1>8, <1>9, <1>11
       DEF Mishap, EnqueueFails, BeginFails, Demand, RaiseOutsideTry, LoadFails, StartDocFails,
           FlushFails, VerdictFails, Crash, Reboot
  <1>12. CASE Housekeeping /\ ~DeleteRow
    BY <1>7, <1>8, <1>12
       DEF Housekeeping, SweepStuck, CleanupPurge, CleanupPurgeFails, DeleteGraph, DeleteChunks,
           DeleteChunksFails
  <1>13. QED
    BY <1>4, <1>8, <1>10, <1>11, <1>12
       DEF Next, vars, CreateSource, Retry, ReingestWorkspace, Demand

(* The cleanup takes every chunk a deletion left behind, if its vector store *)
(* answers, and none of a document a job row of a source that is there       *)
(* names, whether it answers or not: while no job runs beside it and no two  *)
(* sources list the same document.                                           *)
THEOREM CleanupIsComplete ==
  ASSUME "busy" \notin Faults, FeedsApart PROVE Spec => CleanupTakesLeftovers
<1> DEFINE Taken == CleanupPurge => \A d \in Docs : chunks'[d] # None => Exists(chunks'[d])
           Spared == CleanupPurge \/ CleanupPurgeFails =>
                       \A s \in Sources : Exists(s) => \A d \in Named(s) : chunks'[d] = chunks[d]
<1>1. ASSUME Cleans PROVE Taken
  <2> SUFFICES ASSUME CleanupPurge, NEW d \in Docs, chunks'[d] # None PROVE Exists(chunks'[d])
    OBVIOUS
  <2>1. chunks'[d] = chunks[d] /\ active # None
    BY DEF CleanupPurge, DeleteChunksOf
  <2>2. d \in active
    BY <2>1 DEF CleanupPurge, DeleteChunksOf, Stale, AllUrls, HasChunks
  <2>3. PICK s \in Sources : Exists(s) /\ d \in Documents(s)
    BY <1>1, <2>1, <2>2 DEF Cleans, ActiveAreClaimed
  <2>4. chunks[d] \in Sources /\ d \in Documents(chunks[d])
    BY <1>1, <2>1 DEF Cleans, Shape, TypeOK, Listed, ChunksAreListed
  <2>5. chunks[d] = s
    BY <2>3, <2>4 DEF FeedsApart
  <2>6. QED BY <2>1, <2>3, <2>5
<1>2. ASSUME Cleans PROVE Spared
  <2> SUFFICES ASSUME CleanupPurge \/ CleanupPurgeFails, NEW s \in Sources, Exists(s),
                      NEW d \in Named(s)
               PROVE  chunks'[d] = chunks[d]
    OBVIOUS
  <2>1. d \in active /\ d \in Docs
    BY <1>2 DEF Cleans, NamedAreActive, CleanupPurge, CleanupPurgeFails, Named
  <2>2. PICK urls \in SUBSET Stale : chunks' = DeleteChunksOf(chunks, urls)
    BY DEF CleanupPurge, CleanupPurgeFails
  <2>3. d \notin urls
    BY <2>1, <2>2 DEF Stale
  <2>4. QED BY <2>1, <2>2, <2>3 DEF DeleteChunksOf
<1>3. Init => Cleans
  BY InitFits, InitIsListed DEF Init, Cleans, OneAtATime, ActiveAreClaimed, NamedAreActive,
     NewHaveNoRows, Named
<1>4. QED BY <1>1, <1>2, <1>3, NextCleans, PTL DEF Spec, CleanupTakesLeftovers

-----------------------------------------------------------------------------
(* Under the assumptions of Kept, and if a source lists the same documents  *)
(* whenever it is asked: the verdict of a job is about what it listed.      *)
SteadyFeeds ==
  \A s \in Sources : \A one, other \in Feeds[s] : Range(one) = Range(other)

JobHasOutcome ==
  /\ current # None => source[Sid] # "success"
  /\ \A d \in Docs : stage[d] = "done" => chunks[d] # None
  /\ phase = "verdict" => AllDocsOver
  /\ phase \in {"docs", "verdict"} =>
       /\ \E listing \in Feeds[Sid] : listed[Sid] = Range(listing)
       /\ \/ todo # <<>>
          \/ \E d \in Docs : stage[d] # "idle"
          \/ \E d \in listed[Sid] : chunks[d] # None

Searchable == Kept /\ Listed /\ JobHasOutcome /\ SuccessIsSearchable
ChunksStay == \A d \in Docs : chunks[d] # None => chunks'[d] # None

LEMMA NextKeepsChunks == ASSUME Kept, Cautious, [Next]_vars PROVE ChunksStay
  <1>1. CASE UNCHANGED chunks
    BY <1>1 DEF ChunksStay
  <1>2. ASSUME NEW d \in Docs, DropChunks(d) PROVE ChunksStay
    BY <1>2 DEF DropChunks, DeleteChunksOf, Kept, StagesTellChunks, ChunksStay
  <1>3. ASSUME NEW d \in Docs, AddChunks(d) PROVE ChunksStay
    <2>1. Sid \in Sources /\ Sid # None
      BY <1>3 DEF AddChunks, Kept, Shape, TypeOK, PhaseFits, Sid, Jobs
    <2>2. QED BY <1>3, <2>1 DEF AddChunks, AddChunksOf, ChunksStay, Kept, Shape, TypeOK
  <1>4. ASSUME NEW d \in Docs, DocSteps(d) \/ SaveCheckpointFails(d) \/ RecordDocFails(d)
        PROVE  ChunksStay
    BY <1>1, <1>2, <1>3, <1>4
       DEF DocSteps, Skip, MergePaper, Link, DocFails, SaveCheckpoint, RecordDoc,
           SaveCheckpointFails, RecordDocFails
  <1>5. CASE Housekeeping
    BY <1>1, <1>5 DEF Housekeeping, SweepStuck, CleanupScan, CleanupPurge, CleanupPurgeFails,
       DeleteGraph, DeleteChunks, DeleteChunksFails, DeleteRow, Fault, Kept, NothingIsTakenAway, Cautious
  <1>6. CASE Work
    BY <1>1, <1>4, <1>6
       DEF Work, BeginGone, Begin, FetchFails, Fetch, StartDoc, Flush, Verdict
  <1>7. CASE Mishap
    BY <1>1, <1>4, <1>7
       DEF Mishap, EnqueueFails, BeginFails, Demand, RaiseOutsideTry, LoadFails, StartDocFails,
           FlushFails, VerdictFails, Crash, Reboot
  <1>8. QED
    BY <1>1, <1>5, <1>6, <1>7
       DEF Next, vars, CreateSource, Retry, ReingestWorkspace, Demand

LEMMA SuccessStays ==
  ASSUME SuccessIsSearchable, ChunksStay, TypeOK,
         \A s \in Sources : source'[s] = "success" => source[s] = "success" /\ listed'[s] = listed[s]
  PROVE  SuccessIsSearchable'
  BY DEF SuccessIsSearchable, ChunksStay, TypeOK

(* Steps that take the job no further, or end it. *)
LEMMA StillSearchable ==
  ASSUME Searchable, Kept', Listed', ChunksStay, listed' = listed,
         UNCHANGED <<current, phase, todo, stage>> \/ EndJob,
         \A s \in Sources : source'[s] = "success" => source[s] = "success"
  PROVE  Searchable'
  <1>1. SuccessIsSearchable'
    BY SuccessStays DEF Searchable, Kept, Shape
  <1>2. CASE EndJob
    <2>1. JobHasOutcome'
      BY <1>2 DEF EndJob, JobHasOutcome
    <2>2. QED BY <1>1, <2>1 DEF Searchable
  <1>3. CASE UNCHANGED <<current, phase, todo, stage>>
    <2>1. current # None => Sid \in Sources
      BY DEF Searchable, Kept, Shape, TypeOK, Sid, Jobs
    <2>2. Sid' = Sid
      BY <1>3 DEF Sid
    <2>3. current' # None => source'[Sid'] # "success"
      BY <1>3, <2>1, <2>2 DEF Searchable, JobHasOutcome
    <2>4. \A d \in Docs : stage'[d] = "done" => chunks'[d] # None
      BY <1>3 DEF Searchable, JobHasOutcome, ChunksStay
    <2>5. phase' = "verdict" => AllDocsOver'
      BY <1>3 DEF Searchable, JobHasOutcome, AllDocsOver, Active
    <2>6. ASSUME phase' \in {"docs", "verdict"}
          PROVE  /\ \E listing \in Feeds[Sid'] : listed'[Sid'] = Range(listing)
                 /\ \/ todo' # <<>>
                    \/ \E d \in Docs : stage'[d] # "idle"
                    \/ \E d \in listed'[Sid'] : chunks'[d] # None
      <3>1. listed[Sid] \subseteq Docs
        BY <1>3, <2>1, <2>6 DEF Searchable, Kept, Shape, TypeOK, PhaseFits
      <3>2. QED BY <1>3, <2>2, <2>6, <3>1 DEF Searchable, JobHasOutcome, ChunksStay
    <2>7. JobHasOutcome'
      BY <2>3, <2>4, <2>5, <2>6 DEF JobHasOutcome
    <2>8. QED BY <1>1, <2>7 DEF Searchable
  <1>4. QED BY <1>2, <1>3

LEMMA BeginSearchable ==
  ASSUME Searchable, Kept', Listed', ChunksStay, Begin PROVE Searchable'
  <1>1. Head(queue).source \in Sources
    BY FirstIsAJob DEF Begin, Searchable, Kept
  <1>2. source' = [source EXCEPT ![Head(queue).source] = "running"] /\ phase' = "fetch"
        /\ Sid' = Head(queue).source /\ listed' = listed
    BY DEF Begin, Sid
  <1>3. source'[Sid'] = "running" /\ \A s \in Sources : source'[s] = "success" => source[s] = "success"
    BY <1>1, <1>2 DEF Searchable, Kept, Shape, TypeOK
  <1>4. \A d \in Docs : stage'[d] = "idle"
    BY <1>2 DEF Kept, Shape, PhaseFits
  <1>5. JobHasOutcome'
    BY <1>2, <1>3, <1>4 DEF JobHasOutcome
  <1>6. SuccessIsSearchable'
    BY <1>2, <1>3, SuccessStays DEF Searchable, Kept, Shape
  <1>7. QED BY <1>5, <1>6 DEF Searchable

LEMMA FetchSearchable ==
  ASSUME Searchable, Kept', Listed', ChunksStay, SteadyFeeds, phase = "fetch",
         NEW listing \in Feeds[Sid], Fetch(listing)
  PROVE  Searchable'
  <1>1. Sid \in Sources /\ current # None /\ Sid' = Sid /\ listing \in Seq(Docs) \ {<<>>}
    BY DEF Searchable, Kept, Shape, TypeOK, PhaseFits, Sid, Jobs, Fetch
  <1>2. listed' = [listed EXCEPT ![Sid] = Range(listing)] /\ UNCHANGED <<source, stage, chunks>>
        /\ phase' = "docs" /\ current' = current
    BY DEF Fetch, storeVars
  <1>3. listed'[Sid] = Range(listing) /\ \A s \in Sources \ {Sid} : listed'[s] = listed[s]
    BY <1>1, <1>2 DEF Searchable, Kept, Shape, TypeOK
  <1>4. source[Sid] # "success"
    BY <1>1 DEF Searchable, JobHasOutcome
  <1>5. todo' # <<>> \/ \E d \in Range(listing) : chunks[d] # None
    <2> DEFINE c == IF current.force THEN None ELSE checkpoint[Sid]
    <2>1. todo' = FromCheckpoint(listing, c)
      BY DEF Fetch
    <2>2. CASE c = None
      BY <1>1, <2>1, <2>2 DEF FromCheckpoint
    <2>3. CASE c # None
      <3>1. c = checkpoint[Sid] /\ c \in Documents(Sid) /\ chunks[c] # None
        BY <1>1, <2>3 DEF Searchable, Listed, CheckpointsAreListed, Kept, CheckpointIsDone
      <3>2. PICK other \in Feeds[Sid] : c \in Range(other)
        BY <3>1 DEF Documents
      <3>3. c \in Range(listing)
        BY <1>1, <3>2 DEF SteadyFeeds
      <3>4. QED BY <3>1, <3>3
    <2>4. QED BY <2>2, <2>3
  <1>6. JobHasOutcome'
    <2>1. \A d \in Docs : stage'[d] = "done" => chunks'[d] # None
      BY <1>2 DEF Searchable, JobHasOutcome
    <2>2. QED BY <1>1, <1>2, <1>3, <1>4, <1>5, <2>1 DEF JobHasOutcome
  <1>7. SuccessIsSearchable'
    BY <1>2, <1>3, <1>4, SuccessStays DEF Searchable, Kept, Shape
  <1>8. QED BY <1>6, <1>7 DEF Searchable

(* Steps of the documents: one of them is past idle. *)
LEMMA DocSearchable ==
  ASSUME Searchable, Kept', Listed', ChunksStay, phase = "docs",
         UNCHANGED <<source, current, phase, listed>>,
         \A d \in Docs : stage'[d] = "done" => chunks'[d] # None,
         \E d \in Docs : stage'[d] # "idle"
  PROVE  Searchable'
  <1>1. Sid' = Sid
    BY DEF Sid
  <1>2. JobHasOutcome'
    BY <1>1 DEF Searchable, JobHasOutcome
  <1>3. SuccessIsSearchable'
    BY SuccessStays DEF Searchable, Kept, Shape
  <1>4. QED BY <1>2, <1>3 DEF Searchable

LEMMA StartSearchable ==
  ASSUME Searchable, Kept', Listed', ChunksStay, StartDoc \/ StartDocFails PROVE Searchable'
  <1>1. Head(todo) \in Docs
    BY DEF StartDoc, StartDocFails, Searchable, Kept, Shape, TypeOK
  <1>2. stage'[Head(todo)] \in {"begun", "failed"}
        /\ \A d \in Docs \ {Head(todo)} : stage'[d] = stage[d]
    BY <1>1 DEF StartDoc, StartDocFails, Reach, Searchable, Kept, Shape, TypeOK
  <1>3. UNCHANGED <<source, current, phase, listed, chunks>> /\ phase = "docs"
    BY DEF StartDoc, StartDocFails
  <1>4. \A d \in Docs : stage'[d] = "done" => chunks'[d] # None
    BY <1>2, <1>3 DEF Searchable, JobHasOutcome
  <1>5. QED BY <1>1, <1>2, <1>3, <1>4, DocSearchable

LEMMA StepSearchable ==
  ASSUME Searchable, Kept', Listed', ChunksStay, NEW d \in Docs,
         DocSteps(d) \/ SaveCheckpointFails(d) \/ RecordDocFails(d)
  PROVE  Searchable'
  <1>1. UNCHANGED <<source, current, phase, listed>>
        /\ stage[d] \notin {"idle", "done", "failed"}
    BY DEF DocSteps, Skip, MergePaper, DropChunks, AddChunks, Link, DocFails, SaveCheckpoint,
           RecordDoc, SaveCheckpointFails, RecordDocFails
  <1>2. PICK st \in Stages \ {"idle"} : Reach(d, st) /\ (st = "done" => stage[d] = "saved")
    BY DEF DocSteps, Skip, MergePaper, DropChunks, AddChunks, Link, DocFails, SaveCheckpoint,
           RecordDoc, SaveCheckpointFails, RecordDocFails
  <1>3. phase = "docs"
    <2>1. d \in Active
      BY <1>1 DEF Active
    <2>2. phase # "verdict"
      BY <2>1 DEF Searchable, JobHasOutcome, AllDocsOver
    <2>3. phase \notin {"idle", "fetch"}
      BY <1>1 DEF Searchable, Kept, Shape, PhaseFits
    <2>4. QED BY <2>2, <2>3 DEF Searchable, Kept, Shape, TypeOK
  <1>4. stage'[d] = st /\ \A e \in Docs \ {d} : stage'[e] = stage[e]
    BY <1>2 DEF Reach, Searchable, Kept, Shape, TypeOK
  <1>5. ASSUME NEW e \in Docs, stage'[e] = "done" PROVE chunks'[e] # None
    <2>1. chunks[e] # None
      BY <1>2, <1>4, <1>5 DEF Searchable, JobHasOutcome, Kept, StagesTellChunks
    <2>2. QED BY <2>1 DEF ChunksStay
  <1>6. QED BY <1>1, <1>2, <1>3, <1>4, <1>5, DocSearchable

LEMMA FlushSearchable ==
  ASSUME Searchable, Kept', Listed', ChunksStay, Flush \/ FlushFails PROVE Searchable'
  <1>1. UNCHANGED <<source, current, todo, stage, listed, chunks>> /\ phase = "docs"
        /\ phase' = "verdict" /\ AllDocsOver
    BY DEF Flush, FlushFails
  <1>2. Sid' = Sid
    BY <1>1 DEF Sid
  <1>3. AllDocsOver'
    BY <1>1 DEF AllDocsOver, Active
  <1>4. JobHasOutcome'
    BY <1>1, <1>2, <1>3 DEF Searchable, JobHasOutcome
  <1>5. SuccessIsSearchable'
    BY <1>1, SuccessStays DEF Searchable, Kept, Shape
  <1>6. QED BY <1>4, <1>5 DEF Searchable

(* A verdict of success: some document was done now, or the listing had *)
(* nothing left behind a checkpoint.                                    *)
LEMMA VerdictIsEarned ==
  ASSUME Searchable, SteadyFeeds, phase = "verdict", Outcome = "success"
  PROVE  \E d \in listed[Sid] : chunks[d] # None
  <1>1. Sid \in Sources /\ current # None
    BY DEF Searchable, Kept, Shape, TypeOK, PhaseFits, Sid, Jobs
  <1>2. PICK listing \in Feeds[Sid] : listed[Sid] = Range(listing)
    BY DEF Searchable, JobHasOutcome
  <1>3. CASE \E d \in Docs : stage[d] = "done"
    <2>1. PICK d \in Docs : stage[d] = "done"
      BY <1>3
    <2>2. d \in Documents(Sid) /\ chunks[d] # None
      BY <1>1, <2>1 DEF Searchable, JobHasOutcome, Listed, JobIsListed
    <2>3. PICK other \in Feeds[Sid] : d \in Range(other)
      BY <2>2 DEF Documents
    <2>4. d \in listed[Sid]
      BY <1>1, <1>2, <2>3 DEF SteadyFeeds
    <2>5. QED BY <2>2, <2>4
  <1>4. CASE ~\E d \in Docs : stage[d] = "done"
    <2>1. \A d \in Docs : stage[d] # "failed"
      BY <1>4 DEF Outcome
    <2>2. todo = <<>> /\ \A d \in Docs : stage[d] = "idle"
      BY <1>4, <2>1 DEF Searchable, JobHasOutcome, AllDocsOver, Active
    <2>3. QED BY <2>2 DEF Searchable, JobHasOutcome
  <1>5. QED BY <1>3, <1>4

LEMMA VerdictSearchable ==
  ASSUME Searchable, Kept', Listed', ChunksStay, SteadyFeeds, Verdict PROVE Searchable'
  <1>1. SetStatus(Sid, Outcome) /\ EndJob /\ phase = "verdict" /\ UNCHANGED <<listed, chunks>>
    BY DEF Verdict
  <1>2. JobHasOutcome'
    BY <1>1 DEF EndJob, JobHasOutcome
  <1>3. ASSUME NEW s \in Sources, source'[s] = "success" PROVE \E d \in listed[s] : chunks[d] # None
    <2>1. source[s] = "success" \/ (s = Sid /\ Outcome = "success")
      BY <1>1, <1>3 DEF SetStatus, Searchable, Kept, Shape, TypeOK
    <2>2. QED BY <1>1, <2>1, VerdictIsEarned DEF Searchable, SuccessIsSearchable
  <1>4. SuccessIsSearchable'
    BY <1>1, <1>3 DEF SuccessIsSearchable
  <1>5. QED BY <1>2, <1>4 DEF Searchable

LEMMA NextSearchable ==
  ASSUME Cautious, SteadyFeeds, Searchable, [Next]_vars PROVE Searchable'
  <1>1. Kept' /\ Listed' /\ ChunksStay
    BY NextKeeps, NextListed, NextKeepsChunks DEF Searchable, Kept
  <1> DEFINE NoNewSuccess == \A s \in Sources : source'[s] = "success" => source[s] = "success"
  <1>2. ASSUME UNCHANGED source PROVE NoNewSuccess
    BY <1>2
  <1>3. ASSUME SetStatus(Sid, "error") PROVE NoNewSuccess
    BY <1>3 DEF SetStatus, Searchable, Kept, Shape, TypeOK
  <1>4. ASSUME NEW stuck \in SUBSET Sources, ResetToError(stuck) PROVE NoNewSuccess
    BY <1>4 DEF ResetToError
  <1>5. ASSUME NEW order, NEW force, NEW n, Demand(order, force, n) PROVE NoNewSuccess
    BY <1>5 DEF Demand
  <1> HIDE DEF NoNewSuccess
  <1>6. ASSUME NoNewSuccess, UNCHANGED <<current, phase, todo, stage>> \/ EndJob, listed' = listed
        PROVE  Searchable'
    BY <1>1, <1>6, StillSearchable DEF NoNewSuccess
  <1>7. ASSUME \/ \E s \in Sources : CreateSource(s) \/ \E force \in Forced : Retry(s, force)
               \/ ReingestWorkspace \/ EnqueueFails
        PROVE  Searchable'
    <2>1. PICK order, force, n : Demand(order, force, n)
      BY <1>7 DEF CreateSource, Retry, ReingestWorkspace, EnqueueFails
    <2>2. UNCHANGED <<current, phase, todo, stage>> /\ listed' = listed
      BY <2>1 DEF Demand
    <2>3. QED BY <1>5, <1>6, <2>1, <2>2
  <1>8. ASSUME NEW d \in Docs, DocSteps(d) \/ SaveCheckpointFails(d) \/ RecordDocFails(d)
        PROVE  Searchable'
    BY <1>1, <1>8, StepSearchable
  <1>9. ASSUME FetchFails \/ LoadFails \/ VerdictFails PROVE Searchable'
    BY <1>2, <1>3, <1>6, <1>9 DEF FetchFails, LoadFails, VerdictFails, FailSource
  <1>10. ASSUME RaiseOutsideTry \/ Crash \/ BeginGone \/ BeginFails PROVE Searchable'
    BY <1>2, <1>6, <1>10 DEF RaiseOutsideTry, Crash, BeginGone, BeginFails
  <1>11. CASE Work
    BY <1>1, <1>8, <1>9, <1>10, <1>11, BeginSearchable, FetchSearchable, StartSearchable,
       FlushSearchable, VerdictSearchable DEF Work
  <1>12. ASSUME Reboot PROVE Searchable'
    BY <1>4, <1>6, <1>12 DEF Reboot, Stuck
  <1>13. CASE Mishap
    BY <1>1, <1>7, <1>8, <1>9, <1>10, <1>12, <1>13, StartSearchable, FlushSearchable DEF Mishap
  <1>14. CASE Housekeeping
    <2>1. PICK stuck \in SUBSET Sources : SweepStuck(stuck)
      BY <1>14 DEF Housekeeping, CleanupScan, CleanupPurge, CleanupPurgeFails, DeleteGraph, DeleteChunks,
         DeleteChunksFails, DeleteRow, Fault, Searchable, Kept, NothingIsTakenAway, Cautious
    <2>2. QED BY <1>4, <1>6, <2>1 DEF SweepStuck
  <1>15. CASE UNCHANGED vars
    BY <1>2, <1>6, <1>15 DEF vars
  <1>16. QED BY <1>7, <1>11, <1>13, <1>14, <1>15 DEF Next

(* A successful source can be searched, whatever crashed, failed or was     *)
(* resumed at a checkpoint on the way, and whichever of its documents other *)
(* sources share: as long as nothing is forced, deleted or cleaned up, and  *)
(* the source lists the same documents each time (a checkpoint that has     *)
(* left the listing makes a resumed job skip all of it).                    *)
THEOREM SuccessIsEarned ==
  ASSUME Forced \subseteq {FALSE}, Faults \cap {"delete", "cleanup"} = {}, SteadyFeeds
  PROVE  Spec => []SuccessIsSearchable
  <1>1. Cautious
    BY DEF Cautious
  <1>2. Init => Searchable
    BY InitKeeps, InitIsListed DEF Init, Searchable, JobHasOutcome, SuccessIsSearchable
  <1>3. Searchable => SuccessIsSearchable
    BY DEF Searchable
  <1>4. QED BY <1>1, <1>2, <1>3, NextSearchable, PTL DEF Spec
=============================================================================
