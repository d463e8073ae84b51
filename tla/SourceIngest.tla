------------------------------ MODULE SourceIngest ------------------------------
(***************************************************************************)
(* The default ingestion path: the API enqueues a source, one RQ worker    *)
(* runs src/backend/ingestion/jobs.py for it, up to five documents at a    *)
(* time, and each document goes through ingestion/worker.py into the graph *)
(* and the vector store of one workspace.  Around it the routes that       *)
(* retry, sweep, clean up and delete sources (api/routes/sources.py) and   *)
(* the recovery at startup (main.py).                                      *)
(*                                                                         *)
(* A step ends where the code awaits a store.  Left out: what a document   *)
(* says, the resolver's registry, conflict flags, the dead-letter queue,   *)
(* caches, backups, error texts, and data older than source_id tagging.    *)
(* Authors, categories and the paper are one unit (`paper`), extracted     *)
(* entities and relationships another (`entities`).                        *)
(***************************************************************************)
EXTENDS Naturals, Sequences, FiniteSets, Functions, VectorStore

CONSTANTS Sources,
          Feeds,        \* [Sources -> the listings a fetch may return]
          Concurrency,  \* _CONCURRENCY, documents processed at a time
          Forced,       \* the values of `force` asked for
          Requests,     \* bounds the jobs enqueued
          Faults,       \* the faults and housekeeping a run allows
          Mishaps       \* bounds the faults and the cleanups

FaultKinds ==
  {"enqueue",    \* RQ's queue cannot be written
   "crash",      \* the worker process dies in the middle of a job
   "redis",      \* a Redis call raises
   "unguarded",  \* ... or the database, where no handler catches it
   "database",   \* a job row or a source's status cannot be written
   "reboot",     \* the API process starts again
   "chroma",     \* the vector store raises in a deletion or a cleanup
   "delete",     \* the user deletes a source
   "cleanup",    \* the user runs the workspace cleanup
   "busy"}       \* ... also while a job is under way

Jobs == [source : Sources, force : BOOLEAN]

ASSUME SourceIngestAssumption ==
  /\ IsFiniteSet(Sources)
  /\ \A s \in Sources : Feeds[s] \subseteq Seq(Docs) \ {<<>>}
  /\ Concurrency \in Nat \ {0}
  /\ Forced \subseteq BOOLEAN
  /\ Requests \in Nat /\ Mishaps \in Nat
  /\ Faults \subseteq FaultKinds
  /\ None \notin Sources \cup Docs \cup Jobs

ASSUME NoneAssumption == \A docs \in SUBSET Docs : docs # None

VARIABLES source,      \* sources.status; "absent" before it is added, "deleted" after
          fetched,     \* the sources whose last_fetched is set
          rows,        \* ingestion_jobs.status of each source's documents
          queue,       \* the RQ queue: jobs [source, force]
          current,     \* the job the worker runs, None when it is idle
          phase,       \* where that job is
          todo,        \* its documents still behind the semaphore
          stage,       \* how far each of its documents has come
          checkpoint,  \* Redis: the url of the last document done
          paper,       \* graph: the source_ids on each document's paper
          entities,    \* graph: ... and on what was extracted from it
          chunks,      \* vector store: the source_id on its chunks, None without any
          deleting,    \* the source being deleted, None if none is
          doomed,      \* the documents its job rows named, None once their chunks are gone
          active,      \* cleanup: the urls it found active, None if not running
          requests, mishaps,
          stranded,    \* history: sources whose job was not enqueued, or ended without a verdict
          leftovers,   \* history: sources deleted while the vector store failed
          listed       \* history: what the last fetch of each source listed

apiVars == <<queue, requests, fetched>>
workerVars == <<current, phase, todo, stage>>
storeVars == <<paper, entities, chunks>>
sweepVars == <<deleting, doomed, active>>
ghostVars == <<stranded, leftovers, listed>>
vars == <<source, rows, checkpoint, mishaps, apiVars, workerVars, storeVars,
          sweepVars, ghostVars>>

SourceStates == {"absent", "pending", "running", "success", "error", "deleted"}
RowStates == {"none", "running", "success", "failed"}
Stages == {"idle", "begun", "merged", "dropped", "embedded", "ok", "saved", "bad",
           "done", "failed"}

TypeOK ==
  /\ source \in [Sources -> SourceStates]
  /\ rows \in [Sources -> [Docs -> RowStates]]
  /\ queue \in Seq(Jobs)
  /\ current \in Jobs \cup {None}
  /\ phase \in {"idle", "fetch", "docs", "verdict"}
  /\ todo \in Seq(Docs)
  /\ stage \in [Docs -> Stages]
  /\ checkpoint \in [Sources -> Docs \cup {None}]
  /\ paper \in [Docs -> SUBSET Sources] /\ entities \in [Docs -> SUBSET Sources]
  /\ chunks \in [Docs -> Sources \cup {None}]
  /\ deleting \in Sources \cup {None} /\ doomed \in (SUBSET Docs) \cup {None}
  /\ active \in (SUBSET Docs) \cup {None}
  /\ requests \in 0 .. Requests /\ mishaps \in 0 .. Mishaps
  /\ stranded \subseteq Sources /\ leftovers \subseteq Sources /\ fetched \subseteq Sources
  /\ listed \in [Sources -> SUBSET Docs]

NoRows == [d \in Docs |-> "none"]
NoStages == [d \in Docs |-> "idle"]

Init ==
  /\ source = [s \in Sources |-> "absent"]
  /\ rows = [s \in Sources |-> NoRows]
  /\ queue = <<>>
  /\ current = None /\ phase = "idle" /\ todo = <<>> /\ stage = NoStages
  /\ checkpoint = [s \in Sources |-> None]
  /\ paper = [d \in Docs |-> {}] /\ entities = [d \in Docs |-> {}]
  /\ chunks = NoChunks
  /\ deleting = None /\ doomed = None /\ active = None
  /\ requests = 0 /\ mishaps = 0
  /\ stranded = {} /\ leftovers = {} /\ fetched = {}
  /\ listed = [s \in Sources |-> {}]

Fault(kind) ==
  /\ kind \in Faults
  /\ mishaps < Mishaps
  /\ mishaps' = mishaps + 1

Exists(s) == source[s] \notin {"absent", "deleted"}

(* An UPDATE of a source's status: nothing happens to a row that is gone. *)
SetStatus(s, status) ==
  source' = [source EXCEPT ![s] = IF Exists(s) THEN status ELSE @]

-----------------------------------------------------------------------------
requestFrame == <<rows, checkpoint, fetched, workerVars, storeVars, sweepVars, leftovers,
                  listed>>

(* The sources are committed as pending, then the first n are enqueued. *)
Demand(order, force, n) ==
  /\ requests < Requests
  /\ force \in Forced
  /\ source' = [s \in Sources |-> IF s \in Range(order) THEN "pending" ELSE source[s]]
  /\ queue' = queue \o [i \in 1 .. n |-> [source |-> order[i], force |-> force]]
  /\ requests' = requests + 1
  /\ stranded' = (stranded \ Range(order)) \cup {order[i] : i \in n + 1 .. Len(order)}
  /\ UNCHANGED requestFrame

(* create_source, upload_pdf_source. *)
CreateSource(s) == source[s] = "absent" /\ Demand(<<s>>, FALSE, 1) /\ UNCHANGED mishaps

(* retry_source, and reingest_source with force. *)
Retry(s, force) == Exists(s) /\ Demand(<<s>>, force, 1) /\ UNCHANGED mishaps

Orders(set) ==
  {o \in [1 .. Cardinality(set) -> set] : Range(o) = set}

(* reingest_workspace: every source, in the order the database gives them. *)
ReingestWorkspace ==
  LET all == {s \in Sources : Exists(s)}
  IN /\ all # {}
     /\ \E order \in Orders(all) : Demand(order, TRUE, Len(order))
     /\ UNCHANGED mishaps

(* ... and the queue fails before all are in it. *)
EnqueueFails ==
  \/ \E s \in Sources, force \in BOOLEAN :
       /\ source[s] # "deleted" /\ (source[s] = "absent" => ~force)
       /\ Demand(<<s>>, force, 0)
       /\ Fault("enqueue")
  \/ \E order \in Orders({s \in Sources : Exists(s)}) : \E n \in 0 .. Len(order) - 1 :
       /\ Demand(order, TRUE, n)
       /\ Fault("enqueue")

-----------------------------------------------------------------------------
(* The worker's job, _run_async. *)

Sid == current.source

(* The job is over and the worker takes the next. *)
EndJob ==
  /\ current' = None /\ phase' = "idle" /\ todo' = <<>> /\ stage' = NoStages

(* The source's row is read; a job for a deleted source returns at once. *)
BeginGone ==
  /\ current = None /\ queue # <<>>
  /\ ~Exists(Head(queue).source)
  /\ queue' = Tail(queue)
  /\ UNCHANGED <<source, rows, checkpoint, mishaps, requests, fetched, workerVars,
                 storeVars, sweepVars, ghostVars>>

(* ... any other is running, and its rows of earlier runs are deleted. *)
Begin ==
  /\ current = None /\ queue # <<>>
  /\ Exists(Head(queue).source)
  /\ "busy" \in Faults \/ (deleting = None /\ active = None)
  /\ current' = Head(queue)
  /\ queue' = Tail(queue)
  /\ phase' = "fetch"
  /\ source' = [source EXCEPT ![Head(queue).source] = "running"]
  /\ rows' = [rows EXCEPT ![Head(queue).source] = NoRows]
  /\ stranded' = stranded \ {Head(queue).source}
  /\ UNCHANGED <<checkpoint, mishaps, requests, fetched, todo, stage, storeVars, sweepVars,
                 leftovers, listed>>

(* Reading the source or committing its new status raises, outside of any *)
(* try block: the job is gone and the source as it was.                   *)
BeginFails ==
  /\ current = None /\ queue # <<>>
  /\ Fault("unguarded")
  /\ queue' = Tail(queue)
  /\ stranded' = stranded \cup {Head(queue).source}
  /\ UNCHANGED <<source, rows, checkpoint, requests, fetched, workerVars, storeVars,
                 sweepVars, leftovers, listed>>

(* Broken: the fetch's exception leaves the job. *)
FetchFailsUncaught ==
  /\ phase = "fetch"
  /\ EndJob
  /\ UNCHANGED <<source, rows, checkpoint, mishaps, apiVars, storeVars, sweepVars, ghostVars>>

(* The fetch raises, or lists nothing. *)
FetchFails ==
  /\ phase = "fetch"
  /\ SetStatus(Sid, "error")
  /\ EndJob
  /\ UNCHANGED <<rows, checkpoint, mishaps, apiVars, storeVars, sweepVars, ghostVars>>

(* What is left of a listing behind the checkpoint: nothing, if the listing *)
(* does not hold the checkpoint's document.                                 *)
FromCheckpoint(listing, c) ==
  IF c = None THEN listing
  ELSE IF \E i \in DOMAIN listing : listing[i] = c
    THEN LET i == CHOOSE j \in DOMAIN listing : listing[j] = c
         IN SubSeq(listing, i + 1, Len(listing))
  ELSE <<>>

Fetch(listing) ==
  /\ phase = "fetch"
  /\ phase' = "docs"
  /\ todo' = FromCheckpoint(listing, IF current.force THEN None ELSE checkpoint[Sid])
  /\ listed' = [listed EXCEPT ![Sid] = Range(listing)]
  /\ UNCHANGED <<source, rows, checkpoint, mishaps, apiVars, current, stage, storeVars,
                 sweepVars, stranded, leftovers>>

(* Reading the checkpoint or committing a failed fetch raises, outside the *)
(* try block that would set the source to error: it stays running.         *)
RaiseOutsideTry ==
  /\ phase = "fetch"
  /\ Fault("unguarded")
  /\ EndJob
  /\ stranded' = stranded \cup {Sid}
  /\ UNCHANGED <<source, rows, checkpoint, apiVars, storeVars, sweepVars, leftovers, listed>>

(* _fail_source: the error is committed in a session of its own.  When that *)
(* raises too (one outage may take both), it is swallowed, and the source   *)
(* stays running.                                                           *)
FailSource ==
  \/ SetStatus(Sid, "error") /\ UNCHANGED stranded
  \/ "database" \in Faults /\ stranded' = stranded \cup {Sid} /\ UNCHANGED source

(* Loading the resolver's registry raises. *)
LoadFails ==
  /\ phase = "docs"
  /\ stage = NoStages
  /\ Fault("redis")
  /\ FailSource
  /\ EndJob
  /\ UNCHANGED <<rows, checkpoint, apiVars, storeVars, sweepVars, leftovers, listed>>

-----------------------------------------------------------------------------
(* The documents of the job, _process_one and process_document. *)

Reach(d, st) == stage' = [stage EXCEPT ![d] = st]

Active == {d \in Docs : stage[d] \notin {"idle", "done", "failed"}}

docFrame == <<source, mishaps, apiVars, current, phase, sweepVars, ghostVars>>

(* The semaphore lets the next document in; its job row says running. *)
StartDoc ==
  /\ phase = "docs" /\ todo # <<>>
  /\ Cardinality(Active) < Concurrency
  /\ Reach(Head(todo), "begun")
  /\ todo' = Tail(todo)
  /\ rows' = [rows EXCEPT ![Sid][Head(todo)] = "running"]
  /\ UNCHANGED <<docFrame, checkpoint, storeVars>>

(* The row cannot be written: gather counts the exception as a failure. *)
StartDocFails ==
  /\ phase = "docs" /\ todo # <<>>
  /\ Cardinality(Active) < Concurrency
  /\ Fault("database")
  /\ Reach(Head(todo), "failed")
  /\ todo' = Tail(todo)
  /\ UNCHANGED <<source, rows, checkpoint, apiVars, current, phase, storeVars,
                 sweepVars, ghostVars>>

(* Broken: skips what the graph knows, as the code once did. *)
SkippableByGraph(d) == ~current.force /\ paper[d] # {}

(* The skip check: this workspace has chunks of the document. *)
Skippable(d) == ~current.force /\ HasChunks(chunks, d)

Skip(d) ==
  /\ stage[d] = "begun" /\ Skippable(d)
  /\ Reach(d, "ok")
  /\ UNCHANGED <<docFrame, todo, rows, checkpoint, storeVars>>

(* Broken: without the source's id. *)
MergePaperUntagged(d) ==
  /\ stage[d] = "begun" /\ ~Skippable(d)
  /\ Reach(d, "merged")
  /\ paper' = [paper EXCEPT ![d] = @ \cup {None}]
  /\ UNCHANGED <<docFrame, todo, rows, checkpoint, entities, chunks>>

(* Paper, authors, categories. *)
MergePaper(d) ==
  /\ stage[d] = "begun" /\ ~Skippable(d)
  /\ Reach(d, "merged")
  /\ paper' = [paper EXCEPT ![d] = @ \cup {Sid}]
  /\ UNCHANGED <<docFrame, todo, rows, checkpoint, entities, chunks>>

(* _embed: the chunks of the document are deleted, then written anew. *)
DropChunks(d) ==
  /\ stage[d] = "merged"
  /\ Reach(d, "dropped")
  /\ chunks' = DeleteChunksOf(chunks, {d})
  /\ UNCHANGED <<docFrame, todo, rows, checkpoint, paper, entities>>

AddChunks(d) ==
  /\ stage[d] = "dropped"
  /\ Reach(d, "embedded")
  /\ chunks' = AddChunksOf(chunks, d, Sid)
  /\ UNCHANGED <<docFrame, todo, rows, checkpoint, paper, entities>>

(* What extraction found goes into the graph.  An LLM failure is swallowed *)
(* by extract_entities: then there is nothing, and that is no failure.     *)
Link(d, found) ==
  /\ stage[d] = "embedded"
  /\ Reach(d, "ok")
  /\ entities' = [entities EXCEPT ![d] = IF found THEN @ \cup {Sid} ELSE @]
  /\ UNCHANGED <<docFrame, todo, rows, checkpoint, paper, chunks>>

(* Any store raises on the way. *)
DocFails(d) ==
  /\ stage[d] \in {"begun", "merged", "dropped", "embedded"}
  /\ Reach(d, "bad")
  /\ UNCHANGED <<docFrame, todo, rows, checkpoint, storeVars>>

(* Broken: the checkpoint is set before the document is processed. *)
SaveCheckpointEarly(d) ==
  /\ stage[d] \in {"merged", "ok"}
  /\ checkpoint' = [checkpoint EXCEPT ![Sid] = d]
  /\ Reach(d, "saved")
  /\ UNCHANGED <<docFrame, todo, rows, storeVars>>

SaveCheckpoint(d) ==
  /\ stage[d] = "ok"
  /\ checkpoint' = [checkpoint EXCEPT ![Sid] = d]
  /\ Reach(d, "saved")
  /\ UNCHANGED <<docFrame, todo, rows, storeVars>>

(* The document is in the stores, and counts as failed all the same. *)
SaveCheckpointFails(d) ==
  /\ stage[d] = "ok"
  /\ Fault("redis")
  /\ Reach(d, "bad")
  /\ UNCHANGED <<source, todo, rows, checkpoint, apiVars, current, phase, storeVars,
                 sweepVars, ghostVars>>

(* Its row gets the outcome, if a deletion has not taken the row away. *)
RecordDoc(d) ==
  /\ stage[d] \in {"saved", "bad"}
  /\ rows' = [rows EXCEPT ![Sid][d] =
                IF @ = "none" THEN @ ELSE IF stage[d] = "saved" THEN "success" ELSE "failed"]
  /\ Reach(d, IF stage[d] = "saved" THEN "done" ELSE "failed")
  /\ UNCHANGED <<docFrame, todo, checkpoint, storeVars>>

RecordDocFails(d) ==
  /\ stage[d] \in {"saved", "bad"}
  /\ Fault("database")
  /\ Reach(d, "failed")
  /\ UNCHANGED <<source, todo, rows, checkpoint, apiVars, current, phase, storeVars,
                 sweepVars, ghostVars>>

AllDocsOver == todo = <<>> /\ Active = {}

(* flush_to_redis, clear_checkpoint: best effort. *)
Flush ==
  /\ phase = "docs" /\ AllDocsOver
  /\ phase' = "verdict"
  /\ checkpoint' = [checkpoint EXCEPT ![Sid] = None]
  /\ UNCHANGED <<source, rows, mishaps, apiVars, current, todo, stage, storeVars,
                 sweepVars, ghostVars>>

FlushFails ==
  /\ phase = "docs" /\ AllDocsOver
  /\ Fault("redis")
  /\ phase' = "verdict"
  /\ UNCHANGED <<source, rows, checkpoint, apiVars, current, todo, stage, storeVars,
                 sweepVars, ghostVars>>

(* Broken: a source whose documents all failed is a success. *)
OutcomeAlwaysGood == "success"

(* Every document failed, and there were some: error. *)
Outcome ==
  IF (\E d \in Docs : stage[d] = "failed") /\ ~(\E d \in Docs : stage[d] = "done")
    THEN "error" ELSE "success"

(* Broken: the verdict is not committed. *)
VerdictUnsaved ==
  /\ phase = "verdict"
  /\ EndJob
  /\ UNCHANGED <<source, rows, checkpoint, mishaps, apiVars, storeVars, sweepVars,
                 ghostVars>>

Verdict ==
  /\ phase = "verdict"
  /\ SetStatus(Sid, Outcome)
  /\ fetched' = fetched \cup {Sid}
  /\ EndJob
  /\ UNCHANGED <<rows, checkpoint, mishaps, queue, requests, storeVars, sweepVars,
                 ghostVars>>

(* The verdict cannot be written. *)
VerdictFails ==
  /\ phase = "verdict"
  /\ Fault("database")
  /\ FailSource
  /\ EndJob
  /\ UNCHANGED <<rows, checkpoint, apiVars, storeVars, sweepVars, leftovers, listed>>

-----------------------------------------------------------------------------
(* The worker dies, or RQ's timeout ends the job: RQ does not run it again. *)
Crash ==
  /\ current # None
  /\ Fault("crash")
  /\ EndJob
  /\ stranded' = stranded \cup {Sid}
  /\ UNCHANGED <<source, rows, checkpoint, apiVars, storeVars, sweepVars, leftovers, listed>>

Stuck == {s \in Sources : source[s] = "running"}

ResetToError(stuck) ==
  /\ source' = [s \in Sources |-> IF s \in stuck THEN "error" ELSE source[s]]
  /\ stranded' = stranded \ stuck

(* main.py at startup: whatever is running is taken to be stranded.  What *)
(* the API was doing is gone.                                             *)
Reboot ==
  /\ Fault("reboot")
  /\ ResetToError(Stuck)
  /\ deleting' = None /\ doomed' = None /\ active' = None
  /\ UNCHANGED <<rows, checkpoint, apiVars, workerVars, storeVars, leftovers, listed>>

(* list_sources: those that were added more than 15 minutes ago and are *)
(* running for the first time are taken to be stranded too.             *)
SweepStuck(stuck) ==
  /\ stuck # {} /\ stuck \subseteq Stuck \ fetched
  /\ ResetToError(stuck)
  /\ UNCHANGED <<rows, checkpoint, mishaps, apiVars, workerVars, storeVars, sweepVars,
                 leftovers, listed>>

-----------------------------------------------------------------------------
(* delete_source: the graph by source id, the chunks by source id and by   *)
(* the urls of its job rows, then checkpoint, rows and the source itself.  *)

Named(s) == {d \in Docs : rows[s][d] # "none"}

(* Broken: relationships and entities keep the source's mark. *)
DeleteGraphPapersOnly(s) ==
  /\ "delete" \in Faults
  /\ deleting = None /\ Exists(s)
  /\ "busy" \in Faults \/ (current = None /\ active = None)
  /\ deleting' = s /\ doomed' = Named(s)
  /\ paper' = [d \in Docs |-> paper[d] \ {s}]
  /\ UNCHANGED <<source, rows, checkpoint, mishaps, apiVars, workerVars, entities, chunks,
                 active, ghostVars>>

DeleteGraph(s) ==
  /\ "delete" \in Faults
  /\ deleting = None /\ Exists(s)
  /\ "busy" \in Faults \/ (current = None /\ active = None)
  /\ deleting' = s /\ doomed' = Named(s)
  /\ paper' = [d \in Docs |-> paper[d] \ {s}]
  /\ entities' = [d \in Docs |-> entities[d] \ {s}]
  /\ UNCHANGED <<source, rows, checkpoint, mishaps, apiVars, workerVars, chunks,
                 active, ghostVars>>

DeleteChunks ==
  /\ deleting # None /\ doomed # None
  /\ doomed' = None
  /\ chunks' = DeleteChunksOf(DeleteChunksFrom(chunks, deleting), doomed)
  /\ UNCHANGED <<source, rows, checkpoint, mishaps, apiVars, workerVars, paper, entities,
                 deleting, active, ghostVars>>

(* ... best effort. *)
DeleteChunksFails ==
  /\ deleting # None /\ doomed # None
  /\ Fault("chroma")
  /\ doomed' = None
  /\ leftovers' = leftovers \cup {deleting}
  /\ UNCHANGED <<source, rows, checkpoint, apiVars, workerVars, storeVars, deleting,
                 active, stranded, listed>>

DeleteRow ==
  /\ deleting # None /\ doomed = None
  /\ source' = [source EXCEPT ![deleting] = "deleted"]
  /\ rows' = [rows EXCEPT ![deleting] = NoRows]
  /\ checkpoint' = [checkpoint EXCEPT ![deleting] = None]
  /\ deleting' = None
  /\ stranded' = stranded \ {deleting}
  /\ UNCHANGED <<mishaps, apiVars, workerVars, storeVars, doomed, active, leftovers,
                 listed>>

(* cleanup_workspace_data: sources that were added more than 15 minutes ago *)
(* and are running are reset, and the urls the job rows of existing sources *)
(* name are collected.  They ...                                            *)
CleanupScan(stuck) ==
  /\ Fault("cleanup")
  /\ active = None
  /\ "busy" \in Faults \/ (current = None /\ deleting = None)
  /\ stuck \subseteq Stuck
  /\ ResetToError(stuck)
  /\ active' = UNION {Named(s) : s \in {t \in Sources : Exists(t)}}
  /\ UNCHANGED <<rows, checkpoint, apiVars, workerVars, storeVars,
                 deleting, doomed, leftovers, listed>>

(* delete_source_documents: whatever sources they carry. *)
Purged(marks, docs) == [d \in Docs |-> IF d \in docs THEN {} ELSE marks[d]]

(* Broken: takes only the chunks of documents with rows left behind. *)
CleanupPurgeByRows ==
  /\ active # None
  /\ active' = None
  /\ LET gone == {s \in Sources : ~Exists(s)}
         orphans == UNION {Named(s) : s \in gone}
     IN /\ chunks' = DeleteChunksOf(chunks, orphans)
        /\ paper' = Purged(paper, orphans)
        /\ entities' = Purged(entities, orphans)
        /\ rows' = [s \in Sources |-> IF s \in gone THEN NoRows ELSE rows[s]]
  /\ UNCHANGED <<source, checkpoint, mishaps, apiVars, workerVars, deleting, doomed, ghostVars>>

(* Papers go whose url the job rows of a deleted source name, and then those *)
(* rows.                                                                     *)
PurgeRows ==
  LET gone == {s \in Sources : ~Exists(s)}
      orphans == UNION {Named(s) : s \in gone}
  IN /\ paper' = Purged(paper, orphans)
     /\ entities' = Purged(entities, orphans)
     /\ rows' = [s \in Sources |-> IF s \in gone THEN NoRows ELSE rows[s]]

Stale == AllUrls(chunks) \ active

(* ... keep their chunks, all others lose them. *)
CleanupPurge ==
  /\ active # None
  /\ active' = None
  /\ chunks' = DeleteChunksOf(chunks, Stale)
  /\ PurgeRows
  /\ UNCHANGED <<source, checkpoint, mishaps, apiVars, workerVars, deleting, doomed, ghostVars>>

(* The vector store does not list, or does not delete all: either is        *)
(* swallowed, and the cleanup goes on and answers "ok"; where it or the     *)
(* graph raises outside of that, the request ends there.                    *)
CleanupPurgeFails ==
  /\ active # None
  /\ Fault("chroma")
  /\ active' = None
  /\ \E kept \in SUBSET Stale : chunks' = DeleteChunksOf(chunks, Stale \ kept)
  /\ PurgeRows \/ UNCHANGED <<paper, entities, rows>>
  /\ UNCHANGED <<source, checkpoint, apiVars, workerVars, deleting, doomed, ghostVars>>

-----------------------------------------------------------------------------
DocSteps(d) ==
  \/ Skip(d) \/ MergePaper(d) \/ DropChunks(d) \/ AddChunks(d)
  \/ \E found \in BOOLEAN : Link(d, found)
  \/ DocFails(d) \/ SaveCheckpoint(d) \/ RecordDoc(d)

(* The worker's own steps, in the order the code gives them. *)
Work ==
  \/ BeginGone \/ Begin
  \/ FetchFails
  \/ phase = "fetch" /\ \E listing \in Feeds[Sid] : Fetch(listing)
  \/ StartDoc
  \/ \E d \in Docs : DocSteps(d)
  \/ Flush
  \/ Verdict

Mishap ==
  \/ EnqueueFails \/ BeginFails \/ RaiseOutsideTry \/ LoadFails
  \/ StartDocFails \/ FlushFails \/ VerdictFails
  \/ \E d \in Docs : SaveCheckpointFails(d) \/ RecordDocFails(d)
  \/ Crash \/ Reboot

Housekeeping ==
  \/ \E stuck \in SUBSET Sources : SweepStuck(stuck) \/ CleanupScan(stuck)
  \/ CleanupPurge \/ CleanupPurgeFails
  \/ \E s \in Sources : DeleteGraph(s)
  \/ DeleteChunks \/ DeleteChunksFails \/ DeleteRow

Next ==
  \/ \E s \in Sources : CreateSource(s) \/ \E force \in Forced : Retry(s, force)
  \/ ReingestWorkspace
  \/ Work
  \/ Mishap
  \/ Housekeeping

Spec == Init /\ [][Next]_vars

(* The worker goes on as long as its process lives, and compose starts it   *)
(* again; a request being handled is handled to its end.                    *)
Fairness ==
  /\ WF_vars(Work)
  /\ WF_vars(DeleteChunks \/ DeleteRow)
  /\ WF_vars(CleanupPurge)

FairSpec == Spec /\ Fairness

-----------------------------------------------------------------------------
(* A source is running only while a worker works on it, over retries,       *)
(* restarts, sweeps and deletions (docs/15: the invariant of source         *)
(* status), unless its job ended in one of the ways that set no status: the *)
(* process died, a store raised outside of _run_async's try blocks, or the  *)
(* last resort, _fail_source, failed as well.                               *)
RunningMeansWorking ==
  \A s \in Sources : source[s] = "running" =>
    s \in stranded \/ (current # None /\ Sid = s)

(* A successful source has something to search: docs/15's "success must     *)
(* have actually written searchable data", over crashes, resumed jobs,      *)
(* skipped documents and sources that list the same document.               *)
SuccessIsSearchable ==
  \A s \in Sources : source[s] = "success" =>
    \E d \in listed[s] : chunks[d] # None

(* A job row that says success names a document the workspace can search    *)
(* (process_document's skip check, _embed, the order row after stores).     *)
SuccessfulRowsAreSearchable ==
  \A s \in Sources, d \in Docs : rows[s][d] = "success" => chunks[d] # None

(* A checkpoint names a document that is done: what a resumed job skips as  *)
(* already processed is in the vector store (set_checkpoint comes after     *)
(* process_document returned).                                              *)
CheckpointIsDone ==
  \A s \in Sources : checkpoint[s] # None => chunks[checkpoint[s]] # None

(* A deleted source leaves nothing of its own behind: no paper, no entity   *)
(* and no chunk carries its id, whatever the jobs queued for it, the API's   *)
(* restarts and the cleanup do meanwhile (delete_source), save the chunks    *)
(* the vector store failed to delete.                                        *)
DeletedLeavesNothing ==
  \A s \in Sources : source[s] = "deleted" =>
    \A d \in Docs : /\ s \notin paper[d] \cup entities[d]
                    /\ chunks[d] # s \/ s \in leftovers

(* Those, a cleanup takes whose vector store answers: after it every chunk   *)
(* belongs to a source that is there (cleanup_workspace_data: "left behind   *)
(* by deleted sources").  And it takes no more, store failing or not: what a *)
(* job row of a source that is there names, as it purges, keeps its chunks   *)
(* ("it only deletes data that has no corresponding active source record"),  *)
(* though it looked at the rows a step before.                               *)
CleanupTakesLeftovers ==
  [][/\ CleanupPurge => \A d \in Docs : chunks'[d] # None => Exists(chunks'[d])
     /\ CleanupPurge \/ CleanupPurgeFails =>
          \A s \in Sources : Exists(s) =>
            \A d \in Named(s) : chunks'[d] = chunks[d]]_vars

(* Every source waiting for ingestion gets a verdict, or is deleted, unless *)
(* its job could not be enqueued, died with the worker or ended where a     *)
(* store raised and nobody set a status.                                    *)
EveryRequestIsServed ==
  \A s \in Sources :
    source[s] = "pending" ~> \/ source[s] \in {"success", "error", "deleted"}
                             \/ s \in stranded
=============================================================================
