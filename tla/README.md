# knowledge-graph-engine in TLA+

Specifications of the knowledge graph engine's backend: the two ways a source is
ingested, the graph it is written to (one database or several shards), the
processes' own memory, the answering of questions with its caches, conversation
threads, deep research, and sessions. TLC checks them on small instances; TLAPS
proves all but the liveness properties for every value of the constants.
`PROJECT.json` lists the runs, the mutants that show each property can fail, the
findings, the hazards, and for every definition the source lines it stands for.

Run a model with `tlc -workers 2 -config <run>.cfg <module>` (the table in
section 3) and the proofs with `tlapm <module>.tla` for the eight modules whose
name ends in `Proofs`.

## 1. The system

A user owns workspaces; a workspace has sources (an arXiv query, a feed, a page,
a PDF). Ingestion fetches a source's documents and writes each one into Neo4j
(papers, authors, topics, extracted entities and relationships, every one with
the list of source ids that assert it) and into ChromaDB (chunks, keyed by the
document's url and tagged with the source id). PostgreSQL holds users, tokens,
sources, threads and one job row per document; Redis holds the RQ queue,
checkpoints, caches and the resolver's registry. Questions are answered from both
stores and saved as turns of a thread.

| component | state | operations | talks to | what is hard | what makes it correct |
|---|---|---|---|---|---|
| Worker registry (`coordinator/registry.py`) | pending deque, workers, batches, one lock | add_documents, register, request_work, heartbeat, complete, reap_dead | called by the servicer, scheduler and reaper tasks | reaped workers that live; reports after reassignment; a worker that comes back | each document in one place; closed batches stay closed; retries first; nothing lost |
| Job tracker (`job_tracker.py`) | job rows, source status | create_jobs, mark_assigned, mark_completed, rollup_sources | servicer and scheduler | writes that land late or not at all; two transactions per report | a success is final; verdicts only when every document has one |
| Coordinator (`server.py`, `scheduler.py`) | tasks under way | four RPCs, poll, reap | registry, tracker, fetchers | registry and rows are written in two steps | rows follow the registry; sources finish |
| Worker client (`worker_client.py`) | current batch, outcomes, heartbeat task | session, batch loop, heartbeat loop, stop | coordinator by gRPC | lost calls, revocation in mid-batch, crash, stop | an unreported batch is taken back |
| Ingestion job (`ingestion/jobs.py`, `worker.py`) | checkpoint, five documents at a time | fetch, resume, process, record, verdict | all four stores | crash between stores, checkpoint out of order, skip check, store failures | success means searchable; every job ends in a verdict |
| Source routes (`api/routes/sources.py`), startup (`main.py`) | source rows | create, retry, reingest, stuck sweep, delete, cleanup, reset | queue and all stores | running beside a job; several stores, best effort | deletion leaves nothing, and takes nothing of others |
| Graph (`db/neo4j.py`), conflict detector | nodes and edges with source ids, flags, conflict edges | merge, scan and flag, remove a source | ingestion, retrieval | statements of several documents and of a deletion between one another | attribution is whole; what is written stays; each contradiction is flagged |
| Shard router (`db/shard_router.py`) and scattered reads | several graphs | merge_node, merge_edge, run_read, find_connection, degrees | ingestion, retrieval, agents | edges across shards, stubs | behaves as one graph |
| Vector store (`db/chroma.py`), backups (`core/chroma_backup.py`) | chunks; timer, snapshot | add, delete by url or source; trigger, backup, restore | ingestion, retrieval | replacement in two steps; a trigger during a backup; a timer that dies with its process | every write is backed up in the end |
| Entity resolver | canonical names, in the process and in Redis | load, resolve, resolve_async, flush | LLM, Redis | registry read, LLM awaited, registry written | one name per entity |
| Question pipeline (`core/qa_pipeline.py`, `graph_retriever.py`, `routes/questions.py`) | caches in Redis | route, retrieve, repair, invalidate | Redis, LLM, stores | a write after an invalidation; a loop of repairs; two queries in one slot | nothing cached outlives an invalidation unnoticed; every question ends |
| Conversations, deep research | threads, turns, rolling summary; sub-agents | ask in a thread, stream, summarise, research, delete | question pipeline, PostgreSQL | two questions at once; deletions under way; a client that leaves | turns are numbered and remembered; what is announced is saved |
| Authentication (`routes/auth.py`, `frontend/src/api.ts`) | refresh tokens, cookies | register, login, refresh, logout | PostgreSQL, browser | two refreshes with one token, a lost answer | a session that ended stays ended; nobody else's reuse ends mine |
| Fetchers, extractor, LLM client, breakers, observability, evaluation, user interface | little or none | | | | not modelled (section 5) |

Two ways lead from a pending source to its documents, and a deployment uses one:
the RQ worker (default), or the scheduler, registry and pool
(`docker compose --profile distributed`).

## 2. The modules

| module | models | |
|---|---|---|
| `DocumentPool` | what the registry promises: a document is `new`, `waiting`, `leased` to one worker or `settled` | abstract |
| `WorkerRegistry` | `registry.py`; ends with the refinement mapping `Pool == INSTANCE DocumentPool WITH place <- PoolPlace, holder <- PoolHolder` | component |
| `JobTracker` | `job_tracker.py`, one committed transaction per action | component |
| `DistributedIngest` | `INSTANCE`s the registry and the tracker and adds servicer, scheduler, reaper and worker clients | composition |
| `SourceIngest` | the RQ job, the steps of a document, source routes and startup recovery over all stores | component |
| `VectorStore` | which source each document's chunks belong to, as operators that `SourceIngest` applies | operators |
| `GraphStore` | the writing Cypher statements on one database, as operators | operators |
| `GraphReads` | the reads: lookups, neighbours, degrees, paths, gaps, disputes | operators |
| `GraphWriter` | the order in which a document is written, for whichever store | shared part |
| `KnowledgeGraph` | `GraphWriter` on one database, the conflict detector and the deletion of sources; the abstract specification of the next | component, abstract |
| `ShardRouter` | `GraphWriter` on several databases; ends with the refinement mapping onto `KnowledgeGraph` | component |
| `EntityResolver`, `ChromaBackup` | the resolver; backups of the vector store | components |
| `IngestionWorker` | both in the worker's process, over jobs, crashes and restarts | composition |
| `QuestionAnswering` | the question pipeline and its caches beside changes of the data | component |
| `DeepResearch` | plan, sub-agents, synthesis, judging | component |
| `Conversations` | threads, turns and summaries under concurrent requests; extends `DeepResearch`, whose reports become threads | composition |
| `Sessions` | refresh tokens, the routes and the client's retries | component |
| `MC...` | the small instance of each run | TLC |
| `WorkerRegistryProofs`, `DistributedIngestProofs`, `SourceIngestProofs`, `KnowledgeGraphProofs` (also of `ShardRouter`), `IngestionWorkerProofs`, `QuestionAnsweringProofs`, `ConversationsProofs`, `SessionsProofs` | theorems | TLAPS |

The composition runs along the data: the pool decides which documents are
processed (`DistributedIngest`), a job says in which states of the stores one is
(`SourceIngest`), a document's statements are written one by one (`GraphWriter` in
`KnowledgeGraph` or `ShardRouter`), the process that does it keeps names and a
timer (`IngestionWorker`), and questions read the result while it changes
(`QuestionAnswering`). They meet in named operators rather than in one state: what
a later model takes from an earlier one is a constant (`Script`, `SourceOf`,
`Mentions`, `Finds`) or a bounded nondeterministic step (`Change`).

### WorkerRegistry

`pending`, `workerState`/`workerBatch` (the `_workers` dict; `unknown` for a
worker without a record), `batchState`/`batchOwner`/`batchDocs` (the `_batches`
dict). Every method holds the registry's lock from first to last line without
awaiting anything else, so each is one action. `last_seen` and the timeout become
`silent`, the workers not heard of for longer than the timeout; each method takes
a worker out where the code sets `last_seen`. `Docs` are `DocRef` objects and each
is handed in once (`added`); that two may carry the same url does not matter to
the registry, which never compares them. The reaper walks the worker dict, whose
order is that of registration; the model lets it be any order and keeps only that
the documents of a batch stay together. Batch ids are fresh (uuid4), and the set
`BatchIds` bounds how many batches a behaviour has. Hosts, progress counts,
counters and `status_snapshot` are left out.

### DistributedIngest

A handler runs its registry call, then awaits its tracker write, then answers.
The writes under way are the set `writes`, so writes of different handlers land
in any order and each can fail (`_track` logs and goes on), while the client waits
for its own. `mark_completed` is two transactions, hence two writes. `phase` is
where a worker's coroutine stands and `beating` holds those whose heartbeat task
is alive. Heartbeats are one action: a late answer is the same as a late call.
`touch_heartbeat` writes a timestamp only.

A run names the faults it allows (`Faults`) and bounds them (`Mishaps`). Two
timing assumptions hold unless a run lifts them: heartbeats and tracker writes
end within the 30-second timeout (`Quiet`, lifted by `"slow"`), and a document
takes longer than creating the rows of its source (`HasRows`, lifted by
`"fast"`). The last live worker is never killed.

### SourceIngest

One action per step between two awaits of a store. `source` and `rows` are
PostgreSQL, `checkpoint` and `queue` Redis, `paper` and `entities` the source ids
in the graph, `chunks` the source id on a document's chunks. `stage` is how far
each of the (at most `Concurrency`) documents under way has come; `process_document`
writes papers, authors and categories (`MergePaper`), replaces the chunks in two
steps (`DropChunks`, `AddChunks`), and writes what was extracted (`Link`). An LLM
failure is swallowed by `extract_entities`: then there is nothing to link and the
document is done. The extraction runs beside the embedding but touches no store.
What fails, fails where the code awaits it, and goes where the code lets it go: into a
row (`StartDocFails`, `RecordDocFails`), to `_fail_source`, which may fail in its turn
and says nothing then (`LoadFails`, `VerdictFails`, `FailSource`), or out of the job,
before and between its try blocks (`BeginFails`, `RaiseOutsideTry`).
A crash stands for the worker's death and for RQ's 30-minute timeout, neither of
which lets the job run its handlers. `Reboot` is a new start of the API, which
resets whatever is running, also a live worker's source, and forgets the request
it was handling.

Ages are left open: the stuck sweep may take any running source that was never
fetched, the cleanup any running source. `deleting`/`doomed` and `active` are what
the delete and cleanup routes have read and not yet acted on. A deletion that does
not reach the vector store leaves its chunks behind (`leftovers`) for the cleanup,
whose own failures in the vector store are swallowed: it then leaves any part of them
and answers "ok" (`CleanupPurgeFails`).
Deleting and cleaning up during a job is a fault of its own (`"busy"`), which the
runs leave out (section 3, findings). Left out: documents without a url, data older
than source_id tagging, the dead-letter queue, a workspace's other sources.

### The graph: GraphStore, GraphWriter, KnowledgeGraph, ShardRouter, GraphReads

A database is a record: the nodes and edges there are (`has`), which nodes are
stubs, which sources assert each (`by`), the document each edge was first asserted
by (`doc`), the flagged claims. `GraphStore` has one operator per writing statement;
each is a transaction of its own in the code and one action in the models.
`GraphWriter` walks the `Script` of a document, the items `process_document` writes
in its order, with the chunks (`Embed`) where the code writes them. `pos` is the
next item and `check` how far its write has come: a claim is merged, then scanned
against, flagged, and recorded as a dispute in three further transactions. A run of
a document can fail anywhere and be started again (`Tries`); it skips if there are
chunks.

A paper has two keys in the code: its own document is merged by `arxiv_id`, one the LLM
finds in a text by name, while `merge_edge` looks for papers by `arxiv_id` only. `Papers`
are the nodes of the first kind; one of the second is an ordinary node of the script,
and its edges have at their end the paper of that `arxiv_id`, which the document did not
write and which is mostly not there: one database writes no such edge, and if it does,
the edge goes with that paper. `Loose` is the set of these edges, which the properties of
attribution except (findings).

`KnowledgeGraph` applies this to one database and adds `remove_source_from_graph`:
edges, then nodes with `DETACH DELETE`, with other documents' statements in
between. `ShardRouter` applies the same writer to a function from shards to
databases. An edge goes to the shard of its source, and a stub of a target that
lives elsewhere is made first, in a statement of its own (`"stubbed"`). The mapping
takes the union of the shards without their stubs (`Logical`), and of it what a single
database would hold as well (`Known`): the router makes every target, so papers that are
only cited become nodes, with their edges. The stub's statement is a stutter. Its actions are called `Router...`, so that one module can extend it and
`KnowledgeGraph`. The router has no deletion, hence `Deletable <- {}` (a finding: the delete
routes reach one database only).

`GraphReads` states what the code reads, over a function of databases, so that one
operator serves the single graph (`<<Logical>>`) and the shards; the properties of
`ShardRouter` compare the two. `Lengths` are those of simple paths, of which
`shortestPath` returns a smallest.

### EntityResolver, ChromaBackup, IngestionWorker

Similarity of two names is a constant (`Level`, four bands). A resolution that asks
the LLM is two actions with anything in between. `registry` is the process's,
`stored` Redis's; `raced` and `lost` are history: the two ways known for a name to
become a second node. The backup's `timer` is the debounce thread, `archive` what a
backup under way has packed, `due` what a successful job embedded and no backup has
taken, `missed` what one left out for a known reason. `IngestionWorker` runs jobs
(`Begin`, the documents' mentions, flush, `End` with the trigger), kills the process
(`Crash`), restarts the Space (`Restart`: empty Redis and disk, restore of the last
upload) and lets the daily loop run. `HorseEnds` is rq's forking worker, whose
process ends with each job.

### QuestionAnswering

Graph, sources and the workspace's profile each have a version, which a `Change` raises;
who changed them owes a `Clear` of the caches (`owed`), which comes later. Nothing clears
for the profile; a clearing for the sources takes the suggested questions along. An entry
records the versions it was read from (`read`), a view's in the order the code reads them. `ask` follows a question through `run_graph_query`:
cache, generation, probe, execution, repair, broadening, the side reads, the store;
the vector branch runs beside it. A store may never answer (`Hang`): of the calls a
question awaits only the LLM's have a timeout. `Finds` says which query finds rows in which
version, `Key` what it is hashed to. `look` is a reader of a cached view (influence,
communities, gaps, suggested questions), read and stored in two steps. `late` is
history: the caches were cleared between the reading and the writing.

### Conversations and DeepResearch

Each request is cut where it awaits the database or the LLM: `ask` says what it has
loaded, and is saved in up to three steps (`Save`, `Persist`, flush and commit) under
the row lock a flush takes. Loading a thread is two steps, its row with the summary and
the count of its turns; the third query, the turns of the window, goes into the prompt
only. The stream loads the thread again when it begins. A
thread's and a workspace's deletion read first and commit later (`doomed`, `purge`).
`disturbed` names the threads for which numbering and memory are not promised: two
questions at once, a deleted turn, an LLM that did not fold. `DeepResearch` counts
waiting, running and answered sub-agents; the client may leave at any point
(`StreamEnds`).

### Sessions

`tokens` is the refresh_tokens table in order of issue; `login` names the token a
session began with. A tab's request is sent, read by the handler (`live`), answered,
and received or lost; a lost refresh is sent again with the cookie of that time.
Cookies belong to a browser, which its tabs share without waiting for one another.
Access tokens, refresh tokens and cookies expire at any time.

## 3. The runs

| run | configuration, module | instance | states | result |
|---|---|---|---|---|
| `registry` | `WorkerRegistry.cfg`, `MCWorkerRegistry` | 2 workers, 3 documents, 3 batches | 36 thousand | holds |
| `pool_safety` | `PoolSafety.cfg`, `MCDistributedIngest` | 2 workers, 2 documents, 3 batches, all nine faults, 2 of them | 1.3 million | holds |
| `pool_liveness` | `PoolLiveness.cfg`, `MCDistributedIngest` | the same with 6 batches, crashes and failed heartbeats, 2 of them | 243 thousand | holds |
| `ingest_faults` | `IngestFaults.cfg`, `MCSourceIngest` | 2 sources with a common document, 3 jobs, 2 faults of five kinds | 1.4 million | holds |
| `ingest_housekeeping` | `IngestHousekeeping.cfg`, `MCSourceIngest` | 2 sources, 2 jobs, forced or not, 2 faults of any kind but `"busy"`, deletions, cleanups | 515 thousand | holds |
| `graph` | `Graph.cfg`, `MCKnowledgeGraph` | 3 documents of 2 sources that disagree, one with an extracted paper, each run twice, both deletable | 390 thousand | holds |
| `shards` | `Shards.cfg`, `MCShardRouter` | 2 documents that disagree and cite a paper, 3 shards, each run twice | 35 thousand | holds |
| `worker` | `Worker.cfg`, `MCIngestionWorker` | 2 jobs that share a paper, 3 names, 2 mishaps | 565 thousand | holds |
| `ask` | `Questions.cfg`, `MCQuestionAnswering` | 1 asker, 2 questions, 3 queries of which two share a key, 2 views, 1 change of each of 3 bases, 2 in all | 601 thousand | holds |
| `threads` | `Conversations.cfg`, `MCConversations` | 2 askers, 2 threads, 4 turns, a window of 2, 1 deletion | 970 thousand | holds |
| `sessions` | `Sessions.cfg`, `MCSessions` | 2 users, a browser with two tabs and one with one, 3 tokens | 2.3 million | holds |
| `worker_forking` | `WorkerForking.cfg`, `MCIngestionWorker` | as `worker`, no mishaps, rq's forking worker | | violated |

*What the passing runs show.* Whatever reaches the registry in whatever order, a
document is waiting once or in one batch that can still report; a batch taken away
stays away; documents taken back go first (`registry`). Rows finish only as an
accepted report says, a success is never undone, and a source's verdict waits for
all its documents, through crashes, restarts, stops, lost calls, failed writes and
late heartbeats (`pool_safety`). With a worker left alive and no batch forgotten,
everything finishes (`pool_liveness`). A source that is a success has something to
search, and a row or checkpoint that says done names a document with chunks
(`ingest_faults`). Only a source with a job runs, or one whose job ended in one of three
ways that set no status; deletion leaves nothing of a source but what the vector store
failed to delete, which a cleanup takes when that store answers, and never more; and
every request ends, or ended so (`ingest_housekeeping`).
Whoever asserts an edge asserts its endpoints, what a run has written stays, a
deletion takes nothing of others, each but for edges to papers their document did not
write, and of two documents that contradict each other one sees the other, in any
interleaving (`graph`). `DeletionSpares` is of documents and deletions: the cleanup's
`delete_source_documents` takes others' marks too (a finding). Several shards are one
graph, step by step, up to papers that are only cited, and the scattered reads report
what the shards hold together, up to the differences `ReadsAreWhole` and `PathsAreSound`
name (`shards`). Two spellings of
a name become two nodes for two reasons only, and what a success embedded is backed
up but for the reasons stated (`worker`). A cache entry is stale only while a
clearing is owed or because it was read before one and written after it, rows belong to
the Cypher they are shown with, and every question ends unless a store leaves a call
unanswered (`ask`). In an undisturbed thread every turn is in the window or the
summary and numbered in order; a report announced is there; no turn enters a
deleted thread (`threads`). A session nothing disturbed survives whatever others do,
and one that is over stays over (`sessions`).

*Findings.* `PROJECT.json` tells each beside the sentence of the repository it
contradicts. One has a run of its own: under `rq worker` the backup's timer dies
with the job's process (`worker_forking`). The others were met while modelling and
show as what a property has to except or a run has to leave out:

- `pool_liveness` fails with the fault `"restart"` (a worker that registers again
  before it is reaped strands its batch) and with `"fast"` (rows created after a report
  never close);
- `ingest_housekeeping` fails with `"busy"` (deleting does not stop a job; a cleanup takes
  what a job has just written); what a job leaves without a status, by a crash, an error
  outside of its try blocks or one in `_fail_source`, is `stranded`, which
  `RunningMeansWorking` and `EveryRequestIsServed` except, and a cleanup whose vector
  store fails is promised only to take no more than it should;
- the graph's properties except `Loose` edges, and `ImplementsGraph` what `Known` leaves
  out: what becomes of papers that the extractor finds;
- `StaleMeansLate` excepts what is `owed`, for a workspace's new profile until its sources
  change, and `EveryQuestionEnds` a store that never answers;
- `SuccessIsSearchable` says "some document" of a source, for the checkpoint of a
  document that overtook another hides the other from the resumed job; `ingest_faults`
  has neither deletions, after which a document two sources list is gone for the one
  that skipped it, nor cleanups, which read job rows that a failed re-ingest has just
  deleted, nor forced jobs;
- the other modules' properties except what their history variables record (`raced`,
  `lost`, `missed`, `late`, `disturbed`, `skipped`, `unchecked`), each for the reason
  its comment names.

*Bounds.* Two workers are the owner and the one that takes over. Batch limits 1
and 2 give batches that hold all or some of the documents. Two mishaps let one
fault strike while another is being repaired. Six batches in `pool_liveness` are
more than two mishaps can use up, so that no worker is without work for want of an
id. Two documents at a time are enough for one to overtake the other; a third job
lets a source be resumed and the other one come in between. In `graph`, one source
has two documents and the other one, so that a source's second document writes
while the first one's claims are in dispute, and a deletion of either leaves the
other; two runs of each give the skip and the repeated write. In `shards`, a shard
holds a triangle of a paper and two entities, another only a disputed concept, the
third a neighbour of it, so that edges, stubs, paths and disputes within and across
shards all occur; `MaxHops` 3 is one more than the paths the code joins itself. In
`ask`, three attempts are `MAX_CYPHER_ATTEMPTS` and two questions let one read what
the other cached; one change of each base is enough because an entry is older than it or
not. In `threads`, four turns move two out of a window of two; two askers overlap.
In `sessions`, two tabs share a browser and three tokens are a login, its exchange
and another user's or the exchange of that; `worker` has the two spellings in two
documents of one job and of two. `CHECK_DEADLOCK FALSE` is said where the system
may come to rest: all requests served, or a bound reached. `registry` checks
deadlock.

*Types.* `TypeOK` is an invariant of the runs of `WorkerRegistry`, `DistributedIngest`
and `SourceIngest` and a theorem of each; those of `KnowledgeGraph`, `IngestionWorker` (with the resolver and
the backup), `QuestionAnswering`, `Conversations` and `Sessions` are theorems (section 4)
and are not run again.

*Symmetry* is used in safety runs only: workers (and documents of the registry),
askers and threads, the two tabs of one browser.

*Fairness.* `DistributedIngest`: the scheduler and the reaper loop until shutdown,
an RPC's database call ends, a worker's loop goes on while its process lives,
documents' processing ends, and time passes (a worker that is quiet is silent in
the end). Weak fairness of each worker's client actions and of its heartbeats is
asked for separately, they are two tasks. `SourceIngest`: the RQ worker goes on as
long as its process lives and compose starts it again; a request under way is
handled to its end. `QuestionAnswering`: a request's coroutine goes on once the call it
awaits has come back; that it does is not assumed, as `Hang` may always come first. `IngestionWorker`: the timer's thread runs as long as
its process does; under the forking worker, jobs go on and the work horse ends
whenever it can again and again (strong fairness, as retries may put a job between).
No fairness is assumed of faults, of users' requests, of expiries or of the
stuck sweep, which runs only when somebody lists sources. The number of cleanups is
bounded: one after the other without end would, in a run that keeps jobs and
housekeeping apart, keep the worker from starting.

## 4. The proofs

Everything in the eight modules of proofs holds for arbitrary values of the constants
under the named assumptions of the module (`RegistryAssumption`, `IngestAssumption`,
`SourceIngestAssumption`, `NoneAssumption`, `GraphWriterAssumption`,
`GraphReadsAssumption`, `ShardRouterAssumption`, `ResolverAssumption`,
`IngestionWorkerAssumption`, `QuestionAssumption`, `ResearchAssumption`,
`ConversationsAssumption`, `SessionsAssumption`): that limits and bounds are numbers,
functions have the domains they are applied to, `None` and its like are no members of
the sets they complete, and (`GraphWriterAssumption`) that a document's script names
both endpoints of an edge before the edge, papers excepted: `process_document` writes a
relationship only if both of its entities were resolved, and merged, before. Finite are
only the sources of `SourceIngest` (a re-ingestion puts them in an order), the documents
of `DistributedIngest` (a source's are listed) and the shards (a fixed list of
connections); nodes, documents of the graph, turns and users are not. A theorem that
needs more says so in an `ASSUME` of its own, and the paragraph below says why.
In each module `IInv` (`RegistryInv`, `ShardInv`) is the inductive invariant; one
lemma per action shows that the action keeps it, and the theorems follow by PTL.

**Registry.** `RegistryInv` is the conjunction of `TypeOK`, `OnePlaceEach`,
`RecordPointsAtOwnOpenBatch`, `RetriesComeFirst` and `BatchDocsWereAdded`. They need
each other: that the reaper puts a document back without doubling it rests on the
batch being open and owned by the reaped worker, and that a new document is in no
batch rests on `BatchDocsWereAdded`. The lemmas say what each operation does to the
*places* of a document (how often it waits, which open batches hold it): appending,
taking a prefix and putting back blocks are proved once and used by the steps.
`RegistryTypeCorrect`, `NothingLostOrDoubled`, `ReaperTakesOnlyOwnBatches`,
`RequeuedDocumentsComeFirst` and `ClosedBatchesStayClosed` follow.
`RegistryImplementsPool` is the refinement: `PlacesByBatch` computes `PoolPlace` and
`PoolHolder` from the state of a document's batch, and then each operation is shown
to be `Add`, `Lease`, `Settle`, `TakeBack` or a stutter of `DocumentPool`.

**DistributedIngest.** The composition takes only steps of the registry's own
specification (`RegistryIsUsedAsSpecified`): each handler calls one method with arguments
it allows, a heartbeat or a report naming the batch the client was given. So
`RegistryInv` holds here too, and the whole system implements the pool
(`SystemImplementsPool`). On top of it `IInv` says that a client between two requests
speaks of a batch that is its own and not completed (`ClientsSpeakOfTheirBatch`), that
what is decided was in a completed batch (`DecidedInDoneBatches`), and that writes under
way say what the registry accepted (`WritesFollowReports`): with these a write that lands
late, after the batch went to another worker, still writes what `outcome` says.
`SourcesAreFetchedOnce` and `RowsAreWhole` follow the scheduler, so that a verdict is over
all rows of a source. `RowsFollowReports`, `VerdictsEarned` and `SuccessFinal` (which
speaks of the tracker's rows) follow under every fault. `NoneIsStranded` assumes
`NobodyForgets`: a worker that registers again under its id, and an answer to a request
for work or a report that is lost, each leave a batch open that its worker has forgotten
(a finding). Its invariant `LeaseInv` says that an open batch's owner is on it, has
died or is stopping.

**SourceIngest.** `Shape` (the types, and which phase a job is in) is inductive: `Typing`.
With it `RunningMeansWorking` is inductive too, under every fault, the busy deletions and
cleanups that the runs leave out included: `RunningSourcesAreWorkedOn` assumes nothing,
since `stranded` is raised by a crash, by errors outside of the try blocks and by
`_fail_source`, and by no other end of a job. `RowsAreEarned` and `CheckpointsAreEarned` hold where
nothing is forced, deleted or cleaned up; each of the three may take chunks away from
under another source's row. Their invariant `Kept` says what a document's stage tells of its chunks
(`StagesTellChunks`): between merging the paper and embedding it has none, since it
passed the skip check, so that `DropChunks` takes nothing another source's row or
checkpoint relies on. That rests on `NothingIsForced`, of the queue and the job under way.
`SuccessIsEarned` adds `Listed` (stages, rows, checkpoints and chunks are of documents the
source lists) and `JobHasOutcome` (a job has a document before it, under way or embedded),
under `SteadyFeeds`: a source lists the same documents each time. Without it the checkpoint
may name a document that is listed no more, and the resumed job skips the whole listing
(a finding). `DeletionIsComplete` and `CleanupIsComplete` exclude `"busy"`, a job of the
source that goes on beside its deletion and writes after it (a finding). The first needs
that a deletion has taken the source's marks before its row goes (`DeletionAdvances`),
the second that what a cleanup spares is listed by a source that is there
(`ActiveAreClaimed`); with `FeedsApart`, as the cleanup goes by documents, and one that
two sources list keeps the chunks of the deleted one. It speaks of a `CleanupPurge` whose
vector store answers; that nothing is taken which a row of a source that is there names
holds of `CleanupPurgeFails` too.

**KnowledgeGraph.** Lemmas first say what each statement of `GraphStore` does to `has`
and `by`. `EdgesAreAnchored` is not inductive alone: an edge is merged into a graph
that must still hold its endpoints for that source (`RunsHold`: what a run has got to
is asserted, which the script's order turns into the endpoints, but for `Loose` edges), the writing source
must not be under deletion (`WritersAreLive`), and after the first statement of a
deletion the source must assert no edge, or the second would take its endpoints
(`EdgesGoFirst`). `Anchoring`, `WrittenStaysWritten` and the action property
`DeletionsSpare` follow.

`ContradictionsAreFound` orders the merges and scans of two opposite claims, in `Disputed`.
The document that merges its claim last scans a graph that holds the other's, since a
claim there names a document that makes it (`ClaimsNameDocuments`, `DocumentsAssert`);
from then on one of the two checks is under way or over (`ContradictionsMeet`), and what
it leaves no deletion takes (`DisputesAreNobodys`). The last needs
`DisputesAreTheDetectors`: no source that may be deleted names a dispute itself. The
extractor does not ensure that (a finding).

**ShardRouter.** In `ShardInv` a shard holds the nodes and edges that live there, and of
others stubs only (`ShardsFit`); a stub stands for a node that is on its own shard
(`StubsStandForNodes`); what a run has written is there (`RunsStand`); and while an edge
is written and checked its shard has the target (`ChecksHaveTargets`). `LogicalGrows`
says what a statement on one shard adds to the union of all, and with it each action is
one of the single graph's under the mapping: the scan of one shard sees every
opposite claim, because opposite claims have one source node; the edge's statement
merges where the single graph's does, because both ends stand. `EnsureTarget` changes
nothing of what is `Known` and is a stutter. `ShardsAreOneGraph` is the refinement, where
no document cites another by its `arxiv_id` (`CitedApart`): there the router writes an
edge that the single database writes only if the other paper came first.

The reads follow from the same invariant. `ReadsAreOfOneGraph` also needs that the shards
are finite (`ShardsFinite`, one item more with each statement) and that a sum over
disjoint parts is the size of the whole (`SumIsTheWhole`, with `SumIsThere` for the
function that `MapThenSumSet` chooses). `PathsAreOfOneGraph` needs that a path on
a part of the graph is one on the graph (`PathsOfAPart`), hence a length that a shard
reports one of the whole (`ShardPathsAreReal`), that what two ends have in common makes a
path of two edges, and that the edge between two entities is read from its own shard, by
their names (`NeighborsAreRead`). `GapsAreNowhereJoined` holds although edges
that leave a shard are not loaded: a gap and what its ends have in common are on one shard,
and so would be the edge.

**IngestionWorker.** `NamesAreDistinct` speaks of nodes, while a name is looked up in the
registry of the process: `ProcessKnows` and `RedisKnows` say that no node escapes it but
the lost ones (while a job runs, and before and after), `KnownAreNodes` that nothing else
is in there, and `AskingIsUnderway` and `FlushedIsOver` that a flush comes after the last
adjudication. `DistinctNames` and, for a process per job, `DistinctNamesForking` follow.

**QuestionAnswering.** `StaleMeansLate` speaks of the cache; what will be written there
is in the questions and readers under way, so `QuestionsAreFresh` and `ViewsAreFresh`
say the same of them, and `OwedIsBounded` that a clearing that is owed was a change. A
view made from the profile is made from the sources too, so that the clearing which
settles what is owed for the profile reaches it.
`AnswersMatchTheirCypher` rests on `CacheFits` (a slot's rows have the slot's key) and
on `QuestionsFit`, which follows a question through its stages.

**Conversations.** A turn is flushed under the lock of its thread's row, which is there
(`LockedIsOpen`): `DeletedThreadsGetNoTurn`. `AnnouncedReportsAreThere` needs that
whatever a deletion is going to take belongs to a thread that goes with it
(`DoomedAreItsOwn`, `PurgeIsWhole`, `TurnsHaveThreads`), and of a run that its
sub-agents add up (`RunsAddUp`) for its types. `Remembered` adds the numbering: in an
undisturbed thread a turn's index is the number of turns before it (`Numbered`), a turn
that has left the window is in the summary (`Covered`), and a question under way knows the
summary, then the count, then the turn that its own will push out (`UpToDate`). `TurnsCountUp`
and `NothingIsForgotten` follow. That a new id is greater than all needs that ids are
bounded (`IdsAreBounded`) and have a maximum.

**Sessions.** `SessionsSurvive` needs that a token is known to one browser
(`OneHolder`) of its own user (`Owned`), that an undisturbed browser has one request at
a time (`OneRequest`), and that the tokens a request carries are not revoked before
its answer (`RequestsAreGood`). `EndedSessions` is an action property: no action but an
exchange under way gives a session a new token (`TableLasts` for those that only
revoke or expire, `BeginsLive` for a sign-in, which begins a session of its own).

*Induction.* Three definitions compute by recursion or over a set of any size: the sum over
shards, the smallest length of a path, the greatest id. What is needed of them is shown with a
smallest counterexample (`WFMin`, of the strict subsets of a finite set or of the natural
numbers) in the place of induction, whose library theorems the provers cannot instantiate.

*Only model-checked.* Liveness (`EveryDocumentIsSettled`, `EverySourceFinishes`,
`EveryRequestIsServed`, `EveryQuestionEnds`, `SuccessIsBackedUp`), out of the prover's
reach. Every invariant and action property of the runs is also a theorem, under the
hypotheses above.

## 5. Not modelled

- A restart of the coordinator: its registry is in memory and `docs/09` calls it a
  single process without failover. A source scheduled a second time on the pool.
  A listing that changes between two fetches.
- Two sources in one batch of the pool: with two mishaps the instance is too large for
  the time a run has.
- Fetchers, extractor and chunker: functions of the network and of one document, of
  which the models take any result (`Feeds`, `Script`). The LLM client: a bounded retry
  without shared state. The circuit breakers: no real call passes through them (a
  finding).
- The answer cache with its in-flight lock: nothing calls it (a finding). The
  embedding and route caches hold functions of their keys.
- PageRank and Louvain, the explorer's layout, rankings, prompts, trust scores: data
  without state. Metrics, rate limits, stateless security checks, evaluation scripts,
  the user interface but for the client of `Sessions`.
- A workspace's deletion beside ingestion jobs (beside questions it is in
  `Conversations`).

## 6. Plan

Done: the pool, the RQ job and its routes; the graph, its conflicts and its shards; the
worker's process; questions and caches; threads and deep research; sessions; the safety
of all of them proved. Next, in this order:

1. Workspace deletion beside jobs, on top of `SourceIngest`; listings that change between
   two fetches, for the worker client and for a resumed job.
2. Theorems for the two models whose lemmas are there already: a source's attribution over
   shards (`EdgesAreAnchored` of `Logical`), and the pool's rows after a failed commit of
   the scheduler.
3. `CleanupIsComplete` for sources that share documents, with the chunks that then stay
   behind as part of the statement; documents that cite each other by `arxiv_id`, with the
   edges by which the shards then differ.
