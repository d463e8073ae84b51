--------------------------- MODULE DistributedIngest ----------------------------
(***************************************************************************)
(* The distributed ingestion pool: the coordinator process (server.py,     *)
(* registry.py, job_tracker.py, scheduler.py) and its workers              *)
(* (worker_client.py), with every await at which another task, the         *)
(* database or the network can come in between.                            *)
(*                                                                         *)
(* A gRPC handler runs its registry call atomically, then awaits its       *)
(* tracker write, then answers.  Writes under way are the set `writes`;    *)
(* the client goes on only when the handler has answered.  A heartbeat is  *)
(* one action: a late answer is a late heartbeat.                          *)
(*                                                                         *)
(* Faults names what may go wrong in a run, Mishaps bounds how often.      *)
(***************************************************************************)
EXTENDS Naturals, Sequences, FiniteSets, Functions

CONSTANTS Workers, Docs, BatchIds, Limits, Nobody, NoBatch,
          Sources, SourceOf,
          Faults,      \* the kinds of fault a run allows, see FaultKinds
          Mishaps      \* how many faults may happen, in all

FaultKinds ==
  {"crash",       \* a worker process dies
   "restart",     \* ... and comes back under the same worker id
   "stop",        \* WorkerClient.stop(): the worker leaves at the next document
   "network",     \* the connection breaks before an answer arrives
   "heartbeat",   \* a Heartbeat call raises, and with it the heartbeat task ends
   "report",      \* a ReportCompletion call raises before it is served
   "database",    \* a tracker write fails; _track logs it and goes on
   "slow",        \* a worker's heartbeats are late past the timeout
   "fast"}        \* a worker reports before create_jobs wrote the rows

ASSUME IngestAssumption ==
  /\ IsFiniteSet(Docs)
  /\ Limits \subseteq Nat \ {0} /\ Limits # {}
  /\ Nobody \notin Workers
  /\ NoBatch \notin BatchIds
  /\ SourceOf \in [Docs -> Sources]
  /\ Faults \subseteq FaultKinds
  /\ Mishaps \in Nat

VARIABLES pending, workerState, workerBatch, silent,
          batchState, batchOwner, batchDocs, added,      \* the registry
          job, source,                                   \* the tracker's tables
          scheduler, toFetch, fetched, unfetched,        \* pull_pending_once
          phase, batch, ok, bad, beating, revoked, stopping,   \* the clients
          writes,                                        \* tracker calls under way
          mishaps,                                       \* faults so far
          outcome   \* history: what the accepted report said of each document

Registry == INSTANCE WorkerRegistry
Tracker == INSTANCE JobTracker

registryVars == <<pending, workerState, workerBatch, silent,
                  batchState, batchOwner, batchDocs, added>>
trackerVars == <<job, source>>
schedulerVars == <<scheduler, toFetch, fetched, unfetched>>
clientVars == <<phase, batch, ok, bad, beating, revoked, stopping>>
ghostVars == <<mishaps, outcome>>
vars == <<registryVars, trackerVars, schedulerVars, clientVars, writes, ghostVars>>

Phases == {"off", "connect", "ask", "handed", "work", "report", "reporting"}

AssignWrite(b) == [kind |-> "assign", batch |-> b, ok |-> {}, bad |-> {}]
CompleteWrite(b, good, poor) ==
  [kind |-> "complete", batch |-> b, ok |-> good, bad |-> poor]
RollupWrite(b) == [kind |-> "rollup", batch |-> b, ok |-> {}, bad |-> {}]

(* Types of the clients, the scheduler and the writes; the registry's and *)
(* the tracker's are their own.                                           *)
TypeOK ==
  /\ Registry!TypeOK
  /\ Tracker!TypeOK
  /\ scheduler \in {"idle", "fetching", "creating"}
  /\ toFetch \subseteq Sources /\ fetched \subseteq Sources /\ unfetched \subseteq Sources
  /\ phase \in [Workers -> Phases]
  /\ batch \in [Workers -> BatchIds \cup {NoBatch}]
  /\ ok \in [Workers -> SUBSET Docs] /\ bad \in [Workers -> SUBSET Docs]
  /\ beating \subseteq Workers /\ revoked \subseteq Workers /\ stopping \subseteq Workers
  /\ \A x \in writes : /\ x.kind \in {"assign", "complete", "rollup"}
                       /\ x.batch \in BatchIds
                       /\ x.ok \cup x.bad \subseteq Docs
  /\ mishaps \in 0 .. Mishaps
  /\ outcome \in [Docs -> {"none", "success", "failed"}]

Init ==
  /\ Registry!Init
  /\ Tracker!Init
  /\ scheduler = "idle"
  /\ toFetch = {} /\ fetched = {} /\ unfetched = {}
  /\ phase = [w \in Workers |-> "connect"]
  /\ batch = [w \in Workers |-> NoBatch]
  /\ ok = [w \in Workers |-> {}] /\ bad = [w \in Workers |-> {}]
  /\ beating = {} /\ revoked = {} /\ stopping = {}
  /\ writes = {}
  /\ mishaps = 0
  /\ outcome = [d \in Docs |-> "none"]

(* A fault of this kind happens, within the bound. *)
Fault(kind) ==
  /\ kind \in Faults
  /\ mishaps < Mishaps
  /\ mishaps' = mishaps + 1
  /\ UNCHANGED outcome

-----------------------------------------------------------------------------
(* The scheduler's poll, pull_pending_once. *)

Unscheduled == {s \in Sources : source[s] = "pending"}

Poll ==
  /\ scheduler = "idle"
  /\ Unscheduled # {}
  /\ scheduler' = "fetching"
  /\ toFetch' = Unscheduled
  /\ UNCHANGED <<registryVars, trackerVars, fetched, unfetched, clientVars, writes, ghostVars>>

(* A source's documents, in the order its fetcher lists them. *)
Listing(s) ==
  LET D == Tracker!DocsOf(s) IN CHOOSE ds \in Bijection(1 .. Cardinality(D), D) : TRUE

FetchSource(s) ==
  /\ scheduler = "fetching"
  /\ s \in toFetch
  /\ toFetch' = toFetch \ {s}
  /\ fetched' = fetched \cup {s}
  /\ Registry!AddDocuments(Listing(s))
  /\ UNCHANGED <<trackerVars, scheduler, unfetched, clientVars, writes, ghostVars>>

(* The fetch raised, or found nothing. *)
FetchFails(s) ==
  /\ scheduler = "fetching"
  /\ s \in toFetch
  /\ toFetch' = toFetch \ {s}
  /\ unfetched' = unfetched \cup {s}
  /\ UNCHANGED <<registryVars, trackerVars, scheduler, fetched, clientVars, writes, ghostVars>>

(* The commit at the end of the loop over the pending sources. *)
CommitPoll ==
  /\ scheduler = "fetching"
  /\ toFetch = {}
  /\ source' = [s \in Sources |-> IF s \in fetched THEN "running"
                                  ELSE IF s \in unfetched THEN "error"
                                  ELSE source[s]]
  /\ scheduler' = IF fetched = {} THEN "idle" ELSE "creating"
  /\ unfetched' = {}
  /\ UNCHANGED <<registryVars, job, toFetch, fetched, clientVars, writes, ghostVars>>

(* The calls of create_jobs that follow it, one per source. *)
CreateRows(s) ==
  /\ scheduler = "creating"
  /\ s \in fetched
  /\ Tracker!CreateJobs(s)
  /\ fetched' = fetched \ {s}
  /\ scheduler' = IF fetched' = {} THEN "idle" ELSE "creating"
  /\ UNCHANGED <<registryVars, toFetch, unfetched, clientVars, writes, ghostVars>>

(* create_jobs raises: run_scheduler logs it, the sources left get no rows. *)
CreateRowsFails ==
  /\ scheduler = "creating"
  /\ Fault("database")
  /\ fetched' = {}
  /\ scheduler' = "idle"
  /\ UNCHANGED <<registryVars, trackerVars, toFetch, unfetched, clientVars, writes>>

-----------------------------------------------------------------------------
(* A worker between batches: WorkerClient.run and _run_session. *)

Goto(w, p) == phase' = [phase EXCEPT ![w] = p]

Connect(w) ==
  /\ phase[w] = "connect"
  /\ Goto(w, IF w \in stopping THEN "off" ELSE "ask")
  /\ IF w \in stopping THEN UNCHANGED registryVars ELSE Registry!Register(w)
  /\ UNCHANGED <<trackerVars, schedulerVars, batch, ok, bad, beating, revoked,
                 stopping, writes, ghostVars>>

AskInVain(w) ==
  /\ phase[w] = "ask" /\ w \notin stopping
  /\ Registry!RequestNothing(w)
  /\ UNCHANGED <<trackerVars, schedulerVars, clientVars, writes, ghostVars>>

(* RequestWork pops a batch and starts mark_assigned before it answers. *)
AskForBatch(w, max) ==
  /\ phase[w] = "ask" /\ w \notin stopping
  /\ Registry!TakeBatch(w, max)
  /\ batch' = [batch EXCEPT ![w] = Registry!NextId]
  /\ writes' = writes \cup {AssignWrite(Registry!NextId)}
  /\ Goto(w, "handed")
  /\ UNCHANGED <<trackerVars, schedulerVars, ok, bad, beating, revoked, stopping, ghostVars>>

Answered(w, kinds) == \A x \in writes : x.batch = batch[w] => x.kind \notin kinds

(* The answer arrives: _process_batch starts, and its heartbeat task. *)
ReceiveBatch(w) ==
  /\ phase[w] = "handed" /\ Answered(w, {"assign"})
  /\ ok' = [ok EXCEPT ![w] = {}] /\ bad' = [bad EXCEPT ![w] = {}]
  /\ beating' = IF w \in stopping THEN beating ELSE beating \cup {w}
  /\ revoked' = revoked \ {w}
  /\ Goto(w, "work")
  /\ UNCHANGED <<registryVars, trackerVars, schedulerVars, batch, stopping, writes, ghostVars>>

(* The call breaks after the coordinator served it: the batch is not known *)
(* to the client, which starts a new session.                              *)
LoseAnswer(w) ==
  /\ phase[w] = "handed"
  /\ Fault("network")
  /\ Goto(w, "connect")
  /\ batch' = [batch EXCEPT ![w] = NoBatch]
  /\ UNCHANGED <<registryVars, trackerVars, schedulerVars, ok, bad, beating, revoked,
                 stopping, writes>>

-----------------------------------------------------------------------------
(* A worker on a batch: _process_batch. *)

Seen(w) == Cardinality(ok[w] \cup bad[w])
Left(w) == Seen(w) < Len(batchDocs[batch[w]])
Current(w) == batchDocs[batch[w]][Seen(w) + 1]

(* process_fn returns or raises for the next document of the batch. *)
Process(w, succeeds) ==
  /\ phase[w] = "work" /\ Left(w)
  /\ w \notin revoked \cup stopping
  /\ IF succeeds
       THEN ok' = [ok EXCEPT ![w] = @ \cup {Current(w)}] /\ UNCHANGED bad
       ELSE bad' = [bad EXCEPT ![w] = @ \cup {Current(w)}] /\ UNCHANGED ok
  /\ UNCHANGED <<registryVars, trackerVars, schedulerVars, phase, batch, beating,
                 revoked, stopping, writes, ghostVars>>

(* One round of _heartbeat_loop. *)
Beat(w) ==
  /\ phase[w] = "work" /\ w \in beating \ stopping
  /\ Registry!Heartbeat(w, batch[w], "processing")
  /\ IF Registry!KeepGoing(w, batch[w])
       THEN UNCHANGED <<beating, revoked>>
       ELSE beating' = beating \ {w} /\ revoked' = revoked \cup {w}
  /\ UNCHANGED <<trackerVars, schedulerVars, phase, batch, ok, bad, stopping, writes, ghostVars>>

(* The Heartbeat call raises: its task ends, the documents go on. *)
LoseHeartbeat(w) ==
  /\ phase[w] = "work" /\ w \in beating
  /\ Fault("heartbeat")
  /\ beating' = beating \ {w}
  /\ UNCHANGED <<registryVars, trackerVars, schedulerVars, phase, batch, ok, bad,
                 revoked, stopping, writes>>

(* Broken: reports only `if not revoked`, which the finally block just set. *)
LeaveBatchUnreported(w) ==
  /\ phase[w] = "work"
  /\ ~Left(w) \/ w \in revoked \cup stopping
  /\ beating' = beating \ {w}
  /\ Goto(w, "ask")
  /\ UNCHANGED <<registryVars, trackerVars, schedulerVars, batch, ok, bad, revoked,
                 stopping, writes, ghostVars>>

(* The loop over the documents is over: report what was done, if anything. *)
LeaveBatch(w) ==
  /\ phase[w] = "work"
  /\ ~Left(w) \/ w \in revoked \cup stopping
  /\ beating' = beating \ {w}
  /\ Goto(w, IF ok[w] \cup bad[w] # {} THEN "report" ELSE "ask")
  /\ UNCHANGED <<registryVars, trackerVars, schedulerVars, batch, ok, bad, revoked,
                 stopping, writes, ghostVars>>

HasRows(b) == \A d \in Range(batchDocs[b]) : job[d] # "none"

(* Broken: the tracker hears a report the registry refused. *)
ReportUnchecked(w) ==
  /\ phase[w] = "report"
  /\ "fast" \in Faults \/ HasRows(batch[w])
  /\ Registry!Complete(w, batch[w])
  /\ writes' = writes \cup {CompleteWrite(batch[w], ok[w], bad[w])}
  /\ IF Registry!Accepts(w, batch[w])
       THEN outcome' = [d \in Docs |-> IF d \in ok[w] THEN "success"
                                       ELSE IF d \in bad[w] THEN "failed"
                                       ELSE outcome[d]]
       ELSE UNCHANGED outcome
  /\ Goto(w, "reporting")
  /\ UNCHANGED <<trackerVars, schedulerVars, batch, ok, bad, beating, revoked,
                 stopping, mishaps>>

(* ReportCompletion: only a report the registry accepts reaches the tracker. *)
Report(w) ==
  /\ phase[w] = "report"
  /\ "fast" \in Faults \/ HasRows(batch[w])
  /\ Registry!Complete(w, batch[w])
  /\ IF Registry!Accepts(w, batch[w])
       THEN /\ writes' = writes \cup {CompleteWrite(batch[w], ok[w], bad[w])}
            /\ outcome' = [d \in Docs |-> IF d \in ok[w] THEN "success"
                                          ELSE IF d \in bad[w] THEN "failed"
                                          ELSE outcome[d]]
            /\ Goto(w, "reporting")
       ELSE Goto(w, "ask") /\ UNCHANGED <<writes, outcome>>
  /\ UNCHANGED <<trackerVars, schedulerVars, batch, ok, bad, beating, revoked,
                 stopping, mishaps>>

(* The call raises before it is served; the client swallows the error. *)
LoseReport(w) ==
  /\ phase[w] = "report"
  /\ Fault("report")
  /\ Goto(w, "ask")
  /\ UNCHANGED <<registryVars, trackerVars, schedulerVars, batch, ok, bad, beating,
                 revoked, stopping, writes>>

ReportAnswered(w) ==
  /\ phase[w] = "reporting" /\ Answered(w, {"complete", "rollup"})
  /\ Goto(w, "ask")
  /\ UNCHANGED <<registryVars, trackerVars, schedulerVars, batch, ok, bad, beating,
                 revoked, stopping, writes, ghostVars>>

-----------------------------------------------------------------------------
(* Workers that die, come back, or are told to stop. *)

(* The last worker is not killed: the pool would have nobody to go on with. *)
Crash(w) ==
  /\ phase[w] # "off"
  /\ \E v \in Workers \ {w} : phase[v] # "off"
  /\ Fault("crash")
  /\ Goto(w, "off")
  /\ beating' = beating \ {w} /\ stopping' = stopping \ {w}
  /\ UNCHANGED <<registryVars, trackerVars, schedulerVars, batch, ok, bad, revoked, writes>>

Restart(w) ==
  /\ phase[w] = "off"
  /\ Fault("restart")
  /\ Goto(w, "connect")
  /\ UNCHANGED <<registryVars, trackerVars, schedulerVars, batch, ok, bad, beating,
                 revoked, stopping, writes>>

Stop(w) ==
  /\ phase[w] # "off" /\ w \notin stopping
  /\ Fault("stop")
  /\ stopping' = stopping \cup {w}
  /\ UNCHANGED <<registryVars, trackerVars, schedulerVars, phase, batch, ok, bad,
                 beating, revoked, writes>>

Leave(w) ==
  /\ phase[w] = "ask" /\ w \in stopping
  /\ Goto(w, "off")
  /\ stopping' = stopping \ {w}
  /\ UNCHANGED <<registryVars, trackerVars, schedulerVars, batch, ok, bad, beating,
                 revoked, writes, ghostVars>>

-----------------------------------------------------------------------------
(* The coordinator's own tasks: tracker writes under way, the reaper. *)

TrackAssigned(x) ==
  /\ x \in writes /\ x.kind = "assign"
  /\ Tracker!MarkAssigned(Range(batchDocs[x.batch]))
  /\ writes' = writes \ {x}
  /\ UNCHANGED <<registryVars, schedulerVars, clientVars, ghostVars>>

(* Broken: no rollup after the commit. *)
TrackCompletedOnly(x) ==
  /\ x \in writes /\ x.kind = "complete"
  /\ LET D == Range(batchDocs[x.batch])
     IN Tracker!MarkCompleted(x.ok \cap D, x.bad \cap D)
  /\ writes' = writes \ {x}
  /\ UNCHANGED <<registryVars, schedulerVars, clientVars, ghostVars>>

(* mark_completed looks the reported urls up in the batch, commits, and *)
(* goes on to the rollup.                                               *)
TrackCompleted(x) ==
  /\ x \in writes /\ x.kind = "complete"
  /\ LET D == Range(batchDocs[x.batch])
     IN Tracker!MarkCompleted(x.ok \cap D, x.bad \cap D)
  /\ writes' = (writes \ {x}) \cup {RollupWrite(x.batch)}
  /\ UNCHANGED <<registryVars, schedulerVars, clientVars, ghostVars>>

TrackRollup(x) ==
  /\ x \in writes /\ x.kind = "rollup"
  /\ Tracker!Rollup({SourceOf[d] : d \in Range(batchDocs[x.batch])})
  /\ writes' = writes \ {x}
  /\ UNCHANGED <<registryVars, schedulerVars, clientVars, ghostVars>>

TrackFails(x) ==
  /\ x \in writes
  /\ Fault("database")
  /\ writes' = writes \ {x}
  /\ UNCHANGED <<registryVars, trackerVars, schedulerVars, clientVars>>

(* A worker that sends no heartbeats, and whose last request the            *)
(* coordinator has dealt with.  Any other is heard of, and a tracker write   *)
(* ends, within the timeout (6 heartbeats) unless the run says "slow".       *)
Quiet(w) ==
  /\ \/ phase[w] \in {"off", "connect", "ask"}
     \/ phase[w] = "work" /\ w \notin beating
  /\ \A x \in writes : x.kind = "assign" => batchOwner[x.batch] # w

FallSilent(w) ==
  /\ w \notin silent
  /\ IF Quiet(w) THEN UNCHANGED ghostVars ELSE Fault("slow")
  /\ Registry!FallSilent(w)
  /\ UNCHANGED <<trackerVars, schedulerVars, clientVars, writes>>

Reap ==
  /\ Registry!ReapDead
  /\ UNCHANGED <<trackerVars, schedulerVars, clientVars, writes, ghostVars>>

-----------------------------------------------------------------------------
Schedule ==
  \/ Poll
  \/ \E s \in Sources : FetchSource(s) \/ FetchFails(s) \/ CreateRows(s)
  \/ CommitPoll

Client(w) ==
  \/ Connect(w)
  \/ \E max \in Limits : AskForBatch(w, max)
  \/ ReceiveBatch(w)
  \/ \E succeeds \in BOOLEAN : Process(w, succeeds)
  \/ LeaveBatch(w)
  \/ Report(w)
  \/ ReportAnswered(w)
  \/ Leave(w)

Track == \E x \in writes : TrackAssigned(x) \/ TrackCompleted(x) \/ TrackRollup(x)

Mishap ==
  \/ CreateRowsFails
  \/ \E x \in writes : TrackFails(x)
  \/ \E w \in Workers : \/ LoseAnswer(w) \/ LoseHeartbeat(w) \/ LoseReport(w)
                        \/ Crash(w) \/ Restart(w) \/ Stop(w)

Next ==
  \/ Schedule
  \/ \E w \in Workers : Client(w) \/ AskInVain(w) \/ Beat(w) \/ FallSilent(w)
  \/ Track
  \/ Reap
  \/ Mishap

Spec == Init /\ [][Next]_vars

(* What the code's scheduling guarantees: the scheduler and the reaper loop *)
(* until shutdown, a worker's loop goes on while its process lives, a       *)
(* document's processing ends, a query ends, and time passes.               *)
Fairness ==
  /\ WF_vars(Schedule)
  /\ WF_vars(Track)
  /\ WF_vars(Reap)
  /\ \A w \in Workers : /\ WF_vars(Client(w))
                        /\ WF_vars(Beat(w))
                        /\ WF_vars(FallSilent(w) /\ Quiet(w))

FairSpec == Spec /\ Fairness

-----------------------------------------------------------------------------
(* A finished row says what the accepted report said: neither a worker whose *)
(* batch was taken away nor a late write changes a document's verdict        *)
(* (ReportCompletion's `if ok`, the conditional updates of job_tracker).     *)
RowsFollowAcceptedReports ==
  \A d \in Docs : job[d] \in {"success", "failed"} => job[d] = outcome[d]

(* A successful row stays successful: no late mark_assigned or mark_completed *)
(* of a worker that lost the batch downgrades it (WHERE status <> 'success'). *)
SuccessIsFinal ==
  [][\A d \in Docs : job[d] = "success" => job'[d] = "success"]_vars

(* A source is declared finished only when every one of its documents has an *)
(* accepted outcome, and successful only when one of them succeeded          *)
(* (rollup_sources between batches, reassignments and late writes).          *)
VerdictsAreEarned ==
  \A s \in Sources :
    /\ source[s] = "success" =>
         /\ \A d \in Tracker!DocsOf(s) : outcome[d] # "none"
         /\ \E d \in Tracker!DocsOf(s) : outcome[d] = "success"
    /\ source[s] = "error" /\ Tracker!Rows(s) # {} =>
         \A d \in Tracker!DocsOf(s) : outcome[d] = "failed"

(* No batch is stranded: an assigned batch is the one its worker's record    *)
(* points at, so that the reaper can take it back.  docs/09 promises workers *)
(* can be killed or restarted without losing work.                           *)
NoBatchIsStranded ==
  \A b \in BatchIds : batchState[b] = "assigned" => workerBatch[batchOwner[b]] = b

(* Every document handed to the pool is processed in the end, by a worker    *)
(* whose report the registry accepts, as long as one worker lives            *)
(* (reap_dead: "requeue their in-flight batch documents").                   *)
EveryDocumentIsSettled ==
  \A d \in Docs : d \in added ~> outcome[d] # "none"

(* Every pending source reaches a verdict.                                   *)
EverySourceFinishes ==
  \A s \in Sources : source[s] = "pending" ~> source[s] \in {"success", "error"}
=============================================================================
