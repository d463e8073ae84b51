----------------------------- MODULE IngestionWorker -----------------------------
(***************************************************************************)
(* What a worker's process keeps beside the stores, over jobs, crashes and *)
(* restarts: the resolver's registry, loaded when a job begins and flushed *)
(* when it ends (_run_async in src/backend/ingestion/jobs.py), and the     *)
(* timer of the vector store's backup, set when it ends well.  The steps   *)
(* of a job that module SourceIngest has are left out.                     *)
(***************************************************************************)
EXTENDS Sequences, EntityResolver

CONSTANTS Jobs, DocsOf,  \* [Jobs -> the documents of its source]
          Mentions,      \* [Docs -> what its run resolves, and Embed, in order]
          Embed,
          Mishaps        \* bounds crashes, restarts of the Space, retries and daily
                         \* backups, together

ASSUME IngestionWorkerAssumption ==
  /\ DocsOf \in [Jobs -> SUBSET Docs]
  /\ Mentions \in [Docs -> Seq([name : Names, author : BOOLEAN] \cup {Embed})]
  /\ Mishaps \in Nat
  /\ None \notin Jobs

VARIABLES chunks, snapshot, timer, archive, due, missed

B == INSTANCE ChromaBackup

backupVars == <<chunks, snapshot, timer, archive, due, missed>>

VARIABLES job,       \* the job under way
          queue,     \* the jobs to run
          at,        \* the next mention of each document, past the end when it is over
          failed,    \* the documents of the job that have failed
          flushed,   \* the job has tried to flush
          mishaps

hostVars == <<job, queue, at, failed, flushed, mishaps>>
vars == <<hostVars, resolverVars, backupVars>>

Init ==
  /\ ResolverInit /\ B!BackupInit
  /\ job = None /\ queue = Jobs
  /\ at = [d \in Docs |-> 1]
  /\ failed = {} /\ flushed = FALSE /\ mishaps = 0

Over(d) == at[d] > Len(Mentions[d])
Underway(d) == job # None /\ d \in DocsOf[job] /\ ~Over(d)
Mention(d) == Mentions[d][at[d]]

Begin(j) ==
  /\ job = None /\ j \in queue
  /\ job' = j
  /\ queue' = queue \ {j}
  /\ at' = [d \in Docs |-> IF d \in DocsOf[j] THEN 1 ELSE at[d]]
  /\ failed' = {} /\ flushed' = FALSE
  /\ Load
  /\ UNCHANGED <<mishaps, backupVars>>

NextMention(d) == at' = [at EXCEPT ![d] = @ + 1]

docFrame == <<job, queue, failed, flushed, mishaps>>

EmbedDoc(d) ==
  /\ Underway(d) /\ Mention(d) = Embed
  /\ B!Write({d})
  /\ NextMention(d)
  /\ UNCHANGED <<docFrame, resolverVars>>

AuthorNode(d) ==
  /\ Underway(d) /\ Mention(d) # Embed /\ Mention(d).author
  /\ Resolve(Mention(d).name)
  /\ NextMention(d)
  /\ UNCHANGED <<docFrame, backupVars>>

EntityNode(d) ==
  /\ Underway(d) /\ Mention(d) # Embed /\ ~Mention(d).author
  /\ ResolveAsync(d, Mention(d).name)
  /\ IF asking'[d] = None THEN NextMention(d) ELSE UNCHANGED at
  /\ UNCHANGED <<docFrame, backupVars>>

EntityDecided(d) ==
  /\ Underway(d) /\ asking[d] # None
  /\ Adjudicated(d, Mention(d).name)
  /\ NextMention(d)
  /\ UNCHANGED <<docFrame, backupVars>>

DocFails(d) ==
  /\ Underway(d)
  /\ at' = [at EXCEPT ![d] = Len(Mentions[d]) + 1]
  /\ failed' = failed \cup {d}
  /\ asking' = [asking EXCEPT ![d] = None]
  /\ UNCHANGED <<job, queue, flushed, mishaps, registry, stored, nodes, raced, lost, backupVars>>

AllOver == job # None /\ \A d \in DocsOf[job] : Over(d)

(* resolver.flush_to_redis, best effort. *)
FlushRegistry ==
  /\ AllOver /\ ~flushed
  /\ Flush
  /\ flushed' = TRUE
  /\ UNCHANGED <<job, queue, at, failed, mishaps, backupVars>>

FlushFails ==
  /\ AllOver /\ ~flushed
  /\ lost' = lost \cup (nodes \ stored)
  /\ flushed' = TRUE
  /\ UNCHANGED <<job, queue, at, failed, mishaps, registry, stored, nodes, asking, raced,
                 backupVars>>

(* The verdict, and with a success the trigger. *)
End ==
  /\ AllOver /\ flushed
  /\ job' = None
  /\ IF DocsOf[job] # {} /\ DocsOf[job] \subseteq failed THEN UNCHANGED backupVars
     ELSE B!Trigger(DocsOf[job] \ failed)
  /\ UNCHANGED <<queue, at, failed, flushed, mishaps, resolverVars>>

(* Under rq's forking Worker the work horse ends with its job. *)
HorseEnds ==
  /\ job = None /\ flushed
  /\ flushed' = FALSE
  /\ B!ProcessEnds(FALSE)
  /\ UNCHANGED <<job, queue, at, failed, mishaps, resolverVars>>

BackupFrame == UNCHANGED <<hostVars, resolverVars>>

Mishap == mishaps < Mishaps /\ mishaps' = mishaps + 1

(* The process is killed; the job may be run again. *)
Crash ==
  /\ Mishap
  /\ job' = None
  /\ \/ UNCHANGED queue
     \/ job # None /\ queue' = queue \cup {job}
  /\ flushed' = FALSE
  /\ Forget(stored)
  /\ B!ProcessEnds(TRUE)
  /\ UNCHANGED <<at, failed>>

(* The Space restarts: Redis, its queue and the disk are empty. *)
Restart ==
  /\ Mishap
  /\ job' = None
  /\ queue' = {}
  /\ flushed' = FALSE
  /\ Forget({})
  /\ B!Restored
  /\ UNCHANGED <<at, failed>>

(* Somebody retries a source. *)
Requeue(j) ==
  /\ Mishap
  /\ queue' = queue \cup {j}
  /\ UNCHANGED <<job, at, failed, flushed, resolverVars, backupVars>>

Daily == Mishap /\ B!Pack("daily") /\ UNCHANGED <<job, queue, at, failed, flushed, resolverVars>>

TimerStep == (B!Fire \/ B!Upload("timer") \/ B!UploadFails("timer")) /\ BackupFrame
DailyStep == (B!Upload("daily") \/ B!UploadFails("daily")) /\ BackupFrame

JobStep ==
  \/ \E j \in Jobs : Begin(j)
  \/ \E d \in Docs :
       \/ EmbedDoc(d) \/ AuthorNode(d) \/ EntityNode(d) \/ EntityDecided(d) \/ DocFails(d)
  \/ FlushRegistry \/ FlushFails \/ End

Next ==
  \/ JobStep
  \/ \E j \in Jobs : Requeue(j)
  \/ Crash \/ Restart \/ Daily \/ TimerStep \/ DailyStep

Spec == Init /\ [][Next]_vars

(* SimpleWorker (src/scripts/ingestion_worker.py) runs its jobs in its own  *)
(* process, and the timer's thread runs as long as that does.               *)
FairSpec == Spec /\ WF_vars(TimerStep)

(* "rq worker" (docker-compose.yml, src/scripts/space_entrypoint.sh) runs   *)
(* each job in a process that ends with it.                                 *)
ForkingSpec ==
  /\ Init /\ [][Next \/ HorseEnds]_vars
  /\ WF_vars(JobStep) /\ WF_vars(TimerStep) /\ SF_vars(HorseEnds)

-----------------------------------------------------------------------------
(* Names as good as the same (HIGH and above) are one node, over concurrent *)
(* documents, jobs and crashes, unless one was registered after an awaited  *)
(* adjudication that did not see the other, or the other was lost before    *)
(* the registry reached Redis.                                              *)
NamesAreDistinct ==
  \A n, w \in nodes :
    n # w /\ Level[<<n, w>>] = 3 => {n, w} \cap (raced \cup lost) # {}

(* "ChromaDB is backed up after successful ingestion, debounced" (docs/21): *)
(* what a successful job embedded gets into the snapshot, unless its        *)
(* trigger came while a backup was running, the upload failed, a later      *)
(* upload of an older archive took it out, or the process was killed.       *)
SuccessIsBackedUp == \A d \in Docs : d \in due ~> d \notin due
=============================================================================
