------------------------------- MODULE JobTracker -------------------------------
(***************************************************************************)
(* The durable mirror of the worker pool                                   *)
(* (src/backend/coordinator/job_tracker.py): one ingestion_jobs row per    *)
(* document and the status of the source that owns it.  Each action is one *)
(* committed transaction; the callers that start them, and the awaits      *)
(* between them, are in DistributedIngest.tla.                             *)
(*                                                                         *)
(* A row's id is uuid5(source, url), so a document has at most one row.    *)
(* Left out: timestamps, error texts, assigned_worker_id and batch_id, and *)
(* with them touch_heartbeat, which writes a timestamp only.               *)
(***************************************************************************)
CONSTANTS Sources, Docs,
          SourceOf   \* [Docs -> Sources]

VARIABLES job,       \* ingestion_jobs.status per document, "none" without a row
          source     \* sources.status

JobStates == {"none", "queued", "running", "success", "failed"}
SourceStates == {"pending", "running", "success", "error"}

TypeOK ==
  /\ job \in [Docs -> JobStates]
  /\ source \in [Sources -> SourceStates]

Init ==
  /\ job = [d \in Docs |-> "none"]
  /\ source = [s \in Sources |-> "pending"]

DocsOf(s) == {d \in Docs : SourceOf[d] = s}
Rows(s) == {d \in DocsOf(s) : job[d] # "none"}

(* create_jobs: insert, or reset whatever a row holds, to queued. *)
CreateJobs(s) ==
  /\ job' = [d \in Docs |-> IF d \in DocsOf(s) THEN "queued" ELSE job[d]]
  /\ UNCHANGED source

(* Broken: the updates are unconditional. *)
WritableAlways(d) == job[d] # "none"

(* The WHERE clause of every update: an existing row, not yet successful. *)
Writable(d) == job[d] \notin {"none", "success"}

(* mark_assigned: the batch's documents are running. *)
MarkAssigned(D) ==
  /\ job' = [d \in Docs |-> IF d \in D /\ Writable(d) THEN "running" ELSE job[d]]
  /\ UNCHANGED source

(* mark_completed, up to its commit: the report's outcome per document. *)
MarkCompleted(ok, bad) ==
  /\ job' = [d \in Docs |-> IF ~Writable(d) THEN job[d]
                            ELSE IF d \in ok THEN "success"
                            ELSE IF d \in bad THEN "failed"
                            ELSE job[d]]
  /\ UNCHANGED source

(* Broken: rows still queued or running do not hold the verdict back. *)
FinalEarly(s) == \E d \in Rows(s) : job[d] \in {"success", "failed"}

(* Broken: a source is given the status word of a job. *)
VerdictOfJob(s) == IF \E d \in Rows(s) : job[d] = "success" THEN "success" ELSE "failed"

(* rollup_sources: a source whose rows are all final gets its verdict. *)
Final(s) == Rows(s) # {} /\ \A d \in Rows(s) : job[d] \in {"success", "failed"}
Verdict(s) == IF \E d \in Rows(s) : job[d] = "success" THEN "success" ELSE "error"

Rollup(S) ==
  /\ source' = [s \in Sources |->
                  IF s \in S /\ Final(s) THEN Verdict(s) ELSE source[s]]
  /\ UNCHANGED job
=============================================================================
