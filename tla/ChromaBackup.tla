------------------------------- MODULE ChromaBackup -------------------------------
(***************************************************************************)
(* src/backend/core/chroma_backup.py: a job's end schedules one backup of  *)
(* the vector store in the worker's process, a loop in                     *)
(* src/scripts/space_entrypoint.sh makes one every day, and a restart of   *)
(* the Space restores the last one uploaded.  The debounce delay and the   *)
(* least interval are both 300 s unless configured, so that the interval's *)
(* check, 300 s after a trigger that found no timer, never skips a backup. *)
(***************************************************************************)
EXTENDS Naturals

CONSTANTS Docs, None

VARIABLES chunks,    \* the documents in the vector store
          snapshot,  \* the documents in latest/chroma.tar.gz
          timer,     \* "off", "pending" or "running"
          archive,   \* what each backup under way has packed
          due,       \* documents of successful jobs whose backup is to come
          missed     \* history: documents a backup left out or lost again

backupVars == <<chunks, snapshot, timer, archive, due, missed>>

Backups == {"timer", "daily"}

BackupTypeOK ==
  /\ chunks \subseteq Docs /\ snapshot \subseteq Docs
  /\ timer \in {"off", "pending", "running"}
  /\ archive \in [Backups -> (SUBSET Docs) \cup {None}]
  /\ due \subseteq Docs /\ missed \subseteq Docs

BackupInit ==
  /\ chunks = {} /\ snapshot = {} /\ timer = "off"
  /\ archive = [b \in Backups |-> None]
  /\ due = {} /\ missed = {}

Settle(done) == due' = due \ (done \cup missed')

(* Broken: the flag is not taken back. *)
TimerStays == UNCHANGED timer

TimerOff == timer' = "off"

(* trigger_backup_debounced, for documents of a job that has succeeded: it *)
(* does nothing while a timer waits, and nothing while a backup runs.      *)
Trigger(ds) ==
  /\ timer' = IF timer = "off" THEN "pending" ELSE timer
  /\ missed' = IF archive["timer"] # None THEN missed \cup (ds \ archive["timer"])
               ELSE missed \ ds
  /\ due' = (due \cup ds) \ missed'
  /\ UNCHANGED <<chunks, snapshot, archive>>

(* backup packs the directory ... *)
Pack(b) ==
  /\ archive[b] = None
  /\ archive' = [archive EXCEPT ![b] = chunks]
  /\ timer' = IF b = "timer" THEN "running" ELSE timer
  /\ UNCHANGED <<chunks, snapshot, due, missed>>

Fire == timer = "pending" /\ Pack("timer")

(* ... and uploads it over the last one, which may hold more ... *)
Upload(b) ==
  /\ archive[b] # None
  /\ snapshot' = archive[b]
  /\ archive' = [archive EXCEPT ![b] = None]
  /\ IF b = "timer" THEN TimerOff ELSE UNCHANGED timer
  /\ missed' = missed \cup (snapshot \ snapshot')
  /\ Settle(snapshot')
  /\ UNCHANGED chunks

(* ... or cannot. *)
UploadFails(b) ==
  /\ archive[b] # None
  /\ archive' = [archive EXCEPT ![b] = None]
  /\ IF b = "timer" THEN TimerOff ELSE UNCHANGED timer
  /\ missed' = missed \cup IF b = "timer" THEN archive[b] ELSE {}
  /\ Settle({})
  /\ UNCHANGED <<chunks, snapshot>>

(* The worker's process ends, and the timer's daemon thread with it. *)
ProcessEnds(killed) ==
  /\ timer' = "off"
  /\ archive' = [archive EXCEPT !["timer"] = None]
  /\ missed' = missed \cup IF killed THEN due ELSE {}
  /\ Settle({})
  /\ UNCHANGED <<chunks, snapshot>>

(* The Space starts again: restore. *)
Restored ==
  /\ chunks' = snapshot
  /\ timer' = "off"
  /\ archive' = [b \in Backups |-> None]
  /\ missed' = missed \cup due
  /\ Settle({})
  /\ UNCHANGED snapshot

Write(ds) ==
  /\ chunks' = chunks \cup ds
  /\ UNCHANGED <<snapshot, timer, archive, due, missed>>
=============================================================================
