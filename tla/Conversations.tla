------------------------------ MODULE Conversations ------------------------------
(***************************************************************************)
(* Conversation threads: the question routes (src/backend/api/routes/      *)
(* questions.py) load a thread's memory, answer, and save the turn with    *)
(* the helpers of db/conversations.py, deep research (routes/research.py)  *)
(* saves its report as a thread of one turn, while the same and other      *)
(* users ask, delete turns and threads (routes/conversations.py) and their *)
(* workspace (routes/workspaces.py).                                       *)
(*                                                                         *)
(* A step ends where the code awaits the database or the LLM.  Postgres    *)
(* runs at READ COMMITTED; what a request flushes stays locked until it    *)
(* commits.  Left out: what is asked and answered, versions, titles, the   *)
(* character budget of the history, who may see what.                      *)
(***************************************************************************)
EXTENDS DeepResearch, FiniteSets, FiniteSetsExt

CONSTANTS Threads,
          Window,    \* CONV_WINDOW_TURNS
          Turns,     \* the ids of turns, in the order they are saved: bounds them
          Deletions  \* bounds the deletions of turns, threads and the workspace

ASSUME ConversationsAssumption ==
  /\ Window \in Nat \ {0}
  /\ Turns \subseteq Nat \ {0}
  /\ Deletions \in Nat
  /\ None \notin Threads \cup Turns

VARIABLES row,        \* the conversations table: "absent", "open" or "deleted"
          summary,    \* conversations.summary: the turns it was made from
          turns,      \* the reports: the thread and turn_index of each id
          ask,        \* the question of each asker, None between questions
          done,       \* the thread a "done" event named, None if there was none
          doomed,     \* delete_conversation: the turns it has read, None if not running
          purge,      \* delete_workspace: the turns and threads it has read, or None
          workspace,  \* "there" or "gone"
          deletions,
          disturbed   \* history: threads where a turn was deleted, two questions
                      \* overlapped, or the LLM made no summary

tables == <<row, summary, turns>>
deleting == <<doomed, purge, workspace, deletions>>
vars == <<research, done, ask, tables, deleting, disturbed>>

Turn == [id : Turns, thread : Threads, index : Nat]
Requests == [stage : {"checked", "counting", "answering", "saving"}, thread : Threads \cup {None},
             index : Nat, summary : SUBSET Turns, aged : Turns \cup {None},
             crossed : BOOLEAN]   \* history: another turn was saved meanwhile
Purge == [turns : SUBSET Turn, threads : (SUBSET Threads) \cup {None}]

TypeOK ==
  /\ research \in [Askers -> Run \cup {None}]
  /\ row \in [Threads -> {"absent", "open", "deleted"}]
  /\ summary \in [Threads -> SUBSET Turns]
  /\ turns \subseteq Turn
  /\ ask \in [Askers -> Requests \cup {None}]
  /\ done \in [Askers -> Threads \cup {None}]
  /\ doomed \in [Threads -> (SUBSET Turn) \cup {None}]
  /\ purge \in Purge \cup {None}
  /\ workspace \in {"there", "gone"}
  /\ deletions \in 0 .. Deletions
  /\ disturbed \subseteq Threads

Init ==
  /\ ResearchInit
  /\ row = [t \in Threads |-> "absent"]
  /\ summary = [t \in Threads |-> {}]
  /\ turns = {}
  /\ ask = [k \in Askers |-> None]
  /\ done = [k \in Askers |-> None]
  /\ doomed = [t \in Threads |-> None]
  /\ purge = None
  /\ workspace = "there"
  /\ deletions = 0
  /\ disturbed = {}

TurnsOf(t) == {u \in turns : u.thread = t}
Ids(us) == {u.id : u \in us}

(* The turns ORDER BY turn_index DESC LIMIT n may return. *)
Latest(us, n) ==
  {w \in kSubset(IF Cardinality(us) < n THEN Cardinality(us) ELSE n, us) :
     \A u \in us \ w, v \in w : v.index >= u.index}

-----------------------------------------------------------------------------
Idle(k) == ask[k] = None /\ research[k] = None

(* require_readable_workspace. *)
MayAsk(k) == Idle(k) /\ workspace = "there"

(* A first question has no thread yet. *)
Fresh ==
  [stage |-> "answering", thread |-> None, index |-> 0, summary |-> {}, aged |-> None,
   crossed |-> FALSE]

(* load_thread_context reads the thread's row ... *)
Context(t) == [Fresh EXCEPT !.stage = "counting", !.thread = t, !.summary = summary[t]]

AskNew(k) ==
  /\ MayAsk(k)
  /\ ask' = [ask EXCEPT ![k] = Fresh]
  /\ UNCHANGED <<research, done, tables, deleting, disturbed>>

(* A thread that is gone is a 404. *)
AskFollowUp(k, t) ==
  /\ MayAsk(k) /\ row[t] = "open"
  /\ ask' = [ask EXCEPT ![k] = Context(t)]
  /\ UNCHANGED <<research, done, tables, deleting, disturbed>>

(* The stream checks the thread before it starts ... *)
StreamFollowUp(k, t) ==
  /\ MayAsk(k) /\ row[t] = "open"
  /\ ask' = [ask EXCEPT ![k] = [Fresh EXCEPT !.stage = "checked", !.thread = t]]
  /\ UNCHANGED <<research, done, tables, deleting, disturbed>>

(* ... and loads it after: by then it may be gone, and the turn opens another. *)
StreamLoads(k) ==
  /\ ask[k] # None /\ ask[k].stage = "checked"
  /\ ask' = [ask EXCEPT ![k] = IF row[@.thread] = "open" THEN Context(@.thread) ELSE Fresh]
  /\ UNCHANGED <<research, done, tables, deleting, disturbed>>

Counting(k) == ask[k] # None /\ ask[k].stage = "counting"

(* Broken: numbers the turn by those of the window. *)
CountWindow(k) ==
  /\ Counting(k)
  /\ \E w \in Latest(TurnsOf(ask[k].thread), Window) :
       ask' = [ask EXCEPT ![k].stage = "answering", ![k].index = Cardinality(w)]
  /\ UNCHANGED <<research, done, tables, deleting, disturbed>>

(* ... and counts its turns: other requests may commit in between, as before *)
(* it reads the turns of the window, of which only the prompt is made.       *)
Count(k) ==
  /\ Counting(k)
  /\ ask' = [ask EXCEPT ![k].stage = "answering", ![k].index = Cardinality(TurnsOf(ask[k].thread))]
  /\ UNCHANGED <<research, done, tables, deleting, disturbed>>

Answering(k) == ask[k] # None /\ ask[k].stage = "answering"
Saving(k) == ask[k] # None /\ ask[k].stage = "saving"
Locked(t) == \E k \in Askers : Saving(k) /\ ask[k].thread = t

Finish(k) == ask' = [ask EXCEPT ![k] = None]

(* Retrieval, the LLM or the database raises, or the client of the stream   *)
(* leaves: what was not committed is rolled back.                           *)
AskFails(k) ==
  /\ ask[k] # None
  /\ Finish(k)
  /\ UNCHANGED <<research, done, tables, deleting, disturbed>>

NewId == Max(Ids(turns) \cup {0}) + 1

(* create_conversation and its first turn, in one transaction. *)
OpenThread(t) ==
  /\ row[t] = "absent"
  /\ NewId \in Turns
  /\ row' = [row EXCEPT ![t] = "open"]
  /\ turns' = turns \cup {[id |-> NewId, thread |-> t, index |-> 0]}

SaveFirst(k, t) ==
  /\ Answering(k) /\ ask[k].thread = None
  /\ OpenThread(t)
  /\ Finish(k)
  /\ UNCHANGED <<research, done, summary, deleting, disturbed>>

(* Broken: the conversation's row is left alone, so its deletion is not noticed. *)
FlushUntouched(k) ==
  /\ Answering(k) /\ ask[k].thread # None
  /\ ask' = [ask EXCEPT ![k].stage = "saving"]
  /\ UNCHANGED <<research, done, tables, deleting, disturbed>>

(* Broken: folds the turn before the one that leaves the window. *)
AgedTooOld(k) ==
  {u \in TurnsOf(ask[k].thread) : u.index + Window + 1 = ask[k].index}

(* touch_and_maybe_summarize: the turn that leaves the window. *)
Aged(k) == {u \in TurnsOf(ask[k].thread) : u.index + Window = ask[k].index}

(* The turn and updated_at are flushed, which waits for who holds the row; *)
(* if the row is gone the request fails.  Then the aged turn is read.      *)
Flush(k) ==
  /\ Answering(k) /\ ask[k].thread # None
  /\ ~Locked(ask[k].thread)
  /\ IF row[ask[k].thread] # "open" THEN Finish(k)
     ELSE \E aged \in IF Aged(k) = {} THEN {None} ELSE Ids(Aged(k)) :
            ask' = [ask EXCEPT ![k].stage = "saving", ![k].aged = aged]
  /\ UNCHANGED <<research, done, tables, deleting, disturbed>>

(* update_rolling_summary: the aged turn goes into the summary as it was    *)
(* when the question was asked, unless the LLM's call fails.                *)
Folded(k, folds) == ask[k].summary \cup IF folds THEN {ask[k].aged} ELSE {}

(* All is committed. *)
Save(k, folds) ==
  /\ Saving(k)
  /\ NewId \in Turns
  /\ LET t == ask[k].thread
     IN /\ turns' = turns \cup {[id |-> NewId, thread |-> t, index |-> ask[k].index]}
        /\ summary' = [summary EXCEPT ![t] =
             IF ask[k].aged = None THEN @ ELSE Folded(k, folds)]
        /\ disturbed' = disturbed \cup
             IF ask[k].crossed \/ (~folds /\ ask[k].aged # None) THEN {t} ELSE {}
        /\ ask' = [j \in Askers |->
             IF j = k THEN None
             ELSE IF ask[j] # None /\ ask[j].thread = t THEN [ask[j] EXCEPT !.crossed = TRUE]
             ELSE ask[j]]
  /\ UNCHANGED <<research, done, row, deleting>>

-----------------------------------------------------------------------------
AskResearch(k) ==
  /\ MayAsk(k)
  /\ StartResearch(k)
  /\ UNCHANGED <<done, ask, tables, deleting, disturbed>>

ResearchGoesOn(k) ==
  /\ ResearchStep(k)
  /\ UNCHANGED <<done, ask, tables, deleting, disturbed>>

(* The stream is over, or closed by its client. *)
StreamEnds(k) ==
  /\ ResearchEnds(k)
  /\ done' = [done EXCEPT ![k] = None]
  /\ UNCHANGED <<ask, tables, deleting, disturbed>>

(* Broken: nothing is committed. *)
PersistUncommitted(k, t) ==
  /\ In(k, "saving")
  /\ row[t] = "absent"
  /\ ToPhase(k, "saved")
  /\ done' = [done EXCEPT ![k] = t]
  /\ UNCHANGED <<ask, tables, deleting, disturbed>>

(* _persist, and the "done" event. *)
Persist(k, t) ==
  /\ In(k, "saving")
  /\ OpenThread(t)
  /\ ToPhase(k, "saved")
  /\ done' = [done EXCEPT ![k] = t]
  /\ UNCHANGED <<ask, summary, deleting, disturbed>>

-----------------------------------------------------------------------------
MayDelete ==
  /\ workspace = "there"
  /\ deletions < Deletions
  /\ deletions' = deletions + 1

(* delete_report. *)
DeleteTurn(u) ==
  /\ MayDelete
  /\ turns' = turns \ {u}
  /\ disturbed' = disturbed \cup {u.thread}
  /\ UNCHANGED <<research, done, row, summary, ask, doomed, purge, workspace>>

(* delete_conversation reads the thread's turns ... *)
DeleteThread(t) ==
  /\ MayDelete
  /\ row[t] = "open" /\ doomed[t] = None
  /\ doomed' = [doomed EXCEPT ![t] = TurnsOf(t)]
  /\ UNCHANGED <<research, done, tables, ask, purge, workspace, disturbed>>

(* ... and deletes those and the row: a turn saved in between stays. *)
CommitDeletion(t) ==
  /\ doomed[t] # None
  /\ ~Locked(t)
  /\ turns' = turns \ doomed[t]
  /\ row' = [row EXCEPT ![t] = "deleted"]
  /\ doomed' = [doomed EXCEPT ![t] = None]
  /\ UNCHANGED <<research, done, summary, ask, purge, workspace, deletions, disturbed>>

(* delete_workspace reads its turns, then its threads ... *)
DeleteWorkspace ==
  /\ MayDelete
  /\ purge = None
  /\ purge' = [turns |-> turns, threads |-> None]
  /\ UNCHANGED <<research, done, tables, ask, doomed, workspace, disturbed>>

ReadThreads ==
  /\ purge # None /\ purge.threads = None
  /\ purge' = [purge EXCEPT !.threads = {t \in Threads : row[t] = "open"}]
  /\ UNCHANGED <<research, done, tables, ask, doomed, workspace, deletions, disturbed>>

(* ... and deletes what it has read: who is asking goes on and may save. *)
CommitPurge ==
  /\ purge # None /\ purge.threads # None
  /\ \A t \in purge.threads : ~Locked(t)
  /\ turns' = turns \ purge.turns
  /\ row' = [t \in Threads |-> IF t \in purge.threads THEN "deleted" ELSE row[t]]
  /\ workspace' = "gone"
  /\ purge' = None
  /\ UNCHANGED <<research, done, summary, ask, doomed, deletions, disturbed>>

Next ==
  \/ \E k \in Askers :
       \/ AskNew(k) \/ StreamLoads(k) \/ Count(k) \/ AskFails(k) \/ Flush(k)
       \/ \E t \in Threads :
            AskFollowUp(k, t) \/ StreamFollowUp(k, t) \/ SaveFirst(k, t) \/ Persist(k, t)
       \/ \E folds \in BOOLEAN : Save(k, folds)
       \/ AskResearch(k) \/ ResearchGoesOn(k) \/ StreamEnds(k)
  \/ \E u \in turns : DeleteTurn(u)
  \/ \E t \in Threads : DeleteThread(t) \/ CommitDeletion(t)
  \/ DeleteWorkspace \/ ReadThreads \/ CommitPurge

Spec == Init /\ [][Next]_vars

-----------------------------------------------------------------------------
(* No turn is saved into a thread that is not there (any more): a question  *)
(* under way when its thread is deleted is not saved (the UPDATE of         *)
(* updated_at in touch_and_maybe_summarize fails).                          *)
NoTurnForADeletedThread ==
  [][\A u \in turns' \ turns : row'[u.thread] = "open"]_vars

Undisturbed == {t \in Threads : row[t] = "open"} \ disturbed

(* What the next question of a thread is told: every turn, in the window or *)
(* in the summary.  "Everything older than the window is compressed into a  *)
(* single running summary" (docs/17), as long as questions do not overlap,  *)
(* no turn is deleted and the LLM folds.                                    *)
EveryTurnIsRemembered ==
  \A t \in Undisturbed : \A w \in Latest(TurnsOf(t), Window) :
    Ids(TurnsOf(t)) \subseteq Ids(w) \cup summary[t]

(* ... and the turns are numbered in the order they were saved, which is    *)
(* the order get_conversation shows.                                        *)
TurnsAreNumbered ==
  \A t \in Undisturbed : \A u \in TurnsOf(t) :
    u.index = Cardinality({v \in TurnsOf(t) : v.id < u.id})

(* Whoever deep research tells that it is done finds its report: the thread *)
(* and its turn, unless they were deleted.                                  *)
DoneMeansSaved ==
  \A k \in Askers :
    done[k] # None =>
      \/ row[done[k]] = "deleted" \/ done[k] \in disturbed
      \/ row[done[k]] = "open" /\ \E u \in TurnsOf(done[k]) : u.index = 0
=============================================================================
