--------------------------- MODULE ConversationsProofs ---------------------------
(***************************************************************************)
(* What Conversations promises for any number of askers, threads, turns    *)
(* and deletions: no turn enters a deleted thread, what deep research says *)
(* is done is saved, and where nothing disturbs a thread its turns are     *)
(* numbered one by one and all of them remembered.                         *)
(***************************************************************************)
EXTENDS Conversations, FiniteSetTheorems, WellFoundedInduction, TLAPS

(* A turn is flushed under a lock on its thread's row, which is there. *)
LockedIsOpen == \A k \in Askers : Saving(k) => ask[k].thread \in Threads /\ row[ask[k].thread] = "open"

(* A request that has a thread to load names it. *)
Named ==
  \A k \in Askers :
    ask[k] # None /\ ask[k].stage \in {"checked", "counting"} => ask[k].thread \in Threads

TurnsHaveThreads == \A u \in turns : row[u.thread] # "absent"

(* A deletion takes the turns of its thread ... *)
DoomedAreItsOwn == \A t \in Threads : doomed[t] # None => \A u \in doomed[t] : u.thread = t

(* ... and a workspace's takes the threads of the turns it takes, but for    *)
(* those that were deleted before.                                           *)
PurgeIsWhole ==
  purge # None =>
    \A u \in purge.turns :
      /\ row[u.thread] # "absent"
      /\ purge.threads # None => row[u.thread] = "deleted" \/ u.thread \in purge.threads

(* Every sub-question is waiting, with an agent, or answered. *)
RunsAddUp ==
  \A k \in Askers : research[k] # None =>
    /\ research[k].waiting + research[k].running + research[k].answered <= MaxSubquestions
    /\ research[k].phase = "planning" => research[k].running = 0 /\ research[k].answered = 0

IInv ==
  /\ TypeOK /\ IsFiniteSet(turns) /\ RunsAddUp
  /\ LockedIsOpen /\ Named /\ TurnsHaveThreads
  /\ DoomedAreItsOwn /\ PurgeIsWhole /\ DoneMeansSaved

USE ResearchAssumption, ConversationsAssumption

-----------------------------------------------------------------------------
LEMMA InitHolds == Init => IInv
  <1> SUFFICES ASSUME Init PROVE IInv
    OBVIOUS
  <1>1. TypeOK
    BY DEF Init, ResearchInit, TypeOK
  <1>2. IsFiniteSet(turns) /\ TurnsHaveThreads /\ RunsAddUp
    BY FS_EmptySet DEF Init, ResearchInit, TurnsHaveThreads, RunsAddUp
  <1>3. LockedIsOpen /\ Named
    BY DEF Init, LockedIsOpen, Named, Saving
  <1>4. DoomedAreItsOwn /\ PurgeIsWhole /\ DoneMeansSaved
    BY DEF Init, DoomedAreItsOwn, PurgeIsWhole, DoneMeansSaved
  <1>5. QED BY <1>1, <1>2, <1>3, <1>4 DEF IInv

LEMMA TurnsAreCounted == ASSUME IInv, NEW t \in Threads PROVE Cardinality(TurnsOf(t)) \in Nat
  <1>1. TurnsOf(t) \subseteq turns BY DEF TurnsOf
  <1>2. QED BY <1>1, FS_Subset, FS_CardinalityType DEF IInv

(* A step of one question that changes no table. *)
LEMMA QuestionStepKeeps ==
  ASSUME IInv, NEW k \in Askers, NEW q \in Requests \cup {None}, ask' = [ask EXCEPT ![k] = q],
         q # None /\ q.stage = "saving" => q.thread \in Threads /\ row[q.thread] = "open",
         q # None /\ q.stage \in {"checked", "counting"} => q.thread \in Threads,
         UNCHANGED <<research, done, tables, deleting, disturbed>>
  PROVE  IInv'
  <1>1. TypeOK' /\ IsFiniteSet(turns') /\ RunsAddUp'
    BY DEF IInv, TypeOK, RunsAddUp, tables, deleting
  <1>2. TurnsHaveThreads' /\ DoomedAreItsOwn' /\ PurgeIsWhole' /\ DoneMeansSaved'
    BY DEF IInv, TurnsHaveThreads, DoomedAreItsOwn, PurgeIsWhole, DoneMeansSaved, TurnsOf,
           tables, deleting
  <1>3. \A j \in Askers : ask'[j] = IF j = k THEN q ELSE ask[j]
    BY DEF IInv, TypeOK
  <1>4. LockedIsOpen' /\ Named'
    BY <1>3 DEF IInv, LockedIsOpen, Named, Saving, tables
  <1>5. QED BY <1>1, <1>2, <1>4 DEF IInv

LEMMA FreshIsARequest == Fresh \in Requests /\ Fresh.stage = "answering" /\ Fresh.thread = None
  BY DEF Fresh, Requests

LEMMA ContextIsARequest ==
  ASSUME IInv, NEW t \in Threads
  PROVE  /\ Context(t) \in Requests /\ Context(t).stage = "counting" /\ Context(t).thread = t
         /\ Context(t).summary = summary[t]
  <1>1. summary[t] \in SUBSET Turns BY DEF IInv, TypeOK
  <1>2. QED BY <1>1 DEF Context, Fresh, Requests

(* A thread is loaded. *)
LEMMA CountKnows ==
  ASSUME IInv, NEW k \in Askers, Count(k)
  PROVE  \E q \in Requests :
           /\ ask' = [ask EXCEPT ![k] = q]
           /\ q.stage = "answering" /\ q.thread = ask[k].thread /\ q.thread \in Threads
           /\ q.summary = ask[k].summary /\ q.crossed = ask[k].crossed
           /\ q.index = Cardinality(TurnsOf(q.thread))
  <1>1. ask[k] \in Requests /\ ask[k].thread \in Threads
    BY DEF Count, Counting, IInv, TypeOK, Named
  <1> DEFINE n == Cardinality(TurnsOf(ask[k].thread))
             q == [ask[k] EXCEPT !.stage = "answering", !.index = n]
  <1>2. n \in Nat
    BY <1>1, TurnsAreCounted
  <1>3. ask' = [ask EXCEPT ![k] = q]
    BY DEF Count
  <1> HIDE DEF n
  <1>4. /\ q \in Requests /\ q.stage = "answering" /\ q.thread = ask[k].thread
        /\ q.summary = ask[k].summary /\ q.crossed = ask[k].crossed /\ q.index = n
    BY <1>1, <1>2 DEF Requests
  <1>5. n = Cardinality(TurnsOf(q.thread))
    BY <1>4 DEF n
  <1> HIDE DEF q
  <1>6. QED BY <1>1, <1>3, <1>4, <1>5

(* Asking, loading, failing and flushing. *)
LEMMA AskingKeeps ==
  ASSUME IInv, NEW k \in Askers,
         AskNew(k) \/ (\E t \in Threads : AskFollowUp(k, t) \/ StreamFollowUp(k, t))
         \/ StreamLoads(k) \/ Count(k) \/ AskFails(k) \/ Flush(k)
  PROVE  IInv'
  <1>1. CASE AskNew(k)
    BY <1>1, FreshIsARequest, QuestionStepKeeps DEF AskNew
  <1>2. ASSUME NEW t \in Threads, AskFollowUp(k, t) PROVE IInv'
    BY <1>2, ContextIsARequest, QuestionStepKeeps DEF AskFollowUp
  <1>3. ASSUME NEW t \in Threads, StreamFollowUp(k, t) PROVE IInv'
    <2> DEFINE q == [Fresh EXCEPT !.stage = "checked", !.thread = t]
    <2>1. q \in Requests /\ q.stage = "checked" /\ q.thread = t
      BY FreshIsARequest DEF Requests
    <2>2. ask' = [ask EXCEPT ![k] = q] /\ UNCHANGED <<research, done, tables, deleting, disturbed>>
      BY <1>3 DEF StreamFollowUp
    <2> HIDE DEF q
    <2>3. QED BY <2>1, <2>2, QuestionStepKeeps
  <1>4. CASE StreamLoads(k)
    <2>1. ask[k].thread \in Threads
      BY <1>4 DEF StreamLoads, IInv, Named
    <2> DEFINE q == IF row[ask[k].thread] = "open" THEN Context(ask[k].thread) ELSE Fresh
    <2>2. q \in Requests /\ q.stage # "saving" /\ (q.stage # "answering" => q.thread \in Threads)
      BY <2>1, FreshIsARequest, ContextIsARequest
    <2>3. ask' = [ask EXCEPT ![k] = q] /\ UNCHANGED <<research, done, tables, deleting, disturbed>>
      BY <1>4 DEF StreamLoads
    <2> HIDE DEF q
    <2>4. QED BY <2>2, <2>3, QuestionStepKeeps
  <1>5. CASE AskFails(k)
    BY <1>5, QuestionStepKeeps DEF AskFails, Finish
  <1>6. CASE Flush(k)
    <2>1. CASE Finish(k)
      BY <1>6, <2>1, QuestionStepKeeps DEF Flush, Finish
    <2>2. ASSUME NEW aged \in Turns \cup {None}, row[ask[k].thread] = "open",
                 ask' = [ask EXCEPT ![k].stage = "saving", ![k].aged = aged]
          PROVE  IInv'
      <3> DEFINE q == [ask[k] EXCEPT !.stage = "saving", !.aged = aged]
      <3>1. ask[k] \in Requests /\ ask[k].thread \in Threads
        BY <1>6 DEF Flush, Answering, IInv, TypeOK, Requests
      <3>2. q \in Requests /\ q.stage = "saving" /\ q.thread = ask[k].thread
        BY <3>1 DEF Requests
      <3>3. ask' = [ask EXCEPT ![k] = q] /\ UNCHANGED <<research, done, tables, deleting, disturbed>>
        BY <1>6, <2>2 DEF Flush
      <3> HIDE DEF q
      <3>4. QED BY <2>2, <3>1, <3>2, <3>3, QuestionStepKeeps
    <2>3. Ids(Aged(k)) \subseteq Turns
      BY DEF Ids, Aged, TurnsOf, IInv, TypeOK, Turn
    <2>4. QED BY <1>6, <2>1, <2>2, <2>3 DEF Flush
  <1>7. CASE Count(k)
    <2>1. UNCHANGED <<research, done, tables, deleting, disturbed>>
      BY <1>7 DEF Count
    <2>2. QED BY <1>7, <2>1, CountKnows, QuestionStepKeeps
  <1>8. QED BY <1>1, <1>2, <1>3, <1>4, <1>5, <1>6, <1>7

-----------------------------------------------------------------------------
(* A run's step leaves the tables alone. *)
LEMMA RunStepKeeps ==
  ASSUME IInv, NEW k \in Askers, NEW r \in Run \cup {None}, research' = [research EXCEPT ![k] = r],
         r # None => /\ r.waiting + r.running + r.answered <= MaxSubquestions
                     /\ r.phase = "planning" => r.running = 0 /\ r.answered = 0,
         done' = done \/ done' = [done EXCEPT ![k] = None],
         UNCHANGED <<ask, tables, deleting, disturbed>>
  PROVE  IInv'
  <1>1. \A j \in Askers : research'[j] = IF j = k THEN r ELSE research[j]
    BY DEF IInv, TypeOK
  <1>2. \A j \in Askers : done'[j] = None \/ done'[j] = done[j]
    BY DEF IInv, TypeOK
  <1>3. TypeOK' /\ IsFiniteSet(turns')
    <2>1. research' \in [Askers -> Run \cup {None}] /\ done' \in [Askers -> Threads \cup {None}]
      BY DEF IInv, TypeOK
    <2>2. QED BY <2>1 DEF IInv, TypeOK, tables, deleting
  <1>4. RunsAddUp'
    BY <1>1 DEF IInv, RunsAddUp
  <1>5. LockedIsOpen' /\ Named' /\ TurnsHaveThreads' /\ DoomedAreItsOwn' /\ PurgeIsWhole'
    BY DEF IInv, LockedIsOpen, Named, TurnsHaveThreads, DoomedAreItsOwn, PurgeIsWhole, Saving,
           tables, deleting
  <1>6. DoneMeansSaved'
    BY <1>2 DEF IInv, DoneMeansSaved, TurnsOf, tables
  <1>7. QED BY <1>3, <1>4, <1>5, <1>6 DEF IInv

LEMMA ResearchKeeps ==
  ASSUME IInv, NEW k \in Askers, AskResearch(k) \/ ResearchGoesOn(k) \/ StreamEnds(k)
  PROVE  IInv'
  <1>1. UNCHANGED <<ask, tables, deleting, disturbed>>
    BY DEF AskResearch, ResearchGoesOn, StreamEnds
  <1>2. done' = done \/ done' = [done EXCEPT ![k] = None]
    BY DEF AskResearch, ResearchGoesOn, StreamEnds
  <1>3. ASSUME NEW r \in Run \cup {None}, research' = [research EXCEPT ![k] = r],
               r # None => /\ r.waiting + r.running + r.answered <= MaxSubquestions
                           /\ r.phase = "planning" => r.running = 0 /\ r.answered = 0
        PROVE  IInv'
    BY <1>1, <1>2, <1>3, RunStepKeeps
  <1>4. CASE AskResearch(k)
    <2> DEFINE r == [phase |-> "planning", waiting |-> 0, running |-> 0, answered |-> 0]
    <2>1. r \in Run /\ r.waiting = 0 /\ r.running = 0 /\ r.answered = 0 BY DEF Run
    <2>2. research' = [research EXCEPT ![k] = r] BY <1>4 DEF AskResearch, StartResearch
    <2> HIDE DEF r
    <2>3. r.waiting + r.running + r.answered <= MaxSubquestions BY <2>1
    <2>4. QED BY <1>3, <2>1, <2>2, <2>3
  <1>5. CASE StreamEnds(k)
    BY <1>3, <1>5 DEF StreamEnds, ResearchEnds
  <1>6. CASE ResearchGoesOn(k)
    <2> DEFINE old == research[k]
    <2>1. ResearchStep(k) BY <1>6 DEF ResearchGoesOn
    <2>2. /\ old \in Run /\ old.waiting + old.running + old.answered <= MaxSubquestions
          /\ old.phase = "planning" => old.running = 0 /\ old.answered = 0
      BY <2>1 DEF ResearchStep, Plan, StartAgent, AgentEnds, Gather, Synthesize, Verify, In,
                  IInv, TypeOK, RunsAddUp
    <2>3. CASE Plan(k)
      <3>1. PICK n \in 1 .. MaxSubquestions :
              research' = [research EXCEPT ![k].phase = "agents", ![k].waiting = n]
        BY <2>3 DEF Plan
      <3> DEFINE r == [old EXCEPT !.phase = "agents", !.waiting = n]
      <3>2. r \in Run /\ r.phase = "agents" /\ r.waiting = n /\ r.running = old.running
            /\ r.answered = old.answered
        <4>1. old \in Run /\ n \in 0 .. MaxSubquestions BY <2>2
        <4> HIDE DEF old
        <4>2. QED BY <4>1 DEF Run
      <3>3. research' = [research EXCEPT ![k] = r] BY <3>1
      <3>4. old.running = 0 /\ old.answered = 0 BY <2>2, <2>3 DEF Plan, In
      <3> HIDE DEF r, old
      <3>5. r.waiting + r.running + r.answered <= MaxSubquestions BY <3>2, <3>4
      <3>6. QED BY <1>3, <3>2, <3>3, <3>5
    <2>4. CASE StartAgent(k)
      <3> DEFINE r == [old EXCEPT !.waiting = old.waiting - 1, !.running = old.running + 1]
      <3>1. research' = [research EXCEPT ![k] = r] BY <2>4 DEF StartAgent
      <3>2. old.waiting - 1 \in 0 .. MaxSubquestions /\ old.running + 1 \in 0 .. Concurrency
        BY <2>2, <2>4 DEF StartAgent, Run
      <3>3. r \in Run /\ r.phase = "agents" /\ r.waiting = old.waiting - 1
            /\ r.running = old.running + 1 /\ r.answered = old.answered
        BY <2>2, <2>4, <3>2 DEF Run, StartAgent, In
      <3> HIDE DEF r
      <3>4. r.waiting + r.running + r.answered <= MaxSubquestions
        BY <2>2, <3>3 DEF Run
      <3>5. QED BY <1>3, <3>1, <3>3, <3>4
    <2>5. CASE AgentEnds(k)
      <3> DEFINE r == [old EXCEPT !.running = old.running - 1, !.answered = old.answered + 1]
      <3>1. research' = [research EXCEPT ![k] = r] BY <2>5 DEF AgentEnds
      <3>2. old.running - 1 \in 0 .. Concurrency /\ old.answered + 1 \in 0 .. MaxSubquestions
        BY <2>2, <2>5 DEF AgentEnds, Run
      <3>3. r \in Run /\ r.phase = "agents" /\ r.waiting = old.waiting
            /\ r.running = old.running - 1 /\ r.answered = old.answered + 1
        BY <2>2, <2>5, <3>2 DEF Run, AgentEnds, In
      <3> HIDE DEF r
      <3>4. r.waiting + r.running + r.answered <= MaxSubquestions
        BY <2>2, <3>3 DEF Run
      <3>5. QED BY <1>3, <3>1, <3>3, <3>4
    <2>6. ASSUME NEW st \in {"fusing", "judging", "saving"}, ToPhase(k, st) PROVE IInv'
      <3> DEFINE r == [old EXCEPT !.phase = st]
      <3>1. research' = [research EXCEPT ![k] = r] BY <2>6 DEF ToPhase
      <3>2. r \in Run /\ r.phase = st /\ r.waiting = old.waiting /\ r.running = old.running
            /\ r.answered = old.answered
        BY <2>2 DEF Run
      <3> HIDE DEF r
      <3>3. QED BY <1>3, <2>2, <3>1, <3>2
    <2>7. QED BY <2>1, <2>3, <2>4, <2>5, <2>6 DEF ResearchStep, Gather, Synthesize, Verify
  <1>7. QED BY <1>4, <1>5, <1>6

-----------------------------------------------------------------------------
(* A thread that was absent is opened, with its first turn. *)
LEMMA Opened ==
  ASSUME IInv, NEW t \in Threads, OpenThread(t)
  PROVE  /\ row' \in [Threads -> {"absent", "open", "deleted"}]
         /\ row[t] = "absent" /\ row'[t] = "open"
         /\ \A o \in Threads : o # t => row'[o] = row[o]
         /\ turns' \subseteq Turn /\ IsFiniteSet(turns') /\ turns \subseteq turns'
         /\ \E u \in turns' : u.thread = t /\ u.index = 0
         /\ \A u \in turns' \ turns : u.thread = t
  <1> DEFINE u == [id |-> NewId, thread |-> t, index |-> 0]
  <1>1. turns' = turns \cup {u} /\ u.thread = t /\ u.index = 0
    BY DEF OpenThread
  <1>2. u \in Turn
    BY DEF OpenThread, Turn
  <1> HIDE DEF u
  <1>3. IsFiniteSet(turns')
    BY <1>1, FS_AddElement DEF IInv
  <1>4. QED BY <1>1, <1>2, <1>3 DEF OpenThread, IInv, TypeOK

LEMMA SaveFirstKeeps == ASSUME IInv, NEW k \in Askers, NEW t \in Threads, SaveFirst(k, t) PROVE IInv'
  <1>1. OpenThread(t) /\ ask' = [ask EXCEPT ![k] = None]
        /\ UNCHANGED <<research, done, summary, deleting, disturbed>>
    BY DEF SaveFirst, Finish
  <1>2. TypeOK' /\ IsFiniteSet(turns') /\ RunsAddUp'
    BY <1>1, Opened DEF IInv, TypeOK, RunsAddUp, deleting
  <1>3. LockedIsOpen' /\ Named'
    BY <1>1, Opened DEF IInv, TypeOK, LockedIsOpen, Named, Saving
  <1>4. TurnsHaveThreads' /\ DoomedAreItsOwn' /\ PurgeIsWhole'
    BY <1>1, Opened DEF IInv, TypeOK, Turn, Purge, TurnsHaveThreads, DoomedAreItsOwn, PurgeIsWhole,
                        deleting
  <1>5. DoneMeansSaved'
    BY <1>1, Opened DEF IInv, TypeOK, DoneMeansSaved, TurnsOf
  <1>6. QED BY <1>2, <1>3, <1>4, <1>5 DEF IInv

LEMMA PersistKeeps == ASSUME IInv, NEW k \in Askers, NEW t \in Threads, Persist(k, t) PROVE IInv'
  <1> DEFINE r == [research[k] EXCEPT !.phase = "saved"]
  <1>1. OpenThread(t) /\ research' = [research EXCEPT ![k] = r] /\ done' = [done EXCEPT ![k] = t]
        /\ UNCHANGED <<ask, summary, deleting, disturbed>>
    BY DEF Persist, ToPhase
  <1>2. r \in Run /\ r.phase = "saved" /\ r.waiting = research[k].waiting
        /\ r.running = research[k].running /\ r.answered = research[k].answered
        /\ research[k] # None
    BY DEF Persist, In, IInv, TypeOK, Run
  <1> HIDE DEF r
  <1>3. TypeOK' /\ IsFiniteSet(turns')
    <2>1. research' \in [Askers -> Run \cup {None}] /\ done' \in [Askers -> Threads \cup {None}]
      BY <1>1, <1>2 DEF IInv, TypeOK
    <2>2. QED BY <1>1, <2>1, Opened DEF IInv, TypeOK, deleting
  <1>4. RunsAddUp'
    BY <1>1, <1>2 DEF IInv, TypeOK, RunsAddUp
  <1>5. LockedIsOpen' /\ Named'
    BY <1>1, Opened DEF IInv, TypeOK, LockedIsOpen, Named, Saving
  <1>6. TurnsHaveThreads' /\ DoomedAreItsOwn' /\ PurgeIsWhole'
    BY <1>1, Opened DEF IInv, TypeOK, Turn, Purge, TurnsHaveThreads, DoomedAreItsOwn, PurgeIsWhole,
                        deleting
  <1>7. DoneMeansSaved'
    <2>1. SUFFICES ASSUME NEW j \in Askers, done'[j] # None
                   PROVE  \/ row'[done'[j]] = "deleted" \/ done'[j] \in disturbed
                          \/ row'[done'[j]] = "open" /\ \E u \in turns' : u.thread = done'[j] /\ u.index = 0
      BY <1>1 DEF DoneMeansSaved, TurnsOf
    <2>2. CASE j = k
      BY <1>1, <2>2, Opened DEF IInv, TypeOK
    <2>3. CASE j # k
      BY <1>1, <2>1, <2>3, Opened DEF IInv, TypeOK, DoneMeansSaved, TurnsOf
    <2>4. QED BY <2>2, <2>3
  <1>8. QED BY <1>3, <1>4, <1>5, <1>6, <1>7 DEF IInv

LEMMA SaveKeeps == ASSUME IInv, NEW k \in Askers, NEW folds \in BOOLEAN, Save(k, folds) PROVE IInv'
  <1> DEFINE t == ask[k].thread
             u == [id |-> NewId, thread |-> t, index |-> ask[k].index]
  <1>1. t \in Threads /\ row[t] = "open" /\ ask[k] \in Requests
    BY DEF Save, Saving, IInv, TypeOK, LockedIsOpen
  <1>2. u \in Turn /\ u.thread = t
    BY <1>1 DEF Save, Turn, Requests
  <1>3. turns' = turns \cup {u} /\ UNCHANGED <<research, done, row, deleting>>
    BY DEF Save
  <1>4. disturbed \subseteq disturbed' /\ disturbed' \subseteq Threads
    BY <1>1 DEF Save, IInv, TypeOK
  <1>5. ASSUME NEW j \in Askers
        PROVE  /\ ask'[j] \in Requests \cup {None}
               /\ ask'[j] # None => /\ ask[j] # None /\ ask'[j].stage = ask[j].stage
                                    /\ ask'[j].thread = ask[j].thread
    <2>1. ask'[j] = IF j = k THEN None
                    ELSE IF ask[j] # None /\ ask[j].thread = t THEN [ask[j] EXCEPT !.crossed = TRUE]
                    ELSE ask[j]
      BY DEF Save
    <2>2. ask[j] \in Requests \cup {None}
      BY DEF IInv, TypeOK
    <2>3. QED BY <2>1, <2>2 DEF Requests
  <1>6. ask' \in [Askers -> Requests \cup {None}]
    <2>1. ask' = [j \in Askers |-> ask'[j]] BY DEF Save
    <2>2. QED BY <1>5, <2>1
  <1>7. summary' \in [Threads -> SUBSET Turns]
    <2>1. summary' = [summary EXCEPT ![t] = IF ask[k].aged = None THEN @ ELSE Folded(k, folds)]
      BY DEF Save
    <2>2. ask[k].aged # None => Folded(k, folds) \in SUBSET Turns
      BY <1>1 DEF Folded, Requests
    <2>3. QED BY <1>1, <2>1, <2>2 DEF IInv, TypeOK
  <1> HIDE DEF u, t
  <1>8. IsFiniteSet(turns')
    BY <1>3, FS_AddElement DEF IInv
  <1>9. TypeOK' /\ RunsAddUp'
    BY <1>2, <1>3, <1>4, <1>6, <1>7 DEF IInv, TypeOK, RunsAddUp, deleting
  <1>10. LockedIsOpen' /\ Named'
    BY <1>3, <1>5 DEF IInv, LockedIsOpen, Named, Saving
  <1>11. TurnsHaveThreads' /\ DoomedAreItsOwn' /\ PurgeIsWhole'
    BY <1>1, <1>2, <1>3 DEF IInv, TurnsHaveThreads, DoomedAreItsOwn, PurgeIsWhole, deleting
  <1>12. DoneMeansSaved'
    BY <1>3, <1>4 DEF IInv, DoneMeansSaved, TurnsOf
  <1>13. QED BY <1>8, <1>9, <1>10, <1>11, <1>12 DEF IInv

-----------------------------------------------------------------------------
LEMMA DeleteTurnKeeps == ASSUME IInv, NEW u \in turns, DeleteTurn(u) PROVE IInv'
  <1>1. turns' = turns \ {u} /\ disturbed' = disturbed \cup {u.thread} /\ deletions' = deletions + 1
        /\ UNCHANGED <<research, done, row, summary, ask, doomed, purge, workspace>>
    BY DEF DeleteTurn, MayDelete
  <1>2. u.thread \in Threads /\ deletions' \in 0 .. Deletions
    BY DEF DeleteTurn, MayDelete, IInv, TypeOK, Turn
  <1>3. IsFiniteSet(turns')
    BY <1>1, FS_RemoveElement DEF IInv
  <1>4. TypeOK' /\ RunsAddUp' /\ LockedIsOpen' /\ Named'
    BY <1>1, <1>2 DEF IInv, TypeOK, RunsAddUp, LockedIsOpen, Named, Saving
  <1>5. TurnsHaveThreads' /\ DoomedAreItsOwn' /\ PurgeIsWhole'
    BY <1>1 DEF IInv, TurnsHaveThreads, DoomedAreItsOwn, PurgeIsWhole
  <1>6. DoneMeansSaved'
    BY <1>1 DEF IInv, DoneMeansSaved, TurnsOf
  <1>7. QED BY <1>3, <1>4, <1>5, <1>6 DEF IInv

LEMMA DeleteThreadKeeps == ASSUME IInv, NEW t \in Threads, DeleteThread(t) PROVE IInv'
  <1>1. doomed' = [doomed EXCEPT ![t] = TurnsOf(t)] /\ deletions' = deletions + 1
        /\ UNCHANGED <<research, done, row, summary, turns, ask, purge, workspace, disturbed>>
    BY DEF DeleteThread, MayDelete, tables
  <1>2. TurnsOf(t) \in SUBSET Turn /\ deletions' \in 0 .. Deletions
    BY DEF DeleteThread, MayDelete, IInv, TypeOK, TurnsOf
  <1>3. TypeOK' /\ IsFiniteSet(turns') /\ RunsAddUp' /\ LockedIsOpen' /\ Named'
    BY <1>1, <1>2 DEF IInv, TypeOK, RunsAddUp, LockedIsOpen, Named, Saving
  <1>4. DoomedAreItsOwn'
    BY <1>1 DEF IInv, TypeOK, DoomedAreItsOwn, TurnsOf
  <1>5. TurnsHaveThreads' /\ PurgeIsWhole' /\ DoneMeansSaved'
    BY <1>1 DEF IInv, TurnsHaveThreads, PurgeIsWhole, DoneMeansSaved, TurnsOf
  <1>6. QED BY <1>3, <1>4, <1>5 DEF IInv

LEMMA CommitDeletionKeeps == ASSUME IInv, NEW t \in Threads, CommitDeletion(t) PROVE IInv'
  <1>1. turns' = turns \ doomed[t] /\ row' = [row EXCEPT ![t] = "deleted"]
        /\ doomed' = [doomed EXCEPT ![t] = None]
        /\ UNCHANGED <<research, done, summary, ask, purge, workspace, deletions, disturbed>>
    BY DEF CommitDeletion
  <1>2. IsFiniteSet(turns')
    BY <1>1, FS_Subset DEF IInv
  <1>3. TypeOK' /\ RunsAddUp'
    BY <1>1 DEF IInv, TypeOK, RunsAddUp
  <1>4. LockedIsOpen' /\ Named'
    BY <1>1 DEF CommitDeletion, Locked, IInv, TypeOK, LockedIsOpen, Named, Saving
  <1>5. TurnsHaveThreads' /\ PurgeIsWhole'
    BY <1>1 DEF IInv, TypeOK, Turn, Purge, TurnsHaveThreads, PurgeIsWhole
  <1>6. DoomedAreItsOwn'
    BY <1>1 DEF IInv, TypeOK, DoomedAreItsOwn
  <1>7. \A u \in turns : u \notin turns' => u.thread = t
    BY <1>1 DEF CommitDeletion, IInv, DoomedAreItsOwn
  <1>8. DoneMeansSaved'
    BY <1>1, <1>7 DEF IInv, TypeOK, DoneMeansSaved, TurnsOf
  <1>9. QED BY <1>2, <1>3, <1>4, <1>5, <1>6, <1>8 DEF IInv

(* The workspace's turns are read, then its threads. *)
LEMMA PurgeReadsKeep == ASSUME IInv, DeleteWorkspace \/ ReadThreads PROVE IInv'
  <1>1. UNCHANGED <<research, done, row, summary, turns, ask, doomed, workspace, disturbed>>
        /\ deletions' \in 0 .. Deletions
    BY DEF DeleteWorkspace, ReadThreads, MayDelete, tables, IInv, TypeOK
  <1>2. purge' \in Purge /\ PurgeIsWhole'
    <2>1. CASE DeleteWorkspace
      <3>1. purge' = [turns |-> turns, threads |-> None] BY <2>1 DEF DeleteWorkspace
      <3>2. QED BY <1>1, <3>1 DEF PurgeIsWhole, Purge, IInv, TypeOK, TurnsHaveThreads
    <2>2. CASE ReadThreads
      <3> DEFINE open == {t \in Threads : row[t] = "open"}
                 p == [purge EXCEPT !.threads = open]
      <3>1. purge # None /\ purge \in Purge /\ purge' = p
        BY <2>2 DEF ReadThreads, IInv, TypeOK
      <3>2. p \in Purge /\ p.turns = purge.turns /\ p.threads = open
        BY <3>1 DEF Purge
      <3> HIDE DEF p
      <3>3. \A u \in purge.turns : row[u.thread] # "absent" /\ row[u.thread] \in {"absent", "open", "deleted"}
                                   /\ u.thread \in Threads
        BY <3>1 DEF IInv, TypeOK, PurgeIsWhole, Purge, Turn
      <3>4. QED BY <1>1, <3>1, <3>2, <3>3 DEF PurgeIsWhole
    <2>3. QED BY <2>1, <2>2
  <1>3. TypeOK' /\ IsFiniteSet(turns') /\ RunsAddUp' /\ LockedIsOpen' /\ Named'
    BY <1>1, <1>2 DEF IInv, TypeOK, RunsAddUp, LockedIsOpen, Named, Saving
  <1>4. TurnsHaveThreads' /\ DoomedAreItsOwn' /\ DoneMeansSaved'
    BY <1>1 DEF IInv, TurnsHaveThreads, DoomedAreItsOwn, DoneMeansSaved, TurnsOf
  <1>5. QED BY <1>2, <1>3, <1>4 DEF IInv

LEMMA CommitPurgeKeeps == ASSUME IInv, CommitPurge PROVE IInv'
  <1>1. turns' = turns \ purge.turns
        /\ row' = [t \in Threads |-> IF t \in purge.threads THEN "deleted" ELSE row[t]]
        /\ workspace' = "gone" /\ purge' = None
        /\ UNCHANGED <<research, done, summary, ask, doomed, deletions, disturbed>>
    BY DEF CommitPurge
  <1>2. IsFiniteSet(turns')
    BY <1>1, FS_Subset DEF IInv
  <1>3. TypeOK' /\ RunsAddUp'
    BY <1>1 DEF IInv, TypeOK, RunsAddUp
  <1>4. LockedIsOpen' /\ Named'
    BY <1>1 DEF CommitPurge, Locked, IInv, TypeOK, LockedIsOpen, Named, Saving
  <1>5. TurnsHaveThreads' /\ PurgeIsWhole' /\ DoomedAreItsOwn'
    BY <1>1 DEF IInv, TypeOK, Turn, TurnsHaveThreads, PurgeIsWhole, DoomedAreItsOwn
  <1>6. \A u \in turns : u \notin turns' => row'[u.thread] = "deleted"
    BY <1>1 DEF CommitPurge, IInv, TypeOK, Turn, PurgeIsWhole
  <1>7. \A t \in Threads : row'[t] = row[t] \/ row'[t] = "deleted"
    BY <1>1
  <1>8. DoneMeansSaved'
    <2>1. SUFFICES ASSUME NEW j \in Askers, done[j] # None, row'[done[j]] # "deleted"
                   PROVE  \/ done[j] \in disturbed
                          \/ row'[done[j]] = "open" /\ \E u \in turns' : u.thread = done[j] /\ u.index = 0
      BY <1>1 DEF DoneMeansSaved, TurnsOf
    <2>2. row'[done[j]] = row[done[j]]
      BY <1>7, <2>1 DEF IInv, TypeOK
    <2>3. QED BY <1>6, <2>1, <2>2 DEF IInv, DoneMeansSaved, TurnsOf
  <1>9. QED BY <1>2, <1>3, <1>4, <1>5, <1>8 DEF IInv

-----------------------------------------------------------------------------
LEMMA NextKeeps == IInv /\ [Next]_vars => IInv'
  <1> SUFFICES ASSUME IInv, [Next]_vars PROVE IInv'
    OBVIOUS
  <1>1. CASE UNCHANGED vars
    BY <1>1 DEF vars, tables, deleting, IInv, TypeOK, RunsAddUp, LockedIsOpen, Named, Saving,
         TurnsHaveThreads, DoomedAreItsOwn, PurgeIsWhole, DoneMeansSaved, TurnsOf
  <1>2. QED BY <1>1, AskingKeeps, ResearchKeeps, SaveFirstKeeps, PersistKeeps, SaveKeeps,
               DeleteTurnKeeps, DeleteThreadKeeps, CommitDeletionKeeps, PurgeReadsKeep,
               CommitPurgeKeeps DEF Next

LEMMA Invariance == Spec => []IInv
  BY InitHolds, NextKeeps, PTL DEF Spec

(* Every variable keeps its type: a run of deep research has no more          *)
(* sub-agents at a time than the semaphore lets through.                      *)
THEOREM Typing == Spec => []TypeOK
  <1>1. IInv => TypeOK BY DEF IInv
  <1>2. QED BY <1>1, Invariance, PTL

(* However turns, threads and the workspace are deleted meanwhile, a report   *)
(* that deep research has announced is there, or was deleted by someone.      *)
THEOREM AnnouncedReportsAreThere == Spec => []DoneMeansSaved
  <1>1. IInv => DoneMeansSaved BY DEF IInv
  <1>2. QED BY <1>1, Invariance, PTL

(* A turn is saved into a thread that is open then: the row its question      *)
(* loaded, if it was not deleted before the flush, or a new one.              *)
THEOREM DeletedThreadsGetNoTurn == Spec => NoTurnForADeletedThread
  <1>1. ASSUME IInv, [Next]_vars
        PROVE  [\A u \in turns' \ turns : row'[u.thread] = "open"]_vars
    <2>1. ASSUME NEW t \in Threads, OpenThread(t) PROVE \A u \in turns' \ turns : row'[u.thread] = "open"
      BY <1>1, <2>1, Opened
    <2>2. ASSUME NEW k \in Askers, NEW folds \in BOOLEAN, Save(k, folds)
          PROVE  \A u \in turns' \ turns : row'[u.thread] = "open"
      BY <1>1, <2>2 DEF Save, IInv, LockedIsOpen
    <2>3. CASE turns' \subseteq turns
      BY <2>3
    <2>4. ASSUME NEW k \in Askers, ~(\E t \in Threads : OpenThread(t)),
                 ~(\E folds \in BOOLEAN : Save(k, folds)),
                 \/ AskNew(k) \/ StreamLoads(k) \/ Count(k) \/ AskFails(k) \/ Flush(k)
                 \/ \E t \in Threads :
                      AskFollowUp(k, t) \/ StreamFollowUp(k, t) \/ SaveFirst(k, t) \/ Persist(k, t)
                 \/ AskResearch(k) \/ ResearchGoesOn(k) \/ StreamEnds(k)
          PROVE  turns' = turns
      BY <2>4 DEF AskNew, StreamLoads, Count, AskFails, Flush, AskFollowUp, StreamFollowUp, SaveFirst,
           Persist, AskResearch, ResearchGoesOn, StreamEnds, tables
    <2>5. ASSUME \/ \E u \in turns : DeleteTurn(u)
                 \/ \E t \in Threads : DeleteThread(t) \/ CommitDeletion(t)
                 \/ DeleteWorkspace \/ ReadThreads \/ CommitPurge
          PROVE  turns' \subseteq turns
      BY <2>5 DEF DeleteTurn, DeleteThread, CommitDeletion, DeleteWorkspace, ReadThreads,
           CommitPurge, tables
    <2>6. QED BY <1>1, <2>1, <2>2, <2>3, <2>4, <2>5 DEF Next
  <1>2. QED BY <1>1, Invariance, PTL DEF Spec, NoTurnForADeletedThread

-----------------------------------------------------------------------------
(* What a thread remembers.  The ids are bounded, so that a new one is the   *)
(* largest; a turn that has left the window is in the summary; and what a    *)
(* question knows of an undisturbed thread is still so when it is saved.     *)
IdsAreBounded == \E b \in Nat : \A u \in turns : u.id <= b

AskedThreadsExist ==
  \A k \in Askers : ask[k] # None /\ ask[k].thread # None => row[ask[k].thread] # "absent"

Numbered(t) ==
  \A u \in TurnsOf(t) : u.index = Cardinality({v \in TurnsOf(t) : v.id < u.id})

Covered(t) ==
  \A u \in TurnsOf(t) : u.index + Window < Cardinality(TurnsOf(t)) => u.id \in summary[t]

UpToDate(q) ==
  q.stage # "checked" /\ q.thread \in Undisturbed /\ ~q.crossed =>
    /\ q.summary = summary[q.thread]
    /\ q.stage # "counting" => q.index = Cardinality(TurnsOf(q.thread))
    /\ q.stage = "saving" =>
         \A u \in TurnsOf(q.thread) : u.index + Window = q.index => u.id = q.aged

Remembered ==
  /\ IInv /\ IdsAreBounded /\ AskedThreadsExist
  /\ \A t \in Undisturbed : Numbered(t) /\ Covered(t)
  /\ \A k \in Askers : ask[k] # None => UpToDate(ask[k])

LEMMA MaximumIsThere ==
  ASSUME NEW S \in SUBSET Nat, 0 \in S, NEW b \in Nat, \A x \in S : x <= b
  PROVE  Max(S) \in S /\ \A x \in S : x <= Max(S)
  <1> DEFINE bounds == {x \in Nat : \A y \in S : y <= x}
             R == OpToRel(<, Nat)
  <1>1. IsWellFoundedOn(R, Nat)
    BY NatLessThanWellFounded
  <1>2. \A x, y \in Nat : x < y => <<x, y>> \in R
    BY DEF OpToRel
  <1> HIDE DEF R
  <1>3. PICK m \in bounds : \A x \in bounds : ~(<<x, m>> \in R)
    <2>1. b \in bounds /\ bounds \subseteq Nat
      OBVIOUS
    <2> HIDE DEF bounds
    <2>2. QED BY <1>1, <2>1, WFMin
  <1>4. m \in S
    <2>1. SUFFICES ASSUME m \notin S PROVE FALSE
      OBVIOUS
    <2>2. m \in Nat /\ m # 0 /\ \A y \in S : y <= m /\ y # m
      BY <2>1
    <2>3. m - 1 \in Nat /\ \A y \in S : y <= m - 1
      BY <2>2
    <2>4. m - 1 \in bounds /\ m - 1 < m
      BY <2>2, <2>3
    <2> HIDE DEF bounds
    <2>5. QED BY <1>2, <1>3, <2>2, <2>3, <2>4
  <1>5. \E x \in S : \A y \in S : x >= y
    BY <1>4
  <1>6. QED BY <1>5 DEF Max

LEMMA NewIdIsNew ==
  ASSUME TypeOK, IdsAreBounded PROVE NewId \in Nat /\ \A u \in turns : u.id < NewId
  <1> DEFINE ids == Ids(turns) \cup {0}
  <1>1. ids \in SUBSET Nat /\ 0 \in ids /\ \A u \in turns : u.id \in ids
    <2>1. \A u \in turns : u.id \in Nat
      BY DEF TypeOK, Turn
    <2>2. QED BY <2>1 DEF Ids
  <1>2. PICK b \in Nat : \A x \in ids : x <= b
    BY DEF IdsAreBounded, Ids
  <1> HIDE DEF ids
  <1>3. Max(ids) \in ids /\ \A x \in ids : x <= Max(ids)
    BY <1>1, <1>2, MaximumIsThere
  <1>4. NewId = Max(ids) + 1
    BY DEF NewId, ids
  <1>5. Max(ids) \in Nat /\ \A u \in turns : u.id \in Nat /\ u.id <= Max(ids)
    BY <1>1, <1>3
  <1>6. QED BY <1>4, <1>5

(* In a numbered thread the indices and the ids give the same order. *)
LEMMA IndicesOrder ==
  ASSUME IInv, NEW t \in Threads, Numbered(t), NEW u \in TurnsOf(t), NEW v \in TurnsOf(t)
  PROVE  /\ v.id < u.id => v.index < u.index
         /\ v.index = u.index => v = u
  <1> DEFINE Before(x) == {y \in TurnsOf(t) : y.id < x.id}
  <1>1. /\ IsFiniteSet(TurnsOf(t)) /\ TurnsOf(t) \subseteq Turn
        /\ \A x \in TurnsOf(t) : x.id \in Nat /\ x.index \in Nat /\ x.thread = t
    BY FS_Subset DEF IInv, TypeOK, Turn, TurnsOf
  <1>2. \A x \in TurnsOf(t) : IsFiniteSet(Before(x)) /\ x.index = Cardinality(Before(x))
                              /\ Cardinality(Before(x)) \in Nat
    BY <1>1, FS_Subset, FS_CardinalityType DEF Numbered
  <1>3. ASSUME NEW x \in TurnsOf(t), NEW y \in TurnsOf(t), y.id < x.id PROVE y.index < x.index
    <2>1. y \notin Before(y) /\ Before(y) \cup {y} \subseteq Before(x)
      BY <1>1, <1>3
    <2>2. Cardinality(Before(y) \cup {y}) = Cardinality(Before(y)) + 1
      BY <1>2, <2>1, FS_AddElement
    <2>3. Cardinality(Before(y) \cup {y}) <= Cardinality(Before(x))
      BY <1>2, <2>1, FS_Subset
    <2>4. /\ y.index = Cardinality(Before(y)) /\ x.index = Cardinality(Before(x))
          /\ y.index \in Nat /\ x.index \in Nat
      BY <1>1, <1>2
    <2> HIDE DEF Before
    <2>5. QED BY <2>2, <2>3, <2>4
  <1> HIDE DEF Before
  <1>4. v.index = u.index => v.id = u.id
    BY <1>1, <1>3
  <1>5. v.index = u.index /\ v.id = u.id => v = u
    BY <1>1 DEF Turn
  <1>6. QED BY <1>3, <1>4, <1>5

(* What the next question loads and what the summary holds is all there is. *)
LEMMA LatestAndCovered ==
  ASSUME IInv, NEW t \in Threads, Numbered(t), Covered(t),
         NEW w \in Latest(TurnsOf(t), Window), NEW u \in TurnsOf(t), u \notin w
  PROVE  u.id \in summary[t]
  <1> DEFINE all == TurnsOf(t)
             before == {v \in all : v.id < u.id}
             n == Cardinality(all)
  <1>1. IsFiniteSet(all) /\ n \in Nat /\ \A v \in all : v.id \in Nat /\ v.index \in Nat
    BY FS_Subset, FS_CardinalityType DEF IInv, TypeOK, Turn, TurnsOf
  <1>2. /\ w \subseteq all /\ Cardinality(w) = IF n < Window THEN n ELSE Window
        /\ \A v \in w : v.index >= u.index
    BY DEF Latest, kSubset
  <1>3. IsFiniteSet(before) /\ u.index = Cardinality(before) /\ u \notin before
    BY <1>1, FS_Subset DEF Numbered
  <1>4. w \cap (before \cup {u}) = {}
    BY <1>1, <1>2, IndicesOrder
  <1>5. IsFiniteSet(before \cup {u}) /\ Cardinality(before \cup {u}) = u.index + 1
    BY <1>3, FS_AddElement
  <1>6. IsFiniteSet(w) /\ Cardinality(w) \in Nat
    BY <1>1, <1>2, FS_Subset, FS_CardinalityType
  <1>7. w \cup (before \cup {u}) \subseteq all
    BY <1>2
  <1> HIDE DEF all, before
  <1>8. Cardinality(w \cup (before \cup {u})) = Cardinality(w) + (u.index + 1)
    <2>1. Cardinality(w \cup (before \cup {u}))
            = Cardinality(w) + Cardinality(before \cup {u}) - Cardinality(w \cap (before \cup {u}))
      BY <1>5, <1>6, FS_Union
    <2>2. Cardinality(w \cap (before \cup {u})) = 0
      BY <1>4, FS_EmptySet
    <2>3. u.index \in Nat
      BY <1>1 DEF all
    <2>4. QED BY <1>5, <1>6, <2>1, <2>2, <2>3
  <1>9. Cardinality(w) + (u.index + 1) <= n
    BY <1>1, <1>7, <1>8, FS_Subset
  <1>10. u.index + Window < n
    <2>1. u.index \in Nat /\ Window \in Nat
      BY <1>1 DEF all
    <2>2. QED BY <1>1, <1>2, <1>9, <2>1
  <1>11. QED BY <1>10 DEF Covered, all

LEMMA InitRemembers == Init => Remembered
  <1> SUFFICES ASSUME Init PROVE Remembered
    OBVIOUS
  <1>1. IInv
    BY InitHolds
  <1>2. IdsAreBounded /\ AskedThreadsExist /\ Undisturbed = {}
    BY DEF Init, IdsAreBounded, AskedThreadsExist, Undisturbed
  <1>3. \A k \in Askers : ask[k] = None
    BY DEF Init
  <1>4. QED BY <1>1, <1>2, <1>3 DEF Remembered

(* The thread is undisturbed as before, and has the turns it had. *)
Same(t) ==
  t \in Undisturbed /\ (TurnsOf(t))' = TurnsOf(t) /\ summary'[t] = summary[t]

LEMMA SameThreads ==
  ASSUME Remembered, NEW t \in Threads, Same(t)
  PROVE  Numbered(t)' /\ Covered(t)'
  <1>1. Numbered(t) /\ Covered(t)
    BY DEF Remembered, Same
  <1>2. QED BY <1>1 DEF Same, Numbered, Covered

LEMMA SameFits ==
  ASSUME NEW q, UpToDate(q), q.thread \in Undisturbed' => Same(q.thread)
  PROVE  UpToDate(q)'
  BY DEF UpToDate, Same

(* Turns and threads are taken away; nobody is answered. *)
LEMMA TablesShrink ==
  ASSUME Remembered, IInv', UNCHANGED <<ask, summary>>, turns' \subseteq turns,
         disturbed \subseteq disturbed',
         \A t \in Threads : row'[t] = row[t] \/ row'[t] = "deleted",
         \A u \in turns \ turns' : u.thread \in disturbed' \/ row'[u.thread] = "deleted"
  PROVE  Remembered'
  <1>1. IdsAreBounded'
    BY DEF Remembered, IdsAreBounded
  <1>2. AskedThreadsExist'
    BY DEF Remembered, AskedThreadsExist, IInv, TypeOK, Requests
  <1>3. ASSUME NEW t \in Undisturbed' PROVE t \in Threads /\ Same(t)
    <2>1. t \in Threads /\ row'[t] = "open" /\ t \notin disturbed'
      BY <1>3 DEF Undisturbed
    <2>2. t \in Undisturbed
      BY <2>1 DEF Undisturbed
    <2>3. {u \in turns' : u.thread = t} = {u \in turns : u.thread = t}
      BY <2>1
    <2>4. QED BY <2>1, <2>2, <2>3 DEF Same, TurnsOf
  <1>4. \A t \in Undisturbed' : Numbered(t)' /\ Covered(t)'
    BY <1>3, SameThreads
  <1>5. ASSUME NEW k \in Askers, ask'[k] # None PROVE UpToDate(ask[k])'
    <2>1. UpToDate(ask[k])
      BY <1>5 DEF Remembered
    <2>2. QED BY <1>3, <2>1, SameFits
  <1>6. QED BY <1>1, <1>2, <1>4, <1>5 DEF Remembered

(* One question goes a step further, and no table changes. *)
LEMMA QuestionFits ==
  ASSUME Remembered, IInv', NEW k \in Askers, NEW q, ask' = [ask EXCEPT ![k] = q],
         q # None => UpToDate(q) /\ (q.thread # None => row[q.thread] # "absent"),
         UNCHANGED <<tables, disturbed>>
  PROVE  Remembered'
  <1>1. \A j \in Askers : ask'[j] = IF j = k THEN q ELSE ask[j]
    BY DEF Remembered, IInv, TypeOK
  <1>2. IdsAreBounded' /\ AskedThreadsExist'
    BY <1>1 DEF Remembered, IdsAreBounded, AskedThreadsExist, tables
  <1>3. \A t \in Undisturbed' : Numbered(t)' /\ Covered(t)'
    BY DEF Remembered, Undisturbed, Numbered, Covered, TurnsOf, tables
  <1>4. ASSUME NEW j \in Askers, ask'[j] # None PROVE UpToDate(ask[j])'
    <2>1. UpToDate(ask'[j])
      BY <1>1, <1>4 DEF Remembered
    <2>2. QED BY <2>1 DEF UpToDate, Undisturbed, TurnsOf, tables
  <1>5. QED BY <1>2, <1>3, <1>4 DEF Remembered

LEMMA AskingRemembers ==
  ASSUME Remembered, NEW k \in Askers,
         AskNew(k) \/ (\E t \in Threads : AskFollowUp(k, t) \/ StreamFollowUp(k, t))
         \/ StreamLoads(k) \/ Count(k) \/ AskFails(k) \/ Flush(k)
  PROVE  Remembered'
  <1>1. IInv /\ IInv'
    BY AskingKeeps DEF Remembered
  <1>2. UpToDate(Fresh) /\ Fresh.thread = None
    BY FreshIsARequest DEF UpToDate, Undisturbed
  <1>3. ASSUME NEW t \in Threads
        PROVE  UpToDate(Context(t)) /\ Context(t).thread = t
    BY <1>1, ContextIsARequest DEF UpToDate
  <1>4. UNCHANGED <<tables, disturbed>>
    BY DEF AskNew, AskFollowUp, StreamFollowUp, StreamLoads, Count, AskFails, Flush
  <1>5. CASE AskNew(k)
    BY <1>1, <1>2, <1>4, <1>5, QuestionFits DEF AskNew
  <1>6. ASSUME NEW t \in Threads, AskFollowUp(k, t) PROVE Remembered'
    <2>1. ask' = [ask EXCEPT ![k] = Context(t)] /\ row[t] # "absent"
      BY <1>6 DEF AskFollowUp
    <2>2. QED BY <1>1, <1>3, <1>4, <2>1, QuestionFits
  <1>7. ASSUME NEW t \in Threads, StreamFollowUp(k, t) PROVE Remembered'
    <2> DEFINE q == [Fresh EXCEPT !.stage = "checked", !.thread = t]
    <2>1. q.stage = "checked" /\ q.thread = t
      BY FreshIsARequest DEF Requests
    <2>2. ask' = [ask EXCEPT ![k] = q] /\ row[t] # "absent"
      BY <1>7 DEF StreamFollowUp
    <2> HIDE DEF q
    <2>3. UpToDate(q)
      BY <2>1 DEF UpToDate
    <2>4. QED BY <1>1, <1>4, <2>1, <2>2, <2>3, QuestionFits
  <1>8. CASE StreamLoads(k)
    <2>1. ask[k].thread \in Threads
      BY <1>1, <1>8 DEF StreamLoads, IInv, Named
    <2> DEFINE q == IF row[ask[k].thread] = "open" THEN Context(ask[k].thread) ELSE Fresh
    <2>2. UpToDate(q) /\ (q.thread # None => row[q.thread] # "absent")
      BY <1>2, <1>3, <2>1
    <2>3. ask' = [ask EXCEPT ![k] = q]
      BY <1>8 DEF StreamLoads
    <2> HIDE DEF q
    <2>4. QED BY <1>1, <1>4, <2>2, <2>3, QuestionFits
  <1>9. CASE AskFails(k)
    BY <1>1, <1>4, <1>9, QuestionFits DEF AskFails, Finish
  <1>10. CASE Flush(k)
    <2>1. CASE Finish(k)
      BY <1>1, <1>4, <2>1, QuestionFits DEF Finish
    <2>2. ASSUME NEW aged \in IF Aged(k) = {} THEN {None} ELSE Ids(Aged(k)),
                 ask' = [ask EXCEPT ![k].stage = "saving", ![k].aged = aged]
          PROVE  Remembered'
      <3> DEFINE q == [ask[k] EXCEPT !.stage = "saving", !.aged = aged]
      <3>1. ask[k] \in Requests /\ ask[k].thread \in Threads /\ ask[k].stage = "answering"
        BY <1>1, <1>10 DEF Flush, Answering, IInv, TypeOK, Requests
      <3>2. /\ q.stage = "saving" /\ q.thread = ask[k].thread /\ q.index = ask[k].index
            /\ q.summary = ask[k].summary /\ q.crossed = ask[k].crossed /\ q.aged = aged
        BY <3>1 DEF Requests
      <3>3. ask' = [ask EXCEPT ![k] = q]
        BY <2>2
      <3> HIDE DEF q
      <3>4. UpToDate(ask[k]) /\ row[ask[k].thread] # "absent"
        BY <1>10, <3>1 DEF Flush, Answering, Remembered, AskedThreadsExist
      <3>5. UpToDate(q)
        <4>1. SUFFICES ASSUME q.thread \in Undisturbed, ~q.crossed,
                              NEW u \in TurnsOf(q.thread), u.index + Window = q.index
                       PROVE  u.id = aged
          BY <3>1, <3>2, <3>4 DEF UpToDate
        <4>2. u \in Aged(k)
          BY <3>2, <4>1 DEF Aged
        <4>3. PICK v \in Aged(k) : aged = v.id
          BY <2>2, <4>2 DEF Ids
        <4>4. v \in TurnsOf(q.thread) /\ v.index + Window = q.index /\ v.index \in Nat
              /\ u.index \in Nat /\ Window \in Nat
          BY <1>1, <3>2, <4>1, <4>3 DEF Aged, TurnsOf, IInv, TypeOK, Turn
        <4>5. v.index = u.index
          BY <4>1, <4>4, <3>1, <3>2 DEF Requests
        <4>6. v = u
          BY <1>1, <3>1, <3>2, <4>1, <4>4, <4>5, IndicesOrder DEF Remembered
        <4>7. QED BY <4>3, <4>6
      <3>6. QED BY <1>1, <1>4, <3>2, <3>3, <3>4, <3>5, QuestionFits
    <2>3. QED BY <1>10, <2>1, <2>2 DEF Flush
  <1>11. CASE Count(k)
    <2>1. PICK q \in Requests :
             /\ ask' = [ask EXCEPT ![k] = q]
             /\ q.stage = "answering" /\ q.thread = ask[k].thread /\ q.thread \in Threads
             /\ q.summary = ask[k].summary /\ q.crossed = ask[k].crossed
             /\ q.index = Cardinality(TurnsOf(q.thread))
      BY <1>1, <1>11, CountKnows
    <2>2. ask[k] # None /\ ask[k].stage = "counting"
      BY <1>11 DEF Count, Counting
    <2>3. UpToDate(ask[k]) /\ row[q.thread] # "absent"
      BY <1>1, <2>1, <2>2 DEF Remembered, AskedThreadsExist, IInv, TypeOK
    <2>4. UpToDate(q)
      BY <2>1, <2>2, <2>3 DEF UpToDate
    <2>5. QED BY <1>1, <1>4, <2>1, <2>3, <2>4, QuestionFits
  <1>12. QED BY <1>5, <1>6, <1>7, <1>8, <1>9, <1>10, <1>11

(* A thread is opened with a turn numbered 0; nobody asks in it yet. *)
LEMMA OpeningRemembers ==
  ASSUME Remembered, IInv', NEW t \in Threads, OpenThread(t), UNCHANGED <<summary, disturbed>>,
         \A k \in Askers : ask'[k] = None \/ ask'[k] = ask[k]
  PROVE  Remembered'
  <1> DEFINE new == [id |-> NewId, thread |-> t, index |-> 0]
  <1>1. IInv /\ row[t] = "absent" /\ turns' = turns \cup {new}
        /\ \A o \in Threads : row'[o] = IF o = t THEN "open" ELSE row[o]
    BY DEF OpenThread, Remembered, IInv, TypeOK
  <1>2. NewId \in Nat /\ \A u \in turns : u.id < NewId
    BY NewIdIsNew DEF Remembered, IInv
  <1>3. new.id = NewId /\ new.thread = t /\ new.index = 0
    OBVIOUS
  <1> HIDE DEF new
  <1>4. IdsAreBounded'
    <2>1. \A u \in turns : u.id \in Nat
      BY <1>1 DEF IInv, TypeOK, Turn
    <2>2. \A u \in turns' : u = new \/ u \in turns
      BY <1>1, <1>2
    <2>3. \A u \in turns' : u.id <= NewId
      BY <1>2, <1>3, <2>1, <2>2
    <2>4. QED BY <1>2, <2>3 DEF IdsAreBounded
  <1>5. AskedThreadsExist'
    BY <1>1 DEF Remembered, AskedThreadsExist, IInv, TypeOK, Requests
  <1>6. ASSUME NEW o \in Threads \ {t}, o \in Undisturbed' PROVE Same(o)
    <2>1. o \in Undisturbed
      BY <1>1, <1>6 DEF Undisturbed
    <2>2. {u \in turns' : u.thread = o} = {u \in turns : u.thread = o}
      BY <1>1, <1>3
    <2>3. QED BY <2>1, <2>2 DEF Same, TurnsOf
  <1>7. (TurnsOf(t))' = {new}
    BY <1>1, <1>3 DEF TurnsOf, IInv, TurnsHaveThreads
  <1>8. Numbered(t)' /\ Covered(t)'
    <2>1. {v \in {new} : v.id < new.id} = {}
      BY <1>2, <1>3
    <2>2. Cardinality({}) = 0 /\ Cardinality({new}) = 1
      BY FS_EmptySet, FS_Singleton
    <2>3. Numbered(t)'
      BY <1>3, <1>7, <2>1, <2>2 DEF Numbered
    <2>4. ~(new.index + Window < Cardinality({new}))
      BY <1>3, <2>2
    <2>5. QED BY <1>7, <2>3, <2>4 DEF Covered
  <1>9. \A o \in Undisturbed' : Numbered(o)' /\ Covered(o)'
    <2>1. \A o \in Undisturbed' : o \in Threads
      BY DEF Undisturbed
    <2>2. QED BY <1>6, <1>8, <2>1, SameThreads
  <1>10. ASSUME NEW k \in Askers, ask'[k] # None PROVE UpToDate(ask[k])'
    <2>1. ask'[k] = ask[k] /\ UpToDate(ask[k]) /\ ask[k].thread # t
      BY <1>1, <1>10 DEF Remembered, AskedThreadsExist
    <2>2. ask[k].thread \in Undisturbed' => Same(ask[k].thread)
      BY <1>6, <2>1 DEF Undisturbed
    <2>3. QED BY <2>1, <2>2, SameFits
  <1>11. QED BY <1>4, <1>5, <1>9, <1>10 DEF Remembered

LEMMA SaveRemembers ==
  ASSUME Remembered, NEW k \in Askers, NEW folds \in BOOLEAN, Save(k, folds),
         NEW t \in Threads, t = ask[k].thread
  PROVE  Remembered'
  <1> DEFINE all == TurnsOf(t)
             new == [id |-> NewId, thread |-> t, index |-> ask[k].index]
  <1>1. /\ IInv /\ IInv' /\ row[t] = "open" /\ ask[k] \in Requests
        /\ ask[k].stage = "saving" /\ ask[k] # None
    BY SaveKeeps DEF Remembered, Save, Saving, IInv, TypeOK, LockedIsOpen
  <1>2. /\ turns' = turns \cup {new} /\ row' = row
        /\ disturbed' = disturbed \cup
             IF ask[k].crossed \/ (~folds /\ ask[k].aged # None) THEN {t} ELSE {}
    BY DEF Save
  <1>3. \A o \in Threads : summary'[o] = IF o = t /\ ask[k].aged # None
                                         THEN Folded(k, folds) ELSE summary[o]
    BY <1>1 DEF Save, IInv, TypeOK
  <1>4. NewId \in Nat /\ \A u \in turns : u.id < NewId
    BY NewIdIsNew DEF Remembered, IInv
  <1>5. new.id = NewId /\ new.thread = t /\ new.index = ask[k].index
    OBVIOUS
  <1> HIDE DEF new
  <1>6. IdsAreBounded'
    <2>1. \A u \in turns : u.id \in Nat
      BY <1>1 DEF IInv, TypeOK, Turn
    <2>2. \A u \in turns' : u = new \/ u \in turns
      BY <1>1, <1>2
    <2>3. \A u \in turns' : u.id <= NewId
      BY <1>4, <1>5, <2>1, <2>2
    <2>4. QED BY <1>4, <2>3 DEF IdsAreBounded
  <1>7. ASSUME NEW j \in Askers, ask'[j] # None
        PROVE  /\ ask[j] # None /\ ask'[j].thread = ask[j].thread
               /\ ask[j].thread = t => ask'[j].crossed
               /\ ask[j].thread # t => ask'[j] = ask[j]
    <2>1. ask'[j] = IF j = k THEN None
                    ELSE IF ask[j] # None /\ ask[j].thread = t THEN [ask[j] EXCEPT !.crossed = TRUE]
                    ELSE ask[j]
      BY DEF Save
    <2>2. ask[j] \in Requests \cup {None}
      BY <1>1 DEF IInv, TypeOK
    <2>3. QED BY <1>7, <2>1, <2>2 DEF Requests
  <1>8. AskedThreadsExist'
    BY <1>2, <1>7 DEF Remembered, AskedThreadsExist
  <1>9. ASSUME NEW o \in Threads \ {t}, o \in Undisturbed' PROVE Same(o)
    <2>1. o \in Undisturbed
      BY <1>2, <1>9 DEF Undisturbed
    <2>2. {u \in turns' : u.thread = o} = {u \in turns : u.thread = o}
      BY <1>2, <1>5
    <2>3. QED BY <1>3, <2>1, <2>2 DEF Same, TurnsOf
  <1>10. ASSUME t \in Undisturbed' PROVE Numbered(t)' /\ Covered(t)'
    <2>1. t \in Undisturbed /\ ~ask[k].crossed /\ (folds \/ ask[k].aged = None)
      BY <1>2, <1>10 DEF Undisturbed
    <2>2. /\ ask[k].index = Cardinality(all) /\ ask[k].summary = summary[t]
          /\ \A u \in all : u.index + Window = ask[k].index => u.id = ask[k].aged
      BY <1>1, <2>1 DEF Remembered, UpToDate
    <2>3. Numbered(t) /\ Covered(t)
      BY <2>1 DEF Remembered
    <2>4. /\ IsFiniteSet(all) /\ Cardinality(all) \in Nat
          /\ \A u \in all : u.id \in Nat /\ u.index \in Nat /\ u.id < NewId /\ u.id \in Turns
      BY <1>1, <1>4, FS_Subset, FS_CardinalityType DEF IInv, TypeOK, Turn, TurnsOf
    <2>5. (TurnsOf(t))' = all \cup {new} /\ new \notin all
      <3>1. new \notin all
        BY <1>4, <1>5, <2>4
      <3>2. (TurnsOf(t))' = {u \in turns' : u.thread = t}
        BY DEF TurnsOf
      <3>3. {u \in turns' : u.thread = t} = {u \in turns : u.thread = t} \cup {new}
        BY <1>2, <1>5
      <3>4. QED BY <3>1, <3>2, <3>3 DEF TurnsOf
    <2>6. Cardinality(all \cup {new}) = Cardinality(all) + 1
      BY <2>4, <2>5, FS_AddElement
    <2> HIDE DEF all
    <2>7. Numbered(t)'
      <3>1. ASSUME NEW u \in all \cup {new}
            PROVE  u.index = Cardinality({v \in all \cup {new} : v.id < u.id})
        <4>1. CASE u = new
          <5>1. {v \in all \cup {new} : v.id < u.id} = all
            BY <1>4, <1>5, <2>4, <4>1
          <5>2. QED BY <1>5, <2>2, <4>1, <5>1
        <4>2. CASE u \in all
          <5>1. {v \in all \cup {new} : v.id < u.id} = {v \in all : v.id < u.id}
            BY <1>4, <1>5, <2>4, <4>2
          <5>2. QED BY <2>3, <4>2, <5>1 DEF Numbered, all
        <4>3. QED BY <3>1, <4>1, <4>2
      <3>2. QED BY <2>5, <3>1 DEF Numbered
    <2>8. Covered(t)'
      <3>1. ASSUME NEW u \in all \cup {new}, u.index + Window < Cardinality(all) + 1
            PROVE  u.id \in summary'[t]
        <4>1. u \in all
          BY <1>5, <2>2, <2>4, <3>1
        <4>2. CASE u.index + Window = ask[k].index
          <5>1. u.id = ask[k].aged /\ ask[k].aged # None /\ folds
            BY <2>1, <2>2, <2>4, <4>1, <4>2
          <5>2. QED BY <1>1, <1>3, <5>1 DEF Folded
        <4>3. CASE u.index + Window < Cardinality(all)
          <5>1. u.id \in summary[t]
            BY <2>3, <4>1, <4>3 DEF Covered, all
          <5>2. QED BY <1>1, <1>3, <2>2, <5>1 DEF Folded
        <4>4. u.index \in Nat /\ Window \in Nat
          BY <2>4, <4>1
        <4>5. QED BY <2>2, <2>4, <3>1, <4>2, <4>3, <4>4
      <3>2. QED BY <2>5, <2>6, <3>1 DEF Covered
    <2>9. QED BY <2>7, <2>8
  <1>11. \A o \in Undisturbed' : Numbered(o)' /\ Covered(o)'
    <2>1. \A o \in Undisturbed' : o \in Threads
      BY DEF Undisturbed
    <2>2. QED BY <1>9, <1>10, <2>1, SameThreads
  <1>12. ASSUME NEW j \in Askers, ask'[j] # None PROVE UpToDate(ask[j])'
    <2>1. CASE ask[j].thread = t
      BY <1>7, <1>12, <2>1 DEF UpToDate
    <2>2. CASE ask[j].thread # t
      <3>1. ask'[j] = ask[j] /\ UpToDate(ask[j])
        BY <1>7, <1>12, <2>2 DEF Remembered
      <3>2. ask[j].thread \in Undisturbed' => Same(ask[j].thread)
        BY <1>9, <2>2 DEF Undisturbed
      <3>3. QED BY <3>1, <3>2, SameFits
    <2>3. QED BY <2>1, <2>2
  <1>13. QED BY <1>1, <1>6, <1>8, <1>11, <1>12 DEF Remembered

LEMMA NextRemembers == Remembered /\ [Next]_vars => Remembered'
  <1> SUFFICES ASSUME Remembered, [Next]_vars PROVE Remembered'
    OBVIOUS
  <1>1. IInv /\ IInv'
    BY NextKeeps DEF Remembered
  <1>2. ASSUME UNCHANGED <<ask, tables, disturbed>> PROVE Remembered'
    BY <1>1, <1>2, TablesShrink DEF tables
  <1>3. ASSUME NEW k \in Askers, AskResearch(k) \/ ResearchGoesOn(k) \/ StreamEnds(k)
        PROVE  Remembered'
    BY <1>2, <1>3 DEF AskResearch, ResearchGoesOn, StreamEnds
  <1>4. ASSUME NEW k \in Askers, NEW t \in Threads, SaveFirst(k, t) \/ Persist(k, t)
        PROVE  Remembered'
    <2>1. \A j \in Askers : ask'[j] = None \/ ask'[j] = ask[j]
      BY <1>1, <1>4 DEF SaveFirst, Finish, Persist, IInv, TypeOK
    <2>2. QED BY <1>1, <1>4, <2>1, OpeningRemembers DEF SaveFirst, Persist
  <1>5. ASSUME NEW u \in turns, DeleteTurn(u) PROVE Remembered'
    <2>1. turns' = turns \ {u} /\ disturbed' = disturbed \cup {u.thread}
          /\ UNCHANGED <<ask, summary, row>>
      BY <1>5 DEF DeleteTurn
    <2>2. \A v \in turns \ turns' : v.thread \in disturbed'
      BY <2>1
    <2>3. QED BY <1>1, <2>1, <2>2, TablesShrink
  <1>6. ASSUME NEW t \in Threads, CommitDeletion(t) PROVE Remembered'
    <2>1. turns' = turns \ doomed[t] /\ doomed[t] # None /\ UNCHANGED <<ask, summary, disturbed>>
          /\ \A o \in Threads : row'[o] = IF o = t THEN "deleted" ELSE row[o]
      BY <1>1, <1>6 DEF CommitDeletion, IInv, TypeOK
    <2>2. \A v \in turns \ turns' : v.thread = t
      BY <1>1, <2>1 DEF IInv, DoomedAreItsOwn
    <2>3. QED BY <1>1, <2>1, <2>2, TablesShrink
  <1>7. ASSUME CommitPurge PROVE Remembered'
    <2>1. /\ turns' = turns \ purge.turns /\ UNCHANGED <<ask, summary, disturbed>>
          /\ \A o \in Threads : row'[o] = IF o \in purge.threads THEN "deleted" ELSE row[o]
          /\ purge # None /\ purge.threads # None
      BY <1>7 DEF CommitPurge
    <2>2. \A v \in turns \ turns' : row'[v.thread] = "deleted"
      BY <1>1, <2>1 DEF IInv, TypeOK, Turn, PurgeIsWhole
    <2>3. QED BY <1>1, <2>1, <2>2, TablesShrink
  <1>8. ASSUME \/ UNCHANGED vars \/ DeleteWorkspace \/ ReadThreads
               \/ \E t \in Threads : DeleteThread(t)
        PROVE  Remembered'
    BY <1>2, <1>8 DEF vars, DeleteWorkspace, ReadThreads, DeleteThread
  <1>9. ASSUME NEW k \in Askers, NEW folds \in BOOLEAN, Save(k, folds) PROVE Remembered'
    <2>1. ask[k].thread \in Threads
      BY <1>1, <1>9 DEF Save, IInv, LockedIsOpen
    <2>2. QED BY <1>9, <2>1, SaveRemembers
  <1>10. QED
    BY <1>3, <1>4, <1>5, <1>6, <1>7, <1>8, <1>9, AskingRemembers DEF Next

LEMMA RememberedAlways == Spec => []Remembered
  BY InitRemembers, NextRemembers, PTL DEF Spec

(* In a thread that nothing disturbed the turns are numbered as they were    *)
(* saved: the number a question took when it loaded the thread is still free *)
(* when it is saved (load_thread_context).                                   *)
THEOREM TurnsCountUp == Spec => []TurnsAreNumbered
  <1>1. Remembered => TurnsAreNumbered
    BY DEF Remembered, Numbered, TurnsAreNumbered
  <1>2. QED BY <1>1, RememberedAlways, PTL

(* ... and the next question is told of every one of them: the turn that     *)
(* leaves the window is folded into the summary in the transaction that      *)
(* pushes it out (touch_and_maybe_summarize).                                *)
THEOREM NothingIsForgotten == Spec => []EveryTurnIsRemembered
  <1>1. ASSUME Remembered PROVE EveryTurnIsRemembered
    <2>1. ASSUME NEW t \in Undisturbed, NEW w \in Latest(TurnsOf(t), Window), NEW u \in TurnsOf(t)
          PROVE  u.id \in Ids(w) \cup summary[t]
      <3>1. t \in Threads /\ Numbered(t) /\ Covered(t)
        BY <1>1 DEF Remembered, Undisturbed
      <3>2. CASE u \in w
        BY <3>2 DEF Ids
      <3>3. CASE u \notin w
        BY <1>1, <2>1, <3>1, <3>3, LatestAndCovered DEF Remembered
      <3>4. QED BY <3>2, <3>3
    <2>2. QED BY <2>1 DEF EveryTurnIsRemembered, Ids
  <1>2. QED BY <1>1, RememberedAlways, PTL
=============================================================================
