------------------------- MODULE QuestionAnsweringProofs -------------------------
(***************************************************************************)
(* What QuestionAnswering promises for any number of askers, viewers,      *)
(* queries and changes: a cached result is old only for the reasons        *)
(* StaleMeansLate names, and an answer's rows are those of its Cypher.     *)
(***************************************************************************)
EXTENDS QuestionAnswering, TLAPS

(* A query's slot holds rows of that query, or of one with the same key. *)
CacheFits ==
  \A s \in Keys : cache[s] # None => cache[s].of \in Queries /\ Key[cache[s].of] = s

(* What was read is as new as the data b, or a clearing is due or has come. *)
Fresh(v, late, b) == v < version[b] => owed[b] > 0 \/ late

CacheIsFresh ==
  \A s \in Slots : \A b \in Basis(s) :
    cache[s] # None => cache[s].read[b] # None /\ Fresh(cache[s].read[b], cache[s].late, b)

(* A viewer has read what it should have by now, and nothing else. *)
ViewFits(r) ==
  \A b \in Bases :
    r.read[b] # None <=> b \in Over[r.view] /\ (r.fetched \/ b = "profile")

ViewIsFresh(r) == \A b \in Bases : r.read[b] # None => Fresh(r.read[b], r.late, b)

ViewsAreFresh == \A w \in Viewers : look[w] # None => ViewFits(look[w]) /\ ViewIsFresh(look[w])

(* A question at each stage. *)
Fits(q) ==
  /\ q.graph \in {"probe", "run", "broaden", "store"} => q.query \in Queries
  /\ q.graph \in {"repair", "broaden"} => q.attempt < MaxAttempts - 1
  /\ q.graph \in {"broaden", "store"} => q.rows \in Rows /\ q.rows.of = q.query
  /\ q.graph = "done" /\ q.rows # None => q.query \in Queries /\ Key[q.rows.of] = Key[q.query]

QuestionsFit == \A k \in Askers : ask[k] # None => Fits(ask[k])

QuestionsAreFresh ==
  \A k \in Askers :
    ask[k] # None /\ ask[k].graph \in {"broaden", "store"}
      => Fresh(ask[k].rows.version, ask[k].late, "graph")

OwedIsBounded == \A b \in Bases : owed[b] <= version[b]

IInv ==
  /\ TypeOK /\ OwedIsBounded
  /\ CacheFits /\ QuestionsFit
  /\ CacheIsFresh /\ ViewsAreFresh /\ QuestionsAreFresh

USE QuestionAssumption

-----------------------------------------------------------------------------
LEMMA InitFits == Init => IInv
  BY DEF Init, IInv, TypeOK, OwedIsBounded, CacheFits, QuestionsFit, CacheIsFresh,
         ViewsAreFresh, QuestionsAreFresh, Bases, Slots, Keys

(* A step of one question that reads and changes nothing else. *)
LEMMA OwnStep ==
  ASSUME IInv, NEW k \in Askers, NEW q \in Question \cup {None},
         ask' = [ask EXCEPT ![k] = q],
         q # None => Fits(q),
         q # None /\ q.graph \in {"broaden", "store"}
           => Fresh(q.rows.version, q.late, "graph"),
         UNCHANGED <<questionFrame, cache>>
  PROVE  IInv'
  <1>1. TypeOK' /\ OwedIsBounded'
    BY DEF IInv, TypeOK, OwedIsBounded, questionFrame
  <1>2. CacheFits' /\ CacheIsFresh' /\ ViewsAreFresh'
    BY DEF IInv, CacheFits, CacheIsFresh, ViewsAreFresh, ViewIsFresh, Fresh, questionFrame
  <1>3. QuestionsFit' /\ QuestionsAreFresh'
    <2>1. SUFFICES ASSUME NEW j \in Askers, ask'[j] # None
                   PROVE  /\ Fits(ask'[j])
                          /\ ask'[j].graph \in {"broaden", "store"}
                               => Fresh(ask'[j].rows.version, ask'[j].late, "graph")
      BY DEF QuestionsFit, QuestionsAreFresh, Fits, Fresh, questionFrame
    <2>2. CASE j = k
      BY <2>1, <2>2 DEF IInv, TypeOK
    <2>3. CASE j # k
      BY <2>1, <2>3 DEF IInv, TypeOK, QuestionsFit, QuestionsAreFresh
    <2>4. QED BY <2>2, <2>3
  <1>4. QED BY <1>1, <1>2, <1>3 DEF IInv

LEMMA AskKeeps == ASSUME IInv, NEW k \in Askers, NEW route \in Routes, Ask(k, route) PROVE IInv'
  <1> DEFINE q == Asked(IF route = "vector" THEN "off" ELSE "generate",
                         IF route = "graph" THEN "off" ELSE "on")
  <1>1. q \in Question /\ Fits(q)
    BY DEF Question, Fits, Asked
  <1>2. ask' = [ask EXCEPT ![k] = q] /\ UNCHANGED <<version, owed, cache, look>>
    BY DEF Ask
  <1>3. asked' \in [Askers -> 0 .. Asks]
    BY DEF Ask, IInv, TypeOK
  <1> HIDE DEF q
  <1>4. TypeOK' /\ OwedIsBounded'
    BY <1>1, <1>2, <1>3 DEF IInv, TypeOK, OwedIsBounded
  <1>5. CacheFits' /\ CacheIsFresh' /\ ViewsAreFresh'
    BY <1>2 DEF IInv, CacheFits, CacheIsFresh, ViewsAreFresh, ViewIsFresh, Fresh
  <1>6. QuestionsFit' /\ QuestionsAreFresh'
    <2>1. q.graph \notin {"broaden", "store"}
      BY DEF q, Asked
    <2>2. QED BY <1>1, <1>2, <2>1 DEF IInv, TypeOK, QuestionsFit, QuestionsAreFresh, Fresh
  <1>7. QED BY <1>4, <1>5, <1>6 DEF IInv

(* The question of an asker that has one, before its step. *)
LEMMA Asking ==
  ASSUME IInv, NEW k \in Askers, Open(k)
  PROVE  /\ ask[k] \in Question /\ Fits(ask[k])
         /\ ask[k].graph \in {"broaden", "store"} => Fresh(ask[k].rows.version, ask[k].late, "graph")
  BY DEF Open, IInv, TypeOK, QuestionsFit, QuestionsAreFresh

LEMMA LoopedKeeps ==
  ASSUME NEW q \in Question
  PROVE  /\ Looped(q) \in Question /\ Looped(q).rows = q.rows /\ Looped(q).query = q.query
         /\ Looped(q).late = q.late
  <1>1. 0 \in 0 .. MaxAttempts - 1 OBVIOUS
  <1>2. QED BY <1>1 DEF Looped, Question

LEMMA GenerateKeeps == ASSUME IInv, NEW k \in Askers, Generate(k) PROVE IInv'
  <1>1. ask[k] \in Question /\ UNCHANGED <<questionFrame, cache>>
    BY Asking DEF Generate, GraphAt
  <1>2. CASE Unsafe(k)
    <2> DEFINE q == [Looped(ask[k]) EXCEPT !.graph = "done", !.query = None, !.rows = None]
    <2>1. ask' = [ask EXCEPT ![k] = q] BY <1>1, <1>2 DEF Unsafe, IInv, TypeOK
    <2>2. q \in Question /\ Fits(q) /\ q.graph = "done" BY <1>1, LoopedKeeps DEF Question, Fits
    <2> QED BY <1>1, <2>1, <2>2, OwnStep
  <1>3. ASSUME NEW c \in Queries, ask' = [ask EXCEPT ![k].graph = "probe", ![k].query = c]
        PROVE  IInv'
    <2> DEFINE q == [ask[k] EXCEPT !.graph = "probe", !.query = c]
    <2>1. ask' = [ask EXCEPT ![k] = q] BY <1>3
    <2>2. q \in Question /\ Fits(q) /\ q.graph = "probe" BY <1>1 DEF Question, Fits
    <2> QED BY <1>1, <2>1, <2>2, OwnStep
  <1>4. QED BY <1>2, <1>3 DEF Generate

LEMMA ProbeKeeps == ASSUME IInv, NEW k \in Askers, Probe(k) PROVE IInv'
  <1> DEFINE hit == cache[Key[ask[k].query]]
  <1>1. ask[k] \in Question /\ Fits(ask[k]) /\ ask[k].query \in Queries
        /\ UNCHANGED <<questionFrame, cache>>
    BY Asking DEF Probe, GraphAt, Fits
  <1>2. Key[ask[k].query] \in Keys /\ hit \in Entry \cup {None}
    BY <1>1 DEF IInv, TypeOK, Keys, Slots
  <1>3. CASE hit = None
    <2> DEFINE q == [ask[k] EXCEPT !.graph = "run"]
    <2>1. ask' = [ask EXCEPT ![k] = q] BY <1>3 DEF Probe, To
    <2>2. q \in Question /\ Fits(q) /\ q.graph = "run" BY <1>1 DEF Question, Fits
    <2> QED BY <1>1, <2>1, <2>2, OwnStep
  <1>4. CASE hit # None
    <2> DEFINE r == [of |-> hit.of, version |-> hit.read["graph"]]
               q == [ask[k] EXCEPT !.graph = "done", !.rows = r]
    <2>1. ask' = [ask EXCEPT ![k] = q] BY <1>4 DEF Probe
    <2>2. r \in Rows /\ Key[r.of] = Key[ask[k].query]
      <3>1. hit.of \in Queries /\ Key[hit.of] = Key[ask[k].query]
        BY <1>2, <1>4 DEF IInv, CacheFits
      <3>2. hit.read["graph"] \in 0 .. Changes
        BY <1>2, <1>4 DEF IInv, CacheIsFresh, Basis, Slots, Entry, Read, Bases
      <3>3. QED BY <3>1, <3>2 DEF Rows
    <2>3. q \in Question /\ Fits(q) /\ q.graph = "done"
      <3> HIDE DEF r
      <3> QED BY <1>1, <2>2 DEF Question, Fits
    <2> QED BY <1>1, <2>1, <2>3, OwnStep
  <1>5. QED BY <1>3, <1>4

LEMMA RunKeeps == ASSUME IInv, NEW k \in Askers, Run(k) PROVE IInv'
  <1> DEFINE r == [of |-> ask[k].query, version |-> version["graph"]]
             p == [ask[k] EXCEPT !.rows = r, !.late = FALSE]
             again == ~Found(r) /\ ~ask[k].broadened /\ ~LastAttempt(k)
  <1>1. ask[k] \in Question /\ ask[k].query \in Queries /\ UNCHANGED <<questionFrame, cache>>
    BY Asking DEF Run, GraphAt, Fits
  <1>2. r \in Rows /\ r.of = ask[k].query /\ Fresh(r.version, FALSE, "graph")
    BY <1>1 DEF IInv, TypeOK, Rows, Fresh, Bases
  <1>3. p \in Question /\ p.rows = r /\ p.query = ask[k].query /\ p.late = FALSE
        /\ p.attempt = ask[k].attempt
    <2> HIDE DEF r
    <2> QED BY <1>1, <1>2 DEF Question
  <1>4. ask' = [ask EXCEPT ![k] = IF again THEN [p EXCEPT !.graph = "broaden", !.broadened = TRUE]
                                           ELSE [Looped(p) EXCEPT !.graph = "store"]]
    BY DEF Run
  <1> HIDE DEF r, p
  <1>5. CASE again
    <2> DEFINE q == [p EXCEPT !.graph = "broaden", !.broadened = TRUE]
    <2>1. ask' = [ask EXCEPT ![k] = q] BY <1>4, <1>5
    <2>2. q \in Question /\ q.rows = r /\ q.query = ask[k].query /\ q.late = FALSE
          /\ q.attempt = ask[k].attempt /\ q.graph = "broaden"
      BY <1>3 DEF Question
    <2>3. ask[k].attempt < MaxAttempts - 1 BY <1>1, <1>5 DEF LastAttempt, Question
    <2> HIDE DEF q
    <2>4. Fits(q) /\ Fresh(q.rows.version, q.late, "graph") BY <1>1, <1>2, <2>2, <2>3 DEF Fits
    <2>5. QED BY <1>1, <2>1, <2>2, <2>4, OwnStep
  <1>6. CASE ~again
    <2> DEFINE q == [Looped(p) EXCEPT !.graph = "store"]
    <2>1. ask' = [ask EXCEPT ![k] = q] BY <1>4, <1>6
    <2>2. q \in Question /\ q.rows = r /\ q.query = ask[k].query /\ q.late = FALSE
          /\ q.graph = "store"
      BY <1>3, LoopedKeeps DEF Question
    <2> HIDE DEF q
    <2>3. Fits(q) /\ Fresh(q.rows.version, q.late, "graph") BY <1>1, <1>2, <2>2 DEF Fits
    <2>4. QED BY <1>1, <2>1, <2>2, <2>3, OwnStep
  <1>7. QED BY <1>5, <1>6

(* The asker has its answer, or an error. *)
LEMMA CloseKeeps ==
  ASSUME IInv, NEW k \in Askers, Close(k), UNCHANGED <<questionFrame, cache>>
  PROVE  IInv'
  BY OwnStep DEF Close

LEMMA RunRaisesKeeps == ASSUME IInv, NEW k \in Askers, RunRaises(k) PROVE IInv'
  <1>1. ask[k] \in Question /\ UNCHANGED <<questionFrame, cache>>
    BY Asking DEF RunRaises, GraphAt
  <1>2. CASE LastAttempt(k)
    BY <1>1, <1>2, CloseKeeps DEF RunRaises
  <1>3. CASE ~LastAttempt(k)
    <2> DEFINE q == [ask[k] EXCEPT !.graph = "repair"]
    <2>1. ask' = [ask EXCEPT ![k] = q] BY <1>3 DEF RunRaises, To
    <2>2. q \in Question /\ Fits(q) /\ q.graph = "repair"
      BY <1>1, <1>3 DEF Question, Fits, LastAttempt
    <2> QED BY <1>1, <2>1, <2>2, OwnStep
  <1>4. QED BY <1>2, <1>3

LEMMA RetryKeeps ==
  ASSUME IInv, NEW k \in Askers, NEW c \in Queries, Open(k),
         ask[k].graph \in {"repair", "broaden"}, Retry(k, c), UNCHANGED <<questionFrame, cache>>
  PROVE  IInv'
  <1> DEFINE q == [ask[k] EXCEPT !.graph = "run", !.query = c, !.attempt = ask[k].attempt + 1]
  <1>1. ask[k] \in Question /\ ask[k].attempt < MaxAttempts - 1
    BY Asking DEF Fits
  <1>2. ask' = [ask EXCEPT ![k] = q]
    BY DEF Retry
  <1>3. ask[k].attempt + 1 \in 0 .. MaxAttempts - 1
    BY <1>1 DEF Question
  <1>4. q \in Question /\ q.graph = "run" /\ q.query = c
    BY <1>1, <1>3 DEF Question
  <1>5. Fits(q)
    BY <1>4 DEF Fits
  <1> HIDE DEF q
  <1>6. QED BY <1>2, <1>4, <1>5, OwnStep

LEMMA RepairKeeps == ASSUME IInv, NEW k \in Askers, Repair(k) PROVE IInv'
  <1>1. ask[k] \in Question /\ Open(k) /\ ask[k].graph = "repair"
        /\ UNCHANGED <<questionFrame, cache>>
    BY Asking DEF Repair, GraphAt
  <1>2. CASE Unsafe(k)
    <2> DEFINE q == [Looped(ask[k]) EXCEPT !.graph = "done", !.query = None, !.rows = None]
    <2>1. ask' = [ask EXCEPT ![k] = q] BY <1>1, <1>2 DEF Unsafe, IInv, TypeOK
    <2>2. q \in Question /\ Fits(q) /\ q.graph = "done" BY <1>1, LoopedKeeps DEF Question, Fits
    <2> QED BY <1>1, <2>1, <2>2, OwnStep
  <1>3. CASE \E c \in Queries : Retry(k, c)
    BY <1>1, <1>3, RetryKeeps
  <1>4. QED BY <1>2, <1>3 DEF Repair

LEMMA BroadenKeeps == ASSUME IInv, NEW k \in Askers, Broaden(k) PROVE IInv'
  <1>1. ask[k] \in Question /\ Fits(ask[k]) /\ Open(k) /\ ask[k].graph = "broaden"
        /\ Fresh(ask[k].rows.version, ask[k].late, "graph") /\ UNCHANGED <<questionFrame, cache>>
    BY Asking DEF Broaden, GraphAt
  <1>2. CASE ask' = [ask EXCEPT ![k] = [Looped(@) EXCEPT !.graph = "store"]]
    <2> DEFINE q == [Looped(ask[k]) EXCEPT !.graph = "store"]
    <2>1. ask' = [ask EXCEPT ![k] = q] BY <1>1, <1>2 DEF IInv, TypeOK
    <2>2. q \in Question /\ q.rows = ask[k].rows /\ q.late = ask[k].late /\ q.graph = "store"
          /\ q.query = ask[k].query
      BY <1>1, LoopedKeeps DEF Question
    <2>3. Fits(q)
      BY <1>1, <2>2 DEF Fits
    <2> HIDE DEF q
    <2> QED BY <1>1, <2>1, <2>2, <2>3, OwnStep
  <1>3. CASE \E c \in Queries \ {ask[k].query} : Retry(k, c)
    BY <1>1, <1>3, RetryKeeps
  <1>4. QED BY <1>2, <1>3 DEF Broaden

LEMMA SearchKeeps == ASSUME IInv, NEW k \in Askers, Search(k) PROVE IInv'
  <1>1. ask[k] \in Question /\ Fits(ask[k]) /\ UNCHANGED <<questionFrame, cache>>
        /\ (ask[k].graph \in {"broaden", "store"} => Fresh(ask[k].rows.version, ask[k].late, "graph"))
    BY Asking DEF Search
  <1>2. PICK found \in BOOLEAN :
          ask' = [ask EXCEPT ![k].vector = "done", ![k].chunks = found]
    BY DEF Search
  <1> DEFINE q == [ask[k] EXCEPT !.vector = "done", !.chunks = found]
  <1>3. ask' = [ask EXCEPT ![k] = q] BY <1>2
  <1>4. q \in Question /\ q.graph = ask[k].graph /\ q.rows = ask[k].rows /\ q.query = ask[k].query
        /\ q.attempt = ask[k].attempt /\ q.late = ask[k].late
    BY <1>1 DEF Question
  <1>5. Fits(q) BY <1>1, <1>4 DEF Fits
  <1> HIDE DEF q
  <1>6. QED BY <1>1, <1>3, <1>4, <1>5, OwnStep

LEMMA FallBackKeeps == ASSUME IInv, NEW k \in Askers, FallBack(k) PROVE IInv'
  <1>1. ask[k] \in Question /\ Fits(ask[k]) /\ ask[k].graph \in {"off", "done"}
        /\ UNCHANGED <<questionFrame, cache>>
    BY Asking DEF FallBack, Settled
  <1>2. CASE ask' = [ask EXCEPT ![k].vector = "on"]
    <2> DEFINE q == [ask[k] EXCEPT !.vector = "on"]
    <2>1. ask' = [ask EXCEPT ![k] = q] BY <1>2
    <2>2. q \in Question /\ q.graph = ask[k].graph /\ q.rows = ask[k].rows /\ q.query = ask[k].query
      BY <1>1 DEF Question
    <2>3. Fits(q) BY <1>1, <2>2 DEF Fits
    <2> HIDE DEF q
    <2> QED BY <1>1, <2>1, <2>2, <2>3, OwnStep
  <1>3. CASE To(k, "generate")
    <2> DEFINE q == [ask[k] EXCEPT !.graph = "generate"]
    <2>1. ask' = [ask EXCEPT ![k] = q] BY <1>3 DEF To
    <2>2. q \in Question /\ Fits(q) /\ q.graph = "generate" BY <1>1 DEF Question, Fits
    <2> QED BY <1>1, <2>1, <2>2, OwnStep
  <1>4. QED BY <1>2, <1>3 DEF FallBack

(* A fresh entry that fits its slot is written. *)
LEMMA EntryWritten ==
  ASSUME IInv, NEW s \in Slots, NEW e \in Entry, cache' = [cache EXCEPT ![s] = e],
         s \in Keys => e.of \in Queries /\ Key[e.of] = s,
         \A b \in Basis(s) : e.read[b] # None /\ Fresh(e.read[b], e.late, b),
         UNCHANGED <<version, owed>>
  PROVE  cache' \in [Slots -> Entry \cup {None}] /\ CacheFits' /\ CacheIsFresh'
  <1>1. \A t \in Slots : cache'[t] = IF t = s THEN e ELSE cache[t]
    BY DEF IInv, TypeOK
  <1>2. cache' \in [Slots -> Entry \cup {None}]
    BY DEF IInv, TypeOK
  <1>3. CacheFits'
    BY <1>1 DEF IInv, CacheFits, Slots
  <1>4. CacheIsFresh'
    BY <1>1 DEF IInv, CacheIsFresh, Fresh
  <1>5. QED BY <1>2, <1>3, <1>4

LEMMA StoreKeeps == ASSUME IInv, NEW k \in Askers, Store(k) PROVE IInv'
  <1> DEFINE e == Result(ask[k])
             s == Key[ask[k].query]
             q == [ask[k] EXCEPT !.graph = "done", !.late = FALSE]
  <1>1. ask[k] \in Question /\ ask[k].query \in Queries /\ ask[k].rows \in Rows
        /\ ask[k].rows.of = ask[k].query /\ Fresh(ask[k].rows.version, ask[k].late, "graph")
        /\ UNCHANGED questionFrame
    BY Asking DEF Store, GraphAt, Fits
  <1>2. ask' = [ask EXCEPT ![k] = q] /\ cache' = [cache EXCEPT ![s] = e]
    BY DEF Store
  <1>3. e \in Entry /\ e.of = ask[k].query
        /\ e.read["graph"] # None /\ Fresh(e.read["graph"], e.late, "graph")
    <2>1. ask[k].rows.version \in 0 .. Changes BY <1>1 DEF Rows
    <2>2. e.read \in Read /\ e.read["graph"] = ask[k].rows.version
      BY <2>1 DEF Result, Read, Bases
    <2>3. e.of = ask[k].query /\ e.late = ask[k].late /\ ask[k].late \in BOOLEAN
      BY <1>1 DEF Result, Question
    <2>4. ask[k].rows.version # None BY <2>1
    <2>5. e \in Entry BY <1>1, <2>2, <2>3 DEF Entry, Result
    <2>6. QED BY <1>1, <2>2, <2>3, <2>4, <2>5
  <1>4. s \in Keys /\ s \in Slots /\ Basis(s) = {"graph"}
    BY <1>1 DEF Keys, Slots, Basis
  <1>5. q \in Question /\ q.graph = "done" /\ q.rows = ask[k].rows /\ q.query = ask[k].query
    BY <1>1 DEF Question
  <1>6. Fits(q)
    BY <1>1, <1>5 DEF Fits
  <1> HIDE DEF e, q
  <1>7. cache' \in [Slots -> Entry \cup {None}] /\ CacheFits' /\ CacheIsFresh'
    <2>1. Key[e.of] = s BY <1>3
    <2> HIDE DEF s
    <2>2. \A b \in Basis(s) : e.read[b] # None /\ Fresh(e.read[b], e.late, b)
      BY <1>3, <1>4
    <2>3. QED BY <1>1, <1>2, <1>3, <1>4, <2>1, <2>2, EntryWritten DEF questionFrame
  <1> HIDE DEF s
  <1>8. TypeOK' /\ OwedIsBounded' /\ ViewsAreFresh'
    BY <1>1, <1>2, <1>5, <1>7 DEF IInv, TypeOK, OwedIsBounded, ViewsAreFresh, ViewIsFresh, Fresh, questionFrame
  <1>9. QuestionsFit' /\ QuestionsAreFresh'
    BY <1>1, <1>2, <1>5, <1>6 DEF IInv, TypeOK, QuestionsFit, QuestionsAreFresh, Fresh, questionFrame
  <1>10. QED BY <1>7, <1>8, <1>9 DEF IInv

LEMMA HangKeeps == ASSUME IInv, NEW k \in Askers, Hang(k) PROVE IInv'
  <1> DEFINE q == Asked("hung", "off")
  <1>1. q \in Question /\ Fits(q) /\ q.graph = "hung"
    BY DEF Question, Fits, Asked
  <1>2. ask' = [ask EXCEPT ![k] = q] /\ UNCHANGED <<questionFrame, cache>>
    BY DEF Hang
  <1> HIDE DEF q
  <1>3. QED BY <1>1, <1>2, OwnStep

LEMMA QuestionStepKeeps == ASSUME IInv, NEW k \in Askers, QuestionStep(k) PROVE IInv'
  <1>1. ASSUME GraphStep(k) PROVE IInv'
    BY <1>1, GenerateKeeps, ProbeKeeps, RunKeeps, RunRaisesKeeps, RepairKeeps, BroadenKeeps,
       StoreKeeps DEF GraphStep
  <1>2. ASSUME Answer(k) \/ Fail(k) PROVE IInv'
    BY <1>2, CloseKeeps DEF Answer, Fail
  <1>3. QED BY <1>1, <1>2, SearchKeeps, FallBackKeeps DEF QuestionStep

-----------------------------------------------------------------------------
(* A viewer's step that writes no entry. *)
LEMMA ViewStep ==
  ASSUME IInv, NEW w \in Viewers, NEW r \in Reading \cup {None}, look' = [look EXCEPT ![w] = r],
         r # None => ViewFits(r) /\ ViewIsFresh(r),
         UNCHANGED <<version, owed, cache, ask, asked>>
  PROVE  IInv'
  <1>1. TypeOK' /\ OwedIsBounded' /\ CacheFits' /\ CacheIsFresh'
    BY DEF IInv, TypeOK, OwedIsBounded, CacheFits, CacheIsFresh, Fresh
  <1>2. QuestionsFit' /\ QuestionsAreFresh'
    BY DEF IInv, QuestionsFit, QuestionsAreFresh, Fresh
  <1>3. ViewsAreFresh'
    BY DEF IInv, TypeOK, ViewsAreFresh, ViewIsFresh, Fresh
  <1>4. QED BY <1>1, <1>2, <1>3 DEF IInv

(* What is read now is fresh. *)
LEMMA ReadNow ==
  ASSUME IInv, NEW b \in Bases, NEW late \in BOOLEAN
  PROVE  version[b] \in 0 .. Changes /\ version[b] # None /\ Fresh(version[b], late, b)
  BY DEF IInv, TypeOK, Fresh

LEMMA LookKeeps == ASSUME IInv, NEW w \in Viewers, NEW s \in Views, Look(w, s) PROVE IInv'
  <1> DEFINE B == Over[s] \cap {"profile"}
             r == [view |-> s, read |-> ReadOf(B), fetched |-> FALSE, late |-> FALSE]
  <1>1. \A b \in Bases : ReadOf(B)[b] = IF b \in B THEN version[b] ELSE None
    BY DEF ReadOf
  <1>2. ReadOf(B) \in Read
    BY ReadNow DEF ReadOf, Read
  <1>3. r \in Reading BY <1>2 DEF Reading
  <1>4. ViewFits(r) BY <1>1, ReadNow DEF ViewFits
  <1>5. ViewIsFresh(r)
    <2>1. ASSUME NEW b \in Bases, ReadOf(B)[b] # None PROVE Fresh(ReadOf(B)[b], FALSE, b)
      BY <1>1, <2>1, ReadNow
    <2>2. QED BY <2>1 DEF ViewIsFresh
  <1>6. look' = [look EXCEPT ![w] = r] /\ UNCHANGED <<version, owed, cache, ask, asked>>
    BY DEF Look
  <1> HIDE DEF r
  <1>7. QED BY <1>3, <1>4, <1>5, <1>6, ViewStep

LEMMA FetchKeeps == ASSUME IInv, NEW w \in Viewers, Fetch(w) PROVE IInv'
  <1> DEFINE o == look[w]
             f == [b \in Bases |-> IF b \in Over[o.view] \ {"profile"} THEN version[b] ELSE o.read[b]]
             r == [o EXCEPT !.fetched = TRUE, !.read = f]
  <1>1. o \in Reading /\ ~o.fetched /\ look' = [look EXCEPT ![w] = r]
        /\ UNCHANGED <<version, owed, cache, ask, asked>>
    BY DEF Fetch, IInv, TypeOK
  <1>2. ViewFits(o) /\ ViewIsFresh(o)
    BY <1>1 DEF Fetch, IInv, ViewsAreFresh
  <1>3. \A b \in Bases : f[b] = IF b \in Over[o.view] \ {"profile"} THEN version[b] ELSE o.read[b]
    OBVIOUS
  <1>4. f \in Read
    BY <1>1, ReadNow DEF Reading, Read
  <1> HIDE DEF f, o
  <1>5. r \in Reading /\ r.view = o.view /\ r.read = f /\ r.late = o.late /\ r.fetched = TRUE
    BY <1>1, <1>4 DEF Reading
  <1> HIDE DEF r
  <1>6. ViewFits(r)
    <2>1. SUFFICES ASSUME NEW b \in Bases PROVE f[b] # None <=> b \in Over[o.view]
      BY <1>5 DEF ViewFits
    <2>2. o.read[b] # None <=> b \in Over[o.view] /\ b = "profile"
      BY <1>1, <1>2 DEF ViewFits
    <2>3. QED BY <1>3, <2>2, ReadNow
  <1>7. ViewIsFresh(r)
    <2>1. SUFFICES ASSUME NEW b \in Bases, f[b] # None PROVE Fresh(f[b], o.late, b)
      BY <1>5 DEF ViewIsFresh
    <2>2. o.late \in BOOLEAN BY <1>1 DEF Reading
    <2>3. CASE b \in Over[o.view] \ {"profile"}
      BY <1>3, <2>2, <2>3, ReadNow
    <2>4. CASE b \notin Over[o.view] \ {"profile"}
      BY <1>2, <1>3, <2>1, <2>4 DEF ViewIsFresh
    <2>5. QED BY <2>3, <2>4
  <1>8. QED BY <1>1, <1>5, <1>6, <1>7, ViewStep

LEMMA LookFailsKeeps == ASSUME IInv, NEW w \in Viewers, LookFails(w) PROVE IInv'
  BY ViewStep DEF LookFails

LEMMA KeepKeeps == ASSUME IInv, NEW w \in Viewers, Keep(w) PROVE IInv'
  <1> DEFINE s == look[w].view
             e == [of |-> s, read |-> look[w].read, late |-> look[w].late]
  <1>1. look[w] \in Reading /\ look[w].fetched /\ ViewFits(look[w]) /\ ViewIsFresh(look[w])
    BY DEF Keep, IInv, TypeOK, ViewsAreFresh
  <1>2. s \in Slots /\ s \notin Keys /\ Basis(s) = Over[s] /\ Over[s] \subseteq Bases
    BY <1>1 DEF Reading, Slots, Basis
  <1>3. e \in Entry
    BY <1>1 DEF Entry, Reading
  <1>4. \A b \in Basis(s) : e.read[b] # None /\ Fresh(e.read[b], e.late, b)
    BY <1>1, <1>2 DEF ViewFits, ViewIsFresh
  <1>5. cache' = [cache EXCEPT ![s] = e] /\ look' = [look EXCEPT ![w] = None]
        /\ UNCHANGED <<version, owed, ask, asked>>
    BY DEF Keep
  <1> HIDE DEF e, s
  <1>6. cache' \in [Slots -> Entry \cup {None}] /\ CacheFits' /\ CacheIsFresh'
    BY <1>2, <1>3, <1>4, <1>5, EntryWritten
  <1>7. TypeOK' /\ OwedIsBounded' /\ ViewsAreFresh'
    BY <1>5, <1>6 DEF IInv, TypeOK, OwedIsBounded, ViewsAreFresh, ViewIsFresh, Fresh
  <1>8. QuestionsFit' /\ QuestionsAreFresh'
    BY <1>5 DEF IInv, QuestionsFit, QuestionsAreFresh, Fresh
  <1>9. QED BY <1>6, <1>7, <1>8 DEF IInv

-----------------------------------------------------------------------------
(* A change of b leaves a clearing due, for what was read before it too. *)
LEMMA ChangeKeeps == ASSUME IInv, NEW b \in Bases, Change(b) PROVE IInv'
  <1>1. /\ version' \in [Bases -> 0 .. Changes] /\ owed' \in [Bases -> 0 .. Changes]
        /\ OwedIsBounded' /\ owed'[b] > 0
        /\ \A c \in Bases : c # b => version'[c] = version[c] /\ owed'[c] = owed[c]
        /\ UNCHANGED <<cache, ask, asked, look>>
    <2>1. version[b] \in 0 .. Changes /\ owed[b] \in 0 .. Changes /\ owed[b] <= version[b]
      BY DEF IInv, TypeOK, OwedIsBounded
    <2>2. CASE owed' = [owed EXCEPT ![b] = @ + 1]
      BY <2>1, <2>2 DEF Change, IInv, TypeOK, OwedIsBounded
    <2>3. CASE owed[b] > 0 /\ UNCHANGED owed
      BY <2>1, <2>3 DEF Change, IInv, TypeOK, OwedIsBounded
    <2>4. QED BY <2>2, <2>3 DEF Change
  <1>2. ASSUME NEW v, NEW late, NEW c \in Bases, Fresh(v, late, c)
        PROVE  v < version'[c] => owed'[c] > 0 \/ late
    BY <1>1, <1>2 DEF Fresh
  <1>3. TypeOK' /\ CacheFits' /\ QuestionsFit'
    BY <1>1 DEF IInv, TypeOK, CacheFits, QuestionsFit
  <1>4. \A s \in Slots : Basis(s) \subseteq Bases
    BY DEF Basis, Slots, Bases
  <1>5. CacheIsFresh'
    BY <1>1, <1>2, <1>4 DEF IInv, CacheIsFresh, Fresh
  <1>6. ViewsAreFresh'
    BY <1>1, <1>2 DEF IInv, ViewsAreFresh, ViewIsFresh, Fresh
  <1>7. QuestionsAreFresh'
    BY <1>1, <1>2 DEF IInv, QuestionsAreFresh, Fresh, Bases
  <1>8. QED BY <1>1, <1>3, <1>5, <1>6, <1>7 DEF IInv

(* A clearing empties b's slots and marks what was read of b as late; one of *)
(* the sources does so for the profile too.                                  *)
LEMMA ClearKeeps == ASSUME IInv, NEW b \in Bases, Clear(b) PROVE IInv'
  <1> DEFINE Paid == IF b = "sources" THEN {b, "profile"} ELSE {b}
  <1>1. /\ owed' \in [Bases -> 0 .. Changes] /\ OwedIsBounded' /\ UNCHANGED <<version, asked>>
        /\ \A c \in Bases : c \notin Paid => version'[c] = version[c] /\ owed'[c] = owed[c]
    <2>1. \A c \in Bases : version[c] \in 0 .. Changes /\ owed[c] \in 0 .. Changes /\ owed[c] <= version[c]
      BY DEF IInv, TypeOK, OwedIsBounded
    <2>2. /\ b # "profile" /\ owed[b] > 0 /\ UNCHANGED <<version, asked>>
          /\ owed' = [owed EXCEPT ![b] = @ - 1, !["profile"] = IF b = "sources" THEN 0 ELSE @]
      BY DEF Clear
    <2>3. \A c \in Bases : owed'[c] = IF c = b THEN owed[b] - 1
                                     ELSE IF c \in Paid THEN 0 ELSE owed[c]
      BY <2>2 DEF IInv, TypeOK, Bases
    <2>4. owed' = [c \in Bases |-> owed'[c]]
      BY <2>2 DEF IInv, TypeOK
    <2>5. \A c \in Bases : owed'[c] \in 0 .. Changes /\ owed'[c] <= version[c]
      <3>1. SUFFICES ASSUME NEW c \in Bases
                     PROVE  owed'[c] \in 0 .. Changes /\ owed'[c] <= version[c]
        OBVIOUS
      <3>2. CASE c = b
        <4>1. owed'[c] = owed[b] - 1 /\ owed[b] > 0 BY <2>2, <2>3, <3>2
        <4>2. version[b] \in 0 .. Changes /\ owed[b] \in 0 .. Changes /\ owed[b] <= version[b] BY <2>1
        <4>3. QED BY <3>2, <4>1, <4>2
      <3>3. CASE c # b /\ c \in Paid
        <4>1. owed'[c] = 0 BY <2>3, <3>3
        <4>2. QED BY <2>1, <4>1
      <3>4. CASE c # b /\ c \notin Paid
        <4>1. owed'[c] = owed[c] BY <2>3, <3>4
        <4>2. QED BY <2>1, <4>1
      <3>5. QED BY <3>2, <3>3, <3>4
    <2>6. QED BY <2>2, <2>3, <2>4, <2>5 DEF OwedIsBounded
  <1>2. ASSUME NEW v, NEW late, NEW c \in Bases, Fresh(v, late, c), c \notin Paid
        PROVE  v < version'[c] => owed'[c] > 0 \/ late
    BY <1>1, <1>2 DEF Fresh
  <1>3. \A v \in Views : \A c \in Bases : c \in Over[v] /\ c \in Paid => b \in Over[v]
    OBVIOUS
  <1>4. \A s \in Slots : cache'[s] = IF s \in Cleared(b) THEN None ELSE cache[s]
    BY DEF Clear
  <1>5. cache' \in [Slots -> Entry \cup {None}] /\ CacheFits'
    BY <1>4 DEF Clear, IInv, TypeOK, CacheFits, Slots
  <1>6. CacheIsFresh'
    <2>1. SUFFICES ASSUME NEW s \in Slots, NEW c \in Basis(s), cache'[s] # None
                   PROVE  /\ cache'[s].read[c] # None
                          /\ cache'[s].read[c] < version'[c] => owed'[c] > 0 \/ cache'[s].late
      BY DEF CacheIsFresh, Fresh
    <2>2. cache'[s] = cache[s] /\ b \notin Basis(s)
      BY <1>4, <2>1 DEF Cleared
    <2>3. c \in Bases /\ c \notin Paid
      BY <1>3, <2>2 DEF Basis, Slots, Bases
    <2>4. cache[s].read[c] # None /\ Fresh(cache[s].read[c], cache[s].late, c)
      BY <2>1, <2>2 DEF IInv, CacheIsFresh
    <2> HIDE DEF Paid
    <2>5. QED BY <1>2, <2>2, <2>3, <2>4
  <1>7. /\ ask' \in [Askers -> Question \cup {None}] /\ QuestionsFit' /\ QuestionsAreFresh'
    <2>1. ASSUME NEW k \in Askers
          PROVE  /\ ask'[k] \in Question \cup {None}
                 /\ ask'[k] # None => Fits(ask'[k])
                 /\ ask'[k] # None /\ ask'[k].graph \in {"broaden", "store"}
                      => (ask'[k].rows.version < version'["graph"] => owed'["graph"] > 0 \/ ask'[k].late)
      <3>1. CASE b = "graph" /\ Open(k) /\ ask[k].graph \in {"broaden", "store"}
        <4> DEFINE q == [ask[k] EXCEPT !.late = TRUE]
        <4>1. ask[k] \in Question /\ Fits(ask[k])
          BY <3>1, Asking
        <4>2. q \in Question /\ q.late = TRUE /\ q.graph = ask[k].graph /\ q.query = ask[k].query
              /\ q.rows = ask[k].rows /\ q.attempt = ask[k].attempt
          BY <4>1 DEF Question
        <4>3. ask'[k] = q BY <3>1 DEF Clear, Late
        <4> HIDE DEF q
        <4>4. Fits(q) BY <4>1, <4>2 DEF Fits
        <4>5. QED BY <4>2, <4>3, <4>4
      <3>2. CASE ~(b = "graph" /\ Open(k) /\ ask[k].graph \in {"broaden", "store"})
        <4>1. ask'[k] = ask[k] BY <3>2 DEF Clear
        <4>2. ask[k] \in Question \cup {None} /\ (ask[k] # None => Fits(ask[k]))
          BY DEF IInv, TypeOK, QuestionsFit
        <4>3. ASSUME ask[k] # None, ask[k].graph \in {"broaden", "store"}
              PROVE  ask[k].rows.version < version'["graph"] => owed'["graph"] > 0 \/ ask[k].late
          <5>1. "graph" \in Bases /\ "graph" \notin Paid BY <3>2, <4>3 DEF Open, Bases
          <5>2. Fresh(ask[k].rows.version, ask[k].late, "graph")
            BY <4>3 DEF IInv, QuestionsAreFresh
          <5> HIDE DEF Paid
          <5>3. QED BY <1>2, <5>1, <5>2
        <4>4. QED BY <4>1, <4>2, <4>3
      <3>3. QED BY <3>1, <3>2
    <2>2. ask' = [k \in Askers |-> ask'[k]]
      BY DEF Clear
    <2>3. ask' \in [Askers -> Question \cup {None}]
      BY <2>1, <2>2
    <2>4. QED BY <2>1, <2>3 DEF QuestionsFit, QuestionsAreFresh, Fresh
  <1>8. look' \in [Viewers -> Reading \cup {None}] /\ ViewsAreFresh'
    <2>1. ASSUME NEW w \in Viewers, look[w] # None
          PROVE  /\ look'[w] \in Reading /\ ViewFits(look'[w])
                 /\ \A c \in Bases : look'[w].read[c] # None
                      => (look'[w].read[c] < version'[c] => owed'[c] > 0 \/ look'[w].late)
      <3>1. look[w] \in Reading /\ ViewFits(look[w]) /\ ViewIsFresh(look[w])
        BY <2>1 DEF IInv, TypeOK, ViewsAreFresh
      <3>2. CASE b \in Over[look[w].view] /\ HasRead(look[w])
        <4> DEFINE r == [look[w] EXCEPT !.late = TRUE]
        <4>1. look'[w] = r BY <2>1, <3>2 DEF Clear, Late
        <4>2. r \in Reading /\ r.late = TRUE /\ r.view = look[w].view /\ r.read = look[w].read
              /\ r.fetched = look[w].fetched
          BY <3>1 DEF Reading
        <4> HIDE DEF r
        <4>3. ViewFits(r) BY <3>1, <4>2 DEF ViewFits
        <4>4. QED BY <4>1, <4>2, <4>3
      <3>3. CASE ~(b \in Over[look[w].view] /\ HasRead(look[w]))
        <4>1. look'[w] = look[w] BY <3>3 DEF Clear
        <4>2. ASSUME NEW c \in Bases, look[w].read[c] # None
              PROVE  look[w].read[c] < version'[c] => owed'[c] > 0 \/ look[w].late
          <5>1. HasRead(look[w]) BY <4>2 DEF HasRead
          <5>2. look[w].view \in Views /\ c \in Over[look[w].view]
            BY <3>1, <4>2 DEF Reading, ViewFits
          <5>3. c \notin Paid BY <1>3, <3>3, <5>1, <5>2
          <5>4. Fresh(look[w].read[c], look[w].late, c)
            BY <3>1, <4>2 DEF ViewIsFresh
          <5> HIDE DEF Paid
          <5>5. QED BY <1>2, <5>3, <5>4
        <4>3. QED BY <3>1, <4>1, <4>2
      <3>4. QED BY <3>2, <3>3
    <2>2. \A w \in Viewers : look[w] = None => look'[w] = None
      BY DEF Clear
    <2>3. look' \in [Viewers -> Reading \cup {None}]
      <3>1. look' = [w \in Viewers |-> look'[w]] BY DEF Clear
      <3>2. \A w \in Viewers : look'[w] \in Reading \cup {None} BY <2>1, <2>2
      <3>3. QED BY <3>1, <3>2
    <2>4. QED BY <2>1, <2>2, <2>3 DEF ViewsAreFresh, ViewFits, ViewIsFresh, Fresh
  <1>9. QED BY <1>1, <1>5, <1>6, <1>7, <1>8 DEF IInv, TypeOK

LEMMA ExpireKeeps == ASSUME IInv, NEW s \in Slots, Expire(s) PROVE IInv'
  <1>1. \A t \in Slots : cache'[t] = None \/ cache'[t] = cache[t]
    BY DEF Expire, IInv, TypeOK
  <1>2. TypeOK' /\ OwedIsBounded' /\ CacheFits'
    BY <1>1 DEF Expire, IInv, TypeOK, OwedIsBounded, CacheFits, Slots
  <1>3. CacheIsFresh' /\ ViewsAreFresh' /\ QuestionsFit' /\ QuestionsAreFresh'
    BY <1>1 DEF Expire, IInv, CacheIsFresh, ViewsAreFresh, ViewIsFresh, QuestionsFit,
       QuestionsAreFresh, Fresh
  <1>4. QED BY <1>2, <1>3 DEF IInv

LEMMA StutterKeeps == ASSUME IInv, UNCHANGED vars PROVE IInv'
  BY DEF vars, IInv, TypeOK, OwedIsBounded, CacheFits, QuestionsFit, CacheIsFresh,
         ViewsAreFresh, ViewIsFresh, QuestionsAreFresh, Fresh

LEMMA NextKeeps == IInv /\ [Next]_vars => IInv'
  <1> SUFFICES ASSUME IInv, [Next]_vars PROVE IInv'
    OBVIOUS
  <1>1. ASSUME NEW k \in Askers,
               (\E route \in Routes : Ask(k, route)) \/ QuestionStep(k) \/ Hang(k)
        PROVE  IInv'
    BY <1>1, AskKeeps, QuestionStepKeeps, HangKeeps
  <1>2. ASSUME NEW w \in Viewers,
               (\E s \in Views : Look(w, s)) \/ Fetch(w) \/ Keep(w) \/ LookFails(w)
        PROVE  IInv'
    BY <1>2, LookKeeps, FetchKeeps, KeepKeeps, LookFailsKeeps
  <1>3. ASSUME NEW b \in Bases, Change(b) \/ Clear(b) PROVE IInv'
    BY <1>3, ChangeKeeps, ClearKeeps
  <1>4. ASSUME NEW s \in Slots, Expire(s) PROVE IInv'
    BY <1>4, ExpireKeeps
  <1>5. QED BY <1>1, <1>2, <1>3, <1>4, StutterKeeps DEF Next

LEMMA Invariance == Spec => []IInv
  BY InitFits, NextKeeps, PTL DEF Spec

-----------------------------------------------------------------------------
(* Every variable keeps its type: no question repairs more often than        *)
(* MaxAttempts allows, and no more clearings are due than there were changes. *)
THEOREM Typing == Spec => []TypeOK
  <1>1. IInv => TypeOK BY DEF IInv
  <1>2. QED BY <1>1, Invariance, PTL

(* However many jobs, deletions and renamings change the data while questions *)
(* and views are computed, an old result in the cache has a clearing due that *)
(* has not come, or was written after one.                                    *)
THEOREM CachedResultsAreFresh == Spec => []StaleMeansLate
  <1>1. IInv => StaleMeansLate BY DEF IInv, CacheIsFresh, Fresh, StaleMeansLate
  <1>2. QED BY <1>1, Invariance, PTL

(* Through every repair, broadening and cache hit the rows of an answer are  *)
(* those of its query, or of one that differs in case only.                  *)
THEOREM RowsAreOfTheQuery == Spec => []AnswersMatchTheirCypher
  <1>1. IInv => AnswersMatchTheirCypher
    <2>1. SUFFICES ASSUME IInv, NEW k \in Askers, GraphAt(k, "done"), ask[k].rows # None
                   PROVE  ask[k].query # None /\ Key[ask[k].rows.of] = Key[ask[k].query]
      BY DEF AnswersMatchTheirCypher
    <2>2. Fits(ask[k]) /\ ask[k].graph = "done"
      BY <2>1, Asking DEF GraphAt
    <2>3. QED BY <2>1, <2>2 DEF Fits
  <1>2. QED BY <1>1, Invariance, PTL
=============================================================================
