-------------------------- MODULE WorkerRegistryProofs --------------------------
(***************************************************************************)
(* The registry's invariants hold for any number of workers, documents and *)
(* batches, whatever calls arrive in whatever order, and the registry      *)
(* implements DocumentPool.                                                *)
(***************************************************************************)
EXTENDS WorkerRegistry, FiniteSetTheorems, TLAPS

-----------------------------------------------------------------------------
(* Facts about the deque as a sequence. *)

(* Appending one deque to another holds the elements of both. *)
LEMMA ConcatRange ==
  ASSUME NEW S, NEW s \in Seq(S), NEW t \in Seq(S)
  PROVE  /\ s \o t \in Seq(S)
         /\ Range(s \o t) = Range(s) \cup Range(t)
<1>1. s \o t \in Seq(S) /\ Len(s \o t) = Len(s) + Len(t)
  OBVIOUS
<1>2. \A i \in 1 .. Len(s) : (s \o t)[i] = s[i] /\ i \in DOMAIN (s \o t)
  OBVIOUS
<1>3. \A i \in 1 .. Len(t) : (s \o t)[Len(s) + i] = t[i] /\ Len(s) + i \in DOMAIN (s \o t)
  OBVIOUS
<1>4. \A i \in DOMAIN (s \o t) : i \in 1 .. Len(s) \/ \E j \in 1 .. Len(t) : i = Len(s) + j
  <2> SUFFICES ASSUME NEW i \in DOMAIN (s \o t), i \notin 1 .. Len(s)
               PROVE  \E j \in 1 .. Len(t) : i = Len(s) + j
    OBVIOUS
  <2>1. i - Len(s) \in 1 .. Len(t) /\ i = Len(s) + (i - Len(s))
    OBVIOUS
  <2> QED BY <2>1
<1> DEFINE st == s \o t
<1> HIDE DEF st
<1>5. Range(st) \subseteq Range(s) \cup Range(t)
  <2> SUFFICES ASSUME NEW i \in DOMAIN st
               PROVE  st[i] \in Range(s) \cup Range(t)
    BY DEF Range
  <2>1. CASE i \in 1 .. Len(s)
    BY <1>2, <2>1 DEF Range, st
  <2>2. ASSUME NEW j \in 1 .. Len(t), i = Len(s) + j
        PROVE  st[i] \in Range(t)
    BY <1>3, <2>2 DEF Range, st
  <2> QED BY <1>4, <2>1, <2>2 DEF st
<1>6. Range(s) \subseteq Range(st)
  BY <1>2 DEF Range, st
<1>7. Range(t) \subseteq Range(st)
  <2> SUFFICES ASSUME NEW i \in 1 .. Len(t)
               PROVE  t[i] \in Range(st)
    BY DEF Range
  <2>1. Len(s) + i \in DOMAIN st /\ st[Len(s) + i] = t[i]
    BY <1>3 DEF st
  <2> QED BY <2>1 DEF Range
<1> QED
  BY <1>1, <1>5, <1>6, <1>7 DEF st

(* ... and repeats none when neither does and they share none. *)
LEMMA ConcatInjective ==
  ASSUME NEW S, NEW s \in Seq(S), NEW t \in Seq(S),
         IsInjective(s), IsInjective(t), Range(s) \cap Range(t) = {}
  PROVE  IsInjective(s \o t)
<1> SUFFICES ASSUME NEW i \in DOMAIN (s \o t), NEW j \in DOMAIN (s \o t),
                    (s \o t)[i] = (s \o t)[j]
             PROVE  i = j
  BY DEF IsInjective
<1>1. i \in 1 .. Len(s) + Len(t) /\ j \in 1 .. Len(s) + Len(t)
  OBVIOUS
<1>2. \A k \in 1 .. Len(s) : (s \o t)[k] = s[k] /\ s[k] \in Range(s)
  BY DEF Range
<1>3. \A k \in 1 .. Len(s) + Len(t) : k > Len(s) =>
        /\ k - Len(s) \in 1 .. Len(t)
        /\ (s \o t)[k] = t[k - Len(s)]
        /\ t[k - Len(s)] \in Range(t)
  BY DEF Range
<1>4. CASE i <= Len(s) /\ j <= Len(s)
  BY <1>1, <1>2, <1>4 DEF IsInjective
<1>5. CASE i > Len(s) /\ j > Len(s)
  <2>1. i - Len(s) = j - Len(s)
    BY <1>1, <1>3, <1>5 DEF IsInjective
  <2> QED BY <1>1, <2>1
<1>6. CASE i <= Len(s) /\ j > Len(s)
  BY <1>1, <1>2, <1>3, <1>6
<1>7. CASE i > Len(s) /\ j <= Len(s)
  BY <1>1, <1>2, <1>3, <1>7
<1> QED
  BY <1>1, <1>4, <1>5, <1>6, <1>7

(* Cutting a deque in two: popleft takes the head, the tail remains. *)
LEMMA SplitSequence ==
  ASSUME NEW S, NEW s \in Seq(S), NEW n \in 0 .. Len(s)
  PROVE  LET head == SubSeq(s, 1, n)
             tail == SubSeq(s, n + 1, Len(s))
         IN /\ head \in Seq(S) /\ tail \in Seq(S)
            /\ DOMAIN tail = 1 .. Len(s) - n
            /\ \A i \in DOMAIN tail : n + i \in DOMAIN s /\ tail[i] = s[n + i]
            /\ Range(s) = Range(head) \cup Range(tail)
            /\ IsInjective(s) => /\ IsInjective(head) /\ IsInjective(tail)
                                 /\ Range(head) \cap Range(tail) = {}
<1> DEFINE head == SubSeq(s, 1, n)
           tail == SubSeq(s, n + 1, Len(s))
<1>1. head \in Seq(S) /\ Len(head) = n /\ \A i \in 1 .. n : head[i] = s[i]
  OBVIOUS
<1>2. tail \in Seq(S) /\ Len(tail) = Len(s) - n
      /\ \A i \in 1 .. Len(s) - n : tail[i] = s[n + i]
  OBVIOUS
<1>3. DOMAIN head = 1 .. n /\ DOMAIN tail = 1 .. Len(s) - n /\ DOMAIN s = 1 .. Len(s)
  BY <1>1, <1>2
<1>4. \A i \in DOMAIN tail : n + i \in DOMAIN s /\ tail[i] = s[n + i]
  <2> HIDE DEF tail
  <2> QED BY <1>2, <1>3
<1>5. Range(s) = Range(head) \cup Range(tail)
  <2>1. \A i \in DOMAIN s : i \in DOMAIN head \/ (i - n \in DOMAIN tail /\ n + (i - n) = i)
    BY <1>3
  <2>2. \A i \in DOMAIN head : i \in DOMAIN s /\ head[i] = s[i]
    BY <1>1, <1>3
  <2> HIDE DEF head, tail
  <2>3. \A i \in DOMAIN s : s[i] \in Range(head) \cup Range(tail)
    BY <1>4, <2>1, <2>2 DEF Range
  <2> QED BY <1>4, <2>2, <2>3 DEF Range
<1>6. ASSUME IsInjective(s)
      PROVE  IsInjective(head) /\ IsInjective(tail) /\ Range(head) \cap Range(tail) = {}
  <2> HIDE DEF head, tail
  <2>1. \A i \in DOMAIN head, j \in DOMAIN tail : head[i] # tail[j]
    BY <1>1, <1>3, <1>4, <1>6 DEF IsInjective
  <2>2. IsInjective(head)
    BY <1>1, <1>3, <1>6 DEF IsInjective
  <2>3. IsInjective(tail)
    <3> SUFFICES ASSUME NEW i \in DOMAIN tail, NEW j \in DOMAIN tail, tail[i] = tail[j]
                 PROVE  i = j
      BY DEF IsInjective
    <3>1. n + i = n + j
      BY <1>4, <1>6 DEF IsInjective
    <3> QED BY <1>3, <3>1
  <2> QED BY <2>1, <2>2, <2>3 DEF Range
<1> QED
  BY <1>1, <1>2, <1>3, <1>4, <1>5, <1>6

(* A bijection from 1 .. |D| lists the documents of D, each once. *)
LEMMA ListingOfDocs ==
  ASSUME NEW D \in SUBSET Docs, NEW s \in Bijection(1 .. Cardinality(D), D)
  PROVE  s \in Seq(Docs) /\ IsInjective(s) /\ Range(s) = D
<1>1. Cardinality(D) \in Nat
  BY RegistryAssumption, FS_Subset, FS_CardinalityType
<1>2. s \in [1 .. Cardinality(D) -> D] /\ IsInjective(s)
      /\ \A d \in D : \E i \in 1 .. Cardinality(D) : s[i] = d
  BY DEF Bijection, Injection, Surjection
<1>3. s \in Seq(Docs)
  BY <1>1, <1>2
<1>4. Range(s) = D
  BY <1>2 DEF Range
<1> QED BY <1>2, <1>3, <1>4

-----------------------------------------------------------------------------
(* The inductive invariant: the four invariants of the registry, and that a *)
(* batch only ever held documents that were handed in, and none before it   *)
(* was created - which is what makes newly added and newly leased documents *)
(* strangers to every other batch.                                          *)

BatchDocsWereAdded ==
  \A b \in BatchIds : /\ Range(batchDocs[b]) \subseteq added
                      /\ batchState[b] = "unknown" => batchDocs[b] = <<>>

RegistryInv ==
  /\ TypeOK
  /\ OnePlaceEach
  /\ RecordPointsAtOwnOpenBatch
  /\ RetriesComeFirst
  /\ BatchDocsWereAdded

(* The registry starts empty. *)
LEMMA InitInv == Init => RegistryInv
<1> SUFFICES ASSUME Init PROVE RegistryInv
  OBVIOUS
<1> USE DEF Init
<1>1. TypeOK
  BY DEF TypeOK, WorkerStates, BatchStates
<1>2. Range(<<>>) = {} /\ IsInjective(<<>>)
  BY DEF Range, IsInjective
<1>3. OnePlaceEach
  BY <1>2 DEF OnePlaceEach, Held
<1>4. RecordPointsAtOwnOpenBatch
  BY DEF RecordPointsAtOwnOpenBatch
<1>5. RetriesComeFirst
  BY DEF RetriesComeFirst
<1>6. BatchDocsWereAdded
  BY <1>2 DEF BatchDocsWereAdded
<1> QED BY <1>1, <1>3, <1>4, <1>5, <1>6 DEF RegistryInv

(* What a step leaves alone keeps its invariants: documents stay put when   *)
(* the deque, the batches' documents and which batches are held do.         *)
LEMMA DocumentsUntouched ==
  ASSUME RegistryInv,
         UNCHANGED <<pending, batchOwner, batchDocs, added>>,
         \A b \in BatchIds : Held(b)' <=> Held(b),
         \A b \in BatchIds : batchState'[b] = "unknown" <=> batchState[b] = "unknown"
  PROVE  OnePlaceEach' /\ RetriesComeFirst' /\ BatchDocsWereAdded'
<1> USE DEF RegistryInv
<1>1. OnePlaceEach'
  <2>1. {c \in BatchIds : Held(c)}' = {c \in BatchIds : Held(c)}
    OBVIOUS
  <2> HIDE DEF Held
  <2> QED BY <2>1 DEF OnePlaceEach
<1>2. RetriesComeFirst'
  BY DEF RetriesComeFirst, HandedOut
<1>3. BatchDocsWereAdded'
  BY DEF BatchDocsWereAdded
<1> QED BY <1>1, <1>2, <1>3

(* New documents are in no batch, and go behind every retry. *)
LEMMA AddDocumentsInv ==
  ASSUME RegistryInv, NEW ds \in Arrivals, AddDocuments(ds)
  PROVE  RegistryInv'
<1> USE DEF RegistryInv
<1>1. PICK D \in SUBSET (Docs \ added) : ds \in Bijection(1 .. Cardinality(D), D)
  BY DEF Arrivals
<1>2. ds \in Seq(Docs) /\ IsInjective(ds) /\ Range(ds) = D
  BY <1>1, ListingOfDocs
<1>3. pending \in Seq(Docs) /\ Range(pending) \subseteq added
  BY DEF TypeOK, OnePlaceEach
<1>4. /\ pending' \in Seq(Docs)
      /\ Range(pending') = Range(pending) \cup D
      /\ IsInjective(pending')
  BY <1>1, <1>2, <1>3, ConcatRange, ConcatInjective DEF AddDocuments, OnePlaceEach
<1>5. added' = added \cup D
  BY <1>2 DEF AddDocuments
<1>6. TypeOK'
  BY <1>2, <1>4, <1>5 DEF TypeOK, AddDocuments, workerVars, batchVars
<1>7. OnePlaceEach'
  <2>1. UNCHANGED batchVars
    BY DEF AddDocuments
  <2>2. \A b \in BatchIds : Held(b)' <=> Held(b)
    BY <2>1 DEF Held, batchVars
  <2>3. \A b \in BatchIds : Range(batchDocs[b]) \cap D = {}
    BY <1>1 DEF BatchDocsWereAdded
  <2>4. \A b \in BatchIds : Range(batchDocs'[b]) = Range(batchDocs[b])
    BY <2>1 DEF batchVars
  <2>5. added' = Range(pending') \cup UNION {Range(batchDocs'[b]) : b \in {c \in BatchIds : Held(c)'}}
    BY <1>4, <1>5, <2>1, <2>2 DEF OnePlaceEach, batchVars
  <2> QED BY <1>4, <2>1, <2>2, <2>3, <2>4, <2>5 DEF OnePlaceEach, batchVars
<1>8. RecordPointsAtOwnOpenBatch'
  BY DEF RecordPointsAtOwnOpenBatch, AddDocuments, workerVars, batchVars
<1>9. RetriesComeFirst'
  <2>1. \A d : HandedOut(d)' <=> HandedOut(d)
    BY DEF HandedOut, AddDocuments, batchVars
  <2>2. \A d \in D : ~HandedOut(d)
    BY <1>1 DEF HandedOut, BatchDocsWereAdded
  <2>3. \A i \in DOMAIN pending' : pending'[i] \notin D => i \in DOMAIN pending
    BY <1>2, <1>3 DEF AddDocuments, Range
  <2>4. \A i \in DOMAIN pending : i \in DOMAIN pending' /\ pending'[i] = pending[i]
    BY <1>2, <1>3 DEF AddDocuments
  <2>5. \A i, j \in DOMAIN pending' : i < j /\ j \in DOMAIN pending => i \in DOMAIN pending
    BY <1>3, <1>4
  <2> QED BY <2>1, <2>2, <2>3, <2>4, <2>5 DEF RetriesComeFirst
<1>10. BatchDocsWereAdded'
  BY <1>5 DEF BatchDocsWereAdded, AddDocuments, batchVars
<1> QED BY <1>6, <1>7, <1>8, <1>9, <1>10

(* A fresh worker record holds no batch. *)
LEMMA RegisterInv ==
  ASSUME RegistryInv, NEW w \in Workers, Register(w)
  PROVE  RegistryInv'
<1> USE DEF RegistryInv, Register, batchVars
<1>1. TypeOK'
  BY DEF TypeOK, WorkerStates
<1>2. OnePlaceEach' /\ RetriesComeFirst' /\ BatchDocsWereAdded'
  BY DocumentsUntouched DEF Held
<1>3. RecordPointsAtOwnOpenBatch'
  BY DEF RecordPointsAtOwnOpenBatch, TypeOK
<1> QED BY <1>1, <1>2, <1>3

(* At most an idle record is added. *)
LEMMA RequestNothingInv ==
  ASSUME RegistryInv, NEW w \in Workers, RequestNothing(w)
  PROVE  RegistryInv'
<1> USE DEF RegistryInv, RequestNothing, batchVars
<1>1. TypeOK'
  BY DEF TypeOK, WorkerStates
<1>2. OnePlaceEach' /\ RetriesComeFirst' /\ BatchDocsWereAdded'
  BY DocumentsUntouched DEF Held
<1>3. RecordPointsAtOwnOpenBatch'
  BY DEF RecordPointsAtOwnOpenBatch, TypeOK
<1> QED BY <1>1, <1>2, <1>3

(* Only the worker's state word and its last_seen change. *)
LEMMA HeartbeatInv ==
  ASSUME RegistryInv, NEW w \in Workers, NEW b \in BatchIds, NEW st,
         Heartbeat(w, b, st)
  PROVE  RegistryInv'
<1> USE DEF RegistryInv, Heartbeat, batchVars
<1>1. TypeOK'
  BY DEF TypeOK, WorkerStates
<1>2. OnePlaceEach' /\ RetriesComeFirst' /\ BatchDocsWereAdded'
  BY DocumentsUntouched DEF Held
<1>3. RecordPointsAtOwnOpenBatch'
  BY DEF RecordPointsAtOwnOpenBatch, TypeOK
<1> QED BY <1>1, <1>2, <1>3

(* The batch stays held; the record that pointed at it is cleared. *)
LEMMA CompleteInv ==
  ASSUME RegistryInv, NEW w \in Workers, NEW b \in BatchIds, Complete(w, b)
  PROVE  RegistryInv'
<1> USE DEF RegistryInv, Complete, Accepts
<1>1. TypeOK'
  BY DEF TypeOK, WorkerStates, BatchStates
<1>2. OnePlaceEach' /\ RetriesComeFirst' /\ BatchDocsWereAdded'
  BY DocumentsUntouched DEF Held, TypeOK, BatchStates
<1>3. RecordPointsAtOwnOpenBatch'
  BY DEF RecordPointsAtOwnOpenBatch, TypeOK
<1> QED BY <1>1, <1>2, <1>3

(* Time passing changes no document and no record. *)
LEMMA FallSilentInv ==
  ASSUME RegistryInv, NEW w \in Workers, FallSilent(w)
  PROVE  RegistryInv'
<1> USE DEF RegistryInv, FallSilent, batchVars
<1>1. TypeOK'
  BY DEF TypeOK
<1>2. OnePlaceEach' /\ RetriesComeFirst' /\ BatchDocsWereAdded'
  BY DocumentsUntouched DEF Held
<1>3. RecordPointsAtOwnOpenBatch'
  BY DEF RecordPointsAtOwnOpenBatch
<1> QED BY <1>1, <1>2, <1>3

(* The head of the deque moves into a batch nothing was in. *)
LEMMA TakeBatchInv ==
  ASSUME RegistryInv, NEW w \in Workers, NEW max \in Limits, TakeBatch(w, max)
  PROVE  RegistryInv'
<1> USE DEF RegistryInv
<1> DEFINE n == IF max < Len(pending) THEN max ELSE Len(pending)
           head == SubSeq(pending, 1, n)
           tail == SubSeq(pending, n + 1, Len(pending))
<1>1. NextId \in BatchIds /\ batchState[NextId] = "unknown"
  BY DEF TakeBatch, NextId, FreshIds
<1>2. PICK id \in BatchIds : id = NextId /\ batchState[id] = "unknown"
  BY <1>1
<1>3. n \in 0 .. Len(pending)
  BY RegistryAssumption DEF TypeOK
<1>4. /\ pending' = tail
      /\ batchDocs' = [batchDocs EXCEPT ![id] = head]
      /\ batchState' = [batchState EXCEPT ![id] = "assigned"]
      /\ batchOwner' = [batchOwner EXCEPT ![id] = w]
      /\ workerState' = [workerState EXCEPT ![w] = "processing"]
      /\ workerBatch' = [workerBatch EXCEPT ![w] = id]
      /\ silent' = silent \ {w}
      /\ added' = added
  BY <1>2 DEF TakeBatch
<1>5. /\ head \in Seq(Docs) /\ tail \in Seq(Docs)
      /\ DOMAIN tail = 1 .. Len(pending) - n
      /\ \A i \in DOMAIN tail : n + i \in DOMAIN pending /\ tail[i] = pending[n + i]
      /\ Range(pending) = Range(head) \cup Range(tail)
      /\ IsInjective(head) /\ IsInjective(tail)
      /\ Range(head) \cap Range(tail) = {}
  <2>1. pending \in Seq(Docs) /\ IsInjective(pending)
    BY DEF TypeOK, OnePlaceEach
  <2> HIDE DEF n, RegistryInv
  <2> QED BY <1>3, <2>1, SplitSequence
<1>6. Len(pending) \in Nat /\ n \in Nat
  BY <1>3 DEF TypeOK
<1> HIDE DEF n, head, tail
<1>7. TypeOK'
  BY <1>4, <1>5 DEF TypeOK, WorkerStates, BatchStates
<1>8. /\ Held(id)' /\ ~Held(id) /\ batchDocs[id] = <<>> /\ batchDocs'[id] = head
      /\ \A b \in BatchIds \ {id} : /\ Held(b)' <=> Held(b)
                                    /\ batchDocs'[b] = batchDocs[b]
                                    /\ batchState'[b] = batchState[b]
                                    /\ batchOwner'[b] = batchOwner[b]
  BY <1>2, <1>4 DEF TypeOK, Held, BatchDocsWereAdded
<1>9. OnePlaceEach'
  <2>1. IsInjective(pending')
    BY <1>4, <1>5
  <2>2. \A b \in BatchIds \ {id} : Held(b) =>
          Range(batchDocs[b]) \cap (Range(head) \cup Range(tail)) = {}
    BY <1>5 DEF OnePlaceEach
  <2>3. ASSUME NEW b \in BatchIds, Held(b)'
        PROVE  /\ IsInjective(batchDocs'[b])
               /\ Range(batchDocs'[b]) \cap Range(pending') = {}
               /\ \A c \in BatchIds \ {b} :
                    Held(c)' => Range(batchDocs'[b]) \cap Range(batchDocs'[c]) = {}
    <3>1. CASE b = id
      BY <1>4, <1>5, <1>8, <2>2, <3>1
    <3>2. CASE b # id
      BY <1>4, <1>5, <1>8, <2>2, <2>3, <3>2 DEF OnePlaceEach
    <3> QED BY <3>1, <3>2
  <2>4. added' = Range(pending') \cup
                 UNION {Range(batchDocs'[b]) : b \in {c \in BatchIds : Held(c)'}}
    <3> DEFINE before == UNION {Range(batchDocs[b]) : b \in {c \in BatchIds : Held(c)}}
               after == UNION {Range(batchDocs'[b]) : b \in {c \in BatchIds : Held(c)'}}
    <3>1. after = before \cup Range(head)
      BY <1>8
    <3>2. added = Range(pending) \cup before
      BY DEF OnePlaceEach
    <3> QED BY <1>4, <1>5, <3>1, <3>2
  <2> QED BY <2>1, <2>3, <2>4 DEF OnePlaceEach
<1>10. RecordPointsAtOwnOpenBatch'
  BY <1>2, <1>4 DEF RecordPointsAtOwnOpenBatch, TypeOK
<1>11. RetriesComeFirst'
  <2>1. \A d : d \notin Range(head) => (HandedOut(d)' <=> HandedOut(d))
    <3>1. Range(<<>>) = {}
      BY DEF Range
    <3> QED BY <1>8, <3>1 DEF HandedOut
  <2>2. ASSUME NEW i \in DOMAIN pending', NEW j \in DOMAIN pending', i < j,
               NEW d, d = pending'[i], NEW e, e = pending'[j], HandedOut(e)'
        PROVE  HandedOut(d)'
    <3>1. i \in DOMAIN tail /\ j \in DOMAIN tail /\ d = tail[i] /\ e = tail[j]
      BY <1>4, <2>2
    <3>2. d \notin Range(head) /\ e \notin Range(head)
      BY <1>5, <3>1 DEF Range
    <3>3. /\ n + i \in DOMAIN pending /\ d = pending[n + i]
          /\ n + j \in DOMAIN pending /\ e = pending[n + j]
      BY <1>5, <3>1
    <3>4. n + i < n + j
      BY <1>5, <1>6, <2>2, <3>1
    <3>5. HandedOut(e)
      BY <2>1, <2>2, <3>2
    <3>6. HandedOut(d)
      BY <3>3, <3>4, <3>5 DEF RetriesComeFirst
    <3> QED BY <2>1, <3>2, <3>6
  <2> QED BY <2>2 DEF RetriesComeFirst, HandedOut
<1>12. BatchDocsWereAdded'
  <2>1. Range(head) \subseteq added
    BY <1>5 DEF OnePlaceEach
  <2> QED BY <1>4, <1>8, <2>1 DEF BatchDocsWereAdded, Held
<1> QED BY <1>7, <1>9, <1>10, <1>11, <1>12

(* The batches taken back are exactly what moves to the head of the deque. *)
LEMMA ReapDeadInv ==
  ASSUME RegistryInv, ReapDead
  PROVE  RegistryInv'
<1> USE DEF RegistryInv
<1>1. PICK s \in Requeues : pending' = s \o pending
  BY DEF ReapDead
<1>2. PICK R \in SUBSET Docs : R = ReclaimedDocs
  <2>1. \A b \in BatchIds : Range(batchDocs[b]) \subseteq Docs
    BY DEF TypeOK, Range
  <2> QED BY <2>1 DEF ReclaimedDocs, Reclaimed
<1>3. s \in Seq(Docs) /\ IsInjective(s) /\ Range(s) = R
  <2>1. s \in Bijection(1 .. Cardinality(R), R)
    BY <1>1, <1>2 DEF Requeues
  <2> HIDE DEF RegistryInv
  <2> QED BY <2>1, ListingOfDocs
<1>4. pending \in Seq(Docs) /\ IsInjective(pending)
  BY DEF TypeOK, OnePlaceEach
<1>5. \A b \in BatchIds : b \in Reclaimed => Held(b)
  BY DEF Reclaimed, Held
<1>6. /\ \A b \in Reclaimed : Range(batchDocs[b]) \subseteq R
      /\ \A d \in R : \E b \in Reclaimed : d \in Range(batchDocs[b])
      /\ Reclaimed \subseteq BatchIds
  BY <1>2 DEF ReclaimedDocs, Reclaimed
<1>7. R \cap Range(pending) = {}
  BY <1>5, <1>6 DEF OnePlaceEach
<1>8. /\ pending' \in Seq(Docs)
      /\ Range(pending') = R \cup Range(pending)
      /\ IsInjective(pending')
  <2> HIDE DEF RegistryInv
  <2> QED BY <1>1, <1>3, <1>4, <1>7, ConcatRange, ConcatInjective
<1>9. /\ batchState' = [b \in BatchIds |-> IF b \in Reclaimed THEN "reassigned"
                                           ELSE batchState[b]]
      /\ UNCHANGED <<silent, batchOwner, batchDocs, added>>
  BY DEF ReapDead, CloseReclaimed
<1>10. \A b \in BatchIds : Held(b)' <=> Held(b) /\ b \notin Reclaimed
  BY <1>9 DEF Held
<1>11. TypeOK'
  BY <1>8, <1>9 DEF TypeOK, ReapDead, RetireExpired, WorkerStates, BatchStates
<1>12. OnePlaceEach'
  <2>1. \A b \in BatchIds : Held(b)' => Range(batchDocs[b]) \cap R = {}
    BY <1>5, <1>6, <1>10 DEF OnePlaceEach
  <2>2. \A b \in BatchIds : Held(b)' =>
          /\ IsInjective(batchDocs'[b])
          /\ Range(batchDocs'[b]) \cap Range(pending') = {}
          /\ \A c \in BatchIds \ {b} :
               Held(c)' => Range(batchDocs'[b]) \cap Range(batchDocs'[c]) = {}
    BY <1>8, <1>9, <1>10, <2>1 DEF OnePlaceEach
  <2>3. added' = Range(pending') \cup
                 UNION {Range(batchDocs'[b]) : b \in {c \in BatchIds : Held(c)'}}
    <3> DEFINE before == UNION {Range(batchDocs[b]) : b \in {c \in BatchIds : Held(c)}}
               after == UNION {Range(batchDocs'[b]) : b \in {c \in BatchIds : Held(c)'}}
    <3>1. before = after \cup R
      <4>1. before \subseteq after \cup R
        BY <1>6, <1>9, <1>10
      <4>2. after \cup R \subseteq before
        BY <1>5, <1>6, <1>9, <1>10
      <4> QED BY <4>1, <4>2
    <3>2. added = Range(pending) \cup before
      BY DEF OnePlaceEach
    <3> QED BY <1>8, <1>9, <3>1, <3>2
  <2> QED BY <1>8, <2>2, <2>3 DEF OnePlaceEach
<1>13. RecordPointsAtOwnOpenBatch'
  <2> SUFFICES ASSUME NEW w \in Workers, workerBatch'[w] # NoBatch
               PROVE  /\ batchState'[workerBatch'[w]] = "assigned"
                      /\ batchOwner'[workerBatch'[w]] = w
                      /\ workerState'[w] \notin {"absent", "dead"}
    BY DEF RecordPointsAtOwnOpenBatch
  <2>1. w \notin Expired /\ workerBatch'[w] = workerBatch[w]
        /\ workerState'[w] = workerState[w]
    BY DEF ReapDead, RetireExpired
  <2>2. PICK b \in BatchIds : b = workerBatch[w] /\ batchState[b] = "assigned"
                              /\ batchOwner[b] = w
    BY <2>1 DEF RecordPointsAtOwnOpenBatch, TypeOK
  <2>3. b \notin Reclaimed
    <3> SUFFICES ASSUME NEW v \in Expired, workerBatch[v] = b PROVE FALSE
      BY DEF Reclaimed
    <3>1. v \in Workers
      BY DEF Expired, TypeOK
    <3> QED BY <2>1, <2>2, <3>1 DEF RecordPointsAtOwnOpenBatch, TypeOK
  <2> QED BY <1>9, <2>1, <2>2, <2>3 DEF RecordPointsAtOwnOpenBatch
<1>14. RetriesComeFirst'
  <2>1. \A d : HandedOut(d)' <=> HandedOut(d)
    BY <1>9 DEF HandedOut
  <2>2. \A d \in R : HandedOut(d)
    BY <1>6 DEF HandedOut
  <2>3. Len(s) \in Nat /\ Len(pending) \in Nat
        /\ DOMAIN pending' = 1 .. Len(s) + Len(pending)
    BY <1>1, <1>3, <1>4
  <2>4. \A i \in 1 .. Len(s) : pending'[i] = s[i] /\ s[i] \in R
    BY <1>1, <1>3, <1>4 DEF Range
  <2>5. \A i \in 1 .. Len(s) + Len(pending) : i > Len(s) =>
          i - Len(s) \in DOMAIN pending /\ pending'[i] = pending[i - Len(s)]
    BY <1>1, <1>3, <1>4
  <2>6. ASSUME NEW i \in DOMAIN pending', NEW j \in DOMAIN pending', i < j,
               NEW d, d = pending'[i], NEW e, e = pending'[j], HandedOut(e)'
        PROVE  HandedOut(d)'
    <3>1. CASE i <= Len(s)
      BY <2>1, <2>2, <2>3, <2>4, <2>6, <3>1
    <3>2. CASE i > Len(s)
      <4>1. /\ i - Len(s) \in DOMAIN pending /\ d = pending[i - Len(s)]
            /\ j - Len(s) \in DOMAIN pending /\ e = pending[j - Len(s)]
            /\ i - Len(s) < j - Len(s)
        BY <2>3, <2>5, <2>6, <3>2
      <4> QED BY <2>1, <2>6, <4>1 DEF RetriesComeFirst
    <3> QED BY <2>3, <3>1, <3>2
  <2> QED BY <2>6 DEF RetriesComeFirst, HandedOut
<1>15. BatchDocsWereAdded'
  BY <1>9 DEF BatchDocsWereAdded
<1> QED BY <1>11, <1>12, <1>13, <1>14, <1>15

(* Every step of the registry preserves the inductive invariant. *)
LEMMA NextInv == RegistryInv /\ [Next]_registryVars => RegistryInv'
<1> SUFFICES ASSUME RegistryInv, [Next]_registryVars PROVE RegistryInv'
  OBVIOUS
<1>1. ASSUME NEW ds \in Arrivals, AddDocuments(ds) PROVE RegistryInv'
  BY <1>1, AddDocumentsInv
<1>2. ASSUME NEW w \in Workers, Register(w) PROVE RegistryInv'
  BY <1>2, RegisterInv
<1>3. ASSUME NEW w \in Workers, NEW max \in Limits, RequestWork(w, max)
      PROVE  RegistryInv'
  BY <1>3, RequestNothingInv, TakeBatchInv DEF RequestWork
<1>4. ASSUME NEW w \in Workers, NEW b \in BatchIds, NEW st \in HeartbeatStatus,
             Heartbeat(w, b, st)
      PROVE  RegistryInv'
  BY <1>4, HeartbeatInv
<1>5. ASSUME NEW w \in Workers, NEW b \in BatchIds, Complete(w, b) PROVE RegistryInv'
  BY <1>5, CompleteInv
<1>6. ASSUME NEW w \in Workers, FallSilent(w) PROVE RegistryInv'
  BY <1>6, FallSilentInv
<1>7. CASE ReapDead
  BY <1>7, ReapDeadInv
<1>8. CASE UNCHANGED registryVars
  <2> USE <1>8 DEF registryVars, workerVars, batchVars, RegistryInv
  <2>1. TypeOK'
    BY DEF TypeOK
  <2>2. OnePlaceEach' /\ RetriesComeFirst' /\ BatchDocsWereAdded'
    BY DocumentsUntouched DEF Held
  <2>3. RecordPointsAtOwnOpenBatch'
    BY DEF RecordPointsAtOwnOpenBatch
  <2> QED BY <2>1, <2>2, <2>3
<1> QED
  BY <1>1, <1>2, <1>3, <1>4, <1>5, <1>6, <1>7, <1>8 DEF Next

-----------------------------------------------------------------------------
(* The strengthened invariant holds in every reachable state of the registry. *)
THEOREM RegistryInvariant == Spec => []RegistryInv
<1>1. Init => RegistryInv
  BY InitInv
<1>2. RegistryInv /\ [Next]_registryVars => RegistryInv'
  BY NextInv
<1> QED BY <1>1, <1>2, PTL DEF Spec

(* The registry's fields keep their types: states are the documented words, *)
(* and batches hold documents that exist.                                   *)
THEOREM RegistryTypeCorrect == Spec => []TypeOK
<1>1. RegistryInv => TypeOK
  BY DEF RegistryInv
<1> QED BY <1>1, RegistryInvariant, PTL

(* No document handed to add_documents is ever lost or held twice, however  *)
(* workers come, go, report late or fall silent.                            *)
THEOREM NothingLostOrDoubled == Spec => []OnePlaceEach
<1>1. RegistryInv => OnePlaceEach
  BY DEF RegistryInv
<1> QED BY <1>1, RegistryInvariant, PTL

(* A worker record never points at a finished, reassigned or foreign batch,  *)
(* so reap_dead takes back nothing but the expired worker's own open batch.  *)
THEOREM ReaperTakesOnlyOwnBatches == Spec => []RecordPointsAtOwnOpenBatch
<1>1. RegistryInv => RecordPointsAtOwnOpenBatch
  BY DEF RegistryInv
<1> QED BY <1>1, RegistryInvariant, PTL

(* Documents taken back are always ahead of documents nobody has had yet.   *)
THEOREM RequeuedDocumentsComeFirst == Spec => []RetriesComeFirst
<1>1. RegistryInv => RetriesComeFirst
  BY DEF RegistryInv
<1> QED BY <1>1, RegistryInvariant, PTL

(* No call, by any worker in any order, reopens a batch that is done or     *)
(* reassigned.                                                              *)
THEOREM ClosedBatchesStayClosed == Spec => ClosedBatchStaysClosed
<1> DEFINE Stays == \A b \in BatchIds : batchState[b] \in {"done", "reassigned"}
                                          => batchState'[b] = batchState[b]
<1>1. ASSUME RegistryInv, Next PROVE Stays
  <2> USE DEF RegistryInv, TypeOK
  <2>1. ASSUME NEW w \in Workers, NEW max \in Limits, TakeBatch(w, max) PROVE Stays
    <3>1. NextId \in BatchIds /\ batchState[NextId] = "unknown"
      BY <2>1 DEF TakeBatch, NextId, FreshIds
    <3> QED BY <2>1, <3>1 DEF TakeBatch
  <2>2. ASSUME NEW w \in Workers, NEW b \in BatchIds, Complete(w, b) PROVE Stays
    <3>1. CASE Accepts(w, b)
      <4>1. batchState' = [batchState EXCEPT ![b] = "done"] /\ batchState[b] # "reassigned"
        BY <2>2, <3>1 DEF Complete, Accepts
      <4> QED BY <4>1
    <3>2. CASE ~Accepts(w, b)
      BY <2>2, <3>2 DEF Complete
    <3> QED BY <3>1, <3>2
  <2>3. CASE ReapDead
    BY <2>3 DEF ReapDead, CloseReclaimed, Reclaimed
  <2>4. CASE UNCHANGED batchState
    BY <2>4
  <2> QED
    BY <1>1, <2>1, <2>2, <2>3, <2>4 DEF Next, AddDocuments, Register, RequestWork,
       RequestNothing, Heartbeat, FallSilent, batchVars
<1>2. RegistryInv /\ [Next]_registryVars => [Stays]_registryVars
  BY <1>1
<1> QED BY <1>2, RegistryInvariant, PTL DEF Spec, ClosedBatchStaysClosed

-----------------------------------------------------------------------------
(* The registry implements DocumentPool: each call moves the documents of at *)
(* most one place to the next, and the reaper moves many batches back at once. *)

(* Where each document is, read off the registry's own state.  The mapping  *)
(* is defined with CHOOSE; by OnePlaceEach there is one batch to choose.    *)
PlacesByBatch ==
  \A d \in Docs :
    /\ d \notin added => PoolPlace[d] = "outside" /\ PoolHolder[d] = Nobody
    /\ d \in Range(pending) => PoolPlace[d] = "waiting" /\ PoolHolder[d] = Nobody
    /\ \A b \in BatchIds : Held(b) /\ d \in Range(batchDocs[b]) =>
         /\ PoolPlace[d] = IF batchState[b] = "assigned" THEN "leased" ELSE "settled"
         /\ PoolHolder[d] = batchOwner[b]

(* Every document is outside, in the deque, or in a held batch. *)
Located ==
  \A d \in Docs : \/ d \notin added
                  \/ d \in Range(pending)
                  \/ \E b \in BatchIds : Held(b) /\ d \in Range(batchDocs[b])

(* Both follow from the invariant: OnePlaceEach leaves CHOOSE one batch. *)
LEMMA Places == RegistryInv => PlacesByBatch /\ Located
<1> SUFFICES ASSUME RegistryInv PROVE PlacesByBatch /\ Located
  OBVIOUS
<1> USE DEF RegistryInv
<1>1. Located
  BY DEF Located, OnePlaceEach
<1>2. ASSUME NEW d \in Docs, d \notin added
      PROVE  PlaceOf(d) = "outside" /\ HolderOf(d) = Nobody
  <2>1. ~IsHeld(d)
    BY <1>2 DEF IsHeld, BatchDocsWereAdded
  <2> QED BY <1>2, <2>1 DEF PlaceOf, HolderOf
<1>3. ASSUME NEW d \in Docs, d \in Range(pending)
      PROVE  PlaceOf(d) = "waiting" /\ HolderOf(d) = Nobody
  <2>1. ~IsHeld(d) /\ d \in added
    BY <1>3 DEF IsHeld, OnePlaceEach
  <2> QED BY <2>1 DEF PlaceOf, HolderOf
<1>4. ASSUME NEW d \in Docs, NEW b \in BatchIds, Held(b), d \in Range(batchDocs[b])
      PROVE  /\ PlaceOf(d) = IF batchState[b] = "assigned" THEN "leased" ELSE "settled"
             /\ HolderOf(d) = batchOwner[b]
  <2>1. IsHeld(d) /\ d \in added
    BY <1>4 DEF IsHeld, BatchDocsWereAdded
  <2>2. HoldingBatch(d) \in BatchIds /\ Held(HoldingBatch(d))
        /\ d \in Range(batchDocs[HoldingBatch(d)])
    BY <1>4 DEF HoldingBatch
  <2>3. HoldingBatch(d) = b
    BY <1>4, <2>2 DEF OnePlaceEach
  <2> QED BY <2>1, <2>3 DEF PlaceOf, HolderOf
<1>5. PlacesByBatch
  BY <1>2, <1>3, <1>4 DEF PlacesByBatch, PoolPlace, PoolHolder
<1> QED BY <1>1, <1>5

(* The same of the next state. *)
LEMMA PlacesNext == RegistryInv' => PlacesByBatch' /\ Located'
BY Places, PTL

(* At first every document is outside and nobody holds any. *)
LEMMA InitRefines == Init => Pool!Init
<1> SUFFICES ASSUME Init PROVE Pool!Init
  OBVIOUS
<1>1. \A d \in Docs : PlaceOf(d) = "outside" /\ HolderOf(d) = Nobody
  BY DEF Init, PlaceOf, HolderOf, IsHeld, Held
<1> QED BY <1>1 DEF Pool!Init, PoolPlace, PoolHolder

(* Documents stay in their places when the deque does, and the batches do   *)
(* as far as their documents and their being assigned or done go.           *)
LEMMA PlacesUntouched ==
  ASSUME RegistryInv, RegistryInv',
         UNCHANGED <<pending, batchState, batchOwner, batchDocs, added>>
  PROVE  UNCHANGED <<PoolPlace, PoolHolder>>
BY DEF PoolPlace, PoolHolder, PlaceOf, HolderOf, IsHeld, HoldingBatch, Held

(* add_documents: documents from outside wait. *)
LEMMA AddRefines ==
  ASSUME RegistryInv, RegistryInv', NEW ds \in Arrivals, AddDocuments(ds)
  PROVE  Pool!Add(Range(ds))
<1>1. PlacesByBatch /\ PlacesByBatch' /\ Located /\ Located'
  BY Places, PlacesNext
<1>2. /\ Range(ds) \cap added = {}
      /\ Range(pending') = Range(pending) \cup Range(ds)
      /\ added' = added \cup Range(ds)
      /\ UNCHANGED <<batchState, batchOwner, batchDocs>>
      /\ \A b \in BatchIds : Held(b)' <=> Held(b)
  <2>1. PICK D \in SUBSET (Docs \ added) : ds \in Bijection(1 .. Cardinality(D), D)
    BY DEF Arrivals
  <2>2. ds \in Seq(Docs) /\ pending \in Seq(Docs)
    BY <2>1, ListingOfDocs DEF RegistryInv, TypeOK
  <2>3. Range(pending \o ds) = Range(pending) \cup Range(ds)
    BY <2>2, ConcatRange
  <2> QED BY <2>3 DEF AddDocuments, batchVars, Held
<1>3. ASSUME NEW d \in Docs
      PROVE  /\ PoolPlace'[d] = IF d \in Range(ds) THEN "waiting" ELSE PoolPlace[d]
             /\ PoolHolder'[d] = PoolHolder[d]
             /\ d \in Range(ds) => PoolPlace[d] = "outside"
  <2>1. CASE d \in Range(ds)
    BY <1>1, <1>2, <2>1 DEF PlacesByBatch
  <2>2. CASE d \notin Range(ds) /\ d \notin added
    BY <1>1, <1>2, <2>2 DEF PlacesByBatch
  <2>3. CASE d \notin Range(ds) /\ d \in Range(pending)
    BY <1>1, <1>2, <2>3 DEF PlacesByBatch
  <2>4. ASSUME d \notin Range(ds), NEW b \in BatchIds, Held(b), d \in Range(batchDocs[b])
        PROVE  /\ PoolPlace'[d] = PoolPlace[d]
               /\ PoolHolder'[d] = PoolHolder[d]
    BY <1>1, <1>2, <2>4 DEF PlacesByBatch
  <2> QED BY <1>1, <2>1, <2>2, <2>3, <2>4 DEF Located
<1>4. PoolPlace' = [d \in Docs |-> IF d \in Range(ds) THEN "waiting" ELSE PoolPlace[d]]
  BY <1>3 DEF PoolPlace
<1>5. PoolHolder' = PoolHolder
  BY <1>3 DEF PoolHolder
<1>6. \A d \in Range(ds) : d \in Docs
  BY <1>2 DEF RegistryInv, TypeOK, AddDocuments
<1> QED BY <1>3, <1>4, <1>5, <1>6 DEF Pool!Add

(* What TakeBatch does to the documents: those of the new batch were at the *)
(* head of the deque.                                                       *)
LEMMA TakeBatchEffect ==
  ASSUME RegistryInv, NEW w \in Workers, NEW max \in Limits, TakeBatch(w, max)
  PROVE  \E id \in BatchIds :
           /\ batchState[id] = "unknown"
           /\ batchState' = [batchState EXCEPT ![id] = "assigned"]
           /\ batchOwner' = [batchOwner EXCEPT ![id] = w]
           /\ \A b \in BatchIds \ {id} : batchDocs'[b] = batchDocs[b]
           /\ Range(pending) = Range(batchDocs'[id]) \cup Range(pending')
           /\ added' = added
<1> DEFINE n == IF max < Len(pending) THEN max ELSE Len(pending)
<1>1. NextId \in BatchIds /\ batchState[NextId] = "unknown"
  BY DEF TakeBatch, NextId, FreshIds
<1>2. PICK id \in BatchIds : id = NextId /\ batchState[id] = "unknown"
  BY <1>1
<1>3. n \in 0 .. Len(pending) /\ pending \in Seq(Docs)
  BY RegistryAssumption DEF RegistryInv, TypeOK
<1>4. /\ pending' = SubSeq(pending, n + 1, Len(pending))
      /\ batchDocs' = [batchDocs EXCEPT ![id] = SubSeq(pending, 1, n)]
      /\ batchState' = [batchState EXCEPT ![id] = "assigned"]
      /\ batchOwner' = [batchOwner EXCEPT ![id] = w]
      /\ added' = added
  BY <1>2 DEF TakeBatch
<1> HIDE DEF n
<1>5. Range(pending) = Range(SubSeq(pending, 1, n)) \cup Range(pending')
  BY <1>3, <1>4, SplitSequence
<1>6. batchDocs'[id] = SubSeq(pending, 1, n)
  BY <1>4 DEF RegistryInv, TypeOK
<1>7. \A b \in BatchIds \ {id} : batchDocs'[b] = batchDocs[b]
  BY <1>4 DEF RegistryInv, TypeOK
<1>8. Range(pending) = Range(batchDocs'[id]) \cup Range(pending')
  BY <1>5, <1>6
<1> WITNESS id \in BatchIds
<1> QED BY <1>2, <1>4, <1>7, <1>8

(* request_work: waiting documents are leased. *)
LEMMA TakeRefines ==
  ASSUME RegistryInv, RegistryInv', NEW w \in Workers, NEW max \in Limits,
         TakeBatch(w, max)
  PROVE  \E D \in SUBSET Docs : Pool!Lease(w, D)
<1>1. PlacesByBatch /\ PlacesByBatch' /\ Located /\ Located'
  BY Places, PlacesNext
<1>2. PICK id \in BatchIds :
        /\ batchState[id] = "unknown"
        /\ batchState' = [batchState EXCEPT ![id] = "assigned"]
        /\ batchOwner' = [batchOwner EXCEPT ![id] = w]
        /\ \A b \in BatchIds \ {id} : batchDocs'[b] = batchDocs[b]
        /\ Range(pending) = Range(batchDocs'[id]) \cup Range(pending')
        /\ added' = added
  BY TakeBatchEffect
<1>3. PICK D : D = Range(batchDocs'[id])
  OBVIOUS
<1>4. D \subseteq Range(pending) /\ D \subseteq Docs
  BY <1>2, <1>3 DEF RegistryInv, OnePlaceEach, TypeOK
<1>5. /\ batchState'[id] = "assigned" /\ batchOwner'[id] = w /\ Held(id)'
      /\ ~Held(id)
      /\ \A b \in BatchIds \ {id} : /\ batchState'[b] = batchState[b]
                                    /\ batchOwner'[b] = batchOwner[b]
                                    /\ Held(b)' <=> Held(b)
  BY <1>2 DEF RegistryInv, TypeOK, Held
<1>6. ASSUME NEW d \in Docs
      PROVE  /\ PoolPlace'[d] = IF d \in D THEN "leased" ELSE PoolPlace[d]
             /\ PoolHolder'[d] = IF d \in D THEN w ELSE PoolHolder[d]
             /\ d \in D => PoolPlace[d] = "waiting"
  <2>1. CASE d \in D
    BY <1>1, <1>3, <1>4, <1>5, <2>1 DEF PlacesByBatch
  <2>2. CASE d \notin D /\ d \notin added
    BY <1>1, <1>2, <2>2 DEF PlacesByBatch
  <2>3. CASE d \notin D /\ d \in Range(pending)
    BY <1>1, <1>2, <1>3, <2>3 DEF PlacesByBatch
  <2>4. ASSUME d \notin D, NEW b \in BatchIds, Held(b), d \in Range(batchDocs[b])
        PROVE  /\ PoolPlace'[d] = PoolPlace[d]
               /\ PoolHolder'[d] = PoolHolder[d]
    BY <1>1, <1>2, <1>5, <2>4 DEF PlacesByBatch
  <2> QED BY <1>1, <2>1, <2>2, <2>3, <2>4 DEF Located
<1>7. PoolPlace' = [d \in Docs |-> IF d \in D THEN "leased" ELSE PoolPlace[d]]
  BY <1>6 DEF PoolPlace
<1>8. PoolHolder' = [d \in Docs |-> IF d \in D THEN w ELSE PoolHolder[d]]
  BY <1>6 DEF PoolHolder
<1> QED BY <1>4, <1>6, <1>7, <1>8 DEF Pool!Lease

(* complete: the batch's documents are settled by their holder, or the report *)
(* is refused or repeated and nothing moves.                                   *)
LEMMA CompleteRefines ==
  ASSUME RegistryInv, RegistryInv', NEW w \in Workers, NEW b \in BatchIds,
         Complete(w, b)
  PROVE  \/ UNCHANGED <<PoolPlace, PoolHolder>>
         \/ \E D \in SUBSET Docs : Pool!Settle(w, D)
<1>1. CASE batchState' = batchState
  BY <1>1, PlacesUntouched DEF Complete
<1>2. CASE batchState' # batchState
  <2>1. /\ batchState[b] = "assigned" /\ batchOwner[b] = w
        /\ batchState' = [batchState EXCEPT ![b] = "done"]
        /\ UNCHANGED <<pending, batchOwner, batchDocs, added>>
    <3>1. Accepts(w, b) /\ batchState' = [batchState EXCEPT ![b] = "done"]
      BY <1>2 DEF Complete
    <3>2. batchState[b] # "done"
      BY <1>2, <3>1 DEF RegistryInv, TypeOK
    <3> QED BY <3>1, <3>2 DEF Complete, Accepts, RegistryInv, TypeOK, BatchStates
  <2>2. PlacesByBatch /\ PlacesByBatch' /\ Located /\ Located'
    BY Places, PlacesNext
  <2>3. PICK D \in SUBSET Docs : D = Range(batchDocs[b])
    <3>1. batchDocs[b] \in Seq(Docs)
      BY DEF RegistryInv, TypeOK
    <3>2. Range(batchDocs[b]) \subseteq Docs
      BY <3>1 DEF Range
    <3> QED BY <3>2
  <2>4. /\ batchState'[b] = "done" /\ Held(b) /\ Held(b)'
        /\ \A c \in BatchIds \ {b} : /\ batchState'[c] = batchState[c]
                                    /\ Held(c)' <=> Held(c)
    BY <2>1 DEF RegistryInv, TypeOK, Held
  <2>5. ASSUME NEW d \in Docs
        PROVE  /\ PoolPlace'[d] = IF d \in D THEN "settled" ELSE PoolPlace[d]
               /\ PoolHolder'[d] = PoolHolder[d]
               /\ d \in D => PoolPlace[d] = "leased" /\ PoolHolder[d] = w
    <3>1. CASE d \in D
      BY <2>1, <2>2, <2>3, <2>4, <3>1 DEF PlacesByBatch
    <3>2. CASE d \notin D /\ (d \notin added \/ d \in Range(pending))
      BY <2>1, <2>2, <3>2 DEF PlacesByBatch
    <3>3. ASSUME d \notin D, NEW c \in BatchIds, Held(c), d \in Range(batchDocs[c])
          PROVE  /\ PoolPlace'[d] = PoolPlace[d]
                 /\ PoolHolder'[d] = PoolHolder[d]
      BY <2>1, <2>2, <2>3, <2>4, <3>3 DEF PlacesByBatch
    <3> QED BY <2>2, <3>1, <3>2, <3>3 DEF Located
  <2>6. PoolPlace' = [d \in Docs |-> IF d \in D THEN "settled" ELSE PoolPlace[d]]
    BY <2>5 DEF PoolPlace
  <2>7. PoolHolder' = PoolHolder
    BY <2>5 DEF PoolHolder
  <2> QED BY <2>5, <2>6, <2>7 DEF Pool!Settle
<1> QED BY <1>1, <1>2

(* What one pass of the reaper does to the documents, read off the deque. *)
LEMMA ReapDeadEffect ==
  ASSUME RegistryInv, ReapDead
  PROVE  /\ ReclaimedDocs \subseteq Docs
         /\ Range(pending') = ReclaimedDocs \cup Range(pending)
         /\ UNCHANGED <<batchOwner, batchDocs, added>>
         /\ \A b \in BatchIds :
              /\ b \in Reclaimed => batchState[b] = "assigned"
                                    /\ batchState'[b] = "reassigned"
              /\ b \notin Reclaimed => batchState'[b] = batchState[b]
<1>1. PICK s \in Requeues : pending' = s \o pending
  BY DEF ReapDead
<1>2. ReclaimedDocs \subseteq Docs
  <2>1. \A b \in BatchIds : batchDocs[b] \in Seq(Docs)
    BY DEF RegistryInv, TypeOK
  <2>2. \A b \in BatchIds : Range(batchDocs[b]) \subseteq Docs
    BY <2>1 DEF Range
  <2> QED BY <2>2 DEF ReclaimedDocs, Reclaimed
<1>3. PICK R \in SUBSET Docs : R = ReclaimedDocs
  BY <1>2
<1>4. s \in Seq(Docs) /\ Range(s) = R
  <2>1. s \in Bijection(1 .. Cardinality(R), R)
    BY <1>1, <1>3 DEF Requeues
  <2> QED BY <2>1, ListingOfDocs
<1>5. pending \in Seq(Docs)
  BY DEF RegistryInv, TypeOK
<1>6. Range(pending') = R \cup Range(pending)
  BY <1>1, <1>4, <1>5, ConcatRange
<1> QED BY <1>2, <1>3, <1>6 DEF ReapDead, CloseReclaimed, Reclaimed

(* reap_dead: leased documents wait again. *)
LEMMA ReapRefines ==
  ASSUME RegistryInv, RegistryInv', ReapDead
  PROVE  \E D \in SUBSET Docs : Pool!TakeBack(D)
<1>1. PlacesByBatch /\ PlacesByBatch' /\ Located /\ Located'
  BY Places, PlacesNext
<1>2. PICK D \in SUBSET Docs : D = ReclaimedDocs
  BY ReapDeadEffect
<1>3. PICK B \in SUBSET BatchIds : B = Reclaimed
  BY DEF Reclaimed
<1>4. /\ Range(pending') = D \cup Range(pending)
      /\ UNCHANGED <<batchOwner, batchDocs, added>>
      /\ \A b \in B : batchState[b] = "assigned" /\ batchState'[b] = "reassigned"
      /\ \A b \in BatchIds \ B : batchState'[b] = batchState[b]
  BY <1>2, <1>3, ReapDeadEffect
<1>5. /\ \A b \in B : Held(b) /\ ~Held(b)'
      /\ \A b \in BatchIds \ B : Held(b)' <=> Held(b)
  BY <1>4 DEF Held
<1>6. D = UNION {Range(batchDocs[b]) : b \in B}
  BY <1>2, <1>3 DEF ReclaimedDocs
<1>7. ASSUME NEW d \in Docs
      PROVE  /\ PoolPlace'[d] = IF d \in D THEN "waiting" ELSE PoolPlace[d]
             /\ PoolHolder'[d] = IF d \in D THEN Nobody ELSE PoolHolder[d]
             /\ d \in D => PoolPlace[d] = "leased"
  <2>1. CASE d \in D
    <3>1. PICK b \in B : d \in Range(batchDocs[b])
      BY <1>6, <2>1
    <3>2. PoolPlace[d] = "leased"
      BY <1>1, <1>4, <1>5, <3>1 DEF PlacesByBatch
    <3> QED BY <1>1, <1>4, <2>1, <3>2 DEF PlacesByBatch
  <2>2. CASE d \notin D /\ (d \notin added \/ d \in Range(pending))
    BY <1>1, <1>4, <2>2 DEF PlacesByBatch
  <2>3. ASSUME d \notin D, NEW b \in BatchIds, Held(b), d \in Range(batchDocs[b])
        PROVE  /\ PoolPlace'[d] = PoolPlace[d]
               /\ PoolHolder'[d] = PoolHolder[d]
    <3>1. b \in BatchIds \ B
      BY <1>6, <2>3
    <3> QED BY <1>1, <1>4, <1>5, <2>3, <3>1 DEF PlacesByBatch
  <2> QED BY <1>1, <2>1, <2>2, <2>3 DEF Located
<1>8. PoolPlace' = [d \in Docs |-> IF d \in D THEN "waiting" ELSE PoolPlace[d]]
  BY <1>7 DEF PoolPlace
<1>9. PoolHolder' = [d \in Docs |-> IF d \in D THEN Nobody ELSE PoolHolder[d]]
  BY <1>7 DEF PoolHolder
<1> QED BY <1>7, <1>8, <1>9 DEF Pool!TakeBack

-----------------------------------------------------------------------------
(* Each step of the registry is a step of the pool, or leaves it as it is. *)
LEMMA StepRefines ==
  RegistryInv /\ RegistryInv' /\ [Next]_registryVars => [Pool!Next]_(Pool!poolVars)
<1> SUFFICES ASSUME RegistryInv, RegistryInv', [Next]_registryVars
             PROVE  Pool!Next \/ UNCHANGED <<PoolPlace, PoolHolder>>
  BY DEF Pool!poolVars
<1>1. ASSUME NEW ds \in Arrivals, AddDocuments(ds) PROVE Pool!Next
  <2>1. Range(ds) \subseteq Docs
    BY <1>1 DEF RegistryInv, TypeOK, AddDocuments
  <2> QED BY <1>1, <2>1, AddRefines DEF Pool!Next
<1>2. ASSUME NEW w \in Workers, NEW max \in Limits, TakeBatch(w, max) PROVE Pool!Next
  BY <1>2, TakeRefines DEF Pool!Next
<1>3. ASSUME NEW w \in Workers, NEW b \in BatchIds, Complete(w, b)
      PROVE  Pool!Next \/ UNCHANGED <<PoolPlace, PoolHolder>>
  BY <1>3, CompleteRefines DEF Pool!Next
<1>4. CASE ReapDead
  BY <1>4, ReapRefines DEF Pool!Next
<1>5. CASE UNCHANGED <<pending, batchState, batchOwner, batchDocs, added>>
  BY <1>5, PlacesUntouched
<1> QED
  BY <1>1, <1>2, <1>3, <1>4, <1>5 DEF Next, Register, RequestWork, RequestNothing,
     Heartbeat, FallSilent, registryVars, batchVars

(* The registry implements the abstract document pool: a document is leased *)
(* to one worker at a time, comes back or is settled by that worker, and is *)
(* settled once and for all.                                                *)
THEOREM RegistryImplementsPool == Spec => ImplementsPool
<1>1. Init => Pool!Init
  BY InitRefines
<1>2. RegistryInv /\ RegistryInv' /\ [Next]_registryVars => [Pool!Next]_(Pool!poolVars)
  BY StepRefines
<1> QED
  BY <1>1, <1>2, RegistryInvariant, PTL DEF Spec, ImplementsPool, Pool!Spec
=============================================================================
