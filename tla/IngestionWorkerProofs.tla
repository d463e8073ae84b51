-------------------------- MODULE IngestionWorkerProofs --------------------------
(***************************************************************************)
(* What IngestionWorker promises for any names, likeness, documents, jobs  *)
(* and mishaps: a name becomes a second node only where NamesAreDistinct   *)
(* says so, in a process that lives on and in one that forks.              *)
(***************************************************************************)
EXTENDS IngestionWorker, TLAPS

TypeOK ==
  /\ ResolverTypeOK /\ B!BackupTypeOK
  /\ job \in Jobs \cup {None} /\ queue \subseteq Jobs
  /\ at \in [Docs -> Nat \ {0}]
  /\ failed \subseteq Docs /\ flushed \in BOOLEAN

(* What the process and Redis know are nodes, and what the LLM compares with. *)
KnownAreNodes ==
  /\ registry \subseteq nodes /\ stored \subseteq nodes
  /\ \A d \in Docs : asking[d] # None => asking[d] \in nodes

(* The LLM is asked about an entity of a document under way. *)
AskingIsUnderway ==
  \A d \in Docs : asking[d] # None =>
    Underway(d) /\ Mention(d) # Embed /\ ~Mention(d).author

FlushedIsOver == job # None /\ flushed => AllOver

(* A job's process knows every node but the lost ones ... *)
ProcessKnows == job # None => nodes \subseteq registry \cup lost

(* ... and Redis does between jobs. *)
RedisKnows == job = None \/ flushed => nodes \subseteq stored \cup lost

IInv ==
  /\ TypeOK /\ KnownAreNodes /\ AskingIsUnderway /\ FlushedIsOver
  /\ ProcessKnows /\ RedisKnows /\ NamesAreDistinct

USE ResolverAssumption, IngestionWorkerAssumption

-----------------------------------------------------------------------------
LEMMA InitHolds == Init => IInv
  <1> SUFFICES ASSUME Init PROVE IInv
    OBVIOUS
  <1>1. TypeOK
    <2>1. ResolverTypeOK
      BY DEF Init, ResolverInit, ResolverTypeOK
    <2>2. B!BackupTypeOK
      BY DEF Init, B!BackupInit, B!BackupTypeOK
    <2>3. at \in [Docs -> Nat \ {0}]
      <3>1. 1 \in Nat \ {0}
        OBVIOUS
      <3>2. QED BY <3>1 DEF Init
    <2>4. QED BY <2>1, <2>2, <2>3 DEF Init, TypeOK
  <1>2. QED
    BY <1>1 DEF Init, ResolverInit, IInv, KnownAreNodes, AskingIsUnderway, FlushedIsOver,
                ProcessKnows, RedisKnows, NamesAreDistinct

(* What a document under way mentions. *)
LEMMA MentionFacts ==
  ASSUME TypeOK, NEW d \in Docs, ~Over(d)
  PROVE  /\ Mention(d) \in [name : Names, author : BOOLEAN] \cup {Embed}
         /\ at[d] \in Nat /\ Len(Mentions[d]) \in Nat
  <1>1. Mentions[d] \in Seq([name : Names, author : BOOLEAN] \cup {Embed})
    OBVIOUS
  <1>2. at[d] \in Nat \ {0} /\ at[d] <= Len(Mentions[d])
    BY <1>1 DEF TypeOK, Over
  <1>3. QED BY <1>1, <1>2 DEF Mention

(* The steps of the backup leave names and jobs alone. *)
LEMMA BackupSteps ==
  ASSUME IInv, B!BackupTypeOK', UNCHANGED <<hostVars, resolverVars>>
  PROVE  IInv'
  BY DEF IInv, TypeOK, hostVars, resolverVars, ResolverTypeOK, KnownAreNodes, AskingIsUnderway,
         Underway, Over, Mention, FlushedIsOver, AllOver, ProcessKnows, RedisKnows,
         NamesAreDistinct

(* A name that is registered is a node of its own if no name the process    *)
(* knows is as good as the same, or it is known to have raced.              *)
LEMMA RegisterKeepsDistinct ==
  ASSUME IInv, job # None, NEW n \in Names, Register(n), lost' = lost, raced \subseteq raced',
         AsGoodAs(n, registry) = {} \/ n \in raced'
  PROVE  NamesAreDistinct' /\ (nodes \subseteq registry \cup lost)'
  <1>1. nodes' = nodes \cup {n} /\ registry' = registry \cup {n} /\ nodes \subseteq registry \cup lost
    BY DEF IInv, ProcessKnows, Register
  <1>2. ASSUME NEW w \in nodes, w # n, Level[<<n, w>>] = 3 PROVE {n, w} \cap (raced' \cup lost) # {}
    BY <1>1, <1>2 DEF AsGoodAs, IInv, TypeOK, ResolverTypeOK
  <1>3. ASSUME NEW v \in nodes', NEW w \in nodes', v # w, Level[<<v, w>>] = 3
        PROVE  {v, w} \cap (raced' \cup lost) # {}
    <2>1. v \in Names /\ w \in Names /\ Level[<<w, v>>] = 3
      BY <1>1, <1>3 DEF IInv, TypeOK, ResolverTypeOK
    <2>2. CASE v = n
      BY <1>1, <1>2, <1>3, <2>2
    <2>3. CASE w = n
      BY <1>1, <1>2, <1>3, <2>1, <2>3
    <2>4. CASE v \in nodes /\ w \in nodes
      BY <1>3, <2>4 DEF IInv, NamesAreDistinct
    <2>5. QED BY <1>1, <2>2, <2>3, <2>4
  <1>4. QED BY <1>1, <1>3 DEF NamesAreDistinct

LEMMA Furthest ==
  ASSUME IInv, NEW n \in Names, NEW w \in Closest(n), Level[<<n, w>>] < 3
  PROVE  AsGoodAs(n, registry) = {}
  <1>1. \A v \in registry : Level[<<n, v>>] \in 0 .. 3 /\ Level[<<n, w>>] >= Level[<<n, v>>]
    BY DEF Closest, IInv, TypeOK, ResolverTypeOK
  <1>2. Level[<<n, w>>] \in 0 .. 3
    BY <1>1 DEF Closest
  <1>3. QED BY <1>1, <1>2 DEF AsGoodAs

(* The steps of a document take others nowhere. *)
LEMMA OthersAsk ==
  ASSUME IInv, NEW d \in Docs, UNCHANGED job,
         \A c \in Docs \ {d} : at'[c] = at[c] /\ asking'[c] = asking[c],
         nodes \subseteq nodes',
         asking'[d] # None => asking'[d] \in nodes /\ (Underway(d) /\ Mention(d) # Embed /\ ~Mention(d).author)'
  PROVE  AskingIsUnderway' /\ (\A c \in Docs : asking[c] # None => asking[c] \in nodes)'
  BY DEF IInv, KnownAreNodes, AskingIsUnderway, Underway, Over, Mention

LEMMA UnderwayFacts ==
  ASSUME IInv, NEW d \in Docs, Underway(d)
  PROVE  /\ ~flushed /\ job # None
         /\ Mention(d) \in [name : Names, author : BOOLEAN] \cup {Embed}
         /\ at[d] \in Nat /\ Len(Mentions[d]) \in Nat
  <1>1. job # None /\ ~Over(d) /\ d \in DocsOf[job]
    BY DEF Underway
  <1>2. ~flushed
    BY <1>1 DEF IInv, FlushedIsOver, AllOver, TypeOK
  <1>3. QED BY <1>1, <1>2, MentionFacts DEF IInv

(* What resolving a name does. *)
Resolves(n) ==
  \/ Register(n) /\ (AsGoodAs(n, registry) = {} \/ n \in raced')
  \/ \E w \in nodes : Merge(w)
  \/ UNCHANGED <<registry, nodes>>

LEMMA ResolvesKeeps ==
  ASSUME IInv, job # None, ~flushed, NEW n \in Names, Resolves(n),
         UNCHANGED <<stored, lost, job, flushed>>, raced \subseteq raced', raced' \subseteq raced \cup {n}
  PROVE  /\ NamesAreDistinct' /\ ProcessKnows' /\ RedisKnows' /\ FlushedIsOver'
         /\ nodes \subseteq nodes'
         /\ (registry \subseteq nodes /\ stored \subseteq nodes)'
         /\ (registry \subseteq Names /\ stored \subseteq Names /\ nodes \subseteq Names)'
         /\ (raced \subseteq Names /\ lost \subseteq Names)'
  <1> USE DEF IInv, TypeOK, ResolverTypeOK, KnownAreNodes
  <1>1. RedisKnows' /\ FlushedIsOver'
    BY DEF RedisKnows, FlushedIsOver
  <1>2. (raced \subseteq Names /\ lost \subseteq Names)'
    OBVIOUS
  <1>3. CASE Register(n) /\ (AsGoodAs(n, registry) = {} \/ n \in raced')
    <2>1. NamesAreDistinct' /\ (nodes \subseteq registry \cup lost)'
      BY <1>3, RegisterKeepsDistinct
    <2>2. QED BY <1>1, <1>2, <1>3, <2>1 DEF Register, ProcessKnows
  <1>4. ASSUME UNCHANGED <<registry, nodes>> PROVE NamesAreDistinct' /\ ProcessKnows'
    <2>1. ProcessKnows'
      BY <1>4 DEF ProcessKnows
    <2>2. SUFFICES ASSUME NEW v \in nodes', NEW w \in nodes', v # w, Level[<<v, w>>] = 3
                   PROVE  {v, w} \cap (raced' \cup lost') # {}
      BY <2>1 DEF NamesAreDistinct
    <2>3. {v, w} \cap (raced \cup lost) # {}
      BY <1>4, <2>2 DEF NamesAreDistinct
    <2>4. QED BY <2>3
  <1>5. ASSUME NEW w \in nodes, Merge(w) PROVE UNCHANGED <<registry, nodes>>
    BY <1>5 DEF Merge
  <1>6. QED BY <1>1, <1>2, <1>3, <1>4, <1>5 DEF Resolves

-----------------------------------------------------------------------------
LEMMA BackupKeeps ==
  ASSUME B!BackupTypeOK, UNCHANGED backupVars
  PROVE  B!BackupTypeOK'
  BY DEF B!BackupTypeOK, backupVars

LEMMA BeginKeeps == ASSUME IInv, NEW j \in Jobs, Begin(j) PROVE IInv'
  <1> USE DEF IInv, TypeOK, Begin, Load
  <1>1. B!BackupTypeOK'
    BY BackupKeeps
  <1>2. TypeOK'
    <2>1. ResolverTypeOK'
      BY DEF ResolverTypeOK
    <2>2. at' \in [Docs -> Nat \ {0}]
      <3>1. 1 \in Nat \ {0}
        OBVIOUS
      <3>2. QED BY <3>1
    <2>3. QED BY <1>1, <2>1, <2>2
  <1>3. \A d \in Docs : asking[d] = None
    BY DEF AskingIsUnderway, Underway
  <1>4. KnownAreNodes' /\ AskingIsUnderway' /\ NamesAreDistinct'
    BY <1>3 DEF KnownAreNodes, AskingIsUnderway, NamesAreDistinct
  <1>5. FlushedIsOver' /\ ProcessKnows' /\ RedisKnows'
    BY DEF FlushedIsOver, ProcessKnows, RedisKnows
  <1>6. QED BY <1>2, <1>4, <1>5

LEMMA EmbedKeeps == ASSUME IInv, NEW d \in Docs, EmbedDoc(d) PROVE IInv'
  <1> USE DEF IInv, TypeOK, EmbedDoc, docFrame, resolverVars, NextMention
  <1>1. ~flushed /\ job # None /\ at[d] \in Nat
    BY UnderwayFacts
  <1>2. B!BackupTypeOK'
    BY DEF B!BackupTypeOK, B!Write
  <1>3. TypeOK'
    BY <1>1, <1>2 DEF ResolverTypeOK
  <1>4. asking[d] = None
    BY DEF AskingIsUnderway
  <1>5. AskingIsUnderway' /\ KnownAreNodes'
    BY <1>4, OthersAsk DEF KnownAreNodes
  <1>6. FlushedIsOver' /\ ProcessKnows' /\ RedisKnows' /\ NamesAreDistinct'
    BY <1>1 DEF FlushedIsOver, ProcessKnows, RedisKnows, NamesAreDistinct
  <1>7. QED BY <1>3, <1>5, <1>6

LEMMA AuthorKeeps == ASSUME IInv, NEW d \in Docs, AuthorNode(d) PROVE IInv'
  <1> USE DEF IInv, TypeOK, AuthorNode, docFrame, NextMention
  <1> DEFINE n == Mention(d).name
  <1>1. ~flushed /\ job # None /\ at[d] \in Nat /\ n \in Names
    BY UnderwayFacts
  <1>2. Resolves(n) /\ UNCHANGED <<stored, asking, raced, lost>>
    <2>1. ASSUME registry = {} PROVE AsGoodAs(n, registry) = {}
      BY <2>1 DEF AsGoodAs
    <2>2. ASSUME NEW w \in Closest(n), ~(Level[<<n, w>>] >= 2) PROVE AsGoodAs(n, registry) = {}
      <3>1. w \in Names
        BY DEF Closest, ResolverTypeOK
      <3>2. Level[<<n, w>>] \in 0 .. 3
        BY <1>1, <3>1
      <3>3. Level[<<n, w>>] < 3
        BY <2>2, <3>2
      <3>4. QED BY <1>1, <3>3, Furthest
    <2>3. Closest(n) \subseteq nodes
      BY DEF Closest, KnownAreNodes
    <2>4. QED BY <2>1, <2>2, <2>3 DEF Resolve, Resolves
  <1> HIDE DEF n
  <1>3. /\ NamesAreDistinct' /\ ProcessKnows' /\ RedisKnows' /\ FlushedIsOver'
        /\ nodes \subseteq nodes'
        /\ (registry \subseteq nodes /\ stored \subseteq nodes)'
        /\ (registry \subseteq Names /\ stored \subseteq Names /\ nodes \subseteq Names)'
        /\ (raced \subseteq Names /\ lost \subseteq Names)'
    BY <1>1, <1>2, ResolvesKeeps
  <1>4. asking[d] = None
    BY DEF AskingIsUnderway
  <1>5. AskingIsUnderway' /\ KnownAreNodes'
    BY <1>2, <1>3, <1>4, OthersAsk DEF KnownAreNodes
  <1>6. TypeOK'
    BY <1>1, <1>2, <1>3, BackupKeeps DEF ResolverTypeOK
  <1>7. QED BY <1>3, <1>5, <1>6

LEMMA EntityKeeps == ASSUME IInv, NEW d \in Docs, EntityNode(d) PROVE IInv'
  <1> USE DEF IInv, TypeOK, EntityNode, docFrame, NextMention
  <1> DEFINE n == Mention(d).name
  <1>1. ~flushed /\ job # None /\ at[d] \in Nat /\ n \in Names
    BY UnderwayFacts
  <1>2. UNCHANGED <<stored, raced, lost>> /\ asking[d] = None
    BY DEF ResolveAsync
  <1>3. \A w \in Closest(n) : w \in nodes /\ w \in Names /\ Level[<<n, w>>] \in 0 .. 3
    BY <1>1 DEF Closest, KnownAreNodes, ResolverTypeOK
  <1>4. \/ Resolves(n) /\ UNCHANGED asking
        \/ \E w \in Closest(n) :
             asking' = [asking EXCEPT ![d] = w] /\ UNCHANGED <<registry, nodes>>
    <2>1. ASSUME registry = {} PROVE AsGoodAs(n, registry) = {}
      BY <2>1 DEF AsGoodAs
    <2>2. ASSUME NEW w \in Closest(n), Band(n, w) = "new" PROVE AsGoodAs(n, registry) = {}
      <3>1. Level[<<n, w>>] < 3
        BY <1>3, <2>2 DEF Band
      <3>2. QED BY <1>1, <3>1, Furthest
    <2>3. QED BY <1>3, <2>1, <2>2 DEF ResolveAsync, Resolves
  <1> HIDE DEF n
  <1>5. Resolves(n)
    BY <1>4 DEF Resolves
  <1>6. /\ NamesAreDistinct' /\ ProcessKnows' /\ RedisKnows' /\ FlushedIsOver'
        /\ nodes \subseteq nodes'
        /\ (registry \subseteq nodes /\ stored \subseteq nodes)'
        /\ (registry \subseteq Names /\ stored \subseteq Names /\ nodes \subseteq Names)'
        /\ (raced \subseteq Names /\ lost \subseteq Names)'
    BY <1>1, <1>2, <1>5, ResolvesKeeps
  <1>7. at' \in {at, [at EXCEPT ![d] = @ + 1]}
    OBVIOUS
  <1>8. asking' = asking \/ \E w \in Closest(n) : asking' = [asking EXCEPT ![d] = w]
    BY <1>4
  <1>9. \A c \in Docs \ {d} : at'[c] = at[c] /\ asking'[c] = asking[c]
    BY <1>7, <1>8 DEF ResolverTypeOK
  <1>10. asking'[d] # None => asking'[d] \in nodes /\ at' = at
    BY <1>2, <1>3, <1>4 DEF ResolverTypeOK
  <1>11. AskingIsUnderway' /\ KnownAreNodes'
    <2>1. asking'[d] # None => (Underway(d) /\ Mention(d) # Embed /\ ~Mention(d).author)'
      BY <1>10 DEF Underway, Over, Mention
    <2>2. QED BY <1>6, <1>9, <1>10, <2>1, OthersAsk DEF KnownAreNodes
  <1>12. asking' \in [Docs -> Names \cup {None}] /\ at' \in [Docs -> Nat \ {0}]
    <2>1. at' \in [Docs -> Nat \ {0}]
      BY <1>1, <1>7
    <2>2. ASSUME NEW w \in Names PROVE [asking EXCEPT ![d] = w] \in [Docs -> Names \cup {None}]
      BY DEF ResolverTypeOK
    <2>3. asking' \in [Docs -> Names \cup {None}]
      BY <1>3, <1>8, <2>2 DEF ResolverTypeOK
    <2>4. QED BY <2>1, <2>3
  <1>13. TypeOK'
    BY <1>6, <1>12, BackupKeeps DEF ResolverTypeOK
  <1>14. QED BY <1>6, <1>11, <1>13

LEMMA DecidedKeeps == ASSUME IInv, NEW d \in Docs, EntityDecided(d) PROVE IInv'
  <1> USE DEF IInv, TypeOK, EntityDecided, docFrame, NextMention
  <1> DEFINE n == Mention(d).name
  <1>1. Mention(d) # Embed /\ asking[d] \in nodes
    BY DEF AskingIsUnderway, KnownAreNodes
  <1>2. ~flushed /\ job # None /\ at[d] \in Nat /\ n \in Names
    BY <1>1, UnderwayFacts
  <1>3. /\ Resolves(n) /\ asking' = [asking EXCEPT ![d] = None]
        /\ UNCHANGED <<stored, lost>>
        /\ raced \subseteq raced' /\ raced' \subseteq raced \cup {n}
    BY <1>1 DEF Adjudicated, Resolves
  <1> HIDE DEF n
  <1>4. /\ NamesAreDistinct' /\ ProcessKnows' /\ RedisKnows' /\ FlushedIsOver'
        /\ nodes \subseteq nodes'
        /\ (registry \subseteq nodes /\ stored \subseteq nodes)'
        /\ (registry \subseteq Names /\ stored \subseteq Names /\ nodes \subseteq Names)'
        /\ (raced \subseteq Names /\ lost \subseteq Names)'
    BY <1>2, <1>3, ResolvesKeeps
  <1>5. AskingIsUnderway' /\ KnownAreNodes'
    <2>1. asking'[d] = None /\ \A c \in Docs \ {d} : at'[c] = at[c] /\ asking'[c] = asking[c]
      BY <1>3 DEF ResolverTypeOK
    <2>2. QED BY <1>4, <2>1, OthersAsk DEF KnownAreNodes
  <1>6. asking' \in [Docs -> Names \cup {None}] /\ at' \in [Docs -> Nat \ {0}]
    BY <1>2, <1>3 DEF ResolverTypeOK
  <1>7. TypeOK'
    BY <1>4, <1>6, BackupKeeps DEF ResolverTypeOK
  <1>8. QED BY <1>4, <1>5, <1>7

LEMMA FailKeeps == ASSUME IInv, NEW d \in Docs, DocFails(d) PROVE IInv'
  <1> USE DEF IInv, TypeOK, DocFails
  <1>1. ~flushed /\ job # None /\ Len(Mentions[d]) \in Nat
    BY UnderwayFacts
  <1>2. asking'[d] = None /\ \A c \in Docs \ {d} : at'[c] = at[c] /\ asking'[c] = asking[c]
    BY DEF ResolverTypeOK
  <1>3. AskingIsUnderway' /\ KnownAreNodes'
    BY <1>2, OthersAsk DEF KnownAreNodes
  <1>4. FlushedIsOver' /\ ProcessKnows' /\ RedisKnows' /\ NamesAreDistinct'
    BY <1>1 DEF FlushedIsOver, ProcessKnows, RedisKnows, NamesAreDistinct
  <1>5. at' \in [Docs -> Nat \ {0}] /\ asking' \in [Docs -> Names \cup {None}]
    BY <1>1 DEF ResolverTypeOK
  <1>6. TypeOK'
    BY <1>5, BackupKeeps DEF ResolverTypeOK
  <1>7. QED BY <1>3, <1>4, <1>6

LEMMA DistinctStays ==
  ASSUME NamesAreDistinct, nodes' = nodes, raced' = raced, lost \subseteq lost'
  PROVE  NamesAreDistinct'
  BY DEF NamesAreDistinct

LEMMA FlushKeeps == ASSUME IInv, FlushRegistry \/ FlushFails PROVE IInv'
  <1> USE DEF IInv, TypeOK, FlushRegistry, FlushFails, Flush
  <1>1. TypeOK'
    BY BackupKeeps DEF ResolverTypeOK
  <1>2. KnownAreNodes' /\ AskingIsUnderway' /\ FlushedIsOver'
    BY DEF KnownAreNodes, AskingIsUnderway, Underway, Over, Mention, FlushedIsOver, AllOver
  <1>3. job # None /\ nodes \subseteq registry \cup lost
    BY DEF AllOver, ProcessKnows
  <1>4. ProcessKnows' /\ RedisKnows'
    BY <1>3 DEF ProcessKnows, RedisKnows
  <1>5. nodes' = nodes /\ raced' = raced /\ lost \subseteq lost'
    OBVIOUS
  <1>6. NamesAreDistinct'
    BY <1>5, DistinctStays
  <1>7. QED BY <1>1, <1>2, <1>4, <1>6

LEMMA EndKeeps == ASSUME IInv, End PROVE IInv'
  <1> USE DEF IInv, TypeOK, End, resolverVars
  <1>1. job # None /\ DocsOf[job] \subseteq Docs
    BY DEF AllOver
  <1>2. B!BackupTypeOK'
    <2>1. CASE UNCHANGED backupVars
      BY <2>1, BackupKeeps
    <2>2. CASE B!Trigger(DocsOf[job] \ failed)
      BY <1>1, <2>2 DEF B!Trigger, B!BackupTypeOK, B!Backups
    <2>3. QED BY <2>1, <2>2
  <1>3. TypeOK'
    BY <1>2 DEF ResolverTypeOK
  <1>4. \A d \in Docs : asking[d] = None
    BY DEF AskingIsUnderway, Underway, AllOver
  <1>5. KnownAreNodes' /\ AskingIsUnderway' /\ FlushedIsOver' /\ ProcessKnows' /\ RedisKnows'
    BY <1>4 DEF KnownAreNodes, AskingIsUnderway, FlushedIsOver, ProcessKnows, RedisKnows
  <1>6. NamesAreDistinct'
    BY DEF NamesAreDistinct
  <1>7. QED BY <1>3, <1>5, <1>6

(* A process that dies takes with it what Redis does not know. *)
LEMMA ForgetKeeps ==
  ASSUME IInv, NEW kept \in SUBSET stored, Forget(kept), job' = None, flushed' = FALSE,
         queue' \subseteq Jobs, UNCHANGED <<at, failed>>, B!BackupTypeOK'
  PROVE  IInv'
  <1> USE DEF IInv, TypeOK, Forget
  <1>1. TypeOK'
    BY DEF ResolverTypeOK
  <1>2. KnownAreNodes' /\ AskingIsUnderway'
    BY DEF KnownAreNodes, AskingIsUnderway
  <1>3. FlushedIsOver' /\ ProcessKnows' /\ RedisKnows'
    BY DEF FlushedIsOver, ProcessKnows, RedisKnows
  <1>4. nodes' = nodes /\ raced' = raced /\ lost \subseteq lost'
    OBVIOUS
  <1>5. NamesAreDistinct'
    <2> HIDE DEF TypeOK, Forget
    <2>1. SUFFICES ASSUME NEW v \in nodes', NEW w \in nodes', v # w, Level[<<v, w>>] = 3
                   PROVE  {v, w} \cap (raced' \cup lost') # {}
      BY DEF NamesAreDistinct
    <2>2. {v, w} \cap (raced \cup lost) # {}
      BY <1>4, <2>1 DEF NamesAreDistinct
    <2>3. QED BY <1>4, <2>2
  <1>6. QED BY <1>1, <1>2, <1>3, <1>5

LEMMA ProcessEndTypes ==
  ASSUME B!BackupTypeOK, NEW killed \in BOOLEAN, B!ProcessEnds(killed)
  PROVE  B!BackupTypeOK'
  BY DEF B!BackupTypeOK, B!ProcessEnds, B!Settle, B!Backups

LEMMA CrashKeeps == ASSUME IInv, Crash PROVE IInv'
  <1>1. B!BackupTypeOK'
    BY ProcessEndTypes DEF Crash, IInv, TypeOK
  <1>2. queue' \subseteq Jobs
    BY DEF Crash, IInv, TypeOK
  <1>3. QED BY <1>1, <1>2, ForgetKeeps DEF Crash

LEMMA RestartKeeps == ASSUME IInv, Restart PROVE IInv'
  <1>1. B!BackupTypeOK'
    BY DEF Restart, IInv, TypeOK, B!BackupTypeOK, B!Restored, B!Settle, B!Backups
  <1>2. QED BY <1>1, ForgetKeeps DEF Restart

LEMMA HorseKeeps == ASSUME IInv, HorseEnds PROVE IInv'
  <1> USE DEF IInv, TypeOK, HorseEnds, resolverVars
  <1>1. B!BackupTypeOK'
    BY ProcessEndTypes
  <1>2. TypeOK'
    BY <1>1 DEF ResolverTypeOK
  <1>3. KnownAreNodes' /\ AskingIsUnderway' /\ NamesAreDistinct'
    BY DEF KnownAreNodes, AskingIsUnderway, Underway, Over, Mention, NamesAreDistinct
  <1>4. FlushedIsOver' /\ ProcessKnows' /\ RedisKnows'
    BY DEF FlushedIsOver, ProcessKnows, RedisKnows
  <1>5. QED BY <1>2, <1>3, <1>4

LEMMA RequeueKeeps == ASSUME IInv, NEW j \in Jobs, Requeue(j) PROVE IInv'
  <1> USE DEF IInv, TypeOK, Requeue, resolverVars
  <1>1. TypeOK'
    BY BackupKeeps DEF ResolverTypeOK
  <1>2. KnownAreNodes' /\ AskingIsUnderway' /\ NamesAreDistinct'
    BY DEF KnownAreNodes, AskingIsUnderway, Underway, Over, Mention, NamesAreDistinct
  <1>3. FlushedIsOver' /\ ProcessKnows' /\ RedisKnows'
    BY DEF FlushedIsOver, AllOver, Over, ProcessKnows, RedisKnows
  <1>4. QED BY <1>1, <1>2, <1>3

LEMMA DailyPacks == ASSUME IInv, Daily PROVE IInv'
  <1> USE DEF IInv, TypeOK, Daily, resolverVars
  <1>1. B!BackupTypeOK'
    BY DEF B!BackupTypeOK, B!Pack, B!Backups
  <1>2. TypeOK'
    BY <1>1 DEF ResolverTypeOK
  <1>3. KnownAreNodes' /\ AskingIsUnderway' /\ NamesAreDistinct'
    BY DEF KnownAreNodes, AskingIsUnderway, Underway, Over, Mention, NamesAreDistinct
  <1>4. FlushedIsOver' /\ ProcessKnows' /\ RedisKnows'
    BY DEF FlushedIsOver, AllOver, Over, ProcessKnows, RedisKnows
  <1>5. QED BY <1>2, <1>3, <1>4

LEMMA BackupGoesOn == ASSUME IInv, TimerStep \/ DailyStep PROVE IInv'
  <1>1. UNCHANGED <<hostVars, resolverVars>>
    BY DEF TimerStep, DailyStep, BackupFrame
  <1>2. B!BackupTypeOK
    BY DEF IInv, TypeOK
  <1>3. ASSUME B!Fire PROVE B!BackupTypeOK'
    BY <1>2, <1>3 DEF B!BackupTypeOK, B!Fire, B!Pack, B!Backups
  <1>4. ASSUME NEW b \in B!Backups, B!Upload(b) PROVE B!BackupTypeOK'
    BY <1>2, <1>4 DEF B!BackupTypeOK, B!Upload, B!TimerOff, B!Settle
  <1>5. ASSUME NEW b \in B!Backups, B!UploadFails(b) PROVE B!BackupTypeOK'
    BY <1>2, <1>5 DEF B!BackupTypeOK, B!UploadFails, B!TimerOff, B!Settle
  <1>6. B!BackupTypeOK'
    BY <1>3, <1>4, <1>5 DEF TimerStep, DailyStep, B!Backups
  <1>7. QED BY <1>1, <1>6, BackupSteps

LEMMA NextKeeps == ASSUME IInv, [Next \/ HorseEnds]_vars PROVE IInv'
  <1>1. CASE JobStep
    BY <1>1, BeginKeeps, EmbedKeeps, AuthorKeeps, EntityKeeps, DecidedKeeps, FailKeeps,
       FlushKeeps, EndKeeps DEF JobStep
  <1>2. CASE UNCHANGED vars
    <2>1. B!BackupTypeOK'
      BY <1>2, BackupKeeps DEF vars, IInv, TypeOK
    <2>2. QED BY <1>2, <2>1, BackupSteps DEF vars
  <1>3. QED
    BY <1>1, <1>2, RequeueKeeps, CrashKeeps, RestartKeeps, DailyPacks, BackupGoesOn, HorseKeeps
       DEF Next

-----------------------------------------------------------------------------
(* The variables of the resolver, the backup and the jobs keep their types. *)
THEOREM Typing == Spec => []TypeOK
  <1>1. IInv /\ [Next]_vars => IInv'
    BY NextKeeps
  <1>2. IInv => TypeOK
    BY DEF IInv
  <1>3. QED BY <1>1, <1>2, InitHolds, PTL DEF Spec

(* For any names, however alike, and any documents, jobs, crashes and        *)
(* restarts: two nodes are as good as the same only if one was registered    *)
(* after an awaited adjudication (resolve_async) or lost before its flush.   *)
THEOREM DistinctNames == Spec => []NamesAreDistinct
  <1>1. IInv /\ [Next]_vars => IInv'
    BY NextKeeps
  <1>2. IInv => NamesAreDistinct
    BY DEF IInv
  <1>3. QED BY <1>1, <1>2, InitHolds, PTL DEF Spec

(* ... also where each job has a process of its own ("rq worker"). *)
THEOREM DistinctNamesForking == ForkingSpec => []NamesAreDistinct
  <1>1. IInv /\ [Next \/ HorseEnds]_vars => IInv'
    BY NextKeeps
  <1>2. IInv => NamesAreDistinct
    BY DEF IInv
  <1>3. QED BY <1>1, <1>2, InitHolds, PTL DEF ForkingSpec
=============================================================================
