-------------------------- MODULE KnowledgeGraphProofs --------------------------
(***************************************************************************)
(* What KnowledgeGraph promises for any documents, whatever they write,    *)
(* and any sources: edges keep their endpoints, a document that is written *)
(* stays written, a deletion spares what other sources assert, and no      *)
(* contradiction goes unnoticed.  And what ShardRouter promises of any     *)
(* shards, wherever the nodes live: together they are one such graph, and  *)
(* what is read from them is what it would show.                           *)
(***************************************************************************)
EXTENDS KnowledgeGraph, ShardRouter, FiniteSetTheorems, WellFoundedInduction, TLAPS

USE GraphWriterAssumption

-----------------------------------------------------------------------------
(* What the statements of GraphStore do to `has' and `by'. *)

LEMMA EmptyFits == WellFormed(Empty)
  BY DEF WellFormed, Databases, Empty

LEMMA Rebuilt ==
  ASSUME NEW has \in SUBSET Items, NEW stubs \in SUBSET Nodes, NEW by \in SUBSET (Items \X Sources),
         NEW doc \in SUBSET (Edges \X Docs), NEW flagged \in SUBSET Edges,
         stubs \subseteq has, flagged \subseteq has,
         \A p \in by : p[1] \in has, \A p \in doc : p[1] \in has
  PROVE  WellFormed([has |-> has, stubs |-> stubs, by |-> by, doc |-> doc, flagged |-> flagged])
  BY DEF WellFormed, Databases

LEMMA Parts ==
  ASSUME NEW g, WellFormed(g)
  PROVE  /\ g = [has |-> g.has, stubs |-> g.stubs, by |-> g.by, doc |-> g.doc, flagged |-> g.flagged]
         /\ g.has \in SUBSET Items /\ g.stubs \in SUBSET Nodes
         /\ g.by \in SUBSET (Items \X Sources) /\ g.doc \in SUBSET (Edges \X Docs)
         /\ g.flagged \in SUBSET Edges /\ g.stubs \subseteq g.has /\ g.flagged \subseteq g.has
         /\ \A p \in g.by : p[1] \in g.has
         /\ \A p \in g.doc : p[1] \in g.has
  BY DEF WellFormed, Databases

LEMMA MergeNodeFits ==
  ASSUME NEW g, WellFormed(g), NEW n \in Nodes, NEW s \in Sources
  PROVE  /\ WellFormed(MergeNode(g, n, s))
         /\ MergeNode(g, n, s).has = g.has \cup {n}
         /\ MergeNode(g, n, s).by = g.by \cup {<<n, s>>}
  <1> DEFINE has == g.has \cup {n}
             stubs == g.stubs \ {n}
             by == g.by \cup {<<n, s>>}
  <1>1. MergeNode(g, n, s) = [has |-> has, stubs |-> stubs, by |-> by, doc |-> g.doc, flagged |-> g.flagged]
    <2>1. g = [has |-> g.has, stubs |-> g.stubs, by |-> g.by, doc |-> g.doc, flagged |-> g.flagged]
      BY Parts
    <2>2. MergeNode(g, n, s) = [g EXCEPT !.has = has, !.stubs = stubs, !.by = by]
      BY DEF MergeNode
    <2> HIDE DEF has, stubs, by
    <2>3. QED BY ONLY <2>1, <2>2
  <1>2. has \in SUBSET Items /\ stubs \in SUBSET Nodes /\ stubs \subseteq has /\ g.flagged \subseteq has
    BY Parts DEF Items
  <1>3. by \in SUBSET (Items \X Sources) /\ \A p \in by : p[1] \in has
    BY Parts DEF Items
  <1>4. g.doc \in SUBSET (Edges \X Docs) /\ g.flagged \in SUBSET Edges /\ \A p \in g.doc : p[1] \in has
    BY Parts
  <1> HIDE DEF has, stubs, by
  <1>5. WellFormed([has |-> has, stubs |-> stubs, by |-> by, doc |-> g.doc, flagged |-> g.flagged])
    BY <1>2, <1>3, <1>4, Rebuilt
  <1>6. QED BY <1>1, <1>5 DEF has, by

LEMMA MergeEdgeFits ==
  ASSUME NEW g, WellFormed(g), NEW e \in Edges, NEW s \in Sources, NEW d \in Docs,
         Ends(e) \subseteq g.has
  PROVE  /\ WellFormed(MergeEdge(g, e, s, d))
         /\ MergeEdge(g, e, s, d).has = g.has \cup {e}
         /\ MergeEdge(g, e, s, d).by = g.by \cup {<<e, s>>}
  <1> DEFINE has == g.has \cup {e}
             by == g.by \cup {<<e, s>>}
             doc == IF e \in g.has THEN g.doc ELSE g.doc \cup {<<e, d>>}
  <1>1. MergeEdge(g, e, s, d) = [has |-> has, stubs |-> g.stubs, by |-> by, doc |-> doc, flagged |-> g.flagged]
    <2>1. g = [has |-> g.has, stubs |-> g.stubs, by |-> g.by, doc |-> g.doc, flagged |-> g.flagged]
      BY Parts
    <2>2. MergeEdge(g, e, s, d) = [g EXCEPT !.has = has, !.by = by, !.doc = doc]
      BY DEF MergeEdge
    <2> HIDE DEF has, by, doc
    <2>3. QED BY ONLY <2>1, <2>2
  <1>2. has \in SUBSET Items /\ g.stubs \in SUBSET Nodes /\ g.stubs \subseteq has /\ g.flagged \subseteq has
    BY Parts DEF Items
  <1>3. by \in SUBSET (Items \X Sources) /\ \A p \in by : p[1] \in has
    BY Parts DEF Items
  <1>4. doc \in SUBSET (Edges \X Docs) /\ g.flagged \in SUBSET Edges /\ \A p \in doc : p[1] \in has
    BY Parts
  <1> HIDE DEF has, doc, by
  <1>5. WellFormed([has |-> has, stubs |-> g.stubs, by |-> by, doc |-> doc, flagged |-> g.flagged])
    BY <1>2, <1>3, <1>4, Rebuilt
  <1>6. QED BY <1>1, <1>5 DEF has, by

LEMMA FlagFits ==
  ASSUME NEW g, WellFormed(g), NEW e \in Edges
  PROVE  WellFormed(Flag(g, e)) /\ Flag(g, e).has = g.has /\ Flag(g, e).by = g.by
  <1>1. Opposite(e) \in Edges
    BY DEF Opposite, Edges, Claims
  <1>2. QED BY <1>1 DEF WellFormed, Databases, Flag, Items

LEMMA MergeDisputeFits ==
  ASSUME NEW g, WellFormed(g), NEW e \in Edges
  PROVE  /\ WellFormed(MergeDispute(g, e))
         /\ g.has \subseteq MergeDispute(g, e).has /\ MergeDispute(g, e).by = g.by
  <1>1. Dispute(e) \in Edges
    BY DEF Dispute, Edges
  <1>2. QED BY <1>1 DEF WellFormed, Databases, MergeDispute, Items

(* What Disown deletes: the items only this source asserts, and the edges of *)
(* the nodes among them.                                                     *)
Doomed(g, items, s) == {x \in items : <<x, s>> \in g.by /\ Alone(g, x, s)}

LEMMA DisownFits ==
  ASSUME NEW g, WellFormed(g), NEW s \in Sources, NEW items \in SUBSET g.has
  PROVE  LET h == Disown(g, items, s)
             doomed == Doomed(g, items, s)
         IN /\ WellFormed(h)
            /\ h.has = {x \in g.has \ doomed : x \in Nodes \/ Ends(x) \cap doomed = {}}
            /\ h.by = {p \in g.by : p[1] \in h.has /\ ~(p[1] \in items /\ p[2] = s)}
  <1> DEFINE h == Disown(g, items, s)
             doomed == Doomed(g, items, s)
             mine == Of(g, items, s)
             left == {x \in g.has \ doomed : x \in Nodes \/ Ends(x) \cap doomed = {}}
  <1>1. {x \in mine : Alone(g, x, s)} = doomed
    BY DEF Doomed, Of
  <1>2. /\ h.has = left /\ h.stubs = g.stubs \cap left
        /\ h.by = {p \in g.by \ (mine \X {s}) : p[1] \in left}
        /\ h.doc = {p \in g.doc : p[1] \in left}
        /\ h.flagged = g.flagged \cap left
        /\ h = [has |-> h.has, stubs |-> h.stubs, by |-> h.by, doc |-> h.doc, flagged |-> h.flagged]
    BY <1>1 DEF Disown, Delete, WellFormed, Databases
  <1> HIDE DEF h, doomed
  <1>3. g.by \subseteq Items \X Sources
    BY Parts
  <1>4. \A p \in g.by : p \in mine \X {s} <=> p[1] \in items /\ p[2] = s
    <2>1. SUFFICES ASSUME NEW x \in Items, NEW t \in Sources, <<x, t>> \in g.by
                   PROVE  <<x, t>> \in mine \X {s} <=> x \in items /\ t = s
      BY <1>3
    <2>2. QED BY <2>1 DEF Of
  <1>5. h.by = {p \in g.by : p[1] \in left /\ ~(p[1] \in items /\ p[2] = s)}
    BY <1>2, <1>4
  <1> HIDE DEF mine, left
  <1>6. WellFormed(h)
    <2>1. left \subseteq g.has
      BY DEF left
    <2>2. h.has \in SUBSET Items /\ h.stubs \in SUBSET Nodes /\ h.flagged \in SUBSET Edges
          /\ h.stubs \subseteq h.has /\ h.flagged \subseteq h.has
      BY <1>2, <2>1, Parts
    <2>3. h.by \in SUBSET (Items \X Sources) /\ \A p \in h.by : p[1] \in h.has
      BY <1>2, <1>5, Parts
    <2>4. h.doc \in SUBSET (Edges \X Docs) /\ \A p \in h.doc : p[1] \in h.has
      BY <1>2, Parts
    <2>5. WellFormed([has |-> h.has, stubs |-> h.stubs, by |-> h.by, doc |-> h.doc, flagged |-> h.flagged])
      BY <2>2, <2>3, <2>4, Rebuilt
    <2>6. QED BY <1>2, <2>5
  <1>7. QED BY <1>2, <1>5, <1>6 DEF h, doomed, left

-----------------------------------------------------------------------------
Holds(d, x) == <<x, SourceOf[d]>> \in db.by

(* What a run may pass without writing it. *)
Excused(d, x) == x = Embed \/ <<x, SourceOf[d]>> \in Loose

(* Where a document's run has got to, it has written. *)
RunsHold ==
  \A d \in Docs \ skipped : Live(SourceOf[d]) =>
    \A i \in 1 .. pos[d] - 1 : Excused(d, Script[d][i]) \/ Holds(d, Script[d][i])

(* A document that is written is of a live source; the claim that is checked *)
(* is merged.                                                                *)
WritersAreLive ==
  \A d \in Docs :
    /\ Writing(d) => d \notin skipped /\ Live(SourceOf[d])
    /\ check[d] # "merge" => Writing(d) /\ (Excused(d, Item(d)) \/ Holds(d, Item(d)))

(* Between the statements of a deletion the source asserts no edge. *)
EdgesGoFirst == \A p \in db.by : p[1] \in Edges => p[2] # removing

IInv == TypeOK /\ EdgesAreAnchored /\ RunsHold /\ WritersAreLive /\ EdgesGoFirst

LEMMA ScriptFacts ==
  ASSUME NEW d \in Docs
  PROVE  /\ Len(Script[d]) \in Nat
         /\ \A i \in 1 .. Len(Script[d]) : Script[d][i] \in Items \cup {Embed}
         /\ SourceOf[d] \in Sources /\ SourceOf[d] # None
  <1>1. Script[d] \in Seq(Items \cup {Embed})
    OBVIOUS
  <1>2. QED BY <1>1

(* Nodes, and edges between what was written before, are no one's excuse. *)
LEMMA LooseFacts ==
  ASSUME NEW d \in Docs, NEW i \in 1 .. Len(Script[d])
  PROVE  /\ Script[d][i] \in Edges /\ <<Script[d][i], SourceOf[d]>> \notin Loose
              => Ends(Script[d][i]) \subseteq Before(d, i)
         /\ \A n \in Nodes : ~Excused(d, n)
  <1>1. SourceOf[d] \in Sources
    BY ScriptFacts
  <1>2. ASSUME Script[d][i] \in Edges, ~(Ends(Script[d][i]) \subseteq Before(d, i))
        PROVE  <<Script[d][i], SourceOf[d]>> \in Loose
    <2>1. <<Script[d][i], SourceOf[d]>> \in Edges \X Sources
      BY <1>1, <1>2
    <2>2. QED BY <1>2, <2>1 DEF Loose
  <1>3. \A n \in Nodes : ~Excused(d, n)
    BY DEF Loose, Excused, Items
  <1>4. QED BY <1>2, <1>3

(* An edge between what readers know by name is no one's excuse either. *)
LEMMA NamedIsNotLoose ==
  ASSUME NEW e, Ends(e) \cap Papers = {}, NEW s
  PROVE  <<e, s>> \notin Loose
  <1>1. SUFFICES ASSUME <<e, s>> \in Loose PROVE FALSE
    OBVIOUS
  <1>2. PICK d \in Docs : \E i \in 1 .. Len(Script[d]) : Script[d][i] = e /\ ~(Ends(e) \subseteq Before(d, i))
    BY <1>1 DEF Loose
  <1>3. PICK i \in 1 .. Len(Script[d]) : Script[d][i] = e /\ ~(Ends(e) \subseteq Before(d, i))
    BY <1>2
  <1>4. e \in Edges
    BY <1>1 DEF Loose
  <1>5. \A c \in Docs : \A k \in 1 .. Len(Script[c]) :
          Script[c][k] \in Edges => Ends(Script[c][k]) \subseteq Before(c, k) \cup Papers
    BY GraphWriterAssumption
  <1>6. QED BY <1>3, <1>4, <1>5

LEMMA InitHolds == Init => IInv
  BY EmptyFits, ScriptFacts
     DEF Init, WriterInit, IInv, TypeOK, WriterTypeOK, EdgesAreAnchored, RunsHold, WritersAreLive,
         EdgesGoFirst, Empty, Writing, Done, Live

(* The statements of a document add to the graph.  What they add is anchored, *)
(* and it is not of the source that is being removed.                         *)
LEMMA GraphGrows ==
  ASSUME IInv, NEW d \in Docs, Writing(d), NEW x \in Items,
         db'.by = db.by \cup {<<x, SourceOf[d]>>},
         x \in Edges /\ <<x, SourceOf[d]>> \notin Loose => \A n \in Ends(x) : Holds(d, n),
         UNCHANGED storeFrame
  PROVE  EdgesAreAnchored' /\ EdgesGoFirst'
  <1> DEFINE new == <<x, SourceOf[d]>>
  <1>1. new[1] = x /\ new[2] = SourceOf[d] /\ \A p \in db'.by : p = new \/ p \in db.by
    OBVIOUS
  <1>2. SourceOf[d] # removing
    BY DEF IInv, WritersAreLive, Live
  <1> HIDE DEF new
  <1>3. EdgesAreAnchored'
    BY <1>1 DEF IInv, EdgesAreAnchored, Holds
  <1>4. EdgesGoFirst'
    BY <1>1, <1>2 DEF IInv, EdgesGoFirst, storeFrame
  <1>5. QED BY <1>3, <1>4

LEMMA PositionAdvances ==
  ASSUME IInv, NEW d \in Docs, Writing(d), db.by \subseteq db'.by,
         Excused(d, Item(d)) \/ <<Item(d), SourceOf[d]>> \in db'.by,
         pos' = [pos EXCEPT ![d] = @ + 1], check' = [check EXCEPT ![d] = "merge"],
         embedded' \subseteq Docs, UNCHANGED <<tries, skipped, unchecked, storeFrame>>
  PROVE  WriterTypeOK' /\ RunsHold' /\ WritersAreLive'
  <1>1. pos[d] \in 1 .. Len(Script[d]) /\ Len(Script[d]) \in Nat
    BY ScriptFacts DEF IInv, TypeOK, WriterTypeOK, Writing, Done
  <1>2. \A c \in Docs : pos'[c] = IF c = d THEN pos[d] + 1 ELSE pos[c]
    BY DEF IInv, TypeOK, WriterTypeOK
  <1>3. \A c \in Docs : check'[c] = IF c = d THEN "merge" ELSE check[c]
    BY DEF IInv, TypeOK, WriterTypeOK
  <1>4. WriterTypeOK'
    BY <1>1, <1>2, <1>3 DEF IInv, TypeOK, WriterTypeOK
  <1>5. RunsHold'
    <2>1. SUFFICES ASSUME NEW c \in Docs \ skipped, Live(SourceOf[c]), NEW i \in 1 .. pos'[c] - 1
                   PROVE  Excused(c, Script[c][i]) \/ <<Script[c][i], SourceOf[c]>> \in db'.by
      BY DEF RunsHold, Holds, Live, storeFrame
    <2>2. CASE i \in 1 .. pos[c] - 1
      BY <2>1, <2>2 DEF IInv, RunsHold, Holds
    <2>3. CASE c = d /\ i = pos[d]
      BY <2>3 DEF Item
    <2>4. QED BY <1>1, <1>2, <2>1, <2>2, <2>3
  <1>6. WritersAreLive'
    <2>1. SUFFICES ASSUME NEW c \in Docs
                   PROVE  /\ Writing(c)' => c \notin skipped /\ Live(SourceOf[c])
                          /\ check'[c] # "merge" =>
                               Writing(c)' /\ (Excused(c, Item(c)') \/ <<Item(c)', SourceOf[c]>> \in db'.by)
      BY DEF WritersAreLive, Holds, Live, storeFrame
    <2>2. CASE c = d
      BY <1>3, <2>2 DEF IInv, WritersAreLive
    <2>3. CASE c # d
      <3>1. (Writing(c)' <=> Writing(c)) /\ Item(c)' = Item(c)
        BY <1>2, <2>1, <2>3 DEF Writing, Done, Item
      <3>2. QED BY <1>3, <2>3, <3>1 DEF IInv, WritersAreLive, Holds
    <2>4. QED BY <2>2, <2>3
  <1>7. QED BY <1>4, <1>5, <1>6

LEMMA CheckEnters ==
  ASSUME IInv, NEW d \in Docs, Writing(d), Item(d) \in Edges, db.by \subseteq db'.by,
         Excused(d, Item(d)) \/ <<Item(d), SourceOf[d]>> \in db'.by,
         NEW st \in {"scan", "flag", "dispute"}, Enter(d, st), UNCHANGED storeFrame
  PROVE  WriterTypeOK' /\ RunsHold' /\ WritersAreLive'
  <1>1. \A c \in Docs : check'[c] = IF c = d THEN st ELSE check[c]
    BY DEF Enter, IInv, TypeOK, WriterTypeOK
  <1>2. WriterTypeOK'
    BY <1>1 DEF Enter, IInv, TypeOK, WriterTypeOK, Writing, Item
  <1>3. RunsHold'
    BY DEF Enter, IInv, RunsHold, Holds, Live, storeFrame
  <1>4. WritersAreLive'
    BY <1>1 DEF Enter, IInv, WritersAreLive, Writing, Done, Item, Holds, Live, storeFrame
  <1>5. QED BY <1>2, <1>3, <1>4

LEMMA WriteNodeKeeps == ASSUME IInv, NEW d \in Docs, WriteNode(d) PROVE IInv'
  <1>1. Writing(d) /\ Item(d) \in Nodes /\ Item(d) \in Items /\ Item(d) \notin Edges
        /\ SourceOf[d] \in Sources /\ WellFormed(db) /\ UNCHANGED storeFrame
    BY ScriptFacts DEF WriteNode, At, Items, IInv, TypeOK
  <1>2. /\ WellFormed(db') /\ db'.by = db.by \cup {<<Item(d), SourceOf[d]>>}
    BY <1>1, MergeNodeFits DEF WriteNode
  <1>3. EdgesAreAnchored' /\ EdgesGoFirst'
    BY <1>1, <1>2, GraphGrows
  <1>4. WriterTypeOK' /\ RunsHold' /\ WritersAreLive'
    BY <1>1, <1>2, PositionAdvances DEF WriteNode, Advance, IInv, TypeOK, WriterTypeOK
  <1>5. QED BY <1>1, <1>2, <1>3, <1>4 DEF IInv, TypeOK, storeFrame

(* The endpoints of such an edge come before it in the script. *)
LEMMA EndsAreWritten ==
  ASSUME IInv, NEW d \in Docs, Writing(d), Item(d) \in Edges, <<Item(d), SourceOf[d]>> \notin Loose
  PROVE  /\ \A n \in Ends(Item(d)) : Holds(d, n)
         /\ Ends(Item(d)) \subseteq db.has
  <1>1. pos[d] \in 1 .. Len(Script[d]) /\ Len(Script[d]) \in Nat
    BY ScriptFacts DEF IInv, TypeOK, WriterTypeOK, Writing, Done
  <1>2. ASSUME NEW n \in Ends(Item(d)) PROVE Holds(d, n)
    <2>1. ~Excused(d, n)
      BY <1>1, LooseFacts DEF Ends, Edges
    <2>2. PICK j \in 1 .. pos[d] - 1 : Script[d][j] = n
      <3>1. n \in Before(d, pos[d])
        BY <1>1, <1>2, LooseFacts DEF Item
      <3>2. QED BY <3>1 DEF Before
    <2>3. d \in Docs \ skipped /\ Live(SourceOf[d])
      BY DEF IInv, WritersAreLive
    <2>4. QED BY <2>1, <2>2, <2>3 DEF IInv, RunsHold
  <1>3. \A p \in db.by : p[1] \in db.has
    BY Parts DEF IInv, TypeOK
  <1>4. QED BY <1>2, <1>3 DEF Holds

(* A statement that asserts nothing of a source. *)
LEMMA NothingAsserted ==
  ASSUME IInv, db'.by = db.by, UNCHANGED storeFrame
  PROVE  EdgesAreAnchored' /\ EdgesGoFirst'
  BY DEF IInv, EdgesAreAnchored, EdgesGoFirst, storeFrame

LEMMA WriteEdgeKeeps == ASSUME IInv, NEW d \in Docs, WriteEdge(d) PROVE IInv'
  <1>1. Writing(d) /\ Item(d) \in Edges /\ Item(d) \in Items
        /\ SourceOf[d] \in Sources /\ WellFormed(db) /\ UNCHANGED storeFrame
    BY ScriptFacts DEF WriteEdge, At, Items, IInv, TypeOK
  <1>2. <<Item(d), SourceOf[d]>> \notin Loose =>
          (\A n \in Ends(Item(d)) : Holds(d, n)) /\ Ends(Item(d)) \subseteq db.has
    BY <1>1, EndsAreWritten
  <1>3. /\ WellFormed(db') /\ db.by \subseteq db'.by
        /\ Excused(d, Item(d)) \/ <<Item(d), SourceOf[d]>> \in db'.by
        /\ \/ db'.by = db.by
           \/ db'.by = db.by \cup {<<Item(d), SourceOf[d]>>}
    <2>1. CASE Ends(Item(d)) \subseteq db.has
      BY <1>1, <2>1, MergeEdgeFits DEF WriteEdge
    <2>2. CASE ~(Ends(Item(d)) \subseteq db.has)
      BY <1>1, <1>2, <2>2 DEF WriteEdge, MergeEdge, Excused
    <2>3. QED BY <2>1, <2>2
  <1>4. EdgesAreAnchored' /\ EdgesGoFirst'
    BY <1>1, <1>2, <1>3, GraphGrows, NothingAsserted
  <1>5. WriterTypeOK' /\ RunsHold' /\ WritersAreLive'
    <2>1. CASE Enter(d, "scan")
      BY <1>1, <1>3, <2>1, CheckEnters
    <2>2. CASE Advance(d)
      BY <1>1, <1>3, <2>2, PositionAdvances DEF Advance, IInv, TypeOK, WriterTypeOK
    <2>3. QED BY <2>1, <2>2 DEF WriteEdge, AfterEdge
  <1>6. QED BY <1>1, <1>3, <1>4, <1>5 DEF IInv, TypeOK, storeFrame

LEMMA EmbeddingKeeps == ASSUME IInv, NEW d \in Docs, Embedding(d) PROVE IInv'
  <1>1. Writing(d) /\ Item(d) = Embed /\ UNCHANGED <<db, storeFrame>>
    BY DEF Embedding, WriteChunks, At
  <1>2. check' = [check EXCEPT ![d] = "merge"] /\ embedded' \subseteq Docs
    BY DEF Embedding, WriteChunks, At, IInv, TypeOK, WriterTypeOK
  <1>3. WriterTypeOK' /\ RunsHold' /\ WritersAreLive'
    <2>1. Excused(d, Item(d))
      BY <1>1 DEF Excused
    <2>2. pos' = [pos EXCEPT ![d] = @ + 1] /\ db.by \subseteq db'.by
          /\ UNCHANGED <<tries, skipped, unchecked, storeFrame>>
      BY <1>1 DEF Embedding, WriteChunks
    <2>3. QED BY <1>1, <1>2, <2>1, <2>2, PositionAdvances
  <1>4. QED BY <1>1, <1>3, NothingAsserted DEF IInv, TypeOK, storeFrame

(* The three statements of a conflict check. *)
LEMMA CheckKeeps ==
  ASSUME IInv, NEW d \in Docs, Scan(d) \/ FlagClaims(d) \/ RecordDispute(d)
  PROVE  IInv'
  <1>1. /\ Writing(d) /\ Item(d) \in Edges /\ UNCHANGED storeFrame
        /\ Excused(d, Item(d)) \/ Holds(d, Item(d))
    BY DEF Scan, FlagClaims, RecordDispute, At, IInv, TypeOK, WriterTypeOK, WritersAreLive, Item
  <1>2. WellFormed(db') /\ db'.by = db.by
    BY <1>1, FlagFits, MergeDisputeFits DEF Scan, FlagClaims, RecordDispute, IInv, TypeOK
  <1>3. Advance(d) \/ Enter(d, "flag") \/ Enter(d, "dispute")
    BY DEF Scan, FlagClaims, RecordDispute
  <1>4. WriterTypeOK' /\ RunsHold' /\ WritersAreLive'
    <2>1. CASE Advance(d)
      BY <1>1, <1>2, <2>1, PositionAdvances DEF Advance, Holds, IInv, TypeOK, WriterTypeOK
    <2>2. CASE Enter(d, "flag")
      BY <1>1, <1>2, <2>2, CheckEnters DEF Holds
    <2>3. CASE Enter(d, "dispute")
      BY <1>1, <1>2, <2>3, CheckEnters DEF Holds
    <2>4. QED BY <1>3, <2>1, <2>2, <2>3
  <1>5. QED BY <1>1, <1>2, <1>4, NothingAsserted DEF IInv, TypeOK, storeFrame

LEMMA StartDocKeeps == ASSUME IInv, NEW d \in Docs, StartDoc(d) PROVE IInv'
  <1>1. /\ ~Writing(d) /\ Live(SourceOf[d])
        /\ UNCHANGED <<db, storeFrame, check, embedded>>
    BY DEF StartDoc, Start
  <1>2. Len(Script[d]) \in Nat
    BY ScriptFacts
  <1>3. \A c \in Docs : c # d => pos'[c] = pos[c] /\ (c \in skipped' <=> c \in skipped)
    BY DEF StartDoc, Start, IInv, TypeOK, WriterTypeOK
  <1>4. \/ pos'[d] = Len(Script[d]) + 1 /\ d \in skipped'
        \/ pos'[d] = 1 /\ d \notin skipped'
    BY DEF StartDoc, Start, IInv, TypeOK, WriterTypeOK
  <1>5. check[d] = "merge"
    BY <1>1 DEF IInv, WritersAreLive
  <1>6. WriterTypeOK'
    <2>1. pos' \in [Docs -> Nat] /\ tries' \in [Docs -> 0 .. Tries]
      BY <1>2 DEF StartDoc, Start, IInv, TypeOK, WriterTypeOK
    <2>2. skipped' \subseteq Docs /\ unchecked' \subseteq Docs
      BY DEF StartDoc, Start, IInv, TypeOK, WriterTypeOK
    <2>3. ASSUME NEW c \in Docs PROVE pos'[c] <= Len(Script[c]) + 1
      <3>1. CASE c = d BY <1>2, <1>4, <3>1
      <3>2. CASE c # d BY <1>3, <3>2 DEF IInv, TypeOK, WriterTypeOK
      <3>3. QED BY <3>1, <3>2
    <2>4. ASSUME NEW c \in Docs, check'[c] # "merge" PROVE pos'[c] # 0 /\ Script[c][pos'[c]] \in Edges
      <3>1. c # d /\ check[c] # "merge" BY <1>1, <1>5, <2>4
      <3>2. pos'[c] = pos[c] BY <1>3, <3>1
      <3>3. QED BY <3>1, <3>2 DEF IInv, TypeOK, WriterTypeOK
    <2>5. QED BY <1>1, <2>1, <2>2, <2>3, <2>4 DEF IInv, TypeOK, WriterTypeOK
  <1>7. RunsHold'
    <2>1. SUFFICES ASSUME NEW c \in Docs \ skipped', Live(SourceOf[c]), NEW i \in 1 .. pos'[c] - 1
                   PROVE  Excused(c, Script[c][i]) \/ Holds(c, Script[c][i])
      BY <1>1 DEF RunsHold, Holds, Live, storeFrame
    <2>2. c # d
      BY <1>4
    <2>3. QED BY <1>3, <2>1, <2>2 DEF IInv, RunsHold
  <1>8. WritersAreLive'
    <2>1. SUFFICES ASSUME NEW c \in Docs
                   PROVE  /\ Writing(c)' => c \notin skipped' /\ Live(SourceOf[c])
                          /\ check[c] # "merge" =>
                               Writing(c)' /\ (Excused(c, Item(c)') \/ Holds(c, Item(c)'))
      BY <1>1 DEF WritersAreLive, Holds, Live, storeFrame
    <2>2. CASE c = d
      BY <1>1, <1>4, <1>5, <2>2 DEF Writing, Done
    <2>3. CASE c # d
      BY <1>3, <2>3 DEF IInv, WritersAreLive, Writing, Done, Item
    <2>4. QED BY <2>2, <2>3
  <1>9. QED BY <1>1, <1>6, <1>7, <1>8, NothingAsserted DEF IInv, TypeOK, storeFrame

LEMMA FailDocKeeps == ASSUME IInv, NEW d \in Docs, FailDoc(d) PROVE IInv'
  <1>1. Writing(d) /\ UNCHANGED <<db, storeFrame, embedded, tries, skipped>>
    BY DEF FailDoc, Fail
  <1>2. \A c \in Docs : pos'[c] = IF c = d THEN 0 ELSE pos[c]
    BY DEF FailDoc, Fail, IInv, TypeOK, WriterTypeOK
  <1>3. \A c \in Docs : check'[c] = IF c = d THEN "merge" ELSE check[c]
    BY DEF FailDoc, Fail, IInv, TypeOK, WriterTypeOK
  <1>4. WriterTypeOK'
    <2>1. /\ pos' \in [Docs -> Nat] /\ unchecked' \subseteq Docs
          /\ check' \in [Docs -> {"merge", "stubbed", "scan", "flag", "dispute"}]
      BY DEF FailDoc, Fail, IInv, TypeOK, WriterTypeOK
    <2>2. ASSUME NEW c \in Docs PROVE pos'[c] <= Len(Script[c]) + 1
      <3>1. Len(Script[c]) \in Nat BY ScriptFacts
      <3>2. pos'[c] = 0 \/ pos'[c] = pos[c] BY <1>2
      <3>3. QED BY <3>1, <3>2 DEF IInv, TypeOK, WriterTypeOK
    <2>3. \A c \in Docs : check'[c] # "merge" => pos'[c] # 0 /\ Script[c][pos'[c]] \in Edges
      BY <1>2, <1>3 DEF IInv, TypeOK, WriterTypeOK
    <2>4. QED BY <1>1, <2>1, <2>2, <2>3 DEF IInv, TypeOK, WriterTypeOK
  <1>5. RunsHold'
    <2>1. SUFFICES ASSUME NEW c \in Docs \ skipped, Live(SourceOf[c]), NEW i \in 1 .. pos'[c] - 1
                   PROVE  Excused(c, Script[c][i]) \/ Holds(c, Script[c][i])
      BY <1>1 DEF RunsHold, Holds, Live, storeFrame
    <2>2. c # d
      BY <1>2
    <2>3. QED BY <1>2, <2>1, <2>2 DEF IInv, RunsHold
  <1>6. WritersAreLive'
    BY <1>1, <1>2, <1>3 DEF IInv, WritersAreLive, Writing, Done, Item, Holds, Live, storeFrame
  <1>7. QED BY <1>1, <1>4, <1>5, <1>6, NothingAsserted DEF IInv, TypeOK, storeFrame

-----------------------------------------------------------------------------
LEMMA EndsAreNodes ==
  ASSUME NEW e \in Edges, NEW n \in Ends(e), NEW s PROVE <<n, s>> \notin Loose
  BY DEF Loose, Ends, Edges

(* A deletion of s takes nothing from another source: what that asserts is   *)
(* not s's alone, and by EdgesAreAnchored neither are the ends of its edges. *)
LEMMA Spared ==
  ASSUME IInv, NEW s \in Sources, NEW items \in SUBSET db.has,
         NEW x, NEW t \in Sources, <<x, t>> \in db.by, t # s, <<x, t>> \notin Loose
  PROVE  <<x, t>> \in Disown(db, items, s).by
  <1> DEFINE h == Disown(db, items, s)
             doomed == Doomed(db, items, s)
  <1>1. WellFormed(db) /\ x \in Items /\ x \in db.has
    <2>1. <<x, t>>[1] = x OBVIOUS
    <2>2. QED BY <2>1, Parts DEF IInv, TypeOK
  <1>2. x \notin doomed
    BY DEF Doomed, Alone
  <1>3. ASSUME x \in Edges, NEW n \in Ends(x) PROVE n \notin doomed
    <2>1. <<x, t>> \in db.by \ Loose /\ <<x, t>>[1] = x /\ <<x, t>>[2] = t
      OBVIOUS
    <2>2. <<n, t>> \in db.by
      BY <1>3, <2>1 DEF IInv, EdgesAreAnchored
    <2>3. QED BY <2>2 DEF Doomed, Alone
  <1>4. x \in h.has
    <2>1. h.has = {y \in db.has \ doomed : y \in Nodes \/ Ends(y) \cap doomed = {}}
      BY <1>1, DisownFits
    <2> HIDE DEF h, doomed
    <2>2. QED BY <1>1, <1>2, <1>3, <2>1 DEF Items
  <1>5. h.by = {p \in db.by : p[1] \in h.has /\ ~(p[1] \in items /\ p[2] = s)}
    BY <1>1, DisownFits
  <1> HIDE DEF h
  <1>6. QED BY <1>4, <1>5 DEF h

LEMMA WrittenIsSpared ==
  ASSUME IInv, NEW s \in Sources, NEW items \in SUBSET db.has, NEW d \in Docs, SourceOf[d] # s,
         NEW x, Excused(d, x) \/ Holds(d, x)
  PROVE  Excused(d, x) \/ <<x, SourceOf[d]>> \in Disown(db, items, s).by
  BY Spared, ScriptFacts DEF Holds, Excused

(* The positions of the documents are left alone. *)
LEMMA RunsOutliveRemoval ==
  ASSUME IInv, NEW s \in Sources, NEW items \in SUBSET db.has, db' = Disown(db, items, s),
         \A d \in Docs : Live(SourceOf[d])' => Live(SourceOf[d]) /\ SourceOf[d] # s,
         \A d \in Docs : Writing(d) => Live(SourceOf[d])',
         UNCHANGED <<pos, check, skipped>>
  PROVE  RunsHold' /\ WritersAreLive'
  <1>1. RunsHold'
    <2>1. SUFFICES ASSUME NEW d \in Docs \ skipped, Live(SourceOf[d])', NEW i \in 1 .. pos[d] - 1
                   PROVE  Excused(d, Script[d][i]) \/ <<Script[d][i], SourceOf[d]>> \in db'.by
      BY DEF RunsHold, Holds
    <2>2. Excused(d, Script[d][i]) \/ Holds(d, Script[d][i])
      BY <2>1 DEF IInv, RunsHold
    <2>3. QED BY <2>1, <2>2, WrittenIsSpared
  <1>2. WritersAreLive'
    <2>1. SUFFICES ASSUME NEW d \in Docs
                   PROVE  /\ Writing(d) => d \notin skipped /\ Live(SourceOf[d])'
                          /\ check[d] # "merge" =>
                               Writing(d) /\ (Excused(d, Item(d)) \/ <<Item(d), SourceOf[d]>> \in db'.by)
      BY DEF WritersAreLive, Holds, Writing, Done, Item
    <2>2. Writing(d) => d \notin skipped
      BY DEF IInv, WritersAreLive
    <2>3. check[d] # "merge" => Writing(d) /\ (Excused(d, Item(d)) \/ Holds(d, Item(d)))
      BY DEF IInv, WritersAreLive
    <2>4. QED BY <2>2, <2>3, WrittenIsSpared
  <1>3. QED BY <1>1, <1>2

LEMMA RemoveEdgesKeeps == ASSUME IInv, NEW s \in Sources, RemoveEdges(s) PROVE IInv'
  <1>1. EdgesOf(db) \in SUBSET db.has /\ WellFormed(db) /\ db' = Disown(db, EdgesOf(db), s)
    BY DEF EdgesOf, RemoveEdges, IInv, TypeOK
  <1>2. /\ WellFormed(db')
        /\ db'.by = {p \in db.by : p[1] \in db'.has /\ ~(p[1] \in EdgesOf(db) /\ p[2] = s)}
    BY <1>1, DisownFits
  <1>3. ASSUME NEW p \in db'.by, p[1] \in Edges PROVE p \in db.by /\ p[2] \in Sources /\ p[2] # s
    <2>1. p \in db.by /\ p[1] \in db'.has /\ ~(p[1] \in EdgesOf(db) /\ p[2] = s)
      BY <1>2, <1>3
    <2>2. p[1] \in db.has /\ p[2] \in Sources
      BY <1>1, <2>1, Parts
    <2>3. p[1] \in EdgesOf(db)
      BY <1>3, <2>2 DEF EdgesOf
    <2>4. QED BY <2>1, <2>2, <2>3
  <1>4. EdgesAreAnchored'
    <2>1. SUFFICES ASSUME NEW p \in db'.by \ Loose, p[1] \in Edges, NEW n \in Ends(p[1])
                   PROVE  <<n, p[2]>> \in db'.by
      BY DEF EdgesAreAnchored
    <2>2. <<n, p[2]>> \in db.by /\ p[2] \in Sources /\ p[2] # s
      BY <1>3, <2>1 DEF IInv, EdgesAreAnchored
    <2>3. QED BY <1>1, <2>1, <2>2, Spared, EndsAreNodes
  <1>5. EdgesGoFirst'
    BY <1>3 DEF EdgesGoFirst, RemoveEdges
  <1>6. RunsHold' /\ WritersAreLive'
    <2>1. \A d \in Docs : Live(SourceOf[d])' => Live(SourceOf[d]) /\ SourceOf[d] # s
      BY ScriptFacts DEF RemoveEdges, Live
    <2>2. \A d \in Docs : Writing(d) => Live(SourceOf[d])'
      BY DEF RemoveEdges, Live, IInv, WritersAreLive
    <2>3. UNCHANGED <<pos, check, skipped>>
      BY DEF RemoveEdges, writerVars
    <2>4. QED BY <1>1, <2>1, <2>2, <2>3, RunsOutliveRemoval
  <1>7. TypeOK'
    BY <1>2 DEF RemoveEdges, writerVars, IInv, TypeOK, WriterTypeOK
  <1>8. QED BY <1>4, <1>5, <1>6, <1>7 DEF IInv

LEMMA RemoveNodesKeeps == ASSUME IInv, RemoveNodes PROVE IInv'
  <1>1. NodesOf(db) \in SUBSET db.has /\ WellFormed(db) /\ removing \in Sources
        /\ db' = Disown(db, NodesOf(db), removing)
    BY DEF NodesOf, RemoveNodes, IInv, TypeOK
  <1>2. WellFormed(db') /\ db'.by \subseteq db.by
    BY <1>1, DisownFits
  <1>3. EdgesAreAnchored'
    <2>1. SUFFICES ASSUME NEW p \in db'.by \ Loose, p[1] \in Edges, NEW n \in Ends(p[1])
                   PROVE  <<n, p[2]>> \in db'.by
      BY DEF EdgesAreAnchored
    <2>2. <<n, p[2]>> \in db.by /\ p[2] \in Sources /\ p[2] # removing
      BY <1>1, <1>2, <2>1, Parts DEF IInv, EdgesAreAnchored, EdgesGoFirst
    <2>3. QED BY <1>1, <2>1, <2>2, Spared, EndsAreNodes
  <1>4. EdgesGoFirst'
    BY <1>2, Parts, GraphWriterAssumption DEF EdgesGoFirst, RemoveNodes
  <1>5. RunsHold' /\ WritersAreLive'
    <2>1. \A d \in Docs : Live(SourceOf[d])' => Live(SourceOf[d]) /\ SourceOf[d] # removing
      BY ScriptFacts DEF RemoveNodes, Live
    <2>2. \A d \in Docs : Writing(d) => Live(SourceOf[d])'
      BY ScriptFacts DEF RemoveNodes, Live, IInv, WritersAreLive
    <2>3. UNCHANGED <<pos, check, skipped>>
      BY DEF RemoveNodes
    <2>4. QED BY <1>1, <2>1, <2>2, <2>3, RunsOutliveRemoval
  <1>6. TypeOK'
    BY <1>1, <1>2 DEF RemoveNodes, IInv, TypeOK, WriterTypeOK
  <1>7. QED BY <1>3, <1>4, <1>5, <1>6 DEF IInv

-----------------------------------------------------------------------------
LEMMA NextKeeps == IInv /\ [Next]_vars => IInv'
  <1> SUFFICES ASSUME IInv, [Next]_vars PROVE IInv'
    OBVIOUS
  <1>1. ASSUME NEW d \in Docs, DocStep(d) PROVE IInv'
    BY <1>1, StartDocKeeps, WriteNodeKeeps, WriteEdgeKeeps, EmbeddingKeeps, CheckKeeps, FailDocKeeps
       DEF DocStep
  <1>2. CASE UNCHANGED vars
    BY <1>2 DEF vars, writerVars, IInv, TypeOK, WriterTypeOK, EdgesAreAnchored, RunsHold,
         WritersAreLive, EdgesGoFirst, Writing, Done, Live, Holds, Item
  <1>3. QED BY <1>1, <1>2, RemoveEdgesKeeps, RemoveNodesKeeps DEF Next

LEMMA Invariance == Spec => []IInv
  BY InitHolds, NextKeeps, PTL DEF Spec

(* Every variable keeps its type, and what the database records it records   *)
(* of nodes and edges that are there.                                        *)
THEOREM Typing == Spec => []TypeOK
  <1>1. IInv => TypeOK BY DEF IInv
  <1>2. QED BY <1>1, Invariance, PTL

(* However many documents write and however many sources are deleted: who    *)
(* asserts an edge asserts its endpoints, or it is one to a paper it does    *)
(* not write.                                                                *)
THEOREM Anchoring == Spec => []EdgesAreAnchored
  <1>1. IInv => EdgesAreAnchored BY DEF IInv
  <1>2. QED BY <1>1, Invariance, PTL

(* What a document's run has passed is there and its source's, whatever      *)
(* other documents write and other deletions take, but for edges to papers   *)
(* that the document did not write.                                          *)
THEOREM WrittenStaysWritten == Spec => []RunsAreWritten
  <1>1. IInv => RunsAreWritten
    BY Parts DEF IInv, TypeOK, RunsHold, RunsAreWritten, Written, Holds, Excused
  <1>2. QED BY <1>1, Invariance, PTL

(* The two statements of a deletion take nothing that another source asserts  *)
(* but edges to papers it does not write, and no other step takes anything.   *)
THEOREM DeletionsSpare == Spec => DeletionSpares
  <1>1. ASSUME IInv, [Next]_vars
        PROVE  [\A p \in (db.by \ db'.by) \ Loose : p[2] \in {removing, removing'}]_vars
    <2>1. ASSUME NEW d \in Docs, DocStep(d) PROVE db.by \subseteq db'.by
      <3>1. ASSUME WriteNode(d) PROVE db.by \subseteq db'.by
        BY <1>1, <3>1, ScriptFacts, MergeNodeFits DEF WriteNode, IInv, TypeOK
      <3>2. ASSUME WriteEdge(d) PROVE db.by \subseteq db'.by
        <4>1. CASE Ends(Item(d)) \subseteq db.has
          BY <1>1, <3>2, <4>1, ScriptFacts, MergeEdgeFits DEF WriteEdge, At, IInv, TypeOK
        <4>2. CASE ~(Ends(Item(d)) \subseteq db.has)
          BY <3>2, <4>2 DEF WriteEdge, MergeEdge
        <4>3. QED BY <4>1, <4>2
      <3>3. ASSUME FlagClaims(d) \/ RecordDispute(d) PROVE db.by \subseteq db'.by
        BY <1>1, <3>3, FlagFits, MergeDisputeFits
           DEF FlagClaims, RecordDispute, At, IInv, TypeOK, WriterTypeOK, Item
      <3>4. QED BY <2>1, <3>1, <3>2, <3>3 DEF DocStep, StartDoc, Embedding, Scan, FailDoc
    <2>2. ASSUME NEW s \in Sources, NEW items \in SUBSET db.has, db' = Disown(db, items, s)
          PROVE  \A p \in (db.by \ db'.by) \ Loose : p[2] = s
      BY <1>1, <2>2, Spared, Parts DEF IInv, TypeOK
    <2>3. ASSUME NEW s \in Sources, RemoveEdges(s)
          PROVE  \A p \in (db.by \ db'.by) \ Loose : p[2] = removing'
      BY <2>2, <2>3 DEF RemoveEdges, EdgesOf
    <2>4. ASSUME RemoveNodes PROVE \A p \in (db.by \ db'.by) \ Loose : p[2] = removing
      BY <1>1, <2>2, <2>4 DEF RemoveNodes, NodesOf, IInv, TypeOK
    <2>5. QED BY <1>1, <2>1, <2>3, <2>4 DEF Next
  <1>2. QED BY <1>1, Invariance, PTL DEF Spec, DeletionSpares

-----------------------------------------------------------------------------
(* Contradictions.  A claim in the graph names a document that makes it; of  *)
(* two documents that contradict each other the one that merges its claim    *)
(* last finds the other's, and from there its check is under way, or over.   *)
ClaimsNameDocuments ==
  \A e \in db.has : e \in Edges /\ e.kind \in Claims => \E d \in Docs : <<e, d>> \in db.doc

DocumentsAssert == \A p \in db.doc : Asserts(p[2], p[1])

(* No source that may be deleted asserts a dispute. *)
DisputesAreNobodys ==
  /\ removing # None => removing \in Deletable
  /\ \A p \in db.by : p[1] \in Edges /\ p[1].kind = "CONFLICTS_WITH" => p[2] \notin Deletable

Merged(d, e) ==
  \E i \in 1 .. Len(Script[d]) :
    Script[d][i] = e /\ (i < pos[d] \/ (i = pos[d] /\ check[d] # "merge"))

Checks(d, e, steps) == Writing(d) /\ Item(d) = e /\ check[d] \in steps

Settled(e) == {e, Opposite(e)} \subseteq db.flagged

Meet(d, c, e) ==
  /\ d \notin skipped /\ Live(SourceOf[d]) /\ Merged(d, e) /\ ~Asserts(d, Opposite(e))
  /\ c \notin skipped /\ Live(SourceOf[c]) /\ Merged(c, Opposite(e)) /\ ~Asserts(c, e)

Noticed(d, c, e) ==
  \/ Checks(d, e, {"scan", "flag"}) \/ Checks(c, Opposite(e), {"scan", "flag"})
  \/ Settled(e) /\ \/ Checks(d, e, {"dispute"}) \/ Checks(c, Opposite(e), {"dispute"})
                   \/ Dispute(e) \in db.has

Claiming == {e \in Edges : e.kind \in Claims}

Contradicting == {e \in Claiming : Ends(e) \cap Papers = {}}

ContradictionsMeet ==
  \A d, c \in Docs, e \in Contradicting : Meet(d, c, e) => Noticed(d, c, e)

(* The LLM may find a CONFLICTS_WITH, too (VALID_EDGE_TYPES): then the edge   *)
(* is its document's source's, and goes with that source.                     *)
DisputesAreTheDetectors ==
  \A d \in Docs : SourceOf[d] \in Deletable =>
    \A i \in 1 .. Len(Script[d]) :
      Script[d][i] \in Edges => Script[d][i].kind # "CONFLICTS_WITH"

Disputed ==
  /\ IInv /\ ClaimsNameDocuments /\ DocumentsAssert /\ DisputesAreNobodys
  /\ ContradictionsMeet

LEMMA Opposites ==
  ASSUME NEW e \in Contradicting
  PROVE  /\ Opposite(e) \in Contradicting /\ Opposite(Opposite(e)) = e
         /\ Ends(Opposite(e)) = Ends(e)
         /\ Dispute(e) \in Edges /\ Dispute(e).kind = "CONFLICTS_WITH"
         /\ Dispute(Opposite(e)) = Dispute(e) /\ Ends(Dispute(e)) = Ends(e)
  <1> DEFINE other == CHOOSE k \in Claims : k # e.kind
             back == CHOOSE k \in Claims : k # other
  <1>1. e \in Edges /\ e.kind \in Claims
    BY DEF Contradicting, Claiming
  <1>2. other \in Claims /\ other # e.kind
    BY <1>1 DEF Claims
  <1>3. back \in Claims /\ back # other
    BY <1>2 DEF Claims
  <1>4. back = e.kind
    BY <1>1, <1>2, <1>3 DEF Claims
  <1>5. Opposite(e) = [e EXCEPT !.kind = other]
    BY DEF Opposite
  <1> HIDE DEF other
  <1>6. Opposite(e) \in Edges /\ Opposite(e).kind = other /\ Opposite(e).from = e.from
        /\ Opposite(e).to = e.to
    BY <1>1, <1>2, <1>5 DEF Edges
  <1>7. Opposite(Opposite(e)) = [Opposite(e) EXCEPT !.kind = back]
    BY <1>6 DEF Opposite
  <1> HIDE DEF back
  <1>8. Opposite(Opposite(e)) = e
    BY <1>1, <1>4, <1>5, <1>7 DEF Edges
  <1>9. Dispute(e) \in Edges /\ Dispute(e).kind = "CONFLICTS_WITH" /\ Dispute(e).from = e.from
        /\ Dispute(e).to = e.to
    BY <1>1 DEF Dispute, Edges
  <1>10. Dispute(Opposite(e)) = Dispute(e)
    BY <1>1, <1>5 DEF Dispute, Edges
  <1>11. QED BY <1>2, <1>6, <1>8, <1>9, <1>10 DEF Ends, Contradicting, Claiming

(* What the statements do to `doc' and `flagged'. *)
LEMMA MergeNodeRecords ==
  ASSUME NEW g, WellFormed(g), NEW n, NEW s
  PROVE  MergeNode(g, n, s).doc = g.doc /\ MergeNode(g, n, s).flagged = g.flagged
  BY DEF WellFormed, Databases, MergeNode

LEMMA MergeEdgeRecords ==
  ASSUME NEW g, WellFormed(g), NEW e \in Edges, NEW s \in Sources, NEW d \in Docs,
         Ends(e) \subseteq g.has
  PROVE  /\ MergeEdge(g, e, s, d).flagged = g.flagged
         /\ e \in g.has => MergeEdge(g, e, s, d).doc = g.doc
         /\ e \notin g.has => MergeEdge(g, e, s, d).doc = g.doc \cup {<<e, d>>}
  BY DEF WellFormed, Databases, MergeEdge

LEMMA FlagRecords ==
  ASSUME NEW g, WellFormed(g), NEW e
  PROVE  /\ Flag(g, e).doc = g.doc
         /\ Flag(g, e).flagged = g.flagged \cup ({e, Opposite(e)} \cap g.has)
  BY DEF WellFormed, Databases, Flag

LEMMA MergeDisputeRecords ==
  ASSUME NEW g, WellFormed(g), NEW e, Ends(e) \subseteq g.has
  PROVE  /\ MergeDispute(g, e).has = g.has \cup {Dispute(e)}
         /\ MergeDispute(g, e).doc = g.doc /\ MergeDispute(g, e).flagged = g.flagged
  BY DEF WellFormed, Databases, MergeDispute

LEMMA DisownRecords ==
  ASSUME NEW g, WellFormed(g), NEW items, NEW s
  PROVE  /\ Disown(g, items, s).doc = {p \in g.doc : p[1] \in Disown(g, items, s).has}
         /\ Disown(g, items, s).flagged = g.flagged \cap Disown(g, items, s).has
  BY DEF WellFormed, Databases, Disown, Delete

(* What a statement of a document does: it adds to the graph, and moves *)
(* nobody else.                                                         *)
Untouched(d) ==
  pos'[d] = pos[d] /\ check'[d] = check[d] /\ (d \in skipped' <=> d \in skipped)

LEMMA WritingFacts ==
  ASSUME IInv, NEW d \in Docs, Writing(d)
  PROVE  /\ pos[d] \in 1 .. Len(Script[d]) /\ Len(Script[d]) \in Nat
         /\ Item(d) = Script[d][pos[d]] /\ d \notin skipped /\ Live(SourceOf[d])
  BY ScriptFacts DEF IInv, TypeOK, WriterTypeOK, Writing, Done, Item, WritersAreLive

LEMMA DocAdds ==
  ASSUME IInv, NEW d \in Docs, DocStep(d)
  PROVE  /\ db.has \subseteq db'.has /\ db.flagged \subseteq db'.flagged /\ UNCHANGED storeFrame
         /\ \A c \in Docs \ {d} : Untouched(c)
  <1>1. UNCHANGED storeFrame
    BY DEF DocStep, StartDoc, WriteNode, WriteEdge, Embedding, Scan, FlagClaims, RecordDispute,
           FailDoc
  <1>2. \A c \in Docs \ {d} : Untouched(c)
    BY DEF DocStep, StartDoc, Start, WriteNode, WriteEdge, AfterEdge, Embedding, WriteChunks, Scan,
           FlagClaims, RecordDispute, FailDoc, Fail, Advance, Enter, Untouched, IInv, TypeOK,
           WriterTypeOK
  <1> DEFINE Adds == db.has \subseteq db'.has /\ db.flagged \subseteq db'.flagged
  <1>3. ASSUME WriteNode(d) PROVE Adds
    BY <1>3, MergeNodeFits, MergeNodeRecords, ScriptFacts DEF WriteNode, IInv, TypeOK
  <1>4. ASSUME WriteEdge(d) PROVE Adds
    <2>1. /\ Writing(d) /\ Item(d) \in Edges /\ WellFormed(db) /\ SourceOf[d] \in Sources
          /\ db' = MergeEdge(db, Item(d), SourceOf[d], d)
      BY <1>4, ScriptFacts DEF WriteEdge, At, IInv, TypeOK
    <2>2. ASSUME Ends(Item(d)) \subseteq db.has
          PROVE  db'.has = db.has \cup {Item(d)} /\ db'.flagged = db.flagged
      BY <2>1, <2>2, MergeEdgeFits, MergeEdgeRecords
    <2>3. ASSUME ~(Ends(Item(d)) \subseteq db.has) PROVE db' = db
      BY <2>1, <2>3 DEF MergeEdge
    <2>4. QED BY <2>2, <2>3
  <1>5. ASSUME FlagClaims(d) PROVE Adds
    <2>1. Item(d) \in Edges /\ WellFormed(db) /\ db' = Flag(db, Item(d))
      BY <1>5 DEF FlagClaims, At, IInv, TypeOK, WriterTypeOK, Item
    <2>2. QED BY <2>1, FlagFits, FlagRecords
  <1>6. ASSUME RecordDispute(d) PROVE Adds
    <2>1. /\ Writing(d) /\ Item(d) \in Edges /\ WellFormed(db)
          /\ db' = MergeDispute(db, Item(d))
      BY <1>6 DEF RecordDispute, At, IInv, TypeOK, WriterTypeOK, Item
    <2>2. ASSUME ~(Ends(Item(d)) \subseteq db.has) PROVE db' = db
      BY <2>1, <2>2 DEF MergeDispute
    <2>3. QED BY <2>1, <2>2, MergeDisputeRecords
  <1>7. ASSUME UNCHANGED db PROVE Adds
    BY <1>7
  <1>8. QED
    BY <1>1, <1>2, <1>3, <1>4, <1>5, <1>6, <1>7
       DEF DocStep, StartDoc, Embedding, Scan, FailDoc

(* The documents of the claims, and the sources of the disputes. *)
LEMMA DocClaims ==
  ASSUME Disputed, NEW x \in Docs, DocStep(x) PROVE ClaimsNameDocuments' /\ DocumentsAssert'
  <1> DEFINE Goal == ClaimsNameDocuments' /\ DocumentsAssert'
  <1>1. IInv /\ WellFormed(db) /\ ClaimsNameDocuments /\ DocumentsAssert /\ Nodes \cap Edges = {}
    BY DEF Disputed, IInv, TypeOK
  <1>2. ASSUME db'.has \cap Claiming = db.has \cap Claiming, db'.doc = db.doc PROVE Goal
    BY <1>1, <1>2 DEF ClaimsNameDocuments, DocumentsAssert, Claiming
  <1>3. ASSUME WriteNode(x) PROVE Goal
    <2>1. /\ Item(x) \in Nodes /\ SourceOf[x] \in Sources
          /\ db' = MergeNode(db, Item(x), SourceOf[x])
      BY <1>3, ScriptFacts DEF WriteNode
    <2>2. db'.has = db.has \cup {Item(x)} /\ db'.doc = db.doc
      BY <1>1, <2>1, MergeNodeFits, MergeNodeRecords
    <2>3. Item(x) \notin Claiming
      BY <1>1, <2>1 DEF Claiming
    <2>4. QED BY <1>2, <2>2, <2>3
  <1>4. ASSUME WriteEdge(x) PROVE Goal
    <2>1. /\ Writing(x) /\ Item(x) \in Edges /\ SourceOf[x] \in Sources
          /\ db' = MergeEdge(db, Item(x), SourceOf[x], x)
      BY <1>4, ScriptFacts DEF WriteEdge, At
    <2>0. ASSUME ~(Ends(Item(x)) \subseteq db.has) PROVE Goal
      <3>1. db' = db
        BY <2>0, <2>1 DEF MergeEdge
      <3>2. QED BY <1>2, <3>1
    <2>2. SUFFICES ASSUME Ends(Item(x)) \subseteq db.has PROVE Goal
      BY <2>0
    <2>3. db'.has = db.has \cup {Item(x)}
      BY <1>1, <2>1, <2>2, MergeEdgeFits
    <2>4. Asserts(x, Item(x))
      BY <1>1, <2>1, WritingFacts DEF Asserts
    <2>5. CASE Item(x) \in db.has
      <3>1. db'.has = db.has /\ db'.doc = db.doc
        BY <1>1, <2>1, <2>2, <2>3, <2>5, MergeEdgeRecords
      <3>2. QED BY <1>2, <3>1
    <2>6. CASE Item(x) \notin db.has
      <3> DEFINE new == <<Item(x), x>>
      <3>1. new[1] = Item(x) /\ new[2] = x /\ db'.doc = db.doc \cup {new}
        BY <1>1, <2>1, <2>2, <2>6, MergeEdgeRecords
      <3>2. DocumentsAssert'
        <4>1. ASSUME NEW p \in db'.doc PROVE Asserts(p[2], p[1])
          BY <1>1, <2>4, <3>1, <4>1 DEF DocumentsAssert
        <4>2. QED BY <4>1 DEF DocumentsAssert, Asserts
      <3>3. ClaimsNameDocuments'
        BY <1>1, <2>3, <3>1 DEF ClaimsNameDocuments
      <3>4. QED BY <3>2, <3>3
    <2>7. QED BY <2>5, <2>6
  <1>5. ASSUME FlagClaims(x) PROVE Goal
    <2>1. Item(x) \in Edges /\ db' = Flag(db, Item(x))
      BY <1>1, <1>5 DEF FlagClaims, At, IInv, TypeOK, WriterTypeOK, Item
    <2>2. db'.has = db.has /\ db'.doc = db.doc
      BY <1>1, <2>1, FlagFits, FlagRecords
    <2>3. QED BY <1>2, <2>2
  <1>6. ASSUME RecordDispute(x) PROVE Goal
    <2>1. Writing(x) /\ Item(x) \in Edges /\ db' = MergeDispute(db, Item(x))
      BY <1>1, <1>6 DEF RecordDispute, At, IInv, TypeOK, WriterTypeOK, Item
    <2>2. ASSUME ~(Ends(Item(x)) \subseteq db.has) PROVE db' = db
      BY <2>1, <2>2 DEF MergeDispute
    <2>3. ASSUME Ends(Item(x)) \subseteq db.has
          PROVE  db'.has = db.has \cup {Dispute(Item(x))} /\ db'.doc = db.doc
      BY <1>1, <2>1, <2>3, MergeDisputeRecords
    <2>4. Dispute(Item(x)) \notin Claiming
      BY <2>1 DEF Dispute, Claiming, Claims, Edges
    <2>5. QED BY <1>2, <2>2, <2>3, <2>4
  <1> HIDE DEF Goal
  <1>7. ASSUME UNCHANGED db PROVE Goal
    BY <1>2, <1>7
  <1>8. Goal
    BY <1>3, <1>4, <1>5, <1>6, <1>7 DEF DocStep, StartDoc, Embedding, Scan, FailDoc
  <1>9. QED BY <1>8 DEF Goal

LEMMA RemovalClaims ==
  ASSUME Disputed, NEW s \in Sources, NEW items \in SUBSET db.has, db' = Disown(db, items, s)
  PROVE  ClaimsNameDocuments' /\ DocumentsAssert'
  <1>1. WellFormed(db)
    BY DEF Disputed, IInv, TypeOK
  <1>2. db'.has \subseteq db.has
    BY <1>1, DisownFits
  <1>3. db'.doc = {p \in db.doc : p[1] \in db'.has}
    BY <1>1, DisownRecords
  <1>4. DocumentsAssert'
    BY <1>3 DEF Disputed, DocumentsAssert, Asserts
  <1>5. ClaimsNameDocuments'
    <2>1. ASSUME NEW e \in db'.has, e \in Edges, e.kind \in Claims
          PROVE  \E d \in Docs : <<e, d>> \in db'.doc
      <3>1. PICK d \in Docs : <<e, d>> \in db.doc
        BY <1>2, <2>1 DEF Disputed, ClaimsNameDocuments
      <3>2. <<e, d>>[1] = e
        OBVIOUS
      <3>3. QED BY <1>3, <2>1, <3>1, <3>2
    <2>2. QED BY <2>1 DEF ClaimsNameDocuments
  <1>6. QED BY <1>4, <1>5

LEMMA DocDisowns ==
  ASSUME Disputed, DisputesAreTheDetectors, NEW x \in Docs, DocStep(x)
  PROVE  DisputesAreNobodys'
  <1>1. IInv /\ WellFormed(db) /\ DisputesAreNobodys
    BY DEF Disputed, IInv, TypeOK
  <1>2. UNCHANGED removing
    BY <1>1, DocAdds DEF storeFrame
  <1>3. ASSUME NEW y, db'.by = db.by \cup {<<y, SourceOf[x]>>},
               y \in Edges /\ y.kind = "CONFLICTS_WITH" => SourceOf[x] \notin Deletable
        PROVE  DisputesAreNobodys'
    <2> DEFINE new == <<y, SourceOf[x]>>
    <2>1. new[1] = y /\ new[2] = SourceOf[x] /\ \A p \in db'.by : p = new \/ p \in db.by
      BY <1>3
    <2> HIDE DEF new
    <2>2. QED BY <1>1, <1>2, <1>3, <2>1 DEF DisputesAreNobodys
  <1>4. CASE WriteNode(x)
    <2>1. /\ Item(x) \in Nodes /\ SourceOf[x] \in Sources
          /\ db' = MergeNode(db, Item(x), SourceOf[x])
      BY <1>4, ScriptFacts DEF WriteNode
    <2>2. Item(x) \notin Edges
      BY <2>1
    <2>3. QED BY <1>1, <1>3, <2>1, <2>2, MergeNodeFits
  <1>5. CASE WriteEdge(x)
    <2>1. /\ Writing(x) /\ Item(x) \in Edges /\ SourceOf[x] \in Sources
          /\ db' = MergeEdge(db, Item(x), SourceOf[x], x)
      BY <1>5, ScriptFacts DEF WriteEdge, At
    <2>2. ~(Ends(Item(x)) \subseteq db.has) => db'.by = db.by
      BY <2>1 DEF MergeEdge
    <2>3. Item(x).kind = "CONFLICTS_WITH" => SourceOf[x] \notin Deletable
      BY <1>1, <2>1, WritingFacts DEF DisputesAreTheDetectors
    <2>4. ASSUME db'.by = db.by PROVE DisputesAreNobodys'
      BY <1>1, <1>2, <2>4 DEF DisputesAreNobodys
    <2>5. QED BY <1>1, <1>3, <2>1, <2>2, <2>3, <2>4, MergeEdgeFits
  <1>6. CASE db'.by = db.by
    BY <1>1, <1>2, <1>6 DEF DisputesAreNobodys
  <1>7. ASSUME FlagClaims(x) PROVE db'.by = db.by
    BY <1>1, <1>7, FlagFits DEF FlagClaims, At, IInv, TypeOK, WriterTypeOK, Item
  <1>8. ASSUME RecordDispute(x) PROVE db'.by = db.by
    BY <1>1, <1>8, MergeDisputeFits DEF RecordDispute, At, IInv, TypeOK, WriterTypeOK, Item
  <1>9. QED
    BY <1>4, <1>5, <1>6, <1>7, <1>8 DEF DocStep, StartDoc, Embedding, Scan, FailDoc

-----------------------------------------------------------------------------
(* Two documents that have both merged their claims. *)
LEMMA MergedHolds ==
  ASSUME IInv, NEW d \in Docs, d \notin skipped, Live(SourceOf[d]), NEW e \in Edges, Merged(d, e),
         Ends(e) \cap Papers = {}
  PROVE  Holds(d, e) /\ e \in db.has /\ Asserts(d, e)
  <1>1. PICK i \in 1 .. Len(Script[d]) :
          Script[d][i] = e /\ (i < pos[d] \/ (i = pos[d] /\ check[d] # "merge"))
    BY DEF Merged
  <1>2. ~Excused(d, e)
    BY NamedIsNotLoose DEF Items, Excused
  <1>3. Holds(d, e)
    <2>1. CASE i < pos[d]
      <3>1. i \in 1 .. pos[d] - 1
        BY <2>1, ScriptFacts DEF IInv, TypeOK, WriterTypeOK
      <3>2. QED BY <1>1, <1>2, <3>1 DEF IInv, RunsHold
    <2>2. CASE i = pos[d] /\ check[d] # "merge"
      <3>1. Excused(d, Item(d)) \/ Holds(d, Item(d))
        BY <2>2 DEF IInv, WritersAreLive
      <3>2. Item(d) = e
        BY <1>1, <2>2 DEF Item
      <3>3. QED BY <1>2, <3>1, <3>2
    <2>3. QED BY <1>1, <2>1, <2>2
  <1>4. <<e, SourceOf[d]>>[1] = e /\ \A p \in db.by : p[1] \in db.has
    BY Parts DEF IInv, TypeOK
  <1>5. QED BY <1>1, <1>3, <1>4 DEF Holds, Asserts

LEMMA MeetingHolds ==
  ASSUME IInv, NEW d \in Docs, NEW c \in Docs, NEW e \in Contradicting, Meet(d, c, e)
  PROVE  /\ Holds(d, e) /\ e \in db.has /\ Holds(c, Opposite(e)) /\ Opposite(e) \in db.has
         /\ d # c
  <1>1. /\ e \in Edges /\ Opposite(e) \in Edges
        /\ Ends(e) \cap Papers = {} /\ Ends(Opposite(e)) \cap Papers = {}
    BY Opposites DEF Contradicting, Claiming
  <1>2. QED BY <1>1, MergedHolds DEF Meet

LEMMA MeetingsAreMutual ==
  ASSUME NEW d, NEW c, NEW e \in Contradicting
  PROVE  /\ Meet(d, c, e) => Meet(c, d, Opposite(e))
         /\ Noticed(c, d, Opposite(e)) => Noticed(d, c, e)
  BY Opposites DEF Meet, Noticed, Settled

LEMMA UntouchedStays ==
  ASSUME NEW d \in Docs, Untouched(d), NEW e, NEW steps
  PROVE  /\ Merged(d, e)' <=> Merged(d, e)
         /\ Checks(d, e, steps) => Checks(d, e, steps)'
  BY DEF Untouched, Merged, Checks, Writing, Done, Item

(* A statement of x between two other documents changes nothing. *)
LEMMA BystandersKeep ==
  ASSUME Disputed, NEW x \in Docs, DocStep(x), NEW d \in Docs \ {x}, NEW c \in Docs \ {x},
         NEW e \in Contradicting, Meet(d, c, e)'
  PROVE  Noticed(d, c, e)'
  <1>1. /\ Untouched(d) /\ Untouched(c) /\ UNCHANGED storeFrame
        /\ db.has \subseteq db'.has /\ db.flagged \subseteq db'.flagged
    BY DocAdds DEF Disputed
  <1>2. Meet(d, c, e)
    BY <1>1, UntouchedStays DEF Meet, Untouched, Live, storeFrame, Asserts
  <1>3. Noticed(d, c, e)
    BY <1>2 DEF Disputed, ContradictionsMeet
  <1>4. Settled(e) => Settled(e)'
    BY <1>1 DEF Settled
  <1>5. Dispute(e) \in db.has => Dispute(e) \in db'.has
    BY <1>1
  <1>6. QED BY <1>1, <1>3, <1>4, <1>5, UntouchedStays DEF Noticed

(* The document that moves on has merged what it had merged, and its item. *)
LEMMA AdvanceMerges ==
  ASSUME IInv, NEW x \in Docs, Writing(x), NEW e \in Edges, Merged(x, e)',
         \/ pos'[x] = pos[x] + 1 /\ check'[x] = "merge"
         \/ pos'[x] = pos[x]
  PROVE  Merged(x, e) \/ Item(x) = e
  <1>1. pos[x] \in Nat /\ Item(x) = Script[x][pos[x]]
    BY WritingFacts
  <1>2. PICK i \in 1 .. Len(Script[x]) :
          Script[x][i] = e /\ (i < pos'[x] \/ (i = pos'[x] /\ check'[x] # "merge"))
    BY DEF Merged
  <1>3. i \in Nat
    BY ScriptFacts
  <1>4. i < pos[x] \/ i = pos[x]
    BY <1>1, <1>2, <1>3
  <1>5. QED BY <1>1, <1>2, <1>4 DEF Merged

(* What was noticed and does not hang on x's own check stays so. *)
LEMMA NoticeCarries ==
  ASSUME Disputed, NEW x \in Docs, DocStep(x), NEW c \in Docs \ {x},
         NEW e \in Contradicting, Meet(x, c, e)', Merged(x, e), x \notin skipped,
         ~Checks(x, e, {"scan", "flag"}),
         Checks(x, e, {"dispute"}) => Dispute(e) \in db'.has
  PROVE  Noticed(x, c, e)'
  <1>1. /\ Untouched(c) /\ UNCHANGED storeFrame
        /\ db.has \subseteq db'.has /\ db.flagged \subseteq db'.flagged
    BY DocAdds DEF Disputed
  <1>2. Meet(x, c, e)
    BY <1>1, UntouchedStays DEF Meet, Untouched, Live, storeFrame, Asserts
  <1>3. Noticed(x, c, e)
    BY <1>2 DEF Disputed, ContradictionsMeet
  <1>4. Settled(e) => Settled(e)'
    BY <1>1 DEF Settled
  <1>5. Dispute(e) \in db.has => Dispute(e) \in db'.has
    BY <1>1
  <1>6. QED BY <1>1, <1>3, <1>4, <1>5, UntouchedStays DEF Noticed

(* A scan finds a claim that another document makes and its own does not. *)
LEMMA ScanFinds ==
  ASSUME Disputed, NEW x \in Docs, NEW e \in Contradicting, Opposite(e) \in db.has,
         ~Asserts(x, Opposite(e))
  PROVE  Opposed(db, e, x)
  <1>1. Opposite(e) \in Edges /\ Opposite(e).kind \in Claims /\ Ends(e) \cap Papers = {}
    BY Opposites DEF Contradicting, Claiming
  <1>2. PICK d \in Docs : <<Opposite(e), d>> \in db.doc
    BY <1>1 DEF Disputed, ClaimsNameDocuments
  <1>3. <<Opposite(e), d>>[1] = Opposite(e) /\ <<Opposite(e), d>>[2] = d
    OBVIOUS
  <1>4. Asserts(d, Opposite(e))
    BY <1>2, <1>3 DEF Disputed, DocumentsAssert
  <1>5. d # x
    BY <1>4
  <1>6. \E p \in db.doc : p[1] = Opposite(e) /\ p[2] # x
    BY <1>2, <1>3, <1>5
  <1>7. QED BY <1>1, <1>6 DEF Opposed

LEMMA WriterKeeps ==
  ASSUME Disputed, NEW x \in Docs, DocStep(x), NEW c \in Docs \ {x},
         NEW e \in Contradicting, Meet(x, c, e)'
  PROVE  Noticed(x, c, e)'
  <1>1. /\ IInv /\ WellFormed(db) /\ e \in Edges /\ e.kind \in Claims /\ e \in Items
        /\ e \notin Nodes /\ e # Embed /\ Ends(e) \cap Papers = {}
    BY DEF Disputed, IInv, TypeOK, Contradicting, Claiming, Items
  <1>2. Opposite(e) \in db.has
    <2>1. Untouched(c) /\ UNCHANGED storeFrame
      BY <1>1, DocAdds
    <2>2. c \notin skipped /\ Live(SourceOf[c]) /\ Merged(c, Opposite(e))
      BY <2>1, UntouchedStays DEF Meet, Untouched, Live, storeFrame
    <2>3. Opposite(e) \in Edges /\ Ends(Opposite(e)) = Ends(e)
      BY Opposites DEF Contradicting, Claiming
    <2>4. QED BY <1>1, <2>2, <2>3, MergedHolds
  <1>3. ~Asserts(x, Opposite(e)) /\ x \notin skipped' /\ Merged(x, e)'
    BY DEF Meet, Asserts
  <1> DEFINE Moves == /\ Writing(x)
                      /\ \/ pos'[x] = pos[x] + 1 /\ check'[x] = "merge"
                         \/ pos'[x] = pos[x]
  <1>4. ASSUME Moves, Item(x) # e PROVE Noticed(x, c, e)'
    <2>1. Merged(x, e) /\ x \notin skipped
      BY <1>1, <1>3, <1>4, AdvanceMerges, WritingFacts
    <2>2. QED BY <1>4, <2>1, NoticeCarries DEF Checks
  <1>5. CASE StartDoc(x)
    <2>1. check[x] = "merge"
      BY <1>1, <1>5 DEF StartDoc, Start, IInv, WritersAreLive
    <2>2. check'[x] = check[x] /\ (pos'[x] = 1 \/ x \in skipped')
      BY <1>1, <1>5 DEF StartDoc, Start, IInv, TypeOK, WriterTypeOK
    <2>3. QED BY <1>3, <2>1, <2>2 DEF Merged
  <1>6. CASE FailDoc(x)
    <2>1. pos'[x] = 0
      BY <1>1, <1>6 DEF FailDoc, Fail, IInv, TypeOK, WriterTypeOK
    <2>2. QED BY <1>3, <2>1, ScriptFacts DEF Merged
  <1>7. ASSUME Advance(x), Writing(x) PROVE Moves
    BY <1>1, <1>7 DEF Advance, IInv, TypeOK, WriterTypeOK
  <1>8. ASSUME NEW st, Enter(x, st), Writing(x) PROVE Moves /\ check'[x] = st
    BY <1>1, <1>8 DEF Enter, IInv, TypeOK, WriterTypeOK
  <1>9. ASSUME NEW st, Enter(x, st), Writing(x), Item(x) = e PROVE Checks(x, e, {st})'
    <2>1. check'[x] = st
      BY <1>8, <1>9
    <2>2. QED BY <1>9, <2>1 DEF Enter, Checks, Writing, Done, Item
  <1>10. CASE WriteNode(x)
    BY <1>1, <1>4, <1>7, <1>10 DEF WriteNode, At
  <1>11. CASE Embedding(x)
    <2>1. Writing(x) /\ Item(x) = Embed /\ pos'[x] = pos[x] + 1 /\ check'[x] = "merge"
      BY <1>1, <1>11 DEF Embedding, WriteChunks, At, IInv, TypeOK, WriterTypeOK
    <2>2. QED BY <1>1, <1>4, <2>1
  <1>12. CASE WriteEdge(x)
    <2>1. Writing(x)
      BY <1>12 DEF WriteEdge, At
    <2>2. CASE Item(x) = e
      <3>1. Enter(x, "scan")
        BY <1>1, <1>12, <2>2 DEF WriteEdge, AfterEdge
      <3>2. Checks(x, e, {"scan"})'
        BY <1>9, <2>1, <2>2, <3>1
      <3>3. QED BY <3>2 DEF Noticed, Checks
    <2>3. CASE Item(x) # e
      <3>1. Moves
        BY <1>7, <1>8, <1>12, <2>1 DEF WriteEdge, AfterEdge
      <3>2. QED BY <1>4, <2>3, <3>1
    <2>4. QED BY <2>2, <2>3
  <1>13. CASE Scan(x)
    <2>1. Writing(x)
      BY <1>13 DEF Scan, At
    <2>2. CASE Item(x) = e
      <3>1. Enter(x, "flag")
        BY <1>2, <1>3, <1>13, <2>2, ScanFinds DEF Scan
      <3>2. Checks(x, e, {"flag"})'
        BY <1>9, <2>1, <2>2, <3>1
      <3>3. QED BY <3>2 DEF Noticed, Checks
    <2>3. CASE Item(x) # e
      <3>1. Moves
        BY <1>7, <1>8, <1>13, <2>1 DEF Scan
      <3>2. QED BY <1>4, <2>3, <3>1
    <2>4. QED BY <2>2, <2>3
  <1>14. CASE FlagClaims(x)
    <2>1. Writing(x) /\ check[x] = "flag" /\ Enter(x, "dispute") /\ db' = Flag(db, Item(x))
      BY <1>14 DEF FlagClaims, At
    <2>2. CASE Item(x) = e
      <3>1. e \in db.has
        <4>1. Merged(x, e)
          BY <1>1, <2>1, <2>2, WritingFacts DEF Merged
        <4>2. QED BY <1>1, <2>1, <4>1, MergedHolds, WritingFacts
      <3>2. Settled(e)'
        BY <1>1, <1>2, <2>1, <2>2, <3>1, FlagRecords DEF Settled
      <3>3. Checks(x, e, {"dispute"})'
        BY <1>9, <2>1, <2>2
      <3>4. QED BY <3>2, <3>3 DEF Noticed
    <2>3. CASE Item(x) # e
      BY <1>4, <1>8, <2>1, <2>3
    <2>4. QED BY <2>2, <2>3
  <1>15. CASE RecordDispute(x)
    <2>1. Writing(x) /\ check[x] = "dispute" /\ Advance(x) /\ db' = MergeDispute(db, Item(x))
      BY <1>15 DEF RecordDispute, At
    <2>2. CASE Item(x) = e
      <3>1. Merged(x, e) /\ x \notin skipped
        BY <1>1, <2>1, <2>2, WritingFacts DEF Merged
      <3>2. Dispute(e) \in db'.has
        <4>1. Ends(e) \subseteq db.has
          BY <1>1, <2>1, <2>2, EndsAreWritten, NamedIsNotLoose
        <4>2. QED BY <1>1, <2>1, <2>2, <4>1, MergeDisputeRecords
      <3>3. QED BY <2>1, <3>1, <3>2, NoticeCarries DEF Checks
    <2>3. CASE Item(x) # e
      BY <1>4, <1>7, <2>1, <2>3
    <2>4. QED BY <2>2, <2>3
  <1>16. QED
    BY <1>5, <1>6, <1>10, <1>11, <1>12, <1>13, <1>14, <1>15 DEF DocStep

LEMMA DocMeets ==
  ASSUME Disputed, NEW x \in Docs, DocStep(x) PROVE ContradictionsMeet'
  <1>1. SUFFICES ASSUME NEW d \in Docs, NEW c \in Docs, NEW e \in Contradicting, Meet(d, c, e)'
                 PROVE  Noticed(d, c, e)'
    BY DEF ContradictionsMeet
  <1>2. Opposite(e) \in Contradicting /\ Opposite(Opposite(e)) = e
    BY Opposites
  <1>3. d # c
    BY <1>1, <1>2 DEF Meet, Merged, Asserts
  <1>4. CASE d = x
    BY <1>1, <1>3, <1>4, WriterKeeps
  <1>5. CASE c = x
    <2>1. Meet(c, d, Opposite(e))'
      BY <1>1, <1>2 DEF Meet
    <2>2. Noticed(c, d, Opposite(e))'
      BY <1>2, <1>3, <1>5, <2>1, WriterKeeps
    <2>3. QED BY <1>2, <2>2, Opposites DEF Noticed, Settled
  <1>6. CASE d # x /\ c # x
    BY <1>1, <1>6, BystandersKeep
  <1>7. QED BY <1>4, <1>5, <1>6

-----------------------------------------------------------------------------
(* A deletion leaves the claims of those who are left, and their dispute:   *)
(* its ends are the claims' ends, and nobody who can be deleted asserts it. *)
LEMMA DisputeIsSpared ==
  ASSUME Disputed, NEW s \in Sources, s \in Deletable, NEW items \in SUBSET db.has,
         NEW d \in Docs, SourceOf[d] # s, NEW e \in Contradicting, Holds(d, e),
         Dispute(e) \in db.has
  PROVE  Dispute(e) \in Disown(db, items, s).has
  <1> DEFINE h == Disown(db, items, s)
             doomed == Doomed(db, items, s)
  <1>1. WellFormed(db) /\ e \in Edges /\ Dispute(e) \in Edges /\ SourceOf[d] \in Sources
        /\ Dispute(e).kind = "CONFLICTS_WITH" /\ Ends(Dispute(e)) = Ends(e)
    BY Opposites, ScriptFacts DEF Disputed, IInv, TypeOK, Contradicting, Claiming
  <1>2. Dispute(e) \notin doomed
    <2>1. <<Dispute(e), s>>[1] = Dispute(e) /\ <<Dispute(e), s>>[2] = s
      OBVIOUS
    <2>2. <<Dispute(e), s>> \notin db.by
      BY <1>1, <2>1 DEF Disputed, DisputesAreNobodys
    <2>3. QED BY <2>2 DEF Doomed
  <1>3. ASSUME NEW n \in Ends(e) PROVE n \notin doomed
    <2>1. <<e, SourceOf[d]>>[1] = e /\ <<e, SourceOf[d]>>[2] = SourceOf[d]
      OBVIOUS
    <2>2. <<n, SourceOf[d]>> \in db.by
      BY <1>1, <2>1, NamedIsNotLoose DEF Disputed, IInv, EdgesAreAnchored, Holds, Contradicting
    <2>3. QED BY <1>1, <2>2 DEF Doomed, Alone
  <1>4. h.has = {x \in db.has \ doomed : x \in Nodes \/ Ends(x) \cap doomed = {}}
    BY <1>1, DisownFits
  <1> HIDE DEF h, doomed
  <1>5. Dispute(e) \in h.has
    BY <1>1, <1>2, <1>3, <1>4
  <1>6. QED BY <1>5 DEF h

LEMMA RemovalMeets ==
  ASSUME Disputed, NEW s \in Sources, s \in Deletable, NEW items \in SUBSET db.has,
         db' = Disown(db, items, s),
         \A d \in Docs : Live(SourceOf[d])' => Live(SourceOf[d]) /\ SourceOf[d] # s,
         UNCHANGED <<pos, check, skipped>>
  PROVE  ContradictionsMeet'
  <1>1. SUFFICES ASSUME NEW d \in Docs, NEW c \in Docs, NEW e \in Contradicting, Meet(d, c, e)'
                 PROVE  Noticed(d, c, e)'
    BY DEF ContradictionsMeet
  <1>2. Meet(d, c, e) /\ SourceOf[d] # s /\ SourceOf[c] # s
    BY <1>1 DEF Meet, Merged, Asserts
  <1>3. Noticed(d, c, e)
    BY <1>2 DEF Disputed, ContradictionsMeet
  <1>4. IInv /\ WellFormed(db) /\ Holds(d, e) /\ Holds(c, Opposite(e))
    BY <1>2, MeetingHolds DEF Disputed, IInv, TypeOK
  <1>5. ASSUME NEW x, NEW t, <<x, t>> \in db'.by PROVE x \in db'.has
    <2>1. <<x, t>>[1] = x /\ WellFormed(db')
      BY <1>4, DisownFits
    <2>2. QED BY <1>5, <2>1, Parts
  <1>6. e \in db'.has /\ Opposite(e) \in db'.has
    <2>1. ~Excused(d, e) /\ ~Excused(c, Opposite(e))
      <3>1. \A f \in Contradicting : Ends(f) \cap Papers = {} /\ f # Embed
        BY DEF Contradicting, Claiming, Items
      <3>2. Opposite(e) \in Contradicting
        BY Opposites
      <3>3. QED BY <3>1, <3>2, NamedIsNotLoose DEF Excused
    <2>2. QED BY <1>2, <1>4, <1>5, <2>1, WrittenIsSpared
  <1>7. db'.flagged = db.flagged \cap db'.has
    BY <1>4, DisownRecords
  <1>8. Settled(e) => Settled(e)'
    BY <1>6, <1>7 DEF Settled
  <1>9. Dispute(e) \in db.has => Dispute(e) \in db'.has
    BY <1>2, <1>4, DisputeIsSpared
  <1>10. QED BY <1>3, <1>8, <1>9 DEF Noticed, Checks, Writing, Done, Item

LEMMA RemoveEdgesDisputes ==
  ASSUME Disputed, NEW s \in Sources, RemoveEdges(s) PROVE Disputed'
  <1>1. EdgesOf(db) \in SUBSET db.has /\ WellFormed(db) /\ db' = Disown(db, EdgesOf(db), s)
        /\ s \in Deletable /\ removing' = s /\ UNCHANGED <<pos, check, skipped>>
    BY DEF EdgesOf, RemoveEdges, writerVars, Disputed, IInv, TypeOK
  <1>2. \A d \in Docs : Live(SourceOf[d])' => Live(SourceOf[d]) /\ SourceOf[d] # s
    BY ScriptFacts DEF RemoveEdges, Live
  <1>3. DisputesAreNobodys'
    BY <1>1, DisownFits DEF Disputed, DisputesAreNobodys
  <1>4. IInv'
    BY RemoveEdgesKeeps DEF Disputed
  <1>5. QED BY <1>1, <1>2, <1>3, <1>4, RemovalMeets, RemovalClaims DEF Disputed

LEMMA RemoveNodesDisputes == ASSUME Disputed, RemoveNodes PROVE Disputed'
  <1>1. /\ NodesOf(db) \in SUBSET db.has /\ WellFormed(db) /\ removing \in Sources
        /\ db' = Disown(db, NodesOf(db), removing)
        /\ removing \in Deletable /\ removing' = None /\ UNCHANGED <<pos, check, skipped>>
    BY DEF NodesOf, RemoveNodes, Disputed, DisputesAreNobodys, IInv, TypeOK
  <1>2. \A d \in Docs : Live(SourceOf[d])' => Live(SourceOf[d]) /\ SourceOf[d] # removing
    BY ScriptFacts DEF RemoveNodes, Live
  <1>3. DisputesAreNobodys'
    BY <1>1, DisownFits DEF Disputed, DisputesAreNobodys
  <1>4. IInv'
    BY RemoveNodesKeeps DEF Disputed
  <1>5. QED BY <1>1, <1>2, <1>3, <1>4, RemovalMeets, RemovalClaims DEF Disputed

-----------------------------------------------------------------------------
LEMMA InitDisputes == Init => Disputed
  <1> SUFFICES ASSUME Init PROVE Disputed
    OBVIOUS
  <1>1. IInv
    BY InitHolds
  <1>2. db.has = {} /\ db.by = {} /\ db.doc = {} /\ removing = None
    BY DEF Init, Empty
  <1>3. ASSUME NEW d \in Docs, NEW e PROVE ~Merged(d, e)
    BY ScriptFacts DEF Init, WriterInit, Merged
  <1>4. ContradictionsMeet
    BY <1>3 DEF ContradictionsMeet, Meet
  <1>5. QED
    BY <1>1, <1>2, <1>4 DEF Disputed, ClaimsNameDocuments, DocumentsAssert, DisputesAreNobodys

LEMMA NextDisputes ==
  ASSUME DisputesAreTheDetectors, Disputed, [Next]_vars PROVE Disputed'
  <1>1. ASSUME NEW d \in Docs, DocStep(d) PROVE Disputed'
    <2>1. IInv'
      BY <1>1, NextKeeps DEF Disputed, Next
    <2>2. QED BY <1>1, <2>1, DocClaims, DocDisowns, DocMeets DEF Disputed
  <1>2. CASE UNCHANGED vars
    <2>1. IInv'
      BY NextKeeps DEF Disputed
    <2>2. ClaimsNameDocuments' /\ DocumentsAssert' /\ DisputesAreNobodys'
      BY <1>2 DEF vars, Disputed, ClaimsNameDocuments, DocumentsAssert, DisputesAreNobodys, Asserts
    <2>3. ContradictionsMeet'
      BY <1>2 DEF vars, writerVars, Disputed, ContradictionsMeet, Meet, Noticed, Merged, Checks,
           Settled, Asserts, Live, Writing, Done, Item
    <2>4. QED BY <2>1, <2>2, <2>3 DEF Disputed
  <1>3. QED BY <1>1, <1>2, RemoveEdgesDisputes, RemoveNodesDisputes DEF Next

(* Whatever the interleaving of the writes and checks of any number of        *)
(* documents, and whatever is deleted meanwhile, two documents of live        *)
(* sources that contradict each other about anything but papers end flagged   *)
(* and in dispute, if the LLM names no dispute of its own in a source that    *)
(* can be deleted (check_and_flag_conflict, remove_source_from_graph).        *)
THEOREM ContradictionsAreFound ==
  ASSUME DisputesAreTheDetectors PROVE Spec => []ContradictionsAreFlagged
  <1>1. ASSUME Disputed PROVE ContradictionsAreFlagged
    <2>1. SUFFICES ASSUME NEW d \in Docs, NEW c \in Docs, Done(d), Done(c),
                          Live(SourceOf[d]), Live(SourceOf[c]), d \notin skipped, c \notin skipped,
                          NEW e \in EdgesOf(db), e.kind = "SUPPORTS", Ends(e) \cap Papers = {},
                          Asserts(d, e), ~Asserts(d, Opposite(e)),
                          Asserts(c, Opposite(e)), ~Asserts(c, e)
                   PROVE  {e, Opposite(e)} \subseteq db.flagged /\ Dispute(e) \in db.has
      <3>1. SUFFICES ASSUME NEW d1 \in {x \in Docs : Done(x) /\ Live(SourceOf[x])} \ (skipped \cup unchecked),
                            NEW d2 \in {x \in Docs : Done(x) /\ Live(SourceOf[x])} \ (skipped \cup unchecked),
                            NEW e \in {f \in EdgesOf(db) : f.kind = "SUPPORTS" /\ Ends(f) \cap Papers = {}},
                            Asserts(d1, e), ~Asserts(d1, Opposite(e)),
                            Asserts(d2, Opposite(e)), ~Asserts(d2, e)
                     PROVE  {e, Opposite(e)} \subseteq db.flagged /\ Dispute(e) \in db.has
        BY DEF ContradictionsAreFlagged
      <3>2. \A x \in {d1, d2} : x \in Docs /\ Done(x) /\ Live(SourceOf[x]) /\ x \notin skipped
        OBVIOUS
      <3>3. e \in EdgesOf(db) /\ e.kind = "SUPPORTS" /\ Ends(e) \cap Papers = {}
        OBVIOUS
      <3>4. QED BY <3>1, <3>2, <3>3
    <2>2. e \in Contradicting
      <3>1. db.has \subseteq Items
        BY <1>1, Parts DEF Disputed, IInv, TypeOK
      <3>2. e \in Edges
        BY <3>1 DEF EdgesOf, Items
      <3>3. QED BY <2>1, <3>2 DEF Contradicting, Claiming, Claims
    <2>3. ASSUME NEW x \in Docs, Done(x), NEW f, Asserts(x, f) PROVE Merged(x, f) /\ ~Writing(x)
      <3>1. \A i \in 1 .. Len(Script[x]) : i < pos[x]
        BY <2>3, ScriptFacts DEF Done
      <3>2. QED BY <2>3, <3>1 DEF Asserts, Merged, Writing
    <2>4. Merged(d, e) /\ Merged(c, Opposite(e)) /\ ~Writing(d) /\ ~Writing(c)
      BY <2>1, <2>3
    <2>5. Meet(d, c, e)
      BY <2>1, <2>4 DEF Meet
    <2>6. Noticed(d, c, e)
      BY <1>1, <2>2, <2>5 DEF Disputed, ContradictionsMeet
    <2>7. QED BY <2>4, <2>6 DEF Noticed, Checks, Settled
  <1>2. Disputed /\ [Next]_vars => Disputed'
    BY NextDisputes
  <1>3. QED BY <1>1, <1>2, InitDisputes, PTL DEF Spec
-----------------------------------------------------------------------------
(* The shards (ShardRouter). *)
USE ShardRouterAssumption

(* A shard holds its own nodes, and stubs of others, which no source asserts  *)
(* there; its own edges, both of whose ends it has.                          *)
Fits(i, g) ==
  /\ WellFormed(g)
  /\ \A n \in NodesOf(g) : n \in g.stubs <=> Home[n] # i
  /\ \A e \in EdgesOf(g) : HomeOf(e) = i /\ Ends(e) \subseteq g.has
  /\ \A p \in g.by : p[1] \in Nodes => Home[p[1]] = i

Stands(n) == n \in shard[Home[n]].has

ShardsFit ==
  /\ shard \in [Shards -> Databases]
  /\ \A i \in Shards : Fits(i, shard[i])

(* A stub stands for a node that is on its own shard, if it is no paper ... *)
StubsStandForNodes == \A i \in Shards : \A n \in shard[i].stubs \ Papers : Stands(n)

(* ... as is every node a document has written, also between its steps; and  *)
(* while an edge is written and checked, its target is on the edge's shard.  *)
RunsStand ==
  \A d \in Docs : Writing(d) =>
    \A j \in 1 .. pos[d] - 1 : Script[d][j] \in Nodes => Stands(Script[d][j])

ChecksHaveTargets ==
  \A d \in Docs : check[d] # "merge" => Writing(d) /\ Item(d).to \in shard[HomeOf(Item(d))].has

ShardInv == WriterTypeOK /\ ShardsFit /\ StubsStandForNodes /\ RunsStand /\ ChecksHaveTargets

LEMMA HomeIsAShard ==
  /\ \A n \in Nodes : Home[n] \in Shards
  /\ \A e \in Edges : e.from \in Nodes /\ e.to \in Nodes /\ HomeOf(e) \in Shards
  BY DEF HomeOf, Edges

LEMMA ShardFacts ==
  ASSUME ShardsFit, NEW i \in Shards
  PROVE  /\ shard[i] \in Databases /\ WellFormed(shard[i])
         /\ \A n \in Nodes : n \in shard[i].has => (n \in shard[i].stubs <=> Home[n] # i)
         /\ \A e \in Edges : e \in shard[i].has => HomeOf(e) = i /\ Ends(e) \subseteq shard[i].has
         /\ \A p \in shard[i].by : p[1] \in Nodes => Home[p[1]] = i
  BY DEF ShardsFit, Fits, NodesOf, EdgesOf

LEMMA ShardInitHolds == RouterInit => ShardInv
  <1> SUFFICES ASSUME RouterInit PROVE ShardInv
    OBVIOUS
  <1>1. WriterTypeOK
    BY ScriptFacts DEF RouterInit, WriterInit, WriterTypeOK
  <1>2. ShardsFit
    BY EmptyFits DEF RouterInit, ShardsFit, Fits, NodesOf, EdgesOf, Empty, WellFormed
  <1>3. StubsStandForNodes
    BY DEF RouterInit, StubsStandForNodes, Empty
  <1>4. RunsStand /\ ChecksHaveTargets
    BY DEF RouterInit, WriterInit, RunsStand, ChecksHaveTargets, Writing
  <1>5. QED BY <1>1, <1>2, <1>3, <1>4 DEF ShardInv

(* A statement on a shard.  The shards only grow. *)
LEMMA StatementFits ==
  ASSUME ShardInv, NEW i \in Shards, NEW new, On(i, new), Fits(i, new), shard[i].has \subseteq new.has,
         \A n \in new.stubs \ Papers : Stands(n)
  PROVE  /\ ShardsFit' /\ StubsStandForNodes'
         /\ \A j \in Shards : shard[j].has \subseteq shard'[j].has
         /\ \A n \in Nodes : Stands(n) => Stands(n)'
         /\ shard'[i] = new
  <1>1. shard' = [shard EXCEPT ![i] = new] /\ shard \in [Shards -> Databases] /\ new \in Databases
    BY DEF On, ShardInv, ShardsFit, Fits, WellFormed
  <1>2. \A j \in Shards : shard'[j] = IF j = i THEN new ELSE shard[j]
    BY <1>1
  <1>3. shard' \in [Shards -> Databases]
    BY <1>1
  <1>4. \A j \in Shards : Fits(j, shard'[j])
    BY <1>2 DEF ShardInv, ShardsFit
  <1>5. \A j \in Shards : shard[j].has \subseteq shard'[j].has
    BY <1>2
  <1>6. \A n \in Nodes : Stands(n) => Stands(n)'
    BY <1>5, HomeIsAShard DEF Stands
  <1>7. ASSUME NEW j \in Shards, NEW n \in shard'[j].stubs, n \notin Papers PROVE Stands(n)'
    <2>1. n \in Nodes
      BY <1>4, <1>7 DEF Fits, WellFormed, Databases
    <2>2. Stands(n)
      BY <1>2, <1>7 DEF ShardInv, StubsStandForNodes
    <2>3. QED BY <1>6, <2>1, <2>2
  <1>8. ShardsFit'
    BY <1>3, <1>4 DEF ShardsFit
  <1>9. StubsStandForNodes'
    BY <1>7 DEF StubsStandForNodes
  <1>10. QED BY <1>2, <1>5, <1>6, <1>8, <1>9

LEMMA PositionInScript ==
  ASSUME WriterTypeOK, NEW d \in Docs, Writing(d)
  PROVE  /\ pos[d] \in 1 .. Len(Script[d]) /\ Len(Script[d]) \in Nat
         /\ Item(d) \in Items \cup {Embed}
  BY ScriptFacts DEF WriterTypeOK, Writing, Done, Item

(* A document moves on, to the next item or the next statement. *)
LEMMA RouterAdvances ==
  ASSUME ShardInv, NEW d \in Docs, Writing(d),
         \A n \in Nodes : Stands(n) => Stands(n)',
         \A j \in Shards : shard[j].has \subseteq shard'[j].has,
         Item(d) \in Nodes => Item(d) \in shard'[Home[Item(d)]].has,
         pos' = [pos EXCEPT ![d] = @ + 1], check' = [check EXCEPT ![d] = "merge"],
         embedded' \subseteq Docs, UNCHANGED <<tries, skipped, unchecked>>
  PROVE  WriterTypeOK' /\ RunsStand' /\ ChecksHaveTargets'
  <1>1. pos[d] \in 1 .. Len(Script[d]) /\ Len(Script[d]) \in Nat
    BY PositionInScript DEF ShardInv
  <1>2. \A c \in Docs : pos'[c] = IF c = d THEN pos[d] + 1 ELSE pos[c]
    BY DEF ShardInv, WriterTypeOK
  <1>3. \A c \in Docs : check'[c] = IF c = d THEN "merge" ELSE check[c]
    BY DEF ShardInv, WriterTypeOK
  <1>4. WriterTypeOK'
    BY <1>1, <1>2, <1>3 DEF ShardInv, WriterTypeOK
  <1>5. ASSUME NEW c \in Docs, c # d
        PROVE  (Writing(c)' <=> Writing(c)) /\ Item(c)' = Item(c)
    BY <1>2, <1>5 DEF Writing, Done, Item
  <1>6. RunsStand'
    <2>1. SUFFICES ASSUME NEW c \in Docs, Writing(c)', NEW j \in 1 .. pos'[c] - 1, Script[c][j] \in Nodes
                   PROVE  Stands(Script[c][j])'
      BY DEF RunsStand
    <2>2. CASE c # d
      BY <1>2, <1>5, <2>1, <2>2 DEF ShardInv, RunsStand
    <2>3. CASE c = d /\ j \in 1 .. pos[d] - 1
      BY <2>1, <2>3 DEF ShardInv, RunsStand
    <2>4. CASE c = d /\ j = pos[d]
      BY <2>1, <2>4 DEF Item, Stands
    <2>5. QED BY <1>1, <1>2, <2>1, <2>2, <2>3, <2>4
  <1>7. ChecksHaveTargets'
    <2>1. SUFFICES ASSUME NEW c \in Docs, check'[c] # "merge"
                   PROVE  Writing(c)' /\ Item(c)'.to \in shard'[HomeOf(Item(c)')].has
      BY DEF ChecksHaveTargets, HomeOf
    <2>2. c # d /\ check[c] # "merge"
      BY <1>3, <2>1
    <2>3. Writing(c) /\ Item(c).to \in shard[HomeOf(Item(c))].has /\ Item(c) \in Edges
      BY <2>2 DEF ShardInv, ChecksHaveTargets, WriterTypeOK, Item
    <2>4. QED BY <1>5, <2>2, <2>3, HomeIsAShard
  <1>8. QED BY <1>4, <1>6, <1>7

LEMMA RouterEnters ==
  ASSUME ShardInv, NEW d \in Docs, Writing(d), Item(d) \in Edges,
         \A n \in Nodes : Stands(n) => Stands(n)',
         \A j \in Shards : shard[j].has \subseteq shard'[j].has,
         Item(d).to \in shard'[HomeOf(Item(d))].has,
         NEW st \in {"stubbed", "scan", "flag", "dispute"}, Enter(d, st)
  PROVE  WriterTypeOK' /\ RunsStand' /\ ChecksHaveTargets'
  <1>1. \A c \in Docs : check'[c] = IF c = d THEN st ELSE check[c]
    BY DEF Enter, ShardInv, WriterTypeOK
  <1>2. WriterTypeOK'
    BY <1>1 DEF Enter, ShardInv, WriterTypeOK, Writing, Item
  <1>3. \A c \in Docs : (Writing(c)' <=> Writing(c)) /\ Item(c)' = Item(c)
    BY DEF Enter, Writing, Done, Item
  <1>4. RunsStand'
    BY <1>3 DEF Enter, ShardInv, RunsStand
  <1>5. ChecksHaveTargets'
    <2>1. SUFFICES ASSUME NEW c \in Docs, check'[c] # "merge"
                   PROVE  Writing(c)' /\ Item(c)'.to \in shard'[HomeOf(Item(c)')].has
      BY DEF ChecksHaveTargets, HomeOf
    <2>2. CASE c = d
      BY <1>3, <2>2
    <2>3. CASE c # d
      <3>1. Writing(c) /\ Item(c).to \in shard[HomeOf(Item(c))].has /\ Item(c) \in Edges
        BY <1>1, <2>1, <2>3 DEF ShardInv, ChecksHaveTargets, WriterTypeOK, Item
      <3>2. QED BY <1>3, <3>1, HomeIsAShard
    <2>4. QED BY <2>2, <2>3
  <1>6. QED BY <1>2, <1>4, <1>5

(* Both ends of the edge a document has come to are there, but for papers it  *)
(* did not write; without citations between documents, no document did.      *)
LEMMA EndsStand ==
  ASSUME ShardInv, NEW d \in Docs, Writing(d), Item(d) \in Edges, NEW n \in Ends(Item(d))
  PROVE  /\ n \in Nodes
         /\ n \notin Papers => Stands(n) /\ n \in Documented
         /\ CitedApart /\ n \in Documented => Stands(n)
  <1>1. pos[d] \in 1 .. Len(Script[d]) /\ Len(Script[d]) \in Nat
    BY PositionInScript DEF ShardInv
  <1>2. n \in Nodes
    BY DEF Ends, Edges
  <1>3. ASSUME n \in Before(d, pos[d]) PROVE Stands(n) /\ n \in Documented
    <2>1. PICK j \in 1 .. pos[d] - 1 : Script[d][j] = n
      BY <1>1, <1>3 DEF Before
    <2>2. Stands(n)
      BY <1>2, <2>1 DEF ShardInv, RunsStand
    <2>3. j \in 1 .. (Len(Script[d]) + 1) - 1
      BY <1>1
    <2>4. n \in Before(d, Len(Script[d]) + 1)
      BY <2>1, <2>3 DEF Before
    <2>5. QED BY <1>2, <2>2, <2>4 DEF Documented
  <1>4. Ends(Item(d)) \subseteq Before(d, pos[d]) \cup Papers
    BY <1>1 DEF Item
  <1>5. CitedApart => Ends(Item(d)) \cap Documented \subseteq Before(d, pos[d])
    BY <1>1 DEF Item, CitedApart
  <1>6. QED BY <1>2, <1>3, <1>4, <1>5

-----------------------------------------------------------------------------
(* What the shards hold together. *)
LEMMA LogicalFacts ==
  ASSUME ShardsFit
  PROVE  /\ \A n \in Nodes : n \in Logical.has <=> Stands(n)
         /\ \A e \in Edges : e \in Logical.has <=> e \in shard[HomeOf(e)].has
         /\ \A e \in Edges : e \in Logical.flagged <=> e \in shard[HomeOf(e)].flagged
         /\ \A p \in Edges \X Docs : p \in Logical.doc <=> p \in shard[HomeOf(p[1])].doc
         /\ Logical.has \subseteq Items
  <1>1. ASSUME NEW n \in Nodes PROVE n \in Logical.has <=> Stands(n)
    <2>1. n \in Logical.has <=> \E i \in Shards : n \in shard[i].has /\ n \notin shard[i].stubs
      BY DEF Logical
    <2>2. QED BY <2>1, ShardFacts, HomeIsAShard DEF Stands
  <1>2. ASSUME NEW e \in Edges PROVE e \in Logical.has <=> e \in shard[HomeOf(e)].has
    <2>1. e \in Logical.has <=> \E i \in Shards : e \in shard[i].has /\ e \notin shard[i].stubs
      BY DEF Logical
    <2>2. \A i \in Shards : e \notin shard[i].stubs
      BY ShardFacts DEF Databases
    <2>3. QED BY <2>1, <2>2, ShardFacts, HomeIsAShard
  <1>3. ASSUME NEW e \in Edges PROVE e \in Logical.flagged <=> e \in shard[HomeOf(e)].flagged
    <2>1. e \in Logical.flagged <=> \E i \in Shards : e \in shard[i].flagged
      BY DEF Logical
    <2>2. \A i \in Shards : e \in shard[i].flagged => e \in shard[i].has
      BY ShardFacts DEF WellFormed
    <2>3. QED BY <2>1, <2>2, ShardFacts, HomeIsAShard
  <1>4. ASSUME NEW p \in Edges \X Docs PROVE p \in Logical.doc <=> p \in shard[HomeOf(p[1])].doc
    <2>1. p \in Logical.doc <=> \E i \in Shards : p \in shard[i].doc
      BY DEF Logical
    <2>2. \A i \in Shards : p \in shard[i].doc => p[1] \in shard[i].has
      BY ShardFacts, Parts
    <2>3. p[1] \in Edges
      OBVIOUS
    <2>4. QED BY <2>1, <2>2, <2>3, ShardFacts, HomeIsAShard
  <1>5. Logical.has \subseteq Items
    BY ShardFacts DEF Logical, Databases
  <1>6. QED BY <1>1, <1>2, <1>3, <1>4, <1>5

(* ... and what a statement on one of them adds to it. *)
Real(g) == g.has \ g.stubs

Grows(g, h) ==
  /\ Real(g) \subseteq Real(h) /\ g.by \subseteq h.by
  /\ g.doc \subseteq h.doc /\ g.flagged \subseteq h.flagged

LEMMA LogicalGrows ==
  ASSUME ShardsFit, NEW i \in Shards, NEW new, On(i, new), Grows(shard[i], new)
  PROVE  /\ Logical'.has = Logical.has \cup Real(new)
         /\ Logical'.stubs = {} /\ Logical.stubs = {}
         /\ Logical'.by = Logical.by \cup new.by /\ shard[i].by \subseteq Logical.by
         /\ Logical'.doc = Logical.doc \cup new.doc /\ shard[i].doc \subseteq Logical.doc
         /\ Logical'.flagged = Logical.flagged \cup new.flagged
         /\ shard[i].flagged \subseteq Logical.flagged
         /\ Real(shard[i]) \subseteq Logical.has
  <1>1. \A j \in Shards : shard'[j] = IF j = i THEN new ELSE shard[j]
    BY DEF On, ShardsFit
  <1>2. Logical'.has = Logical.has \cup Real(new)
    <2>1. \A x : x \in Logical'.has <=> \E j \in Shards : x \in Real(shard'[j])
      BY DEF Logical, Real
    <2>2. \A x : x \in Logical.has <=> \E j \in Shards : x \in Real(shard[j])
      BY DEF Logical, Real
    <2>3. \A x : (\E j \in Shards : x \in Real(shard'[j]))
                   <=> (\E j \in Shards : x \in Real(shard[j])) \/ x \in Real(new)
      BY <1>1 DEF Grows
    <2>4. QED BY ONLY <2>1, <2>2, <2>3
  <1>3. Logical'.by = Logical.by \cup new.by
    <2>1. \A x : x \in Logical'.by <=> \E j \in Shards : x \in shard'[j].by
      BY DEF Logical
    <2>2. \A x : x \in Logical.by <=> \E j \in Shards : x \in shard[j].by
      BY DEF Logical
    <2>3. \A x : (\E j \in Shards : x \in shard'[j].by)
                   <=> (\E j \in Shards : x \in shard[j].by) \/ x \in new.by
      BY <1>1 DEF Grows
    <2>4. QED BY ONLY <2>1, <2>2, <2>3
  <1>4. Logical'.doc = Logical.doc \cup new.doc
    <2>1. \A x : x \in Logical'.doc <=> \E j \in Shards : x \in shard'[j].doc
      BY DEF Logical
    <2>2. \A x : x \in Logical.doc <=> \E j \in Shards : x \in shard[j].doc
      BY DEF Logical
    <2>3. \A x : (\E j \in Shards : x \in shard'[j].doc)
                   <=> (\E j \in Shards : x \in shard[j].doc) \/ x \in new.doc
      BY <1>1 DEF Grows
    <2>4. QED BY ONLY <2>1, <2>2, <2>3
  <1>5. Logical'.flagged = Logical.flagged \cup new.flagged
    <2>1. \A x : x \in Logical'.flagged <=> \E j \in Shards : x \in shard'[j].flagged
      BY DEF Logical
    <2>2. \A x : x \in Logical.flagged <=> \E j \in Shards : x \in shard[j].flagged
      BY DEF Logical
    <2>3. \A x : (\E j \in Shards : x \in shard'[j].flagged)
                   <=> (\E j \in Shards : x \in shard[j].flagged) \/ x \in new.flagged
      BY <1>1 DEF Grows
    <2>4. QED BY ONLY <2>1, <2>2, <2>3
  <1>6. Logical'.stubs = {} /\ Logical.stubs = {}
    BY DEF Logical
  <1>7. /\ shard[i].by \subseteq Logical.by /\ shard[i].doc \subseteq Logical.doc
        /\ shard[i].flagged \subseteq Logical.flagged /\ Real(shard[i]) \subseteq Logical.has
    BY DEF Logical, Real
  <1>8. QED BY <1>2, <1>3, <1>4, <1>5, <1>6, <1>7

(* Two graphs are one if their parts are. *)
IsRecord(g) ==
  g = [has |-> g.has, stubs |-> g.stubs, by |-> g.by, doc |-> g.doc, flagged |-> g.flagged]

(* What a single database would hold of it. *)
LEMMA KeptStays == \A x : Kept(x)' <=> Kept(x)
  BY DEF Kept, Documented, Before, Ends

LEMMA KnownFacts ==
  /\ IsRecord(Known) /\ Known.stubs = {}
  /\ \A x : x \in Known.has <=> x \in Logical.has /\ Kept(x)
  /\ \A p : p \in Known.by <=> p \in Logical.by /\ Kept(p[1])
  /\ \A p : p \in Known.doc <=> p \in Logical.doc /\ Kept(p[1])
  /\ \A e : e \in Known.flagged <=> e \in Logical.flagged /\ Kept(e)
  BY DEF Known, IsRecord

LEMMA KnownFactsNext ==
  /\ IsRecord(Known') /\ Known'.stubs = {}
  /\ \A x : x \in Known'.has <=> x \in Logical'.has /\ Kept(x)
  /\ \A p : p \in Known'.by <=> p \in Logical'.by /\ Kept(p[1])
  /\ \A p : p \in Known'.doc <=> p \in Logical'.doc /\ Kept(p[1])
  /\ \A e : e \in Known'.flagged <=> e \in Logical'.flagged /\ Kept(e)
  BY KeptStays DEF Known, IsRecord

(* What changes for papers that no document is, changes nothing of it. *)
LEMMA KnownRests ==
  ASSUME \A x : Kept(x) => (x \in Logical'.has <=> x \in Logical.has),
         \A p : Kept(p[1]) => (p \in Logical'.by <=> p \in Logical.by),
         \A p : Kept(p[1]) => (p \in Logical'.doc <=> p \in Logical.doc),
         \A e : Kept(e) => (e \in Logical'.flagged <=> e \in Logical.flagged)
  PROVE  Known' = Known
  <1>1. /\ Known'.has = Known.has /\ Known'.by = Known.by /\ Known'.stubs = Known.stubs
        /\ Known'.doc = Known.doc /\ Known'.flagged = Known.flagged
    BY KnownFacts, KnownFactsNext
  <1>2. QED BY <1>1, KnownFacts, KnownFactsNext DEF IsRecord

(* It has both ends of an edge, or the edge changes nothing of it. *)
LEMMA EdgesOfPapers ==
  ASSUME NEW e \in Edges
  PROVE  /\ Kept(e) <=> Ends(e) \subseteq Documented
         /\ Kept(Opposite(e)) <=> Kept(e)
         /\ Kept(Dispute(e)) <=> Kept(e)
         /\ Ends(e) \subseteq Known.has => Kept(e) /\ Ends(e) \subseteq Logical.has
  <1>1. \A f \in Edges : Kept(f) <=> Ends(f) \subseteq Documented
    BY DEF Kept
  <1>2. /\ Opposite(e) \in Edges /\ Ends(Opposite(e)) = Ends(e)
        /\ Dispute(e) \in Edges /\ Ends(Dispute(e)) = Ends(e)
    BY DEF Opposite, Dispute, Edges, Claims, Ends
  <1>3. Ends(e) \subseteq Nodes
    BY DEF Ends, Edges
  <1>4. \A n \in Nodes : Kept(n) <=> n \in Documented
    BY DEF Kept
  <1>5. QED BY <1>1, <1>2, <1>3, <1>4, KnownFacts

-----------------------------------------------------------------------------
(* The writer under the mapping: `stubbed' is a part of `merge'. *)
Mapped == [d \in Docs |-> IF check[d] = "stubbed" THEN "merge" ELSE check[d]]

LEMMA MappedWriter ==
  ASSUME NEW d \in Docs
  PROVE  /\ Abstract!Writing(d) <=> Writing(d)
         /\ Abstract!Item(d) = Item(d)
         /\ \A st : Abstract!At(d, st) <=> Writing(d) /\ Mapped[d] = st
  BY DEF Abstract!Writing, Writing, Abstract!Done, Done, Abstract!Item, Item, Abstract!At, Mapped

LEMMA MappedAdvance ==
  ASSUME WriterTypeOK, NEW d \in Docs, Advance(d) PROVE Abstract!Advance(d)
  <1>1. Mapped' = [Mapped EXCEPT ![d] = "merge"]
    BY DEF Advance, Mapped, WriterTypeOK
  <1>2. QED BY <1>1 DEF Advance, Abstract!Advance, Mapped

LEMMA MappedEnter ==
  ASSUME WriterTypeOK, NEW d \in Docs, NEW st \in {"scan", "flag", "dispute"}, Enter(d, st)
  PROVE  Abstract!Enter(d, st)
  <1>1. Mapped' = [Mapped EXCEPT ![d] = st]
    BY DEF Enter, Mapped, WriterTypeOK
  <1>2. QED BY <1>1 DEF Enter, Abstract!Enter, Mapped

LEMMA MappedOperators ==
  /\ \A g, n, s : Abstract!MergeNode(g, n, s) = MergeNode(g, n, s)
  /\ \A g, e, s, d : Abstract!MergeEdge(g, e, s, d) = MergeEdge(g, e, s, d)
  /\ \A g, e : Abstract!Flag(g, e) = Flag(g, e)
  /\ \A g, e : Abstract!MergeDispute(g, e) = MergeDispute(g, e)
  /\ \A g, e, d : Abstract!Opposed(g, e, d) = Opposed(g, e, d)
  /\ Abstract!Edges = Edges /\ Abstract!Claims = Claims
  BY DEF Abstract!MergeNode, MergeNode, Abstract!MergeEdge, MergeEdge, Abstract!Flag, Flag,
         Abstract!MergeDispute, MergeDispute, Abstract!Opposed, Opposed, Abstract!Edges, Edges,
         Abstract!Claims, Claims, Abstract!Opposite, Opposite, Abstract!Dispute, Dispute,
         Abstract!Ends, Ends

LEMMA MappedLive == \A d \in Docs : Abstract!Live(SourceOf[d])
  BY ScriptFacts DEF Abstract!Live

-----------------------------------------------------------------------------
(* Each step of a document keeps the invariant, and is a step of the single   *)
(* graph's, or none.                                                         *)
LEMMA LogicalMerge ==
  ASSUME NEW g, NEW h, IsRecord(g), IsRecord(h), NEW n, NEW s,
         h.has = g.has \cup {n}, h.stubs = g.stubs \ {n}, h.by = g.by \cup {<<n, s>>},
         h.doc = g.doc, h.flagged = g.flagged
  PROVE  h = MergeNode(g, n, s)
  BY DEF IsRecord, MergeNode

LEMMA RouterMergeNodeImplements ==
  ASSUME ShardInv, NEW d \in Docs, RouterMergeNode(d)
  PROVE  ShardInv' /\ (CitedApart => Abstract!WriteNode(d))
  <1> DEFINE n == Item(d)
             s == SourceOf[d]
             i == Home[n]
             new == MergeNode(shard[i], n, s)
  <1>1. Writing(d) /\ check[d] = "merge" /\ n \in Nodes /\ On(i, new) /\ Advance(d)
    BY DEF RouterMergeNode, At
  <1>2. s \in Sources /\ i \in Shards /\ n \in Items /\ n \notin Edges
    BY <1>1, ScriptFacts DEF Items
  <1>3. WellFormed(shard[i]) /\ Fits(i, shard[i])
    BY <1>2 DEF ShardInv, ShardsFit, Fits
  <1>4. /\ WellFormed(new) /\ new.has = shard[i].has \cup {n}
        /\ new.stubs = shard[i].stubs \ {n} /\ new.by = shard[i].by \cup {<<n, s>>}
        /\ new.doc = shard[i].doc /\ new.flagged = shard[i].flagged
    <2>1. new.stubs = shard[i].stubs \ {n}
      BY <1>3 DEF MergeNode, WellFormed, Databases
    <2>2. QED BY <1>1, <1>2, <1>3, <2>1, MergeNodeFits, MergeNodeRecords
  <1> HIDE DEF new
  <1>5. Fits(i, new)
    <2>1. \A m \in NodesOf(new) : m \in new.stubs <=> Home[m] # i
      <3>1. \A m \in NodesOf(shard[i]) : m \in shard[i].stubs <=> Home[m] # i
        BY <1>3 DEF Fits
      <3>2. QED BY <1>4, <3>1 DEF NodesOf
    <2>2. \A e \in EdgesOf(new) : HomeOf(e) = i /\ Ends(e) \subseteq new.has
      <3>1. \A e \in EdgesOf(new) : e \in EdgesOf(shard[i])
        BY <1>1, <1>4 DEF EdgesOf
      <3>2. QED BY <1>3, <1>4, <3>1 DEF Fits
    <2>3. \A p \in new.by : p[1] \in Nodes => Home[p[1]] = i
      BY <1>3, <1>4 DEF Fits
    <2>4. QED BY <1>4, <2>1, <2>2, <2>3 DEF Fits
  <1>6. \A m \in new.stubs \ Papers : Stands(m)
    BY <1>2, <1>4 DEF ShardInv, StubsStandForNodes
  <1>7. /\ ShardsFit' /\ StubsStandForNodes'
        /\ \A j \in Shards : shard[j].has \subseteq shard'[j].has
        /\ \A m \in Nodes : Stands(m) => Stands(m)'
        /\ shard'[i] = new
    BY <1>1, <1>2, <1>4, <1>5, <1>6, StatementFits
  <1>8. WriterTypeOK' /\ RunsStand' /\ ChecksHaveTargets'
    BY <1>1, <1>4, <1>7, RouterAdvances DEF Advance, ShardInv, WriterTypeOK
  <1>9. Known' = MergeNode(Known, n, s)
    <2>1. Real(new) = Real(shard[i]) \cup {n} /\ Grows(shard[i], new)
      BY <1>4 DEF Real, Grows
    <2>2. ShardsFit
      BY DEF ShardInv
    <2>3. /\ Logical'.has = Logical.has \cup {n} /\ Logical'.stubs = Logical.stubs \ {n}
          /\ Logical'.by = Logical.by \cup {<<n, s>>}
          /\ Logical'.doc = Logical.doc /\ Logical'.flagged = Logical.flagged
      <3>1. /\ Logical'.has = Logical.has \cup Real(new)
            /\ Logical'.stubs = {} /\ Logical.stubs = {}
            /\ Logical'.by = Logical.by \cup new.by /\ shard[i].by \subseteq Logical.by
        BY <1>1, <1>2, <2>1, <2>2, LogicalGrows
      <3>2. /\ Logical'.doc = Logical.doc \cup new.doc /\ shard[i].doc \subseteq Logical.doc
            /\ Logical'.flagged = Logical.flagged \cup new.flagged
            /\ shard[i].flagged \subseteq Logical.flagged
            /\ Real(shard[i]) \subseteq Logical.has
        BY <1>1, <1>2, <2>1, <2>2, LogicalGrows
      <3>3. QED BY ONLY <1>4, <2>1, <3>1, <3>2
    <2>4. Kept(n)
      <3>1. pos[d] \in 1 .. (Len(Script[d]) + 1) - 1
        BY <1>1, PositionInScript DEF ShardInv
      <3>2. n \in Before(d, Len(Script[d]) + 1)
        BY <3>1 DEF Before, Item
      <3>3. QED BY <1>1, <3>2 DEF Kept, Documented
    <2> HIDE DEF n, s
    <2>5. Known'.has = Known.has \cup {n} /\ Known'.by = Known.by \cup {<<n, s>>}
      BY <2>3, <2>4, KnownFacts, KnownFactsNext
    <2>6. /\ Known'.stubs = Known.stubs \ {n}
          /\ Known'.doc = Known.doc /\ Known'.flagged = Known.flagged
      BY <2>3, KnownFacts, KnownFactsNext
    <2>7. IsRecord(Known) /\ IsRecord(Known')
      BY KnownFacts, KnownFactsNext
    <2>8. QED BY <2>5, <2>6, <2>7, LogicalMerge
  <1>10. Abstract!WriteNode(d)
    <2>1. Abstract!At(d, "merge") /\ Abstract!Item(d) = n
      BY <1>1, MappedWriter DEF Mapped
    <2>2. Abstract!Advance(d)
      BY <1>1, MappedAdvance DEF ShardInv
    <2>3. Known' = Abstract!MergeNode(Known, n, s)
      BY <1>9, MappedOperators
    <2>4. QED BY <1>1, <2>1, <2>2, <2>3 DEF Abstract!WriteNode, Abstract!storeFrame
  <1>11. QED BY <1>7, <1>8, <1>10 DEF ShardInv

LEMMA StubFits ==
  ASSUME NEW g, WellFormed(g), NEW n \in Nodes, n \notin g.has
  PROVE  LET h == MergeStub(g, n, TRUE) IN
         /\ WellFormed(h) /\ h.has = g.has \cup {n} /\ h.stubs = g.stubs \cup {n}
         /\ h.by = g.by /\ h.doc = g.doc /\ h.flagged = g.flagged
  <1> DEFINE h == MergeStub(g, n, TRUE)
  <1>1. /\ h.has = g.has \cup {n} /\ h.stubs = g.stubs \cup {n}
        /\ h.by = g.by /\ h.doc = g.doc /\ h.flagged = g.flagged
        /\ h = [has |-> h.has, stubs |-> h.stubs, by |-> h.by, doc |-> h.doc, flagged |-> h.flagged]
    BY DEF MergeStub, WellFormed, Databases
  <1> HIDE DEF h
  <1>2. /\ h.has \in SUBSET Items /\ h.stubs \in SUBSET Nodes /\ h.stubs \subseteq h.has
        /\ h.flagged \subseteq h.has /\ h.flagged \in SUBSET Edges
    BY <1>1, Parts DEF Items
  <1>3. /\ h.by \in SUBSET (Items \X Sources) /\ h.doc \in SUBSET (Edges \X Docs)
        /\ (\A p \in h.by : p[1] \in h.has) /\ \A p \in h.doc : p[1] \in h.has
    BY <1>1, Parts
  <1>4. WellFormed([has |-> h.has, stubs |-> h.stubs, by |-> h.by, doc |-> h.doc, flagged |-> h.flagged])
    BY <1>2, <1>3, Rebuilt
  <1>5. QED BY <1>1, <1>4 DEF h

LEMMA PaperFits ==
  ASSUME NEW g, WellFormed(g), NEW n \in Nodes, n \notin g.has
  PROVE  LET h == MergeStub(g, n, FALSE) IN
         /\ WellFormed(h) /\ h.has = g.has \cup {n} /\ h.stubs = g.stubs
         /\ h.by = g.by /\ h.doc = g.doc /\ h.flagged = g.flagged
  <1> DEFINE h == MergeStub(g, n, FALSE)
  <1>1. /\ h.has = g.has \cup {n} /\ h.stubs = g.stubs
        /\ h.by = g.by /\ h.doc = g.doc /\ h.flagged = g.flagged
        /\ h = [has |-> h.has, stubs |-> h.stubs, by |-> h.by, doc |-> h.doc, flagged |-> h.flagged]
    BY DEF MergeStub, WellFormed, Databases
  <1> HIDE DEF h
  <1>2. /\ h.has \in SUBSET Items /\ h.stubs \in SUBSET Nodes /\ h.stubs \subseteq h.has
        /\ h.flagged \subseteq h.has /\ h.flagged \in SUBSET Edges
    BY <1>1, Parts DEF Items
  <1>3. /\ h.by \in SUBSET (Items \X Sources) /\ h.doc \in SUBSET (Edges \X Docs)
        /\ (\A p \in h.by : p[1] \in h.has) /\ \A p \in h.doc : p[1] \in h.has
    BY <1>1, Parts
  <1>4. WellFormed([has |-> h.has, stubs |-> h.stubs, by |-> h.by, doc |-> h.doc, flagged |-> h.flagged])
    BY <1>2, <1>3, Rebuilt
  <1>5. QED BY <1>1, <1>4 DEF h

(* The statement that makes sure of a target: seen from outside, nothing. *)
LEMMA EnsureTargetImplements ==
  ASSUME ShardInv, NEW d \in Docs, EnsureTarget(d)
  PROVE  ShardInv' /\ (CitedApart => UNCHANGED Abstract!vars)
  <1> DEFINE n == Item(d).to
             i == HomeOf(Item(d))
             new == MergeStub(shard[i], n, Home[n] # i)
  <1>1. Writing(d) /\ check[d] = "merge" /\ Item(d) \in Edges /\ On(i, new) /\ Enter(d, "stubbed")
    BY DEF EnsureTarget, At
  <1>2. /\ n \in Nodes /\ i \in Shards /\ (n \notin Papers => Stands(n))
        /\ CitedApart /\ n \in Documented => Stands(n)
    BY <1>1, HomeIsAShard, EndsStand DEF Ends
  <1>3. Fits(i, shard[i]) /\ WellFormed(shard[i])
    BY <1>2 DEF ShardInv, ShardsFit, Fits
  <1>4. /\ WellFormed(new) /\ new.has = shard[i].has \cup {n}
        /\ new.stubs = IF n \in shard[i].has \/ Home[n] = i THEN shard[i].stubs ELSE shard[i].stubs \cup {n}
        /\ new.by = shard[i].by /\ new.doc = shard[i].doc /\ new.flagged = shard[i].flagged
    <2>1. CASE n \in shard[i].has
      BY <1>3, <2>1 DEF MergeStub
    <2>2. CASE n \notin shard[i].has /\ Home[n] # i
      <3>1. new = MergeStub(shard[i], n, TRUE)
        BY <2>2
      <3> HIDE DEF new, i, n
      <3>2. QED BY <1>2, <1>3, <2>2, <3>1, StubFits
    <2>3. CASE n \notin shard[i].has /\ Home[n] = i
      <3>1. new = MergeStub(shard[i], n, FALSE)
        BY <2>3
      <3> HIDE DEF new, i, n
      <3>2. QED BY <1>2, <1>3, <2>3, <3>1, PaperFits
    <2>4. QED BY <2>1, <2>2, <2>3
  <1>5. Stands(n) /\ Home[n] = i => n \in shard[i].has
    BY DEF Stands
  <1> HIDE DEF new
  <1>6. Fits(i, new)
    <2>1. \A m \in NodesOf(new) : m \in new.stubs <=> Home[m] # i
      <3>1. \A m \in NodesOf(shard[i]) : m \in shard[i].stubs <=> Home[m] # i
        BY <1>3 DEF Fits
      <3>2. shard[i].stubs \subseteq NodesOf(shard[i])
        BY <1>3 DEF WellFormed, Databases, NodesOf
      <3>3. \A m \in NodesOf(new) : m = n \/ m \in NodesOf(shard[i])
        BY <1>4 DEF NodesOf
      <3> HIDE DEF i, n
      <3>4. QED BY <1>2, <1>4, <3>1, <3>2, <3>3 DEF NodesOf
    <2>2. \A e \in EdgesOf(new) : HomeOf(e) = i /\ Ends(e) \subseteq new.has
      <3>1. \A e \in EdgesOf(new) : e \in EdgesOf(shard[i])
        BY <1>2, <1>4 DEF EdgesOf
      <3>2. QED BY <1>3, <1>4, <3>1 DEF Fits
    <2>3. QED BY <1>3, <1>4, <2>1, <2>2 DEF Fits
  <1>7. \A m \in new.stubs \ Papers : Stands(m)
    <2>1. \A m \in shard[i].stubs \ Papers : Stands(m)
      BY <1>2 DEF ShardInv, StubsStandForNodes
    <2> HIDE DEF i, n
    <2>2. QED BY <1>2, <1>4, <2>1
  <1>8. /\ ShardsFit' /\ StubsStandForNodes'
        /\ \A j \in Shards : shard[j].has \subseteq shard'[j].has
        /\ \A m \in Nodes : Stands(m) => Stands(m)'
        /\ shard'[i] = new
    BY <1>1, <1>2, <1>4, <1>6, <1>7, StatementFits
  <1>9. WriterTypeOK' /\ RunsStand' /\ ChecksHaveTargets'
    BY <1>1, <1>4, <1>8, RouterEnters
  <1>10. CitedApart => Known' = Known
    <2>1. /\ Real(new) = Real(shard[i]) \cup (IF n \in shard[i].has \/ Home[n] # i THEN {} ELSE {n})
          /\ Grows(shard[i], new)
      <3>1. shard[i].stubs \subseteq shard[i].has
        BY <1>3 DEF WellFormed
      <3> HIDE DEF i, n
      <3>2. QED BY <1>4, <3>1 DEF Real, Grows
    <2>2. ShardsFit
      BY DEF ShardInv
    <2>3. /\ Logical'.has = Logical.has \cup (IF n \in shard[i].has \/ Home[n] # i THEN {} ELSE {n})
          /\ Logical'.by = Logical.by
          /\ Logical'.doc = Logical.doc /\ Logical'.flagged = Logical.flagged
      <3>1. /\ Logical'.has = Logical.has \cup Real(new)
            /\ Logical'.by = Logical.by \cup new.by /\ shard[i].by \subseteq Logical.by
        BY <1>1, <1>2, <2>1, <2>2, LogicalGrows
      <3>2. /\ Logical'.doc = Logical.doc \cup new.doc /\ shard[i].doc \subseteq Logical.doc
            /\ Logical'.flagged = Logical.flagged \cup new.flagged
            /\ shard[i].flagged \subseteq Logical.flagged
            /\ Real(shard[i]) \subseteq Logical.has
        BY <1>1, <1>2, <2>1, <2>2, LogicalGrows
      <3>3. QED BY ONLY <1>4, <2>1, <3>1, <3>2
    <2>4. CitedApart /\ n \notin shard[i].has /\ Home[n] = i => ~Kept(n)
      BY <1>2, <1>5 DEF Kept
    <2> HIDE DEF i, n
    <2>5. ASSUME CitedApart, NEW x, Kept(x) PROVE x \in Logical'.has <=> x \in Logical.has
      BY <2>3, <2>4, <2>5
    <2>6. QED BY <2>3, <2>5, KnownRests
  <1>11. Mapped' = Mapped
    BY <1>1 DEF Enter, Mapped, ShardInv, WriterTypeOK
  <1>12. CitedApart => UNCHANGED Abstract!vars
    BY <1>1, <1>10, <1>11 DEF Abstract!vars, Abstract!writerVars, Enter, Mapped
  <1>13. QED BY <1>8, <1>9, <1>12 DEF ShardInv

LEMMA LogicalMergeEdge ==
  ASSUME NEW g, NEW h, IsRecord(g), IsRecord(h), NEW e, NEW s, NEW d, Ends(e) \subseteq g.has,
         h.has = g.has \cup {e}, h.stubs = g.stubs, h.by = g.by \cup {<<e, s>>},
         e \in g.has => h.doc = g.doc, e \notin g.has => h.doc = g.doc \cup {<<e, d>>},
         h.flagged = g.flagged
  PROVE  h = MergeEdge(g, e, s, d)
  <1>1. CASE e \in g.has
    BY <1>1 DEF IsRecord, MergeEdge
  <1>2. CASE e \notin g.has
    BY <1>2 DEF IsRecord, MergeEdge
  <1>3. QED BY <1>1, <1>2

(* The steps that leave the shards alone. *)
LEMMA ShardsRest ==
  ASSUME ShardInv, UNCHANGED shard
  PROVE  ShardsFit' /\ StubsStandForNodes' /\ Logical' = Logical
         /\ (\A n \in Nodes : Stands(n) => Stands(n)')
         /\ \A j \in Shards : shard[j].has \subseteq shard'[j].has
  BY DEF ShardInv, ShardsFit, StubsStandForNodes, Stands, Logical

(* Without both ends on the shard, the graph has not both of them either. *)
LEMMA EndsOnShard ==
  ASSUME ShardInv, NEW d \in Docs, Writing(d), check[d] # "merge", Item(d) \in Edges
  PROVE  /\ Ends(Item(d)) \subseteq Known.has => Ends(Item(d)) \subseteq shard[HomeOf(Item(d))].has
         /\ CitedApart /\ Kept(Item(d)) => Ends(Item(d)) \subseteq Known.has
  <1> DEFINE e == Item(d)
  <1>1. e.to \in shard[HomeOf(e)].has
    BY DEF ShardInv, ChecksHaveTargets
  <1>2. e.from \in Logical.has => e.from \in shard[HomeOf(e)].has
    BY HomeIsAShard, LogicalFacts DEF ShardInv, Stands, HomeOf
  <1>3. Ends(e) \subseteq Known.has => Ends(e) \subseteq shard[HomeOf(e)].has
    BY <1>1, <1>2, EdgesOfPapers DEF Ends
  <1>4. ASSUME CitedApart, Kept(e), NEW n \in Ends(e) PROVE n \in Known.has
    <2>1. n \in Documented /\ n \in Nodes
      BY <1>4, EdgesOfPapers, EndsStand
    <2>2. Stands(n)
      BY <1>4, <2>1, EndsStand
    <2>3. n \in Logical.has /\ Kept(n)
      BY <2>1, <2>2, LogicalFacts DEF Kept, ShardInv
    <2>4. QED BY <2>3, KnownFacts
  <1>5. QED BY <1>3, <1>4

LEMMA SameKnown ==
  ASSUME Logical' = Logical PROVE Known' = Known
  BY KnownRests

LEMMA NoEdge ==
  ASSUME NEW g, NEW e, ~(Ends(e) \subseteq g.has), NEW s, NEW d PROVE MergeEdge(g, e, s, d) = g
  BY DEF MergeEdge

LEMMA NoDispute ==
  ASSUME NEW g, NEW e, ~(Ends(e) \subseteq g.has) PROVE MergeDispute(g, e) = g
  BY DEF MergeDispute

LEMMA UnchangedShard ==
  ASSUME ShardInv, NEW i \in Shards, On(i, shard[i]) PROVE shard' = shard
  <1>1. shard \in [Shards -> Databases]
    BY DEF ShardInv, ShardsFit
  <1>2. QED BY <1>1 DEF On

LEMMA RouterMergeEdgeImplements ==
  ASSUME ShardInv, NEW d \in Docs, RouterMergeEdge(d)
  PROVE  ShardInv' /\ (CitedApart => Abstract!WriteEdge(d))
  <1> DEFINE e == Item(d)
             s == SourceOf[d]
             i == HomeOf(e)
             new == MergeEdge(shard[i], e, s, d)
             there == Ends(e) \subseteq shard[i].has
             Shown == CitedApart => Known' = MergeEdge(Known, e, s, d)
             Fine == /\ ShardsFit' /\ StubsStandForNodes'
                     /\ \A j \in Shards : shard[j].has \subseteq shard'[j].has
                     /\ \A m \in Nodes : Stands(m) => Stands(m)'
  <1>1. Writing(d) /\ check[d] = "stubbed" /\ e \in Edges /\ On(i, new) /\ AfterEdge(d)
    BY DEF RouterMergeEdge, At, ShardInv, WriterTypeOK, Item
  <1>2. s \in Sources /\ i \in Shards /\ e \in Items /\ e \notin Nodes
    BY <1>1, ScriptFacts, HomeIsAShard DEF Items
  <1>3. Fits(i, shard[i]) /\ WellFormed(shard[i]) /\ shard[i].stubs \subseteq Nodes
    BY <1>2 DEF ShardInv, ShardsFit, Fits, WellFormed, Databases
  <1>4. /\ Ends(e) \subseteq Known.has => there
        /\ CitedApart /\ Kept(e) => Ends(e) \subseteq Known.has
        /\ Ends(e) \subseteq Known.has => Kept(e)
        /\ e.to \in shard[i].has
    BY <1>1, EndsOnShard, EdgesOfPapers DEF ShardInv, ChecksHaveTargets
  <1> HIDE DEF Shown, Fine
  <1>5. ASSUME ~there PROVE Fine /\ Shown
    <2>1. new = shard[i]
      BY <1>5, NoEdge
    <2>2. shard' = shard
      BY <1>1, <1>2, <2>1, UnchangedShard
    <2>3. Known' = Known
      BY <2>2, ShardsRest, SameKnown
    <2>4. MergeEdge(Known, e, s, d) = Known
      <3>1. ~(Ends(e) \subseteq Known.has)
        BY <1>4, <1>5
      <3> HIDE DEF e, s
      <3>2. QED BY <3>1, NoEdge
    <2>5. QED BY <2>2, <2>3, <2>4, ShardsRest DEF Fine, Shown
  <1>6. ASSUME there PROVE Fine /\ Shown
    <2>1. /\ WellFormed(new) /\ new.has = shard[i].has \cup {e}
          /\ new.stubs = shard[i].stubs /\ new.by = shard[i].by \cup {<<e, s>>}
          /\ new.doc = IF e \in shard[i].has THEN shard[i].doc ELSE shard[i].doc \cup {<<e, d>>}
          /\ new.flagged = shard[i].flagged
      <3>1. new.stubs = shard[i].stubs
        BY <1>3 DEF MergeEdge, WellFormed, Databases
      <3>2. /\ WellFormed(new) /\ new.has = shard[i].has \cup {e}
            /\ new.by = shard[i].by \cup {<<e, s>>}
        BY <1>1, <1>2, <1>3, <1>6, MergeEdgeFits
      <3>3. /\ new.flagged = shard[i].flagged
            /\ e \in shard[i].has => new.doc = shard[i].doc
            /\ e \notin shard[i].has => new.doc = shard[i].doc \cup {<<e, d>>}
        BY <1>1, <1>2, <1>3, <1>6, MergeEdgeRecords
      <3> HIDE DEF new, i, s, e
      <3>4. QED BY <3>1, <3>2, <3>3
    <2> HIDE DEF new
    <2>2. Fits(i, new)
      <3>1. \A m \in NodesOf(new) : m \in new.stubs <=> Home[m] # i
        BY <1>2, <1>3, <2>1 DEF Fits, NodesOf
      <3>2. \A f \in EdgesOf(new) : HomeOf(f) = i /\ Ends(f) \subseteq new.has
        <4>1. \A f \in EdgesOf(new) : f = e \/ f \in EdgesOf(shard[i])
          BY <2>1 DEF EdgesOf
        <4>2. QED BY <1>3, <1>6, <2>1, <4>1 DEF Fits
      <3>3. \A p \in new.by : p[1] \in Nodes => Home[p[1]] = i
        <4>1. \A p \in new.by : p = <<e, s>> \/ p \in shard[i].by
          BY <2>1
        <4>2. QED BY <1>2, <1>3, <4>1 DEF Fits
      <3>4. QED BY <2>1, <3>1, <3>2, <3>3 DEF Fits
    <2>3. \A m \in new.stubs \ Papers : Stands(m)
      BY <1>2, <2>1 DEF ShardInv, StubsStandForNodes
    <2>4. Fine
      BY <1>1, <1>2, <2>1, <2>2, <2>3, StatementFits DEF Fine
    <2>5. /\ Logical'.has = Logical.has \cup {e}
          /\ Logical'.by = Logical.by \cup {<<e, s>>}
          /\ e \in Logical.has => Logical'.doc = Logical.doc
          /\ e \notin Logical.has => Logical'.doc = Logical.doc \cup {<<e, d>>}
          /\ Logical'.flagged = Logical.flagged
      <3>1. Real(new) = Real(shard[i]) \cup {e} /\ Grows(shard[i], new)
        BY <1>2, <1>3, <2>1 DEF Real, Grows
      <3>2. ShardsFit
        BY DEF ShardInv
      <3>3. e \in Logical.has <=> e \in shard[i].has
        BY <1>1, <3>2, LogicalFacts
      <3>4. /\ Logical'.has = Logical.has \cup Real(new)
            /\ Logical'.by = Logical.by \cup new.by /\ shard[i].by \subseteq Logical.by
        BY <1>1, <1>2, <3>1, <3>2, LogicalGrows
      <3>5. /\ Logical'.doc = Logical.doc \cup new.doc /\ shard[i].doc \subseteq Logical.doc
            /\ Logical'.flagged = Logical.flagged \cup new.flagged
            /\ shard[i].flagged \subseteq Logical.flagged
            /\ Real(shard[i]) \subseteq Logical.has
        BY <1>1, <1>2, <3>1, <3>2, LogicalGrows
      <3>6. QED BY ONLY <2>1, <3>1, <3>3, <3>4, <3>5
    <2> HIDE DEF e, s, i, there
    <2>6. CASE ~Kept(e)
      <3>1. \A x : Kept(x) => x # e
        BY <2>6
      <3>2. \A p : Kept(p[1]) => p # <<e, s>> /\ p # <<e, d>>
        <4>1. ASSUME NEW p, Kept(p[1]) PROVE p # <<e, s>> /\ p # <<e, d>>
          <5>1. p[1] # e
            BY <3>1, <4>1
          <5>2. <<e, s>>[1] = e /\ <<e, d>>[1] = e
            OBVIOUS
          <5>3. QED BY <5>1, <5>2
        <4>2. QED BY <4>1
      <3>3. Known' = Known
        <4>1. \A x : Kept(x) => (x \in Logical'.has <=> x \in Logical.has)
          BY <2>5, <3>1
        <4>2. \A p : Kept(p[1]) => (p \in Logical'.by <=> p \in Logical.by)
          BY <2>5, <3>2
        <4>3. \A p : Kept(p[1]) => (p \in Logical'.doc <=> p \in Logical.doc)
          BY <2>5, <3>2
        <4>4. QED BY <2>5, <4>1, <4>2, <4>3, KnownRests
      <3>4. MergeEdge(Known, e, s, d) = Known
        BY <1>4, <2>6, NoEdge
      <3>5. QED BY <2>4, <3>3, <3>4 DEF Shown
    <2>7. CASE Kept(e) /\ CitedApart
      <3>1. Known'.has = Known.has \cup {e} /\ Known'.stubs = Known.stubs
        BY <2>5, <2>7, KnownFacts, KnownFactsNext
      <3>2. \A p \in {<<e, s>>, <<e, d>>} : Kept(p[1])
        BY <2>7
      <3>3. Known'.by = Known.by \cup {<<e, s>>} /\ Known'.flagged = Known.flagged
        BY <2>5, <3>2, KnownFacts, KnownFactsNext
      <3>4. e \in Known.has <=> e \in Logical.has
        BY <2>7, KnownFacts
      <3>5. e \in Known.has => Known'.doc = Known.doc
        BY <2>5, <3>4, KnownFacts, KnownFactsNext
      <3>6. e \notin Known.has => Known'.doc = Known.doc \cup {<<e, d>>}
        BY <2>5, <3>2, <3>4, KnownFacts, KnownFactsNext
      <3>7. IsRecord(Known) /\ IsRecord(Known') /\ Ends(e) \subseteq Known.has
        BY <1>4, <2>7, KnownFacts, KnownFactsNext
      <3>8. QED BY <2>4, <3>1, <3>3, <3>5, <3>6, <3>7, LogicalMergeEdge DEF Shown
    <2>8. QED BY <2>4, <2>6, <2>7 DEF Shown
  <1>7. Fine /\ Shown
    BY <1>5, <1>6
  <1>8. WriterTypeOK' /\ RunsStand' /\ ChecksHaveTargets'
    <2>1. CASE Enter(d, "scan")
      <3>1. e.to \in shard'[i].has
        BY <1>2, <1>4, <1>7 DEF Fine
      <3>2. QED BY <1>1, <1>7, <2>1, <3>1, RouterEnters DEF Fine
    <2>2. CASE Advance(d)
      BY <1>1, <1>2, <1>7, <2>2, RouterAdvances DEF Advance, ShardInv, WriterTypeOK, Fine
    <2>3. QED BY <1>1, <2>1, <2>2 DEF AfterEdge
  <1>9. ASSUME CitedApart PROVE Abstract!WriteEdge(d)
    <2>1. Abstract!At(d, "merge") /\ Abstract!Item(d) = e
      BY <1>1, MappedWriter DEF Mapped
    <2>2. Abstract!AfterEdge(d)
      BY <1>1, <2>1, MappedAdvance, MappedEnter, MappedOperators DEF AfterEdge, Abstract!AfterEdge, ShardInv
    <2>3. Known' = Abstract!MergeEdge(Known, e, s, d) /\ e \in Abstract!Edges
      BY <1>1, <1>7, <1>9, MappedOperators DEF Shown
    <2>4. QED BY <1>1, <2>1, <2>2, <2>3 DEF Abstract!WriteEdge, Abstract!storeFrame
  <1>10. QED BY <1>7, <1>8, <1>9 DEF ShardInv, Fine

LEMMA RouterStartImplements ==
  ASSUME ShardInv, NEW d \in Docs, RouterStart(d)
  PROVE  ShardInv' /\ (CitedApart => Abstract!StartDoc(d))
  <1>1. ~Writing(d) /\ Start(d) /\ UNCHANGED <<shard, check, embedded>>
    BY DEF RouterStart, Start
  <1>2. Len(Script[d]) \in Nat
    BY ScriptFacts
  <1>3. \A c \in Docs : c # d => pos'[c] = pos[c]
    BY DEF RouterStart, Start, ShardInv, WriterTypeOK
  <1>4. pos'[d] = Len(Script[d]) + 1 \/ pos'[d] = 1
    BY DEF RouterStart, Start, ShardInv, WriterTypeOK
  <1>5. check[d] = "merge"
    BY <1>1 DEF ShardInv, ChecksHaveTargets
  <1>6. WriterTypeOK'
    <2>1. pos' \in [Docs -> Nat] /\ tries' \in [Docs -> 0 .. Tries]
      <3>1. tries[d] \in 0 .. Tries /\ tries[d] < Tries /\ Tries \in Nat
        BY DEF RouterStart, Start, ShardInv, WriterTypeOK
      <3>2. tries[d] + 1 \in 0 .. Tries
        BY <3>1
      <3>3. tries' \in [Docs -> 0 .. Tries]
        BY <3>2 DEF RouterStart, Start, ShardInv, WriterTypeOK
      <3>4. pos' = [pos EXCEPT ![d] = Len(Script[d]) + 1] \/ pos' = [pos EXCEPT ![d] = 1]
        BY DEF RouterStart, Start
      <3>5. Len(Script[d]) + 1 \in Nat
        BY <1>2
      <3>6. pos' \in [Docs -> Nat]
        <4>1. pos \in [Docs -> Nat]
          BY DEF ShardInv, WriterTypeOK
        <4>2. PICK k \in Nat : pos' = [pos EXCEPT ![d] = k]
          BY <3>4, <3>5
        <4>3. QED BY ONLY <4>1, <4>2
      <3>7. QED BY <3>3, <3>6
    <2>2. skipped' \subseteq Docs /\ unchecked' \subseteq Docs
      BY DEF RouterStart, Start, ShardInv, WriterTypeOK
    <2>3. ASSUME NEW c \in Docs PROVE pos'[c] <= Len(Script[c]) + 1
      <3>1. CASE c = d BY <1>2, <1>4, <3>1
      <3>2. CASE c # d BY <1>3, <3>2 DEF ShardInv, WriterTypeOK
      <3>3. QED BY <3>1, <3>2
    <2>4. ASSUME NEW c \in Docs, check'[c] # "merge" PROVE pos'[c] # 0 /\ Script[c][pos'[c]] \in Edges
      <3>1. c # d /\ check[c] # "merge" BY <1>1, <1>5, <2>4
      <3>2. pos'[c] = pos[c] BY <1>3, <3>1
      <3>3. QED BY <3>1, <3>2 DEF ShardInv, WriterTypeOK
    <2>5. QED BY <1>1, <2>1, <2>2, <2>3, <2>4 DEF ShardInv, WriterTypeOK
  <1>7. RunsStand'
    <2>1. SUFFICES ASSUME NEW c \in Docs, Writing(c)', NEW j \in 1 .. pos'[c] - 1, Script[c][j] \in Nodes
                   PROVE  Stands(Script[c][j])'
      BY DEF RunsStand
    <2>2. c # d
      BY <1>2, <1>4, <2>1 DEF Writing, Done
    <2>3. Writing(c) /\ Stands(Script[c][j])
      BY <1>3, <2>1, <2>2 DEF ShardInv, RunsStand, Writing, Done
    <2>4. QED BY <1>1, <2>3 DEF Stands
  <1>8. ChecksHaveTargets'
    <2>1. SUFFICES ASSUME NEW c \in Docs, check[c] # "merge"
                   PROVE  Writing(c)' /\ Item(c)'.to \in shard[HomeOf(Item(c)')].has
      BY <1>1 DEF ChecksHaveTargets, HomeOf
    <2>2. c # d
      BY <1>5, <2>1
    <2>3. QED BY <1>3, <2>1, <2>2 DEF ShardInv, ChecksHaveTargets, Writing, Done, Item
  <1>9. Abstract!Start(d)
    <2>1. UNCHANGED Mapped
      BY <1>1 DEF Mapped
    <2>2. QED BY <1>1, <2>1 DEF Start, Abstract!Start, Writing, Abstract!Writing, Done, Abstract!Done, Mapped
  <1>10. Known' = Known
    BY <1>1, ShardsRest, SameKnown
  <1>11. Abstract!StartDoc(d)
    BY <1>9, <1>10, MappedLive DEF Abstract!StartDoc, Abstract!storeFrame
  <1>12. QED BY <1>1, <1>6, <1>7, <1>8, <1>11, ShardsRest DEF ShardInv

LEMMA RouterFailImplements ==
  ASSUME ShardInv, NEW d \in Docs, RouterFail(d)
  PROVE  ShardInv' /\ (CitedApart => Abstract!FailDoc(d))
  <1>1. Writing(d) /\ UNCHANGED <<shard, embedded, tries, skipped>>
    BY DEF RouterFail, Fail
  <1>2. \A c \in Docs : pos'[c] = IF c = d THEN 0 ELSE pos[c]
    BY DEF RouterFail, Fail, ShardInv, WriterTypeOK
  <1>3. \A c \in Docs : check'[c] = IF c = d THEN "merge" ELSE check[c]
    BY DEF RouterFail, Fail, ShardInv, WriterTypeOK
  <1>4. WriterTypeOK'
    <2>1. /\ pos' \in [Docs -> Nat] /\ unchecked' \subseteq Docs
          /\ check' \in [Docs -> {"merge", "stubbed", "scan", "flag", "dispute"}]
      BY DEF RouterFail, Fail, ShardInv, WriterTypeOK
    <2>2. ASSUME NEW c \in Docs PROVE pos'[c] <= Len(Script[c]) + 1
      <3>1. Len(Script[c]) \in Nat BY ScriptFacts
      <3>2. pos'[c] = 0 \/ pos'[c] = pos[c] BY <1>2
      <3>3. QED BY <3>1, <3>2 DEF ShardInv, WriterTypeOK
    <2>3. \A c \in Docs : check'[c] # "merge" => pos'[c] # 0 /\ Script[c][pos'[c]] \in Edges
      BY <1>2, <1>3 DEF ShardInv, WriterTypeOK
    <2>4. QED BY <1>1, <2>1, <2>2, <2>3 DEF ShardInv, WriterTypeOK
  <1>5. \A c \in Docs : c # d => (Writing(c)' <=> Writing(c)) /\ Item(c)' = Item(c)
    BY <1>2 DEF Writing, Done, Item
  <1>6. RunsStand'
    <2>1. SUFFICES ASSUME NEW c \in Docs, Writing(c)', NEW j \in 1 .. pos'[c] - 1, Script[c][j] \in Nodes
                   PROVE  Stands(Script[c][j])'
      BY DEF RunsStand
    <2>2. c # d
      BY <1>2, <2>1 DEF Writing
    <2>3. Stands(Script[c][j])
      BY <1>2, <1>5, <2>1, <2>2 DEF ShardInv, RunsStand
    <2>4. QED BY <1>1, <2>3 DEF Stands
  <1>7. ChecksHaveTargets'
    <2>1. SUFFICES ASSUME NEW c \in Docs, check'[c] # "merge"
                   PROVE  Writing(c)' /\ Item(c)'.to \in shard[HomeOf(Item(c)')].has
      BY <1>1 DEF ChecksHaveTargets, HomeOf
    <2>2. QED BY <1>3, <1>5, <2>1 DEF ShardInv, ChecksHaveTargets
  <1>8. Abstract!Fail(d)
    <2>1. Mapped' = [Mapped EXCEPT ![d] = "merge"]
      BY DEF RouterFail, Fail, Mapped, ShardInv, WriterTypeOK
    <2>2. QED BY <2>1 DEF RouterFail, Fail, Abstract!Fail, Writing, Abstract!Writing, Done,
                          Abstract!Done, Mapped
  <1>9. Known' = Known
    BY <1>1, ShardsRest, SameKnown
  <1>10. QED BY <1>1, <1>4, <1>6, <1>7, <1>8, <1>9, ShardsRest
             DEF ShardInv, Abstract!FailDoc, Abstract!storeFrame

LEMMA RouterEmbedImplements ==
  ASSUME ShardInv, NEW d \in Docs, RouterEmbed(d)
  PROVE  ShardInv' /\ (CitedApart => Abstract!Embedding(d))
  <1>1. Writing(d) /\ check[d] = "merge" /\ Item(d) = Embed /\ UNCHANGED shard /\ WriteChunks(d)
    BY DEF RouterEmbed, WriteChunks, At
  <1>2. Item(d) \notin Nodes
    BY <1>1 DEF Items
  <1>3. check' = [check EXCEPT ![d] = "merge"]
    BY <1>1 DEF WriteChunks, ShardInv, WriterTypeOK
  <1>4. WriterTypeOK' /\ RunsStand' /\ ChecksHaveTargets'
    <2>1. pos' = [pos EXCEPT ![d] = @ + 1] /\ embedded' \subseteq Docs
          /\ UNCHANGED <<tries, skipped, unchecked>>
      BY <1>1 DEF WriteChunks, ShardInv, WriterTypeOK
    <2>2. QED BY <1>1, <1>2, <1>3, <2>1, ShardsRest, RouterAdvances
  <1>5. Abstract!WriteChunks(d)
    <2>1. UNCHANGED Mapped
      BY <1>1 DEF WriteChunks, Mapped
    <2>2. Abstract!At(d, "merge") /\ Abstract!Item(d) = Embed
      BY <1>1, MappedWriter DEF Mapped
    <2>3. QED BY <1>1, <2>1, <2>2 DEF WriteChunks, Abstract!WriteChunks, Mapped
  <1>6. QED BY <1>1, <1>4, <1>5, ShardsRest, SameKnown
            DEF ShardInv, Abstract!Embedding, Abstract!storeFrame

(* The scan finds on the claim's shard what there is to find; about a paper, *)
(* nothing.                                                                  *)
LEMMA SameScan ==
  ASSUME ShardInv, NEW d \in Docs, Writing(d), Item(d) \in Edges
  PROVE  Opposed(shard[HomeOf(Item(d))], Item(d), d) <=> Opposed(Known, Item(d), d)
  <1> DEFINE e == Item(d)
  <1>1. Opposite(e) \in Edges /\ HomeOf(Opposite(e)) = HomeOf(e) /\ HomeOf(e) \in Shards
    BY HomeIsAShard DEF HomeOf, Opposite, Edges, Claims
  <1>2. ASSUME NEW p, p[1] = Opposite(e)
        PROVE  p \in Logical.doc <=> p \in shard[HomeOf(e)].doc
    <2>1. p \in Edges \X Docs => (p \in Logical.doc <=> p \in shard[HomeOf(e)].doc)
      BY <1>1, <1>2, LogicalFacts DEF ShardInv
    <2>2. \A i \in Shards : shard[i].doc \subseteq Edges \X Docs
      BY ShardFacts DEF Databases, ShardInv
    <2>3. p \in Logical.doc => p \in Edges \X Docs
      BY <2>2 DEF Logical
    <2>4. QED BY <1>1, <2>1, <2>2, <2>3
  <1>3. Ends(e) \cap Papers = {} => Kept(Opposite(e))
    <2>1. Ends(e) \cap Papers = {} => Ends(e) \subseteq Documented
      BY EndsStand
    <2>2. QED BY <2>1, EdgesOfPapers
  <1>4. ASSUME Ends(e) \cap Papers = {}, NEW p, p[1] = Opposite(e)
        PROVE  p \in Known.doc <=> p \in shard[HomeOf(e)].doc
    BY <1>2, <1>3, <1>4, KnownFacts
  <1> HIDE DEF e
  <1>5. QED BY <1>4 DEF Opposed, e

LEMMA RouterScanImplements ==
  ASSUME ShardInv, NEW d \in Docs, RouterScan(d)
  PROVE  ShardInv' /\ (CitedApart => Abstract!Scan(d))
  <1> DEFINE e == Item(d)
  <1>1. Writing(d) /\ check[d] = "scan" /\ e \in Edges /\ e \notin Nodes /\ UNCHANGED shard
    BY DEF RouterScan, At, ShardInv, WriterTypeOK, Item
  <1>2. Opposed(shard[HomeOf(e)], e, d) <=> Opposed(Known, e, d)
    BY <1>1, SameScan
  <1>3. e.to \in shard'[HomeOf(e)].has
    BY <1>1 DEF ShardInv, ChecksHaveTargets
  <1>4. WriterTypeOK' /\ RunsStand' /\ ChecksHaveTargets'
    <2>1. CASE Enter(d, "flag")
      BY <1>1, <1>3, <2>1, ShardsRest, RouterEnters
    <2>2. CASE Advance(d)
      BY <1>1, <2>2, ShardsRest, RouterAdvances DEF Advance, ShardInv, WriterTypeOK
    <2>3. QED BY <2>1, <2>2 DEF RouterScan
  <1>5. Abstract!Scan(d)
    <2>1. Abstract!At(d, "scan") /\ Abstract!Item(d) = e
      BY <1>1, MappedWriter DEF Mapped
    <2>2. IF Abstract!Opposed(Known, e, d) THEN Abstract!Enter(d, "flag") ELSE Abstract!Advance(d)
      BY <1>2, MappedOperators, MappedEnter, MappedAdvance DEF RouterScan, ShardInv
    <2>3. Known' = Known
      BY <1>1, ShardsRest, SameKnown
    <2>4. QED BY <2>1, <2>2, <2>3 DEF Abstract!Scan, Abstract!storeFrame
  <1>6. QED BY <1>1, <1>4, <1>5, ShardsRest DEF ShardInv

LEMMA LogicalFlag ==
  ASSUME NEW g, NEW h, IsRecord(g), IsRecord(h), NEW e,
         h.has = g.has, h.stubs = g.stubs, h.by = g.by, h.doc = g.doc,
         h.flagged = g.flagged \cup ({e, Opposite(e)} \cap g.has)
  PROVE  h = Flag(g, e)
  BY DEF IsRecord, Flag

LEMMA RouterFlagImplements ==
  ASSUME ShardInv, NEW d \in Docs, RouterFlag(d)
  PROVE  ShardInv' /\ (CitedApart => Abstract!FlagClaims(d))
  <1> DEFINE e == Item(d)
             i == HomeOf(e)
             new == Flag(shard[i], e)
  <1>1. Writing(d) /\ check[d] = "flag" /\ e \in Edges /\ On(i, new) /\ Enter(d, "dispute")
    BY DEF RouterFlag, At, ShardInv, WriterTypeOK, Item
  <1>2. i \in Shards /\ Opposite(e) \in Edges /\ HomeOf(Opposite(e)) = i
    BY <1>1, HomeIsAShard DEF HomeOf, Opposite, Edges, Claims
  <1>3. Fits(i, shard[i]) /\ WellFormed(shard[i])
    BY <1>2 DEF ShardInv, ShardsFit, Fits
  <1>4. /\ WellFormed(new) /\ new.has = shard[i].has /\ new.stubs = shard[i].stubs
        /\ new.by = shard[i].by /\ new.doc = shard[i].doc
        /\ new.flagged = shard[i].flagged \cup ({e, Opposite(e)} \cap shard[i].has)
    <2>1. new.stubs = shard[i].stubs
      BY <1>3 DEF Flag, WellFormed, Databases
    <2>2. QED BY <1>1, <1>3, <2>1, FlagFits, FlagRecords
  <1>5. e.to \in shard[i].has
    BY <1>1 DEF ShardInv, ChecksHaveTargets
  <1> HIDE DEF new
  <1>6. Fits(i, new)
    BY <1>3, <1>4 DEF Fits, NodesOf, EdgesOf
  <1>7. \A m \in new.stubs \ Papers : Stands(m)
    BY <1>2, <1>4 DEF ShardInv, StubsStandForNodes
  <1>8. /\ ShardsFit' /\ StubsStandForNodes'
        /\ \A j \in Shards : shard[j].has \subseteq shard'[j].has
        /\ \A m \in Nodes : Stands(m) => Stands(m)'
        /\ shard'[i] = new
    BY <1>1, <1>2, <1>4, <1>6, <1>7, StatementFits
  <1>9. WriterTypeOK' /\ RunsStand' /\ ChecksHaveTargets'
    BY <1>1, <1>4, <1>5, <1>8, RouterEnters
  <1>10. Known' = Flag(Known, e)
    <2>1. Real(new) = Real(shard[i]) /\ Grows(shard[i], new)
      BY <1>4 DEF Real, Grows
    <2>2. ShardsFit
      BY DEF ShardInv
    <2>3. {e, Opposite(e)} \cap Logical.has = {e, Opposite(e)} \cap shard[i].has
      BY <1>1, <1>2, <2>2, LogicalFacts
    <2>4. /\ Logical'.has = Logical.has /\ Logical'.stubs = Logical.stubs
          /\ Logical'.by = Logical.by /\ Logical'.doc = Logical.doc
          /\ Logical'.flagged = Logical.flagged \cup ({e, Opposite(e)} \cap Logical.has)
      <3>1. /\ Logical'.has = Logical.has \cup Real(new)
            /\ Logical'.stubs = {} /\ Logical.stubs = {}
            /\ Logical'.by = Logical.by \cup new.by /\ shard[i].by \subseteq Logical.by
        BY <1>1, <1>2, <2>1, <2>2, LogicalGrows
      <3>2. /\ Logical'.doc = Logical.doc \cup new.doc /\ shard[i].doc \subseteq Logical.doc
            /\ Logical'.flagged = Logical.flagged \cup new.flagged
            /\ shard[i].flagged \subseteq Logical.flagged
            /\ Real(shard[i]) \subseteq Logical.has
        BY <1>1, <1>2, <2>1, <2>2, LogicalGrows
      <3>3. QED BY ONLY <1>4, <2>1, <2>3, <3>1, <3>2
    <2>5. Kept(Opposite(e)) <=> Kept(e)
      BY <1>1, EdgesOfPapers
    <2> HIDE DEF e, i
    <2>6. /\ Known'.has = Known.has /\ Known'.stubs = Known.stubs
          /\ Known'.by = Known.by /\ Known'.doc = Known.doc
      BY <2>4, KnownFacts, KnownFactsNext
    <2>7. Known'.flagged = Known.flagged \cup ({e, Opposite(e)} \cap Known.has)
      BY <2>4, KnownFacts, KnownFactsNext
    <2>8. IsRecord(Known) /\ IsRecord(Known')
      BY KnownFacts, KnownFactsNext
    <2>9. QED BY <2>6, <2>7, <2>8, LogicalFlag
  <1>11. Abstract!FlagClaims(d)
    <2>1. Abstract!At(d, "flag") /\ Abstract!Item(d) = e
      BY <1>1, MappedWriter DEF Mapped
    <2>2. Abstract!Enter(d, "dispute")
      BY <1>1, MappedEnter DEF ShardInv
    <2>3. Known' = Abstract!Flag(Known, e)
      BY <1>10, MappedOperators
    <2>4. QED BY <2>1, <2>2, <2>3 DEF Abstract!FlagClaims, Abstract!storeFrame
  <1>12. QED BY <1>8, <1>9, <1>11 DEF ShardInv

LEMMA LogicalMergeDispute ==
  ASSUME NEW g, NEW h, IsRecord(g), IsRecord(h), NEW e, Ends(e) \subseteq g.has,
         h.has = g.has \cup {Dispute(e)}, h.stubs = g.stubs, h.by = g.by, h.doc = g.doc,
         h.flagged = g.flagged
  PROVE  h = MergeDispute(g, e)
  BY DEF IsRecord, MergeDispute

LEMMA RouterDisputeImplements ==
  ASSUME ShardInv, NEW d \in Docs, RouterDispute(d)
  PROVE  ShardInv' /\ (CitedApart => Abstract!RecordDispute(d))
  <1> DEFINE e == Item(d)
             i == HomeOf(e)
             new == MergeDispute(shard[i], e)
             there == Ends(e) \subseteq shard[i].has
             Shown == CitedApart => Known' = MergeDispute(Known, e)
             Fine == /\ ShardsFit' /\ StubsStandForNodes'
                     /\ \A j \in Shards : shard[j].has \subseteq shard'[j].has
                     /\ \A m \in Nodes : Stands(m) => Stands(m)'
  <1>1. Writing(d) /\ check[d] = "dispute" /\ e \in Edges /\ On(i, new) /\ Advance(d)
    BY DEF RouterDispute, At, ShardInv, WriterTypeOK, Item
  <1>2. i \in Shards /\ Dispute(e) \in Edges /\ HomeOf(Dispute(e)) = i /\ Ends(Dispute(e)) = Ends(e)
        /\ Dispute(e) \notin Nodes /\ e \notin Nodes
    <2>1. Dispute(e) \in Edges /\ Dispute(e).from = e.from /\ Dispute(e).to = e.to
      BY <1>1 DEF Dispute, Edges
    <2>2. QED BY <1>1, <2>1, HomeIsAShard DEF HomeOf, Ends
  <1>3. Fits(i, shard[i]) /\ WellFormed(shard[i]) /\ shard[i].stubs \subseteq Nodes
    BY <1>2 DEF ShardInv, ShardsFit, Fits, WellFormed, Databases
  <1>4. /\ Ends(e) \subseteq Known.has => there
        /\ CitedApart /\ Kept(e) => Ends(e) \subseteq Known.has
        /\ Ends(e) \subseteq Known.has => Kept(e)
        /\ Kept(Dispute(e)) <=> Kept(e)
    BY <1>1, EndsOnShard, EdgesOfPapers
  <1> HIDE DEF Shown, Fine
  <1>5. ASSUME ~there PROVE Fine /\ Shown
    <2>1. new = shard[i]
      BY <1>5, NoDispute
    <2>2. shard' = shard
      BY <1>1, <1>2, <2>1, UnchangedShard
    <2>3. Known' = Known
      BY <2>2, ShardsRest, SameKnown
    <2>4. MergeDispute(Known, e) = Known
      <3>1. ~(Ends(e) \subseteq Known.has)
        BY <1>4, <1>5
      <3> HIDE DEF e
      <3>2. QED BY <3>1, NoDispute
    <2>5. QED BY <2>2, <2>3, <2>4, ShardsRest DEF Fine, Shown
  <1>6. ASSUME there PROVE Fine /\ Shown
    <2>1. /\ WellFormed(new) /\ new.has = shard[i].has \cup {Dispute(e)}
          /\ new.stubs = shard[i].stubs /\ new.by = shard[i].by
          /\ new.doc = shard[i].doc /\ new.flagged = shard[i].flagged
      <3>1. new.stubs = shard[i].stubs
        BY <1>3 DEF MergeDispute, WellFormed, Databases
      <3>2. WellFormed(new) /\ new.by = shard[i].by
        BY <1>1, <1>3, MergeDisputeFits
      <3>3. QED BY <1>3, <1>6, <3>1, <3>2, MergeDisputeRecords
    <2> HIDE DEF new
    <2>2. Fits(i, new)
      <3>1. \A m \in NodesOf(new) : m \in new.stubs <=> Home[m] # i
        BY <1>2, <1>3, <2>1 DEF Fits, NodesOf
      <3>2. \A f \in EdgesOf(new) : HomeOf(f) = i /\ Ends(f) \subseteq new.has
        <4>1. \A f \in EdgesOf(new) : f = Dispute(e) \/ f \in EdgesOf(shard[i])
          BY <2>1 DEF EdgesOf
        <4>2. QED BY <1>2, <1>3, <1>6, <2>1, <4>1 DEF Fits
      <3>3. QED BY <1>3, <2>1, <3>1, <3>2 DEF Fits
    <2>3. \A m \in new.stubs \ Papers : Stands(m)
      BY <1>2, <2>1 DEF ShardInv, StubsStandForNodes
    <2>4. Fine
      BY <1>1, <1>2, <2>1, <2>2, <2>3, StatementFits DEF Fine
    <2>5. /\ Logical'.has = Logical.has \cup {Dispute(e)}
          /\ Logical'.by = Logical.by /\ Logical'.doc = Logical.doc
          /\ Logical'.flagged = Logical.flagged
      <3>1. Real(new) = Real(shard[i]) \cup {Dispute(e)} /\ Grows(shard[i], new)
        BY <1>2, <1>3, <2>1 DEF Real, Grows
      <3>2. ShardsFit
        BY DEF ShardInv
      <3>3. /\ Logical'.has = Logical.has \cup Real(new)
            /\ Logical'.by = Logical.by \cup new.by /\ shard[i].by \subseteq Logical.by
        BY <1>1, <1>2, <3>1, <3>2, LogicalGrows
      <3>4. /\ Logical'.doc = Logical.doc \cup new.doc /\ shard[i].doc \subseteq Logical.doc
            /\ Logical'.flagged = Logical.flagged \cup new.flagged
            /\ shard[i].flagged \subseteq Logical.flagged
            /\ Real(shard[i]) \subseteq Logical.has
        BY <1>1, <1>2, <3>1, <3>2, LogicalGrows
      <3>5. QED BY ONLY <2>1, <3>1, <3>3, <3>4
    <2> HIDE DEF e, i, there
    <2>6. CASE ~Kept(e)
      <3>1. \A x : Kept(x) => x # Dispute(e)
        BY <1>4, <2>6
      <3>2. Known' = Known
        BY <2>5, <3>1, KnownRests
      <3>3. MergeDispute(Known, e) = Known
        BY <1>4, <2>6, NoDispute
      <3>4. QED BY <2>4, <3>2, <3>3 DEF Shown
    <2>7. CASE Kept(e) /\ CitedApart
      <3>1. Known'.has = Known.has \cup {Dispute(e)}
        BY <1>4, <2>5, <2>7, KnownFacts, KnownFactsNext
      <3>2. /\ Known'.stubs = Known.stubs /\ Known'.by = Known.by
            /\ Known'.doc = Known.doc /\ Known'.flagged = Known.flagged
        BY <2>5, KnownFacts, KnownFactsNext
      <3>3. IsRecord(Known) /\ IsRecord(Known') /\ Ends(e) \subseteq Known.has
        BY <1>4, <2>7, KnownFacts, KnownFactsNext
      <3>4. QED BY <2>4, <3>1, <3>2, <3>3, LogicalMergeDispute DEF Shown
    <2>8. QED BY <2>4, <2>6, <2>7 DEF Shown
  <1>7. Fine /\ Shown
    BY <1>5, <1>6
  <1>8. WriterTypeOK' /\ RunsStand' /\ ChecksHaveTargets'
    BY <1>1, <1>2, <1>7, RouterAdvances DEF Advance, ShardInv, WriterTypeOK, Fine
  <1>9. ASSUME CitedApart PROVE Abstract!RecordDispute(d)
    <2>1. Abstract!At(d, "dispute") /\ Abstract!Item(d) = e
      BY <1>1, MappedWriter DEF Mapped
    <2>2. Abstract!Advance(d)
      BY <1>1, MappedAdvance DEF ShardInv
    <2>3. Known' = Abstract!MergeDispute(Known, e)
      BY <1>7, <1>9, MappedOperators DEF Shown
    <2>4. QED BY <2>1, <2>2, <2>3 DEF Abstract!RecordDispute, Abstract!storeFrame
  <1>10. QED BY <1>7, <1>8, <1>9 DEF ShardInv, Fine

-----------------------------------------------------------------------------
LEMMA RouterInitImplements == RouterInit => Abstract!Init
  <1> SUFFICES ASSUME RouterInit PROVE Abstract!Init
    OBVIOUS
  <1>1. Logical.has = {} /\ Logical.by = {} /\ Logical.doc = {} /\ Logical.flagged = {}
    BY DEF RouterInit, Logical, Empty
  <1>2. Known = Empty
    BY <1>1 DEF Known, Empty
  <1>3. Abstract!WriterInit
    BY DEF RouterInit, WriterInit, Abstract!WriterInit
  <1>4. QED BY <1>2, <1>3 DEF Abstract!Init, Abstract!Empty, Empty

LEMMA RouterNextKeeps == ShardInv /\ [RouterNext]_routerVars => ShardInv'
  <1> SUFFICES ASSUME ShardInv, [RouterNext]_routerVars PROVE ShardInv'
    OBVIOUS
  <1>1. ASSUME NEW d \in Docs, RouterStep(d) PROVE ShardInv'
    BY <1>1, EnsureTargetImplements, RouterStartImplements, RouterMergeNodeImplements,
       RouterMergeEdgeImplements, RouterEmbedImplements, RouterScanImplements,
       RouterFlagImplements, RouterDisputeImplements, RouterFailImplements DEF RouterStep
  <1>2. CASE UNCHANGED routerVars
    BY <1>2, ShardsRest DEF routerVars, writerVars, ShardInv, WriterTypeOK, RunsStand,
         ChecksHaveTargets, Stands, Writing, Done, Item
  <1>3. QED BY <1>1, <1>2 DEF RouterNext

LEMMA RouterNextImplements ==
  CitedApart /\ ShardInv /\ [RouterNext]_routerVars => [Abstract!Next]_(Abstract!vars)
  <1> SUFFICES ASSUME CitedApart, ShardInv, [RouterNext]_routerVars
               PROVE  [Abstract!Next]_(Abstract!vars)
    OBVIOUS
  <1>1. ASSUME NEW d \in Docs, RouterStep(d) PROVE [Abstract!Next]_(Abstract!vars)
    <2>1. CASE EnsureTarget(d)
      BY <2>1, EnsureTargetImplements
    <2>2. CASE ~EnsureTarget(d)
      <3>1. Abstract!DocStep(d)
        BY <1>1, <2>2, RouterStartImplements, RouterMergeNodeImplements, RouterMergeEdgeImplements,
           RouterEmbedImplements, RouterScanImplements, RouterFlagImplements,
           RouterDisputeImplements, RouterFailImplements
           DEF RouterStep, Abstract!DocStep
      <3>2. QED BY <3>1 DEF Abstract!Next
    <2>3. QED BY <2>1, <2>2
  <1>2. CASE UNCHANGED routerVars
    <2>1. Known' = Known
      BY <1>2, ShardsRest, SameKnown DEF routerVars
    <2>2. QED BY <1>2, <2>1 DEF routerVars, writerVars, Abstract!vars, Abstract!writerVars
  <1>3. QED BY <1>1, <1>2 DEF RouterNext

(* However many shards there are and wherever the nodes live: what documents  *)
(* that do not cite each other do to them together is, but for what the       *)
(* shards keep of papers that no document is, what they would do to one       *)
(* database (ShardRouter).                                                    *)
THEOREM ShardsAreOneGraph == ASSUME CitedApart PROVE RouterSpec => ImplementsGraph
  <1>1. ShardInv /\ [RouterNext]_routerVars => [Abstract!Next]_(Abstract!vars)
    BY RouterNextImplements
  <1>2. QED BY <1>1, ShardInitHolds, RouterInitImplements, RouterNextKeeps, PTL
        DEF RouterSpec, ImplementsGraph, Abstract!Spec

-----------------------------------------------------------------------------
(* The scattered reads. *)
LEMMA ReadOfShards ==
  ASSUME ShardsFit PROVE DOMAIN shard = Shards
  BY DEF ShardsFit

LEMMA LogicalEdges ==
  ASSUME ShardsFit
  PROVE  \A e : e \in EdgesOf(Logical) <=> e \in Edges /\ e \in shard[HomeOf(e)].has
  BY LogicalFacts DEF EdgesOf, Items

(* _fetch_edges keeps the edges between nodes of one shard that have a name. *)
LEMMA FetchedEdges ==
  ASSUME ShardsFit
  PROVE  \A e : e \in FetchEdges(shard)
                  <=> /\ e \in EdgesOf(Logical) /\ Home[e.from] = Home[e.to]
                      /\ \A n \in Ends(e) : Named(shard[HomeOf(e)], n)
  <1> SUFFICES ASSUME NEW e
               PROVE  e \in FetchEdges(shard)
                        <=> /\ e \in EdgesOf(Logical) /\ Home[e.from] = Home[e.to]
                            /\ \A n \in Ends(e) : Named(shard[HomeOf(e)], n)
    OBVIOUS
  <1>1. e \in FetchEdges(shard)
          <=> \E i \in Shards : /\ e \in EdgesOf(shard[i])
                                /\ \A n \in Ends(e) : n \notin shard[i].stubs /\ Named(shard[i], n)
    BY ReadOfShards DEF FetchEdges, RunRead
  <1>2. \A i \in Shards : e \in EdgesOf(shard[i]) <=> e \in Edges /\ e \in shard[i].has
    BY ShardFacts DEF EdgesOf, Databases, Items
  <1>3. ASSUME e \in Edges, NEW i \in Shards, e \in shard[i].has
        PROVE  /\ i = HomeOf(e)
               /\ (\A n \in Ends(e) : n \notin shard[i].stubs) <=> Home[e.from] = Home[e.to]
    <2>1. i = HomeOf(e) /\ Ends(e) \subseteq shard[i].has /\ Ends(e) \subseteq Nodes
      BY <1>3, ShardFacts, HomeIsAShard DEF Ends
    <2>2. \A n \in Ends(e) : n \in shard[i].stubs <=> Home[n] # i
      BY <1>3, <2>1, ShardFacts
    <2>3. QED BY <2>1, <2>2 DEF Ends, HomeOf
  <1>4. QED BY <1>1, <1>2, <1>3, LogicalEdges, HomeIsAShard

LEMMA AroundMeans ==
  ASSUME NEW edges, NEW x, NEW z
  PROVE  z \in Around(edges, x) <=> z # x /\ \E e \in edges : x \in Ends(e) /\ z \in Ends(e)
  <1> DEFINE touching == {e \in edges : x \in Ends(e)}
             ends == {Ends(e) : e \in touching}
  <1>1. \A s : s \in ends <=> \E e \in touching : s = Ends(e)
    OBVIOUS
  <1>2. z \in UNION ends <=> \E s \in ends : z \in s
    OBVIOUS
  <1>3. \A e : e \in touching <=> e \in edges /\ x \in Ends(e)
    OBVIOUS
  <1>4. Around(edges, x) = (UNION ends) \ {x}
    BY DEF Around
  <1> HIDE DEF ends, touching
  <1>5. QED BY <1>1, <1>2, <1>3, <1>4

(* compute_research_gaps, over the edges _fetch_edges finds on each shard,    *)
(* reports no pair that an edge of any shard joins.                          *)
THEOREM GapsAreNowhereJoined == RouterSpec => []GapsAreReal
  <1>1. ASSUME ShardInv PROVE GapsAreReal
    <2> DEFINE fetched == FetchEdges(shard)
               edges == EdgesOf(Logical)
    <2>1. \A e : e \in fetched
                   <=> /\ e \in edges /\ Home[e.from] = Home[e.to]
                       /\ \A n \in Ends(e) : Named(shard[HomeOf(e)], n)
      BY <1>1, FetchedEdges DEF ShardInv
    <2> HIDE DEF fetched, edges
    <2>2. SUFFICES ASSUME NEW p \in Gaps(fetched)
                   PROVE  ~Joined(edges, p[1], p[2]) /\ Common(edges, p[1], p[2]) # {}
      BY DEF GapsAreReal, fetched, edges
    <2> DEFINE x == p[1]
               y == p[2]
    <2>3. x # y /\ ~Joined(fetched, x, y) /\ Common(fetched, x, y) # {}
      BY DEF Gaps
    <2> HIDE DEF x, y
    <2>4. PICK z : z \in Around(fetched, x) /\ z \in Around(fetched, y)
      BY <2>3 DEF Common
    <2>5. PICK e1 \in fetched : x \in Ends(e1) /\ z \in Ends(e1)
      BY <2>4, AroundMeans
    <2>6. PICK e2 \in fetched : y \in Ends(e2) /\ z \in Ends(e2)
      BY <2>4, AroundMeans
    <2>7. z # x /\ z # y
      BY <2>4, AroundMeans
    <2>8. Home[x] = Home[z] /\ Home[y] = Home[z]
      BY <2>1, <2>5, <2>6, <2>7 DEF Ends
    <2>9. ~Joined(edges, x, y)
      <3>1. SUFFICES ASSUME NEW e \in edges, Ends(e) = {x, y} PROVE FALSE
        BY DEF Joined
      <3>2. Home[e.from] = Home[e.to]
        BY <2>8, <3>1 DEF Ends
      <3>3. HomeOf(e) = Home[z] /\ HomeOf(e1) = Home[z] /\ HomeOf(e2) = Home[z]
        BY <2>1, <2>5, <2>6, <2>8, <3>1 DEF Ends, HomeOf
      <3>4. Named(shard[HomeOf(e)], x) /\ Named(shard[HomeOf(e)], y)
        BY <2>1, <2>5, <2>6, <3>3
      <3>5. e \in fetched
        BY <2>1, <3>1, <3>2, <3>4
      <3>6. QED BY <2>3, <3>1, <3>5 DEF Joined
    <2>10. z \in Common(edges, x, y)
      BY <2>1, <2>5, <2>6, <2>7, AroundMeans DEF Common
    <2>11. QED BY <2>9, <2>10 DEF x, y
  <1>2. ShardInv /\ [RouterNext]_routerVars => ShardInv'
    BY RouterNextKeeps
  <1>3. QED BY <1>1, <1>2, ShardInitHolds, PTL DEF RouterSpec

-----------------------------------------------------------------------------
(* A sum over disjoint parts is the size of the whole. *)
Whole(part, s) == UNION {part[i] : i \in s}

Parted(part, S) ==
  /\ IsFiniteSet(S)
  /\ \A i \in S : IsFiniteSet(part[i])
  /\ \A i, j \in S : i # j => part[i] \cap part[j] = {}

(* What MapThenSumSet computes with, part by part. *)
Sums(part, S, f) ==
  f = [s \in SUBSET S |->
         IF s = {} THEN 0
         ELSE LET i == CHOOSE x \in s : TRUE IN Cardinality(part[i]) + f[s \ {i}]]

LEMMA WholeOfNothing == ASSUME NEW part PROVE Whole(part, {}) = {}
  BY DEF Whole

LEMMA WholeIsFinite ==
  ASSUME NEW part, NEW S, Parted(part, S), NEW t \in SUBSET S
  PROVE  IsFiniteSet(Whole(part, t))
  <1> DEFINE parts == {part[j] : j \in t}
  <1>1. IsFiniteSet(t)
    BY FS_Subset DEF Parted
  <1>2. IsFiniteSet(parts)
    <2> DEFINE g == [j \in t |-> part[j]]
    <2>1. g \in Surjection(t, parts)
      BY DEF Surjection
    <2>2. QED BY <1>1, <2>1, FS_Surjection
  <1>3. \A x \in parts : IsFiniteSet(x)
    BY DEF Parted
  <1> HIDE DEF parts
  <1>4. IsFiniteSet(UNION parts)
    BY <1>2, <1>3, FS_UNION
  <1>5. QED BY <1>4 DEF parts, Whole

LEMMA WholeGrows ==
  ASSUME NEW part, NEW S, Parted(part, S), NEW s \in SUBSET S, NEW i \in s
  PROVE  /\ IsFiniteSet(Whole(part, s))
         /\ Cardinality(Whole(part, s)) = Cardinality(part[i]) + Cardinality(Whole(part, s \ {i}))
         /\ Cardinality(Whole(part, s \ {i})) \in Nat /\ Cardinality(part[i]) \in Nat
  <1>1. \A t \in SUBSET S : IsFiniteSet(Whole(part, t))
    BY WholeIsFinite
  <1>2. Whole(part, s) = part[i] \cup Whole(part, s \ {i})
    <2>1. \A x : x \in Whole(part, s) <=> \E j \in s : x \in part[j]
      BY DEF Whole
    <2>2. \A x : x \in Whole(part, s \ {i}) <=> \E j \in s \ {i} : x \in part[j]
      BY DEF Whole
    <2>3. QED BY <2>1, <2>2
  <1>3. part[i] \cap Whole(part, s \ {i}) = {}
    <2>1. \A x : x \in Whole(part, s \ {i}) <=> \E j \in s \ {i} : x \in part[j]
      BY DEF Whole
    <2>2. \A j \in s \ {i} : part[i] \cap part[j] = {}
      BY DEF Parted
    <2>3. QED BY <2>1, <2>2
  <1>4. IsFiniteSet(part[i]) /\ IsFiniteSet(Whole(part, s \ {i}))
    BY <1>1 DEF Parted
  <1>5. Cardinality(part[i]) \in Nat /\ Cardinality(Whole(part, s \ {i})) \in Nat
    BY <1>4, FS_CardinalityType
  <1>6. Cardinality(Whole(part, s))
          = Cardinality(part[i]) + Cardinality(Whole(part, s \ {i})) - Cardinality({})
    <2> DEFINE a == part[i]
               b == Whole(part, s \ {i})
    <2>1. IsFiniteSet(a) /\ IsFiniteSet(b) /\ Whole(part, s) = a \cup b /\ a \cap b = {}
      BY <1>2, <1>3, <1>4
    <2> HIDE DEF a, b
    <2>2. Cardinality(a \cup b) = Cardinality(a) + Cardinality(b) - Cardinality(a \cap b)
      BY <2>1, FS_Union
    <2>3. QED BY <2>1, <2>2 DEF a, b
  <1>7. Cardinality({}) = 0
    BY FS_EmptySet
  <1>8. QED BY <1>1, <1>5, <1>6, <1>7

LEMMA SumIsThere ==
  ASSUME NEW part, NEW S, Parted(part, S)
  PROVE  Sums(part, S, [s \in SUBSET S |-> Cardinality(Whole(part, s))])
  <1> DEFINE f == [s \in SUBSET S |-> Cardinality(Whole(part, s))]
             F(s) == IF s = {} THEN 0
                     ELSE LET i == CHOOSE x \in s : TRUE IN Cardinality(part[i]) + f[s \ {i}]
  <1>1. ASSUME NEW s \in SUBSET S PROVE f[s] = F(s)
    <2>1. CASE s = {}
      BY <2>1, FS_EmptySet, WholeOfNothing
    <2>2. CASE s # {}
      <3> DEFINE i == CHOOSE x \in s : TRUE
      <3>1. i \in s
        BY <2>2
      <3> HIDE DEF i
      <3>2. f[s] = Cardinality(part[i]) + f[s \ {i}]
        BY <3>1, WholeGrows
      <3>3. QED BY <2>2, <3>2 DEF i
    <2>3. QED BY <2>1, <2>2
  <1> HIDE DEF F
  <1>2. f = [s \in SUBSET S |-> F(s)]
    BY <1>1
  <1>3. QED BY <1>2 DEF F, Sums

LEMMA SumIsTheWhole ==
  ASSUME NEW part, NEW S, Parted(part, S), NEW f, Sums(part, S, f)
  PROVE  f[S] = Cardinality(Whole(part, S))
  <1> DEFINE off == {s \in SUBSET S : f[s] # Cardinality(Whole(part, s))}
             R == StrictSubsetOrdering(S)
  <1>1. SUFFICES ASSUME off # {} PROVE FALSE
    OBVIOUS
  <1>2. off \subseteq FiniteSubsetsOf(S)
    BY FS_Subset DEF Parted, FiniteSubsetsOf
  <1>3. IsWellFoundedOn(R, FiniteSubsetsOf(S))
    BY FS_StrictSubsetOrderingWellFounded
  <1> HIDE DEF off, R
  <1>4. PICK s \in off : \A t \in off : ~(<<t, s>> \in R)
    BY <1>1, <1>2, <1>3, WFMin
  <1>5. s \in SUBSET S /\ f[s] # Cardinality(Whole(part, s))
    BY DEF off
  <1>6. CASE s = {}
    <2>1. f[s] = 0
      BY <1>5, <1>6 DEF Sums
    <2>2. Cardinality(Whole(part, s)) = 0
      BY <1>6, FS_EmptySet, WholeOfNothing
    <2>3. QED BY <1>5, <2>1, <2>2
  <1>7. CASE s # {}
    <2> DEFINE i == CHOOSE x \in s : TRUE
    <2>1. i \in s
      BY <1>7
    <2>2. f[s] = Cardinality(part[i]) + f[s \ {i}]
      BY <1>5, <1>7 DEF Sums
    <2> HIDE DEF i
    <2>3. <<s \ {i}, s>> \in R
      BY <1>5, <2>1 DEF R, StrictSubsetOrdering
    <2>4. s \ {i} \notin off
      BY <1>4, <2>3
    <2>5. f[s \ {i}] = Cardinality(Whole(part, s \ {i}))
      BY <1>5, <2>4 DEF off
    <2>6. QED BY <1>5, <2>1, <2>2, <2>5, WholeGrows
  <1>8. QED BY <1>6, <1>7

LEMMA DegreeMeans ==
  ASSUME NEW dbs, NEW n, Parted([i \in DOMAIN dbs |-> Touching(dbs[i], n)], DOMAIN dbs)
  PROVE  Degree(dbs, n)
           = Cardinality(Whole([i \in DOMAIN dbs |-> Touching(dbs[i], n)], DOMAIN dbs))
  <1> DEFINE S == DOMAIN dbs
             part == [i \in S |-> Touching(dbs[i], n)]
             Body(f) == f = [s \in SUBSET S |->
                               IF s = {} THEN 0
                               ELSE LET i == CHOOSE x \in s : TRUE
                                    IN DegreeIn(dbs[i], n) + f[s \ {i}]]
             sum == CHOOSE f : Body(f)
  <1>1. Degree(dbs, n) = sum[S]
    BY DEF Degree, MapThenSumSet, MapThenFoldSet
  <1>2. ASSUME NEW f PROVE Body(f) <=> Sums(part, S, f)
    <2> DEFINE A(s) == IF s = {} THEN 0
                       ELSE LET i == CHOOSE x \in s : TRUE IN DegreeIn(dbs[i], n) + f[s \ {i}]
               B(s) == IF s = {} THEN 0
                       ELSE LET i == CHOOSE x \in s : TRUE IN Cardinality(part[i]) + f[s \ {i}]
    <2>1. ASSUME NEW s \in SUBSET S PROVE A(s) = B(s)
      <3>1. CASE s # {}
        <4> DEFINE i == CHOOSE x \in s : TRUE
        <4>1. i \in s
          BY <3>1
        <4> HIDE DEF i
        <4>2. DegreeIn(dbs[i], n) = Cardinality(part[i])
          BY <4>1 DEF DegreeIn
        <4>3. QED BY <3>1, <4>2 DEF i
      <3>2. QED BY <3>1
    <2> HIDE DEF A, B
    <2>2. [s \in SUBSET S |-> A(s)] = [s \in SUBSET S |-> B(s)]
      BY <2>1
    <2>3. QED BY <2>2 DEF A, B, Sums
  <1> HIDE DEF Body, S
  <1>3. Parted(part, S)
    BY DEF S
  <1> HIDE DEF part
  <1>4. \E f : Body(f)
    BY <1>2, <1>3, SumIsThere
  <1>5. Body(sum)
    BY <1>4
  <1> HIDE DEF sum
  <1>6. sum[S] = Cardinality(Whole(part, S))
    BY <1>2, <1>3, <1>5, SumIsTheWhole
  <1>7. QED BY <1>1, <1>6 DEF part, S

LEMMA NodeCountMeans ==
  ASSUME NEW dbs,
         Parted([i \in DOMAIN dbs |-> NodesOf(dbs[i]) \ dbs[i].stubs], DOMAIN dbs)
  PROVE  NodeCount(dbs)
           = Cardinality(Whole([i \in DOMAIN dbs |-> NodesOf(dbs[i]) \ dbs[i].stubs], DOMAIN dbs))
  <1> DEFINE S == DOMAIN dbs
             part == [i \in S |-> NodesOf(dbs[i]) \ dbs[i].stubs]
             Body(f) == f = [s \in SUBSET S |->
                               IF s = {} THEN 0
                               ELSE LET i == CHOOSE x \in s : TRUE
                                    IN Cardinality(NodesOf(dbs[i]) \ dbs[i].stubs) + f[s \ {i}]]
             sum == CHOOSE f : Body(f)
  <1>1. NodeCount(dbs) = sum[S]
    BY DEF NodeCount, MapThenSumSet, MapThenFoldSet
  <1>2. ASSUME NEW f PROVE Body(f) <=> Sums(part, S, f)
    <2> DEFINE A(s) == IF s = {} THEN 0
                       ELSE LET i == CHOOSE x \in s : TRUE
                            IN Cardinality(NodesOf(dbs[i]) \ dbs[i].stubs) + f[s \ {i}]
               B(s) == IF s = {} THEN 0
                       ELSE LET i == CHOOSE x \in s : TRUE IN Cardinality(part[i]) + f[s \ {i}]
    <2>1. ASSUME NEW s \in SUBSET S PROVE A(s) = B(s)
      <3>1. CASE s # {}
        <4> DEFINE i == CHOOSE x \in s : TRUE
        <4>1. i \in s
          BY <3>1
        <4> HIDE DEF i
        <4>2. Cardinality(NodesOf(dbs[i]) \ dbs[i].stubs) = Cardinality(part[i])
          BY <4>1
        <4>3. QED BY <3>1, <4>2 DEF i
      <3>2. QED BY <3>1
    <2> HIDE DEF A, B
    <2>2. [s \in SUBSET S |-> A(s)] = [s \in SUBSET S |-> B(s)]
      BY <2>1
    <2>3. QED BY <2>2 DEF A, B, Sums
  <1> HIDE DEF Body, S
  <1>3. Parted(part, S)
    BY DEF S
  <1> HIDE DEF part
  <1>4. \E f : Body(f)
    BY <1>2, <1>3, SumIsThere
  <1>5. Body(sum)
    BY <1>4
  <1> HIDE DEF sum
  <1>6. sum[S] = Cardinality(Whole(part, S))
    BY <1>2, <1>3, <1>5, SumIsTheWhole
  <1>7. QED BY <1>1, <1>6 DEF part, S

-----------------------------------------------------------------------------
(* The shards are finite: what there is was written one by one. *)
ShardsFinite == \A i \in Shards : IsFiniteSet(shard[i].has)

LEMMA OneMore ==
  ASSUME ShardsFit, ShardsFinite, NEW i \in Shards, NEW new, On(i, new),
         NEW x, new.has \subseteq shard[i].has \cup {x}
  PROVE  ShardsFinite'
  <1>1. \A j \in Shards : shard'[j] = IF j = i THEN new ELSE shard[j]
    BY DEF On, ShardsFit
  <1>2. IsFiniteSet(shard[i].has \cup {x})
    BY FS_AddElement DEF ShardsFinite
  <1>3. IsFiniteSet(new.has)
    BY <1>2, FS_Subset
  <1>4. QED BY <1>1, <1>3 DEF ShardsFinite

LEMMA AtAClaim ==
  ASSUME ShardInv, NEW d \in Docs, Writing(d), check[d] # "merge"
  PROVE  Item(d) \in Edges /\ HomeOf(Item(d)) \in Shards
  BY HomeIsAShard DEF ShardInv, WriterTypeOK, Item

LEMMA ShardsStayFinite ==
  ShardInv /\ ShardsFinite /\ [RouterNext]_routerVars => ShardsFinite'
  <1> SUFFICES ASSUME ShardInv, ShardsFinite, [RouterNext]_routerVars PROVE ShardsFinite'
    OBVIOUS
  <1>1. ShardsFit /\ shard \in [Shards -> Databases]
    BY DEF ShardInv, ShardsFit
  <1>2. CASE UNCHANGED shard
    BY <1>2 DEF ShardsFinite
  <1>3. ASSUME NEW d \in Docs, RouterStep(d), shard' # shard PROVE ShardsFinite'
    <2>1. CASE RouterMergeNode(d)
      <3> DEFINE i == Home[Item(d)]
                 new == MergeNode(shard[i], Item(d), SourceOf[d])
      <3>1. i \in Shards /\ On(i, new)
        BY <2>1, HomeIsAShard DEF RouterMergeNode
      <3>2. new.has = shard[i].has \cup {Item(d)}
        BY <1>1, <3>1 DEF MergeNode, Databases
      <3> HIDE DEF new
      <3>3. QED BY <1>1, <3>1, <3>2, OneMore
    <2>2. CASE EnsureTarget(d)
      <3> DEFINE i == HomeOf(Item(d))
                 n == Item(d).to
                 new == MergeStub(shard[i], n, Home[n] # i)
      <3>1. i \in Shards /\ On(i, new)
        BY <2>2, HomeIsAShard DEF EnsureTarget
      <3>2. new.has \subseteq shard[i].has \cup {n}
        BY <1>1, <3>1 DEF MergeStub, Databases
      <3> HIDE DEF new
      <3>3. QED BY <1>1, <3>1, <3>2, OneMore
    <2>3. CASE RouterMergeEdge(d)
      <3> DEFINE i == HomeOf(Item(d))
                 new == MergeEdge(shard[i], Item(d), SourceOf[d], d)
      <3>1. i \in Shards /\ On(i, new)
        BY <2>3, AtAClaim DEF At, RouterMergeEdge
      <3>2. new.has \subseteq shard[i].has \cup {Item(d)}
        BY <1>1, <3>1 DEF MergeEdge, Databases
      <3> HIDE DEF new
      <3>3. QED BY <1>1, <3>1, <3>2, OneMore
    <2>4. CASE RouterFlag(d)
      <3> DEFINE i == HomeOf(Item(d))
                 new == Flag(shard[i], Item(d))
      <3>1. i \in Shards /\ On(i, new)
        BY <2>4, AtAClaim DEF At, RouterFlag
      <3>2. new.has \subseteq shard[i].has \cup {Item(d)}
        BY <1>1, <3>1 DEF Flag, Databases
      <3> HIDE DEF new
      <3>3. QED BY <1>1, <3>1, <3>2, OneMore
    <2>5. CASE RouterDispute(d)
      <3> DEFINE i == HomeOf(Item(d))
                 new == MergeDispute(shard[i], Item(d))
      <3>1. i \in Shards /\ On(i, new)
        BY <2>5, AtAClaim DEF At, RouterDispute
      <3>2. new.has \subseteq shard[i].has \cup {Dispute(Item(d))}
        BY <1>1, <3>1 DEF MergeDispute, Databases
      <3> HIDE DEF new
      <3>3. QED BY <1>1, <3>1, <3>2, OneMore
    <2>6. QED BY <1>3, <2>1, <2>2, <2>3, <2>4, <2>5
                 DEF RouterStep, RouterStart, RouterEmbed, RouterScan, RouterFail
  <1>4. QED BY <1>2, <1>3 DEF RouterNext, routerVars

LEMMA EmptyIsFinite == RouterInit => ShardsFinite
  <1>1. Empty.has = {} /\ IsFiniteSet({})
    BY FS_EmptySet DEF Empty
  <1>2. QED BY <1>1 DEF RouterInit, ShardsFinite

-----------------------------------------------------------------------------
(* What the reads see of the shards, and of the graph as one database. *)
LEMMA OneDatabase == DOMAIN <<Logical>> = {1} /\ <<Logical>>[1] = Logical
  OBVIOUS

LEMMA EdgesOnShards ==
  ASSUME ShardsFit
  PROVE  /\ \A i \in Shards : \A e :
              e \in EdgesOf(shard[i]) <=> e \in EdgesOf(Logical) /\ HomeOf(e) = i
         /\ \A e \in EdgesOf(Logical) :
              e \in Edges /\ HomeOf(e) \in Shards /\ e.from \in Nodes /\ e.to \in Nodes
  <1>1. ASSUME NEW i \in Shards, NEW e
        PROVE  e \in EdgesOf(shard[i]) <=> e \in EdgesOf(Logical) /\ HomeOf(e) = i
    <2>1. e \in EdgesOf(shard[i]) <=> e \in Edges /\ e \in shard[i].has
      BY ShardFacts DEF EdgesOf, Databases, Items
    <2>2. QED BY <2>1, LogicalEdges, ShardFacts
  <1>2. QED BY <1>1, LogicalEdges, HomeIsAShard

LEMMA RowsAreRead ==
  ASSUME NEW rows PROVE \A x : x \in RunRead(rows) <=> \E i \in DOMAIN rows : x \in rows[i]
  <1> DEFINE all == {rows[i] : i \in DOMAIN rows}
  <1>1. \A s : s \in all <=> \E i \in DOMAIN rows : s = rows[i]
    OBVIOUS
  <1>2. RunRead(rows) = UNION all
    BY DEF RunRead
  <1> HIDE DEF all
  <1>3. QED BY <1>1, <1>2

LEMMA ConflictsMean ==
  ASSUME NEW dbs
  PROVE  \A x : x \in Conflicts(dbs)
                 <=> \E i \in DOMAIN dbs : \E e \in EdgesOf(dbs[i]) :
                       e.kind = "CONFLICTS_WITH" /\ x = Ends(e)
  <1> DEFINE rows == [i \in DOMAIN dbs |->
                        {Ends(e) : e \in {f \in EdgesOf(dbs[i]) : f.kind = "CONFLICTS_WITH"}}]
  <1>1. Conflicts(dbs) = RunRead(rows)
    BY DEF Conflicts
  <1>2. DOMAIN rows = DOMAIN dbs
    OBVIOUS
  <1>3. \A i \in DOMAIN dbs : \A x :
          x \in rows[i] <=> \E e \in EdgesOf(dbs[i]) : e.kind = "CONFLICTS_WITH" /\ x = Ends(e)
    OBVIOUS
  <1> HIDE DEF rows
  <1>4. QED BY <1>1, <1>2, <1>3, RowsAreRead

LEMMA ConflictsAreWhole ==
  ASSUME ShardsFit PROVE Conflicts(shard) = Conflicts(<<Logical>>)
  <1>1. \A x : x \in Conflicts(shard)
                 <=> \E e \in EdgesOf(Logical) : e.kind = "CONFLICTS_WITH" /\ x = Ends(e)
    BY ConflictsMean, EdgesOnShards, ReadOfShards
  <1>2. \A x : x \in Conflicts(<<Logical>>)
                 <=> \E e \in EdgesOf(Logical) : e.kind = "CONFLICTS_WITH" /\ x = Ends(e)
    BY ConflictsMean, OneDatabase
  <1>3. QED BY <1>1, <1>2

LEMMA FoundIsWhole ==
  ASSUME ShardsFit, NEW n \in Entities PROVE Found(shard[Home[n]], n) <=> n \in Logical.has
  BY LogicalFacts, HomeIsAShard DEF Found, Stands, Entities

(* A claim, its opposite and what is recorded of them are on one shard. *)
LEMMA DisputesMean ==
  ASSUME NEW dbs, NEW n
  PROVE  \A x : x \in Disputes(dbs, n) <=> \E i \in DOMAIN dbs : x \in DisputesIn(dbs[i], n)
  <1> DEFINE rows == [i \in DOMAIN dbs |-> DisputesIn(dbs[i], n)]
  <1>1. DOMAIN rows = DOMAIN dbs /\ \A i \in DOMAIN dbs : rows[i] = DisputesIn(dbs[i], n)
    OBVIOUS
  <1>2. Disputes(dbs, n) = RunRead(rows)
    BY DEF Disputes
  <1> HIDE DEF rows
  <1>3. QED BY <1>1, <1>2, RowsAreRead

LEMMA OppositeIsAnEdge ==
  ASSUME NEW e \in Edges
  PROVE  Opposite(e) \in Edges /\ Opposite(e).from = e.from /\ Opposite(e).to = e.to
  BY DEF Opposite, Edges, Claims

Behind(g, e) == {p[2] : p \in {q \in g.doc : q[1] \in {e, Opposite(e)} \cap g.flagged}}

LEMMA DisputesAreWhole ==
  ASSUME ShardsFit, NEW n \in Nodes PROVE Disputes(shard, n) = Disputes(<<Logical>>, n)
  <1>1. \A g : \A x : x \in DisputesIn(g, n)
                  <=> \E e \in g.flagged : e.from = n /\ x = <<e.to, Behind(g, e)>>
    BY DEF DisputesIn, Behind
  <1>2. ASSUME NEW i \in Shards, NEW e
        PROVE  e \in shard[i].flagged <=> e \in Logical.flagged /\ HomeOf(e) = i
    <2>1. e \in shard[i].flagged => e \in Edges /\ e \in shard[i].has /\ HomeOf(e) = i
      BY ShardFacts DEF WellFormed, Databases
    <2>2. e \in Logical.flagged => e \in Edges
      BY ShardFacts DEF Logical, Databases
    <2>3. QED BY <2>1, <2>2, LogicalFacts
  <1>3. ASSUME NEW i \in Shards, NEW e \in Logical.flagged, HomeOf(e) = i
        PROVE  Behind(shard[i], e) = Behind(Logical, e)
    <2>1. e \in Edges /\ Opposite(e) \in Edges /\ HomeOf(Opposite(e)) = i
      <3>1. e \in Edges
        BY ShardFacts DEF Logical, Databases
      <3>2. QED BY <1>3, <3>1, OppositeIsAnEdge DEF HomeOf
    <2>2. \A p : p \in Logical.doc \/ p \in shard[i].doc => p \in Edges \X Docs
      BY ShardFacts DEF Logical, Databases
    <2>3. \A p : p[1] \in {e, Opposite(e)} => (p \in Logical.doc <=> p \in shard[i].doc)
      BY <1>3, <2>1, <2>2, LogicalFacts
    <2>4. \A f \in {e, Opposite(e)} : f \in Logical.flagged <=> f \in shard[i].flagged
      BY <1>2, <1>3, <2>1
    <2>5. {q \in shard[i].doc : q[1] \in {e, Opposite(e)} \cap shard[i].flagged}
            = {q \in Logical.doc : q[1] \in {e, Opposite(e)} \cap Logical.flagged}
      BY <2>3, <2>4
    <2>6. QED BY <2>5 DEF Behind
  <1>4. \A x : x \in Disputes(shard, n)
                 <=> \E e \in Logical.flagged : e.from = n /\ x = <<e.to, Behind(Logical, e)>>
    <2>1. \A e \in Logical.flagged : e.from = n => HomeOf(e) \in Shards
      BY HomeIsAShard DEF HomeOf
    <2>2. ASSUME NEW x
          PROVE  x \in Disputes(shard, n)
                   <=> \E i \in Shards : \E e \in shard[i].flagged :
                          e.from = n /\ x = <<e.to, Behind(shard[i], e)>>
      BY <1>1, DisputesMean, ReadOfShards
    <2>3. QED BY <1>2, <1>3, <2>1, <2>2
  <1>5. \A x : x \in Disputes(<<Logical>>, n)
                 <=> \E e \in Logical.flagged : e.from = n /\ x = <<e.to, Behind(Logical, e)>>
    BY <1>1, DisputesMean, OneDatabase
  <1>6. QED BY <1>4, <1>5

InContext(g, n, p) ==
  /\ p \in Nodes \X EdgesOf(g) /\ n \in Ends(p[2]) /\ Ends(p[2]) \ {n} = {p[1]}
  /\ n \notin g.stubs /\ Named(g, p[1])

LEMMA ContextMeans ==
  ASSUME NEW dbs, NEW n
  PROVE  \A p : p \in EntityContext(dbs, n) <=> \E i \in DOMAIN dbs : InContext(dbs[i], n, p)
  <1> DEFINE rows == [i \in DOMAIN dbs |-> ContextIn(dbs[i], n)]
  <1>1. DOMAIN rows = DOMAIN dbs /\ \A i \in DOMAIN dbs : rows[i] = ContextIn(dbs[i], n)
    OBVIOUS
  <1>2. EntityContext(dbs, n) = RunRead(rows)
    BY DEF EntityContext
  <1>3. \A g : \A p : p \in ContextIn(g, n) <=> InContext(g, n, p)
    BY DEF ContextIn, Touching, InContext
  <1> HIDE DEF rows
  <1>4. QED BY <1>1, <1>2, <1>3, RowsAreRead

(* What has a name on a shard has it in the graph. *)
LEMMA NamesAreOfTheGraph ==
  ASSUME ShardsFit, StubsStandForNodes, NEW i \in Shards, NEW m \in Nodes, Named(shard[i], m)
  PROVE  Named(Logical, m)
  <1>1. m \in shard[i].has /\ (m \in Papers => \E s \in Sources : <<m, s>> \in shard[i].by)
    BY DEF Named
  <1>2. \A s \in Sources : <<m, s>> \in shard[i].by => <<m, s>> \in Logical.by /\ Home[m] = i
    <2>1. SUFFICES ASSUME NEW s \in Sources, <<m, s>> \in shard[i].by
                   PROVE  <<m, s>> \in Logical.by /\ Home[m] = i
      OBVIOUS
    <2>2. <<m, s>>[1] = m
      OBVIOUS
    <2>3. QED BY <2>1, <2>2, ShardFacts DEF Logical
  <1>3. Stands(m)
    <2>1. CASE m \in Papers
      BY <1>1, <1>2, <2>1 DEF Stands
    <2>2. CASE m \notin Papers
      BY <1>1, <2>2, ShardFacts DEF StubsStandForNodes, Stands
    <2>3. QED BY <2>1, <2>2
  <1>4. m \in Logical.has
    BY <1>3, LogicalFacts
  <1>5. QED BY <1>1, <1>2, <1>4 DEF Named

LEMMA ContextIsOfTheGraph ==
  ASSUME ShardsFit, StubsStandForNodes, NEW n \in Nodes
  PROVE  /\ EntityContext(shard, n) \subseteq EntityContext(<<Logical>>, n)
         /\ \A p \in EntityContext(<<Logical>>, n) \ EntityContext(shard, n) :
              p[1] \in Papers \/ p[2].to = n
  <1>1. \A p : p \in EntityContext(<<Logical>>, n) <=> InContext(Logical, n, p)
    BY ContextMeans, OneDatabase
  <1> n \notin Logical.stubs
    BY DEF Logical
  <1>2. ASSUME NEW i \in Shards, NEW m \in Nodes, Named(shard[i], m) PROVE Named(Logical, m)
    BY <1>2, NamesAreOfTheGraph
  <1>3. ASSUME NEW p \in EntityContext(shard, n) PROVE p \in EntityContext(<<Logical>>, n)
    <2>1. PICK i \in Shards : InContext(shard[i], n, p)
      BY <1>3, ContextMeans, ReadOfShards
    <2>2. p \in Nodes \X EdgesOf(Logical) /\ p[1] \in Nodes
      BY <2>1, EdgesOnShards DEF InContext
    <2>3. QED BY <1>1, <1>2, <2>1, <2>2 DEF InContext
  <1>4. ASSUME NEW p \in EntityContext(<<Logical>>, n), p[1] \notin Papers, p[2].to # n
        PROVE  p \in EntityContext(shard, n)
    <2> DEFINE i == HomeOf(p[2])
    <2>1. /\ p \in Nodes \X EdgesOf(Logical) /\ n \in Ends(p[2])
          /\ Ends(p[2]) \ {n} = {p[1]} /\ p[2] \in EdgesOf(Logical) /\ p[1] \in Nodes
      <3>1. InContext(Logical, n, p)
        BY <1>1, <1>4
      <3>2. p \in Nodes \X EdgesOf(Logical) /\ n \in Ends(p[2]) /\ Ends(p[2]) \ {n} = {p[1]}
        BY <3>1 DEF InContext
      <3>3. p[2] \in EdgesOf(Logical) /\ p[1] \in Nodes
        BY ONLY <3>2
      <3>4. QED BY <3>2, <3>3
    <2>2. p[2].from = n /\ i = Home[n]
      BY <1>4, <2>1 DEF Ends, HomeOf
    <2>3. i \in Shards /\ p[2] \in EdgesOf(shard[i]) /\ p[2] \in Edges
      BY <2>1, EdgesOnShards
    <2>4. p[2] \in shard[i].has /\ Ends(p[2]) \subseteq shard[i].has
      BY <2>3, ShardFacts DEF EdgesOf
    <2>5. n \notin shard[i].stubs
      BY <2>2, <2>3, <2>4, ShardFacts DEF Ends
    <2>6. p[1] \in shard[i].has
      BY <2>1, <2>4
    <2>7. Named(shard[i], p[1])
      BY <1>4, <2>6 DEF Named
    <2>8. p \in Nodes \X EdgesOf(shard[i])
      BY <2>1, <2>3
    <2> HIDE DEF i
    <2>9. InContext(shard[i], n, p)
      BY <2>1, <2>5, <2>7, <2>8 DEF InContext
    <2>10. QED BY <2>3, <2>9, ContextMeans, ReadOfShards
  <1>5. QED BY <1>3, <1>4

LEMMA DegreeIsWhole ==
  ASSUME ShardsFit, ShardsFinite, NEW n PROVE Degree(shard, n) = Degree(<<Logical>>, n)
  <1> DEFINE part == [i \in Shards |-> Touching(shard[i], n)]
             one == [i \in {1} |-> Touching(<<Logical>>[i], n)]
  <1>1. Parted(part, Shards)
    <2>1. ASSUME NEW i \in Shards PROVE IsFiniteSet(part[i])
      <3>1. part[i] \subseteq shard[i].has
        BY DEF Touching, EdgesOf
      <3>2. QED BY <3>1, FS_Subset DEF ShardsFinite
    <2>2. ASSUME NEW i \in Shards, NEW j \in Shards, i # j PROVE part[i] \cap part[j] = {}
      <3>1. \A e \in part[i] : HomeOf(e) = i
        BY EdgesOnShards DEF Touching
      <3>2. \A e \in part[j] : HomeOf(e) = j
        BY EdgesOnShards DEF Touching
      <3>3. QED BY <2>2, <3>1, <3>2
    <2>3. QED BY <2>1, <2>2 DEF Parted
  <1>2. Whole(part, Shards) = Touching(Logical, n)
    <2>1. \A x : x \in Whole(part, Shards) <=> \E i \in Shards : x \in Touching(shard[i], n)
      BY DEF Whole
    <2>2. QED BY <2>1, EdgesOnShards DEF Touching
  <1>3. IsFiniteSet(Touching(Logical, n))
    BY <1>1, <1>2, WholeIsFinite
  <1>4. one[1] = Touching(Logical, n) /\ Whole(one, {1}) = one[1]
    BY OneDatabase DEF Whole
  <1>5. Parted(one, {1})
    BY <1>3, <1>4, FS_Singleton DEF Parted
  <1>6. Degree(shard, n) = Cardinality(Whole(part, Shards))
    BY <1>1, DegreeMeans, ReadOfShards
  <1>7. Degree(<<Logical>>, n) = Cardinality(Whole(one, {1}))
    BY <1>5, DegreeMeans, OneDatabase
  <1>8. QED BY <1>2, <1>4, <1>6, <1>7

LEMMA NodeCountIsWhole ==
  ASSUME ShardsFit, ShardsFinite PROVE NodeCount(shard) = NodeCount(<<Logical>>)
  <1> DEFINE part == [i \in Shards |-> NodesOf(shard[i]) \ shard[i].stubs]
             one == [i \in {1} |-> NodesOf(<<Logical>>[i]) \ <<Logical>>[i].stubs]
             whole == NodesOf(Logical) \ Logical.stubs
  <1>1. \A i \in Shards : \A x : x \in part[i]
          <=> x \in Nodes /\ x \in shard[i].has /\ Home[x] = i
    BY ShardFacts DEF NodesOf
  <1>2. Parted(part, Shards)
    <2>1. ASSUME NEW i \in Shards PROVE IsFiniteSet(part[i])
      <3>1. part[i] \subseteq shard[i].has
        BY <1>1
      <3>2. QED BY <3>1, FS_Subset DEF ShardsFinite
    <2>2. ASSUME NEW i \in Shards, NEW j \in Shards, i # j PROVE part[i] \cap part[j] = {}
      BY <1>1, <2>2
    <2>3. QED BY <2>1, <2>2 DEF Parted
  <1>3. Whole(part, Shards) = whole
    <2>1. \A x : x \in Whole(part, Shards) <=> \E i \in Shards : x \in part[i]
      BY DEF Whole
    <2>2. \A x : x \in whole <=> x \in Nodes /\ Stands(x)
      <3>1. Logical.stubs = {}
        BY DEF Logical
      <3>2. QED BY <3>1, LogicalFacts DEF NodesOf
    <2> HIDE DEF part, whole
    <2>3. ASSUME NEW x PROVE x \in Whole(part, Shards) <=> x \in whole
      BY <1>1, <2>1, <2>2, HomeIsAShard DEF Stands
    <2>4. QED BY <2>3
  <1> HIDE DEF part
  <1>4. IsFiniteSet(whole)
    <2>1. IsFiniteSet(Whole(part, Shards))
      BY <1>2, WholeIsFinite
    <2>2. QED BY <1>3, <2>1
  <1>5. one[1] = whole /\ Whole(one, {1}) = one[1]
    BY OneDatabase DEF Whole
  <1>6. Parted(one, {1})
    BY <1>4, <1>5, FS_Singleton DEF Parted
  <1>7. NodeCount(shard) = Cardinality(Whole(part, Shards))
    BY <1>2, NodeCountMeans, ReadOfShards DEF part
  <1>8. NodeCount(<<Logical>>) = Cardinality(Whole(one, {1}))
    BY <1>6, NodeCountMeans, OneDatabase
  <1>9. QED BY <1>3, <1>5, <1>7, <1>8

(* Spread over any shards, the graph is read as if it were in one place: node *)
(* counts, list_conflicts, get_entity, entity_degree_context and the disputes *)
(* of _detect_conflicts; and entity_context shows what starts from an entity. *)
THEOREM ReadsAreOfOneGraph == RouterSpec => []ReadsAreWhole
  <1>1. ASSUME ShardInv, ShardsFinite PROVE ReadsAreWhole
    <2>1. ShardsFit /\ StubsStandForNodes /\ \A n \in Entities : n \in Nodes
      BY <1>1 DEF ShardInv, Entities
    <2>2. NodeCount(shard) = NodeCount(<<Logical>>)
      BY <1>1, <2>1, NodeCountIsWhole
    <2>3. Conflicts(shard) = Conflicts(<<Logical>>)
      BY <2>1, ConflictsAreWhole
    <2>4. ASSUME NEW n \in Entities
          PROVE  /\ Found(shard[Home[n]], n) <=> n \in Logical.has
                 /\ Degree(shard, n) = Degree(<<Logical>>, n)
                 /\ Disputes(shard, n) = Disputes(<<Logical>>, n)
                 /\ EntityContext(shard, n) \subseteq EntityContext(<<Logical>>, n)
                 /\ \A p \in EntityContext(<<Logical>>, n) \ EntityContext(shard, n) :
                      p[1] \in Papers \/ p[2].to = n
      <3>1. Found(shard[Home[n]], n) <=> n \in Logical.has
        BY <2>1, FoundIsWhole
      <3>2. Degree(shard, n) = Degree(<<Logical>>, n)
        BY <1>1, <2>1, DegreeIsWhole
      <3>3. Disputes(shard, n) = Disputes(<<Logical>>, n)
        BY <2>1, DisputesAreWhole
      <3>4. QED BY <2>1, <3>1, <3>2, <3>3, ContextIsOfTheGraph
    <2>5. QED BY <2>2, <2>3, <2>4 DEF ReadsAreWhole
  <1>2. RouterInit => ShardInv /\ ShardsFinite
    BY ShardInitHolds, EmptyIsFinite
  <1>3. ShardInv /\ ShardsFinite /\ [RouterNext]_routerVars => (ShardInv /\ ShardsFinite)'
    BY RouterNextKeeps, ShardsStayFinite
  <1>4. QED BY <1>1, <1>2, <1>3, PTL DEF RouterSpec

-----------------------------------------------------------------------------
USE GraphReadsAssumption

(* Numbers without a smallest one are none. *)
LEMMA SmallestIsThere ==
  ASSUME NEW S \in SUBSET Nat, S # {} PROVE \E m \in S : \A x \in S : m <= x
  <1> DEFINE R == OpToRel(<, Nat)
  <1>1. IsWellFoundedOn(R, Nat)
    BY NatLessThanWellFounded
  <1>2. \A x, y \in Nat : x < y => <<x, y>> \in R
    BY DEF OpToRel
  <1> HIDE DEF R
  <1>3. PICK m \in S : \A x \in S : ~(<<x, m>> \in R)
    <2>1. S \subseteq Nat /\ S # {}
      OBVIOUS
    <2>2. QED BY <1>1, <2>1, WFMin
  <1>4. ASSUME NEW x \in S PROVE m <= x
    <2>1. m \in Nat /\ x \in Nat /\ ~(x < m)
      BY <1>2, <1>3
    <2>2. QED BY <2>1
  <1>5. QED BY <1>4

LEMMA MinIsTheSmallest ==
  ASSUME NEW S \in SUBSET Nat, S # {} PROVE Min(S) \in S /\ \A x \in S : Min(S) <= x
  <1>1. \E x \in S : \A y \in S : x <= y
    BY SmallestIsThere
  <1>2. QED BY <1>1 DEF Min

(* The paths there are, and those of one step and of two. *)
Stop(k, a, via, b, i) == IF i = 0 THEN a ELSE IF i > k THEN b ELSE via[i]

LEMMA PathIs ==
  ASSUME NEW edges, NEW a, NEW b, NEW V, NEW m \in Nat, NEW via \in [1 .. m -> V]
  PROVE  Path(edges, a, via, b)
           <=> \A i \in 0 .. m : Joined(edges, Stop(m, a, via, b, i), Stop(m, a, via, b, i + 1))
  <1>1. DOMAIN via = 1 .. m
    OBVIOUS
  <1>2. Cardinality(1 .. m) = m
    <2>1. Cardinality(1 .. m) = IF 1 > m THEN 0 ELSE m - 1 + 1
      BY FS_Interval
    <2>2. QED BY <2>1
  <1>3. QED BY <1>1, <1>2 DEF Path, Stop

LEMMA PathsOfAPart ==
  ASSUME NEW edges, NEW more, edges \subseteq more, NEW a, NEW via, NEW b, Path(edges, a, via, b)
  PROVE  Path(more, a, via, b)
  <1>1. \A x, y : Joined(edges, x, y) => Joined(more, x, y)
    BY DEF Joined
  <1>2. QED BY <1>1 DEF Path

LEMMA LengthsMean ==
  ASSUME NEW g, NEW a, NEW b
  PROVE  \A k : k \in Lengths(g, a, b)
                  <=> /\ Named(g, a) /\ Named(g, b) /\ k \in 1 .. MaxHops
                      /\ \E via \in Injection(1 .. k - 1, Nodes \ {a, b}) : Path(EdgesOf(g), a, via, b)
  BY DEF Lengths

LEMMA JoinedMeans ==
  ASSUME NEW edges, NEW a, NEW b, a # b
  PROVE  Joined(edges, a, b) <=> b \in Around(edges, a)
  <1>1. ASSUME Joined(edges, a, b) PROVE b \in Around(edges, a)
    BY <1>1, AroundMeans DEF Joined
  <1>2. ASSUME b \in Around(edges, a) PROVE Joined(edges, a, b)
    <2>1. PICK e \in edges : a \in Ends(e) /\ b \in Ends(e)
      BY <1>2, AroundMeans
    <2>2. Ends(e) = {a, b}
      BY <2>1 DEF Ends
    <2>3. QED BY <2>2 DEF Joined
  <1>3. QED BY <1>1, <1>2

LEMMA OneStep ==
  ASSUME NEW g, NEW a, NEW b, a # b
  PROVE  1 \in Lengths(g, a, b) <=> Named(g, a) /\ Named(g, b) /\ b \in Around(EdgesOf(g), a)
  <1> DEFINE edges == EdgesOf(g)
             V == Nodes \ {a, b}
  <1>1. ASSUME NEW via \in [1 .. 0 -> V] PROVE Path(edges, a, via, b) <=> Joined(edges, a, b)
    <2>1. Path(edges, a, via, b)
            <=> \A i \in 0 .. 0 : Joined(edges, Stop(0, a, via, b, i), Stop(0, a, via, b, i + 1))
      BY <1>1, PathIs
    <2>2. Stop(0, a, via, b, 0) = a /\ Stop(0, a, via, b, 0 + 1) = b
      BY DEF Stop
    <2>3. \A i \in 0 .. 0 : i = 0
      OBVIOUS
    <2>4. 0 \in 0 .. 0
      OBVIOUS
    <2> HIDE DEF edges
    <2>5. QED BY <2>1, <2>2, <2>3, <2>4
  <1>2. [i \in 1 .. 0 |-> a] \in Injection(1 .. 0, V)
    BY DEF Injection, IsInjective
  <1>3. Injection(1 .. 0, V) \subseteq [1 .. 0 -> V]
    BY DEF Injection
  <1>4. 1 - 1 = 0 /\ 1 \in 1 .. MaxHops
    OBVIOUS
  <1>5. 1 \in Lengths(g, a, b)
          <=> Named(g, a) /\ Named(g, b) /\ \E via \in Injection(1 .. 0, V) : Path(edges, a, via, b)
    <2>1. 1 \in Lengths(g, a, b)
            <=> /\ Named(g, a) /\ Named(g, b) /\ 1 \in 1 .. MaxHops
                /\ \E via \in Injection(1 .. 1 - 1, V) : Path(edges, a, via, b)
      BY LengthsMean
    <2>2. Injection(1 .. 1 - 1, V) = Injection(1 .. 0, V)
      BY <1>4
    <2> HIDE DEF edges, V
    <2>3. QED BY <1>4, <2>1, <2>2
  <1> HIDE DEF V
  <1>6. (\E via \in Injection(1 .. 0, V) : Path(edges, a, via, b)) <=> Joined(edges, a, b)
    BY <1>1, <1>2, <1>3
  <1>7. QED BY <1>5, <1>6, JoinedMeans

LEMMA TwoSteps ==
  ASSUME NEW g, NEW a, NEW b, a # b, Named(g, a), Named(g, b), NEW m \in Nodes,
         m \in Around(EdgesOf(g), a), m \in Around(EdgesOf(g), b)
  PROVE  2 \in Lengths(g, a, b)
  <1> DEFINE edges == EdgesOf(g)
             V == Nodes \ {a, b}
             via == [i \in 1 .. 1 |-> m]
  <1>1. m # a /\ m # b /\ Joined(edges, a, m) /\ Joined(edges, m, b)
    <2>1. m # a /\ m # b
      BY AroundMeans
    <2>2. b \in Around(edges, m)
      BY <2>1, AroundMeans
    <2>3. QED BY <2>1, <2>2, JoinedMeans
  <1>2. via \in [1 .. 1 -> V] /\ via \in Injection(1 .. 1, V)
    <2>1. m \in V
      BY <1>1
    <2>2. \A i \in 1 .. 1 : i = 1
      OBVIOUS
    <2> HIDE DEF V
    <2>3. via \in [1 .. 1 -> V]
      BY <2>1
    <2>4. IsInjective(via)
      BY <2>2 DEF IsInjective
    <2>5. QED BY <2>3, <2>4 DEF Injection
  <1>3. Path(edges, a, via, b)
    <2>1. Path(edges, a, via, b)
            <=> \A i \in 0 .. 1 : Joined(edges, Stop(1, a, via, b, i), Stop(1, a, via, b, i + 1))
      <3> HIDE DEF edges, V, via
      <3>1. QED BY <1>2, PathIs
    <2>2. /\ Stop(1, a, via, b, 0) = a /\ Stop(1, a, via, b, 0 + 1) = m
          /\ Stop(1, a, via, b, 1) = m /\ Stop(1, a, via, b, 1 + 1) = b
      BY DEF Stop
    <2>3. \A i \in 0 .. 1 : i = 0 \/ i = 1
      OBVIOUS
    <2> HIDE DEF edges, via
    <2>4. QED BY <1>1, <2>1, <2>2, <2>3
  <1>4. 2 \in 1 .. MaxHops /\ 2 - 1 = 1
    OBVIOUS
  <1>5. via \in Injection(1 .. 2 - 1, Nodes \ {a, b})
    BY <1>2, <1>4
  <1> HIDE DEF via
  <1>6. QED BY <1>3, <1>4, <1>5, LengthsMean

(* Both ends of an edge are on its shard, and entities on their own. *)
LEMMA EndsOfEdges ==
  ASSUME ShardsFit, StubsStandForNodes, NEW e \in EdgesOf(Logical), NEW n \in Ends(e)
  PROVE  /\ n \in Nodes /\ (n \notin Papers => n \in Logical.has) /\ HomeOf(e) \in Shards
         /\ e \in EdgesOf(shard[HomeOf(e)]) /\ n \in shard[HomeOf(e)].has
  <1>1. HomeOf(e) \in Shards /\ e \in EdgesOf(shard[HomeOf(e)]) /\ e \in Edges /\ n \in Nodes
    BY EdgesOnShards DEF Ends
  <1>2. n \in shard[HomeOf(e)].has
    BY <1>1, ShardFacts DEF EdgesOf
  <1>3. n \notin Papers => Stands(n)
    BY <1>1, <1>2, ShardFacts DEF StubsStandForNodes, Stands
  <1>4. QED BY <1>1, <1>2, <1>3, LogicalFacts

LEMMA NamesMean ==
  ASSUME NEW dbs, NEW n
  PROVE  \A m : m \in NeighborNames(dbs, n) <=> \E i \in DOMAIN dbs : m \in Neighbors(dbs[i], n)
  <1> DEFINE rows == [i \in DOMAIN dbs |-> Neighbors(dbs[i], n)]
  <1>1. DOMAIN rows = DOMAIN dbs /\ \A i \in DOMAIN dbs : rows[i] = Neighbors(dbs[i], n)
    OBVIOUS
  <1>2. NeighborNames(dbs, n) = RunRead(rows)
    BY DEF NeighborNames
  <1> HIDE DEF rows
  <1>3. QED BY <1>1, <1>2, RowsAreRead

(* The neighbours read from any shard are neighbours in the graph ... *)
LEMMA NeighborsAreReal ==
  ASSUME ShardsFit, NEW n
  PROVE  /\ NeighborNames(shard, n) \subseteq Around(EdgesOf(Logical), n)
         /\ NeighborNames(<<Logical>>, n) \subseteq Around(EdgesOf(Logical), n)
         /\ \A i \in Shards : Neighbors(shard[i], n) \subseteq Around(EdgesOf(Logical), n)
  <1>1. ASSUME NEW i \in Shards, NEW m \in Neighbors(shard[i], n)
        PROVE  m \in Around(EdgesOf(Logical), n)
    <2>1. m \in Around(EdgesOf(shard[i]), n)
      BY <1>1 DEF Neighbors
    <2>2. PICK e \in EdgesOf(shard[i]) : m # n /\ n \in Ends(e) /\ m \in Ends(e)
      BY <2>1, AroundMeans
    <2>3. e \in EdgesOf(Logical)
      BY <2>2, EdgesOnShards
    <2>4. QED BY <2>2, <2>3, AroundMeans
  <1>2. ASSUME NEW m \in NeighborNames(shard, n) PROVE m \in Around(EdgesOf(Logical), n)
    BY <1>1, <1>2, NamesMean, ReadOfShards
  <1>3. ASSUME NEW m \in NeighborNames(<<Logical>>, n) PROVE m \in Around(EdgesOf(Logical), n)
    <2>1. m \in Neighbors(Logical, n)
      BY <1>3, NamesMean, OneDatabase
    <2>2. QED BY <2>1 DEF Neighbors
  <1>4. QED BY <1>1, <1>2, <1>3

(* ... and those of entities are read, from the shard of the edge. *)
LEMMA NeighborsAreRead ==
  ASSUME ShardsFit, StubsStandForNodes, NEW n \in Entities, NEW m \in Entities,
         NEW e \in EdgesOf(Logical), n \in Ends(e), m \in Ends(e), m # n
  PROVE  m \in Neighbors(shard[HomeOf(e)], n) /\ m \in NeighborNames(shard, n)
  <1> DEFINE i == HomeOf(e)
  <1>1. i \in Shards /\ e \in EdgesOf(shard[i]) /\ n \in shard[i].has /\ m \in shard[i].has
    BY EndsOfEdges
  <1> HIDE DEF i
  <1>2. m \in Around(EdgesOf(shard[i]), n)
    BY <1>1, AroundMeans
  <1>3. m \in Neighbors(shard[i], n)
    BY <1>1, <1>2 DEF Neighbors, Named, Entities
  <1>4. QED BY <1>1, <1>3, NamesMean, ReadOfShards DEF i

LocalLengths(dbs, a, b) == RunRead([i \in DOMAIN dbs |-> Lengths(dbs[i], a, b)])

LEMMA LocalMeans ==
  ASSUME NEW dbs, NEW a, NEW b
  PROVE  \A k : k \in LocalLengths(dbs, a, b) <=> \E i \in DOMAIN dbs : k \in Lengths(dbs[i], a, b)
  <1> DEFINE rows == [i \in DOMAIN dbs |-> Lengths(dbs[i], a, b)]
  <1>1. DOMAIN rows = DOMAIN dbs /\ \A i \in DOMAIN dbs : rows[i] = Lengths(dbs[i], a, b)
    OBVIOUS
  <1>2. LocalLengths(dbs, a, b) = RunRead(rows)
    BY DEF LocalLengths
  <1> HIDE DEF rows
  <1>3. QED BY <1>1, <1>2, RowsAreRead

(* An entity is named wherever it is. *)
LEMMA EntitiesAreNamed ==
  \A n \in Entities : n \in Nodes /\ n \notin Papers /\ \A g : Named(g, n) <=> n \in g.has
  BY DEF Named, Entities

LEMMA ShardPathsAreReal ==
  ASSUME ShardsFit, StubsStandForNodes, NEW a \in Entities, NEW b \in Entities
  PROVE  LocalLengths(shard, a, b) \subseteq Lengths(Logical, a, b)
  <1> SUFFICES ASSUME NEW k \in LocalLengths(shard, a, b) PROVE k \in Lengths(Logical, a, b)
    OBVIOUS
  <1>1. PICK i \in Shards : k \in Lengths(shard[i], a, b)
    BY LocalMeans, ReadOfShards
  <1>2. Named(shard[i], a) /\ Named(shard[i], b) /\ k \in 1 .. MaxHops
    BY <1>1, LengthsMean
  <1>3. PICK via \in Injection(1 .. k - 1, Nodes \ {a, b}) : Path(EdgesOf(shard[i]), a, via, b)
    BY <1>1, LengthsMean
  <1>4. Named(Logical, a) /\ Named(Logical, b)
    BY <1>2, NamesAreOfTheGraph, EntitiesAreNamed
  <1>5. EdgesOf(shard[i]) \subseteq EdgesOf(Logical)
    BY EdgesOnShards
  <1>6. Path(EdgesOf(Logical), a, via, b)
    BY <1>3, <1>5, PathsOfAPart
  <1>7. QED BY <1>2, <1>3, <1>4, <1>6, LengthsMean

LEMMA ShardsSeeNeighbors ==
  ASSUME ShardsFit, StubsStandForNodes, NEW a \in Entities, NEW b \in Entities,
         b \in Around(EdgesOf(Logical), a)
  PROVE  1 \in LocalLengths(shard, a, b) /\ 1 \in Lengths(Logical, a, b)
  <1>1. PICK e \in EdgesOf(Logical) : a \in Ends(e) /\ b \in Ends(e) /\ a # b
    BY AroundMeans
  <1> DEFINE i == HomeOf(e)
  <1>2. i \in Shards /\ e \in EdgesOf(shard[i]) /\ a \in shard[i].has /\ b \in shard[i].has
    BY <1>1, EndsOfEdges
  <1> HIDE DEF i
  <1>3. b \in Around(EdgesOf(shard[i]), a)
    BY <1>1, <1>2, AroundMeans
  <1>4. Named(shard[i], a) /\ Named(shard[i], b)
    BY <1>2, EntitiesAreNamed
  <1>5. 1 \in Lengths(shard[i], a, b)
    BY <1>1, <1>3, <1>4, OneStep
  <1>6. 1 \in LocalLengths(shard, a, b)
    BY <1>2, <1>5, LocalMeans, ReadOfShards
  <1>7. QED BY <1>6, ShardPathsAreReal

(* find_path, of the shards or of the graph in one place. *)
LEMMA PathMeans ==
  ASSUME ShardsFit, StubsStandForNodes, NEW a \in Entities, NEW b \in Entities, a # b, NEW dbs,
         LocalLengths(dbs, a, b) \subseteq Lengths(Logical, a, b),
         b \in Around(EdgesOf(Logical), a) => 1 \in LocalLengths(dbs, a, b),
         \A n : NeighborNames(dbs, n) \subseteq Around(EdgesOf(Logical), n)
  PROVE  /\ PathLength(dbs, a, b) = 1 <=> b \in Around(EdgesOf(Logical), a)
         /\ PathLength(dbs, a, b) # 0 => PathLength(dbs, a, b) \in Lengths(Logical, a, b)
         /\ NeighborNames(dbs, a) \cap NeighborNames(dbs, b) # {} => PathLength(dbs, a, b) # 0
  <1> DEFINE local == LocalLengths(dbs, a, b)
             na == NeighborNames(dbs, a)
             nb == NeighborNames(dbs, b)
             near == Around(EdgesOf(Logical), a)
             k == PathLength(dbs, a, b)
             lengths == Lengths(Logical, a, b)
  <1>1. k = IF local # {} THEN Min(local)
            ELSE IF b \in na \/ a \in nb THEN 1
            ELSE IF na \cap nb # {} THEN 2
            ELSE 0
    BY DEF PathLength, LocalLengths
  <1>2. lengths \subseteq 1 .. MaxHops /\ local \subseteq lengths /\ (b \in near => 1 \in local)
    BY LengthsMean
  <1>3. 1 \in lengths => b \in near
    BY OneStep
  <1>4. b \in na \/ a \in nb => b \in near
    <2>1. b \in na => b \in near
      OBVIOUS
    <2>2. a \in nb => a \in Around(EdgesOf(Logical), b)
      OBVIOUS
    <2>3. a \in Around(EdgesOf(Logical), b) => b \in near
      BY AroundMeans
    <2>4. QED BY <2>1, <2>2, <2>3
  <1>5. na \cap nb # {} => 2 \in lengths
    <2>1. SUFFICES ASSUME NEW m \in na \cap nb PROVE 2 \in lengths
      OBVIOUS
    <2>2. m \in Around(EdgesOf(Logical), a) /\ m \in Around(EdgesOf(Logical), b)
      BY <2>1
    <2>3. PICK e \in EdgesOf(Logical) : m \in Ends(e) /\ a \in Ends(e)
      BY <2>2, AroundMeans
    <2>4. PICK f \in EdgesOf(Logical) : b \in Ends(f)
      BY <2>2, AroundMeans
    <2>5. m \in Nodes /\ a \in Logical.has /\ b \in Logical.has
      BY <2>3, <2>4, EndsOfEdges, EntitiesAreNamed
    <2>6. Named(Logical, a) /\ Named(Logical, b)
      BY <2>5, EntitiesAreNamed
    <2>7. QED BY <2>2, <2>5, <2>6, TwoSteps
  <1> HIDE DEF local, na, nb, near, k, lengths
  <1>6. CASE local # {}
    <2>1. local \in SUBSET Nat
      <3>1. 1 .. MaxHops \subseteq Nat
        OBVIOUS
      <3>2. QED BY <1>2, <3>1
    <2>2. k \in local /\ \A x \in local : k <= x
      BY <1>1, <1>6, <2>1, MinIsTheSmallest
    <2>3. k \in lengths /\ k \in Nat /\ k # 0
      <3>1. k \in lengths /\ k \in 1 .. MaxHops
        BY <1>2, <2>2, Zenon
      <3>2. \A x \in 1 .. MaxHops : x \in Nat /\ x # 0
        OBVIOUS
      <3>3. QED BY <3>1, <3>2, Zenon
    <2>4. k = 1 <=> b \in near
      BY <1>2, <1>3, <2>1, <2>2, <2>3
    <2>5. QED BY <2>3, <2>4 DEF near, k, lengths
  <1>7. CASE local = {}
    <2>1. b \notin near /\ ~(b \in na \/ a \in nb)
      BY <1>2, <1>4, <1>7
    <2>2. k = IF na \cap nb # {} THEN 2 ELSE 0
      BY <1>1, <1>7, <2>1
    <2>3. QED BY <1>5, <2>1, <2>2 DEF near, k, lengths, na, nb
  <1>8. QED BY <1>6, <1>7

(* The paths agents are shown are paths of the graph, whichever shard holds   *)
(* what (find_connection, find_path): a length that is reported is one a path *)
(* has, and no two entities next to each other, or to a third, are missed.    *)
THEOREM PathsAreOfOneGraph == RouterSpec => []PathsAreSound
  <1>1. ASSUME ShardsFit, StubsStandForNodes PROVE PathsAreSound
    <2> DEFINE edges == EdgesOf(Logical)
               one == <<Logical>>
    <2>1. SUFFICES ASSUME NEW a \in Entities, NEW b \in Entities, a # b
          PROVE  /\ Direct(shard, Home[a], a, Home[b], b) <=> PathLength(one, a, b) = 1
                 /\ PathLength(shard, a, b) = 1 <=> PathLength(one, a, b) = 1
                 /\ PathLength(shard, a, b) # 0 => PathLength(shard, a, b) \in Lengths(one[1], a, b)
                 /\ Entities \cap Common(EdgesOf(one[1]), a, b) # {} => PathLength(shard, a, b) # 0
      BY DEF PathsAreSound
    <2>2. one[1] = Logical /\ LocalLengths(one, a, b) = Lengths(Logical, a, b)
      <3>1. DOMAIN one = {1} /\ one[1] = Logical
        BY OneDatabase
      <3> HIDE DEF one
      <3>2. \A k : k \in LocalLengths(one, a, b) <=> k \in Lengths(Logical, a, b)
        BY <3>1, LocalMeans
      <3>3. QED BY <3>1, <3>2
    <2> HIDE DEF one
    <2>3. /\ PathLength(shard, a, b) = 1 <=> b \in Around(edges, a)
          /\ PathLength(shard, a, b) # 0 => PathLength(shard, a, b) \in Lengths(Logical, a, b)
          /\ NeighborNames(shard, a) \cap NeighborNames(shard, b) # {} => PathLength(shard, a, b) # 0
      BY <1>1, <2>1, PathMeans, ShardPathsAreReal, ShardsSeeNeighbors, NeighborsAreReal
    <2>4. PathLength(one, a, b) = 1 <=> b \in Around(edges, a)
      <3>1. \A n : NeighborNames(one, n) \subseteq Around(edges, n)
        BY <1>1, NeighborsAreReal DEF one
      <3>2. b \in Around(edges, a) => 1 \in LocalLengths(one, a, b)
        BY <1>1, <2>2, ShardsSeeNeighbors
      <3>3. QED BY <1>1, <2>1, <2>2, <3>1, <3>2, PathMeans
    <2>5. Direct(shard, Home[a], a, Home[b], b) <=> b \in Around(edges, a)
      <3>1. ASSUME Direct(shard, Home[a], a, Home[b], b) PROVE b \in Around(edges, a)
        <4>1. Home[a] \in Shards /\ Home[b] \in Shards
          BY HomeIsAShard DEF Entities
        <4>2. b \in Around(edges, a) \/ a \in Around(edges, b)
          BY <1>1, <3>1, <4>1, NeighborsAreReal DEF Direct
        <4>3. QED BY <4>2, AroundMeans
      <3>2. ASSUME b \in Around(edges, a) PROVE Direct(shard, Home[a], a, Home[b], b)
        <4>1. PICK e \in edges : a \in Ends(e) /\ b \in Ends(e)
          BY <3>2, AroundMeans
        <4>2. b \in Neighbors(shard[HomeOf(e)], a) /\ a \in Neighbors(shard[HomeOf(e)], b)
          BY <1>1, <2>1, <4>1, NeighborsAreRead
        <4>3. HomeOf(e) = Home[a] \/ HomeOf(e) = Home[b]
          BY <2>1, <4>1 DEF HomeOf, Ends
        <4>4. QED BY <4>2, <4>3 DEF Direct
      <3>3. QED BY <3>1, <3>2
    <2>6. Entities \cap Common(edges, a, b) # {} => PathLength(shard, a, b) # 0
      <3>1. SUFFICES ASSUME NEW m \in Entities, m \in Around(edges, a), m \in Around(edges, b)
                     PROVE  PathLength(shard, a, b) # 0
        BY DEF Common
      <3>2. PICK e \in edges : a \in Ends(e) /\ m \in Ends(e) /\ m # a
        BY <3>1, AroundMeans
      <3>3. PICK f \in edges : b \in Ends(f) /\ m \in Ends(f) /\ m # b
        BY <3>1, AroundMeans
      <3>4. m \in NeighborNames(shard, a)
        BY <1>1, <3>1, <3>2, NeighborsAreRead
      <3>5. m \in NeighborNames(shard, b)
        BY <1>1, <3>1, <3>3, NeighborsAreRead
      <3>6. QED BY <2>3, <3>4, <3>5
    <2>7. QED BY <2>2, <2>3, <2>4, <2>5, <2>6
  <1>2. ShardInv /\ [RouterNext]_routerVars => ShardInv'
    BY RouterNextKeeps
  <1>3. ShardInv => PathsAreSound
    BY <1>1 DEF ShardInv
  <1>4. QED BY <1>2, <1>3, ShardInitHolds, PTL DEF RouterSpec
=============================================================================
