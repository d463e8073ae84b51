------------------------------- MODULE GraphStore -------------------------------
(***************************************************************************)
(* The Cypher statements of src/backend/db/neo4j.py and db/shard_router.py *)
(* on the part of one Neo4j database that holds one workspace.             *)
(*                                                                         *)
(* A node stands for its label and the key it is merged and matched by: an *)
(* arxiv_id for the Papers that merge_paper writes, a name for all others. *)
(* merge_node keys every label by name, so a Paper that was extracted from *)
(* a text is a node by its name, outside Papers; merge_edge looks for the  *)
(* end of an edge that is labelled Paper by arxiv_id, so such an edge ends *)
(* at another node, in Papers, which that document never writes.           *)
(* An edge stands for its endpoints and type.  Left out: all properties    *)
(* but source_ids, source_document_id, conflict_flag and is_stub, what was *)
(* written without a source_id, and names that two nodes share.            *)
(***************************************************************************)
EXTENDS FiniteSets

CONSTANTS Nodes, Sources, Docs,
          Papers   \* the nodes keyed by arxiv_id

Claims == {"SUPPORTS", "CONTRADICTS"}
Edges == [from : Nodes, kind : Claims \cup {"LINKS", "CONFLICTS_WITH"}, to : Nodes]
Items == Nodes \cup Edges

Databases ==
  [has     : SUBSET Items,              \* the nodes and edges there are
   stubs   : SUBSET Nodes,              \* ... of which is_stub
   by      : SUBSET (Items \X Sources), \* source_ids of each
   doc     : SUBSET (Edges \X Docs),    \* source_document_id of each edge
   flagged : SUBSET Edges]              \* conflict_flag

(* What is recorded is recorded of nodes and edges that are there. *)
WellFormed(db) ==
  /\ db \in Databases
  /\ db.stubs \cup db.flagged \cup {p[1] : p \in db.by \cup db.doc} \subseteq db.has

Empty == [has |-> {}, stubs |-> {}, by |-> {}, doc |-> {}, flagged |-> {}]

NodesOf(db) == db.has \cap Nodes
EdgesOf(db) == db.has \ Nodes
Ends(e) == {e.from, e.to}

-----------------------------------------------------------------------------
(* Broken: the first source to assert a node keeps it for itself. *)
MergeNodeOnce(db, n, s) ==
  IF n \in db.has THEN db
  ELSE [db EXCEPT !.has = @ \cup {n}, !.by = @ \cup {<<n, s>>}]

(* merge_paper, merge_node, each by its own key: idempotent, and s is added *)
(* to source_ids.                                                           *)
MergeNode(db, n, s) ==
  [db EXCEPT !.has = @ \cup {n}, !.stubs = @ \ {n}, !.by = @ \cup {<<n, s>>}]

(* The first statement of the router's merge_edge. *)
MergeStub(db, n, isStub) ==
  IF n \in db.has THEN db
  ELSE [db EXCEPT !.has = @ \cup {n}, !.stubs = IF isStub THEN @ \cup {n} ELSE @]

(* merge_edge: nothing, and no error, without both endpoints; only the first *)
(* asserter's document is recorded.                                          *)
MergeEdge(db, e, s, d) ==
  IF ~(Ends(e) \subseteq db.has) THEN db
  ELSE [db EXCEPT !.has = @ \cup {e}, !.by = @ \cup {<<e, s>>},
                  !.doc = IF e \in db.has THEN @ ELSE @ \cup {<<e, d>>}]

-----------------------------------------------------------------------------
(* DETACH DELETE, and for a set of edges DELETE. *)
Delete(db, items) ==
  LET left == {x \in db.has \ items : x \in Nodes \/ Ends(x) \cap items = {}}
  IN [has |-> left, stubs |-> db.stubs \cap left,
      by |-> {p \in db.by : p[1] \in left}, doc |-> {p \in db.doc : p[1] \in left},
      flagged |-> db.flagged \cap left]

Of(db, items, s) == {x \in items : <<x, s>> \in db.by}
Alone(db, x, s) == \A t \in Sources \ {s} : <<x, t>> \notin db.by

(* Broken: what the source shares with others goes too. *)
DisownAll(db, items, s) == Delete(db, Of(db, items, s))

(* One of the two statements of remove_source_from_graph: s is taken from *)
(* the source_ids of these items, and those left without any are deleted. *)
Disown(db, items, s) ==
  LET mine == Of(db, items, s)
  IN Delete([db EXCEPT !.by = @ \ (mine \X {s})], {x \in mine : Alone(db, x, s)})

-----------------------------------------------------------------------------
(* check_and_flag_conflict. *)
Opposite(e) ==
  [e EXCEPT !.kind = CHOOSE k \in Claims : k # @]

(* Its scan: the opposite claim, recorded for another document.  It matches *)
(* both ends by name, so no claim about a paper is found.                   *)
Opposed(db, e, d) ==
  Ends(e) \cap Papers = {} /\ \E p \in db.doc : p[1] = Opposite(e) /\ p[2] # d

Flag(db, e) == [db EXCEPT !.flagged = @ \cup ({e, Opposite(e)} \cap db.has)]

Dispute(e) == [e EXCEPT !.kind = "CONFLICTS_WITH"]

MergeDispute(db, e) ==
  IF Ends(e) \subseteq db.has THEN [db EXCEPT !.has = @ \cup {Dispute(e)}] ELSE db
=============================================================================
