----------------------------- MODULE KnowledgeGraph -----------------------------
(***************************************************************************)
(* The knowledge graph in one Neo4j database (src/backend/db/neo4j.py and  *)
(* ingestion/conflict_detector.py), written by the documents of a job and  *)
(* pruned when a source is deleted.  It is also what the shards of         *)
(* db/shard_router.py together are to be (module ShardRouter).             *)
(***************************************************************************)
EXTENDS GraphWriter

CONSTANT Deletable   \* the sources the user may delete

VARIABLES db,
          removing,  \* the source whose edges are gone and whose nodes are next
          gone       \* the sources deleted

vars == <<db, removing, gone, writerVars>>

TypeOK ==
  /\ WriterTypeOK
  /\ WellFormed(db)
  /\ removing \in Sources \cup {None}
  /\ gone \subseteq Sources

Init == WriterInit /\ db = Empty /\ removing = None /\ gone = {}

Live(s) == s \notin gone /\ s # removing

storeFrame == <<removing, gone>>

StartDoc(d) ==
  /\ Live(SourceOf[d])
  /\ Start(d)
  /\ UNCHANGED <<db, storeFrame>>

WriteNode(d) ==
  /\ At(d, "merge") /\ Item(d) \in Nodes
  /\ db' = MergeNode(db, Item(d), SourceOf[d])
  /\ Advance(d)
  /\ UNCHANGED storeFrame

WriteEdge(d) ==
  /\ At(d, "merge") /\ Item(d) \in Edges
  /\ db' = MergeEdge(db, Item(d), SourceOf[d], d)
  /\ AfterEdge(d)
  /\ UNCHANGED storeFrame

Embedding(d) == WriteChunks(d) /\ UNCHANGED <<db, storeFrame>>

(* Broken: the pair is flagged only if it was in dispute before. *)
ScanDisputed(d) ==
  /\ At(d, "scan")
  /\ IF Opposed(db, Item(d), d) /\ Dispute(Item(d)) \in db.has
     THEN Enter(d, "flag") ELSE Advance(d)
  /\ UNCHANGED <<db, storeFrame>>

(* check_and_flag_conflict: three statements, each in its own transaction. *)
Scan(d) ==
  /\ At(d, "scan")
  /\ IF Opposed(db, Item(d), d) THEN Enter(d, "flag") ELSE Advance(d)
  /\ UNCHANGED <<db, storeFrame>>

FlagClaims(d) ==
  /\ At(d, "flag")
  /\ db' = Flag(db, Item(d))
  /\ Enter(d, "dispute")
  /\ UNCHANGED storeFrame

RecordDispute(d) ==
  /\ At(d, "dispute")
  /\ db' = MergeDispute(db, Item(d))
  /\ Advance(d)
  /\ UNCHANGED storeFrame

FailDoc(d) == Fail(d) /\ UNCHANGED <<db, storeFrame>>

-----------------------------------------------------------------------------
(* remove_source_from_graph.  No job of the source is under way: what one   *)
(* would do meanwhile is module SourceIngest's matter.                      *)
RemoveEdges(s) ==
  /\ s \in Deletable
  /\ removing = None /\ s \notin gone
  /\ \A d \in Docs : SourceOf[d] = s => ~Writing(d)
  /\ db' = Disown(db, EdgesOf(db), s)
  /\ removing' = s
  /\ UNCHANGED <<gone, writerVars>>

(* The nodes, and with them every edge left on a node that goes; then the *)
(* chunks and the source's row.                                           *)
RemoveNodes ==
  /\ removing # None
  /\ db' = Disown(db, NodesOf(db), removing)
  /\ gone' = gone \cup {removing}
  /\ removing' = None
  /\ embedded' = {d \in embedded : SourceOf[d] # removing}
  /\ UNCHANGED <<pos, check, tries, skipped, unchecked>>

DocStep(d) ==
  \/ StartDoc(d) \/ WriteNode(d) \/ WriteEdge(d) \/ Embedding(d)
  \/ Scan(d) \/ FlagClaims(d) \/ RecordDispute(d) \/ FailDoc(d)

Next ==
  \/ \E d \in Docs : DocStep(d)
  \/ \E s \in Sources : RemoveEdges(s)
  \/ RemoveNodes

Spec == Init /\ [][Next]_vars

-----------------------------------------------------------------------------
(* Whoever asserts an edge asserts both of its endpoints, but for edges to a *)
(* paper that another source's document may be: otherwise deleting another   *)
(* source would take an endpoint, and the edge with it, from under it        *)
(* (remove_source_from_graph's DETACH DELETE).                               *)
EdgesAreAnchored ==
  \A p \in db.by \ Loose : p[1] \in Edges =>
    \A n \in Ends(p[1]) : <<n, p[2]>> \in db.by

Written(d, x) == x \in db.has /\ <<x, SourceOf[d]>> \in db.by

(* What a document's run has got to is in the graph under its source's id,  *)
(* whatever other documents write and other sources' deletions take, unless *)
(* the run was the skip or the edge is one to a paper that the document did *)
(* not write, which may not be there or may go with it (process_document;   *)
(* merge_edge; remove_source_from_graph).                                   *)
RunsAreWritten ==
  \A d \in Docs \ skipped : Live(SourceOf[d]) =>
    \A i \in 1 .. pos[d] - 1 :
      Script[d][i] # Embed /\ <<Script[d][i], SourceOf[d]>> \notin Loose
        => Written(d, Script[d][i])

Asserts(d, e) == \E i \in 1 .. Len(Script[d]) : Script[d][i] = e

(* Documents of live sources that contradict each other, each claiming only  *)
(* its own side, end with both claims flagged and the pair in dispute, if no *)
(* run of theirs was broken off or skipped and the claim is not about a      *)
(* paper (check_and_flag_conflict, interleaved with itself).                 *)
ContradictionsAreFlagged ==
  \A d1, d2 \in {d \in Docs : Done(d) /\ Live(SourceOf[d])} \ (skipped \cup unchecked) :
    \A e \in {f \in EdgesOf(db) : f.kind = "SUPPORTS" /\ Ends(f) \cap Papers = {}} :
      /\ Asserts(d1, e) /\ ~Asserts(d1, Opposite(e))
      /\ Asserts(d2, Opposite(e)) /\ ~Asserts(d2, e)
      => {e, Opposite(e)} \subseteq db.flagged /\ Dispute(e) \in db.has

(* Deleting a source takes from the graph nothing another source asserts    *)
(* ("Shared concepts that other live sources still reference are            *)
(* preserved", remove_source_from_graph), but for an edge to a paper of the *)
(* source that goes; and no other step of this module takes any.            *)
DeletionSpares ==
  [][\A p \in (db.by \ db'.by) \ Loose : p[2] \in {removing, removing'}]_vars
=============================================================================
