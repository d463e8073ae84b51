------------------------------- MODULE GraphReads -------------------------------
(***************************************************************************)
(* What is read from the knowledge graph: lookups and paths for agents     *)
(* (src/backend/core/agent_tools.py), context for answers                  *)
(* (core/graph_retriever.py), research gaps (core/graph_algorithms.py) and *)
(* the router's own reads (db/shard_router.py).  A read takes the databases *)
(* it runs on: one, or one for each shard.                                 *)
(*                                                                         *)
(* Left out: LIMITs, the types and scores in the rows, letter case, edges   *)
(* from a node to itself, and shards that do not answer.                   *)
(***************************************************************************)
EXTENDS Naturals, FiniteSetsExt, Functions, GraphStore

CONSTANT MaxHops   \* max_hops of find_path

ASSUME GraphReadsAssumption ==
  /\ Papers \subseteq Nodes
  /\ MaxHops \in Nat \ {0, 1}

(* Papers are known to readers by the title merge_paper writes, everything *)
(* else by its key: what merge_edge makes of a paper has no name.          *)
Entities == Nodes \ Papers
Named(db, n) == n \in db.has /\ (n \in Papers => \E s \in Sources : <<n, s>> \in db.by)

Touching(db, n) == {e \in EdgesOf(db) : n \in Ends(e)}
Around(edges, x) == (UNION {Ends(e) : e \in {f \in edges : x \in Ends(f)}}) \ {x}

(* Edges are walked in both directions; build_digraph, undirected. *)
Joined(edges, x, y) == \E e \in edges : Ends(e) = {x, y}

(* run_read, _read, _exec: the rows of all databases, each row once. *)
RunRead(rows) == UNION {rows[i] : i \in DOMAIN rows}

-----------------------------------------------------------------------------
(* _entity_degree_context, on one database. *)
DegreeIn(db, n) == Cardinality(Touching(db, n))

(* Broken: equal degrees are taken for one row, as run_read would. *)
DegreeOfRows(dbs, n) == SumSet(RunRead([i \in DOMAIN dbs |-> {DegreeIn(dbs[i], n)}]))

(* entity_degree_context: summed over the shards. *)
Degree(dbs, n) == MapThenSumSet(LAMBDA i : DegreeIn(dbs[i], n), DOMAIN dbs)

NodeCount(dbs) ==
  MapThenSumSet(LAMBDA i : Cardinality(NodesOf(dbs[i]) \ dbs[i].stubs), DOMAIN dbs)

(* get_entity, of the database that the node's key hashes to. *)
Found(db, n) == n \in Entities \cap db.has

(* list_conflicts. *)
Conflicts(dbs) ==
  RunRead([i \in DOMAIN dbs |->
    {Ends(e) : e \in {f \in EdgesOf(dbs[i]) : f.kind = "CONFLICTS_WITH"}}])

(* _detect_conflicts: flagged claims from n, and the documents behind them. *)
DisputesIn(db, n) ==
  {<<e.to, {p[2] : p \in {q \in db.doc : q[1] \in {e, Opposite(e)} \cap db.flagged}}>> :
     e \in {f \in db.flagged : f.from = n}}

Disputes(dbs, n) == RunRead([i \in DOMAIN dbs |-> DisputesIn(dbs[i], n)])

(* entity_context: the rows hang off an n that is no stub. *)
ContextIn(db, n) ==
  {p \in Nodes \X Touching(db, n) :
     n \notin db.stubs /\ Ends(p[2]) \ {n} = {p[1]} /\ Named(db, p[1])}

EntityContext(dbs, n) == RunRead([i \in DOMAIN dbs |-> ContextIn(dbs[i], n)])

-----------------------------------------------------------------------------
(* Broken: without those of stubs, as in entity_context. *)
NeighborsNoStub(db, n) ==
  {m \in Around(EdgesOf(db), n) : n \notin db.stubs /\ Named(db, n) /\ Named(db, m)}

(* _neighbor_names, _neighbors: stubs have neighbours too. *)
Neighbors(db, n) == {m \in Around(EdgesOf(db), n) : Named(db, n) /\ Named(db, m)}

NeighborNames(dbs, n) == RunRead([i \in DOMAIN dbs |-> Neighbors(dbs[i], n)])

(* find_connection's direct case, for an a of shard i and a b of shard j. *)
Direct(dbs, i, a, j, b) == b \in Neighbors(dbs[i], a) \/ a \in Neighbors(dbs[j], b)

(* A path from a to b by way of these other nodes, stubs included. *)
Path(edges, a, via, b) ==
  LET k == Cardinality(DOMAIN via)
      at(i) == IF i = 0 THEN a ELSE IF i > k THEN b ELSE via[i]
  IN \A i \in 0 .. k : Joined(edges, at(i), at(i + 1))

(* The lengths of the paths between a and b, of which shortestPath takes one *)
(* of the smallest.                                                          *)
Lengths(db, a, b) ==
  {k \in 1 .. MaxHops :
     /\ Named(db, a) /\ Named(db, b)
     /\ \E via \in Injection(1 .. k - 1, Nodes \ {a, b}) : Path(EdgesOf(db), a, via, b)}

(* find_path's length, 0 when it finds none: the shortest path on a shard, *)
(* else what the neighbours of both ends, from all shards, have in common. *)
PathLength(dbs, a, b) ==
  LET local == RunRead([i \in DOMAIN dbs |-> Lengths(dbs[i], a, b)])
      na == NeighborNames(dbs, a)
      nb == NeighborNames(dbs, b)
  IN IF local # {} THEN Min(local)
     ELSE IF b \in na \/ a \in nb THEN 1
     ELSE IF na \cap nb # {} THEN 2
     ELSE 0

-----------------------------------------------------------------------------
(* _fetch_edges: no edge of a stub's, or of a node's without a name. *)
FetchEdges(dbs) ==
  RunRead([i \in DOMAIN dbs |->
    {e \in EdgesOf(dbs[i]) : \A n \in Ends(e) : n \notin dbs[i].stubs /\ Named(dbs[i], n)}])

Common(edges, x, y) == Around(edges, x) \cap Around(edges, y)

(* Broken: an edge back does not count. *)
GapsOneWay(edges) ==
  {p \in Nodes \X Nodes :
     /\ p[1] # p[2] /\ ~\E e \in edges : e.from = p[1] /\ e.to = p[2]
     /\ Common(edges, p[1], p[2]) # {}}

(* compute_research_gaps: pairs with an intermediary and no edge. *)
Gaps(edges) ==
  {p \in Nodes \X Nodes :
     p[1] # p[2] /\ ~Joined(edges, p[1], p[2]) /\ Common(edges, p[1], p[2]) # {}}
=============================================================================
