------------------------------- MODULE ShardRouter -------------------------------
(***************************************************************************)
(* The knowledge graph over several databases, src/backend/db/             *)
(* shard_router.py: a node lives on the shard its key hashes to, an edge   *)
(* on the shard of its source, with a stub there for a target that lives   *)
(* elsewhere.  The documents write as in module KnowledgeGraph; nothing is *)
(* deleted, as the router has no operation for it.  Papers that documents  *)
(* cite are nodes here though no document is one: the target of an edge is *)
(* made before the edge.                                                   *)
(***************************************************************************)
EXTENDS GraphWriter, GraphReads

CONSTANTS Shards, Home  \* [Nodes -> Shards], shard_for of a node's key

ASSUME ShardRouterAssumption ==
  /\ IsFiniteSet(Shards)
  /\ Home \in [Nodes -> Shards]

VARIABLE shard    \* the database of each shard

routerVars == <<shard, writerVars>>

RouterInit == WriterInit /\ shard = [i \in Shards |-> Empty]

On(i, new) == shard' = [shard EXCEPT ![i] = new]

RouterStart(d) == Start(d) /\ UNCHANGED shard

RouterMergeNode(d) ==
  /\ At(d, "merge") /\ Item(d) \in Nodes
  /\ LET i == Home[Item(d)] IN On(i, MergeNode(shard[i], Item(d), SourceOf[d]))
  /\ Advance(d)

(* The shard of an edge, and of the checks of a claim. *)
HomeOf(e) == Home[e.from]

(* Broken: no stub. *)
EnsureNothing(d) ==
  /\ At(d, "merge") /\ Item(d) \in Edges
  /\ Enter(d, "stubbed")
  /\ UNCHANGED shard

(* merge_edge: the target first, as a stub if it lives on another shard ... *)
EnsureTarget(d) ==
  /\ At(d, "merge") /\ Item(d) \in Edges
  /\ LET i == HomeOf(Item(d))
     IN On(i, MergeStub(shard[i], Item(d).to, Home[Item(d).to] # i))
  /\ Enter(d, "stubbed")

(* ... and then the edge. *)
RouterMergeEdge(d) ==
  /\ At(d, "stubbed")
  /\ LET i == HomeOf(Item(d)) IN On(i, MergeEdge(shard[i], Item(d), SourceOf[d], d))
  /\ AfterEdge(d)

RouterEmbed(d) == WriteChunks(d) /\ UNCHANGED shard

(* check_and_flag_conflict, on the shard of the claim's source. *)
RouterScan(d) ==
  /\ At(d, "scan")
  /\ IF Opposed(shard[HomeOf(Item(d))], Item(d), d) THEN Enter(d, "flag") ELSE Advance(d)
  /\ UNCHANGED shard

RouterFlag(d) ==
  /\ At(d, "flag")
  /\ LET i == HomeOf(Item(d)) IN On(i, Flag(shard[i], Item(d)))
  /\ Enter(d, "dispute")

RouterDispute(d) ==
  /\ At(d, "dispute")
  /\ LET i == HomeOf(Item(d)) IN On(i, MergeDispute(shard[i], Item(d)))
  /\ Advance(d)

RouterFail(d) == Fail(d) /\ UNCHANGED shard

RouterStep(d) ==
  \/ RouterStart(d) \/ RouterMergeNode(d) \/ EnsureTarget(d) \/ RouterMergeEdge(d) \/ RouterEmbed(d)
  \/ RouterScan(d) \/ RouterFlag(d) \/ RouterDispute(d) \/ RouterFail(d)

RouterNext == \E d \in Docs : RouterStep(d)

RouterSpec == RouterInit /\ [][RouterNext]_routerVars

-----------------------------------------------------------------------------
(* The graph the shards hold together. *)
Logical ==
  [has     |-> UNION {shard[i].has \ shard[i].stubs : i \in Shards},
   stubs   |-> {},
   by      |-> UNION {shard[i].by : i \in Shards},
   doc     |-> UNION {shard[i].doc : i \in Shards},
   flagged |-> UNION {shard[i].flagged : i \in Shards}]

(* What a single database would hold of it: not the papers that no document *)
(* is, and not the edges to them.                                            *)
Documented == {n \in Nodes : \E d \in Docs : n \in Before(d, Len(Script[d]) + 1)}

Kept(x) == IF x \in Nodes THEN x \in Documented ELSE Ends(x) \subseteq Documented

Known ==
  [has     |-> {x \in Logical.has : Kept(x)},
   stubs   |-> {},
   by      |-> {p \in Logical.by : Kept(p[1])},
   doc     |-> {p \in Logical.doc : Kept(p[1])},
   flagged |-> {e \in Logical.flagged : Kept(e)}]

Abstract == INSTANCE KnowledgeGraph WITH
  db        <- Known,
  check     <- [d \in Docs |-> IF check[d] = "stubbed" THEN "merge" ELSE check[d]],
  removing  <- None,
  gone      <- {},
  Deletable <- {}

(* No document cites another by its arxiv_id: if it does, the router always  *)
(* writes the edge, and the single database only if the paper is there.      *)
CitedApart ==
  \A d \in Docs : \A i \in 1 .. Len(Script[d]) :
    Script[d][i] \in Edges => Ends(Script[d][i]) \cap Documented \subseteq Before(d, i)

(* The shards together are one graph but for what they keep of papers that  *)
(* no document is: every step the documents take on them is a step, or no   *)
(* step, of the single database's, where no document cites another          *)
(* ("presents a single logical graph to the rest of the codebase", the      *)
(* module's docstring).                                                     *)
ImplementsGraph == Abstract!Spec

-----------------------------------------------------------------------------
(* Spread over the shards or not, the graph has the same nodes and disputes, *)
(* the same degrees ("the true total with no double counting",              *)
(* entity_degree_context), and every entity is found on its own shard, stubs *)
(* elsewhere or not (get_entity); the agents' entity_context shows no edge   *)
(* there is not, and all that start from the entity.                        *)
ReadsAreWhole ==
  LET single == <<Logical>> IN
  /\ NodeCount(shard) = NodeCount(single)
  /\ Conflicts(shard) = Conflicts(single)
  /\ \A n \in Entities :
       /\ Found(shard[Home[n]], n) <=> n \in Logical.has
       /\ Degree(shard, n) = Degree(single, n)
       /\ Disputes(shard, n) = Disputes(single, n)
       /\ EntityContext(shard, n) \subseteq EntityContext(single, n)
       /\ \A p \in EntityContext(single, n) \ EntityContext(shard, n) :
            p[1] \in Papers \/ p[2].to = n

(* find_connection sees whether two entities are next to each other; the     *)
(* length find_path reports is that of a path there is, and it reports one   *)
(* between entities that are next to each other or to a third, whatever      *)
(* shards hold the edges ("the documented scatter-gather boundary").         *)
PathsAreSound ==
  LET single == <<Logical>> IN
  \A a, b \in Entities : a # b =>
    LET k == PathLength(shard, a, b)
        shortest == PathLength(single, a, b)
    IN /\ Direct(shard, Home[a], a, Home[b], b) <=> shortest = 1
       /\ k = 1 <=> shortest = 1
       /\ k # 0 => k \in Lengths(single[1], a, b)
       /\ Entities \cap Common(EdgesOf(single[1]), a, b) # {} => k # 0

(* A pair reported as a research gap has no edge between it on any shard:   *)
(* "no direct graph edge" (compute_research_gaps), though _fetch_edges drops *)
(* every edge that leaves its shard.                                        *)
GapsAreReal ==
  LET edges == EdgesOf(Logical) IN
  \A p \in Gaps(FetchEdges(shard)) :
    ~Joined(edges, p[1], p[2]) /\ Common(edges, p[1], p[2]) # {}
=============================================================================
