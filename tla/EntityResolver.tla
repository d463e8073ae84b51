------------------------------ MODULE EntityResolver ------------------------------
(***************************************************************************)
(* src/backend/ingestion/entity_resolver.py: the names of one entity type  *)
(* as the documents of a job resolve them, one resolver for all that are   *)
(* under way.  A resolution that asks the LLM reads the registry, awaits   *)
(* and then writes.  The registry is kept in Redis between jobs.           *)
(* Embeddings are abstracted to the level of similarity of two names.      *)
(***************************************************************************)
EXTENDS Naturals

CONSTANTS Names, Docs, None,
          Level      \* [Names \X Names -> 0 .. 3]: below LOW, below the synchronous
                     \* threshold, below HIGH, and from HIGH on

ASSUME ResolverAssumption ==
  /\ Level \in [Names \X Names -> 0 .. 3]
  /\ \A n, w \in Names : Level[<<n, w>>] = Level[<<w, n>>]
  /\ None \notin Names

VARIABLES registry,  \* the bucket in the process
          stored,    \* resolver:<workspace>:<type> in Redis
          nodes,     \* the names in the graph
          asking,    \* [Docs -> the best match the LLM is asked about]
          raced,     \* history: names registered after the LLM was asked, when a name
                     \* as good as the same had come meanwhile
          lost       \* history: names in the graph that were not kept

resolverVars == <<registry, stored, nodes, asking, raced, lost>>

ResolverTypeOK ==
  /\ registry \subseteq Names /\ stored \subseteq Names /\ nodes \subseteq Names
  /\ asking \in [Docs -> Names \cup {None}]
  /\ raced \subseteq Names /\ lost \subseteq Names

ResolverInit ==
  /\ registry = {} /\ stored = {} /\ nodes = {}
  /\ asking = [d \in Docs |-> None]
  /\ raced = {} /\ lost = {}

AsGoodAs(n, names) == {w \in names : Level[<<n, w>>] = 3} \ {n}

(* _best_match: of the names most alike, any may come first. *)
Closest(n) == {w \in registry : \A v \in registry : Level[<<n, w>>] >= Level[<<n, v>>]}

Register(n) == registry' = registry \cup {n} /\ nodes' = nodes \cup {n}
Merge(w) == nodes' = nodes \cup {w} /\ UNCHANGED registry

Band(n, w) ==
  CASE Level[<<n, w>>] = 3 -> "merge" [] Level[<<n, w>>] = 0 -> "new" [] OTHER -> "borderline"

(* resolve: authors. *)
Resolve(n) ==
  /\ \/ registry = {} /\ Register(n)
     \/ \E w \in Closest(n) : IF Level[<<n, w>>] >= 2 THEN Merge(w) ELSE Register(n)
  /\ UNCHANGED <<stored, asking, raced, lost>>

(* resolve_async, up to the LLM or to its end. *)
ResolveAsync(d, n) ==
  /\ asking[d] = None
  /\ \/ registry = {} /\ Register(n) /\ UNCHANGED asking
     \/ \E w \in Closest(n) :
          \/ Band(n, w) = "merge" /\ Merge(w) /\ UNCHANGED asking
          \/ Band(n, w) = "new" /\ Register(n) /\ UNCHANGED asking
          \/ /\ Band(n, w) = "borderline"
             /\ asking' = [asking EXCEPT ![d] = w]
             /\ UNCHANGED <<registry, nodes>>
  /\ UNCHANGED <<stored, raced, lost>>

(* _adjudicate_same answers; an error is a no. *)
Adjudicated(d, n) ==
  /\ asking[d] # None
  /\ \/ Merge(asking[d]) /\ UNCHANGED raced
     \/ /\ Register(n)
        /\ raced' = IF AsGoodAs(n, registry) # {} THEN raced \cup {n} ELSE raced
  /\ asking' = [asking EXCEPT ![d] = None]
  /\ UNCHANGED <<stored, lost>>

(* Broken: every job begins with an empty registry. *)
LoadNothing ==
  /\ registry' = {}
  /\ UNCHANGED <<stored, nodes, asking, raced, lost>>

Load ==
  /\ registry' = stored
  /\ UNCHANGED <<stored, nodes, asking, raced, lost>>

Flush ==
  /\ stored' = stored \cup registry
  /\ UNCHANGED <<registry, nodes, asking, raced, lost>>

(* The process ends, or Redis starts anew. *)
Forget(kept) ==
  /\ registry' = {}
  /\ asking' = [d \in Docs |-> None]
  /\ stored' = kept
  /\ lost' = lost \cup (nodes \ kept)
  /\ UNCHANGED <<nodes, raced>>
=============================================================================
