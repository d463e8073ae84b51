---------------------------- MODULE QuestionAnswering ----------------------------
(***************************************************************************)
(* Answering a question (src/backend/core/qa_pipeline.py, the same in      *)
(* api/routes/questions.py): the route decides which of the two retrievers *)
(* runs, the graph's generates, repairs and broadens a Cypher query        *)
(* (core/graph_retriever.py), and results are cached in Redis, while       *)
(* ingestion and deletion change what they were computed from.             *)
(*                                                                         *)
(* A cached result of its own is each view: PageRank influence,            *)
(* communities and research gaps (core/graph_algorithms.py), read by their *)
(* routes and by the questions' side reads, and a workspace's suggested    *)
(* questions (api/routes/workspaces.py), made from its sources and from    *)
(* its profile: name, domain and description.                              *)
(* Left out: the wording of questions, prompts, rankings and what is done  *)
(* with degrees, conflicts and trust, whose failures are swallowed.        *)
(***************************************************************************)
EXTENDS Naturals, FiniteSets

CONSTANTS
  Askers, Queries, None,
  Finds,      \* the <<query, version>> with rows: what a query finds in the graph
  MaxAttempts,\* MAX_CYPHER_ATTEMPTS
  Key,        \* the cache key of a query, which is hashed in lower case
  Viewers, Views,
  Over,       \* [Views -> SUBSET Bases]: what a view is made from
  Changes,    \* bounds the changes of each of the Bases
  Moves,      \* bounds those of all of them together
  Asks        \* bounds the questions of an asker

Bases == {"graph", "sources", "profile"}
Keys == {Key[q] : q \in Queries}
Slots == Keys \cup Views

ASSUME QuestionAssumption ==
  /\ MaxAttempts \in Nat \ {0}
  /\ Changes \in Nat /\ Moves \in Nat /\ Asks \in Nat
  /\ None \notin Queries \cup Slots /\ None \notin 0 .. Changes
  /\ DOMAIN Key = Queries /\ Keys \cap Views = {}
  /\ Over \in [Views -> SUBSET Bases]
  /\ \A s \in Views : "profile" \in Over[s] => "sources" \in Over[s]

VARIABLES
  version,   \* of the graph, of the list of sources and of the profile
  owed,      \* for each: how many clearings its changes still call for
  cache,     \* the entry of each slot
  ask,       \* the question of each asker
  asked,     \* how many it has asked
  look       \* the view each viewer is computing

vars == <<version, owed, cache, ask, asked, look>>

(* What the content of a slot is computed from. *)
Basis(s) == IF s \in Keys THEN {"graph"} ELSE Over[s]

(* The version of each base that was read, None of the others. *)
Read == [Bases -> (0 .. Changes) \cup {None}]
ReadOf(B) == [b \in Bases |-> IF b \in B THEN version[b] ELSE None]

(* of: the query or view; late: history, the caches were cleared between the *)
(* reading and the writing.                                                  *)
Entry == [of : Queries \cup Views, read : Read, late : BOOLEAN]
Rows == [of : Queries, version : 0 .. Changes]
Question ==
  [graph : {"off", "generate", "probe", "run", "repair", "broaden", "store", "done", "hung"},
   vector : {"off", "on", "done"},
   query : Queries \cup {None}, rows : Rows \cup {None}, attempt : 0 .. MaxAttempts - 1,
   broadened : BOOLEAN, chunks : BOOLEAN, late : BOOLEAN]
Reading == [view : Views, read : Read, fetched : BOOLEAN, late : BOOLEAN]

TypeOK ==
  /\ version \in [Bases -> 0 .. Changes]
  /\ owed \in [Bases -> 0 .. Changes]
  /\ cache \in [Slots -> Entry \cup {None}]
  /\ ask \in [Askers -> Question \cup {None}]
  /\ asked \in [Askers -> 0 .. Asks]
  /\ look \in [Viewers -> Reading \cup {None}]

Init ==
  /\ version = [b \in Bases |-> 0]
  /\ owed = [b \in Bases |-> 0]
  /\ cache = [s \in Slots |-> None]
  /\ ask = [k \in Askers |-> None]
  /\ asked = [k \in Askers |-> 0]
  /\ look = [w \in Viewers |-> None]

-----------------------------------------------------------------------------
Open(k) == ask[k] # None
GraphAt(k, st) == Open(k) /\ ask[k].graph = st

Found(rows) == rows # None /\ <<rows.of, rows.version>> \in Finds

To(k, st) == ask' = [ask EXCEPT ![k].graph = st]
Close(k) == ask' = [ask EXCEPT ![k] = None]

questionFrame == <<version, owed, asked, look>>

Asked(g, v) ==
  [graph |-> g, vector |-> v, query |-> None, rows |-> None, attempt |-> 0,
   broadened |-> FALSE, chunks |-> FALSE, late |-> FALSE]

(* classify_question: a type the LLM makes up counts as hybrid. *)
Routes == {"graph", "vector", "hybrid"}

Ask(k, route) ==
  /\ ~Open(k) /\ asked[k] < Asks
  /\ asked' = [asked EXCEPT ![k] = @ + 1]
  /\ ask' = [ask EXCEPT ![k] =
       Asked(IF route = "vector" THEN "off" ELSE "generate",
             IF route = "graph" THEN "off" ELSE "on")]
  /\ UNCHANGED <<version, owed, cache, look>>

(* _execute_with_repair is over, and its counters with it. *)
Looped(q) == [q EXCEPT !.attempt = 0, !.broadened = FALSE]

(* UnsafeQueryError: _graph swallows it and has nothing to show. *)
Unsafe(k) ==
  ask' = [ask EXCEPT ![k] = [Looped(@) EXCEPT !.graph = "done", !.query = None, !.rows = None]]

(* question_to_cypher. *)
Generate(k) ==
  /\ GraphAt(k, "generate")
  /\ \/ Unsafe(k)
     \/ \E q \in Queries : ask' = [ask EXCEPT ![k].graph = "probe", ![k].query = q]
  /\ UNCHANGED <<questionFrame, cache>>

(* get_cached_cypher: a hit is all there is, even without rows. *)
Probe(k) ==
  /\ GraphAt(k, "probe")
  /\ LET hit == cache[Key[ask[k].query]]
     IN IF hit = None THEN To(k, "run")
        ELSE ask' = [ask EXCEPT ![k].graph = "done",
                       ![k].rows = [of |-> hit.of, version |-> hit.read["graph"]]]
  /\ UNCHANGED <<questionFrame, cache>>

LastAttempt(k) == ask[k].attempt = MaxAttempts - 1

(* _exec answers: an empty result is broadened once, if an attempt is left. *)
Run(k) ==
  /\ GraphAt(k, "run")
  /\ LET rows == [of |-> ask[k].query, version |-> version["graph"]]
         again == ~Found(rows) /\ ~ask[k].broadened /\ ~LastAttempt(k)
         q == [ask[k] EXCEPT !.rows = rows, !.late = FALSE]
     IN ask' = [ask EXCEPT ![k] =
          IF again THEN [q EXCEPT !.graph = "broaden", !.broadened = TRUE]
                   ELSE [Looped(q) EXCEPT !.graph = "store"]]
  /\ UNCHANGED <<questionFrame, cache>>

(* _exec raises a Neo4jError: the last one fails the question. *)
RunRaises(k) ==
  /\ GraphAt(k, "run")
  /\ IF LastAttempt(k) THEN Close(k) ELSE To(k, "repair")
  /\ UNCHANGED <<questionFrame, cache>>

Retry(k, q) ==
  ask' = [ask EXCEPT ![k].graph = "run", ![k].query = q, ![k].attempt = @ + 1]

(* Broken: repairs are not counted. *)
RepairForever(k) ==
  /\ GraphAt(k, "repair")
  /\ \E q \in Queries : ask' = [ask EXCEPT ![k].graph = "run", ![k].query = q]
  /\ UNCHANGED <<questionFrame, cache>>

Repair(k) ==
  /\ GraphAt(k, "repair")
  /\ Unsafe(k) \/ \E q \in Queries : Retry(k, q)
  /\ UNCHANGED <<questionFrame, cache>>

(* The same query again, or an unsafe one, leaves the result empty. *)
Broaden(k) ==
  /\ GraphAt(k, "broaden")
  /\ \/ ask' = [ask EXCEPT ![k] = [Looped(@) EXCEPT !.graph = "store"]]
     \/ \E q \in Queries \ {ask[k].query} : Retry(k, q)
  /\ UNCHANGED <<questionFrame, cache>>

Result(q) ==
  [of |-> q.rows.of, late |-> q.late,
   read |-> [b \in Bases |-> IF b = "graph" THEN q.rows.version ELSE None]]

(* Broken: under the query the question began with, whatever it was. *)
StoreUnderAny(k) ==
  /\ GraphAt(k, "store")
  /\ \E q \in Queries : cache' = [cache EXCEPT ![Key[q]] = Result(ask[k])]
  /\ ask' = [ask EXCEPT ![k].graph = "done", ![k].late = FALSE]
  /\ UNCHANGED questionFrame

(* set_cached_cypher, after the side reads, under the query that was run. *)
Store(k) ==
  /\ GraphAt(k, "store")
  /\ cache' = [cache EXCEPT ![Key[ask[k].query]] = Result(ask[k])]
  /\ ask' = [ask EXCEPT ![k].graph = "done", ![k].late = FALSE]
  /\ UNCHANGED questionFrame

(* run_vector_query: whatever it raises counts as no chunks. *)
Search(k) ==
  /\ Open(k) /\ ask[k].vector = "on"
  /\ \E found \in BOOLEAN :
       ask' = [ask EXCEPT ![k].vector = "done", ![k].chunks = found]
  /\ UNCHANGED <<questionFrame, cache>>

Settled(k) == Open(k) /\ ask[k].graph \in {"off", "done"} /\ ask[k].vector # "on"

(* The other retriever, if the one the route chose came back empty. *)
NeedsVector(k) == ask[k].vector = "off" /\ ~Found(ask[k].rows)
NeedsGraph(k) == ask[k].graph = "off" /\ ~ask[k].chunks

FallBack(k) ==
  /\ Settled(k)
  /\ \/ NeedsVector(k) /\ ask' = [ask EXCEPT ![k].vector = "on"]
     \/ NeedsGraph(k) /\ To(k, "generate")
  /\ UNCHANGED <<questionFrame, cache>>

Answer(k) ==
  /\ Settled(k) /\ ~NeedsVector(k) /\ ~NeedsGraph(k)
  /\ Close(k)
  /\ UNCHANGED <<questionFrame, cache>>

(* The LLM, Redis, or the driver with another error: nothing catches them. *)
Fail(k) ==
  /\ Open(k)
  /\ ask[k].graph \notin {"off", "done", "hung"} \/ Settled(k)
  /\ Close(k)
  /\ UNCHANGED <<questionFrame, cache>>

(* Redis, Neo4j or Chroma never answers: of the calls a question awaits only *)
(* the LLM's have a timeout.  _exec has one and uses it on shards alone; the *)
(* driver's is for getting a connection, and the Redis client has none.      *)
(* What the other retriever still does it may as well do before.             *)
Hang(k) ==
  /\ Open(k)
  /\ ask[k].graph \in {"probe", "run", "store"} \/ ask[k].vector = "on"
  /\ ask' = [ask EXCEPT ![k] = Asked("hung", "off")]
  /\ UNCHANGED <<questionFrame, cache>>

Hung(k) == GraphAt(k, "hung")

-----------------------------------------------------------------------------
(* workspace_influence, _communities, _research_gaps; suggested_questions.  *)
(* The profile is in the row that has the cached questions. *)
Look(w, s) ==
  /\ look[w] = None
  /\ cache[s] = None
  /\ look' = [look EXCEPT ![w] =
       [view |-> s, read |-> ReadOf(Over[s] \cap {"profile"}), fetched |-> FALSE, late |-> FALSE]]
  /\ UNCHANGED <<version, owed, cache, ask, asked>>

Fetch(w) ==
  /\ look[w] # None /\ ~look[w].fetched
  /\ LET r == look[w]
     IN look' = [look EXCEPT ![w] =
          [r EXCEPT !.fetched = TRUE,
                    !.read = [b \in Bases |-> IF b \in Over[r.view] \ {"profile"}
                                              THEN version[b] ELSE r.read[b]]]]
  /\ UNCHANGED <<version, owed, cache, ask, asked>>

Keep(w) ==
  /\ look[w] # None /\ look[w].fetched
  /\ cache' = [cache EXCEPT ![look[w].view] =
       [of |-> look[w].view, read |-> look[w].read, late |-> look[w].late]]
  /\ look' = [look EXCEPT ![w] = None]
  /\ UNCHANGED <<version, owed, ask, asked>>

LookFails(w) ==
  /\ look[w] # None
  /\ look' = [look EXCEPT ![w] = None]
  /\ UNCHANGED <<version, owed, cache, ask, asked>>

-----------------------------------------------------------------------------
(* A job or a deletion writes (the first time, or on), or update_workspace, *)
(* whose change nothing clears up: it is owed until the sources change.     *)
Change(b) ==
  /\ version[b] < Changes /\ version["graph"] + version["sources"] + version["profile"] < Moves
  /\ version' = [version EXCEPT ![b] = @ + 1]
  /\ \/ owed' = [owed EXCEPT ![b] = @ + 1]
     \/ owed[b] > 0 /\ UNCHANGED owed
  /\ UNCHANGED <<cache, ask, asked, look>>

(* Broken: only what docs/11 lists is swept, the queries, and not the views. *)
ClearedQueries(b) == {s \in Keys : b = "graph"}

Cleared(b) == {s \in Slots : b \in Basis(s)}

HasRead(r) == \E b \in Bases : r.read[b] # None

Late(r) == [r EXCEPT !.late = TRUE]

(* When it is done it clears what was cached: invalidate_workspace_caches,  *)
(* or _clear_question_cache for the sources.  It may never get there: the   *)
(* job dies, an earlier call raises, or it is a worker of the pool, which   *)
(* does not clear at all.                                                   *)
Clear(b) ==
  /\ b # "profile" /\ owed[b] > 0
  /\ owed' = [owed EXCEPT ![b] = @ - 1, !["profile"] = IF b = "sources" THEN 0 ELSE @]
  /\ cache' = [s \in Slots |-> IF s \in Cleared(b) THEN None ELSE cache[s]]
  /\ ask' = [k \in Askers |->
       IF b = "graph" /\ Open(k) /\ ask[k].graph \in {"broaden", "store"}
       THEN Late(ask[k]) ELSE ask[k]]
  /\ look' = [w \in Viewers |->
       IF look[w] # None /\ b \in Over[look[w].view] /\ HasRead(look[w])
       THEN Late(look[w]) ELSE look[w]]
  /\ UNCHANGED <<version, asked>>

(* A result expires after five minutes; suggested questions do not. *)
Expire(s) ==
  /\ cache[s] # None /\ Basis(s) = {"graph"}
  /\ cache' = [cache EXCEPT ![s] = None]
  /\ UNCHANGED <<version, owed, ask, asked, look>>

GraphStep(k) ==
  \/ Generate(k) \/ Probe(k) \/ Run(k) \/ RunRaises(k) \/ Repair(k) \/ Broaden(k)
  \/ Store(k)

QuestionStep(k) == GraphStep(k) \/ Search(k) \/ FallBack(k) \/ Answer(k) \/ Fail(k)

Next ==
  \/ \E k \in Askers :
       \/ \E route \in Routes : Ask(k, route)
       \/ QuestionStep(k) \/ Hang(k)
  \/ \E w \in Viewers :
       \/ \E s \in Views : Look(w, s)
       \/ Fetch(w) \/ Keep(w) \/ LookFails(w)
  \/ \E b \in Bases : Change(b) \/ Clear(b)
  \/ \E s \in Slots : Expire(s)

Spec == Init /\ [][Next]_vars

(* A question whose awaited call has come back goes on; that the call comes  *)
(* back is no part of this: nothing keeps Hang from happening instead.       *)
FairSpec == Spec /\ \A k \in Askers : WF_vars(QuestionStep(k))

-----------------------------------------------------------------------------
(* A cached result is as new as what it was made from, but for two cases.   *)
(* The clearing that its change calls for has not come: it comes when the   *)
(* job or deletion is done, for a workspace's new name, domain or           *)
(* description not before the sources change, and after a failure or from   *)
(* the worker pool never.  Or the caches were cleared between its reading   *)
(* and its writing: run_graph_query and the views write without a look.     *)
StaleMeansLate ==
  \A s \in Slots : \A b \in Basis(s) :
    cache[s] # None /\ cache[s].read[b] < version[b] => owed[b] > 0 \/ cache[s].late

(* The rows an answer shows are those of the Cypher it shows, or of one that *)
(* differs from it in case only, through repairs, broadening and the caches  *)
(* other questions filled.                                                   *)
AnswersMatchTheirCypher ==
  \A k \in Askers :
    GraphAt(k, "done") /\ ask[k].rows # None
      => ask[k].query # None /\ Key[ask[k].rows.of] = Key[ask[k].query]

(* The Cypher loop ends, whatever the database and the LLM answer, and with  *)
(* it every question ("bounded by MAX_CYPHER_ATTEMPTS",                      *)
(* _execute_with_repair), unless a store never answers one of its calls.     *)
EveryQuestionEnds == \A k \in Askers : Open(k) ~> (~Open(k) \/ Hung(k))
=============================================================================
