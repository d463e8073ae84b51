------------------------------- MODULE GraphWriter -------------------------------
(***************************************************************************)
(* The order in which process_document (src/backend/ingestion/worker.py)   *)
(* writes what it learnt of a document, whichever store it writes to: the  *)
(* paper, authors and topics with their edges, then the chunks, then what  *)
(* the LLM extracted, each claim followed by a conflict check.  Documents  *)
(* are written concurrently; each statement is a step.                     *)
(***************************************************************************)
EXTENDS Naturals, Sequences, GraphStore

CONSTANTS Embed,     \* stands in a script where the chunks are written
          Script,    \* [Docs -> what process_document writes, in order]
          SourceOf,  \* [Docs -> the source that lists it]
          None,
          Tries      \* bounds the runs of a document

(* What a document has written before its i-th item. *)
Before(d, i) == {Script[d][j] : j \in 1 .. i - 1}

(* The edges between what their document wrote before come after both ends: *)
(* a relationship is kept only if both of its entities were resolved and    *)
(* merged.  An extracted Paper was merged by name, though, and its edges    *)
(* look for a node by arxiv_id.                                             *)
ASSUME GraphWriterAssumption ==
  /\ Nodes \cap Edges = {}
  /\ Embed \notin Items
  /\ SourceOf \in [Docs -> Sources]
  /\ None \notin Sources
  /\ Tries \in Nat
  /\ Script \in [Docs -> Seq(Items \cup {Embed})]
  /\ \A d \in Docs : \A i \in 1 .. Len(Script[d]) :
       Script[d][i] \in Edges => Ends(Script[d][i]) \subseteq Before(d, i) \cup Papers

(* The edges to papers that their document did not write, and the sources *)
(* that assert them.                                                      *)
Loose ==
  {p \in Edges \X Sources :
     \E d \in Docs : \E i \in 1 .. Len(Script[d]) :
       SourceOf[d] = p[2] /\ Script[d][i] = p[1] /\ ~(Ends(p[1]) \subseteq Before(d, i))}

VARIABLES pos,        \* the next item of the document's script: 0 before and after a
                      \* failed run, past the end when it is done
          check,      \* how far the write of that item has come
          embedded,   \* the documents with chunks
          tries,
          skipped,    \* history: documents whose last run was the skip
          unchecked   \* history: documents whose last run may have left a claim unchecked

writerVars == <<pos, check, embedded, tries, skipped, unchecked>>

WriterTypeOK ==
  /\ pos \in [Docs -> Nat] /\ \A d \in Docs : pos[d] <= Len(Script[d]) + 1
  /\ check \in [Docs -> {"merge", "stubbed", "scan", "flag", "dispute"}]
  /\ \A d \in Docs : check[d] # "merge" => pos[d] # 0 /\ Script[d][pos[d]] \in Edges
  /\ embedded \subseteq Docs /\ skipped \subseteq Docs /\ unchecked \subseteq Docs
  /\ tries \in [Docs -> 0 .. Tries]

WriterInit ==
  /\ pos = [d \in Docs |-> 0]
  /\ check = [d \in Docs |-> "merge"]
  /\ embedded = {} /\ skipped = {} /\ unchecked = {}
  /\ tries = [d \in Docs |-> 0]

Done(d) == pos[d] = Len(Script[d]) + 1
Writing(d) == pos[d] # 0 /\ ~Done(d)
Item(d) == Script[d][pos[d]]
At(d, st) == Writing(d) /\ check[d] = st

-----------------------------------------------------------------------------
(* A job reaches the document.  Chunks of an earlier run make it skip. *)
Start(d) ==
  /\ ~Writing(d)
  /\ tries[d] < Tries
  /\ tries' = [tries EXCEPT ![d] = @ + 1]
  /\ \E force \in BOOLEAN :
       IF ~force /\ d \in embedded
       THEN /\ pos' = [pos EXCEPT ![d] = Len(Script[d]) + 1]
            /\ skipped' = skipped \cup {d}
            /\ UNCHANGED unchecked
       ELSE /\ pos' = [pos EXCEPT ![d] = 1]
            /\ skipped' = skipped \ {d}
            /\ unchecked' = unchecked \ {d}
  /\ UNCHANGED <<check, embedded>>

Advance(d) ==
  /\ pos' = [pos EXCEPT ![d] = @ + 1]
  /\ check' = [check EXCEPT ![d] = "merge"]
  /\ UNCHANGED <<embedded, tries, skipped, unchecked>>

Enter(d, st) ==
  /\ check' = [check EXCEPT ![d] = st]
  /\ UNCHANGED <<pos, embedded, tries, skipped, unchecked>>

(* An edge is merged: a claim is checked next. *)
AfterEdge(d) == IF Item(d).kind \in Claims THEN Enter(d, "scan") ELSE Advance(d)

(* _embed: the chunks are deleted and written anew. *)
WriteChunks(d) ==
  /\ At(d, "merge") /\ Item(d) = Embed
  /\ embedded' = embedded \cup {d}
  /\ pos' = [pos EXCEPT ![d] = @ + 1]
  /\ UNCHANGED <<check, tries, skipped, unchecked>>

(* A statement raises, or the worker dies: the document stays half written. *)
Fail(d) ==
  /\ Writing(d)
  /\ pos' = [pos EXCEPT ![d] = 0]
  /\ check' = [check EXCEPT ![d] = "merge"]
  /\ unchecked' = unchecked \cup {d}
  /\ UNCHANGED <<embedded, tries, skipped>>
=============================================================================
