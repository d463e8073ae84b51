------------------------------- MODULE VectorStore -------------------------------
(***************************************************************************)
(* One workspace's collection in the vector store, src/backend/db/chroma.py: *)
(* of each document (source_url) the source whose id its chunks carry.     *)
(* Texts, embeddings and distances are left out.                           *)
(***************************************************************************)
CONSTANTS Docs, None

NoChunks == [d \in Docs |-> None]

(* add_chunks: an upsert. *)
AddChunksOf(store, d, s) == [store EXCEPT ![d] = s]

HasChunks(store, d) == store[d] # None

(* delete_chunks_for_sources, of a set of urls; delete_chunks_for_source, of one. *)
DeleteChunksOf(store, docs) == [d \in Docs |-> IF d \in docs THEN None ELSE store[d]]

(* delete_chunks_for_source_id. *)
DeleteChunksFrom(store, s) == [d \in Docs |-> IF store[d] = s THEN None ELSE store[d]]

(* get_all_source_urls. *)
AllUrls(store) == {d \in Docs : HasChunks(store, d)}
=============================================================================
