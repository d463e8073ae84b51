----------------------------- MODULE MCSourceIngest -----------------------------
(* The default ingestion path on a small instance: two sources, whose feeds *)
(* share a document or do not.                                              *)
EXTENDS SourceIngest, TLC

CONSTANTS s1, s2, d1, d2, d3

(* s2 lists one of s1's documents. *)
SharedFeeds == (s1 :> {<<d1, d2>>}) @@ (s2 :> {<<d2>>})
OwnFeeds == (s1 :> {<<d1, d2>>}) @@ (s2 :> {<<d3>>})
=============================================================================
