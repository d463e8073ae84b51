---------------------------- MODULE MCKnowledgeGraph ----------------------------
(* Two sources, one with two documents, that share two concepts and disagree *)
(* about them.  d1 extracts a paper, q by its name, whose edge looks for an  *)
(* arxiv_id that is p2's.                                                    *)
EXTENDS KnowledgeGraph, TLC

CONSTANTS d1, d2, d3, s1, s2, p1, p2, p3, a, b, q

Edge(x, kind, y) == [from |-> x, kind |-> kind, to |-> y]

TwoSources == (d1 :> s1) @@ (d2 :> s2) @@ (d3 :> s1)

Disagreement ==
  (d1 :> <<p1, Embed, a, b, Edge(a, "SUPPORTS", b),
           q, Edge(b, "LINKS", p2)>>) @@
  (d2 :> <<p2, a, Edge(a, "LINKS", p2), Embed, b, Edge(p2, "LINKS", b),
           Edge(a, "CONTRADICTS", b)>>) @@
  (d3 :> <<p3, Embed, a, b, Edge(a, "SUPPORTS", b)>>)
=============================================================================
