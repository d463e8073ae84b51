----------------------------- MODULE MCShardRouter -----------------------------
(* Two documents of one source on three shards.  One shard holds a paper and two *)
(* entities that are all next to each other; one of the two is in dispute over a *)
(* concept of the second shard, whose other neighbour is on the third.  Both cite *)
(* a paper, r, that is no document here.                                          *)
EXTENDS ShardRouter, TLC

CONSTANTS d1, d2, s1, p1, p2, a, b, c, f, r

Edge(x, kind, y) == [from |-> x, kind |-> kind, to |-> y]

OneSource == (d1 :> s1) @@ (d2 :> s1)

Spread == (p1 :> 1) @@ (a :> 1) @@ (c :> 1) @@ (b :> 2) @@ (f :> 3) @@ (p2 :> 3) @@
          (r :> 2)

Disagreement ==
  (d1 :> <<p1, a, Edge(a, "LINKS", p1), Embed, c, Edge(p1, "LINKS", c), b,
           Edge(a, "SUPPORTS", b), Edge(c, "LINKS", a), Edge(c, "LINKS", r)>>) @@
  (d2 :> <<p2, Embed, b, a, Edge(p2, "LINKS", b), Edge(a, "CONTRADICTS", b),
           f, Edge(b, "LINKS", f), Edge(b, "LINKS", r), Edge(r, "LINKS", f)>>)

ASSUME Apart == CitedApart
=============================================================================
