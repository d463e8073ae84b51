--------------------------- MODULE MCIngestionWorker ---------------------------
(* Two sources, and a paper both list; x and X are as good as the same, y is *)
(* close to both, as an author's name closer to x.                           *)
EXTENDS IngestionWorker, TLC

CONSTANTS j1, j2, d1, d2, x, X, y

TwoJobs == (j1 :> {d1, d2}) @@ (j2 :> {d2})

Entity(n) == [name |-> n, author |-> FALSE]
Author(n) == [name |-> n, author |-> TRUE]

Papers ==
  (d1 :> <<Author(y), Embed, Entity(x)>>) @@
  (d2 :> <<Embed, Entity(X)>>)

Likeness ==
  [p \in Names \X Names |->
     IF {p[1], p[2]} \subseteq {x, X} \/ p[1] = p[2] THEN 3
     ELSE IF x \in {p[1], p[2]} THEN 2 ELSE 1]
=============================================================================
