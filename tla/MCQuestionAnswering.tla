--------------------------- MODULE MCQuestionAnswering ---------------------------
(* A narrow query that finds nothing before the graph changes, the same with *)
(* another case, and a wider one.                                            *)
EXTENDS QuestionAnswering, TLC

CONSTANTS narrow, NARROW, wide, influence, suggested, k1

CaseFolded == (narrow :> "n") @@ (NARROW :> "n") @@ (wide :> "w")

Hits == {<<wide, v>> : v \in 0 .. Changes} \cup {<<narrow, v>> : v \in 1 .. Changes}

MadeFrom == (influence :> {"graph"}) @@ (suggested :> {"sources", "profile"})

=============================================================================
