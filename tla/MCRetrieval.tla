---------------------------- MODULE MCRetrieval -----------------------------
(* Values of the constants of Retrieval for model checking.  A query of    *)
(* seven words is split into one word ("rare") and the other six.          *)
EXTENDS Retrieval

ThreePages == {"p1", "p2", "p3"}
TwoBlocks == {"b1", "b2"}
OneFile == {"f1"}

Placement == [s \in Sources |-> CASE s \in Blocks -> "p1" [] s \in Files -> "p2" [] OTHER -> s]
Order == [s \in Sources |-> CASE s = "b1" -> 1 [] s = "b2" -> 2 [] s = "f1" -> 3
                              [] s = "p1" -> 4 [] s = "p2" -> 5 [] OTHER -> 6]
PageIds == [p \in ThreePages |-> CASE p = "p1" -> 2 [] p = "p2" -> 1 [] OTHER -> 3]

TwoWords == {"rare", "others"}
Sevenths == [S \in SUBSET TwoWords |->
    CASE S = {} -> 0 [] S = {"rare"} -> 14 [] S = {"others"} -> 85 [] OTHER -> 100]

Empty == [words |-> {}, phrase |-> FALSE]
Weak == [words |-> {"rare"}, phrase |-> FALSE]
Strong == [words |-> {"others"}, phrase |-> FALSE]
Full == [words |-> TwoWords, phrase |-> TRUE]

(* The third page says nothing of the query.                               *)
SomeTitles ==
    {[s \in ThreePages \union OneFile |->
        CASE s = "p1" -> t[1] [] s = "p2" -> t[2] [] s = "p3" -> Empty [] s = "f1" -> t[3]] :
        t \in {Empty, Weak, Full} \X {Empty, Full} \X {Empty, Strong}}
SomeBodies ==
    {[s \in Sources |->
        CASE s = "b1" -> t[1] [] s = "b2" -> t[2] [] s = "p1" -> t[3] [] s = "p2" -> t[4]
          [] s = "f1" -> t[5] [] OTHER -> Empty] :
        t \in {Empty, Weak, Strong} \X {Empty, Strong} \X {Empty, Weak}
                \X {Empty, Full} \X {Empty, Weak}}
SomeSimilarities ==
    {[s \in ThreePages \union TwoBlocks |->
        CASE s = "b1" -> t[1] [] s = "b2" -> t[2] [] s = "p1" -> t[3] [] s = "p2" -> t[4]
          [] OTHER -> 0] :
        t \in {0, 40, 90} \X {34, 70} \X {0, 60} \X {0, 60}}

(* What one search for a passage may find.                                 *)
SomeOutcomes ==
    {[s \in {x \in Sources : t[Order[x]] > 0} |-> t[Order[s]]] :
        t \in {0, 2400, 3000, 6000} \X {0, 3000} \X {0, 5000}
              \X {0, 3000, 6000} \X {0, 2400, 4000} \X {0, 3000}}
=============================================================================
