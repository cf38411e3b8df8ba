-------------------------- MODULE MCWorkflowLayout --------------------------
(* Workflow documents with four nodes in two lanes and three edges. *)
EXTENDS WorkflowLayout

Sites == [lane : {1, 2}, col : {1, 2}, width : {92}]
Drawings == {[a |-> a, b |-> b, c |-> c, d |-> d] :
                a \in [lane : {1}, col : {0}, width : {92, 180}],
                b \in Sites,
                c \in Sites,
                d \in [lane : {2}, col : {0}, width : {92, 120}]}
Relations == {<<[from |-> "a", to |-> "b", label |-> l],
                [from |-> s, to |-> "c", label |-> 0],
                [from |-> e[1], to |-> e[2], label |-> 0]>> :
                  l \in {0, 58, 154}, s \in {"a", "b"}, e \in {<<"d", "b">>, <<"c", "d">>}}
\* Two nodes never share a place.
MCDiagrams == {m \in [nodes : Drawings, edges : Relations] :
                 <<m.nodes.b.lane, m.nodes.b.col>> # <<m.nodes.c.lane, m.nodes.c.col>>}
=============================================================================
