---------------------------- MODULE MCNameGraph ----------------------------
EXTENDS NameGraph

CONSTANTS e1, e2, x, y, z, Length

Plain(assignments) ==
    [assignments |-> assignments, pred_op1 |-> None, pred_op2 |-> None, return_value |-> None]

Assigning ==
    {Plain({a}) : a \in {<<e1, x>>, <<e2, y>>, <<x, y>>, <<y, x>>, <<y, z>>, <<z, x>>, <<OK, x>>, <<OK, z>>}}
        \cup {Plain({<<x, y>>, <<OK, y>>}), Plain({<<x, z>>, <<z, x>>})}

Asking ==
    {[Plain({<<OK, y>>}) EXCEPT !.return_value = r] : r \in {x, z, e1}}
        \cup {[Plain({}) EXCEPT !.pred_op1 = y, !.pred_op2 = z]}

MCRuleLists == [1..Length -> Assigning \cup Asking]
=============================================================================
