------------------------------ MODULE Fixpoints ------------------------------
(***************************************************************************)
(* Repeating a step until it changes nothing: how this project states the  *)
(* worklists, and the regular expressions, whose order of work is left to  *)
(* the least solution they compute.                                        *)
(***************************************************************************)

\* The element of a singleton.  A value that is bound in {value} is computed once.
Only(S) == CHOOSE v \in S : TRUE

\* What start becomes when step, a function on a set, is applied to it until
\* it stays the same.
Repeated(step, start) ==
    LET from[w \in DOMAIN step] ==
            Only({IF next = w THEN w ELSE from[next] : next \in {step[w]}})
    IN  from[start]
=============================================================================
