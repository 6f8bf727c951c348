------------------------------- MODULE Rows -------------------------------
(***************************************************************************)
(* Reading the row of a variable in a weight.  Variables and constants     *)
(* have an index, and where one element of a set is asked for, BuDDy's     *)
(* fdd_scanvar gives the one with the least.                               *)
(***************************************************************************)
EXTENDS ErrorWeights, Naturals, Sequences

CONSTANT Order   \* all variables and constants by their index

ASSUME OrderType == Order \in Seq(Var) /\ \A x \in Var : \E i \in DOMAIN Order : Order[i] = x

AllErrors == Errors \cup TentativeErrors
Row(w, x) == {z \in Var : <<x, z>> \in w}

Least(S) == Order[CHOOSE i \in DOMAIN Order : Order[i] \in S /\ \A j \in 1 .. i - 1 : Order[j] \notin S]
=============================================================================
