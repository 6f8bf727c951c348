---------------------------- MODULE JoinOverPaths ----------------------------
(***************************************************************************)
(* What the engine promises, without automata, graphs or worklists: at one *)
(* moment there is an answer, the join of the weights of all paths to each *)
(* point in each context, and the program may be at any of them.           *)
(***************************************************************************)
EXTENDS PushdownPaths, PathSums

VARIABLE answer   \* <<symbol, context>> |-> weight; << >> before it is there

joinVars == <<program, pathVars, answer>>

JoinInit == LoadProgram /\ PathInit /\ answer = << >>

Answer ==
    /\ answer = << >> /\ answer' # << >>
    /\ answer' = Join
    /\ UNCHANGED <<program, pathVars>>

Move ==
    /\ answer # << >>
    /\ PathNext
    /\ UNCHANGED answer

JoinSpec == JoinInit /\ [][Answer \/ Move]_joinVars
=============================================================================
