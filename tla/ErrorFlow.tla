------------------------------ MODULE ErrorFlow ------------------------------
(***************************************************************************)
(* A program as far as its error codes go: each variable holds an error or *)
(* none, and a step is the assignments of one rule, made at once.  This is *)
(* what the analyser wants of the rules, filtered or not.                  *)
(***************************************************************************)
CONSTANTS
    Errors,     \* the error codes
    Vars,       \* the variables
    Names,      \* what an assignment may read: variables and constants
    NoError,    \* what a variable holds otherwise
    Programs    \* the programs: sequences of sets of assignments <<from, to>>

VARIABLES
    program,
    held,       \* variable |-> its error
    taken       \* the rule that was taken last, 0 before the first

flowVars == <<program, held, taken>>

Init ==
    /\ program \in Programs
    /\ held = [v \in Vars |-> NoError]
    /\ taken = 0

Carries(n) == IF n \in Vars THEN held[n] ELSE IF n \in Errors THEN n ELSE NoError

\* Each variable that is assigned takes one of its sources.
Assign(assignments) ==
    \E choice \in [{a[2] : a \in assignments} -> Names] :
        /\ \A v \in DOMAIN choice : <<choice[v], v>> \in assignments
        /\ held' = [v \in Vars |-> IF v \in DOMAIN choice THEN Carries(choice[v]) ELSE held[v]]

Next ==
    \E i \in DOMAIN program :
        /\ Assign(program[i])
        /\ taken' = i
        /\ UNCHANGED program

Spec == Init /\ [][Next]_flowVars
=============================================================================
