------------------------------ MODULE NameGraph ------------------------------
(***************************************************************************)
(* The last step of the frontend before it prints: the assignments of all  *)
(* rules make a graph, what no error code reaches in it is dropped from    *)
(* the rules.  Afterwards the program runs on the rules as they were and   *)
(* on the rules that are left, side by side.                               *)
(***************************************************************************)
EXTENDS Naturals, Sequences

CONSTANTS
    Errors,         \* the names of type EC other than OK, tentative ones included
    OK,
    UNINITIALIZED,
    Vars,           \* the local and global names
    None,           \* the empty name
    RuleLists       \* the rules that RulesPass may have collected

VARIABLES
    phase,          \* "construct", "search", "filter", "run"
    rules,          \* the rules as they were collected
    ecSources,      \* the error codes to search from
    queue,          \* the search's queue, as a set
    reachable,      \* vertices that the search from the present source has met
    names,          \* local_names and global_names
    output,         \* the rules as far as they are filtered
    store, filtered,\* the store of a run on rules, and on output
    taken           \* the rule that the run took last, 0 before it

searchVars == <<ecSources, queue, reachable, names>>
runVars == <<store, filtered, taken>>
vars == <<phase, rules, searchVars, output, runVars>>

Names == Errors \cup {OK} \cup Vars
Values == Errors \cup {OK, UNINITIALIZED}

\* An assignment is <<from, to>>; a rule's assignments are simultaneous, and
\* two of them to one variable are a choice.
RuleType ==
    [assignments : SUBSET (Names \X Vars), pred_op1 : Vars \cup {None},
     pred_op2 : Vars \cup {None}, return_value : Names \cup {None}]

ASSUME NamesType ==
    /\ OK \notin Errors /\ UNINITIALIZED \notin Errors \cup {OK}
    /\ Vars \cap Values = {} /\ None \notin Names
    /\ RuleLists \subseteq Seq(RuleType)

Init ==
    /\ phase = "construct"
    /\ rules \in RuleLists
    /\ ecSources = {} /\ queue = {} /\ reachable = {} /\ names = {}
    /\ output = << >>
    /\ store = [v \in Vars |-> UNINITIALIZED] /\ filtered = store
    /\ taken = 0

-----------------------------------------------------------------------------

Edges == UNION {rules[i].assignments : i \in DOMAIN rules}

\* The constructor: what has type EC and is not OK is a source.
Construct ==
    /\ phase = "construct"
    /\ phase' = "search"
    /\ ecSources' = {e[1] : e \in Edges} \cap Errors
    /\ UNCHANGED <<rules, queue, reachable, names, output, runVars>>

\* breadth_first_search from another source, with no vertex coloured.
StartSearch(source) ==
    /\ phase = "search" /\ queue = {} /\ source \in ecSources
    /\ ecSources' = ecSources \ {source}
    /\ queue' = {source} /\ reachable' = {source}
    /\ names' = names \cup ({source} \cap Vars)
    /\ UNCHANGED <<phase, rules, output, runVars>>

\* Mutant: only what an error code is assigned to directly is found.
OnlyDirect(v) == {e[2] : e \in {e \in Edges : e[1] = v /\ v \in Errors}} \ reachable

Undiscovered(v) == {e[2] : e \in {e \in Edges : e[1] = v}} \ reachable

\* One vertex off the queue: discover_vertex for each new successor.
Examine(v) ==
    /\ phase = "search" /\ v \in queue
    /\ queue' = (queue \ {v}) \cup Undiscovered(v)
    /\ reachable' = reachable \cup Undiscovered(v)
    /\ names' = names \cup (Undiscovered(v) \cap Vars)
    /\ UNCHANGED <<phase, rules, ecSources, output, runVars>>

EndSearch ==
    /\ phase = "search" /\ queue = {} /\ ecSources = {}
    /\ phase' = "filter"
    /\ UNCHANGED <<rules, searchVars, output, runVars>>

KeptName(n) == IF n \in names THEN n ELSE None

\* Mutant: a constant that is returned is dropped like a variable.
KeptReturnVariable(n) == KeptName(n)

\* Directly returned codes are kept.
KeptReturn(n) == IF n \in names \cup Errors \cup {OK} THEN n ELSE None

\* Mutant: an assignment is judged by its source.
FilteredBySource(r) ==
    [assignments |-> {a \in r.assignments : a[1] \in names},
     pred_op1 |-> KeptName(r.pred_op1), pred_op2 |-> KeptName(r.pred_op2),
     return_value |-> KeptReturn(r.return_value)]

Filtered(r) ==
    [assignments |-> {a \in r.assignments : a[2] \in names},
     pred_op1 |-> KeptName(r.pred_op1), pred_op2 |-> KeptName(r.pred_op2),
     return_value |-> KeptReturn(r.return_value)]

FilterRule ==
    /\ phase = "filter" /\ Len(output) < Len(rules)
    /\ output' = Append(output, Filtered(rules[Len(output) + 1]))
    /\ UNCHANGED <<phase, rules, searchVars, runVars>>

EndFilter ==
    /\ phase = "filter" /\ Len(output) = Len(rules)
    /\ phase' = "run"
    /\ UNCHANGED <<rules, searchVars, output, runVars>>

-----------------------------------------------------------------------------
(* The program runs.                                                       *)

In(s, n) == IF n \in Vars THEN s[n] ELSE n

\* The ways to choose a source for each variable that a rule assigns.
Choices(assignments) ==
    LET targets == {a[2] : a \in assignments}
    IN  {c \in [targets -> Names] : \A v \in targets : <<c[v], v>> \in assignments}

After(s, assignments, choice) ==
    [v \in Vars |->
        IF v \in DOMAIN choice /\ <<choice[v], v>> \in assignments THEN In(s, choice[v]) ELSE s[v]]

Run(i) ==
    /\ phase = "run"
    /\ taken' = i
    /\ \E choice \in Choices(rules[i].assignments) :
          /\ store' = After(store, rules[i].assignments, choice)
          /\ filtered' = After(filtered, output[i].assignments, choice)
    /\ UNCHANGED <<phase, rules, searchVars, output>>

Next ==
    \/ Construct
    \/ \E e \in Errors : StartSearch(e)
    \/ \E v \in Names : Examine(v)
    \/ EndSearch
    \/ FilterRule
    \/ EndFilter
    \/ \E i \in DOMAIN rules : Run(i)

Spec == Init /\ [][Next]_vars

-----------------------------------------------------------------------------
(* Correctness.                                                            *)

\* Type correctness of the search and of the two runs.
TypeOK ==
    /\ phase \in {"construct", "search", "filter", "run"}
    /\ rules \in Seq(RuleType)
    /\ ecSources \subseteq Errors
    /\ queue \subseteq reachable /\ reachable \subseteq Names
    /\ names \subseteq Vars
    /\ output \in Seq(RuleType)
    /\ store \in [Vars -> Values] /\ filtered \in [Vars -> Values]

\* Filtering loses no error and makes none: on any run, a variable holds an
\* error with the rules that are left exactly if it holds it with all rules,
\* although some of the others are left at what they held (NameGraph::filter).
SameErrors ==
    \A v \in Vars : store[v] \in Errors \/ filtered[v] \in Errors => store[v] = filtered[v]

\* No predicate or return loses an operand that can hold an error, a directly
\* returned error code included: the point that the analyser makes of the rule
\* can be asked about it (NameGraph::filter resets pred_op1, pred_op2 and
\* return_value of every rule, whatever its own assignments are).
PointsKept ==
    phase = "run" =>
        \A i \in DOMAIN rules :
            /\ In(store, rules[i].return_value) \in Errors => output[i].return_value = rules[i].return_value
            /\ In(store, rules[i].pred_op1) \in Errors => output[i].pred_op1 = rules[i].pred_op1
            /\ In(store, rules[i].pred_op2) \in Errors => output[i].pred_op2 = rules[i].pred_op2

-----------------------------------------------------------------------------
(* The inductive invariant: what the search has closed off, and what follows *)
(* for a run.                                                                *)

Entered(e) == e \in Errors /\ e \in {a[1] : a \in Edges} /\ phase # "construct" /\ e \notin ecSources

\* A successor of a vertex that was met is met, unless it is still in the queue.
SearchInv ==
    /\ reachable \cap Vars \subseteq names
    /\ \A a \in Edges : a[1] \in reachable \ queue => a[2] \in reachable
    /\ \A a \in Edges : a[1] \in names => a[2] \in names \/ a[1] \in queue
    /\ \A a \in Edges : Entered(a[1]) => a[2] \in names \/ a[1] \in queue
    /\ phase = "construct" => queue = {} /\ names = {} /\ reachable = {}
    /\ phase \in {"filter", "run"} => queue = {} /\ ecSources = {}

RunInv ==
    /\ phase # "run" => store = [v \in Vars |-> UNINITIALIZED] /\ filtered = store
    /\ \A v \in Vars \ names : store[v] \notin Errors /\ filtered[v] \notin Errors

OutputInv ==
    /\ Len(output) <= Len(rules)
    /\ phase \in {"construct", "search"} => output = << >>
    /\ phase = "run" => Len(output) = Len(rules)
    /\ \A i \in 1..Len(output) : output[i] = Filtered(rules[i])

FilterInv == TypeOK /\ SearchInv /\ RunInv /\ OutputInv /\ SameErrors

-----------------------------------------------------------------------------
(* The filtered program implements the program.                            *)

AssignmentsOf(list) == [i \in DOMAIN list |-> list[i].assignments]

\* The rules as they were collected, and the errors of a run on those that are left.
Flow == INSTANCE ErrorFlow WITH
    NoError <- OK,
    Programs <- {AssignmentsOf(list) : list \in RuleLists},
    program <- AssignmentsOf(rules),
    held <- [v \in Vars |-> IF filtered[v] \in Errors THEN filtered[v] ELSE OK]

\* The search and the filter do not show, and each step of the filtered rules is a
\* step of the rules as RulesPass collected them, as far as errors go.
ImplementsFlow == Flow!Spec
=============================================================================
