------------------------------ MODULE Summaries ------------------------------
(***************************************************************************)
(* The second half of FWPDS::poststarIGR and the query on its result: the  *)
(* InterGraph is split into IntraGraphs, these into strongly connected     *)
(* components, and the components are saturated one after the other        *)
(* (InterGraph::setupInterSolution, saturate); then WFA::path_summary gives*)
(* the states of the automaton their weights and Main.cpp picks one        *)
(* transition for each stack symbol.                                       *)
(*                                                                         *)
(* The solver inside one IntraGraph (IntraGraph, RegExp) is taken for what *)
(* it computes: the join over the paths from the source nodes.             *)
(***************************************************************************)
EXTENDS Poststar, Fixpoints

VARIABLES
    phase,        \* "saturate", "solve", "done"
    pending,      \* the components that are not saturated yet, each a set of IntraGraphs
    current,      \* the component being saturated
    outWork,      \* its out nodes, epsilon transitions, that are on the worklist
    outWeight,    \* out node |-> the weight last propagated from it
    merged,       \* hyper edge |-> weight of the updatable edge that stands for it
    result        \* transition |-> weight at that point in that context

solveVars == <<pending, current, outWork, outWeight, merged, result>>
engineVars == <<program, saturationVars, phase, solveVars>>

EngineInit ==
    /\ SaturationInit
    /\ phase = "saturate"
    /\ pending = {} /\ current = {} /\ outWork = {}
    /\ outWeight = << >> /\ merged = << >> /\ result = << >>

-----------------------------------------------------------------------------
(* The graphs.                                                             *)

Nodes == trans \cup DOMAIN returns

\* Everything reached from S along the pairs of R.
ReachedAlong(S, R) ==
    Repeated([T \in SUBSET (S \cup {e[2] : e \in R}) |->
                 T \cup {e[2] : e \in {e \in R : e[1] \in T}}], S)

\* The IntraGraphs: nodes joined by intra edges, and by the return transition
\* and the target of a hyper edge (UnionFind::takeUnion).
Links == {<<e[1], e[2]>> : e \in intra} \cup {<<h[1], Closure(h)>> : h \in hyper}

GraphOf(n) == ReachedAlong({n}, Links \cup {<<l[2], l[1]>> : l \in Links})

IntraGraphs == {GraphOf(n) : n \in Nodes}

OutNodes(graph) == graph \cap {h[2] : h \in hyper}

\* Graph a has an out node whose weight is needed in graph b.
Feeds(a, b) == \E h \in hyper : h[2] \in a /\ Closure(h) \in b

Components ==
    LET graphs == IntraGraphs
        feeds == {f \in graphs \X graphs : Feeds(f[1], f[2])}
        onward == [a \in graphs |-> ReachedAlong({a}, feeds)]
    IN  {{b \in graphs : b \in onward[a] /\ a \in onward[b]} : a \in graphs}

\* What the start weights become along weighted edges <<node, node, weight>>.
LeastSolution(edges, start) ==
    Repeated([weights \in [DOMAIN start -> Weight] |-> [n \in DOMAIN start |->
                 weights[n] \cup UNION {Extend(weights[e[1]], e[3]) : e \in {e \in edges : e[2] = n}}]],
             start)

\* The edges of an IntraGraph; a hyper edge is an updatable edge of it.
EdgesInto(graph) ==
    {e \in intra : e[2] \in graph}
        \cup {<<h[1], Closure(h), merged[h]>> : h \in {h \in hyper : Closure(h) \in graph}}

\* The weights of the nodes of one graph.
Solution(graph) ==
    LeastSolution(EdgesInto(graph), [n \in graph |-> IF n \in sources THEN One ELSE Zero])

-----------------------------------------------------------------------------

StartSolve ==
    /\ phase = "saturate" /\ worklist = {}
    /\ phase' = "solve"
    /\ pending' = Components
    /\ merged' = [h \in hyper |-> Zero]
    /\ UNCHANGED <<program, saturationVars, current, outWork, outWeight, result>>

\* Mutant: components are taken as they come.
AnyOrder(c) == TRUE

\* SCC numbers the components callees first: whatever feeds c is finished.
CalleesFinished(c) ==
    \A d \in pending \ {c} : \A a \in d, b \in c : ~Feeds(a, b)

StartComponent(c) ==
    /\ phase = "solve" /\ outWork = {}
    /\ c \in pending /\ CalleesFinished(c)
    /\ pending' = pending \ {c}
    /\ current' = c
    /\ outWork' = UNION {OutNodes(graph) : graph \in c}
    /\ UNCHANGED <<program, saturationVars, phase, outWeight, merged, result>>

\* Mutant: the out nodes of the graphs that use a summary are not redone.
NothingToRedo(n) == {}

\* Whoever uses the weight of out node n inside the component works again.
ToRedo(n) ==
    UNION {OutNodes(graph) : graph \in
              {graph \in current : \E h \in hyper : h[2] = n /\ Closure(h) \in graph}}

\* Mutant: every weight is taken for a new one.
NeverPropagated(n, weight) == FALSE

\* Mutant: a weight that was propagated once is not compared.
PropagatedOnce(n, weight) == n \in DOMAIN outWeight

Propagated(n, weight) == n \in DOMAIN outWeight /\ outWeight[n] = weight

\* saturate: the weight of an out node goes through the merge function of
\* every call that returns there, unless it is what was propagated last.
Propagate(n) ==
    /\ phase = "solve" /\ n \in outWork
    /\ LET graph == CHOOSE graph \in current : n \in graph
           weight == Solution(graph)[n]
       IN  IF Propagated(n, weight)
           THEN outWork' = outWork \ {n} /\ UNCHANGED <<outWeight, merged>>
           ELSE /\ outWork' = (outWork \ {n}) \cup ToRedo(n)
                /\ outWeight' = [m \in DOMAIN outWeight \cup {n} |->
                                    IF m = n THEN weight ELSE outWeight[m]]
                /\ merged' = [h \in hyper |->
                      IF h[2] = n
                      THEN LET r == returns[h[1]].rule IN Merge(One, r.weight, weight, r.callee)
                      ELSE merged[h]]
    /\ UNCHANGED <<program, saturationVars, phase, pending, current, result>>

-----------------------------------------------------------------------------
(* What the analyser reads.                                                *)

\* InterGraph::get_weight: a return transition is the call and its rule.
GetWeight(solution, t) ==
    IF t \in DOMAIN returns
    THEN Extend(solution[returns[t].call], returns[t].weight)
    ELSE solution[t]

\* WFA::path_summary on a REVERSE automaton: accept is one, and a state adds
\* up its transitions, each after the state it leads to.
PathSummary(solution) ==
    LeastSolution({<<t[3], t[1], GetWeight(solution, t)>> : t \in DOMAIN returns},
                  [q \in EnteredStates |-> IF q = Accept THEN One ELSE Zero])

\* The weight of every node.
NodeWeights ==
    Only({[n \in Nodes |-> (CHOOSE weights \in solutions : n \in DOMAIN weights)[n]] :
             solutions \in {{Solution(graph) : graph \in IntraGraphs}}})

\* ProgramPoint::calculateWeight for every transition that leaves p.
ReadResult(solution, summary) ==
    [t \in {t \in trans : t[2] # Epsilon} |-> Extend(summary[t[3]], solution[t])]

Finish ==
    /\ phase = "solve" /\ pending = {} /\ outWork = {}
    /\ phase' = "done"
    /\ \E solution \in {NodeWeights} : \E summary \in {PathSummary(solution)} :
          result' = ReadResult(solution, summary)
    /\ UNCHANGED <<program, saturationVars, pending, current, outWork, outWeight, merged>>

EngineNext ==
    \/ phase = "saturate" /\ Saturate /\ UNCHANGED <<phase, solveVars>>
    \/ StartSolve
    \/ \E c \in pending : StartComponent(c)
    \/ \E n \in outWork : Propagate(n)
    \/ Finish

-----------------------------------------------------------------------------
(* What solving keeps true, in whatever order components and out nodes come. *)

SolveType ==
    /\ phase \in {"saturate", "solve", "done"}
    /\ phase = "saturate" => solveVars = <<{}, {}, {}, << >>, << >>, << >>>>
    /\ phase # "saturate" =>
          /\ worklist = {}
          /\ DOMAIN merged = hyper /\ \A h \in hyper : merged[h] \in Weight
          /\ UNION pending \subseteq IntraGraphs /\ current \subseteq IntraGraphs
          /\ outWork \subseteq UNION {OutNodes(graph) : graph \in current}
          /\ \A n \in DOMAIN outWeight : n \in trans /\ outWeight[n] \in Weight
    /\ phase # "done" => result = << >>
    /\ phase = "done" => pending = {} /\ outWork = {} /\
          result = ReadResult(NodeWeights, PathSummary(NodeWeights))

\* No component that is still to come feeds one that has begun.
CalleesFirst ==
    phase # "saturate" =>
        \A a \in (UNION pending) \cup current, b \in IntraGraphs \ UNION pending :
            Feeds(a, b) => {a, b} \subseteq current \ UNION pending

\* What the merge functions were given is the weight that the out node has now,
\* unless it is on the worklist.
Settled ==
    phase # "saturate" =>
        /\ \A h \in hyper : h[2] \in DOMAIN outWeight =>
              merged[h] = LET r == returns[h[1]].rule
                          IN  Merge(One, r.weight, outWeight[h[2]], r.callee)
        /\ \A graph \in IntraGraphs \ UNION pending : \A n \in OutNodes(graph) \ outWork :
              n \in DOMAIN outWeight /\ outWeight[n] = Solution(graph)[n]

SolveInv == SolveType /\ CalleesFirst /\ Settled

-----------------------------------------------------------------------------
(* The transition that Main.cpp keeps for a stack symbol.                  *)

TransitionsOf(s) == {t \in DOMAIN result : t[2] = s}

\* Mutant: the first transition of a symbol stays in mapTrans.
FirstTransition(s) ==
    CHOOSE t \in TransitionsOf(s) :
        t[3] # Accept => \A u \in TransitionsOf(s) : u[3] # Accept

\* mapTrans[s]: transitions are inserted in the order of their keys and the
\* last one stays.  Keys of generated states are made after that of accept.
MapTrans(s) ==
    CHOOSE t \in TransitionsOf(s) :
        t[3] = Accept => \A u \in TransitionsOf(s) : u[3] = Accept

\* The weight that a program point at stack symbol s is processed with.
PointWeight(s) == result[MapTrans(s)]
=============================================================================
