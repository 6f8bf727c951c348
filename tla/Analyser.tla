------------------------------- MODULE Analyser -------------------------------
(***************************************************************************)
(* The engine and the program it analyses: once the engine has its result, *)
(* the program takes any of its paths, and every point it comes to is      *)
(* compared with what the analyser reads there.                            *)
(***************************************************************************)
EXTENDS Summaries, PushdownPaths, PathSums

CONSTANT Owner   \* symbol |-> the entry symbol of its function, as its name says

\* Some rule leads to s.
Led(rules, s) == \E r \in rules : s \in {r.to[i] : i \in 1 .. Len(r.to)}

\* What RulesPass makes sure of: a call enters a function at its entry and comes
\* back to the caller.  Any other rule stays in its function, unless it starts a
\* function of a library, or ends at exit.0, which no rule leaves.
ASSUME SymbolsOwned ==
    /\ Owner[Start] = Start
    /\ \A rules \in Programs : \A r \in rules :
          /\ IsPush(r) => Owner[r.to[1]] = r.to[1] /\ Owner[r.to[2]] = Owner[r.from]
          /\ IsStep(r) => \/ Owner[r.to[1]] = Owner[r.from]
                          \/ r.from = Start /\ ~Led(rules, Start) /\ Owner[r.to[1]] = r.to[1] /\ r.weight = One
                          \/ \A q \in rules : q.from # r.to[1]

\* Every basis keeps the constants, and no rule assigns to one (getWeight).
ASSUME ConstantsKept ==
    \A rules \in Programs : \A r \in rules : IdentityOn(Constants) \subseteq r.weight

vars == <<engineVars, pathVars>>

Init == EngineInit /\ PathInit

Next ==
    \/ EngineNext /\ UNCHANGED pathVars
    \/ phase = "done" /\ PathNext /\ UNCHANGED <<saturationVars, phase, solveVars>>

\* The engine is one thread that runs to its end; nothing makes a program take
\* another step.
Spec == Init /\ [][Next]_vars /\ WF_vars(EngineNext /\ UNCHANGED pathVars)

-----------------------------------------------------------------------------
(* Correctness.                                                            *)

\* Type correctness of the engine's automaton and graph.
TypeOK ==
    /\ \A t \in trans : t \in Transition /\ t[1] = P
    /\ worklist \subseteq trans /\ sources \subseteq trans
    /\ \A ret \in DOMAIN returns :
          ret \in Transition /\ ret[1] # P /\ ret[2] # Epsilon
    /\ \A ret \in DOMAIN returns : returns[ret].call \in trans /\ returns[ret].weight \in Weight
    /\ \A e \in intra : {e[1], e[2]} \subseteq Nodes /\ e[3] \in Weight
    /\ \A h \in hyper : h[1] \in DOMAIN returns /\ h[2] \in trans /\ h[2][2] = Epsilon
    /\ DOMAIN merged \subseteq hyper /\ \A h \in DOMAIN merged : merged[h] \in Weight
    /\ DOMAIN outWeight \subseteq trans
    /\ phase \in {"saturate", "solve", "done"}

\* The state that the i-th open call leads to: that of its callee, and accept
\* before any call.
Entered(i) == IF i = 0 THEN Accept ELSE GenState(frames[i].rule.to[1])

\* The state of the present activation; <<P, point, Context>> stands for the
\* program's present point.
Context == Entered(Len(frames))

PathWeight == Extend(prefix, weight)

\* Post* finds every reachable stack: at any time after saturation the
\* automaton accepts the program's stack, symbol by symbol (WPDS::post,
\* poststar_handle_trans, poststar_handle_eps_trans in whatever order).
StackAccepted ==
    phase # "saturate" =>
        /\ <<P, point, Context>> \in trans
        /\ \A i \in 1 .. Len(frames) :
              <<Entered(i), frames[i].rule.to[2], Entered(i - 1)>> \in DOMAIN returns

\* Every path counts: the weight that the engine gives a point in a context
\* holds the weight of every path that comes there, whatever order components
\* and out nodes were saturated in (InterGraph::saturate, MergeError::apply_f).
EveryPathCounts ==
    phase = "done" /\ point # Epsilon =>
        PathWeight \subseteq result[<<P, point, Context>>]

\* Main.cpp keeps one transition for each stack symbol and forgets the others,
\* those of the outermost activation of a function that is also called.  No
\* error is lost by it: whichever way a symbol is reached that a rule starts from,
\* and with it a program point, an error that the path brings there is in the one
\* weight the report is made from.
NoErrorForgotten ==
    phase = "done" /\ RulesFrom(point) # {} =>
        PathWeight \cap (Variables \X (Errors \cup TentativeErrors)) \subseteq PointWeight(point)

\* The engine comes to a result, with recursion and loops too: weights only
\* grow, and a summary that did not change is not propagated again.
ResultComes == <>(phase = "done")

-----------------------------------------------------------------------------
(* The engine implements the abstract analyser.                            *)

StateOf(context) == IF context = << >> THEN Accept ELSE GenState(context[1])
TransitionAt(x) == <<P, x[1], StateOf(x[2])>>

\* What the engine would answer at this moment, a transition that is not there being zero.
Answered ==
    IF phase # "done" THEN << >>
    ELSE [x \in Symbols \X Contexts |->
            LET t == TransitionAt(x) IN IF t \in DOMAIN result THEN result[t] ELSE Zero]

Abstract == INSTANCE JoinOverPaths WITH answer <- Answered

\* The engine refines the abstract analyser: saturation, components and worklists
\* do not show, and the answer that comes is exactly the join over all paths, at
\* every point and in every context (FWPDS::poststarIGR, InterGraph, WFA::path_summary).
ImplementsJoin == Abstract!JoinSpec

-----------------------------------------------------------------------------
(* Why it is right.                                                        *)

PathType ==
    /\ point \in Symbols \cup {Epsilon}
    /\ frames \in Seq([rule : program, before : Weight, prefix : Weight])
    /\ \A i \in 1 .. Len(frames) : IsPush(frames[i].rule)
    /\ weight \in Weight /\ prefix \in Weight
    /\ phase # "done" => point = Start /\ frames = << >> /\ weight = One /\ prefix = One

\* The weights of the path are in those of the nodes it went through, in the
\* present activation and in the suspended ones.
PathCounted ==
    phase = "done" =>
        LET solution == NodeWeights
            summary == PathSummary(solution)
        IN  /\ weight \subseteq solution[<<P, point, Context>>]
            /\ prefix \subseteq summary[Context]
            /\ \A i \in 1 .. Len(frames) :
                  /\ frames[i].before \subseteq solution[<<P, frames[i].rule.from, Entered(i - 1)>>]
                  /\ frames[i].prefix \subseteq summary[Entered(i - 1)]

\* The inductive invariant of the engine and the program: the edges of the graph are
\* there, their weights are settled, and the path goes along them.
AnalyserInv ==
    SaturationInv /\ SolveInv /\ PathType /\ StackAccepted /\ PathCounted

-----------------------------------------------------------------------------
(* Why it is no more than that.                                            *)

\* Post* enters a context only by a call, and a transition stands for a place
\* that some path comes to.
OnlyReached == trans \subseteq {TransitionAt(x) : x \in Reached}

\* A call is never given more than what its callee does on all its paths.
MergedBelow ==
    phase # "saturate" =>
        \E sum \in {Sums} : \A h \in hyper :
            LET r == returns[h[1]].rule
            IN  merged[h] \subseteq Merge(One, r.weight, sum[<<Epsilon, <<r.to[1]>> >>], r.callee)

\* The inductive invariant of precision: with it every weight of the engine is
\* below the equations of the join, whatever has been propagated so far.
PrecisionInv == OnlyReached /\ MergedBelow
=============================================================================
