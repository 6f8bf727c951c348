------------------------------- MODULE Poststar -------------------------------
(***************************************************************************)
(* The first half of FWPDS::poststarIGR: saturate the automaton without    *)
(* weights, and record in the InterGraph how the weight of each transition *)
(* depends on the weights of others.                                       *)
(*                                                                         *)
(* A transition <<from, symbol, to>> of the automaton is a node of the     *)
(* graph.  The worklist is a set: the order in which the engine takes the  *)
(* transitions off it is left open.                                        *)
(***************************************************************************)
EXTENDS ErrorPds

VARIABLES
    trans,        \* the transitions of the output automaton that leave p
    worklist,     \* those that post has not handled yet
    sources,      \* nodes whose weight is one to begin with
    intra,        \* weighted edges <<node, node, weight>> of the IntraGraphs
    returns,      \* its other transitions, from generated states, and the call of each
    hyper         \* hyper edges <<return transition, epsilon transition>>

saturationVars == <<trans, worklist, sources, intra, returns, hyper>>

P == <<"p">>
Accept == <<"accept">>
GenState(s) == <<"p", s>>

InitialTransition == <<P, Start, Accept>>

States == {GenState(s) : s \in Symbols} \cup {Accept}
\* A transition that leaves p, and any transition.
PTransition == {P} \X (Symbols \cup {Epsilon}) \X States
Transition == ({P} \cup States) \X (Symbols \cup {Epsilon}) \X States

SaturationInit ==
    /\ LoadProgram
    /\ trans = {InitialTransition}
    /\ worklist = {InitialTransition}
    /\ sources = {InitialTransition}
    /\ intra = {}
    /\ returns = << >>
    /\ hyper = {}

-----------------------------------------------------------------------------

\* The states that calls have entered, and accept.
EnteredStates == {Accept} \cup {ret[1] : ret \in DOMAIN returns}

\* What rule r makes of transition t, and the transition it returns to.
Target(t, r) ==
    IF IsPop(r) THEN <<P, Epsilon, t[3]>>
    ELSE IF IsStep(r) THEN <<P, r.to[1], t[3]>>
    ELSE <<P, r.to[1], GenState(r.to[1])>>

ReturnOf(t, r) == <<GenState(r.to[1]), r.to[2], t[3]>>

\* Mutant: the return transition stands where it came from.
ClosureInPlace(h) == h[1]

\* The target of a hyper edge: epsilon composed with the return transition.
Closure(h) == <<P, h[1][2], h[1][3]>>

\* Mutant: eps_map is read without its key.
AnyEpsilon(state) == {e \in trans : e[2] = Epsilon}

EpsilonsTo(state) == {e \in trans : e[2] = Epsilon /\ e[3] = state}

\* Mutant: a new return transition does not look at the epsilons already there.
NoMeeting(t) == {}

\* update_prime says "modified": the return transition is new, and meets the
\* epsilon transitions of callees that have already returned (eps_map).
Meetings(t) ==
    UNION {{ReturnOf(t, r)} \X EpsilonsTo(GenState(r.to[1])) :
              r \in {r \in RulesFrom(t[2]) : IsPush(r) /\ ReturnOf(t, r) \notin DOMAIN returns}}

\* update: a transition that is new goes on the worklist.
Update(t, new) ==
    /\ trans' = trans \cup new
    /\ worklist' = (worklist \ {t}) \cup (new \ trans)

AddHyperEdges(edges) == hyper' = hyper \cup edges

\* addCallRetEdge: the call that a return transition depends on.  A second
\* call of the same return transition only adds its weight.
AddReturns(t, pushes) ==
    LET Of(ret) == CHOOSE r \in pushes : ReturnOf(t, r) = ret
        added == {ReturnOf(t, r) : r \in pushes}
    IN  returns' = [ret \in DOMAIN returns \cup added |->
            IF ret \notin DOMAIN returns
            THEN [call |-> t, weight |-> Of(ret).weight, rule |-> Of(ret)]
            ELSE IF ret \in added
            THEN [returns[ret] EXCEPT !.weight = Combine(@, Of(ret).weight)]
            ELSE returns[ret]]

\* post of an ordinary transition: every rule of its configuration
\* (poststar_handle_trans).
PostSymbol(t) ==
    /\ t \in worklist /\ t[2] # Epsilon
    /\ LET rules == RulesFrom(t[2])
           pushes == {r \in rules : IsPush(r)}
       IN  /\ Update(t, {Target(t, r) : r \in rules} \cup {Closure(h) : h \in Meetings(t)})
           /\ sources' = sources \cup {Target(t, r) : r \in pushes}
           /\ intra' = intra \cup {<<t, Target(t, r), r.weight>> : r \in rules \ pushes}
                             \cup {<<t, ReturnOf(t, r), One>> : r \in pushes}
           /\ AddReturns(t, pushes)
           /\ AddHyperEdges(Meetings(t))
    /\ UNCHANGED program

\* post of an epsilon transition: it composes with every return transition of
\* its function found so far (poststar_handle_eps_trans).
PostEpsilon(t) ==
    /\ t \in worklist /\ t[2] = Epsilon
    /\ LET meetings == {u \in DOMAIN returns : u[1] = t[3]} \X {t}
       IN  /\ Update(t, {Closure(h) : h \in meetings})
           /\ AddHyperEdges(meetings)
    /\ UNCHANGED <<program, sources, intra, returns>>

Saturate == \E t \in worklist : PostSymbol(t) \/ PostEpsilon(t)

-----------------------------------------------------------------------------
(* What saturation keeps true, in whatever order it works.                 *)

SaturationType ==
    /\ LoadProgram
    /\ trans \subseteq PTransition
    /\ worklist \subseteq trans /\ InitialTransition \in trans
    /\ \A t \in trans : t[3] \in EnteredStates

\* What post makes of transition t with rule r is there.
Handled(t, r) ==
    /\ Target(t, r) \in trans
    /\ IsPush(r) =>
          /\ Target(t, r) \in sources
          /\ ReturnOf(t, r) \in DOMAIN returns /\ <<t, ReturnOf(t, r), One>> \in intra
    /\ ~IsPush(r) => <<t, Target(t, r), r.weight>> \in intra

\* Only what is on the worklist is still to be handled, and to be composed with
\* the return transitions.
AllHandled ==
    /\ InitialTransition \in sources
    /\ \A t \in trans \ worklist : \A r \in RulesFrom(t[2]) : Handled(t, r)
    /\ \A ret \in DOMAIN returns, e \in trans \ worklist :
          e[2] = Epsilon /\ e[3] = ret[1] => <<ret, e>> \in hyper

\* A return transition is that of one call, and a hyper edge composes it with
\* an epsilon transition of its function.
OneCallEach ==
    /\ \A ret \in DOMAIN returns : \E t \in trans : \E r \in RulesFrom(t[2]) :
          /\ IsPush(r) /\ ret = ReturnOf(t, r)
          /\ returns[ret] = [call |-> t, weight |-> r.weight, rule |-> r]
    /\ \A h \in hyper :
          /\ h = <<h[1], h[2]>> /\ h[1] \in DOMAIN returns /\ h[2] \in trans
          /\ h[2][2] = Epsilon /\ h[2][3] = h[1][1] /\ Closure(h) \in trans

\* Every edge and every source comes from a rule.
EdgesOfRules ==
    /\ \A e \in intra : \E t \in trans : \E r \in RulesFrom(t[2]) :
          /\ Handled(t, r)
          /\ e = IF IsPush(r) THEN <<t, ReturnOf(t, r), One>> ELSE <<t, Target(t, r), r.weight>>
    /\ \A s \in sources : s = InitialTransition \/
          \E t \in trans : \E r \in RulesFrom(t[2]) : IsPush(r) /\ Handled(t, r) /\ s = Target(t, r)

SaturationInv == SaturationType /\ AllHandled /\ OneCallEach /\ EdgesOfRules
=============================================================================
