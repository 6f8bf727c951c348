------------------------------ MODULE Reports ------------------------------
(***************************************************************************)
(* The sample paths of reports: beside the weights of Points the engine    *)
(* has a witness for each of them, from which a report takes the path that *)
(* it prints (SamplePath).                                                 *)
(***************************************************************************)
EXTENDS Points, SamplePath

VARIABLE witness   \* like engine, with a witness for each weight

reportVars == <<vars, witness>>

WitnessStart == [own |-> WitnessZero, before |-> WitnessOne, calls |-> << >>]

WitnessRuns(w) == [witness EXCEPT !.own = w]

WitnessCalls(rule, f) ==
    [own |-> WitnessOne,
     before |-> WitnessExtend(witness.before, WitnessExtend(witness.own, WitnessRule(rule))),
     calls |-> Append(witness.calls, [caller |-> witness.own, before |-> witness.before,
                                      rule |-> WitnessRule(rule), function |-> f])]

WitnessReturns ==
    LET call == Last(witness.calls)
    IN  [own |-> WitnessMerge(call.caller, call.rule, witness.own, call.function),
         before |-> call.before, calls |-> Front(witness.calls)]

\* The witness of the weight of a point here.
WitnessHere == WitnessExtend(witness.before, witness.own)

ReportsInit == Init /\ witness = WitnessStart

\* The choices are combined one after the other.
OneOf(rules) == FoldLeft(LAMBDA w, rule : WitnessCombine(w, WitnessRule(rule)), WitnessZero, rules)

ReportsNext ==
    \/ \E rule \in Programs[program].paths :
          /\ Join(rule)
          /\ witness' = WitnessRuns(WitnessCombine(witness.own, WitnessExtend(WitnessRule(MainRule), WitnessRule(rule))))
    \/ \E part \in Programs[program].rules :
          TakeRules(part) /\ witness' = WitnessRuns(WitnessExtend(witness.own, OneOf(part.ways)))
    \/ \E part \in Programs[program].calls :
          TakeCall(part) /\ witness' = WitnessCalls(part.rule, part.calls)
    \/ TakeReturn /\ witness' = WitnessReturns
    \/ \E p \in Programs[program].points : Process(p) /\ UNCHANGED witness

ReportsSpec == ReportsInit /\ [][ReportsNext]_reportVars

-----------------------------------------------------------------------------
(* Correctness.                                                            *)

\* The tree from which sample paths are taken stands for the weight that the reports
\* are taken from, however getWeight's queue, joins and merges came to it.
WitnessStands == runs # {} => WitnessHere.weight = weight

\* A list of lines that occurs, in this order, in another.
RECURSIVE Within(_, _)
Within(some, all) ==
    \/ some = << >>
    \/ /\ all # << >>
       /\ Within(IF Head(some) = Head(all) THEN Tail(some) ELSE some, Tail(all))

\* The sample path of a report is one that the program can take: there is a run
\* that brings this error to the variable, the path has rules of this run in
\* their order, the slice has all steps of the error from the rule that made it
\* to the variable, and nothing else but what this run did with the same error
\* (FindPathVisitor, which decides at each node by the weights of its children).
SampleTold ==
    point # NoPoint =>
        \A r \in {r \in reports : r.type # "ISERRWARN"} : \E run \in runs :
            LET flow == run.store[r.target].flow
                sample == SamplePath(WitnessHere, r.target, r.error)
                moves == FlattenSeq([i \in DOMAIN run.moves |-> SetToSeq(run.moves[i])])
                sameError == SelectSeq(moves, LAMBDA m : m[1] = flow[1])
            IN  /\ In(run, r.target) = r.error
                /\ Within([i \in DOMAIN sample.path |-> sample.path[i].line], run.lines)
                /\ Within(flow, sample.slice)
                /\ Within(sample.slice, [i \in DOMAIN sameError |-> Last(sameError[i])])
=============================================================================
