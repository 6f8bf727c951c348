------------------------------ MODULE SamplePath ------------------------------
(***************************************************************************)
(* How a report gets its sample path.  Beside each weight the engine keeps *)
(* a witness, a tree that says how the weight was made.  FindPathVisitor   *)
(* walks down from a report's variable and error, at each node to the      *)
(* child from which the error came, and collects a message for each rule   *)
(* that it meets, last rule first.                                         *)
(***************************************************************************)
EXTENDS Rows, SequencesExt

ReturnNames == {Return[f] : f \in Functions} \ {NoReturn}
TentativeOf(e) == CHOOSE t \in TentativeErrors : Real[t] = e

\* getVariables: no errors, no OK and no UNINITIALIZED, by index.
VariablesIn(w, x) == SelectSeq(Order, LAMBDA y : y \in Row(w, x) \ Constants)
HasError(w, x, e) == <<x, e>> \in w.weight

-----------------------------------------------------------------------------
(* Witnesses.                                                              *)

WitnessOne == [kind |-> "one", weight |-> One]
WitnessZero == [kind |-> "zero", weight |-> Zero]

\* The rule's weight and line; `sets` gives each assigned variable its source.
WitnessRule(rule) ==
    [kind |-> "rule", line |-> rule.line,
     weight |-> FoldSet(LAMBDA x, w : Assign(w, x, rule.sets[x]), BasisWeight(rule.basis), DOMAIN rule.sets)]

\* Witness::extend leaves the unit out.
WitnessExtend(l, r) ==
    CASE l.kind = "one" -> r
      [] r.kind = "one" -> l
      [] OTHER -> [kind |-> "extend", weight |-> Extend(l.weight, r.weight), left |-> l, right |-> r]

\* Witness::combine keeps the node that has all of the weight already; of two such
\* nodes WitnessCombine prefers itself and the others the new one.
WitnessCombine(old, new) ==
    LET both == Combine(old.weight, new.weight)
    IN  CASE old.weight = Zero -> new
          [] new.weight = Zero -> old
          [] both = new.weight /\ ~(both = old.weight /\ old.kind = "combine") -> new
          [] both = old.weight -> old
          [] OTHER -> [kind |-> "combine", weight |-> both, children |-> <<old, new>>]

WitnessMerge(caller, rule, callee, f) ==
    [kind |-> "merge", weight |-> Merge(caller.weight, rule.weight, callee.weight, f),
     caller |-> caller, rule |-> rule, callee |-> callee, function |-> f]

-----------------------------------------------------------------------------
(* FindPathVisitor: a record of its fields, and of what the path has.      *)

\* Path::add, appendIfChanged.
Appended(list, message) ==
    IF list # << >> /\ Last(list) = message THEN list ELSE Append(list, message)

\* ErrorPropagation::getMessage, with its wording left out: a rule that leaves the
\* target alone only may have the error, any other hands it on.
Received(v, w) ==
    LET source == IF HasError(w, v.target, v.source) THEN v.source ELSE Least(Row(w.weight, v.target))
        idle == v.target = source \/ (source # v.error /\ source \in Constants)
    IN  [stops |-> ~idle /\ source = v.error, slice |-> ~idle,
         message |-> [line |-> w.line, target |-> v.target, source |-> IF idle THEN v.target ELSE source]]

\* What a visitor with another target or source has found is found for this one.
Asking(v, target, source) == [v EXCEPT !.target = target, !.source = source]
Found(v, other) ==
    [v EXCEPT !.complete = other.complete, !.path = other.path, !.slice = other.slice]

VisitRule(v, w) ==
    LET m == Received(v, w)
        said == w.line > 0 /\ (m.slice \/ v.target \notin ReturnNames)
    IN  IF v.complete THEN v
        ELSE [v EXCEPT !.complete = m.stops,
                       !.path = IF said THEN Appended(@, m.message) ELSE @,
                       !.slice = IF said /\ m.slice THEN Appended(@, m.message) ELSE @]

\* Mutant: the error keeps its name on the way into the callee.
AsOutside(v, w) == v

\* A callee's f$return whose error is tentative inside the callee and real outside.
Tentatively(v, w) ==
    IF /\ v.target \in ReturnNames /\ Return[w.function] # NoReturn /\ v.source \in Errors
       /\ ~HasError(w.callee, Return[w.function], v.source)
       /\ HasError(w.callee, Return[w.function], TentativeOf(v.source))
    THEN [v EXCEPT !.source = TentativeOf(v.source), !.error = TentativeOf(v.source)]
    ELSE v

RECURSIVE Visit(_, _), VisitFormals(_, _, _)

\* If the right part hands on something else than the error, `via` is where it
\* was before; if the left part does not have it either, the target had it.
VisitExtend(v, w) ==
    LET l == w.left
        r == w.right
        via == SelectSeq(VariablesIn(r.weight, v.target), LAMBDA y : HasError(l, y, v.source))
    IN  IF v.source = UNINITIALIZED THEN Visit(Visit(v, r), l)
        ELSE IF HasError(r, v.target, v.source)
        THEN LET after == Visit(v, r)
             IN  IF v.complete THEN v
                 ELSE IF after.complete THEN after
                 ELSE IF HasError(l, after.target, after.source) THEN Visit(after, l)
                 ELSE Found(after, Visit(Asking(after, after.target, after.target), l))
        ELSE IF via = << >> \/ v.complete THEN v
        ELSE LET after == Found(v, Visit(Asking(v, v.target, via[1]), r))
             IN  IF after.complete THEN after
                 ELSE Found(after, Visit(Asking(after, via[1], v.source), l))

\* The first child that has the error.
VisitCombine(v, w) ==
    LET found == SelectSeq(w.children, LAMBDA c : HasError(c, v.target, v.source))
    IN  IF v.complete \/ found = << >> THEN v ELSE Visit(v, found[1])

\* The target has its value from one of these formals or globals: the rule of the
\* call gave it the error, or handed on what the caller had before.
VisitFormals(v, w, formals) ==
    LET formal == formals[1]
        before == SelectSeq(VariablesIn(w.rule.weight, formal), LAMBDA y : HasError(w.caller, y, v.source))
        inCallee == Found(v, Visit(Asking(v, v.target, formal), w.callee))
        inRule(source) == Found(v, Visit(Asking(inCallee, formal, source), w.rule))
        rest == [i \in 1 .. Len(formals) - 1 |-> formals[i + 1]]
    IN  IF formals = << >> THEN v
        ELSE IF HasError(w.rule, formal, v.source) THEN inRule(v.source)
        ELSE IF before = << >> THEN VisitFormals(v, w, rest)
        ELSE VisitFormals(Found(v, Visit(Asking(inRule(before[1]), before[1], v.source), w.caller)), w, rest)

\* The callee's row of a local is never empty, and the first constant in it is taken.
VisitMerge(outside, w) ==
    LET v == Tentatively(outside, w)
        constant == Least(Row(w.callee.weight, v.target))
        localInCallee ==
            IF constant = UNINITIALIZED THEN v
            ELSE Found(v, Visit(Asking(v, v.target, constant), w.callee))
        globalInCallee == IF v.target = v.source THEN v ELSE Visit(v, w.callee)
        unlessComplete(u, witness) == IF u.complete THEN u ELSE Visit(u, witness)
    IN  CASE v.target \in Locals -> Visit(Visit(localInCallee, w.rule), w.caller)
          [] HasError(w.callee, v.target, v.source) ->
                unlessComplete(unlessComplete(globalInCallee, w.rule), w.caller)
          [] OTHER -> VisitFormals(v, w, VariablesIn(w.callee.weight, v.target))

Visit(v, w) ==
    CASE w.kind = "rule" -> VisitRule(v, w)
      [] w.kind = "extend" -> VisitExtend(v, w)
      [] w.kind = "combine" -> VisitCombine(v, w)
      [] w.kind = "merge" -> VisitMerge(v, w)
      [] OTHER -> v

\* The messages of a report about this error of this variable, in the order of the path.
SamplePath(witness, target, error) ==
    LET found == Visit([target |-> target, source |-> error, error |-> error,
                        complete |-> FALSE, path |-> << >>, slice |-> << >>], witness)
    IN  [path |-> Reverse(found.path), slice |-> Reverse(found.slice)]
=============================================================================
