----------------------------- MODULE RuleReader -----------------------------
(***************************************************************************)
(* ErrorPropagationHandler, as the parser drives it: one call per element, *)
(* with flags and sets that the elements of a rule fill, which createPoint *)
(* reads, and has to empty, when EWpdsHandler comes to the rule's end.     *)
(* What was read is known here by the rule it was read in.                 *)
(***************************************************************************)
EXTENDS Naturals, Sequences

CONSTANTS
    Files,       \* the rules files, each a sequence of rules
    OptionSets   \* the command lines, each a set of options

VARIABLES
    options,   \* the options given
    file,      \* the rules file
    at,        \* the rule that is read
    child,     \* the child elements of it that are read, Weight being the first
    pending,   \* the elements e whose flag inE is up
    read,      \* element |-> rules whose variables are in the element's set
    targets,   \* rules whose untrusted assignments are in targets
    line,      \* the rule whose source element gave line and file; 0 for none
    points     \* programPoints

vars == <<options, file, at, child, pending, read, targets, line, points>>

\* The elements that may become a program point, as createPoint goes through
\* them, and the option that asks for each.
Chain == <<"return", "iserr", "dereference", "operand", "handled", "input", "output", "pred">>
ChainElements == {Chain[i] : i \in DOMAIN Chain}
OptionOf(e) ==
    CASE e \in {"dereference", "operand"} -> "dereference"
      [] e \in {"input", "output"} -> "input_output"
      [] e = "pred" -> "predicates"
      [] OTHER -> e

Elements == ChainElements \cup {"set", "trusted_set", "source"}
RuleType == [kind : {"step", "push", "pop"}, children : Seq(Elements)]

ASSUME FilesType ==
    /\ \A f \in Files : f \in Seq(RuleType) /\ f # << >>
    /\ \A given \in OptionSets : given \subseteq {OptionOf(e) : e \in ChainElements} \cup {"no_assignment"}

Init ==
    /\ options \in OptionSets
    /\ file \in Files
    /\ at = 1 /\ child = 0
    /\ pending = {}
    /\ read = [e \in ChainElements |-> {}]
    /\ targets = {} /\ line = 0
    /\ points = {}

Children == file[at].children

-----------------------------------------------------------------------------

\* Variables are added to a set, except that return keeps one value; the same
\* value is where handleOutput puts its variable on the way.
Collected(e) == [read EXCEPT ![e] = IF e = "return" THEN {at} ELSE @ \cup {at}]

\* handleWeight: the location of the rule before is forgotten.
ReadWeight ==
    /\ at <= Len(file) /\ child = 0
    /\ child' = 1
    /\ line' = 0
    /\ UNCHANGED <<options, file, at, pending, read, targets, points>>

\* startElement and endElement of another child of the rule.
ReadChild ==
    /\ at <= Len(file) /\ child \in DOMAIN Children
    /\ child' = child + 1
    /\ LET e == Children[child]
       IN  CASE e \in {"set", "trusted_set"} ->
                  /\ pending' = pending \cup {"set"}
                  /\ targets' = IF e = "set" THEN targets \cup {at} ELSE targets
                  /\ UNCHANGED <<read, line>>
             [] e = "source" ->
                  line' = at /\ UNCHANGED <<pending, read, targets>>
             [] OTHER ->
                  /\ pending' = pending \cup {e}
                  /\ read' = Collected(e)
                  /\ UNCHANGED <<targets, line>>
    /\ UNCHANGED <<options, file, at, points>>

AtRuleEnd == at <= Len(file) /\ child = Len(Children) + 1

Enabled(e) == OptionOf(e) \in options /\ e \in pending

Point(e, held) == [element |-> e, rule |-> at, vars |-> held, line |-> line]

\* Mutant: the flag stays up, and the set full, after the point is made.
Unreset(e) == UNCHANGED <<pending, read>>

\* return has no set to clear.
Reset(e) ==
    /\ pending' = pending \ {e}
    /\ read' = IF e = "return" THEN read ELSE [read EXCEPT ![e] = {}]

NoOtherAnalysis == options \cap {"return", "dereference", "iserr", "handled", "input_output"} = {}

\* createPoint, which finds heldTargets in targets: the first branch that
\* applies makes its point and resets its own flag; the others are not looked at.
CreatePoint(heldTargets) ==
    IF \E e \in ChainElements : Enabled(e)
    THEN \E i \in DOMAIN Chain :
            /\ Enabled(Chain[i]) /\ \A j \in 1..(i - 1) : ~Enabled(Chain[j])
            /\ points' = points \cup {Point(Chain[i], read[Chain[i]])}
            /\ Reset(Chain[i])
    ELSE /\ UNCHANGED read
         /\ IF NoOtherAnalysis /\ "set" \in pending /\ heldTargets # {}
            THEN /\ pending' = pending \ {"set"}
                 /\ points' = IF "no_assignment" \in options THEN points
                              ELSE points \cup {Point("set", heldTargets)}
            ELSE UNCHANGED <<pending, points>>

NextRule == at' = at + 1 /\ child' = 0 /\ UNCHANGED <<options, file, line>>

\* Mutant: getWeight comes first and clears the targets.
EndPlainRuleWeightFirst ==
    /\ AtRuleEnd /\ file[at].kind # "push"
    /\ CreatePoint({})
    /\ targets' = {}
    /\ NextRule

\* Mutant: getWeight leaves the targets to the next rule.
EndPlainRuleTargetsStay ==
    /\ AtRuleEnd /\ file[at].kind # "push"
    /\ CreatePoint(targets)
    /\ UNCHANGED targets
    /\ NextRule

\* End of a step or pop rule: getWeight(msgcode, fromStkKey).
EndPlainRule ==
    /\ AtRuleEnd /\ file[at].kind # "push"
    /\ CreatePoint(targets)
    /\ targets' = {}
    /\ NextRule

\* End of a push rule: getWeight() clears targets, then getMergeFn makes the point.
EndPushRule ==
    /\ AtRuleEnd /\ file[at].kind = "push"
    /\ CreatePoint({})
    /\ targets' = {}
    /\ NextRule

Next == ReadWeight \/ ReadChild \/ EndPlainRule \/ EndPushRule
Spec == Init /\ [][Next]_vars

-----------------------------------------------------------------------------
(* Properties.                                                             *)

Has(i, e) == \E n \in DOMAIN file[i].children : file[i].children[n] = e

\* Nothing of one rule turns up in the point of another: the point's variables
\* and its location were read in the rule whose weight it will be asked with
\* (createPoint resets only the flag of the branch it takes).
PointMatchesRule ==
    \A p \in points :
        /\ p.vars = {p.rule} /\ Has(p.rule, p.element)
        /\ p.line = IF Has(p.rule, "source") THEN p.rule ELSE 0

\* What an option asks to look at is looked at: every rule that has been read
\* left a point for its elements and, in the default analysis, for its
\* untrusted assignments unless it is a call.
PointsComplete ==
    \A i \in 1..(at - 1) :
        /\ \A e \in ChainElements :
              Has(i, e) /\ OptionOf(e) \in options => \E p \in points : p.rule = i /\ p.element = e
        /\ Has(i, "set") /\ options = {} /\ file[i].kind # "push" =>
              \E p \in points : p.rule = i /\ p.element = "set"

-----------------------------------------------------------------------------
(* Why they hold when one analysis is asked for.                           *)

\* No rule of a file has two elements that the options given ask for.
AskedOnceOf(rules, given) ==
    \A i \in DOMAIN rules, e, d \in ChainElements :
        /\ OptionOf(e) \in given /\ OptionOf(d) \in given
        /\ \E m, n \in DOMAIN rules[i].children : rules[i].children[m] = e /\ rules[i].children[n] = d
        => e = d

OneAnalysisAsked == \A f \in Files, given \in OptionSets : AskedOnceOf(f, given)

\* Element e of the present rule has been read.
Begun(e) == at <= Len(file) /\ \E n \in DOMAIN Children : n < child /\ Children[n] = e

\* The state between two calls of the handler.
ReaderType ==
    /\ options \in OptionSets /\ file \in Files /\ AskedOnceOf(file, options)
    /\ at \in 1 .. (Len(file) + 1)
    /\ child \in Nat /\ (at <= Len(file) => child <= Len(Children) + 1) /\ (at > Len(file) => child = 0)
    /\ pending \subseteq ChainElements \cup {"set"}
    /\ read \in [ChainElements -> SUBSET Nat]
    /\ \A p \in points : p.rule \in 1 .. (at - 1)

\* Of what is asked for, and of the untrusted assignments, the flags and sets say
\* what has been read of the present rule and nothing of an earlier one.  The
\* others are never emptied and never looked at.
FlagsExact ==
    /\ \A e \in ChainElements : OptionOf(e) \in options =>
          /\ e \in pending <=> Begun(e)
          /\ Begun(e) => read[e] = {at}
          /\ e # "return" /\ ~Begun(e) => read[e] = {}
    /\ targets = IF Begun("set") THEN {at} ELSE {}
    /\ Begun("set") => "set" \in pending
    /\ child > 0 => line = IF Begun("source") THEN at ELSE 0

\* The inductive invariant of the reader: after each call the flags are those of
\* the rule being read, and the points those of the rules before (createPoint,
\* getWeight and handleWeight, which each empty a part).
ReaderInv == ReaderType /\ FlagsExact /\ PointMatchesRule /\ PointsComplete
=============================================================================
