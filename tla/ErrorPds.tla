------------------------------- MODULE ErrorPds -------------------------------
(***************************************************************************)
(* The weighted pushdown system that the frontend writes and the analyser  *)
(* reads: one control state, a stack symbol per program point, and a       *)
(* weight on every rule.  Push rules are calls, pop rules are returns.     *)
(***************************************************************************)
EXTENDS ErrorWeights, Naturals, Sequences, FiniteSets

CONSTANTS
    Symbols,      \* the stack symbols
    Epsilon,      \* WALI_EPSILON
    Start,        \* main.0, the stack of the query's initial automaton
    Programs      \* the rule sets under analysis

\* A rules file has finitely many symbols and variables, and so does a BDD domain.
ASSUME FiniteProgram == IsFiniteSet(Symbols) /\ IsFiniteSet(Var)

VARIABLE program  \* the rules the engine holds

\* A rule <p, from> -> <p, to>; callee is the function that a push rule enters.
RuleType ==
    [from : Symbols, to : {<< >>} \cup Seq(Symbols), weight : Weight, callee : Functions]

IsPop(r) == r.to = << >>
IsStep(r) == Len(r.to) = 1
IsPush(r) == Len(r.to) = 2

\* What RulesPass makes sure of: a return symbol is the return symbol of one
\* call instruction, and entering the same symbol is calling the same function.
ASSUME ProgramsType ==
    /\ Epsilon \notin Symbols /\ Start \in Symbols
    /\ \A rules \in Programs : rules \subseteq RuleType
    /\ \A rules \in Programs : \A r, q \in rules :
          /\ Len(r.to) <= 2
          /\ IsPush(r) /\ IsPush(q) /\ r.to[2] = q.to[2] => r.from = q.from
          /\ IsPush(r) /\ IsPush(q) /\ r.to[1] = q.to[1] => r.callee = q.callee
          /\ IsPush(r) /\ r.from = q.from /\ r.to = q.to => r = q

\* WPDS::make_rule: adding a rule that is there already combines the weights.
MakeRules(rules) ==
    {[r EXCEPT !.weight = UNION {q.weight : q \in {q \in rules : q.from = r.from /\ q.to = r.to}}]
        : r \in rules}

LoadProgram == program \in {MakeRules(rules) : rules \in Programs}
RulesFrom(s) == {r \in program : r.from = s}
=============================================================================
