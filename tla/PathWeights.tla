----------------------------- MODULE PathWeights -----------------------------
(***************************************************************************)
(* One interprocedural path of the program under analysis, seen twice:     *)
(* `store` is what its variables really hold, and `weight`, `prefix` and   *)
(* the frames of `stack` are the weights that the pushdown engine computes *)
(* for the same path, rule by rule and call by call.  The analysis is      *)
(* right when the second always explains the first.                        *)
(*                                                                         *)
(* The weight of a rule is built as the loop of ErrorPropagation::getWeight*)
(* builds it, one queued assignment at a time (phase "rule").              *)
(***************************************************************************)
EXTENDS ErrorWeights, Integers, Sequences

CONSTANTS
    Bases,        \* the bases that the rules of the program use
    Assignments,  \* the pairs <<to, from>> that they assign
    MaxDepth,     \* bound on the activations on the stack
    MaxRules,     \* bound on the rules of the path
    MaxAssigns,   \* bound on the assignments of the path's rules together
    RepeatTargets \* whether a rule may assign again to a variable it left as it was

VARIABLES
    phase,        \* "path": between two rules; "rule": inside getWeight
    store,        \* what each variable holds
    weight,       \* weight of the path inside the current activation
    entry,        \* store on entry to the current activation
    prefix,       \* weight of the path up to that entry
    stack,        \* the suspended activations, outermost first
    rule,         \* the weight under construction
    next,         \* the store after the rule under construction
    chosen,       \* variable |-> the source that `next` took it from in this rule
    branching,    \* a rule of the path assigned one variable twice
    rules, assigns\* counters, for the bounds

pathVars == <<store, weight, entry, prefix, stack>>
ruleVars == <<rule, next, chosen>>
vars == <<phase, pathVars, ruleVars, branching, rules, assigns>>

ASSUME RulesType ==
    /\ Bases \subseteq {"identity", "identityGlobals", "uninitialized"}
    /\ Assignments \subseteq Variables \X Var

ASSUME BoundsType ==
    /\ MaxDepth \in Nat /\ MaxRules \in Nat /\ MaxAssigns \in Nat
    /\ RepeatTargets \in BOOLEAN

\* What a variable holds: a code, and the activation that made it if it is an
\* error that has not yet been returned by the activation that made it (0: none).
Value == [code : Errors \cup {OK, UNINITIALIZED}, made : Nat]
Uninit == [code |-> UNINITIALIZED, made |-> 0]

Depth == Len(stack) + 1

\* What z stands for at the start of an activation at depth d with store s.
Meaning(z, s, d) ==
    IF z \in TentativeErrors THEN [code |-> Real[z], made |-> d]
    ELSE IF z \in Constants THEN [code |-> z, made |-> 0]
    ELSE s[z]

Init ==
    /\ phase = "path"
    /\ store = [x \in Variables |-> Uninit]
    /\ weight = One
    /\ entry = store
    /\ prefix = One
    /\ stack = << >>
    /\ rule = One
    /\ next = store
    /\ chosen = << >>
    /\ branching = FALSE
    /\ rules = 0
    /\ assigns = 0

-----------------------------------------------------------------------------
(* The weight of the next rule of the path.                                *)

BasisStore(basis) ==
    [x \in Variables |->
        IF basis = "uninitialized" \/ (basis = "identityGlobals" /\ x \in Locals)
        THEN Uninit ELSE store[x]]

BeginRule(basis) ==
    /\ phase = "path"
    /\ rules < MaxRules
    /\ phase' = "rule"
    /\ rule' = BasisWeight(basis)
    /\ next' = BasisStore(basis)
    /\ rules' = rules + 1
    /\ UNCHANGED <<pathVars, chosen, branching, assigns>>

\* The assignments of a rule are simultaneous: each reads the store before it.
\* Two of them to the same variable stand for a choice the program makes.
AssignInfo(to, from, take) ==
    /\ phase = "rule"
    /\ assigns < MaxAssigns
    /\ to \in DOMAIN chosen /\ ~RepeatTargets => chosen[to] \notin {to, UNINITIALIZED}
    /\ ~take => to \in DOMAIN chosen
    /\ rule' = Assign(rule, to, from)
    /\ next' = IF take THEN [next EXCEPT ![to] = Meaning(from, store, Depth)] ELSE next
    /\ chosen' = [x \in DOMAIN chosen \cup {to} |->
                    IF x = to /\ take THEN from ELSE chosen[x]]
    /\ branching' = (branching \/ to \in DOMAIN chosen)
    /\ assigns' = assigns + 1
    /\ UNCHANGED <<phase, pathVars, rules>>

-----------------------------------------------------------------------------
(* The rule is taken.                                                      *)

EndRule ==
    /\ phase = "rule"
    /\ phase' = "path"
    /\ rule' = One
    /\ next' = next
    /\ chosen' = << >>
    /\ store' = next
    /\ UNCHANGED <<branching, rules, assigns>>

Step ==
    /\ EndRule
    /\ weight' = Extend(weight, rule)
    /\ UNCHANGED <<entry, prefix, stack>>

Call(f) ==
    /\ EndRule
    /\ Depth < MaxDepth
    /\ stack' = Append(stack, [function |-> f, before |-> weight, rule |-> rule,
                               entry |-> entry, prefix |-> prefix, saved |-> next])
    /\ prefix' = Extend(prefix, Extend(weight, rule))
    /\ entry' = next
    /\ weight' = One

Top == stack[Len(stack)]
Pop == [i \in 1 .. Len(stack) - 1 |-> stack[i]]

\* The caller has its own locals again.  What f made now belongs to the
\* caller, and what f returns is from now on an error like any other.
AfterReturn(f, x) ==
    IF x \in Locals THEN Top.saved[x]
    ELSE IF store[x].made = Depth
         THEN [store[x] EXCEPT !.made = IF x = Return[f] THEN 0 ELSE Depth - 1]
    ELSE store[x]

ReturnFrom(f) ==
    /\ phase = "path"
    /\ stack # << >>
    /\ Top.function = f
    /\ weight' = Merge(Top.before, Top.rule, weight, f)
    /\ store' = [x \in Variables |-> AfterReturn(f, x)]
    /\ entry' = Top.entry
    /\ prefix' = Top.prefix
    /\ stack' = Pop
    /\ next' = store'
    /\ UNCHANGED <<phase, rule, chosen, branching, rules, assigns>>

Next ==
    \/ \E basis \in Bases : BeginRule(basis)
    \/ \E a \in Assignments, take \in BOOLEAN : AssignInfo(a[1], a[2], take)
    \/ Step
    \/ \E f \in Functions : Call(f) \/ ReturnFrom(f)

Spec == Init /\ [][Next]_vars

-----------------------------------------------------------------------------
(* Correctness.                                                            *)

FrameType ==
    [function : Functions, before : Weight, rule : Weight, entry : [Variables -> Value],
     prefix : Weight, saved : [Variables -> Value]]

\* Type correctness of the two views of the path.
TypeOK ==
    /\ phase \in {"path", "rule"}
    /\ store \in [Variables -> Value]
    /\ entry \in [Variables -> Value]
    /\ next \in [Variables -> Value]
    /\ weight \in Weight
    /\ prefix \in Weight
    /\ rule \in Weight
    /\ stack \in Seq(FrameType)
    /\ DOMAIN chosen \subseteq Variables
    /\ \A x \in DOMAIN chosen : chosen[x] \in Var
    /\ branching \in BOOLEAN
    /\ rules \in 0 .. MaxRules
    /\ assigns \in 0 .. MaxAssigns

\* w explains how, in an activation at depth d, store `from` became store `to`.
Explains(w, from, to, d) ==
    \A x \in Variables : \E z \in Var : <<x, z>> \in w /\ to[x] = Meaning(z, from, d)

\* u, a source of a weight of the whole path, stands for the value v: no
\* variable holds anything when the program starts.
Denotes(u, v) ==
    IF u \in TentativeErrors THEN v.code = Real[u] /\ v.made # 0
    ELSE IF u \in Constants THEN v = [code |-> u, made |-> 0]
    ELSE v = Uninit

\* The weight that a report at this point reads (ProgramPoint::calculateWeight).
PathWeight == Extend(prefix, weight)

\* Soundness inside an activation: whatever a variable holds, the weight of the
\* activation says where it came from.  A callee's summary is used for every
\* caller on the strength of this (MergeError::apply_f, ErrorPropagation::extend).
SummarySound == Explains(weight, entry, store, Depth)

\* Soundness of a report: an error that a variable holds is in the weight at
\* that point, under its tentative name exactly while the function that made
\* it has not returned it, through any nesting of calls and recursion.
ReportSound ==
    \A x \in Variables : \E u \in Var : <<x, u>> \in PathWeight /\ Denotes(u, store[x])

\* Precision of a report: on a path of rules that assign each variable at most
\* once, the weight holds nothing but what the variables hold, so that every
\* false report comes from joining paths and none from a single one.
ReportPrecise ==
    ~branching =>
        \A x \in Variables, u \in Var : <<x, u>> \in PathWeight => Denotes(u, store[x])

\* A rule that assigns a variable twice stands for either assignment: phi and
\* return rules list all the values a variable may take (Names.cpp visitPHINode,
\* Rules.cpp visitReturnInst), and the weight of the rule must keep each.
EitherValueKept ==
    phase = "rule" => \A x \in DOMAIN chosen : <<x, chosen[x]>> \in rule

-----------------------------------------------------------------------------
(* The inductive invariant: every activation, the suspended ones included, *)
(* is explained by its weights.                                            *)

\* Constants hold themselves in every weight.
ConstantRows(w) == \A c \in Constants, z \in Var : <<c, z>> \in w <=> z = c

\* No value of s was made by an activation deeper than d.
MadeUpTo(s, d) == \A x \in Variables : s[x].made <= d

ExplainsOnly(w, from, to, d) ==
    \A x \in Variables, z \in Var : <<x, z>> \in w => to[x] = Meaning(z, from, d)

ReachedFrom(p, s) == \A x \in Variables : \E u \in Var : <<x, u>> \in p /\ Denotes(u, s[x])

ReachedOnlyFrom(p, s) ==
    \A x \in Variables, u \in Var : <<x, u>> \in p => Denotes(u, s[x])

\* The activation at depth d: entered with store e after a path of weight p,
\* now at store s after a path of weight w of its own.
ActivationInv(d, e, p, w, s) ==
    /\ ConstantRows(p) /\ ConstantRows(w)
    /\ MadeUpTo(e, d - 1) /\ MadeUpTo(s, d)
    /\ ReachedFrom(p, e) /\ Explains(w, e, s, d)
    /\ ~branching => ReachedOnlyFrom(p, e) /\ ExplainsOnly(w, e, s, d)

FrameInv(k) ==
    LET a == stack[k]
    IN  /\ ActivationInv(k, a.entry, a.prefix, Extend(a.before, a.rule), a.saved)
        /\ a.saved = IF k = Len(stack) THEN entry ELSE stack[k + 1].entry

RuleInv ==
    /\ ConstantRows(rule)
    /\ MadeUpTo(next, Depth)
    /\ Explains(rule, store, next, Depth)
    /\ \A x \in DOMAIN chosen :
          <<x, chosen[x]>> \in rule /\ next[x] = Meaning(chosen[x], store, Depth)
    /\ ~branching =>
          /\ ExplainsOnly(rule, store, next, Depth)
          /\ \A x \in Variables \ DOMAIN chosen, z \in Var :
                <<x, z>> \in rule => z \in {x, UNINITIALIZED}

PathInv ==
    /\ TypeOK
    /\ ActivationInv(Depth, entry, prefix, weight, store)
    /\ \A k \in 1 .. Len(stack) : FrameInv(k)
    /\ phase = "rule" => RuleInv
    /\ phase = "path" => chosen = << >>
=============================================================================
