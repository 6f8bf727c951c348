----------------------------- MODULE ErrorWeights -----------------------------
(***************************************************************************)
(* The weight domain of the error-propagation analysis.                    *)
(*                                                                         *)
(* A weight is a relation between variables: <<x, z>> \in w says that on   *)
(* some path x may hold, at the end of the path, what z held at its start. *)
(* The code keeps a weight as a BDD over two finite domains (ErrorPropa-   *)
(* gation.cpp); here it is the set of pairs that the BDD stands for.       *)
(* Error codes, OK and UNINITIALIZED are variables too: constants that no  *)
(* program assigns to.                                                     *)
(***************************************************************************)
CONSTANTS
    Errors,         \* the error codes of the program under analysis
    TentativeErrors,\* the names TENTATIVE_<code>
    Real,           \* mapTentativeToReal: the code of each tentative name
    OK,
    UNINITIALIZED,
    Globals,        \* the global variables, exchange variables included
    Locals,         \* the local variables of all functions
    Functions,      \* the functions of the program under analysis
    Return,         \* Return[f]: f$return, the exchange variable of f
    NoReturn        \* Return[f] of a function that returns no value

Constants == Errors \cup TentativeErrors \cup {OK, UNINITIALIZED}
Variables == Globals \cup Locals
Var == Constants \cup Variables

ASSUME ConstantsDistinct ==
    /\ Errors \cap TentativeErrors = {}
    /\ OK \notin Errors \cup TentativeErrors
    /\ UNINITIALIZED \notin Errors \cup TentativeErrors \cup {OK}

ASSUME VariablesDistinct ==
    /\ Constants \cap Variables = {}
    /\ Globals \cap Locals = {}

ASSUME RealType == Real \in [TentativeErrors -> Errors]

ASSUME ReturnType ==
    /\ NoReturn \notin Var
    /\ Return \in [Functions -> Globals \cup {NoReturn}]

Weight == SUBSET (Var \X Var)

-----------------------------------------------------------------------------
(* The semiring: SemElem of WALi as ErrorPropagation implements it.        *)

IdentityOn(S) == {<<x, x>> : x \in S}

One == IdentityOn(Var)
Zero == {}

\* Mutant: the operands of the relational product swapped.
ExtendReversed(first, second) ==
    {<<j[1][1], j[2][2]>> : j \in {j \in first \X second : j[1][2] = j[2][1]}}

\* first.extend(second): run first, then second.
Extend(first, second) ==
    {<<j[1][1], j[2][2]>> : j \in {j \in second \X first : j[1][2] = j[2][1]}}

Combine(a, b) == a \cup b

-----------------------------------------------------------------------------
(* The weight of a rule: ErrorPropagation::getWeight starts from a basis   *)
(* and then drains a queue of assignments.                                 *)

LocalsToUninitialized == Locals \X {UNINITIALIZED}

BasisWeight(basis) ==
    CASE basis = "identity" -> One
      [] basis = "identityGlobals" ->
            IdentityOn(Globals) \cup IdentityOn(Constants) \cup LocalsToUninitialized
      [] basis = "uninitialized" ->
            (Globals \X {UNINITIALIZED}) \cup IdentityOn(Constants) \cup LocalsToUninitialized

\* Mutant: the row that the basis holds for `to` survives.
AssignKeepingBasis(weight, to, from) == weight \cup {<<to, from>>}

\* Mutant: an assignment replaces whatever the rule already assigned.
AssignReplacing(weight, to, from) == {p \in weight : p[1] # to} \cup {<<to, from>>}

\* One WeightInfo "to := from" off the queue.  It removes what a basis may
\* hold for `to`, not what an earlier assignment of the same rule put there.
Assign(weight, to, from) ==
    (weight \ {<<to, to>>, <<to, UNINITIALIZED>>}) \cup {<<to, from>>}

-----------------------------------------------------------------------------
(* MergeError::apply_f, the merge function of a call rule.                 *)

\* Mutant: f$return keeps the tentative names.
MakeNothingReal(weight, f) == weight

\* A tentative error that f returns is one that f has made: from here on it
\* is an error its caller received.
MakeReal(weight, f) ==
    {<<p[1], IF p[1] = Return[f] /\ p[2] \in TentativeErrors THEN Real[p[2]] ELSE p[2]>>
        : p \in weight}

\* Mutant: the callee's rows for locals are not replaced.
CalleeEffectOnLocals(summary, f) == MakeReal(summary, f)

\* What the caller keeps of the callee's summary.
CalleeEffect(summary, f) ==
    MakeReal({p \in summary : p[1] \in Globals} \cup IdentityOn(Locals) \cup IdentityOn(Constants), f)

Merge(before, rule, summary, f) == Extend(Extend(before, rule), CalleeEffect(summary, f))
=============================================================================
