----------------------------- MODULE BranchSafety -----------------------------
(***************************************************************************)
(* Which variables a block may take to hold no error code.  The pass looks *)
(* at each conditional branch of a function once; afterwards the function  *)
(* runs on concrete integers, and what the pass says of a block is         *)
(* compared with what the variables hold when a run enters it.             *)
(***************************************************************************)
EXTENDS Integers, FiniteSets

CONSTANTS
    Blocks, Entry,  \* the basic blocks of the function, and the first
    Vars,           \* its variables
    Values,         \* the integers that variables hold
    CodeLists,      \* the error codes that the pass may be given
    Functions       \* the control-flow graphs that the function may have

VARIABLES
    error_names,    \* the error codes
    graph,          \* the function: block |-> its stores and its terminator
    phase,          \* "analyse", "run"
    unvisited,      \* blocks whose branch has not been visited
    safe_values,    \* block |-> variables that hold no error code in it
    block,          \* the block that the run has come to
    store           \* what the variables hold there

vars == <<error_names, graph, phase, unvisited, safe_values, block, store>>

Predicates == {"SLT", "SLE", "SGT", "SGE", "EQ", "NE", "ULT"}

\* The branch compares `var`, or IS_ERR(var), with `num`, which is the right
\* operand or the left one.
BranchType ==
    [kind : {"branch"}, predicate : Predicates, var : Vars, is_err : BOOLEAN, num : Int,
     right_constant : BOOLEAN, to : [{"T", "F"} -> Blocks]]

\* Before it comes to its terminator, a block stores in some variables.
BlockType ==
    [stores : SUBSET Vars, end : BranchType \cup [kind : {"goto"}, to : Blocks] \cup {[kind |-> "return"]}]

ASSUME ValuesType == Values \subseteq Int

\* The blocks that a terminator leads to.
Targets(end) ==
    CASE end.kind = "branch" -> {end.to["T"], end.to["F"]}
      [] end.kind = "goto" -> {end.to}
      [] end.kind = "return" -> {}

\* Nothing leads to the first block of a function, and IS_ERR returns a truth value,
\* which is only asked for.
IsFunction(f) ==
    /\ f \in [Blocks -> BlockType]
    /\ \A b \in Blocks : Entry \notin Targets(f[b].end)
    /\ \A b \in Blocks :
          f[b].end.kind = "branch" /\ f[b].end.is_err => f[b].end.predicate \in {"EQ", "NE"} /\ f[b].end.num = 0

ASSUME FunctionsType == Entry \in Blocks /\ \A f \in Functions : IsFunction(f)

\* Error codes have one sign, and zero is none (runOnModule aborts on it).
ASSUME CodesType ==
    \A codes \in CodeLists :
        /\ codes # {} /\ codes \subseteq Int
        /\ (\A c \in codes : c < 0) \/ (\A c \in codes : c > 0)

Init ==
    /\ error_names \in CodeLists
    /\ graph \in Functions
    /\ phase = "analyse"
    /\ unvisited = {b \in Blocks : graph[b].end.kind = "branch"}
    /\ safe_values = [b \in Blocks |-> {}]
    /\ block = Entry
    /\ store \in [Vars -> Values]

-----------------------------------------------------------------------------
(* The pass.                                                               *)

Positive == \A c \in error_names : c > 0

Successors(b) == Targets(graph[b].end)

Flip(direction) == CASE direction = "T" -> "F" [] direction = "F" -> "T" [] OTHER -> "N"

\* Mutant: which side the constant stands on is not looked at.
DirectionLeftOnly(t) ==
    CASE t.predicate \in {"SLT", "SLE"} -> "F"
      [] t.predicate \in {"SGT", "SGE"} -> "T"
      [] t.predicate = "EQ" /\ t.num = 0 -> "T"
      [] t.predicate = "NE" /\ t.num = 0 -> "F"
      [] OTHER -> "N"

\* The switch on the predicate, for codes that are negative.
Direction(t) ==
    CASE t.predicate \in {"SLE", "SLT"} -> IF t.right_constant THEN "F" ELSE "T"
      [] t.predicate \in {"SGT", "SGE"} -> IF t.right_constant THEN "T" ELSE "F"
      [] t.predicate = "EQ" /\ t.num = 0 -> "T"
      [] t.predicate = "NE" /\ t.num = 0 -> "F"
      [] OTHER -> "N"

\* Mutant: positive codes are compared as if they were negative.
NoPositiveSwitch(t) == Direction(t)

SafeBranch(t) ==
    IF Positive /\ t.predicate \in {"SLE", "SLT", "SGT", "SGE"} THEN Flip(Direction(t)) ELSE Direction(t)

\* Mutant: both branches may become safe.
NeverJoins(safe, notsafe) == FALSE

\* The block that is safe is also a successor of the one that is not.
Joins(safe, notsafe) == safe \in Successors(notsafe)

VisitBranchInst(b) ==
    /\ phase = "analyse" /\ b \in unvisited
    /\ unvisited' = unvisited \ {b}
    /\ LET t == graph[b].end
           direction == SafeBranch(t)
       IN  safe_values' =
               IF t.num \in error_names \cup {0} /\ direction # "N"
                    /\ ~Joins(t.to[direction], t.to[Flip(direction)])
               THEN [safe_values EXCEPT ![t.to[direction]] = @ \cup {t.var}]
               ELSE safe_values
    /\ UNCHANGED <<error_names, graph, phase, block, store>>

EndPass ==
    /\ phase = "analyse" /\ unvisited = {}
    /\ phase' = "run"
    /\ UNCHANGED <<error_names, graph, unvisited, safe_values, block, store>>

-----------------------------------------------------------------------------
(* The function runs.                                                      *)

Compare(predicate, a, b) ==
    CASE predicate = "SLT" -> a < b
      [] predicate = "SLE" -> a <= b
      [] predicate = "SGT" -> a > b
      [] predicate = "SGE" -> a >= b
      [] predicate = "EQ" -> a = b
      [] predicate = "NE" -> a # b
      [] predicate = "ULT" -> IF (a < 0) = (b < 0) THEN a < b ELSE b < 0

\* What the test of a branch says when its variable holds n.
Holds(t, n) ==
    LET operand == IF ~t.is_err THEN n ELSE IF n \in error_names THEN 1 ELSE 0
    IN  IF t.right_constant THEN Compare(t.predicate, operand, t.num)
        ELSE Compare(t.predicate, t.num, operand)

Leave(s) ==
    LET end == graph[block].end
    IN  CASE end.kind = "branch" -> block' = end.to[IF Holds(end, s[end.var]) THEN "T" ELSE "F"]
          [] end.kind = "goto" -> block' = end.to
          [] end.kind = "return" -> FALSE

RunBlock ==
    /\ phase = "run"
    /\ \E s \in [Vars -> Values] :
          /\ \A v \in Vars \ graph[block].stores : s[v] = store[v]
          /\ store' = s
          /\ Leave(s)
    /\ UNCHANGED <<error_names, graph, phase, unvisited, safe_values>>

Next ==
    \/ \E b \in Blocks : VisitBranchInst(b)
    \/ EndPass
    \/ RunBlock

Spec == Init /\ [][Next]_vars

-----------------------------------------------------------------------------
(* Correctness.                                                            *)

\* The test of block m makes its variable safe in the block of that direction.
MakesSafe(m, direction) ==
    LET t == graph[m].end
    IN  /\ t.kind = "branch" /\ t.num \in error_names \cup {0}
        /\ direction = SafeBranch(t) /\ direction # "N"
        /\ ~Joins(t.to[direction], t.to[Flip(direction)])

Ordered == {"SLT", "SLE", "SGT", "SGE"}

\* One direction of the branch of m leads to b, the other elsewhere; order is asked for
\* with zero, error codes are only compared for equality.
OneWayTo(m, b) ==
    LET t == graph[m].end
    IN  /\ t.kind = "branch" /\ b \in Successors(m) /\ t.to["T"] # t.to["F"]
        /\ t.predicate \in Ordered => t.num = 0

\* Block b is entered by one branch only, or comes after an if whose body is one block.
AfterIf(b) ==
    \E m \in Blocks :
        /\ OneWayTo(m, b)
        /\ \A n \in Blocks :
              b \in Successors(n) => n = m \/ (n \in Successors(m) \ {b} /\ graph[n].end.kind = "goto")

\* Whatever leads to b is a branch that makes v safe there.
TestedOnEntry(b, v) ==
    \A n \in Blocks :
        b \in Successors(n) =>
            /\ OneWayTo(n, b) /\ graph[n].end.var = v
            /\ \E d \in {"T", "F"} : MakesSafe(n, d) /\ graph[n].end.to[d] = b

\* A variable that is safe in a block holds no error code when a run enters the
\* block: RulesPass gives it OK there, and an error that it did hold would never be
\* reported.  So it is in a block that is entered by tests of the variable only, and in
\* one that comes after an if with a body of one block, whatever else the function
\* does (safe_values, visitBranchInst).
SafeWhereTested ==
    phase = "run" =>
        \A v \in safe_values[block] : AfterIf(block) \/ TestedOnEntry(block, v) => store[v] \notin error_names

\* The same of every block, as the comment on safe_values says it ("Values that we know
\* are not ECs in a block").  It does not hold where another way leads to the block,
\* such as a body of two blocks, which visitBranchInst does not see; nor where order
\* is asked for with a code.
SafeMeansSafe ==
    phase = "run" => \A v \in safe_values[block] : store[v] \notin error_names

\* The integers that bring a run through the branch in a direction.
Passing(t, direction) == {n \in Values \cup error_names : Holds(t, n) <=> direction = "T"}

\* What a test establishes is used: if no error code can take one direction of
\* a signed comparison with zero, the variable is safe in the block it leads
\* to, unless the other successor leads there directly (the switch on the
\* predicate, in which eight cases and the sign of the codes meet).
TestsRecognised ==
    phase = "run" =>
        \A b \in Blocks, direction \in {"T", "F"} :
            LET t == graph[b].end
            IN  /\ t.kind = "branch" /\ t.num = 0 /\ t.predicate # "ULT"
                /\ Passing(t, direction) \cap error_names = {}
                /\ ~Joins(t.to[direction], t.to[Flip(direction)])
                => t.var \in safe_values[t.to[direction]]

-----------------------------------------------------------------------------
(* Why they hold.                                                          *)

SafetyType ==
    /\ error_names \in CodeLists /\ IsFunction(graph)
    /\ phase \in {"analyse", "run"}
    /\ unvisited \subseteq {b \in Blocks : graph[b].end.kind = "branch"}
    /\ phase = "analyse" => block = Entry
    /\ phase = "run" => unvisited = {}
    /\ safe_values \in [Blocks -> SUBSET Vars]
    /\ block \in Blocks /\ store \in [Vars -> Values]

\* A variable is safe in a block exactly because of a test that was visited.
SafeByTest ==
    /\ \A b \in Blocks : \A v \in safe_values[b] : \E m \in Blocks, d \in {"T", "F"} :
          MakesSafe(m, d) /\ b = graph[m].end.to[d] /\ v = graph[m].end.var
    /\ \A m \in Blocks \ unvisited, d \in {"T", "F"} :
          MakesSafe(m, d) => graph[m].end.var \in safe_values[graph[m].end.to[d]]

\* The inductive invariant of the pass and of the run after it: what is safe was made
\* so by a test that the pass visited, and no error is held where only such tests lead
\* (visitBranchInst, and the comparison of predecessors there).
SafetyInv == SafetyType /\ SafeByTest /\ SafeWhereTested
=============================================================================
