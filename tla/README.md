# Verification of the MPI error-propagation analyser

This directory holds TLA+ models of the tool in `src/src`, the configurations that check them with
TLC, and theorems about them that TLAPS proves.  `PROJECT.json` lists the runs, the mutants that
show that each property can fail, the source lines behind every definition, the hazards the
properties are for, and the disagreements between the code and its comments that turned up.

The tool reads LLVM bitcode and reports where an MPI error code is overwritten, dropped, returned
or used without having been looked at.  It is a pipeline of three programs:

    bitcode --> frontend --> rules.xml --> compress-wpds --> rules.xml --> main --> reports
                (names, branch safety,     (chains of idle                (post*, summaries,
                 rules, name graph)         rules removed)                 program points)

What makes it right is one sentence: **if, on some path of the program, a variable holds an error
code when control comes to a point, the weight that the analyser reads at that point has that
error in the variable's row** (soundness), and nothing that no path has (precision).  The models
cut this sentence along the pipeline.

## Inventory

### The weight domain (`post/main/ErrorPropagation.cpp`, `MergeError.cpp`)
*State:* none of its own; a weight is a relation between variables, a BDD over two finite domains.
Constants (codes, tentative codes, `OK`, `UNINITIALIZED`) are variables too.
*Operations:* `one`, `zero`, `extend` (composition, operands reversed), `combine` (union),
`getWeight` (a basis, then a queue of assignments), `MergeError::apply_f` (a call: the callee's
rows for locals are replaced, tentative errors of `f$return` become real).
*Hard:* the order of operands, rows of the basis that must go, several assignments to one variable,
when exactly a tentative error stops being tentative in recursion.
*Right if:* the semiring laws hold, and a path's weight explains the concrete store.

### The engine (`wpds/Source/wali`: WPDS, EWPDS, FWPDS, InterGraph, WFA)
*State:* the rules; the automaton that post* saturates; its worklist; the InterGraph (weighted
edges, hyper edges between return and epsilon transitions); the components of it, their worklist
and the weight last propagated from each out node; the weights of the automaton's states.
*Operations:* `make_rule`, `poststar_handle_trans`, `poststar_handle_eps_trans`, `update`,
`setupInterSolution`, `saturate`, `get_weight`, `path_summary`.
*Hard:* one thread, but every order comes from hash tables and pointers: an epsilon transition can
come before or after the call it returns to; recursion makes out nodes depend on each other; the
answer must not depend on any of it and must be reached.
*Right if:* whatever the order, it ends with the join over all paths, no more and no less.

### Query and reports (`post/main/Main.cpp`, `ProgramPoint.cpp`, `Assignment.cpp`, `Return.cpp`, `Values.cpp`, ...)
*State:* `mapTrans` (a transition for each stack symbol), the list of points.
*Operations:* build `mapTrans`, `calculateWeight`, `process` of each kind of point.
*Hard:* several transitions have one symbol and one is kept; a report is about one error chosen
from a join of paths; "must" and "may".
*Right if:* no error is forgotten by `mapTrans`, a lost error is reported, lists and types agree.

### Rule reader (`ErrorPropagationHandler.cpp`, `EWpdsHandler.cpp`)
*State:* a flag per element kind, sets of variables, targets, line and file; all survive a rule.
*Operations:* a call for each start and end of an element; `createPoint` and `getWeight` at the end.
*Hard:* everything a rule fills has to be emptied before the next one, in the right order, and the
branch that empties it is only one of nine.
*Right if:* each point is made of its own rule and no rule that was asked for is missing.

### compress-wpds (`InitializeCounters.cpp`, `CountRules.cpp`, `CompressRules.cpp`, `PrintRules.cpp`)
*State:* two counters and a key per symbol, the open chain (`oldKey`, `newKey`, `previousToStack1`).
*Operations:* four passes over the same file, one handler call per rule.
*Hard:* chains are taken out by decrementing and restoring counters.
*Right if:* the file that comes out does what the file that went in does.

### Frontend (`post/irllvm-wpds-xml`)
*State:* `NamesPass` names values; `BranchSafetyPass` finds blocks in which a tested variable holds no
error; `RulesPass` keeps, while it goes through a function, the symbol the next rule starts from
(`prev`), a counter of dummy symbols and the temporaries for unsaved results; `NameGraph` is a graph
of all assignments.
*Operations:* a visit for each kind of instruction, which writes rules; the chain between two blocks,
which gives safe variables `OK`; the searches from error codes; `NameGraph::filter`, which drops
assignments to variables that no error can reach.
*Hard:* a value has no place of its own, its rule reads the variable it is named after, at the time of
use; a phi and a call through a pointer are choices, each with its own symbols; the predicates
with both operand orders and both signs of error codes; joins after a test; filtering by the
whole program's assignments what a single rule says.
*Right if:* every execution is a run of the rules with the same errors in its variables, a variable
that is called safe holds no error, and filtering changes no error anywhere.

### Sample paths (`witness/*.cpp` of WALi, `post/main/FindPathVisitor.cpp`, `Path.cpp`)
*State:* a witness for each weight, the tree that says how it was made; while a report is printed,
the variable and error that are followed and the messages found.
*Operations:* extend, combine and merge of witnesses; a visit for each kind of node.
*Hard:* the visitor decides at each node by the weights of the children alone; names of errors change
on the way into a call.
*Right if:* the path that is printed is a path of the program, and the slice the way of the error on it.

### Not part of the core
The formatters (`Message*`), the trace generator (`DataflowWali`, `Traces`,
`tracegen`), the fault-injection and report scripts, unused parts of WALi, BuDDy, MPICH, the stored
results.  See "Not modelled".

## Modules

| Module | Models | State and actions |
|---|---|---|
| `ErrorWeights` | the weight domain | operators: `Extend`, `Combine`, `Assign` (one turn of `getWeight`'s loop), `BasisWeight`, `Merge` |
| `PathWeights` | one path of a program, concrete and abstract side by side | `store` against `weight`, `prefix`, `stack`; `BeginRule`/`AssignInfo` (getWeight), `Step`, `Call`, `ReturnFrom` |
| `Fixpoints` | a worklist or a regular expression, by what it computes | operator `Repeated`: a step applied until it changes nothing |
| `ErrorPds` | the rules as the engine holds them | `MakeRules` |
| `Poststar` | saturation of the automaton and construction of the InterGraph | `PostSymbol`, `PostEpsilon` |
| `Summaries` | solving the InterGraph, reading the answer, `mapTrans` | `StartSolve`, `StartComponent`, `Propagate`, `Finish` |
| `PushdownPaths` | a path of the rules, the thing to be joined | `TakeStep`, `TakePush`, `TakePop` |
| `PathSums` | the join over all paths as the least solution of equations over the rules, with no automaton and no graph | operators: `Reached`, `Sums`, `Entries`, `Join` |
| `Analyser` | the engine composed with a program; it implements `JoinOverPaths` | engine first, then any path |
| `JoinOverPaths` | abstract: what the engine promises | `Answer` (the join, at once), `Move` |
| `CompressWpds` | compress-wpds | `Count`, `RemoveRule`, `KeepRule`, `PrintRule` |
| `RuleReader` | the reader | `ReadWeight`, `ReadChild`, `EndPlainRule`, `EndPushRule` |
| `Rows` | reading a row of a weight, and the least index in it | operators: `Row`, `Least` |
| `Points` | the runs of a program, the weight the engine has for them, points and what they report | `Join` (a path arrives), `TakeRules` (a rule, or a choice), `TakeCall`, `TakeReturn`, `Process` |
| `SamplePath` | witnesses and the search in them | operators: `WitnessExtend`, `WitnessCombine`, `WitnessMerge`, `Visit...` |
| `Reports` | the witness that the engine has beside each weight of `Points`, and the paths that reports print | the actions of `Points`, each with what it does to `witness` |
| `RulesPass` | the rules of a function, then an execution beside the runs of the rules | `BeginFunction`, `EnterBlock`, `Visit...Inst`, `LeaveBlock`; `Start`, `RunValue`, `RunStore`, `RunCall`, `RunReturn`, `Jump` |
| `NameGraph` | NameGraph and a program run on both rule lists; it implements `ErrorFlow` | `Construct`, `StartSearch`, `Examine`, `FilterRule`, `Run` |
| `ErrorFlow` | abstract: what a program without a filter does with errors | `held`, the error of each variable; `Assign`, the assignments of a rule at once |
| `BranchSafety` | BranchSafetyPass and the function it looked at | `VisitBranchInst`, `EndPass`, `RunBlock` |
| `ErrorWeights_proofs`, `PathWeights_proofs`, `Points_proofs`, `Analyser_proofs`, `CompressWpds_proofs`, `NameGraph_proofs`, `RuleReader_proofs`, `BranchSafety_proofs` | theorems | |

`MC*` modules only give constants their values.  `PathWeights`, and `Points` and
`SamplePath` by way of `Rows`, extend `ErrorWeights`; `Reports` puts `SamplePath` on top of `Points`; `Poststar`, `Summaries` and `PushdownPaths` build on `ErrorPds`, and `Analyser` composes the last
two; it states its precision with the equations of `PathSums`, which are also those of `JoinOverPaths`.  `PathWeights` and `PushdownPaths` compute a path's weight in the same way (an activation's own
weight, a prefix, and suspended callers).  This links two results: the engine's answer is the join
of path weights (`Analyser`), and a path weight explains the store (`PathWeights`).

Conventions: BDDs are sets of pairs.  A worklist is a set and an arbitrary element is taken, because
the code's order is that of hash tables and pointers.  XML elements, names and codes are members of
small sets.  The solver inside one IntraGraph (regular expressions over its edges) is taken for the
least solution it computes.  A definition with a comment that starts with "Mutant:" is not part of a
model: it is the plausible bug with which a property is shown to fail.

## Runs

| Run | What it asks | Bounds, and why they are enough |
|---|---|---|
| `path` | `SummarySound`, `ReportSound`, `ReportPrecise`, `EitherValueKept`, and the inductive `PathInv` | three rules with three assignments in any of them, also several in one and two to one variable; three activations (tentative errors go through two returns and recursion); a function with a return value and one without; a global, a local, `f$return`, one code with its tentative name |
| `path_repeat` | the same `EitherValueKept` when a rule assigns `x := x` before another value | violated, see Findings |
| `analyser` | `StackAccepted`, `EveryPathCounts`, `NoErrorForgotten`, `ImplementsJoin`, `ResultComes`, and the inductive `AnalyserInv` and `PrecisionInv` | five programs: recursion with a loop, mutual recursion, a chain of calls with an indirect one and one that never returns, calls on both branches, a library started in any function; paths of any length with up to four open calls |
| `compress` | `SameBehaviour`, `SequenceIntact`, and the inductive `CompressInv` | all files of five different rules out of twelve, in all orders: loops, joins, calls, a test without a line and every reason to keep a rule |
| `reader` | `PointMatchesRule`, `PointsComplete`, and the inductive `ReaderInv` | all files of four rules of the seven shapes that RulesPass writes; each command line that asks for one analysis |
| `reader_both` | `PointMatchesRule` with `--return --input-output` | violated |
| `reports` | `OverwriteFound`, `TentativeKeptApart`, `EveryReturnedError`, `MustUnlessUninitialized`, `WarnedIfIdle`, `WitnessStands`, `SampleTold`, `RowsExact`, and the inductive `PointsInv` | program "joins": three paths join, a variable and a temporary, two codes and their tentative names; three paths tell "all", "some" and "none" apart. Program "calls": one or two paths through a loop of calls `f(x)`, `f(f(x))`, `h()`, where `f` has choices, a loop and calls `h`; thirteen parts, enough for an error to pass through two returns and twice through the loop |
| `name_graph` | `SameErrors`, `PointsKept`, `ImplementsFlow`, and the inductive `FilterInv` | all lists of three out of fourteen rules over three variables and two codes: cycles, chains, choices, swaps |
| `rules` | `ExecutionFollowed`, `RulesExact`, `UnsavedKept`, `OperandsNamed`, `ReturnToOneCaller` | functions of two out of twelve statements, one after the other (also as `main` and as a library function), on both sides of a branch, one in a loop, one before a phi; calls by name, through a pointer with two callees, with one that is only declared and with one that is no function; four temporaries are more than any of them asks for |
| `branch_safety` | `SafeWhereTested`, `TestsRecognised`, and the inductive `SafetyInv` | functions of four blocks and up to two branches, their blocks joined in any way, with loops; every predicate, both operand orders, both signs, comparisons with codes too, values from -2 to 2 around codes of one sign |
| `branch_joins` | `SafeMeansSafe` for `if (x < 0) { a; b } c` | violated, see Findings |
| `branch_code` | `SafeMeansSafe` with signed comparisons against a code | violated |

What the passing runs show, in short:

* `ReportSound`: an error that a variable holds is in its row, under its tentative name exactly
  while the activation that made it has not returned it.  `ReportPrecise`: a single path of rules that
  do not choose is represented exactly, so false reports come only from joining paths.
* `ImplementsJoin`: the engine implements `JoinOverPaths`, in which the answer is there at once, as the
  least solution of Sharir and Pnueli's equations, written over the rules without any graph; the
  refinement hides the automaton, the graph and the worklists.  `EveryPathCounts` compares the
  engine with the paths themselves.  The equations of a return ask that the exit of the callee is reached
  (`Reached`): the merge function makes a weight of the caller's locals even out of a callee that never
  returns, and only the absence of the transition keeps it out of the join.
* `NoErrorForgotten`: the transitions that `mapTrans` passes over are those of the outermost
  activation of a function that is called elsewhere too; their error rows are in the one it keeps,
  also in a library, whose functions are all entered at the start.
* `SameBehaviour`: wherever the program gets, the next rules that do something are the same in both
  files.  A test without a line counts as doing nothing: `FRule::format` writes its `<pred>` all the same, `CompressRules`
  does not look at it, and the rule can be dropped with the predicate.  `SequenceIntact`: each target of an open sequence is
  entered by one rule and left by one, both idle, and its counter alone is down.
* `OverwriteFound`: of the errors that all runs together bring to a variable a message is about the one with the least index; if an
  assignment loses that one on some run, it is reported.  An overwrite of another of them may go without a message (`Assignment.cpp:98`).
* `SafeWhereTested`: a variable that is called safe in a block holds no error there, if the block is entered
  by tests of the variable only, or comes after an `if` whose body is one block.  The functions are any; elsewhere in them anything may
  lead anywhere.  `TestsRecognised` says that no test of zero is missed, in any function.
* `ExecutionFollowed`: through stores, calls, phis, branches and loops the rules of a function can do
  what the function does, with the same errors in its variables; `RulesExact`: and nothing else, where no
  value has several names.  `ReturnToOneCaller` is what `ProgramsType` of `ErrorPds` assumes of the rules.
* `RowsExact`: at every point, after joins, choices, loops and nested calls, a row has what the runs bring to its
  variable, no more and no less.  Here paths have joined before the call, the callee is summarised once for all of them and the
  merge is applied to the joined weights; `ReportSound` is about one path at a time.  `WitnessStands`: the weight in a
  witness, which is made by `getWeight`'s queue of assignments, one `combine` per choice, and an `extend` that drops units, is the weight
  of the point, which `Points` takes from what a rule means.
* `SampleTold`: a run of the program brings the reported error to the variable, the printed path consists of
  rules of this run in their order, and the slice has every step of the error from the rule that made it,
  and nothing that this run did not do with that error.  (It may have more than the steps:
  when a variable was assigned twice from one formal, both are in it.)
* `SameErrors`: dropping assignments can leave `UNINITIALIZED` where the program has `OK`, never
  an error in one store and not in the other.  `ImplementsFlow` says this as a refinement: each step on the
  filtered rules is a step on the collected ones, as far as errors go.

Deadlock is checked in `name_graph`, where the program always has a rule to run.  The other systems
end: a file has been read, a function returns, a report is printed, a path reaches its bound.

**Fairness.**  Only `Analyser` has a liveness property, `ResultComes`.  It assumes weak fairness of the
engine's step: one thread without waiting, so a step that can be taken is taken.  Nothing is assumed about
*which* step: every order of the worklists must end.  Nothing makes the analysed program move.

**Assumptions.**  `ProgramsType` (in `ErrorPds`) and `FilesType` (in `CompressWpds`) are read from
`RulesPass`: a return symbol belongs to one call instruction (checked by `ReturnToOneCaller`), the last rule of a file does not end a removable chain.
`SymbolsOwned` and `ConstantsKept` (in `Analyser`) are what `NoErrorForgotten` rests on.  Every stack symbol has the name of its
function in it (`Names.cpp:176-205`), a call pushes the entry of its callee and a symbol of its caller, and the other rules lead
from a symbol of a function to one of the same function (`Rules.cpp`), except for the idle rules that start each function of a
library and for the one to `exit.0`, which no rule leaves; compress-wpds changes targets along rules that keep to this.  Each of the three
bases contains the constants' own pairs, and no rule assigns to a constant.  `NoErrorForgotten` speaks of the symbols that some
rule leaves, because a program point is made at the `fromStack` of its rule (`ErrorPropagationHandler.cpp:596`); at `exit.0`, which
several functions may lead to, something can be passed over, and no point asks.  `CodesType` (in `BranchSafety`): all codes
have one sign, of which the code looks at the first only.
The functions of `rules` are written as clang writes them without optimisation (`CFLAGS="-O0 -g"` in
`scripts/injection/fixedbitcode.sh`): each statement loads what it needs and stores what it makes.
Outside of this idiom `ExecutionFollowed` is false: when a variable is stored to between a load and the use of
the loaded value (`Names.cpp:357`), when `f` is called twice before the first value is used (`Names.cpp:511`), when
a pointer may be a function or something else (`Rules.cpp:320`), or when nothing names it (`Rules.cpp:391`).
`ProgramsType` of `Points`: a rule assigns once to each variable, to program variables only, and a choice has at least one rule.
The program "calls" of `reports` reads an exchange variable directly after the call, and `f` does not make the
code that `main` hands to it under its tentative name.  Without the first, `FindPathVisitor.cpp:192` mistakes
a real error for a tentative one of the call between, and the path is cut short; without the second,
`FindPathVisitor.cpp:247` takes one tentative error for the other.
`FunctionsType` (in `BranchSafety`) is LLVM's: nothing leads to the first block of a function.

## Findings

1. `EitherValueKept` fails in `path_repeat`: `getWeight` (`ErrorPropagation.cpp:152`) deletes the pair of a
   variable with itself before each assignment, even if an earlier assignment of the same rule put
   it there; `x := x` next to `x := e` is how a phi with the variable's old value is written.
2. `PointMatchesRule` fails in `reader_both`: with two analyses on one command line the flag of the second
   stays up and gives the *next* rule a point (`ErrorPropagationHandler.cpp:600`).
3. `SafeMeansSafe` fails in `branch_joins`: of `if (x < 0) { a; b } c` block `c` is safe for `x`, and `b` leads to it with the error
   still in `x`, because the pass compares only the direct predecessors of the safe block with the other one
   (`BranchSafety.cpp:277`; the TODO there asks for post-dominators).
4. `SafeMeansSafe` fails in `branch_code`: `x < EC` is treated like `x < 0` (`BranchSafety.cpp:211`).

In each case the passing run beside it shows what does hold.

## Proofs

All of them hold for any sets of codes, variables and functions, any rules, any length of paths and any
depth of calls.  They use the modules' named assumptions (`ConstantsDistinct`, `VariablesDistinct`,
`RealType`, `ReturnType`, `RulesType`, `BoundsType`; `OrderType`, `TemporariesType` and, another one than that of the engine, `ProgramsType` for `Points`; `ProgramsType`, `FiniteProgram`, `SymbolsOwned` and `ConstantsKept` for
the engine, `NamesType` for `NameGraph`, `FilesType` for `RuleReader` and, another one, for `CompressWpds`, `FunctionsType`, `ValuesType` and `CodesType` for `BranchSafety`).

**`ErrorWeights_proofs`.**  `Extend` is associative, has `One` as its unit and `Zero` as its zero,
distributes over `Combine` (`ExtendAssociative`, `ExtendDistributes`), and so does the merge function
(`MergeDistributes`).  These are the laws WALi requires of a weight domain; they are why the engine
may cut paths into summaries and join early.

**`PathWeights_proofs`.**  `ReportSound` is not inductive: when a function returns, its caller's
weight becomes current, and nothing was said about it.  `PathInv` therefore says of *every*
activation, the suspended ones included, that the constants hold themselves in its weights
(`ConstantRows`), that its values were made by activations no deeper than it (`MadeUpTo`), that its
prefix denotes its entry store, and that its own weight explains its store from that entry; and, in
phase "rule", that the weight under construction explains `next`.  The step for `ReturnFrom` is
the long one: it composes the caller's weight, the call's weight and the callee's effect, by cases
on locals, globals and `f$return`, and on tentative sources.  `SummarySoundness`, `ReportSoundness`,
`ReportPrecision` and `EitherValue` follow from `PathInvariant`.  They assume `~RepeatTargets`: no rule assigns again to a
variable whose value in this rule is itself or `UNINITIALIZED`, which is finding 1; without it the
theorems are false.

**`Points_proofs`.**  What a point says is right, for any program of rules and calls, any number of paths that join and any depth
of calls.  `OverwrittenFound`, `TentativeApart`, `ReturnedReported`, `MustIsRight` and `WarningsRight` compare reports with the
runs; they all follow from `RowsExactly`, since a point reads nothing but rows.  `RowsExact` is not inductive: after a
return the row of the caller comes from what it held when it called, and from a summary in which all callers' values are still
the callee's entry variables.  `PointsInv` therefore speaks of each open activation, and of its rows *relative to the entry* of that activation:

* `Enough`: whatever a run holds comes from some element of the row, applied to the values with which this run entered.
* `Needed`: for each run and each element of the row there is a run *with the same entry* (`SameUpTo`: the same suspended
  stores) that holds what the element brings from there.  Asking only for some run would not survive the return: of an element of the
  caller's row and one of the callee's, two different runs could be the witnesses, and neither went from one to the other.
* `MadeTentative`: a value that an open activation made has a tentative name and was made no deeper than where it is held;
  so `MakeReal` at the return renames just the values of the callee's own activation.
* `ConstantsOwn`, `FirstEntered`, `EntriesExact`: the constants keep their own rows, the first activation has only constants in
  its rows, and what is before an activation are exactly the values it was entered with.

`RuleStep`, `EnterStep`, `ReturnStep` and `JoinRun` say what a rule, a call, a return and one more path do to these, each for `Enough` and
for `Needed`.  A rule in `Points` is a function from the variables it assigns, so one assignment per variable: finding 1 is about the others.

**`Analyser_proofs`: fixpoints.**  A step on a set that only adds to a measure, a subset of some finite set, comes to an
end, `Repeated` is that end, and whatever is closed under the step and holds of the start holds of it
(`RepeatedEnds`).  The proof takes the start with the largest measure for which this fails, so it needs the
well-foundedness of `<` and no induction scheme.  All fixpoints of the engine and of the join are
instances: reachability in a graph, the weights of an IntraGraph, the weights of the states, and
`Reached`, `Sums` and `Entries`, each of which is shown to solve its equations and to be below every other solution.

**`Analyser_proofs`: no less.**  The soundness of the engine: `EveryStackAccepted` and
`EveryPathCounted`, for every finite program, every order of the worklists, every path and every depth of calls
(`MaxCalls` is any number; no assumption mentions it).  Neither property is inductive, and neither is about one part of the state.
`AnalyserInv` has four parts.

* `SaturationInv`: everything that post of a transition makes is there, except for transitions on the
  worklist; a return transition and an epsilon transition of its callee are joined by a hyper edge
  except while the epsilon transition is on the worklist.  This is where the two orders meet: whichever of the two
  comes last makes the edge (`poststar_handle_trans` by `eps_map`, or `poststar_handle_eps_trans`).
* `SolveInv`: no component to come feeds one that has begun (`CalleesFirst`, for which the code has
  the assertion `gr->scc_number > scc_n`), and, except on the worklist, the weight last propagated from an out node is the
  weight it has now, and the merge functions were given just that (`Settled`).  `Propagate`
  changes weights in the graphs that its out node feeds; by `CalleesFirst` these are in the current component, and `ToRedo` puts their
  out nodes back on the worklist.
* `PathType` and `StackAccepted`: the path's point and its open calls are transitions of the automaton.
* `PathCounted`: the weight of every activation, the suspended ones included, is in that of its node, and
  its prefix in that of its state.

At the end all is settled, so the weights of the nodes hold what comes along every edge and every call, and each step
of the path goes along an edge: a rule by `ExtendMonotone`, a return by `MergeMonotone`, which uses that
`Merge(b, r, s, f) = Extend(b, Merge(One, r, s, f))`, the law by which the engine may put the caller's weight in front of a
summary it has computed without it.  Assumptions: `ProgramsType`, those of the weights, and `FiniteProgram`.

**`Analyser_proofs`: no more.**  `EngineImplements` is the refinement: under the mapping that hides automaton, graph and
worklists and takes `Answered` for the answer, the engine starts as `JoinOverPaths` does, its steps stutter until `Finish`, which is
`Answer`, and the program's steps are `Move`.  What has to be proved is that `Answered` is `Join` when the engine is done
(`AnswerIsJoin`), by two comparisons of least solutions.

* The equations are below the engine.  When all is settled, the weights of the nodes, read at the transition of each
  place, solve the equations of `Sums` (`SumsThere`), and the weights of the states those of `Entries` (`EntriesThere`).  A context
  that was not entered has no entry, so its sums do not count, and a place that a path comes to in
  an entered context has a transition (`ReachedThere`).
* The engine is below the equations, at any time and whatever has been propagated.  `PrecisionInv` is the
  invariant: each transition is that of a place which some path comes to (`OnlyReached`), and the updatable edge of a call is never
  given more than the merge of the callee's sum (`MergedBelow`).  Then the sums of the places bound the
  solution of every IntraGraph (`SolutionBelow`), so that what `Propagate` hands on is bounded again; this
  uses that a return transition stands for one call with one rule (`ReturnUnique`, from `ProgramsType`), and that a callee
  without an epsilon transition gives no hyper edge.

With `AnswerIsJoin` the result does not depend on any order: two runs of the engine on one program give every
point the same weight in every context.

**`Analyser_proofs`: nothing forgotten.**  `NothingForgotten`: the transition that `mapTrans` keeps for a symbol
has every error that a path brings to the symbol.  The loop in `Main.cpp` goes through the transitions in the order of their keys and
the last one stays; the state of a called context is made after the accepting one, so the called context is preferred.  With the other
preference the statement is false, as the mutant `FirstTransition` shows.  It holds for any order in which the *engine* worked.
By `AnswerIsJoin` the weights can be compared in the equations, where no order is left.  A symbol is reached in two contexts at
most, that of its own function when it is called, and the outermost one (`OwnContext`).
The sum of the outermost context is below that of the called one, as both solve the same equations from an
entry with the weight `One` (`OutermostBelow`).  A call is entered with the constants in their own rows, and so is the start, because every rule and
every merge keeps them (`ContextsKnown`, `KnownBefore`).  So the entry weight of the called context, in front of the same sum,
loses no pair whose right side is an error: an error that a sum takes from the constant itself comes through any entry
(`ErrorsInEither`), and one that the called context takes from an entry is in the context itself.

**`CompressWpds_proofs`.**  `SameBehaviour` speaks of the end of four passes, `CompressInv` of what they have done at each rule.  A rule is
`Dropped` when it was looked at and its target's counter is now zero; a sequence is `Open` or has `Ended`, with a last rule that is
not dropped because `KeepRule` puts its counter back.  `DroppedRight`: a counter is what was counted, except for
targets of dropped rules, and there the one rule in is idle and the rule after it in the file is the one rule out.  `SequenceRight`: `oldKey` and `newKey` are the
targets of the first and last rule of the open sequence.  `KeysRight`: each sequence that has ended has its key, and no other symbol's key has changed.
`OutputRight` says what is printed by these.  `RemoveStays`, `KeepStays`, `CloseStays` and `PrintStays` have one step for each of them.
`CompressedBehaves` then compares two least closed sets of symbols, those that idle rules of either file lead to.  A symbol
whose counter is zero has one rule in and one out, so the program does nothing there and is there only within a sequence
(`VisitedCounted`); from any other symbol idle rules lead to the same rules that do something, past the sequences in one file and along the keys in the
other (`PrintedAfter`, `AfterPrinted`).  A sequence that is still open when the file ends has no key, and would lose its rules:
`FilesType` says that no rule leaves its last target.

**`NameGraph_proofs`.**  `FilterInv` says that a successor of a vertex that the search has left behind
is met (`SearchInv`), so that after the search no assignment leads from a met name or an error
code to a name that is not met; that in a run names that were not met hold no error in either
store (`RunInv`); and that the output is the filter of the rules (`OutputInv`).  `FilterExact` and
`FilterKeepsPoints` follow, and `FilterImplements`: under the mapping that
takes the collected rules for the program and the errors of the run on the filtered ones for what it holds, the
initial states of `NameGraph` are initial in `ErrorFlow`, and each of its steps is a step of `ErrorFlow` or a stutter.

**`RuleReader_proofs`.**  For files of any length with any children in any order, if one analysis is asked for
(`OneAnalysisAsked`; finding 2 is what happens otherwise), each point is made of its own rule and none is missing
(`PointsOfTheirRules`, `NoPointMissing`).  Both come from `FlagsExact` in `ReaderInv`: a flag that some option asks for is up
exactly when the element has begun in the rule being read, and what is stored under it was read at this rule.

**`BranchSafety_proofs`.**  For functions of any size and shape with any values: `SafeIsSafe`, that is `SafeWhereTested`, and
`NoTestOverlooked`.  `SafetyInv` says which test made a variable safe in a block (`SafeByTest`).  A block after an `if` (`AfterIf`) is
entered by the branch alone when something is safe in it, because the pass has compared the predecessors of the two successors; and into a block to which only tests of the
variable lead (`TestedOnEntry`) a run comes by one of them.  Either way it takes a direction that no error code takes (`DirectionSafe`).
`SafeMeansSafe`, of every block, is false (findings 3 and 4): `AfterIf` and `TestedOnEntry` are conditions on what leads to the
one block that is entered, not on the function.

**Only model-checked.**  `ResultComes`: liveness.  That each pair of the least solution `Join` is that of some path, a statement by induction over
how the solution is computed, is neither proved nor a property of a run; proved is that every path is in it.  The properties of `RulesPass`
(its statements are translated by folds over them).  Of `Reports`, `SampleTold` and `WitnessStands`: the first
speaks of a recursive walk over the tree, the second of folds over the assignments of a rule and over the choices.  Liveness under fairness and what a recursive definition computes for all inputs are beyond the
prover.

## Not modelled

* `report_temps` and the `cabs2cil_` in the names of CIL's temporaries (`Assignment.cpp:102`), and that nothing is printed without a `print` option; the LLVM
  frontend writes no such names.
* Of `NamesPass`: names of struct fields, array elements and pointer targets, the files of names that it reads,
  and what it makes of casts and library calls; `RulesPass` has loads, calls, binary operations, phis and selects.
* `AssignmentInfo` and `Hexastore`, which print the values of both sides of an assignment for another tool; `WFA::filter` and `prune`, which remove
  transitions that no point asks for; the Prologue of the rules file.
* `branch_pairs`, `icmps`, `explicit_equality` of `BranchSafetyPass`, which only the trace generator reads.
  A test is taken for a test of what its variable holds at the branch; the load it reads may be older.
* Calls in the runs of `NameGraph`: its two stores are those of one activation, and rules come in any order.
* What "must" means to a reader: `MessageStandard.cpp:147` prints "must contain one of the following error codes" also for a variable
  that some path leaves uninitialized.  `MustUnlessUninitialized` says what the code does.
* The regular expressions inside an IntraGraph, taken for their meaning.
* `Path::filter`, which takes the messages of `__cil` temporaries out of a path and moves line numbers;
  formatters; the sample path of a function that calls itself (`FindPathVisitor.cpp:229`).
* The trace generator, scripts, BuDDy, the MPI implementations and stored results.

## Plan

The order follows the importance of the behaviour: weights and paths, the engine, the passes that
change rules, the rules themselves, the reports and their paths.  All modules above are done.  Next:

1. Proofs: `ReturnToOneCaller`, from the counters of `RulesPass`.
2. The load behind a test in `BranchSafety` (`BranchSafety.cpp:285`), composed with `RulesPass`.
3. Calls in the runs of `NameGraph`.
