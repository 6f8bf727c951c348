------------------------------- MODULE Points -------------------------------
(***************************************************************************)
(* What a program point says.  Paths of the program join, go on together,  *)
(* call and return, until the point is processed: it chooses what to       *)
(* report from the weight that the engine has for them (Assignment,        *)
(* Return, IsErr, and Values with the points that inherit from it).  The   *)
(* concrete runs along these paths are kept beside the weight to judge     *)
(* the reports.                                                            *)
(***************************************************************************)
EXTENDS Rows, FiniteSets

CONSTANTS
    Temporaries,   \* the variables named __cil..., which no program declares
    Programs       \* name |-> the options, the rules that may come after that of main.0
                   \* and how many of these paths join, its rules, calls and exits, how
                   \* many of these it takes, and the points

VARIABLES
    report_tentative,  \* the option --tentative
    program,           \* the name of one of Programs
    place,             \* where it is
    runs,              \* the runs that reach the present place
    engine,            \* what the engine has for the paths that lead there
    taken,             \* counts the parts, for the bound
    weight,            \* calculateWeight: the weight of a point here
    point,             \* the point, once it is processed
    reports            \* its messages

programVars == <<program, place, runs, engine, taken, weight>>
vars == <<report_tentative, programVars, point, reports>>

NoPoint == [kind |-> "none"]

ASSUME TemporariesType == Temporaries \subseteq Locals

\* A rule, with the source of each variable that it assigns.
IsRule(rule) ==
    /\ rule.line \in Nat /\ rule.basis \in {"identity", "identityGlobals", "uninitialized"}
    /\ DOMAIN rule.sets \subseteq Variables /\ \A x \in DOMAIN rule.sets : rule.sets[x] \in Var

IsPoint(p) ==
    CASE p.kind = "assignment" -> DOMAIN p.targets \subseteq Variables /\ \A x \in DOMAIN p.targets : p.targets[x] \in Var
      [] p.kind \in {"values", "iserr"} -> p.vars \subseteq Variables
      [] p.kind = "return" -> p.value \in Var
      [] OTHER -> FALSE

ASSUME ProgramsType ==
    \A name \in DOMAIN Programs :
        LET prog == Programs[name]
        IN  /\ prog.tentative \subseteq BOOLEAN
            /\ \A rule \in prog.paths : IsRule(rule)
            /\ \A part \in prog.rules : DOMAIN part.ways # {} /\ \A i \in DOMAIN part.ways : IsRule(part.ways[i])
            /\ \A part \in prog.calls : IsRule(part.rule) /\ part.calls \in Functions
            /\ \A p \in prog.points : IsPoint(p)

-----------------------------------------------------------------------------
(* The engine has a weight for the present activation, one for all before  *)
(* it, and the same for each call that is open.                            *)

\* getWeight, for a rule that assigns to a variable once.
RuleWeight(rule) ==
    {row \in BasisWeight(rule.basis) : row[1] \notin DOMAIN rule.sets}
        \cup {<<x, rule.sets[x]>> : x \in DOMAIN rule.sets}

EngineStart == [own |-> Zero, before |-> One, calls |-> << >>]

EngineRuns(rules) ==
    [own |-> UNION {Extend(engine.own, RuleWeight(rule)) : rule \in rules},
     before |-> engine.before, calls |-> engine.calls]

EngineCalls(rule, f, back) ==
    [own |-> One,
     before |-> Extend(engine.before, Extend(engine.own, RuleWeight(rule))),
     calls |-> Append(engine.calls, [caller |-> engine.own, before |-> engine.before,
                                     rule |-> rule, function |-> f, back |-> back])]

LastCall == engine.calls[Len(engine.calls)]
EngineReturns ==
    [own |-> Merge(LastCall.caller, RuleWeight(LastCall.rule), engine.own, LastCall.function),
     before |-> LastCall.before, calls |-> SubSeq(engine.calls, 1, Len(engine.calls) - 1)]

-----------------------------------------------------------------------------
(* What the program does.  A value has the name under which the analysis   *)
(* should know it, the activation that made it if it is an error which     *)
(* that one has not returned (0: none), and the way it took to where it is.*)

NoValue == [name |-> UNINITIALIZED, made |-> 0, flow |-> << >>]
RunStart == [store |-> [x \in Variables |-> NoValue], saved |-> << >>, lines |-> << >>, moves |-> << >>]
Depth(r) == Len(r.saved) + 1

\* A constant in a rule, as a value of the present activation.
Made(r, constant) ==
    [name |-> constant, made |-> IF constant \in TentativeErrors THEN Depth(r) ELSE 0, flow |-> << >>]

Forgets(rule, x) == rule.basis = "uninitialized" \/ (rule.basis = "identityGlobals" /\ x \in Locals)

ValueAfter(r, rule, x) ==
    IF x \in DOMAIN rule.sets
    THEN LET from == rule.sets[x]
             value == IF from \in Variables THEN r.store[from] ELSE Made(r, from)
         IN  [name |-> value.name, made |-> value.made,
              flow |-> Append(value.flow, [line |-> rule.line, target |-> x, source |-> from])]
    ELSE IF Forgets(rule, x) THEN NoValue ELSE r.store[x]

RunRule(r, rule) ==
    LET store == [x \in Variables |-> ValueAfter(r, rule, x)]
    IN  [store |-> store, saved |-> r.saved, lines |-> Append(r.lines, rule.line),
         moves |-> Append(r.moves, {store[x].flow : x \in DOMAIN rule.sets})]

RunCall(r, rule) ==
    LET next == RunRule(r, rule)
    IN  [store |-> next.store, saved |-> Append(next.saved, next.store), lines |-> next.lines, moves |-> next.moves]

ValueReturned(r, f, x) ==
    LET value == r.store[x]
    IN  IF x \in Locals THEN r.saved[Len(r.saved)][x]
        ELSE IF value.made # Depth(r) THEN value
        ELSE IF x = Return[f] THEN [name |-> Real[value.name], made |-> 0, flow |-> value.flow]
        ELSE [name |-> value.name, made |-> value.made - 1, flow |-> value.flow]

RunReturn(r, f) ==
    [store |-> [x \in Variables |-> ValueReturned(r, f, x)], saved |-> SubSeq(r.saved, 1, Len(r.saved) - 1),
     lines |-> r.lines, moves |-> r.moves]

Init ==
    /\ program \in DOMAIN Programs /\ report_tentative \in Programs[program].tentative
    /\ place = Programs[program].start
    /\ runs = {} /\ engine = EngineStart /\ taken = 0 /\ weight = Zero
    /\ point = NoPoint /\ reports = {}

-----------------------------------------------------------------------------

\* RulesPass::runOnModule: the rule of main.0.
MainRule == [line |-> 0, basis |-> "uninitialized", sets |-> << >>]

\* Another path reaches the place, by the rule of main.0 and one more.
Join(rule) ==
    /\ point = NoPoint /\ taken = 0 /\ Cardinality(runs) < Programs[program].joins
    /\ runs' = runs \cup {RunRule(RunRule(RunStart, MainRule), rule)}
    /\ engine' = [own |-> Combine(engine.own, Extend(RuleWeight(MainRule), RuleWeight(rule))),
                  before |-> engine.before, calls |-> engine.calls]
    /\ weight' = Extend(engine'.before, engine'.own)
    /\ UNCHANGED <<report_tentative, program, place, taken, point, reports>>

\* The program goes on, in all of its runs.
GoOn ==
    /\ point = NoPoint /\ runs # {} /\ taken < Programs[program].max
    /\ taken' = taken + 1
    /\ weight' = Extend(engine'.before, engine'.own)
    /\ UNCHANGED <<report_tentative, program, point, reports>>

\* A rule, or a choice between rules.
TakeRules(part) ==
    LET rules == {part.ways[i] : i \in DOMAIN part.ways}
    IN  /\ place = part.from /\ place' = part.to
        /\ engine' = EngineRuns(rules)
        /\ runs' = {RunRule(run[1], run[2]) : run \in runs \X rules}
        /\ GoOn

TakeCall(part) ==
    /\ place = part.from /\ place' = part.entry
    /\ engine' = EngineCalls(part.rule, part.calls, part.to)
    /\ runs' = {RunCall(r, part.rule) : r \in runs}
    /\ GoOn

TakeReturn ==
    /\ place \in Programs[program].exits /\ engine.calls # << >>
    /\ place' = LastCall.back
    /\ engine' = EngineReturns
    /\ runs' = {RunReturn(r, LastCall.function) : r \in runs}
    /\ GoOn

-----------------------------------------------------------------------------
(* What a point says.                                                      *)

\* Mutant: tentative errors are forgotten.
HeldReal(v, codes) == {e \in codes \cap Errors : <<v, e>> \in weight}

Held(v, codes) == {e \in codes : <<v, e>> \in weight}

\* getError: one of a set of errors stands for all of them.
GetError(errors) == Least(errors)

\* Mutant: nothing is said if the source may hold the error too.
InterestingIfAbsent(target, source, error) == <<source, error>> \notin weight

\* The source may hold something else than the error it overwrites.
Interesting(target, source, error) ==
    /\ <<target, error>> \in weight
    /\ \E z \in Var \ {error} : <<source, z>> \in weight

\* Mutant: tentative errors are looked for beside the others.
TargetErrorsOfBoth(target) ==
    Held(target, IF report_tentative THEN AllErrors ELSE Errors)

\* Errors have priority over tentative ones.
TargetErrors(target) ==
    IF report_tentative /\ Held(target, Errors) = {}
    THEN Held(target, TentativeErrors)
    ELSE Held(target, Errors)

\* getErrorMsg, whose names for pointer variables only change the wording.
MessageType(target, msgcode, tentative) ==
    CASE msgcode = "overwrite" -> IF target \in Temporaries THEN "EMPTY"
                                  ELSE IF tentative THEN "OVERWRITE" ELSE "OVERWRITE_NT"
      [] target \in Temporaries -> IF tentative THEN "UNCHECK_NSAVE" ELSE "UNCHECK_NT_NSAVE"
      [] OTHER -> IF tentative THEN "UNCHECK_OUT" ELSE "UNCHECK_NT_OUT"

\* A message about an error of x.
Report(type, x, error, errors) == [type |-> type, target |-> x, error |-> error, errors |-> errors]

AssignmentReport(p, target) ==
    LET errors == TargetErrors(target)
        tentative == report_tentative /\ Held(target, Errors) = {}
    IN  Report(MessageType(target, p.msgcode, tentative), target, GetError(errors), errors)

\* Assignment::process, for a command line that prints something and for names without
\* the cabs2cil_ of CIL's temporaries, which the LLVM frontend does not write.
AssignmentReports(p) ==
    {AssignmentReport(p, t) : t \in
        {t \in DOMAIN p.targets :
            /\ TargetErrors(t) # {}
            /\ Interesting(t, p.targets[t], GetError(TargetErrors(t)))
            /\ p.located
            /\ AssignmentReport(p, t).type # "EMPTY"}}

\* Mutant: OK is not looked for.
PrecisionBlind(v) == "must"

Precision(v) == IF <<v, OK>> \in weight THEN "may" ELSE "must"

ValueReport(type, v) ==
    LET errors == Held(v, AllErrors)
    IN  [type |-> type, target |-> v, error |-> GetError(errors), errors |-> errors, precision |-> Precision(v)]

\* Values::process, for Dereference, Operand, Handled, Input, Output, Predicate.
ValueReports(p) == {ValueReport("VALUES", v) : v \in {v \in p.vars : Held(v, AllErrors) # {}}}

\* IsErr::process: a test of a variable that holds no error gets a warning.
IsErrReports(p) ==
    {ValueReport("ISERR", v) : v \in {v \in p.vars : Held(v, AllErrors) # {}}}
        \cup {[type |-> "ISERRWARN", target |-> v] : v \in {v \in p.vars : Held(v, AllErrors) = {}}}

\* Mutant: one trace for the value, as in the code that is commented out.
OneTrace(errors) == {GetError(errors)}

AllTraces(errors) == errors

\* Return::process: a report for every error of the value.
ReturnReports(p) ==
    LET errors == Held(p.value, AllErrors)
    IN  {Report("RETURN_FN", p.value, e, errors) : e \in IF errors = {} THEN {} ELSE AllTraces(errors)}

ReportsOf(p) ==
    CASE p.kind = "assignment" -> AssignmentReports(p)
      [] p.kind = "values" -> ValueReports(p)
      [] p.kind = "iserr" -> IsErrReports(p)
      [] p.kind = "return" -> ReturnReports(p)

\* A point that no path reaches has no weight and is not processed.
Process(p) ==
    /\ point = NoPoint /\ runs # {} /\ place = p.at
    /\ point' = p
    /\ reports' = ReportsOf(p)
    /\ UNCHANGED <<report_tentative, programVars>>

Next ==
    \/ \E rule \in Programs[program].paths : Join(rule)
    \/ \E part \in Programs[program].rules : TakeRules(part)
    \/ \E part \in Programs[program].calls : TakeCall(part)
    \/ TakeReturn
    \/ \E p \in Programs[program].points : Process(p)

Spec == Init /\ [][Next]_vars

-----------------------------------------------------------------------------
(* Properties.                                                             *)

\* What x is in a run, for a variable or a constant.
In(r, x) == IF x \in Variables THEN r.store[x].name ELSE x

\* The errors of x that the runs bring, of the kind that an assignment asks for: tentative
\* ones only if no run brings another, and only if they are to be reported.
Brought(x) ==
    LET values == {In(r, x) : r \in runs}
    IN  IF report_tentative /\ values \cap Errors = {} THEN values \cap TentativeErrors ELSE values \cap Errors

\* An error that an assignment loses is reported: if the error by which a message would
\* name those that the runs bring to a variable is lost on some run, by an assignment
\* of something else, the point says so, whatever the other runs do.  Of the other
\* errors nothing is promised (process looks at the first error of the join only,
\* and at the values of the source on all paths).
OverwriteFound ==
    point.kind = "assignment" /\ point.located =>
        \A t \in DOMAIN point.targets \ Temporaries : \A run \in runs :
            LET lost == In(run, t)
            IN  lost \in Brought(t) /\ lost = Least(Brought(t)) /\ In(run, point.targets[t]) # lost
                => \E r \in reports : r.target = t /\ r.error = lost /\ r.errors = Brought(t)

\* A message about tentative errors lists only tentative errors, one about the
\* others none, and each error is held on a path (report_tentative, and the two
\* sets that targetToErrors is taken from).
TentativeKeptApart ==
    point.kind = "assignment" =>
        \A r \in reports :
            /\ r.errors \subseteq {In(run, r.target) : run \in runs}
            /\ r.error \in r.errors
            /\ IF r.type \in {"OVERWRITE", "UNCHECK_NSAVE", "UNCHECK_OUT"}
               THEN report_tentative /\ r.errors \subseteq TentativeErrors
               ELSE r.errors \subseteq Errors

\* A function that may return an error on some path is reported with that
\* error, whatever it returns on the others (Return::process).
EveryReturnedError ==
    point.kind = "return" =>
        \A run \in runs :
            In(run, point.value) \in AllErrors => \E r \in reports : r.error = In(run, point.value)

\* "must": whenever the variable has a value, it is one of the error codes.  A path that
\* leaves the variable uninitialized does not turn "must" into "may", although
\* MessageStandard.cpp:147 then prints "must contain one of the following error codes"
\* (Values::process asks only whether it may be OK).
MustUnlessUninitialized ==
    point.kind = "values" =>
        \A r \in reports : \A run \in runs :
            r.precision = "must" => In(run, r.target) \in r.errors \cup {UNINITIALIZED}

\* IS_ERR of x draws a warning exactly if no path brings an error to it.
WarnedIfIdle ==
    point.kind = "iserr" =>
        \A x \in point.vars :
            [type |-> "ISERRWARN", target |-> x] \in reports
                <=> \A run \in runs : In(run, x) \notin AllErrors
-----------------------------------------------------------------------------
(* Why: the rows of every open activation are the values of its variables, *)
(* in terms of those that it was entered with.                             *)

Steps == [line : Nat, target : Variables, source : Var]
Values == [name : Constants, made : Nat, flow : Seq(Steps)]
Stores == [Variables -> Values]
CallType ==
    LET parts == Programs[program].calls
    IN  [caller : Weight, before : Weight, rule : {part.rule : part \in parts},
         function : {part.calls : part \in parts}, back : {part.to : part \in parts}]

PointsType ==
    /\ program \in DOMAIN Programs /\ report_tentative \in BOOLEAN /\ taken \in Nat
    /\ engine.own \in Weight /\ engine.before \in Weight /\ engine.calls \in Seq(CallType)
    /\ \A r \in runs : r.store \in Stores /\ r.saved \in Seq(Stores) /\ Len(r.saved) = Len(engine.calls)
    /\ taken = 0 => engine.calls = << >>
    /\ runs = {} => engine = EngineStart

\* The activations that are open, 1 for the first and the last for the present one: what
\* their variables hold, or held when they called, and what they were entered with.
Levels == 1 .. Len(engine.calls) + 1
StoreAt(r, k) == IF k <= Len(r.saved) THEN r.saved[k] ELSE r.store
EntryAt(r, k) == IF k = 1 THEN RunStart.store ELSE r.saved[k - 1]

\* What the engine has for them, and for all before them.
WeightAt(k) ==
    IF k <= Len(engine.calls) THEN Extend(engine.calls[k].caller, RuleWeight(engine.calls[k].rule)) ELSE engine.own
BeforeAt(k) == IF k <= Len(engine.calls) THEN engine.calls[k].before ELSE engine.before

ErrorOf(value) == <<value.name, value.made>>

\* What a variable holds whose row has z, in activation k.
Brings(entry, z, k) ==
    IF z \in Variables THEN ErrorOf(entry[z]) ELSE <<z, IF z \in TentativeErrors THEN k ELSE 0>>

\* A value that an open activation made has a tentative name.
MadeBy(R, k) ==
    \A r \in R, x \in Variables :
        LET value == StoreAt(r, k)[x]
        IN  value.made <= k /\ (value.made > 0 => value.name \in TentativeErrors)
MadeTentative == \A k \in Levels : MadeBy(runs, k)

\* The runs R have their values in activation k from the rows of w,
Enough(R, w, k) ==
    \A r \in R, x \in Variables :
        \E z \in Row(w, x) : ErrorOf(StoreAt(r, k)[x]) = Brings(EntryAt(r, k), z, k)

\* and whatever is in a row is brought there by a run that came to the same entry.
SameUpTo(r, t, k) == \A i \in 1 .. k : t.saved[i] = r.saved[i]
Needed(R, w, k) ==
    \A r \in R, x \in Variables : \A z \in Row(w, x) :
        \E t \in R : SameUpTo(r, t, k - 1) /\ ErrorOf(StoreAt(t, k)[x]) = Brings(EntryAt(r, k), z, k)

RowsRight == \A k \in Levels : Enough(runs, WeightAt(k), k) /\ Needed(runs, WeightAt(k), k)

\* The constants have their own rows, and the first activation was entered with nothing.
ConstantsOwn ==
    runs # {} =>
        \A c \in Constants, k \in Levels : Row(WeightAt(k), c) = {c} /\ Row(BeforeAt(k), c) = {c}
FirstEntered == BeforeAt(1) = One /\ \A x \in Variables : Row(WeightAt(1), x) \subseteq Constants

\* What is before an activation are the values it was entered with.
EntriesExact ==
    runs # {} =>
        \A x \in Variables, k \in Levels \ {1} : Row(BeforeAt(k), x) = {EntryAt(r, k)[x].name : r \in runs}

ReportsRight ==
    /\ runs # {} => weight = Extend(engine.before, engine.own)
    /\ point # NoPoint => point \in Programs[program].points /\ runs # {} /\ reports = ReportsOf(point)

PointsInv ==
    /\ PointsType /\ MadeTentative /\ RowsRight /\ ConstantsOwn /\ FirstEntered /\ EntriesExact /\ ReportsRight

\* At every point the row of a variable has what the paths bring to it there, and nothing
\* else: joins, calls and returns lose no value and invent none, as long as no
\* rule assigns to one variable twice (calculateWeight, MergeError::apply_f).
RowsExact == runs # {} => \A x \in Variables : Row(weight, x) = {In(r, x) : r \in runs}
=============================================================================
