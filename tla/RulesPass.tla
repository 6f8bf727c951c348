------------------------------ MODULE RulesPass ------------------------------
(***************************************************************************)
(* RulesPass: the rules that the frontend writes for a function, and then  *)
(* an execution of the function beside the runs of those rules.            *)
(*                                                                         *)
(* An LLVM value has no place of its own in a rule: NamesPass gives it the *)
(* name of a variable (a load that of what it loads, a call that of the    *)
(* callee's return), and the rule reads the variable when the value is     *)
(* used.  A phi, a select or a call through a pointer has several names,   *)
(* and then the rules offer a choice.  The question is whether the rules   *)
(* can still do all that the function does, and nothing else.              *)
(***************************************************************************)
EXTENDS Integers, Sequences, FiniteSets, SequencesExt

CONSTANTS
    Codes, OK, UNINITIALIZED, \* the error codes; no error; nothing yet
    Globals, Locals,      \* variables of the program
    Temporaries,          \* the sequence of names foo#__cil_tmp<n>, bounds their number
    Callees,              \* the names that a called value may have
    NotFunctions,         \* those that name no function (a variable, a parameter)
    Defined,              \* those with a body in the module
    Formals,              \* callee |-> the sequence of its formal arguments
    Return,               \* callee |-> the name foo$return
    Tracked,              \* callees that return an integer or a pointer
    Functions             \* the functions that the pass is run on

VARIABLES
    fn,                   \* the function: [name, main, library, code, block, succ, safe]
    phase, at,            \* where the pass is
    prev,                 \* the symbol the next rule starts from, NoSymbol after a return
    dummies,              \* dummy_cnt
    tmps,                 \* tmp_names of the function, in order of tmp_cnt
    written,              \* the rules, by what they were written for
    point                 \* prev after that: where a run of the rules then is

passVars == <<fn, phase, at, prev, dummies, tmps, written, point>>

VARIABLES
    pos, came,            \* the next instruction; the block that control came from
    mem, val,             \* variables and values of the execution
    stores                \* what the runs of the rules can hold at the same point

runVars == <<pos, came, mem, val, stores>>
vars == <<passVars, runVars>>

ReturnNames == {Return[c] : c \in Callees \ NotFunctions}
FormalNames == UNION {ToSet(Formals[c]) : c \in Defined}
Names == Globals \cup Locals \cup ToSet(Temporaries) \cup ReturnNames \cup FormalNames
Values == Codes \cup {OK, UNINITIALIZED}

\* Operations whose value has a name made of several.
Choosing == {"phi", "select"}

\* An operand is a constant, an argument of the function, or the value of the
\* instruction that many places before.
Operands ==
    {<<"constant", c>> : c \in Codes \cup {OK}} \cup {<<"argument", x>> : x \in FormalNames}
        \cup {<<"back", n>> : n \in 1 .. 12}

ASSUME NamesAreDistinct ==
    /\ IsInjective(Temporaries)
    /\ Globals \cap Locals = {} /\ Tracked \subseteq Callees
    /\ Defined \cup NotFunctions \subseteq Callees /\ Defined \cap NotFunctions = {}
    /\ Names \cap Values = {}

ASSUME FunctionsType ==
    \A f \in Functions :
        /\ f.main \in BOOLEAN /\ f.library \in BOOLEAN
        /\ Len(f.code) = Len(f.block)
        /\ \A i \in DOMAIN f.code :
              /\ f.code[i].op \in Choosing \cup {"store", "load", "call", "binary", "icmp", "br", "ret"}
              /\ ToSet(f.code[i].args) \subseteq Operands
              /\ f.code[i].callees \subseteq Callees

Code == fn.code
Insts == DOMAIN Code
Blocks == ToSet(fn.block)
LastOf(b) == CHOOSE i \in Insts : fn.block[i] = b /\ (i = Len(Code) \/ fn.block[i + 1] # b)
FirstOf(b) == CHOOSE i \in Insts : fn.block[i] = b /\ (i = 1 \/ fn.block[i - 1] # b)

-----------------------------------------------------------------------------
(* NamesPass: the names of the values, as sets.                            *)

\* The instructions are visited in the order of the file, once.
NameOf[i \in 0 .. Len(Code)] ==
    IF i = 0 THEN << >>
    ELSE LET before == NameOf[i - 1]
             I == Code[i]
             Of(o) == CASE o[1] = "constant" -> {o[2]}
                        [] o[1] = "argument" -> {o[2]}
                        [] OTHER -> IF i - o[2] \in DOMAIN before THEN before[i - o[2]] ELSE {}
         IN  Append(before,
                CASE I.op = "load" -> {I.to}
                  [] I.op = "call" -> {Return[c] : c \in I.callees \ NotFunctions}
                  [] I.op = "binary" -> {OK}
                  [] I.op \in Choosing -> UNION {Of(o) : o \in ToSet(I.args)}
                  [] OTHER -> {})

NamesOf(i, o) == IF o[1] = "back" THEN NameOf[Len(Code)][i - o[2]] ELSE {o[2]}

\* MultiName, which a comparison does not name.
IsMulti(i, o) ==
    /\ o[1] = "back"
    /\ LET I == Code[i - o[2]]
       IN  I.op \in Choosing \/ (I.op = "call" /\ Cardinality(I.callees) > 1)

\* Whether a user of the value is a store or a return.
Saved(i) ==
    \E j \in Insts : /\ Code[j].op \in {"store", "ret"}
                     /\ <<"back", j - i>> \in ToSet(Code[j].args)

-----------------------------------------------------------------------------
(* Rules.                                                                  *)

NoSymbol == <<"none", 0>>
Exit == <<"exit", 0>>
\* Mutant: one number for all instructions of a block.
IidOfBlock(i) == <<"iid", fn.block[i]>>
Iid(i) == <<"iid", i>>
Enter(b) == <<"bbe", b>>
Leave(b) == <<"bbx", b>>
Dummy(n) == <<"dummy", n>>
CallName(f) == <<"call", f>>

Rule(from, to) ==
    [from |-> from, to |-> to, return |-> NoSymbol, basis |-> "identity",
     sets |-> {}, asks |-> {}]
WithSets(r, sets) == [r EXCEPT !.sets = sets]

Init ==
    /\ fn \in Functions
    /\ phase = "begin" /\ at = 1 /\ prev = NoSymbol
    /\ dummies = 0 /\ tmps = << >>
    /\ written = << >> /\ point = << >>
    /\ pos = 1 /\ came = 0
    /\ mem = [x \in Names |-> UNINITIALIZED]
    /\ val = [i \in Insts |-> OK]
    /\ stores = {}

\* The rules R are written for `what` and leave prev at p.
Write(what, R, p) ==
    /\ written' = [w \in DOMAIN written \cup {what} |-> IF w = what THEN R ELSE written[w]]
    /\ point' = [w \in DOMAIN written \cup {what} |-> IF w = what THEN p ELSE point[w]]
    /\ prev' = p

\* RulesPass::runOnModule: main makes everything uninitialized, any other function its
\* locals; without a main the module is a library, whose functions all start.
BeginFunction ==
    /\ phase = "begin"
    /\ phase' = "enter"
    /\ LET start == IF fn.main THEN CallName("main") ELSE CallName(fn.name)
           basis == IF fn.main THEN "uninitialized" ELSE "identityGlobals"
           entry == [Rule(start, Enter(fn.block[1])) EXCEPT !.basis = basis]
       IN  Write(<<"begin", 0>>,
                 {entry} \cup (IF fn.library THEN {Rule(CallName("main"), start)} ELSE {}),
                 Enter(fn.block[1]))
    /\ UNCHANGED <<fn, at, dummies, tmps, runVars>>

EnterBlock ==
    /\ phase = "enter"
    /\ phase' = "visit"
    /\ dummies' = dummies + 1
    /\ LET b == fn.block[at]
           preds == {q \in Blocks : b \in fn.succ[q]}
       IN  Write(<<"enter", b>>,
                 {Rule(Leave(q), Enter(b)) : q \in preds}
                   \cup {WithSets(Rule(Enter(b), Dummy(dummies)), {<<x, OK>> : x \in fn.safe[b]})},
                 Dummy(dummies))
    /\ UNCHANGED <<fn, at, tmps, runVars>>

\* The end of a visit to the instruction `at`.
Visited ==
    /\ at' = at + 1
    /\ phase' = IF at = Len(Code) \/ fn.block[at + 1] # fn.block[at] THEN "leave" ELSE "visit"
    /\ UNCHANGED <<fn, runVars>>

Visiting(ops) == phase = "visit" /\ Code[at].op \in ops
WriteInst(R, p) == Write(<<"inst", at>>, R, p)

\* Loads, binary operators and switches have no rules.
VisitNothing ==
    /\ Visiting({"load", "binary"})
    /\ WriteInst({}, prev)
    /\ Visited /\ UNCHANGED <<dummies, tmps>>

\* visitInstruction (a phi), visitSelectInst (whose assignments are to a MultiName and
\* so are none), visitBranchInst: a rule that does nothing.
VisitIdle ==
    /\ Visiting(Choosing \cup {"br"})
    /\ WriteInst({Rule(prev, Iid(at))}, Iid(at))
    /\ Visited /\ UNCHANGED <<dummies, tmps>>

VisitICmpInst ==
    /\ Visiting({"icmp"})
    /\ LET ops == {o \in ToSet(Code[at].args) : ~IsMulti(at, o)}
       IN  WriteInst({[Rule(prev, Iid(at)) EXCEPT
                          !.asks = UNION {NamesOf(at, o) : o \in ops}]}, Iid(at))
    /\ Visited /\ UNCHANGED <<dummies, tmps>>

\* Mutant: the rule for a store without names is written for any store.
StoreSenderOrPlain(acc, s) ==
    LET r == WithSets(Rule(prev, acc.iid), {<<Code[at].to, s>>})
        d == Rule(acc.iid, Dummy(acc.dummies))
        plain == Rule(prev, acc.iid)
    IN  IF s \in ReturnNames
        THEN [acc EXCEPT !.rules = @ \cup {plain, r, d}, !.iid = Dummy(acc.dummies), !.dummies = @ + 1]
        ELSE [acc EXCEPT !.rules = @ \cup {plain, r}]

\* One turn of the loop over the senders: a rule of its own for each, and one
\* more for a return, behind which the next sender arrives.
StoreSender(acc, s) ==
    LET r == WithSets(Rule(prev, acc.iid), {<<Code[at].to, s>>})
        d == Rule(acc.iid, Dummy(acc.dummies))
    IN  IF s \in ReturnNames
        THEN [acc EXCEPT !.rules = @ \cup {r, d}, !.iid = Dummy(acc.dummies), !.dummies = @ + 1]
        ELSE [acc EXCEPT !.rules = @ \cup {r}]

Loop == [rules |-> {}, iid |-> Iid(at), dummies |-> dummies, tmps |-> tmps,
         ended |-> FALSE]

\* The senders come in the order of pointers.
VisitStoreInst ==
    /\ Visiting({"store"})
    /\ \E senders \in SetToSeqs(NamesOf(at, Code[at].args[1])) :
          IF senders = << >>
          THEN /\ WriteInst({Rule(prev, Iid(at))}, Iid(at))
               /\ UNCHANGED dummies
          ELSE LET end == FoldLeft(StoreSender, Loop, senders)
               IN  WriteInst(end.rules, end.iid) /\ dummies' = end.dummies
    /\ Visited /\ UNCHANGED tmps

\* The assignments of a call: every name of an argument to the formal.
Arguments(c) ==
    UNION {{<<Formals[c][k], x>> : x \in NamesOf(at, Code[at].args[k])} : k \in DOMAIN Formals[c]}

\* Mutant: the dummy is written, but iid stays where it was.
DefinedCalleeStaying(acc, c) ==
    LET call == [WithSets(Rule(prev, CallName(c)), Arguments(c)) EXCEPT
                    !.return = acc.iid]
        tmp == Temporaries[Len(acc.tmps) + 1]
        keep == WithSets(Rule(acc.iid, Dummy(acc.dummies)), {<<tmp, Return[c]>>})
    IN  IF Saved(at) \/ c \notin Tracked
        THEN [acc EXCEPT !.rules = @ \cup {call}]
        ELSE [acc EXCEPT !.rules = @ \cup {call, keep}, !.dummies = @ + 1, !.tmps = Append(@, tmp)]

\* One turn of the loop over the callees.  A value that nobody saves is put into a
\* temporary on the way from the return to the next symbol.
DefinedCallee(acc, c) ==
    LET call == [WithSets(Rule(prev, CallName(c)), Arguments(c)) EXCEPT
                    !.return = acc.iid]
        tmp == Temporaries[Len(acc.tmps) + 1]
        keep == WithSets(Rule(acc.iid, Dummy(acc.dummies)), {<<tmp, Return[c]>>})
    IN  IF Saved(at) \/ c \notin Tracked
        THEN [acc EXCEPT !.rules = @ \cup {call}]
        ELSE [acc EXCEPT !.rules = @ \cup {call, keep}, !.iid = Dummy(acc.dummies),
                         !.dummies = @ + 1, !.tmps = Append(@, tmp)]

\* Mutant: a callee that is only declared ends the visit too.
CallCalleeEnding(acc, c) ==
    CASE acc.ended -> acc
      [] c \in Defined -> DefinedCallee(acc, c)
      [] OTHER -> [acc EXCEPT !.ended = TRUE]

\* A name that is no function ends the visit, with what has been written so far.
CallCallee(acc, c) ==
    CASE acc.ended -> acc
      [] c \in NotFunctions -> [acc EXCEPT !.ended = TRUE]
      [] c \in Defined -> DefinedCallee(acc, c)
      [] OTHER -> [acc EXCEPT !.rules = @ \cup {Rule(prev, acc.iid)}]

\* The callees of a pointer come in the order of pointers too.
VisitCallInst ==
    /\ Visiting({"call"})
    /\ \E callees \in SetToSeqs(Code[at].callees) :
          LET end == FoldLeft(CallCallee, Loop, callees)
          IN  /\ WriteInst(end.rules, IF end.ended THEN prev ELSE end.iid)
              /\ dummies' = end.dummies /\ tmps' = end.tmps
    /\ Visited

\* Mutant: the variable that is returned ends with the other locals.
VisitReturnInstEndingAll ==
    /\ Visiting({"ret"})
    /\ LET names == UNION {NamesOf(at, o) : o \in ToSet(Code[at].args)}
           ends == {<<x, OK>> : x \in Locals \cup ToSet(tmps)}
           returned == IF fn.main THEN {} ELSE {<<Return[fn.name], x>> : x \in names}
       IN  \E last \in IF returned = {} THEN {{}} ELSE {{x} : x \in names} :
              WriteInst({[WithSets(Rule(prev, NoSymbol), ends \cup returned) EXCEPT
                            !.asks = last]}, NoSymbol)
    /\ Visited /\ UNCHANGED <<dummies, tmps>>

\* Locals that are not returned and the temporaries end; the exchange variable gets
\* every name of the value, the point asks about one of them.
VisitReturnInst ==
    /\ Visiting({"ret"})
    /\ LET names == UNION {NamesOf(at, o) : o \in ToSet(Code[at].args)}
           ends == {<<x, OK>> : x \in (Locals \ names) \cup ToSet(tmps)}
           returned == IF fn.main THEN {} ELSE {<<Return[fn.name], x>> : x \in names}
       IN  \E last \in IF returned = {} THEN {{}} ELSE {{x} : x \in names} :
              WriteInst({[WithSets(Rule(prev, NoSymbol), ends \cup returned) EXCEPT
                            !.asks = last]}, NoSymbol)
    /\ Visited /\ UNCHANGED <<dummies, tmps>>

LeaveBlock ==
    /\ phase = "leave"
    /\ LET b == fn.block[at - 1]
       IN  Write(<<"leave", b>>,
                 IF prev = NoSymbol THEN {} ELSE {Rule(prev, Leave(b)), Rule(Leave(b), Exit)},
                 IF prev = NoSymbol THEN NoSymbol ELSE Leave(b))
    /\ phase' = IF at > Len(Code) THEN "start" ELSE "enter"
    /\ UNCHANGED <<fn, at, dummies, tmps, runVars>>

-----------------------------------------------------------------------------
(* The function is executed, and runs of the rules keep up with it.        *)

Running == phase \in {"run", "jump", "end"}

Read(s, x) == IF x \in Names THEN s[x] ELSE x

Forgets(basis, x) ==
    \/ basis = "uninitialized"
    \/ basis = "identityGlobals" /\ x \in Locals \cup ToSet(Temporaries)

\* The stores that rule r makes of s: several assignments to one variable are a choice.
Applied(r, s) ==
    LET To == {e[1] : e \in r.sets}
        From(x) == {e[2] : e \in {e \in r.sets : e[1] = x}}
        Picks == {p \in [To -> UNION {From(x) : x \in To}] : \A x \in To : p[x] \in From(x)}
    IN  {[x \in Names |-> IF x \in To THEN Read(s, p[x])
                          ELSE IF Forgets(r.basis, x) THEN UNINITIALIZED ELSE s[x]] : p \in Picks}

\* A call of the execution: what the callee leaves in its return and in the globals.
NoCall == [callee |-> OK]
Effect(call, s) ==
    [x \in Names |-> IF x \in DOMAIN call.globals THEN call.globals[x]
                     ELSE IF call.callee \in Tracked /\ x = Return[call.callee] THEN call.value
                     ELSE s[x]]

\* Where a run of the rules R can be after one more rule; a push is the whole call.
After(R, call, c) ==
    UNION {
        IF r.return = NoSymbol THEN {[c EXCEPT !.at = r.to, !.store = s] : s \in Applied(r, c.store)}
        ELSE IF ~c.called /\ call # NoCall /\ r.to = CallName(call.callee)
        THEN {[at |-> r.return, store |-> Effect(call, s), called |-> TRUE] : s \in Applied(r, c.store)}
        ELSE {} : r \in {r \in R : r.from = c.at}}

\* The stores of the runs that go from symbol p to symbol q by the rules R.
Along(R, S, p, q, call) ==
    LET start == {[at |-> p, store |-> s, called |-> FALSE] : s \in S}
        Reach[n \in 0 .. Cardinality(R)] ==
            IF n = 0 THEN start
            ELSE Reach[n - 1] \cup UNION {After(R, call, c) : c \in Reach[n - 1]}
    IN  {c.store : c \in {c \in Reach[Cardinality(R)] : c.at = q /\ c.called = (call # NoCall)}}

OwnFormals == IF fn.main THEN {} ELSE ToSet(Formals[fn.name])

\* Control comes to the function; a library's by way of main.0.
Start(globals, formals) ==
    /\ phase = "start"
    /\ fn.main => globals = [x \in Globals |-> UNINITIALIZED]
    /\ phase' = "run" /\ pos' = 1
    /\ mem' = [x \in Names |-> IF x \in Globals THEN globals[x]
                               ELSE IF x \in DOMAIN formals THEN formals[x] ELSE UNINITIALIZED]
    /\ LET b == fn.block[1]
           start == IF fn.main \/ fn.library THEN CallName("main") ELSE CallName(fn.name)
       IN  stores' = Along(written[<<"begin", 0>>] \cup written[<<"enter", b>>],
                           {mem'}, start, point[<<"enter", b>>], NoCall)
    /\ UNCHANGED <<fn, at, prev, dummies, tmps, written, point, came, val>>

PointBefore(i) ==
    IF i = FirstOf(fn.block[i]) THEN point[<<"enter", fn.block[i]>>] ELSE point[<<"inst", i - 1>>]

\* The instruction pos has been executed, with or without a call.
Executed(call) ==
    /\ stores' = Along(written[<<"inst", pos>>], stores, PointBefore(pos), point[<<"inst", pos>>], call)
    /\ IF Code[pos].op = "ret" THEN phase' = "end" /\ UNCHANGED pos
       ELSE IF pos = LastOf(fn.block[pos]) THEN phase' = "jump" /\ UNCHANGED pos
       ELSE pos' = pos + 1 /\ UNCHANGED phase
    /\ UNCHANGED <<fn, at, prev, dummies, tmps, written, point, came>>

Executing(ops) == phase = "run" /\ Code[pos].op \in ops

ValueOf(i, o) ==
    CASE o[1] = "constant" -> o[2]
      [] o[1] = "argument" -> mem[o[2]]
      [] OTHER -> val[i - o[2]]

\* An operation that makes a value, or none.
RunValue ==
    /\ Executing(Choosing \cup {"load", "binary", "icmp", "br"})
    /\ LET I == Code[pos]
           Value(k) == ValueOf(pos, I.args[k])
       IN  \E v \in CASE I.op = "load" -> {mem[I.to]}
                      [] I.op = "select" -> {Value(1), Value(2)}
                      [] I.op = "phi" -> {Value(k) : k \in {k \in DOMAIN I.args : I.preds[k] = came}}
                      [] OTHER -> {OK} :
              val' = [val EXCEPT ![pos] = v]
    /\ Executed(NoCall)
    /\ UNCHANGED mem

RunStore ==
    /\ Executing({"store"})
    /\ mem' = [mem EXCEPT ![Code[pos].to] = ValueOf(pos, Code[pos].args[1])]
    /\ Executed(NoCall)
    /\ UNCHANGED val

\* A callee without a body changes nothing and makes no error.
RunCall(c, value, globals) ==
    /\ Executing({"call"})
    /\ c \in Code[pos].callees
    /\ c \notin Tracked => value = OK
    /\ LET call == [callee |-> c, value |-> value, globals |-> globals]
           passed == [x \in Names |->
                        IF \E k \in DOMAIN Formals[c] : x = Formals[c][k]
                        THEN ValueOf(pos, Code[pos].args[CHOOSE k \in DOMAIN Formals[c] : x = Formals[c][k]])
                        ELSE mem[x]]
       IN  IF c \in Defined
           THEN mem' = Effect(call, passed) /\ Executed(call)
           ELSE /\ value = OK /\ globals = [x \in Globals |-> mem[x]]
                /\ mem' = mem /\ Executed(NoCall)
    /\ val' = [val EXCEPT ![pos] = value]

RunReturn ==
    /\ Executing({"ret"})
    /\ mem' = IF fn.main \/ Code[pos].args = << >> THEN mem
              ELSE [mem EXCEPT ![Return[fn.name]] = ValueOf(pos, Code[pos].args[1])]
    /\ Executed(NoCall)
    /\ UNCHANGED val

\* A variable that the branch has made safe holds no error (BranchSafetyPass).
Jump(b) ==
    /\ phase = "jump"
    /\ b \in fn.succ[fn.block[pos]]
    /\ \A x \in fn.safe[b] : mem[x] \notin Codes
    /\ phase' = "run" /\ pos' = FirstOf(b) /\ came' = fn.block[pos]
    /\ stores' = Along(written[<<"leave", came'>>] \cup written[<<"enter", b>>], stores,
                       point[<<"inst", pos>>], point[<<"enter", b>>], NoCall)
    /\ UNCHANGED <<fn, at, prev, dummies, tmps, written, point, mem, val>>

Next ==
    \/ BeginFunction \/ EnterBlock \/ LeaveBlock
    \/ VisitNothing \/ VisitIdle \/ VisitICmpInst
    \/ VisitStoreInst \/ VisitCallInst \/ VisitReturnInst
    \/ \E globals \in [Globals -> Values], formals \in [OwnFormals -> Codes \cup {OK}] :
          Start(globals, formals)
    \/ \E c \in Callees, value \in Codes \cup {OK}, globals \in [Globals -> Codes \cup {OK}] :
          RunCall(c, value, globals)
    \/ RunValue \/ RunStore \/ RunReturn
    \/ \E b \in Blocks : Jump(b)

Spec == Init /\ [][Next]_vars

-----------------------------------------------------------------------------
(* Correctness.                                                            *)

SameError(v, w) == v \in Codes \/ w \in Codes => v = w

\* A store of the rules and that of the execution hold the same errors, also in the
\* formals that the last call has filled and in the exchange variables.
Agrees(s) ==
    /\ \A x \in Globals \cup FormalNames \cup ReturnNames : SameError(s[x], mem[x])
    /\ phase # "end" => \A x \in Locals : SameError(s[x], mem[x])

\* Each execution is a run of the rules: wherever the function comes, through loads,
\* stores, calls by name or pointer, phis, branches and loops, the rules come to the
\* symbol of the same place with the same errors.
ExecutionFollowed == Running => \E s \in stores : Agrees(s)

\* If the function has no value with several names, its rules do nothing else.
RulesExact ==
    Running /\ (\A i \in Insts : Code[i].op \notin Choosing /\ Cardinality(Code[i].callees) < 2)
        => \A s \in stores : Agrees(s)

\* What a call returns and nobody saves stays in a temporary until the function
\* returns, so that it can be reported as unsaved.
Unsaved == {i \in Insts : Code[i].op = "call" /\ ~Saved(i) /\ val[i] \in Codes}
UnsavedKept ==
    phase \in {"run", "jump"} =>
        \E s \in stores : /\ Agrees(s)
                          /\ \A i \in Unsaved : \E t \in ToSet(tmps) : s[t] = val[i]

\* A comparison and a return name a variable that holds the operand's error after the
\* rule, if the operand is not one of several values.
Done(i) ==
    \/ phase = "end" /\ i = pos
    \/ phase = "run" /\ i = pos - 1 /\ fn.block[i] = fn.block[pos]
OperandsNamed ==
    \A i \in Insts, o \in Operands :
        /\ Done(i) /\ Code[i].op \in {"icmp", "ret"} /\ ~fn.main
        /\ o \in ToSet(Code[i].args) /\ ~IsMulti(i, o) /\ ValueOf(i, o) \in Codes
        => \E s \in stores, r \in written[<<"inst", i>>] :
              Agrees(s) /\ \E x \in r.asks : Read(s, x) = ValueOf(i, o)

\* Calls that return to one symbol are made at one place, as the call node that the
\* engine keeps for a return transition requires (InterGraph.cpp:79).
AllRules == UNION {written[w] : w \in DOMAIN written}
ReturnToOneCaller ==
    \A r, t \in AllRules :
        r.return # NoSymbol /\ r.return = t.return => r.from = t.from /\ (r # t => r.to # t.to)
=============================================================================
