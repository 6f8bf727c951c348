---------------------------- MODULE MCBranchSafety ----------------------------
EXTENDS BranchSafety

CONSTANTS entry, a, b, c, x, y

Test(predicate, var, is_err, num, right) ==
    [kind |-> "branch", predicate |-> predicate, var |-> var, is_err |-> is_err, num |-> num,
     right_constant |-> right]

Branch(t, yes, no) ==
    [kind |-> "branch", predicate |-> t.predicate, var |-> t.var, is_err |-> t.is_err, num |-> t.num,
     right_constant |-> t.right_constant, to |-> [d \in {"T", "F"} |-> IF d = "T" THEN yes ELSE no]]

Goto(to) == [kind |-> "goto", to |-> to]
Return == [kind |-> "return"]

MCBlocks == {entry, a, b, c}

ZeroTests ==
    {Test(p, x, FALSE, 0, r) : p \in Predicates, r \in BOOLEAN}
        \cup {Test(p, x, TRUE, 0, TRUE) : p \in {"EQ", "NE"}}
CodeTests == {Test(p, x, FALSE, n, TRUE) : p \in {"EQ", "NE"}, n \in {-2, 1, 3}}
OrderedCodeTests == {Test(p, x, FALSE, n, TRUE) : p \in {"SLT", "SGE"}, n \in {-2, -1}}
LaterTests == {Test("SLT", y, FALSE, 0, TRUE), Test("NE", x, FALSE, 0, TRUE)}

Pairs == {p \in {a, b, c} \X {a, b, c} : p[1] # p[2]}

\* A test, perhaps another one after it, and a block behind that may lead back or to itself.
Graphs(tests) ==
    {[n \in MCBlocks |->
        CASE n = entry -> [stores |-> {}, end |-> Branch(t, p[1], p[2])]
          [] n = a -> [stores |-> s, end |-> e]
          [] n = b -> [stores |-> {}, end |-> f]
          [] n = c -> [stores |-> {}, end |-> Return]] :
        t \in tests, p \in Pairs, s \in {{}, {x}},
        e \in {Goto(b), Goto(c), Return} \cup {Branch(u, q[1], q[2]) : u \in LaterTests, q \in {<<b, c>>, <<c, b>>}},
        f \in {Goto(a), Goto(b), Goto(c), Return}}

MixedFunctions == Graphs(ZeroTests \cup CodeTests \cup OrderedCodeTests)

\* if (x < code) { a; return } b
ComparingFunctions ==
    {g \in Graphs(OrderedCodeTests) : g[entry].end.to["T"] = a /\ g[a].end = Return /\ g[b].end = Return}

\* if (x < 0) { a; b } c
JoiningFunctions ==
    {g \in Graphs({Test("SLT", x, FALSE, 0, TRUE)}) :
        /\ g[entry].end.to["T"] = a /\ g[entry].end.to["F"] = c
        /\ g[a] = [stores |-> {}, end |-> Goto(b)] /\ g[b].end = Goto(c)}

BothSigns == {{-2, -1}, {1, 2}}
NegativeCodes == {{-2, -1}}
SmallValues == -2..2
=============================================================================
