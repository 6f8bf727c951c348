------------------------------ MODULE MCReports ------------------------------
EXTENDS Reports

CONSTANTS e1, t1, e2, t2, x, tmp, c, p, fReturn, hReturn, f, h

MCReal == t1 :> e1 @@ t2 :> e2
MCReturn == f :> fReturn @@ h :> hReturn
MCOrder == <<OK, UNINITIALIZED, e1, t1, e2, t2, p, fReturn, hReturn, x, tmp, c>>

Rule(line, basis, sets) == [line |-> line, basis |-> basis, sets |-> sets]
Sets(line, to, from) == Rule(line, "identity", to :> from)

\* A rule that sets x and tmp.
Start(sets) == Rule(2, "identity", sets)
Starts == {Start(x :> a @@ tmp :> b) : a \in Constants, b \in {OK, e1, t2}}

Assignments(located) ==
    {[kind |-> "assignment", at |-> "main", msgcode |-> code, targets |-> targets, located |-> located] :
        code \in {"overwrite", "outOfScope"}, targets \in {x :> OK, x :> e2, x :> tmp, x :> OK @@ tmp :> OK}}

\* Three paths join at a point.
Joins ==
    [tentative |-> BOOLEAN, start |-> "main", paths |-> Starts, joins |-> 3,
     rules |-> {}, calls |-> {}, exits |-> {}, max |-> 0,
     points |-> Assignments(TRUE) \cup Assignments(FALSE)
                    \cup {[kind |-> k, at |-> "main", vars |-> {x, tmp}] : k \in {"values", "iserr"}}
                    \cup {[kind |-> "return", at |-> "main", value |-> x]}]

Part(from, to, ways) == [from |-> from, to |-> to, ways |-> ways]
CallPart(from, to, line, sets, callee, entry) ==
    [from |-> from, to |-> to, rule |-> Rule(line, "identity", sets), calls |-> callee, entry |-> entry]

\* main:  while (...) { x = f(x) or f(f(x)) or h() or tmp = x; }
\* f(p):  do { c = p or a code; or c = h(); } while (...); return c, p, a code or h();
\* h():   return a code or p;
Calls ==
    [tentative |-> {FALSE}, start |-> "main", paths |-> {Start(x :> t1), Start(x :> e2)}, joins |-> 2, max |-> 13,
     calls |-> {CallPart("main", "fCalled", 11, p :> x, f, "f"),
                CallPart("fCalled", "fCalled", 12, p :> fReturn, f, "f"),
                CallPart("main", "hCalled", 13, << >>, h, "h"),
                CallPart("fBody", "hInF", 21, << >>, h, "h")},
     rules |-> {Part("fCalled", "main", << Sets(14, x, fReturn) >>),
                Part("hCalled", "main", << Sets(15, x, hReturn), Sets(16, tmp, x) >>),
                Part("f", "fBody", << Rule(22, "identityGlobals", << >>) >>),
                Part("fBody", "fEnd", << Sets(23, c, p), Sets(24, c, t2) >>),
                Part("hInF", "fEnd", << Sets(25, c, hReturn) >>),
                Part("hInF", "fExit", << Sets(26, fReturn, hReturn) >>),
                Part("fEnd", "fBody", << Sets(27, tmp, c) >>),
                Part("fEnd", "fExit", << Sets(28, fReturn, c), Sets(29, fReturn, p) >>),
                Part("h", "hBody", << Rule(31, "identityGlobals", << >>) >>),
                Part("hBody", "hExit", << Sets(32, hReturn, t2), Sets(33, hReturn, p) >>)},
     exits |-> {"fExit", "hExit"},
     points |-> {[kind |-> "values", at |-> "main", vars |-> {x}], [kind |-> "values", at |-> "fEnd", vars |-> {c}],
                 [kind |-> "return", at |-> "fExit", value |-> fReturn]}]

MCPrograms == [joins |-> Joins, calls |-> Calls]
=============================================================================
