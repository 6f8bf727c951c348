------------------------------ MODULE MCAnalyser ------------------------------
(* Five small programs: recursion and a loop, mutual recursion, a chain of *)
(* calls with an indirect call, calls on two branches, and a library       *)
(* without main, which starts in any of its functions.                     *)
EXTENDS Analyser, SequencesExt

CONSTANTS err, tentative, fReturn, g, x, f, h

MCReal == [t \in {tentative} |-> err]
MCReturn == [q \in {f, h} |-> IF q = f THEN fReturn ELSE NoReturn]
MCSymbols ==
    {"main.0", "m1", "m2", "m3", "m4", "m5", "m6", "m7", "m8", "f.0", "f1", "f2", "f3", "f4",
     "h.0", "h1", "h2", "h3", "e.0", "e1", "exit.0"}

MCOwner ==
    [s \in MCSymbols |-> CASE s \in {"f.0", "f1", "f2", "f3", "f4"} -> "f.0"
                          [] s \in {"h.0", "h1", "h2", "h3"} -> "h.0"
                          [] s \in {"e.0", "e1"} -> "e.0"
                          [] OTHER -> "main.0"]

WeightOf(basis, assigns) ==
    FoldLeft(LAMBDA w, a : Assign(w, a[1], a[2]), BasisWeight(basis), assigns)

Rule(s, to, basis, assigns) ==
    [from |-> s, to |-> to, weight |-> WeightOf(basis, assigns),
     callee |-> IF to # << >> /\ to[1] = "h.0" THEN h ELSE f]

Enter(s, to) == Rule(s, <<to>>, "identityGlobals", << >>)
Plain(s, to) == Rule(s, to, "identity", << >>)
Set(s, to, target, from) == Rule(s, to, "identity", <<<<target, from>>>>)
Main == Rule("main.0", <<"m1">>, "uninitialized", << >>)

Recursive ==
    {Main, Plain("m1", <<"f.0", "m2">>), Set("m2", <<"m3">>, x, fReturn), Plain("m3", <<"m1">>),
     Enter("f.0", "f1"), Set("f1", <<"f2">>, x, tentative), Set("f2", <<"f4">>, fReturn, x),
     Set("f1", <<"f.0", "f3">>, g, x), Set("f3", <<"f4">>, g, fReturn), Plain("f4", << >>),
     Plain("m3", <<"exit.0">>), Plain("f4", <<"exit.0">>)}

Mutual ==
    {Main, Plain("m1", <<"h.0", "m2">>), Set("m2", << >>, x, g),
     Enter("f.0", "f1"), Set("f1", <<"h.0", "f2">>, g, fReturn), Plain("f2", <<"f3">>),
     Set("f1", <<"f3">>, fReturn, tentative), Plain("f3", << >>),
     Enter("h.0", "h1"), Plain("h1", <<"f.0", "h2">>), Plain("h1", << >>), Set("h2", << >>, g, fReturn)}

Chain ==
    {Main, Plain("m1", <<"f.0", "m2">>), Set("m2", <<"f.0", "m3">>, g, fReturn),
     Plain("m2", <<"h.0", "m3">>), Set("m3", << >>, x, g),
     Enter("f.0", "f1"), Plain("f1", <<"h.0", "f2">>), Set("f2", <<"f3">>, fReturn, g),
     Set("f2", <<"f3">>, fReturn, OK), Plain("f3", << >>),
     Plain("m3", <<"e.0", "m4">>), Enter("e.0", "e1"), Plain("e1", <<"e1">>), Set("m4", << >>, g, x),
     Enter("h.0", "h1"), Set("h1", << >>, g, tentative)}

Branches ==
    {Main, Plain("m1", <<"m2">>), Plain("m1", <<"m3">>), Set("m1", <<"h.0", "m7">>, g, err),
     Plain("m2", <<"f.0", "m4">>), Plain("m3", <<"h.0", "m5">>), Set("m4", <<"m6">>, x, fReturn),
     Set("m5", <<"m6">>, x, g), Plain("m6", <<"m1">>), Set("m6", <<"f.0", "m8">>, fReturn, OK), Plain("m7", <<"m4">>),
     Enter("f.0", "f1"), Plain("f1", <<"f2">>), Set("f1", <<"f3">>, g, OK),
     Set("f2", <<"f4">>, fReturn, tentative), Set("f3", <<"f4">>, fReturn, g), Plain("f4", << >>),
     Enter("h.0", "h1"), Set("h1", <<"h2">>, x, g), Set("h1", <<"h3">>, x, tentative),
     Set("h2", << >>, fReturn, x), Set("h3", <<"h2">>, g, x)}

Library ==
    {Plain("main.0", <<"f.0">>), Plain("main.0", <<"h.0">>),
     Enter("f.0", "f1"), Set("f1", <<"f2">>, x, g), Set("f2", << >>, fReturn, x),
     Enter("h.0", "h1"), Set("h1", <<"f.0", "h2">>, g, err), Plain("h2", <<"exit.0">>), Set("h2", << >>, x, fReturn)}

MCPrograms == {Recursive, Mutual, Chain, Branches, Library}
=============================================================================
