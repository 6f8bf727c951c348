----------------------------- MODULE MCRulesPass -----------------------------
(***************************************************************************)
(* Functions as clang writes them without optimisation: each statement     *)
(* loads what it needs and stores what it makes.                           *)
(***************************************************************************)
EXTENDS RulesPass, TLC

CONSTANTS e, g, x, t1, t2, t3, t4, f, h, ext, ptr, argF, retF, retH, retE

MCTemporaries == <<t1, t2, t3, t4>>
MCFormals == f :> <<argF>> @@ h :> << >>
MCReturn == f :> retF @@ h :> retH @@ ext :> retE

Inst(op, args, to, callees) ==
    [op |-> op, args |-> args, to |-> to, callees |-> callees, preds |-> << >>]
Const(c) == <<"constant", c>>
Back(n) == <<"back", n>>
Store(o, to) == Inst("store", <<o>>, to, {})
Load(from) == Inst("load", << >>, from, {})
Call(c, o) == Inst("call", <<o>>, x, c)
Br == Inst("br", << >>, x, {})
ICmp(o) == Inst("icmp", <<o, Const(OK)>>, x, {})
Phi(o, p, q) == [Inst("phi", o, x, {}) EXCEPT !.preds = <<p, q>>]

Statements == {
    <<Store(Const(e), x)>>,                                  \* x = EC
    <<Load(g), Store(Back(1), x)>>,                          \* x = g
    <<Load(x), Store(Back(1), g)>>,                          \* g = x
    <<Load(x), Call({f}, Back(1)), Store(Back(1), x)>>,      \* x = f(x)
    <<Load(x), Call({f}, Back(1))>>,                         \* f(x)
    <<Call({f, h}, Const(e)), Store(Back(1), x)>>,           \* x = (*p)(EC)
    <<Load(x), Call({f, h}, Back(1))>>,                      \* (*p)(x)
    <<Call({f, ext}, Const(OK))>>,                           \* (*p)(0), one callee is only declared
    <<Call({ptr}, Const(OK))>>,                              \* a call through a parameter
    <<Load(x), Inst("binary", <<Back(1)>>, x, {}), Store(Back(1), x)>>, \* x = x + 1
    <<Load(x), Load(g), Inst("select", <<Back(2), Back(1)>>, x, {}), Store(Back(1), x)>>, \* x = c ? x : g
    <<Load(x), Load(g), Inst("select", <<Back(2), Back(1)>>, x, {}), Call({f}, Back(1))>>} \* f(c ? x : g)

Returns == {
    <<Inst("ret", << >>, x, {})>>,
    <<Load(x), Inst("ret", <<Back(1)>>, x, {})>>,
    <<Call({h}, Const(OK)), Inst("ret", <<Back(1)>>, x, {})>>}

Copies(b, n) == [i \in 1 .. n |-> b]
Fn(main, library, code, block, succ, safe) ==
    [name |-> f, main |-> main, library |-> library, code |-> code, block |-> block,
     succ |-> succ, safe |-> safe]

\* a; b; return
Straight(a, b, r, main, library) ==
    LET code == a \o b \o r
    IN  Fn(main, library, code, Copies(1, Len(code)), <<{}>>, <<{}>>)

Test == <<Load(x), ICmp(Back(1)), Br>>

\* if (x != 0) { a } else { b }; return
Branch(a, b, r) ==
    Fn(FALSE, FALSE, Test \o a \o <<Br>> \o b \o <<Br>> \o r,
       Copies(1, 3) \o Copies(2, Len(a) + 1) \o Copies(3, Len(b) + 1) \o Copies(4, Len(r)),
       <<{2, 3}, {4}, {4}, {}>>, <<{}, {}, {x}, {}>>)

\* while (x != 0) { a }; return
While(a, r) ==
    Fn(FALSE, FALSE, <<Store(Const(e), x), Br>> \o Test \o a \o <<Br>> \o r,
       Copies(1, 2) \o Copies(2, 3) \o Copies(3, Len(a) + 1) \o Copies(4, Len(r)),
       <<{2}, {3, 4}, {2}, {}>>, <<{}, {}, {}, {x}>>)

\* return c ? g : f(EC), by a phi
Choice(a) ==
    Fn(FALSE, FALSE,
       a \o <<Br>> \o <<Load(g), Br>> \o <<Call({f}, Const(e)), Br>>
         \o <<Phi(<<Back(4), Back(2)>>, 2, 3), Inst("ret", <<Back(1)>>, x, {})>>,
       Copies(1, Len(a) + 1) \o Copies(2, 2) \o Copies(3, 2) \o Copies(4, 2),
       <<{2, 3}, {4}, {4}, {}>>, <<{}, {}, {}, {}>>)

MCFunctions ==
    {Straight(a, b, r, FALSE, FALSE) : a \in Statements, b \in Statements, r \in Returns}
      \cup {Straight(a, b, <<Load(x), Inst("ret", <<Back(1)>>, x, {})>>, main, ~main) :
               a \in Statements, b \in Statements, main \in BOOLEAN}
      \cup {Branch(a, b, r) : a \in Statements, b \in Statements, r \in Returns}
      \cup {While(a, r) : a \in Statements, r \in Returns}
      \cup {Choice(a) : a \in Statements}
=============================================================================
