--------------------------- MODULE MCCompressWpds ---------------------------
EXTENDS CompressWpds

CONSTANTS main, a, b, c, exit, Length

Rule(from, to, children, basis) == [from |-> from, to |-> to, children |-> children, basis |-> basis]
Edge(from, to) == Rule(from, <<to>>, {}, "identity")

MCSymbols == {main, a, b, c, exit}

\* Enough for sequences, joins, branches, loops, calls, a test without a line and
\* every kind of rule that ends a sequence.
SmallRules ==
    {Edge(main, a), Edge(a, b), Rule(b, <<c>>, {"pred"}, "identity"), Edge(c, a), Edge(a, c), Edge(b, exit), Edge(c, exit)}
        \cup {Rule(main, <<a>>, {}, "uninitialized"), Rule(a, <<b>>, {"set", "source"}, "identity"),
              Rule(b, <<c>>, {"pred", "source"}, "identity"), Rule(a, <<a, b>>, {}, "identity"),
              Rule(c, << >>, {}, "identity")}

MCFiles ==
    {f \in [1..Length -> SmallRules] :
        /\ \A i, j \in 1..Length : f[i] = f[j] => i = j
        /\ Len(f[Length].to) = 1 => \A i \in 1..Length : f[i].from # f[Length].to[1]}
=============================================================================
