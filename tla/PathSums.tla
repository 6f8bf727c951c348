------------------------------- MODULE PathSums -------------------------------
(***************************************************************************)
(* The join over all paths, as the least solution of Sharir and Pnueli's   *)
(* equations over the rules, with no automaton and no graph.  A context is *)
(* << >> before any call, and <<s>> in the activation that was entered at  *)
(* symbol s.                                                               *)
(***************************************************************************)
EXTENDS ErrorPds, Fixpoints

Contexts == {<< >>} \cup {<<r.to[1]>> : r \in {r \in program : IsPush(r)}}
EntryOf(context) == IF context = << >> THEN Start ELSE context[1]

Places == {<<s, context>> : s \in Symbols \cup {Epsilon}, context \in Contexts}

\* Rule r stays in its activation and leads to s.
Within(r, s) == IF s = Epsilon THEN IsPop(r) ELSE r.to = <<s>>

\* Push rule r returns to s; its callee can return, given the places of S.
Returns(r, s, S) == IsPush(r) /\ r.to[2] = s /\ <<Epsilon, <<r.to[1]>> >> \in S

\* The places that a path from the entry of the context comes to.
Reached ==
    LET further(S) == {x \in Places : \E r \in program :
            <<r.from, x[2]>> \in S /\ (Within(r, x[1]) \/ Returns(r, x[1], S))}
    IN  Repeated([S \in SUBSET Places |-> S \cup further(S)],
                 {<<EntryOf(context), context>> : context \in Contexts})

\* sum[<<s, context>>]: from the entry of the context to s in the same activation.
Summarise(reached, sum) ==
    LET Plain(s, context) ==
            {Extend(sum[<<r.from, context>>], r.weight) : r \in {r \in program : Within(r, s)}}
        Calls(s, context) ==
            {Merge(sum[<<r.from, context>>], r.weight, sum[<<Epsilon, <<r.to[1]>> >>], r.callee) :
                r \in {r \in program : Returns(r, s, reached)}}
    IN  [x \in Places |-> sum[x] \cup UNION (Plain(x[1], x[2]) \cup Calls(x[1], x[2]))]

Sums ==
    LET entries == [x \in Places |-> IF x[1] = EntryOf(x[2]) THEN One ELSE Zero]
    IN  Only({Repeated([sum \in [Places -> Weight] |-> Summarise(reached, sum)], entries)
                 : reached \in {Reached}})

\* entry[context]: from the start of the program to the entry of the context.
EntryWeights(sum, entry) ==
    LET CallsTo(context) == {Extend(entry[caller], Extend(sum[<<r.from, caller>>], r.weight)) :
            caller \in Contexts, r \in {r \in program : IsPush(r) /\ <<r.to[1]>> = context}}
    IN  [context \in Contexts |-> entry[context] \cup UNION CallsTo(context)]

Entries(sum) ==
    Repeated([entry \in [Contexts -> Weight] |-> EntryWeights(sum, entry)],
             [context \in Contexts |-> IF context = << >> THEN One ELSE Zero])

Join ==
    LET sum == Sums
        entry == Entries(sum)
    IN  [x \in Symbols \X Contexts |-> Extend(entry[x[2]], sum[x])]
=============================================================================
