---------------------------- MODULE CompressWpds ----------------------------
(***************************************************************************)
(* compress-wpds: four passes over a rules file.  The first two count the  *)
(* rules into and out of each symbol, the third finds sequences of rules   *)
(* that do nothing and gives the first of them a new target, the fourth    *)
(* prints what is left.                                                    *)
(***************************************************************************)
EXTENDS Naturals, Sequences, FiniteSets

CONSTANTS
    Symbols,   \* the stack symbols
    None,      \* the empty string
    Main,      \* main.0
    Files      \* the rules files, each a sequence of rules

VARIABLES
    file,             \* the rules file
    pass,             \* "count", "compress", "print", "done"
    next,             \* the Rule element that the parser comes to
    counters,         \* symbol |-> rules that lead to it and are kept
    countersFrom,     \* symbol |-> rules that leave it
    keys,             \* symbol |-> the symbol printed in its place
    oldKey,           \* target of the first rule of the open sequence
    newKey,           \* target of the last rule of it that is removed
    currentToStack1,  \* target of the last rule looked at
    output            \* the rules printed

vars == <<file, pass, next, counters, countersFrom, keys, oldKey, newKey, currentToStack1, output>>

\* The child elements of a Rule that stand for something in the program.
Children == {"set", "source", "unimplemented", "pred"}
RuleType ==
    [from : Symbols, to : Seq(Symbols), children : SUBSET Children,
     basis : {"identity", "identityGlobals", "uninitialized"}]

RulesOf(rules) == {rules[i] : i \in DOMAIN rules}

\* What RulesPass writes: the last rule is a pop or leads to exit.0, which no rule
\* leaves.
ASSUME FilesType ==
    /\ Main \in Symbols /\ None \notin Symbols
    /\ \A f \in Files :
          /\ f \in Seq(RuleType) /\ Len(f) > 0
          /\ \A r \in RulesOf(f) : Len(r.to) <= 2
          /\ LET last == f[Len(f)] IN Len(last.to) = 1 => \A r \in RulesOf(f) : r.from # last.to[1]

ToStack(r, n) == IF Len(r.to) >= n THEN r.to[n] ELSE None
IsIntra(r) == ToStack(r, 1) # None /\ ToStack(r, 2) = None

Init ==
    /\ file \in Files
    /\ pass = "count" /\ next = 1
    /\ counters = << >> /\ countersFrom = << >> /\ keys = << >>
    /\ oldKey = None /\ newKey = None /\ currentToStack1 = None
    /\ output = << >>

-----------------------------------------------------------------------------

RulesInto(s) ==
    Cardinality({i \in DOMAIN file : ToStack(file[i], 1) = s})
        + Cardinality({i \in DOMAIN file : ToStack(file[i], 2) = s})

RulesOutOf(s) == Cardinality({i \in DOMAIN file : file[i].from = s})

\* InitializeCounters and CountRules: main.0 is entered from outside.
Counted(s) == RulesInto(s) + (IF s = Main THEN 1 ELSE 0)

Count ==
    /\ pass = "count"
    /\ counters' = [s \in Symbols \cup {None} |-> Counted(s)]
    /\ countersFrom' = [s \in Symbols \cup {None} |-> RulesOutOf(s)]
    /\ keys' = [s \in Symbols |-> s]
    /\ pass' = "compress"
    /\ UNCHANGED <<file, next, oldKey, newKey, currentToStack1, output>>

\* Moving on to the next Rule element, or to the next pass.
Advance(following) ==
    IF next = Len(file)
    THEN next' = 1 /\ pass' = following
    ELSE next' = next + 1 /\ UNCHANGED pass

\* Mutant: the rule need not follow the one before it.
RemovableAnywhere(r) ==
    /\ IsIntra(r)
    /\ counters[r.to[1]] = 1 /\ countersFrom[r.from] = 1
    /\ r.basis = "identity" /\ r.children \cap {"set", "source", "unimplemented"} = {}

Removable(r) ==
    /\ IsIntra(r) /\ currentToStack1 \in {None, r.from}
    /\ counters[r.to[1]] = 1 /\ countersFrom[r.from] = 1
    /\ r.basis = "identity" /\ r.children \cap {"set", "source", "unimplemented"} = {}

\* The rule does nothing and joins the sequence.
RemoveRule ==
    LET r == file[next]
    IN  /\ pass = "compress" /\ Removable(r)
        /\ oldKey' = IF oldKey = None THEN r.to[1] ELSE oldKey
        /\ newKey' = r.to[1]
        /\ currentToStack1' = r.to[1]
        /\ counters' = [counters EXCEPT ![r.to[1]] = @ - 1]
        /\ Advance("print")
        /\ UNCHANGED <<file, countersFrom, keys, output>>

\* Mutant: the counter of the last target of the sequence stays at zero.
LeavingLast(c) == c

\* The rules that leave the last target of the sequence are printed.
KeepingLast(c) == IF newKey = None THEN c ELSE [c EXCEPT ![currentToStack1] = @ + 1]

Redirected(k) == IF newKey = None THEN k ELSE [k EXCEPT ![oldKey] = newKey]

\* The rule ends the sequence, if there is one.
KeepRule ==
    /\ pass = "compress" /\ ~Removable(file[next])
    /\ counters' = KeepingLast(counters)
    /\ keys' = Redirected(keys)
    /\ oldKey' = None /\ newKey' = None /\ currentToStack1' = None
    /\ Advance("print")
    /\ UNCHANGED <<file, countersFrom, output>>

Printed(r) == IsIntra(r) => counters[r.from] # 0
WithKeys(r) == [r EXCEPT !.to = [n \in DOMAIN r.to |-> keys[r.to[n]]]]

PrintRule ==
    /\ pass = "print"
    /\ output' = IF Printed(file[next]) THEN Append(output, WithKeys(file[next])) ELSE output
    /\ Advance("done")
    /\ UNCHANGED <<file, counters, countersFrom, keys, oldKey, newKey, currentToStack1>>

Next == Count \/ RemoveRule \/ KeepRule \/ PrintRule
Spec == Init /\ [][Next]_vars

-----------------------------------------------------------------------------
(* Properties.                                                             *)

\* A rule that does nothing.  FRule::format writes the operands of a test (pred) with
\* or without a line (source), and CompressRules does not look at pred: a test that
\* has no line counts as nothing here, and may be lost.
Idle(r) == Len(r.to) = 1 /\ r.basis = "identity" /\ r.children \subseteq {"pred"}

\* The symbols that idle rules lead to from symbol s: those in every set that holds s
\* and that no idle rule leads out of.
IdleEdges(rules) == {<<r.from, r.to[1]>> : r \in {r \in rules : Idle(r)}}
After(rules, s) ==
    LET edges == IdleEdges(rules)
        within == {s} \cup {e[2] : e \in edges}
        closed == {S \in SUBSET within : s \in S /\ \A e \in edges : e[1] \in S => e[2] \in S}
    IN  {q \in within : \A S \in closed : q \in S}

\* The rules that can be the next to do something at symbol s.
ComingRules(rules, s) ==
    LET after == After(rules, s)
    IN  {[r EXCEPT !.from = s] : r \in {r \in rules : ~Idle(r) /\ r.from \in after}}

\* The symbols at which the program gets after doing something: those in every set that
\* holds Main and whatever the rules that come at a member of it lead to.
Visited(rules) ==
    LET following == [s \in Symbols |-> UNION {RulesOf(r.to) : r \in ComingRules(rules, s)}]
        closed == {S \in SUBSET Symbols : Main \in S /\ \A s \in S : following[s] \subseteq S}
    IN  {q \in Symbols : \A S \in closed : q \in S}

\* The printed file does what the original does: wherever the program gets, the
\* same rules come next, up to the idle ones between them, tests without a line
\* included (PrintRules drops the intra rules of a symbol whose counter is zero and
\* prints keys for targets).
SameBehaviour ==
    pass = "done" =>
        \A s \in Visited(RulesOf(file)) :
            ComingRules(RulesOf(file), s) = ComingRules(RulesOf(output), s)

Into(i) == file[i].to[1]

\* The rules from i to the last one looked at are idle and one leads to the next;
\* no other rule leads to a target of theirs, and the counters of the targets are zero.
Sequence(i) ==
    /\ \A k \in i .. next - 1 : Idle(file[k]) /\ RulesInto(Into(k)) = 1 /\ counters[Into(k)] = 0
    /\ \A k \in i .. next - 2 : file[k + 1].from = Into(k)

\* The rule that leads to s was removed, and so will be the one that leaves it.
LeadsToIdle(k, s) ==
    /\ Idle(file[k]) /\ Into(k) = s /\ RulesInto(s) = 1
    /\ k < next - 1 => file[k + 1].from = s /\ Idle(file[k + 1]) /\ RulesOutOf(s) = 1

\* An open sequence leads by idle rules from its first target to its last, and no
\* other rule leads to any of them; a symbol of any sequence that has lost its count
\* is entered by one idle rule and left by one, if the parser is past it
\* (CompressRules pairs counters, oldKey and newKey by hand).
SequenceIntact ==
    pass = "compress" =>
        /\ newKey # None =>
              \E i \in 1 .. next - 1 :
                  /\ Sequence(i) /\ oldKey = Into(i)
                  /\ newKey = Into(next - 1) /\ currentToStack1 = newKey
        /\ \A s \in Symbols : counters[s] # Counted(s) =>
              counters[s] = 0 /\ \E k \in 1 .. next - 1 : LeadsToIdle(k, s)

-----------------------------------------------------------------------------
(* Why: what the handlers have made of the counters and the keys by the    *)
(* time they have looked at some of the rules.                             *)

Seen == IF pass = "compress" THEN next - 1 ELSE Len(file)

CompressType ==
    /\ file \in Files /\ pass \in {"count", "compress", "print", "done"} /\ next \in DOMAIN file
    /\ {oldKey, newKey, currentToStack1} \subseteq Symbols \cup {None} /\ output \in Seq(RuleType)
    /\ pass \in {"count", "compress"} => output = << >>
    /\ pass = "count" => next = 1 /\ newKey = None /\ oldKey = None /\ currentToStack1 = None
    /\ pass # "count" => /\ keys \in [Symbols -> Symbols] /\ DOMAIN counters = Symbols \cup {None}
                         /\ countersFrom = [s \in Symbols \cup {None} |-> RulesOutOf(s)]

\* The rules behind which no rule is printed: those removed, except the last one of
\* each sequence that has ended.
Dropped == {i \in 1 .. Seen : IsIntra(file[i]) /\ counters[Into(i)] = 0}

\* A sequence that begins with rule i and has ended with rule j; those between are dropped.
Ended(i, j) ==
    /\ i \in 1 .. Seen /\ j \in 1 .. Seen /\ i < j
    /\ i - 1 \notin Dropped /\ j \notin Dropped /\ \A k \in i .. j - 1 : k \in Dropped

Open(i) == i \in 1 .. Seen /\ i - 1 \notin Dropped /\ \A k \in i .. Seen : k \in Dropped

\* A counter is right or, between the rules of a sequence, zero; there the one rule in
\* is followed by the one rule out, and both are idle.
DroppedRight ==
    /\ \A s \in Symbols : counters[s] = IF \E i \in Dropped : s = Into(i) THEN 0 ELSE Counted(s)
    /\ \A i \in Dropped :
          /\ Idle(file[i]) /\ Counted(Into(i)) = 1
          /\ i < Seen => file[i + 1].from = Into(i) /\ Idle(file[i + 1]) /\ RulesOutOf(Into(i)) = 1

\* The keys in hand are those of the sequence that the last rule belongs to, if any.
SequenceRight ==
    pass = "compress" =>
        IF Seen \in Dropped
        THEN /\ newKey = Into(Seen) /\ currentToStack1 = newKey
             /\ \E i \in 1 .. Seen : Open(i) /\ oldKey = Into(i)
             /\ newKey \in After(RulesOf(file), oldKey)
        ELSE newKey = None /\ oldKey = None /\ currentToStack1 = None

\* A key is that of the first target of a sequence, and idle rules lead to it.
KeysRight ==
    /\ \A i, j \in DOMAIN file : Ended(i, j) => keys[Into(i)] = Into(j)
    /\ \A s \in Symbols : keys[s] # s =>
          /\ \E i, j \in DOMAIN file : Ended(i, j) /\ s = Into(i)
          /\ keys[s] \in After(RulesOf(file), s)

OutputRight ==
    LET printed == IF pass = "done" THEN Len(file) ELSE IF pass = "print" THEN next - 1 ELSE 0
    IN  RulesOf(output) = {WithKeys(file[i]) : i \in {i \in 1 .. printed : Printed(file[i])}}

\* What the passes have done so far, rule by rule: the counters that CompressRules takes
\* down and puts back, the keys and the rules printed are those of the sequences of idle
\* rules that it has looked at (CompressRules.cpp:98-127, PrintRules.cpp).
CompressInv ==
    /\ CompressType
    /\ pass # "count" => DroppedRight /\ SequenceRight /\ KeysRight /\ OutputRight
=============================================================================
