------------------------- MODULE BranchSafety_proofs -------------------------
(***************************************************************************)
(* A variable that the pass calls safe in a block holds no error code      *)
(* there, wherever only tests of it lead to the block or one branch and    *)
(* the block of its body do, for codes of one sign and integers of any     *)
(* size; and every test of zero is recognised.  The functions are any.     *)
(***************************************************************************)
EXTENDS BranchSafety, TLAPS

\* What a conditional branch consists of.
LEMMA BranchTyped ==
    ASSUME IsFunction(graph), NEW m \in Blocks, graph[m].end.kind = "branch"
    PROVE  LET t == graph[m].end
           IN  /\ t.predicate \in Predicates /\ t.var \in Vars /\ t.is_err \in BOOLEAN /\ t.num \in Int
               /\ t.right_constant \in BOOLEAN /\ t.to \in [{"T", "F"} -> Blocks]
               /\ t.is_err => t.predicate \in {"EQ", "NE"} /\ t.num = 0
<1>1. graph[m].end \in BranchType \cup [kind : {"goto"}, to : Blocks] \cup {[kind |-> "return"]}
    BY DEF IsFunction, BlockType
<1>2. graph[m].end \in BranchType
    BY <1>1
<1> QED
    BY <1>2 DEF BranchType, IsFunction

\* The direction that the switch on the predicate chooses: signed comparisons with
\* zero and comparisons for equality with zero, by the side of the constant and
\* the sign of the codes.
LEMMA SafeDirection ==
    ASSUME NEW t, t.predicate \in Predicates, t.right_constant \in BOOLEAN
    PROVE  /\ t.predicate \in {"SLE", "SLT"} =>
                SafeBranch(t) = IF Positive <=> t.right_constant THEN "T" ELSE "F"
           /\ t.predicate \in {"SGE", "SGT"} =>
                SafeBranch(t) = IF Positive <=> t.right_constant THEN "F" ELSE "T"
           /\ t.predicate = "EQ" => SafeBranch(t) = IF t.num = 0 THEN "T" ELSE "N"
           /\ t.predicate = "NE" => SafeBranch(t) = IF t.num = 0 THEN "F" ELSE "N"
           /\ t.predicate = "ULT" => SafeBranch(t) = "N"
BY DEF SafeBranch, Direction, Flip, Predicates

\* Codes have one sign.
LEMMA CodeSigns ==
    ASSUME error_names \in CodeLists
    PROVE  /\ error_names # {} /\ error_names \subseteq Int
           /\ Positive => \A c \in error_names : c > 0
           /\ ~Positive => \A c \in error_names : c < 0
<1>1. /\ error_names # {} /\ error_names \subseteq Int
      /\ (\A c \in error_names : c < 0) \/ (\A c \in error_names : c > 0)
    BY CodesType
<1> QED
    BY <1>1 DEF Positive

\* No error code brings a run through a test of zero in the direction chosen, and
\* every error code in the other.
LEMMA DirectionSafe ==
    ASSUME error_names \in CodeLists, IsFunction(graph), NEW m \in Blocks, graph[m].end.kind = "branch",
           graph[m].end.num = 0, SafeBranch(graph[m].end) # "N", NEW n \in error_names
    PROVE  /\ Holds(graph[m].end, n) <=> SafeBranch(graph[m].end) = "F"
           /\ SafeBranch(graph[m].end) \in {"T", "F"}
<1> DEFINE t == graph[m].end
<1>1. /\ t.predicate \in Predicates /\ t.is_err \in BOOLEAN /\ t.right_constant \in BOOLEAN
      /\ t.is_err => t.predicate \in {"EQ", "NE"}
    BY BranchTyped
<1>2. n \in Int /\ (Positive => n > 0) /\ (~Positive => n < 0)
    BY CodeSigns
<1>3. CASE t.predicate \in Ordered
  <2>1. Holds(t, n) <=> IF t.right_constant THEN Compare(t.predicate, n, 0) ELSE Compare(t.predicate, 0, n)
      BY <1>1, <1>3 DEF Holds, Ordered
  <2>2. CASE t.predicate = "SLT"
      BY <1>1, <1>2, <2>1, <2>2, SafeDirection DEF Compare
  <2>3. CASE t.predicate = "SLE"
      BY <1>1, <1>2, <2>1, <2>3, SafeDirection DEF Compare
  <2>4. CASE t.predicate = "SGT"
      BY <1>1, <1>2, <2>1, <2>4, SafeDirection DEF Compare
  <2>5. CASE t.predicate = "SGE"
      BY <1>1, <1>2, <2>1, <2>5, SafeDirection DEF Compare
  <2> QED
      BY <1>3, <2>2, <2>3, <2>4, <2>5 DEF Ordered
<1>4. CASE t.predicate \in {"EQ", "NE"}
  <2> DEFINE operand == IF ~t.is_err THEN n ELSE IF n \in error_names THEN 1 ELSE 0
  <2>1. operand # 0 /\ operand \in Int
      BY <1>1, <1>2
  <2>2. Holds(t, n) <=> IF t.right_constant THEN Compare(t.predicate, operand, 0) ELSE Compare(t.predicate, 0, operand)
      BY DEF Holds
  <2> HIDE DEF operand
  <2>3. CASE t.predicate = "EQ"
      BY <1>1, <2>1, <2>2, <2>3, SafeDirection DEF Compare
  <2>4. CASE t.predicate = "NE"
      BY <1>1, <2>1, <2>2, <2>4, SafeDirection DEF Compare
  <2> QED
      BY <1>4, <2>3, <2>4
<1>5. CASE t.predicate = "ULT"
    BY <1>1, <1>5, SafeDirection
<1> QED
    BY <1>1, <1>3, <1>4, <1>5 DEF Predicates, Ordered

-----------------------------------------------------------------------------

\* What makes a variable safe is the test of a branch, in a direction that the pass
\* chooses.
LEMMA SafeTestTyped ==
    ASSUME SafetyType, NEW m \in Blocks, NEW d, MakesSafe(m, d)
    PROVE  /\ graph[m].end.kind = "branch"
           /\ d = SafeBranch(graph[m].end) /\ d \in {"T", "F"} /\ SafeBranch(graph[m].end) # "N"
           /\ graph[m].end.to[d] \in Blocks /\ graph[m].end.to[Flip(d)] \in Blocks
           /\ graph[m].end.to[d] \in Successors(m)
           /\ graph[m].end.var \in Vars
<1> DEFINE t == graph[m].end
<1>1. t.kind = "branch" /\ d = SafeBranch(t) /\ d # "N"
    BY DEF MakesSafe
<1>2. /\ t.predicate \in Predicates /\ t.right_constant \in BOOLEAN
      /\ t.to \in [{"T", "F"} -> Blocks] /\ t.var \in Vars
    BY <1>1, BranchTyped DEF SafetyType
<1>3. d \in {"T", "F"}
    BY <1>1, <1>2, SafeDirection DEF Predicates
<1>4. Flip(d) \in {"T", "F"}
    BY <1>3 DEF Flip
<1> QED
    BY <1>1, <1>2, <1>3, <1>4 DEF Successors, Targets

\* It is a test of zero if order is only asked for with zero: of a comparison with a code
\* for equality the pass chooses no direction.
LEMMA SafeTestsZero ==
    ASSUME SafetyType, NEW m \in Blocks, NEW d, MakesSafe(m, d),
           graph[m].end.predicate \in Ordered => graph[m].end.num = 0
    PROVE  graph[m].end.num = 0
<1> DEFINE t == graph[m].end
<1>1. t.kind = "branch" /\ SafeBranch(t) # "N"
    BY SafeTestTyped
<1>2. t.predicate \in Predicates /\ t.right_constant \in BOOLEAN
    BY <1>1, BranchTyped DEF SafetyType
<1>3. (t.predicate \in {"EQ", "NE"} => t.num = 0) /\ t.predicate # "ULT"
    BY <1>1, <1>2, SafeDirection DEF Predicates
<1> QED
    BY <1>2, <1>3 DEF Predicates, Ordered

\* What tests make safe depends on the function and the codes only.
LEMMA TestsKept ==
    ASSUME UNCHANGED <<error_names, graph>>
    PROVE  \A n, e : MakesSafe(n, e)' <=> MakesSafe(n, e)
BY DEF MakesSafe, SafeBranch, Direction, Positive, Joins, Successors

\* At the start no test is visited and nothing is safe.
LEMMA InitInv == Init => SafetyInv
<1> SUFFICES ASSUME Init
             PROVE  SafetyInv
    OBVIOUS
<1>1. SafetyType
    BY FunctionsType DEF Init, SafetyType
<1>2. ASSUME NEW m \in Blocks \ unvisited, NEW d
      PROVE  ~MakesSafe(m, d)
    BY <1>2 DEF Init, MakesSafe
<1>3. SafeByTest
    BY <1>2 DEF Init, SafeByTest
<1> QED
    BY <1>1, <1>3 DEF Init, SafetyInv, SafeWhereTested

\* A visit makes the variable of its test safe, and no other.
LEMMA VisitInv ==
    ASSUME SafetyInv, NEW m \in Blocks, VisitBranchInst(m)
    PROVE  SafetyInv'
<1> USE DEF SafetyInv
<1> DEFINE t == graph[m].end
           d == SafeBranch(t)
<1>1. /\ phase = "analyse" /\ m \in unvisited /\ unvisited' = unvisited \ {m}
      /\ UNCHANGED <<error_names, graph, phase, block, store>>
    BY DEF VisitBranchInst
<1>2. \A n \in Blocks, e \in {"T", "F"} : MakesSafe(n, e)' <=> MakesSafe(n, e)
    BY <1>1, TestsKept
<1>3. CASE MakesSafe(m, d)
  <2>1. safe_values' = [safe_values EXCEPT ![t.to[d]] = @ \cup {t.var}]
      BY <1>3 DEF VisitBranchInst, MakesSafe
  <2>2. t.to[d] \in Blocks /\ t.var \in Vars /\ d \in {"T", "F"}
      BY <1>3, SafeTestTyped
  <2>3. \A e : MakesSafe(m, e) => e = d
      BY DEF MakesSafe
  <2> HIDE DEF d
  <2>4. SafetyType'
      BY <1>1, <2>1, <2>2 DEF SafetyType
  <2>5. ASSUME NEW b \in Blocks, NEW v \in safe_values'[b]
        PROVE  \E n \in Blocks, e \in {"T", "F"} : MakesSafe(n, e) /\ b = graph[n].end.to[e] /\ v = graph[n].end.var
    <3>1. CASE v \in safe_values[b]
        BY <3>1 DEF SafeByTest
    <3>2. CASE v \notin safe_values[b]
        BY <1>3, <2>1, <2>2, <2>5, <3>2 DEF SafetyType
    <3> QED
        BY <3>1, <3>2
  <2>6. ASSUME NEW n \in Blocks \ unvisited', NEW e \in {"T", "F"}, MakesSafe(n, e)
        PROVE  graph[n].end.var \in safe_values'[graph[n].end.to[e]]
    <3>1. CASE n = m
        BY <2>1, <2>2, <2>3, <2>6, <3>1 DEF SafetyType
    <3>2. CASE n # m
      <4>1. graph[n].end.var \in safe_values[graph[n].end.to[e]]
          BY <1>1, <2>6, <3>2 DEF SafeByTest
      <4> QED
          BY <2>1, <2>2, <4>1 DEF SafetyType
    <3> QED
        BY <3>1, <3>2
  <2>7. SafeByTest'
      BY <1>1, <1>2, <2>5, <2>6 DEF SafeByTest
  <2> QED
      BY <1>1, <2>4, <2>7 DEF SafeWhereTested
<1>4. CASE ~MakesSafe(m, d)
  <2>1. t.kind = "branch" => UNCHANGED safe_values
      BY <1>4 DEF VisitBranchInst, MakesSafe
  <2>2. \A e : ~MakesSafe(m, e)
      BY <1>4 DEF MakesSafe
  <2>3. t.kind = "branch"
      BY <1>1 DEF SafetyType
  <2>4. SafetyType'
      BY <1>1, <2>1, <2>3 DEF SafetyType
  <2>5. SafeByTest'
      BY <1>1, <1>2, <2>1, <2>2, <2>3 DEF SafeByTest
  <2> QED
      BY <1>1, <2>4, <2>5 DEF SafeWhereTested
<1> QED
    BY <1>3, <1>4

\* Nothing leads to the first block, and nothing is safe in it.
LEMMA EndPassInv == SafetyInv /\ EndPass => SafetyInv'
<1> SUFFICES ASSUME SafetyInv, EndPass
             PROVE  SafetyInv'
    OBVIOUS
<1> USE DEF SafetyInv
<1>1. /\ block = Entry /\ unvisited = {} /\ phase' = "run"
      /\ UNCHANGED <<error_names, graph, unvisited, safe_values, block, store>>
    BY DEF EndPass, SafetyType
<1>2. ASSUME NEW v \in safe_values[Entry]
      PROVE  FALSE
  <2>1. PICK m \in Blocks, d \in {"T", "F"} : MakesSafe(m, d) /\ Entry = graph[m].end.to[d]
      BY <1>2, FunctionsType DEF SafeByTest
  <2>2. Entry \in Targets(graph[m].end)
      BY <2>1, SafeTestTyped DEF Successors
  <2> QED
      BY <2>2 DEF SafetyType, IsFunction
<1>3. SafetyType'
    BY <1>1 DEF SafetyType
<1>4. SafeByTest'
    BY <1>1, TestsKept DEF SafeByTest
<1> QED
    BY <1>1, <1>2, <1>3, <1>4 DEF SafeWhereTested

\* A run comes to the block after an if in which a variable is safe by the branch itself:
\* the body does not lead there, or nothing would be safe.
LEMMA IfPassed ==
    ASSUME SafetyType, SafeByTest, UNCHANGED <<error_names, graph, safe_values>>, AfterIf(block)',
           block' \in Successors(block), block' \in Blocks, NEW v \in safe_values[block']
    PROVE  LET t == graph[block].end
           IN  /\ t.kind = "branch" /\ t.to["T"] # t.to["F"] /\ (t.predicate \in Ordered => t.num = 0)
               /\ t.var = v /\ \E d \in {"T", "F"} : MakesSafe(block, d) /\ t.to[d] = block'
<1>1. PICK m \in Blocks :
          LET t == graph[m].end
          IN  /\ t.kind = "branch" /\ t.to["T"] # t.to["F"] /\ (t.predicate \in Ordered => t.num = 0)
              /\ \A n \in Blocks :
                    block' \in Successors(n) =>
                        n = m \/ (n \in Successors(m) \ {block'} /\ graph[n].end.kind = "goto")
    BY DEF AfterIf, OneWayTo, Successors
<1>2. PICK n \in Blocks, d \in {"T", "F"} :
          MakesSafe(n, d) /\ block' = graph[n].end.to[d] /\ v = graph[n].end.var
    BY DEF SafeByTest
<1>3. n = m
    BY <1>1, <1>2, SafeTestTyped
<1>4. block \in Blocks /\ block' \notin Successors(graph[m].end.to[Flip(d)])
    BY <1>2, <1>3 DEF MakesSafe, Joins, SafetyType
<1>5. Successors(m) = {graph[m].end.to[d], graph[m].end.to[Flip(d)]}
    BY <1>1 DEF Successors, Targets, Flip
<1>6. block = m
    BY <1>1, <1>2, <1>3, <1>4, <1>5
<1> QED
    BY <1>1, <1>2, <1>3, <1>6

\* A run comes to a block in which a variable is safe by the test that made it so,
\* in the direction that no error code takes.
LEMMA RunInv == SafetyInv /\ RunBlock => SafetyInv'
<1> SUFFICES ASSUME SafetyInv, RunBlock
             PROVE  SafetyInv'
    OBVIOUS
<1> USE DEF SafetyInv
<1>1. /\ phase = "run" /\ UNCHANGED <<error_names, graph, phase, unvisited, safe_values>>
      /\ store' \in [Vars -> Values] /\ Leave(store')
    BY DEF RunBlock
<1>2. block' \in Successors(block) /\ block' \in Blocks
  <2>1. graph[block].end \in BranchType \cup [kind : {"goto"}, to : Blocks] \cup {[kind |-> "return"]}
      BY DEF SafetyType, IsFunction, BlockType
  <2>2. graph[block].end.kind \in {"branch", "goto"}
    <3>1. graph[block].end.kind \in {"branch", "goto", "return"}
        BY <2>1 DEF BranchType
    <3>2. graph[block].end.kind # "return"
        BY <1>1 DEF Leave
    <3> QED
        BY <3>1, <3>2
  <2>3. CASE graph[block].end.kind = "branch"
      BY <1>1, <2>3, BranchTyped DEF Leave, Successors, Targets, SafetyType
  <2>4. CASE graph[block].end.kind = "goto"
    <3>1. graph[block].end.to \in Blocks
        BY <2>1, <2>4 DEF BranchType
    <3> QED
        BY <1>1, <2>4, <3>1 DEF Leave, Successors, Targets
  <2> QED
      BY <2>2, <2>3, <2>4
<1>3. SafetyType'
    BY <1>1, <1>2 DEF SafetyType
<1>4. SafeByTest'
    BY <1>1, TestsKept DEF SafeByTest
<1>5. ASSUME NEW v \in safe_values'[block'], (AfterIf(block) \/ TestedOnEntry(block, v))', store'[v] \in error_names'
      PROVE  FALSE
  <2> DEFINE t == graph[block].end
  <2>1. /\ t.kind = "branch" /\ t.to["T"] # t.to["F"] /\ (t.predicate \in Ordered => t.num = 0)
        /\ t.var = v /\ \E d \in {"T", "F"} : MakesSafe(block, d) /\ t.to[d] = block'
    <3>1. CASE AfterIf(block)'
        BY <1>1, <1>2, <1>5, <3>1, IfPassed
    <3>2. CASE TestedOnEntry(block, v)'
        BY <1>1, <1>2, <3>2, TestsKept DEF TestedOnEntry, OneWayTo, Successors, SafetyType
    <3> QED
        BY <1>5, <3>1, <3>2
  <2>2. PICK d \in {"T", "F"} : MakesSafe(block, d) /\ t.to[d] = block'
      BY <2>1
  <2>3. t.num = 0 /\ d = SafeBranch(t) /\ SafeBranch(t) # "N" /\ block \in Blocks
      BY <2>1, <2>2, SafeTestTyped, SafeTestsZero DEF SafetyType
  <2>4. block' = t.to[IF Holds(t, store'[t.var]) THEN "T" ELSE "F"]
      BY <1>1, <2>1 DEF Leave
  <2>5. Holds(t, store'[v]) <=> d = "F"
      BY <1>1, <1>5, <2>1, <2>3, DirectionSafe DEF SafetyType
  <2> QED
      BY <2>1, <2>2, <2>4, <2>5
<1>6. SafeWhereTested'
    BY <1>5 DEF SafeWhereTested
<1> QED
    BY <1>3, <1>4, <1>6

\* Every step keeps the invariant.
LEMMA StepInv == SafetyInv /\ [Next]_vars => SafetyInv'
<1> SUFFICES ASSUME SafetyInv, [Next]_vars
             PROVE  SafetyInv'
    OBVIOUS
<1>1. CASE \E b \in Blocks : VisitBranchInst(b)
    BY <1>1, VisitInv
<1>2. CASE EndPass
    BY <1>2, EndPassInv
<1>3. CASE RunBlock
    BY <1>3, RunInv
<1>4. CASE UNCHANGED vars
  <2>1. \A n, e : MakesSafe(n, e)' <=> MakesSafe(n, e)
      BY <1>4, TestsKept DEF vars
  <2>2. SafetyType' /\ SafeWhereTested'
    <3>1. AfterIf(block)' <=> AfterIf(block)
        BY <1>4 DEF vars, AfterIf, OneWayTo, Successors
    <3>2. ASSUME NEW v PROVE TestedOnEntry(block, v)' <=> TestedOnEntry(block, v)
        BY <1>4, <2>1 DEF vars, TestedOnEntry, OneWayTo, Successors
    <3> QED
        BY <1>4, <3>1, <3>2 DEF vars, SafetyInv, SafetyType, SafeWhereTested
  <2>3. SafeByTest'
      BY <1>4, <2>1 DEF vars, SafetyInv, SafeByTest
  <2> QED
      BY <2>2, <2>3 DEF SafetyInv
<1> QED
    BY <1>1, <1>2, <1>3, <1>4 DEF Next

\* What is safe was made so by a test, in every state of every function: SafetyInv, which
\* also says what SafeIsSafe does.
THEOREM SafetyInvariant == Spec => []SafetyInv
    BY InitInv, StepInv, PTL DEF Spec

\* SafeWhereTested: a variable that RulesPass gives OK in a block holds no error when a run
\* enters the block, if only tests of the variable lead to it or it comes after an if
\* with a body of one block.
THEOREM SafeIsSafe == Spec => []SafeWhereTested
<1>1. SafetyInv => SafeWhereTested
    BY DEF SafetyInv
<1> QED
    BY <1>1, SafetyInvariant, PTL

\* Whenever no error code can take one direction of a test of zero, in whatever function,
\* the pass has seen it: TestsRecognised.
THEOREM NoTestOverlooked == Spec => []TestsRecognised
<1>1. SafetyInv => TestsRecognised
  <2> SUFFICES ASSUME SafetyInv, phase = "run", NEW m \in Blocks, NEW d \in {"T", "F"},
                      graph[m].end.kind = "branch", graph[m].end.num = 0, graph[m].end.predicate # "ULT",
                      Passing(graph[m].end, d) \cap error_names = {},
                      ~Joins(graph[m].end.to[d], graph[m].end.to[Flip(d)])
               PROVE  graph[m].end.var \in safe_values[graph[m].end.to[d]]
      BY DEF TestsRecognised
  <2> DEFINE t == graph[m].end
  <2>1. t.predicate \in Predicates /\ t.right_constant \in BOOLEAN
      BY BranchTyped DEF SafetyInv, SafetyType
  <2>2. SafeBranch(t) # "N"
      BY <2>1, SafeDirection DEF Predicates
  <2>3. PICK n : n \in error_names
      BY CodeSigns DEF SafetyInv, SafetyType
  <2>4. (Holds(t, n) <=> SafeBranch(t) = "F") /\ SafeBranch(t) \in {"T", "F"}
      BY <2>2, <2>3, DirectionSafe DEF SafetyInv, SafetyType
  <2>5. ~(Holds(t, n) <=> d = "T")
      BY <2>3 DEF Passing
  <2>6. d = SafeBranch(t)
      BY <2>4, <2>5
  <2>7. MakesSafe(m, d)
      BY <2>2, <2>6 DEF MakesSafe
  <2>8. m \notin unvisited
      BY DEF SafetyInv, SafetyType
  <2> QED
      BY <2>7, <2>8 DEF SafetyInv, SafeByTest
<1> QED
    BY <1>1, SafetyInvariant, PTL
=============================================================================
