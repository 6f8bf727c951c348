--------------------------- MODULE NameGraph_proofs ---------------------------
(***************************************************************************)
(* Filtering the rules loses no error, for every list of rules and every   *)
(* run.  The search closes the names under the assignments (SearchInv), so *)
(* that what is not a name never holds an error (RunInv); from this an     *)
(* assignment that is dropped never moves an error (SameErrors).           *)
(***************************************************************************)
EXTENDS NameGraph, TLAPS

\* An assignment of a rule is an edge from a name to a variable.
LEMMA EdgesType ==
    ASSUME TypeOK
    PROVE  /\ \A a \in Edges : a \in Names \X Vars
           /\ \A i \in DOMAIN rules : rules[i] \in RuleType /\ rules[i].assignments \subseteq Edges
<1>1. ASSUME NEW i \in DOMAIN rules
      PROVE  rules[i] \in RuleType
    BY <1>1 DEF TypeOK
<1>2. ASSUME NEW i \in DOMAIN rules
      PROVE  rules[i].assignments \in SUBSET (Names \X Vars)
    BY <1>1 DEF RuleType
<1> QED
    BY <1>1, <1>2 DEF Edges

\* Vertices are error codes, OK or variables, and no two of these at once.
LEMMA KindsDistinct == Errors \cap Vars = {} /\ OK \notin Vars /\ OK \notin Errors /\ UNINITIALIZED \notin Errors
    BY NamesType DEF Values

\* A filtered rule is a rule.
LEMMA FilteredType ==
    ASSUME NEW r \in RuleType, names \subseteq Vars
    PROVE  Filtered(r) \in RuleType
<1>1. {a \in r.assignments : a[2] \in names} \in SUBSET (Names \X Vars)
    BY DEF RuleType
<1>2. KeptName(r.pred_op1) \in Vars \cup {None} /\ KeptName(r.pred_op2) \in Vars \cup {None}
    BY DEF KeptName
<1>3. KeptReturn(r.return_value) \in Names \cup {None}
    BY DEF KeptReturn, Names
<1> QED
    BY <1>1, <1>2, <1>3 DEF Filtered, RuleType

\* Whatever is read in a store is a value.
LEMMA ReadType ==
    ASSUME NEW s \in [Vars -> Values], NEW n \in Names
    PROVE  In(s, n) \in Values
    BY DEF In, Names, Values

\* A rule turns a store into a store.
LEMMA AfterType ==
    ASSUME NEW s \in [Vars -> Values], NEW assignments, NEW all \in SUBSET (Names \X Vars),
           NEW choice \in Choices(all)
    PROVE  After(s, assignments, choice) \in [Vars -> Values]
<1>1. ASSUME NEW v \in Vars, v \in DOMAIN choice
      PROVE  In(s, choice[v]) \in Values
    BY <1>1, ReadType DEF Choices
<1> QED
    BY <1>1 DEF After

-----------------------------------------------------------------------------

\* The search begins with nothing met.
LEMMA InitInv == Init => FilterInv
<1> SUFFICES ASSUME Init PROVE FilterInv
    OBVIOUS
<1>1. TypeOK
    BY NamesType DEF Init, TypeOK, Values
<1>2. SearchInv
    BY DEF Init, SearchInv, Entered
<1>3. RunInv
    BY KindsDistinct DEF Init, RunInv
<1>4. OutputInv
    BY <1>1 DEF Init, OutputInv, TypeOK
<1>5. SameErrors
    BY DEF Init, SameErrors
<1> QED
    BY <1>1, <1>2, <1>3, <1>4, <1>5 DEF FilterInv

\* The steps before the run leave both stores as they were at the start.
LEMMA BeforeRun ==
    ASSUME FilterInv, UNCHANGED <<rules, store, filtered>>, phase # "run",
           phase' # "run" \/ names' = names, names \subseteq names'
    PROVE  RunInv' /\ SameErrors'
    BY DEF FilterInv, RunInv, SameErrors

\* A step that leaves the rules and the output keeps what is said of them
\* unless names change while there is output.
LEMMA SearchStep ==
    ASSUME FilterInv, UNCHANGED <<rules, output>>, phase \in {"construct", "search"},
           phase' \in {"search", "filter"}
    PROVE  OutputInv'
    BY DEF FilterInv, OutputInv, TypeOK

\* StartSearch and Examine keep the search invariant: a vertex leaves the queue
\* when all its successors are met.
LEMMA SearchKept ==
    ASSUME FilterInv, Next
    PROVE  SearchInv' /\ UNCHANGED rules /\ (names \subseteq names')
<1> USE DEF FilterInv
<1>1. CASE Construct
    BY <1>1 DEF runVars, Construct, SearchInv, Entered, Edges
<1>2. ASSUME NEW e \in Errors, StartSearch(e)
      PROVE  SearchInv' /\ UNCHANGED rules /\ (names \subseteq names')
  <2> USE DEF StartSearch
  <2>1. names' = names /\ Edges' = Edges /\ e \notin Vars
    BY <1>2, KindsDistinct DEF Edges
  <2>2. \A a \in Edges : a[1] \in names' => a[2] \in names'
    BY <1>2, <2>1 DEF SearchInv
  <2>3. \A a \in Edges : Entered(a[1])' => a[2] \in names' \/ a[1] \in queue'
    BY <1>2, <2>1 DEF SearchInv, Entered
  <2>4. reachable' \cap Vars \subseteq names' /\ reachable' \ queue' = {}
    BY <1>2, <2>1
  <2> QED
    BY <1>2, <2>1, <2>2, <2>3, <2>4 DEF SearchInv
<1>3. ASSUME NEW v \in Names, Examine(v)
      PROVE  SearchInv' /\ UNCHANGED rules /\ (names \subseteq names')
  <2> USE DEF Examine
  <2>1. Edges' = Edges /\ names \subseteq names' /\ reachable \subseteq reachable'
    BY <1>3 DEF Edges
  <2>2. v \in reachable /\ v \notin Undiscovered(v)
    BY <1>3 DEF TypeOK, Undiscovered
  <2>3. reachable' \cap Vars \subseteq names'
    BY <1>3 DEF SearchInv
  <2>4. \A a \in Edges : a[1] = v => a[2] \in reachable' /\ a[2] \in names'
    BY <1>3, <2>3, EdgesType DEF Undiscovered
  <2>5. \A a \in Edges : a[1] \in reachable' \ queue' => a[2] \in reachable'
    BY <1>3, <2>4 DEF SearchInv
  <2>6. \A a \in Edges : a[1] \in names' => a[2] \in names' \/ a[1] \in queue'
    BY <1>3, <2>4 DEF SearchInv
  <2>7. \A a \in Edges : Entered(a[1])' => a[2] \in names' \/ a[1] \in queue'
    BY <1>3, <2>1, <2>4 DEF SearchInv, Entered
  <2> QED
    BY <1>3, <2>1, <2>3, <2>5, <2>6, <2>7 DEF SearchInv
<1>4. CASE EndSearch
    BY <1>4 DEF runVars, EndSearch, searchVars, SearchInv, Entered, Edges
<1>5. CASE FilterRule
    BY <1>5 DEF runVars, FilterRule, searchVars, SearchInv, Entered, Edges
<1>6. CASE EndFilter
    BY <1>6 DEF runVars, EndFilter, searchVars, SearchInv, Entered, Edges
<1>7. ASSUME NEW i \in DOMAIN rules, Run(i)
      PROVE  SearchInv' /\ UNCHANGED rules /\ (names \subseteq names')
    BY <1>7 DEF Run, searchVars, SearchInv, Entered, Edges
<1> QED
    BY <1>1, <1>2, <1>3, <1>4, <1>5, <1>6, <1>7 DEF Next

\* When the search is over, an assignment of an error code or of a name is the
\* assignment of a name.
LEMMA Closed ==
    ASSUME FilterInv, phase = "run"
    PROVE  \A a \in Edges : a[1] \in Errors \/ a[1] \in names => a[2] \in names
<1> SUFFICES ASSUME NEW a \in Edges, a[1] \in Errors \/ a[1] \in names
             PROVE  a[2] \in names
    OBVIOUS
<1>1. queue = {} /\ ecSources = {}
    BY DEF FilterInv, SearchInv
<1>2. CASE a[1] \in Errors
    BY <1>1, <1>2 DEF FilterInv, SearchInv, Entered
<1>3. CASE a[1] \in names
    BY <1>1, <1>3 DEF FilterInv, SearchInv
<1> QED
    BY <1>2, <1>3

\* A rule on all its assignments and on those that are left: no error more, no
\* error less, and none outside the names.
LEMMA RunKept ==
    ASSUME FilterInv, NEW i \in DOMAIN rules, Run(i)
    PROVE  TypeOK' /\ RunInv' /\ SameErrors'
<1> DEFINE all == rules[i].assignments
           left == output[i].assignments
<1>1. phase = "run" /\ phase' = "run" /\ UNCHANGED <<rules, searchVars, output>>
    BY DEF Run
<1>2. all \in SUBSET (Names \X Vars) /\ all \subseteq Edges
    BY EdgesType DEF FilterInv, RuleType
<1>3. i \in 1..Len(output) /\ left = {a \in all : a[2] \in names}
  <2>1. Len(output) = Len(rules) /\ DOMAIN rules = 1..Len(rules)
    BY <1>1 DEF FilterInv, OutputInv, TypeOK
  <2>2. i \in 1..Len(output) /\ output[i] = Filtered(rules[i])
    BY <2>1 DEF FilterInv, OutputInv
  <2> QED
    BY <2>2 DEF Filtered
<1>4. PICK choice \in Choices(all) : store' = After(store, all, choice) /\ filtered' = After(filtered, left, choice)
    BY DEF Run
<1>5. store \in [Vars -> Values] /\ filtered \in [Vars -> Values]
    BY DEF FilterInv, TypeOK
<1>6. store' \in [Vars -> Values] /\ filtered' \in [Vars -> Values]
    BY <1>2, <1>4, <1>5, AfterType
<1>7. TypeOK'
    BY <1>1, <1>6 DEF FilterInv, TypeOK, searchVars
<1>8. ASSUME NEW v \in DOMAIN choice
      PROVE  v \in Vars /\ choice[v] \in Names /\ <<choice[v], v>> \in all
    BY <1>2, <1>8 DEF Choices
<1>9. ASSUME NEW v \in Vars
      PROVE  /\ v \in DOMAIN choice => store'[v] = In(store, choice[v])
             /\ v \in DOMAIN choice /\ v \in names => filtered'[v] = In(filtered, choice[v])
             /\ v \notin DOMAIN choice => store'[v] = store[v]
             /\ v \notin DOMAIN choice \/ v \notin names => filtered'[v] = filtered[v]
    BY <1>3, <1>4, <1>8 DEF After
<1>10. ASSUME NEW v \in DOMAIN choice, v \notin names
       PROVE  In(store, choice[v]) \notin Errors
  <2>1. choice[v] \notin Errors /\ choice[v] \notin names
    BY <1>1, <1>2, <1>8, <1>10, Closed
  <2> QED
    BY <1>8, <2>1, KindsDistinct DEF In, Names, FilterInv, RunInv
<1>11. ASSUME NEW v \in Vars \ names
       PROVE  store'[v] \notin Errors /\ filtered'[v] \notin Errors
    BY <1>9, <1>10, <1>11 DEF FilterInv, RunInv
<1>12. RunInv'
    BY <1>1, <1>11 DEF RunInv, searchVars
<1>13. ASSUME NEW v \in DOMAIN choice, In(store, choice[v]) \in Errors \/ In(filtered, choice[v]) \in Errors
       PROVE  In(store, choice[v]) = In(filtered, choice[v])
    BY <1>8, <1>13 DEF In, FilterInv, SameErrors
<1>14. ASSUME NEW v \in Vars, store'[v] \in Errors \/ filtered'[v] \in Errors
       PROVE  store'[v] = filtered'[v]
  <2>1. v \in names
    BY <1>11, <1>14
  <2>2. CASE v \in DOMAIN choice
    BY <1>9, <1>13, <1>14, <2>1, <2>2
  <2>3. CASE v \notin DOMAIN choice
    BY <1>9, <1>14, <2>3 DEF FilterInv, SameErrors
  <2> QED
    BY <2>2, <2>3
<1>15. SameErrors'
    BY <1>14 DEF SameErrors
<1> QED
    BY <1>7, <1>12, <1>15

-----------------------------------------------------------------------------

\* Every step preserves the invariant.
LEMMA StepInv == FilterInv /\ [Next]_vars => FilterInv'
<1> SUFFICES ASSUME FilterInv, [Next]_vars PROVE FilterInv'
    OBVIOUS
<1>1. CASE Construct
  <2>1. TypeOK'
    BY <1>1 DEF runVars, Construct, FilterInv, TypeOK
  <2> QED
    BY <1>1, <2>1, SearchKept, BeforeRun, SearchStep DEF runVars, Next, Construct, FilterInv
<1>2. ASSUME NEW e \in Errors, StartSearch(e)
      PROVE  FilterInv'
  <2>1. TypeOK'
    BY <1>2 DEF runVars, StartSearch, FilterInv, TypeOK, Names
  <2> QED
    BY <1>2, <2>1, SearchKept, BeforeRun, SearchStep DEF runVars, Next, StartSearch, FilterInv
<1>3. ASSUME NEW v \in Names, Examine(v)
      PROVE  FilterInv'
  <2>1. Undiscovered(v) \subseteq Vars
    BY EdgesType DEF Undiscovered, FilterInv
  <2>2. TypeOK'
    BY <1>3, <2>1 DEF runVars, Examine, FilterInv, TypeOK, Names
  <2> QED
    BY <1>3, <2>2, SearchKept, BeforeRun, SearchStep DEF runVars, Next, Examine, FilterInv
<1>4. CASE EndSearch
  <2>1. TypeOK'
    BY <1>4 DEF runVars, EndSearch, searchVars, FilterInv, TypeOK
  <2> QED
    BY <1>4, <2>1, SearchKept, BeforeRun, SearchStep DEF runVars, Next, EndSearch, searchVars, FilterInv
<1>5. CASE FilterRule
  <2> DEFINE n == Len(output) + 1
  <2>1. n \in DOMAIN rules /\ Filtered(rules[n]) \in RuleType
    BY <1>5, EdgesType, FilteredType DEF runVars, FilterRule, FilterInv, TypeOK
  <2>2. TypeOK'
    BY <1>5, <2>1 DEF runVars, FilterRule, searchVars, FilterInv, TypeOK
  <2>3. \A r : Filtered(r)' = Filtered(r)
    BY <1>5 DEF runVars, FilterRule, searchVars, Filtered, KeptName, KeptReturn
  <2>4. OutputInv'
    BY <1>5, <2>1, <2>3 DEF runVars, FilterRule, FilterInv, OutputInv, TypeOK
  <2> QED
    BY <1>5, <2>2, <2>4, SearchKept, BeforeRun DEF runVars, Next, FilterRule, searchVars, FilterInv
<1>6. CASE EndFilter
  <2>1. TypeOK'
    BY <1>6 DEF runVars, EndFilter, searchVars, FilterInv, TypeOK
  <2>2. OutputInv'
    BY <1>6 DEF runVars, EndFilter, searchVars, FilterInv, OutputInv, Filtered, KeptName, KeptReturn
  <2> QED
    BY <1>6, <2>1, <2>2, SearchKept, BeforeRun DEF runVars, Next, EndFilter, searchVars, FilterInv
<1>7. ASSUME NEW i \in DOMAIN rules, Run(i)
      PROVE  FilterInv'
  <2>1. OutputInv'
    BY <1>7 DEF Run, searchVars, FilterInv, OutputInv, Filtered, KeptName, KeptReturn
  <2> QED
    BY <1>7, <2>1, SearchKept, RunKept DEF Next, FilterInv
<1>8. CASE UNCHANGED vars
    BY <1>8 DEF vars, runVars, searchVars, FilterInv, TypeOK, SearchInv, Entered, Edges, RunInv, OutputInv,
                Filtered, KeptName, KeptReturn, SameErrors
<1> QED
    BY <1>1, <1>2, <1>3, <1>4, <1>5, <1>6, <1>7, <1>8 DEF Next

\* The inductive invariant of the filter holds in every state.
THEOREM FilterInvariant == Spec => []FilterInv
    BY InitInv, StepInv, PTL DEF Spec

\* Filtering neither loses nor makes an error: SameErrors, for every list of
\* rules that the frontend may collect.
THEOREM FilterExact == Spec => []SameErrors
<1>1. FilterInv => SameErrors
    BY DEF FilterInv
<1> QED
    BY <1>1, FilterInvariant, PTL

\* Nothing that a point may be asked about is dropped: PointsKept.
THEOREM FilterKeepsPoints == Spec => []PointsKept
<1>1. FilterInv => PointsKept
  <2> SUFFICES ASSUME FilterInv, phase = "run", NEW i \in DOMAIN rules
               PROVE  /\ In(store, rules[i].return_value) \in Errors =>
                            output[i].return_value = rules[i].return_value
                      /\ In(store, rules[i].pred_op1) \in Errors => output[i].pred_op1 = rules[i].pred_op1
                      /\ In(store, rules[i].pred_op2) \in Errors => output[i].pred_op2 = rules[i].pred_op2
    BY DEF PointsKept
  <2>1. output[i] = Filtered(rules[i])
    BY DEF FilterInv, OutputInv, TypeOK
  <2>2. \A n : In(store, n) \in Errors => n \in names \cup Errors
    BY DEF In, FilterInv, RunInv
  <2>3. rules[i].pred_op1 \notin Errors /\ rules[i].pred_op2 \notin Errors
    BY EdgesType, KindsDistinct, NamesType DEF FilterInv, RuleType, Names
  <2> QED
    BY <2>1, <2>2, <2>3 DEF Filtered, KeptName, KeptReturn
<1> QED
    BY <1>1, FilterInvariant, PTL

-----------------------------------------------------------------------------
(* The filtered program implements the program.                            *)

\* Nothing is held and nothing is taken at the start.
LEMMA FlowInit ==
    ASSUME Init
    PROVE  Flow!Init
BY NamesType DEF Init, Flow!Init

\* A step of the search or of the filter does not show.
LEMMA FlowStutter ==
    ASSUME UNCHANGED <<rules, runVars>>
    PROVE  UNCHANGED Flow!flowVars
BY DEF runVars, Flow!flowVars, AssignmentsOf

\* A step of the rules that are left is a step of all rules: where the filter has
\* taken an assignment away, its source carries no error.
LEMMA FlowStep ==
    ASSUME FilterInv, NEW i \in DOMAIN rules, Run(i)
    PROVE  Flow!Next
<1> DEFINE all == rules[i].assignments
           held == [v \in Vars |-> IF filtered[v] \in Errors THEN filtered[v] ELSE OK]
<1>1. phase = "run" /\ taken' = i /\ rules' = rules
    BY DEF Run
<1>2. all \in SUBSET (Names \X Vars) /\ all \subseteq Edges
    BY EdgesType DEF FilterInv, RuleType
<1>3. output[i].assignments = {a \in all : a[2] \in names}
  <2>1. i \in 1..Len(output) /\ output[i] = Filtered(rules[i])
    BY <1>1 DEF FilterInv, OutputInv, TypeOK
  <2> QED
    BY <2>1 DEF Filtered
<1>4. PICK choice \in Choices(all) : filtered' = After(filtered, output[i].assignments, choice)
    BY DEF Run
<1>5. /\ choice \in [{a[2] : a \in all} -> Names]
      /\ \A v \in DOMAIN choice : v \in Vars /\ <<choice[v], v>> \in all
    BY <1>2, <1>4 DEF Choices
<1>6. ASSUME NEW v \in DOMAIN choice
      PROVE  held'[v] = Flow!Carries(choice[v])
  <2>1. CASE v \in names
    <3>1. filtered'[v] = In(filtered, choice[v])
      BY <1>3, <1>4, <1>5, <2>1 DEF After
    <3> QED
      BY <1>5, <3>1, NamesType DEF In, Flow!Carries
  <2>2. CASE v \notin names
    <3>1. choice[v] \notin Errors /\ choice[v] \notin names
      BY <1>1, <1>2, <1>5, <2>2, Closed
    <3>2. filtered'[v] = filtered[v] /\ filtered[v] \notin Errors
      BY <1>3, <1>4, <1>5, <2>2 DEF After, FilterInv, RunInv
    <3>3. choice[v] \in Vars => filtered[choice[v]] \notin Errors
      BY <3>1 DEF FilterInv, RunInv
    <3> QED
      BY <1>5, <3>1, <3>2, <3>3 DEF Flow!Carries
  <2> QED
    BY <2>1, <2>2
<1>7. ASSUME NEW v \in Vars, v \notin DOMAIN choice
      PROVE  held'[v] = held[v]
    BY <1>4, <1>7 DEF After
<1>8. held' = [v \in Vars |-> IF v \in DOMAIN choice THEN Flow!Carries(choice[v]) ELSE held[v]]
    BY <1>6, <1>7
<1>9. i \in DOMAIN AssignmentsOf(rules) /\ AssignmentsOf(rules)[i] = all
    BY DEF AssignmentsOf
<1>10. AssignmentsOf(rules)' = AssignmentsOf(rules)
    BY <1>1 DEF AssignmentsOf
<1>11. /\ choice \in [{a[2] : a \in AssignmentsOf(rules)[i]} -> Names]
       /\ \A v \in DOMAIN choice : <<choice[v], v>> \in AssignmentsOf(rules)[i]
    BY <1>5, <1>9
<1> HIDE DEF all, held
<1>12. Flow!Assign(AssignmentsOf(rules)[i])
    BY <1>8, <1>11 DEF Flow!Assign, held
<1> QED
    BY <1>1, <1>9, <1>10, <1>12, Zenon DEF Flow!Next

\* The rules that the filter leaves implement the rules that were collected, as far
\* as errors go: ImplementsFlow, for any rules.
THEOREM FilterImplements == Spec => ImplementsFlow
<1>1. Init => Flow!Init
    BY FlowInit
<1>2. FilterInv /\ [Next]_vars => [Flow!Next]_Flow!flowVars
  <2> SUFFICES ASSUME FilterInv, [Next]_vars
               PROVE  Flow!Next \/ UNCHANGED Flow!flowVars
    OBVIOUS
  <2>1. ASSUME NEW i \in DOMAIN rules, Run(i)
        PROVE  Flow!Next
    BY <2>1, FlowStep
  <2>2. CASE UNCHANGED vars
    BY <2>2, FlowStutter DEF vars
  <2>3. CASE Construct \/ EndSearch \/ FilterRule \/ EndFilter
    BY <2>3, FlowStutter DEF Construct, EndSearch, FilterRule, EndFilter
  <2>4. CASE (\E e \in Errors : StartSearch(e)) \/ (\E v \in Names : Examine(v))
    BY <2>4, FlowStutter DEF StartSearch, Examine
  <2> QED
    BY <2>1, <2>2, <2>3, <2>4 DEF Next
<1> QED
    BY <1>1, <1>2, FilterInvariant, PTL DEF Spec, ImplementsFlow, Flow!Spec
=============================================================================
