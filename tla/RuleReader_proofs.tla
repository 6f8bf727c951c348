-------------------------- MODULE RuleReader_proofs --------------------------
(***************************************************************************)
(* Every point is made of its own rule, and no rule that was asked for is  *)
(* missing, for every file and every command line that asks for one        *)
(* analysis (OneAnalysisAsked).  Without this the flag of a branch that    *)
(* createPoint does not come to stays up for the next rule.                *)
(***************************************************************************)
EXTENDS RuleReader, TLAPS

\* A rule of the file has a kind and a sequence of child elements.
LEMMA RuleTyped ==
    ASSUME ReaderType, NEW i \in 1 .. Len(file)
    PROVE  /\ file \in Seq(RuleType) /\ Len(file) \in Nat /\ i \in DOMAIN file
           /\ file[i].kind \in {"step", "push", "pop"} /\ file[i].children \in Seq(Elements)
           /\ Len(file[i].children) \in Nat /\ DOMAIN file[i].children = 1 .. Len(file[i].children)
<1>1. file \in Seq(RuleType) /\ Len(file) \in Nat
    BY FilesType DEF ReaderType
<1>2. i \in DOMAIN file /\ file[i] \in RuleType
    BY <1>1
<1> QED
    BY <1>1, <1>2 DEF RuleType

\* Nothing of a rule has been read before its weight.
LEMMA BegunFirst ==
    ASSUME at \in Nat, at > Len(file) \/ child = 0, Len(file) \in Nat,
           at <= Len(file) => DOMAIN Children \subseteq Nat \ {0}
    PROVE  \A e : ~Begun(e)
BY DEF Begun

\* Reading a child begins that element and no other.
LEMMA BegunRead ==
    ASSUME ReaderType, at <= Len(file), child \in DOMAIN Children,
           child' = child + 1, UNCHANGED <<file, at>>
    PROVE  \A e : Begun(e)' <=> Begun(e) \/ e = Children[child]
<1>1. at \in 1 .. Len(file)
    BY FilesType DEF ReaderType
<1>2. DOMAIN Children \subseteq Nat /\ Children' = Children /\ at' <= Len(file')
    BY <1>1, RuleTyped DEF Children
<1> QED
    BY <1>1, <1>2 DEF Begun, ReaderType

\* At the end of a rule all that it has has begun.
LEMMA BegunAll ==
    ASSUME ReaderType, AtRuleEnd
    PROVE  at \in 1 .. Len(file) /\ \A e : Begun(e) <=> Has(at, e)
<1>1. at \in 1 .. Len(file)
    BY FilesType DEF ReaderType, AtRuleEnd
<1>2. DOMAIN Children = 1 .. Len(Children) /\ Len(Children) \in Nat
    BY <1>1, RuleTyped DEF Children
<1> QED
    BY <1>1, <1>2 DEF Begun, Has, AtRuleEnd, Children

\* What createPoint finds of the rule and makes of it.
LEMMA PointMade ==
    ASSUME ReaderInv, AtRuleEnd, NEW held, CreatePoint(held),
           held \in {{}, targets}, file[at].kind # "push" => held = targets
    PROVE  /\ pending' \subseteq pending /\ read' \in [ChainElements -> SUBSET Nat]
           /\ \A e \in ChainElements : OptionOf(e) \in options =>
                 e \notin pending' /\ (e # "return" => read'[e] = {})
           /\ \A p \in points' \ points :
                 /\ p.rule = at /\ p.vars = {at} /\ Has(at, p.element)
                 /\ p.line = IF Has(at, "source") THEN at ELSE 0
           /\ points \subseteq points'
           /\ \A e \in ChainElements : Has(at, e) /\ OptionOf(e) \in options =>
                 \E p \in points' : p.rule = at /\ p.element = e
           /\ Has(at, "set") /\ options = {} /\ file[at].kind # "push" =>
                 \E p \in points' : p.rule = at /\ p.element = "set"
PROOF
<1> USE DEF ReaderInv
<1>1. at \in 1 .. Len(file) /\ \A e : Begun(e) <=> Has(at, e)
    BY BegunAll
<1>2. child > 0
    BY <1>1, RuleTyped DEF AtRuleEnd, Children
<1>3. line = IF Has(at, "source") THEN at ELSE 0
    BY <1>1, <1>2 DEF FlagsExact
<1>4. \A e \in ChainElements : Enabled(e) <=> OptionOf(e) \in options /\ Has(at, e)
    BY <1>1 DEF FlagsExact, Enabled
<1>5. at \in DOMAIN file
    BY <1>1, RuleTyped
<1>6. \A e, d \in ChainElements : Enabled(e) /\ Enabled(d) => e = d
    BY <1>4, <1>5 DEF ReaderType, AskedOnceOf, Has
<1>7. \A e \in ChainElements : OptionOf(e) \in options /\ ~Enabled(e) =>
          e \notin pending /\ (e # "return" => read[e] = {})
    BY <1>1, <1>4 DEF FlagsExact
<1>8. CASE \E e \in ChainElements : Enabled(e)
  <2>1. PICK i \in DOMAIN Chain :
            /\ Enabled(Chain[i])
            /\ points' = points \cup {Point(Chain[i], read[Chain[i]])}
            /\ Reset(Chain[i])
      BY <1>8 DEF CreatePoint
  <2> DEFINE d == Chain[i]
  <2>2. d \in ChainElements
      BY DEF ChainElements
  <2>3. read[d] = {at}
      BY <1>1, <1>4, <2>1, <2>2 DEF FlagsExact
  <2>4. \A e \in ChainElements : Enabled(e) => e = d
      BY <1>6, <2>1, <2>2
  <2>5. Point(d, {at}) \in points'
      BY <2>1, <2>3
  <2>6. /\ pending' = pending \ {d}
        /\ read' = IF d = "return" THEN read ELSE [read EXCEPT ![d] = {}]
      BY <2>1 DEF Reset
  <2>7. Has(at, d) /\ OptionOf(d) \in options
      BY <1>4, <2>1, <2>2
  <2> HIDE DEF d
  <2>8. points' = points \cup {Point(d, {at})}
      BY <2>1, <2>3 DEF d
  <2>9. read' \in [ChainElements -> SUBSET Nat]
      BY <2>2, <2>6 DEF ReaderType
  <2>10. \A e \in ChainElements : OptionOf(e) \in options =>
            e \notin pending' /\ (e # "return" => read'[e] = {})
      BY <1>7, <2>2, <2>4, <2>6 DEF ReaderType
  <2>11. \A e \in ChainElements : Has(at, e) /\ OptionOf(e) \in options =>
            \E p \in points' : p.rule = at /\ p.element = e
      BY <1>4, <2>4, <2>8 DEF Point
  <2>12. options # {}
      BY <2>7
  <2> QED
      BY <1>3, <2>6, <2>7, <2>8, <2>9, <2>10, <2>11, <2>12 DEF Point
<1>9. CASE ~\E e \in ChainElements : Enabled(e)
  <2>1. read' = read /\ pending' \subseteq pending
      BY <1>9 DEF CreatePoint
  <2>2. read' \in [ChainElements -> SUBSET Nat]
      BY <2>1 DEF ReaderType
  <2>3. \A e \in ChainElements : OptionOf(e) \in options =>
            e \notin pending' /\ (e # "return" => read'[e] = {})
      BY <1>7, <1>9, <2>1
  <2>4. held # {} => held = {at} /\ Has(at, "set")
      BY <1>1 DEF FlagsExact
  <2>5. points' = points \/ (held # {} /\ points' = points \cup {Point("set", held)})
      BY <1>9 DEF CreatePoint
  <2>6. Has(at, "set") /\ options = {} /\ file[at].kind # "push" => points' = points \cup {Point("set", {at})}
    <3> SUFFICES ASSUME Has(at, "set"), options = {}, file[at].kind # "push"
                 PROVE  points' = points \cup {Point("set", {at})}
        OBVIOUS
    <3>1. held = {at} /\ "set" \in pending
        BY <1>1 DEF FlagsExact
    <3> QED
        BY <1>9, <3>1 DEF CreatePoint, NoOtherAnalysis
  <2>7. \A e \in ChainElements : ~(Has(at, e) /\ OptionOf(e) \in options)
      BY <1>4, <1>9
  <2>8. \A p \in points' \ points :
            /\ p.rule = at /\ p.vars = {at} /\ Has(at, p.element)
            /\ p.line = IF Has(at, "source") THEN at ELSE 0
      BY <1>3, <2>4, <2>5 DEF Point
  <2>9. Has(at, "set") /\ options = {} /\ file[at].kind # "push" =>
            \E p \in points' : p.rule = at /\ p.element = "set"
    <3>1. Point("set", {at}).rule = at /\ Point("set", {at}).element = "set"
        BY DEF Point
    <3> QED
        BY <2>6, <3>1
  <2> QED
      BY <2>1, <2>2, <2>3, <2>5, <2>7, <2>8, <2>9
<1> QED
    BY <1>8, <1>9

-----------------------------------------------------------------------------

\* Nothing is read at the start.
LEMMA InitInv == OneAnalysisAsked /\ Init => ReaderInv
<1> SUFFICES ASSUME OneAnalysisAsked, Init
             PROVE  ReaderInv
    OBVIOUS
<1>1. Len(file) \in Nat /\ Len(file) > 0
    BY FilesType DEF Init
<1>2. \A e : ~Begun(e)
  <2>1. file[1] \in RuleType
      BY <1>1, FilesType DEF Init
  <2>2. DOMAIN Children \subseteq Nat \ {0}
      BY <2>1 DEF Init, Children, RuleType
  <2> QED
      BY <1>1, <2>2, BegunFirst DEF Init
<1>3. ReaderType
    BY <1>1 DEF Init, ReaderType, OneAnalysisAsked
<1>4. FlagsExact
    BY <1>2 DEF Init, FlagsExact
<1>5. PointMatchesRule /\ PointsComplete
    BY DEF Init, PointMatchesRule, PointsComplete
<1> QED
    BY <1>3, <1>4, <1>5 DEF ReaderInv

\* handleWeight forgets the line and nothing else.
LEMMA ReadWeightInv == ReaderInv /\ ReadWeight => ReaderInv'
<1> SUFFICES ASSUME ReaderInv, ReadWeight
             PROVE  ReaderInv'
    OBVIOUS
<1> USE DEF ReaderInv, ReadWeight
<1>1. at \in 1 .. Len(file) /\ Children' = Children
    BY FilesType DEF ReaderType, Children
<1>2. DOMAIN Children = 1 .. Len(Children) /\ Len(Children) \in Nat
    BY <1>1, RuleTyped DEF Children
<1>3. \A e : ~Begun(e) /\ ~Begun(e)'
    BY <1>1, <1>2 DEF Begun
<1>4. ReaderType'
    BY <1>1, <1>2 DEF ReaderType
<1>5. FlagsExact'
    BY <1>3 DEF FlagsExact
<1>6. (PointMatchesRule /\ PointsComplete)'
    BY DEF PointMatchesRule, PointsComplete, Has
<1> QED
    BY <1>4, <1>5, <1>6

\* An element raises its own flag and fills its own set.
LEMMA ReadChildInv == ReaderInv /\ ReadChild => ReaderInv'
<1> SUFFICES ASSUME ReaderInv, ReadChild
             PROVE  ReaderInv'
    OBVIOUS
<1> USE DEF ReaderInv
<1> DEFINE c == Children[child]
<1>1. /\ at \in 1 .. Len(file) /\ child \in DOMAIN Children /\ child' = child + 1
      /\ UNCHANGED <<options, file, at, points>> /\ Children' = Children
    BY FilesType DEF ReaderType, ReadChild, Children
<1>2. DOMAIN Children = 1 .. Len(Children) /\ Len(Children) \in Nat /\ c \in Elements
    BY <1>1, RuleTyped DEF Children
<1>3. \A e : Begun(e)' <=> Begun(e) \/ e = c
    BY <1>1, BegunRead DEF ReadChild
<1>4. CASE c \in {"set", "trusted_set"}
  <2>1. /\ pending' = pending \cup {"set"}
        /\ targets' = IF c = "set" THEN targets \cup {at} ELSE targets
        /\ UNCHANGED <<read, line>>
      BY <1>4 DEF ReadChild
  <2>2. c \notin ChainElements /\ c # "source"
      BY <1>4 DEF ChainElements, Chain
  <2>3. \A e \in ChainElements : e # "set"
      BY DEF ChainElements, Chain
  <2>4. ReaderType'
      BY <1>1, <1>2, <2>1 DEF ReaderType
  <2>5. FlagsExact'
      <3>1. \A e \in ChainElements \cup {"source"} : Begun(e)' <=> Begun(e)
          BY <1>3, <2>2
      <3>2. targets' = IF Begun("set")' THEN {at} ELSE {}
          BY <1>3, <1>4, <2>1 DEF FlagsExact
      <3>3. line' = IF Begun("source")' THEN at ELSE 0
          BY <1>1, <1>2, <2>1, <3>1 DEF FlagsExact
      <3>4. "set" \in pending'
          BY <2>1
      <3>5. \A e \in ChainElements : e \in pending' <=> e \in pending
          BY <2>1, <2>3
      <3> QED
          BY <1>1, <2>1, <3>1, <3>2, <3>3, <3>4, <3>5 DEF FlagsExact
  <2> QED
      BY <1>1, <2>4, <2>5 DEF PointMatchesRule, PointsComplete, Has
<1>5. CASE c = "source"
  <2>1. line' = at /\ UNCHANGED <<pending, read, targets>>
      BY <1>5 DEF ReadChild
  <2>2. c \notin ChainElements
      BY <1>5 DEF ChainElements, Chain
  <2>3. ReaderType'
      BY <1>1, <1>2, <2>1 DEF ReaderType
  <2>4. FlagsExact'
      BY <1>1, <1>2, <1>3, <1>5, <2>1, <2>2 DEF FlagsExact
  <2> QED
      BY <1>1, <2>3, <2>4 DEF PointMatchesRule, PointsComplete, Has
<1>6. CASE c \notin {"set", "trusted_set", "source"}
  <2>1. pending' = pending \cup {c} /\ read' = Collected(c) /\ UNCHANGED <<targets, line>>
      BY <1>6 DEF ReadChild
  <2>2. c \in ChainElements
      BY <1>2, <1>6 DEF Elements
  <2>3. read' = [read EXCEPT ![c] = IF c = "return" THEN {at} ELSE read[c] \cup {at}]
      BY <2>1 DEF Collected
  <2>4. ReaderType'
      BY <1>1, <1>2, <2>1, <2>2, <2>3 DEF ReaderType
  <2>5. \A e \in ChainElements \ {c} : read'[e] = read[e]
      BY <2>3 DEF ReaderType
  <2>6. OptionOf(c) \in options => read'[c] = {at}
      BY <2>2, <2>3 DEF ReaderType, FlagsExact
  <2>7. FlagsExact'
      <3>1. ASSUME NEW e \in ChainElements, OptionOf(e) \in options
            PROVE  /\ e \in pending' <=> Begun(e)'
                   /\ Begun(e)' => read'[e] = {at}
                   /\ e # "return" /\ ~Begun(e)' => read'[e] = {}
          BY <1>3, <2>1, <2>5, <2>6, <3>1 DEF FlagsExact
      <3>2. targets' = IF Begun("set")' THEN {at} ELSE {}
          BY <1>3, <1>6, <2>1 DEF FlagsExact
      <3>3. Begun("set")' => "set" \in pending'
          BY <1>3, <1>6, <2>1 DEF FlagsExact
      <3>4. line' = IF Begun("source")' THEN at ELSE 0
          BY <1>2, <1>1, <1>3, <1>6, <2>1 DEF FlagsExact
      <3> QED
          BY <1>1, <3>1, <3>2, <3>3, <3>4 DEF FlagsExact
  <2> QED
      BY <1>1, <2>4, <2>7 DEF PointMatchesRule, PointsComplete, Has
<1> QED
    BY <1>4, <1>5, <1>6

\* The end of a rule leaves its points, and nothing in the flags that are asked for.
LEMMA EndInv ==
    ASSUME ReaderInv, AtRuleEnd, NEW held, CreatePoint(held), targets' = {}, NextRule,
           held \in {{}, targets}, file[at].kind # "push" => held = targets
    PROVE  ReaderInv'
PROOF
<1> USE DEF ReaderInv
<1>1. at \in 1 .. Len(file) /\ at' = at + 1 /\ child' = 0 /\ UNCHANGED <<options, file, line>>
    BY FilesType DEF ReaderType, AtRuleEnd, NextRule
<1>2. Len(file) \in Nat
    BY <1>1, RuleTyped
<1>3. \A e : ~Begun(e)'
  <2>1. at' \in 1 .. Len(file) => file[at'] \in RuleType
      BY <1>1, <1>2, FilesType DEF ReaderType
  <2>2. at' <= Len(file) => DOMAIN Children' \subseteq Nat \ {0}
      BY <1>1, <1>2, <2>1 DEF Children, RuleType
  <2> QED
      BY <1>1, <1>2, <2>2 DEF Begun
<1>4. /\ pending' \subseteq pending /\ read' \in [ChainElements -> SUBSET Nat]
      /\ \A e \in ChainElements : OptionOf(e) \in options =>
            e \notin pending' /\ (e # "return" => read'[e] = {})
    BY PointMade
<1>5. \A p \in points' \ points :
         /\ p.rule = at /\ p.vars = {at} /\ Has(at, p.element)
         /\ p.line = IF Has(at, "source") THEN at ELSE 0
    BY PointMade
<1>6. points \subseteq points'
    BY PointMade
<1>7. /\ \A e \in ChainElements : Has(at, e) /\ OptionOf(e) \in options =>
            \E p \in points' : p.rule = at /\ p.element = e
      /\ Has(at, "set") /\ options = {} /\ file[at].kind # "push" =>
            \E p \in points' : p.rule = at /\ p.element = "set"
    BY PointMade
<1>8. ReaderType'
  <2>1. \A p \in points' : p.rule \in 1 .. at
      BY <1>1, <1>5 DEF ReaderType
  <2>2. at' <= Len(file) => Len(file[at'].children) \in Nat
      BY <1>1, <1>2, FilesType DEF ReaderType, RuleType
  <2> QED
      BY <1>1, <1>2, <1>4, <2>1, <2>2 DEF ReaderType, Children
<1>9. FlagsExact'
    BY <1>1, <1>3, <1>4 DEF FlagsExact
<1>10. PointMatchesRule'
    BY <1>1, <1>5 DEF PointMatchesRule, Has
<1>11. PointsComplete'
  <2> SUFFICES ASSUME NEW i \in 1 .. at
               PROVE  /\ \A e \in ChainElements :
                            Has(i, e) /\ OptionOf(e) \in options => \E p \in points' : p.rule = i /\ p.element = e
                      /\ Has(i, "set") /\ options = {} /\ file[i].kind # "push" =>
                            \E p \in points' : p.rule = i /\ p.element = "set"
      BY <1>1 DEF PointsComplete, Has
  <2>1. CASE i = at
      BY <1>7, <2>1
  <2>2. CASE i # at
      BY <1>1, <1>6, <2>2 DEF PointsComplete
  <2> QED
      BY <2>1, <2>2
<1> QED
    BY <1>8, <1>9, <1>10, <1>11

\* Every call of the handler keeps the invariant.
LEMMA StepInv == ReaderInv /\ [Next]_vars => ReaderInv'
<1> SUFFICES ASSUME ReaderInv, [Next]_vars
             PROVE  ReaderInv'
    OBVIOUS
<1>1. CASE ReadWeight
    BY <1>1, ReadWeightInv
<1>2. CASE ReadChild
    BY <1>2, ReadChildInv
<1>3. CASE EndPlainRule
    BY <1>3, EndInv DEF EndPlainRule
<1>4. CASE EndPushRule
    BY <1>4, EndInv DEF EndPushRule
<1>5. CASE UNCHANGED vars
    BY <1>5 DEF vars, ReaderInv, ReaderType, FlagsExact, Begun, Children, PointMatchesRule, PointsComplete, Has
<1> QED
    BY <1>1, <1>2, <1>3, <1>4, <1>5 DEF Next

\* If one analysis is asked for, the flags and sets are those of the rule that is
\* being read, in every state of every file.
THEOREM ReaderInvariant == OneAnalysisAsked /\ Spec => []ReaderInv
    BY InitInv, StepInv, PTL DEF Spec

\* A point's variables and line were read in the rule it stands for: PointMatchesRule.
THEOREM PointsOfTheirRules == OneAnalysisAsked /\ Spec => []PointMatchesRule
<1>1. ReaderInv => PointMatchesRule
    BY DEF ReaderInv
<1> QED
    BY <1>1, ReaderInvariant, PTL

\* No rule that an option asks to look at is left out: PointsComplete.
THEOREM NoPointMissing == OneAnalysisAsked /\ Spec => []PointsComplete
<1>1. ReaderInv => PointsComplete
    BY DEF ReaderInv
<1> QED
    BY <1>1, ReaderInvariant, PTL
=============================================================================
