-------------------------- MODULE PathWeights_proofs --------------------------
(***************************************************************************)
(* The weights of a path explain what the program holds at its end, for    *)
(* every program, every nesting of calls and every bound.                  *)
(***************************************************************************)
EXTENDS PathWeights, ErrorWeights_proofs

\* The kinds of names are disjoint and have the meanings the text gives them.
LEMMA NameFacts ==
    /\ \A t \in TentativeErrors : /\ t \in Constants /\ Real[t] \in Errors
                                  /\ Real[t] \in Constants /\ Real[t] \notin TentativeErrors
    /\ UNINITIALIZED \in Constants \ TentativeErrors
    /\ \A c \in Constants : c \in Var /\ c \notin Variables
    /\ \A x \in Variables : x \in Var /\ x \notin Constants /\ x \notin TentativeErrors
    /\ \A z \in Var : z \in Constants \/ z \in Variables
    /\ \A c \in Constants \ TentativeErrors : c \in Errors \cup {OK, UNINITIALIZED}
BY ConstantsDistinct, VariablesDistinct, RealType DEF Constants, Var, Variables

\* What a source means is a value.
LEMMA MeaningType ==
    ASSUME NEW z \in Var, NEW s \in [Variables -> Value], NEW d \in Nat
    PROVE  Meaning(z, s, d) \in Value
BY NameFacts DEF Meaning, Value

\* A source means nothing made deeper than d in a store that holds nothing deeper.
LEMMA MeaningMade ==
    ASSUME NEW z \in Var, NEW s \in [Variables -> Value], NEW d \in Nat, MadeUpTo(s, d)
    PROVE  Meaning(z, s, d).made <= d
BY NameFacts DEF Meaning, Value, MadeUpTo

\* The basis and the assignments of a rule are weights.
LEMMA RuleType ==
    /\ One \in Weight
    /\ \A basis \in Bases : BasisWeight(basis) \in Weight
    /\ \A w \in Weight, to \in Var, from \in Var : Assign(w, to, from) \in Weight
<1>1. One \in Weight
  BY DEF One, IdentityOn, Weight
<1>2. ASSUME NEW basis \in Bases PROVE BasisWeight(basis) \in Weight
  <2>1. \A S : S \subseteq Var => IdentityOn(S) \in Weight
    BY DEF IdentityOn, Weight
  <2>2. UNINITIALIZED \in Var /\ Globals \subseteq Var /\ Locals \subseteq Var /\ Constants \subseteq Var
    BY DEF Var, Variables, Constants
  <2>3. Globals \X {UNINITIALIZED} \in Weight /\ Locals \X {UNINITIALIZED} \in Weight
    BY <2>2 DEF Weight
  <2>4. IdentityOn(Globals) \in Weight /\ IdentityOn(Constants) \in Weight
    BY <2>1, <2>2
  <2>5. basis \in {"identity", "identityGlobals", "uninitialized"}
    BY RulesType
  <2>6. \A a, b, c \in Weight : a \cup b \cup c \in Weight
    BY DEF Weight
  <2> QED BY <1>1, <2>3, <2>4, <2>5, <2>6 DEF BasisWeight, LocalsToUninitialized
<1>3. ASSUME NEW w \in Weight, NEW to \in Var, NEW from \in Var PROVE Assign(w, to, from) \in Weight
  BY DEF Assign, Weight
<1> QED BY <1>1, <1>2, <1>3

-----------------------------------------------------------------------------
(* Composition.                                                            *)

\* Two explained stretches of an activation are explained together.
LEMMA ExplainsCompose ==
    ASSUME NEW w \in Weight, NEW r \in Weight, NEW d \in Nat,
           NEW e \in [Variables -> Value], NEW s \in [Variables -> Value], NEW n \in [Variables -> Value],
           ConstantRows(w), Explains(w, e, s, d), Explains(r, s, n, d)
    PROVE  Explains(Extend(w, r), e, n, d)
<1> SUFFICES ASSUME NEW x \in Variables
             PROVE  \E z \in Var : <<x, z>> \in Extend(w, r) /\ n[x] = Meaning(z, e, d)
  BY DEF Explains
<1>1. PICK y \in Var : <<x, y>> \in r /\ n[x] = Meaning(y, s, d)
  BY DEF Explains
<1>2. x \in Var
  BY NameFacts
<1>3. CASE y \in Constants
  <2>1. <<y, y>> \in w
    BY <1>3 DEF ConstantRows
  <2>2. Meaning(y, s, d) = Meaning(y, e, d)
    BY <1>3 DEF Meaning
  <2> QED BY <1>1, <1>2, <2>1, <2>2, ExtendPair
<1>4. CASE y \in Variables
  <2>1. Meaning(y, s, d) = s[y]
    BY <1>4, NameFacts DEF Meaning
  <2>2. PICK z \in Var : <<y, z>> \in w /\ s[y] = Meaning(z, e, d)
    BY <1>4 DEF Explains
  <2> QED BY <1>1, <1>2, <2>1, <2>2, ExtendPair
<1> QED BY <1>3, <1>4, NameFacts

\* Two precise stretches are precise together.
LEMMA ExplainsOnlyCompose ==
    ASSUME NEW w \in Weight, NEW r \in Weight, NEW d \in Nat,
           NEW e \in [Variables -> Value], NEW s \in [Variables -> Value], NEW n \in [Variables -> Value],
           ConstantRows(w), ExplainsOnly(w, e, s, d), ExplainsOnly(r, s, n, d)
    PROVE  ExplainsOnly(Extend(w, r), e, n, d)
<1> SUFFICES ASSUME NEW x \in Variables, NEW z \in Var, <<x, z>> \in Extend(w, r)
             PROVE  n[x] = Meaning(z, e, d)
  BY DEF ExplainsOnly
<1>1. PICK y \in Var : <<x, y>> \in r /\ <<y, z>> \in w
  BY ExtendPair
<1>2. n[x] = Meaning(y, s, d)
  BY <1>1 DEF ExplainsOnly
<1>3. CASE y \in Constants
  <2>1. z = y
    BY <1>1, <1>3 DEF ConstantRows
  <2> QED BY <1>2, <1>3, <2>1 DEF Meaning
<1>4. CASE y \in Variables
  <2>1. Meaning(y, s, d) = s[y]
    BY <1>4, NameFacts DEF Meaning
  <2>2. s[y] = Meaning(z, e, d)
    BY <1>1, <1>4 DEF ExplainsOnly
  <2> QED BY <1>2, <2>1, <2>2
<1> QED BY <1>3, <1>4, NameFacts

\* Constants keep holding themselves.
LEMMA ConstantRowsCompose ==
    ASSUME NEW w \in Weight, NEW r \in Weight, ConstantRows(w), ConstantRows(r)
    PROVE  ConstantRows(Extend(w, r))
<1> SUFFICES ASSUME NEW c \in Constants, NEW z \in Var
             PROVE  <<c, z>> \in Extend(w, r) <=> z = c
  BY DEF ConstantRows
<1>1. c \in Var
  BY NameFacts
<1>2. <<c, z>> \in Extend(w, r) => z = c
  <2>1. ASSUME NEW y \in Var, <<c, y>> \in r, <<y, z>> \in w PROVE z = c
    BY <2>1 DEF ConstantRows
  <2> QED BY <2>1, ExtendPair
<1>3. z = c => <<c, z>> \in Extend(w, r)
  <2>1. <<c, c>> \in r /\ <<c, c>> \in w
    BY <1>1 DEF ConstantRows
  <2> QED BY <1>1, <2>1, ExtendPair
<1> QED BY <1>2, <1>3

\* From the entry of an activation to the start of the program.
LEMMA ReachedCompose ==
    ASSUME NEW p \in Weight, NEW w \in Weight, NEW d \in Nat \ {0},
           NEW e \in [Variables -> Value], NEW s \in [Variables -> Value],
           ConstantRows(p), ReachedFrom(p, e), Explains(w, e, s, d)
    PROVE  ReachedFrom(Extend(p, w), s)
<1> SUFFICES ASSUME NEW x \in Variables
             PROVE  \E u \in Var : <<x, u>> \in Extend(p, w) /\ Denotes(u, s[x])
  BY DEF ReachedFrom
<1>1. PICK y \in Var : <<x, y>> \in w /\ s[x] = Meaning(y, e, d)
  BY DEF Explains
<1>2. x \in Var
  BY NameFacts
<1>3. CASE y \in Constants
  <2>1. <<y, y>> \in p
    BY <1>3 DEF ConstantRows
  <2>2. Denotes(y, s[x])
    BY <1>1, <1>3 DEF Meaning, Denotes
  <2> QED BY <1>1, <1>2, <2>1, <2>2, ExtendPair
<1>4. CASE y \in Variables
  <2>1. s[x] = e[y]
    BY <1>1, <1>4, NameFacts DEF Meaning
  <2>2. PICK u \in Var : <<y, u>> \in p /\ Denotes(u, e[y])
    BY <1>4 DEF ReachedFrom
  <2> QED BY <1>1, <1>2, <2>1, <2>2, ExtendPair
<1> QED BY <1>3, <1>4, NameFacts

\* The same for precision.
LEMMA ReachedOnlyCompose ==
    ASSUME NEW p \in Weight, NEW w \in Weight, NEW d \in Nat \ {0},
           NEW e \in [Variables -> Value], NEW s \in [Variables -> Value],
           ConstantRows(p), ReachedOnlyFrom(p, e), ExplainsOnly(w, e, s, d)
    PROVE  ReachedOnlyFrom(Extend(p, w), s)
<1> SUFFICES ASSUME NEW x \in Variables, NEW u \in Var, <<x, u>> \in Extend(p, w)
             PROVE  Denotes(u, s[x])
  BY DEF ReachedOnlyFrom
<1>1. PICK y \in Var : <<x, y>> \in w /\ <<y, u>> \in p
  BY ExtendPair
<1>2. s[x] = Meaning(y, e, d)
  BY <1>1 DEF ExplainsOnly
<1>3. CASE y \in Constants
  <2>1. u = y
    BY <1>1, <1>3 DEF ConstantRows
  <2> QED BY <1>2, <1>3, <2>1 DEF Meaning, Denotes
<1>4. CASE y \in Variables
  <2>1. s[x] = e[y]
    BY <1>2, <1>4, NameFacts DEF Meaning
  <2> QED BY <1>1, <1>4, <2>1 DEF ReachedOnlyFrom
<1> QED BY <1>3, <1>4, NameFacts

-----------------------------------------------------------------------------
(* The steps of the rule under construction.                               *)

\* The basis of a rule explains the store it stands for.
LEMMA BasisInv ==
    ASSUME TypeOK, MadeUpTo(store, Depth), NEW basis \in Bases, BeginRule(basis), chosen = << >>
    PROVE  RuleInv'
<1> USE NameFacts
<1>0. basis \in {"identity", "identityGlobals", "uninitialized"}
  BY RulesType
<1>1. /\ rule' = BasisWeight(basis) /\ next' = BasisStore(basis) /\ chosen' = << >>
      /\ store' = store /\ Depth' = Depth
  BY DEF BeginRule, pathVars, Depth
<1>2. Depth \in Nat
  BY DEF TypeOK, Depth
<1>3. \A x, z \in Var : <<x, z>> \in BasisWeight(basis) <=>
          \/ x \in Constants /\ z = x
          \/ x \in Variables /\ z = UNINITIALIZED
             /\ (basis = "uninitialized" \/ (basis = "identityGlobals" /\ x \in Locals))
          \/ x \in Variables /\ z = x
             /\ ~(basis = "uninitialized" \/ (basis = "identityGlobals" /\ x \in Locals))
  <2>1. \A S, x, z : <<x, z>> \in IdentityOn(S) <=> x \in S /\ z = x
    BY DEF IdentityOn
  <2>2. CASE basis = "identity"
    BY <2>1, <2>2 DEF BasisWeight, One
  <2>3. CASE basis = "identityGlobals"
    <3>1. BasisWeight(basis) =
              IdentityOn(Globals) \cup IdentityOn(Constants) \cup (Locals \X {UNINITIALIZED})
      BY <2>3 DEF BasisWeight, LocalsToUninitialized
    <3>2. \A x : x \in Variables <=> x \in Globals \/ x \in Locals
      BY DEF Variables
    <3>3. basis # "uninitialized" /\ Globals \cap Locals = {}
      BY <2>3, VariablesDistinct
    <3> HIDE NameFacts
    <3> QED BY <2>1, <2>3, <3>1, <3>2, <3>3
  <2>4. CASE basis = "uninitialized"
    <3>1. BasisWeight(basis) =
              (Globals \X {UNINITIALIZED}) \cup IdentityOn(Constants) \cup (Locals \X {UNINITIALIZED})
      BY <2>4 DEF BasisWeight, LocalsToUninitialized
    <3>2. \A x : x \in Variables <=> x \in Globals \/ x \in Locals
      BY DEF Variables
    <3>3. basis # "identityGlobals"
      BY <2>4
    <3> HIDE NameFacts
    <3> QED BY <2>1, <2>4, <3>1, <3>2, <3>3
  <2> QED BY <1>0, <2>2, <2>3, <2>4
<1>4. store \in [Variables -> Value]
  BY DEF TypeOK
<1>5. ConstantRows(rule')
  BY <1>1, <1>3 DEF ConstantRows
<1>6. ASSUME NEW x \in Variables
      PROVE  /\ \E z \in Var : <<x, z>> \in rule' /\ next'[x] = Meaning(z, store, Depth)
             /\ \A z \in Var : <<x, z>> \in rule' => next'[x] = Meaning(z, store, Depth) /\ z \in {x, UNINITIALIZED}
             /\ next'[x].made <= Depth
  <2>1. Meaning(x, store, Depth) = store[x] /\ Meaning(UNINITIALIZED, store, Depth) = Uninit
    BY DEF Meaning, Uninit
  <2>2. next'[x] = IF basis = "uninitialized" \/ (basis = "identityGlobals" /\ x \in Locals)
                   THEN Uninit ELSE store[x]
    BY <1>1 DEF BasisStore
  <2>3. Uninit.made <= Depth /\ store[x].made <= Depth
    BY <1>2 DEF Uninit, MadeUpTo
  <2> QED BY <1>1, <1>3, <2>1, <2>2, <2>3
<1>7. MadeUpTo(next', Depth)
  BY <1>6 DEF MadeUpTo
<1>8. Explains(rule', store, next', Depth)
  BY <1>6 DEF Explains
<1>9. ExplainsOnly(rule', store, next', Depth)
  BY <1>6 DEF ExplainsOnly
<1>10. DOMAIN chosen' = {}
  BY <1>1
<1> QED
  BY <1>1, <1>5, <1>6, <1>7, <1>8, <1>9, <1>10 DEF RuleInv

\* One more assignment of the rule: what it removes is a row of the basis.
LEMMA AssignInv ==
    ASSUME TypeOK, RuleInv, MadeUpTo(store, Depth), ~RepeatTargets,
           NEW a \in Assignments, NEW take \in BOOLEAN, AssignInfo(a[1], a[2], take)
    PROVE  RuleInv'
<1> DEFINE to == a[1]
           from == a[2]
<1>1. to \in Variables /\ from \in Var /\ to \in Var /\ to \notin Constants
  BY RulesType, NameFacts
<1>2. /\ rule' = Assign(rule, to, from)
      /\ next' = IF take THEN [next EXCEPT ![to] = Meaning(from, store, Depth)] ELSE next
      /\ chosen' = [x \in DOMAIN chosen \cup {to} |-> IF x = to /\ take THEN from ELSE chosen[x]]
      /\ branching' = (branching \/ to \in DOMAIN chosen)
      /\ to \in DOMAIN chosen => chosen[to] \notin {to, UNINITIALIZED}
      /\ ~take => to \in DOMAIN chosen
      /\ store' = store /\ Depth' = Depth
  BY DEF AssignInfo, pathVars, Depth
<1> HIDE DEF to, from
<1>3. /\ Depth \in Nat /\ store \in [Variables -> Value] /\ next \in [Variables -> Value]
      /\ DOMAIN chosen \subseteq Variables
  BY DEF TypeOK, Depth
<1>4. \A x, z \in Var : <<x, z>> \in rule' <=>
          \/ x = to /\ z = from
          \/ <<x, z>> \in rule /\ ~(x = to /\ z \in {to, UNINITIALIZED})
  BY <1>2 DEF Assign
<1>5. UNINITIALIZED \in Var /\ \A x \in Variables : x \in Var
  BY NameFacts
<1>6. ConstantRows(rule')
  <2>1. ASSUME NEW c \in Constants, NEW z \in Var
        PROVE  <<c, z>> \in rule' <=> z = c
    <3>1. c # to /\ c \in Var
      BY <1>1, NameFacts
    <3> QED BY <1>4, <3>1 DEF RuleInv, ConstantRows
  <2> QED BY <2>1 DEF ConstantRows
<1>7. MadeUpTo(next', Depth)
  <2>1. Meaning(from, store, Depth).made <= Depth
    BY <1>1, <1>3, MeaningMade
  <2>2. \A x \in Variables : next[x].made <= Depth
    BY DEF RuleInv, MadeUpTo
  <2> QED BY <1>1, <1>2, <1>3, <2>1, <2>2 DEF MadeUpTo
<1>8. ASSUME NEW x \in DOMAIN chosen'
      PROVE  <<x, chosen'[x]>> \in rule' /\ next'[x] = Meaning(chosen'[x], store, Depth)
  <2>1. CASE x = to /\ take
    <3>1. <<x, chosen'[x]>> \in rule'
      BY <1>1, <1>2, <1>4, <2>1
    <3> QED BY <1>1, <1>2, <1>3, <2>1, <3>1
  <2>2. CASE ~(x = to /\ take)
    <3>1. x \in DOMAIN chosen /\ chosen'[x] = chosen[x] /\ chosen[x] \in Var /\ x \in Var
      BY <1>2, <1>3, <1>5, <2>2 DEF TypeOK
    <3>2. <<x, chosen[x]>> \in rule /\ next[x] = Meaning(chosen[x], store, Depth)
      BY <3>1 DEF RuleInv
    <3>3. next'[x] = next[x]
      BY <1>2, <1>3, <2>2
    <3> QED BY <1>2, <1>4, <3>1, <3>2, <3>3
  <2> QED BY <2>1, <2>2
<1>9. Explains(rule', store, next', Depth)
  <2> SUFFICES ASSUME NEW x \in Variables
               PROVE  \E z \in Var : <<x, z>> \in rule' /\ next'[x] = Meaning(z, store, Depth)
    BY DEF Explains
  <2>1. CASE x = to
    <3>1. x \in DOMAIN chosen' /\ chosen'[x] \in Var
      BY <1>1, <1>2, <2>1 DEF TypeOK
    <3> QED BY <1>8, <3>1
  <2>2. CASE x # to
    <3>1. next'[x] = next[x]
      BY <1>2, <1>3, <2>2
    <3>2. PICK z \in Var : <<x, z>> \in rule /\ next[x] = Meaning(z, store, Depth)
      BY DEF RuleInv, Explains
    <3> QED BY <1>4, <1>5, <2>2, <3>1, <3>2
  <2> QED BY <2>1, <2>2
<1>10. ASSUME ~branching', NEW x \in Variables, NEW z \in Var, <<x, z>> \in rule'
       PROVE  /\ next'[x] = Meaning(z, store, Depth)
              /\ x \notin DOMAIN chosen' => z \in {x, UNINITIALIZED}
  <2>1. ~branching /\ to \notin DOMAIN chosen /\ take
    BY <1>2, <1>10
  <2>2. CASE x = to
    <3>1. z = from
      BY <1>1, <1>4, <1>10, <2>1, <2>2 DEF RuleInv
    <3> QED BY <1>1, <1>2, <1>3, <2>1, <2>2, <3>1
  <2>3. CASE x # to
    <3>1. <<x, z>> \in rule
      BY <1>4, <1>5, <1>10, <2>3
    <3>2. next'[x] = next[x]
      BY <1>2, <1>3, <2>3
    <3>3. x \in DOMAIN chosen' <=> x \in DOMAIN chosen
      BY <1>2, <2>3
    <3> QED BY <2>1, <3>1, <3>2, <3>3 DEF RuleInv, ExplainsOnly
  <2> QED BY <2>2, <2>3
<1>11. ~branching' => ExplainsOnly(rule', store, next', Depth)
  BY <1>10 DEF ExplainsOnly
<1> QED
  BY <1>2, <1>6, <1>7, <1>8, <1>9, <1>10, <1>11 DEF RuleInv

-----------------------------------------------------------------------------
(* The steps of the path.                                                  *)

\* The activation goes on through the rule.
LEMMA StepActivation ==
    ASSUME TypeOK, RuleInv, ActivationInv(Depth, entry, prefix, weight, store)
    PROVE  ActivationInv(Depth, entry, prefix, Extend(weight, rule), next)
<1>1. /\ Depth \in Nat /\ entry \in [Variables -> Value] /\ store \in [Variables -> Value]
      /\ next \in [Variables -> Value] /\ weight \in Weight /\ rule \in Weight
  BY DEF TypeOK, Depth
<1>2. ConstantRows(Extend(weight, rule))
  BY <1>1, ConstantRowsCompose DEF ActivationInv, RuleInv
<1>3. Explains(Extend(weight, rule), entry, next, Depth)
  BY <1>1, ExplainsCompose DEF ActivationInv, RuleInv
<1>4. ~branching => ExplainsOnly(Extend(weight, rule), entry, next, Depth)
  BY <1>1, ExplainsOnlyCompose DEF ActivationInv, RuleInv
<1> QED BY <1>2, <1>3, <1>4 DEF ActivationInv, RuleInv

\* A store that was reached through a weight is a legal entry for a callee.
LEMMA CalleeActivation ==
    ASSUME NEW d \in Nat \ {0}, NEW p \in Weight, NEW w \in Weight,
           NEW e \in [Variables -> Value], NEW s \in [Variables -> Value],
           ActivationInv(d, e, p, w, s)
    PROVE  ActivationInv(d + 1, s, Extend(p, w), One, s)
<1>1. ConstantRows(Extend(p, w)) /\ ReachedFrom(Extend(p, w), s)
  BY ConstantRowsCompose, ReachedCompose DEF ActivationInv
<1>2. ~branching => ReachedOnlyFrom(Extend(p, w), s)
  BY ReachedOnlyCompose DEF ActivationInv
<1>3. MadeUpTo(s, (d + 1) - 1) /\ MadeUpTo(s, d + 1)
  BY DEF ActivationInv, MadeUpTo, Value
<1>4. \A x, z \in Var : <<x, z>> \in One <=> x = z
  BY DEF One, IdentityOn
<1>5. ConstantRows(One)
  BY <1>4, NameFacts DEF ConstantRows
<1>6. \A x \in Variables : Meaning(x, s, d + 1) = s[x]
  BY NameFacts DEF Meaning
<1>7. Explains(One, s, s, d + 1) /\ ExplainsOnly(One, s, s, d + 1)
  BY <1>4, <1>6, NameFacts DEF Explains, ExplainsOnly
<1> QED BY <1>1, <1>2, <1>3, <1>5, <1>7 DEF ActivationInv

\* The caller goes on after the call: MergeError::apply_f explains what the
\* callee did to the globals and that the caller's locals are as they were.
LEMMA ReturnActivation ==
    ASSUME NEW d \in Nat \ {0}, NEW f \in Functions, NEW p, NEW q,
           NEW b \in Weight, NEW r \in Weight, NEW w \in Weight,
           NEW e \in [Variables -> Value], NEW s \in [Variables -> Value],
           NEW n \in [Variables -> Value], NEW m \in [Variables -> Value],
           ActivationInv(d, e, p, Extend(b, r), s), ActivationInv(d + 1, s, q, w, n),
           \A x \in Variables : m[x] =
                IF x \in Locals THEN s[x]
                ELSE IF n[x].made = d + 1
                     THEN [n[x] EXCEPT !.made = IF x = Return[f] THEN 0 ELSE d]
                ELSE n[x]
    PROVE  ActivationInv(d, e, p, Merge(b, r, w, f), m)
<1> DEFINE c == Extend(b, r)
           k == CalleeEffect(w, f)
<1>1. Merge(b, r, w, f) = Extend(c, k)
  BY DEF Merge
<1>2. \A x, z \in Var : <<x, z>> \in k <=> IsEffect(w, f, x, z)
  BY CalleeEffectPair
<1>3. /\ \A x \in Locals : x \in Variables /\ x \notin Globals
      /\ \A x \in Globals : x \in Variables /\ x \notin Locals /\ x \notin Constants
      /\ \A x \in Variables : x \in Globals \/ x \in Locals
  BY VariablesDistinct DEF Variables
<1>4. /\ ConstantRows(c) /\ Explains(c, e, s, d) /\ MadeUpTo(e, d - 1) /\ MadeUpTo(s, d)
      /\ ConstantRows(w) /\ Explains(w, s, n, d + 1) /\ MadeUpTo(n, d + 1)
      /\ ~branching => ExplainsOnly(c, e, s, d) /\ ExplainsOnly(w, s, n, d + 1)
  BY DEF ActivationInv
<1>. c \in Weight /\ k \in Weight
  BY ExtendType, CalleeEffectType
<1> HIDE DEF c, k
<1>5. ConstantRows(k)
  <2> SUFFICES ASSUME NEW x \in Constants, NEW z \in Var PROVE <<x, z>> \in k <=> z = x
    BY DEF ConstantRows
  <2>1. x \notin Globals /\ x \in Var
    BY <1>3, NameFacts
  <2> QED BY <1>2, <2>1 DEF IsEffect
\* The effect of the call explains the caller's new store from its store at the call.
<1>6. ASSUME NEW x \in Variables, NEW y \in Var, <<x, y>> \in w, x \in Globals,
             n[x] = Meaning(y, s, d + 1)
      PROVE  \E z \in Var : IsEffect(w, f, x, z) /\ m[x] = Meaning(z, s, d)
  <2>1. x \notin Locals
    BY <1>3, <1>6
  <2>2. CASE y \in TentativeErrors
    <3>1. n[x] = [code |-> Real[y], made |-> d + 1]
      BY <1>6, <2>2 DEF Meaning
    <3>2. m[x] = [code |-> Real[y], made |-> IF x = Return[f] THEN 0 ELSE d]
      BY <2>1, <3>1
    <3>3. CASE x = Return[f]
      <4>1. IsEffect(w, f, x, Real[y]) /\ Real[y] \in Var
        BY <1>6, <2>2, <3>3, NameFacts DEF IsEffect
      <4>2. Meaning(Real[y], s, d) = [code |-> Real[y], made |-> 0]
        BY <2>2, NameFacts DEF Meaning
      <4> QED BY <3>2, <3>3, <4>1, <4>2
    <3>4. CASE x # Return[f]
      <4>1. IsEffect(w, f, x, y)
        BY <1>6, <3>4 DEF IsEffect
      <4>2. Meaning(y, s, d) = [code |-> Real[y], made |-> d]
        BY <2>2 DEF Meaning
      <4> QED BY <3>2, <3>4, <4>1, <4>2
    <3> QED BY <3>3, <3>4
  <2>3. CASE y \notin TentativeErrors
    <3>1. IsEffect(w, f, x, y)
      BY <1>6, <2>3 DEF IsEffect
    <3>2. Meaning(y, s, d + 1) = Meaning(y, s, d)
      BY <2>3 DEF Meaning
    <3>3. Meaning(y, s, d).made <= d
      BY <1>4, MeaningMade
    <3>4. n[x].made # d + 1
      BY <1>6, <3>2, <3>3, MeaningType DEF Value
    <3> QED BY <1>6, <2>1, <3>1, <3>2, <3>4
  <2> QED BY <2>2, <2>3
<1>7. Explains(k, s, m, d)
  <2> SUFFICES ASSUME NEW x \in Variables
               PROVE  \E z \in Var : <<x, z>> \in k /\ m[x] = Meaning(z, s, d)
    BY DEF Explains
  <2>1. CASE x \in Locals
    <3>1. <<x, x>> \in k /\ x \in Var
      BY <1>2, <2>1, NameFacts DEF IsEffect
    <3>2. Meaning(x, s, d) = s[x]
      BY NameFacts DEF Meaning
    <3> QED BY <2>1, <3>1, <3>2
  <2>2. CASE x \in Globals
    <3>1. PICK y \in Var : <<x, y>> \in w /\ n[x] = Meaning(y, s, d + 1)
      BY <1>4 DEF Explains
    <3>2. PICK z \in Var : IsEffect(w, f, x, z) /\ m[x] = Meaning(z, s, d)
      BY <1>6, <2>2, <3>1
    <3> QED BY <1>2, <3>2, NameFacts
  <2> QED BY <1>3, <2>1, <2>2
<1>8. ~branching => ExplainsOnly(k, s, m, d)
  <2> SUFFICES ASSUME ~branching, NEW x \in Variables, NEW z \in Var, <<x, z>> \in k
               PROVE  m[x] = Meaning(z, s, d)
    BY DEF ExplainsOnly
  <2>1. IsEffect(w, f, x, z)
    BY <1>2, NameFacts
  <2>2. CASE x \in Locals
    <3>1. z = x
      BY <1>3, <2>1, <2>2 DEF IsEffect
    <3> QED BY <2>2, <3>1, NameFacts DEF Meaning
  <2>3. CASE x \in Globals
    <3>0. x \notin Locals \cup Constants
      BY <1>3, <2>3
    <3>1. ASSUME NEW t \in TentativeErrors, <<x, t>> \in w
          PROVE  m[x] = [code |-> Real[t], made |-> IF x = Return[f] THEN 0 ELSE d]
      <4>1. n[x] = Meaning(t, s, d + 1)
        BY <1>4, <3>1, NameFacts DEF ExplainsOnly
      <4>2. n[x] = [code |-> Real[t], made |-> d + 1]
        BY <4>1 DEF Meaning
      <4> QED BY <3>0, <4>2
    <3>2. CASE x = Return[f] /\ \E t \in TentativeErrors : z = Real[t] /\ <<x, t>> \in w
      <4>1. PICK t \in TentativeErrors : z = Real[t] /\ <<x, t>> \in w
        BY <3>2
      <4>2. m[x] = [code |-> z, made |-> 0]
        BY <3>1, <3>2, <4>1
      <4>3. z \in Constants /\ z \notin TentativeErrors
        BY <4>1, NameFacts
      <4> QED BY <4>2, <4>3 DEF Meaning
    <3>3. CASE x # Return[f] /\ <<x, z>> \in w /\ z \in TentativeErrors
      <4>1. m[x] = [code |-> Real[z], made |-> d]
        BY <3>1, <3>3
      <4> QED BY <3>3, <4>1 DEF Meaning
    <3>4. CASE <<x, z>> \in w /\ z \notin TentativeErrors
      <4>1. n[x] = Meaning(z, s, d + 1) /\ Meaning(z, s, d + 1) = Meaning(z, s, d)
        BY <1>4, <3>4 DEF ExplainsOnly, Meaning
      <4>2. Meaning(z, s, d).made <= d /\ Meaning(z, s, d) \in Value
        BY <1>4, MeaningMade, MeaningType
      <4>3. n[x].made # d + 1
        BY <4>1, <4>2 DEF Value
      <4> QED BY <3>0, <4>1, <4>3
    <3> QED BY <2>1, <3>0, <3>2, <3>3, <3>4 DEF IsEffect
  <2> QED BY <1>3, <2>2, <2>3
<1>9. MadeUpTo(m, d)
  <2> SUFFICES ASSUME NEW x \in Variables PROVE m[x].made <= d
    BY DEF MadeUpTo
  <2>1. s[x].made <= d /\ n[x].made <= d + 1 /\ n[x] \in Value
    BY <1>4 DEF MadeUpTo
  <2>2. s[x].made \in Nat /\ n[x].made \in Nat
    BY DEF Value
  <2>3. [n[x] EXCEPT !.made = IF x = Return[f] THEN 0 ELSE d].made \in {0, d}
    BY <2>1 DEF Value
  <2>4. m[x] = IF x \in Locals THEN s[x]
               ELSE IF n[x].made = d + 1
                    THEN [n[x] EXCEPT !.made = IF x = Return[f] THEN 0 ELSE d]
               ELSE n[x]
    OBVIOUS
  <2>5. CASE x \in Locals
    BY <2>1, <2>4, <2>5
  <2>6. CASE x \notin Locals /\ n[x].made = d + 1
    <3>1. m[x].made \in {0, d}
      BY <2>3, <2>4, <2>6
    <3> QED BY <3>1
  <2>7. CASE x \notin Locals /\ n[x].made # d + 1
    <3>1. m[x] = n[x]
      BY <2>4, <2>7
    <3> QED BY <2>1, <2>2, <2>7, <3>1
  <2> QED BY <2>5, <2>6, <2>7
<1>10. ConstantRows(Extend(c, k))
  BY <1>4, <1>5, ConstantRowsCompose
<1>11. Explains(Extend(c, k), e, m, d)
  BY <1>4, <1>7, ExplainsCompose
<1>12. ~branching => ExplainsOnly(Extend(c, k), e, m, d)
  BY <1>4, <1>8, ExplainsOnlyCompose
<1> QED BY <1>1, <1>9, <1>10, <1>11, <1>12 DEF ActivationInv

-----------------------------------------------------------------------------
(* Type correctness.                                                       *)

\* Taking the rule, for a step or for a call.
LEMMA EndRuleType ==
    ASSUME TypeOK, EndRule
    PROVE  /\ phase' = "path" /\ store' = next /\ next' = next /\ rule' = One
           /\ chosen' = << >> /\ DOMAIN chosen' = {} /\ assigns' = assigns
           /\ branching' = branching /\ rules' = rules
BY DEF EndRule

\* The stack without its top is a stack.
LEMMA PopType ==
    ASSUME TypeOK, stack # << >>
    PROVE  /\ Len(stack) \in Nat \ {0} /\ Top \in FrameType
           /\ Pop \in Seq(FrameType) /\ Len(Pop) = Len(stack) - 1
           /\ \A k \in 1 .. Len(Pop) : Pop[k] = stack[k]
<1>1. stack \in Seq(FrameType) /\ Len(stack) \in Nat \ {0}
  BY DEF TypeOK
<1>2. \A k \in 1 .. Len(stack) : stack[k] \in FrameType
  BY <1>1
<1>3. Len(stack) - 1 \in Nat
  BY <1>1
<1>4. Pop \in [1 .. Len(stack) - 1 -> FrameType]
  BY <1>1, <1>2 DEF Pop
<1>5. Pop \in Seq(FrameType) /\ Len(Pop) = Len(stack) - 1
  BY <1>3, <1>4
<1> QED BY <1>1, <1>2, <1>5 DEF Pop, Top

\* What a variable holds after a return is a value.
LEMMA AfterReturnType ==
    ASSUME TypeOK, stack # << >>, NEW f \in Functions
    PROVE  [x \in Variables |-> AfterReturn(f, x)] \in [Variables -> Value]
<1> SUFFICES ASSUME NEW x \in Variables PROVE AfterReturn(f, x) \in Value
  OBVIOUS
<1>1. Top.saved[x] \in Value /\ store[x] \in Value
  BY PopType DEF FrameType, TypeOK
<1>2. Depth - 1 \in Nat
  BY PopType DEF Depth
<1>3. [store[x] EXCEPT !.made = IF x = Return[f] THEN 0 ELSE Depth - 1] \in Value
  BY <1>1, <1>2 DEF Value
<1> QED BY <1>1, <1>3 DEF AfterReturn

\* TypeOK is preserved by every step.
LEMMA TypeStep ==
    ASSUME TypeOK, [Next]_vars
    PROVE  TypeOK'
<1> USE DEF TypeOK
<1>1. ASSUME NEW basis \in Bases, BeginRule(basis) PROVE TypeOK'
  <2>1. BasisStore(basis) \in [Variables -> Value]
    BY DEF BasisStore, Uninit, Value
  <2> QED BY <1>1, <2>1, RuleType, BoundsType DEF BeginRule, pathVars
<1>2. ASSUME NEW a \in Assignments, NEW take \in BOOLEAN, AssignInfo(a[1], a[2], take) PROVE TypeOK'
  <2>1. a[1] \in Variables /\ a[1] \in Var /\ a[2] \in Var /\ Depth \in Nat
    BY RulesType, NameFacts DEF Depth
  <2>2. Meaning(a[2], store, Depth) \in Value
    BY <2>1, MeaningType
  <2>3. rule' \in Weight /\ next' \in [Variables -> Value]
    BY <1>2, <2>1, <2>2, RuleType DEF AssignInfo
  <2>4. DOMAIN chosen' \subseteq Variables /\ \A x \in DOMAIN chosen' : chosen'[x] \in Var
    BY <1>2, <2>1 DEF AssignInfo
  <2>5. branching' \in BOOLEAN /\ assigns' \in 0 .. MaxAssigns
    BY <1>2, BoundsType DEF AssignInfo
  <2> QED BY <1>2, <2>3, <2>4, <2>5 DEF AssignInfo, pathVars
<1>3. ASSUME Step PROVE TypeOK'
  BY <1>3, EndRuleType, RuleType, ExtendType, BoundsType DEF Step
<1>4. ASSUME NEW f \in Functions, Call(f) PROVE TypeOK'
  <2>1. stack' \in Seq(FrameType)
    BY <1>4 DEF Call, FrameType
  <2>2. prefix' \in Weight /\ weight' \in Weight /\ entry' = next
    BY <1>4, ExtendType, RuleType DEF Call
  <2>3. EndRule
    BY <1>4 DEF Call
  <2> QED BY <2>1, <2>2, <2>3, EndRuleType, RuleType, BoundsType
<1>5. ASSUME NEW f \in Functions, ReturnFrom(f) PROVE TypeOK'
  <2>1. Top.entry \in [Variables -> Value] /\ Top.prefix \in Weight /\ Pop \in Seq(FrameType)
    BY <1>5, PopType DEF ReturnFrom, FrameType
  <2>2. weight' \in Weight
    BY <1>5, MergeType, PopType DEF ReturnFrom, FrameType
  <2>3. store' \in [Variables -> Value]
    BY <1>5, AfterReturnType DEF ReturnFrom
  <2> QED BY <1>5, <2>1, <2>2, <2>3 DEF ReturnFrom
<1>6. CASE UNCHANGED vars
  BY <1>6 DEF vars, pathVars, ruleVars
<1> QED BY <1>1, <1>2, <1>3, <1>4, <1>5, <1>6 DEF Next

-----------------------------------------------------------------------------
(* The inductive invariant.                                                *)

\* At the start nothing is on the stack and every weight is one.
LEMMA PathInvInit ==
    ASSUME Init
    PROVE  PathInv
<1>1. TypeOK
  <2>1. Uninit \in Value
    BY DEF Uninit, Value
  <2>2. stack \in Seq(FrameType) /\ DOMAIN chosen = {}
    BY DEF Init
  <2>3. rules \in 0 .. MaxRules /\ assigns \in 0 .. MaxAssigns
    BY BoundsType DEF Init
  <2> QED BY <2>1, <2>2, <2>3, RuleType DEF Init, TypeOK
<1>2. Depth = 1 /\ 1 .. Len(stack) = {}
  BY DEF Init, Depth
<1>3. \A x, z \in Var : <<x, z>> \in One <=> x = z
  BY DEF One, IdentityOn
<1>4. \A x \in Variables : store[x] = Uninit /\ entry[x] = Uninit
  BY DEF Init
<1>5. \A x \in Variables : Denotes(x, entry[x]) /\ Meaning(x, entry, 1) = store[x]
  BY <1>4, NameFacts DEF Denotes, Meaning
<1>6. MadeUpTo(entry, 0) /\ MadeUpTo(store, 1)
  BY <1>4 DEF MadeUpTo, Uninit
<1>7. ConstantRows(One)
  BY <1>3, NameFacts DEF ConstantRows
<1>8. ReachedFrom(One, entry) /\ ReachedOnlyFrom(One, entry)
  BY <1>3, <1>5, NameFacts DEF ReachedFrom, ReachedOnlyFrom
<1>9. Explains(One, entry, store, 1) /\ ExplainsOnly(One, entry, store, 1)
  BY <1>3, <1>5, NameFacts DEF Explains, ExplainsOnly
<1>10. ActivationInv(Depth, entry, prefix, weight, store)
  BY <1>2, <1>6, <1>7, <1>8, <1>9 DEF ActivationInv, Init
<1> QED BY <1>1, <1>2, <1>10 DEF PathInv, Init

\* A suspended activation stays as it is while others run.
LEMMA FrameKept ==
    ASSUME NEW k, FrameInv(k), stack'[k] = stack[k], branching => branching',
           (IF k = Len(stack) THEN entry ELSE stack[k + 1].entry)
             = (IF k = Len(stack') THEN entry' ELSE stack'[k + 1].entry)
    PROVE  FrameInv(k)'
BY DEF FrameInv, ActivationInv

\* The invariant is preserved inside getWeight and between two calls.
LEMMA PathInvRule ==
    ASSUME PathInv, ~RepeatTargets, TypeOK',
           \/ \E basis \in Bases : BeginRule(basis)
           \/ \E a \in Assignments, take \in BOOLEAN : AssignInfo(a[1], a[2], take)
    PROVE  PathInv'
<1>1. UNCHANGED <<pathVars, Depth>> /\ phase' = "rule" /\ (branching => branching')
  <2>1. ASSUME NEW basis \in Bases, BeginRule(basis) 
        PROVE  UNCHANGED <<pathVars, Depth>> /\ phase' = "rule" /\ (branching => branching')
    BY <2>1 DEF BeginRule, pathVars, Depth
  <2>2. ASSUME NEW a \in Assignments, NEW take \in BOOLEAN, AssignInfo(a[1], a[2], take)
        PROVE  UNCHANGED <<pathVars, Depth>> /\ phase' = "rule" /\ (branching => branching')
    BY <2>2 DEF AssignInfo, pathVars, Depth, PathInv, TypeOK
  <2> QED BY <2>1, <2>2
<1>2. ActivationInv(Depth, entry, prefix, weight, store)'
  BY <1>1 DEF PathInv, ActivationInv, pathVars
<1>3. ASSUME NEW k \in 1 .. Len(stack') PROVE FrameInv(k)'
  BY <1>1, FrameKept DEF PathInv, pathVars
<1>4. MadeUpTo(store, Depth) /\ TypeOK
  BY DEF PathInv, ActivationInv
<1>5. ASSUME NEW basis \in Bases, BeginRule(basis) PROVE RuleInv'
  BY <1>4, <1>5, BasisInv DEF BeginRule, PathInv
<1>6. ASSUME NEW a \in Assignments, NEW take \in BOOLEAN, AssignInfo(a[1], a[2], take) PROVE RuleInv'
  BY <1>4, <1>6, AssignInv DEF AssignInfo, PathInv
<1> QED BY <1>1, <1>2, <1>3, <1>5, <1>6 DEF PathInv

\* ... by a rule that is not a call,
LEMMA PathInvStep ==
    ASSUME PathInv, TypeOK', Step
    PROVE  PathInv'
<1>1. /\ UNCHANGED <<entry, prefix, stack, branching, Depth>> /\ phase' = "path" /\ chosen' = << >>
      /\ weight' = Extend(weight, rule) /\ store' = next
  BY DEF Step, EndRule, Depth
<1>2. ActivationInv(Depth, entry, prefix, Extend(weight, rule), next)
  BY StepActivation DEF PathInv, Step, EndRule
<1>3. ActivationInv(Depth, entry, prefix, weight, store)'
  BY <1>1, <1>2 DEF ActivationInv
<1>4. ASSUME NEW k \in 1 .. Len(stack') PROVE FrameInv(k)'
  BY <1>1, FrameKept DEF PathInv
<1> QED BY <1>1, <1>3, <1>4 DEF PathInv

\* ... by a call,
LEMMA PathInvCall ==
    ASSUME PathInv, TypeOK', NEW f \in Functions, Call(f)
    PROVE  PathInv'
<1> DEFINE w == Extend(weight, rule)
           frame == [function |-> f, before |-> weight, rule |-> rule,
                     entry |-> entry, prefix |-> prefix, saved |-> next]
<1>1. /\ branching' = branching /\ phase' = "path" /\ chosen' = << >> /\ store' = next /\ entry' = next
      /\ prefix' = Extend(prefix, w) /\ weight' = One /\ stack' = Append(stack, frame)
  BY DEF Call, EndRule
<1>2. /\ TypeOK /\ Depth \in Nat \ {0} /\ Len(stack) \in Nat /\ entry \in [Variables -> Value]
      /\ next \in [Variables -> Value] /\ stack \in Seq(FrameType)
      /\ prefix \in Weight /\ w \in Weight
  BY ExtendType DEF PathInv, TypeOK, Depth
<1>3. /\ Len(stack') = Len(stack) + 1 /\ stack'[Len(stack) + 1] = frame
      /\ \A k \in 1 .. Len(stack) : stack'[k] = stack[k]
  BY <1>1, <1>2
<1>4. Depth' = Depth + 1 /\ Depth = Len(stack')
  BY <1>2, <1>3 DEF Depth
<1>5. ActivationInv(Depth, entry, prefix, w, next)
  BY StepActivation DEF PathInv, Call, EndRule
<1>6. ActivationInv(Depth + 1, next, Extend(prefix, w), One, next)
  BY <1>2, <1>5, CalleeActivation
<1>7. ActivationInv(Depth, entry, prefix, weight, store)'
  BY <1>1, <1>4, <1>6 DEF ActivationInv
<1>8. ASSUME NEW k \in 1 .. Len(stack') PROVE FrameInv(k)'
  <2>1. CASE k = Len(stack')
    <3>1. stack'[k] = frame /\ k = Depth
      BY <1>3, <1>4, <2>1
    <3>2. /\ stack'[k].entry = entry /\ stack'[k].prefix = prefix /\ stack'[k].before = weight
          /\ stack'[k].rule = rule /\ stack'[k].saved = next
      BY <3>1
    <3> QED BY <1>1, <1>5, <2>1, <3>1, <3>2 DEF FrameInv, ActivationInv
  <2>2. CASE k \in 1 .. Len(stack)
    <3>1. FrameInv(k)
      BY <2>2 DEF PathInv
    <3>2. k # Len(stack')
      BY <1>2, <1>3, <2>2
    <3>3. CASE k = Len(stack)
      <4>1. stack'[k + 1].entry = entry
        BY <1>3, <3>3
      <4> QED BY <1>1, <1>3, <2>2, <3>1, <3>2, <3>3, <4>1, FrameKept
    <3>4. CASE k # Len(stack)
      <4>1. stack'[k + 1] = stack[k + 1]
        BY <1>2, <1>3, <2>2, <3>4
      <4> QED BY <1>1, <1>3, <2>2, <3>1, <3>2, <3>4, <4>1, FrameKept
    <3> QED BY <3>3, <3>4
  <2> QED BY <1>2, <1>3, <2>1, <2>2
<1> QED BY <1>1, <1>7, <1>8 DEF PathInv

\* ... and by a return.
LEMMA PathInvReturn ==
    ASSUME PathInv, TypeOK', NEW f \in Functions, ReturnFrom(f)
    PROVE  PathInv'
<1>1. /\ stack # << >> /\ branching' = branching /\ phase = "path" /\ phase' = "path" /\ chosen' = chosen
      /\ weight' = Merge(Top.before, Top.rule, weight, f) /\ entry' = Top.entry /\ prefix' = Top.prefix
      /\ stack' = Pop /\ store' = [x \in Variables |-> AfterReturn(f, x)]
  BY DEF ReturnFrom
<1>2. /\ TypeOK /\ Len(stack) \in Nat \ {0} /\ Len(stack') = Len(stack) - 1
      /\ \A k \in 1 .. Len(stack') : stack'[k] = stack[k]
  BY <1>1, PopType DEF PathInv
<1>3. Depth = Len(stack) + 1 /\ Depth' = Len(stack) /\ Depth - 1 = Len(stack)
  BY <1>2 DEF Depth
<1>4. FrameInv(Len(stack))
  BY <1>2 DEF PathInv
<1>5. ActivationInv(Len(stack), Top.entry, Top.prefix, Extend(Top.before, Top.rule), Top.saved) /\ Top.saved = entry
  BY <1>4 DEF FrameInv, Top
<1>6. ActivationInv(Len(stack) + 1, Top.saved, prefix, weight, store)
  BY <1>3, <1>5 DEF PathInv
<1>7. \A x \in Variables : store'[x] =
          IF x \in Locals THEN Top.saved[x]
          ELSE IF store[x].made = Len(stack) + 1
               THEN [store[x] EXCEPT !.made = IF x = Return[f] THEN 0 ELSE Len(stack)]
          ELSE store[x]
  BY <1>1, <1>3 DEF AfterReturn
<1>8. /\ Top.entry \in [Variables -> Value] /\ Top.saved \in [Variables -> Value] /\ weight \in Weight
      /\ store \in [Variables -> Value] /\ store' \in [Variables -> Value]
      /\ Top.before \in Weight /\ Top.rule \in Weight
  BY <1>1, <1>2, PopType DEF TypeOK, FrameType
<1>9. ActivationInv(Len(stack), Top.entry, Top.prefix, Merge(Top.before, Top.rule, weight, f), store')
  <2> DEFINE d == Len(stack)
             e == Top.entry
             s == Top.saved
             b == Top.before
             r == Top.rule
             m == store'
  <2>1. \A x \in Variables : m[x] =
            IF x \in Locals THEN s[x]
            ELSE IF store[x].made = d + 1
                 THEN [store[x] EXCEPT !.made = IF x = Return[f] THEN 0 ELSE d]
            ELSE store[x]
    BY <1>7
  <2>2. /\ d \in Nat \ {0} /\ e \in [Variables -> Value] /\ s \in [Variables -> Value]
        /\ m \in [Variables -> Value] /\ b \in Weight /\ r \in Weight
    BY <1>2, <1>8
  <2>3. ActivationInv(d, e, Top.prefix, Extend(b, r), s) /\ ActivationInv(d + 1, s, prefix, weight, store)
    BY <1>5, <1>6
  <2> HIDE DEF d, e, s, b, r, m
  <2>4. ActivationInv(d, e, Top.prefix, Merge(b, r, weight, f), m)
    BY <1>8, <2>1, <2>2, <2>3, ReturnActivation
  <2> QED BY <2>4 DEF d, e, b, r, m
<1>10. ActivationInv(Depth, entry, prefix, weight, store)'
  BY <1>1, <1>3, <1>9 DEF ActivationInv
<1>11. ASSUME NEW k \in 1 .. Len(stack') PROVE FrameInv(k)'
  <2>1. k \in 1 .. Len(stack) /\ k # Len(stack) /\ FrameInv(k) /\ stack'[k] = stack[k]
    BY <1>2 DEF PathInv
  <2>2. CASE k = Len(stack')
    <3>1. stack[k + 1] = Top
      BY <1>2, <2>2 DEF Top
    <3> QED BY <1>1, <2>1, <2>2, <3>1, FrameKept
  <2>3. CASE k # Len(stack')
    <3>1. stack'[k + 1] = stack[k + 1]
      BY <1>2, <2>3
    <3> QED BY <1>1, <2>1, <2>3, <3>1, FrameKept
  <2> QED BY <2>2, <2>3
<1> QED BY <1>1, <1>10, <1>11 DEF PathInv

\* Every step preserves the invariant.
LEMMA PathInvNext ==
    ASSUME PathInv, ~RepeatTargets, [Next]_vars
    PROVE  PathInv'
<1>1. TypeOK'
  BY TypeStep DEF PathInv
<1>2. CASE UNCHANGED vars
  BY <1>1, <1>2 DEF vars, pathVars, ruleVars, PathInv, FrameInv, ActivationInv, RuleInv, Depth
<1>3. CASE Next
  BY <1>1, <1>3, PathInvRule, PathInvStep, PathInvCall, PathInvReturn DEF Next
<1> QED BY <1>2, <1>3

\* Every activation of every path is explained by its weights.
THEOREM PathInvariant ==
    ASSUME ~RepeatTargets
    PROVE  Spec => []PathInv
<1>1. Init => PathInv
  BY PathInvInit
<1>2. PathInv /\ [Next]_vars => PathInv'
  BY PathInvNext
<1> QED BY <1>1, <1>2, PTL DEF Spec

\* A summary, merged wherever the callee is called, is sound (MergeError::apply_f).
THEOREM SummarySoundness ==
    ASSUME ~RepeatTargets
    PROVE  Spec => []SummarySound
<1>1. PathInv => SummarySound
  BY DEF PathInv, ActivationInv, SummarySound
<1> QED BY <1>1, PathInvariant, PTL

\* No error that a variable holds is missing from the weight a report reads.
THEOREM ReportSoundness ==
    ASSUME ~RepeatTargets
    PROVE  Spec => []ReportSound
<1>1. PathInv => ReportSound
  <2> SUFFICES ASSUME PathInv PROVE ReachedFrom(PathWeight, store)
    BY DEF ReachedFrom, ReportSound
  <2>1. /\ Depth \in Nat \ {0} /\ entry \in [Variables -> Value] /\ store \in [Variables -> Value]
        /\ prefix \in Weight /\ weight \in Weight /\ ConstantRows(prefix) /\ ReachedFrom(prefix, entry) /\ Explains(weight, entry, store, Depth)
    BY DEF PathInv, TypeOK, Depth, ActivationInv
  <2> QED BY <2>1, ReachedCompose DEF PathWeight
<1> QED BY <1>1, PathInvariant, PTL

\* On a path without repeated targets the weight a report reads holds nothing else.
THEOREM ReportPrecision ==
    ASSUME ~RepeatTargets
    PROVE  Spec => []ReportPrecise
<1>1. PathInv => ReportPrecise
  <2> SUFFICES ASSUME PathInv, ~branching PROVE ReachedOnlyFrom(PathWeight, store)
    BY DEF ReachedOnlyFrom, ReportPrecise
  <2>1. /\ Depth \in Nat \ {0} /\ entry \in [Variables -> Value] /\ store \in [Variables -> Value]
        /\ prefix \in Weight /\ weight \in Weight /\ ConstantRows(prefix) /\ ReachedOnlyFrom(prefix, entry) /\ ExplainsOnly(weight, entry, store, Depth)
    BY DEF PathInv, TypeOK, Depth, ActivationInv
  <2> QED BY <2>1, ReachedOnlyCompose DEF PathWeight
<1> QED BY <1>1, PathInvariant, PTL

\* A rule with several values for a variable keeps them all, whatever a phi lists.
THEOREM EitherValue ==
    ASSUME ~RepeatTargets
    PROVE  Spec => []EitherValueKept
<1>1. PathInv => EitherValueKept
  BY DEF PathInv, RuleInv, EitherValueKept
<1> QED BY <1>1, PathInvariant, PTL
=============================================================================
