-------------------------- MODULE ErrorWeights_proofs --------------------------
(***************************************************************************)
(* What the pushdown engine relies on: weights form a bounded idempotent   *)
(* semiring and the merge function is distributive, so that combining the  *)
(* weights of paths early or late gives the same answer.                   *)
(***************************************************************************)
EXTENDS ErrorWeights, TLAPS

\* A pair of a composition, as a fact the provers can use.
LEMMA ExtendPair ==
    ASSUME NEW first \in Weight, NEW second \in Weight, NEW x, NEW z
    PROVE  <<x, z>> \in Extend(first, second) <=>
              /\ x \in Var /\ z \in Var
              /\ \E y \in Var : <<x, y>> \in second /\ <<y, z>> \in first
<1>1. ASSUME <<x, z>> \in Extend(first, second)
      PROVE  x \in Var /\ z \in Var /\ \E y \in Var : <<x, y>> \in second /\ <<y, z>> \in first
  <2>1. PICK a \in second, b \in first : a[2] = b[1] /\ x = a[1] /\ z = b[2]
    BY <1>1 DEF Extend
  <2>2. /\ a = <<a[1], a[2]>> /\ a[1] \in Var /\ a[2] \in Var
        /\ b = <<b[1], b[2]>> /\ b[2] \in Var
    BY <2>1 DEF Weight
  <2> QED BY <2>1, <2>2
<1>2. ASSUME NEW y, <<x, y>> \in second, <<y, z>> \in first
      PROVE  <<x, z>> \in Extend(first, second)
  <2>1. <<<<x, y>>, <<y, z>>>> \in {j \in second \X first : j[1][2] = j[2][1]}
    BY <1>2
  <2> QED BY <2>1 DEF Extend
<1> QED BY <1>1, <1>2

\* Every composition is a weight.
LEMMA ExtendType ==
    ASSUME NEW first \in Weight, NEW second \in Weight
    PROVE  Extend(first, second) \in Weight
BY DEF Extend, Weight

\* Two weights with the same pairs are the same.
LEMMA WeightEqual ==
    ASSUME NEW a \in Weight, NEW b \in Weight,
           \A x, z \in Var : <<x, z>> \in a <=> <<x, z>> \in b
    PROVE  a = b
BY DEF Weight

\* extend is associative: a path may be cut anywhere (ErrorPropagation::extend).
THEOREM ExtendAssociative ==
    ASSUME NEW a \in Weight, NEW b \in Weight, NEW c \in Weight
    PROVE  Extend(Extend(a, b), c) = Extend(a, Extend(b, c))
<1>. Extend(a, b) \in Weight /\ Extend(b, c) \in Weight
  BY ExtendType
<1>1. ASSUME NEW x \in Var, NEW z \in Var, <<x, z>> \in Extend(Extend(a, b), c)
      PROVE  <<x, z>> \in Extend(a, Extend(b, c))
  <2>1. PICK y1 \in Var : <<x, y1>> \in c /\ <<y1, z>> \in Extend(a, b)
    BY <1>1, ExtendPair
  <2>2. PICK y2 \in Var : <<y1, y2>> \in b /\ <<y2, z>> \in a
    BY <2>1, ExtendPair
  <2>3. <<x, y2>> \in Extend(b, c)
    BY <2>1, <2>2, ExtendPair
  <2> QED BY <2>2, <2>3, ExtendPair
<1>2. ASSUME NEW x \in Var, NEW z \in Var, <<x, z>> \in Extend(a, Extend(b, c))
      PROVE  <<x, z>> \in Extend(Extend(a, b), c)
  <2>1. PICK y2 \in Var : <<x, y2>> \in Extend(b, c) /\ <<y2, z>> \in a
    BY <1>2, ExtendPair
  <2>2. PICK y1 \in Var : <<x, y1>> \in c /\ <<y1, y2>> \in b
    BY <2>1, ExtendPair
  <2>3. <<y1, z>> \in Extend(a, b)
    BY <2>1, <2>2, ExtendPair
  <2> QED BY <2>2, <2>3, ExtendPair
<1> QED BY <1>1, <1>2, WeightEqual, ExtendType

\* one is neutral for extend (ErrorPropagation::one).
THEOREM ExtendOne ==
    ASSUME NEW a \in Weight
    PROVE  Extend(a, One) = a /\ Extend(One, a) = a
<1>1. One \in Weight
  BY DEF One, IdentityOn, Weight
<1>2. \A x, z \in Var : <<x, z>> \in One <=> x = z
  BY DEF One, IdentityOn
<1>3. ASSUME NEW x \in Var, NEW z \in Var
      PROVE  <<x, z>> \in Extend(a, One) <=> <<x, z>> \in a
  <2>1. <<x, z>> \in Extend(a, One) <=> \E y \in Var : <<x, y>> \in One /\ <<y, z>> \in a
    BY <1>1, ExtendPair
  <2> QED BY <1>2, <2>1
<1>4. ASSUME NEW x \in Var, NEW z \in Var
      PROVE  <<x, z>> \in Extend(One, a) <=> <<x, z>> \in a
  <2>1. <<x, z>> \in Extend(One, a) <=> \E y \in Var : <<x, y>> \in a /\ <<y, z>> \in One
    BY <1>1, ExtendPair
  <2> QED BY <1>2, <2>1
<1> QED BY <1>1, <1>3, <1>4, WeightEqual, ExtendType

\* zero annihilates extend (ErrorPropagation::zero).
THEOREM ExtendZero ==
    ASSUME NEW a \in Weight
    PROVE  Extend(a, Zero) = Zero /\ Extend(Zero, a) = Zero
BY DEF Extend, Zero

\* extend distributes over combine: joining two paths before or after going on
\* with a third gives the same weight (ErrorPropagation::extend, combine).
THEOREM ExtendDistributes ==
    ASSUME NEW a \in Weight, NEW b \in Weight, NEW c \in Weight
    PROVE  /\ Extend(a, Combine(b, c)) = Combine(Extend(a, b), Extend(a, c))
           /\ Extend(Combine(a, b), c) = Combine(Extend(a, c), Extend(b, c))
BY DEF Extend, Combine

\* Row by row: what a call makes of x, given the summary s of the callee f.
IsEffect(s, f, x, z) ==
    \/ x \in Locals \cup Constants /\ z = x
    \/ x \in Globals /\ x # Return[f] /\ <<x, z>> \in s
    \/ x \in Globals /\ x = Return[f] /\ z \notin TentativeErrors /\ <<x, z>> \in s
    \/ x \in Globals /\ x = Return[f] /\ \E t \in TentativeErrors : z = Real[t] /\ <<x, t>> \in s

\* The rows of CalleeEffect.
LEMMA CalleeEffectPair ==
    ASSUME NEW s \in Weight, NEW f \in Functions, NEW x \in Var, NEW z \in Var
    PROVE  <<x, z>> \in CalleeEffect(s, f) <=> IsEffect(s, f, x, z)
<1>1. x \in Locals \cup Constants => x # Return[f]
  BY VariablesDistinct, ReturnType DEF Var, Variables
<1>2. x \in Locals \cup Constants \/ x \in Globals
  BY DEF Var, Variables
<1>3. x \in Globals => x \notin Locals \cup Constants
  BY VariablesDistinct DEF Variables
<1>4. \A p : p \in IdentityOn(Locals) \cup IdentityOn(Constants) <=>
             \E y \in Locals \cup Constants : p = <<y, y>>
  BY DEF IdentityOn
<1> DEFINE kept == {p \in s : p[1] \in Globals} \cup IdentityOn(Locals) \cup IdentityOn(Constants)
           real(p) == IF p[1] = Return[f] /\ p[2] \in TentativeErrors THEN Real[p[2]] ELSE p[2]
<1>5. <<x, z>> \in CalleeEffect(s, f) <=> \E p \in kept : p[1] = x /\ real(p) = z
  BY DEF CalleeEffect, MakeReal
<1>6. \A y : <<x, y>> \in kept <=> (x \in Globals /\ <<x, y>> \in s) \/ (x \in Locals \cup Constants /\ y = x)
  BY <1>4
<1>7. \A p \in kept : p = <<p[1], p[2]>>
  BY <1>4 DEF Weight
<1>8. <<x, z>> \in CalleeEffect(s, f) <=> \E y : <<x, y>> \in kept /\ real(<<x, y>>) = z
  <2>1. ASSUME NEW p \in kept, p[1] = x, real(p) = z
        PROVE  \E y : <<x, y>> \in kept /\ real(<<x, y>>) = z
    BY <1>7, <2>1
  <2>2. ASSUME NEW y, <<x, y>> \in kept, real(<<x, y>>) = z
        PROVE  \E p \in kept : p[1] = x /\ real(p) = z
    BY <2>2
  <2> HIDE DEF kept, real
  <2> QED BY <2>1, <2>2, <1>5
<1> HIDE DEF kept
<1>9. \A y : real(<<x, y>>) = IF x = Return[f] /\ y \in TentativeErrors THEN Real[y] ELSE y
  OBVIOUS
<1> HIDE DEF real
<1> QED BY <1>1, <1>2, <1>3, <1>6, <1>8, <1>9 DEF IsEffect

\* The callee's effect is a weight.
LEMMA CalleeEffectType ==
    ASSUME NEW s \in Weight, NEW f \in Functions
    PROVE  CalleeEffect(s, f) \in Weight
<1> DEFINE kept == {p \in s : p[1] \in Globals} \cup IdentityOn(Locals) \cup IdentityOn(Constants)
<1>1. \A p \in kept : p[1] \in Var /\ p[2] \in Var
  BY DEF IdentityOn, Weight, Var, Variables
<1>2. \A t \in TentativeErrors : Real[t] \in Var
  BY RealType DEF Var, Constants
<1>3. CalleeEffect(s, f) = {<<p[1], IF p[1] = Return[f] /\ p[2] \in TentativeErrors THEN Real[p[2]] ELSE p[2]>> : p \in kept}
  BY DEF CalleeEffect, MakeReal
<1> HIDE DEF kept
<1> QED BY <1>1, <1>2, <1>3 DEF Weight

\* A merge is a weight.
LEMMA MergeType ==
    ASSUME NEW b \in Weight, NEW r \in Weight, NEW s \in Weight, NEW f \in Functions
    PROVE  Merge(b, r, s, f) \in Weight
BY ExtendType, CalleeEffectType DEF Merge

\* The effect of a call is decided path by path, in the caller and in the callee:
\* the merge function distributes over combine in both (MergeError::apply_f).
\* Zero is not annihilated, so a summary is combined before it is merged only
\* when some path has reached the exit of the callee.
THEOREM MergeDistributes ==
    ASSUME NEW a \in Weight, NEW b \in Weight, NEW r \in Weight,
           NEW s \in Weight, NEW t \in Weight, NEW f \in Functions
    PROVE  /\ Merge(Combine(a, b), r, s, f) = Combine(Merge(a, r, s, f), Merge(b, r, s, f))
           /\ Merge(a, r, Combine(s, t), f) = Combine(Merge(a, r, s, f), Merge(a, r, t, f))
<1>0. \A w1, w2 \in Weight : Combine(w1, w2) \in Weight
  BY DEF Combine, Weight
<1>1. Extend(Combine(a, b), r) = Combine(Extend(a, r), Extend(b, r))
  BY ExtendDistributes
<1>2. Combine(s, t) \in Weight
  BY <1>0
<1>3. ASSUME NEW x \in Var, NEW z \in Var
      PROVE  <<x, z>> \in CalleeEffect(Combine(s, t), f) <=>
                <<x, z>> \in Combine(CalleeEffect(s, f), CalleeEffect(t, f))
  <2>1. <<x, z>> \in CalleeEffect(s, f) <=> IsEffect(s, f, x, z)
    BY CalleeEffectPair
  <2>2. <<x, z>> \in CalleeEffect(t, f) <=> IsEffect(t, f, x, z)
    BY CalleeEffectPair
  <2>3. <<x, z>> \in CalleeEffect(Combine(s, t), f) <=> IsEffect(Combine(s, t), f, x, z)
    BY <1>2, CalleeEffectPair
  <2>4. IsEffect(Combine(s, t), f, x, z) <=> IsEffect(s, f, x, z) \/ IsEffect(t, f, x, z)
    BY DEF Combine, IsEffect
  <2> QED BY <2>1, <2>2, <2>3, <2>4 DEF Combine
<1>4. CalleeEffect(Combine(s, t), f) = Combine(CalleeEffect(s, f), CalleeEffect(t, f))
  <2>1. Combine(CalleeEffect(s, f), CalleeEffect(t, f)) \in Weight
    BY CalleeEffectType DEF Combine, Weight
  <2> QED BY <1>2, <1>3, <2>1, CalleeEffectType, WeightEqual
<1>5. Merge(Combine(a, b), r, s, f) = Combine(Merge(a, r, s, f), Merge(b, r, s, f))
  <2> DEFINE e == CalleeEffect(s, f)
  <2>1. e \in Weight /\ Extend(a, r) \in Weight /\ Extend(b, r) \in Weight
    BY CalleeEffectType, ExtendType
  <2>2. Extend(Combine(Extend(a, r), Extend(b, r)), e)
            = Combine(Extend(Extend(a, r), e), Extend(Extend(b, r), e))
    BY <2>1, ExtendDistributes
  <2> QED BY <1>1, <2>2 DEF Merge
<1>6. Merge(a, r, Combine(s, t), f) = Combine(Merge(a, r, s, f), Merge(a, r, t, f))
  <2> DEFINE e1 == CalleeEffect(s, f)
             e2 == CalleeEffect(t, f)
  <2>1. e1 \in Weight /\ e2 \in Weight /\ Extend(a, r) \in Weight
    BY CalleeEffectType, ExtendType
  <2>2. Extend(Extend(a, r), Combine(e1, e2))
            = Combine(Extend(Extend(a, r), e1), Extend(Extend(a, r), e2))
    BY <2>1, ExtendDistributes
  <2> QED BY <1>4, <2>2 DEF Merge
<1> QED BY <1>5, <1>6

-----------------------------------------------------------------------------
(* Monotonicity.                                                           *)

\* extend is monotone in both arguments.
LEMMA ExtendMonotone ==
    ASSUME NEW a, NEW b, NEW c, NEW d, a \subseteq b, c \subseteq d
    PROVE  Extend(a, c) \subseteq Extend(b, d)
BY DEF Extend

\* A summary with more pairs has an effect with more pairs.
LEMMA CalleeEffectMonotone ==
    ASSUME NEW s, NEW t, s \subseteq t, NEW f
    PROVE  CalleeEffect(s, f) \subseteq CalleeEffect(t, f)
BY DEF CalleeEffect, MakeReal

\* A call may be merged with its caller now or later: the weight of the caller is
\* only in front (MergeFn::apply_f, WPDS::update).
LEMMA MergeAfter ==
    ASSUME NEW b \in Weight, NEW r \in Weight, NEW s \in Weight, NEW f \in Functions
    PROVE  Merge(b, r, s, f) = Extend(b, Merge(One, r, s, f))
<1>1. CalleeEffect(s, f) \in Weight
  BY CalleeEffectType
<1>2. Extend(Extend(b, r), CalleeEffect(s, f)) = Extend(b, Extend(r, CalleeEffect(s, f)))
  BY <1>1, ExtendAssociative
<1>3. Extend(One, r) = r
  BY ExtendOne
<1> QED
  BY <1>2, <1>3 DEF Merge

\* The merge function keeps what a call adds, for a larger weight of the callee.
LEMMA MergeMonotone ==
    ASSUME NEW b \in Weight, NEW w \in Weight, NEW r \in Weight, NEW s \in Weight, NEW t \in Weight,
           NEW f \in Functions, b \subseteq w, s \subseteq t
    PROVE  Merge(b, r, s, f) \subseteq Extend(w, Merge(One, r, t, f))
<1>1. CalleeEffect(s, f) \subseteq CalleeEffect(t, f)
  BY CalleeEffectMonotone
<1>2. Merge(One, r, s, f) \subseteq Merge(One, r, t, f)
  <2>1. Extend(One, r) \subseteq Extend(One, r)
    OBVIOUS
  <2> QED
    BY <1>1, <2>1, ExtendMonotone DEF Merge
<1> QED
  BY <1>2, ExtendMonotone, MergeAfter
=============================================================================
