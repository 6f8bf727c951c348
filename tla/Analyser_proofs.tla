---------------------------- MODULE Analyser_proofs ----------------------------
(***************************************************************************)
(* What Repeated computes, and what the equations of the join have as      *)
(* their least solution.  Then the engine without the program: what        *)
(* saturation leaves behind, and the weights that solving gives the nodes, *)
(* in whatever order both work.  Then the two together: the engine finds   *)
(* every reachable stack and counts every path, whatever path the program  *)
(* takes, its stack is accepted and its weight is in what the engine reads *)
(* there.  And it reads no more than that: its weights solve the equations *)
(* of the join and stay below them, so that the engine implements the      *)
(* abstract analyser.                                                      *)
(***************************************************************************)
EXTENDS Analyser, ErrorWeights_proofs, Integers, FiniteSetTheorems, SequenceTheorems,
        WellFoundedInduction

-----------------------------------------------------------------------------
(* The rules.                                                              *)

\* The kinds of rules, and that a return symbol belongs to one call (make_rule).
RulesWellFormed ==
    /\ Epsilon \notin Symbols /\ Start \in Symbols
    /\ \A r \in program :
          /\ r.from \in Symbols /\ r.weight \in Weight /\ r.callee \in Functions
          /\ IsPop(r) \/ IsStep(r) \/ IsPush(r)
          /\ IsPop(r) => ~IsStep(r) /\ ~IsPush(r)
          /\ IsStep(r) => ~IsPush(r) /\ r.to[1] \in Symbols /\ r.to = <<r.to[1]>>
          /\ IsPush(r) => r.to[1] \in Symbols /\ r.to[2] \in Symbols
    /\ \A r, q \in program : IsPush(r) /\ IsPush(q) =>
          /\ r.to[2] = q.to[2] => r.from = q.from
          /\ r.to[1] = q.to[1] => r.callee = q.callee
          /\ r.to[1] = q.to[1] /\ r.to[2] = q.to[2] => r = q

\* The rules that make_rule has combined are as the engine assumes them.
LEMMA LoadedRules ==
    ASSUME LoadProgram
    PROVE  RulesWellFormed
<1> DEFINE total(rules, r) == UNION {q.weight : q \in {q \in rules : q.from = r.from /\ q.to = r.to}}
<1>1. PICK rules \in Programs : program = {[r EXCEPT !.weight = total(rules, r)] : r \in rules}
  BY DEF LoadProgram, MakeRules
<1>2. \A r \in rules : r \in RuleType /\ Len(r.to) <= 2
  BY ProgramsType
<1>3. ASSUME NEW r \in rules PROVE total(rules, r) \in Weight
  BY <1>2 DEF RuleType, Weight
<1> HIDE DEF total
<1>4. ASSUME NEW p \in program
      PROVE  \E r \in rules : /\ p = [r EXCEPT !.weight = total(rules, r)]
                              /\ p.from = r.from /\ p.to = r.to /\ p.callee = r.callee /\ p.weight \in Weight
                              /\ r.from \in Symbols /\ r.callee \in Functions
                              /\ r.to \in {<< >>} \cup Seq(Symbols) /\ Len(r.to) <= 2
  <2>1. PICK r \in rules : p = [r EXCEPT !.weight = total(rules, r)]
    BY <1>1
  <2> QED
    BY <2>1, <1>2, <1>3 DEF RuleType
<1>5. ASSUME NEW p \in program
      PROVE  /\ p.from \in Symbols /\ p.weight \in Weight /\ p.callee \in Functions
             /\ IsPop(p) \/ IsStep(p) \/ IsPush(p)
             /\ IsPop(p) => ~IsStep(p) /\ ~IsPush(p)
             /\ IsStep(p) => ~IsPush(p) /\ p.to[1] \in Symbols /\ p.to = <<p.to[1]>>
             /\ IsPush(p) => p.to[1] \in Symbols /\ p.to[2] \in Symbols
  <2>1. p.to \in Seq(Symbols) /\ Len(p.to) <= 2
    <3>1. p.to \in {<< >>} \cup Seq(Symbols) /\ Len(p.to) <= 2
      BY <1>4
    <3> QED
      BY <3>1, << >> \in Seq(Symbols)
  <2>2. Len(p.to) \in Nat /\ \A i \in 1 .. Len(p.to) : p.to[i] \in Symbols
    BY <2>1
  <2>3. Len(p.to) = 0 => p.to = << >>
    BY <2>1
  <2>4. p.from \in Symbols /\ p.weight \in Weight /\ p.callee \in Functions
    BY <1>4
  <2>5. Len(p.to) = 0 \/ Len(p.to) = 1 \/ Len(p.to) = 2
    <3> DEFINE n == Len(p.to)
    <3>1. n \in Nat /\ n <= 2
      BY <2>1, <2>2
    <3> HIDE DEF n
    <3>2. n = 0 \/ n = 1 \/ n = 2
      BY <3>1
    <3> QED
      BY <3>2 DEF n
  <2>6. Len(<< >>) = 0
    BY EmptySeq
  <2>7. /\ IsPop(p) <=> Len(p.to) = 0
        /\ IsStep(p) <=> Len(p.to) = 1
        /\ IsPush(p) <=> Len(p.to) = 2
    BY <2>3, <2>6 DEF IsPop, IsStep, IsPush
  <2>8. Len(p.to) = 1 => p.to[1] \in Symbols /\ p.to = <<p.to[1]>>
    BY <2>1, <2>2
  <2>9. Len(p.to) = 2 => p.to[1] \in Symbols /\ p.to[2] \in Symbols
    BY <2>2
  <2> QED
    BY <2>4, <2>5, <2>7, <2>8, <2>9
<1>6. ASSUME NEW p \in program, NEW p2 \in program, IsPush(p), IsPush(p2)
      PROVE  /\ p.to[2] = p2.to[2] => p.from = p2.from
             /\ p.to[1] = p2.to[1] => p.callee = p2.callee
             /\ p.to[1] = p2.to[1] /\ p.to[2] = p2.to[2] => p = p2
  <2>1. PICK r \in rules : /\ p = [r EXCEPT !.weight = total(rules, r)]
                           /\ p.from = r.from /\ p.to = r.to /\ p.callee = r.callee
    BY <1>4
  <2>2. PICK q \in rules : /\ p2 = [q EXCEPT !.weight = total(rules, q)]
                           /\ p2.from = q.from /\ p2.to = q.to /\ p2.callee = q.callee
    BY <1>4
  <2>3. IsPush(r) /\ IsPush(q)
    BY <1>6, <2>1, <2>2 DEF IsPush
  <2>4. /\ r.to[2] = q.to[2] => r.from = q.from
        /\ r.to[1] = q.to[1] => r.callee = q.callee
        /\ r.from = q.from /\ r.to = q.to => r = q
    BY <2>3, ProgramsType
  <2>5. ASSUME p.to[1] = p2.to[1], p.to[2] = p2.to[2] PROVE p = p2
    <3>1. p.to \in Seq(Symbols) /\ p2.to \in Seq(Symbols) /\ Len(p.to) = 2 /\ Len(p2.to) = 2
      BY <1>4, <1>6, << >> \in Seq(Symbols) DEF IsPush
    <3>2. p.to = p2.to
      BY <2>5, <3>1
    <3> QED
      BY <2>1, <2>2, <2>4, <2>5, <3>2
  <2> QED
    BY <2>1, <2>2, <2>4, <2>5
<1> QED
  BY <1>5, <1>6, ProgramsType DEF RulesWellFormed

-----------------------------------------------------------------------------
(* Repetition.                                                             *)

\* J is closed under the step.
ClosedUnder(step, J) == \A w \in J : step[w] \in J

\* v is where the step leads from w and stays.
Ends(step, w, v) ==
    /\ v \in DOMAIN step /\ step[v] = v
    /\ \A J \in SUBSET DOMAIN step : w \in J /\ ClosedUnder(step, J) => v \in J

\* Of finitely many sizes one is the least.
LEMMA LeastNat ==
    ASSUME NEW S, S \subseteq Nat, S # {}
    PROVE  \E n \in S : \A m \in S : n <= m
<1> DEFINE R == OpToRel(<, Nat)
<1>1. IsWellFoundedOn(R, Nat)
  BY NatLessThanWellFounded
<1> HIDE DEF R
<1>2. PICK n \in S : \A m \in S : <<m, n>> \notin R
  BY <1>1, WFMin
<1>3. \A m \in S : ~ (m < n)
  BY <1>2 DEF R, OpToRel
<1> QED
  BY <1>3

\* A step that only adds to a measure, a subset of a finite set, comes to an end.
LEMMA EndExists ==
    ASSUME NEW D, NEW step \in [D -> D], NEW U, IsFiniteSet(U), NEW measure \in [D -> SUBSET U],
           \A w \in D : measure[w] \subseteq measure[step[w]],
           \A w \in D : measure[w] = measure[step[w]] => step[w] = w
    PROVE  \A w \in D : \E v : Ends(step, w, v)
<1> DEFINE Left(w) == Cardinality(U \ measure[w])
           Bad == {w \in D : ~ \E v : Ends(step, w, v)}
           Sizes == {Left(w) : w \in Bad}
<1>1. \A w \in D : Left(w) \in Nat /\ IsFiniteSet(U \ measure[w])
  BY FS_Subset, FS_CardinalityType
<1>2. SUFFICES ASSUME Bad # {} PROVE FALSE
  OBVIOUS
<1>3. PICK w \in Bad : \A u \in Bad : Left(w) <= Left(u)
  <2> HIDE DEF Left, Bad
  <2>1. Sizes \subseteq Nat /\ Sizes # {}
    <3>1. Bad \subseteq D
      BY DEF Bad
    <3> QED
      BY <3>1, <1>1, <1>2
  <2>2. PICK n \in Sizes : \A m \in Sizes : n <= m
    <3> HIDE DEF Sizes
    <3> QED
      BY <2>1, LeastNat
  <2>3. PICK w \in Bad : n = Left(w)
    BY <2>2
  <2>4. \A u \in Bad : Left(u) \in Sizes
    OBVIOUS
  <2> QED
    BY <2>2, <2>3, <2>4
<1>4. w \in D /\ step[w] \in D
  BY <1>3
<1>5. CASE step[w] = w
  <2>1. Ends(step, w, w)
    BY <1>4, <1>5 DEF Ends
  <2> QED
    BY <2>1, <1>3
<1>6. CASE step[w] # w
  <2>1. PICK p \in measure[step[w]] : p \notin measure[w]
    BY <1>4, <1>6
  <2>2. U \ measure[step[w]] \subseteq U \ measure[w] /\ U \ measure[step[w]] # U \ measure[w]
    BY <1>4, <2>1
  <2>3. Left(step[w]) < Left(w)
    <3> DEFINE T == U \ measure[w]
               S == U \ measure[step[w]]
    <3>1. IsFiniteSet(T) /\ S \in SUBSET T /\ S # T
      BY <2>2, <1>1, <1>4
    <3>2. Cardinality(S) <= Cardinality(T) /\ (Cardinality(S) = Cardinality(T) => S = T)
      <4> HIDE DEF S, T
      <4> QED
        BY <3>1, FS_Subset
    <3>3. Left(step[w]) = Cardinality(S) /\ Left(w) = Cardinality(T)
      OBVIOUS
    <3>4. Left(step[w]) \in Nat /\ Left(w) \in Nat
      BY <1>1, <1>4
    <3> HIDE DEF Left, S, T
    <3> QED
      BY <3>1, <3>2, <3>3, <3>4
  <2>4. step[w] \notin Bad
    <3>1. Left(step[w]) \in Nat /\ Left(w) \in Nat
      BY <1>1, <1>4
    <3> HIDE DEF Left, Bad
    <3> QED
      BY <2>3, <1>3, <3>1
  <2>5. PICK v : Ends(step, step[w], v)
    BY <2>4, <1>4
  <2>6. Ends(step, w, v)
    BY <2>5, <1>4 DEF Ends, ClosedUnder
  <2> QED
    BY <2>6, <1>3
<1> QED
  BY <1>5, <1>6

\* There is one end only.
LEMMA EndUnique ==
    ASSUME NEW D, NEW step \in [D -> D], NEW w \in D, NEW v, NEW u,
           Ends(step, w, v), Ends(step, w, u)
    PROVE  u = v
<1> DEFINE J == {x \in D : Ends(step, x, v)}
<1>1. ASSUME NEW x \in J PROVE step[x] \in J
  <2>1. ASSUME NEW K \in SUBSET D, step[x] \in K, ClosedUnder(step, K)
        PROVE  v \in K
    <3>1. CASE x = v
      BY <3>1, <1>1, <2>1 DEF Ends
    <3>2. CASE x # v
      <4>1. ClosedUnder(step, K \cup {x})
        BY <2>1 DEF ClosedUnder
      <4>2. v \in K \cup {x}
        BY <4>1, <1>1 DEF Ends
      <4> QED
        BY <4>2, <3>2
    <3> QED
      BY <3>1, <3>2
  <2> QED
    BY <2>1, <1>1 DEF Ends
<1>2. w \in J /\ ClosedUnder(step, J) /\ J \in SUBSET D
  BY <1>1 DEF ClosedUnder
<1>3. Ends(step, u, v)
  BY <1>2 DEF Ends
<1>4. ClosedUnder(step, {u}) /\ {u} \in SUBSET D
  BY DEF Ends, ClosedUnder
<1> QED
  BY <1>3, <1>4 DEF Ends

\* Repeating such a step ends in a value that the step leaves alone and that is
\* in every set that holds the start and is closed under the step.
THEOREM RepeatedEnds ==
    ASSUME NEW D, NEW step \in [D -> D], NEW U, IsFiniteSet(U), NEW measure \in [D -> SUBSET U],
           \A w \in D : measure[w] \subseteq measure[step[w]],
           \A w \in D : measure[w] = measure[step[w]] => step[w] = w,
           NEW start \in D
    PROVE  /\ Repeated(step, start) \in D
           /\ step[Repeated(step, start)] = Repeated(step, start)
           /\ \A J \in SUBSET D :
                 start \in J /\ ClosedUnder(step, J) => Repeated(step, start) \in J
<1> DEFINE End(w) == CHOOSE v : Ends(step, w, v)
           Rec(f) == [w \in DOMAIN step |->
                         Only({IF next = w THEN w ELSE f[next] : next \in {step[w]}})]
           g == [w \in D |-> End(w)]
           from == CHOOSE f : f = Rec(f)
<1>1. \A w \in D : Ends(step, w, End(w))
  BY EndExists
<1>2. \A w \in D : step[w] = w => Ends(step, w, w)
  BY DEF Ends
<1>3. \A w \in D : \A v : Ends(step, step[w], v) => Ends(step, w, v)
  BY DEF Ends, ClosedUnder
<1> HIDE DEF End
<1>4. ASSUME NEW w \in D PROVE g[w] = IF step[w] = w THEN w ELSE g[step[w]]
  <2>1. CASE step[w] = w
    BY <1>1, <1>2, <2>1, EndUnique
  <2>2. CASE step[w] # w
    <3>1. Ends(step, w, End(step[w])) /\ step[w] \in D
      BY <1>1, <1>3
    <3>2. End(step[w]) = End(w)
      BY <1>1, <3>1, EndUnique
    <3> QED
      BY <2>2, <3>1, <3>2
  <2> QED
    BY <2>1, <2>2
<1>0. ASSUME NEW f
      PROVE  Rec(f) = [w \in D |-> IF step[w] = w THEN w ELSE f[step[w]]]
  <2>1. ASSUME NEW w \in D
        PROVE  {IF next = w THEN w ELSE f[next] : next \in {step[w]}}
                  = {IF step[w] = w THEN w ELSE f[step[w]]}
    OBVIOUS
  <2>2. \A x : Only({x}) = x
    BY DEF Only
  <2> QED
    BY <2>1, <2>2
<1>5. g = Rec(g)
  <2>1. g = [w \in D |-> IF step[w] = w THEN w ELSE g[step[w]]]
    BY <1>4
  <2> HIDE DEF Rec, g
  <2> QED
    BY <1>0, <2>1
<1>6. from = Rec(from)
  <2> HIDE DEF Rec, g
  <2> QED
    BY <1>5
<1>7. Repeated(step, start) = from[start]
  BY DEF Repeated
<1> HIDE DEF from
<1>8. \A w \in D : from[w] = IF step[w] = w THEN w ELSE from[step[w]]
  <2>1. from = [w \in D |-> IF step[w] = w THEN w ELSE from[step[w]]]
    <3> HIDE DEF Rec
    <3> QED
      BY <1>0, <1>6
  <2> QED
    BY <2>1
<1> DEFINE K == {w \in D : from[w] = from[start]}
<1>9. ClosedUnder(step, K) /\ start \in K /\ K \in SUBSET D
  BY <1>8 DEF ClosedUnder
<1>10. PICK v : Ends(step, start, v)
  BY <1>1
<1>11. v \in K
  BY <1>9, <1>10 DEF Ends
<1>12. from[start] = v
  BY <1>8, <1>10, <1>11 DEF Ends
<1> QED
  BY <1>7, <1>10, <1>12 DEF Ends

-----------------------------------------------------------------------------
(* Least solutions.                                                        *)

\* The image of a finite set is finite.
LEMMA ImageFinite ==
    ASSUME NEW S, IsFiniteSet(S), NEW T, NEW f \in [S -> T], \A t \in T : \E s \in S : f[s] = t
    PROVE  IsFiniteSet(T)
<1>1. f \in Surjection(S, T)
  BY DEF Surjection
<1> QED
  BY <1>1, FS_Surjection

\* Repeating a step that only adds to a set ends in the least set that holds the
\* start and that the step leaves alone.
LEMMA LeastSetEnd ==
    ASSUME NEW U, IsFiniteSet(U), NEW step \in [SUBSET U -> SUBSET U],
           \A T \in SUBSET U : T \subseteq step[T],
           NEW start \in SUBSET U
    PROVE  /\ Repeated(step, start) \in SUBSET U
           /\ step[Repeated(step, start)] = Repeated(step, start)
           /\ start \subseteq Repeated(step, start)
           /\ \A K \in SUBSET U :
                 /\ start \subseteq K
                 /\ \A T \in SUBSET U : T \subseteq K => step[T] \subseteq K
                 => Repeated(step, start) \subseteq K
<1> DEFINE D == SUBSET U
           measure == [T \in D |-> T]
           last == Repeated(step, start)
<1>1. measure \in [D -> SUBSET U]
      /\ \A T \in D : measure[T] \subseteq measure[step[T]] /\ (measure[T] = measure[step[T]] => step[T] = T)
  OBVIOUS
<1>2. step \in [D -> D] /\ start \in D
  OBVIOUS
<1>3. /\ last \in D /\ step[last] = last
      /\ \A J \in SUBSET D : start \in J /\ ClosedUnder(step, J) => last \in J
  <2> HIDE DEF measure, D
  <2> QED
    BY <1>1, <1>2, RepeatedEnds
<1> HIDE DEF last
<1>4. start \subseteq last
  <2> DEFINE J == {T \in D : start \subseteq T}
  <2>1. J \in SUBSET D /\ start \in J /\ ClosedUnder(step, J)
    BY DEF ClosedUnder
  <2> HIDE DEF J
  <2>2. last \in J
    BY <1>3, <2>1
  <2> QED
    BY <2>2 DEF J
<1>5. ASSUME NEW K \in SUBSET U, start \subseteq K, \A T \in SUBSET U : T \subseteq K => step[T] \subseteq K
      PROVE  last \subseteq K
  <2> DEFINE J == {T \in D : T \subseteq K}
  <2>1. J \in SUBSET D /\ start \in J /\ ClosedUnder(step, J)
    BY <1>5 DEF ClosedUnder
  <2> HIDE DEF J
  <2>2. last \in J
    BY <1>3, <2>1
  <2> QED
    BY <2>2 DEF J
<1> QED
  BY <1>3, <1>4, <1>5 DEF last

\* A weight for each element of X.
WeightsOn(X) == [X -> Weight]

\* Weight by weight, on X.
Below(a, b, X) == \A n \in X : a[n] \subseteq b[n]

\* Repeating a step that only adds to finitely many weights ends in the least
\* weights that hold the start and that the step leaves alone.
LEMMA LeastWeightsEnd ==
    ASSUME NEW X, IsFiniteSet(X), NEW step \in [WeightsOn(X) -> WeightsOn(X)],
           \A w \in WeightsOn(X) : Below(w, step[w], X),
           NEW start \in WeightsOn(X)
    PROVE  /\ Repeated(step, start) \in WeightsOn(X)
           /\ step[Repeated(step, start)] = Repeated(step, start)
           /\ Below(start, Repeated(step, start), X)
           /\ \A bound \in WeightsOn(X) :
                 /\ Below(start, bound, X)
                 /\ \A w \in WeightsOn(X) : Below(w, bound, X) => Below(step[w], bound, X)
                 => Below(Repeated(step, start), bound, X)
<1> DEFINE D == WeightsOn(X)
           U == X \X (Var \X Var)
           measure == [w \in D |-> {x \in U : x[2] \in w[x[1]]}]
           last == Repeated(step, start)
<1>1. step \in [D -> D] /\ start \in D /\ \A w \in D : Below(w, step[w], X)
  OBVIOUS
<1>2. IsFiniteSet(U)
  BY FiniteProgram, FS_Product
<1>5. measure \in [D -> SUBSET U]
  OBVIOUS
<1>6. \A w \in D, x \in X, p \in Var \X Var : <<x, p>> \in measure[w] <=> p \in w[x]
  BY DEF WeightsOn
<1> HIDE DEF measure, U
<1>7. ASSUME NEW w \in D
      PROVE  /\ measure[w] \subseteq measure[step[w]]
             /\ measure[w] = measure[step[w]] => step[w] = w
  <2>1. \A x \in U : \E n \in X, p \in Var \X Var : x = <<n, p>>
    BY DEF U
  <2>2. step[w] \in D /\ \A n \in X : w[n] \subseteq step[w][n]
    BY DEF Below
  <2>3. measure[w] \subseteq measure[step[w]]
    BY <2>1, <2>2, <1>5, <1>6
  <2>4. ASSUME measure[w] = measure[step[w]] PROVE step[w] = w
    <3>1. ASSUME NEW n \in X PROVE step[w][n] = w[n]
      <4>1. step[w][n] \in Weight /\ w[n] \in Weight
        BY <2>2 DEF WeightsOn
      <4>2. \A p \in Var \X Var : p \in step[w][n] <=> p \in w[n]
        BY <2>2, <2>4, <1>6
      <4> QED
        BY <4>1, <4>2 DEF Weight
    <3> QED
      BY <2>2, <3>1 DEF WeightsOn
  <2> QED
    BY <2>3, <2>4
<1> HIDE DEF D
<1>8. /\ last \in D /\ step[last] = last
      /\ \A J \in SUBSET D : start \in J /\ ClosedUnder(step, J) => last \in J
  <2>2. \A w \in D : measure[w] \subseteq measure[step[w]]
    BY <1>7
  <2>3. \A w \in D : measure[w] = measure[step[w]] => step[w] = w
    BY <1>7
  <2> QED
    BY <1>1, <2>2, <2>3, <1>2, <1>5, RepeatedEnds
<1> HIDE DEF last
<1>9. Below(start, last, X)
  <2> DEFINE J == {w \in D : Below(start, w, X)}
  <2>0. \A w \in D : Below(start, w, X) => Below(start, step[w], X)
    BY <1>1 DEF Below
  <2>1. J \in SUBSET D /\ start \in J /\ ClosedUnder(step, J)
    BY <1>1, <2>0 DEF ClosedUnder, Below
  <2> HIDE DEF J
  <2>2. last \in J
    BY <1>8, <2>1
  <2> QED
    BY <2>2 DEF J
<1>10. ASSUME NEW bound \in D, Below(start, bound, X),
              \A w \in D : Below(w, bound, X) => Below(step[w], bound, X)
       PROVE  Below(last, bound, X)
  <2> DEFINE J == {w \in D : Below(w, bound, X)}
  <2>1. J \in SUBSET D /\ start \in J /\ ClosedUnder(step, J)
    BY <1>1, <1>10 DEF ClosedUnder
  <2> HIDE DEF J
  <2>2. last \in J
    BY <1>8, <2>1
  <2> QED
    BY <2>2 DEF J
<1>11. Repeated(step, start) = last
  BY DEF last
<1> QED
  BY <1>8, <1>9, <1>10, <1>11 DEF D

-----------------------------------------------------------------------------
(* The equations of the join.                                              *)

\* The places of the program.
LEMMA PlaceFacts ==
    ASSUME RulesWellFormed
    PROVE  /\ << >> \in Contexts
           /\ \A r \in program : IsPush(r) => <<r.to[1]>> \in Contexts
           /\ \A c \in Contexts : EntryOf(c) \in Symbols
           /\ Places = (Symbols \cup {Epsilon}) \X Contexts
           /\ \A s \in Symbols \cup {Epsilon}, c \in Contexts : <<s, c>> \in Places
           /\ \A x \in Places : x = <<x[1], x[2]>> /\ x[1] \in Symbols \cup {Epsilon} /\ x[2] \in Contexts
<1>1. << >> \in Contexts /\ \A r \in program : IsPush(r) => <<r.to[1]>> \in Contexts
  BY DEF Contexts
<1>2. ASSUME NEW c \in Contexts PROVE EntryOf(c) \in Symbols
  <2>1. c = << >> \/ \E r \in program : IsPush(r) /\ c = <<r.to[1]>>
    BY DEF Contexts
  <2> QED
    BY <2>1 DEF EntryOf, RulesWellFormed
<1>3. Places = (Symbols \cup {Epsilon}) \X Contexts
  BY DEF Places
<1> QED
  BY <1>1, <1>2, <1>3

\* A finite program has finitely many contexts and places.
LEMMA PlacesFinite ==
    ASSUME RulesWellFormed
    PROVE  IsFiniteSet(Contexts) /\ IsFiniteSet(Places)
<1> DEFINE called == {<<s>> : s \in Symbols}
           f == [s \in Symbols |-> <<s>>]
<1>1. f \in [Symbols -> called] /\ \A c \in called : \E s \in Symbols : f[s] = c
  OBVIOUS
<1>2. IsFiniteSet(called)
  <2> HIDE DEF f, called
  <2> QED
    BY <1>1, FiniteProgram, ImageFinite
<1>3. Contexts \subseteq called \cup {<< >>}
  BY DEF Contexts, RulesWellFormed
<1>4. IsFiniteSet(called \cup {<< >>}) /\ IsFiniteSet(Symbols \cup {Epsilon})
  BY <1>2, FiniteProgram, FS_AddElement
<1>5. IsFiniteSet(Contexts)
  BY <1>3, <1>4, FS_Subset
<1> QED
  BY <1>4, <1>5, PlaceFacts, FS_Product

\* Reached is the least set of places that holds the entries and goes along the rules.
LEMMA ReachedFacts ==
    ASSUME RulesWellFormed
    PROVE  /\ Reached \subseteq Places
           /\ \A c \in Contexts : <<EntryOf(c), c>> \in Reached
           /\ \A x \in Places, r \in program :
                 <<r.from, x[2]>> \in Reached /\ (Within(r, x[1]) \/ Returns(r, x[1], Reached)) => x \in Reached
           /\ \A K \in SUBSET Places :
                 /\ \A c \in Contexts : <<EntryOf(c), c>> \in K
                 /\ \A x \in Places, r \in program :
                       <<r.from, x[2]>> \in K /\ (Within(r, x[1]) \/ Returns(r, x[1], K)) => x \in K
                 => Reached \subseteq K
<1> DEFINE further(S) == {x \in Places : \E r \in program :
                             <<r.from, x[2]>> \in S /\ (Within(r, x[1]) \/ Returns(r, x[1], S))}
           step == [S \in SUBSET Places |-> S \cup further(S)]
           start == {<<EntryOf(c), c>> : c \in Contexts}
<1>1. Reached = Repeated(step, start)
  BY DEF Reached
<1>2. step \in [SUBSET Places -> SUBSET Places] /\ \A T \in SUBSET Places : T \subseteq step[T]
  OBVIOUS
<1>3. start \in SUBSET Places
  BY PlaceFacts
<1>4. /\ Reached \in SUBSET Places /\ step[Reached] = Reached /\ start \subseteq Reached
      /\ \A K \in SUBSET Places :
            start \subseteq K /\ (\A T \in SUBSET Places : T \subseteq K => step[T] \subseteq K) => Reached \subseteq K
  <2> HIDE DEF step, start
  <2> QED
    BY <1>1, <1>2, <1>3, PlacesFinite, LeastSetEnd
<1>5. further(Reached) \subseteq Reached
  BY <1>4
<1>6. \A c \in Contexts : <<EntryOf(c), c>> \in Reached
  BY <1>4
<1>7. \A x \in Places, r \in program :
         <<r.from, x[2]>> \in Reached /\ (Within(r, x[1]) \/ Returns(r, x[1], Reached)) => x \in Reached
  BY <1>5
<1>8. Reached \subseteq Places
  BY <1>4
<1>9. ASSUME NEW K \in SUBSET Places, \A c \in Contexts : <<EntryOf(c), c>> \in K,
             \A x \in Places, r \in program :
                <<r.from, x[2]>> \in K /\ (Within(r, x[1]) \/ Returns(r, x[1], K)) => x \in K
      PROVE  Reached \subseteq K
  <2>1. start \subseteq K
    BY <1>9
  <2>2. ASSUME NEW T \in SUBSET Places, T \subseteq K PROVE step[T] \subseteq K
    <3>1. \A r, s : Returns(r, s, T) => Returns(r, s, K)
      BY <2>2 DEF Returns
    <3>2. further(T) \subseteq K
      BY <2>2, <3>1, <1>9
    <3> QED
      BY <2>2, <3>2
  <2> HIDE DEF step, start
  <2> QED
    BY <2>1, <2>2, <1>4
<1> HIDE DEF step, start, further
<1> QED
  BY <1>6, <1>7, <1>8, <1>9

\* sum is a solution of the equations of the sums.
SolvesSums(sum) ==
    /\ \A c \in Contexts : One \subseteq sum[<<EntryOf(c), c>>]
    /\ \A x \in Places, r \in program : Within(r, x[1]) =>
          Extend(sum[<<r.from, x[2]>>], r.weight) \subseteq sum[x]
    /\ \A x \in Places, r \in program : Returns(r, x[1], Reached) =>
          Merge(sum[<<r.from, x[2]>>], r.weight, sum[<<Epsilon, <<r.to[1]>> >>], r.callee) \subseteq sum[x]

\* The unit is a weight.
LEMMA OneIsWeight == One \in Weight
BY DEF One, IdentityOn, Weight

\* Sums is the least solution.
LEMMA SumsLeast ==
    ASSUME RulesWellFormed
    PROVE  /\ Sums \in [Places -> Weight]
           /\ SolvesSums(Sums)
           /\ \A bound \in [Places -> Weight] : SolvesSums(bound) => Below(Sums, bound, Places)
<1> DEFINE Plain(sum, x) == {Extend(sum[<<r.from, x[2]>>], r.weight) : r \in {r \in program : Within(r, x[1])}}
           Calls(sum, x) ==
              {Merge(sum[<<r.from, x[2]>>], r.weight, sum[<<Epsilon, <<r.to[1]>> >>], r.callee) :
                  r \in {r \in program : Returns(r, x[1], Reached)}}
           Into(sum, x) == UNION (Plain(sum, x) \cup Calls(sum, x))
           step == [sum \in [Places -> Weight] |-> [x \in Places |-> sum[x] \cup Into(sum, x)]]
           start == [x \in Places |-> IF x[1] = EntryOf(x[2]) THEN One ELSE Zero]
<1>1. Sums = Repeated(step, start)
  <2>1. \A sum : Summarise(Reached, sum) = [x \in Places |-> sum[x] \cup Into(sum, x)]
    BY DEF Summarise
  <2>2. \A v : Only({v}) = v
    BY DEF Only
  <2>3. Sums = Only({Repeated([sum \in [Places -> Weight] |-> Summarise(Reached, sum)], start)})
    BY DEF Sums
  <2> HIDE DEF Into, start
  <2>4. [sum \in [Places -> Weight] |-> Summarise(Reached, sum)] = step
    BY <2>1
  <2> HIDE DEF step
  <2> QED
    BY <2>2, <2>3, <2>4
<1>2. \A c \in Contexts, r \in program : <<r.from, c>> \in Places
  BY PlaceFacts DEF RulesWellFormed
<1>3. \A r, s : Returns(r, s, Reached) => <<Epsilon, <<r.to[1]>> >> \in Places
  BY ReachedFacts DEF Returns
<1>4. \A x \in Places : x[2] \in Contexts
  BY PlaceFacts
<1>5. ASSUME NEW sum \in [Places -> Weight], NEW x \in Places PROVE Into(sum, x) \in Weight
  <2>1. ASSUME NEW r \in program PROVE Extend(sum[<<r.from, x[2]>>], r.weight) \in Weight
    <3>1. sum[<<r.from, x[2]>>] \in Weight /\ r.weight \in Weight
      BY <1>2, <1>4 DEF RulesWellFormed
    <3> QED
      BY <3>1, ExtendType
  <2>2. ASSUME NEW r \in program, Returns(r, x[1], Reached)
        PROVE  Merge(sum[<<r.from, x[2]>>], r.weight, sum[<<Epsilon, <<r.to[1]>> >>], r.callee) \in Weight
    <3>1. /\ sum[<<r.from, x[2]>>] \in Weight /\ r.weight \in Weight /\ r.callee \in Functions
          /\ sum[<<Epsilon, <<r.to[1]>> >>] \in Weight
      BY <2>2, <1>2, <1>3, <1>4 DEF RulesWellFormed
    <3> QED
      BY <3>1, MergeType
  <2>3. \A w \in Plain(sum, x) \cup Calls(sum, x) : w \in Weight
    BY <2>1, <2>2
  <2> HIDE DEF Plain, Calls
  <2> QED
    BY <2>3 DEF Weight
<1>6. /\ step \in [WeightsOn(Places) -> WeightsOn(Places)]
      /\ \A w \in WeightsOn(Places), x \in Places : step[w][x] = w[x] \cup Into(w, x)
  <2> HIDE DEF Into
  <2> QED
    BY <1>5 DEF WeightsOn, Weight
<1>7. start \in WeightsOn(Places)
  BY OneIsWeight DEF WeightsOn, Zero, Weight
<1>8. \A w \in WeightsOn(Places) : Below(w, step[w], Places)
  <2> HIDE DEF Into, step
  <2> QED
    BY <1>6 DEF Below
<1> HIDE DEF step, start, Into
<1>9. /\ Sums \in WeightsOn(Places) /\ step[Sums] = Sums /\ Below(start, Sums, Places)
      /\ \A bound \in WeightsOn(Places) :
            /\ Below(start, bound, Places)
            /\ \A w \in WeightsOn(Places) : Below(w, bound, Places) => Below(step[w], bound, Places)
            => Below(Sums, bound, Places)
  BY <1>1, <1>6, <1>7, <1>8, PlacesFinite, LeastWeightsEnd
<1>10. SolvesSums(Sums)
  <2>1. ASSUME NEW c \in Contexts PROVE One \subseteq Sums[<<EntryOf(c), c>>]
    <3>1. <<EntryOf(c), c>> \in Places
      BY PlaceFacts
    <3>2. start[<<EntryOf(c), c>>] = One
      BY <3>1 DEF start
    <3> QED
      BY <3>1, <3>2, <1>9 DEF Below
  <2>2. ASSUME NEW x \in Places PROVE Into(Sums, x) \subseteq Sums[x]
    BY <1>6, <1>9
  <2>3. ASSUME NEW x \in Places, NEW r \in program, Within(r, x[1])
        PROVE  Extend(Sums[<<r.from, x[2]>>], r.weight) \subseteq Sums[x]
    <3>1. Extend(Sums[<<r.from, x[2]>>], r.weight) \in Plain(Sums, x)
      BY <2>3
    <3> HIDE DEF Plain, Calls
    <3> QED
      BY <3>1, <2>2 DEF Into
  <2>4. ASSUME NEW x \in Places, NEW r \in program, Returns(r, x[1], Reached)
        PROVE  Merge(Sums[<<r.from, x[2]>>], r.weight, Sums[<<Epsilon, <<r.to[1]>> >>], r.callee) \subseteq Sums[x]
    <3> DEFINE m == Merge(Sums[<<r.from, x[2]>>], r.weight, Sums[<<Epsilon, <<r.to[1]>> >>], r.callee)
    <3>1. m \in Calls(Sums, x)
      BY <2>4
    <3> HIDE DEF Plain, Calls, m
    <3>2. m \subseteq Sums[x]
      BY <3>1, <2>2 DEF Into
    <3> QED
      BY <3>2 DEF m
  <2> QED
    BY <2>1, <2>3, <2>4 DEF SolvesSums
<1>11. ASSUME NEW bound \in WeightsOn(Places), SolvesSums(bound) PROVE Below(Sums, bound, Places)
  <2>1. Below(start, bound, Places)
    <3>1. ASSUME NEW x \in Places, x[1] = EntryOf(x[2]) PROVE One \subseteq bound[x]
      <4>1. x[2] \in Contexts /\ x = <<EntryOf(x[2]), x[2]>>
        BY <3>1, PlaceFacts
      <4> QED
        BY <4>1, <1>11 DEF SolvesSums
    <3> QED
      BY <3>1 DEF Below, start, Zero
  <2>2. ASSUME NEW w \in WeightsOn(Places), Below(w, bound, Places), NEW x \in Places
        PROVE  step[w][x] \subseteq bound[x]
    <3>1. ASSUME NEW r \in program, Within(r, x[1])
          PROVE  Extend(w[<<r.from, x[2]>>], r.weight) \subseteq bound[x]
      <4>1. w[<<r.from, x[2]>>] \subseteq bound[<<r.from, x[2]>>]
        BY <2>2, <1>2, <1>4 DEF Below
      <4>2. Extend(w[<<r.from, x[2]>>], r.weight) \subseteq Extend(bound[<<r.from, x[2]>>], r.weight)
        BY <4>1, ExtendMonotone
      <4>3. Extend(bound[<<r.from, x[2]>>], r.weight) \subseteq bound[x]
        BY <3>1, <1>11 DEF SolvesSums
      <4> QED
        BY <4>2, <4>3
    <3>2. ASSUME NEW r \in program, Returns(r, x[1], Reached)
          PROVE  Merge(w[<<r.from, x[2]>>], r.weight, w[<<Epsilon, <<r.to[1]>> >>], r.callee) \subseteq bound[x]
      <4> DEFINE b == w[<<r.from, x[2]>>]
                 s == w[<<Epsilon, <<r.to[1]>> >>]
                 bb == bound[<<r.from, x[2]>>]
                 bs == bound[<<Epsilon, <<r.to[1]>> >>]
      <4>1. b \subseteq bb /\ s \subseteq bs
        BY <3>2, <2>2, <1>2, <1>3, <1>4 DEF Below
      <4>2. Merge(bb, r.weight, bs, r.callee) \subseteq bound[x]
        BY <3>2, <1>11 DEF SolvesSums
      <4> HIDE DEF b, s, bb, bs
      <4>3. Extend(b, r.weight) \subseteq Extend(bb, r.weight)
        BY <4>1, ExtendMonotone
      <4>4. CalleeEffect(s, r.callee) \subseteq CalleeEffect(bs, r.callee)
        BY <4>1, CalleeEffectMonotone
      <4>5. Merge(b, r.weight, s, r.callee) \subseteq Merge(bb, r.weight, bs, r.callee)
        BY <4>3, <4>4, ExtendMonotone DEF Merge
      <4>6. Merge(b, r.weight, s, r.callee) \subseteq bound[x]
        BY <4>2, <4>5
      <4> QED
        BY <4>6 DEF b, s
    <3>3. \A v \in Plain(w, x) \cup Calls(w, x) : v \subseteq bound[x]
      BY <3>1, <3>2
    <3> HIDE DEF Plain, Calls
    <3>4. Into(w, x) \subseteq bound[x]
      BY <3>3 DEF Into
    <3>5. w[x] \subseteq bound[x]
      BY <2>2 DEF Below
    <3> QED
      BY <3>4, <3>5, <1>6
  <2>3. \A w \in WeightsOn(Places) : Below(w, bound, Places) => Below(step[w], bound, Places)
    BY <2>2 DEF Below
  <2> QED
    BY <2>1, <2>3, <1>9
<1> QED
  BY <1>9, <1>10, <1>11 DEF WeightsOn

\* entry is a solution of the equations of the entries.
SolvesEntries(sum, entry) ==
    /\ One \subseteq entry[<< >>]
    /\ \A caller \in Contexts, r \in program : IsPush(r) =>
          Extend(entry[caller], Extend(sum[<<r.from, caller>>], r.weight)) \subseteq entry[<<r.to[1]>>]

\* Entries is the least solution.
LEMMA EntriesLeast ==
    ASSUME RulesWellFormed, NEW sum \in [Places -> Weight]
    PROVE  /\ Entries(sum) \in [Contexts -> Weight]
           /\ SolvesEntries(sum, Entries(sum))
           /\ \A bound \in [Contexts -> Weight] :
                 SolvesEntries(sum, bound) => Below(Entries(sum), bound, Contexts)
<1> DEFINE Call(entry, caller, r) == Extend(entry[caller], Extend(sum[<<r.from, caller>>], r.weight))
           CallsTo(entry, context) == {Call(entry, caller, r) :
               caller \in Contexts, r \in {r \in program : IsPush(r) /\ <<r.to[1]>> = context}}
           Into(entry, context) == UNION CallsTo(entry, context)
           step == [entry \in [Contexts -> Weight] |->
                       [context \in Contexts |-> entry[context] \cup Into(entry, context)]]
           start == [context \in Contexts |-> IF context = << >> THEN One ELSE Zero]
           last == Entries(sum)
<1>1. last = Repeated(step, start)
  <2>1. \A entry : EntryWeights(sum, entry) = [context \in Contexts |-> entry[context] \cup Into(entry, context)]
    BY DEF EntryWeights
  <2>2. last = Repeated([entry \in [Contexts -> Weight] |-> EntryWeights(sum, entry)], start)
    BY DEF Entries
  <2> HIDE DEF Into, start, last
  <2>3. [entry \in [Contexts -> Weight] |-> EntryWeights(sum, entry)] = step
    BY <2>1
  <2> HIDE DEF step
  <2> QED
    BY <2>2, <2>3
<1> HIDE DEF last
<1>2. \A c \in Contexts, r \in program : sum[<<r.from, c>>] \in Weight /\ r.weight \in Weight
  BY PlaceFacts DEF RulesWellFormed
<1>3. ASSUME NEW entry \in [Contexts -> Weight], NEW context \in Contexts PROVE Into(entry, context) \in Weight
  <2>1. ASSUME NEW caller \in Contexts, NEW r \in program PROVE Call(entry, caller, r) \in Weight
    <3>1. Extend(sum[<<r.from, caller>>], r.weight) \in Weight /\ entry[caller] \in Weight
      BY <1>2, ExtendType
    <3> QED
      BY <3>1, ExtendType
  <2> HIDE DEF Call
  <2>2. \A w \in CallsTo(entry, context) : w \in Weight
    BY <2>1
  <2> HIDE DEF CallsTo
  <2> QED
    BY <2>2 DEF Weight
<1>4. /\ step \in [WeightsOn(Contexts) -> WeightsOn(Contexts)]
      /\ \A w \in WeightsOn(Contexts), c \in Contexts : step[w][c] = w[c] \cup Into(w, c)
  <2> HIDE DEF Into
  <2> QED
    BY <1>3 DEF WeightsOn, Weight
<1>5. start \in WeightsOn(Contexts)
  BY OneIsWeight DEF WeightsOn, Zero, Weight
<1>6. \A w \in WeightsOn(Contexts) : Below(w, step[w], Contexts)
  <2> HIDE DEF Into, step
  <2> QED
    BY <1>4 DEF Below
<1> HIDE DEF step, start, Into
<1>7. /\ last \in WeightsOn(Contexts) /\ step[last] = last /\ Below(start, last, Contexts)
      /\ \A bound \in WeightsOn(Contexts) :
            /\ Below(start, bound, Contexts)
            /\ \A w \in WeightsOn(Contexts) : Below(w, bound, Contexts) => Below(step[w], bound, Contexts)
            => Below(last, bound, Contexts)
  BY <1>1, <1>4, <1>5, <1>6, PlacesFinite, LeastWeightsEnd
<1>8. SolvesEntries(sum, last)
  <2>1. One \subseteq last[<< >>]
    BY <1>7, PlaceFacts DEF Below, start
  <2>2. ASSUME NEW context \in Contexts PROVE Into(last, context) \subseteq last[context]
    BY <1>4, <1>7
  <2>3. ASSUME NEW caller \in Contexts, NEW r \in program, IsPush(r)
        PROVE  Call(last, caller, r) \subseteq last[<<r.to[1]>>]
    <3>1. <<r.to[1]>> \in Contexts
      BY <2>3, PlaceFacts
    <3> HIDE DEF Call
    <3>2. Call(last, caller, r) \in CallsTo(last, <<r.to[1]>>)
      BY <2>3
    <3> HIDE DEF CallsTo
    <3> QED
      BY <3>1, <3>2, <2>2 DEF Into
  <2> QED
    BY <2>1, <2>3 DEF SolvesEntries
<1>9. ASSUME NEW bound \in WeightsOn(Contexts), SolvesEntries(sum, bound) PROVE Below(last, bound, Contexts)
  <2>1. Below(start, bound, Contexts)
    BY <1>9 DEF Below, start, Zero, SolvesEntries
  <2>2. ASSUME NEW w \in WeightsOn(Contexts), Below(w, bound, Contexts), NEW context \in Contexts
        PROVE  step[w][context] \subseteq bound[context]
    <3>1. ASSUME NEW caller \in Contexts, NEW r \in program, IsPush(r), <<r.to[1]>> = context
          PROVE  Call(w, caller, r) \subseteq bound[context]
      <4>1. w[caller] \subseteq bound[caller]
        BY <2>2 DEF Below
      <4>2. Call(w, caller, r) \subseteq Call(bound, caller, r)
        BY <4>1, ExtendMonotone
      <4>3. Call(bound, caller, r) \subseteq bound[context]
        BY <3>1, <1>9 DEF SolvesEntries
      <4> QED
        BY <4>2, <4>3
    <3> HIDE DEF Call
    <3>2. \A v \in CallsTo(w, context) : v \subseteq bound[context]
      BY <3>1
    <3> HIDE DEF CallsTo
    <3>3. Into(w, context) \subseteq bound[context]
      BY <3>2 DEF Into
    <3>4. w[context] \subseteq bound[context]
      BY <2>2 DEF Below
    <3> QED
      BY <3>3, <3>4, <1>4
  <2>3. \A w \in WeightsOn(Contexts) : Below(w, bound, Contexts) => Below(step[w], bound, Contexts)
    BY <2>2 DEF Below
  <2> QED
    BY <2>1, <2>3, <1>7
<1> QED
  BY <1>7, <1>8, <1>9 DEF WeightsOn, last

\* The equations are those of the program.
LEMMA EquationsStay ==
    ASSUME program' = program
    PROVE  /\ Contexts' = Contexts /\ Reached' = Reached /\ Sums' = Sums
           /\ Entries(Sums)' = Entries(Sums) /\ Join' = Join
<1>1. Contexts' = Contexts
  BY DEF Contexts
<1>2. Places' = Places
  BY <1>1 DEF Places
<1>3. Reached' = Reached
  BY <1>1, <1>2 DEF Reached
<1>4. \A reached, sum : Summarise(reached, sum)' = Summarise(reached, sum)
  BY <1>1, <1>2 DEF Summarise
<1>5. Sums' = Sums
  BY <1>1, <1>2, <1>3, <1>4 DEF Sums
<1>6. \A sum, entry : EntryWeights(sum, entry)' = EntryWeights(sum, entry)
  BY <1>1 DEF EntryWeights
<1>7. \A sum : Entries(sum)' = Entries(sum)
  BY <1>1, <1>6 DEF Entries
<1>8. Join' = Join
  BY <1>1, <1>5, <1>7 DEF Join
<1> QED
  BY <1>1, <1>3, <1>5, <1>7, <1>8

-----------------------------------------------------------------------------
(* Saturation.                                                             *)

\* The states of the automaton have different names.
LEMMA StateNames ==
    /\ P # Accept
    /\ \A s : GenState(s) # P /\ GenState(s) # Accept
    /\ \A s, q : GenState(s) = GenState(q) => s = q
<1>1. ASSUME NEW s PROVE GenState(s) # P /\ GenState(s) # Accept
  BY DEF GenState, P, Accept
<1>2. ASSUME NEW s, NEW q, GenState(s) = GenState(q) PROVE s = q
  BY <1>2 DEF GenState
<1> QED
  BY <1>1, <1>2 DEF P, Accept

\* The parts of a transition that leaves p.
LEMMA PTransitionParts ==
    ASSUME NEW t \in PTransition
    PROVE  /\ t = <<P, t[2], t[3]>> /\ t[1] = P
           /\ t[2] \in Symbols \cup {Epsilon} /\ t[3] \in States
BY DEF PTransition

\* What a rule makes of a transition is a transition.
LEMMA TargetType ==
    ASSUME RulesWellFormed, NEW t \in PTransition, NEW r \in RulesFrom(t[2])
    PROVE  /\ r \in program /\ r.from = t[2] /\ t[2] \in Symbols
           /\ Target(t, r) \in PTransition
           /\ ReturnOf(t, r)[1] = GenState(r.to[1]) /\ ReturnOf(t, r)[2] = r.to[2] /\ ReturnOf(t, r)[3] = t[3]
           /\ IsPush(r) => /\ ReturnOf(t, r) \in {GenState(s) : s \in Symbols} \X Symbols \X States
                           /\ Target(t, r) = <<P, r.to[1], GenState(r.to[1])>>
           /\ IsStep(r) => Target(t, r) = <<P, r.to[1], t[3]>>
           /\ IsPop(r) => Target(t, r) = <<P, Epsilon, t[3]>>
<1>1. r \in program /\ r.from = t[2]
  BY DEF RulesFrom
<1>2. t[3] \in States /\ \A s \in Symbols : GenState(s) \in States
  BY PTransitionParts DEF States
<1> QED
  BY <1>1, <1>2 DEF RulesWellFormed, Target, ReturnOf, PTransition

\* A return transition comes from one call with one rule.
LEMMA ReturnUnique ==
    ASSUME RulesWellFormed, NEW t \in PTransition, NEW u \in PTransition,
           NEW r \in RulesFrom(t[2]), NEW q \in RulesFrom(u[2]),
           IsPush(r), IsPush(q), ReturnOf(t, r) = ReturnOf(u, q)
    PROVE  t = u /\ r = q
<1>1. r \in program /\ q \in program /\ r.from = t[2] /\ q.from = u[2]
  BY DEF RulesFrom
<1>2. GenState(r.to[1]) = GenState(q.to[1]) /\ r.to[2] = q.to[2] /\ t[3] = u[3]
  BY DEF ReturnOf
<1>3. r.to[1] = q.to[1]
  BY <1>2, StateNames
<1>4. r = q
  BY <1>1, <1>2, <1>3 DEF RulesWellFormed
<1> QED
  BY <1>1, <1>2, <1>4, PTransitionParts

\* Saturation takes nothing back.
Grows ==
    /\ program' = program /\ trans \subseteq trans' /\ sources \subseteq sources'
    /\ intra \subseteq intra' /\ hyper \subseteq hyper' /\ DOMAIN returns \subseteq DOMAIN returns'
    /\ \A ret \in DOMAIN returns : returns'[ret] = returns[ret]

\* What was handled for a transition stays handled while the automaton only grows.
LEMMA HandledStays ==
    ASSUME Grows, NEW t, NEW r, Handled(t, r)
    PROVE  Handled(t, r)'
BY DEF Grows, Handled, Target, ReturnOf

\* The saturation invariant holds when the first transition is on the worklist.
LEMMA SaturationStarts == SaturationInit => SaturationInv
<1> SUFFICES ASSUME SaturationInit PROVE SaturationInv
  OBVIOUS
<1> USE DEF SaturationInit
<1>1. SaturationType
  BY ProgramsType DEF SaturationType, InitialTransition, PTransition, States, EnteredStates
<1>2. AllHandled
  BY DEF AllHandled
<1>3. OneCallEach
  BY DEF OneCallEach
<1>4. EdgesOfRules
  BY DEF EdgesOfRules
<1> QED
  BY <1>1, <1>2, <1>3, <1>4 DEF SaturationInv

\* Handling an ordinary transition keeps the invariant, whatever it meets.
LEMMA PostSymbolKeeps ==
    ASSUME SaturationInv, NEW t \in worklist, PostSymbol(t)
    PROVE  SaturationInv'
<1> DEFINE rules == RulesFrom(t[2])
           pushes == {r \in rules : IsPush(r)}
           added == {ReturnOf(t, r) : r \in pushes}
           new == {Target(t, r) : r \in rules} \cup {Closure(h) : h \in Meetings(t)}
<1>1. RulesWellFormed
  BY LoadedRules DEF SaturationInv, SaturationType
<1>2. t \in trans /\ t \in PTransition /\ trans \subseteq PTransition /\ worklist \subseteq trans
  BY DEF SaturationInv, SaturationType
<1>3. /\ program' = program
      /\ trans' = trans \cup new
      /\ worklist' = (worklist \ {t}) \cup (new \ trans)
      /\ sources' = sources \cup {Target(t, r) : r \in pushes}
      /\ intra' = intra \cup {<<t, Target(t, r), r.weight>> : r \in rules \ pushes}
                        \cup {<<t, ReturnOf(t, r), One>> : r \in pushes}
      /\ hyper' = hyper \cup Meetings(t)
      /\ AddReturns(t, pushes)
  BY DEF PostSymbol, Update, AddHyperEdges
<1>4. ASSUME NEW h \in Meetings(t)
      PROVE  \E r \in pushes : \E e \in trans :
                /\ h = <<ReturnOf(t, r), e>> /\ e[2] = Epsilon /\ e[3] = GenState(r.to[1])
                /\ ReturnOf(t, r) \notin DOMAIN returns
                /\ Closure(h) = <<P, r.to[2], t[3]>> /\ Closure(h) \in PTransition
  <2>1. PICK r \in pushes : /\ h \in {ReturnOf(t, r)} \X EpsilonsTo(GenState(r.to[1]))
                            /\ ReturnOf(t, r) \notin DOMAIN returns
    BY DEF Meetings
  <2>2. PICK e \in trans : h = <<ReturnOf(t, r), e>> /\ e[2] = Epsilon /\ e[3] = GenState(r.to[1])
    BY <2>1 DEF EpsilonsTo
  <2>3. Closure(h) = <<P, r.to[2], t[3]>>
    BY <2>2, <1>1, <1>2, TargetType DEF Closure
  <2>4. r.to[2] \in Symbols /\ t[3] \in States
    BY <1>1, <1>2, TargetType, PTransitionParts DEF RulesWellFormed
  <2> QED
    BY <2>1, <2>2, <2>3, <2>4 DEF PTransition
<1>5. /\ DOMAIN returns' = DOMAIN returns \cup added
      /\ \A ret \in DOMAIN returns : returns'[ret] = returns[ret]
      /\ \A r \in pushes : returns'[ReturnOf(t, r)] = [call |-> t, weight |-> r.weight, rule |-> r]
  <2> DEFINE Of(ret) == CHOOSE r \in pushes : ReturnOf(t, r) = ret
  <2>1. returns' = [ret \in DOMAIN returns \cup added |->
            IF ret \notin DOMAIN returns
            THEN [call |-> t, weight |-> Of(ret).weight, rule |-> Of(ret)]
            ELSE IF ret \in added
            THEN [returns[ret] EXCEPT !.weight = Combine(@, Of(ret).weight)]
            ELSE returns[ret]]
    BY <1>3 DEF AddReturns
  <2>2. ASSUME NEW r \in pushes PROVE Of(ReturnOf(t, r)) = r
    <3>1. Of(ReturnOf(t, r)) \in pushes /\ ReturnOf(t, Of(ReturnOf(t, r))) = ReturnOf(t, r)
      OBVIOUS
    <3> HIDE DEF Of
    <3> QED
      BY <3>1, <1>1, <1>2, ReturnUnique
  <2> HIDE DEF Of
  <2>3. ASSUME NEW r \in pushes, ReturnOf(t, r) \in DOMAIN returns
        PROVE  /\ returns[ReturnOf(t, r)] = [call |-> t, weight |-> r.weight, rule |-> r]
               /\ [returns[ReturnOf(t, r)] EXCEPT !.weight = Combine(@, r.weight)] = returns[ReturnOf(t, r)]
    <3>1. PICK u \in trans, q \in program :
             /\ q \in RulesFrom(u[2])
             /\ IsPush(q) /\ ReturnOf(t, r) = ReturnOf(u, q)
             /\ returns[ReturnOf(t, r)] = [call |-> u, weight |-> q.weight, rule |-> q]
      BY <2>3 DEF SaturationInv, OneCallEach, RulesFrom
    <3>2. t = u /\ r = q
      BY <3>1, <1>1, <1>2, ReturnUnique
    <3>3. Combine(r.weight, r.weight) = r.weight
      BY DEF Combine
    <3> QED
      BY <3>1, <3>2, <3>3
  <2>4. ASSUME NEW ret \in added PROVE \E r \in pushes : ret = ReturnOf(t, r)
    OBVIOUS
  <2> HIDE DEF added
  <2>5. ASSUME NEW ret \in DOMAIN returns PROVE returns'[ret] = returns[ret]
    <3>1. CASE ret \in added
      BY <3>1, <2>1, <2>2, <2>3, <2>4
    <3>2. CASE ret \notin added
      BY <3>2, <2>1
    <3> QED
      BY <3>1, <3>2
  <2>6. ASSUME NEW r \in pushes
        PROVE  returns'[ReturnOf(t, r)] = [call |-> t, weight |-> r.weight, rule |-> r]
    <3>1. ReturnOf(t, r) \in added
      BY DEF added
    <3>2. CASE ReturnOf(t, r) \in DOMAIN returns
      BY <3>2, <2>3, <2>5
    <3>3. CASE ReturnOf(t, r) \notin DOMAIN returns
      BY <3>1, <3>3, <2>1, <2>2
    <3> QED
      BY <3>2, <3>3
  <2> QED
    BY <2>1, <2>5, <2>6
<1>6. Grows
  BY <1>3, <1>5 DEF Grows
<1>7. ASSUME NEW r \in rules PROVE Handled(t, r)'
  <2>1. /\ Target(t, r) \in trans'
        /\ IsPush(r) => /\ Target(t, r) \in sources' /\ ReturnOf(t, r) \in DOMAIN returns'
                        /\ <<t, ReturnOf(t, r), One>> \in intra'
        /\ ~IsPush(r) => <<t, Target(t, r), r.weight>> \in intra'
    BY <1>3, <1>5
  <2> QED
    BY <2>1 DEF Handled, Target, ReturnOf
<1> HIDE DEF rules, pushes, added, new
<1>8. ASSUME NEW u \in trans' \ worklist' PROVE u \in trans \ worklist \/ u = t
  BY <1>3
<1>9. ASSUME NEW u, NEW r PROVE r \in RulesFrom(u[2])' <=> r \in RulesFrom(u[2])
  BY <1>3 DEF RulesFrom
<1>10. SaturationType'
  <2>1. LoadProgram'
    BY <1>3 DEF SaturationInv, SaturationType, LoadProgram
  <2>2. new \subseteq PTransition
    BY <1>1, <1>2, <1>4, TargetType DEF new, rules
  <2>3. EnteredStates \subseteq EnteredStates' /\ \A u \in trans : u[3] \in EnteredStates
    BY <1>5 DEF EnteredStates, SaturationInv, SaturationType
  <2>4. ASSUME NEW u \in new PROVE u[3] \in EnteredStates'
    <3>1. CASE \E r \in rules : u = Target(t, r)
      <4>1. PICK r \in rules : u = Target(t, r)
        BY <3>1
      <4>2. IsPush(r) => ReturnOf(t, r) \in DOMAIN returns' /\ u[3] = ReturnOf(t, r)[1]
        BY <4>1, <1>1, <1>2, <1>5, TargetType DEF added, pushes, rules
      <4>3. ~IsPush(r) => u[3] = t[3]
        BY <4>1, <1>1, <1>2, TargetType DEF rules, RulesWellFormed
      <4> QED
        BY <4>2, <4>3, <2>3, <1>2 DEF EnteredStates
    <3>2. CASE \E h \in Meetings(t) : u = Closure(h)
      BY <3>2, <1>2, <1>4, <2>3
    <3> QED
      BY <3>1, <3>2 DEF new
  <2> QED
    BY <2>1, <2>2, <2>3, <2>4, <1>2, <1>3 DEF SaturationInv, SaturationType
<1>11. AllHandled'
  <2>1. InitialTransition \in sources'
    BY <1>3 DEF SaturationInv, AllHandled
  <2>2. ASSUME NEW u \in trans' \ worklist', NEW r \in RulesFrom(u[2])'
        PROVE  Handled(u, r)'
    <3>1. CASE u = t
      BY <3>1, <1>7, <1>9 DEF rules
    <3>2. CASE u \in trans \ worklist
      <4>1. Handled(u, r)
        BY <3>2, <1>9 DEF SaturationInv, AllHandled
      <4> QED
        BY <4>1, <1>6, HandledStays
    <3> QED
      BY <3>1, <3>2, <1>8
  <2>3. ASSUME NEW ret \in DOMAIN returns', NEW e \in trans' \ worklist', e[2] = Epsilon, e[3] = ret[1]
        PROVE  <<ret, e>> \in hyper'
    <3>1. e \in trans \ worklist
      BY <1>8, <2>3, <1>3 DEF PostSymbol
    <3>2. CASE ret \in DOMAIN returns
      BY <3>1, <3>2, <2>3, <1>3 DEF SaturationInv, AllHandled
    <3>3. CASE ret \notin DOMAIN returns
      <4>1. PICK r \in pushes : ret = ReturnOf(t, r)
        BY <3>3, <1>5 DEF added
      <4>2. e \in EpsilonsTo(GenState(r.to[1]))
        BY <3>1, <4>1, <2>3 DEF EpsilonsTo, ReturnOf
      <4>3. <<ret, e>> \in Meetings(t)
        BY <4>1, <4>2, <3>3 DEF Meetings, pushes, rules
      <4> QED
        BY <4>3, <1>3
    <3> QED
      BY <3>2, <3>3
  <2> QED
    BY <2>1, <2>2, <2>3 DEF AllHandled
<1>12. OneCallEach'
  <2>1. ASSUME NEW ret \in DOMAIN returns'
        PROVE  \E u \in trans' : \E r \in RulesFrom(u[2])' :
                  /\ IsPush(r) /\ ret = ReturnOf(u, r)
                  /\ returns'[ret] = [call |-> u, weight |-> r.weight, rule |-> r]
    <3>1. CASE ret \in DOMAIN returns
      <4>1. PICK u \in trans, r \in program :
               /\ r \in RulesFrom(u[2])
               /\ IsPush(r) /\ ret = ReturnOf(u, r)
               /\ returns[ret] = [call |-> u, weight |-> r.weight, rule |-> r]
        BY <3>1 DEF SaturationInv, OneCallEach, RulesFrom
      <4> QED
        BY <4>1, <3>1, <1>3, <1>5, <1>9
    <3>2. CASE ret \notin DOMAIN returns
      <4>1. PICK r \in pushes : ret = ReturnOf(t, r)
        BY <3>2, <1>5 DEF added
      <4>2. t \in trans' /\ r \in RulesFrom(t[2])' /\ IsPush(r)
        BY <1>2, <1>3, <1>9 DEF pushes, rules
      <4> QED
        BY <4>1, <4>2, <1>5
    <3> QED
      BY <3>1, <3>2
  <2>2. ASSUME NEW h \in hyper'
        PROVE  /\ h = <<h[1], h[2]>> /\ h[1] \in DOMAIN returns' /\ h[2] \in trans'
               /\ h[2][2] = Epsilon /\ h[2][3] = h[1][1] /\ Closure(h) \in trans'
    <3>1. CASE h \in hyper
      BY <3>1, <1>3, <1>5 DEF SaturationInv, OneCallEach
    <3>2. CASE h \in Meetings(t)
      <4>1. PICK r \in pushes, e \in trans :
               h = <<ReturnOf(t, r), e>> /\ e[2] = Epsilon /\ e[3] = GenState(r.to[1])
        BY <3>2, <1>4
      <4>2. ReturnOf(t, r) \in DOMAIN returns' /\ Closure(h) \in trans' /\ e \in trans'
        BY <3>2, <1>3, <1>5 DEF added, new
      <4> QED
        BY <4>1, <4>2 DEF ReturnOf
    <3> QED
      BY <3>1, <3>2, <1>3
  <2> QED
    BY <2>1, <2>2 DEF OneCallEach, ReturnOf, Closure
<1>13. EdgesOfRules'
  <2>1. ASSUME NEW e \in intra'
        PROVE  \E u \in trans' : \E r \in RulesFrom(u[2])' :
                  /\ Handled(u, r)'
                  /\ e = IF IsPush(r) THEN <<u, ReturnOf(u, r), One>> ELSE <<u, Target(u, r), r.weight>>
    <3>1. CASE e \in intra
      <4>1. PICK u \in trans, r \in program :
               /\ r \in RulesFrom(u[2])
               /\ Handled(u, r)
               /\ e = IF IsPush(r) THEN <<u, ReturnOf(u, r), One>> ELSE <<u, Target(u, r), r.weight>>
        BY <3>1 DEF SaturationInv, EdgesOfRules, RulesFrom
      <4>2. Handled(u, r)'
        BY <4>1, <1>6, HandledStays
      <4> QED
        BY <4>1, <4>2, <1>3, <1>9
    <3>2. CASE e \notin intra
      <4>1. PICK r \in rules :
               e = IF IsPush(r) THEN <<t, ReturnOf(t, r), One>> ELSE <<t, Target(t, r), r.weight>>
        BY <3>2, <1>3 DEF pushes
      <4> QED
        BY <4>1, <1>2, <1>3, <1>7, <1>9 DEF rules
    <3> QED
      BY <3>1, <3>2
  <2>2. ASSUME NEW s \in sources', s # InitialTransition
        PROVE  \E u \in trans' : \E r \in RulesFrom(u[2])' : IsPush(r) /\ Handled(u, r)' /\ s = Target(u, r)
    <3>1. CASE s \in sources
      <4>1. PICK u \in trans, r \in program : r \in RulesFrom(u[2]) /\ IsPush(r) /\ Handled(u, r) /\ s = Target(u, r)
        BY <3>1, <2>2 DEF SaturationInv, EdgesOfRules, RulesFrom
      <4>2. Handled(u, r)'
        BY <4>1, <1>6, HandledStays
      <4> QED
        BY <4>1, <4>2, <1>3, <1>9
    <3>2. CASE s \notin sources
      <4>1. PICK r \in pushes : s = Target(t, r)
        BY <3>2, <1>3
      <4> QED
        BY <4>1, <1>2, <1>3, <1>7, <1>9 DEF pushes, rules
    <3> QED
      BY <3>1, <3>2
  <2> QED
    BY <2>1, <2>2 DEF EdgesOfRules, ReturnOf, Target
<1> QED
  BY <1>10, <1>11, <1>12, <1>13 DEF SaturationInv

\* Handling an epsilon transition keeps it too.
LEMMA PostEpsilonKeeps ==
    ASSUME SaturationInv, NEW t \in worklist, PostEpsilon(t)
    PROVE  SaturationInv'
<1> DEFINE meetings == {u \in DOMAIN returns : u[1] = t[3]} \X {t}
           new == {Closure(h) : h \in meetings}
<1>1. RulesWellFormed
  BY LoadedRules DEF SaturationInv, SaturationType
<1>2. t \in trans /\ t \in PTransition /\ trans \subseteq PTransition /\ worklist \subseteq trans
  BY DEF SaturationInv, SaturationType
<1>3. /\ program' = program /\ sources' = sources /\ intra' = intra /\ returns' = returns
      /\ trans' = trans \cup new
      /\ worklist' = (worklist \ {t}) \cup (new \ trans)
      /\ hyper' = hyper \cup meetings
      /\ t[2] = Epsilon
  BY DEF PostEpsilon, Update, AddHyperEdges
<1>4. ASSUME NEW h \in meetings
      PROVE  /\ h = <<h[1], h[2]>> /\ h[1] \in DOMAIN returns /\ h[2] = t /\ t[3] = h[1][1]
             /\ Closure(h) \in PTransition /\ Closure(h)[3] \in EnteredStates
  <2>1. h = <<h[1], t>> /\ h[2] = t /\ h[1] \in DOMAIN returns /\ h[1][1] = t[3]
    OBVIOUS
  <2>2. PICK u \in trans, r \in program :
           /\ r \in RulesFrom(u[2])
           /\ IsPush(r) /\ h[1] = ReturnOf(u, r)
    BY <2>1 DEF SaturationInv, OneCallEach, RulesFrom
  <2>3. Closure(h) = <<P, r.to[2], u[3]>>
    BY <2>2, <1>1, <1>2, TargetType DEF Closure
  <2>4. r.to[2] \in Symbols /\ u[3] \in States /\ u[3] \in EnteredStates
    BY <2>2, <1>1, <1>2, PTransitionParts DEF RulesWellFormed, SaturationInv, SaturationType
  <2> QED
    BY <2>1, <2>3, <2>4 DEF PTransition
<1>5. Grows
  BY <1>3 DEF Grows
<1> HIDE DEF new, meetings
<1>6. ASSUME NEW u \in trans' \ worklist' PROVE u \in trans \ worklist \/ u = t
  BY <1>3
<1>7. RulesFrom(t[2]) = {}
  BY <1>1, <1>3 DEF RulesFrom, RulesWellFormed
<1>8. ASSUME NEW u, NEW r PROVE r \in RulesFrom(u[2])' <=> r \in RulesFrom(u[2])
  BY <1>3 DEF RulesFrom
<1>9. SaturationType'
  <2>1. LoadProgram'
    BY <1>3 DEF SaturationInv, SaturationType, LoadProgram
  <2>2. new \subseteq PTransition
    BY <1>4 DEF new
  <2>3. EnteredStates' = EnteredStates /\ \A u \in trans : u[3] \in EnteredStates
    BY <1>3 DEF EnteredStates, SaturationInv, SaturationType
  <2>4. \A u \in new : u[3] \in EnteredStates
    BY <1>4 DEF new
  <2> QED
    BY <2>1, <2>2, <2>3, <2>4, <1>2, <1>3 DEF SaturationInv, SaturationType
<1>10. AllHandled'
  <2>1. InitialTransition \in sources'
    BY <1>3 DEF SaturationInv, AllHandled
  <2>2. ASSUME NEW u \in trans' \ worklist', NEW r \in RulesFrom(u[2])'
        PROVE  Handled(u, r)'
    <3>1. u \in trans \ worklist /\ r \in RulesFrom(u[2])
      BY <1>6, <1>7, <1>8
    <3>2. Handled(u, r)
      BY <3>1 DEF SaturationInv, AllHandled
    <3> QED
      BY <3>2, <1>5, HandledStays
  <2>3. ASSUME NEW ret \in DOMAIN returns', NEW e \in trans' \ worklist', e[2] = Epsilon, e[3] = ret[1]
        PROVE  <<ret, e>> \in hyper'
    <3>1. CASE e = t
      BY <3>1, <2>3, <1>3 DEF meetings
    <3>2. CASE e # t
      BY <3>2, <2>3, <1>3, <1>6 DEF SaturationInv, AllHandled
    <3> QED
      BY <3>1, <3>2
  <2> QED
    BY <2>1, <2>2, <2>3 DEF AllHandled
<1>11. OneCallEach'
  <2>1. ASSUME NEW ret \in DOMAIN returns'
        PROVE  \E u \in trans' : \E r \in RulesFrom(u[2])' :
                  /\ IsPush(r) /\ ret = ReturnOf(u, r)
                  /\ returns'[ret] = [call |-> u, weight |-> r.weight, rule |-> r]
    <3>1. PICK u \in trans, r \in program :
             /\ r \in RulesFrom(u[2])
             /\ IsPush(r) /\ ret = ReturnOf(u, r)
             /\ returns[ret] = [call |-> u, weight |-> r.weight, rule |-> r]
      BY <2>1, <1>3 DEF SaturationInv, OneCallEach, RulesFrom
    <3> QED
      BY <3>1, <1>3, <1>8
  <2>2. ASSUME NEW h \in hyper'
        PROVE  /\ h = <<h[1], h[2]>> /\ h[1] \in DOMAIN returns' /\ h[2] \in trans'
               /\ h[2][2] = Epsilon /\ h[2][3] = h[1][1] /\ Closure(h) \in trans'
    <3>1. CASE h \in hyper
      BY <3>1, <1>3 DEF SaturationInv, OneCallEach
    <3>2. CASE h \in meetings
      BY <3>2, <1>2, <1>3, <1>4 DEF new
    <3> QED
      BY <3>1, <3>2, <1>3
  <2> QED
    BY <2>1, <2>2 DEF OneCallEach, ReturnOf, Closure
<1>12. EdgesOfRules'
  <2>1. ASSUME NEW e \in intra'
        PROVE  \E u \in trans' : \E r \in RulesFrom(u[2])' :
                  /\ Handled(u, r)'
                  /\ e = IF IsPush(r) THEN <<u, ReturnOf(u, r), One>> ELSE <<u, Target(u, r), r.weight>>
    <3>1. PICK u \in trans, r \in program :
             /\ r \in RulesFrom(u[2])
             /\ Handled(u, r)
             /\ e = IF IsPush(r) THEN <<u, ReturnOf(u, r), One>> ELSE <<u, Target(u, r), r.weight>>
      BY <2>1, <1>3 DEF SaturationInv, EdgesOfRules, RulesFrom
    <3>2. Handled(u, r)'
      BY <3>1, <1>5, HandledStays
    <3> QED
      BY <3>1, <3>2, <1>3, <1>8
  <2>2. ASSUME NEW s \in sources', s # InitialTransition
        PROVE  \E u \in trans' : \E r \in RulesFrom(u[2])' : IsPush(r) /\ Handled(u, r)' /\ s = Target(u, r)
    <3>1. PICK u \in trans, r \in program :
             r \in RulesFrom(u[2]) /\ IsPush(r) /\ Handled(u, r) /\ s = Target(u, r)
      BY <2>2, <1>3 DEF SaturationInv, EdgesOfRules, RulesFrom
    <3>2. Handled(u, r)'
      BY <3>1, <1>5, HandledStays
    <3> QED
      BY <3>1, <3>2, <1>3, <1>8
  <2> QED
    BY <2>1, <2>2 DEF EdgesOfRules, ReturnOf, Target
<1> QED
  BY <1>9, <1>10, <1>11, <1>12 DEF SaturationInv

\* So does every step that leaves the automaton and the graph alone.
LEMMA SaturationStays ==
    ASSUME SaturationInv, UNCHANGED <<program, saturationVars>>
    PROVE  SaturationInv'
<1>1. /\ program' = program /\ trans' = trans /\ worklist' = worklist /\ sources' = sources
      /\ intra' = intra /\ returns' = returns /\ hyper' = hyper
  BY DEF saturationVars
<1>2. \A u, r : r \in RulesFrom(u[2])' <=> r \in RulesFrom(u[2])
  BY <1>1 DEF RulesFrom
<1>3. \A u, r : Handled(u, r)' <=> Handled(u, r)
  BY <1>1 DEF Handled, Target, ReturnOf
<1>4. SaturationType'
  BY <1>1 DEF SaturationInv, SaturationType, LoadProgram, EnteredStates
<1>5. AllHandled'
  BY <1>1, <1>2, <1>3 DEF SaturationInv, AllHandled
<1>6. OneCallEach'
  <2>1. OneCallEach
    BY DEF SaturationInv
  <2> QED
    BY <1>1, <1>2, <2>1 DEF OneCallEach, ReturnOf, Closure
<1>7. EdgesOfRules'
  <2>1. EdgesOfRules
    BY DEF SaturationInv
  <2> QED
    BY <1>1, <1>2, <1>3, <2>1 DEF EdgesOfRules, ReturnOf, Target
<1> QED
  BY <1>4, <1>5, <1>6, <1>7 DEF SaturationInv

-----------------------------------------------------------------------------
(* The graphs.                                                             *)

\* Triples of finite sets are a finite set.
LEMMA TriplesFinite ==
    ASSUME NEW A, NEW B, NEW C, IsFiniteSet(A), IsFiniteSet(B), IsFiniteSet(C)
    PROVE  IsFiniteSet(A \X B \X C)
<1> DEFINE f == [x \in (A \X B) \X C |-> <<x[1][1], x[1][2], x[2]>>]
<1>1. IsFiniteSet((A \X B) \X C)
  BY FS_Product
<1>2. f \in [(A \X B) \X C -> A \X B \X C]
  OBVIOUS
<1>3. ASSUME NEW t \in A \X B \X C PROVE \E s \in (A \X B) \X C : f[s] = t
  <2>1. <<<<t[1], t[2]>>, t[3]>> \in (A \X B) \X C /\ f[<<<<t[1], t[2]>>, t[3]>>] = t
    OBVIOUS
  <2> QED
    BY <2>1
<1> HIDE DEF f
<1> QED
  BY <1>1, <1>2, <1>3, ImageFinite

\* The graph is finite.
LEMMA NodesFinite ==
    ASSUME SaturationInv
    PROVE  IsFiniteSet(Nodes) /\ IsFiniteSet(States)
<1> DEFINE f == [s \in Symbols |-> GenState(s)]
           gen == {GenState(s) : s \in Symbols}
<1>1. f \in [Symbols -> gen] /\ \A q \in gen : \E s \in Symbols : f[s] = q
  OBVIOUS
<1>2. IsFiniteSet(gen)
  <2> HIDE DEF f, gen
  <2> QED
    BY <1>1, FiniteProgram, ImageFinite
<1>3. IsFiniteSet(States) /\ IsFiniteSet(States \cup {P}) /\ IsFiniteSet(Symbols \cup {Epsilon})
  <2> HIDE DEF f, gen
  <2>1. States = gen \cup {Accept}
    BY DEF States, gen
  <2> QED
    BY <1>2, <2>1, FiniteProgram, FS_AddElement
<1>4. IsFiniteSet(Transition)
  <2>1. IsFiniteSet({P} \cup States)
    <3>1. {P} \cup States = States \cup {P}
      OBVIOUS
    <3> QED
      BY <1>3, <3>1
  <2> QED
    BY <1>3, <2>1, TriplesFinite DEF Transition
<1>5. trans \subseteq Transition
  BY DEF SaturationInv, SaturationType, PTransition, Transition
<1>6. ASSUME NEW ret \in DOMAIN returns PROVE ret \in Transition
  <2>1. PICK u \in trans, r \in program : r \in RulesFrom(u[2]) /\ IsPush(r) /\ ret = ReturnOf(u, r)
    BY DEF SaturationInv, OneCallEach, RulesFrom
  <2>2. ReturnOf(u, r) \in {GenState(s) : s \in Symbols} \X Symbols \X States
    BY <2>1, LoadedRules, TargetType DEF SaturationInv, SaturationType
  <2> QED
    BY <2>1, <2>2 DEF Transition, States
<1>7. Nodes \in SUBSET Transition
  BY <1>5, <1>6 DEF Nodes
<1> QED
  BY <1>3, <1>4, <1>7, FS_Subset

\* ReachedAlong is the least set that holds S and is closed under R.
LEMMA ReachedLeast ==
    ASSUME NEW U, IsFiniteSet(U), NEW S, S \subseteq U, NEW R, \A e \in R : e[2] \in U
    PROVE  /\ S \subseteq ReachedAlong(S, R) /\ ReachedAlong(S, R) \subseteq U
           /\ \A e \in R : e[1] \in ReachedAlong(S, R) => e[2] \in ReachedAlong(S, R)
           /\ \A K : S \subseteq K /\ (\A e \in R : e[1] \in K => e[2] \in K) => ReachedAlong(S, R) \subseteq K
<1> DEFINE all == S \cup {e[2] : e \in R}
           D == SUBSET all
           step == [T \in D |-> T \cup {e[2] : e \in {e \in R : e[1] \in T}}]
           measure == [T \in D |-> T]
           last == Repeated(step, S)
<1>1. ReachedAlong(S, R) = last
  BY DEF ReachedAlong
<1>2. IsFiniteSet(all)
  BY FS_Subset
<1>3. step \in [D -> D] /\ measure \in [D -> SUBSET all] /\ S \in D
  OBVIOUS
<1>4. \A T \in D : measure[T] \subseteq measure[step[T]] /\ (measure[T] = measure[step[T]] => step[T] = T)
  BY <1>3
<1>5. /\ last \in D /\ step[last] = last
      /\ \A J \in SUBSET D : S \in J /\ ClosedUnder(step, J) => last \in J
  <2> HIDE DEF step, measure, D, all
  <2> QED
    BY <1>2, <1>3, <1>4, RepeatedEnds
<1> HIDE DEF last
<1>6. \A e \in R : e[1] \in last => e[2] \in last
  BY <1>5
<1>7. S \subseteq last
  <2> DEFINE J == {T \in D : S \subseteq T}
  <2>1. J \in SUBSET D /\ S \in J /\ ClosedUnder(step, J)
    BY DEF ClosedUnder
  <2> HIDE DEF J
  <2>2. last \in J
    BY <1>5, <2>1
  <2> QED
    BY <2>2 DEF J
<1>8. ASSUME NEW K, S \subseteq K, \A e \in R : e[1] \in K => e[2] \in K
      PROVE  last \subseteq K
  <2> DEFINE J == {T \in D : T \subseteq K}
  <2>1. J \in SUBSET D /\ S \in J /\ ClosedUnder(step, J)
    BY <1>8 DEF ClosedUnder
  <2> HIDE DEF J
  <2>2. last \in J
    BY <1>5, <2>1
  <2> QED
    BY <2>2 DEF J
<1> QED
  BY <1>1, <1>5, <1>6, <1>7, <1>8

\* A weighted system of edges has a least solution, and LeastSolution is it: the
\* weights hold the start and what comes along every edge, and no more.
LEMMA LeastWeights ==
    ASSUME NEW X, IsFiniteSet(X), NEW edges, NEW start \in [X -> Weight],
           \A e \in edges : e[2] \in X => e[1] \in X /\ e[3] \in Weight
    PROVE  /\ LeastSolution(edges, start) \in [X -> Weight]
           /\ \A n \in X : start[n] \subseteq LeastSolution(edges, start)[n]
           /\ \A e \in edges : e[2] \in X =>
                 Extend(LeastSolution(edges, start)[e[1]], e[3]) \subseteq LeastSolution(edges, start)[e[2]]
           /\ \A bound \in [X -> Weight] :
                 /\ \A n \in X : start[n] \subseteq bound[n]
                 /\ \A e \in edges : e[2] \in X => Extend(bound[e[1]], e[3]) \subseteq bound[e[2]]
                 => \A n \in X : LeastSolution(edges, start)[n] \subseteq bound[n]
<1> DEFINE Into(w, n) == UNION {Extend(w[e[1]], e[3]) : e \in {e \in edges : e[2] = n}}
           step == [w \in [X -> Weight] |-> [n \in X |-> w[n] \cup Into(w, n)]]
           last == LeastSolution(edges, start)
<1>1. last = Repeated(step, start)
  BY DEF LeastSolution
<1> HIDE DEF last
<1>2. ASSUME NEW w \in [X -> Weight], NEW n \in X PROVE Into(w, n) \in Weight
  <2>1. ASSUME NEW e \in edges, e[2] = n PROVE Extend(w[e[1]], e[3]) \in Weight
    <3>1. w[e[1]] \in Weight /\ e[3] \in Weight
      BY <2>1
    <3> QED
      BY <3>1, ExtendType
  <2> QED
    BY <2>1 DEF Weight
<1>3. /\ step \in [WeightsOn(X) -> WeightsOn(X)]
      /\ \A w \in WeightsOn(X), n \in X : step[w][n] = w[n] \cup Into(w, n)
  <2> HIDE DEF Into
  <2> QED
    BY <1>2 DEF WeightsOn, Weight
<1>4. start \in WeightsOn(X)
  BY DEF WeightsOn
<1>5. \A w \in WeightsOn(X) : Below(w, step[w], X)
  <2> HIDE DEF Into, step
  <2> QED
    BY <1>3 DEF Below
<1> HIDE DEF step
<1>6. /\ last \in WeightsOn(X) /\ step[last] = last /\ Below(start, last, X)
      /\ \A bound \in WeightsOn(X) :
            /\ Below(start, bound, X)
            /\ \A w \in WeightsOn(X) : Below(w, bound, X) => Below(step[w], bound, X)
            => Below(last, bound, X)
  BY <1>1, <1>3, <1>4, <1>5, LeastWeightsEnd
<1>7. ASSUME NEW e \in edges, e[2] \in X PROVE Extend(last[e[1]], e[3]) \subseteq last[e[2]]
  <2>1. Into(last, e[2]) \subseteq last[e[2]]
    BY <1>3, <1>6, <1>7
  <2>2. Extend(last[e[1]], e[3]) \subseteq Into(last, e[2])
    OBVIOUS
  <2> QED
    BY <2>1, <2>2
<1>8. ASSUME NEW bound \in WeightsOn(X), Below(start, bound, X),
             \A e \in edges : e[2] \in X => Extend(bound[e[1]], e[3]) \subseteq bound[e[2]]
      PROVE  Below(last, bound, X)
  <2>1. ASSUME NEW w \in WeightsOn(X), Below(w, bound, X), NEW n \in X
        PROVE  step[w][n] \subseteq bound[n]
    <3>1. ASSUME NEW e \in edges, e[2] = n PROVE Extend(w[e[1]], e[3]) \subseteq bound[n]
      <4>1. w[e[1]] \subseteq bound[e[1]]
        BY <2>1, <3>1 DEF Below
      <4>2. Extend(w[e[1]], e[3]) \subseteq Extend(bound[e[1]], e[3])
        BY <4>1, ExtendMonotone
      <4> QED
        BY <3>1, <4>2, <1>8
    <3>2. Into(w, n) \subseteq bound[n]
      BY <3>1
    <3>3. w[n] \subseteq bound[n]
      BY <2>1 DEF Below
    <3> HIDE DEF Into
    <3> QED
      BY <3>2, <3>3, <1>3
  <2>2. \A w \in WeightsOn(X) : Below(w, bound, X) => Below(step[w], bound, X)
    BY <2>1 DEF Below
  <2> QED
    BY <2>2, <1>6, <1>8
<1> QED
  BY <1>6, <1>7, <1>8 DEF WeightsOn, Below, last

\* The ends of an edge are nodes.
LEMMA EndsAreNodes ==
    ASSUME SaturationInv
    PROVE  /\ \A e \in intra : e[1] \in Nodes /\ e[2] \in Nodes
           /\ \A h \in hyper : h[1] \in Nodes /\ h[2] \in Nodes /\ Closure(h) \in Nodes
<1>1. ASSUME NEW e \in intra PROVE e[1] \in Nodes /\ e[2] \in Nodes
  <2>1. PICK t \in trans, r \in program :
           /\ Handled(t, r)
           /\ e = IF IsPush(r) THEN <<t, ReturnOf(t, r), One>> ELSE <<t, Target(t, r), r.weight>>
    BY DEF SaturationInv, EdgesOfRules, RulesFrom
  <2> QED
    BY <2>1 DEF Handled, Nodes
<1>2. ASSUME NEW h \in hyper PROVE h[1] \in Nodes /\ h[2] \in Nodes /\ Closure(h) \in Nodes
  BY DEF SaturationInv, OneCallEach, Nodes
<1> QED
  BY <1>1, <1>2

\* The IntraGraphs split the nodes, and no edge leaves its graph.
LEMMA GraphFacts ==
    ASSUME SaturationInv
    PROVE  /\ \A n \in Nodes : n \in GraphOf(n) /\ GraphOf(n) \subseteq Nodes
           /\ \A n \in Nodes : \A m \in GraphOf(n) : GraphOf(m) = GraphOf(n)
           /\ \A e \in intra : GraphOf(e[1]) = GraphOf(e[2])
           /\ \A h \in hyper : GraphOf(h[1]) = GraphOf(Closure(h))
<1> DEFINE R == Links \cup {<<l[2], l[1]>> : l \in Links}
<1>1. \A l \in R : l[1] \in Nodes /\ l[2] \in Nodes /\ <<l[2], l[1]>> \in R
  <2>1. \A l \in Links : l = <<l[1], l[2]>> /\ l[1] \in Nodes /\ l[2] \in Nodes
    BY EndsAreNodes DEF Links
  <2> QED
    BY <2>1
<1>2. \A n : GraphOf(n) = ReachedAlong({n}, R)
  BY DEF GraphOf
<1> HIDE DEF R
<1>3. ASSUME NEW n \in Nodes
      PROVE  /\ n \in GraphOf(n) /\ GraphOf(n) \subseteq Nodes
             /\ \A e \in R : e[1] \in GraphOf(n) => e[2] \in GraphOf(n)
             /\ \A K : n \in K /\ (\A e \in R : e[1] \in K => e[2] \in K) => GraphOf(n) \subseteq K
  <2>1. IsFiniteSet(Nodes) /\ {n} \subseteq Nodes /\ \A e \in R : e[2] \in Nodes
    BY <1>1, NodesFinite
  <2> DEFINE S == {n}
  <2>2. S \subseteq Nodes /\ GraphOf(n) = ReachedAlong(S, R) /\ \A K : S \subseteq K <=> n \in K
    BY <2>1, <1>2
  <2> HIDE DEF S
  <2>3. /\ S \subseteq ReachedAlong(S, R) /\ ReachedAlong(S, R) \subseteq Nodes
        /\ \A e \in R : e[1] \in ReachedAlong(S, R) => e[2] \in ReachedAlong(S, R)
        /\ \A K : S \subseteq K /\ (\A e \in R : e[1] \in K => e[2] \in K) => ReachedAlong(S, R) \subseteq K
    BY <2>1, <2>2, ReachedLeast
  <2> QED
    BY <2>2, <2>3
<1>4. ASSUME NEW n \in Nodes, NEW m \in GraphOf(n) PROVE GraphOf(m) \subseteq GraphOf(n)
  BY <1>3
<1>5. ASSUME NEW n \in Nodes, NEW m \in GraphOf(n) PROVE n \in GraphOf(m)
  <2> DEFINE K == {k \in Nodes : n \in GraphOf(k)}
  <2>1. n \in K
    BY <1>3
  <2>2. ASSUME NEW e \in R, e[1] \in K PROVE e[2] \in K
    <3>1. e[2] \in Nodes /\ <<e[2], e[1]>> \in R /\ e[1] \in Nodes
      BY <1>1
    <3>2. e[1] \in GraphOf(e[2])
      BY <3>1, <1>3
    <3> QED
      BY <2>2, <3>1, <3>2, <1>4
  <2>3. GraphOf(n) \subseteq K
    <3> HIDE DEF K
    <3> QED
      BY <2>1, <2>2, <1>3
  <2> QED
    BY <2>3
<1>6. ASSUME NEW n \in Nodes, NEW m \in GraphOf(n) PROVE GraphOf(m) = GraphOf(n)
  <2>1. m \in Nodes
    BY <1>3
  <2> QED
    BY <2>1, <1>4, <1>5
<1>7. ASSUME NEW e \in R PROVE GraphOf(e[1]) = GraphOf(e[2])
  BY <1>1, <1>3, <1>6
<1>8. ASSUME NEW e \in intra PROVE GraphOf(e[1]) = GraphOf(e[2])
  <2>1. <<e[1], e[2]>> \in R
    BY DEF R, Links
  <2> QED
    BY <2>1, <1>7
<1>9. ASSUME NEW h \in hyper PROVE GraphOf(h[1]) = GraphOf(Closure(h))
  <2>1. <<h[1], Closure(h)>> \in R
    BY DEF R, Links
  <2> QED
    BY <2>1, <1>7
<1> QED
  BY <1>3, <1>6, <1>8, <1>9

-----------------------------------------------------------------------------
(* Weights of the nodes.                                                   *)

\* What the calls give, the weights of the updatable edges, are weights.
MergedType == \A h \in hyper : merged[h] \in Weight

\* While summaries are solved, the updatable edges have weights.
LEMMA SolvingMerges ==
    ASSUME SolveInv, phase # "saturate"
    PROVE  MergedType
BY DEF SolveInv, SolveType, MergedType

\* The edges into an IntraGraph come from it.
LEMMA EdgesOfGraph ==
    ASSUME SaturationInv, MergedType, NEW graph \in IntraGraphs, NEW e \in EdgesInto(graph)
    PROVE  e[1] \in graph /\ e[2] \in graph /\ e[3] \in Weight
<1>1. ASSUME NEW n, NEW m, n \in Nodes, m \in graph, GraphOf(n) = GraphOf(m) PROVE n \in graph
  <2>1. PICK k \in Nodes : graph = GraphOf(k)
    BY DEF IntraGraphs
  <2> QED
    BY <1>1, <2>1, GraphFacts
<1>2. CASE e \in intra /\ e[2] \in graph
  <2>1. PICK t \in trans, r \in program :
           e = IF IsPush(r) THEN <<t, ReturnOf(t, r), One>> ELSE <<t, Target(t, r), r.weight>>
    BY <1>2 DEF SaturationInv, EdgesOfRules, RulesFrom
  <2>2. r.weight \in Weight /\ One \in Weight
    BY LoadedRules DEF SaturationInv, SaturationType, RulesWellFormed, One, IdentityOn, Weight
  <2>3. e[3] \in Weight
    BY <2>1, <2>2
  <2> QED
    BY <1>1, <1>2, <2>3, EndsAreNodes, GraphFacts
<1>3. CASE e \notin intra
  <2>1. PICK h \in hyper : Closure(h) \in graph /\ e = <<h[1], Closure(h), merged[h]>>
    BY <1>3 DEF EdgesInto
  <2> QED
    BY <1>1, <2>1, EndsAreNodes, GraphFacts DEF MergedType
<1> QED
  BY <1>2, <1>3 DEF EdgesInto

\* The weights of one IntraGraph hold one at the sources, and what comes along
\* every edge and every hyper edge into it.
LEMMA SolutionFacts ==
    ASSUME SaturationInv, MergedType, NEW graph \in IntraGraphs
    PROVE  /\ Solution(graph) \in [graph -> Weight]
           /\ \A n \in graph : n \in sources => One \subseteq Solution(graph)[n]
           /\ \A e \in intra : e[2] \in graph =>
                 Extend(Solution(graph)[e[1]], e[3]) \subseteq Solution(graph)[e[2]]
           /\ \A h \in hyper : Closure(h) \in graph =>
                 Extend(Solution(graph)[h[1]], merged[h]) \subseteq Solution(graph)[Closure(h)]
           /\ \A bound \in [graph -> Weight] :
                 /\ \A n \in graph : n \in sources => One \subseteq bound[n]
                 /\ \A e \in EdgesInto(graph) : Extend(bound[e[1]], e[3]) \subseteq bound[e[2]]
                 => \A n \in graph : Solution(graph)[n] \subseteq bound[n]
<1> DEFINE start == [n \in graph |-> IF n \in sources THEN One ELSE Zero]
           edges == EdgesInto(graph)
           last == LeastSolution(edges, start)
<1>1. IsFiniteSet(graph)
  BY GraphFacts, NodesFinite, FS_Subset DEF IntraGraphs
<1>2. start \in [graph -> Weight]
  <2>1. One \in Weight /\ Zero \in Weight
    BY DEF One, IdentityOn, Zero, Weight
  <2> QED
    BY <2>1
<1>3. \A n \in graph : n \in sources => start[n] = One
  OBVIOUS
<1>4. /\ \A e \in intra : e[2] \in graph => e \in edges
      /\ \A h \in hyper : Closure(h) \in graph => <<h[1], Closure(h), merged[h]>> \in edges
  BY DEF EdgesInto
<1>5. Solution(graph) = last
  BY DEF Solution
<1>. \A e \in edges : e[1] \in graph /\ e[3] \in Weight
  BY EdgesOfGraph
<1> HIDE DEF start, edges
<1>6. /\ last \in [graph -> Weight]
      /\ \A n \in graph : start[n] \subseteq last[n]
      /\ \A e \in edges : e[2] \in graph => Extend(last[e[1]], e[3]) \subseteq last[e[2]]
      /\ \A bound \in [graph -> Weight] :
            /\ \A n \in graph : start[n] \subseteq bound[n]
            /\ \A e \in edges : e[2] \in graph => Extend(bound[e[1]], e[3]) \subseteq bound[e[2]]
            => \A n \in graph : last[n] \subseteq bound[n]
  BY <1>1, <1>2, LeastWeights
<1> HIDE DEF last
<1>7. ASSUME NEW h \in hyper, Closure(h) \in graph
      PROVE  Extend(last[h[1]], merged[h]) \subseteq last[Closure(h)]
  <2> DEFINE e == <<h[1], Closure(h), merged[h]>>
  <2>1. e \in edges /\ e[1] = h[1] /\ e[2] = Closure(h) /\ e[3] = merged[h]
    BY <1>4, <1>7
  <2> HIDE DEF e
  <2> QED
    BY <2>1, <1>6, <1>7
<1>8. ASSUME NEW bound \in [graph -> Weight],
             \A n \in graph : n \in sources => One \subseteq bound[n],
             \A e \in EdgesInto(graph) : Extend(bound[e[1]], e[3]) \subseteq bound[e[2]]
      PROVE  \A n \in graph : last[n] \subseteq bound[n]
  <2>1. \A n \in graph : start[n] \subseteq bound[n]
    BY <1>8 DEF start, Zero
  <2>2. \A e \in edges : Extend(bound[e[1]], e[3]) \subseteq bound[e[2]]
    BY <1>8 DEF edges
  <2> QED
    BY <2>1, <2>2, <1>6
<1> QED
  BY <1>3, <1>4, <1>5, <1>6, <1>7, <1>8

\* The weight of a node is its weight in its graph.
LEMMA NodeWeightsOfGraphs ==
    ASSUME SaturationInv, MergedType
    PROVE  /\ NodeWeights \in [Nodes -> Weight]
           /\ \A n \in Nodes : GraphOf(n) \in IntraGraphs /\ NodeWeights[n] = Solution(GraphOf(n))[n]
<1> DEFINE sols == {Solution(graph) : graph \in IntraGraphs}
           Has(n) == CHOOSE weights \in sols : n \in DOMAIN weights
           W == [n \in Nodes |-> Has(n)[n]]
<1>1. \A n \in Nodes : GraphOf(n) \in IntraGraphs
  BY DEF IntraGraphs
<1>2. \A graph \in IntraGraphs : Solution(graph) \in [graph -> Weight]
  BY SolutionFacts
<1>3. ASSUME NEW n \in Nodes PROVE Has(n) = Solution(GraphOf(n)) /\ Has(n)[n] \in Weight
  <2>1. Solution(GraphOf(n)) \in sols /\ n \in DOMAIN Solution(GraphOf(n))
    BY <1>1, <1>2, GraphFacts
  <2>2. Has(n) \in sols /\ n \in DOMAIN Has(n)
    BY <2>1
  <2> HIDE DEF Has
  <2>3. PICK graph \in IntraGraphs : Has(n) = Solution(graph)
    BY <2>2
  <2>4. n \in graph
    BY <2>2, <2>3, <1>2
  <2>5. PICK k \in Nodes : graph = GraphOf(k)
    BY DEF IntraGraphs
  <2>6. GraphOf(n) = GraphOf(k)
    BY <2>4, <2>5, GraphFacts
  <2>7. Has(n)[n] \in Weight
    BY <2>3, <2>4, <1>2
  <2> QED
    BY <2>3, <2>5, <2>6, <2>7
<1>4. NodeWeights = W
  BY DEF NodeWeights, Only
<1> HIDE DEF Has, sols
<1> QED
  BY <1>1, <1>3, <1>4

\* The weights of all nodes together.
LEMMA NodeWeightsFacts ==
    ASSUME SaturationInv, MergedType
    PROVE  /\ \A n \in sources : n \in trans /\ One \subseteq NodeWeights[n]
           /\ \A e \in intra : Extend(NodeWeights[e[1]], e[3]) \subseteq NodeWeights[e[2]]
           /\ \A h \in hyper : Extend(NodeWeights[h[1]], merged[h]) \subseteq NodeWeights[Closure(h)]
<1>1. ASSUME NEW n \in sources PROVE n \in trans /\ One \subseteq NodeWeights[n]
  <2>1. n \in trans
    BY DEF SaturationInv, SaturationType, EdgesOfRules, Handled
  <2>2. n \in Nodes
    BY <2>1 DEF Nodes
  <2> QED
    BY <2>1, <2>2, NodeWeightsOfGraphs, GraphFacts, SolutionFacts
<1>2. ASSUME NEW e \in intra PROVE Extend(NodeWeights[e[1]], e[3]) \subseteq NodeWeights[e[2]]
  <2>1. e[1] \in Nodes /\ e[2] \in Nodes /\ GraphOf(e[1]) = GraphOf(e[2]) /\ e[2] \in GraphOf(e[2])
    BY EndsAreNodes, GraphFacts
  <2>2. /\ NodeWeights[e[1]] = Solution(GraphOf(e[2]))[e[1]]
        /\ NodeWeights[e[2]] = Solution(GraphOf(e[2]))[e[2]]
        /\ GraphOf(e[2]) \in IntraGraphs
    BY <2>1, NodeWeightsOfGraphs
  <2> QED
    BY <2>1, <2>2, SolutionFacts
<1>3. ASSUME NEW h \in hyper PROVE Extend(NodeWeights[h[1]], merged[h]) \subseteq NodeWeights[Closure(h)]
  <2> DEFINE c == Closure(h)
  <2>1. h[1] \in Nodes /\ c \in Nodes /\ GraphOf(h[1]) = GraphOf(c) /\ c \in GraphOf(c)
    BY EndsAreNodes, GraphFacts
  <2>2. /\ NodeWeights[h[1]] = Solution(GraphOf(c))[h[1]]
        /\ NodeWeights[c] = Solution(GraphOf(c))[c]
        /\ GraphOf(c) \in IntraGraphs
    BY <2>1, NodeWeightsOfGraphs
  <2> QED
    BY <2>1, <2>2, SolutionFacts
<1> QED
  BY <1>1, <1>2, <1>3

\* The weights of the states: accept is one, and a state holds what comes from the
\* state that each of its calls was made in.
LEMMA SummaryFacts ==
    ASSUME SaturationInv, NEW solution \in [Nodes -> Weight]
    PROVE  /\ PathSummary(solution) \in [EnteredStates -> Weight]
           /\ One \subseteq PathSummary(solution)[Accept]
           /\ \A t \in DOMAIN returns :
                 Extend(PathSummary(solution)[t[3]], GetWeight(solution, t)) \subseteq PathSummary(solution)[t[1]]
           /\ \A bound \in [EnteredStates -> Weight] :
                 /\ One \subseteq bound[Accept]
                 /\ \A t \in DOMAIN returns : Extend(bound[t[3]], GetWeight(solution, t)) \subseteq bound[t[1]]
                 => \A q \in EnteredStates : PathSummary(solution)[q] \subseteq bound[q]
<1> DEFINE start == [q \in EnteredStates |-> IF q = Accept THEN One ELSE Zero]
           edges == {<<t[3], t[1], GetWeight(solution, t)>> : t \in DOMAIN returns}
           last == LeastSolution(edges, start)
<1>1. IsFiniteSet(EnteredStates)
  <2>1. EnteredStates \subseteq States
    <3>1. ASSUME NEW ret \in DOMAIN returns PROVE ret[1] \in States
      <4>1. PICK u \in trans, r \in program : r \in RulesFrom(u[2]) /\ IsPush(r) /\ ret = ReturnOf(u, r)
        BY DEF SaturationInv, OneCallEach, RulesFrom
      <4>2. ReturnOf(u, r) \in {GenState(s) : s \in Symbols} \X Symbols \X States
        BY <4>1, LoadedRules, TargetType DEF SaturationInv, SaturationType
      <4> QED
        BY <4>1, <4>2 DEF States
    <3> QED
      BY <3>1 DEF EnteredStates, States
  <2> QED
    BY <2>1, NodesFinite, FS_Subset
<1>2. start \in [EnteredStates -> Weight] /\ start[Accept] = One
  <2>1. One \in Weight /\ Zero \in Weight
    BY DEF One, IdentityOn, Zero, Weight
  <2> QED
    BY <2>1 DEF EnteredStates
<1>3. PathSummary(solution) = last
  BY DEF PathSummary
<1>4. \A t \in DOMAIN returns : <<t[3], t[1], GetWeight(solution, t)>> \in edges
  OBVIOUS
<1>. ASSUME NEW e \in edges PROVE e[1] \in EnteredStates /\ e[3] \in Weight
  <2>1. PICK t \in DOMAIN returns : e = <<t[3], t[1], GetWeight(solution, t)>>
    OBVIOUS
  <2>2. PICK u \in trans, r \in program :
           /\ r \in RulesFrom(u[2]) /\ IsPush(r) /\ t = ReturnOf(u, r)
           /\ returns[t] = [call |-> u, weight |-> r.weight, rule |-> r]
    BY DEF SaturationInv, OneCallEach, RulesFrom
  <2>3. u[3] \in EnteredStates /\ u \in Nodes /\ r.weight \in Weight
    BY LoadedRules DEF SaturationInv, SaturationType, RulesWellFormed, Nodes
  <2>4. t[3] = u[3]
    BY <2>2 DEF ReturnOf
  <2>5. GetWeight(solution, t) = Extend(solution[u], r.weight)
    BY <2>2 DEF GetWeight
  <2> HIDE DEF edges, start
  <2> QED
    BY <2>1, <2>3, <2>4, <2>5, ExtendType
<1> HIDE DEF start, edges
<1>5. /\ last \in [EnteredStates -> Weight]
      /\ \A q \in EnteredStates : start[q] \subseteq last[q]
      /\ \A e \in edges : e[2] \in EnteredStates => Extend(last[e[1]], e[3]) \subseteq last[e[2]]
      /\ \A bound \in [EnteredStates -> Weight] :
            /\ \A q \in EnteredStates : start[q] \subseteq bound[q]
            /\ \A e \in edges : e[2] \in EnteredStates => Extend(bound[e[1]], e[3]) \subseteq bound[e[2]]
            => \A q \in EnteredStates : last[q] \subseteq bound[q]
  BY <1>1, <1>2, LeastWeights
<1> HIDE DEF last
<1>6. ASSUME NEW t \in DOMAIN returns
      PROVE  Extend(last[t[3]], GetWeight(solution, t)) \subseteq last[t[1]]
  <2> DEFINE e == <<t[3], t[1], GetWeight(solution, t)>>
  <2>1. e \in edges /\ e[1] = t[3] /\ e[2] = t[1] /\ e[3] = GetWeight(solution, t) /\ t[1] \in EnteredStates
    BY <1>4 DEF EnteredStates
  <2> HIDE DEF e
  <2> QED
    BY <2>1, <1>5
<1>7. ASSUME NEW bound \in [EnteredStates -> Weight], One \subseteq bound[Accept],
             \A t \in DOMAIN returns : Extend(bound[t[3]], GetWeight(solution, t)) \subseteq bound[t[1]]
      PROVE  \A q \in EnteredStates : last[q] \subseteq bound[q]
  <2>1. \A q \in EnteredStates : start[q] \subseteq bound[q]
    BY <1>7 DEF start, Zero
  <2>2. \A e \in edges : Extend(bound[e[1]], e[3]) \subseteq bound[e[2]]
    BY <1>7 DEF edges
  <2> QED
    BY <2>1, <2>2, <1>5
<1>8. Accept \in EnteredStates
  BY DEF EnteredStates
<1> QED
  BY <1>2, <1>3, <1>5, <1>6, <1>7, <1>8

-----------------------------------------------------------------------------
(* Solving.                                                                *)

\* The graph is that of the variables it is made of.
LEMMA GraphStays ==
    ASSUME UNCHANGED <<trans, sources, intra, returns, hyper>>
    PROVE  /\ Nodes' = Nodes /\ IntraGraphs' = IntraGraphs
           /\ \A n : GraphOf(n)' = GraphOf(n)
           /\ \A graph : OutNodes(graph)' = OutNodes(graph)
           /\ \A a, b : Feeds(a, b)' <=> Feeds(a, b)
<1>1. Nodes' = Nodes
  BY DEF Nodes
<1>2. Links' = Links
  BY DEF Links, Closure
<1>3. \A n : GraphOf(n)' = GraphOf(n)
  BY <1>2 DEF GraphOf
<1>4. IntraGraphs' = IntraGraphs
  BY <1>1, <1>3 DEF IntraGraphs
<1>5. \A graph : OutNodes(graph)' = OutNodes(graph)
  BY DEF OutNodes
<1>6. \A a, b : Feeds(a, b)' <=> Feeds(a, b)
  BY DEF Feeds, Closure
<1> QED
  BY <1>1, <1>3, <1>4, <1>5, <1>6

\* The weights of a graph stay while the weights of the calls in it stay.
LEMMA SolutionStays ==
    ASSUME UNCHANGED <<trans, sources, intra, returns, hyper>>, NEW graph,
           \A h \in hyper : Closure(h) \in graph => merged'[h] = merged[h]
    PROVE  Solution(graph)' = Solution(graph)
<1> DEFINE start == [n \in graph |-> IF n \in sources THEN One ELSE Zero]
<1>1. EdgesInto(graph)' = EdgesInto(graph)
  <2>1. {e \in intra : e[2] \in graph}' = {e \in intra : e[2] \in graph}
    OBVIOUS
  <2>2. {h \in hyper : Closure(h) \in graph}' = {h \in hyper : Closure(h) \in graph}
    BY DEF Closure
  <2>3. \A h \in {h \in hyper : Closure(h) \in graph} :
           <<h[1], Closure(h), merged[h]>>' = <<h[1], Closure(h), merged[h]>>
    BY DEF Closure
  <2> QED
    BY <2>1, <2>2, <2>3 DEF EdgesInto
<1>2. start' = start
  OBVIOUS
<1>3. Solution(graph)' = LeastSolution(EdgesInto(graph)', start')
  BY DEF Solution
<1>4. Solution(graph) = LeastSolution(EdgesInto(graph), start)
  BY DEF Solution
<1> QED
  BY <1>1, <1>2, <1>3, <1>4

\* What is read of the solution stays too.
LEMMA ResultStays ==
    ASSUME UNCHANGED <<trans, sources, intra, returns, hyper, merged>>
    PROVE  /\ NodeWeights' = NodeWeights
           /\ \A solution : PathSummary(solution)' = PathSummary(solution)
           /\ \A solution, summary : ReadResult(solution, summary)' = ReadResult(solution, summary)
<1>1. NodeWeights' = NodeWeights
  <2> DEFINE sols == {Solution(graph) : graph \in IntraGraphs}
             Of(N, S) == Only({[n \in N |-> (CHOOSE weights \in solutions : n \in DOMAIN weights)[n]] :
                                  solutions \in {S}})
  <2>1. \A graph : Solution(graph)' = Solution(graph)
    BY SolutionStays
  <2>2. sols' = sols /\ Nodes' = Nodes
    BY <2>1, GraphStays
  <2>3. NodeWeights' = Of(Nodes', sols') /\ NodeWeights = Of(Nodes, sols)
    BY DEF NodeWeights
  <2> HIDE DEF sols, Of
  <2> QED
    BY <2>2, <2>3
<1>2. ASSUME NEW solution PROVE PathSummary(solution)' = PathSummary(solution)
  <2> DEFINE start == [q \in EnteredStates |-> IF q = Accept THEN One ELSE Zero]
             edges == {<<t[3], t[1], GetWeight(solution, t)>> : t \in DOMAIN returns}
  <2>1. \A t : GetWeight(solution, t)' = GetWeight(solution, t)
    BY DEF GetWeight
  <2>2. edges' = edges
    BY <2>1
  <2>3. start' = start
    BY DEF EnteredStates
  <2>4. PathSummary(solution)' = LeastSolution(edges', start') /\ PathSummary(solution) = LeastSolution(edges, start)
    BY DEF PathSummary
  <2> HIDE DEF edges, start
  <2> QED
    BY <2>2, <2>3, <2>4
<1>3. \A solution, summary : ReadResult(solution, summary)' = ReadResult(solution, summary)
  BY DEF ReadResult
<1> QED
  BY <1>1, <1>2, <1>3

\* Every IntraGraph is in a component.
LEMMA ComponentsCover ==
    ASSUME SaturationInv
    PROVE  UNION Components = IntraGraphs
<1> DEFINE feeds == {f \in IntraGraphs \X IntraGraphs : Feeds(f[1], f[2])}
           onward == [a \in IntraGraphs |-> ReachedAlong({a}, feeds)]
           Of(a) == {b \in IntraGraphs : b \in onward[a] /\ a \in onward[b]}
<1>1. Components = {Of(a) : a \in IntraGraphs}
  BY DEF Components
<1>2. IsFiniteSet(IntraGraphs)
  <2> DEFINE graphs == [n \in Nodes |-> GraphOf(n)]
  <2>1. graphs \in [Nodes -> IntraGraphs] /\ \A g \in IntraGraphs : \E n \in Nodes : graphs[n] = g
    BY DEF IntraGraphs
  <2> HIDE DEF graphs
  <2> QED
    BY <2>1, NodesFinite, ImageFinite
<1>3. ASSUME NEW a \in IntraGraphs PROVE a \in Of(a)
  <2> DEFINE S == {a}
  <2>1. S \subseteq IntraGraphs /\ \A f \in feeds : f[2] \in IntraGraphs
    OBVIOUS
  <2>2. onward[a] = ReachedAlong(S, feeds)
    OBVIOUS
  <2> HIDE DEF S, feeds, onward
  <2>3. S \subseteq ReachedAlong(S, feeds)
    BY <1>2, <2>1, ReachedLeast
  <2> QED
    BY <2>2, <2>3 DEF S
<1>4. \A a \in IntraGraphs : Of(a) \subseteq IntraGraphs
  OBVIOUS
<1> HIDE DEF Of
<1> QED
  BY <1>1, <1>3, <1>4

\* Splitting the graph into components: nothing has been solved yet.
LEMMA StartSolveKeeps ==
    ASSUME SaturationInv, SolveInv, StartSolve
    PROVE  SolveInv'
<1>1. /\ UNCHANGED <<trans, sources, intra, returns, hyper>>
      /\ phase = "saturate" /\ worklist' = {} /\ phase' = "solve" /\ pending' = Components /\ merged' = [h \in hyper |-> Zero]
      /\ hyper' = hyper /\ current' = current /\ outWork' = outWork /\ outWeight' = outWeight /\ result' = result
  BY DEF StartSolve, saturationVars
<1>2. current = {} /\ outWork = {} /\ outWeight = << >> /\ result = << >>
  BY <1>1 DEF SolveInv, SolveType, solveVars
<1>3. UNION pending' = IntraGraphs'
  BY <1>1, ComponentsCover, GraphStays
<1>4. SolveType'
  BY <1>1, <1>2, <1>3 DEF SolveType, Zero, Weight
<1>5. CalleesFirst'
  BY <1>3 DEF CalleesFirst
<1>6. Settled'
  BY <1>1, <1>2, <1>3 DEF Settled
<1> QED
  BY <1>4, <1>5, <1>6 DEF SolveInv

\* Beginning a component: whatever feeds it is finished, so it feeds only what is
\* still to come and itself.
LEMMA StartComponentKeeps ==
    ASSUME SaturationInv, SolveInv, NEW c \in pending, StartComponent(c)
    PROVE  SolveInv'
<1>1. /\ UNCHANGED <<trans, sources, intra, returns, hyper>>
      /\ worklist' = worklist /\ phase' = phase /\ phase = "solve" /\ outWork = {}
      /\ pending' = pending \ {c} /\ current' = c /\ outWork' = UNION {OutNodes(graph) : graph \in c}
      /\ outWeight' = outWeight /\ merged' = merged /\ result' = result /\ CalleesFinished(c)
  BY DEF StartComponent, saturationVars
<1>2. /\ IntraGraphs' = IntraGraphs /\ \A graph : OutNodes(graph)' = OutNodes(graph)
      /\ \A a, b : Feeds(a, b)' <=> Feeds(a, b)
      /\ \A graph : Solution(graph)' = Solution(graph)
  BY <1>1, GraphStays, SolutionStays
<1>3. /\ worklist = {} /\ DOMAIN merged = hyper /\ \A h \in hyper : merged[h] \in Weight
      /\ UNION pending \subseteq IntraGraphs /\ current \subseteq IntraGraphs
      /\ \A n \in DOMAIN outWeight : n \in trans /\ outWeight[n] \in Weight
      /\ result = << >>
  BY <1>1 DEF SolveInv, SolveType
<1>4. SolveType'
  <2>1. UNION {OutNodes(graph) : graph \in c}' = UNION {OutNodes(graph) : graph \in c}
    BY <1>2
  <2>2. outWork' \subseteq UNION {OutNodes(graph)' : graph \in current'}
    BY <1>1, <1>2
  <2> QED
    BY <1>1, <1>2, <1>3, <2>2 DEF SolveType
<1>5. CalleesFirst'
  <2> SUFFICES ASSUME NEW a \in (UNION pending') \cup c, NEW b \in IntraGraphs \ UNION pending', Feeds(a, b)
               PROVE  {a, b} \subseteq c \ UNION pending'
    BY <1>1, <1>2 DEF CalleesFirst
  <2>1. a \in UNION pending
    BY <1>1
  <2>2. b \in UNION pending
    BY <2>1, <1>1 DEF SolveInv, CalleesFirst
  <2>3. b \in c
    BY <2>2, <1>1
  <2>4. \A d \in pending : a \in d => d = c
    BY <2>3, <1>1 DEF CalleesFinished
  <2> QED
    BY <2>1, <2>3, <2>4, <1>1
<1>6. Settled'
  <2>1. \A h \in hyper : h[2] \in DOMAIN outWeight' =>
           merged'[h] = LET r == returns'[h[1]].rule
                        IN  Merge(One, r.weight, outWeight'[h[2]], r.callee)
    BY <1>1 DEF SolveInv, Settled
  <2>2. ASSUME NEW graph \in IntraGraphs \ UNION pending', NEW n \in OutNodes(graph) \ outWork'
        PROVE  n \in DOMAIN outWeight /\ outWeight[n] = Solution(graph)[n]
    <3>1. graph \notin c
      BY <2>2, <1>1
    <3>2. graph \in IntraGraphs \ UNION pending
      BY <2>2, <3>1, <1>1
    <3>3. n \in OutNodes(graph) \ outWork
      BY <2>2, <1>1
    <3> QED
      BY <3>2, <3>3, <1>1 DEF SolveInv, Settled
  <2> QED
    BY <2>1, <2>2, <1>1, <1>2 DEF Settled
<1> QED
  BY <1>4, <1>5, <1>6 DEF SolveInv

\* Propagating an out node: only graphs of the component being saturated use its
\* weight, and their out nodes are on the worklist again.
LEMMA PropagateKeeps ==
    ASSUME SaturationInv, SolveInv, NEW n \in outWork, Propagate(n)
    PROVE  SolveInv'
<1> DEFINE graph == CHOOSE graph \in current : n \in graph
           solved == Solution(graph)[n]
           Given(h) == LET r == returns[h[1]].rule IN Merge(One, r.weight, solved, r.callee)
<1>1. /\ UNCHANGED <<trans, sources, intra, returns, hyper>>
      /\ worklist' = worklist /\ phase' = phase /\ phase = "solve"
      /\ pending' = pending /\ current' = current /\ result' = result
  BY DEF Propagate, saturationVars
<1>2. /\ IntraGraphs' = IntraGraphs /\ \A g : OutNodes(g)' = OutNodes(g)
      /\ \A a, b : Feeds(a, b)' <=> Feeds(a, b)
  BY <1>1, GraphStays
<1>3. /\ worklist = {} /\ DOMAIN merged = hyper /\ \A h \in hyper : merged[h] \in Weight
      /\ UNION pending \subseteq IntraGraphs /\ current \subseteq IntraGraphs
      /\ outWork \subseteq UNION {OutNodes(g) : g \in current}
      /\ \A m \in DOMAIN outWeight : m \in trans /\ outWeight[m] \in Weight
      /\ result = << >>
  BY <1>1 DEF SolveInv, SolveType
<1>4. graph \in current /\ n \in graph /\ n \in {h[2] : h \in hyper} /\ graph \in IntraGraphs
  <2>1. PICK g \in current : n \in OutNodes(g)
    BY <1>3
  <2>2. n \in g /\ n \in {h[2] : h \in hyper}
    BY <2>1 DEF OutNodes
  <2> QED
    BY <2>1, <2>2, <1>3
<1>5. ASSUME NEW g \in IntraGraphs, n \in g PROVE g = graph
  BY <1>4, <1>5, GraphFacts DEF IntraGraphs
<1>6. solved \in Weight /\ n \in trans
  <2>1. \A h \in hyper : h[2] \in trans
    BY DEF SaturationInv, OneCallEach
  <2> QED
    BY <2>1, <1>3, <1>4, SolutionFacts DEF MergedType
<1>7. \/ /\ Propagated(n, solved) /\ outWork' = outWork \ {n} /\ outWeight' = outWeight /\ merged' = merged
      \/ /\ outWork' = (outWork \ {n}) \cup ToRedo(n)
         /\ outWeight' = [m \in DOMAIN outWeight \cup {n} |-> IF m = n THEN solved ELSE outWeight[m]]
         /\ merged' = [h \in hyper |-> IF h[2] = n THEN Given(h) ELSE merged[h]]
  BY DEF Propagate
<1> HIDE DEF graph, solved
<1>8. CalleesFirst'
  BY <1>1, <1>2 DEF SolveInv, CalleesFirst
<1>9. CASE /\ Propagated(n, solved) /\ outWork' = outWork \ {n} /\ outWeight' = outWeight /\ merged' = merged
  <2>1. \A g : Solution(g)' = Solution(g)
    BY <1>1, <1>9, SolutionStays
  <2>2. outWork' \subseteq UNION {OutNodes(g)' : g \in current'}
    BY <1>1, <1>2, <1>3, <1>9
  <2>3. SolveType'
    BY <1>1, <1>2, <1>3, <1>9, <2>2 DEF SolveType
  <2>4. n \in DOMAIN outWeight /\ outWeight[n] = solved
    BY <1>9 DEF Propagated
  <2>5. ASSUME NEW g \in IntraGraphs \ UNION pending, NEW m \in OutNodes(g) \ outWork'
        PROVE  m \in DOMAIN outWeight /\ outWeight[m] = Solution(g)[m]
    <3>1. CASE m = n
      BY <3>1, <1>5, <2>4 DEF OutNodes, solved
    <3>2. CASE m # n
      BY <3>2, <1>1, <1>9 DEF SolveInv, Settled
    <3> QED
      BY <3>1, <3>2
  <2>6. Settled'
    BY <2>1, <2>5, <1>1, <1>2, <1>9 DEF SolveInv, Settled
  <2> QED
    BY <2>3, <2>6, <1>8 DEF SolveInv
<1>10. CASE /\ outWork' = (outWork \ {n}) \cup ToRedo(n)
            /\ outWeight' = [m \in DOMAIN outWeight \cup {n} |-> IF m = n THEN solved ELSE outWeight[m]]
            /\ merged' = [h \in hyper |-> IF h[2] = n THEN Given(h) ELSE merged[h]]
  <2>1. ToRedo(n) \subseteq UNION {OutNodes(g) : g \in current}
    BY DEF ToRedo
  <2>2. outWork' \subseteq UNION {OutNodes(g)' : g \in current'}
    BY <2>1, <1>1, <1>2, <1>3, <1>10
  <2>3. SolveType'
    <3>1. ASSUME NEW h \in hyper PROVE merged'[h] \in Weight
      <4>1. PICK t \in trans, r \in program : returns[h[1]].rule = r
        BY DEF SaturationInv, OneCallEach, RulesFrom
      <4>2. r.weight \in Weight /\ r.callee \in Functions /\ One \in Weight
        BY LoadedRules DEF SaturationInv, SaturationType, RulesWellFormed, One, IdentityOn, Weight
      <4>3. Given(h) \in Weight
        BY <4>1, <4>2, <1>6, MergeType
      <4> HIDE DEF Given
      <4> QED
        BY <4>3, <1>3, <1>10
    <3> QED
      BY <3>1, <1>1, <1>2, <1>3, <1>6, <1>10, <2>2 DEF SolveType
  <2>4. ASSUME NEW h \in hyper, h[2] \in DOMAIN outWeight'
        PROVE  merged'[h] = LET r == returns[h[1]].rule IN Merge(One, r.weight, outWeight'[h[2]], r.callee)
    <3>1. CASE h[2] = n
      BY <3>1, <1>10
    <3>2. CASE h[2] # n
      BY <3>2, <2>4, <1>1, <1>10 DEF SolveInv, Settled
    <3> QED
      BY <3>1, <3>2
  <2>5. ASSUME NEW g \in IntraGraphs \ UNION pending, NEW m \in OutNodes(g) \ outWork'
        PROVE  m \in DOMAIN outWeight' /\ outWeight'[m] = Solution(g)'[m]
    <3>1. ASSUME NEW h \in hyper, h[2] = n PROVE Closure(h) \notin g
      <4>1. SUFFICES ASSUME Closure(h) \in g PROVE FALSE
        OBVIOUS
      <4>2. Feeds(graph, g)
        BY <3>1, <4>1, <1>4 DEF Feeds
      <4>3. g \in current
        BY <4>2, <1>1, <1>4 DEF SolveInv, CalleesFirst
      <4>4. OutNodes(g) \subseteq ToRedo(n)
        BY <3>1, <4>1, <4>3 DEF ToRedo
      <4> QED
        BY <4>4, <2>5, <1>10
    <3>2. Solution(g)' = Solution(g)
      <4>1. \A h \in hyper : Closure(h) \in g => merged'[h] = merged[h]
        BY <3>1, <1>10
      <4> QED
        BY <4>1, <1>1, SolutionStays
    <3>3. CASE m = n
      BY <3>2, <3>3, <1>5, <1>10 DEF OutNodes, solved
    <3>4. CASE m # n
      BY <3>2, <3>4, <1>1, <1>10 DEF SolveInv, Settled
    <3> QED
      BY <3>3, <3>4
  <2>6. Settled'
    BY <2>4, <2>5, <1>1, <1>2 DEF Settled
  <2> QED
    BY <2>3, <2>6, <1>8 DEF SolveInv
<1> QED
  BY <1>7, <1>9, <1>10

\* Coming to the result.
LEMMA FinishKeeps ==
    ASSUME SaturationInv, SolveInv, Finish
    PROVE  SolveInv'
<1>1. /\ UNCHANGED <<trans, sources, intra, returns, hyper>>
      /\ worklist' = worklist /\ phase' = "done" /\ phase = "solve" /\ pending = {} /\ outWork = {}
      /\ pending' = pending /\ current' = current /\ outWork' = outWork
      /\ outWeight' = outWeight /\ merged' = merged
      /\ result' = ReadResult(NodeWeights, PathSummary(NodeWeights))
  BY DEF Finish, saturationVars
<1>2. /\ IntraGraphs' = IntraGraphs /\ \A g : OutNodes(g)' = OutNodes(g)
      /\ \A a, b : Feeds(a, b)' <=> Feeds(a, b)
      /\ \A g : Solution(g)' = Solution(g)
  BY <1>1, GraphStays, SolutionStays
<1>3. result' = ReadResult(NodeWeights, PathSummary(NodeWeights))'
  BY <1>1, ResultStays
<1>4. SolveType'
  BY <1>1, <1>2, <1>3 DEF SolveInv, SolveType
<1>5. CalleesFirst'
  BY <1>1, <1>2 DEF SolveInv, CalleesFirst
<1>6. Settled'
  BY <1>1, <1>2 DEF SolveInv, Settled
<1> QED
  BY <1>4, <1>5, <1>6 DEF SolveInv

\* What leaves the engine alone keeps its invariant.
LEMMA SolveStays ==
    ASSUME SolveInv, UNCHANGED <<saturationVars, phase, solveVars>>
    PROVE  SolveInv'
<1>1. /\ UNCHANGED <<trans, sources, intra, returns, hyper>>
      /\ worklist' = worklist /\ phase' = phase /\ pending' = pending /\ current' = current
      /\ outWork' = outWork /\ outWeight' = outWeight /\ merged' = merged /\ result' = result
  BY DEF saturationVars, solveVars
<1>2. /\ IntraGraphs' = IntraGraphs /\ \A g : OutNodes(g)' = OutNodes(g)
      /\ \A a, b : Feeds(a, b)' <=> Feeds(a, b)
      /\ \A g : Solution(g)' = Solution(g)
  BY <1>1, GraphStays, SolutionStays
<1>3. ReadResult(NodeWeights, PathSummary(NodeWeights))' = ReadResult(NodeWeights, PathSummary(NodeWeights))
  BY <1>1, ResultStays
<1>4. SolveType'
  <2>1. phase # "saturate" => outWork' \subseteq UNION {OutNodes(g)' : g \in current'}
    BY <1>1, <1>2 DEF SolveInv, SolveType
  <2> QED
    BY <1>1, <1>2, <1>3, <2>1 DEF SolveInv, SolveType, solveVars
<1>5. CalleesFirst'
  BY <1>1, <1>2 DEF SolveInv, CalleesFirst
<1>6. Settled'
  BY <1>1, <1>2 DEF SolveInv, Settled
<1> QED
  BY <1>4, <1>5, <1>6 DEF SolveInv

\* The invariants of both phases hold in the beginning.
LEMMA EngineStarts == EngineInit => SaturationInv /\ SolveInv
<1> SUFFICES ASSUME EngineInit PROVE SaturationInv /\ SolveInv
  OBVIOUS
<1>1. SaturationInv
  BY SaturationStarts DEF EngineInit
<1>2. SolveInv
  BY DEF EngineInit, SolveInv, SolveType, CalleesFirst, Settled, solveVars
<1> QED
  BY <1>1, <1>2

\* Every step of the engine keeps its invariant.
LEMMA EngineKeeps ==
    ASSUME SaturationInv, SolveInv, EngineNext
    PROVE  SaturationInv' /\ SolveInv'
<1>1. CASE phase = "saturate" /\ Saturate /\ UNCHANGED <<phase, solveVars>>
  <2>1. SaturationInv'
    BY <1>1, PostSymbolKeeps, PostEpsilonKeeps DEF Saturate
  <2>2. SolveInv'
    BY <1>1 DEF SolveInv, SolveType, CalleesFirst, Settled, solveVars
  <2> QED
    BY <2>1, <2>2
<1>2. CASE StartSolve
  BY <1>2, StartSolveKeeps, SaturationStays DEF StartSolve
<1>3. ASSUME NEW c \in pending, StartComponent(c) PROVE SaturationInv' /\ SolveInv'
  BY <1>3, StartComponentKeeps, SaturationStays DEF StartComponent
<1>4. ASSUME NEW n \in outWork, Propagate(n) PROVE SaturationInv' /\ SolveInv'
  BY <1>4, PropagateKeeps, SaturationStays DEF Propagate
<1>5. CASE Finish
  BY <1>5, FinishKeeps, SaturationStays DEF Finish
<1> QED
  BY <1>1, <1>2, <1>3, <1>4, <1>5 DEF EngineNext

\* In the result, every hyper edge carries the whole weight that its callee has.
LEMMA DoneFacts ==
    ASSUME SaturationInv, SolveInv, phase = "done"
    PROVE  /\ worklist = {} /\ result = ReadResult(NodeWeights, PathSummary(NodeWeights))
           /\ \A h \in hyper : merged[h] =
                 LET r == returns[h[1]].rule IN Merge(One, r.weight, NodeWeights[h[2]], r.callee)
<1>1. worklist = {} /\ pending = {} /\ outWork = {} /\ result = ReadResult(NodeWeights, PathSummary(NodeWeights))
  BY DEF SolveInv, SolveType
<1>2. ASSUME NEW h \in hyper
      PROVE  merged[h] = LET r == returns[h[1]].rule IN Merge(One, r.weight, NodeWeights[h[2]], r.callee)
  <2> DEFINE n == h[2]
  <2>1. n \in Nodes
    BY EndsAreNodes
  <2>2. /\ GraphOf(n) \in IntraGraphs /\ NodeWeights[n] = Solution(GraphOf(n))[n] /\ n \in GraphOf(n)
    BY <2>1, NodeWeightsOfGraphs, GraphFacts, SolvingMerges
  <2>3. n \in OutNodes(GraphOf(n))
    BY <2>2 DEF OutNodes
  <2>4. n \in DOMAIN outWeight /\ outWeight[n] = Solution(GraphOf(n))[n]
    BY <1>1, <2>2, <2>3 DEF SolveInv, Settled
  <2> QED
    BY <2>2, <2>4 DEF SolveInv, Settled
<1> QED
  BY <1>1, <1>2

-----------------------------------------------------------------------------
(* The path at its start.                                                  *)

\* The program waits for the engine at Start, with no open call.
AtStart == point = Start /\ frames = << >> /\ weight = One /\ prefix = One

\* There the engine accepts its stack and counts its weight.
LEMMA AtStartCounted ==
    SaturationInv /\ SolveInv /\ AtStart => PathType /\ StackAccepted /\ PathCounted
<1> SUFFICES ASSUME SaturationInv, SolveInv, AtStart PROVE PathType /\ StackAccepted /\ PathCounted
  OBVIOUS
<1>1. Len(frames) = 0 /\ frames \in Seq([rule : program, before : Weight, prefix : Weight])
      /\ Context = Accept
  <2>1. Len(frames) = 0 /\ frames \in Seq([rule : program, before : Weight, prefix : Weight])
    BY EmptySeq DEF AtStart
  <2> QED
    BY <2>1 DEF Context, Entered
<1>2. One \in Weight
  BY DEF One, IdentityOn, Weight
<1>3. PathType
  BY <1>1, <1>2, ProgramsType DEF AtStart, PathType
<1>4. InitialTransition \in trans /\ InitialTransition \in sources /\ InitialTransition = <<P, point, Context>>
  BY <1>1 DEF SaturationInv, SaturationType, AllHandled, InitialTransition, AtStart
<1>5. StackAccepted
  BY <1>1, <1>4 DEF StackAccepted
<1>6. ASSUME phase = "done" PROVE PathCounted
  <2>0. phase # "saturate"
    BY <1>6
  <2>1. One \subseteq NodeWeights[InitialTransition] /\ One \subseteq PathSummary(NodeWeights)[Accept]
    BY <1>4, <2>0, NodeWeightsOfGraphs, NodeWeightsFacts, SummaryFacts, SolvingMerges
  <2> QED
    BY <1>1, <1>4, <2>1 DEF PathCounted, AtStart
<1> QED
  BY <1>3, <1>5, <1>6 DEF PathCounted

-----------------------------------------------------------------------------
(* The path under way.                                                     *)

\* Everything that the steps of a path need: where it is in the automaton, and
\* what its weights are in.
LEMMA Underway ==
    ASSUME AnalyserInv, phase = "done", NEW r \in RulesFrom(point)
    PROVE  LET t == <<P, point, Context>>
               sol == NodeWeights
               sum == PathSummary(sol)
           IN  /\ RulesWellFormed /\ r \in program /\ r.from = point
               /\ t \in trans /\ t \in PTransition /\ trans \subseteq PTransition
               /\ r \in RulesFrom(t[2]) /\ Handled(t, r)
               /\ sol \in [Nodes -> Weight] /\ sum \in [EnteredStates -> Weight]
               /\ weight \in Weight /\ weight \subseteq sol[t] /\ r.weight \in Weight
               /\ prefix \in Weight /\ prefix \subseteq sum[Context]
               /\ frames \in Seq([rule : program, before : Weight, prefix : Weight])
<1>1. RulesWellFormed /\ trans \subseteq PTransition
  BY LoadedRules DEF AnalyserInv, SaturationInv, SaturationType
<1>2. r \in program /\ r.from = point
  BY DEF RulesFrom
<1>3. <<P, point, Context>> \in trans
  BY DEF AnalyserInv, StackAccepted
<1>4. Handled(<<P, point, Context>>, r)
  <2>1. worklist = {}
    BY DoneFacts DEF AnalyserInv
  <2> QED
    BY <1>3, <2>1 DEF AnalyserInv, SaturationInv, AllHandled
<1>5. NodeWeights \in [Nodes -> Weight] /\ PathSummary(NodeWeights) \in [EnteredStates -> Weight]
  BY NodeWeightsOfGraphs, SummaryFacts, SolvingMerges DEF AnalyserInv
<1>6. weight \subseteq NodeWeights[<<P, point, Context>>] /\ prefix \subseteq PathSummary(NodeWeights)[Context]
  BY DEF AnalyserInv, PathCounted
<1> QED
  BY <1>1, <1>2, <1>3, <1>4, <1>5, <1>6 DEF AnalyserInv, PathType, RulesWellFormed

\* The engine's part of the state does not change under the program.
LEMMA EngineStill ==
    ASSUME UNCHANGED <<saturationVars, phase, solveVars>>
    PROVE  /\ trans' = trans /\ returns' = returns /\ hyper' = hyper /\ phase' = phase
           /\ NodeWeights' = NodeWeights
           /\ PathSummary(NodeWeights)' = PathSummary(NodeWeights)
           /\ Nodes' = Nodes
BY ResultStays, GraphStays DEF saturationVars, solveVars

\* A step inside the activation, or the return of the outermost one: the edge from
\* the node of the point carries the weight of the rule.
LEMMA StayKeeps ==
    ASSUME AnalyserInv, phase = "done", UNCHANGED <<saturationVars, phase, solveVars>>,
           NEW r \in RulesFrom(point), ~IsPush(r), program' = program,
           NEW q, point' = q, Target(<<P, point, Context>>, r) = <<P, q, Context>>,
           q \in Symbols \cup {Epsilon},
           weight' = Extend(weight, r.weight), UNCHANGED <<frames, prefix>>
    PROVE  (PathType /\ StackAccepted /\ PathCounted)'
<1> DEFINE t == <<P, point, Context>>
           u == <<P, q, Context>>
           sol == NodeWeights
           sum == PathSummary(NodeWeights)
<1>1. /\ RulesWellFormed /\ r \in program /\ t \in trans /\ Handled(t, r)
      /\ sol \in [Nodes -> Weight] /\ weight \subseteq sol[t] /\ prefix \in Weight /\ prefix \subseteq sum[Context]
      /\ weight \in Weight /\ r.weight \in Weight
      /\ frames \in Seq([rule : program, before : Weight, prefix : Weight])
  BY Underway
<1>2. u \in trans /\ <<t, u, r.weight>> \in intra
  BY <1>1 DEF Handled
<1>3. weight' \subseteq sol[u]
  <2> DEFINE e == <<t, u, r.weight>>
  <2>1. Extend(sol[e[1]], e[3]) \subseteq sol[e[2]]
    BY <1>2, NodeWeightsFacts, SolvingMerges DEF AnalyserInv
  <2>2. Extend(weight, r.weight) \subseteq Extend(sol[t], r.weight)
    BY <1>1, ExtendMonotone
  <2> QED
    BY <2>1, <2>2
<1>4. weight' \in Weight
  BY <1>1, ExtendType
<1>5. /\ trans' = trans /\ returns' = returns /\ phase' = phase
      /\ NodeWeights' = sol /\ PathSummary(NodeWeights)' = sum
  BY EngineStill
<1>6. Context' = Context /\ \A i : Entered(i)' = Entered(i)
  BY DEF Context, Entered
<1>7. PathType'
  BY <1>1, <1>4, <1>5 DEF AnalyserInv, PathType
<1>8. StackAccepted'
  BY <1>2, <1>5, <1>6 DEF AnalyserInv, StackAccepted
<1>9. PathCounted'
  <2> HIDE DEF sol, sum
  <2> QED
    BY <1>1, <1>3, <1>5, <1>6 DEF AnalyserInv, PathCounted, sol, sum
<1> QED
  BY <1>7, <1>8, <1>9

\* A call: its return transition is there, and what the caller had is in front of it.
LEMMA PushKeeps ==
    ASSUME AnalyserInv, phase = "done", UNCHANGED <<saturationVars, phase, solveVars>>,
           NEW r \in program, TakePush(r)
    PROVE  (PathType /\ StackAccepted /\ PathCounted)'
<1> DEFINE t == <<P, point, Context>>
           u == <<P, r.to[1], GenState(r.to[1])>>
           ret == <<GenState(r.to[1]), r.to[2], Context>>
           frame == [rule |-> r, before |-> weight, prefix |-> prefix]
           sol == NodeWeights
           sum == PathSummary(NodeWeights)
           Frame == [rule : program, before : Weight, prefix : Weight]
<1>1. /\ r \in RulesFrom(point) /\ program' = program /\ IsPush(r) /\ point' = r.to[1]
      /\ frames' = Append(frames, frame) /\ weight' = One
      /\ prefix' = Extend(prefix, Extend(weight, r.weight))
  BY DEF TakePush, Take
<1>2. /\ RulesWellFormed /\ t \in trans /\ t \in PTransition /\ trans \subseteq PTransition
      /\ r \in RulesFrom(t[2]) /\ r.from = point /\ Handled(t, r)
      /\ sol \in [Nodes -> Weight] /\ weight \in Weight /\ weight \subseteq sol[t]
      /\ prefix \in Weight /\ prefix \subseteq sum[Context] /\ r.weight \in Weight
      /\ frames \in Seq(Frame)
  BY <1>1, Underway
<1>3. /\ u \in trans /\ u \in sources /\ ret \in DOMAIN returns /\ ReturnOf(t, r) = ret
  BY <1>1, <1>2, TargetType DEF Handled, ReturnOf
<1>4. One \subseteq sol[u]
  BY <1>3, NodeWeightsFacts, SolvingMerges DEF AnalyserInv
<1>5. returns[ret] = [call |-> t, weight |-> r.weight, rule |-> r]
  <2>1. PICK v \in trans, q \in program :
           /\ q \in RulesFrom(v[2]) /\ IsPush(q) /\ ret = ReturnOf(v, q)
           /\ returns[ret] = [call |-> v, weight |-> q.weight, rule |-> q]
    BY <1>3 DEF AnalyserInv, SaturationInv, OneCallEach, RulesFrom
  <2> QED
    BY <2>1, <1>1, <1>2, <1>3, ReturnUnique
<1>6. prefix' \subseteq sum[GenState(r.to[1])]
  <2>1. Extend(sum[ret[3]], GetWeight(sol, ret)) \subseteq sum[ret[1]]
    BY <1>2, <1>3, SummaryFacts DEF AnalyserInv
  <2>2. GetWeight(sol, ret) = Extend(sol[t], r.weight)
    BY <1>3, <1>5 DEF GetWeight
  <2>3. Extend(weight, r.weight) \subseteq Extend(sol[t], r.weight)
    BY <1>2, ExtendMonotone
  <2>4. Extend(prefix, Extend(weight, r.weight)) \subseteq Extend(sum[Context], Extend(sol[t], r.weight))
    BY <1>2, <2>3, ExtendMonotone
  <2> QED
    BY <1>1, <2>1, <2>2, <2>4
<1>7. /\ trans' = trans /\ returns' = returns /\ phase' = phase
      /\ NodeWeights' = sol /\ PathSummary(NodeWeights)' = sum
  BY EngineStill
<1>8. frame \in Frame
  BY <1>2
<1> HIDE DEF frame
<1>9. PICK n \in Nat : n = Len(frames)
  BY <1>2
<1>10. /\ frames' \in Seq(Frame) /\ Len(frames') = n + 1 /\ n \in Nat
       /\ \A i \in 1 .. n : frames'[i] = frames[i]
       /\ frames'[n + 1] = frame
  <2>1. frames \in Seq(Frame) /\ frame \in Frame /\ frames' = Append(frames, frame)
    BY <1>1, <1>2, <1>8
  <2> HIDE DEF Frame
  <2> QED
    BY <2>1, <1>9
<1>11. frames'[n + 1].rule = r /\ frames'[n + 1].before = weight /\ frames'[n + 1].prefix = prefix
  BY <1>10 DEF frame
<1>12. /\ \A i \in 0 .. n : Entered(i)' = Entered(i)
       /\ Entered(n + 1)' = GenState(r.to[1]) /\ Context' = GenState(r.to[1]) /\ Entered(n) = Context
  <2>1. Entered(n + 1)' = GenState(r.to[1])
    <3>1. n + 1 # 0
      BY <1>9
    <3> QED
      BY <3>1, <1>11 DEF Entered
  <2>2. ASSUME NEW i \in 0 .. n PROVE Entered(i)' = Entered(i)
    <3>1. i = 0 \/ i \in 1 .. n
      BY <1>10
    <3> QED
      BY <3>1, <1>10 DEF Entered
  <2> QED
    BY <2>1, <2>2, <1>9, <1>10 DEF Context
<1> HIDE DEF sol, sum
<1>13. PathType'
  <2>1. One \in Weight /\ prefix' \in Weight
    <3>1. One \in Weight
      BY DEF One, IdentityOn, Weight
    <3>2. Extend(weight, r.weight) \in Weight
      BY <1>2, ExtendType
    <3>3. Extend(prefix, Extend(weight, r.weight)) \in Weight
      BY <1>2, <3>2, ExtendType
    <3> QED
      BY <3>1, <3>3, <1>1
  <2>2. r.to[1] \in Symbols
    BY <1>1, <1>2 DEF RulesWellFormed
  <2>3. \A i \in 1 .. n + 1 : IsPush(frames'[i].rule)
    <3>1. \A i \in 1 .. n : IsPush(frames[i].rule)
      BY <1>9 DEF AnalyserInv, PathType
    <3>2. ASSUME NEW i \in 1 .. n + 1 PROVE i \in 1 .. n \/ i = n + 1
      BY <1>10
    <3> QED
      BY <3>1, <3>2, <1>1, <1>10 DEF frame
  <2> QED
    BY <2>1, <2>2, <2>3, <1>1, <1>7, <1>10 DEF PathType
<1>14. StackAccepted'
  <2>1. ASSUME NEW i \in 1 .. n + 1
        PROVE  <<Entered(i)', frames'[i].rule.to[2], Entered(i - 1)'>> \in DOMAIN returns
    <3>1. CASE i = n + 1
      <4>1. i - 1 = n /\ n \in 0 .. n
        BY <3>1, <1>10
      <4>2. Entered(i)' = GenState(r.to[1])
        BY <3>1, <1>12
      <4>3. Entered(i - 1)' = Entered(i - 1)
        BY <4>1, <1>12
      <4>4. Entered(i - 1) = Context
        BY <4>1, <1>12
      <4> QED
        BY <3>1, <4>2, <4>3, <4>4, <1>3, <1>11
    <3>2. CASE i # n + 1
      <4>1. i \in 1 .. n /\ i \in 0 .. n /\ i - 1 \in 0 .. n
        BY <3>2, <1>10
      <4>2. <<Entered(i), frames[i].rule.to[2], Entered(i - 1)>> \in DOMAIN returns
        BY <4>1, <1>9 DEF AnalyserInv, StackAccepted
      <4> QED
        BY <4>1, <4>2, <1>10, <1>12
    <3> QED
      BY <3>1, <3>2
  <2> QED
    BY <2>1, <1>1, <1>3, <1>7, <1>10, <1>12 DEF StackAccepted
<1>15. PathCounted'
  <2>1. ASSUME NEW i \in 1 .. n + 1
        PROVE  /\ frames'[i].before \subseteq sol[<<P, frames'[i].rule.from, Entered(i - 1)'>>]
               /\ frames'[i].prefix \subseteq sum[Entered(i - 1)']
    <3>1. CASE i = n + 1
      <4>1. i - 1 = n /\ n \in 0 .. n
        BY <3>1, <1>10
      <4>2. Entered(i - 1)' = Entered(i - 1)
        BY <4>1, <1>12
      <4>3. Entered(i - 1) = Context
        BY <4>1, <1>12
      <4> QED
        BY <3>1, <4>2, <4>3, <1>2, <1>11
    <3>2. CASE i # n + 1
      <4>1. i \in 1 .. n /\ i - 1 \in 0 .. n
        BY <3>2, <1>10
      <4>2. /\ frames[i].before \subseteq sol[<<P, frames[i].rule.from, Entered(i - 1)>>]
            /\ frames[i].prefix \subseteq sum[Entered(i - 1)]
        BY <4>1, <1>9 DEF AnalyserInv, PathCounted, sol, sum
      <4> QED
        BY <4>1, <4>2, <1>10, <1>12
    <3> QED
      BY <3>1, <3>2
  <2> QED
    BY <2>1, <1>1, <1>4, <1>6, <1>7, <1>10, <1>12 DEF PathCounted
<1> QED
  BY <1>13, <1>14, <1>15

\* A return: the epsilon transition of the callee and the return transition of the
\* call meet in a hyper edge, which carries the callee's weight through the merge
\* function of that call.
LEMMA ReturnKeeps ==
    ASSUME AnalyserInv, phase = "done", UNCHANGED <<saturationVars, phase, solveVars>>,
           NEW r \in program, TakePop(r), Len(frames) # 0
    PROVE  (PathType /\ StackAccepted /\ PathCounted)'
<1> DEFINE t == <<P, point, Context>>
           e == <<P, Epsilon, Context>>
           summary == Extend(weight, r.weight)
           frame == frames[Len(frames)]
           q == frame.rule
           back == Entered(Len(frames) - 1)
           ret == <<Context, q.to[2], back>>
           h == <<ret, e>>
           u == <<P, q.to[2], back>>
           sol == NodeWeights
           sum == PathSummary(NodeWeights)
           Frame == [rule : program, before : Weight, prefix : Weight]
<1>1. /\ r \in RulesFrom(point) /\ program' = program /\ IsPop(r)
      /\ point' = q.to[2] /\ frames' = SubSeq(frames, 1, Len(frames) - 1)
      /\ weight' = Merge(frame.before, q.weight, summary, q.callee)
      /\ prefix' = frame.prefix
  BY DEF TakePop, Take
<1>2. /\ RulesWellFormed /\ t \in trans /\ t \in PTransition /\ trans \subseteq PTransition
      /\ r \in RulesFrom(t[2]) /\ Handled(t, r)
      /\ sol \in [Nodes -> Weight] /\ weight \subseteq sol[t] /\ weight \in Weight /\ r.weight \in Weight
      /\ frames \in Seq(Frame)
  BY <1>1, Underway
<1>3. PICK n \in Nat : n = Len(frames) /\ n # 0
  BY <1>2
<1>4. /\ n \in 1 .. Len(frames) /\ frame \in Frame /\ IsPush(q)
      /\ q \in program /\ frame.before \in Weight /\ frame.prefix \in Weight
      /\ q.weight \in Weight /\ q.callee \in Functions /\ q.to[2] \in Symbols
  <2>1. n \in 1 .. Len(frames)
    BY <1>3
  <2>2. frame \in Frame
    <3>1. frames \in Seq(Frame)
      BY <1>2
    <3> HIDE DEF Frame
    <3>2. \A i \in 1 .. Len(frames) : frames[i] \in Frame
      BY <3>1
    <3> QED
      BY <2>1, <3>2, <1>3
  <2>3. IsPush(q)
    BY <2>1, <1>3 DEF AnalyserInv, PathType
  <2>4. q \in program /\ frame.before \in Weight /\ frame.prefix \in Weight
    BY <2>2
  <2> HIDE DEF frame
  <2>5. q.weight \in Weight /\ q.callee \in Functions /\ q.to[2] \in Symbols
    BY <2>3, <2>4, <1>2 DEF RulesWellFormed
  <2> QED
    BY <2>1, <2>2, <2>3, <2>4, <2>5
<1>5. /\ ret \in DOMAIN returns
      /\ frame.before \subseteq sol[<<P, q.from, back>>] /\ frame.prefix \subseteq sum[back]
  BY <1>3, <1>4 DEF AnalyserInv, StackAccepted, PathCounted, Context
<1>6. Context = GenState(q.to[1])
  BY <1>3 DEF Context, Entered
<1>7. e \in trans /\ <<t, e, r.weight>> \in intra
  <2>1. Target(t, r) = e /\ ~IsPush(r)
    BY <1>1, <1>2, TargetType DEF RulesWellFormed
  <2> QED
    BY <2>1, <1>2 DEF Handled
<1> HIDE DEF sol, sum, frame, back
<1>8. summary \subseteq sol[e] /\ summary \in Weight /\ sol[e] \in Weight
  <2> DEFINE edge == <<t, e, r.weight>>
  <2>1. Extend(sol[edge[1]], edge[3]) \subseteq sol[edge[2]]
    BY <1>7, NodeWeightsFacts, SolvingMerges DEF AnalyserInv, sol
  <2>2. Extend(weight, r.weight) \subseteq Extend(sol[t], r.weight)
    BY <1>2, ExtendMonotone
  <2>3. e \in Nodes
    BY <1>7 DEF Nodes
  <2> QED
    BY <2>1, <2>2, <2>3, <1>2, ExtendType
<1>9. h \in hyper /\ Closure(h) = u /\ u \in trans
  <2>1. worklist = {}
    BY DoneFacts DEF AnalyserInv
  <2>2. h \in hyper
    BY <2>1, <1>5, <1>7 DEF AnalyserInv, SaturationInv, AllHandled
  <2> QED
    BY <2>2 DEF AnalyserInv, SaturationInv, OneCallEach, Closure
<1>10. /\ returns[ret].rule = q /\ <<<<P, q.from, back>>, ret, One>> \in intra
       /\ <<P, q.from, back>> \in Nodes /\ ret \in Nodes
  <2>1. PICK v \in trans, p \in program :
           /\ p \in RulesFrom(v[2]) /\ IsPush(p) /\ ret = ReturnOf(v, p)
           /\ returns[ret] = [call |-> v, weight |-> p.weight, rule |-> p]
    BY <1>5 DEF AnalyserInv, SaturationInv, OneCallEach, RulesFrom
  <2>2. GenState(p.to[1]) = GenState(q.to[1]) /\ p.to[2] = q.to[2] /\ v[3] = back
    BY <2>1, <1>6 DEF ReturnOf
  <2>3. p = q
    BY <2>1, <2>2, <1>2, <1>4, StateNames DEF RulesWellFormed
  <2>4. v = <<P, q.from, back>>
    BY <2>1, <2>2, <2>3, <1>2, PTransitionParts DEF RulesFrom
  <2>5. Handled(v, p)
    <3>1. worklist = {}
      BY DoneFacts DEF AnalyserInv
    <3> QED
      BY <2>1, <3>1 DEF AnalyserInv, SaturationInv, AllHandled
  <2> QED
    BY <2>1, <2>3, <2>4, <2>5, <1>5 DEF Handled, Nodes
<1>11. frame.before \subseteq sol[ret] /\ sol[ret] \in Weight
  <2> DEFINE edge == <<<<P, q.from, back>>, ret, One>>
  <2>1. Extend(sol[edge[1]], edge[3]) \subseteq sol[edge[2]]
    BY <1>10, NodeWeightsFacts, SolvingMerges DEF AnalyserInv, sol
  <2>2. sol[<<P, q.from, back>>] \in Weight /\ sol[ret] \in Weight
    BY <1>2, <1>10
  <2>3. Extend(sol[<<P, q.from, back>>], One) = sol[<<P, q.from, back>>]
    BY <2>2, ExtendOne
  <2> QED
    BY <2>1, <2>2, <2>3, <1>5
<1>12. weight' \subseteq sol[u]
  <2>1. merged[h] = Merge(One, q.weight, sol[e], q.callee)
    BY <1>9, <1>10, DoneFacts DEF AnalyserInv, sol
  <2>2. Extend(sol[ret], merged[h]) \subseteq sol[u]
    BY <1>9, NodeWeightsFacts, SolvingMerges DEF AnalyserInv, sol
  <2>3. Merge(frame.before, q.weight, summary, q.callee)
            \subseteq Extend(sol[ret], Merge(One, q.weight, sol[e], q.callee))
    BY <1>4, <1>8, <1>11, MergeMonotone
  <2> QED
    BY <2>1, <2>2, <2>3, <1>1
<1>13. /\ trans' = trans /\ returns' = returns /\ phase' = phase
       /\ NodeWeights' = sol /\ PathSummary(NodeWeights)' = sum
  BY EngineStill DEF sol, sum
<1>14. /\ frames' \in Seq(Frame) /\ Len(frames') = n - 1 /\ n - 1 \in Nat
       /\ \A i \in 1 .. n - 1 : frames'[i] = frames[i] /\ i \in 1 .. Len(frames)
  <2>1. \A i \in 1 .. n - 1 : i \in 1 .. Len(frames) /\ frames[i] \in Frame
    <3>1. frames \in Seq(Frame)
      BY <1>2
    <3> HIDE DEF Frame
    <3>2. \A i \in 1 .. Len(frames) : frames[i] \in Frame
      BY <3>1
    <3> QED
      BY <3>2, <1>3
  <2>2. n - 1 \in Int /\ 1 \in Int /\ n - 1 \in Nat
    BY <1>3
  <2> DEFINE s == SubSeq(frames, 1, n - 1)
  <2>3. /\ s \in Seq(Frame) /\ Len(s) = IF 1 <= n - 1 THEN (n - 1) - 1 + 1 ELSE 0
        /\ \A i \in 1 .. (n - 1) - 1 + 1 : s[i] = frames[1 + i - 1]
    <3> HIDE DEF Frame
    <3> QED
      BY <2>1, <2>2, SubSeqProperties
  <2>4. frames' = s
    BY <1>1, <1>3
  <2> HIDE DEF s, Frame
  <2>5. Len(s) = n - 1
    BY <2>2, <2>3
  <2>6. ASSUME NEW i \in 1 .. n - 1 PROVE s[i] = frames[i]
    <3>1. i \in 1 .. (n - 1) - 1 + 1 /\ 1 + i - 1 = i
      BY <2>2
    <3> QED
      BY <3>1, <2>3
  <2> QED
    BY <2>1, <2>2, <2>3, <2>4, <2>5, <2>6
<1>15. (\A i \in 0 .. n - 1 : Entered(i)' = Entered(i)) /\ Context' = back
  <2>1. ASSUME NEW i \in 0 .. n - 1 PROVE Entered(i)' = Entered(i)
    <3>1. i = 0 \/ i \in 1 .. n - 1
      BY <1>14
    <3> QED
      BY <3>1, <1>14 DEF Entered
  <2>2. Context' = Entered(n - 1)'
    BY <1>14 DEF Context, Entered
  <2>3. n - 1 \in 0 .. n - 1
    BY <1>14
  <2>4. Entered(n - 1)' = Entered(n - 1)
    BY <2>1, <2>3
  <2>5. back = Entered(n - 1)
    BY <1>3 DEF back
  <2> QED
    BY <2>1, <2>2, <2>4, <2>5
<1>16. PathType'
  <2>1. weight' \in Weight
    BY <1>1, <1>4, <1>8, MergeType
  <2>2. \A i \in 1 .. n - 1 : IsPush(frames'[i].rule)
    BY <1>14 DEF AnalyserInv, PathType
  <2> QED
    BY <2>1, <2>2, <1>1, <1>4, <1>13, <1>14 DEF PathType
<1>17. StackAccepted'
  <2>1. ASSUME NEW i \in 1 .. n - 1
        PROVE  <<Entered(i)', frames'[i].rule.to[2], Entered(i - 1)'>> \in DOMAIN returns
    <3>1. i \in 0 .. n - 1 /\ i - 1 \in 0 .. n - 1
      BY <1>14
    <3>2. <<Entered(i), frames[i].rule.to[2], Entered(i - 1)>> \in DOMAIN returns
      BY <1>14 DEF AnalyserInv, StackAccepted
    <3> QED
      BY <3>1, <3>2, <1>14, <1>15
  <2>2. <<P, point', Context'>> \in trans
    BY <1>1, <1>9, <1>15
  <2> QED
    BY <2>1, <2>2, <1>13, <1>14 DEF StackAccepted
<1>18. PathCounted'
  <2>1. ASSUME NEW i \in 1 .. n - 1
        PROVE  /\ frames'[i].before \subseteq sol[<<P, frames'[i].rule.from, Entered(i - 1)'>>]
               /\ frames'[i].prefix \subseteq sum[Entered(i - 1)']
    <3>1. i - 1 \in 0 .. n - 1
      BY <1>14
    <3>2. /\ frames[i].before \subseteq sol[<<P, frames[i].rule.from, Entered(i - 1)>>]
          /\ frames[i].prefix \subseteq sum[Entered(i - 1)]
      BY <1>14 DEF AnalyserInv, PathCounted, sol, sum
    <3> QED
      BY <3>1, <3>2, <1>14, <1>15
  <2>2. weight' \subseteq sol[<<P, point', Context'>>] /\ prefix' \subseteq sum[Context']
    BY <1>1, <1>5, <1>12, <1>15
  <2> QED
    BY <2>1, <2>2, <1>13, <1>14 DEF PathCounted
<1> QED
  BY <1>16, <1>17, <1>18

\* Every step of the program keeps the invariant.
LEMMA PathKeeps ==
    ASSUME AnalyserInv, phase = "done", PathNext, UNCHANGED <<saturationVars, phase, solveVars>>
    PROVE  AnalyserInv'
<1>1. SaturationInv' /\ SolveInv'
  <2>1. program' = program
    BY DEF PathNext, TakeStep, TakePush, TakePop, Take
  <2> QED
    BY <2>1, SaturationStays, SolveStays DEF AnalyserInv
<1>2. ASSUME NEW r \in program, TakeStep(r) PROVE (PathType /\ StackAccepted /\ PathCounted)'
  <2> DEFINE t == <<P, point, Context>>
  <2>1. /\ r \in RulesFrom(point) /\ program' = program /\ IsStep(r) /\ point' = r.to[1]
        /\ weight' = Extend(weight, r.weight) /\ UNCHANGED <<frames, prefix>>
    BY <1>2 DEF TakeStep, Take
  <2>2. RulesWellFormed /\ t \in PTransition /\ r \in RulesFrom(t[2])
    BY <2>1, Underway
  <2>3. ~IsPush(r) /\ r.to[1] \in Symbols
    BY <2>1, <2>2 DEF RulesWellFormed
  <2>4. Target(t, r) = <<P, r.to[1], Context>>
    BY <2>1, <2>2, TargetType
  <2> QED
    BY <2>1, <2>3, <2>4, StayKeeps
<1>3. ASSUME NEW r \in program, TakePush(r) PROVE (PathType /\ StackAccepted /\ PathCounted)'
  BY <1>3, PushKeeps
<1>4. ASSUME NEW r \in program, TakePop(r) PROVE (PathType /\ StackAccepted /\ PathCounted)'
  <2>1. CASE Len(frames) = 0
    <3> DEFINE t == <<P, point, Context>>
    <3>1. /\ r \in RulesFrom(point) /\ program' = program /\ IsPop(r) /\ point' = Epsilon
          /\ weight' = Extend(weight, r.weight) /\ UNCHANGED <<frames, prefix>>
      BY <1>4, <2>1 DEF TakePop, Take
    <3>2. RulesWellFormed /\ t \in PTransition /\ r \in RulesFrom(t[2])
      BY <3>1, Underway
    <3>3. ~IsPush(r)
      BY <3>1, <3>2 DEF RulesWellFormed
    <3>4. Target(t, r) = <<P, Epsilon, Context>>
      BY <3>1, <3>2, TargetType
    <3> QED
      BY <3>1, <3>3, <3>4, StayKeeps
  <2>2. CASE Len(frames) # 0
    BY <1>4, <2>2, ReturnKeeps
  <2> QED
    BY <2>1, <2>2
<1>5. (PathType /\ StackAccepted /\ PathCounted)'
  BY <1>2, <1>3, <1>4 DEF PathNext
<1> QED
  BY <1>1, <1>5 DEF AnalyserInv

-----------------------------------------------------------------------------
(* The theorems.                                                           *)

\* AnalyserInv is inductive: saturation leaves every edge in the graph, solving settles
\* every weight, and the program goes along the edges (FWPDS::poststarIGR, InterGraph::saturate).
THEOREM AnalyserInvariant == Spec => []AnalyserInv
<1>1. Init => AnalyserInv
  <2>1. Init => SaturationInv /\ SolveInv /\ AtStart
    BY EngineStarts DEF Init, PathInit, AtStart
  <2> QED
    BY <2>1, AtStartCounted DEF AnalyserInv
<1>2. AnalyserInv /\ phase # "done" => AtStart
  BY DEF AnalyserInv, PathType, AtStart
<1>3. AnalyserInv /\ EngineNext /\ UNCHANGED pathVars => SaturationInv' /\ SolveInv' /\ AtStart'
  <2> SUFFICES ASSUME AnalyserInv, EngineNext, UNCHANGED pathVars
               PROVE  SaturationInv' /\ SolveInv' /\ AtStart'
    OBVIOUS
  <2>1. SaturationInv' /\ SolveInv'
    BY EngineKeeps DEF AnalyserInv
  <2>2. phase # "done"
    <3>1. phase = "done" => pending = {} /\ outWork = {}
      BY DEF AnalyserInv, SolveInv, SolveType
    <3> QED
      BY <3>1 DEF EngineNext, StartSolve, Finish
  <2>3. AtStart'
    BY <2>2, <1>2 DEF AtStart, pathVars
  <2> QED
    BY <2>1, <2>3
<1>4. AnalyserInv /\ phase = "done" /\ PathNext /\ UNCHANGED <<saturationVars, phase, solveVars>> => AnalyserInv'
  BY PathKeeps
<1>5. AnalyserInv /\ UNCHANGED vars => AnalyserInv'
  <2> SUFFICES ASSUME AnalyserInv, UNCHANGED vars PROVE AnalyserInv'
    OBVIOUS
  <2>1. UNCHANGED <<saturationVars, phase, solveVars>> /\ UNCHANGED pathVars /\ program' = program
    BY DEF vars, engineVars
  <2>2. SaturationInv' /\ SolveInv'
    BY <2>1, SaturationStays, SolveStays DEF AnalyserInv
  <2>3. /\ trans' = trans /\ returns' = returns /\ phase' = phase /\ NodeWeights' = NodeWeights
        /\ PathSummary(NodeWeights)' = PathSummary(NodeWeights)
    BY <2>1, EngineStill
  <2>4. point' = point /\ frames' = frames /\ weight' = weight /\ prefix' = prefix
    BY <2>1 DEF pathVars
  <2>5. Context' = Context /\ \A i : Entered(i)' = Entered(i)
    BY <2>4 DEF Context, Entered
  <2>6. PathType'
    BY <2>1, <2>3, <2>4 DEF AnalyserInv, PathType
  <2>7. StackAccepted'
    BY <2>3, <2>4, <2>5 DEF AnalyserInv, StackAccepted
  <2>8. PathCounted'
    BY <2>3, <2>4, <2>5 DEF AnalyserInv, PathCounted
  <2> QED
    BY <2>2, <2>6, <2>7, <2>8 DEF AnalyserInv
<1>6. SaturationInv' /\ SolveInv' /\ AtStart' => PathType' /\ StackAccepted' /\ PathCounted'
  BY AtStartCounted, PTL
<1>7. AnalyserInv /\ [Next]_vars => AnalyserInv'
  <2> SUFFICES ASSUME AnalyserInv, [Next]_vars PROVE AnalyserInv'
    OBVIOUS
  <2>1. CASE EngineNext /\ UNCHANGED pathVars
    BY <2>1, <1>3, <1>6 DEF AnalyserInv
  <2>2. CASE phase = "done" /\ PathNext /\ UNCHANGED <<saturationVars, phase, solveVars>>
    BY <2>2, <1>4
  <2>3. CASE UNCHANGED vars
    BY <2>3, <1>5
  <2> QED
    BY <2>1, <2>2, <2>3 DEF Next
<1> QED
  BY <1>1, <1>7, PTL DEF Spec

\* The automaton and the graph stay well-typed: transitions lead from states to states,
\* edges and hyper edges join transitions that are there.
THEOREM TypeCorrect == Spec => []TypeOK
<1>1. AnalyserInv => TypeOK
  <2> SUFFICES ASSUME AnalyserInv PROVE TypeOK
    OBVIOUS
  <2>1. SaturationInv /\ SolveInv /\ RulesWellFormed /\ trans \subseteq PTransition
    BY LoadedRules DEF AnalyserInv, SaturationInv, SaturationType
  <2>2. \A t \in trans : t \in Transition /\ t[1] = P
    BY <2>1, PTransitionParts DEF PTransition, Transition
  <2>3. worklist \subseteq trans /\ sources \subseteq trans
    BY <2>1 DEF SaturationInv, SaturationType, EdgesOfRules, Handled
  <2>4. ASSUME NEW ret \in DOMAIN returns
        PROVE  /\ ret \in Transition /\ ret[1] # P /\ ret[2] # Epsilon
               /\ returns[ret].call \in trans /\ returns[ret].weight \in Weight
    <3>1. PICK u \in trans, r \in program :
             /\ r \in RulesFrom(u[2]) /\ IsPush(r) /\ ret = ReturnOf(u, r)
             /\ returns[ret] = [call |-> u, weight |-> r.weight, rule |-> r]
      BY <2>1 DEF SaturationInv, OneCallEach, RulesFrom
    <3>2. ret \in {GenState(s) : s \in Symbols} \X Symbols \X States
      BY <2>1, <3>1, TargetType
    <3> QED
      BY <2>1, <3>1, <3>2, StateNames DEF Transition, States, RulesWellFormed
  <2>5. ASSUME NEW e \in intra PROVE {e[1], e[2]} \subseteq Nodes /\ e[3] \in Weight
    <3>1. PICK t \in trans, r \in program :
             e = IF IsPush(r) THEN <<t, ReturnOf(t, r), One>> ELSE <<t, Target(t, r), r.weight>>
      BY <2>1 DEF SaturationInv, EdgesOfRules, RulesFrom
    <3>2. One \in Weight /\ r.weight \in Weight
      BY <2>1 DEF One, IdentityOn, Weight, RulesWellFormed
    <3> QED
      BY <2>1, <3>1, <3>2, EndsAreNodes
  <2>6. \A h \in hyper : h[1] \in DOMAIN returns /\ h[2] \in trans /\ h[2][2] = Epsilon
    BY <2>1 DEF SaturationInv, OneCallEach
  <2>7. DOMAIN merged \subseteq hyper /\ \A h \in DOMAIN merged : merged[h] \in Weight
    BY <2>1 DEF SolveInv, SolveType, solveVars
  <2>8. DOMAIN outWeight \subseteq trans /\ phase \in {"saturate", "solve", "done"}
    BY <2>1 DEF SolveInv, SolveType, solveVars
  <2> QED
    BY <2>2, <2>3, <2>4, <2>5, <2>6, <2>7, <2>8 DEF TypeOK
<1> QED
  BY <1>1, AnalyserInvariant, PTL

\* Post* finds every reachable stack of every program, whatever order the worklists are
\* taken in and however deep the calls go (FWPDS::poststarIGR, WPDS::poststar_handle_trans).
THEOREM EveryStackAccepted == Spec => []StackAccepted
<1>1. AnalyserInv => StackAccepted
  BY DEF AnalyserInv
<1> QED
  BY <1>1, AnalyserInvariant, PTL

\* The result holds the weight of every path to every point in every context, with
\* recursion, loops and any order of components and out nodes (InterGraph::saturate,
\* MergeError::apply_f, WFA::path_summary).
THEOREM EveryPathCounted == Spec => []EveryPathCounts
<1>1. AnalyserInv => EveryPathCounts
  <2> SUFFICES ASSUME AnalyserInv, phase = "done", point # Epsilon
               PROVE  PathWeight \subseteq result[<<P, point, Context>>]
    BY DEF EveryPathCounts
  <2> DEFINE t == <<P, point, Context>>
             sol == NodeWeights
             sum == PathSummary(NodeWeights)
  <2>1. result = ReadResult(sol, sum)
    BY DoneFacts DEF AnalyserInv
  <2>2. t \in {t2 \in trans : t2[2] # Epsilon} /\ weight \subseteq sol[t] /\ prefix \subseteq sum[Context]
    BY DEF AnalyserInv, StackAccepted, PathCounted
  <2> HIDE DEF sol, sum
  <2>3. result[t] = Extend(sum[Context], sol[t])
    BY <2>1, <2>2 DEF ReadResult
  <2> QED
    BY <2>2, <2>3, ExtendMonotone DEF PathWeight
<1> QED
  BY <1>1, AnalyserInvariant, PTL

-----------------------------------------------------------------------------
(* The places behind the transitions.                                      *)

\* A transition stands for one place.
LEMMA OnePlaceEach ==
    ASSUME RulesWellFormed
    PROVE  /\ StateOf(<< >>) = Accept /\ \A s : StateOf(<<s>>) = GenState(s)
           /\ \A x, y \in Places : TransitionAt(x) = TransitionAt(y) => x = y
<1>1. StateOf(<< >>) = Accept
  BY DEF StateOf
<1>2. ASSUME NEW s PROVE StateOf(<<s>>) = GenState(s)
  BY DEF StateOf
<1>3. \A c \in Contexts : c = << >> \/ \E s : c = <<s>>
  BY DEF Contexts
<1>4. ASSUME NEW c \in Contexts, NEW d \in Contexts, StateOf(c) = StateOf(d) PROVE c = d
  BY <1>1, <1>2, <1>3, <1>4, StateNames
<1>5. ASSUME NEW x \in Places, NEW y \in Places, TransitionAt(x) = TransitionAt(y) PROVE x = y
  <2>1. x[1] = y[1] /\ StateOf(x[2]) = StateOf(y[2])
    BY <1>5 DEF TransitionAt
  <2> QED
    BY <2>1, <1>4, PlaceFacts
<1> QED
  BY <1>1, <1>2, <1>5

\* What rule r makes of the transition of a place is that of the next place.
LEMMA NextPlace ==
    ASSUME RulesWellFormed, NEW x \in Places, NEW t \in PTransition, t = TransitionAt(x),
           NEW r \in RulesFrom(t[2])
    PROVE  /\ r \in program /\ r.from = x[1] /\ x = <<r.from, x[2]>> /\ x[2] \in Contexts
           /\ IsPop(r) => /\ Target(t, r) = TransitionAt(<<Epsilon, x[2]>>)
                          /\ Within(r, Epsilon) /\ <<Epsilon, x[2]>> \in Places
           /\ IsStep(r) => /\ Target(t, r) = TransitionAt(<<r.to[1], x[2]>>)
                           /\ Within(r, r.to[1]) /\ <<r.to[1], x[2]>> \in Places
           /\ IsPush(r) => /\ Target(t, r) = TransitionAt(<<r.to[1], <<r.to[1]>> >>)
                           /\ <<r.to[1]>> \in Contexts /\ EntryOf(<<r.to[1]>>) = r.to[1]
                           /\ ReturnOf(t, r) = <<GenState(r.to[1]), r.to[2], StateOf(x[2])>>
                           /\ <<P, r.to[2], StateOf(x[2])>> = TransitionAt(<<r.to[2], x[2]>>)
                           /\ <<r.to[2], x[2]>> \in Places
<1>1. t[2] = x[1] /\ t[3] = StateOf(x[2])
  BY DEF TransitionAt
<1>2. r \in program /\ r.from = x[1] /\ x = <<r.from, x[2]>> /\ x[2] \in Contexts
  BY <1>1, PlaceFacts DEF RulesFrom
<1>3. CASE IsPop(r)
  BY <1>1, <1>2, <1>3, TargetType, PlaceFacts DEF RulesWellFormed, Within, TransitionAt
<1>4. CASE IsStep(r)
  <2>1. r.to = <<r.to[1]>> /\ r.to[1] \in Symbols /\ r.to[1] # Epsilon
    BY <1>2, <1>4 DEF RulesWellFormed
  <2>2. Within(r, r.to[1])
    BY <2>1 DEF Within
  <2>3. Target(t, r) = <<P, r.to[1], t[3]>>
    BY <1>4, TargetType
  <2> QED
    BY <1>1, <1>2, <1>4, <2>1, <2>2, <2>3, PlaceFacts DEF RulesWellFormed, TransitionAt
<1>5. CASE IsPush(r)
  <2>1. r.to[1] \in Symbols /\ r.to[2] \in Symbols /\ ~IsPop(r) /\ ~IsStep(r)
    BY <1>2, <1>5 DEF RulesWellFormed
  <2>2. Target(t, r) = <<P, r.to[1], GenState(r.to[1])>> /\ ReturnOf(t, r) = <<GenState(r.to[1]), r.to[2], t[3]>>
    BY <1>5, TargetType DEF ReturnOf
  <2>3. StateOf(<<r.to[1]>>) = GenState(r.to[1])
    BY OnePlaceEach
  <2>4. EntryOf(<<r.to[1]>>) = r.to[1]
    BY DEF EntryOf
  <2>5. <<r.to[1]>> \in Contexts /\ <<r.to[2], x[2]>> \in Places
    BY <1>2, <1>5, <2>1, PlaceFacts
  <2> QED
    BY <1>1, <1>2, <2>1, <2>2, <2>3, <2>4, <2>5 DEF TransitionAt
<1>6. IsPop(r) \/ IsStep(r) \/ IsPush(r)
  BY <1>2 DEF RulesWellFormed
<1>7. /\ IsPop(r) => ~IsStep(r) /\ ~IsPush(r)
      /\ IsStep(r) => ~IsPush(r)
  BY <1>2 DEF RulesWellFormed
<1> QED
  BY <1>2, <1>3, <1>4, <1>5, <1>6, <1>7

\* The place of a transition.
LEMMA PlaceOfTransition ==
    ASSUME SaturationInv, OnlyReached, NEW t \in trans
    PROVE  /\ RulesWellFormed /\ t \in PTransition
           /\ \E x \in Reached : x \in Places /\ t = TransitionAt(x)
BY LoadedRules, ReachedFacts DEF SaturationInv, SaturationType, OnlyReached

\* A callee with an epsilon transition returns to a place that a path comes to.
LEMMA ReturnReached ==
    ASSUME SaturationInv, OnlyReached, NEW t \in trans, NEW r \in RulesFrom(t[2]), IsPush(r),
           <<P, Epsilon, GenState(r.to[1])>> \in trans
    PROVE  /\ <<Epsilon, <<r.to[1]>> >> \in Reached
           /\ <<P, r.to[2], t[3]>> \in {TransitionAt(x) : x \in Reached}
           /\ \A x \in Places : t = TransitionAt(x) => <<r.to[2], x[2]>> \in Places /\ Returns(r, r.to[2], Reached)
<1>1. RulesWellFormed /\ t \in PTransition
  BY PlaceOfTransition
<1>2. PICK x \in Reached : x \in Places /\ t = TransitionAt(x)
  BY PlaceOfTransition
<1>3. r \in program /\ <<r.to[1]>> \in Contexts
  BY <1>1, PlaceFacts DEF RulesFrom
<1>4. <<Epsilon, <<r.to[1]>> >> \in Reached
  <2> DEFINE e == <<P, Epsilon, GenState(r.to[1])>>
             z == <<Epsilon, <<r.to[1]>> >>
  <2>1. PICK y \in Reached : y \in Places /\ e = TransitionAt(y)
    BY PlaceOfTransition
  <2>2. e = TransitionAt(z) /\ z \in Places
    BY <1>1, <1>3, OnePlaceEach, PlaceFacts DEF TransitionAt
  <2> QED
    BY <2>1, <2>2, <1>1, OnePlaceEach
<1>5. Returns(r, r.to[2], Reached)
  BY <1>4 DEF Returns
<1>6. ASSUME NEW y \in Places, t = TransitionAt(y) PROVE <<r.to[2], y[2]>> \in Places
  BY <1>1, <1>6, NextPlace
<1>7. /\ r.from = x[1] /\ x = <<r.from, x[2]>>
      /\ t[3] = StateOf(x[2]) /\ <<P, r.to[2], StateOf(x[2])>> = TransitionAt(<<r.to[2], x[2]>>)
  BY <1>1, <1>2, NextPlace DEF TransitionAt
<1>8. <<r.to[2], x[2]>> \in Reached
  <2> DEFINE y == <<r.to[2], x[2]>>
  <2>1. y \in Places /\ y[1] = r.to[2] /\ y[2] = x[2]
    BY <1>2, <1>6
  <2> HIDE DEF y
  <2>2. <<r.from, y[2]>> \in Reached /\ Returns(r, y[1], Reached)
    BY <1>2, <1>5, <1>7, <2>1
  <2>3. y \in Reached
    BY <2>1, <2>2, <1>1, <1>3, ReachedFacts
  <2> QED
    BY <2>3 DEF y
<1> QED
  BY <1>4, <1>5, <1>6, <1>7, <1>8

\* Applying the rules to a transition leads to places that a path comes to.
LEMMA PostSymbolReaches ==
    ASSUME SaturationInv, OnlyReached, NEW t \in worklist, PostSymbol(t)
    PROVE  OnlyReached'
<1>1. program' = program
  BY DEF PostSymbol
<1>2. Reached' = Reached /\ t \in trans
  BY <1>1, EquationsStay DEF SaturationInv, SaturationType
<1>3. trans' = trans \cup {Target(t, r) : r \in RulesFrom(t[2])} \cup {Closure(h) : h \in Meetings(t)}
  BY DEF PostSymbol, Update
<1>4. RulesWellFormed /\ t \in PTransition
  BY <1>2, PlaceOfTransition
<1>5. PICK x \in Reached : x \in Places /\ t = TransitionAt(x)
  BY <1>2, PlaceOfTransition
<1> DEFINE Ats == {TransitionAt(y) : y \in Reached}
<1>6. ASSUME NEW r \in RulesFrom(t[2]) PROVE Target(t, r) \in Ats
  <2>1. r \in program /\ r.from = x[1] /\ x = <<r.from, x[2]>> /\ x[2] \in Contexts
    BY <1>4, <1>5, NextPlace
  <2>2. ASSUME NEW s, <<s, x[2]>> \in Places, Within(r, s) PROVE <<s, x[2]>> \in Reached
    <3> DEFINE y == <<s, x[2]>>
    <3>1. y \in Places /\ y[1] = s /\ y[2] = x[2]
      BY <2>2
    <3> HIDE DEF y
    <3>2. <<r.from, y[2]>> \in Reached /\ Within(r, y[1])
      BY <1>5, <2>1, <2>2, <3>1
    <3>3. y \in Reached
      BY <3>1, <3>2, <2>1, <1>4, ReachedFacts
    <3> QED
      BY <3>3 DEF y
  <2>3. CASE IsPop(r)
    BY <2>2, <2>3, <1>4, <1>5, NextPlace
  <2>4. CASE IsStep(r)
    <3>1. /\ Target(t, r) = TransitionAt(<<r.to[1], x[2]>>)
          /\ Within(r, r.to[1]) /\ <<r.to[1], x[2]>> \in Places
      BY <2>4, <1>4, <1>5, NextPlace
    <3>2. <<r.to[1], x[2]>> \in Reached
      BY <3>1, <2>2
    <3> QED
      BY <3>1, <3>2
  <2>5. CASE IsPush(r)
    <3>1. /\ Target(t, r) = TransitionAt(<<r.to[1], <<r.to[1]>> >>)
          /\ <<r.to[1]>> \in Contexts /\ EntryOf(<<r.to[1]>>) = r.to[1]
      BY <2>5, <1>4, <1>5, NextPlace
    <3>2. <<r.to[1], <<r.to[1]>> >> \in Reached
      BY <3>1, <1>4, ReachedFacts
    <3> QED
      BY <3>1, <3>2
  <2> QED
    BY <2>1, <2>3, <2>4, <2>5, <1>4 DEF RulesWellFormed
<1>7. ASSUME NEW h \in Meetings(t) PROVE Closure(h) \in Ats
  <2>1. PICK r \in RulesFrom(t[2]) : IsPush(r) /\ h \in {ReturnOf(t, r)} \X EpsilonsTo(GenState(r.to[1]))
    BY DEF Meetings
  <2>2. h[1] = ReturnOf(t, r) /\ h[2] \in trans /\ h[2][2] = Epsilon /\ h[2][3] = GenState(r.to[1])
    BY <2>1 DEF EpsilonsTo
  <2>3. h[2] = <<P, Epsilon, GenState(r.to[1])>>
    BY <2>2, PlaceOfTransition, PTransitionParts
  <2>4. Closure(h) = <<P, r.to[2], t[3]>>
    BY <2>2 DEF Closure, ReturnOf
  <2> QED
    BY <2>1, <2>2, <2>3, <2>4, <1>2, ReturnReached
<1>8. trans \subseteq Ats
  BY DEF OnlyReached
<1>9. OnlyReached' <=> trans' \subseteq {TransitionAt(y) : y \in Reached'}
  BY DEF OnlyReached, TransitionAt, StateOf
<1> QED
  BY <1>2, <1>3, <1>6, <1>7, <1>8, <1>9

\* So does the return of a callee to the calls found before.
LEMMA PostEpsilonReaches ==
    ASSUME SaturationInv, OnlyReached, NEW t \in worklist, PostEpsilon(t)
    PROVE  OnlyReached'
<1> DEFINE meetings == {u \in DOMAIN returns : u[1] = t[3]} \X {t}
           Ats == {TransitionAt(y) : y \in Reached}
<1>1. program' = program /\ trans' = trans \cup {Closure(h) : h \in meetings} /\ t[2] = Epsilon
  BY DEF PostEpsilon, Update
<1>2. Reached' = Reached /\ t \in trans
  BY <1>1, EquationsStay DEF SaturationInv, SaturationType
<1>3. ASSUME NEW h \in meetings PROVE Closure(h) \in Ats
  <2>1. h[1] \in DOMAIN returns /\ h[1][1] = t[3]
    OBVIOUS
  <2>2. PICK u \in trans, r \in program : r \in RulesFrom(u[2]) /\ IsPush(r) /\ h[1] = ReturnOf(u, r)
    BY <2>1 DEF SaturationInv, OneCallEach, RulesFrom
  <2>3. t = <<P, Epsilon, GenState(r.to[1])>>
    BY <1>1, <1>2, <2>1, <2>2, PlaceOfTransition, PTransitionParts DEF ReturnOf
  <2>4. Closure(h) = <<P, r.to[2], u[3]>>
    BY <2>2 DEF Closure, ReturnOf
  <2> QED
    BY <2>2, <2>3, <2>4, <1>2, ReturnReached
<1>8. trans \subseteq Ats
  BY DEF OnlyReached
<1>9. OnlyReached' <=> trans' \subseteq {TransitionAt(y) : y \in Reached'}
  BY DEF OnlyReached, TransitionAt, StateOf
<1> HIDE DEF meetings
<1> QED
  BY <1>1, <1>2, <1>3, <1>8, <1>9

-----------------------------------------------------------------------------
(* The engine is below the equations.                                      *)

\* The place that the weight of a node is about: that of a return transition is its call.
PlaceOf(t) == CHOOSE x \in Reached : t = TransitionAt(x)
\* What the equations give that place.
Upper(n) == Sums[PlaceOf(IF n \in trans THEN n ELSE returns[n].call)]

\* A return transition has the place of its call.
LEMMA UpperFacts ==
    ASSUME SaturationInv, OnlyReached
    PROVE  /\ \A n \in Nodes : Upper(n) \in Weight
           /\ \A t \in trans, x \in Places : t = TransitionAt(x) => Upper(t) = Sums[x]
           /\ \A ret \in DOMAIN returns :
                 /\ ret \notin trans
                 /\ \E t \in trans : \E r \in RulesFrom(t[2]) :
                       /\ IsPush(r) /\ ret = ReturnOf(t, r) /\ t \in PTransition
                       /\ returns[ret] = [call |-> t, weight |-> r.weight, rule |-> r]
                       /\ Upper(ret) = Upper(t)
<1>1. RulesWellFormed /\ trans \subseteq PTransition
  BY LoadedRules DEF SaturationInv, SaturationType
<1>2. ASSUME NEW t \in trans
      PROVE  PlaceOf(t) \in Places /\ Upper(t) = Sums[PlaceOf(t)] /\ t = TransitionAt(PlaceOf(t))
  <2>1. PlaceOf(t) \in Reached /\ t = TransitionAt(PlaceOf(t))
    BY PlaceOfTransition DEF PlaceOf
  <2> QED
    BY <2>1, <1>1, ReachedFacts DEF Upper
<1>3. ASSUME NEW t \in trans, NEW x \in Places, t = TransitionAt(x) PROVE Upper(t) = Sums[x]
  BY <1>1, <1>2, <1>3, OnePlaceEach
<1>4. ASSUME NEW ret \in DOMAIN returns
      PROVE  /\ ret \notin trans
             /\ \E t \in trans : \E r \in RulesFrom(t[2]) :
                   /\ IsPush(r) /\ ret = ReturnOf(t, r) /\ t \in PTransition
                   /\ returns[ret] = [call |-> t, weight |-> r.weight, rule |-> r]
                   /\ Upper(ret) = Upper(t)
  <2>1. PICK t \in trans, r \in program :
           /\ r \in RulesFrom(t[2]) /\ IsPush(r) /\ ret = ReturnOf(t, r)
           /\ returns[ret] = [call |-> t, weight |-> r.weight, rule |-> r]
    BY DEF SaturationInv, OneCallEach, RulesFrom
  <2>2. ret[1] = GenState(r.to[1])
    BY <2>1 DEF ReturnOf
  <2>3. ret \notin trans
    BY <1>1, <2>2, StateNames, PTransitionParts
  <2>4. Upper(ret) = Upper(t)
    BY <2>1, <2>3 DEF Upper
  <2> QED
    BY <1>1, <2>1, <2>3, <2>4
<1>5. ASSUME NEW n \in Nodes PROVE Upper(n) \in Weight
  <2>1. \A t \in trans : Upper(t) \in Weight
    BY <1>1, <1>2, SumsLeast
  <2> QED
    BY <2>1, <1>4 DEF Nodes
<1> QED
  BY <1>3, <1>4, <1>5

\* The edge of a rule carries no more than the equations do.
LEMMA EdgeBelow ==
    ASSUME SaturationInv, OnlyReached, NEW e \in intra
    PROVE  Extend(Upper(e[1]), e[3]) \subseteq Upper(e[2])
<1>1. RulesWellFormed
  BY LoadedRules DEF SaturationInv, SaturationType
<1>2. PICK t \in trans, r \in program :
         /\ r \in RulesFrom(t[2]) /\ Handled(t, r)
         /\ e = IF IsPush(r) THEN <<t, ReturnOf(t, r), One>> ELSE <<t, Target(t, r), r.weight>>
  BY DEF SaturationInv, EdgesOfRules, RulesFrom
<1>3. t \in PTransition
  BY PlaceOfTransition
<1>4. PICK x \in Reached : x \in Places /\ t = TransitionAt(x)
  BY PlaceOfTransition
<1>5. r \in program /\ x = <<r.from, x[2]>> /\ Upper(t) = Sums[x]
  BY <1>1, <1>2, <1>3, <1>4, NextPlace, UpperFacts
<1>6. ASSUME ~IsPush(r), NEW s, Target(t, r) = TransitionAt(<<s, x[2]>>), Within(r, s), <<s, x[2]>> \in Places
      PROVE  Extend(Upper(e[1]), e[3]) \subseteq Upper(e[2])
  <2> DEFINE y == <<s, x[2]>>
  <2>1. y \in Places /\ y[1] = s /\ y[2] = x[2] /\ Target(t, r) = TransitionAt(y)
    BY <1>6
  <2> HIDE DEF y
  <2>2. Target(t, r) \in trans /\ e[1] = t /\ e[2] = Target(t, r) /\ e[3] = r.weight
    BY <1>2, <1>6 DEF Handled
  <2>3. Extend(Sums[<<r.from, y[2]>>], r.weight) \subseteq Sums[y]
    BY <1>1, <1>6, <2>1, SumsLeast DEF SolvesSums
  <2>4. Upper(Target(t, r)) = Sums[y]
    BY <2>1, <2>2, UpperFacts
  <2> QED
    BY <2>1, <2>2, <2>3, <2>4, <1>5
<1>7. CASE IsPop(r)
  <2>1. /\ ~IsPush(r) /\ Target(t, r) = TransitionAt(<<Epsilon, x[2]>>)
        /\ Within(r, Epsilon) /\ <<Epsilon, x[2]>> \in Places
    BY <1>1, <1>2, <1>3, <1>4, <1>7, NextPlace DEF RulesWellFormed
  <2> QED
    BY <2>1, <1>6
<1>8. CASE IsStep(r)
  <2>1. /\ ~IsPush(r) /\ Target(t, r) = TransitionAt(<<r.to[1], x[2]>>)
        /\ Within(r, r.to[1]) /\ <<r.to[1], x[2]>> \in Places
    BY <1>1, <1>2, <1>3, <1>4, <1>8, NextPlace DEF RulesWellFormed
  <2> QED
    BY <2>1, <1>6
<1>9. CASE IsPush(r)
  <2> DEFINE ret == ReturnOf(t, r)
  <2>1. ret \in DOMAIN returns /\ e[1] = t /\ e[2] = ret /\ e[3] = One
    BY <1>2, <1>9 DEF Handled
  <2>2. PICK u \in trans, q \in program :
           /\ q \in RulesFrom(u[2]) /\ IsPush(q) /\ ret = ReturnOf(u, q) /\ u \in PTransition
           /\ Upper(ret) = Upper(u)
    BY <2>1, UpperFacts DEF RulesFrom
  <2>3. u = t
    BY <2>2, <1>1, <1>2, <1>3, <1>9, ReturnUnique
  <2>4. Upper(t) \in Weight
    BY UpperFacts DEF Nodes
  <2> QED
    BY <2>1, <2>2, <2>3, <2>4, ExtendOne
<1> QED
  BY <1>1, <1>2, <1>7, <1>8, <1>9 DEF RulesWellFormed

\* So does the edge of a call, whatever has been propagated to it.
LEMMA CallBelow ==
    ASSUME SaturationInv, OnlyReached, MergedType, MergedBelow, phase # "saturate", NEW h \in hyper
    PROVE  Extend(Upper(h[1]), merged[h]) \subseteq Upper(Closure(h))
<1>1. RulesWellFormed
  BY LoadedRules DEF SaturationInv, SaturationType
<1>2. h[1] \in DOMAIN returns /\ h[2] \in trans /\ h[2][2] = Epsilon /\ h[2][3] = h[1][1] /\ Closure(h) \in trans
  BY DEF SaturationInv, OneCallEach
<1>3. PICK t \in trans, r \in program :
         /\ r \in RulesFrom(t[2]) /\ IsPush(r) /\ h[1] = ReturnOf(t, r) /\ t \in PTransition
         /\ returns[h[1]] = [call |-> t, weight |-> r.weight, rule |-> r]
         /\ Upper(h[1]) = Upper(t)
  BY <1>2, UpperFacts DEF RulesFrom
<1>4. h[2] = <<P, Epsilon, GenState(r.to[1])>>
  BY <1>2, <1>3, PlaceOfTransition, PTransitionParts DEF ReturnOf
<1>5. PICK x \in Reached : x \in Places /\ t = TransitionAt(x)
  BY PlaceOfTransition
<1>6. /\ x = <<r.from, x[2]>> /\ <<P, r.to[2], StateOf(x[2])>> = TransitionAt(<<r.to[2], x[2]>>)
      /\ t[3] = StateOf(x[2])
  BY <1>1, <1>3, <1>5, NextPlace DEF TransitionAt
<1> DEFINE y == <<r.to[2], x[2]>>
           z == <<Epsilon, <<r.to[1]>> >>
<1>7. y \in Places /\ y[1] = r.to[2] /\ y[2] = x[2] /\ Returns(r, r.to[2], Reached) /\ z \in Places
  BY <1>1, <1>2, <1>3, <1>4, <1>5, ReturnReached, ReachedFacts
<1>8. Closure(h) = TransitionAt(y)
  BY <1>3, <1>6 DEF Closure, ReturnOf
<1> HIDE DEF y
<1>9. Merge(Sums[x], r.weight, Sums[z], r.callee) \subseteq Sums[y]
  <2>1. Merge(Sums[<<r.from, y[2]>>], r.weight, Sums[z], r.callee) \subseteq Sums[y]
    BY <1>1, <1>7, SumsLeast DEF SolvesSums
  <2> QED
    BY <2>1, <1>6, <1>7
<1>10. merged[h] \subseteq Merge(One, r.weight, Sums[z], r.callee)
  BY <1>3 DEF MergedBelow
<1>11. Upper(h[1]) = Sums[x] /\ Upper(Closure(h)) = Sums[y]
  BY <1>2, <1>3, <1>5, <1>7, <1>8, UpperFacts
<1>12. Sums[x] \in Weight /\ Sums[z] \in Weight /\ r.weight \in Weight /\ r.callee \in Functions
  BY <1>1, <1>5, <1>7, SumsLeast DEF RulesWellFormed
<1> HIDE DEF z
<1>13. Extend(Sums[x], merged[h]) \subseteq Extend(Sums[x], Merge(One, r.weight, Sums[z], r.callee))
  BY <1>10, ExtendMonotone
<1>14. Extend(Sums[x], Merge(One, r.weight, Sums[z], r.callee)) = Merge(Sums[x], r.weight, Sums[z], r.callee)
  BY <1>12, MergeAfter
<1> QED
  BY <1>9, <1>11, <1>13, <1>14

\* The engine's weights stay below those of the equations, however far it has come.
LEMMA SolutionBelow ==
    ASSUME SaturationInv, OnlyReached, MergedType, MergedBelow, phase # "saturate", NEW graph \in IntraGraphs
    PROVE  \A n \in graph : Solution(graph)[n] \subseteq Upper(n)
<1>1. RulesWellFormed
  BY LoadedRules DEF SaturationInv, SaturationType
<1>2. graph \subseteq Nodes
  BY GraphFacts DEF IntraGraphs
<1> DEFINE bound == [n \in graph |-> Upper(n)]
<1>3. bound \in [graph -> Weight]
  BY <1>2, UpperFacts
<1>4. ASSUME NEW n \in graph, n \in sources PROVE One \subseteq bound[n]
  <2>1. ASSUME NEW c \in Contexts, n = TransitionAt(<<EntryOf(c), c>>), n \in trans PROVE One \subseteq Upper(n)
    <3>1. Upper(n) = Sums[<<EntryOf(c), c>>]
      BY <1>1, <2>1, PlaceFacts, UpperFacts
    <3> QED
      BY <3>1, <1>1, SumsLeast DEF SolvesSums
  <2>2. CASE n = InitialTransition
    <3>1. << >> \in Contexts /\ EntryOf(<< >>) = Start /\ StateOf(<< >>) = Accept
      BY <1>1, PlaceFacts, OnePlaceEach DEF EntryOf
    <3>2. n = TransitionAt(<<EntryOf(<< >>), << >> >>) /\ n \in trans
      BY <2>2, <3>1 DEF InitialTransition, TransitionAt, SaturationInv, SaturationType
    <3> QED
      BY <2>1, <3>1, <3>2
  <2>3. CASE n # InitialTransition
    <3>1. PICK t \in trans, r \in program :
             r \in RulesFrom(t[2]) /\ IsPush(r) /\ Handled(t, r) /\ n = Target(t, r)
      BY <1>4, <2>3 DEF SaturationInv, EdgesOfRules, RulesFrom
    <3>2. t \in PTransition
      BY PlaceOfTransition
    <3>3. PICK x \in Reached : x \in Places /\ t = TransitionAt(x)
      BY PlaceOfTransition
    <3>4. /\ Target(t, r) = TransitionAt(<<r.to[1], <<r.to[1]>> >>)
          /\ <<r.to[1]>> \in Contexts /\ EntryOf(<<r.to[1]>>) = r.to[1]
      BY <1>1, <3>1, <3>2, <3>3, NextPlace
    <3>5. n \in trans
      BY <3>1 DEF Handled
    <3> QED
      BY <3>1, <3>4, <3>5, <2>1
  <2> QED
    BY <2>2, <2>3
<1>5. ASSUME NEW e \in EdgesInto(graph) PROVE Extend(bound[e[1]], e[3]) \subseteq bound[e[2]]
  <2>1. e[1] \in graph /\ e[2] \in graph
    BY EdgesOfGraph
  <2>2. Extend(Upper(e[1]), e[3]) \subseteq Upper(e[2])
    <3>1. CASE e \in intra
      BY <3>1, EdgeBelow
    <3>2. CASE \E h \in hyper : e = <<h[1], Closure(h), merged[h]>>
      <4>1. PICK h \in hyper : e = <<h[1], Closure(h), merged[h]>>
        BY <3>2
      <4>2. Extend(Upper(h[1]), merged[h]) \subseteq Upper(Closure(h))
        BY CallBelow
      <4> QED
        BY <4>1, <4>2
    <3> QED
      BY <3>1, <3>2 DEF EdgesInto
  <2> QED
    BY <2>1, <2>2
<1>6. \A n \in graph : bound[n] = Upper(n)
  OBVIOUS
<1> HIDE DEF bound
<1>7. \A n \in graph : Solution(graph)[n] \subseteq bound[n]
  BY <1>3, <1>4, <1>5, SolutionFacts
<1> QED
  BY <1>6, <1>7

\* What a call may be given.
CallBound(r) == Merge(One, r.weight, Sums[<<Epsilon, <<r.to[1]>> >>], r.callee)

\* Before anything is handled there is only the start of the program.
LEMMA PrecisionStarts == EngineInit => PrecisionInv
<1> SUFFICES ASSUME EngineInit PROVE PrecisionInv
  OBVIOUS
<1>1. RulesWellFormed /\ trans = {InitialTransition} /\ phase = "saturate"
  BY LoadedRules DEF EngineInit, SaturationInit
<1>2. << >> \in Contexts /\ EntryOf(<< >>) = Start /\ StateOf(<< >>) = Accept
  BY <1>1, PlaceFacts, OnePlaceEach DEF EntryOf
<1>3. <<Start, << >> >> \in Reached /\ InitialTransition = TransitionAt(<<Start, << >> >>)
  BY <1>1, <1>2, ReachedFacts DEF InitialTransition, TransitionAt
<1> QED
  BY <1>1, <1>3 DEF PrecisionInv, OnlyReached, MergedBelow

\* What leaves the automaton and the merges alone keeps it.
LEMMA PrecisionStays ==
    ASSUME PrecisionInv, UNCHANGED <<program, trans, returns, hyper, merged>>,
           phase' # "saturate" => phase # "saturate"
    PROVE  PrecisionInv'
<1>1. Reached' = Reached /\ Sums' = Sums
  BY EquationsStay
<1>2. OnlyReached'
  <2>1. OnlyReached' <=> trans' \subseteq {TransitionAt(y) : y \in Reached'}
    BY DEF OnlyReached, TransitionAt, StateOf
  <2> QED
    BY <2>1, <1>1 DEF PrecisionInv, OnlyReached
<1>3. MergedBelow'
  <2>1. phase # "saturate" => \A h \in hyper : merged[h] \subseteq CallBound(returns[h[1]].rule)
    BY DEF PrecisionInv, MergedBelow, CallBound
  <2>2. (phase' # "saturate" => \A h \in hyper : merged[h] \subseteq CallBound(returns[h[1]].rule)) => MergedBelow'
    BY <1>1 DEF MergedBelow, CallBound
  <2> QED
    BY <2>1, <2>2
<1> QED
  BY <1>2, <1>3 DEF PrecisionInv

\* What is propagated is below the sum of the callee, and so is what its calls get.
LEMMA PropagatePrecise ==
    ASSUME SaturationInv, SolveInv, PrecisionInv, NEW n \in outWork, Propagate(n)
    PROVE  PrecisionInv'
<1> DEFINE graph == CHOOSE graph \in current : n \in graph
           solved == Solution(graph)[n]
           Given(h) == LET r == returns[h[1]].rule IN Merge(One, r.weight, solved, r.callee)
<1>1. UNCHANGED <<program, trans, returns, hyper>> /\ phase = "solve" /\ phase' = phase
  BY DEF Propagate, saturationVars
<1>2. graph \in IntraGraphs /\ n \in graph
  <2>1. PICK g \in current : n \in g
    BY <1>1 DEF SolveInv, SolveType, OutNodes
  <2> QED
    BY <2>1, <1>1 DEF SolveInv, SolveType
<1>3. merged' = merged \/ merged' = [h \in hyper |-> IF h[2] = n THEN Given(h) ELSE merged[h]]
  BY DEF Propagate
<1> HIDE DEF graph
<1>4. MergedType /\ RulesWellFormed
  BY <1>1, SolvingMerges, LoadedRules DEF SaturationInv, SaturationType
<1>5. solved \subseteq Upper(n) /\ solved \in Weight
  BY <1>1, <1>2, <1>4, SolutionBelow, SolutionFacts DEF PrecisionInv
<1> HIDE DEF solved
<1>6. ASSUME NEW h \in hyper, h[2] = n PROVE Given(h) \subseteq CallBound(returns[h[1]].rule)
  <2>1. h[1] \in DOMAIN returns /\ h[2] \in trans /\ h[2][2] = Epsilon /\ h[2][3] = h[1][1]
    BY DEF SaturationInv, OneCallEach
  <2>2. PICK t \in trans, r \in program :
           /\ r \in RulesFrom(t[2]) /\ IsPush(r) /\ h[1] = ReturnOf(t, r)
           /\ returns[h[1]] = [call |-> t, weight |-> r.weight, rule |-> r]
    BY <2>1, UpperFacts DEF PrecisionInv, RulesFrom
  <2> DEFINE z == <<Epsilon, <<r.to[1]>> >>
  <2>3. n = <<P, Epsilon, GenState(r.to[1])>>
    BY <1>6, <2>1, <2>2, PlaceOfTransition, PTransitionParts DEF ReturnOf, PrecisionInv
  <2>4. z \in Places /\ n = TransitionAt(z)
    BY <1>4, <2>2, <2>3, PlaceFacts, OnePlaceEach DEF TransitionAt
  <2>5. Upper(n) = Sums[z]
    BY <1>6, <2>1, <2>4, UpperFacts DEF PrecisionInv
  <2>6. /\ One \in Weight /\ r.weight \in Weight /\ r.callee \in Functions
        /\ Sums[z] \in Weight /\ returns[h[1]].rule = r
    BY <1>4, <2>2, <2>4, SumsLeast, OneIsWeight DEF RulesWellFormed
  <2> HIDE DEF z
  <2>7. Merge(One, r.weight, solved, r.callee) \subseteq Extend(One, Merge(One, r.weight, Sums[z], r.callee))
    BY <1>5, <2>5, <2>6, MergeMonotone
  <2>8. Extend(One, Merge(One, r.weight, Sums[z], r.callee)) = Merge(One, r.weight, Sums[z], r.callee)
    BY <2>6, MergeAfter
  <2> QED
    BY <2>6, <2>7, <2>8 DEF CallBound, z
<1>7. CASE merged' = merged
  BY <1>1, <1>7, PrecisionStays
<1>8. CASE merged' = [h \in hyper |-> IF h[2] = n THEN Given(h) ELSE merged[h]]
  <2>1. Reached' = Reached /\ Sums' = Sums
    BY <1>1, EquationsStay
  <2>2. OnlyReached'
    <3>1. OnlyReached' <=> trans' \subseteq {TransitionAt(y) : y \in Reached'}
      BY DEF OnlyReached, TransitionAt, StateOf
    <3> QED
      BY <3>1, <2>1, <1>1 DEF PrecisionInv, OnlyReached
  <2>3. \A h \in hyper : merged[h] \subseteq CallBound(returns[h[1]].rule)
    BY <1>1 DEF PrecisionInv, MergedBelow, CallBound
  <2> HIDE DEF Given
  <2>4. \A h \in hyper : merged'[h] \subseteq CallBound(returns[h[1]].rule)
    BY <1>6, <1>8, <2>3
  <2>5. (\A h \in hyper : merged'[h] \subseteq CallBound(returns[h[1]].rule)) => MergedBelow'
    BY <1>1, <2>1 DEF MergedBelow, CallBound
  <2> QED
    BY <2>2, <2>4, <2>5 DEF PrecisionInv
<1> QED
  BY <1>3, <1>7, <1>8

\* Every step of the engine keeps it.
LEMMA EnginePrecise ==
    ASSUME SaturationInv, SolveInv, PrecisionInv, EngineNext
    PROVE  PrecisionInv'
<1>1. CASE phase = "saturate" /\ Saturate /\ UNCHANGED <<phase, solveVars>>
  <2>1. OnlyReached'
    BY <1>1, PostSymbolReaches, PostEpsilonReaches DEF Saturate, PrecisionInv
  <2>2. MergedBelow'
    BY <1>1 DEF MergedBelow
  <2> QED
    BY <2>1, <2>2 DEF PrecisionInv
<1>2. CASE StartSolve
  <2>1. UNCHANGED <<program, trans, returns, hyper>> /\ merged' = [h \in hyper |-> Zero]
    BY <1>2 DEF StartSolve, saturationVars
  <2>2. Reached' = Reached
    BY <2>1, EquationsStay
  <2>3. OnlyReached'
    <3>1. OnlyReached' <=> trans' \subseteq {TransitionAt(y) : y \in Reached'}
      BY DEF OnlyReached, TransitionAt, StateOf
    <3> QED
      BY <3>1, <2>1, <2>2 DEF PrecisionInv, OnlyReached
  <2>4. MergedBelow'
    BY <2>1 DEF MergedBelow, Zero
  <2> QED
    BY <2>3, <2>4 DEF PrecisionInv
<1>3. ASSUME NEW c \in pending, StartComponent(c) PROVE PrecisionInv'
  <2>1. UNCHANGED <<program, trans, returns, hyper, merged>> /\ phase' = phase
    BY <1>3 DEF StartComponent, saturationVars
  <2> QED
    BY <2>1, PrecisionStays
<1>4. ASSUME NEW n \in outWork, Propagate(n) PROVE PrecisionInv'
  BY <1>4, PropagatePrecise
<1>5. CASE Finish
  <2>1. UNCHANGED <<program, trans, returns, hyper, merged>> /\ phase = "solve"
    BY <1>5 DEF Finish, saturationVars
  <2> QED
    BY <2>1, PrecisionStays
<1> QED
  BY <1>1, <1>2, <1>3, <1>4, <1>5 DEF EngineNext

-----------------------------------------------------------------------------
(* The equations are below the engine.                                     *)

\* When nothing is left to handle, every rule has been applied to every transition.
LEMMA RuleThere ==
    ASSUME SaturationInv, worklist = {}, NEW t \in trans, NEW r \in RulesFrom(t[2])
    PROVE  /\ RulesWellFormed /\ t \in PTransition /\ Handled(t, r) /\ Target(t, r) \in trans
           /\ ~IsPush(r) => <<t, Target(t, r), r.weight>> \in intra
           /\ IsPush(r) => /\ ReturnOf(t, r) \in DOMAIN returns
                           /\ returns[ReturnOf(t, r)] = [call |-> t, weight |-> r.weight, rule |-> r]
                           /\ <<t, ReturnOf(t, r), One>> \in intra
                           /\ GenState(r.to[1]) \in EnteredStates
<1>1. RulesWellFormed /\ trans \subseteq PTransition
  BY LoadedRules DEF SaturationInv, SaturationType
<1>2. Handled(t, r)
  BY DEF SaturationInv, AllHandled
<1>3. CASE IsPush(r)
  <2>1. ReturnOf(t, r) \in DOMAIN returns /\ <<t, ReturnOf(t, r), One>> \in intra
    BY <1>2, <1>3 DEF Handled
  <2>2. PICK u \in trans, q \in program :
           /\ q \in RulesFrom(u[2]) /\ IsPush(q) /\ ReturnOf(t, r) = ReturnOf(u, q)
           /\ returns[ReturnOf(t, r)] = [call |-> u, weight |-> q.weight, rule |-> q]
    BY <2>1 DEF SaturationInv, OneCallEach, RulesFrom
  <2>3. u = t /\ q = r
    BY <1>1, <1>3, <2>2, ReturnUnique
  <2>4. GenState(r.to[1]) \in EnteredStates
    BY <2>1 DEF EnteredStates, ReturnOf
  <2> QED
    BY <1>1, <1>2, <1>3, <2>1, <2>2, <2>3, <2>4 DEF Handled
<1> QED
  BY <1>1, <1>2, <1>3 DEF Handled

\* And every call has met the epsilon transitions of its callee.
LEMMA CallThere ==
    ASSUME SaturationInv, worklist = {}, NEW t \in trans, NEW r \in RulesFrom(t[2]), IsPush(r),
           NEW e \in trans, e = <<P, Epsilon, GenState(r.to[1])>>
    PROVE  LET h == <<ReturnOf(t, r), e>>
           IN  h \in hyper /\ Closure(h) = <<P, r.to[2], t[3]>> /\ Closure(h) \in trans
<1> DEFINE h == <<ReturnOf(t, r), e>>
<1>1. ReturnOf(t, r) \in DOMAIN returns
  BY RuleThere
<1>2. h \in hyper
  BY <1>1 DEF SaturationInv, AllHandled, ReturnOf
<1>3. Closure(h) \in trans
  BY <1>2 DEF SaturationInv, OneCallEach
<1> QED
  BY <1>2, <1>3 DEF Closure, ReturnOf

\* The places behind the rules of a place that is there.
LEMMA PlaceThere ==
    ASSUME SaturationInv, worklist = {}, NEW x \in Places, NEW r \in program,
           TransitionAt(<<r.from, x[2]>>) \in trans
    PROVE  LET t == TransitionAt(<<r.from, x[2]>>)
           IN  /\ r \in RulesFrom(t[2])
               /\ Within(r, x[1]) => ~IsPush(r) /\ Target(t, r) = TransitionAt(x)
               /\ IsPush(r) /\ r.to[2] = x[1] => TransitionAt(x) = <<P, r.to[2], t[3]>>
<1> DEFINE y == <<r.from, x[2]>>
           t == TransitionAt(y)
<1>1. t[2] = r.from /\ t[3] = StateOf(x[2])
  BY DEF TransitionAt
<1>2. r \in RulesFrom(t[2])
  BY <1>1 DEF RulesFrom
<1>3. RulesWellFormed /\ t \in PTransition
  BY <1>2, RuleThere
<1>4. y \in Places /\ x = <<x[1], x[2]>> /\ y[2] = x[2]
  BY <1>3, PlaceFacts DEF RulesWellFormed
<1> HIDE DEF y
<1>5. ASSUME Within(r, x[1]) PROVE ~IsPush(r) /\ Target(t, r) = TransitionAt(x)
  <2>1. CASE x[1] = Epsilon
    <3>1. IsPop(r)
      BY <1>5, <2>1 DEF Within
    <3>2. Target(t, r) = TransitionAt(<<Epsilon, y[2]>>) /\ ~IsPush(r)
      BY <1>2, <1>3, <1>4, <3>1, NextPlace DEF RulesWellFormed
    <3> QED
      BY <1>4, <2>1, <3>2
  <2>2. CASE x[1] # Epsilon
    <3>1. r.to = <<x[1]>>
      BY <1>5, <2>2 DEF Within
    <3>2. IsStep(r) /\ r.to[1] = x[1]
      BY <3>1 DEF IsStep
    <3>3. Target(t, r) = TransitionAt(<<r.to[1], y[2]>>) /\ ~IsPush(r)
      BY <1>2, <1>3, <1>4, <3>2, NextPlace DEF RulesWellFormed
    <3> QED
      BY <1>4, <3>2, <3>3
  <2> QED
    BY <2>1, <2>2
<1>6. ASSUME r.to[2] = x[1] PROVE TransitionAt(x) = <<P, r.to[2], t[3]>>
  BY <1>1, <1>6 DEF TransitionAt
<1> QED
  BY <1>2, <1>5, <1>6 DEF y

\* Whatever a path comes to in a context that was entered is in the automaton.
LEMMA ReachedThere ==
    ASSUME SaturationInv, worklist = {}, NEW x \in Reached, StateOf(x[2]) \in EnteredStates
    PROVE  TransitionAt(x) \in trans
<1> DEFINE K == {y \in Places : StateOf(y[2]) \in EnteredStates => TransitionAt(y) \in trans}
<1>1. RulesWellFormed
  BY LoadedRules DEF SaturationInv, SaturationType
<1>2. ASSUME NEW c \in Contexts PROVE <<EntryOf(c), c>> \in K
  <2> DEFINE y == <<EntryOf(c), c>>
  <2>1. y \in Places /\ y[1] = EntryOf(c) /\ y[2] = c
    BY <1>1, PlaceFacts
  <2>2. ASSUME StateOf(c) \in EnteredStates PROVE TransitionAt(y) \in trans
    <3>1. CASE c = << >>
      <4>1. TransitionAt(y) = InitialTransition
        BY <1>1, <3>1, OnePlaceEach DEF TransitionAt, InitialTransition, EntryOf
      <4> QED
        BY <4>1 DEF SaturationInv, SaturationType
    <3>2. CASE c # << >>
      <4>1. StateOf(c) = GenState(c[1]) /\ EntryOf(c) = c[1]
        BY <3>2 DEF StateOf, EntryOf
      <4>2. PICK ret \in DOMAIN returns : ret[1] = GenState(c[1])
        BY <2>2, <4>1, StateNames DEF EnteredStates
      <4>3. PICK t \in trans, r \in program : r \in RulesFrom(t[2]) /\ IsPush(r) /\ ret = ReturnOf(t, r)
        BY DEF SaturationInv, OneCallEach, RulesFrom
      <4>4. r.to[1] = c[1]
        BY <4>2, <4>3, StateNames DEF ReturnOf
      <4>5. Target(t, r) = <<P, c[1], GenState(c[1])>> /\ Target(t, r) \in trans
        <5>1. RulesWellFormed /\ t \in PTransition /\ Target(t, r) \in trans
          BY <4>3, RuleThere
        <5>2. Target(t, r) = <<P, r.to[1], GenState(r.to[1])>>
          BY <4>3, <5>1, TargetType
        <5> QED
          BY <4>4, <5>1, <5>2
      <4> QED
        BY <4>1, <4>5 DEF TransitionAt
    <3> QED
      BY <3>1, <3>2
  <2> QED
    BY <2>1, <2>2
<1>3. ASSUME NEW y \in Places, NEW r \in program, <<r.from, y[2]>> \in K,
             Within(r, y[1]) \/ Returns(r, y[1], K), StateOf(y[2]) \in EnteredStates
      PROVE  TransitionAt(y) \in trans
  <2> DEFINE t == TransitionAt(<<r.from, y[2]>>)
  <2>1. t \in trans
    BY <1>3
  <2>2. /\ r \in RulesFrom(t[2])
        /\ Within(r, y[1]) => Target(t, r) = TransitionAt(y)
        /\ IsPush(r) /\ r.to[2] = y[1] => TransitionAt(y) = <<P, r.to[2], t[3]>>
    BY <2>1, PlaceThere
  <2> HIDE DEF t
  <2>3. CASE Within(r, y[1])
    BY <2>1, <2>2, <2>3, RuleThere
  <2>4. CASE Returns(r, y[1], K)
    <3> DEFINE z == <<Epsilon, <<r.to[1]>> >>
    <3>1. IsPush(r) /\ r.to[2] = y[1] /\ z \in K
      BY <2>4 DEF Returns
    <3>2. StateOf(z[2]) = GenState(r.to[1]) /\ TransitionAt(z) = <<P, Epsilon, GenState(r.to[1])>>
      BY <1>1, OnePlaceEach DEF TransitionAt
    <3>3. GenState(r.to[1]) \in EnteredStates
      BY <2>1, <2>2, <3>1, RuleThere
    <3>4. <<P, Epsilon, GenState(r.to[1])>> \in trans
      BY <3>1, <3>2, <3>3
    <3> DEFINE e == <<P, Epsilon, GenState(r.to[1])>>
               h == <<ReturnOf(t, r), e>>
    <3>5. Closure(h) = <<P, r.to[2], t[3]>> /\ Closure(h) \in trans
      BY <2>1, <2>2, <3>1, <3>4, CallThere
    <3> QED
      BY <2>2, <3>1, <3>5
  <2> QED
    BY <1>3, <2>3, <2>4
<1>4. \A y \in Places, r \in program :
         <<r.from, y[2]>> \in K /\ (Within(r, y[1]) \/ Returns(r, y[1], K)) => y \in K
  BY <1>3
<1>5. K \in SUBSET Places
  OBVIOUS
<1> HIDE DEF K
<1>6. Reached \subseteq K
  BY <1>1, <1>2, <1>4, <1>5, ReachedFacts
<1> QED
  BY <1>6 DEF K

\* What the equations give is in the engine's result; where the automaton has no
\* transition it is nothing.
LEMMA SumsThere ==
    ASSUME SaturationInv, SolveInv, phase = "done"
    PROVE  \A x \in Places : StateOf(x[2]) \in EnteredStates =>
              Sums[x] \subseteq IF TransitionAt(x) \in trans THEN NodeWeights[TransitionAt(x)] ELSE Zero
<1> DEFINE All == Var \X Var
           There(x) == IF TransitionAt(x) \in trans THEN NodeWeights[TransitionAt(x)] ELSE Zero
           bound == [x \in Places |-> IF StateOf(x[2]) \in EnteredStates THEN There(x) ELSE All]
<1>1. RulesWellFormed /\ worklist = {} /\ MergedType
  <2>1. phase # "saturate"
    OBVIOUS
  <2> QED
    BY <2>1, LoadedRules, DoneFacts, SolvingMerges DEF SaturationInv, SaturationType
<1>2. /\ NodeWeights \in [Nodes -> Weight]
      /\ \A n \in sources : n \in trans /\ One \subseteq NodeWeights[n]
      /\ \A e \in intra : Extend(NodeWeights[e[1]], e[3]) \subseteq NodeWeights[e[2]]
      /\ \A h \in hyper : Extend(NodeWeights[h[1]], merged[h]) \subseteq NodeWeights[Closure(h)]
  BY <1>1, NodeWeightsOfGraphs, NodeWeightsFacts
<1>3. PICK NW : NW = NodeWeights
  OBVIOUS
<1>4. \A x \in Places : TransitionAt(x) \in trans => There(x) = NW[TransitionAt(x)] /\ There(x) \in Weight
  BY <1>2, <1>3 DEF Nodes
<1>5. bound \in [Places -> Weight]
  <2>1. All \in Weight /\ Zero \in Weight
    BY DEF Weight, Zero
  <2>2. \A x \in Places : There(x) \in Weight
    BY <2>1, <1>4
  <2> HIDE DEF There, All
  <2> QED
    BY <2>1, <2>2
<1>6. /\ \A x \in Places : StateOf(x[2]) \in EnteredStates => bound[x] = There(x)
      /\ \A x \in Places : StateOf(x[2]) \notin EnteredStates => bound[x] = All
      /\ \A x \in Places : TransitionAt(x) \notin trans => There(x) = Zero
  OBVIOUS
<1> HIDE DEF bound, There
<1>7. ASSUME NEW c \in Contexts PROVE One \subseteq bound[<<EntryOf(c), c>>]
  <2> DEFINE y == <<EntryOf(c), c>>
  <2>1. y \in Places /\ y[1] = EntryOf(c) /\ y[2] = c /\ y \in Reached
    BY <1>1, PlaceFacts, ReachedFacts
  <2> HIDE DEF y
  <2>2. CASE StateOf(y[2]) \notin EnteredStates
    BY <2>1, <2>2, <1>6, OneIsWeight DEF Weight, y
  <2>3. CASE StateOf(y[2]) \in EnteredStates
    <3>1. TransitionAt(y) \in trans
      BY <1>1, <2>1, <2>3, ReachedThere
    <3>2. TransitionAt(y) \in sources
      <4>1. CASE c = << >>
        <5>1. TransitionAt(y) = InitialTransition
          BY <1>1, <2>1, <4>1, OnePlaceEach DEF TransitionAt, InitialTransition, EntryOf
        <5> QED
          BY <5>1 DEF SaturationInv, AllHandled
      <4>2. CASE c # << >>
        <5>1. StateOf(c) = GenState(c[1]) /\ EntryOf(c) = c[1]
          BY <4>2 DEF StateOf, EntryOf
        <5>2. PICK ret \in DOMAIN returns : ret[1] = GenState(c[1])
          BY <2>1, <2>3, <5>1, StateNames DEF EnteredStates
        <5>3. PICK t \in trans, r \in program : r \in RulesFrom(t[2]) /\ IsPush(r) /\ ret = ReturnOf(t, r)
          BY DEF SaturationInv, OneCallEach, RulesFrom
        <5>4. r.to[1] = c[1]
          BY <5>2, <5>3, StateNames DEF ReturnOf
        <5>5. t \in PTransition /\ Handled(t, r)
          BY <1>1, <5>3, RuleThere
        <5>6. Target(t, r) = <<P, r.to[1], GenState(r.to[1])>> /\ Target(t, r) \in sources
          BY <1>1, <5>3, <5>5, TargetType DEF Handled
        <5> QED
          BY <2>1, <5>1, <5>4, <5>6 DEF TransitionAt
      <4> QED
        BY <4>1, <4>2
    <3> QED
      BY <2>1, <2>3, <3>1, <3>2, <1>2, <1>3, <1>4, <1>6 DEF y
  <2> QED
    BY <2>2, <2>3
<1>8. \A x \in Places, r \in program : <<r.from, x[2]>> \in Places
  BY <1>1, PlaceFacts DEF RulesWellFormed
<1>9. ASSUME NEW x \in Places, NEW r \in program, Within(r, x[1])
      PROVE  Extend(bound[<<r.from, x[2]>>], r.weight) \subseteq bound[x]
  <2> DEFINE y == <<r.from, x[2]>>
             t == TransitionAt(y)
  <2>1. y \in Places /\ y[2] = x[2] /\ r.weight \in Weight
    BY <1>1, <1>8 DEF RulesWellFormed
  <2>2. CASE StateOf(x[2]) \notin EnteredStates
    <3>1. bound[y] \in Weight
      BY <1>5, <2>1
    <3>2. Extend(bound[y], r.weight) \in Weight
      BY <3>1, <2>1, ExtendType
    <3> QED
      BY <2>2, <3>2, <1>6 DEF Weight
  <2>3. CASE StateOf(x[2]) \in EnteredStates /\ t \notin trans
    <3>1. bound[y] = Zero
      BY <2>1, <2>3, <1>6
    <3> QED
      BY <3>1, <2>1, ExtendZero DEF Zero
  <2>4. CASE StateOf(x[2]) \in EnteredStates /\ t \in trans
    <3>1. r \in RulesFrom(t[2]) /\ ~IsPush(r) /\ Target(t, r) = TransitionAt(x)
      BY <1>1, <1>9, <2>4, PlaceThere
    <3>2. bound[y] = NW[t]
      BY <2>1, <2>4, <1>4, <1>6
    <3> HIDE DEF y, t
    <3>3. TransitionAt(x) \in trans /\ <<t, TransitionAt(x), r.weight>> \in intra
      BY <1>1, <2>4, <3>1, RuleThere
    <3>4. Extend(NW[t], r.weight) \subseteq NW[TransitionAt(x)]
      BY <3>3, <1>2, <1>3
    <3>5. bound[x] = NW[TransitionAt(x)]
      BY <2>4, <3>3, <1>4, <1>6
    <3> QED
      BY <3>2, <3>4, <3>5 DEF y
  <2> QED
    BY <2>2, <2>3, <2>4
<1>10. ASSUME NEW x \in Places, NEW r \in program, Returns(r, x[1], Reached)
       PROVE  Merge(bound[<<r.from, x[2]>>], r.weight, bound[<<Epsilon, <<r.to[1]>> >>], r.callee) \subseteq bound[x]
  <2> DEFINE y == <<r.from, x[2]>>
             z == <<Epsilon, <<r.to[1]>> >>
             t == TransitionAt(y)
  <2>1. y \in Places /\ y[2] = x[2] /\ r.weight \in Weight /\ r.callee \in Functions
    BY <1>1, <1>8 DEF RulesWellFormed
  <2>2. IsPush(r) /\ r.to[2] = x[1] /\ z \in Reached /\ z \in Places
    BY <1>1, <1>10, ReachedFacts DEF Returns
  <2>3. bound[y] \in Weight /\ bound[z] \in Weight
    BY <1>5, <2>1, <2>2
  <2>4. CASE StateOf(x[2]) \notin EnteredStates
    <3>1. Merge(bound[y], r.weight, bound[z], r.callee) \in Weight
      BY <2>1, <2>3, MergeType
    <3> QED
      BY <2>4, <3>1, <1>6 DEF Weight
  <2>5. CASE StateOf(x[2]) \in EnteredStates /\ t \notin trans
    <3>1. bound[y] = Zero
      BY <2>1, <2>5, <1>6
    <3>2. CalleeEffect(bound[z], r.callee) \in Weight
      BY <2>1, <2>3, CalleeEffectType
    <3>3. Merge(bound[y], r.weight, bound[z], r.callee) = Zero
      BY <3>1, <3>2, <2>1, ExtendZero DEF Merge
    <3> QED
      BY <3>3 DEF Zero
  <2>6. CASE StateOf(x[2]) \in EnteredStates /\ t \in trans
    <3> DEFINE e == <<P, Epsilon, GenState(r.to[1])>>
               ret == ReturnOf(t, r)
               h == <<ret, e>>
               u == TransitionAt(x)
    <3>1. r \in RulesFrom(t[2]) /\ u = <<P, r.to[2], t[3]>>
      BY <1>1, <2>2, <2>6, PlaceThere
    <3>2. bound[y] = NW[t]
      BY <2>1, <2>6, <1>4, <1>6
    <3>3. StateOf(z[2]) = GenState(r.to[1]) /\ TransitionAt(z) = e
      BY <1>1, OnePlaceEach DEF TransitionAt
    <3> HIDE DEF y, z, t, u
    <3>4. /\ ret \in DOMAIN returns /\ <<t, ret, One>> \in intra
          /\ returns[ret] = [call |-> t, weight |-> r.weight, rule |-> r]
          /\ GenState(r.to[1]) \in EnteredStates
      BY <1>1, <2>2, <2>6, <3>1, RuleThere
    <3>5. e \in trans
      BY <1>1, <2>2, <3>3, <3>4, ReachedThere
    <3>6. h \in hyper /\ Closure(h) = u /\ u \in trans
      BY <1>1, <2>2, <2>6, <3>1, <3>5, CallThere
    <3>7. bound[z] = NW[e] /\ bound[x] = NW[u]
      BY <2>2, <2>6, <3>3, <3>4, <3>5, <3>6, <1>4, <1>6 DEF u
    <3>8. NW[t] \in Weight /\ NW[ret] \in Weight /\ NW[e] \in Weight
      BY <2>6, <3>4, <3>5, <1>2, <1>3 DEF Nodes
    <3>9. NW[t] \subseteq NW[ret]
      <4>1. Extend(NW[t], One) \subseteq NW[ret]
        BY <3>4, <1>2, <1>3
      <4> QED
        BY <4>1, <3>8, ExtendOne
    <3>10. merged[h] = Merge(One, r.weight, NW[e], r.callee)
      BY <3>4, <3>6, <1>3, DoneFacts
    <3>11. Extend(NW[ret], merged[h]) \subseteq NW[u]
      BY <3>6, <1>2, <1>3
    <3>12. Merge(NW[t], r.weight, NW[e], r.callee) \subseteq Extend(NW[ret], Merge(One, r.weight, NW[e], r.callee))
      BY <2>1, <3>8, <3>9, MergeMonotone
    <3>13. Merge(bound[y], r.weight, bound[z], r.callee) \subseteq bound[x]
      BY <3>2, <3>7, <3>10, <3>11, <3>12
    <3> QED
      BY <3>13 DEF y, z
  <2> QED
    BY <2>4, <2>5, <2>6
<1>11. SolvesSums(bound)
  BY <1>7, <1>9, <1>10 DEF SolvesSums
<1>12. Below(Sums, bound, Places)
  BY <1>1, <1>5, <1>11, SumsLeast
<1>13. ASSUME NEW x \in Places, StateOf(x[2]) \in EnteredStates PROVE Sums[x] \subseteq There(x)
  BY <1>6, <1>12, <1>13 DEF Below
<1> QED
  BY <1>13 DEF There

\* A state that was entered is that of one context.
LEMMA ContextOfState ==
    ASSUME SaturationInv
    PROVE  /\ \A c, d \in Contexts : StateOf(c) = StateOf(d) => c = d
           /\ \A q \in EnteredStates : \E c \in Contexts : q = StateOf(c)
           /\ StateOf(<< >>) = Accept /\ \A s : StateOf(<<s>>) = GenState(s)
<1>1. RulesWellFormed
  BY LoadedRules DEF SaturationInv, SaturationType
<1>2. ASSUME NEW c \in Contexts, NEW d \in Contexts, StateOf(c) = StateOf(d) PROVE c = d
  <2> DEFINE x == <<Start, c>>
             y == <<Start, d>>
  <2>1. x \in Places /\ y \in Places /\ TransitionAt(x) = TransitionAt(y) /\ x[2] = c /\ y[2] = d
    BY <1>1, <1>2, PlaceFacts DEF TransitionAt, RulesWellFormed
  <2> HIDE DEF x, y
  <2>2. x = y
    BY <1>1, <2>1, OnePlaceEach
  <2> QED
    BY <2>1, <2>2
<1>3. ASSUME NEW q \in EnteredStates PROVE \E c \in Contexts : q = StateOf(c)
  <2>1. CASE q = Accept
    BY <1>1, <2>1, PlaceFacts, OnePlaceEach
  <2>2. CASE q # Accept
    <3>1. PICK ret \in DOMAIN returns : q = ret[1]
      BY <2>2 DEF EnteredStates
    <3>2. PICK t \in trans, r \in program : r \in RulesFrom(t[2]) /\ IsPush(r) /\ ret = ReturnOf(t, r)
      BY DEF SaturationInv, OneCallEach, RulesFrom
    <3>3. q = GenState(r.to[1])
      BY <3>1, <3>2 DEF ReturnOf
    <3> QED
      BY <1>1, <3>2, <3>3, PlaceFacts, OnePlaceEach
  <2> QED
    BY <2>1, <2>2
<1> QED
  BY <1>1, <1>2, <1>3, OnePlaceEach

\* The weights of the nodes are below the sums.
LEMMA NodesBelow ==
    ASSUME SaturationInv, SolveInv, PrecisionInv, phase # "saturate"
    PROVE  /\ \A n \in Nodes : NodeWeights[n] \subseteq Upper(n)
           /\ \A t \in trans, x \in Places : t = TransitionAt(x) => NodeWeights[t] \subseteq Sums[x]
<1>1. MergedType
  BY SolvingMerges
<1>2. ASSUME NEW n \in Nodes PROVE NodeWeights[n] \subseteq Upper(n)
  <2>1. GraphOf(n) \in IntraGraphs /\ NodeWeights[n] = Solution(GraphOf(n))[n] /\ n \in GraphOf(n)
    BY <1>1, NodeWeightsOfGraphs, GraphFacts
  <2> QED
    BY <1>1, <2>1, SolutionBelow DEF PrecisionInv
<1>3. ASSUME NEW t \in trans, NEW x \in Places, t = TransitionAt(x) PROVE NodeWeights[t] \subseteq Sums[x]
  <2>1. Upper(t) = Sums[x] /\ t \in Nodes
    BY <1>3, UpperFacts DEF PrecisionInv, Nodes
  <2> QED
    BY <2>1, <1>2
<1> QED
  BY <1>2, <1>3

\* The weight of a call: the place it is made from, and what comes before the return.
LEMMA CallWeight ==
    ASSUME SaturationInv, NEW t \in trans, NEW r \in RulesFrom(t[2]), IsPush(r), NEW ret, ret = ReturnOf(t, r),
           ret \in DOMAIN returns, NEW solution
    PROVE  /\ GetWeight(solution, ret) = Extend(solution[t], r.weight)
           /\ ret[1] = GenState(r.to[1]) /\ ret[3] = t[3] /\ ret[1] \in EnteredStates /\ t[3] \in EnteredStates
<1>1. RulesWellFormed /\ trans \subseteq PTransition
  BY LoadedRules DEF SaturationInv, SaturationType
<1>2. PICK u \in trans, q \in program :
         /\ q \in RulesFrom(u[2]) /\ IsPush(q) /\ ret = ReturnOf(u, q)
         /\ returns[ret] = [call |-> u, weight |-> q.weight, rule |-> q]
  BY DEF SaturationInv, OneCallEach, RulesFrom
<1>3. u = t /\ q = r
  BY <1>1, <1>2, ReturnUnique
<1>4. GetWeight(solution, ret) = Extend(solution[t], r.weight)
  BY <1>2, <1>3 DEF GetWeight
<1>5. ret[1] = GenState(r.to[1]) /\ ret[3] = t[3]
  BY DEF ReturnOf
<1> QED
  BY <1>4, <1>5 DEF SaturationInv, SaturationType, EnteredStates

\* What the engine gives a state is below the entry of its context.
LEMMA SummaryBelow ==
    ASSUME SaturationInv, SolveInv, PrecisionInv, phase = "done"
    PROVE  \A c \in Contexts : StateOf(c) \in EnteredStates =>
              PathSummary(NodeWeights)[StateOf(c)] \subseteq Entries(Sums)[c]
<1>1. RulesWellFormed /\ MergedType
  BY LoadedRules, SolvingMerges DEF SaturationInv, SaturationType
<1>2. PICK NW \in [Nodes -> Weight] : NW = NodeWeights
  BY <1>1, NodeWeightsOfGraphs
<1>3. PICK sum \in [Places -> Weight] : sum = Sums
  BY <1>1, SumsLeast
<1>4. PICK entry \in [Contexts -> Weight] : entry = Entries(sum) /\ SolvesEntries(sum, entry)
  BY <1>1, EntriesLeast
<1> DEFINE ContextOf(q) == CHOOSE c \in Contexts : q = StateOf(c)
           bound == [q \in EnteredStates |-> entry[ContextOf(q)]]
<1>5. \A q \in EnteredStates : ContextOf(q) \in Contexts /\ q = StateOf(ContextOf(q))
  BY ContextOfState
<1>6. \A c \in Contexts : StateOf(c) \in EnteredStates => ContextOf(StateOf(c)) = c
  BY <1>5, ContextOfState
<1> HIDE DEF ContextOf
<1>7. /\ bound \in [EnteredStates -> Weight]
      /\ \A c \in Contexts : StateOf(c) \in EnteredStates => bound[StateOf(c)] = entry[c]
  BY <1>5, <1>6
<1> HIDE DEF bound
<1>8. One \subseteq bound[Accept]
  <2>1. << >> \in Contexts /\ StateOf(<< >>) = Accept /\ Accept \in EnteredStates
    BY <1>1, PlaceFacts, ContextOfState DEF EnteredStates
  <2> QED
    BY <2>1, <1>4, <1>7 DEF SolvesEntries
<1>9. ASSUME NEW ret \in DOMAIN returns PROVE Extend(bound[ret[3]], GetWeight(NW, ret)) \subseteq bound[ret[1]]
  <2>1. PICK t \in trans, r \in program :
           r \in RulesFrom(t[2]) /\ IsPush(r) /\ ret = ReturnOf(t, r) /\ t \in PTransition
    BY UpperFacts DEF PrecisionInv, RulesFrom
  <2>2. PICK x \in Reached : x \in Places /\ t = TransitionAt(x)
    BY PlaceOfTransition DEF PrecisionInv
  <2>3. x = <<r.from, x[2]>> /\ x[2] \in Contexts /\ <<r.to[1]>> \in Contexts /\ t[3] = StateOf(x[2])
    BY <1>1, <2>1, <2>2, NextPlace DEF TransitionAt
  <2>4. /\ GetWeight(NW, ret) = Extend(NW[t], r.weight)
        /\ ret[1] = GenState(r.to[1]) /\ ret[3] = t[3] /\ ret[1] \in EnteredStates /\ t[3] \in EnteredStates
    BY <2>1, CallWeight
  <2>5. NW[t] \subseteq sum[x]
    BY <2>2, <1>2, <1>3, NodesBelow
  <2>6. StateOf(<<r.to[1]>>) = GenState(r.to[1])
    BY ContextOfState
  <2>7. bound[ret[1]] = entry[<<r.to[1]>>] /\ bound[ret[3]] = entry[x[2]]
    BY <2>3, <2>4, <2>6, <1>7
  <2>8. Extend(entry[x[2]], Extend(sum[x], r.weight)) \subseteq entry[<<r.to[1]>>]
    BY <2>1, <2>3, <1>4 DEF SolvesEntries
  <2>9. Extend(NW[t], r.weight) \subseteq Extend(sum[x], r.weight)
    BY <2>5, ExtendMonotone
  <2>10. Extend(entry[x[2]], Extend(NW[t], r.weight)) \subseteq Extend(entry[x[2]], Extend(sum[x], r.weight))
    BY <2>9, ExtendMonotone
  <2> QED
    BY <2>4, <2>7, <2>8, <2>10
<1>10. \A q \in EnteredStates : PathSummary(NW)[q] \subseteq bound[q]
  BY <1>7, <1>8, <1>9, SummaryFacts
<1> QED
  BY <1>2, <1>3, <1>4, <1>7, <1>10

\* The entry of a context is in what the engine gives its state; a context that was
\* not entered has none.
LEMMA EntriesThere ==
    ASSUME SaturationInv, SolveInv, phase = "done"
    PROVE  \A c \in Contexts : Entries(Sums)[c] \subseteq
              IF StateOf(c) \in EnteredStates THEN PathSummary(NodeWeights)[StateOf(c)] ELSE Zero
<1>1. RulesWellFormed /\ MergedType /\ worklist = {}
  BY LoadedRules, SolvingMerges, DoneFacts DEF SaturationInv, SaturationType
<1>2. PICK NW \in [Nodes -> Weight] : NW = NodeWeights
  BY <1>1, NodeWeightsOfGraphs
<1>3. PICK sum \in [Places -> Weight] : sum = Sums
  BY <1>1, SumsLeast
<1>4. PICK summary \in [EnteredStates -> Weight] :
         /\ summary = PathSummary(NW) /\ One \subseteq summary[Accept]
         /\ \A t \in DOMAIN returns : Extend(summary[t[3]], GetWeight(NW, t)) \subseteq summary[t[1]]
  BY SummaryFacts
<1> DEFINE Given(c) == IF StateOf(c) \in EnteredStates THEN summary[StateOf(c)] ELSE Zero
           bound == [c \in Contexts |-> Given(c)]
<1>5. bound \in [Contexts -> Weight]
  BY DEF Zero, Weight
<1>6. /\ \A c \in Contexts : StateOf(c) \in EnteredStates => bound[c] = summary[StateOf(c)]
      /\ \A c \in Contexts : StateOf(c) \notin EnteredStates => bound[c] = Zero
      /\ \A c \in Contexts : bound[c] = Given(c)
  OBVIOUS
<1> HIDE DEF bound, Given
<1>7. One \subseteq bound[<< >>]
  <2>1. << >> \in Contexts /\ StateOf(<< >>) = Accept /\ Accept \in EnteredStates
    BY <1>1, PlaceFacts, ContextOfState DEF EnteredStates
  <2> QED
    BY <2>1, <1>4, <1>6
<1>8. ASSUME NEW caller \in Contexts, NEW r \in program, IsPush(r)
      PROVE  Extend(bound[caller], Extend(sum[<<r.from, caller>>], r.weight)) \subseteq bound[<<r.to[1]>>]
  <2> DEFINE x == <<r.from, caller>>
             t == TransitionAt(x)
  <2>1. x \in Places /\ x[1] = r.from /\ x[2] = caller /\ r.weight \in Weight /\ <<r.to[1]>> \in Contexts
    BY <1>1, <1>8, PlaceFacts DEF RulesWellFormed
  <2>2. t[2] = r.from /\ t[3] = StateOf(caller)
    BY DEF TransitionAt
  <2> HIDE DEF x
  <2>3. sum[x] \in Weight /\ Extend(sum[x], r.weight) \in Weight /\ bound[caller] \in Weight
    BY <2>1, <1>5, ExtendType
  <2>4. CASE StateOf(caller) \notin EnteredStates
    <3>1. Extend(bound[caller], Extend(sum[x], r.weight)) = Zero
      BY <2>3, <2>4, <1>6, ExtendZero
    <3> QED
      BY <3>1 DEF Zero, x
  <2>5. CASE StateOf(caller) \in EnteredStates /\ t \notin trans
    <3>1. sum[x] = Zero
      BY <2>1, <2>5, <1>3, SumsThere DEF Zero
    <3>2. Extend(sum[x], r.weight) = Zero
      BY <2>1, <3>1, ExtendZero
    <3>3. Extend(bound[caller], Extend(sum[x], r.weight)) = Zero
      BY <2>3, <3>2, ExtendZero
    <3> QED
      BY <3>3 DEF Zero, x
  <2>6. CASE StateOf(caller) \in EnteredStates /\ t \in trans
    <3> DEFINE ret == ReturnOf(t, r)
    <3> HIDE DEF t
    <3>1. r \in RulesFrom(t[2])
      BY <2>2 DEF RulesFrom
    <3>2. ret \in DOMAIN returns
      BY <3>1, <2>6, <1>1, <1>8, RuleThere
    <3>3. /\ GetWeight(NW, ret) = Extend(NW[t], r.weight)
          /\ ret[1] = GenState(r.to[1]) /\ ret[3] = t[3] /\ ret[1] \in EnteredStates
      BY <3>1, <3>2, <2>6, <1>8, CallWeight
    <3> HIDE DEF ret
    <3>4. sum[x] \subseteq NW[t]
      BY <2>1, <2>6, <1>2, <1>3, SumsThere DEF t
    <3>5. bound[caller] = summary[ret[3]] /\ bound[<<r.to[1]>>] = summary[ret[1]]
      BY <2>1, <2>2, <2>6, <3>3, <1>6, ContextOfState
    <3>6. Extend(summary[ret[3]], GetWeight(NW, ret)) \subseteq summary[ret[1]]
      BY <3>2, <1>4
    <3>7. Extend(sum[x], r.weight) \subseteq Extend(NW[t], r.weight)
      BY <3>4, ExtendMonotone
    <3>8. Extend(bound[caller], Extend(sum[x], r.weight)) \subseteq Extend(bound[caller], Extend(NW[t], r.weight))
      BY <3>7, ExtendMonotone
    <3> QED
      BY <3>3, <3>5, <3>6, <3>8 DEF x
  <2> QED
    BY <2>4, <2>5, <2>6
<1>9. SolvesEntries(sum, bound)
  BY <1>7, <1>8 DEF SolvesEntries
<1>10. Below(Entries(sum), bound, Contexts)
  BY <1>1, <1>5, <1>9, EntriesLeast
<1>11. ASSUME NEW c \in Contexts PROVE Entries(sum)[c] \subseteq Given(c)
  BY <1>6, <1>10 DEF Below
<1> QED
  BY <1>2, <1>3, <1>4, <1>11 DEF Given

-----------------------------------------------------------------------------
(* The answer is the join.                                                 *)

\* The engine's result is the join over all paths: no less, and no more.
LEMMA AnswerIsJoin ==
    ASSUME SaturationInv, SolveInv, PrecisionInv, phase = "done"
    PROVE  Answered = Join
<1>1. RulesWellFormed /\ MergedType
  BY LoadedRules, SolvingMerges DEF SaturationInv, SaturationType
<1>2. PICK NW \in [Nodes -> Weight] : NW = NodeWeights
  BY <1>1, NodeWeightsOfGraphs
<1>3. PICK sum \in [Places -> Weight] : sum = Sums
  BY <1>1, SumsLeast
<1>4. PICK summary \in [EnteredStates -> Weight] : summary = PathSummary(NW)
  BY SummaryFacts
<1>5. PICK entry \in [Contexts -> Weight] : entry = Entries(sum)
  BY <1>1, EntriesLeast
<1>6. result = [t \in {t \in trans : t[2] # Epsilon} |-> Extend(summary[t[3]], NW[t])]
  BY <1>2, <1>4, DoneFacts DEF ReadResult
<1> DEFINE Is(x) == LET t == TransitionAt(x) IN IF t \in DOMAIN result THEN result[t] ELSE Zero
           Should(x) == Extend(entry[x[2]], sum[x])
<1>7. ASSUME NEW x \in Symbols \X Contexts PROVE Is(x) = Should(x)
  <2> DEFINE t == TransitionAt(x)
  <2>1. x \in Places /\ x[2] \in Contexts /\ t[2] # Epsilon /\ t[3] = StateOf(x[2])
    BY <1>1, PlaceFacts DEF TransitionAt, RulesWellFormed
  <2>2. sum[x] \in Weight /\ entry[x[2]] \in Weight
    BY <2>1
  <2>3. CASE t \in trans
    <3>1. t[3] \in EnteredStates
      BY <2>3 DEF SaturationInv, SaturationType
    <3>2. NW[t] = sum[x]
      <4>1. NW[t] \subseteq sum[x]
        BY <2>1, <2>3, <1>2, <1>3, NodesBelow
      <4>2. sum[x] \subseteq NW[t]
        BY <2>1, <2>3, <3>1, <1>2, <1>3, SumsThere
      <4> QED
        BY <4>1, <4>2
    <3>3. summary[t[3]] = entry[x[2]]
      <4>1. summary[t[3]] \subseteq entry[x[2]]
        BY <2>1, <3>1, <1>2, <1>3, <1>4, <1>5, SummaryBelow
      <4>2. entry[x[2]] \subseteq summary[t[3]]
        BY <2>1, <3>1, <1>2, <1>3, <1>4, <1>5, EntriesThere
      <4> QED
        BY <4>1, <4>2
    <3> HIDE DEF t
    <3>4. t \in DOMAIN result /\ result[t] = Extend(summary[t[3]], NW[t])
      BY <2>1, <2>3, <1>6
    <3> QED
      BY <3>2, <3>3, <3>4 DEF t
  <2>4. CASE t \notin trans
    <3>1. t \notin DOMAIN result
      BY <2>4, <1>6
    <3>2. CASE StateOf(x[2]) \in EnteredStates
      <4>1. sum[x] = Zero
        BY <2>1, <2>4, <3>2, <1>3, SumsThere DEF Zero
      <4> QED
        BY <2>2, <3>1, <4>1, ExtendZero
    <3>3. CASE StateOf(x[2]) \notin EnteredStates
      <4>1. entry[x[2]] = Zero
        BY <2>1, <3>3, <1>3, <1>5, EntriesThere DEF Zero
      <4> QED
        BY <2>2, <3>1, <4>1, ExtendZero
    <3> QED
      BY <3>2, <3>3
  <2> QED
    BY <2>3, <2>4
<1>8. Answered = [x \in Symbols \X Contexts |-> Is(x)]
  BY DEF Answered
<1>9. Join = [x \in Symbols \X Contexts |-> Should(x)]
  BY <1>3, <1>5 DEF Join
<1> HIDE DEF Is, Should
<1> QED
  BY <1>7, <1>8, <1>9

-----------------------------------------------------------------------------
(* The refinement.                                                         *)

\* The abstract analyser has the equations of this one.
LEMMA SameWeights ==
    /\ Abstract!One = One
    /\ \A a, b : Abstract!Extend(a, b) = Extend(a, b)
    /\ \A b, r, s, f : Abstract!Merge(b, r, s, f) = Merge(b, r, s, f)
    /\ \A r : (Abstract!IsPop(r) <=> IsPop(r)) /\ (Abstract!IsStep(r) <=> IsStep(r)) /\ (Abstract!IsPush(r) <=> IsPush(r))
<1>1. Abstract!One = One
  BY DEF Abstract!One, One, Abstract!IdentityOn, IdentityOn,
     Abstract!Var, Var, Abstract!Constants, Constants, Abstract!Variables, Variables
<1>2. \A a, b : Abstract!Extend(a, b) = Extend(a, b)
  BY DEF Abstract!Extend, Extend
<1>3. \A s, f : Abstract!CalleeEffect(s, f) = CalleeEffect(s, f)
  <2>1. \A w, f : Abstract!MakeReal(w, f) = MakeReal(w, f)
    BY DEF Abstract!MakeReal, MakeReal
  <2> QED
    BY <2>1 DEF Abstract!CalleeEffect, CalleeEffect, Abstract!IdentityOn, IdentityOn, Abstract!Constants, Constants
<1>4. \A b, r, s, f : Abstract!Merge(b, r, s, f) = Merge(b, r, s, f)
  BY <1>2, <1>3 DEF Abstract!Merge, Merge
<1>5. \A r : (Abstract!IsPop(r) <=> IsPop(r)) /\ (Abstract!IsStep(r) <=> IsStep(r)) /\ (Abstract!IsPush(r) <=> IsPush(r))
  BY DEF Abstract!IsPop, IsPop, Abstract!IsPush, IsPush, Abstract!IsStep, IsStep
<1> QED
  BY <1>1, <1>2, <1>4, <1>5

\* So it has the same join.
LEMMA SameJoin == Abstract!Join = Join
<1>1. Abstract!Contexts = Contexts /\ Abstract!Places = Places /\ Abstract!Weight = Weight /\ Abstract!Zero = Zero
  <2>1. Abstract!Contexts = Contexts
    BY SameWeights DEF Abstract!Contexts, Contexts
  <2> QED
    BY <2>1 DEF Abstract!Places, Places, Abstract!Weight, Weight, Abstract!Zero, Zero,
       Abstract!Var, Var, Abstract!Constants, Constants, Abstract!Variables, Variables
<1>2. \A c : Abstract!EntryOf(c) = EntryOf(c)
  BY DEF Abstract!EntryOf, EntryOf
<1>3. \A r, s : Abstract!Within(r, s) <=> Within(r, s)
  BY SameWeights DEF Abstract!Within, Within
<1>4. \A r, s, S : Abstract!Returns(r, s, S) <=> Returns(r, s, S)
  BY SameWeights DEF Abstract!Returns, Returns
<1>5. \A S : Abstract!Only(S) = Only(S)
  BY DEF Abstract!Only, Only
<1>6. \A step, start : Abstract!Repeated(step, start) = Repeated(step, start)
  BY <1>5 DEF Abstract!Repeated, Repeated
<1>7. Abstract!Reached = Reached
  BY <1>1, <1>2, <1>3, <1>4, <1>6 DEF Abstract!Reached, Reached
<1>8. ASSUME NEW reached, NEW sum PROVE Abstract!Summarise(reached, sum) = Summarise(reached, sum)
  <2> DEFINE Plain(x) == {Extend(sum[<<r.from, x[2]>>], r.weight) : r \in {r \in program : Within(r, x[1])}}
             Calls(x) == {Merge(sum[<<r.from, x[2]>>], r.weight, sum[<<Epsilon, <<r.to[1]>> >>], r.callee) :
                             r \in {r \in program : Returns(r, x[1], reached)}}
             PlainA(x) == {Abstract!Extend(sum[<<r.from, x[2]>>], r.weight) :
                             r \in {r \in program : Abstract!Within(r, x[1])}}
             CallsA(x) == {Abstract!Merge(sum[<<r.from, x[2]>>], r.weight, sum[<<Epsilon, <<r.to[1]>> >>], r.callee) :
                             r \in {r \in program : Abstract!Returns(r, x[1], reached)}}
  <2>1. \A x : PlainA(x) = Plain(x)
    BY <1>3, SameWeights
  <2>2. \A x : CallsA(x) = Calls(x)
    BY <1>4, SameWeights
  <2>3. Abstract!Summarise(reached, sum) = [x \in Abstract!Places |-> sum[x] \cup UNION (PlainA(x) \cup CallsA(x))]
    BY DEF Abstract!Summarise
  <2>4. Summarise(reached, sum) = [x \in Places |-> sum[x] \cup UNION (Plain(x) \cup Calls(x))]
    BY DEF Summarise
  <2> HIDE DEF Plain, Calls, PlainA, CallsA
  <2> QED
    BY <2>1, <2>2, <2>3, <2>4, <1>1
<1>9. Abstract!Sums = Sums
  BY <1>1, <1>2, <1>5, <1>6, <1>7, <1>8, SameWeights DEF Abstract!Sums, Sums
<1>10. ASSUME NEW sum, NEW entry PROVE Abstract!EntryWeights(sum, entry) = EntryWeights(sum, entry)
  <2> DEFINE calls(c) == {r \in program : IsPush(r) /\ <<r.to[1]>> = c}
             callsA(c) == {r \in program : Abstract!IsPush(r) /\ <<r.to[1]>> = c}
             Call(caller, r) == Extend(entry[caller], Extend(sum[<<r.from, caller>>], r.weight))
             CallA(caller, r) == Abstract!Extend(entry[caller], Abstract!Extend(sum[<<r.from, caller>>], r.weight))
             CallsTo(c) == {Call(caller, r) : caller \in Contexts, r \in calls(c)}
             CallsToA(c) == {CallA(caller, r) : caller \in Abstract!Contexts, r \in callsA(c)}
  <2>1. ASSUME NEW c PROVE CallsToA(c) = CallsTo(c)
    <3>1. callsA(c) = calls(c) /\ \A caller, r : CallA(caller, r) = Call(caller, r)
      BY SameWeights
    <3>2. \A v : v \in CallsTo(c) <=> \E caller \in Contexts, r \in calls(c) : v = Call(caller, r)
      OBVIOUS
    <3>3. \A v : v \in CallsToA(c) <=> \E caller \in Abstract!Contexts, r \in callsA(c) : v = CallA(caller, r)
      OBVIOUS
    <3> HIDE DEF calls, callsA, Call, CallA, CallsTo, CallsToA
    <3>4. \A v : v \in CallsToA(c) <=> v \in CallsTo(c)
      BY <1>1, <3>1, <3>2, <3>3
    <3> QED
      BY <3>4
  <2>2. Abstract!EntryWeights(sum, entry) = [c \in Abstract!Contexts |-> entry[c] \cup UNION CallsToA(c)]
    BY DEF Abstract!EntryWeights
  <2>3. EntryWeights(sum, entry) = [c \in Contexts |-> entry[c] \cup UNION CallsTo(c)]
    BY DEF EntryWeights
  <2> HIDE DEF calls, callsA, Call, CallA, CallsTo, CallsToA
  <2> QED
    BY <2>1, <2>2, <2>3, <1>1
<1>11. \A sum : Abstract!Entries(sum) = Entries(sum)
  BY <1>1, <1>6, <1>10, SameWeights DEF Abstract!Entries, Entries
<1> QED
  BY <1>1, <1>9, <1>11, SameWeights DEF Abstract!Join, Join

\* The abstract program takes the same steps.
LEMMA SameSteps == PathNext => Abstract!PathNext
<1>1. \A s : Abstract!RulesFrom(s) = RulesFrom(s)
  BY DEF Abstract!RulesFrom, RulesFrom
<1>2. \A r : Take(r) => Abstract!Take(r)
  BY <1>1 DEF Abstract!Take, Take
<1>3. \A r : TakeStep(r) => Abstract!TakeStep(r)
  BY <1>2, SameWeights DEF TakeStep, Abstract!TakeStep
<1>4. \A r : TakePush(r) => Abstract!TakePush(r)
  BY <1>2, SameWeights DEF TakePush, Abstract!TakePush
<1>5. \A r : TakePop(r) => Abstract!TakePop(r)
  BY <1>2, SameWeights DEF TakePop, Abstract!TakePop
<1> QED
  BY <1>3, <1>4, <1>5 DEF PathNext, Abstract!PathNext

\* The engine starts where the abstract analyser does.
LEMMA JoinStarts == Init => Abstract!JoinInit
<1> SUFFICES ASSUME Init PROVE Abstract!JoinInit
  OBVIOUS
<1>1. LoadProgram /\ phase = "saturate" /\ PathInit
  BY DEF Init, EngineInit, SaturationInit
<1>2. Abstract!LoadProgram
  <2>1. \A rules : Abstract!MakeRules(rules) = MakeRules(rules)
    BY DEF Abstract!MakeRules, MakeRules
  <2> QED
    BY <2>1, <1>1 DEF Abstract!LoadProgram, LoadProgram
<1>3. Abstract!PathInit
  BY <1>1, SameWeights DEF PathInit, Abstract!PathInit
<1>4. Answered = << >>
  BY <1>1 DEF Answered
<1> QED
  BY <1>2, <1>3, <1>4 DEF Abstract!JoinInit

\* An answer is not nothing.
LEMMA AnswerThere ==
    ASSUME SaturationInv, SolveInv, PrecisionInv, phase = "done"
    PROVE  Answered # << >>
<1>1. RulesWellFormed
  BY LoadedRules DEF SaturationInv, SaturationType
<1>2. <<Start, << >> >> \in Symbols \X Contexts
  BY <1>1, PlaceFacts DEF RulesWellFormed
<1> DEFINE Is(x) == LET t == TransitionAt(x) IN IF t \in DOMAIN result THEN result[t] ELSE Zero
<1>3. Answered = [x \in Symbols \X Contexts |-> Is(x)]
  BY DEF Answered
<1> HIDE DEF Is
<1>4. DOMAIN Answered # {}
  BY <1>2, <1>3
<1>5. DOMAIN << >> = {}
  OBVIOUS
<1> QED
  BY <1>4, <1>5

\* Once there is an answer it is the join.
AnswerRight == phase = "done" => Answered = Join /\ Answered # << >>

\* A step of the engine shows only when the result comes.
LEMMA EngineShows ==
    ASSUME SaturationInv, SolveInv, EngineNext, UNCHANGED pathVars,
           phase' = "done" => Answered' = Join' /\ Answered' # << >>
    PROVE  [Abstract!Answer \/ Abstract!Move]_Abstract!joinVars
<1>1. program' = program
  BY DEF EngineNext, Saturate, PostSymbol, PostEpsilon, StartSolve, StartComponent, Propagate, Finish
<1>2. CASE Finish
  <2>1. phase = "solve" /\ phase' = "done"
    BY <1>2 DEF Finish
  <2>2. Answered = << >>
    BY <2>1 DEF Answered
  <2>3. Answered' = Abstract!Join /\ Answered' # << >>
    BY <2>1, <1>1, SameJoin, EquationsStay
  <2>4. UNCHANGED <<program, Abstract!pathVars>>
    BY <1>1 DEF pathVars, Abstract!pathVars
  <2> QED
    BY <2>2, <2>3, <2>4 DEF Abstract!Answer
<1>3. CASE ~Finish
  <2>1. phase # "done"
    <3>1. phase = "done" => pending = {} /\ outWork = {}
      BY DEF SolveInv, SolveType
    <3> QED
      BY <1>3, <3>1 DEF EngineNext, StartSolve
  <2>2. phase' # "done"
    BY <1>3, <2>1 DEF EngineNext, StartSolve, StartComponent, Propagate
  <2>3. Answered = << >> /\ Answered' = << >>
    BY <2>1, <2>2 DEF Answered
  <2> QED
    BY <1>1, <2>3 DEF Abstract!joinVars, Abstract!pathVars, pathVars
<1> QED
  BY <1>2, <1>3

\* What leaves the engine alone leaves the answer alone.
LEMMA AnswerStays ==
    ASSUME UNCHANGED <<program, saturationVars, phase, solveVars>>
    PROVE  Answered' = Answered
<1>1. Contexts' = Contexts /\ phase' = phase /\ result' = result
  BY EquationsStay DEF solveVars
<1> QED
  BY <1>1 DEF Answered, TransitionAt, StateOf

-----------------------------------------------------------------------------
(* The theorems of precision.                                              *)

\* The inductive invariant of precision: an edge of a rule or of a call, whatever has
\* been propagated to it, carries no more than the equations (Poststar, InterGraph::saturate).
THEOREM Precision == Spec => []PrecisionInv
<1>1. Init => PrecisionInv
  BY PrecisionStarts DEF Init
<1>2. AnalyserInv /\ PrecisionInv /\ [Next]_vars => PrecisionInv'
  <2> SUFFICES ASSUME AnalyserInv, PrecisionInv, [Next]_vars PROVE PrecisionInv'
    OBVIOUS
  <2>1. CASE EngineNext
    BY <2>1, EnginePrecise DEF AnalyserInv
  <2>2. CASE UNCHANGED <<program, saturationVars, phase, solveVars>>
    <3>1. UNCHANGED <<program, trans, returns, hyper, merged>> /\ phase' = phase
      BY <2>2 DEF saturationVars, solveVars
    <3> QED
      BY <3>1, PrecisionStays
  <2>3. PathNext => program' = program
    BY DEF PathNext, TakeStep, TakePush, TakePop, Take
  <2> QED
    BY <2>1, <2>2, <2>3 DEF Next, vars, engineVars
<1> QED
  BY <1>1, <1>2, AnalyserInvariant, PTL DEF Spec

\* The engine implements the abstract analyser, ImplementsJoin: for every program, with
\* recursion, loops and any order of worklists, components and out nodes, its one answer
\* is the join of the weights of all paths, no error less and no error more
\* (FWPDS::poststarIGR, InterGraph::saturate, MergeError::apply_f, WFA::path_summary).
THEOREM EngineImplements == Spec => ImplementsJoin
<1>1. AnalyserInv /\ PrecisionInv => AnswerRight
  BY AnswerIsJoin, AnswerThere DEF AnalyserInv, AnswerRight
<1>2. AnalyserInv' /\ PrecisionInv' => AnswerRight'
  BY <1>1, PTL
<1>3. AnalyserInv /\ PrecisionInv /\ AnalyserInv' /\ PrecisionInv' /\ [Next]_vars
         => [Abstract!Answer \/ Abstract!Move]_Abstract!joinVars
  <2> SUFFICES ASSUME AnalyserInv, PrecisionInv, AnalyserInv', PrecisionInv', [Next]_vars
               PROVE  [Abstract!Answer \/ Abstract!Move]_Abstract!joinVars
    OBVIOUS
  <2>1. CASE EngineNext /\ UNCHANGED pathVars
    BY <2>1, <1>2, EngineShows DEF AnalyserInv, AnswerRight
  <2>2. CASE phase = "done" /\ PathNext /\ UNCHANGED <<saturationVars, phase, solveVars>>
    <3>1. program' = program
      BY <2>2 DEF PathNext, TakeStep, TakePush, TakePop, Take
    <3>2. Answered' = Answered
      BY <2>2, <3>1, AnswerStays
    <3> QED
      BY <2>2, <3>2, <1>1, SameSteps DEF Abstract!Move, AnswerRight
  <2>3. CASE UNCHANGED vars
    <3>1. Answered' = Answered
      BY <2>3, AnswerStays DEF vars, engineVars
    <3> QED
      BY <2>3, <3>1 DEF vars, engineVars, pathVars, Abstract!joinVars, Abstract!pathVars
  <2> QED
    BY <2>1, <2>2, <2>3 DEF Next
<1>4. Init => Abstract!JoinInit
  BY JoinStarts
<1> QED
  BY <1>3, <1>4, AnalyserInvariant, Precision, PTL DEF Spec, ImplementsJoin, Abstract!JoinSpec

-----------------------------------------------------------------------------
(* No error is forgotten.  A symbol is entered from the entry of its own     *)
(* function only, besides by the program itself: OwnContext.  What has       *)
(* happened outermost is below what happens when called, OutermostBelow, and *)
(* what was before a call keeps the constants, ContextsKnown.                *)

\* The rules in the engine stay in their functions, as those of the file do: a
\* combined rule is a library's start only if all of its parts are.
Owned ==
    /\ Owner[Start] = Start
    /\ \A r \in program :
          /\ IdentityOn(Constants) \subseteq r.weight
          /\ IsPush(r) => Owner[r.to[1]] = r.to[1] /\ Owner[r.to[2]] = Owner[r.from]
          /\ IsStep(r) => \/ Owner[r.to[1]] = Owner[r.from]
                          \/ r.from = Start /\ ~Led(program, Start) /\ Owner[r.to[1]] = r.to[1] /\ r.weight = One
                          \/ RulesFrom(r.to[1]) = {}

\* Combining the rules keeps each in its function.
LEMMA OwnedRules ==
    ASSUME LoadProgram
    PROVE  Owned
<1> DEFINE total(rules, r) == UNION {q.weight : q \in {q \in rules : q.from = r.from /\ q.to = r.to}}
<1>1. PICK rules \in Programs : program = {[r EXCEPT !.weight = total(rules, r)] : r \in rules}
  BY DEF LoadProgram, MakeRules
<1>2. \A r \in rules : r \in RuleType
  BY ProgramsType
<1>3. ASSUME NEW p \in program
      PROVE  \E r \in rules : p.from = r.from /\ p.to = r.to /\ p.weight = total(rules, r)
  <2> HIDE DEF total
  <2>1. PICK r \in rules : p = [r EXCEPT !.weight = total(rules, r)]
    BY <1>1
  <2> QED
    BY <2>1, <1>2 DEF RuleType
<1>4. ASSUME NEW r \in rules PROVE \E p \in program : p.from = r.from /\ p.to = r.to
  <2> HIDE DEF total
  <2> DEFINE p == [r EXCEPT !.weight = total(rules, r)]
  <2>1. p \in program /\ p.from = r.from /\ p.to = r.to
    BY <1>1, <1>2 DEF RuleType
  <2> QED
    BY <2>1
<1>5. ASSUME NEW s PROVE Led(program, s) => Led(rules, s)
  BY <1>3 DEF Led
<1>6. ASSUME NEW p \in program
      PROVE  /\ IdentityOn(Constants) \subseteq p.weight
             /\ IsPush(p) => Owner[p.to[1]] = p.to[1] /\ Owner[p.to[2]] = Owner[p.from]
             /\ IsStep(p) => \/ Owner[p.to[1]] = Owner[p.from]
                             \/ p.from = Start /\ ~Led(program, Start) /\ Owner[p.to[1]] = p.to[1] /\ p.weight = One
                             \/ RulesFrom(p.to[1]) = {}
  <2>1. PICK r \in rules : p.from = r.from /\ p.to = r.to /\ p.weight = total(rules, r)
    BY <1>3
  <2>2. IdentityOn(Constants) \subseteq p.weight
    BY <2>1, ConstantsKept
  <2>3. IsPush(p) => Owner[p.to[1]] = p.to[1] /\ Owner[p.to[2]] = Owner[p.from]
    BY <2>1, SymbolsOwned DEF IsPush
  <2>4. ASSUME IsStep(p), Owner[p.to[1]] # Owner[p.from], RulesFrom(p.to[1]) # {}
        PROVE  p.from = Start /\ ~Led(program, Start) /\ Owner[p.to[1]] = p.to[1] /\ p.weight = One
    <3>1. PICK p2 \in program : p2.from = p.to[1]
      BY <2>4 DEF RulesFrom
    <3>2. PICK q2 \in rules : q2.from = p.to[1]
      BY <3>1, <1>3
    <3>3. ASSUME NEW q \in rules, q.from = r.from, q.to = r.to
          PROVE  q.from = Start /\ ~Led(rules, Start) /\ Owner[q.to[1]] = q.to[1] /\ q.weight = One
      <4>1. IsStep(q) /\ q.to[1] = p.to[1] /\ q.from = p.from
        BY <2>1, <2>4, <3>3 DEF IsStep
      <4> QED
        BY <4>1, <3>2, <2>4, SymbolsOwned
    <3>4. p.from = Start /\ ~Led(rules, Start) /\ Owner[p.to[1]] = p.to[1]
      BY <3>3, <2>1
    <3>5. total(rules, r) = One
      <4>1. \A w \in {q.weight : q \in {q \in rules : q.from = r.from /\ q.to = r.to}} : w = One
        BY <3>3
      <4>2. r.weight \in {q.weight : q \in {q \in rules : q.from = r.from /\ q.to = r.to}}
        OBVIOUS
      <4> QED
        BY <4>1, <4>2
    <3> QED
      BY <3>4, <3>5, <2>1, <1>5
  <2> QED
    BY <2>2, <2>3, <2>4
<1> QED
  BY <1>6, SymbolsOwned DEF Owned

\* A symbol that a rule leaves is entered in the context of its own function only, or
\* in none.
LEMMA OwnContext ==
    ASSUME RulesWellFormed, Owned
    PROVE  \A x \in Reached : RulesFrom(x[1]) # {} /\ x[2] # << >> => x[2] = <<Owner[x[1]]>>
<1> DEFINE K == {x \in Places : RulesFrom(x[1]) # {} /\ x[2] # << >> => x[2] = <<Owner[x[1]]>>}
<1>1. ASSUME NEW c \in Contexts PROVE <<EntryOf(c), c>> \in K
  <2>1. <<EntryOf(c), c>> \in Places
    BY PlaceFacts
  <2>2. c = << >> \/ \E r \in program : IsPush(r) /\ c = <<r.to[1]>>
    BY DEF Contexts
  <2>3. c # << >> => c = <<Owner[EntryOf(c)]>>
    BY <2>2 DEF EntryOf, Owned
  <2> QED
    BY <2>1, <2>3
<1>2. ASSUME NEW x \in Places, NEW r \in program, <<r.from, x[2]>> \in K,
             Within(r, x[1]) \/ Returns(r, x[1], K), RulesFrom(x[1]) # {}, x[2] # << >>
      PROVE  x[2] = <<Owner[x[1]]>>
  <2>1. r \in RulesFrom(r.from)
    BY DEF RulesFrom
  <2>2. x[2] = <<Owner[r.from]>>
    BY <2>1, <1>2
  <2>3. x[1] # Epsilon
    <3>1. PICK q \in program : q.from = x[1]
      BY <1>2 DEF RulesFrom
    <3> QED
      BY <3>1 DEF RulesWellFormed
  <2>4. CASE Returns(r, x[1], K)
    BY <2>2, <2>4 DEF Returns, Owned
  <2>5. CASE Within(r, x[1])
    <3>1. r.to = <<x[1]>>
      BY <2>3, <2>5 DEF Within
    <3>2. IsStep(r) /\ r.to[1] = x[1]
      BY <3>1 DEF IsStep
    <3>3. r.from # Start \/ Led(program, Start)
      <4>1. r.from = Start => x[2] = <<Start>>
        BY <2>2 DEF Owned
      <4>2. x[2] = <<Start>> => Led(program, Start)
        <5>1. ASSUME x[2] = <<Start>> PROVE Led(program, Start)
          <6>1. PICK q \in program : IsPush(q) /\ x[2] = <<q.to[1]>>
            BY <1>2, PlaceFacts DEF Contexts
          <6>2. q.to[1] = Start /\ 1 \in 1 .. Len(q.to)
            BY <6>1, <5>1 DEF IsPush
          <6> QED
            BY <6>2 DEF Led
        <5> QED
          BY <5>1
      <4> QED
        BY <4>1, <4>2
    <3>4. Owner[r.to[1]] = Owner[r.from]
      BY <3>2, <3>3, <1>2 DEF Owned
    <3> QED
      BY <3>2, <3>4, <2>2
  <2> QED
    BY <1>2, <2>4, <2>5
<1>3. Reached \subseteq K
  <2>1. \A x \in Places, r \in program :
           <<r.from, x[2]>> \in K /\ (Within(r, x[1]) \/ Returns(r, x[1], K)) => x \in K
    BY <1>2
  <2>2. K \in SUBSET Places
    OBVIOUS
  <2> HIDE DEF K
  <2> QED
    BY <1>1, <2>1, <2>2, ReachedFacts
<1> QED
  BY <1>3

\* What a path outside of any call does in a called function is what a call does in it.
LEMMA OutermostBelow ==
    ASSUME RulesWellFormed, Owned, NEW s \in Symbols, RulesFrom(s) # {}, <<Owner[s]>> \in Contexts
    PROVE  Sums[<<s, << >> >>] \subseteq Sums[<<s, <<Owner[s]>> >>]
<1> DEFINE All == Var \X Var
           Called(x) == RulesFrom(x[1]) # {} /\ <<Owner[x[1]]>> \in Contexts
           bound == [x \in Places |->
                        IF x[2] # << >> THEN Sums[x]
                        ELSE IF Called(x) THEN Sums[<<x[1], <<Owner[x[1]]>> >>]
                        ELSE IF x[1] = Start /\ ~Led(program, Start) THEN One
                        ELSE All]
<1>1. Sums \in [Places -> Weight] /\ SolvesSums(Sums) /\ One \in Weight
  BY SumsLeast, OneIsWeight
<1>2. ASSUME NEW x \in Places, RulesFrom(x[1]) # {} PROVE x[1] \in Symbols /\ x[1] # Epsilon
  <2>1. PICK q \in program : q.from = x[1]
    BY <1>2 DEF RulesFrom
  <2> QED
    BY <2>1 DEF RulesWellFormed
<1>3. ASSUME NEW x \in Places PROVE bound[x] \in Weight
  <2>1. Called(x) => <<x[1], <<Owner[x[1]]>> >> \in Places
    BY <1>2, PlaceFacts
  <2>2. All \in Weight
    BY DEF Weight
  <2> HIDE DEF Called, All
  <2> QED
    BY <1>1, <2>1, <2>2
<1>4. bound \in [Places -> Weight]
  <2> DEFINE b(x) == bound[x]
  <2>1. bound = [x \in Places |-> b(x)]
    OBVIOUS
  <2> HIDE DEF bound
  <2> QED
    BY <1>3, <2>1
<1>5. /\ \A x \in Places : x[2] # << >> => bound[x] = Sums[x]
      /\ \A x \in Places : x[2] = << >> /\ Called(x) => bound[x] = Sums[<<x[1], <<Owner[x[1]]>> >>]
      /\ \A x \in Places : x[2] = << >> /\ ~Called(x) /\ x[1] = Start /\ ~Led(program, Start) => bound[x] = One
      /\ \A x \in Places : x[2] = << >> /\ ~Called(x) /\ (x[1] # Start \/ Led(program, Start)) => bound[x] = All
  <2> HIDE DEF Called, All
  <2> QED
    OBVIOUS
<1>6. \A w \in Weight : w \subseteq All
  BY DEF Weight
<1>7. Led(program, Start) \/ <<Start>> \notin Contexts
  <2>1. ASSUME <<Start>> \in Contexts PROVE Led(program, Start)
    <3>1. PICK q \in program : IsPush(q) /\ <<Start>> = <<q.to[1]>>
      BY <2>1 DEF Contexts
    <3>2. q.to[1] = Start /\ 1 \in 1 .. Len(q.to)
      BY <3>1 DEF IsPush
    <3> QED
      BY <3>2 DEF Led
  <2> QED
    BY <2>1
<1> HIDE DEF bound
<1>8. ASSUME NEW c \in Contexts PROVE One \subseteq bound[<<EntryOf(c), c>>]
  <2> DEFINE x == <<EntryOf(c), c>>
  <2>1. x \in Places /\ x[1] = EntryOf(c) /\ x[2] = c /\ One \subseteq Sums[x]
    BY <1>1, PlaceFacts DEF SolvesSums
  <2>2. CASE c # << >>
    BY <2>1, <2>2, <1>5
  <2>3. CASE c = << >>
    <3>1. x[1] = Start /\ x[2] = << >>
      BY <2>1, <2>3 DEF EntryOf
    <3>2. Called(x) => One \subseteq Sums[<<Start, <<Start>> >>]
      <4>1. Called(x) => <<Start>> \in Contexts
        BY <3>1 DEF Owned
      <4>2. <<Start>> # << >> /\ EntryOf(<<Start>>) = Start
        BY DEF EntryOf
      <4> QED
        BY <4>1, <4>2, <1>1 DEF SolvesSums
    <3>3. Called(x) => bound[x] = Sums[<<Start, <<Start>> >>]
      BY <2>1, <3>1, <1>5 DEF Owned
    <3>4. One \subseteq bound[x]
      <4> HIDE DEF x, Called, All
      <4> QED
        BY <2>1, <3>1, <3>2, <3>3, <1>1, <1>5, <1>6
    <3> QED
      BY <3>4
  <2> QED
    BY <2>2, <2>3
\* Where a rule leads to, in the outermost activation.
<1>9. ASSUME NEW x \in Places, x[2] = << >>, NEW r \in program, Within(r, x[1]) \/ Returns(r, x[1], Reached)
      PROVE  /\ <<r.from, << >> >> \in Places /\ RulesFrom(r.from) # {}
             /\ ~(x[1] = Start /\ ~Led(program, Start))
             /\ Called(x) /\ <<Owner[r.from]>> \in Contexts =>
                   Owner[r.from] = Owner[x[1]] /\ bound[<<r.from, << >> >>] = Sums[<<r.from, <<Owner[r.from]>> >>]
             /\ Called(x) /\ <<Owner[r.from]>> \notin Contexts =>
                   /\ Within(r, x[1]) /\ ~Returns(r, x[1], Reached) /\ r.weight = One
                   /\ x[1] = Owner[x[1]] /\ bound[<<r.from, << >> >>] = One
  <2> DEFINE y == <<r.from, << >> >>
  <2>1. y \in Places /\ y[1] = r.from /\ y[2] = << >> /\ RulesFrom(r.from) # {}
    <3>1. r \in RulesFrom(r.from) /\ r.from \in Symbols /\ << >> \in Contexts
      BY PlaceFacts DEF RulesFrom, RulesWellFormed
    <3> QED
      BY <3>1, PlaceFacts
  <2>2. x[1] # Epsilon => (IsStep(r) /\ r.to = <<x[1]>> /\ r.to[1] = x[1]) \/ Returns(r, x[1], Reached)
    <3>1. Within(r, x[1]) /\ x[1] # Epsilon => r.to = <<x[1]>>
      BY DEF Within
    <3>2. r.to = <<x[1]>> => IsStep(r) /\ r.to[1] = x[1]
      BY DEF IsStep
    <3> QED
      BY <1>9, <3>1, <3>2
  <2>3. Returns(r, x[1], Reached) => IsPush(r) /\ r.to[2] = x[1] /\ Owner[x[1]] = Owner[r.from]
    BY DEF Returns, Owned
  <2>4. x[1] = Start => Led(program, Start)
    <3>1. x[1] = Start => x[1] # Epsilon
      BY DEF RulesWellFormed
    <3>2. IsStep(r) => 1 \in 1 .. Len(r.to)
      BY DEF IsStep
    <3>3. IsPush(r) => 2 \in 1 .. Len(r.to)
      BY DEF IsPush
    <3> QED
      BY <2>2, <2>3, <3>1, <3>2, <3>3 DEF Led
  <2>5. Called(x) => \/ Owner[x[1]] = Owner[r.from]
                     \/ /\ IsStep(r) /\ r.to = <<x[1]>> /\ r.from = Start /\ ~Led(program, Start)
                        /\ x[1] = Owner[x[1]] /\ r.weight = One
    BY <2>2, <2>3, <1>2 DEF Owned
  <2>6. ASSUME Called(x), <<Owner[r.from]>> \in Contexts
        PROVE  Owner[r.from] = Owner[x[1]] /\ bound[y] = Sums[<<r.from, <<Owner[r.from]>> >>]
    <3>1. Owner[r.from] = Owner[x[1]]
      BY <2>5, <2>6, <1>7 DEF Owned
    <3>2. Called(y)
      BY <2>1, <2>6
    <3> HIDE DEF y
    <3> QED
      BY <2>1, <3>1, <3>2, <1>5
  <2>7. ASSUME Called(x), <<Owner[r.from]>> \notin Contexts
        PROVE  /\ Within(r, x[1]) /\ ~Returns(r, x[1], Reached) /\ r.weight = One
               /\ x[1] = Owner[x[1]] /\ bound[y] = One
    <3>1. /\ IsStep(r) /\ r.to = <<x[1]>> /\ r.from = Start /\ ~Led(program, Start)
          /\ x[1] = Owner[x[1]] /\ r.weight = One
      BY <2>5, <2>7
    <3>2. ~Returns(r, x[1], Reached) /\ Within(r, x[1])
      BY <3>1, <2>7, <1>2 DEF Returns, RulesWellFormed, Within
    <3>3. ~Called(y)
      BY <2>1, <2>7
    <3> HIDE DEF y, Called
    <3>4. bound[y] = One
      BY <2>1, <3>1, <3>3, <1>5
    <3> QED
      BY <3>1, <3>2, <3>4
  <2> HIDE DEF Called
  <2> QED
    BY <2>1, <2>4, <2>6, <2>7
<1>10. ASSUME NEW x \in Places, NEW r \in program, Within(r, x[1])
       PROVE  Extend(bound[<<r.from, x[2]>>], r.weight) \subseteq bound[x]
  <2> DEFINE y == <<r.from, x[2]>>
  <2>1. y \in Places /\ y[2] = x[2] /\ bound[y] \in Weight /\ r.weight \in Weight
    BY <1>4, PlaceFacts DEF RulesWellFormed
  <2>2. Extend(bound[y], r.weight) \in Weight /\ Extend(Sums[y], r.weight) \subseteq Sums[x]
    BY <2>1, <1>1, <1>10, ExtendType DEF SolvesSums
  <2>3. CASE x[2] # << >>
    <3>1. bound[y] = Sums[y] /\ bound[x] = Sums[x]
      <4> HIDE DEF y
      <4> QED
        BY <2>1, <2>3, <1>5
    <3> QED
      BY <2>2, <3>1
  <2>4. CASE x[2] = << >> /\ ~Called(x)
    <3>1. bound[x] = All
      BY <2>4, <1>5, <1>9, <1>10
    <3> QED
      BY <3>1, <2>2, <1>6
  <2>5. CASE x[2] = << >> /\ Called(x)
    <3> DEFINE c == <<Owner[x[1]]>>
    <3>1. bound[x] = Sums[<<x[1], c>>] /\ <<x[1], c>> \in Places /\ x[1] \in Symbols
      BY <2>5, <1>2, <1>5, PlaceFacts
    <3>2. CASE <<Owner[r.from]>> \in Contexts
      <4>1. bound[y] = Sums[<<r.from, c>>]
        BY <2>5, <3>2, <1>9, <1>10
      <4>2. Extend(Sums[<<r.from, c>>], r.weight) \subseteq Sums[<<x[1], c>>]
        <5> DEFINE z == <<x[1], c>>
        <5>1. z \in Places /\ z[1] = x[1] /\ z[2] = c
          BY <3>1
        <5> HIDE DEF z
        <5>2. Extend(Sums[<<r.from, z[2]>>], r.weight) \subseteq Sums[z]
          BY <5>1, <1>1, <1>10 DEF SolvesSums
        <5> QED
          BY <5>1, <5>2 DEF z
      <4> QED
        BY <4>1, <4>2, <3>1
    <3>3. CASE <<Owner[r.from]>> \notin Contexts
      <4>1. r.weight = One /\ x[1] = Owner[x[1]] /\ bound[y] = One
        BY <2>5, <3>3, <1>9, <1>10
      <4>2. Extend(One, One) = One
        BY <1>1, ExtendOne
      <4>3. One \subseteq Sums[<<x[1], c>>]
        <5>1. c \in Contexts /\ EntryOf(c) = x[1]
          BY <2>5, <4>1 DEF EntryOf
        <5> QED
          BY <5>1, <1>1 DEF SolvesSums
      <4> QED
        BY <3>1, <4>1, <4>2, <4>3
    <3> QED
      BY <3>2, <3>3
  <2> HIDE DEF Called
  <2> QED
    BY <2>3, <2>4, <2>5
<1>11. ASSUME NEW x \in Places, NEW r \in program, Returns(r, x[1], Reached)
       PROVE  Merge(bound[<<r.from, x[2]>>], r.weight, bound[<<Epsilon, <<r.to[1]>> >>], r.callee) \subseteq bound[x]
  <2> DEFINE y == <<r.from, x[2]>>
             e == <<Epsilon, <<r.to[1]>> >>
             M(b) == Merge(b, r.weight, Sums[e], r.callee)
  <2>1. y \in Places /\ y[2] = x[2] /\ bound[y] \in Weight /\ r.weight \in Weight /\ r.callee \in Functions
    BY <1>4, PlaceFacts DEF RulesWellFormed
  <2>2. e \in Places /\ bound[e] = Sums[e] /\ Sums[e] \in Weight
    <3>1. e \in Places /\ e[2] # << >>
      BY <1>11, PlaceFacts DEF Returns
    <3> HIDE DEF e
    <3> QED
      BY <3>1, <1>1, <1>5
  <2>3. M(bound[y]) \in Weight /\ M(Sums[y]) \subseteq Sums[x]
    BY <2>1, <2>2, <1>1, <1>11, MergeType DEF SolvesSums
  <2>4. CASE x[2] # << >>
    <3>1. bound[y] = Sums[y] /\ bound[x] = Sums[x]
      <4> HIDE DEF y
      <4> QED
        BY <2>1, <2>4, <1>5
    <3> QED
      BY <2>2, <2>3, <3>1
  <2>5. CASE x[2] = << >> /\ ~Called(x)
    <3>1. bound[x] = All
      BY <2>5, <1>5, <1>9, <1>11
    <3> QED
      BY <3>1, <2>2, <2>3, <1>6
  <2>6. CASE x[2] = << >> /\ Called(x)
    <3> DEFINE c == <<Owner[x[1]]>>
    <3>1. bound[x] = Sums[<<x[1], c>>] /\ <<x[1], c>> \in Places /\ x[1] \in Symbols
      BY <2>6, <1>2, <1>5, PlaceFacts
    <3>2. <<Owner[r.from]>> \in Contexts /\ bound[y] = Sums[<<r.from, c>>]
      BY <2>6, <1>9, <1>11
    <3>3. M(Sums[<<r.from, c>>]) \subseteq Sums[<<x[1], c>>]
      <4> DEFINE z == <<x[1], c>>
      <4>1. z \in Places /\ z[1] = x[1] /\ z[2] = c
        BY <3>1
      <4> HIDE DEF z
      <4>2. Merge(Sums[<<r.from, z[2]>>], r.weight, Sums[e], r.callee) \subseteq Sums[z]
        BY <4>1, <1>1, <1>11 DEF SolvesSums
      <4> QED
        BY <4>1, <4>2 DEF z
    <3> QED
      BY <3>1, <3>2, <3>3, <2>2
  <2> HIDE DEF Called
  <2> QED
    BY <2>4, <2>5, <2>6
<1>12. SolvesSums(bound)
  BY <1>8, <1>10, <1>11 DEF SolvesSums
<1>13. Below(Sums, bound, Places)
  BY <1>4, <1>12, SumsLeast
<1> DEFINE x == <<s, << >> >>
<1>14. x \in Places /\ x[1] = s /\ x[2] = << >>
  BY PlaceFacts
<1>15. bound[x] = Sums[<<s, <<Owner[s]>> >>]
  <2> HIDE DEF x
  <2> QED
    BY <1>5, <1>14
<1> QED
  BY <1>13, <1>14, <1>15 DEF Below

Known(w) == IdentityOn(Constants) \subseteq w

\* What goes on from, and what calls from, where constants are kept keeps them.
LEMMA KnownExtends ==
    ASSUME NEW a, NEW b, Known(a), Known(b)
    PROVE  Known(Extend(a, b))
<1> SUFFICES ASSUME NEW k \in Constants PROVE <<k, k>> \in Extend(a, b)
  BY DEF Known, IdentityOn
<1>1. <<k, k>> \in a /\ <<k, k>> \in b
  BY DEF Known, IdentityOn
<1> DEFINE j == << <<k, k>>, <<k, k>> >>
<1>2. j \in b \X a /\ j[1][2] = j[2][1] /\ <<j[1][1], j[2][2]>> = <<k, k>>
  BY <1>1
<1> QED
  BY <1>2 DEF Extend

\* A merge keeps the constants' own pairs.
LEMMA KnownMerges ==
    ASSUME NEW a, NEW b, NEW s \in Weight, NEW f \in Functions, Known(a), Known(b)
    PROVE  Known(Merge(a, b, s, f))
<1>1. Known(CalleeEffect(s, f))
  <2> SUFFICES ASSUME NEW k \in Constants PROVE <<k, k>> \in CalleeEffect(s, f)
    BY DEF Known, IdentityOn
  <2>1. k \in Var
    BY DEF Var
  <2> QED
    BY <2>1, CalleeEffectPair DEF IsEffect
<1> QED
  BY <1>1, KnownExtends DEF Merge

\* Every path inside an activation keeps the constants.
LEMMA SumsKnow ==
    ASSUME RulesWellFormed, Owned
    PROVE  \A x \in Reached : Known(Sums[x])
<1> DEFINE K == {x \in Reached : Known(Sums[x])}
<1>1. /\ Reached \subseteq Places /\ Sums \in [Places -> Weight] /\ SolvesSums(Sums)
      /\ \A r \in program : Known(r.weight) /\ r.weight \in Weight /\ r.callee \in Functions
  BY ReachedFacts, SumsLeast DEF RulesWellFormed, Owned, Known
<1>2. ASSUME NEW c \in Contexts PROVE <<EntryOf(c), c>> \in K
  <2>1. One \subseteq Sums[<<EntryOf(c), c>>] /\ <<EntryOf(c), c>> \in Reached
    BY <1>1, ReachedFacts DEF SolvesSums
  <2>2. IdentityOn(Constants) \subseteq One
    BY DEF One, IdentityOn, Var
  <2> QED
    BY <2>1, <2>2 DEF Known
<1>3. ASSUME NEW x \in Places, NEW r \in program, <<r.from, x[2]>> \in K,
             Within(r, x[1]) \/ Returns(r, x[1], K)
      PROVE  x \in K
  <2>1. Returns(r, x[1], K) => Returns(r, x[1], Reached) /\ <<Epsilon, <<r.to[1]>> >> \in Reached
    BY DEF Returns
  <2>2. x \in Reached
    BY <2>1, <1>3, ReachedFacts
  <2>3. Known(Sums[<<r.from, x[2]>>]) /\ Sums[<<r.from, x[2]>>] \in Weight
    BY <1>1, <1>3
  <2>4. CASE Within(r, x[1])
    <3>1. Extend(Sums[<<r.from, x[2]>>], r.weight) \subseteq Sums[x]
      BY <1>1, <2>4 DEF SolvesSums
    <3>2. Known(Extend(Sums[<<r.from, x[2]>>], r.weight))
      BY <1>1, <2>3, KnownExtends
    <3> QED
      BY <2>2, <3>1, <3>2 DEF Known
  <2>5. CASE Returns(r, x[1], K)
    <3> DEFINE e == <<Epsilon, <<r.to[1]>> >>
    <3>1. Merge(Sums[<<r.from, x[2]>>], r.weight, Sums[e], r.callee) \subseteq Sums[x]
      BY <1>1, <2>1, <2>5 DEF SolvesSums
    <3>2. Sums[e] \in Weight
      BY <1>1, <2>1, <2>5
    <3> HIDE DEF e
    <3>3. Known(Merge(Sums[<<r.from, x[2]>>], r.weight, Sums[e], r.callee))
      BY <1>1, <2>3, <3>2, KnownMerges
    <3> QED
      BY <2>2, <3>1, <3>3 DEF Known
  <2> QED
    BY <1>3, <2>4, <2>5
<1>4. K \in SUBSET Places
  BY <1>1
<1> HIDE DEF K
<1>5. Reached \subseteq K
  BY <1>2, <1>3, <1>4, ReachedFacts
<1> QED
  BY <1>5 DEF K

\* Before any call nothing has happened.
LEMMA OutermostEntry ==
    ASSUME RulesWellFormed
    PROVE  Entries(Sums)[<< >>] \subseteq One
<1> DEFINE All == Var \X Var
           bound == [c \in Contexts |-> IF c = << >> THEN One ELSE All]
<1>1. Sums \in [Places -> Weight] /\ One \in Weight /\ All \in Weight
  BY SumsLeast, OneIsWeight DEF Weight
<1>2. bound \in [Contexts -> Weight]
  <2> HIDE DEF All
  <2> QED
    BY <1>1
<1>3. SolvesEntries(Sums, bound)
  <2>1. bound[<< >>] = One
    BY PlaceFacts
  <2>2. ASSUME NEW caller \in Contexts, NEW r \in program, IsPush(r)
        PROVE  Extend(bound[caller], Extend(Sums[<<r.from, caller>>], r.weight)) \subseteq bound[<<r.to[1]>>]
    <3>1. bound[<<r.to[1]>>] = All
      <4>1. <<r.to[1]>> \in Contexts /\ <<r.to[1]>> # << >>
        BY <2>2, PlaceFacts
      <4> HIDE DEF All
      <4> QED
        BY <4>1
    <3>2. Sums[<<r.from, caller>>] \in Weight /\ r.weight \in Weight /\ bound[caller] \in Weight
      <4>1. <<r.from, caller>> \in Places /\ r.weight \in Weight
        BY PlaceFacts DEF RulesWellFormed
      <4> HIDE DEF bound
      <4> QED
        BY <4>1, <1>1, <1>2
    <3> HIDE DEF bound
    <3>3. Extend(bound[caller], Extend(Sums[<<r.from, caller>>], r.weight)) \in Weight
      BY <3>2, ExtendType
    <3> QED
      BY <3>1, <3>3 DEF Weight
  <2> HIDE DEF bound
  <2> QED
    BY <2>1, <2>2 DEF SolvesEntries
<1>4. bound[<< >>] = One /\ << >> \in Contexts
  BY PlaceFacts
<1> HIDE DEF bound
<1> QED
  BY <1>1, <1>2, <1>3, <1>4, EntriesLeast DEF Below

-----------------------------------------------------------------------------

\* Every context that the automaton has entered is entered with the constants kept.
ContextsKnown == \A x \in Places : TransitionAt(x) \in trans => Known(Entries(Sums)[x[2]])

\* No step of the engine changes what is known of the entries of contexts.
LEMMA ContextsStay ==
    ASSUME SaturationInv, PrecisionInv, ContextsKnown, EngineNext
    PROVE  ContextsKnown'
<1>1. /\ program' = program /\ RulesWellFormed /\ Owned /\ OnlyReached
  BY LoadedRules, OwnedRules DEF SaturationInv, SaturationType, PrecisionInv,
     EngineNext, Saturate, PostSymbol, PostEpsilon, StartSolve, StartComponent, Propagate, Finish
<1>2. Entries(Sums)' = Entries(Sums) /\ Places' = Places
  BY <1>1, EquationsStay DEF Places
<1> DEFINE entry == Entries(Sums)
           Fine(t) == \A x \in Places : t = TransitionAt(x) => Known(entry[x[2]])
<1>3. ContextsKnown' <=> \A t \in trans' : Fine(t)
  BY <1>2 DEF ContextsKnown, TransitionAt, StateOf, Known
<1>4. \A t \in trans : Fine(t)
  BY DEF ContextsKnown
<1>5. /\ Sums \in [Places -> Weight] /\ entry \in [Contexts -> Weight] /\ SolvesEntries(Sums, entry)
      /\ \A x \in Reached : Known(Sums[x])
  BY <1>1, SumsLeast, EntriesLeast, SumsKnow
<1> HIDE DEF entry
\* A transition with the target of another is in the same context.
<1>6. ASSUME NEW t \in trans, NEW u, u[3] = t[3] PROVE Fine(u)
  <2> SUFFICES ASSUME NEW y \in Places, u = TransitionAt(y) PROVE Known(entry[y[2]])
    OBVIOUS
  <2>1. PICK x \in Reached : x \in Places /\ t = TransitionAt(x)
    BY <1>1, PlaceOfTransition
  <2>2. StateOf(x[2]) = StateOf(y[2]) /\ x[2] \in Contexts /\ y[2] \in Contexts
    BY <2>1, <1>1, <1>6, PlaceFacts DEF TransitionAt
  <2>3. x[2] = y[2]
    BY <2>2, ContextOfState
  <2> QED
    BY <2>1, <2>3, <1>4
<1>7. ASSUME NEW t \in trans, NEW r \in RulesFrom(t[2]), IsPush(r) PROVE Fine(Target(t, r))
  <2> SUFFICES ASSUME NEW y \in Places, Target(t, r) = TransitionAt(y) PROVE Known(entry[y[2]])
    OBVIOUS
  <2>1. PICK x \in Reached : x \in Places /\ t = TransitionAt(x) /\ t \in PTransition
    BY <1>1, PlaceOfTransition
  <2>2. /\ r \in program /\ x = <<r.from, x[2]>> /\ x[2] \in Contexts
        /\ Target(t, r) = TransitionAt(<<r.to[1], <<r.to[1]>> >>) /\ <<r.to[1]>> \in Contexts
    BY <2>1, <1>1, <1>7, NextPlace
  <2>3. y[2] = <<r.to[1]>>
    <3>1. StateOf(y[2]) = StateOf(<<r.to[1]>>) /\ y[2] \in Contexts
      BY <2>2, <1>1, PlaceFacts DEF TransitionAt
    <3> QED
      BY <3>1, <2>2, ContextOfState
  <2>4. Known(entry[x[2]]) /\ Known(Sums[<<r.from, x[2]>>]) /\ Known(r.weight)
    BY <1>1, <1>4, <1>5, <2>1, <2>2 DEF Owned, Known
  <2>5. Extend(entry[x[2]], Extend(Sums[<<r.from, x[2]>>], r.weight)) \subseteq entry[<<r.to[1]>>]
    BY <1>5, <1>7, <2>2 DEF SolvesEntries
  <2>6. Known(Extend(entry[x[2]], Extend(Sums[<<r.from, x[2]>>], r.weight)))
    BY <2>4, KnownExtends
  <2> QED
    BY <2>3, <2>5, <2>6 DEF Known
<1>8. CASE \E t \in worklist : PostSymbol(t)
  <2>1. PICK t \in worklist : PostSymbol(t)
    BY <1>8
  <2>2. /\ t \in trans /\ t \in PTransition
        /\ trans' = trans \cup {Target(t, r) : r \in RulesFrom(t[2])} \cup {Closure(h) : h \in Meetings(t)}
    BY <2>1 DEF PostSymbol, Update, SaturationInv, SaturationType
  <2>3. ASSUME NEW r \in RulesFrom(t[2]) PROVE Fine(Target(t, r))
    <3>1. r \in program
      BY DEF RulesFrom
    <3>2. ~IsPush(r) => Target(t, r)[3] = t[3]
      BY <3>1, <1>1, <2>2, TargetType DEF RulesWellFormed
    <3> HIDE DEF Fine
    <3> QED
      BY <3>2, <2>2, <1>6, <1>7
  <2>4. ASSUME NEW h \in Meetings(t) PROVE Fine(Closure(h))
    <3>1. PICK r \in RulesFrom(t[2]) : h \in {ReturnOf(t, r)} \X EpsilonsTo(GenState(r.to[1]))
      BY DEF Meetings
    <3>2. Closure(h)[3] = t[3]
      BY <3>1 DEF Closure, ReturnOf
    <3> HIDE DEF Fine
    <3> QED
      BY <3>2, <2>2, <1>6
  <2> HIDE DEF Fine
  <2> QED
    BY <1>3, <1>4, <2>2, <2>3, <2>4
<1>9. CASE \E t \in worklist : PostEpsilon(t)
  <2>1. PICK t \in worklist : PostEpsilon(t)
    BY <1>9
  <2> DEFINE meetings == {u \in DOMAIN returns : u[1] = t[3]} \X {t}
  <2>2. trans' = trans \cup {Closure(h) : h \in meetings}
    BY <2>1 DEF PostEpsilon, Update
  <2>3. ASSUME NEW h \in meetings PROVE Fine(Closure(h))
    <3>1. PICK u \in trans, r \in program : h[1] = ReturnOf(u, r)
      BY DEF SaturationInv, OneCallEach, RulesFrom
    <3>2. Closure(h)[3] = u[3]
      BY <3>1 DEF Closure, ReturnOf
    <3> HIDE DEF Fine
    <3> QED
      BY <3>2, <1>6
  <2> HIDE DEF Fine, meetings
  <2> QED
    BY <1>3, <1>4, <2>2, <2>3
<1>10. CASE ~Saturate
  <2>1. trans' = trans
    BY <1>10 DEF EngineNext, StartSolve, StartComponent, Propagate, Finish, saturationVars
  <2> HIDE DEF Fine
  <2> QED
    BY <2>1, <1>3, <1>4
<1> QED
  BY <1>8, <1>9, <1>10 DEF Saturate

\* With its rows for the constants, what was before a call keeps the errors of the callee.
LEMMA KnownBefore ==
    ASSUME NEW before, Known(before), NEW w
    PROVE  w \cap (Variables \X (Errors \cup TentativeErrors)) \subseteq Extend(before, w)
<1> SUFFICES ASSUME NEW p \in w, p \in Variables \X (Errors \cup TentativeErrors) PROVE p \in Extend(before, w)
  OBVIOUS
<1>1. p = <<p[1], p[2]>> /\ <<p[2], p[2]>> \in before
  BY DEF Known, IdentityOn, Constants
<1> DEFINE j == << p, <<p[2], p[2]>> >>
<1>2. j \in w \X before /\ j[1][2] = j[2][1] /\ <<j[1][1], j[2][2]>> = p
  BY <1>1
<1> QED
  BY <1>2 DEF Extend

\* Which transition MapTrans keeps makes no difference to the errors.
LEMMA ErrorsInEither ==
    ASSUME SaturationInv, SolveInv, PrecisionInv, ContextsKnown, phase = "done",
           NEW c \in Contexts, RulesFrom(point) # {}, TransitionAt(<<point, c>>) \in trans
    PROVE  /\ TransitionAt(<<point, c>>) \in DOMAIN result
           /\ result[TransitionAt(<<point, c>>)] \cap (Variables \X (Errors \cup TentativeErrors)) \subseteq PointWeight(point)
<1>1. RulesWellFormed /\ Owned /\ OnlyReached
  BY LoadedRules, OwnedRules DEF SaturationInv, SaturationType, PrecisionInv
<1>2. point \in Symbols /\ point # Epsilon
  <2>1. PICK r \in program : r.from = point
    BY DEF RulesFrom
  <2> QED
    BY <2>1, <1>1 DEF RulesWellFormed
<1>3. DOMAIN result = {t \in trans : t[2] # Epsilon}
  BY DoneFacts DEF ReadResult
<1>4. PICK sum \in [Places -> Weight] : sum = Sums
  BY <1>1, SumsLeast
<1>5. PICK entry \in [Contexts -> Weight] : entry = Entries(sum)
  BY <1>1, EntriesLeast
<1>6. ASSUME NEW d \in Contexts, TransitionAt(<<point, d>>) \in trans
      PROVE  /\ TransitionAt(<<point, d>>) \in DOMAIN result
             /\ result[TransitionAt(<<point, d>>)] = Extend(entry[d], sum[<<point, d>>])
             /\ <<point, d>> \in Reached
  <2> DEFINE y == <<point, d>>
             t == TransitionAt(y)
  <2>1. y \in Symbols \X Contexts /\ y \in Places /\ y[1] = point /\ y[2] = d
    BY <1>1, <1>2, PlaceFacts
  <2>2. t \in DOMAIN result
    BY <1>2, <1>3, <1>6 DEF TransitionAt
  <2>3. y \in Reached
    <3>1. PICK x \in Reached : x \in Places /\ t = TransitionAt(x)
      BY <1>1, <1>6, PlaceOfTransition
    <3> HIDE DEF y
    <3> QED
      BY <1>1, <2>1, <3>1, OnePlaceEach
  <2>4. Answered[y] = result[t]
    <3> HIDE DEF y
    <3> QED
      BY <2>1, <2>2 DEF Answered
  <2>5. Join[y] = Extend(entry[d], sum[y])
    <3> HIDE DEF y
    <3> QED
      BY <2>1, <1>4, <1>5 DEF Join
  <2>6. Answered = Join
    BY AnswerIsJoin
  <2> QED
    BY <2>2, <2>3, <2>4, <2>5, <2>6
<1>7. PICK u : u = MapTrans(point)
  OBVIOUS
<1>8. /\ u \in trans /\ u \in DOMAIN result /\ u[2] = point
      /\ u[3] = Accept => \A v \in TransitionsOf(point) : v[3] = Accept
  <2> DEFINE T == TransitionsOf(point)
             Q(t) == t[3] = Accept => \A v \in T : v[3] = Accept
  <2>1. TransitionAt(<<point, c>>) \in T
    BY <1>6 DEF TransitionsOf, TransitionAt
  <2>2. \E t \in T : Q(t)
    <3>1. CASE \A v \in T : v[3] = Accept
      BY <2>1, <3>1
    <3>2. CASE \E v \in T : v[3] # Accept
      BY <3>2
    <3> QED
      BY <3>1, <3>2
  <2>3. u = CHOOSE t \in T : Q(t)
    BY <1>7 DEF MapTrans
  <2>4. u \in T /\ Q(u)
    <3> HIDE DEF T, Q
    <3> QED
      BY <2>2, <2>3
  <2> QED
    BY <2>4, <1>3 DEF TransitionsOf
<1>9. PICK d \in Contexts : u = TransitionAt(<<point, d>>) /\ u[3] = StateOf(d)
  <2>1. PICK x \in Reached : x \in Places /\ u = TransitionAt(x)
    BY <1>1, <1>8, PlaceOfTransition
  <2>2. x[1] = point /\ x[2] \in Contexts /\ x = <<point, x[2]>>
    BY <1>1, <1>8, <2>1, PlaceFacts DEF TransitionAt
  <2> QED
    BY <2>1, <2>2 DEF TransitionAt
<1>10. PointWeight(point) = Extend(entry[d], sum[<<point, d>>])
  BY <1>6, <1>7, <1>8, <1>9 DEF PointWeight
<1>11. CASE c = d
  BY <1>6, <1>10, <1>11
<1>12. CASE c # d
  <2>1. d # << >>
    <3>1. TransitionAt(<<point, c>>) \in TransitionsOf(point) /\ TransitionAt(<<point, c>>)[3] = StateOf(c)
      BY <1>6 DEF TransitionsOf, TransitionAt
    <3>2. d = << >> => StateOf(c) = StateOf(d)
      BY <1>8, <1>9, <3>1, ContextOfState
    <3> QED
      BY <3>2, <1>12, ContextOfState
  <2>2. d = <<Owner[point]>> /\ (c # << >> => c = <<Owner[point]>>)
    BY <1>1, <1>6, <1>8, <1>9, <2>1, OwnContext
  <2>3. c = << >>
    BY <2>2, <1>12
  <2>4. sum[<<point, c>>] \subseteq sum[<<point, d>>]
    BY <1>1, <1>2, <1>4, <2>2, <2>3, OutermostBelow
  <2>5. sum[<<point, c>>] \in Weight /\ <<point, d>> \in Places
    BY <1>1, <1>2, PlaceFacts
  <2>6. result[TransitionAt(<<point, c>>)] \subseteq sum[<<point, d>>]
    <3>1. entry[c] \subseteq One
      BY <1>1, <1>4, <1>5, <2>3, OutermostEntry
    <3>2. Extend(entry[c], sum[<<point, c>>]) \subseteq Extend(One, sum[<<point, c>>])
      BY <3>1, ExtendMonotone
    <3>3. Extend(One, sum[<<point, c>>]) = sum[<<point, c>>]
      BY <2>5, ExtendOne
    <3> QED
      BY <3>2, <3>3, <2>4, <1>6
  <2>7. Known(entry[d])
    <3> DEFINE y == <<point, d>>
    <3>1. y \in Places /\ TransitionAt(y) \in trans /\ y[2] = d
      BY <2>5, <1>8, <1>9
    <3> HIDE DEF y
    <3> QED
      BY <3>1, <1>4, <1>5 DEF ContextsKnown
  <2>8. sum[<<point, d>>] \cap (Variables \X (Errors \cup TentativeErrors)) \subseteq PointWeight(point)
    BY <1>10, <2>7, KnownBefore
  <2> QED
    BY <1>6, <2>6, <2>8
<1> QED
  BY <1>11, <1>12

\* Main.cpp keeps one transition for each stack symbol, NoErrorForgotten: by the order of
\* the keys it is the one of the context in which the function was called, if there is
\* one, and the errors of every path to a symbol that a rule leaves are in its weight.
THEOREM NothingForgotten == Spec => []NoErrorForgotten
<1>1. Init => ContextsKnown
  <2> SUFFICES ASSUME Init, NEW x \in Places, TransitionAt(x) \in trans PROVE Known(Entries(Sums)[x[2]])
    BY DEF ContextsKnown
  <2>1. RulesWellFormed /\ trans = {InitialTransition}
    BY LoadedRules DEF Init, EngineInit, SaturationInit
  <2>2. x[2] \in Contexts /\ StateOf(x[2]) = Accept /\ << >> \in Contexts
    BY <2>1, PlaceFacts DEF TransitionAt, InitialTransition
  <2>3. x[2] = << >>
    <3>1. \A c \in Contexts : c = << >> \/ \E s : c = <<s>>
      BY DEF Contexts
    <3> QED
      BY <3>1, <2>2, StateNames DEF StateOf
  <2>4. One \subseteq Entries(Sums)[<< >>]
    BY <2>1, SumsLeast, EntriesLeast DEF SolvesEntries
  <2> QED
    BY <2>3, <2>4 DEF Known, One, IdentityOn, Var
<1>2. AnalyserInv /\ PrecisionInv /\ ContextsKnown /\ [Next]_vars => ContextsKnown'
  <2> SUFFICES ASSUME AnalyserInv, PrecisionInv, ContextsKnown, [Next]_vars PROVE ContextsKnown'
    OBVIOUS
  <2>1. CASE EngineNext
    BY <2>1, ContextsStay DEF AnalyserInv
  <2>2. CASE UNCHANGED <<program, saturationVars>>
    <3>1. trans' = trans /\ Entries(Sums)' = Entries(Sums) /\ Places' = Places
      BY <2>2, EquationsStay DEF saturationVars, Places
    <3> QED
      BY <3>1 DEF ContextsKnown, TransitionAt, StateOf, Known
  <2>3. PathNext => program' = program
    BY DEF PathNext, TakeStep, TakePush, TakePop, Take
  <2> QED
    BY <2>1, <2>2, <2>3 DEF Next, vars, engineVars
<1>3. AnalyserInv /\ PrecisionInv /\ ContextsKnown /\ EveryPathCounts => NoErrorForgotten
  <2> SUFFICES ASSUME AnalyserInv, PrecisionInv, ContextsKnown, EveryPathCounts,
                      phase = "done", RulesFrom(point) # {}
               PROVE  PathWeight \cap (Variables \X (Errors \cup TentativeErrors)) \subseteq PointWeight(point)
    BY DEF NoErrorForgotten
  <2>1. RulesWellFormed /\ OnlyReached /\ SaturationInv /\ SolveInv
    BY LoadedRules DEF AnalyserInv, SaturationInv, SaturationType, PrecisionInv
  <2>2. point # Epsilon
    BY <2>1 DEF RulesFrom, RulesWellFormed
  <2>3. <<P, point, Context>> \in trans /\ PathWeight \subseteq result[<<P, point, Context>>]
    BY <2>2 DEF AnalyserInv, StackAccepted, EveryPathCounts
  <2>4. PICK c \in Contexts : <<P, point, Context>> = TransitionAt(<<point, c>>)
    <3>1. PICK x \in Reached : x \in Places /\ <<P, point, Context>> = TransitionAt(x)
      BY <2>1, <2>3, PlaceOfTransition
    <3>2. x[1] = point /\ x[2] \in Contexts /\ x = <<point, x[2]>>
      BY <2>1, <3>1, PlaceFacts DEF TransitionAt
    <3> QED
      BY <3>1, <3>2
  <2> QED
    BY <2>1, <2>3, <2>4, ErrorsInEither
<1> QED
  BY <1>1, <1>2, <1>3, AnalyserInvariant, Precision, EveryPathCounted, PTL DEF Spec
=============================================================================
