---------------------------- MODULE Points_proofs ----------------------------
(***************************************************************************)
(* A report says what the paths of the program bring to its point: however *)
(* many paths join, and however calls nest, the row of a variable has the  *)
(* values that it holds on some path, and what is chosen from the rows is  *)
(* chosen from these.                                                      *)
(***************************************************************************)
EXTENDS Points, ErrorWeights_proofs, Integers, SequenceTheorems, WellFoundedInduction

-----------------------------------------------------------------------------
(* Rows.                                                                   *)

\* A row has the right sides of the pairs of its variable.
LEMMA RowPair ==
    ASSUME NEW w, NEW x, NEW z
    PROVE  z \in Row(w, x) <=> z \in Var /\ <<x, z>> \in w
BY DEF Row

\* extend goes through the row of the second weight into the rows of the first.
LEMMA ExtendRow ==
    ASSUME NEW a \in Weight, NEW b \in Weight, NEW x \in Var, NEW z
    PROVE  z \in Row(Extend(a, b), x) <=> \E y \in Row(b, x) : z \in Row(a, y)
<1>1. z \in Row(Extend(a, b), x) <=> z \in Var /\ \E y \in Var : <<x, y>> \in b /\ <<y, z>> \in a
  BY ExtendPair, RowPair
<1>2. \A y : y \in Row(b, x) <=> y \in Var /\ <<x, y>> \in b
  BY RowPair
<1>3. \A y : z \in Row(a, y) <=> z \in Var /\ <<y, z>> \in a
  BY RowPair
<1> QED
  BY <1>1, <1>2, <1>3

\* In the unit each name has itself.
LEMMA OneRow ==
    /\ One \in Weight
    /\ \A x \in Var : Row(One, x) = {x}
<1>1. One \in Weight
  BY DEF One, IdentityOn, Weight
<1>2. ASSUME NEW x \in Var, NEW z PROVE z \in Row(One, x) <=> z = x
  BY <1>2 DEF Row, One, IdentityOn
<1> QED
  BY <1>1, <1>2

\* The source of x in the row that a rule has for it.
Source(rule, x) ==
    IF x \in DOMAIN rule.sets THEN rule.sets[x] ELSE IF Forgets(rule, x) /\ x \in Variables THEN UNINITIALIZED ELSE x

\* A rule, as getWeight makes it, has one source for each name, and the constants keep theirs.
LEMMA RuleRows ==
    ASSUME NEW rule, IsRule(rule)
    PROVE  /\ RuleWeight(rule) \in Weight
           /\ \A x \in Var : Source(rule, x) \in Var /\ Row(RuleWeight(rule), x) = {Source(rule, x)}
           /\ \A c \in Constants : Source(rule, c) = c
<1> USE DEF Var, Variables
<1>1. UNINITIALIZED \in Constants /\ Constants \cap Variables = {} /\ Globals \cap Locals = {}
  BY VariablesDistinct DEF Constants
<1>2. \A x, z : <<x, z>> \in BasisWeight(rule.basis)
                   <=> x \in Var /\ z = IF Forgets(rule, x) /\ x \in Variables THEN UNINITIALIZED ELSE x
  <2>1. rule.basis \in {"identity", "identityGlobals", "uninitialized"}
    BY DEF IsRule
  <2> QED
    BY <1>1, <2>1 DEF BasisWeight, Forgets, One, IdentityOn, LocalsToUninitialized
<1>3. ASSUME NEW x \in DOMAIN rule.sets PROVE x \in Variables /\ rule.sets[x] \in Var
  BY DEF IsRule
<1>4. BasisWeight(rule.basis) \in Weight
  <2>1. rule.basis \in {"identity", "identityGlobals", "uninitialized"}
    BY DEF IsRule
  <2> QED
    BY <1>1, <2>1 DEF BasisWeight, Weight, One, IdentityOn, LocalsToUninitialized
<1>5. RuleWeight(rule) \in Weight
  BY <1>3, <1>4 DEF RuleWeight, Weight
<1>6. ASSUME NEW x \in Var, NEW z PROVE z \in Row(RuleWeight(rule), x) <=> z = Source(rule, x)
  <2>1. CASE x \in DOMAIN rule.sets
    BY <2>1, <1>3 DEF Row, RuleWeight, Source
  <2>2. CASE x \notin DOMAIN rule.sets
    BY <2>2, <1>1, <1>2, <1>3 DEF Row, RuleWeight, Source
  <2> QED
    BY <2>1, <2>2
<1>7. ASSUME NEW x \in Var PROVE Source(rule, x) \in Var
  BY <1>1, <1>3 DEF Source
<1>8. ASSUME NEW c \in Constants PROVE Source(rule, c) = c
  BY <1>1, <1>3 DEF Source
<1> QED
  BY <1>5, <1>6, <1>7, <1>8

\* A rule before the other: the row is that of the source.
LEMMA RuleExtendRow ==
    ASSUME NEW rule, IsRule(rule), NEW w \in Weight, NEW x \in Var
    PROVE  /\ Extend(w, RuleWeight(rule)) \in Weight
           /\ Row(Extend(w, RuleWeight(rule)), x) = Row(w, Source(rule, x))
<1>1. RuleWeight(rule) \in Weight /\ Row(RuleWeight(rule), x) = {Source(rule, x)}
  BY RuleRows
<1>2. \A z : z \in Row(Extend(w, RuleWeight(rule)), x) <=> z \in Row(w, Source(rule, x))
  BY <1>1, ExtendRow
<1> QED
  BY <1>1, <1>2, ExtendType

-----------------------------------------------------------------------------
(* Values.                                                                 *)

\* Which names are constants, globals and locals, and what Real is defined on.
LEMMA VariableKinds ==
    /\ Constants \cap Variables = {} /\ Var = Constants \cup Variables
    /\ Globals \cap Locals = {} /\ Variables = Globals \cup Locals
    /\ UNINITIALIZED \in Constants \ TentativeErrors /\ TentativeErrors \subseteq Constants
    /\ \A t \in TentativeErrors : Real[t] \in Constants \ TentativeErrors
BY VariablesDistinct, ConstantsDistinct, RealType DEF Var, Variables, Constants

\* A run begins with every variable uninitialized.
LEMMA StartType ==
    /\ NoValue \in Values /\ RunStart.store \in Stores /\ RunStart.saved = << >>
    /\ \A x \in Variables : ErrorOf(RunStart.store[x]) = <<UNINITIALIZED, 0>>
<1>1. NoValue \in Values /\ ErrorOf(NoValue) = <<UNINITIALIZED, 0>>
  BY VariableKinds DEF NoValue, Values, ErrorOf
<1> QED
  BY <1>1 DEF RunStart, Stores

\* A value that a rule hands on, or makes.
LEMMA AfterRule ==
    ASSUME NEW r, r.store \in Stores, Len(r.saved) \in Nat, NEW rule, IsRule(rule), NEW x \in Variables
    PROVE  /\ ValueAfter(r, rule, x) \in Values
           /\ ErrorOf(ValueAfter(r, rule, x)) = Brings(r.store, Source(rule, x), Depth(r))
<1>1. CASE x \in DOMAIN rule.sets
  <2> DEFINE from == rule.sets[x]
             value == IF from \in Variables THEN r.store[from] ELSE Made(r, from)
             step == [line |-> rule.line, target |-> x, source |-> from]
  <2>1. from \in Var /\ rule.line \in Nat /\ Source(rule, x) = from
    BY <1>1 DEF IsRule, Source
  <2>2. value \in Values /\ ErrorOf(value) = Brings(r.store, from, Depth(r))
    <3>1. CASE from \in Variables
      BY <3>1 DEF Stores, Brings
    <3>2. CASE from \notin Variables
      <4>1. from \in Constants
        BY <2>1, <3>2, VariableKinds
      <4>2. Depth(r) \in Nat
        BY DEF Depth
      <4> QED
        BY <3>2, <4>1, <4>2 DEF Made, Values, Brings, ErrorOf
    <3> QED
      BY <3>1, <3>2
  <2>3. step \in Steps
    BY <2>1 DEF Steps
  <2>4. ValueAfter(r, rule, x) = [name |-> value.name, made |-> value.made, flow |-> Append(value.flow, step)]
    BY <1>1 DEF ValueAfter
  <2> HIDE DEF value, step, from
  <2>5. value.name \in Constants /\ value.made \in Nat /\ Append(value.flow, step) \in Seq(Steps)
    BY <2>2, <2>3 DEF Values
  <2> QED
    BY <2>1, <2>2, <2>4, <2>5 DEF Values, ErrorOf
<1>2. CASE x \notin DOMAIN rule.sets /\ Forgets(rule, x)
  BY <1>2, StartType, VariableKinds DEF ValueAfter, Source, Brings, ErrorOf, NoValue
<1>3. CASE x \notin DOMAIN rule.sets /\ ~Forgets(rule, x)
  BY <1>3 DEF ValueAfter, Source, Brings, Stores
<1> QED
  BY <1>1, <1>2, <1>3

\* A rule leaves the suspended stores alone and gives each variable what its source brings.
LEMMA RuleRun ==
    ASSUME NEW r, r.store \in Stores, Len(r.saved) \in Nat, NEW rule, IsRule(rule)
    PROVE  /\ RunRule(r, rule).store \in Stores /\ RunRule(r, rule).saved = r.saved
           /\ \A x \in Variables : ErrorOf(RunRule(r, rule).store[x]) = Brings(r.store, Source(rule, x), Depth(r))
<1>1. RunRule(r, rule).store = [x \in Variables |-> ValueAfter(r, rule, x)] /\ RunRule(r, rule).saved = r.saved
  BY DEF RunRule
<1> QED
  BY <1>1, AfterRule DEF Stores

-----------------------------------------------------------------------------
(* One rule, in the present activation.                                    *)

ConstantRows(w) == \A c \in Constants : Row(w, c) = {c}

\* The runs that have k - 1 calls open.
RunsAt(R, k) == \A r \in R : r.store \in Stores /\ r.saved \in Seq(Stores) /\ Len(r.saved) = k - 1

\* After a rule each run still has its values from the rows.
LEMMA RuleEnough ==
    ASSUME NEW k \in Nat, NEW R, RunsAt(R, k), NEW w \in Weight, ConstantRows(w), Enough(R, w, k),
           NEW rule, IsRule(rule), NEW r \in R, NEW x \in Variables
    PROVE  \E z \in Row(Extend(w, RuleWeight(rule)), x) : ErrorOf(RunRule(r, rule).store[x]) = Brings(EntryAt(r, k), z, k)
<1> DEFINE u == Source(rule, x)
<1>1. u \in Var /\ Row(Extend(w, RuleWeight(rule)), x) = Row(w, u)
  BY RuleExtendRow, RuleRows, VariableKinds
<1>2. Depth(r) = k /\ StoreAt(r, k) = r.store /\ ErrorOf(RunRule(r, rule).store[x]) = Brings(r.store, u, k)
  BY RuleRun DEF RunsAt, Depth, StoreAt
<1> HIDE DEF u
<1>3. CASE u \in Variables
  BY <1>1, <1>2, <1>3 DEF Enough, Brings
<1>4. CASE u \in Constants
  BY <1>1, <1>2, <1>4, VariableKinds DEF ConstantRows, Brings
<1> QED
  BY <1>1, <1>3, <1>4, VariableKinds

\* After a rule each element of a row is still brought by a run with the same entry.
LEMMA RuleNeeded ==
    ASSUME NEW k \in Nat, NEW R, RunsAt(R, k), NEW w \in Weight, ConstantRows(w), Needed(R, w, k),
           NEW rule, IsRule(rule), NEW r \in R, NEW x \in Variables, NEW z \in Row(Extend(w, RuleWeight(rule)), x)
    PROVE  \E t \in R : SameUpTo(r, t, k - 1) /\ ErrorOf(RunRule(t, rule).store[x]) = Brings(EntryAt(r, k), z, k)
<1> DEFINE u == Source(rule, x)
<1>1. u \in Var /\ z \in Row(w, u)
  BY RuleExtendRow, RuleRows, VariableKinds
<1>2. ASSUME NEW t \in R
      PROVE  Depth(t) = k /\ StoreAt(t, k) = t.store /\ ErrorOf(RunRule(t, rule).store[x]) = Brings(t.store, u, k)
  BY RuleRun DEF RunsAt, Depth, StoreAt
<1> HIDE DEF u
<1>3. CASE u \in Variables
  <2>1. PICK t \in R : SameUpTo(r, t, k - 1) /\ ErrorOf(StoreAt(t, k)[u]) = Brings(EntryAt(r, k), z, k)
    BY <1>1, <1>3 DEF Needed
  <2> QED
    BY <1>2, <1>3, <2>1 DEF Brings
<1>4. CASE u \in Constants
  <2>1. z = u /\ u \notin Variables
    BY <1>1, <1>4, VariableKinds DEF ConstantRows
  <2>2. SameUpTo(r, r, k - 1)
    BY DEF SameUpTo
  <2> QED
    BY <1>2, <2>1, <2>2 DEF Brings
<1> QED
  BY <1>1, <1>3, <1>4, VariableKinds

-----------------------------------------------------------------------------
(* Activations that nothing is done in.                                    *)

\* Each run of R has a run of S with the same stores in the first k calls, and back.
Matched(R, S, k) ==
    /\ \A r \in R : Len(r.saved) >= k /\ \E t \in S : SameUpTo(r, t, k)
    /\ \A t \in S : Len(t.saved) >= k /\ \E r \in R : SameUpTo(r, t, k)

\* Runs that agree on their first k suspended stores entered activation k + 1 with the same.
LEMMA SameEntry ==
    ASSUME NEW r, NEW t, NEW k \in Nat, SameUpTo(r, t, k), NEW j \in 1 .. k + 1
    PROVE  EntryAt(r, j) = EntryAt(t, j)
<1>1. j # 1 => j - 1 \in 1 .. k
  OBVIOUS
<1> QED
  BY <1>1 DEF EntryAt, SameUpTo

\* Runs that agree on their first k suspended stores hold the same in the first k activations.
LEMMA SameStore ==
    ASSUME NEW r, NEW t, NEW k \in Nat, SameUpTo(r, t, k), NEW j \in 1 .. k,
           Len(r.saved) >= k, Len(t.saved) >= k, Len(r.saved) \in Nat, Len(t.saved) \in Nat
    PROVE  StoreAt(r, j) = StoreAt(t, j)
BY DEF StoreAt, SameUpTo

\* What is said of an activation whose stores both sets of runs share passes from one to the other.
LEMMA SameBelow ==
    ASSUME NEW R, NEW S, NEW k \in Nat, Matched(R, S, k), NEW j \in 1 .. k, NEW w,
           \A r \in R \cup S : Len(r.saved) \in Nat
    PROVE  /\ Enough(R, w, j) => Enough(S, w, j)
           /\ Needed(R, w, j) => Needed(S, w, j)
           /\ MadeBy(R, j) => MadeBy(S, j)
<1>1. ASSUME NEW r \in R, NEW t \in S, SameUpTo(r, t, k)
      PROVE  StoreAt(r, j) = StoreAt(t, j) /\ EntryAt(r, j) = EntryAt(t, j)
  <2>1. j \in 1 .. k + 1
    OBVIOUS
  <2> QED
    BY <1>1, <2>1, SameEntry, SameStore DEF Matched
<1>2. Enough(R, w, j) => Enough(S, w, j)
  <2> SUFFICES ASSUME Enough(R, w, j), NEW t \in S, NEW x \in Variables
               PROVE  \E z \in Row(w, x) : ErrorOf(StoreAt(t, j)[x]) = Brings(EntryAt(t, j), z, j)
    BY DEF Enough
  <2>1. PICK r \in R : SameUpTo(r, t, k)
    BY DEF Matched
  <2> QED
    BY <1>1, <2>1 DEF Enough
<1>3. Needed(R, w, j) => Needed(S, w, j)
  <2> SUFFICES ASSUME Needed(R, w, j), NEW t \in S, NEW x \in Variables, NEW z \in Row(w, x)
               PROVE  \E q \in S : SameUpTo(t, q, j - 1) /\ ErrorOf(StoreAt(q, j)[x]) = Brings(EntryAt(t, j), z, j)
    BY DEF Needed
  <2>1. PICK r \in R : SameUpTo(r, t, k)
    BY DEF Matched
  <2>2. PICK p \in R : SameUpTo(r, p, j - 1) /\ ErrorOf(StoreAt(p, j)[x]) = Brings(EntryAt(r, j), z, j)
    BY DEF Needed
  <2>3. PICK q \in S : SameUpTo(p, q, k)
    BY DEF Matched
  <2>4. SameUpTo(t, q, j - 1)
    <3>1. \A i \in 1 .. j - 1 : i \in 1 .. k
      OBVIOUS
    <3> QED
      BY <2>1, <2>2, <2>3, <3>1 DEF SameUpTo
  <2> QED
    BY <1>1, <2>1, <2>2, <2>3, <2>4
<1>4. MadeBy(R, j) => MadeBy(S, j)
  BY <1>1 DEF MadeBy, Matched
<1> QED
  BY <1>2, <1>3, <1>4

\* The values that a variable had when an activation was entered, and has in it.
EntriesOf(R, k, x) == {EntryAt(r, k)[x].name : r \in R}
HeldAt(R, k, x) == {StoreAt(r, k)[x].name : r \in R}

\* Matched sets of runs have the same values on entry to each of these activations.
LEMMA SameEntries ==
    ASSUME NEW R, NEW S, NEW k \in Nat, Matched(R, S, k), NEW j \in 1 .. k + 1, NEW x
    PROVE  EntriesOf(R, j, x) = EntriesOf(S, j, x)
<1>1. \A r \in R, t \in S : SameUpTo(r, t, k) => EntryAt(r, j) = EntryAt(t, j)
  BY SameEntry
<1> QED
  BY <1>1 DEF Matched, EntriesOf

-----------------------------------------------------------------------------
(* From the entry of an activation to the present.                         *)

\* If what is before an activation are the values it was entered with, what is
\* before its callee, or at a point in it, are those that it has there.
LEMMA RowsHere ==
    ASSUME NEW k \in Nat, k > 0, NEW R, R # {}, NEW w \in Weight, NEW b \in Weight,
           Enough(R, w, k), Needed(R, w, k), ConstantRows(b),
           k = 1 => b = One /\ \A x \in Variables : Row(w, x) \subseteq Constants,
           k > 1 => \A x \in Variables : Row(b, x) = EntriesOf(R, k, x)
    PROVE  \A x \in Variables : Row(Extend(b, w), x) = HeldAt(R, k, x)
<1> SUFFICES ASSUME NEW x \in Variables
             PROVE  Row(Extend(b, w), x) = HeldAt(R, k, x)
  OBVIOUS
<1>1. \A z : z \in Row(Extend(b, w), x) <=> \E y \in Row(w, x) : z \in Row(b, y)
  BY ExtendRow, VariableKinds
<1>2. Row(w, x) \subseteq Var
  BY DEF Row
<1>3. ASSUME NEW r \in R, NEW v, NEW y \in Var, ErrorOf(v) = Brings(EntryAt(r, k), y, k)
      PROVE  v.name = IF y \in Variables THEN EntryAt(r, k)[y].name ELSE y
  BY <1>3 DEF ErrorOf, Brings
<1>4. ASSUME NEW z \in Row(Extend(b, w), x) PROVE \E r \in R : z = StoreAt(r, k)[x].name
  <2>1. PICK y \in Row(w, x) : z \in Row(b, y)
    BY <1>1
  <2>2. CASE y \in Constants
    <3>1. z = y /\ y \notin Variables
      BY <2>1, <2>2, VariableKinds DEF ConstantRows
    <3>2. PICK r \in R : TRUE
      OBVIOUS
    <3>3. PICK t \in R : ErrorOf(StoreAt(t, k)[x]) = Brings(EntryAt(r, k), y, k)
      BY DEF Needed
    <3> QED
      BY <1>2, <1>3, <3>1, <3>3
  <2>3. CASE y \in Variables
    <3>1. k > 1
      BY <2>3, VariableKinds
    <3>2. PICK r \in R : z = EntryAt(r, k)[y].name
      BY <2>1, <2>3, <3>1 DEF EntriesOf
    <3>3. PICK t \in R : ErrorOf(StoreAt(t, k)[x]) = Brings(EntryAt(r, k), y, k)
      BY DEF Needed
    <3> QED
      BY <1>2, <1>3, <2>3, <3>2, <3>3
  <2> QED
    BY <1>2, <2>2, <2>3, VariableKinds
<1>5. ASSUME NEW r \in R PROVE StoreAt(r, k)[x].name \in Row(Extend(b, w), x)
  <2>1. PICK y \in Row(w, x) : ErrorOf(StoreAt(r, k)[x]) = Brings(EntryAt(r, k), y, k)
    BY DEF Enough
  <2>2. StoreAt(r, k)[x].name = IF y \in Variables THEN EntryAt(r, k)[y].name ELSE y
    BY <1>2, <1>3, <2>1
  <2>3. CASE y \in Constants
    BY <1>1, <2>2, <2>3, VariableKinds DEF ConstantRows
  <2>4. CASE y \in Variables
    <3>1. k > 1
      BY <2>4, VariableKinds
    <3>2. EntryAt(r, k)[y].name \in Row(b, y)
      BY <2>4, <3>1 DEF EntriesOf
    <3> QED
      BY <1>1, <2>2, <2>4, <3>2
  <2> QED
    BY <1>2, <2>3, <2>4, VariableKinds
<1> QED
  BY <1>4, <1>5 DEF HeldAt

-----------------------------------------------------------------------------
(* A return.                                                               *)

\* A return takes the last suspended store away, and what the callee made belongs to its caller, or is real.
LEMMA ReturnRun ==
    ASSUME NEW d \in Nat, d > 0, NEW R, RunsAt(R, d + 1), MadeBy(R, d), MadeBy(R, d + 1), NEW f \in Functions, NEW r \in R
    PROVE  /\ RunReturn(r, f).store \in Stores /\ RunReturn(r, f).saved \in Seq(Stores)
           /\ Len(RunReturn(r, f).saved) = d - 1 /\ SameUpTo(r, RunReturn(r, f), d - 1)
           /\ StoreAt(RunReturn(r, f), d) = RunReturn(r, f).store /\ StoreAt(r, d) = r.saved[d] /\ StoreAt(r, d + 1) = r.store
           /\ \A x \in Variables :
                 LET value == RunReturn(r, f).store[x]
                 IN  /\ value = ValueReturned(r, f, x)
                     /\ value.made <= d /\ (value.made > 0 => value.name \in TentativeErrors)
<1>1. r.store \in Stores /\ r.saved \in Seq(Stores) /\ Len(r.saved) = d /\ Depth(r) = d + 1
  BY DEF RunsAt, Depth
<1>2. RunReturn(r, f).saved = SubSeq(r.saved, 1, d - 1) /\ RunReturn(r, f).store = [x \in Variables |-> ValueReturned(r, f, x)]
  BY <1>1 DEF RunReturn
<1>3. /\ SubSeq(r.saved, 1, d - 1) \in Seq(Stores) /\ Len(SubSeq(r.saved, 1, d - 1)) = d - 1
      /\ \A i \in 1 .. d - 1 : SubSeq(r.saved, 1, d - 1)[i] = r.saved[i]
  BY <1>1, SubSeqProperties
<1>4. /\ StoreAt(RunReturn(r, f), d) = RunReturn(r, f).store /\ StoreAt(r, d) = r.saved[d] /\ StoreAt(r, d + 1) = r.store
      /\ SameUpTo(r, RunReturn(r, f), d - 1)
  BY <1>1, <1>2, <1>3 DEF StoreAt, SameUpTo
<1>5. r.saved[d] \in Stores
  BY <1>1, ElementOfSeq
<1>6. ASSUME NEW x \in Variables
      PROVE  LET value == ValueReturned(r, f, x)
             IN  value \in Values /\ value.made <= d /\ (value.made > 0 => value.name \in TentativeErrors)
  <2>1. r.store[x] \in Values /\ r.store[x].made <= d + 1 /\ (r.store[x].made > 0 => r.store[x].name \in TentativeErrors)
    BY <1>1, <1>4 DEF MadeBy, Stores
  <2>2. r.saved[d][x] \in Values /\ r.saved[d][x].made <= d /\ (r.saved[d][x].made > 0 => r.saved[d][x].name \in TentativeErrors)
    BY <1>4, <1>5 DEF MadeBy, Stores
  <2>3. CASE x \in Locals
    BY <1>1, <2>2, <2>3 DEF ValueReturned
  <2>4. CASE x \notin Locals /\ r.store[x].made # d + 1
    BY <1>1, <2>1, <2>4 DEF ValueReturned, Values
  <2>5. CASE x \notin Locals /\ r.store[x].made = d + 1 /\ x = Return[f]
    <3>1. r.store[x].name \in TentativeErrors
      BY <2>1, <2>5
    <3>2. ValueReturned(r, f, x) = [name |-> Real[r.store[x].name], made |-> 0, flow |-> r.store[x].flow]
      BY <1>1, <2>5 DEF ValueReturned
    <3> QED
      BY <2>1, <3>1, <3>2, VariableKinds DEF Values
  <2>6. CASE x \notin Locals /\ r.store[x].made = d + 1 /\ x # Return[f]
    <3>1. ValueReturned(r, f, x) = [name |-> r.store[x].name, made |-> d, flow |-> r.store[x].flow]
      BY <1>1, <2>6 DEF ValueReturned
    <3> QED
      BY <2>1, <2>6, <3>1 DEF Values
  <2> QED
    BY <2>3, <2>4, <2>5, <2>6
<1> QED
  BY <1>2, <1>3, <1>4, <1>6 DEF Stores

\* What a value becomes by the return: z is its row in the callee, v that in the effect.
Returned(x, f, z, v) ==
    /\ x \in Globals
    /\ v = IF x = Return[f] /\ z \in TentativeErrors THEN Real[z] ELSE z

\* The row of a variable in the effect of a callee: a local is itself, a global what it is in the
\* summary, once it is returned.
LEMMA EffectRow ==
    ASSUME NEW w \in Weight, NEW f \in Functions, NEW x \in Variables, NEW v
    PROVE  v \in Row(CalleeEffect(w, f), x)
              <=> (x \in Locals /\ v = x) \/ \E z \in Row(w, x) : Returned(x, f, z, v)
<1>1. x \in Var /\ (x \in Globals <=> x \notin Locals) /\ x \notin Constants
  BY VariableKinds
<1>2. \A z : z \in Row(w, x) <=> z \in Var /\ <<x, z>> \in w
  BY DEF Row
<1>3. \A t \in TentativeErrors : t \in Var /\ Real[t] \in Var
  BY VariableKinds
<1>4. v \in Row(CalleeEffect(w, f), x) <=> v \in Var /\ IsEffect(w, f, x, v)
  BY <1>1, CalleeEffectPair DEF Row
<1>5. (x \in Locals /\ v = x) => v \in Var
  BY <1>1
<1>6. (\E z \in Row(w, x) : Returned(x, f, z, v)) => v \in Var
  BY <1>2, <1>3 DEF Returned
<1>7. v \in Var => (IsEffect(w, f, x, v) <=> (x \in Locals /\ v = x) \/ \E z \in Row(w, x) : Returned(x, f, z, v))
  BY <1>1, <1>2, <1>3 DEF IsEffect, Returned
<1> QED
  BY <1>4, <1>5, <1>6, <1>7

\* A global after the return, by what it was in the callee.
LEMMA GlobalReturned ==
    ASSUME NEW d \in Nat, d > 0, NEW R, RunsAt(R, d + 1), MadeBy(R, d), MadeBy(R, d + 1), NEW f \in Functions, NEW r \in R,
           NEW x \in Globals, NEW z \in Var, NEW v, Returned(x, f, z, v),
           NEW entry \in Stores, \A y \in Variables : entry[y].made <= d,
           ErrorOf(r.store[x]) = Brings(entry, z, d + 1)
    PROVE  ErrorOf(ValueReturned(r, f, x)) = Brings(entry, v, d)
<1>1. r.store[x].made = Brings(entry, z, d + 1)[2] /\ r.store[x].name = Brings(entry, z, d + 1)[1] /\ Depth(r) = d + 1
  BY DEF ErrorOf, RunsAt, Depth
<1>2. x \notin Locals /\ x \in Variables
  BY VariableKinds
<1>3. CASE z \in Variables
  <2>1. v = z
    BY <1>3, VariableKinds DEF Returned
  <2>2. r.store[x].made # d + 1 /\ ErrorOf(r.store[x]) = Brings(entry, z, d)
    BY <1>1, <1>3 DEF Brings, ErrorOf, Stores, Values
  <2> QED
    BY <1>1, <1>2, <2>1, <2>2 DEF ValueReturned
<1>4. CASE z \in TentativeErrors
  <2>1. z \notin Variables /\ r.store[x].made = d + 1 /\ r.store[x].name = z
    BY <1>1, <1>4, VariableKinds DEF Brings
  <2>2. CASE x = Return[f]
    BY <1>1, <1>2, <1>4, <2>1, <2>2, VariableKinds DEF ValueReturned, Returned, Brings, ErrorOf
  <2>3. CASE x # Return[f]
    BY <1>1, <1>2, <1>4, <2>1, <2>3 DEF ValueReturned, Returned, Brings, ErrorOf
  <2> QED
    BY <2>2, <2>3
<1>5. CASE z \notin Variables /\ z \notin TentativeErrors
  BY <1>1, <1>2, <1>5 DEF ValueReturned, Returned, Brings, ErrorOf
<1> QED
  BY <1>3, <1>4, <1>5

\* What an activation has from those before it, for a variable or a constant.
LEMMA HeldEnough ==
    ASSUME NEW R, NEW c, NEW d, ConstantRows(c), Enough(R, c, d), NEW r \in R, NEW y \in Var
    PROVE  \E z \in Row(c, y) : Brings(StoreAt(r, d), y, d) = Brings(EntryAt(r, d), z, d)
<1>1. CASE y \in Variables
  BY <1>1 DEF Enough, Brings
<1>2. CASE y \in Constants
  BY <1>2, VariableKinds DEF ConstantRows, Brings
<1> QED
  BY <1>1, <1>2, VariableKinds

\* An element of the caller's row of y, variable or constant, is brought by a run with the same entry.
LEMMA HeldNeeded ==
    ASSUME NEW R, NEW c, NEW d, ConstantRows(c), Needed(R, c, d), NEW r \in R, NEW y \in Var, NEW z \in Row(c, y)
    PROVE  \E s \in R : SameUpTo(r, s, d - 1) /\ Brings(StoreAt(s, d), y, d) = Brings(EntryAt(r, d), z, d)
<1>1. CASE y \in Variables
  BY <1>1 DEF Needed, Brings
<1>2. CASE y \in Constants
  <2>1. z = y /\ y \notin Variables
    BY <1>2, VariableKinds DEF ConstantRows
  <2> QED
    BY <2>1 DEF Brings, SameUpTo
<1> QED
  BY <1>1, <1>2, VariableKinds

\* After a return each run has its values from the merged rows.
LEMMA ReturnEnough ==
    ASSUME NEW d \in Nat, d > 0, NEW R, RunsAt(R, d + 1), MadeBy(R, d), MadeBy(R, d + 1), NEW f \in Functions,
           NEW c \in Weight, ConstantRows(c), Enough(R, c, d), NEW w \in Weight, Enough(R, w, d + 1),
           NEW r \in R, NEW x \in Variables
    PROVE  \E z \in Row(Extend(c, CalleeEffect(w, f)), x) : ErrorOf(RunReturn(r, f).store[x]) = Brings(EntryAt(r, d), z, d)
<1>1. CalleeEffect(w, f) \in Weight /\ x \in Var
  BY CalleeEffectType, VariableKinds
<1>2. \A z : z \in Row(Extend(c, CalleeEffect(w, f)), x) <=> \E y \in Row(CalleeEffect(w, f), x) : z \in Row(c, y)
  BY <1>1, ExtendRow
<1>3. RunReturn(r, f).store[x] = ValueReturned(r, f, x) /\ StoreAt(r, d) = r.saved[d] /\ StoreAt(r, d + 1) = r.store
  BY ReturnRun
<1>4. CASE x \in Locals
  <2>1. x \in Row(CalleeEffect(w, f), x)
    BY <1>4, EffectRow
  <2>2. ValueReturned(r, f, x) = StoreAt(r, d)[x]
    BY <1>3, <1>4 DEF ValueReturned, RunsAt
  <2> QED
    BY <1>2, <1>3, <2>1, <2>2 DEF Enough
<1>5. CASE x \in Globals
  <2>1. PICK y \in Row(w, x) : ErrorOf(r.store[x]) = Brings(EntryAt(r, d + 1), y, d + 1)
    BY <1>3 DEF Enough
  <2>2. y \in Var /\ EntryAt(r, d + 1) = r.saved[d]
    BY DEF Row, EntryAt
  <2>3. PICK v : v = IF x = Return[f] /\ y \in TentativeErrors THEN Real[y] ELSE y
    OBVIOUS
  <2>4. Returned(x, f, y, v) /\ v \in Var
    BY <1>5, <2>2, <2>3, VariableKinds DEF Returned
  <2>5. r.saved[d] \in Stores /\ \A z \in Variables : r.saved[d][z].made <= d
    BY <1>3, ElementOfSeq DEF RunsAt, MadeBy
  <2>6. ErrorOf(ValueReturned(r, f, x)) = Brings(r.saved[d], v, d)
    BY <1>5, <2>1, <2>2, <2>4, <2>5, GlobalReturned
  <2>7. v \in Row(CalleeEffect(w, f), x)
    BY <2>4, EffectRow
  <2> QED
    BY <1>2, <1>3, <2>4, <2>6, <2>7, HeldEnough
<1> QED
  BY <1>4, <1>5, VariableKinds

\* After a return each element of a merged row is brought by a run with the same entry: the run for
\* the caller's element, followed by one through the callee from what that run called with.
LEMMA ReturnNeeded ==
    ASSUME NEW d \in Nat, d > 0, NEW R, RunsAt(R, d + 1), MadeBy(R, d), MadeBy(R, d + 1), NEW f \in Functions,
           NEW c \in Weight, ConstantRows(c), Needed(R, c, d), NEW w \in Weight, Needed(R, w, d + 1),
           NEW r \in R, NEW x \in Variables, NEW z \in Row(Extend(c, CalleeEffect(w, f)), x)
    PROVE  \E t \in R : SameUpTo(r, t, d - 1) /\ ErrorOf(RunReturn(t, f).store[x]) = Brings(EntryAt(r, d), z, d)
<1>1. CalleeEffect(w, f) \in Weight /\ x \in Var
  BY CalleeEffectType, VariableKinds
<1>2. PICK y \in Row(CalleeEffect(w, f), x) : z \in Row(c, y)
  BY <1>1, ExtendRow
<1>3. \A t \in R : RunReturn(t, f).store[x] = ValueReturned(t, f, x) /\ StoreAt(t, d) = t.saved[d] /\ StoreAt(t, d + 1) = t.store
  BY ReturnRun
<1>4. y \in Var
  BY <1>2 DEF Row
<1>5. PICK s \in R : SameUpTo(r, s, d - 1) /\ Brings(StoreAt(s, d), y, d) = Brings(EntryAt(r, d), z, d)
  BY <1>2, <1>4, HeldNeeded
<1>6. CASE x \in Locals /\ y = x
  <2>1. ValueReturned(s, f, x) = StoreAt(s, d)[x]
    BY <1>3, <1>6 DEF ValueReturned, RunsAt
  <2> QED
    BY <1>3, <1>5, <1>6, <2>1 DEF Brings
<1>7. ASSUME NEW u \in Row(w, x), Returned(x, f, u, y) PROVE \E t \in R : SameUpTo(r, t, d - 1) /\ ErrorOf(RunReturn(t, f).store[x]) = Brings(EntryAt(r, d), z, d)
  <2>1. d + 1 - 1 = d
    OBVIOUS
  <2>2. PICK t \in R : SameUpTo(s, t, d) /\ ErrorOf(t.store[x]) = Brings(EntryAt(s, d + 1), u, d + 1)
    BY <1>3, <2>1 DEF Needed
  <2>3. u \in Var /\ EntryAt(s, d + 1) = s.saved[d] /\ x \in Globals
    BY <1>7 DEF Row, EntryAt, Returned
  <2>4. s.saved[d] \in Stores /\ \A q \in Variables : s.saved[d][q].made <= d
    BY <1>3, ElementOfSeq DEF RunsAt, MadeBy
  <2>5. ErrorOf(ValueReturned(t, f, x)) = Brings(s.saved[d], y, d)
    BY <1>7, <2>2, <2>3, <2>4, GlobalReturned
  <2>6. SameUpTo(r, t, d - 1)
    BY <1>5, <2>2 DEF SameUpTo
  <2> QED
    BY <1>3, <1>5, <2>5, <2>6
<1> QED
  BY <1>2, <1>6, <1>7, EffectRow

-----------------------------------------------------------------------------
(* What each part does to the activations, all runs together.              *)

\* The runs R and the weight w of activation k.
Right(R, w, k) == w \in Weight /\ MadeBy(R, k) /\ Enough(R, w, k) /\ Needed(R, w, k)
FromConstants(w) == \A x \in Variables : Row(w, x) \subseteq Constants

\* extend keeps the constants' own rows.
LEMMA ConstantExtend ==
    ASSUME NEW a \in Weight, NEW b \in Weight, ConstantRows(a), ConstantRows(b)
    PROVE  ConstantRows(Extend(a, b))
<1> SUFFICES ASSUME NEW c \in Constants PROVE Row(Extend(a, b), c) = {c}
  BY DEF ConstantRows
<1>1. \A z : z \in Row(Extend(a, b), c) <=> \E y \in Row(b, c) : z \in Row(a, y)
  BY ExtendRow, VariableKinds
<1> QED
  BY <1>1 DEF ConstantRows

\* A choice between rules: the runs S that they make of R, and the weight v of w.
AreRules(rules) == rules # {} /\ \A rule \in rules : IsRule(rule)
RunsBy(rules, R, S) == \A s : s \in S <=> \E r \in R, rule \in rules : s = RunRule(r, rule)
RowsBy(rules, w, v) == \A x, z : z \in Row(v, x) <=> \E rule \in rules : z \in Row(Extend(w, RuleWeight(rule)), x)

\* The joined weight of a choice: its rows are those of each way, together.
LEMMA RulesRows ==
    ASSUME NEW w \in Weight, NEW rules, AreRules(rules), NEW v,
           v = UNION {Extend(w, RuleWeight(rule)) : rule \in rules}
    PROVE  /\ v \in Weight /\ RowsBy(rules, w, v)
           /\ ConstantRows(w) => ConstantRows(v)
           /\ ConstantRows(w) /\ FromConstants(w) => FromConstants(v)
<1> rules # {} /\ \A rule \in rules : IsRule(rule)
  BY DEF AreRules
<1>1. \A rule \in rules : Extend(w, RuleWeight(rule)) \in Weight
  BY RuleRows, ExtendType
<1>2. v \in Weight
  BY <1>1 DEF Weight
<1>3. ASSUME NEW x, NEW z PROVE z \in Row(v, x) <=> \E rule \in rules : z \in Row(Extend(w, RuleWeight(rule)), x)
  <2>1. z \in Row(v, x) <=> z \in Var /\ <<x, z>> \in v
    BY RowPair
  <2>2. <<x, z>> \in v <=> \E rule \in rules : <<x, z>> \in Extend(w, RuleWeight(rule))
    OBVIOUS
  <2>3. \A rule : z \in Row(Extend(w, RuleWeight(rule)), x) <=> z \in Var /\ <<x, z>> \in Extend(w, RuleWeight(rule))
    BY RowPair
  <2> QED
    BY <2>1, <2>2, <2>3
<1>4. \A rule \in rules, x \in Var : Source(rule, x) \in Var /\ Row(Extend(w, RuleWeight(rule)), x) = Row(w, Source(rule, x))
  BY RuleExtendRow, RuleRows
<1>5. ConstantRows(w) => ConstantRows(v)
  <2> SUFFICES ASSUME ConstantRows(w), NEW c \in Constants PROVE Row(v, c) = {c}
    BY DEF ConstantRows
  <2>1. \A rule \in rules : Source(rule, c) = c
    BY RuleRows
  <2>2. \A rule \in rules : Row(Extend(w, RuleWeight(rule)), c) = {c}
    BY <1>4, <2>1, VariableKinds DEF ConstantRows
  <2> QED
    BY <1>3, <2>2
<1>6. ConstantRows(w) /\ FromConstants(w) => FromConstants(v)
  <2> SUFFICES ASSUME ConstantRows(w), FromConstants(w), NEW x \in Variables, NEW z \in Row(v, x) PROVE z \in Constants
    BY DEF FromConstants
  <2>1. PICK rule \in rules : z \in Row(w, Source(rule, x)) /\ Source(rule, x) \in Var
    BY <1>3, <1>4, VariableKinds
  <2> QED
    BY <2>1, VariableKinds DEF ConstantRows, FromConstants
<1> QED
  BY <1>2, <1>3, <1>5, <1>6 DEF RowsBy

\* A choice between rules keeps the rows right, in the present activation.
LEMMA RulesStep ==
    ASSUME NEW k \in Nat, k > 0, NEW R, RunsAt(R, k), NEW w, ConstantRows(w), Right(R, w, k),
           NEW rules, AreRules(rules), NEW S, RunsBy(rules, R, S), NEW v \in Weight, RowsBy(rules, w, v)
    PROVE  RunsAt(S, k) /\ Matched(R, S, k - 1) /\ Right(S, v, k)
<1> rules # {} /\ \A rule \in rules : IsRule(rule)
  BY DEF AreRules
<1>1. \A x, z : z \in Row(v, x) <=> \E rule \in rules : z \in Row(Extend(w, RuleWeight(rule)), x)
  BY DEF RowsBy
<1> w \in Weight /\ MadeBy(R, k) /\ Enough(R, w, k) /\ Needed(R, w, k)
  BY DEF Right
<1>2. ASSUME NEW r \in R, NEW rule \in rules
      PROVE  /\ RunRule(r, rule) \in S
             /\ RunRule(r, rule).store \in Stores /\ RunRule(r, rule).saved = r.saved
             /\ r.store \in Stores /\ r.saved \in Seq(Stores) /\ Len(r.saved) = k - 1 /\ Depth(r) = k
             /\ StoreAt(r, k) = r.store /\ StoreAt(RunRule(r, rule), k) = RunRule(r, rule).store
             /\ EntryAt(RunRule(r, rule), k) = EntryAt(r, k)
             /\ \A x \in Variables : ErrorOf(RunRule(r, rule).store[x]) = Brings(r.store, Source(rule, x), k)
  <2>1. r.store \in Stores /\ r.saved \in Seq(Stores) /\ Len(r.saved) = k - 1 /\ Depth(r) = k
    BY DEF RunsAt, Depth
  <2>2. /\ RunRule(r, rule).store \in Stores /\ RunRule(r, rule).saved = r.saved
        /\ \A x \in Variables : ErrorOf(RunRule(r, rule).store[x]) = Brings(r.store, Source(rule, x), k)
    BY <2>1, RuleRun
  <2>3. RunRule(r, rule) \in S
    BY DEF RunsBy
  <2> QED
    BY <2>1, <2>2, <2>3 DEF StoreAt, EntryAt
<1>3. \A s \in S : \E r \in R, rule \in rules : s = RunRule(r, rule)
  BY DEF RunsBy
<1> HIDE DEF Right
<1>4. RunsAt(S, k)
  <2> SUFFICES ASSUME NEW s \in S PROVE s.store \in Stores /\ s.saved \in Seq(Stores) /\ Len(s.saved) = k - 1
    BY DEF RunsAt
  <2>1. PICK r \in R, rule \in rules : s = RunRule(r, rule)
    BY <1>3
  <2> QED
    BY <1>2, <2>1
<1>5. Matched(R, S, k - 1)
  <2>1. ASSUME NEW r \in R, NEW rule \in rules
        PROVE  /\ SameUpTo(r, RunRule(r, rule), k - 1) /\ SameUpTo(RunRule(r, rule), r, k - 1)
               /\ Len(r.saved) >= k - 1 /\ Len(RunRule(r, rule).saved) >= k - 1
    BY <1>2 DEF SameUpTo
  <2>2. \A r \in R : Len(r.saved) >= k - 1 /\ \E s \in S : SameUpTo(r, s, k - 1)
    BY <1>2, <2>1
  <2>3. ASSUME NEW s \in S PROVE Len(s.saved) >= k - 1 /\ \E r \in R : SameUpTo(r, s, k - 1)
    <3>1. PICK r \in R, rule \in rules : s = RunRule(r, rule)
      BY <1>3
    <3> QED
      BY <2>1, <3>1
  <2> QED
    BY <2>2, <2>3 DEF Matched
<1>6. MadeBy(S, k)
  <2> SUFFICES ASSUME NEW r \in R, NEW rule \in rules, NEW x \in Variables, NEW value, value = RunRule(r, rule).store[x]
               PROVE  value.made <= k /\ (value.made > 0 => value.name \in TentativeErrors)
    BY <1>2, <1>3 DEF MadeBy
  <2>1. <<value.name, value.made>> = Brings(r.store, Source(rule, x), k)
    BY <1>2 DEF ErrorOf
  <2>2. CASE Source(rule, x) \in Variables
    <3>1. value.name = r.store[Source(rule, x)].name /\ value.made = r.store[Source(rule, x)].made
      BY <2>1, <2>2 DEF Brings, ErrorOf
    <3>2. StoreAt(r, k) = r.store
      BY <1>2
    <3> QED
      BY <2>2, <3>1, <3>2 DEF MadeBy
  <2>3. CASE Source(rule, x) \notin Variables
    BY <2>1, <2>3 DEF Brings
  <2> QED
    BY <2>2, <2>3
<1>7. Enough(S, v, k)
  <2> SUFFICES ASSUME NEW r \in R, NEW rule \in rules, NEW x \in Variables
               PROVE  \E z \in Row(v, x) : ErrorOf(RunRule(r, rule).store[x]) = Brings(EntryAt(r, k), z, k)
    BY <1>2, <1>3 DEF Enough
  <2> QED
    BY <1>1, RuleEnough
<1>8. Needed(S, v, k)
  <2> SUFFICES ASSUME NEW r \in R, NEW some \in rules, NEW x \in Variables, NEW z \in Row(v, x)
               PROVE  \E s \in S : SameUpTo(RunRule(r, some), s, k - 1) /\ ErrorOf(StoreAt(s, k)[x]) = Brings(EntryAt(r, k), z, k)
    BY <1>2, <1>3 DEF Needed
  <2>1. PICK rule \in rules : z \in Row(Extend(w, RuleWeight(rule)), x)
    BY <1>1
  <2>2. PICK t \in R : SameUpTo(r, t, k - 1) /\ ErrorOf(RunRule(t, rule).store[x]) = Brings(EntryAt(r, k), z, k)
    BY <2>1, RuleNeeded
  <2>3. SameUpTo(RunRule(r, some), RunRule(t, rule), k - 1)
    BY <1>2, <2>2 DEF SameUpTo
  <2> QED
    BY <1>2, <2>2, <2>3
<1> QED
  BY <1>4, <1>5, <1>6, <1>7, <1>8 DEF Right

\* One rule, as a choice of its own.
LEMMA RuleStep ==
    ASSUME NEW k \in Nat, k > 0, NEW R, RunsAt(R, k), NEW w, ConstantRows(w), Right(R, w, k),
           NEW rule, IsRule(rule), NEW S, S = {RunRule(r, rule) : r \in R},
           NEW v, v = Extend(w, RuleWeight(rule))
    PROVE  RunsAt(S, k) /\ Matched(R, S, k - 1) /\ Right(S, v, k) /\ ConstantRows(v) /\ (FromConstants(w) => FromConstants(v))
<1>1. PICK rules : rules = {rule}
  OBVIOUS
<1>2. v = UNION {Extend(w, RuleWeight(one)) : one \in rules}
  BY <1>1
<1>3. w \in Weight /\ AreRules(rules) /\ RunsBy(rules, R, S)
  BY <1>1 DEF Right, AreRules, RunsBy
<1>4. v \in Weight /\ RowsBy(rules, w, v) /\ ConstantRows(v) /\ (FromConstants(w) => FromConstants(v))
  BY <1>2, <1>3, RulesRows
<1>5. RunsAt(S, k) /\ Matched(R, S, k - 1) /\ Right(S, v, k)
  BY <1>3, <1>4, RulesStep
<1> QED
  BY <1>4, <1>5

\* Entering a function: the runs T become S.
Enters(t, s) == s.store = t.store /\ s.saved = Append(t.saved, t.store)
EntersBy(T, S) == (\A t \in T : \E s \in S : Enters(t, s)) /\ (\A s \in S : \E t \in T : Enters(t, s))

\* A call suspends the store of the run and enters with it.
LEMMA EnterRun ==
    ASSUME NEW k \in Nat, k > 0, NEW T, RunsAt(T, k), NEW t \in T, NEW s, Enters(t, s)
    PROVE  /\ s.store \in Stores /\ s.saved \in Seq(Stores) /\ Len(s.saved) = k /\ s.store = t.store
           /\ SameUpTo(t, s, k - 1) /\ SameUpTo(s, t, k - 1) /\ EntryAt(s, k) = EntryAt(t, k)
           /\ StoreAt(t, k) = t.store /\ StoreAt(s, k) = t.store /\ StoreAt(s, k + 1) = t.store
           /\ EntryAt(s, k + 1) = t.store /\ s.saved[k] = t.store
<1>1. t.store \in Stores /\ t.saved \in Seq(Stores) /\ Len(t.saved) = k - 1
  BY DEF RunsAt
<1>2. s.saved \in Seq(Stores) /\ Len(s.saved) = k /\ s.saved[k] = t.store /\ \A i \in 1 .. k - 1 : s.saved[i] = t.saved[i]
  BY <1>1, AppendProperties DEF Enters
<1>3. SameUpTo(t, s, k - 1) /\ SameUpTo(s, t, k - 1)
  BY <1>2 DEF SameUpTo
<1>4. EntryAt(s, k) = EntryAt(t, k)
  BY <1>2 DEF EntryAt
<1> QED
  BY <1>1, <1>2, <1>3, <1>4 DEF Enters, StoreAt, EntryAt

\* A call keeps the rows of the caller right; in the callee each variable is what it was entered with.
LEMMA EnterStep ==
    ASSUME NEW k \in Nat, k > 0, NEW T, RunsAt(T, k), NEW w, Right(T, w, k), NEW S, EntersBy(T, S)
    PROVE  /\ RunsAt(S, k + 1) /\ Matched(T, S, k - 1) /\ Right(S, w, k) /\ Right(S, One, k + 1)
           /\ \A x \in Variables : EntriesOf(S, k + 1, x) = HeldAt(T, k, x)
<1>1. \A t \in T : \E s \in S : Enters(t, s)
  BY DEF EntersBy
<1>2. \A s \in S : \E t \in T : Enters(t, s)
  BY DEF EntersBy
<1>3. RunsAt(S, k + 1)
  <2> SUFFICES ASSUME NEW s \in S PROVE s.store \in Stores /\ s.saved \in Seq(Stores) /\ Len(s.saved) = k
    BY DEF RunsAt
  <2> QED
    BY <1>2, EnterRun
<1>4. Matched(T, S, k - 1)
  <2>1. ASSUME NEW t \in T PROVE Len(t.saved) >= k - 1 /\ \E s \in S : SameUpTo(t, s, k - 1)
    BY <1>1, EnterRun DEF RunsAt
  <2>2. ASSUME NEW s \in S PROVE Len(s.saved) >= k - 1 /\ \E t \in T : SameUpTo(t, s, k - 1)
    <3>1. PICK t \in T : Enters(t, s)
      BY <1>2
    <3>2. SameUpTo(t, s, k - 1) /\ Len(s.saved) = k
      BY <3>1, EnterRun
    <3> QED
      BY <3>2
  <2> QED
    BY <2>1, <2>2 DEF Matched
<1>5. Right(S, w, k)
  <2>1. MadeBy(S, k)
    <3> SUFFICES ASSUME NEW s \in S, NEW x \in Variables
                 PROVE  StoreAt(s, k)[x].made <= k /\ (StoreAt(s, k)[x].made > 0 => StoreAt(s, k)[x].name \in TentativeErrors)
      BY DEF MadeBy
    <3>1. PICK t \in T : Enters(t, s)
      BY <1>2
    <3>2. StoreAt(s, k) = StoreAt(t, k)
      BY <3>1, EnterRun
    <3> QED
      BY <3>2 DEF Right, MadeBy
  <2>2. Enough(S, w, k)
    <3> SUFFICES ASSUME NEW s \in S, NEW x \in Variables
                 PROVE  \E z \in Row(w, x) : ErrorOf(StoreAt(s, k)[x]) = Brings(EntryAt(s, k), z, k)
      BY DEF Enough
    <3>1. PICK t \in T : Enters(t, s)
      BY <1>2
    <3>2. StoreAt(s, k) = StoreAt(t, k) /\ EntryAt(s, k) = EntryAt(t, k)
      BY <3>1, EnterRun
    <3> QED
      BY <3>2 DEF Right, Enough
  <2>3. Needed(S, w, k)
    <3> SUFFICES ASSUME NEW s \in S, NEW x \in Variables, NEW z \in Row(w, x)
                 PROVE  \E q \in S : SameUpTo(s, q, k - 1) /\ ErrorOf(StoreAt(q, k)[x]) = Brings(EntryAt(s, k), z, k)
      BY DEF Needed
    <3>1. PICK t \in T : Enters(t, s)
      BY <1>2
    <3>2. SameUpTo(s, t, k - 1) /\ EntryAt(s, k) = EntryAt(t, k)
      BY <3>1, EnterRun
    <3>3. PICK p \in T : SameUpTo(t, p, k - 1) /\ ErrorOf(StoreAt(p, k)[x]) = Brings(EntryAt(t, k), z, k)
      BY DEF Right, Needed
    <3>4. PICK q \in S : Enters(p, q)
      BY <1>1
    <3>5. SameUpTo(p, q, k - 1) /\ StoreAt(q, k) = StoreAt(p, k)
      BY <3>4, EnterRun
    <3>6. SameUpTo(s, q, k - 1)
      BY <3>2, <3>3, <3>5 DEF SameUpTo
    <3> QED
      BY <3>2, <3>3, <3>5, <3>6
  <2> QED
    BY <2>1, <2>2, <2>3 DEF Right
<1>6. Right(S, One, k + 1)
  <2>1. ASSUME NEW s \in S
        PROVE  /\ EntryAt(s, k + 1) = StoreAt(s, k + 1) /\ StoreAt(s, k + 1) = StoreAt(s, k)
    <3>1. PICK t \in T : Enters(t, s)
      BY <1>2
    <3> QED
      BY <3>1, EnterRun
  <2>2. \A s \in S, x \in Variables : ErrorOf(StoreAt(s, k + 1)[x]) = Brings(EntryAt(s, k + 1), x, k + 1)
    BY <2>1 DEF Brings
  <2>3. MadeBy(S, k + 1)
    <3>1. MadeBy(S, k)
      BY <1>5 DEF Right
    <3>2. ASSUME NEW s \in S, NEW x \in Variables PROVE StoreAt(s, k)[x].made \in Nat
      <4>1. PICK t \in T : Enters(t, s)
        BY <1>2
      <4>2. StoreAt(s, k) \in Stores
        BY <4>1, EnterRun
      <4> QED
        BY <4>2 DEF Stores, Values
    <3> QED
      BY <2>1, <3>1, <3>2 DEF MadeBy
  <2>4. One \in Weight /\ \A x \in Variables : Row(One, x) = {x}
    BY OneRow, VariableKinds
  <2>5. Enough(S, One, k + 1)
    BY <2>2, <2>4 DEF Enough
  <2>6. Needed(S, One, k + 1)
    BY <2>2, <2>4 DEF Needed, SameUpTo
  <2> QED
    BY <2>3, <2>4, <2>5, <2>6 DEF Right
<1>7. ASSUME NEW x \in Variables PROVE EntriesOf(S, k + 1, x) = HeldAt(T, k, x)
  <2>1. ASSUME NEW t \in T, NEW s \in S, Enters(t, s) PROVE EntryAt(s, k + 1) = StoreAt(t, k)
    BY <2>1, EnterRun
  <2> QED
    BY <1>1, <1>2, <2>1 DEF EntriesOf, HeldAt
<1> QED
  BY <1>3, <1>4, <1>5, <1>6, <1>7

\* Returning from function f: the runs R become S.
ReturnsBy(f, R, S) == \A s : s \in S <=> \E r \in R : s = RunReturn(r, f)

\* The weight after a return is one, and keeps the constants' own rows.
LEMMA ReturnRows ==
    ASSUME NEW f \in Functions, NEW c \in Weight, NEW w \in Weight, ConstantRows(c), NEW v, v = Extend(c, CalleeEffect(w, f))
    PROVE  v \in Weight /\ ConstantRows(v) /\ (FromConstants(c) => FromConstants(v))
<1>1. CalleeEffect(w, f) \in Weight
  BY CalleeEffectType
<1>2. ConstantRows(CalleeEffect(w, f))
  <2> SUFFICES ASSUME NEW x \in Constants, NEW z PROVE z \in Row(CalleeEffect(w, f), x) <=> z = x
    BY DEF ConstantRows
  <2>1. x \in Var /\ x \notin Globals
    BY VariableKinds
  <2>2. z \in Var => (z \in Row(CalleeEffect(w, f), x) <=> IsEffect(w, f, x, z))
    BY <2>1, CalleeEffectPair DEF Row
  <2>3. z \in Row(CalleeEffect(w, f), x) => z \in Var
    BY DEF Row
  <2> QED
    BY <2>1, <2>2, <2>3 DEF IsEffect
<1>3. v \in Weight /\ ConstantRows(v)
  BY <1>1, <1>2, ConstantExtend, ExtendType
<1>4. ASSUME FromConstants(c), NEW x \in Variables, NEW z \in Row(v, x) PROVE z \in Constants
  <2>1. PICK y \in Row(CalleeEffect(w, f), x) : z \in Row(c, y)
    BY <1>1, ExtendRow, VariableKinds
  <2>2. y \in Var
    BY <2>1 DEF Row
  <2> QED
    BY <1>4, <2>1, <2>2, VariableKinds DEF ConstantRows, FromConstants
<1> QED
  BY <1>3, <1>4 DEF FromConstants

\* A return keeps the rows right, in the activation that is returned to.
LEMMA ReturnStep ==
    ASSUME NEW d \in Nat, d > 0, NEW R, RunsAt(R, d + 1), NEW f \in Functions, NEW S, ReturnsBy(f, R, S),
           NEW c, Right(R, c, d), ConstantRows(c), NEW w, Right(R, w, d + 1), NEW v, v = Extend(c, CalleeEffect(w, f))
    PROVE  RunsAt(S, d) /\ Matched(R, S, d - 1) /\ Right(S, v, d)
<1>1. /\ c \in Weight /\ MadeBy(R, d) /\ Enough(R, c, d) /\ Needed(R, c, d)
      /\ w \in Weight /\ MadeBy(R, d + 1) /\ Enough(R, w, d + 1) /\ Needed(R, w, d + 1)
  BY DEF Right
<1>2. v \in Weight
  BY <1>1, ReturnRows
<1>3. ASSUME NEW r \in R
      PROVE  /\ RunReturn(r, f) \in S
             /\ RunReturn(r, f).store \in Stores /\ RunReturn(r, f).saved \in Seq(Stores)
             /\ Len(RunReturn(r, f).saved) = d - 1 /\ SameUpTo(r, RunReturn(r, f), d - 1)
             /\ StoreAt(RunReturn(r, f), d) = RunReturn(r, f).store
             /\ \A x \in Variables :
                   LET value == RunReturn(r, f).store[x]
                   IN  value.made <= d /\ (value.made > 0 => value.name \in TentativeErrors)
  <2>1. RunReturn(r, f) \in S
    BY DEF ReturnsBy
  <2> QED
    BY <1>1, <2>1, ReturnRun
<1>4. \A s \in S : \E r \in R : s = RunReturn(r, f)
  BY DEF ReturnsBy
<1>5. ASSUME NEW r \in R PROVE EntryAt(RunReturn(r, f), d) = EntryAt(r, d)
  <2>1. d - 1 \in Nat /\ d \in 1 .. d - 1 + 1
    OBVIOUS
  <2> QED
    BY <1>3, <2>1, SameEntry
<1>6. RunsAt(S, d)
  <2> SUFFICES ASSUME NEW s \in S PROVE s.store \in Stores /\ s.saved \in Seq(Stores) /\ Len(s.saved) = d - 1
    BY DEF RunsAt
  <2> QED
    BY <1>3, <1>4
<1>7. Matched(R, S, d - 1)
  <2>1. ASSUME NEW r \in R PROVE Len(r.saved) >= d - 1 /\ \E s \in S : SameUpTo(r, s, d - 1)
    BY <1>3 DEF RunsAt
  <2>2. ASSUME NEW s \in S PROVE Len(s.saved) >= d - 1 /\ \E r \in R : SameUpTo(r, s, d - 1)
    BY <1>3, <1>4
  <2> QED
    BY <2>1, <2>2 DEF Matched
<1>8. MadeBy(S, d)
  <2> SUFFICES ASSUME NEW r \in R, NEW x \in Variables, NEW value, value = StoreAt(RunReturn(r, f), d)[x]
               PROVE  value.made <= d /\ (value.made > 0 => value.name \in TentativeErrors)
    BY <1>4 DEF MadeBy
  <2> QED
    BY <1>3
<1>9. Enough(S, v, d)
  <2> SUFFICES ASSUME NEW r \in R, NEW x \in Variables
               PROVE  \E z \in Row(v, x) : ErrorOf(RunReturn(r, f).store[x]) = Brings(EntryAt(r, d), z, d)
    BY <1>3, <1>4, <1>5 DEF Enough
  <2> QED
    BY <1>1, ReturnEnough
<1>10. Needed(S, v, d)
  <2> SUFFICES ASSUME NEW r \in R, NEW x \in Variables, NEW z \in Row(v, x)
               PROVE  \E s \in S : SameUpTo(RunReturn(r, f), s, d - 1) /\ ErrorOf(StoreAt(s, d)[x]) = Brings(EntryAt(r, d), z, d)
    BY <1>4, <1>5 DEF Needed
  <2>1. PICK t \in R : SameUpTo(r, t, d - 1) /\ ErrorOf(RunReturn(t, f).store[x]) = Brings(EntryAt(r, d), z, d)
    BY <1>1, ReturnNeeded
  <2>2. SameUpTo(RunReturn(r, f), RunReturn(t, f), d - 1)
    BY <1>3, <2>1 DEF SameUpTo
  <2> QED
    BY <1>3, <2>1, <2>2
<1> QED
  BY <1>2, <1>6, <1>7, <1>8, <1>9, <1>10 DEF Right

\* The first activation: main.0 and one more rule.
LEMMA JoinRun ==
    ASSUME NEW rule, IsRule(rule), NEW N, N = {RunRule(RunRule(RunStart, MainRule), rule)},
           NEW v, v = Extend(RuleWeight(MainRule), RuleWeight(rule))
    PROVE  RunsAt(N, 1) /\ Right(N, v, 1) /\ ConstantRows(v) /\ FromConstants(v)
<1>1. IsRule(MainRule)
  BY DEF MainRule, IsRule
<1>2. PICK R : R = {RunStart}
  OBVIOUS
<1>3. RunsAt(R, 1)
  <2>1. RunStart.store \in Stores /\ RunStart.saved = << >>
    BY StartType
  <2>2. << >> \in Seq(Stores) /\ Len(<< >>) = 1 - 1
    OBVIOUS
  <2>3. \A r \in R : r = RunStart
    BY <1>2
  <2> QED
    BY <2>1, <2>2, <2>3 DEF RunsAt
<1>4. One \in Weight /\ \A x \in Var : Row(One, x) = {x}
  BY OneRow
<1>5. ConstantRows(One)
  BY <1>4, VariableKinds DEF ConstantRows
<1>6. Right(R, One, 1)
  <2>1. \A r \in R : StoreAt(r, 1) = RunStart.store /\ EntryAt(r, 1) = RunStart.store
    BY <1>2, StartType DEF StoreAt, EntryAt
  <2>2. \A x \in Variables : ErrorOf(RunStart.store[x]) = Brings(RunStart.store, x, 1)
    BY DEF Brings
  <2>3. MadeBy(R, 1)
    BY <2>1, StartType DEF MadeBy, ErrorOf
  <2>4. Enough(R, One, 1)
    BY <1>4, <2>1, <2>2, VariableKinds DEF Enough
  <2>5. Needed(R, One, 1)
    BY <1>4, <2>1, <2>2, VariableKinds DEF Needed, SameUpTo
  <2> QED
    BY <1>4, <2>3, <2>4, <2>5 DEF Right
<1>7. PICK S : S = {RunRule(r, MainRule) : r \in R}
  OBVIOUS
<1>8. PICK w : w = Extend(One, RuleWeight(MainRule))
  OBVIOUS
<1>9. RunsAt(S, 1) /\ Right(S, w, 1) /\ ConstantRows(w)
  BY <1>1, <1>3, <1>5, <1>6, <1>7, <1>8, RuleStep
<1>10. w = RuleWeight(MainRule)
  BY <1>1, <1>8, RuleRows, ExtendOne
<1>11. FromConstants(w)
  <2> SUFFICES ASSUME NEW x \in Variables PROVE Row(w, x) \subseteq Constants
    BY DEF FromConstants
  <2>1. Source(MainRule, x) = UNINITIALIZED
    BY DEF Source, MainRule, Forgets
  <2> QED
    BY <1>1, <1>10, <2>1, RuleRows, VariableKinds
<1>12. N = {RunRule(r, rule) : r \in S}
  BY <1>2, <1>7
<1>13. v = Extend(w, RuleWeight(rule))
  BY <1>10
<1> QED
  BY <1>9, <1>11, <1>12, <1>13, RuleStep

\* Two sets of runs of the first activation that join keep their rows right.
LEMMA JoinStep ==
    ASSUME NEW R, RunsAt(R, 1), NEW w, Right(R, w, 1), R = {} => w = Zero, R # {} => ConstantRows(w), FromConstants(w),
           NEW N, RunsAt(N, 1), NEW v, Right(N, v, 1), N # {}, ConstantRows(v), FromConstants(v)
    PROVE  RunsAt(R \cup N, 1) /\ Right(R \cup N, w \cup v, 1) /\ ConstantRows(w \cup v) /\ FromConstants(w \cup v)
<1>1. \A x, z : z \in Row(w \cup v, x) <=> z \in Row(w, x) \/ z \in Row(v, x)
  BY DEF Row
<1>2. w \cup v \in Weight
  BY DEF Right, Weight
<1>3. RunsAt(R \cup N, 1)
  BY DEF RunsAt
<1>4. \A r \in R \cup N : EntryAt(r, 1) = RunStart.store
  BY DEF EntryAt
<1>5. \A r, t : SameUpTo(r, t, 1 - 1)
  BY DEF SameUpTo
<1>6. MadeBy(R \cup N, 1)
  BY DEF Right, MadeBy
<1>7. Enough(R \cup N, w \cup v, 1)
  BY <1>1 DEF Right, Enough
<1>8. Needed(R \cup N, w \cup v, 1)
  <2> SUFFICES ASSUME NEW x \in Variables, NEW z \in Row(w \cup v, x)
               PROVE  \E t \in R \cup N : ErrorOf(StoreAt(t, 1)[x]) = Brings(RunStart.store, z, 1)
    BY <1>4, <1>5 DEF Needed
  <2>1. CASE z \in Row(w, x)
    <3>1. PICK r \in R : TRUE
      BY <2>1 DEF Row, Zero
    <3> QED
      BY <1>4, <2>1 DEF Right, Needed
  <2>2. CASE z \in Row(v, x)
    <3>1. PICK r \in N : TRUE
      OBVIOUS
    <3> QED
      BY <1>4, <2>2 DEF Right, Needed
  <2> QED
    BY <1>1, <2>1, <2>2
<1>9. ConstantRows(w \cup v)
  <2> SUFFICES ASSUME NEW c \in Constants, NEW z PROVE z \in Row(w \cup v, c) <=> z = c
    BY DEF ConstantRows
  <2>1. Row(v, c) = {c} /\ (R # {} => Row(w, c) = {c}) /\ (R = {} => Row(w, c) = {})
    BY DEF ConstantRows, Row, Zero
  <2> QED
    BY <1>1, <2>1
<1>10. FromConstants(w \cup v)
  BY <1>1 DEF FromConstants
<1> QED
  BY <1>2, <1>3, <1>6, <1>7, <1>8, <1>9, <1>10 DEF Right

-----------------------------------------------------------------------------
(* The invariant.                                                          *)

\* An activation that a step does not touch stays right.
LEMMA RightBelow ==
    ASSUME NEW R, NEW S, NEW k \in Nat, Matched(R, S, k), NEW j \in 1 .. k, NEW w, Right(R, w, j),
           \A r \in R \cup S : Len(r.saved) \in Nat
    PROVE  Right(S, w, j)
BY SameBelow DEF Right

\* What the invariant says of the activations, in the words of the lemmas.
LEMMA Present ==
    ASSUME PointsInv
    PROVE  /\ Len(engine.calls) \in Nat /\ RunsAt(runs, Len(engine.calls) + 1)
           /\ \A r \in runs : Len(r.saved) \in Nat
           /\ \A j \in Levels : WeightAt(j) \in Weight /\ BeforeAt(j) \in Weight /\ Right(runs, WeightAt(j), j)
           /\ runs # {} => \A j \in Levels : ConstantRows(WeightAt(j)) /\ ConstantRows(BeforeAt(j))
           /\ BeforeAt(1) = One /\ FromConstants(WeightAt(1))
<1>1. PointsType
  BY DEF PointsInv
<1>2. Len(engine.calls) \in Nat /\ RunsAt(runs, Len(engine.calls) + 1) /\ \A r \in runs : Len(r.saved) \in Nat
  BY <1>1 DEF PointsType, RunsAt
<1>3. ASSUME NEW j \in Levels PROVE WeightAt(j) \in Weight /\ BeforeAt(j) \in Weight
  <2>1. CASE j <= Len(engine.calls)
    <3>1. engine.calls[j] \in CallType
      BY <1>1, <1>2, <2>1, ElementOfSeq DEF PointsType, Levels
    <3>2. engine.calls[j].caller \in Weight /\ engine.calls[j].before \in Weight /\ IsRule(engine.calls[j].rule)
      BY <1>1, <3>1, ProgramsType DEF CallType, PointsType
    <3> QED
      BY <2>1, <3>2, RuleRows, ExtendType DEF WeightAt, BeforeAt
  <2>2. CASE ~(j <= Len(engine.calls))
    BY <1>1, <2>2 DEF PointsType, WeightAt, BeforeAt
  <2> QED
    BY <2>1, <2>2
<1>4. ASSUME NEW j \in Levels PROVE Right(runs, WeightAt(j), j)
  BY <1>3 DEF PointsInv, MadeTentative, RowsRight, Right
<1>5. runs # {} => \A j \in Levels : ConstantRows(WeightAt(j)) /\ ConstantRows(BeforeAt(j))
  BY DEF PointsInv, ConstantsOwn, ConstantRows
<1>6. BeforeAt(1) = One /\ FromConstants(WeightAt(1))
  BY DEF PointsInv, FirstEntered, FromConstants
<1> QED
  BY <1>2, <1>3, <1>4, <1>5, <1>6

\* A step that leaves the first k activations alone, and is right about the others.
LEMMA GoesOn ==
    ASSUME PointsInv, GoOn,
           NEW d \in Nat, d = Len(engine'.calls), RunsAt(runs', d + 1),
           engine'.own \in Weight, engine'.before \in Weight, engine'.calls \in Seq(CallType),
           NEW k \in Nat, k <= d, k <= Len(engine.calls), Matched(runs, runs', k),
           \A j \in 1 .. k : WeightAt(j)' = WeightAt(j), \A j \in 1 .. k + 1 : BeforeAt(j)' = BeforeAt(j),
           \A j \in k + 1 .. d + 1 : Right(runs', WeightAt(j)', j) /\ ConstantRows(WeightAt(j)') /\ ConstantRows(BeforeAt(j)'),
           k = 0 => FromConstants(WeightAt(1)'),
           \A j \in k + 2 .. d + 1 : \A x \in Variables : Row(BeforeAt(j)', x) = EntriesOf(runs', j, x)
    PROVE  PointsInv'
<1>1. /\ Len(engine.calls) \in Nat /\ RunsAt(runs, Len(engine.calls) + 1) /\ \A r \in runs : Len(r.saved) \in Nat
      /\ \A j \in Levels : WeightAt(j) \in Weight /\ BeforeAt(j) \in Weight /\ Right(runs, WeightAt(j), j)
      /\ \A j \in Levels : ConstantRows(WeightAt(j)) /\ ConstantRows(BeforeAt(j))
      /\ BeforeAt(1) = One /\ FromConstants(WeightAt(1))
  BY Present DEF GoOn
<1>2. Levels' = 1 .. d + 1 /\ 1 .. k + 1 \subseteq Levels
  BY <1>1 DEF Levels
<1>3. runs # {} /\ runs' # {}
  BY DEF GoOn, Matched
<1>4. PointsType'
  <2>1. program' = program /\ report_tentative' = report_tentative /\ taken' = taken + 1 /\ CallType' = CallType
    BY DEF GoOn, CallType
  <2>2. program \in DOMAIN Programs /\ report_tentative \in BOOLEAN /\ taken \in Nat
    BY DEF PointsInv, PointsType
  <2>3. \A r \in runs' : r.store \in Stores /\ r.saved \in Seq(Stores) /\ Len(r.saved) = Len(engine'.calls)
    BY DEF RunsAt
  <2>4. taken' # 0 /\ taken' \in Nat
    BY <2>1, <2>2
  <2> QED
    BY <1>3, <2>1, <2>2, <2>3, <2>4 DEF PointsType
<1>5. \A j \in Levels' : Right(runs', WeightAt(j)', j)
  <2> SUFFICES ASSUME NEW j \in 1 .. d + 1 PROVE Right(runs', WeightAt(j)', j)
    BY <1>2
  <2>1. CASE j <= k
    <3>1. j \in 1 .. k /\ j \in Levels
      BY <1>2, <2>1
    <3>2. \A r \in runs \cup runs' : Len(r.saved) \in Nat
      BY <1>1 DEF RunsAt
    <3>3. Right(runs', WeightAt(j), j)
      BY <1>1, <3>1, <3>2, RightBelow
    <3> QED
      BY <3>1, <3>3
  <2>2. CASE j > k
    BY <2>2
  <2> QED
    BY <2>1, <2>2
<1>6. MadeTentative' /\ RowsRight'
  BY <1>5 DEF MadeTentative, RowsRight, Right
<1>7. ConstantsOwn'
  <2>1. ASSUME NEW j \in 1 .. d + 1 PROVE ConstantRows(WeightAt(j)') /\ ConstantRows(BeforeAt(j)')
    <3>1. CASE j <= k
      <4>1. j \in Levels /\ WeightAt(j)' = WeightAt(j) /\ BeforeAt(j)' = BeforeAt(j)
        BY <1>2, <3>1
      <4> QED
        BY <1>1, <4>1
    <3>2. CASE j > k
      BY <3>2
    <3> QED
      BY <3>1, <3>2
  <2> QED
    BY <1>2, <2>1 DEF ConstantsOwn, ConstantRows
<1>8. FirstEntered'
  <2>1. BeforeAt(1)' = One
    BY <1>1
  <2>2. FromConstants(WeightAt(1)')
    <3>1. k # 0 => WeightAt(1)' = WeightAt(1)
      OBVIOUS
    <3> QED
      BY <1>1, <3>1
  <2> QED
    BY <2>1, <2>2 DEF FirstEntered, FromConstants
<1>9. EntriesExact'
  <2>1. ASSUME NEW j \in 1 .. d + 1, j # 1, NEW x \in Variables
        PROVE  Row(BeforeAt(j)', x) = EntriesOf(runs', j, x)
    <3>1. CASE j <= k + 1
      <4>1. j \in 1 .. k + 1 /\ j \in Levels \ {1}
        BY <1>2, <2>1, <3>1
      <4>2. Row(BeforeAt(j), x) = EntriesOf(runs, j, x)
        BY <1>3, <4>1 DEF PointsInv, EntriesExact, EntriesOf
      <4>3. EntriesOf(runs, j, x) = EntriesOf(runs', j, x)
        BY <4>1, SameEntries
      <4>4. BeforeAt(j)' = BeforeAt(j)
        BY <4>1
      <4> QED
        BY <4>2, <4>3, <4>4
    <3>2. CASE j > k + 1
      <4>1. j \in k + 2 .. d + 1
        BY <3>2
      <4> QED
        BY <4>1
    <3> QED
      BY <3>1, <3>2
  <2> QED
    BY <1>2, <2>1 DEF EntriesExact, EntriesOf
<1>10. ReportsRight'
  BY DEF GoOn, ReportsRight
<1> QED
  BY <1>4, <1>6, <1>7, <1>8, <1>9, <1>10 DEF PointsInv

\* Rules that are taken change the present activation only.
LEMMA RulesKept ==
    ASSUME PointsInv, NEW part \in Programs[program].rules, TakeRules(part)
    PROVE  PointsInv'
<1>1. GoOn
  BY DEF TakeRules
<1>2. PICK d \in Nat : d = Len(engine.calls)
  BY Present
<1>3. PICK rules : rules = {part.ways[i] : i \in DOMAIN part.ways}
  OBVIOUS
<1>4. AreRules(rules)
  <2>1. program \in DOMAIN Programs
    BY DEF PointsInv, PointsType
  <2>2. DOMAIN part.ways # {} /\ \A i \in DOMAIN part.ways : IsRule(part.ways[i])
    BY <2>1, ProgramsType
  <2> QED
    BY <1>3, <2>2 DEF AreRules
<1>5. PICK R, S, w, v : R = runs /\ S = runs' /\ w = engine.own /\ v = engine'.own
  OBVIOUS
<1>6. /\ engine' = [own |-> v, before |-> engine.before, calls |-> engine.calls]
      /\ v = UNION {Extend(w, RuleWeight(rule)) : rule \in rules}
  BY <1>3, <1>5 DEF TakeRules, EngineRuns
<1>7. RunsBy(rules, R, S)
  <2>1. S = {RunRule(run[1], run[2]) : run \in R \X rules}
    BY <1>3, <1>5 DEF TakeRules
  <2>2. ASSUME NEW s \in S PROVE \E r \in R, rule \in rules : s = RunRule(r, rule)
    BY <2>1
  <2>3. ASSUME NEW r \in R, NEW rule \in rules PROVE RunRule(r, rule) \in S
    <3>1. <<r, rule>> \in R \X rules /\ <<r, rule>>[1] = r /\ <<r, rule>>[2] = rule
      OBVIOUS
    <3> QED
      BY <2>1, <3>1
  <2> QED
    BY <2>2, <2>3 DEF RunsBy
<1>8. d + 1 \in Levels /\ WeightAt(d + 1) = w
  BY <1>2, <1>5 DEF Levels, WeightAt
<1>9. w \in Weight /\ RunsAt(R, d + 1) /\ Right(R, w, d + 1) /\ ConstantRows(w) /\ ConstantRows(BeforeAt(d + 1))
  BY <1>1, <1>2, <1>5, <1>8, Present DEF GoOn
<1>10. v \in Weight /\ RowsBy(rules, w, v) /\ ConstantRows(v) /\ (FromConstants(w) => FromConstants(v))
  BY <1>4, <1>6, <1>9, RulesRows
<1>11. RunsAt(S, d + 1) /\ Matched(R, S, d) /\ Right(S, v, d + 1)
  <2>1. d + 1 \in Nat /\ d + 1 > 0 /\ d + 1 - 1 = d
    OBVIOUS
  <2> QED
    BY <1>4, <1>7, <1>9, <1>10, <2>1, RulesStep
<1>12. engine'.calls = engine.calls /\ engine'.before = engine.before
  BY <1>6
<1>13. \A j \in 1 .. d : WeightAt(j)' = WeightAt(j)
  BY <1>2, <1>12 DEF WeightAt
<1>14. \A j : BeforeAt(j)' = BeforeAt(j)
  BY <1>12 DEF BeforeAt
<1>15. WeightAt(d + 1)' = v
  BY <1>2, <1>5, <1>12 DEF WeightAt
<1>16. engine.before \in Weight /\ engine.calls \in Seq(CallType)
  BY DEF PointsInv, PointsType
<1>17. d = 0 => FromConstants(v)
  BY <1>8, <1>10, Present
<1>18. ASSUME NEW j \in d + 1 .. d + 1
       PROVE  Right(runs', WeightAt(j)', j) /\ ConstantRows(WeightAt(j)') /\ ConstantRows(BeforeAt(j)')
  <2>1. j = d + 1
    OBVIOUS
  <2> QED
    BY <1>5, <1>9, <1>10, <1>11, <1>14, <1>15, <2>1
<1>19. d = 0 => FromConstants(WeightAt(1)')
  BY <1>15, <1>17
<1>20. \A j \in d + 2 .. d + 1 : FALSE
  OBVIOUS
<1> QED
  BY <1>1, <1>2, <1>5, <1>10, <1>11, <1>12, <1>13, <1>14, <1>16, <1>18, <1>19, <1>20, GoesOn

\* A call saves the present activation and begins another.
LEMMA CallKept ==
    ASSUME PointsInv, NEW part \in Programs[program].calls, TakeCall(part)
    PROVE  PointsInv'
<1>1. GoOn
  BY DEF TakeCall
<1>2. PICK d \in Nat : d = Len(engine.calls)
  BY Present
<1>3. IsRule(part.rule) /\ part.calls \in Functions
  <2>1. program \in DOMAIN Programs
    BY DEF PointsInv, PointsType
  <2> QED
    BY <2>1, ProgramsType
<1>4. PICK R, S, w, b, rule : R = runs /\ S = runs' /\ w = engine.own /\ b = engine.before /\ rule = part.rule
  OBVIOUS
<1>5. PICK v : v = Extend(w, RuleWeight(rule))
  OBVIOUS
<1>6. PICK T : T = {RunRule(r, rule) : r \in R}
  OBVIOUS
<1>7. PICK call : call = [caller |-> w, before |-> b, rule |-> rule, function |-> part.calls, back |-> part.to]
  OBVIOUS
<1>8. engine' = [own |-> One, before |-> Extend(b, v), calls |-> Append(engine.calls, call)]
  BY <1>4, <1>5, <1>7 DEF TakeCall, EngineCalls
<1>9. EntersBy(T, S)
  <2>1. S = {RunCall(r, rule) : r \in R}
    BY <1>4 DEF TakeCall
  <2>2. ASSUME NEW r PROVE Enters(RunRule(r, rule), RunCall(r, rule))
    BY DEF Enters, RunCall
  <2> QED
    BY <1>6, <2>1, <2>2 DEF EntersBy
<1>10. d + 1 \in Levels /\ WeightAt(d + 1) = w /\ BeforeAt(d + 1) = b
  BY <1>2, <1>4 DEF Levels, WeightAt, BeforeAt
<1>11. /\ w \in Weight /\ b \in Weight /\ RunsAt(R, d + 1) /\ Right(R, w, d + 1)
       /\ ConstantRows(w) /\ ConstantRows(b) /\ (d = 0 => b = One /\ FromConstants(w))
  BY <1>1, <1>2, <1>4, <1>10, Present DEF GoOn
<1>12. d + 1 \in Nat /\ d + 1 > 0 /\ d + 1 - 1 = d /\ d + 1 + 1 = d + 2
  OBVIOUS
<1>13. RunsAt(T, d + 1) /\ Matched(R, T, d) /\ Right(T, v, d + 1) /\ ConstantRows(v) /\ (FromConstants(w) => FromConstants(v))
  BY <1>3, <1>4, <1>5, <1>6, <1>11, <1>12, RuleStep
<1>14. /\ RunsAt(S, d + 2) /\ Matched(T, S, d) /\ Right(S, v, d + 1) /\ Right(S, One, d + 2)
       /\ \A x \in Variables : EntriesOf(S, d + 2, x) = HeldAt(T, d + 1, x)
  BY <1>9, <1>12, <1>13, EnterStep
<1>15. Matched(R, S, d)
  <2>1. ASSUME NEW r \in R PROVE Len(r.saved) >= d /\ \E s \in S : SameUpTo(r, s, d)
    <3>1. PICK t \in T : SameUpTo(r, t, d)
      BY <1>13 DEF Matched
    <3>2. PICK s \in S : SameUpTo(t, s, d)
      BY <1>14 DEF Matched
    <3>3. Len(r.saved) >= d
      BY <1>13 DEF Matched
    <3> QED
      BY <3>1, <3>2, <3>3 DEF SameUpTo
  <2>2. ASSUME NEW s \in S PROVE Len(s.saved) >= d /\ \E r \in R : SameUpTo(r, s, d)
    <3>1. PICK t \in T : SameUpTo(t, s, d)
      BY <1>14 DEF Matched
    <3>2. PICK r \in R : SameUpTo(r, t, d)
      BY <1>13 DEF Matched
    <3>3. Len(s.saved) >= d
      BY <1>14 DEF Matched
    <3> QED
      BY <3>1, <3>2, <3>3 DEF SameUpTo
  <2> QED
    BY <2>1, <2>2 DEF Matched
<1>16. v \in Weight /\ Extend(b, v) \in Weight /\ One \in Weight /\ ConstantRows(Extend(b, v)) /\ ConstantRows(One)
  <2>1. v \in Weight /\ One \in Weight
    BY <1>13, OneRow DEF Right
  <2>2. ConstantRows(One)
    BY OneRow, VariableKinds DEF ConstantRows
  <2> QED
    BY <1>11, <1>13, <2>1, <2>2, ConstantExtend, ExtendType
<1>17. \A x \in Variables : Row(Extend(b, v), x) = EntriesOf(S, d + 2, x)
  <2>1. R # {} /\ T # {}
    BY <1>1, <1>4, <1>6 DEF GoOn
  <2>2. d + 1 > 1 => \A x \in Variables : Row(b, x) = EntriesOf(T, d + 1, x)
    <3> SUFFICES ASSUME d + 1 > 1, NEW x \in Variables PROVE Row(b, x) = EntriesOf(T, d + 1, x)
      OBVIOUS
    <3>1. d + 1 \in Levels \ {1}
      BY <1>10
    <3>2. Row(b, x) = EntriesOf(R, d + 1, x)
      BY <1>4, <1>10, <2>1, <3>1 DEF PointsInv, EntriesExact, EntriesOf
    <3>3. d + 1 \in 1 .. d + 1
      OBVIOUS
    <3> QED
      BY <1>13, <3>2, <3>3, SameEntries
  <2>3. d + 1 = 1 => b = One /\ \A x \in Variables : Row(v, x) \subseteq Constants
    BY <1>11, <1>13 DEF FromConstants
  <2>4. Enough(T, v, d + 1) /\ Needed(T, v, d + 1)
    BY <1>13 DEF Right
  <2>5. \A x \in Variables : Row(Extend(b, v), x) = HeldAt(T, d + 1, x)
    BY <1>11, <1>12, <1>16, <2>1, <2>2, <2>3, <2>4, RowsHere
  <2> QED
    BY <1>14, <2>5
<1>18. engine.calls \in Seq(CallType) /\ call \in CallType
  BY <1>4, <1>7, <1>11 DEF PointsInv, PointsType, CallType
<1>19. /\ engine'.calls \in Seq(CallType) /\ Len(engine'.calls) = d + 1 /\ engine'.calls[d + 1] = call
       /\ \A j \in 1 .. d : engine'.calls[j] = engine.calls[j]
  <2>1. engine'.calls = Append(engine.calls, call)
    BY <1>8
  <2> QED
    BY <1>2, <1>18, <2>1, AppendProperties
<1>20. engine'.own = One /\ engine'.before = Extend(b, v)
  BY <1>8
<1>21. \A j \in 1 .. d : WeightAt(j)' = WeightAt(j) /\ BeforeAt(j)' = BeforeAt(j)
  BY <1>2, <1>19 DEF WeightAt, BeforeAt
<1>22. WeightAt(d + 1)' = v /\ BeforeAt(d + 1)' = b
  BY <1>5, <1>7, <1>19 DEF WeightAt, BeforeAt
<1>23. WeightAt(d + 2)' = One /\ BeforeAt(d + 2)' = Extend(b, v)
  BY <1>19, <1>20 DEF WeightAt, BeforeAt
<1>24. \A j \in 1 .. d + 1 : BeforeAt(j)' = BeforeAt(j)
  <2> SUFFICES ASSUME NEW j \in 1 .. d + 1 PROVE BeforeAt(j)' = BeforeAt(j)
    OBVIOUS
  <2>1. j \in 1 .. d \/ j = d + 1
    OBVIOUS
  <2> QED
    BY <1>10, <1>21, <1>22, <2>1
<1>25. ASSUME NEW j \in d + 1 .. d + 1 + 1
       PROVE  Right(runs', WeightAt(j)', j) /\ ConstantRows(WeightAt(j)') /\ ConstantRows(BeforeAt(j)')
  <2>1. j = d + 1 \/ j = d + 2
    OBVIOUS
  <2> QED
    BY <1>4, <1>11, <1>13, <1>14, <1>16, <1>22, <1>23, <2>1
<1>26. d = 0 => FromConstants(WeightAt(1)')
  BY <1>11, <1>13, <1>22
<1>27. ASSUME NEW j \in d + 2 .. d + 1 + 1, NEW x \in Variables PROVE Row(BeforeAt(j)', x) = EntriesOf(runs', j, x)
  <2>1. j = d + 2
    OBVIOUS
  <2> QED
    BY <1>4, <1>17, <1>23, <2>1
<1>28. /\ d + 1 \in Nat /\ d + 1 = Len(engine'.calls) /\ RunsAt(runs', d + 1 + 1)
       /\ engine'.own \in Weight /\ engine'.before \in Weight /\ engine'.calls \in Seq(CallType)
       /\ d <= d + 1 /\ d <= Len(engine.calls) /\ Matched(runs, runs', d)
  BY <1>2, <1>4, <1>12, <1>14, <1>15, <1>16, <1>19, <1>20
<1> QED
  BY <1>1, <1>21, <1>24, <1>25, <1>26, <1>27, <1>28, GoesOn

\* A return ends the present activation and changes the one before it.
LEMMA ReturnKept ==
    ASSUME PointsInv, TakeReturn
    PROVE  PointsInv'
<1>1. GoOn
  BY DEF TakeReturn
<1>2. engine.calls \in Seq(CallType) /\ engine.calls # << >>
  BY DEF PointsInv, PointsType, TakeReturn
<1>3. PICK k \in Nat : k + 1 = Len(engine.calls)
  <2>1. Len(engine.calls) \in Nat /\ Len(engine.calls) > 0
    BY <1>2, EmptySeq
  <2>2. Len(engine.calls) - 1 \in Nat
    BY <2>1
  <2> QED
    BY <2>1, <2>2
<1>4. PICK d \in Nat : d = k + 1
  OBVIOUS
<1>5. d > 0 /\ d = Len(engine.calls) /\ d - 1 = k /\ d + 1 = k + 2 /\ d \in 1 .. Len(engine.calls)
  BY <1>3, <1>4
<1>6. PICK call : call = engine.calls[d]
  OBVIOUS
<1>7. PICK f : f = call.function
  OBVIOUS
<1>8. f \in Functions
  <2>1. program \in DOMAIN Programs
    BY DEF PointsInv, PointsType
  <2>2. call \in CallType
    BY <1>2, <1>5, <1>6, ElementOfSeq
  <2> QED
    BY <1>7, <2>1, <2>2, ProgramsType DEF CallType
<1>9. PICK R, S, w, c : R = runs /\ S = runs' /\ w = engine.own /\ c = Extend(call.caller, RuleWeight(call.rule))
  OBVIOUS
<1>10. PICK v : v = Extend(c, CalleeEffect(w, f))
  OBVIOUS
<1>11. engine' = [own |-> v, before |-> call.before, calls |-> SubSeq(engine.calls, 1, k)]
  BY <1>5, <1>6, <1>7, <1>9, <1>10 DEF TakeReturn, EngineReturns, LastCall, Merge
<1>12. ReturnsBy(f, R, S)
  <2>1. S = {RunReturn(r, f) : r \in R}
    BY <1>5, <1>6, <1>7, <1>9 DEF TakeReturn, LastCall
  <2> QED
    BY <2>1 DEF ReturnsBy
<1>13. d \in Levels /\ d + 1 \in Levels /\ WeightAt(d) = c /\ BeforeAt(d) = call.before /\ WeightAt(d + 1) = w
  BY <1>5, <1>6, <1>9 DEF Levels, WeightAt, BeforeAt
<1>14. /\ RunsAt(R, d + 1) /\ c \in Weight /\ w \in Weight /\ call.before \in Weight
       /\ Right(R, c, d) /\ Right(R, w, d + 1) /\ ConstantRows(c) /\ ConstantRows(call.before)
       /\ (d = 1 => FromConstants(c))
  BY <1>1, <1>5, <1>9, <1>13, Present DEF GoOn
<1>15. v \in Weight /\ ConstantRows(v) /\ (FromConstants(c) => FromConstants(v))
  BY <1>8, <1>10, <1>14, ReturnRows
<1>16. RunsAt(S, d) /\ Matched(R, S, k) /\ Right(S, v, d)
  BY <1>5, <1>8, <1>10, <1>12, <1>14, ReturnStep
<1>17. /\ engine'.calls \in Seq(CallType) /\ Len(engine'.calls) = k
       /\ \A j \in 1 .. k : engine'.calls[j] = engine.calls[j]
  <2>1. engine'.calls = SubSeq(engine.calls, 1, k)
    BY <1>11
  <2> QED
    BY <1>2, <1>3, <2>1, SubSeqProperties
<1>18. engine'.own = v /\ engine'.before = call.before
  BY <1>11
<1>19. \A j \in 1 .. k : WeightAt(j)' = WeightAt(j) /\ BeforeAt(j)' = BeforeAt(j)
  BY <1>3, <1>17 DEF WeightAt, BeforeAt
<1>20. WeightAt(d)' = v /\ BeforeAt(d)' = call.before
  BY <1>4, <1>17, <1>18 DEF WeightAt, BeforeAt
<1>21. \A j \in 1 .. k + 1 : BeforeAt(j)' = BeforeAt(j)
  <2> SUFFICES ASSUME NEW j \in 1 .. k + 1 PROVE BeforeAt(j)' = BeforeAt(j)
    OBVIOUS
  <2>1. j \in 1 .. k \/ j = d
    BY <1>4
  <2> QED
    BY <1>13, <1>19, <1>20, <2>1
<1>22. ASSUME NEW j \in k + 1 .. k + 1
       PROVE  Right(runs', WeightAt(j)', j) /\ ConstantRows(WeightAt(j)') /\ ConstantRows(BeforeAt(j)')
  <2>1. j = d
    BY <1>4
  <2> QED
    BY <1>9, <1>14, <1>15, <1>16, <1>20, <2>1
<1>23. k = 0 => FromConstants(WeightAt(1)')
  BY <1>4, <1>14, <1>15, <1>20
<1>24. \A j \in k + 2 .. k + 1 : FALSE
  OBVIOUS
<1>25. /\ k = Len(engine'.calls) /\ RunsAt(runs', k + 1) /\ Matched(runs, runs', k) /\ k <= k /\ k <= Len(engine.calls)
       /\ engine'.own \in Weight /\ engine'.before \in Weight /\ engine'.calls \in Seq(CallType)
  BY <1>3, <1>4, <1>9, <1>14, <1>15, <1>16, <1>17, <1>18
<1> QED
  BY <1>1, <1>19, <1>21, <1>22, <1>23, <1>24, <1>25, GoesOn

\* Another path from the start, as long as no part has been taken.
LEMMA JoinKept ==
    ASSUME PointsInv, NEW rule \in Programs[program].paths, Join(rule)
    PROVE  PointsInv'
<1>1. /\ PointsType /\ program \in DOMAIN Programs /\ engine.calls = << >> /\ engine.own \in Weight
      /\ (runs = {} => engine = EngineStart) /\ IsRule(rule)
  BY ProgramsType DEF PointsInv, PointsType, Join
<1>2. Levels = 1 .. 1 /\ WeightAt(1) = engine.own /\ BeforeAt(1) = engine.before
  BY <1>1 DEF Levels, WeightAt, BeforeAt
<1>3. PICK R, w, N, v : /\ R = runs /\ w = engine.own
                        /\ N = {RunRule(RunRule(RunStart, MainRule), rule)}
                        /\ v = Extend(RuleWeight(MainRule), RuleWeight(rule))
  OBVIOUS
<1>4. runs' = R \cup N /\ engine' = [own |-> w \cup v, before |-> engine.before, calls |-> engine.calls]
  BY <1>3 DEF Join, Combine
<1>5. engine'.own = w \cup v /\ engine'.before = engine.before /\ engine'.calls = engine.calls
  BY <1>4
<1>6. /\ RunsAt(R, 1) /\ Right(R, w, 1) /\ FromConstants(w) /\ engine.before = One
      /\ (R = {} => w = Zero) /\ (R # {} => ConstantRows(w))
  <2>1. 1 \in Levels /\ Len(engine.calls) + 1 = 1
    BY <1>1, <1>2
  <2>2. R = {} => w = Zero
    BY <1>1, <1>3 DEF EngineStart
  <2> QED
    BY <1>2, <1>3, <2>1, <2>2, Present
<1>7. RunsAt(N, 1) /\ Right(N, v, 1) /\ ConstantRows(v) /\ FromConstants(v)
  BY <1>1, <1>3, JoinRun
<1>8. N # {} /\ runs' # {}
  BY <1>3, <1>4
<1>9. RunsAt(runs', 1) /\ Right(runs', w \cup v, 1) /\ ConstantRows(w \cup v) /\ FromConstants(w \cup v)
  BY <1>4, <1>6, <1>7, <1>8, JoinStep
<1>10. Levels' = 1 .. 1 /\ WeightAt(1)' = w \cup v /\ BeforeAt(1)' = One
  BY <1>1, <1>5, <1>6 DEF Levels, WeightAt, BeforeAt
<1>11. PointsType'
  <2>1. program' = program /\ report_tentative' = report_tentative /\ taken' = taken /\ CallType' = CallType
    BY DEF Join, CallType
  <2>2. \A r \in runs' : r.store \in Stores /\ r.saved \in Seq(Stores) /\ Len(r.saved) = Len(engine'.calls)
    BY <1>1, <1>5, <1>9 DEF RunsAt
  <2>3. engine'.own \in Weight
    BY <1>5, <1>9 DEF Right
  <2> QED
    BY <1>1, <1>5, <1>8, <2>1, <2>2, <2>3 DEF PointsType
<1>12. MadeTentative' /\ RowsRight'
  <2>1. \A j \in Levels' : j = 1
    BY <1>10
  <2>2. MadeBy(runs', 1) /\ Enough(runs', WeightAt(1)', 1) /\ Needed(runs', WeightAt(1)', 1)
    BY <1>9, <1>10 DEF Right
  <2> QED
    BY <2>1, <2>2 DEF MadeTentative, RowsRight
<1>13. ConstantsOwn'
  <2>1. \A j \in Levels' : j = 1
    BY <1>10
  <2>2. \A c \in Constants : Row(WeightAt(1)', c) = {c} /\ Row(BeforeAt(1)', c) = {c}
    BY <1>9, <1>10, OneRow, VariableKinds DEF ConstantRows
  <2> QED
    BY <2>1, <2>2 DEF ConstantsOwn
<1>14. FirstEntered'
  BY <1>9, <1>10 DEF FirstEntered, FromConstants
<1>15. EntriesExact'
  BY <1>10 DEF EntriesExact
<1>16. ReportsRight'
  BY DEF Join, ReportsRight
<1> QED
  BY <1>11, <1>12, <1>13, <1>14, <1>15, <1>16 DEF PointsInv

\* In the beginning there are no runs, and the invariant holds.
LEMMA StartsRight ==
    ASSUME Init
    PROVE  PointsInv
<1>1. /\ runs = {} /\ engine = EngineStart /\ engine.own = Zero /\ engine.before = One /\ engine.calls = << >>
      /\ taken = 0 /\ point = NoPoint /\ program \in DOMAIN Programs /\ report_tentative \in Programs[program].tentative
  BY DEF Init, EngineStart
<1>2. Levels = 1 .. 1 /\ WeightAt(1) = Zero /\ BeforeAt(1) = One
  BY <1>1 DEF Levels, WeightAt, BeforeAt
<1>3. PointsType
  <2>1. Zero \in Weight /\ One \in Weight
    BY OneRow DEF Zero, Weight
  <2>2. report_tentative \in BOOLEAN
    BY <1>1, ProgramsType
  <2>3. << >> \in Seq(CallType)
    OBVIOUS
  <2> QED
    BY <1>1, <2>1, <2>2, <2>3 DEF PointsType
<1>4. MadeTentative /\ RowsRight
  BY <1>1 DEF MadeTentative, RowsRight, MadeBy, Enough, Needed
<1>5. ConstantsOwn /\ EntriesExact
  BY <1>1 DEF ConstantsOwn, EntriesExact
<1>6. FirstEntered
  BY <1>2 DEF FirstEntered, Row, Zero
<1>7. ReportsRight
  BY <1>1 DEF ReportsRight
<1> QED
  BY <1>3, <1>4, <1>5, <1>6, <1>7 DEF PointsInv

\* A point that is processed says what it says, and nothing else changes.
LEMMA ProcessKept ==
    ASSUME PointsInv, NEW p \in Programs[program].points, Process(p)
    PROVE  PointsInv'
<1>1. UNCHANGED <<program, runs, engine, taken, weight, report_tentative>>
  BY DEF Process, programVars
<1>2. /\ PointsType' /\ Levels' = Levels /\ CallType' = CallType
      /\ \A j : WeightAt(j)' = WeightAt(j) /\ BeforeAt(j)' = BeforeAt(j)
  BY <1>1 DEF PointsInv, PointsType, Levels, WeightAt, BeforeAt, CallType
<1>3. MadeTentative' /\ RowsRight'
  BY <1>1, <1>2 DEF PointsInv, MadeTentative, RowsRight
<1>4. ConstantsOwn' /\ FirstEntered' /\ EntriesExact'
  BY <1>1, <1>2 DEF PointsInv, ConstantsOwn, FirstEntered, EntriesExact
<1>5. ReportsRight'
  <2>1. ReportsOf(p)' = ReportsOf(p)
    BY <1>1 DEF ReportsOf, AssignmentReports, AssignmentReport, ValueReports, ValueReport, IsErrReports, ReturnReports,
                TargetErrors, Interesting, Precision, Held, MessageType
  <2> QED
    BY <1>1, <2>1 DEF PointsInv, ReportsRight, Process
<1> QED
  BY <1>2, <1>3, <1>4, <1>5 DEF PointsInv

\* A step that changes nothing keeps the invariant.
LEMMA StutterKept ==
    ASSUME PointsInv, UNCHANGED vars
    PROVE  PointsInv'
<1>1. UNCHANGED <<program, runs, engine, taken, weight, report_tentative, point, reports>>
  BY DEF vars, programVars
<1>2. /\ PointsType' /\ Levels' = Levels /\ CallType' = CallType
      /\ \A j : WeightAt(j)' = WeightAt(j) /\ BeforeAt(j)' = BeforeAt(j)
  BY <1>1 DEF PointsInv, PointsType, Levels, WeightAt, BeforeAt, CallType
<1>3. MadeTentative' /\ RowsRight'
  BY <1>1, <1>2 DEF PointsInv, MadeTentative, RowsRight
<1>4. ConstantsOwn' /\ FirstEntered' /\ EntriesExact'
  BY <1>1, <1>2 DEF PointsInv, ConstantsOwn, FirstEntered, EntriesExact
<1>5. ReportsRight'
  <2>1. ReportsOf(point)' = ReportsOf(point)
    BY <1>1 DEF ReportsOf, AssignmentReports, AssignmentReport, ValueReports, ValueReport, IsErrReports, ReturnReports,
                TargetErrors, Interesting, Precision, Held, MessageType
  <2> QED
    BY <1>1, <2>1 DEF PointsInv, ReportsRight
<1> QED
  BY <1>2, <1>3, <1>4, <1>5 DEF PointsInv

\* In every state the rows of every open activation are what the runs that are there
\* have made of what they were entered with.
THEOREM PointsInvariant == Spec => []PointsInv
<1>1. Init => PointsInv
  BY StartsRight
<1>2. PointsInv /\ [Next]_vars => PointsInv'
  BY RulesKept, CallKept, ReturnKept, JoinKept, ProcessKept, StutterKept DEF Next
<1> QED
  BY <1>1, <1>2, PTL DEF Spec

-----------------------------------------------------------------------------
(* What the reports say.                                                   *)

\* Variables and constants alike: what is in a row is what some run has.
LEMMA RowsOfRuns ==
    ASSUME PointsInv, runs # {}
    PROVE  /\ \A y \in Var : Row(weight, y) = {In(r, y) : r \in runs}
           /\ \A y \in Var : \A z : <<y, z>> \in weight <=> \E r \in runs : z = In(r, y)
           /\ \A r \in runs, y \in Var : In(r, y) \in Constants
<1>1. PICK k \in Nat : k = Len(engine.calls) + 1 /\ k > 0
  BY Present
<1>2. k \in Levels /\ WeightAt(k) = engine.own /\ BeforeAt(k) = engine.before
  BY <1>1, Present DEF Levels, WeightAt, BeforeAt
<1>3. PICK w, b : w = engine.own /\ b = engine.before
  OBVIOUS
<1>4. /\ w \in Weight /\ b \in Weight /\ Right(runs, w, k) /\ ConstantRows(w) /\ ConstantRows(b) /\ RunsAt(runs, k)
      /\ (k = 1 => b = One /\ FromConstants(w))
  BY <1>1, <1>2, <1>3, Present
<1>5. weight = Extend(b, w)
  BY <1>3 DEF PointsInv, ReportsRight
<1>6. \A r \in runs : StoreAt(r, k) = r.store /\ r.store \in Stores
  BY <1>1, <1>4 DEF RunsAt, StoreAt
<1>7. \A x \in Variables : Row(weight, x) = HeldAt(runs, k, x)
  <2>1. k > 1 => \A x \in Variables : Row(b, x) = EntriesOf(runs, k, x)
    BY <1>2, <1>3 DEF PointsInv, EntriesExact, EntriesOf
  <2>2. Enough(runs, w, k) /\ Needed(runs, w, k) /\ (k = 1 => b = One /\ \A x \in Variables : Row(w, x) \subseteq Constants)
    BY <1>4 DEF Right, FromConstants
  <2> QED
    BY <1>1, <1>4, <1>5, <2>1, <2>2, RowsHere
<1>8. \A c \in Constants : Row(weight, c) = {c}
  BY <1>4, <1>5, ConstantExtend DEF ConstantRows
<1>9. \A y \in Var : Row(weight, y) = {In(r, y) : r \in runs}
  <2>1. ASSUME NEW y \in Variables PROVE Row(weight, y) = {In(r, y) : r \in runs}
    BY <1>6, <1>7 DEF HeldAt, In
  <2>2. ASSUME NEW y \in Constants PROVE Row(weight, y) = {In(r, y) : r \in runs}
    BY <1>8, <2>2, VariableKinds DEF In
  <2> QED
    BY <2>1, <2>2, VariableKinds
<1>10. \A r \in runs, y \in Var : In(r, y) \in Constants
  BY <1>6, VariableKinds DEF In, Stores, Values
<1>11. ASSUME NEW y \in Var, NEW z PROVE <<y, z>> \in weight <=> \E r \in runs : z = In(r, y)
  <2>1. <<y, z>> \in weight => z \in Var
    BY <1>4, <1>5, ExtendType DEF Weight
  <2>2. z \in Row(weight, y) <=> z \in Var /\ <<y, z>> \in weight
    BY RowPair
  <2> QED
    BY <1>9, <1>10, <2>1, <2>2, VariableKinds
<1> QED
  BY <1>9, <1>10, <1>11

\* The row of a variable at a point has what the paths bring to it, and nothing else.
THEOREM RowsExactly == Spec => []RowsExact
<1>1. PointsInv => RowsExact
  BY RowsOfRuns, VariableKinds DEF RowsExact
<1> QED
  BY <1>1, PointsInvariant, PTL

\* The index that is asked for is one of the set.
LEMMA LeastIn ==
    ASSUME NEW S, S \subseteq Var, S # {}
    PROVE  Least(S) \in S
<1> DEFINE I == {i \in DOMAIN Order : Order[i] \in S}
           R == OpToRel(<, Nat)
<1>1. I \subseteq Nat /\ I # {}
  <2>1. DOMAIN Order = 1 .. Len(Order) /\ Len(Order) \in Nat
    BY OrderType
  <2>2. PICK x \in S : TRUE
    OBVIOUS
  <2>3. PICK i \in DOMAIN Order : Order[i] = x
    BY OrderType
  <2> QED
    BY <2>1, <2>3
<1>2. IsWellFoundedOn(R, Nat)
  BY NatLessThanWellFounded
<1> HIDE DEF R
<1>3. PICK n \in I : \A m \in I : <<m, n>> \notin R
  BY <1>1, <1>2, WFMin
<1>4. \A m \in I : ~ (m < n)
  BY <1>1, <1>3 DEF R, OpToRel
<1>5. n \in DOMAIN Order /\ Order[n] \in S /\ \A j \in 1 .. n - 1 : Order[j] \notin S
  <2>1. ASSUME NEW j \in 1 .. n - 1 PROVE Order[j] \notin S
    <3>1. n \in Nat /\ n \in 1 .. Len(Order) /\ Len(Order) \in Nat /\ DOMAIN Order = 1 .. Len(Order)
      BY <1>1, OrderType
    <3>2. j \in DOMAIN Order /\ j < n
      BY <3>1
    <3> QED
      BY <1>4, <3>2
  <2> QED
    BY <2>1
<1> QED
  BY <1>5 DEF Least

\* The errors that a point finds in a row are those that a run holds.
LEMMA HeldRuns ==
    ASSUME PointsInv, runs # {}, NEW y \in Var, NEW codes, NEW e
    PROVE  e \in Held(y, codes) <=> e \in codes /\ \E r \in runs : e = In(r, y)
BY RowsOfRuns DEF Held

\* Errors, tentative errors and OK are apart.
LEMMA ErrorKinds ==
    /\ Errors \cap TentativeErrors = {} /\ AllErrors = Errors \cup TentativeErrors /\ AllErrors \subseteq Var
    /\ \A c \in Constants : c \in AllErrors \/ c = OK \/ c = UNINITIALIZED
    /\ OK \notin AllErrors
BY ConstantsDistinct DEF AllErrors, Var, Constants

\* The errors that an assignment is about: those of the kind that it looks for.
LEMMA TargetErrorsRuns ==
    ASSUME PointsInv, runs # {}, NEW t \in Var
    PROVE  /\ TargetErrors(t) = IF report_tentative /\ Held(t, Errors) = {} THEN Held(t, TentativeErrors) ELSE Held(t, Errors)
           /\ TargetErrors(t) \subseteq {In(run, t) : run \in runs} /\ TargetErrors(t) \subseteq Var
           /\ TargetErrors(t) # {} => GetError(TargetErrors(t)) \in TargetErrors(t)
<1>1. TargetErrors(t) = IF report_tentative /\ Held(t, Errors) = {} THEN Held(t, TentativeErrors) ELSE Held(t, Errors)
  BY DEF TargetErrors
<1>2. TargetErrors(t) \subseteq {In(run, t) : run \in runs} /\ TargetErrors(t) \subseteq Var
  BY <1>1, HeldRuns, ErrorKinds
<1> QED
  BY <1>1, <1>2, LeastIn DEF GetError

\* A processed point is one of the program's, reached by a run, and has the reports of its kind.
LEMMA AtPoint ==
    ASSUME PointsInv, point.kind \in {"assignment", "values", "iserr", "return"}
    PROVE  runs # {} /\ reports = ReportsOf(point) /\ IsPoint(point)
<1>1. point # NoPoint
  BY DEF NoPoint
<1>2. point \in Programs[program].points /\ runs # {} /\ reports = ReportsOf(point)
  BY <1>1 DEF PointsInv, ReportsRight
<1>3. program \in DOMAIN Programs
  BY DEF PointsInv, PointsType
<1> QED
  BY <1>2, <1>3, ProgramsType

\* The reports of an assignment.
LEMMA AtAssignment ==
    ASSUME PointsInv, point.kind = "assignment"
    PROVE  /\ runs # {} /\ DOMAIN point.targets \subseteq Variables /\ \A t \in DOMAIN point.targets : point.targets[t] \in Var
           /\ \A r : r \in reports <=>
                 \E t \in DOMAIN point.targets :
                     /\ r = AssignmentReport(point, t) /\ TargetErrors(t) # {}
                     /\ Interesting(t, point.targets[t], GetError(TargetErrors(t)))
                     /\ point.located /\ AssignmentReport(point, t).type # "EMPTY"
<1>1. runs # {} /\ reports = ReportsOf(point) /\ IsPoint(point)
  BY AtPoint
<1>2. reports = AssignmentReports(point)
  BY <1>1 DEF ReportsOf
<1> QED
  BY <1>1, <1>2 DEF AssignmentReports, IsPoint

\* The report on a target, field by field.
LEMMA ReportFields ==
    ASSUME NEW p, NEW t
    PROVE  LET r == AssignmentReport(p, t)
               tentative == report_tentative /\ Held(t, Errors) = {}
           IN  /\ r.target = t /\ r.errors = TargetErrors(t) /\ r.error = GetError(TargetErrors(t))
               /\ (r.type = "EMPTY" => t \in Temporaries)
               /\ (r.type # "EMPTY" => (r.type \in {"OVERWRITE", "UNCHECK_NSAVE", "UNCHECK_OUT"} <=> tentative))
<1> DEFINE tentative == report_tentative /\ Held(t, Errors) = {}
           type == MessageType(t, p.msgcode, tentative)
<1>1. AssignmentReport(p, t) = [type |-> type, target |-> t, error |-> GetError(TargetErrors(t)), errors |-> TargetErrors(t)]
  BY DEF AssignmentReport, Report
<1>2. /\ (type = "EMPTY" => t \in Temporaries)
      /\ (type # "EMPTY" => (type \in {"OVERWRITE", "UNCHECK_NSAVE", "UNCHECK_OUT"} <=> tentative))
  <2>1. CASE p.msgcode = "overwrite"
    BY <2>1 DEF MessageType
  <2>2. CASE p.msgcode # "overwrite"
    BY <2>2 DEF MessageType
  <2> QED
    BY <2>1, <2>2
<1> HIDE DEF type, tentative
<1>3. LET r == AssignmentReport(p, t)
      IN  r.type = type /\ r.target = t /\ r.errors = TargetErrors(t) /\ r.error = GetError(TargetErrors(t))
  BY <1>1
<1> QED
  BY <1>2, <1>3 DEF tentative

\* OverwriteFound: the error by which a message would name those that the runs bring to a
\* variable is reported when the assignment loses it on some run.
THEOREM OverwrittenFound == Spec => []OverwriteFound
<1>1. PointsInv => OverwriteFound
  <2> SUFFICES ASSUME PointsInv, point.kind = "assignment", point.located,
                      NEW t \in DOMAIN point.targets \ Temporaries, NEW run \in runs, NEW lost, lost = In(run, t),
                      lost \in Brought(t), lost = Least(Brought(t)), In(run, point.targets[t]) # lost
               PROVE  \E r \in reports : r.target = t /\ r.error = lost /\ r.errors = Brought(t)
    BY DEF OverwriteFound
  <2>1. t \in Var /\ point.targets[t] \in Var /\ runs # {}
    BY AtAssignment, VariableKinds
  <2>2. TargetErrors(t) = Brought(t)
    <3>1. \A codes : Held(t, codes) = {In(r, t) : r \in runs} \cap codes
      BY <2>1, HeldRuns
    <3> QED
      BY <2>1, <3>1, TargetErrorsRuns DEF Brought
  <2>3. GetError(TargetErrors(t)) = lost
    BY <2>2 DEF GetError
  <2>4. Interesting(t, point.targets[t], lost)
    <3>1. <<t, lost>> \in weight
      BY <2>1, RowsOfRuns
    <3>2. PICK z : z = In(run, point.targets[t])
      OBVIOUS
    <3>3. <<point.targets[t], z>> \in weight /\ z \in Var \ {lost}
      BY <2>1, <3>2, RowsOfRuns, VariableKinds
    <3> QED
      BY <3>1, <3>3 DEF Interesting
  <2>5. PICK r : r = AssignmentReport(point, t)
    OBVIOUS
  <2>6. r.type # "EMPTY" /\ r.target = t /\ r.error = lost /\ r.errors = Brought(t)
    BY <2>2, <2>3, <2>5, ReportFields
  <2>7. t \in DOMAIN point.targets
    OBVIOUS
  <2>8. r \in reports
    BY <2>2, <2>3, <2>4, <2>5, <2>6, <2>7, AtAssignment
  <2> QED
    BY <2>6, <2>8
<1> QED
  BY <1>1, PointsInvariant, PTL

\* A message about tentative errors lists only these, one about the others none of them.
THEOREM TentativeApart == Spec => []TentativeKeptApart
<1>1. PointsInv => TentativeKeptApart
  <2> SUFFICES ASSUME PointsInv, point.kind = "assignment", NEW r \in reports
               PROVE  /\ r.errors \subseteq {In(run, r.target) : run \in runs} /\ r.error \in r.errors
                      /\ IF r.type \in {"OVERWRITE", "UNCHECK_NSAVE", "UNCHECK_OUT"}
                         THEN report_tentative /\ r.errors \subseteq TentativeErrors
                         ELSE r.errors \subseteq Errors
    BY DEF TentativeKeptApart
  <2>1. PICK t \in DOMAIN point.targets :
            r = AssignmentReport(point, t) /\ TargetErrors(t) # {} /\ r.type # "EMPTY"
    BY AtAssignment
  <2>2. runs # {} /\ t \in Var
    BY <2>1, AtAssignment, VariableKinds
  <2>3. /\ r.target = t /\ r.errors = TargetErrors(t) /\ r.error = GetError(TargetErrors(t))
        /\ r.type \in {"OVERWRITE", "UNCHECK_NSAVE", "UNCHECK_OUT"} <=> report_tentative /\ Held(t, Errors) = {}
    BY <2>1, ReportFields
  <2>4. /\ TargetErrors(t) = IF report_tentative /\ Held(t, Errors) = {} THEN Held(t, TentativeErrors) ELSE Held(t, Errors)
        /\ TargetErrors(t) \subseteq {In(run, t) : run \in runs} /\ GetError(TargetErrors(t)) \in TargetErrors(t)
    BY <2>1, <2>2, TargetErrorsRuns
  <2>5. Held(t, TentativeErrors) \subseteq TentativeErrors /\ Held(t, Errors) \subseteq Errors
    BY DEF Held
  <2> QED
    BY <2>3, <2>4, <2>5
<1> QED
  BY <1>1, PointsInvariant, PTL

\* A function is reported with every error that it may return.
THEOREM ReturnedReported == Spec => []EveryReturnedError
<1>1. PointsInv => EveryReturnedError
  <2> SUFFICES ASSUME PointsInv, point.kind = "return", NEW run \in runs, NEW e, e = In(run, point.value), e \in AllErrors
               PROVE  \E r \in reports : r.error = e
    BY DEF EveryReturnedError
  <2>1. runs # {} /\ reports = ReportsOf(point) /\ IsPoint(point)
    BY AtPoint
  <2>2. point.value \in Var /\ reports = ReturnReports(point)
    BY <2>1 DEF IsPoint, ReportsOf
  <2>3. PICK errors : errors = Held(point.value, AllErrors)
    OBVIOUS
  <2>4. e \in errors
    BY <2>1, <2>2, <2>3, HeldRuns
  <2>5. ReturnReports(point) = {Report("RETURN_FN", point.value, a, errors) : a \in errors}
    BY <2>3, <2>4 DEF ReturnReports, AllTraces
  <2>6. Report("RETURN_FN", point.value, e, errors).error = e
    BY DEF Report
  <2> QED
    BY <2>2, <2>4, <2>5, <2>6
<1> QED
  BY <1>1, PointsInvariant, PTL

\* "must": the variable holds one of the codes that are listed, if it has a value.
THEOREM MustIsRight == Spec => []MustUnlessUninitialized
<1>1. PointsInv => MustUnlessUninitialized
  <2> SUFFICES ASSUME PointsInv, point.kind = "values", NEW r \in reports, NEW run \in runs, r.precision = "must"
               PROVE  In(run, r.target) \in r.errors \cup {UNINITIALIZED}
    BY DEF MustUnlessUninitialized
  <2>1. runs # {} /\ reports = ReportsOf(point) /\ IsPoint(point)
    BY AtPoint
  <2>2. point.vars \subseteq Variables /\ reports = ValueReports(point)
    BY <2>1 DEF IsPoint, ReportsOf
  <2>3. PICK v \in point.vars : r = ValueReport("VALUES", v)
    BY <2>2 DEF ValueReports
  <2>4. r.target = v /\ r.errors = Held(v, AllErrors) /\ r.precision = Precision(v)
    BY <2>3 DEF ValueReport
  <2>5. <<v, OK>> \notin weight
    BY <2>4 DEF Precision
  <2>6. v \in Var /\ In(run, v) \in Constants /\ In(run, v) # OK
    BY <2>1, <2>2, <2>5, RowsOfRuns, VariableKinds
  <2>7. In(run, v) \in AllErrors => In(run, v) \in Held(v, AllErrors)
    BY <2>1, <2>6, HeldRuns
  <2> QED
    BY <2>4, <2>6, <2>7, ErrorKinds
<1> QED
  BY <1>1, PointsInvariant, PTL

\* IS_ERR of x draws a warning exactly if no path brings an error to it.
THEOREM WarningsRight == Spec => []WarnedIfIdle
<1>1. PointsInv => WarnedIfIdle
  <2> SUFFICES ASSUME PointsInv, point.kind = "iserr", NEW x \in point.vars
               PROVE  [type |-> "ISERRWARN", target |-> x] \in reports <=> \A run \in runs : In(run, x) \notin AllErrors
    BY DEF WarnedIfIdle
  <2>1. runs # {} /\ reports = ReportsOf(point) /\ IsPoint(point)
    BY AtPoint
  <2>2. x \in Var /\ reports = IsErrReports(point)
    BY <2>1, VariableKinds DEF IsPoint, ReportsOf
  <2>3. \A v : ValueReport("ISERR", v) # [type |-> "ISERRWARN", target |-> x]
    <3> SUFFICES ASSUME NEW v PROVE ValueReport("ISERR", v) # [type |-> "ISERRWARN", target |-> x]
      OBVIOUS
    <3>1. ValueReport("ISERR", v).type = "ISERR" /\ [type |-> "ISERRWARN", target |-> x].type = "ISERRWARN"
      BY DEF ValueReport
    <3> QED
      BY <3>1
  <2>4. \A v : [type |-> "ISERRWARN", target |-> v] = [type |-> "ISERRWARN", target |-> x] => v = x
    <3> SUFFICES ASSUME NEW v, [type |-> "ISERRWARN", target |-> v] = [type |-> "ISERRWARN", target |-> x] PROVE v = x
      OBVIOUS
    <3>1. [type |-> "ISERRWARN", target |-> v].target = v /\ [type |-> "ISERRWARN", target |-> x].target = x
      OBVIOUS
    <3> QED
      BY <3>1
  <2>5. [type |-> "ISERRWARN", target |-> x] \in reports <=> Held(x, AllErrors) = {}
    BY <2>2, <2>3, <2>4 DEF IsErrReports
  <2>6. \A e : e \in Held(x, AllErrors) <=> e \in AllErrors /\ \E run \in runs : e = In(run, x)
    BY <2>1, <2>2, HeldRuns
  <2> QED
    BY <2>5, <2>6
<1> QED
  BY <1>1, PointsInvariant, PTL
=============================================================================
