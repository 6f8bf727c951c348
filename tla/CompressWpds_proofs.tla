------------------------- MODULE CompressWpds_proofs -------------------------
(***************************************************************************)
(* compress-wpds keeps what a program does, whatever file it is given: the *)
(* symbols between the rules of a sequence have one rule in and one out,   *)
(* both idle, so that nothing is lost by going past them.                  *)
(***************************************************************************)
EXTENDS CompressWpds, Integers, FiniteSetTheorems, SequenceTheorems, TLAPS

-----------------------------------------------------------------------------
(* The rules of a file.                                                    *)

FileType ==
    /\ file \in Seq(RuleType) /\ Len(file) \in Nat /\ Len(file) > 0 /\ DOMAIN file = 1 .. Len(file)
    /\ \A i \in DOMAIN file : file[i] \in RuleType /\ Len(file[i].to) <= 2

\* The files of FilesType are sequences of rules with up to two targets.
LEMMA FileHasType ==
    ASSUME file \in Files
    PROVE  FileType
<1>1. file \in Seq(RuleType) /\ Len(file) > 0
  BY FilesType
<1>2. Len(file) \in Nat /\ DOMAIN file = 1 .. Len(file) /\ \A i \in DOMAIN file : file[i] \in RuleType
  BY <1>1, LenProperties, ElementOfSeq
<1>3. \A i \in DOMAIN file : file[i] \in RulesOf(file)
  BY DEF RulesOf
<1> QED
  BY <1>1, <1>2, <1>3, FilesType DEF FileType

\* The kinds of rules that a file has.
LEMMA RuleKinds ==
    ASSUME NEW r \in RuleType, Len(r.to) <= 2
    PROVE  /\ r.from \in Symbols /\ r.to \in Seq(Symbols) /\ DOMAIN r.to = 1 .. Len(r.to)
           /\ Len(r.to) \in {0, 1, 2}
           /\ \A n \in DOMAIN r.to : r.to[n] \in Symbols /\ n \in {1, 2} /\ ToStack(r, n) = r.to[n]
           /\ IsIntra(r) <=> Len(r.to) = 1
           /\ \A n \in {1, 2} : ToStack(r, n) # None => n \in DOMAIN r.to
           /\ IsIntra(r) => r.to = <<r.to[1]>> /\ r.to[1] \in Symbols /\ r.to[1] = ToStack(r, 1)
<1>1. r.from \in Symbols /\ r.to \in Seq(Symbols)
  BY DEF RuleType
<1>2. Len(r.to) \in Nat /\ DOMAIN r.to = 1 .. Len(r.to) /\ \A n \in DOMAIN r.to : r.to[n] \in Symbols
  BY <1>1, LenProperties, ElementOfSeq
<1>3. None \notin Symbols
  BY FilesType
<1>4. Len(r.to) \in {0, 1, 2}
  <2>1. \A n \in Nat : n <= 2 => n \in {0, 1, 2}
    OBVIOUS
  <2> QED
    BY <1>2, <2>1
<1>5. \A n \in DOMAIN r.to : n \in {1, 2} /\ ToStack(r, n) = r.to[n]
  BY <1>2, <1>4 DEF ToStack
<1>6. \A n \in {1, 2} : ToStack(r, n) # None => n \in DOMAIN r.to
  BY <1>2 DEF ToStack
<1>7. IsIntra(r) <=> Len(r.to) = 1
  BY <1>2, <1>3, <1>4 DEF IsIntra, ToStack
<1>8. ASSUME Len(r.to) = 1 PROVE r.to = <<r.to[1]>>
  BY <1>1, <1>8
<1> QED
  BY <1>1, <1>2, <1>4, <1>5, <1>6, <1>7, <1>8

\* A rule that is taken out is idle.
LEMMA RemovableIdle ==
    ASSUME FileType, file \in Files, NEW i \in DOMAIN file, Removable(file[i])
    PROVE  Idle(file[i]) /\ IsIntra(file[i])
<1>1. file[i] \in RuleType /\ Len(file[i].to) <= 2 /\ file[i] \in RulesOf(file)
  BY DEF FileType, RulesOf
<1>2. file[i].children \subseteq Children
  BY <1>1 DEF RuleType
<1>3. file[i].children \subseteq {"pred"}
  BY <1>2 DEF Removable, Children
<1> QED
  BY <1>1, <1>3, RuleKinds DEF Removable, Idle

-----------------------------------------------------------------------------
(* Counting.                                                               *)

\* Two elements are more than one.
LEMMA OneElement ==
    ASSUME NEW S, IsFiniteSet(S), Cardinality(S) <= 1, NEW i \in S, NEW j \in S
    PROVE  i = j
<1>1. {i} \in SUBSET S /\ IsFiniteSet({i}) /\ Cardinality({i}) = 1
  BY FS_Singleton
<1>2. Cardinality(S) \in Nat /\ Cardinality({i}) <= Cardinality(S)
      /\ (Cardinality({i}) = Cardinality(S) => {i} = S)
  BY <1>1, FS_Subset, FS_CardinalityType
<1> QED
  BY <1>1, <1>2

\* A finite set that has an element counts one at least.
LEMMA NonEmptyCount ==
    ASSUME NEW S, IsFiniteSet(S)
    PROVE  Cardinality(S) \in Nat /\ (S # {} => Cardinality(S) >= 1)
BY FS_CardinalityType, FS_EmptySet

\* The counts of a symbol: of the rules that lead to it, and of those that leave it.
LEMMA Counts ==
    ASSUME FileType, NEW s \in Symbols
    PROVE  /\ RulesInto(s) \in Nat /\ Counted(s) \in Nat
           /\ (\E i \in DOMAIN file : \E n \in DOMAIN file[i].to : file[i].to[n] = s) => Counted(s) >= 1
           /\ Counted(s) = 1 /\ (\E i \in DOMAIN file : \E n \in DOMAIN file[i].to : file[i].to[n] = s)
                 => /\ s # Main /\ RulesInto(s) = 1
                    /\ \A i, j \in DOMAIN file : \A n \in DOMAIN file[i].to, m \in DOMAIN file[j].to :
                          file[i].to[n] = s /\ file[j].to[m] = s => i = j /\ n = m
           /\ Counted(Main) >= 1
           /\ RulesOutOf(s) = 1 =>
                 \A i, j \in DOMAIN file : file[i].from = s /\ file[j].from = s => i = j
<1> DEFINE first == {i \in DOMAIN file : ToStack(file[i], 1) = s}
           second == {i \in DOMAIN file : ToStack(file[i], 2) = s}
           out == {i \in DOMAIN file : file[i].from = s}
<1>1. IsFiniteSet(first) /\ IsFiniteSet(second) /\ IsFiniteSet(out)
  <2>1. IsFiniteSet(DOMAIN file)
    BY FS_Interval DEF FileType
  <2> QED
    BY <2>1, FS_Subset
<1>2. /\ RulesInto(s) = Cardinality(first) + Cardinality(second) /\ RulesOutOf(s) = Cardinality(out)
      /\ Counted(s) = RulesInto(s) + (IF s = Main THEN 1 ELSE 0)
  BY DEF RulesInto, RulesOutOf, Counted
<1>3. ASSUME NEW i \in DOMAIN file, NEW n \in DOMAIN file[i].to, file[i].to[n] = s
      PROVE  (n = 1 /\ i \in first) \/ (n = 2 /\ i \in second)
  <2>1. n \in {1, 2} /\ ToStack(file[i], n) = s
    BY <1>3, RuleKinds DEF FileType
  <2> QED
    BY <2>1
<1> HIDE DEF first, second, out
<1>4. /\ Cardinality(first) \in Nat /\ (first # {} => Cardinality(first) >= 1)
      /\ Cardinality(second) \in Nat /\ (second # {} => Cardinality(second) >= 1)
  BY <1>1, NonEmptyCount
<1>5. RulesInto(s) \in Nat /\ Counted(s) \in Nat
  BY <1>2, <1>4
<1>6. ASSUME NEW i \in DOMAIN file, NEW n \in DOMAIN file[i].to, file[i].to[n] = s
      PROVE  RulesInto(s) >= 1
  BY <1>2, <1>3, <1>4, <1>6
<1>7. ASSUME Counted(s) = 1, NEW i \in DOMAIN file, NEW n \in DOMAIN file[i].to, file[i].to[n] = s
      PROVE  /\ s # Main /\ RulesInto(s) = 1
             /\ \A j \in DOMAIN file : \A m \in DOMAIN file[j].to : file[j].to[m] = s => i = j /\ n = m
  <2>1. s # Main /\ RulesInto(s) = 1
    BY <1>2, <1>5, <1>6, <1>7
  <2>2. Cardinality(first) <= 1 /\ Cardinality(second) <= 1 /\ (first = {} \/ second = {})
    BY <1>2, <1>4, <2>1
  <2>3. \A k, j : (k \in first /\ j \in first) \/ (k \in second /\ j \in second) => k = j
    BY <1>1, <2>2, OneElement
  <2> QED
    BY <1>3, <1>7, <2>1, <2>2, <2>3
<1>8. Counted(Main) >= 1
  <2>1. Main \in Symbols
    BY FilesType
  <2> DEFINE a == {i \in DOMAIN file : ToStack(file[i], 1) = Main}
             b == {i \in DOMAIN file : ToStack(file[i], 2) = Main}
  <2>2. IsFiniteSet(DOMAIN file)
    BY FS_Interval DEF FileType
  <2>3. IsFiniteSet(a) /\ IsFiniteSet(b)
    BY <2>2, FS_Subset
  <2>4. Counted(Main) = Cardinality(a) + Cardinality(b) + 1
    BY DEF Counted, RulesInto
  <2> HIDE DEF a, b
  <2> QED
    BY <2>3, <2>4, NonEmptyCount
<1>9. ASSUME RulesOutOf(s) = 1, NEW i \in DOMAIN file, NEW j \in DOMAIN file, file[i].from = s, file[j].from = s
      PROVE  i = j
  <2>1. i \in out /\ j \in out
    BY <1>9 DEF out
  <2>2. Cardinality(out) <= 1
    BY <1>2, <1>9
  <2> QED
    BY <1>1, <2>1, <2>2, OneElement
<1> QED
  BY <1>5, <1>2, <1>6, <1>7, <1>8, <1>9

-----------------------------------------------------------------------------
(* What idle rules lead to.                                                *)

\* The start is among it, an idle rule leads no further, and it is the least such set.
LEMMA AfterLeast ==
    ASSUME NEW R, NEW s
    PROVE  /\ s \in After(R, s)
           /\ \A r \in R : Idle(r) /\ r.from \in After(R, s) => r.to[1] \in After(R, s)
           /\ \A T : s \in T /\ (\A r \in R : Idle(r) /\ r.from \in T => r.to[1] \in T) => After(R, s) \subseteq T
<1> DEFINE edges == IdleEdges(R)
           within == {s} \cup {e[2] : e \in edges}
           closed == {S \in SUBSET within : s \in S /\ \A e \in edges : e[1] \in S => e[2] \in S}
<1>1. After(R, s) = {q \in within : \A S \in closed : q \in S}
  BY DEF After
<1>2. s \in After(R, s)
  BY <1>1
<1>3. ASSUME NEW r \in R, Idle(r), r.from \in After(R, s) PROVE r.to[1] \in After(R, s)
  <2> DEFINE e == <<r.from, r.to[1]>>
  <2>1. e \in edges /\ e[1] = r.from /\ e[2] = r.to[1]
    BY <1>3 DEF IdleEdges
  <2> HIDE DEF e
  <2>2. e[2] \in within
    BY <2>1
  <2> HIDE DEF edges, within
  <2> QED
    BY <1>1, <1>3, <2>1, <2>2
<1>4. ASSUME NEW T, s \in T, \A r \in R : Idle(r) /\ r.from \in T => r.to[1] \in T
      PROVE  After(R, s) \subseteq T
  <2> DEFINE S == T \cap within
  <2>1. ASSUME NEW e \in edges, e[1] \in T PROVE e[2] \in T /\ e[2] \in within
    <3>1. PICK r \in R : Idle(r) /\ e = <<r.from, r.to[1]>>
      BY DEF IdleEdges
    <3> QED
      BY <3>1, <2>1, <1>4
  <2>2. S \in closed
    <3> HIDE DEF edges
    <3> QED
      BY <2>1, <1>4
  <2> QED
    BY <1>1, <2>2
<1> QED
  BY <1>2, <1>3, <1>4

\* What comes after something that comes after s comes after s.
LEMMA AfterAfter ==
    ASSUME NEW R, NEW s, NEW q \in After(R, s)
    PROVE  After(R, q) \subseteq After(R, s)
BY AfterLeast

\* What is closed under idle rules and has the start in it has all that a run can visit.
LEMMA VisitedLeast ==
    ASSUME NEW R, NEW T, T \subseteq Symbols, Main \in T,
           \A s \in T : UNION {RulesOf(r.to) : r \in ComingRules(R, s)} \subseteq T
    PROVE  Visited(R) \subseteq T
<1> DEFINE following == [s \in Symbols |-> UNION {RulesOf(r.to) : r \in ComingRules(R, s)}]
<1>1. \A s \in T : following[s] \subseteq T
  BY SMT
<1> HIDE DEF following
<1>2. Visited(R) = {q \in Symbols : \A S \in {S \in SUBSET Symbols : Main \in S /\ \A s \in S : following[s] \subseteq S} : q \in S}
  BY DEF Visited, following
<1> QED
  BY <1>1, <1>2

-----------------------------------------------------------------------------
(* The invariant.                                                          *)

\* A step that leaves the file alone leaves alone what is counted in it.
LEMMA SameFile ==
    ASSUME file' = file
    PROVE  /\ FileType' <=> FileType
           /\ \A s : Counted(s)' = Counted(s) /\ RulesOutOf(s)' = RulesOutOf(s)
           /\ \A i : Into(i)' = Into(i)
BY DEF FileType, Counted, RulesInto, RulesOutOf, Into

\* The target of a dropped rule is its own.
LEMMA DroppedFacts ==
    ASSUME CompressInv, pass # "count"
    PROVE  /\ FileType /\ Seen \in 0 .. Len(file) /\ 0 \notin Dropped
           /\ \A i \in Dropped : /\ i \in DOMAIN file /\ i \in 1 .. Seen /\ IsIntra(file[i]) /\ 1 \in DOMAIN file[i].to
                                 /\ Into(i) \in Symbols /\ counters[Into(i)] = 0 /\ Into(i) # Main
                                 /\ Counted(Into(i)) = 1 /\ RulesInto(Into(i)) = 1
           /\ \A i \in Dropped, j \in DOMAIN file : \A n \in DOMAIN file[j].to :
                 file[j].to[n] = Into(i) => j = i /\ n = 1
           /\ \A j \in DOMAIN file : \A n \in DOMAIN file[j].to :
                 /\ file[j].to[n] \in Symbols
                 /\ counters[file[j].to[n]] = 0 => j \in Dropped /\ n = 1
<1>1. FileType
  BY FileHasType DEF CompressInv, CompressType
<1>2. Seen \in 0 .. Len(file)
  BY <1>1 DEF CompressInv, CompressType, FileType, Seen
<1>3. \A i \in Dropped : i \in 1 .. Seen /\ i \in DOMAIN file /\ IsIntra(file[i]) /\ counters[Into(i)] = 0
  BY <1>1, <1>2 DEF Dropped, FileType
<1>4. ASSUME NEW i \in Dropped
      PROVE  1 \in DOMAIN file[i].to /\ Into(i) \in Symbols /\ Counted(Into(i)) = 1
  <2>1. Len(file[i].to) = 1 /\ DOMAIN file[i].to = 1 .. Len(file[i].to) /\ Into(i) \in Symbols
    BY <1>1, <1>3, RuleKinds DEF FileType, Into
  <2>2. Counted(Into(i)) = 1
    BY DEF CompressInv, DroppedRight
  <2> QED
    BY <2>1, <2>2
<1>5. ASSUME NEW i \in Dropped
      PROVE  /\ Into(i) # Main /\ RulesInto(Into(i)) = 1
             /\ \A j \in DOMAIN file : \A n \in DOMAIN file[j].to : file[j].to[n] = Into(i) => j = i /\ n = 1
  <2>1. i \in DOMAIN file /\ 1 \in DOMAIN file[i].to /\ Into(i) \in Symbols /\ file[i].to[1] = Into(i)
    BY <1>3, <1>4 DEF Into
  <2> QED
    BY <1>1, <1>4, <2>1, Counts
<1>6. ASSUME NEW j \in DOMAIN file, NEW n \in DOMAIN file[j].to
      PROVE  /\ file[j].to[n] \in Symbols
             /\ counters[file[j].to[n]] = 0 => j \in Dropped /\ n = 1
  <2>1. file[j].to[n] \in Symbols
    BY <1>1, RuleKinds DEF FileType
  <2>2. Counted(file[j].to[n]) >= 1
    BY <1>1, <2>1, Counts
  <2>3. counters[file[j].to[n]] = 0 => \E i \in Dropped : file[j].to[n] = Into(i)
    BY <2>1, <2>2 DEF CompressInv, DroppedRight
  <2> QED
    BY <2>1, <2>3, <1>5
<1> QED
  BY <1>1, <1>2, <1>3, <1>4, <1>5, <1>6

\* Counting: nothing is dropped yet.
LEMMA CountStays ==
    ASSUME CompressInv, Count
    PROVE  CompressInv'
<1>1. FileType /\ file' = file /\ FileType'
  BY FileHasType DEF CompressInv, CompressType, Count, FileType
<1>2. CompressType'
  <2>1. keys' \in [Symbols -> Symbols] /\ DOMAIN counters' = Symbols \cup {None}
    BY DEF Count
  <2>2. countersFrom' = [s \in Symbols \cup {None} |-> RulesOutOf(s)]
    BY DEF Count
  <2>3. \A s : RulesOutOf(s)' = RulesOutOf(s)
    BY <1>1, SameFile
  <2>4. (countersFrom = [s \in Symbols \cup {None} |-> RulesOutOf(s)])'
    BY <2>2, <2>3
  <2> QED
    BY <1>1, <2>1, <2>4 DEF CompressInv, CompressType, Count
<1>3. pass' = "compress" /\ next' = 1 /\ Seen' = 0
  BY <1>1 DEF CompressInv, CompressType, Count, Seen
<1>4. Dropped' = {}
  BY <1>3 DEF Dropped
<1>5. DroppedRight'
  <2>1. \A s \in Symbols : counters'[s] = Counted(s)'
    BY <1>1, SameFile DEF Count
  <2> QED
    BY <1>4, <2>1 DEF DroppedRight
<1>6. SequenceRight'
  BY <1>3, <1>4 DEF SequenceRight, CompressInv, CompressType, Count
<1>7. KeysRight'
  <2>1. \A s \in Symbols : keys'[s] = s
    BY DEF Count
  <2>2. \A i, j : ~ Ended(i, j)'
    BY <1>3 DEF Ended
  <2> QED
    BY <2>1, <2>2 DEF KeysRight
<1>8. OutputRight'
  <2>1. output' = << >>
    BY DEF CompressInv, CompressType, Count
  <2>2. RulesOf(output') = {}
    BY <2>1 DEF RulesOf
  <2>3. {WithKeys(file[i])' : i \in {i \in 1 .. 0 : Printed(file[i])'}} = {}
    OBVIOUS
  <2> QED
    BY <1>3, <2>2, <2>3 DEF OutputRight
<1> QED
  BY <1>2, <1>5, <1>6, <1>7, <1>8 DEF CompressInv

\* Going on to the next rule.
LEMMA Advances ==
    ASSUME CompressInv, pass = "compress", Advance("print"), file' = file
    PROVE  /\ FileType /\ next \in DOMAIN file /\ next' \in DOMAIN file' /\ next \in Nat
           /\ Seen = next - 1 /\ Seen' = next /\ pass' # "count" /\ pass' \in {"compress", "print"}
<1>1. FileType /\ next \in 1 .. Len(file) /\ Len(file) \in Nat
  BY FileHasType DEF CompressInv, CompressType, FileType
<1>2. CASE next = Len(file)
  <2>1. pass' = "print" /\ next' = 1
    BY <1>2 DEF Advance
  <2> QED
    BY <1>1, <1>2, <2>1 DEF Seen, FileType
<1>3. CASE next # Len(file)
  <2>1. pass' = "compress" /\ next' = next + 1
    BY <1>3 DEF Advance
  <2>2. next + 1 \in 1 .. Len(file)
    BY <1>1, <1>3
  <2> QED
    BY <1>1, <2>1, <2>2 DEF Seen, FileType
<1> QED
  BY <1>2, <1>3

\* Nothing is printed yet.
LEMMA NotPrinted ==
    ASSUME CompressInv, pass = "compress", Advance("print"), file' = file, output' = output
    PROVE  OutputRight'
<1>1. output' = << >> /\ (pass' = "compress" \/ (pass' = "print" /\ next' = 1))
  BY DEF CompressInv, CompressType, Advance
<1>2. RulesOf(output') = {}
  BY <1>1 DEF RulesOf
<1>3. {WithKeys(file[i])' : i \in {i \in 1 .. 0 : Printed(file[i])'}} = {}
  OBVIOUS
<1> QED
  BY <1>1, <1>2, <1>3 DEF OutputRight

\* A rule is taken out: its target joins the dropped ones.
LEMMA RemoveStays ==
    ASSUME CompressInv, RemoveRule
    PROVE  CompressInv'
<1> DEFINE t == Into(next)
<1>1. pass = "compress" /\ file' = file /\ keys' = keys /\ Removable(file[next]) /\ Advance("print") /\ output' = output
  BY DEF RemoveRule
<1>2. /\ FileType /\ FileType' /\ next \in DOMAIN file /\ next' \in DOMAIN file' /\ next \in Nat /\ next \in 1 .. Len(file)
      /\ Seen = next - 1 /\ Seen' = next /\ pass' # "count" /\ pass' \in {"compress", "print"}
  BY <1>1, Advances, SameFile DEF FileType
<1>3. Idle(file[next]) /\ IsIntra(file[next])
  BY <1>1, <1>2, RemovableIdle DEF CompressInv, CompressType
<1>4. /\ 1 \in DOMAIN file[next].to /\ file[next].to[1] = t /\ t \in Symbols /\ file[next].from \in Symbols
  BY <1>2, <1>3, RuleKinds DEF FileType, Into
<1>5. /\ counters[t] = 1 /\ RulesOutOf(file[next].from) = 1
      /\ currentToStack1 = None \/ currentToStack1 = file[next].from
  BY <1>1, <1>4 DEF Removable, CompressInv, CompressType
<1>6. Counted(t) = 1
  BY <1>1, <1>4, <1>5 DEF CompressInv, DroppedRight
<1>7. \A j \in DOMAIN file : \A n \in DOMAIN file[j].to : file[j].to[n] = t => j = next /\ n = 1
  BY <1>2, <1>4, <1>6, Counts
<1>8. /\ counters' = [counters EXCEPT ![t] = @ - 1] /\ newKey' = t /\ currentToStack1' = t
      /\ oldKey' = IF oldKey = None THEN t ELSE oldKey
  BY DEF RemoveRule, Into
<1> HIDE DEF t
<1>9. counters'[t] = 0 /\ \A s \in Symbols : s # t => counters'[s] = counters[s]
  BY <1>1, <1>4, <1>5, <1>8 DEF CompressInv, CompressType
<1>10. \A i : Into(i)' = Into(i)
  BY <1>1, SameFile
<1>11. Dropped' = Dropped \cup {next}
  <2>1. ASSUME NEW i \in 1 .. next
        PROVE  i \in Dropped' <=> i \in Dropped \cup {next}
    <3>1. CASE i = next
      BY <1>1, <1>2, <1>3, <1>9, <1>10, <3>1 DEF Dropped, t
    <3>2. CASE i # next
      <4>1. i \in DOMAIN file /\ i \in 1 .. Seen
        BY <1>2, <3>2
      <4>2. IsIntra(file[i]) => Into(i) # t /\ Into(i) \in Symbols
        <5>1. IsIntra(file[i]) => 1 \in DOMAIN file[i].to /\ file[i].to[1] = Into(i) /\ Into(i) \in Symbols
          <6>1. file[i] \in RuleType /\ Len(file[i].to) <= 2
            BY <1>2, <4>1 DEF FileType
          <6> QED
            BY <6>1, RuleKinds DEF Into
        <5>2. \A n \in DOMAIN file[i].to : file[i].to[n] # t
          BY <1>7, <3>2, <4>1
        <5> QED
          BY <5>1, <5>2
      <4> QED
        BY <1>1, <1>2, <1>9, <1>10, <3>2, <4>1, <4>2 DEF Dropped
    <3> QED
      BY <3>1, <3>2
  <2>2. Dropped \cup {next} \subseteq 1 .. next
    BY <1>2 DEF Dropped
  <2>3. Dropped' \subseteq 1 .. Seen'
    BY DEF Dropped
  <2> QED
    BY <1>2, <2>1, <2>2, <2>3
<1>12. next \notin Dropped
  BY <1>2 DEF Dropped
<1>13. pass # "count" /\ 0 \notin Dropped /\ \A i \in Dropped : i \in 1 .. Seen /\ i \in 1 .. next - 1
  BY <1>1, <1>2, DroppedFacts
<1>14. CompressType'
  <2>1. countersFrom' = countersFrom /\ DOMAIN counters' = DOMAIN counters
    BY <1>8 DEF RemoveRule
  <2>2. \A s : RulesOutOf(s)' = RulesOutOf(s)
    BY <1>1, SameFile
  <2>3. {oldKey', newKey', currentToStack1'} \subseteq Symbols \cup {None}
    BY <1>4, <1>8 DEF CompressInv, CompressType
  <2> QED
    BY <1>1, <1>2, <2>1, <2>2, <2>3 DEF CompressInv, CompressType
<1>15. DroppedRight'
  <2>1. \A s : Counted(s)' = Counted(s) /\ RulesOutOf(s)' = RulesOutOf(s)
    BY <1>1, SameFile
  <2>2. ASSUME NEW s \in Symbols
        PROVE  counters'[s] = IF \E i \in Dropped' : s = Into(i) THEN 0 ELSE Counted(s)
    <3>1. CASE s = t
      BY <1>9, <1>11, <3>1 DEF t
    <3>2. CASE s # t
      <4>1. (\E i \in Dropped' : s = Into(i)) <=> \E i \in Dropped : s = Into(i)
        BY <1>11, <3>2 DEF t
      <4> QED
        BY <1>1, <1>9, <3>2, <4>1 DEF CompressInv, DroppedRight
    <3> QED
      BY <3>1, <3>2
  <2>3. ASSUME NEW i \in Dropped'
        PROVE  /\ Idle(file[i]) /\ Counted(Into(i)) = 1
               /\ i < next => file[i + 1].from = Into(i) /\ Idle(file[i + 1]) /\ RulesOutOf(Into(i)) = 1
    <3>1. CASE i = next
      BY <1>2, <1>3, <1>6, <3>1 DEF t
    <3>2. CASE i \in Dropped /\ i < Seen
      BY <1>1, <3>2 DEF CompressInv, DroppedRight
    <3>3. CASE i \in Dropped /\ i = Seen
      <4>1. newKey = Into(i) /\ currentToStack1 = newKey /\ i + 1 = next
        BY <1>1, <1>2, <1>13, <3>3 DEF CompressInv, SequenceRight
      <4>2. currentToStack1 = file[next].from
        <5>1. Into(i) # None
          BY <1>1, <3>3, DroppedFacts, FilesType
        <5> QED
          BY <4>1, <5>1, <1>5
      <4> QED
        BY <1>1, <1>3, <1>5, <4>1, <4>2, <3>3 DEF CompressInv, DroppedRight
    <3> QED
      BY <1>2, <1>11, <1>13, <3>1, <3>2, <3>3
  <2> QED
    BY <1>1, <1>2, <1>10, <2>1, <2>2, <2>3 DEF DroppedRight
<1>16. SequenceRight'
  <2> DEFINE A(s) == After(RulesOf(file), s)
  <2>1. CASE Seen \in Dropped
    <3>1. PICK i \in 1 .. Seen : Open(i) /\ oldKey = Into(i)
      BY <2>1, <1>1 DEF CompressInv, SequenceRight
    <3>2. newKey = Into(Seen) /\ currentToStack1 = newKey /\ newKey \in A(oldKey)
      BY <2>1, <1>1 DEF CompressInv, SequenceRight
    <3>3. oldKey # None /\ newKey # None
      <4>1. i \in Dropped
        BY <3>1, <1>2 DEF Open
      <4> QED
        BY <4>1, <2>1, <3>1, <3>2, <1>1, DroppedFacts, FilesType
    <3>4. oldKey' = oldKey /\ file[next].from = newKey
      BY <3>2, <3>3, <1>5, <1>8
    <3>5. Open(i)'
      BY <1>2, <1>11, <1>12, <3>1 DEF Open
    <3>6. t \in A(oldKey)
      <4>1. file[next] \in RulesOf(file)
        BY <1>2 DEF RulesOf
      <4> QED
        BY <4>1, <3>2, <3>4, <1>3, <1>4, AfterLeast
    <3> QED
      BY <1>1, <1>2, <1>8, <1>10, <1>11, <3>1, <3>4, <3>5, <3>6 DEF SequenceRight, t
  <2>2. CASE Seen \notin Dropped
    <3>1. oldKey' = t
      BY <2>2, <1>1, <1>8 DEF CompressInv, SequenceRight
    <3>2. PICK i \in Nat : i = next
      BY <1>2
    <3>3. Open(i)'
      BY <1>2, <1>11, <2>2, <3>2 DEF Open
    <3>4. t \in A(t)
      BY AfterLeast
    <3> QED
      BY <1>1, <1>2, <1>8, <1>10, <1>11, <3>1, <3>2, <3>3, <3>4 DEF SequenceRight, t
  <2> QED
    BY <2>1, <2>2
<1>17. KeysRight'
  <2>1. ASSUME NEW i \in DOMAIN file, NEW j \in DOMAIN file PROVE Ended(i, j)' <=> Ended(i, j)
    BY <1>2, <1>11, <1>12, <1>13 DEF Ended
  <2> QED
    BY <1>1, <1>10, <2>1 DEF CompressInv, KeysRight
<1>18. OutputRight'
  BY <1>1, NotPrinted
<1> QED
  BY <1>14, <1>15, <1>16, <1>17, <1>18 DEF CompressInv

\* A rule is kept where no sequence is open: nothing changes.
LEMMA KeepStays ==
    ASSUME CompressInv, KeepRule, newKey = None
    PROVE  CompressInv'
<1>1. /\ pass = "compress" /\ file' = file /\ keys' = keys /\ counters' = counters /\ Advance("print")
      /\ output' = output /\ countersFrom' = countersFrom
      /\ newKey' = None /\ oldKey' = None /\ currentToStack1' = None
  BY DEF KeepRule, KeepingLast, Redirected
<1>2. /\ FileType /\ FileType' /\ next \in DOMAIN file /\ next' \in DOMAIN file' /\ next \in Nat
      /\ Seen = next - 1 /\ Seen' = next /\ pass # "count" /\ pass' # "count" /\ pass' \in {"compress", "print"}
  BY <1>1, Advances, SameFile
<1>3. /\ \A i : Into(i)' = Into(i)
      /\ \A s : Counted(s)' = Counted(s) /\ RulesOutOf(s)' = RulesOutOf(s)
  BY <1>1, SameFile
<1>4. Seen \notin Dropped
  <2>1. SUFFICES ASSUME Seen \in Dropped PROVE FALSE
    OBVIOUS
  <2>2. newKey = Into(Seen) /\ Into(Seen) \in Symbols
    BY <1>1, <1>2, <2>1, DroppedFacts DEF CompressInv, SequenceRight
  <2> QED
    BY <2>2, FilesType
<1>5. Dropped' = Dropped /\ next \notin Dropped
  <2>1. next \notin Dropped
    BY <1>2 DEF Dropped
  <2>2. ~ (IsIntra(file[next]) /\ counters[Into(next)] = 0)
    <3>1. file[next] \in RuleType /\ Len(file[next].to) <= 2
      BY <1>2 DEF FileType
    <3>2. IsIntra(file[next]) => 1 \in DOMAIN file[next].to /\ file[next].to[1] = Into(next)
      BY <3>1, RuleKinds DEF Into
    <3> QED
      BY <1>2, <2>1, <3>2, DroppedFacts
  <2>3. ASSUME NEW i \in 1 .. next PROVE i \in Dropped' <=> i \in Dropped
    BY <1>1, <1>2, <1>3, <2>1, <2>2 DEF Dropped
  <2>4. Dropped \subseteq 1 .. next /\ Dropped' \subseteq 1 .. next
    BY <1>2 DEF Dropped
  <2> QED
    BY <2>1, <2>3, <2>4
<1>6. \A i \in Dropped : i \in 1 .. Seen /\ i < Seen
  BY <1>2, <1>4 DEF Dropped
<1>7. CompressType'
  BY <1>1, <1>2, <1>3 DEF CompressInv, CompressType
<1>8. DroppedRight'
  BY <1>1, <1>2, <1>3, <1>5, <1>6 DEF CompressInv, DroppedRight
<1>9. SequenceRight'
  BY <1>1, <1>2, <1>5 DEF SequenceRight
<1>10. KeysRight'
  <2>1. ASSUME NEW i \in DOMAIN file, NEW j \in DOMAIN file PROVE Ended(i, j)' <=> Ended(i, j)
    BY <1>2, <1>4, <1>5 DEF Ended, FileType
  <2> QED
    BY <1>1, <1>2, <1>3, <2>1 DEF CompressInv, KeysRight
<1>11. OutputRight'
  BY <1>1, NotPrinted
<1> QED
  BY <1>7, <1>8, <1>9, <1>10, <1>11 DEF CompressInv

\* A rule is kept behind a sequence: its last target gets its counter back, and its
\* first one the key.
LEMMA CloseStays ==
    ASSUME CompressInv, KeepRule, newKey # None
    PROVE  CompressInv'
<1>1. /\ pass = "compress" /\ file' = file /\ Advance("print") /\ output' = output /\ countersFrom' = countersFrom
      /\ newKey' = None /\ oldKey' = None /\ currentToStack1' = None
      /\ counters' = [counters EXCEPT ![currentToStack1] = @ + 1] /\ keys' = [keys EXCEPT ![oldKey] = newKey]
  BY DEF KeepRule, KeepingLast, Redirected
<1>2. /\ FileType /\ FileType' /\ next \in DOMAIN file /\ next' \in DOMAIN file' /\ next \in Nat /\ next \in 1 .. Len(file)
      /\ Seen = next - 1 /\ Seen' = next /\ pass # "count" /\ pass' # "count" /\ pass' \in {"compress", "print"}
  BY <1>1, Advances, SameFile DEF FileType
<1>3. /\ \A i : Into(i)' = Into(i)
      /\ \A s : Counted(s)' = Counted(s) /\ RulesOutOf(s)' = RulesOutOf(s)
  BY <1>1, SameFile
<1>4. PICK m \in Dropped : m = Seen /\ newKey = Into(m) /\ currentToStack1 = newKey
  BY <1>1 DEF CompressInv, SequenceRight
<1>5. PICK o \in 1 .. m : Open(o) /\ oldKey = Into(o)
  BY <1>1, <1>4 DEF CompressInv, SequenceRight
<1>6. newKey \in After(RulesOf(file), oldKey)
  BY <1>1, <1>4 DEF CompressInv, SequenceRight
<1>7. m \in Nat /\ next = m + 1 /\ m \in DOMAIN file /\ o \in DOMAIN file /\ o \in Dropped /\ o - 1 \notin Dropped
  <2>1. m \in DOMAIN file /\ m \in 1 .. Seen /\ o \in Dropped
    BY <1>2, <1>4, <1>5, DroppedFacts DEF Open
  <2> QED
    BY <1>2, <1>4, <1>5, <2>1, DroppedFacts DEF Open
<1>8. newKey \in Symbols /\ oldKey \in Symbols /\ counters[newKey] = 0 /\ Counted(newKey) = 1
  BY <1>2, <1>4, <1>5, <1>7, DroppedFacts
<1>9. counters'[newKey] = 1 /\ \A s \in Symbols : s # newKey => counters'[s] = counters[s]
  BY <1>1, <1>2, <1>4, <1>8 DEF CompressInv, CompressType
<1>10. keys'[oldKey] = newKey /\ \A s \in Symbols : s # oldKey => keys'[s] = keys[s]
  BY <1>1, <1>2, <1>8 DEF CompressInv, CompressType
<1>11. \A i \in Dropped : Into(i) = newKey => i = m
  <2>1. ASSUME NEW i \in Dropped, Into(i) = newKey PROVE i = m
    <3>1. i \in DOMAIN file /\ 1 \in DOMAIN file[i].to /\ file[i].to[1] = Into(m)
      BY <1>2, <1>4, <2>1, DroppedFacts DEF Into
    <3> QED
      BY <1>2, <3>1, DroppedFacts
  <2> QED
    BY <2>1
<1>12. \A i \in 1 .. next : IsIntra(file[i]) => Into(i) \in Symbols /\ (counters[Into(i)] = 0 => i \in Dropped)
  <2>1. ASSUME NEW i \in 1 .. next, IsIntra(file[i])
        PROVE  Into(i) \in Symbols /\ (counters[Into(i)] = 0 => i \in Dropped)
    <3>1. i \in DOMAIN file
      BY <1>2 DEF FileType
    <3>2. file[i] \in RuleType /\ Len(file[i].to) <= 2
      BY <1>2, <3>1 DEF FileType
    <3>3. 1 \in DOMAIN file[i].to /\ file[i].to[1] = Into(i)
      BY <2>1, <3>2, RuleKinds DEF Into
    <3> QED
      BY <1>2, <3>1, <3>3, DroppedFacts
  <2> QED
    BY <2>1
<1>13. Dropped' = Dropped \ {m}
  <2>1. ASSUME NEW i \in 1 .. next PROVE i \in Dropped' <=> i \in Dropped \ {m}
    <3>1. i \in Dropped' <=> IsIntra(file[i]) /\ counters'[Into(i)] = 0
      BY <1>1, <1>2, <1>3 DEF Dropped
    <3>2. i \in Dropped => IsIntra(file[i]) /\ counters[Into(i)] = 0
      BY DEF Dropped
    <3> QED
      BY <1>4, <1>9, <1>11, <1>12, <3>1, <3>2
  <2>2. Dropped \subseteq 1 .. next /\ Dropped' \subseteq 1 .. next
    BY <1>2 DEF Dropped
  <2> QED
    BY <2>1, <2>2
<1>14. \A i \in Dropped : i \in 1 .. m
  BY <1>4 DEF Dropped
<1>15. \A i, j \in DOMAIN file : Ended(i, j) => i \in Dropped /\ i # o /\ j < m
  <2>1. ASSUME NEW i \in DOMAIN file, NEW j \in DOMAIN file, Ended(i, j) PROVE i \in Dropped /\ i # o /\ j < m
    <3>1. i \in 1 .. m /\ j \in 1 .. m /\ i < j /\ j \notin Dropped /\ i \in Dropped
      BY <2>1, <1>4 DEF Ended
    <3>2. \A k \in o .. m : k \in Dropped
      BY <1>4, <1>5 DEF Open
    <3> QED
      BY <1>5, <1>7, <3>1, <3>2
  <2> QED
    BY <2>1
<1>16. \A i, j \in DOMAIN file : Ended(i, j)' <=> Ended(i, j) \/ (i = o /\ j = m /\ o < m)
  <2>1. \A k \in o .. m : k \in Dropped
    BY <1>4, <1>5 DEF Open
  <2>2. ASSUME NEW i \in DOMAIN file, NEW j \in DOMAIN file, Ended(i, j)' PROVE Ended(i, j) \/ (i = o /\ j = m /\ o < m)
    <3>1. /\ i \in 1 .. m + 1 /\ j \in 1 .. m + 1 /\ i < j /\ i - 1 \notin Dropped \ {m} /\ j \notin Dropped \ {m}
          /\ \A k \in i .. j - 1 : k \in Dropped /\ k # m
      BY <1>2, <1>7, <1>13, <2>2 DEF Ended
    <3>2. j # m + 1
      <4>1. j = m + 1 => m \in i .. j - 1
        BY <3>1, <1>7
      <4> QED
        BY <4>1, <3>1
    <3>3. j \in 1 .. m /\ i \in 1 .. m /\ i - 1 \notin Dropped
      BY <3>1, <3>2, <1>7
    <3>4. CASE j # m
      BY <1>4, <3>1, <3>3, <3>4 DEF Ended
    <3>5. CASE j = m
      <4>1. ~ (i < o)
        <5>1. i < o => o - 1 \in i .. j - 1
          BY <3>3, <3>5, <1>5, <1>7
        <5> QED
          BY <5>1, <3>1, <1>7
      <4>2. ~ (o < i)
        <5>1. o < i => i - 1 \in o .. m
          BY <3>3, <1>5, <1>7
        <5> QED
          BY <5>1, <2>1, <3>3
      <4> QED
        BY <4>1, <4>2, <3>1, <3>3, <3>5, <1>5, <1>7
    <3> QED
      BY <3>4, <3>5
  <2>3. ASSUME NEW i \in DOMAIN file, NEW j \in DOMAIN file, Ended(i, j) PROVE Ended(i, j)'
    BY <1>2, <1>4, <1>7, <1>13, <1>15, <2>3 DEF Ended
  <2>4. ASSUME o < m PROVE Ended(o, m)'
    <3>1. \A k \in o .. m - 1 : k \in Dropped'
      BY <1>7, <1>13, <2>1
    <3>2. o \in 1 .. Seen' /\ m \in 1 .. Seen' /\ o - 1 \notin Dropped' /\ m \notin Dropped'
      BY <1>2, <1>7, <1>13
    <3> QED
      BY <2>4, <3>1, <3>2 DEF Ended
  <2> QED
    BY <2>2, <2>3, <2>4
<1>17. CompressType'
  <2>1. keys' \in [Symbols -> Symbols] /\ DOMAIN counters' = DOMAIN counters
    BY <1>1, <1>2, <1>8 DEF CompressInv, CompressType
  <2> QED
    BY <1>1, <1>2, <1>3, <2>1 DEF CompressInv, CompressType
<1>18. DroppedRight'
  <2>1. ASSUME NEW s \in Symbols
        PROVE  counters'[s] = IF \E i \in Dropped' : s = Into(i) THEN 0 ELSE Counted(s)
    <3>1. CASE s = newKey
      BY <1>8, <1>9, <1>11, <1>13, <3>1
    <3>2. CASE s # newKey
      <4>1. (\E i \in Dropped' : s = Into(i)) <=> \E i \in Dropped : s = Into(i)
        BY <1>4, <1>13, <3>2
      <4> QED
        BY <1>2, <1>9, <3>2, <4>1 DEF CompressInv, DroppedRight
    <3> QED
      BY <3>1, <3>2
  <2>2. ASSUME NEW i \in Dropped'
        PROVE  /\ Idle(file[i]) /\ Counted(Into(i)) = 1
               /\ file[i + 1].from = Into(i) /\ Idle(file[i + 1]) /\ RulesOutOf(Into(i)) = 1
    <3>1. i \in Dropped /\ i < Seen
      BY <1>4, <1>13, <1>14, <1>7
    <3> QED
      BY <1>2, <3>1 DEF CompressInv, DroppedRight
  <2> QED
    BY <1>1, <1>3, <2>1, <2>2 DEF DroppedRight
<1>19. SequenceRight'
  BY <1>1, <1>2, <1>7, <1>13, <1>14 DEF SequenceRight
<1>20. KeysRight'
  <2>1. ASSUME NEW i \in DOMAIN file, NEW j \in DOMAIN file, Ended(i, j)' PROVE keys'[Into(i)] = Into(j)
    <3>1. CASE Ended(i, j)
      <4>1. i \in Dropped /\ Into(i) # oldKey
        <5>1. i \in Dropped /\ i # o
          BY <1>15, <3>1
        <5>2. 1 \in DOMAIN file[i].to /\ file[i].to[1] = Into(i)
          BY <1>2, <5>1, DroppedFacts DEF Into
        <5> QED
          BY <1>2, <1>5, <1>7, <5>1, <5>2, DroppedFacts
      <4> QED
        BY <1>2, <1>10, <3>1, <4>1, DroppedFacts DEF CompressInv, KeysRight
    <3>2. CASE i = o /\ j = m
      BY <1>4, <1>5, <1>10, <3>2
    <3> QED
      BY <1>16, <2>1, <3>1, <3>2
  <2>2. ASSUME NEW s \in Symbols, keys'[s] # s
        PROVE  /\ \E i, j \in DOMAIN file : Ended(i, j)' /\ s = Into(i)
               /\ keys'[s] \in After(RulesOf(file), s)
    <3>1. CASE s = oldKey
      <4>1. o # m
        BY <1>4, <1>5, <1>10, <2>2, <3>1
      <4>2. o < m
        BY <4>1, <1>5, <1>7
      <4> QED
        BY <4>2, <1>5, <1>6, <1>7, <1>10, <1>16, <3>1
    <3>2. CASE s # oldKey
      <4>1. keys'[s] = keys[s]
        BY <1>10, <3>2
      <4> QED
        BY <1>2, <1>16, <2>2, <4>1 DEF CompressInv, KeysRight
    <3> QED
      BY <3>1, <3>2
  <2> QED
    BY <1>1, <1>3, <2>1, <2>2 DEF KeysRight
<1>21. OutputRight'
  BY <1>1, NotPrinted
<1> QED
  BY <1>17, <1>18, <1>19, <1>20, <1>21 DEF CompressInv

\* A rule with its keys is a rule of the same kind.
LEMMA KeysType ==
    ASSUME NEW r \in RuleType, Len(r.to) <= 2, keys \in [Symbols -> Symbols]
    PROVE  /\ WithKeys(r) \in RuleType /\ WithKeys(r) = [r EXCEPT !.to = WithKeys(r).to]
           /\ WithKeys(r).from = r.from /\ WithKeys(r).children = r.children /\ WithKeys(r).basis = r.basis
           /\ Len(WithKeys(r).to) = Len(r.to)
           /\ \A n \in DOMAIN r.to : WithKeys(r).to[n] = keys[r.to[n]]
           /\ (\A n \in DOMAIN r.to : keys[r.to[n]] = r.to[n]) => WithKeys(r) = r
<1> DEFINE to == [n \in DOMAIN r.to |-> keys[r.to[n]]]
<1>1. /\ DOMAIN r.to = 1 .. Len(r.to) /\ Len(r.to) \in Nat /\ r.to \in Seq(Symbols)
      /\ \A n \in DOMAIN r.to : r.to[n] \in Symbols
  BY RuleKinds
<1>2. to \in Seq(Symbols) /\ Len(to) = Len(r.to)
  <2>1. to \in [1 .. Len(r.to) -> Symbols]
    BY <1>1
  <2> HIDE DEF to
  <2>2. \A n \in Nat : \A f \in [1 .. n -> Symbols] : f \in Seq(Symbols) /\ Len(f) = n
    OBVIOUS
  <2> QED
    BY <1>1, <2>1, <2>2
<1>3. WithKeys(r) = [r EXCEPT !.to = to]
  BY DEF WithKeys
<1>4. \A n \in DOMAIN r.to : to[n] = keys[r.to[n]]
  OBVIOUS
<1>5. ASSUME \A n \in DOMAIN r.to : keys[r.to[n]] = r.to[n] PROVE to = r.to
  <2>1. \A n \in 1 .. Len(to) : to[n] = r.to[n]
    BY <1>1, <1>2, <1>4, <1>5
  <2> HIDE DEF to
  <2> QED
    BY <1>1, <1>2, <2>1, SeqEqual
<1> HIDE DEF to
<1>6. /\ WithKeys(r) \in RuleType /\ WithKeys(r).to = to /\ WithKeys(r).from = r.from
      /\ WithKeys(r).children = r.children /\ WithKeys(r).basis = r.basis
      /\ (to = r.to => WithKeys(r) = r)
  BY <1>2, <1>3 DEF RuleType
<1> QED
  BY <1>2, <1>3, <1>4, <1>5, <1>6

\* Printing a rule with the keys put in keeps the invariant.
LEMMA PrintStays ==
    ASSUME CompressInv, PrintRule
    PROVE  CompressInv'
<1> DEFINE r == WithKeys(file[next])
<1>1. /\ pass = "print" /\ file' = file /\ keys' = keys /\ counters' = counters /\ countersFrom' = countersFrom
      /\ oldKey' = oldKey /\ newKey' = newKey /\ currentToStack1' = currentToStack1 /\ Advance("done")
      /\ output' = IF Printed(file[next]) THEN Append(output, r) ELSE output
  BY DEF PrintRule
<1>2. /\ FileType /\ next \in DOMAIN file /\ next \in 1 .. Len(file) /\ next \in Nat /\ Len(file) \in Nat
      /\ output \in Seq(RuleType) /\ keys \in [Symbols -> Symbols]
  BY <1>1, FileHasType DEF CompressInv, CompressType, FileType
<1>3. r \in RuleType
  BY <1>2, KeysType DEF FileType
<1> HIDE DEF r
<1>4. output' \in Seq(RuleType)
  BY <1>1, <1>2, <1>3, AppendProperties
<1>5. \/ pass' = "done" /\ next' = 1 /\ next = Len(file)
      \/ pass' = "print" /\ next' = next + 1 /\ next + 1 \in 1 .. Len(file)
  BY <1>1, <1>2 DEF Advance
<1>6. Seen' = Seen /\ Dropped' = Dropped
  <2>1. Seen' = Len(file) /\ Seen = Len(file) /\ \A i : Into(i)' = Into(i)
    BY <1>1, <1>5, SameFile DEF Seen
  <2> QED
    BY <1>1, <2>1 DEF Dropped
<1>7. /\ \A i : Into(i)' = Into(i)
      /\ \A s : Counted(s)' = Counted(s) /\ RulesOutOf(s)' = RulesOutOf(s)
  BY <1>1, SameFile
<1>8. CompressType'
  <2>1. next' \in DOMAIN file
    BY <1>2, <1>5 DEF FileType
  <2> QED
    BY <1>1, <1>4, <1>5, <1>7, <2>1 DEF CompressInv, CompressType
<1>9. DroppedRight'
  BY <1>1, <1>6, <1>7 DEF CompressInv, DroppedRight
<1>10. SequenceRight'
  BY <1>5 DEF SequenceRight
<1>11. KeysRight'
  <2>1. \A i, j : Ended(i, j)' <=> Ended(i, j)
    BY <1>6 DEF Ended
  <2> QED
    BY <1>1, <1>7, <2>1 DEF CompressInv, KeysRight
<1>12. OutputRight'
  <2> DEFINE Out(n) == {WithKeys(file[i]) : i \in {i \in 1 .. n : Printed(file[i])}}
  <2>1. OutputRight' <=> RulesOf(output') = Out(next)
    <3>1. \A i : WithKeys(file[i])' = WithKeys(file[i]) /\ (Printed(file[i])' <=> Printed(file[i]))
      BY <1>1 DEF WithKeys, Printed
    <3>2. CASE pass' = "done" /\ next = Len(file)
      BY <1>1, <3>1, <3>2 DEF OutputRight
    <3>3. CASE pass' = "print" /\ next' = next + 1
      <4>1. next' - 1 = next
        BY <1>2, <3>3
      <4> QED
        BY <1>1, <3>1, <3>3, <4>1 DEF OutputRight
    <3> QED
      BY <1>5, <3>2, <3>3
  <2>2. RulesOf(output) = Out(next - 1)
    BY <1>1 DEF CompressInv, OutputRight
  <2>3. RulesOf(output') = RulesOf(output) \cup (IF Printed(file[next]) THEN {r} ELSE {})
    <3>1. CASE Printed(file[next])
      <4>1. /\ output' = Append(output, r) /\ DOMAIN output = 1 .. Len(output) /\ Len(output) \in Nat
            /\ DOMAIN output' = 1 .. (Len(output) + 1) /\ output'[Len(output) + 1] = r
            /\ \A i \in 1 .. Len(output) : output'[i] = output[i]
        BY <1>1, <1>2, <1>3, <3>1, AppendProperties, LenProperties
      <4>2. DOMAIN output' = DOMAIN output \cup {Len(output) + 1}
        BY <4>1
      <4> QED
        BY <3>1, <4>1, <4>2 DEF RulesOf
    <3>2. CASE ~ Printed(file[next])
      BY <1>1, <3>2
    <3> QED
      BY <3>1, <3>2
  <2>4. Out(next) = Out(next - 1) \cup (IF Printed(file[next]) THEN {r} ELSE {})
    <3>1. 1 .. next = (1 .. next - 1) \cup {next}
      BY <1>2
    <3> QED
      BY <3>1 DEF r
  <2> HIDE DEF Out
  <2> QED
    BY <2>1, <2>2, <2>3, <2>4
<1> QED
  BY <1>8, <1>9, <1>10, <1>11, <1>12 DEF CompressInv

\* In every file the handlers keep to the sequences, CompressInv: what they take out and
\* put back are the counters and keys of the idle rules they have looked at.
THEOREM CompressInvariant == Spec => []CompressInv
<1>1. Init => CompressInv
  <2> SUFFICES ASSUME Init PROVE CompressInv
    OBVIOUS
  <2>1. FileType
    BY FileHasType DEF Init
  <2>2. 1 \in DOMAIN file /\ << >> \in Seq(RuleType)
    BY <2>1 DEF FileType
  <2> QED
    BY <2>2 DEF Init, CompressInv, CompressType
<1>2. CompressInv /\ [Next]_vars => CompressInv'
  <2> SUFFICES ASSUME CompressInv, [Next]_vars PROVE CompressInv'
    OBVIOUS
  <2>1. CASE Count
    BY <2>1, CountStays
  <2>2. CASE RemoveRule
    BY <2>2, RemoveStays
  <2>3. CASE KeepRule
    BY <2>3, KeepStays, CloseStays
  <2>4. CASE PrintRule
    BY <2>4, PrintStays
  <2>5. CASE UNCHANGED vars
    <3>1. /\ file' = file /\ pass' = pass /\ next' = next /\ counters' = counters /\ countersFrom' = countersFrom
          /\ keys' = keys /\ oldKey' = oldKey /\ newKey' = newKey /\ currentToStack1' = currentToStack1
          /\ output' = output
      BY <2>5 DEF vars
    <3>2. Seen' = Seen /\ Dropped' = Dropped
      <4>1. Seen' = Seen /\ \A i : Into(i)' = Into(i)
        BY <3>1, SameFile DEF Seen
      <4> QED
        BY <3>1, <4>1 DEF Dropped
    <3>3. /\ \A i : Into(i)' = Into(i)
          /\ \A s : Counted(s)' = Counted(s) /\ RulesOutOf(s)' = RulesOutOf(s)
      BY <3>1, SameFile
    <3>4. \A i, j : (Ended(i, j)' <=> Ended(i, j)) /\ (Open(i)' <=> Open(i))
      BY <3>2 DEF Ended, Open
    <3>5. CompressType' <=> CompressType
      BY <3>1, <3>3 DEF CompressType
    <3>6. pass # "count" => (DroppedRight' <=> DroppedRight)
      BY <3>1, <3>2, <3>3 DEF DroppedRight
    <3>7. SequenceRight' <=> SequenceRight
      BY <3>1, <3>2, <3>3, <3>4 DEF SequenceRight
    <3>8. KeysRight' <=> KeysRight
      BY <3>1, <3>3, <3>4 DEF KeysRight
    <3>9. OutputRight' <=> OutputRight
      <4>1. \A i : WithKeys(file[i])' = WithKeys(file[i]) /\ (Printed(file[i])' <=> Printed(file[i]))
        BY <3>1 DEF WithKeys, Printed
      <4> QED
        BY <3>1, <4>1 DEF OutputRight
    <3> QED
      BY <3>1, <3>5, <3>6, <3>7, <3>8, <3>9 DEF CompressInv
  <2> QED
    BY <2>1, <2>2, <2>3, <2>4, <2>5 DEF Next
<1> QED
  BY <1>1, <1>2, PTL DEF Spec

\* SequenceIntact: nothing but its idle rules leads to the targets of an open sequence,
\* and a symbol without its count lies between two idle rules, whatever symbols the
\* file has used before (CompressRules.cpp:98-127).
THEOREM SequencesIntact == Spec => []SequenceIntact
<1>1. ASSUME CompressInv, pass = "compress", newKey # None
      PROVE  \E i \in 1 .. next - 1 : /\ Sequence(i) /\ oldKey = Into(i)
                                      /\ newKey = Into(next - 1) /\ currentToStack1 = newKey
  <2>1. Seen = next - 1 /\ next \in Int
    BY <1>1, DroppedFacts DEF Seen, CompressInv, CompressType, FileType
  <2>2. Seen \in Dropped
    BY <1>1 DEF CompressInv, SequenceRight
  <2>3. PICK i \in 1 .. Seen : Open(i) /\ oldKey = Into(i)
    BY <1>1, <2>2 DEF CompressInv, SequenceRight
  <2>4. newKey = Into(Seen) /\ currentToStack1 = newKey
    BY <1>1, <2>2 DEF CompressInv, SequenceRight
  <2>5. \A k \in i .. Seen : k \in Dropped
    BY <2>3 DEF Open
  <2>6. \A k \in i .. Seen : Idle(file[k]) /\ RulesInto(Into(k)) = 1 /\ counters[Into(k)] = 0
    BY <1>1, <2>5, DroppedFacts DEF CompressInv, DroppedRight
  <2>7. ASSUME NEW k \in i .. next - 2 PROVE file[k + 1].from = Into(k)
    <3>1. k \in i .. Seen /\ k < Seen
      BY <2>1, <2>3, <2>7
    <3> QED
      BY <1>1, <2>5, <3>1 DEF CompressInv, DroppedRight
  <2> QED
    BY <2>1, <2>3, <2>4, <2>6, <2>7 DEF Sequence
<1>2. ASSUME CompressInv, pass = "compress", NEW s \in Symbols, counters[s] # Counted(s)
      PROVE  counters[s] = 0 /\ \E k \in 1 .. next - 1 : LeadsToIdle(k, s)
  <2>1. PICK k \in Dropped : s = Into(k)
    BY <1>2 DEF CompressInv, DroppedRight
  <2>2. k \in 1 .. next - 1 /\ RulesInto(s) = 1 /\ counters[s] = 0
    BY <1>2, <2>1, DroppedFacts DEF Seen
  <2>3. /\ Idle(file[k])
        /\ k < next - 1 => file[k + 1].from = s /\ Idle(file[k + 1]) /\ RulesOutOf(s) = 1
    BY <1>2, <2>1 DEF CompressInv, DroppedRight, Seen
  <2> QED
    BY <2>1, <2>2, <2>3 DEF LeadsToIdle
<1>3. CompressInv => SequenceIntact
  BY <1>1, <1>2 DEF SequenceIntact
<1> QED
  BY <1>3, CompressInvariant, PTL

-----------------------------------------------------------------------------
(* What is printed.                                                        *)

\* The rules that do something are printed as they are, and what is between two rules
\* of a sequence is left by the second of them only.
LEMMA DoneFacts ==
    ASSUME CompressInv, pass = "done"
    PROVE  /\ Seen = Len(file) /\ keys \in [Symbols -> Symbols]
           /\ \A i \in DOMAIN file :
                 /\ file[i] \in RuleType /\ Len(file[i].to) <= 2
                 /\ Idle(WithKeys(file[i])) <=> Idle(file[i])
                 /\ ~Idle(file[i]) => WithKeys(file[i]) = file[i]
                                      /\ \A n \in DOMAIN file[i].to : counters[file[i].to[n]] # 0
                 /\ Idle(file[i]) => /\ IsIntra(file[i]) /\ Into(i) \in Symbols /\ 1 \in DOMAIN file[i].to
                                     /\ WithKeys(file[i]).to[1] = keys[Into(i)]
           /\ \A k \in Dropped, i \in DOMAIN file : file[i].from = Into(k) => i = k + 1 /\ k < Len(file) /\ Idle(file[i])
           /\ \A s \in Symbols : counters[s] # 0 => keys[s] = s
           /\ \A i \in DOMAIN file : Printed(file[i]) => WithKeys(file[i]) \in RulesOf(output)
           /\ \A r \in RulesOf(output) : \E i \in DOMAIN file : r = WithKeys(file[i])
<1>1. FileType /\ Seen = Len(file) /\ keys \in [Symbols -> Symbols] /\ DOMAIN file = 1 .. Len(file) /\ Len(file) \in Nat
  BY DroppedFacts DEF CompressInv, CompressType, Seen, FileType
<1>2. ASSUME NEW s \in Symbols, counters[s] # 0 PROVE keys[s] = s
  <2>1. SUFFICES ASSUME NEW i \in DOMAIN file, NEW j \in DOMAIN file, Ended(i, j), s = Into(i) PROVE FALSE
    BY <1>2 DEF CompressInv, KeysRight
  <2>2. i \in Dropped
    BY <1>1, <2>1 DEF Ended
  <2> QED
    BY <1>2, <2>1, <2>2, DroppedFacts
<1>3. ASSUME NEW i \in DOMAIN file
      PROVE  /\ file[i] \in RuleType /\ Len(file[i].to) <= 2
             /\ Idle(WithKeys(file[i])) <=> Idle(file[i])
             /\ ~Idle(file[i]) => WithKeys(file[i]) = file[i]
                                  /\ \A n \in DOMAIN file[i].to : counters[file[i].to[n]] # 0
             /\ Idle(file[i]) => /\ IsIntra(file[i]) /\ Into(i) \in Symbols /\ 1 \in DOMAIN file[i].to
                                 /\ WithKeys(file[i]).to[1] = keys[Into(i)]
  <2>1. file[i] \in RuleType /\ Len(file[i].to) <= 2
    BY <1>1 DEF FileType
  <2>2. Idle(WithKeys(file[i])) <=> Idle(file[i])
    BY <1>1, <2>1, KeysType DEF Idle
  <2>3. ASSUME ~Idle(file[i]), NEW n \in DOMAIN file[i].to
        PROVE  counters[file[i].to[n]] # 0 /\ keys[file[i].to[n]] = file[i].to[n]
    <3>1. i \notin Dropped
      BY <2>3 DEF CompressInv, DroppedRight
    <3> QED
      BY <1>2, <2>3, <3>1, DroppedFacts
  <2>4. ASSUME Idle(file[i])
        PROVE  /\ IsIntra(file[i]) /\ Into(i) \in Symbols /\ 1 \in DOMAIN file[i].to
               /\ WithKeys(file[i]).to[1] = keys[Into(i)]
    <3>1. IsIntra(file[i]) /\ 1 \in DOMAIN file[i].to /\ file[i].to[1] = Into(i) /\ Into(i) \in Symbols
      <4>1. Len(file[i].to) = 1
        BY <2>4 DEF Idle
      <4>2. IsIntra(file[i]) /\ DOMAIN file[i].to = 1 .. 1
        BY <2>1, <4>1, RuleKinds
      <4>3. 1 \in DOMAIN file[i].to
        BY <4>2
      <4> QED
        BY <2>1, <4>2, <4>3, RuleKinds DEF Into
    <3> QED
      BY <1>1, <2>1, <3>1, KeysType
  <2> QED
    BY <1>1, <2>1, <2>2, <2>3, <2>4, KeysType
<1>4. ASSUME NEW k \in Dropped, NEW i \in DOMAIN file, file[i].from = Into(k)
      PROVE  i = k + 1 /\ k < Len(file) /\ Idle(file[i])
  <2>1. k \in 1 .. Len(file) /\ Into(k) \in Symbols /\ IsIntra(file[k])
    BY <1>1, DroppedFacts
  <2>2. k # Len(file)
    <3>1. SUFFICES ASSUME k = Len(file) PROVE FALSE
      OBVIOUS
    <3>2. Len(file[k].to) = 1
      BY <1>1, <1>3, <2>1, RuleKinds
    <3>3. file[i] \in RulesOf(file) /\ file \in Files
      BY DEF RulesOf, CompressInv, CompressType
    <3> QED
      BY <3>1, <3>2, <3>3, <1>4, FilesType DEF Into
  <2>3. k + 1 \in DOMAIN file /\ k < Seen
    BY <1>1, <2>1, <2>2
  <2>4. file[k + 1].from = Into(k) /\ Idle(file[k + 1]) /\ RulesOutOf(Into(k)) = 1
    BY <2>3 DEF CompressInv, DroppedRight
  <2> QED
    BY <1>1, <1>4, <2>1, <2>3, <2>4, Counts
<1>5. /\ \A i \in DOMAIN file : Printed(file[i]) => WithKeys(file[i]) \in RulesOf(output)
      /\ \A r \in RulesOf(output) : \E i \in DOMAIN file : r = WithKeys(file[i])
  <2>1. RulesOf(output) = {WithKeys(file[i]) : i \in {i \in 1 .. Len(file) : Printed(file[i])}}
    BY DEF CompressInv, OutputRight
  <2> QED
    BY <1>1, <2>1
<1> QED
  BY <1>1, <1>2, <1>3, <1>4, <1>5

\* The program never stops between the rules of a sequence.
LEMMA VisitedCounted ==
    ASSUME CompressInv, pass = "done"
    PROVE  Visited(RulesOf(file)) \subseteq {s \in Symbols : counters[s] # 0}
<1> DEFINE T == {s \in Symbols : counters[s] # 0}
<1>1. Main \in T
  <2>1. Main \in Symbols /\ FileType
    BY FilesType, DroppedFacts
  <2>2. Counted(Main) >= 1 /\ Counted(Main) \in Nat
    BY <2>1, Counts
  <2>3. \A i \in Dropped : Main # Into(i)
    BY DroppedFacts
  <2> QED
    BY <2>1, <2>2, <2>3 DEF CompressInv, DroppedRight
<1>2. ASSUME NEW s, NEW r \in ComingRules(RulesOf(file), s), NEW q \in RulesOf(r.to)
      PROVE  q \in T
  <2>1. PICK i \in DOMAIN file : ~Idle(file[i]) /\ r.to = file[i].to
    <3>1. PICK p \in RulesOf(file) : ~Idle(p) /\ r = [p EXCEPT !.from = s]
      BY DEF ComingRules
    <3>2. PICK i \in DOMAIN file : p = file[i]
      BY DEF RulesOf
    <3>3. p \in RuleType
      BY <3>2, DoneFacts
    <3>4. r.to = p.to
      BY <3>1, <3>3 DEF RuleType
    <3> QED
      BY <3>1, <3>2, <3>4
  <2>2. PICK n \in DOMAIN file[i].to : q = file[i].to[n]
    BY <2>1 DEF RulesOf
  <2> QED
    BY <2>1, <2>2, DoneFacts, DroppedFacts
<1>3. T \subseteq Symbols /\ \A s \in T : UNION {RulesOf(r.to) : r \in ComingRules(RulesOf(file), s)} \subseteq T
  <2> HIDE DEF T
  <2>1. \A s \in T : UNION {RulesOf(r.to) : r \in ComingRules(RulesOf(file), s)} \subseteq T
    BY <1>2
  <2> QED
    BY <2>1 DEF T
<1> HIDE DEF T
<1>4. Visited(RulesOf(file)) \subseteq T
  BY <1>1, <1>3, VisitedLeast
<1> QED
  BY <1>4 DEF T

\* A printed idle rule goes where idle rules of the file go.
LEMMA PrintedAfter ==
    ASSUME CompressInv, pass = "done", NEW s
    PROVE  After(RulesOf(output), s) \subseteq After(RulesOf(file), s)
<1> DEFINE T == After(RulesOf(file), s)
<1>1. ASSUME NEW r \in RulesOf(output), Idle(r), r.from \in T PROVE r.to[1] \in T
  <2>1. PICK i \in DOMAIN file : r = WithKeys(file[i])
    BY DoneFacts
  <2>2. /\ Idle(file[i]) /\ Into(i) \in Symbols /\ r.to[1] = keys[Into(i)] /\ file[i] \in RulesOf(file)
        /\ r.from = file[i].from
    BY <1>1, <2>1, DoneFacts, KeysType DEF RulesOf
  <2>3. Into(i) \in T
    BY <1>1, <2>2, AfterLeast DEF Into
  <2>4. keys[Into(i)] = Into(i) \/ keys[Into(i)] \in After(RulesOf(file), Into(i))
    BY <2>2 DEF CompressInv, KeysRight
  <2> QED
    BY <2>2, <2>3, <2>4, AfterAfter
<1> HIDE DEF T
<1>2. s \in T
  BY AfterLeast DEF T
<1>3. After(RulesOf(output), s) \subseteq T
  BY <1>1, <1>2, AfterLeast
<1> QED
  BY <1>3 DEF T

\* The printed rules come to whatever is not between two rules of a sequence.
LEMMA AfterPrinted ==
    ASSUME CompressInv, pass = "done", NEW s \in Symbols, counters[s] # 0, NEW x \in After(RulesOf(file), s)
    PROVE  \/ x \in After(RulesOf(output), s) /\ counters[x] # 0
           \/ \E k \in Dropped : x = Into(k)
<1> DEFINE A == After(RulesOf(output), s)
           Behind(k) == \A e \in DOMAIN file :
                            k < e /\ e \notin Dropped /\ (\A q \in k .. e - 1 : q \in Dropped) => Into(e) \in A
           T == {q \in A : counters[q] # 0} \cup {Into(k) : k \in {k \in Dropped : Behind(k)}}
<1>1. /\ Seen = Len(file) /\ Len(file) \in Nat /\ DOMAIN file = 1 .. Len(file)
      /\ \A k \in Dropped : k \in 1 .. Len(file) /\ k \in DOMAIN file /\ counters[Into(k)] = 0
  BY DoneFacts, DroppedFacts DEF FileType
<1>2. s \in T
  BY AfterLeast
<1>3. ASSUME NEW i \in DOMAIN file, Idle(file[i]), file[i].from \in T PROVE Into(i) \in T
  <2>1. /\ IsIntra(file[i]) /\ Into(i) \in Symbols /\ 1 \in DOMAIN file[i].to /\ file[i].to[1] = Into(i)
        /\ WithKeys(file[i]).to[1] = keys[Into(i)] /\ WithKeys(file[i]).from = file[i].from /\ Idle(WithKeys(file[i]))
    BY <1>3, DoneFacts, KeysType DEF Into
  <2>2. counters[Into(i)] = 0 => i \in Dropped
    BY <2>1, DroppedFacts
  <2>3. CASE file[i].from \in A /\ counters[file[i].from] # 0
    <3>1. WithKeys(file[i]) \in RulesOf(output)
      BY <2>3, DoneFacts DEF Printed
    <3>2. keys[Into(i)] \in A
      BY <2>1, <2>3, <3>1, AfterLeast
    <3>3. CASE counters[Into(i)] # 0
      BY <2>1, <3>2, <3>3, DoneFacts
    <3>4. CASE counters[Into(i)] = 0
      <4>1. i \in Dropped
        BY <2>2, <3>4
      <4>2. i - 1 \notin Dropped
        <5>1. SUFFICES ASSUME i - 1 \in Dropped PROVE FALSE
          OBVIOUS
        <5>2. i - 1 < Seen /\ (i - 1) + 1 = i
          BY <1>1
        <5>3. file[i].from = Into(i - 1)
          BY <5>1, <5>2 DEF CompressInv, DroppedRight
        <5> QED
          BY <1>1, <2>3, <5>1, <5>3
      <4>3. ASSUME NEW e \in DOMAIN file, i < e, e \notin Dropped, \A q \in i .. e - 1 : q \in Dropped
            PROVE  Into(e) \in A
        <5>1. Ended(i, e)
          BY <1>1, <4>2, <4>3 DEF Ended
        <5>2. keys[Into(i)] = Into(e)
          BY <5>1 DEF CompressInv, KeysRight
        <5> QED
          BY <3>2, <5>2
      <4> QED
        BY <4>1, <4>3
    <3> QED
      BY <3>3, <3>4
  <2>4. CASE \E k \in Dropped : Behind(k) /\ file[i].from = Into(k)
    <3>1. PICK k \in Dropped : Behind(k) /\ file[i].from = Into(k)
      BY <2>4
    <3>2. i = k + 1 /\ k \in Nat
      BY <1>1, <3>1, DoneFacts
    <3>3. CASE i \in Dropped
      <4>1. ASSUME NEW e \in DOMAIN file, i < e, e \notin Dropped, \A q \in i .. e - 1 : q \in Dropped
            PROVE  Into(e) \in A
        <5>1. k < e /\ \A q \in k .. e - 1 : q \in Dropped
          BY <1>1, <3>2, <4>1
        <5> QED
          BY <3>1, <4>1, <5>1
      <4> QED
        BY <3>3, <4>1
    <3>4. CASE i \notin Dropped
      <4>1. Into(i) \in A
        <5>1. k < i /\ \A q \in k .. i - 1 : q \in Dropped
          BY <1>1, <3>2
        <5> QED
          BY <3>1, <3>4, <5>1
      <4> QED
        BY <2>2, <3>4, <4>1
    <3> QED
      BY <3>3, <3>4
  <2> QED
    BY <1>3, <2>3, <2>4
<1>4. ASSUME NEW r \in RulesOf(file), Idle(r), r.from \in T PROVE r.to[1] \in T
  <2>1. PICK i \in DOMAIN file : r = file[i] /\ Into(i) = r.to[1]
    BY DEF RulesOf, Into
  <2> HIDE DEF T
  <2> QED
    BY <1>3, <1>4, <2>1
<1>5. x \in T
  <2> HIDE DEF T
  <2> QED
    BY <1>2, <1>4, AfterLeast
<1> QED
  BY <1>5

\* The file that comes out does what the file that went in does, SameBehaviour: wherever
\* the program gets, the rules that come next and do something are the same.
THEOREM CompressedBehaves == Spec => []SameBehaviour
<1>1. ASSUME CompressInv, pass = "done", NEW s \in Symbols, counters[s] # 0
      PROVE  ComingRules(RulesOf(file), s) = ComingRules(RulesOf(output), s)
  <2>1. ASSUME NEW r \in RulesOf(file), ~Idle(r), r.from \in After(RulesOf(file), s)
        PROVE  r \in RulesOf(output) /\ r.from \in After(RulesOf(output), s)
    <3>1. PICK i \in DOMAIN file : r = file[i]
      BY DEF RulesOf
    <3>2. r.from \in After(RulesOf(output), s) /\ counters[r.from] # 0
      BY <1>1, <2>1, <3>1, AfterPrinted, DoneFacts
    <3> QED
      BY <1>1, <2>1, <3>1, <3>2, DoneFacts DEF Printed
  <2>2. ASSUME NEW r \in RulesOf(output), ~Idle(r), r.from \in After(RulesOf(output), s)
        PROVE  r \in RulesOf(file) /\ r.from \in After(RulesOf(file), s)
    <3>1. PICK i \in DOMAIN file : r = WithKeys(file[i])
      BY <1>1, DoneFacts
    <3>2. r = file[i]
      BY <1>1, <2>2, <3>1, DoneFacts
    <3> QED
      BY <1>1, <2>2, <3>2, PrintedAfter DEF RulesOf
  <2> QED
    BY <2>1, <2>2 DEF ComingRules
<1>2. CompressInv => SameBehaviour
  BY <1>1, VisitedCounted DEF SameBehaviour
<1> QED
  BY <1>2, CompressInvariant, PTL
=============================================================================
