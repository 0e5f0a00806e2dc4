---------------------------- MODULE EnergyProofs ----------------------------
(* Theorems about Energy, for every configuration of sources, whatever they   *)
(* report, every number of alarms and every limit: what the metrics, the      *)
(* alarms and the texts of GET /v1/energy say of the telemetry.               *)
EXTENDS Energy, SharedProofs, FiniteSetTheorems

(* The reports are state functions, so what they keep true follows from what  *)
(* is invariant of the readings: their types, that they agree with the        *)
(* snapshot, and that the configuration is the one that was parsed.           *)

Configured == cfg \in Configs
EnergyInv == TypeInv /\ ReadingsAgree /\ Configured

\* What feeds the energy report is telemetry of Shared.
LEMMA EnergyStepIsShared ==
  Configured /\ [EnergyNext]_energyVars => Configured' /\ [SharedNext]_sharedVars
<1> SUFFICES ASSUME Configured, [EnergyNext]_energyVars
             PROVE  Configured' /\ [SharedNext]_sharedVars
  OBVIOUS
<1>1. Configured'
  BY DEF Configured, EnergyNext, energyVars
<1>2. Used \subseteq Leaves
  <2>1. cfg \in [SourceLists -> Seq(Leaves)]
    BY EnergyAssumption DEF Configured
  <2> QED
    BY <2>1 DEF Used, ToSet
<1>3. ASSUME NEW l \in Used, NEW v \in Offered[l] \cup {Null}, Update(l, v) PROVE SharedNext
  <2>1. l \in Leaves /\ v \in Values \cup {Null}
    BY <1>2, EnergyAssumption
  <2> QED
    BY <1>3, <2>1 DEF SharedNext
<1>4. ASSUME NEW d \in {Device(l) : l \in Used}, RemoveDevice(d) PROVE SharedNext
  BY <1>2, <1>4 DEF SharedNext
<1>5. Connect \/ Disconnect \/ Tick => SharedNext
  BY DEF SharedNext
<1>6. UNCHANGED energyVars => UNCHANGED sharedVars
  BY DEF energyVars
<1> QED
  BY <1>1, <1>3, <1>4, <1>5, <1>6 DEF EnergyNext

\* So the energy report reads what Shared keeps.
LEMMA EnergyInvariant == EnergySpec => []EnergyInv
<1>1. EnergyInit => SharedInit /\ Configured
  BY DEF EnergyInit, Configured
<1>2. SharedSpec => []TypeInv
  BY InitTyped, StepTyped, PTL DEF SharedSpec
<1>3. EnergySpec => SharedSpec /\ []Configured
  BY <1>1, EnergyStepIsShared, PTL DEF EnergySpec, SharedSpec
<1> QED
  BY <1>2, <1>3, CachesAgree, PTL DEF EnergyInv

-----------------------------------------------------------------------------
(* What MapThenSumSet computes of the values shown: it picks the elements of  *)
(* a finite set in some order, and the order does not matter.                 *)

SumFold == INSTANCE FoldFacts WITH Op <- Plus, Base <- 0

PickOne(s) == CHOOSE x \in s : TRUE
SumOf(S) == MapThenSumSet(Shown, S)
AddUp(g, s) == IF s = {} THEN 0 ELSE Shown(PickOne(s)) + g[s \ {PickOne(s)}]
AddsUp(g, S) == g = [s \in SUBSET S |-> AddUp(g, s)]

\* Without the element picked, a set is smaller by one.
LEMMA PickedApart ==
  ASSUME NEW S, IsFiniteSet(S), S # {}
  PROVE  /\ PickOne(S) \in S /\ IsFiniteSet(S \ {PickOne(S)})
         /\ Cardinality(S) \in Nat \ {0}
         /\ Cardinality(S \ {PickOne(S)}) = Cardinality(S) - 1
<1>1. PickOne(S) \in S
  BY DEF PickOne
<1>2. Cardinality(S) \in Nat /\ Cardinality(S) # 0
  BY FS_CardinalityType, FS_EmptySet
<1> HIDE DEF PickOne
<1> QED
  BY <1>1, <1>2, FS_RemoveElement

\* The recursion of the sum has a solution.
LEMMA AddsUpExists ==
  ASSUME NEW S, IsFiniteSet(S)
  PROVE  \E g : AddsUp(g, S)
<1> DEFINE Upto(g, n) == \A s \in SUBSET S : Cardinality(s) <= n => g[s] = AddUp(g, s)
           P == {n \in Nat : \E g : Upto(g, n)}
<1>0. \A s \in SUBSET S : IsFiniteSet(s) /\ Cardinality(s) \in Nat /\ Cardinality(s) <= Cardinality(S)
  BY FS_Subset, FS_CardinalityType
<1>1. 0 \in P
  <2> DEFINE g == [s \in SUBSET S |-> 0]
  <2>1. ASSUME NEW s \in SUBSET S, Cardinality(s) <= 0 PROVE g[s] = AddUp(g, s)
    <3>1. s = {}
      BY <1>0, <2>1, FS_EmptySet
    <3> QED
      BY <3>1 DEF AddUp
  <2> HIDE DEF g
  <2> QED
    BY <2>1
<1>2. ASSUME NEW n \in Nat, n \in P PROVE n + 1 \in P
  <2>1. PICK g : Upto(g, n)
    BY <1>2
  <2> DEFINE h == [s \in SUBSET S |-> IF Cardinality(s) <= n THEN g[s] ELSE AddUp(g, s)]
  <2>2. ASSUME NEW s \in SUBSET S, Cardinality(s) <= n + 1 PROVE h[s] = AddUp(h, s)
    <3>1. h[s] = AddUp(g, s)
      BY <2>1
    <3>2. CASE s = {}
      BY <3>1, <3>2 DEF AddUp
    <3>3. CASE s # {}
      <4> DEFINE t == s \ {PickOne(s)}
      <4>1. t \in SUBSET S /\ Cardinality(t) <= n
        BY <1>0, <2>2, <3>3, PickedApart
      <4>2. h[t] = g[t]
        <5> HIDE DEF t
        <5> QED
          BY <4>1
      <4> HIDE DEF h
      <4> QED
        BY <3>1, <3>3, <4>2 DEF AddUp
    <3> QED
      BY <3>2, <3>3
  <2> HIDE DEF h
  <2> QED
    BY <2>2
<1> HIDE DEF P
<1>3. Cardinality(S) \in P
  BY <1>0, <1>1, <1>2, SumFold!NatSetInduction, FS_CardinalityType
<1>4. PICK g : Upto(g, Cardinality(S))
  BY <1>3 DEF P
<1> DEFINE f == [s \in SUBSET S |-> g[s]]
<1>5. ASSUME NEW s \in SUBSET S PROVE f[s] = AddUp(f, s)
  <2>1. f[s] = AddUp(g, s)
    BY <1>0, <1>4
  <2>2. s # {} => f[s \ {PickOne(s)}] = g[s \ {PickOne(s)}]
    OBVIOUS
  <2> HIDE DEF f
  <2> QED
    BY <2>1, <2>2 DEF AddUp
<1>6. f = [s \in SUBSET S |-> f[s]]
  OBVIOUS
<1> HIDE DEF f
<1> QED
  BY <1>5, <1>6 DEF AddsUp

\* Sums over a set and over a part of it add the part up alike.
LEMMA AddsUpIsUnique ==
  ASSUME NEW S, IsFiniteSet(S), NEW T \in SUBSET S, NEW g, NEW h, AddsUp(g, S), AddsUp(h, T)
  PROVE  g[T] = h[T]
<1> DEFINE P == {n \in Nat : \A s \in SUBSET T : Cardinality(s) <= n => g[s] = h[s]}
<1>0. \A s \in SUBSET T : IsFiniteSet(s) /\ Cardinality(s) \in Nat /\ s \in SUBSET S
  BY FS_Subset, FS_CardinalityType
<1>1. \A s \in SUBSET T : g[s] = AddUp(g, s) /\ h[s] = AddUp(h, s)
  BY <1>0 DEF AddsUp
<1>2. 0 \in P
  <2> SUFFICES ASSUME NEW s \in SUBSET T, Cardinality(s) <= 0 PROVE g[s] = h[s]
    OBVIOUS
  <2>1. s = {}
    BY <1>0, FS_EmptySet
  <2> QED
    BY <1>1, <2>1 DEF AddUp
<1>3. ASSUME NEW n \in Nat, n \in P PROVE n + 1 \in P
  <2> SUFFICES ASSUME NEW s \in SUBSET T, Cardinality(s) <= n + 1 PROVE g[s] = h[s]
    OBVIOUS
  <2>1. CASE s = {}
    BY <1>1, <2>1 DEF AddUp
  <2>2. CASE s # {}
    <3>1. s \ {PickOne(s)} \in SUBSET T /\ Cardinality(s \ {PickOne(s)}) <= n
      BY <1>0, <2>2, PickedApart
    <3>2. g[s \ {PickOne(s)}] = h[s \ {PickOne(s)}]
      BY <1>3, <3>1
    <3> QED
      BY <1>1, <2>2, <3>2 DEF AddUp
  <2> QED
    BY <2>1, <2>2
<1> HIDE DEF P
<1>4. Cardinality(T) \in P
  BY <1>0, <1>2, <1>3, SumFold!NatSetInduction
<1> QED
  BY <1>0, <1>4 DEF P

\* The sum of a set is the sum of what is left and the element picked.
LEMMA SumStep ==
  ASSUME NEW S, IsFiniteSet(S)
  PROVE  SumOf(S) = IF S = {} THEN 0 ELSE Shown(PickOne(S)) + SumOf(S \ {PickOne(S)})
<1> DEFINE iter(T) == CHOOSE g : g = [s \in SUBSET T |-> AddUp(g, s)]
<1>1. \A T : SumOf(T) = iter(T)[T]
  BY DEF SumOf, MapThenSumSet, MapThenFoldSet, AddUp, PickOne
<1>2. ASSUME NEW T, IsFiniteSet(T) PROVE AddsUp(iter(T), T)
  BY <1>2, AddsUpExists DEF AddsUp
<1> DEFINE R == S \ {PickOne(S)}
<1>3. IsFiniteSet(R) /\ R \in SUBSET S
  BY FS_Subset
<1>4. AddsUp(iter(S), S) /\ AddsUp(iter(R), R)
  <2> HIDE DEF iter, R
  <2> QED
    BY <1>2, <1>3
<1>5. iter(S)[R] = iter(R)[R]
  <2> HIDE DEF iter, R
  <2> QED
    BY <1>3, <1>4, AddsUpIsUnique
<1>6. iter(S)[S] = AddUp(iter(S), S)
  <2> HIDE DEF iter
  <2> QED
    BY <1>4 DEF AddsUp
<1> HIDE DEF iter
<1> QED
  BY <1>1, <1>5, <1>6 DEF AddUp

\* Nothing adds up to zero.
LEMMA SumOfNone == SumOf({}) = 0
BY SumStep, FS_EmptySet

\* Any element may be taken out of the sum of a finite set.
LEMMA SumWithout ==
  ASSUME NEW S, IsFiniteSet(S), \A x \in S : Shown(x) \in Int
  PROVE  SumOf(S) \in Int /\ \A x \in S : SumOf(S) = Shown(x) + SumOf(S \ {x})
<1> DEFINE Sound(T) == SumOf(T) \in Int /\ \A x \in T : SumOf(T) = Shown(x) + SumOf(T \ {x})
           P == {n \in Nat : \A T \in SUBSET S : Cardinality(T) <= n => Sound(T)}
<1>0. \A T \in SUBSET S : IsFiniteSet(T) /\ Cardinality(T) \in Nat
  BY FS_Subset, FS_CardinalityType
<1>1. 0 \in P
  <2> SUFFICES ASSUME NEW T \in SUBSET S, Cardinality(T) <= 0 PROVE Sound(T)
    OBVIOUS
  <2>1. T = {}
    BY <1>0, FS_EmptySet
  <2> QED
    BY <2>1, SumOfNone
<1>2. ASSUME NEW n \in Nat, n \in P PROVE n + 1 \in P
  <2> SUFFICES ASSUME NEW T \in SUBSET S, Cardinality(T) <= n + 1 PROVE Sound(T)
    OBVIOUS
  <2> DEFINE c == PickOne(T)
  <2>1. SUFFICES ASSUME T # {} PROVE Sound(T)
    BY <1>0, SumStep
  <2>2. c \in T /\ Shown(c) \in Int
    BY <1>0, <2>1, PickedApart
  <2>3. SumOf(T) = Shown(c) + SumOf(T \ {c})
    BY <1>0, <2>1, SumStep
  <2>4. ASSUME NEW x \in T PROVE T \ {x} \in SUBSET S /\ Cardinality(T \ {x}) <= n
    <3>1. IsFiniteSet(T) /\ Cardinality(T) \in Nat
      BY <1>0
    <3>2. Cardinality(T \ {x}) = Cardinality(T) - 1
      BY <3>1, FS_RemoveElement
    <3> QED
      BY <3>1, <3>2
  <2> HIDE DEF c
  <2>5. \A x \in T : Sound(T \ {x})
    BY <1>2, <2>4
  <2>6. SumOf(T) \in Int
    BY <2>2, <2>3, <2>5
  <2>7. ASSUME NEW x \in T PROVE SumOf(T) = Shown(x) + SumOf(T \ {x})
    <3>1. CASE x = c
      BY <2>3, <3>1
    <3>2. CASE x # c
      <4> DEFINE U == T \ {x, c}
      <4>1. (T \ {c}) \ {x} = U /\ (T \ {x}) \ {c} = U /\ x \in T \ {c} /\ c \in T \ {x}
        BY <2>2, <3>2
      <4>2. SumOf(T \ {c}) = Shown(x) + SumOf(U)
        BY <2>2, <2>5, <4>1
      <4>3. SumOf(T \ {x}) = Shown(c) + SumOf(U)
        BY <2>5, <4>1
      <4>4. SumOf(U) \in Int
        <5>1. U \in SUBSET (T \ {x}) /\ T \ {x} \in SUBSET S /\ IsFiniteSet(T \ {x})
          BY <1>0, <2>4
        <5>2. Cardinality(U) <= Cardinality(T \ {x}) /\ U \in SUBSET S
          BY <5>1, FS_Subset
        <5>3. Cardinality(U) \in Nat /\ Cardinality(T \ {x}) \in Nat
          BY <1>0, <5>1, <5>2
        <5>4. Cardinality(U) <= n
          BY <2>4, <5>2, <5>3
        <5> HIDE DEF U
        <5> QED
          BY <1>2, <5>2, <5>4
      <4> HIDE DEF U
      <4> QED
        BY <2>2, <2>3, <4>2, <4>3, <4>4
    <3> QED
      BY <3>1, <3>2
  <2> QED
    BY <2>6, <2>7
<1> HIDE DEF P
<1>3. Cardinality(S) \in P
  BY <1>0, <1>1, <1>2, SumFold!NatSetInduction
<1> QED
  BY <1>3 DEF P

\* The running sums of collect_metric, as a fold.
LEMMA SumIsFold ==
  ASSUME NEW s
  PROVE  SumFold!Folded(s) = Sum(s)
BY DEF Sum, SumFold!Folded, FoldLeft, SumFold!FoldLeft, MapThenFoldSet, SumFold!MapThenFoldSet,
       Max, SumFold!Max

\* The sum of the first values of a list is the sum over its first sources.
LEMMA PrefixSum ==
  ASSUME NEW seq \in Seq(Leaves), \A i, j \in DOMAIN seq : seq[i] = seq[j] => i = j,
         \A i \in DOMAIN seq : Shown(seq[i]) \in Int,
         NEW values, values = [i \in DOMAIN seq |-> Shown(seq[i])],
         NEW n \in 0 .. Len(seq)
  PROVE  Sum(SubSeq(values, 1, n)) = SumOf({seq[i] : i \in 1 .. n})
<1> DEFINE firsts(k) == {seq[i] : i \in 1 .. k}
           P == {k \in Nat : k <= Len(seq) => Sum(SubSeq(values, 1, k)) = SumOf(firsts(k))}
<1>0. values \in Seq(Int) /\ Len(values) = Len(seq) /\ Len(seq) \in Nat
  OBVIOUS
<1>1. 0 \in P
  <2>1. SubSeq(values, 1, 0) = <<>> /\ firsts(0) = {}
    BY <1>0
  <2>2. Sum(<<>>) = 0
    BY SumFold!FoldOfNone, SumIsFold
  <2>3. Sum(SubSeq(values, 1, 0)) = SumOf(firsts(0))
    <3> HIDE DEF firsts
    <3> QED
      BY <2>1, <2>2, SumOfNone
  <2> QED
    BY <2>3
<1>2. ASSUME NEW k \in Nat, k \in P PROVE k + 1 \in P
  <2> SUFFICES ASSUME k + 1 <= Len(seq)
               PROVE  Sum(SubSeq(values, 1, k + 1)) = SumOf(firsts(k + 1))
    OBVIOUS
  <2> DEFINE part == SubSeq(values, 1, k)
             v == values[k + 1]
             l == seq[k + 1]
             old == firsts(k)
             new == firsts(k + 1)
  <2>0. k \in 0 .. Len(values) /\ k \in 0 .. Len(values) - 1 /\ k + 1 \in DOMAIN seq
    BY <1>0
  <2>1. part \in Seq(Int) /\ SubSeq(values, 1, k + 1) = Append(part, v) /\ v \in Int
    <3>1. v \in Int
      BY <2>0
    <3>2. part \in Seq(Int) /\ SubSeq(values, 1, k + 1) = Append(part, v)
      BY <1>0, <2>0, SumFold!PrefixesGrow
    <3> QED
      BY <3>1, <3>2
  <2>2. Sum(Append(part, v)) = Sum(part) + v
    <3>1. SumFold!Folded(Append(part, v)) = Plus(SumFold!Folded(part), v)
      <4> HIDE DEF part, v
      <4> QED
        BY <2>1, SumFold!FoldOfAppend
    <3> QED
      BY <3>1, SumIsFold DEF Plus
  <2>3. /\ v = Shown(l) /\ l \in new /\ new \ {l} = old
        /\ \A x \in new : Shown(x) \in Int
    <3>1. v = Shown(l)
      BY <2>0
    <3>2. \A i \in 1 .. (k + 1) : i \in DOMAIN seq /\ (i = k + 1 \/ i \in 1 .. k)
      BY <1>0
    <3>3. k + 1 \in 1 .. (k + 1) /\ k + 1 \notin 1 .. k /\ \A i \in 1 .. k : i \in 1 .. (k + 1)
      OBVIOUS
    <3>4. \A i \in 1 .. k : seq[i] # l
      BY <2>0, <3>2, <3>3
    <3> QED
      BY <3>1, <3>2, <3>3, <3>4
  <2>4. IsFiniteSet(new)
    <3>1. IsFiniteSet(1 .. (k + 1))
      BY FS_Interval
    <3> DEFINE f == [i \in 1 .. (k + 1) |-> seq[i]]
    <3>2. new = {f[i] : i \in 1 .. (k + 1)} /\ DOMAIN f = 1 .. (k + 1)
      OBVIOUS
    <3>3. f \in [1 .. (k + 1) -> new] /\ f \in Surjection(1 .. (k + 1), new)
      BY DEF Surjection
    <3> HIDE DEF f, new
    <3> QED
      BY <3>1, <3>3, FS_Surjection
  <2>5. SumOf(new) = Shown(l) + SumOf(old) /\ SumOf(old) \in Int /\ Shown(l) \in Int
    <3> HIDE DEF new, old, l
    <3>1. SumOf(new) = Shown(l) + SumOf(new \ {l})
      BY <2>3, <2>4, SumWithout
    <3>2. IsFiniteSet(old) /\ \A x \in old : Shown(x) \in Int
      BY <2>3, <2>4, FS_Subset
    <3> QED
      BY <2>3, <3>1, <3>2, SumWithout
  <2>6. Sum(part) = SumOf(old)
    BY <1>2
  <2> HIDE DEF part, v, l, old, new
  <2>7. Sum(SubSeq(values, 1, k + 1)) = SumOf(new)
    <3>1. Sum(SubSeq(values, 1, k + 1)) = Sum(part) + v
      BY <2>1, <2>2, Zenon
    <3>2. SumOf(old) + Shown(l) = Shown(l) + SumOf(old)
      BY <2>5
    <3> QED
      BY <2>3, <2>5, <2>6, <3>1, <3>2, Zenon
  <2> QED
    BY <2>7 DEF new
<1> HIDE DEF P
<1>3. n \in P
  BY <1>1, <1>2, SumFold!NatSetInduction
<1> QED
  BY <1>3 DEF P

-----------------------------------------------------------------------------
(* The readings *)

\* The configured lists name leaves, each once.
LEMMA SourceFacts ==
  ASSUME EnergyInv, NEW name \in SourceLists
  PROVE  /\ Sources(name) \in Seq(Leaves)
         /\ \A i, j \in DOMAIN Sources(name) : Sources(name)[i] = Sources(name)[j] => i = j
         /\ ToSet(Sources(name)) \subseteq Leaves
         /\ ToSet(Sources(name)) = {} <=> Sources(name) = <<>>
<1>1. cfg \in [SourceLists -> Seq(Leaves)]
  BY EnergyAssumption DEF EnergyInv, Configured
<1>2. Sources(name) \in Seq(Leaves)
  BY <1>1 DEF Sources
<1>3. \A i, j \in DOMAIN Sources(name) : Sources(name)[i] = Sources(name)[j] => i = j
  BY EnergyAssumption DEF EnergyInv, Configured, Sources
<1> QED
  BY <1>2, <1>3 DEF ToSet

\* What a present reading holds, and where the dashboard shows it.
LEMMA ReadingFacts ==
  ASSUME EnergyInv, NEW l \in Leaves
  PROVE  /\ Present(l) <=> IsShown(l)
         /\ Present(l) => Value(l) = Shown(l) /\ Value(l) \in Int \cup {Text}
                          /\ Age(l) \in 0 .. MaxAge + 1
<1>1. readings \in [Leaves -> (Values \X Ages(MaxAge)) \cup {Absent}]
  BY EnergyAssumption DEF EnergyInv, TypeInv, SharedTypeOK, CacheTypeOK
<1>2. Present(l) <=> IsShown(l)
  BY EnergyAssumption DEF EnergyInv, ReadingsAgree, Present, IsShown, Shown
<1>3. ASSUME Present(l)
      PROVE  Value(l) = Shown(l) /\ Value(l) \in Int \cup {Text} /\ Age(l) \in 0 .. MaxAge + 1
  <2>1. Value(l) = Shown(l)
    BY <1>3, EnergyAssumption DEF EnergyInv, ReadingsAgree, Present, Value, Shown
  <2>2. Value(l) \in Values /\ Age(l) \in Ages(MaxAge)
    BY <1>1, <1>3 DEF Present, Value, Age
  <2> QED
    BY <2>1, <2>2, EnergyAssumption DEF Ages
<1> QED
  BY <1>2, <1>3

\* A valid reading is a number.
LEMMA ValidIsNumber ==
  ASSUME EnergyInv, NEW l \in Leaves, NEW name, Present(l), Valid(Value(l), name)
  PROVE  Value(l) \in Int
BY ReadingFacts DEF Valid

\* The largest of some numbers is one of them.
LEMMA MaxOfSome ==
  ASSUME NEW n \in Nat, NEW S \in SUBSET (0 .. n), S # {}
  PROVE  Max(S) \in S /\ \A y \in S : Max(S) >= y
<1> DEFINE T == S \ {0}
<1>1. \E x \in S : \A y \in S : x >= y
  <2>1. CASE T = {}
    <3>1. 0 \in S /\ \A y \in S : y = 0
      BY <2>1
    <3> QED
      BY <3>1
  <2>2. CASE T # {}
    <3>1. T \in SUBSET (1 .. n)
      OBVIOUS
    <3> DEFINE m == SumFold!Max(T)
    <3>2. m \in T /\ \A y \in T : m >= y
      <4> HIDE DEF T
      <4> QED
        BY <2>2, <3>1, SumFold!MaxExists
    <3> HIDE DEF m
    <3>3. m \in S /\ m >= 0 /\ \A y \in S : m >= y
      BY <3>2
    <3> QED
      BY <3>3
  <2> QED
    BY <2>1, <2>2
<1> QED
  BY <1>1 DEF Max

\* The oldest reading is too old exactly when one of them is.
LEMMA OldestFacts ==
  ASSUME EnergyInv, NEW sources, ToSet(sources) \subseteq Leaves
  PROVE  /\ Oldest(sources) \in Nat
         /\ Oldest(sources) <= MaxAge <=>
              \A l \in ToSet(sources) : Present(l) => Age(l) <= MaxAge
<1> DEFINE ages == {Age(l) : l \in {k \in ToSet(sources) : Present(k)}}
           all == {0} \cup ages
<1>1. MaxAge \in Nat /\ MaxAge + 1 \in Nat
  BY SharedAssumption
<1>2. ages \in SUBSET (0 .. MaxAge + 1)
  BY ReadingFacts
<1>3. all \in SUBSET (0 .. MaxAge + 1) /\ all # {} /\ 0 \in all
  <2> HIDE DEF ages
  <2> QED
    BY <1>1, <1>2
<1>4. Oldest(sources) = Max(all)
  BY DEF Oldest
<1>5. Max(all) \in all /\ \A y \in all : Max(all) >= y
  <2> HIDE DEF all
  <2> QED
    BY <1>1, <1>3, MaxOfSome
<1> DEFINE m == Max(all)
<1>6. m \in Nat /\ (m <= MaxAge <=> \A y \in all : y <= MaxAge)
  <2>1. m \in all /\ \A y \in all : m >= y
    BY <1>5
  <2> HIDE DEF all, m
  <2> QED
    BY <1>1, <1>3, <2>1
<1>7. (\A y \in all : y <= MaxAge) <=> \A y \in ages : y <= MaxAge
  <2>1. 0 <= MaxAge
    BY <1>1
  <2>2. \A y : y \in all <=> y = 0 \/ y \in ages
    OBVIOUS
  <2> HIDE DEF ages, all
  <2> QED
    BY <2>1, <2>2
<1>8. (\A y \in ages : y <= MaxAge) <=> \A l \in ToSet(sources) : Present(l) => Age(l) <= MaxAge
  OBVIOUS
<1> HIDE DEF all, ages, m
<1> QED
  BY <1>4, <1>6, <1>7, <1>8 DEF m

-----------------------------------------------------------------------------
(* The metrics *)

Complete(name) == \A l \in ToSet(Sources(name)) : Present(l)
ValuesOf(name) == [i \in DOMAIN Sources(name) |-> Value(Sources(name)[i])]
SoundSum(name) ==
  /\ Complete(name)
  /\ \A l \in ToSet(Sources(name)) : Valid(Value(l), name)
  /\ Finite(ValuesOf(name))
IsFresh(name) ==
  /\ Sources(name) # <<>> /\ connected /\ SoundSum(name)
  /\ ~(Oldest(Sources(name)) > MaxAge)

Statuses == {"fresh", "stale", "unavailable", "unconfigured"}

\* The early returns of collect_metric.
LEMMA MetricCases ==
  ASSUME NEW name
  PROVE  LET metric == CollectMetric(name) IN
         /\ metric.status \in Statuses
         /\ IsFresh(name) => metric.status = "fresh" /\ metric.value = Sum(ValuesOf(name))
         /\ ~IsFresh(name) => metric.status # "fresh" /\ metric.value = Null
<1> DEFINE metric == CollectMetric(name)
           aged == [NoValue EXCEPT !.age = IF Complete(name) THEN Oldest(Sources(name)) ELSE Null]
           old == Oldest(Sources(name)) > MaxAge
<1>0. metric = IF Sources(name) = <<>> THEN [NoValue EXCEPT !.status = "unconfigured"]
               ELSE IF ~connected THEN NoValue
               ELSE IF ~SoundSum(name) THEN aged
               ELSE IF old THEN [aged EXCEPT !.status = "stale"]
               ELSE [aged EXCEPT !.value = Sum(ValuesOf(name)), !.status = "fresh"]
  BY Zenon DEF CollectMetric, SoundSum, Complete, ValuesOf
<1>1. /\ aged.value = Null /\ aged.status = "unavailable"
      /\ NoValue.value = Null /\ NoValue.status = "unavailable"
  BY DEF NoValue
<1>2. [NoValue EXCEPT !.status = "unconfigured"].status = "unconfigured"
      /\ [NoValue EXCEPT !.status = "unconfigured"].value = Null
  BY DEF NoValue
<1>3. [aged EXCEPT !.status = "stale"].status = "stale"
      /\ [aged EXCEPT !.status = "stale"].value = Null
  BY DEF NoValue
<1>4. [aged EXCEPT !.value = Sum(ValuesOf(name)), !.status = "fresh"].status = "fresh"
      /\ [aged EXCEPT !.value = Sum(ValuesOf(name)), !.status = "fresh"].value = Sum(ValuesOf(name))
  BY DEF NoValue
<1>5. IsFresh(name) <=> Sources(name) # <<>> /\ connected /\ SoundSum(name) /\ ~old
  BY DEF IsFresh
<1> HIDE DEF metric, aged, old
<1>6. CASE Sources(name) = <<>>
  <2>1. metric.status = "unconfigured" /\ metric.value = Null /\ ~IsFresh(name)
    BY <1>0, <1>2, <1>5, <1>6
  <2> QED
    BY <2>1 DEF metric, Statuses
<1>7. CASE Sources(name) # <<>> /\ (~connected \/ ~SoundSum(name))
  <2>1. metric.status = "unavailable" /\ metric.value = Null /\ ~IsFresh(name)
    BY <1>0, <1>1, <1>5, <1>7
  <2> QED
    BY <2>1 DEF metric, Statuses
<1>8. CASE Sources(name) # <<>> /\ connected /\ SoundSum(name) /\ old
  <2>1. metric.status = "stale" /\ metric.value = Null /\ ~IsFresh(name)
    BY <1>0, <1>3, <1>5, <1>8
  <2> QED
    BY <2>1 DEF metric, Statuses
<1>9. CASE Sources(name) # <<>> /\ connected /\ SoundSum(name) /\ ~old
  <2>1. metric.status = "fresh" /\ metric.value = Sum(ValuesOf(name)) /\ IsFresh(name)
    BY <1>0, <1>4, <1>5, <1>9
  <2> QED
    BY <2>1 DEF metric, Statuses
<1> QED
  BY <1>6, <1>7, <1>8, <1>9

\* The sources of a sum that collect_metric may take are numbers as shown, and
\* its running sums are the sums over the first of them.
LEMMA RunningSums ==
  ASSUME EnergyInv, NEW name \in SourceLists, Complete(name),
         \A l \in ToSet(Sources(name)) : Valid(Value(l), name)
  PROVE  /\ \A n \in 0 .. Len(ValuesOf(name)) :
              Sum(SubSeq(ValuesOf(name), 1, n)) = SumOf({Sources(name)[i] : i \in 1 .. n})
         /\ Len(ValuesOf(name)) = Len(Sources(name))
         /\ Sum(ValuesOf(name)) = SumOf(ToSet(Sources(name)))
         /\ Sum(ValuesOf(name)) \in Int
<1> DEFINE seq == Sources(name)
           values == ValuesOf(name)
<1>1. seq \in Seq(Leaves) /\ \A i, j \in DOMAIN seq : seq[i] = seq[j] => i = j
  BY SourceFacts
<1>2. \A i \in DOMAIN seq : seq[i] \in ToSet(seq) /\ seq[i] \in Leaves
  BY <1>1 DEF ToSet
<1>3. \A l \in ToSet(seq) : l \in Leaves /\ Value(l) = Shown(l) /\ Value(l) \in Int
  BY SourceFacts, ReadingFacts, ValidIsNumber DEF Complete
<1>4. values = [i \in DOMAIN seq |-> Shown(seq[i])] /\ \A i \in DOMAIN seq : Shown(seq[i]) \in Int
  BY <1>2, <1>3 DEF ValuesOf
<1>5. Len(values) = Len(seq) /\ values \in Seq(Int) /\ Len(seq) \in Nat
  <2> HIDE DEF values
  <2> QED
    BY <1>1, <1>4
<1> HIDE DEF seq, values
<1>6. \A n \in 0 .. Len(values) : Sum(SubSeq(values, 1, n)) = SumOf({seq[i] : i \in 1 .. n})
  BY <1>1, <1>4, <1>5, PrefixSum
<1>7. SubSeq(values, 1, Len(values)) = values
  BY <1>5
<1>8. {seq[i] : i \in 1 .. Len(values)} = ToSet(seq)
  BY <1>1, <1>5 DEF ToSet
<1>9. Sum(values) = SumOf(ToSet(seq))
  <2>1. Len(values) \in 0 .. Len(values)
    BY <1>5
  <2>2. Sum(SubSeq(values, 1, Len(values))) = SumOf({seq[i] : i \in 1 .. Len(values)})
    BY <1>6, <2>1
  <2> QED
    BY <1>7, <1>8, <2>2, Zenon
<1>10. SumOf(ToSet(seq)) \in Int
  <2>1. \A l \in ToSet(seq) : Shown(l) \in Int
    BY <1>3
  <2>2. IsFiniteSet(ToSet(seq))
    <3>1. DOMAIN seq = 1 .. Len(seq) /\ IsFiniteSet(1 .. Len(seq))
      BY <1>1, <1>5, FS_Interval
    <3>2. seq \in Surjection(1 .. Len(seq), ToSet(seq))
      BY <1>1, <3>1 DEF Surjection, ToSet
    <3> QED
      BY <3>1, <3>2, FS_Surjection
  <2> QED
    BY <2>1, <2>2, SumWithout
<1> QED
  BY <1>5, <1>6, <1>9, <1>10 DEF seq, values

\* A metric is a finite sum of all its sources as they are shown, or no number,
\* in every state of the telemetry, for any lists of sources.
LEMMA MetricIsWhole ==
  ASSUME EnergyInv
  PROVE  WholeOrNothing
<1> SUFFICES
      ASSUME NEW name \in MetricNames
      PROVE  LET metric  == CollectMetric(name)
                 sources == ToSet(Sources(name))
                 good    == /\ connected /\ sources # {}
                            /\ \A l \in sources : IsShown(l) /\ Valid(Shown(l), name) /\ Recent(l)
                 total   == SumOf(sources)
             IN  /\ metric.value # Null <=> metric.status = "fresh"
                 /\ metric.status = "fresh" =>
                      good /\ metric.value = total /\ total \in -MaxFinite .. MaxFinite
                 /\ good /\ metric.status # "fresh" =>
                      \E some \in SUBSET sources : SumOf(some) \notin -MaxFinite .. MaxFinite
  BY DEF WholeOrNothing, SumOf
<1> DEFINE metric == CollectMetric(name)
           seq == Sources(name)
           sources == ToSet(seq)
           values == ValuesOf(name)
           good == /\ connected /\ sources # {}
                   /\ \A l \in sources : IsShown(l) /\ Valid(Shown(l), name) /\ Recent(l)
           valid == \A l \in sources : Valid(Value(l), name)
           young == \A l \in sources : Present(l) => Age(l) <= MaxAge
<1>1. /\ name \in SourceLists /\ sources \subseteq Leaves /\ (sources = {} <=> seq = <<>>)
      /\ seq \in Seq(Leaves)
  BY SourceFacts DEF SourceLists
<1>2. ~(Oldest(seq) > MaxAge) <=> young
  <2>1. Oldest(seq) \in Nat /\ MaxAge \in Nat /\ (Oldest(seq) <= MaxAge <=> young)
    BY <1>1, OldestFacts, SharedAssumption
  <2> HIDE DEF young, seq
  <2> QED
    BY <2>1
<1>3. /\ IsFresh(name) => metric.status = "fresh" /\ metric.value = Sum(values)
      /\ ~IsFresh(name) => metric.status # "fresh" /\ metric.value = Null
  BY MetricCases
<1>4. \A l \in sources : (Present(l) <=> IsShown(l)) /\ (Present(l) => Value(l) = Shown(l))
  BY <1>1, ReadingFacts
<1>5. good <=> connected /\ seq # <<>> /\ Complete(name) /\ valid /\ young
  BY <1>1, <1>4 DEF Complete, Recent
<1>6. IsFresh(name) <=> good /\ Finite(values)
  <2> HIDE DEF good
  <2> QED
    BY <1>2, <1>5 DEF IsFresh, SoundSum
<1>7. ASSUME good
      PROVE  /\ \A n \in 0 .. Len(values) :
                  Sum(SubSeq(values, 1, n)) = SumOf({seq[i] : i \in 1 .. n})
             /\ Len(values) = Len(seq) /\ Len(seq) \in Nat
             /\ Sum(values) = SumOf(sources) /\ Sum(values) \in Int
  <2>1. Complete(name) /\ valid
    BY <1>5, <1>7
  <2>2. Len(seq) \in Nat
    BY <1>1
  <2> QED
    BY <1>1, <2>1, <2>2, RunningSums
<1> HIDE DEF good, metric, seq, sources, values
<1>8. metric.value # Null <=> metric.status = "fresh"
  <2>1. CASE IsFresh(name)
    <3>1. Sum(values) \in Int
      BY <1>6, <1>7, <2>1
    <3> QED
      BY <1>3, <2>1, <3>1, EnergyAssumption
  <2>2. CASE ~IsFresh(name)
    BY <1>3, <2>2
  <2> QED
    BY <2>1, <2>2
<1>9. ASSUME metric.status = "fresh"
      PROVE  good /\ metric.value = SumOf(sources) /\ SumOf(sources) \in -MaxFinite .. MaxFinite
  <2>1. good /\ Finite(values) /\ metric.value = Sum(values)
    BY <1>3, <1>6, <1>9
  <2>2. Len(values) \in 0 .. Len(values) /\ {seq[i] : i \in 1 .. Len(values)} = sources
    <3>1. Len(values) = Len(seq) /\ Len(seq) \in Nat
      BY <1>7, <2>1
    <3> QED
      BY <1>1, <3>1 DEF sources, ToSet
  <2>3. Sum(SubSeq(values, 1, Len(values))) \in -MaxFinite .. MaxFinite
    BY <2>1, <2>2 DEF Finite
  <2>4. SumOf({seq[i] : i \in 1 .. Len(values)}) \in -MaxFinite .. MaxFinite
    BY <1>7, <2>1, <2>2, <2>3
  <2> QED
    BY <1>7, <2>1, <2>2, <2>4
<1>10. ASSUME good, metric.status # "fresh"
       PROVE  \E some \in SUBSET sources : SumOf(some) \notin -MaxFinite .. MaxFinite
  <2>1. ~Finite(values)
    BY <1>3, <1>6, <1>10
  <2>2. PICK n \in 0 .. Len(values) : Sum(SubSeq(values, 1, n)) \notin -MaxFinite .. MaxFinite
    BY <2>1 DEF Finite
  <2>3. {seq[i] : i \in 1 .. n} \in SUBSET sources
    <3>1. Len(values) = Len(seq) /\ Len(seq) \in Nat
      BY <1>7, <1>10
    <3> QED
      BY <1>1, <3>1 DEF sources, ToSet
  <2> QED
    BY <1>7, <1>10, <2>2, <2>3
<1> QED
  BY <1>8, <1>9, <1>10 DEF good, metric, seq, sources

\* A voice service is told the whole sum of a metric's sources or no number: for
\* any configuration, any readings, and telemetry that comes, goes and ages in
\* any order (collect_metric over the maps that Shared maintains).
THEOREM MetricsAreWhole == EnergySpec => []WholeOrNothing
<1>1. EnergyInv => WholeOrNothing
  BY MetricIsWhole
<1> QED
  BY <1>1, EnergyInvariant, PTL

-----------------------------------------------------------------------------
(* The alarms: what the filters of Alarms::build and Alarms::report keep      *)

RaisedFold == INSTANCE FoldFacts WITH Op <- KeepRaised, Base <- <<>>
SevereFold == INSTANCE FoldFacts WITH Op <- KeepAlarming, Base <- <<>>
WarningFold == INSTANCE FoldFacts WITH Op <- KeepWarning, Base <- <<>>

\* A list in which no source occurs twice.
Distinct(seq) == seq \in Seq(Leaves) /\ \A i, j \in DOMAIN seq : seq[i] = seq[j] => i = j

\* A list of distinct sources is as long as they are many.
LEMMA DistinctCount ==
  ASSUME NEW seq, Distinct(seq)
  PROVE  IsFiniteSet(ToSet(seq)) /\ Cardinality(ToSet(seq)) = Len(seq) /\ Len(seq) \in Nat
<1>1. seq \in Seq(Leaves) /\ Len(seq) \in Nat /\ DOMAIN seq = 1 .. Len(seq)
  BY DEF Distinct
<1>2. IsFiniteSet(1 .. Len(seq)) /\ Cardinality(1 .. Len(seq)) = Len(seq)
  BY <1>1, FS_Interval
<1>3. seq \in [1 .. Len(seq) -> ToSet(seq)]
  BY <1>1 DEF ToSet
<1>4. seq \in Surjection(1 .. Len(seq), ToSet(seq))
  BY <1>1, <1>3 DEF Surjection, ToSet
<1>5. seq \in Injection(1 .. Len(seq), ToSet(seq))
  BY <1>1, <1>3 DEF Distinct, Injection, IsInjective
<1>6. ExistsBijection(1 .. Len(seq), ToSet(seq))
  BY <1>4, <1>5 DEF ExistsBijection, Bijection
<1> QED
  BY <1>1, <1>2, <1>6, FS_Bijection

\* The sources with a fresh alert are kept, in a list without repetition.
LEMMA RaisedFacts ==
  ASSUME NEW seq, Distinct(seq)
  PROVE  /\ Distinct(RaisedAmong(seq))
         /\ ToSet(RaisedAmong(seq)) = {l \in ToSet(seq) : Raised(l)}
<1> DEFINE S == {l \in Leaves : Raised(l)}
<1>1. RaisedFold!Folded(seq) = RaisedAmong(seq)
  BY DEF RaisedAmong, RaisedFold!Folded, FoldLeft, RaisedFold!FoldLeft, MapThenFoldSet,
         RaisedFold!MapThenFoldSet, Max, RaisedFold!Max
<1>2. \A kept \in Seq(Leaves), x \in Leaves :
        KeepRaised(kept, x) = IF x \in S THEN Append(kept, x) ELSE kept
  BY DEF KeepRaised
<1>3. \A t : RaisedFold!ToSet(t) = ToSet(t)
  BY DEF ToSet, RaisedFold!ToSet
<1>4. ToSet(seq) \subseteq Leaves
  BY DEF Distinct, ToSet
<1>5. ToSet(seq) \cap S = {l \in ToSet(seq) : Raised(l)}
  BY <1>4
<1> HIDE DEF S
<1>6. /\ RaisedFold!Folded(seq) \in Seq(Leaves)
      /\ RaisedFold!ToSet(RaisedFold!Folded(seq)) = RaisedFold!ToSet(seq) \cap S
      /\ \A i, j \in DOMAIN RaisedFold!Folded(seq) :
           RaisedFold!Folded(seq)[i] = RaisedFold!Folded(seq)[j] => i = j
  BY <1>2, RaisedFold!FoldFilters DEF Distinct
<1> QED
  BY <1>1, <1>3, <1>5, <1>6 DEF Distinct

\* So are the alarms among them,
LEMMA SevereFacts ==
  ASSUME NEW seq, Distinct(seq)
  PROVE  /\ Distinct(Severe(seq))
         /\ ToSet(Severe(seq)) = {l \in ToSet(seq) : Alarming(l)}
<1> DEFINE S == {l \in Leaves : Alarming(l)}
<1>1. SevereFold!Folded(seq) = Severe(seq)
  BY DEF Severe, SevereFold!Folded, FoldLeft, SevereFold!FoldLeft, MapThenFoldSet,
         SevereFold!MapThenFoldSet, Max, SevereFold!Max
<1>2. \A kept \in Seq(Leaves), x \in Leaves :
        KeepAlarming(kept, x) = IF x \in S THEN Append(kept, x) ELSE kept
  BY DEF KeepAlarming
<1>3. \A t : SevereFold!ToSet(t) = ToSet(t)
  BY DEF ToSet, SevereFold!ToSet
<1>4. ToSet(seq) \subseteq Leaves
  BY DEF Distinct, ToSet
<1>5. ToSet(seq) \cap S = {l \in ToSet(seq) : Alarming(l)}
  BY <1>4
<1> HIDE DEF S
<1>6. /\ SevereFold!Folded(seq) \in Seq(Leaves)
      /\ SevereFold!ToSet(SevereFold!Folded(seq)) = SevereFold!ToSet(seq) \cap S
      /\ \A i, j \in DOMAIN SevereFold!Folded(seq) :
           SevereFold!Folded(seq)[i] = SevereFold!Folded(seq)[j] => i = j
  BY <1>2, SevereFold!FoldFilters DEF Distinct
<1> QED
  BY <1>1, <1>3, <1>5, <1>6 DEF Distinct

\* and the warnings.
LEMMA WarningFacts ==
  ASSUME NEW seq, Distinct(seq)
  PROVE  /\ Distinct(Warnings(seq))
         /\ ToSet(Warnings(seq)) = {l \in ToSet(seq) : Warning(l)}
<1> DEFINE S == {l \in Leaves : Warning(l)}
<1>1. WarningFold!Folded(seq) = Warnings(seq)
  BY DEF Warnings, WarningFold!Folded, FoldLeft, WarningFold!FoldLeft, MapThenFoldSet,
         WarningFold!MapThenFoldSet, Max, WarningFold!Max
<1>2. \A kept \in Seq(Leaves), x \in Leaves :
        KeepWarning(kept, x) = IF x \in S THEN Append(kept, x) ELSE kept
  BY DEF KeepWarning
<1>3. \A t : WarningFold!ToSet(t) = ToSet(t)
  BY DEF ToSet, WarningFold!ToSet
<1>4. ToSet(seq) \subseteq Leaves
  BY DEF Distinct, ToSet
<1>5. ToSet(seq) \cap S = {l \in ToSet(seq) : Warning(l)}
  BY <1>4
<1> HIDE DEF S
<1>6. /\ WarningFold!Folded(seq) \in Seq(Leaves)
      /\ WarningFold!ToSet(WarningFold!Folded(seq)) = WarningFold!ToSet(seq) \cap S
      /\ \A i, j \in DOMAIN WarningFold!Folded(seq) :
           WarningFold!Folded(seq)[i] = WarningFold!Folded(seq)[j] => i = j
  BY <1>2, WarningFold!FoldFilters DEF Distinct
<1> QED
  BY <1>1, <1>3, <1>5, <1>6 DEF Distinct

-----------------------------------------------------------------------------
(* What Alarms::build makes of the readings *)

\* The levels, as the numbers they are in halves.
LEMMA LevelFacts ==
  ASSUME NEW v \in Int \cup {Text}
  PROVE  /\ Level(v) \in {"none", "warning", "alarm", "invalid"}
         /\ Level(v) = "none" <=> v = 0
         /\ Level(v) = "warning" <=> v = 2
         /\ Level(v) = "alarm" <=> v = 4
<1>1. 2 * 0 = 0 /\ 2 * 1 = 2 /\ 2 * 2 = 4
  OBVIOUS
<1> QED
  BY <1>1 DEF Level

\* All alarm sources are known, have a level and are recent.
Covered ==
  /\ AlarmSources # <<>> /\ connected
  /\ \A l \in ToSet(AlarmSources) :
       Present(l) /\ Level(Value(l)) # "invalid" /\ ~(Age(l) > MaxAge)

\* The active alerts are the fresh ones of a connected gateway, however
\* incomplete the coverage; the status is fresh when the coverage is whole.
LEMMA AlarmFacts ==
  ASSUME EnergyInv
  PROVE  /\ Distinct(BuildAlarms.active)
         /\ ToSet(BuildAlarms.active) = {l \in ToSet(AlarmSources) : connected /\ Raised(l)}
         /\ BuildAlarms.status \in Statuses
         /\ BuildAlarms.status = "fresh" <=> Covered
<1> DEFINE sources == ToSet(AlarmSources)
           complete == \A l \in sources : Present(l)
           invalid == \E l \in sources : Level(Value(l)) = "invalid"
           old == \E l \in sources : Age(l) > MaxAge
           status == IF ~complete \/ invalid THEN "unavailable" ELSE IF old THEN "stale" ELSE "fresh"
           idle == [active |-> <<>>, age |-> Null,
                    status |-> IF AlarmSources = <<>> THEN "unconfigured" ELSE "unavailable"]
           busy == [active |-> RaisedAmong(AlarmSources), status |-> status,
                    age |-> IF complete THEN Oldest(AlarmSources) ELSE Null]
<1>1. BuildAlarms = IF AlarmSources = <<>> \/ ~connected THEN idle ELSE busy
  BY Zenon DEF BuildAlarms
<1>2. Distinct(AlarmSources) /\ (sources = {} <=> AlarmSources = <<>>)
  BY SourceFacts DEF AlarmSources, Distinct, SourceLists
<1>3. /\ idle.active = <<>> /\ busy.active = RaisedAmong(AlarmSources) /\ busy.status = status
      /\ idle.status \in {"unconfigured", "unavailable"}
  OBVIOUS
<1>4. Covered <=> AlarmSources # <<>> /\ connected /\ complete /\ ~invalid /\ ~old
  BY DEF Covered
<1>5. status \in Statuses /\ (status = "fresh" <=> complete /\ ~invalid /\ ~old)
  <2> HIDE DEF complete, invalid, old
  <2> QED
    BY DEF Statuses
<1>6. Distinct(<<>>) /\ ToSet(<<>>) = {}
  BY DEF Distinct, ToSet
<1> HIDE DEF idle, busy, status, complete, invalid, old
<1>7. CASE AlarmSources = <<>> \/ ~connected
  <2>1. BuildAlarms = idle
    BY <1>1, <1>7
  <2>2. {l \in sources : connected /\ Raised(l)} = {}
    BY <1>2, <1>7
  <2>3. ~Covered
    BY <1>4, <1>7
  <2>4. idle.status \in Statuses /\ idle.status # "fresh"
    BY <1>3 DEF Statuses
  <2> QED
    BY <1>3, <1>6, <2>1, <2>2, <2>3, <2>4
<1>8. CASE ~(AlarmSources = <<>> \/ ~connected)
  <2>1. BuildAlarms = busy
    BY <1>1, <1>8
  <2>2. {l \in sources : connected /\ Raised(l)} = {l \in sources : Raised(l)}
    BY <1>8
  <2>3. /\ Distinct(RaisedAmong(AlarmSources))
        /\ ToSet(RaisedAmong(AlarmSources)) = {l \in sources : Raised(l)}
    BY <1>2, RaisedFacts
  <2>4. Covered <=> complete /\ ~invalid /\ ~old
    BY <1>4, <1>8
  <2> QED
    BY <1>3, <1>5, <2>1, <2>2, <2>3, <2>4
<1> QED
  BY <1>7, <1>8

\* An active alert has a level that the dashboard shows.
LEMMA ActiveFacts ==
  ASSUME EnergyInv, NEW l \in ToSet(AlarmSources)
  PROVE  /\ l \in Leaves
         /\ Raised(l) <=> IsShown(l) /\ Shown(l) \in {2, 4} /\ Recent(l)
         /\ Raised(l) => /\ Severity(l) = IF Shown(l) = 4 THEN "alarm" ELSE "warning"
                         /\ (Alarming(l) <=> Shown(l) = 4)
                         /\ (Warning(l) <=> ~Alarming(l))
<1>1. l \in Leaves
  BY SourceFacts DEF AlarmSources, SourceLists
<1>2. /\ Present(l) <=> IsShown(l)
      /\ Present(l) => Value(l) = Shown(l) /\ Value(l) \in Int \cup {Text}
  BY <1>1, ReadingFacts
<1>3. Present(l) => /\ Level(Value(l)) = "warning" <=> Shown(l) = 2
                    /\ Level(Value(l)) = "alarm" <=> Shown(l) = 4
  BY <1>2, LevelFacts
<1>4. Raised(l) <=> IsShown(l) /\ Shown(l) \in {2, 4} /\ Recent(l)
  BY <1>2, <1>3 DEF Raised, Recent
<1>5. Raised(l) => /\ Severity(l) = IF Shown(l) = 4 THEN "alarm" ELSE "warning"
                   /\ (Alarming(l) <=> Shown(l) = 4)
                   /\ (Warning(l) <=> ~Alarming(l))
  BY <1>3 DEF Raised, Severity, Alarming, Warning
<1> QED
  BY <1>1, <1>4, <1>5

\* Two lists without a common source follow each other.
LEMMA JoinedFacts ==
  ASSUME NEW A, NEW W, Distinct(A), Distinct(W), ToSet(A) \cap ToSet(W) = {}
  PROVE  /\ Distinct(A \o W) /\ ToSet(A \o W) = ToSet(A) \cup ToSet(W)
         /\ Len(A \o W) = Len(A) + Len(W)
         /\ \A i \in 1 .. Len(A) : (A \o W)[i] = A[i]
         /\ \A i \in DOMAIN (A \o W) : i > Len(A) => (A \o W)[i] \in ToSet(W)
<1> DEFINE C == A \o W
<1>1. A \in Seq(Leaves) /\ W \in Seq(Leaves) /\ C \in Seq(Leaves)
  BY DEF Distinct
<1>2. /\ Len(C) = Len(A) + Len(W) /\ DOMAIN C = 1 .. Len(A) + Len(W)
      /\ Len(A) \in Nat /\ Len(W) \in Nat
      /\ DOMAIN A = 1 .. Len(A) /\ DOMAIN W = 1 .. Len(W)
  BY <1>1
<1>3. \A i \in 1 .. Len(A) : C[i] = A[i]
  BY <1>1
<1>4. \A i \in 1 .. Len(A) + Len(W) : i > Len(A) => C[i] = W[i - Len(A)] /\ i - Len(A) \in 1 .. Len(W)
  BY <1>1
<1>5. \A j \in 1 .. Len(W) : Len(A) + j \in 1 .. Len(A) + Len(W) /\ C[Len(A) + j] = W[j]
  BY <1>1
<1> HIDE DEF C
<1>6. ToSet(C) = ToSet(A) \cup ToSet(W)
  <2>1. ASSUME NEW x \in ToSet(C) PROVE x \in ToSet(A) \cup ToSet(W)
    <3>1. PICK i \in 1 .. Len(A) + Len(W) : C[i] = x
      BY <1>2, <2>1 DEF ToSet
    <3>2. CASE i > Len(A)
      BY <1>2, <1>4, <3>1, <3>2 DEF ToSet
    <3>3. CASE ~(i > Len(A))
      <4>1. i \in 1 .. Len(A)
        BY <1>2, <3>3
      <4> QED
        BY <1>2, <1>3, <3>1, <4>1 DEF ToSet
    <3> QED
      BY <3>2, <3>3
  <2>2. ASSUME NEW x \in ToSet(A) PROVE x \in ToSet(C)
    <3>1. PICK i \in 1 .. Len(A) : A[i] = x
      BY <1>2, <2>2 DEF ToSet
    <3>2. i \in DOMAIN C
      BY <1>2
    <3> QED
      BY <1>3, <3>1, <3>2 DEF ToSet
  <2>3. ASSUME NEW x \in ToSet(W) PROVE x \in ToSet(C)
    <3>1. PICK j \in 1 .. Len(W) : W[j] = x
      BY <1>2, <2>3 DEF ToSet
    <3> QED
      BY <1>2, <1>5, <3>1 DEF ToSet
  <2> QED
    BY <2>1, <2>2, <2>3
<1>7. \A i \in DOMAIN C : i > Len(A) => C[i] \in ToSet(W)
  BY <1>2, <1>4 DEF ToSet
<1>8. \A i \in DOMAIN C : ~(i > Len(A)) => i \in DOMAIN A /\ C[i] = A[i] /\ C[i] \in ToSet(A)
  BY <1>2, <1>3 DEF ToSet
<1>9. ASSUME NEW i \in DOMAIN C, NEW j \in DOMAIN C, C[i] = C[j] PROVE i = j
  <2>1. CASE i > Len(A) /\ j > Len(A)
    <3>1. i - Len(A) \in DOMAIN W /\ j - Len(A) \in DOMAIN W /\ W[i - Len(A)] = W[j - Len(A)]
      BY <1>2, <1>4, <1>9, <2>1
    <3>2. i - Len(A) = j - Len(A)
      BY <3>1 DEF Distinct
    <3> QED
      BY <1>2, <3>2
  <2>2. CASE ~(i > Len(A)) /\ ~(j > Len(A))
    BY <1>8, <1>9, <2>2 DEF Distinct
  <2>3. CASE i > Len(A) /\ ~(j > Len(A))
    BY <1>7, <1>8, <1>9, <2>3
  <2>4. CASE ~(i > Len(A)) /\ j > Len(A)
    BY <1>7, <1>8, <1>9, <2>4
  <2> QED
    BY <2>1, <2>2, <2>3, <2>4
<1> QED
  BY <1>1, <1>2, <1>3, <1>6, <1>7, <1>9 DEF C, Distinct

\* A list of alerts has its alarms and its warnings, and no others.
LEMMA SeverityParts ==
  ASSUME NEW active, Distinct(active), \A l \in ToSet(active) : Warning(l) <=> ~Alarming(l)
  PROVE  LET ranked == Severe(active) \o Warnings(active) IN
         /\ Distinct(ranked) /\ ToSet(ranked) = ToSet(active) /\ Len(ranked) = Len(active)
         /\ Len(Severe(active)) \in Nat /\ Len(active) \in Nat
         /\ Len(Warnings(active)) = Len(active) - Len(Severe(active))
         /\ \A l \in ToSet(active) : Alarming(l) => \E i \in 1 .. Len(Severe(active)) : ranked[i] = l
         /\ \A i \in DOMAIN ranked : i <= Len(Severe(active)) => Alarming(ranked[i])
<1> DEFINE A == Severe(active)
           W == Warnings(active)
           ranked == A \o W
<1>1. /\ Distinct(A) /\ ToSet(A) = {l \in ToSet(active) : Alarming(l)}
      /\ Distinct(W) /\ ToSet(W) = {l \in ToSet(active) : Warning(l)}
  BY SevereFacts, WarningFacts
<1>2. ToSet(A) \cap ToSet(W) = {} /\ ToSet(A) \cup ToSet(W) = ToSet(active)
  BY <1>1
<1> HIDE DEF A, W
<1>3. /\ Distinct(ranked) /\ ToSet(ranked) = ToSet(active) /\ Len(ranked) = Len(A) + Len(W)
      /\ \A i \in 1 .. Len(A) : ranked[i] = A[i]
      /\ \A i \in DOMAIN ranked : i > Len(A) => ranked[i] \in ToSet(W)
  BY <1>1, <1>2, JoinedFacts
<1> HIDE DEF ranked
<1>4. Len(ranked) = Len(active) /\ Len(active) \in Nat /\ Len(A) \in Nat /\ Len(W) \in Nat
  BY <1>1, <1>3, DistinctCount
<1>5. Len(W) = Len(active) - Len(A)
  BY <1>3, <1>4
<1>6. ASSUME NEW l \in ToSet(active), Alarming(l) PROVE \E i \in 1 .. Len(A) : ranked[i] = l
  <2>1. l \in ToSet(A)
    BY <1>1, <1>6
  <2>2. PICK i \in DOMAIN A : A[i] = l
    BY <2>1 DEF ToSet
  <2>3. i \in 1 .. Len(A)
    BY <1>1, <2>2 DEF Distinct
  <2> QED
    BY <1>3, <2>2, <2>3
<1>7. ASSUME NEW i \in DOMAIN ranked, i <= Len(A) PROVE Alarming(ranked[i])
  <2>1. i \in 1 .. Len(A)
    BY <1>3, <1>4, <1>7 DEF Distinct
  <2>2. ranked[i] \in ToSet(A)
    BY <1>1, <1>3, <2>1 DEF Distinct, ToSet
  <2> QED
    BY <1>1, <2>2
<1> QED
  BY <1>3, <1>4, <1>5, <1>6, <1>7 DEF A, W, ranked

\* A summary names as many alerts as it may, and an alarm is left out only if
\* all that it names are alarms.
LEMMA SpokenFacts ==
  ASSUME NEW active, Distinct(active), \A l \in ToSet(active) : Warning(l) <=> ~Alarming(l)
  PROVE  /\ Distinct(Spoken(active)) /\ ToSet(Spoken(active)) \subseteq ToSet(active)
         /\ Len(active) <= SpokenLimit => Spoken(active) = active
         /\ Len(active) > SpokenLimit =>
              /\ Len(Spoken(active)) = SpokenLimit
              /\ (\E l \in ToSet(active) \ ToSet(Spoken(active)) : Alarming(l)) =>
                    \A l \in ToSet(Spoken(active)) : Alarming(l)
<1> DEFINE ranked == Severe(active) \o Warnings(active)
           part == SubSeq(ranked, 1, SpokenLimit)
           n == Len(Severe(active))
<1>1. /\ Distinct(ranked) /\ ToSet(ranked) = ToSet(active) /\ Len(ranked) = Len(active)
      /\ n \in Nat /\ Len(active) \in Nat
      /\ \A l \in ToSet(active) : Alarming(l) => \E i \in 1 .. n : ranked[i] = l
      /\ \A i \in DOMAIN ranked : i <= n => Alarming(ranked[i])
  BY SeverityParts
<1>2. SpokenLimit \in Nat
  BY EnergyAssumption
<1>3. Spoken(active) = IF Len(active) <= SpokenLimit THEN active ELSE part
  BY DEF Spoken
<1> HIDE DEF ranked, n
<1>4. CASE Len(active) <= SpokenLimit
  BY <1>1, <1>2, <1>3, <1>4
<1>5. CASE Len(active) > SpokenLimit
  <2>1. ranked \in Seq(Leaves) /\ DOMAIN ranked = 1 .. Len(active) /\ SpokenLimit \in 0 .. Len(ranked)
    BY <1>1, <1>2, <1>5 DEF Distinct
  <2>2. /\ part \in Seq(Leaves) /\ Len(part) = SpokenLimit
        /\ \A i \in 1 .. SpokenLimit : part[i] = ranked[i] /\ i \in DOMAIN ranked
    BY <1>1, <1>2, <2>1
  <2> HIDE DEF part
  <2>3. DOMAIN part = 1 .. SpokenLimit
    BY <2>2
  <2>4. Distinct(part) /\ ToSet(part) \subseteq ToSet(ranked)
    BY <1>1, <2>2, <2>3 DEF Distinct, ToSet
  <2>5. ASSUME NEW l \in ToSet(active) \ ToSet(part), Alarming(l), NEW k \in ToSet(part)
        PROVE  Alarming(k)
    <3>1. PICK i \in 1 .. n : ranked[i] = l
      BY <1>1, <2>5
    <3>2. i \notin 1 .. SpokenLimit
      BY <2>2, <2>3, <2>5, <3>1 DEF ToSet
    <3>3. PICK j \in 1 .. SpokenLimit : part[j] = k
      BY <2>3 DEF ToSet
    <3>4. j \in DOMAIN ranked /\ ranked[j] = k /\ j <= n
      BY <1>1, <1>2, <2>2, <3>1, <3>2, <3>3
    <3> QED
      BY <1>1, <3>4
  <2> QED
    BY <1>1, <1>2, <1>3, <1>5, <2>2, <2>4, <2>5
<1> QED
  BY <1>1, <1>2, <1>4, <1>5

-----------------------------------------------------------------------------
(* The facts that Alarms::report states *)

CoverageReasons == {"not configured", "incomplete", "disconnected", "stale"}

AlarmFact ==
  {Count("alarms", n) : n \in Int} \cup {Count("warnings", n) : n \in Int}
    \cup {Count("more", n) : n \in Int}
    \cup {Alert(l) : l \in Leaves}
    \cup {Fact("alarms", w) : w \in CoverageReasons \cup {"none active"}}

Totals(active) == <<Count("alarms", Len(Severe(active))),
                    Count("warnings", Len(active) - Len(Severe(active)))>>
Naming(active) == [i \in DOMAIN Spoken(active) |-> Alert(Spoken(active)[i])]
Remaining(active) == <<Count("more", Len(active) - SpokenLimit)>>

\* What the facts of the alarms are.
LEMMA AlarmFactMembers ==
  /\ \A w \in {"alarms", "warnings", "more"} : \A n \in Int : Count(w, n) \in AlarmFact
  /\ \A l \in Leaves : Alert(l) \in AlarmFact
  /\ \A w \in CoverageReasons \cup {"none active"} : Fact("alarms", w) \in AlarmFact
<1> DEFINE C(w) == {Count(w, n) : n \in Int}
           A == {Alert(l) : l \in Leaves}
           F == {Fact("alarms", w) : w \in CoverageReasons \cup {"none active"}}
<1>1. AlarmFact = C("alarms") \cup C("warnings") \cup C("more") \cup A \cup F
  BY DEF AlarmFact
<1>2. \A w \in {"alarms", "warnings", "more"} : \A n \in Int : Count(w, n) \in C(w)
  BY Zenon
<1>3. \A l \in Leaves : Alert(l) \in A
  BY Zenon
<1>4. \A w \in CoverageReasons \cup {"none active"} : Fact("alarms", w) \in F
  BY Zenon
<1> HIDE DEF C, A, F
<1> QED
  BY <1>1, <1>2, <1>3, <1>4

\* What facts are about and what they say.
LEMMA FactFields ==
  /\ \A name, w : Fact(name, w).about = <<name>> /\ Fact(name, w).says = w
  /\ \A name, w, a : Amount(name, w, a).about = <<name>> /\ Amount(name, w, a).says = w
                     /\ Amount(name, w, a).amount = a
  /\ \A w, n : Count(w, n).about = <<"alarms">> /\ Count(w, n).says = w
  /\ \A l : Alert(l).about = l /\ Alert(l).says = Severity(l)
BY DEF Fact, Amount, Count, Alert

\* A text in two parts states what either states.
LEMMA ConcatFacts ==
  ASSUME NEW T, NEW s \in Seq(T), NEW t \in Seq(T)
  PROVE  s \o t \in Seq(T) /\ ToSet(s \o t) = ToSet(s) \cup ToSet(t)
<1> DEFINE C == s \o t
<1>1. C \in Seq(T) /\ Len(C) = Len(s) + Len(t) /\ DOMAIN C = 1 .. Len(s) + Len(t)
      /\ Len(s) \in Nat /\ Len(t) \in Nat
      /\ DOMAIN s = 1 .. Len(s) /\ DOMAIN t = 1 .. Len(t)
  OBVIOUS
<1>2. \A i \in 1 .. Len(s) : C[i] = s[i] /\ i \in DOMAIN C
  OBVIOUS
<1>3. \A j \in 1 .. Len(t) : Len(s) + j \in DOMAIN C /\ C[Len(s) + j] = t[j]
  OBVIOUS
<1>4. \A i \in DOMAIN C : \/ i \in 1 .. Len(s) /\ C[i] = s[i]
                          \/ i - Len(s) \in 1 .. Len(t) /\ C[i] = t[i - Len(s)]
  OBVIOUS
<1> HIDE DEF C
<1>5. ToSet(C) \subseteq ToSet(s) \cup ToSet(t)
  BY <1>1, <1>4 DEF ToSet
<1>6. ToSet(s) \subseteq ToSet(C)
  BY <1>1, <1>2 DEF ToSet
<1>7. ToSet(t) \subseteq ToSet(C)
  BY <1>1, <1>3 DEF ToSet
<1> QED
  BY <1>1, <1>5, <1>6, <1>7 DEF C

\* A text of one fact.
LEMMA ShortTexts ==
  ASSUME NEW T, NEW a \in T
  PROVE  <<a>> \in Seq(T) /\ ToSet(<<a>>) = {a}
BY DEF ToSet

\* A text of two facts.
LEMMA TwoFacts ==
  ASSUME NEW a \in AlarmFact, NEW b \in AlarmFact
  PROVE  <<a, b>> \in Seq(AlarmFact) /\ ToSet(<<a, b>>) = {a, b}
<1>1. <<a, b>> \in Seq(AlarmFact)
  OBVIOUS
<1>2. DOMAIN <<a, b>> = {1, 2} /\ <<a, b>>[1] = a /\ <<a, b>>[2] = b
  OBVIOUS
<1> QED
  BY <1>1, <1>2 DEF ToSet

\* A list names nothing exactly when it is empty.
LEMMA NothingListed ==
  ASSUME NEW s \in Seq(Leaves)
  PROVE  s = <<>> <=> ToSet(s) = {}
<1>1. CASE s = <<>>
  BY <1>1 DEF ToSet
<1>2. CASE s # <<>>
  <2>1. 1 \in DOMAIN s
    BY <1>2
  <2> QED
    BY <1>2, <2>1 DEF ToSet
<1> QED
  BY <1>1, <1>2

\* The sentence about the coverage: a reason unless the coverage is whole.
LEMMA CoverageFacts ==
  ASSUME EnergyInv
  PROVE  LET alarms == BuildAlarms
             text == Coverage(alarms)
         IN  /\ text \in Seq(AlarmFact)
             /\ alarms.status = "fresh" =>
                  ToSet(text) = IF alarms.active = <<>> THEN {Fact("alarms", "none active")} ELSE {}
             /\ alarms.status # "fresh" => \E w \in CoverageReasons : ToSet(text) = {Fact("alarms", w)}
<1> DEFINE alarms == BuildAlarms
           text == Coverage(alarms)
<1>1. alarms.status \in Statuses
  BY AlarmFacts
<1>2. \A w \in CoverageReasons \cup {"none active"} : Fact("alarms", w) \in AlarmFact
  BY AlarmFactMembers
<1> HIDE DEF alarms
<1>3. ASSUME NEW w \in CoverageReasons \cup {"none active"}, text = <<Fact("alarms", w)>>
      PROVE  text \in Seq(AlarmFact) /\ ToSet(text) = {Fact("alarms", w)}
  <2>1. Fact("alarms", w) \in AlarmFact
    BY <1>2
  <2>2. <<Fact("alarms", w)>> \in Seq(AlarmFact) /\ ToSet(<<Fact("alarms", w)>>) = {Fact("alarms", w)}
    BY <2>1, ShortTexts
  <2> QED
    BY <1>3, <2>2, Zenon
<1>4. CASE alarms.status = "unconfigured"
  <2>1. text = <<Fact("alarms", "not configured")>> /\ "not configured" \in CoverageReasons
    BY <1>4 DEF Coverage, CoverageReasons
  <2> HIDE DEF text
  <2> QED
    BY <1>3, <1>4, <2>1 DEF alarms, text
<1>5. CASE alarms.status = "unavailable"
  <2>1. \E w \in CoverageReasons : text = <<Fact("alarms", w)>>
    BY <1>5 DEF Coverage, CoverageReasons
  <2> HIDE DEF text
  <2> QED
    BY <1>3, <1>5, <2>1 DEF alarms, text
<1>6. CASE alarms.status = "stale"
  <2>1. text = <<Fact("alarms", "stale")>> /\ "stale" \in CoverageReasons
    BY <1>6 DEF Coverage, CoverageReasons
  <2> HIDE DEF text
  <2> QED
    BY <1>3, <1>6, <2>1 DEF alarms, text
<1>7. CASE alarms.status = "fresh"
  <2>1. text = IF alarms.active = <<>> THEN <<Fact("alarms", "none active")>> ELSE <<>>
    BY <1>7 DEF Coverage
  <2>2. <<>> \in Seq(AlarmFact) /\ ToSet(<<>>) = {}
    BY DEF ToSet
  <2> HIDE DEF text
  <2> QED
    BY <1>3, <1>7, <2>1, <2>2 DEF alarms, text
<1> QED
  BY <1>1, <1>4, <1>5, <1>6, <1>7 DEF Statuses

\* The report names the alerts that are spoken, counts them if it leaves some
\* out, and ends with the coverage.
LEMMA ReportFacts ==
  ASSUME EnergyInv
  PROVE  LET active == BuildAlarms.active
             counts == {Count("alarms", Len(Severe(active))),
                        Count("warnings", Len(active) - Len(Severe(active))),
                        Count("more", Len(active) - SpokenLimit)}
         IN  /\ AlarmReport \in Seq(AlarmFact)
             /\ ToSet(AlarmReport) =
                  (IF Len(active) > SpokenLimit THEN counts ELSE {})
                    \cup {Alert(l) : l \in ToSet(Spoken(active))} \cup ToSet(Coverage(BuildAlarms))
<1> DEFINE alarms == BuildAlarms
           active == alarms.active
           severe == Len(Severe(active))
           total == Totals(active)
           named == Naming(active)
           more == Remaining(active)
           coverage == Coverage(alarms)
<1>1. AlarmReport = IF Len(active) > SpokenLimit THEN total \o named \o more \o coverage
                    ELSE named \o coverage
  BY Zenon DEF AlarmReport, Totals, Naming, Remaining
<1>2. Distinct(active) /\ \A l \in ToSet(active) : Warning(l) <=> ~Alarming(l)
  BY AlarmFacts, ActiveFacts
<1>3. severe \in Nat /\ Len(active) \in Nat /\ SpokenLimit \in Nat
  BY <1>2, SeverityParts, EnergyAssumption
<1>4. \A w \in {"alarms", "warnings", "more"} : \A n \in Int : Count(w, n) \in AlarmFact
  BY AlarmFactMembers
<1>5. /\ total \in Seq(AlarmFact)
      /\ ToSet(total) = {Count("alarms", severe), Count("warnings", Len(active) - severe)}
  <2>1. Count("alarms", severe) \in AlarmFact /\ Count("warnings", Len(active) - severe) \in AlarmFact
    <3> HIDE DEF severe, active
    <3>1. severe \in Int /\ Len(active) - severe \in Int
      BY <1>3
    <3> QED
      BY <1>4, <3>1
  <2> DEFINE a == Count("alarms", severe)
             b == Count("warnings", Len(active) - severe)
  <2>2. total = <<a, b>>
    BY DEF Totals
  <2>3. a \in AlarmFact /\ b \in AlarmFact
    BY <2>1
  <2> HIDE DEF a, b, total
  <2>4. <<a, b>> \in Seq(AlarmFact) /\ ToSet(<<a, b>>) = {a, b}
    BY <2>3, TwoFacts, Zenon
  <2> QED
    BY <2>2, <2>4, Zenon DEF a, b
<1>6. more \in Seq(AlarmFact) /\ ToSet(more) = {Count("more", Len(active) - SpokenLimit)}
  <2>1. Count("more", Len(active) - SpokenLimit) \in AlarmFact
    BY <1>3, <1>4
  <2> QED
    BY <2>1, ShortTexts DEF Remaining
<1>7. named \in Seq(AlarmFact) /\ ToSet(named) = {Alert(l) : l \in ToSet(Spoken(active))}
  <2> DEFINE sp == Spoken(active)
  <2>1. sp \in Seq(Leaves)
    BY <1>2, SpokenFacts DEF Distinct
  <2>2. named = [i \in DOMAIN sp |-> Alert(sp[i])] /\ \A l \in Leaves : Alert(l) \in AlarmFact
    BY AlarmFactMembers DEF Naming
  <2> HIDE DEF sp, named
  <2>3. DOMAIN sp = 1 .. Len(sp) /\ \A i \in DOMAIN sp : sp[i] \in Leaves
    BY <2>1
  <2>4. named \in [1 .. Len(sp) -> AlarmFact] /\ Len(sp) \in Nat
    BY <2>1, <2>2, <2>3
  <2>5. ToSet(named) = {Alert(l) : l \in ToSet(sp)}
    BY <2>2 DEF ToSet
  <2> QED
    BY <2>4, <2>5 DEF sp
<1>8. coverage \in Seq(AlarmFact)
  BY CoverageFacts
<1> HIDE DEF total, named, more, coverage, active
<1> DEFINE first == total \o named
           second == first \o more
<1>9. first \in Seq(AlarmFact) /\ ToSet(first) = ToSet(total) \cup ToSet(named)
  BY <1>5, <1>7, ConcatFacts
<1>10. /\ second \in Seq(AlarmFact)
       /\ ToSet(second) = ToSet(total) \cup ToSet(named) \cup ToSet(more)
  <2> HIDE DEF first
  <2>1. second \in Seq(AlarmFact) /\ ToSet(second) = ToSet(first) \cup ToSet(more)
    BY <1>6, <1>9, ConcatFacts
  <2> QED
    BY <1>9, <2>1, Zenon
<1>11. /\ second \o coverage \in Seq(AlarmFact)
       /\ ToSet(second \o coverage)
            = ToSet(total) \cup ToSet(named) \cup ToSet(more) \cup ToSet(coverage)
  <2> HIDE DEF second
  <2>1. second \o coverage \in Seq(AlarmFact)
        /\ ToSet(second \o coverage) = ToSet(second) \cup ToSet(coverage)
    BY <1>8, <1>10, ConcatFacts
  <2> QED
    BY <1>10, <2>1, Zenon
<1>12. named \o coverage \in Seq(AlarmFact) /\ ToSet(named \o coverage) = ToSet(named) \cup ToSet(coverage)
  BY <1>7, <1>8, ConcatFacts
<1>13. CASE Len(active) > SpokenLimit
  <2>1. AlarmReport = second \o coverage
    BY <1>1, <1>13
  <2> HIDE DEF second
  <2>2. ToSet(AlarmReport) = {Count("alarms", severe), Count("warnings", Len(active) - severe),
                              Count("more", Len(active) - SpokenLimit)}
                               \cup {Alert(l) : l \in ToSet(Spoken(active))} \cup ToSet(coverage)
    BY <1>5, <1>6, <1>7, <1>11, <2>1
  <2> QED
    BY <1>11, <1>13, <2>1, <2>2 DEF active, coverage
<1>14. CASE ~(Len(active) > SpokenLimit)
  <2>1. AlarmReport = named \o coverage
    BY <1>1, <1>14
  <2> QED
    BY <1>7, <1>12, <1>14, <2>1 DEF active, coverage
<1> QED
  BY <1>13, <1>14

\* The counts of a summary say what they count.
LEMMA CountsSay ==
  ASSUME NEW i, NEW j, NEW k
  PROVE  \A f \in {Count("alarms", i), Count("warnings", j), Count("more", k)} :
           f.says \in {"alarms", "warnings", "more"}
<1> DEFINE a == Count("alarms", i)
           b == Count("warnings", j)
           c == Count("more", k)
<1>1. a.says = "alarms" /\ b.says = "warnings" /\ c.says = "more"
  BY FactFields
<1> HIDE DEF a, b, c
<1>2. \A f \in {a, b, c} : f.says \in {"alarms", "warnings", "more"}
  BY <1>1
<1> QED
  BY <1>2 DEF a, b, c

\* What is said in a text is said by one of its facts.
LEMMA SaysFact ==
  ASSUME NEW text, NEW about, NEW says
  PROVE  Says(text, about, says) <=> \E f \in ToSet(text) : f.about = about /\ f.says = says
BY DEF Says, ToSet

\* "None active" is said when the coverage is whole and nothing is active.
LEMMA AllClearSaid ==
  ASSUME EnergyInv
  PROVE  Says(AlarmReport, <<"alarms">>, "none active") <=>
           BuildAlarms.status = "fresh" /\ BuildAlarms.active = <<>>
<1> DEFINE active == BuildAlarms.active
           clear == Fact("alarms", "none active")
           counts == {Count("alarms", Len(Severe(active))),
                      Count("warnings", Len(active) - Len(Severe(active))),
                      Count("more", Len(active) - SpokenLimit)}
           coverage == ToSet(Coverage(BuildAlarms))
<1>1. ToSet(AlarmReport) = (IF Len(active) > SpokenLimit THEN counts ELSE {})
                             \cup {Alert(l) : l \in ToSet(Spoken(active))} \cup coverage
  BY ReportFacts
<1>2. \A f \in counts : f.says # "none active"
  <2>1. \A f \in counts : f.says \in {"alarms", "warnings", "more"}
    BY CountsSay
  <2> HIDE DEF counts
  <2> QED
    BY <2>1
<1>3. ASSUME NEW l \in ToSet(Spoken(active)) PROVE Alert(l).says # "none active"
  <2>1. Distinct(active) /\ \A k \in ToSet(active) : Warning(k) <=> ~Alarming(k)
    BY AlarmFacts, ActiveFacts
  <2>2. l \in ToSet(active)
    BY <2>1, SpokenFacts
  <2>3. Severity(l) \in {"alarm", "warning"}
    BY <2>2, AlarmFacts, ActiveFacts
  <2> QED
    BY <2>3, FactFields
<1>4. /\ BuildAlarms.status = "fresh" => coverage = IF active = <<>> THEN {clear} ELSE {}
      /\ BuildAlarms.status # "fresh" => \E w \in CoverageReasons : coverage = {Fact("alarms", w)}
  BY CoverageFacts
<1>5. clear.about = <<"alarms">> /\ clear.says = "none active"
  BY FactFields
<1>6. \A w \in CoverageReasons : Fact("alarms", w).says # "none active"
  BY FactFields DEF CoverageReasons
<1> HIDE DEF active, clear, counts, coverage
<1>7. (\E f \in coverage : f.about = <<"alarms">> /\ f.says = "none active") <=>
        BuildAlarms.status = "fresh" /\ active = <<>>
  BY <1>4, <1>5, <1>6
<1>8. (\E f \in ToSet(AlarmReport) : f.about = <<"alarms">> /\ f.says = "none active") <=>
        (\E f \in coverage : f.about = <<"alarms">> /\ f.says = "none active")
  BY <1>1, <1>2, <1>3
<1> QED
  BY <1>7, <1>8, SaysFact DEF active

\* A listener hears of no active alarm exactly when there is none to hear of.
LEMMA AllClearIsTrue ==
  ASSUME EnergyInv
  PROVE  NoFalseAllClear
<1> DEFINE sources == ToSet(AlarmSources)
           quiet == \A l \in sources : IsShown(l) /\ Shown(l) = 0 /\ Recent(l)
<1>1. /\ Distinct(BuildAlarms.active)
      /\ ToSet(BuildAlarms.active) = {l \in sources : connected /\ Raised(l)}
      /\ BuildAlarms.status = "fresh" <=> Covered
  BY AlarmFacts
<1>2. BuildAlarms.active = <<>> <=> ToSet(BuildAlarms.active) = {}
  <2>1. PICK a : a = BuildAlarms.active
    OBVIOUS
  <2>2. a \in Seq(Leaves)
    BY <1>1, <2>1 DEF Distinct
  <2> QED
    BY <2>1, <2>2, NothingListed, Zenon
<1>3. ASSUME NEW l \in sources
      PROVE  (/\ Present(l) /\ Level(Value(l)) # "invalid" /\ ~(Age(l) > MaxAge) /\ ~Raised(l))
               <=> (IsShown(l) /\ Shown(l) = 0 /\ Recent(l))
  <2>1. l \in Leaves
    BY ActiveFacts
  <2>2. MaxAge \in Nat
    BY SharedAssumption
  <2>3. /\ Present(l) <=> IsShown(l)
        /\ Present(l) => Value(l) = Shown(l) /\ Value(l) \in Int \cup {Text} /\ Age(l) \in Int
    BY <2>1, <2>2, ReadingFacts
  <2>4. Present(l) => /\ Level(Value(l)) \in {"none", "warning", "alarm", "invalid"}
                      /\ (Level(Value(l)) = "none" <=> Shown(l) = 0)
    BY <2>3, LevelFacts
  <2> QED
    BY <2>2, <2>3, <2>4 DEF Raised, Recent
<1>4. Covered /\ (\A l \in sources : ~(connected /\ Raised(l)))
        <=> connected /\ AlarmSources # <<>> /\ quiet
  BY <1>3 DEF Covered
<1>5. BuildAlarms.status = "fresh" /\ BuildAlarms.active = <<>>
        <=> connected /\ AlarmSources # <<>> /\ quiet
  BY <1>1, <1>2, <1>4
<1> QED
  BY <1>5, AllClearSaid DEF NoFalseAllClear

\* An alert of the dashboard is named exactly when it is spoken.
LEMMA NamedIsSpoken ==
  ASSUME EnergyInv, NEW l \in ToSet(BuildAlarms.active)
  PROVE  Says(AlarmReport, l, IF Shown(l) = 4 THEN "alarm" ELSE "warning")
           <=> l \in ToSet(Spoken(BuildAlarms.active))
<1> DEFINE active == BuildAlarms.active
           says == IF Shown(l) = 4 THEN "alarm" ELSE "warning"
           counts == {Count("alarms", Len(Severe(active))),
                      Count("warnings", Len(active) - Len(Severe(active))),
                      Count("more", Len(active) - SpokenLimit)}
           coverage == ToSet(Coverage(BuildAlarms))
           spoken == ToSet(Spoken(active))
<1>1. ToSet(AlarmReport) = (IF Len(active) > SpokenLimit THEN counts ELSE {})
                             \cup {Alert(k) : k \in spoken} \cup coverage
  BY ReportFacts
<1>2. says \in {"alarm", "warning"}
  OBVIOUS
<1>3. \A f \in counts : f.says \notin {"alarm", "warning"}
  <2>1. \A f \in counts : f.says \in {"alarms", "warnings", "more"}
    BY CountsSay
  <2> HIDE DEF counts
  <2> QED
    BY <2>1
<1>4. \A f \in coverage : f.says \notin {"alarm", "warning"}
  <2>1. \A w \in CoverageReasons \cup {"none active"} : Fact("alarms", w).says \notin {"alarm", "warning"}
    BY FactFields DEF CoverageReasons
  <2> QED
    BY <2>1, CoverageFacts
<1>5. Severity(l) = says
  BY AlarmFacts, ActiveFacts
<1>6. \A k : Alert(k).about = k /\ Alert(k).says = Severity(k)
  BY FactFields
<1> HIDE DEF active, says, counts, coverage, spoken
<1>7. (\E f \in ToSet(AlarmReport) : f.about = l /\ f.says = says) <=> l \in spoken
  BY <1>1, <1>2, <1>3, <1>4, <1>5, <1>6
<1> QED
  BY <1>7, SaysFact DEF says, spoken, active

\* Every alert is spoken or counted, and the alarms come first.
LEMMA AlertsSpoken ==
  ASSUME EnergyInv
  PROVE  AlertsAreSpoken
<1> DEFINE active == BuildAlarms.active
           spoken == ToSet(Spoken(active))
           all == ToSet(active)
           raised == {l \in ToSet(AlarmSources) :
                        connected /\ IsShown(l) /\ Shown(l) \in {2, 4} /\ Recent(l)}
           named == {l \in raised : Says(AlarmReport, l, IF Shown(l) = 4 THEN "alarm" ELSE "warning")}
           hidden == raised \ named
<1>1. Distinct(active) /\ all = {l \in ToSet(AlarmSources) : connected /\ Raised(l)}
  BY AlarmFacts
<1>2. raised = all
  BY <1>1, ActiveFacts
<1>3. \A l \in all : (Warning(l) <=> ~Alarming(l)) /\ (Alarming(l) <=> Shown(l) = 4)
  BY <1>1, ActiveFacts
<1>4. /\ Distinct(Spoken(active)) /\ spoken \subseteq all
      /\ Len(active) <= SpokenLimit => Spoken(active) = active
      /\ Len(active) > SpokenLimit =>
           /\ Len(Spoken(active)) = SpokenLimit
           /\ (\E l \in all \ spoken : Alarming(l)) => \A l \in spoken : Alarming(l)
  BY <1>1, <1>3, SpokenFacts
<1>5. named = spoken
  <2>1. \A l \in all : Says(AlarmReport, l, IF Shown(l) = 4 THEN "alarm" ELSE "warning")
                         <=> l \in spoken
    BY NamedIsSpoken
  <2> HIDE DEF raised, spoken, all
  <2> QED
    BY <1>2, <1>4, <2>1
<1> HIDE DEF raised, named
<1>6. ASSUME hidden # {}
      PROVE  /\ Cardinality(named) = SpokenLimit
             /\ \E i \in DOMAIN AlarmReport : AlarmReport[i] = Count("more", Cardinality(hidden))
             /\ (\E l \in hidden : Shown(l) = 4) => \A l \in named : Shown(l) = 4
  <2>1. hidden = all \ spoken
    BY <1>2, <1>5
  <2>2. /\ IsFiniteSet(all) /\ Cardinality(all) = Len(active) /\ Len(active) \in Nat
        /\ Cardinality(spoken) = Len(Spoken(active))
    BY <1>1, <1>4, DistinctCount
  <2>3. Len(active) > SpokenLimit
    <3>1. SpokenLimit \in Nat /\ spoken # all
      BY <1>6, <2>1, EnergyAssumption
    <3> QED
      BY <1>4, <2>2, <3>1
  <2>4. Cardinality(hidden) = Len(active) - SpokenLimit
    <3> HIDE DEF all, spoken
    <3>1. spoken \in SUBSET all /\ SpokenLimit \in Nat
      BY <1>4, EnergyAssumption
    <3>2. Cardinality(all \ spoken) = Cardinality(all) - Cardinality(all \cap spoken)
      BY <2>2, FS_Difference
    <3>3. all \cap spoken = spoken
      BY <3>1
    <3> QED
      BY <1>4, <2>1, <2>2, <2>3, <3>2, <3>3
  <2>5. \E i \in DOMAIN AlarmReport : AlarmReport[i] = Count("more", Len(active) - SpokenLimit)
    <3>1. Count("more", Len(active) - SpokenLimit) \in ToSet(AlarmReport)
      BY <2>3, ReportFacts
    <3> QED
      BY <3>1 DEF ToSet
  <2>6. (\E l \in hidden : Shown(l) = 4) => \A l \in named : Shown(l) = 4
    <3> HIDE DEF all, spoken, hidden
    <3> QED
      BY <1>3, <1>4, <1>5, <2>1, <2>3
  <2>7. Cardinality(named) = SpokenLimit
    BY <1>4, <1>5, <2>2, <2>3
  <2> QED
    BY <2>4, <2>5, <2>6, <2>7, Zenon
<1> QED
  BY <1>6, Zenon DEF AlertsAreSpoken, raised, named

\* A listener who hears of no alarm has none to hear of, and every alert of the
\* dashboard is named or counted, alarms before warnings: for any list of alarm
\* sources, any limit and any telemetry (Alarms::build and Alarms::report).
THEOREM AlarmsReachTheListener == EnergySpec => []AlarmsAreTold
<1>1. EnergyInv => AlarmsAreTold
  BY AllClearIsTrue, AlertsSpoken DEF AlarmsAreTold
<1> QED
  BY <1>1, EnergyInvariant, PTL

-----------------------------------------------------------------------------
(* Numbers in words.                                                         *)

WordFold == INSTANCE FoldFacts WITH Op <- Hear, Base <- <<0, 0>>

(* After the words w a listener has x in whole groups and y in the group     *)
(* that is being said.                                                       *)
Hears(w, x, y) == w \in Seq(Nat) /\ x \in Nat /\ y \in Nat /\ Heard(w) = <<x, y>>

\* One word more.
LEMMA NextWord ==
  ASSUME NEW w \in Seq(Nat), NEW a \in Nat
  PROVE  Heard(Append(w, a)) = Hear(Heard(w), a)
<1>1. \A s : WordFold!Folded(s) = Heard(s)
  BY DEF Heard, WordFold!Folded, FoldLeft, WordFold!FoldLeft, MapThenFoldSet,
         WordFold!MapThenFoldSet, Max, WordFold!Max
<1>2. WordFold!Folded(Append(w, a)) = Hear(WordFold!Folded(w), a)
  BY WordFold!FoldOfAppend
<1> QED
  BY <1>1, <1>2, Zenon

\* Silence.
LEMMA NoWords == Hears(<<>>, 0, 0)
<1>1. \A s : WordFold!Folded(s) = Heard(s)
  BY DEF Heard, WordFold!Folded, FoldLeft, WordFold!FoldLeft, MapThenFoldSet,
         WordFold!MapThenFoldSet, Max, WordFold!Max
<1>2. WordFold!Folded(<<>>) = <<0, 0>>
  BY WordFold!FoldOfNone
<1>3. Heard(<<>>) = <<0, 0>>
  BY <1>1, <1>2, Zenon
<1> QED
  BY <1>3 DEF Hears

\* A word below a thousand adds to the group, any other names its scale.
LEMMA OneWord ==
  ASSUME NEW w, NEW x, NEW y, Hears(w, x, y), NEW a \in Nat
  PROVE  /\ a < 1000 => Hears(Append(w, a), x, y + a)
         /\ a >= 1000 => Hears(Append(w, a), x + y * a, 0)
<1>1. w \in Seq(Nat) /\ x \in Nat /\ y \in Nat /\ Heard(w) = <<x, y>>
  BY DEF Hears
<1>2. Heard(Append(w, a)) = Hear(Heard(w), a)
  BY <1>1, NextWord
<1>3. Hear(<<x, y>>, a) = IF a >= 1000 THEN <<x + y * a, 0>> ELSE <<x, y + a>>
  BY DEF Hear
<1>4. Heard(Append(w, a)) = IF a >= 1000 THEN <<x + y * a, 0>> ELSE <<x, y + a>>
  BY <1>1, <1>2, <1>3, Zenon
<1>5. Append(w, a) \in Seq(Nat)
  BY <1>1
<1>6. y + a \in Nat /\ y * a \in Nat
  BY <1>1
<1>7. x + y * a \in Nat
  BY <1>1, <1>6
<1>8. ASSUME a < 1000 PROVE Hears(Append(w, a), x, y + a)
  <2>1. ~(a >= 1000)
    BY <1>8
  <2> QED
    BY <1>1, <1>4, <1>5, <1>6, <2>1, Zenon DEF Hears
<1>9. ASSUME a >= 1000 PROVE Hears(Append(w, a), x + y * a, 0)
  <2>1. 0 \in Nat
    OBVIOUS
  <2> QED
    BY <1>4, <1>5, <1>7, <1>9, <2>1, Zenon DEF Hears
<1> QED
  BY <1>8, <1>9

ThreeDigits == 0 .. 999

\* Words below a thousand, whose sum adds to the group.
Adds(s, n) ==
  /\ s \in Seq(Nat) /\ n \in Nat
  /\ \A w \in Seq(Nat), x \in Nat, y \in Nat : Hears(w, x, y) => Hears(w \o s, x, y + n)

\* No word, one word.
LEMMA AddsFew ==
  Adds(<<>>, 0) /\ \A a \in ThreeDigits : Adds(<<a>>, a)
<1>1. <<>> \in Seq(Nat) /\ 0 \in Nat
  OBVIOUS
<1>2. \A w \in Seq(Nat), y \in Nat : w \o <<>> = w /\ y + 0 = y
  OBVIOUS
<1>3. Adds(<<>>, 0)
  BY <1>1, <1>2, Zenon DEF Adds
<1>4. ASSUME NEW a \in ThreeDigits PROVE Adds(<<a>>, a)
  <2>1. <<a>> \in Seq(Nat) /\ a \in Nat /\ a < 1000
    BY DEF ThreeDigits
  <2>2. ASSUME NEW w \in Seq(Nat), NEW x \in Nat, NEW y \in Nat, Hears(w, x, y)
        PROVE  Hears(w \o <<a>>, x, y + a)
    <3>1. w \o <<a>> = Append(w, a)
      OBVIOUS
    <3>2. Hears(Append(w, a), x, y + a)
      BY <2>1, <2>2, OneWord
    <3> QED
      BY <3>1, <3>2, Zenon
  <2> QED
    BY <2>1, <2>2, Zenon DEF Adds
<1> QED
  BY <1>3, <1>4

\* One after the other.
LEMMA AddsBoth ==
  ASSUME NEW s, NEW t, NEW m, NEW n, Adds(s, m), Adds(t, n)
  PROVE  Adds(s \o t, m + n)
<1>1. s \in Seq(Nat) /\ t \in Seq(Nat) /\ m \in Nat /\ n \in Nat
  BY DEF Adds
<1>2. s \o t \in Seq(Nat) /\ m + n \in Nat
  BY <1>1
<1>3. ASSUME NEW w \in Seq(Nat), NEW x \in Nat, NEW y \in Nat, Hears(w, x, y)
      PROVE  Hears(w \o (s \o t), x, y + (m + n))
  <2>1. w \o s \in Seq(Nat) /\ y + m \in Nat /\ (y + m) + n = y + (m + n)
    BY <1>1
  <2>2. (w \o s) \o t = w \o (s \o t)
    BY <1>1
  <2>3. Hears(w \o s, x, y + m)
    BY <1>3, Zenon DEF Adds
  <2>4. Hears((w \o s) \o t, x, (y + m) + n)
    BY <2>1, <2>3, Zenon DEF Adds
  <2> QED
    BY <2>1, <2>2, <2>4, Zenon
<1> QED
  BY <1>2, <1>3, Zenon DEF Adds

\* under_thousand says its number.
LEMMA GroupHeard ==
  ASSUME NEW n \in ThreeDigits
  PROVE  Adds(UnderThousand(n), n)
<1> DEFINE tail == n % 100
           hundreds == 100 * (n \div 100)
           tens == 10 * (tail \div 10)
           ones == tail % 10
           h == IF n >= 100 THEN <<hundreds>> ELSE <<>>
           t == IF tail >= 20 THEN <<tens>> ELSE <<>>
           o == IF ones # 0 THEN <<ones>> ELSE <<>>
           e == <<tail>>
           H == IF n >= 100 THEN hundreds ELSE 0
           T == IF tail >= 20 THEN tens ELSE 0
           O == IF ones # 0 THEN ones ELSE 0
<1>1. UnderThousand(n) = h \o (IF tail \in 10 .. 19 THEN e ELSE t \o o)
  BY DEF UnderThousand
<1>2. /\ tail \in ThreeDigits /\ hundreds \in ThreeDigits
      /\ tens \in ThreeDigits /\ ones \in ThreeDigits
  BY DEF ThreeDigits
<1>3. n = IF tail \in 10 .. 19 THEN H + tail ELSE H + (T + O)
  BY DEF ThreeDigits
<1>4. Adds(<<>>, 0) /\ Adds(<<hundreds>>, hundreds) /\ Adds(<<tens>>, tens)
      /\ Adds(<<ones>>, ones) /\ Adds(e, tail)
  <2> HIDE DEF hundreds, tens, ones, tail
  <2> QED
    BY <1>2, AddsFew, Zenon
<1> HIDE DEF hundreds, tens, ones, tail, e
<1>5. Adds(h, H) /\ Adds(t, T) /\ Adds(o, O)
  BY <1>4, Zenon
<1> HIDE DEF h, t, o, H, T, O
<1>6. Adds(h \o e, H + tail) /\ Adds(h \o (t \o o), H + (T + O))
  BY <1>4, <1>5, AddsBoth
<1> QED
  BY <1>1, <1>3, <1>6, Zenon

\* A group of three digits, and the name of its scale if there is something to
\* name.
NamesScale(s) == s \in Nat /\ s >= 1000
SaysGroup(words, g, scale) ==
  \/ g > 0 /\ \E u : Adds(u, g) /\ words = Append(u, scale)
  \/ g = 0 /\ words = <<>>

\* What integer_words pushes for a scale says the group of that scale.
LEMMA GroupSaid ==
  ASSUME NEW n, NEW scale, (n \div scale) % Thousand \in ThreeDigits
  PROVE  SaysGroup(Thousands(n, scale), (n \div scale) % Thousand, scale)
<1> DEFINE g == (n \div scale) % Thousand
<1>1. Thousands(n, scale) = IF g > 0 THEN Append(UnderThousand(g), scale) ELSE <<>>
  BY DEF Thousands
<1>2. g \in ThreeDigits
  OBVIOUS
<1> HIDE DEF g
<1>3. g > 0 \/ (g = 0 /\ ~(g > 0))
  BY <1>2 DEF ThreeDigits
<1>4. Adds(UnderThousand(g), g)
  BY <1>2, GroupHeard, Zenon
<1>5. SaysGroup(Thousands(n, scale), g, scale)
  BY <1>1, <1>3, <1>4, Zenon DEF SaysGroup
<1> QED
  BY <1>5, Zenon DEF g

\* A listener adds the group times its scale and starts on the next group.
LEMMA ScaleHeard ==
  ASSUME NEW w, NEW x, Hears(w, x, 0), NEW scale, NamesScale(scale),
         NEW g \in Nat, NEW words, SaysGroup(words, g, scale)
  PROVE  words \in Seq(Nat) /\ Hears(w \o words, x + g * scale, 0)
<1>1. w \in Seq(Nat) /\ x \in Nat /\ scale \in Nat /\ scale >= 1000
  BY DEF Hears, NamesScale
<1>2. CASE g = 0 /\ words = <<>>
  <2>1. x + 0 * scale = x /\ w \o <<>> = w /\ <<>> \in Seq(Nat)
    BY <1>1
  <2> QED
    BY <1>2, <2>1, Zenon
<1>3. CASE g > 0 /\ \E u : Adds(u, g) /\ words = Append(u, scale)
  <2>1. PICK u : Adds(u, g) /\ words = Append(u, scale)
    BY <1>3
  <2>2. PICK z : z = 0
    OBVIOUS
  <2>3. z \in Nat /\ z + g = g /\ Hears(w, x, z)
    BY <2>2
  <2>4. u \in Seq(Nat) /\ Hears(w \o u, x, z + g)
    BY <1>1, <2>1, <2>3, Zenon DEF Adds
  <2>5. Hears(w \o u, x, g)
    BY <2>3, <2>4, Zenon
  <2>6. Hears(Append(w \o u, scale), x + g * scale, 0)
    BY <1>1, <2>5, OneWord
  <2>7. w \o Append(u, scale) = Append(w \o u, scale) /\ Append(u, scale) \in Seq(Nat)
    BY <1>1, <2>4
  <2> QED
    BY <2>1, <2>6, <2>7, Zenon
<1> QED
  BY <1>2, <1>3 DEF SaysGroup

\* What integer_words can say, its billions being below a thousand.
Speakable(n) == n \in Nat /\ n < 1000 * Billion

\* A number in groups of three digits.
LEMMA Groups ==
  ASSUME NEW n, Speakable(n)
  PROVE  /\ n \in Nat /\ n % Thousand \in ThreeDigits /\ (n \div Thousand) % Thousand \in ThreeDigits
         /\ (n \div Million) % Thousand \in ThreeDigits
         /\ (n \div Billion) % Thousand \in ThreeDigits
         /\ n = ((n \div Billion) % Thousand) * Billion + ((n \div Million) % Thousand) * Million
                + ((n \div Thousand) % Thousand) * Thousand + (n % Thousand)
<1>1. n \in Nat /\ n < 1000000000000
  BY SMT DEF Speakable, Billion
<1>2. /\ n % 1000 \in 0 .. 999 /\ (n \div 1000) % 1000 \in 0 .. 999
      /\ (n \div 1000000) % 1000 \in 0 .. 999 /\ (n \div 1000000000) % 1000 \in 0 .. 999
  BY <1>1, SMT
<1>3. n = ((n \div 1000000000) % 1000) * 1000000000 + ((n \div 1000000) % 1000) * 1000000
          + ((n \div 1000) % 1000) * 1000 + (n % 1000)
  BY <1>1, SMT
<1> QED
  BY <1>1, <1>2, <1>3, SMT DEF Thousand, Million, Billion, ThreeDigits

\* integer_words says its number.
LEMMA WordsSayNumbers ==
  ASSUME NEW n, Speakable(n)
  PROVE  Understood(IntegerWords(n)) = n
<1> DEFINE a == Thousands(n, Billion)
           b == Thousands(n, Million)
           c == Thousands(n, Thousand)
           d == IF n % Thousand # 0 THEN UnderThousand(n % Thousand) ELSE <<>>
           A == (n \div Billion) % Thousand
           B == (n \div Million) % Thousand
           C == (n \div Thousand) % Thousand
           D == n % Thousand
<1>1. /\ n \in Nat /\ A \in ThreeDigits /\ B \in ThreeDigits /\ C \in ThreeDigits /\ D \in ThreeDigits
      /\ n = A * Billion + B * Million + C * Thousand + D
  BY Groups, Zenon
<1>2. NamesScale(Billion) /\ NamesScale(Million) /\ NamesScale(Thousand)
  BY SMT DEF NamesScale, Thousand, Million, Billion
<1>3. SaysGroup(a, A, Billion) /\ SaysGroup(b, B, Million) /\ SaysGroup(c, C, Thousand)
  BY <1>1, GroupSaid, Zenon
<1>4. (D = 0 /\ d = <<>>) \/ (D # 0 /\ d = UnderThousand(D))
  BY Zenon
<1>5. n # 0 => IntegerWords(n) = ((a \o b) \o c) \o d
  BY Zenon DEF IntegerWords
<1> HIDE DEF a, b, c, d, A, B, C, D
<1>6. /\ A \in Nat /\ B \in Nat /\ C \in Nat /\ D \in Nat
      /\ Thousand \in Nat /\ Million \in Nat /\ Billion \in Nat
  BY <1>1, <1>2 DEF NamesScale, ThreeDigits
<1>7. \A w, x, y : Hears(w, x, y) => Understood(w) = x + y
  BY DEF Hears, Understood
<1>8. CASE n = 0
  <2>1. IntegerWords(n) = <<0>>
    BY <1>8, SMT DEF IntegerWords
  <2>2. 0 \in ThreeDigits /\ 0 \in Nat /\ <<>> \in Seq(Nat)
        /\ <<>> \o <<0>> = <<0>> /\ 0 + (0 + 0) = 0
    BY DEF ThreeDigits
  <2>3. Hears(<<>> \o <<0>>, 0, 0 + 0)
    BY <2>2, NoWords, AddsFew, Zenon DEF Adds
  <2>4. Understood(<<>> \o <<0>>) = 0 + (0 + 0)
    BY <1>7, <2>3, Zenon
  <2> QED
    BY <1>8, <2>1, <2>2, <2>4, Zenon
<1>9. CASE n # 0
  <2>1. a \in Seq(Nat) /\ Hears(<<>> \o a, 0 + A * Billion, 0)
    BY <1>2, <1>3, <1>6, NoWords, ScaleHeard, Zenon
  <2>2. <<>> \o a = a
    BY <2>1
  <2>3. Hears(a, 0 + A * Billion, 0)
    BY <2>1, <2>2, Zenon
  <2>4. Hears(a \o b, (0 + A * Billion) + B * Million, 0)
    BY <1>2, <1>3, <1>6, <2>3, ScaleHeard, Zenon
  <2>5. Hears((a \o b) \o c, ((0 + A * Billion) + B * Million) + C * Thousand, 0)
    BY <1>2, <1>3, <1>6, <2>4, ScaleHeard, Zenon
  <2>6. PICK w, x : w = (a \o b) \o c /\ x = ((0 + A * Billion) + B * Million) + C * Thousand
    OBVIOUS
  <2>7. Hears(w, x, 0)
    BY <2>5, <2>6, Zenon
  <2>8. x + D = n
    <3>1. A * Billion \in Nat /\ B * Million \in Nat /\ C * Thousand \in Nat
      BY <1>6
    <3> QED
      BY <1>1, <1>6, <2>6, <3>1
  <2>9. Hears(w \o d, x, D)
    <3>1. CASE D = 0 /\ d = <<>>
      <4>1. w \o <<>> = w
        BY <2>7 DEF Hears
      <4> QED
        BY <2>7, <3>1, <4>1, Zenon
    <3>2. CASE D # 0 /\ d = UnderThousand(D)
      <4>1. Adds(d, D)
        BY <1>1, <3>2, GroupHeard, Zenon
      <4>2. w \in Seq(Nat) /\ x \in Nat /\ 0 \in Nat /\ 0 + D = D
        BY <1>6, <2>7 DEF Hears
      <4>3. Hears(w \o d, x, 0 + D)
        BY <2>7, <4>1, <4>2, Zenon DEF Adds
      <4> QED
        BY <4>2, <4>3, Zenon
    <3> QED
      BY <1>4, <3>1, <3>2, Zenon
  <2>10. Understood(w \o d) = x + D
    BY <1>7, <2>9, Zenon
  <2>11. IntegerWords(n) = w \o d
    BY <1>5, <1>9, <2>6, Zenon
  <2> QED
    BY <2>8, <2>10, <2>11, Zenon
<1> QED
  BY <1>8, <1>9

\* decimal_words says the hundredths that it is given.
LEMMA DecimalSaysHundredths ==
  ASSUME NEW h \in Nat, h \div 100 < Billion
  PROVE  Decimal(h) = h
<1> DEFINE whole == h \div 100
           fraction == h % 100
           tenths == fraction \div 10
<1>1. /\ fraction \in 0 .. 99 /\ h = 100 * whole + fraction /\ whole \in Nat
      /\ tenths \in 0 .. 9
      /\ fraction % 10 = 0 => 10 * tenths = fraction
  OBVIOUS
<1>2. Speakable(whole) /\ Speakable(fraction) /\ Speakable(tenths)
  BY <1>1, SMT DEF Speakable, Billion
<1>3. Decimal(h) = 100 * Understood(IntegerWords(whole)) +
        (IF fraction = 0 THEN 0
         ELSE IF fraction % 10 = 0 THEN 10 * Understood(IntegerWords(tenths))
         ELSE Understood(IntegerWords(fraction)))
  BY DEF Decimal
<1> HIDE DEF whole, fraction, tenths
<1>4. /\ Understood(IntegerWords(whole)) = whole /\ Understood(IntegerWords(fraction)) = fraction
      /\ Understood(IntegerWords(tenths)) = tenths
  BY <1>2, WordsSayNumbers, Zenon
<1>5. Decimal(h) = 100 * whole +
        (IF fraction = 0 THEN 0 ELSE IF fraction % 10 = 0 THEN 10 * tenths ELSE fraction)
  BY <1>3, <1>4, Zenon
<1> QED
  BY <1>1, <1>5

\* The sum of numbers that are not negative is not negative.
LEMMA SumNotNegative ==
  ASSUME NEW S, IsFiniteSet(S), \A x \in S : Shown(x) \in Nat
  PROVE  SumOf(S) \in Nat
<1> DEFINE P == {n \in Nat : \A T \in SUBSET S : Cardinality(T) <= n => SumOf(T) \in Nat}
<1>0. \A T \in SUBSET S : IsFiniteSet(T) /\ Cardinality(T) \in Nat
  BY FS_Subset, FS_CardinalityType
<1>1. 0 \in P
  <2> SUFFICES ASSUME NEW T \in SUBSET S, Cardinality(T) <= 0 PROVE SumOf(T) \in Nat
    OBVIOUS
  <2>1. T = {}
    BY <1>0, FS_EmptySet
  <2> QED
    BY <2>1, SumOfNone
<1>2. ASSUME NEW n \in Nat, n \in P PROVE n + 1 \in P
  <2> SUFFICES ASSUME NEW T \in SUBSET S, Cardinality(T) <= n + 1 PROVE SumOf(T) \in Nat
    OBVIOUS
  <2> DEFINE c == PickOne(T)
  <2>1. SUFFICES ASSUME T # {} PROVE SumOf(T) \in Nat
    BY SumOfNone
  <2>2. /\ c \in T /\ Shown(c) \in Nat /\ Cardinality(T) \in Nat
        /\ Cardinality(T \ {c}) = Cardinality(T) - 1
    BY <1>0, <2>1, PickedApart
  <2>3. SumOf(T) = Shown(c) + SumOf(T \ {c})
    BY <1>0, <2>1, SumStep
  <2> HIDE DEF c
  <2>4. SumOf(T \ {c}) \in Nat
    BY <1>2, <2>2
  <2> QED
    BY <2>2, <2>3, <2>4
<1> HIDE DEF P
<1>3. Cardinality(S) \in P
  BY <1>0, <1>1, <1>2, SumFold!NatSetInduction
<1> QED
  BY <1>3 DEF P

\* A value that is reported is a number, and negative only if it is a flow.
LEMMA ReportedValue ==
  ASSUME EnergyInv, NEW name \in MetricNames, CollectMetric(name).status = "fresh"
  PROVE  /\ CollectMetric(name).value \in Int
         /\ ~Signed(name) => CollectMetric(name).value \in Nat
<1> DEFINE sources == ToSet(Sources(name))
           value == CollectMetric(name).value
<1>1. /\ \A l \in sources : IsShown(l) /\ Valid(Shown(l), name) /\ Recent(l)
      /\ value = SumOf(sources) /\ SumOf(sources) \in -MaxFinite .. MaxFinite
  BY MetricIsWhole DEF WholeOrNothing, SumOf
<1>2. value \in Int
  <2> HIDE DEF sources, value
  <2> QED
    BY <1>1, EnergyAssumption
<1>3. sources \subseteq Leaves /\ IsFiniteSet(sources)
  <2>1. name \in SourceLists
    BY DEF SourceLists
  <2>2. Distinct(Sources(name)) /\ sources \subseteq Leaves
    BY <2>1, SourceFacts DEF Distinct
  <2> QED
    BY <2>2, DistinctCount
<1>4. ASSUME ~Signed(name) PROVE value \in Nat
  <2>1. ASSUME NEW l \in sources PROVE Shown(l) \in Nat
    <3>1. Shown(l) = Value(l) /\ Value(l) \in Int \cup {Text} /\ Valid(Shown(l), name)
      BY <1>1, <1>3, ReadingFacts DEF Recent
    <3>2. Shown(l) # Text /\ Shown(l) >= 0
      BY <1>4, <3>1 DEF Valid
    <3> QED
      BY <3>1, <3>2
  <2> HIDE DEF sources, value
  <2> QED
    BY <1>1, <1>3, <2>1, SumNotNegative
<1> QED
  BY <1>2, <1>4 DEF value

\* Rounding loses less than half a step.
LEMMA RoundedFacts ==
  ASSUME NEW n \in Nat
  PROVE  /\ Rounded(n, 2) \in Nat /\ Rounded(n, 20) \in Nat
         /\ n >= 2 => Rounded(n, 2) > 0
         /\ n >= 2000 => Rounded(n, 20) > 0
BY DEF Rounded

Units == {"%", "W", "kWh"}

\* Amounts are numbers, none is zero unless it stands for less than one watt.
LEMMA AmountFacts ==
  ASSUME NEW v \in Nat, NEW unit \in Units
  PROVE  /\ SpokenAmount(v, unit).number \in Nat
         /\ unit = "W" /\ v >= 2 => SpokenAmount(v, unit).number > 0
<1>1. Rounded(v, 2) \in Nat /\ Rounded(v, 20) \in Nat
      /\ (v >= 2 => Rounded(v, 2) > 0) /\ (v >= 2000 => Rounded(v, 20) > 0)
  BY RoundedFacts
<1>2. CASE unit = "W" /\ v >= 2000
  <2>1. SpokenAmount(v, unit).number = Rounded(v, 20)
    BY <1>2 DEF SpokenAmount
  <2> QED
    BY <1>1, <1>2, <2>1
<1>3. CASE unit = "W" /\ v < 2000
  <2>1. SpokenAmount(v, unit).number = 100 * Rounded(v, 2)
    BY <1>3 DEF SpokenAmount
  <2> QED
    BY <1>1, <1>3, <2>1
<1>4. CASE unit = "%" \/ unit = "kWh"
  <2>1. SpokenAmount(v, unit).number = 50 * v
    BY <1>4 DEF SpokenAmount
  <2> QED
    BY <1>4, <2>1
<1> QED
  BY <1>2, <1>3, <1>4 DEF Units

\* Both languages say the same amount, below the numbers that both leave to
\* scientific notation.
LEMMA AmountsAgree ==
  ASSUME NEW v \in Nat, NEW unit \in Units, SpokenAmount(v, unit).number \div 100 < Billion
  PROVE  RuAmount(v, unit) = SpokenAmount(v, unit)
<1>1. Rounded(v, 2) \in Nat /\ Rounded(v, 20) \in Nat
  BY RoundedFacts
<1>2. CASE unit = "W" /\ v >= 2000
  <2>1. /\ SpokenAmount(v, unit) = [number |-> Rounded(v, 20), unit |-> "kilowatts"]
        /\ RuAmount(v, unit) = [number |-> Decimal(Rounded(v, 20)), unit |-> "kilowatts"]
    BY <1>2 DEF SpokenAmount, RuAmount
  <2>2. Decimal(Rounded(v, 20)) = Rounded(v, 20)
    BY <1>1, <2>1, DecimalSaysHundredths
  <2> QED
    BY <2>1, <2>2
<1>3. CASE unit = "W" /\ v < 2000
  <2> DEFINE r == 100 * Rounded(v, 2)
  <2>1. /\ SpokenAmount(v, unit) = [number |-> r, unit |-> "watts"]
        /\ RuAmount(v, unit) = [number |-> Decimal(r), unit |-> "watts"]
    BY <1>3 DEF SpokenAmount, RuAmount
  <2>2. r \in Nat
    BY <1>1
  <2> HIDE DEF r
  <2>3. Decimal(r) = r
    BY <2>1, <2>2, DecimalSaysHundredths
  <2> QED
    BY <2>1, <2>3
<1>4. CASE unit = "%" \/ unit = "kWh"
  <2> DEFINE r == 50 * v
             u == IF unit = "%" THEN "percent" ELSE "kilowatt hours"
  <2>1. /\ SpokenAmount(v, unit) = [number |-> r, unit |-> u]
        /\ RuAmount(v, unit) = [number |-> Decimal(r), unit |-> u]
    BY <1>4 DEF SpokenAmount, RuAmount
  <2>2. r \in Nat
    OBVIOUS
  <2> HIDE DEF r, u
  <2>3. Decimal(r) = r
    BY <2>1, <2>2, DecimalSaysHundredths
  <2> QED
    BY <2>1, <2>3
<1> QED
  BY <1>2, <1>3, <1>4 DEF Units

-----------------------------------------------------------------------------
(* What the reports of the metrics say.                                      *)

\* Each metric is one sentence, which gives a reason unless it gives a value.
OneSentence(text, fresh) == \E f : text = <<f>> /\ (f.says \in Reasons <=> ~fresh)

\* report, brief_metric and directional_power_report say one sentence each.
LEMMA MetricSentence ==
  ASSUME NEW name
  PROVE  LET fresh == CollectMetric(name).status = "fresh" IN
         /\ OneSentence(Report(name), fresh) /\ OneSentence(DirectionalReport(name), fresh)
         /\ BriefMetric(name) = Report(name)
<1> DEFINE metric == CollectMetric(name)
           v == metric.value
<1>1. metric.status \in Statuses
  BY MetricCases
<1>2. /\ \A w : Fact(name, w).says = w
      /\ \A w, a : Amount(name, w, a).says = w
  BY FactFields, Zenon
<1> HIDE DEF metric
<1>3. CASE metric.status = "fresh"
  <2>1. Report(name) = <<Amount(name, "is", SpokenAmount(v, Unit(name)))>>
    BY <1>3 DEF Report, metric
  <2>2. BriefMetric(name) = <<Amount(name, "is", SpokenAmount(v, Unit(name)))>>
    BY <1>3, Zenon DEF BriefMetric, metric
  <2>3. \E says \in {"is", "flows in", "flows out"} : \E amount :
          DirectionalReport(name) = <<Amount(name, says, amount)>>
    BY <1>3, Zenon DEF DirectionalReport, metric
  <2>4. \A says \in {"is", "flows in", "flows out"} : says \notin Reasons
    BY DEF Reasons
  <2>5. OneSentence(Report(name), TRUE)
    BY <1>2, <2>1, <2>4, Zenon DEF OneSentence
  <2>6. OneSentence(DirectionalReport(name), TRUE)
    <3>1. PICK f : DirectionalReport(name) = <<f>> /\ f.says \in {"is", "flows in", "flows out"}
      BY <1>2, <2>3, Zenon
    <3> QED
      BY <2>4, <3>1, Zenon DEF OneSentence
  <2> QED
    BY <1>3, <2>1, <2>2, <2>5, <2>6, Zenon DEF metric
<1>4. CASE metric.status # "fresh"
  <2>1. \E w \in Reasons : Report(name) = <<Fact(name, w)>>
    BY <1>1, <1>4 DEF Report, Reasons, Statuses, metric
  <2>2. BriefMetric(name) = Report(name) /\ DirectionalReport(name) = Report(name)
    BY <1>4, Zenon DEF BriefMetric, DirectionalReport, metric
  <2>3. OneSentence(Report(name), FALSE)
    BY <1>2, <2>1, Zenon DEF OneSentence
  <2> QED
    BY <1>4, <2>2, <2>3, Zenon DEF metric
<1> QED
  BY <1>3, <1>4

\* The report of the alarms gives a reason unless the coverage is whole.
LEMMA AlarmSentence ==
  ASSUME EnergyInv
  PROVE  (\E f \in ToSet(AlarmReport) : f.says \in Reasons) <=> BuildAlarms.status # "fresh"
<1> DEFINE active == BuildAlarms.active
           spoken == ToSet(Spoken(active))
           counts == {Count("alarms", Len(Severe(active))),
                      Count("warnings", Len(active) - Len(Severe(active))),
                      Count("more", Len(active) - SpokenLimit)}
           some == IF Len(active) > SpokenLimit THEN counts ELSE {}
           alerts == {Alert(l) : l \in spoken}
           coverage == ToSet(Coverage(BuildAlarms))
<1>1. ToSet(AlarmReport) = some \cup alerts \cup coverage
  BY ReportFacts
<1>2. \A f \in some : f.says \notin Reasons
  <2>1. \A f \in counts : f.says \in {"alarms", "warnings", "more"}
    BY CountsSay
  <2> HIDE DEF counts
  <2> QED
    BY <2>1 DEF Reasons
<1>3. \A f \in alerts : f.says \notin Reasons
  <2>1. Distinct(active) /\ ToSet(active) = {l \in ToSet(AlarmSources) : connected /\ Raised(l)}
    BY AlarmFacts
  <2>2. \A l \in ToSet(active) : Warning(l) <=> ~Alarming(l)
    BY <2>1, ActiveFacts
  <2>3. spoken \subseteq ToSet(active)
    BY <2>1, <2>2, SpokenFacts
  <2>4. \A l \in spoken : Severity(l) \in {"warning", "alarm"}
    BY <2>1, <2>3 DEF Raised, Severity
  <2>5. \A l : Alert(l).says = Severity(l)
    BY FactFields, Zenon
  <2> HIDE DEF spoken
  <2>6. ASSUME NEW l \in spoken PROVE Alert(l).says \notin Reasons
    BY <2>4, <2>5 DEF Reasons
  <2> QED
    BY <2>6, Zenon
<1>4. BuildAlarms.status = "fresh" => \A f \in coverage : f.says \notin Reasons
  <2>1. BuildAlarms.status = "fresh" => coverage \subseteq {Fact("alarms", "none active")}
    BY CoverageFacts
  <2>2. Fact("alarms", "none active").says = "none active"
    BY FactFields, Zenon
  <2> HIDE DEF coverage
  <2> QED
    BY <2>1, <2>2 DEF Reasons
<1>5. BuildAlarms.status # "fresh" => \E f \in coverage : f.says \in Reasons
  <2>1. BuildAlarms.status # "fresh" => \E w \in CoverageReasons : coverage = {Fact("alarms", w)}
    BY CoverageFacts
  <2>2. \A w \in CoverageReasons : Fact("alarms", w).says = w /\ w \in Reasons
    BY FactFields, Zenon DEF CoverageReasons, Reasons
  <2> HIDE DEF coverage
  <2> QED
    BY <2>1, <2>2, Zenon
<1> HIDE DEF some, alerts, coverage
<1> QED
  BY <1>1, <1>2, <1>3, <1>4, <1>5

\* The worst of several statuses.
LEMMA WorstIsFresh ==
  ASSUME NEW S, S \subseteq Statuses
  PROVE  WorstStatus(S) = "fresh" <=> \A s \in S : s = "fresh"
BY DEF WorstStatus, Statuses

\* Three texts one after the other.
LEMMA ThreeTexts ==
  ASSUME NEW T, NEW r \in Seq(T), NEW s \in Seq(T), NEW t \in Seq(T)
  PROVE  /\ r \o s \o t \in Seq(T)
         /\ ToSet(r \o s \o t) = ToSet(r) \cup ToSet(s) \cup ToSet(t)
<1>1. PICK u : u = r \o s
  OBVIOUS
<1>2. u \in Seq(T)
  BY <1>1
<1>3. ToSet(u) = ToSet(r) \cup ToSet(s)
  BY <1>1, ConcatFacts, Zenon
<1>4. u \o t \in Seq(T) /\ ToSet(u \o t) = ToSet(u) \cup ToSet(t)
  BY <1>2, ConcatFacts
<1> QED
  BY <1>1, <1>3, <1>4, Zenon

\* The facts of a text are the elements of the sequence.
LEMMA FactsAreListed == \A text : FactsOf(text) = ToSet(text)
BY DEF FactsOf, ToSet

\* The status of the report and the reasons that its texts give.
LEMMA StatusFollows ==
  ASSUME EnergyInv, connected
  PROVE  /\ (ReportStatus = "fresh") <=> ~GivesReason(StatusText)
         /\ FactsOf(BriefText) = FactsOf(StatusText)
<1> DEFINE a == Report("battery_soc")
           b == Report("solar_power")
           c == Report("solar_today")
           r == AlarmReport
           A == CollectMetric("battery_soc").status
           B == CollectMetric("solar_power").status
           C == CollectMetric("solar_today").status
           R == BuildAlarms.status
<1>1. /\ BriefMetric("battery_soc") = a /\ BriefMetric("solar_power") = b
      /\ BriefMetric("solar_today") = c
  BY MetricSentence
<1>2. /\ OneSentence(a, A = "fresh") /\ OneSentence(b, B = "fresh") /\ OneSentence(c, C = "fresh")
  BY MetricSentence
<1>3. StatusText = ((a \o b) \o c) \o r
  BY DEF StatusText
<1>4. BriefText = IF BuildAlarms.active = <<>> THEN ((a \o b) \o c) \o r ELSE r \o ((a \o b) \o c)
  BY <1>1, Zenon DEF BriefText
<1>5. (ReportStatus = "fresh") <=> A = "fresh" /\ B = "fresh" /\ C = "fresh" /\ R = "fresh"
  <2> DEFINE S == {A, B, C, R}
  <2>1. ReportStatus = WorstStatus(S)
    BY Zenon DEF ReportStatus
  <2>2. A \in Statuses /\ B \in Statuses /\ C \in Statuses /\ R \in Statuses
    BY MetricCases, AlarmFacts
  <2> HIDE DEF A, B, C, R
  <2>3. WorstStatus(S) = "fresh" <=> \A s \in S : s = "fresh"
    BY <2>2, WorstIsFresh
  <2> QED
    BY <2>1, <2>3
<1>6. r \in Seq(AlarmFact) /\ ((\E f \in ToSet(r) : f.says \in Reasons) <=> R # "fresh")
  BY ReportFacts, AlarmSentence
<1> HIDE DEF a, b, c, r, A, B, C, R
<1>7. PICK f, g, h : /\ a = <<f>> /\ (f.says \in Reasons <=> A # "fresh")
                     /\ b = <<g>> /\ (g.says \in Reasons <=> B # "fresh")
                     /\ c = <<h>> /\ (h.says \in Reasons <=> C # "fresh")
  BY <1>2, Zenon DEF OneSentence
<1> DEFINE T == AlarmFact \cup {f, g, h}
           m == (a \o b) \o c
<1>8. m \in Seq(T) /\ ToSet(m) = {f, g, h}
  <2>1. f \in T /\ g \in T /\ h \in T
    OBVIOUS
  <2> HIDE DEF T
  <2>2. a \in Seq(T) /\ ToSet(a) = {f} /\ b \in Seq(T) /\ ToSet(b) = {g}
        /\ c \in Seq(T) /\ ToSet(c) = {h}
    BY <1>7, <2>1, ShortTexts, Zenon
  <2>3. m \in Seq(T) /\ ToSet(m) = ToSet(a) \cup ToSet(b) \cup ToSet(c)
    BY <2>2, ThreeTexts
  <2> HIDE DEF m
  <2> QED
    BY <2>2, <2>3
<1>9. r \in Seq(T)
  BY <1>6
<1>10. StatusText = m \o r /\ (BriefText = m \o r \/ BriefText = r \o m)
  BY <1>3, <1>4, Zenon
<1> HIDE DEF T, m
<1>11. /\ ToSet(m \o r) = ToSet(m) \cup ToSet(r)
       /\ ToSet(r \o m) = ToSet(r) \cup ToSet(m)
  BY <1>8, <1>9, ConcatFacts
<1>12. FactsOf(StatusText) = {f, g, h} \cup ToSet(r) /\ FactsOf(BriefText) = FactsOf(StatusText)
  <2>1. ToSet(StatusText) = ToSet(m) \cup ToSet(r) /\ ToSet(BriefText) = ToSet(m) \cup ToSet(r)
    BY <1>10, <1>11
  <2> QED
    BY <1>8, <2>1, FactsAreListed
<1>13. GivesReason(StatusText) <=>
         \/ f.says \in Reasons \/ g.says \in Reasons \/ h.says \in Reasons
         \/ \E e \in ToSet(r) : e.says \in Reasons
  BY <1>12 DEF GivesReason
<1> QED
  BY <1>5, <1>6, <1>7, <1>12, <1>13

\* The same for the flow.
LEMMA FlowFollows ==
  ASSUME EnergyInv, connected
  PROVE  (FlowStatus = "fresh") <=> ~GivesReason(FlowText)
<1> DEFINE a == Report("load_power")
           b == DirectionalReport("grid_power")
           c == DirectionalReport("battery_power")
           A == CollectMetric("load_power").status
           B == CollectMetric("grid_power").status
           C == CollectMetric("battery_power").status
<1>1. /\ OneSentence(a, A = "fresh") /\ OneSentence(b, B = "fresh") /\ OneSentence(c, C = "fresh")
  BY MetricSentence
<1>2. FlowText = (a \o b) \o c
  BY DEF FlowText
<1>3. (FlowStatus = "fresh") <=> A = "fresh" /\ B = "fresh" /\ C = "fresh"
  <2> DEFINE N == {"load_power", "grid_power", "battery_power"}
             S == {CollectMetric(n).status : n \in N}
  <2>1. FlowStatus = WorstStatus(S)
    BY DEF FlowStatus
  <2>2. S \subseteq Statuses
    BY MetricCases
  <2>3. WorstStatus(S) = "fresh" <=> \A s \in S : s = "fresh"
    <3> HIDE DEF S
    <3> QED
      BY <2>2, WorstIsFresh
  <2>4. (\A s \in S : s = "fresh") <=> \A n \in N : CollectMetric(n).status = "fresh"
    BY Zenon
  <2> QED
    BY <2>1, <2>3, <2>4
<1> HIDE DEF a, b, c, A, B, C
<1>4. PICK f, g, h : /\ a = <<f>> /\ (f.says \in Reasons <=> A # "fresh")
                     /\ b = <<g>> /\ (g.says \in Reasons <=> B # "fresh")
                     /\ c = <<h>> /\ (h.says \in Reasons <=> C # "fresh")
  BY <1>1, Zenon DEF OneSentence
<1> DEFINE T == {f, g, h}
<1>5. ToSet((a \o b) \o c) = {f, g, h}
  <2>1. f \in T /\ g \in T /\ h \in T
    OBVIOUS
  <2> HIDE DEF T
  <2>2. a \in Seq(T) /\ ToSet(a) = {f} /\ b \in Seq(T) /\ ToSet(b) = {g}
        /\ c \in Seq(T) /\ ToSet(c) = {h}
    BY <1>4, <2>1, ShortTexts, Zenon
  <2>3. ToSet((a \o b) \o c) = ToSet(a) \cup ToSet(b) \cup ToSet(c)
    BY <2>2, ThreeTexts
  <2> QED
    BY <2>2, <2>3
<1>6. FactsOf(FlowText) = {f, g, h}
  BY <1>2, <1>5, FactsAreListed
<1>7. GivesReason(FlowText) <=> f.says \in Reasons \/ g.says \in Reasons \/ h.says \in Reasons
  BY <1>6 DEF GivesReason
<1> QED
  BY <1>3, <1>4, <1>7

\* The statuses and the texts agree in every state, connected or not.
LEMMA StatusesMatch ==
  ASSUME EnergyInv
  PROVE  StatusMatchesText
<1>1. CASE connected
  <2>1. FlowEnabled => ((FlowStatus = "fresh") <=> ~GivesReason(FlowText))
    BY <1>1, FlowFollows
  <2>2. GivesReason(BriefText) <=> GivesReason(StatusText)
    BY <1>1, StatusFollows DEF GivesReason
  <2> QED
    BY <1>1, <2>1, <2>2, StatusFollows DEF StatusMatchesText
<1>2. CASE ~connected
  <2>1. /\ StatusText = Unreachable /\ BriefText = Unreachable /\ ReportStatus = "unavailable"
        /\ FlowText = <<Fact("flow", "disconnected")>> /\ FlowStatus = "unavailable"
    BY <1>2 DEF StatusText, BriefText, ReportStatus, FlowText, FlowStatus
  <2>2. \A name : GivesReason(<<Fact(name, "disconnected")>>)
    <3>1. \A name : Fact(name, "disconnected").says = "disconnected"
      BY FactFields, Zenon
    <3>2. \A f : f \in FactsOf(<<f>>)
      BY DEF FactsOf
    <3>3. "disconnected" \in Reasons
      BY DEF Reasons
    <3> QED
      BY <3>1, <3>2, <3>3, Zenon DEF GivesReason
  <2>3. GivesReason(Unreachable)
    BY <2>2 DEF Unreachable
  <2> QED
    BY <2>1, <2>2, <2>3 DEF StatusMatchesText
<1> QED
  BY <1>1, <1>2

\* A flow that is not zero has a direction and an amount.
LEMMA FlowsDirected ==
  ASSUME EnergyInv
  PROVE  FlowIsDirected
<1> SUFFICES ASSUME NEW name \in {"grid_power", "battery_power"},
                    CollectMetric(name).status = "fresh", CollectMetric(name).value # 0
             PROVE  LET v == CollectMetric(name).value
                        fact == DirectionalReport(name)[1]
                    IN  /\ fact.says = IF v > 0 THEN "flows in" ELSE "flows out"
                        /\ fact.amount = LessThanOne \/ fact.amount.number > 0
  BY DEF FlowIsDirected
<1> DEFINE v == CollectMetric(name).value
           amount == IF Magnitude(v) > 0 /\ Magnitude(v) < 2 THEN LessThanOne
                     ELSE SpokenAmount(Magnitude(v), "W")
           says == IF v > 0 THEN "flows in" ELSE "flows out"
<1>1. v \in Int /\ v # 0
  BY ReportedValue DEF MetricNames
<1>2. DirectionalReport(name) = <<Amount(name, says, amount)>>
  <2>1. DirectionalReport(name) = IF v > 0 THEN <<Amount(name, "flows in", amount)>>
                                  ELSE <<Amount(name, "flows out", amount)>>
    BY Zenon DEF DirectionalReport
  <2> HIDE DEF v, amount
  <2> QED
    BY <2>1, Zenon
<1> HIDE DEF v
<1>3. Magnitude(v) \in Nat /\ Magnitude(v) > 0
  BY <1>1 DEF Magnitude
<1>4. amount = LessThanOne \/ amount.number > 0
  <2>1. PICK m : m = Magnitude(v)
    OBVIOUS
  <2>2. m \in Nat /\ m > 0 /\ amount = IF m > 0 /\ m < 2 THEN LessThanOne ELSE SpokenAmount(m, "W")
    BY <1>3, <2>1
  <2>3. m >= 2 => SpokenAmount(m, "W").number > 0
    BY <2>2, AmountFacts DEF Units
  <2> QED
    BY <2>2, <2>3
<1> HIDE DEF says, amount
<1>5. PICK f : f = Amount(name, says, amount)
  OBVIOUS
<1>6. f.says = says /\ f.amount = amount
  BY <1>5 DEF Amount
<1>7. DirectionalReport(name)[1] = f
  BY <1>2, <1>5
<1> QED
  BY <1>4, <1>6, <1>7, Zenon DEF v, says

-----------------------------------------------------------------------------
(* The two languages.  From a thousand million on, both leave words for      *)
(* scientific notation (decimal and amount), which the texts here do not     *)
(* model: InWords says that every amount and every count stays below.        *)

InWords ==
  /\ Len(AlarmSources) < Billion
  /\ \A name \in MetricNames :
       LET metric == CollectMetric(name)
       IN  metric.status = "fresh" =>
             SpokenAmount(Magnitude(metric.value), Unit(name)).number \div 100 < Billion

\* metric_report says what report says, and amount what spoken_amount says.
LEMMA ReportsAgree ==
  ASSUME EnergyInv, InWords, NEW name \in MetricNames
  PROVE  /\ CollectMetric(name).status # "fresh" \/ ~Signed(name) => RuReport(name) = Report(name)
         /\ CollectMetric(name).status = "fresh" =>
              RuAmount(Magnitude(CollectMetric(name).value), Unit(name)) =
              SpokenAmount(Magnitude(CollectMetric(name).value), Unit(name))
<1> DEFINE metric == CollectMetric(name)
           v == metric.value
<1>1. metric.status \in Statuses
  BY MetricCases
<1>2. Unit(name) \in Units
  BY DEF Unit, Units
<1>3. ASSUME metric.status = "fresh"
      PROVE  RuAmount(Magnitude(v), Unit(name)) = SpokenAmount(Magnitude(v), Unit(name))
  <2>1. v \in Int
    BY <1>3, ReportedValue
  <2>2. SpokenAmount(Magnitude(v), Unit(name)).number \div 100 < Billion
    BY <1>3 DEF InWords
  <2> HIDE DEF v
  <2>3. Magnitude(v) \in Nat
    BY <2>1 DEF Magnitude
  <2> QED
    BY <1>2, <2>2, <2>3, AmountsAgree
<1>4. CASE metric.status # "fresh"
  <2> HIDE DEF metric
  <2>1. RuReport(name) = Report(name)
    BY <1>1, <1>4 DEF RuReport, Report, Statuses, metric
  <2> QED
    BY <1>4, <2>1 DEF metric
<1>5. CASE metric.status = "fresh"
  <2>1. ASSUME ~Signed(name) PROVE RuReport(name) = Report(name)
    <3>1. v \in Nat
      BY <1>5, <2>1, ReportedValue
    <3>2. Magnitude(v) = v
      <4> HIDE DEF v
      <4> QED
        BY <3>1 DEF Magnitude
    <3>3. Report(name) = <<Amount(name, "is", SpokenAmount(v, Unit(name)))>>
      BY <1>5 DEF Report
    <3>4. RuReport(name) = <<Amount(name, "is", RuAmount(v, Unit(name)))>>
      BY <1>5, Zenon DEF RuReport
    <3> QED
      BY <1>3, <1>5, <3>2, <3>3, <3>4, Zenon
  <2> QED
    BY <1>3, <1>5, <2>1
<1> QED
  BY <1>4, <1>5

\* directional_report says what directional_power_report says.
LEMMA DirectionsAgree ==
  ASSUME EnergyInv, InWords, NEW name \in {"grid_power", "battery_power"}
  PROVE  RuDirectionalReport(name) = DirectionalReport(name)
<1> DEFINE metric == CollectMetric(name)
           v == metric.value
           m == Magnitude(v)
<1>1. name \in MetricNames /\ Unit(name) = "W"
  BY DEF MetricNames, Unit
<1>2. CASE metric.status # "fresh"
  BY <1>1, <1>2, ReportsAgree DEF RuDirectionalReport, DirectionalReport
<1>3. CASE metric.status = "fresh"
  <2>1. v \in Int /\ RuAmount(m, "W") = SpokenAmount(m, "W")
    BY <1>1, <1>3, ReportedValue, ReportsAgree
  <2>2. SpokenAmount(0, "W") = [number |-> 0, unit |-> "watts"]
    BY DEF SpokenAmount, Rounded
  <2> DEFINE ru == IF m < 2 THEN LessThanOne ELSE RuAmount(m, "W")
             en == IF m > 0 /\ m < 2 THEN LessThanOne ELSE SpokenAmount(m, "W")
  <2>3. RuDirectionalReport(name) =
          IF v = 0 THEN <<Amount(name, "is", [number |-> 0, unit |-> "watts"])>>
          ELSE <<Amount(name, IF v > 0 THEN "flows in" ELSE "flows out", ru)>>
    BY <1>3, Zenon DEF RuDirectionalReport
  <2>4. DirectionalReport(name) =
          IF v = 0 THEN <<Amount(name, "is", SpokenAmount(0, "W"))>>
          ELSE IF v > 0 THEN <<Amount(name, "flows in", en)>>
          ELSE <<Amount(name, "flows out", en)>>
    BY <1>3, Zenon DEF DirectionalReport
  <2> HIDE DEF v
  <2>5. v # 0 => m > 0
    BY <2>1 DEF Magnitude
  <2> HIDE DEF m
  <2>6. v # 0 => ru = en
    BY <2>1, <2>5, Zenon
  <2> HIDE DEF ru, en
  <2>7. CASE v = 0
    BY <2>2, <2>3, <2>4, <2>7, Zenon
  <2>8. CASE v # 0
    <3>1. ru = en
      BY <2>6, <2>8
    <3>2. CASE v > 0
      BY <2>3, <2>4, <2>8, <3>1, <3>2, Zenon
    <3>3. CASE ~(v > 0)
      BY <2>3, <2>4, <2>8, <3>1, <3>3, Zenon
    <3> QED
      BY <3>2, <3>3
  <2> QED
    BY <2>7, <2>8
<1> QED
  BY <1>2, <1>3

\* alarm_report says what Alarms::report says, its counts included.
LEMMA AlarmsAgree ==
  ASSUME EnergyInv, InWords
  PROVE  RuAlarmReport = AlarmReport
<1> DEFINE alarms == BuildAlarms
           active == alarms.active
           severe == Severe(active)
           spoken == Spoken(active)
           number(n) == Understood(IntegerWords(n))
           named == [i \in DOMAIN spoken |-> Alert(spoken[i])]
           many == Len(active) > SpokenLimit
           total(s, w) == <<Count("alarms", s), Count("warnings", w)>>
           more(n) == <<Count("more", n)>>
           coverage == Coverage(alarms)
<1>1. Distinct(active) /\ ToSet(active) \subseteq ToSet(AlarmSources) /\ alarms.status \in Statuses
  BY AlarmFacts
<1>2. \A l \in ToSet(active) : Warning(l) <=> ~Alarming(l)
  BY AlarmFacts, ActiveFacts
<1>3. Len(active) \in Nat /\ Len(severe) \in Nat /\ Len(active) - Len(severe) \in Nat
      /\ SpokenLimit \in Nat
  <2>1. /\ Len(severe) \in Nat /\ Len(active) \in Nat
        /\ Len(Warnings(active)) = Len(active) - Len(severe)
    BY <1>1, <1>2, SeverityParts
  <2>2. Len(Warnings(active)) \in Nat
    BY <1>1, WarningFacts DEF Distinct
  <2> HIDE DEF active
  <2> QED
    BY <2>1, <2>2, EnergyAssumption
<1>4. Len(active) < Billion
  <2>1. Distinct(AlarmSources)
    BY SourceFacts DEF Distinct, SourceLists, AlarmSources
  <2>2. /\ IsFiniteSet(ToSet(AlarmSources)) /\ Cardinality(ToSet(AlarmSources)) = Len(AlarmSources)
        /\ Cardinality(ToSet(active)) = Len(active)
    BY <1>1, <2>1, DistinctCount
  <2>3. Len(active) <= Len(AlarmSources) /\ Len(AlarmSources) \in Nat
    <3> HIDE DEF active
    <3> QED
      BY <1>1, <2>1, <2>2, FS_Subset, DistinctCount
  <2>4. Billion \in Nat /\ Len(AlarmSources) < Billion
    BY SMT DEF InWords, Billion
  <2> HIDE DEF active
  <2> QED
    BY <1>3, <2>3, <2>4
<1>5. /\ number(Len(severe)) = Len(severe)
      /\ number(Len(active) - Len(severe)) = Len(active) - Len(severe)
      /\ many => number(Len(active) - SpokenLimit) = Len(active) - SpokenLimit
  <2> HIDE DEF active, severe
  <2>1. \A n \in Nat : n <= Len(active) => Speakable(n)
    BY <1>3, <1>4, SMT DEF Speakable, Billion
  <2>2. \A n \in Nat : n <= Len(active) => number(n) = n
    BY <2>1, WordsSayNumbers, Zenon
  <2>3. Len(severe) <= Len(active) /\ Len(active) - Len(severe) <= Len(active)
    BY <1>3
  <2>4. many => Len(active) - SpokenLimit \in Nat /\ Len(active) - SpokenLimit <= Len(active)
    BY <1>3
  <2> QED
    BY <1>3, <2>2, <2>3, <2>4, Zenon
<1>6. spoken = IF many THEN SubSeq(severe \o Warnings(active), 1, SpokenLimit) ELSE active
  <2>1. many <=> ~(Len(active) <= SpokenLimit)
    <3> HIDE DEF active
    <3> QED
      BY <1>3
  <2> QED
    BY <2>1, Zenon DEF Spoken
<1>7. AlarmReport = IF many THEN total(Len(severe), Len(active) - Len(severe)) \o named
                                   \o more(Len(active) - SpokenLimit) \o coverage
                    ELSE named \o coverage
  BY Zenon DEF AlarmReport
<1> DEFINE ruSpoken == IF many THEN SubSeq(severe \o Warnings(active), 1, SpokenLimit) ELSE active
           ruNamed == [i \in DOMAIN ruSpoken |-> Alert(ruSpoken[i])]
           ruCoverage ==
             CASE alarms.status = "unconfigured" -> <<Fact("alarms", "not configured")>>
               [] alarms.status = "unavailable" ->
                    <<Fact("alarms", IF connected THEN "incomplete" ELSE "disconnected")>>
               [] alarms.status = "stale" -> <<Fact("alarms", "stale")>>
               [] OTHER -> IF active = <<>> THEN <<Fact("alarms", "none active")>> ELSE <<>>
<1>8. RuAlarmReport =
        IF many THEN total(number(Len(severe)), number(Len(active) - Len(severe))) \o ruNamed
                       \o more(number(Len(active) - SpokenLimit)) \o ruCoverage
        ELSE ruNamed \o ruCoverage
  BY Zenon DEF RuAlarmReport
<1>9. ruNamed = named
  BY <1>6, Zenon
<1>10. ruCoverage = coverage
  BY <1>1 DEF Coverage, Statuses
<1> HIDE DEF active, severe, many, named, ruNamed, coverage, ruCoverage, number, total, more
<1> QED
  BY <1>5, <1>7, <1>8, <1>9, <1>10, Zenon

\* Both languages state the same facts in the same order.
LEMMA LanguagesAgree ==
  ASSUME EnergyInv, InWords
  PROVE  LocalesAgree
<1>1. \A name \in {"battery_soc", "solar_power", "solar_today", "load_power"} :
        RuReport(name) = Report(name)
  <2>1. ASSUME NEW name \in {"battery_soc", "solar_power", "solar_today", "load_power"}
        PROVE  name \in MetricNames /\ ~Signed(name)
    BY DEF MetricNames, Signed
  <2> QED
    BY <2>1, ReportsAgree
<1>2. \A name : BriefMetric(name) = Report(name)
  BY MetricSentence
<1>3. RuAlarmReport = AlarmReport
  BY AlarmsAgree
<1>4. RuMetrics = Report("battery_soc") \o Report("solar_power") \o Report("solar_today")
  BY <1>1, Zenon DEF RuMetrics
<1>5. RuStatusText = StatusText
  BY <1>3, <1>4, Zenon DEF RuStatusText, StatusText
<1>6. RuBriefText = BriefText
  BY <1>2, <1>3, <1>4, Zenon DEF RuBriefText, BriefText
<1>7. RuFlowText = FlowText
  BY <1>1, DirectionsAgree, Zenon DEF RuFlowText, FlowText
<1> QED
  BY <1>5, <1>6, <1>7, Zenon DEF LocalesAgree

\* A service may go by the status alone, and a flow is spoken with its
\* direction: in every state, for any lists of sources and any values.
THEOREM StatusesAreSpoken == EnergySpec => [](StatusMatchesText /\ FlowIsDirected)
<1>1. EnergyInv => StatusMatchesText /\ FlowIsDirected
  BY StatusesMatch, FlowsDirected
<1> QED
  BY <1>1, EnergyInvariant, PTL

\* The status, the texts and both languages say the same of the same values, in
\* every state in which the amounts are spoken in words (EnergyResponse::build,
\* directional_power_report, localize).
THEOREM LanguagesSayTheSame == EnergySpec => [](InWords => TextsAgree)
<1>1. EnergyInv => (InWords => TextsAgree)
  BY StatusesMatch, FlowsDirected, LanguagesAgree DEF TextsAgree
<1> QED
  BY <1>1, EnergyInvariant, PTL
=============================================================================
