----------------------------- MODULE FoldFacts ------------------------------
(***************************************************************************)
(* What FoldLeft computes, for any operator: the recursion over subsets of  *)
(* its definition is defined, and folds a sequence one element at a time.   *)
(* Induction is over sets of numbers, from the well-foundedness of Nat.     *)
(***************************************************************************)
EXTENDS Integers, SequencesExt, WellFoundedInduction, TLAPS

CONSTANTS Op(_, _), Base

Folded(seq) == FoldLeft(Op, Base, seq)

\* A set that has zero and with every number the next one has them all.
LEMMA NatSetInduction ==
  ASSUME NEW S, 0 \in S, \A n \in Nat : n \in S => n + 1 \in S
  PROVE  Nat \subseteq S
<1> DEFINE R == {x \in Nat \X Nat : x[1] < x[2]}
           T == Nat \ S
<1>1. IsWellFoundedOn(R, Nat)
  BY NatLessThanWellFounded DEF OpToRel
<1>2. SUFFICES ASSUME T # {} PROVE FALSE
  OBVIOUS
<1>3. \E x \in T : \A y \in T : ~ (<<y, x>> \in R)
  <2> T \subseteq Nat
    OBVIOUS
  <2> HIDE DEF T, R
  <2> QED
    BY <1>1, <1>2, WFMin, Zenon
<1>4. PICK x \in T : \A y \in T : ~ (<<y, x>> \in R)
  BY <1>3
<1>5. x \in Nat /\ x # 0 /\ x - 1 \in Nat
  OBVIOUS
<1>6. x - 1 \in T
  <2>1. (x - 1) + 1 = x
    BY <1>5
  <2> QED
    BY <1>5, <2>1
<1>7. <<x - 1, x>> \in R
  BY <1>5
<1> QED
  BY <1>4, <1>6, <1>7

(* The recursive function of the fold over the first n elements.              *)
Turn(g, seq, s) == IF s = {} THEN Base ELSE Op(g[s \ {Max(s)}], seq[Max(s)])
Iterates(g, seq, n) == g = [s \in SUBSET (1 .. n) |-> Turn(g, seq, s)]

\* The largest element of a nonempty set of the first numbers.
LEMMA MaxExists ==
  ASSUME NEW n \in Nat, NEW s \in SUBSET (1 .. n), s # {}
  PROVE  Max(s) \in s /\ \A y \in s : Max(s) >= y
<1> DEFINE P == {k \in Nat : \A t \in SUBSET (1 .. k) : t # {} => \E x \in t : \A y \in t : x >= y}
<1>1. 0 \in P
  <2>1. \A t \in SUBSET (1 .. 0) : t = {}
    OBVIOUS
  <2> QED
    BY <2>1
<1>2. ASSUME NEW k \in Nat, k \in P PROVE k + 1 \in P
  <2> SUFFICES ASSUME NEW t \in SUBSET (1 .. (k + 1)), t # {}
               PROVE  \E x \in t : \A y \in t : x >= y
    BY <1>2
  <2>1. CASE k + 1 \in t
    BY <2>1
  <2>2. CASE k + 1 \notin t
    <3>1. t \in SUBSET (1 .. k)
      BY <2>2
    <3> QED
      BY <1>2, <3>1
  <2> QED
    BY <2>1, <2>2
<1>3. n \in P
  <2> HIDE DEF P
  <2> QED
    BY <1>1, <1>2, NatSetInduction
<1>4. \E x \in s : \A y \in s : x >= y
  BY <1>3
<1> QED
  BY <1>4 DEF Max

\* The recursion of a fold has a solution.
LEMMA IterationExists ==
  ASSUME NEW seq, NEW n \in Nat
  PROVE  \E g : Iterates(g, seq, n)
<1> DEFINE P == {k \in Nat : \E g : Iterates(g, seq, k)}
<1>1. 0 \in P
  <2> DEFINE g == [s \in SUBSET (1 .. 0) |-> Base]
  <2>1. \A s \in SUBSET (1 .. 0) : s = {}
    OBVIOUS
  <2>2. Iterates(g, seq, 0)
    BY <2>1 DEF Iterates, Turn
  <2> QED
    BY <2>2
<1>2. ASSUME NEW k \in Nat, k \in P PROVE k + 1 \in P
  <2>1. PICK g : Iterates(g, seq, k)
    BY <1>2
  <2> DEFINE h == [s \in SUBSET (1 .. (k + 1)) |->
                     IF k + 1 \in s THEN Op(g[s \ {k + 1}], seq[k + 1]) ELSE g[s]]
  <2>2. ASSUME NEW s \in SUBSET (1 .. (k + 1)) PROVE h[s] = Turn(h, seq, s)
    <3>1. CASE k + 1 \in s
      <4>1. Max(s) = k + 1
        <5>1. k + 1 \in Nat /\ s # {}
          BY <3>1
        <5>2. Max(s) \in s /\ Max(s) >= k + 1
          BY <3>1, <5>1, MaxExists
        <5> HIDE DEF h
        <5>3. Max(s) \in 1 .. (k + 1)
          BY <5>2
        <5> QED
          BY <5>2, <5>3
      <4>2. s \ {k + 1} \in SUBSET (1 .. (k + 1)) /\ k + 1 \notin s \ {k + 1}
        OBVIOUS
      <4>3. h[s \ {k + 1}] = g[s \ {k + 1}]
        BY <4>2
      <4> QED
        BY <3>1, <4>1, <4>3 DEF Turn
    <3>2. CASE k + 1 \notin s
      <4>1. s \in SUBSET (1 .. k)
        BY <3>2
      <4>2. g[s] = Turn(g, seq, s)
        BY <2>1, <4>1 DEF Iterates
      <4>3. ASSUME s # {} PROVE h[s \ {Max(s)}] = g[s \ {Max(s)}]
        <5>1. s \ {Max(s)} \in SUBSET (1 .. (k + 1)) /\ k + 1 \notin s \ {Max(s)}
          BY <3>2
        <5> QED
          BY <5>1
      <4>4. h[s] = g[s]
        BY <3>2
      <4> HIDE DEF h
      <4> QED
        BY <4>2, <4>3, <4>4 DEF Turn
    <3> QED
      BY <3>1, <3>2
  <2>3. Iterates(h, seq, k + 1)
    <3>1. h = [s \in SUBSET (1 .. (k + 1)) |-> h[s]]
      OBVIOUS
    <3> HIDE DEF h
    <3> QED
      BY <2>2, <3>1 DEF Iterates
  <2> QED
    BY <2>3
<1> HIDE DEF P
<1>3. n \in P
  BY <1>1, <1>2, NatSetInduction
<1> QED
  BY <1>3 DEF P

\* Two solutions agree where the sequences do.
LEMMA IterationIsUnique ==
  ASSUME NEW seq, NEW other, NEW n \in Nat, NEW m \in Nat, n <= m, NEW g, NEW h,
         Iterates(g, seq, n), Iterates(h, other, m), \A i \in 1 .. n : seq[i] = other[i]
  PROVE  g[1 .. n] = h[1 .. n]
<1> DEFINE P == {k \in Nat : k <= n => g[1 .. k] = h[1 .. k]}
<1>1. 0 \in P
  <2>1. {} \in SUBSET (1 .. n) /\ {} \in SUBSET (1 .. m) /\ 1 .. 0 = {}
    OBVIOUS
  <2>2. g[{}] = Turn(g, seq, {}) /\ h[{}] = Turn(h, other, {})
    BY <2>1 DEF Iterates
  <2>3. g[{}] = h[{}]
    BY <2>2 DEF Turn
  <2> QED
    BY <2>1, <2>3
<1>2. ASSUME NEW k \in Nat, k \in P PROVE k + 1 \in P
  <2> SUFFICES ASSUME k + 1 <= n PROVE g[1 .. (k + 1)] = h[1 .. (k + 1)]
    OBVIOUS
  <2> DEFINE s == 1 .. (k + 1)
  <2>1. s \in SUBSET (1 .. n) /\ s \in SUBSET (1 .. m) /\ s # {} /\ k + 1 \in s
    OBVIOUS
  <2>2. Max(s) = k + 1
    <3>1. Max(s) \in s /\ Max(s) >= k + 1
      BY <2>1, MaxExists
    <3> QED
      BY <3>1
  <2>3. s \ {k + 1} = 1 .. k
    OBVIOUS
  <2>4. g[s] = Turn(g, seq, s) /\ h[s] = Turn(h, other, s)
    BY <2>1 DEF Iterates
  <2>5. g[1 .. k] = h[1 .. k]
    BY <1>2
  <2>6. seq[k + 1] = other[k + 1]
    OBVIOUS
  <2> HIDE DEF s
  <2>7. g[s] = h[s]
    BY <2>1, <2>2, <2>3, <2>4, <2>5, <2>6 DEF Turn
  <2> QED
    BY <2>7 DEF s
<1> HIDE DEF P
<1>3. n \in P
  BY <1>1, <1>2, NatSetInduction
<1> QED
  BY <1>3 DEF P

\* A fold is the solution at the whole sequence.
LEMMA FoldIterates ==
  ASSUME NEW S, NEW seq \in Seq(S)
  PROVE  \E g : Iterates(g, seq, Len(seq)) /\ Folded(seq) = g[1 .. Len(seq)]
<1> DEFINE iter == CHOOSE g : g = [s \in SUBSET (DOMAIN seq) |-> Turn(g, seq, s)]
<1>1. DOMAIN seq = 1 .. Len(seq) /\ Len(seq) \in Nat
  OBVIOUS
<1>2. Folded(seq) = iter[DOMAIN seq]
  BY DEF Folded, FoldLeft, MapThenFoldSet, Turn
<1>3. \E g : Iterates(g, seq, Len(seq))
  BY <1>1, IterationExists
<1>4. Iterates(iter, seq, Len(seq))
  BY <1>1, <1>3 DEF Iterates
<1> QED
  BY <1>1, <1>2, <1>4

\* Nothing to fold leaves the base.
THEOREM FoldOfNone == Folded(<<>>) = Base
<1>1. <<>> \in Seq({}) /\ Len(<<>>) = 0
  OBVIOUS
<1>2. PICK g : Iterates(g, <<>>, 0) /\ Folded(<<>>) = g[1 .. 0]
  BY <1>1, FoldIterates
<1>3. 1 .. 0 = {} /\ {} \in SUBSET (1 .. 0)
  OBVIOUS
<1>4. g[{}] = Turn(g, <<>>, {})
  BY <1>2, <1>3 DEF Iterates
<1> QED
  BY <1>2, <1>3, <1>4 DEF Turn

\* One more element is one more application of the operator.
THEOREM FoldOfAppend ==
  ASSUME NEW S, NEW seq \in Seq(S), NEW x \in S
  PROVE  Folded(Append(seq, x)) = Op(Folded(seq), x)
<1> DEFINE n == Len(seq)
           longer == Append(seq, x)
           s == 1 .. (n + 1)
<1>1. n \in Nat /\ longer \in Seq(S) /\ Len(longer) = n + 1 /\ longer[n + 1] = x
  OBVIOUS
<1>2. \A i \in 1 .. n : seq[i] = longer[i]
  OBVIOUS
<1>3. PICK g : Iterates(g, seq, n) /\ Folded(seq) = g[1 .. n]
  BY FoldIterates
<1>4. PICK h : Iterates(h, longer, n + 1) /\ Folded(longer) = h[s]
  <2> HIDE DEF longer, n
  <2>1. \E h : Iterates(h, longer, Len(longer)) /\ Folded(longer) = h[1 .. Len(longer)]
    BY <1>1, FoldIterates
  <2> QED
    BY <1>1, <2>1
<1> HIDE DEF longer, n
<1>5. g[1 .. n] = h[1 .. n]
  <2>1. n + 1 \in Nat /\ n <= n + 1
    BY <1>1
  <2> QED
    BY <1>1, <1>2, <1>3, <1>4, <2>1, IterationIsUnique
<1>6. s \in SUBSET (1 .. (n + 1)) /\ s # {} /\ n + 1 \in s /\ n + 1 \in Nat
  <2>1. n + 1 \in 1 .. (n + 1) /\ n + 1 \in Nat
    BY <1>1
  <2> QED
    BY <2>1
<1>7. Max(s) = n + 1
  <2>1. Max(s) \in s /\ Max(s) >= n + 1
    BY <1>6, MaxExists
  <2> QED
    BY <1>1, <2>1
<1>8. s \ {n + 1} = 1 .. n
  BY <1>1
<1>9. h[s] = Turn(h, longer, s)
  BY <1>4, <1>6 DEF Iterates
<1> HIDE DEF s
<1>10. h[s] = Op(h[1 .. n], x)
  BY <1>1, <1>6, <1>7, <1>8, <1>9 DEF Turn
<1> QED
  BY <1>3, <1>4, <1>5, <1>10 DEF longer

-----------------------------------------------------------------------------
(* Folds along the prefixes of a sequence *)

\* A prefix grows by one element, from nothing to the whole.
THEOREM PrefixesGrow ==
  ASSUME NEW S, NEW seq \in Seq(S)
  PROVE  /\ SubSeq(seq, 1, 0) = <<>>
         /\ SubSeq(seq, 1, Len(seq)) = seq
         /\ \A n \in 0 .. Len(seq) : /\ SubSeq(seq, 1, n) \in Seq(S)
                                     /\ Len(SubSeq(seq, 1, n)) = n
                                     /\ \A i \in 1 .. n : SubSeq(seq, 1, n)[i] = seq[i]
         /\ \A n \in 0 .. Len(seq) - 1 :
              SubSeq(seq, 1, n + 1) = Append(SubSeq(seq, 1, n), seq[n + 1])
<1>1. SubSeq(seq, 1, 0) = <<>> /\ SubSeq(seq, 1, Len(seq)) = seq
  OBVIOUS
<1>2. ASSUME NEW n \in 0 .. Len(seq)
      PROVE  /\ SubSeq(seq, 1, n) \in Seq(S) /\ Len(SubSeq(seq, 1, n)) = n
             /\ \A i \in 1 .. n : SubSeq(seq, 1, n)[i] = seq[i]
  OBVIOUS
<1>3. ASSUME NEW n \in 0 .. Len(seq) - 1
      PROVE  SubSeq(seq, 1, n + 1) = Append(SubSeq(seq, 1, n), seq[n + 1])
  OBVIOUS
<1> QED
  BY <1>1, <1>2, <1>3

\* A fold that appends the members of a set keeps exactly those, each once if
\* the sequence has each once.
THEOREM FoldFilters ==
  ASSUME NEW T, NEW S, Base = <<>>,
         \A kept \in Seq(T), x \in T : Op(kept, x) = IF x \in S THEN Append(kept, x) ELSE kept,
         NEW seq \in Seq(T), \A i, j \in DOMAIN seq : seq[i] = seq[j] => i = j
  PROVE  /\ Folded(seq) \in Seq(T)
         /\ ToSet(Folded(seq)) = ToSet(seq) \cap S
         /\ \A i, j \in DOMAIN Folded(seq) : Folded(seq)[i] = Folded(seq)[j] => i = j
<1> DEFINE part(n) == SubSeq(seq, 1, n)
           kept(n) == Folded(part(n))
           Good(n) == /\ kept(n) \in Seq(T)
                      /\ ToSet(kept(n)) = ToSet(part(n)) \cap S
                      /\ \A i, j \in DOMAIN kept(n) : kept(n)[i] = kept(n)[j] => i = j
           P == {n \in Nat : n <= Len(seq) => Good(n)}
<1>1. 0 \in P
  <2>1. part(0) = <<>> /\ kept(0) = <<>>
    BY FoldOfNone, PrefixesGrow
  <2>2. <<>> \in Seq(T) /\ ToSet(<<>>) = {} /\ DOMAIN <<>> = {}
    BY DEF ToSet
  <2>3. Good(0)
    <3> HIDE DEF part
    <3> QED
      BY <2>1, <2>2
  <2> HIDE DEF Good
  <2> QED
    BY <2>3
<1>2. ASSUME NEW n \in Nat, n \in P PROVE n + 1 \in P
  <2> SUFFICES ASSUME n + 1 <= Len(seq) PROVE Good(n + 1)
    OBVIOUS
  <2> DEFINE x == seq[n + 1]
             old == part(n)
             k == kept(n)
             new == kept(n + 1)
  <2>1. n \in 0 .. Len(seq) /\ n \in 0 .. Len(seq) - 1 /\ x \in T
    OBVIOUS
  <2>2. /\ old \in Seq(T) /\ Len(old) = n /\ part(n + 1) = Append(old, x)
        /\ \A i \in 1 .. n : old[i] = seq[i]
    BY <2>1, PrefixesGrow
  <2>3. Good(n)
    BY <1>2, <2>1
  <2>4. new = IF x \in S THEN Append(k, x) ELSE k
    <3>1. Folded(Append(old, x)) = Op(Folded(old), x)
      <4> HIDE DEF old, x
      <4> QED
        BY <2>1, <2>2, FoldOfAppend
    <3>2. k \in Seq(T)
      BY <2>3
    <3> HIDE DEF x
    <3> QED
      BY <2>1, <2>2, <3>1, <3>2
  <2>5. ToSet(part(n + 1)) = ToSet(old) \cup {x}
    <3> HIDE DEF old, x
    <3>1. /\ DOMAIN Append(old, x) = DOMAIN old \cup {Len(old) + 1}
          /\ \A i \in DOMAIN old : Append(old, x)[i] = old[i]
          /\ Append(old, x)[Len(old) + 1] = x
      BY <2>1, <2>2
    <3>2. ToSet(Append(old, x)) = ToSet(old) \cup {x}
      BY <3>1 DEF ToSet
    <3> QED
      BY <2>2, <3>2
  <2>6. x \notin ToSet(old)
    BY <2>1, <2>2 DEF ToSet
  <2>7. k \in Seq(T) /\ ToSet(k) = ToSet(old) \cap S
        /\ \A i, j \in DOMAIN k : k[i] = k[j] => i = j
    BY <2>3
  <2>8. /\ new \in Seq(T) /\ ToSet(new) = ToSet(part(n + 1)) \cap S
        /\ \A i, j \in DOMAIN new : new[i] = new[j] => i = j
    <3> HIDE DEF new, k, x, old, part
    <3>1. CASE x \in S
      <4>1. new = Append(k, x)
        BY <2>4, <3>1
      <4>2. /\ new \in Seq(T) /\ DOMAIN new = DOMAIN k \cup {Len(k) + 1}
            /\ Len(k) + 1 \notin DOMAIN k
            /\ \A i \in DOMAIN k : new[i] = k[i]
            /\ new[Len(k) + 1] = x
        BY <2>1, <2>7, <4>1
      <4>3. ToSet(new) = ToSet(k) \cup {x}
        BY <4>2 DEF ToSet
      <4>4. \A i \in DOMAIN k : k[i] # x
        BY <2>6, <2>7, <3>1 DEF ToSet
      <4>5. \A i, j \in DOMAIN new : new[i] = new[j] => i = j
        BY <2>7, <4>2, <4>4
      <4> QED
        BY <2>5, <2>7, <3>1, <4>2, <4>3, <4>5
    <3>2. CASE x \notin S
      BY <2>4, <2>5, <2>7, <3>2
    <3> QED
      BY <3>1, <3>2
  <2> QED
    BY <2>8
<1> HIDE DEF P
<1>3. Len(seq) \in P
  BY <1>1, <1>2, NatSetInduction
<1>4. Good(Len(seq))
  BY <1>3 DEF P
<1> QED
  BY <1>4, PrefixesGrow
=============================================================================
