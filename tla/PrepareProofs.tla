--------------------------- MODULE PrepareProofs ----------------------------
(***************************************************************************)
(* Theorems about Prepare, for every set of versions, operators and edits,  *)
(* and however far the branches move.                                       *)
(***************************************************************************)
EXTENDS Prepare, Integers, FiniteSetTheorems, SequenceTheorems, WellFoundedInduction, TLAPS

-----------------------------------------------------------------------------
(* Versions.                                                                  *)

\* The order of versions is total.
LEMMA LessOrder ==
  ASSUME NEW u \in Triple, NEW v \in Triple, NEW w \in Triple
  PROVE  /\ ~Less(u, u)
         /\ Less(u, v) \/ u = v \/ Less(v, u)
         /\ Less(u, v) => ~Less(v, u)
         /\ ~Less(u, v) /\ ~Less(v, w) => ~Less(u, w)
         /\ Less(u, v) /\ ~Less(w, v) => Less(u, w)
         /\ ~Less(v, u) /\ Less(v, w) => Less(u, w)
<1>1. \A x \in Triple : x = <<x[1], x[2], x[3]>> /\ x[1] \in Nat /\ x[2] \in Nat /\ x[3] \in Nat
  BY DEF Triple
<1> QED
  BY <1>1 DEF Less

Patch(v, n) == <<v[1], v[2], v[3] + n>>

\* A later patch is the same version but for its third number.
LEMMA Patched ==
  ASSUME NEW v \in Triple, NEW n \in Nat
  PROVE  /\ [v EXCEPT ![3] = @ + n] = Patch(v, n) /\ Patch(v, n) \in Triple
         /\ ~Less(Patch(v, n), v) /\ (n > 0 => Less(v, Patch(v, n)))
         /\ Patch(v, 0) = v /\ \A m \in Nat : Patch(v, n) = Patch(v, m) => n = m
<1>1. \A x \in Triple : x = <<x[1], x[2], x[3]>> /\ x[1] \in Nat /\ x[2] \in Nat /\ x[3] \in Nat
  BY DEF Triple
<1>2. [v EXCEPT ![3] = @ + n] = Patch(v, n) /\ Patch(v, n) \in Triple
  BY DEF Triple, Patch
<1> QED
  BY <1>1, <1>2 DEF Less, Patch

\* Nothing but patches lies between a version and its patches.
LEMMA Between ==
  ASSUME NEW v \in Triple, NEW w \in Triple, NEW n \in Nat, ~Less(w, v), Less(w, Patch(v, n))
  PROVE  \E m \in 0 .. (n - 1) : w = Patch(v, m)
<1>1. \A x \in Triple : x = <<x[1], x[2], x[3]>> /\ x[1] \in Nat /\ x[2] \in Nat /\ x[3] \in Nat
  BY DEF Triple
<1>2. w[1] = v[1] /\ w[2] = v[2] /\ w[3] >= v[3] /\ w[3] < v[3] + n
  BY <1>1 DEF Less, Patch
<1>3. w[3] - v[3] \in 0 .. (n - 1) /\ w[3] = v[3] + (w[3] - v[3])
  BY <1>1, <1>2
<1> QED
  BY <1>1, <1>2, <1>3 DEF Patch

\* What comes after a version is not before its next patch.
LEMMA NextPatch ==
  ASSUME NEW v \in Triple, NEW w \in Triple, Less(v, w)
  PROVE  ~Less(w, Patch(v, 1))
<1>1. \A x \in Triple : x = <<x[1], x[2], x[3]>> /\ x[1] \in Nat /\ x[2] \in Nat /\ x[3] \in Nat
  BY DEF Triple
<1> QED
  BY <1>1 DEF Less, Patch

\* Numbers have a least one.
LEMMA LeastNumber ==
  ASSUME NEW S \in SUBSET Nat, S # {}
  PROVE  \E x \in S : \A y \in S : x <= y
<1> DEFINE R == {x \in Nat \X Nat : x[1] < x[2]}
<1>1. IsWellFoundedOn(R, Nat)
  BY NatLessThanWellFounded DEF OpToRel
<1>2. PICK x \in S : \A y \in S : ~ (<<y, x>> \in R)
  <2> HIDE DEF R
  <2> QED
    BY <1>1, WFMin, Zenon
<1>3. \A y \in S : <<y, x>> \notin R => x <= y
  OBVIOUS
<1> HIDE DEF R
<1> QED
  BY <1>2, <1>3

\* Of finitely many versions one is the newest.
LEMMA NewestIsNewest ==
  ASSUME NEW S \in SUBSET Triple, IsFiniteSet(S), S # {}
  PROVE  Newest(S) \in S /\ \A w \in S : ~Less(Newest(S), w)
<1> DEFINE Lacks(A) == ~ \E v \in A : \A w \in A : ~Less(v, w)
           K == {n \in Nat : \E A \in SUBSET Triple : IsFiniteSet(A) /\ A # {} /\ Cardinality(A) = n /\ Lacks(A)}
<1>1. SUFFICES K = {}
  <2>1. Cardinality(S) \in Nat
    BY FS_CardinalityType
  <2>2. ~Lacks(S)
    BY <1>1, <2>1
  <2> QED
    BY <2>2 DEF Newest
<1>2. SUFFICES ASSUME K # {} PROVE FALSE
  OBVIOUS
<1>3. PICK n \in K : \A y \in K : n <= y
  <2>1. K \in SUBSET Nat
    OBVIOUS
  <2> HIDE DEF K
  <2> QED
    BY <1>2, <2>1, LeastNumber
<1>4. PICK A \in SUBSET Triple : IsFiniteSet(A) /\ A # {} /\ Cardinality(A) = n /\ Lacks(A)
  OBVIOUS
<1>5. PICK e \in A : TRUE
  BY <1>4
<1>6. IsFiniteSet(A \ {e}) /\ Cardinality(A \ {e}) = n - 1 /\ n \in Nat
  BY <1>4, FS_RemoveElement
<1>7. A \ {e} # {}
  BY <1>4, LessOrder
<1>8. n - 1 \in Nat
  BY <1>6, FS_CardinalityType
<1>9. n - 1 \notin K
  <2> HIDE DEF K
  <2> QED
    BY <1>3, <1>6, <1>8
<1>10. ~Lacks(A \ {e})
  <2> A \ {e} \in SUBSET Triple
    OBVIOUS
  <2> QED
    BY <1>6, <1>7, <1>8, <1>9
<1>11. PICK m \in A \ {e} : \A w \in A \ {e} : ~Less(m, w)
  BY <1>10
<1>12. CASE Less(m, e)
  <2>1. \A w \in A : ~Less(e, w)
    BY <1>11, <1>12, LessOrder
  <2> QED
    BY <1>4, <2>1
<1>13. CASE ~Less(m, e)
  BY <1>4, <1>11, <1>13
<1> QED
  BY <1>12, <1>13

\* The patch that choose_version arrives at is free, and those it passed are not.
LEMMA FreePatchIsFree ==
  ASSUME NEW v \in Triple, NEW occupied, IsFiniteSet(occupied)
  PROVE  \E n \in Nat : /\ FreePatch(v, occupied) = Patch(v, n) /\ Patch(v, n) \notin occupied
                        /\ \A m \in 0 .. (n - 1) : Patch(v, m) \in occupied
<1> DEFINE K == Cardinality(occupied)
           free == {n \in 0 .. K : Patch(v, n) \notin occupied}
           taken(n) == [v EXCEPT ![3] = @ + n] \in occupied
           skip == CHOOSE n \in 0 .. K : ~taken(n) /\ \A m \in 0 .. (n - 1) : taken(m)
<1>1. K \in Nat
  BY FS_CardinalityType
<1>2. free # {}
  <2>1. SUFFICES ASSUME free = {} PROVE FALSE
    OBVIOUS
  <2> DEFINE f == [n \in 0 .. K |-> Patch(v, n)]
  <2>2. f \in [0 .. K -> occupied]
    BY <2>1
  <2>3. IsFiniteSet(0 .. K) /\ Cardinality(0 .. K) = K + 1
    <3> HIDE DEF K
    <3> QED
      BY <1>1, FS_Interval
  <2>4. \E x, y \in 0 .. K : x # y /\ f[x] = f[y]
    <3>1. Cardinality(occupied) < Cardinality(0 .. K)
      BY <1>1, <2>3
    <3> HIDE DEF f, K
    <3> QED
      BY <2>2, <2>3, <3>1, FS_PigeonHole
  <2>5. \A x \in 0 .. K : f[x] = Patch(v, x) /\ x \in Nat
    BY <1>1
  <2> HIDE DEF f
  <2> QED
    BY <2>4, <2>5, Patched
<1>3. PICK n \in free : \A y \in free : n <= y
  <2>1. free \in SUBSET Nat
    BY <1>1
  <2> HIDE DEF free
  <2> QED
    BY <1>2, <2>1, LeastNumber
<1> HIDE DEF K
<1>4. ASSUME NEW m \in 0 .. K PROVE taken(m) <=> Patch(v, m) \in occupied
  <2>1. m \in Nat
    BY <1>1
  <2>2. [v EXCEPT ![3] = @ + m] = Patch(v, m)
    BY <2>1, Patched
  <2> QED
    BY <2>2
<1>5. n \in 0 .. K /\ n \in Nat /\ Patch(v, n) \notin occupied
      /\ \A m \in 0 .. (n - 1) : m \in 0 .. K /\ Patch(v, m) \in occupied
  BY <1>1, <1>3
<1>6. skip \in 0 .. K /\ ~taken(skip) /\ \A m \in 0 .. (skip - 1) : taken(m)
  <2>1. \E k \in 0 .. K : ~taken(k) /\ \A m \in 0 .. (k - 1) : taken(m)
    <3> HIDE DEF taken, free
    <3> QED
      BY <1>4, <1>5
  <2> HIDE DEF taken
  <2> QED
    BY <2>1
<1>7. FreePatch(v, occupied) = [v EXCEPT ![3] = @ + skip]
  BY DEF FreePatch, K
<1> HIDE DEF skip, taken, free
<1>8. skip \in Nat /\ \A m \in 0 .. (skip - 1) : m \in 0 .. K
  BY <1>1, <1>6
<1>9. FreePatch(v, occupied) = Patch(v, skip)
  BY <1>7, <1>8, Patched
<1> QED
  BY <1>4, <1>6, <1>8, <1>9

Allowed(current, reachable, occupied) ==
  {v \in Versions \ occupied : ~Less(v, current) /\ \A t \in reachable : Less(t, v)}

\* choose_version: what it arrives at is free, not behind the base and after
\* every stable version it knows of; without a wish it is the least of those.
LEMMA ChosenIsAllowed ==
  ASSUME NEW current \in Triple, NEW reachable \in SUBSET Versions, NEW occupied, IsFiniteSet(occupied),
         reachable \subseteq occupied, \A t \in reachable : ~Less(current, t),
         NEW want, NEW target \in ChooseVersion(current, reachable, occupied, want) \cap Versions
  PROVE  /\ target \in Allowed(current, reachable, occupied)
         /\ want.version = <<>> /\ want.bump = "next-patch" =>
              \A v \in Allowed(current, reachable, occupied) : ~Less(v, target)
<1>0. Versions \subseteq Triple /\ reachable \subseteq Triple /\ target \in Triple
      /\ IsFiniteSet(reachable)
  BY PrepareAssumption, FS_Subset
<1>1. CASE ~(want.version = <<>> /\ want.bump = "next-patch")
  <2>1. ~Less(target, current) /\ target \notin occupied
    BY <1>1 DEF ChooseVersion
  <2>2. ASSUME NEW t \in reachable PROVE Less(t, target)
    <3>1. t # target /\ ~Less(current, t) /\ t \in Triple
      BY <1>0, <2>1
    <3> QED
      BY <1>0, <2>1, <3>1, LessOrder
  <2> QED
    BY <1>1, <2>1, <2>2 DEF Allowed
<1>2. CASE want.version = <<>> /\ want.bump = "next-patch"
  <2> DEFINE selected == Bumped(current, reachable, want.bump)
             some == reachable \cup {Least}
  <2>1. ~Less(selected, current) /\ target = FreePatch(selected, occupied)
    BY <1>2 DEF ChooseVersion
  <2>2. some \in SUBSET Triple /\ IsFiniteSet(some) /\ some # {}
    <3>1. Least \in Triple
      BY DEF Least, Triple
    <3>2. IsFiniteSet({Least})
      BY FS_Singleton
    <3> QED
      BY <1>0, <3>1, <3>2, FS_Union
  <2>3. Newest(some) \in Triple /\ \A t \in reachable : ~Less(Newest(some), t)
    <3> HIDE DEF some
    <3>1. Newest(some) \in some /\ \A t \in some : ~Less(Newest(some), t)
      BY <2>2, NewestIsNewest
    <3> QED
      BY <2>2, <3>1 DEF some
  <2>4. /\ selected \in Triple
        /\ \A t \in reachable : Less(t, selected)
        /\ \A v \in Allowed(current, reachable, occupied) : ~Less(v, selected)
    <3>1. CASE reachable = {} \/ Less(Newest(some), current)
      <4>1. selected = current
        BY <1>2, <3>1 DEF Bumped
      <4>2. ASSUME NEW t \in reachable PROVE Less(t, selected)
        BY <1>0, <2>3, <3>1, <4>1, LessOrder
      <4> QED
        BY <4>1, <4>2 DEF Allowed
    <3>2. CASE ~(reachable = {} \/ Less(Newest(some), current))
      <4>1. selected = [Newest(reachable) EXCEPT ![3] = @ + 1]
        BY <1>2, <3>2 DEF Bumped
      <4>2. Newest(reachable) \in reachable /\ \A t \in reachable : ~Less(Newest(reachable), t)
        BY <1>0, <3>2, NewestIsNewest
      <4> DEFINE new == Newest(reachable)
      <4>3. new \in Triple /\ selected = Patch(new, 1) /\ selected \in Triple /\ Less(new, selected)
        <5>1. new \in Triple /\ selected = [new EXCEPT ![3] = @ + 1]
          BY <1>0, <4>1, <4>2
        <5> HIDE DEF selected, new
        <5>2. /\ [new EXCEPT ![3] = @ + 1] = Patch(new, 1) /\ Patch(new, 1) \in Triple
              /\ Less(new, Patch(new, 1))
          BY <5>1, Patched
        <5> QED
          BY <5>1, <5>2
      <4> HIDE DEF selected, new
      <4>4. ASSUME NEW t \in reachable PROVE Less(t, selected)
        BY <1>0, <4>2, <4>3, LessOrder DEF new
      <4>5. ASSUME NEW v \in Allowed(current, reachable, occupied) PROVE ~Less(v, selected)
        <5>1. v \in Triple /\ Less(new, v)
          BY <1>0, <4>2 DEF Allowed, new
        <5> QED
          BY <4>3, <5>1, NextPatch
      <4> QED
        BY <4>3, <4>4, <4>5
    <3> QED
      BY <3>1, <3>2
  <2> HIDE DEF selected, some
  <2>5. PICK n \in Nat : /\ target = Patch(selected, n) /\ Patch(selected, n) \notin occupied
                         /\ \A m \in 0 .. (n - 1) : Patch(selected, m) \in occupied
    BY <2>1, <2>4, FreePatchIsFree
  <2>6. ~Less(target, selected) /\ target \notin occupied
    BY <2>4, <2>5, Patched
  <2>7. ~Less(target, current) /\ \A t \in reachable : Less(t, target)
    BY <1>0, <2>1, <2>4, <2>6, LessOrder
  <2>8. ASSUME NEW v \in Allowed(current, reachable, occupied) PROVE ~Less(v, target)
    <3>1. v \in Triple /\ ~Less(v, selected) /\ v \notin occupied
      BY <1>0, <2>4 DEF Allowed
    <3> QED
      BY <2>4, <2>5, <3>1, Between
  <2> QED
    BY <2>6, <2>7, <2>8 DEF Allowed
<1> QED
  BY <1>1, <1>2

-----------------------------------------------------------------------------
(* The invariant.                                                             *)

VersionOf(c) == commits[c].tree.version
BodyOf(c) == commits[c].tree.body
Past(c) == commits[c].history
OfVersion(v) == {c \in DOMAIN commits : VersionOf(c) = v}

TreeType == [version : Triple, body : SUBSET Edits]

(* Along every history the version and the edits only grow.                   *)
Histories ==
  /\ commits \in Seq([tree : TreeType, history : SUBSET Nat])
  /\ \A c \in DOMAIN commits :
       /\ c \in Past(c) /\ Past(c) \subseteq DOMAIN commits
       /\ \A d \in Past(c) : /\ Past(d) \subseteq Past(c)
                             /\ ~Less(VersionOf(c), VersionOf(d)) /\ BodyOf(d) \subseteq BodyOf(c)

Branches ==
  /\ main \in DOMAIN commits /\ topics \in [Versions -> Nat] /\ tags \in [Versions -> Nat]
  /\ pulls \subseteq {v \in Versions : topics[v] # None}
  /\ \A v \in Versions : topics[v] # None => topics[v] \in DOMAIN commits /\ VersionOf(topics[v]) = v
  /\ \A v \in Versions : tags[v] # None => tags[v] \in DOMAIN commits /\ VersionOf(tags[v]) = v

Phases == {"ready", "choose", "list", "topic", "push", "create", "rc", "stable", "away"}
AnyWant == {<<>>} \cup UNION {Wants[o] : o \in Operators}
OpType ==
  [pc : Phases, at : Nat, dirty : BOOLEAN, want : AnyWant, target : Triple, reachable : SUBSET Versions,
   occupied : SUBSET (Versions \cup Reserved), listed : Nat, sha : Nat]

ChosenWell(o) ==
  LET allowed == Allowed(VersionOf(op[o].at), op[o].reachable, op[o].occupied)
  IN  /\ op[o].target \in allowed
      /\ op[o].want.version = <<>> /\ op[o].want.bump = "next-patch" =>
           \A v \in allowed : ~Less(v, op[o].target)

(* What an operator goes by, though the branches have moved since: commits do *)
(* not change.  A topic to be refreshed has nothing that the checkout lacks.  *)
OperatorInv(o) ==
  /\ op[o].at \in DOMAIN commits
  /\ op[o].pc = "choose" =>
       /\ op[o].want.do \in {"pr", "local", "dry-run"}
       /\ \A t \in op[o].reachable : t \in AllTags /\ ~Less(VersionOf(op[o].at), t)
  /\ op[o].pc \in {"list", "topic", "push", "create"} =>
       op[o].target \in Versions /\ ~Less(op[o].target, VersionOf(op[o].at))
  /\ op[o].pc = "list" => ChosenWell(o)
  /\ op[o].pc = "push" /\ op[o].sha # None =>
       /\ op[o].sha \in DOMAIN commits /\ VersionOf(op[o].sha) = op[o].target
       /\ BodyOf(op[o].sha) \subseteq BodyOf(op[o].at)
       /\ op[o].target \notin touched =>
            Past(op[o].sha) \subseteq OfVersion(op[o].target) \cup Past(op[o].at)

(* A preparation of a version, made of a commit of the default branch.        *)
MadeFrom(c, a, v) == a \in Past(c) /\ BodyOf(c) = BodyOf(a) /\ Past(c) \subseteq OfVersion(v) \cup Past(a)

(* The heads that the default branch has had are in a line; checkouts are of  *)
(* them, and so are the origins of the topics that only preparations wrote.   *)
Trunk(T) ==
  /\ main \in T /\ T \subseteq Past(main)
  /\ \A s, t \in T : s \in Past(t) \/ t \in Past(s)
  /\ \A o \in Operators : op[o].at \in T
  /\ \A v \in Versions \ touched : topics[v] # None => \E a \in T : MadeFrom(topics[v], a, v)

PrepareInv ==
  /\ Histories /\ Branches
  /\ op \in [Operators -> OpType] /\ \A o \in Operators : OperatorInv(o)
  /\ \E T \in SUBSET DOMAIN commits : Trunk(T)

(* A run is at the checkout of whoever asked for it, and so is the candidate  *)
(* that it publishes; a promotion is of a candidate that there is.            *)
RunsInv ==
  /\ candidates \in Seq([sha : Nat, asked : Nat])
  /\ \A i \in DOMAIN candidates : candidates[i].sha = candidates[i].asked
  /\ \A r \in runs : /\ r.sha \in Nat /\ r.sha = r.expected
                     /\ r.channel = "stable" => r.rc \in DOMAIN candidates

(* Commits stay what they are.                                                *)
Kept == \A c \in DOMAIN commits : c \in DOMAIN commits' /\ commits'[c] = commits[c]

\* A tree is a version and a set of edits.
LEMMA TreesAreTyped ==
  ASSUME Histories, NEW c \in DOMAIN commits
  PROVE  /\ Tree(c) \in TreeType /\ VersionOf(c) \in Triple
         /\ Tree(c).version = VersionOf(c) /\ Tree(c).body = BodyOf(c)
         /\ c \in Nat \ {0} /\ Past(c) \subseteq DOMAIN commits
<1> DEFINE Entries == [tree : TreeType, history : SUBSET Nat]
<1>1. commits \in Seq(Entries)
  BY DEF Histories
<1> HIDE DEF Entries
<1>2. commits[c] \in Entries /\ c \in Nat \ {0}
  BY <1>1
<1>3. Tree(c) \in TreeType
  BY <1>2 DEF Entries, Tree
<1>4. Tree(c).version \in Triple
  BY <1>3 DEF TreeType
<1> QED
  BY <1>2, <1>3, <1>4 DEF Tree, VersionOf, BodyOf, Histories

\* A new commit that is ahead of its parents keeps the histories in order.
LEMMA NewCommit ==
  ASSUME Histories, NEW parents \in SUBSET DOMAIN commits, NEW tree \in TreeType,
         \A p \in parents : ~Less(tree.version, VersionOf(p)) /\ BodyOf(p) \subseteq tree.body,
         commits' = Commit(parents, tree)
  PROVE  /\ Histories' /\ Kept /\ New \in Nat /\ New # None
         /\ New \notin DOMAIN commits /\ DOMAIN commits' = DOMAIN commits \cup {New}
         /\ commits'[New].tree = tree
         /\ commits'[New].history = {New} \cup UNION {Past(p) : p \in parents}
<1> DEFINE entry == [tree |-> tree, history |-> {New} \cup UNION {Past(p) : p \in parents}]
           Entries == [tree : TreeType, history : SUBSET Nat]
<1>1. commits' = Append(commits, entry)
  BY DEF Commit, New, Past
<1>2. commits \in Seq(Entries) /\ Len(commits) \in Nat /\ DOMAIN commits = 1 .. Len(commits)
  BY DEF Histories
<1>3. entry \in Entries
  <2>1. New \in Nat /\ \A p \in parents : Past(p) \subseteq Nat
    BY <1>2 DEF New, Histories
  <2>2. {New} \cup UNION {Past(p) : p \in parents} \in SUBSET Nat
    BY <2>1
  <2> QED
    BY <2>2
<1>4. entry.tree = tree /\ entry.history = {New} \cup UNION {Past(p) : p \in parents}
  OBVIOUS
<1> HIDE DEF entry, Entries
<1>5. /\ commits' \in Seq(Entries) /\ Len(commits') = Len(commits) + 1
      /\ DOMAIN commits' = 1 .. (Len(commits) + 1)
      /\ commits'[New] = entry /\ \A c \in 1 .. Len(commits) : commits'[c] = commits[c]
  BY <1>1, <1>2, <1>3 DEF New
<1>6. /\ New \in Nat /\ New # None /\ New \notin DOMAIN commits
      /\ DOMAIN commits' = DOMAIN commits \cup {New}
  BY <1>2, <1>5 DEF New, None
<1>7. Kept
  BY <1>2, <1>5, <1>6 DEF Kept
<1>8. commits'[New].tree = tree /\ commits'[New].history = {New} \cup UNION {Past(p) : p \in parents}
  BY <1>4, <1>5
<1>9. PICK n : n = New
  OBVIOUS
<1>10. \A c \in DOMAIN commits : /\ Past(c)' = Past(c) /\ VersionOf(c)' = VersionOf(c)
                                 /\ BodyOf(c)' = BodyOf(c)
  BY <1>7 DEF Kept, Past, VersionOf, BodyOf
<1>11. /\ Past(n)' = {n} \cup UNION {Past(p) : p \in parents} /\ VersionOf(n)' = tree.version
       /\ BodyOf(n)' = tree.body
  BY <1>8, <1>9 DEF Past, VersionOf, BodyOf
<1>12. ASSUME NEW c \in DOMAIN commits
       PROVE  /\ c \in Past(c)' /\ Past(c)' \subseteq DOMAIN commits'
              /\ \A d \in Past(c)' : /\ Past(d)' \subseteq Past(c)'
                                     /\ ~Less(VersionOf(c)', VersionOf(d)') /\ BodyOf(d)' \subseteq BodyOf(c)'
  <2>1. Past(c) \subseteq DOMAIN commits
    BY DEF Histories
  <2> QED
    BY <1>6, <1>10, <2>1 DEF Histories
<1>13. /\ n \in Past(n)' /\ Past(n)' \subseteq DOMAIN commits'
       /\ \A d \in Past(n)' : /\ Past(d)' \subseteq Past(n)'
                              /\ ~Less(VersionOf(n)', VersionOf(d)') /\ BodyOf(d)' \subseteq BodyOf(n)'
  <2>1. \A p \in parents : Past(p) \subseteq DOMAIN commits
    BY DEF Histories
  <2>2. tree.version \in Triple /\ \A c \in DOMAIN commits : VersionOf(c) \in Triple
    <3>1. tree.version \in Triple
      BY DEF TreeType
    <3>2. ASSUME NEW c \in DOMAIN commits PROVE VersionOf(c) \in Triple
      BY TreesAreTyped
    <3> QED
      BY <3>1, <3>2
  <2>3. ASSUME NEW p \in parents, NEW d \in Past(p)
        PROVE  /\ d \in DOMAIN commits /\ Past(d) \subseteq Past(p)
               /\ ~Less(tree.version, VersionOf(d)) /\ BodyOf(d) \subseteq tree.body
    <3>1. /\ d \in DOMAIN commits /\ Past(d) \subseteq Past(p) /\ ~Less(VersionOf(p), VersionOf(d))
          /\ BodyOf(d) \subseteq BodyOf(p)
      BY DEF Histories
    <3> QED
      BY <2>2, <3>1, LessOrder
  <2>4. n \in Past(n)' /\ Past(n)' \subseteq DOMAIN commits'
    BY <1>6, <1>9, <1>11, <2>1
  <2>5. ASSUME NEW d \in Past(n)'
        PROVE  /\ Past(d)' \subseteq Past(n)'
               /\ ~Less(VersionOf(n)', VersionOf(d)') /\ BodyOf(d)' \subseteq BodyOf(n)'
    <3>1. CASE d = n
      BY <1>11, <2>2, <3>1, LessOrder
    <3>2. CASE d # n
      <4>1. PICK p \in parents : d \in Past(p)
        BY <1>11, <3>2
      <4> QED
        BY <1>10, <1>11, <2>3, <4>1
    <3> QED
      BY <3>1, <3>2
  <2> QED
    BY <2>4, <2>5
<1>14. Histories'
  <2>1. \A c \in DOMAIN commits' :
          /\ c \in Past(c)' /\ Past(c)' \subseteq DOMAIN commits'
          /\ \A d \in Past(c)' : /\ Past(d)' \subseteq Past(c)'
                                 /\ ~Less(VersionOf(c)', VersionOf(d)') /\ BodyOf(d)' \subseteq BodyOf(c)'
    BY <1>6, <1>9, <1>12, <1>13
  <2> QED
    BY <1>5, <2>1 DEF Histories, Less, Entries
<1> QED
  BY <1>6, <1>7, <1>8, <1>14

\* What is known of commits stays known.
LEMMA FactsKept ==
  ASSUME Histories, Kept, NEW c \in DOMAIN commits
  PROVE  /\ Past(c)' = Past(c) /\ VersionOf(c)' = VersionOf(c) /\ BodyOf(c)' = BodyOf(c)
         /\ c \in DOMAIN commits' /\ \A v : OfVersion(v) \subseteq OfVersion(v)'
         /\ \A a \in DOMAIN commits : \A v : MadeFrom(c, a, v) => MadeFrom(c, a, v)'
<1>1. \A d \in DOMAIN commits : /\ Past(d)' = Past(d) /\ VersionOf(d)' = VersionOf(d)
                                /\ BodyOf(d)' = BodyOf(d) /\ d \in DOMAIN commits'
  BY DEF Kept, Past, VersionOf, BodyOf
<1>2. \A v : OfVersion(v) \subseteq OfVersion(v)'
  BY <1>1 DEF OfVersion
<1>3. ASSUME NEW a \in DOMAIN commits, NEW v, MadeFrom(c, a, v) PROVE MadeFrom(c, a, v)'
  BY <1>1, <1>2, <1>3 DEF MadeFrom
<1> QED
  BY <1>1, <1>2, <1>3

\* An operator whom a step does not concern goes on by what it knows.
LEMMA OperatorKept ==
  ASSUME Histories, NEW o \in Operators, OperatorInv(o), Kept, op'[o] = op[o],
         touched \subseteq touched', AllTags \subseteq AllTags'
  PROVE  OperatorInv(o)'
<1> DEFINE at == op[o].at
           sha == op[o].sha
<1>1. at \in DOMAIN commits
  BY DEF OperatorInv
<1>2. Past(at)' = Past(at) /\ VersionOf(at)' = VersionOf(at) /\ BodyOf(at)' = BodyOf(at) /\ at \in DOMAIN commits'
  BY <1>1 DEF Kept, Past, VersionOf, BodyOf
<1>3. sha \in DOMAIN commits =>
        Past(sha)' = Past(sha) /\ VersionOf(sha)' = VersionOf(sha) /\ BodyOf(sha)' = BodyOf(sha)
        /\ sha \in DOMAIN commits'
  BY DEF Kept, Past, VersionOf, BodyOf
<1>4. \A v : OfVersion(v) \subseteq OfVersion(v)'
  BY <1>1, FactsKept
<1>5. ChosenWell(o) => ChosenWell(o)'
  BY <1>2 DEF ChosenWell, Allowed
<1> QED
  BY <1>2, <1>3, <1>4, <1>5 DEF OperatorInv

\* The line of heads goes on, and topics are made from it.
LEMMA TrunkKept ==
  ASSUME Histories, Branches, Kept, Histories', NEW T \in SUBSET DOMAIN commits, Trunk(T),
         main' = main \/ (main' \in DOMAIN commits' /\ Past(main) \subseteq Past(main)'),
         touched \subseteq touched',
         \A o \in Operators : op'[o].at \in {op[o].at, main},
         \A v \in Versions \ touched' : topics'[v] # None =>
            topics'[v] = topics[v] \/ \E a \in T : MadeFrom(topics[v], a, v)'
  PROVE  \E U \in SUBSET DOMAIN commits' : Trunk(U)'
<1>1. \A c \in DOMAIN commits : Past(c)' = Past(c) /\ c \in DOMAIN commits'
  BY DEF Kept, Past
<1>2. main \in T /\ T \subseteq Past(main) /\ main \in DOMAIN commits
  BY DEF Trunk, Branches
<1>3. PICK m : m = main'
  OBVIOUS
<1> DEFINE U == T \cup {m}
<1>4. m \in DOMAIN commits' /\ Past(main) \subseteq Past(m)' /\ m \in Past(m)'
  <2>1. m \in DOMAIN commits' /\ Past(main) \subseteq Past(m)'
    BY <1>1, <1>2, <1>3 DEF Past
  <2> QED
    BY <2>1 DEF Histories
<1>5. U \in SUBSET DOMAIN commits' /\ main' \in U /\ U \subseteq Past(m)'
  BY <1>1, <1>2, <1>3, <1>4
<1>6. \A s, t \in U : s \in Past(t)' \/ t \in Past(s)'
  BY <1>1, <1>2, <1>3, <1>4 DEF Trunk
<1>7. \A o \in Operators : op'[o].at \in U
  BY <1>2 DEF Trunk
<1>8. ASSUME NEW v \in Versions \ touched', topics'[v] # None
      PROVE  \E a \in U : MadeFrom(topics[v], a, v)'
  <2>1. CASE topics'[v] = topics[v]
    <3>1. PICK a \in T : MadeFrom(topics[v], a, v)
      BY <1>8, <2>1 DEF Trunk
    <3>2. PICK c : c = topics[v]
      OBVIOUS
    <3>3. c \in DOMAIN commits /\ a \in DOMAIN commits /\ MadeFrom(c, a, v)
      BY <1>8, <2>1, <3>1, <3>2 DEF Branches
    <3>4. MadeFrom(c, a, v)'
      BY <3>3, FactsKept
    <3>5. MadeFrom(topics[v], a, v)'
      BY <2>1, <3>2, <3>4 DEF MadeFrom, Past, BodyOf
    <3> QED
      BY <3>5
  <2> QED
    BY <1>8, <2>1
<1>9. Trunk(U)'
  BY <1>3, <1>5, <1>6, <1>7, <1>8 DEF Trunk, Past
<1> QED
  BY <1>5, <1>9

\* Between commands, and after the last one.
LEMMA ReadyIsWell ==
  ASSUME NEW at \in Nat, NEW dirty \in BOOLEAN
  PROVE  /\ Ready(at, dirty) \in OpType /\ Ready(at, dirty).pc = "ready" /\ Ready(at, dirty).at = at
         /\ Away(at) \in OpType /\ Away(at).pc = "away" /\ Away(at).at = at
<1>1. /\ First \in Triple /\ <<>> \in AnyWant /\ "ready" \in Phases /\ "away" \in Phases /\ None \in Nat
      /\ FALSE \in BOOLEAN
  BY PrepareAssumption DEF AnyWant, Phases, None
<1>2. \A d \in BOOLEAN : Ready(at, d) \in OpType /\ Ready(at, d).pc = "ready" /\ Ready(at, d).at = at
  BY <1>1 DEF Ready, OpType
<1>3. Away(at) \in OpType /\ Away(at).pc = "away" /\ Away(at).at = at
  BY <1>1, <1>2 DEF Away, OpType
<1> QED
  BY <1>2, <1>3

\* A step of an operator that moves no branch.
LEMMA OneOperator ==
  ASSUME PrepareInv, NEW o \in Operators, UNCHANGED <<commits, main, topics, touched>>,
         AllTags \subseteq AllTags', Branches',
         NEW to \in OpType, op' = [op EXCEPT ![o] = to], to.at \in {op[o].at, main}, OperatorInv(o)'
  PROVE  PrepareInv'
<1>1. Kept /\ Histories /\ Histories' /\ Branches
  BY DEF PrepareInv, Kept, Histories, Past, VersionOf, BodyOf
<1>2. /\ op' \in [Operators -> OpType] /\ op'[o] = to
      /\ \A q \in Operators \ {o} : op'[q] = op[q]
  BY DEF PrepareInv
<1>3. \A q \in Operators : OperatorInv(q)'
  BY <1>1, <1>2, OperatorKept DEF PrepareInv
<1>4. PICK T \in SUBSET DOMAIN commits : Trunk(T)
  BY DEF PrepareInv
<1>5. \A q \in Operators : op'[q].at \in {op[q].at, main}
  BY <1>2
<1>6. \E U \in SUBSET DOMAIN commits' : Trunk(U)'
  BY <1>1, <1>4, <1>5, TrunkKept
<1> QED
  BY <1>1, <1>2, <1>3, <1>6 DEF PrepareInv

\* A command that is done or refused leaves the clone as it is.
LEMMA EndsKeepsInv ==
  ASSUME PrepareInv, NEW o \in Operators, UNCHANGED <<commits, main, topics, touched>>,
         AllTags \subseteq AllTags', Branches', op' = Ends(o)
  PROVE  PrepareInv'
<1> DEFINE to == IF o \in Persistent THEN Ready(op[o].at, op[o].dirty) ELSE Away(op[o].at)
<1>1. op \in [Operators -> OpType] /\ op[o].at \in DOMAIN commits
  BY DEF PrepareInv, OperatorInv
<1>2. op[o].at \in Nat /\ op[o].dirty \in BOOLEAN
  <2> op[o] \in OpType
    BY <1>1
  <2> QED
    BY DEF OpType
<1>3. to \in OpType /\ to.pc \in {"ready", "away"} /\ to.at = op[o].at
  BY <1>2, ReadyIsWell
<1>4. op' = [op EXCEPT ![o] = to]
  BY <1>1 DEF Ends
<1> HIDE DEF to
<1>5. op'[o] = to
  BY <1>1, <1>4
<1>6. OperatorInv(o)'
  BY <1>1, <1>3, <1>5 DEF OperatorInv
<1> QED
  BY <1>3, <1>4, <1>6, OneOperator

\* The tags in the history of a commit are of versions that are not ahead of it.
LEMMA TagsAreBehind ==
  ASSUME PrepareInv, NEW c \in DOMAIN commits, NEW t \in TagsIn(c)
  PROVE  t \in Versions /\ t \in AllTags /\ tags[t] # None /\ ~Less(VersionOf(c), t)
<1>1. t \in Versions /\ tags[t] \in Past(c) /\ tags[t] \in DOMAIN commits
  BY DEF TagsIn, Past, PrepareInv, Histories
<1>2. tags[t] # None
  BY <1>1, TreesAreTyped DEF PrepareInv, None
<1>3. VersionOf(tags[t]) = t
  BY <1>1, <1>2 DEF PrepareInv, Branches
<1> QED
  BY <1>1, <1>2, <1>3 DEF AllTags, PrepareInv, Histories

\* A clean checkout of the head: its tags are behind it.
LEMMA ValidateKeepsInv == ASSUME PrepareInv, NEW o \in Operators, Validate(o) PROVE PrepareInv'
<1>1. PICK want \in Wants[o] :
        /\ want.do \in {"pr", "local", "dry-run"}
        /\ op' = [op EXCEPT ![o].want = want, ![o].pc = "choose", ![o].reachable = TagsIn(main)]
  BY DEF Validate
<1>2. /\ op[o].at = main /\ UNCHANGED <<commits, main, topics, tags, pulls, touched>>
      /\ op \in [Operators -> OpType] /\ main \in DOMAIN commits
  BY DEF Validate, remote, PrepareInv, Branches
<1> DEFINE to == [op[o] EXCEPT !.want = want, !.pc = "choose", !.reachable = TagsIn(main)]
<1>3. op' = [op EXCEPT ![o] = to]
  BY <1>1, <1>2
<1>4. /\ to \in OpType /\ to.pc = "choose" /\ to.at = op[o].at /\ to.want = want
      /\ to.reachable = TagsIn(main)
  <2>1. op[o] \in OpType /\ want \in AnyWant /\ TagsIn(main) \in SUBSET Versions /\ "choose" \in Phases
    BY <1>2 DEF AnyWant, TagsIn, Phases
  <2> QED
    BY <2>1 DEF OpType
<1> HIDE DEF to
<1>5. op'[o] = to
  BY <1>2, <1>3
<1>6. AllTags' = AllTags /\ Branches'
  BY <1>2 DEF AllTags, PrepareInv, Branches, VersionOf
<1>7. OperatorInv(o)'
  <2>1. \A t \in TagsIn(main) : t \in AllTags /\ ~Less(VersionOf(main), t)
    BY <1>2, TagsAreBehind
  <2>2. VersionOf(main)' = VersionOf(main)
    BY <1>2 DEF VersionOf
  <2> QED
    BY <1>1, <1>2, <1>4, <1>5, <1>6, <2>1, <2>2 DEF OperatorInv
<1> QED
  BY <1>2, <1>3, <1>4, <1>6, <1>7, OneOperator

\* What is chosen is next, and only a pull request goes on from it.
LEMMA ChooseKeepsInv == ASSUME PrepareInv, NEW o \in Operators, Choose(o) PROVE PrepareInv'
<1> DEFINE current == BaseVersion(op[o].at)
           chosen == ChooseVersion(current, op[o].reachable, AllTags, op[o].want) \cap Versions
<1>1. /\ op[o].pc = "choose" /\ UNCHANGED <<commits, main, topics, tags, pulls, touched>>
      /\ op \in [Operators -> OpType] /\ op[o].at \in DOMAIN commits
      /\ op[o].want.do \in {"pr", "local", "dry-run"}
      /\ \A t \in op[o].reachable : t \in AllTags /\ ~Less(VersionOf(op[o].at), t)
  BY DEF Choose, remote, PrepareInv, OperatorInv
<1>2. AllTags' = AllTags /\ Branches'
  BY <1>1 DEF AllTags, PrepareInv, Branches, VersionOf
<1>3. CASE op' = Ends(o)
  BY <1>1, <1>2, <1>3, EndsKeepsInv
<1>4. ASSUME NEW target, op[o].want.do = "local", op' = [op EXCEPT ![o] = Ready(@.at, target # current)]
      PROVE  PrepareInv'
  <2> DEFINE dirty == target # current
             to == Ready(op[o].at, dirty)
  <2>1. dirty \in BOOLEAN /\ op[o].at \in Nat
    BY <1>1, TreesAreTyped DEF PrepareInv
  <2>2. op' = [op EXCEPT ![o] = to]
    BY <1>4
  <2> HIDE DEF dirty
  <2>3. to \in OpType /\ to.pc = "ready" /\ to.at = op[o].at
    BY <2>1, ReadyIsWell
  <2> HIDE DEF to
  <2>4. op'[o] = to
    BY <1>1, <2>2
  <2>5. OperatorInv(o)'
    BY <1>1, <2>3, <2>4 DEF OperatorInv
  <2> QED
    BY <1>1, <1>2, <2>2, <2>3, <2>5, OneOperator
<1>5. ASSUME NEW target \in chosen, op[o].want.do = "pr",
             op' = [op EXCEPT ![o].target = target, ![o].occupied = AllTags, ![o].pc = "list"]
      PROVE  PrepareInv'
  <2> DEFINE to == [op[o] EXCEPT !.target = target, !.occupied = AllTags, !.pc = "list"]
  <2>1. op' = [op EXCEPT ![o] = to]
    BY <1>1, <1>5
  <2>2. op[o] \in OpType /\ target \in Triple /\ AllTags \in SUBSET (Versions \cup Reserved) /\ "list" \in Phases
    BY <1>1, PrepareAssumption DEF AllTags, Phases
  <2>3. /\ to \in OpType /\ to.pc = "list" /\ to.at = op[o].at /\ to.want = op[o].want
        /\ to.reachable = op[o].reachable /\ to.occupied = AllTags /\ to.target = target
    BY <2>2 DEF OpType
  <2> HIDE DEF to
  <2>4. op'[o] = to
    BY <1>1, <2>1
  <2>5. VersionOf(op[o].at) \in Triple /\ current = VersionOf(op[o].at)
    BY <1>1, TreesAreTyped DEF PrepareInv, BaseVersion
  <2>6. IsFiniteSet(AllTags) /\ op[o].reachable \in SUBSET Versions
    <3>1. IsFiniteSet(Versions \cup Reserved)
      BY PrepareAssumption, FS_Union
    <3>2. op[o].reachable \in SUBSET Versions
      BY <2>2 DEF OpType
    <3> QED
      BY <2>2, <3>1, <3>2, FS_Subset
  <2>7. LET allowed == Allowed(VersionOf(op[o].at), op[o].reachable, AllTags)
        IN  /\ target \in allowed
            /\ op[o].want.version = <<>> /\ op[o].want.bump = "next-patch" =>
                 \A v \in allowed : ~Less(v, target)
    BY <1>1, <2>5, <2>6, ChosenIsAllowed
  <2>8. PICK at : at = op[o].at
    OBVIOUS
  <2>9. VersionOf(at)' = VersionOf(at)
    BY <1>1 DEF VersionOf
  <2>10. ChosenWell(o)'
    BY <2>3, <2>4, <2>7, <2>8, <2>9 DEF ChosenWell
  <2>11. target \in Versions /\ ~Less(target, VersionOf(at))
    BY <2>7, <2>8 DEF Allowed
  <2>12. OperatorInv(o)'
    BY <1>1, <2>3, <2>4, <2>8, <2>9, <2>10, <2>11 DEF OperatorInv
  <2> QED
    BY <1>1, <1>2, <2>1, <2>3, <2>12, OneOperator
<1>6. \/ op' = Ends(o)
      \/ \E target \in chosen :
           \/ op[o].want.do = "local" /\ op' = [op EXCEPT ![o] = Ready(@.at, target # current)]
           \/ /\ op[o].want.do = "pr"
              /\ op' = [op EXCEPT ![o].target = target, ![o].occupied = AllTags, ![o].pc = "list"]
  BY <1>1 DEF Choose
<1> QED
  BY <1>3, <1>4, <1>5, <1>6

\* An operator who rests, has a pull request to create or a run to wait for.
LEMMA RestsWell ==
  ASSUME PrepareInv, Kept, NEW o \in Operators, NEW to, op'[o] = to, to.at \in {op[o].at, main},
         to.pc \in {"ready", "rc", "stable", "away"} \/
           (/\ to.pc = "create" /\ op[o].pc \in {"topic", "push"} /\ to.target = op[o].target
            /\ to.at = op[o].at)
  PROVE  OperatorInv(o)'
<1>1. PICK at : at = to.at
  OBVIOUS
<1>2. at \in DOMAIN commits /\ at \in DOMAIN commits' /\ VersionOf(at)' = VersionOf(at)
  BY <1>1 DEF PrepareInv, OperatorInv, Branches, Kept, VersionOf
<1>3. to.pc = "create" => to.target \in Versions /\ ~Less(to.target, VersionOf(at))
  BY <1>1 DEF PrepareInv, OperatorInv
<1> QED
  BY <1>1, <1>2, <1>3 DEF OperatorInv

\* On to a pull request or a run.
LEMMA GoesKeepsInv ==
  ASSUME PrepareInv, NEW o \in Operators, UNCHANGED <<commits, main, topics, touched>>,
         AllTags \subseteq AllTags', Branches', NEW pc \in {"create", "rc", "stable"}, op' = Goes(o, pc),
         pc = "create" => op[o].pc \in {"topic", "push"}
  PROVE  PrepareInv'
<1> DEFINE to == [op[o] EXCEPT !.pc = pc]
<1>1. op \in [Operators -> OpType] /\ op[o] \in OpType /\ pc \in Phases
  BY DEF PrepareInv, Phases
<1>2. op' = [op EXCEPT ![o] = to]
  BY <1>1 DEF Goes
<1>3. to \in OpType /\ to.pc = pc /\ to.at = op[o].at /\ to.target = op[o].target
  BY <1>1 DEF OpType
<1> HIDE DEF to
<1>4. op'[o] = to /\ Kept
  BY <1>1, <1>2 DEF Kept
<1>5. OperatorInv(o)'
  BY <1>3, <1>4, RestsWell
<1> QED
  BY <1>2, <1>3, <1>5, OneOperator

\* The open pull request is looked up.
LEMMA ListKeepsInv == ASSUME PrepareInv, NEW o \in Operators, List(o) PROVE PrepareInv'
<1> DEFINE listed == IF op[o].target \in pulls THEN topics[op[o].target] ELSE None
           to == [op[o] EXCEPT !.pc = "topic", !.want = <<>>, !.reachable = {}, !.occupied = {}, !.listed = listed]
<1>1. /\ op[o].pc = "list" /\ UNCHANGED <<commits, main, topics, tags, pulls, touched>>
      /\ op \in [Operators -> OpType] /\ op[o] \in OpType /\ op[o].at \in DOMAIN commits
      /\ op[o].target \in Versions /\ ~Less(op[o].target, VersionOf(op[o].at))
  BY DEF List, remote, PrepareInv, OperatorInv
<1>2. op' = [op EXCEPT ![o] = to]
  BY <1>1 DEF List
<1>3. listed \in Nat /\ "topic" \in Phases /\ <<>> \in AnyWant
  BY <1>1 DEF PrepareInv, Branches, None, Phases, AnyWant
<1> HIDE DEF listed
<1>4. to \in OpType /\ to.pc = "topic" /\ to.at = op[o].at /\ to.target = op[o].target
  BY <1>1, <1>3 DEF OpType
<1> HIDE DEF to
<1>5. op'[o] = to
  BY <1>1, <1>2
<1>6. AllTags' = AllTags /\ Branches'
  BY <1>1 DEF AllTags, PrepareInv, Branches, VersionOf
<1>7. PICK at : at = op[o].at
  OBVIOUS
<1>8. VersionOf(at)' = VersionOf(at)
  BY <1>1 DEF VersionOf
<1>9. OperatorInv(o)'
  BY <1>1, <1>4, <1>5, <1>7, <1>8 DEF OperatorInv
<1> QED
  BY <1>1, <1>2, <1>4, <1>6, <1>9, OneOperator

\* A base of two commits is in the history of both, and behind no other such.
LEMMA MergeBase ==
  ASSUME Histories, NEW c \in DOMAIN commits, NEW d \in DOMAIN commits, NEW b \in MergeBases(c, d)
  PROVE  /\ b \in Past(c) /\ b \in Past(d) /\ b \in DOMAIN commits
         /\ \A x \in Past(c) \cap Past(d) : x # b => b \notin Past(x)
  BY DEF MergeBases, Past, Histories

\* What sync_versions makes of a commit.
LEMMA ProjectedTree ==
  ASSUME Histories, NEW c \in DOMAIN commits, NEW v \in Triple
  PROVE  /\ Projected(c, v) \in TreeType /\ Projected(c, v).version = v
         /\ Projected(c, v).body = BodyOf(c)
         /\ \A d \in DOMAIN commits : Tree(d) = Projected(c, v) <=> VersionOf(d) = v /\ BodyOf(d) = BodyOf(c)
<1>1. /\ Tree(c) \in TreeType /\ Tree(c).body = BodyOf(c)
      /\ \A d \in DOMAIN commits : /\ Tree(d) \in TreeType /\ Tree(d).body = BodyOf(d)
                                   /\ Tree(d).version = VersionOf(d)
  BY TreesAreTyped
<1> DEFINE tree == Projected(c, v)
<1>2. tree \in TreeType /\ tree.version = v /\ tree.body = BodyOf(c)
  BY <1>1 DEF Projected, TreeType
<1> HIDE DEF tree
<1>3. \A s, t \in TreeType : s = t <=> s.version = t.version /\ s.body = t.body
  BY DEF TreeType
<1>4. \A d \in DOMAIN commits : Tree(d) = tree <=> VersionOf(d) = v /\ BodyOf(d) = BodyOf(c)
  BY <1>1, <1>2, <1>3
<1> QED
  BY <1>2, <1>4 DEF tree

\* The topic is looked up: what is going to be replaced is behind the checkout.
LEMMA FetchTopicKeepsInv == ASSUME PrepareInv, NEW o \in Operators, FetchTopic(o) PROVE PrepareInv'
<1> DEFINE at == op[o].at
           target == op[o].target
           topic == topics[target]
           to == [op[o] EXCEPT !.sha = topic, !.pc = "push"]
<1>1. /\ op[o].pc = "topic" /\ UNCHANGED <<commits, main, topics, tags, pulls, touched>>
      /\ op \in [Operators -> OpType] /\ op[o] \in OpType /\ at \in DOMAIN commits
      /\ target \in Versions /\ ~Less(target, VersionOf(at)) /\ Histories /\ Branches
  BY DEF FetchTopic, remote, PrepareInv, OperatorInv
<1>2. AllTags' = AllTags /\ Branches'
  BY <1>1 DEF AllTags, Branches, VersionOf
<1>3. target \in Triple /\ topic \in Nat /\ (topic # None => topic \in DOMAIN commits /\ VersionOf(topic) = target)
  BY <1>1, PrepareAssumption DEF Branches
<1>4. \/ op' = Ends(o)
      \/ op' = Goes(o, "create")
      \/ /\ op' = [op EXCEPT ![o].sha = topic, ![o].pc = "push"]
         /\ topic # None => /\ Tree(topic) # Projected(at, target)
                            /\ \E base \in MergeBases(topic, at) : OwnedTopic(topic, base, target)
  <2>1. op' = Onward(o, topic) =>
          \/ op' = Ends(o) \/ op' = Goes(o, "create")
          \/ /\ op' = [op EXCEPT ![o].sha = topic, ![o].pc = "push"]
             /\ topic = None \/ Tree(topic) # Projected(at, target)
    BY DEF Onward
  <2>2. \/ op' = Ends(o)
        \/ topic = None /\ op' = Onward(o, topic)
        \/ /\ topic # None /\ op' = Onward(o, topic)
           /\ \E base \in MergeBases(topic, at) : OwnedTopic(topic, base, target)
    BY DEF FetchTopic
  <2> HIDE DEF topic, at, target
  <2> QED
    BY <2>1, <2>2
<1>5. CASE op' = Ends(o)
  BY <1>1, <1>2, <1>5, EndsKeepsInv
<1>6. CASE op' = Goes(o, "create")
  BY <1>1, <1>2, <1>6, GoesKeepsInv
<1>7. CASE /\ op' = [op EXCEPT ![o].sha = topic, ![o].pc = "push"]
           /\ topic # None => /\ Tree(topic) # Projected(at, target)
                              /\ \E base \in MergeBases(topic, at) : OwnedTopic(topic, base, target)
  <2>1. op' = [op EXCEPT ![o] = to]
    BY <1>1, <1>7
  <2>2. "push" \in Phases
    BY DEF Phases
  <2>3. to \in OpType /\ to.pc = "push" /\ to.at = at /\ to.target = target /\ to.sha = topic
    <3> HIDE DEF topic
    <3> QED
      BY <1>1, <1>3, <2>2 DEF OpType
  <2>4. topic # None => /\ BodyOf(topic) \subseteq BodyOf(at)
                        /\ target \notin touched => Past(topic) \subseteq OfVersion(target) \cup Past(at)
    <3>1. SUFFICES ASSUME topic # None
                   PROVE  /\ BodyOf(topic) \subseteq BodyOf(at)
                          /\ target \notin touched => Past(topic) \subseteq OfVersion(target) \cup Past(at)
      OBVIOUS
    <3>2. PICK base \in MergeBases(topic, at) : OwnedTopic(topic, base, target)
      BY <1>7, <3>1
    <3>3. topic \in DOMAIN commits /\ VersionOf(topic) = target
      BY <1>3, <3>1
    <3>4. /\ base \in Past(topic) /\ base \in Past(at) /\ base \in DOMAIN commits
          /\ \A x \in Past(topic) \cap Past(at) : x # base => base \notin Past(x)
      <4> HIDE DEF topic, at
      <4> QED
        BY <1>1, <3>2, <3>3, MergeBase
    <3>5. BodyOf(topic) = BodyOf(base)
      BY <1>1, <1>3, <3>2, <3>3, <3>4, ProjectedTree DEF OwnedTopic
    <3>6. BodyOf(base) \subseteq BodyOf(at) /\ at \in Past(at)
      BY <1>1, <3>4 DEF Histories
    <3>7. ASSUME target \notin touched PROVE Past(topic) \subseteq OfVersion(target) \cup Past(at)
      <4>1. PICK T \in SUBSET DOMAIN commits : Trunk(T)
        BY DEF PrepareInv
      <4>2. at \in T
        BY <4>1 DEF Trunk
      <4>3. PICK a \in T : MadeFrom(topic, a, target)
        BY <1>1, <3>1, <3>7, <4>1 DEF Trunk
      <4>4. a \in Past(topic) /\ Past(topic) \subseteq OfVersion(target) \cup Past(a)
        BY <4>3 DEF MadeFrom
      <4>5. a \in Past(at) \/ at \in Past(a)
        BY <4>1, <4>2 DEF Trunk
      <4>6. CASE a \in Past(at)
        <5>1. Past(a) \subseteq Past(at)
          BY <1>1, <4>6 DEF Histories
        <5> QED
          BY <4>4, <5>1
      <4>7. CASE at \in Past(a)
        <5>1. Past(a) \subseteq Past(topic)
          BY <1>1, <3>3, <4>4 DEF Histories
        <5>2. base = at
          BY <3>4, <3>6, <4>7, <5>1
        <5>3. Tree(topic) = Projected(at, target)
          BY <3>2, <5>2 DEF OwnedTopic
        <5> QED
          BY <1>7, <3>1, <5>3
      <4> QED
        BY <4>5, <4>6, <4>7
    <3> QED
      BY <3>5, <3>6, <3>7
  <2>5. PICK s, a, v : s = topic /\ a = at /\ v = target
    OBVIOUS
  <2>6. /\ VersionOf(a)' = VersionOf(a) /\ VersionOf(s)' = VersionOf(s) /\ BodyOf(a)' = BodyOf(a)
        /\ BodyOf(s)' = BodyOf(s) /\ Past(a)' = Past(a) /\ Past(s)' = Past(s) /\ OfVersion(v)' = OfVersion(v)
        /\ touched' = touched /\ DOMAIN commits' = DOMAIN commits
    BY <1>1 DEF VersionOf, BodyOf, Past, OfVersion
  <2>7. /\ a \in DOMAIN commits /\ v \in Versions /\ ~Less(v, VersionOf(a))
        /\ s # None => /\ s \in DOMAIN commits /\ VersionOf(s) = v /\ BodyOf(s) \subseteq BodyOf(a)
                       /\ v \notin touched => Past(s) \subseteq OfVersion(v) \cup Past(a)
    BY <1>1, <1>3, <2>4, <2>5
  <2> HIDE DEF to, at, target, topic
  <2>8. op'[o] = to
    BY <1>1, <2>1
  <2>9. to.pc = "push" /\ to.at = a /\ to.target = v /\ to.sha = s
    BY <2>3, <2>5
  <2>10. OperatorInv(o)'
    BY <2>6, <2>7, <2>8, <2>9 DEF OperatorInv
  <2> QED
    BY <1>1, <1>2, <2>1, <2>3, <2>10, OneOperator DEF at
<1> QED
  BY <1>4, <1>5, <1>6, <1>7

\* Branches that move to commits of their version.
LEMMA BranchesKept ==
  ASSUME Histories, Branches, Kept, main' \in DOMAIN commits', tags' = tags,
         topics' \in [Versions -> Nat], pulls' \subseteq {v \in Versions : topics'[v] # None},
         \A v \in Versions : \/ topics'[v] \in {topics[v], None}
                             \/ topics'[v] \in DOMAIN commits' /\ commits'[topics'[v]].tree.version = v
  PROVE  Branches'
<1>1. \A c \in DOMAIN commits : c \in DOMAIN commits' /\ commits'[c].tree.version = commits[c].tree.version
  BY DEF Kept
<1>2. ASSUME NEW v \in Versions, topics'[v] # None
      PROVE  topics'[v] \in DOMAIN commits' /\ commits'[topics'[v]].tree.version = v
  BY <1>1, <1>2 DEF Branches, VersionOf
<1>3. ASSUME NEW v \in Versions, tags[v] # None
      PROVE  tags[v] \in DOMAIN commits' /\ commits'[tags[v]].tree.version = v
  BY <1>1, <1>3 DEF Branches, VersionOf
<1> QED
  BY <1>2, <1>3 DEF Branches, VersionOf

\* A step that adds a commit to the default branch or to a topic.
LEMMA BranchMoves ==
  ASSUME PrepareInv, Histories', Kept, Branches', touched \subseteq touched', AllTags' = AllTags,
         op' \in [Operators -> OpType],
         \A q \in Operators : op'[q].at = op[q].at /\ (op'[q] = op[q] \/ OperatorInv(q)'),
         main' = main \/ Past(main) \subseteq Past(main)',
         \A v \in Versions \ touched' : topics'[v] # None =>
            topics'[v] = topics[v] \/ \E q \in Operators : \E a : a = op[q].at /\ MadeFrom(topics[v], a, v)'
  PROVE  PrepareInv'
<1>1. Histories /\ Branches /\ main' \in DOMAIN commits'
  BY DEF PrepareInv, Branches
<1>2. \A q \in Operators : OperatorInv(q)'
  BY <1>1, OperatorKept DEF PrepareInv
<1>3. PICK T \in SUBSET DOMAIN commits : Trunk(T)
  BY DEF PrepareInv
<1>4. \A v \in Versions \ touched' : topics'[v] # None =>
        topics'[v] = topics[v] \/ \E a \in T : MadeFrom(topics[v], a, v)'
  BY <1>3 DEF Trunk
<1>5. \E U \in SUBSET DOMAIN commits' : Trunk(U)'
  BY <1>1, <1>3, <1>4, TrunkKept
<1> QED
  BY <1>2, <1>5 DEF PrepareInv

(* What a push adds to the remote.                                            *)
PushedFacts(o, n) ==
  /\ Histories' /\ Kept /\ n \notin DOMAIN commits /\ n \in DOMAIN commits'
  /\ commits'[n].tree.version = op[o].target /\ commits'[n].tree.body = BodyOf(op[o].at)
  /\ commits'[n].history = {n} \cup UNION {Past(p) : p \in Parents(o)}
  /\ \A p \in Parents(o) : p \in DOMAIN commits /\ BodyOf(p) \subseteq BodyOf(op[o].at)

\* The commit of a preparation is ahead of what it was made from.
LEMMA PushIsAhead ==
  ASSUME PrepareInv, NEW o \in Operators, op[o].pc = "push", Pushed(o)
  PROVE  \E n \in Nat \ {0} : PushedFacts(o, n) /\ topics' = [topics EXCEPT ![op[o].target] = n]
<1> DEFINE at == op[o].at
           target == op[o].target
           sha == op[o].sha
           tree == Projected(at, target)
<1>1. /\ Histories /\ op \in [Operators -> OpType] /\ at \in DOMAIN commits
      /\ target \in Versions /\ ~Less(target, VersionOf(at))
      /\ sha # None => sha \in DOMAIN commits /\ VersionOf(sha) = target /\ BodyOf(sha) \subseteq BodyOf(at)
  BY DEF PrepareInv, OperatorInv
<1>2. target \in Triple
  BY <1>1, PrepareAssumption
<1>3. tree \in TreeType /\ tree.version = target /\ tree.body = BodyOf(at)
  BY <1>1, <1>2, ProjectedTree
<1>4. Parents(o) \in SUBSET DOMAIN commits
  BY <1>1 DEF Parents
<1>5. \A p \in Parents(o) : ~Less(tree.version, VersionOf(p)) /\ BodyOf(p) \subseteq tree.body
  BY <1>1, <1>2, <1>3, LessOrder DEF Parents
<1>6. commits' = Commit(Parents(o), tree) /\ topics' = [topics EXCEPT ![target] = New]
  BY DEF Pushed, Refreshed
<1> HIDE DEF tree
<1>7. PICK n : n = New
  OBVIOUS
<1>8. /\ Histories' /\ Kept /\ n \in Nat \ {0} /\ n \notin DOMAIN commits /\ n \in DOMAIN commits'
      /\ commits'[n].tree = tree /\ commits'[n].history = {n} \cup UNION {Past(p) : p \in Parents(o)}
  <2> HIDE DEF Histories, Kept
  <2> QED
    BY <1>1, <1>3, <1>4, <1>5, <1>6, <1>7, NewCommit DEF None
<1> QED
  BY <1>3, <1>4, <1>5, <1>6, <1>7, <1>8 DEF PushedFacts

\* A push: the topic is a preparation of the checkout.
LEMMA PushedKeepsInv ==
  ASSUME PrepareInv, NEW o \in Operators, op[o].pc = "push", Pushed(o),
         op' \in {Ends(o), Goes(o, "create")}
  PROVE  PrepareInv'
<1>1. PICK n \in Nat \ {0} : PushedFacts(o, n) /\ topics' = [topics EXCEPT ![op[o].target] = n]
  BY PushIsAhead
<1>2. PICK at, target, sha : at = op[o].at /\ target = op[o].target /\ sha = op[o].sha
  OBVIOUS
<1>3. /\ Histories /\ Branches /\ op \in [Operators -> OpType] /\ op[o] \in OpType /\ at \in DOMAIN commits
      /\ target \in Versions
      /\ sha # None /\ target \notin touched => Past(sha) \subseteq OfVersion(target) \cup Past(at)
  BY <1>2 DEF PrepareInv, OperatorInv
<1>4. UNCHANGED <<main, pulls, tags, touched, moves>>
  BY DEF Pushed
<1>5. Histories' /\ Kept /\ n \in DOMAIN commits' /\ topics' = [topics EXCEPT ![target] = n]
  BY <1>1, <1>2 DEF PushedFacts
<1>6. Branches'
  <2>1. main' \in DOMAIN commits'
    BY <1>3, <1>4, <1>5 DEF Branches, Kept
  <2>2. topics' \in [Versions -> Nat] /\ topics'[target] = n /\ \A v \in Versions \ {target} : topics'[v] = topics[v]
    BY <1>3, <1>5 DEF Branches
  <2>3. pulls' \subseteq {v \in Versions : topics'[v] # None}
    BY <1>3, <1>4, <2>2 DEF Branches, None
  <2>4. commits'[topics'[target]].tree.version = target
    BY <1>1, <1>2, <2>2 DEF PushedFacts
  <2> QED
    BY <1>3, <1>4, <1>5, <2>1, <2>2, <2>3, <2>4, BranchesKept
<1>7. PICK to \in OpType : /\ op' = [op EXCEPT ![o] = to] /\ to.at = at
                           /\ to.pc \in {"ready", "away"} \/ (to.pc = "create" /\ to.target = target)
  <2>1. CASE op' = Ends(o)
    <3>1. op[o].at \in Nat /\ op[o].dirty \in BOOLEAN
      BY <1>3 DEF OpType
    <3> DEFINE to == IF o \in Persistent THEN Ready(op[o].at, op[o].dirty) ELSE Away(op[o].at)
    <3>2. op' = [op EXCEPT ![o] = to]
      BY <1>3, <2>1 DEF Ends
    <3>3. to \in OpType /\ to.pc \in {"ready", "away"} /\ to.at = at
      BY <1>2, <3>1, ReadyIsWell
    <3> HIDE DEF to
    <3> QED
      BY <3>2, <3>3
  <2>2. CASE op' = Goes(o, "create")
    <3> DEFINE to == [op[o] EXCEPT !.pc = "create"]
    <3>1. op' = [op EXCEPT ![o] = to]
      BY <1>3, <2>2 DEF Goes
    <3>2. to \in OpType /\ to.pc = "create" /\ to.at = at /\ to.target = target
      BY <1>2, <1>3 DEF OpType, Phases
    <3> HIDE DEF to
    <3> QED
      BY <3>1, <3>2
  <2> QED
    BY <2>1, <2>2
<1>8. op' \in [Operators -> OpType] /\ op'[o] = to /\ \A q \in Operators \ {o} : op'[q] = op[q]
  BY <1>3, <1>7
<1>9. OperatorInv(o)'
  BY <1>2, <1>5, <1>7, <1>8, RestsWell
<1>10. ASSUME target \notin touched PROVE MadeFrom(n, at, target)'
  <2>1. /\ Past(n)' = {n} \cup UNION {Past(p) : p \in Parents(o)} /\ BodyOf(n)' = BodyOf(at)
        /\ VersionOf(n)' = target
    BY <1>1, <1>2 DEF PushedFacts, Past, BodyOf, VersionOf
  <2>2. Past(at)' = Past(at) /\ BodyOf(at)' = BodyOf(at) /\ \A v : OfVersion(v) \subseteq OfVersion(v)'
    BY <1>3, <1>5, FactsKept
  <2>3. n \in OfVersion(target)'
    BY <1>5, <2>1 DEF OfVersion
  <2>4. at \in Parents(o) /\ \A p \in Parents(o) : p = at \/ (p = sha /\ sha # None)
    BY <1>2 DEF Parents
  <2>5. at \in Past(at)
    BY <1>3 DEF Histories
  <2>6. UNION {Past(p) : p \in Parents(o)} \subseteq OfVersion(target) \cup Past(at)
    BY <1>3, <1>10, <2>4
  <2> QED
    BY <2>1, <2>2, <2>3, <2>4, <2>5, <2>6 DEF MadeFrom
<1>11. ASSUME NEW v \in Versions \ touched', topics'[v] # None
       PROVE  topics'[v] = topics[v] \/ \E q \in Operators : \E a : a = op[q].at /\ MadeFrom(topics[v], a, v)'
  <2>1. CASE v = target
    <3>1. topics'[v] = n
      BY <1>3, <1>5, <2>1 DEF Branches
    <3>2. MadeFrom(n, at, v)'
      BY <1>4, <1>10, <1>11, <2>1
    <3>3. MadeFrom(topics[v], at, v)'
      BY <3>1, <3>2 DEF MadeFrom, Past, BodyOf
    <3> QED
      BY <1>2, <3>3
  <2> QED
    BY <1>3, <1>5, <2>1 DEF Branches
<1>12. AllTags' = AllTags
  BY <1>4 DEF AllTags
<1> QED
  BY <1>2, <1>4, <1>5, <1>6, <1>7, <1>8, <1>9, <1>11, <1>12, BranchMoves

\* A push that is answered.
LEMMA PushKeepsInv == ASSUME PrepareInv, NEW o \in Operators, Push(o) PROVE PrepareInv'
<1>1. CASE Pushed(o)
  <2>1. op' \in {Ends(o), Goes(o, "create")} \/ (op' = Ends(o) /\ ~FastForward(o))
    BY DEF Push
  <2> QED
    BY <1>1, <2>1, PushedKeepsInv DEF Push, Pushed
<1>2. CASE ~Pushed(o)
  <2>1. op' = Ends(o) /\ UNCHANGED <<commits, main, topics, pulls, tags, touched>>
    BY <1>2 DEF Push, remote
  <2>2. AllTags' = AllTags /\ Branches'
    BY <2>1 DEF AllTags, PrepareInv, Branches, VersionOf
  <2> QED
    BY <2>1, <2>2, EndsKeepsInv
<1> QED
  BY <1>1, <1>2

\* One that is not.
LEMMA PushUnansweredKeepsInv == ASSUME PrepareInv, NEW o \in Operators, PushUnanswered(o) PROVE PrepareInv'
  BY PushedKeepsInv DEF PushUnanswered

\* A pull request is created.
LEMMA CreatePRKeepsInv == ASSUME PrepareInv, NEW o \in Operators, CreatePR(o) PROVE PrepareInv'
<1>1. /\ op[o].pc = "create" /\ op' = Ends(o) /\ UNCHANGED <<commits, main, topics, tags, touched>>
      /\ pulls' = pulls \/ (pulls' = pulls \cup {op[o].target} /\ topics[op[o].target] # None)
  BY DEF CreatePR, Created, CanCreate, remote
<1>2. op[o].target \in Versions
  BY <1>1 DEF PrepareInv, OperatorInv
<1>3. AllTags' = AllTags /\ Branches'
  BY <1>1, <1>2 DEF AllTags, PrepareInv, Branches, VersionOf
<1> QED
  BY <1>1, <1>3, EndsKeepsInv

\* A release is asked for.
LEMMA DispatchKeepsInv == ASSUME PrepareInv, NEW o \in Operators, Dispatch(o) PROVE PrepareInv'
<1>1. PICK channel \in {"rc", "stable"} : op' = Goes(o, channel)
  BY DEF Dispatch
<1>2. UNCHANGED <<commits, main, topics, pulls, tags, touched>>
  BY DEF Dispatch, remote
<1>3. AllTags' = AllTags /\ Branches'
  BY <1>2 DEF AllTags, PrepareInv, Branches, VersionOf
<1> QED
  BY <1>1, <1>2, <1>3, GoesKeepsInv

\* A run is started.
LEMMA RequestKeepsInv == ASSUME PrepareInv, NEW o \in Operators, Request(o) PROVE PrepareInv'
<1>1. op' = Ends(o) /\ UNCHANGED <<commits, main, topics, pulls, tags, touched>>
  BY DEF Request
<1>2. AllTags' = AllTags /\ Branches'
  BY <1>1 DEF AllTags, PrepareInv, Branches, VersionOf
<1> QED
  BY <1>1, <1>2, EndsKeepsInv

\* The clone is brought to the head.
LEMMA RefreshKeepsInv == ASSUME PrepareInv, NEW o \in Operators, Refresh(o) PROVE PrepareInv'
<1> DEFINE to == Ready(main, FALSE)
<1>1. op' = [op EXCEPT ![o] = to] /\ UNCHANGED <<commits, main, topics, pulls, tags, touched>>
  BY DEF Refresh, remote
<1>2. Histories /\ Branches /\ main \in DOMAIN commits /\ op \in [Operators -> OpType]
  BY DEF PrepareInv, Branches
<1>3. main \in Nat
  BY <1>2, TreesAreTyped
<1>4. to \in OpType /\ to.pc = "ready" /\ to.at = main
  BY <1>3, ReadyIsWell
<1>5. AllTags' = AllTags /\ Branches' /\ Kept
  BY <1>1, <1>2 DEF AllTags, Branches, VersionOf, Kept
<1> HIDE DEF to
<1>6. op'[o] = to
  BY <1>1, <1>2
<1>7. OperatorInv(o)'
  BY <1>4, <1>5, <1>6, RestsWell
<1> QED
  BY <1>1, <1>4, <1>5, <1>7, OneOperator

\* A stable tag of the version of a commit, at that commit.
LEMMA TagAtSource ==
  ASSUME PrepareInv, NEW c \in DOMAIN commits, UNCHANGED <<commits, main, topics, pulls>>,
         tags' = [tags EXCEPT ![VersionOf(c)] = c]
  PROVE  Branches' /\ AllTags \subseteq AllTags'
<1>1. Histories /\ Branches
  BY DEF PrepareInv
<1>2. c \in Nat /\ c # None
  BY <1>1, TreesAreTyped DEF None
<1>3. /\ tags' \in [Versions -> Nat]
      /\ \A v \in Versions : tags'[v] = tags[v] \/ (tags'[v] = c /\ VersionOf(c) = v)
  BY <1>1, <1>2 DEF Branches
<1>4. AllTags \subseteq AllTags'
  BY <1>2, <1>3 DEF AllTags
<1>5. ASSUME NEW v \in Versions, tags'[v] # None
      PROVE  tags'[v] \in DOMAIN commits /\ commits[tags'[v]].tree.version = v
  BY <1>1, <1>3, <1>5 DEF Branches, VersionOf
<1> QED
  BY <1>1, <1>3, <1>4, <1>5 DEF Branches, VersionOf

\* What a promotion tags.
LEMMA PromotedSource ==
  ASSUME PrepareInv, NEW r, Promote(r)
  PROVE  \E c \in DOMAIN commits :
           /\ c = candidates[r.rc].sha /\ VersionOf(c) \notin AllTags
           /\ tags' = [tags EXCEPT ![VersionOf(c)] = c]
<1>1. PICK c : c = candidates[r.rc].sha
  OBVIOUS
<1>2. c \in commits[main].history /\ main \in DOMAIN commits
  BY <1>1 DEF Promote, Source, PrepareInv, Branches
<1>3. c \in DOMAIN commits
  BY <1>2 DEF PrepareInv, Histories, Past
<1> QED
  BY <1>1, <1>3 DEF Promote, Source, BaseVersion, Tree, VersionOf

\* A run publishes a candidate or promotes one.
LEMMA PublicationKeepsInv ==
  ASSUME PrepareInv, NEW r \in runs, PublishCandidate(r) \/ Promote(r)
  PROVE  PrepareInv'
<1>1. UNCHANGED <<commits, main, topics, pulls, op, touched>>
  BY DEF PublishCandidate, Promote
<1>2. Branches' /\ AllTags \subseteq AllTags'
  <2>1. CASE tags' = tags
    BY <1>1, <2>1 DEF AllTags, PrepareInv, Branches, VersionOf
  <2>2. CASE Promote(r)
    BY <1>1, <2>2, PromotedSource, TagAtSource
  <2> QED
    BY <2>1, <2>2 DEF PublishCandidate
<1>3. Kept /\ Histories /\ Histories' /\ Branches
  BY <1>1 DEF PrepareInv, Kept, Histories, Past, VersionOf, BodyOf
<1>4. op' \in [Operators -> OpType] /\ \A q \in Operators : OperatorInv(q)'
  BY <1>1, <1>2, <1>3, OperatorKept DEF PrepareInv
<1>5. PICK T \in SUBSET DOMAIN commits : Trunk(T)
  BY DEF PrepareInv
<1>6. \E U \in SUBSET DOMAIN commits' : Trunk(U)'
  BY <1>1, <1>3, <1>5, TrunkKept
<1> QED
  BY <1>2, <1>3, <1>4, <1>6 DEF PrepareInv

\* A developer's change of a branch.
LEMMA EditTree ==
  ASSUME Histories, NEW c \in DOMAIN commits, NEW e \in Edits
  PROVE  /\ [Tree(c) EXCEPT !.body = @ \cup {e}] \in TreeType
         /\ [Tree(c) EXCEPT !.body = @ \cup {e}].version = VersionOf(c)
         /\ [Tree(c) EXCEPT !.body = @ \cup {e}].body = BodyOf(c) \cup {e}
         /\ VersionOf(c) \in Triple /\ ~Less(VersionOf(c), VersionOf(c))
<1>1. /\ Tree(c) \in TreeType /\ Tree(c).version = VersionOf(c) /\ Tree(c).body = BodyOf(c)
      /\ VersionOf(c) \in Triple
  BY TreesAreTyped
<1>2. ~Less(VersionOf(c), VersionOf(c))
  BY <1>1, LessOrder
<1> QED
  BY <1>1, <1>2 DEF TreeType

\* An edit of the default branch.
LEMMA EditMainKeepsInv == ASSUME PrepareInv, EditMain PROVE PrepareInv' /\ Past(main) \subseteq Past(main)'
<1>1. PICK e \in Unused : commits' = Commit({main}, [Tree(main) EXCEPT !.body = @ \cup {e}])
  BY DEF EditMain
<1>2. main' = New /\ UNCHANGED <<topics, pulls, tags, op, touched>> /\ e \in Edits
  BY DEF EditMain, Unused
<1>3. Histories /\ Branches /\ main \in DOMAIN commits /\ op \in [Operators -> OpType]
  BY DEF PrepareInv, Branches
<1> DEFINE tree == [Tree(main) EXCEPT !.body = @ \cup {e}]
<1>4. tree \in TreeType /\ ~Less(tree.version, VersionOf(main)) /\ BodyOf(main) \subseteq tree.body
  BY <1>2, <1>3, EditTree
<1> HIDE DEF tree
<1>5. commits' = Commit({main}, tree)
  BY <1>1 DEF tree
<1>6. PICK n : n = New
  OBVIOUS
<1>7. /\ Histories' /\ Kept /\ n \in DOMAIN commits' /\ n # None
      /\ commits'[n].history = {n} \cup UNION {Past(p) : p \in {main}}
  <2>1. {main} \in SUBSET DOMAIN commits
    BY <1>3
  <2>2. \A p \in {main} : ~Less(tree.version, VersionOf(p)) /\ BodyOf(p) \subseteq tree.body
    BY <1>4
  <2> QED
    BY <1>3, <1>4, <1>5, <1>6, <2>1, <2>2, NewCommit
<1>8. main' = n /\ Past(main) \subseteq Past(main)'
  <2>1. commits'[main'].history = commits'[n].history
    BY <1>2, <1>6
  <2> QED
    BY <1>2, <1>6, <1>7, <2>1 DEF Past
<1>9. Branches'
  BY <1>2, <1>3, <1>7, <1>8, BranchesKept DEF Branches
<1>10. AllTags' = AllTags
  BY <1>2 DEF AllTags
<1>11. op' \in [Operators -> OpType]
  BY <1>2, <1>3
<1>12. PrepareInv'
  BY <1>2, <1>7, <1>8, <1>9, <1>10, <1>11, BranchMoves
<1> QED
  BY <1>8, <1>12

\* An edit of a topic.
LEMMA EditTopicKeepsInv ==
  ASSUME PrepareInv, EditTopic
  PROVE  /\ PrepareInv' /\ UNCHANGED <<main, pulls, tags, op>> /\ touched \subseteq touched'
         /\ Kept /\ \A v \in Versions : topics[v] # None => topics[v] \in Past(topics[v])'
<1>1. PICK v \in Versions, e \in Unused :
        /\ topics[v] # None /\ commits' = Commit({topics[v]}, [Tree(topics[v]) EXCEPT !.body = @ \cup {e}])
        /\ topics' = [topics EXCEPT ![v] = New] /\ touched' = touched \cup {v}
        /\ UNCHANGED <<main, pulls, tags, op>>
  BY DEF EditTopic
<1>2. e \in Edits
  BY DEF Unused
<1>3. Histories /\ Branches /\ op \in [Operators -> OpType]
  BY DEF PrepareInv
<1>4. PICK c : c = topics[v]
  OBVIOUS
<1>5. c \in DOMAIN commits /\ VersionOf(c) = v
  BY <1>1, <1>3, <1>4 DEF Branches
<1> DEFINE tree == [Tree(c) EXCEPT !.body = @ \cup {e}]
<1>6. /\ tree \in TreeType /\ ~Less(tree.version, VersionOf(c)) /\ BodyOf(c) \subseteq tree.body
      /\ tree.version = v
  BY <1>2, <1>3, <1>5, EditTree
<1> HIDE DEF tree
<1>7. commits' = Commit({c}, tree)
  BY <1>1, <1>4 DEF tree
<1>8. PICK n : n = New
  OBVIOUS
<1>9. /\ Histories' /\ Kept /\ n \in DOMAIN commits' /\ n \in Nat \ {0} /\ commits'[n].tree = tree
      /\ commits'[n].history = {n} \cup UNION {Past(p) : p \in {c}}
  <2>1. {c} \in SUBSET DOMAIN commits
    BY <1>5
  <2>2. \A p \in {c} : ~Less(tree.version, VersionOf(p)) /\ BodyOf(p) \subseteq tree.body
    BY <1>6
  <2> QED
    BY <1>3, <1>6, <1>7, <1>8, <2>1, <2>2, NewCommit DEF None
<1>10. topics' \in [Versions -> Nat] /\ topics'[v] = n /\ \A w \in Versions \ {v} : topics'[w] = topics[w]
  BY <1>1, <1>3, <1>8, <1>9 DEF Branches
<1>11. Branches'
  <2>1. main' \in DOMAIN commits'
    BY <1>1, <1>3, <1>9 DEF Branches, Kept
  <2>2. pulls' \subseteq {w \in Versions : topics'[w] # None}
    BY <1>1, <1>3, <1>9, <1>10 DEF Branches, None
  <2>3. commits'[topics'[v]].tree.version = v
    BY <1>6, <1>9, <1>10
  <2> QED
    BY <1>1, <1>3, <1>9, <1>10, <2>1, <2>2, <2>3, BranchesKept
<1>12. AllTags' = AllTags
  BY <1>1 DEF AllTags
<1>13. op' \in [Operators -> OpType]
  BY <1>1, <1>3
<1>14. PrepareInv'
  BY <1>1, <1>9, <1>10, <1>11, <1>12, <1>13, BranchMoves
<1>15. ASSUME NEW w \in Versions, topics[w] # None PROVE topics[w] \in Past(topics[w])'
  <2>1. topics[w] \in Past(topics[w]) /\ topics[w] \in DOMAIN commits
    BY <1>3, <1>15 DEF Histories, Branches
  <2>2. CASE w = v
    <3>1. c \in commits'[n].history
      BY <1>4, <1>9, <2>1, <2>2
    <3> QED
      BY <1>4, <1>10, <2>2, <3>1 DEF Past
  <2>3. CASE w # v
    BY <1>9, <1>10, <2>1, <2>3 DEF Past, Kept
  <2> QED
    BY <2>2, <2>3
<1> QED
  BY <1>1, <1>9, <1>14, <1>15

\* The merge of two trees that went on from a common one has all of both.
LEMMA MergedTree ==
  ASSUME NEW base \in TreeType, NEW ours \in TreeType, NEW theirs \in TreeType,
         Mergeable(base, ours, theirs),
         ~Less(ours.version, base.version), ~Less(theirs.version, base.version),
         base.body \subseteq ours.body, base.body \subseteq theirs.body
  PROVE  LET merged == Merged(base, ours, theirs)
         IN  /\ merged \in TreeType
             /\ ~Less(merged.version, ours.version) /\ ~Less(merged.version, theirs.version)
             /\ merged.version \in {ours.version, theirs.version}
             /\ merged.body = ours.body \cup theirs.body
<1> DEFINE merged == Merged(base, ours, theirs)
<1>1. /\ base.version \in Triple /\ ours.version \in Triple /\ theirs.version \in Triple
      /\ ours.body \in SUBSET Edits /\ theirs.body \in SUBSET Edits
  BY DEF TreeType
<1>2. merged.version = IF ours.version = base.version THEN theirs.version ELSE ours.version
  BY DEF Merged
<1>3. merged.body = (ours.body \cup (theirs.body \ base.body)) \ (base.body \ theirs.body)
  BY DEF Merged
<1>4. merged.body = ours.body \cup theirs.body
  BY <1>3
<1>5. merged \in TreeType
  <2>1. merged = [version |-> merged.version, body |-> merged.body]
    BY DEF Merged
  <2>2. merged.version \in Triple /\ merged.body \in SUBSET Edits
    BY <1>1, <1>2, <1>4
  <2> HIDE DEF merged
  <2> QED
    BY <2>1, <2>2 DEF TreeType
<1>6. merged.version \in {ours.version, theirs.version}
  BY <1>2
<1> HIDE DEF merged
<1>7. ~Less(merged.version, ours.version) /\ ~Less(merged.version, theirs.version)
  <2>1. CASE ours.version = base.version
    BY <1>1, <1>2, <2>1, LessOrder
  <2>2. CASE ours.version # base.version
    BY <1>1, <1>2, <2>2, LessOrder DEF Mergeable
  <2> QED
    BY <2>1, <2>2
<1> QED
  BY <1>4, <1>5, <1>6, <1>7 DEF merged

\* A pull request is merged: what only preparations wrote changes no file but
\* the version's.
LEMMA MergePullKeepsInv ==
  ASSUME PrepareInv, NEW v \in Versions, MergePull(v)
  PROVE  /\ PrepareInv' /\ Past(main) \subseteq Past(main)' /\ Kept /\ UNCHANGED <<tags, op, touched>>
         /\ \A w \in Versions : topics'[w] \in {topics[w], None}
         /\ pulls' = pulls \ {v}
         /\ v \notin touched => /\ BodyOf(main)' = BodyOf(main)
                                /\ VersionOf(main)' \in {v, VersionOf(main)}
<1>1. PICK b \in MergeBases(main, topics[v]), squash \in BOOLEAN :
        /\ Mergeable(Tree(b), Tree(main), Tree(topics[v]))
        /\ commits' = Commit(IF squash THEN {main} ELSE {main, topics[v]},
                             Merged(Tree(b), Tree(main), Tree(topics[v])))
  BY DEF MergePull
<1>2. /\ main' = New /\ pulls' = pulls \ {v} /\ topics' \in {topics, [topics EXCEPT ![v] = None]}
      /\ v \in pulls /\ UNCHANGED <<tags, op, touched>>
  BY DEF MergePull
<1>3. Histories /\ Branches /\ main \in DOMAIN commits /\ op \in [Operators -> OpType]
  BY DEF PrepareInv, Branches
<1>4. PICK c : c = topics[v]
  OBVIOUS
<1>5. c \in DOMAIN commits /\ VersionOf(c) = v /\ c # None
  BY <1>2, <1>3, <1>4 DEF Branches
<1> DEFINE tree == Merged(Tree(b), Tree(main), Tree(c))
           parents == IF squash THEN {main} ELSE {main, c}
<1>6. b \in Past(main) /\ b \in Past(c) /\ b \in DOMAIN commits
  BY <1>1, <1>3, <1>4, <1>5, MergeBase
<1>7. \A d \in {b, c, main} : /\ Tree(d) \in TreeType /\ Tree(d).version = VersionOf(d)
                              /\ Tree(d).body = BodyOf(d)
  BY <1>3, <1>5, <1>6, TreesAreTyped
<1>8. /\ ~Less(VersionOf(main), VersionOf(b)) /\ ~Less(VersionOf(c), VersionOf(b))
      /\ BodyOf(b) \subseteq BodyOf(main) /\ BodyOf(b) \subseteq BodyOf(c)
  BY <1>3, <1>5, <1>6 DEF Histories
<1>9. /\ tree \in TreeType /\ ~Less(tree.version, VersionOf(main)) /\ ~Less(tree.version, VersionOf(c))
      /\ tree.version \in {VersionOf(main), VersionOf(c)} /\ tree.body = BodyOf(main) \cup BodyOf(c)
  BY <1>1, <1>4, <1>7, <1>8, MergedTree
<1>10. commits' = Commit(parents, tree) /\ parents \in SUBSET DOMAIN commits /\ main \in parents
  BY <1>1, <1>3, <1>4, <1>5
<1>11. \A p \in parents : ~Less(tree.version, VersionOf(p)) /\ BodyOf(p) \subseteq tree.body
  BY <1>9
<1> HIDE DEF tree, parents
<1>12. PICK n : n = New
  OBVIOUS
<1>13. /\ Histories' /\ Kept /\ n \in DOMAIN commits' /\ n # None /\ commits'[n].tree = tree
       /\ commits'[n].history = {n} \cup UNION {Past(p) : p \in parents}
  BY <1>3, <1>9, <1>10, <1>11, <1>12, NewCommit
<1>14. /\ main' = n /\ Past(main) \subseteq Past(main)'
       /\ BodyOf(main)' = tree.body /\ VersionOf(main)' = tree.version
  <2>1. commits'[main'] = commits'[n] /\ main' = n
    BY <1>2, <1>12
  <2> QED
    BY <1>10, <1>13, <2>1 DEF Past, BodyOf, VersionOf
<1>15. topics' \in [Versions -> Nat] /\ \A w \in Versions : topics'[w] \in {topics[w], None} /\ (w # v => topics'[w] = topics[w])
  BY <1>2, <1>3 DEF Branches, None
<1>16. Branches'
  <2>1. pulls' \subseteq {w \in Versions : topics'[w] # None}
    BY <1>2, <1>3, <1>15 DEF Branches
  <2> QED
    BY <1>2, <1>3, <1>13, <1>14, <1>15, <2>1, BranchesKept
<1>17. AllTags' = AllTags /\ op' \in [Operators -> OpType]
  BY <1>2, <1>3 DEF AllTags
<1>18. PrepareInv'
  BY <1>2, <1>13, <1>14, <1>15, <1>16, <1>17, BranchMoves
<1>19. ASSUME v \notin touched PROVE BodyOf(main)' = BodyOf(main) /\ VersionOf(main)' \in {v, VersionOf(main)}
  <2>1. PICK T \in SUBSET DOMAIN commits : Trunk(T)
    BY DEF PrepareInv
  <2>2. PICK a \in T : MadeFrom(c, a, v)
    BY <1>4, <1>5, <1>19, <2>1 DEF Trunk
  <2>3. a \in Past(main) /\ BodyOf(c) = BodyOf(a)
    BY <2>1, <2>2 DEF Trunk, MadeFrom
  <2>4. BodyOf(a) \subseteq BodyOf(main)
    BY <1>3, <2>3 DEF Histories
  <2> QED
    BY <1>5, <1>9, <1>14, <2>3, <2>4
<1> QED
  BY <1>2, <1>13, <1>14, <1>15, <1>18, <1>19

\* The repository begins with one commit and nothing prepared.
LEMMA PrepareInitInv == ASSUME Init PROVE PrepareInv
<1> DEFINE tree == [version |-> First, body |-> {}]
           entry == [tree |-> tree, history |-> {1}]
           Entries == [tree : TreeType, history : SUBSET Nat]
<1>1. commits = <<entry>> /\ DOMAIN commits = {1} /\ commits[1] = entry
  BY DEF Init
<1>2. First \in Triple /\ ~Less(First, First)
  BY PrepareAssumption, LessOrder
<1>3. tree \in TreeType /\ tree.version = First /\ tree.body = {}
  BY <1>2 DEF TreeType
<1>4. entry \in Entries /\ entry.tree = tree /\ entry.history = {1}
  BY <1>3
<1> HIDE DEF entry, tree, Entries
<1>5. commits \in Seq(Entries)
  BY <1>1, <1>4
<1>6. Past(1) = {1} /\ VersionOf(1) = First
  BY <1>1, <1>3, <1>4 DEF Past, VersionOf
<1>7. Histories
  <2>1. \A c \in DOMAIN commits : c = 1
    BY <1>1
  <2> QED
    BY <1>1, <1>2, <1>5, <1>6, <2>1 DEF Histories, Entries
<1>8. Branches
  <2>1. PICK released \in {None, 1} : tags = [v \in Versions |-> IF v = First THEN released ELSE None]
    BY DEF Init
  <2>2. tags \in [Versions -> Nat] /\ \A v \in Versions : tags[v] # None => tags[v] = 1 /\ v = First
    BY <2>1 DEF None
  <2> QED
    BY <1>1, <1>6, <2>2 DEF Init, Branches, None
<1>9. /\ Ready(1, FALSE) \in OpType /\ Ready(1, FALSE).pc = "ready" /\ Ready(1, FALSE).at = 1
      /\ Away(1) \in OpType /\ Away(1).pc = "away" /\ Away(1).at = 1
  BY ReadyIsWell
<1>10. op \in [Operators -> OpType] /\ \A o \in Operators : op[o].pc \in {"ready", "away"} /\ op[o].at = 1
  BY <1>9 DEF Init
<1>11. \A o \in Operators : OperatorInv(o)
  BY <1>1, <1>10 DEF OperatorInv
<1>12. Trunk({1})
  BY <1>6, <1>10 DEF Trunk, Init
<1> QED
  BY <1>1, <1>7, <1>8, <1>10, <1>11, <1>12 DEF PrepareInv

\* Every step keeps it.
LEMMA PrepareStepInv == ASSUME PrepareInv, [Next]_vars PROVE PrepareInv'
<1>1. ASSUME NEW o \in Operators, OperatorStep(o) PROVE PrepareInv'
  BY <1>1, ValidateKeepsInv, ChooseKeepsInv, ListKeepsInv, FetchTopicKeepsInv, PushKeepsInv, CreatePRKeepsInv,
     DispatchKeepsInv, RequestKeepsInv, RefreshKeepsInv DEF OperatorStep
<1>2. ASSUME UNCHANGED vars PROVE PrepareInv'
  <2>1. UNCHANGED <<commits, main, topics, pulls, tags, op, touched>>
    BY <1>2 DEF vars
  <2>2. Kept /\ Histories /\ Histories' /\ Branches /\ Branches' /\ AllTags' = AllTags
    BY <2>1 DEF PrepareInv, Kept, Histories, Past, VersionOf, BodyOf, Branches, AllTags
  <2>3. op' \in [Operators -> OpType]
    BY <2>1 DEF PrepareInv
  <2> QED
    BY <2>1, <2>2, <2>3, BranchMoves
<1> QED
  BY <1>1, <1>2, PushUnansweredKeepsInv, EditMainKeepsInv, EditTopicKeepsInv, PublicationKeepsInv,
     MergePullKeepsInv DEF Next

\* It holds throughout.
LEMMA PrepareInvariant == Spec => []PrepareInv
<1>1. Init => PrepareInv
  BY PrepareInitInv
<1>2. PrepareInv /\ [Next]_vars => PrepareInv'
  BY PrepareStepInv
<1> QED
  BY <1>1, <1>2, PTL DEF Spec

\* What is known of runs and candidates holds throughout.
LEMMA RunsInvariant == Spec => []RunsInv
<1> DEFINE Entry == [sha : Nat, asked : Nat]
<1>1. Init => RunsInv
  BY DEF Init, RunsInv
<1>2. ASSUME PrepareInv, RunsInv, [Next]_vars PROVE RunsInv'
  <2>1. main \in Nat
    BY <1>2, TreesAreTyped DEF PrepareInv, Branches
  <2>2. ASSUME UNCHANGED <<runs, candidates>> PROVE RunsInv'
    BY <1>2, <2>2 DEF RunsInv
  <2>3. ASSUME NEW o \in Operators, Request(o) PROVE RunsInv'
    <3>1. PICK rc \in IF op[o].pc = "stable" THEN DOMAIN candidates ELSE {None} :
            LET run == [channel |-> op[o].pc, sha |-> main, expected |-> op[o].at, rc |-> rc]
            IN  runs' = IF AsExpected(run) THEN runs \cup {run} ELSE runs
      BY <2>3 DEF Request
    <3> DEFINE run == [channel |-> op[o].pc, sha |-> main, expected |-> op[o].at, rc |-> rc]
    <3>2. AsExpected(run) => run.sha \in Nat /\ run.sha = run.expected
      BY <2>1 DEF AsExpected
    <3>3. run.channel = "stable" => run.rc \in DOMAIN candidates
      BY <3>1
    <3>4. runs' = runs \/ (AsExpected(run) /\ runs' = runs \cup {run})
      BY <3>1
    <3>5. candidates' = candidates
      BY <2>3 DEF Request
    <3> HIDE DEF run
    <3> QED
      BY <1>2, <3>2, <3>3, <3>4, <3>5 DEF RunsInv
  <2>4. ASSUME NEW r \in runs, PublishCandidate(r) PROVE RunsInv'
    <3> DEFINE new == [sha |-> r.sha, asked |-> r.expected]
    <3>1. r.sha \in Nat /\ r.expected = r.sha
      BY <1>2, <2>4 DEF RunsInv
    <3>2. new \in Entry /\ new.sha = new.asked
      BY <3>1
    <3>3. candidates' = Append(candidates, new) /\ runs' = runs \ {r} /\ candidates \in Seq(Entry)
      BY <1>2, <2>4 DEF PublishCandidate, RunsInv
    <3> HIDE DEF new, Entry
    <3>4. /\ candidates' \in Seq(Entry) /\ DOMAIN candidates \subseteq DOMAIN candidates'
          /\ \A i \in DOMAIN candidates' : candidates'[i] = new \/ (i \in DOMAIN candidates /\ candidates'[i] = candidates[i])
      BY <3>2, <3>3
    <3> QED
      BY <1>2, <3>2, <3>3, <3>4 DEF RunsInv, Entry
  <2>5. ASSUME NEW r \in runs, Promote(r) PROVE RunsInv'
    BY <1>2, <2>5 DEF Promote, RunsInv
  <2>6. ASSUME NEW o \in Operators, OperatorStep(o) \/ PushUnanswered(o), ~Request(o)
        PROVE  UNCHANGED <<runs, candidates>>
    BY <2>6 DEF OperatorStep, PushUnanswered, Validate, Choose, List, FetchTopic, Push, Pushed, CreatePR, Created,
                Dispatch, Refresh, remote
  <2>7. EditMain \/ EditTopic \/ UNCHANGED vars \/ (\E v \in Versions : MergePull(v)) => UNCHANGED <<runs, candidates>>
    BY DEF EditMain, EditTopic, MergePull, vars
  <2> QED
    BY <1>2, <2>2, <2>3, <2>4, <2>5, <2>6, <2>7 DEF Next
<1>3. PrepareInv /\ RunsInv /\ [Next]_vars => RunsInv'
  BY <1>2
<1> QED
  BY <1>1, <1>3, PrepareInvariant, PTL DEF Spec

-----------------------------------------------------------------------------
(* The theorems.                                                              *)

\* choose_version, for every set of versions, tags and requests: what an operator
\* goes on with is not behind its checkout, after every stable tag in its
\* history, and free; without a wish it is the least such version.
THEOREM ChosenVersionIsNext == Spec => []ChosenIsNext
<1>1. PrepareInv => ChosenIsNext
  BY DEF PrepareInv, OperatorInv, ChosenWell, Allowed, VersionOf, Tree, ChosenIsNext
<1> QED
  BY <1>1, PrepareInvariant, PTL

\* verify_owned_topic, for every number of operators, refreshes and merges: the
\* pull request of a version ahead of the default branch that only preparations
\* wrote is recognised, whichever common ancestor git merge-base prints.
THEOREM TopicsAreRecognised == Spec => []OwnTopicRecognised
<1>1. ASSUME PrepareInv, NEW v \in pulls \ touched, Less(Tree(main).version, v), NEW b \in MergeBases(topics[v], main)
      PROVE  OwnedTopic(topics[v], b, v)
  <2> DEFINE c == topics[v]
  <2>1. Histories /\ Branches /\ main \in DOMAIN commits /\ v \in Versions /\ c # None
    BY <1>1 DEF PrepareInv, Branches
  <2>2. c \in DOMAIN commits /\ VersionOf(c) = v /\ v \in Triple
    BY <2>1, PrepareAssumption DEF Branches
  <2>3. PICK T \in SUBSET DOMAIN commits : Trunk(T)
    BY <1>1 DEF PrepareInv
  <2>4. PICK a \in T : MadeFrom(c, a, v)
    BY <1>1, <2>1, <2>3 DEF Trunk
  <2> HIDE DEF c
  <2>5. /\ b \in Past(c) /\ b \in Past(main) /\ b \in DOMAIN commits
        /\ \A x \in Past(c) \cap Past(main) : x # b => b \notin Past(x)
    BY <1>1, <2>1, <2>2, MergeBase DEF c
  <2>6. a \in Past(c) /\ a \in Past(main) /\ BodyOf(c) = BodyOf(a) /\ Past(c) \subseteq OfVersion(v) \cup Past(a)
    BY <2>3, <2>4 DEF Trunk, MadeFrom
  <2>7. ~Less(VersionOf(main), VersionOf(b)) /\ Less(VersionOf(main), v)
    BY <1>1, <2>1, <2>5 DEF Histories, Tree, VersionOf
  <2>8. b \in Past(a)
    BY <2>5, <2>6, <2>7 DEF OfVersion
  <2>9. b = a
    BY <2>5, <2>6, <2>8
  <2>10. Tree(c) = Projected(b, v)
    BY <2>1, <2>2, <2>5, <2>6, <2>9, ProjectedTree
  <2> QED
    BY <2>10 DEF OwnedTopic, c
<1>2. PrepareInv => OwnTopicRecognised
  BY <1>1 DEF OwnTopicRecognised
<1> QED
  BY <1>2, PrepareInvariant, PTL

\* What a step does to the default branch and to the topics.
LEMMA HistoryGoesOn ==
  ASSUME PrepareInv, [Next]_vars
  PROVE  /\ Kept /\ Past(main) \subseteq Past(main)'
         /\ \A v \in Versions : topics[v] # None /\ topics'[v] # None => topics[v] \in Past(topics[v])'
         /\ \A v \in pulls \ (pulls' \cup touched) :
              BodyOf(main)' = BodyOf(main) /\ VersionOf(main)' \in {v, VersionOf(main)}
<1> DEFINE Goal == /\ Kept /\ Past(main) \subseteq Past(main)'
                   /\ \A v \in Versions : topics[v] # None /\ topics'[v] # None => topics[v] \in Past(topics[v])'
                   /\ \A v \in pulls \ (pulls' \cup touched) :
                        BodyOf(main)' = BodyOf(main) /\ VersionOf(main)' \in {v, VersionOf(main)}
<1>1. Histories /\ Branches /\ main \in DOMAIN commits
  BY DEF PrepareInv, Branches
<1>2. \A c \in DOMAIN commits : c \in Past(c)
  BY <1>1 DEF Histories
<1>3. ASSUME UNCHANGED <<commits, main, topics>>, pulls \subseteq pulls' PROVE Goal
  BY <1>1, <1>2, <1>3 DEF Kept, Past, Branches
<1>4. ASSUME NEW o \in Operators, op[o].pc = "push", Pushed(o) PROVE Goal
  <2>1. PICK n \in Nat \ {0} : PushedFacts(o, n) /\ topics' = [topics EXCEPT ![op[o].target] = n]
    BY <1>4, PushIsAhead
  <2>2. PICK target : target = op[o].target
    OBVIOUS
  <2>3. /\ Kept /\ UNCHANGED <<main, pulls>> /\ topics' = [topics EXCEPT ![target] = n]
        /\ FastForward(o) /\ commits'[n].history = {n} \cup UNION {Past(p) : p \in Parents(o)}
    BY <1>4, <2>1, <2>2 DEF Pushed, PushedFacts
  <2>4. Past(main)' = Past(main)
    BY <1>1, <2>3 DEF Past, Kept
  <2>5. ASSUME NEW v \in Versions, topics[v] # None PROVE topics[v] \in Past(topics[v])'
    <3>1. topics[v] \in DOMAIN commits /\ topics[v] \in Past(topics[v])
      BY <1>1, <1>2, <2>5 DEF Branches
    <3>2. CASE v = target
      <4>1. PICK p \in Parents(o) : topics[v] \in Past(p)
        BY <2>2, <2>3, <2>5, <3>2 DEF FastForward, Past
      <4>2. topics[v] \in commits'[n].history /\ topics'[v] = n
        BY <1>1, <2>3, <3>2, <4>1 DEF Branches
      <4> QED
        BY <4>2 DEF Past
    <3>3. CASE v # target
      BY <1>1, <2>3, <3>1, <3>3 DEF Branches, Past, Kept
    <3> QED
      BY <3>2, <3>3
  <2> QED
    BY <2>3, <2>4, <2>5
<1>5. ASSUME NEW o \in Operators, OperatorStep(o) \/ PushUnanswered(o) PROVE Goal
  <2>1. \/ op[o].pc = "push" /\ Pushed(o)
        \/ UNCHANGED <<commits, main, topics>> /\ pulls \subseteq pulls'
    BY <1>5 DEF OperatorStep, PushUnanswered, Validate, Choose, List, FetchTopic, Push, CreatePR, Created, Dispatch,
                Request, Refresh, remote
  <2> HIDE DEF Goal
  <2> QED
    BY <1>3, <1>4, <2>1
<1>6. ASSUME EditMain PROVE Goal
  <2>1. Past(main) \subseteq Past(main)' /\ PrepareInv'
    BY <1>6, EditMainKeepsInv
  <2>2. UNCHANGED <<topics, pulls>>
    BY <1>6 DEF EditMain
  <2>3. PICK e \in Unused : commits' = Commit({main}, [Tree(main) EXCEPT !.body = @ \cup {e}])
    BY <1>6 DEF EditMain
  <2>4. Kept
    <3> DEFINE tree == [Tree(main) EXCEPT !.body = @ \cup {e}]
    <3>1. e \in Edits
      BY DEF Unused
    <3>2. tree \in TreeType /\ ~Less(tree.version, VersionOf(main)) /\ BodyOf(main) \subseteq tree.body
      BY <1>1, <3>1, EditTree
    <3>3. commits' = Commit({main}, tree)
      BY <2>3
    <3> HIDE DEF tree
    <3> QED
      BY <1>1, <3>2, <3>3, NewCommit
  <2>5. ASSUME NEW v \in Versions, topics[v] # None PROVE topics[v] \in Past(topics[v])'
    BY <1>1, <1>2, <2>2, <2>4, <2>5 DEF Branches, Past, Kept
  <2> QED
    BY <2>1, <2>2, <2>4, <2>5
<1>7. ASSUME EditTopic PROVE Goal
  <2>1. Kept /\ UNCHANGED <<main, pulls>> /\ \A v \in Versions : topics[v] # None => topics[v] \in Past(topics[v])'
    BY <1>7, EditTopicKeepsInv
  <2>2. Past(main)' = Past(main)
    BY <1>1, <2>1 DEF Past, Kept
  <2> QED
    BY <2>1, <2>2
<1>8. ASSUME NEW w \in Versions, MergePull(w) PROVE Goal
  <2>1. /\ Past(main) \subseteq Past(main)' /\ Kept /\ \A v \in Versions : topics'[v] \in {topics[v], None}
        /\ pulls' = pulls \ {w}
        /\ w \notin touched => BodyOf(main)' = BodyOf(main) /\ VersionOf(main)' \in {w, VersionOf(main)}
    BY <1>8, MergePullKeepsInv
  <2>2. ASSUME NEW v \in Versions, topics[v] # None, topics'[v] # None PROVE topics[v] \in Past(topics[v])'
    <3>1. topics'[v] = topics[v] /\ topics[v] \in DOMAIN commits /\ topics[v] \in Past(topics[v])
      BY <1>1, <1>2, <2>1, <2>2 DEF Branches
    <3> QED
      BY <2>1, <3>1 DEF Past, Kept
  <2> QED
    BY <2>1, <2>2
<1>9. ASSUME NEW r \in runs, PublishCandidate(r) \/ Promote(r) PROVE Goal
  BY <1>3, <1>9 DEF PublishCandidate, Promote
<1>10. ASSUME UNCHANGED vars PROVE Goal
  BY <1>3, <1>10 DEF vars
<1> HIDE DEF Goal
<1>11. Goal
  BY <1>5, <1>6, <1>7, <1>8, <1>9, <1>10 DEF Next
<1> QED
  BY <1>11 DEF Goal

\* choose_version refuses a downgrade of what it read, and that is enough: no
\* interleaving of preparations, refreshes, edits and merges takes the version
\* of the default branch back.
THEOREM VersionsGoUp == Spec => VersionNeverGoesDown
<1> DEFINE Up == ~Less((Tree(main)').version, Tree(main).version)
<1>1. ASSUME PrepareInv, PrepareInv', [Next]_vars PROVE [Up]_vars
  <2>1. Kept /\ Past(main) \subseteq Past(main)'
    BY <1>1, HistoryGoesOn
  <2>2. main \in DOMAIN commits /\ main \in Past(main)
    BY <1>1 DEF PrepareInv, Branches, Histories
  <2>3. PICK m, n : m = main /\ n = main'
    OBVIOUS
  <2>4. m \in Past(n)' /\ n \in DOMAIN commits'
    BY <1>1, <2>1, <2>2, <2>3 DEF Past, PrepareInv, Branches
  <2>5. ~Less(VersionOf(n)', VersionOf(m)')
    BY <1>1, <2>4 DEF PrepareInv, Histories, Less
  <2>6. VersionOf(m)' = Tree(main).version /\ VersionOf(n)' = (Tree(main)').version
    BY <2>1, <2>2, <2>3 DEF VersionOf, Tree, Kept
  <2> QED
    BY <2>5, <2>6
<1>2. PrepareInv /\ PrepareInv' /\ [Next]_vars => [Up]_vars
  BY <1>1
<1> HIDE DEF Up
<1>3. Spec => [][Up]_vars
  BY <1>2, PrepareInvariant, PTL DEF Spec
<1> QED
  BY <1>3 DEF Up, VersionNeverGoesDown

\* Nothing that a developer wrote is lost by a preparation, and nothing else
\* comes in by one: a topic keeps the edits on it, and the pull request of a
\* topic that only preparations wrote changes the version alone.
THEOREM PreparationsKeepEdits == Spec => EditsSurvive
<1> DEFINE Survive ==
      /\ \A v \in pulls \ (pulls' \cup touched) :
           (Tree(main)').body = Tree(main).body /\ (Tree(main)').version \in {v, Tree(main).version}
      /\ \A v \in Versions : topics[v] # None /\ topics'[v] # None =>
           Tree(topics[v]).body \subseteq (commits'[topics'[v]]).tree.body
<1>1. ASSUME PrepareInv, PrepareInv', [Next]_vars PROVE [Survive]_vars
  <2>1. /\ Kept /\ \A v \in Versions : topics[v] # None /\ topics'[v] # None => topics[v] \in Past(topics[v])'
        /\ \A v \in pulls \ (pulls' \cup touched) :
              BodyOf(main)' = BodyOf(main) /\ VersionOf(main)' \in {v, VersionOf(main)}
    BY <1>1, HistoryGoesOn
  <2>2. ASSUME NEW v \in Versions, topics[v] # None, topics'[v] # None
        PROVE  Tree(topics[v]).body \subseteq (commits'[topics'[v]]).tree.body
    <3>1. PICK c, d : c = topics[v] /\ d = topics'[v]
      OBVIOUS
    <3>2. c \in DOMAIN commits /\ d \in DOMAIN commits' /\ c \in Past(d)'
      BY <1>1, <2>1, <2>2, <3>1 DEF PrepareInv, Branches, Past
    <3>3. BodyOf(c)' \subseteq BodyOf(d)'
      BY <1>1, <3>2 DEF PrepareInv, Histories
    <3> QED
      BY <2>1, <3>1, <3>2, <3>3 DEF BodyOf, Tree, Kept
  <2>3. ASSUME NEW v \in pulls \ (pulls' \cup touched)
        PROVE  (Tree(main)').body = Tree(main).body /\ (Tree(main)').version \in {v, Tree(main).version}
    BY <2>1 DEF BodyOf, VersionOf, Tree
  <2> QED
    BY <2>2, <2>3
<1>2. PrepareInv /\ PrepareInv' /\ [Next]_vars => [Survive]_vars
  BY <1>1
<1> HIDE DEF Survive
<1>3. Spec => [][Survive]_vars
  BY <1>2, PrepareInvariant, PTL DEF Spec
<1> QED
  BY <1>3 DEF Survive, EditsSurvive

\* Of two runs at two heads, the second tags what was checked out when the first
\* was asked for, with the files of that version; no stable tag moves, and none is
\* put on top of one that is not older.
THEOREM TagsGoUp == Spec => StableTagsGoUp
<1> DEFINE Up ==
      \A v \in Versions : tags'[v] # tags[v] =>
        /\ tags[v] = None /\ Tree(tags'[v]).version = v
        /\ \E i \in DOMAIN candidates : candidates[i].asked = tags'[v]
        /\ \A t \in TagsIn(tags'[v]) : Less(t, v)
<1>1. ASSUME PrepareInv, RunsInv, [Next]_vars PROVE [Up]_vars
  <2>1. Histories /\ Branches /\ tags \in [Versions -> Nat]
    BY <1>1 DEF PrepareInv, Branches
  <2>2. tags' = tags \/ \E r \in runs : Promote(r)
    <3>1. ASSUME NEW o \in Operators, OperatorStep(o) \/ PushUnanswered(o) PROVE tags' = tags
      BY <3>1 DEF OperatorStep, PushUnanswered, Validate, Choose, List, FetchTopic, Push, Pushed, CreatePR, Created,
                  Dispatch, Request, Refresh, remote
    <3>2. EditMain \/ EditTopic \/ UNCHANGED vars \/ (\E v \in Versions : MergePull(v)) => tags' = tags
      BY DEF EditMain, EditTopic, MergePull, vars
    <3>3. \A r \in runs : PublishCandidate(r) => tags' = tags
      BY DEF PublishCandidate
    <3> QED
      BY <1>1, <3>1, <3>2, <3>3 DEF Next
  <2>3. ASSUME NEW v \in Versions, tags'[v] # tags[v]
        PROVE  /\ tags[v] = None /\ Tree(tags'[v]).version = v
               /\ \E i \in DOMAIN candidates : candidates[i].asked = tags'[v]
               /\ \A t \in TagsIn(tags'[v]) : Less(t, v)
    <3>1. PICK r \in runs : Promote(r)
      BY <2>2, <2>3
    <3>2. PICK c \in DOMAIN commits : /\ c = candidates[r.rc].sha /\ VersionOf(c) \notin AllTags
                                      /\ tags' = [tags EXCEPT ![VersionOf(c)] = c]
      BY <1>1, <3>1, PromotedSource
    <3>3. VersionOf(c) = v /\ tags'[v] = c
      BY <2>1, <2>3, <3>2
    <3>4. tags[v] = None
      BY <3>2, <3>3 DEF AllTags
    <3>5. \E i \in DOMAIN candidates : candidates[i].asked = c
      <4>1. r.channel = "stable"
        BY <3>1 DEF Promote
      <4>2. r.rc \in DOMAIN candidates
        BY <1>1, <3>1, <4>1 DEF RunsInv
      <4> QED
        BY <1>1, <3>2, <4>2 DEF RunsInv
    <3>6. ASSUME NEW t \in TagsIn(c) PROVE Less(t, v)
      <4>1. t \in Versions /\ tags[t] # None /\ ~Less(VersionOf(c), t)
        BY <1>1, TagsAreBehind
      <4>2. t # v /\ ~Less(v, t) /\ t \in Triple /\ v \in Triple
        BY <3>3, <3>4, <4>1, PrepareAssumption
      <4> QED
        BY <4>2, LessOrder
    <3> QED
      BY <3>3, <3>4, <3>5, <3>6 DEF VersionOf, Tree
  <2> QED
    BY <2>3
<1>2. PrepareInv /\ RunsInv /\ [Next]_vars => [Up]_vars
  BY <1>1
<1> HIDE DEF Up
<1>3. Spec => [][Up]_vars
  BY <1>2, PrepareInvariant, RunsInvariant, PTL DEF Spec
<1> QED
  BY <1>3 DEF Up, StableTagsGoUp
=============================================================================
