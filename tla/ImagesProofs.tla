---------------------------- MODULE ImagesProofs ----------------------------
(* Theorems about Images: the registry for every mapping, release and set of  *)
(* publishers and resolvers; the readers of an archive for every sequence of  *)
(* layers; the smoke tests and the whole, for every set of builds and images. *)
EXTENDS Images, SequenceTheorems, FiniteSetTheorems, TLAPS

-----------------------------------------------------------------------------
(* The registry.                                                              *)
Contents == [Names -> Bytes]
Phases == {"idle", "preflight", "copy", "compare", "write", "done", "failed"}
Position == [pc : Phases, at : Nat \ {0}, files : {Unset} \cup Contents]

Types ==
  /\ release \in {Unset} \cup Contents
  /\ tags \in [Names -> [Labels -> Bytes \cup {Unset, Foreign}]]
  /\ publisher \in [Publishers -> Position]
  /\ resolver \in [Resolvers -> Position]

(* Whoever is at work has the archives of the one release.                    *)
OneRelease ==
  /\ \A u \in Publishers : publisher[u].pc \in {"preflight", "copy"} =>
       release # Unset /\ publisher[u].files = release
  /\ \A v \in Resolvers : resolver[v].pc \in {"compare", "write"} =>
       release # Unset /\ resolver[v].files = release

Served(n) == tags[n][Version] = release[n]
Ours(n) == tags[n][Version] \in {Unset, release[n]}

(* What a publisher has looked at is absent or, copied by another one since,  *)
(* of this release; what it has copied is served.                             *)
Progress ==
  \A u \in Publishers :
    /\ publisher[u].pc = "preflight" =>
         /\ publisher[u].at \in 1..Len(Mapping)
         /\ \A i \in 1..(publisher[u].at - 1) : Ours(Mapping[i])
    /\ publisher[u].pc = "copy" =>
         /\ publisher[u].at \in 1..Len(Commands(u))
         /\ \A n \in Names : Ours(n)
         /\ \A i \in 1..Len(Mapping) : i < publisher[u].at => Served(Mapping[i])

(* What a resolver has compared stays as it was.                              *)
Compared ==
  \A v \in Resolvers :
    /\ resolver[v].pc = "compare" =>
         /\ resolver[v].at \in 1..Len(Mapping)
         /\ \A i \in 1..(resolver[v].at - 1) : Served(Mapping[i])
    /\ resolver[v].pc = "write" => \A n \in Names : Served(n)

(* A latest tag is set only when every version is there.                      *)
LatestAfterAll ==
  \A n \in Names : tags[n]["latest"] # Unset => release # Unset /\ \A m \in Names : Served(m)

RegistryInv ==
  Types /\ OneRelease /\ Progress /\ Compared /\ LatestAfterAll /\ ResolvedIsServed

RegistryNext == RegistryStep \/ \E archives \in [Names -> Bytes] : PublishRelease(archives)

\* The mapping's names are in the repositories' names, and each name is mapped.
LEMMA MappingNames ==
  /\ Len(Mapping) \in Nat \ {0}
  /\ \A i \in 1..Len(Mapping) : Mapping[i] \in Names
  /\ \A n \in Names : \E i \in 1..Len(Mapping) : Mapping[i] = n
<1>1. Mapping \in Seq(Names) /\ Mapping # <<>>
  BY RegistryAssumption
<1> QED
  BY <1>1 DEF Names

\* container_commands: the versions in the order of the mapping, then latest.
LEMMA CommandsInOrder ==
  ASSUME NEW u \in Publishers
  PROVE  /\ Len(Commands(u)) \in Nat /\ Len(Commands(u)) >= Len(Mapping)
         /\ \A i \in 1..Len(Mapping) : Commands(u)[i] = <<Mapping[i], Version>>
         /\ \A i \in 1..Len(Commands(u)) : i > Len(Mapping) =>
              \E n \in Names : Commands(u)[i] = <<n, "latest">>
<1> DEFINE N == Len(Mapping)
           first == [i \in 1..N |-> <<Mapping[i], Version>>]
           then == [i \in 1..N |-> <<Mapping[i], "latest">>]
<1>1. N \in Nat
  BY MappingNames
<1>2. first \in Seq(Names \X Labels) /\ Len(first) = N
  <2>1. first \in [1..N -> Names \X Labels]
    BY <1>1, MappingNames DEF Labels
  <2> HIDE DEF first, N
  <2> QED
    BY <1>1, <2>1
<1>3. then \in Seq(Names \X Labels) /\ Len(then) = N
  <2>1. then \in [1..N -> Names \X Labels]
    BY <1>1, MappingNames DEF Labels
  <2> HIDE DEF then, N
  <2> QED
    BY <1>1, <2>1
<1>4. CASE u \in Latest
  <2>1. Commands(u) = first \o then
    BY <1>4 DEF Commands
  <2> HIDE DEF first, then
  <2>2. /\ Len(Commands(u)) = N + N
        /\ \A i \in 1..(N + N) : Commands(u)[i] = IF i <= N THEN first[i] ELSE then[i - N]
    <3>1. /\ Len(first \o then) = Len(first) + Len(then)
          /\ \A i \in 1..(Len(first) + Len(then)) :
               (first \o then)[i] = IF i <= Len(first) THEN first[i] ELSE then[i - Len(first)]
      BY <1>2, <1>3, ConcatProperties
    <3> HIDE DEF N
    <3> QED
      BY <1>2, <1>3, <2>1, <3>1
  <2>3. \A i \in 1..N : first[i] = <<Mapping[i], Version>> /\ then[i] = <<Mapping[i], "latest">>
    BY DEF first, then
  <2>4. \A i \in 1..(N + N) : i > N => i - N \in 1..N
    BY <1>1
  <2> HIDE DEF N
  <2>5. \A i \in 1..(N + N) : i > N => \E n \in Names : Commands(u)[i] = <<n, "latest">>
    BY <1>1, <2>2, <2>3, <2>4, MappingNames DEF N
  <2> QED
    BY <1>1, <2>2, <2>3, <2>5 DEF N
<1>5. CASE u \notin Latest
  <2>1. Commands(u) = first \o <<>>
    BY <1>5 DEF Commands
  <2> HIDE DEF first, then
  <2>2. Commands(u) = first
    BY <1>2, <2>1, ConcatEmptySeq
  <2> QED
    <3>1. \A i \in 1..N : first[i] = <<Mapping[i], Version>>
      BY DEF first
    <3> QED
      BY <1>1, <1>2, <2>2, <3>1
<1> QED
  BY <1>4, <1>5

-----------------------------------------------------------------------------
\* The invariant holds before anything is released.
LEMMA RegistryInitHasInv == RegistryInit => RegistryInv
<1> SUFFICES ASSUME RegistryInit PROVE RegistryInv
  OBVIOUS
<1>1. Types
  BY DEF RegistryInit, Types, Position, Phases, Contents, Labels
<1>2. LatestAfterAll
  BY RegistryAssumption DEF RegistryInit, LatestAfterAll, Labels
<1>3. OneRelease /\ Progress /\ Compared /\ ResolvedIsServed
  BY DEF RegistryInit, OneRelease, Progress, Compared, ResolvedIsServed
<1> QED
  BY <1>1, <1>2, <1>3 DEF RegistryInv

\* A step that leaves the release and the tags alone changes nothing of what is
\* served.
LEMMA SameTags ==
  ASSUME UNCHANGED <<release, tags>>, NEW n
  PROVE  Served(n)' = Served(n) /\ Ours(n)' = Ours(n)
BY DEF Served, Ours

\* Moving on keeps the archives.
LEMMA AtIsPosition ==
  ASSUME NEW x \in Position, NEW pc \in Phases, NEW k \in Nat \ {0}
  PROVE  /\ At(x, pc, k) \in Position /\ At(x, pc, k).files = x.files
         /\ At(x, pc, k).pc = pc /\ At(x, pc, k).at = k
BY DEF At, Position

\* A publisher that gives up takes nothing along.
LEMMA PublisherFails ==
  ASSUME RegistryInv, NEW u \in Publishers,
         publisher' = [publisher EXCEPT ![u] = At(@, "failed", 1)],
         UNCHANGED <<release, tags, resolver, resolved>>
  PROVE  RegistryInv'
<1> USE DEF RegistryInv
<1>1. /\ publisher'[u] \in Position /\ publisher'[u].pc = "failed"
      /\ \A w \in Publishers : w # u => publisher'[w] = publisher[w]
      /\ publisher' \in [Publishers -> Position]
  <2>1. publisher[u] \in Position /\ "failed" \in Phases /\ 1 \in Nat \ {0}
    BY DEF Types, Phases
  <2>2. At(publisher[u], "failed", 1) \in Position /\ At(publisher[u], "failed", 1).pc = "failed"
    BY <2>1, AtIsPosition
  <2> QED
    BY <2>2 DEF Types
<1>2. Types' /\ OneRelease'
  BY <1>1 DEF Types, OneRelease
<1>3. Progress'
  BY <1>1, SameTags DEF Progress, Served, Ours
<1>4. Compared' /\ LatestAfterAll' /\ ResolvedIsServed'
  BY DEF Compared, LatestAfterAll, ResolvedIsServed, Served
<1> QED
  BY <1>2, <1>3, <1>4

\* verified_assets.
LEMMA VerifiedKeepsInv ==
  ASSUME RegistryInv, NEW u \in Publishers, VerifiedAssets(u) PROVE RegistryInv'
<1> USE DEF RegistryInv
<1>1. Types'
  BY DEF VerifiedAssets, Types, Position, Phases
<1>2. OneRelease'
  BY DEF VerifiedAssets, OneRelease, Types
<1>3. Progress'
  BY MappingNames DEF VerifiedAssets, Progress, Types, Served, Ours
<1>4. Compared' /\ LatestAfterAll' /\ ResolvedIsServed'
  BY DEF VerifiedAssets, Compared, LatestAfterAll, ResolvedIsServed, Served
<1> QED
  BY <1>1, <1>2, <1>3, <1>4

\* require_unpublished_version.
LEMMA PreflightKeepsInv ==
  ASSUME RegistryInv, NEW u \in Publishers, Preflight(u) PROVE RegistryInv'
<1> USE DEF RegistryInv
<1> DEFINE k == publisher[u].at
<1>0. /\ k \in 1..Len(Mapping) /\ Len(Mapping) \in Nat /\ publisher[u] \in Position
      /\ UNCHANGED <<release, tags, resolver, resolved>>
  BY MappingNames DEF Preflight, Progress, Types
<1>1. CASE publisher' = [publisher EXCEPT ![u] = At(@, "failed", 1)]
  BY <1>0, <1>1, PublisherFails
<1>2. CASE /\ Unpublished(Mapping[k])
           /\ publisher' = [publisher EXCEPT ![u] =
                IF k = Len(Mapping) THEN At(@, "copy", 1) ELSE At(@, "preflight", k + 1)]
  <2>0. /\ publisher' \in [Publishers -> Position]
        /\ \A w \in Publishers : w # u => publisher'[w] = publisher[w]
        /\ publisher'[u].files = publisher[u].files
        /\ k = Len(Mapping) => publisher'[u].pc = "copy" /\ publisher'[u].at = 1
        /\ k # Len(Mapping) => publisher'[u].pc = "preflight" /\ publisher'[u].at = k + 1
    <3>0. /\ publisher[u] \in Position /\ "copy" \in Phases /\ "preflight" \in Phases
          /\ 1 \in Nat \ {0} /\ k + 1 \in Nat \ {0}
      BY <1>0 DEF Phases
    <3> HIDE DEF k
    <3>1. /\ At(publisher[u], "copy", 1) \in Position
          /\ At(publisher[u], "copy", 1).pc = "copy" /\ At(publisher[u], "copy", 1).at = 1
          /\ At(publisher[u], "copy", 1).files = publisher[u].files
      BY <3>0, AtIsPosition
    <3>2. /\ At(publisher[u], "preflight", k + 1) \in Position
          /\ At(publisher[u], "preflight", k + 1).pc = "preflight"
          /\ At(publisher[u], "preflight", k + 1).at = k + 1
          /\ At(publisher[u], "preflight", k + 1).files = publisher[u].files
      BY <3>0, AtIsPosition
    <3> QED
      BY <1>2, <3>1, <3>2 DEF Types
  <2>1. Types' /\ OneRelease'
    BY <1>0, <2>0 DEF Preflight, Types, OneRelease
  <2>2. \A i \in 1..k : Ours(Mapping[i])
    BY <1>0, <1>2 DEF Preflight, Progress, Ours, Unpublished
  <2>3. k = Len(Mapping) => \A n \in Names : Ours(n)
    BY <2>2, MappingNames
  <2>4. Progress'
    <3> SUFFICES ASSUME NEW w \in Publishers, publisher'[w].pc \in {"preflight", "copy"}
                 PROVE  /\ publisher'[w].pc = "preflight" =>
                             /\ publisher'[w].at \in 1..Len(Mapping)
                             /\ \A i \in 1..(publisher'[w].at - 1) : Ours(Mapping[i])
                        /\ publisher'[w].pc = "copy" =>
                             /\ publisher'[w].at \in 1..Len(Commands(w))
                             /\ \A n \in Names : Ours(n)
                             /\ \A i \in 1..Len(Mapping) : i < publisher'[w].at => Served(Mapping[i])
      BY <1>0, SameTags DEF Progress, Served, Ours
    <3>1. CASE w # u
      BY <2>0, <3>1 DEF Progress
    <3>2. CASE w = u /\ k = Len(Mapping)
      BY <1>0, <2>0, <2>3, <3>2, CommandsInOrder
    <3>3. CASE w = u /\ k # Len(Mapping)
      BY <1>0, <2>0, <2>2, <3>3
    <3> QED
      BY <3>1, <3>2, <3>3
  <2>5. Compared' /\ LatestAfterAll' /\ ResolvedIsServed'
    BY <1>0 DEF Compared, LatestAfterAll, ResolvedIsServed, Served
  <2> QED
    BY <2>1, <2>4, <2>5
<1> QED
  BY <1>1, <1>2 DEF Preflight

\* skopeo copy, with and without an answer.  A version tag that a publisher
\* copies to is free or shows the same bytes already, whoever else is copying.
LEMMA CopyWritesTheRelease ==
  ASSUME RegistryInv, NEW u \in Publishers, publisher[u].pc = "copy"
  PROVE  LET k == publisher[u].at
         IN  \E n \in Names :
               \/ /\ k <= Len(Mapping) /\ n = Mapping[k]
                  /\ Copied(u) = [tags EXCEPT ![n][Version] = release[n]]
               \/ /\ k > Len(Mapping) /\ \A m \in Names : Served(m)
                  /\ Copied(u) = [tags EXCEPT ![n]["latest"] = release[n]]
<1> USE DEF RegistryInv
<1> DEFINE k == publisher[u].at
<1>0. /\ k \in 1..Len(Commands(u)) /\ Len(Mapping) \in Nat /\ Len(Commands(u)) \in Nat
      /\ publisher[u].files = release
  BY CommandsInOrder, MappingNames DEF Progress, OneRelease
<1>1. CASE k <= Len(Mapping)
  <2>1. Commands(u)[k] = <<Mapping[k], Version>> /\ Mapping[k] \in Names
    BY <1>0, <1>1, CommandsInOrder, MappingNames
  <2>2. Copied(u) = [tags EXCEPT ![Mapping[k]][Version] = release[Mapping[k]]]
    BY <1>0, <2>1 DEF Copied
  <2> QED
    BY <1>1, <2>1, <2>2
<1>2. CASE k > Len(Mapping)
  <2>1. PICK n \in Names : Commands(u)[k] = <<n, "latest">>
    BY <1>0, <1>2, CommandsInOrder
  <2>2. Copied(u) = [tags EXCEPT ![n]["latest"] = release[n]]
    BY <1>0, <2>1 DEF Copied
  <2>3. \A m \in Names : Served(m)
    BY <1>0, <1>2, MappingNames DEF Progress
  <2> QED
    BY <1>2, <2>2, <2>3
<1> QED
  BY <1>0, <1>1, <1>2

\* So no copy takes away what is served, and none moves a version tag.
LEMMA CopyKeepsTags ==
  ASSUME RegistryInv, NEW u \in Publishers, publisher[u].pc = "copy",
         tags' \in {Copied(u), tags}, release' = release
  PROVE  /\ tags' \in [Names -> [Labels -> Bytes \cup {Unset, Foreign}]]
         /\ \A n \in Names : tags[n][Version] # Unset => tags'[n][Version] = tags[n][Version]
         /\ \A n \in Names : (Served(n) => Served(n)') /\ (Ours(n) => Ours(n)')
         /\ LatestAfterAll'
         /\ tags' = Copied(u) =>
              \A i \in 1..Len(Mapping) : i = publisher[u].at => Served(Mapping[i])'
<1> USE DEF RegistryInv
<1> DEFINE k == publisher[u].at
<1>0. release # Unset /\ release \in [Names -> Bytes] /\ Version # "latest"
  BY RegistryAssumption DEF OneRelease, Types, Contents
<1>1. k \in Nat /\ Len(Mapping) \in Nat /\ (\A n \in Names : Ours(n))
  BY CommandsInOrder, MappingNames DEF Progress
<1>2. CASE tags' = tags /\ tags' # Copied(u)
  BY <1>2 DEF Types, Served, Ours, LatestAfterAll
<1>3. CASE tags' = Copied(u)
  <2>1. PICK n \in Names :
          \/ /\ k <= Len(Mapping) /\ n = Mapping[k]
             /\ Copied(u) = [tags EXCEPT ![n][Version] = release[n]]
          \/ /\ k > Len(Mapping) /\ \A m \in Names : Served(m)
             /\ Copied(u) = [tags EXCEPT ![n]["latest"] = release[n]]
    BY CopyWritesTheRelease
  <2>2. CASE /\ k <= Len(Mapping) /\ n = Mapping[k]
             /\ Copied(u) = [tags EXCEPT ![n][Version] = release[n]]
    <3>1. /\ tags' \in [Names -> [Labels -> Bytes \cup {Unset, Foreign}]]
          /\ \A m \in Names : m # n => tags'[m][Version] = tags[m][Version]
          /\ tags'[n][Version] = release[n]
          /\ \A m \in Names : tags'[m]["latest"] = tags[m]["latest"]
      <4> DEFINE row == [tags[n] EXCEPT ![Version] = release[n]]
      <4>1. release[n] \in Bytes /\ tags[n] \in [Labels -> Bytes \cup {Unset, Foreign}]
        BY <1>0 DEF Types
      <4>2. /\ row \in [Labels -> Bytes \cup {Unset, Foreign}]
            /\ row[Version] = release[n] /\ row["latest"] = tags[n]["latest"]
        BY <1>0, <4>1 DEF Labels
      <4>3. tags' = [tags EXCEPT ![n] = row]
        BY <1>3, <2>2
      <4> HIDE DEF row
      <4> QED
        BY <4>2, <4>3 DEF Types
    <3>2. \A m \in Names : (Served(m) => Served(m)') /\ (Ours(m) => Ours(m)')
      BY <3>1 DEF Served, Ours
    <3>3. LatestAfterAll'
      BY <3>1, <3>2 DEF LatestAfterAll
    <3>4. \A m \in Names : tags[m][Version] # Unset => tags'[m][Version] = tags[m][Version]
      BY <1>1, <3>1 DEF Ours
    <3>5. \A i \in 1..Len(Mapping) : i = k => Served(Mapping[i])'
      BY <2>2, <3>1 DEF Served
    <3> QED
      BY <3>1, <3>2, <3>3, <3>4, <3>5
  <2>3. CASE /\ k > Len(Mapping) /\ \A m \in Names : Served(m)
             /\ Copied(u) = [tags EXCEPT ![n]["latest"] = release[n]]
    <3>1. /\ tags' \in [Names -> [Labels -> Bytes \cup {Unset, Foreign}]]
          /\ \A m \in Names : tags'[m][Version] = tags[m][Version]
      <4> DEFINE row == [tags[n] EXCEPT !["latest"] = release[n]]
      <4>1. release[n] \in Bytes /\ tags[n] \in [Labels -> Bytes \cup {Unset, Foreign}]
        BY <1>0 DEF Types
      <4>2. /\ row \in [Labels -> Bytes \cup {Unset, Foreign}]
            /\ row["latest"] = release[n] /\ row[Version] = tags[n][Version]
        BY <1>0, <4>1 DEF Labels
      <4>3. tags' = [tags EXCEPT ![n] = row]
        BY <1>3, <2>3
      <4> HIDE DEF row
      <4> QED
        BY <4>2, <4>3 DEF Types
    <3>2. \A m \in Names : Served(m)' /\ (Ours(m) => Ours(m)')
      BY <2>3, <3>1 DEF Served, Ours
    <3>3. LatestAfterAll'
      BY <1>0, <3>2 DEF LatestAfterAll
    <3> QED
      BY <1>1, <2>3, <3>1, <3>2, <3>3
  <2> QED
    BY <2>1, <2>2, <2>3
<1> QED
  BY <1>2, <1>3

\* container_commands, run one by one.
LEMMA CopyKeepsInv ==
  ASSUME RegistryInv, NEW u \in Publishers, Copy(u) PROVE RegistryInv'
<1> USE DEF RegistryInv
<1> DEFINE k == publisher[u].at
<1>0. /\ publisher[u].pc = "copy" /\ publisher[u] \in Position
      /\ tags' \in {Copied(u), tags} /\ UNCHANGED <<release, resolver, resolved>>
      /\ k \in 1..Len(Commands(u)) /\ Len(Commands(u)) \in Nat
  BY CommandsInOrder DEF Copy, Types, Progress
<1>1. /\ \A n \in Names : (Served(n) => Served(n)') /\ (Ours(n) => Ours(n)')
      /\ LatestAfterAll' /\ tags' \in [Names -> [Labels -> Bytes \cup {Unset, Foreign}]]
      /\ tags' = Copied(u) => \A i \in 1..Len(Mapping) : i = k => Served(Mapping[i])'
  BY <1>0, CopyKeepsTags
<1>2. Compared' /\ ResolvedIsServed'
  BY <1>0, <1>1, MappingNames DEF Compared, ResolvedIsServed, Served
<1>3. /\ publisher' \in [Publishers -> Position]
      /\ \A w \in Publishers : w # u => publisher'[w] = publisher[w]
      /\ publisher'[u].files = publisher[u].files
      /\ \/ publisher'[u].pc \in {"failed", "done"}
         \/ /\ tags' = Copied(u) /\ k # Len(Commands(u))
            /\ publisher'[u].pc = "copy" /\ publisher'[u].at = k + 1
  <2>1. /\ publisher[u] \in Position /\ {"failed", "done", "copy"} \subseteq Phases
        /\ 1 \in Nat \ {0} /\ k + 1 \in Nat \ {0}
    BY <1>0 DEF Phases
  <2> HIDE DEF k
  <2>2. \A pc \in {"failed", "done", "copy"}, i \in {1, k + 1} :
          /\ At(publisher[u], pc, i) \in Position /\ At(publisher[u], pc, i).files = publisher[u].files
          /\ At(publisher[u], pc, i).pc = pc /\ At(publisher[u], pc, i).at = i
    <3>1. ASSUME NEW pc \in {"failed", "done", "copy"}, NEW i \in {1, k + 1}
          PROVE  pc \in Phases /\ i \in Nat \ {0}
      BY <2>1
    <3>2. ASSUME NEW pc \in Phases, NEW i \in Nat \ {0}
          PROVE  /\ At(publisher[u], pc, i) \in Position /\ At(publisher[u], pc, i).files = publisher[u].files
                 /\ At(publisher[u], pc, i).pc = pc /\ At(publisher[u], pc, i).at = i
      <4>1. publisher[u] \in Position
        BY <2>1
      <4> HIDE DEF RegistryInv
      <4> QED
        BY <4>1, AtIsPosition
    <3> QED
      BY <3>1, <3>2, Zenon
  <2>3. \/ publisher' = [publisher EXCEPT ![u] = At(@, "failed", 1)]
        \/ publisher' = [publisher EXCEPT ![u] = At(@, "done", 1)]
        \/ /\ tags' = Copied(u) /\ k # Len(Commands(u))
           /\ publisher' = [publisher EXCEPT ![u] = At(@, "copy", k + 1)]
    BY DEF Copy, k
  <2> QED
    BY <2>2, <2>3 DEF Types
<1>4. Types' /\ OneRelease'
  BY <1>0, <1>1, <1>3 DEF Types, OneRelease
<1>5. Progress'
  <2> SUFFICES ASSUME NEW w \in Publishers, publisher'[w].pc \in {"preflight", "copy"}
               PROVE  /\ publisher'[w].pc = "preflight" =>
                           /\ publisher'[w].at \in 1..Len(Mapping)
                           /\ \A i \in 1..(publisher'[w].at - 1) : Ours(Mapping[i])'
                      /\ publisher'[w].pc = "copy" =>
                           /\ publisher'[w].at \in 1..Len(Commands(w))
                           /\ \A n \in Names : Ours(n)'
                           /\ \A i \in 1..Len(Mapping) : i < publisher'[w].at => Served(Mapping[i])'
    BY DEF Progress, Served, Ours
  <2>1. CASE w # u
    BY <1>1, <1>3, <2>1, MappingNames DEF Progress
  <2>2. CASE w = u
    <3>1. /\ tags' = Copied(u) /\ k # Len(Commands(u))
          /\ publisher'[u].pc = "copy" /\ publisher'[u].at = k + 1
      BY <1>3, <2>2
    <3>2. \A n \in Names : Ours(n)'
      BY <1>0, <1>1 DEF Progress
    <3>3. \A i \in 1..Len(Mapping) : i < k + 1 => Served(Mapping[i])'
      BY <1>0, <1>1, <3>1, MappingNames DEF Progress
    <3> QED
      BY <1>0, <2>2, <3>1, <3>2, <3>3
  <2> QED
    BY <2>1, <2>2
<1> QED
  BY <1>1, <1>2, <1>4, <1>5

\* resolve and write_output.
LEMMA ResolverKeepsInv ==
  ASSUME RegistryInv, NEW v \in Resolvers,
         ResolveAssets(v) \/ CompareDigests(v) \/ WriteOutput(v)
  PROVE  RegistryInv'
<1> USE DEF RegistryInv
<1> DEFINE k == resolver[v].at
<1>0. UNCHANGED <<release, tags, publisher>> /\ resolver[v] \in Position /\ Len(Mapping) \in Nat \ {0}
  BY MappingNames DEF ResolveAssets, CompareDigests, WriteOutput, Types
<1>1. Progress' /\ LatestAfterAll'
  BY <1>0 DEF Progress, LatestAfterAll, Served, Ours
<1>2. CASE ResolveAssets(v)
  <2>1. resolver' = [resolver EXCEPT ![v] = [pc |-> "compare", at |-> 1, files |-> release]]
        /\ release # Unset /\ resolved' = resolved
    BY <1>2 DEF ResolveAssets
  <2>2. Types' /\ OneRelease'
    BY <1>0, <2>1 DEF Types, Position, Phases, OneRelease
  <2>3. Compared' /\ ResolvedIsServed'
    BY <1>0, <2>1 DEF Types, Compared, ResolvedIsServed, Served
  <2> QED
    BY <1>1, <2>2, <2>3
<1>3. CASE CompareDigests(v) \/ WriteOutput(v)
  <2>1. /\ resolver[v] \in Position /\ {"failed", "done", "compare", "write"} \subseteq Phases
        /\ k \in Nat \ {0} /\ 1 \in Nat \ {0} /\ k + 1 \in Nat \ {0}
    BY <1>0 DEF Phases, Position
  <2> HIDE DEF k
  <2>2. \A pc \in {"failed", "done", "compare", "write"}, i \in {1, k + 1} :
          /\ At(resolver[v], pc, i) \in Position /\ At(resolver[v], pc, i).files = resolver[v].files
          /\ At(resolver[v], pc, i).pc = pc /\ At(resolver[v], pc, i).at = i
    <3>1. ASSUME NEW pc \in {"failed", "done", "compare", "write"}, NEW i \in {1, k + 1}
          PROVE  pc \in Phases /\ i \in Nat \ {0}
      BY <2>1
    <3>2. ASSUME NEW pc \in Phases, NEW i \in Nat \ {0}
          PROVE  /\ At(resolver[v], pc, i) \in Position /\ At(resolver[v], pc, i).files = resolver[v].files
                 /\ At(resolver[v], pc, i).pc = pc /\ At(resolver[v], pc, i).at = i
      <4>1. resolver[v] \in Position
        BY <2>1
      <4> HIDE DEF RegistryInv
      <4> QED
        BY <4>1, AtIsPosition
    <3> QED
      BY <3>1, <3>2, Zenon
  <2>3. \/ resolver' = [resolver EXCEPT ![v] = At(@, "failed", 1)]
        \/ resolver' = [resolver EXCEPT ![v] = At(@, "done", 1)]
        \/ /\ resolver[v].pc = "compare" /\ SameBytes(v, Mapping[k])
           /\ \/ k = Len(Mapping) /\ resolver' = [resolver EXCEPT ![v] = At(@, "write", 1)]
              \/ k # Len(Mapping) /\ resolver' = [resolver EXCEPT ![v] = At(@, "compare", k + 1)]
    BY <1>3 DEF CompareDigests, WriteOutput, k
  <2>4. /\ resolver' \in [Resolvers -> Position]
        /\ \A w \in Resolvers : w # v => resolver'[w] = resolver[w]
        /\ resolver'[v].files = resolver[v].files
        /\ \/ resolver'[v].pc \in {"failed", "done"}
           \/ /\ resolver[v].pc = "compare" /\ SameBytes(v, Mapping[k])
              /\ \/ k = Len(Mapping) /\ resolver'[v].pc = "write"
                 \/ k # Len(Mapping) /\ resolver'[v].pc = "compare" /\ resolver'[v].at = k + 1
    BY <2>2, <2>3 DEF Types
  <2>5. Types' /\ OneRelease'
    BY <1>0, <2>4 DEF Types, OneRelease
  <2>6. resolver[v].pc = "compare" /\ SameBytes(v, Mapping[k]) =>
          k \in 1..Len(Mapping) /\ \A i \in 1..k : Served(Mapping[i])
    BY <1>0, <2>1 DEF SameBytes, Served, OneRelease, Compared, k
  <2>7. Compared'
    <3> SUFFICES ASSUME NEW w \in Resolvers
                 PROVE  /\ resolver'[w].pc = "compare" =>
                             /\ resolver'[w].at \in 1..Len(Mapping)
                             /\ \A i \in 1..(resolver'[w].at - 1) : Served(Mapping[i])
                        /\ resolver'[w].pc = "write" => \A n \in Names : Served(n)
      BY <1>0 DEF Compared, Served
    <3>1. CASE w # v
      BY <2>4, <3>1 DEF Compared
    <3>2. CASE w = v /\ resolver'[v].pc = "write"
      BY <2>4, <2>6, <3>2, MappingNames
    <3>3. CASE w = v /\ resolver'[v].pc = "compare"
      BY <1>0, <2>1, <2>4, <2>6, <3>3
    <3> QED
      BY <2>4, <3>1, <3>2, <3>3
  <2>8. ResolvedIsServed'
    <3>1. CASE resolved' = resolved
      BY <1>0, <3>1 DEF ResolvedIsServed
    <3>2. CASE resolved' # resolved
      <4>1. resolver[v].pc = "write" /\ resolved' = resolver[v].files
        BY <1>3, <3>2 DEF CompareDigests, WriteOutput
      <4> QED
        BY <1>0, <4>1 DEF OneRelease, Compared, Served, ResolvedIsServed
    <3> QED
      BY <3>1, <3>2
  <2> QED
    BY <1>1, <2>5, <2>7, <2>8
<1> QED
  BY <1>2, <1>3

\* Nothing refers to the release before there is one.
LEMMA PublishKeepsInv ==
  ASSUME RegistryInv, NEW archives \in [Names -> Bytes], PublishRelease(archives)
  PROVE  RegistryInv'
<1> USE DEF RegistryInv
<1>1. /\ release = Unset /\ release' = archives /\ UNCHANGED <<tags, publisher, resolver, resolved>>
  BY DEF PublishRelease
<1>2. /\ \A u \in Publishers : publisher[u].pc \notin {"preflight", "copy"}
      /\ \A v \in Resolvers : resolver[v].pc \notin {"compare", "write"}
      /\ \A n \in Names : tags[n]["latest"] = Unset
      /\ resolved = Unset
  BY <1>1 DEF OneRelease, LatestAfterAll, ResolvedIsServed
<1> QED
  BY <1>1, <1>2 DEF Types, Contents, OneRelease, Progress, Compared, LatestAfterAll, ResolvedIsServed

\* Every step keeps the invariant.
LEMMA RegistryStepKeepsInv == RegistryInv /\ [RegistryNext]_registryVars => RegistryInv'
<1> SUFFICES ASSUME RegistryInv, [RegistryNext]_registryVars PROVE RegistryInv'
  OBVIOUS
<1>1. ASSUME UNCHANGED registryVars PROVE RegistryInv'
  BY <1>1 DEF registryVars, RegistryInv, Types, OneRelease, Progress, Compared, LatestAfterAll,
              ResolvedIsServed, Served, Ours
<1> QED
  BY <1>1, VerifiedKeepsInv, PreflightKeepsInv, CopyKeepsInv, ResolverKeepsInv, PublishKeepsInv
     DEF RegistryNext, RegistryStep

\* Whatever publishers do and wherever they stop, latest is of a release whose
\* every image is served under its version (container_commands, main).
THEOREM LatestFollowsAll == RegistrySpec => []LatestIsComplete
<1>1. RegistryInv => LatestIsComplete
  <2> SUFFICES ASSUME RegistryInv PROVE LatestIsComplete
    OBVIOUS
  <2>1. release # Unset => \A n \in Names : release[n] # Unset
    BY RegistryAssumption DEF RegistryInv, Types, Contents
  <2> QED
    BY <2>1 DEF RegistryInv, LatestAfterAll, Served, LatestIsComplete
<1> QED
  BY <1>1, RegistryInitHasInv, RegistryStepKeepsInv, PTL DEF RegistrySpec, RegistryNext

\* A file of digests is of a release that is served completely (resolve).
THEOREM ResolvedIsComplete == RegistrySpec => []ResolvedIsServed
<1>1. RegistryInv => ResolvedIsServed
  BY DEF RegistryInv
<1> QED
  BY <1>1, RegistryInitHasInv, RegistryStepKeepsInv, PTL DEF RegistrySpec, RegistryNext

\* No number of racing publishers moves a version tag: all of them copy the
\* bytes of the one release, and none copies to a repository that held another's
\* (require_unpublished_version, verified_assets).
THEOREM VersionTagsStay == RegistrySpec => VersionTagNeverMoves
<1>1. RegistryInv /\ [RegistryNext]_registryVars =>
        [\A n \in Names : tags[n][Version] # Unset => tags'[n][Version] = tags[n][Version]]_registryVars
  <2> SUFFICES ASSUME RegistryInv, RegistryNext, NEW n \in Names, tags[n][Version] # Unset
               PROVE  tags'[n][Version] = tags[n][Version]
    OBVIOUS
  <2>1. CASE tags' = tags
    BY <2>1
  <2>2. CASE tags' # tags
    <3>1. PICK u \in Publishers : Copy(u)
      BY <2>2 DEF RegistryNext, RegistryStep, VerifiedAssets, Preflight, ResolveAssets,
                  CompareDigests, WriteOutput, PublishRelease
    <3>2. publisher[u].pc = "copy" /\ tags' \in {Copied(u), tags} /\ release' = release
      BY <3>1 DEF Copy
    <3> QED
      BY <3>2, CopyKeepsTags
  <2> QED
    BY <2>1, <2>2
<1> QED
  BY <1>1, RegistryInitHasInv, RegistryStepKeepsInv, PTL
     DEF RegistrySpec, RegistryNext, VersionTagNeverMoves

-----------------------------------------------------------------------------
(* The readers of an archive: what final_binary finds is what a container of  *)
(* the image executes.                                                        *)

FinalFold == INSTANCE FoldFacts WITH Op <- AfterLayer, Base <- Nothing
MountFold == INSTANCE FoldFacts WITH Op <- Mounted, Base <- {}

Found(tree) == {x \in tree : x.path = Target /\ x.kind = "file"}
BinaryIn(tree) == IF Found(tree) = {} THEN Nothing ELSE (CHOOSE x \in Found(tree) : TRUE).bytes

\* What lies on the way to the target.
LEMMA PrefixesOfTarget ==
  ASSUME NEW s \in Seq(STRING), IsPrefix(s, Target)
  PROVE  s \in {<<>>, Target} \cup Ancestors
<1>1. Target \in Seq({"usr", "bin", "gateway"}) /\ Len(Target) = 3
  BY DEF Target
<1>2. Len(s) \in {0, 1, 2, 3} /\ \A i \in 1 .. Len(s) : s[i] = Target[i]
  <2>1. Len(s) \in {0, 1, 2, 3}
    <3>1. Len(s) \in Nat /\ Len(s) <= Len(Target)
      BY DEF IsPrefix
    <3>2. Len(s) <= 3
      BY <1>1, <3>1
    <3>3. \A n \in Nat : n <= 3 => n \in {0, 1, 2, 3}
      OBVIOUS
    <3> QED
      BY <3>1, <3>2, <3>3, Zenon
  <2>2. SubSeq(s, 1, Len(s)) = SubSeq(Target, 1, Len(s))
    BY DEF IsPrefix
  <2>3. ASSUME NEW i \in 1 .. Len(s) PROVE s[i] = Target[i]
    <3>1. SubSeq(s, 1, Len(s))[i] = s[i]
      BY <2>1
    <3>2. SubSeq(Target, 1, Len(s))[i] = Target[i]
      BY <1>1, <2>1
    <3> QED
      BY <2>2, <3>1, <3>2
  <2> QED
    BY <2>1, <2>3
<1>3. CASE Len(s) = 0
  BY <1>3
<1>4. CASE Len(s) = 1
  <2>1. s = <<"usr">>
    BY <1>2, <1>4 DEF Target
  <2> QED
    BY <2>1 DEF Ancestors
<1>5. CASE Len(s) = 2
  <2>1. s = <<"usr", "bin">>
    BY <1>2, <1>5 DEF Target
  <2> QED
    BY <2>1 DEF Ancestors
<1>6. CASE Len(s) = 3
  <2>1. s = <<"usr", "bin", "gateway">>
    BY <1>2, <1>6 DEF Target
  <2> QED
    BY <2>1 DEF Target
<1> QED
  BY <1>2, <1>3, <1>4, <1>5, <1>6

\* One more layer: the turn of final_binary's loop follows the mount.
LEMMA LayerByLayer ==
  ASSUME NEW tree, NEW layer, LayerAccepted(layer), \A e \in layer : e.path \in Seq(STRING)
  PROVE  BinaryIn(Mounted(tree, layer)) = AfterLayer(BinaryIn(tree), layer)
<1> DEFINE replacement == {e \in layer : e.kind = "file" /\ e.path = Target}
           removesLower == \E e \in layer : Removes(e) /\ IsPrefix(e.path, Target)
           added == {e \in layer : ~Removes(e)}
           hidden(x) ==
             \/ \E e \in layer : e.kind = "whiteout" /\ IsPrefix(e.path, x.path)
             \/ \E e \in layer : /\ e.kind = "opaque" /\ IsPrefix(e.path, x.path)
                                 /\ e.path # x.path \/ x.kind # "dir"
             \/ \E e \in added : e.path = x.path
             \/ \E e \in added : e.kind # "dir" /\ IsStrictPrefix(e.path, x.path)
<1>1. Mounted(tree, layer) = {x \in tree : ~hidden(x)} \cup added
  BY DEF Mounted
<1>2. AfterLayer(BinaryIn(tree), layer) =
        IF replacement # {} THEN (CHOOSE e \in replacement : TRUE).bytes
        ELSE IF removesLower THEN Nothing ELSE BinaryIn(tree)
  BY DEF AfterLayer
<1>3. replacement \subseteq added
  BY DEF Removes
<1>4. ASSUME NEW x, x.path = Target, x.kind = "file"
      PROVE  hidden(x) <=> removesLower \/ replacement # {}
  <2>1. ASSUME NEW e \in added, e.path = Target PROVE e \in replacement
    BY <2>1 DEF LayerAccepted, Removes
  <2>2. ASSUME NEW e \in added, e.kind # "dir", IsStrictPrefix(e.path, Target) PROVE FALSE
    <3>1. e.path \in {<<>>, Target} \cup Ancestors /\ e.path # Target
      BY <2>2, PrefixesOfTarget DEF IsStrictPrefix
    <3>2. e.path # <<>>
      BY DEF LayerAccepted
    <3> QED
      BY <2>2, <3>1, <3>2 DEF LayerAccepted, Removes
  <2>3. ASSUME NEW e \in layer, Removes(e), IsPrefix(e.path, Target) PROVE hidden(x)
    BY <1>4, <2>3 DEF Removes
  <2>4. ASSUME NEW e \in replacement PROVE hidden(x)
    BY <1>3, <1>4
  <2>5. ASSUME hidden(x), replacement = {} PROVE removesLower
    BY <1>4, <2>1, <2>2, <2>5 DEF Removes
  <2> HIDE DEF hidden, replacement, added
  <2> QED
    BY <2>3, <2>4, <2>5
<1>5. CASE replacement # {}
  <2>1. Found(Mounted(tree, layer)) = replacement
    BY <1>1, <1>3, <1>4, <1>5 DEF Found
  <2> HIDE DEF replacement, hidden, added, removesLower
  <2> QED
    BY <1>2, <1>5, <2>1 DEF BinaryIn
<1>6. CASE replacement = {}
  <2>1. \A x \in added : ~(x.path = Target /\ x.kind = "file")
    BY <1>6
  <2>2. CASE removesLower
    <3>1. Found(Mounted(tree, layer)) = {}
      <4> HIDE DEF hidden, added, removesLower
      <4> QED
        BY <1>1, <1>4, <2>1, <2>2 DEF Found
    <3> QED
      BY <1>2, <1>6, <2>2, <3>1 DEF BinaryIn
  <2>3. CASE ~removesLower
    <3>1. Found(Mounted(tree, layer)) = Found(tree)
      <4> HIDE DEF hidden, added, removesLower, replacement
      <4> QED
        BY <1>1, <1>4, <1>6, <2>1, <2>3 DEF Found
    <3> HIDE DEF hidden, added, removesLower, replacement
    <3> QED
      BY <1>2, <1>6, <2>3, <3>1 DEF BinaryIn
  <2> QED
    BY <2>2, <2>3
<1> QED
  BY <1>5, <1>6

\* The folds of the model are those of FoldFacts.
LEMMA TheFolds ==
  ASSUME NEW layers
  PROVE  /\ FinalFold!Folded(layers) = FinalBinary(layers)
         /\ MountFold!Folded(layers) = FoldLeft(Mounted, {}, layers)
<1>1. FinalFold!Folded(layers) = FinalBinary(layers)
  BY DEF FinalBinary, FinalFold!Folded, FoldLeft, FinalFold!FoldLeft, MapThenFoldSet,
         FinalFold!MapThenFoldSet, Max, FinalFold!Max
<1>2. MountFold!Folded(layers) = FoldLeft(Mounted, {}, layers)
  BY DEF MountFold!Folded, FoldLeft, MountFold!FoldLeft, MapThenFoldSet,
         MountFold!MapThenFoldSet, Max, MountFold!Max
<1> QED
  BY <1>1, <1>2

\* Over all layers: final_binary's reading of an image is what the runtime mounts.
LEMMA FinalBinaryFollowsMounts ==
  ASSUME NEW S, \A layer \in S : LayerAccepted(layer) /\ \A e \in layer : e.path \in Seq(STRING),
         NEW layers \in Seq(S)
  PROVE  FinalBinary(layers) = BinaryIn(FoldLeft(Mounted, {}, layers))
<1> DEFINE F(s) == FinalFold!Folded(s)
           M(s) == MountFold!Folded(s)
           P == {n \in Nat : \A s \in Seq(S) : Len(s) = n => F(s) = BinaryIn(M(s))}
<1>1. 0 \in P
  <2>1. \A s \in Seq(S) : Len(s) = 0 => s = <<>>
    OBVIOUS
  <2>2. F(<<>>) = Nothing /\ M(<<>>) = {}
    BY FinalFold!FoldOfNone, MountFold!FoldOfNone
  <2>3. BinaryIn({}) = Nothing
    BY DEF BinaryIn, Found
  <2> HIDE DEF F, M
  <2> QED
    BY <2>1, <2>2, <2>3
<1>2. ASSUME NEW n \in Nat, n \in P PROVE n + 1 \in P
  <2> SUFFICES ASSUME NEW s \in Seq(S), Len(s) = n + 1 PROVE F(s) = BinaryIn(M(s))
    OBVIOUS
  <2> DEFINE front == SubSeq(s, 1, n)
             last == s[n + 1]
  <2>1. front \in Seq(S) /\ last \in S /\ Len(front) = n /\ s = Append(front, last)
    OBVIOUS
  <2> HIDE DEF front, last
  <2>2. F(s) = AfterLayer(F(front), last)
    BY <2>1, FinalFold!FoldOfAppend
  <2>3. M(s) = Mounted(M(front), last)
    BY <2>1, MountFold!FoldOfAppend
  <2>4. F(front) = BinaryIn(M(front))
    BY <1>2, <2>1
  <2> HIDE DEF F, M
  <2> QED
    BY <2>1, <2>2, <2>3, <2>4, LayerByLayer
<1>3. Len(layers) \in P
  <2> HIDE DEF P
  <2> QED
    BY <1>1, <1>2, FinalFold!NatSetInduction
<1>4. F(layers) = BinaryIn(M(layers))
  BY <1>3
<1> QED
  BY <1>4, TheFolds

\* The receipt of an inspected archive names the executable that a container of
\* its image runs (inspect_oci, final_binary).
THEOREM ReportedIsRun ==
  ASSUME NEW a \in InspectedArchives
  PROVE  Report[a].binary = Runs[Report[a].image]
<1> DEFINE archiveOf == CHOOSE b \in InspectedArchives : Report[b].image = Report[a].image
<1>1. \A b \in InspectedArchives :
        /\ Report[b].image = Config(b).digest
        /\ Report[b].binary = FinalBinary(Config(b).diffs)
  BY DEF Report
<1>2. archiveOf \in InspectedArchives /\ Report[archiveOf].image = Report[a].image
  OBVIOUS
<1>3. Config(archiveOf) = Config(a)
  BY <1>1, <1>2, SmokeAssumption
<1>4. Runs[Report[a].image] = Executed(Config(archiveOf))
  BY DEF Runs
<1>5. Executed(Config(a)) = BinaryIn(FoldLeft(Mounted, {}, Config(a).diffs))
  BY DEF Executed, BinaryIn, Found
<1>6. FinalBinary(Config(a).diffs) = BinaryIn(FoldLeft(Mounted, {}, Config(a).diffs))
  <2> DEFINE image == TheImage(Content[a])
  <2>1. Inspected(Content[a])
    BY DEF InspectedArchives
  <2>2. image \in Images(Content[a])
    <3>1. Cardinality(Images(Content[a])) = 1
      BY <2>1 DEF Inspected, ArchiveAccepted
    <3>2. Images(Content[a]) # {}
      BY <3>1, FS_EmptySet
    <3> QED
      BY <3>2 DEF TheImage
  <2>3. ImageAccepted(image)
    <3>1. PICK i \in DOMAIN Leaves(Content[a]) : image = Leaves(Content[a])[i]
      BY <2>2 DEF Images, ToSet
    <3>2. Leaves(Content[a])[i].media = "image"
      BY <2>2, <3>1 DEF Images
    <3> QED
      BY <2>1, <3>1, <3>2 DEF Inspected, ArchiveAccepted
  <2>4. image.layers = Config(a).diffs
    BY <2>3 DEF ImageAccepted, Config
  <2>5. \A layer \in ToSet(Config(a).diffs) : LayerAccepted(layer)
    BY <2>1, <2>4 DEF Inspected, ToSet
  <2> QED
    BY <2>5, SmokeAssumption, FinalBinaryFollowsMounts
<1> QED
  BY <1>1, <1>3, <1>4, <1>5, <1>6
-----------------------------------------------------------------------------
(* The graph of an archive.  Graph is what index.json and the indexes under   *)
(* it are made of, to any depth: descriptors of the three media, an index's   *)
(* manifests among them.                                                      *)
Media == {"index", "image", "attestation"}
Graph(D) == \A d \in D : d.media \in Media /\ (d.media = "index" => d.manifests \in Seq(D))

\* A function of the numbers from m to n that takes each value from the one before
\* exists.
Recurs(g, F, first, m, n) == g = [i \in m..n |-> IF i = m THEN first ELSE F[<<g[i - 1], i>>]]

LEMMA RecursionExists ==
  ASSUME NEW F, NEW first, NEW m \in Nat, NEW n \in Nat, m <= n
  PROVE  \E g : Recurs(g, F, first, m, n)
<1> DEFINE Solves(g, k) == g = [i \in m..(m + k) |-> IF i = m THEN first ELSE F[<<g[i - 1], i>>]]
           P == {k \in Nat : \E g : Solves(g, k)}
<1>1. 0 \in P
  <2> DEFINE g == [i \in m..(m + 0) |-> first]
  <2>1. Solves(g, 0)
    <3>1. \A i \in m..(m + 0) : i = m
      OBVIOUS
    <3> QED
      BY <3>1
  <2> QED
    BY <2>1
<1>2. ASSUME NEW k \in Nat, k \in P PROVE k + 1 \in P
  <2>1. PICK g : Solves(g, k)
    BY <1>2
  <2> DEFINE h == [i \in m..(m + (k + 1)) |-> IF i = m + (k + 1) THEN F[<<g[m + k], i>>] ELSE g[i]]
  <2>2. ASSUME NEW i \in m..(m + (k + 1))
        PROVE  h[i] = IF i = m THEN first ELSE F[<<h[i - 1], i>>]
    <3>1. CASE i = m + (k + 1)
      <4>1. i # m /\ i - 1 = m + k /\ i - 1 \in m..(m + (k + 1)) /\ i - 1 # m + (k + 1)
        BY <3>1
      <4>2. h[i - 1] = g[m + k]
        BY <4>1
      <4>3. h[i] = F[<<g[m + k], i>>]
        BY <3>1
      <4> HIDE DEF h
      <4> QED
        BY <4>1, <4>2, <4>3
    <3>2. CASE i # m + (k + 1)
      <4>1. i \in m..(m + k) /\ h[i] = g[i]
        BY <3>2
      <4>2. g[i] = IF i = m THEN first ELSE F[<<g[i - 1], i>>]
        BY <2>1, <4>1
      <4>3. i # m => h[i - 1] = g[i - 1]
        <5> SUFFICES ASSUME i # m PROVE h[i - 1] = g[i - 1]
          OBVIOUS
        <5>1. i - 1 \in m..(m + (k + 1)) /\ i - 1 # m + (k + 1)
          BY <4>1
        <5> QED
          BY <5>1
      <4> HIDE DEF h
      <4> QED
        BY <4>1, <4>2, <4>3
    <3> QED
      BY <3>1, <3>2
  <2>3. Solves(h, k + 1)
    <3>1. h = [i \in m..(m + (k + 1)) |-> h[i]]
      OBVIOUS
    <3> HIDE DEF h
    <3> QED
      BY <2>2, <3>1
  <2> HIDE DEF Solves
  <2> QED
    BY <2>3
<1> HIDE DEF P
<1>3. n - m \in Nat /\ m + (n - m) = n
  OBVIOUS
<1>4. n - m \in P
  BY <1>1, <1>2, <1>3, FinalFold!NatSetInduction
<1>5. PICK g : Solves(g, n - m)
  BY <1>4 DEF P
<1>6. Recurs(g, F, first, m, n)
  BY <1>3, <1>5 DEF Recurs
<1> QED
  BY <1>6

\* The members of two sequences in a row.
LEMMA SetOfConcat ==
  ASSUME NEW D, NEW s \in Seq(D), NEW t \in Seq(D)
  PROVE  s \o t \in Seq(D) /\ ToSet(s \o t) = ToSet(s) \cup ToSet(t)
<1>1. /\ s \o t \in Seq(D) /\ Len(s \o t) = Len(s) + Len(t)
      /\ \A i \in 1..(Len(s) + Len(t)) : (s \o t)[i] = IF i <= Len(s) THEN s[i] ELSE t[i - Len(s)]
  BY ConcatProperties
<1>2. DOMAIN s = 1..Len(s) /\ DOMAIN t = 1..Len(t) /\ DOMAIN (s \o t) = 1..(Len(s) + Len(t))
      /\ Len(s) \in Nat /\ Len(t) \in Nat
  BY <1>1
<1> DEFINE u == s \o t
<1> HIDE DEF u
<1>3. ASSUME NEW x \in ToSet(u) PROVE x \in ToSet(s) \cup ToSet(t)
  <2>1. PICK i \in 1..(Len(s) + Len(t)) : x = u[i]
    BY <1>2, <1>3 DEF ToSet, u
  <2>2. i <= Len(s) => i \in 1..Len(s)
    BY <1>2
  <2>3. ~ (i <= Len(s)) => i - Len(s) \in 1..Len(t)
    BY <1>2
  <2> QED
    BY <1>1, <1>2, <2>1, <2>2, <2>3 DEF ToSet, u
<1>4. ASSUME NEW x \in ToSet(s) PROVE x \in ToSet(u)
  <2>1. PICK i \in 1..Len(s) : x = s[i]
    BY <1>2, <1>4 DEF ToSet
  <2>2. i \in 1..(Len(s) + Len(t)) /\ i <= Len(s)
    BY <1>2
  <2> QED
    BY <1>1, <1>2, <2>1, <2>2 DEF ToSet, u
<1>5. ASSUME NEW x \in ToSet(t) PROVE x \in ToSet(u)
  <2>1. PICK i \in 1..Len(t) : x = t[i]
    BY <1>2, <1>5 DEF ToSet
  <2>2. i + Len(s) \in 1..(Len(s) + Len(t)) /\ ~ (i + Len(s) <= Len(s)) /\ (i + Len(s)) - Len(s) = i
    BY <1>2
  <2> QED
    BY <1>1, <1>2, <2>1, <2>2 DEF ToSet, u
<1> QED
  BY <1>1, <1>3, <1>4, <1>5 DEF u

\* FlattenSeq puts sequences in a row and loses nothing.
LEMMA SetOfFlatten ==
  ASSUME NEW D, NEW seqs \in Seq(Seq(D))
  PROVE  /\ FlattenSeq(seqs) \in Seq(D)
         /\ ToSet(FlattenSeq(seqs)) = UNION {ToSet(seqs[i]) : i \in 1..Len(seqs)}
<1> DEFINE N == Len(seqs)
<1>1. N \in Nat /\ \A i \in 1..N : seqs[i] \in Seq(D)
  OBVIOUS
<1>2. CASE N = 0
  <2>1. seqs = << >> /\ FlattenSeq(seqs) = << >>
    BY <1>2 DEF FlattenSeq
  <2>2. 1..N = {}
    BY <1>2
  <2>3. ToSet(<< >>) = {} /\ << >> \in Seq(D)
    BY DEF ToSet
  <2>4. UNION {ToSet(seqs[i]) : i \in 1..N} = {}
    BY <2>2
  <2> QED
    BY <2>1, <2>3, <2>4
<1>3. CASE N # 0
  <2> HIDE DEF N
  <2> DEFINE Eq(g) == g = [i \in 1..N |-> IF i = 1 THEN seqs[i] ELSE g[i - 1] \o seqs[i]]
             Has(g, i) == g[i] \in Seq(D) /\ ToSet(g[i]) = UNION {ToSet(seqs[j]) : j \in 1..i}
             F == [p \in Seq(D) \X Nat |-> p[1] \o seqs[p[2]]]
  <2>1. 1 \in Nat /\ 1 <= N
    BY <1>1, <1>3
  <2>2. PICK g : Recurs(g, F, seqs[1], 1, N)
    <3> HIDE DEF F
    <3> QED
      BY <1>1, <2>1, RecursionExists
  <2>3. ASSUME NEW h, h[1] = seqs[1],
               \A i \in 1..N : i # 1 /\ Has(h, i - 1) => h[i] = h[i - 1] \o seqs[i]
        PROVE  \A i \in 1..N : Has(h, i)
    <3> DEFINE P == {k \in Nat : k + 1 \in 1..N => Has(h, k + 1)}
    <3>1. 0 \in P
      <4>1. 1..1 = {1} /\ 1 \in 1..N /\ 0 + 1 = 1
        BY <1>1, <2>1
      <4> QED
        BY <1>1, <2>3, <4>1
    <3>2. ASSUME NEW k \in Nat, k \in P PROVE k + 1 \in P
      <4> SUFFICES ASSUME (k + 1) + 1 \in 1..N PROVE Has(h, (k + 1) + 1)
        OBVIOUS
      <4> DEFINE i == (k + 1) + 1
      <4>1. k + 1 \in 1..N /\ i # 1 /\ i - 1 = k + 1 /\ i \in 1..N
        BY <1>1
      <4>2. Has(h, i - 1)
        BY <3>2, <4>1
      <4> HIDE DEF i
      <4>3. h[i] = h[i - 1] \o seqs[i]
        <5> HIDE DEF Has
        <5> QED
          BY <2>3, <4>1, <4>2
      <4>4. seqs[i] \in Seq(D)
        BY <1>1, <4>1
      <4>5. h[i] \in Seq(D) /\ ToSet(h[i]) = ToSet(h[i - 1]) \cup ToSet(seqs[i])
        BY <4>2, <4>3, <4>4, SetOfConcat
      <4>6. 1..i = (1..(i - 1)) \cup {i}
        BY <1>1, <4>1
      <4>7. Has(h, i)
        BY <4>2, <4>5, <4>6
      <4> QED
        BY <4>7 DEF i
    <3> HIDE DEF P, Has
    <3>3. \A k \in Nat : k \in P
      BY <3>1, <3>2, FinalFold!NatSetInduction
    <3> SUFFICES ASSUME NEW i \in 1..N PROVE Has(h, i)
      OBVIOUS
    <3>4. i - 1 \in Nat /\ (i - 1) + 1 = i
      BY <1>1
    <3>5. i - 1 \in P
      BY <3>3, <3>4
    <3> QED
      BY <3>4, <3>5 DEF P
  <2>4. ASSUME NEW i \in 1..N, i # 1, g[i - 1] \in Seq(D)
        PROVE  g[i] = g[i - 1] \o seqs[i]
    <3>1. i \in Nat
      OBVIOUS
    <3>2. F[<<g[i - 1], i>>] = g[i - 1] \o seqs[i]
      BY <2>4, <3>1
    <3> HIDE DEF F
    <3> QED
      BY <2>2, <2>4, <3>2 DEF Recurs
  <2>5. g[1] = seqs[1]
    BY <1>1, <2>1, <2>2 DEF Recurs
  <2>6. \A i \in 1..N : Has(g, i)
    BY <2>3, <2>4, <2>5
  <2>7. Eq(g)
    <3>1. \A i \in 1..N : i # 1 => i - 1 \in 1..N
      BY <1>1
    <3>2. g = [i \in 1..N |-> g[i]]
      BY <2>2 DEF Recurs
    <3> HIDE DEF F
    <3> QED
      BY <2>4, <2>5, <2>6, <3>1, <3>2
  <2> DEFINE f == CHOOSE h : Eq(h)
  <2>8. Eq(f)
    <3> HIDE DEF Eq
    <3> QED
      BY <2>7
  <2>9. FlattenSeq(seqs) = f[N]
    BY <1>3 DEF FlattenSeq, N
  <2> HIDE DEF f
  <2>10. f[1] = seqs[1] /\ \A i \in 1..N : i # 1 => f[i] = f[i - 1] \o seqs[i]
    <3>1. 1 \in 1..N
      BY <1>1, <2>1
    <3>2. \A i \in 1..N : f[i] = IF i = 1 THEN seqs[i] ELSE f[i - 1] \o seqs[i]
      BY <2>8, Zenon
    <3> HIDE DEF Eq
    <3> QED
      BY <3>1, <3>2
  <2>11. Has(f, N)
    <3>1. N \in 1..N
      BY <1>1, <2>1
    <3> HIDE DEF Has, Eq
    <3> QED
      BY <2>3, <2>10, <3>1
  <2> QED
    BY <2>9, <2>11 DEF N
<1> QED
  BY <1>2, <1>3

\* Opening the indexes of a level keeps the rest of it.
LEMMA SetOfOpened ==
  ASSUME NEW D, Graph(D), NEW s \in Seq(D)
  PROVE  /\ Opened(s) \in Seq(D)
         /\ \A d : d \in ToSet(Opened(s)) <=>
              \/ d \in ToSet(s) /\ ~Opens(d)
              \/ \E x \in ToSet(s) : Opens(x) /\ d \in ToSet(x.manifests)
<1> DEFINE Part(i) == IF Opens(s[i]) THEN s[i].manifests ELSE <<s[i]>>
           parts == [i \in DOMAIN s |-> Part(i)]
<1>1. DOMAIN s = 1..Len(s) /\ Len(s) \in Nat /\ \A i \in 1..Len(s) : s[i] \in D
  OBVIOUS
<1>2. ASSUME NEW i \in 1..Len(s) PROVE Part(i) \in Seq(D)
  BY <1>1 DEF Graph, Opens
<1>3. parts \in Seq(Seq(D)) /\ Len(parts) = Len(s)
  <2>1. parts \in [1..Len(s) -> Seq(D)]
    <3> HIDE DEF Part
    <3> QED
      BY <1>1, <1>2
  <2> HIDE DEF parts
  <2> QED
    BY <1>1, <2>1
<1>4. \A i \in 1..Len(s) : parts[i] = Part(i)
  BY <1>1
<1>5. Opened(s) = FlattenSeq(parts)
  BY DEF Opened
<1> HIDE DEF parts
<1>6. Opened(s) \in Seq(D) /\ ToSet(Opened(s)) = UNION {ToSet(parts[i]) : i \in 1..Len(s)}
  BY <1>3, <1>5, SetOfFlatten
<1>7. ASSUME NEW i \in 1..Len(s), NEW d
      PROVE  d \in ToSet(parts[i]) <=> IF Opens(s[i]) THEN d \in ToSet(s[i].manifests) ELSE d = s[i]
  <2>1. CASE Opens(s[i])
    BY <1>4, <2>1
  <2>2. CASE ~Opens(s[i])
    <3>1. parts[i] = <<s[i]>>
      BY <1>4, <2>2
    <3>2. ToSet(<<s[i]>>) = {s[i]}
      <4>1. DOMAIN <<s[i]>> = {1} /\ <<s[i]>>[1] = s[i]
        OBVIOUS
      <4> QED
        BY <4>1 DEF ToSet
    <3> QED
      BY <2>2, <3>1, <3>2
  <2> QED
    BY <2>1, <2>2
<1> HIDE DEF Part
<1>8. \A d : d \in ToSet(s) <=> \E i \in 1..Len(s) : d = s[i]
  BY <1>1 DEF ToSet
<1>9. \A d : d \in ToSet(Opened(s)) <=> \E i \in 1..Len(s) : d \in ToSet(parts[i])
  BY <1>6
<1>10. \A d : d \in ToSet(Opened(s)) <=>
         \E i \in 1..Len(s) : IF Opens(s[i]) THEN d \in ToSet(s[i].manifests) ELSE d = s[i]
  BY <1>7, <1>9, Zenon
<1>11. \A d : (\E i \in 1..Len(s) : IF Opens(s[i]) THEN d \in ToSet(s[i].manifests) ELSE d = s[i]) <=>
         \/ d \in ToSet(s) /\ ~Opens(d)
         \/ \E x \in ToSet(s) : Opens(x) /\ d \in ToSet(x.manifests)
  BY <1>8, Zenon
<1> QED
  BY <1>6, <1>10, <1>11

\* A sequence of applications of F stays in the type of F, and exists.
LEMMA IterationStays ==
  ASSUME NEW T, NEW F \in [T -> T], NEW n \in Nat, NEW h, h[0] \in T,
         \A k \in 1..n : h[k - 1] \in T => h[k] = F[h[k - 1]]
  PROVE  \A k \in 0..n : h[k] \in T
<1> DEFINE P == {k \in Nat : k \in 0..n => h[k] \in T}
<1>1. 0 \in P
  OBVIOUS
<1>2. ASSUME NEW k \in Nat, k \in P PROVE k + 1 \in P
  <2> SUFFICES ASSUME k + 1 \in 0..n PROVE h[k + 1] \in T
    OBVIOUS
  <2>1. k \in 0..n /\ k + 1 \in 1..n /\ (k + 1) - 1 = k
    OBVIOUS
  <2> QED
    BY <1>2, <2>1
<1> HIDE DEF P
<1>3. \A k \in Nat : k \in P
  BY <1>1, <1>2, FinalFold!NatSetInduction
<1> QED
  BY <1>3 DEF P

Applies(g, F, first, n) == g[0] = first /\ \A k \in 1..n : g[k] = F[g[k - 1]]

LEMMA IterationExists ==
  ASSUME NEW T, NEW F \in [T -> T], NEW n \in Nat, NEW first \in T
  PROVE  \E g \in [0..n -> T] : Applies(g, F, first, n)
<1> DEFINE G == [p \in T \X Nat |-> F[p[1]]]
<1>1. 0 \in Nat /\ 0 <= n /\ 0 \in 0..n
  OBVIOUS
<1>2. PICK g : Recurs(g, G, first, 0, n)
  <2> HIDE DEF G
  <2> QED
    BY <1>1, RecursionExists
<1>3. ASSUME NEW k \in 1..n, g[k - 1] \in T PROVE g[k] = F[g[k - 1]]
  <2>1. k \in Nat /\ k \in 0..n /\ k # 0
    OBVIOUS
  <2>2. G[<<g[k - 1], k>>] = F[g[k - 1]]
    BY <1>3, <2>1
  <2> HIDE DEF G
  <2> QED
    BY <1>2, <2>1, <2>2 DEF Recurs
<1> HIDE DEF G
<1>4. g[0] = first /\ g = [k \in 0..n |-> g[k]]
  BY <1>1, <1>2 DEF Recurs
<1>5. \A k \in 0..n : g[k] \in T
  BY <1>3, <1>4, IterationStays
<1>6. \A k \in 1..n : k - 1 \in 0..n
  OBVIOUS
<1>7. g \in [0..n -> T]
  BY <1>4, <1>5
<1> QED
  BY <1>3, <1>4, <1>5, <1>6, <1>7 DEF Applies

\* walk opens the archive level by level.
LEMMA WalkByLevel ==
  ASSUME NEW D, Graph(D), NEW a \in Seq(D)
  PROVE  \E level \in [0..MaxDepth -> Seq(D)] :
           /\ level[0] = a /\ level[MaxDepth] = Leaves(a)
           /\ \A k \in 1..MaxDepth : level[k] = Opened(level[k - 1])
<1> DEFINE N == MaxDepth
           T == Seq(D)
           F == [s \in T |-> Opened(s)]
           Eq(g) == g = [d \in 0..N |-> IF d = 0 THEN a ELSE Opened(g[d - 1])]
<1>1. N \in Nat /\ 0 \in 0..N /\ N \in 0..N
  BY OciAssumption
<1>2. F \in [T -> T] /\ \A s \in T : F[s] = Opened(s)
  BY SetOfOpened
<1>3. a \in T
  OBVIOUS
<1> HIDE DEF N, F, T
<1>4. PICK g \in [0..N -> T] : Applies(g, F, a, N)
  BY <1>1, <1>2, <1>3, IterationExists
<1>5. \A k \in 0..N : k # 0 => k \in 1..N /\ k - 1 \in 0..N
  BY <1>1
<1>6. Eq(g)
  BY <1>2, <1>4, <1>5 DEF Applies
<1> DEFINE f == CHOOSE h : Eq(h)
<1>7. Eq(f)
  <2> HIDE DEF Eq
  <2> QED
    BY <1>6
<1>8. Leaves(a) = f[N]
  BY DEF Leaves, N
<1> HIDE DEF f
<1>9. \A k \in 0..N : f[k] = IF k = 0 THEN a ELSE Opened(f[k - 1])
  BY <1>7, Zenon
<1>10. f[0] = a /\ \A k \in 1..N : f[k] = Opened(f[k - 1])
  <2>1. \A k \in 1..N : k \in 0..N /\ k # 0
    BY <1>1
  <2> HIDE DEF Eq
  <2> QED
    BY <1>1, <1>9, <2>1
<1>11. f \in [0..N -> T]
  <2>1. \A k \in 0..N : f[k] \in T
    <3>1. f[0] \in T /\ \A k \in 1..N : f[k - 1] \in T => f[k] = F[f[k - 1]]
      BY <1>2, <1>3, <1>10
    <3> HIDE DEF Eq
    <3> QED
      BY <1>1, <1>2, <3>1, IterationStays
  <2> QED
    BY <1>7, <2>1
<1> QED
  BY <1>8, <1>10, <1>11 DEF N, T

\* Whoever follows the indexes comes to their manifests, level by level.
Children(R) == UNION {ToSet(x.manifests) : x \in {y \in R : y.media = "index"}}

Reaches(reach, a, n) ==
  reach[0] = ToSet(a) /\ \A k \in 1..n : reach[k] = reach[k - 1] \cup Children(reach[k - 1])

LEMMA ReachByLevel ==
  ASSUME NEW D, Graph(D), NEW a \in Seq(D), NEW n \in Nat
  PROVE  \E reach \in [0..n -> SUBSET D] : Reaches(reach, a, n) /\ reach[n] = Reachable(a, n)
<1> DEFINE T == SUBSET D
           F == [R \in T |-> R \cup Children(R)]
           Eq(g) == g = [d \in 0..n |-> IF d = 0 THEN ToSet(a) ELSE g[d - 1] \cup Children(g[d - 1])]
<1>1. 0 \in 0..n /\ n \in 0..n
  OBVIOUS
<1>2. ToSet(a) \in T
  BY DEF ToSet
<1>3. F \in [T -> T] /\ \A R \in T : F[R] = R \cup Children(R)
  <2>1. ASSUME NEW R \in T PROVE Children(R) \in T
    <3> SUFFICES ASSUME NEW x \in R, x.media = "index", NEW d \in ToSet(x.manifests) PROVE d \in D
      BY DEF Children
    <3>1. x.manifests \in Seq(D)
      BY DEF Graph
    <3> QED
      BY <3>1 DEF ToSet
  <2> QED
    BY <2>1
<1> HIDE DEF F, T
<1>4. PICK g \in [0..n -> T] : Applies(g, F, ToSet(a), n)
  BY <1>2, <1>3, IterationExists
<1>5. \A k \in 0..n : k # 0 => k \in 1..n /\ k - 1 \in 0..n
  OBVIOUS
<1>6. Eq(g)
  BY <1>3, <1>4, <1>5 DEF Applies
<1> DEFINE f == CHOOSE h : Eq(h)
<1>7. Eq(f)
  <2> HIDE DEF Eq
  <2> QED
    BY <1>6
<1>8. Reachable(a, n) = f[n]
  BY DEF Reachable, Children
<1> HIDE DEF f
<1>9. \A k \in 0..n : f[k] = IF k = 0 THEN ToSet(a) ELSE f[k - 1] \cup Children(f[k - 1])
  BY <1>7, Zenon
<1>10. f[0] = ToSet(a) /\ \A k \in 1..n : f[k] = f[k - 1] \cup Children(f[k - 1])
  <2>1. \A k \in 1..n : k \in 0..n /\ k # 0
    OBVIOUS
  <2> HIDE DEF Eq
  <2> QED
    BY <1>1, <1>9, <2>1
<1>11. f \in [0..n -> T]
  <2>1. \A k \in 0..n : f[k] \in T
    <3>1. f[0] \in T /\ \A k \in 1..n : f[k - 1] \in T => f[k] = F[f[k - 1]]
      BY <1>2, <1>3, <1>10
    <3> HIDE DEF Eq
    <3> QED
      BY <1>3, <3>1, IterationStays
  <2> QED
    BY <1>7, <2>1
<1> QED
  BY <1>8, <1>10, <1>11 DEF T, Reaches

-----------------------------------------------------------------------------
\* The leaves of an archive are descriptors of it.
LEMMA LeavesAreDescriptors ==
  ASSUME NEW D, Graph(D), NEW a \in Seq(D)
  PROVE  Leaves(a) \in Seq(D) /\ ToSet(Leaves(a)) \subseteq D
<1>1. PICK level \in [0..MaxDepth -> Seq(D)] : level[MaxDepth] = Leaves(a)
  BY WalkByLevel
<1>2. Leaves(a) \in Seq(D)
  BY <1>1, OciAssumption
<1> QED
  BY <1>2 DEF ToSet

\* Down to the depth walk opens, the indexes lead to nothing but what walk meets and
\* indexes it has opened.
Covers(R, leaves) ==
  \A d \in R : d \in leaves \/ (d.media = "index" /\ ToSet(d.manifests) \subseteq R)

LEMMA WalkCovers ==
  ASSUME NEW D, Graph(D), NEW a \in Seq(D)
  PROVE  /\ ToSet(Leaves(a)) \subseteq Reachable(a, MaxDepth)
         /\ Covers(Reachable(a, MaxDepth), ToSet(Leaves(a)))
<1>1. PICK level \in [0..MaxDepth -> Seq(D)] :
        /\ level[0] = a /\ level[MaxDepth] = Leaves(a)
        /\ \A k \in 1..MaxDepth : level[k] = Opened(level[k - 1])
  BY WalkByLevel
<1>2. PICK reach \in [0..MaxDepth -> SUBSET D] :
        Reaches(reach, a, MaxDepth) /\ reach[MaxDepth] = Reachable(a, MaxDepth)
  BY OciAssumption, ReachByLevel
<1> DEFINE Good(k) == ToSet(level[k]) \subseteq reach[k] /\ Covers(reach[k], ToSet(level[k]))
           P == {k \in Nat : k \in 0..MaxDepth => Good(k)}
<1>3. 0 \in P
  BY <1>1, <1>2 DEF Covers, Reaches
<1>4. ASSUME NEW k \in Nat, k \in P PROVE k + 1 \in P
  <2> SUFFICES ASSUME k + 1 \in 0..MaxDepth PROVE Good(k + 1)
    OBVIOUS
  <2>1. k \in 0..MaxDepth /\ k + 1 \in 1..MaxDepth /\ (k + 1) - 1 = k
    BY OciAssumption
  <2> DEFINE s == level[k]
             t == level[k + 1]
             R == reach[k]
             S == reach[k + 1]
  <2>2. s \in Seq(D) /\ t = Opened(s) /\ S = R \cup Children(R) /\ R \subseteq D
    BY <1>1, <1>2, <2>1 DEF Reaches
  <2>3. ToSet(s) \subseteq R /\ Covers(R, ToSet(s))
    BY <1>4, <2>1
  <2> HIDE DEF s, t, R, S
  <2>4. \A d : d \in ToSet(t) <=>
          \/ d \in ToSet(s) /\ ~Opens(d)
          \/ \E x \in ToSet(s) : Opens(x) /\ d \in ToSet(x.manifests)
    BY <2>2, SetOfOpened
  <2>5. \A d : d \in S <=> d \in R \/ \E x \in R : x.media = "index" /\ d \in ToSet(x.manifests)
    BY <2>2 DEF Children
  <2>6. ToSet(t) \subseteq S
    BY <2>3, <2>4, <2>5 DEF Opens
  <2>7. ASSUME NEW d \in R PROVE d \in ToSet(t) \/ (d.media = "index" /\ ToSet(d.manifests) \subseteq S)
    <3>1. CASE d \in ToSet(s) /\ ~Opens(d)
      BY <2>4, <3>1
    <3>2. CASE d.media = "index"
      BY <2>5, <3>2
    <3> QED
      BY <2>3, <3>1, <3>2 DEF Opens, Covers
  <2>8. ASSUME NEW x \in R, x.media = "index", NEW d \in ToSet(x.manifests)
        PROVE  d \in ToSet(t) \/ d \in R
    <3>1. CASE x \in ToSet(s)
      <4>1. x.manifests # << >>
        BY <2>8 DEF ToSet
      <4> QED
        BY <2>4, <2>8, <3>1, <4>1 DEF Opens
    <3>2. CASE x \notin ToSet(s)
      BY <2>3, <2>8, <3>2 DEF Covers
    <3> QED
      BY <3>1, <3>2
  <2>9. Covers(S, ToSet(t))
    BY <2>5, <2>7, <2>8 DEF Covers
  <2> QED
    BY <2>6, <2>9 DEF s, t, R, S
<1>5. Good(MaxDepth)
  <2> HIDE DEF P, Good
  <2>1. \A k \in Nat : k \in P
    BY <1>3, <1>4, FinalFold!NatSetInduction
  <2> QED
    BY <2>1, OciAssumption DEF P
<1> QED
  BY <1>1, <1>2, <1>5

\* Where the indexes lead to nothing new, following them further leads nowhere.
LEMMA ReachIsStable ==
  ASSUME NEW D, Graph(D), NEW a \in Seq(D), NEW m \in Nat, NEW n \in Nat, m <= n,
         Children(Reachable(a, m)) \subseteq Reachable(a, m)
  PROVE  Reachable(a, n) = Reachable(a, m)
<1>1. PICK f \in [0..m -> SUBSET D] : Reaches(f, a, m) /\ f[m] = Reachable(a, m)
  BY ReachByLevel
<1>2. PICK g \in [0..n -> SUBSET D] : Reaches(g, a, n) /\ g[n] = Reachable(a, n)
  BY ReachByLevel
<1> DEFINE P == {k \in Nat : k \in 0..n => g[k] = IF k <= m THEN f[k] ELSE f[m]}
<1>3. 0 \in P
  BY <1>1, <1>2 DEF Reaches
<1>4. ASSUME NEW k \in Nat, k \in P PROVE k + 1 \in P
  <2> SUFFICES ASSUME k + 1 \in 0..n PROVE g[k + 1] = IF k + 1 <= m THEN f[k + 1] ELSE f[m]
    OBVIOUS
  <2>1. k \in 0..n /\ k + 1 \in 1..n /\ (k + 1) - 1 = k
    OBVIOUS
  <2>2. g[k + 1] = g[k] \cup Children(g[k]) /\ g[k] = IF k <= m THEN f[k] ELSE f[m]
    BY <1>2, <1>4, <2>1 DEF Reaches
  <2>3. CASE k + 1 <= m
    <3>1. k + 1 \in 1..m /\ k <= m
      BY <2>3
    <3> QED
      BY <1>1, <2>1, <2>2, <2>3, <3>1 DEF Reaches
  <2>4. CASE ~ (k + 1 <= m)
    <3>1. g[k] = f[m]
      <4>1. k <= m => k = m
        BY <2>4
      <4> QED
        BY <2>2, <4>1
    <3>2. f[m] \cup Children(f[m]) = f[m]
      BY <1>1
    <3> QED
      BY <2>2, <2>4, <3>1, <3>2
  <2> QED
    BY <2>3, <2>4
<1> HIDE DEF P
<1>5. \A k \in Nat : k \in P
  BY <1>3, <1>4, FinalFold!NatSetInduction
<1>6. g[n] = f[m]
  <2>1. n \in 0..n /\ (n <= m => n = m)
    OBVIOUS
  <2>2. g[n] = IF n <= m THEN f[n] ELSE f[m]
    BY <1>5, <2>1 DEF P
  <2> QED
    BY <2>1, <2>2
<1> QED
  BY <1>1, <1>2, <1>6

\* Archive (merge_oci_archives.py) and whoever runs or pulls what it has accepted:
\* for every archive, however deep its indexes and however far they are followed, the
\* one image that was inspected and reported is the only one there is to run.
THEOREM OneImageToRun ==
  ASSUME NEW D, Graph(D), NEW a \in Seq(D), ArchiveAccepted(a), NEW n \in Nat, n >= MaxDepth
  PROVE  Runnable(a, n) = Images(a) /\ Images(a) = {TheImage(a)}
<1> DEFINE L == ToSet(Leaves(a))
           R == Reachable(a, MaxDepth)
<1>1. L \subseteq D /\ \A d \in D : d.media \in Media
  BY LeavesAreDescriptors DEF Graph
<1>2. \A d \in L : d.media # "index"
  <2> SUFFICES ASSUME NEW i \in DOMAIN Leaves(a), Leaves(a)[i].media = "index" PROVE FALSE
    BY DEF ToSet
  <2> QED
    BY DEF ArchiveAccepted
<1>3. L \subseteq R /\ Covers(R, L)
  BY WalkCovers
<1>4. Children(R) \subseteq R
  <2> HIDE DEF L, R
  <2> QED
    BY <1>2, <1>3 DEF Covers, Children
<1>5. Reachable(a, n) = R
  BY <1>4, OciAssumption, ReachIsStable
<1>6. Runnable(a, n) = Images(a)
  <2>1. Images(a) = {d \in L : d.media = "image"}
    BY DEF Images
  <2> HIDE DEF L, R
  <2>2. \A d : (d \in R /\ d.media = "image") <=> (d \in L /\ d.media = "image")
    BY <1>3 DEF Covers
  <2> QED
    BY <1>5, <2>1, <2>2 DEF Runnable
<1>7. Images(a) = {TheImage(a)}
  <2>1. Cardinality(Images(a)) = 1
    BY DEF ArchiveAccepted
  <2>2. IsFiniteSet(Images(a))
    <3>1. Leaves(a) \in Seq(D)
      BY LeavesAreDescriptors
    <3>2. IsFiniteSet(L)
      <4>1. DOMAIN Leaves(a) = 1..Len(Leaves(a)) /\ Len(Leaves(a)) \in Nat
        BY <3>1
      <4>2. IsFiniteSet(1..Len(Leaves(a)))
        BY <4>1, FS_Interval
      <4>3. Leaves(a) \in Surjection(1..Len(Leaves(a)), L)
        BY <3>1, <4>1 DEF ToSet, Surjection
      <4> QED
        BY <4>2, <4>3, FS_Surjection
    <3> QED
      BY <3>2, FS_Subset DEF Images
  <2>3. PICK x : Images(a) = {x}
    BY <2>1, <2>2, FS_Singleton
  <2> QED
    BY <2>3 DEF TheImage
<1> QED
  BY <1>6, <1>7

\* _OciMetadata.verify (version_plan.py) after Archive: what the smoke test has
\* accepted, of any depth, is not refused when it is staged.
THEOREM StagingAcceptsInspected ==
  ASSUME NEW D, Graph(D), NEW a \in Seq(D), ArchiveAccepted(a)
  PROVE  MetadataAccepted(a)
<1> DEFINE L == ToSet(Leaves(a))
<1>1. Images(a) = {TheImage(a)}
  BY OneImageToRun, OciAssumption
<1>2. TheImage(a) \in Images(a) /\ Images(a) = {d \in L : d.media = "image"}
  BY <1>1 DEF Images
<1>3. ASSUME NEW d \in L
      PROVE  CASE d.media = "index"       -> FALSE
               [] d.media = "image"       -> MetadataImage(d)
               [] d.media = "attestation" -> MetadataAttestation(d, Images(a))
  <2>1. PICK i \in DOMAIN Leaves(a) : d = Leaves(a)[i]
    BY DEF ToSet
  <2>2. CASE d.media # "image" /\ d.media # "index" /\ d.media # "attestation"
    BY <2>2, LeavesAreDescriptors DEF Graph, Media
  <2>3. CASE d.media = "index"
    BY <2>1, <2>3 DEF ArchiveAccepted
  <2>4. CASE d.media = "image"
    <3>1. ImageAccepted(d)
      BY <2>1, <2>4 DEF ArchiveAccepted
    <3> QED
      BY <2>4, <3>1 DEF ImageAccepted, MetadataImage
  <2>5. CASE d.media = "attestation"
    <3>1. AttestationAccepted(d)
      BY <2>1, <2>5 DEF ArchiveAccepted
    <3>2. d \in Attestations(a)
      BY <2>5 DEF Attestations
    <3>3. d.subject = TheImage(a)
      BY <3>2 DEF ArchiveAccepted
    <3> QED
      BY <1>2, <2>5, <3>1, <3>3 DEF AttestationAccepted, MetadataAttestation
  <2> QED
    BY <2>2, <2>3, <2>4, <2>5
<1> HIDE DEF L
<1> QED
  BY <1>2, <1>3 DEF MetadataAccepted, L

-----------------------------------------------------------------------------
(* The smoke probes.  Everything of a probe's own, of the daemon's and of its *)
(* workspace:                                                                 *)
TagsOf(p) == {r \in refs : r[1] = p}
LateOf(p) == {c \in late : c.probe = p}
OwnVars(p) ==
  <<containers[p], TagsOf(p), LateOf(p), archive[p], probe[p], diagnostics[p], receipt[p], ran[p], swapped[p]>>

Reports == {Report[a] : a \in InspectedArchives}
ImageIds == {Report[a].image : a \in InspectedArchives}
ContainerType == [image : ImageIds, status : {"created", "running", "exited"}]
CommandType == [do : {"load", "create", "start", "rm", "untag"}, probe : Probes, image : ImageIds]
ProbeType ==
  [pc : {"idle"} \cup Working \cup Ended, oci : Reports \cup {None}, preexisting : BOOLEAN,
   imported : BOOLEAN, known : BOOLEAN, failed : BOOLEAN]

SmokeTypes ==
  /\ refs \subseteq Owners \X (ImageIds \cup Popular)
  /\ containers \in [Owners -> {None} \cup [image : ImageIds \cup Popular,
                                           status : {"created", "running", "exited"}]]
  /\ late \subseteq CommandType
  /\ probe \in [Probes -> ProbeType]
  /\ archive \in [Probes -> Archives \cup {None}]
  /\ DOMAIN diagnostics = Probes /\ DOMAIN receipt = Probes /\ DOMAIN ran = Probes
  /\ DOMAIN swapped = Probes

(* Before it begins a probe owns nothing; then all it owns is of its image    *)
(* and its intent is on disk.                                                 *)
Began(p) == probe[p].pc \notin {"idle", "refused"}

OwnsItsImage(p) ==
  /\ ~Began(p) => /\ containers[p] = None /\ TagsOf(p) = {} /\ LateOf(p) = {}
  /\ Began(p) => /\ "intent" \in diagnostics[p] /\ probe[p].oci \in Reports
                 /\ containers[p] \in {None} \cup [image : {Image(p)}, status : {"created", "running", "exited"}]
                 /\ TagsOf(p) \subseteq {<<p, Image(p)>>}
                 /\ \A c \in LateOf(p) : c.image = Image(p)

(* As long as nothing failed, a probe knows what the daemon holds of its own. *)
Sound(p) == ~probe[p].failed /\ probe[p].pc \in Working \cup {"passed"}
Exited(p) == /\ containers[p] = [image |-> Image(p), status |-> "exited"]
             /\ ran[p] = Runs[Image(p)]
Seen(p) ==
  /\ Prints(ran[p]) = Expected.version /\ ran[p] = Runs[Image(p)]
  /\ archive[p] \in Archives
  /\ ~swapped[p] => archive[p] = probe[p].oci.archive

Tracked(p) ==
  Sound(p) =>
    /\ LateOf(p) = {}
    /\ probe[p].pc \in {"import", "check", "create", "cleanup_image", "outcome", "receipt", "passed"} =>
         containers[p] = None
    /\ probe[p].pc = "start" => containers[p] = [image |-> Image(p), status |-> "created"]
    /\ probe[p].pc = "attach" =>
         \/ containers[p] = [image |-> Image(p), status |-> "running"]
         \/ Exited(p)
    /\ probe[p].pc \in {"verify", "cleanup_container"} => Exited(p)
    /\ probe[p].pc \in {"cleanup_container", "cleanup_image", "outcome", "receipt", "passed"} => Seen(p)
    /\ probe[p].pc \in {"outcome", "receipt", "passed"} => TagsOf(p) = {}

Receipted(p) ==
  /\ receipt[p] = IF probe[p].pc = "passed" THEN probe[p].oci ELSE None
  /\ probe[p].pc \in {"receipt", "passed"} => ~probe[p].failed

ProbeInv(p) == OwnsItsImage(p) /\ Tracked(p) /\ Receipted(p)

SmokeInv == SmokeTypes /\ \A p \in Probes : ProbeInv(p)

-----------------------------------------------------------------------------
(* The build of an image and its probe.                                       *)
JobInv(p) ==
  /\ probe[p].pc # "idle" => job[p].pc \in {"built", "staged", "failed"}
  /\ job[p].pc = "built" /\ files[p] = Planned => inputs[p] = Planned
  /\ staged[p] # Unset => /\ job[p].pc = "staged" /\ probe[p].pc = "passed"
                          /\ staged[p] = archive[p] /\ inputs[p] = Planned
                          /\ MetadataAccepted(Content[staged[p]])

JobPhases == {"sync", "replace", "evidence", "check", "build", "built", "staged", "failed"}
Checkouts == [Files -> {"base", "planned", "edited"}]
BuildTypes ==
  /\ files \in [Jobs -> Checkouts] /\ DOMAIN inputs = Jobs
  /\ job \in [Jobs -> [pc : JobPhases, todo : SUBSET Files]]
  /\ DOMAIN evidence = Jobs /\ \A j \in Jobs : evidence[j] \in {Absent, Planned}
  /\ staged \in [Names -> Bytes \cup {Unset}]

(* What is released is what was staged, and what is served was released.      *)
Released == release # Unset => release = staged /\ \A n \in Names : staged[n] # Unset
ServedIsReleased ==
  \A n \in Names : tags[n][Version] \notin {Unset, Foreign} =>
    release # Unset /\ tags[n][Version] = release[n]

ImagesInv ==
  /\ SmokeInv /\ BuildTypes /\ (\A p \in Probes : JobInv(p))
  /\ RegistryInv /\ Released /\ ServedIsReleased

\* The invariant of a probe reads nothing but what is the probe's own.
LEMMA OwnIsAll ==
  ASSUME NEW p, ProbeInv(p), OwnVars(p)' = OwnVars(p)
  PROVE  ProbeInv(p)'
BY DEF ProbeInv, OwnsItsImage, Tracked, Receipted, Began, Sound, Exited, Seen, Image, OwnVars

Does == {"load", "create", "start", "rm", "untag"}
Stored == ImageIds \cup Popular
AnyContainer == [image : Stored, status : {"created", "running", "exited"}]
DaemonTypes == refs \subseteq Owners \X Stored /\ containers \in [Owners -> {None} \cup AnyContainer]

\* A container that is there is no None.
LEMMA ContainersAreSome ==
  ASSUME NEW i \in ImageIds, NEW s \in {"created", "running", "exited"}
  PROVE  [image |-> i, status |-> s] # None
BY SmokeAssumption DEF ImageIds

(* What each command does to the containers and the tags.                     *)
Effect(c) ==
  /\ c.do = "load" => containers' = containers /\ refs' = refs \cup {<<c.probe, c.image>>}
  /\ c.do = "create" =>
       /\ containers' = [containers EXCEPT ![c.probe] = [image |-> c.image, status |-> "created"]]
       /\ refs' = refs
  /\ c.do = "start" => /\ containers[c.probe] # None
                       /\ containers' = [containers EXCEPT ![c.probe].status = "running"]
                       /\ refs' = refs
  /\ c.do = "rm" => containers' = [containers EXCEPT ![c.probe] = None] /\ refs' = refs
  /\ c.do = "untag" => containers' = containers /\ refs' = refs \ {<<c.probe, c.image>>}

\* The effect of a command is all it does to them.
LEMMA AppliedOwn ==
  ASSUME DaemonTypes, NEW c, c.do \in Does, c.probe \in Owners, Applied(c)
  PROVE  Effect(c)
<1>1. CASE c.do = "load"
  BY <1>1 DEF Effect, Applied, Load
<1>2. CASE c.do = "create"
  BY <1>2 DEF Effect, Applied
<1>3. CASE c.do = "start"
  BY <1>3 DEF Effect, Applied
<1>4. CASE c.do = "rm"
  BY <1>4 DEF Effect, Applied
<1>5. CASE c.do = "untag"
  BY <1>5 DEF Effect, Applied, Untag
<1> QED
  BY <1>1, <1>2, <1>3, <1>4, <1>5 DEF Does, Effect

\* ... and nothing to what others have.
LEMMA AppliedFrame ==
  ASSUME DaemonTypes, NEW c, c.do \in Does, c.probe \in Owners,
         c.do # "rm" => c.image \in Stored, Applied(c)
  PROVE  /\ DaemonTypes'
         /\ \A o \in Owners \ {c.probe} : containers'[o] = containers[o] /\ TagsOf(o)' = TagsOf(o)
<1> Effect(c)
  BY AppliedOwn
<1>1. DaemonTypes'
  <2>1. refs' \subseteq Owners \X Stored
    BY DEF Effect, DaemonTypes, Does
  <2>2. containers' \in [Owners -> {None} \cup AnyContainer]
    <3>1. CASE c.do = "create"
      BY <3>1 DEF Effect, DaemonTypes, AnyContainer
    <3>2. CASE c.do = "start"
      <4>1. containers[c.probe] \in AnyContainer
        BY <3>2 DEF Effect, DaemonTypes
      <4>2. [containers[c.probe] EXCEPT !.status = "running"] \in AnyContainer
        BY <4>1 DEF AnyContainer
      <4> HIDE DEF AnyContainer
      <4> QED
        BY <3>2, <4>2 DEF Effect, DaemonTypes
    <3>3. CASE c.do \notin {"create", "start"}
      BY <3>3 DEF Effect, DaemonTypes, Does
    <3> QED
      BY <3>1, <3>2, <3>3
  <2> QED
    BY <2>1, <2>2 DEF DaemonTypes
<1>2. ASSUME NEW o \in Owners \ {c.probe}
      PROVE  containers'[o] = containers[o] /\ TagsOf(o)' = TagsOf(o)
  <2>1. containers'[o] = containers[o]
    BY DEF Effect, DaemonTypes, Does
  <2>2. \A r : r[1] = o => (r \in refs' <=> r \in refs)
    BY DEF Effect, Does
  <2> QED
    BY <2>1, <2>2 DEF TagsOf
<1> QED
  BY <1>1, <1>2

\* The command of a probe is one about its own image, and every one it may send.
LEMMA AskIsCommand ==
  ASSUME SmokeTypes, NEW p \in Probes, Began(p), OwnsItsImage(p), NEW do \in Does
  PROVE  /\ Image(p) \in ImageIds /\ Ask(p, do) \in CommandType
         /\ Ask(p, do).do = do /\ Ask(p, do).probe = p /\ Ask(p, do).image = Image(p)
<1>1. probe[p].oci \in Reports
  BY DEF OwnsItsImage
<1>2. Image(p) \in ImageIds
  BY <1>1 DEF Image, ImageIds, Reports
<1> QED
  BY <1>2 DEF Ask, CommandType, Does

(* What a command of a probe may have done, answered or not.                  *)
Touches(p) ==
  \/ (\E do \in Does : Applied(Ask(p, do))) /\ UNCHANGED late
  \/ UNCHANGED <<containers, refs, late>>
  \/ UNCHANGED <<containers, refs>> /\ \E do \in Does : late' = late \cup {Ask(p, do)}

OwnDaemon(p) == <<containers[p], TagsOf(p), LateOf(p)>>

\* The types are those of the daemon and those of the probes.
LEMMA TypesApart ==
  SmokeTypes <=> /\ DaemonTypes /\ late \subseteq CommandType
                 /\ probe \in [Probes -> ProbeType]
                 /\ archive \in [Probes -> Archives \cup {None}]
                 /\ DOMAIN diagnostics = Probes /\ DOMAIN receipt = Probes /\ DOMAIN ran = Probes
                 /\ DOMAIN swapped = Probes
BY DEF SmokeTypes, DaemonTypes, AnyContainer, Stored

\* A command of a probe, whatever becomes of it, leaves the probe with nothing
\* but its own image and the other probes with all they have.
LEMMA TouchesOwn ==
  ASSUME SmokeTypes, NEW p \in Probes, Began(p), OwnsItsImage(p), Touches(p)
  PROVE  /\ DaemonTypes' /\ late' \subseteq CommandType
         /\ \A q \in Probes \ {p} : OwnDaemon(q)' = OwnDaemon(q)
         /\ containers'[p] \in {None} \cup [image : {Image(p)}, status : {"created", "running", "exited"}]
         /\ TagsOf(p)' \subseteq {<<p, Image(p)>>}
         /\ \A c \in LateOf(p)' : c.image = Image(p)
<1> DEFINE Mine == [image : {Image(p)}, status : {"created", "running", "exited"}]
<1>1. DaemonTypes /\ late \subseteq CommandType
  BY TypesApart
<1>2. /\ containers[p] \in {None} \cup Mine /\ TagsOf(p) \subseteq {<<p, Image(p)>>}
      /\ \A c \in LateOf(p) : c.image = Image(p)
  BY DEF OwnsItsImage
<1>3. Image(p) \in ImageIds
  BY AskIsCommand DEF Does
<1>4. p \in Owners /\ Probes \subseteq Owners
  BY DEF Owners
<1>5. ASSUME NEW do \in Does, Applied(Ask(p, do)), UNCHANGED late
      PROVE  /\ DaemonTypes' /\ late' \subseteq CommandType
             /\ \A q \in Probes \ {p} : OwnDaemon(q)' = OwnDaemon(q)
             /\ containers'[p] \in {None} \cup Mine
             /\ TagsOf(p)' \subseteq {<<p, Image(p)>>}
             /\ \A c \in LateOf(p)' : c.image = Image(p)
  <2> DEFINE c == Ask(p, do)
  <2>1. c.do \in Does /\ c.probe = p /\ c.image = Image(p) /\ c.image \in Stored
    BY <1>3, AskIsCommand DEF Stored
  <2> HIDE DEF c
  <2>2. Applied(c)
    BY <1>5 DEF c
  <2> Effect(c)
    BY <1>1, <1>4, <2>1, <2>2, AppliedOwn
  <2>3. DaemonTypes' /\ \A o \in Owners \ {p} : containers'[o] = containers[o] /\ TagsOf(o)' = TagsOf(o)
    BY <1>1, <1>4, <2>1, <2>2, AppliedFrame
  <2>4. \A q : LateOf(q)' = LateOf(q)
    BY <1>5 DEF LateOf
  <2>5. containers'[p] \in {None} \cup Mine
    <3>1. p \in DOMAIN containers
      BY <1>1, <1>4 DEF DaemonTypes
    <3>2. CASE c.do = "create"
      BY <1>1, <1>4, <2>1, <2>2, <3>1, <3>2 DEF Effect
    <3>3. CASE c.do = "start"
      <4>1. containers[p] \in Mine /\ containers'[p] = [containers[p] EXCEPT !.status = "running"]
        <5> HIDE DEF Mine
        <5> QED
          BY <1>1, <1>2, <1>4, <2>1, <2>2, <3>1, <3>3 DEF Effect
      <4> QED
        BY <4>1
    <3>4. CASE c.do \in {"load", "rm", "untag"}
      <4> HIDE DEF Mine
      <4> QED
        BY <1>1, <1>2, <1>4, <2>1, <2>2, <3>1, <3>4 DEF Effect
    <3> QED
      BY <2>1, <3>2, <3>3, <3>4 DEF Does
  <2>6. TagsOf(p)' \subseteq {<<p, Image(p)>>}
    <3>1. refs' \subseteq refs \cup {<<p, Image(p)>>}
      BY <1>1, <1>4, <2>1, <2>2 DEF Effect, Does
    <3> QED
      BY <1>2, <3>1 DEF TagsOf
  <2> QED
    BY <1>1, <1>2, <1>4, <1>5, <2>3, <2>4, <2>5, <2>6 DEF OwnDaemon
<1>6. ASSUME UNCHANGED <<containers, refs>>
      PROVE  /\ DaemonTypes' /\ \A q : TagsOf(q)' = TagsOf(q)
             /\ \A q \in Probes \ {p} : LateOf(q)' = LateOf(q) => OwnDaemon(q)' = OwnDaemon(q)
  BY <1>1, <1>6 DEF DaemonTypes, TagsOf, OwnDaemon
<1>7. CASE UNCHANGED <<containers, refs, late>>
  <2>1. \A q : LateOf(q)' = LateOf(q)
    BY <1>7 DEF LateOf
  <2> QED
    BY <1>1, <1>2, <1>6, <1>7, <2>1
<1>8. ASSUME NEW do \in Does, UNCHANGED <<containers, refs>>, late' = late \cup {Ask(p, do)}
      PROVE  /\ DaemonTypes' /\ late' \subseteq CommandType
             /\ \A q \in Probes \ {p} : OwnDaemon(q)' = OwnDaemon(q)
             /\ containers'[p] \in {None} \cup Mine
             /\ TagsOf(p)' \subseteq {<<p, Image(p)>>}
             /\ \A c \in LateOf(p)' : c.image = Image(p)
  <2>1. Ask(p, do) \in CommandType /\ Ask(p, do).probe = p /\ Ask(p, do).image = Image(p)
    BY <1>8, AskIsCommand
  <2>2. \A q \in Probes \ {p} : LateOf(q)' = LateOf(q)
    BY <1>8, <2>1 DEF LateOf
  <2>3. \A c \in LateOf(p)' : c.image = Image(p)
    BY <1>2, <1>8, <2>1 DEF LateOf
  <2> QED
    BY <1>1, <1>2, <1>6, <1>8, <2>1, <2>2, <2>3
<1> QED
  BY <1>5, <1>7, <1>8 DEF Touches

-----------------------------------------------------------------------------
(* The steps of a probe.                                                      *)

Rest == <<archive, diagnostics, receipt, ran, swapped>>

\* A step of a probe leaves the others their own; it is enough to look at it.
LEMMA OneProbeMoves ==
  ASSUME SmokeInv, NEW p \in Probes, SmokeTypes', ProbeInv(p)',
         \A q \in Probes \ {p} : OwnVars(q)' = OwnVars(q)
  PROVE  SmokeInv'
<1>1. \A q \in Probes \ {p} : ProbeInv(q)'
  BY OwnIsAll DEF SmokeInv
<1> QED
  BY <1>1 DEF SmokeInv

\* ... when only its record and what its command touches change.
LEMMA CommandMoves ==
  ASSUME SmokeInv, NEW p \in Probes, Began(p), Touches(p), UNCHANGED Rest,
         NEW to \in ProbeType, probe' = [probe EXCEPT ![p] = to],
         to.oci = probe[p].oci, to.pc \notin {"idle", "refused"}, Tracked(p)', Receipted(p)'
  PROVE  SmokeInv'
<1>1. SmokeTypes /\ OwnsItsImage(p)
  BY DEF SmokeInv, ProbeInv
<1>2. probe \in [Probes -> ProbeType]
  BY <1>1, TypesApart
<1>3. SmokeTypes'
  BY <1>1, <1>2, TouchesOwn DEF Rest, SmokeTypes, DaemonTypes, AnyContainer, Stored
<1>4. probe'[p] = to
  BY <1>2
<1>5. OwnsItsImage(p)'
  <2>1. Image(p)' = Image(p)
    BY <1>4 DEF Image
  <2>2. Began(p)'
    BY <1>4 DEF Began
  <2> QED
    BY <1>1, <1>4, <2>1, <2>2, TouchesOwn DEF OwnsItsImage, Rest
<1>6. ASSUME NEW q \in Probes \ {p} PROVE OwnVars(q)' = OwnVars(q)
  <2>1. OwnDaemon(q)' = OwnDaemon(q)
    BY <1>1, TouchesOwn
  <2>2. probe'[q] = probe[q]
    BY <1>2
  <2> QED
    BY <2>1, <2>2 DEF OwnVars, OwnDaemon, Rest
<1> QED
  BY <1>3, <1>5, <1>6, OneProbeMoves DEF ProbeInv

\* A probe that fails goes on to clean up, and nothing more is known of what it
\* left with the daemon (runtime's except clause).
LEMMA FailureKeepsInv ==
  ASSUME SmokeInv, NEW p \in Probes, Began(p), Touches(p), UNCHANGED Rest,
         probe[p].pc # "passed",
         NEW next \in {"cleanup_container", "cleanup_image", "outcome", "failed"},
         probe' = Fails(p, next)
  PROVE  SmokeInv'
<1> DEFINE to == [probe[p] EXCEPT !.failed = TRUE, !.pc = next]
<1>1. probe[p] \in ProbeType /\ probe \in [Probes -> ProbeType]
  BY TypesApart DEF SmokeInv
<1>2. /\ to \in ProbeType /\ to.oci = probe[p].oci /\ to.pc = next /\ to.failed
      /\ probe' = [probe EXCEPT ![p] = to]
  BY <1>1 DEF ProbeType, Fails, Working, Ended
<1>3. probe'[p] = to
  BY <1>1, <1>2
<1>4. Receipted(p)
  BY DEF SmokeInv, ProbeInv
<1> HIDE DEF to
<1>5. Tracked(p)'
  BY <1>2, <1>3 DEF Tracked, Sound
<1>6. Receipted(p)'
  BY <1>2, <1>3, <1>4 DEF Receipted, Rest
<1> QED
  BY <1>2, <1>5, <1>6, CommandMoves

\* A probe that goes on without failing.
LEMMA GoesKeepsInv ==
  ASSUME SmokeInv, NEW p \in Probes, Began(p), Touches(p), UNCHANGED Rest,
         NEW to \in ProbeType, probe' = [probe EXCEPT ![p] = to],
         to.oci = probe[p].oci, to.failed = probe[p].failed,
         probe[p].pc \in Working, to.pc \in Working \ {"receipt"},
         Sound(p) => Tracked(p)'
  PROVE  SmokeInv'
<1>1. probe'[p] = to
  BY TypesApart DEF SmokeInv
<1>2. Receipted(p)'
  BY <1>1 DEF SmokeInv, ProbeInv, Receipted, Rest, Working
<1>3. Tracked(p)'
  <2>1. Sound(p)' => Sound(p)
    BY <1>1 DEF Sound
  <2> QED
    BY <2>1 DEF Tracked
<1>4. to.pc \notin {"idle", "refused"}
  BY DEF Working
<1> QED
  BY <1>2, <1>3, <1>4, CommandMoves

\* bounded_command: the answer that counts, or anything else.
LEMMA CommandCases ==
  ASSUME NEW p, NEW do \in Does, NEW success, NEW failure,
         Command(p, Ask(p, do), success, failure)
  PROVE  \/ Applied(Ask(p, do)) /\ probe' = success /\ UNCHANGED late
         \/ Touches(p) /\ probe' = failure
BY DEF Command, Touches, daemon

\* What a probe's answered command did to its own.
LEMMA AnsweredOwn ==
  ASSUME SmokeInv, NEW p \in Probes, Began(p), NEW do \in Does, Applied(Ask(p, do)), UNCHANGED late
  PROVE  /\ Touches(p) /\ LateOf(p)' = LateOf(p)
         /\ do = "load" => containers'[p] = containers[p]
         /\ do = "create" => containers'[p] = [image |-> Image(p), status |-> "created"]
         /\ do = "start" => containers'[p] = [containers[p] EXCEPT !.status = "running"]
         /\ do = "rm" => containers'[p] = None /\ TagsOf(p)' = TagsOf(p)
         /\ do = "untag" => containers'[p] = containers[p] /\ TagsOf(p)' = TagsOf(p) \ {<<p, Image(p)>>}
<1>1. /\ Ask(p, do).do = do /\ Ask(p, do).probe = p /\ Ask(p, do).image = Image(p)
      /\ DaemonTypes /\ p \in Owners
  BY AskIsCommand, TypesApart DEF SmokeInv, ProbeInv, Owners
<1>2. Effect(Ask(p, do))
  BY <1>1, AppliedOwn
<1>3. p \in DOMAIN containers
  BY <1>1 DEF DaemonTypes
<1>4. Touches(p)
  BY DEF Touches
<1>5. LateOf(p)' = LateOf(p)
  BY DEF LateOf
<1> QED
  BY <1>1, <1>2, <1>3, <1>4, <1>5 DEF Effect, TagsOf

\* Nothing done is one of the things a command may have done.
LEMMA LocalTouches ==
  ASSUME NEW p, Local(p)
  PROVE  /\ Touches(p) /\ LateOf(p)' = LateOf(p) /\ TagsOf(p)' = TagsOf(p)
         /\ containers' = containers
BY DEF Local, Touches, LateOf, TagsOf

\* The records that a probe goes on with.
LEMMA NextRecords ==
  ASSUME SmokeInv, NEW p \in Probes, NEW next \in Working \cup Ended
  PROVE  /\ [probe[p] EXCEPT !.pc = next] \in ProbeType
         /\ [probe[p] EXCEPT !.imported = TRUE, !.pc = next] \in ProbeType
         /\ [probe[p] EXCEPT !.known = TRUE, !.pc = next] \in ProbeType
         /\ Goes(p, next) = [probe EXCEPT ![p] = [probe[p] EXCEPT !.pc = next]]
         /\ [probe EXCEPT ![p].imported = TRUE, ![p].pc = next] =
              [probe EXCEPT ![p] = [probe[p] EXCEPT !.imported = TRUE, !.pc = next]]
         /\ [probe EXCEPT ![p].known = TRUE, ![p].pc = next] =
              [probe EXCEPT ![p] = [probe[p] EXCEPT !.known = TRUE, !.pc = next]]
         /\ probe[p] \in ProbeType /\ p \in DOMAIN probe
<1>1. probe \in [Probes -> ProbeType]
  BY TypesApart DEF SmokeInv
<1> QED
  BY <1>1 DEF ProbeType, Goes

\* One that goes on to a record with nothing new in what the invariant reads.
LEMMA OnwardRecord ==
  ASSUME SmokeInv, NEW p \in Probes, NEW next \in Working \ {"receipt"},
         NEW to \in {[probe[p] EXCEPT !.pc = next], [probe[p] EXCEPT !.imported = TRUE, !.pc = next],
                     [probe[p] EXCEPT !.known = TRUE, !.pc = next]}
  PROVE  /\ to \in ProbeType /\ to.oci = probe[p].oci /\ to.failed = probe[p].failed
         /\ to.pc = next /\ to.oci.image = Image(p)
<1>1. probe[p] \in ProbeType
  BY TypesApart DEF SmokeInv
<1> QED
  BY <1>1 DEF ProbeType, Image

\* A load that is answered leaves the container, and gives the probe its tag.
LEMMA ImportKeepsInv == ASSUME SmokeInv, NEW p \in Probes, Import(p) PROVE SmokeInv'
<1>1. Began(p) /\ UNCHANGED Rest /\ probe[p].pc = "import" /\ probe[p].pc \in Working
  BY DEF Import, Began, Rest, Working
<1>2. CASE Touches(p) /\ probe' = Fails(p, "cleanup_container")
  BY <1>1, <1>2, FailureKeepsInv
<1>3. CASE /\ Applied(Ask(p, "load")) /\ UNCHANGED late
           /\ probe' = [probe EXCEPT ![p].imported = TRUE, ![p].pc = "check"]
  <2> DEFINE to == [probe[p] EXCEPT !.imported = TRUE, !.pc = "check"]
  <2>1. Touches(p) /\ LateOf(p)' = LateOf(p) /\ containers'[p] = containers[p]
    BY <1>1, <1>3, AnsweredOwn DEF Does
  <2>2. /\ to \in ProbeType /\ to.oci = probe[p].oci /\ to.failed = probe[p].failed
        /\ to.pc = "check"
    BY OnwardRecord DEF Working
  <2>3. probe' = [probe EXCEPT ![p] = to] /\ probe'[p] = to
    BY <1>3, NextRecords DEF Working
  <2> HIDE DEF to
  <2>4. Sound(p) => Tracked(p)'
    BY <1>1, <2>1, <2>2, <2>3 DEF SmokeInv, ProbeInv, Tracked
  <2> QED
    BY <1>1, <2>1, <2>2, <2>3, <2>4, GoesKeepsInv DEF Working
<1>4. CASE ~Wrapped(p) /\ probe' = Fails(p, "cleanup_container") /\ Local(p)
  BY <1>2, <1>4, LocalTouches
<1> QED
  BY <1>2, <1>3, <1>4, CommandCases DEF Import, Does

\* validate_runtime_image leaves everything as it is.
LEMMA CheckKeepsInv == ASSUME SmokeInv, NEW p \in Probes, Check(p) PROVE SmokeInv'
<1>1. Began(p) /\ UNCHANGED Rest /\ probe[p].pc = "check" /\ probe[p].pc \in Working
  BY DEF Check, Began, Rest, Working
<1>2. CASE Touches(p) /\ probe' = Fails(p, "cleanup_container")
  BY <1>1, <1>2, FailureKeepsInv
<1>3. CASE /\ Local(p)
           /\ probe' = Goes(p, "create")
  <2> DEFINE to == [probe[p] EXCEPT !.pc = "create"]
  <2>1. Touches(p) /\ LateOf(p)' = LateOf(p) /\ containers'[p] = containers[p] /\ TagsOf(p)' = TagsOf(p)
    BY <1>3, LocalTouches
  <2>2. /\ to \in ProbeType /\ to.oci = probe[p].oci /\ to.failed = probe[p].failed
        /\ to.pc = "create"
    BY OnwardRecord DEF Working
  <2>3. probe' = [probe EXCEPT ![p] = to] /\ probe'[p] = to
    BY <1>3, NextRecords DEF Working, Goes
  <2>4. Image(p)' = Image(p) /\ OwnsItsImage(p) /\ Tracked(p) /\ Image(p) \in ImageIds
    BY <1>1, <2>2, <2>3, AskIsCommand DEF Image, SmokeInv, ProbeInv, Does
  <2> HIDE DEF to
  <2>5. Sound(p) => Tracked(p)'
    BY <1>1, <1>3, <2>1, <2>2, <2>3, <2>4, ContainersAreSome DEF Tracked
  <2> QED
    BY <1>1, <2>1, <2>2, <2>3, <2>5, GoesKeepsInv DEF Working
<1> QED
  BY <1>2, <1>3, LocalTouches DEF Check

\* A create that is answered has made the container.
LEMMA CreateKeepsInv == ASSUME SmokeInv, NEW p \in Probes, Create(p) PROVE SmokeInv'
<1>1. Began(p) /\ UNCHANGED Rest /\ probe[p].pc = "create" /\ probe[p].pc \in Working
  BY DEF Create, Began, Rest, Working
<1>2. CASE Touches(p) /\ probe' = Fails(p, "cleanup_container")
  BY <1>1, <1>2, FailureKeepsInv
<1>3. CASE /\ Applied(Ask(p, "create")) /\ UNCHANGED late
           /\ probe' = [probe EXCEPT ![p].known = TRUE, ![p].pc = "start"]
  <2> DEFINE to == [probe[p] EXCEPT !.known = TRUE, !.pc = "start"]
  <2>1. Touches(p) /\ LateOf(p)' = LateOf(p) /\ containers'[p] = [image |-> Image(p), status |-> "created"]
    BY <1>1, <1>3, AnsweredOwn DEF Does
  <2>2. /\ to \in ProbeType /\ to.oci = probe[p].oci /\ to.failed = probe[p].failed
        /\ to.pc = "start"
    BY OnwardRecord DEF Working
  <2>3. probe' = [probe EXCEPT ![p] = to] /\ probe'[p] = to
    BY <1>3, NextRecords DEF Working, Goes
  <2>4. Image(p)' = Image(p) /\ OwnsItsImage(p) /\ Tracked(p) /\ Image(p) \in ImageIds
    BY <1>1, <2>2, <2>3, AskIsCommand DEF Image, SmokeInv, ProbeInv, Does
  <2> HIDE DEF to
  <2>5. Sound(p) => Tracked(p)'
    BY <1>1, <1>3, <2>1, <2>2, <2>3, <2>4, ContainersAreSome DEF Tracked
  <2> QED
    BY <1>1, <2>1, <2>2, <2>3, <2>5, GoesKeepsInv DEF Working
<1> QED
  BY <1>2, <1>3, CommandCases DEF Create, Does

\* A start that is answered has started it.
LEMMA StartKeepsInv == ASSUME SmokeInv, NEW p \in Probes, Start(p) PROVE SmokeInv'
<1>1. Began(p) /\ UNCHANGED Rest /\ probe[p].pc = "start" /\ probe[p].pc \in Working
  BY DEF Start, Began, Rest, Working
<1>2. CASE Touches(p) /\ probe' = Fails(p, "cleanup_container")
  BY <1>1, <1>2, FailureKeepsInv
<1>3. CASE /\ Applied(Ask(p, "start")) /\ UNCHANGED late
           /\ probe' = Goes(p, "attach")
  <2> DEFINE to == [probe[p] EXCEPT !.pc = "attach"]
  <2>1. Touches(p) /\ LateOf(p)' = LateOf(p) /\ containers'[p] = [containers[p] EXCEPT !.status = "running"]
    BY <1>1, <1>3, AnsweredOwn DEF Does
  <2>2. /\ to \in ProbeType /\ to.oci = probe[p].oci /\ to.failed = probe[p].failed
        /\ to.pc = "attach"
    BY OnwardRecord DEF Working
  <2>3. probe' = [probe EXCEPT ![p] = to] /\ probe'[p] = to
    BY <1>3, NextRecords DEF Working, Goes
  <2>4. Image(p)' = Image(p) /\ OwnsItsImage(p) /\ Tracked(p) /\ Image(p) \in ImageIds
    BY <1>1, <2>2, <2>3, AskIsCommand DEF Image, SmokeInv, ProbeInv, Does
  <2> HIDE DEF to
  <2>5. Sound(p) => Tracked(p)'
    BY <1>1, <1>3, <2>1, <2>2, <2>3, <2>4, ContainersAreSome DEF Tracked
  <2> QED
    BY <1>1, <2>1, <2>2, <2>3, <2>5, GoesKeepsInv DEF Working
<1> QED
  BY <1>2, <1>3, CommandCases DEF Start, Does

\* The container that start waited for has run the image of the archive.
LEMMA AttachKeepsInv == ASSUME SmokeInv, NEW p \in Probes, Attach(p) PROVE SmokeInv'
<1>1. Began(p) /\ UNCHANGED Rest /\ probe[p].pc = "attach" /\ probe[p].pc \in Working
  BY DEF Attach, Began, Rest, Working
<1>2. CASE Touches(p) /\ probe' = Fails(p, "cleanup_container")
  BY <1>1, <1>2, FailureKeepsInv
<1>3. CASE /\ Local(p) /\ containers[p] # None /\ containers[p].status = "exited"
           /\ UNCHANGED Rest
           /\ probe' = Goes(p, "verify")
  <2> DEFINE to == [probe[p] EXCEPT !.pc = "verify"]
  <2>1. Touches(p) /\ LateOf(p)' = LateOf(p) /\ containers'[p] = containers[p] /\ TagsOf(p)' = TagsOf(p)
    BY <1>3, LocalTouches
  <2>2. /\ to \in ProbeType /\ to.oci = probe[p].oci /\ to.failed = probe[p].failed
        /\ to.pc = "verify"
    BY OnwardRecord DEF Working
  <2>3. probe' = [probe EXCEPT ![p] = to] /\ probe'[p] = to
    BY <1>3, NextRecords DEF Working, Goes
  <2>4. Image(p)' = Image(p) /\ OwnsItsImage(p) /\ Tracked(p) /\ Image(p) \in ImageIds
    BY <1>1, <2>2, <2>3, AskIsCommand DEF Image, SmokeInv, ProbeInv, Does
  <2> HIDE DEF to
  <2>5. Sound(p) => Tracked(p)'
    BY <1>1, <1>3, <2>1, <2>2, <2>3, <2>4, ContainersAreSome DEF Tracked, Exited, Rest
  <2> QED
    BY <1>1, <2>1, <2>2, <2>3, <2>5, GoesKeepsInv DEF Working
<1> QED
  BY <1>1, <1>2, <1>3, LocalTouches DEF Attach

\* A report names the archive it is of.
LEMMA ReportsName == ASSUME NEW oci \in Reports PROVE oci.archive \in InspectedArchives /\ oci.archive \in Archives
<1>1. PICK a \in InspectedArchives : oci = Report[a]
  BY DEF Reports
<1>2. Report[a].archive = a
  BY <1>1 DEF Report
<1> QED
  BY <1>1, <1>2 DEF InspectedArchives

\* What verification has seen stays true: the archive is not written any more.
LEMMA VerifyKeepsInv == ASSUME SmokeInv, NEW p \in Probes, Verify(p) PROVE SmokeInv'
<1>1. Began(p) /\ UNCHANGED Rest /\ probe[p].pc = "verify" /\ probe[p].pc \in Working
  BY DEF Verify, Began, Rest, Working
<1>2. CASE Touches(p) /\ probe' = Fails(p, "cleanup_container")
  BY <1>1, <1>2, FailureKeepsInv
<1>3. CASE /\ Local(p) /\ Verified(p) /\ UNCHANGED Rest
           /\ probe' = Goes(p, "cleanup_container")
  <2> DEFINE to == [probe[p] EXCEPT !.pc = "cleanup_container"]
  <2>1. Touches(p) /\ LateOf(p)' = LateOf(p) /\ containers'[p] = containers[p] /\ TagsOf(p)' = TagsOf(p)
    BY <1>3, LocalTouches
  <2>2. /\ to \in ProbeType /\ to.oci = probe[p].oci /\ to.failed = probe[p].failed
        /\ to.pc = "cleanup_container"
    BY OnwardRecord DEF Working
  <2>3. probe' = [probe EXCEPT ![p] = to] /\ probe'[p] = to
    BY <1>3, NextRecords DEF Working, Goes
  <2>4. Image(p)' = Image(p) /\ OwnsItsImage(p) /\ Tracked(p) /\ Image(p) \in ImageIds
    BY <1>1, <2>2, <2>3, AskIsCommand DEF Image, SmokeInv, ProbeInv, Does
  <2> HIDE DEF to
  <2>5. archive[p] = probe[p].oci.archive /\ archive[p] \in Archives
    BY <1>1, <1>3, <2>4, ReportsName DEF Verified, OwnsItsImage
  <2>6. Sound(p) => Tracked(p)'
    BY <1>1, <1>3, <2>1, <2>2, <2>3, <2>4, <2>5, ContainersAreSome DEF Tracked, Exited, Seen, Verified, Rest
  <2> QED
    BY <1>1, <2>1, <2>2, <2>3, <2>6, GoesKeepsInv DEF Working
<1> QED
  BY <1>1, <1>2, <1>3, LocalTouches DEF Verify

\* A sound probe has a container to remove, and it is gone when rm is answered.
LEMMA CleanupContainerKeepsInv == ASSUME SmokeInv, NEW p \in Probes, CleanupContainer(p) PROVE SmokeInv'
<1>1. Began(p) /\ UNCHANGED Rest /\ probe[p].pc = "cleanup_container" /\ probe[p].pc \in Working
  BY DEF CleanupContainer, Began, Rest, Working
<1>2. CASE Touches(p) /\ probe' = Fails(p, "cleanup_image")
  BY <1>1, <1>2, FailureKeepsInv
<1>3. CASE /\ Local(p) /\ containers[p] = None /\ UNCHANGED Rest
           /\ probe' = Goes(p, "cleanup_image")
  <2> DEFINE to == [probe[p] EXCEPT !.pc = "cleanup_image"]
  <2>1. Touches(p) /\ LateOf(p)' = LateOf(p) /\ containers'[p] = containers[p] /\ TagsOf(p)' = TagsOf(p)
    BY <1>3, LocalTouches
  <2>2. /\ to \in ProbeType /\ to.oci = probe[p].oci /\ to.failed = probe[p].failed
        /\ to.pc = "cleanup_image"
    BY OnwardRecord DEF Working
  <2>3. probe' = [probe EXCEPT ![p] = to] /\ probe'[p] = to
    BY <1>3, NextRecords DEF Working, Goes
  <2>4. Image(p)' = Image(p) /\ OwnsItsImage(p) /\ Tracked(p) /\ Image(p) \in ImageIds
    BY <1>1, <2>2, <2>3, AskIsCommand DEF Image, SmokeInv, ProbeInv, Does
  <2> HIDE DEF to
  <2>5. Sound(p) => Tracked(p)'
    BY <1>1, <1>3, <2>1, <2>2, <2>3, <2>4, ContainersAreSome DEF Tracked, Exited, Seen, Rest
  <2> QED
    BY <1>1, <2>1, <2>2, <2>3, <2>5, GoesKeepsInv DEF Working
<1>4. CASE /\ Applied(Ask(p, "rm")) /\ UNCHANGED late /\ UNCHANGED Rest
           /\ probe' = [probe EXCEPT ![p].known = TRUE, ![p].pc = "cleanup_image"]
  <2> DEFINE to == [probe[p] EXCEPT !.known = TRUE, !.pc = "cleanup_image"]
  <2>1. Touches(p) /\ LateOf(p)' = LateOf(p) /\ containers'[p] = None /\ TagsOf(p)' = TagsOf(p)
    BY <1>1, <1>4, AnsweredOwn DEF Does
  <2>2. /\ to \in ProbeType /\ to.oci = probe[p].oci /\ to.failed = probe[p].failed
        /\ to.pc = "cleanup_image"
    BY OnwardRecord DEF Working
  <2>3. probe' = [probe EXCEPT ![p] = to] /\ probe'[p] = to
    BY <1>4, NextRecords DEF Working, Goes
  <2>4. Image(p)' = Image(p) /\ OwnsItsImage(p) /\ Tracked(p) /\ Image(p) \in ImageIds
    BY <1>1, <2>2, <2>3, AskIsCommand DEF Image, SmokeInv, ProbeInv, Does
  <2> HIDE DEF to
  <2>5. Sound(p) => Tracked(p)'
    BY <1>1, <1>4, <2>1, <2>2, <2>3, <2>4, ContainersAreSome DEF Tracked, Exited, Seen, Rest
  <2> QED
    BY <1>1, <2>1, <2>2, <2>3, <2>5, GoesKeepsInv DEF Working
<1> QED
  BY <1>1, <1>2, <1>3, <1>4, LocalTouches, CommandCases DEF CleanupContainer, Does

\* Its tag is gone when cleanup_image succeeds.
LEMMA CleanupImageKeepsInv == ASSUME SmokeInv, NEW p \in Probes, CleanupImage(p) PROVE SmokeInv'
<1>1. Began(p) /\ UNCHANGED Rest /\ probe[p].pc = "cleanup_image" /\ probe[p].pc \in Working
  BY DEF CleanupImage, Began, Rest, Working
<1>2. CASE Touches(p) /\ probe' = Fails(p, "outcome")
  BY <1>1, <1>2, FailureKeepsInv
<1>3. CASE /\ Local(p) /\ <<p, Image(p)>> \notin refs /\ UNCHANGED Rest
           /\ probe' = Goes(p, "outcome")
  <2> DEFINE to == [probe[p] EXCEPT !.pc = "outcome"]
  <2>1. Touches(p) /\ LateOf(p)' = LateOf(p) /\ containers'[p] = containers[p] /\ TagsOf(p)' = TagsOf(p)
    BY <1>3, LocalTouches
  <2>2. /\ to \in ProbeType /\ to.oci = probe[p].oci /\ to.failed = probe[p].failed
        /\ to.pc = "outcome"
    BY OnwardRecord DEF Working
  <2>3. probe' = [probe EXCEPT ![p] = to] /\ probe'[p] = to
    BY <1>3, NextRecords DEF Working, Goes
  <2>4. Image(p)' = Image(p) /\ OwnsItsImage(p) /\ Tracked(p) /\ Image(p) \in ImageIds
    BY <1>1, <2>2, <2>3, AskIsCommand DEF Image, SmokeInv, ProbeInv, Does
  <2> HIDE DEF to
  <2>5. Sound(p) => Tracked(p)'
    BY <1>1, <1>3, <2>1, <2>2, <2>3, <2>4, ContainersAreSome DEF Tracked, Seen, Rest, OwnsItsImage, TagsOf
  <2> QED
    BY <1>1, <2>1, <2>2, <2>3, <2>5, GoesKeepsInv DEF Working
<1>4. CASE /\ Applied(Ask(p, "untag")) /\ UNCHANGED late /\ UNCHANGED Rest
           /\ probe' = Goes(p, "outcome")
  <2> DEFINE to == [probe[p] EXCEPT !.pc = "outcome"]
  <2>1. Touches(p) /\ LateOf(p)' = LateOf(p) /\ containers'[p] = containers[p]
        /\ TagsOf(p)' = TagsOf(p) \ {<<p, Image(p)>>}
    BY <1>1, <1>4, AnsweredOwn DEF Does
  <2>2. /\ to \in ProbeType /\ to.oci = probe[p].oci /\ to.failed = probe[p].failed
        /\ to.pc = "outcome"
    BY OnwardRecord DEF Working
  <2>3. probe' = [probe EXCEPT ![p] = to] /\ probe'[p] = to
    BY <1>4, NextRecords DEF Working, Goes
  <2>4. Image(p)' = Image(p) /\ OwnsItsImage(p) /\ Tracked(p) /\ Image(p) \in ImageIds
    BY <1>1, <2>2, <2>3, AskIsCommand DEF Image, SmokeInv, ProbeInv, Does
  <2> HIDE DEF to
  <2>5. Sound(p) => Tracked(p)'
    BY <1>1, <1>4, <2>1, <2>2, <2>3, <2>4, ContainersAreSome DEF Tracked, Seen, Rest, OwnsItsImage
  <2> QED
    BY <1>1, <2>1, <2>2, <2>3, <2>5, GoesKeepsInv DEF Working
<1> QED
  BY <1>1, <1>2, <1>3, <1>4, LocalTouches, CommandCases DEF CleanupImage, Does

\* A step without a command changes what is the probe's in the workspace only.
LEMMA LocalMoves ==
  ASSUME SmokeInv, NEW p \in Probes, Local(p), NEW to \in ProbeType, probe' = [probe EXCEPT ![p] = to],
         archive' \in [Probes -> Archives \cup {None}],
         DOMAIN diagnostics' = Probes, DOMAIN receipt' = Probes, ran' = ran, DOMAIN swapped' = Probes,
         \A q \in Probes \ {p} : /\ archive'[q] = archive[q] /\ diagnostics'[q] = diagnostics[q]
                                 /\ receipt'[q] = receipt[q] /\ swapped'[q] = swapped[q],
         ProbeInv(p)'
  PROVE  SmokeInv'
<1>1. SmokeTypes /\ probe \in [Probes -> ProbeType]
  BY TypesApart DEF SmokeInv
<1>2. SmokeTypes'
  BY <1>1 DEF SmokeTypes, Local
<1>3. ASSUME NEW q \in Probes \ {p} PROVE OwnVars(q)' = OwnVars(q)
  <2>1. probe'[q] = probe[q]
    BY <1>1
  <2>2. TagsOf(q)' = TagsOf(q) /\ LateOf(q)' = LateOf(q) /\ containers' = containers
    BY DEF TagsOf, LateOf, Local
  <2> QED
    BY <2>1, <2>2 DEF OwnVars
<1> QED
  BY <1>2, <1>3, OneProbeMoves

\* The outcome is written beside the intent.
LEMMA WriteOutcomeKeepsInv == ASSUME SmokeInv, NEW p \in Probes, WriteOutcome(p) PROVE SmokeInv'
<1> DEFINE next == IF probe[p].failed THEN "failed" ELSE "receipt"
           to == [probe[p] EXCEPT !.pc = next]
<1>1. /\ Began(p) /\ probe[p].pc = "outcome" /\ ProbeInv(p) /\ Local(p)
      /\ archive' = archive /\ receipt' = receipt /\ ran' = ran /\ swapped' = swapped
      /\ diagnostics' = [diagnostics EXCEPT ![p] = @ \cup {"outcome"}]
  BY DEF WriteOutcome, Began, SmokeInv
<1>2. probe[p] \in ProbeType /\ probe \in [Probes -> ProbeType] /\ next \in {"failed", "receipt"}
  BY TypesApart DEF SmokeInv
<1>3. /\ to \in ProbeType /\ to.pc = next /\ to.oci = probe[p].oci /\ to.failed = probe[p].failed
      /\ probe' = [probe EXCEPT ![p] = to] /\ probe'[p] = to
  BY <1>2 DEF ProbeType, Working, Ended, WriteOutcome, Goes
<1> HIDE DEF to
<1>4. /\ archive \in [Probes -> Archives \cup {None}] /\ DOMAIN diagnostics = Probes
      /\ DOMAIN receipt = Probes /\ DOMAIN swapped = Probes
  BY TypesApart DEF SmokeInv
<1>5. /\ TagsOf(p)' = TagsOf(p) /\ LateOf(p)' = LateOf(p) /\ containers' = containers
      /\ Image(p)' = Image(p)
  BY <1>1, <1>3, LocalTouches DEF Image
<1>6. OwnsItsImage(p)'
  BY <1>1, <1>3, <1>4, <1>5 DEF ProbeInv, OwnsItsImage, Began
<1>7. Tracked(p)'
  BY <1>1, <1>3, <1>5 DEF ProbeInv, Tracked, Sound, Seen, Exited, Working
<1>8. Receipted(p)'
  BY <1>1, <1>2, <1>3 DEF ProbeInv, Receipted
<1> QED
  BY <1>1, <1>3, <1>4, <1>6, <1>7, <1>8, LocalMoves DEF ProbeInv

\* A receipt is written of a sound probe only.
LEMMA WriteReceiptKeepsInv == ASSUME SmokeInv, NEW p \in Probes, WriteReceipt(p) PROVE SmokeInv'
<1>1. /\ Began(p) /\ probe[p].pc = "receipt" /\ ProbeInv(p) /\ Local(p)
      /\ archive' = archive /\ diagnostics' = diagnostics /\ ran' = ran /\ swapped' = swapped
  BY DEF WriteReceipt, Began, SmokeInv
<1>2. CASE probe' = Fails(p, "failed") /\ UNCHANGED receipt
  <2>1. Touches(p) /\ UNCHANGED Rest
    BY <1>1, <1>2, LocalTouches DEF Rest
  <2> QED
    BY <1>1, <1>2, <2>1, FailureKeepsInv
<1>3. CASE receipt' = [receipt EXCEPT ![p] = probe[p].oci] /\ probe' = Goes(p, "passed")
  <2> DEFINE to == [probe[p] EXCEPT !.pc = "passed"]
  <2>1. probe[p] \in ProbeType /\ probe \in [Probes -> ProbeType]
    BY TypesApart DEF SmokeInv
  <2>2. /\ to \in ProbeType /\ to.pc = "passed" /\ to.oci = probe[p].oci /\ to.failed = probe[p].failed
        /\ probe' = [probe EXCEPT ![p] = to] /\ probe'[p] = to
    BY <1>3, <2>1 DEF ProbeType, Working, Ended, Goes
  <2> HIDE DEF to
  <2>3. /\ archive \in [Probes -> Archives \cup {None}] /\ DOMAIN diagnostics = Probes
        /\ DOMAIN receipt = Probes /\ DOMAIN swapped = Probes
    BY TypesApart DEF SmokeInv
  <2>4. /\ TagsOf(p)' = TagsOf(p) /\ LateOf(p)' = LateOf(p) /\ containers' = containers
        /\ Image(p)' = Image(p)
    BY <1>1, <2>2, LocalTouches DEF Image
  <2>5. OwnsItsImage(p)'
    BY <1>1, <2>2, <2>4 DEF ProbeInv, OwnsItsImage, Began
  <2>6. Tracked(p)'
    BY <1>1, <2>2, <2>4 DEF ProbeInv, Tracked, Sound, Seen, Exited, Working
  <2>7. Receipted(p)'
    BY <1>1, <1>3, <2>2, <2>3 DEF ProbeInv, Receipted
  <2> QED
    BY <1>1, <1>3, <2>2, <2>3, <2>5, <2>6, <2>7, LocalMoves DEF ProbeInv
<1> QED
  BY <1>2, <1>3 DEF WriteReceipt

\* A probe that is killed leaves what it had, and perhaps a command under way.
LEMMA KillKeepsInv == ASSUME SmokeInv, NEW p \in Probes, Kill(p) PROVE SmokeInv'
<1> DEFINE to == [probe[p] EXCEPT !.pc = "killed"]
<1>1. /\ Began(p) /\ probe[p].pc \in Working /\ UNCHANGED Rest /\ Receipted(p)
      /\ containers' = containers /\ refs' = refs
  BY DEF Kill, Began, Working, Rest, SmokeInv, ProbeInv
<1>2. Touches(p)
  <2>1. CASE UNCHANGED late
    BY <1>1, <2>1 DEF Touches
  <2>2. CASE ~UNCHANGED late
    <3>1. PICK x \in {<<"import", "load">>, <<"create", "create">>, <<"start", "start">>,
                      <<"cleanup_container", "rm">>, <<"cleanup_image", "untag">>} :
            late' = late \cup {Ask(p, x[2])}
      BY <2>2 DEF Kill
    <3>2. x[2] \in Does
      BY DEF Does
    <3> QED
      BY <1>1, <3>1, <3>2 DEF Touches
  <2> QED
    BY <2>1, <2>2
<1>3. probe[p] \in ProbeType /\ probe \in [Probes -> ProbeType]
  BY TypesApart DEF SmokeInv
<1>4. /\ to \in ProbeType /\ to.pc = "killed" /\ to.oci = probe[p].oci
      /\ probe' = [probe EXCEPT ![p] = to] /\ probe'[p] = to
  BY <1>3 DEF ProbeType, Working, Ended, Kill, Goes
<1> HIDE DEF to
<1>5. Tracked(p)'
  BY <1>4 DEF Tracked, Sound, Working
<1>6. Receipted(p)'
  BY <1>1, <1>4 DEF Receipted, Working, Rest
<1> QED
  BY <1>1, <1>2, <1>4, <1>5, <1>6, CommandMoves

\* What is written to the archive before it is verified changes nothing known, and
\* what is written later is remembered.
LEMMA ReplaceArchiveKeepsInv == ASSUME SmokeInv, NEW p \in Probes, ReplaceArchive(p) PROVE SmokeInv'
<1>1. /\ probe[p].pc \in Working \cup {"passed"}
      /\ ProbeInv(p) /\ Local(p) /\ UNCHANGED <<probe, diagnostics, receipt, ran>>
      /\ swapped' = [swapped EXCEPT ![p] = probe[p].pc \notin Unverified]
  BY DEF ReplaceArchive, SmokeInv
<1>2. PICK a \in Archives : archive' = [archive EXCEPT ![p] = a]
  BY DEF ReplaceArchive
<1>3. /\ archive \in [Probes -> Archives \cup {None}] /\ DOMAIN diagnostics = Probes
      /\ DOMAIN receipt = Probes /\ DOMAIN swapped = Probes /\ probe[p] \in ProbeType
      /\ probe \in [Probes -> ProbeType]
  BY TypesApart DEF SmokeInv
<1>4. TagsOf(p)' = TagsOf(p) /\ LateOf(p)' = LateOf(p) /\ containers' = containers
  BY <1>1, LocalTouches
<1>5. OwnsItsImage(p)' /\ Receipted(p)'
  BY <1>1, <1>4 DEF ProbeInv, OwnsItsImage, Began, Image, Receipted
<1>6. archive'[p] \in Archives /\ (probe[p].pc \notin Unverified => swapped'[p])
  BY <1>1, <1>2, <1>3
<1>7. Seen(p) /\ probe[p].pc \notin Unverified => Seen(p)'
  BY <1>1, <1>6 DEF Seen, Image
<1>8. Tracked(p)'
  BY <1>1, <1>4, <1>7 DEF ProbeInv, Tracked, Sound, Exited, Image, Working, Unverified
<1>9. probe' = [probe EXCEPT ![p] = probe[p]]
  BY <1>1, <1>3
<1> QED
  BY <1>1, <1>2, <1>3, <1>5, <1>8, <1>9, LocalMoves DEF ProbeInv

\* A probe that begins owns nothing yet, and its intent is on disk.
LEMMA BeginKeepsInv == ASSUME SmokeInv, NEW p \in Probes, Begin(p) PROVE SmokeInv'
<1>1. /\ ProbeInv(p) /\ Local(p) /\ archive' = archive /\ receipt' = receipt /\ ran' = ran
      /\ swapped' = swapped /\ probe[p].pc = "idle"
  BY DEF Begin, SmokeInv
<1>2. /\ archive \in [Probes -> Archives \cup {None}] /\ DOMAIN diagnostics = Probes
      /\ DOMAIN receipt = Probes /\ DOMAIN swapped = Probes /\ probe[p] \in ProbeType /\ probe \in [Probes -> ProbeType]
  BY TypesApart DEF SmokeInv
<1>3. /\ TagsOf(p)' = TagsOf(p) /\ LateOf(p)' = LateOf(p) /\ containers' = containers
  BY <1>1, LocalTouches
<1>4. /\ containers[p] = None /\ TagsOf(p) = {} /\ LateOf(p) = {} /\ receipt[p] = None
  BY <1>1 DEF ProbeInv, OwnsItsImage, Began, Receipted
<1>5. CASE probe' = Goes(p, "refused") /\ UNCHANGED diagnostics
  <2> DEFINE to == [probe[p] EXCEPT !.pc = "refused"]
  <2>1. to \in ProbeType /\ to.pc = "refused" /\ probe' = [probe EXCEPT ![p] = to] /\ probe'[p] = to
    BY <1>2, <1>5 DEF ProbeType, Working, Ended, Goes
  <2> HIDE DEF to
  <2>2. ProbeInv(p)'
    BY <1>1, <1>3, <1>4, <2>1 DEF ProbeInv, OwnsItsImage, Began, Receipted, Tracked, Sound, Working
  <2> QED
    BY <1>1, <1>2, <1>5, <2>1, <2>2, LocalMoves
<1>6. CASE /\ archive[p] \in InspectedArchives
           /\ probe' = Inventoried(p, Report[archive[p]])
           /\ diagnostics' = [diagnostics EXCEPT ![p] = {"intent"}]
  <2> DEFINE oci == Report[archive[p]]
             there == oci.image \in images
             next == IF oci.image \in images THEN "check" ELSE "import"
             to == [probe[p] EXCEPT !.oci = oci, !.preexisting = there, !.pc = next]
  <2>1. oci \in Reports /\ there \in BOOLEAN /\ next \in {"check", "import"}
    BY <1>6 DEF Reports
  <2>2. probe' = [probe EXCEPT ![p] = to]
    BY <1>2, <1>6 DEF Inventoried
  <2> HIDE DEF oci, there, next
  <2>3. to \in ProbeType /\ to.pc \in {"check", "import"} /\ to.oci = oci /\ probe'[p] = to
    BY <1>2, <2>1, <2>2 DEF ProbeType, Working
  <2> HIDE DEF to
  <2>4. OwnsItsImage(p)'
    BY <1>2, <1>3, <1>4, <1>6, <2>1, <2>3 DEF OwnsItsImage, Began
  <2>5. Tracked(p)' /\ Receipted(p)'
    BY <1>1, <1>3, <1>4, <2>3 DEF Tracked, Receipted
  <2> QED
    BY <1>1, <1>2, <1>6, <2>2, <2>3, <2>4, <2>5, LocalMoves DEF ProbeInv
<1> QED
  BY <1>5, <1>6 DEF Begin

\* The container that ends is the one the probe attached to, or one it gave up.
LEMMA ContainerExitsKeepsInv == ASSUME SmokeInv, NEW p \in Probes, ContainerExits(p) PROVE SmokeInv'
<1> DEFINE Mine == [image : {Image(p)}, status : {"created", "running", "exited"}]
<1>1. /\ ProbeInv(p) /\ containers[p] # None /\ containers[p].status = "running"
      /\ containers' = [containers EXCEPT ![p].status = "exited"]
      /\ ran' = [ran EXCEPT ![p] = Runs[containers[p].image]]
      /\ UNCHANGED <<images, refs, late, archive, probe, diagnostics, receipt, swapped>>
  BY DEF ContainerExits, SmokeInv
<1>2. SmokeTypes /\ DaemonTypes /\ p \in Owners /\ Probes \subseteq Owners
  BY TypesApart DEF SmokeInv, Owners
<1>3. Began(p) /\ containers[p] \in Mine /\ Image(p) \in ImageIds
  <2>1. Began(p)
    BY <1>1 DEF ProbeInv, OwnsItsImage
  <2>2. Image(p) \in ImageIds
    BY <1>1, <1>2, <2>1, AskIsCommand DEF ProbeInv, Does
  <2>3. containers[p] \in {None} \cup Mine
    BY <1>1, <2>1 DEF ProbeInv, OwnsItsImage
  <2> HIDE DEF Mine
  <2> QED
    BY <1>1, <2>1, <2>2, <2>3
<1>4. /\ p \in DOMAIN containers /\ p \in DOMAIN ran
      /\ containers[p] = [image |-> Image(p), status |-> "running"]
      /\ containers'[p] = [image |-> Image(p), status |-> "exited"]
      /\ ran'[p] = Runs[Image(p)]
  BY <1>1, <1>2, <1>3 DEF DaemonTypes, SmokeTypes
<1>5. DaemonTypes'
  <2>1. [image |-> Image(p), status |-> "exited"] \in AnyContainer
    BY <1>3 DEF AnyContainer, Stored
  <2>2. containers' = [containers EXCEPT ![p] = [image |-> Image(p), status |-> "exited"]]
    BY <1>1, <1>4
  <2> HIDE DEF AnyContainer
  <2> QED
    BY <1>1, <1>2, <2>1, <2>2 DEF DaemonTypes
<1>6. SmokeTypes'
  BY <1>1, <1>2, <1>5 DEF SmokeTypes, DaemonTypes, AnyContainer, Stored
<1>7. \A q : TagsOf(q)' = TagsOf(q) /\ LateOf(q)' = LateOf(q)
  BY <1>1 DEF TagsOf, LateOf
<1>8. \A q \in Probes \ {p} : OwnVars(q)' = OwnVars(q)
  BY <1>1, <1>7 DEF OwnVars
<1>9. Image(p)' = Image(p) /\ (Began(p)' <=> Began(p)) /\ (Sound(p)' <=> Sound(p))
  BY <1>1 DEF Image, Began, Sound
<1>10. OwnsItsImage(p)' /\ Receipted(p)'
  BY <1>1, <1>3, <1>4, <1>7, <1>9 DEF ProbeInv, OwnsItsImage, Receipted
<1>11. Tracked(p)'
  <2>1. Sound(p) => probe[p].pc = "attach"
    BY <1>1, <1>4 DEF ProbeInv, Tracked, Exited, Sound, Working
  <2> QED
    BY <1>1, <1>4, <1>7, <1>9, <2>1 DEF ProbeInv, Tracked, Exited
<1> QED
  BY <1>6, <1>8, <1>10, <1>11, OneProbeMoves DEF ProbeInv

\* A command that is applied late is of a probe that has counted it as a failure.
LEMMA AppliedLateKeepsInv == ASSUME SmokeInv, AppliedLate PROVE SmokeInv'
<1>1. PICK c \in late : /\ late' = late \ {c}
                        /\ Applied(c) \/ UNCHANGED daemon
                        /\ UNCHANGED <<archive, probe, diagnostics, receipt, ran, swapped>>
  BY DEF AppliedLate
<1> DEFINE p == c.probe
<1>2. SmokeTypes /\ DaemonTypes /\ Probes \subseteq Owners /\ late \subseteq CommandType
  BY TypesApart DEF SmokeInv, Owners
<1>3. p \in Probes /\ c.do \in Does /\ c.image \in ImageIds
  BY <1>2 DEF CommandType, Does
<1> HIDE DEF p
<1>4. c \in LateOf(p) /\ ProbeInv(p)
  BY <1>3 DEF LateOf, SmokeInv, p
<1>5. Began(p) /\ ~Sound(p) /\ c.image = Image(p) /\ OwnsItsImage(p) /\ Receipted(p)
  BY <1>4 DEF ProbeInv, OwnsItsImage, Tracked
<1>6. Ask(p, c.do) = c
  BY <1>2, <1>5 DEF Ask, CommandType, p
<1>7. \A q \in Probes \ {p} : LateOf(q)' = LateOf(q)
  BY <1>1 DEF LateOf, p
<1>8. LateOf(p)' \subseteq LateOf(p)
  BY <1>1 DEF LateOf
<1>9. /\ DaemonTypes'
      /\ \A q \in Probes \ {p} : containers'[q] = containers[q] /\ TagsOf(q)' = TagsOf(q)
      /\ containers'[p] \in {None} \cup [image : {Image(p)}, status : {"created", "running", "exited"}]
      /\ TagsOf(p)' \subseteq {<<p, Image(p)>>}
  <2>1. CASE UNCHANGED daemon
    BY <1>2, <1>5, <2>1 DEF daemon, DaemonTypes, TagsOf, OwnsItsImage
  <2>2. CASE Applied(c)
    <3>1. Effect(c)
      BY <1>2, <1>3, <2>2, AppliedOwn DEF p
    <3>2. DaemonTypes' /\ \A o \in Owners \ {p} : containers'[o] = containers[o] /\ TagsOf(o)' = TagsOf(o)
      BY <1>2, <1>3, <2>2, AppliedFrame DEF p, Stored
    <3> DEFINE Mine == [image : {Image(p)}, status : {"created", "running", "exited"}]
    <3>3. p \in DOMAIN containers /\ containers[p] \in {None} \cup Mine
      BY <1>2, <1>3, <1>5 DEF DaemonTypes, OwnsItsImage
    <3>4. containers'[p] \in {None} \cup Mine
      <4>1. CASE c.do = "create"
        BY <1>5, <3>1, <3>3, <4>1 DEF Effect, p
      <4>2. CASE c.do = "start"
        <5>1. containers[p] \in Mine /\ containers'[p] = [containers[p] EXCEPT !.status = "running"]
          <6> HIDE DEF Mine
          <6> QED
            BY <3>1, <3>3, <4>2 DEF Effect, p
        <5> QED
          BY <5>1
      <4>3. CASE c.do \in {"load", "rm", "untag"}
        <5> HIDE DEF Mine
        <5> QED
          BY <3>1, <3>3, <4>3 DEF Effect, p
      <4> QED
        BY <1>3, <4>1, <4>2, <4>3 DEF Does
    <3>5. TagsOf(p)' \subseteq {<<p, Image(p)>>}
      <4>1. refs' \subseteq refs \cup {<<p, Image(p)>>}
        BY <1>3, <1>5, <3>1 DEF Effect, Does, p
      <4> QED
        BY <1>5, <4>1 DEF TagsOf, OwnsItsImage
    <3> QED
      BY <1>2, <3>2, <3>4, <3>5
  <2> QED
    BY <1>1, <2>1, <2>2
<1>10. SmokeTypes'
  <2>1. late' \subseteq CommandType
    BY <1>1, <1>2
  <2> QED
    BY <1>1, <1>2, <1>9, <2>1 DEF SmokeTypes, DaemonTypes, AnyContainer, Stored
<1>11. \A q \in Probes \ {p} : OwnVars(q)' = OwnVars(q)
  BY <1>1, <1>7, <1>9 DEF OwnVars
<1>12. Image(p)' = Image(p) /\ (Began(p)' <=> Began(p)) /\ (Sound(p)' <=> Sound(p)) /\ Receipted(p)'
  BY <1>1, <1>5 DEF Image, Began, Sound, Receipted
<1>13. OwnsItsImage(p)'
  BY <1>1, <1>5, <1>8, <1>9, <1>12 DEF OwnsItsImage
<1>14. Tracked(p)'
  BY <1>5, <1>12 DEF Tracked
<1> QED
  BY <1>3, <1>10, <1>11, <1>12, <1>13, <1>14, OneProbeMoves DEF ProbeInv

\* Others have their own tags and containers.
LEMMA OthersKeepInv == ASSUME SmokeInv, OthersUseImages PROVE SmokeInv'
<1>1. SmokeTypes /\ DaemonTypes /\ Other \in Owners /\ Probes \subseteq Owners \ {Other}
  BY TypesApart, SmokeAssumption DEF SmokeInv, Owners
<1>2. UNCHANGED <<late, archive, probe, diagnostics, receipt, ran, swapped>>
  BY DEF OthersUseImages
<1>3. DaemonTypes' /\ \A o \in Owners \ {Other} : containers'[o] = containers[o] /\ TagsOf(o)' = TagsOf(o)
  <2>1. ASSUME NEW i \in Popular, NEW do \in {"load", "create", "untag"},
               Applied([do |-> do, probe |-> Other, image |-> i])
        PROVE  DaemonTypes' /\ \A o \in Owners \ {Other} : containers'[o] = containers[o] /\ TagsOf(o)' = TagsOf(o)
    <3> DEFINE c == [do |-> do, probe |-> Other, image |-> i]
    <3>1. c.do \in Does /\ c.probe = Other /\ c.image \in Stored /\ Applied(c)
      BY <2>1 DEF Does, Stored
    <3> HIDE DEF c
    <3> QED
      BY <1>1, <3>1, AppliedFrame
  <2>2. CASE Applied([do |-> "rm", probe |-> Other])
    <3> DEFINE c == [do |-> "rm", probe |-> Other]
    <3>1. c.do = "rm" /\ c.do \in Does /\ c.probe = Other /\ Applied(c)
      BY <2>2 DEF Does
    <3> HIDE DEF c
    <3> QED
      BY <1>1, <3>1, AppliedFrame
  <2>3. CASE UNCHANGED <<refs, containers>>
    BY <1>1, <2>3 DEF DaemonTypes, TagsOf
  <2>4. ASSUME NEW i \in Popular, Load(Other, i)
        PROVE  Applied([do |-> "load", probe |-> Other, image |-> i])
    BY <2>4 DEF Applied
  <2>5. ASSUME NEW i \in Popular, Untag(Other, i)
        PROVE  Applied([do |-> "untag", probe |-> Other, image |-> i])
    BY <2>5 DEF Applied
  <2> QED
    BY <2>1, <2>2, <2>3, <2>4, <2>5 DEF OthersUseImages
<1>4. SmokeTypes'
  BY <1>1, <1>2, <1>3 DEF SmokeTypes, DaemonTypes, AnyContainer, Stored
<1>5. ASSUME NEW q \in Probes PROVE OwnVars(q)' = OwnVars(q)
  <2>1. LateOf(q)' = LateOf(q)
    BY <1>2 DEF LateOf
  <2> QED
    BY <1>1, <1>2, <1>3, <2>1 DEF OwnVars
<1>6. \A q \in Probes : ProbeInv(q)'
  BY <1>5, OwnIsAll DEF SmokeInv
<1> QED
  BY <1>4, <1>6 DEF SmokeInv

\* No step of the smoke tests, the daemon or its users breaks what a probe knows.
LEMMA SmokeStepKeepsInv == ASSUME SmokeInv, SmokeStep PROVE SmokeInv'
<1>1. ASSUME NEW p \in Probes, ProbeStep(p) PROVE SmokeInv'
  BY <1>1, BeginKeepsInv, ImportKeepsInv, CheckKeepsInv, CreateKeepsInv, StartKeepsInv, AttachKeepsInv,
     VerifyKeepsInv, CleanupContainerKeepsInv, CleanupImageKeepsInv, WriteOutcomeKeepsInv,
     WriteReceiptKeepsInv DEF ProbeStep
<1> QED
  BY <1>1, KillKeepsInv, ReplaceArchiveKeepsInv, ContainerExitsKeepsInv, AppliedLateKeepsInv, OthersKeepInv
     DEF SmokeStep, Probing, ReplacedInTime

-----------------------------------------------------------------------------
(* A build, its probe and the registry.                                       *)

\* A job moves on by its own steps, and a probe of a passed job does not move.
LEMMA BuildKeepsJobs ==
  ASSUME BuildTypes, NEW j \in Jobs, BuildStep(j), NEW p \in Probes, JobInv(p),
         UNCHANGED <<smokeVars, staged>>
  PROVE  JobInv(p)'
<1>1. /\ DOMAIN files = Jobs /\ DOMAIN job = Jobs /\ p \in Jobs /\ inputs' = inputs
      /\ probe' = probe /\ archive' = archive /\ staged' = staged
  BY ImagesAssumption DEF BuildTypes, BuildStep, ReadInputs, Replace, Interrupt, WriteEvidence, CheckVersion,
                          EditFile, smokeVars
<1>2. CASE EditFile(j)
  <2>1. PICK f \in Rewritten : files' = [files EXCEPT ![j][f] = "edited"] /\ job' = job
    BY <1>2 DEF EditFile
  <2>2. CASE j # p
    BY <1>1, <2>1, <2>2 DEF JobInv
  <2>3. CASE j = p
    <3>1. files'[p][f] = "edited" /\ f \in Files
      BY <1>1, <2>1, <2>3, BuildAssumption DEF BuildTypes, Checkouts
    <3>2. files'[p] # Planned
      BY <3>1 DEF Planned
    <3> QED
      BY <1>1, <2>1, <3>2 DEF JobInv, Planned
  <2> QED
    BY <2>2, <2>3
<1>3. CASE ~EditFile(j)
  <2>1. /\ job[j].pc \in {"sync", "replace", "evidence", "check"}
        /\ job'[j].pc # "built"
        /\ \A k \in Jobs \ {j} : job'[k] = job[k] /\ files'[k] = files[k]
    <3>1. CASE ReadInputs(j) \/ Interrupt(j) \/ WriteEvidence(j) \/ CheckVersion(j)
      BY <1>1, <3>1 DEF ReadInputs, Interrupt, WriteEvidence, CheckVersion, JobGoes
    <3>2. CASE Replace(j)
      <4>1. job[j].pc = "replace" /\ job[j] \in [pc : JobPhases, todo : SUBSET Files]
        BY <3>2 DEF Replace, BuildTypes
      <4>2. CASE \E f \in job[j].todo : /\ files' = [files EXCEPT ![j][f] = "planned"]
                                        /\ job' = [job EXCEPT ![j].todo = @ \ {f}]
        BY <1>1, <4>1, <4>2
      <4>3. CASE files' = files /\ (job' = JobGoes(j, "failed") \/ job' = JobGoes(j, "evidence"))
        BY <1>1, <4>1, <4>3 DEF JobGoes
      <4> QED
        BY <3>2, <4>2, <4>3 DEF Replace
    <3> QED
      BY <1>3, <3>1, <3>2 DEF BuildStep
  <2>2. CASE j # p
    BY <1>1, <2>1, <2>2 DEF JobInv, Planned
  <2>3. CASE j = p
    BY <1>1, <2>1, <2>3 DEF JobInv
  <2> QED
    BY <2>2, <2>3
<1> QED
  BY <1>2, <1>3

\* The steps of a job keep what the files of a checkout are.
LEMMA BuildKeepsTypes ==
  ASSUME BuildTypes, NEW j \in Jobs, BuildStep(j), UNCHANGED staged
  PROVE  BuildTypes'
<1> DEFINE JobType == [pc : JobPhases, todo : SUBSET Files]
<1>1. inputs' = inputs
  BY DEF BuildStep, ReadInputs, Replace, Interrupt, WriteEvidence, CheckVersion, EditFile
<1>3. job' \in [Jobs -> JobType]
  <2>0. job \in [Jobs -> JobType] /\ \A pc \in JobPhases, t \in SUBSET Files : [pc |-> pc, todo |-> t] \in JobType
    BY DEF BuildTypes
  <2>1. \A pc \in JobPhases : JobGoes(j, pc) \in [Jobs -> JobType]
    <3> HIDE DEF JobType
    <3> QED
      BY <2>0 DEF JobGoes
  <2>2. CASE \E pc \in {"failed", "evidence", "sync", "check", "build"} : job' = JobGoes(j, pc)
    <3>1. PICK pc \in {"failed", "evidence", "sync", "check", "build"} : job' = JobGoes(j, pc)
      BY <2>2
    <3>2. pc \in JobPhases
      BY DEF JobPhases
    <3> HIDE DEF JobType
    <3> QED
      BY <2>1, <3>1, <3>2
  <2>3. CASE job' = job
    BY <2>0, <2>3
  <2>4. CASE \E t \in SUBSET Files : job' = [job EXCEPT ![j] = [pc |-> "replace", todo |-> t]]
    <3>1. PICK t \in SUBSET Files : job' = [job EXCEPT ![j] = [pc |-> "replace", todo |-> t]]
      BY <2>4
    <3>2. [pc |-> "replace", todo |-> t] \in JobType
      BY DEF JobPhases
    <3> HIDE DEF JobType
    <3> QED
      BY <2>0, <3>1, <3>2
  <2>5. CASE \E f : job' = [job EXCEPT ![j].todo = @ \ {f}]
    <3>1. PICK f : job' = [job EXCEPT ![j].todo = @ \ {f}]
      BY <2>5
    <3>2. [job[j] EXCEPT !.todo = @ \ {f}] \in JobType
      BY <2>0
    <3> HIDE DEF JobType
    <3> QED
      BY <2>0, <3>1, <3>2
  <2>6. CASE ReadInputs(j)
    <3>1. {f \in Files : files[j][f] = "base"} \in SUBSET Files
      OBVIOUS
    <3> HIDE DEF JobType
    <3> QED
      BY <2>2, <2>4, <2>6, <3>1 DEF ReadInputs
  <2>7. CASE Replace(j)
    <3> HIDE DEF JobType
    <3> QED
      BY <2>2, <2>5, <2>7 DEF Replace
  <2>8. CASE Interrupt(j) \/ WriteEvidence(j) \/ CheckVersion(j) \/ EditFile(j)
    <3> HIDE DEF JobType
    <3> QED
      BY <2>2, <2>3, <2>8 DEF Interrupt, WriteEvidence, CheckVersion, EditFile
  <2> QED
    BY <2>6, <2>7, <2>8 DEF BuildStep
<1>2. files' \in [Jobs -> Checkouts]
  <2>1. CASE files' = files
    BY <2>1 DEF BuildTypes
  <2>2. CASE files' # files
    <3>1. PICK f : \E x \in {"planned", "edited"} : files' = [files EXCEPT ![j][f] = x]
      BY <2>2 DEF BuildStep, ReadInputs, Replace, Interrupt, WriteEvidence, CheckVersion, EditFile
    <3>2. PICK x \in {"planned", "edited"} : files' = [files EXCEPT ![j][f] = x]
      BY <3>1
    <3>3. files \in [Jobs -> Checkouts] /\ files[j] \in Checkouts
      BY DEF BuildTypes
    <3>4. [files[j] EXCEPT ![f] = x] \in Checkouts
      BY <3>3 DEF Checkouts
    <3>5. files' = [files EXCEPT ![j] = [files[j] EXCEPT ![f] = x]]
      BY <3>2, <3>3
    <3> QED
      BY <3>3, <3>4, <3>5
  <2> QED
    BY <2>1, <2>2
<1>4. DOMAIN evidence' = Jobs /\ \A k \in Jobs : evidence'[k] \in {Absent, Planned}
  <2>1. evidence' = evidence \/ evidence' = [evidence EXCEPT ![j] = Planned]
    BY DEF BuildStep, ReadInputs, Replace, Interrupt, WriteEvidence, CheckVersion, EditFile
  <2> QED
    BY <2>1 DEF BuildTypes
<1> QED
  BY <1>1, <1>2, <1>3, <1>4 DEF BuildTypes, Planned

\* A probe leaves idle only after its job has built, and nothing of a probe that
\* passed is changed any more, except its archive until it is staged.
LEMMA ProbesFollowJobs ==
  ASSUME SmokeInv, SmokeStep, NEW p \in Probes
  PROVE  /\ probe[p].pc = "idle" => probe'[p] = probe[p] \/ job[p].pc = "built"
         /\ probe[p].pc = "passed" => probe'[p] = probe[p] /\ (archive'[p] = archive[p] \/ job[p].pc = "built")
<1>1. probe \in [Probes -> ProbeType] /\ archive \in [Probes -> Archives \cup {None}]
  BY TypesApart DEF SmokeInv
<1>2. ASSUME NEW q \in Probes, ProbeStep(q)
      PROVE  /\ probe[q].pc \in {"idle"} \cup Working /\ archive' = archive
             /\ \A r \in Probes \ {q} : probe'[r] = probe[r]
  <2>1. CASE Begin(q)
    BY <1>1, <2>1 DEF Begin, Goes, Inventoried
  <2>2. CASE WriteOutcome(q)
    BY <1>1, <2>2 DEF WriteOutcome, Goes, Working
  <2>3. CASE WriteReceipt(q)
    BY <1>1, <2>3 DEF WriteReceipt, Goes, Fails, Working
  <2>4. CASE Check(q) \/ Attach(q) \/ Verify(q)
    BY <1>1, <2>4 DEF Check, Attach, Verify, Goes, Fails, Working
  <2>5. CASE Import(q) \/ Create(q) \/ Start(q)
    BY <1>1, <2>5 DEF Import, Create, Start, Command, Goes, Fails, Working
  <2>6. CASE CleanupContainer(q) \/ CleanupImage(q)
    BY <1>1, <2>6 DEF CleanupContainer, CleanupImage, Command, Goes, Fails, Working
  <2> QED
    BY <1>2, <2>1, <2>2, <2>3, <2>4, <2>5, <2>6 DEF ProbeStep
<1>3. ASSUME NEW q \in Probes, Probing(q)
      PROVE  /\ probe[p].pc = "idle" => probe'[p] = probe[p] \/ job[p].pc = "built"
             /\ probe[p].pc = "passed" => probe'[p] = probe[p] /\ archive'[p] = archive[p]
  BY <1>2, <1>3 DEF Probing, Working
<1>4. ASSUME NEW q \in Probes, Kill(q)
      PROVE  probe[p].pc \in {"idle", "passed"} => probe'[p] = probe[p] /\ archive'[p] = archive[p]
  BY <1>1, <1>4 DEF Kill, Goes, Working
<1>5. ASSUME NEW q \in Probes, ReplacedInTime(q)
      PROVE  probe'[p] = probe[p] /\ (archive'[p] = archive[p] \/ job[p].pc = "built")
  BY <1>1, <1>5 DEF ReplacedInTime, ReplaceArchive
<1>6. CASE UNCHANGED <<probe, archive>>
  BY <1>6
<1> QED
  BY <1>3, <1>4, <1>5, <1>6 DEF SmokeStep, ContainerExits, AppliedLate, OthersUseImages

\* Of a probe that passed, the container ran what the report names, and the archive
\* in its workspace is the one it inspected unless it was replaced since.
LEMMA PassedIsSeen ==
  ASSUME SmokeInv, NEW p \in Probes, probe[p].pc = "passed"
  PROVE  /\ probe[p].oci \in Reports /\ receipt[p] = probe[p].oci /\ Seen(p)
         /\ probe[p].oci.archive \in InspectedArchives /\ probe[p].oci = Report[probe[p].oci.archive]
<1>1. ProbeInv(p)
  BY DEF SmokeInv
<1>2. Sound(p) /\ Began(p)
  BY <1>1 DEF ProbeInv, Receipted, Sound, Began
<1>3. probe[p].oci \in Reports /\ receipt[p] = probe[p].oci /\ Seen(p)
  BY <1>1, <1>2 DEF ProbeInv, OwnsItsImage, Tracked, Receipted
<1>4. PICK a \in InspectedArchives : probe[p].oci = Report[a]
  BY <1>3 DEF Reports
<1>5. Report[a].archive = a
  BY <1>4 DEF Report
<1> QED
  BY <1>3, <1>4, <1>5

\* An image is built for an idle probe.
LEMMA BuildImageKeepsInv ==
  ASSUME SmokeInv, NEW p \in Probes, BuildImage(p), probe[p].pc = "idle"
  PROVE  SmokeInv'
<1> DEFINE planned == files[p] = Planned
<1>0. planned \in BOOLEAN
  OBVIOUS
<1> HIDE DEF planned
<1>1. BuiltFrom[planned] \subseteq Archives
  BY <1>0, ImagesAssumption
<1>2. PICK a \in BuiltFrom[planned] : archive' = [archive EXCEPT ![p] = a]
  BY DEF BuildImage, planned
<1>3. UNCHANGED <<images, refs, containers, late, probe, diagnostics, receipt, ran, swapped>>
  BY DEF BuildImage
<1>4. /\ archive \in [Probes -> Archives \cup {None}] /\ DOMAIN diagnostics = Probes
      /\ DOMAIN receipt = Probes /\ DOMAIN swapped = Probes /\ probe[p] \in ProbeType /\ probe \in [Probes -> ProbeType] /\ ProbeInv(p)
  BY TypesApart DEF SmokeInv
<1>5. Local(p) /\ probe' = [probe EXCEPT ![p] = probe[p]]
  BY <1>3, <1>4 DEF Local
<1>6. TagsOf(p)' = TagsOf(p) /\ LateOf(p)' = LateOf(p)
  BY <1>5, LocalTouches
<1>7. OwnsItsImage(p)' /\ Receipted(p)' /\ Tracked(p)'
  BY <1>3, <1>4, <1>6 DEF ProbeInv, OwnsItsImage, Receipted, Tracked, Sound, Began, Image, Working
<1> QED
  BY <1>1, <1>2, <1>3, <1>4, <1>5, <1>7, LocalMoves DEF ProbeInv

\* The release is of what was staged, whatever the registry does.
LEMMA RegistryKeepsServed ==
  ASSUME RegistryInv, ServedIsReleased, RegistryStep
  PROVE  release' = release /\ ServedIsReleased'
<1>1. release' = release
  BY DEF RegistryStep, VerifiedAssets, Preflight, Copy, ResolveAssets, CompareDigests, WriteOutput
<1>2. CASE tags' = tags
  BY <1>1, <1>2 DEF ServedIsReleased
<1>3. CASE tags' # tags
  <2>1. PICK u \in Publishers : Copy(u)
    BY <1>3 DEF RegistryStep, VerifiedAssets, Preflight, ResolveAssets, CompareDigests, WriteOutput
  <2>2. publisher[u].pc = "copy" /\ tags' \in {Copied(u), tags}
    BY <2>1 DEF Copy
  <2>3. release # Unset /\ \A n \in Names : Ours(n)
    BY <2>2 DEF RegistryInv, OneRelease, Progress
  <2>4. \A n \in Names : Ours(n)'
    BY <1>1, <2>2, <2>3, CopyKeepsTags
  <2> QED
    BY <1>1, <2>3, <2>4 DEF ServedIsReleased, Ours
<1> QED
  BY <1>1, <1>2, <1>3

\* Nothing is built, probed or released at first.
LEMMA ImagesInitHasInv == ImagesInit => ImagesInv
<1> SUFFICES ASSUME ImagesInit PROVE ImagesInv
  OBVIOUS
<1>1. PICK used \in SUBSET Popular : refs \in SUBSET ({Other} \X used)
  BY DEF ImagesInit
<1>2. /\ containers = [o \in Owners |-> None] /\ late = {} /\ archive = [p \in Probes |-> None]
      /\ probe = [p \in Probes |-> [pc |-> "idle", oci |-> None, preexisting |-> FALSE,
                                    imported |-> FALSE, known |-> FALSE, failed |-> FALSE]]
      /\ diagnostics = [p \in Probes |-> {}] /\ receipt = [p \in Probes |-> None]
      /\ ran = [p \in Probes |-> Nothing] /\ swapped = [p \in Probes |-> FALSE]
  BY DEF ImagesInit
<1>3. SmokeTypes
  <2>1. probe \in [Probes -> ProbeType]
    BY <1>2 DEF ProbeType
  <2>2. refs \subseteq Owners \X (ImageIds \cup Popular)
    BY <1>1 DEF Owners
  <2>3. /\ containers \in [Owners -> {None} \cup [image : ImageIds \cup Popular,
                                               status : {"created", "running", "exited"}]]
        /\ archive \in [Probes -> Archives \cup {None}]
    BY <1>2
  <2> QED
    BY <1>2, <2>1, <2>2, <2>3 DEF SmokeTypes
<1>4. ASSUME NEW p \in Probes PROVE ProbeInv(p)
  <2>1. TagsOf(p) = {} /\ LateOf(p) = {} /\ containers[p] = None /\ probe[p].pc = "idle" /\ receipt[p] = None
    BY <1>1, <1>2, SmokeAssumption DEF TagsOf, LateOf, Owners
  <2> QED
    BY <2>1 DEF ProbeInv, OwnsItsImage, Tracked, Receipted, Began, Sound, Working
<1>5. /\ files = [j \in Jobs |-> [f \in Files |-> "base"]]
      /\ job = [j \in Jobs |-> [pc |-> "sync", todo |-> {}]]
      /\ inputs = [j \in Jobs |-> Absent] /\ evidence = [j \in Jobs |-> Absent]
      /\ staged = [n \in Names |-> IF n \in Probes THEN Unset ELSE n]
  BY DEF ImagesInit, BuildInit
<1>6. BuildTypes
  <2>1. job \in [Jobs -> [pc : JobPhases, todo : SUBSET Files]]
    BY <1>5 DEF JobPhases
  <2>2. staged \in [Names -> Bytes \cup {Unset}]
    BY <1>5, ImagesAssumption
  <2>3. files \in [Jobs -> Checkouts]
    BY <1>5 DEF Checkouts
  <2> QED
    BY <1>5, <2>1, <2>2, <2>3 DEF BuildTypes
<1>7. ASSUME NEW p \in Probes PROVE JobInv(p)
  BY <1>2, <1>5, <1>7, ImagesAssumption DEF JobInv
<1>8. RegistryInit
  BY DEF ImagesInit
<1>9. Released
  BY <1>8 DEF RegistryInit, Released
<1>10. ServedIsReleased
  BY <1>8, RegistryAssumption DEF RegistryInit, ServedIsReleased, Labels
<1> QED
  BY <1>3, <1>4, <1>6, <1>7, <1>8, <1>9, <1>10, RegistryInitHasInv DEF ImagesInv, SmokeInv

\* The archives a release is promoted with are whole.
LEMMA PromotedIsWhole == ASSUME ImagesInv, Promote PROVE staged \in [Names -> Bytes]
BY DEF ImagesInv, BuildTypes, Promote

\* Seen from the registry, every step is one of its own or none.
LEMMA StepsAreRegistrySteps == ASSUME ImagesInv, [Next]_vars PROVE [RegistryNext]_registryVars
<1>1. CASE Promote
  BY <1>1, PromotedIsWhole DEF Promote, RegistryNext
<1>2. CASE RegistryStep
  BY <1>2 DEF RegistryNext
<1>3. CASE UNCHANGED registryVars
  BY <1>3
<1> QED
  BY <1>1, <1>2, <1>3 DEF Next, vars, BuildImage, Stage

\* Where nothing of a probe's or of a job's is changed, what they know stays.
LEMMA SmokeFrame == ASSUME SmokeInv, UNCHANGED smokeVars PROVE SmokeInv'
<1>1. ASSUME NEW p \in Probes PROVE OwnVars(p)' = OwnVars(p)
  BY DEF OwnVars, TagsOf, LateOf, smokeVars
<1>2. SmokeTypes'
  BY DEF SmokeInv, SmokeTypes, smokeVars
<1> QED
  BY <1>1, <1>2, OwnIsAll DEF SmokeInv

\* ... and so does what a job knows.
LEMMA JobFrame ==
  ASSUME NEW p, JobInv(p), UNCHANGED buildVars, UNCHANGED staged, probe'[p] = probe[p], archive'[p] = archive[p]
  PROVE  JobInv(p)'
BY DEF JobInv, buildVars, Planned

\* The steps of the build, the probes and the staging.
LEMMA ImagesStepKeepsJobs ==
  ASSUME ImagesInv, [Next]_vars
  PROVE  /\ SmokeInv' /\ BuildTypes' /\ \A p \in Probes : JobInv(p)'
         /\ release' = release \/ Promote
         /\ staged' = staged \/ \E p \in Probes : Stage(p)
<1> USE DEF ImagesInv
<1>0. Jobs = Probes /\ Probes \subseteq Names
  BY ImagesAssumption
<1>1. ASSUME NEW j \in Jobs, BuildStep(j), UNCHANGED <<smokeVars, registryVars, staged>>
      PROVE  /\ SmokeInv' /\ BuildTypes' /\ \A p \in Probes : JobInv(p)'
             /\ release' = release \/ Promote
             /\ staged' = staged \/ \E p \in Probes : Stage(p)
  <2>1. ASSUME NEW p \in Probes PROVE JobInv(p)'
    BY <1>1, BuildKeepsJobs
  <2> QED
    BY <1>1, <2>1, BuildKeepsTypes, SmokeFrame DEF registryVars
<1>2. CASE SmokeStep /\ UNCHANGED <<buildVars, registryVars, staged>>
  <2>1. SmokeInv'
    BY <1>2, SmokeStepKeepsInv
  <2>2. BuildTypes'
    BY <1>2 DEF BuildTypes, buildVars
  <2>3. ASSUME NEW p \in Probes PROVE JobInv(p)'
    <3>1. /\ probe[p].pc = "idle" => probe'[p] = probe[p] \/ job[p].pc = "built"
          /\ probe[p].pc = "passed" => probe'[p] = probe[p] /\ (archive'[p] = archive[p] \/ job[p].pc = "built")
      BY <1>2, ProbesFollowJobs
    <3> QED
      BY <1>2, <3>1 DEF JobInv, buildVars, Planned
  <2> QED
    BY <1>2, <2>1, <2>2, <2>3 DEF registryVars
<1>3. CASE (RegistryStep \/ Promote \/ UNCHANGED vars) /\ UNCHANGED <<buildVars, smokeVars, staged>>
  <2>1. release' = release \/ Promote
    BY <1>3, RegistryKeepsServed DEF vars, registryVars
  <2>2. BuildTypes'
    BY <1>3 DEF BuildTypes, buildVars
  <2>3. ASSUME NEW p \in Probes PROVE JobInv(p)'
    BY <1>3, JobFrame DEF smokeVars
  <2> QED
    BY <1>3, <2>1, <2>2, <2>3, SmokeFrame
<1>4. ASSUME NEW p \in Probes, BuildImage(p)
      PROVE  /\ SmokeInv' /\ BuildTypes' /\ \A q \in Probes : JobInv(q)'
             /\ release' = release \/ Promote
             /\ staged' = staged \/ \E q \in Probes : Stage(q)
  <2>1. /\ job[p].pc = "build" /\ job' = [job EXCEPT ![p] = [pc |-> "built", todo |-> {}]]
        /\ inputs' = [inputs EXCEPT ![p] = files[p]] /\ files' = files /\ evidence' = evidence
        /\ staged' = staged /\ release' = release /\ probe' = probe
        /\ \E a : archive' = [archive EXCEPT ![p] = a]
    BY <1>4 DEF BuildImage, BuildPackages, JobGoes, registryVars
  <2>2. probe[p].pc = "idle" /\ staged[p] = Unset
    BY <2>1 DEF JobInv
  <2>3. SmokeInv'
    BY <1>4, <2>2, BuildImageKeepsInv
  <2>4. BuildTypes'
    <3>1. [pc |-> "built", todo |-> {}] \in [pc : JobPhases, todo : SUBSET Files]
      BY DEF JobPhases
    <3>2. job' \in [Jobs -> [pc : JobPhases, todo : SUBSET Files]]
      BY <2>1, <3>1 DEF BuildTypes
    <3> QED
      BY <2>1, <3>2 DEF BuildTypes, Planned
  <2>5. ASSUME NEW q \in Probes PROVE JobInv(q)'
    <3>1. /\ DOMAIN job = Probes /\ DOMAIN inputs = Probes /\ DOMAIN archive = Probes
      BY <1>0, TypesApart DEF BuildTypes, SmokeInv
    <3>2. CASE q # p
      <4>1. job'[q] = job[q] /\ inputs'[q] = inputs[q] /\ archive'[q] = archive[q]
        BY <2>1, <3>1, <3>2
      <4> QED
        BY <2>1, <4>1 DEF JobInv, Planned
    <3>3. CASE q = p
      BY <2>1, <2>2, <3>1, <3>3 DEF JobInv, Planned
    <3> QED
      BY <3>2, <3>3
  <2> QED
    BY <2>1, <2>3, <2>4, <2>5
<1>5. ASSUME NEW p \in Probes, Stage(p)
      PROVE  /\ SmokeInv' /\ BuildTypes' /\ \A q \in Probes : JobInv(q)'
             /\ release' = release \/ Promote
             /\ staged' = staged \/ \E q \in Probes : Stage(q)
  <2> DEFINE next == IF InputsUnchanged(p) /\ MetadataAccepted(Content[archive[p]]) THEN "staged" ELSE "failed"
             put == IF job'[p].pc = "staged" THEN archive[p] ELSE Unset
  <2>1. /\ probe[p].pc = "passed" /\ job[p].pc = "built"
        /\ job' = [job EXCEPT ![p] = [pc |-> next, todo |-> {}]]
        /\ files' = files /\ inputs' = inputs /\ evidence' = evidence /\ UNCHANGED <<smokeVars, registryVars>>
        /\ staged' = [staged EXCEPT ![p] = put]
    BY <1>5 DEF Stage, StageJob, JobGoes
  <2>2. /\ next \in {"staged", "failed"}
        /\ next = "staged" => files[p] = Planned /\ MetadataAccepted(Content[archive[p]])
    <3>1. ASSUME InputsUnchanged(p) PROVE files[p] = Planned
      <4>1. evidence[p] = Planned /\ files[p] \in Checkouts
        BY <1>0, <3>1 DEF InputsUnchanged, BuildTypes
      <4> QED
        BY <3>1, <4>1 DEF InputsUnchanged, CurrentInputs, Planned, Checkouts
    <3> QED
      BY <3>1
  <2>3. /\ DOMAIN job = Probes /\ staged \in [Names -> Bytes \cup {Unset}]
        /\ job \in [Jobs -> [pc : JobPhases, todo : SUBSET Files]]
    BY <1>0 DEF BuildTypes
  <2>4. archive[p] \in Bytes
    BY <2>1, PassedIsSeen, ImagesAssumption DEF Seen
  <2> HIDE DEF next
  <2>5. job'[p].pc = next
    BY <2>1, <2>3
  <2>6. put \in Bytes \cup {Unset} /\ (put # Unset => next = "staged" /\ put = archive[p])
    BY <2>4, <2>5
  <2> HIDE DEF put
  <2>7. BuildTypes'
    <3>1. [pc |-> next, todo |-> {}] \in [pc : JobPhases, todo : SUBSET Files]
      BY <2>2 DEF JobPhases
    <3>2. job' \in [Jobs -> [pc : JobPhases, todo : SUBSET Files]]
      BY <1>0, <2>1, <2>3, <3>1
    <3>3. staged' \in [Names -> Bytes \cup {Unset}]
      BY <1>0, <2>1, <2>3, <2>6
    <3> QED
      BY <2>1, <3>2, <3>3 DEF BuildTypes, Planned
  <2>8. ASSUME NEW q \in Probes PROVE JobInv(q)'
    <3>1. probe' = probe /\ archive' = archive
      BY <2>1 DEF smokeVars
    <3>2. CASE q # p
      <4>1. job'[q] = job[q] /\ staged'[q] = staged[q]
        BY <1>0, <2>1, <2>3, <3>2
      <4> QED
        BY <2>1, <3>1, <4>1 DEF JobInv, Planned
    <3>3. CASE q = p
      <4>1. staged'[p] = put
        BY <1>0, <2>1, <2>3
      <4> QED
        BY <2>1, <2>2, <2>5, <2>6, <3>1, <3>3, <4>1 DEF JobInv, Planned
    <3> QED
      BY <3>2, <3>3
  <2> QED
    BY <1>5, <2>1, <2>7, <2>8, SmokeFrame DEF registryVars
<1>6. UNCHANGED vars => UNCHANGED <<buildVars, smokeVars, staged>>
  BY DEF vars
<1>7. Promote => UNCHANGED <<buildVars, smokeVars, staged>>
  BY DEF Promote
<1> QED
  BY <1>1, <1>2, <1>3, <1>4, <1>5, <1>6, <1>7 DEF Next

\* The invariant of the whole is inductive.
LEMMA ImagesStepKeepsInv == ImagesInv /\ [Next]_vars => ImagesInv'
<1> SUFFICES ASSUME ImagesInv, [Next]_vars PROVE ImagesInv'
  OBVIOUS
<1>1. /\ SmokeInv' /\ BuildTypes' /\ \A p \in Probes : JobInv(p)'
      /\ release' = release \/ Promote
      /\ staged' = staged \/ \E p \in Probes : Stage(p)
  BY ImagesStepKeepsJobs
<1>2. RegistryInv'
  BY StepsAreRegistrySteps, RegistryStepKeepsInv DEF ImagesInv
<1>3. Released'
  <2>1. CASE Promote
    BY <2>1 DEF Promote, PublishRelease, Released
  <2>2. CASE release' = release /\ staged' = staged
    BY <2>2 DEF ImagesInv, Released
  <2>3. ASSUME NEW p \in Probes, Stage(p) PROVE Released'
    <3>1. job[p].pc = "built" /\ release' = release
      BY <2>3 DEF Stage, StageJob, registryVars
    <3>2. staged[p] = Unset /\ p \in Names
      BY <3>1, ImagesAssumption DEF ImagesInv, JobInv
    <3> QED
      BY <3>1, <3>2 DEF ImagesInv, Released
  <2> QED
    BY <1>1, <2>1, <2>2, <2>3
<1>4. ServedIsReleased'
  <2>1. CASE Promote
    BY <2>1 DEF Promote, PublishRelease, ImagesInv, ServedIsReleased
  <2>2. CASE RegistryStep
    BY <2>2, RegistryKeepsServed DEF ImagesInv
  <2>3. CASE UNCHANGED registryVars
    BY <2>3 DEF registryVars, ImagesInv, ServedIsReleased
  <2> QED
    BY <2>1, <2>2, <2>3 DEF Next, vars, BuildImage, Stage
<1> QED
  BY <1>1, <1>2, <1>3, <1>4 DEF ImagesInv

\* So it always holds.
LEMMA ImagesInvariant == Spec => []ImagesInv
BY ImagesInitHasInv, ImagesStepKeepsInv, PTL DEF Spec

-----------------------------------------------------------------------------
(* Theorems.                                                                  *)

\* However commands fail, answer late or are applied after a kill: a probe with
\* a receipt has left nothing with the daemon and nothing is under way for it,
\* and whatever any probe left is named by its intent (smoke, runtime, cleanup).
THEOREM LeftoversKnown == Spec => []LeftoversAreKnown
<1>1. ImagesInv => LeftoversAreKnown
  <2> SUFFICES ASSUME ImagesInv PROVE LeftoversAreKnown
    OBVIOUS
  <2>1. \A p \in Probes : ProbeInv(p)
    BY DEF ImagesInv, SmokeInv
  <2>2. ASSUME NEW p \in Probes, receipt[p] # None
        PROVE  containers[p] = None /\ TagsOf(p) = {} /\ LateOf(p) = {}
    <3>1. probe[p].pc = "passed" /\ Sound(p)
      BY <2>1, <2>2 DEF ProbeInv, Receipted, Sound
    <3> QED
      BY <2>1, <3>1 DEF ProbeInv, Tracked
  <2>3. PassedLeavesNothing
    BY <2>2 DEF PassedLeavesNothing, TagsOf, LateOf
  <2>4. LeftoversAreNamed
    BY <2>1 DEF LeftoversAreNamed, ProbeInv, OwnsItsImage, TagsOf, LateOf
  <2> QED
    BY <2>3, <2>4 DEF LeftoversAreKnown
<1> QED
  BY <1>1, ImagesInvariant, PTL

(* What a step may not take from others.                                      *)
KeepsOthers ==
  /\ \A r \in refs \ refs' : r[1] # Other
  /\ \A i \in images \ images' : <<Other, i>> \notin refs
  /\ containers'[Other] = containers[Other]

\* No command of a probe takes anything from others: its tag is its own, and the
\* image goes with its last tag only.
LEMMA CommandsKeepOthers ==
  ASSUME DaemonTypes, NEW c, c.do \in Does, c.probe \in Probes, c.image \in Stored, Applied(c)
  PROVE  KeepsOthers
<1>1. Effect(c) /\ c.probe # Other /\ c.probe \in Owners /\ Other \in Owners
  BY AppliedOwn, SmokeAssumption DEF Owners
<1>2. containers'[Other] = containers[Other]
  BY <1>1, AppliedFrame
<1>3. \A r \in refs \ refs' : r[1] # Other
  BY <1>1 DEF Effect, Does
<1>4. \A i \in images \ images' : <<Other, i>> \notin refs
  <2>1. CASE c.do = "untag"
    <3>1. images' = images \/ (images' = images \ {c.image} /\ Tagged(c.image) = {<<c.probe, c.image>>})
      BY <2>1 DEF Applied, Untag
    <3>2. ASSUME Tagged(c.image) = {<<c.probe, c.image>>} PROVE <<Other, c.image>> \notin refs
      <4>1. SUFFICES ASSUME <<Other, c.image>> \in refs PROVE FALSE
        OBVIOUS
      <4>2. <<Other, c.image>> \in Tagged(c.image)
        BY <4>1 DEF Tagged
      <4> QED
        BY <1>1, <3>2, <4>2
    <3> QED
      BY <3>1, <3>2
  <2>2. CASE c.do = "load"
    BY <2>2 DEF Applied, Load
  <2>3. CASE c.do \in {"create", "start", "rm"}
    BY <2>3 DEF Applied
  <2> QED
    BY <2>1, <2>2, <2>3 DEF Does
<1> QED
  BY <1>2, <1>3, <1>4 DEF KeepsOthers

\* A step of a probe sends one command of its own, or none.
LEMMA ProbeSendsItsOwn ==
  ASSUME NEW p \in Probes, ProbeStep(p) \/ Kill(p) \/ ReplaceArchive(p)
  PROVE  \/ probe[p].pc \in Working /\ \E do \in Does : Applied(Ask(p, do))
         \/ UNCHANGED daemon
<1>1. CASE Begin(p) \/ Check(p) \/ Attach(p) \/ Verify(p) \/ WriteOutcome(p) \/ WriteReceipt(p)
           \/ Kill(p) \/ ReplaceArchive(p)
  BY <1>1 DEF Begin, Check, Attach, Verify, WriteOutcome, WriteReceipt, Kill, ReplaceArchive, Local, daemon
<1>2. CASE Import(p) \/ Create(p) \/ Start(p)
  BY <1>2 DEF Import, Create, Start, Command, Local, daemon, Does, Working
<1>3. CASE CleanupContainer(p) \/ CleanupImage(p)
  BY <1>3 DEF CleanupContainer, CleanupImage, Command, Local, daemon, Does, Working
<1> QED
  BY <1>1, <1>2, <1>3 DEF ProbeStep

\* Whatever the probes do to the daemon they share, answered, unanswered or late,
\* nobody else's tag, container or tagged image goes ("Only its unique temporary
\* image tag and container may be removed").
THEOREM OthersUntouched == Spec => OthersKeepTheirs
<1>1. ImagesInv /\ [Next]_vars => [~OthersUseImages => KeepsOthers]_smokeVars
  <2> SUFFICES ASSUME ImagesInv, Next, ~OthersUseImages PROVE KeepsOthers
    BY DEF vars, KeepsOthers
  <2>1. DaemonTypes /\ late \subseteq CommandType /\ SmokeTypes
    BY TypesApart DEF ImagesInv, SmokeInv
  <2>2. CASE UNCHANGED daemon
    BY <2>2 DEF daemon, KeepsOthers
  <2>3. ASSUME NEW p \in Probes, probe[p].pc \in Working, NEW do \in Does, Applied(Ask(p, do))
        PROVE  KeepsOthers
    <3> DEFINE c == Ask(p, do)
    <3>1. Began(p) /\ OwnsItsImage(p)
      BY <2>3 DEF Began, Working, ImagesInv, SmokeInv, ProbeInv
    <3>2. c.do \in Does /\ c.probe \in Probes /\ c.image \in Stored /\ Applied(c)
      BY <2>1, <2>3, <3>1, AskIsCommand DEF Stored
    <3> HIDE DEF c
    <3> QED
      BY <2>1, <3>2, CommandsKeepOthers
  <2>4. CASE AppliedLate
    <3>1. PICK c \in late : Applied(c) \/ UNCHANGED daemon
      BY <2>4 DEF AppliedLate
    <3>2. c.do \in Does /\ c.probe \in Probes /\ c.image \in Stored
      BY <2>1 DEF CommandType, Does, Stored
    <3> QED
      BY <2>1, <2>2, <3>1, <3>2, CommandsKeepOthers
  <2>5. ASSUME NEW p \in Probes, ContainerExits(p) PROVE KeepsOthers
    <3>1. Other # p
      BY SmokeAssumption
    <3> QED
      BY <2>5, <3>1 DEF ContainerExits, KeepsOthers
  <2>6. CASE SmokeStep
    BY <2>2, <2>3, <2>4, <2>5, <2>6, ProbeSendsItsOwn DEF SmokeStep, Probing, ReplacedInTime
  <2>7. CASE ~SmokeStep
    BY <2>2, <2>7 DEF Next, smokeVars, daemon, Promote, BuildImage, Stage
  <2> QED
    BY <2>6, <2>7
<1>2. [][~OthersUseImages => KeepsOthers]_smokeVars => OthersKeepTheirs
  BY PTL DEF OthersKeepTheirs, KeepsOthers
<1> QED
  BY <1>1, <1>2, ImagesInvariant, PTL DEF Spec

\* What a repository serves under the version was staged after a probe passed whose
\* container ran the very executable the receipt names and printed the planned
\* version, built from files that all carried the plan; it is the archive of the
\* receipt, unless that was replaced between the probe's last look and the staging.
THEOREM PublishedHasRun == Spec => []PublishedWasRun
<1>1. ImagesInv => PublishedWasRun
  <2> SUFFICES ASSUME ImagesInv, NEW p \in Probes, tags[p][Version] \notin {Unset, Foreign}
               PROVE  /\ receipt[p] # None /\ ran[p] = receipt[p].binary
                      /\ Prints(ran[p]) = Expected.version /\ inputs[p] = Planned
                      /\ MetadataAccepted(Content[tags[p][Version]])
                      /\ ~swapped[p] => /\ receipt[p].archive = tags[p][Version]
                                        /\ ran[p] = Runs[Report[tags[p][Version]].image]
    BY DEF PublishedWasRun
  <2>1. release # Unset /\ tags[p][Version] = release[p] /\ p \in Names
    BY ImagesAssumption DEF ImagesInv, ServedIsReleased
  <2>2. tags[p][Version] = staged[p] /\ staged[p] # Unset
    BY <2>1 DEF ImagesInv, Released
  <2>3. /\ probe[p].pc = "passed" /\ staged[p] = archive[p] /\ inputs[p] = Planned
        /\ MetadataAccepted(Content[staged[p]])
    BY <2>2 DEF ImagesInv, JobInv
  <2>4. PICK a : a = probe[p].oci.archive
    OBVIOUS
  <2>5. /\ receipt[p] = probe[p].oci /\ Seen(p) /\ probe[p].oci \in Reports
        /\ a \in InspectedArchives /\ probe[p].oci = Report[a]
    BY <2>3, <2>4, PassedIsSeen DEF ImagesInv
  <2>6. Report[a].binary = Runs[Report[a].image]
    BY <2>5, ReportedIsRun
  <2>7. receipt[p] # None
    BY <2>5, SmokeAssumption DEF Reports
  <2>8. ran[p] = Runs[Report[a].image] /\ Prints(ran[p]) = Expected.version /\ (~swapped[p] => archive[p] = a)
    BY <2>4, <2>5 DEF Seen, Image
  <2> QED
    BY <2>2, <2>3, <2>4, <2>5, <2>6, <2>7, <2>8
<1> QED
  BY <1>1, ImagesInvariant, PTL

\* Seen from the registry, builds, probes and promotions are publications of some
\* archives: the whole implements the registry's own specification.
THEOREM ImagesImplementRegistry == Spec => RegistrySpec
<1>1. ImagesInit => RegistryInit
  BY DEF ImagesInit
<1>2. ImagesInv /\ [Next]_vars => [RegistryNext]_registryVars
  BY StepsAreRegistrySteps
<1> QED
  BY <1>1, <1>2, ImagesInvariant, PTL DEF Spec, RegistrySpec, RegistryNext

\* So what holds of the registry whatever it is given holds of what is built and
\* smoked: latest only of complete releases, digests only of served ones, and no
\* version tag that moves.
THEOREM ReleasedImagesAreServed == Spec => []LatestIsComplete /\ []ResolvedIsServed /\ VersionTagNeverMoves
BY ImagesImplementRegistry, LatestFollowsAll, ResolvedIsComplete, VersionTagsStay, PTL
=============================================================================
