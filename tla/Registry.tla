------------------------------ MODULE Registry ------------------------------
(***************************************************************************)
(* publish_verified.py and verified_images.py: operators copy the approved  *)
(* container archives of a stable release to their registry repositories,   *)
(* first every version tag and then, on request, every latest tag, and      *)
(* resolve a release to the digests the registry serves.  Operators work at *)
(* the same time, any command may fail with or without its effect, and any  *)
(* of them may stop for good.                                               *)
(***************************************************************************)
EXTENDS Naturals, Sequences

CONSTANTS
  Mapping,     \* the keys of container_assets in order; each has one repository
  Version,     \* the version of the stable release
  Publishers,  \* runs of publish_verified.py containers --execute
  Latest,      \* the publishers started with --latest
  Resolvers,   \* runs of verified_images.py
  Bytes,       \* what an archive may hold
  Held,        \* the names whose repository may hold the version already
  Foreign,     \* what it holds then
  Unset        \* no release, no tag, no file

Names == {Mapping[i] : i \in DOMAIN Mapping}
Labels == {Version, "latest"}

ASSUME RegistryAssumption ==
  /\ Mapping \in Seq(Names) /\ Mapping # <<>>
  /\ Latest \subseteq Publishers /\ Held \subseteq Names
  /\ Version # "latest" /\ Unset \notin Bytes

VARIABLES
  release,    \* the archives of the published stable release, by name
  tags,       \* the tags of each name's repository
  publisher,  \* where each publisher is, and the archives it downloaded
  resolver,   \* where each resolver is, and the archives it downloaded
  resolved    \* the output file of the resolvers

registryVars == <<release, tags, publisher, resolver, resolved>>

RegistryInit ==
  /\ release = Unset
  /\ \E held \in SUBSET Held :
       tags = [n \in Names |-> [l \in Labels |->
                 IF l = Version /\ n \in held THEN Foreign ELSE Unset]]
  /\ publisher = [u \in Publishers |-> [pc |-> "idle", at |-> 1, files |-> Unset]]
  /\ resolver = [v \in Resolvers |-> [pc |-> "idle", at |-> 1, files |-> Unset]]
  /\ resolved = Unset

-----------------------------------------------------------------------------
(* publish_verified.py.                                                     *)

\* Mutant: each image's latest follows its version at once.
CommandsByImage(u) ==
  IF u \in Latest
    THEN [i \in 1..(2 * Len(Mapping)) |->
            <<Mapping[(i + 1) \div 2], IF i % 2 = 1 THEN Version ELSE "latest">>]
    ELSE [i \in 1..Len(Mapping) |-> <<Mapping[i], Version>>]

\* container_commands: what is copied where, every version before any latest.
Commands(u) ==
  [i \in 1..Len(Mapping) |-> <<Mapping[i], Version>>]
    \o (IF u \in Latest THEN [i \in 1..Len(Mapping) |-> <<Mapping[i], "latest">>] ELSE <<>>)

At(x, pc, at) == [x EXCEPT !.pc = pc, !.at = at]

\* verified_assets: the published stable release, with the bytes its manifest
\* and its run evidence approve.  Refused, a publisher has changed nothing.
VerifiedAssets(u) ==
  /\ publisher[u].pc = "idle" /\ release # Unset
  /\ publisher' = [publisher EXCEPT ![u] = [pc |-> "preflight", at |-> 1, files |-> release]]
  /\ UNCHANGED <<release, tags, resolver, resolved>>

\* Mutant: an inventory that cannot be read counts as an empty one.
UnpublishedOrUnread(n) == TRUE

\* require_unpublished_version: the inventory shows that the version is not
\* there; an inventory that cannot be read proves nothing.
Unpublished(n) == tags[n][Version] = Unset

Preflight(u) ==
  /\ publisher[u].pc = "preflight"
  /\ LET i == publisher[u].at
     IN  \/ /\ Unpublished(Mapping[i])
            /\ publisher' = [publisher EXCEPT ![u] =
                 IF i = Len(Mapping) THEN At(@, "copy", 1) ELSE At(@, "preflight", i + 1)]
         \/ publisher' = [publisher EXCEPT ![u] = At(@, "failed", 1)]
  /\ UNCHANGED <<release, tags, resolver, resolved>>

\* skopeo copy --all --preserve-digests, one command after the other; the first
\* failure, whatever it left behind, ends the run.
Copied(u) ==
  LET target == Commands(u)[publisher[u].at]
  IN  [tags EXCEPT ![target[1]][target[2]] = publisher[u].files[target[1]]]

Copy(u) ==
  /\ publisher[u].pc = "copy"
  /\ \/ /\ tags' = Copied(u)
        /\ publisher' = [publisher EXCEPT ![u] =
             IF @.at = Len(Commands(u)) THEN At(@, "done", 1) ELSE At(@, "copy", @.at + 1)]
     \/ /\ tags' \in {Copied(u), tags}
        /\ publisher' = [publisher EXCEPT ![u] = At(@, "failed", 1)]
  /\ UNCHANGED <<release, resolver, resolved>>

-----------------------------------------------------------------------------
(* verified_images.py.                                                      *)

\* resolve verifies the release as a publisher does.
ResolveAssets(v) ==
  /\ resolver[v].pc = "idle" /\ release # Unset
  /\ resolver' = [resolver EXCEPT ![v] = [pc |-> "compare", at |-> 1, files |-> release]]
  /\ UNCHANGED <<release, tags, publisher, resolved>>

\* The registry serves the approved bytes under the version.
SameBytes(v, n) == tags[n][Version] = resolver[v].files[n]

\* Mutant: the first image stands for all.
CompareFirstDigest(v) ==
  /\ resolver[v].pc = "compare"
  /\ \/ /\ SameBytes(v, Mapping[1])
        /\ resolver' = [resolver EXCEPT ![v] = At(@, "write", 1)]
     \/ resolver' = [resolver EXCEPT ![v] = At(@, "failed", 1)]
  /\ UNCHANGED <<release, tags, publisher, resolved>>

CompareDigests(v) ==
  /\ resolver[v].pc = "compare"
  /\ LET i == resolver[v].at
     IN  \/ /\ SameBytes(v, Mapping[i])
            /\ resolver' = [resolver EXCEPT ![v] =
                 IF i = Len(Mapping) THEN At(@, "write", 1) ELSE At(@, "compare", i + 1)]
         \/ resolver' = [resolver EXCEPT ![v] = At(@, "failed", 1)]
  /\ UNCHANGED <<release, tags, publisher, resolved>>

\* write_output replaces the file in one step, or leaves it as it was.
WriteOutput(v) ==
  /\ resolver[v].pc = "write"
  /\ \/ /\ resolved' = resolver[v].files
        /\ resolver' = [resolver EXCEPT ![v] = At(@, "done", 1)]
     \/ resolver' = [resolver EXCEPT ![v] = At(@, "failed", 1)] /\ UNCHANGED resolved
  /\ UNCHANGED <<release, tags, publisher>>

\* The stable release is published, once (Release).
PublishRelease(archives) ==
  /\ release = Unset /\ release' = archives
  /\ UNCHANGED <<tags, publisher, resolver, resolved>>

RegistryStep ==
  \/ \E u \in Publishers : VerifiedAssets(u) \/ Preflight(u) \/ Copy(u)
  \/ \E v \in Resolvers : ResolveAssets(v) \/ CompareDigests(v) \/ WriteOutput(v)

\* What the registry is to the rest of a release: whatever archives it is of.
RegistrySpec ==
  RegistryInit /\ [][RegistryStep \/ \E archives \in [Names -> Bytes] : PublishRelease(archives)]_registryVars

-----------------------------------------------------------------------------
(* Properties.                                                              *)

\* A version tag is written once: no publisher, alone or racing with another,
\* moves one that is there ("Never overwrite an existing version tag, even on
\* retries").
VersionTagNeverMoves ==
  [][\A n \in Names : tags[n][Version] # Unset => tags'[n][Version] = tags[n][Version]]_registryVars

\* latest points into the release only once every repository serves its version
\* ("move container latest after every versioned image is published"), though a
\* run stops half way or two runs interleave.
LatestIsComplete ==
  release # Unset =>
    \A n \in Names : tags[n]["latest"] = release[n] =>
      \A m \in Names : tags[m][Version] = release[m]

\* The file of digests names all images of the release and what the registry
\* serves for each: a half published release is never resolved, and the file is
\* never half written.
ResolvedIsServed ==
  resolved # Unset => resolved = release /\ \A n \in Names : tags[n][Version] = release[n]
=============================================================================
