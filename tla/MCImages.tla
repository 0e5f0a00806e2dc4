------------------------------ MODULE MCImages ------------------------------
(* Instances of Images for TLC: small archives, and two images to release.   *)
EXTENDS Images

CONSTANTS n1, n2

Plan == [platform |-> "amd64", version |-> "1.2", revision |-> "sha"]

Right == [version |-> "1.2"]
Wrong == [version |-> "1.1"]

Dir(path) == [kind |-> "dir", path |-> path, bytes |-> Nothing]
File(path, b) == [kind |-> "file", path |-> path, bytes |-> b]
Whiteout(path) == [kind |-> "whiteout", path |-> path, bytes |-> Nothing]
Opaque(path) == [kind |-> "opaque", path |-> path, bytes |-> Nothing]

ImageOf(id, layers) ==
  [media |-> "image", platform |-> Plan.platform, layers |-> layers,
   config |-> [digest |-> id, platform |-> Plan.platform, version |-> Plan.version, revision |-> Plan.revision,
               entrypoint |-> TRUE, diffs |-> layers]]

AttestationOf(image) ==
  [media |-> "attestation", subject |-> image,
   statements |-> {[about |-> image, predicate |-> x] : x \in {"sbom", "provenance"}}]

IndexOf(manifests) == [media |-> "index", manifests |-> manifests]

\* A binary of an earlier version, and the one that replaces it.
Replaced == ImageOf("replaced", <<{Dir(<<"usr">>), File(Target, Wrong)}, {Whiteout(<<"usr", "bin">>), File(Target, Right)}>>)
Outdated == ImageOf("outdated", <<{File(Target, Right)}, {Opaque(<<"usr">>), File(Target, Wrong)}>>)

\* The planned image, the same image in another index, and an image that prints
\* an earlier version.
MCContent ==
  [right |-> <<IndexOf(<<Replaced, AttestationOf(Replaced)>>)>>,
   again |-> <<AttestationOf(Replaced), Replaced>>,
   wrong |-> <<Outdated, AttestationOf(Outdated)>>]
MCArchives == DOMAIN MCContent

MCMapping == <<n1, n2>>
MCBytes == MCArchives \cup {n2}

\* What the builder makes of the planned files, and of others.
MCBuiltFrom == [planned \in BOOLEAN |-> IF planned THEN {"right", "again"} ELSE {"right", "wrong"}]

-----------------------------------------------------------------------------
(* The readers of an archive against their references, over all layers made  *)
(* of a few entries and all small indexes.                                   *)

Entries ==
  {Dir(<<"usr">>), File(Target, Right), File(<<"etc">>, Right), Opaque(<<>>), Opaque(<<"usr">>),
   Opaque(Target), Whiteout(<<"usr", "bin">>), Whiteout(Target), [File(<<"usr">>, Right) EXCEPT !.kind = "link"]}

\* final_binary finds what the runtime mounts, layer by layer.
ASSUME FinalBinaryIsMounted ==
  \A lower, upper \in SUBSET Entries :
    LayerAccepted(lower) /\ LayerAccepted(upper) =>
      FinalBinary(<<lower, upper>>) = Executed([diffs |-> <<lower, upper>>])

Manifests ==
  {Replaced, Outdated, AttestationOf(Replaced), AttestationOf(Outdated),
   [AttestationOf(Replaced) EXCEPT !.subject = Nothing]}
Descriptors ==
  Manifests \cup {IndexOf(<<m>>) : m \in Manifests}
    \cup {IndexOf(<<>>), IndexOf(<<IndexOf(<<IndexOf(<<Replaced>>)>>)>>)}

\* An accepted archive leaves whoever follows its indexes, deeper than walk does,
\* one image to run, the one that was reported.
ASSUME AcceptedRunsOneImage ==
  \A a \in BoundedSeq(Descriptors, 3) :
    ArchiveAccepted(a) => Runnable(a, MaxDepth + 2) = Images(a)

\* What the probe has accepted is not refused when it is staged.
ASSUME ReadersAgree ==
  \A a \in BoundedSeq(Descriptors, 3) : ArchiveAccepted(a) => MetadataAccepted(a)
=============================================================================
