-------------------------------- MODULE Oci --------------------------------
(***************************************************************************)
(* What the readers of an OCI archive accept of it and report:              *)
(* merge_oci_archives.Archive, smoke_release_container.inspect_oci and      *)
(* version_plan._OciMetadata.  Blobs are addressed by their content, so a   *)
(* digest is the content itself:                                            *)
(*   index        [media |-> "index", manifests]                            *)
(*   image        [media |-> "image", platform, config, layers]             *)
(*   attestation  [media |-> "attestation", subject, statements]            *)
(* and an archive is the sequence of descriptors in its index.json.  The    *)
(* byte and member limits of the readers are left out.                      *)
(***************************************************************************)
EXTENDS Naturals, FiniteSets, SequencesExt

CONSTANTS
  MaxDepth,   \* the nesting walk allows (8)
  Expected,   \* the platform, version and revision of the release plan
  Nothing     \* no file

ASSUME OciAssumption == MaxDepth \in Nat

\* TARGET, shortened, and ANCESTORS.
Target == <<"usr", "bin", "gateway">>
Ancestors == {<<"usr">>, <<"usr", "bin">>}

-----------------------------------------------------------------------------
(* Layers: sets of entries [kind, path, bytes], no two of them for the same *)
(* member.  A whiteout or an opaque marker carries the path it removes.     *)

Removes(e) == e.kind \in {"whiteout", "opaque"}

\* safe_member and final_binary: a member without a name, and a layer that puts
\* anything but a directory in the way of the target, or anything but a file in
\* its place, are refused.
LayerAccepted(layer) ==
  \A e \in layer :
    /\ ~Removes(e) => e.path # <<>>
    /\ e.path \in Ancestors => e.kind \in {"dir", "whiteout", "opaque"}
    /\ e.path = Target => e.kind \in {"file", "whiteout", "opaque"}

\* One turn of final_binary's loop: a replacement wins over the removal of
\* what the lower layers hold, wherever the two stand in the layer.
AfterLayer(binary, layer) ==
  LET replacement == {e \in layer : e.kind = "file" /\ e.path = Target}
      removesLower == \E e \in layer : Removes(e) /\ IsPrefix(e.path, Target)
  IN  IF replacement # {} THEN (CHOOSE e \in replacement : TRUE).bytes
      ELSE IF removesLower THEN Nothing ELSE binary

FinalBinary(layers) == FoldLeft(AfterLayer, Nothing, layers)

-----------------------------------------------------------------------------
(* The graph of an archive.                                                 *)

\* walk_index: an index stands for its children, and has some.
Opens(d) == d.media = "index" /\ d.manifests # <<>>
Opened(descriptors) ==
  FlattenSeq([i \in DOMAIN descriptors |->
    IF Opens(descriptors[i]) THEN descriptors[i].manifests ELSE <<descriptors[i]>>])

\* What walk has met once MaxDepth levels are open, in its order.
Leaves(archive) ==
  LET level[d \in 0..MaxDepth] == IF d = 0 THEN archive ELSE Opened(level[d - 1])
  IN  level[MaxDepth]

\* image: the platform and the labels are the expected ones, and the layers are
\* those of the configuration, one by one.
ImageAccepted(d) ==
  /\ d.platform = Expected.platform /\ d.config.platform = Expected.platform
  /\ d.config.version = Expected.version /\ d.config.revision = Expected.revision
  /\ d.config.diffs = d.layers

\* attestation: every statement is about the subject the manifest names.
AttestationAccepted(d) ==
  /\ d.statements # {}
  /\ \A s \in d.statements : s.about = d.subject

Images(archive) == {d \in ToSet(Leaves(archive)) : d.media = "image"}
Attestations(archive) == {d \in ToSet(Leaves(archive)) : d.media = "attestation"}

\* The one image of an archive that has no more.
TheImage(archive) == CHOOSE d \in Images(archive) : TRUE

\* Archive.__init__, walk and validate_complete_graph: no index is left to open,
\* no manifest comes twice, one image is runnable, the attestations are about it.
ArchiveAccepted(archive) ==
  LET leaves == Leaves(archive)
  IN  /\ archive # <<>>
      /\ \A i \in DOMAIN leaves :
           CASE leaves[i].media = "index"       -> FALSE
             [] leaves[i].media = "image"       -> ImageAccepted(leaves[i])
             [] leaves[i].media = "attestation" -> AttestationAccepted(leaves[i])
      /\ IsInjective(leaves)
      /\ Cardinality(Images(archive)) = 1
      /\ \A d \in Attestations(archive) : d.subject = TheImage(archive)

\* inspect_oci: the bill of materials and the provenance are there, and so is
\* the executable.
Predicates(archive) ==
  UNION {{s.predicate : s \in d.statements} : d \in Attestations(archive)}

Inspected(archive) ==
  /\ ArchiveAccepted(archive)
  /\ TheImage(archive).config.entrypoint
  /\ {"sbom", "provenance"} \subseteq Predicates(archive)
  /\ \A i \in DOMAIN TheImage(archive).layers : LayerAccepted(TheImage(archive).layers[i])
  /\ FinalBinary(TheImage(archive).layers) # Nothing

-----------------------------------------------------------------------------
(* The second reader, _OciMetadata of version_plan.py: what is staged.       *)

\* runnable: the platforms and the version; neither revision nor layers.
MetadataImage(d) ==
  d.platform = d.config.platform /\ d.config.version = Expected.version

\* attestation: the statements are about one of the images of the archive, or a
\* legacy attestation does not say what they are about.
MetadataAttestation(d, images) == d.statements # {} /\ d.subject \in images \cup {Nothing}

\* verify: the graph is read to its end, and something in it is runnable.
MetadataAccepted(archive) ==
  LET leaves == ToSet(Leaves(archive))
      images == {d \in leaves : d.media = "image"}
  IN  /\ images # {}
      /\ \A d \in leaves :
           CASE d.media = "index"       -> FALSE
             [] d.media = "image"       -> MetadataImage(d)
             [] d.media = "attestation" -> MetadataAttestation(d, images)

-----------------------------------------------------------------------------
(* The references: what a container runtime mounts, what a registry's        *)
(* reader pulls.                                                            *)

\* The directory tree after one more layer: whiteouts hide a path and what is
\* below it, opaque markers what is below a directory, which they put in place of
\* anything else, and an entry replaces what was at its path, with everything
\* below it unless both are directories.
Mounted(tree, layer) ==
  LET added == {e \in layer : ~Removes(e)}
      hidden(x) ==
        \/ \E e \in layer : e.kind = "whiteout" /\ IsPrefix(e.path, x.path)
        \/ \E e \in layer : /\ e.kind = "opaque" /\ IsPrefix(e.path, x.path)
                            /\ e.path # x.path \/ x.kind # "dir"
        \/ \E e \in added : e.path = x.path
        \/ \E e \in added : e.kind # "dir" /\ IsStrictPrefix(e.path, x.path)
  IN  {x \in tree : ~hidden(x)} \cup added

\* What the entrypoint of an image executes.
Executed(image) ==
  LET tree == FoldLeft(Mounted, {}, image.diffs)
      found == {x \in tree : x.path = Target /\ x.kind = "file"}
  IN  IF found = {} THEN Nothing ELSE (CHOOSE x \in found : TRUE).bytes

\* What someone who follows the indexes of the archive comes to, and the images
\* among it.
Reachable(archive, depth) ==
  LET reach[d \in 0..depth] ==
        IF d = 0 THEN ToSet(archive)
        ELSE reach[d - 1] \cup UNION {ToSet(x.manifests) : x \in {y \in reach[d - 1] : y.media = "index"}}
  IN  reach[depth]

Runnable(archive, depth) == {x \in Reachable(archive, depth) : x.media = "image"}
=============================================================================
