------------------------------- MODULE Images -------------------------------
(***************************************************************************)
(* From a plan to the registry: each container archive of a release is      *)
(* built (Build), smoked (Smoke), staged with its receipt, released, and    *)
(* published to its repository (Registry).                                  *)
(***************************************************************************)
EXTENDS Build, Smoke, Registry

\* Each job has its probe, and what the builder may make of what it reads.
CONSTANT BuiltFrom

ASSUME ImagesAssumption ==
  /\ Jobs = Probes /\ Probes \subseteq Names
  /\ BuiltFrom \in [BOOLEAN -> SUBSET Archives]
  /\ Archives \cup (Names \ Probes) \subseteq Bytes

VARIABLE staged    \* release-assets/<target> of each build: nothing, or its archive

vars == <<buildVars, smokeVars, registryVars, staged>>

\* The archives of the names that have no probe come from builds of their own.
ImagesInit ==
  /\ BuildInit
  /\ \E used \in SUBSET Popular : images = used /\ refs \in SUBSET ({Other} \X used)
  /\ containers = [o \in Owners |-> None]
  /\ late = {}
  /\ archive = [p \in Probes |-> None]
  /\ probe = [p \in Probes |->
       [pc |-> "idle", oci |-> None, preexisting |-> FALSE, imported |-> FALSE,
        known |-> FALSE, failed |-> FALSE]]
  /\ diagnostics = [p \in Probes |-> {}]
  /\ receipt = [p \in Probes |-> None]
  /\ ran = [p \in Probes |-> Nothing]
  /\ swapped = [p \in Probes |-> FALSE]
  /\ RegistryInit
  /\ staged = [n \in Names |-> IF n \in Probes THEN Unset ELSE n]

\* docker build --output type=oci.
BuildImage(p) ==
  /\ BuildPackages(p)
  /\ \E a \in BuiltFrom[files[p] = Planned] : archive' = [archive EXCEPT ![p] = a]
  /\ UNCHANGED <<images, refs, containers, late, probe, diagnostics, receipt, ran, swapped, registryVars, staged>>

\* stage_release_assets.py after the smoke step: the archive and the receipt.
Stage(p) ==
  /\ probe[p].pc = "passed"
  /\ StageJob(p, MetadataAccepted(Content[archive[p]]))
  /\ staged' = [staged EXCEPT ![p] = IF job'[p].pc = "staged" THEN archive[p] ELSE Unset]
  /\ UNCHANGED <<smokeVars, registryVars>>

\* The release engine gathers the staged assets of every build, publishes them
\* as a candidate and promotes the same bytes (Release).
Promote ==
  /\ \A n \in Names : staged[n] # Unset
  /\ PublishRelease(staged)
  /\ UNCHANGED <<buildVars, smokeVars, staged>>

\* The steps of a job run one after the other; smoke starts with sync --check.
Probing(p) ==
  /\ job[p].pc = "built" /\ ProbeStep(p)
  /\ probe[p].pc = "idle" /\ TRUE \notin InSync(p) => probe'[p].pc = "refused"

\* Once it is staged the file is not read again.
ReplacedInTime(p) == job[p].pc = "built" /\ ReplaceArchive(p)

SmokeStep ==
  \/ \E p \in Probes : Probing(p) \/ Kill(p) \/ ReplacedInTime(p) \/ ContainerExits(p)
  \/ AppliedLate \/ OthersUseImages

Next ==
  \/ \E j \in Jobs : BuildStep(j) /\ UNCHANGED <<smokeVars, registryVars, staged>>
  \/ SmokeStep /\ UNCHANGED <<buildVars, registryVars, staged>>
  \/ RegistryStep /\ UNCHANGED <<buildVars, smokeVars, staged>>
  \/ Promote \/ \E p \in Probes : BuildImage(p) \/ Stage(p)

Spec == ImagesInit /\ [][Next]_vars

\* A probe runs on unless it is killed: bounded_command gives every command a
\* deadline.  Nothing is assumed of the daemon, the containers or the operators.
FairSpec == Spec /\ \A p \in Probes : WF_vars(Probing(p) /\ UNCHANGED <<buildVars, registryVars, staged>>)

-----------------------------------------------------------------------------
(* Properties.                                                              *)

\* What a repository serves under the version was executed before: it is the
\* archive of a passed probe, whose container ran the executable that the receipt
\* names (final_binary's reading of the layers is what the runtime mounted) and
\* printed the planned version.  It was built from version files that all carried
\* the plan, though sync was interrupted and run again or a tool of the build
\* rewrote one of them: what the receipts attest is what the compiler read.
\* No step compares the archive with the receipt once the probe has verified it:
\* of one that was replaced after that only what verify_artifact reads is known.
PublishedWasRun ==
  \A p \in Probes : tags[p][Version] \notin {Unset, Foreign} =>
    LET served == tags[p][Version]
    IN  /\ receipt[p] # None /\ ran[p] = receipt[p].binary
        /\ Prints(ran[p]) = Expected.version /\ inputs[p] = Planned
        /\ MetadataAccepted(Content[served])
        /\ ~swapped[p] => receipt[p].archive = served /\ ran[p] = Runs[Report[served].image]
=============================================================================
