------------------------------- MODULE Smoke -------------------------------
(***************************************************************************)
(* smoke_release_container.py: a probe loads the exact archive of a build   *)
(* into a Docker daemon under a tag of its own, runs it once with --version,*)
(* removes what it made and writes a receipt.  Several probes and other     *)
(* users share the daemon.  A command may be refused, may be applied with   *)
(* its answer lost, and may be applied long after bounded_command gave up   *)
(* on it; a probe may be killed anywhere.                                   *)
(***************************************************************************)
EXTENDS Oci

CONSTANTS
  Probes,     \* the probes, each with the unique suffix of its tag and container
  Archives,   \* what the file inverter-gateway-container.oci.tar may hold, by digest
  Content,    \* the content of each archive (Oci)
  Popular,    \* the images that others use too
  Other,      \* the owner of tags that no probe made
  None        \* no report, no container

VARIABLES
  images,       \* the daemon's images, by configuration digest
  refs,         \* its tags: pairs of an owner and an image
  containers,   \* the container of each probe's name, and one of the others'
  late,         \* commands the daemon may still apply after their probe gave up
  archive,      \* the archive file in each probe's workspace
  probe,        \* what each probe knows
  diagnostics,  \* the files each wrote to container-smoke-diagnostics
  receipt,      \* the receipt file of each
  ran,          \* history: what each container executed, and printed the version of
  swapped       \* history: the archive was replaced after the probe's last look at it

daemon == <<images, refs, containers>>
smokeVars == <<images, refs, containers, late, archive, probe, diagnostics, receipt, ran, swapped>>

\* inspect_oci: the archives it accepts, and its report of each.
InspectedArchives == {a \in Archives : Inspected(Content[a])}
Config(a) == TheImage(Content[a]).config
Report ==
  [a \in InspectedArchives |->
     [archive |-> a, image |-> Config(a).digest, binary |-> FinalBinary(Config(a).diffs)]]

\* What a container of an image executes.
Runs ==
  [i \in {Report[a].image : a \in InspectedArchives} |->
     Executed(Config(CHOOSE a \in InspectedArchives : Report[a].image = i))]

\* A digest names one configuration, whose layers hold entries by their paths.
ASSUME SmokeAssumption ==
  /\ Other \notin Probes
  /\ None \notin {Report[a] : a \in InspectedArchives}
  /\ None \notin [image : {Report[a].image : a \in InspectedArchives},
                  status : {"created", "running", "exited"}]
  /\ \A a, b \in InspectedArchives : Config(a).digest = Config(b).digest => Config(a) = Config(b)
  /\ \A a \in InspectedArchives :
       /\ Config(a).diffs \in Seq(ToSet(Config(a).diffs))
       /\ \A layer \in ToSet(Config(a).diffs) : \A e \in layer : e.path \in Seq(STRING)

Owners == Probes \cup {Other}

Working == {"import", "check", "create", "start", "attach", "verify",
            "cleanup_container", "cleanup_image", "outcome", "receipt"}
Ended == {"passed", "failed", "killed", "refused"}

-----------------------------------------------------------------------------
(* The daemon.                                                              *)

Tagged(i) == {r \in refs : r[2] = i}
InUse(i) == \E o \in Owners : containers[o] # None /\ containers[o].image = i

\* image rm --no-prune <tag>: the last tag takes the image along, and is refused
\* while a container needs the image.
Untag(owner, i) ==
  /\ <<owner, i>> \in refs
  /\ Tagged(i) = {<<owner, i>>} => ~InUse(i)
  /\ refs' = refs \ {<<owner, i>>}
  /\ images' = IF Tagged(i) = {<<owner, i>>} THEN images \ {i} ELSE images
  /\ UNCHANGED containers

Load(owner, i) ==
  /\ images' = images \cup {i} /\ refs' = refs \cup {<<owner, i>>}
  /\ UNCHANGED containers

\* What a command does to the daemon.
Applied(c) ==
  CASE c.do = "load" -> Load(c.probe, c.image)
    [] c.do = "create" ->
         /\ c.image \in images /\ containers[c.probe] = None
         /\ containers' = [containers EXCEPT ![c.probe] = [image |-> c.image, status |-> "created"]]
         /\ UNCHANGED <<images, refs>>
    [] c.do = "start" ->
         /\ containers[c.probe] # None /\ containers[c.probe].status = "created"
         /\ containers' = [containers EXCEPT ![c.probe].status = "running"]
         /\ UNCHANGED <<images, refs>>
    [] c.do = "rm" ->
         /\ containers[c.probe] # None
         /\ containers' = [containers EXCEPT ![c.probe] = None]
         /\ UNCHANGED <<images, refs>>
    [] c.do = "untag" -> Untag(c.probe, c.image)

\* The container's process ends by itself, or never does.
ContainerExits(p) ==
  /\ containers[p] # None /\ containers[p].status = "running"
  /\ containers' = [containers EXCEPT ![p].status = "exited"]
  /\ ran' = [ran EXCEPT ![p] = Runs[containers[p].image]]
  /\ UNCHANGED <<images, refs, late, archive, probe, diagnostics, receipt, swapped>>

\* A command whose probe gave up on it is applied after all, or refused then.
AppliedLate ==
  \E c \in late :
    /\ late' = late \ {c}
    /\ Applied(c) \/ UNCHANGED daemon
    /\ UNCHANGED <<archive, probe, diagnostics, receipt, ran, swapped>>

\* Others load, tag and untag the same images, run them, and prune untagged ones.
OthersUseImages ==
  /\ \/ \E i \in Popular :
          \/ Load(Other, i) \/ Untag(Other, i)
          \/ Applied([do |-> "create", probe |-> Other, image |-> i])
     \/ Applied([do |-> "rm", probe |-> Other])
     \/ \E i \in images :
          /\ Tagged(i) = {} /\ ~InUse(i)
          /\ images' = images \ {i} /\ UNCHANGED <<refs, containers>>
  /\ UNCHANGED <<late, archive, probe, diagnostics, receipt, ran, swapped>>

-----------------------------------------------------------------------------
(* A probe.                                                                 *)

Image(p) == probe[p].oci.image
Ask(p, what) == [do |-> what, probe |-> p, image |-> Image(p)]

\* runtime's except clause: go on with the cleanup, and remember.
Fails(p, next) == [probe EXCEPT ![p].failed = TRUE, ![p].pc = next]
Goes(p, next) == [probe EXCEPT ![p].pc = next]

\* Mutant: a time-out or a refusal passes for a success.
CommandUnchecked(p, c, success, failure) ==
  \/ Applied(c) /\ probe' = success /\ UNCHANGED late
  \/ UNCHANGED daemon /\ late' \in {late, late \cup {c}} /\ probe' = success

\* bounded_command: only a reply in time with exit status 0 is a success; what
\* a refusal, a lost answer or a time-out did to the daemon is not known.
Command(p, c, success, failure) ==
  \/ Applied(c) /\ probe' = success /\ UNCHANGED late
  \/ Applied(c) /\ probe' = failure /\ UNCHANGED late
  \/ UNCHANGED <<daemon, late>> /\ probe' = failure
  \/ UNCHANGED daemon /\ late' = late \cup {c} /\ probe' = failure

\* A step that runs no command, or one that only reads.
Local(p) == UNCHANGED <<images, refs, containers, late>>

\* The start of runtime: is the image there already?
Inventoried(p, oci) ==
  [probe EXCEPT ![p].oci = oci, ![p].preexisting = oci.image \in images,
                ![p].pc = IF oci.image \in images THEN "check" ELSE "import"]

\* smoke: inspect the archive, look for its image and for the tag, and write the
\* intent before anything is changed.
Begin(p) ==
  /\ probe[p].pc = "idle"
  /\ \/ /\ probe' = Goes(p, "refused")
        /\ UNCHANGED diagnostics
     \/ /\ archive[p] \in InspectedArchives
        /\ <<p, Report[archive[p]].image>> \notin refs
        /\ probe' = Inventoried(p, Report[archive[p]])
        /\ diagnostics' = [diagnostics EXCEPT ![p] = {"intent"}]
  /\ Local(p) /\ UNCHANGED <<archive, receipt, ran, swapped>>

\* docker_archive inspects again what it wraps: the archive is the one inspected.
Wrapped(p) == archive[p] = probe[p].oci.archive

Import(p) ==
  /\ probe[p].pc = "import"
  /\ \/ /\ Wrapped(p)
        /\ Command(p, Ask(p, "load"),
                   [probe EXCEPT ![p].imported = TRUE, ![p].pc = "check"],
                   Fails(p, "cleanup_container"))
     \/ /\ ~Wrapped(p)
        /\ probe' = Fails(p, "cleanup_container") /\ Local(p)
  /\ UNCHANGED <<archive, diagnostics, receipt, ran, swapped>>

\* validate_runtime_image: the daemon has the image of the archive.
RuntimeImage(p) == Image(p) \in images

\* The tag, when there is one, shows the image.
Check(p) ==
  /\ probe[p].pc = "check"
  /\ \/ /\ RuntimeImage(p)
        /\ probe[p].imported => <<p, Image(p)>> \in refs
        /\ probe' = Goes(p, "create")
     \/ probe' = Fails(p, "cleanup_container")
  /\ Local(p) /\ UNCHANGED <<archive, diagnostics, receipt, ran, swapped>>

\* create --pull=never by image identifier; the reply names the container.
Create(p) ==
  /\ probe[p].pc = "create"
  /\ Command(p, Ask(p, "create"),
             [probe EXCEPT ![p].known = TRUE, ![p].pc = "start"], Fails(p, "cleanup_container"))
  /\ UNCHANGED <<archive, diagnostics, receipt, ran, swapped>>

\* start --attach ...
Start(p) ==
  /\ probe[p].pc = "start"
  /\ Command(p, Ask(p, "start"), Goes(p, "attach"), Fails(p, "cleanup_container"))
  /\ UNCHANGED <<archive, diagnostics, receipt, ran, swapped>>

\* Mutant: start --attach without a deadline.
AttachForever(p) ==
  /\ probe[p].pc = "attach"
  /\ containers[p] # None /\ containers[p].status = "exited"
  /\ probe' = Goes(p, "verify")
  /\ Local(p) /\ UNCHANGED <<archive, diagnostics, receipt, ran, swapped>>

\* ... waits for the container, no longer than its deadline.
Attach(p) ==
  /\ probe[p].pc = "attach"
  /\ \/ /\ containers[p] # None /\ containers[p].status = "exited"
        /\ probe' = Goes(p, "verify")
     \/ probe' = Fails(p, "cleanup_container")
  /\ Local(p) /\ UNCHANGED <<archive, diagnostics, receipt, ran, swapped>>

\* What --version of an executable prints.
Prints(binary) == IF binary = Nothing THEN Nothing ELSE binary.version

\* container_result: the exact container, of the exact image, has exited.
ContainerResult(p) ==
  /\ containers[p] # None
  /\ containers[p].status = "exited" /\ containers[p].image = Image(p)

\* Mutant: the archive is not looked at again.
VerifiedOnce(p) ==
  ContainerResult(p) /\ Prints(ran[p]) = Expected.version /\ RuntimeImage(p)

\* It printed the version of the plan, its image is still there and the archive
\* is still the one inspected.
Verified(p) ==
  /\ ContainerResult(p) /\ Prints(ran[p]) = Expected.version
  /\ RuntimeImage(p) /\ archive[p] = probe[p].oci.archive

Verify(p) ==
  /\ probe[p].pc = "verify"
  /\ \/ Verified(p) /\ probe' = Goes(p, "cleanup_container")
     \/ probe' = Fails(p, "cleanup_container")
  /\ Local(p) /\ UNCHANGED <<archive, diagnostics, receipt, ran, swapped>>

\* cleanup_container: find the container by name, check that it is the probe's,
\* remove it by identifier and look again.
CleanupContainer(p) ==
  /\ probe[p].pc = "cleanup_container"
  /\ \/ /\ containers[p] = None
        /\ probe' = Goes(p, "cleanup_image") /\ Local(p)
     \/ /\ containers[p] # None /\ containers[p].image = Image(p)
        /\ Command(p, Ask(p, "rm"), [probe EXCEPT ![p].known = TRUE, ![p].pc = "cleanup_image"],
                   Fails(p, "cleanup_image"))
     \/ probe' = Fails(p, "cleanup_image") /\ Local(p)
  /\ UNCHANGED <<archive, diagnostics, receipt, ran, swapped>>

\* Mutant: the image is removed by its identifier, with every tag it has.
CleanupImageById(p) ==
  /\ probe[p].pc = "cleanup_image"
  /\ images' = images \ {Image(p)} /\ refs' = refs \ Tagged(Image(p))
  /\ probe' = Goes(p, "outcome")
  /\ UNCHANGED <<containers, late, archive, diagnostics, receipt, ran, swapped>>

\* cleanup_image: keep an image that was there before, remove one's own tag.
CleanupImage(p) ==
  /\ probe[p].pc = "cleanup_image"
  /\ \/ /\ probe[p].preexisting
        /\ Image(p) \in images /\ <<p, Image(p)>> \notin refs
        /\ probe' = Goes(p, "outcome") /\ Local(p)
     \/ /\ ~probe[p].preexisting /\ <<p, Image(p)>> \notin refs
        /\ probe' = Goes(p, "outcome") /\ Local(p)
     \/ /\ ~probe[p].preexisting /\ <<p, Image(p)>> \in refs
        /\ Command(p, Ask(p, "untag"), Goes(p, "outcome"), Fails(p, "outcome"))
     \/ probe' = Fails(p, "outcome") /\ Local(p)
  /\ UNCHANGED <<archive, diagnostics, receipt, ran, swapped>>

\* outcome.json, whatever happened.
WriteOutcome(p) ==
  /\ probe[p].pc = "outcome"
  /\ diagnostics' = [diagnostics EXCEPT ![p] = @ \cup {"outcome"}]
  /\ probe' = Goes(p, IF probe[p].failed THEN "failed" ELSE "receipt")
  /\ Local(p) /\ UNCHANGED <<archive, receipt, ran, swapped>>

\* The receipt, once nothing about the cleanup is unknown.
WriteReceipt(p) ==
  /\ probe[p].pc = "receipt"
  /\ IF probe[p].known /\ (probe[p].preexisting \/ probe[p].imported)
       THEN /\ receipt' = [receipt EXCEPT ![p] = probe[p].oci]
            /\ probe' = Goes(p, "passed")
       ELSE probe' = Fails(p, "failed") /\ UNCHANGED receipt
  /\ Local(p) /\ UNCHANGED <<archive, diagnostics, ran, swapped>>

\* The process is killed; a command it has sent may still be applied.
Kill(p) ==
  /\ probe[p].pc \in Working
  /\ probe' = Goes(p, "killed")
  /\ \/ UNCHANGED late
     \/ \E x \in {<<"import", "load">>, <<"create", "create">>, <<"start", "start">>,
                  <<"cleanup_container", "rm">>, <<"cleanup_image", "untag">>} :
          x[1] = probe[p].pc /\ late' = late \cup {Ask(p, x[2])}
  /\ UNCHANGED <<images, refs, containers, archive, diagnostics, receipt, ran, swapped>>

\* Something writes to the archive file, which the probe and then the staging open
\* again: before the probe has verified it, or after.
Unverified == {"import", "check", "create", "start", "attach", "verify"}
ReplaceArchive(p) ==
  /\ probe[p].pc \in Working \cup {"passed"}
  /\ \E a \in Archives \ {archive[p]} : archive' = [archive EXCEPT ![p] = a]
  /\ swapped' = [swapped EXCEPT ![p] = probe[p].pc \notin Unverified]
  /\ Local(p) /\ UNCHANGED <<probe, diagnostics, receipt, ran>>

ProbeStep(p) ==
  \/ Begin(p) \/ Import(p) \/ Check(p) \/ Create(p) \/ Start(p) \/ Attach(p) \/ Verify(p)
  \/ CleanupContainer(p) \/ CleanupImage(p) \/ WriteOutcome(p) \/ WriteReceipt(p)

-----------------------------------------------------------------------------
(* Properties.                                                              *)

\* A probe that passed has left nothing on the runner and nothing is under way
\* that still could: "Success requires ... verified owned-container cleanup",
\* with every lost or late answer counted as unknown.
PassedLeavesNothing ==
  \A p \in Probes : receipt[p] # None =>
    /\ containers[p] = None
    /\ \A i \in images : <<p, i>> \notin refs
    /\ \A c \in late : c.probe # p

\* Whatever a probe made, or may still make, is named by an intent on disk: "An
\* exclusive intent is persisted before Docker mutations", so that leftovers of
\* a killed or timed-out probe can be told from everyone else's.
LeftoversAreNamed ==
  \A p \in Probes :
    \/ containers[p] # None
    \/ \E i \in images : <<p, i>> \in refs
    \/ \E c \in late : c.probe = p
    => "intent" \in diagnostics[p]

\* So a probe that passed is done with the runner, and one that did not has left
\* word of what to look for.
LeftoversAreKnown == PassedLeavesNothing /\ LeftoversAreNamed

\* No step on behalf of a probe takes away a tag or a container of anyone else,
\* nor an image that others tagged ("Only its unique temporary image tag and
\* container may be removed").
OthersKeepTheirs ==
  [][~OthersUseImages =>
       /\ \A r \in refs \ refs' : r[1] # Other
       /\ \A i \in images \ images' : <<Other, i>> \notin refs
       /\ containers'[Other] = containers[Other]]_smokeVars

\* A probe that began ends, and has recorded its outcome unless it was killed:
\* no command, and no container, can keep it waiting.
ProbesReport ==
  \A p \in Probes :
    probe[p].pc \in Working ~> probe[p].pc = "killed" \/ "outcome" \in diagnostics[p]
=============================================================================
