------------------------------- MODULE Build -------------------------------
(***************************************************************************)
(* A build job of release-build.yml: version_plan.py sync overlays the      *)
(* version files of a checkout with the frozen plan, the packages are built *)
(* from them, and stage_release_assets.py stages the packages with a        *)
(* receipt.  sync can be interrupted between two files and run again, and   *)
(* the tools of a build may rewrite the files they read.                    *)
(***************************************************************************)

CONSTANTS
  Jobs,        \* the build jobs, each in a checkout of its own
  Files,       \* the declared version files
  Rewritten,   \* the ones that the tools of a build may rewrite
  Absent       \* no evidence, no build

ASSUME BuildAssumption == Rewritten \subseteq Files

VARIABLES
  files,      \* the version files of each checkout: base, planned or edited
  evidence,   \* .release-inputs.json of each checkout: the contents after sync
  job,        \* where each job is, and the files sync still has to replace
  inputs      \* history: the version files each build read

buildVars == <<files, evidence, job, inputs>>

\* The files of the commit with the projection of the plan.
Planned == [f \in Files |-> "planned"]

BuildInit ==
  /\ files = [j \in Jobs |-> [f \in Files |-> "base"]]
  /\ evidence = [j \in Jobs |-> Absent]
  /\ job = [j \in Jobs |-> [pc |-> "sync", todo |-> {}]]
  /\ inputs = [j \in Jobs |-> Absent]

JobGoes(j, pc) == [job EXCEPT ![j] = [pc |-> pc, todo |-> {}]]

-----------------------------------------------------------------------------
(* version_plan.py sync.                                                    *)

\* verify_checkout: every file is as committed or as planned.
CheckoutAccepted(j) == \A f \in Files : files[j][f] \in {"base", "planned"}

\* sync_versions computes the edits of all files before any is made.
ReadInputs(j) ==
  /\ job[j].pc = "sync"
  /\ job' = IF CheckoutAccepted(j)
              THEN [job EXCEPT ![j] = [pc |-> "replace", todo |-> {f \in Files : files[j][f] = "base"}]]
              ELSE JobGoes(j, "failed")
  /\ UNCHANGED <<files, evidence, inputs>>

\* _apply_version_edits: one os.replace after the other, each of a file that is
\* still what was read.
Replace(j) ==
  /\ job[j].pc = "replace"
  /\ \/ \E f \in job[j].todo :
          IF files[j][f] = "base"
            THEN /\ files' = [files EXCEPT ![j][f] = "planned"]
                 /\ job' = [job EXCEPT ![j].todo = @ \ {f}]
            ELSE job' = JobGoes(j, "failed") /\ UNCHANGED files
     \/ /\ job[j].todo = {}
        /\ job' = JobGoes(j, "evidence") /\ UNCHANGED files
  /\ UNCHANGED <<evidence, inputs>>

\* sync dies half way, and is run again.
Interrupt(j) ==
  /\ job[j].pc \in {"replace", "evidence"}
  /\ job' = JobGoes(j, "sync")
  /\ UNCHANGED <<files, evidence, inputs>>

\* _write_input_evidence records what sync meant to write.
WriteEvidence(j) ==
  /\ job[j].pc = "evidence"
  /\ evidence' = [evidence EXCEPT ![j] = Planned]
  /\ job' = JobGoes(j, "check")
  /\ UNCHANGED <<files, inputs>>

-----------------------------------------------------------------------------
(* The build.                                                               *)

\* sync --check: the declared fields are those of the plan.  It may be so in a file
\* that a tool has rewritten, and never is in one that sync has yet to replace.
InSync(j) ==
  {ok \in BOOLEAN : IF ok THEN \A f \in Files : files[j][f] # "base" ELSE files[j] # Planned}

\* checked_version.
CheckVersion(j) ==
  /\ job[j].pc = "check"
  /\ \E ok \in InSync(j) : job' = JobGoes(j, IF ok THEN "build" ELSE "failed")
  /\ UNCHANGED <<files, evidence, inputs>>

\* A tool rewrites a version file, and leaves it so.
EditFile(j) ==
  /\ job[j].pc \in {"replace", "evidence", "check", "build", "built"}
  /\ \E f \in Rewritten : files' = [files EXCEPT ![j][f] = "edited"]
  /\ UNCHANGED <<evidence, job, inputs>>

\* The packages are built from the files as they are.
BuildPackages(j) ==
  /\ job[j].pc = "build"
  /\ inputs' = [inputs EXCEPT ![j] = files[j]]
  /\ job' = JobGoes(j, "built")
  /\ UNCHANGED <<files, evidence>>

-----------------------------------------------------------------------------
(* stage_release_assets.py.                                                 *)

\* verify_current_inputs: each file is still what the evidence says.
CurrentInputs(j) == \A f \in Files : files[j][f] = evidence[j][f]

\* sync --check and verify_staged_inputs: the evidence covers every declared file.
InputsUnchanged(j) == TRUE \in InSync(j) /\ evidence[j] # Absent /\ CurrentInputs(j)

\* The packages are copied to release-assets/<target>, inspected and listed in
\* the receipt; when any of it fails the directory is removed again.
StageJob(j, inspected) ==
  /\ job[j].pc = "built"
  /\ job' = JobGoes(j, IF InputsUnchanged(j) /\ inspected THEN "staged" ELSE "failed")
  /\ UNCHANGED <<files, evidence, inputs>>

BuildStep(j) ==
  \/ ReadInputs(j) \/ Replace(j) \/ Interrupt(j) \/ WriteEvidence(j) \/ CheckVersion(j)
  \/ EditFile(j)
=============================================================================
