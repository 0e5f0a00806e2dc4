------------------------------ MODULE Release ------------------------------
(***************************************************************************)
(* The release engine under scripts/: GitHub Actions runs that reserve a   *)
(* build number in a compare-and-swap ledger (release_state.py), publish a *)
(* candidate under it (release_versioned.py) or promote an accepted release*)
(* candidate (release_control.py).  GitHub keeps the refs, the releases and*)
(* the ledger file; every call to it may be applied and its reply lost, and*)
(* a run may stop between any two calls and be run again.                  *)
(***************************************************************************)
EXTENDS Naturals, Sequences, FiniteSetsExt

CONSTANTS
  Runs,          \* workflow runs, by their numeric run id
  Event,         \* what started each: push, schedule, workflow_dispatch
  Channel,       \* the channel of each: nightly, beta, rc, stable
  Base,          \* the base version each is about
  Serialized,    \* the workflow's concurrency group is in force
  NumberFloor,   \* versioning.build_number_floor of the policy
  MaxNumber,     \* the largest native build number
  MaxAttempt,    \* bound of the model: attempts of each run
  MaxHead,       \* bound of the model: commits on the default branch
  NoPlan,        \* no reservation
  NoLedger       \* the ledger file does not exist

Events == {"push", "schedule", "workflow_dispatch"}
Channels == {"nightly", "beta", "rc", "stable"}

\* check_execution: the events that may publish on a channel.
Allowed(c) ==
  CASE c = "nightly" -> {"schedule", "workflow_dispatch"}
    [] c = "beta"    -> {"push", "workflow_dispatch"}
    [] OTHER         -> {"workflow_dispatch"}

Bases == {Base[r] : r \in Runs}
Tags == [base : Bases, channel : Channels, seq : Nat]
Plans == [number : Nat, tag : Tags, sha : Nat]
Ledgers == [counter : Nat, floor : Nat, plans : [Runs -> Plans \cup {NoPlan}]]

ASSUME ReleaseAssumption ==
  /\ Runs \subseteq Nat
  /\ Event \in [Runs -> Events] /\ Channel \in [Runs -> Channels]
  /\ \A r \in Runs : Event[r] \in Allowed(Channel[r])
  /\ DOMAIN Base = Runs
  /\ Serialized \in BOOLEAN
  /\ NumberFloor \in Nat /\ MaxNumber \in Nat /\ MaxHead \in Nat
  /\ MaxAttempt \in [Runs -> Nat]
  /\ NoPlan \notin Plans /\ NoLedger \notin Ledgers

VARIABLES
  head,       \* the commit at the head of the default branch
  branch,     \* refs/heads/release-version-state exists
  ledger,     \* release-version-state.json on it
  tags,       \* the tag refs
  releases,   \* the GitHub releases, drafts included
  evidence,   \* the attempts of runs whose release-evidence artifact is stored
  published,  \* history: the publications, in order
  pc,         \* where each run is
  attempt,    \* its attempt
  sha,        \* the commit it was started at
  plan,       \* the plan it carries (an artifact of the run)
  seen,       \* the ledger its next write replaces, or that its last one made
  source,     \* the default head it captured before publishing
  overtaken   \* history: the head moved before the run could confirm its source

github == <<head, branch, ledger, tags, releases, evidence, published>>
control == <<attempt, sha, source, overtaken>>
vars == <<head, branch, ledger, tags, releases, evidence, published,
          pc, attempt, sha, plan, seen, source, overtaken>>

-----------------------------------------------------------------------------
(* What a run reads.                                                        *)

\* A run that has not begun, or waits for the concurrency group.
Waiting == {"idle", "queued"}

\* How a run ends.
Concluded == {"failed", "closed", "superseded", "reused", "succeeded"}

Steps == {"prepare", "allocate", "reserve", "built", "approve", "staged", "begin",
          "consume", "tag", "create", "readback", "upload", "confirm", "patch", "evidence"}

Active(r) == pc[r] \in Steps

\* A push beta or a scheduled nightly publishes the current head only.
Automatic(r) == <<Event[r], Channel[r]>> \in {<<"push", "beta">>, <<"schedule", "nightly">>}

StableTag(b) == [base |-> b, channel |-> "stable", seq |-> 0]

\* The tag a run publishes: its plan's, or the stable one of its plan's base.
Target(r) == IF Channel[r] = "stable" THEN StableTag(plan[r].tag.base) ELSE plan[r].tag

\* ensure_absent: neither a tag, nor a release, nor a draft.
Absent(t) == t \notin tags /\ \A x \in releases : x.tag # t

Published(t) == \E x \in releases : x.tag = t /\ ~x.draft

\* read_state starts from an empty ledger where the branch was never made.
EmptyLedger == [counter |-> 0, floor |-> 0, plans |-> [r \in Runs |-> NoPlan]]
Content(l) == IF l = NoLedger THEN EmptyLedger ELSE l

\* ... and refuses a branch without the file.
Readable == ledger # NoLedger \/ ~branch

Reserved(l) == {r \in Runs : l.plans[r] # NoPlan}

\* The sequence numbers in use for a base and channel.
UsedSequences(b, c) ==
  {t.seq : t \in {u \in tags \cup {x.tag : x \in releases}
                        \cup {Content(ledger).plans[q].tag : q \in Reserved(Content(ledger))} :
                    u.base = b /\ u.channel = c}}

\* next_sequence and what reserve_plan adds; a nightly is named after its run.
Sequence(r) ==
  IF Channel[r] = "nightly" THEN r ELSE Max({0} \cup UsedSequences(Base[r], Channel[r])) + 1

NextNumber(l) == (IF l.counter > NumberFloor THEN l.counter ELSE NumberFloor) + 1

NewPlan(r) ==
  [number |-> NextNumber(Content(ledger)),
   tag    |-> [base |-> Base[r], channel |-> Channel[r], seq |-> Sequence(r)],
   sha    |-> sha[r]]

\* A bug: the reservation is confirmed, its place in the order is not.
EntitledAnyTime(r, l) == l.plans[r] = plan[r]

\* _verify_reservation.
Entitled(r, l) ==
  /\ l.plans[r] = plan[r]
  /\ plan[r].number > l.floor
  /\ \A q \in Reserved(l) : Published(l.plans[q].tag) => l.plans[q].number < plan[r].number

\* _verify_promotion_order.
InPromotionOrder(r, l) ==
  /\ \E q \in Runs : \A o \in Runs : l.plans[o] = plan[r] <=> o = q
  /\ plan[r].number >= l.floor
  /\ Published(plan[r].tag)
  /\ \A q \in Reserved(l) :
       l.plans[q].tag # plan[r].tag /\ Published(l.plans[q].tag) => l.plans[q].number <= plan[r].number

\* release_snapshot: a public release with every upload complete.
PublicAndWhole(x) == ~x.draft /\ x.whole

\* validate_run: the run has succeeded, and was not run again since.
RunSucceeded(x) == pc[x.run] = "succeeded" /\ attempt[x.run] = x.attempt

\* verify_evidence: what that attempt stored is still there.
HasEvidence(x) == <<x.run, x.attempt>> \in evidence

\* A bug: any public candidate will do, whatever became of its run.
AcceptedWhenPublic(p) == Published(p.tag)

\* What verified_rc and promote ask of a candidate.
Accepted(p) ==
  \E x \in releases : x.tag = p.tag /\ PublicAndWhole(x) /\ RunSucceeded(x) /\ HasEvidence(x)

\* The checks that precede every ledger write of a publication.
MayPublish(r, l) == IF Channel[r] = "stable" THEN InPromotionOrder(r, l) ELSE Entitled(r, l)

\* A bug: a base that has its stable release takes candidates still.
BaseNeverCloses(r) == Channel[r] \in Channels

\* The base of a beta or a release candidate has no stable tag yet.
BaseFree(r) == Channel[r] \in {"beta", "rc"} => Absent(StableTag(Base[r]))

\* superseded_candidate: one newer push run at the current head.
Replaced(r) == \E q \in Runs : q > r /\ Event[q] = "push" /\ pc[q] # "idle" /\ sha[q] = head

\* scheduled_reuse: a qualified release of the same source and base.
Reusable(r) ==
  \E q \in Reserved(Content(ledger)) :
    LET p == Content(ledger).plans[q]
    IN  /\ p.sha = sha[r] /\ p.tag.base = Base[r] /\ p.tag.channel \in {"beta", "rc"}
        /\ Accepted(p)

-----------------------------------------------------------------------------
ReleaseInit ==
  /\ head = 0 /\ branch = FALSE /\ ledger = NoLedger
  /\ tags = {} /\ releases = {} /\ evidence = {} /\ published = <<>>
  /\ pc = [r \in Runs |-> "idle"]
  /\ attempt = [r \in Runs |-> 0] /\ sha = [r \in Runs |-> 0]
  /\ plan = [r \in Runs |-> NoPlan] /\ seen = [r \in Runs |-> NoLedger]
  /\ source = [r \in Runs |-> 0] /\ overtaken = [r \in Runs |-> FALSE]

Goto(r, step) == pc' = [pc EXCEPT ![r] = step]

\* A step whose call was applied goes on, or ends the run when its reply is lost.
GotoOrLose(r, step) == \E next \in {step, "failed"} : Goto(r, next)

\* A merge to the default branch.
MoveHead ==
  /\ head < MaxHead
  /\ head' = head + 1
  /\ overtaken' = [r \in Runs |->
       \/ overtaken[r]
       \/ /\ Automatic(r) /\ pc[r] \notin {"idle", "patch"}
          /\ ~ \E x \in releases : x.run = r /\ ~x.draft]
  /\ UNCHANGED <<branch, ledger, tags, releases, evidence, published, pc, attempt, sha, plan, seen, source>>

\* An event starts a run at the current head, a push once for each commit; a
\* promotion names its candidate.
Trigger(r) ==
  /\ pc[r] = "idle"
  /\ Event[r] = "push" => \A q \in Runs : Event[q] = "push" /\ pc[q] # "idle" => sha[q] # head
  /\ Goto(r, "queued")
  /\ attempt' = [attempt EXCEPT ![r] = 1]
  /\ sha' = [sha EXCEPT ![r] = head]
  /\ IF Channel[r] = "stable"
     THEN \E q \in Reserved(Content(ledger)) :
            /\ Content(ledger).plans[q].tag.channel = "rc"
            /\ plan' = [plan EXCEPT ![r] = Content(ledger).plans[q]]
     ELSE UNCHANGED plan
  /\ UNCHANGED <<github, seen, source, overtaken>>

\* One run at a time holds the concurrency group.
Start(r) ==
  /\ pc[r] = "queued"
  /\ Serialized => \A q \in Runs : ~Active(q)
  /\ Goto(r, "prepare")
  /\ UNCHANGED <<github, control, plan, seen>>

-----------------------------------------------------------------------------
(* prepare and reserve_plan.                                                *)

\* closed_push_cycle: an automatic beta of an occupied base builds nothing.
VersionRequired(r) ==
  /\ pc[r] = "prepare" /\ Channel[r] # "stable"
  /\ Event[r] = "push" /\ StableTag(Base[r]) \in tags
  /\ Goto(r, "closed")
  /\ UNCHANGED <<github, control, plan, seen>>

\* A run that already holds a reservation keeps it.
Resume(r) ==
  /\ pc[r] = "prepare" /\ Channel[r] # "stable" /\ BaseFree(r) /\ Readable
  /\ r \in Reserved(Content(ledger))
  /\ plan' = [plan EXCEPT ![r] = Content(ledger).plans[r]]
  /\ Goto(r, "built")
  /\ UNCHANGED <<github, control, seen>>

\* A new plan, from the ledger as read here.
Allocate(r) ==
  /\ pc[r] = "prepare" /\ Channel[r] # "stable" /\ BaseFree(r) /\ Readable
  /\ r \notin Reserved(Content(ledger))
  /\ NewPlan(r).number <= MaxNumber
  /\ Absent(NewPlan(r).tag)
  /\ plan' = [plan EXCEPT ![r] = NewPlan(r)]
  /\ seen' = [seen EXCEPT ![r] = ledger]
  /\ Goto(r, "allocate")
  /\ UNCHANGED <<github, control>>

\* The first reservation creates the branch.
EnsureBranch(r) ==
  /\ pc[r] = "allocate"
  /\ branch' = TRUE
  /\ IF branch THEN Goto(r, "reserve") ELSE GotoOrLose(r, "reserve")
  /\ UNCHANGED <<head, ledger, tags, releases, evidence, published, control, plan, seen>>

\* A bug: the reservation forgets to advance the counter.
ReservationOnly(r, l) == [l EXCEPT !.plans[r] = plan[r]]

Reservation(r, l) ==
  [l EXCEPT !.counter = plan[r].number, !.plans[r] = plan[r]]

\* A bug: the write does not name the blob it replaces.
ReserveBlindly(r) ==
  /\ pc[r] = "reserve"
  /\ ledger' = Reservation(r, Content(seen[r]))
  /\ seen' = [seen EXCEPT ![r] = NoLedger]
  /\ GotoOrLose(r, "built")
  /\ UNCHANGED <<head, branch, tags, releases, evidence, published, control, plan>>

\* write_state replaces the very ledger that was read, or nothing.
Reserve(r) ==
  /\ pc[r] = "reserve"
  /\ ledger = seen[r]
  /\ ledger' = Reservation(r, Content(seen[r]))
  /\ seen' = [seen EXCEPT ![r] = NoLedger]
  /\ GotoOrLose(r, "built")
  /\ UNCHANGED <<head, branch, tags, releases, evidence, published, control, plan>>

-----------------------------------------------------------------------------
(* publish_versioned, and promote for the stable channel.                   *)

\* The first round of checks, once the gate has passed.
Verify(r) ==
  /\ pc[r] = "built" /\ Readable
  /\ Entitled(r, Content(ledger)) /\ Absent(plan[r].tag) /\ BaseFree(r)
  /\ Automatic(r) => head = sha[r]
  /\ Goto(r, "staged")
  /\ UNCHANGED <<github, control, plan, seen>>

\* An automatic candidate yields to a newer run, before and after staging.
Supersede(r) ==
  /\ pc[r] \in {"built", "staged"} /\ Readable /\ Automatic(r)
  /\ Entitled(r, Content(ledger))
  /\ pc[r] = "built" => Absent(plan[r].tag) /\ BaseFree(r)
  /\ head # sha[r] /\ Replaced(r)
  /\ Goto(r, "superseded")
  /\ UNCHANGED <<github, control, plan, seen>>

\* prepare of a promotion: verified_rc.
VerifyRC(r) ==
  /\ pc[r] = "prepare" /\ Channel[r] = "stable"
  /\ Accepted(plan[r])
  /\ Goto(r, "approve")
  /\ UNCHANGED <<github, control, plan, seen>>

\* promote, once approved: the checks before the candidate is downloaded.
Promote(r) ==
  /\ pc[r] = "approve" /\ Readable
  /\ Accepted(plan[r]) /\ InPromotionOrder(r, Content(ledger)) /\ Absent(Target(r))
  /\ Goto(r, "staged")
  /\ UNCHANGED <<github, control, plan, seen>>

\* A scheduled nightly that would repeat a qualified release ends here.
Reuse(r) ==
  /\ pc[r] = "staged" /\ Channel[r] = "nightly" /\ Event[r] = "schedule" /\ Readable
  /\ Entitled(r, Content(ledger)) /\ head = sha[r] /\ Reusable(r)
  /\ Goto(r, "reused")
  /\ UNCHANGED <<github, control, plan, seen>>

\* The second round, just before the first write, and the source captured there.
Recheck(r) ==
  /\ pc[r] = "staged" /\ Readable
  /\ MayPublish(r, Content(ledger))
  /\ Channel[r] = "stable" => Accepted(plan[r])
  /\ Automatic(r) => head = sha[r]
  /\ ~(Channel[r] = "nightly" /\ Event[r] = "schedule" /\ Reusable(r))
  /\ source' = [source EXCEPT ![r] = head]
  /\ Goto(r, "begin")
  /\ UNCHANGED <<github, attempt, sha, overtaken, plan, seen>>

\* begin_publication reads the ledger and checks it ...
BeginPublication(r) ==
  /\ pc[r] = "begin" /\ Readable
  /\ MayPublish(r, Content(ledger))
  /\ seen' = [seen EXCEPT ![r] = ledger]
  /\ Goto(r, "consume")
  /\ UNCHANGED <<github, control, plan>>

\* ... and consumes the number by raising the floor to it.
Consume(r) ==
  /\ pc[r] = "consume"
  /\ ledger = seen[r]
  /\ ledger' = [Content(seen[r]) EXCEPT !.floor = plan[r].number]
  /\ seen' = [seen EXCEPT ![r] = ledger']
  /\ GotoOrLose(r, "tag")
  /\ UNCHANGED <<head, branch, tags, releases, evidence, published, control, plan>>

-----------------------------------------------------------------------------
(* _publish_prepared.                                                       *)

\* A bug: an existing tag is overwritten.
PushTagForced(r) ==
  /\ pc[r] = "tag"
  /\ tags' = tags \cup {Target(r)}
  /\ GotoOrLose(r, "create")
  /\ UNCHANGED <<head, branch, ledger, releases, evidence, published, control, plan, seen>>

\* The tag ref, which GitHub creates at most once.
PushTag(r) ==
  /\ pc[r] = "tag"
  /\ Absent(Target(r))
  /\ tags' = tags \cup {Target(r)}
  /\ GotoOrLose(r, "create")
  /\ UNCHANGED <<head, branch, ledger, releases, evidence, published, control, plan, seen>>

Draft(r) == [run |-> r, attempt |-> attempt[r], tag |-> Target(r), number |-> plan[r].number,
             draft |-> TRUE, whole |-> FALSE]

\* The draft is asked for once.  Only a candidate looks for it when the answer
\* is ambiguous, whether or not the draft was made.
CreateRelease(r) ==
  /\ pc[r] = "create"
  /\ \/ /\ releases' = releases \cup {Draft(r)}
        /\ Goto(r, "upload")
     \/ /\ releases' \in {releases, releases \cup {Draft(r)}}
        /\ Goto(r, IF Channel[r] = "stable" THEN "failed" ELSE "readback")
  /\ UNCHANGED <<head, branch, ledger, tags, evidence, published, control, plan, seen>>

\* create_confirmation: neither the source nor the consumed ledger has moved.
CreateConfirmed(r) == head = source[r] /\ ledger = seen[r]

\* _reconcile_created_release: the one release of the tag is this run's draft.
Reconcile(r) ==
  /\ pc[r] = "readback"
  /\ CreateConfirmed(r)
  /\ {x \in releases : x.tag = Target(r)} = {Draft(r)}
  /\ Goto(r, "upload")
  /\ UNCHANGED <<github, control, plan, seen>>

\* The draft with every asset uploaded and read back.
Complete(r) == [Draft(r) EXCEPT !.whole = TRUE]

\* Each asset is uploaded once, and the inventory and its bytes are verified.
Upload(r) ==
  /\ pc[r] = "upload"
  /\ releases' = (releases \ {Draft(r)}) \cup {Complete(r)}
  /\ Goto(r, "confirm")
  /\ UNCHANGED <<head, branch, ledger, tags, evidence, published, control, plan, seen>>

\* confirm_automatic_source.
SourceStands(r) == Automatic(r) => head = source[r]

\* A bug: the source captured before the upload is taken for current.
ConfirmTag(r) ==
  /\ pc[r] = "confirm"
  /\ Target(r) \in tags
  /\ Goto(r, "patch")
  /\ UNCHANGED <<github, control, plan, seen>>

\* The tag is there, and the source of an automatic candidate is still the head.
ConfirmSource(r) ==
  /\ pc[r] = "confirm"
  /\ Target(r) \in tags
  /\ SourceStands(r)
  /\ Goto(r, "patch")
  /\ UNCHANGED <<github, control, plan, seen>>

\* The draft goes public.
Publish(r) ==
  /\ pc[r] = "patch"
  /\ releases' = {IF x.run = r /\ x.attempt = attempt[r] THEN [x EXCEPT !.draft = FALSE] ELSE x :
                    x \in releases}
  /\ published' = Append(published, [tag |-> Target(r), number |-> plan[r].number])
  /\ GotoOrLose(r, "evidence")
  /\ UNCHANGED <<head, branch, ledger, tags, evidence, control, plan, seen>>

\* The evidence of a candidate is stored and the run ends, well or not.
Conclude(r) ==
  /\ pc[r] = "evidence"
  /\ evidence' = IF Channel[r] = "stable" THEN evidence ELSE evidence \cup {<<r, attempt[r]>>}
  /\ GotoOrLose(r, "succeeded")
  /\ UNCHANGED <<head, branch, ledger, tags, releases, published, control, plan, seen>>

-----------------------------------------------------------------------------
\* What the runner had is gone; only a dispatch input outlives the attempt.
Forget(r) ==
  /\ plan' = [plan EXCEPT ![r] = IF Channel[r] = "stable" THEN @ ELSE NoPlan]
  /\ seen' = [seen EXCEPT ![r] = NoLedger]
  /\ source' = [source EXCEPT ![r] = 0]

\* A check refuses, a call is rejected, the job is cancelled or its runner lost.
Fail(r) ==
  /\ Active(r) \/ pc[r] = "queued"
  /\ Goto(r, "failed")
  /\ Forget(r)
  /\ UNCHANGED <<github, attempt, sha, overtaken>>

\* All jobs of a concluded run are run again, at the same commit.
Rerun(r) ==
  /\ pc[r] \in Concluded
  /\ attempt[r] < MaxAttempt[r]
  /\ Goto(r, "queued")
  /\ attempt' = [attempt EXCEPT ![r] = @ + 1]
  /\ Forget(r)
  /\ UNCHANGED <<github, sha, overtaken>>

PrepareNext(r) ==
  Trigger(r) \/ Start(r) \/ VersionRequired(r) \/ Resume(r) \/ Allocate(r)
    \/ EnsureBranch(r) \/ Reserve(r) \/ Fail(r) \/ Rerun(r)

VerifyNext(r) ==
  Verify(r) \/ Supersede(r) \/ VerifyRC(r) \/ Promote(r) \/ Reuse(r) \/ Recheck(r)
    \/ BeginPublication(r) \/ Consume(r)

PublishNext(r) ==
  PushTag(r) \/ CreateRelease(r) \/ Reconcile(r) \/ Upload(r) \/ ConfirmSource(r)
    \/ Publish(r) \/ Conclude(r)

ReleaseNext == MoveHead \/ \E r \in Runs : PrepareNext(r) \/ VerifyNext(r) \/ PublishNext(r)

ReleaseSpec == ReleaseInit /\ [][ReleaseNext]_vars

-----------------------------------------------------------------------------
LedgerTypeOK ==
  /\ head \in Nat /\ branch \in BOOLEAN
  /\ ledger \in Ledgers \cup {NoLedger}

PublicTypeOK ==
  /\ tags \subseteq Tags
  /\ releases \subseteq [run : Runs, attempt : Nat, tag : Tags, number : Nat,
                         draft : BOOLEAN, whole : BOOLEAN]
  /\ evidence \subseteq Runs \X Nat
  /\ published \in Seq([tag : Tags, number : Nat])

RunTypeOK ==
  /\ pc \in [Runs -> Waiting \cup Steps \cup Concluded]
  /\ attempt \in [Runs -> Nat] /\ sha \in [Runs -> Nat]
  /\ plan \in [Runs -> Plans \cup {NoPlan}]
  /\ seen \in [Runs -> Ledgers \cup {NoLedger}]
  /\ source \in [Runs -> Nat] /\ overtaken \in [Runs -> BOOLEAN]

\* The types of what GitHub and the runs keep, and what read_state demands of
\* any ledger it accepts: no reservation above the counter, no floor above it.
ReleaseTypeOK ==
  /\ LedgerTypeOK /\ PublicTypeOK /\ RunTypeOK
  /\ ledger # NoLedger =>
       /\ branch
       /\ ledger.floor <= ledger.counter
       /\ \A r \in Reserved(ledger) : ledger.plans[r].number <= ledger.counter

\* However runs interleave, fail and are repeated, no two of them ever hold the
\* same build number or the same tag (reserve_plan, write_state).
UniqueReservations ==
  ledger # NoLedger =>
    \A q, r \in Reserved(ledger) :
      q # r => /\ ledger.plans[q].number # ledger.plans[r].number
               /\ ledger.plans[q].tag # ledger.plans[r].tag

\* The ledger forgets nothing: a reservation stands as it was made, and neither
\* the counter nor the publication floor goes back (write_state).
LedgerOnlyGrows ==
  [][ ledger # NoLedger =>
        /\ ledger' # NoLedger
        /\ ledger'.counter >= ledger.counter /\ ledger'.floor >= ledger.floor
        /\ \A r \in Reserved(ledger) : ledger'.plans[r] = ledger.plans[r] ]_vars

\* A tag never has two releases, drafts included: a consumed number is not
\* published again, and of two promotions to one version one wins (PushTag).
OneReleasePerTag == \A x, y \in releases : x.tag = y.tag => x = y

\* No release goes public after one with a higher build number, and a number
\* goes public twice only as a candidate and its promotion (begin_publication
\* and the workflow's concurrency group).
PublishedInOrder ==
  \A i, j \in DOMAIN published :
    i < j => \/ published[i].number < published[j].number
             \/ /\ published[i].number = published[j].number
                /\ published[i].tag.channel = "rc" /\ published[j].tag.channel = "stable"

\* Once a base version has its stable tag, even by a promotion that failed
\* later, no beta or release candidate of it is tagged or published.
StableClosesBase ==
  [][ /\ \A t \in tags' \ tags :
           t.channel \in {"beta", "rc"} => StableTag(t.base) \notin tags
      /\ published' # published =>
           LET t == published'[Len(published')].tag
           IN  t.channel \in {"beta", "rc"} => StableTag(t.base) \notin tags ]_vars

\* A stable release has the number of a public, complete release candidate whose
\* run stored its evidence, however many attempts, lost replies and promotions
\* it took to get there (verified_rc, promote).
StableIsAccepted ==
  \A x \in releases :
    x.tag.channel = "stable" /\ ~x.draft =>
      \E y \in releases :
        /\ y.tag.channel = "rc" /\ y.tag.base = x.tag.base /\ y.number = x.number
        /\ ~y.draft /\ y.whole /\ <<y.run, y.attempt>> \in evidence

\* An automatic candidate is not published once the default branch has moved on
\* before its last check, in whatever attempt (superseded_candidate,
\* confirm_automatic_source).
OvertakenStaysPrivate ==
  \A x \in releases : Automatic(x.run) /\ ~x.draft => ~overtaken[x.run]

\* read_state takes a branch without its file for a ledger that was removed.
\* Then some run has had it: none is refused because of a first reservation
\* that was cut short.
MissingLedgerWasRemoved ==
  ~Readable => \E r \in Runs : pc[r] \in {"reserve", "allocate"}

=============================================================================
