------------------------------ MODULE Prepare ------------------------------
(***************************************************************************)
(* prepare_version.py and the client release.py: operators open, refresh    *)
(* and resume pull requests that move the version files of the default      *)
(* branch to the next release, and ask for releases of it, while the branch *)
(* moves, pull requests are merged and developers write to the same topics. *)
(* A release takes two runs of the workflow, one for a candidate and one    *)
(* that promotes it; what each does to the ledger and the release page is   *)
(* the subject of Release, which commits they come to tag is that of this   *)
(* module.                                                                  *)
(*                                                                          *)
(* All declared version fields are one value: sync_versions writes all of   *)
(* them and check_base_versions refuses a tree in which they differ.  A     *)
(* change to anything else is a member of a tree's body.                    *)
(***************************************************************************)
EXTENDS Naturals, Sequences, FiniteSets

CONSTANTS
  Operators,   \* those who run release.py, each in a clone of its own
  Persistent,  \* the ones who keep asking for the next version; bound: the
               \* others see one command of theirs to its end
  Crews,       \* bound: the sets of operators who are at work together
  Wants,       \* the commands each may run
  Edits,       \* what developers change, each once
  First,       \* the version of the first commit
  Versions,    \* bound: the versions topics and tags may be made for
  Reserved,    \* versions with a tag outside the history of the default branch
  MaxMoves     \* bound: the edits and merges of developers and reviewers

\* Versions are X.Y.Z, as triples.
Triple == Nat \X Nat \X Nat

ASSUME PrepareAssumption ==
  /\ First \in Triple /\ Versions \subseteq Triple
  /\ IsFiniteSet(Versions) /\ IsFiniteSet(Reserved)

VARIABLES
  commits,   \* every commit: its tree and its history, itself included
  main,      \* the default branch
  topics,    \* the branch release/version-<v> of each version, 0 for none
  pulls,     \* the versions with an open pull request for their topic
  tags,      \* the commit of each stable tag, 0 for none
  runs,      \* the workflow runs that were asked for and have published nothing
  candidates,\* the published candidates, by build number: the commit of each,
             \* and as history the checkout of the one who asked for it
  op,        \* the clone of each operator and where its command is
  touched,   \* history: the versions whose topic a developer wrote to
  moves      \* the edits and merges so far

remote == <<commits, main, topics, pulls, tags, runs, candidates>>
vars == <<commits, main, topics, pulls, tags, runs, candidates, op, touched, moves>>

None == 0
Least == <<0, 0, 0>>

\* The order of SemVer.
Less(v, w) ==
  \/ v[1] < w[1]
  \/ v[1] = w[1] /\ v[2] < w[2]
  \/ v[1] = w[1] /\ v[2] = w[2] /\ v[3] < w[3]
Newest(vs) == CHOOSE v \in vs : \A w \in vs : ~Less(v, w)

-----------------------------------------------------------------------------
(* git.                                                                     *)

Tree(c) == commits[c].tree
Commit(parents, tree) ==
  LET c == Len(commits) + 1
  IN  Append(commits, [tree |-> tree, history |-> {c} \cup UNION {commits[p].history : p \in parents}])
New == Len(commits) + 1

\* git merge-base prints one of the best common ancestors.
MergeBases(c, d) ==
  LET common == commits[c].history \cap commits[d].history
  IN  {b \in common : \A x \in common \ {b} : b \notin commits[x].history}

\* A three-way merge of the version and of the edits; FALSE is a conflict.
Mergeable(base, ours, theirs) ==
  \/ ours.version = theirs.version \/ ours.version = base.version \/ theirs.version = base.version

Merged(base, ours, theirs) ==
  [version |-> IF ours.version = base.version THEN theirs.version ELSE ours.version,
   body |-> (ours.body \cup (theirs.body \ base.body)) \ (base.body \ theirs.body)]

\* The stable tags in the history of a commit.
TagsIn(c) == {v \in Versions : tags[v] \in commits[c].history}
AllTags == {v \in Versions : tags[v] # None} \cup Reserved

-----------------------------------------------------------------------------
(* prepare_version.py.                                                      *)

\* _bumped_version.
Bumped(current, reachable, bump) ==
  CASE bump = "major" -> <<current[1] + 1, 0, 0>>
    [] bump = "minor" -> <<current[1], current[2] + 1, 0>>
    [] bump = "patch" -> [current EXCEPT ![3] = @ + 1]
    [] bump = "next-patch" ->
         IF reachable = {} \/ Less(Newest(reachable \cup {Least}), current) THEN current
         ELSE [Newest(reachable) EXCEPT ![3] = @ + 1]

\* Mutant: tags outside the history are not looked at.
AnyPatch(v, occupied) == v

\* The first free patch from a version on.
FreePatch(v, occupied) ==
  LET taken(n) == [v EXCEPT ![3] = @ + n] \in occupied
      skip == CHOOSE n \in 0..Cardinality(occupied) : ~taken(n) /\ \A m \in 0..(n - 1) : taken(m)
  IN  [v EXCEPT ![3] = @ + skip]

\* Mutant: the next patch is counted from the stable tags alone, and a request
\* may go back.
ChooseAfterTags(current, reachable, occupied, want) ==
  LET selected == IF want.version # <<>> THEN want.version
                  ELSE [Newest(reachable \cup {Least}) EXCEPT ![3] = @ + 1]
  IN  IF want.version = <<>> /\ want.bump = "next-patch" THEN {FreePatch(selected, occupied)}
      ELSE {selected} \ occupied

\* choose_version: a set with the version, or empty when the request is refused.
ChooseVersion(current, reachable, occupied, want) ==
  LET selected == IF want.version # <<>> THEN want.version ELSE Bumped(current, reachable, want.bump)
  IN  IF Less(selected, current) THEN {}
      ELSE IF want.version = <<>> /\ want.bump = "next-patch" THEN {FreePatch(selected, occupied)}
      ELSE {selected} \ occupied

\* read_base_version: the one value of all declared fields.
BaseVersion(c) == Tree(c).version

\* sync_versions on a checkout of a commit.
Projected(c, target) == [Tree(c) EXCEPT !.version = target]

\* Mutant: a branch of the right name is taken for a preparation.
AnyTopic(topic, base, target) == TRUE

\* verify_owned_topic: the topic is what preparing the target makes of the
\* commit where it left the default branch.
OwnedTopic(topic, base, target) == Tree(topic) = Projected(base, target)

\* Where an operator stands between two commands, and after the last one, done
\* or failed.
Ready(at, dirty) ==
  [pc |-> "ready", at |-> at, dirty |-> dirty, want |-> <<>>, target |-> First,
   reachable |-> {}, occupied |-> {}, listed |-> None, sha |-> None]
Away(at) == [Ready(at, FALSE) EXCEPT !.pc = "away"]
Ends(o) == [op EXCEPT ![o] = IF o \in Persistent THEN Ready(@.at, @.dirty) ELSE Away(@.at)]
Goes(o, pc) == [op EXCEPT ![o].pc = pc]

\* _validate_preparation_checkout fetches the default branch and its tags: the
\* clone is clean and at the head of it, or the command is refused.
Validate(o) ==
  /\ op[o].pc = "ready" /\ ~op[o].dirty /\ op[o].at = main
  /\ \E want \in Wants[o] :
       /\ want.do \in {"pr", "local", "dry-run"}
       /\ op' = [op EXCEPT ![o].want = want, ![o].pc = "choose", ![o].reachable = TagsIn(main)]
  /\ UNCHANGED <<remote, touched, moves>>

\* advertised_tags and choose_version; without --pr the files are edited in the
\* clone, with --dry-run not even that.
Choose(o) ==
  /\ op[o].pc = "choose"
  /\ LET current == BaseVersion(op[o].at)
         chosen == ChooseVersion(current, op[o].reachable, AllTags, op[o].want) \cap Versions
     IN  \/ \E target \in chosen :
              op' = CASE op[o].want.do = "dry-run" -> Ends(o)
                      [] op[o].want.do = "local" -> [op EXCEPT ![o] = Ready(@.at, target # current)]
                      [] op[o].want.do = "pr" ->
                           [op EXCEPT ![o].target = target, ![o].occupied = AllTags, ![o].pc = "list"]
         \/ chosen = {} /\ op' = Ends(o)
  /\ UNCHANGED <<remote, touched, moves>>

\* _preparation_topic: gh pr list shows the head of an open pull request, ...
List(o) ==
  /\ op[o].pc = "list"
  /\ op' = [op EXCEPT ![o].pc = "topic",
              ![o].want = <<>>, ![o].reachable = {}, ![o].occupied = {},
              ![o].listed = IF op[o].target \in pulls THEN topics[op[o].target] ELSE None]
  /\ UNCHANGED <<remote, touched, moves>>

\* The tree is made in a worktree of the checkout: when it changes nothing there
\* is no need of a pull request, when the topic has it already none of a push.
Onward(o, topic) ==
  LET tree == Projected(op[o].at, op[o].target)
      existing == op[o].listed # None
  IN  CASE ~existing /\ tree = Tree(op[o].at) -> Ends(o)
        [] (existing \/ tree # Tree(op[o].at)) /\ (topic = None \/ Tree(topic) # tree) ->
             [op EXCEPT ![o].sha = topic, ![o].pc = "push"]
        [] OTHER -> IF existing THEN Ends(o) ELSE Goes(o, "create")

\* ... remote_topic the branch; the two are the same commit, and the branch is
\* one that a preparation made.
FetchTopic(o) ==
  /\ op[o].pc = "topic"
  /\ LET topic == topics[op[o].target]
     IN  \/ op[o].listed \notin {None, topic} /\ op' = Ends(o)
         \/ op[o].listed = None /\ topic = None /\ op' = Onward(o, topic)
         \/ /\ topic # None /\ op[o].listed \in {None, topic}
            /\ \E base \in MergeBases(topic, op[o].at) :
                 op' = IF OwnedTopic(topic, base, op[o].target) THEN Onward(o, topic) ELSE Ends(o)
  /\ UNCHANGED <<remote, touched, moves>>

\* Mutants: the new commit forgets the head it was made from; it forgets the
\* topic it replaces.
ParentsWithoutHead(o) == IF op[o].sha # None THEN {op[o].sha} ELSE {op[o].at}
ParentsWithoutTopic(o) == {op[o].at}

\* The tree and the parents of the commit that refreshes or starts a topic.
Refreshed(o) == Projected(op[o].at, op[o].target)
Parents(o) == IF op[o].sha # None THEN {op[o].sha, op[o].at} ELSE {op[o].at}

\* git push without force: the topic may only move forward.
FastForward(o) ==
  LET topic == topics[op[o].target]
  IN  topic = None \/ \E p \in Parents(o) : topic \in commits[p].history

Pushed(o) ==
  /\ FastForward(o)
  /\ commits' = Commit(Parents(o), Refreshed(o))
  /\ topics' = [topics EXCEPT ![op[o].target] = New]
  /\ UNCHANGED <<main, pulls, tags, runs, candidates, touched, moves>>

Push(o) ==
  /\ op[o].pc = "push"
  /\ \/ Pushed(o) /\ op' = IF op[o].listed # None THEN Ends(o) ELSE Goes(o, "create")
     \/ ~FastForward(o) /\ op' = Ends(o) /\ UNCHANGED <<remote, touched, moves>>

\* gh pr create: one per topic, and only for what the default branch lacks.
CanCreate(o) ==
  LET target == op[o].target
  IN  target \notin pulls /\ topics[target] # None /\ topics[target] \notin commits[main].history

Created(o) ==
  /\ CanCreate(o)
  /\ pulls' = pulls \cup {op[o].target}
  /\ UNCHANGED <<commits, main, topics, tags, runs, candidates, touched, moves>>

CreatePR(o) ==
  /\ op[o].pc = "create"
  /\ \/ Created(o) /\ op' = Ends(o)
     \/ ~CanCreate(o) /\ op' = Ends(o) /\ UNCHANGED <<remote, touched, moves>>

\* The run is killed, or told that the push failed, after the topic moved.  A
\* failure before it leaves the remote as if the command had never begun.
PushUnanswered(o) ==
  /\ op[o].pc = "push"
  /\ Pushed(o) /\ op' = Ends(o)

-----------------------------------------------------------------------------
(* release.py dispatch, and the runs it starts.                              *)

\* The head of the default branch is the operator's clean checkout, or the
\* request is refused.
Dispatch(o) ==
  /\ op[o].pc = "ready" /\ ~op[o].dirty /\ op[o].at = main
  /\ \E channel \in {"rc", "stable"} : [do |-> channel] \in Wants[o] /\ op' = Goes(o, channel)
  /\ UNCHANGED <<remote, touched, moves>>

\* prepare of release_versioned.py: "Default branch changed since dispatch".
AsExpected(run) == run.sha = run.expected

\* gh workflow run, a moment later: the run is of the head as it is then, and is
\* told the head that the operator saw; prepare refuses it when they differ,
\* which neither a delay nor a rerun can change.  A promotion names a candidate.
Request(o) ==
  /\ op[o].pc \in {"rc", "stable"}
  /\ \E rc \in IF op[o].pc = "stable" THEN DOMAIN candidates ELSE {None} :
       LET run == [channel |-> op[o].pc, sha |-> main, expected |-> op[o].at, rc |-> rc]
       IN  runs' = IF AsExpected(run) THEN runs \cup {run} ELSE runs
  /\ op' = Ends(o)
  /\ UNCHANGED <<commits, main, topics, pulls, tags, candidates, touched, moves>>

\* A candidate's run publishes the commit it runs on, under the version of the
\* files there, if that has no stable release yet.
PublishCandidate(r) ==
  /\ r.channel = "rc"
  /\ BaseVersion(r.sha) \in Versions \ AllTags
  /\ candidates' = Append(candidates, [sha |-> r.sha, asked |-> r.expected])
  /\ runs' = runs \ {r}
  /\ UNCHANGED <<commits, main, topics, pulls, tags, op, touched, moves>>

\* Mutant: the promotion is of the commit it runs on.
SourceOfRun(r) == r.sha

\* verified_rc: the commit of the candidate, wherever the head is by now.
Source(r) == candidates[r.rc].sha

\* promote: the candidate is the newest build that is published, its commit is
\* in the history of the default branch, and its version has no stable release.
Promote(r) ==
  /\ r.channel = "stable"
  /\ \A i \in DOMAIN candidates : i <= r.rc
  /\ Source(r) \in commits[main].history
  /\ BaseVersion(Source(r)) \in Versions \ AllTags
  /\ tags' = [tags EXCEPT ![BaseVersion(Source(r))] = Source(r)]
  /\ runs' = runs \ {r}
  /\ UNCHANGED <<commits, main, topics, pulls, candidates, op, touched, moves>>

\* git pull and git restore, before the command is tried again.
Refresh(o) ==
  /\ op[o].pc = "ready" /\ (op[o].at # main \/ op[o].dirty)
  /\ op' = [op EXCEPT ![o] = Ready(main, FALSE)]
  /\ UNCHANGED <<remote, touched, moves>>

-----------------------------------------------------------------------------
(* GitHub and the developers.                                               *)

Unused == Edits \ UNION {commits[c].tree.body : c \in DOMAIN commits}

Move == moves < MaxMoves /\ moves' = moves + 1

EditMain ==
  \E e \in Unused :
    /\ Move
    /\ commits' = Commit({main}, [Tree(main) EXCEPT !.body = @ \cup {e}])
    /\ main' = New
    /\ UNCHANGED <<topics, pulls, tags, runs, candidates, op, touched>>

EditTopic ==
  \E v \in Versions, e \in Unused :
    /\ Move /\ topics[v] # None
    /\ commits' = Commit({topics[v]}, [Tree(topics[v]) EXCEPT !.body = @ \cup {e}])
    /\ topics' = [topics EXCEPT ![v] = New]
    /\ touched' = touched \cup {v}
    /\ UNCHANGED <<main, pulls, tags, runs, candidates, op>>

\* An open pull request without conflicts is merged or squashed; its branch may
\* be deleted with it.
MergePull(v) ==
  /\ Move /\ v \in pulls
  /\ \E b \in MergeBases(main, topics[v]), squash \in BOOLEAN :
       /\ Mergeable(Tree(b), Tree(main), Tree(topics[v]))
       /\ commits' = Commit(IF squash THEN {main} ELSE {main, topics[v]},
                            Merged(Tree(b), Tree(main), Tree(topics[v])))
  /\ main' = New
  /\ pulls' = pulls \ {v}
  /\ topics' \in {topics, [topics EXCEPT ![v] = None]}
  /\ UNCHANGED <<tags, runs, candidates, op, touched>>

-----------------------------------------------------------------------------
\* The first commit is released already, or not yet.
Init ==
  /\ commits = <<[tree |-> [version |-> First, body |-> {}], history |-> {1}]>>
  /\ main = 1
  /\ topics = [v \in Versions |-> None]
  /\ pulls = {}
  /\ \E released \in {None, 1} : tags = [v \in Versions |-> IF v = First THEN released ELSE None]
  /\ runs = {} /\ candidates = <<>>
  /\ \E crew \in Crews : op = [o \in Operators |-> IF o \in crew THEN Ready(1, FALSE) ELSE Away(1)]
  /\ touched = {} /\ moves = 0

OperatorStep(o) ==
  \/ Validate(o) \/ Choose(o) \/ List(o) \/ FetchTopic(o) \/ Push(o) \/ CreatePR(o)
  \/ Dispatch(o) \/ Request(o) \/ Refresh(o)

Next ==
  \/ \E o \in Operators : OperatorStep(o) \/ PushUnanswered(o)
  \/ \E r \in runs : PublishCandidate(r) \/ Promote(r)
  \/ EditMain \/ EditTopic
  \/ \E v \in Versions : MergePull(v)

Spec == Init /\ [][Next]_vars

\* Operators finish what they began and try again.
FairSpec == Spec /\ \A o \in Persistent : WF_vars(OperatorStep(o))

-----------------------------------------------------------------------------
(* Properties.                                                              *)

\* No order of preparations, refreshes and merges takes the version of the
\* default branch back (choose_version: "Preparation must not downgrade the
\* active release base"), though an operator's checkout is stale by the time it
\* pushes and requests for two versions are open at once.
VersionNeverGoesDown ==
  [][~Less((Tree(main)').version, Tree(main).version)]_vars

\* Merging a pull request that only preparations wrote moves the version and
\* nothing else: prepare's merge commits take the head's tree, so no edit of the
\* default branch is lost or brought back through one of them.  And what a
\* developer put on a topic stays there as long as the topic does: one that is
\* not a pure projection is refused by verify_owned_topic, and one that moved
\* after it was looked at refuses the push.
EditsSurvive ==
  [][/\ \A v \in pulls \ (pulls' \cup touched) :
          (Tree(main)').body = Tree(main).body /\ (Tree(main)').version \in {v, Tree(main).version}
     /\ \A v \in Versions : topics[v] # None /\ topics'[v] # None =>
          Tree(topics[v]).body \subseteq (commits'[topics'[v]]).tree.body]_vars

\* The version an operator goes on with is not behind the checkout, after every
\* stable tag in its history, and free; without a wish it is the least of those
\* ("chooses the next patch after the latest stable.  An already prepared,
\* unreleased source base is retained").
ChosenIsNext ==
  \A o \in Operators : op[o].pc = "list" =>
    LET current == Tree(op[o].at).version
        allowed == {v \in Versions \ op[o].occupied :
                      ~Less(v, current) /\ \A t \in op[o].reachable : Less(t, v)}
    IN  /\ op[o].target \in allowed
        /\ op[o].want.version = <<>> /\ op[o].want.bump = "next-patch" =>
             \A v \in allowed : ~Less(v, op[o].target)

\* What becomes a stable release, by way of two runs at two heads, is a commit
\* that an operator had checked out when asking for its candidate, with the
\* files of that very version; no stable tag moves, and none is put on top of one
\* that is not older.
StableTagsGoUp ==
  [][\A v \in Versions : tags'[v] # tags[v] =>
       /\ tags[v] = None /\ Tree(tags'[v]).version = v
       /\ \E i \in DOMAIN candidates : candidates[i].asked = tags'[v]
       /\ \A t \in TagsIn(tags'[v]) : Less(t, v)]_vars

\* A pull request for a version ahead of the default branch that only
\* preparations wrote can always be refreshed: whichever common ancestor git
\* finds, verify_owned_topic takes the topic for what it is.
OwnTopicRecognised ==
  \A v \in pulls \ touched : Less(Tree(main).version, v) =>
    \A b \in MergeBases(topics[v], main) : OwnedTopic(topics[v], b, v)

\* What prepare would choose now, and whether it is there: on the default branch,
\* in a pull request, or on a topic that a developer has taken over.
Upcoming ==
  CHOOSE v \in ChooseVersion(Tree(main).version, TagsIn(main), AllTags,
                             [version |-> <<>>, bump |-> "next-patch"]) : TRUE

Prepared == Upcoming \in {Tree(main).version} \cup pulls \cup touched \/ Upcoming \notin Versions

\* An operator who keeps trying gets the next version prepared, whatever races
\* made the earlier attempts fail and wherever one of them was killed.
Converges == (\E o \in Persistent : op[o].pc # "away") => []<>Prepared
=============================================================================
