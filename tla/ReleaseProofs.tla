--------------------------- MODULE ReleaseProofs ---------------------------
(* Theorems about Release, for any set of runs, however they are started.     *)
(* They hold with or without the workflow's concurrency group, but for the    *)
(* last two, PublicationIsOrdered and StableTagCloses, which need it.         *)
EXTENDS Release, WellFoundedInduction, TLAPS

\* A bounded set of numbers has a greatest element, and Max is it.
LEMMA MaxIsUpperBound ==
  ASSUME NEW S \in SUBSET Nat, S # {}, NEW n \in Nat, \A x \in S : x <= n
  PROVE  Max(S) \in S /\ \A x \in S : x <= Max(S)
<1> DEFINE T == {n - x : x \in S}
<1>1. T \subseteq Nat /\ T # {}
  <2>1. \A x \in S : n - x \in Nat
    OBVIOUS
  <2> QED
    BY <2>1
<1>2. PICK t \in T : \A u \in T : ~(<<u, t>> \in OpToRel(<, Nat))
  BY <1>1, WFMin, NatLessThanWellFounded
<1>3. PICK m \in S : t = n - m
  OBVIOUS
<1>4. \A x \in S : x <= m
  <2> SUFFICES ASSUME NEW x \in S PROVE x <= m
    OBVIOUS
  <2>1. n - x \in T /\ n - x \in Nat /\ t \in Nat
    BY <1>1
  <2>2. ~(n - x < t)
    BY <2>1, <1>2, Zenon DEF OpToRel
  <2> QED
    BY <2>1, <2>2, <1>3
<1>5. m >= m /\ \A x \in S : m >= x
  BY <1>4
<1> QED
  BY <1>5 DEF Max

-----------------------------------------------------------------------------
(* The inductive invariant of the ledger.  A reservation is unique because it *)
(* was made from the ledger it replaced: what a run is about to write is new  *)
(* with respect to the ledger it has seen.                                    *)

\* A plan that run r may hold.
NamedBy(r, p) ==
  /\ p.tag.base = Base[r] /\ p.tag.channel = Channel[r]
  /\ Channel[r] = "nightly" => p.tag.seq = r
  /\ Channel[r] # "nightly" => p.tag.seq <= p.number

\* A ledger as reserve_plan and begin_publication leave it.
Sound(l) ==
  /\ l.floor <= l.counter
  /\ \A r \in Reserved(l) :
       Channel[r] # "stable" /\ NamedBy(r, l.plans[r]) /\ l.plans[r].number <= l.counter
  /\ \A q, r \in Reserved(l) :
       q # r => l.plans[q].number # l.plans[r].number /\ l.plans[q].tag # l.plans[r].tag

\* The sequences in public use are no higher than the counter.
TagsBounded ==
  \A t \in tags \cup {x.tag : x \in releases} :
    t.channel # "nightly" => t.seq <= Content(ledger).counter

\* The steps of a run that has its reservation.
Holding == Steps \ {"prepare", "allocate", "reserve"}

Fresh(r) ==
  pc[r] \in {"allocate", "reserve"} =>
    /\ Channel[r] # "stable" /\ plan[r] # NoPlan /\ NamedBy(r, plan[r])
    /\ plan[r].number > Content(seen[r]).counter
    /\ r \notin Reserved(Content(seen[r]))
    /\ \A q \in Reserved(Content(seen[r])) : Content(seen[r]).plans[q].tag # plan[r].tag

Holds(r) ==
  pc[r] \in Holding /\ Channel[r] # "stable" =>
    plan[r] # NoPlan /\ Content(ledger).plans[r] = plan[r]

Names(r) ==
  pc[r] # "idle" /\ Channel[r] = "stable" =>
    \E q \in Reserved(Content(ledger)) : Content(ledger).plans[q] = plan[r]

Begun(r) == pc[r] = "consume" => plan[r].number >= Content(seen[r]).floor

BranchMade ==
  /\ ledger # NoLedger => branch
  /\ \A r \in Runs : pc[r] = "reserve" => branch

TypeInv == LedgerTypeOK /\ PublicTypeOK /\ RunTypeOK

RunInv(r) == Fresh(r) /\ Holds(r) /\ Names(r) /\ Begun(r)

LedgerInv ==
  /\ TypeInv /\ BranchMade /\ Sound(Content(ledger)) /\ TagsBounded
  /\ \A r \in Runs : RunInv(r)

\* A ledger that is not there reads as an empty one.
LEMMA ContentTyped == \A l \in Ledgers \cup {NoLedger} : Content(l) \in Ledgers
BY DEF Content, EmptyLedger, Ledgers

\* Nothing is reserved in an empty ledger.
LEMMA EmptyIsSound == Sound(EmptyLedger)
BY DEF Sound, EmptyLedger, Reserved

\* A new sequence is above every reserved one of its base and channel.
LEMMA SequenceIsNew ==
  ASSUME LedgerInv, NEW r \in Runs, Channel[r] # "nightly"
  PROVE  /\ Sequence(r) \in Nat /\ Sequence(r) <= Content(ledger).counter + 1
         /\ \A q \in Reserved(Content(ledger)) :
              /\ Content(ledger).plans[q].tag.base = Base[r]
              /\ Content(ledger).plans[q].tag.channel = Channel[r]
              => Content(ledger).plans[q].tag.seq < Sequence(r)
<1> DEFINE l == Content(ledger)
           U == UsedSequences(Base[r], Channel[r])
           S == {0} \cup U
<1>1. l \in Ledgers
  BY ContentTyped DEF LedgerInv, TypeInv, LedgerTypeOK
<1>2. \A u \in U : u \in Nat /\ u <= l.counter
  <2> SUFFICES ASSUME NEW t \in tags \cup {x.tag : x \in releases}
                                     \cup {l.plans[q].tag : q \in Reserved(l)},
                      t.base = Base[r], t.channel = Channel[r]
               PROVE  t.seq \in Nat /\ t.seq <= l.counter
    BY DEF UsedSequences
  <2>1. CASE t \in tags \cup {x.tag : x \in releases}
    <3>1. t \in Tags
      BY <2>1 DEF LedgerInv, TypeInv, PublicTypeOK
    <3> QED
      BY <2>1, <3>1 DEF LedgerInv, TagsBounded, Tags
  <2>2. CASE t \in {l.plans[q].tag : q \in Reserved(l)}
    <3>1. PICK q \in Reserved(l) : t = l.plans[q].tag
      BY <2>2
    <3>2. l.plans[q] \in Plans
      BY <1>1, <3>1 DEF Reserved, Ledgers
    <3>3. NamedBy(q, l.plans[q]) /\ l.plans[q].number <= l.counter
      BY <3>1 DEF LedgerInv, Sound
    <3> QED
      BY <3>1, <3>2, <3>3, <1>1 DEF NamedBy, Plans, Tags, Ledgers
  <2> QED
    BY <2>1, <2>2
<1>3. Max(S) \in S /\ \A x \in S : x <= Max(S)
  <2>1. S \in SUBSET Nat /\ S # {} /\ l.counter \in Nat /\ \A x \in S : x <= l.counter
    BY <1>1, <1>2 DEF Ledgers
  <2> QED
    BY <2>1, MaxIsUpperBound
<1>4. Sequence(r) = Max(S) + 1
  BY DEF Sequence
<1>5. Max(S) \in Nat /\ Max(S) <= l.counter /\ l.counter \in Nat
  BY <1>1, <1>2, <1>3 DEF Ledgers
<1>6. ASSUME NEW q \in Reserved(l), l.plans[q].tag.base = Base[r], l.plans[q].tag.channel = Channel[r]
      PROVE  l.plans[q].tag.seq < Sequence(r)
  <2>1. l.plans[q].tag.seq \in U
    BY <1>6 DEF UsedSequences
  <2>2. l.plans[q].tag.seq \in Nat /\ l.plans[q].tag.seq <= Max(S)
    BY <2>1, <1>2, <1>3
  <2> HIDE DEF l, U, S
  <2> QED
    BY <2>2, <1>4, <1>5
<1>7. Sequence(r) \in Nat /\ Sequence(r) <= l.counter + 1
  <2> HIDE DEF l, U, S
  <2> QED
    BY <1>4, <1>5
<1> QED
  BY <1>6, <1>7

\* The plan of a new reservation is unlike every reserved one.
LEMMA NewPlanIsNew ==
  ASSUME LedgerInv, NEW r \in Runs, Channel[r] # "stable", r \notin Reserved(Content(ledger))
  PROVE  /\ NewPlan(r) \in Plans /\ NamedBy(r, NewPlan(r))
         /\ NewPlan(r).number > Content(ledger).counter
         /\ \A q \in Reserved(Content(ledger)) : Content(ledger).plans[q].tag # NewPlan(r).tag
<1> DEFINE l == Content(ledger)
           t == [base |-> Base[r], channel |-> Channel[r], seq |-> Sequence(r)]
<1>1. l \in Ledgers
  BY ContentTyped DEF LedgerInv, TypeInv, LedgerTypeOK
<1>2. NewPlan(r) = [number |-> NextNumber(l), tag |-> t, sha |-> sha[r]]
  BY DEF NewPlan
<1>3. NextNumber(l) \in Nat /\ NextNumber(l) >= l.counter + 1 /\ l.counter \in Nat
  BY <1>1, ReleaseAssumption DEF NextNumber, Ledgers
<1>4. /\ Sequence(r) \in Nat
      /\ Channel[r] = "nightly" => Sequence(r) = r
      /\ Channel[r] # "nightly" => Sequence(r) <= l.counter + 1
  BY SequenceIsNew, ReleaseAssumption DEF Sequence
<1>5. t \in Tags
  BY <1>4, ReleaseAssumption DEF Tags, Bases
<1>6. sha[r] \in Nat
  BY DEF LedgerInv, TypeInv, RunTypeOK
<1>7. NewPlan(r) \in Plans
  BY <1>2, <1>3, <1>5, <1>6 DEF Plans
<1>8. NamedBy(r, NewPlan(r))
  BY <1>2, <1>3, <1>4 DEF NamedBy
<1>9. ASSUME NEW q \in Reserved(l) PROVE l.plans[q].tag # t
  <2>1. NamedBy(q, l.plans[q]) /\ q # r
    BY <1>9 DEF LedgerInv, Sound
  <2>2. CASE Channel[r] = "nightly"
    BY <2>1, <2>2, <1>4 DEF NamedBy
  <2>3. CASE Channel[r] # "nightly"
    <3>1. l.plans[q].tag.base = Base[r] /\ l.plans[q].tag.channel = Channel[r]
            => l.plans[q].tag.seq < Sequence(r)
      BY <2>3, <1>9, SequenceIsNew
    <3> QED
      BY <3>1, <1>4
  <2> QED
    BY <2>2, <2>3
<1> QED
  BY <1>2, <1>3, <1>7, <1>8, <1>9

-----------------------------------------------------------------------------
(* Steps that only move a run along.                                          *)

Places == Waiting \cup Steps \cup Concluded

\* What is public is typed and bounded as long as it stays the same.
LEMMA PublicStays ==
  ASSUME LedgerInv, UNCHANGED <<ledger, tags, releases, evidence, published>>
  PROVE  PublicTypeOK' /\ TagsBounded'
BY DEF LedgerInv, TypeInv, PublicTypeOK, TagsBounded

\* A run that goes on without touching the ledger disturbs nothing.
LEMMA Walk ==
  ASSUME LedgerInv, NEW r \in Runs, NEW s \in Places,
         pc[r] # "idle", pc' = [pc EXCEPT ![r] = s],
         s \notin {"idle", "allocate", "reserve", "consume"},
         s \in Holding /\ Channel[r] # "stable" => pc[r] \in Holding,
         UNCHANGED <<head, branch, ledger, plan, seen, attempt, sha, overtaken>>,
         source' \in [Runs -> Nat], PublicTypeOK', TagsBounded'
  PROVE  LedgerInv'
<1>1. pc \in [Runs -> Places]
  BY DEF LedgerInv, TypeInv, RunTypeOK, Places
<1>2. pc' \in [Runs -> Places] /\ pc'[r] = s /\ \A q \in Runs : q # r => pc'[q] = pc[q]
  BY <1>1
<1>3. TypeInv'
  BY <1>2 DEF LedgerInv, TypeInv, LedgerTypeOK, RunTypeOK, Places
<1>4. BranchMade'
  BY <1>2 DEF LedgerInv, BranchMade
<1>5. Sound(Content(ledger))'
  BY DEF LedgerInv
<1>6. ASSUME NEW q \in Runs PROVE RunInv(q)'
  <2>1. RunInv(q)
    BY DEF LedgerInv
  <2>2. CASE q = r
    BY <2>1, <2>2, <1>2 DEF RunInv, Fresh, Holds, Names, Begun
  <2>3. CASE q # r
    BY <2>1, <2>3, <1>2 DEF RunInv, Fresh, Holds, Names, Begun
  <2> QED
    BY <2>2, <2>3
<1> QED
  BY <1>3, <1>4, <1>5, <1>6 DEF LedgerInv

\* The steps of a run that only read.
LEMMA ReadingKeeps ==
  ASSUME LedgerInv, NEW r \in Runs,
         \/ Start(r) \/ VersionRequired(r) \/ Verify(r) \/ Supersede(r) \/ VerifyRC(r)
         \/ Promote(r) \/ Reuse(r) \/ Recheck(r) \/ Reconcile(r) \/ ConfirmSource(r)
  PROVE  LedgerInv'
<1> USE DEF github, control, Goto, Places, Waiting, Steps, Concluded, Holding
<1>1. source \in [Runs -> Nat] /\ head \in Nat
  BY DEF LedgerInv, TypeInv, LedgerTypeOK, RunTypeOK
<1>2. CASE Start(r)
  BY <1>1, <1>2, Walk, PublicStays DEF Start
<1>3. CASE VersionRequired(r)
  BY <1>1, <1>3, Walk, PublicStays DEF VersionRequired
<1>4. CASE Verify(r)
  BY <1>1, <1>4, Walk, PublicStays DEF Verify
<1>5. CASE Supersede(r)
  BY <1>1, <1>5, Walk, PublicStays DEF Supersede
<1>6. CASE VerifyRC(r)
  BY <1>1, <1>6, Walk, PublicStays DEF VerifyRC
<1>7. CASE Promote(r)
  BY <1>1, <1>7, Walk, PublicStays DEF Promote
<1>8. CASE Reuse(r)
  BY <1>1, <1>8, Walk, PublicStays DEF Reuse
<1>9. CASE Recheck(r)
  <2>1. source' \in [Runs -> Nat]
    BY <1>1, <1>9 DEF Recheck
  <2> QED
    BY <2>1, <1>9, Walk, PublicStays DEF Recheck
<1>10. CASE Reconcile(r)
  BY <1>1, <1>10, Walk, PublicStays DEF Reconcile
<1>11. CASE ConfirmSource(r)
  BY <1>1, <1>11, Walk, PublicStays DEF ConfirmSource
<1> QED
  BY <1>2, <1>3, <1>4, <1>5, <1>6, <1>7, <1>8, <1>9, <1>10, <1>11

\* What a run that publishes carries: a typed plan, no higher than the counter.
LEMMA CarriesPlan ==
  ASSUME LedgerInv, NEW r \in Runs, pc[r] \in Holding
  PROVE  /\ plan[r] \in Plans /\ plan[r].number <= Content(ledger).counter
         /\ Target(r) \in Tags
         /\ Target(r).channel # "nightly" => Target(r).seq <= Content(ledger).counter
<1> DEFINE l == Content(ledger)
<1>1. l \in Ledgers
  BY ContentTyped DEF LedgerInv, TypeInv, LedgerTypeOK
<1>2. PICK q \in Reserved(l) : l.plans[q] = plan[r]
  <2>1. CASE Channel[r] = "stable"
    BY <2>1 DEF LedgerInv, RunInv, Names, Holding, Steps
  <2>2. CASE Channel[r] # "stable"
    BY <2>2 DEF LedgerInv, RunInv, Holds, Reserved
  <2> QED
    BY <2>1, <2>2
<1>3. plan[r] \in Plans
  BY <1>1, <1>2 DEF Ledgers, Reserved
<1>4. NamedBy(q, plan[r]) /\ plan[r].number <= l.counter
  BY <1>2 DEF LedgerInv, Sound
<1>5. Channel[q] \in Channels /\ l.counter \in Nat
  BY <1>1, <1>2, ReleaseAssumption DEF Reserved, Ledgers
<1>6. plan[r].tag \in Tags /\ plan[r].number \in Nat
  BY <1>3 DEF Plans
<1>7. CASE Channel[r] = "stable"
  <2>1. Target(r) = [base |-> plan[r].tag.base, channel |-> "stable", seq |-> 0]
    BY <1>7 DEF Target, StableTag
  <2> QED
    BY <2>1, <1>3, <1>4, <1>5, <1>6 DEF Tags, Channels
<1>8. CASE Channel[r] # "stable"
  <2>1. Target(r) = plan[r].tag
    BY <1>8 DEF Target
  <2>2. plan[r].tag.seq \in Nat
    BY <1>6 DEF Tags
  <2>3. plan[r].tag.channel # "nightly" => plan[r].tag.seq <= plan[r].number
    BY <1>4, <1>5 DEF NamedBy
  <2> QED
    BY <2>1, <2>2, <2>3, <1>3, <1>4, <1>5, <1>6
<1> QED
  BY <1>7, <1>8

\* A release as GitHub keeps it.
ReleaseRecords == [run : Runs, attempt : Nat, tag : Tags, number : Nat,
                   draft : BOOLEAN, whole : BOOLEAN]

\* The steps of _publish_prepared.
LEMMA PublishingKeeps ==
  ASSUME LedgerInv, NEW r \in Runs,
         PushTag(r) \/ CreateRelease(r) \/ Upload(r) \/ Publish(r) \/ Conclude(r)
  PROVE  LedgerInv'
<1> USE DEF control, Goto, GotoOrLose, Places, Waiting, Steps, Concluded, Holding
<1>1. /\ source \in [Runs -> Nat] /\ attempt[r] \in Nat
      /\ tags \subseteq Tags /\ releases \subseteq ReleaseRecords
      /\ evidence \subseteq Runs \X Nat /\ published \in Seq([tag : Tags, number : Nat])
  BY DEF LedgerInv, TypeInv, PublicTypeOK, RunTypeOK, ReleaseRecords
<1>2. /\ plan[r] \in Plans /\ Target(r) \in Tags
      /\ Target(r).channel # "nightly" => Target(r).seq <= Content(ledger).counter
  BY CarriesPlan DEF PushTag, CreateRelease, Upload, Publish, Conclude
<1>3. plan[r].number \in Nat
  BY <1>2 DEF Plans
<1>4. \A t \in tags \cup {x.tag : x \in releases} :
        t.channel # "nightly" => t.seq <= Content(ledger).counter
  BY DEF LedgerInv, TagsBounded
<1>5. /\ Draft(r) \in ReleaseRecords /\ Draft(r).tag = Target(r)
      /\ Complete(r) \in ReleaseRecords /\ Complete(r).tag = Target(r)
  BY <1>1, <1>2, <1>3 DEF Draft, Complete, ReleaseRecords
<1>6. CASE PushTag(r)
  <2>1. PublicTypeOK' /\ TagsBounded'
    BY <1>1, <1>2, <1>4, <1>6 DEF PushTag, PublicTypeOK, TagsBounded, ReleaseRecords
  <2> QED
    BY <2>1, <1>1, <1>6, Walk DEF PushTag
<1>7. CASE CreateRelease(r)
  <2>1. releases' \in {releases, releases \cup {Draft(r)}}
    BY <1>7 DEF CreateRelease
  <2>2. PublicTypeOK' /\ TagsBounded'
    BY <2>1, <1>1, <1>2, <1>4, <1>5, <1>7
       DEF CreateRelease, PublicTypeOK, TagsBounded, ReleaseRecords
  <2> QED
    BY <2>2, <1>1, <1>7, Walk DEF CreateRelease
<1>8. CASE Upload(r)
  <2>1. PublicTypeOK' /\ TagsBounded'
    BY <1>1, <1>2, <1>4, <1>5, <1>8 DEF Upload, PublicTypeOK, TagsBounded, ReleaseRecords
  <2> QED
    BY <2>1, <1>1, <1>8, Walk DEF Upload
<1>9. CASE Publish(r)
  <2>1. \A x \in releases : /\ [x EXCEPT !.draft = FALSE] \in ReleaseRecords
                            /\ [x EXCEPT !.draft = FALSE].tag = x.tag
    BY <1>1 DEF ReleaseRecords
  <2>2. \A y \in releases' : y \in ReleaseRecords /\ \E x \in releases : y.tag = x.tag
    BY <2>1, <1>1, <1>9 DEF Publish
  <2>3. published' \in Seq([tag : Tags, number : Nat])
    BY <1>1, <1>2, <1>3, <1>9 DEF Publish
  <2>4. PublicTypeOK' /\ TagsBounded'
    BY <2>2, <2>3, <1>1, <1>4, <1>9 DEF Publish, PublicTypeOK, TagsBounded, ReleaseRecords
  <2> QED
    BY <2>4, <1>1, <1>9, Walk DEF Publish
<1>10. CASE Conclude(r)
  <2>1. PublicTypeOK' /\ TagsBounded'
    BY <1>1, <1>4, <1>10 DEF Conclude, PublicTypeOK, TagsBounded, ReleaseRecords
  <2> QED
    BY <2>1, <1>1, <1>10, Walk DEF Conclude
<1> QED
  BY <1>6, <1>7, <1>8, <1>9, <1>10

-----------------------------------------------------------------------------
(* Steps that change a plan, what a run has seen, or the ledger.              *)

\* The other runs keep what they hold as long as every reservation stands.
LEMMA OthersKeep ==
  ASSUME LedgerInv, NEW q \in Runs,
         pc'[q] = pc[q], plan'[q] = plan[q], seen'[q] = seen[q],
         \A o \in Reserved(Content(ledger)) : Content(ledger').plans[o] = Content(ledger).plans[o]
  PROVE  RunInv(q)'
<1>1. RunInv(q)
  BY DEF LedgerInv
<1>2. \A o \in Reserved(Content(ledger)) : o \in Reserved(Content(ledger'))
  BY DEF Reserved
<1>3. Fresh(q)' /\ Begun(q)'
  BY <1>1 DEF RunInv, Fresh, Begun
<1>4. Holds(q)'
  BY <1>1 DEF RunInv, Holds, Reserved
<1>5. Names(q)'
  BY <1>1, <1>2 DEF RunInv, Names
<1> QED
  BY <1>3, <1>4, <1>5 DEF RunInv

\* A merge is none of the ledger's business.
LEMMA MoveHeadKeeps ==
  ASSUME LedgerInv, MoveHead
  PROVE  LedgerInv'
<1>1. TypeInv'
  BY DEF MoveHead, LedgerInv, TypeInv, LedgerTypeOK, PublicTypeOK, RunTypeOK
<1>2. BranchMade' /\ Sound(Content(ledger))' /\ TagsBounded'
  BY DEF MoveHead, LedgerInv, BranchMade, TagsBounded
<1>3. \A q \in Runs : RunInv(q)'
  BY OthersKeep DEF MoveHead
<1> QED
  BY <1>1, <1>2, <1>3 DEF LedgerInv

\* A run is started, gives up or starts over.
LEMMA TurnoverKeeps ==
  ASSUME LedgerInv, NEW r \in Runs, Trigger(r) \/ Fail(r) \/ Rerun(r)
  PROVE  LedgerInv'
<1> USE DEF github, Goto, Forget
<1>1. /\ pc \in [Runs -> Places] /\ plan \in [Runs -> Plans \cup {NoPlan}]
      /\ seen \in [Runs -> Ledgers \cup {NoLedger}] /\ source \in [Runs -> Nat]
      /\ attempt \in [Runs -> Nat] /\ sha \in [Runs -> Nat] /\ head \in Nat
      /\ Content(ledger) \in Ledgers
  BY ContentTyped DEF LedgerInv, TypeInv, LedgerTypeOK, RunTypeOK, Places
<1>2. PublicTypeOK' /\ TagsBounded' /\ Sound(Content(ledger))' /\ LedgerTypeOK'
  BY PublicStays DEF Trigger, Fail, Rerun, LedgerInv, TypeInv, LedgerTypeOK
<1>3. \A q \in Runs : q # r => pc'[q] = pc[q] /\ plan'[q] = plan[q] /\ seen'[q] = seen[q]
  BY <1>1 DEF Trigger, Fail, Rerun
<1>4. /\ pc'[r] \in {"queued", "failed"} /\ seen'[r] \in Ledgers \cup {NoLedger}
      /\ plan'[r] \in Plans \cup {NoPlan}
  <2>1. CASE Trigger(r)
    BY <2>1, <1>1 DEF Trigger, Reserved, Ledgers
  <2>2. CASE Fail(r) \/ Rerun(r)
    BY <2>2, <1>1 DEF Fail, Rerun
  <2> QED
    BY <2>1, <2>2
<1>5. RunTypeOK'
  <2>1. pc' \in [Runs -> Places] /\ seen' \in [Runs -> Ledgers \cup {NoLedger}]
    BY <1>1 DEF Trigger, Fail, Rerun, Places, Waiting, Concluded
  <2>2. plan' \in [Runs -> Plans \cup {NoPlan}]
    <3>1. CASE Trigger(r)
      BY <3>1, <1>1 DEF Trigger, Reserved, Ledgers
    <3>2. CASE Fail(r) \/ Rerun(r)
      BY <3>2, <1>1 DEF Fail, Rerun
    <3> QED
      BY <3>1, <3>2
  <2>3. source' \in [Runs -> Nat] /\ attempt' \in [Runs -> Nat] /\ sha' \in [Runs -> Nat]
    BY <1>1 DEF Trigger, Fail, Rerun
  <2> QED
    BY <2>1, <2>2, <2>3 DEF Trigger, Fail, Rerun, LedgerInv, TypeInv, RunTypeOK, Places
<1>6. BranchMade'
  BY <1>3, <1>4 DEF Trigger, Fail, Rerun, LedgerInv, BranchMade
<1>7. \A q \in Runs : q # r => RunInv(q)'
  BY <1>3, OthersKeep DEF Trigger, Fail, Rerun
<1>8. RunInv(r)'
  <2>1. Fresh(r)' /\ Holds(r)' /\ Begun(r)'
    BY <1>4 DEF Fresh, Holds, Begun, Holding, Steps
  <2>2. Names(r)'
    <3>1. CASE Trigger(r)
      BY <3>1, <1>1 DEF Trigger, Names
    <3>2. CASE Fail(r) \/ Rerun(r)
      <4>1. pc[r] # "idle" /\ (Channel[r] = "stable" => plan'[r] = plan[r])
        BY <3>2, <1>1 DEF Fail, Rerun, Active, Steps, Concluded
      <4> QED
        BY <4>1, <3>2 DEF Fail, Rerun, LedgerInv, RunInv, Names
    <3> QED
      BY <3>1, <3>2
  <2> QED
    BY <2>1, <2>2 DEF RunInv
<1> QED
  BY <1>2, <1>5, <1>6, <1>7, <1>8 DEF LedgerInv, TypeInv

\* The state of one run changes and the rest of the system does not.
LEMMA OneRun ==
  ASSUME LedgerInv, NEW r \in Runs,
         UNCHANGED <<head, ledger, tags, releases, evidence, published, control>>,
         branch' \in {branch, TRUE},
         pc' \in [Runs -> Places], plan' \in [Runs -> Plans \cup {NoPlan}],
         seen' \in [Runs -> Ledgers \cup {NoLedger}],
         \A q \in Runs : q # r => pc'[q] = pc[q] /\ plan'[q] = plan[q] /\ seen'[q] = seen[q],
         pc'[r] = "reserve" => branch',
         RunInv(r)'
  PROVE  LedgerInv'
<1>1. PublicTypeOK' /\ TagsBounded' /\ Sound(Content(ledger))'
  BY PublicStays DEF LedgerInv
<1>2. LedgerTypeOK' /\ RunTypeOK'
  BY DEF LedgerInv, TypeInv, LedgerTypeOK, RunTypeOK, control, Places
<1>3. BranchMade'
  BY DEF LedgerInv, BranchMade
<1>4. \A q \in Runs : RunInv(q)'
  BY OthersKeep
<1> QED
  BY <1>1, <1>2, <1>3, <1>4 DEF LedgerInv, TypeInv

\* The steps of reserve_plan before its write, and the read of begin_publication.
LEMMA AllocationKeeps ==
  ASSUME LedgerInv, NEW r \in Runs,
         Resume(r) \/ Allocate(r) \/ EnsureBranch(r) \/ BeginPublication(r)
  PROVE  LedgerInv'
<1> USE DEF github, Goto, GotoOrLose
<1> DEFINE l == Content(ledger)
<1>1. /\ pc \in [Runs -> Places] /\ plan \in [Runs -> Plans \cup {NoPlan}]
      /\ seen \in [Runs -> Ledgers \cup {NoLedger}]
      /\ ledger \in Ledgers \cup {NoLedger} /\ branch \in BOOLEAN /\ l \in Ledgers
  BY ContentTyped DEF LedgerInv, TypeInv, LedgerTypeOK, RunTypeOK, Places
<1>2. RunInv(r)
  BY DEF LedgerInv
<1>3. {"built", "allocate", "reserve", "consume", "failed"} \subseteq Places
  BY DEF Places, Steps, Concluded
<1>4. CASE Resume(r)
  <2>1. r \in Reserved(l) /\ l.plans[r] \in Plans
    BY <1>1, <1>4 DEF Resume, Reserved, Ledgers
  <2>2. pc'[r] = "built" /\ plan'[r] = l.plans[r] /\ ledger' = ledger
    BY <1>1, <1>4 DEF Resume
  <2>3. RunInv(r)'
    BY <2>1, <2>2, <1>4 DEF Resume, RunInv, Fresh, Holds, Names, Begun, Reserved
  <2> QED
    BY <2>1, <2>3, <1>1, <1>3, <1>4, OneRun DEF Resume
<1>5. CASE Allocate(r)
  <2> DEFINE p == NewPlan(r)
  <2>1. /\ p \in Plans /\ NamedBy(r, p) /\ p.number > l.counter
        /\ \A q \in Reserved(l) : l.plans[q].tag # p.tag
        /\ Channel[r] # "stable" /\ r \notin Reserved(l) /\ p # NoPlan
    BY <1>5, NewPlanIsNew, ReleaseAssumption DEF Allocate
  <2>2. pc'[r] = "allocate" /\ plan'[r] = p /\ seen'[r] = ledger
    BY <1>1, <1>5 DEF Allocate
  <2> HIDE DEF p
  <2>3. RunInv(r)'
    BY <2>1, <2>2 DEF RunInv, Fresh, Holds, Names, Begun, Holding
  <2>4. plan' = [plan EXCEPT ![r] = p]
    BY <1>5 DEF Allocate, p
  <2> QED
    BY <2>1, <2>3, <2>4, <1>1, <1>3, <1>5, OneRun DEF Allocate
<1>6. CASE EnsureBranch(r)
  <2>1. PICK s \in {"reserve", "failed"} : pc' = [pc EXCEPT ![r] = s]
    BY <1>6 DEF EnsureBranch
  <2>2. pc'[r] = s /\ pc[r] = "allocate"
    BY <2>1, <1>1, <1>6 DEF EnsureBranch
  <2>3. RunInv(r)'
    BY <2>2, <1>2, <1>6 DEF EnsureBranch, RunInv, Fresh, Holds, Names, Begun, Holding, Steps
  <2> QED
    BY <2>1, <2>3, <1>1, <1>3, <1>6, OneRun DEF EnsureBranch
<1>7. CASE BeginPublication(r)
  <2>1. pc'[r] = "consume" /\ seen'[r] = ledger /\ plan'[r] = plan[r] /\ pc[r] = "begin"
    BY <1>1, <1>7 DEF BeginPublication
  <2>2. plan[r].number >= l.floor
    <3>1. plan[r].number \in Nat /\ l.floor \in Nat
      BY <1>1, <2>1, CarriesPlan DEF Plans, Ledgers, Holding, Steps
    <3> QED
      BY <3>1, <1>7 DEF BeginPublication, MayPublish, Entitled, InPromotionOrder
  <2>3. RunInv(r)'
    BY <2>1, <2>2, <1>2, <1>7
       DEF BeginPublication, RunInv, Fresh, Holds, Names, Begun, Holding, Steps
  <2> QED
    BY <2>3, <1>1, <1>3, <1>7, OneRun DEF BeginPublication
<1> QED
  BY <1>4, <1>5, <1>6, <1>7

\* A write of the ledger that leaves every reservation as it was.
LEMMA OneWrite ==
  ASSUME LedgerInv, NEW r \in Runs, NEW s \in Places,
         UNCHANGED <<head, branch, tags, releases, evidence, published, control, plan>>,
         branch, ledger' \in Ledgers, Sound(ledger'),
         Content(ledger).counter <= ledger'.counter,
         \A o \in Reserved(Content(ledger)) : ledger'.plans[o] = Content(ledger).plans[o],
         pc' = [pc EXCEPT ![r] = s], seen' \in [Runs -> Ledgers \cup {NoLedger}],
         \A q \in Runs : q # r => seen'[q] = seen[q],
         RunInv(r)'
  PROVE  LedgerInv'
<1>1. ledger' # NoLedger /\ Content(ledger') = ledger' /\ Content(ledger) \in Ledgers
  BY ReleaseAssumption, ContentTyped DEF Content, LedgerInv, TypeInv, LedgerTypeOK
<1>2. pc' \in [Runs -> Places] /\ \A q \in Runs : q # r => pc'[q] = pc[q]
  BY DEF LedgerInv, TypeInv, RunTypeOK, Places
<1>3. TypeInv'
  BY <1>1, <1>2 DEF LedgerInv, TypeInv, LedgerTypeOK, PublicTypeOK, RunTypeOK, control, Places
<1>4. BranchMade' /\ Sound(Content(ledger))'
  BY <1>1 DEF BranchMade
<1>5. TagsBounded'
  <2> SUFFICES ASSUME NEW t \in tags \cup {x.tag : x \in releases}, t.channel # "nightly"
               PROVE  t.seq <= ledger'.counter
    BY <1>1 DEF TagsBounded
  <2>1. t \in Tags
    BY DEF LedgerInv, TypeInv, PublicTypeOK
  <2>2. t.seq <= Content(ledger).counter
    BY DEF LedgerInv, TagsBounded
  <2>3. t.seq \in Nat /\ Content(ledger).counter \in Nat /\ ledger'.counter \in Nat
    BY <2>1, <1>1 DEF Tags, Ledgers
  <2> QED
    BY <2>2, <2>3
<1>6. \A q \in Runs : RunInv(q)'
  BY <1>1, <1>2, OthersKeep
<1> QED
  BY <1>3, <1>4, <1>5, <1>6 DEF LedgerInv

\* write_state of a new reservation: what the run has seen is what is replaced.
LEMMA ReserveKeeps ==
  ASSUME LedgerInv, NEW r \in Runs, Reserve(r)
  PROVE  LedgerInv' /\ ledger' \in Ledgers
                    /\ Content(ledger).counter <= ledger'.counter
                    /\ Content(ledger).floor = ledger'.floor
                    /\ \A o \in Reserved(Content(ledger)) :
                         ledger'.plans[o] = Content(ledger).plans[o]
<1> DEFINE l == Content(ledger)
           p == plan[r]
<1>1. /\ pc \in [Runs -> Places] /\ plan \in [Runs -> Plans \cup {NoPlan}]
      /\ seen \in [Runs -> Ledgers \cup {NoLedger}] /\ l \in Ledgers
  BY ContentTyped DEF LedgerInv, TypeInv, LedgerTypeOK, RunTypeOK, Places
<1>2. ledger' = [l EXCEPT !.counter = p.number, !.plans[r] = p]
  BY DEF Reserve, Reservation
<1>3. /\ Channel[r] # "stable" /\ p # NoPlan /\ NamedBy(r, p)
      /\ p.number > l.counter /\ r \notin Reserved(l)
      /\ \A q \in Reserved(l) : l.plans[q].tag # p.tag
  BY DEF Reserve, LedgerInv, RunInv, Fresh
<1>4. p \in Plans /\ p.number \in Nat /\ l.counter \in Nat /\ l.floor \in Nat
  BY <1>1, <1>3 DEF Plans, Ledgers
<1>5. /\ ledger'.counter = p.number /\ ledger'.floor = l.floor
      /\ ledger'.plans = [l.plans EXCEPT ![r] = p]
      /\ ledger' \in Ledgers
  BY <1>1, <1>2, <1>4 DEF Ledgers
<1>6. /\ ledger'.plans[r] = p /\ \A o \in Runs : o # r => ledger'.plans[o] = l.plans[o]
      /\ Reserved(ledger') = Reserved(l) \cup {r}
  BY <1>1, <1>3, <1>5 DEF Ledgers, Reserved
<1>7. \A o \in Reserved(l) : ledger'.plans[o] = l.plans[o] /\ o # r
  BY <1>3, <1>6 DEF Reserved
<1>8. \A q \in Reserved(l) : l.plans[q].number \in Nat /\ l.plans[q].number <= l.counter
  BY <1>1 DEF LedgerInv, Sound, Ledgers, Plans, Reserved
<1>9. Sound(ledger')
  <2>1. ledger'.floor <= ledger'.counter
    BY <1>3, <1>4, <1>5 DEF LedgerInv, Sound
  <2>2. \A q \in Reserved(ledger') : /\ Channel[q] # "stable" /\ NamedBy(q, ledger'.plans[q])
                                     /\ ledger'.plans[q].number <= ledger'.counter
    <3> SUFFICES ASSUME NEW q \in Reserved(ledger')
                 PROVE  /\ Channel[q] # "stable" /\ NamedBy(q, ledger'.plans[q])
                        /\ ledger'.plans[q].number <= ledger'.counter
      OBVIOUS
    <3>1. CASE q = r
      BY <3>1, <1>3, <1>4, <1>5, <1>6
    <3>2. CASE q \in Reserved(l)
      BY <3>2, <1>3, <1>4, <1>5, <1>7, <1>8 DEF LedgerInv, Sound
    <3> QED
      BY <3>1, <3>2, <1>6
  <2>3. \A q, o \in Reserved(ledger') :
          q # o => /\ ledger'.plans[q].number # ledger'.plans[o].number
                   /\ ledger'.plans[q].tag # ledger'.plans[o].tag
    <3>1. \A q, o \in Reserved(l) :
            q # o => l.plans[q].number # l.plans[o].number /\ l.plans[q].tag # l.plans[o].tag
      BY DEF LedgerInv, Sound
    <3>2. \A q \in Reserved(l) : l.plans[q].number # p.number
      BY <1>3, <1>4, <1>8
    <3> QED
      BY <3>1, <3>2, <1>3, <1>6, <1>7
  <2> QED
    BY <2>1, <2>2, <2>3 DEF Sound
<1>10. PICK s \in {"built", "failed"} : pc' = [pc EXCEPT ![r] = s]
  BY DEF Reserve, GotoOrLose, Goto
<1>11. pc'[r] = s /\ plan'[r] = p /\ s \in Places
  BY <1>1, <1>10 DEF Reserve, Places, Steps, Concluded
<1>12. Content(ledger') = ledger'
  BY <1>5, ReleaseAssumption DEF Content
<1>13. RunInv(r)'
  BY <1>3, <1>6, <1>11, <1>12 DEF RunInv, Fresh, Holds, Names, Begun
<1>14. /\ branch /\ seen' \in [Runs -> Ledgers \cup {NoLedger}]
       /\ \A q \in Runs : q # r => seen'[q] = seen[q]
  BY <1>1 DEF Reserve, LedgerInv, BranchMade
<1>15. l.counter <= ledger'.counter
  BY <1>3, <1>4, <1>5
<1>16. LedgerInv'
  BY <1>5, <1>7, <1>9, <1>10, <1>11, <1>13, <1>14, <1>15, OneWrite DEF Reserve
<1> QED
  BY <1>5, <1>7, <1>15, <1>16

\* write_state of begin_publication.
LEMMA ConsumeKeeps ==
  ASSUME LedgerInv, NEW r \in Runs, Consume(r)
  PROVE  LedgerInv' /\ ledger' \in Ledgers
                    /\ Content(ledger).counter = ledger'.counter
                    /\ Content(ledger).floor <= ledger'.floor
                    /\ Content(ledger).plans = ledger'.plans
<1> DEFINE l == Content(ledger)
           p == plan[r]
<1>1. /\ pc \in [Runs -> Places] /\ l \in Ledgers
      /\ seen \in [Runs -> Ledgers \cup {NoLedger}]
  BY ContentTyped DEF LedgerInv, TypeInv, LedgerTypeOK, RunTypeOK, Places
<1>2. p \in Plans /\ p.number <= l.counter
  BY CarriesPlan DEF Consume, Holding, Steps
<1>3. p.number >= l.floor
  BY DEF Consume, LedgerInv, RunInv, Begun
<1>4. p.number \in Nat
  BY <1>2 DEF Plans
<1>5. ledger' = [l EXCEPT !.floor = p.number]
  BY DEF Consume
<1>6. /\ ledger'.counter = l.counter /\ ledger'.floor = p.number
      /\ ledger'.plans = l.plans /\ ledger' \in Ledgers
  BY <1>1, <1>4, <1>5 DEF Ledgers
<1>7. Reserved(ledger') = Reserved(l)
  BY <1>6 DEF Reserved
<1>8. Sound(ledger')
  BY <1>2, <1>6, <1>7 DEF LedgerInv, Sound
<1>9. PICK s \in {"tag", "failed"} : pc' = [pc EXCEPT ![r] = s]
  BY DEF Consume, GotoOrLose, Goto
<1>10. /\ pc'[r] = s /\ plan'[r] = p /\ s \in Places /\ pc[r] = "consume"
       /\ Content(ledger') = ledger' /\ ledger # NoLedger
  <2>1. Content(ledger') = ledger'
    BY <1>6, ReleaseAssumption DEF Content
  <2>2. ledger # NoLedger
    <3>1. Reserved(l) # {}
      <4>1. CASE Channel[r] = "stable"
        BY <4>1 DEF Consume, LedgerInv, RunInv, Names
      <4>2. CASE Channel[r] # "stable"
        BY <4>2 DEF Consume, LedgerInv, RunInv, Holds, Holding, Steps, Reserved
      <4> QED
        BY <4>1, <4>2
    <3> QED
      BY <3>1 DEF Content, EmptyLedger, Reserved
  <2> QED
    BY <2>1, <2>2, <1>1, <1>9 DEF Consume, Places, Steps, Concluded
<1>11. RunInv(r)'
  <2>1. RunInv(r)
    BY DEF LedgerInv
  <2> QED
    BY <2>1, <1>6, <1>7, <1>10 DEF RunInv, Fresh, Holds, Names, Begun, Holding, Steps
<1>12. /\ branch /\ seen' \in [Runs -> Ledgers \cup {NoLedger}]
       /\ \A q \in Runs : q # r => seen'[q] = seen[q]
  BY <1>1, <1>6, <1>10 DEF Consume, LedgerInv, BranchMade
<1>13. l.counter <= ledger'.counter /\ l.floor <= ledger'.floor
  BY <1>1, <1>3, <1>4, <1>6 DEF Ledgers
<1>14. LedgerInv'
  BY <1>6, <1>7, <1>8, <1>9, <1>10, <1>11, <1>12, <1>13, OneWrite DEF Consume
<1> QED
  BY <1>6, <1>13, <1>14

-----------------------------------------------------------------------------
\* The ledger invariant holds at first and every step of the system keeps it.
LEMMA LedgerInvInductive ==
  /\ ReleaseInit => LedgerInv
  /\ LedgerInv /\ [ReleaseNext]_vars => LedgerInv'
<1>1. ReleaseInit => LedgerInv
  <2> SUFFICES ASSUME ReleaseInit PROVE LedgerInv
    OBVIOUS
  <2>1. TypeInv
    <3>1. LedgerTypeOK
      BY DEF ReleaseInit, LedgerTypeOK
    <3>2. PublicTypeOK
      BY DEF ReleaseInit, PublicTypeOK
    <3>3. RunTypeOK
      <4>1. /\ attempt \in [Runs -> Nat] /\ sha \in [Runs -> Nat] /\ source \in [Runs -> Nat]
            /\ overtaken \in [Runs -> BOOLEAN]
            /\ pc \in [Runs -> Waiting \cup Steps \cup Concluded]
        BY DEF ReleaseInit, Waiting
      <4>2. /\ plan \in [Runs -> Plans \cup {NoPlan}]
            /\ seen \in [Runs -> Ledgers \cup {NoLedger}]
        BY DEF ReleaseInit
      <4> QED
        BY <4>1, <4>2 DEF RunTypeOK
    <3> QED
      BY <3>1, <3>2, <3>3 DEF TypeInv
  <2>2. BranchMade /\ TagsBounded
    BY DEF ReleaseInit, BranchMade, TagsBounded
  <2>3. Sound(Content(ledger))
    BY EmptyIsSound DEF ReleaseInit, Content
  <2>4. \A r \in Runs : RunInv(r)
    BY DEF ReleaseInit, RunInv, Fresh, Holds, Names, Begun, Holding, Steps
  <2> QED
    BY <2>1, <2>2, <2>3, <2>4 DEF LedgerInv
<1>2. LedgerInv /\ [ReleaseNext]_vars => LedgerInv'
  <2> SUFFICES ASSUME LedgerInv, [ReleaseNext]_vars PROVE LedgerInv'
    OBVIOUS
  <2>1. CASE UNCHANGED vars
    <3>1. TypeInv' /\ BranchMade' /\ Sound(Content(ledger))' /\ TagsBounded'
      BY <2>1 DEF vars, LedgerInv, TypeInv, LedgerTypeOK, PublicTypeOK, RunTypeOK,
                  BranchMade, TagsBounded
    <3>2. \A r \in Runs : RunInv(r)'
      BY <2>1, OthersKeep DEF vars
    <3> QED
      BY <3>1, <3>2 DEF LedgerInv
  <2>2. CASE MoveHead
    BY <2>2, MoveHeadKeeps
  <2>3. ASSUME NEW r \in Runs, PrepareNext(r) PROVE LedgerInv'
    BY <2>3, TurnoverKeeps, ReadingKeeps, AllocationKeeps, ReserveKeeps DEF PrepareNext
  <2>4. ASSUME NEW r \in Runs, VerifyNext(r) PROVE LedgerInv'
    BY <2>4, ReadingKeeps, AllocationKeeps, ConsumeKeeps DEF VerifyNext
  <2>5. ASSUME NEW r \in Runs, PublishNext(r) PROVE LedgerInv'
    BY <2>5, ReadingKeeps, PublishingKeeps DEF PublishNext
  <2> QED
    BY <2>1, <2>2, <2>3, <2>4, <2>5 DEF ReleaseNext
<1> QED
  BY <1>1, <1>2

\* The ledger invariant is one of the specification.
THEOREM LedgerInvariant == ReleaseSpec => []LedgerInv
BY LedgerInvInductive, PTL DEF ReleaseSpec

\* Every run and everything GitHub keeps is well typed, and read_state accepts
\* any ledger that reserve_plan and begin_publication have written.
THEOREM ReleaseTypeCorrect == ReleaseSpec => []ReleaseTypeOK
<1>1. LedgerInv => ReleaseTypeOK
  BY DEF LedgerInv, TypeInv, ReleaseTypeOK, BranchMade, Sound, Content
<1> QED
  BY <1>1, LedgerInvariant, PTL

\* No two runs ever hold the same build number or tag, whether or not the
\* workflow serializes them: the compare-and-swap of write_state is enough.
THEOREM ReservationsAreUnique == ReleaseSpec => []UniqueReservations
<1>1. LedgerInv => UniqueReservations
  BY DEF LedgerInv, UniqueReservations, Sound, Content
<1> QED
  BY <1>1, LedgerInvariant, PTL

\* A step of Release that is no write of the ledger leaves it alone.
LEMMA OnlyTwoWrites ==
  ASSUME [ReleaseNext]_vars, ledger' # ledger
  PROVE  \E r \in Runs : Reserve(r) \/ Consume(r)
<1> USE DEF github
<1>1. ASSUME NEW r \in Runs, PrepareNext(r) PROVE Reserve(r)
  BY <1>1 DEF PrepareNext, Trigger, Start, VersionRequired, Resume, Allocate, EnsureBranch,
              Fail, Rerun
<1>2. ASSUME NEW r \in Runs, VerifyNext(r) PROVE Consume(r)
  BY <1>2 DEF VerifyNext, Verify, Supersede, VerifyRC, Promote, Reuse, Recheck, BeginPublication
<1>3. ASSUME NEW r \in Runs, PublishNext(r) PROVE FALSE
  BY <1>3 DEF PublishNext, PushTag, CreateRelease, Reconcile, Upload, ConfirmSource, Publish,
              Conclude
<1>4. ~MoveHead /\ ~UNCHANGED vars
  BY DEF MoveHead, vars
<1> QED
  BY <1>1, <1>2, <1>3, <1>4 DEF ReleaseNext

\* No step of the release engine takes a reservation back or lowers the counter
\* or the publication floor, however many runs write at once.
THEOREM LedgerIsMonotonic == ReleaseSpec => LedgerOnlyGrows
<1> DEFINE Grows == ledger # NoLedger =>
             /\ ledger' # NoLedger
             /\ ledger'.counter >= ledger.counter /\ ledger'.floor >= ledger.floor
             /\ \A r \in Reserved(ledger) : ledger'.plans[r] = ledger.plans[r]
<1>1. LedgerInv /\ [ReleaseNext]_vars => [Grows]_vars
  <2> SUFFICES ASSUME LedgerInv, [ReleaseNext]_vars, ledger # NoLedger PROVE Grows
    BY DEF vars
  <2>1. /\ Content(ledger) = ledger /\ ledger \in Ledgers
        /\ ledger.counter \in Nat /\ ledger.floor \in Nat
    BY DEF Content, LedgerInv, TypeInv, LedgerTypeOK, Ledgers
  <2>2. CASE ledger' = ledger
    BY <2>1, <2>2
  <2>3. CASE ledger' # ledger
    <3>1. PICK r \in Runs : Reserve(r) \/ Consume(r)
      BY <2>3, OnlyTwoWrites
    <3>2. ledger' \in Ledgers /\ Content(ledger).counter <= ledger'.counter
                     /\ Content(ledger).floor <= ledger'.floor
                     /\ \A o \in Reserved(Content(ledger)) :
                          ledger'.plans[o] = Content(ledger).plans[o]
      <4>1. CASE Reserve(r)
        BY <4>1, <2>1, ReserveKeeps
      <4>2. CASE Consume(r)
        BY <4>2, <2>1, ConsumeKeeps
      <4> QED
        BY <3>1, <4>1, <4>2
    <3>3. ledger' # NoLedger /\ ledger'.counter \in Nat /\ ledger'.floor \in Nat
      BY <3>2, ReleaseAssumption DEF Ledgers
    <3> QED
      BY <2>1, <3>2, <3>3
  <2> QED
    BY <2>2, <2>3
<1> QED
  BY <1>1, LedgerInvariant, PTL DEF ReleaseSpec, LedgerOnlyGrows

-----------------------------------------------------------------------------
(* What is public.  The invariants below are about the runs between the last  *)
(* check of what they publish and its publication.                            *)

\* The steps of a run that has pushed its tag and not yet published.
Owning == {"create", "readback", "upload", "confirm", "patch"}

\* ... and of one that has passed its second round of checks.
Committed == {"begin", "consume", "tag"} \cup Owning

\* A run is where it was, with what it had.
Stays(r) ==
  /\ pc'[r] = pc[r] /\ plan'[r] = plan[r] /\ attempt'[r] = attempt[r] /\ seen'[r] = seen[r]
  /\ sha'[r] = sha[r] /\ source'[r] = source[r]

\* The steps that lead a run to its publication, from the first round of checks.
Advances(r) ==
  \/ Verify(r) \/ Promote(r) \/ Recheck(r) \/ BeginPublication(r) \/ Consume(r)
  \/ PushTag(r) \/ CreateRelease(r) \/ Reconcile(r) \/ Upload(r) \/ ConfirmSource(r) \/ Publish(r)

\* Only by these steps is a run staged or committed; and one run moves at a time.
LEMMA OneMoves ==
  ASSUME TypeInv, [ReleaseNext]_vars, NEW r \in Runs
  PROVE  /\ Stays(r) \/ Advances(r) \/ pc'[r] \notin Committed \cup {"staged"}
         /\ Stays(r) \/ pc'[r] # "idle"
         /\ ~Stays(r) => \A q \in Runs : q # r => Stays(q)
<1> USE DEF Stays, github, control, Goto, GotoOrLose, Forget, Committed, Owning
<1>1. /\ pc \in [Runs -> Places] /\ attempt \in [Runs -> Nat] /\ sha \in [Runs -> Nat]
      /\ source \in [Runs -> Nat] /\ plan \in [Runs -> Plans \cup {NoPlan}]
      /\ seen \in [Runs -> Ledgers \cup {NoLedger}]
  BY DEF TypeInv, RunTypeOK, Places
<1>2. ASSUME NEW o \in Runs,
             /\ UNCHANGED <<attempt, sha, plan>>
             /\ \E s \in {"staged", "begin", "consume", "tag", "failed", "create", "readback", "upload",
                          "confirm", "patch", "evidence"} : pc' = [pc EXCEPT ![o] = s],
             \/ UNCHANGED <<seen, source>>
             \/ UNCHANGED seen /\ source' = [source EXCEPT ![o] = head]
             \/ UNCHANGED source /\ \E v : seen' = [seen EXCEPT ![o] = v]
      PROVE  pc'[o] # "idle" /\ \A q \in Runs : q # o => Stays(q)
  BY <1>1, <1>2
<1>3. ASSUME NEW o \in Runs, Advances(o)
      PROVE  pc'[o] # "idle" /\ \A q \in Runs : q # o => Stays(q)
  <2>1. CASE Verify(o) \/ Promote(o) \/ Reconcile(o) \/ ConfirmSource(o)
    BY <1>2, <2>1 DEF Verify, Promote, Reconcile, ConfirmSource
  <2>2. CASE Recheck(o)
    BY <1>2, <2>2 DEF Recheck
  <2>3. CASE BeginPublication(o)
    BY <1>2, <2>3 DEF BeginPublication
  <2>4. CASE Consume(o)
    BY <1>2, <2>4 DEF Consume
  <2>5. CASE PushTag(o) \/ CreateRelease(o) \/ Upload(o) \/ Publish(o)
    BY <1>2, <2>5 DEF PushTag, CreateRelease, Upload, Publish
  <2> QED
    BY <1>3, <2>1, <2>2, <2>3, <2>4, <2>5 DEF Advances
<1>4. ASSUME NEW o \in Runs, ReleaseNext, ~Advances(o), PrepareNext(o) \/ VerifyNext(o) \/ PublishNext(o)
      PROVE  /\ pc'[o] # "idle" /\ pc'[o] \notin Committed \cup {"staged"}
             /\ \A q \in Runs : q # o => Stays(q)
  <2>1. CASE Trigger(o)
    BY <1>1, <2>1 DEF Trigger
  <2>2. CASE Start(o) \/ VersionRequired(o) \/ Supersede(o) \/ VerifyRC(o) \/ Reuse(o)
    BY <1>1, <2>2 DEF Start, VersionRequired, Supersede, VerifyRC, Reuse
  <2>3. CASE Resume(o) \/ Allocate(o)
    BY <1>1, <2>3 DEF Resume, Allocate
  <2>4. CASE EnsureBranch(o) \/ Reserve(o)
    BY <1>1, <2>4 DEF EnsureBranch, Reserve
  <2>5. CASE Fail(o) \/ Rerun(o)
    BY <1>1, <2>5 DEF Fail, Rerun
  <2>6. CASE Conclude(o)
    BY <1>1, <2>6 DEF Conclude
  <2> QED
    BY <1>4, <2>1, <2>2, <2>3, <2>4, <2>5, <2>6 DEF Advances, PrepareNext, VerifyNext, PublishNext
<1>5. CASE MoveHead \/ UNCHANGED vars
  BY <1>5 DEF MoveHead, vars
<1>6. ASSUME NEW o \in Runs, ReleaseNext, PrepareNext(o) \/ VerifyNext(o) \/ PublishNext(o)
      PROVE  /\ Stays(r) \/ Advances(r) \/ pc'[r] \notin Committed \cup {"staged"}
             /\ Stays(r) \/ pc'[r] # "idle"
             /\ ~Stays(r) => \A q \in Runs : q # r => Stays(q)
  <2> HIDE DEF Stays
  <2> QED
    BY <1>3, <1>4, <1>6
<1> QED
  BY <1>5, <1>6 DEF ReleaseNext

\* What is public changes by five steps only.
LEMMA FivePublicSteps ==
  ASSUME [ReleaseNext]_vars
  PROVE  \/ UNCHANGED <<tags, releases, evidence, published>>
         \/ \E r \in Runs : PushTag(r) \/ CreateRelease(r) \/ Upload(r) \/ Publish(r) \/ Conclude(r)
<1> USE DEF github
<1>1. ASSUME NEW r \in Runs, PrepareNext(r) PROVE UNCHANGED <<tags, releases, evidence, published>>
  BY <1>1 DEF PrepareNext, Trigger, Start, VersionRequired, Resume, Allocate, EnsureBranch,
              Reserve, Fail, Rerun
<1>2. ASSUME NEW r \in Runs, VerifyNext(r) PROVE UNCHANGED <<tags, releases, evidence, published>>
  BY <1>2 DEF VerifyNext, Verify, Supersede, VerifyRC, Promote, Reuse, Recheck, BeginPublication,
              Consume
<1>3. ASSUME NEW r \in Runs, Reconcile(r) \/ ConfirmSource(r)
      PROVE  UNCHANGED <<tags, releases, evidence, published>>
  BY <1>3 DEF Reconcile, ConfirmSource
<1>4. CASE MoveHead \/ UNCHANGED vars
  BY <1>4 DEF MoveHead, vars
<1> QED
  BY <1>1, <1>2, <1>3, <1>4 DEF ReleaseNext, PublishNext

(* One release per tag: a tag is pushed once, and whoever pushed it makes at  *)
(* most one release of it.                                                    *)

ReleasesOf(t) == {x \in releases : x.tag = t}

Taken ==
  /\ \A x \in releases : x.tag \in tags
  /\ \A r \in Runs : pc[r] \in Owning => Target(r) \in tags
  /\ \A q, r \in Runs : q # r /\ pc[q] \in Owning /\ pc[r] \in Owning => Target(q) # Target(r)

\* The releases of the tag that run r owns.
Owns(r) ==
  /\ pc[r] = "create" => ReleasesOf(Target(r)) = {}
  /\ pc[r] \in {"readback", "upload"} => ReleasesOf(Target(r)) \subseteq {Draft(r)}
  /\ pc[r] \in {"confirm", "patch"} => ReleasesOf(Target(r)) \subseteq {Complete(r)}

TagInv == Taken /\ (\A r \in Runs : Owns(r)) /\ OneReleasePerTag

\* A run that stays keeps its tag and its draft.
LEMMA StaysSame ==
  ASSUME NEW r \in Runs, Stays(r)
  PROVE  Target(r)' = Target(r) /\ Draft(r)' = Draft(r) /\ Complete(r)' = Complete(r)
BY DEF Stays, Target, Draft, Complete

\* A step of a run that moves no tag and no release.
LEMMA TagInvQuiet ==
  ASSUME TypeInv, TagInv, [ReleaseNext]_vars, UNCHANGED <<tags, releases>>,
         \A r \in Runs : ~PushTag(r) /\ ~CreateRelease(r) /\ ~Upload(r)
  PROVE  TagInv'
<1>1. ASSUME NEW r \in Runs, pc'[r] \in Owning
      PROVE  /\ pc[r] \in Owning /\ Target(r)' = Target(r)
             /\ Draft(r)' = Draft(r) /\ Complete(r)' = Complete(r)
             /\ \/ pc'[r] = pc[r]
                \/ pc[r] = "readback" /\ pc'[r] = "upload"
                \/ pc[r] = "confirm" /\ pc'[r] = "patch"
  <2>1. CASE Stays(r)
    BY <1>1, <2>1, StaysSame DEF Stays
  <2>2. CASE ~Stays(r)
    <3>1. Advances(r)
      BY <1>1, <2>2, OneMoves DEF Committed
    <3>2. pc \in [Runs -> Places]
      BY DEF TypeInv, RunTypeOK, Places
    <3>3. Reconcile(r) \/ ConfirmSource(r)
      BY <1>1, <3>1, <3>2 DEF Advances, Verify, Promote, Recheck, BeginPublication, Consume,
         Publish, Goto, GotoOrLose, Owning
    <3>4. UNCHANGED <<plan, attempt>>
      BY <3>3 DEF Reconcile, ConfirmSource, control
    <3>5. Target(r)' = Target(r) /\ Draft(r)' = Draft(r) /\ Complete(r)' = Complete(r)
      BY <3>4 DEF Target, Draft, Complete
    <3> QED
      BY <3>2, <3>3, <3>5 DEF Reconcile, ConfirmSource, Goto, Owning
  <2> QED
    BY <2>1, <2>2
<1>2. Taken'
  <2>1. \A x \in releases' : x.tag \in tags'
    BY DEF TagInv, Taken
  <2>2. \A r \in Runs : pc'[r] \in Owning => Target(r)' \in tags'
    BY <1>1 DEF TagInv, Taken
  <2>3. \A q, r \in Runs : q # r /\ pc'[q] \in Owning /\ pc'[r] \in Owning => Target(q)' # Target(r)'
    BY <1>1 DEF TagInv, Taken
  <2> QED
    BY <2>1, <2>2, <2>3 DEF Taken
<1>3. \A t : ReleasesOf(t)' = ReleasesOf(t)
  BY DEF ReleasesOf
<1>4. ASSUME NEW r \in Runs PROVE Owns(r)'
  <2>1. CASE pc'[r] \in Owning
    <3>1. ReleasesOf(Target(r))' = ReleasesOf(Target(r))
      BY <1>1, <2>1 DEF ReleasesOf
    <3> QED
      BY <1>1, <2>1, <3>1 DEF Owns, TagInv
  <2>2. CASE pc'[r] \notin Owning
    BY <2>2 DEF Owns, Owning
  <2> QED
    BY <2>1, <2>2
<1> QED
  BY <1>2, <1>4 DEF TagInv, OneReleasePerTag

\* A step of run r in which only r moves and keeps its plan and attempt.
LEMMA TagInvMove ==
  ASSUME TypeInv, TagInv, [ReleaseNext]_vars, NEW r \in Runs,
         pc[r] \in Owning \/ Target(r) \notin tags,
         ~Stays(r), UNCHANGED <<plan, attempt>>,
         tags \subseteq tags', \A x \in releases' : x.tag \in tags',
         pc'[r] \in Owning => Target(r) \in tags',
         \A q \in Runs : q # r /\ pc[q] \in Owning =>
           ReleasesOf(Target(q))' = ReleasesOf(Target(q)),
         Owns(r)', OneReleasePerTag'
  PROVE  TagInv'
<1>1. \A q \in Runs : /\ Target(q)' = Target(q) /\ Draft(q)' = Draft(q) /\ Complete(q)' = Complete(q)
                      /\ q # r => pc'[q] = pc[q]
  BY OneMoves DEF Target, Draft, Complete, Stays
<1>2. Taken'
  BY <1>1 DEF TagInv, Taken
<1>3. ASSUME NEW q \in Runs, q # r PROVE Owns(q)'
  <2>1. CASE pc[q] \in Owning
    <3>1. ReleasesOf(Target(q))' = ReleasesOf(Target(q))
      BY <1>3, <2>1
    <3> QED
      BY <1>1, <1>3, <3>1 DEF Owns, TagInv
  <2>2. CASE pc[q] \notin Owning
    BY <1>1, <1>3, <2>2 DEF Owns, Owning
  <2> QED
    BY <2>1, <2>2
<1> QED
  BY <1>2, <1>3 DEF TagInv

\* No step makes a second release of a tag.
LEMMA TagInvStep == TypeInv /\ TagInv /\ [ReleaseNext]_vars => TagInv'
<1> SUFFICES ASSUME TypeInv, TagInv, [ReleaseNext]_vars PROVE TagInv'
  OBVIOUS
<1> USE DEF control, Goto, GotoOrLose
<1>0. pc \in [Runs -> Places]
  BY DEF TypeInv, RunTypeOK, Places
<1>1. ASSUME NEW r \in Runs, PushTag(r) PROVE TagInv'
  <2>1. /\ pc[r] = "tag" /\ pc'[r] \in {"create", "failed"} /\ UNCHANGED <<plan, attempt, releases>>
        /\ Target(r) \notin tags /\ tags' = tags \cup {Target(r)} /\ \A x \in releases : x.tag # Target(r)
    BY <1>0, <1>1 DEF PushTag, Absent
  <2>2. ~Stays(r)
    BY <2>1 DEF Stays
  <2>3. \A t : ReleasesOf(t)' = ReleasesOf(t)
    BY <2>1 DEF ReleasesOf
  <2>4. \A q \in Runs : q # r /\ pc[q] \in Owning =>
           ReleasesOf(Target(q))' = ReleasesOf(Target(q))
    BY <2>1 DEF ReleasesOf, Target
  <2>5. Owns(r)'
    <3>1. Target(r)' = Target(r)
      BY <2>1 DEF Target
    <3>2. ReleasesOf(Target(r))' = {}
      BY <2>1, <3>1 DEF ReleasesOf
    <3> QED
      BY <2>1, <3>2 DEF Owns
  <2>6. OneReleasePerTag' /\ \A x \in releases' : x.tag \in tags'
    BY <2>1 DEF TagInv, OneReleasePerTag, Taken
  <2> QED
    BY <2>1, <2>2, <2>4, <2>5, <2>6, TagInvMove
<1>2. ASSUME NEW r \in Runs, CreateRelease(r) PROVE TagInv'
  <2>1. /\ pc[r] = "create" /\ pc'[r] \in {"upload", "failed", "readback"}
        /\ UNCHANGED <<plan, attempt, tags>> /\ releases' \in {releases, releases \cup {Draft(r)}}
    BY <1>0, <1>2 DEF CreateRelease
  <2>2. ~Stays(r) /\ pc[r] \in Owning
    BY <2>1 DEF Stays, Owning
  <2>3. Draft(r).tag = Target(r) /\ Target(r)' = Target(r) /\ Draft(r)' = Draft(r)
    BY <2>1 DEF Draft, Target
  <2>4. \A x \in releases : x.tag # Target(r)
    BY <2>1 DEF TagInv, Owns, ReleasesOf
  <2>5. \A q \in Runs : q # r /\ pc[q] \in Owning =>
           ReleasesOf(Target(q))' = ReleasesOf(Target(q))
    <3> SUFFICES ASSUME NEW q \in Runs, q # r, pc[q] \in Owning
                 PROVE  ReleasesOf(Target(q))' = ReleasesOf(Target(q))
      OBVIOUS
    <3>1. Target(q) # Target(r) /\ Target(q)' = Target(q)
      BY <2>1, <2>2 DEF TagInv, Taken, Target
    <3> QED
      BY <2>1, <2>3, <3>1 DEF ReleasesOf
  <2>6. Owns(r)'
    <3>1. ReleasesOf(Target(r))' \subseteq {Draft(r)'}
      BY <2>1, <2>3, <2>4 DEF ReleasesOf
    <3> QED
      BY <2>1, <3>1 DEF Owns
  <2>7. OneReleasePerTag' /\ \A x \in releases' : x.tag \in tags'
    BY <2>1, <2>2, <2>3, <2>4 DEF TagInv, OneReleasePerTag, Taken
  <2>8. Target(r) \in tags'
    BY <2>1, <2>2 DEF TagInv, Taken
  <2> QED
    BY <2>1, <2>2, <2>5, <2>6, <2>7, <2>8, TagInvMove
<1>3. ASSUME NEW r \in Runs, Upload(r) PROVE TagInv'
  <2>1. /\ pc[r] = "upload" /\ pc'[r] = "confirm"
        /\ UNCHANGED <<plan, attempt, tags>> /\ releases' = (releases \ {Draft(r)}) \cup {Complete(r)}
    BY <1>0, <1>3 DEF Upload
  <2>2. ~Stays(r) /\ pc[r] \in Owning
    BY <2>1 DEF Stays, Owning
  <2>3. /\ Draft(r).tag = Target(r) /\ Complete(r).tag = Target(r)
        /\ Target(r)' = Target(r) /\ Complete(r)' = Complete(r)
    BY <2>1 DEF Draft, Target, Complete
  <2>4. \A x \in releases : x.tag = Target(r) => x = Draft(r)
    BY <2>1 DEF TagInv, Owns, ReleasesOf
  <2>5. \A q \in Runs : q # r /\ pc[q] \in Owning =>
           ReleasesOf(Target(q))' = ReleasesOf(Target(q))
    <3> SUFFICES ASSUME NEW q \in Runs, q # r, pc[q] \in Owning
                 PROVE  ReleasesOf(Target(q))' = ReleasesOf(Target(q))
      OBVIOUS
    <3>1. Target(q) # Target(r) /\ Target(q)' = Target(q)
      BY <2>1, <2>2 DEF TagInv, Taken, Target
    <3> QED
      BY <2>1, <2>3, <3>1 DEF ReleasesOf
  <2>6. Owns(r)'
    <3>1. ReleasesOf(Target(r))' \subseteq {Complete(r)'}
      BY <2>1, <2>3, <2>4 DEF ReleasesOf
    <3> QED
      BY <2>1, <3>1 DEF Owns
  <2>7. Target(r) \in tags'
    BY <2>1, <2>2 DEF TagInv, Taken
  <2>8. OneReleasePerTag' /\ \A x \in releases' : x.tag \in tags'
    BY <2>1, <2>3, <2>4, <2>7 DEF TagInv, OneReleasePerTag, Taken
  <2> QED
    BY <2>1, <2>2, <2>5, <2>6, <2>7, <2>8, TagInvMove
<1>4. ASSUME NEW r \in Runs, Publish(r) PROVE TagInv'
  <2> DEFINE f(x) == IF x.run = r /\ x.attempt = attempt[r] THEN [x EXCEPT !.draft = FALSE] ELSE x
  <2>1. /\ pc[r] = "patch" /\ pc'[r] \in {"evidence", "failed"}
        /\ UNCHANGED <<plan, attempt, tags>> /\ releases' = {f(x) : x \in releases}
    BY <1>0, <1>4 DEF Publish
  <2>2. ~Stays(r) /\ pc[r] \in Owning /\ pc'[r] \notin Owning
    BY <2>1 DEF Stays, Owning
  <2>3. \A x \in releases : f(x).tag = x.tag /\ (x.run # r => f(x) = x)
    BY DEF TypeInv, PublicTypeOK
  <2> HIDE DEF f
  <2>4. \A q \in Runs : q # r /\ pc[q] \in Owning =>
           ReleasesOf(Target(q))' = ReleasesOf(Target(q))
    <3> SUFFICES ASSUME NEW q \in Runs, q # r, pc[q] \in Owning
                 PROVE  ReleasesOf(Target(q))' = ReleasesOf(Target(q))
      OBVIOUS
    <3>1. Target(q)' = Target(q)
      BY <2>1 DEF Target
    <3>2. \A x \in releases : x.tag = Target(q) => x.run = q
      <4>1. Draft(q).run = q /\ Complete(q).run = q
        BY DEF Draft, Complete
      <4>2. \A x \in releases : x.tag = Target(q) => x \in {Draft(q), Complete(q)}
        BY DEF TagInv, Owns, ReleasesOf, Owning
      <4> QED
        BY <4>1, <4>2
    <3> QED
      BY <2>1, <2>3, <3>1, <3>2 DEF ReleasesOf
  <2>5. Owns(r)'
    BY <2>1 DEF Owns
  <2>6. OneReleasePerTag' /\ \A x \in releases' : x.tag \in tags'
    BY <2>1, <2>3 DEF TagInv, OneReleasePerTag, Taken
  <2> QED
    BY <2>1, <2>2, <2>4, <2>5, <2>6, TagInvMove
<1>5. CASE \A r \in Runs : ~PushTag(r) /\ ~CreateRelease(r) /\ ~Upload(r) /\ ~Publish(r)
  <2>1. UNCHANGED <<tags, releases>>
    BY <1>5, FivePublicSteps DEF Conclude
  <2> QED
    BY <1>5, <2>1, TagInvQuiet
<1> QED
  BY <1>1, <1>2, <1>3, <1>4, <1>5

\* A tag never has two releases, drafts included, whether or not the workflow
\* serializes the runs: GitHub creates a tag once (_publish_prepared).
THEOREM OneReleaseOfATag == ReleaseSpec => []OneReleasePerTag
<1>1. ReleaseInit => TagInv
  BY DEF ReleaseInit, TagInv, Taken, Owns, OneReleasePerTag, Owning
<1>2. LedgerInv /\ TagInv /\ [ReleaseNext]_vars => TagInv'
  BY TagInvStep DEF LedgerInv
<1>3. ReleaseSpec => []TagInv
  BY <1>1, <1>2, LedgerInvariant, PTL DEF ReleaseSpec
<1> QED
  BY <1>3, PTL DEF TagInv

(* A stable release is of an accepted candidate: once public, complete and    *)
(* with its evidence, a candidate stays so, and what has a tag has the number *)
(* that was reserved with it.                                                 *)

\* A candidate's release has the tag and the number of one reservation.
OfPlans ==
  \A x \in releases : x.tag.channel # "stable" =>
    \E q \in Reserved(Content(ledger)) :
      Content(ledger).plans[q].tag = x.tag /\ Content(ledger).plans[q].number = x.number

\* A public, complete candidate of plan p whose run stored its evidence.
Qualifies(y, p) ==
  y.tag = p.tag /\ y.number = p.number /\ ~y.draft /\ y.whole /\ <<y.run, y.attempt>> \in evidence

Approved(r) ==
  Channel[r] = "stable" =>
    /\ pc[r] # "idle" => plan[r].tag.channel = "rc"
    /\ pc[r] \in Committed => \E y \in releases : Qualifies(y, plan[r])

Backs(y, x) ==
  /\ y.tag.channel = "rc" /\ y.tag.base = x.tag.base /\ y.number = x.number
  /\ ~y.draft /\ y.whole /\ <<y.run, y.attempt>> \in evidence

\* Every stable release, drafts included, has its candidate.
Backed == \A x \in releases : x.tag.channel = "stable" => \E y \in releases : Backs(y, x)

StableInv == OfPlans /\ (\A r \in Runs : Approved(r)) /\ Backed

\* A reservation stays as it was made.
LEMMA PlansStay ==
  ASSUME LedgerInv, [ReleaseNext]_vars, NEW q \in Reserved(Content(ledger))
  PROVE  q \in Reserved(Content(ledger')) /\ Content(ledger').plans[q] = Content(ledger).plans[q]
<1>1. CASE ledger' = ledger
  BY <1>1
<1>2. CASE ledger' # ledger
  <2>1. PICK r \in Runs : Reserve(r) \/ Consume(r)
    BY <1>2, OnlyTwoWrites
  <2>2. ledger' \in Ledgers /\ ledger'.plans[q] = Content(ledger).plans[q]
    BY <2>1, ReserveKeeps, ConsumeKeeps
  <2>3. Content(ledger') = ledger'
    BY <2>2, ReleaseAssumption DEF Content
  <2> QED
    BY <2>2, <2>3 DEF Reserved
<1> QED
  BY <1>1, <1>2

\* A public release and the evidence of its run stay.
LEMMA PublicForGood ==
  ASSUME TypeInv, [ReleaseNext]_vars
  PROVE  evidence \subseteq evidence' /\ \A y \in releases : ~y.draft => y \in releases'
<1>1. CASE UNCHANGED <<tags, releases, evidence, published>>
  BY <1>1
<1>2. ASSUME NEW r \in Runs, PushTag(r) \/ CreateRelease(r) \/ Conclude(r)
      PROVE  evidence \subseteq evidence' /\ releases \subseteq releases'
  BY <1>2 DEF PushTag, CreateRelease, Conclude
<1>3. ASSUME NEW r \in Runs, Upload(r), NEW y \in releases, ~y.draft
      PROVE  evidence \subseteq evidence' /\ y \in releases'
  <2>1. y # Draft(r)
    BY <1>3 DEF Draft
  <2> QED
    BY <1>3, <2>1 DEF Upload
<1>4. ASSUME NEW r \in Runs, Publish(r), NEW y \in releases, ~y.draft
      PROVE  evidence \subseteq evidence' /\ y \in releases'
  <2>1. [y EXCEPT !.draft = FALSE] = y
    BY <1>4 DEF TypeInv, PublicTypeOK
  <2> QED
    BY <1>4, <2>1 DEF Publish
<1>5. ASSUME NEW r \in Runs, Upload(r) \/ Publish(r) PROVE evidence \subseteq evidence'
  BY <1>5 DEF Upload, Publish
<1> QED
  BY <1>1, <1>2, <1>3, <1>4, <1>5, FivePublicSteps

\* What is new among the releases: a draft, a completed draft, or a release
\* that differs in nothing but in being public.
LEMMA NewReleases ==
  ASSUME TypeInv, [ReleaseNext]_vars, NEW x \in releases', x \notin releases
  PROVE  \E r \in Runs :
           /\ pc[r] \in Owning
           /\ \/ x \in {Draft(r), Complete(r)}
              \/ \E z \in releases : /\ z.run = r /\ x = [z EXCEPT !.draft = FALSE]
                                     /\ pc[r] = "patch"
<1>1. PICK r \in Runs : CreateRelease(r) \/ Upload(r) \/ Publish(r)
  BY FivePublicSteps DEF PushTag, Conclude
<1>2. pc[r] \in Owning /\ (Publish(r) => pc[r] = "patch")
  BY <1>1 DEF CreateRelease, Upload, Publish, Owning
<1>3. CASE CreateRelease(r) \/ Upload(r)
  BY <1>2, <1>3 DEF CreateRelease, Upload
<1>4. CASE Publish(r)
  BY <1>2, <1>4 DEF Publish
<1> QED
  BY <1>1, <1>3, <1>4

\* Where the plan of a promotion comes from.
LEMMA PromotionPlan ==
  ASSUME TypeInv, [ReleaseNext]_vars, NEW r \in Runs, Channel[r] = "stable"
  PROVE  Trigger(r) \/ (plan'[r] = plan[r] /\ (pc[r] = "idle" => pc'[r] = "idle"))
<1> USE DEF github, control, Goto, GotoOrLose, Forget
<1>1. /\ pc \in [Runs -> Places] /\ plan \in [Runs -> Plans \cup {NoPlan}]
  BY DEF TypeInv, RunTypeOK, Places
<1>2. CASE Stays(r)
  BY <1>2 DEF Stays
<1>3. CASE ~Stays(r)
  <2>1. PrepareNext(r) \/ VerifyNext(r) \/ PublishNext(r)
    <3>1. ASSUME NEW o \in Runs, PrepareNext(o) \/ VerifyNext(o) \/ PublishNext(o), o # r
          PROVE  Stays(r)
      <4>1. ReleaseNext
        BY <3>1 DEF ReleaseNext
      <4>2. \/ ~Stays(o)
            \/ Stays(o)
        OBVIOUS
      <4>3. ~Stays(o) => Stays(r)
        BY <3>1, OneMoves
      <4>4. Stays(o) => FALSE
        <5>1. pc'[o] # pc[o]
          BY <1>1, <3>1 DEF PrepareNext, VerifyNext, PublishNext, Trigger, Start, VersionRequired,
             Resume, Allocate, EnsureBranch, Reserve, Fail, Rerun, Verify, Supersede, VerifyRC,
             Promote, Reuse, Recheck, BeginPublication, Consume, PushTag, CreateRelease, Reconcile,
             Upload, ConfirmSource, Publish, Conclude, Active, Steps, Concluded
        <5> QED
          BY <5>1 DEF Stays
      <4> QED
        BY <4>2, <4>3, <4>4
    <3>2. MoveHead \/ UNCHANGED vars => Stays(r)
      BY DEF MoveHead, vars, Stays
    <3> QED
      BY <1>3, <3>1, <3>2 DEF ReleaseNext
  <2>2. CASE PrepareNext(r)
    BY <1>1, <2>2 DEF PrepareNext, Start, VersionRequired, Resume, Allocate, EnsureBranch, Reserve,
       Fail, Rerun, Active, Steps, Concluded
  <2>3. CASE VerifyNext(r)
    BY <1>1, <2>3 DEF VerifyNext, Verify, Supersede, VerifyRC, Promote, Reuse, Recheck,
       BeginPublication, Consume
  <2>4. CASE PublishNext(r)
    BY <1>1, <2>4 DEF PublishNext, PushTag, CreateRelease, Reconcile, Upload, ConfirmSource, Publish,
       Conclude
  <2> QED
    BY <2>1, <2>2, <2>3, <2>4
<1> QED
  BY <1>2, <1>3

\* The release of an owner has its plan's number and, for a candidate, its tag.
LEMMA OwnRelease ==
  ASSUME LedgerInv, NEW r \in Runs, pc[r] \in Owning, NEW x \in {Draft(r), Complete(r)}
  PROVE  /\ x.tag = Target(r) /\ x.number = plan[r].number
         /\ Channel[r] = "stable" => x.tag.channel = "stable" /\ x.tag.base = plan[r].tag.base
         /\ Channel[r] # "stable" => /\ x.tag = plan[r].tag /\ x.tag.channel # "stable"
                                     /\ r \in Reserved(Content(ledger))
                                     /\ Content(ledger).plans[r] = plan[r]
<1>1. x.tag = Target(r) /\ x.number = plan[r].number
  BY DEF Draft, Complete
<1>2. Channel[r] = "stable" => x.tag.channel = "stable" /\ x.tag.base = plan[r].tag.base
  BY <1>1 DEF Target, StableTag
<1>3. CASE Channel[r] # "stable"
  <2>1. pc[r] \in Holding
    BY DEF Owning, Holding, Steps
  <2>2. plan[r] # NoPlan /\ Content(ledger).plans[r] = plan[r]
    BY <1>3, <2>1 DEF LedgerInv, RunInv, Holds
  <2>3. r \in Reserved(Content(ledger))
    BY <2>2 DEF Reserved
  <2>4. plan[r].tag.channel = Channel[r]
    BY <2>2, <2>3 DEF LedgerInv, Sound, NamedBy
  <2> QED
    BY <1>1, <1>3, <2>2, <2>3, <2>4 DEF Target
<1> QED
  BY <1>1, <1>2, <1>3

\* A candidate that Accepted takes is one of the very plan.
LEMMA AcceptedQualifies ==
  ASSUME LedgerInv, StableInv, NEW r \in Runs, Channel[r] = "stable", pc[r] # "idle", Accepted(plan[r])
  PROVE  \E y \in releases : Qualifies(y, plan[r])
<1> DEFINE l == Content(ledger)
<1>1. PICK q \in Reserved(l) : l.plans[q] = plan[r]
  BY DEF LedgerInv, RunInv, Names
<1>2. PICK y \in releases : y.tag = plan[r].tag /\ PublicAndWhole(y) /\ HasEvidence(y)
  BY DEF Accepted
<1>3. y.tag.channel = "rc"
  BY <1>2 DEF StableInv, Approved
<1>4. PICK o \in Reserved(l) : l.plans[o].tag = y.tag /\ l.plans[o].number = y.number
  BY <1>3 DEF StableInv, OfPlans
<1>5. o = q
  BY <1>1, <1>2, <1>4 DEF LedgerInv, Sound
<1>6. Qualifies(y, plan[r])
  BY <1>1, <1>2, <1>4, <1>5 DEF Qualifies, PublicAndWhole, HasEvidence
<1> QED
  BY <1>6

\* No step leaves a stable release without its candidate.
LEMMA StableInvStep == LedgerInv /\ StableInv /\ [ReleaseNext]_vars => StableInv'
<1> SUFFICES ASSUME LedgerInv, StableInv, [ReleaseNext]_vars PROVE StableInv'
  OBVIOUS
<1>0. TypeInv /\ pc \in [Runs -> Places] /\ plan \in [Runs -> Plans \cup {NoPlan}]
  BY DEF LedgerInv, TypeInv, RunTypeOK, Places
<1>1. \A p, y : y \in releases /\ Qualifies(y, p) => y \in releases' /\ Qualifies(y, p)'
  BY <1>0, PublicForGood DEF Qualifies
<1>2. OfPlans'
  <2> SUFFICES ASSUME NEW x \in releases', x.tag.channel # "stable"
               PROVE  \E q \in Reserved(Content(ledger')) :
                        /\ Content(ledger').plans[q].tag = x.tag
                        /\ Content(ledger').plans[q].number = x.number
    BY DEF OfPlans
  <2>1. \E q \in Reserved(Content(ledger)) :
          Content(ledger).plans[q].tag = x.tag /\ Content(ledger).plans[q].number = x.number
    <3>1. CASE x \in releases
      BY <3>1 DEF StableInv, OfPlans
    <3>2. CASE x \notin releases
      <4>1. PICK r \in Runs :
              /\ pc[r] \in Owning
              /\ \/ x \in {Draft(r), Complete(r)}
                 \/ \E z \in releases : z.run = r /\ x = [z EXCEPT !.draft = FALSE]
        BY <1>0, <3>2, NewReleases
      <4>2. CASE x \in {Draft(r), Complete(r)}
        BY <4>1, <4>2, OwnRelease
      <4>3. ASSUME NEW z \in releases, x = [z EXCEPT !.draft = FALSE] PROVE x.tag = z.tag /\ x.number = z.number
        BY <1>0, <4>3 DEF TypeInv, PublicTypeOK
      <4> QED
        BY <4>1, <4>2, <4>3 DEF StableInv, OfPlans
    <3> QED
      BY <3>1, <3>2
  <2> QED
    BY <2>1, PlansStay
<1>3. ASSUME NEW r \in Runs, Channel[r] = "stable" PROVE Approved(r)'
  <2>1. pc'[r] # "idle" => plan'[r].tag.channel = "rc"
    <3>1. CASE Trigger(r)
      BY <1>0, <1>3, <3>1 DEF Trigger
    <3>2. CASE plan'[r] = plan[r] /\ (pc[r] = "idle" => pc'[r] = "idle")
      BY <1>3, <3>2 DEF StableInv, Approved
    <3> QED
      BY <1>0, <1>3, <3>1, <3>2, PromotionPlan
  <2>2. ASSUME pc'[r] \in Committed PROVE \E y \in releases' : Qualifies(y, plan[r])' /\ plan'[r] = plan[r]
    <3>1. CASE Stays(r)
      BY <1>1, <1>3, <2>2, <3>1 DEF Stays, StableInv, Approved
    <3>2. CASE ~Stays(r)
      <4>1. Advances(r)
        BY <1>0, <2>2, <3>2, OneMoves
      <4>2. UNCHANGED plan
        BY <4>1 DEF Advances, Verify, Promote, Recheck, BeginPublication, Consume, PushTag,
           CreateRelease, Reconcile, Upload, ConfirmSource, Publish
      <4>3. CASE Recheck(r)
        <5>1. Accepted(plan[r]) /\ pc[r] # "idle"
          BY <1>3, <4>3 DEF Recheck
        <5> QED
          BY <1>1, <1>3, <4>2, <5>1, AcceptedQualifies
      <4>4. CASE ~Recheck(r)
        <5>1. pc[r] \in Committed
          BY <1>0, <2>2, <4>1, <4>4 DEF Advances, Verify, Promote, BeginPublication, Consume, PushTag,
             CreateRelease, Reconcile, Upload, ConfirmSource, Publish, Goto, GotoOrLose, Committed,
             Owning
        <5> QED
          BY <1>1, <1>3, <4>2, <5>1 DEF StableInv, Approved
      <4> QED
        BY <4>3, <4>4
    <3> QED
      BY <3>1, <3>2
  <2> QED
    BY <2>1, <2>2 DEF Approved, Qualifies
<1>4. \A r \in Runs : Approved(r)'
  BY <1>3 DEF Approved
<1>5. Backed'
  <2> SUFFICES ASSUME NEW x \in releases', x.tag.channel = "stable"
               PROVE  \E y \in releases' : Backs(y, x)'
    BY DEF Backed
  <2>1. \A y \in releases : \A z : Backs(y, z) /\ x.tag = z.tag /\ x.number = z.number
          => y \in releases' /\ Backs(y, x)'
    BY <1>0, PublicForGood DEF Backs
  <2>2. CASE x \in releases
    BY <2>1, <2>2 DEF StableInv, Backed
  <2>3. CASE x \notin releases
    <3>1. PICK r \in Runs :
            /\ pc[r] \in Owning
            /\ \/ x \in {Draft(r), Complete(r)}
               \/ \E z \in releases : z.run = r /\ x = [z EXCEPT !.draft = FALSE]
      BY <1>0, <2>3, NewReleases
    <3>2. CASE x \in {Draft(r), Complete(r)}
      <4>1. Channel[r] = "stable" /\ x.tag.base = plan[r].tag.base /\ x.number = plan[r].number
        BY <3>1, <3>2, OwnRelease
      <4>2. plan[r].tag.channel = "rc"
        BY <3>1, <4>1 DEF StableInv, Approved, Owning
      <4>3. PICK y \in releases : Qualifies(y, plan[r])
        BY <3>1, <4>1 DEF StableInv, Approved, Committed
      <4>4. Backs(y, x)
        BY <4>1, <4>2, <4>3 DEF Backs, Qualifies
      <4> QED
        BY <2>1, <4>4
    <3>3. ASSUME NEW z \in releases, x = [z EXCEPT !.draft = FALSE] PROVE x.tag = z.tag /\ x.number = z.number
      BY <1>0, <3>3 DEF TypeInv, PublicTypeOK
    <3> QED
      BY <2>1, <3>1, <3>2, <3>3 DEF StableInv, Backed
  <2> QED
    BY <2>2, <2>3
<1> QED
  BY <1>2, <1>4, <1>5 DEF StableInv

\* Whatever is published as stable has the number of a public, complete release
\* candidate of its base, whose run stored its evidence, however many attempts
\* it took and whether or not the workflow serializes them (verified_rc, promote).
THEOREM StableHasItsCandidate == ReleaseSpec => []StableIsAccepted
<1>1. ReleaseInit => StableInv
  BY DEF ReleaseInit, StableInv, OfPlans, Approved, Backed, Committed, Owning
<1>2. ReleaseSpec => []StableInv
  BY <1>1, StableInvStep, LedgerInvariant, PTL DEF ReleaseSpec
<1>3. StableInv => StableIsAccepted
  BY DEF StableInv, Backed, Backs, StableIsAccepted
<1> QED
  BY <1>2, <1>3, PTL

(* An overtaken candidate stays private: the source it confirms last is the   *)
(* commit it was started at, which the head has left when it is overtaken.    *)

UpToDate(r) ==
  /\ pc[r] # "idle" => sha[r] <= head
  /\ overtaken[r] => pc[r] # "idle" /\ sha[r] < head
  /\ Automatic(r) /\ pc[r] \in Committed => source[r] = sha[r]
  /\ Automatic(r) /\ pc[r] = "patch" => ~overtaken[r]

HeadInv == (\A r \in Runs : UpToDate(r)) /\ OvertakenStaysPrivate

\* Only a merge moves the head, and it moves no run.
LEMMA HeadMoves ==
  ASSUME [ReleaseNext]_vars
  PROVE  MoveHead \/ UNCHANGED <<head, overtaken>>
<1> USE DEF github, control
<1>1. ASSUME NEW r \in Runs, PrepareNext(r) PROVE UNCHANGED <<head, overtaken>>
  BY <1>1 DEF PrepareNext, Trigger, Start, VersionRequired, Resume, Allocate, EnsureBranch,
              Reserve, Fail, Rerun
<1>2. ASSUME NEW r \in Runs, VerifyNext(r) PROVE UNCHANGED <<head, overtaken>>
  BY <1>2 DEF VerifyNext, Verify, Supersede, VerifyRC, Promote, Reuse, Recheck, BeginPublication,
              Consume
<1>3. ASSUME NEW r \in Runs, PublishNext(r) PROVE UNCHANGED <<head, overtaken>>
  BY <1>3 DEF PublishNext, PushTag, CreateRelease, Reconcile, Upload, ConfirmSource, Publish, Conclude
<1>4. UNCHANGED vars => UNCHANGED <<head, overtaken>>
  BY DEF vars
<1> QED
  BY <1>1, <1>2, <1>3, <1>4 DEF ReleaseNext

\* The commit of a run is fixed when it is started.
LEMMA ShaIsFixed ==
  ASSUME TypeInv, [ReleaseNext]_vars, NEW r \in Runs
  PROVE  \/ pc[r] = "idle" /\ pc'[r] # "idle" /\ sha'[r] = head
         \/ sha'[r] = sha[r] /\ (pc'[r] = "idle" <=> pc[r] = "idle")
<1> USE DEF github, control, Goto, GotoOrLose, Forget
<1>1. pc \in [Runs -> Places] /\ sha \in [Runs -> Nat]
  BY DEF TypeInv, RunTypeOK, Places
<1>2. CASE Stays(r)
  BY <1>2 DEF Stays
<1>3. ASSUME NEW o \in Runs, Trigger(o)
      PROVE  \/ pc[r] = "idle" /\ pc'[r] # "idle" /\ sha'[r] = head
             \/ sha'[r] = sha[r] /\ (pc'[r] = "idle" <=> pc[r] = "idle")
  BY <1>1, <1>3 DEF Trigger
<1>4. ASSUME NEW o \in Runs, PrepareNext(o), ~Trigger(o)
      PROVE  UNCHANGED sha /\ pc[o] # "idle" /\ \E s \in Places \ {"idle"} : pc' = [pc EXCEPT ![o] = s]
  BY <1>4 DEF PrepareNext, Start, VersionRequired, Resume, Allocate, EnsureBranch, Reserve,
     Fail, Rerun, Active, Places, Steps, Waiting, Concluded
<1>5. ASSUME NEW o \in Runs, VerifyNext(o)
      PROVE  UNCHANGED sha /\ pc[o] # "idle" /\ \E s \in Places \ {"idle"} : pc' = [pc EXCEPT ![o] = s]
  BY <1>5 DEF VerifyNext, Verify, Supersede, VerifyRC, Promote, Reuse, Recheck,
     BeginPublication, Consume, Places, Steps, Concluded
<1>6. ASSUME NEW o \in Runs, PublishNext(o)
      PROVE  UNCHANGED sha /\ pc[o] # "idle" /\ \E s \in Places \ {"idle"} : pc' = [pc EXCEPT ![o] = s]
  BY <1>6 DEF PublishNext, PushTag, CreateRelease, Reconcile, Upload, ConfirmSource, Publish,
     Conclude, Places, Steps, Concluded
<1>7. MoveHead \/ UNCHANGED vars => UNCHANGED <<pc, sha>>
  BY DEF MoveHead, vars
<1> QED
  BY <1>1, <1>3, <1>4, <1>5, <1>6, <1>7 DEF ReleaseNext

\* No step publishes an overtaken candidate, or overtakes a public one.
LEMMA HeadInvStep == TypeInv /\ HeadInv /\ [ReleaseNext]_vars => HeadInv'
<1> SUFFICES ASSUME TypeInv, HeadInv, [ReleaseNext]_vars PROVE HeadInv'
  OBVIOUS
<1>0. /\ pc \in [Runs -> Places] /\ head \in Nat /\ sha \in [Runs -> Nat] /\ source \in [Runs -> Nat]
      /\ overtaken \in [Runs -> BOOLEAN]
      /\ \A x \in releases : x.run \in Runs
  BY DEF TypeInv, LedgerTypeOK, PublicTypeOK, RunTypeOK, Places
<1>1. CASE MoveHead
  <2>1. /\ head' = head + 1 /\ UNCHANGED <<pc, sha, source, releases>>
        /\ \A r \in Runs : overtaken'[r] <=>
             \/ overtaken[r]
             \/ /\ Automatic(r) /\ pc[r] \notin {"idle", "patch"}
                /\ ~ \E x \in releases : x.run = r /\ ~x.draft
    BY <1>1 DEF MoveHead
  <2>2. ASSUME NEW r \in Runs PROVE UpToDate(r)'
    <3>1. UpToDate(r)
      BY DEF HeadInv
    <3> QED
      BY <1>0, <2>1, <3>1 DEF UpToDate, Automatic
  <2>3. OvertakenStaysPrivate'
    BY <1>0, <2>1 DEF HeadInv, OvertakenStaysPrivate, Automatic
  <2> QED
    BY <2>2, <2>3 DEF HeadInv
<1>2. CASE UNCHANGED <<head, overtaken>>
  <2>1. ASSUME NEW r \in Runs PROVE UpToDate(r)'
    <3>1. UpToDate(r)
      BY DEF HeadInv
    <3>2. /\ pc'[r] # "idle" => sha'[r] <= head
          /\ overtaken[r] => pc'[r] # "idle" /\ sha'[r] < head
      BY <1>0, <3>1, ShaIsFixed DEF UpToDate
    <3>3. ASSUME Automatic(r), pc'[r] \in Committed
          PROVE  source'[r] = sha'[r] /\ (pc'[r] = "patch" => ~overtaken[r])
      <4>1. CASE Stays(r)
        BY <3>1, <3>3, <4>1 DEF Stays, UpToDate
      <4>2. CASE ~Stays(r)
        <5>1. Advances(r)
          BY <3>3, <4>2, OneMoves
        <5>2. sha'[r] = sha[r]
          BY <5>1 DEF Advances, Verify, Promote, Recheck, BeginPublication, Consume, PushTag,
             CreateRelease, Reconcile, Upload, ConfirmSource, Publish, control
        <5>3. CASE Recheck(r)
          BY <1>0, <3>3, <5>2, <5>3 DEF Recheck, Goto
        <5>4. CASE ~Recheck(r)
          <6>1. pc[r] \in Committed /\ UNCHANGED source
            BY <1>0, <3>3, <5>1, <5>4 DEF Advances, Verify, Promote, BeginPublication, Consume, PushTag,
               CreateRelease, Reconcile, Upload, ConfirmSource, Publish, Goto, GotoOrLose, Committed,
               Owning, control
          <6>2. source[r] = sha[r]
            BY <3>1, <3>3, <6>1 DEF UpToDate
          <6>3. pc'[r] = "patch" => ConfirmSource(r)
            BY <1>0, <5>1, <5>4 DEF Advances, Verify, Promote, BeginPublication, Consume, PushTag,
               CreateRelease, Reconcile, Upload, Publish, Goto, GotoOrLose
          <6>4. pc'[r] = "patch" => head = sha[r]
            BY <3>3, <6>2, <6>3 DEF ConfirmSource, SourceStands
          <6> QED
            BY <1>0, <3>1, <5>2, <6>1, <6>2, <6>4 DEF UpToDate
        <5> QED
          BY <5>3, <5>4
      <4> QED
        BY <4>1, <4>2
    <3> QED
      BY <1>2, <3>2, <3>3 DEF UpToDate, Automatic, Committed, Owning
  <2>2. OvertakenStaysPrivate'
    <3> SUFFICES ASSUME NEW x \in releases', Automatic(x.run), ~x.draft PROVE ~overtaken[x.run]
      BY <1>2 DEF OvertakenStaysPrivate, Automatic
    <3>1. CASE x \in releases
      BY <3>1 DEF HeadInv, OvertakenStaysPrivate
    <3>2. CASE x \notin releases
      <4>1. PICK r \in Runs :
              /\ pc[r] \in Owning
              /\ \/ x \in {Draft(r), Complete(r)}
                 \/ \E z \in releases : /\ z.run = r /\ x = [z EXCEPT !.draft = FALSE]
                                        /\ pc[r] = "patch"
        BY <3>2, NewReleases
      <4>2. x \notin {Draft(r), Complete(r)}
        BY DEF Draft, Complete
      <4>3. PICK z \in releases : z.run = r /\ x = [z EXCEPT !.draft = FALSE] /\ pc[r] = "patch"
        BY <4>1, <4>2
      <4>4. x.run = r
        BY <4>3 DEF TypeInv, PublicTypeOK
      <4> QED
        BY <4>3, <4>4 DEF HeadInv, UpToDate
    <3> QED
      BY <3>1, <3>2
  <2> QED
    BY <2>1, <2>2 DEF HeadInv
<1> QED
  BY <1>1, <1>2, HeadMoves

\* No automatic candidate goes public in an attempt that the default branch has
\* overtaken before its last check (confirm_automatic_source).
THEOREM OvertakenIsNotPublished == ReleaseSpec => []OvertakenStaysPrivate
<1>1. ReleaseInit => HeadInv
  BY DEF ReleaseInit, HeadInv, UpToDate, OvertakenStaysPrivate, Committed, Owning
<1>2. LedgerInv /\ HeadInv /\ [ReleaseNext]_vars => HeadInv'
  BY HeadInvStep DEF LedgerInv
<1>3. ReleaseSpec => []HeadInv
  BY <1>1, <1>2, LedgerInvariant, PTL DEF ReleaseSpec
<1> QED
  BY <1>3, PTL DEF HeadInv

(* Order.  With the concurrency group in force one run is active at a time;   *)
(* the floor it consumed then separates what is public from what it will      *)
(* publish, and the tags are those it has checked.                            *)

\* The run has consumed its number.
Consuming == {"tag"} \cup Owning

Alone == Serialized => \A q, r \in Runs : Active(q) /\ Active(r) => q = r

\* Everything published has its tag, a reserved number and is under the floor.
Numbered ==
  \A i \in DOMAIN published :
    /\ published[i].tag \in tags /\ published[i].number <= Content(ledger).floor
    /\ \E q \in Reserved(Content(ledger)) :
         LET p == Content(ledger).plans[q]
         IN  published[i].number = p.number /\ published[i].tag \in {p.tag, StableTag(p.tag.base)}

\* Publication e is one that run r may follow.
Behind(e, r) ==
  \/ e.number < plan[r].number
  \/ /\ Channel[r] = "stable" /\ e.number = plan[r].number
     /\ e.tag.channel = "rc" \/ pc[r] = "tag"

InTurn(r) ==
  /\ pc[r] = "approve" => Channel[r] = "stable"
  /\ pc[r] = "consume" /\ Channel[r] # "stable" => plan[r].number > Content(seen[r]).floor
  /\ pc[r] \in Consuming => plan[r].number <= Content(ledger).floor
  /\ Serialized /\ pc[r] \in Consuming => \A i \in DOMAIN published : Behind(published[i], r)
  /\ Serialized /\ pc[r] \in Committed \cup {"staged"} /\ Channel[r] \in {"beta", "rc"}
       => StableTag(Base[r]) \notin tags

OrderInv == Alone /\ Numbered /\ (\A r \in Runs : InTurn(r)) /\ (Serialized => PublishedInOrder)

\* A run becomes active by the concurrency group only.
LEMMA StartsAlone ==
  ASSUME TypeInv, Alone, [ReleaseNext]_vars
  PROVE  Alone'
<1> SUFFICES ASSUME Serialized, NEW q \in Runs, NEW r \in Runs, q # r, Active(q)', Active(r)' PROVE FALSE
  BY DEF Alone
<1>0. pc \in [Runs -> Places]
  BY DEF TypeInv, RunTypeOK, Places
<1>1. ASSUME NEW o \in Runs, ~Stays(o), pc'[o] \in Steps PROVE pc[o] \in Steps \/ Start(o)
  <2>1. \A u \in Runs : u # o => pc'[u] = pc[u]
    BY <1>1, OneMoves DEF Stays
  <2> DEFINE New(u) == pc[u] \notin Steps /\ pc'[u] \in Steps
  <2> SUFFICES ASSUME New(o) PROVE Start(o)
    BY <1>1
  <2> USE DEF github, control, Goto, GotoOrLose, Forget
  <2>2. \A u \in Runs : New(u) => u = o
    BY <2>1
  <2> USE DEF Steps, Waiting, Concluded
  <2>3. ASSUME NEW u \in Runs, PrepareNext(u), ~Start(u)
        PROVE  ~New(u) /\ \A v \in Runs : v # u => pc'[v] = pc[v]
    BY <1>0, <2>3 DEF PrepareNext, Trigger, VersionRequired, Resume, Allocate, EnsureBranch,
                Reserve, Fail, Rerun
  <2>4. ASSUME NEW u \in Runs, VerifyNext(u)
        PROVE  ~New(u) /\ \A v \in Runs : v # u => pc'[v] = pc[v]
    BY <1>0, <2>4 DEF VerifyNext, Verify, Supersede, VerifyRC, Promote, Reuse, Recheck,
                BeginPublication, Consume
  <2>5. ASSUME NEW u \in Runs, PublishNext(u)
        PROVE  ~New(u) /\ \A v \in Runs : v # u => pc'[v] = pc[v]
    BY <1>0, <2>5 DEF PublishNext, PushTag, CreateRelease, Reconcile, Upload, ConfirmSource, Publish,
                Conclude
  <2>6. ASSUME NEW u \in Runs, Start(u)
        PROVE  u = o
    BY <1>0, <2>1, <2>6 DEF Start
  <2>7. MoveHead \/ UNCHANGED vars => UNCHANGED pc
    BY DEF MoveHead, vars
  <2> QED
    BY <2>3, <2>4, <2>5, <2>6, <2>7 DEF ReleaseNext
<1>2. pc'[q] \in Steps /\ pc'[r] \in Steps
  BY DEF Active
<1>3. CASE Stays(q) /\ Stays(r)
  BY <1>3 DEF Stays, Active, Alone
<1>4. ASSUME NEW o \in Runs, NEW u \in Runs, o # u, ~Stays(o), pc'[o] \in Steps, pc'[u] \in Steps PROVE FALSE
  <2>1. pc[u] \in Steps
    BY <1>4, OneMoves DEF Stays
  <2>2. ~Start(o)
    BY <2>1 DEF Start, Active
  <2> QED
    BY <1>1, <1>4, <2>1, <2>2 DEF Alone, Active
<1> QED
  BY <1>2, <1>3, <1>4

\* The run whose plan is carried: a reserved plan, by which the tag is named.
LEMMA CarriesReserved ==
  ASSUME LedgerInv, StableInv, NEW r \in Runs, pc[r] \in Holding
  PROVE  /\ \E q \in Reserved(Content(ledger)) :
              /\ Content(ledger).plans[q] = plan[r]
              /\ Target(r) \in {plan[r].tag, StableTag(plan[r].tag.base)}
         /\ Channel[r] # "stable" =>
              /\ Target(r) = plan[r].tag
              /\ Target(r).channel = Channel[r] /\ Target(r).base = Base[r]
         /\ Channel[r] = "stable" =>
              /\ Target(r) = StableTag(plan[r].tag.base) /\ Target(r).channel = "stable"
              /\ plan[r].tag.channel = "rc"
<1> DEFINE l == Content(ledger)
<1>1. CASE Channel[r] = "stable"
  <2>1. PICK q \in Reserved(l) : l.plans[q] = plan[r]
    BY <1>1 DEF LedgerInv, RunInv, Names, Holding, Steps
  <2>2. Target(r) = StableTag(plan[r].tag.base) /\ Target(r).channel = "stable"
    BY <1>1 DEF Target, StableTag
  <2>3. plan[r].tag.channel = "rc"
    BY <1>1 DEF StableInv, Approved, Holding, Steps
  <2> QED
    BY <1>1, <2>1, <2>2, <2>3
<1>2. CASE Channel[r] # "stable"
  <2>1. r \in Reserved(l) /\ l.plans[r] = plan[r]
    BY <1>2 DEF LedgerInv, RunInv, Holds, Reserved
  <2>2. Target(r) = plan[r].tag /\ NamedBy(r, plan[r])
    BY <1>2, <2>1 DEF Target, LedgerInv, Sound
  <2> QED
    BY <1>2, <2>1, <2>2 DEF NamedBy
<1> QED
  BY <1>1, <1>2

\* The publication floor never falls.
LEMMA FloorStays ==
  ASSUME LedgerInv, [ReleaseNext]_vars
  PROVE  /\ Content(ledger).floor \in Nat /\ Content(ledger').floor \in Nat
         /\ Content(ledger).floor <= Content(ledger').floor
<1>1. Content(ledger).floor \in Nat
  BY ContentTyped DEF LedgerInv, TypeInv, LedgerTypeOK, Ledgers
<1>2. CASE ledger' = ledger
  BY <1>1, <1>2
<1>3. CASE ledger' # ledger
  <2>1. PICK r \in Runs : Reserve(r) \/ Consume(r)
    BY <1>3, OnlyTwoWrites
  <2>2. ledger' \in Ledgers /\ Content(ledger).floor <= ledger'.floor
    BY <1>1, <2>1, ReserveKeeps, ConsumeKeeps DEF Ledgers
  <2>3. Content(ledger') = ledger'
    BY <2>2, ReleaseAssumption DEF Content
  <2> QED
    BY <1>1, <2>2, <2>3 DEF Ledgers
<1> QED
  BY <1>2, <1>3

\* The publications: what there was, and what Publish adds.
LEMMA PublishedGrows ==
  ASSUME LedgerInv, [ReleaseNext]_vars
  PROVE  \/ UNCHANGED published
         \/ \E r \in Runs :
              /\ Publish(r) /\ DOMAIN published = 1 .. Len(published) /\ Len(published) \in Nat
              /\ DOMAIN published' = 1 .. Len(published) + 1 /\ Len(published') = Len(published) + 1
              /\ published'[Len(published) + 1] = [tag |-> Target(r), number |-> plan[r].number]
              /\ \A i \in DOMAIN published : published'[i] = published[i]
<1> SUFFICES ASSUME NEW r \in Runs, Publish(r)
             PROVE  /\ DOMAIN published = 1 .. Len(published) /\ Len(published) \in Nat
                    /\ DOMAIN published' = 1 .. Len(published) + 1 /\ Len(published') = Len(published) + 1
                    /\ published'[Len(published) + 1] = [tag |-> Target(r), number |-> plan[r].number]
                    /\ \A i \in DOMAIN published : published'[i] = published[i]
  BY FivePublicSteps DEF PushTag, CreateRelease, Upload, Conclude
<1> DEFINE D == [tag : Tags, number : Nat]
           e == [tag |-> Target(r), number |-> plan[r].number]
<1>1. published \in Seq(D)
  BY DEF LedgerInv, TypeInv, PublicTypeOK
<1>2. e \in D
  BY CarriesPlan DEF Publish, Holding, Steps, Plans
<1>3. published' = Append(published, e)
  BY DEF Publish
<1> HIDE DEF D, e
<1>4. /\ DOMAIN published = 1 .. Len(published) /\ Len(published) \in Nat
      /\ DOMAIN published' = 1 .. Len(published) + 1 /\ Len(published') = Len(published) + 1
      /\ published'[Len(published) + 1] = e
      /\ \A i \in DOMAIN published : published'[i] = published[i]
  BY <1>1, <1>2, <1>3
<1> QED
  BY <1>4 DEF e

\* The tags: what there was, and what PushTag adds.
LEMMA TagsGrow ==
  ASSUME [ReleaseNext]_vars
  PROVE  /\ tags \subseteq tags'
         /\ \A t \in tags' \ tags : \E r \in Runs : PushTag(r) /\ t = Target(r)
<1>1. ASSUME NEW r \in Runs, CreateRelease(r) \/ Upload(r) \/ Publish(r) \/ Conclude(r) PROVE UNCHANGED tags
  BY <1>1 DEF CreateRelease, Upload, Publish, Conclude
<1>2. ASSUME NEW r \in Runs, PushTag(r) PROVE tags' = tags \cup {Target(r)} /\ Target(r) \notin tags
  BY <1>2 DEF PushTag, Absent
<1> QED
  BY <1>1, <1>2, FivePublicSteps

\* Everything published stays under the floor.
LEMMA NumberedStep ==
  ASSUME LedgerInv, TagInv, StableInv, OrderInv, [ReleaseNext]_vars
  PROVE  Numbered'
<1> DEFINE l == Content(ledger)
           Fits(e) == /\ e.tag \in tags /\ e.number <= l.floor /\ e.number \in Nat
                      /\ \E q \in Reserved(l) :
                           /\ e.number = l.plans[q].number
                           /\ e.tag \in {l.plans[q].tag, StableTag(l.plans[q].tag.base)}
<1>1. \A i \in DOMAIN published : Fits(published[i])
  <2> SUFFICES ASSUME NEW i \in DOMAIN published PROVE Fits(published[i])
    OBVIOUS
  <2>1. l \in Ledgers
    BY ContentTyped DEF LedgerInv, TypeInv, LedgerTypeOK
  <2>2. PICK q \in Reserved(l) :
          /\ published[i].number = l.plans[q].number
          /\ published[i].tag \in {l.plans[q].tag, StableTag(l.plans[q].tag.base)}
    BY DEF OrderInv, Numbered
  <2>3. l.plans[q].number \in Nat
    BY <2>1, <2>2 DEF Ledgers, Plans, Reserved
  <2> QED
    BY <2>2, <2>3 DEF OrderInv, Numbered
<1>2. ASSUME NEW r \in Runs, Publish(r) PROVE Fits([tag |-> Target(r), number |-> plan[r].number])
  <2>1. pc[r] = "patch" /\ pc[r] \in Holding /\ pc[r] \in Owning /\ pc[r] \in Consuming
    BY <1>2 DEF Publish, Holding, Steps, Owning, Consuming
  <2>2. Target(r) \in tags /\ plan[r].number <= l.floor
    BY <2>1 DEF TagInv, Taken, OrderInv, InTurn
  <2>3. plan[r].number \in Nat
    BY <2>1, CarriesPlan DEF Plans
  <2>4. \E q \in Reserved(l) :
          /\ l.plans[q] = plan[r]
          /\ Target(r) \in {plan[r].tag, StableTag(plan[r].tag.base)}
    BY <2>1, CarriesReserved
  <2> QED
    BY <2>2, <2>3, <2>4
<1>3. \A e : Fits(e) => /\ e.tag \in tags' /\ e.number <= Content(ledger').floor
                        /\ \E q \in Reserved(Content(ledger')) :
                             /\ e.number = Content(ledger').plans[q].number
                             /\ e.tag \in {Content(ledger').plans[q].tag,
                                           StableTag(Content(ledger').plans[q].tag.base)}
  <2> SUFFICES ASSUME NEW e, Fits(e)
               PROVE  /\ e.tag \in tags' /\ e.number <= Content(ledger').floor
                      /\ \E q \in Reserved(Content(ledger')) :
                             /\ e.number = Content(ledger').plans[q].number
                             /\ e.tag \in {Content(ledger').plans[q].tag,
                                           StableTag(Content(ledger').plans[q].tag.base)}
    OBVIOUS
  <2>1. e.tag \in tags'
    BY TagsGrow
  <2>2. e.number <= Content(ledger').floor
    BY FloorStays
  <2>3. PICK q \in Reserved(l) : /\ e.number = l.plans[q].number
                                 /\ e.tag \in {l.plans[q].tag, StableTag(l.plans[q].tag.base)}
    OBVIOUS
  <2> QED
    BY <2>1, <2>2, <2>3, PlansStay
<1>4. ASSUME NEW i \in DOMAIN published', NEW e, e = published'[i] PROVE Fits(e)
  <2>1. CASE UNCHANGED published
    BY <1>1, <1>4, <2>1
  <2>2. ASSUME NEW r \in Runs, Publish(r), DOMAIN published = 1 .. Len(published),
               DOMAIN published' = 1 .. Len(published) + 1, Len(published) \in Nat,
               published'[Len(published) + 1] = [tag |-> Target(r), number |-> plan[r].number],
               \A j \in DOMAIN published : published'[j] = published[j]
        PROVE  Fits(e)
    <3> HIDE DEF Fits
    <3>1. CASE i \in DOMAIN published
      <4>1. e = published[i]
        BY <1>4, <2>2, <3>1
      <4> QED
        BY <1>1, <3>1, <4>1
    <3>2. CASE i = Len(published) + 1
      <4>1. e = [tag |-> Target(r), number |-> plan[r].number]
        BY <1>4, <2>2, <3>2
      <4> QED
        BY <1>2, <2>2, <4>1
    <3> QED
      BY <1>4, <2>2, <3>1, <3>2
  <2> QED
    BY <2>1, <2>2, PublishedGrows
<1> HIDE DEF Fits
<1>5. \A i \in DOMAIN published' :
        /\ published'[i].tag \in tags' /\ published'[i].number <= Content(ledger').floor
        /\ \E q \in Reserved(Content(ledger')) :
             /\ published'[i].number = Content(ledger').plans[q].number
             /\ published'[i].tag \in {Content(ledger').plans[q].tag,
                                       StableTag(Content(ledger').plans[q].tag.base)}
  BY <1>3, <1>4
<1> QED
  BY <1>5 DEF Numbered, StableTag

\* A run that has consumed its number stays in its turn.
LEMMA InTurnStep ==
  ASSUME LedgerInv, TagInv, StableInv, OrderInv, [ReleaseNext]_vars, NEW r \in Runs
  PROVE  InTurn(r)'
<1>0. /\ TypeInv /\ pc \in [Runs -> Places] /\ seen \in [Runs -> Ledgers \cup {NoLedger}]
      /\ InTurn(r) /\ RunInv(r)
  BY DEF LedgerInv, TypeInv, RunTypeOK, Places, OrderInv
<1> USE DEF Goto, GotoOrLose
<1>1. ASSUME pc'[r] \in Committed \cup {"staged"}, ~Stays(r) PROVE Advances(r) /\ UNCHANGED plan
  <2>1. Advances(r)
    BY <1>0, <1>1, OneMoves
  <2> QED
    BY <2>1 DEF Advances, Verify, Promote, Recheck, BeginPublication, Consume, PushTag,
       CreateRelease, Reconcile, Upload, ConfirmSource, Publish
<1>2. pc'[r] = "approve" => Channel[r] = "stable"
  <2>1. CASE Stays(r)
    BY <1>0, <2>1 DEF Stays, InTurn
  <2>2. CASE ~Stays(r)
    <3> SUFFICES ASSUME pc'[r] = "approve", NEW o \in Runs,
                        PrepareNext(o) \/ VerifyNext(o) \/ PublishNext(o)
                 PROVE  Channel[r] = "stable"
      BY <2>2 DEF ReleaseNext, MoveHead, vars, Stays
    <3>1. CASE VerifyRC(o)
      BY <1>0, <3>1 DEF VerifyRC, InTurn
    <3>2. CASE ~VerifyRC(o)
      <4>1. PrepareNext(o) => pc'[r] = pc[r] \/ pc'[r] # "approve"
        BY <1>0, <3>2 DEF PrepareNext, Trigger, Start, VersionRequired, Resume, Allocate, EnsureBranch,
           Reserve, Fail, Rerun
      <4>2. VerifyNext(o) => pc'[r] = pc[r] \/ pc'[r] # "approve"
        BY <1>0, <3>2 DEF VerifyNext, Verify, Supersede, Promote, Reuse, Recheck,
           BeginPublication, Consume
      <4>3. PublishNext(o) => pc'[r] = pc[r] \/ pc'[r] # "approve"
        BY <1>0, <3>2 DEF PublishNext, PushTag, CreateRelease, Reconcile, Upload, ConfirmSource, Publish,
           Conclude
      <4> QED
        BY <1>0, <4>1, <4>2, <4>3 DEF InTurn
    <3> QED
      BY <3>1, <3>2
  <2> QED
    BY <2>1, <2>2
<1>3. ASSUME pc'[r] = "consume", Channel[r] # "stable" PROVE plan'[r].number > Content(seen'[r]).floor
  <2>1. CASE Stays(r)
    BY <1>0, <1>3, <2>1 DEF Stays, InTurn
  <2>2. CASE ~Stays(r)
    <3>1. BeginPublication(r) /\ UNCHANGED plan
      BY <1>0, <1>1, <1>3, <2>2 DEF Advances, Verify, Promote, Recheck, Consume, PushTag,
         CreateRelease, Reconcile, Upload, ConfirmSource, Publish, Committed
    <3> QED
      BY <1>0, <1>3, <3>1 DEF BeginPublication, MayPublish, Entitled
  <2> QED
    BY <2>1, <2>2
<1>4. \A q \in Runs : pc[q] \in Committed \cup {"staged"} => Active(q)
  BY DEF Committed, Owning, Active, Steps
<1>5. ASSUME pc'[r] \in Consuming
      PROVE  /\ plan'[r].number <= Content(ledger').floor
             /\ Serialized => (\A i \in DOMAIN published : Behind(published[i], r))'
  <2>0. plan'[r] = plan[r] /\ (Stays(r) \/ Advances(r)) /\ pc'[r] \in Committed
    BY <1>1, <1>5 DEF Stays, Consuming, Committed
  <2>1. CASE Consume(r)
    <3>1. /\ pc[r] = "consume" /\ pc'[r] = "tag" /\ ledger = seen[r] /\ UNCHANGED <<plan, published>>
          /\ ledger' = [Content(ledger) EXCEPT !.floor = plan[r].number]
      BY <1>0, <1>5, <2>1 DEF Consume, Consuming, Owning
    <3>2. Content(ledger) \in Ledgers /\ plan[r].number \in Nat
      BY <2>1, ContentTyped, CarriesPlan DEF Consume, Holding, Steps, LedgerInv, TypeInv, LedgerTypeOK, Plans
    <3>3. ledger' \in Ledgers /\ ledger'.floor = plan[r].number /\ Content(ledger).floor \in Nat
      BY <3>1, <3>2 DEF Ledgers
    <3>4. Content(ledger') = ledger'
      BY <3>3, ReleaseAssumption DEF Content
    <3>5. /\ plan[r].number >= Content(ledger).floor
          /\ Channel[r] # "stable" => plan[r].number > Content(ledger).floor
      BY <1>0, <3>1 DEF InTurn, RunInv, Begun
    <3>6. ASSUME NEW i \in DOMAIN published, NEW e, e = published[i] PROVE Behind(e, r)'
      <4>1. published[i].number <= Content(ledger).floor
        BY DEF OrderInv, Numbered
      <4>2. published[i].number \in Nat
        <5> DEFINE D == [tag : Tags, number : Nat]
        <5>1. published \in Seq(D)
          BY DEF LedgerInv, TypeInv, PublicTypeOK
        <5> HIDE DEF D
        <5>2. published[i] \in D
          BY <5>1
        <5> QED
          BY <5>2 DEF D
      <4>3. e.number < plan[r].number \/ (Channel[r] = "stable" /\ e.number = plan[r].number)
        BY <3>2, <3>3, <3>5, <3>6, <4>1, <4>2
      <4>4. plan'[r] = plan[r] /\ pc'[r] = "tag"
        BY <3>1
      <4> QED
        BY <4>3, <4>4 DEF Behind
    <3>7. (\A i \in DOMAIN published : Behind(published[i], r))'
      BY <3>1, <3>6 DEF Behind
    <3> QED
      BY <2>0, <3>2, <3>3, <3>4, <3>7
  <2>2. CASE ~Consume(r)
    <3>1. pc[r] \in Consuming
      BY <1>0, <1>5, <2>0, <2>2 DEF Stays, Advances, Verify, Promote, Recheck, BeginPublication,
         PushTag, CreateRelease, Reconcile, Upload, ConfirmSource, Publish, Consuming, Owning
    <3>2. plan[r].number \in Nat /\ pc[r] \in Holding
      BY <3>1, CarriesPlan DEF Consuming, Owning, Holding, Steps, Plans
    <3>3. plan'[r].number <= Content(ledger').floor
      BY <1>0, <2>0, <3>1, <3>2, FloorStays DEF InTurn
    <3>4. ASSUME Serialized PROVE UNCHANGED published
      <4>1. ASSUME NEW q \in Runs, Publish(q) PROVE FALSE
        <5>1. Active(q) /\ Active(r) /\ pc'[q] \notin Consuming
          BY <1>0, <3>1, <4>1 DEF Publish, Active, Steps, Consuming, Owning
        <5>2. q = r
          BY <3>4, <5>1 DEF OrderInv, Alone
        <5> QED
          BY <1>5, <5>1, <5>2
      <4> QED
        BY <4>1, PublishedGrows
    <3>5. ASSUME Serialized, NEW i \in DOMAIN published, NEW e, e = published[i] PROVE Behind(e, r)'
      <4>1. Behind(e, r)
        BY <1>0, <3>1, <3>5 DEF InTurn
      <4>2. CASE pc'[r] = "tag" \/ pc[r] # "tag"
        BY <2>0, <4>1, <4>2 DEF Behind
      <4>3. CASE pc'[r] # "tag" /\ pc[r] = "tag"
        <5>1. PushTag(r)
          BY <2>0, <4>3 DEF Stays, Advances, Verify, Promote, Recheck, BeginPublication, Consume,
             CreateRelease, Reconcile, Upload, ConfirmSource, Publish
        <5>2. Target(r) \notin tags
          BY <5>1 DEF PushTag, Absent
        <5>3. ASSUME Channel[r] = "stable", e.number = plan[r].number PROVE e.tag.channel = "rc"
          <6>1. PICK q \in Reserved(Content(ledger)) : Content(ledger).plans[q] = plan[r]
            BY <3>2, CarriesReserved
          <6>2. Target(r) = StableTag(plan[r].tag.base) /\ plan[r].tag.channel = "rc"
            BY <3>2, <5>3, CarriesReserved
          <6>3. PICK o \in Reserved(Content(ledger)) :
                  /\ e.number = Content(ledger).plans[o].number
                  /\ e.tag \in {Content(ledger).plans[o].tag, StableTag(Content(ledger).plans[o].tag.base)}
            BY <3>5 DEF OrderInv, Numbered
          <6>4. o = q
            BY <5>3, <6>1, <6>3 DEF LedgerInv, Sound
          <6>5. e.tag # Target(r)
            BY <3>5, <5>2 DEF OrderInv, Numbered
          <6> QED
            BY <6>1, <6>2, <6>3, <6>4, <6>5
        <5> QED
          BY <2>0, <4>1, <5>3 DEF Behind
      <4> QED
        BY <4>2, <4>3
    <3>6. Serialized => (\A i \in DOMAIN published : Behind(published[i], r))'
      BY <3>4, <3>5 DEF Behind
    <3> QED
      BY <3>3, <3>6
  <2> QED
    BY <2>1, <2>2
<1>6. ASSUME Serialized, pc'[r] \in Committed \cup {"staged"}, Channel[r] \in {"beta", "rc"}
      PROVE  StableTag(Base[r]) \notin tags'
  <2>1. StableTag(Base[r]) \notin tags
    <3>1. CASE pc[r] \in Committed \cup {"staged"}
      BY <1>0, <1>6, <3>1 DEF InTurn
    <3>2. CASE pc[r] \notin Committed \cup {"staged"}
      <4>1. Advances(r)
        BY <1>1, <1>6, <3>2 DEF Stays
      <4>2. Verify(r) \/ Promote(r)
        BY <3>2, <4>1 DEF Advances, Recheck, BeginPublication, Consume, PushTag, CreateRelease,
           Reconcile, Upload, ConfirmSource, Publish, Committed, Owning
      <4>3. ~Promote(r)
        BY <1>0, <1>6 DEF Promote, InTurn
      <4> QED
        BY <1>6, <4>2, <4>3 DEF Verify, BaseFree, Absent
    <3> QED
      BY <3>1, <3>2
  <2>2. ASSUME NEW q \in Runs, PushTag(q), Target(q) = StableTag(Base[r]) PROVE FALSE
    <3>1. pc[q] = "tag" /\ Active(q) /\ pc[q] \in Holding
      BY <2>2 DEF PushTag, Active, Steps, Holding
    <3>2. CASE q = r
      <4>1. Target(r).channel = Channel[r]
        BY <1>6, <3>1, <3>2, CarriesReserved
      <4> QED
        BY <1>6, <2>2, <3>2, <4>1 DEF StableTag
    <3>3. CASE q # r
      <4>1. ~Stays(q)
        BY <1>0, <2>2 DEF PushTag, Stays
      <4>2. Stays(r)
        BY <1>0, <3>3, <4>1, OneMoves
      <4>3. Active(r)
        BY <1>4, <1>6, <4>2 DEF Stays
      <4> QED
        BY <1>6, <3>1, <3>3, <4>3 DEF OrderInv, Alone
    <3> QED
      BY <3>2, <3>3
  <2> QED
    BY <2>1, <2>2, TagsGrow
<1> QED
  BY <1>2, <1>3, <1>5, <1>6 DEF InTurn, StableTag

\* No step publishes out of order.
LEMMA OrderInvStep ==
  LedgerInv /\ TagInv /\ StableInv /\ OrderInv /\ [ReleaseNext]_vars => OrderInv'
<1> SUFFICES ASSUME LedgerInv, TagInv, StableInv, OrderInv, [ReleaseNext]_vars PROVE OrderInv'
  OBVIOUS
<1>1. Alone'
  BY StartsAlone DEF LedgerInv, OrderInv
<1>2. ASSUME Serialized PROVE PublishedInOrder'
  <2>1. PublishedInOrder
    BY <1>2 DEF OrderInv
  <2>2. CASE UNCHANGED published
    BY <2>1, <2>2 DEF PublishedInOrder
  <2>3. ASSUME NEW r \in Runs, Publish(r),
               DOMAIN published = 1 .. Len(published), Len(published) \in Nat,
               DOMAIN published' = 1 .. Len(published) + 1,
               published'[Len(published) + 1] = [tag |-> Target(r), number |-> plan[r].number],
               \A i \in DOMAIN published : published'[i] = published[i]
        PROVE  PublishedInOrder'
    <3> DEFINE n == Len(published) + 1
               e == [tag |-> Target(r), number |-> plan[r].number]
    <3>1. pc[r] = "patch" /\ pc[r] \in Consuming /\ pc[r] \in Holding
      BY <2>3 DEF Publish, Consuming, Owning, Holding, Steps
    <3>2. \A i \in DOMAIN published : Behind(published[i], r)
      BY <1>2, <3>1 DEF OrderInv, InTurn
    <3>3. Channel[r] = "stable" => e.tag.channel = "stable"
      BY <3>1, CarriesReserved
    <3>4. e.number = plan[r].number /\ published'[n] = e
      BY <2>3
    <3> HIDE DEF n, e
    <3>5. \A i \in DOMAIN published :
            \/ published[i].number < e.number
            \/ /\ published[i].number = e.number
               /\ published[i].tag.channel = "rc" /\ e.tag.channel = "stable"
      BY <3>1, <3>2, <3>3, <3>4 DEF Behind
    <3>6. \A i, j \in DOMAIN published' : i < j => i \in DOMAIN published /\ (j \in DOMAIN published \/ j = n)
      BY <2>3 DEF n
    <3> QED
      BY <2>1, <2>3, <3>4, <3>5, <3>6 DEF PublishedInOrder
  <2> QED
    BY <2>2, <2>3, PublishedGrows
<1> QED
  BY <1>1, <1>2, NumberedStep, InTurnStep DEF OrderInv

\* All of it together.
PublicInv == LedgerInv /\ TagInv /\ StableInv /\ OrderInv

\* What is public is so in every reachable state.
LEMMA PublicInvariant == ReleaseSpec => []PublicInv
<1>1. ReleaseInit => PublicInv
  <2>1. ReleaseInit => LedgerInv
    BY LedgerInvInductive
  <2>2. ReleaseInit => TagInv
    BY DEF ReleaseInit, TagInv, Taken, Owns, OneReleasePerTag, Owning
  <2>3. ReleaseInit => StableInv
    BY DEF ReleaseInit, StableInv, OfPlans, Approved, Backed, Committed, Owning
  <2>4. ReleaseInit => OrderInv
    BY DEF ReleaseInit, OrderInv, Alone, Numbered, InTurn, PublishedInOrder, Active, Steps,
       Consuming, Committed, Owning
  <2> QED
    BY <2>1, <2>2, <2>3, <2>4 DEF PublicInv
<1>2. PublicInv /\ [ReleaseNext]_vars => PublicInv'
  BY LedgerInvInductive, TagInvStep, StableInvStep, OrderInvStep DEF PublicInv, LedgerInv
<1> QED
  BY <1>1, <1>2, PTL DEF ReleaseSpec

\* With the concurrency group in force, no release goes public after one with a
\* higher build number, and only a candidate and its promotion share one
\* (begin_publication, _verify_reservation and _verify_promotion_order).
THEOREM PublicationIsOrdered == ReleaseSpec => [](Serialized => PublishedInOrder)
<1>1. PublicInv => (Serialized => PublishedInOrder)
  BY DEF PublicInv, OrderInv
<1> QED
  BY <1>1, PublicInvariant, PTL

\* With the concurrency group in force, nothing is tagged or published as a beta
\* or release candidate of a base version that has its stable tag.
THEOREM StableTagCloses == ASSUME Serialized PROVE ReleaseSpec => StableClosesBase
<1> DEFINE Closes ==
             /\ \A t \in tags' \ tags :
                  t.channel \in {"beta", "rc"} => StableTag(t.base) \notin tags
             /\ published' # published =>
                  LET t == published'[Len(published')].tag
                  IN  t.channel \in {"beta", "rc"} => StableTag(t.base) \notin tags
<1>1. PublicInv /\ [ReleaseNext]_vars => [Closes]_vars
  <2> SUFFICES ASSUME PublicInv, [ReleaseNext]_vars PROVE Closes
    OBVIOUS
  <2>1. ASSUME NEW r \in Runs, PushTag(r) \/ Publish(r), Target(r).channel \in {"beta", "rc"}
        PROVE  StableTag(Target(r).base) \notin tags
    <3>1. pc[r] \in Holding /\ pc[r] \in Committed
      BY <2>1 DEF PushTag, Publish, Holding, Steps, Committed, Owning
    <3>2. Target(r).channel = Channel[r] /\ Target(r).base = Base[r]
      BY <2>1, <3>1, CarriesReserved DEF PublicInv
    <3> QED
      BY <2>1, <3>1, <3>2 DEF PublicInv, OrderInv, InTurn
  <2>2. ASSUME NEW t \in tags' \ tags, t.channel \in {"beta", "rc"} PROVE StableTag(t.base) \notin tags
    BY <2>1, <2>2, TagsGrow
  <2>3. ASSUME published' # published PROVE
          LET t == published'[Len(published')].tag
          IN  t.channel \in {"beta", "rc"} => StableTag(t.base) \notin tags
    <3>1. PICK r \in Runs :
            /\ Publish(r) /\ Len(published') = Len(published) + 1
            /\ published'[Len(published) + 1] = [tag |-> Target(r), number |-> plan[r].number]
      BY <2>3, PublishedGrows DEF PublicInv
    <3>2. published'[Len(published')].tag = Target(r)
      BY <3>1
    <3> QED
      BY <2>1, <3>1, <3>2
  <2> QED
    BY <2>2, <2>3
<1> QED
  BY <1>1, PublicInvariant, PTL DEF ReleaseSpec, StableClosesBase

=============================================================================
