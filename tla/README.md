# Inverter gateway: TLA+ models, model checking and proofs

This directory models the inverter gateway (`src/src/`, a Rust MQTT-to-HTTP
gateway for Victron installations) and the release tooling kept beside it
(`src/scripts/`, `src/.github/workflows/`): version preparation, the release
engine, the build and smoke test of the container, and its publication. TLC checks the
models on small instances; TLAPS proves the most important properties for every
value of the constants. `PROJECT.json` maps each definition to the lines it
translates, and lists the runs, the mutants that show each property to have
teeth, the hazards, the findings and the theorems.

    tlc -workers 2 -config BridgeCommands.cfg MCBridge     # any run
    tlapm SharedProofs.tla                                 # any proof module

## 1. The system

### The gateway process

| Part | State | Operations | Meets others through |
|---|---|---|---|
| Telemetry store, `state.rs` `Shared` | one `RwLock<Telemetry>`: connection flag and generation, snapshot buckets, energy readings with receipt times, controller state, override acknowledgement, dirty flag | `set_connected`, `update`, `update_inverter`, `update_setpoint_override`, `broadcast_snapshot`, `subscribe`, `guarded_command`, `send_if_current` | every other part calls it; a 64-slot broadcast channel feeds the streams |
| Event streams, `http.rs` `events` | a broadcast receiver and the generation it was opened in | receive, judge (`take_while`), deliver, end | the broadcast channel, `generation_is_connected` |
| Command admission, `whitelist.rs` `execute` | none | validate, capture a `CommandGuard`, send | the lock, then the unbounded command channel |
| MQTT bridge, `mqtt_bridge.rs` | two futures of one task: `poll_events`, `send_requests`; a watch channel between them | connect, dispatch, subscribe, keepalive, publish, discard, shut down | rumqttc's bounded request channel, `Shared` |
| rumqttc event loop (vendored) | buffered events, request channel, pending replay queue, unacknowledged publishes | `poll`, `clean` | the network |
| Energy and alarm reports, `energy.rs`, `alarms.rs`, `energy_russian.rs` | none | a pure function of readings, configuration and time | the readings |
| HTTP router, `http.rs` | none | token scopes, routes | all of the above |
| Lifecycle, `main.rs`, `transport.rs` | listeners, signal futures | bind, serve, drain, stop | the bridge's `shutdown` |
| Configuration and TLS policy, `config.rs`, `tls_policy.rs` | none after start-up | parse, reject | - |

What is hard here: HTTP handlers run on many threads and meet the bridge only
under the lock and in channels; a stream reads its channel before it asks for the
generation, and sends the item after it has asked; a command is checked twice, and
its target may vanish in between;
rumqttc buffers in both directions and replays after a reconnection; producer
and consumer of a bounded channel are polled by one task; a silent controller
must be noticed although nothing arrives.

### The release tooling

| Part | State | Operations | Meets others through |
|---|---|---|---|
| Version preparation and release client, `prepare_version.py`, `release.py` | a clone; the default branch, topics `release/version-X.Y.Z`, pull requests and tags at GitHub | choose a version, edit or push a topic, open a pull request, ask for a release | pushes without force, `gh`, developers who merge and push |
| Release engine, `release_state.py`, `release_versioned.py`, `release_control.py` | a JSON ledger on the branch `release-version-state`, tag refs, releases and drafts, artifacts, run status | reserve a number, verify, publish a candidate, promote, rerun | compare-and-swap by blob identity, create-once refs |
| Build of the packages, `version_plan.py sync`, `version_receipt.py`, `stage_release_assets.py` | the version files of a checkout, `.release-inputs.json`, `release-assets/` | overlay the plan, record evidence, check, stage with a receipt | the tools of the build, which read and may rewrite the files |
| Container probe, `smoke_release_container.py`, `merge_oci_archives.py` | intent, outcome and receipt files; a tag and a container on a Docker daemon | inspect the archive, load, create, start, verify, clean up | the daemon, shared with other users |
| Registry, `publish_verified.py`, `verified_images.py` | version and latest tags of each repository, the file of digests | preflight, copy, compare, write | operators who work at the same time |

What is hard here: any call may be applied and its reply lost; a process may stop
between any two calls and be run again; whatever was checked may have moved when
it is used, be it the head of a branch, a topic, a ledger, an archive, a version
file or a tag; histories of branches criss-cross; and a container daemon carries
out a command after its client gave up. Runs of the release workflow are
serialized by a concurrency group that the ledger does not rely on.

`PROJECT.json` "components" lists every part with its status.

## 2. Modules

| Module | Models | Role |
|---|---|---|
| `Shared` | telemetry store, broadcast channel, event streams | specification |
| `Delivery` | what the gateway promises about a command | abstract specification |
| `Bridge` | command path, MQTT bridge, rumqttc's event loop; extends `Shared` | detailed specification; `Promise == INSTANCE Delivery` |
| `Energy` | metrics, alarms and reports in two languages; extends `Shared` | state functions over the specification |
| `Sources` | which lists of energy sources are accepted, and what they measure | operators |
| `Gateway` | configuration, start-up, servers, authorization, shutdown; extends `Sources` | specification |
| `Release` | ledger, runs, tags, releases | specification |
| `Prepare` | preparation of versions, requests for releases, the git history under both | specification |
| `Oci` | what the two readers of an OCI archive accept and report, and what a runtime makes of it | operators with their references |
| `Smoke` | a probe on a shared Docker daemon; extends `Oci` | component |
| `Build` | version files, evidence and staging of a build job | component |
| `Registry` | publishers and resolvers | component and specification `RegistrySpec` |
| `Images` | an archive from the plan to the registry: `Build`, `Smoke` and `Registry` composed | specification |
| `MCShared`, `MCBridge`, `MCEnergy`, `MCGateway`, `MCRelease`, `MCImages`, `MCPrepare` | - | instances for TLC |
| `SharedProofs`, `BridgeProofs`, `EnergyProofs`, `GatewayProofs`, `ReleaseProofs`, `ImagesProofs`, `PrepareProofs` | - | theorems; `BridgeProofs` has those of `Delivery`, `ImagesProofs` those of `Registry`, `Oci` and `Smoke` too |
| `FoldFacts` | - | what a fold over a sequence computes, for any operator |

### Shared

Each operation of `Shared` holds the lock from its first read to its last write,
so it is one action; `Disconnect` includes the event it broadcasts, and
`BroadcastSnapshot` the expiry sweep that precedes it. A stream takes four
actions: `Subscribe`, `Recv` (the receiver yields an item or the lag error),
`Check` (the predicate of `take_while` takes the lock and releases it) and `Deliver`
(the item that passed is rendered and handed to the HTTP connection), and anything
may happen between them: a session may end between an item's check and its delivery.
`Close` drops the receiver; an ended stream counts in `receiver_count` until then.

*Abstractions.* A leaf is a pair of device and path; values are model values. An
`Instant` is the age it will be asked for, saturating one above the threshold it
is compared with, so time itself needs no bound. The twelve buckets of a snapshot
are one function of leaves. `seen` is a history variable: the snapshot at the
moment of subscription (what `GET /v1/snapshot` returns then), and from there on
whatever the stream delivered; `late` counts what was delivered after the session of
the stream had ended. `MaxGeneration` bounds the sessions. The
`shared` instance has no override acknowledgement to store (`Acks` is empty, which
keeps its liveness check small): that an outage forgets one is shown for every value
of the constants by the proof of `OutageServesNothing`.

### Bridge and Delivery

`Accept` captures the guard under the lock and `Enqueue` sends later, as `execute`
does. `send_requests` is `SeeConnAck`, `KeepaliveTick`, `TakeGuarded`,
`TakeLegacy` and `SenderEnqueues`, the latter one step for each awaited enqueue.
`poll_events` and rumqttc are `ConnAck`, `ConnectFails`, `WakeUp`, `Read`,
`Break`, `Yield`, `Write`, `WriteFails` and `PubAck`. What one future does between
two awaits is one action: `Break`, for instance, is the failing `select`, rumqttc's
`clean`, `set_connected(false)` and the filtering of `pending` together. `Stop` is
the shutdown; HTTP handlers still run after it and are refused. The DISCONNECT that
`shutdown` tries to enqueue first is left out: in the channel it takes a slot, and when
it is written the broker closes the connection, which `Break` may do at any moment.

*Abstractions.* The gateway always connects with a clean session, so a ConnAck
never resumes one and clears `pending`, whose order nothing can observe: it is a
set. Acknowledgements arrive in order; packet identifiers and rumqttc's collision
slot are left out. The thirteen portal filters are one; a refused SUBACK is not
modelled (the code ignores it too). A portal id is configured. `dry_run` has the
target and the quality of service of `toggle` and is the same kind. One `readb`
takes up to `MaxBatch` packets (nine in the code). A guard's age is kept only
while it will be asked for.

`Delivery` is the promise: a first-in-first-out line in which a perishable command
is good for its session, a durable one is lost only where a session that followed
its acceptance has ended or at shutdown, and nothing is delivered twice. Under the
refinement mapping a command waits while it is in the command channel, in the
hands of `send_requests`, in rumqttc's channel or in `pending`, and has not
reached the broker; `KeepsThePromise` says that every step of the bridge is a step
of `Delivery` or leaves it unchanged.

### Energy

`GET /v1/energy` reads all readings under one lock and changes nothing, so a
response is a state function: `CollectMetric` and `BuildAlarms` compute what
`collect_metric` and `Alarms::build` do, and a text is the sequence of facts it
states, each about a metric or an alert, with an amount where it has one. The
English and the Russian reports are written twice, as in the code, down to the
words of a Russian number (`IntegerWords`) and what a listener makes of them
(`Understood`). The telemetry below is `Shared`'s own `Connect`, `Disconnect`,
`Update`, `RemoveDevice` and `Tick`; the other actions leave the readings alone.

*Abstractions.* Numbers are counted in halves of a unit, which tells apart a
fraction, a level between two levels and a tie. `MaxFinite` stands for the range of
an f64, so that sums can leave it. Labels, wording, grammatical number and the
scientific notation of amounts from 10^9 on are left out.

### Gateway and Sources

The steps of `main` are actions in their order: `Configure`, `Register`,
`BindHttps`, `BindHttp`, `StartBridge`, `Route`, then `BeginShutdown` (or
`SignalStreamEnds`, `ServerFails`), `Drain` for each server, `Served`,
`StopBridge`, `End`; each that can fail has a failing disjunct, which exits.
`Signal` may come at any moment and kills a process that has not registered.
A connection carries a stream, which lasts, or a command, whose body may arrive
after the drain began (`Command`); a connection that was told to close may still
finish its command before it does. How axum_server drains is taken from how
`serve` uses it.

`Accepted` is every check of `Config::from_env` over settings that may be unset,
empty, not UTF-8 or given. `ParseEnergy` decides about lists of sources;
`Measured` is the reference: the chargers and the phases of inverters, loads and
grid that a source adds up, for a given wiring of the PV inverters.

### Release

A run is `idle`, `queued`, at one of fifteen steps, or concluded. The reads of one
round of checks are one action (`Allocate`, `Verify`, `Promote`, `Recheck`,
`BeginPublication`, ...); every write is an action of its own, so other runs come
between any check and the write it justifies. `GotoOrLose` lets the reply to a
write be lost: the write stands and the run fails, except for the draft, which a
candidate may recover (`Reconcile`). `Fail` is every refused check, API error,
cancellation and lost runner; `Rerun` runs all jobs again at the same commit
(partial reruns are refused by `require_current_attempt_jobs`). `overtaken` and
`published` are history variables.

*Abstractions.* A blob identity is a content hash, so the compare-and-swap compares
contents. A nightly is named after its run id. Nobody deletes or moves tags,
releases or the state branch by hand. The gate, receipts, signatures, notes,
reviewers, ancestry and workflow-tree checks read nothing that the model holds and
appear only in that a run may fail. Not modelled: the final-build promotion
profile, the unversioned `candidate` command, the limit of ten releases that
`scheduled_reuse` looks at, the expiry of artifacts after ninety days.

### Prepare

A commit is a tree and the set of its ancestors; a tree is a version, the common
value of all declared fields, and a set of edits to anything else. `Validate`,
`Choose`, `List`, `FetchTopic`, `Push` and `CreatePR` are the calls of `prepare` to
git and GitHub in their order, so the branch, the topics, the pull requests and the
tags move between any two of them; a refused command ends where it was refused.
`PushUnanswered` is a push that was applied although the run died or was told that
it failed. `MergePull` merges or squashes with a three-way merge over one of the best
common ancestors and may delete the branch.

A release takes two requests and two runs. `Dispatch` is release.py's look at the
head, `Request` the start of the workflow, which GitHub does on the head of a moment
later and which `prepare` refuses when the two differ (`AsExpected`). The run of a
candidate publishes the commit it runs on (`PublishCandidate`); that of a promotion,
asked for at a head of its own, tags the commit of the candidate it names (`Source`,
`verified_rc`), which need only be in the history of the default branch by then
(`Promote`). What the two do to the ledger and the release page is in `Release`.

*Abstractions.* The edit of a declared field is the projection of the tree.
Readings of one command (`gh pr list`, `git ls-remote`) are atomic. Tags outside the
history of the default branch are the constant `Reserved`. `touched` is a history
variable, and so is the checkout that a candidate remembers (`asked`). A run in
`runs` may publish at any later moment or never. Betas and nightlies, which can only
make a candidate that is not the newest build, and the checks of gate, reviewers,
evidence and workflow tree, which can only refuse, are the cases in which it never
does. A workflow that somebody starts by hand without `expected_sha` is a request from
a checkout that is up to date. The policy here is `promote-bytes`; a final build, which
requires the head, is not modelled.

### Build, Oci, Smoke, Registry and Images

`Build`: `ReadInputs` (with `verify_checkout`), one `Replace` per file,
`WriteEvidence`, `CheckVersion`, then the packages are built from the files as they
are and `StageJob` looks at files and evidence again. `Interrupt` stops `sync`
anywhere and runs it again, and `EditFile` is a tool that rewrites a file. A file
is as committed, as planned, or neither. `sync --check` looks at the declared fields
only (`InSync`): it may pass a file that a tool has rewritten elsewhere, and it is the
comparison of digests at staging that refuses it.

`Oci` treats a digest as the content it names. `ArchiveAccepted` and `Inspected`
are the probe's reading, `MetadataAccepted` that of the staging step, which takes an
attestation of the old form without a reference digest. `Mounted`,
`Executed`, `Reachable` and `Runnable` are references, written from what a container
runtime and a registry client do. Byte limits, media types and JSON shapes are left out.

`Smoke` has one action per docker command that changes something, and `Command`
gives each four outcomes: done and answered, done with the answer lost or not
understood, refused, or under way when `bounded_command` gives up. In the last case it stays in
`late`, from where the daemon may carry it out at any later moment (`AppliedLate`).
`Kill` ends the process anywhere. Other users load, tag, run, untag and prune the
same images. `ran`, the history of what a container executed, is not read by the
probe except for the version it printed. `ReplaceArchive` puts another archive in the
place of the one under test at any moment from the import to the staging, which opens
the file once more; `swapped` remembers that this was after the probe's last look.

`Registry` has the operators: `VerifiedAssets`, one `Preflight` per repository,
one `Copy` per command, which may fail with and without its effect, and the three
steps of a resolver. A repository may hold the version already, with foreign bytes.

`Images` runs the steps of the job `container` of `release-build.yml` in order and
releases what was staged; archives of the other builds of a release come from
outside. `Promote` stands for the whole of `Release`.

## 3. Runs

| Run | Instance | Checks |
|---|---|---|
| `shared` | one client on a two-slot channel, one energy leaf, a controller that may fall silent, two sessions, fairness | `ReadingsAgree`, `OutageServesNothing`, `NoLostUpdate`, `AtMostOneLateItem`, `StreamsEnd`, `ExpiryIsReported` |
| `energy` | four configurations, up to four sources each, values at the edges, one session | `WholeOrNothing`, `AlarmsAreTold` (no false all-clear, no alarm hidden), `TextsAgree` (status and text, both languages, direction of flows) |
| `gateway` | 662 environments that vary one group of settings or one list of sources at a time, two connections, fairness | `RunsAsConfigured` (no silent plaintext, the read token only reads), `BridgeOutlivesRequests` (served with a bridge, which is stopped at the end), `NoDoubleCount`, `ShutdownCompletes` |
| `bridge_commands` | a toggle and an alarm command, every queue one slot | `BridgeTypeOK`, `NoStaleController`, `KeepsThePromise` (every step is one of `Delivery`) |
| `bridge_guards` | an override and a water command, targets that come and go | `HandOffSeesTheTarget` |
| `bridge_live` | one command, one-slot queues, batches of two packets, fairness | `SessionsDoNotMix` (the telemetry is open exactly while there is a connection, buffered packets are of one), `SubscribesEverySession`, `CommandsDrain` |
| `bridge_stale` | one leaf, one controller state | violates `AppliesOnlyCurrentSession` |
| `release_queue` | a nightly, a candidate, a promotion and a push beta attempted twice, serialized, a moving head | `PublishedInOrder`, `StableIsAccepted`, `OvertakenStaysPrivate`, `StableClosesBase` |
| `release_races` | two candidates and two promotions, one of each attempted twice, not serialized | `UniqueReservations`, `OneReleasePerTag`, `LedgerOnlyGrows` |
| `release_first` | a first reservation that fails | violates `MissingLedgerWasRemoved` |
| `prepare` | three crews of operators: one who keeps asking for the next patch beside one who asks for given versions or edits in place; the first beside one who asks for a candidate and one for a promotion; the last three beside a second candidate; the current version, a reserved one and two later ones, one edit, two moves of developers, fairness | `ChosenIsNext`, `OwnTopicRecognised`, `VersionNeverGoesDown`, `EditsSurvive`, `StableTagsGoUp`, `Converges` |
| `images` | two version files, one of which tools rewrite, one probe, three archives (two with the planned image, one that prints another version), another user of that image, two repositories that may hold the version, two publishers, one of them with `--latest`, one resolver, fairness | `LeftoversAreKnown`, `PublishedWasRun`, `OthersKeepTheirs`, `ProbesReport`, `LatestIsComplete`, `VersionTagNeverMoves`, `ResolvedIsServed` |

`MCImages` also has three assumptions that TLC evaluates over all pairs of layers
made of eight entries and all archives of up to three descriptors out of ten:
`FinalBinaryIsMounted` (the executable that `final_binary` reports is the one a
runtime mounts), `AcceptedRunsOneImage` (an accepted archive leaves whoever follows
its indexes, two levels deeper than the probe does, exactly the reported image to
run) and `ReadersAgree` (what the probe
accepts is not refused when it is staged).

*Why the bounds are enough.* Queues of one slot make full, overwritten and blocked
the common case; two in `shared` let a stream hold a checked item with a backlog
behind it. Two sessions (generations 0 and 1, ended twice) let anything of
one session meet the next; nothing in the code compares more than "the same
generation". A threshold of 0 or 1 gives ages below, at and above it. Three runs
with two attempts each let two of them race and the third promote the winner, or
let an attempt meet the leftovers of the one before; one move of the head is
enough to overtake a run, and it may happen at every step. Two alerts may be spoken
instead of five, so three raised ones exceed the limit. A pair of sources is enough
to double count, because every rule of `ParseEnergy` is about one source or two.
Two repositories are the fewest that can be half published, two publishers the
fewest that race. Probes share nothing but the daemon, where the tags and
containers of another probe are like those of another user, so one probe beside
`Other` is enough; the archive changes until it is staged, since nothing reads it
afterwards (`ReplacedInTime`). `MaxMoves` of 2 lets a merge meet a refresh, an edit or another
merge; a criss-cross needs one merge and one refresh. `Versions` bounds topics and
tags to the current version and two later ones, which can be asked for, open and
merged at once, in either order; the one before them is taken, so that the next free
one is not the next one. Two candidates let a promotion name the older one. An
operator outside `Persistent` sees one command to its end.

*Deadlock* is checked for `Shared`, `Energy` and `Bridge`, which never stop (time
passes). It is off for `Gateway`, which exits, for `Release`, where all attempts
of all runs may be used up, and for `Images` and `Prepare`, where every job, operator
and version may be.

*Fairness.* `FairSharedSpec`: the coalescing task is an interval that never ends
(weak fairness of `BroadcastSnapshot`), and a stream whose client reads is polled
whenever its channel has something (weak fairness of `Recv`, `Check` and `Deliver`).
`FairBridgeSpec`: `tokio::select!` polls its ready branches in random order, so a
branch that is ready again and again is taken (strong fairness of `SeeConnAck`,
`TakeGuarded`, `TakeLegacy`, `Write`); what is ready and cannot be pre-empted gets
weak fairness (`SenderEnqueues`, `Yield`); a broker that stays connected
acknowledges (`PubAck`). Nothing makes a connection attempt succeed or a
connection last: both liveness properties allow the session to end instead.
`GatewaySpec`: `main` and the deadline of a drain go on by themselves (weak fairness
of `Progress` and `BeginShutdown`); no client ever has to close a connection or
finish a request, and no server has to fail.
`Images`: a probe that is not killed goes on, because `bounded_command` gives every
command a deadline (weak fairness of `Probing`); nothing is assumed of the daemon,
of containers or of operators. `Prepare`: the operators in `Persistent` finish what
they began, refresh their clone and try again (weak fairness of `OperatorStep`), and
only the persistence of one of them is needed for `Converges`; the others may stop
anywhere. GitHub need not answer any particular push (`PushUnanswered` is always
possible), but not every attempt of a persistent operator fails before its effect.

## 4. Findings

**Packets of a broken connection are applied in the next session**
(`bridge_stale`). rumqttc's `readb` pushes the packets of a batch to
`state.events` before it meets the error behind them; `EventLoop::clean` does not
empty that buffer, and `poll` yields it after the next ConnAck. `poll_events` then
applies it, with a fresh receipt time, to a session in which it was never
received. `state.rs:294` and `docs/energy-api.md:271` say otherwise. What does
hold is `BufferIsOfOneSession`, a part of `SessionsDoNotMix`: leftovers come out before anything of the new
connection is read, so they never overwrite newer values.

**A first reservation that stops half-way blocks the repository**
(`release_first`). The state branch is created before the first ledger is written.
A run that stops in between leaves a branch without the file, which `read_state`
takes for a removed ledger: every later run is refused with "restore it from
history", where there is no history.

## 5. Proofs

Every safety property of a specification that a passing run checks is also a theorem:
it holds for every value of the constants that the named assumptions allow
(`SharedAssumption`, `BridgeAssumption`, `EnergyAssumption`, `GatewayAssumption`,
`ReleaseAssumption`, `RegistryAssumption`, `BuildAssumption`, `SmokeAssumption`,
`OciAssumption`, `PrepareAssumption`; those about `Delivery` and of `FoldFacts` need none).

`SharedProofs`. `SharedTypeCorrect`, `OutageIsEmpty` and `CachesAgree` are
inductive together with the type invariant. `NoUpdateIsLost` needs two
strengthenings. `StreamSessions`: a stream was opened in the current generation or
an earlier one, an item in its channel carries a generation between the two, and
a None only where a session ended. `UpToDate`: for a stream of the running session
that has not lagged, either something is owed (`dirty`, or an expiry to sweep), or
the newest snapshot among the queue, the held item and what the client has is the
current one. It is inductive because every action that changes the snapshot sets
`dirty` from a receiver count that includes this very stream, and because the one
action that clears `dirty` sends to every receiver. `OneLateItemAtMost` needs
`LateInv`: an open stream that has delivered something after its session holds no item
that was checked. It is inductive because a generation that is over stays over, so `Check`
passes nothing any more, and because only a checked item is delivered.

`BridgeProofs`. `BridgeInv` says where a command can be on its way. It is at most in
one of the command channel, the hands of `send_requests` and rumqttc's request
channel, and then neither on the wire nor in `pending` (`NotBefore`); the places keep
the order in which the command channel took the commands (`QueuesInOrder`); a guard
is of the current session or an earlier one, what waits for replay is of an earlier
one, and what `send_requests` awaits with is not guarded (`GuardsArePast`); and the
telemetry is connected exactly while the network is (`ConnectedMirrorsNetwork`).
`NoStaleController` is not inductive without the last two. From the invariant: the
types and bounds of the queues (`BridgeTypeCorrect`), `NothingStaleInRumqttc`, and
step by step the two refinements, of the telemetry's own specification
(`BridgeImplementsShared`, so the theorems of `SharedProofs` hold of the gateway) and
of `Delivery` (`BridgeKeepsThePromise`). `BridgeDelivers` draws the conclusion from the promise
itself, by an inductive invariant of `Delivery` (`DeliveryInv`: what is delivered has a
place in the line, a command has one place, and what still waits stands behind
everything that was delivered): at most once, in its session, in order, for any number
of commands and any capacities. `SessionsStayApart` adds that the buffer of events is of one
connection; `TargetShowsAtHandOver` that telemetry which shows anything counts as
ready (`ShownIsReady`).

`EnergyProofs`. The steps of `Energy` are steps of `Shared`, so the types and the
agreement of readings and snapshot are inherited (`EnergyInv`); the rest is about the
operators in one state, by induction over the sources with `FoldFacts`.
`MetricsAreWhole`: the running sum of `collect_metric` after `n` sources is the sum over
the *set* of the first `n`, because a list names a source once (`PrefixSum`; the sum
over a set does not depend on the order in which it is taken, `SumWithout`). A sum that
is not finite is therefore the sum of some of the sources. `AlarmsReachTheListener`:
the three filters keep what they are meant to keep, without repetition (`FoldFilters`),
so the summary names `SpokenLimit` alerts, alarms first, and counts the others.
`StatusesAreSpoken`: each metric is one sentence, which gives a reason exactly unless
the metric is fresh, and the worst of several statuses is fresh only if all are.
`LanguagesSayTheSame` needs that the words of a Russian number say that number. What a
listener has heard is a pair, the groups that are complete and the group being said;
`under_thousand` adds to the second (`GroupHeard`), the name of a scale moves it to the
first (`ScaleHeard`), and four groups of three digits make up every number below 10^12
(`WordsSayNumbers`). Then `decimal_words` says the hundredths it is given, and each
Russian text equals the English one. The theorem is stated where the code uses words:
from 10^9 on both languages change to scientific notation (`decimal` and `amount`),
which `Energy` leaves out, and `InWords` says that no amount and no count gets there.
Every state of the run `energy` satisfies `InWords`.
`EnergyAssumption` says that the lists of sources are lists of leaves without
duplicates, as `parse_sources` requires, and that values are numbers or not.

`ReleaseProofs`. `LedgerInv` says that the ledger is sound (no number above the
counter, no two plans with one number or one tag, no floor above the counter),
that the branch exists once the ledger does, and for each run that what it is
about to write is *new with respect to the ledger it has seen*: a plan whose number
is above that ledger's counter and whose tag is not in it, or a floor that is at
least that ledger's. It is inductive because the compare-and-swap admits a write
only if the ledger still is the one that was seen, and because `next_sequence`
takes the maximum over tags, releases and reservations (`MaxIsUpperBound`,
`SequenceIsNew`). From it: `ReleaseTypeCorrect`, `ReservationsAreUnique`, and
`LedgerIsMonotonic`. Three more invariants are about the runs between the last check
of what they publish and its publication. `TagInv`: whoever pushed a tag is alone with
it and has made at most one release of it (`OneReleaseOfATag`). `StableInv`: a run that
promotes names a candidate that is public, complete and has its evidence, and stays so
(`StableHasItsCandidate`). `HeadInv`: an automatic run that is past its last look at
the head was started at the commit it saw there (`OvertakenIsNotPublished`). None of
these assumes the concurrency group. The last two theorems do, as the code does
(`release-pipeline.yml`, `concurrency`): `OrderInv` says that the one active run, once it has
consumed the floor, is ahead of everything public, and that the base of a candidate it
has verified has no stable tag (`PublicationIsOrdered`, `StableTagCloses`).

`GatewayProofs`. `GatewayInv` ties the phases together: the program counter
determines whether the bridge runs and how far each server is, and a connection
outlives its server only if it was told to close. `CommandsFindABridge` and
`BridgeStopsFirst` follow; neither is inductive alone, because whether the bridge
may stop depends on the phase of both servers and of every connection.
`ReadersOnlyRead` adds `Authorized` (in a refused environment the process only
exits, and what was enqueued carried the API token), and
`PlaintextIsNeverSilent` adds `Encrypted` (HTTPS, where it is enabled, is bound
before the bridge starts and accepts while HTTP does). Environments are arbitrary;
the assumption says only which of their fields are flags, tokens and lists of
sources, and that the markers for unset and unreadable settings are no values.
`BridgeIsThere` and `ConfigurationIsKept` join the four into what the run `gateway`
checks. `SourcesCountOnce` is about `ParseEnergy`: for lists of any length and every
wiring, two positions of an accepted list measure nothing in common; one lemma for
each pair of kinds of source.

`ImagesProofs`, first of the registry. The three properties of the registry are proved
of `RegistrySpec`,
in which a release of any archives is published once, for any number of
repositories, publishers and resolvers. `RegistryInv` says that whoever downloaded
holds the archives of the one release (`OneRelease`), that a publisher at command
`k` has found every version absent or written those before `k` (`Progress`), that a
resolver at position `k` has found the approved bytes under the versions before `k`
(`Compared`), and that a latest tag of the release exists only when every version
tag is the release's (`LatestAfterAll`). The last is not inductive without
`Progress`: a publisher writes latest only at a position behind all versions. A
foreign version tag is there from the start, so a publisher that meets one never
gets past its preflight, and one that got past it can only write what the release
holds: racing publishers write the same bytes, and the tag does not move.

Then of the archive. `ReportedIsRun` compares `final_binary`, which folds the layers
of an image into one answer, with a runtime, which mounts them one on another: after
every layer that is accepted, the answer is the file at the target path of what is
mounted. It is an induction over the layers, carried out with `NatSetInduction`, a
set of numbers in the place of a predicate; `FoldFacts` derives from the community
module's definition what a fold makes of one more element. `SmokeAssumption` says of
digests that equal ones name equal contents, and of the paths in an archive that they
are sequences of names.

`OneImageToRun` and `StagingAcceptsInspected` are what `AcceptedRunsOneImage` and
`ReadersAgree` check, for archives of any size and depth, whose descriptors are of the
three media and have only such descriptors below them (`Graph`); `OciAssumption` says
that the depth limit is a natural number. The walk and the client that follows every
index are two recursions over levels (`WalkByLevel`, `ReachByLevel`; that they are
defined is `RecursionExists`). `WalkCovers` relates them: whatever the client has come
to is either among what the walk has met at that level or an index all of whose
manifests the client has already. The second case is there because the client
keeps the indexes it has followed and the walk replaces them. Once the walk meets no index
any more, as in an accepted archive, the client finds nothing new at any depth
(`ReachIsStable`), and the images it finds are those of the walk. The second theorem
follows from the first and from what the two readers ask of each descriptor.

Then of the probes and the whole. `SmokeInv` says of each probe that it owns nothing
before its intent is on disk, that all it owns is of its image, and that *as long as
nothing failed* it knows exactly what the daemon holds for it and nothing is under way
(`Tracked`): every late or lost command sets `failed` before the next one, which is why
a receipt excludes leftovers (`LeftoversKnown`). `OthersUntouched` follows step by
step. `ImagesInv` adds that what is staged has a passed probe, of the same archive unless it
was replaced after the last look at it (`Seen`), was accepted by the staging step's
reader and was built of planned files, that a release is what was staged, and that what is served
was released. `PublishedHasRun` is read off it; `ImagesImplementRegistry` shows every
step of the composition to be one of `RegistrySpec` or a stutter, and
`ReleasedImagesAreServed` draws the conclusion.

`PrepareProofs`. First the arithmetic of versions: their order is total (`LessOrder`),
the patches between a version and the first free one are all there is between them
(`Between`), and a finite set has a newest member. Hence `ChosenIsAllowed`: what
`choose_version` returns is allowed, and least when nothing was asked for. The
invariant `PrepareInv` is about histories. Along each of them the version and the
edits only grow (`Histories`). A topic that an operator is about to refresh has
nothing that the checkout lacks, though the branch has moved since (`OperatorInv`).
And there is a set of commits, `Trunk`, which holds every head the default branch has
had and every checkout: any two of them are in one line, and each topic that only
preparations wrote is *made from* one of them, in that it has its edits, and its
ancestors are ancestors of that commit or commits of the topic's own version. With
squashes and criss-cross merges the topics are in no such line, which is why the line
is needed: it makes the merge base unique, so that `verify_owned_topic` accepts
(`TopicsAreRecognised`) and a push never replaces a topic that is ahead of it. The
properties `VersionsGoUp` and `PreparationsKeepEdits` are read off the
invariant and its step (`HistoryGoesOn`). `TagsGoUp` needs `RunsInv` besides: a run is
at the commit its operator had checked out, a candidate is of such a commit, and a
promotion names a candidate that is published. Every commit in the history of the one
that is tagged has at most its version (`Histories`), and the tag of an equal one
would have refused the promotion. `PrepareAssumption` asks for a finite number
of versions with a tag.

`SharedTypeCorrect` and `ReleaseTypeCorrect` are theorems about type invariants that
no run checks any more.

*Only model-checked.* Liveness and fairness (`StreamsEnd`, `ExpiryIsReported`,
`SubscribesEverySession`, `CommandsDrain`, `ShutdownCompletes`, `ProbesReport`,
`Converges`), which the prover does not handle.

## 6. Not modelled

Component by component, with reasons, in `PROJECT.json`. In short: text (report
wording, alarm labels, release notes, the editors of version files), byte formats
(tar and compression of OCI archives, X.509, MQTT codecs), read-only checks inside
one job (runner preflight, workflow contracts, fuzzing policy), shell and manifests.
`merge_archives` and `assemble_native_container.py` write archives; no workflow here
calls them. rumqttc's packet identifiers, which wrap around after a hundred
unacknowledged publishes, are left out too.

Three things in the code that no property covers, each noted at its hazard: the
SHA-256 in the smoke receipt is compared with the archive for the last time inside
the probe, so that an archive which replaces it before the staging need not have run
(`PublishedWasRun` says what still holds of it); a tool that rewrites a version file
and restores it is not seen; and a publication that stopped half way cannot be resumed, by design.

## 7. Plan

What is left: command validation (`controller_payload`, `water_request`) as operators
checked against a reference definition, and the final-build promotion profile of
`Release`.
