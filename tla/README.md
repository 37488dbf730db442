# A TLA+ verification of the Ontology Kernel

The repository is an *ontology kernel*: versioned definitions (resources,
releases, packages) are published on channels, data for them is materialized
from uploaded files by background jobs, and queries read it under a policy. It
is TypeScript over PostgreSQL, and most of its state machines are PL/pgSQL
functions and triggers in `src/migrations/db-00`, where a later migration
replaces functions of an earlier one; a module here follows the last
definition.

The project consists of TLA+ modules for the system's components, TLC runs on
small instances of them, and TLAPS proofs of safety properties for every value
of the constants.

## Inventory

| Component | State | Operations | Talks to |
|---|---|---|---|
| Job queue (0009, 0013, 0018, 0019) | jobs, attempts, checkpoints, the data-bearing project | enqueue, reap, claim, heartbeat, read control, complete stage, succeed, fail, cancel, replay | workers by SQL calls, each one transaction |
| Worker (`apps/worker`, `worker.ts`) | one claim in memory, an abort signal, a heartbeat loop | claim, run 8 stages, report, release on shutdown | the queue; stage executors |
| Build pipeline (`production-pipeline.ts`, 0011, 0012, 0014, 0018) | generations, base batches, quality reports, capacity admissions | scan, map, validate, build, index, measure, admit, finish | object store, inventory, DDL executor |
| Certificates, runtime plans (0015) | plans, compatibility certificates | derive, certify, refresh | inventory revision, quality, admissions |
| Releases and channels (0005, 0007, `release.ts`) | releases, channels, serving heads, `publication_sequence` | stage, publish, retire, roll back | certificates, activations |
| Cutover (0016) | preparations, activations, object head sets and their pointer | prepare, commit | everything above |
| Garbage collection (0017, 0021, 0023) | roots, collection plans, batches | mark, plan, commit by batches | inventory, leases, DDL executor |
| Query leases and context (0023, 0028) | planned and committed leases with deadlines | plan, commit, release, expire | serving heads, the gateway, collection |
| DDL executor (0014, `projection-ddl.ts`) | DDL requests, index inventory | create/drop index concurrently, reconcile | the PostgreSQL catalogue, inventory |
| CSV ingress (0010, 0015, object store) | upload sessions, object versions | open, upload, claim, finalize, clean up; scan | object store, jobs |
| Metadata and packages (0002–0006) | resources, revisions, roles, package installations | draft, patch, validate, retire, archive, install, upgrade | releases |
| Policy and identity (0022–0027) | authorization epochs, compiled policies, delegation replays, the gateway's cache | advance, notify, compile, authenticate, consume, decide | queries, releases |
| API (`apps/api`) | none between requests | authorize, execute, answer, repeated requests | the above |
| Pure compilers (mapping, policy, query, index plans, value codec) | none | compile, evaluate, render | the above |
| Reference models under `tools` | outbox, durable jobs, activation, policy epochs, control plane, handler host | as the production parts they prototype | each alone |

What is hard in it:

* *Leases*: a worker, a caller or a delivery may act after its lease has
  expired or has been taken over; a call may commit and its answer be lost;
  shutdown, heartbeat failure and cancel requests arrive at any point.
* *The point of no return*: once the last stage's checkpoint is durable the job
  must be reported as done, by whoever is left.
* *Optimistic cutovers*: prepare reads without locks, and commit decides much
  later by comparing revisions whether all of it still holds.
* *Shared revisions*: one `publication_sequence` and one `inventory_revision`
  per project serialise everything, so that each step can invalidate the work
  of another.
* *Collection against readers and builders*, over a dry run that is stale by
  the time it commits.
* *Epochs against caches*: a revocation must end every cached permission,
  although notifications are lost and the clock may fail.
* *DDL outside transactions*: a crash leaves catalogue and inventory apart.
* *One meaning computed twice*: SQL text and evaluator, a compiled plan and its
  re-derivation, canonical texts and their values.

`PROJECT.json` lists the hazards at the lines where they bite, each with the
properties that cover it.

## Modules

Two components are modelled in most detail, each with an MC module of its own:

| Module | Models |
|---|---|
| `MaterializationJob` | the queue's functions and the worker processes |
| `JobLedger` | what the queue promises, with no workers, leases or time |
| `RuntimeServing` | builds, certificates, stage/publish/retire, cutover |

The others are modelled one module each:

| Module | Models |
|---|---|
| `PolicyGateway` | concurrent `authorize` calls over cache, epoch floor and clock |
| `PolicyEpoch` | the policy-epoch prototype: store, bus, decision processes |
| `PolicyDocument` | a policy from draft to release: parser, dependencies, test vectors |
| `PolicyCompilation` | compilers, the artifact store, the record of a compilation, the gateway's load |
| `QueryPolicy` | the compiled statement against the policy evaluator |
| `RuntimeQuery` | a runtime read: context, gateway, lease, read, release |
| `RuntimeIdentity` | tokens, delegation chains, DPoP proofs, replay records |
| `MetadataRelease` | releases, channels, packages |
| `ResourceRevision` | drafts, validation, retirement, roles, archiving |
| `TypeCompatibility` | the comparison of revisions and packages, over chains |
| `ControlLocks` | the locks of control transactions and the owner check inside them |
| `CutoverRequests` | repeated and concurrent activation requests under idempotency keys |
| `AdminRequests` | administration requests with idempotency keys and `If-Match` |
| `ControlPlaneModel`, `RuntimeActivation` | the prototypes of publication and of activation |
| `Outbox`, `DurableJob`, `HandlerHost` | the prototypes of delivery, of jobs and of the handler pool |
| `UploadSession`, `CsvScanner` | managed CSV ingress; the streaming scanner |
| `MappingExecution`, `ValueCodec` | mappings over rows; canonical texts |
| `ProductionPipeline`, `BaseStaging`, `QualityReport` | the stages of a build; attempt-owned batches and promotion; reports and confirmations |
| `IndexPlan`, `IndexAdmission`, `ProjectionCapacity`, `ProjectionDdl` | index plans, their admission, byte budgets, index DDL |
| `PlanDerivation`, `RuntimeRefresh` | runtime plans derived again and again; the refresh of a group's releases |
| `GenerationGC` | dry runs, batches and roots of a collection |

`MCMaterializationJob`, `MCRuntimeServing`, `MCAccess`, `MCControl`,
`MCStorage` and `MCSettling` instantiate them for TLC;
`MaterializationJobProofs` holds the proofs about the
queue; `ControlProofs` those about `MetadataRelease`,
`ControlLocks`, `CutoverRequests`, `Outbox` and `ResourceRevision`,
`AccessProofs` those about `PolicyGateway`, `PolicyEpoch`, `RuntimeQuery` and
`RuntimeIdentity`, `WorkerProofs` those about `DurableJob`, `HandlerHost` and `UploadSession`;
those about `RuntimeServing`, `AdminRequests`, `GenerationGC` and
`RuntimeActivation` are at the end of these modules.
Each module's header names its source files and its abstractions. `PROJECT.json`
maps definitions to lines; a helper whose lines lie within those of the
definition that uses it is not listed apart from it.

Operators named `X_Something` beside a definition `X` are deliberate mistakes
(a dropped guard, a missing reset), used to test that a property notices them;
no specification uses them.

### MaterializationJob

*State.* `jobs`, `attempts` and `checkpoints` are the three tables of the
queue, `dataBearing` the singleton row of 0019, `workers` what a worker process
holds in memory (`phase` is the call it makes next, `seq` its own idea of the
latest checkpoint, `abort` the reason of its lease signal). Attempt id, attempt
number and fencing token are created together and the update trigger lets none
change alone: one number stands for them. Deadlines are counted down in ticks
of five seconds; `Tick` is the clock.

*Actions.* One per function of the queue (`Enqueue`, `RequestCancel`, `Replay`,
`Reap`, `Claim`, `Heartbeat`, `ReadControl`, `CancelAtSafePoint`,
`CompleteStage`, `Succeed`, `Fail`); where the worker calls it, the action is
the transaction with the worker's reaction to the answer. `Claim`, `Heartbeat`
and `CompleteStage` also come unanswered: committed, with the answer lost. (An
unanswered `Succeed` or `Fail` leaves the worker as an answered one does.)
`CallFenced`, `CallUnavailable` and `CancelRefused` are the refusals: the
functions read the clock before they wait for the row, so even a lease holder
may be refused. `ExecuteReturns` and `ExecuteThrows` are a stage. `Shutdown`,
`Kill` and `Restart` are the process. An error that is neither a fence nor a
dependency failure ends the worker process, unless a failed heartbeat takes
precedence, as in `lease-runtime.ts`.

`JobLedger` is the promise: stages are completed one after another, each once;
completing the last makes the job `done` and nothing else; before it the job may
be given up, reopened, or cancelled for good.

### RuntimeServing

*State.* `control` is `publication_sequence`; `inventory` the state and
inventory revisions and whether the measurement is complete; `versions` the
group versions with the revision they were admitted at; `certs` the revision of
the latest certificate of a release for a version; `releases`, `channels`,
`serving` and `activations` as in `meta`; `headSets` and `pointer` the immutable
object head sets; `preps` the preparations.

*Atomicity.* A transaction that first locks `meta.projects FOR UPDATE` is one
step: publish, certify, retire, commit. Prepare is not such a transaction: its
reads of the revisions (`PrepareRevisions`) and of the pointer and group state
(`PreparePointer`) are steps of their own; inserting the preparation takes a
foreign-key lock on the project that excludes the others, so the rest
(`PrepareBuild`) is one step. Commit reads its preparation before it takes the
locks, but aborts on every path if another commit of it got ahead, so it is one
step too. (`CutoverRequests` keeps commit's read, lock and comparison apart, for
the callers that repeat requests.)

*Abstraction.* One project; one member and one object to a group; a certificate
is named by the revision it was issued at; which pairs of release and version
are compatible is left open. Failed builds, failed releases and the expiry of
quality confirmations are left out: they only remove possibilities. A project
starts with a measured inventory: no code inserts that row, and the
integration tests provision it so.

### The suites

The other components do not share variables in the model: what one needs of
another is an input of its own (a gateway answer, an admission, a token), left
open as far as the other's module shows. To check them together, `MCAccess`,
`MCControl` and `MCStorage` instantiate each component with its small
constants; `component` says which one a behaviour runs, `x1`, `x2`, … hold its
variables in the order of its module and the rest stay `None`. Each behaviour
runs one component, and each property is a conjunction of `component = "…" =>`
a property of that component, stated and commented in its module. `MCSettling`
does the same for liveness with the variables kept apart, so that the fairness
of a component that rests demands nothing.

## Runs

| Run | Bounds | Checks |
|---|---|---|
| `job_contention` | 1 job, 2 workers, 2 stages, 2 attempts a cycle, 1 replay, lease of 1 tick, 2 outputs | the safety and action properties of the queue |
| `job_liveness` | 1 job, 2 workers, 2 stages, 2 attempts; five other components at their smallest | `JobsSettle`, `CutoversSucceed`, `WorkSettles` |
| `job_cancel` | 1 job, 2 workers, 2 stages, 2 attempts | a violation of `CancelConverges` |
| `serving` | 2 releases on 1 channel, 1 group of 2 versions, 2 values, 2 preparations, 5 inventory revisions | the safety and action properties of serving |
| `serving_query` | 2 releases, 2 preparations one after the other | a violation of `ServingServable` |
| `serving_retire` | 2 releases, 3 preparations one after the other | a violation of `CutoverNotTrapped` |
| `serving_groups` | 1 release over 2 groups, 1 preparation, 7 revisions | a violation of `RefreshReplacesGroup` |
| `access` | the ten instances of `MCAccess` | who may read what |
| `control` | the 27 instances of `MCControl` | who changes what, and how often |
| `storage` | the 24 instances of `MCStorage` | what is stored, built, admitted and collected |
| `index_race` | 2 callers, a plan or two for each of 2 releases, 3 indexes | a violation of `AdmissionsWithinHard` |
| `upload_lost` | 2 uploads of 1 session, a finalize request and cleanup | a violation of `RegisteredStays` |

### What the suites check

**access**

* `AnswersAuthorized`. The gateway decides by the facts of the epoch it names
  (`DecisionIsOfItsEpoch`), never at an epoch before one it answered at
  (`EpochsNeverGoBack`) or was told of when it reads its cache or stores into it
  (`AnswersReachTheFloor`), and refuses everything once its clock failed
  (`UnsafeClockFailsClosed`); 2 callers over 1 entry with a restart, and 1 caller
  with 3 requests over 2 entries. In the prototype a revocation ends every ALLOW
  within a TTL even if no notice arrives (`RevokedWithinTtl`,
  `AllowedWasGranted`, `NotifiedProcessesAreCurrent`). A query shows what was
  allowed when its lease was committed and gave the lease back
  (`ShownWasAllowed`, `DataMeansReleased`, `LinksShownWithTheirEnds`); what is
  selected, counted and ordered does not depend on a value the caller may not
  see (`SelectsOnlyVisible`, `HiddenValuesDoNotMatter`, `CountIsSearch`).
* `PolicyFaithful`. A document that passes is closed over its release, its
  comparisons are typed alike by parser, compiler and database
  (`BackstopAgrees`, `ReleaseClosed`, `ComparesAlike`, `PassedIsSeen`); what is
  recorded is stored, and a request is decided on the bytes whose test vectors
  passed (`RecordedIsStored`, `OkIsRecorded`, `LeavesDraftTested`,
  `DecidesOnTestedBytes`, `EvaluatesTyped`), with 2 compilers, a schema change
  and a store fault; the SQL statement and the evaluator agree on every
  predicate of two literals over every object (`AgreesWithEvaluator`).
* `DelegationBounded`. Chains of up to two actors do no more than each member
  (`DeadChainRefused`, `CapabilitiesHeld`, `ChainNeverWidens`); two requests
  that race for one delegation around its expiry use it once (`OneUse`,
  `OneTokenPerProof`, `NeverLate`).
* `AccessTyped`. Types, and the limit of the gateway's cache (`CacheBounded`).

**control**

* `PublicationWhole`. A channel points to its one published release, which
  loses no pin; packages are installed whole and share no resource; in the
  prototypes a failed transaction leaves no trace, activations that serve are
  certified and of one version per group, and leased, referenced or recently
  served content is not collected. Instances: releases with rollbacks on two
  channels, three packages under repeated requests, two of `ControlPlaneModel`
  and six of `RuntimeActivation`, each with the records its property needs.
* `RevisionsSound`. A validated revision depends on settled ones and never
  changes; a patch is of the draft its author read; nothing is validated after
  archiving; a change was permitted at the epoch its author saw; a chain of
  revisions accepted as compatible leaves data, queries and installations valid.
  Three instances of `ResourceRevision` (dependencies, two authors, two owners),
  one of `TypeCompatibility` with object and link types, policies, snapshot
  schemas and packages: its findings are those of the code, family by family,
  and an upgraded policy that is not flagged allows no more than before
  (`PoliciesAllowNoMore`).
* `JobsInterleave`. Three jobs of two projects and two workers keep the abstract
  ledger, whichever of the jobs are enqueued, claimed, lost, reaped, cancelled
  or replayed in between, and one project alone ever holds data. One attempt
  each and the activating stage alone: what a job under contention may do over
  several stages and attempts is the question of `job_contention`.
* `RequestsTakeEffectOnce`. Two callers under two keys commit a cutover once,
  with one result, of what was asked (`CutoverRequests`); a job is started once,
  a cancellation, an approval and a collection are of what the administrator
  saw, a refused request changes and tells nothing (`AdminRequests`, twice).
* `DeliveriesFenced`. The outbox keeps the order of a stream at its consumer;
  durable jobs have one attempt, bounded; who lost a lease changes nothing; a
  handler call is answered once; no publication commits for a principal that is
  no owner any more. Three instances of `ControlLocks` have the thirteen kinds
  of control transactions: the six that keep to one order never wait for each
  other in a circle (`NoDeadlock`), and among the others a circle always has a
  transaction in it that is out of order (`CyclesNeedOutOfOrder`): one that
  takes the advisory lock or the epoch first, or one that takes a revision
  before its resource, beside an edit.
* `ControlTyped`. Types.

**storage**

* `StagesFaithful`. What becomes ready was measured with its own rows on disk;
  a base is the whole file of one attempt, frozen, its links joined; a report
  counts rows that are stored and passes within the rules or by a confirmation
  of what holds at that moment. Two instances each of `ProductionPipeline` (two
  jobs and a lost lease; one job with bad input), `BaseStaging` and
  `QualityReport`.
* `RowsFaithful`. Every text of up to three bytes, and every file of up to four
  bytes after a header of one column (five over fewer letters, three after two
  columns), cut into chunks anywhere, and every way to write small tables; every
  mapping of a set of short expressions; canonical texts against the values they
  stand for.
* `WithinCapacity`. However snapshots and decisions overlap, what is admitted or
  finished fits under the hard limits, plans that one caller at a time had
  admitted without an approval under the normal ones, and one plan has one
  admission at one revision. (Of several callers see `index_race`.)
* `PlansReproduce`. Compiled index plans and derived runtime plans come out the
  same when they are compiled or derived again; a refresh certifies each release
  on its own.
* `NothingNeededIsCollected`. Objects, generations and indexes that something
  refers to survive uploads, claims, collections and DDL that race or die.
* `StorageTyped`. Types, and who holds a claim or lock.

**settling.** `WorkSettles`: a committed event is delivered or waits behind a
dead letter, a durable job ends, a call is answered although its handler never
returns, control transactions get their locks, an object that no group
registered is deleted.

### Bounds

Every bound is a constant of the module or of the MC module that names it.
Jobs share nothing but the workers and the data-bearing row, so one job under
contention shows every interleaving that matters to it; two workers are a
holder and a stale one; two stages are one that may be repeated and the
activating one; two attempts and a replay give a cycle that is exhausted and a
new one. Two versions and two overlapping preparations are the smallest
instance with a stale preparation, a version that is retired, and a pointer
that returns to an earlier head set; five inventory revisions let both versions
be built and still leave one for a collection. In the suites two of a kind
(callers, uploaders, executors, compilers, admissions, authors) are what can
race, and each component whose questions need different constants has several
instances, so that no instance has to be large: one with more callers, one with
more keys, one with a restart. Pure algorithms are checked over every input of
a small alphabet rather than along behaviours. The proofs remove the bounds for
what they cover.

Workers (where no liveness is checked) and preparations are interchangeable and
declared symmetric. Deadlock is checked for the queue. The runs of
`RuntimeServing` and the suites do not check it: versions, revisions and
requests are bounded, so these instances end. The three searches for a
violation in serving look only at cutovers one at a time
(`OneCutoverAtATime`); the passing runs have no constraint.

### Fairness

*Queue.* The clock advances. The operation of a claim takes its next step: its
calls have statement timeouts and its stages end. A stopped worker is started
again (the container's restart policy). The loop polls, and claim takes the
longest-available job first, so a job that can be reaped or claimed again and
again eventually is (strong fairness, over the workers together, and with any
answer). No answer, heartbeat, operator or crash is assumed to happen or not to
happen.

*Settling.* The same, module by module: clocks advance and armed timers fire;
who polls (workers, reapers, the upload worker) polls again; a database that
can grant a lock does, and ends a transaction that waits in a cycle. No call is
assumed to succeed and no handler to return; the comment over each `Fairness`
names the loop or timer it stands for.

## What the violations show

1. **`job_cancel`**: the cancel flag survives the end of an attempt and claim
   skips flagged jobs (0013:490). A running job that is asked to cancel and then
   fails, is shut down or loses its lease waits in `retry_wait` for ever, unless
   it is cancelled a second time; the worker's review and ADR 017 have every
   such case converge.
2. **`serving_query`**: publish takes the newest activation of a release
   whatever the state of its generations (`release.ts`:523). A cutover for
   another release may have retired them without moving `publication_sequence`,
   so a release is served that no query can read.
3. **`serving_retire`**: a retired release that is still certified is included
   in a cutover, and a deferred trigger (0007:1008) then refuses the whole of it.
4. **`serving_groups`**: refreshing one group of a served multi-group release
   requires current certificates of the other groups (0016:663), which the
   refresh's own measurement has made stale and nothing can renew.
5. **`index_race`**: `stageReleasePlan` reads the retained index plans in one
   transaction and stores its admission in another, which compares nothing but
   the inventory's revision (`materialization-postgres/src/index-capacity.ts`:219),
   and storing an admission does not advance that. Two callers that decide for
   two releases before either stores are both admitted, `WITHIN_NORMAL`; their
   plans together exceed the hard limit, which ADR 008 says no approval may. The
   limits on what is built on disk are checked again when it is built
   (`ProjectionCapacity`); those on units and numbers of indexes only when an
   admission is bound again to a later revision (0018:1073), and then of what is
   ready.
6. **`upload_lost`**: if recording an upload commits and the answer is lost, the
   compensation deletes the version (`materialization-application/src/index.ts`:408),
   which a finalize request may have registered by then. Every commit of
   the uploads' instances can lose its answer; `NeededObjectKept` (in `storage`, and proved) says
   that this compensation is the only way to lose an object that is needed.

## Read in the code, without a run

Met while modelling and kept here because each is a fact of a few lines rather
than a behaviour worth a run:

* *Control transactions.* A circle always has a transaction in it of the kinds
  that `OutOfOrder` lists. Archiving a project locks the epoch before the project
  (`metadata-postgres/src/index.ts`:400), the others the project first; a
  collection, a query lease and a retirement begin with the advisory lock that
  the triggers of 0017:380 take last. So a cutover, which holds the inventory when
  its triggers ask for that lock, and a collection, which holds the lock when it
  asks for the inventory (0017:1367), can wait for each other, although ADR 014
  (line 21) and `tools/materialization-control-plane/control.test.ts`:13 have
  publish, cutover and collection share one order.
  Validation locks the root's resource before its revision and those it depends
  on the other way round (`index.ts`:851-946), as does the creation of a release
  draft, while edits lock the resource first: `docs/evidence/g2-01-05` has the
  order of the two fixed. PostgreSQL ends all of these by aborting one
  transaction. A package reads the
  owner's role in the query that locks the project (`package.ts`:558), before it
  locks the epoch, so `PublishedByOwner` is stated for publications only. The
  locks that foreign keys take are left out.
* *Releases.* A rollback release restores the revisions of an earlier one and
  leaves package installations as they are (`release.ts`:218); retiring a
  resource does not ask whether a channel serves it (`index.ts`:1283); package
  requests are recognised by their digest as well as by their key
  (`package.ts`:701).
* *Capacity.* A generation without rows, such as a link member of an empty file,
  makes the whole capacity inventory invalid (`projection-capacity.ts`:660); a
  rebound admission counts ready indexes only (0018:1057); a scan is refused
  while the inventory has an index that is not ready (`index-capacity.ts`:818).
* *Uploads.* A session whose finalize request died stays `finalizing`, which is
  no candidate for cleaning (`index.ts`:506), until another request claims it:
  `AbandonedIsCleaned` is checked for requests that do not die.
* *DDL.* A DROP that is asked for again is answered from its record, a CREATE
  goes through the executor again (`projection-ddl.ts`:191).
* *Gateway.* The TTL of an entry starts when the decision is confirmed, not when
  its facts were read (`gateway.ts`:359).
* *Policies.* The negation of a link predicate is SQL's NOT EXISTS, which is
  never unknown (`renderer.ts`:486): `AgreesWithEvaluator` compares link
  predicates unnegated only.

`IndexPlanAdmissionService` and `PolicyCompilationApplicationService` are called
only by tests, and only tests insert `snapshot_group_definition_members`.

## Proofs

For each model there is one inductive invariant (`IInv`, or named for the model,
such as `QueryInv`), from which the properties follow; each action has a lemma,
and under it one step for each conjunct it can disturb. Theorems that end in
`...Safe`, `...Kept` and the like name the property they prove; `PROJECT.json`
lists them. A module about several models extends one and has instances of the
others; each theorem assumes only what its own model demands of its constants.

*MaterializationJobProofs*, assuming only `ConstantsAssumption`: every safety
and action property of the queue's runs, for any jobs, workers, stages and
attempts. None is inductive alone. That an activated job is never sent back
depends on which worker may call `Fail`, hence on its `seq`; that `seq` is right
depends on no other worker having written a checkpoint, hence on attempts being
exclusive. The strengthening is `ClaimInv`: as long as the job row names a
worker's claim, *expired or not*, the worker's sequence is the database's. (With
the expiry test of `HolderViewCurrent` it would not be inductive: a late
heartbeat is refused, but nothing else marks the moment of expiry.) `FullInv`
adds `RestInv`, what a job at rest has left (no wait, no lease, its project in
the data-bearing row), which `OneDataBearingProject` and `TerminalFrozen` need.
`LedgerKept` is the refinement: under the mapping of `KeepsLedger` every action
of queue and workers is a step of `JobLedger` or a stutter. `CheckpointsSafe`
rests on the fencing token: no call but that of the present holder passes.

*RuntimeServing*, assuming only `ServingAssumption`: every safety and
action property of the passing serving runs. `publication_sequence` never
decreases and every move of a serving head or channel advances it, so a
preparation whose recorded sequence is the current one knows the serving heads
and channels as they are (`PrepInv`); therefore commit's compare-and-swaps
succeed together and keep channels with serving heads; and since a preparation
keeps the served members of the groups it does not cut over, and commit retires
only what no serving head reaches afterwards, no release loses a generation.
For the object heads the other revision does the same: the state revision
advances with every cutover and the pointer moves with it, so a candidate head
set whose recorded state revision is the current one is still what the heads
and the version imply (`PrepHeads`). Hence a head's version counts the changes
of its digest, although it is computed at preparation, and the pointer names
the one active head set although head sets come back.

*ControlProofs* is about five modules.

- `MetadataRelease`, assuming `CatalogueAssumption` (what resource and package
  a revision and an entry are of; `NULL` apart): a channel serves its one
  published release; of the releases staged from one head at most one is ever
  published; no publication loses a pin; a package is where its one active
  change brought it, whole, and shares no resource. What was published was
  staged from an earlier control sequence of its channel, and no two from the
  same (`FromEarlierHeads`): a publication compares the head it was staged
  from with the present one and moves the sequence, so all others that were
  staged from it are refused. `NoPinLost` needs that the release that is
  published was gated against the pins of this very head. For packages the
  invariant ties a change to its release (`ChangesPinned`) and an installation
  to its change (`ActiveInstalled`); ownership is asserted when a change is
  created only, so it must count what pending changes will hold (`HoldApart`).
- `ControlLocks`, assuming `LockAssumption` (the transactions have plans):
  a publication commits only for one who is an owner. A transaction holds
  every lock that its plan has taken (`TwoPhase`), so nobody is in the role's
  transaction, which starts with the authorization epoch, while the
  publication is between its check and its end (`OwnerSeen`).
- `CutoverRequests`, assuming `CutoverAssumption` (versions are numbered;
  `None` is no member of the other sets): effects at most once, one result, no
  cutover lost under another, answers about what was asked. The invariant
  follows the preparation: it is prepared with no effect and no answer, or
  committed with one effect and no answer but its result (`Outcome`); the row
  lock excludes two callers that both read it as prepared (`LockHeld`); the
  state revision stands for the active versions (`Heads`), which is why a
  comparison of numbers suffices.
- `Outbox`, assuming `OutboxAssumption` (the retry policy as the code checks
  it, events with a place in their stream, `None` apart): one open attempt,
  order of streams, fenced workers, deliveries for good, and, across the
  network, order at the consumer although deliveries are lost, repeated or
  late. The key is `Reaching`: an event was claimed only after all before it in
  its stream were delivered, and nothing is committed before it later; so what
  is in flight or in the pipe is always of the stream's first undelivered event
  or of one that was applied. The assumption `PowersOfTwo`, that powers of two
  are natural numbers, is the only arithmetic in it: the provers have no theory
  of exponentiation, with which the backoff is computed.

- `ResourceRevision`, assuming `ResourceAssumption` (the bounds are positive
  numbers): no update is lost, revisions past draft are final and refer to
  settled ones only, nothing is validated in an archived project, and who changes
  roles or archives still may. For any principals, resources, contents and
  commands. What was read of a revision is older than it or exact, since its
  content never changes without its etag (`Read`); and a request about the
  project was permitted at the epoch it names, which every change of roles
  moves (`CallSound`). So the two comparisons in the transactions
  stand for the reads that came before them. For `ClosureSettled` the closure is
  the least set closed under stored edges (`ClosureLeast`, `ClosureClosed`): a
  draft that is validated is in no closure of settled edges and not in its own,
  so no closure changes when it gets its edges (`ClosureKept`,
  `ValidateKeeps`). The argument needs no induction along paths.

*WorkerProofs* is about three modules.

- `DurableJob`, assuming `DurableJobAssumption` (policy, integer priorities,
  `None` apart): attempts bounded over all cycles and replays, one open attempt,
  checkpoints in order of sequence and token, one job per key and one result, no
  effect of an expired lease, priority of claims. `Fits` ties a job's record to
  its attempts; `Ordered` its checkpoints to the attempts that made them.
- `HandlerHost`, assuming `HostAssumption` (a pool no larger than its slots,
  which are finite): a call is answered once, a pool that failed hands out
  nothing, and every pending call is in the queue or at one host (`Placed`).
  This is one invariant of queue, hosts and answers together. Its hard step is
  `#drain`, which hands a prefix of the queue to as many free hosts at once:
  the hand-out is an injection, so no call goes to two hosts or none, and what
  stays queued is the rest (`DrainPlaces`). A host whose call was answered is
  free before it is drained to; a dying host answers its call in the same step
  (`Busy`: only a ready host has one).
- `UploadSession`, assuming `UploadAssumption` (a finite group, `None` apart): a
  group is registered whole or not at all (`GroupsWhole`). Registration counts
  the sessions it still holds and compares the number with those it claimed;
  this suffices because what a request holds is part of what it claimed, and it
  claimed the whole group (`ClaimHolds`), though claims lapse and are taken over
  session by session. The object version of a session that is registered, or
  still can be, is in the store from the start and stays there
  (`NeededObjectsKept`), for any uploads, crashes, lost answers and cleanups, but
  for one step, the compensation of the upload that recorded that version and
  did not hear so. Until a version is recorded only its own upload knows it
  (`UploadsApart`), and a cleanup spares what a session names or deletes of
  sessions past their retention, which nobody can claim any more
  (`CleanupHarmless`). Without that exception the property is false, as
  `upload_lost` shows, so nothing stronger can be proved of this code.

*AccessProofs* is about four modules.

- `PolicyGateway`, assuming only `GatewayAssumption`: every property of the
  gateway, for any log, requests, callers, window and cache size. What is
  cached or being loaded is the log's at its epoch and, *unless it is below the
  floor*, not below any answer (`SoundEntry`, `SoundCall`): the floor judges
  everything that stayed behind. Within a process every answer lifts the floor
  to its epoch, so the two stay together; a restart forgets the floor and with
  it all that the floor would have had to judge, so answers do not go back over
  a restart either. That the cache has one entry per request although loads of
  one request overlap is about sequences (`WithoutKeeps`, `StoreKeeps`),
  position by position.
- `PolicyEpoch`, assuming `EpochAssumption`: what `decide` allows was granted at
  the epoch it names, a revocation ends every ALLOW within a TTL of its commit,
  and a process that was told of an epoch decides at it or later. The log of
  commits is a sequence whose times do not decrease, and an entry of a cache
  expires within a TTL of every commit made since its epoch (`GoodEntry`): the
  clock is read before the store, so an entry is dated no later than the first
  commit that could contradict it. The same is kept for the last answer of each
  process, through missed notices, clock faults and a database that is down.
- `RuntimeQuery`, assuming `QueryAssumption`: everything a response shows was
  allowed when its lease was committed; data is answered after its lease was
  released; links come with both ends. A request asks about one resource after
  the other while facts change, so what it may show was allowed at *some* epoch
  of those it was answered for (`QueryDecided`); committing the lease demands
  one epoch and that it is the current one, which makes them all the same
  (`QueryLeased`). The log only grows, so what was allowed at an epoch stays so
  (`QueryLogGrows`).
- `RuntimeIdentity`, assuming `IdentityAssumption` (an issuer gives every token
  an identifier of its own; times are numbers): a token with its proof
  establishes one identity, a proof serves one token, neither after expiry; and
  everyone in the chain was alive and may do what the chain may. A fingerprint
  is on record from the step that establishes an identity until its token has
  expired with the tolerance, and after that it establishes nothing, so pruning
  old records opens no gap. Facts
  about principals only change for the worse (a dead principal stays dead), so
  a snapshot read late refuses everyone who was dead when the request arrived.

*GenerationGC*, assuming only `GcAssumption`: nothing that is needed is
deleted, for any generations, indexes, uploads, plans and retentions. Rows that
were lost cannot be seen by a plan that is made later, so the invariant must say
why they do no harm. Every batch moves the inventory's revision; a generation
can be prepared or activated only at the revision of its admission; so one that
is ready when a batch ends is *settled*, and one that lost rows is rooted nowhere
for good (`GenerationSound`). That the latest successes are whole is not
inductive by itself, since whether a generation is among them depends on the
others: the invariant counts the settled successes before one that lost rows,
of which there are at least as many as are kept (`EnoughAhead`). They were
recent when the batch ran (`RecentAhead`: before any success that is not recent
there are enough that are), a later batch takes none of them or finds as many
before them, and they can become nothing else. An index is dropped when its
plan's generations are collected and the executor finds no other that lives and
uses it; so it takes an index from no generation that has its rows
(`DropIndexStep`).

*AdminRequests*, assuming `AdminAssumption` (`None` is no job): a cancellation
meets the job its caller saw, a key makes one job and one request is told so,
one approval per decision, batches only for the plan presented, no answer
without the permission, errors change nothing. A job keeps its group and every
write raises its version, so what a client was told is older or still exact
(`Known`); `OneMaker` follows the request that found its key unknown from its
first statement to its answer.

*RuntimeActivation*, assuming `ActivationAssumption` (the policy as the code
checks it; what is registered names what exists; `None` apart): every property
of the prototype, for any project. What is ready is whole, certified and of one
version per group; heads and channels agree; an unexpired query reads all of its
activation; references hold; hard limits hold and overage is approved; the heads
move only as seen; a release is served for its window; nothing that was served
lately is collected. The hard part is a plan that is older than its commit. A
plan is void once a request changes the state, but time passes, leases
lapse, and what serves goes on serving. So the invariant says that a current
plan *is* what would be planned now for the time at which it was made
(`PlanCurrent`), which follows from protection reading nothing but the records
and that time (`SameUnprotected`). What is protected is closed under what
activations and generations need, and holds every head, reference and lease
alive at that time, hence every lease alive now (`ProtectedHolds`,
`CommitKeeps`). For retention, service leaves no trace in a record while it
lasts: the invariant (`ServedDated`) says that a generation which serves is
bound by a head, and one that does not is dated no earlier than it last did.

With these, every conjunct of `RequestsTakeEffectOnce`, every conjunct of
`PublicationWhole` but those about `ControlPlaneModel`, of `RevisionsSound` that
is about revisions and roles, all of
`AnswersAuthorized` but what is about compiled SQL, all of `DelegationBounded`,
the uploads' and the collection's of `NothingNeededIsCollected`, and all of
`DeliveriesFenced` but `NoDeadlock` and `CyclesNeedOutOfOrder`, hold for every value of the constants
instead of the instances of `MCControl`, `MCAccess` and `MCStorage`. (They are
listed by component: the properties of the runs are conjunctions over instances
with constants of their own.) The runs of those modules evaluate the assumptions
for their instances, but for those that `WorkerProofs` and `ControlProofs` add
to a model's (that a bound is a number, that `None` or `NULL` is not a record).

*Only model-checked.* Liveness (`JobsSettle`, `CutoversSucceed`,
`WorkSettles`), which is out of the prover's reach with ENABLED and fairness.
The properties of the other components. Among these some will stay so:
`MappingExecution` and `PolicyDocument` are recursive over expressions, as is
what `TypeCompatibility`, `IndexPlan`, `CsvScanner`, `ValueCodec` and
`QueryPolicy` say of compiled data, which needs induction over data;
`NoDeadlock` and `CyclesNeedOutOfOrder` need induction over the waits-for
relation.

## Not modelled

See `components` in `PROJECT.json`. Left out: claim mapping and OIDC discovery,
identity administration, listings and cursors, value orders in queries, HTTP
routing and bodies, the generated read client and the test kit, provenance rows,
estimates of bytes per row, arrays and JSON values in mappings, how a listener
reconnects (only the notifications it misses), start and stop of processes
beyond the worker's. The content of the eight stages other than what moves the
inventory is an output digest in `MaterializationJob`; `ProductionPipeline`,
`BaseStaging` and `QualityReport` model it.

## Plan

What is left to prove, most important first: that the numbers of versions in
`AdminRequests` stay in the bounds of its `TypeOK`; the refinement of one
preparation of `RuntimeServing` by a request of `CutoverRequests`; then the
modules that are only model-checked so far, of which `ProductionPipeline` says most.
