# A TLA+ verification of lambdamicrovms-controller

The repository is an AWS Controllers for Kubernetes (ACK) controller for AWS
Lambda MicroVMs. It reconciles two custom resources (CRs): a `MicrovmImage`,
built and versioned by AWS, and a `Microvm`, one VM run from an image. This
directory holds a model of the code in TLA+, the configurations under which TLC
checks it, and proofs that TLAPS checks.

## 1. The system

### Components

| Component | State it keeps | Operations |
| --- | --- | --- |
| `pkg/resource/microvm` (resource manager) | none of its own: everything is in the CR (spec, `status.microvmID`, `status.state`, conditions, finalizer) and in AWS | `ReadOne` (`sdkFind`), `Create` (`sdkCreate`), `Update` (not implemented), `Delete` (`sdkDelete`), `LateInitialize`, `IsSynced`, `onError`/`onSuccess` |
| `pkg/resource/microvm_image` (resource manager) | the same, with `status.ackResourceMetadata.arn` and the version numbers | the same, with an `Update` that syncs tags and then starts a build; `EnsureTags`, `FilterSystemTags`, `mirrorAWSTags` |
| `manager_factory.go` (both kinds) | `rmCache`, behind a `sync.RWMutex` | `ManagerFor` |
| `delta.go`, `tags.go`, `hooks.go` | none | comparison and conversion |
| `references.go` (both kinds) | none | `ResolveReferences`, `ClearResolvedReferences` |
| `resource.go`, `identifiers.go`, `descriptor.go` | none | adoption (`SetIdentifiers`, `PopulateResourceFromAnnotation`, `MarkAdopted`), finalizer (`MarkManaged`, `MarkUnmanaged`) |
| ACK runtime, controller-runtime (libraries) | work queue, delayed requeues, one worker per key | the reconcile loop, patches of the CR |
| `cmd/controller`, `registry.go` | flags | wiring |

### Interaction

The runtime takes a key from the queue, reads the CR and calls the resource
manager of its account, region and role (`ManagerFor`):

    CR not being deleted                     CR being deleted
      reset conditions, resolve references     ReadOne
      ReadOne                                    not found  -> remove finalizer
        not found -> finalizer, Create, patch    found      -> Delete
        found     -> delta? Update, patch                      done  -> remove finalizer
      LateInitialize (reads again), patch                      retry -> status patch
      ensure conditions, patch status

Each request to AWS or to the API server can fail, lose its answer or be the
last thing a crashing controller did; between any two of them the user edits or
deletes the CR and AWS moves the resource on. An error that is not terminal is
requeued, a terminal one waits for an edit, a success for the ten-hour resync.

### What is hard, and what makes each component correct

* **Microvm.** The identifier of the VM exists only in the answer to `RunMicrovm`
  until the final status patch; the VM suspends, resumes and terminates by itself
  (idle policy, maximum duration); AWS keeps terminated VMs; there is no update.
  Correct means: never two VMs, no VM lost, the finalizer neither early nor
  stuck, and conditions that tell the truth about edits and failures.
* **MicrovmImage.** Builds are asynchronous and fail; the spec is compared with
  the latest *active* version; tags must not rebuild; names are unique. Correct
  means: drift is corrected, no rebuild without a cause, tags of AWS untouched,
  Synced tells the truth, deletion does not lose the image.
* **References and adoption.** A Microvm waits for an image, and both wait for an
  IAM role, without any notification between their workers: each resolves its
  references by reading another CR at the start of a reconciliation, and what it
  read is stale when it acts on it. Correct means: nothing is created from a
  reference that was not ready, a resolved value never stays in the spec, an
  adopted image is never built anew, a chain of CRs starts in the end and can
  always be deleted.
* **Conversions.** The request, the answer to it and the later read convert the
  same fields in three separate pieces of code; AWS resolves what it is sent. Correct
  means: nothing is truncated or dropped on the way, and a value that comes back is
  neither a difference for ever nor one that AWS would refuse.
* **ManagerFactory.** Check-then-act over two lock acquisitions by concurrent
  workers. Correct means: no unsynchronized map access, the right manager, bounded
  duplicates, no deadlock.

`PROJECT.json` lists the hazards line by line.

## 2. Modules

| Module | Models |
| --- | --- |
| `Microvm.tla` | one Microvm CR, the worker that owns its key, the VMs in AWS |
| `MicrovmImage.tla` | one MicrovmImage CR, its worker, the image in AWS |
| `References.tla` | a Microvm CR, the MicrovmImage CR it refers to, the role both refer to, one worker for each, adoption of the image |
| `Conversions.tla` | one spec field on its way to AWS and back, for every kind of field |
| `ManagerFactory.tla` | concurrent `ManagerFor` calls |
| `Managed.tla` | the abstract promise that `Microvm` and `MicrovmImage` implement |
| `MCMicrovm.tla`, `MCMicrovmImage.tla`, `MCReferences.tla`, `MCConversions.tla` | instances for TLC: which disturbances may occur |
| `MicrovmProofs.tla` | theorems about `Microvm.tla` |
| `MicrovmImageProofs.tla` | theorems about `MicrovmImage.tla` |
| `ReferencesProofs.tla` | theorems about `References.tla` |
| `ConversionsProofs.tla` | theorems about `Conversions.tla` |
| `MicrovmRefinement.tla`, `MicrovmImageRefinement.tla` | the proofs that both implement `Managed.tla` |
| `ManagedProofs.tla` | what the promise alone implies |
| `ManagerFactoryProofs.tla` | theorems about `ManagerFactory.tla` |

### Microvm

`cr` and `exists` are the API server's copy; `desired` and `latest` the two
resources the worker holds, which become stale while it works; `pc` names the
next request it will send; `vms` is AWS; `queued` and `timer` are the work queue
and a delayed requeue. One action is one request together with the local
computation that follows its answer:

| Action | Code |
| --- | --- |
| `Dequeue` | runtime: read the CR, reset conditions |
| `FindVM`, `FindNothing`, `FindFails` | `ReadOne`/`sdkFind`, then `newResourceDelta` and `sdkUpdate` (not implemented, hence Terminal) |
| `Manage` | the finalizer patch (`MarkManaged`) |
| `Run`, `RunFails`, `RunAnswerLost` | `sdkCreate` |
| `PatchSpec` | the spec patch after creation and after late initialization |
| `LateRead`, `LateReadFails` | `LateInitialize` |
| `PatchStatus` | `ensureConditions` (`IsSynced`) and the status patch |
| `DelFind*`, `Terminate*`, `Unmanage` | deletion: `ReadOne`, the guards of `sdkDelete` (`isTerminated`, deletable states), `TerminateMicrovm`, `MarkUnmanaged` |
| `UserEdits`, `UserDeletes`, `Crash`, `TimerFires`, `Progress`, `Suspend`, `Resume`, `SelfTerminate`, `Purge` | the environment |

Spec fields are abstracted by how the code treats them. `echo` is overwritten by
`sdkFind` (execution role, idle policy, image version), `late` is in addition
filled by `LateInitialize` (maximum duration, connectors), `hidden` is never
read back (image identifier, logging, run hook payload).

### MicrovmImage

The same loop. `image` holds the AWS state, the tags, the configuration of the
latest active version (`active`) and of the last one requested (`wanted`).
`sdkUpdate` is the sequence `untag`, `tag`, `update`: `RemoveTags`, `AddTags` and
`AfterTags` decide which of the calls are needed. Reading the active version is
part of `FindImage`: a version never changes, so the second request of `sdkFind`
adds only ways to fail. `rebuilds` counts accepted `UpdateMicrovmImage` requests.
Tags are a set: a changed value is a tag that is added over the old one. That a
taken name is a `ValidationException` is what README.md says under "Common
failures".

### Managed, and its two implementations

`Managed` knows four things of a custom resource: its `phase` (new, managed,
removed), whether its deletion was `asked` for, which identifier is on `record` in
its status, and the life of the resource behind each identifier (`cloud`). Its
actions say what may happen at all: nothing is created without the finalizer or
while the recorded resource might still be known, a record is never erased and
replaced only when the cloud has forgotten the old one, a managed CR goes only
after its deletion was asked for and the recorded resource may be released. How
reads, retries, patches and crashes lead there is left open.

`Microvm` and `MicrovmImage` each hold an instance `Promise` with the refinement
mapping, and the property `KeepsPromise == Promise!Spec`. The two differ in what
may be handed out (a VM identifier once, an image name again when the image is
gone) and in what may be released (a VM that has terminated, an image whose
deletion AWS accepted). The mapping forgets `pc`, the worker's copies, the
conditions, the queue and the spec; each request that creates something maps to
`Begin`, the status patch to `Record`, the removal of the finalizer to `Remove`,
the accepted delete request and what AWS does by itself to `Advance`.

### References

Two workers and three CRs. Where `Microvm` and `MicrovmImage` take one step per
request, this module takes one from `ReadOne` to the request it leads to, and
one more to the status patch, but keeps every read of another CR apart:

| Action | Code |
| --- | --- |
| `Dequeue` | runtime: read the CR, `validateReferenceFields`, whose error is returned after the resolution |
| `Resolve` | `resolveReferenceFor...`, `getReferencedResourceState_...` for one field |
| `FindNothing`, `Compare`, `Manage`, `Create`, `CreateFails`, `Delete` | the loop of the other two modules, coarser |
| `FieldsMissing`, `Adopt` | `PopulateResourceFromAnnotation`, `SetIdentifiers`, `MarkAdopted` and the patch of what was read |
| `RoleChanges`, `UserEdits`, `UserDeletes`, `Progress`, `Break`, `DeleteOutside`, `Crash` | the environment |

`MergeSpec` clears the resolved references of both sides
(`ClearResolvedReferences`) before they are compared, as the runtime does with the
resource manager's copy. `offered` is a history: what each field's reference could
have been resolved to since its worker started.

### Conversions

`Init` picks one field, and the behaviour follows it: `Request` is the payload
(`newCreateRequestPayload`, `newUpdateRequestPayload` with their range checks),
`Resolve` what AWS makes of it, `Answered` the merge of the answer in `sdkCreate` and
`sdkUpdate`, `Refreshed` the read in `refreshSpecFromActiveVersion`, `Stored` the
merge patch with `omitempty`, `Differ` the comparison in `newResourceDelta`. Two
texts, two versions and an `int32` of two bits stand for the values. Fields that
are converted like a modelled one (`additionalOsCapabilities`, `codeArtifact`,
`environmentVariables`, the other hooks) are not repeated.

### ManagerFactory

One action per lock operation and map access of `ManagerFor`. A worker waiting
for the write lock keeps new readers out, as `sync.RWMutex` does.

An operator of these modules that nothing uses is a faulty form of the
definition it precedes. Each property of a passing run is violated when one of
these replaces its correct form (`mutants` in `PROJECT.json`).

## 3. Runs

Disturbances are bounded by a set of counts, `Allowed`, which the MC modules
define: user edits, suspensions, retryable errors, rejections, lost answers or
patches, crashes, failed builds, changes from outside. Everything else (deletion,
self-termination, a VM being forgotten, any interleaving with AWS) is unbounded.

| Run | Shows |
| --- | --- |
| `microvm_safety` | any two disturbances of different kinds, two VM identifiers |
| `microvm_liveness` | deletion completes, edits are reported, reverts clear the report |
| `image_safety` | any two disturbances, two of them edits or failed builds if need be |
| `image_liveness` | deletion completes, drift is corrected, up to three disturbances |
| `factory` | two workers, two keys, three calls each |
| `references_safety` | a reference that is not ready creates nothing, resolved values do not leak, adoption builds nothing: the role comes up, then up to two of edits, deletions, failures, rejections, crashes |
| `references_liveness` | the chain role, image, Microvm starts; deletion completes without what is referred to |
| `conversions` | every field with up to three edits, changes from outside or lost answers |
| `microvm_hidden` | violated: editing `imageIdentifier`, `logging` or `runHookPayload` is not reported |
| `image_orphan` | violated: a deletion that fails after it was accepted has no CR left |
| `image_fix` | violated: the fix of a first build that failed is never built |
| `conversions_adopt` | violated: an adopted image with `logging.disabled` loses it with the next rebuild |

The violated properties quote the documentation; `findings` in `PROJECT.json` has
the lines. Four more disagreements follow from the same models and have no run of
their own:

* A crash, or a lost answer, after `RunMicrovm` leads to a second VM: the request
  has no idempotency token and the identifier was not stored. `SingleVM` and
  `LiveVMsOwned` therefore exclude such losses.
* A VM that terminates between the two reads of a reconciliation leaves a CR that
  is neither Synced nor Terminal: late initialization works on a copy without the
  condition.
* A build that failed is requested again at every requeue without an edit, since
  the active version still differs from the spec (`RebuildHasCause` counts a failed
  build as a cause).
* Workers that miss the cache at the same time create one manager each for the
  same key (`DuplicatesBounded` says how many).

**Why the bounds suffice.** Two values of a field distinguish equal from
different; with NIL they also distinguish omitted, defaulted and overwritten.
Two VM identifiers are what it takes to have a duplicate or to lose one VM for
another. Each property relates at most two faults (a failed call and an edit, a
lost patch and a crash), and after a fault the worker starts a reconciliation
from the CR, so a second one covers a fault during recovery. In `References` one role
ARN is replaced by another and one image by another, so two of each are needed, and
one VM suffices because no property there relates two. In `Conversions` a value
and its change, or its change and a lost answer, take two causes; the third allows
an edit after them; both ends of the integer range and the values just beyond are
among the inputs. `hidden` takes no
value in the runs that do not look at it: the code never branches on it.

**Deadlock** is not checked: the system stops when the CR is gone or at rest.

**Fairness.** Weak fairness of the worker (the queue is served while it is not
empty), of timers (delayed requeues fire) and of what AWS has begun (a pending VM
starts, a terminating one terminates, a build ends). In `References` each of the two
workers is fair by itself, as controller-runtime gives each controller a queue and
goroutines of its own. Nothing is assumed of users,
suspensions, failures and crashes. In `ManagerFactory` strong fairness of the
workers stands for a mutex that is granted in the end to a goroutine that waits
(`sync.Mutex` starvation mode, and a writer's priority over later readers).

**Conditions in properties.** `NeverAbandons`, `TerminalHasCause` and both
`SyncedMatchesSpec` exclude lost patches: the runtime does not report a failed
status patch, so a terminal outcome can then be lost. `SingleVM` excludes crashes
and losses, see above. `SyncedMatchesSpec` of images excludes
changes from outside, which the controller sees only at its next resync.
`StoredSpecStaysValid` and `InvalidNotCreated` exclude edits by the user, who can
write an invalid spec at any moment. `RebuildKeepsField` speaks of fields the user
set or that were adopted: a field left to AWS may be resolved anew.

## 4. Proofs

TLAPS checks every theorem for all values of the constants. The assumptions are the
named ones of the modules (`MicrovmAssumption`, `ImageAssumption`,
`ReferencesAssumption`, `FactoryAssumption`, `ConversionsAssumption`, `NilAssumption`:
NIL is no value, a default is one, the three kinds of tags are disjoint, so are images
and VMs, `Allowed` is a set of counts, an `int32` includes zero); TLC evaluates them on the runs.

**Microvm** (`MicrovmProofs`): for every set of identifiers, values and payloads,
every `LateStates` and every bound on the disturbances,

* `TypeCorrect`: `Spec => []TypeOK`;
* `FinalizerSafety`: `Spec => []FinalizerGuardsVM`;
* `SingleVMSafety`: `Spec => []SingleVM`;
* `RecordedVMSafety`: `Spec => RecordedVMKept`;
* `ConditionsExclude`: `Spec => []TerminalExcludesRecoverable`;
* `SyncedSafety`: `Spec => []SyncedMatchesSpec`;
* `AbandonSafety`: `Spec => []NeverAbandons`;
* `TerminalSafety`: `Spec => []TerminalHasCause`, provided `LateStates = VMStates`.

The first four rest on `Invariance` (`Spec => []IInv`), where `IInv` strengthens the
invariants until it is inductive. `IdTracking` says how the identifier in the
worker's copies relates to the one in the CR at each `pc`: the same, or the CR's is
forgotten by AWS, or (while the worker carries a new VM) not stored yet.
`FinalizerHeld` says that whoever names a VM has a finalizer, and that the CR
exists while the worker acts on it. `LiveVMsOwned` says that without a loss a live
VM is the CR's or the one being carried. Without the first, a stale copy could
overwrite `cr.id`; without the second, a deletion by the user in the middle of a
creation could remove the CR; without the third, `SingleVM` would not be
preserved by `Run`. One lemma treats each group of actions; `Next` is split by
`CASE`. `ConditionsExclude` adds `ConditionsInv`: `updateConditions` leaves
Recoverable alone on a terminal error, so each copy that can still meet one must
carry neither condition, because it was reset when the reconciliation started or
cleared by the call before.

The last three rest on `ReportInv`, which follows the spec from a read to the status
that reports it. `Current` says that a copy has the spec of the CR unless an edit has
queued the key; it is what makes a comparison with a stale copy harmless, because
another reconciliation will follow. `Fits` says that what the worker carries describes
its VM, and `Matches` that without an edit the stored spec is that of the VM: the spec
patches after `sdkCreate` and `LateInitialize` establish it, and without it defaults
that AWS chose would read as edits. `StatusInv` is what `PatchStatus` is about to
write: an outcome without error has a spec that was current, a terminal one is
reported or its VM is over, and a Terminal has a cause. It also gives the requeue
decision its reason: only a terminal error ends without a timer. `Frame` collects what
no step does (bring a VM back, change the spec of a VM, uncount a disturbance), so
that each action's proof is about the worker's copies alone. `TerminalSafety` needs
its condition: a `LateStates` without PENDING refutes the property (see 5), so this is
a fact about the code and not a weakness of the proof.

**References** (`ReferencesProofs`): `TypeCorrect`, `AdoptionSafety`
(`Spec => []AdoptedNotBuilt`), `InvalidSafety` (`Spec => []InvalidNotCreated`),
`ReadySafety` (`Spec => CreatedFromReady`) and `ValiditySafety`
(`Spec => StoredSpecStaysValid`). The invariant has a part for each worker and one for
AWS. `AdoptionKnown`: what a worker knows of the adoption annotation is still true,
and a worker that adopts goes no further than its read; without it a creation could
be under way for an image that is being adopted. `ValidActs`: a worker sends requests
only with a spec it found valid, or for a CR that may go on without its references.
`OfferTaken`: a resolved value was offered since the worker took the key, although
what it came from may be gone by now. `CopyCurrent`: as long as nobody edits, the
references of a copy are the CR's, so that a verdict reached on the copy holds for
the CR, and the role of an image is known before anything is created.
`ImagesHaveRoles` is needed by the adoption, which copies the role of the image in AWS
into the spec. The two workers and the role's controller change each other's
conditions at any moment; `Observe`, a part of every step, records that in `offered`.

**MicrovmImage** (`MicrovmImageProofs`): `TypeCorrect`, `AwsTagsSafety`
(`Spec => []AwsTagsKept`), `FinalizerSafety` (`Spec => []FinalizerGuardsImage`),
`RebuildSafety` (`Spec => []RebuildHasCause`) and `SyncedSafety`
(`Spec => []SyncedMatchesSpec`).
`TypeInv` needs to know where the worker's copies still carry a build configuration
(`WorkerBuilds`: a merge or a request never writes an unset one) and that the tags
of AWS were mirrored into the desired copy before any tag is removed
(`TagsMirrored`), which is what `AwsTagsKept` depends on and what no state of the CR
shows. `Protocol` is the counterpart of the Microvm's: `FinalizerHeld`, `ArnTracking`
(which copies know the ARN that the CR knows, and that the finalizer is about to be
removed only from an image AWS has begun to delete) and `LiveImageOwned` (without a
loss the image is the CR's or being carried to it).

`RebuildHasCause` counts over the whole history, so it needs a measure of what the
present state may still cost. The difference between the CR and the image has two
parts: `Unseen`, what became of the CR since the worker read it, and `Owed`, what
the worker's copy asks beyond what AWS was last asked for. Each is worth at most one
rebuild: `RebuildsOwed` says `rebuilds + Ones(Unseen) + Ones(Owed) <= Causes`. A read
turns the one into the other, a request settles `Owed`, and whatever makes one of
them true again (an edit, a failed build, an outside change, a lost answer, a crash)
is counted. `VersionsKnown` says that AWS was asked for every image there is and that a
built one has an active version to compare with. `SyncedMatchesSpec` follows from `SyncInv`, `Calm => Synchronized`. `Calm`
is the condition of the property (no loss, no outside change) for a CR that is not
being deleted. `Synchronized` has a part for each place where the claim could be wrong:
`CopiesCurrent` (the spec differs from the worker's copy only after an edit, and then
the key is queued), `StatesTracked` (a copy that calls the image built has the
version and the tags that AWS has), `TagsTracked` (what `syncTags` knows of the tags
between its calls) and `StatusTrue` (the claim itself, as the CR in the API server makes it).

**Refinement** (`MicrovmRefinement`, `MicrovmImageRefinement`): `Spec => KeepsPromise`
for both. Most steps leave the abstract state alone (`Silent`); each of the others
has a lemma that names the abstract action it is. The images' proof needs nothing
beyond `IInv`, the Microvm's adds `Tracking` (deleting actions run only for a CR that
was deleted, and what the worker reports lacks an identifier only if none is recorded). `PromiseSound`
and `ManagedProofs!PromiseSuffices` give what the promise is for: no recorded resource
is left behind by a CR that is gone, until it is released.

**Conversions** (`ConversionsProofs`): for every set of texts and versions and every
range of an `int32`, `HonouredSafety` (`Spec => []Honoured`), `DriftSafety`
(`Spec => []NoPerpetualDrift`) and `KeepSafety` (`Spec => RebuildKeepsField`). The
proof goes by kind of field once and never again: `Carried` collects the request and
AWS's resolution of it into one relation, `Carries`, between a spec value and an AWS
value. From it follow three lemmas that say what the three copies of the conversions
owe each other. `Settled`: what an answer leaves in the CR does not differ from the
next read. `AgreedHonoured`: a spec that does not differ from a read is what AWS does.
`AgreedKept`: such a spec is sent again to the same effect. `Follows` is the part of the
invariant that links the CR to the user: between edits the spec is what was written,
up to an empty enum that the answer turned into none, or a field left to AWS. The
drift count is the one of the images, `rebuilds + Ones(Drifted) <= causes`.

`DriftSafety` assumes that no image with disabled logging is adopted: its form in the
CR cannot say so, which is the disagreement that the run `conversions_adopt` shows.
`KeepSafety` assumes in addition that AWS reports no adopted image without
`resources` or `egressNetworkConnectors`: the merge patch would leave the field out,
and a rebuild would ask for the defaults. `HonouredSafety` needs neither.

**ManagerFactory** (`ManagerFactoryProofs`): for every set of workers and keys and
every number of calls, `FactoryTypeCorrect`, `ReturnsOwnManager`
(`Spec => []ManagerMatchesKey`), `DuplicatesAreBounded` (`Spec => []DuplicatesBounded`)
and `MapIsGuarded` (`Spec => []NoMapRace`) from `FactoryInvariance`. `LockInv` says
which worker is inside which lock, which gives `NoMapRace`. `DuplicatesBounded` is
not inductive: `CacheInv` adds that a key some worker created for is cached, and
`MissInv` that a worker on its way to the creation has not created one for that key,
since its lookup came before and found nothing.

**Only model-checked**: liveness, which is out of the prover's reach. Every other
property of a passing run is a theorem.

## 5. Not modelled

* The ACK runtime and controller-runtime are not in the repository; the modules
  model the order of their calls, and `PROJECT.json` marks these definitions
  external. A key is processed by one worker at a time, as controller-runtime
  guarantees; read-only resources, deletion policies and feature gates are left out.
  References are assumed to be resolved once per reconciliation.
* AWS is modelled by what the code relies on. Assumed, since the code does not
  tell: answers of create and update calls carry the defaults AWS chose, a deleted
  image is answered with `ResourceNotFoundException`. That AWS reports the maximum
  duration of a pending VM is assumed in the runs; with `LateStates` that excludes
  PENDING, a user's value is compared with nil before late initialization can fill
  it in, and `TerminalHasCause` fails.
* In `References`: namespaces (`references.go` lets a reference name another one), a
  reference without a name (it behaves as a CR that does not exist), and requests one
  by one (see `Microvm` and `MicrovmImage`). In `Conversions`, a worker's
  interleavings with others: one field, one worker.
* Adoption of a Microvm and the `adopt-or-create` policy, which differ from the
  modelled adoption only inside the ACK runtime; `SetIdentifiers`, which serves
  the runtime's `AdoptedResource` API.
* `ackcompare.HasNilDifference` is taken by its name; if it counts an empty map as
  nil, adding `disabled` beside `cloudWatch` goes unnoticed as well.
* Wording of messages, metrics, logging, ARNs' format, secrets, the contents of
  spec fields, flag parsing and wiring (`cmd/controller`, `registry.go`), generated
  API types and deep copies, manifests, examples and end-to-end tests.

## 6. Plan

1. The safety half of the liveness properties, which TLAPS can prove: a worker that
   rests with no timer and nothing queued has reached the goal or has reported why
   it cannot (`DeletionCompletes`, `DriftCorrected`, `ChainStarts`). For a Microvm
   `AbandonSafety` is such a theorem already.
2. Adoption of a Microvm, and a run of `Microvm` with `LateStates` that exclude
   PENDING as a documented disagreement, should AWS document such a state.
