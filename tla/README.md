# Verification of cpodoperator

TLA+ modules of the CPod operator and of its portal synchronizer, the TLC runs
that check them on small instances, and TLAPS proofs for every instance. Paths
below are relative to `src/`.

## 1. The system

| Component | State | Operations |
|---|---|---|
| CPodJob controller `internal/controller/cpodjob_controller.go` | none of its own: the API server, informer caches, a work queue | `Reconcile`: create the claims, the base job (MPIJob or PyTorchJob) and the upload Job, copy what becomes of them into `status.conditions` |
| Job conditions `pkg/util/status.go` | a slice of entries, one per type | `UpdateJobConditions`, `setCondition`, `filterOutCondition`, the predicates |
| SyncJob `internal/synchronizer/syncjob.go` | `createFailedJobs` in memory | every period: list the CPodJobs, ask the portal, create what is missing, delete what is not wanted |
| CPodObserver `internal/synchronizer/cpodobserver.go` | none | every period: put the job states and node resources into a payload and send it on a channel |
| Uploader `internal/synchronizer/uploader.go` | `cachedPayload` | every period: take a payload if there is one, post the last one it took |
| Manager `internal/synchronizer/manager.go` | a channel of capacity 1 | one goroutine per runnable |
| Portal client `pkg/provider/sxwl` | none | `GetAssignedJobList`, `HeartBeat`, over HTTP with a timeout of 5 s |
| ModelStorage controller `internal/controller/modelstorage_controller.go` | none of its own | `Reconcile`: ask the hub for the size of a model, create a claim and a download Job, report the phase. Its set-up is commented out in `cmd/operator/main.go:124` |
| Model hub `pkg/modelhub` | none | `ModelSize` over HTTP, `ModelGitPath` |
| Resource types, metrics, start-up, generated code | - | no behaviour the others depend on |

How they interact. Users and SyncJob create and delete CPodJobs. The controller
reads them, and everything it owns, from caches that lag behind, and writes to
the API server. The training operators, the volume provisioner, the Job
controller and the garbage collector change the objects it creates. SyncJob and
the observer read CPodJobs straight from the API server
(`cmd/portalsynch/main.go:60` makes a client without a cache). SyncJob and the
observer share `createFailedJobs`, observer and uploader the channel. The
ModelStorage controller writes the phase that the CPodJob controller waits for in
`CheckArtifacts`, through a conversion of the API server (section 5).

What is hard here: reconciling from stale caches; a status that is written at
the end of a reconcile from a version read at its start; objects created in one
reconcile and noticed in a later one, with a crash in between; PyTorchJobs,
claims and upload Jobs, which raise no event, so that progress rests on errors
that put the name back (`SetupWithManager` watches CPodJobs and MPIJobs only);
names that are used again while the predecessor's objects are being collected;
SyncJob's two snapshots, which age as its calls go out; payloads that are cached,
repeated, lost and late. `PROJECT.json` lists every hazard with its line.

What makes each component correct:

* controller: the conditions never contradict each other; a verdict and an
  upload outcome are true, final and, in the end, reported; nothing starts before
  what it needs; no CPodJob is forgotten.
* conditions: the slice acts as a map from type to status.
* SyncJob: a job that the portal keeps assigned is never deleted and is created
  or noted as failed; a withdrawn one goes.
* heartbeat: the portal is told only what has come true, and in the end all of it.
* synchronizer: no payload mixes two moments of a job; a job that stays assigned is
  heard of at the portal, one that is withdrawn is forgotten there.
* ModelStorage: "done" means that the model is in its volume, and stays; every model
  that can be downloaded is.

## 2. Modules

| Module | Models |
|---|---|
| `JobConditions` | `status.go` on a function from condition type to status, and `parseStatus` |
| `ConditionList` | `status.go` on the slice itself, with reason/message and transition time; the loop of `filterOutCondition` is a recursive function of its rounds |
| `JobLifecycle` | abstract: the stages a user sees a CPodJob go through |
| `CPodJobController` | the controller and everything it races against |
| `SyncJob` | a synchronization round, the portal and the cluster around it |
| `Heartbeat` | observer, channel, uploader, posts under way, the portal's view |
| `CPodSystem` | SyncJob, observer and uploader in one process, over the same jobs |
| `ModelStorage` | the ModelStorage controller, the hub, the downloads |
| `Sizing` | the arithmetic of claims, GPUs and model sizes |
| `MCController`, `MCConditionList` | the small instances |
| `*_proofs` | the theorems and their proofs |

`ConditionList` justifies the use of `JobConditions` in the other modules
(`ConditionList_proofs!ActsAsMapAlways`).
`CPodJobController` implements `JobLifecycle`, and `SyncJob` and `Heartbeat` use
`JobLifecycle` as what CPodJobs do, so they need not model the controller; that
SyncJob and the whole process keep to it is a theorem, too.
`CPodSystem` composes `SyncJob` and `Heartbeat` (INSTANCE) and implements `Heartbeat`,
whose environment assumes no less than SyncJob does. `CPodJobController` takes from
`Sizing` whether the API server accepts a claim.

### CPodJobController

An action is the code between two accesses to the API server or a cache; the
environment may move between any two of them.

| Action | Code |
|---|---|
| `Start`, `Skip` | the name leaves the queue, `Get`, `needReconcile` (94-118) |
| `GetBaseJobFails`, `GetBaseJobNotFound`, `UpdateStatus` | `GetBaseJob` with its three results (119-144), `GetBaseJobStatus`, `UpdateStatus` |
| `GetCKPTPVC`, `GetModelSavePVC`, `CheckArtifacts`, `CreateBaseJob` | the pieces of `CreateBaseJob` in their order |
| `UploadSavedModel` | `uploadSavedModel` |
| `Finish` | the deferred status update, and what the result of `Reconcile` does to the queue |
| `WatchCPod`, `WatchBase`, `WatchPvc`, `WatchUpload` | informers |
| `Admit` | `onOwnerCreateFunc` as the Create predicate, which writes Created into the cached object after the cache has it |
| `Crash`, `Restart` | the process; a panic (`pc = "panicked"`) ends in the same `Restart` |
| `CreateCPodJob` ... `UploadGivesUp` | users, garbage collector, provisioner, training operators, Job controller |

`w` is the CPodJob that `Reconcile` read, with its status then (`old`) and now
(`conds`); `retry` says that it is going to return an error or a Requeue. A write
is answered "ok", "refused", or "lost": done, and the caller does not know. The
API server accepts a status only for the version that was read (`Current`).

Abstractions. A cache catches up with an object in one step, which skips versions
in between; an observer of the present state only ever sees more that way. The
spec of a name is constant: users do not edit a CPodJob, and one that is created
again asks for the same. Sizes are in MB: zero is "not asked for", and from 2 GB to
4 GB the API server refuses (`Claimable`). Paths and names are set or not. Contents of
the objects (images, commands, environment, replicas, RDMA devices, node selectors)
are left out, they decide nothing here. `artifact` says that the
dataset and the model of a job exist and are "done"; a cache that lags behind it
is the same as a later download. Faults of reads are missing where a failed read is an
error that leaves everything as it was and puts the name back, which a refused write
does, too. One is not returned: when the claim of the pretrained model cannot be read
(277-283), any error other than that it is not there is dropped, and the base job is
created with a volume that names no claim. That one is in `CheckArtifacts` (`pc = "bare"`);
the training of such a base job cannot start (`"stuck"`).

### SyncJob

`List`, `Fetch`, `RejectNext`/`CreateNext`, `CreatesDone`, `DeleteNext` and
`DeletesDone` are `Start` from one call to the next; `seen` and `wanted` are its two
snapshots, `rest` what the loop still has to go through. `kind` says how a create
ends that the API server decides on: by type check, by a CPodJob that has the name
and not the label, or by what is there. The portal's list is a set of names in
any order, and it withdraws each name once. The portal assigning a name again
after that is part of the model.

### Heartbeat

`GetJobStates`, `AddCreateFailed`, `Send` are the observer; `Take`, `Post` the
uploader; `ArrivesLate` a post that the client gave up and that the portal gets
after all. `State` is the per-job part of `getJobStates` with the time limit.
Nodes, GPUs and artifact lists of the payload are left out: they are read and
passed on. That reading them may fail is kept. `JobCreated`, `JobRemoved`, `CreateFailed`
and `SyncJobFault` are what SyncJob and users do, as far as the heartbeat can see.

### CPodSystem

The variables of `SyncJob` and `Heartbeat` side by side; `life`, `buffer` and `faults`
are shared. `SyncRound` is a step of SyncJob, with `Forgets` for the bookkeeping of a
removed CPodJob; `Observe` and `Upload` are Heartbeat's; `Restart` is both at once, for it
is one process. Jobs have no time limit here, on which nothing but `State` depends.

### ModelStorage

An action is again the code between two accesses. `Start` and `Drop` are `Get` and
IgnoreNotFound; `HubFails`, `ModelMissing`, `ModelFound` what the hub answers (an answer without Data, which is dereferenced at
`modelscope.go:107` all the same, ends the process: `Crash`);
`WriteMissing`, `WriteClaimed`, `WriteSyncing`, `WriteForget`, `WriteDone` the five status
updates, which differ in what Reconcile returns when they fail; `CreateClaim` and
`CreateJob` the two creates; `Look` the read of the Job from the cache. `repo` is what
the hub has of a model. One whose files are all in folders has size 0, because
`Query()` returns a copy (`modelscope.go:79`) and `Recursive` is never sent; its claim
is refused. A Job that the cache does not show yet has its name taken back, and the
next round finds it and records it again; `MaxVersion` bounds how long the cache lags.
Users remove ModelStorages and Jobs, and leave claims alone.

### Sizing

`ClaimMB` is `int64(x*1024*1024)` of an int32 `x`; `Granted` is what becomes of the GPUs a
portal job asks for, the CRD's default for an omitted zero included; `ModelSize` is
the ceiling in GB of the bytes at the top level of a repository, which is all that the
hub is asked for (`modelscope.go:79`); it is computed in float64, which is exact below
2^53 bytes. `Sizing_proofs!Int32` is Go's int32, against which `ClaimMB` is proved.

## 3. Runs

| Run | Shows | Bounds |
|---|---|---|
| `once` | safety, refinement and liveness of the controller | one name used once, six kinds of spec, two faults, upload limit 2 |
| `reused` | coherence, wake-ups, refinement and the launch of the successor when a name is deleted and created again | two uids, one removal, one fault, three kinds of spec |
| `list` | the slice acts as the map, and its transition times move with the statuses | four calls, two texts |
| `sync` | safety and liveness of SyncJob | two jobs, one fault |
| `heartbeat` | safety and liveness of the heartbeat | one job, removed once, two stages after "created", one fault |
| `system` | payloads, refinement and liveness of the whole process | one job that waits or has ended, removed once by a user, one fault |
| `storage` | safety and liveness of the ModelStorage controller | one name with two uids, its Job removed once, one fault |
| `failed_trains`, `succeeded_other`, `upload_silent`, `no_claim`, `sync_created` | each a disagreement of code and comment (section 6) | the smallest instance |

Why the bounds are enough. Nothing relates two CPodJobs except the queue and the
worker, and what could go wrong there, a lost wake-up or a mixed-up verdict, is
proved for any number of names (`NoLostWakeupAlways`, `VerdictOfOwnJobAlways`); the same
holds of ModelStorages. Six specifications take every branch of `CreateBaseJob`, a
claim that is too large included. Two faults allow a failure while recovering from
another: a lost answer followed by a crash, a refused update followed by a conflict. An
upload limit of 2 tells reaching the limit from exceeding it. Two uids are a name
and its successor. In `ConditionList` a verdict meets a Running entry, and an upload
concludes, within three calls. In `sync` one job can be missing while another is
deleted; a fault in one round is over in the next, and nothing but `createFailedJobs`
is kept from round to round. In `heartbeat` "running" is a stage on the way and
"uploadFailed" an end that shows as something else; payloads treat all stages alike,
and `NeverAheadAlways` is for all of them. In `system` it matters whether a job has
a CPodJob, whether that has ended (SyncJob then lets it be), and in which of the two
lists a payload has it; no payload relates two jobs. In `storage` any one of the updates and creates fails.

Deadlock is not checked in the runs of the controller and of `list`, where a job
whose verdict is in, or a history that has ended, really stops; it is checked in
those of `SyncJob`, `Heartbeat`, `CPodSystem` and `ModelStorage`.

Preconditions. `VolumesBeforeLaunch`, `VerdictOfOwnJob` and `UploadReportedAsIs`
speak of the first CPodJob of a name, and are checked in `once` only: a later one can take
what its predecessor left for its own, which is finding `succeeded_other`. What `reused`
asks of the later one is that it is coherent, awake, seen to start afresh
(`ImplementsLifecycle`), and gets a base job of its own (`EventuallyLaunched`).
`UploadReportedAsIs` says of an upload that is reported as lost only that pods of it were
lost, which is as much as the code knows (section 6). `FailedHasNoCPodJob` is
stated for histories without a fault, because a lost answer breaks it
(`sync_created`). `NeverAhead` and `FinishReported` leave out jobs with a time
limit, whose status the observer overrides. `BothOnlyIfLost` allows one fault: after a
lost answer and a restart an old payload shows what `createFailedJobs` no longer has.
The properties of `ModelStorage` speak of the first object of a name, for the same
reason as above, and its `NoLostWakeup` of histories without a fault, because after one
failed update nothing but a resync wakes the object. `Downloaded` asks for a Job whatever
fails, and whenever the Job has gone, but not that its pod can start: one failed create
leaves the name of a claim that is not there.

Fairness. The worker, the informers and the restart of a killed process are
scheduled by the Go runtime and the kubelet: weak fairness. A name in the queue
is reached because the queue is first in, first out, although `Start` is disabled
while the worker is busy: strong fairness per name. The collector, the
provisioner and the start of a base job are weakly fair; nothing makes a training
or an upload end, a download finish or a user act. `SyncJob` and `Heartbeat`: each
goroutine is started again every period by `wait.UntilWithContext`, so its round
is weakly fair as a whole, and the observer only when its send does not block;
`CPodSystem` takes over both. `ModelStorage`: as the controller, and the informer's resync
(every 10 hours unless set) is weakly fair, on which `Downloaded` rests after a failed
update.

## 4. Proofs

All for any set of jobs, any set of specifications and any bounds.

| Theorem | Says |
|---|---|
| `CPodJobController_proofs!TypeCorrect` | type invariant |
| `CPodJobController_proofs!CoherentAlways` | `Spec => []Coherent` |
| `CPodJobController_proofs!NoLostWakeupAlways` | `Spec => []NoLostWakeup` |
| `CPodJobController_proofs!LifecycleImplemented` | `Spec => Lifecycle!Spec` |
| `CPodJobController_proofs!OutcomeStaysAlways` | verdict and upload outcome are never taken back |
| `CPodJobController_proofs!VolumesBeforeLaunchAlways`, `VerdictOfOwnJobAlways` | volumes come first; the verdict is the job's own |
| `CPodJobController_proofs!UploadReportedAsIsAlways` | an upload follows a success and is the job's own; it is reported as done only if it is, as lost only if pods of it were lost |
| `ConditionList_proofs!TypeCorrect`, `UniqueTypesAlways` | the slice holds entries, one of each type |
| `ConditionList_proofs!ActsAsMapAlways` | it changes as the function of `JobConditions` does |
| `ConditionList_proofs!TimeNeedsTransitionAlways` | a transition time moves with the status and only with it, but for a Running that a verdict ends |
| `SyncJob_proofs!TypeCorrect`, `KeepsAssignedAlways`, `FailedHasNoCPodJobAlways` | type invariant; what is assigned is not deleted; without a fault nothing is both created and noted as failed |
| `SyncJob_proofs!OriginAlways`, `AsAnsweredAlways` | CPodJobs are of jobs that were assigned; a round does what the portal's last answer says |
| `SyncJob_proofs!LifecycleFollowed` | `Spec => Cluster!Spec`: `JobLifecycle` is kept to |
| `Heartbeat_proofs!TypeCorrect`, `NeverAheadAlways` | type invariant; the portal is never told too much |
| `CPodSystem_proofs!HeartbeatImplemented` | `Spec => Beat!Spec`: the process implements `Heartbeat` |
| `CPodSystem_proofs!SystemNeverAhead`, `BothOnlyIfLostAlways` | so it tells nothing too much either; no payload mixes two moments of a job |
| `CPodSystem_proofs!TypeCorrect`, `SystemKeepsAssigned`, `SystemFailedHasNoCPodJob`, `SystemFollowsLifecycle` | what is proved of SyncJob holds of the whole process |
| `CPodSystem_proofs!ToldOfAssignedAlways` | the portal is told only of jobs it has assigned |
| `ModelStorage_proofs!TypeCorrect`, `DoneMeansDownloadedAlways`, `DoneStaysAlways` | types, and statuses that make sense; "done" is true and stays |
| `ModelStorage_proofs!NoLostWakeupAlways` | without a fault no wake-up is lost |
| `Sizing_proofs!ClaimIsProduct`, `SmallClaimExact`, `LargeClaimWrong` | `ClaimMB` is the product in 32 bits: right below 2 GB, wrong from there on |
| `Sizing_proofs!GrantedWithin`, `NoneGetsEight` | at most 7 GPUs are left out; none asked for gets 8 |
| `Sizing_proofs!ModelFitsOnlyFlat` | the claim holds the top level of a model, and not the model once its folders hold a GB |
| `JobConditions_proofs!ParsedAsShown` | `parseStatus` shows a stage as `ShownAs` says |

The assumptions are those the modules name: `NoJob` is no job, specifications are
of type `JobSpec`, bounds are naturals, the retry limit is positive.

The controller's invariants build on each other.

* `CoherentInv` adds to `Coherent` that *every* copy of the conditions is
  coherent: the one in the API server, the one in the cache, and the two in hand.
  Conditions go round from one to the next, so `Coherent` alone is not inductive.
  `StageKnown` says what each place in `Reconcile` may rely on: the upload is
  reached only with Succeeded and without ModelUploaded, the rest only when the
  job is unfinished. `JobConditions_proofs` has the lemma for each write.
* `WakeupInv` adds that the cache is never ahead (`Versions`) and that at the same
  version it differs from the API server in the Created condition only
  (`Agreement`), which is what `onOwnerCreateFunc` does. So when the worker drops a
  name it has seen that nothing is left to do, or has written a version the cache
  does not have yet, and the event for that brings the name back.
* `LifeInv` adds that a status the API server is going to accept replaces the one
  that was read (`Held`), and that a reconcile only moves onward from that
  (`Moves`). A step of the controller is then a step of `JobLifecycle` or none.
* `OwnInv` adds, for the first CPodJob of a name, what its objects are to each
  other (`Objects`: a base job only on bound volumes, an upload only on a success),
  that the caches show of them nothing that is not so any more (`Shown`), and that
  every copy of the conditions, and the place where the worker is, claims only what
  the objects bear out (`Told`, `Known`). `Numbered` and `Fresh` say why: before a name is
  created nothing bears it, and the caches cannot show what never was.

`OutcomeStaysAlways` reads off the refinement, with `CoherentInv`, that the stages which
`JobLifecycle` never leaves are conditions that stay.

`ConditionList`: `IInv`, one entry of each type, is inductive as it stands. What needs
an argument is the loop of `filterOutCondition`, which is a recursive function (`Rounds`).
`LoopInv` says what it has kept after n rounds: of each of the first n entries that is
kept, what a verdict leaves of it, nothing else, and no type twice. It holds after all
rounds by induction, which is first-order here: `WFMin` of the library gives a set of
naturals its least element, so a set that has 0 and with n also n + 1 has them all
(`SetInduction`); the same shows that `Rounds` is a function at all (`RoundsExist`).
`WrittenElsewhere` then says what a reader finds of every type after a write, which is
what `Overwrite` does to the function.

`SyncJob`: `OriginInv` says that CPodJobs exist, or were seen, only for jobs the
portal has assigned, and that one that was seen and not named has been withdrawn.
This holds because the cluster is listed *before* the portal is asked; in the other
order a job created in between would be deleted. `AnswerInv` says that the two loops
go through nothing but what the two snapshots give. `Heartbeat`: `PayloadInv` says
that every payload, wherever it is, states only what has come true, and what has
come true stays so as jobs advance. `ApartInv`, behind `FailedHasNoCPodJob`, and
`CreatesInv`, behind the refinement of `CPodSystem`, say of SyncJob's loop that only
SyncJob creates CPodJobs, so a name that its list did not show has none until the loop
gets to it, and a create that fails is one of a job without a CPodJob. The theorem of
`Heartbeat` is then taken over by its name (`Proved`). `BothInv` says that a payload that
shows a CPodJob is no older than that, so that SyncJob, which creates only what is not
there, no longer takes the job out of `createFailedJobs`; it is preserved by the steps
of `Heartbeat`, and `HeartbeatImplemented` carries it over. `CPodSystem` does not refine
`SyncJob`, since the observer and the uploader have a part in the faults; but every
step is one of SyncJob's or leaves its variables alone, the count of faults excepted
(`StepsOfSync`), which `OriginInv` does not mention. `NamedInv` adds that who is named in a
payload, wherever it is, has been assigned: it rests on `OriginInv`, by which the list of
CPodJobs and `createFailedJobs` show nobody else.

`ModelStorage`: the type invariant includes what a status can say (`Sensible`), which is
kept because of where the worker is (`Placed`): past `size` no failure is in hand, and no
Job is named before the claim. `TruthInv` says of every copy of a status, in the API server, in the
cache and in hand, that what it claims is so (`Says`), and of the one in hand that it
is not about to take back a phase that is done unless its version is old (`Hand`).
`WakeInv` adds that, when the object in hand is not the latest, an event for it is queued
or under way (`Abreast`), and that the two updates after which nothing looks at the
object again conclude it (`Report`).

Model-checked only: liveness (`EventuallyLaunched`, `VerdictReported`,
`UploadReported`, `AssignedHandled`, `WithdrawnRemoved`, `FinishReported`,
`CreateFailedReported`, `AssignedHeard`, `WithdrawnForgotten`, `Downloaded`), which is beyond
the prover. Every invariant and every action property of the passing runs is a theorem.

## 5. Not modelled

Metrics, start-up, resource types and generated code, which decide nothing; HTTP and
JSON of the portal client and of the model hub, whose answers are modelled;
`ModelInformation`, which has no caller; the translation of a portal job to a spec,
its GPUs excepted; node resources; the text of conditions outside `ConditionList`;
`StartTime` and `CompletionTime`; the contents of the Jobs that are created. The two API
versions of ModelStorage: `CheckArtifacts` reads v1, the storage version
(`api/v1/modelstorage_types.go:44`), which has no fields for the names of the claim and of
the Job, and the controller writes v1beta1; whether those names survive is up to the
API server's conversion, and `ModelStorage` takes it that they do;
leader election (off by default, one operator is assumed). Back-off delays are not
modelled: a name that is put back may be taken at once or late.

## 6. Where code and comments disagree

Each with a run that TLC refutes:

* `failed_trains`: a job failed by `CheckArtifacts` is put back by `Requeue: true`;
  the next round reads a stale cache, finds the download done, and launches the job.
* `succeeded_other`: base jobs are found by name, so a CPodJob takes over the verdict
  of its predecessor's.
* `upload_silent`: with `RestartPolicyOnFailure` an upload Job fails with one failed
  pod, which is below the limit, and shows as uploading for good.
* `no_claim`: creating the checkpoint claim returns nil and no error, and the caller
  panics; after the restart the claim is there and the job goes on.
* `sync_created`: a create whose answer is lost leaves the job in `createFailedJobs`
  for as long as the process runs.

Seen while modelling, without a run of their own: Running is set for a base job whose pods have
not started (`cpodjob_controller.go:469`, against `cpodjob_types.go:34`); an upload is
given up, with the message "modelupload backofflimit exceed", when the limit is reached
and not exceeded: its Job is still active, may succeed, and then stays reported as lost
(`cpodjob_controller.go:739`, 740); an error of reading the claim of the pretrained model is
dropped, and the base job created with a volume that names no claim
(`cpodjob_controller.go:278`); a `tensorFlow` CPodJob is retried for good and never
fails (481, against `cpodjob_types.go:57`, 67); the Running entry turned to False by a
verdict keeps its transition time (`status.go:104`, against `cpodjob_types.go:251`);
SyncJob deletes a job that has finished since its list (`syncjob.go:155`, against 142);
a job with a time limit that succeeded is reported as failed once the limit has passed
(`cpodobserver.go:109`); a name whose CPodJob is gone is put back for good
(`cpodjob_controller.go:98`); a job with a save path and no save volume mounts a claim
in its upload that nobody creates (720, 223); a volume of 2 GB or more gets a claim that
is refused for good, or one that is too small (556, 601, `Sizing_proofs!LargeClaimWrong`);
a portal job that asks for 0 GPUs gets 8 (`syncjob.go:113`); a job that is withdrawn while
it is in `createFailedJobs` is reported as failed for as long as the process runs
(`syncjob.go:181`); the error of creating the claim of a model is dropped, since the
condition tests another variable (`modelstorage_controller.go:126`); the claim of a model leaves out what is in its folders,
and is refused when everything is (`modelscope.go:79`); an answer of the hub without Data
ends the process (`modelscope.go:107`); a download whose Job
has failed shows as "syncing" for good (228).

## 7. Plan

Done: conditions, life cycle, controller, SyncJob, heartbeat, their composition, the
ModelStorage controller, sizes, and the proofs above. Left:

1. `system` with two jobs and with all stages; what its payloads show of jobs is
   proved for any number.
2. The controller and SyncJob in one module, so that a round deletes a CPodJob that is
   being reconciled; at present they meet in `JobLifecycle`.
3. Of the properties that speak of the first object of a name, what is left of them for
   a later one whose predecessor's objects have been collected before it was created.
