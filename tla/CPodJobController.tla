-------------------------- MODULE CPodJobController --------------------------
(***************************************************************************)
(* The reconciler of CPodJobs (internal/controller/cpodjob_controller.go)  *)
(* with everything it races against: the API server, the informer caches   *)
(* it reads from, the training operators that run the base job, the volume *)
(* provisioner, the Job controller that runs the upload, the garbage       *)
(* collector, users, and crashes of the operator itself.                   *)
(*                                                                         *)
(* One worker takes a name from the work queue and reconciles it.  Reads   *)
(* go to the caches, writes go to the API server, and an action is the     *)
(* code from one such access to the next; the environment moves between    *)
(* any two of them.                                                        *)
(***************************************************************************)
EXTENDS JobConditions, Sizing

CONSTANTS
    Jobs,         \* names of CPodJobs
    NoJob,        \* no name
    Specs,        \* the specifications a CPodJob may carry
    MaxUid,       \* bound: how often a name is created
    MaxRemovals,  \* bound: how often a name is removed
    MaxFaults,    \* bound: failed API calls, lost answers and crashes
    BackoffLimit  \* Option.ModelUploadJobBackoffLimit

JobType == {"mpi", "pytorch", "tensorFlow"}

\* ckpt, save: CKPTPath and ModelSavePath are set; ckptMB, saveMB: the sizes
\* of their volumes; data: a dataset or a pretrained model is named; upload:
\* UploadModel.
JobSpec == [type: JobType, ckpt: BOOLEAN, ckptMB: Int, save: BOOLEAN, saveMB: Int,
            data: BOOLEAN, upload: BOOLEAN]

ASSUME NoJobAssumption == NoJob \notin Jobs
ASSUME SpecsAssumption == Specs \subseteq JobSpec
ASSUME BoundsAssumption == MaxUid \in Nat \ {0} /\ MaxRemovals \in Nat /\ MaxFaults \in Nat
ASSUME BackoffAssumption == BackoffLimit \in Nat \ {0}

VARIABLES
    spec,      \* what the user asks for under each name
    cpod,      \* API server: CPodJobs
    base,      \* API server: MPIJobs and PyTorchJobs
    pvc,       \* API server: volume claims
    upload,    \* API server: upload Jobs
    artifact,  \* the dataset and model a job names are there and "done"
    cCpod, cBase, cPvc, cUpload,    \* the operator's informer caches
    created,   \* the names whose Create event the operator has yet to handle
    queue,     \* the work queue
    pc,        \* where the worker is
    w,         \* the reconcile in progress
    born,      \* uids handed out per name
    faults     \* faults so far

api == <<cpod, base, pvc, upload>>
cache == <<cCpod, cBase, cPvc, cUpload, created>>
worker == <<pc, w>>
vars == <<spec, cpod, base, pvc, upload, artifact, cCpod, cBase, cPvc, cUpload,
          created, queue, pc, w, born, faults>>

----------------------------------------------------------------------------
(* Objects.  A name that is not taken has uid or owner 0.                  *)

Volume == {"ckpt", "save"}
Uid == 0..MaxUid

\* A base job that mounts a claim without a name is "stuck": its pods are
\* refused for good.
BasePhase == {"none", "new", "stuck", "running", "succeeded", "failed"}
PvcState == {"none", "pending", "bound"}
UploadState == {"none", "active", "succeeded", "failed"}

CPodObject == [uid: Uid, rv: Nat, conds: Conds]
BaseObject == [owner: Uid, phase: BasePhase]
PvcObject == [owner: Uid, state: PvcState]
UploadObject == [owner: Uid, state: UploadState, failed: Nat]

NoCPod == [uid |-> 0, rv |-> 0, conds |-> NoConds]
NoBase == [owner |-> 0, phase |-> "none"]
NoPvc == [owner |-> 0, state |-> "none"]
NoUpload == [owner |-> 0, state |-> "none", failed |-> 0]

PC == {"idle", "base", "ckpt", "save", "data", "create", "bare", "upload",
       "status", "panicked", "down"}

\* The reconcile in progress: the object read, its status then and now, and
\* whether Reconcile is going to ask for another round.
Work == [job: Jobs \cup {NoJob}, uid: Uid, rv: Nat, old: Conds, conds: Conds, retry: BOOLEAN]
NoWork == [job |-> NoJob, uid |-> 0, rv |-> 0, old |-> NoConds, conds |-> NoConds, retry |-> FALSE]

Supported(j) == spec[j].type \in {"mpi", "pytorch"}
Uploads(j) == spec[j].upload /\ spec[j].save
NeedsSave(j) == spec[j].save /\ spec[j].saveMB # 0
SizeMB(v, j) == IF v = "ckpt" THEN spec[j].ckptMB ELSE spec[j].saveMB
Alive == pc \notin {"panicked", "down"}

----------------------------------------------------------------------------
Init ==
    /\ spec \in [Jobs -> Specs]
    /\ artifact \in [Jobs -> BOOLEAN]
    /\ \A j \in Jobs : ~spec[j].data => artifact[j]
    /\ cpod = [j \in Jobs |-> NoCPod] /\ cCpod = cpod
    /\ base = [j \in Jobs |-> NoBase] /\ cBase = base
    /\ pvc = [v \in Volume |-> [j \in Jobs |-> NoPvc]] /\ cPvc = pvc
    /\ upload = [j \in Jobs |-> NoUpload] /\ cUpload = upload
    /\ created = {} /\ queue = {}
    /\ pc = "idle" /\ w = NoWork
    /\ born = [j \in Jobs |-> 0]
    /\ faults = 0

----------------------------------------------------------------------------
(* Users, and the rest of the cluster.                                     *)

CreateCPodJob(j) ==
    /\ cpod[j].uid = 0 /\ born[j] < MaxUid
    /\ born' = [born EXCEPT ![j] = @ + 1]
    /\ cpod' = [cpod EXCEPT ![j] = [uid |-> born[j] + 1, rv |-> 1, conds |-> NoConds]]
    /\ UNCHANGED <<spec, base, pvc, upload, artifact, cache, queue, worker, faults>>

DeleteCPodJob(j) ==
    /\ cpod[j].uid \in 1..MaxRemovals
    /\ cpod' = [cpod EXCEPT ![j] = NoCPod]
    /\ UNCHANGED <<spec, base, pvc, upload, artifact, cache, queue, worker, born, faults>>

\* The garbage collector removes what a CPodJob that is gone owned.
Orphan(o, j) == o.owner # 0 /\ o.owner # cpod[j].uid

CollectBase(j) ==
    /\ Orphan(base[j], j)
    /\ base' = [base EXCEPT ![j] = NoBase]
    /\ UNCHANGED <<spec, cpod, pvc, upload, artifact, cache, queue, worker, born, faults>>

CollectPvc(v, j) ==
    /\ Orphan(pvc[v][j], j)
    /\ pvc' = [pvc EXCEPT ![v][j] = NoPvc]
    /\ UNCHANGED <<spec, cpod, base, upload, artifact, cache, queue, worker, born, faults>>

CollectUpload(j) ==
    /\ Orphan(upload[j], j)
    /\ upload' = [upload EXCEPT ![j] = NoUpload]
    /\ UNCHANGED <<spec, cpod, base, pvc, artifact, cache, queue, worker, born, faults>>

\* The volume provisioner.
BindPvc(v, j) ==
    /\ pvc[v][j].state = "pending"
    /\ pvc' = [pvc EXCEPT ![v][j].state = "bound"]
    /\ UNCHANGED <<spec, cpod, base, upload, artifact, cache, queue, worker, born, faults>>

\* The training operator starts the pods once their volumes are there ...
BaseRuns(j) ==
    /\ base[j].phase = "new"
    /\ spec[j].ckpt => pvc["ckpt"][j].state = "bound"
    /\ NeedsSave(j) => pvc["save"][j].state = "bound"
    /\ base' = [base EXCEPT ![j].phase = "running"]
    /\ UNCHANGED <<spec, cpod, pvc, upload, artifact, cache, queue, worker, born, faults>>

\* ... and reports how the training ended.
BaseEnds(j, p) ==
    /\ base[j].phase = "running"
    /\ base' = [base EXCEPT ![j].phase = p]
    /\ UNCHANGED <<spec, cpod, pvc, upload, artifact, cache, queue, worker, born, faults>>

\* A dataset or a model the job names finishes its download.
ArtifactDone(j) ==
    /\ ~artifact[j]
    /\ artifact' = [artifact EXCEPT ![j] = TRUE]
    /\ UNCHANGED <<spec, api, cache, queue, worker, born, faults>>

\* The Job controller runs the upload in a pod with restartPolicy OnFailure
\* once the volume with the model is there.
UploadRuns(j) == upload[j].state = "active" /\ pvc["save"][j].state = "bound"

UploadSucceeds(j) ==
    /\ UploadRuns(j)
    /\ upload' = [upload EXCEPT ![j].state = "succeeded"]
    /\ UNCHANGED <<spec, cpod, base, pvc, artifact, cache, queue, worker, born, faults>>

\* The pod is lost (evicted, node down): one more failed pod, and the Job
\* fails when there are more of them than the limit.
UploadPodLost(j) ==
    /\ UploadRuns(j)
    /\ upload' = [upload EXCEPT
            ![j].failed = @ + 1,
            ![j].state = IF upload[j].failed = BackoffLimit THEN "failed" ELSE @]
    /\ UNCHANGED <<spec, cpod, base, pvc, artifact, cache, queue, worker, born, faults>>

\* The container keeps failing inside its pod until its restarts reach the
\* limit: the Job fails, and its one pod is counted as failed.
UploadGivesUp(j) ==
    /\ UploadRuns(j)
    /\ upload' = [upload EXCEPT ![j].failed = @ + 1, ![j].state = "failed"]
    /\ UNCHANGED <<spec, cpod, base, pvc, artifact, cache, queue, worker, born, faults>>

----------------------------------------------------------------------------
(* The informers.  A cache catches up with the API server one object at a  *)
(* time and only the events of CPodJobs and of the MPIJobs they own reach  *)
(* the queue (SetupWithManager).                                           *)

\* The cache is behind: an event for this CPodJob is under way.
Behind(j) == cCpod[j].uid # cpod[j].uid \/ cCpod[j].rv # cpod[j].rv

\* The cache takes over the present CPodJob.  The Create event of a new one is
\* handled after that (Admit); an object that comes instead of one that was
\* not admitted yet leaves nothing of it to admit.
WatchCPod(j) ==
    /\ Alive
    /\ Behind(j)
    /\ cCpod' = [cCpod EXCEPT ![j] = cpod[j]]
    /\ IF cpod[j].uid # 0 /\ cpod[j].uid # cCpod[j].uid
       THEN created' = created \cup {j} /\ UNCHANGED queue
       ELSE created' = created \ {j} /\ queue' = queue \cup {j}
    /\ UNCHANGED <<spec, api, artifact, cBase, cPvc, cUpload, worker, born, faults>>

\* onOwnerCreateFunc: the Create predicate writes the Created condition into
\* the object it is shown, which is the one the cache holds.
Admitted(o) == [o EXCEPT !.conds = SetCondition(@, "Created", "True")]

\* A Create event is handled.
Admit(j) ==
    /\ Alive
    /\ j \in created
    /\ cCpod' = [cCpod EXCEPT ![j] = Admitted(@)]
    /\ created' = created \ {j} /\ queue' = queue \cup {j}
    /\ UNCHANGED <<spec, api, artifact, cBase, cPvc, cUpload, worker, born, faults>>

WatchBase(j) ==
    /\ Alive
    /\ base[j] # cBase[j]
    /\ cBase' = [cBase EXCEPT ![j] = base[j]]
    /\ queue' = IF spec[j].type = "mpi" THEN queue \cup {j} ELSE queue
    /\ UNCHANGED <<spec, api, artifact, cCpod, cPvc, cUpload, created, worker, born, faults>>

WatchPvc(v, j) ==
    /\ Alive
    /\ pvc[v][j] # cPvc[v][j]
    /\ cPvc' = [cPvc EXCEPT ![v][j] = pvc[v][j]]
    /\ UNCHANGED <<spec, api, artifact, cCpod, cBase, cUpload, created, queue, worker, born, faults>>

WatchUpload(j) ==
    /\ Alive
    /\ upload[j] # cUpload[j]
    /\ cUpload' = [cUpload EXCEPT ![j] = upload[j]]
    /\ UNCHANGED <<spec, api, artifact, cCpod, cBase, cPvc, created, queue, worker, born, faults>>

\* The operator is killed; what it had in hand is gone.
Crash ==
    /\ Alive /\ faults < MaxFaults
    /\ faults' = faults + 1
    /\ pc' = "down" /\ w' = NoWork
    /\ UNCHANGED <<spec, api, artifact, cache, queue, born>>

\* It is started again, by the kubelet: the caches are listed afresh and
\* every object found is a Create event.
Restart ==
    /\ ~Alive
    /\ cCpod' = cpod /\ cBase' = base /\ cPvc' = pvc /\ cUpload' = upload
    /\ created' = {j \in Jobs : cpod[j].uid # 0}
    /\ queue' = {j \in Jobs : base[j].phase # "none" /\ spec[j].type = "mpi"}
    /\ pc' = "idle" /\ w' = NoWork
    /\ UNCHANGED <<spec, api, artifact, born, faults>>

----------------------------------------------------------------------------
(* The worker.                                                             *)

\* needReconcile
NeedReconcile(j, c) ==
    /\ ~IsFailed(c)
    /\ IsSucceeded(c) => Uploads(j) /\ c["ModelUploaded"] = "absent"

\* How a call that writes to the API server ends: as it should, refused, or
\* done with the answer lost.
Answer == {"ok", "refused", "lost"}

Calls(a) ==
    /\ a # "ok" => faults < MaxFaults
    /\ faults' = IF a = "ok" THEN faults ELSE faults + 1

\* Reconcile is about to return; the deferred status update comes first.
Return(conds, retry) ==
    /\ pc' = "status"
    /\ w' = [w EXCEPT !.conds = conds, !.retry = retry]

\* Mutant: an error is swallowed, and the name is not put back.
TryAgainForgotten == Return(w.conds, FALSE)

\* Reconcile ends with an error or a Requeue, and nothing new in the status.
TryAgain == Return(w.conds, TRUE)

\* The next piece of CreateBaseJob.
Continue(p) == pc' = p /\ UNCHANGED w

\* A name leaves the queue and its CPodJob is read.  A name that is not
\* taken is read as an empty object.
Start(j) ==
    /\ pc = "idle" /\ j \in queue
    /\ queue' = queue \ {j}
    /\ NeedReconcile(j, cCpod[j].conds)
    /\ pc' = IF IsFinished(cCpod[j].conds) THEN "upload" ELSE "base"
    /\ w' = [job |-> j, uid |-> cCpod[j].uid, rv |-> cCpod[j].rv,
             old |-> cCpod[j].conds, conds |-> cCpod[j].conds, retry |-> FALSE]
    /\ UNCHANGED <<spec, api, artifact, cache, born, faults>>

Skip(j) ==
    /\ pc = "idle" /\ j \in queue
    /\ queue' = queue \ {j}
    /\ ~NeedReconcile(j, cCpod[j].conds)
    /\ UNCHANGED <<spec, api, artifact, cache, worker, born, faults>>

\* GetBaseJob has no object to read into for an empty CPodJob or for a type
\* it does not know, and fails.
GetBaseJobFails ==
    /\ pc = "base"
    /\ w.uid = 0 \/ ~Supported(w.job)
    /\ TryAgain
    /\ UNCHANGED <<spec, api, artifact, cache, queue, born, faults>>

\* GetBaseJob finds nothing: CreateBaseJob.
GetBaseJobNotFound ==
    /\ pc = "base"
    /\ w.uid # 0 /\ Supported(w.job)
    /\ cBase[w.job].phase = "none"
    /\ Continue("ckpt")
    /\ UNCHANGED <<spec, api, artifact, cache, queue, born, faults>>

\* Mutant: a base job that has not failed is taken for done.
BaseStatusOptimistic(j) == IF cBase[j].phase = "failed" THEN "failed" ELSE "succeeded"

\* GetBaseJobStatus, and what UpdateStatus takes it for: a base job without
\* a verdict is running, whether its pods are there or not.
BaseStatus(j) ==
    IF cBase[j].phase \in {"succeeded", "failed"} THEN cBase[j].phase ELSE "running"

\* Mutant: a running base job is not looked at again.
StillRunningForgotten == Return(SetCondition(w.conds, "Running", "True"), FALSE)

\* "baseJob is running" is an error, so there is another look later.
StillRunning == Return(SetCondition(w.conds, "Running", "True"), TRUE)

\* UpdateStatus: the verdict of the base job, or another look later.
UpdateStatus ==
    /\ pc = "base"
    /\ w.uid # 0 /\ Supported(w.job)
    /\ cBase[w.job].phase # "none"
    /\ \/ /\ BaseStatus(w.job) = "failed"
          /\ Return(SetCondition(w.conds, "Failed", "True"), FALSE)
       \/ /\ BaseStatus(w.job) = "succeeded"
          /\ pc' = IF Uploads(w.job) THEN "upload" ELSE "status"
          /\ w' = [w EXCEPT !.conds = SetCondition(@, "Succeeded", "True")]
       \/ /\ BaseStatus(w.job) = "running"
          /\ StillRunning
    /\ UNCHANGED <<spec, api, artifact, cache, queue, born, faults>>

\* Mutant: a claim that exists is good enough.
ReadyUnbound(v) == cPvc[v][w.job].state # "none"

\* The claim that the cache has of volume v is bound.
Ready(v) == cPvc[v][w.job].state = "bound"

\* The API server takes a claim of that size.
Taken(v, j) == Claimable(SizeMB(v, j))

\* A volume claim that is not in the cache is created, with the answer a.
CreatePvc(v, a) ==
    /\ IF Taken(v, w.job) THEN Calls(a) ELSE a = "refused" /\ UNCHANGED faults
    /\ pvc' = IF a # "refused" /\ pvc[v][w.job].state = "none"
              THEN [pvc EXCEPT ![v][w.job] = [owner |-> w.uid, state |-> "pending"]]
              ELSE pvc

\* GetCKPTPVC returns no claim and no error after creating one, and
\* CreateBaseJob takes the name of what it returned.
GetCKPTPVC ==
    /\ pc = "ckpt"
    /\ \/ /\ ~spec[w.job].ckpt \/ Ready("ckpt")
          /\ Continue("save")
          /\ UNCHANGED <<pvc, faults>>
       \/ /\ spec[w.job].ckpt /\ cPvc["ckpt"][w.job].state = "pending"
          /\ TryAgain
          /\ UNCHANGED <<pvc, faults>>
       \/ /\ spec[w.job].ckpt /\ cPvc["ckpt"][w.job].state = "none"
          /\ \E a \in Answer :
                /\ CreatePvc("ckpt", a)
                /\ IF a = "ok" /\ pvc["ckpt"][w.job].state = "none"
                   THEN pc' = "panicked" /\ w' = NoWork
                   ELSE TryAgain
    /\ UNCHANGED <<spec, cpod, base, upload, artifact, cache, queue, born>>

\* GetModelSavePVC fails after creating the claim, and is tried again.
GetModelSavePVC ==
    /\ pc = "save"
    /\ \/ /\ ~NeedsSave(w.job) \/ Ready("save")
          /\ Continue("data")
          /\ UNCHANGED <<pvc, faults>>
       \/ /\ NeedsSave(w.job) /\ cPvc["save"][w.job].state = "pending"
          /\ TryAgain
          /\ UNCHANGED <<pvc, faults>>
       \/ /\ NeedsSave(w.job) /\ cPvc["save"][w.job].state = "none"
          /\ \E a \in Answer : CreatePvc("save", a)
          /\ TryAgain
    /\ UNCHANGED <<spec, cpod, base, upload, artifact, cache, queue, born>>

\* A dataset or model that is missing or not done fails the job for good,
\* and Reconcile asks for another round.  When the claim of a model cannot be
\* read the error is dropped, and the base job is created without its name.
CheckArtifacts ==
    /\ pc = "data"
    /\ \/ /\ spec[w.job].data => artifact[w.job]
          /\ Continue("create")
          /\ UNCHANGED faults
       \/ /\ spec[w.job].data /\ ~artifact[w.job]
          /\ Return(SetCondition(w.conds, "Failed", "True"), TRUE)
          /\ UNCHANGED faults
       \/ /\ spec[w.job].data /\ artifact[w.job]
          /\ Continue("bare")
          /\ Calls("refused")
    /\ UNCHANGED <<spec, api, artifact, cache, queue, born>>

\* The base job is created; one that exists is as good as a new one.
CreateBaseJob ==
    /\ pc \in {"create", "bare"}
    /\ \E a \in Answer :
          /\ Calls(a)
          /\ base' = IF a # "refused" /\ base[w.job].phase = "none"
                     THEN [base EXCEPT ![w.job] =
                              [owner |-> w.uid, phase |-> IF pc = "bare" THEN "stuck" ELSE "new"]]
                     ELSE base
    /\ TryAgain
    /\ UNCHANGED <<spec, cpod, pvc, upload, artifact, cache, queue, born>>

\* The upload Job, when the cache has none, is created with the answer a.
CreateUpload(a) ==
    /\ Calls(a)
    /\ upload' = IF a # "refused" /\ upload[w.job].state = "none"
                 THEN [upload EXCEPT ![w.job] = [owner |-> w.uid, state |-> "active", failed |-> 0]]
                 ELSE upload

\* Mutant: an upload that is over is taken for one that succeeded.
UploadedAny(u) == u.state \in {"succeeded", "failed"}

Uploaded(u) == u.state = "succeeded"

\* The upload is taken for lost, although its Job goes on to one pod more.
GivenUp(u) == u.failed >= BackoffLimit

\* Mutant: an upload under way is not looked at again.
UploadUnderWayForgotten == Return(SetCondition(w.conds, "ModelUploading", "True"), FALSE)

UploadUnderWay == Return(SetCondition(w.conds, "ModelUploading", "True"), TRUE)

\* uploadSavedModel: the Job is created, or what it reports is noted.
UploadSavedModel ==
    /\ pc = "upload"
    /\ \/ /\ cUpload[w.job].state = "none"
          /\ \E a \in Answer :
                /\ CreateUpload(a)
                /\ IF a = "ok" /\ upload[w.job].state = "none"
                   THEN UploadUnderWay
                   ELSE TryAgain
       \/ /\ Uploaded(cUpload[w.job])
          /\ Return(SetCondition(w.conds, "ModelUploaded", "True"), FALSE)
          /\ UNCHANGED <<upload, faults>>
       \/ /\ cUpload[w.job].state # "none" /\ ~Uploaded(cUpload[w.job]) /\ GivenUp(cUpload[w.job])
          /\ Return(SetCondition(w.conds, "ModelUploaded", "False"), FALSE)
          /\ UNCHANGED <<upload, faults>>
       \/ /\ cUpload[w.job].state # "none" /\ ~Uploaded(cUpload[w.job]) /\ ~GivenUp(cUpload[w.job])
          /\ UploadUnderWay
          /\ UNCHANGED <<upload, faults>>
    /\ UNCHANGED <<spec, cpod, base, pvc, artifact, cache, queue, born>>

\* Mutant: a status is written over whatever version is there.
CurrentAnyVersion(o) == o.uid = w.uid

\* The API server takes a status that was computed from what it holds.
Current(o) == o.uid = w.uid /\ o.rv = w.rv

Requeue == queue \cup {w.job}

\* Reconcile returns: the status is written if it changed, and an error or a
\* Requeue puts the name back.
Finish ==
    /\ pc = "status"
    /\ \/ /\ w.conds = w.old
          /\ queue' = IF w.retry THEN Requeue ELSE queue
          /\ UNCHANGED <<cpod, faults>>
       \/ /\ w.conds # w.old
          /\ \E a \in Answer :
                LET taken == a # "refused" /\ Current(cpod[w.job]) IN
                /\ Calls(a)
                /\ cpod' = IF taken
                           THEN [cpod EXCEPT ![w.job] =
                                    [uid |-> w.uid, rv |-> w.rv + 1, conds |-> w.conds]]
                           ELSE cpod
                /\ queue' = IF w.retry \/ a # "ok" \/ ~taken THEN Requeue ELSE queue
    /\ pc' = "idle" /\ w' = NoWork
    /\ UNCHANGED <<spec, base, pvc, upload, artifact, cache, born>>

----------------------------------------------------------------------------
Users == \E j \in Jobs : CreateCPodJob(j) \/ DeleteCPodJob(j)

Cluster ==
    \E j \in Jobs :
        \/ CollectBase(j) \/ CollectUpload(j)
        \/ \E v \in Volume : CollectPvc(v, j) \/ BindPvc(v, j)
        \/ BaseRuns(j)
        \/ \E p \in {"succeeded", "failed"} : BaseEnds(j, p)
        \/ ArtifactDone(j)
        \/ UploadSucceeds(j) \/ UploadPodLost(j) \/ UploadGivesUp(j)

Informers ==
    \E j \in Jobs :
        \/ WatchCPod(j) \/ Admit(j) \/ WatchBase(j) \/ WatchUpload(j)
        \/ \E v \in Volume : WatchPvc(v, j)

\* A reconcile that has begun.
Reconcile ==
    \/ GetBaseJobFails \/ GetBaseJobNotFound \/ UpdateStatus
    \/ GetCKPTPVC \/ GetModelSavePVC \/ CheckArtifacts \/ CreateBaseJob
    \/ UploadSavedModel \/ Finish

Worker == Reconcile \/ \E j \in Jobs : Start(j) \/ Skip(j)

Next == Users \/ Cluster \/ Informers \/ Worker \/ Crash \/ Restart

Spec == Init /\ [][Next]_vars

(***************************************************************************)
(* Fairness.  The worker goroutine runs; the queue is first in first out,  *)
(* so a name in it is reached; informers deliver; a killed operator is     *)
(* restarted.  Of the cluster, the garbage collector, the provisioner and  *)
(* the pods of a base job make progress.  Nothing is assumed of users, of  *)
(* downloads, of how or whether a training or an upload ends, of faults.   *)
(***************************************************************************)
Fairness ==
    /\ WF_vars(Reconcile) /\ WF_vars(Restart)
    /\ \A j \in Jobs :
        /\ SF_vars(Start(j) \/ Skip(j))
        /\ WF_vars(WatchCPod(j)) /\ WF_vars(Admit(j))
        /\ WF_vars(WatchBase(j)) /\ WF_vars(WatchUpload(j))
        /\ \A v \in Volume : WF_vars(WatchPvc(v, j)) /\ WF_vars(BindPvc(v, j)) /\ WF_vars(CollectPvc(v, j))
        /\ WF_vars(CollectBase(j)) /\ WF_vars(CollectUpload(j)) /\ WF_vars(BaseRuns(j))

FairSpec == Spec /\ Fairness

----------------------------------------------------------------------------
TypeOK ==
    /\ spec \in [Jobs -> Specs]
    /\ cpod \in [Jobs -> CPodObject] /\ cCpod \in [Jobs -> CPodObject]
    /\ base \in [Jobs -> BaseObject] /\ cBase \in [Jobs -> BaseObject]
    /\ pvc \in [Volume -> [Jobs -> PvcObject]] /\ cPvc \in [Volume -> [Jobs -> PvcObject]]
    /\ upload \in [Jobs -> UploadObject] /\ cUpload \in [Jobs -> UploadObject]
    /\ artifact \in [Jobs -> BOOLEAN]
    /\ created \subseteq {j \in Jobs : cCpod[j].uid # 0} /\ queue \subseteq Jobs
    /\ pc \in PC /\ w \in Work
    /\ pc \in {"idle", "panicked", "down"} <=> w.job = NoJob
    /\ born \in [Jobs -> Uid]
    /\ faults \in 0..MaxFaults

\* However updates, conflicts, lost answers and restarts interleave, the
\* conditions a user reads never contradict each other.
Coherent == \A j \in Jobs : CoherentConds(cpod[j].conds)

\* No wake-up is lost: a CPodJob that still needs the reconciler is queued,
\* in hand, or has an event under way that will queue it.  PyTorchJobs and
\* volume claims raise no events, so this rests on every wait being an error.
NoLostWakeup ==
    \A j \in Jobs :
        Alive /\ cpod[j].uid # 0 /\ NeedReconcile(j, cpod[j].conds)
            => j \in queue \/ w.job = j \/ Behind(j) \/ j \in created

\* The CPodJob is the first of its name: nothing that a predecessor owned can
\* be taken for its own (see SucceededMeansOwn for those that are not).
First(j) == cpod[j].uid = 1

\* A base job is never launched before the volumes it mounts are bound.
VolumesBeforeLaunch ==
    \A j \in Jobs :
        First(j) /\ base[j].owner = 1
            => /\ spec[j].ckpt => pvc["ckpt"][j].state = "bound"
               /\ NeedsSave(j) => pvc["save"][j].state = "bound"

\* The verdict in the status is the verdict of the job's own base job; only
\* a job that names a dataset or a model can fail without one.
VerdictOfOwnJob ==
    \A j \in Jobs :
        LET own(p) == base[j] = [owner |-> 1, phase |-> p] IN
        First(j) => /\ IsSucceeded(cpod[j].conds) => own("succeeded")
                    /\ IsFailed(cpod[j].conds) => own("failed") \/ spec[j].data

\* The upload starts only after the training succeeded, and the status speaks
\* of the job's own upload: of a success only if there was one, of a loss only
\* if pods were lost.  That it was lost for good it cannot know: a Job at the
\* limit is still active and may succeed (GivenUp).
UploadReportedAsIs ==
    \A j \in Jobs :
        LET c == cpod[j].conds
            u == upload[j]
        IN  First(j) => /\ u.owner = 1 => base[j].phase = "succeeded"
                        /\ c["ModelUploading"] # "absent" \/ c["ModelUploaded"] # "absent" => u.owner = 1
                        /\ c["ModelUploaded"] = "True" => u.state = "succeeded"
                        /\ c["ModelUploaded"] = "False" => u.failed # 0

\* What the user sees of a CPodJob follows JobLifecycle: it advances, keeps
\* its verdict and its upload outcome, and never goes back.
Lifecycle == INSTANCE JobLifecycle WITH
    life <- [j \in Jobs |-> IF cpod[j].uid = 0 THEN "none" ELSE StageOf(cpod[j].conds)]
ImplementsLifecycle == Lifecycle!Spec

----------------------------------------------------------------------------
(* Liveness, under FairSpec.                                               *)

Gone(j) == cpod[j].uid = 0

\* Of a type the operator runs, with volumes below 2 GB.
Fits(v, j) == SizeMB(v, j) \in 1..2047
Launchable(j) ==
    /\ Supported(j)
    /\ spec[j].ckpt => Fits("ckpt", j)
    /\ NeedsSave(j) => Fits("save", j)

\* A job of a type the operator runs, whose volumes are below 2 GB, gets a base
\* job of its own or is told why not, whatever a predecessor left under its
\* name.  (One that mounts a claim without a name is created all the same.)
EventuallyLaunched ==
    \A j \in Jobs :
        ~Gone(j) /\ Launchable(j)
            ~> Gone(j) \/ IsFinished(cpod[j].conds) \/ base[j].owner = cpod[j].uid

\* The end of the training reaches the status, for PyTorchJobs too, whose
\* events the operator does not watch.
VerdictReported ==
    \A j \in Jobs :
        base[j].owner = cpod[j].uid /\ base[j].phase \in {"succeeded", "failed"}
            ~> Gone(j) \/ IsFinished(cpod[j].conds)

\* A model whose training succeeded gets its upload started, and an upload
\* that succeeded is reported as concluded, unless the job was already
\* reported as failed (see FailedMeansNotTraining).
UploadReported ==
    \A j \in Jobs :
        /\ IsSucceeded(cpod[j].conds) /\ Uploads(j)
            ~> Gone(j) \/ upload[j].state # "none"
        /\ upload[j].state = "succeeded"
            ~> Gone(j) \/ IsFailed(cpod[j].conds) \/ cpod[j].conds["ModelUploaded"] # "absent"

----------------------------------------------------------------------------
(* What the repository's comments say and the code does not do.  Each has  *)
(* a run that shows the difference.                                        *)

\* "JobFailed means ... The training has failed its execution."
FailedMeansNotTraining ==
    \A j \in Jobs : IsFailed(cpod[j].conds) => base[j].phase \in {"none", "failed"}

\* "JobSucceeded means all sub-resources ... of this job reached phase have
\* terminated in success", when a name is used again.
SucceededMeansOwn ==
    \A j \in Jobs : IsSucceeded(cpod[j].conds) => base[j] = [owner |-> cpod[j].uid, phase |-> "succeeded"]

\* "modelupload backofflimit exceed": an upload whose Job failed is reported
\* as one.
FailedUploadReported ==
    \A j \in Jobs :
        upload[j].state = "failed" ~> Gone(j) \/ cpod[j].conds["ModelUploaded"] = "False"

\* GetCKPTPVC returns "the retrieved or created PVC": its caller has one.
ClaimInHand == pc # "panicked"
=============================================================================
