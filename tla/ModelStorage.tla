---------------------------- MODULE ModelStorage ----------------------------
(***************************************************************************)
(* The reconciler of ModelStorages                                         *)
(* (internal/controller/modelstorage_controller.go): for a model that the  *)
(* hub has (pkg/modelhub) it creates a volume claim and a Job that         *)
(* downloads the model into it, and reports in the phase when that is      *)
(* done.  The phase is what CheckArtifacts of CPodJobController waits for. *)
(* cmd/operator/main.go does not start this reconciler at present.         *)
(*                                                                         *)
(* As in CPodJobController, reads go to caches, writes to the API server,  *)
(* an action is the code from one access to the next, and the environment  *)
(* moves between any two of them.  Only ModelStorages raise events.        *)
(***************************************************************************)
EXTENDS Integers

CONSTANTS
    Models,      \* names of ModelStorages
    NoModel,     \* no name
    MaxUid,      \* bound: how often a name is created
    MaxVersion,  \* bound: a Job that exists is in the cache by this version
    MaxFaults    \* bound: failed calls, lost answers and crashes

ASSUME NoModelAssumption == NoModel \notin Models
ASSUME BoundsAssumption == MaxUid \in Nat \ {0} /\ MaxVersion \in Nat /\ MaxFaults \in Nat

\* What the spec of a name leads to: a hub that is not supported, a model the
\* hub does not have, one in which ModelSize counts nothing, one it counts.
Repo == {"other", "missing", "empty", "sized"}

VARIABLES
    repo,        \* of each name
    obj, cObj,   \* ModelStorages: in the API server, in the operator's cache
    job, cJob,   \* download Jobs: the same
    claim,       \* volume claims, which the reconciler never reads
    queue,       \* the work queue
    pc, w,       \* the worker: where it is, the object in its hands
    born,        \* uids handed out per name
    removed,     \* the names whose Job a user has removed (bound: once each)
    faults       \* faults so far

api == <<obj, job, claim>>
cache == <<cObj, cJob>>
worker == <<pc, w>>
vars == <<repo, obj, cObj, job, cJob, claim, queue, pc, w, born, removed, faults>>

----------------------------------------------------------------------------
(* Objects.  A name that is not taken has uid or owner 0.                  *)

Uid == 0..MaxUid

\* claim, job: TargetPVCName and TargetDownloadJobName are set; failure:
\* FailureMessage is.
Status == [claim: BOOLEAN, job: BOOLEAN, phase: {"", "syncing", "done"}, failure: BOOLEAN]
NoStatus == [claim |-> FALSE, job |-> FALSE, phase |-> "", failure |-> FALSE]

Object == [uid: Uid, rv: Nat, status: Status]
NoObject == [uid |-> 0, rv |-> 0, status |-> NoStatus]

JobObject == [owner: Uid, state: {"none", "active", "succeeded", "failed"}]
NoJob == [owner |-> 0, state |-> "none"]

\* data: the model is in the volume.
Claim == [owner: Uid, data: BOOLEAN]
NoClaim == [owner |-> 0, data |-> FALSE]

PC == {"idle", "size", "missing", "claim", "claimed", "create", "syncing",
       "look", "forget", "done", "down"}

Work == [model: Models \cup {NoModel}, uid: Uid, rv: Nat, status: Status]
NoWork == [model |-> NoModel, uid |-> 0, rv |-> 0, status |-> NoStatus]

Init ==
    /\ repo \in [Models -> Repo]
    /\ obj = [m \in Models |-> NoObject] /\ cObj = obj
    /\ job = [m \in Models |-> NoJob] /\ cJob = job
    /\ claim = [m \in Models |-> NoClaim]
    /\ queue = {} /\ pc = "idle" /\ w = NoWork
    /\ born = [m \in Models |-> 0] /\ removed = {}
    /\ faults = 0

----------------------------------------------------------------------------
(* Users, the hub and the rest of the cluster.                             *)

Create(m) ==
    /\ obj[m].uid = 0 /\ born[m] < MaxUid
    /\ born' = [born EXCEPT ![m] = @ + 1]
    /\ obj' = [obj EXCEPT ![m] = [uid |-> born[m] + 1, rv |-> 1, status |-> NoStatus]]
    /\ UNCHANGED <<repo, job, claim, cache, queue, worker, removed, faults>>

Delete(m) ==
    /\ obj[m].uid \in 1..(MaxUid - 1)
    /\ obj' = [obj EXCEPT ![m] = NoObject]
    /\ UNCHANGED <<repo, job, claim, cache, queue, worker, born, removed, faults>>

\* The model appears at the hub.
Publish(m) ==
    /\ repo[m] = "missing"
    /\ repo' = [repo EXCEPT ![m] = "sized"]
    /\ UNCHANGED <<api, cache, queue, worker, born, removed, faults>>

\* The garbage collector removes what a ModelStorage that is gone owned.
CollectJob(m) ==
    /\ job[m].owner \notin {0, obj[m].uid}
    /\ job' = [job EXCEPT ![m] = NoJob]
    /\ UNCHANGED <<repo, obj, claim, cache, queue, worker, born, removed, faults>>

CollectClaim(m) ==
    /\ claim[m].owner \notin {0, obj[m].uid}
    /\ claim' = [claim EXCEPT ![m] = NoClaim]
    /\ UNCHANGED <<repo, obj, job, cache, queue, worker, born, removed, faults>>

\* A user deletes the Job; the code means to start the download again.
RemoveJob(m) ==
    /\ job[m].state # "none" /\ m \notin removed
    /\ removed' = removed \cup {m}
    /\ job' = [job EXCEPT ![m] = NoJob]
    /\ UNCHANGED <<repo, obj, claim, cache, queue, worker, born, faults>>

\* The Job's pod mounts the claim, so it starts only when that exists.
JobSucceeds(m) ==
    /\ job[m].state = "active" /\ claim[m].owner # 0
    /\ job' = [job EXCEPT ![m].state = "succeeded"]
    /\ claim' = [claim EXCEPT ![m].data = TRUE]
    /\ UNCHANGED <<repo, obj, cache, queue, worker, born, removed, faults>>

JobFails(m) ==
    /\ job[m].state = "active" /\ claim[m].owner # 0
    /\ job' = [job EXCEPT ![m].state = "failed"]
    /\ UNCHANGED <<repo, obj, claim, cache, queue, worker, born, removed, faults>>

----------------------------------------------------------------------------
(* The informers, and the process.                                         *)

Alive == pc # "down"
Behind(m) == cObj[m] # obj[m]

WatchModel(m) ==
    /\ Alive /\ Behind(m)
    /\ cObj' = [cObj EXCEPT ![m] = obj[m]]
    /\ queue' = queue \cup {m}
    /\ UNCHANGED <<repo, api, cJob, worker, born, removed, faults>>

WatchJob(m) ==
    /\ Alive /\ cJob[m] # job[m]
    /\ cJob' = [cJob EXCEPT ![m] = job[m]]
    /\ UNCHANGED <<repo, api, cObj, queue, worker, born, removed, faults>>

\* Every SyncPeriod (10 hours unless set) the informer shows all it has.
Resync(m) ==
    /\ Alive /\ cObj[m].uid # 0 /\ m \notin queue
    /\ queue' = queue \cup {m}
    /\ UNCHANGED <<repo, api, cache, worker, born, removed, faults>>

Fault == faults < MaxFaults /\ faults' = faults + 1

Crash ==
    /\ Alive /\ Fault
    /\ pc' = "down" /\ w' = NoWork
    /\ UNCHANGED <<repo, api, cache, queue, born, removed>>

Restart ==
    /\ ~Alive
    /\ cObj' = obj /\ cJob' = job
    /\ queue' = {m \in Models : obj[m].uid # 0}
    /\ pc' = "idle" /\ w' = NoWork
    /\ UNCHANGED <<repo, api, born, removed, faults>>

----------------------------------------------------------------------------
(* Reconcile.                                                              *)

\* How a call that writes ends: as it should, refused, or done with the
\* answer lost.
Answer == {"ok", "refused", "lost"}
Calls(a) == IF a = "ok" THEN UNCHANGED faults ELSE Fault

\* Reconcile ends, with an error or a Requeue or without.
Again == pc' = "idle" /\ w' = NoWork /\ queue' = queue \cup {w.model}
Done == pc' = "idle" /\ w' = NoWork /\ UNCHANGED queue

\* Reconcile goes on, with status s in its hands.
Continue(p, s) == pc' = p /\ w' = [w EXCEPT !.status = s] /\ UNCHANGED queue

\* Mutant: a status is written over whatever version is there.
CurrentAnyVersion(o) == o.uid = w.uid

\* The API server takes a status that was computed from what it holds.
Current(o) == o.uid = w.uid /\ o.rv = w.rv

\* A status that changes nothing makes no new version.
UpdateStatus(a) ==
    LET o == obj[w.model] IN
    /\ Calls(a)
    /\ obj' = IF a # "refused" /\ Current(o) /\ o.status # w.status
              THEN [obj EXCEPT ![w.model] = [uid |-> o.uid, rv |-> o.rv + 1, status |-> w.status]]
              ELSE obj

\* The caller learns that its status was taken, and by which version it goes on.
Taken(a) == a = "ok" /\ Current(obj[w.model])
GoOn(p) == pc' = p /\ w' = [w EXCEPT !.rv = obj'[w.model].rv] /\ UNCHANGED queue

\* Mutant: the Job is created only along with the claim.
ResumeNested(s) == IF ~s.claim THEN "size" ELSE "look"

\* The part of Reconcile that a status leads to.
Resume(s) == IF ~s.claim THEN "size" ELSE IF ~s.job THEN "create" ELSE "look"

Start(m) ==
    /\ pc = "idle" /\ m \in queue /\ cObj[m].uid # 0
    /\ queue' = queue \ {m}
    /\ pc' = Resume(cObj[m].status)
    /\ w' = [model |-> m, uid |-> cObj[m].uid, rv |-> cObj[m].rv, status |-> cObj[m].status]
    /\ UNCHANGED <<repo, api, cache, born, removed, faults>>

\* IgnoreNotFound
Drop(m) ==
    /\ pc = "idle" /\ m \in queue /\ cObj[m].uid = 0
    /\ queue' = queue \ {m}
    /\ UNCHANGED <<repo, api, cache, worker, born, removed, faults>>

\* ModelHubClient knows no such hub, or ModelSize fails.  An answer of the hub
\* without Data makes ModelSize panic instead, which is a Crash.
HubFails ==
    /\ pc = "size"
    /\ IF repo[w.model] = "other" THEN UNCHANGED faults ELSE Fault
    /\ Again
    /\ UNCHANGED <<repo, api, cache, born, removed>>

\* ErrModelNotFound
ModelMissing ==
    /\ pc = "size" /\ repo[w.model] = "missing"
    /\ Continue("missing", [w.status EXCEPT !.failure = TRUE])
    /\ UNCHANGED <<repo, api, cache, born, removed, faults>>

\* Mutant: the failure of an earlier round stays in the status.
ClearedNot(s) == s

\* FailureMessage = nil
Cleared(s) == [s EXCEPT !.failure = FALSE]

ModelFound ==
    /\ pc = "size" /\ repo[w.model] \in {"empty", "sized"}
    /\ Continue("claim", Cleared(w.status))
    /\ UNCHANGED <<repo, api, cache, born, removed, faults>>

\* The failure is final unless its update fails.
WriteMissing ==
    /\ pc = "missing"
    /\ \E a \in Answer : UpdateStatus(a) /\ (IF Taken(a) THEN Done ELSE Again)
    /\ UNCHANGED <<repo, job, claim, cache, born, removed>>

\* A claim of 0 GB is invalid.  One that is there is as good as a new one.
Claimed ==
    IF repo[w.model] = "sized" /\ claim[w.model].owner = 0
    THEN [claim EXCEPT ![w.model] = [owner |-> w.uid, data |-> FALSE]]
    ELSE claim

\* The error of Create is dropped (line 126 tests the one of ModelSize).
CreateClaim ==
    /\ pc = "claim"
    /\ \/ claim' = Claimed /\ UNCHANGED faults
       \/ UNCHANGED claim /\ Fault
    /\ Continue("claimed", [w.status EXCEPT !.claim = TRUE])
    /\ UNCHANGED <<repo, obj, job, cache, born, removed>>

\* An update that fails ends Reconcile without an error.
WriteClaimed ==
    /\ pc = "claimed"
    /\ \E a \in Answer : UpdateStatus(a) /\ (IF Taken(a) THEN GoOn(Resume(w.status)) ELSE Done)
    /\ UNCHANGED <<repo, job, claim, cache, born, removed>>

CreateJob ==
    /\ pc = "create"
    /\ \E a \in Answer :
          /\ Calls(a)
          /\ job' = IF a # "refused" /\ job[w.model].state = "none"
                    THEN [job EXCEPT ![w.model] = [owner |-> w.uid, state |-> "active"]]
                    ELSE job
          /\ IF a = "ok"
             THEN Continue("syncing", [w.status EXCEPT !.job = TRUE, !.phase = "syncing"])
             ELSE Again
    /\ UNCHANGED <<repo, obj, claim, cache, born, removed>>

\* An update that fails is tried again in 10 seconds.
WriteSyncing ==
    /\ pc = "syncing"
    /\ \E a \in Answer : UpdateStatus(a) /\ (IF Taken(a) THEN GoOn("look") ELSE Again)
    /\ UNCHANGED <<repo, job, claim, cache, born, removed>>

\* Mutant: a Job that is over is taken for one that succeeded.
FinishedAny(state) == state \in {"succeeded", "failed"}

Finished(state) == state = "succeeded"

\* Mutant: a Job that is under way is not looked at again.
LookAgainForgotten == Done

\* Requeue: true
LookAgain == Again

\* The Job is read from the cache, which may not show it yet.
Look ==
    /\ pc = "look"
    /\ \/ /\ cJob[w.model].state = "none"
          /\ w.rv < MaxVersion \/ job[w.model].state = "none"
          /\ Continue("forget", [w.status EXCEPT !.job = FALSE])
       \/ /\ Finished(cJob[w.model].state)
          /\ Continue("done", [w.status EXCEPT !.phase = "done"])
       \/ /\ cJob[w.model].state # "none" /\ ~Finished(cJob[w.model].state)
          /\ LookAgain
    /\ UNCHANGED <<repo, api, cache, born, removed, faults>>

\* The name of a Job that is not there is taken back, and Reconcile returns
\* the error of Get; when that update fails it returns none.
WriteForget ==
    /\ pc = "forget"
    /\ \E a \in Answer : UpdateStatus(a) /\ (IF Taken(a) THEN Again ELSE Done)
    /\ UNCHANGED <<repo, job, claim, cache, born, removed>>

\* An update that fails ends Reconcile without an error.
WriteDone ==
    /\ pc = "done"
    /\ \E a \in Answer : UpdateStatus(a)
    /\ Done
    /\ UNCHANGED <<repo, job, claim, cache, born, removed>>

----------------------------------------------------------------------------
Environment ==
    \E m \in Models :
        \/ Create(m) \/ Delete(m) \/ Publish(m) \/ RemoveJob(m)
        \/ CollectJob(m) \/ CollectClaim(m) \/ JobSucceeds(m) \/ JobFails(m)

Informers == \E m \in Models : WatchModel(m) \/ WatchJob(m) \/ Resync(m)

\* A reconcile that has begun.
Reconcile ==
    \/ HubFails \/ ModelMissing \/ ModelFound \/ WriteMissing
    \/ CreateClaim \/ WriteClaimed \/ CreateJob \/ WriteSyncing
    \/ Look \/ WriteForget \/ WriteDone

Next ==
    \/ Environment \/ Informers \/ Reconcile \/ Crash \/ Restart
    \/ \E m \in Models : Start(m) \/ Drop(m)

Spec == Init /\ [][Next]_vars

\* As in CPodJobController; an error or a Requeue is taken again, in order.
Fairness ==
    /\ WF_vars(Reconcile) /\ WF_vars(Restart)
    /\ \A m \in Models :
        /\ SF_vars(Start(m) \/ Drop(m))
        /\ WF_vars(WatchModel(m)) /\ WF_vars(WatchJob(m)) /\ WF_vars(Resync(m))
        /\ WF_vars(CollectJob(m)) /\ WF_vars(CollectClaim(m))

FairSpec == Spec /\ Fairness

----------------------------------------------------------------------------
\* What a status can say: a failure is one of the hub, from before there was
\* a claim; a phase comes with the first Job, which mounts the claim.
Sensible(s) ==
    /\ s.failure => ~s.claim
    /\ s.phase # "" => s.claim
    /\ s.job => s.phase # ""

TypeOK ==
    /\ repo \in [Models -> Repo]
    /\ obj \in [Models -> Object] /\ cObj \in [Models -> Object]
    /\ \A m \in Models : Sensible(obj[m].status) /\ Sensible(cObj[m].status)
    /\ job \in [Models -> JobObject] /\ cJob \in [Models -> JobObject]
    /\ claim \in [Models -> Claim]
    /\ queue \subseteq Models
    /\ pc \in PC /\ w \in Work /\ Sensible(w.status)
    /\ pc \in {"idle", "down"} <=> w.model = NoModel
    /\ born \in [Models -> Uid] /\ removed \subseteq Models
    /\ faults \in 0..MaxFaults

\* The first ModelStorage of its name, which finds nothing of a predecessor.
First(m) == obj[m].uid = 1

\* A model is reported as done only when it is in the volume, however stale
\* the caches are, whatever is lost or done again, and whichever Jobs and
\* ModelStorages users remove.  (They leave claims alone.)
DoneMeansDownloaded ==
    \A m \in Models :
        First(m) /\ obj[m].status.phase = "done" => claim[m] = [owner |-> 1, data |-> TRUE]

\* A phase that is done stays so unless a user removes the Job: the CPodJob
\* controller, which reads it later, counts on that (ArtifactDone there).
DoneStays ==
    [][\A m \in Models \ removed :
          First(m) /\ obj[m].status.phase = "done" /\ obj'[m].uid = 1
              => obj'[m].status.phase = "done"]_vars

\* As long as no call fails, no wake-up is lost: a ModelStorage that is
\* neither done nor failed is queued, in hand, or has an event under way.
\* After a failed update (lines 133, 214, 225) only a resync wakes it.
Waiting(m) == obj[m].uid # 0 /\ obj[m].status.phase # "done" /\ ~obj[m].status.failure
NoLostWakeup ==
    faults = 0 /\ Alive =>
        \A m \in Models : Waiting(m) => m \in queue \/ w.model = m \/ Behind(m)

\* Whatever fails, a model that the hub has, with files, gets a download Job
\* again and again, however often the Job goes missing, and one that is
\* downloaded is reported as done while its Job is there.  (Not that the Job's
\* pod can start: the error of the claim's Create is dropped.)
Downloaded ==
    \A m \in Models :
        /\ First(m) /\ repo[m] = "sized" ~> ~First(m) \/ job[m].state # "none"
        /\ First(m) /\ job[m] = [owner |-> 1, state |-> "succeeded"]
              ~> job[m].state # "succeeded" \/ obj[m].status.phase = "done"
=============================================================================
