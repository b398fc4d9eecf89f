---------------------- MODULE CPodJobController_proofs ----------------------
(***************************************************************************)
(* Proofs about CPodJobController, for any jobs, any specifications, any   *)
(* number of uses of a name, of faults and of upload attempts.             *)
(***************************************************************************)
EXTENDS CPodJobController, JobConditions_proofs

----------------------------------------------------------------------------
(* Types.                                                                  *)

LEMMA NothingTyped ==
  /\ NoCPod \in CPodObject /\ NoBase \in BaseObject /\ NoPvc \in PvcObject
  /\ NoUpload \in UploadObject /\ NoWork \in Work /\ NoWork.job = NoJob
  BY NoCondsGood, BoundsAssumption
  DEF NoCPod, NoBase, NoPvc, NoUpload, NoWork, Work, BasePhase, PvcState, UploadState,
      CPodObject, BaseObject, PvcObject, UploadObject, Uid

\* Objects stay objects when one of their fields changes.
LEMMA FieldsTyped ==
  /\ \A o \in BaseObject, p \in BasePhase : [o EXCEPT !.phase = p] \in BaseObject
  /\ \A o \in PvcObject, p \in PvcState : [o EXCEPT !.state = p] \in PvcObject
  /\ \A o \in UploadObject, p \in UploadState : [o EXCEPT !.state = p] \in UploadObject
  /\ \A o \in UploadObject, n \in Nat, p \in UploadState :
        [[o EXCEPT !.failed = n] EXCEPT !.state = p] \in UploadObject
  /\ \A o \in CPodObject, n \in Nat, c \in Conds :
        [[o EXCEPT !.rv = n] EXCEPT !.conds = c] \in CPodObject
  BY DEF BaseObject, PvcObject, UploadObject, CPodObject

\* And a table of objects stays one when one of them changes.
LEMMA TablesTyped ==
  ASSUME TypeOK, NEW j \in Jobs
  PROVE  /\ \A o \in CPodObject : [cpod EXCEPT ![j] = o] \in [Jobs -> CPodObject]
         /\ \A o \in BaseObject : [base EXCEPT ![j] = o] \in [Jobs -> BaseObject]
         /\ \A o \in UploadObject : [upload EXCEPT ![j] = o] \in [Jobs -> UploadObject]
         /\ \A v \in Volume, o \in PvcObject :
               [pvc EXCEPT ![v][j] = o] \in [Volume -> [Jobs -> PvcObject]]
  BY DEF TypeOK

\* Reconcile that returns, or goes on, has typed conditions in hand.
LEMMA ReturnTyped ==
  ASSUME TypeOK, w.job \in Jobs, NEW c \in Conds, NEW b \in BOOLEAN, Return(c, b)
  PROVE  pc' = "status" /\ w' \in Work /\ w'.job = w.job
  BY DEF TypeOK, Return, Work, Uid

LEMMA InitTyped == Init => TypeOK
  BY NothingTyped, BoundsAssumption
  DEF Init, TypeOK, PC, Uid

LEMMA UsersTyped ==
  ASSUME TypeOK, NEW j \in Jobs, CreateCPodJob(j) \/ DeleteCPodJob(j)
  PROVE  TypeOK'
  <1>1. CASE CreateCPodJob(j)
    <2>1. born[j] + 1 \in Uid /\ born' \in [Jobs -> Uid]
      BY <1>1, BoundsAssumption DEF TypeOK, CreateCPodJob, Uid
    <2>2. [uid |-> born[j] + 1, rv |-> 1, conds |-> NoConds] \in CPodObject
      BY <2>1, NoCondsGood DEF CPodObject
    <2>3. cpod' \in [Jobs -> CPodObject]
      BY <1>1, <2>2, TablesTyped DEF CreateCPodJob
    <2> QED
      BY <1>1, <2>1, <2>3 DEF TypeOK, CreateCPodJob, cache, worker
  <1>2. CASE DeleteCPodJob(j)
    <2>1. cpod' \in [Jobs -> CPodObject]
      BY <1>2, NothingTyped, TablesTyped DEF DeleteCPodJob
    <2> QED BY <1>2, <2>1 DEF TypeOK, DeleteCPodJob, cache, worker
  <1> QED BY <1>1, <1>2

LEMMA ClusterTyped == ASSUME TypeOK, Cluster PROVE TypeOK'
  <1> SUFFICES ASSUME NEW j \in Jobs,
                      \/ CollectBase(j) \/ CollectUpload(j)
                      \/ \E v \in Volume : CollectPvc(v, j) \/ BindPvc(v, j)
                      \/ BaseRuns(j)
                      \/ \E p \in {"succeeded", "failed"} : BaseEnds(j, p)
                      \/ ArtifactDone(j)
                      \/ UploadSucceeds(j) \/ UploadPodLost(j) \/ UploadGivesUp(j)
               PROVE  TypeOK'
    BY DEF Cluster
  <1>0. /\ base[j] \in BaseObject /\ upload[j] \in UploadObject
        /\ upload[j].failed + 1 \in Nat /\ upload[j].state \in UploadState
        /\ \A v \in Volume : pvc[v][j] \in PvcObject
    BY DEF TypeOK, UploadObject
  <1>1. ASSUME CollectBase(j) \/ BaseRuns(j) \/ \E p \in {"succeeded", "failed"} : BaseEnds(j, p)
        PROVE  TypeOK'
    <2>1. PICK o \in BaseObject : base' = [base EXCEPT ![j] = o]
      BY <1>0, <1>1, NothingTyped, FieldsTyped DEF CollectBase, BaseRuns, BaseEnds, BasePhase
    <2>2. base' \in [Jobs -> BaseObject]
      BY <2>1, TablesTyped
    <2> QED BY <1>1, <2>2 DEF CollectBase, BaseRuns, BaseEnds, TypeOK, cache, worker
  <1>2. ASSUME NEW v \in Volume, CollectPvc(v, j) \/ BindPvc(v, j)
        PROVE  TypeOK'
    <2>1. PICK o \in PvcObject : pvc' = [pvc EXCEPT ![v][j] = o]
      BY <1>0, <1>2, NothingTyped, FieldsTyped DEF CollectPvc, BindPvc, PvcState
    <2>2. pvc' \in [Volume -> [Jobs -> PvcObject]]
      BY <2>1, TablesTyped
    <2> QED BY <1>2, <2>2 DEF CollectPvc, BindPvc, TypeOK, cache, worker
  <1>3. ASSUME CollectUpload(j) \/ UploadSucceeds(j) \/ UploadPodLost(j) \/ UploadGivesUp(j)
        PROVE  TypeOK'
    <2>1. PICK o \in UploadObject : upload' = [upload EXCEPT ![j] = o]
      <3>1. CASE CollectUpload(j) BY <3>1, NothingTyped DEF CollectUpload
      <3>2. CASE UploadSucceeds(j) BY <1>0, <3>2, FieldsTyped DEF UploadSucceeds, UploadState
      <3>3. CASE UploadPodLost(j)
        <4> DEFINE p == IF upload[j].failed = BackoffLimit THEN "failed" ELSE upload[j].state
        <4>1. p \in UploadState BY <1>0 DEF UploadState
        <4>2. upload' = [upload EXCEPT ![j] =
                  [[upload[j] EXCEPT !.failed = upload[j].failed + 1] EXCEPT !.state = p]]
          BY <1>0, <3>3 DEF UploadPodLost, UploadObject, TypeOK
        <4> HIDE DEF p
        <4> QED BY <1>0, <4>1, <4>2, FieldsTyped
      <3>4. CASE UploadGivesUp(j)
        <4>1. upload' = [upload EXCEPT ![j] =
                  [[upload[j] EXCEPT !.failed = upload[j].failed + 1] EXCEPT !.state = "failed"]]
          BY <1>0, <3>4 DEF UploadGivesUp, UploadObject, TypeOK
        <4> QED BY <1>0, <4>1, FieldsTyped DEF UploadState
      <3> QED BY <1>3, <3>1, <3>2, <3>3, <3>4
    <2>2. upload' \in [Jobs -> UploadObject]
      BY <2>1, TablesTyped
    <2> QED
      BY <1>3, <2>2
      DEF CollectUpload, UploadSucceeds, UploadPodLost, UploadGivesUp, TypeOK, cache, worker
  <1>4. CASE ArtifactDone(j)
    BY <1>4 DEF ArtifactDone, TypeOK, api, cache, worker
  <1> QED BY <1>1, <1>2, <1>3, <1>4

LEMMA AdmittedTyped ==
  ASSUME NEW o \in CPodObject
  PROVE  Admitted(o) \in CPodObject /\ Admitted(o).uid = o.uid /\ Admitted(o).rv = o.rv
         /\ Admitted(o).conds = SetCondition(o.conds, "Created", "True")
  BY SetConditionType DEF Admitted, CondType, CondStatus, CPodObject

LEMMA InformersTyped == ASSUME TypeOK, Informers PROVE TypeOK'
  <1> USE DEF TypeOK, api, cache, worker
  <1> SUFFICES ASSUME NEW j \in Jobs,
                      \/ WatchCPod(j) \/ Admit(j) \/ WatchBase(j) \/ WatchUpload(j)
                      \/ \E v \in Volume : WatchPvc(v, j)
               PROVE  TypeOK'
    BY DEF Informers
  <1>1. CASE WatchCPod(j) BY <1>1 DEF WatchCPod
  <1>5. CASE Admit(j)
    <2>1. Admitted(cCpod[j]) \in CPodObject /\ Admitted(cCpod[j]).uid = cCpod[j].uid
      BY AdmittedTyped
    <2> QED BY <1>5, <2>1 DEF Admit
  <1>2. CASE WatchBase(j) BY <1>2 DEF WatchBase
  <1>3. CASE WatchUpload(j) BY <1>3 DEF WatchUpload
  <1>4. ASSUME NEW v \in Volume, WatchPvc(v, j) PROVE TypeOK'
    BY <1>4 DEF WatchPvc
  <1> QED BY <1>1, <1>2, <1>3, <1>4, <1>5

LEMMA CrashTyped == ASSUME TypeOK, Crash \/ Restart PROVE TypeOK'
  <1> USE DEF TypeOK, api, cache, worker
  <1>1. CASE Crash
    BY <1>1, NothingTyped, BoundsAssumption DEF Crash, PC
  <1>2. CASE Restart
    BY <1>2, NothingTyped DEF Restart, PC
  <1> QED BY <1>1, <1>2

\* Whatever the answer to a call, the count of faults stays within bounds.
LEMMA CallsTyped ==
  ASSUME faults \in 0..MaxFaults, NEW a, Calls(a)
  PROVE  faults' \in 0..MaxFaults
  BY BoundsAssumption DEF Calls

\* Inside a reconcile there is a name in hand.
LEMMA InHand ==
  ASSUME TypeOK, pc \notin {"idle", "panicked", "down"}
  PROVE  w.job \in Jobs
  BY DEF TypeOK, Work

LEMMA ReadTyped == ASSUME TypeOK, NEW j \in Jobs, Start(j) \/ Skip(j) PROVE TypeOK'
  <1> USE DEF TypeOK, api, cache, worker
  <1>1. CASE Start(j)
    <2>1. w' \in Work /\ w'.job = j
      BY <1>1 DEF Start, Work, CPodObject
    <2> QED BY <1>1, <2>1, NoJobAssumption DEF Start, PC
  <1>2. CASE Skip(j) BY <1>2 DEF Skip
  <1> QED BY <1>1, <1>2

LEMMA GetBaseTyped ==
  ASSUME TypeOK, GetBaseJobFails \/ GetBaseJobNotFound \/ UpdateStatus
  PROVE  TypeOK'
  <1>0. w.job \in Jobs /\ w.conds \in Conds
    BY InHand DEF GetBaseJobFails, GetBaseJobNotFound, UpdateStatus, TypeOK, Work, TryAgain, StillRunning
  <1>1. \A t \in CondType, s \in CondStatus : SetCondition(w.conds, t, s) \in Conds
    BY <1>0, SetConditionType
  <1>2. /\ pc' \in PC \ {"idle", "panicked", "down"}
        /\ w' \in Work /\ w'.job = w.job
    <2>1. CASE GetBaseJobFails
      BY <1>0, <2>1, ReturnTyped DEF GetBaseJobFails, PC, TryAgain
    <2>2. CASE GetBaseJobNotFound
      BY <2>2 DEF GetBaseJobNotFound, Continue, PC, TypeOK
    <2>3. CASE UpdateStatus
      <3>1. CASE Return(SetCondition(w.conds, "Failed", "True"), FALSE)
        BY <1>0, <1>1, <3>1, ReturnTyped DEF PC, CondType, CondStatus
      <3>2. CASE Return(SetCondition(w.conds, "Running", "True"), TRUE)
        BY <1>0, <1>1, <3>2, ReturnTyped DEF PC, CondType, CondStatus
      <3>3. CASE /\ pc' = IF Uploads(w.job) THEN "upload" ELSE "status"
                 /\ w' = [w EXCEPT !.conds = SetCondition(@, "Succeeded", "True")]
        BY <1>1, <3>3 DEF PC, CondType, CondStatus, TypeOK, Work
      <3> QED BY <2>3, <3>1, <3>2, <3>3 DEF UpdateStatus, StillRunning
    <2> QED BY <2>1, <2>2, <2>3
  <1>3. UNCHANGED <<spec, api, artifact, cache, queue, born, faults>>
    BY DEF GetBaseJobFails, GetBaseJobNotFound, UpdateStatus, TryAgain, StillRunning
  <1> QED BY <1>0, <1>2, <1>3, NoJobAssumption DEF TypeOK, api, cache

LEMMA CreateTyped ==
  ASSUME TypeOK, GetCKPTPVC \/ GetModelSavePVC \/ CheckArtifacts \/ CreateBaseJob
  PROVE  TypeOK'
  <1>0. w.job \in Jobs /\ w.conds \in Conds /\ w.uid \in Uid
    BY InHand DEF GetCKPTPVC, GetModelSavePVC, CheckArtifacts, CreateBaseJob, TypeOK, Work, TryAgain
  <1>1. ASSUME NEW v \in Volume, NEW a \in Answer, CreatePvc(v, a)
        PROVE  pvc' \in [Volume -> [Jobs -> PvcObject]] /\ faults' \in 0..MaxFaults
    <2>1. [owner |-> w.uid, state |-> "pending"] \in PvcObject
      BY <1>0 DEF PvcObject, PvcState
    <2>2. pvc' \in [Volume -> [Jobs -> PvcObject]]
      BY <1>0, <1>1, <2>1, TablesTyped DEF CreatePvc, TypeOK
    <2> QED BY <1>1, <2>2, CallsTyped DEF CreatePvc, TypeOK
  <1>2. CASE GetCKPTPVC
    <2>1. pvc' \in [Volume -> [Jobs -> PvcObject]] /\ faults' \in 0..MaxFaults
      BY <1>1, <1>2 DEF GetCKPTPVC, Volume, TypeOK, TryAgain
    <2>2. /\ pc' \in PC /\ w' \in Work
          /\ pc' \in {"idle", "panicked", "down"} <=> w'.job = NoJob
      <3>1. CASE Continue("save")
        BY <1>0, <1>2, <3>1, NoJobAssumption DEF GetCKPTPVC, Continue, PC, TypeOK, TryAgain
      <3>2. CASE Return(w.conds, TRUE)
        BY <1>0, <3>2, ReturnTyped, NoJobAssumption DEF PC
      <3>3. CASE pc' = "panicked" /\ w' = NoWork
        BY <3>3, NothingTyped DEF PC
      <3> QED BY <1>2, <3>1, <3>2, <3>3 DEF GetCKPTPVC, TryAgain
    <2> QED BY <1>2, <2>1, <2>2 DEF GetCKPTPVC, TypeOK, cache, TryAgain
  <1>3. CASE GetModelSavePVC
    <2>1. pvc' \in [Volume -> [Jobs -> PvcObject]] /\ faults' \in 0..MaxFaults
      BY <1>1, <1>3 DEF GetModelSavePVC, Volume, TypeOK, TryAgain
    <2>2. /\ pc' \in PC \ {"idle", "panicked", "down"}
          /\ w' \in Work /\ w'.job = w.job
      <3>1. CASE Continue("data")
        BY <3>1 DEF Continue, PC, TypeOK
      <3>2. CASE Return(w.conds, TRUE)
        BY <1>0, <3>2, ReturnTyped DEF PC
      <3> QED BY <1>3, <3>1, <3>2 DEF GetModelSavePVC, TryAgain
    <2> QED BY <1>0, <1>3, <2>1, <2>2, NoJobAssumption DEF GetModelSavePVC, TypeOK, cache, TryAgain
  <1>4. CASE CheckArtifacts
    <2>1. /\ pc' \in PC \ {"idle", "panicked", "down"}
          /\ w' \in Work /\ w'.job = w.job
      <3>1. CASE Continue("create") \/ Continue("bare")
        BY <3>1 DEF Continue, PC, TypeOK
      <3>2. CASE Return(SetCondition(w.conds, "Failed", "True"), TRUE)
        BY <1>0, <3>2, ReturnTyped, SetConditionType DEF PC, CondType, CondStatus
      <3> QED BY <1>4, <3>1, <3>2 DEF CheckArtifacts
    <2>2. faults' \in 0..MaxFaults
      BY <1>4, CallsTyped DEF CheckArtifacts, TypeOK
    <2> QED BY <1>0, <1>4, <2>1, <2>2, NoJobAssumption DEF CheckArtifacts, TypeOK, api, cache
  <1>5. CASE CreateBaseJob
    <2>1. pc' = "status" /\ w' \in Work /\ w'.job = w.job
      BY <1>0, <1>5, ReturnTyped DEF CreateBaseJob, TryAgain
    <2>2. \A p \in {"new", "stuck"} : [owner |-> w.uid, phase |-> p] \in BaseObject
      BY <1>0 DEF BaseObject, BasePhase
    <2>3. base' \in [Jobs -> BaseObject] /\ faults' \in 0..MaxFaults
      BY <1>0, <1>5, <2>2, TablesTyped, CallsTyped DEF CreateBaseJob, TypeOK, TryAgain
    <2> QED BY <1>0, <1>5, <2>1, <2>3, NoJobAssumption DEF CreateBaseJob, TypeOK, cache, PC, TryAgain
  <1> QED BY <1>2, <1>3, <1>4, <1>5

LEMMA UploadTyped == ASSUME TypeOK, UploadSavedModel PROVE TypeOK'
  <1>0. w.job \in Jobs /\ w.conds \in Conds /\ w.uid \in Uid
    BY InHand DEF UploadSavedModel, TypeOK, Work, TryAgain, UploadUnderWay
  <1>1. \A t \in CondType, s \in CondStatus : SetCondition(w.conds, t, s) \in Conds
    BY <1>0, SetConditionType
  <1>2. PICK c \in Conds, b \in BOOLEAN : Return(c, b)
    <2>1. \/ Return(SetCondition(w.conds, "ModelUploading", "True"), TRUE)
          \/ Return(w.conds, TRUE)
          \/ Return(SetCondition(w.conds, "ModelUploaded", "True"), FALSE)
          \/ Return(SetCondition(w.conds, "ModelUploaded", "False"), FALSE)
      BY DEF UploadSavedModel, TryAgain, UploadUnderWay
    <2> QED BY <1>0, <1>1, <2>1 DEF CondType, CondStatus
  <1>3. pc' = "status" /\ w' \in Work /\ w'.job = w.job
    BY <1>0, <1>2, ReturnTyped
  <1>4. upload' \in [Jobs -> UploadObject] /\ faults' \in 0..MaxFaults
    <2>1. [owner |-> w.uid, state |-> "active", failed |-> 0] \in UploadObject
      BY <1>0 DEF UploadObject, UploadState
    <2>2. ASSUME NEW a \in Answer, CreateUpload(a)
          PROVE  upload' \in [Jobs -> UploadObject] /\ faults' \in 0..MaxFaults
      BY <1>0, <2>1, <2>2, TablesTyped, CallsTyped DEF CreateUpload, TypeOK
    <2>3. UNCHANGED <<upload, faults>> \/ \E a \in Answer : CreateUpload(a)
      BY DEF UploadSavedModel, TryAgain, UploadUnderWay
    <2> QED BY <2>2, <2>3 DEF TypeOK
  <1> QED BY <1>0, <1>3, <1>4, NoJobAssumption DEF UploadSavedModel, TypeOK, cache, PC, TryAgain, UploadUnderWay

\* A status update replaces the conditions of the job in hand, with a new
\* version, or does nothing.
LEMMA FinishWrites ==
  ASSUME TypeOK, Finish
  PROVE  \/ cpod' = cpod
         \/ /\ Current(cpod[w.job]) /\ w.conds # w.old
            /\ cpod' = [cpod EXCEPT ![w.job] =
                         [uid |-> w.uid, rv |-> w.rv + 1, conds |-> w.conds]]
  BY DEF Finish, Requeue

LEMMA FinishTyped == ASSUME TypeOK, Finish PROVE TypeOK'
  <1>0. w.job \in Jobs /\ w.conds \in Conds
    BY InHand DEF Finish, TypeOK, Work, Requeue
  <1>1. queue' \subseteq Jobs
    BY <1>0 DEF Finish, TypeOK, Requeue
  <1>2. cpod' \in [Jobs -> CPodObject] /\ faults' \in 0..MaxFaults
    <2>1. w.uid \in Uid /\ w.rv + 1 \in Nat
      BY DEF TypeOK, Work
    <2>2. [uid |-> w.uid, rv |-> w.rv + 1, conds |-> w.conds] \in CPodObject
      BY <1>0, <2>1 DEF CPodObject
    <2>3. cpod' \in [Jobs -> CPodObject]
      BY <1>0, <2>2, FinishWrites, TablesTyped DEF TypeOK
    <2>4. faults' = faults \/ \E a \in Answer : Calls(a)
      BY DEF Finish, Requeue
    <2> QED BY <2>3, <2>4, CallsTyped DEF TypeOK
  <1> QED BY <1>1, <1>2, NothingTyped DEF Finish, TypeOK, PC, cache, Requeue

LEMMA NextTyped == ASSUME TypeOK, [Next]_vars PROVE TypeOK'
  <1>1. CASE Users BY <1>1, UsersTyped DEF Users
  <1>2. CASE Cluster BY <1>2, ClusterTyped
  <1>3. CASE Informers BY <1>3, InformersTyped
  <1>4. CASE Worker
    BY <1>4, ReadTyped, GetBaseTyped, CreateTyped, UploadTyped, FinishTyped
    DEF Worker, Reconcile
  <1>5. CASE Crash \/ Restart BY <1>5, CrashTyped
  <1>6. CASE UNCHANGED vars BY <1>6 DEF vars, TypeOK
  <1> QED BY <1>1, <1>2, <1>3, <1>4, <1>5, <1>6 DEF Next

\* Every variable of the controller keeps its type, and a name is in hand
\* exactly while a reconcile is in progress.
THEOREM TypeCorrect == Spec => []TypeOK
  BY InitTyped, NextTyped, PTL DEF Spec

----------------------------------------------------------------------------
(* The conditions that go round: from the API server to the cache, into a  *)
(* reconcile, and back.  They stay coherent because each stage of a        *)
(* reconcile is entered only with the conditions its writes are safe for.  *)

Unlaunched == {"base", "ckpt", "save", "data", "create", "bare"}

AllGood ==
    /\ \A j \in Jobs : GoodConds(cpod[j].conds) /\ GoodConds(cCpod[j].conds)
    /\ GoodConds(w.conds) /\ GoodConds(w.old)

\* What the worker knows of the job in hand at each stage, and that it never
\* returns for good without something to write.
StageKnown ==
    /\ pc \in Unlaunched => ~IsFinished(w.conds) /\ ~IsFinished(w.old)
    /\ pc = "upload" => /\ IsSucceeded(w.conds) /\ w.conds["ModelUploaded"] = "absent"
                        /\ w.old["ModelUploaded"] = "absent"
    /\ pc = "status" /\ ~w.retry => w.conds # w.old

CoherentInv == TypeOK /\ AllGood /\ StageKnown

LEMMA InitCoherent == Init => AllGood /\ StageKnown
  BY NoCondsGood DEF Init, AllGood, StageKnown, NoCPod, NoWork, Unlaunched

\* Steps that leave the worker and the CPodJobs alone.
LEMMA ElsewhereCoherent ==
  ASSUME AllGood, StageKnown, UNCHANGED <<cpod, cCpod, worker>>
  PROVE  AllGood' /\ StageKnown'
  BY DEF AllGood, StageKnown, worker

\* Returning with good conditions that differ, or with another round asked.
LEMMA ReturnCoherent ==
  ASSUME TypeOK, AllGood, UNCHANGED <<cpod, cCpod>>,
         NEW c, GoodConds(c), NEW b \in BOOLEAN, b \/ c # w.old, Return(c, b)
  PROVE  AllGood' /\ StageKnown'
  <1>1. pc' = "status" /\ w'.conds = c /\ w'.retry = b /\ w'.old = w.old
    BY DEF Return, TypeOK, Work
  <1> QED BY <1>1 DEF AllGood, StageKnown, Unlaunched

LEMMA UsersCoherent ==
  ASSUME CoherentInv, NEW j \in Jobs, CreateCPodJob(j) \/ DeleteCPodJob(j)
  PROVE  AllGood' /\ StageKnown'
  <1>1. \A k \in Jobs : cpod'[k].conds \in {cpod[k].conds, NoConds}
    BY DEF CreateCPodJob, DeleteCPodJob, NoCPod, CoherentInv, TypeOK
  <1>2. UNCHANGED <<cCpod, worker>>
    BY DEF CreateCPodJob, DeleteCPodJob, cache
  <1> QED BY <1>1, <1>2, NoCondsGood DEF CoherentInv, AllGood, StageKnown, worker

LEMMA InformersCoherent ==
  ASSUME CoherentInv, Informers
  PROVE  AllGood' /\ StageKnown'
  <1>1. ASSUME NEW j \in Jobs, WatchCPod(j)
        PROVE  AllGood' /\ StageKnown'
    <2>1. UNCHANGED <<cpod, worker>>
      BY <1>1 DEF WatchCPod, api
    <2>2. \A k \in Jobs : GoodConds(cCpod'[k].conds)
      BY <1>1 DEF WatchCPod, CoherentInv, TypeOK, AllGood
    <2> QED BY <2>1, <2>2 DEF CoherentInv, AllGood, StageKnown, worker
  <1>3. ASSUME NEW j \in Jobs, Admit(j)
        PROVE  AllGood' /\ StageKnown'
    <2>1. UNCHANGED <<cpod, worker>>
      BY <1>3 DEF Admit, api
    <2>2. GoodConds(Admitted(cCpod[j]).conds)
      BY AdmittedTyped, CreatedGood DEF CoherentInv, TypeOK, AllGood
    <2>3. \A k \in Jobs : GoodConds(cCpod'[k].conds)
      BY <1>3, <2>2 DEF Admit, CoherentInv, TypeOK, AllGood
    <2> QED BY <2>1, <2>3 DEF CoherentInv, AllGood, StageKnown, worker
  <1>2. ASSUME NEW j \in Jobs,
               WatchBase(j) \/ WatchUpload(j) \/ \E v \in Volume : WatchPvc(v, j)
        PROVE  UNCHANGED <<cpod, cCpod, worker>>
    BY <1>2 DEF WatchBase, WatchUpload, WatchPvc, api
  <1> QED BY <1>1, <1>2, <1>3, ElsewhereCoherent DEF Informers, CoherentInv

LEMMA CrashCoherent ==
  ASSUME CoherentInv, Crash \/ Restart
  PROVE  AllGood' /\ StageKnown'
  <1>1. w' = NoWork /\ pc' \in {"down", "idle"} /\ cpod' = cpod
    BY DEF Crash, Restart, api
  <1>2. \A j \in Jobs : GoodConds(cCpod'[j].conds)
    <2>1. CASE Crash BY <2>1 DEF Crash, cache, CoherentInv, AllGood
    <2>2. CASE Restart BY <2>2 DEF Restart, CoherentInv, AllGood
    <2> QED BY <2>1, <2>2
  <1> QED BY <1>1, <1>2, NoCondsGood DEF CoherentInv, AllGood, StageKnown, NoWork, Unlaunched

LEMMA ReadCoherent ==
  ASSUME CoherentInv, NEW j \in Jobs, Start(j) \/ Skip(j)
  PROVE  AllGood' /\ StageKnown'
  <1>1. CASE Start(j)
    <2> DEFINE c == cCpod[j].conds
    <2>1. GoodConds(c) BY DEF CoherentInv, AllGood
    <2>2. w'.conds = c /\ w'.old = c /\ UNCHANGED <<cpod, cCpod>>
      BY <1>1 DEF Start, api, cache
    <2>3. /\ IsFinished(c) => pc' = "upload" /\ IsSucceeded(c) /\ c["ModelUploaded"] = "absent"
          /\ ~IsFinished(c) => pc' = "base"
      BY <1>1 DEF Start, NeedReconcile, IsFinished
    <2> HIDE DEF c
    <2> QED BY <2>1, <2>2, <2>3 DEF CoherentInv, AllGood, StageKnown, Unlaunched
  <1>2. CASE Skip(j)
    BY <1>2, ElsewhereCoherent DEF Skip, CoherentInv, api, cache
  <1> QED BY <1>1, <1>2

LEMMA GetBaseCoherent ==
  ASSUME CoherentInv, GetBaseJobFails \/ GetBaseJobNotFound \/ UpdateStatus
  PROVE  AllGood' /\ StageKnown'
  <1>0. /\ ~IsFinished(w.conds) /\ ~IsFinished(w.old) /\ GoodConds(w.conds) /\ GoodConds(w.old)
        /\ UNCHANGED <<cpod, cCpod>>
    BY DEF GetBaseJobFails, GetBaseJobNotFound, UpdateStatus, CoherentInv, AllGood, StageKnown,
       Unlaunched, api, cache, TryAgain, StillRunning
  <1>1. CASE GetBaseJobFails
    BY <1>0, <1>1, ReturnCoherent DEF GetBaseJobFails, CoherentInv, TryAgain
  <1>2. CASE GetBaseJobNotFound
    BY <1>0, <1>2 DEF GetBaseJobNotFound, Continue, CoherentInv, AllGood, StageKnown, Unlaunched
  <1>3. CASE Return(SetCondition(w.conds, "Failed", "True"), FALSE)
    <2>1. GoodConds(SetCondition(w.conds, "Failed", "True"))
      BY <1>0, VerdictGood
    <2>2. SetCondition(w.conds, "Failed", "True") # w.old
      <3>1. SetCondition(w.conds, "Failed", "True")["Failed"] = "True"
        BY <1>0, SetConditionAt DEF GoodConds, CondType, CondStatus, IsFinished, IsFailed, IsTrue
      <3> QED BY <1>0, <3>1 DEF IsFinished, IsFailed, IsTrue
    <2> QED BY <1>0, <1>3, <2>1, <2>2, ReturnCoherent DEF CoherentInv
  <1>4. CASE Return(SetCondition(w.conds, "Running", "True"), TRUE)
    BY <1>0, <1>4, VerdictGood, ReturnCoherent DEF CoherentInv
  <1>5. CASE /\ pc' = IF Uploads(w.job) THEN "upload" ELSE "status"
             /\ w' = [w EXCEPT !.conds = SetCondition(@, "Succeeded", "True")]
    <2> DEFINE d == SetCondition(w.conds, "Succeeded", "True")
    <2>1. GoodConds(d) /\ IsSucceeded(d) /\ d["ModelUploaded"] = "absent"
      BY <1>0, VerdictGood
    <2>2. w.old["ModelUploaded"] = "absent" /\ d # w.old
      BY <1>0, <2>1 DEF GoodConds, CoherentConds, IsFinished
    <2>3. w'.conds = d /\ w'.old = w.old
      BY <1>5 DEF CoherentInv, TypeOK, Work
    <2> HIDE DEF d
    <2> QED BY <1>0, <1>5, <2>1, <2>2, <2>3 DEF CoherentInv, AllGood, StageKnown, Unlaunched
  <1> QED BY <1>1, <1>2, <1>3, <1>4, <1>5 DEF UpdateStatus, StillRunning

LEMMA CreateCoherent ==
  ASSUME CoherentInv, GetCKPTPVC \/ GetModelSavePVC \/ CheckArtifacts \/ CreateBaseJob
  PROVE  AllGood' /\ StageKnown'
  <1>0. /\ ~IsFinished(w.conds) /\ ~IsFinished(w.old) /\ GoodConds(w.conds) /\ GoodConds(w.old)
        /\ UNCHANGED <<cpod, cCpod>>
    BY DEF GetCKPTPVC, GetModelSavePVC, CheckArtifacts, CreateBaseJob, CoherentInv, AllGood,
       StageKnown, Unlaunched, api, cache, TryAgain
  <1>1. \/ Continue("save") \/ Continue("data") \/ Continue("create") \/ Continue("bare")
        \/ Return(w.conds, TRUE)
        \/ Return(SetCondition(w.conds, "Failed", "True"), TRUE)
        \/ pc' = "panicked" /\ w' = NoWork
    BY DEF GetCKPTPVC, GetModelSavePVC, CheckArtifacts, CreateBaseJob, TryAgain
  <1>2. CASE Continue("save") \/ Continue("data") \/ Continue("create") \/ Continue("bare")
    BY <1>0, <1>2 DEF Continue, CoherentInv, AllGood, StageKnown, Unlaunched
  <1>3. CASE Return(w.conds, TRUE)
    BY <1>0, <1>3, ReturnCoherent DEF CoherentInv
  <1>4. CASE Return(SetCondition(w.conds, "Failed", "True"), TRUE)
    BY <1>0, <1>4, VerdictGood, ReturnCoherent DEF CoherentInv
  <1>5. CASE pc' = "panicked" /\ w' = NoWork
    BY <1>0, <1>5, NoCondsGood DEF CoherentInv, AllGood, StageKnown, NoWork, Unlaunched
  <1> QED BY <1>1, <1>2, <1>3, <1>4, <1>5

LEMMA UploadCoherent ==
  ASSUME CoherentInv, UploadSavedModel
  PROVE  AllGood' /\ StageKnown'
  <1>0. /\ IsSucceeded(w.conds) /\ w.conds["ModelUploaded"] = "absent"
        /\ w.old["ModelUploaded"] = "absent" /\ GoodConds(w.conds)
        /\ UNCHANGED <<cpod, cCpod>>
    BY DEF UploadSavedModel, CoherentInv, AllGood, StageKnown, cache, TryAgain, UploadUnderWay
  <1>1. \/ Return(SetCondition(w.conds, "ModelUploading", "True"), TRUE)
        \/ Return(w.conds, TRUE)
        \/ \E s \in CondStatus : Return(SetCondition(w.conds, "ModelUploaded", s), FALSE)
    BY DEF UploadSavedModel, CondStatus, TryAgain, UploadUnderWay
  <1>2. CASE Return(SetCondition(w.conds, "ModelUploading", "True"), TRUE)
    BY <1>0, <1>2, UploadGood, ReturnCoherent DEF CoherentInv
  <1>3. CASE Return(w.conds, TRUE)
    BY <1>0, <1>3, ReturnCoherent DEF CoherentInv
  <1>4. ASSUME NEW s \in CondStatus, Return(SetCondition(w.conds, "ModelUploaded", s), FALSE)
        PROVE  AllGood' /\ StageKnown'
    <2>1. SetCondition(w.conds, "ModelUploaded", s) # w.old
      BY <1>0, UploadGood DEF CondStatus
    <2> QED BY <1>0, <1>4, <2>1, UploadGood, ReturnCoherent DEF CoherentInv
  <1> QED BY <1>1, <1>2, <1>3, <1>4

LEMMA FinishCoherent ==
  ASSUME CoherentInv, Finish
  PROVE  AllGood' /\ StageKnown'
  <1>0. w.job \in Jobs
    BY InHand DEF Finish, CoherentInv, Requeue
  <1>1. \A j \in Jobs : cpod'[j].conds \in {cpod[j].conds, w.conds}
    BY <1>0, FinishWrites DEF CoherentInv, TypeOK
  <1>2. w' = NoWork /\ pc' = "idle" /\ UNCHANGED cCpod
    BY DEF Finish, cache, Requeue
  <1> QED BY <1>1, <1>2, NoCondsGood DEF CoherentInv, AllGood, StageKnown, NoWork, Unlaunched

LEMMA NextCoherent ==
  ASSUME CoherentInv, [Next]_vars
  PROVE  CoherentInv'
  <1>1. TypeOK' BY NextTyped DEF CoherentInv
  <1>2. AllGood' /\ StageKnown'
    <2>1. CASE Users BY <2>1, UsersCoherent DEF Users
    <2>2. CASE Cluster
      <3>1. UNCHANGED <<cpod, cCpod, worker>>
        BY <2>2 DEF Cluster, CollectBase, CollectUpload, CollectPvc, BindPvc, BaseRuns, BaseEnds,
           ArtifactDone, UploadSucceeds, UploadPodLost, UploadGivesUp, api, cache
      <3> QED BY <3>1, ElsewhereCoherent DEF CoherentInv
    <2>3. CASE Informers BY <2>3, InformersCoherent
    <2>4. CASE Worker
      BY <2>4, ReadCoherent, GetBaseCoherent, CreateCoherent, UploadCoherent, FinishCoherent
      DEF Worker, Reconcile
    <2>5. CASE Crash \/ Restart BY <2>5, CrashCoherent
    <2>6. CASE UNCHANGED vars
      BY <2>6, ElsewhereCoherent DEF vars, worker, CoherentInv
    <2> QED BY <2>1, <2>2, <2>3, <2>4, <2>5, <2>6 DEF Next
  <1> QED BY <1>1, <1>2 DEF CoherentInv

\* The strengthened invariant holds of every reachable state.
THEOREM CoherentInvariant == Spec => []CoherentInv
  <1>1. Init => CoherentInv
    BY InitTyped, InitCoherent DEF CoherentInv
  <1> QED BY <1>1, NextCoherent, PTL DEF Spec

\* However reconciles, stale reads, conflicts, lost answers and restarts
\* interleave, the conditions of a CPodJob never contradict each other.
THEOREM CoherentAlways == Spec => []Coherent
  <1>1. CoherentInv => Coherent
    BY DEF CoherentInv, AllGood, GoodConds, Coherent
  <1> QED BY <1>1, CoherentInvariant, PTL

----------------------------------------------------------------------------
(* No wake-up is lost.  The worker lets go of a name without asking for    *)
(* another round only when the cache told it that nothing is left to do,   *)
(* and then the API server says the same, or when it wrote a new version,  *)
(* which the cache does not have yet.                                      *)

Versions ==
    \A j \in Jobs :
        /\ cpod[j].uid <= born[j] /\ cCpod[j].uid <= born[j]
        /\ cpod[j].uid # 0 /\ cCpod[j].uid = cpod[j].uid => cCpod[j].rv <= cpod[j].rv

Agreement ==
    \A j \in Jobs : cpod[j].uid # 0 /\ ~Behind(j) => SameBut(cpod[j].conds, cCpod[j].conds)

WakeupInv == CoherentInv /\ Versions /\ Agreement /\ NoLostWakeup

LEMMA NeedAgrees ==
  ASSUME NEW c, NEW d, SameBut(c, d), NEW j
  PROVE  NeedReconcile(j, c) <=> NeedReconcile(j, d)
  BY DEF SameBut, NeedReconcile, IsFailed, IsSucceeded, IsTrue, CondType

LEMMA InitWakeup == Init => Versions /\ Agreement /\ NoLostWakeup
  BY DEF Init, Versions, Agreement, NoLostWakeup, NoCPod

\* Steps that leave CPodJobs and what is known of them alone lose nothing as
\* long as they drop no name.
LEMMA ElsewhereWakeup ==
  ASSUME WakeupInv, UNCHANGED <<spec, cpod, cCpod, created, born>>,
         queue \subseteq queue', Alive' => Alive /\ (w'.job = w.job \/ w.job \notin Jobs)
  PROVE  Versions' /\ Agreement' /\ NoLostWakeup'
  <1>1. Versions' /\ Agreement'
    BY DEF WakeupInv, Versions, Agreement, Behind
  <1>2. NoLostWakeup'
    BY DEF WakeupInv, NoLostWakeup, Behind, NeedReconcile, Uploads
  <1> QED BY <1>1, <1>2

LEMMA UsersWakeup ==
  ASSUME WakeupInv, NEW j \in Jobs, CreateCPodJob(j) \/ DeleteCPodJob(j)
  PROVE  Versions' /\ Agreement' /\ NoLostWakeup'
  <1>0. /\ UNCHANGED <<spec, cCpod, created, queue, pc, w>>
        /\ \A k \in Jobs \ {j} : cpod'[k] = cpod[k] /\ born'[k] = born[k]
    BY DEF CreateCPodJob, DeleteCPodJob, WakeupInv, CoherentInv, TypeOK, cache, worker
  <1>1. \/ /\ cpod'[j].uid = born[j] + 1 /\ born'[j] = born[j] + 1
        \/ /\ cpod'[j].uid = 0 /\ born'[j] = born[j]
    BY DEF CreateCPodJob, DeleteCPodJob, NoCPod, WakeupInv, CoherentInv, TypeOK
  <1>2. /\ born[j] \in Nat /\ cCpod[j].uid \in Nat /\ cCpod[j].uid <= born[j]
    BY DEF WakeupInv, CoherentInv, TypeOK, Versions, CPodObject, Uid
  <1>3. Versions'
    BY <1>0, <1>1, <1>2 DEF WakeupInv, Versions
  <1>4. Agreement'
    BY <1>0, <1>1, <1>2 DEF WakeupInv, Agreement, Behind
  <1>5. NoLostWakeup'
    BY <1>0, <1>1, <1>2 DEF WakeupInv, NoLostWakeup, Behind, NeedReconcile, Uploads, Alive
  <1> QED BY <1>3, <1>4, <1>5

LEMMA InformersWakeup ==
  ASSUME WakeupInv, Informers
  PROVE  Versions' /\ Agreement' /\ NoLostWakeup'
  <1>1. ASSUME NEW j \in Jobs, WatchCPod(j)
        PROVE  Versions' /\ Agreement' /\ NoLostWakeup'
    <2>0. /\ UNCHANGED <<spec, cpod, born, pc, w>> /\ queue \subseteq queue'
          /\ j \in queue' \/ j \in created' \/ cpod[j].uid = 0
          /\ \A k \in Jobs \ {j} : cCpod'[k] = cCpod[k] /\ (k \in created => k \in created')
          /\ cCpod'[j] = cpod[j]
      BY <1>1 DEF WatchCPod, api, worker, WakeupInv, CoherentInv, TypeOK
    <2>1. cpod[j] \in CPodObject
      BY DEF WakeupInv, CoherentInv, TypeOK
    <2>2. Versions'
      BY <2>0, <2>1 DEF WakeupInv, Versions, CPodObject
    <2>3. Agreement'
      BY <2>0 DEF WakeupInv, Agreement, Behind, SameBut
    <2>4. NoLostWakeup'
      BY <2>0 DEF WakeupInv, NoLostWakeup, Behind, NeedReconcile, Uploads, Alive
    <2> QED BY <2>2, <2>3, <2>4
  <1>3. ASSUME NEW j \in Jobs, Admit(j)
        PROVE  Versions' /\ Agreement' /\ NoLostWakeup'
    <2>0. /\ UNCHANGED <<spec, cpod, born, pc, w>> /\ queue' = queue \cup {j}
          /\ created' = created \ {j}
          /\ \A k \in Jobs \ {j} : cCpod'[k] = cCpod[k]
          /\ cCpod'[j] = Admitted(cCpod[j])
      BY <1>3 DEF Admit, api, worker, WakeupInv, CoherentInv, TypeOK
    <2>1. cCpod[j] \in CPodObject /\ cCpod[j].conds \in Conds
      BY DEF WakeupInv, CoherentInv, TypeOK, CPodObject
    <2>2. /\ cCpod'[j].uid = cCpod[j].uid /\ cCpod'[j].rv = cCpod[j].rv
          /\ cCpod'[j].conds = SetCondition(cCpod[j].conds, "Created", "True")
      BY <2>0, <2>1, AdmittedTyped
    <2>3. SameBut(cCpod[j].conds, cCpod'[j].conds)
      BY <2>1, <2>2, CreatedOnly DEF SameBut
    <2>4. Versions'
      BY <2>0, <2>2 DEF WakeupInv, Versions
    <2>5. Agreement'
      <3>1. ASSUME NEW k \in Jobs, cpod'[k].uid # 0, ~Behind(k)'
            PROVE  SameBut(cpod'[k].conds, cCpod'[k].conds)
        <4>1. SameBut(cpod[k].conds, cCpod[k].conds) /\ cpod' = cpod
          BY <2>0, <2>2, <3>1 DEF WakeupInv, Agreement, Behind
        <4>2. CASE k = j
          BY <2>3, <4>1, <4>2 DEF SameBut
        <4>3. CASE k # j
          BY <2>0, <4>1, <4>3
        <4> QED BY <4>2, <4>3
      <3> QED BY <3>1 DEF Agreement
    <2>6. NoLostWakeup'
      BY <2>0, <2>2 DEF WakeupInv, NoLostWakeup, Behind, NeedReconcile, Uploads, Alive
    <2> QED BY <2>4, <2>5, <2>6
  <1>2. ASSUME NEW j \in Jobs,
               WatchBase(j) \/ WatchUpload(j) \/ \E v \in Volume : WatchPvc(v, j)
        PROVE  Versions' /\ Agreement' /\ NoLostWakeup'
    <2>1. UNCHANGED <<spec, cpod, cCpod, created, born, pc, w>> /\ queue \subseteq queue'
      BY <1>2 DEF WatchBase, WatchUpload, WatchPvc, api, worker
    <2> QED BY <2>1, ElsewhereWakeup DEF Alive
  <1> QED BY <1>1, <1>2, <1>3 DEF Informers

LEMMA CrashWakeup ==
  ASSUME WakeupInv, Crash \/ Restart
  PROVE  Versions' /\ Agreement' /\ NoLostWakeup'
  <1>1. CASE Crash
    BY <1>1, ElsewhereWakeup DEF Crash, Alive, api, cache
  <1>2. CASE Restart
    <2>0. /\ UNCHANGED <<spec, cpod, born>> /\ cCpod' = cpod
          /\ created' = {k \in Jobs : cpod[k].uid # 0}
      BY <1>2 DEF Restart, api
    <2>1. \A j \in Jobs : cpod[j] \in CPodObject
      BY DEF WakeupInv, CoherentInv, TypeOK
    <2>2. Versions' /\ Agreement'
      BY <2>0, <2>1 DEF WakeupInv, CPodObject, Versions, Agreement, SameBut
    <2>3. NoLostWakeup'
      BY <2>0 DEF NoLostWakeup
    <2> QED BY <2>2, <2>3
  <1> QED BY <1>1, <1>2

LEMMA ReadWakeup ==
  ASSUME WakeupInv, NEW j \in Jobs, Start(j) \/ Skip(j)
  PROVE  Versions' /\ Agreement' /\ NoLostWakeup'
  <1>0. /\ UNCHANGED <<spec, cpod, cCpod, created, born>> /\ queue' = queue \ {j}
        /\ pc = "idle" /\ w.job = NoJob
    BY DEF Start, Skip, api, cache, WakeupInv, CoherentInv, TypeOK
  <1>1. Versions' /\ Agreement'
    BY <1>0 DEF WakeupInv, Versions, Agreement, Behind
  <1>2. CASE Start(j)
    <2>1. w'.job = j BY <1>2 DEF Start
    <2>2. Alive BY <1>0 DEF Alive
    <2> QED
      BY <1>0, <1>1, <2>1, <2>2, NoJobAssumption
      DEF WakeupInv, NoLostWakeup, Behind, NeedReconcile, Uploads
  <1>3. CASE Skip(j)
    <2>1. ~NeedReconcile(j, cCpod[j].conds) /\ UNCHANGED <<pc, w>>
      BY <1>3 DEF Skip, worker
    <2>2. cpod[j].uid # 0 /\ ~Behind(j) => ~NeedReconcile(j, cpod[j].conds)
      BY <2>1, NeedAgrees DEF WakeupInv, Agreement
    <2>3. NoLostWakeup'
      BY <1>0, <2>1, <2>2 DEF WakeupInv, NoLostWakeup, Behind, NeedReconcile, Uploads, Alive
    <2> QED BY <1>1, <2>3
  <1> QED BY <1>2, <1>3

LEMMA ReconcileWakeup ==
  ASSUME WakeupInv, Reconcile, ~Finish
  PROVE  Versions' /\ Agreement' /\ NoLostWakeup'
  <1>0. UNCHANGED <<spec, cpod, cCpod, created, born, queue>>
    BY DEF Reconcile, GetBaseJobFails, GetBaseJobNotFound, UpdateStatus, GetCKPTPVC,
       GetModelSavePVC, CheckArtifacts, CreateBaseJob, UploadSavedModel, api, cache, TryAgain, StillRunning, UploadUnderWay
  <1>1. Alive
    BY DEF Reconcile, GetBaseJobFails, GetBaseJobNotFound, UpdateStatus, GetCKPTPVC,
       GetModelSavePVC, CheckArtifacts, CreateBaseJob, UploadSavedModel, Alive, TryAgain, StillRunning, UploadUnderWay
  <1>2. Alive' => w'.job = w.job
    <2>1. \/ \E p \in PC : Continue(p)
          \/ \E c, b : Return(c, b)
          \/ w' = [w EXCEPT !.conds = SetCondition(@, "Succeeded", "True")]
          \/ pc' = "panicked"
      BY DEF Reconcile, GetBaseJobFails, GetBaseJobNotFound, UpdateStatus, GetCKPTPVC,
         GetModelSavePVC, CheckArtifacts, CreateBaseJob, UploadSavedModel, PC, TryAgain, StillRunning, UploadUnderWay
    <2> QED BY <2>1 DEF Continue, Return, Alive, WakeupInv, CoherentInv, TypeOK, Work
  <1> QED BY <1>0, <1>1, <1>2, ElsewhereWakeup

LEMMA FinishWakeup ==
  ASSUME WakeupInv, Finish
  PROVE  Versions' /\ Agreement' /\ NoLostWakeup'
  <1>j. PICK j \in Jobs : j = w.job
    BY InHand DEF Finish, WakeupInv, CoherentInv, Requeue
  <1>0. /\ j \in Jobs /\ Alive /\ UNCHANGED <<spec, cCpod, created, born>> /\ queue \subseteq queue'
        /\ w.rv \in Nat /\ queue' \subseteq queue \cup {j}
    BY <1>j, InHand DEF Finish, Alive, WakeupInv, CoherentInv, TypeOK, cache, Work, Requeue
  <1>1. CASE cpod' = cpod
    <2>1. j \in queue'
      <3>1. w.retry \/ w.conds # w.old
        BY DEF Finish, WakeupInv, CoherentInv, StageKnown, Requeue
      <3>2. CASE w.conds = w.old
        BY <1>j, <3>1, <3>2 DEF Finish, Requeue
      <3>3. CASE w.conds # w.old
        <4>1. PICK a \in Answer :
                /\ a # "refused" /\ Current(cpod[j]) =>
                     cpod' = [cpod EXCEPT ![j] = [uid |-> w.uid, rv |-> w.rv + 1, conds |-> w.conds]]
                /\ ~(a # "refused" /\ Current(cpod[j])) => j \in queue'
          BY <1>j, <3>3 DEF Finish, Requeue
        <4>2. ASSUME Current(cpod[j]),
                     cpod' = [cpod EXCEPT ![j] = [uid |-> w.uid, rv |-> w.rv + 1, conds |-> w.conds]]
              PROVE  FALSE
          <5>1. cpod'[j].rv = w.rv + 1 /\ cpod[j].rv = w.rv
            BY <1>0, <4>2 DEF Current, WakeupInv, CoherentInv, TypeOK
          <5> QED BY <1>0, <1>1, <5>1
        <4> QED BY <4>1, <4>2
      <3> QED BY <3>2, <3>3
    <2>2. Versions' /\ Agreement'
      BY <1>0, <1>1 DEF WakeupInv, Versions, Agreement, Behind
    <2>3. NoLostWakeup'
      BY <1>j, <1>0, <1>1, <2>1 DEF WakeupInv, NoLostWakeup, Behind, NeedReconcile, Uploads
    <2> QED BY <2>2, <2>3
  <1>2. CASE /\ Current(cpod[j])
             /\ cpod' = [cpod EXCEPT ![j] = [uid |-> w.uid, rv |-> w.rv + 1, conds |-> w.conds]]
    <2>1. /\ cpod'[j].uid = cpod[j].uid /\ cpod'[j].rv = cpod[j].rv + 1
          /\ cpod[j].rv \in Nat /\ cCpod[j].rv \in Nat
          /\ \A k \in Jobs \ {j} : cpod'[k] = cpod[k]
      BY <1>0, <1>2 DEF Current, WakeupInv, CoherentInv, TypeOK, CPodObject
    <2>2. Versions'
      BY <1>0, <2>1 DEF WakeupInv, Versions
    <2>3. cpod'[j].uid # 0 => Behind(j)'
      BY <1>0, <2>1 DEF WakeupInv, Versions, Behind
    <2>4. Agreement'
      BY <1>0, <2>1, <2>3 DEF WakeupInv, Agreement, Behind
    <2>5. NoLostWakeup'
      BY <1>j, <1>0, <2>1, <2>3 DEF WakeupInv, NoLostWakeup, Behind, NeedReconcile, Uploads
    <2> QED BY <2>2, <2>4, <2>5
  <1> QED BY <1>j, <1>1, <1>2, FinishWrites DEF WakeupInv, CoherentInv

LEMMA NextWakeup ==
  ASSUME WakeupInv, [Next]_vars
  PROVE  WakeupInv'
  <1>1. CoherentInv' BY NextCoherent DEF WakeupInv
  <1>2. Versions' /\ Agreement' /\ NoLostWakeup'
    <2>1. CASE Users BY <2>1, UsersWakeup DEF Users
    <2>2. CASE Cluster
      <3>1. UNCHANGED <<spec, cpod, cCpod, created, born, queue, worker>>
        BY <2>2 DEF Cluster, CollectBase, CollectUpload, CollectPvc, BindPvc, BaseRuns, BaseEnds,
           ArtifactDone, UploadSucceeds, UploadPodLost, UploadGivesUp, api, cache
      <3> QED BY <3>1, ElsewhereWakeup DEF worker, Alive
    <2>3. CASE Informers BY <2>3, InformersWakeup
    <2>4. CASE Worker
      BY <2>4, ReadWakeup, ReconcileWakeup, FinishWakeup DEF Worker
    <2>5. CASE Crash \/ Restart BY <2>5, CrashWakeup
    <2>6. CASE UNCHANGED vars
      BY <2>6, ElsewhereWakeup DEF vars, Alive
    <2> QED BY <2>1, <2>2, <2>3, <2>4, <2>5, <2>6 DEF Next
  <1> QED BY <1>1, <1>2 DEF WakeupInv

\* A CPodJob that still needs the reconciler is always queued, in hand, or
\* announced by an event under way: nothing a user, a crash, a conflict or a
\* stale cache does leaves a job waiting for good.
THEOREM NoLostWakeupAlways == Spec => []NoLostWakeup
  <1>1. Init => WakeupInv
    BY InitTyped, InitCoherent, InitWakeup DEF WakeupInv, CoherentInv
  <1>2. WakeupInv => NoLostWakeup
    BY DEF WakeupInv
  <1> QED BY <1>1, <1>2, NextWakeup, PTL DEF Spec

----------------------------------------------------------------------------
(* The controller implements JobLifecycle.  A status update is accepted    *)
(* only for the version the reconcile read, so what it replaces shows the  *)
(* same stage as what was read, and a reconcile only ever moves onward     *)
(* from there.                                                             *)

\* What the user sees of each job: the refinement mapping.
Life == [j \in Jobs |-> IF cpod[j].uid = 0 THEN "none" ELSE StageOf(cpod[j].conds)]

Onward(s, t) == t = s \/ t \in Lifecycle!Later(s)

\* A name that is not taken is read as an empty object.
Blank ==
    \A j \in Jobs : /\ cpod[j].uid = 0 => cpod[j].conds = NoConds
                    /\ cCpod[j].uid = 0 => cCpod[j].conds = NoConds

\* What the worker holds against what the API server has.
Held ==
    w.job \in Jobs =>
        /\ w.uid <= born[w.job]
        /\ w.uid # 0 /\ w.uid = cpod[w.job].uid => w.rv <= cpod[w.job].rv
        /\ w.uid # 0 /\ Current(cpod[w.job]) => SameBut(cpod[w.job].conds, w.old)

\* The reconcile moves onward from what it read, and an empty object is
\* never written.
Moves ==
    /\ w.job \in Jobs => Onward(StageOf(w.old), StageOf(w.conds))
    /\ w.job \in Jobs /\ w.uid = 0 => pc \in {"base", "status"} /\ w.conds = w.old
    /\ pc \in Unlaunched => w.conds = w.old

LifeInv == WakeupInv /\ Blank /\ Held /\ Moves

LEMMA OnwardMore ==
  ASSUME NEW s
  PROVE  /\ s \in {"created", "running"} => \A t \in {"running", "succeeded", "failed"} : Onward(s, t)
         /\ \A r \in {"succeeded", "uploading"}, t \in {"uploading", "uploaded", "uploadFailed"} :
              Onward(s, r) => Onward(s, t)
  BY DEF Onward, Lifecycle!Later

LEMMA InitLife == Init => Blank /\ Held /\ Moves
  BY NoJobAssumption DEF Init, Blank, Held, Moves, NoCPod, NoWork, Unlaunched

LEMMA ElsewhereLife ==
  ASSUME LifeInv, UNCHANGED <<cpod, cCpod, born, worker>>
  PROVE  Blank' /\ Held' /\ Moves'
  BY DEF LifeInv, Blank, Held, Moves, Current, worker

LEMMA UsersLife ==
  ASSUME LifeInv, NEW j \in Jobs, CreateCPodJob(j) \/ DeleteCPodJob(j)
  PROVE  Blank' /\ Held' /\ Moves'
  <1>0. /\ UNCHANGED <<cCpod, pc, w>>
        /\ \A k \in Jobs \ {j} : cpod'[k] = cpod[k] /\ born'[k] = born[k]
    BY DEF CreateCPodJob, DeleteCPodJob, LifeInv, WakeupInv, CoherentInv, TypeOK, cache, worker
  <1>1. /\ cpod'[j].conds = NoConds
        /\ \/ cpod'[j].uid = born[j] + 1 /\ born'[j] = born[j] + 1
           \/ cpod'[j].uid = 0 /\ born'[j] = born[j]
    BY DEF CreateCPodJob, DeleteCPodJob, NoCPod, LifeInv, WakeupInv, CoherentInv, TypeOK
  <1>2. Blank' /\ Moves'
    BY <1>0, <1>1 DEF LifeInv, Blank, Moves
  <1>3. Held'
    <2>1. born[j] \in Nat /\ w.uid \in Nat
      BY DEF LifeInv, WakeupInv, CoherentInv, TypeOK, Work, Uid
    <2>2. CASE w.job # j
      BY <1>0, <2>2 DEF LifeInv, Held, Current
    <2>3. CASE w.job = j
      BY <1>0, <1>1, <2>1, <2>3 DEF LifeInv, Held, Current
    <2> QED BY <2>2, <2>3
  <1> QED BY <1>2, <1>3

LEMMA InformersLife ==
  ASSUME LifeInv, Informers
  PROVE  Blank' /\ Held' /\ Moves'
  <1>1. ASSUME NEW j \in Jobs, WatchCPod(j)
        PROVE  Blank' /\ Held' /\ Moves'
    <2>0. /\ UNCHANGED <<cpod, born, pc, w>>
          /\ \A k \in Jobs \ {j} : cCpod'[k] = cCpod[k]
          /\ cCpod'[j] = cpod[j]
      BY <1>1 DEF WatchCPod, api, worker, LifeInv, WakeupInv, CoherentInv, TypeOK
    <2> QED BY <2>0 DEF LifeInv, Blank, Held, Moves, Current
  <1>3. ASSUME NEW j \in Jobs, Admit(j)
        PROVE  Blank' /\ Held' /\ Moves'
    <2>0. /\ UNCHANGED <<cpod, born, pc, w>>
          /\ \A k \in Jobs \ {j} : cCpod'[k] = cCpod[k]
          /\ cCpod'[j] = Admitted(cCpod[j]) /\ cCpod[j].uid # 0 /\ cCpod[j] \in CPodObject
      BY <1>3 DEF Admit, api, worker, LifeInv, WakeupInv, CoherentInv, TypeOK
    <2>1. cCpod'[j].uid # 0
      BY <2>0, AdmittedTyped
    <2> QED BY <2>0, <2>1 DEF LifeInv, Blank, Held, Moves, Current
  <1>2. ASSUME NEW j \in Jobs,
               WatchBase(j) \/ WatchUpload(j) \/ \E v \in Volume : WatchPvc(v, j)
        PROVE  UNCHANGED <<cpod, cCpod, born, worker>>
    BY <1>2 DEF WatchBase, WatchUpload, WatchPvc, api
  <1> QED BY <1>1, <1>2, <1>3, ElsewhereLife DEF Informers

LEMMA CrashLife ==
  ASSUME LifeInv, Crash \/ Restart
  PROVE  Blank' /\ Held' /\ Moves'
  <1>1. w' = NoWork /\ pc' \in {"down", "idle"} /\ cpod' = cpod
    BY DEF Crash, Restart, api
  <1>2. \A j \in Jobs : cCpod'[j].uid = 0 => cCpod'[j].conds = NoConds
    <2>1. CASE Crash BY <2>1 DEF Crash, cache, LifeInv, Blank
    <2>2. CASE Restart BY <2>2 DEF Restart, LifeInv, Blank
    <2> QED BY <2>1, <2>2
  <1> QED
    BY <1>1, <1>2, NothingTyped, NoJobAssumption DEF LifeInv, Blank, Held, Moves, Unlaunched

LEMMA ReadLife ==
  ASSUME LifeInv, NEW j \in Jobs, Start(j) \/ Skip(j)
  PROVE  Blank' /\ Held' /\ Moves'
  <1>1. CASE Start(j)
    <2>0. /\ UNCHANGED <<cpod, cCpod, born>>
          /\ w'.job = j /\ w'.uid = cCpod[j].uid /\ w'.rv = cCpod[j].rv
          /\ w'.conds = cCpod[j].conds /\ w'.old = cCpod[j].conds
          /\ pc' = IF IsFinished(cCpod[j].conds) THEN "upload" ELSE "base"
      BY <1>1 DEF Start, api, cache
    <2>1. ~IsFinished(NoConds)
      BY DEF NoConds, CondType, IsFinished, IsSucceeded, IsFailed, IsTrue
    <2>2. Blank'
      BY <2>0 DEF LifeInv, Blank
    <2>3. Held'
      <3>1. SUFFICES ASSUME cCpod[j].uid # 0, cpod[j].uid = cCpod[j].uid, cpod[j].rv = cCpod[j].rv
                     PROVE  SameBut(cpod[j].conds, cCpod[j].conds)
        BY <2>0 DEF Held, Current, LifeInv, WakeupInv, Versions
      <3> QED BY <3>1 DEF LifeInv, WakeupInv, Agreement, Behind
    <2>4. Moves'
      BY <2>0, <2>1 DEF Moves, Onward, Unlaunched, LifeInv, Blank
    <2> QED BY <2>2, <2>3, <2>4
  <1>2. CASE Skip(j)
    BY <1>2, ElsewhereLife DEF Skip, api, cache
  <1> QED BY <1>1, <1>2

\* A reconcile that writes c in hand and moves onward with it.
LEMMA ReturnLife ==
  ASSUME LifeInv, UNCHANGED <<cpod, cCpod, born>>, w.job \in Jobs,
         NEW c, NEW b, Return(c, b),
         Onward(StageOf(w.old), StageOf(c)), w.uid = 0 => c = w.old
  PROVE  Blank' /\ Held' /\ Moves'
  <1>1. /\ pc' = "status" /\ w'.job = w.job /\ w'.uid = w.uid /\ w'.rv = w.rv
        /\ w'.old = w.old /\ w'.conds = c
    BY DEF Return, LifeInv, WakeupInv, CoherentInv, TypeOK, Work
  <1> QED BY <1>1 DEF LifeInv, Blank, Held, Moves, Current, Unlaunched

LEMMA ContinueLife ==
  ASSUME LifeInv, UNCHANGED <<cpod, cCpod, born>>, w.uid # 0, pc \in Unlaunched,
         NEW p, Continue(p)
  PROVE  Blank' /\ Held' /\ Moves'
  BY DEF LifeInv, Blank, Held, Moves, Current, Continue

LEMMA GetBaseLife ==
  ASSUME LifeInv, GetBaseJobFails \/ GetBaseJobNotFound \/ UpdateStatus
  PROVE  Blank' /\ Held' /\ Moves'
  <1>0. /\ pc = "base" /\ w.job \in Jobs /\ UNCHANGED <<cpod, cCpod, born>>
        /\ w.conds = w.old /\ GoodConds(w.conds) /\ ~IsFinished(w.conds)
    BY InHand DEF GetBaseJobFails, GetBaseJobNotFound, UpdateStatus, LifeInv, Moves, WakeupInv,
       CoherentInv, AllGood, StageKnown, Unlaunched, api, cache, TryAgain, StillRunning
  <1>1. CASE GetBaseJobFails
    BY <1>0, <1>1, ReturnLife DEF GetBaseJobFails, Onward, TryAgain
  <1>2. CASE GetBaseJobNotFound
    BY <1>0, <1>2, ContinueLife DEF GetBaseJobNotFound, Unlaunched
  <1>3. CASE UpdateStatus
    <2>0. w.uid # 0
      BY <1>3 DEF UpdateStatus, StillRunning
    <2>1. CASE Return(SetCondition(w.conds, "Failed", "True"), FALSE)
      BY <1>0, <2>0, <2>1, StageUnfinished, OnwardMore, ReturnLife
    <2>2. CASE Return(SetCondition(w.conds, "Running", "True"), TRUE)
      BY <1>0, <2>0, <2>2, StageUnfinished, OnwardMore, ReturnLife
    <2>3. CASE /\ pc' = IF Uploads(w.job) THEN "upload" ELSE "status"
               /\ w' = [w EXCEPT !.conds = SetCondition(@, "Succeeded", "True")]
      <3>1. Onward(StageOf(w.old), StageOf(SetCondition(w.conds, "Succeeded", "True")))
        BY <1>0, StageUnfinished, OnwardMore
      <3>2. /\ pc' \in {"upload", "status"} /\ w'.job = w.job /\ w'.uid = w.uid /\ w'.rv = w.rv
            /\ w'.old = w.old /\ w'.conds = SetCondition(w.conds, "Succeeded", "True")
        BY <2>3 DEF LifeInv, WakeupInv, CoherentInv, TypeOK, Work
      <3> QED
        BY <1>0, <2>0, <3>1, <3>2 DEF LifeInv, Blank, Held, Moves, Current, Unlaunched
    <2> QED BY <1>3, <2>1, <2>2, <2>3 DEF UpdateStatus, StillRunning
  <1> QED BY <1>1, <1>2, <1>3

LEMMA CreateLife ==
  ASSUME LifeInv, GetCKPTPVC \/ GetModelSavePVC \/ CheckArtifacts \/ CreateBaseJob
  PROVE  Blank' /\ Held' /\ Moves'
  <1>0. /\ pc \in Unlaunched \ {"base"} /\ w.job \in Jobs /\ UNCHANGED <<cpod, cCpod, born>>
    BY InHand DEF GetCKPTPVC, GetModelSavePVC, CheckArtifacts, CreateBaseJob, LifeInv, WakeupInv,
       CoherentInv, Unlaunched, api, cache, TryAgain
  <1>1. /\ w.uid # 0 /\ w.conds = w.old /\ GoodConds(w.conds) /\ ~IsFinished(w.conds)
    BY <1>0 DEF LifeInv, Moves, WakeupInv, CoherentInv, AllGood, StageKnown, Unlaunched
  <1>2. \/ Continue("save") \/ Continue("data") \/ Continue("create") \/ Continue("bare")
        \/ Return(w.conds, TRUE)
        \/ Return(SetCondition(w.conds, "Failed", "True"), TRUE)
        \/ pc' = "panicked" /\ w' = NoWork
    BY DEF GetCKPTPVC, GetModelSavePVC, CheckArtifacts, CreateBaseJob, TryAgain
  <1>3. CASE Continue("save") \/ Continue("data") \/ Continue("create") \/ Continue("bare")
    BY <1>0, <1>1, <1>3, ContinueLife
  <1>4. CASE Return(w.conds, TRUE)
    BY <1>0, <1>1, <1>4, ReturnLife DEF Onward
  <1>5. CASE Return(SetCondition(w.conds, "Failed", "True"), TRUE)
    BY <1>0, <1>1, <1>5, StageUnfinished, OnwardMore, ReturnLife
  <1>6. CASE pc' = "panicked" /\ w' = NoWork
    BY <1>0, <1>6, NothingTyped, NoJobAssumption DEF LifeInv, Blank, Held, Moves, Unlaunched
  <1> QED BY <1>2, <1>3, <1>4, <1>5, <1>6

LEMMA UploadLife ==
  ASSUME LifeInv, UploadSavedModel
  PROVE  Blank' /\ Held' /\ Moves'
  <1>0. /\ pc = "upload" /\ w.job \in Jobs /\ UNCHANGED <<cpod, cCpod, born>>
    BY InHand DEF UploadSavedModel, LifeInv, WakeupInv, CoherentInv, cache, TryAgain, UploadUnderWay
  <1>1. /\ w.uid # 0 /\ GoodConds(w.conds) /\ IsSucceeded(w.conds)
        /\ w.conds["ModelUploaded"] = "absent" /\ Onward(StageOf(w.old), StageOf(w.conds))
    BY <1>0 DEF LifeInv, Moves, WakeupInv, CoherentInv, AllGood, StageKnown
  <1>2. \/ Return(w.conds, TRUE)
        \/ Return(SetCondition(w.conds, "ModelUploading", "True"), TRUE)
        \/ Return(SetCondition(w.conds, "ModelUploaded", "True"), FALSE)
        \/ Return(SetCondition(w.conds, "ModelUploaded", "False"), FALSE)
    BY DEF UploadSavedModel, TryAgain, UploadUnderWay
  <1>3. CASE Return(w.conds, TRUE)
    BY <1>0, <1>1, <1>3, ReturnLife
  <1>4. CASE Return(SetCondition(w.conds, "ModelUploading", "True"), TRUE)
    BY <1>0, <1>1, <1>4, StageUpload, OnwardMore, ReturnLife
  <1>5. CASE Return(SetCondition(w.conds, "ModelUploaded", "True"), FALSE)
    BY <1>0, <1>1, <1>5, StageUpload, OnwardMore, ReturnLife
  <1>6. CASE Return(SetCondition(w.conds, "ModelUploaded", "False"), FALSE)
    BY <1>0, <1>1, <1>6, StageUpload, OnwardMore, ReturnLife
  <1> QED BY <1>2, <1>3, <1>4, <1>5, <1>6

LEMMA FinishLife ==
  ASSUME LifeInv, Finish
  PROVE  Blank' /\ Held' /\ Moves'
  <1>0. /\ w.job \in Jobs /\ w' = NoWork /\ pc' = "idle" /\ UNCHANGED cCpod
    BY InHand DEF Finish, LifeInv, WakeupInv, CoherentInv, cache, Requeue
  <1>1. \A j \in Jobs : cpod'[j].uid = 0 => cpod'[j].conds = NoConds
    BY <1>0, FinishWrites DEF LifeInv, Blank, Moves, WakeupInv, CoherentInv, TypeOK
  <1> QED
    BY <1>0, <1>1, NothingTyped, NoJobAssumption DEF LifeInv, Blank, Held, Moves, Unlaunched

LEMMA NextLife ==
  ASSUME LifeInv, [Next]_vars
  PROVE  LifeInv'
  <1>1. WakeupInv' BY NextWakeup DEF LifeInv
  <1>2. Blank' /\ Held' /\ Moves'
    <2>1. CASE Users BY <2>1, UsersLife DEF Users
    <2>2. CASE Cluster
      <3>1. UNCHANGED <<cpod, cCpod, born, worker>>
        BY <2>2 DEF Cluster, CollectBase, CollectUpload, CollectPvc, BindPvc, BaseRuns, BaseEnds,
           ArtifactDone, UploadSucceeds, UploadPodLost, UploadGivesUp, api, cache
      <3> QED BY <3>1, ElsewhereLife
    <2>3. CASE Informers BY <2>3, InformersLife
    <2>4. CASE Worker
      BY <2>4, ReadLife, GetBaseLife, CreateLife, UploadLife, FinishLife DEF Worker, Reconcile
    <2>5. CASE Crash \/ Restart BY <2>5, CrashLife
    <2>6. CASE UNCHANGED vars BY <2>6, ElsewhereLife DEF vars, worker
    <2> QED BY <2>1, <2>2, <2>3, <2>4, <2>5, <2>6 DEF Next
  <1> QED BY <1>1, <1>2 DEF LifeInv

\* A change of one CPodJob changes its stage alone.
LEMMA LifeChanges ==
  ASSUME NEW j \in Jobs, \A k \in Jobs \ {j} : cpod'[k] = cpod[k]
  PROVE  Life' = [Life EXCEPT ![j] = IF cpod'[j].uid = 0 THEN "none" ELSE StageOf(cpod'[j].conds)]
  BY DEF Life

\* Each step of the controller is a step of the lifecycle, or none.
LEMMA UsersAdvance ==
  ASSUME LifeInv, NEW j \in Jobs, CreateCPodJob(j) \/ DeleteCPodJob(j)
  PROVE  [Lifecycle!Next]_Life
  <1>1. CASE CreateCPodJob(j)
    <2>1. cpod'[j].uid # 0 /\ StageOf(cpod'[j].conds) = "created"
      BY <1>1 DEF CreateCPodJob, LifeInv, WakeupInv, CoherentInv, TypeOK, Uid, NoConds, CondType,
         StageOf, IsFailed, IsSucceeded, IsTrue
    <2>2. \A k \in Jobs \ {j} : cpod'[k] = cpod[k]
      BY <1>1 DEF CreateCPodJob, LifeInv, WakeupInv, CoherentInv, TypeOK
    <2>3. Life[j] = "none" /\ Life' = [Life EXCEPT ![j] = "created"]
      <3>1. cpod[j].uid = 0
        BY <1>1 DEF CreateCPodJob
      <3> QED BY <2>1, <2>2, <3>1, LifeChanges DEF Life
    <2> QED BY <2>3 DEF Lifecycle!Next, Lifecycle!Submit, Life
  <1>2. CASE DeleteCPodJob(j)
    <2>1. cpod[j].uid # 0 /\ cpod'[j].uid = 0
      BY <1>2 DEF DeleteCPodJob, NoCPod, LifeInv, WakeupInv, CoherentInv, TypeOK
    <2>2. \A k \in Jobs \ {j} : cpod'[k] = cpod[k]
      BY <1>2 DEF DeleteCPodJob, LifeInv, WakeupInv, CoherentInv, TypeOK
    <2>3. Life[j] # "none" /\ Life' = [Life EXCEPT ![j] = "none"]
      <3>1. StageOf(cpod[j].conds) # "none"
        BY DEF StageOf
      <3> QED BY <2>1, <2>2, <3>1, LifeChanges DEF Life
    <2> QED BY <2>3 DEF Lifecycle!Next, Lifecycle!Remove, Life
  <1> QED BY <1>1, <1>2

LEMMA FinishAdvances ==
  ASSUME LifeInv, Finish
  PROVE  [Lifecycle!Next]_Life
  <1>0. w.job \in Jobs
    BY InHand DEF Finish, LifeInv, WakeupInv, CoherentInv, Requeue
  <1>1. CASE cpod' = cpod
    BY <1>1 DEF Life
  <1>2. CASE /\ Current(cpod[w.job])
             /\ cpod' = [cpod EXCEPT ![w.job] =
                          [uid |-> w.uid, rv |-> w.rv + 1, conds |-> w.conds]]
             /\ w.conds # w.old
    <2>1. w.uid # 0 /\ cpod[w.job].uid = w.uid
      BY <1>0, <1>2 DEF LifeInv, Moves, Current
    <2>2. Life[w.job] = StageOf(w.old)
      BY <1>0, <1>2, <2>1, StageSame DEF LifeInv, Held, Life
    <2>3. Life' = [Life EXCEPT ![w.job] = StageOf(w.conds)]
      <3>1. /\ cpod'[w.job].uid # 0 /\ cpod'[w.job].conds = w.conds
            /\ \A k \in Jobs \ {w.job} : cpod'[k] = cpod[k]
        BY <1>0, <1>2, <2>1 DEF LifeInv, WakeupInv, CoherentInv, TypeOK
      <3> QED BY <1>0, <3>1 DEF Life
    <2>4. StageOf(w.conds) = StageOf(w.old) \/ StageOf(w.conds) \in Lifecycle!Later(Life[w.job])
      BY <1>0, <2>2 DEF LifeInv, Moves, Onward
    <2>5. CASE StageOf(w.conds) = StageOf(w.old)
      BY <1>0, <2>2, <2>3, <2>5 DEF Life
    <2>6. CASE StageOf(w.conds) \in Lifecycle!Later(Life[w.job])
      BY <1>0, <2>3, <2>6 DEF Lifecycle!Next, Lifecycle!Advance, Life
    <2> QED BY <2>4, <2>5, <2>6
  <1> QED BY <1>1, <1>2, FinishWrites DEF LifeInv, WakeupInv, CoherentInv

LEMMA NextAdvances ==
  ASSUME LifeInv, [Next]_vars
  PROVE  [Lifecycle!Next]_Life
  <1>1. CASE UNCHANGED cpod BY <1>1 DEF Life
  <1>2. CASE Users BY <1>2, UsersAdvance DEF Users
  <1>3. CASE Finish BY <1>3, FinishAdvances
  <1>4. UNCHANGED cpod \/ Users \/ Finish
    <2>1. CASE Cluster
      BY <2>1 DEF Cluster, CollectBase, CollectUpload, CollectPvc, BindPvc, BaseRuns, BaseEnds,
         ArtifactDone, UploadSucceeds, UploadPodLost, UploadGivesUp, api
    <2>2. CASE Informers
      BY <2>2 DEF Informers, WatchCPod, Admit, WatchBase, WatchUpload, WatchPvc, api
    <2>3. CASE Worker
      BY <2>3 DEF Worker, Reconcile, Start, Skip, GetBaseJobFails, GetBaseJobNotFound, UpdateStatus,
         GetCKPTPVC, GetModelSavePVC, CheckArtifacts, CreateBaseJob, UploadSavedModel, api, TryAgain, StillRunning, UploadUnderWay
    <2>4. CASE Crash \/ Restart BY <2>4 DEF Crash, Restart, api
    <2>5. CASE UNCHANGED vars BY <2>5 DEF vars
    <2> QED BY <2>1, <2>2, <2>3, <2>4, <2>5 DEF Next
  <1> QED BY <1>1, <1>2, <1>3, <1>4

LEMMA InitBlank == Init => Lifecycle!Init
  BY DEF Init, Lifecycle!Init, NoCPod

\* For any number of names, specifications, removals, faults and crashes, what
\* a user sees of a CPodJob only moves along the lifecycle: conflicts, lost
\* answers and stale caches never take a status back (Finish and its version
\* check; Start and the conditions the cache holds).
THEOREM LifecycleImplemented == Spec => ImplementsLifecycle
  <1>1. Init => LifeInv
    BY InitTyped, InitCoherent, InitWakeup, InitLife DEF LifeInv, WakeupInv, CoherentInv
  <1>2. LifeInv /\ [Next]_vars => LifeInv'
    BY NextLife
  <1>3. LifeInv /\ [Next]_vars => [Lifecycle!Next]_Life
    BY NextAdvances
  <1> QED BY <1>1, <1>2, <1>3, InitBlank, PTL DEF Spec, ImplementsLifecycle, Lifecycle!Spec, Life

\* The verdict and the outcome of the upload, once in the status, stay there.
OutcomeStays(j) ==
    LET c == cpod[j].conds
        d == cpod'[j].conds
    IN  cpod[j].uid # 0 /\ cpod'[j].uid # 0 =>
          /\ IsSucceeded(c) => IsSucceeded(d)
          /\ IsFailed(c) => IsFailed(d)
          /\ c["ModelUploaded"] # "absent" => d["ModelUploaded"] = c["ModelUploaded"]

LEMMA NextKeepsOutcome ==
  ASSUME LifeInv, LifeInv', [Next]_vars, NEW j \in Jobs
  PROVE  OutcomeStays(j)
  <1> DEFINE c == cpod[j].conds
             d == cpod'[j].conds
  <1> SUFFICES ASSUME cpod[j].uid # 0, cpod'[j].uid # 0
               PROVE  OutcomeStays(j)
    BY DEF OutcomeStays
  <1>1. StageOf(d) \in {StageOf(c)} \cup Lifecycle!Later(StageOf(c))
    <2>1. CASE Lifecycle!Next
      <3>1. PICK k \in Jobs : \/ Lifecycle!Submit(k)
                              \/ Lifecycle!Advance(k)
                              \/ Lifecycle!Remove(k)
        BY <2>1 DEF Lifecycle!Next
      <3>2. Life[j] = StageOf(c) /\ Life'[j] = StageOf(d) /\ StageOf(c) # "none" /\ StageOf(d) # "none"
        BY DEF Life, StageOf
      <3>3. CASE k # j
        <4>1. Life'[j] = Life[j]
          BY <3>1, <3>3 DEF Lifecycle!Submit, Lifecycle!Advance, Lifecycle!Remove, Life
        <4> QED BY <4>1, <3>2
      <3>4. CASE k = j
        <4>1. Life'[j] \in Lifecycle!Later(Life[j])
          BY <3>1, <3>2, <3>4 DEF Lifecycle!Submit, Lifecycle!Advance, Lifecycle!Remove, Life
        <4> QED BY <4>1, <3>2
      <3> QED BY <3>3, <3>4
    <2>2. CASE UNCHANGED Life
      BY <2>2 DEF Life
    <2> QED BY <2>1, <2>2, NextAdvances
  <1>2. GoodConds(c) /\ GoodConds(d)
    BY DEF LifeInv, WakeupInv, CoherentInv, AllGood
  <1> HIDE DEF c, d
  <1>3. ASSUME NEW e, GoodConds(e)
        PROVE  /\ IsFailed(e) <=> StageOf(e) = "failed"
               /\ IsSucceeded(e) <=>
                    StageOf(e) \in {"succeeded", "uploading", "uploaded", "uploadFailed"}
               /\ e["ModelUploaded"] = "True" <=> StageOf(e) = "uploaded"
               /\ e["ModelUploaded"] = "False" <=> StageOf(e) = "uploadFailed"
               /\ e["ModelUploaded"] \in {"absent", "True", "False"}
    BY <1>3 DEF GoodConds, CoherentConds, OnlyTrue, Conds, CondType, CondStatus, StageOf,
       IsFinished, IsSucceeded, IsFailed, IsTrue
  <1>4. /\ IsSucceeded(c) => IsSucceeded(d)
        /\ IsFailed(c) => IsFailed(d)
        /\ c["ModelUploaded"] # "absent" => d["ModelUploaded"] = c["ModelUploaded"]
    BY <1>1, <1>2, <1>3 DEF Lifecycle!Later
  <1> QED BY <1>4 DEF OutcomeStays, c, d

\* The conditions that say how a job and its upload have ended are never taken
\* back while the CPodJob is there, whatever a reconcile read before (Finish).
THEOREM OutcomeStaysAlways == Spec => [][\A j \in Jobs : OutcomeStays(j)]_vars
  <1>1. Init => LifeInv
    BY InitTyped, InitCoherent, InitWakeup, InitLife DEF LifeInv, WakeupInv, CoherentInv
  <1>2. LifeInv /\ [Next]_vars => LifeInv'
    BY NextLife
  <1>3. LifeInv /\ LifeInv' /\ [Next]_vars => [\A j \in Jobs : OutcomeStays(j)]_vars
    BY NextKeepsOutcome
  <1> QED BY <1>1, <1>2, <1>3, PTL DEF Spec

----------------------------------------------------------------------------
(* What the status says of the first CPodJob of its name is what happened  *)
(* to the objects that it owns.  Until the CPodJob is there nothing bears  *)
(* its name; while it is there nothing of it is collected; and the caches  *)
(* show at most what has come true for good.                               *)

\* A uid is the number of the creation.
Numbered == \A j \in Jobs : cpod[j].uid \in {0, born[j]}

\* Nothing was ever made for a name that was not taken.
Fresh ==
    \A j \in Jobs :
        born[j] = 0 => /\ base[j] = NoBase /\ upload[j] = NoUpload
                       /\ cBase[j] = NoBase /\ cUpload[j] = NoUpload
                       /\ \A v \in Volume : pvc[v][j] = NoPvc /\ cPvc[v][j] = NoPvc

\* A status was never written for an object that was not there.
Empty == w.job \in Jobs /\ w.uid = 0 => w.conds = NoConds

Bound(v, j) == pvc[v][j].state = "bound"
CkptBound(j) == spec[j].ckpt => Bound("ckpt", j)
SaveBound(j) == NeedsSave(j) => Bound("save", j)
Trained(j, p) == base[j] = [owner |-> 1, phase |-> p]

\* The objects of a name, and what the caches may show of them.
Objects(j) ==
    /\ base[j] = NoBase \/ (base[j].owner = 1 /\ base[j].phase # "none")
    /\ upload[j] = NoUpload \/ (upload[j].owner = 1 /\ upload[j].state # "none")
    /\ \A v \in Volume : pvc[v][j].owner \in {0, 1}
    /\ base[j].owner = 1 => CkptBound(j) /\ SaveBound(j)
    /\ upload[j].owner = 1 => base[j].phase = "succeeded"

Shown(j) ==
    /\ cBase[j].phase \in {"succeeded", "failed"} => cBase[j] = base[j]
    /\ \A v \in Volume : cPvc[v][j].state = "bound" => Bound(v, j)
    /\ cUpload[j].state # "none" => upload[j].owner = 1
    /\ cUpload[j].state = "succeeded" => upload[j].state = "succeeded"
    /\ cUpload[j].failed <= upload[j].failed

\* Conditions c say of the objects what is so.
Told(j, c) ==
    /\ IsSucceeded(c) => Trained(j, "succeeded")
    /\ IsFailed(c) => Trained(j, "failed") \/ spec[j].data
    /\ c["ModelUploading"] # "absent" \/ c["ModelUploaded"] # "absent" => upload[j].owner = 1
    /\ c["ModelUploaded"] = "True" => upload[j].state = "succeeded"
    /\ c["ModelUploaded"] = "False" => upload[j].failed # 0

\* What the worker knows of the job in its hands.
Known(j) ==
    /\ Told(j, w.conds)
    /\ pc \in {"save", "data", "create", "bare"} => CkptBound(j)
    /\ pc \in {"data", "create", "bare"} => SaveBound(j)

Own ==
    \A j \in Jobs :
        First(j) => /\ Objects(j) /\ Shown(j)
                    /\ Told(j, cpod[j].conds) /\ Told(j, cCpod[j].conds)
                    /\ w.job = j => Known(j)

OwnInv == LifeInv /\ Numbered /\ Fresh /\ Empty /\ Own

LEMMA Unpacked ==
  ASSUME OwnInv
  PROVE  /\ TypeOK /\ WakeupInv /\ CoherentInv /\ Blank /\ Held /\ Moves /\ Versions
         /\ Numbered /\ Fresh /\ Empty /\ Own
  BY DEF OwnInv, LifeInv, WakeupInv, CoherentInv

\* The object in hand of a name that is taken for the first time.
LEMMA HandFirst ==
  ASSUME OwnInv, NEW j \in Jobs, w.job = j
  PROVE  /\ w.uid \in Nat /\ w.uid <= born[j] /\ born[j] \in Nat
         /\ First(j) => born[j] = 1 /\ w.uid \in {0, 1}
  <1>1. w.uid \in Nat /\ born[j] \in Nat /\ w.uid <= born[j]
    BY Unpacked DEF TypeOK, Work, Uid, Held
  <1> QED BY <1>1, Unpacked DEF First, Numbered

LEMMA InitOwn == Init => Numbered /\ Fresh /\ Empty /\ Own
  BY NoJobAssumption
  DEF Init, Numbered, Fresh, Empty, Own, NoCPod, NoWork, First

\* What has come true stays true.
Grows(j) ==
    /\ spec' = spec
    /\ base[j].phase \in {"succeeded", "failed"} => base'[j] = base[j]
    /\ upload[j].owner = 1 => upload'[j].owner = 1
    /\ upload[j].state = "succeeded" => upload'[j].state = "succeeded"
    /\ upload[j].failed <= upload'[j].failed
    /\ \A v \in Volume : Bound(v, j) => pvc'[v][j].state = "bound"

LEMMA StaysTold ==
  ASSUME TypeOK, TypeOK', NEW j \in Jobs, Grows(j)
  PROVE  /\ \A c : Told(j, c) => Told(j, c)'
         /\ CkptBound(j) => CkptBound(j)'
         /\ SaveBound(j) => SaveBound(j)'
  <1>1. upload[j].failed \in Nat /\ upload'[j].failed \in Nat
    BY DEF TypeOK, UploadObject
  <1>2. ASSUME NEW c, Told(j, c)
        PROVE  Told(j, c)'
    BY <1>1, <1>2 DEF Told, Grows, Trained
  <1>3. /\ CkptBound(j) => CkptBound(j)'
        /\ SaveBound(j) => SaveBound(j)'
    BY DEF Grows, CkptBound, SaveBound, Bound, NeedsSave, Volume
  <1> QED BY <1>2, <1>3

LEMMA StaysShown ==
  ASSUME TypeOK, TypeOK', NEW j \in Jobs, Grows(j), Shown(j), UNCHANGED cache
  PROVE  Shown(j)'
  <1>1. /\ upload[j].failed \in Nat /\ upload'[j].failed \in Nat
        /\ cUpload[j].failed \in Nat
    BY DEF TypeOK, UploadObject
  <1> QED BY <1>1 DEF Shown, Grows, Bound, cache

\* A step that changes objects only, and only to what they grow into.
LEMMA ObjectsOwn ==
  ASSUME OwnInv, TypeOK', UNCHANGED <<spec, cpod, cache, born>>,
         Fresh', Empty',
         \A j \in Jobs : First(j) => Objects(j)' /\ Grows(j),
         \A j \in Jobs : First(j) /\ w'.job = j => Known(j)'
  PROVE  Numbered' /\ Fresh' /\ Empty' /\ Own'
  <1>1. Numbered'
    BY Unpacked DEF Numbered
  <1>2. ASSUME NEW j \in Jobs, First(j)'
        PROVE  /\ Objects(j)' /\ Shown(j)'
               /\ Told(j, cpod[j].conds)' /\ Told(j, cCpod[j].conds)'
               /\ (w.job = j)' => Known(j)'
    <2>1. First(j) /\ Objects(j)' /\ Grows(j)
      BY <1>2 DEF First
    <2>2. Shown(j) /\ Told(j, cpod[j].conds) /\ Told(j, cCpod[j].conds)
      BY <2>1, Unpacked DEF Own
    <2>3. Shown(j)'
      BY <2>1, <2>2, StaysShown, Unpacked
    <2>4. \A c : Told(j, c) => Told(j, c)'
      BY <2>1, StaysTold, Unpacked
    <2>5. cpod' = cpod /\ cCpod' = cCpod
      BY DEF cache
    <2>6. Told(j, cpod[j].conds)' /\ Told(j, cCpod[j].conds)'
      BY <2>2, <2>4, <2>5 DEF Told
    <2> QED BY <2>1, <2>3, <2>6
  <1>3. Own'
    BY <1>2 DEF Own
  <1> QED BY <1>1, <1>3

\* Apart from Running, SetCondition writes the condition it is given or
\* drops what is there.
LEMMA TellOne ==
  ASSUME NEW c \in Conds, NEW t \in CondType, NEW s \in CondStatus
  PROVE  \A k \in CondType \ {"Running"} :
            \/ SetCondition(c, t, s)[k] \in {c[k], "absent"}
            \/ k = t /\ SetCondition(c, t, s)[k] = s
  <1>1. CASE IsFailed(c) \/ c[t] = s
    BY <1>1 DEF SetCondition
  <1>2. CASE ~IsFailed(c) /\ c[t] # s
    BY <1>2, SetConditionAt
  <1> QED BY <1>1, <1>2

\* A condition is written when what it says is so.
LEMMA TellMore ==
  ASSUME NEW j \in Jobs, NEW c \in Conds, Told(j, c),
         NEW t \in CondType, NEW s \in CondStatus,
         t = "Succeeded" => Trained(j, "succeeded"),
         t = "Failed" => Trained(j, "failed") \/ spec[j].data,
         t \in {"ModelUploading", "ModelUploaded"} => upload[j].owner = 1,
         t = "ModelUploaded" /\ s = "True" => upload[j].state = "succeeded",
         t = "ModelUploaded" /\ s = "False" => upload[j].failed # 0
  PROVE  Told(j, SetCondition(c, t, s))
  <1> DEFINE d == SetCondition(c, t, s)
  <1>1. \A k \in CondType \ {"Running"} :
           d[k] \in {c[k], "absent"} \/ (k = t /\ d[k] = s)
    BY TellOne
  <1> HIDE DEF d
  <1>2. Told(j, d)
    BY <1>1 DEF Told, IsSucceeded, IsFailed, IsTrue, CondType
  <1> QED BY <1>2 DEF d

LEMMA NothingTold == ASSUME NEW j \in Jobs PROVE Told(j, NoConds)
  BY DEF Told, NoConds, CondType, IsSucceeded, IsFailed, IsTrue

LEMMA UsersOwn ==
  ASSUME OwnInv, NEW j \in Jobs, CreateCPodJob(j) \/ DeleteCPodJob(j)
  PROVE  Numbered' /\ Fresh' /\ Empty' /\ Own'
  <1>0. /\ UNCHANGED <<spec, base, pvc, upload, cache, pc, w>>
        /\ \A k \in Jobs \ {j} : cpod'[k] = cpod[k] /\ born'[k] = born[k]
    BY Unpacked DEF CreateCPodJob, DeleteCPodJob, TypeOK, worker
  <1>1. /\ cpod'[j].conds = NoConds /\ born[j] \in Nat
        /\ \/ cpod'[j].uid = born[j] + 1 /\ born'[j] = born[j] + 1
           \/ cpod'[j].uid = 0 /\ born'[j] = born[j]
    BY Unpacked DEF CreateCPodJob, DeleteCPodJob, NoCPod, TypeOK, Uid
  <1>2. Numbered' /\ Fresh' /\ Empty'
    BY <1>0, <1>1, Unpacked DEF Numbered, Fresh, Empty, cache
  <1>3. ASSUME NEW k \in Jobs \ {j}, First(k)'
        PROVE  /\ Objects(k)' /\ Shown(k)'
               /\ Told(k, cpod[k].conds)' /\ Told(k, cCpod[k].conds)'
               /\ (w.job = k)' => Known(k)'
    <2>1. First(k)
      BY <1>0, <1>3 DEF First
    <2>2. /\ Objects(k) /\ Shown(k) /\ (w.job = k => Known(k))
          /\ Told(k, cpod[k].conds) /\ Told(k, cCpod[k].conds)
      BY <2>1, Unpacked DEF Own
    <2> QED
      BY <1>0, <2>2
      DEF Objects, Shown, Told, Known, CkptBound, SaveBound, Bound, NeedsSave, Trained, cache
  <1>4. ASSUME First(j)'
        PROVE  /\ Objects(j)' /\ Shown(j)'
               /\ Told(j, cpod[j].conds)' /\ Told(j, cCpod[j].conds)'
               /\ (w.job = j)' => Known(j)'
    <2>1. born[j] = 0
      BY <1>1, <1>4 DEF First
    <2>2. /\ base[j] = NoBase /\ upload[j] = NoUpload /\ cBase[j] = NoBase /\ cUpload[j] = NoUpload
          /\ \A v \in Volume : pvc[v][j] = NoPvc /\ cPvc[v][j] = NoPvc
      BY <2>1, Unpacked DEF Fresh
    <2>3. Objects(j)' /\ Shown(j)'
      BY <1>0, <2>2 DEF Objects, Shown, NoBase, NoUpload, NoPvc, cache
    <2>4. cCpod[j].conds = NoConds
      BY <2>1, Unpacked DEF Versions, Blank, TypeOK, CPodObject, Uid
    <2>5. w.job = j => w.conds = NoConds /\ pc \in {"base", "status"}
      BY <2>1, HandFirst, Unpacked DEF Empty, Moves
    <2>6. Told(j, NoConds)'
      BY DEF Told, NoConds, CondType, IsSucceeded, IsFailed, IsTrue
    <2>7. cpod'[j].conds = NoConds /\ cCpod'[j].conds = NoConds
      BY <1>0, <1>1, <2>4 DEF cache
    <2>8. Told(j, cpod[j].conds)' /\ Told(j, cCpod[j].conds)'
      BY <2>6, <2>7 DEF Told
    <2>9. (w.job = j)' => Known(j)'
      BY <1>0, <2>5, <2>6 DEF Known, Told
    <2> QED BY <2>3, <2>8, <2>9
  <1>5. Own'
    BY <1>3, <1>4 DEF Own
  <1> QED BY <1>2, <1>5

LEMMA ClusterOwn ==
  ASSUME OwnInv, TypeOK', Cluster
  PROVE  Numbered' /\ Fresh' /\ Empty' /\ Own'
  <1> SUFFICES ASSUME NEW j \in Jobs,
                      \/ CollectBase(j) \/ CollectUpload(j)
                      \/ \E v \in Volume : CollectPvc(v, j) \/ BindPvc(v, j)
                      \/ BaseRuns(j)
                      \/ \E p \in {"succeeded", "failed"} : BaseEnds(j, p)
                      \/ ArtifactDone(j)
                      \/ UploadSucceeds(j) \/ UploadPodLost(j) \/ UploadGivesUp(j)
               PROVE  Numbered' /\ Fresh' /\ Empty' /\ Own'
    BY DEF Cluster
  <1> DEFINE Others == \A k \in Jobs \ {j} :
                 /\ base'[k] = base[k] /\ upload'[k] = upload[k]
                 /\ \A v \in Volume : pvc'[v][k] = pvc[v][k]
  <1>0. UNCHANGED <<spec, cpod, cache, born, worker>>
    BY DEF CollectBase, CollectUpload, CollectPvc, BindPvc, BaseRuns, BaseEnds,
       ArtifactDone, UploadSucceeds, UploadPodLost, UploadGivesUp, api
  <1>t. /\ base[j] \in BaseObject /\ upload[j] \in UploadObject /\ BackoffLimit \in Nat
        /\ \A v \in Volume : pvc[v][j] \in PvcObject
    BY Unpacked, BackoffAssumption DEF TypeOK
  <1>1. /\ Others
        /\ born[j] = 0 => /\ base'[j] = NoBase /\ upload'[j] = NoUpload
                          /\ \A v \in Volume : pvc'[v][j] = NoPvc
        /\ First(j) => Objects(j)' /\ Grows(j)
    <2>0. /\ born[j] = 0 => /\ base[j] = NoBase /\ upload[j] = NoUpload
                            /\ \A v \in Volume : pvc[v][j] = NoPvc
          /\ First(j) => Objects(j)
      BY Unpacked DEF Fresh, Own
    <2> USE <1>0, <1>t, <2>0, Unpacked
        DEF TypeOK, NoBase, NoUpload, NoPvc, First, Orphan, Objects, Grows, CkptBound, SaveBound,
            Bound, NeedsSave, BaseObject, UploadObject, PvcObject
    <2>1. CASE CollectBase(j) BY <2>1 DEF CollectBase
    <2>2. CASE CollectUpload(j) BY <2>2 DEF CollectUpload
    <2>3. ASSUME NEW v \in Volume, CollectPvc(v, j)
          PROVE  /\ Others
                 /\ born[j] = 0 => /\ base'[j] = NoBase /\ upload'[j] = NoUpload
                                   /\ \A u \in Volume : pvc'[u][j] = NoPvc
                 /\ First(j) => Objects(j)' /\ Grows(j)
      BY <2>3 DEF CollectPvc
    <2>4. ASSUME NEW v \in Volume, BindPvc(v, j)
          PROVE  /\ Others
                 /\ born[j] = 0 => /\ base'[j] = NoBase /\ upload'[j] = NoUpload
                                   /\ \A u \in Volume : pvc'[u][j] = NoPvc
                 /\ First(j) => Objects(j)' /\ Grows(j)
      <3>1. pvc[v][j].state = "pending" /\ pvc' = [pvc EXCEPT ![v][j].state = "bound"]
            /\ UNCHANGED <<base, upload>>
        BY <2>4 DEF BindPvc
      <3>2. Others /\ born[j] # 0
        BY <3>1
      <3>3. \A u \in Volume : pvc'[u][j].owner = pvc[u][j].owner /\ (Bound(u, j) => Bound(u, j)')
        BY <3>1
      <3>4. First(j) => Grows(j)
        BY <3>1, <3>3
      <3>5. First(j) => Objects(j)'
        BY <3>1, <3>3 DEF Volume
      <3> QED BY <3>2, <3>4, <3>5
    <2>5. CASE BaseRuns(j)
      <3>1. First(j) => Objects(j)'
        BY <2>5 DEF BaseRuns
      <3> QED BY <2>5, <3>1 DEF BaseRuns
    <2>6. ASSUME NEW p \in {"succeeded", "failed"}, BaseEnds(j, p)
          PROVE  /\ Others
                 /\ born[j] = 0 => /\ base'[j] = NoBase /\ upload'[j] = NoUpload
                                   /\ \A v \in Volume : pvc'[v][j] = NoPvc
                 /\ First(j) => Objects(j)' /\ Grows(j)
      BY <2>6 DEF BaseEnds
    <2>7. CASE ArtifactDone(j) BY <2>7 DEF ArtifactDone, api
    <2>8. CASE UploadSucceeds(j) BY <2>8 DEF UploadSucceeds, UploadRuns
    <2>9. CASE UploadPodLost(j) BY <2>9 DEF UploadPodLost, UploadRuns, UploadState
    <2>10. CASE UploadGivesUp(j) BY <2>10 DEF UploadGivesUp, UploadRuns
    <2> QED BY <2>1, <2>2, <2>3, <2>4, <2>5, <2>6, <2>7, <2>8, <2>9, <2>10
  <1>2. \A k \in Jobs \ {j} : First(k) => Objects(k)' /\ Grows(k)
    <2>1. \A k \in Jobs \ {j} : First(k) => Objects(k) /\ upload[k].failed \in Nat
      BY Unpacked DEF Own, TypeOK, UploadObject
    <2> QED
      BY <1>0, <1>1, <2>1 DEF Objects, Grows, CkptBound, SaveBound, Bound, NeedsSave, Volume
  <1>3. Fresh' /\ Empty'
    BY <1>0, <1>1, Unpacked DEF Fresh, Empty, cache, worker
  <1>4. ASSUME NEW k \in Jobs, First(k), w'.job = k
        PROVE  Known(k)'
    <2>1. Known(k) /\ Grows(k)
      BY <1>0, <1>1, <1>2, <1>4, Unpacked DEF Own, worker
    <2>2. /\ Told(k, w.conds)'
          /\ CkptBound(k) => CkptBound(k)'
          /\ SaveBound(k) => SaveBound(k)'
      <3>1. Told(k, w.conds) /\ w' = w
        BY <1>0, <2>1 DEF Known, worker
      <3> QED BY <2>1, <3>1, StaysTold, Unpacked DEF Told
    <2> QED BY <1>0, <2>1, <2>2 DEF Known, worker
  <1> HIDE DEF Others
  <1>5. \A k \in Jobs : First(k) => Objects(k)' /\ Grows(k)
    BY <1>1, <1>2
  <1> QED BY <1>0, <1>3, <1>4, <1>5, ObjectsOwn

\* An informer shows what is there.
LEMMA InformersOwn ==
  ASSUME OwnInv, TypeOK', Informers
  PROVE  Numbered' /\ Fresh' /\ Empty' /\ Own'
  <1>1. ASSUME NEW j \in Jobs, WatchCPod(j) \/ Admit(j)
        PROVE  Numbered' /\ Fresh' /\ Empty' /\ Own'
    <2>0. /\ UNCHANGED <<spec, cpod, base, pvc, upload, cBase, cPvc, cUpload, born, pc, w>>
          /\ \A k \in Jobs \ {j} : cCpod'[k] = cCpod[k]
          /\ cCpod'[j] \in {cpod[j], Admitted(cCpod[j])}
      BY <1>1, Unpacked DEF WatchCPod, Admit, api, worker, TypeOK
    <2>1. /\ cCpod'[j].conds \in {cpod[j].conds, SetCondition(cCpod[j].conds, "Created", "True")}
          /\ cCpod[j].conds \in Conds
      BY <2>0, AdmittedTyped, Unpacked DEF TypeOK, CPodObject
    <2>2. First(j) => Told(j, cCpod'[j].conds)
      <3>1. First(j) => Told(j, cpod[j].conds) /\ Told(j, cCpod[j].conds)
        BY Unpacked DEF Own
      <3> QED BY <2>1, <3>1, TellMore DEF CondType, CondStatus
    <2>3. Numbered' /\ Fresh' /\ Empty'
      BY <2>0, Unpacked DEF Numbered, Fresh, Empty
    <2>4. ASSUME NEW k \in Jobs, First(k)'
          PROVE  /\ Objects(k)' /\ Shown(k)'
                 /\ Told(k, cpod[k].conds)' /\ Told(k, cCpod[k].conds)'
                 /\ (w.job = k)' => Known(k)'
      <3>1. First(k)
        BY <2>0, <2>4 DEF First
      <3>2. /\ Objects(k) /\ Shown(k) /\ (w.job = k => Known(k))
            /\ Told(k, cpod[k].conds) /\ Told(k, cCpod'[k].conds)
        BY <2>0, <2>2, <3>1, Unpacked DEF Own
      <3> QED
        BY <2>0, <3>2 DEF Objects, Shown, Told, Known, CkptBound, SaveBound, Bound, NeedsSave, Trained
    <2>5. Own'
      BY <2>4 DEF Own
    <2> QED BY <2>3, <2>5
  <1>2. ASSUME NEW j \in Jobs,
               WatchBase(j) \/ WatchUpload(j) \/ \E v \in Volume : WatchPvc(v, j)
        PROVE  Numbered' /\ Fresh' /\ Empty' /\ Own'
    <2>0. UNCHANGED <<spec, cpod, base, pvc, upload, cCpod, born, pc, w>>
      BY <1>2 DEF WatchBase, WatchUpload, WatchPvc, api, worker
    <2>1. \A k \in Jobs :
             /\ cBase'[k] \in {cBase[k], base[k]} /\ cUpload'[k] \in {cUpload[k], upload[k]}
             /\ \A v \in Volume : cPvc'[v][k] \in {cPvc[v][k], pvc[v][k]}
      <3>1. CASE WatchBase(j)
        BY <3>1, Unpacked DEF WatchBase, TypeOK
      <3>2. CASE WatchUpload(j)
        BY <3>2, Unpacked DEF WatchUpload, TypeOK
      <3>3. ASSUME NEW v \in Volume, WatchPvc(v, j)
            PROVE  /\ cBase' = cBase /\ cUpload' = cUpload
                   /\ \A u \in Volume, k \in Jobs : cPvc'[u][k] \in {cPvc[u][k], pvc[u][k]}
        BY <3>3, Unpacked DEF WatchPvc, TypeOK
      <3> QED BY <1>2, <3>1, <3>2, <3>3
    <2>2. Numbered' /\ Empty'
      BY <2>0, Unpacked DEF Numbered, Empty
    <2>3. Fresh'
      BY <2>0, <2>1, Unpacked DEF Fresh
    <2>4. ASSUME NEW k \in Jobs, First(k)'
          PROVE  /\ Objects(k)' /\ Shown(k)'
                 /\ Told(k, cpod[k].conds)' /\ Told(k, cCpod[k].conds)'
                 /\ (w.job = k)' => Known(k)'
      <3>1. First(k)
        BY <2>0, <2>4 DEF First
      <3>2. /\ Objects(k) /\ Shown(k) /\ (w.job = k => Known(k))
            /\ Told(k, cpod[k].conds) /\ Told(k, cCpod[k].conds)
        BY <3>1, Unpacked DEF Own
      <3>3. Shown(k)'
        <4>1. /\ upload[k].failed \in Nat /\ upload'[k].failed \in Nat /\ cUpload[k].failed \in Nat
              /\ NoUpload.state = "none"
          BY <2>0, Unpacked DEF TypeOK, UploadObject, NoUpload
        <4> QED BY <2>0, <2>1, <3>2, <4>1 DEF Shown, Objects, Bound
      <3> QED
        BY <2>0, <3>2, <3>3 DEF Objects, Told, Known, CkptBound, SaveBound, Bound, NeedsSave, Trained
    <2>5. Own'
      BY <2>4 DEF Own
    <2> QED BY <2>2, <2>3, <2>5
  <1> QED BY <1>1, <1>2 DEF Informers

LEMMA CrashOwn ==
  ASSUME OwnInv, TypeOK', Crash \/ Restart
  PROVE  Numbered' /\ Fresh' /\ Empty' /\ Own'
  <1>0. /\ UNCHANGED <<spec, cpod, base, pvc, upload, born>>
        /\ w' = NoWork /\ NoWork.job \notin Jobs
    BY NothingTyped, NoJobAssumption DEF Crash, Restart, api
  <1>1. \A k \in Jobs :
           /\ cBase'[k] \in {cBase[k], base[k]} /\ cUpload'[k] \in {cUpload[k], upload[k]}
           /\ \A v \in Volume : cPvc'[v][k] \in {cPvc[v][k], pvc[v][k]}
    BY Unpacked DEF Crash, Restart, cache, TypeOK
  <1>2. Numbered' /\ Fresh' /\ Empty'
    BY <1>0, <1>1, Unpacked DEF Numbered, Fresh, Empty
  <1>3. ASSUME NEW k \in Jobs, First(k)'
        PROVE  /\ Objects(k)' /\ Shown(k)'
               /\ Told(k, cpod[k].conds)' /\ Told(k, cCpod[k].conds)'
    <2>1. First(k)
      BY <1>0, <1>3 DEF First
    <2>2. Objects(k) /\ Shown(k) /\ Told(k, cpod[k].conds) /\ Told(k, cCpod[k].conds)
      BY <2>1, Unpacked DEF Own
    <2>3. Told(k, cCpod'[k].conds)
      <3>1. CASE Crash
        BY <2>2, <3>1 DEF Crash, cache
      <3>2. CASE Restart
        BY <2>2, <3>2 DEF Restart
      <3> QED BY <3>1, <3>2
    <2>4. Shown(k)'
      <3>1. /\ upload[k].failed \in Nat /\ cUpload[k].failed \in Nat /\ NoUpload.state = "none"
        BY Unpacked DEF TypeOK, UploadObject, NoUpload
      <3> QED BY <1>0, <1>1, <2>2, <3>1 DEF Shown, Objects, Bound
    <2> QED
      BY <1>0, <2>2, <2>3, <2>4 DEF Objects, Told, CkptBound, SaveBound, Bound, NeedsSave, Trained
  <1>4. Own'
    BY <1>0, <1>3 DEF Own
  <1> QED BY <1>2, <1>4

\* A step that changes what the worker has in hand, and no object.
LEMMA WorkerOwn ==
  ASSUME OwnInv, UNCHANGED <<spec, api, cache, born>>, Empty',
         \A j \in Jobs : First(j) /\ w'.job = j => Known(j)'
  PROVE  Numbered' /\ Fresh' /\ Empty' /\ Own'
  <1>1. Numbered' /\ Fresh'
    BY Unpacked DEF Numbered, Fresh, api, cache
  <1>2. ASSUME NEW k \in Jobs, First(k)'
        PROVE  /\ Objects(k)' /\ Shown(k)'
               /\ Told(k, cpod[k].conds)' /\ Told(k, cCpod[k].conds)'
               /\ (w.job = k)' => Known(k)'
    <2>1. First(k)
      BY <1>2 DEF First, api
    <2>2. Objects(k) /\ Shown(k) /\ Told(k, cpod[k].conds) /\ Told(k, cCpod[k].conds)
      BY <2>1, Unpacked DEF Own
    <2> QED
      BY <2>1, <2>2
      DEF Objects, Shown, Told, CkptBound, SaveBound, Bound, NeedsSave, Trained, api, cache
  <1>3. Own'
    BY <1>2 DEF Own
  <1> QED BY <1>1, <1>3

LEMMA ReadOwn ==
  ASSUME OwnInv, NEW j \in Jobs, Start(j) \/ Skip(j)
  PROVE  Numbered' /\ Fresh' /\ Empty' /\ Own'
  <1>0. UNCHANGED <<spec, api, cache, born>>
    BY DEF Start, Skip
  <1>1. CASE Start(j)
    <2>1. /\ w'.job = j /\ w'.uid = cCpod[j].uid /\ w'.conds = cCpod[j].conds
          /\ pc' \in {"upload", "base"}
      BY <1>1 DEF Start
    <2>2. Empty'
      BY <2>1, Unpacked DEF Empty, Blank
    <2>3. First(j) => Told(j, w'.conds)
      BY <2>1, Unpacked DEF Own
    <2>4. First(j) => Known(j)'
      BY <1>0, <2>1, <2>3 DEF Known, Told, Trained, api
    <2> QED BY <1>0, <2>1, <2>2, <2>4, WorkerOwn
  <1>2. CASE Skip(j)
    <2>1. UNCHANGED <<pc, w>>
      BY <1>2 DEF Skip, worker
    <2>2. Empty'
      BY <2>1, Unpacked DEF Empty
    <2>3. \A k \in Jobs : First(k) /\ w'.job = k => Known(k)'
      BY <1>0, <2>1, Unpacked DEF Own, Known, Told, Trained, CkptBound, SaveBound, Bound, NeedsSave, api
    <2> QED BY <1>0, <2>2, <2>3, WorkerOwn
  <1> QED BY <1>1, <1>2

\* A reconcile that is about to return with conditions c.
LEMMA ReturnKnown ==
  ASSUME OwnInv, UNCHANGED <<spec, base, upload>>, NEW c, NEW b, Return(c, b),
         First(w.job) => Told(w.job, c), w.uid = 0 => c = w.conds
  PROVE  /\ Empty'
         /\ \A j \in Jobs : First(j) /\ w'.job = j => Known(j)'
  <1>1. pc' = "status" /\ w'.job = w.job /\ w'.uid = w.uid /\ w'.conds = c
    BY Unpacked DEF Return, TypeOK, Work
  <1>2. Empty'
    BY <1>1, Unpacked DEF Empty
  <1>3. ASSUME NEW j \in Jobs, First(j), w'.job = j
        PROVE  Known(j)'
    BY <1>1, <1>3 DEF Known, Told, Trained
  <1> QED BY <1>2, <1>3

LEMMA GetBaseOwn ==
  ASSUME OwnInv, GetBaseJobFails \/ GetBaseJobNotFound \/ UpdateStatus
  PROVE  Numbered' /\ Fresh' /\ Empty' /\ Own'
  <1>0. /\ pc = "base" /\ w.job \in Jobs /\ UNCHANGED <<spec, api, cache, born>>
        /\ w.conds \in Conds
    BY InHand, Unpacked DEF GetBaseJobFails, GetBaseJobNotFound, UpdateStatus, TryAgain,
       StillRunning, TypeOK, Work
  <1>1. /\ UNCHANGED <<base, upload>>
        /\ First(w.job) => Told(w.job, w.conds) /\ Shown(w.job) /\ Objects(w.job)
    BY <1>0, Unpacked DEF Own, Known, api
  <1>2. CASE GetBaseJobFails
    <2>1. Return(w.conds, TRUE)
      BY <1>2 DEF GetBaseJobFails, TryAgain
    <2> QED BY <1>0, <1>1, <2>1, ReturnKnown, WorkerOwn
  <1>3. CASE GetBaseJobNotFound
    <2>1. pc' = "ckpt" /\ w' = w
      BY <1>3 DEF GetBaseJobNotFound, Continue
    <2>2. Empty'
      BY <2>1, Unpacked DEF Empty
    <2>3. \A j \in Jobs : First(j) /\ w'.job = j => Known(j)'
      BY <1>0, <1>1, <2>1 DEF Known, Told, Trained
    <2> QED BY <1>0, <2>2, <2>3, WorkerOwn
  <1>4. CASE UpdateStatus
    <2>0. w.uid # 0 /\ cBase[w.job] \in BaseObject
      BY <1>0, <1>4, Unpacked DEF UpdateStatus, StillRunning, TypeOK
    <2>1. /\ cBase[w.job].phase = "succeeded" /\ First(w.job) => Trained(w.job, "succeeded")
          /\ cBase[w.job].phase = "failed" /\ First(w.job) => Trained(w.job, "failed")
      BY <1>1, <2>0 DEF Shown, Objects, Trained, BaseObject, NoBase
    <2>2. CASE /\ BaseStatus(w.job) = "failed"
               /\ Return(SetCondition(w.conds, "Failed", "True"), FALSE)
      <3>1. First(w.job) => Told(w.job, SetCondition(w.conds, "Failed", "True"))
        BY <1>0, <1>1, <2>1, <2>2, TellMore DEF BaseStatus, CondType, CondStatus
      <3> QED BY <1>0, <1>1, <2>0, <2>2, <3>1, ReturnKnown, WorkerOwn
    <2>3. CASE StillRunning
      <3>1. First(w.job) => Told(w.job, SetCondition(w.conds, "Running", "True"))
        BY <1>0, <1>1, TellMore DEF CondType, CondStatus
      <3> QED BY <1>0, <1>1, <2>0, <2>3, <3>1, ReturnKnown, WorkerOwn DEF StillRunning
    <2>4. CASE /\ BaseStatus(w.job) = "succeeded"
               /\ pc' = IF Uploads(w.job) THEN "upload" ELSE "status"
               /\ w' = [w EXCEPT !.conds = SetCondition(@, "Succeeded", "True")]
      <3>1. First(w.job) => Told(w.job, SetCondition(w.conds, "Succeeded", "True"))
        BY <1>0, <1>1, <2>1, <2>4, TellMore DEF BaseStatus, CondType, CondStatus
      <3>2. /\ w'.job = w.job /\ w'.uid = w.uid /\ pc' \in {"upload", "status"}
            /\ w'.conds = SetCondition(w.conds, "Succeeded", "True")
        BY <2>4, Unpacked DEF TypeOK, Work
      <3>3. Empty'
        BY <2>0, <3>2 DEF Empty
      <3>4. \A j \in Jobs : First(j) /\ w'.job = j => Known(j)'
        BY <1>0, <1>1, <3>1, <3>2 DEF Known, Told, Trained
      <3> QED BY <1>0, <3>3, <3>4, WorkerOwn
    <2> QED BY <1>4, <2>2, <2>3, <2>4 DEF UpdateStatus
  <1> QED BY <1>2, <1>3, <1>4

\* A step that may create an object, and is about to return with conditions c.
LEMMA ReturnOwn ==
  ASSUME OwnInv, TypeOK', UNCHANGED <<spec, cpod, cache, born>>,
         Fresh', \A j \in Jobs : First(j) => Objects(j)' /\ Grows(j),
         NEW c, NEW b, Return(c, b), w.uid = 0 => c = w.conds,
         NEW j \in Jobs, j = w.job, First(j) => Told(j, c)'
  PROVE  Numbered' /\ Fresh' /\ Empty' /\ Own'
  <1>1. pc' = "status" /\ w'.job = w.job /\ w'.uid = w.uid /\ w'.conds = c
    BY Unpacked DEF Return, TypeOK, Work
  <1>2. Empty'
    BY <1>1, Unpacked DEF Empty
  <1>3. \A k \in Jobs : First(k) /\ w'.job = k => Known(k)'
    BY <1>1 DEF Known, Told, Trained
  <1> QED BY <1>2, <1>3, ObjectsOwn

LEMMA CreateOwn ==
  ASSUME OwnInv, TypeOK', GetCKPTPVC \/ GetModelSavePVC \/ CheckArtifacts \/ CreateBaseJob
  PROVE  Numbered' /\ Fresh' /\ Empty' /\ Own'
  <1>j. PICK j \in Jobs : j = w.job
    BY InHand, Unpacked DEF GetCKPTPVC, GetModelSavePVC, CheckArtifacts, CreateBaseJob, TryAgain
  <1>0. /\ pc \in {"ckpt", "save", "data", "create", "bare"} /\ j \in Jobs /\ w.job = j
        /\ UNCHANGED <<spec, cpod, upload, cache, born>>
        /\ w.conds \in Conds
    BY <1>j, InHand, Unpacked
    DEF GetCKPTPVC, GetModelSavePVC, CheckArtifacts, CreateBaseJob, TryAgain, TypeOK, Work, api
  <1>1. w.uid # 0 /\ born[j] # 0
    BY <1>0, HandFirst, Unpacked DEF Moves
  <1>2. First(j) => Objects(j) /\ Shown(j) /\ Known(j) /\ w.uid = 1
    BY <1>0, <1>1, HandFirst, Unpacked DEF Own
  <1>3. \A v \in Volume : pvc[v][j] \in PvcObject
    BY <1>0, Unpacked DEF TypeOK
  \* What the step does to the objects.
  <1>4. /\ \A k \in Jobs \ {j} :
             /\ base'[k] = base[k] /\ \A v \in Volume : pvc'[v][k] = pvc[v][k]
        /\ First(j) => Objects(j)' /\ Grows(j)
    <2>1. ASSUME NEW v \in Volume, NEW a \in Answer, CreatePvc(v, a), base' = base
          PROVE  /\ \A k \in Jobs \ {j} :
                      /\ base'[k] = base[k] /\ \A u \in Volume : pvc'[u][k] = pvc[u][k]
                 /\ First(j) => Objects(j)' /\ Grows(j)
      <3>1. pvc' \in {pvc, [pvc EXCEPT ![v][j] = [owner |-> w.uid, state |-> "pending"]]}
            /\ (pvc' # pvc => pvc[v][j].state = "none")
        BY <1>0, <2>1 DEF CreatePvc
      <3>2. /\ \A u \in Volume, k \in Jobs \ {j} : pvc'[u][k] = pvc[u][k]
            /\ \A u \in Volume : \/ pvc'[u][j] = pvc[u][j]
                                 \/ /\ pvc'[u][j] = [owner |-> w.uid, state |-> "pending"]
                                    /\ pvc[u][j].state = "none"
        <4>1. CASE pvc' = pvc
          BY <4>1
        <4>2. CASE /\ pvc' = [pvc EXCEPT ![v][j] = [owner |-> w.uid, state |-> "pending"]]
                   /\ pvc[v][j].state = "none"
          BY <1>0, <4>2, Unpacked DEF TypeOK
        <4> QED BY <3>1, <4>1, <4>2
      <3>3. \A u \in Volume : Bound(u, j) => Bound(u, j)'
        BY <3>2 DEF Bound
      <3>4. First(j) => Grows(j)
        BY <1>0, <2>1, <3>3, Unpacked DEF Grows, Bound, TypeOK, UploadObject
      <3>5. First(j) => Objects(j)'
        <4>1. First(j) => \A u \in Volume : pvc'[u][j].owner \in {0, 1}
          BY <1>2, <3>2 DEF Objects
        <4> QED
          BY <1>0, <1>2, <2>1, <3>3, <4>1 DEF Objects, CkptBound, SaveBound, NeedsSave, Volume
      <3> QED BY <2>1, <3>2, <3>4, <3>5
    <2>2. CASE UNCHANGED <<base, pvc>>
      <3>1. upload[j].failed \in Nat
        BY <1>0, Unpacked DEF TypeOK, UploadObject
      <3> QED
        BY <1>0, <1>2, <2>2, <3>1
        DEF Objects, Grows, Bound, CkptBound, SaveBound, NeedsSave
    <2>3. CASE CreateBaseJob
      <3>1. /\ pvc' = pvc /\ pc \in {"create", "bare"}
            /\ \/ base' = base
               \/ /\ base[j].phase = "none"
                  /\ \E p \in {"new", "stuck"} :
                        base' = [base EXCEPT ![j] = [owner |-> w.uid, phase |-> p]]
        BY <1>0, <2>3 DEF CreateBaseJob, TryAgain
      <3>2. /\ \A k \in Jobs \ {j} : base'[k] = base[k]
            /\ \/ base'[j] = base[j]
               \/ /\ base[j].phase = "none"
                  /\ \E p \in {"new", "stuck"} : base'[j] = [owner |-> w.uid, phase |-> p]
        BY <1>0, <3>1, Unpacked DEF TypeOK
      <3>3. First(j) => CkptBound(j)' /\ SaveBound(j)'
        BY <1>0, <1>2, <3>1 DEF Known, CkptBound, SaveBound, Bound, NeedsSave
      <3>4. First(j) => Objects(j)'
        BY <1>0, <1>2, <3>1, <3>2, <3>3 DEF Objects
      <3>5. First(j) => Grows(j)
        BY <1>0, <3>1, <3>2, Unpacked DEF Grows, Bound, TypeOK, UploadObject
      <3> QED BY <3>1, <3>2, <3>4, <3>5
    <2>4. \/ UNCHANGED <<base, pvc>> \/ CreateBaseJob
          \/ base' = base /\ \E v \in Volume, a \in Answer : CreatePvc(v, a)
      BY DEF GetCKPTPVC, GetModelSavePVC, CheckArtifacts, CreateBaseJob, TryAgain, Volume, api
    <2> QED BY <2>1, <2>2, <2>3, <2>4
  <1>5. \A k \in Jobs : First(k) => Objects(k)' /\ Grows(k)
    <2>1. \A k \in Jobs \ {j} : First(k) => Objects(k) /\ upload[k].failed \in Nat
      BY Unpacked DEF Own, TypeOK, UploadObject
    <2>2. \A k \in Jobs \ {j} : First(k) => Objects(k)' /\ Grows(k)
      BY <1>0, <1>4, <2>1 DEF Objects, Grows, CkptBound, SaveBound, Bound, NeedsSave, Volume
    <2> QED BY <1>4, <2>2
  <1>6. Fresh'
    BY <1>0, <1>1, <1>4, Unpacked DEF Fresh, cache
  \* What the worker goes on with.
  <1>c. PICK c : c = w.conds
    OBVIOUS
  <1>7. First(j) => Told(j, c)' /\ (CkptBound(j) => CkptBound(j)') /\ (SaveBound(j) => SaveBound(j)')
    <2>1. First(j) => Told(j, c) /\ Grows(j)
      BY <1>0, <1>2, <1>5, <1>c DEF Known
    <2> QED BY <1>0, <2>1, StaysTold, Unpacked
  <1>8. \/ Return(w.conds, TRUE)
        \/ pc' = "panicked" /\ w' = NoWork
        \/ /\ spec[j].data /\ UNCHANGED api
           /\ Return(SetCondition(w.conds, "Failed", "True"), TRUE)
        \/ pc = "ckpt" /\ Continue("save") /\ (~spec[j].ckpt \/ Ready("ckpt"))
        \/ pc = "save" /\ Continue("data") /\ (~NeedsSave(j) \/ Ready("save"))
        \/ pc = "data" /\ (Continue("create") \/ Continue("bare"))
    BY <1>0 DEF GetCKPTPVC, GetModelSavePVC, CheckArtifacts, CreateBaseJob, TryAgain
  <1>9. CASE Return(w.conds, TRUE)
    BY <1>0, <1>5, <1>6, <1>7, <1>9, <1>c, ReturnOwn
  <1>10. CASE pc' = "panicked" /\ w' = NoWork
    <2>1. Empty' /\ \A k \in Jobs : First(k) /\ w'.job = k => Known(k)'
      BY <1>10, NothingTyped, NoJobAssumption DEF Empty
    <2> QED BY <1>0, <1>5, <1>6, <2>1, ObjectsOwn
  <1>11. CASE /\ spec[j].data /\ UNCHANGED api
              /\ Return(SetCondition(w.conds, "Failed", "True"), TRUE)
    <2>1. First(j) => Told(j, SetCondition(w.conds, "Failed", "True"))
      BY <1>0, <1>2, <1>11, TellMore DEF Known, CondType, CondStatus
    <2>2. UNCHANGED <<spec, base, upload>>
      BY <1>0, <1>11 DEF api
    <2>3. Empty' /\ \A k \in Jobs : First(k) /\ w'.job = k => Known(k)'
      BY <1>0, <1>1, <1>11, <2>1, <2>2, ReturnKnown
    <2> QED BY <1>0, <1>11, <2>3, WorkerOwn
  <1>12. ASSUME pc' \in {"save", "data", "create", "bare"}, w' = w,
                pc' # "save" => pc # "ckpt",
                pc' \in {"create", "bare"} => pc \notin {"ckpt", "save"},
                pc' = "save" => ~spec[j].ckpt \/ Ready("ckpt"),
                pc' = "data" => ~NeedsSave(j) \/ Ready("save")
         PROVE  Numbered' /\ Fresh' /\ Empty' /\ Own'
    <2>1. Empty'
      BY <1>12, Unpacked DEF Empty
    <2>2. First(j) => /\ pc' \in {"save", "data", "create", "bare"} => CkptBound(j)
                      /\ pc' \in {"data", "create", "bare"} => SaveBound(j)
      BY <1>0, <1>2, <1>12 DEF Known, Shown, Ready, CkptBound, SaveBound, Bound, Volume
    <2>3. First(j) => Told(j, w.conds)'
      BY <1>7, <1>12, <1>c DEF Told
    <2>4. First(j) => Known(j)'
      BY <1>7, <1>12, <2>2, <2>3 DEF Known, Told
    <2>5. \A k \in Jobs : First(k) /\ w'.job = k => Known(k)'
      BY <1>0, <1>12, <2>4
    <2> QED BY <1>0, <1>5, <1>6, <2>1, <2>5, ObjectsOwn
  <1>13. CASE \/ pc = "ckpt" /\ Continue("save") /\ (~spec[j].ckpt \/ Ready("ckpt"))
              \/ pc = "save" /\ Continue("data") /\ (~NeedsSave(j) \/ Ready("save"))
              \/ pc = "data" /\ (Continue("create") \/ Continue("bare"))
    BY <1>12, <1>13 DEF Continue
  <1> QED BY <1>8, <1>9, <1>10, <1>11, <1>13

LEMMA UploadOwn ==
  ASSUME OwnInv, TypeOK', UploadSavedModel
  PROVE  Numbered' /\ Fresh' /\ Empty' /\ Own'
  <1>j. PICK j \in Jobs : j = w.job
    BY InHand, Unpacked DEF UploadSavedModel, TryAgain, UploadUnderWay
  <1>0. /\ pc = "upload" /\ w.job = j /\ w.conds \in Conds
        /\ UNCHANGED <<spec, cpod, base, pvc, cache, born>>
    BY <1>j, Unpacked DEF UploadSavedModel, TryAgain, UploadUnderWay, TypeOK, Work
  <1>1. w.uid # 0 /\ born[j] # 0 /\ IsSucceeded(w.conds)
    BY <1>0, HandFirst, Unpacked DEF Moves, CoherentInv, StageKnown
  <1>2. First(j) => Objects(j) /\ Shown(j) /\ Told(j, w.conds) /\ w.uid = 1
    BY <1>0, <1>1, HandFirst, Unpacked DEF Own, Known
  <1>3. upload[j] \in UploadObject /\ cUpload[j] \in UploadObject /\ BackoffLimit \in Nat \ {0}
    BY Unpacked, BackoffAssumption DEF TypeOK
  \* What the step does to the upload Jobs.
  <1>4. /\ \A k \in Jobs \ {j} : upload'[k] = upload[k]
        /\ \/ upload'[j] = upload[j]
           \/ /\ upload[j].state = "none"
              /\ upload'[j] = [owner |-> w.uid, state |-> "active", failed |-> 0]
    <2>1. \/ upload' = upload
          \/ /\ upload[j].state = "none"
             /\ upload' = [upload EXCEPT ![j] = [owner |-> w.uid, state |-> "active", failed |-> 0]]
      BY <1>0 DEF UploadSavedModel, CreateUpload
    <2> QED BY <1>0, <2>1, Unpacked DEF TypeOK
  <1>5. First(j) => Objects(j)' /\ Grows(j)
    <2>1. First(j) => base[j].phase = "succeeded"
      BY <1>1, <1>2 DEF Told, Trained
    <2>2. First(j) => Grows(j)
      BY <1>0, <1>2, <1>3, <1>4 DEF Objects, Grows, Bound, NoUpload, UploadObject
    <2>3. First(j) => Objects(j)'
      BY <1>0, <1>2, <1>4, <2>1 DEF Objects, CkptBound, SaveBound, Bound, NeedsSave
    <2> QED BY <2>2, <2>3
  <1>6. \A k \in Jobs : First(k) => Objects(k)' /\ Grows(k)
    <2>1. \A k \in Jobs \ {j} : First(k) => Objects(k) /\ upload[k].failed \in Nat
      BY Unpacked DEF Own, TypeOK, UploadObject
    <2>2. \A k \in Jobs \ {j} : First(k) => Objects(k)' /\ Grows(k)
      BY <1>0, <1>4, <2>1 DEF Objects, Grows, CkptBound, SaveBound, Bound, NeedsSave
    <2> QED BY <1>5, <2>2
  <1>7. Fresh'
    BY <1>0, <1>1, <1>4, Unpacked DEF Fresh, cache
  <1>8. First(j) => \A c : Told(j, c) => Told(j, c)'
    BY <1>6, StaysTold, Unpacked
  <1>9. CASE TryAgain
    <2>1. PICK c : c = w.conds
      OBVIOUS
    <2>2. First(j) => Told(j, c)'
      BY <1>2, <1>8, <2>1
    <2>3. Return(c, TRUE)
      BY <1>9, <2>1 DEF TryAgain
    <2> QED BY <1>0, <1>6, <1>7, <2>1, <2>2, <2>3, ReturnOwn
  <1>10. CASE UNCHANGED upload /\ cUpload[j].state # "none" /\ UploadUnderWay
    <2>1. First(j) => Told(j, SetCondition(w.conds, "ModelUploading", "True"))
      BY <1>0, <1>2, <1>10, TellMore DEF Shown, CondType, CondStatus
    <2>2. PICK c : c = SetCondition(w.conds, "ModelUploading", "True")
      OBVIOUS
    <2>3. First(j) => Told(j, c)'
      BY <1>8, <2>1, <2>2
    <2> QED BY <1>0, <1>1, <1>6, <1>7, <1>10, <2>2, <2>3, ReturnOwn DEF UploadUnderWay
  <1>11. CASE UploadUnderWay /\ upload[j].state = "none"
              /\ upload'[j] = [owner |-> w.uid, state |-> "active", failed |-> 0]
    <2>1. PICK d : d = w.conds
      OBVIOUS
    <2>2. First(j) => Told(j, d)' /\ upload'[j].owner = 1
      BY <1>2, <1>8, <1>11, <2>1
    <2>3. PICK e : e = SetCondition(d, "ModelUploading", "True")
      OBVIOUS
    <2>4. \A k \in CondType \ {"Running"} :
             e[k] \in {d[k], "absent"} \/ (k = "ModelUploading" /\ e[k] = "True")
      BY <1>0, <2>1, <2>3, TellOne DEF CondType, CondStatus
    <2>5. First(j) => Told(j, e)'
      BY <2>2, <2>4 DEF Told, IsSucceeded, IsFailed, IsTrue, CondType
    <2> QED BY <1>0, <1>1, <1>6, <1>7, <1>11, <2>1, <2>3, <2>5, ReturnOwn DEF UploadUnderWay
  <1>12. CASE /\ UNCHANGED upload /\ cUpload[j].state = "succeeded"
              /\ Return(SetCondition(w.conds, "ModelUploaded", "True"), FALSE)
    <2>1. First(j) => Told(j, SetCondition(w.conds, "ModelUploaded", "True"))
      BY <1>0, <1>2, <1>12, TellMore DEF Shown, CondType, CondStatus
    <2>2. PICK c : c = SetCondition(w.conds, "ModelUploaded", "True")
      OBVIOUS
    <2>3. First(j) => Told(j, c)'
      BY <1>8, <2>1, <2>2
    <2> QED BY <1>0, <1>1, <1>6, <1>7, <1>12, <2>2, <2>3, ReturnOwn
  <1>13. CASE /\ UNCHANGED upload /\ cUpload[j].state # "none" /\ GivenUp(cUpload[j])
              /\ Return(SetCondition(w.conds, "ModelUploaded", "False"), FALSE)
    <2>1. First(j) => upload[j].failed # 0 /\ upload[j].owner = 1
      BY <1>2, <1>3, <1>13 DEF Shown, GivenUp, UploadObject
    <2>2. First(j) => Told(j, SetCondition(w.conds, "ModelUploaded", "False"))
      BY <1>0, <1>2, <2>1, TellMore DEF CondType, CondStatus
    <2>3. PICK c : c = SetCondition(w.conds, "ModelUploaded", "False")
      OBVIOUS
    <2>4. First(j) => Told(j, c)'
      BY <1>8, <2>2, <2>3
    <2> QED BY <1>0, <1>1, <1>6, <1>7, <1>13, <2>3, <2>4, ReturnOwn
  <1>14. \/ TryAgain
         \/ UNCHANGED upload /\ cUpload[j].state # "none" /\ UploadUnderWay
         \/ /\ UploadUnderWay /\ upload[j].state = "none"
            /\ upload'[j] = [owner |-> w.uid, state |-> "active", failed |-> 0]
         \/ /\ UNCHANGED upload /\ cUpload[j].state = "succeeded"
            /\ Return(SetCondition(w.conds, "ModelUploaded", "True"), FALSE)
         \/ /\ UNCHANGED upload /\ cUpload[j].state # "none" /\ GivenUp(cUpload[j])
            /\ Return(SetCondition(w.conds, "ModelUploaded", "False"), FALSE)
    BY <1>0, Unpacked DEF UploadSavedModel, Uploaded, CreateUpload, TypeOK
  <1> QED BY <1>9, <1>10, <1>11, <1>12, <1>13, <1>14

LEMMA FinishOwn ==
  ASSUME OwnInv, TypeOK', Finish
  PROVE  Numbered' /\ Fresh' /\ Empty' /\ Own'
  <1>j. PICK j \in Jobs : j = w.job
    BY InHand, Unpacked DEF Finish, Requeue
  <1>0. /\ w.job = j /\ UNCHANGED <<spec, base, pvc, upload, cache, born>>
        /\ w' = NoWork /\ NoWork.job \notin Jobs
    BY <1>j, NothingTyped, NoJobAssumption DEF Finish, Requeue
  <1>1. /\ \A k \in Jobs : cpod'[k].uid = cpod[k].uid
        /\ \A k \in Jobs \ {j} : cpod'[k] = cpod[k]
        /\ cpod'[j].conds \in {cpod[j].conds, w.conds}
    <2>1. CASE cpod' = cpod
      BY <2>1
    <2>2. CASE /\ Current(cpod[j])
               /\ cpod' = [cpod EXCEPT ![j] =
                            [uid |-> w.uid, rv |-> w.rv + 1, conds |-> w.conds]]
      BY <2>2, Unpacked DEF Current, TypeOK
    <2> QED BY <1>0, <2>1, <2>2, FinishWrites, Unpacked
  <1>2. Numbered' /\ Fresh' /\ Empty'
    BY <1>0, <1>1, Unpacked DEF Numbered, Fresh, Empty, cache
  <1>3. ASSUME NEW k \in Jobs, First(k)'
        PROVE  /\ Objects(k)' /\ Shown(k)'
               /\ Told(k, cpod[k].conds)' /\ Told(k, cCpod[k].conds)'
    <2>1. First(k)
      BY <1>1, <1>3 DEF First
    <2>2. /\ Objects(k) /\ Shown(k) /\ Told(k, cpod'[k].conds) /\ Told(k, cCpod[k].conds)
      BY <1>0, <1>1, <2>1, Unpacked DEF Own, Known
    <2> QED
      BY <1>0, <2>2 DEF Objects, Shown, Told, CkptBound, SaveBound, Bound, NeedsSave, Trained, cache
  <1>4. Own'
    BY <1>0, <1>3 DEF Own
  <1> QED BY <1>2, <1>4

LEMMA NextOwn ==
  ASSUME OwnInv, [Next]_vars
  PROVE  OwnInv'
  <1>1. LifeInv' /\ TypeOK'
    BY NextLife, NextTyped, Unpacked DEF OwnInv
  <1>2. Numbered' /\ Fresh' /\ Empty' /\ Own'
    <2>1. CASE Users BY <2>1, UsersOwn DEF Users
    <2>2. CASE Cluster BY <1>1, <2>2, ClusterOwn
    <2>3. CASE Informers BY <1>1, <2>3, InformersOwn
    <2>4. CASE Worker
      BY <1>1, <2>4, ReadOwn, GetBaseOwn, CreateOwn, UploadOwn, FinishOwn DEF Worker, Reconcile
    <2>5. CASE Crash \/ Restart BY <1>1, <2>5, CrashOwn
    <2>6. CASE UNCHANGED vars
      <3>1. UNCHANGED <<spec, api, cache, born, pc, w>>
        BY <2>6 DEF vars, api, cache
      <3>2. Empty'
        BY <3>1, Unpacked DEF Empty
      <3>3. \A k \in Jobs : First(k) /\ w'.job = k => Known(k)'
        BY <3>1, Unpacked DEF Own, Known, Told, Trained, CkptBound, SaveBound, Bound, NeedsSave, api
      <3> QED BY <3>1, <3>2, <3>3, WorkerOwn
    <2> QED BY <2>1, <2>2, <2>3, <2>4, <2>5, <2>6 DEF Next
  <1> QED BY <1>1, <1>2 DEF OwnInv

\* What is known of a first CPodJob, its objects and its status holds in every
\* reachable state.
THEOREM OwnInvariant == Spec => []OwnInv
  <1>1. Init => OwnInv
    BY InitTyped, InitCoherent, InitWakeup, InitLife, InitOwn
    DEF OwnInv, LifeInv, WakeupInv, CoherentInv
  <1> QED BY <1>1, NextOwn, PTL DEF Spec

\* A base job is never launched before the volumes it mounts are bound,
\* whatever calls fail or are repeated between creating the claims and
\* creating the base job (CreateBaseJob).
THEOREM VolumesBeforeLaunchAlways == Spec => []VolumesBeforeLaunch
  <1>1. OwnInv => VolumesBeforeLaunch
    BY DEF OwnInv, Own, Objects, VolumesBeforeLaunch, CkptBound, SaveBound, Bound
  <1> QED BY <1>1, OwnInvariant, PTL

\* The verdict that a user reads is the verdict of the job's own base job,
\* however stale the caches are (UpdateStatus), for any number of jobs that
\* share the worker.
THEOREM VerdictOfOwnJobAlways == Spec => []VerdictOfOwnJob
  <1>1. OwnInv => VerdictOfOwnJob
    BY DEF OwnInv, Own, Told, Trained, VerdictOfOwnJob
  <1> QED BY <1>1, OwnInvariant, PTL

\* An upload starts only after its training succeeded, and the status speaks
\* of the job's own upload: of a success only if there was one, of a loss only
\* if pods were lost (uploadSavedModel).
THEOREM UploadReportedAsIsAlways == Spec => []UploadReportedAsIs
  <1>1. OwnInv => UploadReportedAsIs
    BY DEF OwnInv, Own, Objects, Told, UploadReportedAsIs
  <1> QED BY <1>1, OwnInvariant, PTL
=============================================================================
