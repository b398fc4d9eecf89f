------------------------ MODULE ModelStorage_proofs ------------------------
(***************************************************************************)
(* What ModelStorage promises, for any names, bounds and faults: its       *)
(* types, that a phase that is done says the truth and stays, and, as long *)
(* as no call fails, that no wake-up is lost.                              *)
(***************************************************************************)
EXTENDS ModelStorage, TLAPS

----------------------------------------------------------------------------
(* Types.                                                                  *)

LEMMA NothingTyped ==
  /\ NoStatus \in Status /\ NoObject \in Object /\ NoJob \in JobObject
  /\ NoClaim \in Claim /\ NoWork \in Work /\ 0 \in Uid
BY BoundsAssumption DEF NoStatus, Status, NoObject, Object, Uid, NoJob, JobObject,
   NoClaim, Claim, NoWork, Work

LEMMA NothingSensible ==
  Sensible(NoStatus) /\ Sensible(NoObject.status) /\ Sensible(NoWork.status)
BY DEF NoStatus, NoObject, NoWork, Sensible

\* A status that Reconcile writes to, by where it is.
LEMMA StatusTyped ==
  ASSUME NEW s \in Status, Sensible(s)
  PROVE  /\ ~s.claim => Sensible([s EXCEPT !.failure = TRUE])
         /\ Sensible(Cleared(s)) /\ ~Cleared(s).failure /\ Cleared(s).claim = s.claim
         /\ ~s.failure => Sensible([s EXCEPT !.claim = TRUE])
         /\ s.claim => Sensible([s EXCEPT !.job = TRUE, !.phase = "syncing"])
         /\ Sensible([s EXCEPT !.job = FALSE])
         /\ s.claim => Sensible([s EXCEPT !.phase = "done"])
         /\ {[s EXCEPT !.failure = TRUE], Cleared(s), [s EXCEPT !.claim = TRUE],
             [s EXCEPT !.job = TRUE, !.phase = "syncing"], [s EXCEPT !.job = FALSE],
             [s EXCEPT !.phase = "done"]} \subseteq Status
  <1>1. PICK d : d = [s EXCEPT !.failure = TRUE]
    OBVIOUS
  <1>2. d \in Status /\ d.claim = s.claim /\ d.job = s.job /\ d.phase = s.phase
    BY <1>1 DEF Status
  <1>3. PICK e : e = [s EXCEPT !.failure = FALSE]
    OBVIOUS
  <1>4. e \in Status /\ e.claim = s.claim /\ e.job = s.job /\ e.phase = s.phase /\ ~e.failure
    BY <1>3 DEF Status
  <1>5. PICK f : f = [s EXCEPT !.claim = TRUE]
    OBVIOUS
  <1>6. f \in Status /\ f.claim /\ f.job = s.job /\ f.phase = s.phase /\ f.failure = s.failure
    BY <1>5 DEF Status
  <1>7. PICK g : g = [s EXCEPT !.job = TRUE, !.phase = "syncing"]
    OBVIOUS
  <1>8. g \in Status /\ g.claim = s.claim /\ g.phase # "" /\ g.failure = s.failure
    BY <1>7 DEF Status
  <1>9. PICK h : h = [s EXCEPT !.job = FALSE]
    OBVIOUS
  <1>10. h \in Status /\ h.claim = s.claim /\ ~h.job /\ h.phase = s.phase /\ h.failure = s.failure
    BY <1>9 DEF Status
  <1>11. PICK i : i = [s EXCEPT !.phase = "done"]
    OBVIOUS
  <1>12. i \in Status /\ i.claim = s.claim /\ i.job = s.job /\ i.phase # "" /\ i.failure = s.failure
    BY <1>11 DEF Status
  <1>13. Sensible(s) OBVIOUS
  <1>14. /\ s.claim => Sensible(g) /\ Sensible(i)
         /\ Sensible(h) /\ Sensible(e)
         /\ ~s.failure => Sensible(f)
         /\ ~s.claim => Sensible(d)
    BY <1>2, <1>4, <1>6, <1>8, <1>10, <1>12, <1>13 DEF Sensible
  <1> QED
    BY <1>1, <1>2, <1>3, <1>4, <1>5, <1>6, <1>7, <1>8, <1>9, <1>10, <1>11, <1>12, <1>14 DEF Cleared

LEMMA InHand ==
  ASSUME TypeOK, pc \notin {"idle", "down"}
  PROVE  /\ w.model \in Models /\ w.uid \in Uid /\ w.rv \in Nat /\ w.status \in Status
         /\ w.model # NoModel
BY DEF TypeOK, Work

\* A version that a status update writes.
LEMMA UpdateTyped ==
  ASSUME TypeOK, pc \notin {"idle", "down"}, w.uid # 0, NEW a \in Answer, UpdateStatus(a)
  PROVE  /\ obj' \in [Models -> Object]
         /\ \A m \in Models :
              /\ obj'[m].uid = obj[m].uid /\ Sensible(obj'[m].status)
              /\ obj'[m] = obj[m] \/ obj'[m].uid # 0
         /\ faults' \in 0..MaxFaults
  <1> DEFINE new == [uid |-> w.uid, rv |-> w.rv + 1, status |-> w.status]
  <1>1. w.model \in Models /\ w.uid \in Uid /\ w.rv \in Nat /\ w.status \in Status
    BY InHand
  <1>2. new \in Object /\ new.uid = w.uid /\ Sensible(new.status)
    BY <1>1 DEF Object, TypeOK
  <1>3. obj' = obj \/ (obj[w.model].uid = w.uid /\ obj' = [obj EXCEPT ![w.model] = new])
    BY DEF UpdateStatus, Current
  <1>4. faults' \in 0..MaxFaults
    BY BoundsAssumption DEF UpdateStatus, Calls, Fault, TypeOK
  <1>5. obj \in [Models -> Object] /\ \A m \in Models : Sensible(obj[m].status)
    BY DEF TypeOK
  <1>6. CASE obj' = obj
    BY <1>4, <1>5, <1>6
  <1>7. CASE obj[w.model].uid = w.uid /\ obj' = [obj EXCEPT ![w.model] = new]
    <2> HIDE DEF new
    <2>1. \A m \in Models : obj'[m] = IF m = w.model THEN new ELSE obj[m]
      BY <1>1, <1>5, <1>7
    <2>2. obj' \in [Models -> Object]
      BY <1>1, <1>2, <1>5, <1>7
    <2> QED BY <1>2, <1>4, <1>5, <1>7, <2>1, <2>2
  <1> QED BY <1>3, <1>6, <1>7

LEMMA EnvironmentTyped == ASSUME TypeOK, Environment PROVE TypeOK'
  <1> SUFFICES ASSUME NEW m \in Models,
                      \/ Create(m) \/ Delete(m) \/ Publish(m) \/ RemoveJob(m)
                      \/ CollectJob(m) \/ CollectClaim(m) \/ JobSucceeds(m) \/ JobFails(m)
               PROVE  TypeOK'
    BY DEF Environment
  <1>1. CASE Create(m)
    <2>1. born[m] + 1 \in Uid /\ born[m] + 1 # 0
      BY <1>1, BoundsAssumption DEF Create, TypeOK, Uid
    <2>2. [uid |-> born[m] + 1, rv |-> 1, status |-> NoStatus] \in Object
      BY <2>1, NothingTyped DEF Object
    <2>3. \A k \in Models : Sensible(obj'[k].status)
      BY <1>1, NothingSensible DEF Create, TypeOK
    <2> QED BY <1>1, <2>1, <2>2, <2>3 DEF Create, TypeOK, cache, worker
  <1>2. CASE Delete(m)
    BY <1>2, NothingTyped, NothingSensible DEF Delete, TypeOK, cache, worker
  <1>3. CASE Publish(m)
    BY <1>3 DEF Publish, TypeOK, api, cache, worker, Repo
  <1>4. CASE RemoveJob(m) \/ CollectJob(m) \/ JobFails(m)
    <2>1. CASE RemoveJob(m) \/ CollectJob(m)
      BY <2>1, NothingTyped DEF RemoveJob, CollectJob, TypeOK, cache, worker
    <2>2. CASE JobFails(m)
      <3>1. job' \in [Models -> JobObject]
        BY <2>2 DEF JobFails, TypeOK, JobObject
      <3> QED BY <2>2, <3>1 DEF JobFails, TypeOK, cache, worker
    <2> QED BY <1>4, <2>1, <2>2
  <1>5. CASE CollectClaim(m)
    BY <1>5, NothingTyped DEF CollectClaim, TypeOK, cache, worker
  <1>6. CASE JobSucceeds(m)
    <2>1. job' \in [Models -> JobObject] /\ claim' \in [Models -> Claim]
      BY <1>6 DEF JobSucceeds, TypeOK, JobObject, Claim
    <2> QED BY <1>6, <2>1 DEF JobSucceeds, TypeOK, cache, worker
  <1> QED BY <1>1, <1>2, <1>3, <1>4, <1>5, <1>6

LEMMA ProcessTyped == ASSUME TypeOK, Informers \/ Crash \/ Restart PROVE TypeOK'
  <1>1. CASE Informers
    <2> SUFFICES ASSUME NEW m \in Models, WatchModel(m) \/ WatchJob(m) \/ Resync(m)
                 PROVE  TypeOK'
      BY <1>1 DEF Informers
    <2> QED BY DEF WatchModel, WatchJob, Resync, TypeOK, api, cache, worker
  <1>2. CASE Crash
    BY <1>2, NothingTyped, NothingSensible, BoundsAssumption
    DEF Crash, Fault, TypeOK, api, cache, PC, NoWork
  <1>3. CASE Restart
    BY <1>3, NothingTyped, NothingSensible DEF Restart, TypeOK, api, PC, NoWork
  <1> QED BY <1>1, <1>2, <1>3

LEMMA TakeTyped == ASSUME TypeOK, NEW m \in Models, Start(m) \/ Drop(m) PROVE TypeOK'
  <1>1. CASE Start(m)
    <2>1. w' \in Work /\ w'.model = m /\ m # NoModel /\ w'.status = cObj[m].status
      BY <1>1, NoModelAssumption DEF Start, TypeOK, Work, Object
    <2>2. pc' \in {"size", "create", "look"}
      BY <1>1 DEF Start, Resume
    <2> QED BY <1>1, <2>1, <2>2 DEF Start, TypeOK, PC, api, cache
  <1>2. CASE Drop(m)
    BY <1>2 DEF Drop, TypeOK, api, cache, worker
  <1> QED BY <1>1, <1>2

\* How a step of the worker leaves it.
LEMMA WorkerTyped ==
  ASSUME TypeOK, pc \notin {"idle", "down"}, NEW p \in PC \ {"idle", "down"},
         NEW s \in Status, Sensible(s), NEW r \in Nat,
         \/ Again \/ Done \/ Continue(p, s)
         \/ pc' = p /\ w' = [w EXCEPT !.rv = r] /\ UNCHANGED queue
  PROVE  /\ pc' \in PC /\ w' \in Work /\ Sensible(w'.status) /\ queue' \subseteq Models
         /\ pc' \in {"idle", "down"} <=> w'.model = NoModel
  <1>1. /\ w \in Work /\ w.model \in Models /\ w.model # NoModel /\ queue \subseteq Models
        /\ Sensible(w.status)
    BY InHand DEF TypeOK
  <1>2. CASE Again \/ Done
    BY <1>1, <1>2, NothingTyped, NothingSensible DEF Again, Done, PC, NoWork
  <1>3. CASE Continue(p, s)
    BY <1>1, <1>3 DEF Continue, Work
  <1>4. CASE pc' = p /\ w' = [w EXCEPT !.rv = r] /\ UNCHANGED queue
    BY <1>1, <1>4 DEF Work
  <1> QED BY <1>2, <1>3, <1>4

\* The name in hand was taken when it was read.
Held == w.model \in Models => w.uid # 0

\* What the status in hand says, by where the worker is.
Placed ==
    /\ pc \in {"size", "missing", "claim"} => ~w.status.claim
    /\ pc = "claim" => ~w.status.failure
    /\ pc \in {"claimed", "create", "syncing", "look", "forget", "done"} => w.status.claim
    /\ pc \in {"syncing", "look", "done"} => w.status.job

LEMMA ReconcileTyped == ASSUME TypeOK, Held, Placed, Reconcile PROVE TypeOK'
  <1>0. /\ pc \notin {"idle", "down"} /\ w.model \in Models /\ w.uid # 0
        /\ w.status \in Status /\ w.rv \in Nat
        /\ \A m \in Models : Sensible(obj[m].status) /\ Sensible(cObj[m].status)
        /\ UNCHANGED <<repo, cObj, cJob, born, removed>>
    <2>1. pc \notin {"idle", "down"} /\ UNCHANGED <<repo, cObj, cJob, born, removed>>
      BY DEF Reconcile, HubFails, ModelMissing, ModelFound, WriteMissing, CreateClaim,
         WriteClaimed, CreateJob, WriteSyncing, Look, WriteForget, WriteDone, api, cache
    <2> QED BY <2>1, InHand DEF Held, TypeOK
  <1>s. Sensible(w.status)
    BY DEF TypeOK
  <1> DEFINE Left == /\ pc' \in PC /\ w' \in Work /\ Sensible(w'.status)
                     /\ queue' \subseteq Models
                     /\ pc' \in {"idle", "down"} <=> w'.model = NoModel
  <1>1. CASE HubFails \/ ModelMissing \/ ModelFound \/ Look
    <2>1. UNCHANGED api /\ faults' \in 0..MaxFaults
      BY <1>1, BoundsAssumption DEF HubFails, ModelMissing, ModelFound, Look, Fault, TypeOK
    <2>2. \/ Again
          \/ \E s \in Status, p \in {"missing", "claim", "forget", "done"} :
                Sensible(s) /\ Continue(p, s)
      <3>1. \/ Again
            \/ pc = "size" /\ Continue("missing", [w.status EXCEPT !.failure = TRUE])
            \/ pc = "size" /\ Continue("claim", Cleared(w.status))
            \/ pc = "look" /\ Continue("forget", [w.status EXCEPT !.job = FALSE])
            \/ pc = "look" /\ Continue("done", [w.status EXCEPT !.phase = "done"])
        BY <1>1 DEF HubFails, ModelMissing, ModelFound, Look, LookAgain
      <3>2. pc = "size" => ~w.status.claim
        BY DEF Placed
      <3>3. pc = "look" => w.status.claim
        BY DEF Placed
      <3> QED BY <1>0, <1>s, <3>1, <3>2, <3>3, StatusTyped
    <2>4. {"missing", "claim", "forget", "done"} \subseteq PC \ {"idle", "down"}
      BY DEF PC
    <2>5. Left
      BY <1>0, <1>s, <2>2, <2>4, WorkerTyped
    <2> QED BY <1>0, <2>1, <2>5 DEF TypeOK, api
  <1>2. CASE CreateClaim
    <2>0. w.uid \in Uid /\ [owner |-> w.uid, data |-> FALSE] \in Claim
      BY <1>0, InHand DEF Claim
    <2>1. claim' \in [Models -> Claim] /\ faults' \in 0..MaxFaults
      BY <1>0, <1>2, <2>0, BoundsAssumption DEF CreateClaim, Claimed, Fault, TypeOK
    <2>2. /\ [w.status EXCEPT !.claim = TRUE] \in Status /\ "claimed" \in PC \ {"idle", "down"}
          /\ Sensible([w.status EXCEPT !.claim = TRUE])
      <3>1. ~w.status.failure
        BY <1>2 DEF CreateClaim, Placed
      <3> QED BY <1>0, <1>s, <3>1, StatusTyped DEF PC
    <2>3. Left
      BY <1>0, <1>2, <2>2, WorkerTyped DEF CreateClaim
    <2> QED BY <1>0, <1>2, <2>1, <2>3 DEF TypeOK, CreateClaim, cache
  <1>3. CASE CreateJob
    <2>1. job' \in [Models -> JobObject] /\ faults' \in 0..MaxFaults
      BY <1>0, <1>3, BoundsAssumption, InHand DEF CreateJob, Calls, Fault, TypeOK, JobObject
    <2>2. /\ [w.status EXCEPT !.job = TRUE, !.phase = "syncing"] \in Status
          /\ "syncing" \in PC \ {"idle", "down"}
          /\ Sensible([w.status EXCEPT !.job = TRUE, !.phase = "syncing"])
      <3>1. w.status.claim
        BY <1>3 DEF CreateJob, Placed
      <3> QED BY <1>0, <1>s, <3>1, StatusTyped DEF PC
    <2>3. Left
      BY <1>0, <1>3, <2>2, WorkerTyped DEF CreateJob
    <2> QED BY <1>0, <1>3, <2>1, <2>3 DEF TypeOK, CreateJob, cache
  <1>4. CASE WriteMissing \/ WriteClaimed \/ WriteSyncing \/ WriteForget \/ WriteDone
    <2>1. /\ \E a \in Answer : UpdateStatus(a)
          /\ \/ Again \/ Done
             \/ \E p \in {"size", "create", "look"} : GoOn(p)
          /\ UNCHANGED <<job, claim>>
      BY <1>4 DEF WriteMissing, WriteClaimed, WriteSyncing, WriteForget, WriteDone, Resume
    <2>2. /\ obj' \in [Models -> Object]
          /\ \A m \in Models : Sensible(obj'[m].status)
          /\ faults' \in 0..MaxFaults
      BY <1>0, <2>1, UpdateTyped
    <2>3. obj'[w.model].rv \in Nat
      BY <1>0, <2>2 DEF Object
    <2>4. {"size", "create", "look"} \subseteq PC \ {"idle", "down"}
      BY DEF PC
    <2>5. Left
      BY <1>0, <1>s, <2>1, <2>3, <2>4, WorkerTyped DEF GoOn
    <2> QED BY <1>0, <2>1, <2>2, <2>5 DEF TypeOK
  <1> QED BY <1>1, <1>2, <1>3, <1>4 DEF Reconcile

\* A uid is the number of the creation, and what a cache or the worker holds
\* was created.
Counted ==
    \A m \in Models :
        /\ obj[m].uid \in {0, born[m]} /\ cObj[m].uid <= born[m]
        /\ obj[m].uid = 0 => obj[m] = NoObject
        /\ cObj[m].uid = 0 => cObj[m] = NoObject
        /\ w.model = m => w.uid # 0 /\ w.uid <= born[m]

Base == TypeOK /\ Counted /\ Placed

LEMMA BaseHeld == ASSUME Base PROVE TypeOK /\ Counted /\ Held /\ Placed
BY DEF Base, Counted, Held

\* What the worker leaves alone.
LEMMA WorkerKeeps ==
  ASSUME Base, Reconcile
  PROVE  /\ UNCHANGED <<repo, cObj, cJob, born, removed>>
         /\ \A m \in Models : obj'[m].uid = obj[m].uid
         /\ \A m \in Models : obj'[m] = obj[m] \/ obj'[m].uid # 0
         /\ \A m \in Models : w'.model = m => w.model = m /\ w'.uid = w.uid
         /\ pc \notin {"idle", "down"} /\ w.model \in Models
         /\ w.uid # 0 /\ w.status \in Status /\ w.rv \in Nat /\ w \in Work
  <1>1. pc \notin {"idle", "down"} /\ UNCHANGED <<repo, cObj, cJob, born, removed>>
    BY DEF Reconcile, HubFails, ModelMissing, ModelFound, WriteMissing, CreateClaim,
       WriteClaimed, CreateJob, WriteSyncing, Look, WriteForget, WriteDone, api, cache
  <1>2. /\ w.model \in Models /\ w.uid # 0 /\ w.status \in Status /\ w.rv \in Nat /\ w \in Work
    BY <1>1, BaseHeld, InHand DEF Held, TypeOK
  <1>3. obj' = obj \/ \E a \in Answer : UpdateStatus(a)
    BY DEF Reconcile, HubFails, ModelMissing, ModelFound, WriteMissing, CreateClaim,
       WriteClaimed, CreateJob, WriteSyncing, Look, WriteForget, WriteDone, api
  <1>4. /\ \A m \in Models : obj'[m].uid = obj[m].uid
        /\ \A m \in Models : obj'[m] = obj[m] \/ obj'[m].uid # 0
    BY <1>1, <1>2, <1>3, BaseHeld, UpdateTyped
  <1>5. \/ w' = NoWork
        \/ \E p, s : Continue(p, s)
        \/ \E p : GoOn(p)
    BY DEF Reconcile, HubFails, ModelMissing, ModelFound, WriteMissing, CreateClaim,
       WriteClaimed, CreateJob, WriteSyncing, Look, LookAgain, WriteForget, WriteDone, Again, Done
  <1>6. w' = NoWork \/ (w'.model = w.model /\ w'.uid = w.uid)
    BY <1>2, <1>5 DEF Continue, GoOn, Work
  <1>7. \A m \in Models : w'.model = m => w.model = m /\ w'.uid = w.uid
    BY <1>6, NoModelAssumption DEF NoWork
  <1> QED BY <1>1, <1>2, <1>4, <1>7

LEMMA NextPlaced ==
  ASSUME TypeOK, Placed, [Next]_vars
  PROVE  Placed'
  <1>1. CASE UNCHANGED <<pc, w>>
    BY <1>1 DEF Placed
  <1>2. CASE pc' \in {"idle", "down"}
    BY <1>2 DEF Placed
  <1>3. ASSUME NEW m \in Models, Start(m)
        PROVE  Placed'
    <2>1. w'.status = cObj[m].status /\ pc' = Resume(cObj[m].status)
      BY <1>3 DEF Start
    <2> QED BY <2>1 DEF Placed, Resume
  <1>4. CASE Reconcile
    <2>0. w \in Work /\ w.status \in Status
      BY DEF TypeOK, Work
    <2>1. ASSUME NEW p, NEW s, Continue(p, s),
                 p \in {"missing", "claim"} => ~s.claim,
                 p = "claim" => ~s.failure,
                 p \in {"claimed", "syncing", "forget", "done"} => s.claim,
                 p \in {"syncing", "done"} => s.job,
                 p \notin {"size", "create", "look"}
          PROVE  Placed'
      <3>1. pc' = p /\ w'.status = s
        BY <2>0, <2>1 DEF Continue, Work
      <3> QED BY <2>1, <3>1 DEF Placed
    <2>2. CASE HubFails
      BY <2>2, <1>2 DEF HubFails, Again
    <2>3. CASE ModelMissing
      <3>1. PICK d : d = [w.status EXCEPT !.failure = TRUE]
        OBVIOUS
      <3>2. ~d.claim
        BY <2>0, <2>3, <3>1 DEF ModelMissing, Placed, Status
      <3> QED BY <2>1, <2>3, <3>1, <3>2 DEF ModelMissing
    <2>4. CASE ModelFound
      <3>1. ~Cleared(w.status).failure /\ ~Cleared(w.status).claim
        BY <2>0, <2>4, StatusTyped DEF ModelFound, Placed, TypeOK
      <3> QED BY <2>1, <2>4, <3>1 DEF ModelFound
    <2>5. CASE CreateClaim
      <3>1. PICK d : d = [w.status EXCEPT !.claim = TRUE]
        OBVIOUS
      <3>2. d.claim
        BY <2>0, <3>1 DEF Status
      <3>3. Continue("claimed", d)
        BY <2>5, <3>1 DEF CreateClaim
      <3> QED BY <2>1, <3>2, <3>3
    <2>6. CASE CreateJob
      <3>1. PICK d : d = [w.status EXCEPT !.job = TRUE, !.phase = "syncing"]
        OBVIOUS
      <3>2. d.claim /\ d.job
        BY <2>0, <2>6, <3>1 DEF CreateJob, Placed, Status
      <3>3. Again \/ Continue("syncing", d)
        BY <2>6, <3>1 DEF CreateJob
      <3> QED BY <1>2, <2>1, <3>2, <3>3 DEF Again
    <2>7. CASE Look
      <3>1. PICK d : d = [w.status EXCEPT !.job = FALSE]
        OBVIOUS
      <3>2. PICK e : e = [w.status EXCEPT !.phase = "done"]
        OBVIOUS
      <3>3. d.claim /\ e.claim /\ e.job
        BY <2>0, <2>7, <3>1, <3>2 DEF Look, Placed, Status
      <3>4. Again \/ Continue("forget", d) \/ Continue("done", e)
        BY <2>7, <3>1, <3>2 DEF Look, LookAgain
      <3> QED BY <1>2, <2>1, <3>3, <3>4 DEF Again
    <2>8. CASE WriteMissing \/ WriteForget \/ WriteDone
      BY <1>2, <2>8 DEF WriteMissing, WriteForget, WriteDone, Again, Done
    <2>9. CASE WriteClaimed \/ WriteSyncing
      <3>1. \/ pc' = "idle"
            \/ pc = "claimed" /\ GoOn(Resume(w.status))
            \/ pc = "syncing" /\ GoOn("look")
        BY <2>9 DEF WriteClaimed, WriteSyncing, Again, Done
      <3>2. ASSUME NEW p, GoOn(p)
            PROVE  pc' = p /\ w'.status = w.status
        BY <2>0, <3>2 DEF GoOn, Work
      <3> QED BY <1>2, <3>1, <3>2 DEF Placed, Resume
    <2> QED
      BY <1>4, <2>2, <2>3, <2>4, <2>5, <2>6, <2>7, <2>8, <2>9 DEF Reconcile
  <1>5. CASE Environment \/ Informers \/ (\E m \in Models : Drop(m)) \/ UNCHANGED vars
    <2>1. UNCHANGED <<pc, w>>
      BY <1>5 DEF Environment, Create, Delete, Publish, RemoveJob, CollectJob, CollectClaim,
         JobSucceeds, JobFails, Informers, WatchModel, WatchJob, Resync, Drop, worker, vars
    <2> QED BY <1>1, <2>1
  <1> QED BY <1>2, <1>3, <1>4, <1>5 DEF Next, Crash, Restart

LEMMA NextBase ==
  ASSUME Base, [Next]_vars
  PROVE  Base'
  <1>0. TypeOK /\ Counted /\ Held /\ Placed
    BY BaseHeld
  <1>p. Placed'
    BY <1>0, NextPlaced
  <1>1. CASE Environment
    <2>1. TypeOK'
      BY <1>0, <1>1, EnvironmentTyped
    <2>2. /\ UNCHANGED <<cObj, w>>
          /\ \/ UNCHANGED <<obj, born>>
             \/ \E m \in Models : Create(m) \/ Delete(m)
      BY <1>1 DEF Environment, Create, Delete, Publish, RemoveJob, CollectJob, CollectClaim,
         JobSucceeds, JobFails, cache, worker, api
    <2>3. CASE UNCHANGED <<obj, born>>
      BY <1>0, <1>p, <2>1, <2>2, <2>3 DEF Base, Counted
    <2>4. ASSUME NEW m \in Models, Create(m)
          PROVE  Counted'
      <3>1. /\ \A k \in Models \ {m} : obj'[k] = obj[k] /\ born'[k] = born[k]
            /\ obj'[m].uid = born'[m] /\ born'[m] = born[m] + 1
        BY <1>0, <2>4 DEF Create, TypeOK
      <3>2. \A k \in Models : cObj[k].uid \in Nat /\ w.uid \in Nat /\ born[k] \in Nat
        BY <1>0 DEF TypeOK, Object, Uid, Work
      <3> QED BY <1>0, <2>2, <3>1, <3>2 DEF Counted
    <2>5. ASSUME NEW m \in Models, Delete(m)
          PROVE  Counted'
      BY <1>0, <2>2, <2>5 DEF Delete, TypeOK, Counted, NoObject
    <2> QED BY <2>1, <2>2, <2>3, <2>4, <2>5, <1>p DEF Base
  <1>2. CASE Informers
    <2>1. TypeOK'
      BY <1>0, <1>2, ProcessTyped
    <2>2. /\ UNCHANGED <<obj, born, w>>
          /\ \A m \in Models : cObj'[m] \in {obj[m], cObj[m]}
      BY <1>0, <1>2 DEF Informers, WatchModel, WatchJob, Resync, api, cache, worker, TypeOK
    <2>3. \A m \in Models : obj[m].uid <= born[m] /\ (obj[m].uid = 0 => obj[m] = NoObject)
      BY <1>0 DEF TypeOK, Object, Uid, Counted
    <2> QED BY <1>0, <1>p, <2>1, <2>2, <2>3 DEF Base, Counted
  <1>3. CASE Crash \/ Restart
    <2>1. TypeOK'
      BY <1>0, <1>3, ProcessTyped
    <2>2. /\ UNCHANGED <<obj, born>> /\ w' = NoWork /\ cObj' \in {obj, cObj}
      BY <1>3 DEF Crash, Restart, api, cache
    <2>3. \A m \in Models : obj[m].uid <= born[m] /\ (obj[m].uid = 0 => obj[m] = NoObject)
      BY <1>0 DEF TypeOK, Object, Uid, Counted
    <2> QED BY <1>0, <1>p, <2>1, <2>2, <2>3, NoModelAssumption DEF Base, Counted, NoWork
  <1>4. ASSUME NEW m \in Models, Start(m) \/ Drop(m)
        PROVE  Base'
    <2>1. TypeOK'
      BY <1>0, <1>4, TakeTyped
    <2>2. /\ UNCHANGED <<obj, cObj, born>>
          /\ \/ w' = w
             \/ w'.model = m /\ w'.uid = cObj[m].uid /\ cObj[m].uid # 0
      BY <1>4 DEF Start, Drop, api, cache, worker
    <2> QED BY <1>0, <1>p, <2>1, <2>2 DEF Base, Counted
  <1>5. CASE Reconcile
    <2>1. TypeOK'
      BY <1>0, <1>5, ReconcileTyped
    <2> QED BY <1>0, <1>p, <1>5, <2>1, WorkerKeeps DEF Base, Counted
  <1>6. CASE UNCHANGED vars
    <2>1. TypeOK'
      BY <1>0, <1>6 DEF TypeOK, vars
    <2> QED BY <1>0, <1>p, <1>6, <2>1 DEF Base, Counted, vars
  <1> QED BY <1>1, <1>2, <1>3, <1>4, <1>5, <1>6 DEF Next

LEMMA InitBase == Init => Base
  <1> SUFFICES ASSUME Init PROVE Base
    OBVIOUS
  <1>1. TypeOK
    BY NothingTyped, NothingSensible, BoundsAssumption DEF Init, TypeOK, PC, NoWork, Uid
  <1>2. Counted
    <2>1. /\ obj = [m \in Models |-> NoObject] /\ cObj = [m \in Models |-> NoObject]
          /\ born = [m \in Models |-> 0] /\ w.model \notin Models /\ NoObject.uid = 0
      BY NoModelAssumption DEF Init, NoObject, NoWork
    <2>2. \A m \in Models : /\ obj[m] = NoObject /\ cObj[m] = NoObject /\ born[m] = 0
                             /\ w.model # m
      BY <2>1
    <2>3. 0 <= 0
      OBVIOUS
    <2> QED BY <2>1, <2>2, <2>3 DEF Counted
  <1>3. Placed
    BY DEF Init, Placed
  <1> QED BY <1>1, <1>2, <1>3 DEF Base

LEMMA BaseInvariant == Spec => []Base
BY InitBase, NextBase, PTL DEF Spec

\* Types hold in every reachable state, and every status is sensible: a
\* failure of the hub is gone from it before a claim is named, and a Job is
\* named along with a phase and after the claim (Reconcile).
THEOREM TypeCorrect == Spec => []TypeOK
  <1>1. Base => TypeOK
    BY DEF Base
  <1> QED BY <1>1, BaseInvariant, PTL

----------------------------------------------------------------------------
(* What the first ModelStorage of a name says is so.  Until it is there    *)
(* nothing bears its name; while it is there nothing of it is collected.   *)

Loaded(m) == claim[m] = [owner |-> 1, data |-> TRUE]
Over(m) == job[m].state = "succeeded" /\ cJob[m].state = "succeeded"

Fresh(m) == claim[m] = NoClaim /\ job[m] = NoJob /\ cJob[m] = NoJob

\* What status s claims is so.
Says(m, s) ==
    /\ s.phase = "done" => Loaded(m)
    /\ s.phase = "done" /\ m \notin removed => s.claim /\ s.job /\ Over(m)

Objects(m) ==
    /\ claim[m].owner \in {0, 1} /\ job[m].owner \in {0, 1}
    /\ job[m].state = "succeeded" => Loaded(m)
    /\ cJob[m].state = "succeeded" =>
          Loaded(m) /\ (m \notin removed => job[m].state = "succeeded")
    /\ Says(m, obj[m].status) /\ Says(m, cObj[m].status)
    /\ cObj[m].uid = 1 =>
          cObj[m].rv <= obj[m].rv /\ (cObj[m].rv = obj[m].rv => cObj[m] = obj[m])

\* Of the object in hand, by where the worker is.
Hand(m) ==
    /\ Says(m, w.status)
    /\ pc = "done" => w.status.phase = "done"
    /\ w.status.phase = "done" /\ m \notin removed => pc \in {"look", "done"}
    /\ w.rv <= obj[m].rv
    /\ w.rv = obj[m].rv /\ obj[m].status.phase = "done" /\ m \notin removed
          => w.status.phase = "done"

Good(m) ==
    /\ born[m] = 0 => Fresh(m)
    /\ First(m) => Objects(m) /\ (w.model = m => Hand(m))

TruthInv == Base /\ \A m \in Models : Good(m)

\* What the counts say of a first object.
LEMMA FirstCounted ==
  ASSUME Base, NEW m \in Models
  PROVE  /\ born[m] \in Nat /\ obj[m] \in Object /\ cObj[m] \in Object
         /\ First(m) => born[m] = 1
         /\ First(m) => cObj[m].uid \in {0, 1} /\ (w.model = m => w.uid = 1)
         /\ born[m] = 0 => cObj[m] = NoObject /\ w.model # m
         /\ faults \in Nat /\ w.rv \in Nat
  <1>1. /\ born[m] \in Nat /\ obj[m] \in Object /\ cObj[m] \in Object
        /\ faults \in Nat /\ w.rv \in Nat /\ w.uid \in Nat
    BY BaseHeld DEF TypeOK, Uid, Work
  <1>2. obj[m].uid \in Nat /\ cObj[m].uid \in Nat
    BY <1>1 DEF Object, Uid
  <1>3. /\ obj[m].uid \in {0, born[m]} /\ cObj[m].uid <= born[m]
        /\ cObj[m].uid = 0 => cObj[m] = NoObject
        /\ w.model = m => w.uid # 0 /\ w.uid <= born[m]
    BY BaseHeld DEF Counted
  <1> QED BY <1>1, <1>2, <1>3 DEF First

\* A name that a step does not touch.
LEMMA Elsewhere ==
  ASSUME NEW m \in Models, Good(m),
         obj'[m] = obj[m], cObj'[m] = cObj[m], job'[m] = job[m], cJob'[m] = cJob[m],
         claim'[m] = claim[m], born'[m] = born[m], m \in removed' <=> m \in removed,
         w'.model = m => w' = w /\ pc' = pc
  PROVE  Good(m)'
BY DEF Good, Fresh, First, Objects, Hand, Says, Loaded, Over

LEMMA EnvironmentTrue ==
  ASSUME TruthInv, Base', Environment
  PROVE  \A m \in Models : Good(m)'
  <1> USE DEF TruthInv
  <1>1. PICK m \in Models :
          \/ Create(m) \/ Delete(m) \/ Publish(m) \/ RemoveJob(m)
          \/ CollectJob(m) \/ CollectClaim(m) \/ JobSucceeds(m) \/ JobFails(m)
    BY DEF Environment
  <1>2. /\ obj \in [Models -> Object] /\ job \in [Models -> JobObject]
        /\ claim \in [Models -> Claim] /\ repo \in [Models -> Repo] /\ born \in [Models -> Uid]
    BY BaseHeld DEF TypeOK
  <1>3. UNCHANGED <<cObj, cJob, pc, w, faults>>
    BY <1>1 DEF Create, Delete, Publish, RemoveJob, CollectJob, CollectClaim,
       JobSucceeds, JobFails, cache, worker
  <1>4. ASSUME NEW k \in Models \ {m}
        PROVE  Good(k)'
    <2>1. /\ obj'[k] = obj[k] /\ job'[k] = job[k] /\ claim'[k] = claim[k]
          /\ born'[k] = born[k] /\ repo'[k] = repo[k] /\ (k \in removed' <=> k \in removed)
      BY <1>1, <1>2 DEF Create, Delete, Publish, RemoveJob, CollectJob, CollectClaim,
         JobSucceeds, JobFails, api
    <2> QED
      BY <1>3, <2>1 DEF Good, Fresh, First, Objects, Hand, Says, Loaded, Over
  <1>5. Good(m)
    OBVIOUS
  <1> SUFFICES Good(m)'
    BY <1>4
  <1>6. CASE Create(m)
    <2>1. /\ born'[m] = born[m] + 1 /\ UNCHANGED <<job, claim, repo, removed>>
          /\ obj'[m] = [uid |-> born[m] + 1, rv |-> 1, status |-> NoStatus]
      BY <1>2, <1>6 DEF Create
    <2>2. born'[m] # 0 /\ (First(m)' => born[m] = 0)
      BY <2>1, FirstCounted DEF First
    <2>3. First(m)' => Fresh(m) /\ cObj[m] = NoObject /\ w.model # m
      BY <1>5, <2>2, FirstCounted DEF Good
    <2>4. First(m)' => Objects(m)'
      <3>1. NoStatus.phase # "done" /\ ~NoStatus.claim
        BY DEF NoStatus
      <3>3. First(m)' => obj'[m].status = NoStatus /\ cObj'[m].status = NoStatus /\ cObj'[m].uid = 0
        BY <1>3, <2>1, <2>3 DEF NoObject
      <3>4. First(m)' => /\ claim'[m].owner = 0 /\ job'[m] = NoJob /\ cJob'[m] = NoJob
        BY <1>3, <2>1, <2>3 DEF Fresh, NoClaim
      <3>5. NoJob.owner = 0 /\ NoJob.state = "none"
        BY DEF NoJob
      <3>6. First(m)' => Says(m, obj[m].status)' /\ Says(m, cObj[m].status)'
        BY <3>1, <3>3 DEF Says
      <3> QED BY <3>3, <3>4, <3>5, <3>6 DEF Objects
    <2> QED BY <1>3, <2>2, <2>3, <2>4 DEF Good
  <1>7. CASE Delete(m)
    <2>1. obj'[m] = NoObject /\ UNCHANGED <<job, claim, born>>
      BY <1>2, <1>7 DEF Delete
    <2> QED BY <1>3, <1>5, <2>1 DEF Good, First, NoObject, Fresh
  <1>8. CASE Publish(m)
    <2>1. repo[m] = "missing" /\ repo'[m] = "sized" /\ UNCHANGED <<api, born, removed>>
      BY <1>2, <1>8 DEF Publish
    <2> QED
      BY <1>3, <1>5, <2>1 DEF Good, Fresh, First, Objects, Hand, Says, Loaded, Over, api
  <1>9. CASE RemoveJob(m)
    <2>1. job'[m] = NoJob /\ m \in removed' /\ UNCHANGED <<obj, claim, born, repo>>
      BY <1>2, <1>9 DEF RemoveJob
    <2> QED
      BY <1>3, <1>5, <2>1 DEF Good, Fresh, First, Objects, Hand, Says, Loaded, Over, NoJob
  <1>10. CASE CollectJob(m) \/ CollectClaim(m)
    <2>1. ~First(m) /\ ~First(m)'
      BY <1>5, <1>10 DEF Good, First, Objects, CollectJob, CollectClaim
    <2>2. /\ UNCHANGED born /\ job'[m] \in {job[m], NoJob} /\ claim'[m] \in {claim[m], NoClaim}
      BY <1>2, <1>10 DEF CollectJob, CollectClaim
    <2> QED BY <1>3, <1>5, <2>1, <2>2 DEF Good, Fresh
  <1>11. CASE JobSucceeds(m)
    <2>1. /\ job[m].state = "active" /\ claim[m].owner # 0
          /\ job'[m] = [job[m] EXCEPT !.state = "succeeded"]
          /\ claim'[m] = [claim[m] EXCEPT !.data = TRUE]
          /\ UNCHANGED <<obj, born, repo, removed>>
      BY <1>2, <1>11 DEF JobSucceeds
    <2>2. job'[m].owner = job[m].owner /\ job'[m].state = "succeeded"
      BY <1>2, <2>1 DEF JobObject
    <2>3. claim'[m].owner = claim[m].owner /\ claim'[m] = [owner |-> claim[m].owner, data |-> TRUE]
      <3>1. claim[m] \in Claim
        BY <1>2
      <3>2. PICK c \in Claim : c = claim[m]
        BY <3>1
      <3>3. \A d \in Claim : d = [owner |-> d.owner, data |-> d.data]
        BY DEF Claim
      <3>4. PICK d \in Claim : d = [c EXCEPT !.data = TRUE]
        BY DEF Claim
      <3>5. d.owner = c.owner /\ d.data = TRUE
        BY <3>4 DEF Claim
      <3> QED BY <2>1, <3>2, <3>3, <3>4, <3>5
    <2>4. born[m] # 0 /\ First(m)' = First(m)
      BY <1>5, <2>1 DEF Good, Fresh, NoJob, First
    <2>5. First(m) => Loaded(m)'
      BY <1>5, <2>1, <2>3 DEF Good, Objects, Loaded
    <2>6. First(m) => Objects(m)' /\ (w.model = m => Hand(m)')
      BY <1>3, <1>5, <2>1, <2>2, <2>3, <2>5 DEF Good, Objects, Hand, Says, Over
    <2> QED BY <1>3, <2>1, <2>4, <2>6 DEF Good
  <1>12. CASE JobFails(m)
    <2>1. /\ job[m].state = "active" /\ job'[m] = [job[m] EXCEPT !.state = "failed"]
          /\ UNCHANGED <<obj, claim, born, repo, removed>>
      BY <1>2, <1>12 DEF JobFails
    <2>2. job'[m].owner = job[m].owner /\ job'[m].state = "failed"
      BY <1>2, <2>1 DEF JobObject
    <2> QED
      BY <1>3, <1>5, <2>1, <2>2
      DEF Good, Fresh, First, Objects, Hand, Says, Loaded, Over, NoJob
  <1> QED BY <1>1, <1>4, <1>6, <1>7, <1>8, <1>9, <1>10, <1>11, <1>12

LEMMA ProcessTrue ==
  ASSUME TruthInv, Base', Informers \/ Crash \/ Restart
  PROVE  \A m \in Models : Good(m)'
  <1> SUFFICES ASSUME NEW m \in Models PROVE Good(m)'
    OBVIOUS
  <1>1. /\ UNCHANGED <<obj, job, claim, born, repo, removed>>
        /\ w' = NoWork \/ UNCHANGED <<w, pc>>
    BY DEF Informers, WatchModel, WatchJob, Resync, Crash, Fault, Restart, api, worker, TruthInv
  <1>2. /\ cObj'[m] \in {obj[m], cObj[m]} /\ cJob'[m] \in {job[m], cJob[m]}
    <2>1. cObj \in [Models -> Object] /\ cJob \in [Models -> JobObject]
      BY BaseHeld DEF TruthInv, TypeOK
    <2> QED BY <2>1 DEF Informers, WatchModel, WatchJob, Resync, Crash, Restart, cache
  <1>3. Good(m) /\ NoWork.model # m /\ obj[m].rv \in Nat
    BY NoModelAssumption, FirstCounted DEF TruthInv, NoWork, Object
  <1> QED
    BY <1>1, <1>2, <1>3 DEF Good, Fresh, First, Objects, Hand, Says, Loaded, Over

LEMMA TakeTrue ==
  ASSUME TruthInv, Base', NEW m \in Models, Start(m) \/ Drop(m)
  PROVE  \A k \in Models : Good(k)'
  <1> USE DEF TruthInv
  <1>0. UNCHANGED <<repo, obj, cObj, job, cJob, claim, born, removed, faults>>
    BY DEF Start, Drop, api, cache
  <1>1. CASE Drop(m)
    BY <1>0, <1>1, Elsewhere DEF Drop, worker
  <1>2. CASE Start(m)
    <2>1. /\ w' = [model |-> m, uid |-> cObj[m].uid, rv |-> cObj[m].rv, status |-> cObj[m].status]
          /\ pc' = Resume(cObj[m].status) /\ cObj[m].uid # 0
      BY <1>2 DEF Start
    <2>2. \A k \in Models \ {m} : Good(k)'
      BY <1>0, <2>1, Elsewhere
    <2>3. First(m) => Objects(m) /\ cObj[m].uid = 1
      BY <2>1, FirstCounted DEF Good
    <2>4. First(m)' => Objects(m)'
      BY <1>0, <2>3 DEF First, Objects, Says, Loaded, Over
    <2>5. First(m)' => Hand(m)'
      BY <1>0, <2>1, <2>3 DEF First, Objects, Hand, Resume, Says, Loaded, Over
    <2>6. born'[m] = 0 => Fresh(m)'
      BY <1>0 DEF Good, Fresh
    <2> QED BY <2>2, <2>4, <2>5, <2>6 DEF Good
  <1> QED BY <1>1, <1>2

\* The rest of Reconcile goes on with the object in hand, or ends.
LEMMA OthersTrue ==
  ASSUME TruthInv, Base', Reconcile, NEW m \in Models, m = w.model,
         \A k \in Models \ {m} : /\ obj'[k] = obj[k] /\ job'[k] = job[k]
                                 /\ claim'[k] = claim[k],
         First(m) => Objects(m)' /\ (w'.model = m => Hand(m)')
  PROVE  \A k \in Models : Good(k)'
  <1>1. /\ UNCHANGED <<repo, cObj, cJob, born, removed>>
        /\ obj'[m].uid = obj[m].uid /\ \A k \in Models : w'.model = k => k = m
        /\ w.uid # 0 /\ w.uid <= born[m]
    BY WorkerKeeps, BaseHeld DEF TruthInv, Counted
  <1>2. \A k \in Models \ {m} : Good(k)'
    BY <1>1, Elsewhere DEF TruthInv
  <1>3. born'[m] # 0
    BY <1>1, FirstCounted DEF TruthInv
  <1>4. Good(m)'
    BY <1>1, <1>3 DEF Good, First
  <1> QED BY <1>2, <1>4

LEMMA ReadTrue ==
  ASSUME TruthInv, Base', HubFails \/ ModelMissing \/ ModelFound \/ Look
  PROVE  \A k \in Models : Good(k)'
  <1> USE DEF TruthInv
  <1>0. Reconcile
    BY DEF Reconcile
  <1>m. PICK m \in Models : m = w.model
    BY <1>0, WorkerKeeps
  <1>1. /\ UNCHANGED <<obj, job, claim>> /\ UNCHANGED <<repo, cObj, cJob, born, removed>>
        /\ w \in Work /\ w.status \in Status
    BY <1>0, WorkerKeeps DEF HubFails, ModelMissing, ModelFound, Look, api
  <1>2. First(m) => Objects(m) /\ Hand(m)
    BY <1>m DEF Good
  <1>3. First(m) => Objects(m)'
    BY <1>1, <1>2 DEF Objects, Says, Loaded, Over
  <1>4. \/ w' = NoWork
        \/ /\ pc = "size" /\ repo[m] = "missing"
           /\ Continue("missing", [w.status EXCEPT !.failure = TRUE])
        \/ /\ pc = "size" /\ repo[m] # "missing"
           /\ Continue("claim", Cleared(w.status))
        \/ /\ pc = "look" /\ cJob[m].state = "none"
           /\ Continue("forget", [w.status EXCEPT !.job = FALSE])
        \/ /\ pc = "look" /\ cJob[m].state = "succeeded"
           /\ Continue("done", [w.status EXCEPT !.phase = "done"])
    BY <1>m DEF HubFails, ModelMissing, ModelFound, Look, LookAgain, Finished, Again
  <1>5. CASE w' = NoWork
    BY <1>0, <1>1, <1>3, <1>5, <1>m, OthersTrue, NoModelAssumption DEF NoWork
  <1>6. ASSUME NEW p, NEW s \in Status, Continue(p, s),
               s.claim = w.status.claim,
               First(m) => Says(m, s),
               p \in {"missing", "claim", "forget", "done"},
               p \in {"forget", "done"} => pc = "look",
               p = "done" => s.phase = "done",
               First(m) /\ p = "done" => s.job,
               p # "done" => s.phase = w.status.phase,
               First(m) /\ p # "done" /\ m \notin removed => w.status.phase # "done"
        PROVE  \A k \in Models : Good(k)'
    <2>1. w'.status = s /\ w'.rv = w.rv /\ pc' = p
      BY <1>1, <1>6 DEF Continue, Work
    <2>2. First(m) => Says(m, s)'
      BY <1>1, <1>6 DEF Says, Loaded, Over
    <2>3. First(m) => Hand(m)'
      BY <1>1, <1>2, <1>6, <2>1, <2>2 DEF Hand, Says
    <2> QED BY <1>0, <1>1, <1>3, <2>3, <1>m, OthersTrue
  <1>7. CASE pc = "size" /\ repo[m] = "missing"
             /\ Continue("missing", [w.status EXCEPT !.failure = TRUE])
    <2>1. PICK s \in Status : s = [w.status EXCEPT !.failure = TRUE]
      BY <1>1 DEF Status
    <2>2. s.claim = w.status.claim /\ s.job = w.status.job /\ s.phase = w.status.phase
      BY <1>1, <2>1 DEF Status
    <2>3. First(m) => Says(m, s) /\ (m \notin removed => w.status.phase # "done")
      BY <1>2, <1>7, <2>2 DEF Hand, Says
    <2> QED BY <1>7, <2>1, <2>2, <2>3, <1>6
  <1>8. CASE pc = "size" /\ repo[m] # "missing"
             /\ Continue("claim", Cleared(w.status))
    <2>1. PICK s \in Status : s = Cleared(w.status)
      BY <1>1 DEF Status, Cleared
    <2>2. s.claim = w.status.claim /\ s.job = w.status.job /\ s.phase = w.status.phase
      BY <1>1, <2>1 DEF Status, Cleared
    <2>3. First(m) => Says(m, s) /\ (m \notin removed => w.status.phase # "done")
      BY <1>2, <1>8, <2>2 DEF Hand, Says
    <2> QED BY <1>8, <2>1, <2>2, <2>3, <1>6
  <1>9. CASE pc = "look" /\ cJob[m].state = "none"
             /\ Continue("forget", [w.status EXCEPT !.job = FALSE])
    <2>1. PICK s \in Status : s = [w.status EXCEPT !.job = FALSE]
      BY <1>1 DEF Status
    <2>2. s.claim = w.status.claim /\ s.phase = w.status.phase
      BY <1>1, <2>1 DEF Status
    <2>3. First(m) => Says(m, s) /\ (m \notin removed => w.status.phase # "done")
      BY <1>2, <1>9, <2>2 DEF Hand, Says, Over
    <2> QED BY <1>9, <2>1, <2>2, <2>3, <1>6
  <1>10. CASE pc = "look" /\ cJob[m].state = "succeeded"
              /\ Continue("done", [w.status EXCEPT !.phase = "done"])
    <2>1. PICK s \in Status : s = [w.status EXCEPT !.phase = "done"]
      BY <1>1 DEF Status
    <2>2. s.claim = w.status.claim /\ s.job = w.status.job /\ s.phase = "done"
      BY <1>1, <2>1 DEF Status
    <2>3. w.status.claim /\ w.status.job
      BY <1>10, BaseHeld DEF Placed
    <2>4. First(m) => Says(m, s) /\ s.job
      BY <1>2, <1>10, <2>2, <2>3 DEF Hand, Objects, Says, Over
    <2> QED BY <1>10, <2>1, <2>2, <2>4, <1>6
  <1> QED BY <1>4, <1>5, <1>7, <1>8, <1>9, <1>10

LEMMA CreateTrue ==
  ASSUME TruthInv, Base', CreateClaim \/ CreateJob
  PROVE  \A k \in Models : Good(k)'
  <1> USE DEF TruthInv
  <1>0. Reconcile
    BY DEF Reconcile
  <1>m. PICK m \in Models : m = w.model
    BY <1>0, WorkerKeeps
  <1>1. /\ UNCHANGED <<obj, repo, cObj, cJob, born, removed>>
        /\ w \in Work /\ w.status \in Status /\ w.uid # 0
        /\ claim \in [Models -> Claim] /\ job \in [Models -> JobObject]
    BY <1>0, WorkerKeeps, BaseHeld DEF CreateClaim, CreateJob, TypeOK
  <1>2. First(m) => Objects(m) /\ Hand(m) /\ w.uid = 1
    BY <1>m, FirstCounted DEF Good
  <1>3. CASE CreateClaim
    <2>1. /\ pc = "claim" /\ UNCHANGED job
          /\ Continue("claimed", [w.status EXCEPT !.claim = TRUE])
          /\ claim' \in {Claimed, claim}
      BY <1>3 DEF CreateClaim
    <2>2. /\ \A k \in Models \ {m} : claim'[k] = claim[k]
          /\ \/ claim'[m] = claim[m]
             \/ claim[m].owner = 0 /\ claim'[m] = [owner |-> w.uid, data |-> FALSE]
      <3>1. CASE claim' = claim
        BY <3>1
      <3>2. CASE claim[m].owner = 0
                 /\ claim' = [claim EXCEPT ![m] = [owner |-> w.uid, data |-> FALSE]]
        BY <1>1, <3>2
      <3> QED BY <2>1, <3>1, <3>2, <1>m DEF Claimed
    <2>3. PICK s \in Status : s = [w.status EXCEPT !.claim = TRUE]
      BY <1>1 DEF Status
    <2>4. s.claim = TRUE /\ s.job = w.status.job /\ s.phase = w.status.phase
      BY <1>1, <2>3 DEF Status
    <2>5. w'.status = s /\ w'.rv = w.rv /\ pc' = "claimed"
      BY <1>1, <2>1, <2>3 DEF Continue, Work
    <2>6. First(m) => /\ Loaded(m) => claim'[m] = claim[m]
                      /\ claim'[m].owner \in {0, 1}
      BY <1>2, <2>2 DEF Loaded, Objects
    <2>7. First(m) => \A t : Says(m, t) => Says(m, t)'
      BY <1>1, <2>1, <2>6 DEF Says, Loaded, Over
    <2>8. First(m) => Objects(m)'
      <3>1. First(m) /\ Loaded(m) => Loaded(m)'
        BY <2>6 DEF Loaded
      <3>2. First(m) => Says(m, obj[m].status)' /\ Says(m, cObj[m].status)'
        BY <1>1, <1>2, <2>7 DEF Objects
      <3> QED BY <1>1, <1>2, <2>1, <2>6, <3>1, <3>2 DEF Objects
    <2>9. First(m) => Hand(m)'
      <3>1. First(m) => Says(m, s)'
        BY <1>1, <1>2, <2>1, <2>4, <2>6 DEF Hand, Says, Loaded
      <3> QED BY <1>1, <1>2, <2>1, <2>4, <2>5, <3>1 DEF Hand
    <2> QED BY <1>0, <1>1, <2>1, <2>2, <2>8, <2>9, <1>m, OthersTrue
  <1>4. CASE CreateJob
    <2>1. /\ pc = "create" /\ UNCHANGED claim
          /\ \/ job' = job
             \/ /\ job[m].state = "none"
                /\ job' = [job EXCEPT ![m] = [owner |-> w.uid, state |-> "active"]]
          /\ \/ w' = NoWork
             \/ Continue("syncing", [w.status EXCEPT !.job = TRUE, !.phase = "syncing"])
      BY <1>4, <1>m DEF CreateJob, Again
    <2>2. /\ \A k \in Models \ {m} : job'[k] = job[k]
          /\ \/ job'[m] = job[m]
             \/ job[m].state = "none" /\ job'[m] = [owner |-> w.uid, state |-> "active"]
      BY <1>1, <2>1
    <2>3. First(m) => \A t : Says(m, t) => Says(m, t)'
      BY <1>1, <2>1, <2>2 DEF Says, Loaded, Over
    <2>4. First(m) => Objects(m)'
      <3>1. First(m) => Says(m, obj[m].status)' /\ Says(m, cObj[m].status)'
        BY <1>1, <1>2, <2>3 DEF Objects
      <3> QED BY <1>1, <1>2, <2>1, <2>2, <3>1 DEF Objects, Loaded
    <2>5. First(m) /\ w'.model = m => Hand(m)'
      <3>1. CASE w' = NoWork
        BY <3>1, NoModelAssumption DEF NoWork
      <3>2. CASE Continue("syncing", [w.status EXCEPT !.job = TRUE, !.phase = "syncing"])
        <4>1. PICK s \in Status : s = [w.status EXCEPT !.job = TRUE, !.phase = "syncing"]
          BY <1>1 DEF Status
        <4>2. s.claim = w.status.claim /\ s.job = TRUE /\ s.phase = "syncing"
          BY <1>1, <4>1 DEF Status
        <4>3. w'.status = s /\ w'.rv = w.rv /\ pc' = "syncing"
          BY <1>1, <3>2, <4>1 DEF Continue, Work
        <4>4. First(m) => Says(m, s)'
          BY <1>1, <1>2, <2>1, <4>2 DEF Hand, Says
        <4> QED BY <1>1, <1>2, <2>1, <4>2, <4>3, <4>4 DEF Hand
      <3> QED BY <2>1, <3>1, <3>2
    <2> QED BY <1>0, <1>1, <2>1, <2>2, <2>4, <2>5, <1>m, OthersTrue
  <1> QED BY <1>3, <1>4

\* A status update writes the status in hand over the version it was made of.
LEMMA UpdateWrites ==
  ASSUME TypeOK, NEW m \in Models, m = w.model, NEW a \in Answer, UpdateStatus(a)
  PROVE  /\ \A k \in Models \ {m} : obj'[k] = obj[k]
         /\ \/ /\ obj'[m] = obj[m] /\ (Taken(a) => obj[m].status = w.status)
            \/ /\ Current(obj[m]) /\ a # "refused" /\ obj[m].status # w.status
               /\ obj'[m] = [uid |-> w.uid, rv |-> w.rv + 1, status |-> w.status]
  <1>1. obj \in [Models -> Object]
    BY DEF TypeOK
  <1>2. CASE /\ Current(obj[m]) /\ a # "refused" /\ obj[m].status # w.status
             /\ obj' = [obj EXCEPT ![m] = [uid |-> w.uid, rv |-> w.rv + 1, status |-> w.status]]
    BY <1>1, <1>2
  <1>3. CASE obj' = obj /\ ~(Current(obj[m]) /\ a # "refused" /\ obj[m].status # w.status)
    BY <1>3 DEF Taken
  <1>4. Current(obj[m]) => obj[m].uid = w.uid /\ obj[m].rv = w.rv
    BY DEF Current
  <1> QED BY <1>2, <1>3, <1>4 DEF UpdateStatus

LEMMA WriteTrue ==
  ASSUME TruthInv, Base',
         WriteMissing \/ WriteClaimed \/ WriteSyncing \/ WriteForget \/ WriteDone
  PROVE  \A k \in Models : Good(k)'
  <1> USE DEF TruthInv
  <1>0. Reconcile
    BY DEF Reconcile
  <1>m. PICK m \in Models : m = w.model
    BY <1>0, WorkerKeeps
  <1>a. PICK a \in Answer :
          /\ UpdateStatus(a)
          /\ \/ w' = NoWork
             \/ /\ Taken(a)
                /\ \/ pc = "claimed" /\ GoOn(Resume(w.status))
                   \/ pc = "syncing" /\ GoOn("look")
    BY DEF WriteMissing, WriteClaimed, WriteSyncing, WriteForget, WriteDone, Again, Done
  <1>1. /\ UNCHANGED <<repo, job, claim, cObj, cJob, born, removed>>
        /\ w \in Work /\ w.status \in Status /\ w.rv \in Nat
    BY <1>0, WorkerKeeps DEF WriteMissing, WriteClaimed, WriteSyncing, WriteForget, WriteDone
  <1>3. First(m) => Objects(m) /\ Hand(m) /\ w.uid = 1
    BY <1>m, FirstCounted DEF Good
  <1>4. /\ \A k \in Models \ {m} : obj'[k] = obj[k]
        /\ \/ /\ obj'[m] = obj[m] /\ (Taken(a) => obj[m].status = w.status)
           \/ /\ Current(obj[m])
              /\ obj'[m] = [uid |-> w.uid, rv |-> w.rv + 1, status |-> w.status]
    BY <1>a, <1>m, UpdateWrites, BaseHeld
  <1>5. First(m) => \A s : Says(m, s) => Says(m, s)'
    BY <1>1 DEF Says, Loaded, Over
  <1>6. PICK s : s = w.status
    OBVIOUS
  <1>7. First(m) => Says(m, s)'
    BY <1>3, <1>5, <1>6 DEF Hand
  <1>8. First(m) => Objects(m)'
    <2>1. First(m) => obj'[m].status \in {obj[m].status, s}
      BY <1>4, <1>6
    <2>2. First(m) => Says(m, obj[m].status)' /\ Says(m, cObj[m].status)'
      BY <1>1, <1>3, <1>5, <1>7, <2>1 DEF Objects, Says
    <2>3. First(m) /\ cObj[m].uid = 1 =>
             cObj[m].rv <= obj'[m].rv /\ (cObj[m].rv = obj'[m].rv => cObj[m] = obj'[m])
      <3>1. cObj[m].rv \in Nat /\ obj[m].rv \in Nat
        BY FirstCounted DEF Object
      <3> QED BY <1>1, <1>3, <1>4, <3>1 DEF Objects, Current
    <2> QED BY <1>1, <1>3, <2>2, <2>3 DEF Objects, Loaded
  <1>9. First(m) /\ w'.model = m => Hand(m)'
    <2>1. CASE w' = NoWork
      BY <2>1, NoModelAssumption DEF NoWork
    <2>2. ASSUME First(m), Taken(a), pc \in {"claimed", "syncing"},
                 pc' = "create" \/ (pc' = "look" /\ s.job), w' = [w EXCEPT !.rv = obj'[m].rv]
          PROVE  Hand(m)'
      <3>1. w'.status = s /\ w'.rv = obj'[m].rv
        BY <1>1, <1>6, <2>2 DEF Work
      <3>2. obj'[m].status = s
        BY <1>4, <1>6, <2>2
      <3>3. m \notin removed => s.phase # "done"
        BY <1>3, <1>6, <2>2 DEF Hand
      <3>4. obj'[m].rv \in Nat
        BY <1>m, BaseHeld DEF Base, TypeOK, Object
      <3> QED BY <1>1, <1>7, <2>2, <3>1, <3>2, <3>3, <3>4 DEF Hand, Says
    <2>3. pc = "syncing" => s.job
      BY <1>6, BaseHeld DEF Placed
    <2>4. pc = "claimed" => s.claim
      BY <1>6, BaseHeld DEF Placed
    <2> QED BY <1>a, <1>m, <1>6, <2>1, <2>2, <2>3, <2>4 DEF GoOn, Resume
  <1> QED BY <1>0, <1>1, <1>4, <1>8, <1>9, <1>m, OthersTrue

LEMMA NextTrue ==
  ASSUME TruthInv, [Next]_vars
  PROVE  TruthInv'
  <1>1. Base'
    BY NextBase DEF TruthInv
  <1>2. CASE Environment
    BY <1>1, <1>2, EnvironmentTrue DEF TruthInv
  <1>3. CASE Informers \/ Crash \/ Restart
    BY <1>1, <1>3, ProcessTrue DEF TruthInv
  <1>4. ASSUME NEW m \in Models, Start(m) \/ Drop(m)
        PROVE  TruthInv'
    BY <1>1, <1>4, TakeTrue DEF TruthInv
  <1>5. CASE Reconcile
    BY <1>1, <1>5, ReadTrue, CreateTrue, WriteTrue DEF TruthInv, Reconcile
  <1>6. CASE UNCHANGED vars
    BY <1>1, <1>6 DEF TruthInv, vars, Good, Fresh, First, Objects, Hand, Says, Loaded, Over
  <1> QED BY <1>2, <1>3, <1>4, <1>5, <1>6 DEF Next

LEMMA TruthInvariant == Spec => []TruthInv
  <1>1. Init => TruthInv
    <2> SUFFICES ASSUME Init PROVE TruthInv
      OBVIOUS
    <2>1. \A m \in Models : obj[m] = NoObject /\ claim[m] = NoClaim /\ job[m] = NoJob /\ cJob[m] = NoJob
      BY DEF Init
    <2> QED BY <2>1, InitBase DEF TruthInv, Good, Fresh, First, NoObject
  <1> QED BY <1>1, NextTrue, PTL DEF Spec

\* A model is reported as done only when it is in its volume, whatever the
\* caches show and whatever fails or is done again (Reconcile).
THEOREM DoneMeansDownloadedAlways == Spec => []DoneMeansDownloaded
  <1>1. TruthInv => DoneMeansDownloaded
    BY DEF TruthInv, Good, Objects, Says, Loaded, DoneMeansDownloaded
  <1> QED BY <1>1, TruthInvariant, PTL

\* Only a status update changes a status, and it takes one that is done for
\* what it is, since it is made of that version.
LEMMA StepKeepsDone ==
  ASSUME TruthInv, [Next]_vars, NEW m \in Models, m \notin removed,
         First(m), obj[m].status.phase = "done", obj'[m].uid = 1
  PROVE  obj'[m].status.phase = "done"
  <1>1. Good(m) /\ Base
    BY DEF TruthInv
  <1>2. \/ obj'[m] = obj[m]
        \/ m = w.model /\ \E a \in Answer : UpdateStatus(a)
    <2>1. obj \in [Models -> Object]
      BY <1>1, BaseHeld DEF TypeOK
    <2>2. CASE Environment
      <3>1. PICK k \in Models :
              \/ Create(k) \/ Delete(k) \/ Publish(k) \/ RemoveJob(k)
              \/ CollectJob(k) \/ CollectClaim(k) \/ JobSucceeds(k) \/ JobFails(k)
        BY <2>2 DEF Environment
      <3>2. CASE Create(k)
        BY <2>1, <3>2 DEF Create, First
      <3>3. CASE Delete(k)
        BY <2>1, <3>3 DEF Delete, NoObject
      <3> QED
        BY <3>1, <3>2, <3>3
        DEF Publish, RemoveJob, CollectJob, CollectClaim, JobSucceeds, JobFails, api
    <2>3. CASE Informers \/ Crash \/ Restart \/ \E k \in Models : Start(k) \/ Drop(k)
      BY <2>3 DEF Informers, WatchModel, WatchJob, Resync, Crash, Restart, Start, Drop, api
    <2>4. CASE Reconcile
      <3>1. obj' = obj \/ \E a \in Answer : UpdateStatus(a)
        BY <2>4 DEF Reconcile, HubFails, ModelMissing, ModelFound, WriteMissing, CreateClaim,
           WriteClaimed, CreateJob, WriteSyncing, Look, WriteForget, WriteDone, api
      <3>2. PICK k \in Models : k = w.model
        BY <1>1, <2>4, WorkerKeeps
      <3>3. k # m => obj'[m] = obj[m]
        BY <1>1, <3>1, <3>2, BaseHeld, UpdateWrites
      <3> QED BY <3>1, <3>2, <3>3
    <2>5. CASE UNCHANGED vars
      BY <2>5 DEF vars
    <2> QED BY <2>2, <2>3, <2>4, <2>5 DEF Next
  <1>3. ASSUME m = w.model, NEW a \in Answer, UpdateStatus(a)
        PROVE  obj'[m].status.phase = "done"
    <2>1. \/ obj'[m] = obj[m]
          \/ Current(obj[m]) /\ obj'[m].status = w.status
      BY <1>1, <1>3, BaseHeld, UpdateWrites
    <2>2. Current(obj[m]) => w.status.phase = "done"
      BY <1>1, <1>3 DEF Current, Good, Hand
    <2> QED BY <2>1, <2>2
  <1> QED BY <1>2, <1>3

\* A phase that is done stays so, unless a user removes the Job or the object:
\* a round on an older version never takes it back (the status updates).
THEOREM DoneStaysAlways == Spec => DoneStays
  <1>1. TruthInv /\ [Next]_vars =>
          [\A m \in Models \ removed :
              First(m) /\ obj[m].status.phase = "done" /\ obj'[m].uid = 1
                  => obj'[m].status.phase = "done"]_vars
    BY StepKeepsDone
  <1> QED BY <1>1, TruthInvariant, PTL DEF Spec, DoneStays

----------------------------------------------------------------------------
(* No wake-up is lost as long as no call fails: when the object in hand is *)
(* not the latest one, an event for it is queued or under way.             *)

Abreast ==
    \A m \in Models :
        w.model = m /\ m \notin queue =>
            cObj[m].uid = w.uid /\ (cObj[m] = obj[m] => w.rv = obj[m].rv)

\* The updates after which nothing looks at the object again.
Report ==
    /\ pc = "missing" => w.status.failure
    /\ pc = "done" => w.status.phase = "done"

WakeInv == Base /\ Abreast /\ Report /\ NoLostWakeup

LEMMA EnvironmentWakes ==
  ASSUME WakeInv, Base', Environment
  PROVE  WakeInv'
  <1> USE DEF WakeInv
  <1>1. PICK m \in Models :
          \/ Create(m) \/ Delete(m) \/ Publish(m) \/ RemoveJob(m)
          \/ CollectJob(m) \/ CollectClaim(m) \/ JobSucceeds(m) \/ JobFails(m)
    BY DEF Environment
  <1>2. UNCHANGED <<cObj, queue, pc, w, faults>>
    BY <1>1 DEF Create, Delete, Publish, RemoveJob, CollectJob, CollectClaim,
       JobSucceeds, JobFails, cache, worker
  <1>3. Report'
    BY <1>2 DEF Report
  <1>4. CASE UNCHANGED obj
    BY <1>2, <1>3, <1>4 DEF Abreast, NoLostWakeup, Waiting, Behind, Alive
  <1>5. obj \in [Models -> Object] /\ cObj[m].uid \in Nat /\ born[m] \in Nat
    BY BaseHeld DEF TypeOK, Object, Uid
  <1>6. CASE Create(m)
    <2>1. /\ obj'[m].uid = born[m] + 1 /\ \A k \in Models \ {m} : obj'[k] = obj[k]
      BY <1>5, <1>6 DEF Create
    <2>2. cObj[m].uid # obj'[m].uid
      BY <1>5, <2>1, BaseHeld DEF Counted
    <2> QED
      BY <1>2, <1>3, <2>1, <2>2 DEF Abreast, NoLostWakeup, Waiting, Behind, Alive
  <1>7. CASE Delete(m)
    <2>1. /\ obj'[m].uid = 0 /\ \A k \in Models \ {m} : obj'[k] = obj[k]
      BY <1>5, <1>7 DEF Delete, NoObject
    <2>2. w.model = m /\ m \notin queue => cObj[m].uid # 0
      BY BaseHeld DEF Abreast, Counted
    <2> QED
      BY <1>2, <1>3, <2>1, <2>2 DEF Abreast, NoLostWakeup, Waiting, Behind, Alive
  <1> QED
    BY <1>1, <1>4, <1>6, <1>7
    DEF Publish, RemoveJob, CollectJob, CollectClaim, JobSucceeds, JobFails, api

LEMMA ProcessWakes ==
  ASSUME WakeInv, Base', Informers \/ Crash \/ Restart
  PROVE  WakeInv'
  <1> USE DEF WakeInv
  <1>1. CASE Informers
    <2>1. PICK m \in Models : WatchModel(m) \/ WatchJob(m) \/ Resync(m)
      BY <1>1 DEF Informers
    <2>2. /\ UNCHANGED <<obj, pc, w, faults>> /\ queue \subseteq queue'
          /\ \A k \in Models : cObj'[k] = cObj[k] \/ k \in queue'
      <3>1. cObj \in [Models -> Object]
        BY BaseHeld DEF TypeOK
      <3> QED BY <2>1, <3>1 DEF WatchModel, WatchJob, Resync, api, cache, worker
    <2> QED BY <2>2 DEF Abreast, Report, NoLostWakeup, Waiting, Behind, Alive
  <1>2. CASE Crash
    <2>1. pc' = "down" /\ w' = NoWork
      BY <1>2 DEF Crash
    <2> QED BY <2>1, NoModelAssumption DEF NoWork, Abreast, Report, NoLostWakeup, Alive
  <1>3. CASE Restart
    <2>1. /\ pc' = "idle" /\ w' = NoWork /\ obj' = obj
          /\ queue' = {m \in Models : obj[m].uid # 0}
      BY <1>3 DEF Restart, api
    <2> QED
      BY <2>1, NoModelAssumption DEF NoWork, Abreast, Report, NoLostWakeup, Waiting
  <1> QED BY <1>1, <1>2, <1>3

LEMMA TakeWakes ==
  ASSUME WakeInv, Base', NEW m \in Models, Start(m) \/ Drop(m)
  PROVE  WakeInv'
  <1> USE DEF WakeInv
  <1>1. /\ UNCHANGED <<obj, cObj, faults>> /\ queue' = queue \ {m} /\ pc = "idle"
        /\ w.model \notin Models
    BY NoModelAssumption, BaseHeld DEF Start, Drop, api, cache, TypeOK
  <1>2. CASE Start(m)
    <2>1. /\ w'.model = m /\ w'.uid = cObj[m].uid /\ w'.rv = cObj[m].rv
          /\ pc' \in {"size", "create", "look"}
      BY <1>2 DEF Start, Resume
    <2> QED
      BY <1>1, <2>1 DEF Abreast, Report, NoLostWakeup, Waiting, Behind, Alive
  <1>3. CASE Drop(m)
    <2>1. cObj[m].uid = 0 /\ UNCHANGED <<pc, w>>
      BY <1>3 DEF Drop, worker
    <2> QED
      BY <1>1, <2>1 DEF Abreast, Report, NoLostWakeup, Waiting, Behind, Alive
  <1> QED BY <1>2, <1>3

LEMMA ReconcileWakes ==
  ASSUME WakeInv, Base', Reconcile
  PROVE  WakeInv'
  <1> USE DEF WakeInv
  <1>m. PICK m \in Models : m = w.model
    BY WorkerKeeps
  <1>1. /\ UNCHANGED <<cObj, born>> /\ Alive
        /\ \A k \in Models : w'.model = k => k = m /\ w'.uid = w.uid
        /\ w \in Work /\ w.status \in Status
    BY <1>m, WorkerKeeps DEF Alive
  <1>2. obj' = obj \/ \E a \in Answer : UpdateStatus(a)
    BY DEF Reconcile, HubFails, ModelMissing, ModelFound, WriteMissing, CreateClaim,
       WriteClaimed, CreateJob, WriteSyncing, Look, WriteForget, WriteDone, api
  <1>3. \A k \in Models \ {m} : obj'[k] = obj[k]
    BY <1>m, <1>2, BaseHeld, UpdateWrites
  \* How the step leaves the worker.
  <1>4. \/ Again
        \/ /\ obj' = obj
           /\ \E p, s : Continue(p, s) /\ (p = "missing" => s.failure)
                                       /\ (p = "done" => s.phase = "done")
        \/ \E p \in {"size", "create", "look"} : GoOn(p)
        \/ Done /\ \E a \in Answer : /\ UpdateStatus(a)
                                     /\ pc \in {"missing", "done"} \/ ~Taken(a)
    <2>d. PICK d : d = [w.status EXCEPT !.failure = TRUE]
      OBVIOUS
    <2>e. PICK e : e = [w.status EXCEPT !.phase = "done"]
      OBVIOUS
    <2>1. d.failure /\ e.phase = "done"
      BY <1>1, <2>d, <2>e DEF Status
    <2>2. CASE HubFails \/ CreateClaim \/ CreateJob
      <3>1. obj' = obj /\ (Again \/ \E p, s : Continue(p, s) /\ p \notin {"missing", "done"})
        BY <2>2 DEF HubFails, CreateClaim, CreateJob, api
      <3> QED BY <3>1
    <2>3. CASE ModelMissing \/ ModelFound \/ Look
      <3>1. /\ obj' = obj
            /\ \/ Again
               \/ Continue("missing", d)
               \/ Continue("done", e)
               \/ \E p, s : Continue(p, s) /\ p \notin {"missing", "done"}
        BY <2>3, <2>d, <2>e DEF ModelMissing, ModelFound, Look, LookAgain, api
      <3> QED BY <2>1, <3>1
    <2>4. CASE WriteMissing \/ WriteClaimed \/ WriteSyncing \/ WriteForget \/ WriteDone
      BY <2>4 DEF WriteMissing, WriteClaimed, WriteSyncing, WriteForget, WriteDone, Resume
    <2> QED BY <2>2, <2>3, <2>4 DEF Reconcile
  <1>5. faults' = 0 => faults = 0 /\ \A a \in Answer : UpdateStatus(a) => a = "ok"
    <2>1. faults \in Nat
      BY <1>m, FirstCounted
    <2>2. faults' = 0 => faults = 0
      BY <2>1
      DEF Reconcile, HubFails, ModelMissing, ModelFound, WriteMissing, CreateClaim,
          WriteClaimed, CreateJob, WriteSyncing, Look, WriteForget, WriteDone, UpdateStatus,
          Calls, Fault
    <2> QED BY <2>1, <2>2 DEF UpdateStatus, Calls, Fault
  <1>6. CASE w' = NoWork /\ pc' = "idle"
    <2>1. queue \subseteq queue'
      BY <1>4, <1>6 DEF Again, Done, Continue, GoOn
    <2>2. Abreast' /\ Report'
      BY <1>6, NoModelAssumption DEF Abreast, Report, NoWork
    <2>3. ASSUME faults' = 0, Waiting(m)'
          PROVE  m \in queue' \/ Behind(m)'
      <3>1. CASE Again
        BY <3>1, <1>m DEF Again
      <3>2. ASSUME Done, NEW a \in Answer, UpdateStatus(a),
                   pc \in {"missing", "done"} \/ ~Taken(a)
            PROVE  m \in queue' \/ Behind(m)'
        <4>1. a = "ok"
          BY <1>5, <2>3, <3>2
        <4>2. CASE Current(obj[m])
          <5>1. pc \in {"missing", "done"}
            BY <1>m, <3>2, <4>1, <4>2 DEF Taken
          <5>2. obj'[m].status = w.status
            BY <1>m, <3>2, <4>1, <4>2, UpdateWrites, BaseHeld DEF Taken
          <5> QED BY <2>3, <5>1, <5>2 DEF Report, Waiting
        <4>3. CASE ~Current(obj[m])
          <5>1. obj'[m] = obj[m]
            BY <1>m, <3>2, <4>3, UpdateWrites, BaseHeld
          <5>2. m \in queue \/ cObj[m] # obj[m]
            BY <1>m, <4>3 DEF Abreast, Current
          <5> QED BY <1>1, <2>1, <5>1, <5>2 DEF Behind
        <4> QED BY <4>2, <4>3
      <3>3. CASE \E p, s : Continue(p, s) \/ GoOn(p)
        BY <1>m, <1>1, <1>6, <3>3, NoModelAssumption DEF Continue, GoOn, NoWork, Work
      <3> QED BY <1>4, <3>1, <3>2, <3>3
    <2>4. ASSUME NEW k \in Models \ {m}, faults' = 0, Waiting(k)'
          PROVE  k \in queue' \/ Behind(k)'
      <3>1. Waiting(k) /\ w.model # k
        BY <1>3, <1>m, <2>4 DEF Waiting
      <3> QED BY <1>1, <1>3, <1>5, <2>1, <2>4, <3>1 DEF NoLostWakeup, Behind
    <2> QED BY <2>2, <2>3, <2>4 DEF NoLostWakeup
  <1>7. ASSUME w'.model = m, queue' = queue, pc' \notin {"idle", "down"},
               \/ obj' = obj /\ w'.rv = w.rv
               \/ w'.rv = obj'[m].rv,
               Report'
        PROVE  WakeInv'
    <2>1. Abreast'
      BY <1>1, <1>m, <1>7 DEF Abreast
    <2>2. NoLostWakeup'
      BY <1>1, <1>3, <1>5, <1>m, <1>7 DEF NoLostWakeup, Waiting, Behind
    <2> QED BY <1>7, <2>1, <2>2
  <1>8. CASE obj' = obj /\ \E p, s : Continue(p, s) /\ (p = "missing" => s.failure)
                                                   /\ (p = "done" => s.phase = "done")
    <2>1. PICK p, s : Continue(p, s) /\ (p = "missing" => s.failure)
                                     /\ (p = "done" => s.phase = "done")
      BY <1>8
    <2>2. w'.model = m /\ w'.rv = w.rv /\ w'.status = s /\ pc' = p /\ queue' = queue
      BY <1>1, <1>m, <2>1 DEF Continue, Work
    <2>3. pc' \notin {"idle", "down"}
      BY <1>m, <2>2, BaseHeld, NoModelAssumption DEF Base, TypeOK
    <2>4. Report'
      BY <2>1, <2>2 DEF Report
    <2> QED BY <1>7, <1>8, <2>2, <2>3, <2>4
  <1>9. CASE \E p \in {"size", "create", "look"} : GoOn(p)
    <2>1. /\ w'.model = m /\ w'.rv = obj'[m].rv /\ queue' = queue
          /\ pc' \in {"size", "create", "look"}
      BY <1>1, <1>9, <1>m DEF GoOn, Work
    <2>2. Report'
      BY <2>1 DEF Report
    <2> QED BY <1>7, <2>1, <2>2
  <1> QED BY <1>4, <1>6, <1>8, <1>9 DEF Again, Done

LEMMA NextWakes ==
  ASSUME WakeInv, [Next]_vars
  PROVE  WakeInv'
  <1>1. Base'
    BY NextBase DEF WakeInv
  <1>2. CASE UNCHANGED vars
    BY <1>1, <1>2 DEF WakeInv, vars, Abreast, Report, NoLostWakeup, Waiting, Behind, Alive
  <1> QED
    BY <1>1, <1>2, EnvironmentWakes, ProcessWakes, TakeWakes, ReconcileWakes DEF Next

\* As long as no call fails, a ModelStorage that still needs the reconciler is
\* queued, in hand, or has an event under way (Reconcile's returns).
THEOREM NoLostWakeupAlways == Spec => []NoLostWakeup
  <1>1. Init => WakeInv
    <2> SUFFICES ASSUME Init PROVE WakeInv
      OBVIOUS
    <2>1. \A m \in Models : obj[m].uid = 0 /\ w.model # m
      BY NoModelAssumption DEF Init, NoObject, NoWork
    <2>2. pc = "idle"
      BY DEF Init
    <2> QED BY <2>1, <2>2, InitBase DEF WakeInv, Abreast, Report, NoLostWakeup, Waiting
  <1>2. WakeInv => NoLostWakeup
    BY DEF WakeInv
  <1> QED BY <1>1, <1>2, NextWakes, PTL DEF Spec
=============================================================================
