-------------------------- MODULE CPodSystem_proofs --------------------------
(* The synchronizer as a whole does to CPodJobs and createFailedJobs what   *)
(* Heartbeat assumes and no more, so that the portal is never told ahead.   *)
EXTENDS CPodSystem, TLAPS

\* What the refinement rests on: CPodJobs are created by SyncJob alone, so
\* that a name the list did not show has none until the loop gets to it; and
\* Durations are left to Heartbeat.
CreatesInv ==
    /\ life \in [Jobs -> Sync!Stage] /\ seen \in [Jobs -> Sync!Stage]
    /\ portal \subseteq Jobs
    /\ rest \subseteq Jobs
    /\ pc = "fetch" => \A j \in Jobs : seen[j] = "none" => life[j] = "none"
    /\ pc = "create" => \A j \in rest : life[j] = "none"
    /\ old = {}

LEMMA Stages ==
  /\ "none" \in Sync!Stage /\ "created" \in Sync!Stage
  /\ \A s \in Sync!Stage : Sync!Cluster!Later(s) \subseteq Sync!Stage
  /\ Sync!Cluster!Later("none") = {}
  BY DEF Sync!Stage, Sync!Cluster!Stage, Sync!Cluster!Later

LEMMA Blank == Sync!NothingSeen \in [Jobs -> Sync!Stage]
  BY Stages DEF Sync!NothingSeen

\* What a step of a round does to the CPodJobs and to the round itself.
LEMMA RoundCreates ==
  ASSUME CreatesInv, SyncRound
  PROVE  CreatesInv'
  <1>1. CASE /\ Sync!List \/ Sync!ListFails \/ Sync!Fetch \/ Sync!CreatesDone
             /\ UNCHANGED beatOnly
    BY <1>1 DEF Sync!List, Sync!ListFails, Sync!Fetch, Sync!CreatesDone, Sync!Missing,
         Sync!Unwanted, Sync!round, beatOnly, CreatesInv
  <1>2. CASE /\ Sync!FetchFails \/ Sync!DeletesDone
             /\ UNCHANGED beatOnly
    BY <1>2, Blank DEF Sync!FetchFails, Sync!DeletesDone, Sync!Return, beatOnly, CreatesInv
  <1>3. ASSUME NEW j \in Jobs, Sync!RejectNext(j), UNCHANGED beatOnly
        PROVE  CreatesInv'
    BY <1>3 DEF Sync!RejectNext, beatOnly, CreatesInv
  <1>4. ASSUME NEW j \in Jobs, Sync!CreateNext(j), UNCHANGED beatOnly
        PROVE  CreatesInv'
    <2>1. /\ pc = "create" /\ rest' = rest \ {j}
          /\ UNCHANGED <<portal, pc, seen, old>>
          /\ life' = life \/ life' = [life EXCEPT ![j] = "created"]
      BY <1>4 DEF Sync!CreateNext, beatOnly
    <2> QED BY <2>1, Stages DEF CreatesInv
  <1>5. ASSUME NEW j \in Jobs, SyncDeletes(j)
        PROVE  CreatesInv'
    <2>1. /\ pc = "delete" /\ UNCHANGED <<portal, old>>
          /\ life' = life \/ life' = [life EXCEPT ![j] = "none"]
          /\ \/ pc' = "idle" /\ seen' = Sync!NothingSeen /\ rest' = {}
             \/ rest' = rest \ {j} /\ UNCHANGED <<pc, seen>>
      BY <1>5 DEF SyncDeletes, Sync!DeleteNext, Sync!Return, Forgets, beatOnly
    <2> QED BY <2>1, Stages, Blank DEF CreatesInv
  <1> QED BY <1>1, <1>2, <1>3, <1>4, <1>5 DEF SyncRound

LEMMA NextCreates ==
  ASSUME CreatesInv, [Next]_vars
  PROVE  CreatesInv'
  <1>1. CASE Observe \/ Upload \/ ArrivesLate
    <2>1. UNCHANGED <<syncOnly, life, old>>
      BY <1>1 DEF Observe, Upload, ArrivesLate, Beat!Observe, Beat!Upload, Beat!GetJobStates,
           Beat!AddCreateFailed, Beat!Send, Beat!Take, Beat!Post, Beat!ArrivesLate, Beat!jobs
    <2> QED BY <2>1 DEF syncOnly, CreatesInv
  <1>2. CASE Restart
    BY <1>2, Blank DEF Restart, Sync!Restart, Sync!Return, Beat!Restart, CreatesInv
  <1>3. ASSUME NEW j \in Jobs, PortalChanges(j)
        PROVE  CreatesInv'
    BY <1>3 DEF PortalChanges, Sync!Assign, Sync!Withdraw, Sync!round, beatOnly, CreatesInv
  <1>4. ASSUME NEW j \in Jobs, OperatorAdvances(j) \/ UserRemoves(j)
        PROVE  CreatesInv'
    <2>1. /\ UNCHANGED <<portal, pc, seen, rest, old>>
          /\ life[j] # "none"
          /\ \E s \in Sync!Stage : life' = [life EXCEPT ![j] = s]
      BY <1>4, Stages DEF OperatorAdvances, UserRemoves, Forgets, Sync!Advances, Sync!Removed,
           Sync!Cluster!Advance, Sync!Cluster!Remove, Sync!round, beatOnly, CreatesInv
    <2> QED BY <2>1 DEF CreatesInv
  <1>5. CASE UNCHANGED vars
    BY <1>5 DEF vars, syncOnly, beatOnly, CreatesInv
  <1> QED BY <1>1, <1>2, <1>3, <1>4, <1>5, RoundCreates DEF Next, Environment

LEMMA InitCreates == Init => CreatesInv
  BY Blank DEF Init, Sync!Init, Beat!Init, CreatesInv

----------------------------------------------------------------------------
\* Both components name the stages of JobLifecycle and count faults alike.
LEMMA Shared ==
  /\ Sync!Fault <=> Beat!Fault
  /\ \A j : Sync!Cluster!Advance(j) <=> Beat!Cluster!Advance(j)
  /\ \A j : Sync!Cluster!Remove(j) <=> Beat!Cluster!Remove(j)
  BY DEF Sync!Fault, Beat!Fault, Sync!Cluster!Advance, Beat!Cluster!Advance, Sync!Cluster!Later,
       Beat!Cluster!Later, Sync!Cluster!Remove, Beat!Cluster!Remove

\* The variables of Heartbeat that SyncJob leaves alone.
LEMMA BeatOnlyFrame ==
  ASSUME UNCHANGED beatOnly
  PROVE  UNCHANGED <<limited, old, gone, Beat!observer, ch, Beat!uploader, astray, view>>
  BY DEF beatOnly, Beat!observer, Beat!uploader

LEMMA FaultAlone ==
  ASSUME Sync!Fault, UNCHANGED beatOnly, UNCHANGED <<life, buffer>>
  PROVE  Beat!Next
  BY Shared, BeatOnlyFrame DEF Beat!Next, Beat!Environment, Beat!SyncJobFault, Beat!jobs

LEMMA RoundMaps ==
  ASSUME CreatesInv, SyncRound
  PROVE  [Beat!Next]_Beat!vars
  <1>1. CASE /\ Sync!List \/ Sync!Fetch \/ Sync!CreatesDone \/ Sync!DeletesDone
             /\ UNCHANGED beatOnly
    BY <1>1 DEF Sync!List, Sync!Fetch, Sync!CreatesDone, Sync!DeletesDone, beatOnly, Beat!vars
  <1>2. CASE /\ Sync!ListFails \/ Sync!FetchFails
             /\ UNCHANGED beatOnly
    BY <1>2, FaultAlone DEF Sync!ListFails, Sync!FetchFails
  <1>3. ASSUME NEW j \in Jobs, Sync!RejectNext(j) \/ Sync!CreateNext(j), UNCHANGED beatOnly
        PROVE  Beat!Next
    <2>1. life[j] = "none"
      BY <1>3 DEF Sync!RejectNext, Sync!CreateNext, CreatesInv
    <2>2. CASE /\ life' = [life EXCEPT ![j] = "created"]
               /\ \/ buffer' = buffer \ {j} /\ UNCHANGED faults
                  \/ buffer' = buffer \cup {j} /\ Sync!Fault
      <3>1. Beat!JobCreated(j)
        BY <1>3, <2>1, <2>2, Shared, BeatOnlyFrame DEF Beat!JobCreated, Beat!Cluster!Submit
      <3> QED BY <3>1 DEF Beat!Next, Beat!Environment
    <2>3. CASE life' = life /\ buffer' = buffer \cup {j} /\ (UNCHANGED faults \/ Sync!Fault)
      <3>1. Beat!CreateFailed(j)
        BY <1>3, <2>1, <2>3, Shared, BeatOnlyFrame DEF Beat!CreateFailed
      <3> QED BY <3>1 DEF Beat!Next, Beat!Environment
    <2> QED BY <1>3, <2>2, <2>3 DEF Sync!RejectNext, Sync!CreateNext, Sync!Noted
  <1>4. ASSUME NEW j \in Jobs, SyncDeletes(j)
        PROVE  [Beat!Next]_Beat!vars
    <2>1. Sync!DeleteNext(j)
      BY <1>4 DEF SyncDeletes
    <2>2. CASE life' # life
      <3>1. /\ life[j] # "none" /\ life' = [life EXCEPT ![j] = "none"]
            /\ UNCHANGED buffer /\ (UNCHANGED faults \/ Sync!Fault)
        BY <2>1, <2>2 DEF Sync!DeleteNext
      <3>2. gone' = gone \cup {j} /\ old' = old \ {j}
        BY <1>4, <2>2 DEF SyncDeletes, Forgets, CreatesInv
      <3>3. UNCHANGED <<limited, Beat!observer, ch, Beat!uploader, astray, view>>
        BY <1>4, <2>2 DEF SyncDeletes, Forgets, Beat!observer, Beat!uploader
      <3>4. Beat!JobRemoved(j)
        BY <3>1, <3>2, <3>3, Shared DEF Beat!JobRemoved, Beat!Cluster!Remove
      <3> QED BY <3>4 DEF Beat!Next, Beat!Environment
    <2>3. CASE life' = life
      <3>1. UNCHANGED beatOnly /\ UNCHANGED buffer /\ (UNCHANGED faults \/ Sync!Fault)
        BY <1>4, <2>1, <2>3 DEF SyncDeletes, Sync!DeleteNext
      <3> QED BY <2>3, <3>1, FaultAlone DEF beatOnly, Beat!vars
    <2> QED BY <2>2, <2>3
  <1> QED BY <1>1, <1>2, <1>3, <1>4 DEF SyncRound

LEMMA NextMaps ==
  ASSUME CreatesInv, [Next]_vars
  PROVE  [Beat!Next]_Beat!vars
  <1>1. CASE Observe \/ Upload \/ ArrivesLate \/ Restart
    BY <1>1 DEF Observe, Upload, ArrivesLate, Restart, Beat!Next, Beat!Environment
  <1>2. ASSUME NEW j \in Jobs, PortalChanges(j)
        PROVE  UNCHANGED Beat!vars
    BY <1>2 DEF PortalChanges, Sync!Assign, Sync!Withdraw, beatOnly, Beat!vars
  <1>3. ASSUME NEW j \in Jobs, OperatorAdvances(j)
        PROVE  Beat!Next
    <2>1. Beat!JobAdvances(j)
      BY <1>3, Shared, BeatOnlyFrame DEF OperatorAdvances, Sync!Advances, Beat!JobAdvances
    <2> QED BY <2>1 DEF Beat!Next, Beat!Environment
  <1>4. ASSUME NEW j \in Jobs, UserRemoves(j)
        PROVE  Beat!Next
    <2>1. Beat!JobRemoved(j)
      BY <1>4, Shared DEF UserRemoves, Sync!Removed, Forgets, Beat!JobRemoved, Beat!observer,
           Beat!uploader, CreatesInv
    <2> QED BY <2>1 DEF Beat!Next, Beat!Environment
  <1>5. CASE UNCHANGED vars
    BY <1>5 DEF vars, beatOnly, Beat!vars
  <1> QED BY <1>1, <1>2, <1>3, <1>4, <1>5, RoundMaps DEF Next, Environment

\* What SyncJob, the portal and users do to CPodJobs and createFailedJobs,
\* with any failures and restarts, is a behaviour of Heartbeat: every step of
\* the process is a step of Heartbeat or leaves its variables alone.
THEOREM HeartbeatImplemented == Spec => ImplementsHeartbeat
  <1>1. Init => CreatesInv /\ Beat!Init
    BY InitCreates DEF Init
  <1> QED BY <1>1, NextCreates, NextMaps, PTL DEF Spec, ImplementsHeartbeat, Beat!Spec

----------------------------------------------------------------------------
Proved == INSTANCE Heartbeat_proofs WITH Removable <- Jobs, Again <- TRUE

\* The two names of Heartbeat's specification mean the same.
LEMMA SameEnvironment == Beat!Environment <=> Proved!Environment
  <1>1. ASSUME NEW j \in Jobs
        PROVE  /\ Beat!JobCreated(j) <=> Proved!JobCreated(j)
               /\ Beat!JobAdvances(j) <=> Proved!JobAdvances(j)
               /\ Beat!JobRemoved(j) <=> Proved!JobRemoved(j)
               /\ Beat!TimeUp(j) <=> Proved!TimeUp(j)
               /\ Beat!CreateFailed(j) <=> Proved!CreateFailed(j)
    BY DEF Beat!JobCreated, Proved!JobCreated, Beat!JobAdvances, Proved!JobAdvances,
         Beat!JobRemoved, Proved!JobRemoved, Beat!TimeUp, Proved!TimeUp, Beat!CreateFailed,
         Proved!CreateFailed, Beat!Cluster!Submit, Proved!Cluster!Submit, Beat!Cluster!Advance,
         Proved!Cluster!Advance, Beat!Cluster!Later, Proved!Cluster!Later, Beat!Cluster!Remove,
         Proved!Cluster!Remove, Beat!Fault, Proved!Fault, Beat!observer, Proved!observer,
         Beat!uploader, Proved!uploader
  <1>2. ASSUME NEW p \in astray
        PROVE  Beat!ArrivesLate(p) <=> Proved!ArrivesLate(p)
    BY DEF Beat!ArrivesLate, Proved!ArrivesLate, Beat!jobs, Proved!jobs, Beat!observer,
         Proved!observer, Beat!uploader, Proved!uploader
  <1>3. Beat!SyncJobFault <=> Proved!SyncJobFault
    BY DEF Beat!SyncJobFault, Proved!SyncJobFault, Beat!Fault, Proved!Fault, Beat!jobs,
         Proved!jobs, Beat!observer, Proved!observer, Beat!uploader, Proved!uploader
  <1> QED BY <1>1, <1>2, <1>3 DEF Beat!Environment, Proved!Environment

LEMMA SameObserver == Beat!Observe <=> Proved!Observe
  <1>1. Beat!Extended = Proved!Extended
    BY DEF Beat!Extended, Proved!Extended, Beat!Listed, Proved!Listed, Beat!WithFailed,
         Proved!WithFailed, Beat!State, Proved!State, Beat!Overdue, Proved!Overdue,
         Beat!Nothing, Proved!Nothing, Beat!ShownAs, Proved!ShownAs
  <1> QED
    BY <1>1 DEF Beat!Observe, Proved!Observe, Beat!GetJobStates, Proved!GetJobStates,
         Beat!AddCreateFailed, Proved!AddCreateFailed, Beat!Send, Proved!Send, Beat!Nothing,
         Proved!Nothing, Beat!NoPayload, Proved!NoPayload, Beat!Fault, Proved!Fault, Beat!jobs,
         Proved!jobs, Beat!observer, Proved!observer, Beat!uploader, Proved!uploader

LEMMA SameUploader == Beat!Upload <=> Proved!Upload
  BY DEF Beat!Upload, Proved!Upload, Beat!Take, Proved!Take, Beat!Post, Proved!Post,
       Beat!NoPayload, Proved!NoPayload, Beat!Fault, Proved!Fault, Beat!jobs, Proved!jobs,
       Beat!observer, Proved!observer, Beat!uploader, Proved!uploader

LEMMA SameRestart == Beat!Restart <=> Proved!Restart
  BY DEF Beat!Restart, Proved!Restart, Beat!Nothing, Proved!Nothing, Beat!NoPayload,
       Proved!NoPayload, Beat!Fault, Proved!Fault

LEMMA SameInit == Beat!Init <=> Proved!Init
  BY DEF Beat!Init, Proved!Init, Beat!Nothing, Proved!Nothing, Beat!NoPayload, Proved!NoPayload

LEMMA SpecProved == Spec => Proved!Spec
  <1>1. [Beat!Next]_Beat!vars => [Proved!Next]_Proved!vars
    BY SameEnvironment, SameObserver, SameUploader, SameRestart
       DEF Beat!Next, Proved!Next, Beat!vars, Proved!vars
  <1> QED
    BY <1>1, SameInit, HeartbeatImplemented, PTL DEF ImplementsHeartbeat, Beat!Spec, Proved!Spec

\* So the portal is never told of a job what has not come true, whatever the
\* goroutines, the portal, users, late posts and restarts do together.
THEOREM SystemNeverAhead == Spec => []Beat!NeverAhead
  <1>1. Proved!Spec => []Proved!NeverAhead
    BY Proved!NeverAheadAlways, FaultsAssumption
  <1>2. Proved!NeverAhead => Beat!NeverAhead
    BY DEF Beat!NeverAhead, Proved!NeverAhead, Beat!ShownAs, Proved!ShownAs, Beat!Stage,
         Proved!Stage, Beat!Cluster!Stage, Proved!Cluster!Stage, Beat!Cluster!Later,
         Proved!Cluster!Later
  <1> QED
    BY <1>1, <1>2, SpecProved, PTL

----------------------------------------------------------------------------
(* No payload mixes two moments of a job, unless an answer was lost.       *)

Payloads == {draft, view} \cup ch \cup cached \cup astray

\* A payload that shows a CPodJob is no older than the CPodJob.
Dated(p) == \A j \in Jobs \ gone : p.states[j] # "none" => life[j] # "none"

\* Who is shown in both is still noted.
Apart(p) == \A j \in Jobs \ gone : p.states[j] # "none" /\ j \in p.failed => j \in buffer

BothInv ==
    /\ faults = 0 => \A j \in buffer : life[j] = "none"
    /\ \A p \in Payloads : Dated(p)
    /\ faults < 2 => \A p \in Payloads : Apart(p)

LEMMA NothingShown == Dated(Beat!Nothing) /\ Apart(Beat!Nothing)
  BY DEF Dated, Apart, Beat!Nothing

\* Steps that change the jobs, and leave the payloads where they are.
LEMMA JobsBoth ==
  ASSUME Beat!TypeOK, BothInv, NEW j \in Jobs,
         \/ Beat!JobCreated(j) \/ Beat!JobAdvances(j) \/ Beat!JobRemoved(j)
         \/ Beat!TimeUp(j) \/ Beat!CreateFailed(j)
  PROVE  BothInv'
  <1>1. Payloads' = Payloads /\ (UNCHANGED faults \/ Beat!Fault)
    BY DEF Payloads, Beat!JobCreated, Beat!JobAdvances, Beat!JobRemoved, Beat!TimeUp,
       Beat!CreateFailed, Beat!observer, Beat!uploader
  <1>2. /\ faults' = 0 => faults = 0 /\ ~Beat!Fault
        /\ faults' < 2 => faults < 2
        /\ life \in [Jobs -> Beat!Stage] /\ buffer \subseteq Jobs
    BY <1>1 DEF Beat!Fault, Beat!TypeOK
  <1>3. CASE Beat!JobCreated(j)
    <2>1. /\ life[j] = "none" /\ life' = [life EXCEPT ![j] = "created"] /\ UNCHANGED gone
          /\ buffer' = buffer \cup {j} \/ buffer' = buffer \ {j}
          /\ faults' = 0 => buffer' = buffer \ {j}
      BY <1>2, <1>3 DEF Beat!JobCreated, Beat!Cluster!Submit
    <2> QED BY <1>1, <1>2, <2>1 DEF BothInv, Dated, Apart
  <1>4. CASE Beat!JobAdvances(j)
    <2>1. /\ life[j] # "none" /\ UNCHANGED <<gone, buffer, faults>>
          /\ \E s \in Beat!Stage \ {"none"} : life' = [life EXCEPT ![j] = s]
      BY <1>4 DEF Beat!JobAdvances, Beat!Cluster!Advance, Beat!Cluster!Later, Beat!Stage,
         Beat!Cluster!Stage
    <2> QED BY <1>1, <1>2, <2>1 DEF BothInv, Dated, Apart
  <1>5. CASE Beat!JobRemoved(j)
    <2>1. life' = [life EXCEPT ![j] = "none"] /\ gone' = gone \cup {j} /\ UNCHANGED buffer
      BY <1>5 DEF Beat!JobRemoved, Beat!Cluster!Remove
    <2> QED BY <1>1, <1>2, <2>1 DEF BothInv, Dated, Apart
  <1>6. CASE Beat!TimeUp(j) \/ Beat!CreateFailed(j)
    <2>1. /\ UNCHANGED <<life, gone>>
          /\ buffer' = buffer \/ (buffer' = buffer \cup {j} /\ life[j] = "none")
      BY <1>6 DEF Beat!TimeUp, Beat!CreateFailed
    <2> QED BY <1>1, <1>2, <2>1 DEF BothInv, Dated, Apart
  <1> QED BY <1>3, <1>4, <1>5, <1>6

\* Steps that take payloads from one place to another.
LEMMA PayloadsBoth ==
  ASSUME Beat!TypeOK, BothInv, UNCHANGED <<life, gone, buffer>>,
         UNCHANGED faults \/ Beat!Fault,
         \A p \in Payloads' : p \in Payloads \/ (Dated(p) /\ Apart(p))
  PROVE  BothInv'
  <1>1. (faults' = 0 => faults = 0) /\ (faults' < 2 => faults < 2)
    BY DEF Beat!Fault, Beat!TypeOK
  <1> QED BY <1>1 DEF BothInv, Dated, Apart

LEMMA ObserveBoth == ASSUME Beat!TypeOK, BothInv, Beat!Observe PROVE BothInv'
  <1>1. UNCHANGED <<life, gone, buffer, view, cached, astray>> /\ (UNCHANGED faults \/ Beat!Fault)
    BY DEF Beat!Observe, Beat!GetJobStates, Beat!AddCreateFailed, Beat!Send, Beat!jobs,
       Beat!uploader
  <1>2. CASE Beat!GetJobStates
    <2>1. draft' = Beat!Listed(Beat!Nothing) \/ UNCHANGED draft
      BY <1>2 DEF Beat!GetJobStates, Beat!Extended, Beat!observer
    <2>2. Dated(Beat!Listed(Beat!Nothing)) /\ Apart(Beat!Listed(Beat!Nothing))
      BY DEF Beat!Listed, Beat!Nothing, Beat!State, Dated, Apart
    <2>3. UNCHANGED ch
      BY <1>2 DEF Beat!GetJobStates
    <2> QED BY <1>1, <2>1, <2>2, <2>3, PayloadsBoth DEF Payloads
  <1>3. CASE Beat!AddCreateFailed
    <2>1. draft' = Beat!WithFailed(draft) \/ draft' = Beat!Nothing
      BY <1>3 DEF Beat!AddCreateFailed, Beat!Extended
    <2>2. Dated(Beat!WithFailed(draft)) /\ Apart(Beat!WithFailed(draft))
      BY DEF Beat!TypeOK, Beat!Payload, Beat!WithFailed, BothInv, Payloads, Dated, Apart
    <2>3. UNCHANGED ch
      BY <1>3 DEF Beat!AddCreateFailed
    <2> QED BY <1>1, <2>1, <2>2, <2>3, NothingShown, PayloadsBoth DEF Payloads
  <1>4. CASE Beat!Send
    <2>1. ch' = {draft} /\ draft' = Beat!Nothing
      BY <1>4 DEF Beat!Send
    <2> QED BY <1>1, <2>1, NothingShown, PayloadsBoth DEF Payloads
  <1> QED BY <1>2, <1>3, <1>4 DEF Beat!Observe

LEMMA UploadBoth ==
  ASSUME Beat!TypeOK, BothInv, Beat!Upload \/ \E p \in astray : Beat!ArrivesLate(p)
  PROVE  BothInv'
  <1>1. /\ UNCHANGED <<life, gone, buffer, draft>> /\ (UNCHANGED faults \/ Beat!Fault)
        /\ ch' \subseteq ch /\ cached' \subseteq cached \cup ch
        /\ astray' \subseteq astray \cup cached /\ view' \in {view} \cup cached \cup astray
    BY DEF Beat!Upload, Beat!Take, Beat!Post, Beat!ArrivesLate, Beat!jobs, Beat!observer,
       Beat!uploader, Beat!NoPayload
  <1> QED BY <1>1, PayloadsBoth DEF Payloads

LEMMA RestartBoth == ASSUME Beat!TypeOK, BothInv, Beat!Restart PROVE BothInv'
  <1>1. /\ UNCHANGED <<life, gone>> /\ buffer' = {} /\ faults' = faults + 1
        /\ Payloads' \subseteq Payloads \cup {Beat!Nothing}
    BY DEF Beat!Restart, Beat!Fault, Beat!NoPayload, Payloads
  <1>2. faults \in Nat
    BY DEF Beat!TypeOK
  <1>3. \A p \in Payloads' : Dated(p)'
    BY <1>1, NothingShown DEF BothInv, Dated
  <1>4. faults = 0 => \A p \in Payloads : \A j \in Jobs \ gone :
                          ~(p.states[j] # "none" /\ j \in p.failed)
    BY DEF BothInv, Dated, Apart
  <1>5. faults' < 2 => \A p \in Payloads' : Apart(p)'
    BY <1>1, <1>2, <1>4 DEF Apart, Beat!Nothing
  <1> QED BY <1>1, <1>2, <1>3, <1>5 DEF BothInv

LEMMA NextBoth == ASSUME Beat!TypeOK, BothInv, [Beat!Next]_Beat!vars PROVE BothInv'
  <1>1. CASE Beat!SyncJobFault \/ UNCHANGED Beat!vars
    <2>1. UNCHANGED <<life, gone, buffer, Payloads>> /\ (UNCHANGED faults \/ Beat!Fault)
      BY <1>1 DEF Beat!SyncJobFault, Beat!vars, Payloads, Beat!jobs, Beat!observer, Beat!uploader
    <2> QED BY <2>1, PayloadsBoth
  <1> QED
    BY <1>1, JobsBoth, ObserveBoth, UploadBoth, RestartBoth DEF Beat!Next, Beat!Environment

LEMMA BeatTyped == Spec => []Beat!TypeOK
  <1>1. Proved!Spec => []Proved!TypeOK
    BY Proved!TypeCorrect, FaultsAssumption
  <1>2. Proved!TypeOK => Beat!TypeOK
    BY DEF Beat!TypeOK, Proved!TypeOK, Beat!Stage, Proved!Stage, Beat!Cluster!Stage,
       Proved!Cluster!Stage, Beat!Payload, Proved!Payload, Beat!Statuses, Proved!Statuses,
       Beat!Holds, Proved!Holds, Beat!NoPayload, Proved!NoPayload
  <1> QED BY <1>1, <1>2, SpecProved, PTL

LEMMA InitBoth == Init => BothInv
  BY NothingShown DEF Init, Beat!Init, Beat!NoPayload, BothInv, Payloads, Dated, Apart

\* BothInv is preserved where CreatesInv holds, by which a step of the process
\* is one of Heartbeat.
LEMMA BothAlways == Spec => []BothInv
  BY InitBoth, InitCreates, BeatTyped, NextBoth, NextCreates, NextMaps, PTL DEF Spec

\* A payload shows a job with a CPodJob and as one that could not get one, the
\* two being read one after the other, only if SyncJob has it in both itself.
THEOREM BothOnlyIfLostAlways == Spec => []BothOnlyIfLost
  <1>1. BothInv => BothOnlyIfLost
    BY DEF BothInv, Payloads, Apart, BothOnlyIfLost
  <1> QED BY <1>1, BothAlways, PTL

----------------------------------------------------------------------------
(* What is proved of SyncJob holds of the whole, where its steps alternate *)
(* with those of observer and uploader, which have a part in the faults.   *)

SyncProved == INSTANCE SyncJob_proofs

\* A step of the observer, the uploader or the network.
Elsewhere ==
    /\ UNCHANGED <<syncOnly, life, buffer>>
    /\ UNCHANGED faults \/ Sync!Fault

LEMMA StepsOfSync ==
  ASSUME [Next]_vars
  PROVE  [Sync!Next]_Sync!vars \/ Elsewhere
  <1>1. CASE Observe \/ Upload \/ ArrivesLate
    <2>1. UNCHANGED syncOnly
      BY <1>1 DEF Observe, Upload, ArrivesLate
    <2>2. UNCHANGED <<life, buffer>> /\ (UNCHANGED faults \/ Beat!Fault)
      BY <1>1 DEF Observe, Upload, ArrivesLate, Beat!Observe, Beat!Upload, Beat!GetJobStates,
           Beat!AddCreateFailed, Beat!Send, Beat!Take, Beat!Post, Beat!ArrivesLate, Beat!jobs
    <2> QED BY <2>1, <2>2, Shared DEF Elsewhere
  <1>2. CASE SyncRound
    BY <1>2 DEF SyncRound, SyncDeletes, Sync!Next, Sync!Round
  <1>3. CASE Restart
    BY <1>3 DEF Restart, Sync!Next
  <1>4. ASSUME NEW j \in Jobs, PortalChanges(j) \/ OperatorAdvances(j) \/ UserRemoves(j)
        PROVE  Sync!Next
    BY <1>4 DEF PortalChanges, OperatorAdvances, UserRemoves, Sync!Next, Sync!Environment
  <1>5. CASE UNCHANGED vars
    BY <1>5 DEF vars, syncOnly, Sync!vars
  <1> QED BY <1>1, <1>2, <1>3, <1>4, <1>5 DEF Next, Environment

\* The two names of SyncJob's specification mean the same.
LEMMA SameSyncRound == Sync!Round <=> SyncProved!Round
  <1>1. ASSUME NEW j \in Jobs
        PROVE  /\ Sync!RejectNext(j) <=> SyncProved!RejectNext(j)
               /\ Sync!CreateNext(j) <=> SyncProved!CreateNext(j)
               /\ Sync!DeleteNext(j) <=> SyncProved!DeleteNext(j)
    BY DEF Sync!RejectNext, SyncProved!RejectNext, Sync!CreateNext, SyncProved!CreateNext,
         Sync!DeleteNext, SyncProved!DeleteNext, Sync!Noted, SyncProved!Noted, Sync!Fault,
         SyncProved!Fault, Sync!Return, SyncProved!Return, Sync!NothingSeen,
         SyncProved!NothingSeen
  <1>2. /\ Sync!List <=> SyncProved!List
        /\ Sync!ListFails <=> SyncProved!ListFails
        /\ Sync!Fetch <=> SyncProved!Fetch
        /\ Sync!FetchFails <=> SyncProved!FetchFails
        /\ Sync!DeletesDone <=> SyncProved!DeletesDone
    BY DEF Sync!List, SyncProved!List, Sync!ListFails, SyncProved!ListFails, Sync!Fetch,
         SyncProved!Fetch, Sync!FetchFails, SyncProved!FetchFails, Sync!DeletesDone,
         SyncProved!DeletesDone, Sync!Missing, SyncProved!Missing, Sync!round, SyncProved!round,
         Sync!Fault, SyncProved!Fault, Sync!Return, SyncProved!Return, Sync!NothingSeen,
         SyncProved!NothingSeen
  <1>3. Sync!CreatesDone <=> SyncProved!CreatesDone
    BY DEF Sync!CreatesDone, SyncProved!CreatesDone, Sync!Unwanted, SyncProved!Unwanted,
         Sync!ShownAs, SyncProved!ShownAs, Sync!NoMoreChange, SyncProved!NoMoreChange
  <1> QED BY <1>1, <1>2, <1>3 DEF Sync!Round, SyncProved!Round

LEMMA SameSyncNext == [Sync!Next]_Sync!vars <=> [SyncProved!Next]_SyncProved!vars
  <1>1. ASSUME NEW j \in Jobs
        PROVE  /\ Sync!Assign(j) <=> SyncProved!Assign(j)
               /\ Sync!Withdraw(j) <=> SyncProved!Withdraw(j)
               /\ Sync!Advances(j) <=> SyncProved!Advances(j)
               /\ Sync!Removed(j) <=> SyncProved!Removed(j)
    BY DEF Sync!Assign, SyncProved!Assign, Sync!Withdraw, SyncProved!Withdraw, Sync!Advances,
         SyncProved!Advances, Sync!Removed, SyncProved!Removed, Sync!round, SyncProved!round,
         Sync!Cluster!Advance, SyncProved!Cluster!Advance, Sync!Cluster!Later,
         SyncProved!Cluster!Later, Sync!Cluster!Remove, SyncProved!Cluster!Remove
  <1>2. Sync!Restart <=> SyncProved!Restart
    BY DEF Sync!Restart, SyncProved!Restart, Sync!Fault, SyncProved!Fault, Sync!Return,
         SyncProved!Return, Sync!NothingSeen, SyncProved!NothingSeen
  <1> QED
    BY <1>1, <1>2, SameSyncRound DEF Sync!Next, SyncProved!Next, Sync!Environment,
       SyncProved!Environment, Sync!vars, SyncProved!vars

SyncInv == SyncProved!TypeOK /\ SyncProved!OriginInv

LEMMA InitSync == Init => SyncInv
  BY FaultsAssumption DEF Init, Sync!Init, SyncInv, SyncProved!TypeOK, SyncProved!OriginInv,
     SyncProved!Known, Sync!NothingSeen, SyncProved!NothingSeen, SyncProved!Stage,
     SyncProved!Cluster!Stage, Sync!Kind, SyncProved!Kind

LEMMA NextSync ==
  ASSUME SyncInv, [Next]_vars
  PROVE  SyncInv'
  <1>1. CASE [SyncProved!Next]_SyncProved!vars
    <2>1. SyncProved!TypeOK'
      BY <1>1, FaultsAssumption, SyncProved!NextTyped DEF SyncInv
    <2>2. SyncProved!OriginInv'
      BY <1>1, FaultsAssumption, SyncProved!NextOrigin DEF SyncInv
    <2> QED BY <2>1, <2>2 DEF SyncInv
  <1>2. CASE Elsewhere
    <2>1. UNCHANGED <<kind, portal, withdrawn, life, pc, seen, wanted, rest, buffer>>
      BY <1>2 DEF Elsewhere, syncOnly
    <2>2. faults' \in 0..MaxFaults
      BY <1>2, FaultsAssumption DEF Elsewhere, Sync!Fault, SyncInv, SyncProved!TypeOK
    <2> QED BY <2>1, <2>2 DEF SyncInv, SyncProved!TypeOK, SyncProved!OriginInv, SyncProved!Known
  <1> QED BY <1>1, <1>2, StepsOfSync, SameSyncNext

\* The variables of the whole process keep their types.
THEOREM TypeCorrect == Spec => [](Sync!TypeOK /\ Beat!TypeOK)
  <1>1. SyncInv => Sync!TypeOK
    BY DEF SyncInv, SyncProved!TypeOK, Sync!TypeOK, Sync!Kind, SyncProved!Kind, Sync!Stage,
       SyncProved!Stage, Sync!Cluster!Stage, SyncProved!Cluster!Stage
  <1> QED BY <1>1, InitSync, NextSync, BeatTyped, PTL DEF Spec

\* In the whole process, too, the delete loop never takes the CPodJob of a job
\* that the portal has assigned and never withdrawn.
THEOREM SystemKeepsAssigned == Spec => Sync!KeepsAssigned
  <1>1. SyncInv /\ [Next]_vars =>
          [\A j \in Jobs \ withdrawn : Sync!DeleteNext(j) => life'[j] = life[j]]_Sync!vars
    BY DEF SyncInv, SyncProved!OriginInv, Sync!DeleteNext
  <1> QED BY <1>1, InitSync, NextSync, PTL DEF Spec, Sync!KeepsAssigned

\* And as long as no call has failed, in any of the goroutines, no job is in
\* createFailedJobs that has a CPodJob.
THEOREM SystemFailedHasNoCPodJob == Spec => []Sync!FailedHasNoCPodJob
  <1>1. BothInv => Sync!FailedHasNoCPodJob
    BY DEF BothInv, Sync!FailedHasNoCPodJob
  <1> QED BY <1>1, BothAlways, PTL

\* The CPodJobs go through the stages of JobLifecycle in the whole process, too.
THEOREM SystemFollowsLifecycle == Spec => Sync!Cluster!Spec
  <1>1. Init => Sync!Cluster!Init
    BY DEF Init, Sync!Init, Sync!NothingSeen, Sync!Cluster!Init
  <1>2. [Next]_vars => [Sync!Cluster!Next]_life
    <2>1. CASE [SyncProved!Next]_SyncProved!vars
      <3>1. CASE SyncProved!Round
        <4>1. [SyncProved!Cluster!Next]_life
          BY <3>1, FaultsAssumption, SyncProved!RoundFollows
        <4> QED
          BY <4>1 DEF Sync!Cluster!Next, SyncProved!Cluster!Next, Sync!Cluster!Submit,
             SyncProved!Cluster!Submit, Sync!Cluster!Advance, SyncProved!Cluster!Advance,
             Sync!Cluster!Later, SyncProved!Cluster!Later, Sync!Cluster!Remove,
             SyncProved!Cluster!Remove
      <3>2. CASE SyncProved!Environment
        BY <3>2 DEF SyncProved!Environment, SyncProved!Assign, SyncProved!Withdraw,
           SyncProved!Advances, SyncProved!Removed, SyncProved!Cluster!Advance,
           SyncProved!Cluster!Later, SyncProved!Cluster!Remove, Sync!Cluster!Next,
           Sync!Cluster!Advance, Sync!Cluster!Later, Sync!Cluster!Remove
      <3>3. CASE SyncProved!Restart \/ UNCHANGED SyncProved!vars
        BY <3>3 DEF SyncProved!Restart, SyncProved!vars
      <3> QED BY <2>1, <3>1, <3>2, <3>3 DEF SyncProved!Next
    <2>2. CASE Elsewhere
      BY <2>2 DEF Elsewhere
    <2> QED BY <2>1, <2>2, StepsOfSync, SameSyncNext
  <1> QED BY <1>1, <1>2, PTL DEF Spec, Sync!Cluster!Spec

----------------------------------------------------------------------------
(* The portal hears only of jobs that it has assigned itself.              *)

\* The portal has assigned the job, then or now.
Known == portal \cup withdrawn

\* The jobs that a payload shows, or lists as createfailed.
Named(p) == {j \in Jobs : p.states[j] # "none"} \cup p.failed

NamedInv ==
    /\ buffer \subseteq Known
    /\ \A p \in Payloads : Named(p) \subseteq Known

\* What SyncJob's invariant says of the jobs that get into a payload.
LEMMA OriginKnown ==
  ASSUME SyncInv
  PROVE  /\ \A j \in Jobs : life[j] # "none" => j \in Known
         /\ pc = "create" => rest \subseteq Known
  BY DEF SyncInv, SyncProved!OriginInv, SyncProved!Known, Known

LEMMA NothingNamed == Named(Beat!Nothing) = {}
  BY DEF Named, Beat!Nothing

\* Steps that put nothing new into a payload but what is known.
LEMMA PayloadsNamed ==
  ASSUME NamedInv, UNCHANGED <<portal, withdrawn, buffer>>,
         \A p \in Payloads' : p \in Payloads \/ Named(p) \subseteq Known
  PROVE  NamedInv'
  BY DEF NamedInv, Known, Named

LEMMA ObserveNamed ==
  ASSUME Beat!TypeOK, SyncInv, NamedInv, Observe
  PROVE  NamedInv'
  <1>1. UNCHANGED <<portal, withdrawn, buffer, view, cached, astray>>
    BY DEF Observe, syncOnly, Beat!Observe, Beat!GetJobStates, Beat!AddCreateFailed, Beat!Send,
       Beat!jobs, Beat!uploader
  <1>2. CASE Beat!GetJobStates
    <2>1. draft' = Beat!Listed(Beat!Nothing) \/ UNCHANGED draft
      BY <1>2 DEF Beat!GetJobStates, Beat!Extended, Beat!observer
    <2>2. Named(Beat!Listed(Beat!Nothing)) \subseteq Known
      BY OriginKnown DEF Beat!Listed, Beat!Nothing, Beat!State, Named
    <2>3. UNCHANGED ch
      BY <1>2 DEF Beat!GetJobStates
    <2> QED BY <1>1, <2>1, <2>2, <2>3, PayloadsNamed DEF Payloads
  <1>3. CASE Beat!AddCreateFailed
    <2>1. draft' = Beat!WithFailed(draft) \/ draft' = Beat!Nothing
      BY <1>3 DEF Beat!AddCreateFailed, Beat!Extended
    <2>2. Named(Beat!WithFailed(draft)) \subseteq Known
      BY DEF Beat!TypeOK, Beat!Payload, Beat!WithFailed, NamedInv, Payloads, Named
    <2>3. UNCHANGED ch
      BY <1>3 DEF Beat!AddCreateFailed
    <2> QED BY <1>1, <2>1, <2>2, <2>3, NothingNamed, PayloadsNamed DEF Payloads
  <1>4. CASE Beat!Send
    <2>1. ch' = {draft} /\ draft' = Beat!Nothing
      BY <1>4 DEF Beat!Send
    <2> QED BY <1>1, <2>1, NothingNamed, PayloadsNamed DEF Payloads
  <1> QED BY <1>2, <1>3, <1>4 DEF Observe, Beat!Observe

LEMMA UploadNamed == ASSUME NamedInv, Upload \/ ArrivesLate PROVE NamedInv'
  <1>1. /\ UNCHANGED <<portal, withdrawn, buffer, draft>>
        /\ ch' \subseteq ch /\ cached' \subseteq cached \cup ch
        /\ astray' \subseteq astray \cup cached /\ view' \in {view} \cup cached \cup astray
    BY DEF Upload, ArrivesLate, syncOnly, Beat!Upload, Beat!Take, Beat!Post, Beat!ArrivesLate,
       Beat!jobs, Beat!observer, Beat!uploader, Beat!NoPayload
  <1> QED BY <1>1, PayloadsNamed DEF Payloads

\* SyncJob notes as createfailed only what the portal has named.
LEMMA RoundNamed == ASSUME SyncInv, NamedInv, SyncRound PROVE NamedInv'
  <1>1. UNCHANGED <<portal, withdrawn, Payloads>>
    BY DEF SyncRound, SyncDeletes, Forgets, beatOnly, Payloads, Sync!List, Sync!ListFails,
       Sync!Fetch, Sync!FetchFails, Sync!CreatesDone, Sync!DeletesDone, Sync!RejectNext,
       Sync!CreateNext, Sync!DeleteNext
  <1>2. buffer' \subseteq Known
    <2>1. ASSUME NEW j \in Jobs, Sync!RejectNext(j) \/ Sync!CreateNext(j)
          PROVE  buffer' \subseteq Known
      <3>1. pc = "create" /\ j \in rest /\ buffer' \subseteq buffer \cup {j}
        BY <2>1 DEF Sync!RejectNext, Sync!CreateNext, Sync!Noted
      <3> QED BY <3>1, OriginKnown DEF NamedInv
    <2>2. CASE UNCHANGED buffer
      BY <2>2 DEF NamedInv
    <2> QED
      BY <2>1, <2>2 DEF SyncRound, SyncDeletes, Sync!List, Sync!ListFails, Sync!Fetch,
         Sync!FetchFails, Sync!CreatesDone, Sync!DeletesDone, Sync!DeleteNext
  <1> QED BY <1>1, <1>2 DEF NamedInv, Known, Named

LEMMA NextNamed ==
  ASSUME Beat!TypeOK, SyncInv, NamedInv, [Next]_vars
  PROVE  NamedInv'
  <1>1. ASSUME NEW j \in Jobs, PortalChanges(j)
        PROVE  NamedInv'
    <2>1. Known \subseteq Known' /\ UNCHANGED <<buffer, Payloads>>
      BY <1>1 DEF PortalChanges, Sync!Assign, Sync!Withdraw, beatOnly, Known, Payloads
    <2> QED BY <2>1 DEF NamedInv, Named
  <1>2. ASSUME NEW j \in Jobs, OperatorAdvances(j) \/ UserRemoves(j)
        PROVE  NamedInv'
    <2>1. UNCHANGED <<portal, withdrawn, buffer, Payloads>>
      BY <1>2 DEF OperatorAdvances, UserRemoves, Forgets, Sync!Advances, Sync!Removed, beatOnly,
         Payloads
    <2> QED BY <2>1, PayloadsNamed
  <1>3. CASE Restart
    <2>1. /\ UNCHANGED <<portal, withdrawn>> /\ buffer' = {}
          /\ Payloads' \subseteq Payloads \cup {Beat!Nothing}
      BY <1>3 DEF Restart, Sync!Restart, Beat!Restart, Beat!NoPayload, Payloads
    <2> QED BY <2>1, NothingNamed DEF NamedInv, Known, Named
  <1>4. CASE UNCHANGED vars
    BY <1>4 DEF vars, syncOnly, beatOnly, NamedInv, Known, Named, Payloads
  <1> QED
    BY <1>1, <1>2, <1>3, <1>4, RoundNamed, ObserveNamed, UploadNamed DEF Next, Environment

\* Whatever is cached, late or stale, the portal is told of no job that it has
\* not assigned to this cluster, as a CPodJob or as one that has none: what the
\* uploader posts comes from SyncJob's rounds alone.
THEOREM ToldOfAssignedAlways == Spec => [](Named(view) \subseteq portal \cup withdrawn)
  <1>1. Init => NamedInv
    BY NothingNamed DEF Init, Sync!Init, Beat!Init, Beat!NoPayload, NamedInv, Payloads
  <1>2. NamedInv => Named(view) \subseteq portal \cup withdrawn
    BY DEF NamedInv, Payloads, Known
  <1> QED BY <1>1, <1>2, InitSync, NextSync, BeatTyped, NextNamed, PTL DEF Spec
=============================================================================
