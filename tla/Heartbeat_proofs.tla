-------------------------- MODULE Heartbeat_proofs --------------------------
(* Type correctness of Heartbeat, and that the portal is never told more   *)
(* of a job than has come true.                                            *)
EXTENDS Heartbeat, TLAPS

LEMMA LaterTyped == \A s \in Stage : Cluster!Later(s) \subseteq Stage \ {"none"}
  BY DEF Stage, Cluster!Stage, Cluster!Later

LEMMA LaterTransitive ==
  \A s, t, u \in Stage : t \in Cluster!Later(s) /\ u \in Cluster!Later(t) => u \in Cluster!Later(s)
  BY DEF Stage, Cluster!Stage, Cluster!Later

LEMMA StateTyped == ASSUME TypeOK PROVE [j \in Jobs |-> State(j)] \in [Jobs -> Statuses]
  <1>1. ASSUME NEW j \in Jobs PROVE State(j) \in Statuses
    <2>1. life[j] \in Stage BY DEF TypeOK
    <2> QED BY <2>1 DEF State, Statuses, ShownAs, Stage, Cluster!Stage
  <1> QED BY <1>1

LEMMA NothingTyped == Nothing \in Payload
  BY DEF Nothing, Payload, Statuses

LEMMA FaultTyped == ASSUME TypeOK, Fault PROVE faults' \in 0..MaxFaults
  BY FaultsAssumption DEF TypeOK, Fault

\* What the observer has after each of its two reads is a payload.
LEMMA ExtendedTyped == ASSUME TypeOK PROVE Extended \in Payload
  BY StateTyped, NothingTyped DEF Extended, Listed, WithFailed, Payload, TypeOK

LEMMA JobsTyped ==
  ASSUME TypeOK, NEW j \in Jobs,
         JobCreated(j) \/ JobAdvances(j) \/ JobRemoved(j) \/ TimeUp(j) \/ CreateFailed(j)
  PROVE  TypeOK'
  <1>0. "created" \in Stage /\ "none" \in Stage
    BY DEF Stage, Cluster!Stage
  <1>1. CASE JobCreated(j)
    BY <1>0, <1>1, FaultTyped DEF JobCreated, Cluster!Submit, TypeOK, Holds, observer, uploader
  <1>2. CASE JobAdvances(j)
    <2>1. PICK s \in Cluster!Later(life[j]) : life' = [life EXCEPT ![j] = s]
      BY <1>2 DEF JobAdvances, Cluster!Advance
    <2>2. s \in Stage
      BY <2>1, LaterTyped DEF TypeOK
    <2> QED BY <1>2, <2>1, <2>2 DEF JobAdvances, TypeOK, Holds, observer, uploader
  <1>3. CASE JobRemoved(j)
    BY <1>0, <1>3, FaultTyped DEF JobRemoved, Cluster!Remove, TypeOK, Holds, observer, uploader
  <1>4. CASE TimeUp(j) \/ CreateFailed(j)
    BY <1>4, FaultTyped DEF TimeUp, CreateFailed, TypeOK, Holds, jobs, observer, uploader
  <1> QED BY <1>1, <1>2, <1>3, <1>4

LEMMA ObserveTyped == ASSUME TypeOK, Observe PROVE TypeOK'
  <1>1. CASE GetJobStates
    <2>1. draft' \in Payload /\ at' \in {"idle", "states"}
      BY <1>1, ExtendedTyped DEF GetJobStates, TypeOK, observer
    <2>2. faults' \in 0..MaxFaults
      BY <1>1, FaultTyped DEF GetJobStates, TypeOK
    <2> QED BY <1>1, <2>1, <2>2 DEF GetJobStates, TypeOK, Holds, jobs, uploader
  <1>2. CASE AddCreateFailed
    <2>1. draft' \in Payload /\ at' \in {"idle", "send"}
      BY <1>2, ExtendedTyped, NothingTyped DEF AddCreateFailed, TypeOK
    <2>2. faults' \in 0..MaxFaults
      BY <1>2, FaultTyped DEF AddCreateFailed, TypeOK
    <2> QED BY <1>2, <2>1, <2>2 DEF AddCreateFailed, TypeOK, Holds, jobs, uploader
  <1>3. CASE Send
    BY <1>3, NothingTyped DEF Send, TypeOK, Holds, NoPayload, jobs, uploader
  <1> QED BY <1>1, <1>2, <1>3 DEF Observe

LEMMA UploadTyped == ASSUME TypeOK, Upload PROVE TypeOK'
  <1>1. CASE Take
    BY <1>1 DEF Take, TypeOK, Holds, NoPayload, jobs, observer
  <1>2. CASE Post
    <2>1. view' \in Payload /\ astray' \subseteq Payload
      BY <1>2 DEF Post, TypeOK, Holds
    <2>2. faults' \in 0..MaxFaults
      BY <1>2, FaultTyped DEF Post, TypeOK
    <2> QED BY <1>2, <2>1, <2>2 DEF Post, TypeOK, Holds, jobs, observer
  <1> QED BY <1>1, <1>2 DEF Upload

LEMMA NextTyped == ASSUME TypeOK, [Next]_vars PROVE TypeOK'
  <1>1. CASE Restart
    BY <1>1, NothingTyped, FaultTyped DEF Restart, TypeOK, Holds, NoPayload
  <1>2. ASSUME NEW p \in astray, ArrivesLate(p)
        PROVE  TypeOK'
    BY <1>2 DEF ArrivesLate, TypeOK, Holds, jobs, observer, uploader
  <1>3. CASE UNCHANGED vars
    BY <1>3 DEF vars, TypeOK, Holds
  <1>4. CASE SyncJobFault
    BY <1>4, FaultTyped DEF SyncJobFault, TypeOK, Holds, jobs, observer, uploader
  <1> QED BY <1>1, <1>2, <1>3, <1>4, JobsTyped, ObserveTyped, UploadTyped DEF Next, Environment

\* Every reachable state is well typed, for every set of jobs.
THEOREM TypeCorrect == Spec => []TypeOK
  <1>1. Init => TypeOK
    BY NothingTyped, FaultsAssumption
    DEF Init, TypeOK, Holds, NoPayload, Stage, Cluster!Stage
  <1> QED BY <1>1, NextTyped, PTL DEF Spec

----------------------------------------------------------------------------
\* A payload says of a job what it shows or has shown.
CameTrue(p) ==
    \A j \in Jobs \ (limited \cup gone) :
        p.states[j] # "none" =>
            \E s \in Stage \ {"none"} :
                ShownAs[s] = p.states[j] /\ life[j] \in {s} \cup Cluster!Later(s)

\* Every payload is such, wherever it is on its way.
PayloadInv ==
    /\ CameTrue(draft) /\ CameTrue(view)
    /\ \A p \in ch \cup cached \cup astray : CameTrue(p)

\* What has come true stays so as jobs move on.
LEMMA JobsKeep ==
  ASSUME TypeOK, NEW j \in Jobs, NEW p, CameTrue(p),
         JobCreated(j) \/ JobAdvances(j) \/ JobRemoved(j) \/ TimeUp(j) \/ CreateFailed(j)
  PROVE  CameTrue(p)'
  <1>1. CASE JobCreated(j)
    <2>1. life[j] = "none" /\ life' = [life EXCEPT ![j] = "created"] /\ UNCHANGED <<limited, gone>>
      BY <1>1 DEF JobCreated, Cluster!Submit
    <2>2. ASSUME NEW s \in Stage \ {"none"}
          PROVE  "none" \notin {s} \cup Cluster!Later(s)
      BY <2>2, LaterTyped
    <2> QED BY <2>1, <2>2 DEF CameTrue, TypeOK
  <1>2. CASE JobAdvances(j)
    <2>1. PICK u \in Cluster!Later(life[j]) : life' = [life EXCEPT ![j] = u]
      BY <1>2 DEF JobAdvances, Cluster!Advance
    <2>2. life[j] \in Stage /\ u \in Stage
      BY <2>1, LaterTyped DEF TypeOK
    <2>3. ASSUME NEW s \in Stage \ {"none"}, life[j] \in {s} \cup Cluster!Later(s)
          PROVE  u \in {s} \cup Cluster!Later(s)
      BY <2>1, <2>2, <2>3, LaterTransitive
    <2> QED BY <1>2, <2>1, <2>3 DEF JobAdvances, CameTrue, TypeOK
  <1>3. CASE JobRemoved(j)
    <2>1. \A k \in Jobs \ {j} : life'[k] = life[k]
      BY <1>3 DEF JobRemoved, Cluster!Remove, TypeOK
    <2> QED BY <1>3, <2>1 DEF JobRemoved, CameTrue
  <1>4. CASE TimeUp(j) \/ CreateFailed(j)
    BY <1>4 DEF TimeUp, CreateFailed, CameTrue
  <1> QED BY <1>1, <1>2, <1>3, <1>4

LEMMA ElsewhereKeeps ==
  ASSUME NEW p, CameTrue(p), UNCHANGED <<limited, life, gone>>
  PROVE  CameTrue(p)'
  BY DEF CameTrue

\* What the observer lists is true when it lists it.
LEMMA ListedTrue ==
  ASSUME TypeOK, NEW f
  PROVE  CameTrue([states |-> [j \in Jobs |-> State(j)], failed |-> f])
  <1>1. ASSUME NEW j \in Jobs \ limited, State(j) # "none"
        PROVE  life[j] \in Stage \ {"none"} /\ ShownAs[life[j]] = State(j)
    BY <1>1 DEF State, Overdue, TypeOK
  <1> QED BY <1>1 DEF CameTrue

LEMMA NothingTrue == CameTrue(Nothing)
  BY DEF CameTrue, Nothing

LEMMA NextKeeps ==
  ASSUME TypeOK, PayloadInv, [Next]_vars
  PROVE  PayloadInv'
  <1>1. ASSUME NEW j \in Jobs,
               JobCreated(j) \/ JobAdvances(j) \/ JobRemoved(j) \/ TimeUp(j) \/ CreateFailed(j)
        PROVE  PayloadInv'
    <2>1. UNCHANGED <<draft, ch, cached, astray, view>>
      BY <1>1 DEF JobCreated, JobAdvances, JobRemoved, TimeUp, CreateFailed, observer, uploader
    <2>2. \A p : CameTrue(p) => CameTrue(p)'
      BY <1>1, JobsKeep
    <2> QED BY <2>1, <2>2 DEF PayloadInv, CameTrue
  <1>2. CASE Observe \/ Upload \/ Restart \/ SyncJobFault \/ (\E p \in astray : ArrivesLate(p)) \/ UNCHANGED vars
    <2>0. UNCHANGED <<limited, life, gone>>
      BY <1>2 DEF Observe, GetJobStates, AddCreateFailed, Send, Upload, Take, Post, Restart,
         ArrivesLate, SyncJobFault, vars, jobs
    <2>1. SUFFICES /\ CameTrue(draft') /\ CameTrue(view')
                   /\ \A p \in ch' \cup cached' \cup astray' : CameTrue(p)
      BY <2>0 DEF PayloadInv, CameTrue
    <2>2. CASE GetJobStates
      <3>1. at = "idle" => CameTrue(Extended)
        BY ListedTrue DEF Extended, Listed, Nothing
      <3> QED BY <2>2, <3>1 DEF GetJobStates, PayloadInv, observer, uploader
    <2>3. CASE AddCreateFailed
      <3>1. at = "states" => CameTrue(Extended)
        BY DEF Extended, WithFailed, PayloadInv, CameTrue, TypeOK, Payload
      <3> QED BY <2>3, <3>1, NothingTrue DEF AddCreateFailed, PayloadInv, uploader
    <2>4. CASE Send
      BY <2>4, NothingTrue DEF Send, PayloadInv, uploader
    <2>5. CASE Take
      BY <2>5, NothingTrue DEF Take, PayloadInv, NoPayload, observer
    <2>6. CASE Post
      BY <2>6 DEF Post, PayloadInv, observer
    <2>7. CASE Restart
      BY <2>7, NothingTrue DEF Restart, PayloadInv, NoPayload
    <2>8. CASE \E p \in astray : ArrivesLate(p)
      BY <2>8 DEF ArrivesLate, PayloadInv, observer, uploader
    <2>9. CASE SyncJobFault \/ UNCHANGED vars
      BY <2>9 DEF SyncJobFault, vars, PayloadInv, observer, uploader
    <2> QED BY <1>2, <2>2, <2>3, <2>4, <2>5, <2>6, <2>7, <2>8, <2>9 DEF Observe, Upload
  <1> QED BY <1>1, <1>2 DEF Next, Environment

\* For any set of jobs, any number of payloads under way, repeated, lost or
\* late: what the portal was told last of a job without a limit, which has not
\* been removed, is what the job shows or has shown.
THEOREM NeverAheadAlways == Spec => []NeverAhead
  <1>1. Init => TypeOK /\ PayloadInv
    <2>1. Init => TypeOK
      BY NothingTyped, FaultsAssumption DEF Init, TypeOK, Holds, NoPayload, Stage, Cluster!Stage
    <2> QED BY <2>1, NothingTrue DEF Init, PayloadInv, NoPayload
  <1>2. PayloadInv => NeverAhead
    BY DEF PayloadInv, CameTrue, NeverAhead
  <1> QED BY <1>1, <1>2, NextTyped, NextKeeps, PTL DEF Spec
=============================================================================
