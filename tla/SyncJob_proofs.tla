--------------------------- MODULE SyncJob_proofs ---------------------------
(* Type correctness of SyncJob; that a round never deletes the CPodJob of a *)
(* job that stayed assigned, nor reports one as failed that has a CPodJob.  *)
EXTENDS SyncJob, TLAPS

LEMMA LaterTyped == \A s \in Stage : Cluster!Later(s) \subseteq Stage
  BY DEF Stage, Cluster!Stage, Cluster!Later

LEMMA RoundTyped == ASSUME TypeOK, Round PROVE TypeOK'
  <1>1. NothingSeen \in [Jobs -> Stage] /\ "created" \in Stage /\ "none" \in Stage
    BY DEF NothingSeen, Stage, Cluster!Stage
  <1>2. Fault => faults' \in 0..MaxFaults
    BY FaultsAssumption DEF Fault, TypeOK
  <1>3. CASE List \/ ListFails
    BY <1>2, <1>3 DEF List, ListFails, TypeOK, round
  <1>4. CASE Fetch \/ FetchFails
    BY <1>1, <1>2, <1>4 DEF Fetch, FetchFails, Missing, Return, TypeOK
  <1>5. CASE CreatesDone \/ DeletesDone
    BY <1>1, <1>5 DEF CreatesDone, DeletesDone, Unwanted, Return, TypeOK
  <1>6. ASSUME NEW j \in Jobs, RejectNext(j) \/ CreateNext(j)
        PROVE  TypeOK'
    BY <1>1, <1>2, <1>6 DEF RejectNext, CreateNext, Noted, TypeOK
  <1>7. ASSUME NEW j \in Jobs, DeleteNext(j)
        PROVE  TypeOK'
    BY <1>1, <1>2, <1>7 DEF DeleteNext, Return, TypeOK
  <1> QED BY <1>3, <1>4, <1>5, <1>6, <1>7 DEF Round

LEMMA EnvironmentTyped == ASSUME TypeOK, Environment PROVE TypeOK'
  <1>1. PICK j \in Jobs : Assign(j) \/ Withdraw(j) \/ Advances(j) \/ Removed(j)
    BY DEF Environment
  <1>2. CASE Assign(j) \/ Withdraw(j)
    BY <1>2 DEF Assign, Withdraw, TypeOK, round
  <1>3. CASE Advances(j)
    <2>1. PICK s \in Cluster!Later(life[j]) : life' = [life EXCEPT ![j] = s]
      BY <1>3 DEF Advances, Cluster!Advance
    <2>2. s \in Stage
      BY <2>1, LaterTyped DEF TypeOK
    <2> QED BY <1>3, <2>1, <2>2 DEF Advances, TypeOK, round
  <1>4. CASE Removed(j)
    BY <1>4 DEF Removed, Cluster!Remove, TypeOK, round, Stage, Cluster!Stage
  <1> QED BY <1>1, <1>2, <1>3, <1>4

LEMMA NextTyped == ASSUME TypeOK, [Next]_vars PROVE TypeOK'
  <1>1. CASE Restart
    BY <1>1, FaultsAssumption DEF Restart, Fault, Return, TypeOK, NothingSeen, Stage, Cluster!Stage
  <1>2. CASE UNCHANGED vars
    BY <1>2 DEF vars, TypeOK
  <1> QED BY <1>1, <1>2, RoundTyped, EnvironmentTyped DEF Next

\* Every reachable state is well typed, for every set of jobs.
THEOREM TypeCorrect == Spec => []TypeOK
  <1>1. Init => TypeOK
    BY FaultsAssumption DEF Init, TypeOK, NothingSeen, Stage, Cluster!Stage
  <1> QED BY <1>1, NextTyped, PTL DEF Spec

----------------------------------------------------------------------------
\* The portal has assigned the job, then or now.
Known == portal \cup withdrawn

\* A CPodJob is there, or was seen, only for a job the portal has assigned;
\* the create loop goes through such jobs; and a job that was seen and that
\* the portal, asked later, did not name has been withdrawn.
OriginInv ==
    /\ \A j \in Jobs : life[j] # "none" \/ seen[j] # "none" => j \in Known
    /\ pc = "create" => rest \subseteq Known
    /\ pc \in {"create", "delete"} =>
          \A j \in Jobs : seen[j] # "none" /\ j \notin wanted => j \in withdrawn
    /\ pc = "delete" => rest \subseteq withdrawn

LEMMA NextOrigin ==
  ASSUME TypeOK, OriginInv, [Next]_vars
  PROVE  OriginInv'
  <1>0. \A j \in Jobs : NothingSeen[j] = "none"
    BY DEF NothingSeen
  <1>1. CASE List \/ ListFails
    BY <1>1 DEF List, ListFails, round, TypeOK, OriginInv, Known
  <1>2. CASE Fetch
    BY <1>2 DEF Fetch, Missing, TypeOK, OriginInv, Known
  <1>3. CASE FetchFails \/ DeletesDone \/ Restart
    BY <1>0, <1>3 DEF FetchFails, DeletesDone, Restart, Return, OriginInv, Known
  <1>4. CASE CreatesDone
    BY <1>4 DEF CreatesDone, Unwanted, OriginInv, Known
  <1>5. ASSUME NEW j \in Jobs, RejectNext(j) \/ CreateNext(j)
        PROVE  OriginInv'
    <2>1. /\ pc = "create" /\ j \in rest /\ rest' = rest \ {j}
          /\ UNCHANGED <<portal, withdrawn, pc, seen, wanted>>
          /\ life' = life \/ life' = [life EXCEPT ![j] = "created"]
      BY <1>5 DEF RejectNext, CreateNext
    <2> QED BY <2>1 DEF TypeOK, OriginInv, Known
  <1>6. ASSUME NEW j \in Jobs, DeleteNext(j)
        PROVE  OriginInv'
    <2>1. /\ pc = "delete" /\ j \in rest /\ UNCHANGED <<portal, withdrawn>>
          /\ life' = life \/ life' = [life EXCEPT ![j] = "none"]
          /\ \/ Return
             \/ rest' = rest \ {j} /\ UNCHANGED <<pc, seen, wanted>>
      BY <1>6 DEF DeleteNext
    <2> QED BY <1>0, <2>1 DEF Return, TypeOK, OriginInv, Known
  <1>7. ASSUME NEW j \in Jobs, Assign(j) \/ Withdraw(j)
        PROVE  OriginInv'
    BY <1>7 DEF Assign, Withdraw, round, TypeOK, OriginInv, Known
  <1>8. ASSUME NEW j \in Jobs, Advances(j) \/ Removed(j)
        PROVE  OriginInv'
    <2>1. life[j] # "none"
      BY <1>8 DEF Advances, Removed, Cluster!Advance, Cluster!Remove, Cluster!Later
    <2>2. /\ UNCHANGED <<portal, withdrawn, round>>
          /\ \E s : life' = [life EXCEPT ![j] = s]
      BY <1>8 DEF Advances, Removed, Cluster!Advance, Cluster!Remove
    <2> QED BY <2>1, <2>2 DEF round, TypeOK, OriginInv, Known
  <1>9. CASE UNCHANGED vars
    BY <1>9 DEF vars, OriginInv, Known
  <1> QED
    BY <1>1, <1>2, <1>3, <1>4, <1>5, <1>6, <1>7, <1>8, <1>9 DEF Next, Round, Environment

\* However the portal's answers, the cluster and failed calls interleave with
\* a round, the CPodJob of a job that the portal has assigned and never
\* withdrawn is not deleted (the delete loop of Start works on a list of
\* CPodJobs that is older than the answer of the portal).
THEOREM KeepsAssignedAlways == Spec => KeepsAssigned
  <1>1. Init => TypeOK /\ OriginInv
    BY FaultsAssumption DEF Init, TypeOK, NothingSeen, Stage, Cluster!Stage, OriginInv, Known
  <1>2. TypeOK /\ OriginInv /\ [Next]_vars =>
            [\A j \in Jobs \ withdrawn : DeleteNext(j) => life'[j] = life[j]]_vars
    BY DEF OriginInv, DeleteNext
  <1> QED BY <1>1, <1>2, NextTyped, NextOrigin, PTL DEF Spec, KeepsAssigned

----------------------------------------------------------------------------
\* As long as no call has failed: only SyncJob creates CPodJobs, so a name
\* that the list did not show has none until the loop gets to it.
ApartInv ==
    faults = 0 =>
        /\ \A j \in buffer : life[j] = "none"
        /\ pc = "fetch" => \A j \in Jobs : seen[j] = "none" => life[j] = "none"
        /\ pc = "create" => \A j \in rest : life[j] = "none"

LEMMA NextApart ==
  ASSUME TypeOK, ApartInv, [Next]_vars
  PROVE  ApartInv'
  <1> SUFFICES ASSUME faults' = 0 PROVE ApartInv'
    BY DEF ApartInv
  <1>0. ~Fault
    BY DEF Fault, TypeOK
  <1>1. CASE List
    BY <1>1 DEF List, TypeOK, ApartInv
  <1>2. CASE Fetch
    BY <1>2 DEF Fetch, Missing, TypeOK, ApartInv
  <1>3. CASE CreatesDone \/ DeletesDone
    BY <1>3 DEF CreatesDone, DeletesDone, Return, ApartInv
  <1>4. ASSUME NEW j \in Jobs, RejectNext(j)
        PROVE  ApartInv'
    BY <1>4 DEF RejectNext, Noted, ApartInv
  <1>5. ASSUME NEW j \in Jobs, CreateNext(j)
        PROVE  ApartInv'
    <2>1. /\ pc = "create" /\ j \in rest /\ rest' = rest \ {j}
          /\ UNCHANGED <<pc, seen, faults>>
          /\ \/ life' = [life EXCEPT ![j] = "created"] /\ buffer' = buffer \ {j}
             \/ life' = life /\ buffer' = Noted(j)
      BY <1>0, <1>5 DEF CreateNext
    <2> QED BY <2>1 DEF Noted, TypeOK, ApartInv
  <1>6. ASSUME NEW j \in Jobs, DeleteNext(j)
        PROVE  ApartInv'
    <2>1. /\ pc = "delete" /\ UNCHANGED <<buffer, faults>>
          /\ life' = life \/ life' = [life EXCEPT ![j] = "none"]
          /\ pc' \in {"idle", "delete"}
      BY <1>0, <1>6 DEF DeleteNext, Return
    <2> QED BY <2>1 DEF TypeOK, ApartInv
  <1>7. ASSUME NEW j \in Jobs, Assign(j) \/ Withdraw(j)
        PROVE  ApartInv'
    BY <1>7 DEF Assign, Withdraw, round, ApartInv
  <1>8. ASSUME NEW j \in Jobs, Advances(j) \/ Removed(j)
        PROVE  ApartInv'
    <2>1. life[j] # "none"
      BY <1>8 DEF Advances, Removed, Cluster!Advance, Cluster!Remove, Cluster!Later
    <2>2. /\ UNCHANGED <<round, buffer, faults>>
          /\ \E s : life' = [life EXCEPT ![j] = s]
      BY <1>8 DEF Advances, Removed, Cluster!Advance, Cluster!Remove
    <2> QED BY <2>1, <2>2 DEF round, TypeOK, ApartInv
  <1>9. CASE UNCHANGED vars
    BY <1>9 DEF vars, ApartInv
  <1> QED
    BY <1>0, <1>1, <1>2, <1>3, <1>4, <1>5, <1>6, <1>7, <1>8, <1>9
       DEF Next, Round, Environment, Restart, ListFails, FetchFails

\* As long as no call has failed, no job is in createFailedJobs that has a
\* CPodJob: a round of Start, on a list and an answer that both age, never
\* meets a CPodJob with the source label where it creates one.
THEOREM FailedHasNoCPodJobAlways == Spec => []FailedHasNoCPodJob
  <1>1. Init => TypeOK /\ ApartInv
    BY FaultsAssumption DEF Init, TypeOK, NothingSeen, Stage, Cluster!Stage, ApartInv
  <1>2. ApartInv => FailedHasNoCPodJob
    BY DEF ApartInv, FailedHasNoCPodJob
  <1> QED BY <1>1, <1>2, NextTyped, NextApart, PTL DEF Spec

\* A CPodJob exists, or was seen, only for a job that the portal has assigned,
\* and SyncJob is about to delete only such as it has withdrawn.
THEOREM OriginAlways == Spec => []OriginInv
  <1>1. Init => TypeOK /\ OriginInv
    BY FaultsAssumption DEF Init, TypeOK, NothingSeen, Stage, Cluster!Stage, OriginInv, Known
  <1> QED BY <1>1, NextTyped, NextOrigin, PTL DEF Spec

----------------------------------------------------------------------------
\* What the loops still have to go through is from the two snapshots.
AnswerInv ==
    /\ pc = "create" => rest \subseteq wanted
    /\ pc = "delete" => rest \subseteq Unwanted

LEMMA NextAnswer ==
  ASSUME AnswerInv, [Next]_vars
  PROVE  AnswerInv'
  <1>1. CASE List \/ ListFails
    BY <1>1 DEF List, ListFails, round, AnswerInv, Unwanted
  <1>2. CASE Fetch
    BY <1>2 DEF Fetch, Missing, AnswerInv
  <1>3. CASE FetchFails \/ DeletesDone \/ Restart
    BY <1>3 DEF FetchFails, DeletesDone, Restart, Return, AnswerInv
  <1>4. CASE CreatesDone
    BY <1>4 DEF CreatesDone, Unwanted, AnswerInv
  <1>5. ASSUME NEW j \in Jobs, RejectNext(j) \/ CreateNext(j)
        PROVE  AnswerInv'
    BY <1>5 DEF RejectNext, CreateNext, AnswerInv
  <1>6. ASSUME NEW j \in Jobs, DeleteNext(j)
        PROVE  AnswerInv'
    <2>1. /\ pc = "delete"
          /\ Return \/ (rest' = rest \ {j} /\ UNCHANGED <<pc, seen, wanted>>)
      BY <1>6 DEF DeleteNext
    <2> QED BY <2>1 DEF Return, Unwanted, AnswerInv
  <1>7. CASE Environment \/ UNCHANGED vars
    <2>1. UNCHANGED round
      BY <1>7 DEF Environment, Assign, Withdraw, Advances, Removed, vars, round
    <2> QED BY <2>1 DEF round, Unwanted, AnswerInv
  <1> QED BY <1>1, <1>2, <1>3, <1>4, <1>5, <1>6, <1>7 DEF Next, Round

\* SyncJob changes the cluster as the portal's last answer says.
AsAnswered ==
    \A j \in Jobs :
        /\ CreateNext(j) /\ life'[j] # life[j] => j \in wanted
        /\ DeleteNext(j) /\ life'[j] # life[j] =>
              j \notin wanted /\ seen[j] # "none" /\ ShownAs[seen[j]] \notin NoMoreChange

\* A round creates only what the portal named in this round, and deletes only
\* what it did not name and the list showed as unfinished: a job that has been
\* withdrawn and assigned again before the portal was asked is safe, too.
THEOREM AsAnsweredAlways == Spec => [][AsAnswered]_vars
  <1>1. Init => AnswerInv
    BY DEF Init, AnswerInv
  <1>2. AnswerInv /\ [Next]_vars => [AsAnswered]_vars
    BY DEF AnswerInv, AsAnswered, CreateNext, DeleteNext, Unwanted
  <1> QED BY <1>1, <1>2, NextAnswer, PTL DEF Spec

----------------------------------------------------------------------------
LEMMA RoundFollows == ASSUME Round PROVE [Cluster!Next]_life
  <1>1. CASE List \/ ListFails \/ Fetch \/ FetchFails \/ CreatesDone \/ DeletesDone
    BY <1>1 DEF List, ListFails, Fetch, FetchFails, CreatesDone, DeletesDone
  <1>2. ASSUME NEW j \in Jobs, RejectNext(j)
        PROVE  UNCHANGED life
    BY <1>2 DEF RejectNext
  <1>3. ASSUME NEW j \in Jobs, CreateNext(j)
        PROVE  Cluster!Submit(j) \/ UNCHANGED life
    BY <1>3 DEF CreateNext, Cluster!Submit
  <1>4. ASSUME NEW j \in Jobs, DeleteNext(j)
        PROVE  Cluster!Remove(j) \/ UNCHANGED life
    BY <1>4 DEF DeleteNext, Cluster!Remove
  <1> QED BY <1>1, <1>2, <1>3, <1>4 DEF Round, Cluster!Next

\* SyncJob creates a CPodJob where there is none and deletes one that is there,
\* as JobLifecycle has users do, so that what the controller promises of a
\* CPodJob is promised of one that SyncJob handles.
THEOREM LifecycleFollowed == Spec => Cluster!Spec
  <1>1. Init => Cluster!Init
    BY DEF Init, NothingSeen, Cluster!Init
  <1>2. [Next]_vars => [Cluster!Next]_life
    <2>1. CASE Environment
      BY <2>1 DEF Environment, Assign, Withdraw, Advances, Removed, Cluster!Next
    <2>2. CASE Restart \/ UNCHANGED vars
      BY <2>2 DEF Restart, vars
    <2> QED BY <2>1, <2>2, RoundFollows DEF Next
  <1> QED BY <1>1, <1>2, PTL DEF Spec, Cluster!Spec
=============================================================================
