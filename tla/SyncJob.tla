------------------------------ MODULE SyncJob ------------------------------
(***************************************************************************)
(* The synchronizer's SyncJob (internal/synchronizer/syncjob.go), which    *)
(* every period makes the CPodJobs of the cluster follow the jobs that the *)
(* portal has assigned to it.  A round lists the CPodJobs, asks the portal *)
(* for its jobs, creates what is missing and deletes what is not wanted,   *)
(* one API call after the other, on two snapshots that age as it goes.     *)
(*                                                                         *)
(* What happens to a CPodJob in the meantime is what JobLifecycle allows,  *)
(* which the operator is shown to keep to (CPodJobController).             *)
(***************************************************************************)
EXTENDS JobConditions

CONSTANTS
    Jobs,       \* names of jobs
    MaxFaults   \* bound: failed calls, lost answers and restarts

ASSUME FaultsAssumption == MaxFaults \in Nat

\* valid: jobTypeCheck knows the type; invalid: it does not; taken: a CPodJob
\* without the source label has the name.
Kind == {"valid", "invalid", "taken"}

VARIABLES
    kind,       \* of each name
    portal,     \* the jobs the portal assigns to this cluster
    withdrawn,  \* the jobs it has withdrawn so far (bound: each is, once)
    life,       \* the CPodJobs with the source label
    pc,         \* where the round is
    seen,       \* cpodjobs: what the list of CPodJobs showed
    wanted,     \* portaljobs: what the portal answered
    rest,       \* the names the loop still has to go through
    buffer,     \* createFailedJobs
    faults      \* faults so far

round == <<pc, seen, wanted, rest>>
vars == <<kind, portal, withdrawn, life, pc, seen, wanted, rest, buffer, faults>>

Cluster == INSTANCE JobLifecycle
Stage == Cluster!Stage
NothingSeen == [j \in Jobs |-> "none"]

Init ==
    /\ kind \in [Jobs -> Kind]
    /\ portal = {} /\ withdrawn = {}
    /\ life = NothingSeen
    /\ pc = "idle" /\ seen = NothingSeen /\ wanted = {} /\ rest = {}
    /\ buffer = {}
    /\ faults = 0

----------------------------------------------------------------------------
(* The portal, the operator and the cluster's administrators.              *)

Assign(j) ==
    /\ j \notin portal
    /\ portal' = portal \cup {j}
    /\ UNCHANGED <<kind, withdrawn, life, round, buffer, faults>>

Withdraw(j) ==
    /\ j \in portal \ withdrawn
    /\ portal' = portal \ {j} /\ withdrawn' = withdrawn \cup {j}
    /\ UNCHANGED <<kind, life, round, buffer, faults>>

Advances(j) ==
    /\ Cluster!Advance(j)
    /\ UNCHANGED <<kind, portal, withdrawn, round, buffer, faults>>

Removed(j) ==
    /\ Cluster!Remove(j)
    /\ UNCHANGED <<kind, portal, withdrawn, round, buffer, faults>>

----------------------------------------------------------------------------
(* A round.                                                                *)

Fault == faults < MaxFaults /\ faults' = faults + 1

\* Start returns, or the process is killed; nothing of the round is kept.
Return == pc' = "idle" /\ seen' = NothingSeen /\ wanted' = {} /\ rest' = {}

List ==
    /\ pc = "idle"
    /\ seen' = life
    /\ pc' = "fetch"
    /\ UNCHANGED <<kind, portal, withdrawn, life, wanted, rest, buffer, faults>>

ListFails ==
    /\ pc = "idle" /\ Fault
    /\ UNCHANGED <<kind, portal, withdrawn, life, round, buffer>>

\* Mutant: the create loop goes through every job of the portal.
MissingAll == portal

\* The jobs of the portal that the list did not show.
Missing == {j \in portal : seen[j] = "none"}

\* Mutant: an answer that is an error is taken for an empty one.
FetchFailsEmpty ==
    /\ pc = "fetch" /\ Fault
    /\ wanted' = {} /\ rest' = {}
    /\ pc' = "create"
    /\ UNCHANGED <<kind, portal, withdrawn, life, seen, buffer>>

\* GetAssignedJobList fails, and the round ends.
FetchFails ==
    /\ pc = "fetch" /\ Fault
    /\ Return
    /\ UNCHANGED <<kind, portal, withdrawn, life, buffer>>

Fetch ==
    /\ pc = "fetch"
    /\ wanted' = portal
    /\ rest' = Missing
    /\ pc' = "create"
    /\ UNCHANGED <<kind, portal, withdrawn, life, seen, buffer, faults>>

\* Mutant: a job that could not be created is noted under its type.
NotedByKind(j) == buffer \cup {kind[j]}

\* Mutant: a job that could not be created is not noted.
NotedNot(j) == buffer

\* addCreateFailedJob
Noted(j) == buffer \cup {j}

\* jobTypeCheck does not know the type: the job is noted as failed, and the
\* loop goes on.
RejectNext(j) ==
    /\ pc = "create" /\ j \in rest /\ kind[j] = "invalid"
    /\ buffer' = Noted(j)
    /\ rest' = rest \ {j}
    /\ UNCHANGED <<kind, portal, withdrawn, life, pc, seen, wanted, faults>>

CreateNext(j) ==
    /\ pc = "create" /\ j \in rest /\ kind[j] # "invalid"
    /\ rest' = rest \ {j}
    /\ \/ /\ kind[j] = "valid" /\ life[j] = "none"
          /\ life' = [life EXCEPT ![j] = "created"]
          /\ buffer' = buffer \ {j}
          /\ UNCHANGED faults
       \/ /\ kind[j] = "valid" /\ life[j] = "none"    \* done, the answer is lost
          /\ life' = [life EXCEPT ![j] = "created"]
          /\ buffer' = Noted(j)
          /\ Fault
       \/ /\ kind[j] = "taken" \/ life[j] # "none"    \* AlreadyExists
          /\ buffer' = Noted(j)
          /\ UNCHANGED <<life, faults>>
       \/ /\ buffer' = Noted(j)                        \* refused
          /\ Fault
          /\ UNCHANGED life
    /\ UNCHANGED <<kind, portal, withdrawn, pc, seen, wanted>>

\* A status that changes no more.
NoMoreChange == {"Failed", "ModelUploaded", "Succeeded", "ModelUploading"}

\* Mutant: a job that runs is let be.
UnwantedNotRunning ==
    {j \in Jobs \ wanted : seen[j] # "none" /\ ShownAs[seen[j]] \notin NoMoreChange \cup {"Running"}}

\* The jobs the list showed as unfinished that the portal did not name.
Unwanted == {j \in Jobs \ wanted : seen[j] # "none" /\ ShownAs[seen[j]] \notin NoMoreChange}

CreatesDone ==
    /\ pc = "create" /\ rest = {}
    /\ pc' = "delete" /\ rest' = Unwanted
    /\ UNCHANGED <<kind, portal, withdrawn, life, seen, wanted, buffer, faults>>

\* A Delete that fails, on a job that is gone for one, ends the round.
DeleteNext(j) ==
    /\ pc = "delete" /\ j \in rest
    /\ \/ /\ life[j] # "none"
          /\ life' = [life EXCEPT ![j] = "none"]
          /\ rest' = rest \ {j}
          /\ UNCHANGED <<pc, seen, wanted, faults>>
       \/ /\ life[j] # "none"                          \* done, the answer is lost
          /\ life' = [life EXCEPT ![j] = "none"]
          /\ Return /\ Fault
       \/ /\ life[j] = "none"                          \* NotFound
          /\ Return
          /\ UNCHANGED <<life, faults>>
       \/ /\ Return /\ Fault                           \* refused
          /\ UNCHANGED life
    /\ UNCHANGED <<kind, portal, withdrawn, buffer>>

DeletesDone ==
    /\ pc = "delete" /\ rest = {}
    /\ Return
    /\ UNCHANGED <<kind, portal, withdrawn, life, buffer, faults>>

\* The process is killed and started again; createFailedJobs is in memory.
Restart ==
    /\ Fault
    /\ Return
    /\ buffer' = {}
    /\ UNCHANGED <<kind, portal, withdrawn, life>>

----------------------------------------------------------------------------
Round ==
    \/ List \/ ListFails \/ Fetch \/ FetchFails \/ CreatesDone \/ DeletesDone
    \/ \E j \in Jobs : RejectNext(j) \/ CreateNext(j) \/ DeleteNext(j)

Environment == \E j \in Jobs : Assign(j) \/ Withdraw(j) \/ Advances(j) \/ Removed(j)

Next == Round \/ Environment \/ Restart

Spec == Init /\ [][Next]_vars

\* The manager starts a round every period and a round goes on to its end.
\* Nothing is assumed of the portal, the operator, users or faults.
FairSpec == Spec /\ WF_vars(Round)

----------------------------------------------------------------------------
TypeOK ==
    /\ kind \in [Jobs -> Kind]
    /\ portal \subseteq Jobs /\ withdrawn \subseteq Jobs
    /\ life \in [Jobs -> Stage] /\ seen \in [Jobs -> Stage]
    /\ pc \in {"idle", "fetch", "create", "delete"}
    /\ wanted \subseteq Jobs /\ rest \subseteq Jobs
    /\ buffer \subseteq Jobs
    /\ faults \in 0..MaxFaults

\* Whatever fails, whatever is stale, a round never deletes the CPodJob of a
\* job that the portal has assigned and never withdrawn.
KeepsAssigned ==
    [][\A j \in Jobs \ withdrawn : DeleteNext(j) => life'[j] = life[j]]_vars

\* As long as no call has failed, no job is reported as "createfailed" that
\* has a CPodJob, although the two are kept apart in memory and in the cluster.
FailedHasNoCPodJob == faults = 0 => \A j \in buffer : life[j] = "none"

\* A job that stays assigned gets a CPodJob or is reported as failed.
AssignedHandled ==
    \A j \in Jobs : j \in portal ~> j \notin portal \/ life[j] # "none" \/ j \in buffer

\* The CPodJob of a job that is withdrawn for good while it waits or runs is
\* removed, unless it finishes first.
Unfinished(j) == life[j] \in {"created", "running"}
WithdrawnRemoved ==
    \A j \in Jobs : j \notin portal /\ Unfinished(j) ~> j \in portal \/ ~Unfinished(j)

----------------------------------------------------------------------------
(* What the repository's comments say and the code does not do.            *)

\* "if the job was created successfully, remove it from the failed list"
CreatedIsNotFailed ==
    \A j \in Jobs : j \in buffer /\ life[j] # "none" ~> j \notin buffer \/ life[j] = "none"
=============================================================================
