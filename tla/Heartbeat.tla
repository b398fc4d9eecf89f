----------------------------- MODULE Heartbeat -----------------------------
(***************************************************************************)
(* What the portal learns of the jobs: the CPodObserver puts a payload     *)
(* together every period (internal/synchronizer/cpodobserver.go), a        *)
(* channel of capacity 1 takes it to the Uploader (uploader.go), and that  *)
(* posts the newest payload it has, or the last one again, to the portal.  *)
(* Both run in goroutines of their own (manager.go).                       *)
(*                                                                         *)
(* The CPodJobs follow JobLifecycle, and createFailedJobs changes with the *)
(* creates of SyncJob; that the real SyncJob does nothing else is checked  *)
(* and proved in CPodSystem.  Nodes, GPUs and the lists of models and      *)
(* datasets are left out of the payload.                                   *)
(***************************************************************************)
EXTENDS JobConditions

CONSTANTS
    Jobs,       \* names of jobs
    Reach,      \* bound: the stages a CPodJob gets to
    Removable,  \* bound: the names whose CPodJob may be removed
    Again,      \* bound: whether it may be removed more than once
    MaxFaults   \* bound: failed calls, lost answers and restarts

ASSUME RemovableAssumption == Removable \subseteq Jobs /\ Again \in BOOLEAN
ASSUME FaultsAssumption == MaxFaults \in Nat

Statuses == {"none", "Created", "Running", "Succeeded", "ModelUploading", "ModelUploaded", "Failed"}

\* js, split in the jobs that have a CPodJob and those that could not get one.
Payload == [states: [Jobs -> Statuses], failed: SUBSET Jobs]
Nothing == [states |-> [j \in Jobs |-> "none"], failed |-> {}]

\* A place that holds a payload or none: a set of at most one.
NoPayload == {}
Holds(place) == place = NoPayload \/ \E p \in place : place = {p} /\ p \in Payload

VARIABLES
    limited,    \* the jobs with a Duration
    life,       \* the CPodJobs
    old,        \* the CPodJobs older than their Duration, which may be 0
    gone,       \* the CPodJobs removed so far
    buffer,     \* createFailedJobs
    at, draft,  \* the observer: where it is, the payload it puts together
    ch,         \* the channel
    up, cached, \* the uploader: where it is, cachedPayload
    astray,     \* posts that were given up and may still arrive
    view,       \* the portal: the last payload to arrive
    faults      \* faults so far

jobs == <<limited, life, old, gone, buffer>>
observer == <<at, draft>>
uploader == <<up, cached>>
vars == <<limited, life, old, gone, buffer, at, draft, ch, up, cached, astray, view, faults>>

Cluster == INSTANCE JobLifecycle
Stage == Cluster!Stage

Init ==
    /\ limited \in SUBSET Jobs
    /\ life = [j \in Jobs |-> "none"] /\ old = {} /\ gone = {}
    /\ buffer = {}
    /\ at = "idle" /\ draft = Nothing
    /\ ch = NoPayload
    /\ up = "idle" /\ cached = NoPayload
    /\ astray = {} /\ view = Nothing
    /\ faults = 0

Fault == faults < MaxFaults /\ faults' = faults + 1

----------------------------------------------------------------------------
(* The jobs.                                                               *)

\* SyncJob creates the CPodJob and forgets that it could not, or notes that
\* it could not although it did, when the answer is lost.
JobCreated(j) ==
    /\ Cluster!Submit(j)
    /\ \/ buffer' = buffer \ {j} /\ UNCHANGED faults
       \/ buffer' = buffer \cup {j} /\ Fault
    /\ UNCHANGED <<limited, old, gone, observer, ch, uploader, astray, view>>

JobAdvances(j) ==
    /\ Cluster!Advance(j) /\ life'[j] \in Reach
    /\ UNCHANGED <<limited, old, gone, buffer, observer, ch, uploader, astray, view, faults>>

JobRemoved(j) ==
    /\ j \in Removable /\ (j \in gone => Again)
    /\ Cluster!Remove(j)
    /\ gone' = gone \cup {j} /\ old' = old \ {j}
    /\ UNCHANGED faults \/ Fault
    /\ UNCHANGED <<limited, buffer, observer, ch, uploader, astray, view>>

\* Its Duration, in minutes from its creation, has passed.
TimeUp(j) ==
    /\ life[j] # "none" /\ j \notin old
    /\ old' = old \cup {j}
    /\ UNCHANGED <<limited, life, gone, buffer, observer, ch, uploader, astray, view, faults>>

\* SyncJob could not create it.
CreateFailed(j) ==
    /\ life[j] = "none"
    /\ buffer' = buffer \cup {j}
    /\ UNCHANGED faults \/ Fault
    /\ UNCHANGED <<limited, life, old, gone, observer, ch, uploader, astray, view>>

\* Another call of SyncJob fails.
SyncJobFault ==
    /\ Fault
    /\ UNCHANGED <<jobs, observer, ch, uploader, astray, view>>

----------------------------------------------------------------------------
(* CPodObserver.                                                           *)

\* Mutant: no limit is taken for a limit of zero minutes.
OverdueAny(j) == j \in old

\* The job has a limit and has passed it.
Overdue(j) == j \in limited /\ j \in old

\* Mutant: the stage itself is reported.
StateStage(j) == life[j]

\* getJobStates, of one job.
State(j) ==
    IF life[j] = "none" THEN "none"
    ELSE IF ~Overdue(j) THEN ShownAs[life[j]]
    ELSE IF life[j] = "running" THEN "Succeeded" ELSE "Failed"

Listed(p) == [p EXCEPT !.states = [j \in Jobs |-> State(j)]]

\* Mutant: jobs that could not be created are left out.
WithFailedNone(p) == p

WithFailed(p) == [p EXCEPT !.failed = buffer]

\* Mutant: createFailedJobs is read before the CPodJobs are listed.
ExtendedSwapped == IF at = "idle" THEN WithFailed(Nothing) ELSE Listed(draft)

\* The payload after the next of the observer's two reads.
Extended == IF at = "idle" THEN Listed(Nothing) ELSE WithFailed(draft)

GetJobStates ==
    /\ at = "idle"
    /\ \/ draft' = Extended /\ at' = "states" /\ UNCHANGED faults
       \/ Fault /\ UNCHANGED observer
    /\ UNCHANGED <<jobs, ch, uploader, astray, view>>

\* The jobs that could not be created are added, then getResourceInfo is
\* called; when it fails the payload is dropped.
AddCreateFailed ==
    /\ at = "states"
    /\ \/ draft' = Extended /\ at' = "send" /\ UNCHANGED faults
       \/ Fault /\ draft' = Nothing /\ at' = "idle"
    /\ UNCHANGED <<jobs, ch, uploader, astray, view>>

\* The send blocks while the channel is full.
Send ==
    /\ at = "send" /\ ch = NoPayload
    /\ ch' = {draft}
    /\ draft' = Nothing /\ at' = "idle"
    /\ UNCHANGED <<jobs, uploader, astray, view, faults>>

----------------------------------------------------------------------------
(* Uploader.                                                               *)

\* Mutant: the channel is read only when there is nothing to post.
TakeOnce ==
    /\ up = "idle"
    /\ ch # NoPayload \/ cached # NoPayload
    /\ IF cached = NoPayload THEN cached' = ch /\ ch' = NoPayload ELSE UNCHANGED <<cached, ch>>
    /\ up' = "post"
    /\ UNCHANGED <<jobs, observer, astray, view, faults>>

\* What is in the channel replaces cachedPayload; with nothing to post the
\* round is over.
Take ==
    /\ up = "idle"
    /\ ch # NoPayload \/ cached # NoPayload
    /\ IF ch # NoPayload THEN cached' = ch /\ ch' = NoPayload ELSE UNCHANGED <<cached, ch>>
    /\ up' = "post"
    /\ UNCHANGED <<jobs, observer, astray, view, faults>>

\* HeartBeat: the post arrives; or it fails, having arrived, never to arrive,
\* or to arrive later (the client gives up after 5 seconds).
Post ==
    /\ up = "post" /\ up' = "idle"
    /\ \/ view' \in cached /\ UNCHANGED <<astray, faults>>
       \/ view' \in cached /\ Fault /\ UNCHANGED astray
       \/ Fault /\ UNCHANGED <<view, astray>>
       \/ astray' = astray \cup cached /\ Fault /\ UNCHANGED view
    /\ UNCHANGED <<jobs, observer, ch, cached>>

ArrivesLate(p) ==
    /\ view' = p /\ astray' = astray \ {p}
    /\ UNCHANGED <<jobs, observer, ch, uploader, faults>>

\* The process is killed and started again.
Restart ==
    /\ Fault
    /\ at' = "idle" /\ draft' = Nothing
    /\ ch' = NoPayload
    /\ up' = "idle" /\ cached' = NoPayload
    /\ buffer' = {}
    /\ UNCHANGED <<limited, life, old, gone, astray, view>>

----------------------------------------------------------------------------
Observe == GetJobStates \/ AddCreateFailed \/ Send
Upload == Take \/ Post
Environment ==
    \/ \E j \in Jobs : JobCreated(j) \/ JobAdvances(j) \/ JobRemoved(j) \/ TimeUp(j) \/ CreateFailed(j)
    \/ \E p \in astray : ArrivesLate(p)
    \/ SyncJobFault

Next == Observe \/ Upload \/ Environment \/ Restart

Spec == Init /\ [][Next]_vars

\* Each goroutine goes on, the observer only when its send does not block.
FairSpec == Spec /\ WF_vars(Observe) /\ WF_vars(Upload)

----------------------------------------------------------------------------
TypeOK ==
    /\ limited \subseteq Jobs /\ old \subseteq Jobs /\ gone \subseteq Jobs /\ buffer \subseteq Jobs
    /\ life \in [Jobs -> Stage]
    /\ at \in {"idle", "states", "send"} /\ draft \in Payload
    /\ up \in {"idle", "post"} /\ (up = "post" => cached # NoPayload)
    /\ Holds(ch) /\ Holds(cached)
    /\ astray \subseteq Payload /\ view \in Payload
    /\ faults \in 0..MaxFaults

\* The portal is never told more of a job than has come true, however late
\* and in whatever order payloads arrive: what it was told last is what the
\* job shows or has shown (for a job without a limit whose name has not been
\* removed, for then the portal may hear of its predecessor).
NeverAhead ==
    \A j \in Jobs \ (limited \cup gone) :
        view.states[j] # "none" =>
            \E s \in Stage \ {"none"} :
                ShownAs[s] = view.states[j] /\ life[j] \in {s} \cup Cluster!Later(s)

\* The end of a job without a limit reaches the portal, so the observer is
\* not blocked for good on a channel nobody empties either.
FinishReported ==
    \A j \in Jobs : \A s \in {"failed", "uploaded", "uploadFailed"} :
        life[j] = s /\ j \notin limited ~> view.states[j] = ShownAs[s] \/ life[j] # s

\* A job that could not be created is reported, unless SyncJob creates it
\* after all or forgets it in a restart.
CreateFailedReported ==
    \A j \in Jobs : j \in buffer ~> j \in view.failed \/ j \notin buffer
=============================================================================
