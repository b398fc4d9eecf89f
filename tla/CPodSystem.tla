----------------------------- MODULE CPodSystem -----------------------------
(***************************************************************************)
(* The synchronizer as a whole (internal/synchronizer/manager.go and       *)
(* cmd/portalsynch/main.go): one process in which SyncJob, the observer    *)
(* and the uploader run in goroutines of their own, over the same CPodJobs *)
(* and the same createFailedJobs, with the portal at both ends.            *)
(*                                                                         *)
(* SyncJob and Heartbeat are composed as they are.  What Heartbeat only    *)
(* assumes of the creation and removal of CPodJobs is done here by         *)
(* SyncJob's rounds, by users and by the portal.  Jobs with a Duration are *)
(* left to Heartbeat: nothing but what the observer reports depends on it. *)
(***************************************************************************)
EXTENDS Integers

CONSTANTS
    Jobs,       \* names of jobs
    Reach,      \* bound: the stages a CPodJob gets to
    Removable,  \* bound: the CPodJobs that users may remove, once each
    MaxFaults       \* bound: failed calls, lost answers and restarts

ASSUME FaultsAssumption == MaxFaults \in Nat

VARIABLES
    kind, portal, withdrawn, life, pc, seen, wanted, rest, buffer,    \* see SyncJob
    limited, old, gone, at, draft, ch, up, cached, astray, view,      \* see Heartbeat
    faults

Sync == INSTANCE SyncJob
Beat == INSTANCE Heartbeat WITH Removable <- Jobs, Again <- TRUE

syncOnly == <<kind, portal, withdrawn, pc, seen, wanted, rest>>
beatOnly == <<limited, old, gone, at, draft, ch, up, cached, astray, view>>
vars == <<syncOnly, beatOnly, life, buffer, faults>>

Init == Sync!Init /\ Beat!Init /\ limited = {}

----------------------------------------------------------------------------
(* The portal, the operator, users and the network.                        *)

PortalChanges(j) == (Sync!Assign(j) \/ Sync!Withdraw(j)) /\ UNCHANGED beatOnly

OperatorAdvances(j) == Sync!Advances(j) /\ life'[j] \in Reach /\ UNCHANGED beatOnly

\* The CPodJob is no more.
Forgets(j) ==
    /\ gone' = gone \cup {j}
    /\ UNCHANGED <<limited, old, at, draft, ch, up, cached, astray, view>>

UserRemoves(j) == j \in Removable \ gone /\ Sync!Removed(j) /\ Forgets(j)

ArrivesLate == (\E p \in astray : Beat!ArrivesLate(p)) /\ UNCHANGED syncOnly

----------------------------------------------------------------------------
(* The goroutines, and their process.                                      *)

SyncDeletes(j) ==
    /\ Sync!DeleteNext(j)
    /\ IF life' # life THEN Forgets(j) ELSE UNCHANGED beatOnly

SyncRound ==
    \/ /\ \/ Sync!List \/ Sync!ListFails \/ Sync!Fetch \/ Sync!FetchFails
          \/ Sync!CreatesDone \/ Sync!DeletesDone
          \/ \E j \in Jobs : Sync!RejectNext(j) \/ Sync!CreateNext(j)
       /\ UNCHANGED beatOnly
    \/ \E j \in Jobs : SyncDeletes(j)

Observe == Beat!Observe /\ UNCHANGED syncOnly
Upload == Beat!Upload /\ UNCHANGED syncOnly

\* One process: all three start anew.
Restart == Sync!Restart /\ Beat!Restart

----------------------------------------------------------------------------
Environment ==
    \/ \E j \in Jobs : PortalChanges(j) \/ OperatorAdvances(j) \/ UserRemoves(j)
    \/ ArrivesLate

Next == SyncRound \/ Observe \/ Upload \/ Environment \/ Restart

Spec == Init /\ [][Next]_vars

\* Each goroutine goes on, the observer only when its send does not block.
FairSpec == Spec /\ WF_vars(SyncRound) /\ WF_vars(Observe) /\ WF_vars(Upload)

----------------------------------------------------------------------------
\* What SyncJob, the portal and users do to CPodJobs and createFailedJobs is
\* no more than what Heartbeat assumes of them, so that its properties hold
\* of the whole.
ImplementsHeartbeat == Beat!Spec

\* The observer reads the CPodJobs and createFailedJobs one after the other,
\* while SyncJob moves jobs from one to the other.  A payload shows a job in
\* both only if SyncJob itself still has it in both, its create having been
\* done with the answer lost, unless the CPodJob was removed in between (or the
\* process restarted after that, which takes a second fault).
BothOnlyIfLost ==
    faults < 2 =>
        \A p \in {draft, view} \cup ch \cup cached : \A j \in Jobs \ gone :
            p.states[j] # "none" /\ j \in p.failed => j \in buffer

\* A job that stays assigned is heard of at the portal: as a CPodJob in some
\* state, or as one that could not be created.
AssignedHeard ==
    \A j \in Jobs :
        j \in portal ~> j \notin portal \/ view.states[j] # "none" \/ j \in view.failed

\* A job that is withdrawn for good while it waits or runs is removed and
\* drops out of what the portal sees, unless it finishes first.
Unfinished(j) == life[j] \in {"created", "running"}
WithdrawnForgotten ==
    \A j \in Jobs :
        j \notin portal /\ Unfinished(j) ~>
            \/ j \in portal
            \/ life[j] = "none" /\ view.states[j] = "none"
            \/ life[j] # "none" /\ ~Unfinished(j)
=============================================================================
