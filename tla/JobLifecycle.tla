---------------------------- MODULE JobLifecycle ----------------------------
(***************************************************************************)
(* What the operator promises the user of a CPodJob, as read from its      *)
(* status: a job that is submitted advances along the condition types of   *)
(* api/v1beta1/cpodjob_types.go, never goes back, and keeps its verdict    *)
(* and the outcome of its upload until it is removed.                      *)
(***************************************************************************)
EXTENDS JobConditions

CONSTANT Jobs    \* names of CPodJobs

VARIABLE life    \* what the user sees of each job

Stage == {"none", "created", "running", "succeeded",
          "uploading", "uploaded", "uploadFailed", "failed"}

\* The stages a job may be seen in after stage s.  A reader that looks now
\* and then may miss stages, so the relation is transitive.
Later(s) ==
    CASE s = "created"   -> {"running", "failed", "succeeded", "uploading", "uploaded", "uploadFailed"}
      [] s = "running"   -> {"failed", "succeeded", "uploading", "uploaded", "uploadFailed"}
      [] s = "succeeded" -> {"uploading", "uploaded", "uploadFailed"}
      [] s = "uploading" -> {"uploaded", "uploadFailed"}
      [] OTHER           -> {}

----------------------------------------------------------------------------
Init == life = [j \in Jobs |-> "none"]

Submit(j) == life[j] = "none" /\ life' = [life EXCEPT ![j] = "created"]

Advance(j) == \E s \in Later(life[j]) : life' = [life EXCEPT ![j] = s]

Remove(j) == life[j] # "none" /\ life' = [life EXCEPT ![j] = "none"]

Next == \E j \in Jobs : Submit(j) \/ Advance(j) \/ Remove(j)

Spec == Init /\ [][Next]_life
=============================================================================
