--------------------------- MODULE JobConditions ---------------------------
(***************************************************************************)
(* The conditions of a CPodJob as a function from condition type to value, *)
(* and the operations of pkg/util/status.go on it.  The code keeps a slice *)
(* with an entry per type; ConditionList models that slice and is proved   *)
(* to implement this function.  An entry is "absent", "True" or "False";   *)
(* reasons and messages are left to ConditionList.                         *)
(***************************************************************************)

EXTENDS Integers

CondType == {"Created", "Running", "Succeeded",
             "ModelUploading", "ModelUploaded", "Failed"}

CondStatus == {"True", "False"}

Conds == [CondType -> CondStatus \cup {"absent"}]

\* The status of a CPodJob nobody has touched yet.
NoConds == [t \in CondType |-> "absent"]

----------------------------------------------------------------------------
IsTrue(c, t) == c[t] = "True"
IsSucceeded(c) == IsTrue(c, "Succeeded")
IsFailed(c) == IsTrue(c, "Failed")
IsFinished(c) == IsSucceeded(c) \/ IsFailed(c)

\* Mutant: a conclusion of the upload leaves ModelUploading.
DisplacedOnlySame(k, t) == k = t

\* Entry k goes when entry t is set: the one of the same type, and
\* ModelUploading once the upload is concluded.
Displaced(k, t) == k = t \/ (t = "ModelUploaded" /\ k = "ModelUploading")

\* Mutant: a verdict leaves the Running entry as it is.
SettledSame(s) == s

\* Mutant: a verdict turns the Running entry to Unknown.
SettledUnknown(s) == IF s = "absent" THEN s ELSE "Unknown"

\* The Running entry after a verdict.
Settled(s) == IF s = "absent" THEN s ELSE "False"

\* filterOutCondition, for an entry of type t about to be set.
FilterOut(c, t) ==
    [k \in CondType |->
        IF Displaced(k, t) THEN "absent"
        ELSE IF k = "Running" /\ t \in {"Failed", "Succeeded"} THEN Settled(c[k])
        ELSE c[k]]

\* The slice after setCondition has decided to write entry t.
Overwrite(c, t, s) == [FilterOut(c, t) EXCEPT ![t] = s]

\* setCondition: nothing is written to a failed job, and an entry that does
\* not change is not rewritten.
SetCondition(c, t, s) == IF IsFailed(c) \/ c[t] = s THEN c ELSE Overwrite(c, t, s)

----------------------------------------------------------------------------
(***************************************************************************)
(* The conditions a reader never has to reconcile with each other: one     *)
(* verdict, no finished job that still runs, no upload without a success,  *)
(* no upload that is both under way and concluded.                         *)
(***************************************************************************)
CoherentConds(c) ==
    /\ ~(IsSucceeded(c) /\ IsFailed(c))
    /\ IsFinished(c) => ~IsTrue(c, "Running")
    /\ (c["ModelUploading"] # "absent" \/ c["ModelUploaded"] # "absent") => IsSucceeded(c)
    /\ c["ModelUploading"] = "absent" \/ c["ModelUploaded"] = "absent"

\* What CoherentConds needs to be preserved: entries other than Running and
\* ModelUploaded are only ever written with status True.
OnlyTrue(c) ==
    \A t \in CondType \ {"Running", "ModelUploaded"} : c[t] # "False"

----------------------------------------------------------------------------
\* parseStatus: the first true condition in the order of checkOrder.
ParseStatus(c) ==
    IF IsTrue(c, "ModelUploaded") THEN "ModelUploaded"
    ELSE IF IsTrue(c, "ModelUploading") THEN "ModelUploading"
    ELSE IF IsFailed(c) THEN "Failed"
    ELSE IF IsSucceeded(c) THEN "Succeeded"
    ELSE IF IsTrue(c, "Running") THEN "Running"
    ELSE "Created"

\* The stage that a set of conditions shows.
StageOf(c) ==
    IF IsFailed(c) THEN "failed"
    ELSE IF IsTrue(c, "ModelUploaded") THEN "uploaded"
    ELSE IF c["ModelUploaded"] = "False" THEN "uploadFailed"
    ELSE IF IsTrue(c, "ModelUploading") THEN "uploading"
    ELSE IF IsSucceeded(c) THEN "succeeded"
    ELSE IF IsTrue(c, "Running") THEN "running"
    ELSE "created"

\* What parseStatus shows of a job at a stage: an upload that was given up
\* leaves ModelUploaded at False, and the job shows as Succeeded.  Theorem
\* ParsedAsShown is that it does, for conditions the controller writes.
ShownAs ==
    [created |-> "Created", running |-> "Running", failed |-> "Failed", succeeded |-> "Succeeded",
     uploading |-> "ModelUploading", uploaded |-> "ModelUploaded", uploadFailed |-> "Succeeded"]
============================================================================
