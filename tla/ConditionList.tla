--------------------------- MODULE ConditionList ---------------------------
(***************************************************************************)
(* status.conditions as the code keeps it: a slice of entries, rewritten   *)
(* by pkg/util/status.go on every UpdateJobConditions call.  The module    *)
(* shows that the slice behaves like the function of JobConditions, which  *)
(* is what the other modules use.                                          *)
(***************************************************************************)
EXTENDS JobConditions, Sequences

CONSTANTS
    Texts,      \* the (reason, message) pairs a caller may pass
    MaxCalls    \* bound: calls considered, and the last instant of the clock

ASSUME TextsAssumption == Texts # {}
ASSUME MaxCallsAssumption == MaxCalls \in Nat

VARIABLES
    conditions, \* the slice: entries [type, status, text, since]
    clock       \* metav1.Now(), one tick per call

vars == <<conditions, clock>>

Entry == [type: CondType, status: CondStatus, text: Texts, since: 0..MaxCalls]

\* The (type, status) pairs the operator passes to UpdateJobConditions.
Calls == [type: CondType, status: {"True"}] \cup {[type |-> "ModelUploaded", status |-> "False"]}

----------------------------------------------------------------------------
\* The loops that read the slice stop at the first entry of a type.
Has(list, t) == \E i \in DOMAIN list : list[i].type = t
First(list, t) ==
    list[CHOOSE i \in DOMAIN list : list[i].type = t /\ \A k \in 1..(i - 1) : list[k].type # t]

\* The map that a reader of the slice sees.
AsConds(list) == [t \in CondType |-> IF Has(list, t) THEN First(list, t).status ELSE "absent"]

\* Mutant: the entry being set stays in the list.
KeptAll(e, t) == ~(t = "ModelUploaded" /\ e.type = "ModelUploading")

Kept(e, t) == e.type # t /\ ~(t = "ModelUploaded" /\ e.type = "ModelUploading")

\* Mutant: the running condition survives the verdict.
AfterVerdictSame(e, t) == e

\* Mutant: the running condition becomes unknown.
AfterVerdictUnknown(e, t) ==
    IF t \in {"Failed", "Succeeded"} /\ e.type = "Running" THEN [e EXCEPT !.status = "Unknown"] ELSE e

AfterVerdict(e, t) ==
    IF t \in {"Failed", "Succeeded"} /\ e.type = "Running" THEN [e EXCEPT !.status = "False"] ELSE e

\* newConditions after each round of the loop of filterOutCondition.
Rounds(list, t) ==
    LET kept[n \in 0..Len(list)] ==
          IF n = 0 THEN <<>>
          ELSE IF Kept(list[n], t) THEN Append(kept[n - 1], AfterVerdict(list[n], t))
          ELSE kept[n - 1]
    IN  kept

FilterOutCondition(list, t) == Rounds(list, t)[Len(list)]

\* Mutant: every write of an entry takes the current time.
SinceNow(list, new) == new.since

\* An entry that keeps its status keeps its transition time.
Since(list, new) ==
    IF Has(list, new.type) /\ First(list, new.type).status = new.status
    THEN First(list, new.type).since ELSE new.since

Written(list, new) ==
    Append(FilterOutCondition(list, new.type), [new EXCEPT !.since = Since(list, new)])

\* setCondition: nothing is written to a failed job, nor what is there already.
SetEntry(list, new) ==
    IF \/ IsFailed(AsConds(list))
       \/ /\ Has(list, new.type)
          /\ First(list, new.type).status = new.status
          /\ First(list, new.type).text = new.text
    THEN list
    ELSE Written(list, new)

----------------------------------------------------------------------------
Init == conditions = <<>> /\ clock = 0

UpdateJobConditions(call, text) ==
    /\ clock < MaxCalls
    /\ clock' = clock + 1
    /\ conditions' = SetEntry(conditions,
            [type |-> call.type, status |-> call.status, text |-> text, since |-> clock'])

Next == \E call \in Calls, text \in Texts : UpdateJobConditions(call, text)

Spec == Init /\ [][Next]_vars

----------------------------------------------------------------------------
TypeOK == conditions \in Seq(Entry) /\ clock \in 0..MaxCalls

\* The slice never holds two entries of one type, which the API declares
\* (listType=map, listMapKey=type in cpodjob_types.go).
UniqueTypes ==
    \A i, k \in DOMAIN conditions : conditions[i].type = conditions[k].type => i = k

\* Every call changes the slice exactly as it changes the function of
\* JobConditions: by SetCondition, or by Overwrite when only the text is new.
ActsAsMap ==
    [][\A call \in Calls, text \in Texts :
         UpdateJobConditions(call, text) =>
           \/ AsConds(conditions)' = SetCondition(AsConds(conditions), call.type, call.status)
           \/ /\ ~IsFailed(AsConds(conditions))
              /\ AsConds(conditions)' = Overwrite(AsConds(conditions), call.type, call.status)]_vars

\* The transition time of an entry moves only with its status ("Do not
\* update lastTransitionTime if the status of the condition doesn't change"),
\* and always with it but for Running: a verdict turns that False and leaves
\* the time at which it became True (filterOutCondition).
TimeOfTransition(t, old, new) ==
    IF new.status = old.status THEN new.since = old.since
    ELSE \/ new.since = clock'
         \/ t = "Running" /\ new.status = "False" /\ new.since = old.since

TimeNeedsTransition ==
    [][\A t \in CondType :
         Has(conditions, t) /\ Has(conditions', t)
             => TimeOfTransition(t, First(conditions, t), First(conditions', t))]_vars
============================================================================
