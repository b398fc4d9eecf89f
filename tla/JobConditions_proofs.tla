------------------------ MODULE JobConditions_proofs ------------------------
(***************************************************************************)
(* Lemmas about the operations of pkg/util/status.go: what a call of       *)
(* UpdateJobConditions writes, and when it keeps the conditions coherent.  *)
(***************************************************************************)
EXTENDS JobConditions, TLAPS

\* Coherent, and written only with the statuses the operator uses.
GoodConds(c) == c \in Conds /\ CoherentConds(c) /\ OnlyTrue(c)

\* A fresh CPodJob is coherent.
LEMMA NoCondsGood == GoodConds(NoConds) /\ NoConds \in Conds
  BY DEF GoodConds, NoConds, Conds, CondType, CondStatus, CoherentConds, OnlyTrue,
         IsSucceeded, IsFailed, IsFinished, IsTrue

\* setCondition returns conditions.
LEMMA SetConditionType ==
  ASSUME NEW c \in Conds, NEW t \in CondType, NEW s \in CondStatus
  PROVE  SetCondition(c, t, s) \in Conds
  BY DEF SetCondition, Overwrite, FilterOut, Displaced, Settled, Conds, CondStatus

\* What setCondition leaves in each entry of a job that has not failed.
LEMMA SetConditionAt ==
  ASSUME NEW c \in Conds, NEW t \in CondType, NEW s \in CondStatus, ~IsFailed(c), c[t] # s
  PROVE  /\ SetCondition(c, t, s)[t] = s
         /\ \A k \in CondType \ {t} :
              SetCondition(c, t, s)[k] =
                IF t = "ModelUploaded" /\ k = "ModelUploading" THEN "absent"
                ELSE IF k = "Running" /\ t \in {"Failed", "Succeeded"} /\ c[k] # "absent" THEN "False"
                ELSE c[k]
  BY DEF SetCondition, Overwrite, FilterOut, Displaced, Settled, Conds

\* The Created condition of onOwnerCreateFunc changes no other entry.
LEMMA CreatedOnly ==
  ASSUME NEW c \in Conds
  PROVE  \A t \in CondType \ {"Created"} : SetCondition(c, "Created", "True")[t] = c[t]
  <1>1. CASE IsFailed(c) \/ c["Created"] = "True"
    BY <1>1 DEF SetCondition
  <1>2. CASE ~IsFailed(c) /\ c["Created"] # "True"
    BY <1>2, SetConditionAt DEF CondType, CondStatus
  <1> QED BY <1>1, <1>2

\* It keeps the conditions coherent.
LEMMA CreatedGood ==
  ASSUME NEW c, GoodConds(c)
  PROVE  GoodConds(SetCondition(c, "Created", "True"))
  <1> DEFINE d == SetCondition(c, "Created", "True")
  <1>1. c \in Conds BY DEF GoodConds
  <1>2. d \in Conds BY <1>1, SetConditionType DEF CondType, CondStatus
  <1>3. \A t \in CondType \ {"Created"} : d[t] = c[t] BY <1>1, CreatedOnly
  <1>4. d["Created"] \in {"True", c["Created"]}
    <2>1. CASE IsFailed(c) \/ c["Created"] = "True"
      BY <2>1 DEF SetCondition
    <2>2. CASE ~IsFailed(c) /\ c["Created"] # "True"
      BY <2>2, <1>1, SetConditionAt DEF CondType, CondStatus
    <2> QED BY <2>1, <2>2
  <1> HIDE DEF d
  <1>5. GoodConds(d)
    BY <1>2, <1>3, <1>4 DEF GoodConds, CoherentConds, OnlyTrue, CondType, IsFinished,
       IsSucceeded, IsFailed, IsTrue
  <1> QED BY <1>5 DEF d

\* A running base job, or a verdict, may be noted in a job without a verdict.
LEMMA VerdictGood ==
  ASSUME NEW c, GoodConds(c), ~IsFinished(c), NEW t \in {"Running", "Succeeded", "Failed"}
  PROVE  /\ GoodConds(SetCondition(c, t, "True"))
         /\ t = "Succeeded" => /\ IsSucceeded(SetCondition(c, t, "True"))
                               /\ SetCondition(c, t, "True")["ModelUploaded"] = "absent"
  <1> DEFINE d == SetCondition(c, t, "True")
  <1>1. c \in Conds BY DEF GoodConds
  <1>2. d \in Conds BY <1>1, SetConditionType DEF CondType, CondStatus
  <1>3. CASE c[t] = "True"
    BY <1>3 DEF SetCondition, IsFinished, IsSucceeded, IsFailed, IsTrue
  <1>4. CASE c[t] # "True"
    <2>1. ~IsFailed(c) BY DEF IsFinished
    <2>2. d[t] = "True" /\ \A k \in CondType \ {t} :
              d[k] = IF k = "Running" /\ t \in {"Failed", "Succeeded"} /\ c[k] # "absent" THEN "False"
                     ELSE c[k]
      BY <1>1, <1>4, <2>1, SetConditionAt DEF CondType, CondStatus
    <2> HIDE DEF d
    <2>3. GoodConds(d)
      BY <1>2, <2>2 DEF GoodConds, CoherentConds, OnlyTrue, CondType, IsFinished,
         IsSucceeded, IsFailed, IsTrue
    <2>4. t = "Succeeded" => IsSucceeded(d) /\ d["ModelUploaded"] = "absent"
      BY <2>2 DEF GoodConds, CoherentConds, CondType, IsFinished, IsSucceeded, IsFailed, IsTrue
    <2> QED BY <2>3, <2>4 DEF d
  <1> QED BY <1>3, <1>4

\* The upload may be noted in a job that succeeded and whose upload has not
\* concluded.
LEMMA UploadGood ==
  ASSUME NEW c, GoodConds(c), IsSucceeded(c), c["ModelUploaded"] = "absent"
  PROVE  /\ GoodConds(SetCondition(c, "ModelUploading", "True"))
         /\ \A s \in CondStatus :
              /\ GoodConds(SetCondition(c, "ModelUploaded", s))
              /\ SetCondition(c, "ModelUploaded", s)["ModelUploaded"] = s
  <1>1. c \in Conds /\ ~IsFailed(c) BY DEF GoodConds, CoherentConds
  <1>2. GoodConds(SetCondition(c, "ModelUploading", "True"))
    <2> DEFINE d == SetCondition(c, "ModelUploading", "True")
    <2>1. CASE c["ModelUploading"] = "True"
      BY <2>1 DEF SetCondition
    <2>2. CASE c["ModelUploading"] # "True"
      <3>1. d \in Conds BY <1>1, SetConditionType DEF CondType, CondStatus
      <3>2. d["ModelUploading"] = "True" /\ \A k \in CondType \ {"ModelUploading"} : d[k] = c[k]
        BY <1>1, <2>2, SetConditionAt DEF CondType, CondStatus
      <3> HIDE DEF d
      <3>3. GoodConds(d)
        BY <3>1, <3>2 DEF GoodConds, CoherentConds, OnlyTrue, CondType, IsFinished,
           IsSucceeded, IsFailed, IsTrue
      <3> QED BY <3>3 DEF d
    <2> QED BY <2>1, <2>2
  <1>3. ASSUME NEW s \in CondStatus
        PROVE  /\ GoodConds(SetCondition(c, "ModelUploaded", s))
               /\ SetCondition(c, "ModelUploaded", s)["ModelUploaded"] = s
    <2> DEFINE d == SetCondition(c, "ModelUploaded", s)
    <2>1. d \in Conds BY <1>1, SetConditionType DEF CondType
    <2>2. d["ModelUploaded"] = s /\ \A k \in CondType \ {"ModelUploaded"} :
              d[k] = IF k = "ModelUploading" THEN "absent" ELSE c[k]
      BY <1>1, SetConditionAt DEF CondType, CondStatus
    <2> HIDE DEF d
    <2>3. GoodConds(d)
      BY <2>1, <2>2 DEF GoodConds, CoherentConds, OnlyTrue, CondType, IsFinished,
         IsSucceeded, IsFailed, IsTrue
    <2> QED BY <2>2, <2>3 DEF d
  <1> QED BY <1>2, <1>3

----------------------------------------------------------------------------
(* The stage that the conditions show.                                     *)

\* Equal but for the condition that the informer adds to its own copy.
SameBut(c, d) == \A t \in CondType \ {"Created"} : c[t] = d[t]

\* It shows nothing in the stage.
LEMMA StageSame ==
  ASSUME NEW c, NEW d, SameBut(c, d)
  PROVE  StageOf(c) = StageOf(d)
  BY DEF SameBut, StageOf, CondType, IsFailed, IsSucceeded, IsTrue

\* A job without a verdict, and the stage each write of UpdateStatus takes it to.
LEMMA StageUnfinished ==
  ASSUME NEW c, GoodConds(c), ~IsFinished(c)
  PROVE  /\ StageOf(c) \in {"created", "running"}
         /\ StageOf(SetCondition(c, "Failed", "True")) = "failed"
         /\ StageOf(SetCondition(c, "Succeeded", "True")) = "succeeded"
         /\ StageOf(SetCondition(c, "Running", "True")) = "running"
  <1>0. /\ c \in Conds /\ c["Failed"] # "True" /\ c["Succeeded"] # "True"
        /\ c["ModelUploading"] = "absent" /\ c["ModelUploaded"] = "absent"
    BY DEF GoodConds, CoherentConds, IsFinished, IsSucceeded, IsFailed, IsTrue
  <1>1. StageOf(c) \in {"created", "running"}
    BY <1>0 DEF StageOf, IsFailed, IsSucceeded, IsTrue
  <1>2. StageOf(SetCondition(c, "Failed", "True")) = "failed"
    <2>1. SetCondition(c, "Failed", "True")["Failed"] = "True"
      BY <1>0, SetConditionAt DEF CondType, CondStatus, IsFailed, IsTrue
    <2> QED BY <2>1 DEF StageOf, IsFailed, IsTrue
  <1>3. ASSUME NEW t \in {"Succeeded", "Running"}, NEW d, d = SetCondition(c, t, "True")
        PROVE  /\ d[t] = "True" /\ d["Failed"] # "True"
               /\ d["ModelUploading"] = "absent" /\ d["ModelUploaded"] = "absent"
               /\ t = "Running" => d["Succeeded"] # "True"
    <2>1. CASE c[t] = "True"
      BY <1>0, <1>3, <2>1 DEF SetCondition
    <2>2. CASE c[t] # "True"
      BY <1>0, <1>3, <2>2, SetConditionAt DEF CondType, CondStatus, IsFailed, IsTrue
    <2> QED BY <2>1, <2>2
  <1>4. StageOf(SetCondition(c, "Succeeded", "True")) = "succeeded"
    BY <1>3 DEF StageOf, IsFailed, IsSucceeded, IsTrue
  <1>5. StageOf(SetCondition(c, "Running", "True")) = "running"
    BY <1>3 DEF StageOf, IsFailed, IsSucceeded, IsTrue
  <1> QED BY <1>1, <1>2, <1>4, <1>5

\* The same for a job that succeeded and the writes of uploadSavedModel.
LEMMA StageUpload ==
  ASSUME NEW c, GoodConds(c), IsSucceeded(c), c["ModelUploaded"] = "absent"
  PROVE  /\ StageOf(c) \in {"succeeded", "uploading"}
         /\ StageOf(SetCondition(c, "ModelUploading", "True")) = "uploading"
         /\ StageOf(SetCondition(c, "ModelUploaded", "True")) = "uploaded"
         /\ StageOf(SetCondition(c, "ModelUploaded", "False")) = "uploadFailed"
  <1>0. c \in Conds /\ c["Failed"] # "True" /\ c["Succeeded"] = "True"
    BY DEF GoodConds, CoherentConds, IsSucceeded, IsFailed, IsTrue
  <1>1. StageOf(c) \in {"succeeded", "uploading"}
    BY <1>0 DEF StageOf, IsFailed, IsSucceeded, IsTrue
  <1>2. ASSUME NEW d, d = SetCondition(c, "ModelUploading", "True")
        PROVE  d["ModelUploading"] = "True" /\ d["ModelUploaded"] = "absent" /\ d["Failed"] # "True"
    <2>1. CASE c["ModelUploading"] = "True"
      BY <1>0, <1>2, <2>1 DEF SetCondition
    <2>2. CASE c["ModelUploading"] # "True"
      BY <1>0, <1>2, <2>2, SetConditionAt DEF CondType, CondStatus, IsFailed, IsTrue
    <2> QED BY <2>1, <2>2
  <1>3. ASSUME NEW s \in CondStatus, NEW d, d = SetCondition(c, "ModelUploaded", s)
        PROVE  d["ModelUploaded"] = s /\ d["Failed"] # "True"
    BY <1>0, <1>3, SetConditionAt DEF CondType, CondStatus, IsFailed, IsTrue
  <1>4. StageOf(SetCondition(c, "ModelUploading", "True")) = "uploading"
    BY <1>2 DEF StageOf, IsFailed, IsSucceeded, IsTrue
  <1>5. StageOf(SetCondition(c, "ModelUploaded", "True")) = "uploaded"
    BY <1>3 DEF StageOf, IsFailed, IsTrue, CondStatus
  <1>6. StageOf(SetCondition(c, "ModelUploaded", "False")) = "uploadFailed"
    BY <1>3 DEF StageOf, IsFailed, IsTrue, CondStatus
  <1> QED BY <1>1, <1>4, <1>5, <1>6

\* The portal is shown the stage of a job, whatever conditions the controller
\* left: parseStatus checks ModelUploaded before Failed, which is right only
\* because coherent conditions never hold both.
THEOREM ParsedAsShown ==
  ASSUME NEW c, GoodConds(c)
  PROVE  ParseStatus(c) = ShownAs[StageOf(c)]
  <1>1. /\ IsFailed(c) => ~IsTrue(c, "ModelUploaded") /\ ~IsTrue(c, "ModelUploading") /\ ~IsSucceeded(c)
        /\ IsTrue(c, "ModelUploaded") \/ c["ModelUploaded"] = "False" => ~IsTrue(c, "ModelUploading")
        /\ c["ModelUploaded"] = "False" => IsSucceeded(c) /\ ~IsTrue(c, "ModelUploaded")
    BY DEF GoodConds, CoherentConds, IsTrue, IsSucceeded, IsFailed
  <1> QED BY <1>1 DEF ParseStatus, StageOf, ShownAs
=============================================================================
