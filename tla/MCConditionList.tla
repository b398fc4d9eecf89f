-------------------------- MODULE MCConditionList --------------------------
(* Two texts per condition and four calls: the shortest histories in which *)
(* a verdict meets a Running entry and an upload concludes take three.     *)
EXTENDS ConditionList

MCTexts == {"first", "second"}
MCMaxCalls == 4
============================================================================
