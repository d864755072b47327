----------------------------- MODULE MCToolStep ------------------------------
(***************************************************************************)
(* Small instances of ToolStep.  The steps are interchangeable.            *)
(***************************************************************************)
EXTENDS ToolStep, TLC

StepSymmetry == Permutations(Steps)
=============================================================================
