-------------------------- MODULE MCCopilotWorkflow --------------------------
(***************************************************************************)
(* Instances of CopilotWorkflow for TLC: the constants are given their     *)
(* values in the configuration files.                                      *)
(***************************************************************************)
EXTENDS CopilotWorkflow, TLC

\* Users are interchangeable: no action and no property tells them apart.
UserSymmetry == Permutations(Users)
=============================================================================
