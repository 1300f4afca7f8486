------------------------------- MODULE MCGoal -------------------------------
(* Instances of the goal pipelines for TLC. *)
EXTENDS GoalPipeline

\* One budget for each step a task may stop at.
AnyBudget == 1..3
=============================================================================
