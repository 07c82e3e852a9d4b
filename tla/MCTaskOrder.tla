---------------------------- MODULE MCTaskOrder -----------------------------
(***************************************************************************)
(* An instance of Tasks for TLC that evaluates what is said of the order of *)
(* the tasks' steps as well.                                                *)
(***************************************************************************)
EXTENDS MCTasks, TaskOrder
=============================================================================
