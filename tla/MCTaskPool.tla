----------------------------- MODULE MCTaskPool -----------------------------
(***************************************************************************)
(* TaskPool for TLC: every combination of limit and callback that new_task *)
(* and task_main tell apart.                                               *)
(***************************************************************************)
EXTENDS TaskPool

MCAttrs ==
  { [max_timeout_ms |-> -1, timeout |-> TRUE],
    [max_timeout_ms |-> 5,  timeout |-> TRUE],
    [max_timeout_ms |-> 5,  timeout |-> FALSE] }

=============================================================================
