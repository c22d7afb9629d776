--------------------------- MODULE MCTaskExecutor ---------------------------
(* Small instances of TaskExecutor for TLC. *)
EXTENDS TaskExecutor

CONSTANTS t1, t2, l1, l2

TwoTasks == {t1, t2}
OneLightTask == {l1}
TwoLightTasks == {l1, l2}
=============================================================================
