-------------------------- MODULE MCSerialExecutor --------------------------
(***************************************************************************)
(* Three tasks, two of one priority, as the program has tasks that differ  *)
(* and may have tasks that do not.                                         *)
(***************************************************************************)
EXTENDS SerialExecutor

CONSTANTS t1, t2, t3

MCPriority == [t \in Tasks |-> IF t = t1 THEN 2 ELSE 1]
=============================================================================
