-------------------------- MODULE MCThreadPooling --------------------------
(* Small instances of ThreadPooling for TLC. *)
EXTENDS ThreadPoolingProps

CONSTANTS p1, p2, p3

\* Any driver, one that exists if there are two, one past the end; by process.
DesiredMixed == [p \in Procs |-> IF p = p1 THEN -1 ELSE IF p = p2 THEN 1 ELSE MaxWorkers]
=============================================================================
