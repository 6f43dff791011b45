----------------------------- MODULE MCSysFlags -----------------------------
(* Requesters, OS processes and flags for TLC. *)
EXTENDS SysFlagsProps

CONSTANTS t1, t2, t3, a, b

EachItsOwn == [t \in Threads |-> t]

Sets    == {<<b>>, <<a, b>>, <<b, a>>}
First   == {t1}
Second  == {t2}
=============================================================================
