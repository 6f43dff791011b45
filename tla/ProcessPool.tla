---------------------------- MODULE ProcessPool ----------------------------
(***************************************************************************)
(* What ThreadPooling promises to the code that calls                      *)
(* ThreadPooling::procAdd(), without its threads, locks and lists.         *)
(*                                                                         *)
(* A process handed to the pool waits in one FIFO queue, is then given to  *)
(* exactly one driver, stays with that driver, and ends there.  A request  *)
(* that names an existing driver gets that driver.  Once the pool closes   *)
(* nothing more leaves the queue, and the pool is stopped only when no     *)
(* driver has a process left.                                              *)
(***************************************************************************)
EXTENDS Integers, Sequences, Functions

CONSTANTS Procs,       \* the processes clients hand to the pool
          MaxWorkers,  \* the largest number of drivers a pool is configured with
          Desired      \* the driver each request asks for (idDriverDesired)

VARIABLES size,      \* the number of drivers of this pool
          queue,     \* requests no driver has yet, oldest first
          driven,    \* the processes each driver has
          finished,  \* the processes the pool is done with
          phase      \* "open", then "closing", then "stopped"

poolVars == <<size, queue, driven, finished, phase>>

Drivers == 0 .. MaxWorkers - 1

Known(p) == \/ p \in Range(queue)
            \/ \E d \in Drivers : p \in driven[d]
            \/ p \in finished

PoolInit == /\ size \in 0 .. MaxWorkers
            /\ queue = <<>>
            /\ driven = [d \in Drivers |-> {}]
            /\ finished = {}
            /\ phase = "open"

Submit(p) == /\ ~Known(p)
             /\ queue' = Append(queue, p)
             /\ UNCHANGED <<size, driven, finished, phase>>

Assign(d) == /\ phase = "open"
             /\ queue # <<>>
             /\ d < size
             /\ Desired[Head(queue)] \in 0 .. size - 1 => d = Desired[Head(queue)]
             /\ driven' = [driven EXCEPT ![d] = @ \cup {Head(queue)}]
             /\ queue' = Tail(queue)
             /\ UNCHANGED <<size, finished, phase>>

Finish(p) == \E d \in Drivers :
                /\ p \in driven[d]
                /\ driven' = [driven EXCEPT ![d] = @ \ {p}]
                /\ finished' = finished \cup {p}
                /\ UNCHANGED <<size, queue, phase>>

Close == /\ phase = "open"
         /\ phase' = "closing"
         /\ UNCHANGED <<size, queue, driven, finished>>

Stop == /\ phase = "closing"
        /\ \A d \in Drivers : driven[d] = {}
        /\ phase' = "stopped"
        /\ UNCHANGED <<size, queue, driven, finished>>

PoolNext == \/ \E p \in Procs : Submit(p) \/ Finish(p)
            \/ \E d \in Drivers : Assign(d)
            \/ Close
            \/ Stop

PoolSafety == PoolInit /\ [][PoolNext]_poolVars

=============================================================================
