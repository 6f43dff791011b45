------------------------ MODULE ThreadPoolingProps ------------------------
(* What the threads of ThreadPooling have to get right together. *)
EXTENDS ThreadPooling, Functions

\* The types of the variables of ThreadPooling.cpp's broker and workers.
TypeOK ==
    /\ ppPoolRequests \in Seq(Procs)
    /\ submitted \subseteq Procs
    /\ undriven \subseteq Procs
    /\ bState \in BrokerUp \cup BrokerDown
    /\ bCanceled \in BOOLEAN
    /\ mCntInternals \in 0 .. MaxWorkers
    /\ numInternals \in 0 .. mCntInternals
    /\ req \in Procs \cup {NoProc}
    /\ idCurrent \in 0 .. MaxWorkers
    /\ idSelected \in Workers
    /\ numSelected \in Nat
    /\ wState \in [Workers -> {"None", "Finished"} \cup WorkerUp \cup WorkerDown]
    /\ wCanceled \in [Workers -> BOOLEAN]
    /\ drive \in [Workers -> {"idle", "pass", "finish", "undrive"}]
    /\ mListProcsReq \in [Workers -> SUBSET Procs]
    /\ mListProcs \in [Workers -> SUBSET Procs]
    /\ mNumProcessing \in [Workers -> Nat]
    /\ mNumFinished \in [Workers -> Nat]
    /\ todo \in [Workers -> SUBSET Procs]
    /\ cur \in [Workers -> Procs \cup {NoProc}]

Queued == Range(ppPoolRequests)
Held(w) == mListProcsReq[w] \cup mListProcs[w]

\* A process that was added is in one place and in no other: once in the pipe, in
\* the broker's hand, in one list of one worker, or given back.  The pipe, the
\* broker and each splice() of procsDrive() pass it on without losing or doubling it,
\* so no process is ever ticked by two threads.
OnePlace ==
    /\ submitted = {p \in Procs : p \in Queued \/ p = req \/ p \in undriven
                                    \/ \E w \in Workers : p \in Held(w)}
    /\ IsInjective(ppPoolRequests)
    /\ \A p \in Queued : p # req /\ p \notin undriven
    /\ req \notin undriven
    /\ \A w \in Workers : \A p \in Held(w) :
          /\ p \notin Queued /\ p # req /\ p \notin undriven
          /\ p \notin mListProcsReq[w] \cap mListProcs[w]
          /\ \A v \in Workers : p \in Held(v) => v = w

\* mNumProcessing, by which idDriverNextGet() selects, is the number of processes the
\* worker has; it is one too low only between the two steps that end a process.
LoadCount ==
    \A w \in Workers : mNumProcessing[w] = Cardinality(Held(w))
                                              - (IF drive[w] = "undrive" THEN 1 ELSE 0)

\* A worker that reported the end of its shutdown() has nothing left and is given
\* nothing any more, though shutdown() never looks at mListProcsReq.
WorkerDrained == \A w \in Workers : wState[w] = "Finished" => Held(w) = {}

\* Once the pool's shutdown() is done each process a worker ever had was given back:
\* what was added and is still not done has never left the pipe.
PoolStopped == bState = "Finished" => submitted \ undriven \subseteq Queued

\* idDriverNextGet() reads the loads one by one while the workers go on, and still its
\* choice carries at most the load that was read: no other thread adds to it.
ChoiceNotHeavier ==
    bState \in {"select", "add"} /\ idCurrent > 0 => mNumProcessing[idSelected] <= numSelected

\* As long as no process has ended and no request named a driver, the loads of the
\* workers differ by one at most, whatever the broker and the workers interleave.
Balanced ==
    (/\ bState \in {"StBrokerMain", "get", "select", "add"}
     /\ undriven = {} /\ \A w \in Workers : drive[w] # "undrive"
     /\ \A w \in Workers : \A p \in Held(w) : ~IdValid(Desired[p]))
    => \A v, w \in 0 .. numInternals - 1 : mNumProcessing[v] <= mNumProcessing[w] + 1

-----------------------------------------------------------------------------
(* What the invariants above rest on *)

\* Where procsDrive() is decides what its locals hold.
DriveInv ==
    \A w \in Workers :
        /\ todo[w] \subseteq mListProcs[w]
        /\ drive[w] = "idle" => todo[w] = {}
        /\ drive[w] # "idle" => wState[w] \in {"StInternalMain", "StInternalSdStart", "StInternalSdMain"}
        /\ drive[w] \in {"finish", "undrive"} => cur[w] \in mListProcs[w] \ todo[w]

\* A request is in hand in the loop of poolRequestsProcess() only, and by then all
\* of the workers exist.
BrokerInv ==
    /\ req # NoProc <=> bState \in {"select", "add"}
    /\ bState \in {"StBrokerMain", "get", "select", "add", "StBrokerSdStart", "Finished"} =>
          numInternals = mCntInternals
    /\ bState = "create" => mCntInternals > 0
    /\ bState \in {"StBrokerMain", "get", "select", "add"} => numInternals > 0
    /\ bState \in {"select", "add"} => idSelected < numInternals /\ idCurrent <= numInternals
    /\ bState \notin {"select", "add"} => idCurrent = 0
    /\ bState \in {"select", "add"} /\ IdValid(Desired[req]) =>
          bState = "add" /\ idSelected = Desired[req]
    /\ bState = "Finished" => InternalsDone

\* Workers are created in order, canceled only by a broker that adds nothing more,
\* and stop only after one more splice().
WorkerInv ==
    \A w \in Workers :
        /\ wState[w] = "None" <=> w >= numInternals
        /\ wState[w] = "None" => Held(w) = {}
        /\ wCanceled[w] => bState \in {"StBrokerSdStart", "Finished"}
        /\ wState[w] \in WorkerDown \cup {"Finished"} => wCanceled[w]
        /\ \/ wState[w] \in {"StInternalSdMain", "Finished"}
           \/ wState[w] = "StInternalSdStart" /\ drive[w] # "idle"
           => mListProcsReq[w] = {}
        /\ wState[w] = "Finished" => drive[w] = "idle"

\* The inductive invariant of ThreadPooling.cpp: the above with what it is to show.
IInv == TypeOK /\ OnePlace /\ LoadCount /\ WorkerDrained /\ ChoiceNotHeavier
        /\ DriveInv /\ BrokerInv /\ WorkerInv

-----------------------------------------------------------------------------
\* procAdd(): a pool that is not shut down drives each request to the end of its process.
RequestServed == \A p \in Procs :
    p \in submitted ~> (p \in undriven \/ bState \in BrokerDown \/ bCanceled)

\* shutdown() of a pool whose workers were all created comes to an end.
ShutdownCompletes ==
    (bState = "StSdStart" /\ numInternals = mCntInternals) ~> bState = "Finished"

-----------------------------------------------------------------------------
(* ThreadPooling implements ProcessPool.  The request the broker holds is  *)
(* still the oldest of the queue.                                          *)

Pool == INSTANCE ProcessPool WITH
    size     <- mCntInternals,
    queue    <- IF req = NoProc THEN ppPoolRequests ELSE <<req>> \o ppPoolRequests,
    driven   <- [w \in Workers |-> Held(w)],
    finished <- undriven,
    phase    <- IF bState \in BrokerUp THEN "open"
                ELSE IF bState = "Finished" THEN "stopped" ELSE "closing"

\* Each step of the threads is a step of the pool or none: requests leave the queue in
\* order, each for the driver it names; no process changes its driver; nothing is
\* assigned while the pool closes or left once it has stopped.
ImplementsPoolSafety == Pool!PoolSafety

=============================================================================
