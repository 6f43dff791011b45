--------------------------- MODULE ThreadPooling ---------------------------
(***************************************************************************)
(* ThreadPooling.cpp: one broker and its internal workers, each driven by  *)
(* a thread of its own.  Clients put requests into the static pipe         *)
(* ppPoolRequests; the broker takes them out and hands each process to a   *)
(* worker under that worker's mMtxBrokerInternal; the worker ticks its     *)
(* processes until they are done.                                          *)
(*                                                                         *)
(* What the code does under one lock is one action; between two locks any  *)
(* thread may run.  A list's order decides nothing but the order of the    *)
(* ticks of one pass, so mListProcsReq and mListProcs are sets and a pass  *)
(* visits its processes in any order.                                      *)
(***************************************************************************)
EXTENDS Integers, Sequences, FiniteSets

CONSTANTS Procs,       \* the processes clients hand over with procAdd()
          MaxWorkers,  \* bound of workerCntSet()
          Desired,     \* PoolRequest::idDriverDesired of each process
          NoProc       \* the null pointer

ASSUME PoolAssumption ==
    /\ IsFiniteSet(Procs)
    /\ NoProc \notin Procs
    /\ MaxWorkers \in Nat \ {0}
    /\ Desired \in [Procs -> Int]

Workers == 0 .. MaxWorkers - 1

VARIABLES
    ppPoolRequests,  \* Pipe<PoolRequest>: the requests no one has taken out
    submitted,       \* the processes procAdd() was called for
    undriven,        \* the processes undrivenSet() was called for
    (* the broker *)
    bState,          \* mState or mStateSd, and the loop its tick is in
    bCanceled,       \* its parent has canceled it
    mCntInternals,
    numInternals,    \* mVecInternals.size()
    req,             \* the process of the request in hand
    idCurrent, idSelected, numSelected,   \* locals of idDriverNextGet()
    (* each worker *)
    wState,          \* "None" until created, then mState or mStateSd
    wCanceled,       \* the broker has canceled it
    drive,           \* where its procsDrive() is; "idle" outside of it
    mListProcsReq, mListProcs, mNumProcessing, mNumFinished,
    todo,            \* what the iterator of procsDrive() has still to visit
    cur              \* *iter, once it has been found to be finished

clientVars == <<ppPoolRequests, submitted>>
sizeVars   == <<mCntInternals, numInternals>>
selectVars == <<req, idCurrent, idSelected, numSelected>>
workerVars == <<wState, wCanceled, drive>>
listVars   == <<mListProcsReq, mListProcs, mNumProcessing, mNumFinished, todo, cur, undriven>>
vars == <<clientVars, bState, bCanceled, sizeVars, selectVars, workerVars, listVars>>

BrokerUp   == {"StStart", "StBrokerStart", "create", "StBrokerMain", "get", "select", "add"}
BrokerDown == {"StSdStart", "StBrokerSdStart", "Finished", "Crashed"}
WorkerUp   == {"StStart", "StInternalStart", "StInternalMain"}
WorkerDown == {"StSdStart", "StInternalSdStart", "StInternalSdMain"}

Init ==
    /\ ppPoolRequests = <<>> /\ submitted = {} /\ undriven = {}
    /\ bState = "StStart" /\ bCanceled = FALSE
    /\ mCntInternals \in 0 .. MaxWorkers /\ numInternals = 0
    /\ req = NoProc /\ idCurrent = 0 /\ idSelected = 0 /\ numSelected = 0
    /\ wState = [w \in Workers |-> "None"]
    /\ wCanceled = [w \in Workers |-> FALSE]
    /\ drive = [w \in Workers |-> "idle"]
    /\ mListProcsReq = [w \in Workers |-> {}]
    /\ mListProcs = [w \in Workers |-> {}]
    /\ mNumProcessing = [w \in Workers |-> 0]
    /\ mNumFinished = [w \in Workers |-> 0]
    /\ todo = [w \in Workers |-> {}]
    /\ cur = [w \in Workers |-> NoProc]

-----------------------------------------------------------------------------
(* Clients, and the parent of the pool *)

\* Any thread, at any time: before the pool runs, and after it has stopped.
procAdd(p) ==
    /\ bState # "Crashed" /\ p \notin submitted
    /\ submitted' = submitted \cup {p}
    /\ ppPoolRequests' = Append(ppPoolRequests, p)
    /\ UNCHANGED <<bState, bCanceled, sizeVars, selectVars, workerVars, listVars>>

PoolCancel ==
    /\ bState # "Crashed" /\ ~bCanceled
    /\ bCanceled' = TRUE
    /\ UNCHANGED <<clientVars, bState, sizeVars, selectVars, workerVars, listVars>>

-----------------------------------------------------------------------------
(* The broker.  SystemCore looks at the cancel flag at the start of a tick, *)
(* never within one; a process() that fails is shut down as well.          *)

BrokerGoto(from, to) == /\ bState = from /\ bState' = to
                        /\ UNCHANGED <<clientVars, bCanceled, workerVars, listVars>>

BrokerCanceled == /\ bCanceled
                  /\ \E s \in {"StStart", "StBrokerStart", "StBrokerMain"} :
                        BrokerGoto(s, "StSdStart")
                  /\ UNCHANGED <<sizeVars, selectVars>>

BrokerStart == /\ ~bCanceled
               /\ BrokerGoto("StStart", "StBrokerStart")
               /\ UNCHANGED <<sizeVars, selectVars>>

\* No worker configured is an error; else the workers are created in one tick.
BrokerInternalsStart ==
    /\ ~bCanceled
    /\ BrokerGoto("StBrokerStart", IF mCntInternals = 0 THEN "StSdStart" ELSE "create")
    /\ UNCHANGED <<sizeVars, selectVars>>

\* Each worker runs as soon as it is started, while the loop goes on.
InternalCreate ==
    /\ bState = "create" /\ numInternals < mCntInternals
    /\ numInternals' = numInternals + 1
    /\ wState' = [wState EXCEPT ![numInternals] = "StStart"]
    /\ UNCHANGED <<clientVars, bState, bCanceled, mCntInternals, selectVars, wCanceled, drive, listVars>>

\* create() returns NULL: process() returns -1, the workers there are remain.
InternalCreateFail ==
    /\ numInternals < mCntInternals
    /\ BrokerGoto("create", "StSdStart")
    /\ UNCHANGED <<sizeVars, selectVars>>

InternalsCreated ==
    /\ numInternals = mCntInternals
    /\ BrokerGoto("create", "StBrokerMain")
    /\ UNCHANGED <<sizeVars, selectVars>>

(* poolRequestsProcess() *)

BrokerMain == /\ ~bCanceled
              /\ BrokerGoto("StBrokerMain", "get")
              /\ UNCHANGED <<sizeVars, selectVars>>

IdValidUnchecked(id) == id < mCntInternals               \* variant: no check of the sign
IdValid(id) == 0 <= id /\ id < mCntInternals

RequestGet ==
    /\ bState = "get" /\ ppPoolRequests # <<>>
    /\ ppPoolRequests' = Tail(ppPoolRequests)
    /\ req' = Head(ppPoolRequests)
    /\ IF IdValid(Desired[req'])
       THEN bState' = "add" /\ idSelected' = Desired[req']
       ELSE bState' = "select" /\ idSelected' = 0
    /\ UNCHANGED <<submitted, bCanceled, sizeVars, idCurrent, numSelected, workerVars, listVars>>

RequestsEnd == /\ ppPoolRequests = <<>>
               /\ BrokerGoto("get", "StBrokerMain")
               /\ UNCHANGED <<sizeVars, selectVars>>

LighterThanSelectedSwapped == idCurrent = 0 \/ mNumProcessing[idCurrent] > numSelected  \* variant
LighterThanSelected == idCurrent = 0 \/ mNumProcessing[idCurrent] < numSelected

\* One numProcessingGet() of idDriverNextGet(); the lock covers this read only.
LoadRead ==
    /\ bState = "select" /\ idCurrent < numInternals
    /\ IF LighterThanSelected
       THEN numSelected' = mNumProcessing[idCurrent] /\ idSelected' = idCurrent
       ELSE UNCHANGED <<numSelected, idSelected>>
    /\ idCurrent' = idCurrent + 1
    /\ UNCHANGED <<clientVars, bState, bCanceled, sizeVars, req, workerVars, listVars>>

LoadsRead == /\ idCurrent >= numInternals
             /\ BrokerGoto("select", "add")
             /\ UNCHANGED <<sizeVars, selectVars>>

procInternalAdd ==
    /\ bState = "add" /\ bState' = "get"
    /\ mListProcsReq' = [mListProcsReq EXCEPT ![idSelected] = @ \cup {req}]
    /\ mNumProcessing' = [mNumProcessing EXCEPT ![idSelected] = @ + 1]
    /\ req' = NoProc /\ idCurrent' = 0 /\ idSelected' = 0 /\ numSelected' = 0
    /\ UNCHANGED <<clientVars, bCanceled, sizeVars, workerVars, mListProcs, mNumFinished, todo, cur, undriven>>

\* cancel(mVecInternals[i]) for each i < mCntInternals, whatever the size of the
\* vector is: past its end this reads no pointer.  A canceled worker stays so,
\* hence the loop is one step.
BrokerSdStart ==
    /\ bState = "StSdStart"
    /\ IF numInternals < mCntInternals
       THEN bState' = "Crashed" /\ UNCHANGED wCanceled
       ELSE /\ bState' = "StBrokerSdStart"
            /\ wCanceled' = [w \in Workers |-> w < mCntInternals]
    /\ UNCHANGED <<clientVars, bCanceled, sizeVars, selectVars, wState, drive, listVars>>

InternalsDoneAny == \E w \in Workers : wState[w] = "Finished"                      \* variant
InternalsDoneOneMore == \A w \in Workers : w <= mCntInternals => wState[w] = "Finished"  \* variant
InternalsDone == \A w \in Workers : w < mCntInternals => wState[w] = "Finished"

BrokerSdDone == /\ InternalsDone
                /\ BrokerGoto("StBrokerSdStart", "Finished")
                /\ UNCHANGED <<sizeVars, selectVars>>

-----------------------------------------------------------------------------
(* A worker *)

WorkerTick(w) == /\ bState # "Crashed" /\ drive[w] = "idle"
                 /\ UNCHANGED <<clientVars, bState, bCanceled, sizeVars, selectVars, wCanceled>>

WorkerGoto(w, from, to) == /\ wState[w] = from
                           /\ wState' = [wState EXCEPT ![w] = to]
                           /\ UNCHANGED <<drive, listVars>>

WorkerStateNext(w) ==
    /\ WorkerTick(w)
    /\ \/ wCanceled[w] /\ \E s \in WorkerUp : WorkerGoto(w, s, "StSdStart")
       \/ ~wCanceled[w] /\ WorkerGoto(w, "StStart", "StInternalStart")
       \/ ~wCanceled[w] /\ WorkerGoto(w, "StInternalStart", "StInternalMain")
       \/ WorkerGoto(w, "StSdStart", "StInternalSdStart")

\* Variant: the requests are copied, not spliced.
ProcsSpliceCopied(w) ==
    /\ WorkerTick(w)
    /\ \/ wState[w] = "StInternalMain" /\ ~wCanceled[w]
       \/ wState[w] \in {"StInternalSdStart", "StInternalSdMain"}
    /\ mListProcs' = [mListProcs EXCEPT ![w] = @ \cup mListProcsReq[w]]
    /\ todo' = [todo EXCEPT ![w] = mListProcs[w] \cup mListProcsReq[w]]
    /\ drive' = [drive EXCEPT ![w] = "pass"]
    /\ UNCHANGED <<wState, mListProcsReq, mNumProcessing, mNumFinished, cur, undriven>>

\* procsDrive() begins: it takes over what the broker has added, under the lock.
ProcsSplice(w) ==
    /\ WorkerTick(w)
    /\ \/ wState[w] = "StInternalMain" /\ ~wCanceled[w]
       \/ wState[w] \in {"StInternalSdStart", "StInternalSdMain"}
    /\ mListProcs' = [mListProcs EXCEPT ![w] = @ \cup mListProcsReq[w]]
    /\ mListProcsReq' = [mListProcsReq EXCEPT ![w] = {}]
    /\ todo' = [todo EXCEPT ![w] = mListProcs[w] \cup mListProcsReq[w]]
    /\ drive' = [drive EXCEPT ![w] = "pass"]
    /\ UNCHANGED <<wState, mNumProcessing, mNumFinished, cur, undriven>>

InDrive(w, from, to) == /\ bState # "Crashed" /\ drive[w] = from
                        /\ drive' = [drive EXCEPT ![w] = to]
                        /\ UNCHANGED <<clientVars, bState, bCanceled, sizeVars, selectVars, wCanceled>>

\* treeTick() of one process, which goes on ...
ProcTick(w, p) ==
    /\ InDrive(w, "pass", "pass") /\ p \in todo[w]
    /\ todo' = [todo EXCEPT ![w] = @ \ {p}]
    /\ UNCHANGED <<wState, mListProcsReq, mListProcs, mNumProcessing, mNumFinished, cur, undriven>>

\* ... or has come to its end: progress() is FALSE.
ProcTickLast(w, p) ==
    /\ InDrive(w, "pass", "finish") /\ p \in todo[w]
    /\ todo' = [todo EXCEPT ![w] = @ \ {p}]
    /\ cur' = [cur EXCEPT ![w] = p]
    /\ UNCHANGED <<wState, mListProcsReq, mListProcs, mNumProcessing, mNumFinished, undriven>>

\* Variant: the number is left as it is.
NumDecrementForgotten(w) == InDrive(w, "finish", "undrive") /\ UNCHANGED <<wState, listVars>>

\* --mNumProcessing, under the lock.
NumDecrement(w) ==
    /\ InDrive(w, "finish", "undrive")
    /\ mNumProcessing' = [mNumProcessing EXCEPT ![w] = @ - 1]
    /\ UNCHANGED <<wState, mListProcsReq, mListProcs, mNumFinished, todo, cur, undriven>>

\* ++mNumFinished, undrivenSet(), erase().
ProcUndrive(w) ==
    /\ InDrive(w, "undrive", "pass")
    /\ mNumFinished' = [mNumFinished EXCEPT ![w] = @ + 1]
    /\ undriven' = undriven \cup {cur[w]}
    /\ mListProcs' = [mListProcs EXCEPT ![w] = @ \ {cur[w]}]
    /\ cur' = [cur EXCEPT ![w] = NoProc]
    /\ UNCHANGED <<wState, mListProcsReq, mNumProcessing, todo>>

\* What shutdown() makes of mListProcs.size(); it does not look at mListProcsReq.
StateSdAfterDriveOnce(w) == "Finished"      \* variant: one pass is taken for all
StateSdAfterDrive(w) == IF mListProcs[w] # {} THEN "StInternalSdMain" ELSE "Finished"

\* procsDrive() returns to process() or to shutdown().
ProcsDriven(w) ==
    /\ InDrive(w, "pass", "idle") /\ todo[w] = {}
    /\ wState' = [wState EXCEPT ![w] = IF @ = "StInternalMain" THEN @ ELSE StateSdAfterDrive(w)]
    /\ UNCHANGED listVars

-----------------------------------------------------------------------------
Broker == \/ BrokerCanceled \/ BrokerStart \/ BrokerInternalsStart
          \/ InternalCreate \/ InternalCreateFail \/ InternalsCreated
          \/ BrokerMain \/ RequestGet \/ RequestsEnd \/ LoadRead \/ LoadsRead
          \/ procInternalAdd \/ BrokerSdStart \/ BrokerSdDone

Worker(w) == \/ WorkerStateNext(w) \/ ProcsSplice(w)
             \/ \E p \in Procs : ProcTick(w, p) \/ ProcTickLast(w, p)
             \/ NumDecrement(w) \/ ProcUndrive(w) \/ ProcsDriven(w)

Next == \/ \E p \in Procs : procAdd(p)
        \/ PoolCancel
        \/ Broker
        \/ \E w \in Workers : Worker(w)

Spec == Init /\ [][Next]_vars

(* Each thread goes on when it can.  A process that is ticked over and over *)
(* comes to its end: what a client hands over is the client's to keep finite. *)
Fairness == /\ WF_vars(Broker)
            /\ \A w \in Workers : WF_vars(Worker(w))
            /\ \A w \in Workers, p \in Procs : SF_vars(ProcTickLast(w, p))

FairSpec == Spec /\ Fairness
=============================================================================
