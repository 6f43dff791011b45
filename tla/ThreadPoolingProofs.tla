------------------------ MODULE ThreadPoolingProofs ------------------------
(***************************************************************************)
(* Proofs about ThreadPooling.cpp for any number of workers, any finite    *)
(* set of processes and any drivers they ask for.  IInv is inductive; it   *)
(* is proved conjunct by conjunct, one case per action of Next.            *)
(***************************************************************************)
EXTENDS ThreadPoolingProps, FiniteSetTheorems, SequenceTheorems, TLAPS

-----------------------------------------------------------------------------
(* The pipe *)

\* Append() adds one element to what the pipe holds, and keeps it free of repetitions.
LEMMA PipeAppend ==
    ASSUME NEW S, NEW s \in Seq(S), NEW e \in S, IsInjective(s), e \notin Range(s)
    PROVE  /\ Append(s, e) \in Seq(S)
           /\ Range(Append(s, e)) = Range(s) \cup {e}
           /\ IsInjective(Append(s, e))
<1> DEFINE t == Append(s, e)
<1>1. /\ t \in Seq(S) /\ Len(t) = Len(s) + 1 /\ Len(s) \in Nat
      /\ \A i \in 1 .. Len(s) : t[i] = s[i]
      /\ t[Len(s) + 1] = e
  BY AppendProperties
<1>2. DOMAIN s = 1 .. Len(s) /\ DOMAIN t = 1 .. Len(s) + 1
  BY <1>1
<1> HIDE DEF t
<1>3. Range(t) = Range(s) \cup {e}
  <2>1. ASSUME NEW i \in DOMAIN t PROVE t[i] \in Range(s) \cup {e}
    <3>1. CASE i = Len(s) + 1
      BY <1>1, <3>1
    <3>2. CASE i \in 1 .. Len(s)
      BY <1>1, <1>2, <3>2 DEF Range
    <3> QED
      BY <1>1, <1>2, <3>1, <3>2
  <2>2. ASSUME NEW x \in Range(s) \cup {e} PROVE x \in Range(t)
    <3>1. CASE x = e
      BY <1>1, <1>2, <3>1 DEF Range
    <3>2. CASE x \in Range(s)
      <4>1. PICK i \in 1 .. Len(s) : s[i] = x
        BY <1>2, <3>2 DEF Range
      <4>2. i \in DOMAIN t /\ t[i] = x
        BY <1>1, <1>2, <4>1
      <4> QED
        BY <4>2 DEF Range
    <3> QED
      BY <3>1, <3>2
  <2> QED
    BY <2>1, <2>2 DEF Range
<1>4. IsInjective(t)
  <2> SUFFICES ASSUME NEW i \in DOMAIN t, NEW j \in DOMAIN t, t[i] = t[j] PROVE i = j
    BY DEF IsInjective
  <2>1. \A k \in 1 .. Len(s) : t[k] \in Range(s)
    BY <1>1, <1>2 DEF Range
  <2>2. CASE i \in 1 .. Len(s) /\ j \in 1 .. Len(s)
    BY <1>1, <1>2, <2>2 DEF IsInjective
  <2>3. CASE i = Len(s) + 1 \/ j = Len(s) + 1
    BY <1>1, <1>2, <2>1, <2>3
  <2> QED
    BY <1>1, <1>2, <2>2, <2>3
<1> QED
  BY <1>1, <1>3, <1>4 DEF t

\* get() takes its head and no other element from a pipe without repetitions.
LEMMA PipeTail ==
    ASSUME NEW S, NEW s \in Seq(S), IsInjective(s), s # <<>>
    PROVE  /\ Head(s) \in S
           /\ Tail(s) \in Seq(S)
           /\ Range(s) = Range(Tail(s)) \cup {Head(s)}
           /\ Head(s) \notin Range(Tail(s))
           /\ IsInjective(Tail(s))
<1> DEFINE t == Tail(s)
<1>1. /\ Head(s) \in S /\ t \in Seq(S) /\ Len(t) = Len(s) - 1
      /\ \A i \in 1 .. Len(t) : t[i] = s[i + 1]
  BY HeadTailProperties
<1>2. /\ Len(s) \in Nat /\ Len(s) > 0 /\ DOMAIN s = 1 .. Len(s)
      /\ DOMAIN t = 1 .. Len(s) - 1 /\ Head(s) = s[1]
  BY <1>1
<1> HIDE DEF t
<1>3. Range(s) = Range(t) \cup {s[1]}
  <2>1. ASSUME NEW i \in DOMAIN s PROVE s[i] \in Range(t) \cup {s[1]}
    <3>1. CASE i = 1
      BY <3>1
    <3>2. CASE i # 1
      <4>1. i - 1 \in DOMAIN t /\ t[i - 1] = s[i]
        BY <1>1, <1>2, <3>2
      <4> QED
        BY <4>1 DEF Range
    <3> QED
      BY <3>1, <3>2
  <2>2. \A i \in DOMAIN t : i + 1 \in DOMAIN s /\ t[i] = s[i + 1]
    BY <1>1, <1>2
  <2> QED
    BY <1>2, <2>1, <2>2 DEF Range
<1>4. s[1] \notin Range(t)
  <2> SUFFICES ASSUME NEW i \in DOMAIN t, t[i] = s[1] PROVE FALSE
    BY DEF Range
  <2>1. s[i + 1] = s[1] /\ i + 1 \in DOMAIN s /\ 1 \in DOMAIN s /\ i + 1 # 1
    BY <1>1, <1>2
  <2> QED
    BY <2>1 DEF IsInjective
<1>5. IsInjective(t)
  <2> SUFFICES ASSUME NEW i \in DOMAIN t, NEW j \in DOMAIN t, t[i] = t[j] PROVE i = j
    BY DEF IsInjective
  <2>1. s[i + 1] = s[j + 1] /\ i + 1 \in DOMAIN s /\ j + 1 \in DOMAIN s
    BY <1>1, <1>2
  <2>2. i + 1 = j + 1
    BY <2>1 DEF IsInjective
  <2> QED
    BY <1>2, <2>2
<1> QED
  BY <1>1, <1>2, <1>3, <1>4, <1>5 DEF t


-----------------------------------------------------------------------------
(* The steps of the broker that only move its state *)

BrokerMove == \/ BrokerCanceled \/ BrokerStart \/ BrokerInternalsStart
              \/ InternalCreateFail \/ InternalsCreated
              \/ BrokerMain \/ RequestsEnd \/ LoadsRead \/ BrokerSdDone

\* Such a step leaves every list, number and worker of ThreadPooling.cpp alone.
LEMMA BrokerMoveFrame ==
    ASSUME BrokerMove
    PROVE  UNCHANGED <<clientVars, bCanceled, sizeVars, selectVars, workerVars, listVars>>
  BY DEF BrokerMove, BrokerCanceled, BrokerStart, BrokerInternalsStart, InternalCreateFail,
         InternalsCreated, BrokerMain, RequestsEnd, LoadsRead, BrokerSdDone, BrokerGoto

\* Each state it moves to is one of the broker's.
LEMMA BrokerMoveState ==
    ASSUME BrokerMove
    PROVE  bState' \in BrokerUp \cup BrokerDown
  BY DEF BrokerMove, BrokerCanceled, BrokerStart, BrokerInternalsStart, InternalCreateFail,
         InternalsCreated, BrokerMain, RequestsEnd, LoadsRead, BrokerSdDone, BrokerGoto,
         BrokerUp, BrokerDown

\* What a worker has is finite, so it has a number.
LEMMA HeldFinite ==
    ASSUME TypeOK, NEW w \in Workers
    PROVE  /\ Held(w) \subseteq Procs
           /\ IsFiniteSet(Held(w))
           /\ Cardinality(Held(w)) \in Nat
<1>1. Held(w) \subseteq Procs
  BY DEF TypeOK, Held
<1>2. IsFiniteSet(Held(w))
  BY <1>1, FS_Subset, PoolAssumption
<1> QED
  BY <1>1, <1>2, FS_CardinalityType

\* A worker that is about to count a process down has one to count.
LEMMA LoadPositive ==
    ASSUME TypeOK, DriveInv, LoadCount, NEW w \in Workers, drive[w] = "finish"
    PROVE  mNumProcessing[w] - 1 \in Nat
<1>1. Held(w) # {} /\ mNumProcessing[w] = Cardinality(Held(w))
  <2>1. Held(w) # {}
    BY DEF DriveInv, Held
  <2>2. mNumProcessing[w] = Cardinality(Held(w)) - 0
    BY DEF LoadCount
  <2> QED
    BY <2>1, <2>2, HeldFinite
<1>2. Cardinality(Held(w)) # 0
  BY <1>1, HeldFinite, FS_EmptySet
<1> QED
  BY <1>1, <1>2, HeldFinite

-----------------------------------------------------------------------------
(* Types *)

\* Every step of Next keeps the types of the state.
LEMMA TypeStep ==
    TypeOK /\ DriveInv /\ BrokerInv /\ LoadCount /\ [Next]_vars => TypeOK'
<1> SUFFICES ASSUME TypeOK, DriveInv, BrokerInv, LoadCount, [Next]_vars PROVE TypeOK'
  OBVIOUS
<1> USE DEF clientVars, sizeVars, selectVars, workerVars, listVars
<1>1. ASSUME NEW p \in Procs, procAdd(p) PROVE TypeOK'
  BY <1>1, AppendProperties DEF TypeOK, procAdd
<1>2. CASE PoolCancel
  BY <1>2 DEF TypeOK, PoolCancel
<1>3. CASE BrokerMove
  BY <1>3, BrokerMoveFrame, BrokerMoveState DEF TypeOK
<1>4. CASE InternalCreate
  <2>1. wState' \in [Workers -> {"None", "Finished"} \cup WorkerUp \cup WorkerDown]
    BY <1>4 DEF TypeOK, InternalCreate, WorkerUp
  <2>2. numInternals' \in 0 .. mCntInternals'
    BY <1>4 DEF TypeOK, InternalCreate
  <2> QED
    BY <1>4, <2>1, <2>2 DEF TypeOK, InternalCreate
<1>5. CASE RequestGet
  <2>1. Head(ppPoolRequests) \in Procs /\ Tail(ppPoolRequests) \in Seq(Procs)
    BY <1>5, HeadTailProperties DEF TypeOK, RequestGet
  <2>2. idSelected' \in Workers
    <3>1. CASE IdValid(Desired[req'])
      BY <1>5, <2>1, <3>1, PoolAssumption DEF TypeOK, RequestGet, IdValid, Workers
    <3>2. CASE ~IdValid(Desired[req'])
      BY <1>5, <3>2, PoolAssumption DEF RequestGet, Workers
    <3> QED
      BY <3>1, <3>2
  <2>3. bState' \in BrokerUp \cup BrokerDown
    BY <1>5 DEF RequestGet, BrokerUp
  <2> QED
    BY <1>5, <2>1, <2>2, <2>3 DEF TypeOK, RequestGet
<1>6. CASE LoadRead
  <2>1. idCurrent \in Workers /\ idCurrent + 1 \in 0 .. MaxWorkers
    BY <1>6, PoolAssumption DEF TypeOK, LoadRead, Workers
  <2>2. mNumProcessing[idCurrent] \in Nat
    BY <2>1 DEF TypeOK
  <2>3. idSelected' \in Workers /\ numSelected' \in Nat
    BY <1>6, <2>1, <2>2 DEF TypeOK, LoadRead
  <2> QED
    BY <1>6, <2>1, <2>3 DEF TypeOK, LoadRead
<1>7. CASE procInternalAdd
  <2>1. req \in Procs
    BY <1>7 DEF TypeOK, BrokerInv, procInternalAdd
  <2>2. mListProcsReq' \in [Workers -> SUBSET Procs] /\ mNumProcessing' \in [Workers -> Nat]
    BY <1>7, <2>1 DEF TypeOK, procInternalAdd
  <2>3. bState' \in BrokerUp /\ 0 \in Workers /\ 0 \in 0 .. MaxWorkers
    BY <1>7, PoolAssumption DEF procInternalAdd, BrokerUp, Workers
  <2> QED
    BY <1>7, <2>2, <2>3 DEF TypeOK, procInternalAdd
<1>8. CASE BrokerSdStart
  <2>1. bState' \in BrokerDown
    BY <1>8 DEF BrokerSdStart, BrokerDown
  <2>2. wCanceled' \in [Workers -> BOOLEAN]
    <3>1. \A w \in Workers : (w < mCntInternals) \in BOOLEAN
      OBVIOUS
    <3> QED
      BY <1>8, <3>1, Zenon DEF TypeOK, BrokerSdStart
  <2> QED
    BY <1>8, <2>1, <2>2 DEF TypeOK, BrokerSdStart
<1>9. ASSUME NEW w \in Workers, WorkerStateNext(w) PROVE TypeOK'
  <2>1. \E s \in WorkerUp \cup WorkerDown : wState' = [wState EXCEPT ![w] = s]
    BY <1>9 DEF WorkerStateNext, WorkerGoto, WorkerUp, WorkerDown
  <2>2. UNCHANGED <<clientVars, bState, bCanceled, sizeVars, selectVars, wCanceled, drive, listVars>>
    BY <1>9 DEF WorkerStateNext, WorkerGoto, WorkerTick
  <2> QED
    BY <2>1, <2>2 DEF TypeOK
<1>10. ASSUME NEW w \in Workers, ProcsSplice(w) PROVE TypeOK'
  BY <1>10 DEF TypeOK, ProcsSplice, WorkerTick
<1>11. ASSUME NEW w \in Workers, NEW p \in Procs, ProcTick(w, p) PROVE TypeOK'
  BY <1>11 DEF TypeOK, ProcTick, InDrive
<1>12. ASSUME NEW w \in Workers, NEW p \in Procs, ProcTickLast(w, p) PROVE TypeOK'
  BY <1>12 DEF TypeOK, ProcTickLast, InDrive
<1>13. ASSUME NEW w \in Workers, NumDecrement(w) PROVE TypeOK'
  <2>1. mNumProcessing[w] - 1 \in Nat
    BY <1>13, LoadPositive DEF NumDecrement, InDrive
  <2> QED
    BY <1>13, <2>1 DEF TypeOK, NumDecrement, InDrive
<1>14. ASSUME NEW w \in Workers, ProcUndrive(w) PROVE TypeOK'
  BY <1>14 DEF TypeOK, DriveInv, ProcUndrive, InDrive
<1>15. ASSUME NEW w \in Workers, ProcsDriven(w) PROVE TypeOK'
  BY <1>15 DEF TypeOK, ProcsDriven, InDrive, StateSdAfterDrive, WorkerDown
<1>16. CASE UNCHANGED vars
  BY <1>16 DEF TypeOK, vars
<1> QED
  BY <1>1, <1>2, <1>3, <1>4, <1>5, <1>6, <1>7, <1>8, <1>9, <1>10, <1>11, <1>12, <1>13, <1>14,
     <1>15, <1>16 DEF Next, Broker, BrokerMove, Worker

-----------------------------------------------------------------------------
(* The invariants that keep the control state *)

\* Where procsDrive() is keeps deciding what its locals hold.
LEMMA DriveStep == TypeOK /\ DriveInv /\ WorkerInv /\ [Next]_vars => DriveInv'
<1> SUFFICES ASSUME TypeOK, DriveInv, WorkerInv, [Next]_vars PROVE DriveInv'
  OBVIOUS
<1> USE DEF workerVars, listVars
<1>1. CASE UNCHANGED <<workerVars, listVars>>
  BY <1>1 DEF DriveInv
<1>2. CASE InternalCreate
  <2>1. \A w \in Workers : w = numInternals => wState[w] = "None"
    BY <1>2 DEF TypeOK, WorkerInv
  <2>2. \A w \in Workers : drive[w] # "idle" => w # numInternals
    BY <2>1 DEF DriveInv
  <2> QED
    BY <1>2, <2>2 DEF TypeOK, DriveInv, InternalCreate
<1>3. CASE procInternalAdd
  BY <1>3 DEF DriveInv, procInternalAdd
<1>4. CASE BrokerSdStart
  BY <1>4 DEF DriveInv, BrokerSdStart
<1>5. ASSUME NEW w \in Workers, WorkerStateNext(w) PROVE DriveInv'
  <2>1. drive[w] = "idle" /\ UNCHANGED <<drive, listVars>>
    BY <1>5 DEF WorkerStateNext, WorkerTick, WorkerGoto
  <2>2. \A v \in Workers : v # w => wState'[v] = wState[v]
    BY <1>5 DEF TypeOK, WorkerStateNext, WorkerGoto
  <2> QED
    BY <2>1, <2>2 DEF DriveInv
<1>6. ASSUME NEW w \in Workers, ProcsSplice(w) PROVE DriveInv'
  BY <1>6 DEF TypeOK, DriveInv, ProcsSplice, WorkerTick
<1>7. ASSUME NEW w \in Workers, NEW p \in Procs, ProcTick(w, p) PROVE DriveInv'
  BY <1>7 DEF TypeOK, DriveInv, ProcTick, InDrive
<1>8. ASSUME NEW w \in Workers, NEW p \in Procs, ProcTickLast(w, p) PROVE DriveInv'
  BY <1>8 DEF TypeOK, DriveInv, ProcTickLast, InDrive
<1>9. ASSUME NEW w \in Workers, NumDecrement(w) PROVE DriveInv'
  BY <1>9 DEF TypeOK, DriveInv, NumDecrement, InDrive
<1>10. ASSUME NEW w \in Workers, ProcUndrive(w) PROVE DriveInv'
  BY <1>10 DEF TypeOK, DriveInv, ProcUndrive, InDrive
<1>11. ASSUME NEW w \in Workers, ProcsDriven(w) PROVE DriveInv'
  BY <1>11 DEF TypeOK, DriveInv, ProcsDriven, InDrive
<1>12. CASE BrokerMove
  BY <1>1, <1>12, BrokerMoveFrame
<1> QED
  BY <1>1, <1>2, <1>3, <1>4, <1>5, <1>6, <1>7, <1>8, <1>9, <1>10, <1>11, <1>12
     DEF Next, Broker, BrokerMove, Worker, procAdd, PoolCancel, RequestGet, LoadRead, vars

\* No step breaks what the broker's state says of its locals, and a worker that has
\* finished stays so.
LEMMA BrokerStep == TypeOK /\ BrokerInv /\ DriveInv /\ [Next]_vars => BrokerInv'
<1> SUFFICES ASSUME TypeOK, BrokerInv, DriveInv, [Next]_vars PROVE BrokerInv'
  OBVIOUS
<1> USE DEF sizeVars, selectVars, workerVars
<1>1. CASE UNCHANGED <<bState, sizeVars, selectVars, wState>>
  BY <1>1 DEF BrokerInv, InternalsDone, IdValid
<1>2. CASE BrokerMove
  <2>1. CASE BrokerInternalsStart
    BY <2>1 DEF TypeOK, BrokerInv, InternalsDone, BrokerInternalsStart, BrokerGoto
  <2>2. CASE InternalsCreated
    BY <2>2 DEF TypeOK, BrokerInv, InternalsDone, InternalsCreated, BrokerGoto
  <2>3. CASE BrokerSdDone
    BY <2>3 DEF TypeOK, BrokerInv, InternalsDone, BrokerSdDone, BrokerGoto
  <2>4. CASE LoadsRead
    BY <2>4 DEF TypeOK, BrokerInv, LoadsRead, BrokerGoto, clientVars, IdValid
  <2>5. CASE BrokerCanceled \/ BrokerStart \/ InternalCreateFail \/ BrokerMain \/ RequestsEnd
    BY <2>5 DEF TypeOK, BrokerInv, BrokerCanceled, BrokerStart, InternalCreateFail, BrokerMain,
       RequestsEnd, BrokerGoto
  <2> QED
    BY <1>2, <2>1, <2>2, <2>3, <2>4, <2>5 DEF BrokerMove
<1>3. CASE InternalCreate
  BY <1>3 DEF TypeOK, BrokerInv, InternalCreate
<1>4. CASE RequestGet
  <2>1. req' # NoProc
    BY <1>4, HeadTailProperties, PoolAssumption DEF TypeOK, RequestGet
  <2> QED
    BY <1>4, <2>1 DEF TypeOK, BrokerInv, RequestGet, IdValid
<1>5. CASE LoadRead
  BY <1>5 DEF TypeOK, BrokerInv, LoadRead, IdValid
<1>6. CASE procInternalAdd
  BY <1>6 DEF TypeOK, BrokerInv, procInternalAdd
<1>7. CASE BrokerSdStart
  BY <1>7 DEF TypeOK, BrokerInv, BrokerSdStart
<1>8. ASSUME NEW w \in Workers, WorkerStateNext(w) \/ ProcsDriven(w) PROVE BrokerInv'
  <2>1. wState[w] # "Finished"
    BY <1>8 DEF DriveInv, WorkerStateNext, WorkerGoto, ProcsDriven, InDrive, WorkerUp
  <2>2. UNCHANGED <<bState, sizeVars, selectVars>> /\ \A v \in Workers : v # w => wState'[v] = wState[v]
    BY <1>8 DEF TypeOK, WorkerStateNext, WorkerGoto, WorkerTick, ProcsDriven, InDrive
  <2>3. InternalsDone => InternalsDone'
    BY <2>1, <2>2 DEF InternalsDone
  <2> QED
    BY <2>2, <2>3 DEF BrokerInv, IdValid
<1> QED
  BY <1>1, <1>2, <1>3, <1>4, <1>5, <1>6, <1>7, <1>8
     DEF Next, Broker, BrokerMove, Worker, procAdd, PoolCancel, ProcsSplice, WorkerTick,
         ProcTick, ProcTickLast, NumDecrement, ProcUndrive, InDrive, vars

\* A worker is shut down only after it was canceled, and by then the broker adds
\* nothing to it: what the first splice() of its shutdown() takes over is all there is.
LEMMA WorkerStep == TypeOK /\ WorkerInv /\ BrokerInv /\ DriveInv /\ [Next]_vars => WorkerInv'
<1> SUFFICES ASSUME TypeOK, WorkerInv, BrokerInv, DriveInv, [Next]_vars PROVE WorkerInv'
  OBVIOUS
<1> USE DEF sizeVars, selectVars, workerVars, listVars, Held
<1>1. CASE UNCHANGED <<bState, sizeVars, workerVars, listVars>>
  BY <1>1 DEF WorkerInv
<1>2. CASE BrokerMove
  <2>1. UNCHANGED <<sizeVars, workerVars, listVars>>
    BY <1>2, BrokerMoveFrame
  <2>2. bState = "StBrokerSdStart" => bState' = "Finished"
    BY <1>2 DEF BrokerMove, BrokerCanceled, BrokerStart, BrokerInternalsStart, InternalCreateFail,
       InternalsCreated, BrokerMain, RequestsEnd, LoadsRead, BrokerSdDone, BrokerGoto
  <2>3. bState # "Finished"
    BY <1>2 DEF BrokerMove, BrokerCanceled, BrokerStart, BrokerInternalsStart, InternalCreateFail,
       InternalsCreated, BrokerMain, RequestsEnd, LoadsRead, BrokerSdDone, BrokerGoto
  <2> QED
    BY <2>1, <2>2, <2>3 DEF WorkerInv
<1>3. CASE InternalCreate
  BY <1>3 DEF TypeOK, WorkerInv, BrokerInv, InternalCreate, Workers, WorkerDown
<1>4. CASE RequestGet \/ LoadRead
  BY <1>4 DEF WorkerInv, RequestGet, LoadRead
<1>5. CASE procInternalAdd
  BY <1>5 DEF TypeOK, WorkerInv, BrokerInv, procInternalAdd, Workers, WorkerDown
<1>6. CASE BrokerSdStart
  <2>1. bState = "StSdStart" /\ UNCHANGED <<sizeVars, wState, drive, listVars>>
    BY <1>6 DEF BrokerSdStart
  <2>2. \/ UNCHANGED wCanceled
        \/ bState' = "StBrokerSdStart"
    BY <1>6 DEF BrokerSdStart
  <2>3. \A w \in Workers : ~wCanceled[w]
    BY <2>1 DEF WorkerInv
  <2>4. \A w \in Workers : wState[w] \notin WorkerDown \cup {"Finished"}
    BY <2>3 DEF WorkerInv
  <2>5. \A w \in Workers : wCanceled'[w] => bState' \in {"StBrokerSdStart", "Finished"}
    BY <2>2, <2>3
  <2> QED BY <2>1, <2>4, <2>5 DEF WorkerInv, WorkerDown
<1>7. ASSUME NEW w \in Workers, WorkerStateNext(w) PROVE WorkerInv'
  BY <1>7 DEF TypeOK, WorkerInv, WorkerStateNext, WorkerTick, WorkerGoto, WorkerUp, WorkerDown
<1>8. ASSUME NEW w \in Workers, ProcsSplice(w) PROVE WorkerInv'
  BY <1>8 DEF TypeOK, WorkerInv, ProcsSplice, WorkerTick
<1>9. ASSUME NEW w \in Workers, NEW p \in Procs, ProcTick(w, p) \/ ProcTickLast(w, p) PROVE WorkerInv'
  <2>1. CASE ProcTick(w, p)
    BY <2>1 DEF TypeOK, WorkerInv, ProcTick, InDrive
  <2>2. CASE ProcTickLast(w, p)
    BY <2>2 DEF TypeOK, WorkerInv, ProcTickLast, InDrive
  <2> QED
    BY <1>9, <2>1, <2>2
<1>10. ASSUME NEW w \in Workers, NumDecrement(w) PROVE WorkerInv'
  BY <1>10 DEF TypeOK, WorkerInv, NumDecrement, InDrive
<1>11. ASSUME NEW w \in Workers, ProcUndrive(w) PROVE WorkerInv'
  BY <1>11 DEF TypeOK, WorkerInv, DriveInv, ProcUndrive, InDrive
<1>12. ASSUME NEW w \in Workers, ProcsDriven(w) PROVE WorkerInv'
  BY <1>12 DEF TypeOK, WorkerInv, DriveInv, ProcsDriven, InDrive, StateSdAfterDrive, WorkerDown
<1> QED
  BY <1>1, <1>2, <1>3, <1>4, <1>5, <1>6, <1>7, <1>8, <1>9, <1>10, <1>11, <1>12
     DEF Next, Broker, BrokerMove, Worker, procAdd, PoolCancel, vars

-----------------------------------------------------------------------------
(* The invariants these are for *)

\* A worker that has finished has nothing and gets nothing.
LEMMA DrainedStep ==
    TypeOK /\ WorkerDrained /\ WorkerInv /\ BrokerInv /\ DriveInv /\ [Next]_vars => WorkerDrained'
<1> SUFFICES ASSUME TypeOK, WorkerDrained, WorkerInv, BrokerInv, DriveInv, [Next]_vars
             PROVE  WorkerDrained'
  OBVIOUS
<1> USE DEF workerVars, listVars, Held
<1>1. CASE UNCHANGED <<wState, mListProcsReq, mListProcs>>
  BY <1>1 DEF WorkerDrained
<1>2. CASE InternalCreate
  BY <1>2 DEF TypeOK, WorkerDrained, InternalCreate
<1>3. CASE procInternalAdd
  <2>1. \A w \in Workers : wState[w] # "Finished"
    BY <1>3 DEF WorkerInv, procInternalAdd
  <2> QED
    BY <1>3, <2>1 DEF WorkerDrained, procInternalAdd
<1>4. ASSUME NEW w \in Workers, WorkerStateNext(w) PROVE WorkerDrained'
  <2>1. wState'[w] # "Finished" /\ \A v \in Workers : v # w => wState'[v] = wState[v]
    BY <1>4 DEF TypeOK, WorkerStateNext, WorkerGoto
  <2>2. UNCHANGED <<mListProcsReq, mListProcs>>
    BY <1>4 DEF WorkerStateNext, WorkerGoto
  <2> QED
    BY <2>1, <2>2 DEF WorkerDrained
<1>5. ASSUME NEW w \in Workers, ProcsSplice(w) PROVE WorkerDrained'
  BY <1>5 DEF TypeOK, WorkerDrained, ProcsSplice, WorkerTick
<1>6. ASSUME NEW w \in Workers, ProcUndrive(w) PROVE WorkerDrained'
  BY <1>6 DEF TypeOK, WorkerDrained, ProcUndrive, InDrive
<1>7. ASSUME NEW w \in Workers, ProcsDriven(w) PROVE WorkerDrained'
  <2>1. wState'[w] = "Finished" => mListProcs[w] = {} /\ mListProcsReq[w] = {}
    BY <1>7 DEF TypeOK, WorkerInv, DriveInv, ProcsDriven, InDrive, StateSdAfterDrive
  <2>2. \A v \in Workers : v # w => wState'[v] = wState[v]
    BY <1>7 DEF TypeOK, ProcsDriven
  <2>3. UNCHANGED <<mListProcsReq, mListProcs>>
    BY <1>7 DEF ProcsDriven
  <2> QED
    BY <2>1, <2>2, <2>3 DEF WorkerDrained
<1>8. CASE BrokerMove
  BY <1>1, <1>8, BrokerMoveFrame
<1> QED
  BY <1>1, <1>2, <1>3, <1>4, <1>5, <1>6, <1>7, <1>8
     DEF Next, Broker, BrokerMove, Worker, procAdd, PoolCancel, RequestGet, LoadRead,
         BrokerSdStart, ProcTick, ProcTickLast, NumDecrement, vars

\* The broker alone raises a load, and never while it selects.
LEMMA ChoiceStep == TypeOK /\ ChoiceNotHeavier /\ BrokerInv /\ [Next]_vars => ChoiceNotHeavier'
<1> SUFFICES ASSUME TypeOK, ChoiceNotHeavier, BrokerInv, [Next]_vars PROVE ChoiceNotHeavier'
  OBVIOUS
<1> USE DEF selectVars, listVars
<1>1. CASE UNCHANGED <<bState, selectVars, mNumProcessing>>
  BY <1>1 DEF ChoiceNotHeavier
<1>2. CASE BrokerMove
  <2>1. UNCHANGED <<selectVars, mNumProcessing>>
    BY <1>2, BrokerMoveFrame
  <2>2. bState' \in {"select", "add"} => bState = "select"
    BY <1>2 DEF BrokerMove, BrokerCanceled, BrokerStart, BrokerInternalsStart, InternalCreateFail,
       InternalsCreated, BrokerMain, RequestsEnd, LoadsRead, BrokerSdDone, BrokerGoto
  <2> QED
    BY <2>1, <2>2 DEF ChoiceNotHeavier
<1>3. CASE RequestGet
  BY <1>3 DEF ChoiceNotHeavier, BrokerInv, RequestGet
<1>4. CASE LoadRead
  <2>1. idCurrent \in Workers
    BY <1>4, PoolAssumption DEF TypeOK, LoadRead, Workers
  <2>2. mNumProcessing[idCurrent] \in Nat /\ mNumProcessing[idSelected] \in Nat
    BY <2>1 DEF TypeOK
  <2>3. mNumProcessing'[idSelected'] <= numSelected'
    BY <1>4, <2>2 DEF TypeOK, ChoiceNotHeavier, LoadRead, LighterThanSelected
  <2> QED
    BY <2>3 DEF ChoiceNotHeavier
<1>5. CASE procInternalAdd
  BY <1>5 DEF ChoiceNotHeavier, procInternalAdd
<1>6. CASE BrokerSdStart
  BY <1>6 DEF ChoiceNotHeavier, BrokerSdStart
<1>7. ASSUME NEW w \in Workers, NumDecrement(w) PROVE ChoiceNotHeavier'
  <2>1. mNumProcessing'[idSelected] <= mNumProcessing[idSelected]
    BY <1>7 DEF TypeOK, NumDecrement
  <2>2. UNCHANGED <<bState, selectVars>> /\ mNumProcessing'[idSelected] \in Int
    BY <1>7 DEF TypeOK, NumDecrement, InDrive
  <2> QED
    BY <2>1, <2>2 DEF TypeOK, ChoiceNotHeavier
<1> QED
  BY <1>1, <1>2, <1>3, <1>4, <1>5, <1>6, <1>7
     DEF Next, Broker, BrokerMove, Worker, procAdd, PoolCancel, InternalCreate, WorkerStateNext,
         WorkerGoto, WorkerTick, ProcsSplice, ProcTick, ProcTickLast, ProcUndrive, ProcsDriven,
         InDrive, vars

\* The pipe, the broker and the workers pass each process on, and none is in two places.
LEMMA PlaceStep == TypeOK /\ OnePlace /\ BrokerInv /\ DriveInv /\ [Next]_vars => OnePlace'
<1> SUFFICES ASSUME TypeOK, OnePlace, BrokerInv, DriveInv, [Next]_vars PROVE OnePlace'
  OBVIOUS
<1> USE PoolAssumption DEF Held, clientVars, selectVars, workerVars, listVars
<1>1. CASE UNCHANGED <<clientVars, req, undriven, mListProcsReq, mListProcs>>
  BY <1>1 DEF OnePlace, Queued
<1>2. ASSUME NEW p \in Procs, procAdd(p) PROVE OnePlace'
  <2>1. p \notin Queued /\ ppPoolRequests \in Seq(Procs) /\ IsInjective(ppPoolRequests)
    BY <1>2 DEF TypeOK, OnePlace, procAdd
  <2>2. Queued' = Queued \cup {p} /\ IsInjective(ppPoolRequests')
    BY <1>2, <2>1, PipeAppend DEF Queued, procAdd
  <2> QED
    BY <1>2, <2>2 DEF TypeOK, OnePlace, procAdd
<1>3. CASE RequestGet
  <2>1. ppPoolRequests \in Seq(Procs) /\ IsInjective(ppPoolRequests) /\ req = NoProc
    BY <1>3 DEF TypeOK, OnePlace, BrokerInv, RequestGet
  <2>2. /\ Queued = Queued' \cup {req'} /\ req' \notin Queued' /\ req' \in Procs
        /\ IsInjective(ppPoolRequests')
    BY <1>3, <2>1, PipeTail DEF Queued, RequestGet
  <2> QED
    BY <1>3, <2>1, <2>2 DEF TypeOK, OnePlace, RequestGet
<1>4. CASE procInternalAdd
  <2>1. /\ req \in Procs /\ req' = NoProc /\ Queued' = Queued /\ idSelected \in Workers
        /\ UNCHANGED <<clientVars, undriven, mListProcs>>
    BY <1>4 DEF TypeOK, BrokerInv, Queued, procInternalAdd
  <2>2. /\ mListProcsReq'[idSelected] = mListProcsReq[idSelected] \cup {req}
        /\ \A w \in Workers : w # idSelected => mListProcsReq'[w] = mListProcsReq[w]
    BY <1>4, <2>1 DEF TypeOK, procInternalAdd
  <2>3. \A w \in Workers : Held(w)' = Held(w) \cup (IF w = idSelected THEN {req} ELSE {})
    BY <2>1, <2>2
  <2>4. \A w \in Workers : \A p \in Held(w)' : p \in Procs
    BY <2>1, <2>3 DEF TypeOK
  <2>5. \A p \in Procs : (p = req \/ \E w \in Workers : p \in Held(w)) <=> (\E w \in Workers : p \in Held(w)')
    BY <2>1, <2>3
  <2>6. submitted' = {p \in Procs : p \in Queued' \/ p = req' \/ p \in undriven'
                                       \/ \E w \in Workers : p \in Held(w)'}
    BY <2>1, <2>5 DEF OnePlace
  <2>7. \A w \in Workers : \A p \in Held(w)' :
            /\ p \notin Queued' /\ p # req' /\ p \notin undriven'
            /\ \A v \in Workers : p \in Held(v)' => v = w
    BY <2>1, <2>3, <2>4 DEF OnePlace
  <2>8. \A w \in Workers : \A p \in Held(w)' : p \notin mListProcsReq'[w] \cap mListProcs'[w]
    BY <2>1, <2>2 DEF OnePlace
  <2>9. IsInjective(ppPoolRequests') /\ (\A p \in Queued' : p # req' /\ p \notin undriven') /\ req' \notin undriven'
    <3>1. \A p \in Queued : p \in Procs
      BY DEF TypeOK, Queued, Range
    <3>2. undriven \subseteq Procs
      BY DEF TypeOK
    <3> QED
      BY <2>1, <3>1, <3>2 DEF OnePlace
  <2> QED
    BY <2>6, <2>7, <2>8, <2>9 DEF OnePlace
<1>5. ASSUME NEW w \in Workers, ProcsSplice(w) PROVE OnePlace'
  <2>1. UNCHANGED <<clientVars, req, undriven>> /\ Queued' = Queued
    BY <1>5 DEF Queued, ProcsSplice, WorkerTick
  <2>2. \A v \in Workers : Held(v)' = Held(v) /\ mListProcsReq'[v] \cap mListProcs'[v] = {}
    BY <1>5 DEF TypeOK, OnePlace, ProcsSplice
  <2> QED
    BY <2>1, <2>2 DEF OnePlace
<1>6. ASSUME NEW w \in Workers, ProcUndrive(w) PROVE OnePlace'
  <2>1. /\ cur[w] \in mListProcs[w] /\ cur[w] \in Procs /\ Queued' = Queued
        /\ undriven' = undriven \cup {cur[w]} /\ UNCHANGED <<clientVars, req, mListProcsReq>>
    BY <1>6 DEF TypeOK, DriveInv, Queued, ProcUndrive, InDrive
  <2>2. /\ mListProcs'[w] = mListProcs[w] \ {cur[w]}
        /\ \A v \in Workers : v # w => mListProcs'[v] = mListProcs[v]
    BY <1>6 DEF TypeOK, ProcUndrive
  <2>3. \A v \in Workers : Held(v)' = Held(v) \ {cur[w]}
    <3>1. cur[w] \notin mListProcsReq[w] /\ \A v \in Workers : v # w => cur[w] \notin Held(v)
      BY <2>1 DEF OnePlace
    <3> QED
      BY <2>1, <2>2, <3>1
  <2>4. \A p \in Procs : (p \in undriven \/ \E v \in Workers : p \in Held(v))
                             <=> (p \in undriven' \/ \E v \in Workers : p \in Held(v)')
    BY <2>1, <2>3
  <2>5. submitted' = {p \in Procs : p \in Queued' \/ p = req' \/ p \in undriven'
                                       \/ \E v \in Workers : p \in Held(v)'}
    BY <2>1, <2>4 DEF OnePlace
  <2>6. \A v \in Workers : \A p \in Held(v)' :
            /\ p \notin Queued' /\ p # req' /\ p \notin undriven'
            /\ p \notin mListProcsReq'[v] \cap mListProcs'[v]
            /\ \A u \in Workers : p \in Held(u)' => u = v
    BY <2>1, <2>2, <2>3 DEF OnePlace
  <2>7. (\A p \in Queued' : p # req' /\ p \notin undriven') /\ req' \notin undriven' /\ IsInjective(ppPoolRequests')
    BY <2>1 DEF OnePlace
  <2> QED
    BY <2>5, <2>6, <2>7 DEF OnePlace
<1>7. CASE BrokerMove
  BY <1>1, <1>7, BrokerMoveFrame
<1> QED
  BY <1>1, <1>2, <1>3, <1>4, <1>5, <1>6, <1>7
     DEF Next, Broker, BrokerMove, Worker, PoolCancel, InternalCreate, LoadRead, BrokerSdStart,
         WorkerStateNext, WorkerGoto, WorkerTick, ProcTick, ProcTickLast, NumDecrement,
         ProcsDriven, InDrive, vars

\* Adding, taking over and ending a process keep mNumProcessing its number.
LEMMA CountStep ==
    TypeOK /\ LoadCount /\ OnePlace /\ BrokerInv /\ DriveInv /\ [Next]_vars => LoadCount'
<1> SUFFICES ASSUME TypeOK, LoadCount, OnePlace, BrokerInv, DriveInv, [Next]_vars PROVE LoadCount'
  OBVIOUS
<1> USE DEF workerVars, listVars
<1>1. CASE UNCHANGED <<drive, mListProcsReq, mListProcs, mNumProcessing>>
  BY <1>1 DEF LoadCount, Held
<1>2. CASE procInternalAdd
  <2>1. PICK d \in Workers : d = idSelected
    BY DEF TypeOK
  <2>2. req \notin Held(d)
    BY DEF OnePlace
  <2>3. /\ mListProcsReq'[d] = mListProcsReq[d] \cup {req} /\ UNCHANGED <<mListProcs, drive>>
        /\ mNumProcessing'[d] = mNumProcessing[d] + 1
    BY <1>2, <2>1 DEF TypeOK, procInternalAdd
  <2>4. Held(d)' = Held(d) \cup {req}
    BY <2>3 DEF Held
  <2>5. Cardinality(Held(d)') = Cardinality(Held(d)) + 1 /\ Cardinality(Held(d)) \in Nat
    BY <2>2, <2>4, HeldFinite, FS_AddElement
  <2>6. \A w \in Workers : w # d => Held(w)' = Held(w) /\ mNumProcessing'[w] = mNumProcessing[w]
    BY <1>2, <2>1 DEF TypeOK, Held, procInternalAdd
  <2> QED
    BY <2>3, <2>5, <2>6 DEF LoadCount
<1>3. ASSUME NEW w \in Workers, ProcsSplice(w) PROVE LoadCount'
  <2>1. \A v \in Workers : Held(v)' = Held(v)
    BY <1>3 DEF TypeOK, Held, ProcsSplice
  <2>2. \A v \in Workers : drive'[v] = "undrive" <=> drive[v] = "undrive"
    BY <1>3 DEF TypeOK, ProcsSplice, WorkerTick
  <2>3. UNCHANGED mNumProcessing
    BY <1>3 DEF ProcsSplice
  <2> QED
    BY <2>1, <2>2, <2>3 DEF LoadCount
<1>4. ASSUME NEW w \in Workers,
             (\E p \in Procs : ProcTick(w, p) \/ ProcTickLast(w, p)) \/ ProcsDriven(w)
      PROVE  LoadCount'
  <2>1. UNCHANGED <<mListProcsReq, mListProcs, mNumProcessing>>
    BY <1>4 DEF ProcTick, ProcTickLast, ProcsDriven
  <2>2. \A v \in Workers : drive'[v] = "undrive" <=> drive[v] = "undrive"
    BY <1>4 DEF TypeOK, ProcTick, ProcTickLast, ProcsDriven, InDrive
  <2> QED
    BY <2>1, <2>2 DEF LoadCount, Held
<1>5. ASSUME NEW w \in Workers, NumDecrement(w) PROVE LoadCount'
  <2>1. \A v \in Workers : Held(v)' = Held(v)
    BY <1>5 DEF Held, NumDecrement
  <2>2. drive[w] = "finish" /\ drive'[w] = "undrive" /\ mNumProcessing'[w] = mNumProcessing[w] - 1
    BY <1>5 DEF TypeOK, NumDecrement, InDrive
  <2>3. \A v \in Workers : v # w => drive'[v] = drive[v] /\ mNumProcessing'[v] = mNumProcessing[v]
    BY <1>5 DEF TypeOK, NumDecrement, InDrive
  <2>4. Cardinality(Held(w)) \in Nat
    BY HeldFinite
  <2> QED
    BY <2>1, <2>2, <2>3, <2>4 DEF LoadCount
<1>6. ASSUME NEW w \in Workers, ProcUndrive(w) PROVE LoadCount'
  <2>1. cur[w] \in mListProcs[w] /\ cur[w] \notin mListProcsReq[w]
    BY <1>6 DEF DriveInv, OnePlace, Held, ProcUndrive, InDrive
  <2>2. Held(w)' = Held(w) \ {cur[w]} /\ cur[w] \in Held(w)
    BY <1>6, <2>1 DEF TypeOK, Held, ProcUndrive
  <2>3. Cardinality(Held(w)') = Cardinality(Held(w)) - 1
    BY <2>2, HeldFinite, FS_RemoveElement
  <2>4. drive[w] = "undrive" /\ drive'[w] = "pass" /\ UNCHANGED mNumProcessing
    BY <1>6 DEF TypeOK, ProcUndrive, InDrive
  <2>5. \A v \in Workers : v # w => Held(v)' = Held(v) /\ drive'[v] = drive[v]
    BY <1>6 DEF TypeOK, Held, ProcUndrive, InDrive
  <2>6. Cardinality(Held(w)) \in Nat
    BY HeldFinite
  <2> QED
    BY <2>3, <2>4, <2>5, <2>6 DEF LoadCount
<1>7. CASE BrokerMove
  BY <1>1, <1>7, BrokerMoveFrame
<1> QED
  BY <1>1, <1>2, <1>3, <1>4, <1>5, <1>6, <1>7
     DEF Next, Broker, BrokerMove, Worker, procAdd, PoolCancel, InternalCreate, RequestGet,
         LoadRead, BrokerSdStart, WorkerStateNext, WorkerGoto, WorkerTick, vars

-----------------------------------------------------------------------------
(* Theorems *)

\* The state before the first tick satisfies the invariant.
LEMMA InitIInv == Init => IInv
<1> SUFFICES ASSUME Init PROVE IInv
  OBVIOUS
<1> USE PoolAssumption DEF Init
<1>1. TypeOK
  <2>1. 0 \in Workers /\ 0 \in 0 .. mCntInternals /\ 0 \in 0 .. MaxWorkers
    BY DEF Workers
  <2> QED
    BY <2>1 DEF TypeOK, BrokerUp
<1>2. OnePlace
  BY DEF OnePlace, Queued, Held, Range, IsInjective
<1>3. LoadCount
  <2>1. \A w \in Workers : Held(w) = {} /\ mNumProcessing[w] = 0 /\ drive[w] = "idle"
    BY DEF Held
  <2>2. Cardinality({}) - 0 = 0
    BY FS_EmptySet
  <2> QED
    BY <2>1, <2>2 DEF LoadCount
<1>4. WorkerDrained /\ ChoiceNotHeavier /\ DriveInv
  BY DEF WorkerDrained, ChoiceNotHeavier, DriveInv, Held
<1>5. BrokerInv
  BY DEF BrokerInv
<1>6. WorkerInv
  BY DEF WorkerInv, WorkerDown, Workers, Held
<1> QED
  BY <1>1, <1>2, <1>3, <1>4, <1>5, <1>6 DEF IInv

\* Every step of the clients, the broker and the workers keeps the invariant.
LEMMA NextIInv == IInv /\ [Next]_vars => IInv'
  BY TypeStep, DriveStep, BrokerStep, WorkerStep, DrainedStep, ChoiceStep, PlaceStep, CountStep DEF IInv

\* IInv holds in every state ThreadPooling.cpp reaches.
THEOREM Invariance == Spec => []IInv
  BY InitIInv, NextIInv, PTL DEF Spec

\* The types of the state of ThreadPooling.cpp.
THEOREM TypeCorrect == Spec => []TypeOK
<1>1. IInv => TypeOK
  BY DEF IInv
<1> QED
  BY <1>1, Invariance, PTL

\* No process is lost, doubled or ticked by two threads.
THEOREM EachInOnePlace == Spec => []OnePlace
<1>1. IInv => OnePlace
  BY DEF IInv
<1> QED
  BY <1>1, Invariance, PTL

\* mNumProcessing is the number it stands for.
THEOREM LoadsCounted == Spec => []LoadCount
<1>1. IInv => LoadCount
  BY DEF IInv
<1> QED
  BY <1>1, Invariance, PTL

\* The driver idDriverNextGet() selects is no heavier than it was read to be.
THEOREM ChoiceStaysLight == Spec => []ChoiceNotHeavier
<1>1. IInv => ChoiceNotHeavier
  BY DEF IInv
<1> QED
  BY <1>1, Invariance, PTL

\* Nothing is left with a worker that reported the end of its shutdown().
THEOREM WorkersDrain == Spec => []WorkerDrained
<1>1. IInv => WorkerDrained
  BY DEF IInv
<1> QED
  BY <1>1, Invariance, PTL

\* Nothing the workers were given is left when the pool reports the end of its shutdown().
THEOREM PoolDrains == Spec => []PoolStopped
<1>1. IInv => PoolStopped
  <2> SUFFICES ASSUME IInv, bState = "Finished", NEW p \in submitted, p \notin undriven
               PROVE  p \in Queued
    BY DEF PoolStopped
  <2>1. req = NoProc /\ numInternals = mCntInternals /\ InternalsDone
    BY DEF IInv, BrokerInv
  <2>2. \A w \in Workers : Held(w) = {}
    <3> SUFFICES ASSUME NEW w \in Workers PROVE Held(w) = {}
      OBVIOUS
    <3>1. CASE w < mCntInternals
      BY <2>1, <3>1 DEF IInv, WorkerDrained, InternalsDone
    <3>2. CASE w >= mCntInternals
      BY <2>1, <3>2 DEF IInv, WorkerInv
    <3>3. w \in Int /\ mCntInternals \in Int
      BY PoolAssumption DEF IInv, TypeOK, Workers
    <3> QED
      BY <3>1, <3>2, <3>3
  <2>3. p \in Procs /\ (p \in Queued \/ p = req \/ \E w \in Workers : p \in Held(w))
    BY DEF IInv, OnePlace
  <2> QED
    BY <2>1, <2>2, <2>3, PoolAssumption
<1> QED
  BY <1>1, Invariance, PTL

-----------------------------------------------------------------------------
(* The loads stay balanced.  While they are, and no process has ended, a load *)
(* changes by procInternalAdd() only, so that what idDriverNextGet() has read *)
(* is still true when it is used.                                             *)

\* The premise of Balanced: no process has come to its end, none was for a driver.
Even ==
    /\ undriven = {} /\ \A w \in Workers : drive[w] # "undrive"
    /\ \A w \in Workers : \A p \in Held(w) : ~IdValid(Desired[p])

Selecting == {"StBrokerMain", "get", "select", "add"}
Lightest(id, ids) == \A v \in ids : mNumProcessing[id] <= mNumProcessing[v]

\* The loads are nothing at first, and then within one of each other.
SpreadInv ==
    /\ bState \in {"StStart", "StBrokerStart", "create"} => \A w \in Workers : mNumProcessing[w] = 0
    /\ Even /\ bState \in Selecting =>
          \A v, w \in 0 .. numInternals - 1 : mNumProcessing[v] <= mNumProcessing[w] + 1

\* The driver selected so far is the lightest of those that were read, or of all.
SelectInv ==
    /\ Even /\ bState = "select" /\ idCurrent > 0 =>
          mNumProcessing[idSelected] = numSelected /\ Lightest(idSelected, 0 .. idCurrent - 1)
    /\ Even /\ bState = "add" /\ ~IdValid(Desired[req]) => Lightest(idSelected, 0 .. numInternals - 1)

BalanceInv == SpreadInv /\ SelectInv

\* A step that leaves the premise true had it true, and changes no load but that of the
\* driver a request is added to.
LEMMA EvenStep ==
    ASSUME TypeOK, BrokerInv, [Next]_vars, Even'
    PROVE  /\ Even
           /\ \/ mNumProcessing' = mNumProcessing
              \/ procInternalAdd /\ ~IdValid(Desired[req])
<1> USE DEF clientVars, sizeVars, selectVars, workerVars, listVars
<1>1. CASE UNCHANGED <<undriven, drive, mListProcsReq, mListProcs, mNumProcessing, mCntInternals>>
  BY <1>1 DEF Even, Held, IdValid
<1>2. CASE BrokerMove
  BY <1>1, <1>2, BrokerMoveFrame
<1>3. CASE procInternalAdd
  <2>1. UNCHANGED <<undriven, drive, mListProcs, mCntInternals>>
    BY <1>3 DEF procInternalAdd
  <2>2. mListProcsReq' = [mListProcsReq EXCEPT ![idSelected] = @ \cup {req}]
    BY <1>3 DEF procInternalAdd
  <2>3. idSelected \in Workers /\ req \in mListProcsReq'[idSelected]
    BY <2>2 DEF TypeOK
  <2>4. \A w \in Workers : Held(w) \subseteq Held(w)'
    BY <2>1, <2>2 DEF TypeOK, Held
  <2>5. \A w \in Workers : \A p \in Held(w)' : ~IdValid(Desired[p])
    BY <2>1 DEF Even, IdValid
  <2>6. undriven = {} /\ \A w \in Workers : drive[w] # "undrive"
    BY <2>1 DEF Even
  <2>7. ~IdValid(Desired[req])
    BY <2>3, <2>5 DEF Held
  <2>8. \A w \in Workers : \A p \in Held(w) : ~IdValid(Desired[p])
    BY <2>4, <2>5
  <2> QED
    BY <1>3, <2>6, <2>7, <2>8 DEF Even
<1>4. ASSUME NEW w \in Workers, ProcsSplice(w)
      PROVE  Even /\ mNumProcessing' = mNumProcessing
  <2>1. /\ UNCHANGED <<undriven, mNumProcessing, mCntInternals>>
        /\ drive[w] = "idle" /\ drive' = [drive EXCEPT ![w] = "pass"]
        /\ mListProcs' = [mListProcs EXCEPT ![w] = @ \cup mListProcsReq[w]]
        /\ mListProcsReq' = [mListProcsReq EXCEPT ![w] = {}]
    BY <1>4 DEF ProcsSplice, WorkerTick
  <2>2. \A v \in Workers : Held(v)' = Held(v)
    BY <2>1 DEF TypeOK, Held
  <2>3. \A v \in Workers : drive[v] = drive'[v] \/ drive[v] = "idle"
    BY <2>1 DEF TypeOK
  <2> QED
    BY <2>1, <2>2, <2>3 DEF Even, IdValid
<1>5. ASSUME NEW w \in Workers, NEW p \in Procs, ProcTick(w, p) \/ ProcTickLast(w, p)
      PROVE  Even /\ mNumProcessing' = mNumProcessing
  <2>1. /\ UNCHANGED <<undriven, mNumProcessing, mCntInternals, mListProcs, mListProcsReq>>
        /\ drive[w] = "pass" /\ \E to \in {"pass", "finish"} : drive' = [drive EXCEPT ![w] = to]
    BY <1>5 DEF ProcTick, ProcTickLast, InDrive
  <2>2. \A v \in Workers : drive[v] = drive'[v] \/ drive[v] = "pass"
    BY <2>1 DEF TypeOK
  <2> QED
    BY <2>1, <2>2 DEF Even, Held, IdValid
<1>6. ASSUME NEW w \in Workers, NumDecrement(w) \/ ProcUndrive(w)
      PROVE  FALSE
  <2>1. CASE NumDecrement(w)
    BY <2>1 DEF NumDecrement, InDrive, TypeOK, Even
  <2>2. CASE ProcUndrive(w)
    BY <2>2 DEF ProcUndrive, Even
  <2> QED
    BY <1>6, <2>1, <2>2
<1>7. ASSUME NEW w \in Workers, Worker(w)
      PROVE  Even /\ mNumProcessing' = mNumProcessing
  <2>1. CASE WorkerStateNext(w)
    <3>1. UNCHANGED <<undriven, drive, mListProcsReq, mListProcs, mNumProcessing, mCntInternals>>
      BY <2>1 DEF WorkerStateNext, WorkerTick, WorkerGoto
    <3> QED
      BY <3>1 DEF Even, Held, IdValid
  <2>2. CASE ProcsDriven(w)
    <3>1. /\ UNCHANGED <<undriven, mNumProcessing, mCntInternals, mListProcs, mListProcsReq>>
          /\ drive[w] = "pass" /\ drive' = [drive EXCEPT ![w] = "idle"]
      BY <2>2 DEF ProcsDriven, InDrive
    <3>2. \A v \in Workers : drive[v] = drive'[v] \/ drive[v] = "pass"
      BY <3>1 DEF TypeOK
    <3> QED
      BY <3>1, <3>2 DEF Even, Held, IdValid
  <2> QED
    BY <1>4, <1>5, <1>6, <1>7, <2>1, <2>2 DEF Worker
<1> QED
  BY <1>1, <1>2, <1>3, <1>7
     DEF Next, Broker, BrokerMove, procAdd, PoolCancel, InternalCreate, RequestGet, LoadRead,
         BrokerSdStart, vars

\* The broker only gets to its loop from the creation of its workers, and to the end of
\* idDriverNextGet() with all of the loads read.
LEMMA BrokerMoveSelects ==
    ASSUME BrokerMove
    PROVE  /\ bState' \in {"StStart", "StBrokerStart", "create"} =>
                 bState \in {"StStart", "StBrokerStart", "create"}
           /\ bState' \in Selecting => bState \in Selecting \/ bState = "create"
           /\ bState' # "select"
           /\ bState' = "add" => bState = "select" /\ idCurrent >= numInternals
  BY DEF BrokerMove, BrokerCanceled, BrokerStart, BrokerInternalsStart, InternalCreateFail,
         InternalsCreated, BrokerMain, RequestsEnd, LoadsRead, BrokerSdDone, BrokerGoto, Selecting

\* Loads that do not change stay spread.
LEMMA SpreadStep ==
    ASSUME TypeOK, DriveInv, LoadCount, BrokerInv, BalanceInv, [Next]_vars
    PROVE  SpreadInv'
<1> USE DEF clientVars, sizeVars, selectVars, workerVars, listVars
<1>1. ASSUME bState' \in {"StStart", "StBrokerStart", "create"} PROVE \A w \in Workers : mNumProcessing'[w] = 0
  <2>1. bState \in {"StStart", "StBrokerStart", "create"}
    BY <1>1, BrokerMoveSelects
       DEF Next, Broker, BrokerMove, Worker, procAdd, PoolCancel, InternalCreate, RequestGet, LoadRead,
           procInternalAdd, BrokerSdStart, WorkerStateNext, WorkerTick, WorkerGoto, ProcsSplice, ProcTick,
           ProcTickLast, NumDecrement, ProcUndrive, ProcsDriven, InDrive, vars
  <2>2. \A w \in Workers : mNumProcessing[w] = 0
    BY <2>1 DEF BalanceInv, SpreadInv
  <2>3. ASSUME NEW w \in Workers, NumDecrement(w) PROVE FALSE
    <3>1. drive[w] = "finish"
      BY <2>3 DEF NumDecrement, InDrive
    <3> QED
      BY <3>1, <2>2, LoadPositive
  <2>4. mNumProcessing' = mNumProcessing
    BY <2>1, <2>3, BrokerMoveFrame
       DEF Next, Broker, BrokerMove, Worker, procAdd, PoolCancel, InternalCreate, RequestGet, LoadRead,
           procInternalAdd, BrokerSdStart, WorkerStateNext, WorkerTick, WorkerGoto, ProcsSplice, ProcTick,
           ProcTickLast, ProcUndrive, ProcsDriven, vars
  <2> QED
    BY <2>2, <2>4
<1>2. ASSUME Even', bState' \in Selecting, NEW v \in 0 .. numInternals' - 1, NEW w \in 0 .. numInternals' - 1
      PROVE  mNumProcessing'[v] <= mNumProcessing'[w] + 1
  <2>1. Even /\ (mNumProcessing' = mNumProcessing \/ (procInternalAdd /\ ~IdValid(Desired[req])))
    BY <1>2, EvenStep
  <2>2. /\ bState \in Selecting \/ bState = "create"
        /\ numInternals' = numInternals
    BY <1>2, BrokerMoveSelects, BrokerMoveFrame
       DEF Next, Broker, BrokerMove, Worker, procAdd, PoolCancel, InternalCreate, RequestGet, LoadRead,
           procInternalAdd, BrokerSdStart, WorkerStateNext, WorkerTick, WorkerGoto, ProcsSplice, ProcTick,
           ProcTickLast, NumDecrement, ProcUndrive, ProcsDriven, InDrive, vars, Selecting
  <2>3. v \in Workers /\ w \in Workers
    BY <2>2, PoolAssumption DEF TypeOK, Workers
  <2>4. mNumProcessing[v] \in Nat /\ mNumProcessing[w] \in Nat /\ mNumProcessing[v] <= mNumProcessing[w] + 1
    <3>1. mNumProcessing[v] \in Nat /\ mNumProcessing[w] \in Nat
      BY <2>3 DEF TypeOK
    <3>2. CASE bState = "create"
      BY <2>3, <3>1, <3>2 DEF BalanceInv, SpreadInv
    <3>3. CASE bState \in Selecting
      BY <1>2, <2>1, <2>2, <3>1, <3>3 DEF BalanceInv, SpreadInv
    <3> QED
      BY <2>2, <3>2, <3>3
  <2>5. CASE mNumProcessing' = mNumProcessing
    BY <2>4, <2>5
  <2>6. CASE procInternalAdd /\ ~IdValid(Desired[req])
    <3>1. mNumProcessing' = [mNumProcessing EXCEPT ![idSelected] = @ + 1] /\ bState = "add"
      BY <2>6 DEF procInternalAdd
    <3>2. mNumProcessing[idSelected] <= mNumProcessing[w]
      BY <1>2, <2>1, <2>2, <2>6, <3>1 DEF BalanceInv, SelectInv, Lightest
    <3>3. CASE v = idSelected
      BY <2>3, <2>4, <3>1, <3>2, <3>3 DEF TypeOK
    <3>4. CASE v # idSelected
      BY <2>3, <2>4, <3>1, <3>4 DEF TypeOK
    <3> QED
      BY <3>3, <3>4
  <2> QED
    BY <2>1, <2>5, <2>6
<1> QED
  BY <1>1, <1>2 DEF SpreadInv

\* The choice in progress stays the lightest.
LEMMA SelectStep ==
    ASSUME TypeOK, BrokerInv, SelectInv, [Next]_vars
    PROVE  SelectInv'
<1> USE DEF clientVars, sizeVars, selectVars, workerVars, listVars
<1>1. CASE UNCHANGED <<bState, selectVars, numInternals, mCntInternals>>
  <2>1. ASSUME Even' PROVE Even /\ mNumProcessing' = mNumProcessing
    <3>1. ~procInternalAdd
      BY <1>1 DEF procInternalAdd
    <3> QED
      BY <2>1, <3>1, EvenStep
  <2>2. ASSUME Even', bState' = "select", idCurrent' > 0
        PROVE  /\ mNumProcessing'[idSelected'] = numSelected'
               /\ Lightest(idSelected, 0 .. idCurrent - 1)'
    BY <1>1, <2>1, <2>2 DEF SelectInv, Lightest
  <2>3. ASSUME Even', bState' = "add", ~IdValid(Desired[req])'
        PROVE  Lightest(idSelected, 0 .. numInternals - 1)'
    BY <1>1, <2>1, <2>3 DEF SelectInv, Lightest, IdValid
  <2> QED
    BY <2>2, <2>3 DEF SelectInv
<1>2. CASE bState' \notin {"select", "add"}
  BY <1>2 DEF SelectInv
<1>3. CASE BrokerMove
  <2>1. /\ bState' # "select"
        /\ bState' = "add" => bState = "select" /\ idCurrent >= numInternals
        /\ UNCHANGED <<sizeVars, mNumProcessing>>
    BY <1>3, BrokerMoveSelects, BrokerMoveFrame
  <2>2. ASSUME Even', bState' = "add" PROVE Lightest(idSelected, 0 .. numInternals - 1)'
    <3>1. Even
      <4>1. ~procInternalAdd
        BY <2>1, <2>2 DEF procInternalAdd
      <4> QED
        BY <2>2, <4>1, EvenStep
    <3>2. idCurrent = numInternals /\ numInternals > 0 /\ bState = "select"
      BY <2>1, <2>2 DEF BrokerInv, TypeOK
    <3>3. Lightest(idSelected, 0 .. numInternals - 1)
      BY <3>1, <3>2 DEF SelectInv
    <3>4. idSelected' = idSelected
      BY <1>3, <2>2 DEF BrokerMove, BrokerCanceled, BrokerStart, BrokerInternalsStart, InternalCreateFail,
         InternalsCreated, BrokerMain, RequestsEnd, LoadsRead, BrokerSdDone, BrokerGoto
    <3> QED
      BY <2>1, <3>3, <3>4 DEF Lightest
  <2> QED
    BY <2>1, <2>2 DEF SelectInv
<1>4. CASE RequestGet
  <2>1. idCurrent' = 0
    BY <1>4 DEF RequestGet, BrokerInv
  <2>2. bState' = "add" => IdValid(Desired[req])'
    BY <1>4 DEF RequestGet, IdValid
  <2> QED
    BY <2>1, <2>2 DEF SelectInv
<1>5. CASE LoadRead
  <2>1. /\ bState = "select" /\ bState' = "select" /\ idCurrent' = idCurrent + 1
        /\ mNumProcessing' = mNumProcessing
        /\ idCurrent \in Nat /\ idCurrent \in Workers
    BY <1>5, PoolAssumption DEF LoadRead, TypeOK, Workers
  <2>2. ~procInternalAdd
    BY <2>1 DEF procInternalAdd
  <2> SUFFICES ASSUME Even'
               PROVE  /\ mNumProcessing'[idSelected'] = numSelected'
                      /\ \A v \in 0 .. idCurrent' - 1 : mNumProcessing'[idSelected'] <= mNumProcessing'[v]
    BY <2>1 DEF SelectInv, Lightest
  <2>3. Even
    BY <2>2, EvenStep
  <2>4. \A v \in 0 .. idCurrent : mNumProcessing[v] \in Nat
    BY <2>1, PoolAssumption DEF TypeOK, Workers
  <2>5. \A v \in 0 .. idCurrent : v \in 0 .. idCurrent - 1 \/ v = idCurrent
    BY <2>1
  <2>6. idCurrent > 0 => /\ mNumProcessing[idSelected] = numSelected
                         /\ \A v \in 0 .. idCurrent - 1 : mNumProcessing[idSelected] <= mNumProcessing[v]
    BY <2>1, <2>3 DEF SelectInv, Lightest
  <2>7. CASE LighterThanSelected
    <3>1. numSelected' = mNumProcessing[idCurrent] /\ idSelected' = idCurrent
      BY <1>5, <2>7 DEF LoadRead
    <3>2. idCurrent > 0 => mNumProcessing[idCurrent] < numSelected
      BY <2>7 DEF LighterThanSelected
    <3>3. ASSUME NEW v \in 0 .. idCurrent PROVE mNumProcessing[idCurrent] <= mNumProcessing[v]
      <4>1. CASE v = idCurrent
        BY <2>4, <4>1
      <4>2. CASE v # idCurrent
        <5>1. idCurrent > 0 /\ v \in 0 .. idCurrent - 1
          BY <2>1, <3>3, <4>2
        <5>2. numSelected <= mNumProcessing[v]
          BY <2>6, <5>1
        <5>3. mNumProcessing[v] \in Nat /\ mNumProcessing[idCurrent] \in Nat /\ numSelected \in Nat
          BY <2>1, <2>4, <3>3 DEF TypeOK
        <5> QED
          BY <3>2, <5>1, <5>2, <5>3
      <4> QED
        BY <4>1, <4>2
    <3> QED
      BY <2>1, <3>1, <3>3
  <2>8. CASE ~LighterThanSelected
    <3>1. numSelected' = numSelected /\ idSelected' = idSelected
      BY <1>5, <2>8 DEF LoadRead
    <3>2. idCurrent > 0 /\ ~(mNumProcessing[idCurrent] < numSelected)
      BY <2>1, <2>8 DEF LighterThanSelected
    <3>3. mNumProcessing[idSelected] <= mNumProcessing[idCurrent]
      BY <2>1, <2>4, <2>6, <3>2 DEF TypeOK
    <3> QED
      BY <2>1, <2>5, <2>6, <3>1, <3>2, <3>3
  <2> QED
    BY <2>7, <2>8
<1>6. CASE procInternalAdd \/ InternalCreate \/ BrokerSdStart
  BY <1>2, <1>6 DEF procInternalAdd, InternalCreate, BrokerSdStart
<1>7. ASSUME NEW w \in Workers, Worker(w) PROVE SelectInv'
  BY <1>1, <1>7 DEF Worker, WorkerStateNext, WorkerTick, ProcsSplice, ProcTick, ProcTickLast,
     NumDecrement, ProcUndrive, ProcsDriven, InDrive
<1>8. ASSUME NEW p \in Procs, procAdd(p) PROVE SelectInv'
  BY <1>1, <1>8 DEF procAdd
<1> QED
  BY <1>1, <1>3, <1>4, <1>5, <1>6, <1>7, <1>8 DEF Next, Broker, BrokerMove, PoolCancel, vars

\* The loads are balanced from the start.
LEMMA BalanceInit == Init => BalanceInv
  BY DEF Init, BalanceInv, SpreadInv, SelectInv, Selecting

\* idDriverNextGet() hands out work evenly: without drivers asked for, and until a process
\* ends, no worker of a pool of any size has two processes more than another.
THEOREM LoadsStayBalanced == Spec => []Balanced
<1>1. Init => BalanceInv
  BY BalanceInit
<1>2. IInv /\ BalanceInv /\ [Next]_vars => BalanceInv'
  BY SpreadStep, SelectStep DEF IInv, BalanceInv
<1>3. BalanceInv => Balanced
  BY DEF BalanceInv, SpreadInv, Balanced, Even, Selecting
<1> QED
  BY <1>1, <1>2, <1>3, Invariance, PTL DEF Spec

-----------------------------------------------------------------------------
(* ThreadPooling implements ProcessPool (its safety part) *)

\* A request in front of a pipe: what Head(), Tail() and Append() make of it.
LEMMA FrontOfPipe ==
    ASSUME NEW S, NEW s \in Seq(S), NEW e \in S
    PROVE  /\ <<e>> \o s # <<>> /\ Head(<<e>> \o s) = e /\ Tail(<<e>> \o s) = s
           /\ \A x \in S : Append(<<e>> \o s, x) = <<e>> \o Append(s, x)
           /\ s # <<>> => <<Head(s)>> \o Tail(s) = s
  OBVIOUS

\* The abstract pool's variables, as ThreadPooling has them.
poolQueue == IF req = NoProc THEN ppPoolRequests ELSE <<req>> \o ppPoolRequests
poolDriven == [w \in Workers |-> Held(w)]
poolPhase == IF bState \in BrokerUp THEN "open"
             ELSE IF bState = "Finished" THEN "stopped" ELSE "closing"
poolMapped == <<mCntInternals, poolQueue, poolDriven, undriven, poolPhase>>

\* The first states of ThreadPooling are first states of ProcessPool.
LEMMA PoolInitMapped == Init => Pool!PoolInit
<1> SUFFICES ASSUME Init PROVE Pool!PoolInit
  OBVIOUS
<1>1. poolQueue = <<>> /\ poolPhase = "open"
  BY DEF Init, poolQueue, poolPhase, BrokerUp
<1>2. poolDriven = [w \in Workers |-> {}]
  BY DEF Init, poolDriven, Held
<1> QED
  BY <1>1, <1>2 DEF Pool!PoolInit, Pool!Drivers, Workers, Init, poolQueue, poolPhase, poolDriven

\* Each step of ThreadPooling.cpp is a step of ProcessPool or leaves it as it is.
LEMMA PoolStepMapped == IInv /\ [Next]_vars => [Pool!PoolNext]_(Pool!poolVars)
<1> SUFFICES ASSUME IInv, [Next]_vars
             PROVE  Pool!PoolNext \/ UNCHANGED poolMapped
  BY DEF Pool!poolVars, poolMapped, poolQueue, poolDriven, poolPhase
<1>0. TypeOK /\ OnePlace /\ BrokerInv /\ DriveInv /\ WorkerInv /\ WorkerDrained
  BY DEF IInv
<1> USE DEF clientVars, sizeVars, selectVars, workerVars, listVars
<1>1. CASE UNCHANGED <<ppPoolRequests, req, mCntInternals, undriven, bState, mListProcsReq, mListProcs>>
  BY <1>1 DEF poolMapped, poolQueue, poolDriven, poolPhase, Held
<1>2. ASSUME NEW p \in Procs, procAdd(p) PROVE Pool!Submit(p)
  <2>1. ~Pool!Known(p)
    <3>1. p \notin Queued /\ p # req /\ p \notin undriven /\ \A w \in Workers : p \notin Held(w)
      BY <1>0, <1>2 DEF OnePlace, procAdd
    <3>2. CASE req = NoProc
      BY <3>1, <3>2 DEF Pool!Known, Pool!Drivers, Pool!Range, Range, Workers, Queued
    <3>3. CASE req # NoProc
      <4>1. Range(<<req>> \o ppPoolRequests) \subseteq {req} \cup Queued
        BY <1>0, <3>3 DEF TypeOK, Range, Queued
      <4> QED
        BY <3>1, <3>3, <4>1 DEF Pool!Known, Pool!Drivers, Pool!Range, Range, Workers
    <3> QED
      BY <3>2, <3>3
  <2>2. poolQueue' = Append(poolQueue, p)
    BY <1>0, <1>2, FrontOfPipe DEF TypeOK, poolQueue, procAdd
  <2>3. UNCHANGED <<mCntInternals, poolDriven, undriven, poolPhase>>
    BY <1>2 DEF poolDriven, poolPhase, Held, procAdd
  <2> QED
    BY <2>1, <2>2, <2>3 DEF Pool!Submit, poolQueue, poolDriven, poolPhase
<1>3. CASE BrokerMove
  <2>1. UNCHANGED <<mCntInternals, poolQueue, poolDriven, undriven>>
    BY <1>3, BrokerMoveFrame DEF poolQueue, poolDriven, Held
  <2>2. CASE BrokerSdDone
    <3>1. poolPhase = "closing" /\ poolPhase' = "stopped"
      BY <2>2 DEF BrokerSdDone, BrokerGoto, poolPhase, BrokerUp
    <3>2. \A d \in Workers : Held(d) = {}
      <4> SUFFICES ASSUME NEW d \in Workers PROVE Held(d) = {}
        OBVIOUS
      <4>1. numInternals = mCntInternals /\ d \in Int /\ mCntInternals \in Int
        BY <1>0, <2>2, PoolAssumption DEF TypeOK, BrokerInv, BrokerSdDone, BrokerGoto, Workers
      <4>2. CASE d < mCntInternals
        BY <1>0, <2>2, <4>2 DEF BrokerSdDone, InternalsDone, WorkerDrained
      <4>3. CASE d >= mCntInternals
        BY <1>0, <4>1, <4>3 DEF WorkerInv
      <4> QED
        BY <4>1, <4>2, <4>3
    <3>3. Pool!Stop
      BY <2>1, <3>1, <3>2
         DEF Pool!Stop, Pool!Drivers, Workers, poolQueue, poolDriven, poolPhase
    <3> QED
      BY <3>3 DEF Pool!PoolNext
  <2>3. CASE bState \in BrokerUp /\ bState' \in BrokerUp
    BY <2>1, <2>3 DEF poolMapped, poolPhase
  <2>4. CASE bState \in BrokerUp /\ bState' = "StSdStart"
    <3>1. poolPhase = "open" /\ poolPhase' = "closing"
      BY <2>4 DEF poolPhase, BrokerUp
    <3>2. Pool!Close
      BY <2>1, <3>1 DEF Pool!Close, poolQueue, poolDriven, poolPhase
    <3> QED
      BY <3>2 DEF Pool!PoolNext
  <2>5. \/ BrokerSdDone
        \/ bState \in BrokerUp /\ (bState' \in BrokerUp \/ bState' = "StSdStart")
    BY <1>3 DEF BrokerMove, BrokerCanceled, BrokerStart, BrokerInternalsStart, InternalCreateFail,
       InternalsCreated, BrokerMain, RequestsEnd, LoadsRead, BrokerGoto, BrokerUp
  <2> QED
    BY <2>2, <2>3, <2>4, <2>5
<1>4. CASE RequestGet
  <2>1. req = NoProc /\ req' # NoProc /\ poolQueue' = poolQueue
    <3>1. req = NoProc
      BY <1>0, <1>4 DEF BrokerInv, RequestGet
    <3>2. Head(ppPoolRequests) \in Procs /\ <<Head(ppPoolRequests)>> \o Tail(ppPoolRequests) = ppPoolRequests
      BY <1>0, <1>4, FrontOfPipe, HeadTailProperties DEF TypeOK, RequestGet
    <3>3. req' # NoProc
      BY <1>4, <3>2, PoolAssumption DEF RequestGet
    <3> QED
      BY <1>4, <3>1, <3>2, <3>3 DEF RequestGet, poolQueue
  <2>2. UNCHANGED <<mCntInternals, poolDriven, undriven>>
    BY <1>4 DEF RequestGet, poolDriven, Held
  <2>3. UNCHANGED poolPhase
    BY <1>4 DEF RequestGet, poolPhase, BrokerUp
  <2> QED
    BY <2>1, <2>2, <2>3 DEF poolMapped
<1>5. CASE procInternalAdd
  <2>1. PICK d \in Workers : d = idSelected
    BY <1>0 DEF TypeOK
  <2>2. /\ req \in Procs /\ req # NoProc /\ req' = NoProc
        /\ poolQueue # <<>> /\ Head(poolQueue) = req /\ poolQueue' = Tail(poolQueue)
    <3>1. req \in Procs /\ req # NoProc /\ req' = NoProc /\ ppPoolRequests \in Seq(Procs)
      BY <1>0, <1>5 DEF TypeOK, BrokerInv, procInternalAdd
    <3> QED
      BY <1>5, <3>1, FrontOfPipe DEF procInternalAdd, poolQueue
  <2>3. poolPhase = "open" /\ poolPhase' = "open"
    BY <1>5 DEF procInternalAdd, poolPhase, BrokerUp
  <2>4. d < mCntInternals /\ (IdValid(Desired[req]) => d = Desired[req])
    BY <1>0, <1>5, <2>1 DEF BrokerInv, procInternalAdd
  <2>5. Desired[req] \in 0 .. mCntInternals - 1 => d = Desired[req]
    BY <1>0, <2>2, <2>4, PoolAssumption DEF TypeOK, IdValid
  <2>6. poolDriven' = [poolDriven EXCEPT ![d] = @ \cup {req}]
    <3>1. \A w \in Workers : Held(w)' = IF w = d THEN Held(w) \cup {req} ELSE Held(w)
      BY <1>0, <1>5, <2>1 DEF TypeOK, procInternalAdd, Held
    <3> QED
      BY <3>1 DEF poolDriven
  <2>7. UNCHANGED <<mCntInternals, undriven>>
    BY <1>5 DEF procInternalAdd
  <2>8. Pool!Assign(d)
    BY <2>2, <2>3, <2>4, <2>5, <2>6, <2>7 DEF Pool!Assign, poolQueue, poolDriven, poolPhase
  <2> QED
    BY <2>8 DEF Pool!PoolNext, Pool!Drivers, Workers
<1>6. CASE BrokerSdStart
  <2>1. UNCHANGED <<mCntInternals, poolQueue, poolDriven, undriven, poolPhase>>
    BY <1>6 DEF BrokerSdStart, poolQueue, poolDriven, poolPhase, BrokerUp, Held
  <2> QED
    BY <2>1 DEF poolMapped
<1>7. ASSUME NEW w \in Workers, ProcsSplice(w) PROVE UNCHANGED poolMapped
  <2>1. \A v \in Workers : Held(v)' = Held(v)
    BY <1>0, <1>7 DEF TypeOK, Held, ProcsSplice
  <2>2. UNCHANGED <<mCntInternals, poolQueue, undriven, poolPhase>>
    BY <1>7 DEF ProcsSplice, WorkerTick, poolQueue, poolPhase
  <2> QED
    BY <2>1, <2>2 DEF poolMapped, poolDriven
<1>8. ASSUME NEW w \in Workers, ProcUndrive(w) PROVE Pool!PoolNext
  <2>1. cur[w] \in mListProcs[w] /\ cur[w] \in Procs /\ cur[w] \notin mListProcsReq[w]
    BY <1>0, <1>8 DEF TypeOK, DriveInv, OnePlace, Held, ProcUndrive, InDrive
  <2>2. \A v \in Workers : Held(v)' = IF v = w THEN Held(v) \ {cur[w]} ELSE Held(v)
    BY <1>0, <1>8, <2>1 DEF TypeOK, Held, ProcUndrive
  <2>3. poolDriven' = [poolDriven EXCEPT ![w] = @ \ {cur[w]}]
    BY <2>2 DEF poolDriven
  <2>4. undriven' = undriven \cup {cur[w]} /\ UNCHANGED <<mCntInternals, poolQueue, poolPhase>>
    BY <1>8 DEF ProcUndrive, InDrive, poolQueue, poolPhase
  <2>5. cur[w] \in poolDriven[w]
    BY <2>1 DEF poolDriven, Held
  <2>6. Pool!Finish(cur[w])
    BY <2>3, <2>4, <2>5 DEF Pool!Finish, Pool!Drivers, Workers, poolQueue, poolDriven, poolPhase
  <2> QED
    BY <2>1, <2>6 DEF Pool!PoolNext
<1> QED
  <2>1. CASE \E p \in Procs : procAdd(p)
    BY <1>2, <2>1 DEF Pool!PoolNext
  <2>2. CASE ~\E p \in Procs : procAdd(p)
    BY <1>1, <1>3, <1>4, <1>5, <1>6, <1>7, <1>8, <2>2
       DEF Next, Broker, BrokerMove, Worker, PoolCancel, InternalCreate, LoadRead, WorkerStateNext,
           WorkerGoto, WorkerTick, ProcTick, ProcTickLast, NumDecrement, ProcsDriven, InDrive, vars
  <2> QED
    BY <2>1, <2>2

\* The threads of ThreadPooling.cpp keep what ProcessPool promises: requests leave the
\* queue in order, each for one driver, the one it asks for; no process changes its
\* driver; nothing is assigned while the pool closes or left once it has stopped.
THEOREM PoolImplemented == Spec => ImplementsPoolSafety
  BY PoolInitMapped, PoolStepMapped, Invariance, PTL DEF Spec, ImplementsPoolSafety, Pool!PoolSafety
=============================================================================
