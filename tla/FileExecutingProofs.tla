------------------------ MODULE FileExecutingProofs ------------------------
(***************************************************************************)
(* Proofs about FileExecuting.cpp for chains of any length, pipes of any   *)
(* size, any source and sink, OS processes that end when they like or      *)
(* leave others behind, and system calls that fail: what is never lost,    *)
(* cut or left open, and the few places where something is.                *)
(*                                                                         *)
(* The last section adds what it takes for the whole input to arrive: OS   *)
(* processes that read to the end, pipes that hold what is under way, and  *)
(* none that was torn.                                                     *)
(***************************************************************************)
EXTENDS FileExecutingProps, SequenceTheorems, TLAPS

EndNames == {"inRead", "inWrite", "outRead", "outWrite"}
Results  == {"Pending", "Error", "Positive"}
States   == StatesUp \cup {"None", "StSdStart", "StSdInternals", "StSdContainer",
                           "StSdPipesClose", "StSdInternalsFree", "Finished"}
Ticks    == [at : Objects, step : {"none", "source", "sink", "record", "close", "SIGPIPE"}, burst : Int]

TypeOK ==
    /\ source \in {"closed", "auto", "fd", "transfer", "manual"}
    /\ sink \in {"discard", "auto", "fd", "manual"}
    /\ length \in Nat /\ processed \in 0 .. length
    /\ mState \in [Objects -> States] /\ success \in [Objects -> Results]
    /\ mSendReady \in [Objects -> BOOLEAN] /\ mDone \in [Objects -> BOOLEAN]
    /\ childTerminated \in [Internals -> BOOLEAN]
    /\ tick \in Ticks
    /\ fds \in [Objects -> SUBSET Ends]
    /\ inData \in [Internals -> Seq(Nat)] /\ outData \in [Internals -> Seq(Nat)]
    /\ child \in [Internals -> {"None", "Running", "Exited", "Reaped"}]
    /\ hold \in [Internals -> Seq(Nat)] /\ wrote \in [Internals -> Seq(Nat)]
    /\ sinkBuffer \in Seq(Nat) /\ sinkString \in Seq(Nat)

\* The OS process i (0 for this one) has the end e of a pipe of k.
Has(i, e, k) == <<e, k>> \in fds[i]

Early == {"None", "StStart", "StInternalStart", "StPipesCreate"}
Late  == {"StSinksReadyWait", "StChildSupervise", "StSdStart", "StSdInternals", "StSdPipesClose",
          "Finished"}

\* How far an internal is, and what is there by then: its OS process after the fork, its input
\* after that, the input of the next one when it is supervised.
PhaseOK(k) ==
    /\ mState[0] = "StStart" => mState[k] = "None"
    /\ mState[k] \in Early \cup {"StFork"} => child[k] = "None"
    /\ mState[k] \in {"StParentStart", "StSinksReadyWait", "StChildSupervise"} => child[k] # "None"
    /\ mState[k] \in {"StSinksReadyWait", "StChildSupervise"} => mSendReady[k]
    /\ mSendReady[k] => mState[k] \in Late
    /\ mState[k] = "StChildSupervise" /\ k < NumCmds => mSendReady[k + 1]
    /\ childTerminated[k] => mSendReady[k]

\* The ends of the pipes.  Whoever can write has a reader beside it, but between the two steps
\* of pipesClose(); the read end of stdout is closed only when all was read that will ever
\* come, or the pipe is torn.
FdsOK(k) ==
    /\ Has(0, "inWrite", k) => Has(0, "inRead", k) \/ At(k, "close")
    /\ Has(0, "outRead", k) => SinkUsed(k)
    /\ child[k] = "Running" => Has(k, "outWrite", k)
    /\ mState[k] = "Finished" => /\ ~Has(0, "inRead", k) /\ ~Has(0, "inWrite", k)
                                 /\ ~Has(0, "outRead", k) /\ ~Has(0, "outWrite", k)
    /\ mState[k] \in {"StFork", "StParentStart"} /\ SinkUsed(k) => Has(0, "outRead", k)
    /\ mState[k] \in {"StSinksReadyWait", "StChildSupervise"} /\ SinkUsed(k) /\ ~Has(0, "outRead", k)
          => k \in torn \/ (outData[k] = <<>> /\ child[k] \in {"Exited", "Reaped"})

\* What is over is over, but for a torn pipe.
EndOK(k) ==
    /\ childTerminated[k] => child[k] = "Reaped"
    /\ k < NumCmds /\ mDone[k + 1] /\ k \notin torn => outData[k] = <<>> /\ child[k] \in {"Exited", "Reaped"}
    /\ success[k] = "Positive" /\ k \notin torn => outData[k] = <<>> /\ child[k] = "Reaped"

\* What is on its way.
DataOK(k) ==
    /\ ~mSendReady[k] => inData[k] = <<>> /\ hold[k] = <<>> /\ wrote[k] = <<>>
    /\ child[k] = "None" => hold[k] = <<>> /\ wrote[k] = <<>> /\ outData[k] = <<>>
    /\ ~SinkUsed(k) => outData[k] = <<>>

\* The units 1 .. n.
UpTo(n) == [m \in 1 .. n |-> m]

\* What an OS process has got is a beginning of what its predecessor has written; as long as its
\* stdin is open, or was not offered yet, only what the pipe between them holds is missing.
StreamOK(k) ==
    /\ k = 1 => Received(k) = UpTo(processed)
    /\ k > 1 => \E rest \in Seq(Nat) :
          /\ wrote[k - 1] = Received(k) \o rest
          /\ Has(0, "inWrite", k) \/ ~mSendReady[k] => rest = outData[k - 1]
    /\ k = NumCmds /\ sink \in {"auto", "manual"} /\ SinkSize = 0 => wrote[k] = sinkString \o outData[k]

\* The tick of an internal is interrupted by nothing but a send() of the client between the
\* two steps of pipesClose().
TickOK ==
    /\ tick.step \in {"source", "sink", "record"} =>
          tick.at \in Internals /\ mState[tick.at] = "StChildSupervise" /\ success[tick.at] = "Pending"
    /\ tick.step = "close" => tick.at \in Internals /\ mState[tick.at] = "StSdPipesClose"
    /\ tick.step = "SIGPIPE" => tick.at = 1 /\ source = "manual" /\ mState[1] = "StSdPipesClose"
    /\ mSendReady[0] => mSendReady[1]

\* What is set before the start, and what has not come to pass by then.
ConfigOK ==
    /\ source = "closed" => processed = 0
    /\ sink = "discard" => sinkString = <<>>

\* One conjunct for this OS process, the others for each internal.
Kept == /\ TypeOK /\ TickOK /\ ConfigOK
        /\ \A k \in Internals : PhaseOK(k) /\ FdsOK(k) /\ EndOK(k) /\ DataOK(k) /\ StreamOK(k)

\* The numbers of the objects.
LEMMA Indices ==
  /\ 0 \in Objects /\ 0 \notin Internals /\ 1 \in Internals
  /\ \A k \in Internals : k \in Objects /\ k \in Nat /\ k # 0 /\ k <= NumCmds /\ k + 1 # k
  /\ \A k \in Internals : k < NumCmds => k + 1 \in Internals
  /\ \A k \in Internals : k > 1 => k - 1 \in Internals /\ k - 1 < NumCmds /\ k - 1 + 1 = k
  /\ \A i \in Objects : i = 0 \/ i \in Internals
BY FileExecutingAssumption DEF Internals, Objects

\* The ends that the code opens are ends.
LEMMA EndsAre ==
  ASSUME NEW k \in Internals
  PROVE  /\ \A e \in EndNames : <<e, k>> \in Ends
         /\ EndsOf(k) \subseteq Ends /\ StdinOf(k) \subseteq Ends /\ ChildEnds(k) \subseteq Ends
         /\ <<"outWrite", k>> \in ChildEnds(k)
BY DEF Ends, EndNames, EndsOf, StdinOf, ChildEnds

\* The ends of an internal's pipes are its own.
LEMMA EndsOfAre ==
  ASSUME NEW k \in Internals, NEW q \in Internals
  PROVE  /\ <<"inRead", k>> \in EndsOf(q) <=> k = q
         /\ <<"inWrite", k>> \in EndsOf(q) <=> k = q
         /\ <<"outRead", k>> \in EndsOf(q) <=> k = q /\ SinkUsed(k)
         /\ <<"outWrite", k>> \in EndsOf(q) <=> k = q
BY EndsAre DEF EndsOf, EndNames

\* What the parent closes of the ends of an internal.
LEMMA ParentClosesAre ==
  ASSUME NEW k \in Internals, NEW q \in Internals
  PROVE  /\ <<"inRead", k>> \notin ParentCloses(q)
         /\ <<"inWrite", k>> \in ParentCloses(q) <=> k = q /\ ~SourceUsed(k)
         /\ <<"outRead", k>> \notin ParentCloses(q)
         /\ <<"outWrite", k>> \in ParentCloses(q) <=> k = q
BY DEF ParentCloses

-----------------------------------------------------------------------------
(* What a step leaves alone *)

\* The streams stand as they are when nothing moves and no stdin is opened for writing.
LEMMA StreamFrame ==
  ASSUME NEW k \in Internals, StreamOK(k),
         UNCHANGED <<sink, processed, inData, outData, hold, wrote, sinkString>>,
         Has(0, "inWrite", k)' \/ ~mSendReady'[k] => Has(0, "inWrite", k) \/ ~mSendReady[k]
  PROVE  StreamOK(k)'
BY DEF StreamOK, Received

\* The client is done or cancels: only the container hears of it.
LEMMA AskKeeps ==
  ASSUME Kept, ClientDone \/ ClientCancel
  PROVE  Kept'
<1>0. mDone \in [Objects -> BOOLEAN]
  BY DEF Kept, TypeOK
<1>1. /\ mDone' = mDone \/ mDone' = [mDone EXCEPT ![0] = TRUE]
      /\ UNCHANGED <<source, sink, length, processed, mState, success, mSendReady, childTerminated, tick, fds, inData, outData, child, hold, wrote, sinkBuffer, sinkString, torn>>
  BY DEF ClientDone, ClientCancel, clientVars, objVars, nodeVars, pipeVars, childVars, sinkVars
<1>2. /\ mDone' \in [Objects -> BOOLEAN]
      /\ \A i \in Internals : mDone'[i] = mDone[i]
  BY <1>0, <1>1, Indices
<1>3. TypeOK'
  BY <1>1, <1>2 DEF Kept, TypeOK
<1>4. TickOK' /\ ConfigOK'
  BY <1>1, <1>2, Indices DEF Kept, TypeOK, TickOK, ConfigOK
<1>5. ASSUME NEW j \in Internals
      PROVE  PhaseOK(j)' /\ FdsOK(j)' /\ EndOK(j)' /\ DataOK(j)' /\ StreamOK(j)'
  <2>1. TickOK /\ PhaseOK(j) /\ FdsOK(j) /\ EndOK(j) /\ DataOK(j) /\ StreamOK(j)
    BY DEF Kept
  <2>2. PhaseOK(j)'
    BY <1>1, <2>1 DEF PhaseOK
  <2>3. FdsOK(j)'
    BY <1>1, <2>1 DEF FdsOK, At, Has, SinkUsed
  <2>4. EndOK(j)'
    BY <1>1, <1>2, <2>1, Indices DEF EndOK
  <2>5. DataOK(j)'
    BY <1>1, <2>1 DEF DataOK, SinkUsed
  <2>6. Has(0, "inWrite", j)' \/ ~mSendReady'[j] => Has(0, "inWrite", j) \/ ~mSendReady[j]
    BY <1>1, <1>2, <2>1, Indices DEF StreamOK, Has
  <2>7. StreamOK(j)'
    BY <1>1, <2>1, <2>6, StreamFrame
  <2> QED BY <2>2, <2>3, <2>4, <2>5, <2>7
<1> QED BY <1>3, <1>4, <1>5 DEF Kept

\* SystemCore cancels what is left running.
LEMMA InternalCancelKeeps ==
  ASSUME Kept, NEW q \in Internals, InternalCancel(q)
  PROVE  Kept'
<1>1. UNCHANGED <<source, sink, length, processed, mState, success, mSendReady, mDone, childTerminated, tick, fds, inData, outData, child, hold, wrote, sinkBuffer, sinkString, torn>>
  BY DEF InternalCancel, clientVars, objVars, nodeVars, pipeVars, childVars, sinkVars
<1>2. TypeOK'
  BY <1>1 DEF Kept, TypeOK
<1>3. TickOK' /\ ConfigOK'
  BY <1>1, Indices DEF Kept, TypeOK, TickOK, ConfigOK
<1>4. ASSUME NEW j \in Internals
      PROVE  PhaseOK(j)' /\ FdsOK(j)' /\ EndOK(j)' /\ DataOK(j)' /\ StreamOK(j)'
  <2>1. TickOK /\ PhaseOK(j) /\ FdsOK(j) /\ EndOK(j) /\ DataOK(j) /\ StreamOK(j)
    BY DEF Kept
  <2>2. PhaseOK(j)'
    BY <1>1, <2>1 DEF PhaseOK
  <2>3. FdsOK(j)'
    BY <1>1, <2>1 DEF FdsOK, At, Has, SinkUsed
  <2>4. EndOK(j)'
    BY <1>1, <2>1 DEF EndOK
  <2>5. DataOK(j)'
    BY <1>1, <2>1 DEF DataOK, SinkUsed
  <2>6. Has(0, "inWrite", j)' \/ ~mSendReady'[j] => Has(0, "inWrite", j) \/ ~mSendReady[j]
    BY <1>1, <2>1, Indices DEF StreamOK, Has
  <2>7. StreamOK(j)'
    BY <1>1, <2>1, <2>6, StreamFrame
  <2> QED BY <2>2, <2>3, <2>4, <2>5, <2>7
<1> QED BY <1>2, <1>3, <1>4 DEF Kept

\* The container ends.
LEMMA InternalsFreeKeeps ==
  ASSUME Kept, InternalsFree
  PROVE  Kept'
<1>0. mState \in [Objects -> States]
  BY DEF Kept, TypeOK
<1>1. /\ mState[0] = "StSdInternalsFree" /\ tick.step = "none"
      /\ mState' = [mState EXCEPT ![0] = "Finished"]
      /\ UNCHANGED <<source, sink, length, processed, success, mSendReady, mDone, childTerminated, tick, fds, inData, outData, child, hold, wrote, sinkBuffer, sinkString, torn>>
  BY DEF InternalsFree, Stopping, StateGoto, Idle, clientVars, objVars, nodeVars, pipeVars, childVars, sinkVars
<1>2. /\ mState' \in [Objects -> States]
      /\ \A i \in Objects : mState'[i] = IF i = 0 THEN "Finished" ELSE mState[i]
  BY <1>0, <1>1, Indices DEF States, StatesUp
<1>3. TypeOK'
  BY <1>1, <1>2 DEF Kept, TypeOK
<1>4. TickOK' /\ ConfigOK'
  BY <1>1, <1>2, Indices DEF Kept, TypeOK, TickOK, ConfigOK
<1>5. ASSUME NEW j \in Internals
      PROVE  PhaseOK(j)' /\ FdsOK(j)' /\ EndOK(j)' /\ DataOK(j)' /\ StreamOK(j)'
  <2>1. TickOK /\ PhaseOK(j) /\ FdsOK(j) /\ EndOK(j) /\ DataOK(j) /\ StreamOK(j)
    BY DEF Kept
  <2>2. PhaseOK(j)'
    BY <1>1, <1>2, <2>1, Indices DEF PhaseOK, Early, Late
  <2>3. FdsOK(j)'
    BY <1>1, <1>2, <2>1, Indices DEF FdsOK, At, SinkUsed, Has
  <2>4. EndOK(j)'
    BY <1>1, <2>1 DEF EndOK
  <2>5. DataOK(j)'
    BY <1>1, <2>1 DEF DataOK, SinkUsed
  <2>6. Has(0, "inWrite", j)' \/ ~mSendReady'[j] => Has(0, "inWrite", j) \/ ~mSendReady[j]
    BY <1>1, <1>2, <2>1, Indices DEF StreamOK, Has
  <2>7. StreamOK(j)'
    BY <1>1, <2>1, <2>6, StreamFrame
  <2> QED BY <2>2, <2>3, <2>4, <2>5, <2>7
<1> QED BY <1>3, <1>4, <1>5 DEF Kept

\* The internals come into being.
LEMMA ContainerStartKeeps ==
  ASSUME Kept, ContainerStart
  PROVE  Kept'
<1>0. mState \in [Objects -> States]
  BY DEF Kept, TypeOK
<1>1. /\ mState[0] = "StStart" /\ tick.step = "none"
      /\ mState' = [i \in Objects |-> IF i = 0 THEN "StContainerStart" ELSE "StStart"]
      /\ UNCHANGED <<source, sink, length, processed, success, mSendReady, mDone, childTerminated, tick, fds, inData, outData, child, hold, wrote, sinkBuffer, sinkString, torn>>
  BY DEF ContainerStart, Working, Idle, StateGoto, clientVars, objVars, nodeVars, pipeVars, childVars, sinkVars
<1>2. /\ mState' \in [Objects -> States]
      /\ mState'[0] = "StContainerStart" /\ \A i \in Internals : mState'[i] = "StStart"
  BY <1>0, <1>1, Indices DEF States, StatesUp
<1>3. TypeOK'
  BY <1>1, <1>2 DEF Kept, TypeOK
<1>4. TickOK' /\ ConfigOK'
  BY <1>1, <1>2, Indices DEF Kept, TypeOK, TickOK, ConfigOK
<1>5. ASSUME NEW j \in Internals
      PROVE  PhaseOK(j)' /\ FdsOK(j)' /\ EndOK(j)' /\ DataOK(j)' /\ StreamOK(j)'
  <2>1. TickOK /\ PhaseOK(j) /\ FdsOK(j) /\ EndOK(j) /\ DataOK(j) /\ StreamOK(j)
    BY DEF Kept
  <2>2. PhaseOK(j)'
    BY <1>1, <1>2, <2>1, Indices DEF PhaseOK, Early, Late
  <2>3. FdsOK(j)'
    BY <1>1, <1>2, <2>1, Indices DEF FdsOK, At, SinkUsed, Has
  <2>4. EndOK(j)'
    BY <1>1, <2>1 DEF EndOK
  <2>5. DataOK(j)'
    BY <1>1, <2>1 DEF DataOK, SinkUsed
  <2>6. Has(0, "inWrite", j)' \/ ~mSendReady'[j] => Has(0, "inWrite", j) \/ ~mSendReady[j]
    BY <1>1, <1>2, <2>1, Indices DEF StreamOK, Has
  <2>7. StreamOK(j)'
    BY <1>1, <2>1, <2>6, StreamFrame
  <2> QED BY <2>2, <2>3, <2>4, <2>5, <2>7
<1> QED BY <1>3, <1>4, <1>5 DEF Kept

\* The supervision begins when the next internal is ready.
LEMMA SinksReadyWaitKeeps ==
  ASSUME Kept, NEW q \in Internals, SinksReadyWait(q)
  PROVE  Kept'
<1>0. mState \in [Objects -> States]
  BY DEF Kept, TypeOK
<1>1. /\ mState[q] = "StSinksReadyWait" /\ tick.step = "none"
      /\ q < NumCmds => mSendReady[q + 1]
      /\ mState' = [mState EXCEPT ![q] = "StChildSupervise"]
      /\ UNCHANGED <<source, sink, length, processed, success, mSendReady, mDone, childTerminated, tick, fds, inData, outData, child, hold, wrote, sinkBuffer, sinkString, torn>>
  BY DEF SinksReadyWait, SinksReady, Working, Idle, StateGoto, clientVars, objVars, nodeVars, pipeVars, childVars, sinkVars
<1>2. /\ mState' \in [Objects -> States]
      /\ \A i \in Objects : mState'[i] = IF i = q THEN "StChildSupervise" ELSE mState[i]
  BY <1>0, <1>1, Indices DEF States, StatesUp
<1>3. TypeOK'
  BY <1>1, <1>2 DEF Kept, TypeOK
<1>4. TickOK' /\ ConfigOK'
  BY <1>1, <1>2, Indices DEF Kept, TypeOK, TickOK, ConfigOK
<1>5. ASSUME NEW j \in Internals
      PROVE  PhaseOK(j)' /\ FdsOK(j)' /\ EndOK(j)' /\ DataOK(j)' /\ StreamOK(j)'
  <2>1. TickOK /\ PhaseOK(j) /\ FdsOK(j) /\ EndOK(j) /\ DataOK(j) /\ StreamOK(j)
    BY DEF Kept
  <2>2. PhaseOK(j)'
    BY <1>1, <1>2, <2>1, Indices DEF PhaseOK, Early, Late
  <2>3. FdsOK(j)'
    BY <1>1, <1>2, <2>1, Indices DEF FdsOK, At, SinkUsed, Has
  <2>4. EndOK(j)'
    BY <1>1, <2>1 DEF EndOK
  <2>5. DataOK(j)'
    BY <1>1, <2>1 DEF DataOK, SinkUsed
  <2>6. Has(0, "inWrite", j)' \/ ~mSendReady'[j] => Has(0, "inWrite", j) \/ ~mSendReady[j]
    BY <1>1, <1>2, <2>1, Indices DEF StreamOK, Has
  <2>7. StreamOK(j)'
    BY <1>1, <2>1, <2>6, StreamFrame
  <2> QED BY <2>2, <2>3, <2>4, <2>5, <2>7
<1> QED BY <1>3, <1>4, <1>5 DEF Kept

\* The container passes on what its first internal offers and the client has said.
LEMMA InternalsSuperviseKeeps ==
  ASSUME Kept, InternalsSupervise
  PROVE  Kept'
<1>0. /\ success \in [Objects -> Results]
      /\ mSendReady \in [Objects -> BOOLEAN]
      /\ mDone \in [Objects -> BOOLEAN]
  BY DEF Kept, TypeOK
<1>1. /\ mSendReady' = [mSendReady EXCEPT ![0] = @ \/ mSendReady[1]]
      /\ mDone' = [mDone EXCEPT ![1] = @ \/ mDone[0]]
      /\ success' = [success EXCEPT ![0] = ChildrenSuccess]
      /\ UNCHANGED <<source, sink, length, processed, mState, childTerminated, tick, fds, inData, outData, child, hold, wrote, sinkBuffer, sinkString, torn>>
  BY DEF InternalsSupervise, clientVars, objVars, nodeVars, pipeVars, childVars, sinkVars
<1>2. /\ success' \in [Objects -> Results]
      /\ \A i \in Internals : success'[i] = success[i]
  BY <1>0, <1>1, Indices DEF ChildrenSuccess, Results
<1>3. /\ mSendReady' \in [Objects -> BOOLEAN]
      /\ \A i \in Internals : mSendReady'[i] = mSendReady[i]
      /\ mSendReady'[0] => mSendReady[0] \/ mSendReady[1]
  BY <1>0, <1>1, Indices
<1>4. /\ mDone' \in [Objects -> BOOLEAN]
      /\ \A i \in Internals : i > 1 => mDone'[i] = mDone[i]
  BY <1>0, <1>1, Indices
<1>5. TypeOK'
  BY <1>1, <1>2, <1>3, <1>4 DEF Kept, TypeOK
<1>6. TickOK' /\ ConfigOK'
  BY <1>1, <1>2, <1>3, <1>4, Indices DEF Kept, TypeOK, TickOK, ConfigOK
<1>7. ASSUME NEW j \in Internals
      PROVE  PhaseOK(j)' /\ FdsOK(j)' /\ EndOK(j)' /\ DataOK(j)' /\ StreamOK(j)'
  <2>1. TickOK /\ PhaseOK(j) /\ FdsOK(j) /\ EndOK(j) /\ DataOK(j) /\ StreamOK(j)
    BY DEF Kept
  <2>2. PhaseOK(j)'
    BY <1>1, <1>2, <1>3, <1>4, <2>1, Indices DEF PhaseOK, Early, Late
  <2>3. FdsOK(j)'
    BY <1>1, <2>1 DEF FdsOK, At, Has, SinkUsed
  <2>4. EndOK(j)'
    BY <1>1, <1>2, <1>3, <1>4, <2>1, Indices DEF EndOK
  <2>5. DataOK(j)'
    BY <1>1, <1>2, <1>3, <1>4, <2>1, Indices DEF DataOK, SinkUsed
  <2>6. Has(0, "inWrite", j)' \/ ~mSendReady'[j] => Has(0, "inWrite", j) \/ ~mSendReady[j]
    BY <1>1, <1>2, <1>3, <1>4, <2>1, Indices DEF PhaseOK, Early, Late, Has
  <2>7. StreamOK(j)'
    BY <1>1, <2>1, <2>6, StreamFrame
  <2> QED BY <2>2, <2>3, <2>4, <2>5, <2>7
<1> QED BY <1>5, <1>6, <1>7 DEF Kept

\* The pipes of an internal whose input nobody was offered yet.
LEMMA PipesCreateKeeps ==
  ASSUME Kept, NEW q \in Internals, PipesCreate(q)
  PROVE  Kept'
<1>0. /\ mState \in [Objects -> States]
      /\ fds \in [Objects -> SUBSET Ends]
  BY DEF Kept, TypeOK
<1>1. /\ mState[q] = "StPipesCreate" /\ tick.step = "none"
      /\ mState' = [mState EXCEPT ![q] = "StFork"]
      /\ fds' = [fds EXCEPT ![0] = @ \cup EndsOf(q)]
      /\ UNCHANGED <<source, sink, length, processed, success, mSendReady, mDone, childTerminated, tick, inData, outData, child, hold, wrote, sinkBuffer, sinkString, torn>>
  BY DEF PipesCreate, Working, Idle, StateGoto, clientVars, objVars, nodeVars, pipeVars, childVars, sinkVars
<1>2. /\ mState' \in [Objects -> States]
      /\ \A i \in Objects : mState'[i] = IF i = q THEN "StFork" ELSE mState[i]
  BY <1>0, <1>1, Indices DEF States, StatesUp
<1>3. /\ fds' \in [Objects -> SUBSET Ends]
      /\ \A i \in Internals : fds'[i] = fds[i]
      /\ fds'[0] = fds[0] \cup EndsOf(q)
  BY <1>0, <1>1, Indices, EndsAre
<1>4. TypeOK'
  BY <1>1, <1>2, <1>3 DEF Kept, TypeOK
<1>5. TickOK' /\ ConfigOK'
  BY <1>1, <1>2, <1>3, Indices DEF Kept, TypeOK, TickOK, ConfigOK
<1>6. ASSUME NEW j \in Internals
      PROVE  PhaseOK(j)' /\ FdsOK(j)' /\ EndOK(j)' /\ DataOK(j)' /\ StreamOK(j)'
  <2>1. TickOK /\ PhaseOK(j) /\ FdsOK(j) /\ EndOK(j) /\ DataOK(j) /\ StreamOK(j)
    BY DEF Kept
  <2>2. /\ Has(0, "inRead", j)' <=> Has(0, "inRead", j) \/ j = q
        /\ Has(0, "inWrite", j)' <=> Has(0, "inWrite", j) \/ j = q
        /\ Has(0, "outRead", j)' <=> Has(0, "outRead", j) \/ (j = q /\ SinkUsed(j))
        /\ Has(0, "outWrite", j)' <=> Has(0, "outWrite", j) \/ j = q
    BY <1>3, EndsOfAre DEF Has
  <2>3. Has(j, "outWrite", j)' <=> Has(j, "outWrite", j)
    BY <1>3 DEF Has
  <2>4. PhaseOK(j)'
    BY <1>1, <1>2, <2>2, <2>3, <2>1, Indices DEF PhaseOK, Early, Late
  <2>5. FdsOK(j)'
    BY <1>1, <1>2, <2>2, <2>3, <2>1, Indices DEF FdsOK, At, SinkUsed, Has, PhaseOK, Early
  <2>6. EndOK(j)'
    BY <1>1, <2>1 DEF EndOK
  <2>7. DataOK(j)'
    BY <1>1, <2>1 DEF DataOK, SinkUsed
  <2>8. Has(0, "inWrite", j)' \/ ~mSendReady'[j] => Has(0, "inWrite", j) \/ ~mSendReady[j]
    BY <1>1, <1>2, <2>2, <2>3, <2>1, Indices DEF PhaseOK, Early, Late, Has
  <2>9. StreamOK(j)'
    BY <1>1, <2>1, <2>8, StreamFrame
  <2> QED BY <2>4, <2>5, <2>6, <2>7, <2>9
<1> QED BY <1>4, <1>5, <1>6 DEF Kept

\* The parent keeps the read end of stdin.
LEMMA ParentStartKeeps ==
  ASSUME Kept, NEW q \in Internals, ParentStart(q)
  PROVE  Kept'
<1>0. /\ mState \in [Objects -> States]
      /\ mSendReady \in [Objects -> BOOLEAN]
      /\ fds \in [Objects -> SUBSET Ends]
  BY DEF Kept, TypeOK
<1>1. /\ mState[q] = "StParentStart" /\ tick.step = "none"
      /\ mState' = [mState EXCEPT ![q] = "StSinksReadyWait"]
      /\ mSendReady' = [mSendReady EXCEPT ![q] = TRUE]
      /\ fds' = [fds EXCEPT ![0] = @ \ ParentCloses(q)]
      /\ UNCHANGED <<source, sink, length, processed, success, mDone, childTerminated, tick, inData, outData, child, hold, wrote, sinkBuffer, sinkString, torn>>
  BY DEF ParentStart, Working, Idle, StateGoto, clientVars, objVars, nodeVars, pipeVars, childVars, sinkVars
<1>2. /\ mState' \in [Objects -> States]
      /\ \A i \in Objects : mState'[i] = IF i = q THEN "StSinksReadyWait" ELSE mState[i]
  BY <1>0, <1>1, Indices DEF States, StatesUp
<1>3. /\ mSendReady' \in [Objects -> BOOLEAN]
      /\ \A i \in Objects : mSendReady'[i] = IF i = q THEN TRUE ELSE mSendReady[i]
  BY <1>0, <1>1, Indices
<1>4. /\ fds' \in [Objects -> SUBSET Ends]
      /\ \A i \in Internals : fds'[i] = fds[i]
      /\ fds'[0] = fds[0] \ ParentCloses(q)
  BY <1>0, <1>1, Indices
<1>5. TypeOK'
  BY <1>1, <1>2, <1>3, <1>4 DEF Kept, TypeOK
<1>6. TickOK' /\ ConfigOK'
  <2>1. TickOK'
    BY <1>1, <1>3, Indices DEF Kept, TickOK
  <2>2. ConfigOK'
    BY <1>1 DEF Kept, ConfigOK
  <2> QED BY <2>1, <2>2
<1>7. ASSUME NEW j \in Internals
      PROVE  PhaseOK(j)' /\ FdsOK(j)' /\ EndOK(j)' /\ DataOK(j)' /\ StreamOK(j)'
  <2>1. TickOK /\ PhaseOK(j) /\ FdsOK(j) /\ EndOK(j) /\ DataOK(j) /\ StreamOK(j)
    BY DEF Kept
  <2>2. /\ Has(0, "inRead", j)' <=> Has(0, "inRead", j)
        /\ Has(0, "inWrite", j)' <=> Has(0, "inWrite", j) /\ (j # q \/ SourceUsed(j))
        /\ Has(0, "outRead", j)' <=> Has(0, "outRead", j)
        /\ Has(0, "outWrite", j)' <=> Has(0, "outWrite", j) /\ j # q
    BY <1>4, ParentClosesAre DEF Has
  <2>3. Has(j, "outWrite", j)' <=> Has(j, "outWrite", j)
    BY <1>4 DEF Has
  <2>4. PhaseOK(j)'
    BY <1>1, <1>2, <1>3, <2>2, <2>3, <2>1, Indices DEF PhaseOK, Early, Late
  <2>5. FdsOK(j)'
    BY <1>1, <1>2, <1>3, <2>2, <2>3, <2>1, Indices DEF FdsOK, At, SinkUsed, Has
  <2>6. EndOK(j)'
    BY <1>1, <2>1 DEF EndOK
  <2>7. DataOK(j)'
    BY <1>1, <1>2, <1>3, <2>2, <2>3, <2>1, Indices DEF DataOK, SinkUsed
  <2>8. Has(0, "inWrite", j)' \/ ~mSendReady'[j] => Has(0, "inWrite", j) \/ ~mSendReady[j]
    BY <1>1, <1>2, <1>3, <2>2, <2>3, <2>1, Indices DEF PhaseOK, Early, Late, Has
  <2>9. StreamOK(j)'
    BY <1>1, <2>1, <2>8, StreamFrame
  <2> QED BY <2>4, <2>5, <2>6, <2>7, <2>9
<1> QED BY <1>5, <1>6, <1>7 DEF Kept

\* A tick of the supervision begins.
LEMMA SupervisionStartKeeps ==
  ASSUME Kept, NEW q \in Internals, SupervisionStart(q)
  PROVE  Kept'
<1>0. /\ tick \in Ticks
      /\ fds \in [Objects -> SUBSET Ends]
  BY DEF Kept, TypeOK
<1>1. /\ mState[q] = "StChildSupervise" /\ tick.step = "none" /\ success[q] = "Pending"
      /\ fds' = fds \/ fds' = [fds EXCEPT ![0] = @ \ {<<"inWrite", q>>}]
      /\ tick' = [at |-> q, step |-> "source", burst |-> Burst]
      /\ UNCHANGED <<source, sink, length, processed, mState, success, mSendReady, mDone, childTerminated, inData, outData, child, hold, wrote, sinkBuffer, sinkString, torn>>
  BY DEF SupervisionStart, Working, Idle, StateGoto, clientVars, objVars, nodeVars, pipeVars, childVars, sinkVars
<1>2. /\ tick' \in Ticks
      /\ tick'.at = q /\ tick'.step = "source"
  BY <1>0, <1>1, Indices, FileExecutingAssumption DEF Ticks
<1>3. /\ fds' \in [Objects -> SUBSET Ends]
      /\ \A i \in Internals : fds'[i] = fds[i]
      /\ fds'[0] = fds[0] \/ fds'[0] = fds[0] \ {<<"inWrite", q>>}
  BY <1>0, <1>1, Indices
<1>4. TypeOK'
  BY <1>1, <1>2, <1>3 DEF Kept, TypeOK
<1>5. TickOK' /\ ConfigOK'
  BY <1>1, <1>2, <1>3, Indices DEF Kept, TypeOK, TickOK, ConfigOK
<1>6. ASSUME NEW j \in Internals
      PROVE  PhaseOK(j)' /\ FdsOK(j)' /\ EndOK(j)' /\ DataOK(j)' /\ StreamOK(j)'
  <2>1. TickOK /\ PhaseOK(j) /\ FdsOK(j) /\ EndOK(j) /\ DataOK(j) /\ StreamOK(j)
    BY DEF Kept
  <2>2. /\ Has(0, "inRead", j)' <=> Has(0, "inRead", j)
        /\ Has(0, "inWrite", j)' => Has(0, "inWrite", j)
        /\ Has(0, "outRead", j)' <=> Has(0, "outRead", j)
        /\ Has(0, "outWrite", j)' <=> Has(0, "outWrite", j)
    BY <1>3 DEF Has
  <2>3. Has(j, "outWrite", j)' <=> Has(j, "outWrite", j)
    BY <1>3 DEF Has
  <2>4. PhaseOK(j)'
    BY <1>1, <2>1 DEF PhaseOK
  <2>5. FdsOK(j)'
    BY <1>1, <1>2, <2>2, <2>3, <2>1, Indices DEF FdsOK, At, SinkUsed, Has
  <2>6. EndOK(j)'
    BY <1>1, <2>1 DEF EndOK
  <2>7. DataOK(j)'
    BY <1>1, <2>1 DEF DataOK, SinkUsed
  <2>8. Has(0, "inWrite", j)' \/ ~mSendReady'[j] => Has(0, "inWrite", j) \/ ~mSendReady[j]
    BY <1>1, <1>2, <2>2, <2>3, <2>1, Indices DEF PhaseOK, Early, Late, Has
  <2>9. StreamOK(j)'
    BY <1>1, <2>1, <2>8, StreamFrame
  <2> QED BY <2>4, <2>5, <2>6, <2>7, <2>9
<1> QED BY <1>4, <1>5, <1>6 DEF Kept

\* Without a source, or with nothing to read for now, the tick goes on.
LEMMA TickStepKeeps ==
  ASSUME Kept, NEW q \in Internals, AutoSourceNone(q) \/ SinkEnd(q)
  PROVE  Kept'
<1>0. tick \in Ticks
  BY DEF Kept, TypeOK
<1>1. /\ tick.step \in {"source", "sink"}
      /\ \E s \in {"sink", "record"} : tick' = [tick EXCEPT !.step = s]
      /\ UNCHANGED <<source, sink, length, processed, mState, success, mSendReady, mDone, childTerminated, fds, inData, outData, child, hold, wrote, sinkBuffer, sinkString, torn>>
  BY DEF AutoSourceNone, SinkEnd, At, GotoStep, clientVars, objVars, nodeVars, pipeVars, childVars, sinkVars
<1>2. /\ tick' \in Ticks
      /\ tick'.at = tick.at /\ tick'.step \in {"sink", "record"}
  BY <1>0, <1>1, Indices, FileExecutingAssumption DEF Ticks
<1>3. TypeOK'
  BY <1>1, <1>2 DEF Kept, TypeOK
<1>4. TickOK' /\ ConfigOK'
  BY <1>1, <1>2, Indices DEF Kept, TypeOK, TickOK, ConfigOK
<1>5. ASSUME NEW j \in Internals
      PROVE  PhaseOK(j)' /\ FdsOK(j)' /\ EndOK(j)' /\ DataOK(j)' /\ StreamOK(j)'
  <2>1. TickOK /\ PhaseOK(j) /\ FdsOK(j) /\ EndOK(j) /\ DataOK(j) /\ StreamOK(j)
    BY DEF Kept
  <2>2. PhaseOK(j)'
    BY <1>1, <2>1 DEF PhaseOK
  <2>3. FdsOK(j)'
    BY <1>1, <1>2, <2>1 DEF FdsOK, At, Has, SinkUsed
  <2>4. EndOK(j)'
    BY <1>1, <2>1 DEF EndOK
  <2>5. DataOK(j)'
    BY <1>1, <2>1 DEF DataOK, SinkUsed
  <2>6. Has(0, "inWrite", j)' \/ ~mSendReady'[j] => Has(0, "inWrite", j) \/ ~mSendReady[j]
    BY <1>1, <1>2, <2>1, Indices DEF StreamOK, Has
  <2>7. StreamOK(j)'
    BY <1>1, <2>1, <2>6, StreamFrame
  <2> QED BY <2>2, <2>3, <2>4, <2>5, <2>7
<1> QED BY <1>3, <1>4, <1>5 DEF Kept

\* The end of a stream comes when nobody is left to write to it.
LEMMA SinkEofKeeps ==
  ASSUME Kept, NEW q \in Internals, SinkEof(q)
  PROVE  Kept'
<1>0. /\ mDone \in [Objects -> BOOLEAN]
      /\ tick \in Ticks
      /\ fds \in [Objects -> SUBSET Ends]
  BY DEF Kept, TypeOK
<1>1. /\ tick.step = "sink" /\ tick.at = q
      /\ (outData[q] = <<>> /\ AtEof(q)) \/ q \in torn'
      /\ torn \subseteq torn'
      /\ tick' = [tick EXCEPT !.step = "record"]
      /\ fds' = [fds EXCEPT ![0] = @ \ {<<"outRead", q>>}]
      /\ mDone' = IF q < NumCmds THEN [mDone EXCEPT ![q + 1] = TRUE] ELSE mDone
      /\ UNCHANGED <<source, sink, length, processed, mState, success, mSendReady, childTerminated, inData, outData, child, hold, wrote, sinkBuffer, sinkString>>
  BY DEF SinkEof, Sinking, At, GotoStep, clientVars, objVars, nodeVars, pipeVars, childVars, sinkVars
<1>2. /\ mDone' \in [Objects -> BOOLEAN]
      /\ \A i \in Internals : i # q + 1 => mDone'[i] = mDone[i]
  BY <1>0, <1>1, Indices
<1>3. /\ tick' \in Ticks
      /\ tick'.at = tick.at /\ tick'.step = "record"
  BY <1>0, <1>1, Indices, FileExecutingAssumption DEF Ticks
<1>4. /\ fds' \in [Objects -> SUBSET Ends]
      /\ \A i \in Internals : fds'[i] = fds[i]
      /\ fds'[0] = fds[0] \ {<<"outRead", q>>}
  BY <1>0, <1>1, Indices
<1>5. q \notin torn' => outData[q] = <<>> /\ child[q] \in {"Exited", "Reaped"}
  <2>1. TickOK /\ PhaseOK(q) /\ FdsOK(q) /\ EndOK(q)
    BY DEF Kept
  <2>2. child[q] \in {"None", "Running", "Exited", "Reaped"}
    BY DEF Kept, TypeOK
  <2>3. q \notin torn' => childTerminated[q] \/ ~Has(q, "outWrite", q)
    BY <1>1, Indices DEF AtEof, IsOpen, Has
  <2> QED BY <1>1, <2>1, <2>2, <2>3 DEF TickOK, PhaseOK, FdsOK, At, EndOK
<1>6. TypeOK'
  BY <1>1, <1>2, <1>3, <1>4 DEF Kept, TypeOK
<1>7. TickOK' /\ ConfigOK'
  BY <1>1, <1>2, <1>3, <1>4, Indices DEF Kept, TypeOK, TickOK, ConfigOK
<1>8. ASSUME NEW j \in Internals
      PROVE  PhaseOK(j)' /\ FdsOK(j)' /\ EndOK(j)' /\ DataOK(j)' /\ StreamOK(j)'
  <2>1. TickOK /\ PhaseOK(j) /\ FdsOK(j) /\ EndOK(j) /\ DataOK(j) /\ StreamOK(j)
    BY DEF Kept
  <2>2. /\ Has(0, "inRead", j)' <=> Has(0, "inRead", j)
        /\ Has(0, "inWrite", j)' <=> Has(0, "inWrite", j)
        /\ Has(0, "outRead", j)' <=> Has(0, "outRead", j) /\ j # q
        /\ Has(0, "outWrite", j)' <=> Has(0, "outWrite", j)
    BY <1>4 DEF Has
  <2>3. Has(j, "outWrite", j)' <=> Has(j, "outWrite", j)
    BY <1>4 DEF Has
  <2>4. PhaseOK(j)'
    BY <1>1, <2>1 DEF PhaseOK
  <2>5. FdsOK(j)'
    <3>1. CASE j = q
      <4>1. /\ j \notin torn' => outData'[j] = <<>> /\ child'[j] \in {"Exited", "Reaped"}
            /\ mState'[j] = mState[j] /\ ~At(j, "close") /\ SinkUsed(j)' = SinkUsed(j)
        BY <1>1, <1>5, <3>1 DEF At, SinkUsed
      <4>2. ~Has(0, "outRead", j)' /\ mState[j] = "StChildSupervise"
        BY <1>1, <2>1, <2>2, <3>1 DEF TickOK
      <4> QED BY <1>1, <4>1, <4>2, <2>1, <2>2, <2>3 DEF FdsOK
    <3>2. CASE j # q
      BY <1>1, <1>3, <2>1, <2>2, <2>3, <3>2 DEF FdsOK, SinkUsed, At
    <3> QED BY <3>1, <3>2
  <2>6. EndOK(j)'
    <3>1. CASE j = q
      BY <1>1, <1>2, <1>3, <2>2, <2>3, <2>1, Indices, <1>5, <3>1 DEF EndOK
    <3>2. CASE j # q
      <4>1. j < NumCmds => mDone'[j + 1] = mDone[j + 1]
        BY <1>2, <3>2, Indices DEF Internals
      <4> QED BY <1>1, <2>1, <4>1 DEF EndOK
    <3> QED BY <3>1, <3>2
  <2>7. DataOK(j)'
    BY <1>1, <2>1 DEF DataOK, SinkUsed
  <2>8. Has(0, "inWrite", j)' \/ ~mSendReady'[j] => Has(0, "inWrite", j) \/ ~mSendReady[j]
    BY <1>1, <1>2, <1>3, <2>2, <2>3, <2>1, Indices DEF PhaseOK, Early, Late, Has
  <2>9. StreamOK(j)'
    BY <1>1, <2>1, <2>8, StreamFrame
  <2> QED BY <2>4, <2>5, <2>6, <2>7, <2>9
<1> QED BY <1>6, <1>7, <1>8 DEF Kept

\* The OS process is reaped once, and its internal succeeds when all was read.
LEMMA ChildStateRecordKeeps ==
  ASSUME Kept, NEW q \in Internals, ChildStateRecord(q)
  PROVE  Kept'
<1>0. /\ childTerminated \in [Internals -> BOOLEAN]
      /\ child \in [Internals -> {"None", "Running", "Exited", "Reaped"}]
      /\ success \in [Objects -> Results]
      /\ tick \in Ticks
  BY DEF Kept, TypeOK
<1>1. /\ tick.step = "record" /\ tick.at = q
      /\ tick' = NoTick
      /\ childTerminated' = [childTerminated EXCEPT ![q] = @ \/ child[q] = "Exited"]
      /\ child' = [child EXCEPT ![q] = IF @ = "Exited" THEN "Reaped" ELSE @]
      /\ success' = [success EXCEPT ![q] = IF childTerminated'[q] /\ ~Has(0, "outRead", q) THEN "Positive" ELSE @]
      /\ UNCHANGED <<source, sink, length, processed, mState, mSendReady, mDone, fds, inData, outData, hold, wrote, sinkBuffer, sinkString, torn>>
  BY DEF ChildStateRecord, SuperviseDone, At, Has, clientVars, objVars, nodeVars, pipeVars, childVars, sinkVars
<1>2. /\ childTerminated' \in [Internals -> BOOLEAN]
      /\ \A i \in Internals : childTerminated'[i] = IF i = q THEN (childTerminated[q] \/ child[q] = "Exited") ELSE childTerminated[i]
  BY <1>0, <1>1, Indices
<1>3. /\ child' \in [Internals -> {"None", "Running", "Exited", "Reaped"}]
      /\ \A i \in Internals : child'[i] = IF i = q THEN IF child[q] = "Exited" THEN "Reaped" ELSE child[q] ELSE child[i]
  BY <1>0, <1>1, Indices
<1>4. /\ success' \in [Objects -> Results]
      /\ \A i \in Objects : i # q => success'[i] = success[i]
      /\ success'[q] = "Positive" => success[q] = "Positive" \/ (childTerminated'[q] /\ ~Has(0, "outRead", q))
  BY <1>0, <1>1, Indices DEF Results
<1>5. /\ tick' \in Ticks
      /\ tick'.step = "none"
  BY <1>0, <1>1, Indices, FileExecutingAssumption DEF Ticks, NoTick
<1>6. TypeOK'
  BY <1>1, <1>2, <1>3, <1>4, <1>5 DEF Kept, TypeOK
<1>7. TickOK' /\ ConfigOK'
  BY <1>1, <1>2, <1>3, <1>4, <1>5, Indices DEF Kept, TypeOK, TickOK, ConfigOK
<1>8. ASSUME NEW j \in Internals
      PROVE  PhaseOK(j)' /\ FdsOK(j)' /\ EndOK(j)' /\ DataOK(j)' /\ StreamOK(j)'
  <2>1. TickOK /\ PhaseOK(j) /\ FdsOK(j) /\ EndOK(j) /\ DataOK(j) /\ StreamOK(j)
    BY DEF Kept
  <2>2. PhaseOK(j)'
    <3>1. childTerminated'[j] => mSendReady[j]
      BY <1>1, <1>2, <2>1 DEF PhaseOK, TickOK
    <3> QED BY <1>1, <1>2, <1>3, <1>4, <1>5, <2>1, <3>1, Indices DEF PhaseOK, Early, Late
  <2>3. FdsOK(j)'
    BY <1>1, <1>2, <1>3, <1>4, <1>5, <2>1, Indices DEF FdsOK, At, SinkUsed, Has
  <2>4. EndOK(j)'
    <3>1. CASE j = q
      <4>1. mState[q] = "StChildSupervise"
        BY <1>1, <2>1 DEF TickOK
      <4>2. childTerminated'[q] => child'[q] = "Reaped"
        BY <1>1, <1>2, <1>3, <1>4, <1>5, <2>1, Indices, <3>1 DEF EndOK
      <4>3. ~Has(0, "outRead", q) /\ q \notin torn => outData[q] = <<>>
        BY <2>1, <3>1, <4>1 DEF FdsOK, DataOK
      <4> QED BY <1>1, <1>2, <1>3, <1>4, <1>5, <2>1, Indices, <3>1, <4>2, <4>3 DEF EndOK
    <3>2. CASE j # q
      BY <1>1, <1>2, <1>3, <1>4, <1>5, <2>1, Indices, <3>2 DEF EndOK
    <3> QED BY <3>1, <3>2
  <2>5. DataOK(j)'
    BY <1>1, <1>2, <1>3, <1>4, <1>5, <2>1, Indices DEF DataOK, SinkUsed
  <2>6. Has(0, "inWrite", j)' \/ ~mSendReady'[j] => Has(0, "inWrite", j) \/ ~mSendReady[j]
    BY <1>1, <1>2, <1>3, <1>4, <1>5, <2>1, Indices DEF StreamOK, Has
  <2>7. StreamOK(j)'
    BY <1>1, <2>1, <2>6, StreamFrame
  <2> QED BY <2>2, <2>3, <2>4, <2>5, <2>7
<1> QED BY <1>6, <1>7, <1>8 DEF Kept

\* waitpid() fails.
LEMMA WaitFailKeeps ==
  ASSUME Kept, NEW q \in Internals, WaitFail(q)
  PROVE  Kept'
<1>0. success \in [Objects -> Results]
  BY DEF Kept, TypeOK
<1>1. /\ tick.step = "record" /\ tick.at = q /\ tick' = NoTick
      /\ success' = [success EXCEPT ![q] = "Error"]
      /\ UNCHANGED <<source, sink, length, processed, mState, mSendReady, mDone, childTerminated, fds, inData, outData, child, hold, wrote, sinkBuffer, sinkString, torn>>
  BY DEF WaitFail, At, clientVars, objVars, nodeVars, pipeVars, childVars, sinkVars
<1>2. /\ success' \in [Objects -> Results]
      /\ \A i \in Objects : success'[i] = "Positive" => success[i] = "Positive"
  BY <1>0, <1>1, Indices DEF Results
<1>3. tick' \in Ticks /\ tick'.step = "none"
  BY <1>1, Indices DEF Ticks, NoTick
<1>4. TypeOK'
  BY <1>1, <1>2, <1>3 DEF Kept, TypeOK
<1>5. TickOK' /\ ConfigOK'
  BY <1>1, <1>3 DEF Kept, TickOK, ConfigOK
<1>6. ASSUME NEW j \in Internals
      PROVE  PhaseOK(j)' /\ FdsOK(j)' /\ EndOK(j)' /\ DataOK(j)' /\ StreamOK(j)'
  <2>1. PhaseOK(j) /\ FdsOK(j) /\ EndOK(j) /\ DataOK(j) /\ StreamOK(j)
    BY DEF Kept
  <2>2. PhaseOK(j)'
    BY <1>1, <2>1 DEF PhaseOK
  <2>3. FdsOK(j)'
    BY <1>1, <1>3, <2>1 DEF FdsOK, At, Has, SinkUsed
  <2>4. EndOK(j)'
    BY <1>1, <1>2, <2>1, Indices DEF EndOK
  <2>5. DataOK(j)'
    BY <1>1, <2>1 DEF DataOK, SinkUsed
  <2>6. Has(0, "inWrite", j)' \/ ~mSendReady'[j] => Has(0, "inWrite", j) \/ ~mSendReady[j]
    BY <1>1 DEF Has
  <2>7. StreamOK(j)'
    BY <1>1, <2>1, <2>6, StreamFrame
  <2> QED BY <2>2, <2>3, <2>4, <2>5, <2>7
<1> QED BY <1>4, <1>5, <1>6 DEF Kept

\* The shutdown closes the read end of stdin first.
LEMMA PipesCloseStartKeeps ==
  ASSUME Kept, NEW q \in Internals, PipesCloseStart(q)
  PROVE  Kept'
<1>0. fds \in [Objects -> SUBSET Ends] /\ q \in Objects
  BY Indices DEF Kept, TypeOK
<1>1. /\ mState[q] = "StSdPipesClose" /\ tick.step = "none"
      /\ tick' = [at |-> q, step |-> "close", burst |-> 0]
      /\ fds' = [fds EXCEPT ![0] = @ \ {<<"inRead", q>>}]
      /\ UNCHANGED <<source, sink, length, processed, mState, success, mSendReady, mDone, childTerminated, inData, outData, child, hold, wrote, sinkBuffer, sinkString, torn>>
  BY DEF PipesCloseStart, Stopping, Idle, clientVars, objVars, nodeVars, pipeVars, childVars, sinkVars
<1>2. tick' \in Ticks /\ tick'.at = q /\ tick'.step = "close"
  BY <1>0, <1>1 DEF Ticks
<1>3. /\ fds' \in [Objects -> SUBSET Ends]
      /\ \A i \in Internals : fds'[i] = fds[i]
      /\ fds'[0] = fds[0] \ {<<"inRead", q>>}
  BY <1>0, <1>1, Indices
<1>4. TypeOK'
  BY <1>1, <1>2, <1>3 DEF Kept, TypeOK
<1>5. TickOK' /\ ConfigOK'
  BY <1>1, <1>2 DEF Kept, TickOK, ConfigOK
<1>6. ASSUME NEW j \in Internals
      PROVE  PhaseOK(j)' /\ FdsOK(j)' /\ EndOK(j)' /\ DataOK(j)' /\ StreamOK(j)'
  <2>1. PhaseOK(j) /\ FdsOK(j) /\ EndOK(j) /\ DataOK(j) /\ StreamOK(j)
    BY DEF Kept
  <2>2. /\ Has(0, "inRead", j)' <=> Has(0, "inRead", j) /\ j # q
        /\ Has(0, "inWrite", j)' <=> Has(0, "inWrite", j)
        /\ Has(0, "outRead", j)' <=> Has(0, "outRead", j)
        /\ Has(0, "outWrite", j)' <=> Has(0, "outWrite", j)
        /\ Has(j, "outWrite", j)' <=> Has(j, "outWrite", j)
    BY <1>3 DEF Has
  <2>3. PhaseOK(j)'
    BY <1>1, <2>1 DEF PhaseOK
  <2>4. FdsOK(j)'
    <3>1. Has(0, "inWrite", j)' => Has(0, "inRead", j)' \/ At(j, "close")'
      BY <1>1, <1>2, <2>1, <2>2 DEF FdsOK, At
    <3> QED BY <1>1, <2>1, <2>2, <3>1 DEF FdsOK, SinkUsed
  <2>5. EndOK(j)'
    BY <1>1, <2>1 DEF EndOK
  <2>6. DataOK(j)'
    BY <1>1, <2>1 DEF DataOK, SinkUsed
  <2>7. StreamOK(j)'
    BY <1>1, <2>1, <2>2, StreamFrame
  <2> QED BY <2>3, <2>4, <2>5, <2>6, <2>7
<1> QED BY <1>4, <1>5, <1>6 DEF Kept

\* ... and then whatever is open.
LEMMA PipesCloseKeeps ==
  ASSUME Kept, NEW q \in Internals, PipesCloseTick(q)
  PROVE  Kept'
<1>0. /\ mState \in [Objects -> States]
      /\ fds \in [Objects -> SUBSET Ends]
  BY DEF Kept, TypeOK
<1>1. /\ mState[q] = "StSdPipesClose" /\ tick.at = q /\ tick.step = "close"
      /\ tick' = NoTick
      /\ mState' = [mState EXCEPT ![q] = "Finished"]
      /\ fds' = [fds EXCEPT ![0] = @ \ EndsOf(q)]
      /\ UNCHANGED <<source, sink, length, processed, success, mSendReady, mDone, childTerminated, inData, outData, child, hold, wrote, sinkBuffer, sinkString, torn>>
  BY DEF PipesCloseTick, PipesClose, At, StateGoto, clientVars, objVars, nodeVars, pipeVars, childVars, sinkVars
<1>2. /\ mState' \in [Objects -> States]
      /\ \A i \in Objects : mState'[i] = IF i = q THEN "Finished" ELSE mState[i]
  BY <1>0, <1>1, Indices DEF States, StatesUp
<1>3. /\ fds' \in [Objects -> SUBSET Ends]
      /\ \A i \in Internals : fds'[i] = fds[i]
      /\ fds'[0] = fds[0] \ EndsOf(q)
  BY <1>0, <1>1, Indices
<1>t. tick' \in Ticks /\ tick'.step = "none"
  BY <1>1, Indices DEF Ticks, NoTick
<1>4. TypeOK'
  BY <1>1, <1>2, <1>3, <1>t DEF Kept, TypeOK
<1>5. TickOK' /\ ConfigOK'
  BY <1>1, <1>2, <1>t, Indices DEF Kept, TickOK, ConfigOK
<1>6. ASSUME NEW j \in Internals
      PROVE  PhaseOK(j)' /\ FdsOK(j)' /\ EndOK(j)' /\ DataOK(j)' /\ StreamOK(j)'
  <2>1. TickOK /\ PhaseOK(j) /\ FdsOK(j) /\ EndOK(j) /\ DataOK(j) /\ StreamOK(j)
    BY DEF Kept
  <2>2. /\ Has(0, "inRead", j)' <=> Has(0, "inRead", j) /\ j # q
        /\ Has(0, "inWrite", j)' <=> Has(0, "inWrite", j) /\ j # q
        /\ Has(0, "outRead", j)' <=> Has(0, "outRead", j) /\ ~(j = q /\ SinkUsed(j))
        /\ Has(0, "outWrite", j)' <=> Has(0, "outWrite", j) /\ j # q
    BY <1>3, EndsOfAre DEF Has
  <2>3. Has(j, "outWrite", j)' <=> Has(j, "outWrite", j)
    BY <1>3 DEF Has
  <2>4. PhaseOK(j)'
    BY <1>1, <1>2, <2>2, <2>3, <2>1, Indices DEF PhaseOK, Early, Late
  <2>5. FdsOK(j)'
    BY <1>1, <1>2, <2>2, <2>3, <2>1, Indices DEF FdsOK, At, SinkUsed, Has
  <2>6. EndOK(j)'
    BY <1>1, <2>1 DEF EndOK
  <2>7. DataOK(j)'
    BY <1>1, <2>1 DEF DataOK, SinkUsed
  <2>8. Has(0, "inWrite", j)' \/ ~mSendReady'[j] => Has(0, "inWrite", j) \/ ~mSendReady[j]
    BY <1>1, <1>2, <2>2, <2>3, <2>1, Indices DEF PhaseOK, Early, Late, Has
  <2>9. StreamOK(j)'
    BY <1>1, <2>1, <2>8, StreamFrame
  <2> QED BY <2>4, <2>5, <2>6, <2>7, <2>9
<1> QED BY <1>4, <1>5, <1>6 DEF Kept

\* The ticks that only set mState: none leads into or out of a state of its own.
LEMMA StateNextKeeps ==
  ASSUME Kept, NEW i \in Objects, StateNext(i)
  PROVE  Kept'
<1>0. mState \in [Objects -> States]
  BY DEF Kept, TypeOK
<1>1. /\ tick.step = "none"
      /\ UNCHANGED <<source, sink, length, processed, success, mSendReady, mDone, childTerminated, tick, fds, inData, outData, child, hold, wrote, sinkBuffer, sinkString, torn>>
  BY DEF StateNext, Working, Stopping, Idle, clientVars, objVars, nodeVars, pipeVars, childVars, sinkVars
<1>2. PICK s \in States : /\ mState' = [mState EXCEPT ![i] = s]
                          /\ mState[i] \notin {"None", "Finished"}
                          /\ s \notin {"None", "StStart", "StFork", "StParentStart",
                                       "StSinksReadyWait", "StChildSupervise", "Finished"}
                          /\ s \in Early => mState[i] \in Early
                          /\ i \in Internals /\ mState[i] \in Late => s \in Late
  <2>1. CASE StateGoto(i, "StStart", "StInternalStart")
    BY <2>1 DEF StateGoto, States, StatesUp, Early, Late
  <2>2. CASE StateGoto(i, "StInternalStart", "StPipesCreate")
    BY <2>2 DEF StateGoto, States, StatesUp, Early, Late
  <2>3. CASE StateGoto(i, "StContainerStart", "StInternalsSupervise")
    BY <2>3 DEF StateGoto, States, StatesUp, Early, Late
  <2>4. CASE \E s \in StatesUp : StateGoto(i, s, "StSdStart")
    BY <2>4 DEF StateGoto, States, StatesUp, Early, Late
  <2>5. CASE StateGoto(i, "StSdStart", IF i > 0 THEN "StSdInternals" ELSE "StSdContainer")
    <3>1. CASE i > 0
      BY <2>5, <3>1, Indices DEF StateGoto, States, StatesUp, Early, Late
    <3>2. CASE i = 0 /\ i \notin Internals
      <4>1. ~(i > 0)
        BY <3>2
      <4>2. mState[i] = "StSdStart" /\ mState' = [mState EXCEPT ![i] = "StSdContainer"]
        BY <2>5, <4>1 DEF StateGoto
      <4> QED BY <3>2, <4>2 DEF States, StatesUp, Early, Late
    <3> QED BY <3>1, <3>2, Indices
  <2>6. CASE StateGoto(i, "StSdInternals", "StSdPipesClose")
    BY <2>6 DEF StateGoto, States, StatesUp, Early, Late
  <2>7. CASE StateGoto(i, "StSdContainer", "StSdInternalsFree")
    BY <2>7 DEF StateGoto, States, StatesUp, Early, Late
  <2> QED BY <2>1, <2>2, <2>3, <2>4, <2>5, <2>6, <2>7 DEF StateNext
<1>3. /\ mState' \in [Objects -> States]
      /\ \A j \in Objects : mState'[j] = IF j = i THEN s ELSE mState[j]
  BY <1>0, <1>2
<1>4. TypeOK'
  BY <1>1, <1>3 DEF Kept, TypeOK
<1>5. TickOK' /\ ConfigOK'
  BY <1>1 DEF Kept, TickOK, ConfigOK
<1>6. ASSUME NEW j \in Internals
      PROVE  PhaseOK(j)' /\ FdsOK(j)' /\ EndOK(j)' /\ DataOK(j)' /\ StreamOK(j)'
  <2>1. PhaseOK(j) /\ FdsOK(j) /\ EndOK(j) /\ DataOK(j) /\ StreamOK(j)
    BY DEF Kept
  <2>2. mState'[0] = "StStart" => mState'[j] = "None"
    BY <1>2, <1>3, <2>1, Indices DEF PhaseOK
  <2>3. PhaseOK(j)' /\ FdsOK(j)'
    <3>1. CASE j = i
      <4>1. mState'[j] = s /\ (mState[j] \in Late => s \in Late) /\ (s \in Early => mState[j] \in Early)
        BY <1>2, <1>3, <3>1
      <4>2. PhaseOK(j)'
        BY <1>1, <1>2, <2>1, <2>2, <4>1 DEF PhaseOK
      <4>3. mState'[j] \notin {"Finished", "StFork", "StParentStart", "StSinksReadyWait", "StChildSupervise"}
        BY <1>2, <4>1
      <4>4. FdsOK(j)'
        BY <1>1, <2>1, <4>3 DEF FdsOK, At, SinkUsed, Has
      <4> QED BY <4>2, <4>4
    <3>2. CASE j # i
      <4>1. mState'[j] = mState[j]
        BY <1>3, <3>2, Indices
      <4>2. PhaseOK(j)'
        BY <1>1, <2>1, <2>2, <4>1 DEF PhaseOK
      <4>3. FdsOK(j)'
        BY <1>1, <2>1, <4>1 DEF FdsOK, At, SinkUsed, Has
      <4> QED BY <4>2, <4>3
    <3> QED BY <3>1, <3>2
  <2>5. EndOK(j)'
    BY <1>1, <2>1 DEF EndOK
  <2>6. DataOK(j)'
    BY <1>1, <2>1 DEF DataOK, SinkUsed
  <2>7. Has(0, "inWrite", j)' \/ ~mSendReady'[j] => Has(0, "inWrite", j) \/ ~mSendReady[j]
    BY <1>1 DEF Has
  <2>8. StreamOK(j)'
    BY <1>1, <2>1, <2>7, StreamFrame
  <2> QED BY <2>3, <2>5, <2>6, <2>8
<1> QED BY <1>4, <1>5, <1>6 DEF Kept

\* An error leaves whole pipes behind, which nobody was offered yet.
LEMMA ProcessFailKeeps ==
  ASSUME Kept, NEW q \in Internals, ProcessFail(q)
  PROVE  Kept'
<1>0. fds \in [Objects -> SUBSET Ends] /\ success \in [Objects -> Results]
  BY DEF Kept, TypeOK
<1>1. /\ mState[q] \in {"StFork", "StPipesCreate", "StParentStart"}
      /\ success' = [success EXCEPT ![q] = "Error"]
      /\ UNCHANGED <<source, sink, length, processed, mState, mSendReady, mDone, childTerminated, tick, inData, outData, child, hold, wrote, sinkBuffer, sinkString, torn>>
  BY DEF ProcessFail, clientVars, objVars, nodeVars, pipeVars, childVars, sinkVars
<1>2. PICK created \in {{}, StdinOf(q), EndsOf(q)}, closed \in {{}, ParentCloses(q)} :
         /\ fds' = [fds EXCEPT ![0] = (@ \cup created) \ closed]
         /\ created # {} => mState[q] = "StPipesCreate"
         /\ closed # {} => mState[q] = "StParentStart"
  <2>1. CASE UNCHANGED fds
    BY <1>0, <2>1, Indices
  <2>3. CASE mState[q] = "StParentStart" /\ fds' = [fds EXCEPT ![0] = @ \ ParentCloses(q)]
    BY <1>0, <2>3, Indices
  <2>2. CASE mState[q] = "StPipesCreate" /\ \E created \in {{}, StdinOf(q), EndsOf(q)} : fds' = [fds EXCEPT ![0] = @ \cup created]
    BY <2>2
  <2> QED BY <2>1, <2>2, <2>3 DEF ProcessFail
<1>3. /\ success' \in [Objects -> Results]
      /\ \A i \in Objects : success'[i] = "Positive" => success[i] = "Positive"
  BY <1>0, <1>1, Indices DEF Results
<1>4. created \subseteq Ends
  BY <1>2, EndsAre
<1>5. /\ fds' \in [Objects -> SUBSET Ends]
      /\ \A i \in Internals : fds'[i] = fds[i]
      /\ fds'[0] = (fds[0] \cup created) \ closed
  BY <1>0, <1>2, <1>4, Indices
<1>6. TypeOK'
  BY <1>1, <1>3, <1>5 DEF Kept, TypeOK
<1>7. TickOK' /\ ConfigOK'
  BY <1>1 DEF Kept, TickOK, ConfigOK
<1>8. ASSUME NEW j \in Internals
      PROVE  PhaseOK(j)' /\ FdsOK(j)' /\ EndOK(j)' /\ DataOK(j)' /\ StreamOK(j)'
  <2>1. PhaseOK(j) /\ FdsOK(j) /\ EndOK(j) /\ DataOK(j) /\ StreamOK(j)
    BY DEF Kept
  <2>2. /\ <<"inWrite", j>> \in created => <<"inRead", j>> \in created
        /\ <<"outRead", j>> \in created => SinkUsed(j)
    <3>1. <<"outRead", j>> \notin StdinOf(q) /\ (<<"inWrite", j>> \in StdinOf(q) => <<"inRead", j>> \in StdinOf(q))
      BY DEF StdinOf
    <3> QED BY <1>2, <3>1, EndsOfAre
  <2>3. \A e \in EndNames : <<e, j>> \in created => j = q /\ mState[j] = "StPipesCreate"
    <3>1. \A e \in EndNames : <<e, j>> \in EndsOf(q) \/ <<e, j>> \in StdinOf(q) => j = q
      BY DEF StdinOf, EndsOf
    <3> QED BY <1>2, <3>1
  <2>4. \A e \in EndNames : Has(0, e, j)' => Has(0, e, j) \/ mState[j] = "StPipesCreate"
    BY <1>5, <2>3 DEF Has
  <2>5. /\ Has(0, "inRead", j) => Has(0, "inRead", j)'
        /\ Has(0, "outRead", j) => Has(0, "outRead", j)'
        /\ <<"inRead", j>> \in created => Has(0, "inRead", j)'
    BY <1>2, <1>5, ParentClosesAre DEF Has
  <2>6. PhaseOK(j)'
    BY <1>1, <2>1 DEF PhaseOK
  <2>7. FdsOK(j)'
    <3>1. /\ Has(0, "inWrite", j)' => Has(0, "inRead", j)' \/ At(j, "close")'
          /\ Has(0, "outRead", j)' => SinkUsed(j)'
          /\ Has(j, "outWrite", j)' <=> Has(j, "outWrite", j)
          /\ Has(0, "outRead", j) => Has(0, "outRead", j)'
      BY <1>1, <1>5, <2>1, <2>2, <2>5 DEF Has, FdsOK, At, SinkUsed
    <3>2. mState[j] = "Finished" =>
             /\ ~Has(0, "inRead", j)' /\ ~Has(0, "inWrite", j)'
             /\ ~Has(0, "outRead", j)' /\ ~Has(0, "outWrite", j)'
      BY <2>1, <2>4 DEF FdsOK, At, EndNames
    <3> QED BY <1>1, <2>1, <3>1, <3>2 DEF FdsOK, SinkUsed
  <2>8. EndOK(j)'
    BY <1>1, <1>3, <2>1, Indices DEF EndOK
  <2>9. DataOK(j)'
    BY <1>1, <2>1 DEF DataOK, SinkUsed
  <2>10. mState[j] = "StPipesCreate" => ~mSendReady[j]
    BY <2>1 DEF PhaseOK, Late
  <2>11. Has(0, "inWrite", j)' \/ ~mSendReady'[j] => Has(0, "inWrite", j) \/ ~mSendReady[j]
    BY <1>1, <2>4, <2>10 DEF EndNames
  <2>12. StreamOK(j)'
    BY <1>1, <2>1, <2>11, StreamFrame
  <2> QED BY <2>6, <2>7, <2>8, <2>9, <2>12
<1> QED BY <1>6, <1>7, <1>8 DEF Kept

\* The OS process is there, with its own ends of the pipes.
LEMMA ForkKeeps ==
  ASSUME Kept, NEW q \in Internals, Fork(q)
  PROVE  Kept'
<1>0. /\ mState \in [Objects -> States]
      /\ fds \in [Objects -> SUBSET Ends]
      /\ child \in [Internals -> {"None", "Running", "Exited", "Reaped"}]
  BY DEF Kept, TypeOK
<1>1. /\ mState[q] = "StFork" /\ tick.step = "none"
      /\ mState' = [mState EXCEPT ![q] = "StParentStart"]
      /\ child' = [child EXCEPT ![q] = "Running"]
      /\ fds' = [fds EXCEPT ![q] = ChildEnds(q)]
      /\ UNCHANGED <<source, sink, length, processed, success, mSendReady, mDone, childTerminated, tick, inData, outData, hold, wrote, sinkBuffer, sinkString, torn>>
  BY DEF Fork, Working, Idle, StateGoto, clientVars, objVars, nodeVars, pipeVars, childVars, sinkVars
<1>2. /\ mState' \in [Objects -> States]
      /\ \A i \in Objects : mState'[i] = IF i = q THEN "StParentStart" ELSE mState[i]
  BY <1>0, <1>1, Indices DEF States, StatesUp
<1>3. /\ fds' \in [Objects -> SUBSET Ends]
      /\ \A i \in Objects : i # q => fds'[i] = fds[i]
      /\ fds'[q] = ChildEnds(q)
  BY <1>0, <1>1, EndsAre, Indices
<1>4. /\ child' \in [Internals -> {"None", "Running", "Exited", "Reaped"}]
      /\ \A i \in Internals : child'[i] = IF i = q THEN "Running" ELSE child[i]
  BY <1>0, <1>1
<1>5. TypeOK'
  BY <1>1, <1>2, <1>3, <1>4 DEF Kept, TypeOK
<1>6. TickOK' /\ ConfigOK'
  BY <1>1 DEF Kept, TickOK, ConfigOK
<1>7. ASSUME NEW j \in Internals
      PROVE  PhaseOK(j)' /\ FdsOK(j)' /\ EndOK(j)' /\ DataOK(j)' /\ StreamOK(j)'
  <2>1. PhaseOK(j) /\ FdsOK(j) /\ EndOK(j) /\ DataOK(j) /\ StreamOK(j)
    BY DEF Kept
  <2>2. fds'[0] = fds[0]
    BY <1>3, Indices
  <2>3. Has(j, "outWrite", j)' <=> j = q \/ Has(j, "outWrite", j)
    BY <1>3, EndsAre, Indices DEF Has
  <2>4. /\ mState'[j] = IF j = q THEN "StParentStart" ELSE mState[j]
        /\ child'[j] = IF j = q THEN "Running" ELSE child[j]
        /\ mState'[0] = mState[0]
    BY <1>2, <1>4, Indices
  <2>5. j = q => mState[j] = "StFork" /\ child[j] = "None"
    BY <1>1, <2>1 DEF PhaseOK
  <2>6. PhaseOK(j)'
    BY <1>1, <2>1, <2>4, <2>5 DEF PhaseOK, Early, Late
  <2>7. FdsOK(j)'
    <3>1. CASE j = q
      <4>1. mState'[j] = "StParentStart" /\ child'[j] = "Running" /\ mState[j] = "StFork" /\ Has(j, "outWrite", j)'
        BY <2>3, <2>4, <2>5, <3>1
      <4> QED BY <1>1, <2>1, <2>2, <4>1 DEF FdsOK, At, SinkUsed, Has
    <3>2. CASE j # q
      <4>1. mState'[j] = mState[j] /\ child'[j] = child[j] /\ fds'[j] = fds[j]
        BY <1>3, <2>4, <3>2, Indices
      <4> QED BY <1>1, <2>1, <2>2, <4>1 DEF FdsOK, At, SinkUsed, Has
    <3> QED BY <3>1, <3>2
  <2>8. EndOK(j)'
    BY <1>1, <2>1, <2>4, <2>5 DEF EndOK
  <2>9. DataOK(j)'
    BY <1>1, <2>1, <2>4 DEF DataOK, SinkUsed
  <2>10. Has(0, "inWrite", j)' \/ ~mSendReady'[j] => Has(0, "inWrite", j) \/ ~mSendReady[j]
    BY <1>1, <2>2 DEF Has
  <2>11. StreamOK(j)'
    BY <1>1, <2>1, <2>10, StreamFrame
  <2> QED BY <2>6, <2>7, <2>8, <2>9, <2>11
<1> QED BY <1>5, <1>6, <1>7 DEF Kept

\* An OS process ends; a child of its own may keep stdout open.
LEMMA ChildExitKeeps ==
  ASSUME Kept, NEW q \in Internals, ChildExit(q)
  PROVE  Kept'
<1>0. /\ fds \in [Objects -> SUBSET Ends]
      /\ child \in [Internals -> {"None", "Running", "Exited", "Reaped"}]
  BY DEF Kept, TypeOK
<1>1. /\ child[q] = "Running" /\ child' = [child EXCEPT ![q] = "Exited"]
      /\ UNCHANGED <<source, sink, length, processed, mState, success, mSendReady, mDone, childTerminated, tick, inData, outData, hold, wrote, sinkBuffer, sinkString, torn>>
  BY DEF ChildExit, Runs, clientVars, objVars, nodeVars, pipeVars, childVars, sinkVars
<1>2. PICK ends \in SUBSET Ends : fds' = [fds EXCEPT ![q] = ends]
  <2>1. fds[q] \cap {<<"outWrite", q>>} \in SUBSET Ends
    BY <1>0, Indices
  <2> QED BY <2>1 DEF ChildExit
<1>3. /\ fds' \in [Objects -> SUBSET Ends]
      /\ \A i \in Objects : i # q => fds'[i] = fds[i]
  BY <1>0, <1>2
<1>4. /\ child' \in [Internals -> {"None", "Running", "Exited", "Reaped"}]
      /\ \A i \in Internals : child'[i] = IF i = q THEN "Exited" ELSE child[i]
  BY <1>0, <1>1
<1>5. TypeOK'
  BY <1>1, <1>3, <1>4 DEF Kept, TypeOK
<1>6. TickOK' /\ ConfigOK'
  BY <1>1 DEF Kept, TickOK, ConfigOK
<1>7. ASSUME NEW j \in Internals
      PROVE  PhaseOK(j)' /\ FdsOK(j)' /\ EndOK(j)' /\ DataOK(j)' /\ StreamOK(j)'
  <2>1. PhaseOK(j) /\ FdsOK(j) /\ EndOK(j) /\ DataOK(j) /\ StreamOK(j)
    BY DEF Kept
  <2>2. fds'[0] = fds[0]
    BY <1>3, Indices
  <2>3. /\ child'[j] = IF j = q THEN "Exited" ELSE child[j]
        /\ j # q => fds'[j] = fds[j]
        /\ j = q => child[j] = "Running"
    BY <1>1, <1>3, <1>4, Indices
  <2>4. PhaseOK(j)'
    BY <1>1, <2>1, <2>3 DEF PhaseOK
  <2>5. FdsOK(j)'
    <3>1. CASE j = q
      BY <1>1, <2>1, <2>2, <2>3, <3>1 DEF FdsOK, At, SinkUsed, Has
    <3>2. CASE j # q
      BY <1>1, <2>1, <2>2, <2>3, <3>2 DEF FdsOK, At, SinkUsed, Has
    <3> QED BY <3>1, <3>2
  <2>6. EndOK(j)'
    BY <1>1, <2>1, <2>3 DEF EndOK
  <2>7. DataOK(j)'
    BY <1>1, <2>1, <2>3 DEF DataOK, SinkUsed
  <2>8. Has(0, "inWrite", j)' \/ ~mSendReady'[j] => Has(0, "inWrite", j) \/ ~mSendReady[j]
    BY <1>1, <2>2 DEF Has
  <2>9. StreamOK(j)'
    BY <1>1, <2>1, <2>8, StreamFrame
  <2> QED BY <2>4, <2>5, <2>6, <2>7, <2>9
<1> QED BY <1>5, <1>6, <1>7 DEF Kept

\* Before the start there is nothing that a source or a sink could change.
LEMMA SourceSetKeeps ==
  ASSUME Kept, NEW kind \in Sources, SourceSet(kind)
  PROVE  Kept'
<1>1. /\ source' = kind
      /\ UNCHANGED <<sink, length, processed, mState, success, mSendReady, mDone, childTerminated, tick, fds, inData, outData, child, hold, wrote, sinkBuffer, sinkString, torn>>
  BY DEF SourceSet, objVars, nodeVars, pipeVars, childVars, sinkVars
<1>2. kind \in {"closed", "auto", "fd", "transfer", "manual"}
  BY FileExecutingAssumption
<1>3. source' # "closed"
  <2>1. source \in {"closed", "auto", "fd", "transfer", "manual"}
    BY DEF Kept, TypeOK
  <2>2. Precedence[source] >= 0 /\ Precedence["closed"] = 0
    BY <2>1 DEF Precedence
  <2>3. Precedence[kind] > Precedence[source]
    BY DEF SourceSet
  <2>4. Precedence[source] \in Int
    BY <2>1 DEF Precedence
  <2> QED BY <1>1, <2>2, <2>3, <2>4
<1>4. TypeOK'
  BY <1>1, <1>2 DEF Kept, TypeOK
<1>5. TickOK' /\ ConfigOK'
  <2>1. mState[1] = "None"
    BY Indices DEF SourceSet, Kept, PhaseOK
  <2> QED BY <1>1, <1>3, <2>1 DEF Kept, TickOK, ConfigOK
<1>6. ASSUME NEW j \in Internals
      PROVE  PhaseOK(j)' /\ FdsOK(j)' /\ EndOK(j)' /\ DataOK(j)' /\ StreamOK(j)'
  <2>1. PhaseOK(j) /\ FdsOK(j) /\ EndOK(j) /\ DataOK(j) /\ StreamOK(j)
    BY DEF Kept
  <2>2. PhaseOK(j)' /\ EndOK(j)'
    BY <1>1, <2>1 DEF PhaseOK, EndOK
  <2>3. FdsOK(j)' /\ DataOK(j)'
    BY <1>1, <2>1 DEF FdsOK, At, DataOK, SinkUsed, Has
  <2>4. Has(0, "inWrite", j)' \/ ~mSendReady'[j] => Has(0, "inWrite", j) \/ ~mSendReady[j]
    BY <1>1 DEF Has
  <2>5. StreamOK(j)'
    BY <1>1, <2>1, <2>4, StreamFrame
  <2> QED BY <2>2, <2>3, <2>5
<1> QED BY <1>4, <1>5, <1>6 DEF Kept

\* The same for a sink: nothing was written yet that it could have missed.
LEMMA SinkSetKeeps ==
  ASSUME Kept, NEW kind \in Sinks, SinkSet(kind)
  PROVE  Kept'
<1>1. /\ mState[0] = "StStart" /\ sink' = kind /\ kind # "discard" /\ sink \notin {"auto", "fd"}
      /\ UNCHANGED <<source, length, processed, mState, success, mSendReady, mDone, childTerminated, tick, fds, inData, outData, child, hold, wrote, sinkBuffer, sinkString, torn>>
  BY DEF SinkSet, objVars, nodeVars, pipeVars, childVars, sinkVars
<1>2. kind \in {"discard", "auto", "fd", "manual"}
  BY FileExecutingAssumption
<1>3. TypeOK'
  BY <1>1, <1>2 DEF Kept, TypeOK
<1>4. TickOK' /\ ConfigOK'
  BY <1>1 DEF Kept, TickOK, ConfigOK
<1>5. ASSUME NEW j \in Internals
      PROVE  PhaseOK(j)' /\ FdsOK(j)' /\ EndOK(j)' /\ DataOK(j)' /\ StreamOK(j)'
  <2>1. PhaseOK(j) /\ FdsOK(j) /\ EndOK(j) /\ DataOK(j) /\ StreamOK(j) /\ ConfigOK
    BY DEF Kept
  <2>2. mState[j] = "None" /\ child[j] = "None"
    BY <1>1, <2>1 DEF PhaseOK, Early
  <2>3. wrote[j] = <<>> /\ outData[j] = <<>>
    BY <2>1, <2>2 DEF DataOK
  <2>4. PhaseOK(j)' /\ EndOK(j)'
    BY <1>1, <2>1 DEF PhaseOK, EndOK
  <2>5. SinkUsed(j)'
    BY <1>1 DEF SinkUsed
  <2>6. FdsOK(j)'
    BY <1>1, <2>1, <2>2, <2>5 DEF FdsOK, At, Has
  <2>7. DataOK(j)'
    BY <1>1, <2>1, <2>5 DEF DataOK
  <2>8. j = NumCmds /\ SinkSize = 0 => sinkString = <<>>
    <3>1. CASE sink = "discard"
      BY <2>1, <3>1 DEF ConfigOK
    <3>2. CASE sink = "manual" /\ j = NumCmds /\ SinkSize = 0
      <4>1. sinkString \in Seq(Nat) /\ sinkString \o outData[j] = <<>>
        BY <2>1, <2>3, <3>2 DEF StreamOK, Kept, TypeOK
      <4> QED BY <2>3, <4>1
    <3> QED BY <1>1, <3>1, <3>2 DEF Kept, TypeOK
  <2>9. StreamOK(j)'
    <3>1. <<>> = <<>> \o <<>>
      OBVIOUS
    <3>2. j = NumCmds /\ SinkSize = 0 => wrote'[j] = sinkString' \o outData'[j]
      BY <1>1, <2>3, <2>8, <3>1
    <3> QED BY <1>1, <2>1, <3>2 DEF StreamOK, Received, Has
  <2> QED BY <2>4, <2>6, <2>7, <2>9
<1> QED BY <1>3, <1>4, <1>5 DEF Kept

-----------------------------------------------------------------------------
(* What moves through the pipes *)

\* Concatenation is associative.
LEMMA Assoc ==
  ASSUME NEW s \in Seq(Nat), NEW t \in Seq(Nat), NEW u \in Seq(Nat)
  PROVE  (s \o t) \o u = s \o (t \o u)
BY SMTT(30)

\* What the proofs use of sequences.
LEMMA Seqs ==
  ASSUME NEW s \in Seq(Nat)
  PROVE  /\ s \o <<>> = s /\ <<>> \o s = s
         /\ \A t \in Seq(Nat) : s \o t \in Seq(Nat) /\ IsPrefix(s, s \o t)
         /\ \A t, u \in Seq(Nat) : (s \o t) \o u = s \o (t \o u)
         /\ \A n \in Nat : Append(s, n) = s \o <<n>> /\ Append(s, n) \in Seq(Nat) /\ <<n>> \in Seq(Nat)
         /\ s # <<>> => Head(s) \in Nat /\ Tail(s) \in Seq(Nat) /\ s = <<Head(s)>> \o Tail(s)
<1>1. s \o <<>> = s /\ <<>> \o s = s
  BY ConcatEmptySeq
<1>2. ASSUME NEW t \in Seq(Nat) PROVE s \o t \in Seq(Nat) /\ IsPrefix(s, s \o t)
  <2>1. s \o t \in Seq(Nat) /\ Len(s) <= Len(s \o t) /\ Len(s) \in Nat
    BY ConcatProperties
  <2>2. CASE Len(s) = 0
    BY <2>1, <2>2 DEF IsPrefix
  <2>3. CASE Len(s) > 0
    <3>1. SubSeq(s \o t, 1, Len(s)) = SubSeq(s, 1, Len(s))
      BY <2>1, <2>3, SubSeqOfConcat1
    <3> QED BY <2>1, <3>1 DEF IsPrefix
  <2> QED BY <2>1, <2>2, <2>3
<1>3. ASSUME NEW t \in Seq(Nat), NEW u \in Seq(Nat) PROVE (s \o t) \o u = s \o (t \o u)
  BY Assoc
<1>4. \A n \in Nat : Append(s, n) = s \o <<n>> /\ Append(s, n) \in Seq(Nat) /\ <<n>> \in Seq(Nat)
  BY AppendIsConcat, AppendProperties
<1>5. ASSUME s # <<>> PROVE Head(s) \in Nat /\ Tail(s) \in Seq(Nat) /\ s = <<Head(s)>> \o Tail(s)
  <2>1. Head(s) \in Nat /\ Tail(s) \in Seq(Nat)
    BY <1>5, HeadTailProperties
  <2>2. s = <<Head(s)>> \o Tail(s)
    BY <1>5, <2>1
  <2> QED BY <2>1, <2>2
<1> QED BY <1>1, <1>2, <1>3, <1>4, <1>5

\* The input is sent in order.
LEMMA UpToGrows ==
  ASSUME NEW n \in Nat
  PROVE  UpTo(n) \in Seq(Nat) /\ Append(UpTo(n), n + 1) = UpTo(n + 1)
BY DEF UpTo

\* A unit that is put into a pipe comes after all that went before it.
LEMMA ConcatAppend ==
  ASSUME NEW s \in Seq(Nat), NEW t \in Seq(Nat), NEW n \in Nat
  PROVE  s \o Append(t, n) = Append(s \o t, n)
<1>1. s \o t \in Seq(Nat) /\ <<n>> \in Seq(Nat) /\ Append(t, n) = t \o <<n>>
  BY Seqs
<1>2. Append(s \o t, n) = (s \o t) \o <<n>>
  BY <1>1, Seqs
<1> QED BY <1>1, <1>2, Assoc

\* A unit may be counted to what precedes or to what follows it.
LEMMA Shift ==
  ASSUME NEW s \in Seq(Nat), NEW n \in Nat, NEW t \in Seq(Nat)
  PROVE  (s \o <<n>>) \o t = s \o (<<n>> \o t)
<1> DEFINE one == <<n>>
<1>1. one \in Seq(Nat)
  OBVIOUS
<1> HIDE DEF one
<1>2. (s \o one) \o t = s \o (one \o t)
  BY <1>1, Assoc
<1> QED BY <1>2 DEF one

\* What was there is a beginning of what it grows to.
LEMMA Beginning ==
  ASSUME NEW s \in Seq(Nat), NEW t \in Seq(Nat)
  PROVE  IsPrefix(s, s \o t)
BY Seqs

\* StParentStart keeps the read end of stdin, so no write() of this OS process can fail for
\* want of a reader, unless a shutdown() is between the two ends.
LEMMA NoWriteKills ==
  ASSUME Kept, NEW k \in Internals, tick.step # "close"
  PROVE  ~Sigpipe(k)
<1>1. Has(0, "inWrite", k) => Has(0, "inRead", k)
  BY DEF Kept, FdsOK, At
<1> QED BY <1>1, Indices DEF Sigpipe, SinkIsSet, IsOpen, Has

\* A unit of the input goes to the first OS process, or its stdin is closed.
LEMMA SourceMoves ==
  ASSUME Kept,
         UNCHANGED <<source, sink, length, mState, success, mSendReady, childTerminated, outData, child, hold, wrote, sinkBuffer, sinkString, torn>>,
         tick' \in Ticks, tick'.at = tick.at,
         \/ UNCHANGED tick
         \/ tick.step = "source" /\ tick'.step \in {"source", "sink"}
         \/ /\ At(1, "close") /\ tick'.step = "SIGPIPE" /\ source = "manual"
            /\ fds' = [fds EXCEPT ![0] = @ \ {<<"inWrite", 1>>}],
         mDone' \in [Objects -> BOOLEAN], \A i \in Internals : i > 1 => mDone'[i] = mDone[i],
         fds' = fds \/ fds' = [fds EXCEPT ![0] = @ \ {<<"inWrite", 1>>}],
         \/ UNCHANGED <<processed, inData>>
         \/ /\ processed < length /\ source # "closed" /\ mSendReady[1]
            /\ processed' = processed + 1
            /\ inData' = [inData EXCEPT ![1] = Append(@, processed + 1)]
  PROVE  Kept'
<1>0. /\ processed \in Nat /\ processed \in 0 .. length /\ length \in Nat
      /\ fds \in [Objects -> SUBSET Ends] /\ inData \in [Internals -> Seq(Nat)]
  BY DEF Kept, TypeOK
<1>1. /\ inData' \in [Internals -> Seq(Nat)] /\ processed' \in 0 .. length
      /\ \A i \in Internals : i # 1 => inData'[i] = inData[i]
      /\ inData'[1] # inData[1] => mSendReady[1]
      /\ source = "closed" => processed' = processed
  <2>1. CASE UNCHANGED <<processed, inData>>
    BY <1>0, <2>1
  <2>2. CASE /\ processed < length /\ source # "closed" /\ mSendReady[1]
             /\ processed' = processed + 1
             /\ inData' = [inData EXCEPT ![1] = Append(@, processed + 1)]
    <3>1. Append(inData[1], processed + 1) \in Seq(Nat)
      BY <1>0, Indices, Seqs
    <3>2. processed' \in 0 .. length
      BY <1>0, <2>2
    <3> QED BY <1>0, <2>2, <3>1, <3>2, Indices
  <2> QED BY <2>1, <2>2
<1>2. /\ fds' \in [Objects -> SUBSET Ends]
      /\ \A i \in Internals : fds'[i] = fds[i]
      /\ fds'[0] = fds[0] \/ fds'[0] = fds[0] \ {<<"inWrite", 1>>}
  <2>1. CASE fds' = fds
    BY <1>0, <2>1
  <2>2. CASE fds' = [fds EXCEPT ![0] = @ \ {<<"inWrite", 1>>}]
    BY <1>0, <2>2, Indices
  <2> QED BY <2>1, <2>2
<1>3. TypeOK'
  BY <1>1, <1>2 DEF Kept, TypeOK
<1>4. TickOK' /\ ConfigOK'
  BY <1>1 DEF Kept, At, TickOK, ConfigOK
<1>k. ASSUME NEW j \in Internals, At(j, "close")
      PROVE  At(j, "close")' \/ <<"inWrite", j>> \notin fds'[0]
  BY <1>0, <1>k, Indices DEF At
<1>5. ASSUME NEW j \in Internals
      PROVE  PhaseOK(j)' /\ FdsOK(j)' /\ EndOK(j)' /\ DataOK(j)' /\ StreamOK(j)'
  <2>1. PhaseOK(j) /\ FdsOK(j) /\ EndOK(j) /\ DataOK(j) /\ StreamOK(j)
    BY DEF Kept
  <2>2. /\ Has(0, "inWrite", j)' => Has(0, "inWrite", j)
        /\ Has(0, "inRead", j)' <=> Has(0, "inRead", j)
        /\ Has(0, "outRead", j)' <=> Has(0, "outRead", j)
        /\ Has(0, "outWrite", j)' <=> Has(0, "outWrite", j)
        /\ Has(j, "outWrite", j)' <=> Has(j, "outWrite", j)
    BY <1>2 DEF Has
  <2>3. PhaseOK(j)'
    BY <2>1 DEF PhaseOK
  <2>4. FdsOK(j)'
    <3>1. Has(0, "inWrite", j)' => Has(0, "inRead", j)' \/ At(j, "close")'
      BY <1>k, <2>1, <2>2 DEF FdsOK, Has
    <3> QED BY <2>1, <2>2, <3>1 DEF FdsOK, SinkUsed
  <2>5. EndOK(j)'
    BY <2>1, Indices DEF EndOK
  <2>6. DataOK(j)'
    BY <1>1, <2>1 DEF DataOK, SinkUsed
  <2>7. CASE j = 1
    <3>1. hold[1] \in Seq(Nat) /\ wrote[1] \in Seq(Nat) /\ inData[1] \in Seq(Nat)
      BY Indices DEF Kept, TypeOK
    <3>2. Received(1)' = UpTo(processed')
      <4>1. CASE UNCHANGED <<processed, inData>>
        BY <2>1, <2>7, <4>1 DEF StreamOK, Received
      <4>2. CASE /\ processed < length /\ source # "closed" /\ mSendReady[1]
                 /\ processed' = processed + 1
                 /\ inData' = [inData EXCEPT ![1] = Append(@, processed + 1)]
        <5>1. inData'[1] = Append(inData[1], processed + 1)
          BY <1>0, <4>2, Indices
        <5>2. wrote[1] \o hold[1] \in Seq(Nat)
          BY <3>1, Seqs
        <5> DEFINE unit == processed + 1
        <5>u. unit \in Nat
          BY <1>0
        <5> HIDE DEF unit
        <5>3. (wrote[1] \o hold[1]) \o Append(inData[1], unit) = Append((wrote[1] \o hold[1]) \o inData[1], unit)
          BY <3>1, <5>2, <5>u, ConcatAppend
        <5>4. (wrote[1] \o hold[1]) \o inData[1] = UpTo(processed)
          BY <2>1, <2>7 DEF StreamOK, Received
        <5> QED BY <1>0, <4>2, <5>1, <5>3, <5>4, UpToGrows DEF Received, unit
      <4> QED BY <4>1, <4>2
    <3>3. j = NumCmds /\ sink' \in {"auto", "manual"} /\ SinkSize = 0 => wrote'[j] = sinkString' \o outData'[j]
      BY <2>1 DEF StreamOK
    <3> QED BY <2>3, <2>4, <2>5, <2>6, <2>7, <3>2, <3>3 DEF StreamOK
  <2>8. CASE j # 1
    <3>1. Received(j)' = Received(j)
      BY <1>1, <2>8 DEF Received
    <3>2. StreamOK(j)'
      BY <2>1, <2>2, <2>8, <3>1, Indices DEF StreamOK, Has
    <3> QED BY <2>3, <2>4, <2>5, <2>6, <3>2
  <2> QED BY <2>7, <2>8
<1> QED BY <1>3, <1>4, <1>5 DEF Kept

\* The three ways a unit of the input is sent.
LEMMA ClientSendKeeps ==
  ASSUME Kept, ClientSend
  PROVE  Kept'
<1>0. mDone \in [Objects -> BOOLEAN] /\ tick \in Ticks /\ fds \in [Objects -> SUBSET Ends]
  BY DEF Kept, TypeOK
<1>1. /\ processed < length /\ source = "manual"
      /\ UNCHANGED <<source, sink, length, mState, success, mSendReady, childTerminated, outData, child, hold, wrote, sinkBuffer, sinkString, torn>>
  BY <1>0 DEF ClientSend, ClientUp, nodeVars, childVars, sinkVars
<1>t. /\ tick' \in Ticks /\ tick'.at = tick.at
      /\ \/ UNCHANGED tick
         \/ /\ At(1, "close") /\ tick'.step = "SIGPIPE"
            /\ fds' = [fds EXCEPT ![0] = @ \ {<<"inWrite", 1>>}]
  <2>1. CASE Sigpipe(1)
    <3>1. SinkIsSet(1) /\ ~Accepts(1) /\ Has(0, "inWrite", 1) /\ ~Has(0, "inRead", 1)
      BY <2>1, Indices DEF Sigpipe, Accepts, SinkIsSet, IsOpen, Has
    <3>2. At(1, "close")
      BY <3>1, Indices DEF Kept, FdsOK
    <3>3. tick' = Killed(1) /\ fds' = [fds EXCEPT ![0] = @ \ {<<"inWrite", 1>>}]
      BY <2>1, <3>1 DEF ClientSend, IntSend
    <3> QED BY <3>2, <3>3, Indices DEF Killed, At, Ticks
  <2>2. CASE ~Sigpipe(1)
    BY <1>0, <2>2 DEF ClientSend
  <2> QED BY <2>1, <2>2
<1>2. fds' = fds \/ fds' = [fds EXCEPT ![0] = @ \ {<<"inWrite", 1>>}]
  BY DEF ClientSend, IntSend
<1>3. mDone' \in [Objects -> BOOLEAN] /\ \A i \in Internals : i > 1 => mDone'[i] = mDone[i]
  BY <1>0, Indices DEF ClientSend
<1>4. \/ UNCHANGED <<processed, inData>>
      \/ /\ processed < length /\ source # "closed" /\ mSendReady[1]
         /\ processed' = processed + 1
         /\ inData' = [inData EXCEPT ![1] = Append(@, processed + 1)]
  <2>1. CASE Accepts(1)
    BY <1>1, <2>1 DEF ClientSend, IntSend, Accepts, SinkIsSet
  <2>2. CASE ~Accepts(1)
    BY <2>2 DEF ClientSend, IntSend
  <2> QED BY <2>1, <2>2
<1> QED BY <1>1, <1>2, <1>3, <1>4, <1>t, SourceMoves

\* The next unit of the string.
LEMMA AutoSourceKeeps ==
  ASSUME Kept, NEW q \in Internals, AutoSource(q)
  PROVE  Kept'
<1>0. mDone \in [Objects -> BOOLEAN] /\ tick \in Ticks /\ ~Sigpipe(q)
  <2>1. tick.step # "close"
    BY DEF AutoSource, At
  <2> QED BY <2>1, NoWriteKills DEF Kept, TypeOK
<1>1. /\ q = 1 /\ source = "auto" /\ tick.step = "source"
      /\ tick' = [tick EXCEPT !.step = "sink"]
      /\ UNCHANGED <<source, sink, length, mState, success, mSendReady, childTerminated, outData, child, hold, wrote, sinkBuffer, sinkString, torn>>
  BY <1>0 DEF AutoSource, At, AutoSourced, GotoStep, childVars, sinkVars
<1>2. tick' \in Ticks /\ tick'.at = tick.at /\ tick'.step = "sink"
  BY <1>0, <1>1 DEF Ticks
<1>3. fds' = fds \/ fds' = [fds EXCEPT ![0] = @ \ {<<"inWrite", 1>>}]
  BY <1>1 DEF AutoSource
<1>4. mDone' \in [Objects -> BOOLEAN] /\ \A i \in Internals : i > 1 => mDone'[i] = mDone[i]
  BY <1>0, <1>1, Indices DEF AutoSource
<1>5. \/ UNCHANGED <<processed, inData>>
      \/ /\ processed < length /\ source # "closed" /\ mSendReady[1]
         /\ processed' = processed + 1
         /\ inData' = [inData EXCEPT ![1] = Append(@, processed + 1)]
  <2>1. CASE processed < length /\ Accepts(q)
    BY <1>1, <2>1 DEF AutoSource, Accepts, SinkIsSet
  <2>2. CASE ~(processed < length /\ Accepts(q))
    BY <2>2 DEF AutoSource
  <2> QED BY <2>1, <2>2
<1> QED BY <1>1, <1>2, <1>3, <1>4, <1>5, SourceMoves

\* The next unit of a descriptor or a Transfering().
LEMMA AutoSourceReadKeeps ==
  ASSUME Kept, NEW q \in Internals, AutoSourceRead(q)
  PROVE  Kept'
<1>0. mDone \in [Objects -> BOOLEAN] /\ tick \in Ticks /\ ~Sigpipe(q)
  <2>1. tick.step # "close"
    BY DEF AutoSourceRead, At
  <2> QED BY <2>1, NoWriteKills DEF Kept, TypeOK
<1>1. /\ q = 1 /\ source # "closed" /\ tick.step = "source"
      /\ UNCHANGED <<source, sink, length, mState, success, mSendReady, childTerminated, outData, child, hold, wrote, sinkBuffer, sinkString, torn>>
  BY DEF AutoSourceRead, At, AutoSourced, childVars, sinkVars
<1>2. \/ tick' = [tick EXCEPT !.burst = @ - 1]
      \/ tick' = [tick EXCEPT !.step = "sink", !.burst = Burst]
  BY <1>0 DEF AutoSourceRead
<1>3. tick' \in Ticks /\ tick'.at = tick.at /\ tick'.step \in {"source", "sink"}
  <2>1. CASE tick' = [tick EXCEPT !.burst = @ - 1]
    <3>1. tick.burst - 1 \in Int
      BY <1>0 DEF Ticks
    <3> QED BY <1>0, <1>1, <2>1, <3>1 DEF Ticks
  <2>2. CASE tick' = [tick EXCEPT !.step = "sink", !.burst = Burst]
    <3>1. Burst \in Int
      BY FileExecutingAssumption
    <3> QED BY <1>0, <1>1, <2>2, <3>1 DEF Ticks
  <2> QED BY <1>2, <2>1, <2>2
<1>4. fds' = fds \/ fds' = [fds EXCEPT ![0] = @ \ {<<"inWrite", 1>>}]
  BY <1>1 DEF AutoSourceRead
<1>5. mDone' \in [Objects -> BOOLEAN] /\ \A i \in Internals : i > 1 => mDone'[i] = mDone[i]
  BY <1>0, <1>1, Indices DEF AutoSourceRead
<1>6. \/ UNCHANGED <<processed, inData>>
      \/ /\ processed < length /\ source # "closed" /\ mSendReady[1]
         /\ processed' = processed + 1
         /\ inData' = [inData EXCEPT ![1] = Append(@, processed + 1)]
  BY <1>1 DEF AutoSourceRead, Accepts, SinkIsSet
<1> QED BY <1>1, <1>3, <1>4, <1>5, <1>6, SourceMoves

\* What is taken out of a pipe was in it: nothing that was said of an empty pipe is said of it.
LEMMA TakenFrom ==
  ASSUME NEW j \in Internals, FdsOK(j), EndOK(j), DataOK(j), outData[j] # <<>>,
         UNCHANGED <<sink, mState, success, childTerminated, child, hold, wrote, torn>>,
         mSendReady'[j] = mSendReady[j],
         j < NumCmds => mDone'[j + 1] = mDone[j + 1],
         inData'[j] = inData[j],
         At(j, "close")' <=> At(j, "close"),
         /\ Has(0, "inWrite", j)' => Has(0, "inWrite", j)
         /\ Has(0, "inRead", j)' <=> Has(0, "inRead", j)
         /\ Has(0, "outRead", j)' <=> Has(0, "outRead", j)
         /\ Has(0, "outWrite", j)' <=> Has(0, "outWrite", j)
         /\ Has(j, "outWrite", j)' <=> Has(j, "outWrite", j)
  PROVE  FdsOK(j)' /\ EndOK(j)' /\ DataOK(j)'
<1>1. FdsOK(j)'
  BY DEF FdsOK, SinkUsed, Has
<1>2. EndOK(j)'
  BY DEF EndOK
<1>3. DataOK(j)'
  BY DEF DataOK, SinkUsed
<1> QED BY <1>1, <1>2, <1>3

\* A unit goes on to the next OS process, or the stdin of that is closed.
LEMMA SinkToNextKeeps ==
  ASSUME Kept, NEW q \in Internals, SinkToNext(q)
  PROVE  Kept'
<1>0. /\ fds \in [Objects -> SUBSET Ends]
      /\ tick \in Ticks
      /\ inData \in [Internals -> Seq(Nat)] /\ outData \in [Internals -> Seq(Nat)]
      /\ hold \in [Internals -> Seq(Nat)] /\ wrote \in [Internals -> Seq(Nat)]
  BY DEF Kept, TypeOK
<1> DEFINE p == q + 1
           h == Head(outData[q])
           t == Tail(outData[q])
<1>1. /\ q < NumCmds /\ outData[q] # <<>> /\ tick.at = q /\ tick.step = "sink"
      /\ outData' = [outData EXCEPT ![q] = t]
      /\ inData' = IF Accepts(p) THEN [inData EXCEPT ![p] = Append(@, h)] ELSE inData
      /\ fds' = IF SinkIsSet(p) /\ ~Accepts(p) THEN [fds EXCEPT ![0] = @ \ {<<"inWrite", p>>}] ELSE fds
      /\ UNCHANGED <<source, sink, length, processed, mState, success, mSendReady, mDone, childTerminated, child, hold, wrote, sinkBuffer, sinkString, torn>>
  BY DEF SinkToNext, Sinking, SinkTakes, At, IntSend, OutHead, nodeVars, childVars
<1>2. p \in Internals /\ p # q /\ p > 1 /\ p - 1 = q
  BY <1>1, Indices DEF Internals
<1>3. h \in Nat /\ t \in Seq(Nat) /\ outData[q] = <<h>> \o t /\ <<h>> \in Seq(Nat)
  BY <1>0, <1>1, Seqs
<1>4. tick' = [tick EXCEPT !.burst = @ - 1]
  BY <1>1, <1>2, NoWriteKills DEF SinkToNext
<1>5. mState[q] = "StChildSupervise" /\ mSendReady[p]
  <2>1. mState[q] = "StChildSupervise"
    BY <1>1 DEF Kept, TickOK
  <2> QED BY <1>1, <2>1 DEF Kept, PhaseOK
<1> HIDE DEF p, h, t
<1>6. tick' \in Ticks /\ tick'.at = q /\ tick'.step = "sink"
  <2>1. tick.burst - 1 \in Int
    BY <1>0 DEF Ticks
  <2> QED BY <1>0, <1>1, <1>4, <2>1 DEF Ticks
<1>7. /\ outData' \in [Internals -> Seq(Nat)]
      /\ \A i \in Internals : outData'[i] = IF i = q THEN t ELSE outData[i]
  BY <1>0, <1>1, <1>3
<1>8. /\ inData' \in [Internals -> Seq(Nat)]
      /\ \A i \in Internals : i # p => inData'[i] = inData[i]
      /\ Accepts(p) => inData'[p] = Append(inData[p], h)
      /\ ~Accepts(p) => inData'[p] = inData[p]
  <2>1. Append(inData[p], h) \in Seq(Nat)
    BY <1>0, <1>2, <1>3, Seqs
  <2> QED BY <1>0, <1>1, <1>2, <2>1
<1>9. /\ fds' \in [Objects -> SUBSET Ends]
      /\ \A i \in Internals : fds'[i] = fds[i]
      /\ fds'[0] = fds[0] \/ fds'[0] = fds[0] \ {<<"inWrite", p>>}
      /\ ~Accepts(p) => <<"inWrite", p>> \notin fds'[0]
  <2>1. CASE SinkIsSet(p) /\ ~Accepts(p)
    BY <1>0, <1>1, <2>1, Indices
  <2>2. CASE ~(SinkIsSet(p) /\ ~Accepts(p))
    BY <1>0, <1>1, <1>5, <2>2 DEF SinkIsSet
  <2> QED BY <2>1, <2>2
<1>10. TypeOK'
  BY <1>1, <1>6, <1>7, <1>8, <1>9 DEF Kept, TypeOK
<1>11. TickOK' /\ ConfigOK'
  BY <1>1, <1>5, <1>6 DEF Kept, TickOK, ConfigOK
<1>12. ASSUME NEW j \in Internals
       PROVE  PhaseOK(j)' /\ FdsOK(j)' /\ EndOK(j)' /\ DataOK(j)' /\ StreamOK(j)'
  <2>1. PhaseOK(j) /\ FdsOK(j) /\ EndOK(j) /\ DataOK(j) /\ StreamOK(j)
    BY DEF Kept
  <2>2. /\ Has(0, "inWrite", j)' => Has(0, "inWrite", j)
        /\ Has(0, "inRead", j)' <=> Has(0, "inRead", j)
        /\ Has(0, "outRead", j)' <=> Has(0, "outRead", j)
        /\ Has(0, "outWrite", j)' <=> Has(0, "outWrite", j)
        /\ Has(j, "outWrite", j)' <=> Has(j, "outWrite", j)
    BY <1>9 DEF Has
  <2>c. ~At(j, "close") /\ ~At(j, "close")'
    BY <1>1, <1>6 DEF At
  <2>3. PhaseOK(j)'
    BY <1>1, <2>1 DEF PhaseOK
  <2>4. FdsOK(j)' /\ EndOK(j)' /\ DataOK(j)'
    <3>1. CASE j = q
      <4>1. outData[j] # <<>> /\ inData'[j] = inData[j]
        BY <1>1, <1>2, <1>8, <3>1
      <4> QED BY <1>1, <2>1, <2>2, <2>c, <4>1, TakenFrom
    <3>2. CASE j # q
      <4>1. outData'[j] = outData[j] /\ (~mSendReady[j] => inData'[j] = inData[j])
        BY <1>5, <1>7, <1>8, <3>2
      <4>2. FdsOK(j)'
        BY <1>1, <2>1, <2>2, <2>c, <4>1 DEF FdsOK, SinkUsed, Has
      <4>3. EndOK(j)'
        BY <1>1, <2>1, <4>1 DEF EndOK
      <4>4. DataOK(j)'
        BY <1>1, <2>1, <4>1 DEF DataOK, SinkUsed
      <4> QED BY <4>2, <4>3, <4>4
    <3> QED BY <3>1, <3>2
  <2>5. StreamOK(j)'
    <3>1. CASE j = p
      <4>1. PICK rest \in Seq(Nat) : /\ wrote[q] = Received(p) \o rest
                                     /\ Has(0, "inWrite", p) => rest = outData[q]
        BY <1>2, <2>1, <3>1 DEF StreamOK
      <4>2. CASE Accepts(p)
        <5>1. rest = <<h>> \o t
          BY <1>3, <4>1, <4>2 DEF Accepts, SinkIsSet, Has
        <5>2. wrote[p] \o hold[p] \in Seq(Nat) /\ inData[p] \in Seq(Nat) /\ Received(p) \in Seq(Nat)
          BY <1>0, <1>2, Seqs DEF Received
        <5>3. Received(p)' = Received(p) \o <<h>>
          <6>1. Append((wrote[p] \o hold[p]) \o inData[p], h) = (wrote[p] \o hold[p]) \o Append(inData[p], h)
            BY <1>3, <5>2, ConcatAppend
          <6>2. Append(Received(p), h) = Received(p) \o <<h>>
            BY <1>3, <5>2, Seqs
          <6> QED BY <1>1, <1>8, <4>2, <6>1, <6>2 DEF Received
        <5>4. wrote[q] = Received(p)' \o t
          <6>1. (Received(p) \o <<h>>) \o t = Received(p) \o (<<h>> \o t)
            BY <1>3, <5>2, Shift
          <6> QED BY <4>1, <5>1, <5>3, <6>1
        <5>5. outData'[q] = t
          BY <1>7
        <5>6. j # 1 /\ (j = NumCmds => outData'[j] = outData[j])
          BY <1>2, <1>7, <3>1
        <5> QED BY <1>1, <1>2, <1>3, <2>1, <3>1, <5>4, <5>5, <5>6 DEF StreamOK
      <4>3. CASE ~Accepts(p)
        <5>1. ~Has(0, "inWrite", p)' /\ Received(p)' = Received(p)
          BY <1>1, <1>8, <1>9, <4>3 DEF Has, Received
        <5>2. j # 1 /\ outData'[j] = outData[j] /\ mSendReady'[p]
          BY <1>1, <1>2, <1>5, <1>7, <3>1
        <5> QED BY <1>1, <1>2, <2>1, <3>1, <4>1, <5>1, <5>2 DEF StreamOK
      <4> QED BY <4>2, <4>3
    <3>2. CASE j # p
      <4>1. Received(j)' = Received(j)
        BY <1>1, <1>8, <3>2 DEF Received
      <4>2. j > 1 => outData'[j - 1] = outData[j - 1]
        BY <1>2, <1>7, <3>2, Indices
      <4>3. j = NumCmds => outData'[j] = outData[j]
        BY <1>1, <1>7, Indices
      <4> QED BY <1>1, <2>1, <2>2, <4>1, <4>2, <4>3 DEF StreamOK
    <3> QED BY <3>1, <3>2
  <2> QED BY <2>3, <2>4, <2>5
<1> QED BY <1>10, <1>11, <1>12 DEF Kept

\* A unit that the sinks of the last command, or read(), take: it is all that changes.
LEMMA LastTakes ==
  ASSUME Kept, NEW q \in Internals, q = NumCmds, outData[q] # <<>>,
         UNCHANGED <<source, sink, length, processed, mState, success, mSendReady, mDone, childTerminated, fds, inData, child, hold, wrote, torn>>,
         tick' \in Ticks, tick'.at = tick.at,
         UNCHANGED tick \/ (tick.step = "sink" /\ tick'.step \in {"sink", "record"}),
         outData' = [outData EXCEPT ![q] = Tail(@)],
         sinkBuffer' \in Seq(Nat), sinkString' \in Seq(Nat), sink # "discard",
         SinkSize = 0 /\ sink # "fd" => sinkString' = Append(sinkString, Head(outData[q]))
  PROVE  Kept'
<1> DEFINE h == Head(outData[q])
           t == Tail(outData[q])
<1>0. /\ outData \in [Internals -> Seq(Nat)] /\ sinkString \in Seq(Nat)
  BY DEF Kept, TypeOK
<1>1. h \in Nat /\ t \in Seq(Nat) /\ outData[q] = <<h>> \o t /\ <<h>> \in Seq(Nat)
  BY <1>0, Seqs
<1>2. Append(sinkString, h) = sinkString \o <<h>>
  BY <1>0, <1>1, Seqs
<1> HIDE DEF h, t
<1>3. /\ outData' \in [Internals -> Seq(Nat)]
      /\ \A i \in Internals : outData'[i] = IF i = q THEN t ELSE outData[i]
  BY <1>0, <1>1 DEF t
<1>4. TypeOK'
  BY <1>3 DEF Kept, TypeOK
<1>5. TickOK' /\ ConfigOK'
  BY DEF Kept, TickOK, ConfigOK
<1>6. ASSUME NEW j \in Internals
      PROVE  PhaseOK(j)' /\ FdsOK(j)' /\ EndOK(j)' /\ DataOK(j)' /\ StreamOK(j)'
  <2>1. PhaseOK(j) /\ FdsOK(j) /\ EndOK(j) /\ DataOK(j) /\ StreamOK(j)
    BY DEF Kept
  <2>c. At(j, "close")' <=> At(j, "close")
    BY DEF At
  <2>2. PhaseOK(j)'
    BY <2>1 DEF PhaseOK
  <2>3. FdsOK(j)' /\ EndOK(j)' /\ DataOK(j)'
    <3>1. CASE j = q
      <4>1. outData[j] # <<>>
        BY <3>1
      <4>2. /\ Has(0, "inWrite", j)' <=> Has(0, "inWrite", j)
            /\ Has(0, "inRead", j)' <=> Has(0, "inRead", j)
            /\ Has(0, "outRead", j)' <=> Has(0, "outRead", j)
            /\ Has(0, "outWrite", j)' <=> Has(0, "outWrite", j)
            /\ Has(j, "outWrite", j)' <=> Has(j, "outWrite", j)
        BY DEF Has
      <4> QED BY <2>1, <2>c, <4>1, <4>2, TakenFrom
    <3>2. CASE j # q
      <4>1. outData'[j] = outData[j]
        BY <1>3, <3>2
      <4>2. FdsOK(j)'
        BY <2>1, <2>c, <4>1 DEF FdsOK, SinkUsed, Has
      <4>3. EndOK(j)' /\ DataOK(j)'
        BY <2>1, <4>1 DEF EndOK, DataOK, SinkUsed
      <4> QED BY <4>2, <4>3
    <3> QED BY <3>1, <3>2
  <2>4. StreamOK(j)'
    <3>1. Received(j)' = Received(j)
      BY DEF Received
    <3>2. j > 1 => outData'[j - 1] = outData[j - 1]
      BY <1>3, Indices
    <3>3. j = NumCmds /\ sink' \in {"auto", "manual"} /\ SinkSize = 0 => wrote'[j] = sinkString' \o outData'[j]
      <4>1. CASE j = q /\ SinkSize = 0 /\ sink \in {"auto", "manual"}
        <5>1. wrote[j] = sinkString \o (<<h>> \o t)
          BY <1>1, <2>1, <4>1 DEF StreamOK
        <5>2. sinkString \o (<<h>> \o t) = (sinkString \o <<h>>) \o t
          BY <1>0, <1>1, Shift
        <5>3. sinkString' = sinkString \o <<h>> /\ outData'[j] = t
          BY <1>2, <1>3, <4>1 DEF h
        <5> QED BY <5>1, <5>2, <5>3
      <4>2. CASE ~(j = q /\ SinkSize = 0 /\ sink \in {"auto", "manual"})
        BY <4>2
      <4> QED BY <4>1, <4>2
    <3> QED BY <2>1, <3>1, <3>2, <3>3 DEF StreamOK, Has
  <2> QED BY <2>2, <2>3, <2>4
<1> QED BY <1>4, <1>5, <1>6 DEF Kept

\* The sinks of the last command take a unit.
LEMMA SinkToStringsKeeps ==
  ASSUME Kept, NEW q \in Internals, SinkToStrings(q)
  PROVE  Kept'
<1>0. /\ tick \in Ticks /\ sinkBuffer \in Seq(Nat) /\ sinkString \in Seq(Nat)
      /\ outData \in [Internals -> Seq(Nat)] /\ SinkSize \in Nat
  BY FileExecutingAssumption DEF Kept, TypeOK
<1>1. /\ q = NumCmds /\ outData[q] # <<>> /\ sink = "auto" /\ tick.step = "sink"
      /\ outData' = [outData EXCEPT ![q] = Tail(@)]
      /\ UNCHANGED <<source, sink, length, processed, mState, success, mSendReady, mDone, childTerminated, fds, inData, child, hold, wrote, torn>>
  BY DEF SinkToStrings, Sinking, SinkTakes, At, nodeVars, childVars
<1>2. /\ sinkBuffer' = sinkBuffer \/ sinkBuffer' = Append(sinkBuffer, Head(outData[q]))
      /\ sinkString' = IF Len(sinkBuffer) + 1 < SinkSize THEN sinkString ELSE Append(sinkString, Head(outData[q]))
      /\ tick' = [tick EXCEPT !.step = "record"] \/ tick' = [tick EXCEPT !.burst = @ - 1]
  BY DEF SinkToStrings, OutHead
<1>3. Head(outData[q]) \in Nat
  BY <1>0, <1>1, Seqs
<1>4. /\ Append(sinkBuffer, Head(outData[q])) \in Seq(Nat)
      /\ Append(sinkString, Head(outData[q])) \in Seq(Nat)
  BY <1>0, <1>3, Seqs
<1>5. sinkBuffer' \in Seq(Nat) /\ sinkString' \in Seq(Nat)
  BY <1>0, <1>2, <1>4
<1>6. SinkSize = 0 => sinkString' = Append(sinkString, Head(outData[q]))
  <2>1. Len(sinkBuffer) \in Nat
    BY <1>0
  <2>2. ~(Len(sinkBuffer) + 1 < 0)
    BY <2>1
  <2> QED BY <1>2, <2>2
<1>7. tick' \in Ticks /\ tick'.at = tick.at /\ tick'.step \in {"sink", "record"}
  <2>1. CASE tick' = [tick EXCEPT !.step = "record"]
    BY <1>0, <1>1, <2>1 DEF Ticks
  <2>2. CASE tick' = [tick EXCEPT !.burst = @ - 1]
    <3>1. tick.burst - 1 \in Int
      BY <1>0 DEF Ticks
    <3> QED BY <1>0, <1>1, <2>2, <3>1 DEF Ticks
  <2> QED BY <1>2, <2>1, <2>2
<1> QED BY <1>1, <1>5, <1>6, <1>7, LastTakes

\* A descriptor or a Transfering() takes it, or not.
LEMMA SinkToFdsKeeps ==
  ASSUME Kept, NEW q \in Internals, SinkToFds(q)
  PROVE  Kept'
<1>0. /\ tick \in Ticks /\ sinkBuffer \in Seq(Nat) /\ sinkString \in Seq(Nat)
      /\ outData \in [Internals -> Seq(Nat)]
  BY DEF Kept, TypeOK
<1>1. /\ q = NumCmds /\ outData[q] # <<>> /\ sink = "fd" /\ tick.step = "sink"
      /\ outData' = [outData EXCEPT ![q] = Tail(@)]
      /\ sinkString' = sinkString \/ sinkString' = Append(sinkString, Head(outData[q]))
      /\ tick' = [tick EXCEPT !.burst = @ - 1]
      /\ UNCHANGED <<source, sink, length, processed, mState, success, mSendReady, mDone, childTerminated, fds, inData, child, hold, wrote, sinkBuffer, torn>>
  BY DEF SinkToFds, Sinking, SinkTakes, At, OutHead, nodeVars, childVars
<1>2. sinkString' \in Seq(Nat)
  <2>1. Head(outData[q]) \in Nat
    BY <1>0, <1>1, Seqs
  <2>2. Append(sinkString, Head(outData[q])) \in Seq(Nat)
    BY <1>0, <2>1, Seqs
  <2> QED BY <1>0, <1>1, <2>2
<1>3. tick' \in Ticks /\ tick'.at = tick.at /\ tick'.step = "sink"
  <2>1. tick.burst - 1 \in Int
    BY <1>0 DEF Ticks
  <2> QED BY <1>0, <1>1, <2>1 DEF Ticks
<1> QED BY <1>0, <1>1, <1>2, <1>3, LastTakes

\* The pipe of the last command is closed when all was read that will ever come, or torn.
LEMMA LastCloses ==
  ASSUME Kept, NEW q \in Internals, q = NumCmds, mSendReady[q],
         UNCHANGED <<source, sink, length, processed, mState, success, mSendReady, mDone, childTerminated, tick, inData, outData, child, hold, wrote, sinkBuffer, sinkString>>,
         fds' = [fds EXCEPT ![0] = @ \ {<<"outRead", q>>}], torn \subseteq torn',
         q \notin torn' => outData[q] = <<>> /\ (childTerminated[q] \/ ~Has(q, "outWrite", q))
  PROVE  Kept'
<1>0. fds \in [Objects -> SUBSET Ends]
  BY DEF Kept, TypeOK
<1>2. q \notin torn' /\ mState[q] \in {"StSinksReadyWait", "StChildSupervise"} => child[q] \in {"Exited", "Reaped"}
  <2>1. PhaseOK(q) /\ FdsOK(q) /\ EndOK(q)
    BY DEF Kept
  <2>2. child[q] \in {"None", "Running", "Exited", "Reaped"}
    BY DEF Kept, TypeOK
  <2> QED BY <2>1, <2>2 DEF PhaseOK, FdsOK, EndOK
<1>3. mState[q] \notin {"StFork", "StParentStart"}
  BY DEF Kept, PhaseOK, Late
<1>4. /\ fds' \in [Objects -> SUBSET Ends]
      /\ \A i \in Internals : fds'[i] = fds[i]
      /\ fds'[0] = fds[0] \ {<<"outRead", q>>}
  BY <1>0, Indices
<1>5. TypeOK'
  BY <1>4 DEF Kept, TypeOK
<1>6. TickOK' /\ ConfigOK'
  BY DEF Kept, TickOK, ConfigOK
<1>7. ASSUME NEW j \in Internals
      PROVE  PhaseOK(j)' /\ FdsOK(j)' /\ EndOK(j)' /\ DataOK(j)' /\ StreamOK(j)'
  <2>1. PhaseOK(j) /\ FdsOK(j) /\ EndOK(j) /\ DataOK(j) /\ StreamOK(j)
    BY DEF Kept
  <2>2. /\ Has(0, "inRead", j)' <=> Has(0, "inRead", j)
        /\ Has(0, "inWrite", j)' <=> Has(0, "inWrite", j)
        /\ Has(0, "outRead", j)' <=> Has(0, "outRead", j) /\ j # q
        /\ Has(0, "outWrite", j)' <=> Has(0, "outWrite", j)
        /\ Has(j, "outWrite", j)' <=> Has(j, "outWrite", j)
    BY <1>4 DEF Has
  <2>3. PhaseOK(j)' /\ EndOK(j)'
    BY <2>1 DEF PhaseOK, EndOK
  <2>4. At(j, "close")' <=> At(j, "close")
    BY DEF At
  <2>5. FdsOK(j)'
    <3>1. CASE j = q
      BY <1>2, <1>3, <2>1, <2>2, <2>4, <3>1 DEF FdsOK, SinkUsed
    <3>2. CASE j # q
      BY <2>1, <2>2, <2>4, <3>2 DEF FdsOK, SinkUsed
    <3> QED BY <3>1, <3>2
  <2>6. DataOK(j)'
    BY <2>1 DEF DataOK, SinkUsed
  <2>7. StreamOK(j)'
    BY <2>1, <2>2, StreamFrame
  <2> QED BY <2>3, <2>5, <2>6, <2>7
<1> QED BY <1>5, <1>6, <1>7 DEF Kept

\* Nothing but reading and torn changes.
LEMMA ReadingKeeps ==
  ASSUME Kept,
         UNCHANGED <<source, sink, length, processed, mState, success, mSendReady, mDone, childTerminated, tick, fds, inData, outData, child, hold, wrote, sinkBuffer, sinkString, torn>>
  PROVE  Kept'
<1>1. TypeOK' /\ TickOK' /\ ConfigOK'
  BY DEF Kept, TypeOK, TickOK, ConfigOK
<1>2. ASSUME NEW j \in Internals
      PROVE  PhaseOK(j)' /\ FdsOK(j)' /\ EndOK(j)' /\ DataOK(j)' /\ StreamOK(j)'
  <2>1. PhaseOK(j) /\ FdsOK(j) /\ EndOK(j) /\ DataOK(j) /\ StreamOK(j)
    BY DEF Kept
  <2>2. PhaseOK(j)' /\ EndOK(j)'
    BY <2>1 DEF PhaseOK, EndOK
  <2>3. FdsOK(j)' /\ DataOK(j)'
    BY <2>1 DEF FdsOK, At, DataOK, SinkUsed, Has
  <2>4. StreamOK(j)'
    BY <2>1 DEF StreamOK, Received, Has
  <2> QED BY <2>2, <2>3, <2>4
<1> QED BY <1>1, <1>2 DEF Kept

\* read() of the client takes a unit, finds that no more can come or fails, or gets an EAGAIN.
LEMMA ClientReadKeeps ==
  ASSUME Kept, ClientRead
  PROVE  Kept'
<1> DEFINE q == NumCmds
<1>0. /\ fds \in [Objects -> SUBSET Ends] /\ tick \in Ticks /\ sinkString \in Seq(Nat) /\ sinkBuffer \in Seq(Nat)
      /\ outData \in [Internals -> Seq(Nat)] /\ q \in Internals
  BY FileExecutingAssumption DEF Kept, TypeOK, Internals
<1>1. /\ sink = "manual" /\ mSendReady[q]
      /\ UNCHANGED <<source, sink, length, processed, mState, success, mSendReady, mDone, childTerminated, tick, inData, child, hold, wrote, sinkBuffer>>
  BY DEF ClientRead, ReadOpen, clientVars, objVars, nodeVars, childVars
<1>2. CASE /\ outData[q] # <<>> /\ outData' = [outData EXCEPT ![q] = Tail(@)]
           /\ sinkString' = Append(sinkString, Head(outData[q])) /\ UNCHANGED <<fds, torn>>
  <2>1. sinkString' \in Seq(Nat)
    BY <1>0, <1>2, Seqs
  <2> QED BY <1>0, <1>1, <1>2, <2>1, LastTakes
<1>3. CASE /\ fds' = [fds EXCEPT ![0] = @ \ {<<"outRead", q>>}]
           /\ (outData[q] = <<>> /\ ~IsOpen(<<"outWrite", q>>) /\ torn' = torn) \/ torn' = torn \cup {q}
           /\ UNCHANGED <<outData, sinkString>>
  <2>1. q \notin torn' => outData[q] = <<>> /\ ~Has(q, "outWrite", q)
    BY <1>0, <1>3, Indices DEF IsOpen, Has
  <2> HIDE DEF q
  <2>2. torn \subseteq torn' /\ UNCHANGED <<outData, sinkString>>
    BY <1>3
  <2> QED BY <1>0, <1>1, <1>3, <2>1, <2>2, LastCloses DEF q
<1>4. CASE UNCHANGED <<fds, outData, sinkString, torn>>
  BY <1>1, <1>4, ReadingKeeps
<1> QED BY <1>2, <1>3, <1>4 DEF ClientRead, OutHead

\* ... and then closes the pipe if the OS process has terminated.
LEMMA ClientReadAgainKeeps ==
  ASSUME Kept, ClientReadAgain
  PROVE  Kept'
<1> DEFINE q == NumCmds
<1>0. q \in Internals
  BY FileExecutingAssumption DEF Internals
<1>1. UNCHANGED <<source, sink, length, processed, mState, success, mSendReady, mDone, childTerminated, tick, inData, outData, child, hold, wrote, sinkBuffer, sinkString>>
  BY DEF ClientReadAgain, clientVars, objVars, nodeVars, pipeVars, childVars
<1>2. CASE childTerminated[q] /\ <<"outRead", q>> \in fds[0]
  <2>1. /\ fds' = [fds EXCEPT ![0] = @ \ {<<"outRead", q>>}]
        /\ torn \subseteq torn' /\ (q \notin torn' => outData[q] = <<>>)
    BY <1>2 DEF ClientReadAgain
  <2>2. mSendReady[q]
    BY <1>0, <1>2 DEF Kept, PhaseOK
  <2> QED BY <1>0, <1>1, <1>2, <2>1, <2>2, LastCloses
<1>3. CASE ~(childTerminated[q] /\ <<"outRead", q>> \in fds[0])
  <2>1. UNCHANGED <<fds, torn>>
    BY <1>3 DEF ClientReadAgain
  <2> QED BY <1>1, <2>1, ReadingKeeps
<1> QED BY <1>2, <1>3

\* What an OS process holds is still on its way.
LEMMA ChildReadKeeps ==
  ASSUME Kept, NEW q \in Internals, ChildRead(q)
  PROVE  Kept'
<1> DEFINE h == Head(inData[q])
           t == Tail(inData[q])
<1>0. /\ inData \in [Internals -> Seq(Nat)] /\ hold \in [Internals -> Seq(Nat)]
      /\ wrote \in [Internals -> Seq(Nat)]
  BY DEF Kept, TypeOK
<1>1. /\ child[q] = "Running" /\ hold[q] = <<>> /\ inData[q] # <<>>
      /\ hold' = [hold EXCEPT ![q] = <<h>>]
      /\ inData' = [inData EXCEPT ![q] = t]
      /\ UNCHANGED <<source, sink, length, processed, mState, success, mSendReady, mDone, childTerminated, tick, fds, outData, child, wrote, sinkBuffer, sinkString, torn>>
  BY DEF ChildRead, Runs, clientVars, objVars, nodeVars, sinkVars
<1>2. h \in Nat /\ t \in Seq(Nat) /\ inData[q] = <<h>> \o t /\ <<h>> \in Seq(Nat)
  BY <1>0, <1>1, Seqs
<1> HIDE DEF h, t
<1>3. /\ inData' \in [Internals -> Seq(Nat)] /\ hold' \in [Internals -> Seq(Nat)]
      /\ \A i \in Internals : /\ inData'[i] = IF i = q THEN t ELSE inData[i]
                              /\ hold'[i] = IF i = q THEN <<h>> ELSE hold[i]
  BY <1>0, <1>1, <1>2
<1>4. TypeOK'
  BY <1>1, <1>3 DEF Kept, TypeOK
<1>5. TickOK' /\ ConfigOK'
  BY <1>1 DEF Kept, TickOK, ConfigOK
<1>6. ASSUME NEW j \in Internals
      PROVE  PhaseOK(j)' /\ FdsOK(j)' /\ EndOK(j)' /\ DataOK(j)' /\ StreamOK(j)'
  <2>1. PhaseOK(j) /\ FdsOK(j) /\ EndOK(j) /\ DataOK(j) /\ StreamOK(j)
    BY DEF Kept
  <2>2. PhaseOK(j)' /\ EndOK(j)'
    BY <1>1, <2>1 DEF PhaseOK, EndOK
  <2>3. FdsOK(j)'
    BY <1>1, <2>1 DEF FdsOK, At, SinkUsed, Has
  <2>4. DataOK(j)'
    <3>1. CASE j = q
      BY <1>1, <2>1, <3>1 DEF DataOK, SinkUsed
    <3>2. CASE j # q
      BY <1>1, <1>3, <2>1, <3>2 DEF DataOK, SinkUsed
    <3> QED BY <3>1, <3>2
  <2>5. Received(j)' = Received(j)
    <3>1. CASE j = q
      <4>1. Received(j)' = (wrote[q] \o <<h>>) \o t
        BY <1>1, <1>3, <3>1 DEF Received
      <4>2. Received(j) = wrote[q] \o (<<h>> \o t)
        <5>1. wrote[q] \o <<>> = wrote[q]
          BY <1>0, Seqs
        <5> QED BY <1>1, <1>2, <3>1, <5>1 DEF Received
      <4> QED BY <1>0, <1>2, <4>1, <4>2, Shift
    <3>2. CASE j # q
      BY <1>1, <1>3, <3>2 DEF Received
    <3> QED BY <3>1, <3>2
  <2>6. StreamOK(j)'
    BY <1>1, <2>1, <2>5 DEF StreamOK, Has
  <2> QED BY <2>2, <2>3, <2>4, <2>6
<1> QED BY <1>4, <1>5, <1>6 DEF Kept

\* What an OS process writes is on its way to the next one or to the sinks.
LEMMA ChildWriteKeeps ==
  ASSUME Kept, NEW q \in Internals, ChildWrite(q)
  PROVE  Kept'
<1> DEFINE h == hold[q]
<1>0. /\ inData \in [Internals -> Seq(Nat)] /\ outData \in [Internals -> Seq(Nat)]
      /\ hold \in [Internals -> Seq(Nat)] /\ wrote \in [Internals -> Seq(Nat)]
      /\ sinkString \in Seq(Nat)
  BY DEF Kept, TypeOK
<1>1. /\ child[q] = "Running" /\ h # <<>> /\ h \in Seq(Nat)
      /\ hold' = [hold EXCEPT ![q] = <<>>]
      /\ wrote' = [wrote EXCEPT ![q] = @ \o h]
      /\ outData' = IF SinkUsed(q) THEN [outData EXCEPT ![q] = @ \o h] ELSE outData
      /\ UNCHANGED <<source, sink, length, processed, mState, success, mSendReady, mDone, childTerminated, tick, fds, inData, child, sinkBuffer, sinkString, torn>>
  BY <1>0 DEF ChildWrite, Runs, clientVars, objVars, nodeVars, sinkVars
<1> HIDE DEF h
<1>2. wrote[q] \o h \in Seq(Nat) /\ outData[q] \o h \in Seq(Nat)
  BY <1>0, <1>1, Seqs
<1>3. /\ hold' \in [Internals -> Seq(Nat)] /\ wrote' \in [Internals -> Seq(Nat)]
      /\ \A i \in Internals : /\ hold'[i] = IF i = q THEN <<>> ELSE hold[i]
                              /\ wrote'[i] = IF i = q THEN wrote[i] \o h ELSE wrote[i]
  BY <1>0, <1>1, <1>2
<1>4. /\ outData' \in [Internals -> Seq(Nat)]
      /\ \A i \in Internals : i # q => outData'[i] = outData[i]
      /\ SinkUsed(q) => outData'[q] = outData[q] \o h
      /\ ~SinkUsed(q) => outData'[q] = outData[q]
  BY <1>0, <1>1, <1>2
<1>5. TypeOK'
  BY <1>1, <1>3, <1>4 DEF Kept, TypeOK
<1>6. TickOK' /\ ConfigOK'
  BY <1>1 DEF Kept, TickOK, ConfigOK
<1>7. ASSUME NEW j \in Internals
      PROVE  PhaseOK(j)' /\ FdsOK(j)' /\ EndOK(j)' /\ DataOK(j)' /\ StreamOK(j)'
  <2>1. PhaseOK(j) /\ FdsOK(j) /\ EndOK(j) /\ DataOK(j) /\ StreamOK(j)
    BY DEF Kept
  <2>2. PhaseOK(j)'
    BY <1>1, <2>1 DEF PhaseOK
  <2>3. FdsOK(j)' /\ EndOK(j)' /\ DataOK(j)'
    <3>1. CASE j = q
      <4>1. child[j] = "Running" /\ hold[j] # <<>> /\ (~SinkUsed(j) => outData'[j] = outData[j])
        BY <1>1, <1>4, <3>1 DEF h
      <4>2. FdsOK(j)'
        BY <1>1, <2>1, <4>1 DEF FdsOK, At, SinkUsed, Has
      <4>3. EndOK(j)'
        BY <1>1, <2>1, <4>1 DEF EndOK
      <4>4. DataOK(j)'
        BY <1>1, <2>1, <4>1 DEF DataOK, SinkUsed
      <4> QED BY <4>2, <4>3, <4>4
    <3>2. CASE j # q
      <4>1. outData'[j] = outData[j] /\ hold'[j] = hold[j] /\ wrote'[j] = wrote[j]
        BY <1>3, <1>4, <3>2
      <4>2. FdsOK(j)'
        BY <1>1, <2>1, <4>1 DEF FdsOK, At, SinkUsed, Has
      <4>3. EndOK(j)'
        BY <1>1, <2>1, <4>1 DEF EndOK
      <4>4. DataOK(j)'
        BY <1>1, <2>1, <4>1 DEF DataOK, SinkUsed
      <4> QED BY <4>2, <4>3, <4>4
    <3> QED BY <3>1, <3>2
  <2>4. Received(j)' = Received(j)
    <3>1. CASE j = q
      <4>1. Received(j)' = ((wrote[q] \o h) \o <<>>) \o inData[q]
        BY <1>1, <1>3, <3>1 DEF Received
      <4>2. Received(j) = (wrote[q] \o h) \o inData[q]
        BY <3>1 DEF Received, h
      <4>3. (wrote[q] \o h) \o <<>> = wrote[q] \o h
        BY <1>2, Seqs
      <4> QED BY <4>1, <4>2, <4>3
    <3>2. CASE j # q
      BY <1>1, <1>3, <3>2 DEF Received
    <3> QED BY <3>1, <3>2
  <2>5. ASSUME j > 1
        PROVE  \E rest \in Seq(Nat) :
                  /\ wrote'[j - 1] = Received(j)' \o rest
                  /\ Has(0, "inWrite", j)' \/ ~mSendReady'[j] => rest = outData'[j - 1]
    <3>1. PICK rest \in Seq(Nat) :
             /\ wrote[j - 1] = Received(j) \o rest
             /\ Has(0, "inWrite", j) \/ ~mSendReady[j] => rest = outData[j - 1]
      BY <2>1, <2>5 DEF StreamOK
    <3>2. Has(0, "inWrite", j)' <=> Has(0, "inWrite", j)
      BY <1>1 DEF Has
    <3>3. CASE j - 1 = q
      <4>1. q < NumCmds /\ SinkUsed(q)
        BY <2>5, <3>3, Indices DEF SinkUsed
      <4>2. Received(j) \in Seq(Nat) /\ rest \o h \in Seq(Nat)
        <5>1. wrote[j] \o hold[j] \in Seq(Nat) /\ inData[j] \in Seq(Nat)
          BY <1>0, Seqs
        <5> QED BY <1>1, <5>1, Seqs DEF Received
      <4>3. wrote'[j - 1] = Received(j) \o (rest \o h)
        <5>0. Received(j) \in Seq(Nat) /\ h \in Seq(Nat)
          BY <1>1, <4>2
        <5>1. (Received(j) \o rest) \o h = Received(j) \o (rest \o h)
          BY <5>0, Assoc
        <5> QED BY <1>3, <3>1, <3>3, <5>1
      <4>4. outData'[j - 1] = outData[j - 1] \o h
        BY <1>4, <3>3, <4>1
      <4> DEFINE more == rest \o h
      <4>5. more \in Seq(Nat) /\ wrote'[j - 1] = Received(j)' \o more
        BY <2>4, <4>2, <4>3
      <4>6. Has(0, "inWrite", j)' \/ ~mSendReady'[j] => more = outData'[j - 1]
        BY <1>1, <3>1, <3>2, <4>4
      <4> QED BY <4>5, <4>6
    <3>4. CASE j - 1 # q
      <4>1. wrote'[j - 1] = wrote[j - 1] /\ outData'[j - 1] = outData[j - 1]
        BY <1>3, <1>4, <2>5, <3>4, Indices
      <4> QED BY <1>1, <2>4, <3>1, <3>2, <4>1
    <3> QED BY <3>3, <3>4
  <2>6. j = NumCmds /\ sink' \in {"auto", "manual"} /\ SinkSize = 0 => wrote'[j] = sinkString' \o outData'[j]
    <3>1. CASE j = q /\ j = NumCmds /\ sink \in {"auto", "manual"} /\ SinkSize = 0
      <4>1. wrote[j] = sinkString \o outData[j] /\ SinkUsed(j)
        BY <2>1, <3>1 DEF StreamOK, SinkUsed
      <4>2. (sinkString \o outData[j]) \o h = sinkString \o (outData[j] \o h)
        <5>1. outData[j] \in Seq(Nat)
          BY <1>0
        <5>2. sinkString \in Seq(Nat) /\ h \in Seq(Nat)
          BY <1>0, <1>1
        <5> QED BY <5>1, <5>2, Assoc
      <4> QED BY <1>1, <1>3, <1>4, <3>1, <4>1, <4>2
    <3>2. CASE j # q
      BY <1>1, <1>3, <1>4, <2>1, <3>2 DEF StreamOK
    <3> QED BY <1>1, <3>1, <3>2
  <2>7. StreamOK(j)'
    BY <1>1, <2>1, <2>4, <2>5, <2>6 DEF StreamOK
  <2> QED BY <2>2, <2>3, <2>7
<1> QED BY <1>5, <1>6, <1>7 DEF Kept

-----------------------------------------------------------------------------
(* The theorems *)

\* The invariant holds at first ...
LEMMA InitKept == Init => Kept
<1> SUFFICES ASSUME Init PROVE Kept
  OBVIOUS
<1>1. TypeOK
  <2>1. mState \in [Objects -> States]
    BY DEF Init, States, StatesUp
  <2>2. tick \in Ticks
    BY Indices DEF Init, NoTick, Ticks
  <2>3. length \in Nat /\ processed \in 0 .. length
    BY FileExecutingAssumption DEF Init
  <2>4. fds \in [Objects -> SUBSET Ends] /\ success \in [Objects -> Results]
    BY DEF Init, Results
  <2>5. <<>> \in Seq(Nat)
    OBVIOUS
  <2> QED BY <2>1, <2>2, <2>3, <2>4, <2>5 DEF Init, TypeOK
<1>2. TickOK /\ ConfigOK
  BY Indices DEF Init, NoTick, TickOK, ConfigOK
<1>3. ASSUME NEW k \in Internals
      PROVE  PhaseOK(k) /\ FdsOK(k) /\ EndOK(k) /\ DataOK(k) /\ StreamOK(k)
  <2>1. /\ mState[k] = "None" /\ success[k] = "Pending" /\ ~mSendReady[k] /\ ~childTerminated[k]
        /\ fds[0] = {} /\ fds[k] = {} /\ child[k] = "None"
        /\ inData[k] = <<>> /\ outData[k] = <<>> /\ hold[k] = <<>> /\ wrote[k] = <<>> /\ sinkString = <<>>
    BY Indices DEF Init
  <2>2. k < NumCmds => ~mDone[k + 1]
    BY Indices DEF Init
  <2>3. PhaseOK(k) /\ EndOK(k) /\ DataOK(k)
    BY <2>1, <2>2 DEF PhaseOK, EndOK, DataOK, Early, Late
  <2>4. FdsOK(k)
    BY <2>1 DEF FdsOK, At, Has
  <2>5. <<>> \o <<>> = <<>>
    OBVIOUS
  <2>6. Received(k) = <<>>
    BY <2>1, <2>5 DEF Received
  <2>7. UpTo(processed) = <<>>
    BY DEF Init, UpTo
  <2>8. k > 1 => wrote[k - 1] = <<>> /\ outData[k - 1] = <<>>
    BY Indices DEF Init
  <2>9. <<>> \in Seq(Nat) /\ (k > 1 => wrote[k - 1] = Received(k) \o <<>>)
    BY <2>5, <2>6, <2>8
  <2>10. k = NumCmds => wrote[k] = sinkString \o outData[k]
    BY <2>1, <2>5
  <2>11. StreamOK(k)
    BY <2>6, <2>7, <2>8, <2>9, <2>10 DEF StreamOK
  <2> QED BY <2>3, <2>4, <2>11
<1> QED BY <1>1, <1>2, <1>3 DEF Kept

\* ... and every step keeps it.
LEMMA NextKeeps == Kept /\ [Next]_vars => Kept'
<1> SUFFICES ASSUME Kept, [Next]_vars PROVE Kept'
  OBVIOUS
<1>1. CASE ClientSend \/ ClientDone \/ ClientRead \/ ClientReadAgain \/ ClientCancel
  BY <1>1, ClientSendKeeps, AskKeeps, ClientReadKeeps, ClientReadAgainKeeps
<1>2. CASE Configure
  BY <1>2, SourceSetKeeps, SinkSetKeeps DEF Configure
<1>3. CASE Container
  BY <1>3, ContainerStartKeeps, InternalsSuperviseKeeps, InternalsFreeKeeps DEF Container
<1>4. CASE \E i \in Objects : StateNext(i)
  BY <1>4, StateNextKeeps
<1>5. ASSUME NEW k \in Internals, InternalTick(k)
      PROVE  Kept'
  BY <1>5, ProcessFailKeeps, PipesCreateKeeps, ForkKeeps, ParentStartKeeps, SinksReadyWaitKeeps,
     SupervisionStartKeeps, PipesCloseStartKeeps DEF InternalTick
<1>6. ASSUME NEW k \in Internals, Supervision(k)
      PROVE  Kept'
  BY <1>6, AutoSourceKeeps, AutoSourceReadKeeps, TickStepKeeps, SinkToNextKeeps, SinkToStringsKeeps,
     SinkToFdsKeeps, SinkEofKeeps, ChildStateRecordKeeps, WaitFailKeeps, PipesCloseKeeps DEF Supervision
<1>7. ASSUME NEW k \in Internals, InternalCancel(k)
      PROVE  Kept'
  BY <1>7, InternalCancelKeeps
<1>8. ASSUME NEW k \in Internals, Child(k) \/ ChildQuit(k)
      PROVE  Kept'
  BY <1>8, ChildReadKeeps, ChildWriteKeeps, ChildExitKeeps DEF Child, ChildEnd, ChildQuit
<1>9. CASE UNCHANGED vars
  <2>1. UNCHANGED <<source, sink, length, processed, mState, success, mSendReady, mDone, childTerminated, tick, fds, inData, outData, child, hold, wrote, sinkBuffer, sinkString, torn>>
    BY <1>9 DEF vars, clientVars, objVars, nodeVars, pipeVars, childVars, sinkVars
  <2> QED BY <2>1, ReadingKeeps
<1> QED BY <1>1, <1>2, <1>3, <1>4, <1>5, <1>6, <1>7, <1>8, <1>9 DEF Next, Client

\* So it always holds.
LEMMA SpecKeeps == Spec => []Kept
BY InitKept, NextKeeps, PTL DEF Spec

\* What was sent is a beginning of the input.
LEMMA BeginningOfInput ==
  ASSUME Kept
  PROVE  IsPrefix(UpTo(processed), Input)
<1>1. processed \in 0 .. length /\ length \in Nat /\ (source = "closed" => processed = 0)
  BY DEF Kept, TypeOK, ConfigOK
<1> DEFINE n == IF source = "closed" THEN 0 ELSE length
<1>2. n \in Nat /\ processed <= n /\ processed \in Nat
  BY <1>1
<1> HIDE DEF n
<1>3. Len(UpTo(processed)) = processed /\ Len([m \in 1 .. n |-> m]) = n
  BY <1>2 DEF UpTo
<1>4. SubSeq(UpTo(processed), 1, processed) = SubSeq([m \in 1 .. n |-> m], 1, processed)
  BY <1>2 DEF UpTo
<1>5. IsPrefix(UpTo(processed), [m \in 1 .. n |-> m])
  BY <1>2, <1>3, <1>4 DEF IsPrefix
<1> QED BY <1>5 DEF Input, n

\* No OS process of a chain, no string and no caller of read() ever gets a stream with a hole
\* or with two units swapped, however many commands it has, and whatever is cut off on the way.
THEOREM StreamsWhole == Spec => []NoHoles
<1>1. ASSUME Kept PROVE NoHoles
  <2>1. /\ inData \in [Internals -> Seq(Nat)] /\ outData \in [Internals -> Seq(Nat)]
        /\ hold \in [Internals -> Seq(Nat)] /\ wrote \in [Internals -> Seq(Nat)]
        /\ sinkString \in Seq(Nat)
    BY <1>1 DEF Kept, TypeOK
  <2>2. ASSUME NEW k \in Internals PROVE IsPrefix(Received(k), Upstream(k))
    <3>1. Received(k) \in Seq(Nat)
      <4>1. wrote[k] \o hold[k] \in Seq(Nat) /\ inData[k] \in Seq(Nat)
        BY <2>1, Seqs
      <4> QED BY <4>1, Seqs DEF Received
    <3>2. CASE k = 1
      <4>1. Received(k) = UpTo(processed)
        BY <1>1, <3>2 DEF Kept, StreamOK
      <4> QED BY <1>1, <3>2, <4>1, BeginningOfInput DEF Upstream
    <3>3. CASE k > 1
      <4>1. PICK rest \in Seq(Nat) : wrote[k - 1] = Received(k) \o rest
        BY <1>1, <3>3 DEF Kept, StreamOK
      <4> QED BY <3>1, <3>3, <4>1, Beginning DEF Upstream
    <3> QED BY <3>2, <3>3 DEF Internals
  <2>3. ASSUME SinkSize = 0, sink # "fd" PROVE IsPrefix(sinkString, wrote[NumCmds])
    <3>1. NumCmds \in Internals
      BY FileExecutingAssumption DEF Internals
    <3>2. CASE sink = "discard"
      <4>1. sinkString = <<>> /\ wrote[NumCmds] \in Seq(Nat)
        BY <1>1, <2>1, <3>1, <3>2 DEF Kept, ConfigOK
      <4>2. sinkString \o wrote[NumCmds] = wrote[NumCmds]
        BY <4>1, ConcatEmptySeq
      <4>3. IsPrefix(sinkString, sinkString \o wrote[NumCmds])
        BY <2>1, <4>1, Beginning
      <4> QED BY <4>2, <4>3
    <3>3. CASE sink \in {"auto", "manual"}
      <4>1. wrote[NumCmds] = sinkString \o outData[NumCmds]
        BY <1>1, <2>3, <3>1, <3>3 DEF Kept, StreamOK
      <4>2. outData[NumCmds] \in Seq(Nat)
        BY <2>1, <3>1
      <4> QED BY <2>1, <4>1, <4>2, Beginning
    <3> QED BY <1>1, <2>3, <3>2, <3>3 DEF Kept, TypeOK
  <2> QED BY <2>2, <2>3 DEF NoHoles
<1> QED BY <1>1, SpecKeeps, PTL

\* Positive means that the OS process is reaped and that all it has written was read, but for
\* a pipe that was torn.
THEOREM PositiveHasRead == Spec => []OutputTaken
<1>1. ASSUME Kept PROVE OutputTaken
  <2>1. ASSUME NEW k \in Internals, success[k] = "Positive", k \notin torn
        PROVE  /\ child[k] = "Reaped" /\ outData[k] = <<>>
               /\ k = NumCmds /\ sink \in {"auto", "manual"} /\ SinkSize = 0 => sinkString = wrote[k]
    <3>1. child[k] = "Reaped" /\ outData[k] = <<>>
      BY <1>1, <2>1 DEF Kept, EndOK
    <3>2. ASSUME k = NumCmds, sink \in {"auto", "manual"}, SinkSize = 0 PROVE sinkString = wrote[k]
      <4>1. wrote[k] = sinkString \o <<>> /\ sinkString \in Seq(Nat)
        BY <1>1, <3>1, <3>2 DEF Kept, StreamOK, TypeOK
      <4> QED BY <4>1, Seqs
    <3> QED BY <3>1, <3>2
  <2> QED BY <2>1 DEF OutputTaken
<1> QED BY <1>1, SpecKeeps, PTL

\* The next internal is told of the end only when nothing can come any more, or read() fails.
THEOREM EndIsFinal == Spec => []DoneIsFinal
<1>1. Kept => DoneIsFinal
  BY DEF Kept, EndOK, DoneIsFinal
<1> QED BY <1>1, SpecKeeps, PTL

\* No write() to a pipe of the chain kills the program that uses it, but a send() of the client
\* during the shutdown of the first internal.
THEOREM NeverKilled == Spec => []NoSigpipe
<1>1. Kept => NoSigpipe
  BY DEF Kept, TickOK, NoSigpipe, Alive
<1> QED BY <1>1, SpecKeeps, PTL

\* A shutdown leaves no end of a pipe open, wherever it began.
THEOREM NothingLeftOpen == Spec => []PipesReleased
<1>1. ASSUME Kept PROVE PipesReleased
  <2>1. ASSUME NEW k \in Internals, mState[k] = "Finished", NEW end \in fds[0], end[2] = k
        PROVE  FALSE
    <3>1. end \in Ends
      BY <1>1, Indices DEF Kept, TypeOK
    <3>2. PICK e \in EndNames : end = <<e, k>>
      BY <2>1, <3>1 DEF Ends, EndNames
    <3>3. Has(0, e, k)
      BY <2>1, <3>2 DEF Has
    <3> QED BY <1>1, <2>1, <3>2, <3>3 DEF Kept, FdsOK, At, EndNames
  <2> QED BY <2>1 DEF PipesReleased
<1> QED BY <1>1, SpecKeeps, PTL

-----------------------------------------------------------------------------
(* Nothing is lost on the way *)

\* What it takes: OS processes that read to the end of their input, pipes that can hold what is
\* under way, no source that is merely slow, and a sink that takes everything.
Roomy == Quitters = {} /\ MaxLength <= PipeCap /\ "fd" \notin Sources /\ SinkSize = 0

Ended(k) == child[k] \in {"Exited", "Reaped"}
Shutting == {"StSdStart", "StSdInternals", "StSdPipesClose", "Finished"}
Failures == {"StPipesCreate", "StFork", "StParentStart", "StChildSupervise"} \cup Shutting

\* No internal has met an error or was canceled, no pipe was torn.
Fine == torn = {} /\ \A k \in Internals : success[k] # "Error" /\ ~canceled[k]

\* The numbers that bound what a pipe can get to hold, and what shuts an internal down.
PlainOK(k) ==
    /\ Len(Received(k)) <= length
    /\ canceled[k] => mState[0] = "Finished"
    /\ child[k] # "None" => mState[k] \in Late \cup {"StParentStart"}
    /\ success[k] = "Error" => mState[k] \in Failures

\* In a chain that is fine a stdin is closed when the whole input has gone into it, and an OS
\* process ends when it has written the whole input.
FedOK(k) ==
    /\ mState[k] \in {"StFork", "StParentStart"} => Has(0, "inWrite", k)
    /\ mState[k] \in Shutting => success[k] = "Positive"
    /\ mSendReady[k] /\ ~Has(0, "inWrite", k) =>
          Received(k) = Input /\ (k > 1 => Ended(k - 1) /\ outData[k - 1] = <<>>)
    /\ Ended(k) => /\ wrote[k] = Input /\ hold[k] = <<>> /\ inData[k] = <<>>
                   /\ mSendReady[k] /\ ~Has(0, "inWrite", k)

\* The client, or the source, is done when all was sent.
ClientOK ==
    /\ canceled \in [Objects -> BOOLEAN] /\ length <= MaxLength /\ source # "fd"
    /\ mDone[0] \/ mDone[1] => mState[0] # "StStart" /\ (Fine => UpTo(processed) = Input)

\* Success is final.
ResultOK == success[0] = "Positive" =>
    /\ mState[0] # "StStart" /\ \A k \in Internals : success[k] = "Positive"
    /\ sink \in {"auto", "manual"} /\ torn = {} => sinkString = Input

ChainOK == \A k \in Internals : PlainOK(k) /\ (Fine => FedOK(k))
WholeInv == Kept /\ ClientOK /\ ResultOK /\ ChainOK

\* The input has a length of its own.
LEMMA InputLength ==
  ASSUME TypeOK
  PROVE  /\ source # "closed" => Input = UpTo(length)
         /\ source = "closed" => Input = UpTo(0)
         /\ \A n \in Nat : UpTo(n) \in Seq(Nat) /\ Len(UpTo(n)) = n
         /\ processed \in Nat /\ length \in Nat /\ processed <= length
         /\ source # "closed" /\ processed < length => UpTo(processed) # Input
<1>1. /\ source # "closed" => Input = UpTo(length)
      /\ source = "closed" => Input = UpTo(0)
  BY DEF Input, UpTo
<1>2. \A n \in Nat : UpTo(n) \in Seq(Nat) /\ Len(UpTo(n)) = n
  BY DEF UpTo
<1>3. processed \in Nat /\ length \in Nat /\ processed <= length
  BY DEF TypeOK
<1>4. source # "closed" /\ processed < length => UpTo(processed) # Input
  BY <1>1, <1>2, <1>3
<1> QED BY <1>1, <1>2, <1>3, <1>4

\* What comes out stands when it is there.
LEMMA ResultStays ==
  ASSUME ResultOK, success'[0] = success[0],
         success[0] = "Positive" =>
            /\ mState[0] # "StStart" => mState'[0] # "StStart" /\ UNCHANGED <<source, sink, length>>
            /\ sink \in {"auto", "manual"} /\ torn = {} => sinkString' = sinkString
            /\ torn' = {} => torn = {}
            /\ \A k \in Internals : success[k] = "Positive" => success'[k] = "Positive"
  PROVE  ResultOK'
BY DEF ResultOK, Input

\* Nobody is done anew, or all was sent.
LEMMA ClientStays ==
  ASSUME ClientOK, canceled' \in [Objects -> BOOLEAN], UNCHANGED <<length, source>>,
         mState[0] # "StStart" => mState'[0] # "StStart", Fine' => Fine,
         mDone'[0] \/ mDone'[1] =>
            (mDone[0] \/ mDone[1]) /\ (Fine => processed' = processed)
  PROVE  ClientOK'
BY DEF ClientOK, Input, UpTo

\* What holds of an internal that nothing was sent to and whose OS process goes on.
LEMMA FedStays ==
  ASSUME NEW j \in Internals, FedOK(j), UNCHANGED <<source, length>>,
         mState'[j] \in {"StFork", "StParentStart"} => Has(0, "inWrite", j)',
         mState'[j] \in Shutting => success'[j] = "Positive",
         mSendReady'[j] /\ ~Has(0, "inWrite", j)' => mSendReady[j] /\ ~Has(0, "inWrite", j),
         Received(j)' = Received(j),
         Ended(j)' => /\ Ended(j) /\ wrote'[j] = wrote[j] /\ hold'[j] = hold[j]
                      /\ inData'[j] = inData[j] /\ mSendReady'[j] /\ ~Has(0, "inWrite", j)',
         j > 1 /\ Ended(j - 1) => Ended(j - 1)' /\ (outData[j - 1] = <<>> => outData'[j - 1] = <<>>)
  PROVE  FedOK(j)'
<1>1. Input' = Input
  BY DEF Input
<1>2. mSendReady'[j] /\ ~Has(0, "inWrite", j)' =>
         Received(j)' = Input' /\ (j > 1 => Ended(j - 1)' /\ outData'[j - 1] = <<>>)
  BY <1>1 DEF FedOK
<1>3. Ended(j)' => /\ wrote'[j] = Input' /\ hold'[j] = <<>> /\ inData'[j] = <<>>
                   /\ mSendReady'[j] /\ ~Has(0, "inWrite", j)'
  BY <1>1 DEF FedOK
<1> QED BY <1>2, <1>3 DEF FedOK

\* The steps that move nothing into an OS process and open or close no stdin.
LEMMA QuietStep ==
  ASSUME Kept, ChainOK,
         UNCHANGED <<source, length, inData, hold, wrote>>,
         mState[0] = "Finished" => mState'[0] = "Finished", torn' = {} => torn = {},
         \A k \in Internals :
            /\ mState'[k] = mState[k] /\ mSendReady'[k] = mSendReady[k] /\ canceled'[k] = canceled[k]
            /\ Has(0, "inWrite", k)' <=> Has(0, "inWrite", k)
            /\ success'[k] = success[k] \/ (success[k] # "Error" /\ success'[k] = "Positive")
            /\ child'[k] = child[k] \/ (child[k] = "Exited" /\ child'[k] = "Reaped")
            /\ outData[k] = <<>> => outData'[k] = <<>>
  PROVE  (Fine' => Fine) /\ ChainOK'
<1>1. Fine' => Fine
  BY DEF Fine
<1>2. ASSUME NEW j \in Internals PROVE PlainOK(j)' /\ (Fine' => FedOK(j)')
  <2>1. Received(j)' = Received(j)
    BY DEF Received
  <2>2. PlainOK(j) /\ (Fine => FedOK(j))
    BY DEF ChainOK
  <2>3. PlainOK(j)'
    BY <2>1, <2>2 DEF PlainOK
  <2>4. \A k \in Internals : Ended(k) <=> Ended(k)'
    BY DEF Ended
  <2>5. ASSUME Fine PROVE FedOK(j)'
    <3>1. FedOK(j)
      BY <2>2, <2>5
    <3>2. mState'[j] \in {"StFork", "StParentStart"} => Has(0, "inWrite", j)'
      BY <3>1 DEF FedOK
    <3>3. mState'[j] \in Shutting => success'[j] = "Positive"
      BY <3>1 DEF FedOK
    <3>4. Ended(j)' => /\ Ended(j) /\ wrote'[j] = wrote[j] /\ hold'[j] = hold[j]
                       /\ inData'[j] = inData[j] /\ mSendReady'[j] /\ ~Has(0, "inWrite", j)'
      BY <2>4, <3>1 DEF FedOK
    <3>5. j > 1 /\ Ended(j - 1) => Ended(j - 1)' /\ (outData[j - 1] = <<>> => outData'[j - 1] = <<>>)
      BY <2>4, Indices
    <3> QED BY <2>1, <3>1, <3>2, <3>3, <3>4, <3>5, FedStays
  <2> QED BY <1>1, <2>3, <2>5
<1> QED BY <1>1, <1>2 DEF ChainOK

\* The client cancels, or says that it has sent all.
LEMMA AskWhole ==
  ASSUME WholeInv, ClientDone \/ ClientCancel
  PROVE  ClientOK' /\ ResultOK' /\ ChainOK'
<1>0. /\ mDone \in [Objects -> BOOLEAN] /\ TypeOK /\ canceled \in [Objects -> BOOLEAN]
      /\ ClientOK /\ ResultOK /\ ChainOK /\ Kept
  BY DEF WholeInv, Kept, TypeOK, ClientOK
<1>1. /\ UNCHANGED <<source, sink, length, processed, mState, success, mSendReady, fds, inData, outData, child, hold, wrote, sinkString, torn>>
      /\ canceled' = canceled \/ canceled' = [canceled EXCEPT ![0] = TRUE]
  BY DEF ClientDone, ClientCancel, clientVars, pipeVars, childVars, sinkVars
<1>2. canceled' \in [Objects -> BOOLEAN] /\ \A k \in Internals : canceled'[k] = canceled[k]
  BY <1>0, <1>1, Indices
<1>3. (Fine' => Fine) /\ ChainOK'
  BY <1>0, <1>1, <1>2, QuietStep DEF Has
<1>4. ResultOK'
  BY <1>0, <1>1, ResultStays
<1>5. CASE ClientCancel
  <2>1. mDone' = mDone
    BY <1>5 DEF ClientCancel
  <2> QED BY <1>0, <1>1, <1>2, <1>3, <1>4, <2>1, ClientStays
<1>6. CASE ClientDone
  <2>1. source = "manual" /\ mSendReady[0] /\ processed = length
    BY <1>6 DEF ClientDone, ClientUp
  <2>2. mState[0] # "StStart"
    <3>1. mSendReady[1]
      BY <1>0, <2>1 DEF Kept, TickOK
    <3> QED BY <1>0, <3>1, Indices DEF Kept, PhaseOK, Late
  <2>3. UpTo(processed) = Input
    BY <1>0, <2>1, InputLength
  <2>4. UpTo(processed)' = Input'
    BY <1>1, <2>3 DEF UpTo, Input
  <2> QED BY <1>0, <1>1, <1>2, <1>3, <1>4, <2>2, <2>4 DEF ClientOK
<1> QED BY <1>5, <1>6

\* SystemCore cancels an internal, or an internal fails: the chain is not fine any more.
LEMMA FailWhole ==
  ASSUME WholeInv, NEW q \in Internals, InternalCancel(q) \/ ProcessFail(q) \/ WaitFail(q)
  PROVE  ClientOK' /\ ResultOK' /\ ChainOK'
<1>0. /\ canceled \in [Objects -> BOOLEAN] /\ success \in [Objects -> Results]
      /\ ClientOK /\ ResultOK /\ ChainOK /\ Kept
  BY DEF WholeInv, Kept, TypeOK, ClientOK
<1>1. /\ UNCHANGED <<source, sink, length, processed, mState, mDone, mSendReady, inData, outData, child, hold, wrote, sinkString, torn>>
      /\ \/ /\ canceled' = [canceled EXCEPT ![q] = TRUE] /\ mState[0] = "Finished" /\ success' = success
         \/ /\ success' = [success EXCEPT ![q] = "Error"] /\ mState[q] \in Failures
            /\ canceled' = canceled /\ success[q] = "Pending"
  <2>1. CASE InternalCancel(q)
    BY <2>1 DEF InternalCancel, clientVars, pipeVars, childVars, sinkVars
  <2>2. CASE ProcessFail(q)
    BY <2>2 DEF ProcessFail, Failures, Working, clientVars, objVars, pipeVars, childVars, sinkVars
  <2>3. CASE WaitFail(q)
    <3>1. mState[q] = "StChildSupervise" /\ success[q] = "Pending"
      BY <1>0, <2>3 DEF WaitFail, At, Kept, TickOK
    <3> QED BY <2>3, <3>1 DEF WaitFail, Failures, clientVars, objVars, pipeVars, childVars, sinkVars
  <2> QED BY <2>1, <2>2, <2>3
<1>2. ~Fine'
  BY <1>0, <1>1, Indices DEF Fine
<1>3. /\ canceled' \in [Objects -> BOOLEAN]
      /\ \A k \in Internals : canceled'[k] => canceled[k] \/ mState[0] = "Finished"
      /\ \A k \in Internals : success'[k] = "Error" =>
            success[k] = "Error" \/ mState[k] \in Failures
  BY <1>0, <1>1, Indices
<1>4. ASSUME NEW j \in Internals PROVE PlainOK(j)'
  <2>1. Received(j)' = Received(j)
    BY <1>1 DEF Received
  <2> QED BY <1>0, <1>1, <1>3, <2>1 DEF ChainOK, PlainOK
<1>5. ChainOK'
  BY <1>2, <1>4 DEF ChainOK
<1>6. ClientOK'
  BY <1>0, <1>1, <1>2, <1>3, ClientStays
<1>7. ResultOK'
  <2>1. success'[0] = success[0]
    BY <1>0, <1>1, Indices
  <2>2. success[0] = "Positive" => success' = success
    BY <1>0, <1>1 DEF ResultOK
  <2> QED BY <1>0, <1>1, <2>1, <2>2, ResultStays
<1> QED BY <1>5, <1>6, <1>7

\* The container ends.
LEMMA InternalsFreeWhole ==
  ASSUME WholeInv, InternalsFree
  PROVE  ClientOK' /\ ResultOK' /\ ChainOK'
<1>0. /\ mState \in [Objects -> States] /\ canceled \in [Objects -> BOOLEAN]
      /\ ClientOK /\ ResultOK /\ ChainOK /\ Kept
  BY DEF WholeInv, Kept, TypeOK, ClientOK
<1>1. /\ mState' = [mState EXCEPT ![0] = "Finished"]
      /\ UNCHANGED <<source, sink, length, processed, success, canceled, mDone, mSendReady, fds, inData, outData, child, hold, wrote, sinkString, torn>>
  BY DEF InternalsFree, StateGoto, clientVars, objVars, pipeVars, childVars, sinkVars
<1>2. mState'[0] = "Finished" /\ \A k \in Internals : mState'[k] = mState[k]
  BY <1>0, <1>1, Indices
<1>3. (Fine' => Fine) /\ ChainOK'
  BY <1>0, <1>1, <1>2, QuietStep DEF Has
<1>4. ResultOK'
  BY <1>0, <1>1, <1>2, ResultStays
<1>5. ClientOK'
  BY <1>0, <1>1, <1>2, <1>3, ClientStays
<1> QED BY <1>3, <1>4, <1>5

\* When all internals are Positive, the sinks have the whole input.
LEMMA AllPositive ==
  ASSUME WholeInv, Roomy, Fine, \A k \in Internals : success[k] = "Positive",
         sink \in {"auto", "manual"}
  PROVE  sinkString = Input
<1>1. NumCmds \in Internals
  BY FileExecutingAssumption DEF Internals
<1>2. outData[NumCmds] = <<>> /\ child[NumCmds] = "Reaped"
  BY <1>1 DEF WholeInv, Kept, EndOK, Fine
<1>3. wrote[NumCmds] = Input
  BY <1>1, <1>2 DEF WholeInv, ChainOK, FedOK, Ended
<1>4. wrote[NumCmds] = sinkString \o <<>> /\ sinkString \in Seq(Nat)
  BY <1>1, <1>2 DEF Roomy, WholeInv, Kept, TypeOK, StreamOK
<1> QED BY <1>3, <1>4, Seqs

\* The container sees how its internals have done.
LEMMA InternalsSuperviseWhole ==
  ASSUME WholeInv, Roomy, InternalsSupervise
  PROVE  ClientOK' /\ ResultOK' /\ ChainOK'
<1>0. /\ success \in [Objects -> Results] /\ mSendReady \in [Objects -> BOOLEAN]
      /\ mDone \in [Objects -> BOOLEAN] /\ canceled \in [Objects -> BOOLEAN]
      /\ ClientOK /\ ResultOK /\ ChainOK /\ Kept
  BY DEF WholeInv, Kept, TypeOK, ClientOK
<1>1. /\ mState[0] = "StInternalsSupervise"
      /\ mSendReady' = [mSendReady EXCEPT ![0] = @ \/ mSendReady[1]]
      /\ mDone' = [mDone EXCEPT ![1] = @ \/ mDone[0]]
      /\ success' = [success EXCEPT ![0] = ChildrenSuccess]
      /\ UNCHANGED <<source, sink, length, processed, mState, canceled, fds, inData, outData, child, hold, wrote, sinkString, torn>>
  BY DEF InternalsSupervise, clientVars, pipeVars, childVars, sinkVars
<1>2. /\ \A k \in Internals : success'[k] = success[k] /\ mSendReady'[k] = mSendReady[k]
      /\ success'[0] = ChildrenSuccess
      /\ mDone'[0] \/ mDone'[1] => mDone[0] \/ mDone[1]
  BY <1>0, <1>1, Indices DEF ChildrenSuccess, Results
<1>3. (Fine' => Fine) /\ ChainOK'
  BY <1>0, <1>1, <1>2, QuietStep DEF Has
<1>4. ClientOK'
  BY <1>0, <1>1, <1>2, <1>3, ClientStays
<1>5. ASSUME success'[0] = "Positive" PROVE /\ \A k \in Internals : success[k] = "Positive"
                                            /\ sink \in {"auto", "manual"} /\ torn = {} => sinkString = Input
  <2>1. \A k \in Internals : success[k] # "Error" /\ success[k] # "Pending"
    BY <1>2, <1>5 DEF ChildrenSuccess
  <2>2. \A k \in Internals : success[k] = "Positive"
    BY <1>0, <2>1, Indices DEF Results
  <2>3. torn = {} => Fine
    BY <1>0, <1>1, <2>1 DEF ChainOK, PlainOK, Fine
  <2> QED BY <2>2, <2>3, AllPositive
<1>6. Input' = Input
  BY <1>1 DEF Input
<1>7. ResultOK'
  BY <1>1, <1>2, <1>5, <1>6 DEF ResultOK
<1> QED BY <1>3, <1>4, <1>7

\* Without a source, or with nothing to read for now, the tick goes on.
LEMMA TickStepWhole ==
  ASSUME WholeInv, NEW q \in Internals, AutoSourceNone(q) \/ SinkEnd(q)
  PROVE  ClientOK' /\ ResultOK' /\ ChainOK'
<1>0. ClientOK /\ ResultOK /\ ChainOK /\ Kept /\ canceled \in [Objects -> BOOLEAN]
  BY DEF WholeInv, ClientOK
<1>1. UNCHANGED <<source, sink, length, processed, mState, success, canceled, mDone, mSendReady, fds, inData, outData, child, hold, wrote, sinkString, torn>>
  BY DEF AutoSourceNone, SinkEnd, clientVars, objVars, pipeVars, childVars, sinkVars
<1>2. (Fine' => Fine) /\ ChainOK'
  BY <1>0, <1>1, QuietStep DEF Has
<1>3. ResultOK'
  BY <1>0, <1>1, ResultStays
<1>4. ClientOK'
  BY <1>0, <1>1, <1>2, ClientStays
<1> QED BY <1>2, <1>3, <1>4

\* The end of a stream closes a stdout and no stdin.
LEMMA SinkEofWhole ==
  ASSUME WholeInv, NEW q \in Internals, SinkEof(q)
  PROVE  ClientOK' /\ ResultOK' /\ ChainOK'
<1>0. /\ ClientOK /\ ResultOK /\ ChainOK /\ Kept /\ canceled \in [Objects -> BOOLEAN]
      /\ fds \in [Objects -> SUBSET Ends] /\ mDone \in [Objects -> BOOLEAN]
  BY DEF WholeInv, ClientOK, Kept, TypeOK
<1>1. /\ fds' = [fds EXCEPT ![0] = @ \ {<<"outRead", q>>}]
      /\ mDone' = IF q < NumCmds THEN [mDone EXCEPT ![q + 1] = TRUE] ELSE mDone
      /\ UNCHANGED <<source, sink, length, processed, mState, success, canceled, mSendReady, inData, outData, child, hold, wrote, sinkString>>
      /\ torn' = {} => torn = {}
  BY DEF SinkEof, clientVars, pipeVars, childVars, sinkVars
<1>2. \A k \in Internals : Has(0, "inWrite", k)' <=> Has(0, "inWrite", k)
  <2>1. fds'[0] = fds[0] \ {<<"outRead", q>>}
    BY <1>0, <1>1, Indices
  <2> QED BY <2>1 DEF Has
<1>3. mDone'[0] = mDone[0] /\ mDone'[1] = mDone[1]
  <2>1. q + 1 # 0 /\ q + 1 # 1
    BY Indices
  <2> QED BY <1>0, <1>1, <2>1, Indices
<1>4. (Fine' => Fine) /\ ChainOK'
  BY <1>0, <1>1, <1>2, QuietStep
<1>5. ResultOK'
  BY <1>0, <1>1, ResultStays
<1>6. ClientOK'
  BY <1>0, <1>1, <1>3, <1>4, ClientStays
<1> QED BY <1>4, <1>5, <1>6

\* What the last OS process has written is taken: nothing comes any more after success.
LEMMA LastWhole ==
  ASSUME WholeInv, (\E q \in Internals : SinkToStrings(q) \/ SinkToFds(q)) \/ ClientRead \/ ClientReadAgain
  PROVE  ClientOK' /\ ResultOK' /\ ChainOK'
<1> DEFINE q == NumCmds
<1>a. q \in Internals
  BY FileExecutingAssumption DEF Internals
<1>0. /\ ClientOK /\ ResultOK /\ ChainOK /\ Kept /\ canceled \in [Objects -> BOOLEAN]
      /\ fds \in [Objects -> SUBSET Ends] /\ outData \in [Internals -> Seq(Nat)]
      /\ q \in Internals
  BY <1>a DEF WholeInv, ClientOK, Kept, TypeOK
<1>1. /\ UNCHANGED <<source, sink, length, processed, mState, success, canceled, mDone, mSendReady, inData, child, hold, wrote>>
      /\ fds' = fds \/ fds' = [fds EXCEPT ![0] = @ \ {<<"outRead", q>>}]
      /\ \/ outData' = outData /\ sinkString' = sinkString
         \/ outData[q] # <<>> /\ outData' = [outData EXCEPT ![q] = Tail(@)]
      /\ torn' = {} => torn = {}
  <2>1. CASE \E k \in Internals : SinkToStrings(k)
    BY <2>1 DEF SinkToStrings, SinkTakes, clientVars, objVars, childVars
  <2>2. CASE \E k \in Internals : SinkToFds(k)
    BY <2>2 DEF SinkToFds, SinkTakes, clientVars, objVars, childVars
  <2>3. CASE ClientRead
    BY <2>3 DEF ClientRead, clientVars, objVars, childVars
  <2>4. CASE ClientReadAgain
    BY <2>4 DEF ClientReadAgain, clientVars, objVars, childVars, pipeVars
  <2> QED BY <2>1, <2>2, <2>3, <2>4
<1> HIDE DEF q
<1>2. \A k \in Internals : Has(0, "inWrite", k)' <=> Has(0, "inWrite", k)
  <2>1. fds'[0] = fds[0] \/ fds'[0] = fds[0] \ {<<"outRead", q>>}
    BY <1>0, <1>1, Indices
  <2> QED BY <2>1 DEF Has
<1>3. \A k \in Internals : outData[k] = <<>> => outData'[k] = <<>>
  BY <1>0, <1>1
<1>4. (Fine' => Fine) /\ ChainOK'
  BY <1>0, <1>1, <1>2, <1>3, QuietStep
<1>5. success[0] = "Positive" /\ torn = {} => sinkString' = sinkString
  <2>1. success[0] = "Positive" /\ torn = {} => outData[q] = <<>>
    BY <1>0 DEF ResultOK, Kept, EndOK
  <2> QED BY <1>1, <2>1
<1>6. ResultOK'
  BY <1>0, <1>1, <1>5, ResultStays
<1>7. ClientOK'
  BY <1>0, <1>1, <1>4, ClientStays
<1> QED BY <1>4, <1>6, <1>7

\* The OS process is reaped once, and its internal succeeds.
LEMMA ChildStateRecordWhole ==
  ASSUME WholeInv, NEW q \in Internals, ChildStateRecord(q)
  PROVE  ClientOK' /\ ResultOK' /\ ChainOK'
<1>0. /\ ClientOK /\ ResultOK /\ ChainOK /\ Kept /\ canceled \in [Objects -> BOOLEAN]
      /\ child \in [Internals -> {"None", "Running", "Exited", "Reaped"}]
      /\ success \in [Objects -> Results]
  BY DEF WholeInv, ClientOK, Kept, TypeOK
<1>1. /\ tick.step = "record" /\ tick.at = q
      /\ child' = [child EXCEPT ![q] = IF @ = "Exited" THEN "Reaped" ELSE @]
      /\ success' = success \/ success' = [success EXCEPT ![q] = "Positive"]
      /\ UNCHANGED <<source, sink, length, processed, mState, canceled, mSendReady, mDone, fds, inData, outData, hold, wrote, sinkString, torn>>
  <2>1. success' = [success EXCEPT ![q] = IF SuperviseDone(q) THEN "Positive" ELSE @]
    BY DEF ChildStateRecord
  <2>2. success' = success \/ success' = [success EXCEPT ![q] = "Positive"]
    <3>1. CASE SuperviseDone(q)
      BY <2>1, <3>1
    <3>2. CASE ~SuperviseDone(q)
      BY <1>0, <2>1, <3>2, Indices
    <3> QED BY <3>1, <3>2
  <2> QED BY <2>2 DEF ChildStateRecord, At, clientVars, objVars, pipeVars, sinkVars
<1>2. success[q] # "Error"
  BY <1>0, <1>1 DEF Kept, TickOK
<1>3. \A k \in Internals :
         /\ child'[k] = child[k] \/ (child[k] = "Exited" /\ child'[k] = "Reaped")
         /\ success'[k] = success[k] \/ (success[k] # "Error" /\ success'[k] = "Positive")
  BY <1>0, <1>1, <1>2, Indices
<1>4. success'[0] = success[0]
  BY <1>0, <1>1, Indices
<1>5. (Fine' => Fine) /\ ChainOK'
  BY <1>0, <1>1, <1>3, QuietStep DEF Has
<1>6. ResultOK'
  BY <1>0, <1>1, <1>3, <1>4, ResultStays
<1>7. ClientOK'
  BY <1>0, <1>1, <1>5, ClientStays
<1> QED BY <1>5, <1>6, <1>7

\* Nothing has begun when the client configures what it wants.
LEMMA ConfigureWhole ==
  ASSUME WholeInv, Roomy, Configure
  PROVE  ClientOK' /\ ResultOK' /\ ChainOK'
<1>0. /\ ClientOK /\ ResultOK /\ ChainOK /\ Kept /\ canceled \in [Objects -> BOOLEAN]
  BY DEF WholeInv, ClientOK
<1>1. /\ mState[0] = "StStart" /\ (source' = source \/ source' \in Sources)
      /\ UNCHANGED <<length, processed, mState, success, canceled, mDone, mSendReady, fds, inData, outData, child, hold, wrote, sinkString, torn>>
  BY DEF Configure, SourceSet, SinkSet, objVars, pipeVars, childVars, sinkVars
<1>2. ClientOK'
  <2>1. source' # "fd"
    BY <1>0, <1>1 DEF Roomy, ClientOK
  <2> QED BY <1>0, <1>1, <2>1 DEF ClientOK
<1>3. ResultOK'
  BY <1>0, <1>1 DEF ResultOK
<1>4. ASSUME NEW j \in Internals PROVE PlainOK(j)' /\ (Fine' => FedOK(j)')
  <2>1. mState[j] = "None" /\ ~mSendReady[j] /\ child[j] = "None"
    BY <1>0, <1>1 DEF Kept, PhaseOK, Late, Early
  <2>2. PlainOK(j)'
    BY <1>0, <1>1 DEF ChainOK, PlainOK, Received
  <2>3. FedOK(j)'
    BY <1>1, <2>1 DEF FedOK, Ended, Shutting
  <2> QED BY <2>2, <2>3
<1> QED BY <1>2, <1>3, <1>4 DEF ChainOK

\* The internals come into being.
LEMMA ContainerStartWhole ==
  ASSUME WholeInv, ContainerStart
  PROVE  ClientOK' /\ ResultOK' /\ ChainOK'
<1>0. /\ ClientOK /\ ResultOK /\ ChainOK /\ Kept /\ canceled \in [Objects -> BOOLEAN]
  BY DEF WholeInv, ClientOK
<1>1. /\ mState[0] = "StStart"
      /\ mState' = [i \in Objects |-> IF i = 0 THEN "StContainerStart" ELSE "StStart"]
      /\ UNCHANGED <<source, sink, length, processed, success, canceled, mDone, mSendReady, fds, inData, outData, child, hold, wrote, sinkString, torn>>
  BY DEF ContainerStart, clientVars, objVars, pipeVars, childVars, sinkVars
<1>2. mState'[0] = "StContainerStart" /\ \A k \in Internals : mState'[k] = "StStart"
  BY <1>1, Indices
<1>3. Fine' => Fine
  BY <1>1 DEF Fine
<1>4. ClientOK'
  BY <1>0, <1>1, <1>2, <1>3, ClientStays
<1>5. ResultOK'
  BY <1>0, <1>1, <1>2, ResultStays
<1>6. ASSUME NEW j \in Internals PROVE PlainOK(j)' /\ (Fine' => FedOK(j)')
  <2>1. mState[j] = "None" /\ ~mSendReady[j] /\ child[j] = "None"
    BY <1>0, <1>1 DEF Kept, PhaseOK, Late, Early
  <2>2. success[j] # "Error" /\ ~canceled[j]
    BY <1>0, <1>1, <2>1 DEF ChainOK, PlainOK, Shutting, Failures
  <2>3. PlainOK(j)'
    BY <1>0, <1>1, <2>1, <2>2 DEF ChainOK, PlainOK, Received
  <2>4. FedOK(j)'
    BY <1>1, <1>2, <2>1 DEF FedOK, Ended, Shutting
  <2> QED BY <2>3, <2>4
<1> QED BY <1>4, <1>5, <1>6 DEF ChainOK

\* A step of one object from phase to phase.
LEMMA PhaseStep ==
  ASSUME WholeInv, NEW q \in Objects,
         UNCHANGED <<source, sink, length, processed, success, canceled, mDone, inData, outData, hold, wrote, sinkString, torn>>,
         mState[0] # "StStart" => mState'[0] # "StStart",
         mState[0] = "Finished" => mState'[0] = "Finished",
         \A k \in Internals : k # q =>
            /\ mState'[k] = mState[k] /\ mSendReady'[k] = mSendReady[k] /\ child'[k] = child[k]
            /\ Has(0, "inWrite", k)' <=> Has(0, "inWrite", k),
         q \in Internals =>
            /\ child'[q] # "None" => mState'[q] \in Late \cup {"StParentStart"}
            /\ success[q] = "Error" => mState'[q] \in Failures
            /\ Ended(q) <=> Ended(q)'
            /\ Fine => FedOK(q)'
  PROVE  ClientOK' /\ ResultOK' /\ ChainOK'
<1>0. ClientOK /\ ResultOK /\ ChainOK /\ canceled \in [Objects -> BOOLEAN]
  BY DEF WholeInv, ClientOK
<1>1. Fine' => Fine
  BY DEF Fine
<1>2. ClientOK'
  BY <1>0, <1>1, ClientStays
<1>3. ResultOK'
  BY <1>0, ResultStays DEF ResultOK
<1>4. \A k \in Internals : Ended(k) <=> Ended(k)'
  BY DEF Ended
<1>5. ASSUME NEW j \in Internals PROVE PlainOK(j)' /\ (Fine' => FedOK(j)')
  <2>1. Received(j)' = Received(j)
    BY DEF Received
  <2>2. PlainOK(j)'
    <3>1. CASE j = q
      BY <1>0, <2>1, <3>1 DEF ChainOK, PlainOK
    <3>2. CASE j # q
      BY <1>0, <2>1, <3>2 DEF ChainOK, PlainOK
    <3> QED BY <3>1, <3>2
  <2>3. ASSUME Fine, j # q PROVE FedOK(j)'
    <3>1. FedOK(j)
      BY <1>0, <2>3 DEF ChainOK
    <3>2. mState'[j] \in {"StFork", "StParentStart"} => Has(0, "inWrite", j)'
      BY <2>3, <3>1 DEF FedOK
    <3>3. mState'[j] \in Shutting => success'[j] = "Positive"
      BY <2>3, <3>1 DEF FedOK
    <3>4. Ended(j)' => /\ Ended(j) /\ wrote'[j] = wrote[j] /\ hold'[j] = hold[j]
                       /\ inData'[j] = inData[j] /\ mSendReady'[j] /\ ~Has(0, "inWrite", j)'
      BY <1>4, <2>3, <3>1 DEF FedOK
    <3>5. j > 1 /\ Ended(j - 1) => Ended(j - 1)' /\ (outData[j - 1] = <<>> => outData'[j - 1] = <<>>)
      BY <1>4, Indices
    <3> QED BY <2>1, <2>3, <3>1, <3>2, <3>3, <3>4, <3>5, FedStays
  <2> QED BY <1>1, <2>2, <2>3
<1> QED BY <1>2, <1>3, <1>5 DEF ChainOK

\* An internal of a chain that is fine shuts down only when it is Positive.
LEMMA StateNextWhole ==
  ASSUME WholeInv, NEW i \in Objects, StateNext(i)
  PROVE  ClientOK' /\ ResultOK' /\ ChainOK'
<1>0. /\ mState \in [Objects -> States] /\ success \in [Objects -> Results]
      /\ Kept /\ ChainOK
  BY DEF WholeInv, Kept, TypeOK
<1>1. UNCHANGED <<source, sink, length, processed, success, canceled, mDone, mSendReady, fds, inData, outData, child, hold, wrote, sinkString, torn>>
  BY DEF StateNext, clientVars, objVars, pipeVars, childVars, sinkVars
<1>2. PICK s : /\ mState' = [mState EXCEPT ![i] = s]
               /\ mState[i] # "Finished" /\ mState[i] # "None"
               /\ s \notin {"StStart", "StFork", "StParentStart"}
               /\ i \in Internals /\ mState[i] \in Late => s \in Late
               /\ s \in Shutting => success[i] # "Pending" \/ canceled[i]
               /\ i \in Internals /\ mState[i] \in Failures => s \in Shutting
  <2>1. CASE Working(i) /\ StateGoto(i, "StStart", "StInternalStart")
    BY <2>1 DEF StateGoto, Late, Shutting, Failures
  <2>2. CASE StateGoto(i, "StInternalStart", "StPipesCreate")
    BY <2>2 DEF StateGoto, Late, Shutting, Failures
  <2>3. CASE StateGoto(i, "StContainerStart", "StInternalsSupervise")
    BY <2>3 DEF StateGoto, Late, Shutting, Failures
  <2>4. CASE Stopping(i) /\ \E s \in StatesUp : StateGoto(i, s, "StSdStart")
    BY <2>4 DEF Stopping, StateGoto, StatesUp, Late, Shutting, Failures
  <2>5. CASE Stopping(i) /\ StateGoto(i, "StSdStart", IF i > 0 THEN "StSdInternals" ELSE "StSdContainer")
    <3>1. CASE i > 0
      <4>1. StateGoto(i, "StSdStart", "StSdInternals")
        BY <2>5, <3>1
      <4> QED BY <2>5, <4>1 DEF Stopping, StateGoto, Late, Shutting, Failures
    <3>2. CASE i = 0 /\ i \notin Internals
      <4>1. StateGoto(i, "StSdStart", "StSdContainer")
        BY <2>5, <3>2
      <4> QED BY <2>5, <3>2, <4>1 DEF Stopping, StateGoto, Shutting, Failures
    <3> QED BY <3>1, <3>2, Indices
  <2>6. CASE Stopping(i) /\ StateGoto(i, "StSdInternals", "StSdPipesClose")
    BY <2>6 DEF Stopping, StateGoto, Late, Shutting, Failures
  <2>7. CASE StateGoto(i, "StSdContainer", "StSdInternalsFree")
    BY <2>7 DEF StateGoto, Late, Shutting, Failures
  <2> QED BY <2>1, <2>2, <2>3, <2>4, <2>5, <2>6, <2>7 DEF StateNext
<1>3. \A k \in Objects : mState'[k] = IF k = i THEN s ELSE mState[k]
  BY <1>0, <1>2
<1>4. /\ mState[0] # "StStart" => mState'[0] # "StStart"
      /\ mState[0] = "Finished" => mState'[0] = "Finished"
  BY <1>2, <1>3, Indices
<1>5. ASSUME i \in Internals
      PROVE  /\ child'[i] # "None" => mState'[i] \in Late \cup {"StParentStart"}
             /\ success[i] = "Error" => mState'[i] \in Failures
             /\ Ended(i) <=> Ended(i)'
             /\ Fine => FedOK(i)'
  <2>1. /\ child[i] # "None" => mState[i] \in Late \cup {"StParentStart"}
        /\ success[i] = "Error" => mState[i] \in Failures
    BY <1>0, <1>5 DEF ChainOK, PlainOK
  <2>2. Shutting \subseteq Late
    BY DEF Shutting, Late
  <2>3. child'[i] # "None" => mState'[i] \in Late \cup {"StParentStart"}
    BY <1>1, <1>2, <1>3, <1>5, <2>1, <2>2 DEF Failures
  <2>4. success[i] = "Error" => mState'[i] \in Failures
    BY <1>2, <1>3, <1>5, <2>1 DEF Failures
  <2>5. Ended(i) <=> Ended(i)'
    BY <1>1 DEF Ended
  <2>6. ASSUME Fine PROVE FedOK(i)'
    <3>1. FedOK(i)
      BY <1>0, <1>5, <2>6 DEF ChainOK
    <3>2. mState'[i] \in Shutting => success'[i] = "Positive"
      BY <1>0, <1>1, <1>2, <1>3, <1>5, <2>6 DEF Fine, Results
    <3>3. mState'[i] \notin {"StFork", "StParentStart"}
      BY <1>2, <1>3
    <3>4. Received(i)' = Received(i) /\ (Has(0, "inWrite", i)' <=> Has(0, "inWrite", i))
      BY <1>1 DEF Received, Has
    <3>5. Ended(i)' => /\ Ended(i) /\ wrote'[i] = wrote[i] /\ hold'[i] = hold[i]
                       /\ inData'[i] = inData[i] /\ mSendReady'[i] /\ ~Has(0, "inWrite", i)'
      BY <1>1, <2>5, <3>1, <3>4 DEF FedOK
    <3>6. i > 1 /\ Ended(i - 1) => Ended(i - 1)' /\ (outData[i - 1] = <<>> => outData'[i - 1] = <<>>)
      BY <1>1 DEF Ended
    <3> QED BY <1>1, <1>5, <3>1, <3>2, <3>3, <3>4, <3>5, <3>6, FedStays
  <2> QED BY <2>3, <2>4, <2>5, <2>6
<1>6. \A k \in Internals : k # i =>
         /\ mState'[k] = mState[k] /\ mSendReady'[k] = mSendReady[k] /\ child'[k] = child[k]
         /\ Has(0, "inWrite", k)' <=> Has(0, "inWrite", k)
  BY <1>1, <1>3, Indices DEF Has
<1> QED BY <1>1, <1>4, <1>5, <1>6, PhaseStep

\* The ticks of an internal that create its pipes, fork, and wait for the next one.
LEMMA StartWhole ==
  ASSUME WholeInv, NEW q \in Internals, PipesCreate(q) \/ Fork(q) \/ SinksReadyWait(q)
  PROVE  ClientOK' /\ ResultOK' /\ ChainOK'
<1>0. /\ mState \in [Objects -> States] /\ success \in [Objects -> Results]
      /\ fds \in [Objects -> SUBSET Ends]
      /\ child \in [Internals -> {"None", "Running", "Exited", "Reaped"}]
      /\ Kept /\ ChainOK /\ q \in Objects
  BY Indices DEF WholeInv, Kept, TypeOK
<1>1. /\ UNCHANGED <<source, sink, length, processed, success, canceled, mDone, mSendReady, inData, outData, hold, wrote, sinkString, torn>>
      /\ success[q] = "Pending"
  BY DEF PipesCreate, Fork, SinksReadyWait, Working, clientVars, objVars, pipeVars, childVars, sinkVars
<1>2. \/ /\ mState[q] = "StPipesCreate" /\ mState' = [mState EXCEPT ![q] = "StFork"]
         /\ fds' = [fds EXCEPT ![0] = @ \cup EndsOf(q)] /\ child' = child
      \/ /\ mState[q] = "StFork" /\ mState' = [mState EXCEPT ![q] = "StParentStart"]
         /\ fds' = [fds EXCEPT ![q] = ChildEnds(q)] /\ child' = [child EXCEPT ![q] = "Running"]
      \/ /\ mState[q] = "StSinksReadyWait" /\ mState' = [mState EXCEPT ![q] = "StChildSupervise"]
         /\ UNCHANGED <<fds, child>>
  BY DEF PipesCreate, Fork, SinksReadyWait, StateGoto, childVars
<1>3. /\ \A k \in Objects : k # q => mState'[k] = mState[k]
      /\ \A k \in Internals : k # q => child'[k] = child[k]
  BY <1>0, <1>2
<1>4. mState'[0] = mState[0]
  BY <1>3, Indices
<1>5. \A k \in Internals : k # q => (Has(0, "inWrite", k)' <=> Has(0, "inWrite", k))
  <2>1. fds'[0] = fds[0] \/ fds'[0] = fds[0] \cup EndsOf(q)
    BY <1>0, <1>2, Indices
  <2> QED BY <2>1, EndsOfAre DEF Has
<1>6. /\ child'[q] # "None" => mState'[q] \in Late \cup {"StParentStart"}
      /\ mState'[q] \in {"StFork", "StParentStart", "StChildSupervise"}
      /\ mState'[q] = "StFork" => Has(0, "inWrite", q)' /\ child'[q] = "None" /\ ~mSendReady[q]
      /\ mState'[q] = "StParentStart" => mState[q] = "StFork" /\ ~mSendReady[q] /\ child'[q] = "Running"
      /\ mState'[q] # "StFork" => (Has(0, "inWrite", q)' <=> Has(0, "inWrite", q))
      /\ mState'[q] = "StChildSupervise" => child'[q] = child[q]
  <2>0. PhaseOK(q) /\ PlainOK(q)
    BY <1>0 DEF Kept, ChainOK
  <2>1. CASE mState[q] = "StPipesCreate"
    <3>1. mState'[q] = "StFork" /\ fds'[0] = fds[0] \cup EndsOf(q) /\ child' = child
      BY <1>0, <1>2, <2>1, Indices
    <3> QED BY <2>0, <2>1, <3>1, EndsOfAre DEF Has, PhaseOK, Early, Late
  <2>2. CASE mState[q] = "StFork"
    <3>1. mState'[q] = "StParentStart" /\ fds'[0] = fds[0] /\ child'[q] = "Running"
      BY <1>0, <1>2, <2>2, Indices
    <3> QED BY <2>0, <2>2, <3>1 DEF Has, PhaseOK, Early, Late
  <2>3. CASE mState[q] = "StSinksReadyWait"
    <3>1. mState'[q] = "StChildSupervise" /\ fds' = fds /\ child' = child
      BY <1>0, <1>2, <2>3, Indices
    <3> QED BY <2>0, <3>1 DEF Has, Late
  <2> QED BY <1>2, <2>1, <2>2, <2>3
<1>7. Ended(q) <=> Ended(q)'
  <2>1. child[q] = "None" \/ child'[q] = child[q]
    <3>1. mState[q] = "StFork" => child[q] = "None"
      BY <1>0 DEF Kept, PhaseOK
    <3> QED BY <1>2, <3>1
  <2>2. child'[q] = child[q] \/ child'[q] = "Running"
    BY <1>0, <1>2
  <2> QED BY <2>1, <2>2 DEF Ended
<1>8. ASSUME Fine PROVE FedOK(q)'
  <2>1. FedOK(q)
    BY <1>0, <1>8 DEF ChainOK
  <2>2. mState'[q] \in {"StFork", "StParentStart"} => Has(0, "inWrite", q)'
    BY <1>6, <2>1 DEF FedOK
  <2>3. mState'[q] \notin Shutting
    BY <1>6 DEF Shutting
  <2>4. mSendReady'[q] /\ ~Has(0, "inWrite", q)' => mSendReady[q] /\ ~Has(0, "inWrite", q)
    BY <1>1, <1>6
  <2>5. Received(q)' = Received(q)
    BY <1>1 DEF Received
  <2>6. Ended(q)' => /\ Ended(q) /\ wrote'[q] = wrote[q] /\ hold'[q] = hold[q]
                     /\ inData'[q] = inData[q] /\ mSendReady'[q] /\ ~Has(0, "inWrite", q)'
    BY <1>1, <1>6, <1>7, <2>1 DEF FedOK
  <2>7. q > 1 /\ Ended(q - 1) => Ended(q - 1)' /\ (outData[q - 1] = <<>> => outData'[q - 1] = <<>>)
    <3>1. q > 1 => child'[q - 1] = child[q - 1]
      BY <1>3, Indices
    <3> QED BY <1>1, <3>1 DEF Ended
  <2> QED BY <1>1, <2>1, <2>2, <2>3, <2>4, <2>5, <2>6, <2>7, FedStays
<1>9. /\ child'[q] # "None" => mState'[q] \in Late \cup {"StParentStart"}
      /\ success[q] = "Error" => mState'[q] \in Failures
  BY <1>1, <1>6
<1>10. \A k \in Internals : k # q =>
          /\ mState'[k] = mState[k] /\ mSendReady'[k] = mSendReady[k] /\ child'[k] = child[k]
          /\ Has(0, "inWrite", k)' <=> Has(0, "inWrite", k)
  BY <1>1, <1>3, <1>5, Indices
<1> QED BY <1>0, <1>1, <1>4, <1>7, <1>8, <1>9, <1>10, PhaseStep

\* The parent closes a stdin that has no source: the input is empty.
LEMMA ParentStartWhole ==
  ASSUME WholeInv, NEW q \in Internals, ParentStart(q)
  PROVE  ClientOK' /\ ResultOK' /\ ChainOK'
<1>0. /\ mState \in [Objects -> States] /\ mSendReady \in [Objects -> BOOLEAN]
      /\ fds \in [Objects -> SUBSET Ends]
      /\ Kept /\ ChainOK /\ q \in Objects
  BY Indices DEF WholeInv, Kept, TypeOK
<1>1. /\ mState[q] = "StParentStart" /\ mState' = [mState EXCEPT ![q] = "StSinksReadyWait"]
      /\ fds' = [fds EXCEPT ![0] = @ \ ParentCloses(q)]
      /\ mSendReady' = [mSendReady EXCEPT ![q] = TRUE]
      /\ UNCHANGED <<source, sink, length, processed, success, canceled, mDone, inData, outData, child, hold, wrote, sinkString, torn>>
      /\ success[q] = "Pending"
  BY DEF ParentStart, Working, StateGoto, clientVars, pipeVars, childVars, sinkVars
<1>2. /\ \A k \in Objects : mState'[k] = IF k = q THEN "StSinksReadyWait" ELSE mState[k]
      /\ \A k \in Objects : k # q => mSendReady'[k] = mSendReady[k]
      /\ fds'[0] = fds[0] \ ParentCloses(q)
  BY <1>0, <1>1, Indices
<1>3. mState'[0] = mState[0]
  BY <1>2, Indices
<1>4. \A k \in Internals : Has(0, "inWrite", k)' <=> Has(0, "inWrite", k) /\ (k # q \/ SourceUsed(k))
  BY <1>2, ParentClosesAre DEF Has
<1>5. Ended(q) <=> Ended(q)'
  BY <1>1 DEF Ended
<1>6. ASSUME Fine PROVE FedOK(q)'
  <2>1. FedOK(q) /\ Has(0, "inWrite", q)
    BY <1>0, <1>1, <1>6 DEF ChainOK, FedOK
  <2>2. Received(q)' = Received(q) /\ Input' = Input
    BY <1>1 DEF Received, Input
  <2>3. ~mSendReady[q] /\ ~Ended(q)
    BY <1>0, <1>1, <2>1 DEF Kept, PhaseOK, Late, FedOK
  <2>4. ~Has(0, "inWrite", q)' => q = 1 /\ Received(q)' = Input'
    <3>1. ASSUME ~SourceUsed(q) PROVE q = 1 /\ Received(q) = Input
      <4>1. q = 1 /\ source = "closed"
        BY <3>1, Indices DEF SourceUsed, Internals
      <4>2. processed = 0 /\ Received(q) = UpTo(processed)
        BY <1>0, <4>1 DEF Kept, ConfigOK, StreamOK
      <4> QED BY <1>0, <4>1, <4>2, InputLength DEF Kept
    <3> QED BY <1>4, <2>1, <2>2, <3>1
  <2>5. mState'[q] = "StSinksReadyWait"
    BY <1>0, <1>2
  <2> QED BY <1>5, <2>3, <2>4, <2>5 DEF FedOK, Shutting
<1>7. /\ mState'[q] \in Late \cup {"StParentStart"} /\ success[q] # "Error"
  BY <1>0, <1>1, <1>2 DEF Late
<1>8. \A k \in Internals : k # q =>
         /\ mState'[k] = mState[k] /\ mSendReady'[k] = mSendReady[k] /\ child'[k] = child[k]
         /\ Has(0, "inWrite", k)' <=> Has(0, "inWrite", k)
  BY <1>1, <1>2, <1>4, Indices
<1> QED BY <1>0, <1>1, <1>3, <1>5, <1>6, <1>7, <1>8, PhaseStep

\* The shutdown of an internal that is Positive finds its stdin closed.
LEMMA PipesCloseWhole ==
  ASSUME WholeInv, NEW q \in Internals, PipesCloseTick(q)
  PROVE  ClientOK' /\ ResultOK' /\ ChainOK'
<1>0. /\ mState \in [Objects -> States] /\ fds \in [Objects -> SUBSET Ends]
      /\ Kept /\ ChainOK /\ q \in Objects
  BY Indices DEF WholeInv, Kept, TypeOK
<1>1. /\ mState[q] = "StSdPipesClose" /\ mState' = [mState EXCEPT ![q] = "Finished"]
      /\ fds' = [fds EXCEPT ![0] = @ \ EndsOf(q)]
      /\ UNCHANGED <<source, sink, length, processed, success, canceled, mSendReady, mDone, inData, outData, child, hold, wrote, sinkString, torn>>
  BY DEF PipesCloseTick, PipesClose, StateGoto, clientVars, objVars, pipeVars, childVars, sinkVars
<1>2. /\ \A k \in Objects : mState'[k] = IF k = q THEN "Finished" ELSE mState[k]
      /\ fds'[0] = fds[0] \ EndsOf(q)
  BY <1>0, <1>1, Indices
<1>3. mState'[0] = mState[0]
  BY <1>2, Indices
<1>4. \A k \in Internals : Has(0, "inWrite", k)' <=> Has(0, "inWrite", k) /\ k # q
  BY <1>2, EndsOfAre DEF Has
<1>5. Ended(q) <=> Ended(q)'
  BY <1>1 DEF Ended
<1>6. ASSUME Fine PROVE FedOK(q)'
  <2>1. FedOK(q) /\ success[q] = "Positive"
    BY <1>0, <1>1, <1>6 DEF ChainOK, FedOK, Shutting
  <2>2. Ended(q)
    BY <1>0, <1>6, <2>1 DEF Kept, EndOK, Ended, Fine
  <2>3. mSendReady[q] /\ ~Has(0, "inWrite", q)
    BY <2>1, <2>2 DEF FedOK
  <2>4. Received(q)' = Received(q)
    BY <1>1 DEF Received
  <2>5. mState'[q] = "Finished" /\ success'[q] = "Positive"
    BY <1>0, <1>1, <1>2, <2>1
  <2>6. q > 1 /\ Ended(q - 1) => Ended(q - 1)' /\ (outData[q - 1] = <<>> => outData'[q - 1] = <<>>)
    BY <1>1 DEF Ended
  <2>7. ~Has(0, "inWrite", q)'
    BY <1>4
  <2> QED BY <1>1, <2>1, <2>2, <2>3, <2>4, <2>5, <2>6, <2>7, FedStays
<1>7. mState'[q] \in Late \cap Failures
  BY <1>0, <1>2 DEF Late, Shutting, Failures
<1>8. \A k \in Internals : k # q =>
         /\ mState'[k] = mState[k] /\ mSendReady'[k] = mSendReady[k] /\ child'[k] = child[k]
         /\ Has(0, "inWrite", k)' <=> Has(0, "inWrite", k)
  BY <1>1, <1>2, <1>4, Indices
<1> QED BY <1>0, <1>1, <1>3, <1>5, <1>6, <1>7, <1>8, PhaseStep

\* The read end of a stdin goes first.
LEMMA PipesCloseStartWhole ==
  ASSUME WholeInv, NEW q \in Internals, PipesCloseStart(q)
  PROVE  ClientOK' /\ ResultOK' /\ ChainOK'
<1>0. /\ ClientOK /\ ResultOK /\ ChainOK /\ Kept /\ canceled \in [Objects -> BOOLEAN]
      /\ fds \in [Objects -> SUBSET Ends]
  BY DEF WholeInv, ClientOK, Kept, TypeOK
<1>1. /\ fds' = [fds EXCEPT ![0] = @ \ {<<"inRead", q>>}]
      /\ UNCHANGED <<source, sink, length, processed, mState, success, canceled, mDone, mSendReady, inData, outData, child, hold, wrote, sinkString, torn>>
  BY DEF PipesCloseStart, clientVars, objVars, pipeVars, childVars, sinkVars
<1>2. \A k \in Internals : Has(0, "inWrite", k)' <=> Has(0, "inWrite", k)
  <2>1. fds'[0] = fds[0] \ {<<"inRead", q>>}
    BY <1>0, <1>1, Indices
  <2> QED BY <2>1 DEF Has
<1>3. (Fine' => Fine) /\ ChainOK'
  BY <1>0, <1>1, <1>2, QuietStep
<1>4. ResultOK'
  BY <1>0, <1>1, ResultStays
<1>5. ClientOK'
  BY <1>0, <1>1, <1>3, ClientStays
<1> QED BY <1>3, <1>4, <1>5

\* An OS process moves units; what it has received is the same.
LEMMA ChildMoves ==
  ASSUME WholeInv, NEW q \in Internals, child[q] = "Running",
         UNCHANGED <<source, sink, length, processed, mState, success, canceled, mDone, mSendReady, fds, child, sinkString, torn>>,
         Received(q)' = Received(q),
         \A k \in Internals : k # q => /\ inData'[k] = inData[k] /\ outData'[k] = outData[k]
                                       /\ hold'[k] = hold[k] /\ wrote'[k] = wrote[k]
  PROVE  ClientOK' /\ ResultOK' /\ ChainOK'
<1>0. ClientOK /\ ResultOK /\ ChainOK /\ canceled \in [Objects -> BOOLEAN]
  BY DEF WholeInv, ClientOK
<1>1. Fine' => Fine
  BY DEF Fine
<1>2. ClientOK'
  BY <1>0, <1>1, ClientStays
<1>3. ResultOK'
  BY <1>0, ResultStays
<1>4. \A k \in Internals : /\ Ended(k)' <=> Ended(k)
                           /\ Has(0, "inWrite", k)' <=> Has(0, "inWrite", k)
  BY DEF Ended, Has
<1>5. ASSUME NEW j \in Internals PROVE PlainOK(j)' /\ (Fine' => FedOK(j)')
  <2>1. Received(j)' = Received(j)
    <3>1. j # q => Received(j)' = Received(j)
      BY DEF Received
    <3> QED BY <3>1
  <2>2. PlainOK(j)'
    BY <1>0, <2>1 DEF ChainOK, PlainOK
  <2>3. ASSUME Fine PROVE FedOK(j)'
    <3>1. FedOK(j)
      BY <1>0, <2>3 DEF ChainOK
    <3>2. ~Ended(q)
      BY DEF Ended
    <3>3. Ended(j)' => /\ Ended(j) /\ wrote'[j] = wrote[j] /\ hold'[j] = hold[j]
                       /\ inData'[j] = inData[j] /\ mSendReady'[j] /\ ~Has(0, "inWrite", j)'
      BY <1>4, <3>1, <3>2 DEF FedOK
    <3>4. j > 1 /\ Ended(j - 1) => Ended(j - 1)' /\ (outData[j - 1] = <<>> => outData'[j - 1] = <<>>)
      BY <1>4, <3>2, Indices
    <3>5. mState'[j] \in {"StFork", "StParentStart"} => Has(0, "inWrite", j)'
      BY <1>4, <3>1 DEF FedOK
    <3>6. mState'[j] \in Shutting => success'[j] = "Positive"
      BY <3>1 DEF FedOK
    <3> QED BY <1>4, <2>1, <3>1, <3>3, <3>4, <3>5, <3>6, FedStays
  <2> QED BY <1>1, <2>2, <2>3
<1> QED BY <1>2, <1>3, <1>5 DEF ChainOK

\* An OS process takes a unit from its stdin.
LEMMA ChildReadWhole ==
  ASSUME WholeInv, NEW q \in Internals, ChildRead(q)
  PROVE  ClientOK' /\ ResultOK' /\ ChainOK'
<1> DEFINE h == Head(inData[q])
           t == Tail(inData[q])
<1>0. /\ inData \in [Internals -> Seq(Nat)] /\ hold \in [Internals -> Seq(Nat)]
      /\ wrote \in [Internals -> Seq(Nat)]
  BY DEF WholeInv, Kept, TypeOK
<1>1. /\ child[q] = "Running" /\ hold[q] = <<>> /\ inData[q] # <<>>
      /\ hold' = [hold EXCEPT ![q] = <<h>>]
      /\ inData' = [inData EXCEPT ![q] = t]
      /\ UNCHANGED <<source, sink, length, processed, mState, success, canceled, mDone, mSendReady, fds, outData, child, wrote, sinkString, torn>>
  BY DEF ChildRead, Runs, clientVars, objVars, sinkVars
<1>2. h \in Nat /\ t \in Seq(Nat) /\ inData[q] = <<h>> \o t
  BY <1>0, <1>1, Seqs
<1> HIDE DEF h, t
<1>3. \A i \in Internals : /\ inData'[i] = IF i = q THEN t ELSE inData[i]
                           /\ hold'[i] = IF i = q THEN <<h>> ELSE hold[i]
  BY <1>0, <1>1
<1>4. Received(q)' = Received(q)
  <2>1. Received(q)' = (wrote[q] \o <<h>>) \o t
    BY <1>1, <1>3 DEF Received
  <2>2. Received(q) = (wrote[q] \o <<>>) \o (<<h>> \o t)
    BY <1>1, <1>2 DEF Received
  <2>3. wrote[q] \o <<>> = wrote[q] /\ wrote[q] \in Seq(Nat)
    BY <1>0, Seqs
  <2>4. (wrote[q] \o <<h>>) \o t = wrote[q] \o (<<h>> \o t)
    BY <1>2, <2>3, Shift
  <2> QED BY <2>1, <2>2, <2>3, <2>4
<1> QED BY <1>1, <1>3, <1>4, ChildMoves

\* An OS process writes what it has read.
LEMMA ChildWriteWhole ==
  ASSUME WholeInv, NEW q \in Internals, ChildWrite(q)
  PROVE  ClientOK' /\ ResultOK' /\ ChainOK'
<1> DEFINE h == hold[q]
<1>0. /\ inData \in [Internals -> Seq(Nat)] /\ outData \in [Internals -> Seq(Nat)]
      /\ hold \in [Internals -> Seq(Nat)] /\ wrote \in [Internals -> Seq(Nat)]
  BY DEF WholeInv, Kept, TypeOK
<1>1. /\ child[q] = "Running" /\ h \in Seq(Nat)
      /\ hold' = [hold EXCEPT ![q] = <<>>]
      /\ wrote' = [wrote EXCEPT ![q] = @ \o h]
      /\ outData' = IF SinkUsed(q) THEN [outData EXCEPT ![q] = @ \o h] ELSE outData
      /\ UNCHANGED <<source, sink, length, processed, mState, success, canceled, mDone, mSendReady, fds, inData, child, sinkString, torn>>
  BY <1>0 DEF ChildWrite, Runs, clientVars, objVars, sinkVars
<1> HIDE DEF h
<1>2. /\ wrote'[q] = wrote[q] \o h /\ hold'[q] = <<>>
      /\ \A i \in Internals : i # q => /\ hold'[i] = hold[i] /\ wrote'[i] = wrote[i]
                                       /\ outData'[i] = outData[i]
  BY <1>0, <1>1
<1>3. Received(q)' = Received(q)
  <2>1. Received(q)' = ((wrote[q] \o h) \o <<>>) \o inData[q]
    BY <1>1, <1>2 DEF Received
  <2>2. Received(q) = (wrote[q] \o h) \o inData[q]
    BY DEF Received, h
  <2>3. (wrote[q] \o h) \o <<>> = wrote[q] \o h
    <3>1. wrote[q] \o h \in Seq(Nat)
      BY <1>0, <1>1, Seqs
    <3> QED BY <3>1, Seqs
  <2> QED BY <2>1, <2>2, <2>3
<1> QED BY <1>1, <1>2, <1>3, ChildMoves

\* An OS process ends with its input; nothing makes it end before as long as the chain is fine.
LEMMA ChildEndWhole ==
  ASSUME WholeInv, NEW q \in Internals, ChildEnd(q)
  PROVE  ClientOK' /\ ResultOK' /\ ChainOK'
<1>0. /\ fds \in [Objects -> SUBSET Ends] /\ ClientOK /\ ResultOK /\ ChainOK /\ Kept
      /\ child \in [Internals -> {"None", "Running", "Exited", "Reaped"}]
      /\ wrote \in [Internals -> Seq(Nat)] /\ canceled \in [Objects -> BOOLEAN]
  BY DEF WholeInv, ClientOK, Kept, TypeOK
<1>1. /\ child[q] = "Running" /\ child' = [child EXCEPT ![q] = "Exited"]
      /\ \E ends : fds' = [fds EXCEPT ![q] = ends]
      /\ UNCHANGED <<source, sink, length, processed, mState, success, canceled, mDone, mSendReady, inData, outData, hold, wrote, sinkString, torn>>
  BY DEF ChildEnd, ChildExit, Runs, clientVars, objVars, pipeVars, sinkVars
<1>2. /\ fds'[0] = fds[0] /\ child'[q] = "Exited"
      /\ \A k \in Internals : k # q => child'[k] = child[k]
  BY <1>0, <1>1, Indices
<1>3. \A k \in Internals : Has(0, "inWrite", k)' <=> Has(0, "inWrite", k)
  BY <1>2 DEF Has
<1>4. Fine' => Fine
  BY <1>1 DEF Fine
<1>5. ClientOK'
  BY <1>0, <1>1, <1>4, ClientStays
<1>6. ResultOK'
  BY <1>0, <1>1, ResultStays
<1>7. ASSUME Fine
      PROVE  /\ mState[q] \in {"StSinksReadyWait", "StChildSupervise"} /\ mSendReady[q]
             /\ ~Has(0, "inWrite", q) /\ hold[q] = <<>> /\ inData[q] = <<>>
             /\ wrote[q] = Input
  <2>1. PlainOK(q) /\ FedOK(q) /\ FdsOK(q) /\ EndOK(q) /\ PhaseOK(q)
    BY <1>0, <1>7 DEF ChainOK, Kept
  <2>2. mState[q] \notin Shutting
    BY <1>1, <1>7, <2>1 DEF FedOK, EndOK, Fine
  <2>3. mState[q] \in {"StParentStart", "StSinksReadyWait", "StChildSupervise"}
    BY <1>1, <2>1, <2>2 DEF PlainOK, Late, Shutting
  <2>4. SinkUsed(q) => Has(0, "outRead", q)
    BY <1>1, <1>7, <2>1, <2>3 DEF FdsOK, Fine
  <2>5. hold[q] = <<>> /\ inData[q] = <<>> /\ ~IsOpen(<<"inWrite", q>>)
    <3>1. SinkUsed(q) => IsOpen(<<"outRead", q>>)
      BY <2>4, Indices DEF Has, IsOpen
    <3> QED BY <3>1 DEF ChildEnd
  <2>6. ~Has(0, "inWrite", q)
    BY <2>5, Indices DEF Has, IsOpen
  <2>7. mState[q] \in {"StSinksReadyWait", "StChildSupervise"}
    BY <2>1, <2>3, <2>6 DEF FedOK
  <2>8. mSendReady[q]
    BY <2>1, <2>7 DEF PhaseOK
  <2>9. Received(q) = Input
    BY <2>1, <2>6, <2>8 DEF FedOK
  <2>10. Received(q) = wrote[q]
    <3>1. Received(q) = (wrote[q] \o <<>>) \o <<>>
      BY <2>5 DEF Received
    <3>2. wrote[q] \o <<>> = wrote[q]
      BY <1>0, Seqs
    <3> QED BY <3>1, <3>2
  <2> QED BY <2>5, <2>6, <2>7, <2>8, <2>9, <2>10
<1>8. ASSUME NEW j \in Internals PROVE PlainOK(j)' /\ (Fine' => FedOK(j)')
  <2>1. Received(j)' = Received(j)
    BY <1>1 DEF Received
  <2>2. PlainOK(j)'
    <3>1. child'[j] # "None" => child[j] # "None"
      BY <1>1, <1>2
    <3> QED BY <1>0, <1>1, <2>1, <3>1 DEF ChainOK, PlainOK
  <2>3. \A k \in Internals : Ended(k) => Ended(k)'
    BY <1>2 DEF Ended
  <2>4. ASSUME Fine PROVE FedOK(j)'
    <3>1. FedOK(j)
      BY <1>0, <2>4 DEF ChainOK
    <3>2. Input' = Input
      BY <1>1 DEF Input
    <3>3. mSendReady'[j] /\ ~Has(0, "inWrite", j)' =>
             Received(j)' = Input' /\ (j > 1 => Ended(j - 1)' /\ outData'[j - 1] = <<>>)
      <4>1. j > 1 => j - 1 \in Internals
        BY Indices
      <4> QED BY <1>1, <1>3, <2>1, <2>3, <3>1, <3>2, <4>1 DEF FedOK
    <3>4. Ended(j)' => /\ wrote'[j] = Input' /\ hold'[j] = <<>> /\ inData'[j] = <<>>
                       /\ mSendReady'[j] /\ ~Has(0, "inWrite", j)'
      <4>1. CASE j = q
        BY <1>1, <1>3, <1>7, <2>4, <3>2, <4>1
      <4>2. CASE j # q
        <5>1. Ended(j)' => Ended(j)
          BY <1>2, <4>2 DEF Ended
        <5> QED BY <1>1, <1>3, <3>1, <3>2, <5>1 DEF FedOK
      <4> QED BY <4>1, <4>2
    <3>5. mState'[j] \in {"StFork", "StParentStart"} => Has(0, "inWrite", j)'
      BY <1>1, <1>3, <3>1 DEF FedOK
    <3>6. mState'[j] \in Shutting => success'[j] = "Positive"
      BY <1>1, <3>1 DEF FedOK
    <3> QED BY <3>3, <3>4, <3>5, <3>6 DEF FedOK
  <2> QED BY <1>4, <2>2, <2>4
<1> QED BY <1>5, <1>6, <1>8 DEF ChainOK

\* Who is told of the end of a stream has got all of it.
LEMMA DoneHasAll ==
  ASSUME WholeInv, Fine, NEW q \in Internals, mSendReady[q], mDone[q]
  PROVE  Received(q) = Input /\ (q > 1 => Ended(q - 1) /\ outData[q - 1] = <<>>)
<1>0. Kept /\ ClientOK /\ FedOK(q)
  BY DEF WholeInv, ChainOK
<1>1. CASE ~Has(0, "inWrite", q)
  BY <1>0, <1>1 DEF FedOK
<1>2. CASE Has(0, "inWrite", q) /\ q = 1
  <2>1. UpTo(processed) = Input
    BY <1>0, <1>2 DEF ClientOK
  <2> QED BY <1>0, <1>2, <2>1 DEF Kept, StreamOK
<1>3. CASE Has(0, "inWrite", q) /\ q > 1
  <2>1. q - 1 \in Internals /\ q - 1 < NumCmds /\ q - 1 + 1 = q
    BY <1>3, Indices
  <2>2. outData[q - 1] = <<>> /\ Ended(q - 1)
    BY <1>0, <2>1 DEF Kept, EndOK, Ended, Fine
  <2>3. wrote[q - 1] = Input
    BY <2>1, <2>2 DEF WholeInv, ChainOK, FedOK
  <2>4. PICK rest \in Seq(Nat) : wrote[q - 1] = Received(q) \o rest /\ rest = outData[q - 1]
    BY <1>0, <1>3 DEF Kept, StreamOK
  <2>5. Received(q) \in Seq(Nat)
    <3>1. /\ inData[q] \in Seq(Nat) /\ hold[q] \in Seq(Nat) /\ wrote[q] \in Seq(Nat)
      BY <1>0 DEF Kept, TypeOK
    <3>2. wrote[q] \o hold[q] \in Seq(Nat)
      BY <3>1, Seqs
    <3> QED BY <3>1, <3>2, Seqs DEF Received
  <2>6. Received(q) \o <<>> = Received(q)
    BY <2>5, Seqs
  <2> QED BY <2>2, <2>3, <2>4, <2>6
<1> QED BY <1>1, <1>2, <1>3, Indices DEF Internals

\* A tick of the supervision begins, with the end of the input when there is no more to come.
LEMMA SupervisionStartWhole ==
  ASSUME WholeInv, NEW q \in Internals, SupervisionStart(q)
  PROVE  ClientOK' /\ ResultOK' /\ ChainOK'
<1>0. /\ fds \in [Objects -> SUBSET Ends] /\ ClientOK /\ ResultOK /\ ChainOK /\ Kept
      /\ q \in Objects /\ canceled \in [Objects -> BOOLEAN]
  BY Indices DEF WholeInv, ClientOK, Kept, TypeOK
<1>1. /\ mState[q] = "StChildSupervise"
      /\ fds' = fds \/ (mDone[q] /\ fds' = [fds EXCEPT ![0] = @ \ {<<"inWrite", q>>}])
      /\ UNCHANGED <<source, sink, length, processed, mState, success, canceled, mSendReady, mDone, inData, outData, child, hold, wrote, sinkString, torn>>
  BY DEF SupervisionStart, clientVars, objVars, pipeVars, childVars, sinkVars
<1>2. mSendReady[q]
  BY <1>0, <1>1 DEF Kept, PhaseOK
<1>3. /\ \A k \in Internals : k # q => (Has(0, "inWrite", k)' <=> Has(0, "inWrite", k))
      /\ Has(0, "inWrite", q)' => Has(0, "inWrite", q)
      /\ ~Has(0, "inWrite", q)' => mDone[q] \/ ~Has(0, "inWrite", q)
  <2>1. fds'[0] = fds[0] \/ (mDone[q] /\ fds'[0] = fds[0] \ {<<"inWrite", q>>})
    BY <1>0, <1>1, Indices
  <2> QED BY <2>1 DEF Has
<1>4. Ended(q) <=> Ended(q)'
  BY <1>1 DEF Ended
<1>5. ASSUME Fine PROVE FedOK(q)'
  <2>1. FedOK(q)
    BY <1>0, <1>5 DEF ChainOK
  <2>2. Received(q)' = Received(q) /\ Input' = Input
    BY <1>1 DEF Received, Input
  <2>3. ~Has(0, "inWrite", q)' =>
           Received(q)' = Input' /\ (q > 1 => Ended(q - 1)' /\ outData'[q - 1] = <<>>)
    <3>1. ASSUME ~Has(0, "inWrite", q)'
          PROVE  Received(q) = Input /\ (q > 1 => Ended(q - 1) /\ outData[q - 1] = <<>>)
      <4>1. CASE mDone[q]
        BY <1>2, <1>5, <4>1, DoneHasAll
      <4>2. CASE ~Has(0, "inWrite", q)
        BY <1>2, <2>1, <4>2 DEF FedOK
      <4> QED BY <1>3, <3>1, <4>1, <4>2
    <3>2. Ended(q - 1) <=> Ended(q - 1)'
      BY <1>1 DEF Ended
    <3> QED BY <1>1, <2>2, <3>1, <3>2
  <2>4. mState'[q] = "StChildSupervise"
    BY <1>1
  <2> QED BY <1>1, <1>3, <1>4, <2>1, <2>2, <2>3, <2>4 DEF FedOK, Shutting
<1>6. /\ child'[q] # "None" => mState'[q] \in Late \cup {"StParentStart"}
      /\ success[q] = "Error" => mState'[q] \in Failures
  BY <1>0, <1>1 DEF ChainOK, PlainOK
<1>7. \A k \in Internals : k # q =>
         /\ mState'[k] = mState[k] /\ mSendReady'[k] = mSendReady[k] /\ child'[k] = child[k]
         /\ Has(0, "inWrite", k)' <=> Has(0, "inWrite", k)
  BY <1>1, <1>3
<1> QED BY <1>0, <1>1, <1>4, <1>5, <1>6, <1>7, PhaseStep

\* What an OS process has received is all it has ever written, holds, or finds in its stdin.
LEMMA ReceivedLength ==
  ASSUME TypeOK, NEW k \in Internals
  PROVE  /\ Received(k) \in Seq(Nat) /\ wrote[k] \in Seq(Nat)
         /\ Len(inData[k]) \in Nat /\ Len(Received(k)) \in Nat
         /\ Len(inData[k]) <= Len(Received(k))
<1>1. wrote[k] \in Seq(Nat) /\ hold[k] \in Seq(Nat) /\ inData[k] \in Seq(Nat)
  BY DEF TypeOK
<1> DEFINE s == wrote[k] \o hold[k]
<1>2. s \in Seq(Nat)
  BY <1>1, ConcatProperties
<1> HIDE DEF s
<1>3. s \o inData[k] \in Seq(Nat) /\ Len(s \o inData[k]) = Len(s) + Len(inData[k])
  BY <1>1, <1>2, ConcatProperties
<1>4. Len(s) \in Nat /\ Len(inData[k]) \in Nat
  BY <1>1, <1>2, LenProperties
<1>5. Received(k) = s \o inData[k]
  BY DEF Received, s
<1>6. Received(k) \in Seq(Nat) /\ Len(Received(k)) = Len(s) + Len(inData[k])
  BY <1>3, <1>5
<1> QED BY <1>1, <1>4, <1>6

\* In a chain that is fine pipesClose() finds no stdin that is open for writing.
LEMMA NotClosing ==
  ASSUME WholeInv, Fine, NEW k \in Internals, Has(0, "inWrite", k)
  PROVE  ~At(k, "close")
<1> SUFFICES ASSUME At(k, "close") PROVE FALSE
  OBVIOUS
<1>0. Kept /\ FedOK(k)
  BY DEF WholeInv, ChainOK
<1>1. mState[k] = "StSdPipesClose"
  BY <1>0 DEF At, Kept, TickOK
<1>2. success[k] = "Positive"
  BY <1>0, <1>1 DEF FedOK, Shutting
<1>3. Ended(k)
  BY <1>0, <1>2 DEF Kept, EndOK, Ended, Fine
<1> QED BY <1>0, <1>3 DEF FedOK

\* A pipe with a free place takes what is written to it.
LEMMA HasRoom ==
  ASSUME WholeInv, Fine, NEW k \in Internals, mSendReady[k], Has(0, "inWrite", k),
         Len(inData[k]) < PipeCap
  PROVE  Accepts(k)
<1>1. Has(0, "inRead", k)
  BY NotClosing DEF WholeInv, Kept, FdsOK
<1> QED BY <1>1, Indices DEF Accepts, SinkIsSet, IsOpen, Has

\* The first pipe takes what is left of the input.
LEMMA SourceAccepted ==
  ASSUME WholeInv, Roomy, Fine, mSendReady[1], source # "closed", processed < length
  PROVE  Accepts(1) /\ ~Ended(1)
<1>0. 1 \in Internals /\ Kept /\ TypeOK /\ FedOK(1) /\ length <= MaxLength
  BY Indices DEF WholeInv, ChainOK, ClientOK, Kept
<1>1. Received(1) = UpTo(processed)
  BY <1>0 DEF Kept, StreamOK
<1>2. Received(1) # Input
  BY <1>0, <1>1, InputLength
<1>3. Has(0, "inWrite", 1)
  BY <1>0, <1>2 DEF FedOK
<1>4. Len(Received(1)) = processed /\ processed \in Nat /\ length \in Nat
  BY <1>0, <1>1, InputLength
<1>5. Len(inData[1]) \in Nat /\ Len(inData[1]) <= Len(Received(1))
  BY <1>0, ReceivedLength
<1>6. Len(inData[1]) < PipeCap
  BY <1>0, <1>4, <1>5, FileExecutingAssumption DEF Roomy
<1> QED BY <1>0, <1>3, <1>6, HasRoom DEF FedOK

\* The client or a source sends the next unit, and ends with the last one.
LEMMA SourceStep ==
  ASSUME WholeInv, Kept', Roomy, mSendReady[1], source # "closed",
         UNCHANGED <<source, sink, length, mState, success, canceled, mSendReady, outData, child, hold, wrote, sinkString, torn>>,
         fds' = fds \/ fds' = [fds EXCEPT ![0] = @ \ {<<"inWrite", 1>>}],
         \/ /\ processed < length /\ processed' = processed + 1
            /\ inData' = [inData EXCEPT ![1] = Append(@, processed + 1)]
            /\ (fds' = fds /\ mDone' = mDone) \/ processed' = length
         \/ /\ UNCHANGED <<processed, inData>>
            /\ (fds' = fds /\ mDone' = mDone) \/ processed = length \/ ~Accepts(1)
  PROVE  ClientOK' /\ ResultOK' /\ ChainOK'
<1>0. /\ fds \in [Objects -> SUBSET Ends] /\ ClientOK /\ ResultOK /\ ChainOK /\ Kept /\ TypeOK
      /\ canceled \in [Objects -> BOOLEAN] /\ 1 \in Internals
      /\ inData \in [Internals -> Seq(Nat)]
      /\ processed \in Nat /\ length \in Nat /\ processed <= length
  BY Indices, InputLength DEF WholeInv, ClientOK, Kept, TypeOK
<1>1. Fine' => Fine
  BY DEF Fine
<1>2. ResultOK'
  BY <1>0, ResultStays
<1>3. ASSUME Fine
      PROVE  /\ (fds' = fds /\ mDone' = mDone) \/ processed' = length
             /\ processed' = processed \/ (processed < length /\ ~Ended(1))
             /\ processed' = processed => inData' = inData
             /\ processed = length => processed' = length
  <2>1. processed < length => Accepts(1) /\ ~Ended(1)
    BY <1>3, SourceAccepted
  <2> QED BY <1>0, <2>1
<1>4. /\ Input' = Input
      /\ \A n : UpTo(n)' = UpTo(n')
  BY DEF Input, UpTo
<1>5. UpTo(length) = Input
  BY <1>0, InputLength
<1>6. ClientOK'
  <2>1. mState[0] # "StStart"
    BY <1>0 DEF Kept, PhaseOK, Late
  <2>2. ASSUME Fine, mDone'[0] \/ mDone'[1] PROVE UpTo(processed)' = Input'
    <3>1. CASE mDone' = mDone
      <4>1. UpTo(processed) = Input
        BY <1>0, <2>2, <3>1 DEF ClientOK
      <4>2. processed = length
        BY <1>0, <4>1, InputLength
      <4>3. processed' = processed
        BY <1>3, <2>2, <4>2
      <4> QED BY <1>4, <4>1, <4>3 DEF UpTo
    <3>2. CASE mDone' # mDone
      <4>1. processed' = length
        BY <1>3, <2>2, <3>2
      <4> QED BY <1>4, <1>5, <4>1 DEF UpTo
    <3> QED BY <3>1, <3>2
  <2> QED BY <1>0, <1>1, <2>1, <2>2 DEF ClientOK
<1>7. /\ \A k \in Internals : k # 1 => (Has(0, "inWrite", k)' <=> Has(0, "inWrite", k))
      /\ Has(0, "inWrite", 1)' => Has(0, "inWrite", 1)
      /\ ~Has(0, "inWrite", 1)' => fds' # fds \/ ~Has(0, "inWrite", 1)
  <2>1. fds'[0] = fds[0] \/ fds'[0] = fds[0] \ {<<"inWrite", 1>>}
    BY <1>0, Indices
  <2> QED BY <2>1 DEF Has
<1>8. \A k \in Internals : k # 1 => inData'[k] = inData[k]
  BY <1>0
<1>9. \A k \in Internals : Ended(k) <=> Ended(k)'
  BY DEF Ended
<1>10. Received(1)' = UpTo(processed')
  BY <1>0 DEF Kept, StreamOK, UpTo
<1>11. ASSUME NEW j \in Internals PROVE PlainOK(j)' /\ (Fine' => FedOK(j)')
  <2>1. j # 1 => Received(j)' = Received(j)
    BY <1>8 DEF Received
  <2>2. Len(Received(j)') <= length
    <3>1. CASE j = 1
      <4>1. processed' \in Nat /\ processed' <= length
        BY <1>0
      <4> QED BY <1>0, <1>10, <3>1, <4>1, InputLength
    <3>2. CASE j # 1
      BY <1>0, <2>1, <3>2 DEF ChainOK, PlainOK
    <3> QED BY <3>1, <3>2
  <2>3. PlainOK(j)'
    BY <1>0, <2>2 DEF ChainOK, PlainOK
  <2>4. ASSUME Fine, j # 1 PROVE FedOK(j)'
    <3>1. FedOK(j)
      BY <1>0, <2>4 DEF ChainOK
    <3>2. Ended(j)' => /\ Ended(j) /\ wrote'[j] = wrote[j] /\ hold'[j] = hold[j]
                       /\ inData'[j] = inData[j] /\ mSendReady'[j] /\ ~Has(0, "inWrite", j)'
      BY <1>7, <1>8, <1>9, <2>4, <3>1 DEF FedOK
    <3>3. j > 1 /\ Ended(j - 1) => Ended(j - 1)' /\ (outData[j - 1] = <<>> => outData'[j - 1] = <<>>)
      BY <1>9, Indices
    <3>4. mState'[j] \in {"StFork", "StParentStart"} => Has(0, "inWrite", j)'
      BY <1>7, <2>4, <3>1 DEF FedOK
    <3>5. mState'[j] \in Shutting => success'[j] = "Positive"
      BY <3>1 DEF FedOK
    <3> QED BY <1>7, <2>1, <2>4, <3>1, <3>2, <3>3, <3>4, <3>5, FedStays
  <2>5. ASSUME Fine, j = 1 PROVE FedOK(j)'
    <3>1. FedOK(1)
      BY <1>0, <2>5 DEF ChainOK
    <3>2. ~Has(0, "inWrite", 1)' => Received(1)' = Input'
      <4>1. CASE fds' # fds
        <5>1. processed' = length
          BY <1>3, <2>5, <4>1
        <5> QED BY <1>4, <1>5, <1>10, <5>1
      <4>2. CASE ~Has(0, "inWrite", 1)
        <5>1. Received(1) = Input /\ Received(1) = UpTo(processed)
          BY <1>0, <3>1, <4>2 DEF FedOK, Kept, StreamOK
        <5>2. processed = length
          BY <1>0, <5>1, InputLength
        <5>3. processed' = length
          BY <1>3, <2>5, <5>2
        <5> QED BY <1>4, <1>5, <1>10, <5>3
      <4> QED BY <1>7, <4>1, <4>2
    <3>3. Ended(1)' => /\ wrote'[1] = Input' /\ hold'[1] = <<>> /\ inData'[1] = <<>>
                       /\ mSendReady'[1] /\ ~Has(0, "inWrite", 1)'
      <4>1. ASSUME Ended(1) PROVE inData' = inData
        BY <1>3, <2>5, <4>1
      <4> QED BY <1>0, <1>4, <1>7, <1>9, <3>1, <4>1 DEF FedOK
    <3>4. mState[1] \notin {"StFork", "StParentStart"}
      BY <1>0 DEF Kept, PhaseOK, Late
    <3>5. mState'[1] \in Shutting => success'[1] = "Positive"
      BY <3>1 DEF FedOK
    <3> QED BY <2>5, <3>2, <3>3, <3>4, <3>5 DEF FedOK
  <2> QED BY <1>1, <2>3, <2>4, <2>5
<1> QED BY <1>2, <1>6, <1>11 DEF ChainOK

\* An OS process has written no more than it has received.
LEMMA WroteLength ==
  ASSUME TypeOK, NEW k \in Internals
  PROVE  Len(wrote[k]) <= Len(Received(k)) /\ Len(wrote[k]) \in Nat
<1>1. wrote[k] \in Seq(Nat) /\ hold[k] \in Seq(Nat) /\ inData[k] \in Seq(Nat)
  BY DEF TypeOK
<1> DEFINE s == wrote[k] \o hold[k]
<1>2. s \in Seq(Nat) /\ Len(s) = Len(wrote[k]) + Len(hold[k])
  BY <1>1, ConcatProperties
<1> HIDE DEF s
<1>3. Len(s \o inData[k]) = Len(s) + Len(inData[k])
  BY <1>1, <1>2, ConcatProperties
<1>4. Len(wrote[k]) \in Nat /\ Len(hold[k]) \in Nat /\ Len(inData[k]) \in Nat
  BY <1>1, LenProperties
<1>5. Received(k) = s \o inData[k]
  BY DEF Received, s
<1>6. Len(Received(k)) = Len(s) + Len(inData[k])
  BY <1>3, <1>5
<1>7. PICK a \in Nat, b \in Nat, c \in Nat : a = Len(wrote[k]) /\ b = Len(hold[k]) /\ c = Len(inData[k])
  BY <1>4
<1>8. Len(s) = a + b
  BY <1>2, <1>7
<1>9. Len(Received(k)) = a + b + c
  BY <1>6, <1>7, <1>8
<1>10. a <= a + b + c
  OBVIOUS
<1> QED BY <1>7, <1>9, <1>10

\* The client sends.
LEMMA ClientSendWhole ==
  ASSUME WholeInv, Kept', Roomy, ClientSend
  PROVE  ClientOK' /\ ResultOK' /\ ChainOK'
<1>0. Kept /\ fds \in [Objects -> SUBSET Ends] /\ length \in Nat /\ processed \in Nat
  BY DEF WholeInv, Kept, TypeOK
<1>1. /\ processed < length /\ source = "manual" /\ mSendReady[0]
      /\ UNCHANGED <<source, sink, length, mState, success, canceled, mSendReady, outData, child, hold, wrote, sinkString, torn>>
  BY DEF ClientSend, ClientUp, childVars, sinkVars
<1>2. mSendReady[1]
  BY <1>0, <1>1 DEF Kept, TickOK
<1>3. CASE Accepts(1)
  <2>1. /\ inData' = [inData EXCEPT ![1] = Append(@, processed + 1)]
        /\ fds' = fds /\ processed' = processed + 1 /\ mDone' = mDone
    BY <1>3 DEF ClientSend, IntSend
  <2> QED BY <1>1, <1>2, <2>1, SourceStep
<1>4. CASE ~Accepts(1)
  <2>1. /\ inData' = inData /\ processed' = processed
        /\ fds' = fds \/ fds' = [fds EXCEPT ![0] = @ \ {<<"inWrite", 1>>}]
    BY <1>4 DEF ClientSend, IntSend
  <2> QED BY <1>1, <1>2, <1>4, <2>1, SourceStep
<1> QED BY <1>3, <1>4

\* The supervised internal offers its stdin.
LEMMA AutoSourceWhole ==
  ASSUME WholeInv, Kept', Roomy, NEW q \in Internals, AutoSource(q) \/ AutoSourceRead(q)
  PROVE  ClientOK' /\ ResultOK' /\ ChainOK'
<1>0. /\ Kept /\ fds \in [Objects -> SUBSET Ends] /\ length \in Nat /\ processed \in Nat
      /\ processed <= length /\ source # "fd" /\ mDone \in [Objects -> BOOLEAN]
  BY InputLength DEF WholeInv, Kept, TypeOK, ClientOK
<1>1. /\ q = 1 /\ source # "closed" /\ tick.step = "source" /\ tick.at = q
      /\ UNCHANGED <<source, sink, length, mState, success, canceled, mSendReady, outData, child, hold, wrote, sinkString, torn>>
  BY DEF AutoSource, AutoSourceRead, At, AutoSourced, childVars, sinkVars
<1>2. mSendReady[1]
  BY <1>0, <1>1 DEF Kept, TickOK, PhaseOK
<1>3. CASE AutoSource(q)
  <2>1. CASE processed < length /\ Accepts(q)
    <3>1. /\ processed' = processed + 1
          /\ inData' = [inData EXCEPT ![1] = Append(@, processed + 1)]
      BY <1>1, <1>3, <2>1 DEF AutoSource
    <3>2. CASE processed + 1 = length
      <4>1. fds' = [fds EXCEPT ![0] = @ \ {<<"inWrite", 1>>}]
        BY <1>1, <1>3, <3>2 DEF AutoSource
      <4> QED BY <1>1, <1>2, <2>1, <3>1, <3>2, <4>1, SourceStep
    <3>3. CASE processed + 1 # length
      <4>1. fds' = fds /\ mDone' = [mDone EXCEPT ![q] = @ \/ FALSE]
        BY <1>1, <1>3, <2>1, <3>3 DEF AutoSource
      <4>2. mDone' = mDone
        BY <1>0, <4>1
      <4> QED BY <1>1, <1>2, <2>1, <3>1, <4>1, <4>2, SourceStep
    <3> QED BY <3>2, <3>3
  <2>2. CASE ~(processed < length /\ Accepts(q))
    <3>1. /\ processed' = processed /\ inData' = inData
          /\ fds' = [fds EXCEPT ![0] = @ \ {<<"inWrite", 1>>}]
      BY <1>1, <1>3, <2>2 DEF AutoSource
    <3>2. processed = length \/ ~Accepts(1)
      BY <1>0, <1>1, <2>2
    <3> QED BY <1>1, <1>2, <3>1, <3>2, SourceStep
  <2> QED BY <2>1, <2>2
<1>4. CASE AutoSourceRead(q)
  <2>1. \/ UNCHANGED <<processed, inData, fds, mDone>>
        \/ /\ processed < length /\ Accepts(1)
           /\ processed' = processed + 1
           /\ inData' = [inData EXCEPT ![1] = Append(@, processed + 1)]
           /\ UNCHANGED <<fds, mDone>>
        \/ /\ processed = length \/ ~Accepts(1)
           /\ fds' = [fds EXCEPT ![0] = @ \ {<<"inWrite", 1>>}]
           /\ UNCHANGED <<processed, inData>>
    BY <1>0, <1>1, <1>4 DEF AutoSourceRead
  <2> QED BY <1>1, <1>2, <2>1, SourceStep
<1> QED BY <1>3, <1>4

\* The next pipe takes the unit: it holds less than was ever written to it.
LEMMA NextAccepts ==
  ASSUME WholeInv, Roomy, Fine, NEW q \in Internals, q < NumCmds, mSendReady[q + 1], outData[q] # <<>>
  PROVE  Accepts(q + 1) /\ Has(0, "inWrite", q + 1) /\ ~Ended(q + 1)
<1> DEFINE p == q + 1
<1>a. p \in Internals /\ p > 1 /\ p - 1 = q /\ mSendReady[p]
  BY Indices DEF Internals
<1> HIDE DEF p
<1>b. Kept /\ TypeOK /\ ChainOK /\ length <= MaxLength
  BY DEF WholeInv, ClientOK, Kept
<1>c. FedOK(p) /\ PlainOK(q)
  BY <1>a, <1>b DEF ChainOK
<1>d. length \in Nat
  BY <1>b, InputLength
<1>0. /\ p \in Internals /\ p > 1 /\ p - 1 = q /\ Kept /\ TypeOK /\ FedOK(p) /\ PlainOK(q)
      /\ length <= MaxLength /\ length \in Nat /\ mSendReady[p]
  BY <1>a, <1>b, <1>c, <1>d
<1>1. Has(0, "inWrite", p)
  BY <1>0 DEF FedOK
<1>2. wrote[q] = Received(p) \o outData[q]
  BY <1>0, <1>1 DEF Kept, StreamOK
<1>3. /\ Len(inData[p]) \in Nat /\ Len(Received(p)) \in Nat /\ Len(inData[p]) <= Len(Received(p))
      /\ Received(p) \in Seq(Nat) /\ Received(q) \in Seq(Nat) /\ Len(Received(q)) \in Nat
      /\ outData[q] \in Seq(Nat) /\ wrote[q] \in Seq(Nat) /\ hold[q] \in Seq(Nat) /\ inData[q] \in Seq(Nat)
  BY <1>0, ReceivedLength DEF TypeOK
<1>4. Len(wrote[q]) = Len(Received(p)) + Len(outData[q]) /\ Len(outData[q]) \in Nat /\ Len(outData[q]) # 0
  BY <1>2, <1>3, ConcatProperties, EmptySeq
<1>5. Len(wrote[q]) <= Len(Received(q))
  BY <1>0, WroteLength
<1>6. Len(inData[p]) < PipeCap
  <2>1. Len(Received(q)) <= length
    BY <1>0 DEF PlainOK
  <2>2. PICK a \in Nat, b \in Nat, c \in Nat, d \in Nat :
          /\ a = Len(inData[p]) /\ b = Len(Received(p)) /\ c = Len(outData[q]) /\ d = Len(Received(q))
    BY <1>3, <1>4
  <2>3. a <= b /\ b + c <= d /\ c # 0 /\ d <= length
    BY <1>3, <1>4, <1>5, <2>1, <2>2
  <2>4. length <= PipeCap
    BY <1>0, FileExecutingAssumption DEF Roomy
  <2>5. a < PipeCap
    BY <1>0, <2>3, <2>4, FileExecutingAssumption
  <2> QED BY <2>2, <2>5
<1>7. Accepts(p) /\ ~Ended(p)
  BY <1>0, <1>1, <1>6, HasRoom DEF FedOK
<1> QED BY <1>1, <1>7 DEF p

\* A unit goes from one OS process to the next.
LEMMA SinkToNextWhole ==
  ASSUME WholeInv, Kept', Roomy, NEW q \in Internals, SinkToNext(q)
  PROVE  ClientOK' /\ ResultOK' /\ ChainOK'
<1> DEFINE p == q + 1
<1>0. /\ fds \in [Objects -> SUBSET Ends] /\ ClientOK /\ ResultOK /\ ChainOK /\ Kept /\ TypeOK
      /\ canceled \in [Objects -> BOOLEAN]
      /\ inData \in [Internals -> Seq(Nat)] /\ outData \in [Internals -> Seq(Nat)]
  BY DEF WholeInv, ClientOK, Kept, TypeOK
<1>1. /\ q < NumCmds /\ outData[q] # <<>> /\ tick.at = q /\ tick.step = "sink"
      /\ outData' = [outData EXCEPT ![q] = Tail(@)]
      /\ Accepts(p) => fds' = fds
      /\ inData' = inData \/ inData' = [inData EXCEPT ![p] = Append(@, OutHead(q))]
      /\ fds' = fds \/ fds' = [fds EXCEPT ![0] = @ \ {<<"inWrite", p>>}]
      /\ UNCHANGED <<source, sink, length, processed, mState, success, canceled, mSendReady, mDone, child, hold, wrote, sinkString, torn>>
  BY DEF SinkToNext, Sinking, SinkTakes, At, IntSend, childVars, sinkVars
<1>2. p \in Internals /\ p # q /\ p > 1 /\ p - 1 = q
  BY <1>1, Indices DEF Internals
<1>3. mSendReady[p]
  <2>1. mState[q] = "StChildSupervise"
    BY <1>0, <1>1 DEF Kept, TickOK
  <2> QED BY <1>0, <1>1, <2>1 DEF Kept, PhaseOK
<1>4. Fine => fds' = fds /\ Has(0, "inWrite", p) /\ ~Ended(p)
  BY <1>1, <1>3, NextAccepts
<1> HIDE DEF p
<1>5. \A k \in Internals : k # p => /\ inData'[k] = inData[k]
                                    /\ Has(0, "inWrite", k)' <=> Has(0, "inWrite", k)
  <2>1. fds'[0] = fds[0] \/ fds'[0] = fds[0] \ {<<"inWrite", p>>}
    BY <1>0, <1>1, Indices
  <2> QED BY <1>0, <1>1, <2>1 DEF Has
<1>6. \A k \in Internals : outData[k] = <<>> => outData'[k] = <<>>
  BY <1>0, <1>1
<1>7. \A k \in Internals : Ended(k) <=> Ended(k)'
  BY <1>1 DEF Ended
<1>8. Fine' => Fine
  BY <1>1 DEF Fine
<1>9. ClientOK'
  BY <1>0, <1>1, <1>8, ClientStays
<1>10. ResultOK'
  BY <1>0, <1>1, ResultStays
<1>11. Len(Received(p)') <= length
  <2>1. PICK rest \in Seq(Nat) : wrote'[q] = Received(p)' \o rest
    BY <1>2 DEF Kept, StreamOK
  <2>2. TypeOK'
    BY DEF Kept
  <2>3. Received(p)' \in Seq(Nat) /\ Len(Received(p)') \in Nat
    <3>1. wrote'[p] \in Seq(Nat) /\ hold'[p] \in Seq(Nat) /\ inData'[p] \in Seq(Nat)
      BY <1>2, <2>2 DEF TypeOK
    <3>2. wrote'[p] \o hold'[p] \in Seq(Nat)
      BY <3>1, Seqs
    <3>3. (wrote'[p] \o hold'[p]) \o inData'[p] \in Seq(Nat)
      BY <3>1, <3>2, Seqs
    <3>4. Received(p)' \in Seq(Nat)
      BY <3>3 DEF Received
    <3> QED BY <3>4, LenProperties
  <2>4. Len(wrote[q]) = Len(Received(p)') + Len(rest) /\ Len(rest) \in Nat
    BY <1>1, <2>1, <2>3, ConcatProperties, LenProperties
  <2>5. Len(wrote[q]) <= Len(Received(q)) /\ Len(Received(q)) \in Nat
    BY <1>0, WroteLength, ReceivedLength
  <2>6. Len(Received(q)) <= length /\ length \in Nat
    BY <1>0, InputLength DEF ChainOK, PlainOK
  <2> QED BY <2>3, <2>4, <2>5, <2>6
<1>12. ASSUME NEW j \in Internals PROVE PlainOK(j)' /\ (Fine' => FedOK(j)')
  <2>1. j # p => Received(j)' = Received(j)
    BY <1>1, <1>5 DEF Received
  <2>2. PlainOK(j)'
    <3>1. CASE j = p
      BY <1>0, <1>1, <1>11, <3>1 DEF ChainOK, PlainOK
    <3>2. CASE j # p
      BY <1>0, <1>1, <2>1, <3>2 DEF ChainOK, PlainOK
    <3> QED BY <3>1, <3>2
  <2>3. ASSUME Fine, j = p PROVE FedOK(j)'
    <3>1. FedOK(p) /\ ~Ended(p)' /\ Has(0, "inWrite", p)'
      BY <1>0, <1>2, <1>4, <1>7, <2>3 DEF ChainOK, Has
    <3> QED BY <1>1, <2>3, <3>1 DEF FedOK
  <2>4. ASSUME Fine, j # p PROVE FedOK(j)'
    <3>1. FedOK(j)
      BY <1>0, <2>4 DEF ChainOK
    <3>2. Ended(j)' => /\ Ended(j) /\ wrote'[j] = wrote[j] /\ hold'[j] = hold[j]
                       /\ inData'[j] = inData[j] /\ mSendReady'[j] /\ ~Has(0, "inWrite", j)'
      BY <1>1, <1>5, <1>7, <2>4, <3>1 DEF FedOK
    <3>3. j > 1 /\ Ended(j - 1) => Ended(j - 1)' /\ (outData[j - 1] = <<>> => outData'[j - 1] = <<>>)
      BY <1>6, <1>7, Indices
    <3>4. mState'[j] \in {"StFork", "StParentStart"} => Has(0, "inWrite", j)'
      BY <1>1, <1>5, <2>4, <3>1 DEF FedOK
    <3>5. mState'[j] \in Shutting => success'[j] = "Positive"
      BY <1>1, <3>1 DEF FedOK
    <3>6. mSendReady'[j] /\ ~Has(0, "inWrite", j)' => mSendReady[j] /\ ~Has(0, "inWrite", j)
      BY <1>1, <1>5, <2>4
    <3> QED BY <1>1, <2>1, <2>4, <3>1, <3>2, <3>3, <3>4, <3>5, <3>6, FedStays
  <2> QED BY <1>8, <2>2, <2>3, <2>4
<1> QED BY <1>9, <1>10, <1>12 DEF ChainOK

\* A chain that was not started has lost nothing.
LEMMA WholeInit == Roomy /\ Init => WholeInv
<1> SUFFICES ASSUME Roomy, Init PROVE WholeInv
  OBVIOUS
<1>1. Kept
  BY InitKept
<1>2. ClientOK
  BY Indices DEF Init, ClientOK, Objects
<1>3. ResultOK
  BY Indices DEF Init, ResultOK
<1>4. ASSUME NEW j \in Internals PROVE PlainOK(j) /\ FedOK(j)
  <2>1. /\ mState[j] = "None" /\ child[j] = "None" /\ success[j] = "Pending" /\ ~canceled[j]
        /\ ~mSendReady[j] /\ inData[j] = <<>> /\ hold[j] = <<>> /\ wrote[j] = <<>>
    BY Indices DEF Init
  <2>2. Len(Received(j)) <= length
    <3>1. Received(j) = <<>> /\ length \in Nat
      BY <1>1, <2>1, ConcatEmptySeq, InputLength DEF Received, Kept
    <3> QED BY <3>1
  <2> QED BY <2>1, <2>2 DEF PlainOK, FedOK, Ended, Shutting
<1> QED BY <1>1, <1>2, <1>3, <1>4 DEF WholeInv, ChainOK

\* Every step keeps it.
LEMMA WholeNext == Roomy /\ WholeInv /\ [Next]_vars => WholeInv'
<1> SUFFICES ASSUME Roomy, WholeInv, [Next]_vars PROVE WholeInv'
  OBVIOUS
<1>0. Kept'
  BY NextKeeps DEF WholeInv
<1> SUFFICES ClientOK' /\ ResultOK' /\ ChainOK'
  BY <1>0 DEF WholeInv
<1>1. CASE Client \/ ClientRead \/ ClientReadAgain \/ ClientCancel
  BY <1>0, <1>1, ClientSendWhole, AskWhole, LastWhole DEF Client
<1>2. CASE Configure
  BY <1>2, ConfigureWhole
<1>3. CASE Container
  BY <1>3, ContainerStartWhole, InternalsSuperviseWhole, InternalsFreeWhole DEF Container
<1>4. CASE \E i \in Objects : StateNext(i)
  BY <1>4, StateNextWhole
<1>5. ASSUME NEW k \in Internals, InternalTick(k)
      PROVE  ClientOK' /\ ResultOK' /\ ChainOK'
  BY <1>5, FailWhole, StartWhole, ParentStartWhole, SupervisionStartWhole,
     PipesCloseStartWhole DEF InternalTick
<1>6. ASSUME NEW k \in Internals, Supervision(k)
      PROVE  ClientOK' /\ ResultOK' /\ ChainOK'
  BY <1>0, <1>6, AutoSourceWhole, TickStepWhole, SinkToNextWhole, LastWhole, SinkEofWhole,
     ChildStateRecordWhole, FailWhole, PipesCloseWhole DEF Supervision
<1>7. ASSUME NEW k \in Internals, InternalCancel(k) \/ Child(k) \/ ChildQuit(k)
      PROVE  ClientOK' /\ ResultOK' /\ ChainOK'
  BY <1>7, FailWhole, ChildReadWhole, ChildWriteWhole, ChildEndWhole DEF Child, ChildQuit, Roomy
<1>8. CASE UNCHANGED vars
  <2>1. UNCHANGED <<source, sink, length, processed, mState, success, canceled, mSendReady, mDone, fds, inData, outData, child, hold, wrote, sinkString, torn>>
    BY <1>8 DEF vars, clientVars, objVars, pipeVars, childVars, sinkVars
  <2>2. ClientOK /\ ResultOK /\ ChainOK /\ Kept /\ canceled \in [Objects -> BOOLEAN]
    BY DEF WholeInv, ClientOK
  <2>3. (Fine' => Fine) /\ ChainOK'
    BY <2>1, <2>2, QuietStep DEF Has
  <2>4. ClientOK' /\ ResultOK'
    BY <2>1, <2>2, <2>3, ClientStays, ResultStays
  <2> QED BY <2>3, <2>4
<1> QED BY <1>1, <1>2, <1>3, <1>4, <1>5, <1>6, <1>7, <1>8 DEF Next

\* For chains of any length: when the container is Positive the client has its whole input at the
\* other end, if the OS processes read to the end and the pipes hold what is under way, in
\* whatever order they and the client have run.
THEOREM WholeInputArrives == Roomy => (Spec => []WholeInput)
<1> SUFFICES ASSUME Roomy PROVE Spec => []WholeInput
  OBVIOUS
<1>1. WholeInv => WholeInput
  BY DEF WholeInv, ResultOK, WholeInput
<1> QED BY <1>1, WholeInit, WholeNext, PTL DEF Spec
=============================================================================
