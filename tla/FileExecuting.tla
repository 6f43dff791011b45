--------------------------- MODULE FileExecuting ---------------------------
(***************************************************************************)
(* FileExecuting.cpp: a chain of commands.  The container (object 0) runs  *)
(* one internal per command (objects 1 .. NumCmds), each of which owns the *)
(* pipes to its OS process.  The internals and the container are ticked by *)
(* one thread; the OS processes and the client that calls send() and       *)
(* read() run between the steps of that thread.                            *)
(*                                                                         *)
(* A unit is what one write() puts into a pipe and one read() takes out:   *)
(* the chunks of the code (512 bytes of a source, 22 of a sink) are below  *)
(* PIPE_BUF, so a nonblocking write() is all or nothing.  The input is the *)
(* units 1 .. length.  Each OS process is a filter that copies its stdin   *)
(* to its stdout.  stderr goes the way of stdout in the code (two nodes of *)
(* one type) and is discarded here.                                        *)
(***************************************************************************)
EXTENDS Integers, Sequences

CONSTANTS NumCmds,   \* mLstExec.size()
          Sources, Sinks,  \* the kinds of source and sink a client may configure
          MaxLength, \* bound of the client's input
          PipeCap,   \* what the kernel buffers of a pipe
          Burst,     \* numBurst of autoSink() and lenReq of autoSource(), in units
          SinkSize,  \* length of the C-string sink of the last command, 0 if it has none
          Failing,   \* the commands whose read() of stdout, or waitpid(), may fail
          Quitters,  \* those whose OS process may end at any time
          Daemons    \* those that may leave a child behind which keeps stdout open

ASSUME FileExecutingAssumption ==
    /\ NumCmds \in Nat \ {0} /\ PipeCap \in Nat \ {0} /\ Burst \in Nat \ {0}
    /\ MaxLength \in Nat /\ SinkSize \in Nat
    /\ Sources \subseteq {"closed", "auto", "fd", "transfer", "manual"}
    /\ Sinks \subseteq {"discard", "auto", "fd", "manual"}
    /\ {Failing, Quitters, Daemons} \subseteq SUBSET (1 .. NumCmds)

Internals == 1 .. NumCmds
Objects   == 0 .. NumCmds
Ends      == {"inRead", "inWrite", "outRead", "outWrite"} \X Internals

VARIABLES
    source,          \* "closed", "auto" (a string), "fd", "transfer" (a Transfering()),
                     \* or "manual" (send())
    sink,            \* of the last command: "discard", "auto" (strings), "fd" (descriptors
                     \* and Transfering()s), or "manual" (read())
    length,          \* length of the input
    processed,       \* units of it that were sent
    (* of each object *)
    mState, success, canceled, mSendReady, mDone,
    (* of each internal *)
    inDone, outDone, \* mNodeIn.autoDone, mNodeOut.autoDone
    childTerminated, \* of its mpResult
    tick,            \* the object within StChildSupervise, where it is, its numBurst
    (* the kernel *)
    fds,             \* open ends: of this OS process (0) and of the one of each internal
    inData, outData, \* contents of the pipes
    child,           \* the OS processes
    hold, wrote,     \* what each has read and not written; all it has written
    (* what the sinks of the last command, or read(), got *)
    sinkBuffer, sinkString,
    reading,         \* read() of the client has got an EAGAIN and is not done with it
    torn             \* no state of the code: the internals whose stdout was closed while
                     \* more could come

clientVars == <<source, sink, length, processed>>
objVars    == <<canceled, mSendReady, mDone>>
nodeVars   == <<inDone, outDone, childTerminated>>
pipeVars   == <<inData, outData>>
childVars  == <<child, hold, wrote>>
sinkVars   == <<sinkBuffer, sinkString, reading, torn>>
vars == <<clientVars, mState, success, objVars, nodeVars, tick, fds, pipeVars, childVars, sinkVars>>

NoTick == [at |-> 0, step |-> "none", burst |-> 0]

\* write() to the stdin of k has ended this OS process.
Killed(k) == [at |-> k, step |-> "SIGPIPE", burst |-> 0]
Alive     == tick.step # "SIGPIPE"

Init ==
    /\ source = "closed" /\ sink = "discard"
    /\ length \in 0 .. MaxLength /\ processed = 0
    /\ mState = [i \in Objects |-> IF i = 0 THEN "StStart" ELSE "None"]
    /\ success = [i \in Objects |-> "Pending"]
    /\ canceled = [i \in Objects |-> FALSE]
    /\ mSendReady = [i \in Objects |-> FALSE]
    /\ mDone = [i \in Objects |-> FALSE]
    /\ inDone = [k \in Internals |-> FALSE]
    /\ outDone = [k \in Internals |-> FALSE]
    /\ childTerminated = [k \in Internals |-> FALSE]
    /\ tick = NoTick
    /\ fds = [i \in Objects |-> {}]
    /\ inData = [k \in Internals |-> <<>>] /\ outData = [k \in Internals |-> <<>>]
    /\ child = [k \in Internals |-> "None"]
    /\ hold = [k \in Internals |-> <<>>] /\ wrote = [k \in Internals |-> <<>>]
    /\ sinkBuffer = <<>> /\ sinkString = <<>> /\ reading = FALSE /\ torn = {}

IsOpen(end) == \E i \in Objects : end \in fds[i]

\* autoEnabled of mNodeIn, and autoEnabled or manualEnabled of it.
AutoSourced(k) == k = 1 /\ source \in {"auto", "fd", "transfer"}
SourceUsed(k)  == k > 1 \/ source # "closed"

\* autoEnabled of mNodeOut, and autoEnabled or manualEnabled of it; each command but the
\* last has the next one as a sink.
AutoSunk(k) == k < NumCmds \/ sink \in {"auto", "fd"}
SinkUsed(k) == k < NumCmds \/ sink # "discard"

-----------------------------------------------------------------------------
(* The configuration, that ContainerStart closes *)

\* sourceEnable() and sourceSet(): of what is set autoSource() takes the string first, a
\* descriptor before a Transfering(), and send() is refused when there is any of them.
Precedence == [closed |-> 0, manual |-> 1, transfer |-> 2, fd |-> 3, auto |-> 4]
SourceSet(kind) ==
    /\ mState[0] = "StStart" /\ Precedence[kind] > Precedence[source]
    /\ source' = kind
    /\ UNCHANGED <<sink, length, processed, mState, success, objVars, nodeVars, tick, fds, pipeVars, childVars, sinkVars>>

\* sinkEnable() and sinkAdd(): read() is refused when there is an automatic sink.  All
\* of these get the same units; sink and sinkString are those of one of them.
SinkSet(kind) ==
    /\ mState[0] = "StStart" /\ kind # "discard" /\ sink \notin {"auto", "fd"} /\ kind # sink
    /\ sink' = kind
    /\ UNCHANGED <<source, length, processed, mState, success, objVars, nodeVars, tick, fds, pipeVars, childVars, sinkVars>>

-----------------------------------------------------------------------------
(* intSend() *)

SinkIsSet(k) == mSendReady[k] /\ <<"inWrite", k>> \in fds[0]
Accepts(k)   == /\ SinkIsSet(k) /\ IsOpen(<<"inRead", k>>) /\ Len(inData[k]) < PipeCap

\* write() to a pipe no one can read ends this OS process.
Sigpipe(k) == SinkIsSet(k) /\ ~IsOpen(<<"inRead", k>>)

\* Variant: an end that does not accept is left open, to be tried again.
IntSendEndKept(k, unit) ==
    /\ inData' = IF Accepts(k) THEN [inData EXCEPT ![k] = Append(@, unit)] ELSE inData
    /\ fds' = fds

\* An error of write(), a full pipe (EAGAIN) included, closes the end for good.
IntSend(k, unit) ==
    /\ inData' = IF Accepts(k) THEN [inData EXCEPT ![k] = Append(@, unit)] ELSE inData
    /\ fds' = IF SinkIsSet(k) /\ ~Accepts(k)
              THEN [fds EXCEPT ![0] = @ \ {<<"inWrite", k>>}] ELSE fds

-----------------------------------------------------------------------------
(* The client, which may live in a thread of its own *)

ClientUp == source = "manual" /\ mSendReady[0] /\ ~mDone[0] /\ Alive

ClientSend ==
    /\ ClientUp /\ processed < length
    /\ tick' = IF Sigpipe(1) THEN Killed(1) ELSE tick
    /\ IntSend(1, processed + 1)
    /\ IF Accepts(1)
       THEN processed' = processed + 1 /\ UNCHANGED mDone
       ELSE mDone' = [mDone EXCEPT ![0] = TRUE] /\ UNCHANGED processed
    /\ UNCHANGED <<source, sink, length, mState, success, canceled, mSendReady, nodeVars, outData, childVars, sinkVars>>

ClientDone ==
    /\ ClientUp /\ processed = length
    /\ mDone' = [mDone EXCEPT ![0] = TRUE]
    /\ UNCHANGED <<clientVars, mState, success, canceled, mSendReady, nodeVars, tick, fds, pipeVars, childVars, sinkVars>>

ClientCancel ==
    /\ ~canceled[0]
    /\ canceled' = [canceled EXCEPT ![0] = TRUE]
    /\ UNCHANGED <<clientVars, mState, success, mSendReady, mDone, nodeVars, tick, fds, pipeVars, childVars, sinkVars>>

-----------------------------------------------------------------------------
(* Both kinds of objects: SystemCore ticks them one at a time; process() as *)
(* long as it is Pending and not canceled, shutdown() after that.           *)

Idle(i)     == tick.step = "none"
Working(i)  == Idle(i) /\ success[i] = "Pending" /\ ~canceled[i]
Stopping(i) == Idle(i) /\ (success[i] # "Pending" \/ canceled[i])

StateGoto(i, from, to) == mState[i] = from /\ mState' = [mState EXCEPT ![i] = to]

StatesUp == {"StStart", "StInternalStart", "StPipesCreate", "StFork", "StParentStart",
             "StSinksReadyWait", "StChildSupervise", "StContainerStart", "StInternalsSupervise"}

\* The ticks that do nothing but set mState.
StateNext(i) ==
    /\ \/ i > 0 /\ Working(i) /\ StateGoto(i, "StStart", "StInternalStart")
       \/ Working(i) /\ StateGoto(i, "StInternalStart", "StPipesCreate")
       \/ Working(i) /\ StateGoto(i, "StContainerStart", "StInternalsSupervise")
       \/ Stopping(i) /\ \E s \in StatesUp : StateGoto(i, s, "StSdStart")
       \/ Stopping(i) /\ StateGoto(i, "StSdStart", IF i > 0 THEN "StSdInternals" ELSE "StSdContainer")
       \/ Stopping(i) /\ StateGoto(i, "StSdInternals", "StSdPipesClose")
       \/ Stopping(i) /\ StateGoto(i, "StSdContainer", "StSdInternalsFree")
    /\ UNCHANGED <<clientVars, success, objVars, nodeVars, tick, fds, pipeVars, childVars, sinkVars>>

\* Without a sink the OS process writes to /dev/null: there is no end to read from.
EndsOf(k) == {end \in Ends : end[2] = k /\ (end[1] # "outRead" \/ SinkUsed(k))}
StdinOf(k) == {<<"inRead", k>>, <<"inWrite", k>>}

\* Variant: the fdClose() that is commented out in the code.
ParentKeepsNot(k) == {<<"inRead", k>>, <<"outWrite", k>>}
                        \cup IF SourceUsed(k) THEN {} ELSE {<<"inWrite", k>>}
\* What the parent closes; it keeps the read end of stdin on purpose.
ParentCloses(k) == {<<"outWrite", k>>} \cup IF SourceUsed(k) THEN {} ELSE {<<"inWrite", k>>}

\* process() returns an error: a pipe(), after those that worked, vfork(), the memory for
\* its arguments, or fileNonBlockingSet() with the OS process running.
ProcessFail(k) ==
    /\ Working(k)
    /\ \/ mState[k] = "StFork" /\ UNCHANGED fds
       \/ mState[k] = "StPipesCreate" /\ \E created \in {{}, StdinOf(k), EndsOf(k)} :
              fds' = [fds EXCEPT ![0] = @ \cup created]
       \/ mState[k] = "StParentStart" /\ fds' = [fds EXCEPT ![0] = @ \ ParentCloses(k)]
    /\ success' = [success EXCEPT ![k] = "Error"]
    /\ UNCHANGED <<clientVars, mState, objVars, nodeVars, tick, pipeVars, childVars, sinkVars>>

-----------------------------------------------------------------------------
(* The container *)

\* The client starts it when it has configured what it wants.
ContainerStart ==
    /\ Working(0) /\ mState[0] = "StStart" /\ source \in Sources /\ sink \in Sinks
    /\ mState' = [i \in Objects |-> IF i = 0 THEN "StContainerStart" ELSE "StStart"]
    /\ UNCHANGED <<clientVars, success, objVars, nodeVars, tick, fds, pipeVars, childVars, sinkVars>>

\* childrenSuccess() of SystemCore
ChildrenSuccess == IF \E k \in Internals : success[k] = "Error" THEN "Error"
                   ELSE IF \E k \in Internals : success[k] = "Pending" THEN "Pending"
                   ELSE "Positive"

InternalsSupervise ==
    /\ Working(0) /\ mState[0] = "StInternalsSupervise"
    /\ mSendReady' = [mSendReady EXCEPT ![0] = @ \/ mSendReady[1]]
    /\ mDone' = [mDone EXCEPT ![1] = @ \/ mDone[0]]
    /\ success' = [success EXCEPT ![0] = ChildrenSuccess]
    /\ UNCHANGED <<clientVars, mState, canceled, nodeVars, tick, fds, pipeVars, childVars, sinkVars>>

\* Internals that were never started are deleted, the others are SystemCore's.
InternalsFree ==
    /\ Stopping(0) /\ StateGoto(0, "StSdInternalsFree", "Finished")
    /\ UNCHANGED <<clientVars, success, objVars, nodeVars, tick, fds, pipeVars, childVars, sinkVars>>

\* SystemCore ends what a process that has ended has left running.
InternalCancel(k) ==
    /\ Idle(k) /\ mState[0] = "Finished" /\ mState[k] # "None" /\ ~canceled[k]
    /\ canceled' = [canceled EXCEPT ![k] = TRUE]
    /\ UNCHANGED <<clientVars, mState, success, mSendReady, mDone, nodeVars, tick, fds, pipeVars, childVars, sinkVars>>

-----------------------------------------------------------------------------
(* An internal, up to its supervision *)

PipesCreate(k) ==
    /\ Working(k) /\ StateGoto(k, "StPipesCreate", "StFork")
    /\ fds' = [fds EXCEPT ![0] = @ \cup EndsOf(k)]
    /\ UNCHANGED <<clientVars, success, objVars, nodeVars, tick, pipeVars, childVars, sinkVars>>

\* What is open after dup2() and closefromInternal(3).
ChildEnds(k) == {<<"inRead", k>>, <<"outWrite", k>>}

Fork(k) ==
    /\ Working(k) /\ StateGoto(k, "StFork", "StParentStart")
    /\ child' = [child EXCEPT ![k] = "Running"]
    /\ fds' = [fds EXCEPT ![k] = ChildEnds(k)]
    /\ UNCHANGED <<clientVars, success, objVars, nodeVars, tick, pipeVars, hold, wrote, sinkVars>>

ParentStart(k) ==
    /\ Working(k) /\ StateGoto(k, "StParentStart", "StSinksReadyWait")
    /\ fds' = [fds EXCEPT ![0] = @ \ ParentCloses(k)]
    /\ mSendReady' = [mSendReady EXCEPT ![k] = TRUE]
    /\ UNCHANGED <<clientVars, success, canceled, mDone, nodeVars, tick, pipeVars, childVars, sinkVars>>

SinksReadyUnasked(k) == TRUE      \* variant: the internals do not wait for each other
SinksReadyBusy(k) == \A j \in Internals \ {k} : mState[j] = "StChildSupervise"    \* variant
SinksReady(k) == k < NumCmds => mSendReady[k + 1]

SinksReadyWait(k) ==
    /\ Working(k) /\ SinksReady(k) /\ StateGoto(k, "StSinksReadyWait", "StChildSupervise")
    /\ UNCHANGED <<clientVars, success, objVars, nodeVars, tick, fds, pipeVars, childVars, sinkVars>>

-----------------------------------------------------------------------------
(* An internal in StChildSupervise: one tick is autoSourceDone(), autoSource(), *)
(* autoSink() and childStateRecord(), with the OS processes going on meanwhile. *)

At(k, step) == tick.at = k /\ tick.step = step
GotoStep(step) == tick' = [tick EXCEPT !.step = step]

SupervisionStart(k) ==
    /\ Working(k) /\ mState[k] = "StChildSupervise"
    /\ tick' = [at |-> k, step |-> "source", burst |-> Burst]
    /\ inDone' = [inDone EXCEPT ![k] = @ \/ mDone[k]]
    /\ fds' = IF mDone[k] /\ ~inDone[k]
              THEN [fds EXCEPT ![0] = @ \ {<<"inWrite", k>>}] ELSE fds
    /\ UNCHANGED <<clientVars, mState, success, objVars, outDone, childTerminated, pipeVars, childVars, sinkVars>>

\* The next chunk of the string.  The last one, or one that is not accepted, ends it.
AutoSource(k) ==
    /\ At(k, "source") /\ AutoSourced(k) /\ source = "auto" /\ ~inDone[k]
    /\ IF processed < length /\ Sigpipe(k) THEN tick' = Killed(k) ELSE GotoStep("sink")
    /\ LET sent == processed < length /\ Accepts(k)
           ends == ~sent \/ processed + 1 = length
       IN  /\ processed' = IF sent THEN processed + 1 ELSE processed
           /\ inData' = IF sent THEN [inData EXCEPT ![k] = Append(@, processed + 1)] ELSE inData
           /\ fds' = IF ends THEN [fds EXCEPT ![0] = @ \ {<<"inWrite", k>>}] ELSE fds
           /\ inDone' = [inDone EXCEPT ![k] = ends]
           /\ mDone' = [mDone EXCEPT ![k] = @ \/ ends]
    /\ UNCHANGED <<source, sink, length, mState, success, canceled, mSendReady, outDone, childTerminated, outData, childVars, sinkVars>>

\* A turn of the loop that reads a descriptor or a Transfering().  Both end with their last
\* unit or an error of send(), a descriptor also when it has nothing to read for now
\* (EAGAIN), or fails; a Transfering() without data is asked again in the next tick.
AutoSourceRead(k) ==
    /\ At(k, "source") /\ AutoSourced(k) /\ source # "auto" /\ ~inDone[k]
    /\ \/ /\ source = "transfer"
          /\ tick' = [tick EXCEPT !.step = "sink", !.burst = Burst]
          /\ UNCHANGED <<processed, inData, fds, inDone, mDone>>
       \/ /\ processed < length /\ Accepts(k)
          /\ tick' = IF tick.burst > 1 THEN [tick EXCEPT !.burst = @ - 1]
                     ELSE [tick EXCEPT !.step = "sink", !.burst = Burst]
          /\ processed' = processed + 1
          /\ inData' = [inData EXCEPT ![k] = Append(@, processed + 1)]
          /\ UNCHANGED <<fds, inDone, mDone>>
       \/ /\ \/ /\ source = "fd" \/ processed = length
                /\ tick' = [tick EXCEPT !.step = "sink", !.burst = Burst]
             \/ /\ processed < length /\ ~Accepts(k)
                /\ tick' = IF Sigpipe(k) THEN Killed(k)
                           ELSE [tick EXCEPT !.step = "sink", !.burst = Burst]
          /\ fds' = [fds EXCEPT ![0] = @ \ {<<"inWrite", k>>}]
          /\ inDone' = [inDone EXCEPT ![k] = TRUE]
          /\ mDone' = [mDone EXCEPT ![k] = TRUE]
          /\ UNCHANGED <<processed, inData>>
    /\ UNCHANGED <<source, sink, length, mState, success, canceled, mSendReady, outDone, childTerminated, outData, childVars, sinkVars>>

AutoSourceNone(k) ==
    /\ At(k, "source") /\ (~AutoSourced(k) \/ inDone[k])
    /\ GotoStep("sink")
    /\ UNCHANGED <<clientVars, mState, success, objVars, nodeVars, fds, pipeVars, childVars, sinkVars>>

OutHead(k) == Head(outData[k])
Sinking(k) == At(k, "sink") /\ AutoSunk(k) /\ ~outDone[k] /\ tick.burst > 0
SinkTakes(k) == /\ outData' = [outData EXCEPT ![k] = Tail(@)]
                /\ UNCHANGED <<source, sink, length, processed, mState, success, canceled, nodeVars, childVars, reading, torn>>

\* One turn of the loop: the unit goes to the next internal; what its send() returns
\* is not looked at.
SinkToNext(k) ==
    /\ Sinking(k) /\ outData[k] # <<>> /\ k < NumCmds
    /\ tick' = IF Sigpipe(k + 1) THEN Killed(k + 1) ELSE [tick EXCEPT !.burst = @ - 1]
    /\ IntSend(k + 1, OutHead(k))
    /\ SinkTakes(k) /\ UNCHANGED <<mSendReady, mDone, sinkBuffer, sinkString>>

\* The same at the end of the chain: a C-string that is not full yet takes the unit
\* and ends the tick's loop, the C++ string is served after it.
SinkToStrings(k) ==
    /\ Sinking(k) /\ outData[k] # <<>> /\ k = NumCmds /\ sink = "auto"
    /\ LET room   == Len(sinkBuffer) < SinkSize
           unfilled == Len(sinkBuffer) + 1 < SinkSize
       IN  /\ sinkBuffer' = IF room THEN Append(sinkBuffer, OutHead(k)) ELSE sinkBuffer
           /\ sinkString' = IF unfilled THEN sinkString ELSE Append(sinkString, OutHead(k))
           /\ tick' = IF unfilled THEN [tick EXCEPT !.step = "record"]
                      ELSE [tick EXCEPT !.burst = @ - 1]
    /\ SinkTakes(k) /\ UNCHANGED <<mSendReady, mDone, fds, inData>>

\* A descriptor or a Transfering() may not take what it is given: neither the result of
\* write() nor that of send() is looked at.
SinkToFds(k) ==
    /\ Sinking(k) /\ outData[k] # <<>> /\ k = NumCmds /\ sink = "fd"
    /\ sinkString' \in {sinkString, Append(sinkString, OutHead(k))}
    /\ tick' = [tick EXCEPT !.burst = @ - 1]
    /\ SinkTakes(k) /\ UNCHANGED <<mSendReady, mDone, fds, inData, sinkBuffer>>

AtEofUnasked(k) == TRUE                             \* variant: EAGAIN is taken for the end
\* No one can write any more, or the child is gone and what is left open is not its own.
AtEof(k) == ~IsOpen(<<"outWrite", k>>) \/ childTerminated[k]

\* Nothing more to read for this tick.
SinkEnd(k) ==
    /\ At(k, "sink")
    /\ ~AutoSunk(k) \/ outDone[k] \/ tick.burst = 0 \/ (outData[k] = <<>> /\ ~AtEof(k))
    /\ GotoStep("record")
    /\ UNCHANGED <<clientVars, mState, success, objVars, nodeVars, fds, pipeVars, childVars, sinkVars>>

\* The pipe is read to its end, or read() fails, which is taken for the end.
SinkEof(k) ==
    /\ Sinking(k)
    /\ \/ outData[k] = <<>> /\ AtEof(k) /\ UNCHANGED torn
       \/ k \in Failing /\ torn' = torn \cup {k}
    /\ GotoStep("record")
    /\ fds' = [fds EXCEPT ![0] = @ \ {<<"outRead", k>>}]
    /\ outDone' = [outDone EXCEPT ![k] = TRUE]
    /\ mDone' = IF k < NumCmds THEN [mDone EXCEPT ![k + 1] = TRUE] ELSE mDone
    /\ UNCHANGED <<clientVars, mState, success, canceled, mSendReady, inDone, childTerminated, pipeVars, childVars, sinkBuffer, sinkString, reading>>

(* read() of the client, from its own thread, with mMtxRead locked.  The internal's tick *)
(* records waitpid(), and shutdown() closes the pipe, without that mutex.                 *)

ReadOpen == sink = "manual" /\ mSendReady[NumCmds] /\ <<"outRead", NumCmds>> \in fds[0]

\* ::read() has a unit, the end of the pipe, an error, or EAGAIN.
ClientRead ==
    LET k == NumCmds IN
    /\ ReadOpen /\ ~reading /\ Alive
    /\ \/ /\ outData[k] # <<>>
          /\ outData' = [outData EXCEPT ![k] = Tail(@)]
          /\ sinkString' = Append(sinkString, OutHead(k))
          /\ UNCHANGED <<fds, reading, torn>>
       \/ /\ outData[k] = <<>> /\ ~IsOpen(<<"outWrite", k>>)
          /\ fds' = [fds EXCEPT ![0] = @ \ {<<"outRead", k>>}]
          /\ UNCHANGED <<outData, sinkString, reading, torn>>
       \/ /\ k \in Failing
          /\ fds' = [fds EXCEPT ![0] = @ \ {<<"outRead", k>>}]
          /\ torn' = torn \cup {k}
          /\ UNCHANGED <<outData, sinkString, reading>>
       \/ /\ outData[k] = <<>> /\ IsOpen(<<"outWrite", k>>)
          /\ reading' = TRUE
          /\ UNCHANGED <<fds, outData, sinkString, torn>>
    /\ UNCHANGED <<clientVars, mState, success, objVars, nodeVars, tick, inData, childVars, sinkBuffer>>

\* After an EAGAIN the pipe is closed if the OS process has terminated by now, be it that
\* it has written something meanwhile.
ClientReadAgain ==
    LET k == NumCmds IN
    /\ reading /\ Alive /\ reading' = FALSE
    /\ IF childTerminated[k] /\ <<"outRead", k>> \in fds[0]
       THEN /\ fds' = [fds EXCEPT ![0] = @ \ {<<"outRead", k>>}]
            /\ torn' = IF outData[k] = <<>> THEN torn ELSE torn \cup {k}
       ELSE UNCHANGED <<fds, torn>>
    /\ UNCHANGED <<clientVars, mState, success, objVars, nodeVars, tick, pipeVars, childVars, sinkBuffer, sinkString>>

SuperviseDoneUnread(k) == childTerminated'[k]    \* variant: the pipe is not asked
SuperviseDone(k) == childTerminated'[k] /\ <<"outRead", k>> \notin fds[0]

\* waitpid() and what process() makes of it.
ChildStateRecord(k) ==
    /\ At(k, "record")
    /\ tick' = NoTick
    /\ childTerminated' = [childTerminated EXCEPT ![k] = @ \/ child[k] = "Exited"]
    /\ child' = [child EXCEPT ![k] = IF @ = "Exited" THEN "Reaped" ELSE @]
    /\ success' = [success EXCEPT ![k] = IF SuperviseDone(k) THEN "Positive" ELSE @]
    /\ UNCHANGED <<clientVars, mState, objVars, inDone, outDone, fds, pipeVars, hold, wrote, sinkVars>>

\* waitpid() fails: process() returns an error.
WaitFail(k) ==
    /\ At(k, "record") /\ ~childTerminated[k] /\ k \in Failing
    /\ tick' = NoTick
    /\ success' = [success EXCEPT ![k] = "Error"]
    /\ UNCHANGED <<clientVars, mState, objVars, nodeVars, fds, pipeVars, childVars, sinkVars>>

PipesCloseOut(k) == fds' = [fds EXCEPT ![0] = @ \ {<<"outRead", k>>, <<"outWrite", k>>}]  \* variant
PipesClose(k) == fds' = [fds EXCEPT ![0] = @ \ EndsOf(k)]

\* shutdown(): the OS process, if there is one, is left to itself.  The read end of stdin
\* goes first, and not under mMtxWrite: a send() may come before the write end goes.
PipesCloseStart(k) ==
    /\ Stopping(k) /\ mState[k] = "StSdPipesClose"
    /\ tick' = [at |-> k, step |-> "close", burst |-> 0]
    /\ fds' = [fds EXCEPT ![0] = @ \ {<<"inRead", k>>}]
    /\ UNCHANGED <<clientVars, mState, success, objVars, nodeVars, pipeVars, childVars, sinkVars>>

PipesCloseTick(k) ==
    /\ At(k, "close") /\ StateGoto(k, "StSdPipesClose", "Finished")
    /\ tick' = NoTick
    /\ PipesClose(k)
    /\ UNCHANGED <<clientVars, success, objVars, nodeVars, pipeVars, childVars, sinkVars>>

-----------------------------------------------------------------------------
(* The OS process of an internal *)

Runs(k) == child[k] = "Running"

ChildRead(k) ==
    /\ Runs(k) /\ hold[k] = <<>> /\ inData[k] # <<>>
    /\ hold' = [hold EXCEPT ![k] = <<Head(inData[k])>>]
    /\ inData' = [inData EXCEPT ![k] = Tail(@)]
    /\ UNCHANGED <<clientVars, mState, success, objVars, nodeVars, tick, fds, outData, child, wrote, sinkVars>>

ChildWrite(k) ==
    /\ Runs(k) /\ hold[k] # <<>>
    /\ IF SinkUsed(k) THEN /\ IsOpen(<<"outRead", k>>) /\ Len(outData[k]) < PipeCap
                           /\ outData' = [outData EXCEPT ![k] = @ \o hold[k]]
                      ELSE UNCHANGED outData
    /\ wrote' = [wrote EXCEPT ![k] = @ \o hold[k]]
    /\ hold' = [hold EXCEPT ![k] = <<>>]
    /\ UNCHANGED <<clientVars, mState, success, objVars, nodeVars, tick, fds, inData, child, sinkVars>>

ChildExit(k) ==
    /\ Runs(k) /\ child' = [child EXCEPT ![k] = "Exited"]
    /\ \/ fds' = [fds EXCEPT ![k] = {}]
       \/ k \in Daemons /\ fds' = [fds EXCEPT ![k] = @ \cap {<<"outWrite", k>>}]
    /\ UNCHANGED <<clientVars, mState, success, objVars, nodeVars, tick, pipeVars, hold, wrote, sinkVars>>

\* At the end of its input, or because no one reads what it writes.
ChildEnd(k) == /\ \/ hold[k] = <<>> /\ inData[k] = <<>> /\ ~IsOpen(<<"inWrite", k>>)
                  \/ hold[k] # <<>> /\ SinkUsed(k) /\ ~IsOpen(<<"outRead", k>>)
               /\ ChildExit(k)

\* At any time: it has read enough, it fails, it is killed, its program does not exist.
ChildQuit(k) == k \in Quitters /\ ChildExit(k)

-----------------------------------------------------------------------------
Configure == \/ \E kind \in Sources : SourceSet(kind)
             \/ \E kind \in Sinks : SinkSet(kind)

Client == ClientSend \/ ClientDone

Container == ContainerStart \/ InternalsSupervise \/ InternalsFree

InternalTick(k) == \/ ProcessFail(k) \/ PipesCreate(k) \/ Fork(k) \/ ParentStart(k)
                   \/ SinksReadyWait(k) \/ SupervisionStart(k) \/ PipesCloseStart(k)

Supervision(k) == \/ AutoSource(k) \/ AutoSourceRead(k) \/ AutoSourceNone(k)
                  \/ SinkToNext(k) \/ SinkToStrings(k) \/ SinkToFds(k) \/ SinkEnd(k) \/ SinkEof(k)
                  \/ ChildStateRecord(k) \/ WaitFail(k) \/ PipesCloseTick(k)

Child(k) == ChildRead(k) \/ ChildWrite(k) \/ ChildEnd(k)

Next == \/ Client \/ ClientRead \/ ClientReadAgain \/ ClientCancel
        \/ Configure
        \/ Container
        \/ \E i \in Objects : StateNext(i)
        \/ \E k \in Internals : \/ InternalTick(k) \/ Supervision(k) \/ InternalCancel(k)
                                \/ Child(k) \/ ChildQuit(k)

Spec == Init /\ [][Next]_vars

(* The driver ticks every object over and over; between two ticks of one object  *)
(* the others have theirs, hence the strong fairness.  The client starts what it *)
(* has configured, sends what it has and says when it is done, and reads if it   *)
(* said it would; a filter reads, writes and ends with its input.                *)
Fairness ==
    /\ WF_vars(Configure) /\ WF_vars(Client) /\ WF_vars(ClientRead \/ ClientReadAgain)
    /\ SF_vars(Container \/ StateNext(0))
    /\ \A k \in Internals : /\ SF_vars(InternalTick(k) \/ StateNext(k))
                            /\ WF_vars(Supervision(k))
                            /\ WF_vars(Child(k))

FairSpec == Spec /\ Fairness
=============================================================================
