------------------------- MODULE FileExecutingProps -------------------------
(* What a chain of commands owes its client, whatever the OS processes do. *)
EXTENDS FileExecuting, SequencesExt

Input == [n \in 1 .. (IF source = "closed" THEN 0 ELSE length) |-> n]

\* All that has gone into the stdin of an OS process, and what has come out of one.
Received(k) == wrote[k] \o hold[k] \o inData[k]
Upstream(k) == IF k = 1 THEN Input ELSE wrote[k - 1]

\* Whatever is cut off by a full pipe or an OS process that ends early is cut off at
\* the end: intSend() closes the pipe it could not write to, so no OS process, no string
\* and no caller of read() ever sees a stream with a hole, or with two units swapped.  A
\* descriptor or a Transfering() as sink may: what it does not take is not kept for it.
NoHoles ==
    /\ \A k \in Internals : IsPrefix(Received(k), Upstream(k))
    /\ SinkSize = 0 /\ sink # "fd" => IsPrefix(sinkString, wrote[NumCmds])

\* An internal whose process() returned Positive has reaped its OS process and has
\* read all it ever wrote: the state is recorded after the pipe was read, and the
\* pipe is read to its end after that.  Two ways to lose the rest remain, and torn says
\* which internals they have met: a read() that fails, and a read() of the client that
\* has got its EAGAIN before the last output and asks for the OS process after its end.
OutputTaken ==
    \A k \in Internals : success[k] = "Positive" /\ k \notin torn =>
        /\ child[k] = "Reaped" /\ outData[k] = <<>>
        /\ k = NumCmds /\ sink \in {"auto", "manual"} /\ SinkSize = 0 => sinkString = wrote[k]

\* autoSink() reports the end of a stream to the next internal only when nothing can
\* come any more, or a read() has failed: an EAGAIN of a slow OS process is not taken
\* for its end.
DoneIsFinal ==
    \A k \in Internals : k < NumCmds /\ mDone[k + 1] /\ k \notin torn =>
        outData[k] = <<>> /\ child[k] \in {"Exited", "Reaped"}

\* StParentStart keeps the read end of stdin: "Child process may be terminated before
\* internal send()", and still no write() finds a pipe without a reader, but for the
\* client's own send() that comes while shutdown() is between the two ends of the pipe.
NoSigpipe ==
    ~Alive => tick.at = 1 /\ source = "manual" /\ mState[1] = "StSdPipesClose"

\* However far an internal got, pipe() having failed half way or a cancel having come
\* in any state, its shutdown() leaves no end of its pipes open in this OS process.
PipesReleased ==
    \A k \in Internals : mState[k] = "Finished" => \A end \in fds[0] : end[2] # k

\* The client has its whole input at the other end once success() is Positive, if each
\* OS process reads to the end, the pipes can hold what is under way and no pipe was torn.
WholeInput ==
    success[0] = "Positive" /\ sink \in {"auto", "manual"} /\ torn = {} => sinkString = Input

\* The chain comes to an end: each end of input reaches the next OS process, which
\* takes that no other process was left with a copy of the write end.
Terminates == <>(mState[0] = "Finished")

-----------------------------------------------------------------------------
(* What the manual says *)

\* FileExecuting.md:189: "This means that the output of one OS process is passed as
\* input to the next OS process."
ChainIsLossless ==
    success[0] = "Positive" /\ NumCmds > 1 => \A k \in 2 .. NumCmds : wrote[k] = wrote[k - 1]

=============================================================================
