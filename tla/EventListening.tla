--------------------------- MODULE EventListening ---------------------------
(***************************************************************************)
(* EventListening.cpp: a process that takes TCP connections, reads one     *)
(* message from each and keeps it in the static map mEvents until a client *)
(* asks for it with pop().                                                 *)
(*                                                                         *)
(* A tick of the listener is a sequence of steps: accept, the timeouts of  *)
(* the connections, one step per connection that is read, one per event    *)
(* that is looked at.  Time and peers go on between them, and so do the    *)
(* calls of pop() when the clients are other threads.  The listener is     *)
(* ticked at least every Period.                                           *)
(***************************************************************************)
EXTENDS Integers, Sequences, FiniteSets, SequencesExt, FiniteSetsExt

CONSTANTS Fds,             \* file descriptors the system gives to connections
          Refs,            \* message references: numbers, for the order of the map
          Word,            \* 2^32, the range of millis()
          DataMax,         \* cMsDelayDataMax
          DequeueMax,      \* cMsDelayDequeueMax
          OpenMax,         \* cNumOpenConnsMax
          Period,          \* the listener is ticked at least that often
          ClientThreads    \* pop() is called from other threads than the listener's

ASSUME EventAssumption ==
    /\ Refs \subseteq Nat /\ Word \in Nat
    /\ DataMax \in Nat /\ DequeueMax \in Nat /\ OpenMax \in Nat /\ Period \in Nat
    /\ DataMax + 2 * Period < Word /\ DequeueMax + 2 * Period < Word
    /\ ClientThreads \in BOOLEAN

VARIABLES clock,       \* millis()
          late,        \* since the last tick began
          pending,     \* ppPeerFd: the accepted sockets TcpListening has handed over
          conns,       \* mConnsOpen: [fd, start]
          data,        \* what the peer of a socket has sent and nobody read
          events,      \* mEvents: the time of enqueueing, or None
          pc, pos,     \* where the tick is; the connection that is read next
          now, iter,   \* curTimeMs and iter of dequeueTimeoutsCheck()
          broken,      \* the process has used what is not there
          inTime       \* the data of the socket came early enough to be read

peers   == <<pending, data, inTime>>
loop    == <<now, iter>>
vars    == <<clock, late, pending, conns, data, events, pc, pos, now, iter, broken, inTime>>

None == -1
End  == -1          \* mEvents.end(); the references are natural numbers

Nothing == -1
Junk    == -2        \* no JSON, no refMsg, a part of a message only, or the peer has closed
Data    == {Nothing, Junk} \cup Refs

Init ==
    /\ clock = 0 /\ late = 0
    /\ pending = <<>> /\ conns = <<>>
    /\ data = [fd \in Fds |-> Nothing] /\ inTime = [fd \in Fds |-> FALSE]
    /\ events = [ref \in Refs |-> None]
    /\ pc = "start" /\ pos = 1
    /\ now = 0 /\ iter = End
    /\ broken = "no"

\* The difference of two readings of the clock, which may have wrapped in between.
Elapsed(from, to) == IF from <= to THEN to - from ELSE to - from + Word
Age(start) == Elapsed(start, clock)

Held       == {conns[i].fd : i \in DOMAIN conns}
Open       == Range(pending) \cup Held
Start(fd)  == (CHOOSE c \in Range(conns) : c.fd = fd).start
Queued     == {ref \in Refs : events[ref] # None}

\* The event at which an iteration that has passed ref goes on.
Next1(ref) == LET after == {r \in Queued : r > ref} IN IF after = {} THEN End ELSE Min(after)

\* Sockets that are closed: what was sent there is gone.
Closed(fds) == /\ data' = [fd \in Fds |-> IF fd \in fds THEN Nothing ELSE data[fd]]
               /\ inTime' = [fd \in Fds |-> inTime[fd] /\ fd \notin fds]

-----------------------------------------------------------------------------
(* Peers and time *)

Connect ==
    /\ \E fd \in Fds \ Open : pending' = Append(pending, fd)
    /\ UNCHANGED <<clock, late, conns, data, events, pc, pos, loop, broken, inTime>>

\* A socket that is not accepted yet is as good as one that has just been.
Send ==
    \E fd \in Open, d \in Data \ {Nothing} :
        /\ data[fd] = Nothing
        /\ data' = [data EXCEPT ![fd] = d]
        /\ inTime' = [inTime EXCEPT ![fd] =
               fd \in Held => Age(Start(fd)) + 2 * Period < DataMax]
        /\ UNCHANGED <<clock, late, pending, conns, events, pc, pos, loop, broken>>

Advance ==
    /\ late < Period /\ broken = "no"
    /\ clock' = IF clock = Word - 1 THEN 0 ELSE clock + 1
    /\ late' = late + 1
    /\ UNCHANGED <<peers, conns, events, pc, pos, loop, broken>>

-----------------------------------------------------------------------------
(* The tick *)

\* StStart: a listener that could not be allocated is logged, and used all the same (80-83).
StartListening ==
    /\ pc = "start"
    /\ \/ pc' = "idle" /\ UNCHANGED broken
       \/ pc' = "broken" /\ broken' = "null"
    /\ late' = 0
    /\ UNCHANGED <<clock, peers, conns, events, pos, loop>>

\* connectionsAccept(): one connection per tick.  It is dropped when there are too many or
\* no memory for its process.
ConnectionsAcceptAny ==                                                      \* variant
    /\ pc = "idle"
    /\ pc' = "timeouts" /\ late' = 0
    /\ IF pending = <<>>
       THEN UNCHANGED <<peers, conns>>
       ELSE /\ pending' = Tail(pending)
            /\ conns' = Append(conns, [fd |-> Head(pending), start |-> clock])
            /\ UNCHANGED <<data, inTime>>
    /\ UNCHANGED <<clock, events, pos, loop, broken>>
ConnectionsAccept ==
    /\ pc = "idle"
    /\ pc' = "timeouts" /\ late' = 0
    /\ IF pending = <<>>
       THEN UNCHANGED <<peers, conns>>
       ELSE /\ pending' = Tail(pending)
            /\ \/ /\ Len(conns) < OpenMax
                  /\ conns' = Append(conns, [fd |-> Head(pending), start |-> clock])
                  /\ UNCHANGED <<data, inTime>>
               \/ UNCHANGED conns /\ Closed({Head(pending)})
    /\ UNCHANGED <<clock, events, pos, loop, broken>>

\* dataTimeoutsCheck().
DueAbs(start, max) == clock >= start + max                                   \* variant
DueSum(start, max) == clock >= (start + max) % Word                          \* variant
Due(start, max)    == Age(start) >= max

\* What is left of the list is in its old order.
DataTimeoutsCheck ==
    LET young == {i \in DOMAIN conns : ~Due(conns[i].start, DataMax)}
    IN /\ pc = "timeouts"
       /\ \E at \in [1 .. Cardinality(young) -> young] :
             /\ Range(at) = young
             /\ \A i, j \in DOMAIN at : i < j => at[i] < at[j]
             /\ conns' = [i \in DOMAIN at |-> conns[at[i]]]
       /\ Closed({conns[i].fd : i \in DOMAIN conns \ young})
       /\ pc' = "receive" /\ pos' = 1
       /\ UNCHANGED <<clock, late, pending, events, loop, broken>>

\* dataReceive() and msgEnqueue() for one connection: whatever was read, one read is all
\* there is.  An event with the same reference is replaced.
MsgEnqueue ==
    /\ pc = "receive" /\ pos <= Len(conns)
    /\ LET fd == conns[pos].fd
       IN IF data[fd] = Nothing
          THEN pos' = pos + 1 /\ UNCHANGED <<conns, data, events, inTime>>
          ELSE /\ events' = IF data[fd] \in Refs THEN [events EXCEPT ![data[fd]] = clock] ELSE events
               /\ conns' = RemoveAt(conns, pos)
               /\ Closed({fd})
               /\ UNCHANGED pos
    /\ UNCHANGED <<clock, late, pending, pc, loop, broken>>

\* Variant: the loop over the connections ends when none is left.
DequeueStartEmpty ==
    /\ pc = "receive" /\ conns = <<>>
    /\ pc' = "dequeue" /\ pos' = 1
    /\ now' = clock
    /\ iter' = Next1(End)
    /\ UNCHANGED <<clock, late, peers, conns, events, broken>>

\* dequeueTimeoutsCheck() begins.
DequeueStart ==
    /\ pc = "receive" /\ pos > Len(conns)
    /\ pc' = "dequeue" /\ pos' = 1
    /\ now' = clock
    /\ iter' = Next1(End)
    /\ UNCHANGED <<clock, late, peers, conns, events, broken>>

\* A turn of its loop, without mMtxEvents: an event that was taken away in the meantime is
\* read, and the map is walked on from it.
DequeueTurn ==
    /\ pc = "dequeue" /\ iter # End
    /\ IF events[iter] = None
       THEN broken' = "iter" /\ pc' = "broken" /\ UNCHANGED <<events, iter>>
       ELSE /\ events' = IF Elapsed(events[iter], now) >= DequeueMax
                         THEN [events EXCEPT ![iter] = None] ELSE events
            /\ iter' = Next1(iter)
            /\ UNCHANGED <<broken, pc>>
    /\ UNCHANGED <<clock, late, peers, conns, pos, now>>
DequeueDone ==
    /\ pc = "dequeue" /\ iter = End
    /\ pc' = "idle"
    /\ UNCHANGED <<clock, late, peers, conns, events, pos, loop, broken>>

Tick == ConnectionsAccept \/ DataTimeoutsCheck \/ MsgEnqueue
        \/ DequeueStart \/ DequeueTurn \/ DequeueDone

-----------------------------------------------------------------------------
\* pop(): with the lock, and between the ticks when the client belongs to the same thread.
Pop(ref) ==
    /\ broken = "no"
    /\ ClientThreads \/ pc = "idle"
    /\ events[ref] # None
    /\ events' = [events EXCEPT ![ref] = None]
    /\ UNCHANGED <<clock, late, peers, conns, pc, pos, loop, broken>>

Next == Connect \/ Send \/ Advance \/ StartListening \/ Tick \/ \E ref \in Refs : Pop(ref)

\* The scheduler ticks the listener, and time passes; peers and clients may do nothing.
Spec == Init /\ [][Next]_vars /\ WF_vars(Tick) /\ WF_vars(Advance)

-----------------------------------------------------------------------------

\* Every socket is somewhere exactly once, so it is closed once and not forgotten, and there
\* are never more connections than cNumOpenConnsMax.
SocketsAccounted ==
    /\ Len(conns) <= OpenMax
    /\ Len(pending) + Len(conns) = Cardinality(Open)
    /\ \A fd \in Fds \ Open : data[fd] = Nothing

\* Over any wrap of millis(): no connection is kept longer than the data timeout and two
\* ticks, and no client is given an event older than the dequeue timeout and two ticks.
\* (Nothing is said once the listener has used an iterator to what pop() took away.)
NothingStale ==
    pc # "broken" =>
        /\ \A c \in Range(conns) : Age(c.start) <= DataMax + 2 * Period
        /\ \A ref \in Queued : Age(events[ref]) <= DequeueMax + 2 * Period

\* A connection whose data came two ticks before its timeout is not dropped for it, although
\* the timeouts are looked at before the data (100-101); and no event is dropped before its
\* time.
NothingDroppedEarly == [][
    /\ \A fd \in Held : pc = "timeouts" /\ inTime[fd] => fd \in {c.fd : c \in Range(conns')}
    /\ \A ref \in Queued : pc = "dequeue" /\ pc' = pc /\ events'[ref] = None
           => Age(events[ref]) >= DequeueMax \/ Pop(ref)
  ]_vars

\* Every connection ends, with or without a message: nobody waits for ever for its answer.
ConnsEnd == \A fd \in Fds : fd \in Held ~> fd \notin Held \/ broken # "no"
=============================================================================
