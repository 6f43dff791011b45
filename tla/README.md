# LibNaegCommon in TLA+

LibNaegCommon (this repository) is a library of *processes* for SystemCore: objects with a `process()`
that a driver (a thread) calls once per tick until it returns something else than `Pending`, and a
`shutdown()` that is called after that, or after a cancel, until it is done. Processes start other
processes as their children; a child is ticked by its parent's thread, by a thread of its own or by a
pool. SystemCore itself (`Processing`, `Pipe`, `Transfering`, `TcpListening`) is not part of the
repository; the models take from it what the code relies on and `PROJECT.json` marks those definitions
as external.

This directory holds models of the parts of the library in which more than one thread, OS process or
callback takes part, TLC configurations that check them on small instances, and proofs that TLAPS checks
for every instance.

## 1. Inventory

| Component | State | Operations | Interacts with | What is hard | What makes it correct |
|---|---|---|---|---|---|
| ThreadPooling | broker: states, `mVecInternals`, `mCntInternals`; worker: `mListProcsReq`, `mListProcs`, `mNumProcessing`; static pipe `ppPoolRequests` | `procAdd`, `process`, `shutdown` of both kinds, `poolRequestsProcess`, `idDriverNextGet`, `procInternalAdd`, `procsDrive` | clients in any thread, one thread per worker | every step interleaves; loads are read one by one; shutdown meets late requests | no process is lost or driven twice; loads are right and balanced; workers and pool stop drained |
| FileExecuting | container and one internal per command: `mState`, pipes, `mDone`, `mSendReady`, `FeResult`, source and sinks | setters, `process`, `shutdown`, `autoSource`, `autoSink`, `send`, `sinkRead`, `childStateRecord`, `sigSend`, getters | OS processes through pipes and `waitpid`, client's `send()` | OS processes run, block and die at any time; full pipes; end of streams; who holds which descriptor | the output of a command is complete when it succeeds; streams have no holes; ends are passed on; no SIGPIPE; no leak |
| LibFilesys, flags | lock file descriptor, flag files, `UserLocks` of each requester | `lockDirDefaultOpen/Close`, `sysFlagsLock`, `sysFlagsUnlock` | other OS processes through files and `flock()` | several system calls per request, crashes, threads that share a descriptor | a flag has one owner; all flags of a request or none; what is released is free |
| HttpRequesting | curl easy handle, static multi handle, `mDoneCurl` | configure, bind, `multiProcess`, unbind, `shutdown` | all other requests of all threads | whoever ticks completes the requests of the others | a handle is freed once; a result belongs to its request; cancel races completion |
| DnsResolving | c-ares channel, `mDoneAres`, lists of addresses | start, `aresProcess`, callback, `shutdown` | c-ares callbacks | callbacks within the start and within the shutdown | a lookup that succeeded is Positive |
| EventListening | connections, map of events | accept, receive, timeouts, `pop` by clients | TCP peers, clients in other threads | map shared with clients, timeouts against late data | an event is delivered once or dropped for its age |
| MailSending | as HttpRequesting | process, `multiProcess` | all mails of all threads | no `shutdown()`: a timeout destroys what the multi handle still knows | no use after the end |
| ListIdx | window, size, cursor, offset (32 bit) | resize, move, insert, erase | TextBox, menus | arithmetic at the boundaries | cursor within window and list |
| TextBox | text, cursor, selection on a ListIdx | keys, replace, resize | Widget, KeyUser | long sequences of keys | cursor and selection within the text |
| EspLedPulsing, MsWaiting | timers, burst counters | process, setters | clock of 32 bit | wrap, changes in the middle of a burst | number and order of pulses |
| LibDspc | flags of curl's and c-ares' global initialisation; string helpers | init, deinit, `urlToParts`, `typeIp` | every user of the libraries | several threads initialise | initialised once |
| LibFilesys (files), LibTime, LibDriverPlatform, JsonProcessing, KeyUser, KeyFiltering, Widget, Res, TclapOutput, PhyAnimating | none, or attributes only | wrappers, formatting, drawing | - | - | not modelled |

`PROJECT.json` lists each hazard of these components at the line where it bites.

## 2. Plan

The order in which the parts were modelled, those with the most concurrency first:

1. `ProcessPool` (abstract), `ThreadPooling`, its refinement and its proofs.
2. `FileExecuting`, the chain of commands, and its proofs.
3. `FlagOwners` (abstract), `SysFlags`, its refinement and its proofs.
4. `HttpRequesting` and its proofs.
5. `ListIdx`, `TextBox` on top of it, and the proofs of both.
6. `EventListening` and its proofs: connections and the event map, a clock that wraps.
7. `DnsResolving` and its proofs: c-ares calls back in the start, in a tick or in the shutdown.
8. `MailSending` and its proofs: the scheme of HttpRequesting without a `shutdown()`.

What is left:

- FileExecuting: an abstract conduit that the chain implements; getters and `sigSend()` from another
  thread; stderr with sinks of its own.
- An abstract request (asked, answered once, released once) for HttpRequesting and MailSending.

## 3. Modules

### ThreadPooling

`ThreadPooling.tla` models the file of the same name. The variables carry the names of the members;
`bState` and `wState` are `mState` and `mStateSd` of the broker and of each worker (one object is in one
of the two at a time), extended by the loops in which a tick can be interrupted: `create` (the workers
are started one by one), `get`, `select`, `add` (the turns of `poolRequestsProcess()`) and `drive` for
`procsDrive()`. What the code does under one lock is one action; between two locks any thread may run.
Lists are sets because only the order of the ticks of one pass depends on their order. The steps that
tell the next worker or the load of the one chosen are one `numProcessingGet()` each. `Crashed` is the
state after `mVecInternals[i]` was read past the end of the vector.

`ProcessPool.tla` is what the pool promises: a queue, a size, a set of processes per driver. Requests
leave the queue in order, each for the driver it names if that exists; nothing is assigned while the
pool closes; when it has stopped nothing is left with a driver. `ThreadPoolingProps.tla` states the
properties and the refinement mapping (the request the broker has in hand is still the oldest of the
queue), `MCThreadPooling.tla` the values for TLC, `ThreadPoolingProofs.tla` the proofs.

### FileExecuting

`FileExecuting.tla` models a container (object 0) with `NumCmds` internals, the pipes, the OS processes,
and the client. `SourceSet` and `SinkSet` are the setters, which are refused once the process has
started: the first command is fed by nobody, a C++ string, a file descriptor, a `Transfering()`, or
`send()` from any thread; of several sources `autoSource()` takes one by the order in `Precedence`. A
`Transfering()` as sink is taken as ready to send. The last command's output is discarded, goes to
strings (`SinkToStrings`), which take everything but for a C-string that is full, or to descriptors and
`Transfering()`s (`SinkToFds`), which need not take what they are given, as nobody looks at what
`write()` and `send()` return; or it is fetched with `read()`. `fds[i]` is the set of pipe ends the
program (0) or the OS process of an internal has open: from it follow the end of a stream, the SIGPIPE
and the leaks. All internals and the container are ticked by one thread. `tick` says that it is within
`StChildSupervise` of an internal, or within its `pipesClose()`, and how far; `step = "SIGPIPE"` is the
end of the program.

Between two steps the OS processes and the client go on. A step is a turn of the loop of `autoSource()`
or `autoSink()` (a `read()` together with the `write()` of what it gave), `waitpid()` with what
`process()` makes of it, and each half of `pipesClose()` that matters to another thread: the read end of
stdin goes first (`PipesCloseStart`) and without `mMtxWrite`, all other ends with `PipesCloseTick`. All
other states of the code are over within one step. The client's `read()` runs in another thread under a
mutex that the internal's tick does not take, and has two steps: `ClientRead` is the `::read()`; if that
gives EAGAIN, `ClientReadAgain` looks at `childTerminated` and closes the pipe if it is set, whatever
has been written and recorded in between (`reading`). `torn` is no state of the code: it remembers the
internals whose stdout was closed by that, or by a `read()` that failed, when more could come. The order
of the ticks among the objects is left open. A source that is a descriptor or a `Transfering()` may have
nothing to give at any time; a descriptor that is merely slow (EAGAIN) is taken for its end by the code
(`AutoSourceRead`). Each `pipe()`, `vfork()` and `fileNonBlockingSet()` may fail (`ProcessFail`), and
for the commands in `Failing` a `read()` and `waitpid()`. That the number of a closed descriptor is
given out again is not modelled.

Data are units, 1 to `length`; a unit is what one `write()` puts into a pipe and one `read()` takes out.
The chunks of the code (512 and 22 bytes) are smaller than PIPE_BUF, so that the write of a chunk is all
or nothing. A client's `send()` of more than PIPE_BUF may be written in part before it fails; the
model's client sends unit by unit. The OS process is a filter that copies; it may end early (`Quitters`)
and may leave a daemon behind that keeps its stdout open (`Daemons`). stderr runs through the same code
as stdout with a second node and is discarded in the model, as it is by default.

### SysFlags

`SysFlags.tla` models `sysFlagsIntLock()` and `sysFlagsIntUnlock()` with one step per `flock()` and per
`fopen()` or `remove()` of a flag, `lockDirDefaultOpen()` and `lockDirDefaultClose()`, and the crash of
an OS process with the start of its successor. In the OS processes in `Faulty` each `fopen()` and
`remove()` may fail: `fileExists()` is then false of a file that is there (`FlagCheck`), and a flag
whose file was not created (`FlagCreate`) or not removed (`FlagRemove`) is taken for created or removed,
as the code does not look at the result. `amiss`, no state of the code, is the set of flags this has
happened to. The lock of `flock()` belongs to the OS process, as all of its threads use the descriptor
`fdLockDefault`. A call that returns `Pending` or -1 at the `flock()` changes nothing and is left out:
the requester simply calls again later, if it likes. So is a call before `lockDirDefaultOpen()`, which
works on descriptor 0 (see the deviations). `MaxLocks` bounds the list of a requester, which could
otherwise get the same spoiled flag over and over. In `sysFlagsIntUnlock()` the iterator is set to what
`erase()` returns and incremented too; for the last element this increments `end()`, which is undefined
for the language and the first element of the list with libstdc++ (its list is a ring): `AfterErase`.

`FlagOwners.tla` is the promise: a requester gets all the flags it asks for at once, or none, and no
flag has two owners; what a crashed requester had may stay lost, and a flag whose own file failed is
given up (`Spoil`). In the refinement mapping a requester owns its flags, but those `amiss`, from the
moment it has found them all free (`Taking`).

### HttpRequesting

`HttpRequesting.tla` models requests that each have a thread of their own. A tick is one step but for
the places where it takes or leaves `mtxCurlMulti`: `step` says whether the request is within
`multiProcess()`, between it and the reading of `mDoneCurl`, or between `easyHandleCurlUnbind()` and the
freeing of the lists. `multiProcess()` is taken apart into `curl_multi_perform()`, each message and the
end; a message has two steps, as its last assignment (`mDoneCurl`) is what the request waits for.
`added` and `ended` are what libcurl knows: the handles in the multi handle, and the results of the
transfers. `handle` and `lists` are the objects behind the pointers, and remember that they were freed.
A request may be destroyed and a new one take its place; the global destructor of the multi handle runs
when there is none. `DnsResolving` is a child that ends in any way. Any library call may fail. Not in
the model: timeouts (there are none, the code that would set one is disabled), the payload, and the
share interface, which is not compiled.

### ListIdx and TextBox

`ListIdx.tla` makes a record of the members of the class and an operator from record to record of each
method; `Add` and `Sub` are the arithmetic of `uint32_t` on `Word` values. No user has a window of more
than `MaxWin` rows or a list of more than `MaxSize` entries, which together are below `Word`
(`RangeAssumption`). `ListIdxUse.tla` is a client that calls any method in any order, with the loops of
`incJump()` and `decJump()` turn by turn.

`TextBox.tla` EXTENDS it with two indices, `front` (`mIdxFront`, which moves) and `back` (`mIdxBack`,
where the selection began), the text that is edited (`work`) and the ones that are shown and given out,
focus, clipboard, the layout, and `dirty`. Each key and each setter is an action; the loops of an
insertion, a selection and a jump over a page or a word are steps (`loop`), during which no other call
is made, as a box belongs to one thread. What the program hands to a box is below the same bounds
(`TextAssumption`). A text is a sequence of characters: UTF-8 and the drawing are left out; `print()` is
present as what its picture depends on (`Picture`). A `substr()` or `erase()` past the end of the text
ends in `loop.pc = "thrown"`, a loop whose unsigned count wraps in `"endless"`.

### EventListening

`EventListening.tla`: a tick is accept, the timeouts of the connections, one step per connection read,
one per event looked at; peers, time, and `pop()` of the clients go on between. `clock` is `millis()`
and wraps at `Word`. A listener is ticked at least every `Period`. A message is a reference or junk (no
JSON, no reference, a part of a message only, the end of the connection). With `ClientThreads` the
clients are other threads, which call `pop()` between any two steps of a tick; the run has them. `broken
= "iter"` is the state after the loop over the events has used one that was erased, `"null"` that of a
listener that could not be created. TcpListening and TcpTransfering are external: the sockets they hand
over and what a read returns.

### DnsResolving

`DnsResolving.tla`: each lookup has a channel, c-ares keeps a pointer to the lookup as long as it has a
`query`, and answers once: within `ares_getaddrinfo()`, in a tick, or when the channel is destroyed.
`touched` would be an answer to a lookup that is gone. `caresGlobalInit()` of LibDspc and the destructor
that belongs to it are part of the module. The addresses are that there are some.

### MailSending

`MailSending.tla` is laid out as HttpRequesting: `step`, `added`, `ended`, `handle` and `list` mean the
same. What is different is that there is no `shutdown()` and no unbind: whoever is deleted early is
taken from curl by `curl_easy_cleanup()` in the destructor, without the mutex. With `Threads` each mail
has a thread of its own, without all mails belong to one. `curlGlobalInit()` of LibDspc is part of
`Start`. How a transfer ends (`Ends`) and what the code is told of it are two things: `mCurlRes` (`Res`)
and `mRespCode` (`Code`) are set by the tick that reads the message, and the mail makes its result of
both. curl's result is good, but the code not 250, for a mail that had no recipient because
`curl_slist_append()` failed; a connection may be lost after a 250 to an earlier command. Of the text
its length is kept: `mBody` grows by the `Header` put before it, `infile` is what was announced before
that (`Extra` more than the text), `mNumSent` how much curl has read by `stringToCurlDataRead()`. A
`Limited` curl reads no more than was announced.

## 4. Runs

Only dns and mail check for deadlock: a pool that has stopped, a chain that has ended, a closed lock
directory, a listener that met a missing object (`broken`) and a text box in an endless loop have
nothing more to do.

| Run | Instance | Shows |
|---|---|---|
| pool_safety | 3 processes (one names worker 1, one names a worker that does not exist, one names none), at most 3 workers, any number of them configured | `OnePlace`, `LoadCount`, `WorkerDrained`, `Balanced`, and that every step is one of `ProcessPool` |
| pool_live | 2 processes, 2 workers, fairness | `RequestServed`: a process added is driven to its end; `ShutdownCompletes` |
| chain_safety | 2 commands, pipes of 1 unit, input of up to 3 units (a hole takes three); fed by nothing, a string, a descriptor, a `Transfering()` or `send()`; output discarded, to a descriptor or fetched with `read()`, in the combinations of `Chains`; the first may quit, `waitpid()` and `read()` fail where `Bounded` says | `NoHoles`, `OutputTaken`, `DoneIsFinal`, `NoSigpipe`, `PipesReleased` |
| chain_live | 2 commands, string or `send()` as source, strings as sink, pipes as large as the input, nobody quits, a daemon of the first, fairness | `WholeInput`: success means all of the input has come out; `Terminates` |
| chain_lossless | 2 commands, 3 units, pipes of 1 unit, nobody quits | violated: a full pipe cuts the stream and the chain still succeeds |
| flags | 3 OS processes with one requester each, 2 flags, requests of one or both in either order, lists of up to 2; one may crash, another's `fopen()` and `remove()` fail, fairness | `Exclusive`, `HeldHasFile`, refinement of `FlagOwners`, `FlockReleased` |
| http | 2 requests in 2 threads, all failures, cancel at any time, fairness | `FreedOnce`, `MultiKnowsLiving`, `CompletesLiving`, `ResultIsOwn`, `AnswerReaches` |
| listidx | lists of up to 6 entries, windows of up to 4 rows, words of 4 bits | `CursorInList`, `EntryKept`, `MovesByOne` |
| textbox | boxes of 2 or 4 visible characters, a limit of 3, handed-in texts that are empty, at the limit and above it | `IndexMatchesText`, `LostOnlyThere`, `EditInPlace`, `KeyTells` |
| events | 2 sockets, room for one connection, 2 references, a clock of 8 values, timeouts of 3 and 2, clients in other threads, fairness | `SocketsAccounted`, `NothingStale`, `NothingDroppedEarly`, `ConnsEnd` |
| dns | 2 lookups, canceled and deleted at any time, all kinds of answers, fairness | `ChannelEndsFirst`, `AnswerIsResult`, `LookupEnds` |
| mail | 2 mails of one thread, an empty text with a header, all failures, timeouts, cancel at any time, fairness | `NothingFreedUsed`, `ResultIsTrue`, `MailEnds` |

**Why the bounds are enough.** Three workers let the choice of the lightest be wrong among candidates
that are neither first nor last while the others go on; three processes make a queue that is longer than
the hands it passes through. In the chain two commands have each of the roles: fed by the client and
feeding another, fed by another and feeding a sink; one unit of pipe makes full and empty adjacent, so
that every write meets both; two units make the order visible and three a hole (one written, one cut
off, one written again). `Sources` and `Sinks` of a run are those its configuration may choose.
chain_safety has all sources, and the sinks that can lose something; strings are in chain_live. Its
state constraint `Bounded` keeps it below five minutes: one unit comes from each source, two go through
`read()` and come from `send()`, and it takes three for a hole, one that fills a pipe, one that is
refused, and one that finds the pipe read again (`Chains`). `waitpid()` and the `read()` of `autoSink()`
fail in the chain with a descriptor as sink, the client's `read()` fails or is overtaken with one unit.
The five invariants are proved for all combinations and for daemons. `SinkSize`, a C-string sink that
gets full, is 0 in the runs (see the deviations). Two flags in opposite order and three OS processes are
the smallest instance in which one waits while two others exchange a flag. Two requests, mails and
lookups are enough since a step concerns one that ticks and one it completes; that there may be more is
proved. A list of 6 entries in a window of 4 can be scrolled by one, by two, and shrink below the
window; 4 bits are the least that hold twice the window and the list, which is what the arithmetic needs
(`RangeAssumption`). A box of 4 characters shows the whole of a text at the limit, one of 2 scrolls. The
clock of the listener wraps while connections and events age, and is long enough that an age can exceed
each timeout by more than what the properties allow: it shows ages of up to 7, where `NothingStale`
allows 5 and 4. A list of flags holds each of them once, or a spoiled one twice. An empty text is
announced with less than its header, which is what `ReadMax` compares. The counts that grow in the code
(`mNumFinished`, `numBurst`, bytes, `mEvents`) are bounded by the number of processes, `Burst`,
`MaxLength`, `Refs`; `KeptMax` bounds the text a box accepts, `SelectionSet` is called with arguments up
to `LenMax`. The view of textbox leaves out the clipboard and the accepted text, which are given out and
not read back.

**Fairness.** Threads that can go on do (weak fairness of the broker, of each worker, of a call in
progress): the drivers of SystemCore call `treeTick()` in an endless loop. For FileExecuting the ticks
of one object are enabled only while no other is being ticked, and a driver ticks all of its objects in
turn: strong fairness. Its client starts what it has configured (`Configure` ends), sends what it has,
says when it is done, and reads if it said that it would (weak fairness of both steps of `read()`
together). Filters read, write and end with their input. Strong fairness of `ProcTickLast` says that a
client's process is finite: no pool could end one that is not. No run assumes anything about cancel,
errors, crashes, quitting OS processes or a client's requests. `RequestServed` is stated for pools that
are not canceled, `ShutdownCompletes` for pools whose workers all exist. For HttpRequesting and
MailSending a mutex that is free time and again is got in the end (strong fairness of the steps that
lock it). That a transfer ever ends is not assumed: `AnswerReaches` begins when curl has a result, and a
mail ends by its timeout, for which time has to pass (`Timeout`). c-ares answers a query after the tries
it was configured with (strong fairness of a tick with an answer); without that a lookup has no timeout
of its own. The listener is ticked and time passes; its peers and clients may do nothing.

## 5. Proofs

`ThreadPoolingProofs.tla` proves for any finite set of processes, any number of workers and any wish
(`PoolAssumption`) that the invariants of pool_safety hold, that `PoolStopped` and `ChoiceNotHeavier`
do, and that every step of the threads is a step of `ProcessPool` or none. The inductive invariant
`IInv` adds to the properties three parts that they rest on: `DriveInv` (where `procsDrive()` is decides
what its locals hold), `BrokerInv` (a request is in hand only in the loop of `poolRequestsProcess()`,
and by then all workers exist) and `WorkerInv` (workers are created in order, are canceled by a broker
that adds nothing more, and stop only after one more `splice()`). The last is why `WorkerDrained` holds
although the worker's shutdown never looks at `mListProcsReq`. `LoadCount` needs that the lists of a
worker are disjoint and finite, hence `OnePlace`. `PoolStopped` follows from `BrokerInv` and
`WorkerDrained`. There is one lemma per action or group of actions, the ones of the broker leaving all
workers but one alone.

`Balanced` needs an invariant of its own, `BalanceInv`, on top of `IInv`. Loads that differ by one at
most stay so when the worker chosen is one of the lightest; but while the broker reads the loads one by
one, what it knows of those already read is of the past. `SpreadInv` says the loads are even while
nothing was given back and nobody asked for a driver, `SelectInv` that the candidate is not heavier than
any worker read so far. The latter is stable because in such a pool no load changes during a choice:
only the broker adds, and a load only falls when a process has ended.

`FileExecutingProofs.tla` proves the five invariants of chain_safety for chains of any length, pipes and
bursts of any size, any input, any source and sink, any OS processes that quit or leave daemons, any
`read()` and `waitpid()` that fails, and a client that reads and sends at any time
(`FileExecutingAssumption`). What the code does not keep is excepted in the properties: a torn pipe
(`OutputTaken`, `DoneIsFinal`), a descriptor as sink (`NoHoles`), a `send()` during the shutdown
(`NoSigpipe`). The invariant `Kept` has one conjunct for the thread that ticks (`TickOK`), one for the
configuration, and five for each internal: how far it is and what exists by then (`PhaseOK`), which ends
of its pipes are open (`FdsOK`), what its end implies (`EndOK`), what is not there yet (`DataOK`), and
the stream (`StreamOK`). The heart of `StreamOK` is that what an OS process has written is what the next
one has received, followed by a rest; and that the rest is just what the pipe between them holds as long
as the next one's stdin is open, or was not offered yet. Once it is closed nothing is added to what was
received, so a cut stays at the end: this is `NoHoles`. `OutputTaken` and `DoneIsFinal` rest on `FdsOK`:
the read end of stdout is closed, but in a shutdown or for a torn pipe, only when the pipe is empty and
its OS process has ended, which needs the order in `ChildStateRecord` (first the pipe is asked for its
end, then the state is used). `NoSigpipe` rests on the first line of `FdsOK`: the program keeps a read
end beside each write end, but between the two steps of `pipesClose()`, when only the client can write.
There is one lemma per action; those of ticks that change the pipes prove the parts separately (`Types`,
`Phases`, ...). What `wrote` and `Received` do in a step is carried by a few lemmas on sequences of
numbers, for example that moving a unit from the head of one to the end of the other keeps their
concatenation.

`WholeInput` is proved on top of `Kept` for chains that have what it takes (`Roomy`): OS processes that
read to the end, pipes at least as large as the input, a source that is not a descriptor (one that is
merely slow is taken for its end) and no C-string that gets full. `WholeInput` itself asks for a sink
that takes everything (strings or `read()`) and that no pipe was torn. TLC finds a counterexample when
any one of these is dropped (see the deviations); chain_live is an instance that has them all.
`WholeInv` has three more parts. In a chain in which no internal has failed or was canceled and no pipe
was torn (`Fine`) `FedOK` says that a stdin is closed only when the whole input went into it and its
predecessor has ended and is read out, and that an OS process that ended has written all of the input.
`PlainOK` holds in any chain and bounds what a pipe can get to hold: that is the numeric part of the
argument, since a `send()` that is refused (`NextAccepts`) would cut the stream. `ClientOK` and
`ResultOK` tie the end the client, or the string, has told and the final result to the stream. `Fine`
never comes back once it is lost, and what a Positive result asserts is kept without it, so a cancel
after the success takes nothing away.

`SysFlagsProofs.tla` proves for any set of requesters, any flags, any requests, any set of OS processes
that may crash and any whose `fopen()` and `remove()` may fail that `Exclusive`, `CheckedStaysFree` and
`HeldHasFile` hold and that every step is one of `FlagOwners` or none, under the hypothesis
`OneThreadEach`: each requester is in an OS process of its own. Without it the theorems are false (see
the deviations). Each statement excepts the flags in `amiss`, about which nothing can be said, and those
only: that a failure on one flag does no harm to another is part of what is proved. The argument:
whoever is between `flock(LOCK_EX)` and `LOCK_UN` is recorded in `flockBy` (`CallInv`), so by
`OneThreadEach` there is one (`OneInside`); a flag that it found to have no file is not held by anyone
(`HeldHasFile`) and is not being taken by anyone (`OneInside`), so it stays free until it is created
(`CheckedStaysFree`) and is then its alone (`Exclusive`). A removal by another requester takes only
files of flags that this one has, again by `Exclusive`. The conjuncts need one another, so only `IInv`,
all of them together, is inductive. `StepOf` says once what a step of one requester has to show for the
others to keep their part; there is one lemma per action on top of it. Lemmas on sequences (`TailSet`,
`ConcatSet`, `RemoveAtSet`) turn the lists of the code into sets, in which only a spoiled flag may stand
twice (`NamesOnce`).

`HttpRequestingProofs.tla` proves the invariants of run http for any set of requests with known TLS
versions (`BadTls = {}`; see the deviations). `IInv` adds to them that the pointer `mpCurl` is set
exactly while the handle lives (`HandleInv`), that what a request was told is what curl found
(`AnswerInv`), and that nobody touches a request before it is bound (`PrepareInv`). `InvSplit` turns it
into one statement per request; each action then has two things to show, the types and `RequestOK` of
any request. The heart is `MessageTake`: what curl reports is in `added`, hence bound, alive and not in
its shutdown; and `Unbind`, which needs the mutex, so that nobody is completing the request that begins
its shutdown.

`MailSendingProofs.tla` proves `NothingFreedUsed` and `ResultIsTrue` for any set of mails that one
thread ticks (`~Threads`; see the deviations). Its invariant says of each mail that its pointers are set
exactly while what they point to is alive and that curl knows only what is alive (`PointersOK`), that a
mail is completed once, by the tick that holds the mutex (`CompletionOK`), and how `mDone`, `mCurlRes`
and `mRespCode` follow the transfer (`AnswerOK`). That a reported success is a mail the server took
needs both members: either one alone is as good for a transfer that did not send it. That curl has read
the whole of it needs that the text does not change after the header was put before it, and a curl that
reads what there is (`~Limited`). That the destructor finds the mutex free is `TurnIsFree`: with one
thread no tick is under way when another call is made.

`DnsResolvingProofs.tla` proves `ChannelEndsFirst` and the action property `AnswerIsResult` for any set
of lookups. The invariant ties the flag `mChannelAresInitDone` to the channel, an open query to an open
channel and to the absence of an answer, and an open channel to a lookup that is still waiting.

`EventListeningProofs.tla` proves `SocketsAccounted`, `NothingStale` and `NothingDroppedEarly` for any
number of sockets and references, any timeouts and any clock that is longer than them
(`EventAssumption`). Nothing is said of time stamps, which wrap, but only of ages (`Elapsed`). `IInv`
bounds the age of a connection and of an event by where the tick is (`ConnAges`, `EventAges`): before
the pass that looks at it an entry may be a `Period` older than after it, and in the middle of the loop
over the events this depends on whether the iterator has passed it. `Snapshot` bounds how old the time
is that the loop has kept; the ages stay below `Word`, so they never wrap themselves. Both hold whoever
calls `pop()` from where, as long as the listener lives (`broken`); that its loop never stands on an
event that is gone is `LoopStandsOnEvent`, which needs `~ClientThreads` (see the deviations).
`NothingDroppedEarly` has `Period < DataMax`: a connection that is accepted is first looked at one tick
later, and a listener that is ticked less often than every 300 ms would drop it then with its data
unread. That the least reference of the map exists (`begin()`) needs the least element of a set of
naturals (`LeastNatural`); the induction theorems are out of the provers' reach, so it comes from the
library's theorem that the strict inclusion of finite sets is well-founded.

`ListIdxProofs.tla` proves `CursorInList` for any window and list whose sizes fit into a word together
(`RangeAssumption`): `InList` is inductive with the types; each method is shown to return an index that
is `Good`, by way of lemmas on what `Add` and `Sub` are when nothing wraps and on `SanityCheck`, which
all changes of size go through. The same lemmas tell where a method leaves the cursor, from which the
action properties `EntryKept` and `MovesByOne` follow step by step.

The module goes on with the TextBox, whose two indices are such records. For boxes, texts, limits and
layouts of any size it proves `IndexMatchesText`, `LostOnlyThere`, `EditInPlace` and `KeyTells`, under
the hypothesis `AlwaysShown`: no width is 4, the one which leaves no column with frame and padding (see
the deviations). The invariant says of both indices that they are `Good` with the size of the text plus
the place behind it, that their windows are the same and have a column, and of each `loop` what it has
still to do. The heart is `SelectionReplace`: an erasure of the selection and the insertions after it
are made to the text at once and to the indices turn by turn, so the invariant has to count the turns
that are missing. `EditInPlace` compares the text before and after with lemmas on `Removed` and
`Inserted`, for a selection that is replaced (`Replaced`), a character that is typed and one that is
taken away; that the replacement begins where the selection did is excepted where the window drifts,
what it leaves of the text is not. For `KeyTells` each key that leaves `dirty` unset is shown to leave
the `Picture` as it was; a jump keeps in `loop.changed` over all its turns that one of them has moved
the cursor, and sets `dirty` at its end.

Every invariant and action property of the passing runs is proved. Only model-checked is liveness
(`RequestServed`, `ShutdownCompletes`, `Terminates`, `FlockReleased`, `AnswerReaches`, `ConnsEnd`,
`LookupEnds`, `MailEnds`), as fairness and ENABLED are out of the prover's reach. What `Roomy`,
`OneThreadEach`, `~Threads`, `~ClientThreads` (of `LoopStandsOnEvent`), `BadTls = {}`, `Period <
DataMax` and `AlwaysShown` exclude, and what `torn`, `amiss` and `broken` except, is not proved because
it does not hold.

## 6. Known deviations

What the code does otherwise than its manual, or its caller, would expect. The models contain it; the
run chain_lossless shows the first of them, and the properties of the other runs are stated so that they
say where it can happen.

- FileExecuting.cpp:1323: a full pipe is an error for `intSend()`, which closes the stream; the chain
  reports Positive (FileExecuting.md:189; run chain_lossless).
- FileExecuting.cpp:696: a C-string sink that is full keeps the other sinks from getting the unit
  (FileExecuting.md:237). With `SinkSize > 0` `NoHoles` says nothing of the sinks for this reason.
- FileExecuting.cpp:710, 715: what `write()` to a descriptor or `send()` to a `Transfering()` as sink
  returns is not looked at; what they do not take is lost, in the middle of the stream too
  (`SinkToFds`). `NoHoles` and `OutputTaken` speak of strings and `read()` only.
- FileExecuting.cpp:1391: a client's `read()` that got EAGAIN asks for `childTerminated` after that.
  When the OS process has written its last output in between, and its end was recorded, the pipe is
  closed with the output in it, and the internal is Positive: `torn`, in `OutputTaken`.
- FileExecuting.cpp:1390: a `read()` that fails is taken for the end of the stream, without an error of
  the internal: `torn`.
- FileExecuting.cpp:811, 1423: `pipesClose()` closes the read end of stdin before the write end and
  without `mMtxWrite`; a `send()` of the client in between writes to a pipe that may have no reader, and
  SIGPIPE ends the program: the exception in `NoSigpipe`.
- FileExecuting.cpp:520: a nonblocking descriptor that has nothing to read for now ends the input.
- ThreadPooling.cpp:168: a pool canceled before its workers exist, or whose creation failed half way,
  reads past the end of `mVecInternals` (ThreadPooling.md:50). `Crashed` is that state;
  `ShutdownCompletes` is stated for a pool whose workers exist.
- ThreadPooling.cpp:284: the loads are read one by one while processes end, so the worker that is chosen
  may have become heavier than another. `Balanced` speaks of pools in which none has ended yet.
- LibFilesys.cpp:415: the lock of `flock()` is shared by the threads of an OS process
  (LibFilesys.md:111), two of which may get the same flag: `OneThreadEach`.
- LibFilesys.cpp:452, 218-228: a flag whose file could not be created is told to be taken all the same,
  and `fileExists()` takes any failure of `fopen()` for a file that is not there; in both cases another
  requester may get the flag too. `amiss` keeps which flags that has happened to.
- LibFilesys.cpp:407: a call before `lockDirDefaultOpen()` passes the test of the descriptor, which is
  0, and locks whatever that is. Left out of the model.
- LibFilesys.cpp:524: `sysFlagsUnlock()` of several flags skips every other one (LibFilesys.md:119). In
  the refinement a flag that was not released is still owned.
- HttpRequesting.cpp:692: a request with an unknown TLS version frees its easy handle twice: `BadTls`.
- MailSending.cpp:328: the destructor takes no mutex; with `Threads = TRUE` `NothingFreedUsed` does not
  hold.
- MailSending.cpp:145: a mail that was sent but whose timeout has passed in the same tick is reported as
  failed: `ResultIsTrue` says so with `overdue`.
- MailSending.cpp:222: the length announced to curl is that of the text and 20 bytes, the header, which
  is longer, comes after that (245). A curl that reads no more than was announced (since 8.7) cuts the
  mail and reports success: `Limited`.
- DnsResolving.cpp:229: an answer given within `ares_getaddrinfo()` is overwritten by an error in the
  next tick, which finds no descriptor (DnsResolving.md:94): the last part of `AnswerIsResult`.
- EventListening.cpp:272: the loop over `mEvents` takes no lock; with `ClientThreads = TRUE` `pop()` may
  erase what the iterator stands on: `broken = "iter"`, after which nothing is said. A listener that
  could not be created is used all the same (80-83): `broken = "null"`. A second event with the same
  reference replaces the first one; of a message that comes in two reads the first part is dropped as
  junk.
- ListIdx.cpp:92: a list that gets shorter than its window while it was scrolled moves the cursor away
  from its entry: `Scrolled` in `EntryKept`, `Drifts` in `Replaced`.
- TextBox.cpp:492: a text above `mLenMax` that loses a selection makes an unsigned difference wrap:
  `loop.pc = "endless"`, as `LostOnlyThere` says. `Bounds` and `Widths` of the run are those with a
  visible row; without (a width of 4 with frame and padding) the indices get out of step. Ctrl-X in a
  box without focus clears `mUstrCurrent` but not `mCurrent`. A paste, `currentSet()` and `focusSet()`
  change the picture without setting `mDirty` (TextBox.h:79): `KeyTells` is about keys.
- TextBox.cpp:190: each key clears `mDirty` first, whether or not `dirty()` was asked after the one
  before. `KeyTells` is about a widget that asks after each key.

## 7. Not modelled

- FileExecuting: sinks of stderr, `errRedirect()`, `envSet()`, `sigSend()` and the result getters called
  by another thread. They read or set single members without a lock; what such a data race returns
  depends on the build.
- MailSending: `curlMultiDeInit()`, which nobody calls, and the setters; the payload of mails and
  requests.
- EspLedPulsing and MsWaiting: one timer per object in one thread, without interaction with the other
  parts.
- LibDspc but for the initialisation of the libraries: formatting and taking apart of strings.
- Components without behaviour of their own: formatting (LibTime, TclapOutput), wrappers of system calls
  (LibFilesys' files, LibDriverPlatform), drawing (Widget, PhyAnimating), tables (Res) and stateless
  helpers (KeyUser, KeyFiltering, JsonProcessing).

Undefined behaviour is modelled where it is met: the read past `mVecInternals` ends the program
(`Crashed`), the increment of `end()` does what libstdc++ does, a walk over an erased event is `broken =
"iter"`.
