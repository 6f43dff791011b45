------------------------------ MODULE SysFlags ------------------------------
(***************************************************************************)
(* The system-wide flags of LibFilesys.cpp.  A flag is taken when its file *)
(* exists; the files are looked for and created under flock() of one lock  *)
(* file.  The threads of an OS process share one descriptor of it, and a   *)
(* lock belongs to the descriptor: flock() of a second thread succeeds at  *)
(* once, LOCK_UN of one thread is that of all.                             *)
(*                                                                         *)
(* Each flock() and each fopen() or remove() of a flag is a step.          *)
(* globalLocks is written and never read, it is left out.  amiss is no     *)
(* state of the code: it keeps which flags an ignored failure has spoiled. *)
(***************************************************************************)
EXTENDS Integers, Sequences, SequencesExt

CONSTANTS Flags,      \* the names
          Threads,    \* the requesters, each with its mLocks
          ProcOf,     \* the OS process of each
          Requests,   \* the argument lists of sysFlagsLock()
          Crashing,   \* the OS processes that may crash
          Faulty,     \* those whose fopen() and remove() may fail
          MaxLocks,   \* bound: the longest mLocks
          NoProc      \* the lock file is not locked

Processes == {ProcOf[t] : t \in Threads}

ASSUME SysFlagsAssumption ==
    /\ NoProc \notin Processes
    /\ Requests \subseteq Seq(Flags) \ {<<>>}
    /\ \A r \in Requests : IsInjective(r)

VARIABLES
    fdLockDefault,  \* of each OS process
    flockBy,        \* whose descriptor holds the lock of the lock file
    files,          \* the flags whose files exist
    amiss,          \* those that were missed, not created or not removed
    pc, args,       \* where each requester's call is, and its flags
    todo,           \* those the loop at hand has still to visit
    mLocks, iuLock  \* pLocks, and the position of its iterator

vars == <<fdLockDefault, flockBy, files, amiss, pc, args, todo, mLocks, iuLock>>

Init ==
    /\ fdLockDefault = [p \in Processes |-> "zero"]
    /\ flockBy = NoProc /\ files = {} /\ amiss = {}
    /\ pc = [t \in Threads |-> "idle"]
    /\ args = [t \in Threads |-> <<>>] /\ todo = [t \in Threads |-> <<>>]
    /\ mLocks = [t \in Threads |-> <<>>] /\ iuLock = [t \in Threads |-> 0]

Goto(t, from, to) == pc[t] = from /\ pc' = [pc EXCEPT ![t] = to]

\* flock(LOCK_UN): only the lock of this OS process' own descriptor goes.
FlockRelease(t) == flockBy' = IF flockBy = ProcOf[t] THEN NoProc ELSE flockBy

-----------------------------------------------------------------------------
\* A failed open() leaves -1, after which no call does anything.
lockDirDefaultOpen(p) ==
    /\ fdLockDefault[p] = "zero"
    /\ \E fd \in {"open", "failed"} : fdLockDefault' = [fdLockDefault EXCEPT ![p] = fd]
    /\ UNCHANGED <<flockBy, files, amiss, pc, args, todo, mLocks, iuLock>>

\* The number is kept: the directory cannot be opened again.
lockDirDefaultClose(p) ==
    /\ fdLockDefault[p] = "open"
    /\ \A t \in Threads : ProcOf[t] = p => pc[t] = "idle"
    /\ fdLockDefault' = [fdLockDefault EXCEPT ![p] = "closed"]
    /\ flockBy' = IF flockBy = p THEN NoProc ELSE flockBy
    /\ UNCHANGED <<files, amiss, pc, args, todo, mLocks, iuLock>>

-----------------------------------------------------------------------------
(* sysFlagsIntLock().  A call that ends with Pending or -1 at the flock() *)
(* changes nothing and is left out.  So is one before the lock file was   *)
(* opened: descriptor 0 passes the test for < 0, and the files it looks   *)
(* for and creates are those of the working directory, not flags.         *)

FlockUnasked(t) == TRUE                              \* variant: the result is not looked at
FlockGranted(t) == flockBy \in {NoProc, ProcOf[t]}

LockFile(t, flags) ==
    /\ Goto(t, "idle", "check")
    /\ fdLockDefault[ProcOf[t]] = "open" /\ FlockGranted(t)
    /\ Len(mLocks[t]) + Len(flags) <= MaxLocks
    /\ flockBy' = ProcOf[t]
    /\ args' = [args EXCEPT ![t] = flags]
    /\ todo' = [todo EXCEPT ![t] = flags]
    /\ UNCHANGED <<fdLockDefault, files, amiss, mLocks, iuLock>>

\* fileExists() of one flag is false: there is no file, or fopen() failed.
FlagCheck(t) ==
    /\ Goto(t, "check", "check")
    /\ todo[t] # <<>> /\ (Head(todo[t]) \in files => ProcOf[t] \in Faulty)
    /\ amiss' = amiss \cup ({Head(todo[t])} \cap files)
    /\ todo' = [todo EXCEPT ![t] = Tail(@)]
    /\ UNCHANGED <<fdLockDefault, flockBy, files, args, mLocks, iuLock>>

\* Variant: the early return forgets the lock file.
FlagTakenLocked(t) ==
    /\ Goto(t, "check", "idle")
    /\ todo[t] # <<>> /\ Head(todo[t]) \in files
    /\ todo' = [todo EXCEPT ![t] = <<>>] /\ args' = [args EXCEPT ![t] = <<>>]
    /\ UNCHANGED <<fdLockDefault, flockBy, files, amiss, mLocks, iuLock>>

\* Someone has it: unlock the file and return Pending.
FlagTaken(t) ==
    /\ Goto(t, "check", "idle")
    /\ todo[t] # <<>> /\ Head(todo[t]) \in files
    /\ FlockRelease(t)
    /\ todo' = [todo EXCEPT ![t] = <<>>] /\ args' = [args EXCEPT ![t] = <<>>]
    /\ UNCHANGED <<fdLockDefault, files, amiss, mLocks, iuLock>>

FlagsAvailable(t) ==
    /\ Goto(t, "check", "create") /\ todo[t] = <<>>
    /\ todo' = [todo EXCEPT ![t] = args[t]]
    /\ UNCHANGED <<fdLockDefault, flockBy, files, amiss, args, mLocks, iuLock>>

\* fileCreate() of one flag; that it failed is not looked at.
FlagCreate(t) ==
    /\ Goto(t, "create", "create") /\ todo[t] # <<>>
    /\ \/ files' = files \cup {Head(todo[t])} /\ UNCHANGED amiss
       \/ /\ ProcOf[t] \in Faulty
          /\ amiss' = amiss \cup {Head(todo[t])} /\ UNCHANGED files
    /\ todo' = [todo EXCEPT ![t] = Tail(@)]
    /\ UNCHANGED <<fdLockDefault, flockBy, args, mLocks, iuLock>>

\* The lock file is unlocked and the requester's list extended: Positive.
LocksRecord(t) ==
    /\ Goto(t, "create", "idle") /\ todo[t] = <<>>
    /\ FlockRelease(t)
    /\ mLocks' = [mLocks EXCEPT ![t] = @ \o args[t]]
    /\ args' = [args EXCEPT ![t] = <<>>]
    /\ UNCHANGED <<fdLockDefault, files, amiss, todo, iuLock>>

-----------------------------------------------------------------------------
(* sysFlagsIntUnlock() *)

UnlockStart(t) ==
    /\ Goto(t, "idle", "remove")
    /\ fdLockDefault[ProcOf[t]] \in {"open", "closed"} /\ mLocks[t] # <<>>
    /\ iuLock' = [iuLock EXCEPT ![t] = 1]
    /\ UNCHANGED <<fdLockDefault, flockBy, files, amiss, args, todo, mLocks>>

\* iuLock = erase(iuLock), and then the ++ of the for.  The list of libstdc++ is a
\* ring: past its end it begins again.
AfterErase(pos, len) == IF pos = len THEN 1 ELSE pos + 1

\* Variant: the path lacks the base directory.
FlagRemoveNone(t) == UNCHANGED <<files, amiss>>

\* remove() of the flag at the iterator; its result is not looked at.
FlagRemove(t) ==
    \/ files' = files \ {mLocks[t][iuLock[t]]} /\ UNCHANGED amiss
    \/ /\ ProcOf[t] \in Faulty
       /\ amiss' = amiss \cup {mLocks[t][iuLock[t]]} /\ UNCHANGED files

LockErase(t) ==
    /\ Goto(t, "remove", IF AfterErase(iuLock[t], Len(mLocks[t])) = Len(mLocks[t])
                         THEN "idle" ELSE "remove")
    /\ FlagRemove(t)
    /\ mLocks' = [mLocks EXCEPT ![t] = RemoveAt(@, iuLock[t])]
    /\ iuLock' = [iuLock EXCEPT ![t] = IF pc'[t] = "idle" THEN 0
                                       ELSE AfterErase(@, Len(mLocks[t]))]
    /\ UNCHANGED <<fdLockDefault, flockBy, args, todo>>

-----------------------------------------------------------------------------
\* The kernel closes the lock file, the flags stay; the next start begins anew.
ProcessCrash(p) ==
    /\ p \in Crashing
    /\ fdLockDefault' = [fdLockDefault EXCEPT ![p] = "zero"]
    /\ flockBy' = IF flockBy = p THEN NoProc ELSE flockBy
    /\ pc' = [t \in Threads |-> IF ProcOf[t] = p THEN "idle" ELSE pc[t]]
    /\ args' = [t \in Threads |-> IF ProcOf[t] = p THEN <<>> ELSE args[t]]
    /\ todo' = [t \in Threads |-> IF ProcOf[t] = p THEN <<>> ELSE todo[t]]
    /\ mLocks' = [t \in Threads |-> IF ProcOf[t] = p THEN <<>> ELSE mLocks[t]]
    /\ iuLock' = [t \in Threads |-> IF ProcOf[t] = p THEN 0 ELSE iuLock[t]]
    /\ UNCHANGED <<files, amiss>>

-----------------------------------------------------------------------------
LockSteps(t) == FlagCheck(t) \/ FlagTaken(t) \/ FlagsAvailable(t) \/ FlagCreate(t) \/ LocksRecord(t)

Next == \/ \E p \in Processes : lockDirDefaultOpen(p) \/ lockDirDefaultClose(p) \/ ProcessCrash(p)
        \/ \E t \in Threads : \/ \E flags \in Requests : LockFile(t, flags)
                              \/ LockSteps(t) \/ UnlockStart(t) \/ LockErase(t)

Spec == Init /\ [][Next]_vars

\* A call that has begun goes on.
FairSpec == Spec /\ \A t \in Threads : WF_vars(LockSteps(t)) /\ WF_vars(LockErase(t))
=============================================================================
