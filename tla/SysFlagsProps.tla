---------------------------- MODULE SysFlagsProps ----------------------------
(* What the flags of LibFilesys promise to their requesters. *)
EXTENDS SysFlags

\* The types of the lock file, the flags and the calls in progress.
TypeOK ==
    /\ fdLockDefault \in [Processes -> {"zero", "open", "failed", "closed"}]
    /\ flockBy \in Processes \cup {NoProc}
    /\ files \subseteq Flags /\ amiss \subseteq Flags
    /\ pc \in [Threads -> {"idle", "check", "create", "remove"}]
    /\ args \in [Threads -> Seq(Flags)]
    /\ todo \in [Threads -> Seq(Flags)]
    /\ mLocks \in [Threads -> Seq(Flags)]
    /\ iuLock \in [Threads -> Nat]
    /\ \A t \in Threads : iuLock[t] <= Len(mLocks[t]) /\ (pc[t] = "remove" <=> iuLock[t] > 0)

\* The flags a requester was told it has, and those its call has found to be free.
Held(t)   == ToSet(mLocks[t])
Taking(t) == IF pc[t] = "create" THEN ToSet(args[t]) ELSE {}
Owned(t)  == Held(t) \cup Taking(t)

OneThreadEach == \A t, u \in Threads : ProcOf[t] = ProcOf[u] => t = u

\* LibFilesys.md:111, of sysFlagsIntLock(): "acquire a system-wide lock for a given set
\* of flags".  No flag is taken by two requesters, whatever the order of their calls,
\* of the crashes of their OS processes and of the restarts, but one that an ignored
\* failure of fopen() or remove() has spoiled: such a failure spoils no other flag.
Exclusive == \A t, u \in Threads : t # u => Owned(t) \cap Owned(u) \subseteq amiss

\* What fileExists() found free stays free until it is created: flags vanish while the
\* lock file is locked, and none appears but by the one that locked it.  A flag that is
\* amiss may have been missed.
CheckedStaysFree ==
    \A t \in Threads :
        /\ pc[t] = "check" => (ToSet(args[t]) \ ToSet(todo[t])) \cap files \subseteq amiss
        /\ pc[t] = "create" => ToSet(todo[t]) \cap files \subseteq amiss

\* A requester that was told it has a flag has the file, whoever else asks, crashes or
\* fails on another flag.
HeldHasFile == \A t \in Threads : Held(t) \subseteq files \cup amiss

\* Every way out of sysFlagsIntLock() unlocks the lock file, the early returns too.
FlockReleased == \A p \in Processes : flockBy = p ~> flockBy # p

-----------------------------------------------------------------------------
(* What the invariants above rest on *)

\* No flag but one that is amiss stands twice in a list.
NamesOnce(s, bad) == \A i, j \in DOMAIN s : s[i] = s[j] /\ s[i] \notin bad => i = j

\* A call that looks for its flags or creates them has the lock file; what it has
\* created exists, and no list names a flag twice.
CallInv ==
    \A t \in Threads :
        /\ IsInjective(args[t]) /\ IsInjective(todo[t]) /\ NamesOnce(mLocks[t], amiss)
        /\ ToSet(todo[t]) \subseteq ToSet(args[t])
        /\ pc[t] \in {"check", "create"} => flockBy = ProcOf[t] /\ args[t] # <<>>
        /\ pc[t] = "create" =>
              /\ ToSet(args[t]) \ ToSet(todo[t]) \subseteq files \cup amiss
              /\ ToSet(args[t]) \cap ToSet(mLocks[t]) \subseteq amiss

\* The inductive invariant of sysFlagsLock() and sysFlagsUnlock() with one requester
\* per OS process.
IInv == TypeOK /\ Exclusive /\ CheckedStaysFree /\ HeldHasFile /\ CallInv

-----------------------------------------------------------------------------
(* A requester owns its flags from the moment it has found all of them free. *)

Owners == INSTANCE FlagOwners WITH
    owned <- [t \in Threads |-> Owned(t) \ amiss],
    lost  <- files \ (amiss \cup UNION {Owned(t) : t \in Threads})

\* With one requester per OS process the calls, and the crashes and failures between
\* any two of their file operations, give each requester all of its flags or none, and
\* never one that is owned.  Only a flag whose own file failed is out of the promise.
ImplementsOwners == Owners!OwnersSpec
=============================================================================
