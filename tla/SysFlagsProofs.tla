---------------------------- MODULE SysFlagsProofs ----------------------------
(***************************************************************************)
(* Proofs about the flags of LibFilesys for any number of requesters, each *)
(* in an OS process of its own, any flags and any crashes.                 *)
(***************************************************************************)
EXTENDS SysFlagsProps, SequenceTheorems, TLAPS

-----------------------------------------------------------------------------
(* The sets of the sequences the calls work on *)

\* The list of no flags names none and names none twice.
LEMMA NoFlags == /\ ToSet(<<>>) = {} /\ IsInjective(<<>>) /\ <<>> \in Seq(Flags)
                 /\ \A bad : NamesOnce(<<>>, bad)
<1>1. <<>> \in Seq(Flags) /\ Len(<<>>) = 0
  BY EmptySeq
<1>2. DOMAIN <<>> = 1 .. 0
  BY <1>1, LenProperties
<1>3. 1 .. 0 = {}
  OBVIOUS
<1> QED BY <1>1, <1>2, <1>3 DEF ToSet, IsInjective, NamesOnce

\* A list of flags names flags only.
LEMMA SetOfSeq ==
  ASSUME NEW s \in Seq(Flags)
  PROVE  ToSet(s) \subseteq Flags
  BY DEF ToSet

\* va_arg() takes the next flag off the list.
LEMMA TailSet ==
  ASSUME NEW s \in Seq(Flags), s # <<>>, IsInjective(s)
  PROVE  /\ Tail(s) \in Seq(Flags) /\ IsInjective(Tail(s))
         /\ Head(s) \in Flags /\ Head(s) \in ToSet(s)
         /\ ToSet(Tail(s)) = ToSet(s) \ {Head(s)}
<1> DEFINE u == Tail(s)
<1>1. /\ u \in Seq(Flags) /\ Len(u) = Len(s) - 1 /\ Len(s) \in Nat /\ Len(s) >= 1
      /\ \A i \in 1 .. Len(s) - 1 : u[i] = s[i + 1]
      /\ Head(s) = s[1] /\ s[1] \in Flags
  OBVIOUS
<1>2. DOMAIN s = 1 .. Len(s) /\ DOMAIN u = 1 .. Len(s) - 1
  BY <1>1
<1>3. \A i, j \in 1 .. Len(s) : s[i] = s[j] => i = j
  BY <1>2 DEF IsInjective
<1>4. IsInjective(u)
  <2> SUFFICES ASSUME NEW i \in 1 .. Len(s) - 1, NEW j \in 1 .. Len(s) - 1, u[i] = u[j]
               PROVE  i = j
    BY <1>2 DEF IsInjective
  <2>1. s[i + 1] = s[j + 1] /\ i + 1 \in 1 .. Len(s) /\ j + 1 \in 1 .. Len(s)
    BY <1>1
  <2> QED BY <1>3, <2>1, <1>1
<1>5. ToSet(u) = ToSet(s) \ {Head(s)}
  <2>1. ASSUME NEW f \in ToSet(u) PROVE f \in ToSet(s) \ {s[1]}
    <3>1. PICK i \in 1 .. Len(s) - 1 : f = u[i]
      BY <1>2 DEF ToSet
    <3>2. i + 1 \in 1 .. Len(s) /\ 1 \in 1 .. Len(s) /\ i + 1 # 1 /\ f = s[i + 1]
      BY <3>1, <1>1
    <3> QED BY <3>2, <1>3, <1>2 DEF ToSet
  <2>2. ASSUME NEW f \in ToSet(s), f # s[1] PROVE f \in ToSet(u)
    <3>1. PICK i \in 1 .. Len(s) : f = s[i]
      BY <1>2 DEF ToSet
    <3>2. i # 1
      BY <3>1, <2>2
    <3>3. i - 1 \in 1 .. Len(s) - 1 /\ (i - 1) + 1 = i
      BY <3>1, <3>2, <1>1
    <3>4. u[i - 1] = f
      BY <3>1, <3>3, <1>1
    <3> QED BY <3>3, <3>4, <1>2 DEF ToSet
  <2> QED BY <2>1, <2>2, <1>1
<1>6. Head(s) \in ToSet(s)
  BY <1>1, <1>2 DEF ToSet
<1> QED BY <1>1, <1>4, <1>5, <1>6

\* push_back() of the flags of a call to the list of its requester.
LEMMA ConcatSet ==
  ASSUME NEW s \in Seq(Flags), NEW u \in Seq(Flags), NEW bad
  PROVE  /\ s \o u \in Seq(Flags)
         /\ ToSet(s \o u) = ToSet(s) \cup ToSet(u)
         /\ NamesOnce(s, bad) /\ IsInjective(u) /\ ToSet(s) \cap ToSet(u) \subseteq bad
               => NamesOnce(s \o u, bad)
<1> DEFINE c == s \o u
<1>1. /\ c \in Seq(Flags) /\ Len(c) = Len(s) + Len(u) /\ Len(s) \in Nat /\ Len(u) \in Nat
      /\ DOMAIN c = 1 .. Len(s) + Len(u) /\ DOMAIN s = 1 .. Len(s) /\ DOMAIN u = 1 .. Len(u)
  OBVIOUS
<1>2. /\ \A i \in 1 .. Len(s) : c[i] = s[i]
      /\ \A i \in Len(s) + 1 .. Len(s) + Len(u) : c[i] = u[i - Len(s)]
  OBVIOUS
<1>3. ToSet(c) = ToSet(s) \cup ToSet(u)
  <2>1. ASSUME NEW f \in ToSet(c) PROVE f \in ToSet(s) \cup ToSet(u)
    <3>1. PICK i \in 1 .. Len(s) + Len(u) : f = c[i]
      BY <1>1 DEF ToSet
    <3>2. CASE i \in 1 .. Len(s)
      BY <3>1, <3>2, <1>1, <1>2 DEF ToSet
    <3>3. CASE i \in Len(s) + 1 .. Len(s) + Len(u)
      <4>1. i - Len(s) \in 1 .. Len(u) /\ f = u[i - Len(s)]
        BY <3>1, <3>3, <1>1, <1>2
      <4> QED BY <4>1, <1>1 DEF ToSet
    <3> QED BY <3>1, <3>2, <3>3, <1>1
  <2>2. ASSUME NEW f \in ToSet(s) PROVE f \in ToSet(c)
    <3>1. PICK i \in 1 .. Len(s) : f = s[i]
      BY <1>1 DEF ToSet
    <3>2. i \in 1 .. Len(s) + Len(u) /\ c[i] = f
      BY <3>1, <1>1, <1>2
    <3> QED BY <3>2, <1>1 DEF ToSet
  <2>3. ASSUME NEW f \in ToSet(u) PROVE f \in ToSet(c)
    <3>1. PICK i \in 1 .. Len(u) : f = u[i]
      BY <1>1 DEF ToSet
    <3>2. i + Len(s) \in Len(s) + 1 .. Len(s) + Len(u) /\ (i + Len(s)) - Len(s) = i
      BY <3>1, <1>1
    <3>3. i + Len(s) \in 1 .. Len(s) + Len(u) /\ c[i + Len(s)] = f
      BY <3>1, <3>2, <1>1, <1>2
    <3> QED BY <3>3, <1>1 DEF ToSet
  <2> QED BY <2>1, <2>2, <2>3
<1>4. ASSUME NamesOnce(s, bad), IsInjective(u), ToSet(s) \cap ToSet(u) \subseteq bad
      PROVE  NamesOnce(c, bad)
  <2>1. ASSUME NEW i \in 1 .. Len(s), NEW j \in Len(s) + 1 .. Len(s) + Len(u)
        PROVE  c[i] = c[j] => c[i] \in bad
    <3>1. c[i] \in ToSet(s)
      BY <1>1, <1>2 DEF ToSet
    <3>2. j - Len(s) \in 1 .. Len(u) /\ c[j] = u[j - Len(s)]
      BY <1>1, <1>2
    <3>3. c[j] \in ToSet(u)
      BY <3>2, <1>1 DEF ToSet
    <3> QED BY <3>1, <3>3, <1>4
  <2>2. ASSUME NEW i \in 1 .. Len(s), NEW j \in 1 .. Len(s), c[i] = c[j], c[i] \notin bad
        PROVE  i = j
    <3>1. s[i] = s[j] /\ s[i] \notin bad
      BY <2>2, <1>2
    <3> QED BY <3>1, <1>4, <1>1 DEF NamesOnce
  <2>3. ASSUME NEW i \in Len(s) + 1 .. Len(s) + Len(u), NEW j \in Len(s) + 1 .. Len(s) + Len(u),
               c[i] = c[j]
        PROVE  i = j
    <3>1. u[i - Len(s)] = u[j - Len(s)]
      BY <2>3, <1>2
    <3>2. i - Len(s) \in 1 .. Len(u) /\ j - Len(s) \in 1 .. Len(u)
      BY <1>1
    <3>3. i - Len(s) = j - Len(s)
      BY <3>1, <3>2, <1>4, <1>1 DEF IsInjective
    <3> QED BY <3>3, <1>1
  <2>4. 1 .. Len(s) + Len(u) = 1 .. Len(s) \cup Len(s) + 1 .. Len(s) + Len(u)
    BY <1>1
  <2> SUFFICES ASSUME NEW i \in 1 .. Len(s) + Len(u), NEW j \in 1 .. Len(s) + Len(u),
                      c[i] = c[j], c[i] \notin bad
               PROVE  i = j
    BY <1>1 DEF NamesOnce
  <2> HIDE DEF c
  <2> QED BY <2>1, <2>2, <2>3, <2>4
<1> QED BY <1>1, <1>3, <1>4

\* erase() of a list that names no flag twice but bad ones.
LEMMA RemoveAtSet ==
  ASSUME NEW s \in Seq(Flags), NEW i \in 1 .. Len(s), NEW bad, NamesOnce(s, bad)
  PROVE  /\ RemoveAt(s, i) \in Seq(Flags) /\ Len(RemoveAt(s, i)) = Len(s) - 1
         /\ NamesOnce(RemoveAt(s, i), bad)
         /\ ToSet(RemoveAt(s, i)) \subseteq ToSet(s)
         /\ ToSet(s) \ {s[i]} \subseteq ToSet(RemoveAt(s, i))
         /\ s[i] \in ToSet(RemoveAt(s, i)) => s[i] \in bad
<1> DEFINE a1 == SubSeq(s, 1, i - 1)
           a2 == SubSeq(s, i + 1, Len(s))
           r  == a1 \o a2
           old(k) == IF k < i THEN k ELSE k + 1
<1>1. Len(s) \in Nat /\ i \in Nat /\ i <= Len(s) /\ DOMAIN s = 1 .. Len(s)
      /\ \A k \in 1 .. Len(s) : s[k] \in Flags
  OBVIOUS
<1>2. a1 \in Seq(Flags) /\ Len(a1) = i - 1 /\ \A k \in 1 .. i - 1 : a1[k] = s[k]
  <2>1. 1 \in Int /\ i - 1 \in Int /\ \A k \in 1 .. i - 1 : s[k] \in Flags
    BY <1>1
  <2>2. /\ a1 \in Seq(Flags) /\ Len(a1) = IF 1 <= i - 1 THEN i - 1 - 1 + 1 ELSE 0
        /\ \A k \in 1 .. i - 1 - 1 + 1 : a1[k] = s[1 + k - 1]
    BY <2>1, SubSeqProperties
  <2>3. i - 1 - 1 + 1 = i - 1 /\ \A k \in 1 .. i - 1 : 1 + k - 1 = k
    BY <1>1
  <2> QED BY <2>2, <2>3, <1>1
<1>3. a2 \in Seq(Flags) /\ Len(a2) = Len(s) - i /\ \A k \in 1 .. Len(s) - i : a2[k] = s[k + i]
  <2>1. i + 1 \in Int /\ Len(s) \in Int /\ \A k \in i + 1 .. Len(s) : s[k] \in Flags
    BY <1>1
  <2>2. /\ a2 \in Seq(Flags) /\ Len(a2) = IF i + 1 <= Len(s) THEN Len(s) - (i + 1) + 1 ELSE 0
        /\ \A k \in 1 .. Len(s) - (i + 1) + 1 : a2[k] = s[(i + 1) + k - 1]
    BY <2>1, SubSeqProperties
  <2>3. Len(s) - (i + 1) + 1 = Len(s) - i /\ \A k \in 1 .. Len(s) - i : (i + 1) + k - 1 = k + i
    BY <1>1
  <2> HIDE DEF a2
  <2>4. Len(a2) = Len(s) - i
    <3>1. Len(a2) = IF i + 1 <= Len(s) THEN Len(s) - i ELSE 0
      BY <2>2, <2>3
    <3>2. CASE i + 1 <= Len(s)
      BY <3>1, <3>2
    <3>3. CASE ~(i + 1 <= Len(s))
      <4>1. i + 1 > Len(s) /\ i = Len(s)
        BY <3>3, Len(s) \in Nat, i \in Nat, i <= Len(s)
      <4> QED BY <4>1, <3>1, <3>3
    <3> QED BY <3>2, <3>3
  <2> QED BY <2>2, <2>3, <2>4
<1>4. /\ r \in Seq(Flags) /\ Len(r) = Len(s) - 1 /\ DOMAIN r = 1 .. Len(s) - 1
      /\ \A k \in 1 .. Len(s) - 1 : r[k] = IF k <= i - 1 THEN a1[k] ELSE a2[k - (i - 1)]
  <2>1. /\ r \in Seq(Flags) /\ Len(r) = Len(a1) + Len(a2)
        /\ \A k \in 1 .. Len(a1) + Len(a2) : r[k] = IF k <= Len(a1) THEN a1[k] ELSE a2[k - Len(a1)]
    BY <1>2, <1>3, ConcatProperties
  <2> HIDE DEF a1, a2
  <2>2. Len(a1) + Len(a2) = Len(s) - 1
    BY <1>1, <1>2, <1>3
  <2>3. DOMAIN r = 1 .. Len(r)
    BY <2>1, LenProperties
  <2> QED BY <2>1, <2>2, <2>3, <1>2
<1>5. \A k \in 1 .. Len(s) - 1 : r[k] = s[old(k)]
  <2> SUFFICES ASSUME NEW k \in 1 .. Len(s) - 1 PROVE r[k] = s[old(k)]
    OBVIOUS
  <2>1. CASE k < i
    <3>1. k \in 1 .. i - 1 /\ k <= i - 1
      BY <2>1, <1>1
    <3>2. r[k] = a1[k]
      BY <3>1, <1>4
    <3> QED BY <3>1, <3>2, <2>1, <1>2
  <2>2. CASE ~(k < i)
    <3>1. k - (i - 1) \in 1 .. Len(s) - i /\ (k - (i - 1)) + i = k + 1 /\ ~(k <= i - 1)
      BY <2>2, <1>1
    <3>2. r[k] = a2[k - (i - 1)]
      BY <3>1, <1>4
    <3>3. a2[k - (i - 1)] = s[k + 1]
      BY <3>1, <1>3
    <3> QED BY <3>2, <3>3, <2>2
  <2> QED BY <2>1, <2>2
<1>6. \A k \in 1 .. Len(s) - 1 : old(k) \in 1 .. Len(s) /\ old(k) # i
  BY <1>1
<1>7. \A j, k \in 1 .. Len(s) : s[j] = s[k] /\ s[j] \notin bad => j = k
  BY <1>1 DEF NamesOnce
<1>8. NamesOnce(r, bad)
  <2> SUFFICES ASSUME NEW j \in 1 .. Len(s) - 1, NEW k \in 1 .. Len(s) - 1,
                      r[j] = r[k], r[j] \notin bad
               PROVE  j = k
    BY <1>4 DEF NamesOnce
  <2>1. s[old(j)] = s[old(k)] /\ s[old(j)] \notin bad
    <3>1. r[j] = s[old(j)] /\ r[k] = s[old(k)]
      BY <1>5
    <3> HIDE DEF r, old
    <3> QED BY <3>1
  <2>2. PICK x \in 1 .. Len(s) : x = old(j)
    BY <1>6
  <2>3. PICK y \in 1 .. Len(s) : y = old(k)
    BY <1>6
  <2>4. s[x] = s[y] /\ s[x] \notin bad
    BY <2>1, <2>2, <2>3
  <2>5. x = y
    BY <2>4, <1>7
  <2> QED BY <2>2, <2>3, <2>5, <1>1
<1>9. /\ ToSet(r) \subseteq ToSet(s) /\ ToSet(s) \ {s[i]} \subseteq ToSet(r)
      /\ s[i] \in ToSet(r) => s[i] \in bad
  <2>1. ASSUME NEW f \in ToSet(r) PROVE f \in ToSet(s) /\ (f = s[i] => s[i] \in bad)
    <3>1. PICK k \in 1 .. Len(s) - 1 : f = r[k]
      BY <1>4 DEF ToSet
    <3>2. f = s[old(k)] /\ old(k) \in 1 .. Len(s) /\ old(k) # i
      BY <3>1, <1>5, <1>6
    <3>3. f = s[i] => s[i] \in bad
      BY <3>2, <1>7
    <3> QED BY <3>2, <3>3, <1>1 DEF ToSet
  <2>2. ASSUME NEW f \in ToSet(s), f # s[i] PROVE f \in ToSet(r)
    <3>1. PICK k \in 1 .. Len(s) : f = s[k]
      BY <1>1 DEF ToSet
    <3>2. k # i
      BY <3>1, <2>2
    <3>3. CASE k < i
      <4>1. k \in 1 .. Len(s) - 1 /\ old(k) = k
        BY <3>3, <1>1
      <4> QED BY <4>1, <3>1, <1>4, <1>5 DEF ToSet
    <3>4. CASE k > i
      <4>1. k - 1 \in 1 .. Len(s) - 1 /\ old(k - 1) = k
        BY <3>4, <1>1
      <4> QED BY <4>1, <3>1, <1>4, <1>5 DEF ToSet
    <3> QED BY <3>2, <3>3, <3>4, <1>1
  <2> QED BY <2>1, <2>2
<1> QED BY <1>4, <1>8, <1>9 DEF RemoveAt

-----------------------------------------------------------------------------
(* The inductive invariant, and what a step of one requester has to show *)

\* The conjuncts of the invariant that speak of one requester.
CallOK(t) ==
  /\ pc[t] = "check" => (ToSet(args[t]) \ ToSet(todo[t])) \cap files \subseteq amiss
  /\ pc[t] = "create" => ToSet(todo[t]) \cap files \subseteq amiss
  /\ Held(t) \subseteq files \cup amiss
  /\ IsInjective(args[t]) /\ IsInjective(todo[t]) /\ NamesOnce(mLocks[t], amiss)
  /\ ToSet(todo[t]) \subseteq ToSet(args[t])
  /\ pc[t] \in {"check", "create"} => flockBy = ProcOf[t] /\ args[t] # <<>>
  /\ pc[t] = "create" => /\ ToSet(args[t]) \ ToSet(todo[t]) \subseteq files \cup amiss
                         /\ ToSet(args[t]) \cap ToSet(mLocks[t]) \subseteq amiss

Inside(t) == pc[t] \in {"check", "create"}

\* The invariant is one of the types, of the pairs of requesters and of each requester.
LEMMA InvSplit == IInv <=> TypeOK /\ Exclusive /\ \A t \in Threads : CallOK(t)
  BY DEF IInv, CheckedStaysFree, HeldHasFile, CallInv, CallOK

\* What is allowed of the flags that are amiss stays allowed when more of them are.
LEMMA NamesOnceGrows ==
  ASSUME NEW s, NEW bad, NEW worse, bad \subseteq worse, NamesOnce(s, bad)
  PROVE  NamesOnce(s, worse)
  BY DEF NamesOnce

\* With one requester per OS process, flock() lets one into sysFlagsIntLock() at a time.
LEMMA OneInside ==
  ASSUME IInv, OneThreadEach, NEW t \in Threads, NEW u \in Threads, Inside(t), Inside(u)
  PROVE  t = u
  BY InvSplit DEF CallOK, Inside, OneThreadEach

\* A step of t keeps the invariant when it leaves the calls of the others and their
\* files alone, and the lock file and what is free while another is inside.
LEMMA StepOf ==
  ASSUME IInv, TypeOK', NEW t \in Threads, CallOK(t)', amiss \subseteq amiss',
         \A u \in Threads \ {t} :
            /\ pc'[u] = pc[u] /\ args'[u] = args[u] /\ todo'[u] = todo[u] /\ mLocks'[u] = mLocks[u]
            /\ Inside(u) => flockBy' = flockBy /\ files' \subseteq files
            /\ Owned(u) \cap files \subseteq files' \cup amiss'
            /\ Owned(t)' \cap Owned(u) \subseteq amiss'
  PROVE  IInv'
<1>1. TypeOK /\ Exclusive /\ \A u \in Threads : CallOK(u)
  BY InvSplit
<1>2. \A u \in Threads \ {t} : Owned(u)' = Owned(u)
  BY DEF Owned, Held, Taking
<1>3. Exclusive'
  <2> SUFFICES ASSUME NEW u \in Threads, NEW v \in Threads, u # v
               PROVE  Owned(u)' \cap Owned(v)' \subseteq amiss'
    BY DEF Exclusive
  <2>1. CASE u = t
    BY <2>1, <1>2
  <2>2. CASE v = t
    BY <2>2, <1>2
  <2>3. CASE u # t /\ v # t
    BY <2>3, <1>1, <1>2 DEF Exclusive
  <2> QED BY <2>1, <2>2, <2>3
<1>4. ASSUME NEW u \in Threads \ {t} PROVE CallOK(u)'
  <2>1. /\ pc'[u] = pc[u] /\ args'[u] = args[u] /\ todo'[u] = todo[u] /\ mLocks'[u] = mLocks[u]
        /\ Inside(u) => flockBy' = flockBy /\ files' \subseteq files
        /\ Owned(u) \cap files \subseteq files' \cup amiss'
        /\ CallOK(u)
    BY <1>1, <1>4
  <2>2. Held(u)' \subseteq files' \cup amiss'
    BY <2>1 DEF CallOK, Held, Owned
  <2>3. pc[u] = "create" => ToSet(args[u]) \ ToSet(todo[u]) \subseteq files' \cup amiss'
    BY <2>1 DEF CallOK, Owned, Taking
  <2>4. NamesOnce(mLocks[u], amiss')
    BY <2>1, NamesOnceGrows DEF CallOK
  <2> QED BY <2>1, <2>2, <2>3, <2>4 DEF CallOK, Inside
<1>5. \A u \in Threads : CallOK(u)'
  BY <1>4
<1> QED BY <1>3, <1>5 DEF IInv, CheckedStaysFree, HeldHasFile, CallInv, CallOK

-----------------------------------------------------------------------------
(* The steps of sysFlagsIntLock() *)

\* Whoever gets the lock file finds no one inside.
LEMMA LockFileKeeps ==
  ASSUME IInv, OneThreadEach, NEW t \in Threads, NEW flags \in Requests, LockFile(t, flags)
  PROVE  IInv'
<1>1. TypeOK /\ CallOK(t) /\ Exclusive /\ ProcOf[t] \in Processes
  BY InvSplit DEF Processes
<1>2. flags \in Seq(Flags) /\ flags # <<>> /\ IsInjective(flags)
  BY SysFlagsAssumption
<1>3. pc[t] = "idle" /\ pc' = [pc EXCEPT ![t] = "check"]
  BY DEF LockFile, Goto
<1>4. TypeOK'
  BY <1>1, <1>2, <1>3 DEF LockFile, TypeOK
<1>5. CallOK(t)'
  BY <1>1, <1>2, <1>3 DEF LockFile, TypeOK, CallOK, Held
<1>6. ASSUME NEW u \in Threads \ {t}
      PROVE  ~Inside(u) /\ Owned(t)' \cap Owned(u) \subseteq amiss'
  <2>1. Inside(u) => ProcOf[u] = ProcOf[t]
    BY <1>1, InvSplit, SysFlagsAssumption DEF LockFile, FlockGranted, CallOK, Inside, Processes
  <2>2. Owned(t)' \subseteq Owned(t)
    BY <1>1, <1>3 DEF LockFile, TypeOK, Owned, Taking, Held
  <2>3. amiss' = amiss
    BY DEF LockFile
  <2> QED BY <2>1, <2>2, <2>3, <1>1 DEF OneThreadEach, Exclusive
<1> QED BY <1>1, <1>3, <1>4, <1>5, <1>6, StepOf DEF LockFile, TypeOK, Owned, Taking

\* One more flag was found free.
LEMMA FlagCheckKeeps ==
  ASSUME IInv, NEW t \in Threads, FlagCheck(t)
  PROVE  IInv'
<1>1. TypeOK /\ CallOK(t) /\ Exclusive
  BY InvSplit
<1>2. /\ todo[t] \in Seq(Flags) /\ todo[t] # <<>> /\ IsInjective(todo[t])
      /\ pc[t] = "check" /\ pc' = pc
      /\ amiss' = amiss \cup ({Head(todo[t])} \cap files)
  BY <1>1 DEF FlagCheck, Goto, TypeOK, CallOK
<1>3. /\ Tail(todo[t]) \in Seq(Flags) /\ IsInjective(Tail(todo[t])) /\ Head(todo[t]) \in Flags
      /\ ToSet(Tail(todo[t])) = ToSet(todo[t]) \ {Head(todo[t])}
  BY <1>2, TailSet
<1>4. todo' = [todo EXCEPT ![t] = Tail(todo[t])]
  BY DEF FlagCheck
<1>5. TypeOK'
  BY <1>1, <1>2, <1>3, <1>4 DEF FlagCheck, TypeOK
<1>6. CallOK(t)'
  <2>1. todo'[t] = Tail(todo[t]) /\ args' = args /\ mLocks' = mLocks /\ files' = files /\ flockBy' = flockBy
    BY <1>1, <1>4 DEF FlagCheck, TypeOK
  <2>2. NamesOnce(mLocks[t], amiss')
    BY <1>1, <1>2, NamesOnceGrows DEF CallOK
  <2> QED BY <1>1, <1>2, <1>3, <2>1, <2>2 DEF CallOK, Held
<1>7. \A u \in Threads \ {t} : Owned(t)' \cap Owned(u) \subseteq amiss'
  BY <1>1, <1>2 DEF FlagCheck, Owned, Taking, Held, Exclusive
<1> QED BY <1>1, <1>2, <1>4, <1>5, <1>6, <1>7, StepOf DEF FlagCheck, TypeOK

\* A call that ends without its flags leaves nothing behind.
LEMMA FlagTakenKeeps ==
  ASSUME IInv, OneThreadEach, NEW t \in Threads, FlagTaken(t)
  PROVE  IInv'
<1>1. TypeOK /\ CallOK(t) /\ Exclusive
  BY InvSplit
<1>2. pc[t] = "check" /\ pc' = [pc EXCEPT ![t] = "idle"] /\ Inside(t)
  BY DEF FlagTaken, Goto, Inside
<1>3. TypeOK'
  BY <1>1, <1>2, NoFlags DEF FlagTaken, FlockRelease, TypeOK
<1>4. CallOK(t)'
  BY <1>1, <1>2, NoFlags DEF FlagTaken, TypeOK, CallOK, Held
<1>5. ASSUME NEW u \in Threads \ {t}
      PROVE  ~Inside(u) /\ Owned(t)' \cap Owned(u) \subseteq amiss'
  <2>1. Owned(t)' \subseteq Owned(t)
    BY <1>1, <1>2 DEF FlagTaken, TypeOK, Owned, Taking, Held
  <2>2. amiss' = amiss
    BY DEF FlagTaken
  <2> QED BY <2>1, <2>2, <1>1, <1>2, OneInside DEF Exclusive
<1> QED BY <1>1, <1>2, <1>3, <1>4, <1>5, StepOf DEF FlagTaken, TypeOK, Owned, Taking

\* All flags were found free, so nobody has one; nobody else is looking for his.
LEMMA FlagsAvailableKeeps ==
  ASSUME IInv, OneThreadEach, NEW t \in Threads, FlagsAvailable(t)
  PROVE  IInv'
<1>1. TypeOK /\ CallOK(t) /\ Exclusive
  BY InvSplit
<1>2. /\ pc[t] = "check" /\ pc' = [pc EXCEPT ![t] = "create"] /\ Inside(t)
      /\ todo[t] = <<>> /\ todo' = [todo EXCEPT ![t] = args[t]]
  BY DEF FlagsAvailable, Goto, Inside
<1>3. ToSet(args[t]) \cap files \subseteq amiss
  BY <1>1, <1>2, NoFlags DEF CallOK
<1>4. TypeOK'
  BY <1>1, <1>2 DEF FlagsAvailable, TypeOK
<1>5. CallOK(t)'
  <2>1. /\ pc'[t] = "create" /\ todo'[t] = args[t]
        /\ args' = args /\ mLocks' = mLocks /\ files' = files /\ flockBy' = flockBy
        /\ amiss' = amiss
    BY <1>1, <1>2 DEF FlagsAvailable, TypeOK
  <2> QED BY <1>1, <1>2, <1>3, <2>1 DEF CallOK, Held
<1>6. ASSUME NEW u \in Threads \ {t}
      PROVE  ~Inside(u) /\ Owned(t)' \cap Owned(u) \subseteq amiss'
  <2>1. ~Inside(u)
    BY <1>2, OneInside
  <2>2. Owned(u) \subseteq files \cup amiss /\ amiss' = amiss
    BY <2>1, InvSplit DEF FlagsAvailable, CallOK, Owned, Taking, Inside
  <2>3. Owned(t)' = Held(t) \cup ToSet(args[t])
    BY <1>1, <1>2 DEF FlagsAvailable, TypeOK, Owned, Taking, Held
  <2>4. Held(t) \cap Owned(u) \subseteq amiss
    BY <1>1 DEF Exclusive, Owned
  <2> QED BY <2>1, <2>2, <2>3, <2>4, <1>3
<1> QED BY <1>1, <1>2, <1>4, <1>5, <1>6, StepOf DEF FlagsAvailable, TypeOK

\* A flag is created while the lock file is locked: no one was told that it is free.
LEMMA FlagCreateKeeps ==
  ASSUME IInv, OneThreadEach, NEW t \in Threads, FlagCreate(t)
  PROVE  IInv'
<1>1. TypeOK /\ CallOK(t) /\ Exclusive
  BY InvSplit
<1>2. /\ todo[t] \in Seq(Flags) /\ todo[t] # <<>> /\ IsInjective(todo[t])
      /\ pc[t] = "create" /\ pc' = pc /\ Inside(t)
  BY <1>1 DEF FlagCreate, Goto, TypeOK, CallOK, Inside
<1>3. /\ Tail(todo[t]) \in Seq(Flags) /\ IsInjective(Tail(todo[t]))
      /\ Head(todo[t]) \in Flags
      /\ ToSet(Tail(todo[t])) = ToSet(todo[t]) \ {Head(todo[t])}
  BY <1>2, TailSet
<1>4. /\ todo' = [todo EXCEPT ![t] = Tail(todo[t])]
      /\ \/ files' = files \cup {Head(todo[t])} /\ amiss' = amiss
         \/ files' = files /\ amiss' = amiss \cup {Head(todo[t])}
  BY DEF FlagCreate
<1>5. TypeOK'
  BY <1>1, <1>2, <1>3, <1>4 DEF FlagCreate, TypeOK
<1>6. CallOK(t)'
  <2>1. todo'[t] = Tail(todo[t]) /\ args' = args /\ mLocks' = mLocks /\ flockBy' = flockBy
    BY <1>1, <1>4 DEF FlagCreate, TypeOK
  <2>2. NamesOnce(mLocks[t], amiss')
    BY <1>1, <1>4, NamesOnceGrows DEF CallOK
  <2> QED BY <1>1, <1>2, <1>3, <1>4, <2>1, <2>2 DEF CallOK, Held
<1>7. ASSUME NEW u \in Threads \ {t}
      PROVE  ~Inside(u) /\ Owned(t)' \cap Owned(u) \subseteq amiss'
  <2>1. Owned(t)' = Owned(t)
    BY <1>2 DEF FlagCreate, Owned, Taking, Held
  <2> QED BY <2>1, <1>1, <1>2, <1>4, OneInside DEF Exclusive
<1> QED BY <1>1, <1>2, <1>4, <1>5, <1>6, <1>7, StepOf DEF FlagCreate, TypeOK

\* What was created goes to the list of the requester.
LEMMA LocksRecordKeeps ==
  ASSUME IInv, OneThreadEach, NEW t \in Threads, LocksRecord(t)
  PROVE  IInv'
<1>1. TypeOK /\ CallOK(t) /\ Exclusive
  BY InvSplit
<1>2. pc[t] = "create" /\ pc' = [pc EXCEPT ![t] = "idle"] /\ Inside(t) /\ todo[t] = <<>>
  BY DEF LocksRecord, Goto, Inside
<1>3. mLocks[t] \in Seq(Flags) /\ args[t] \in Seq(Flags) /\ Len(mLocks[t]) \in Nat
  BY <1>1 DEF TypeOK
<1> DEFINE both == mLocks[t] \o args[t]
<1>4. /\ both \in Seq(Flags) /\ ToSet(both) = ToSet(mLocks[t]) \cup ToSet(args[t])
      /\ NamesOnce(both, amiss)
      /\ Len(both) = Len(mLocks[t]) + Len(args[t]) /\ Len(args[t]) \in Nat
  BY <1>1, <1>2, <1>3, ConcatSet, ConcatProperties DEF CallOK
<1>5. mLocks' = [mLocks EXCEPT ![t] = both] /\ args' = [args EXCEPT ![t] = <<>>]
  BY DEF LocksRecord
<1> HIDE DEF both
<1>6. TypeOK'
  <2>1. iuLock[t] \in Nat /\ iuLock[t] <= Len(mLocks[t]) /\ iuLock[t] <= Len(both)
    BY <1>1, <1>3, <1>4 DEF TypeOK
  <2> QED BY <2>1, <1>1, <1>2, <1>4, <1>5, NoFlags DEF LocksRecord, FlockRelease, TypeOK
<1>7. CallOK(t)'
  <2>1. /\ pc'[t] = "idle" /\ mLocks'[t] = both /\ args'[t] = <<>>
        /\ todo' = todo /\ files' = files /\ amiss' = amiss
    BY <1>1, <1>2, <1>5 DEF LocksRecord, TypeOK
  <2> QED BY <1>1, <1>2, <1>4, <2>1, NoFlags DEF CallOK, Held
<1>8. ASSUME NEW u \in Threads \ {t}
      PROVE  ~Inside(u) /\ Owned(t)' \cap Owned(u) \subseteq amiss'
  <2>1. Owned(t)' = Owned(t)
    BY <1>1, <1>2, <1>4, <1>5 DEF TypeOK, Owned, Taking, Held
  <2>2. amiss' = amiss
    BY DEF LocksRecord
  <2> QED BY <2>1, <2>2, <1>1, <1>2, OneInside DEF Exclusive
<1> QED BY <1>1, <1>2, <1>5, <1>6, <1>7, <1>8, StepOf DEF LocksRecord, TypeOK, Owned, Taking

-----------------------------------------------------------------------------
(* The steps of sysFlagsIntUnlock() *)

\* The iterator begins with the first flag of the list.
LEMMA UnlockStartKeeps ==
  ASSUME IInv, NEW t \in Threads, UnlockStart(t)
  PROVE  IInv'
<1>1. TypeOK /\ CallOK(t) /\ Exclusive
  BY InvSplit
<1>2. /\ pc[t] = "idle" /\ pc' = [pc EXCEPT ![t] = "remove"]
      /\ mLocks[t] # <<>> /\ iuLock' = [iuLock EXCEPT ![t] = 1]
  BY DEF UnlockStart, Goto
<1>3. TypeOK'
  <2>1. Len(mLocks[t]) >= 1
    BY <1>1, <1>2 DEF TypeOK
  <2> QED BY <2>1, <1>1, <1>2 DEF UnlockStart, TypeOK
<1>4. CallOK(t)'
  BY <1>1, <1>2 DEF UnlockStart, TypeOK, CallOK, Held
<1>5. \A u \in Threads \ {t} : Owned(t)' \cap Owned(u) \subseteq amiss'
  BY <1>1, <1>2 DEF UnlockStart, TypeOK, Owned, Taking, Held, Exclusive
<1> QED BY <1>1, <1>2, <1>3, <1>4, <1>5, StepOf DEF UnlockStart, TypeOK

\* What a step of sysFlagsIntUnlock() leaves: one entry less in the list, one file less
\* or one more flag that is amiss, and an iterator within the list or no longer used.
LEMMA LockEraseEffect ==
  ASSUME IInv, NEW t \in Threads, LockErase(t)
  PROVE  LET flag == mLocks[t][iuLock[t]]
             rest == RemoveAt(mLocks[t], iuLock[t])
         IN /\ flag \in Held(t) /\ flag \in Flags
            /\ rest \in Seq(Flags) /\ NamesOnce(rest, amiss)
            /\ ToSet(rest) \subseteq Held(t) /\ Held(t) \ {flag} \subseteq ToSet(rest)
            /\ flag \in ToSet(rest) => flag \in amiss
            /\ \/ files' = files \ {flag} /\ amiss' = amiss
               \/ files' = files /\ amiss' = amiss \cup {flag}
            /\ mLocks' = [mLocks EXCEPT ![t] = rest]
            /\ pc[t] = "remove" /\ pc'[t] \in {"idle", "remove"}
            /\ pc' = [pc EXCEPT ![t] = pc'[t]]
            /\ iuLock' = [iuLock EXCEPT ![t] = iuLock'[t]]
            /\ iuLock'[t] \in Nat /\ iuLock'[t] <= Len(rest)
            /\ pc'[t] = "remove" <=> iuLock'[t] > 0
<1> DEFINE pos  == iuLock[t]
           len  == Len(mLocks[t])
           flag == mLocks[t][pos]
           rest == RemoveAt(mLocks[t], pos)
           next == AfterErase(pos, len)
<1>1. TypeOK /\ CallOK(t)
  BY InvSplit
<1>2. /\ pc[t] = "remove" /\ pc' = [pc EXCEPT ![t] = IF next = len THEN "idle" ELSE "remove"]
      /\ \/ files' = files \ {flag} /\ amiss' = amiss
         \/ files' = files /\ amiss' = amiss \cup {flag}
      /\ mLocks' = [mLocks EXCEPT ![t] = rest]
      /\ iuLock' = [iuLock EXCEPT ![t] = IF pc'[t] = "idle" THEN 0 ELSE next]
  BY DEF LockErase, Goto, FlagRemove
<1>3. /\ mLocks[t] \in Seq(Flags) /\ NamesOnce(mLocks[t], amiss)
      /\ len \in Nat /\ pos \in 1 .. len
  BY <1>1, <1>2 DEF TypeOK, CallOK
<1>4. /\ rest \in Seq(Flags) /\ Len(rest) = len - 1 /\ NamesOnce(rest, amiss)
      /\ ToSet(rest) \subseteq ToSet(mLocks[t]) /\ ToSet(mLocks[t]) \ {flag} \subseteq ToSet(rest)
      /\ flag \in ToSet(rest) => flag \in amiss
  BY <1>3, RemoveAtSet
<1>5. flag \in ToSet(mLocks[t]) /\ flag \in Flags
  BY <1>3 DEF ToSet
<1>6. next \in 1 .. len
  BY <1>3 DEF AfterErase
<1>7. /\ pc'[t] = IF next = len THEN "idle" ELSE "remove"
      /\ iuLock'[t] = IF pc'[t] = "idle" THEN 0 ELSE next
  BY <1>1, <1>2 DEF TypeOK
<1> HIDE DEF pos, len, flag, rest, next
<1>8. /\ iuLock'[t] \in Nat /\ iuLock'[t] <= len - 1
      /\ pc'[t] = "remove" <=> iuLock'[t] > 0
  <2>1. CASE next = len
    BY <2>1, <1>3, <1>6, <1>7
  <2>2. CASE next # len
    BY <2>2, <1>3, <1>6, <1>7
  <2> QED BY <2>1, <2>2
<1>9. pc' = [pc EXCEPT ![t] = pc'[t]] /\ iuLock' = [iuLock EXCEPT ![t] = iuLock'[t]]
  BY <1>1, <1>2, <1>7 DEF TypeOK
<1> QED BY <1>2, <1>4, <1>5, <1>7, <1>8, <1>9 DEF Held, flag, rest, pos

\* A requester removes only files of flags that are its own.
LEMMA LockEraseKeeps ==
  ASSUME IInv, NEW t \in Threads, LockErase(t)
  PROVE  IInv'
<1> DEFINE flag == mLocks[t][iuLock[t]]
           rest == RemoveAt(mLocks[t], iuLock[t])
<1>1. TypeOK /\ CallOK(t) /\ Exclusive
  BY InvSplit
<1>2. /\ flag \in Held(t) /\ flag \in Flags /\ rest \in Seq(Flags) /\ NamesOnce(rest, amiss)
      /\ ToSet(rest) \subseteq Held(t) /\ (flag \in ToSet(rest) => flag \in amiss)
      /\ \/ files' = files \ {flag} /\ amiss' = amiss
         \/ files' = files /\ amiss' = amiss \cup {flag}
      /\ mLocks' = [mLocks EXCEPT ![t] = rest]
      /\ pc[t] = "remove" /\ pc'[t] \in {"idle", "remove"} /\ pc' = [pc EXCEPT ![t] = pc'[t]]
      /\ iuLock' = [iuLock EXCEPT ![t] = iuLock'[t]]
      /\ iuLock'[t] \in Nat /\ iuLock'[t] <= Len(rest) /\ (pc'[t] = "remove" <=> iuLock'[t] > 0)
  BY LockEraseEffect
<1>3. UNCHANGED <<fdLockDefault, flockBy, args, todo>>
  BY DEF LockErase
<1> HIDE DEF flag, rest
<1>4. TypeOK'
  <2>1. \A u \in Threads : iuLock'[u] <= Len(mLocks'[u]) /\ (pc'[u] = "remove" <=> iuLock'[u] > 0)
    <3>1. iuLock'[t] <= Len(mLocks'[t]) /\ (pc'[t] = "remove" <=> iuLock'[t] > 0)
      BY <1>1, <1>2 DEF TypeOK
    <3>2. ASSUME NEW u \in Threads \ {t}
          PROVE  iuLock'[u] = iuLock[u] /\ mLocks'[u] = mLocks[u] /\ pc'[u] = pc[u]
      BY <1>1, <1>2 DEF TypeOK
    <3> QED BY <3>1, <3>2, <1>1 DEF TypeOK
  <2>2. files' \subseteq Flags /\ amiss' \subseteq Flags /\ pc' \in [Threads -> {"idle", "check", "create", "remove"}]
    BY <1>1, <1>2 DEF TypeOK
  <2>3. mLocks' \in [Threads -> Seq(Flags)]
    BY <1>1, <1>2 DEF TypeOK
  <2>4. iuLock' \in [Threads -> Nat]
    BY <1>1, <1>2 DEF TypeOK
  <2> QED BY <2>1, <2>2, <2>3, <2>4, <1>1, <1>3 DEF TypeOK
<1>5. Held(t)' = ToSet(rest)
  BY <1>1, <1>2 DEF TypeOK, Held
<1>6. CallOK(t)'
  <2>1. mLocks'[t] = rest /\ NamesOnce(rest, amiss')
    BY <1>1, <1>2, NamesOnceGrows DEF TypeOK
  <2>2. ToSet(rest) \subseteq files' \cup amiss'
    BY <1>1, <1>2 DEF CallOK
  <2> QED BY <1>1, <1>2, <1>3, <1>5, <2>1, <2>2 DEF CallOK
<1>7. ASSUME NEW u \in Threads \ {t}
      PROVE  Owned(t)' \cap Owned(u) \subseteq amiss' /\ Owned(u) \cap files \subseteq files' \cup amiss'
  <2>1. Owned(t) \cap Owned(u) \subseteq amiss /\ Held(t) \subseteq Owned(t)
    BY <1>1 DEF Exclusive, Owned
  <2>2. Owned(t)' \subseteq Owned(t)
    BY <1>2, <1>5 DEF Owned, Taking
  <2> QED BY <2>1, <2>2, <1>2
<1> QED BY <1>1, <1>2, <1>3, <1>4, <1>6, <1>7, StepOf DEF TypeOK

-----------------------------------------------------------------------------
(* The steps of an OS process *)

\* Opening the lock file gives no lock.
LEMMA OpenKeeps ==
  ASSUME IInv, NEW p \in Processes, lockDirDefaultOpen(p)
  PROVE  IInv'
<1>1. TypeOK'
  BY DEF IInv, TypeOK, lockDirDefaultOpen
<1>2. UNCHANGED <<flockBy, files, amiss, pc, args, todo, mLocks>>
  BY DEF lockDirDefaultOpen
<1> QED BY <1>1, <1>2
        DEF IInv, Exclusive, CheckedStaysFree, HeldHasFile, CallInv, Owned, Held, Taking

\* The lock file is closed only while no call of the OS process is inside.
LEMMA CloseKeeps ==
  ASSUME IInv, NEW p \in Processes, lockDirDefaultClose(p)
  PROVE  IInv'
<1>1. TypeOK'
  BY DEF IInv, TypeOK, lockDirDefaultClose
<1>2. UNCHANGED <<files, amiss, pc, args, todo, mLocks>>
  BY DEF lockDirDefaultClose
<1>3. Exclusive' /\ CheckedStaysFree' /\ HeldHasFile'
  BY <1>2 DEF IInv, Exclusive, CheckedStaysFree, HeldHasFile, Owned, Held, Taking
<1>4. \A t \in Threads : Inside(t) => flockBy' = flockBy
  BY DEF lockDirDefaultClose, IInv, CallInv, Inside
<1>5. CallInv'
  BY <1>2, <1>4 DEF IInv, CallInv, Inside
<1> QED BY <1>1, <1>3, <1>5 DEF IInv

\* The flags of a crashed OS process stay taken: its requesters own less, no file goes.
LEMMA CrashKeeps ==
  ASSUME IInv, NEW p \in Processes, ProcessCrash(p)
  PROVE  IInv'
<1>1. TypeOK /\ Exclusive /\ \A t \in Threads : CallOK(t)
  BY InvSplit
<1>2. ASSUME NEW t \in Threads
      PROVE  \/ /\ pc'[t] = "idle" /\ args'[t] = <<>> /\ todo'[t] = <<>>
                /\ mLocks'[t] = <<>> /\ iuLock'[t] = 0
             \/ /\ pc'[t] = pc[t] /\ args'[t] = args[t] /\ todo'[t] = todo[t]
                /\ mLocks'[t] = mLocks[t] /\ iuLock'[t] = iuLock[t] /\ ProcOf[t] # p
  BY DEF ProcessCrash
<1>3. files' = files /\ amiss' = amiss /\ (flockBy # p => flockBy' = flockBy)
  BY DEF ProcessCrash
<1>4. TypeOK'
  <2>1. /\ fdLockDefault' \in [Processes -> {"zero", "open", "failed", "closed"}]
        /\ flockBy' \in Processes \cup {NoProc} /\ files' \subseteq Flags /\ amiss' \subseteq Flags
    BY <1>1 DEF ProcessCrash, TypeOK
  <2>2. /\ pc' \in [Threads -> {"idle", "check", "create", "remove"}]
        /\ args' \in [Threads -> Seq(Flags)] /\ todo' \in [Threads -> Seq(Flags)]
        /\ mLocks' \in [Threads -> Seq(Flags)] /\ iuLock' \in [Threads -> Nat]
    BY <1>1, NoFlags DEF ProcessCrash, TypeOK
  <2>3. ASSUME NEW t \in Threads
        PROVE  iuLock'[t] <= Len(mLocks'[t]) /\ (pc'[t] = "remove" <=> iuLock'[t] > 0)
    <3>1. iuLock[t] <= Len(mLocks[t]) /\ (pc[t] = "remove" <=> iuLock[t] > 0)
      BY <1>1 DEF TypeOK
    <3>2. Len(<<>>) = 0
      BY EmptySeq
    <3> QED BY <3>1, <3>2, <1>2
  <2> QED BY <2>1, <2>2, <2>3 DEF TypeOK
<1>5. ASSUME NEW t \in Threads PROVE Owned(t)' \subseteq Owned(t)
  BY <1>2, NoFlags DEF Owned, Held, Taking
<1>6. Exclusive'
  BY <1>1, <1>3, <1>5 DEF Exclusive
<1>7. ASSUME NEW t \in Threads PROVE CallOK(t)'
  BY <1>1, <1>2, <1>3, NoFlags DEF CallOK, Held
<1> QED BY <1>4, <1>6, <1>7 DEF IInv, CheckedStaysFree, HeldHasFile, CallInv, CallOK

-----------------------------------------------------------------------------
(* The theorems.  OneThreadEach is about the constants: it says that the   *)
(* requesters are in OS processes of their own.                            *)

\* No flag exists at first.
LEMMA InitIInv == Init => IInv
<1> SUFFICES ASSUME Init PROVE IInv
  OBVIOUS
<1>1. TypeOK
  BY NoFlags, EmptySeq DEF Init, TypeOK
<1> QED BY <1>1, NoFlags
        DEF Init, IInv, Exclusive, CheckedStaysFree, HeldHasFile, CallInv, Owned, Held, Taking

\* Every step keeps the invariant.
LEMMA NextIInv == OneThreadEach /\ IInv /\ [Next]_vars => IInv'
<1> SUFFICES ASSUME OneThreadEach, IInv, [Next]_vars PROVE IInv'
  OBVIOUS
<1>1. ASSUME NEW p \in Processes, lockDirDefaultOpen(p) PROVE IInv'
  BY <1>1, OpenKeeps
<1>2. ASSUME NEW p \in Processes, lockDirDefaultClose(p) PROVE IInv'
  BY <1>2, CloseKeeps
<1>3. ASSUME NEW p \in Processes, ProcessCrash(p) PROVE IInv'
  BY <1>3, CrashKeeps
<1>4. ASSUME NEW t \in Threads, NEW flags \in Requests, LockFile(t, flags) PROVE IInv'
  BY <1>4, LockFileKeeps
<1>5. ASSUME NEW t \in Threads, LockSteps(t) PROVE IInv'
  BY <1>5, FlagCheckKeeps, FlagTakenKeeps, FlagsAvailableKeeps, FlagCreateKeeps, LocksRecordKeeps
     DEF LockSteps
<1>6. ASSUME NEW t \in Threads, UnlockStart(t) PROVE IInv'
  BY <1>6, UnlockStartKeeps
<1>7. ASSUME NEW t \in Threads, LockErase(t) PROVE IInv'
  BY <1>7, LockEraseKeeps
<1>8. CASE UNCHANGED vars
  BY <1>8 DEF vars, IInv, TypeOK, Exclusive, CheckedStaysFree, HeldHasFile, CallInv, Owned, Held, Taking
<1> QED BY <1>1, <1>2, <1>3, <1>4, <1>5, <1>6, <1>7, <1>8 DEF Next

\* The invariant of the calls, for any number of requesters in OS processes of their own.
THEOREM FlagsInvariance == OneThreadEach => (Spec => []IInv)
<1> SUFFICES ASSUME OneThreadEach PROVE Spec => []IInv
  OBVIOUS
<1>1. IInv /\ [Next]_vars => IInv'
  BY NextIInv
<1> QED BY InitIInv, <1>1, PTL DEF Spec

\* The types of the lock file, of the flags and of the calls in progress.
THEOREM FlagsTypes == OneThreadEach => (Spec => []TypeOK)
<1>1. IInv => TypeOK
  BY DEF IInv
<1> QED BY <1>1, FlagsInvariance, PTL

\* No flag is taken by two requesters, whatever the order of the calls and the crashes,
\* but one whose own fopen() or remove() failed.
THEOREM FlagsExclusive == OneThreadEach => (Spec => []Exclusive)
<1>1. IInv => Exclusive
  BY DEF IInv
<1> QED BY <1>1, FlagsInvariance, PTL

\* What fileExists() found free stays free until it is created, as long as it was found
\* free because there was no file.
THEOREM FlagsStayFree == OneThreadEach => (Spec => []CheckedStaysFree)
<1>1. IInv => CheckedStaysFree
  BY DEF IInv
<1> QED BY <1>1, FlagsInvariance, PTL

\* The flags a requester was told it has are on the disk, whatever failed on others.
THEOREM FlagsOnDisk == OneThreadEach => (Spec => []HeldHasFile)
<1>1. IInv => HeldHasFile
  BY DEF IInv
<1> QED BY <1>1, FlagsInvariance, PTL

-----------------------------------------------------------------------------
(* The calls implement FlagOwners. *)

OwnedAll == [t \in Threads |-> Owned(t) \ amiss]
Lost     == files \ (amiss \cup UNION {Owned(t) : t \in Threads})

\* What no one owns, in terms of the requesters one by one.
LEMMA LostMember ==
    \A f : f \in Lost <=> f \in files /\ f \notin amiss /\ \A t \in Threads : f \notin Owned(t)
  BY DEF Lost

\* No requester owns more or less, and only files that are owned appear: nothing happens.
LEMMA StutterMapped ==
  ASSUME \A t \in Threads : Owned(t)' = Owned(t), amiss' = amiss,
         \E t \in Threads : files \subseteq files' /\ files' \subseteq files \cup Owned(t) \cup amiss
  PROVE  UNCHANGED <<OwnedAll, Lost, amiss>>
<1>1. OwnedAll' = OwnedAll
  BY DEF OwnedAll
<1>2. Lost' = Lost
  BY DEF Lost
<1> QED BY <1>1, <1>2

\* A failed fopen() or remove() takes its flag, and no other, out of the promise.
LEMMA SpoilMapped ==
  ASSUME NEW f \in Flags, f \notin amiss, amiss' = amiss \cup {f}, files' = files,
         \A t \in Threads : Owned(t)' \ {f} = Owned(t) \ {f}
  PROVE  Owners!OwnersNext
<1>1. OwnedAll' = [t \in Threads |-> OwnedAll[t] \ {f}]
  <2>1. \A t \in Threads : Owned(t)' \ amiss' = (Owned(t) \ amiss) \ {f}
    OBVIOUS
  <2> QED BY <2>1 DEF OwnedAll
<1>2. Lost' = Lost \ {f}
  <2>1. \A g : g \in Lost' <=> g \in files' /\ g \notin amiss' /\ \A t \in Threads : g \notin Owned(t)'
    BY DEF Lost
  <2>2. \A g : g # f => \A t \in Threads : g \in Owned(t)' <=> g \in Owned(t)
    OBVIOUS
  <2>3. \A g : g \in Lost' <=> g \in Lost /\ g # f
    BY <2>1, <2>2, LostMember
  <2> QED BY <2>3
<1>3. Owners!Spoil(f)
  BY <1>1, <1>2 DEF Owners!Spoil, OwnedAll, Lost
<1> QED BY <1>3 DEF Owners!OwnersNext

\* All that sysFlagsIntLock() found free becomes the requester's in one step.
LEMMA AcquireMapped ==
  ASSUME IInv, OneThreadEach, NEW t \in Threads, FlagsAvailable(t)
  PROVE  Owners!OwnersNext \/ UNCHANGED <<OwnedAll, Lost, amiss>>
<1> DEFINE all == ToSet(args[t])
           fs  == all \ amiss
<1>1. TypeOK /\ CallOK(t)
  BY InvSplit
<1>2. /\ pc[t] = "check" /\ pc' = [pc EXCEPT ![t] = "create"] /\ Inside(t)
      /\ UNCHANGED <<files, amiss, args, mLocks>> /\ todo[t] = <<>>
  BY DEF FlagsAvailable, Goto, Inside
<1>3. args[t] \in Seq(Flags) /\ all \cap files \subseteq amiss
  BY <1>1, <1>2, NoFlags DEF TypeOK, CallOK
<1>4. fs \subseteq Flags
  BY <1>3, SetOfSeq
<1>5. ASSUME NEW u \in Threads PROVE Owned(u) \subseteq files \cup amiss
  <2>1. u # t => ~Inside(u)
    BY <1>2, OneInside
  <2> QED BY <2>1, <1>2, InvSplit DEF CallOK, Owned, Taking, Inside
<1>6. Owned(t)' = Owned(t) \cup all /\ \A u \in Threads \ {t} : Owned(u)' = Owned(u)
  BY <1>1, <1>2 DEF TypeOK, Owned, Taking, Held
<1> HIDE DEF all
<1>7. OwnedAll' = [OwnedAll EXCEPT ![t] = @ \cup fs]
  <2>1. \A u \in Threads : Owned(u)' \ amiss' = IF u = t THEN (Owned(u) \ amiss) \cup fs
                                                         ELSE Owned(u) \ amiss
    BY <1>2, <1>6
  <2> HIDE DEF fs
  <2> QED BY <2>1 DEF OwnedAll
<1>8. Lost' = Lost
  <2>1. \A f : f \in Lost' <=> f \in files' /\ f \notin amiss' /\ \A u \in Threads : f \notin Owned(u)'
    BY DEF Lost
  <2>2. \A f \in files \ amiss : \A u \in Threads : f \in Owned(u)' <=> f \in Owned(u)
    BY <1>3, <1>6
  <2>3. \A f : f \in Lost' <=> f \in Lost
    BY <2>1, <2>2, <1>2, LostMember
  <2> QED BY <2>3
<1>9. \A f \in fs : f \notin Lost \cup amiss /\ \A u \in Threads : f \notin OwnedAll[u]
  BY <1>3, <1>5 DEF Lost, OwnedAll
<1> HIDE DEF fs
<1>10. CASE fs = {}
  <2>1. OwnedAll' = OwnedAll
    BY <1>7, <1>10 DEF OwnedAll
  <2> QED BY <2>1, <1>2, <1>8
<1>11. CASE fs # {}
  <2>1. Owners!Acquire(t, fs)
    BY <1>2, <1>7, <1>8, <1>9, <1>11 DEF Owners!Acquire, Owners!Free, OwnedAll, Lost
  <2> QED BY <2>1, <1>4 DEF Owners!OwnersNext
<1> QED BY <1>10, <1>11

\* A step of sysFlagsIntUnlock() releases one flag, spoils it, or is about one that is.
LEMMA ReleaseMapped ==
  ASSUME IInv, NEW t \in Threads, LockErase(t)
  PROVE  Owners!OwnersNext \/ UNCHANGED <<OwnedAll, Lost, amiss>>
<1> DEFINE flag == mLocks[t][iuLock[t]]
           rest == RemoveAt(mLocks[t], iuLock[t])
<1>1. TypeOK /\ Exclusive /\ args' = args
  BY DEF LockErase, IInv
<1>2. /\ flag \in Held(t) /\ flag \in Flags
      /\ ToSet(rest) \subseteq Held(t) /\ Held(t) \ {flag} \subseteq ToSet(rest)
      /\ flag \in ToSet(rest) => flag \in amiss
      /\ \/ files' = files \ {flag} /\ amiss' = amiss
         \/ files' = files /\ amiss' = amiss \cup {flag}
      /\ mLocks' = [mLocks EXCEPT ![t] = rest]
      /\ pc[t] = "remove" /\ pc'[t] \in {"idle", "remove"} /\ pc' = [pc EXCEPT ![t] = pc'[t]]
  BY LockEraseEffect
<1> HIDE DEF flag, rest
<1>3. Owned(t)' = ToSet(rest) /\ Owned(t) = Held(t) /\ flag \in Owned(t)
  BY <1>1, <1>2 DEF TypeOK, Owned, Taking, Held
<1>4. \A u \in Threads \ {t} : Owned(u)' = Owned(u)
  BY <1>1, <1>2 DEF TypeOK, Owned, Taking, Held
<1>5. \A u \in Threads : Owned(u)' \ {flag} = Owned(u) \ {flag}
  BY <1>2, <1>3, <1>4
<1>6. CASE flag \in amiss
  <2>1. amiss' = amiss /\ files' \ {flag} = files \ {flag}
    BY <1>2, <1>6
  <2>2. OwnedAll' = OwnedAll
    <3>1. \A u \in Threads : Owned(u)' \ amiss' = Owned(u) \ amiss
      BY <2>1, <1>5, <1>6
    <3> QED BY <3>1 DEF OwnedAll
  <2>3. Lost' = Lost
    <3>1. \A f : f \in Lost' <=> f \in files' /\ f \notin amiss' /\ \A u \in Threads : f \notin Owned(u)'
      BY DEF Lost
    <3>2. \A f : f # flag => \A u \in Threads : f \in Owned(u)' <=> f \in Owned(u)
      BY <1>5
    <3>3. \A f : f \in Lost' <=> f \in Lost
      BY <3>1, <3>2, <2>1, <1>6, LostMember
    <3> QED BY <3>3
  <2> QED BY <2>1, <2>2, <2>3
<1>7. CASE flag \notin amiss /\ amiss' # amiss
  <2>1. files' = files /\ amiss' = amiss \cup {flag}
    BY <1>2, <1>7
  <2> QED BY <2>1, <1>2, <1>5, <1>7, SpoilMapped
<1>8. CASE flag \notin amiss /\ amiss' = amiss
  <2>1. files' = files \ {flag}
    BY <1>2, <1>8
  <2>2. Owned(t)' = Owned(t) \ {flag} /\ \A u \in Threads \ {t} : flag \notin Owned(u)
    BY <1>1, <1>2, <1>3, <1>8 DEF Exclusive
  <2>3. OwnedAll' = [OwnedAll EXCEPT ![t] = @ \ {flag}]
    <3>1. \A u \in Threads : Owned(u)' \ amiss' = IF u = t THEN (Owned(u) \ amiss) \ {flag}
                                                           ELSE Owned(u) \ amiss
      BY <2>2, <1>4, <1>8
    <3> QED BY <3>1 DEF OwnedAll
  <2>4. Lost' = Lost
    <3>1. \A f : f \in Lost' <=> f \in files' /\ f \notin amiss' /\ \A u \in Threads : f \notin Owned(u)'
      BY DEF Lost
    <3>2. \A f : f # flag => \A u \in Threads : f \in Owned(u)' <=> f \in Owned(u)
      BY <1>5
    <3>3. flag \notin Lost /\ flag \notin Lost'
      BY <2>1, <1>3, <3>1, LostMember
    <3>4. ASSUME NEW f, f # flag PROVE f \in Lost' <=> f \in Lost
      <4>1. f \in files' <=> f \in files
        BY <2>1, <3>4
      <4>2. \A u \in Threads : f \in Owned(u)' <=> f \in Owned(u)
        BY <3>2, <3>4
      <4> QED BY <3>1, <4>1, <4>2, <1>8, LostMember
    <3>5. \A f : f \in Lost' <=> f \in Lost
      BY <3>3, <3>4
    <3> QED BY <3>5
  <2>5. flag \in OwnedAll[t]
    BY <1>3, <1>8 DEF OwnedAll
  <2>6. Owners!Release(t, flag)
    BY <2>3, <2>4, <2>5, <1>8 DEF Owners!Release, OwnedAll, Lost
  <2> QED BY <2>6, <1>2 DEF Owners!OwnersNext
<1> QED BY <1>6, <1>7, <1>8

\* A flag of a crashed requester is lost when its file exists, free when it does not yet.
LEMMA CrashMapped ==
  ASSUME IInv, NEW p \in Processes, ProcessCrash(p)
  PROVE  Owners!OwnersNext
<1> DEFINE ts == {t \in Threads : ProcOf[t] = p}
           fs == (files \ amiss) \cap UNION {Owned(t) : t \in ts}
<1>1. Exclusive /\ files' = files /\ amiss' = amiss
  BY DEF ProcessCrash, IInv
<1>2. ASSUME NEW t \in Threads PROVE Owned(t)' = IF t \in ts THEN {} ELSE Owned(t)
  BY NoFlags DEF ProcessCrash, Owned, Held, Taking
<1>3. OwnedAll' = [t \in Threads |-> IF t \in ts THEN {} ELSE OwnedAll[t]]
  <2>1. \A t \in Threads : Owned(t)' \ amiss' = IF t \in ts THEN {} ELSE Owned(t) \ amiss
    BY <1>1, <1>2
  <2> QED BY <2>1 DEF OwnedAll
<1>4. Lost' = Lost \cup fs
  <2>1. \A f : f \in Lost' <=> /\ f \in files /\ f \notin amiss
                               /\ \A t \in Threads \ ts : f \notin Owned(t)
    BY <1>1, <1>2 DEF Lost
  <2>2. \A f : f \in fs <=> f \in files /\ f \notin amiss /\ \E t \in ts : f \in Owned(t)
    OBVIOUS
  <2>3. \A f : f \notin amiss /\ (\E t \in ts : f \in Owned(t))
               => \A u \in Threads \ ts : f \notin Owned(u)
    BY <1>1 DEF Exclusive
  <2>4. \A f : (\A t \in Threads : f \notin Owned(t))
               <=> (\A t \in ts : f \notin Owned(t)) /\ \A t \in Threads \ ts : f \notin Owned(t)
    OBVIOUS
  <2> HIDE DEF fs, ts
  <2> QED BY <2>1, <2>2, <2>3, <2>4, LostMember
<1>5. fs \in SUBSET UNION {OwnedAll[t] : t \in ts}
  BY DEF OwnedAll
<1>6. Owners!Crash(ts)
  <2> HIDE DEF fs, ts
  <2> QED BY <1>1, <1>3, <1>4, <1>5 DEF Owners!Crash, OwnedAll, Lost
<1> QED BY <1>6 DEF Owners!OwnersNext

\* At first no one owns a flag and none is lost.
LEMMA OwnersInitMapped == Init => Owners!OwnersInit
  BY NoFlags DEF Init, Owners!OwnersInit, Owned, Held, Taking

\* fileExists() changes nothing, or spoils the flag that it missed.
LEMMA FlagCheckMapped ==
  ASSUME IInv, NEW t \in Threads, FlagCheck(t)
  PROVE  Owners!OwnersNext \/ UNCHANGED <<OwnedAll, Lost, amiss>>
<1>1. TypeOK /\ CallOK(t)
  BY InvSplit
<1>2. /\ pc' = pc /\ todo[t] # <<>> /\ files' = files
      /\ amiss' = amiss \cup ({Head(todo[t])} \cap files)
      /\ args' = args /\ mLocks' = mLocks
  BY <1>1 DEF FlagCheck, Goto, TypeOK
<1>3. \A u \in Threads : Owned(u)' = Owned(u)
  BY <1>2 DEF Owned, Held, Taking
<1>4. Head(todo[t]) \in Flags
  BY <1>1, <1>2, TailSet DEF TypeOK, CallOK
<1>5. CASE amiss' = amiss
  BY <1>2, <1>3, <1>5, StutterMapped
<1>6. CASE amiss' # amiss
  <2>1. amiss' = amiss \cup {Head(todo[t])} /\ Head(todo[t]) \notin amiss
    BY <1>2, <1>6
  <2> QED BY <2>1, <1>2, <1>3, <1>4, SpoilMapped
<1> QED BY <1>5, <1>6

\* fileCreate() makes the file of a flag that is owned already, or spoils the flag.
LEMMA FlagCreateMapped ==
  ASSUME IInv, NEW t \in Threads, FlagCreate(t)
  PROVE  Owners!OwnersNext \/ UNCHANGED <<OwnedAll, Lost, amiss>>
<1>1. TypeOK /\ CallOK(t)
  BY InvSplit
<1>2. /\ pc[t] = "create" /\ pc' = pc /\ todo[t] # <<>> /\ args' = args /\ mLocks' = mLocks
      /\ \/ files' = files \cup {Head(todo[t])} /\ amiss' = amiss
         \/ files' = files /\ amiss' = amiss \cup {Head(todo[t])}
  BY <1>1 DEF FlagCreate, Goto, TypeOK
<1>3. \A u \in Threads : Owned(u)' = Owned(u)
  BY <1>2 DEF Owned, Held, Taking
<1>4. Head(todo[t]) \in Flags /\ Head(todo[t]) \in Owned(t)
  BY <1>1, <1>2, TailSet DEF TypeOK, CallOK, Owned, Taking
<1>5. CASE amiss' = amiss
  <2>1. files \subseteq files' /\ files' \subseteq files \cup Owned(t) \cup amiss
    BY <1>2, <1>4
  <2> QED BY <2>1, <1>3, <1>5, StutterMapped
<1>6. CASE amiss' # amiss
  <2>1. amiss' = amiss \cup {Head(todo[t])} /\ Head(todo[t]) \notin amiss /\ files' = files
    BY <1>2, <1>6
  <2> QED BY <2>1, <1>3, <1>4, SpoilMapped
<1> QED BY <1>5, <1>6

\* Every step is one of FlagOwners or changes nothing there.
LEMMA OwnersStepMapped ==
  OneThreadEach /\ IInv /\ [Next]_vars => [Owners!OwnersNext]_<<OwnedAll, Lost, amiss>>
<1> SUFFICES ASSUME OneThreadEach, IInv, [Next]_vars
             PROVE  Owners!OwnersNext \/ UNCHANGED <<OwnedAll, Lost, amiss>>
  OBVIOUS
<1>1. TypeOK
  BY DEF IInv
<1>2. ASSUME NEW p \in Processes, lockDirDefaultOpen(p) \/ lockDirDefaultClose(p)
      PROVE  UNCHANGED <<OwnedAll, Lost, amiss>>
  BY <1>2 DEF lockDirDefaultOpen, lockDirDefaultClose, OwnedAll, Lost, Owned, Held, Taking
<1>3. ASSUME NEW t \in Threads, NEW flags \in Requests, LockFile(t, flags)
      PROVE  UNCHANGED <<OwnedAll, Lost, amiss>>
  <2>1. \A u \in Threads : Owned(u)' = Owned(u)
    BY <1>1, <1>3 DEF LockFile, Goto, TypeOK, Owned, Held, Taking
  <2>2. files' = files /\ amiss' = amiss
    BY <1>3 DEF LockFile
  <2> QED BY <2>1, <2>2, StutterMapped
<1>4. ASSUME NEW t \in Threads, FlagTaken(t) \/ UnlockStart(t)
      PROVE  UNCHANGED <<OwnedAll, Lost, amiss>>
  <2>1. \A u \in Threads : Owned(u)' = Owned(u)
    BY <1>1, <1>4 DEF FlagTaken, UnlockStart, Goto, TypeOK, Owned, Held, Taking
  <2>2. files' = files /\ amiss' = amiss
    BY <1>4 DEF FlagTaken, UnlockStart
  <2> QED BY <2>1, <2>2, StutterMapped
<1>5. ASSUME NEW t \in Threads, FlagCheck(t)
      PROVE  Owners!OwnersNext \/ UNCHANGED <<OwnedAll, Lost, amiss>>
  BY <1>5, FlagCheckMapped
<1>6. ASSUME NEW t \in Threads, FlagCreate(t)
      PROVE  Owners!OwnersNext \/ UNCHANGED <<OwnedAll, Lost, amiss>>
  BY <1>6, FlagCreateMapped
<1>7. ASSUME NEW t \in Threads, LocksRecord(t)
      PROVE  UNCHANGED <<OwnedAll, Lost, amiss>>
  <2>1. /\ pc[t] = "create" /\ pc' = [pc EXCEPT ![t] = "idle"] /\ files' = files /\ amiss' = amiss
        /\ mLocks' = [mLocks EXCEPT ![t] = mLocks[t] \o args[t]] /\ args' = [args EXCEPT ![t] = <<>>]
    BY <1>7 DEF LocksRecord, Goto
  <2>2. ToSet(mLocks[t] \o args[t]) = Held(t) \cup ToSet(args[t])
    BY <1>1, ConcatSet DEF TypeOK, Held
  <2>3. \A u \in Threads : Owned(u)' = Owned(u)
    BY <1>1, <2>1, <2>2 DEF TypeOK, Owned, Held, Taking
  <2> QED BY <2>1, <2>3, StutterMapped
<1>8. ASSUME NEW t \in Threads, FlagsAvailable(t)
      PROVE  Owners!OwnersNext \/ UNCHANGED <<OwnedAll, Lost, amiss>>
  BY <1>8, AcquireMapped
<1>9. ASSUME NEW t \in Threads, LockErase(t)
      PROVE  Owners!OwnersNext \/ UNCHANGED <<OwnedAll, Lost, amiss>>
  BY <1>9, ReleaseMapped
<1>10. ASSUME NEW p \in Processes, ProcessCrash(p) PROVE Owners!OwnersNext
  BY <1>10, CrashMapped
<1>11. CASE UNCHANGED vars
  BY <1>11 DEF vars, OwnedAll, Lost, Owned, Held, Taking
<1> QED BY <1>2, <1>3, <1>4, <1>5, <1>6, <1>7, <1>8, <1>9, <1>10, <1>11 DEF Next, LockSteps

\* The calls, and the crashes and failures between any two of their file operations, give
\* each requester all of its flags or none, and never one that is owned or was lost in a
\* crash; a failure takes only its own flag out of this.
THEOREM FlagsImplemented == OneThreadEach => (Spec => ImplementsOwners)
<1> SUFFICES ASSUME OneThreadEach PROVE Spec => ImplementsOwners
  OBVIOUS
<1>1. IInv /\ [Next]_vars => [Owners!OwnersNext]_<<OwnedAll, Lost, amiss>>
  BY OwnersStepMapped
<1>2. Spec => []IInv
  BY FlagsInvariance
<1> QED BY OwnersInitMapped, <1>1, <1>2, PTL
        DEF Spec, ImplementsOwners, Owners!OwnersSpec, OwnedAll, Lost

=============================================================================
