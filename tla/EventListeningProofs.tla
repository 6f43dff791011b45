------------------------ MODULE EventListeningProofs ------------------------
(***************************************************************************)
(* Proofs about EventListening.cpp for any number of sockets and events    *)
(* and every value of the timeouts: where the sockets are, how old a       *)
(* connection or an event may get, and that none is dropped too early.     *)
(*                                                                         *)
(* The invariant speaks of ages, that is of differences to the clock, and  *)
(* never of the time stamps, that wrap.  What may be that old depends on   *)
(* where the tick is: each list is looked through once a tick, so that     *)
(* before it is an entry may have waited for one more Period than after.   *)
(***************************************************************************)
EXTENDS EventListening, FiniteSetTheorems, SequenceTheorems, WellFoundedInduction, TLAPS

Times == 0 .. Word - 1
Conns == [fd : Fds, start : Times]

TypeSockets ==
    /\ pending \in Seq(Fds) /\ conns \in Seq(Conns)
    /\ data \in [Fds -> Data] /\ inTime \in [Fds -> BOOLEAN]

TypeTick ==
    /\ clock \in Times /\ now \in Times /\ late \in 0 .. Period
    /\ events \in [Refs -> {None} \cup Times]
    /\ pc \in {"start", "idle", "timeouts", "receive", "dequeue", "broken"}
    /\ pos \in Nat \ {0} /\ iter \in Refs \cup {End}
    /\ broken \in {"no", "null", "iter"}

\* No socket is at two places, and a closed one has no data.
Apart ==
    /\ Len(conns) <= OpenMax
    /\ \A i, j \in DOMAIN pending : pending[i] = pending[j] => i = j
    /\ \A i, j \in DOMAIN conns : conns[i].fd = conns[j].fd => i = j
    /\ \A i \in DOMAIN pending, j \in DOMAIN conns : pending[i] # conns[j].fd
    /\ \A fd \in Fds \ Open : data[fd] = Nothing

Begun ==
    /\ pc = "start" => conns = <<>> /\ Queued = {}
    /\ pc = "broken" <=> broken # "no"

\* A connection has been looked at in this tick, unless its timeouts are still to come.
ConnLimit == DataMax + late + IF pc = "timeouts" THEN Period ELSE 0
ConnAges  == \A i \in DOMAIN conns : Age(conns[i].start) <= ConnLimit

\* An event that the loop has passed in this tick.
Swept(ref)      == pc = "idle" \/ (pc = "dequeue" /\ (iter = End \/ ref < iter))
EventLimit(ref) == DequeueMax + late + IF Swept(ref) THEN 0 ELSE Period
EventAges       == \A ref \in Queued : Age(events[ref]) <= EventLimit(ref)

\* The time the loop has kept is not older than this tick, and no event is younger.
Snapshot == pc = "dequeue" => /\ Age(now) <= late
                              /\ \A ref \in Queued : Age(now) <= Age(events[ref])

\* While nobody else calls pop() the loop stands on an event.
IterThere == ~ClientThreads => /\ broken # "iter"
                               /\ pc = "dequeue" /\ iter # End => events[iter] # None

\* Data that came in time: it lies there, and it is read before the timeouts are looked at
\* once more, or before they are looked at the time after next.
TimelyLimit(i) == DataMax + late
                  + IF pc = "timeouts" \/ (pc = "receive" /\ i >= pos) THEN Period ELSE 0
Timely ==
    /\ \A fd \in Fds : inTime[fd] => data[fd] # Nothing
    /\ Period < DataMax =>
          \A i \in DOMAIN conns : inTime[conns[i].fd] =>
              Age(conns[i].start) + 2 * Period < TimelyLimit(i)

IInv == /\ TypeSockets /\ TypeTick /\ Apart /\ Begun
        /\ ConnAges /\ EventAges /\ Snapshot /\ IterThere /\ Timely

-----------------------------------------------------------------------------
(* The clock *)

\* A difference of two readings is a reading.
LEMMA ElapsedType ==
  ASSUME NEW a \in Times, NEW b \in Times
  PROVE  /\ Elapsed(a, b) \in Times
         /\ Elapsed(a, a) = 0
BY EventAssumption DEF Times, Elapsed

\* As long as a difference does not wrap itself, it grows with the clock.
LEMMA ElapsedGrows ==
  ASSUME NEW a \in Times, NEW b \in Times, NEW c \in Times, Elapsed(a, b) < Word - 1,
         c = IF b = Word - 1 THEN 0 ELSE b + 1
  PROVE  Elapsed(a, c) = Elapsed(a, b) + 1
BY EventAssumption DEF Times, Elapsed

\* Of two readings the one further back is older by what lies between them.
LEMMA ElapsedBetween ==
  ASSUME NEW a \in Times, NEW b \in Times, NEW c \in Times, Elapsed(b, c) <= Elapsed(a, c)
  PROVE  Elapsed(a, b) = Elapsed(a, c) - Elapsed(b, c)
BY EventAssumption DEF Times, Elapsed

\* Every set of naturals has a least element: the intervals from 0 to its elements are
\* finite, and one of them is contained in all the others.
LEMMA LeastNatural ==
  ASSUME NEW S \in SUBSET Nat, S # {}
  PROVE  \E x \in S : \A y \in S : x <= y
<1> DEFINE Intervals == {0 .. x : x \in S}
<1>1. ASSUME NEW x \in S PROVE 0 .. x \in FiniteSubsetsOf(Nat)
  <2>1. IsFiniteSet(0 .. x) /\ 0 .. x \subseteq Nat
    BY FS_Interval
  <2> QED BY <2>1 DEF FiniteSubsetsOf
<1>2. Intervals \subseteq FiniteSubsetsOf(Nat) /\ Intervals # {}
  BY <1>1
<1> HIDE DEF Intervals
<1>3. PICK I \in Intervals : \A J \in Intervals : <<J, I>> \notin StrictSubsetOrdering(Nat)
  BY <1>2, FS_StrictSubsetOrderingWellFounded, WFMin
<1>4. PICK x \in S : I = 0 .. x
  BY DEF Intervals
<1>5. ASSUME NEW y \in S PROVE x <= y
  <2>1. <<0 .. y, 0 .. x>> \notin StrictSubsetOrdering(Nat)
    BY <1>3, <1>4 DEF Intervals
  <2>2. SUFFICES ASSUME y < x PROVE FALSE
    OBVIOUS
  <2>3. 0 .. y \subseteq 0 .. x /\ 0 .. y # 0 .. x /\ 0 .. x \subseteq Nat
    BY <2>2
  <2> QED BY <2>1, <2>3, Zenon DEF StrictSubsetOrdering
<1> QED BY <1>5

\* The first element of a set of references, so that the map has one.
LEMMA MinOfRefs ==
  ASSUME NEW S \in SUBSET Refs, S # {}
  PROVE  Min(S) \in S /\ \A r \in S : Min(S) <= r
<1>1. \E x \in S : \A y \in S : x <= y
  BY LeastNatural, EventAssumption
<1> QED BY <1>1 DEF Min

\* The iteration goes on at the next event that is there, past none.
LEMMA Next1Gives ==
  ASSUME TypeTick, NEW ref \in Refs \cup {End}
  PROVE  /\ Next1(ref) \in Refs \cup {End}
         /\ Next1(ref) # End => events[Next1(ref)] # None /\ Next1(ref) > ref
         /\ \A r \in Queued : r > ref => Next1(ref) # End /\ Next1(ref) <= r
<1> DEFINE after == {r \in Queued : r > ref}
<1>1. Next1(ref) = IF after = {} THEN End ELSE Min(after)
  BY DEF Next1
<1>2. CASE after = {}
  BY <1>1, <1>2
<1>3. CASE after # {}
  <2>1. Min(after) \in after /\ \A r \in after : Min(after) <= r
    BY <1>3, MinOfRefs DEF Queued
  <2>2. Next1(ref) = Min(after) /\ Next1(ref) \in Queued
    BY <1>1, <1>3, <2>1
  <2>3. Next1(ref) \in Refs /\ events[Next1(ref)] # None
    BY <2>2 DEF Queued
  <2>4. Next1(ref) # End
    BY <2>3, EventAssumption DEF End
  <2> QED BY <2>1, <2>2, <2>3, <2>4
<1> QED BY <1>2, <1>3

-----------------------------------------------------------------------------
(* Where the sockets are *)

\* A list without repetitions has as many entries as elements.
LEMMA DistinctCount ==
  ASSUME NEW n \in Nat, NEW T, NEW f \in [1 .. n -> T],
         \A i, j \in 1 .. n : f[i] = f[j] => i = j,
         \A t \in T : \E i \in 1 .. n : f[i] = t
  PROVE  IsFiniteSet(T) /\ Cardinality(T) = n
<1>1. f \in Bijection(1 .. n, T)
  BY Zenon DEF Bijection, Injection, Surjection, IsInjective
<1>2. ExistsBijection(1 .. n, T)
  BY <1>1, Zenon DEF ExistsBijection
<1>3. IsFiniteSet(1 .. n) /\ Cardinality(1 .. n) = n
  BY FS_Interval
<1> QED BY <1>2, <1>3, FS_Bijection

\* Sockets that are apart are counted once each.
LEMMA ApartCounts ==
  ASSUME TypeSockets, Apart
  PROVE  SocketsAccounted
<1> DEFINE P == {pending[i] : i \in 1 .. Len(pending)}
           C == {conns[i].fd : i \in 1 .. Len(conns)}
           fds == [i \in 1 .. Len(conns) |-> conns[i].fd]
<1>1. /\ Len(pending) \in Nat /\ DOMAIN pending = 1 .. Len(pending)
      /\ pending \in [1 .. Len(pending) -> Fds]
      /\ Len(conns) \in Nat /\ DOMAIN conns = 1 .. Len(conns)
      /\ conns \in [1 .. Len(conns) -> Conns]
  BY LenProperties DEF TypeSockets
<1>2. IsFiniteSet(P) /\ Cardinality(P) = Len(pending)
  <2>1. \A i, j \in 1 .. Len(pending) : pending[i] = pending[j] => i = j
    BY <1>1 DEF Apart
  <2>2. pending \in [1 .. Len(pending) -> P] /\ \A t \in P : \E i \in 1 .. Len(pending) : pending[i] = t
    BY <1>1
  <2> HIDE DEF P
  <2> QED BY <1>1, <2>1, <2>2, DistinctCount
<1>3. IsFiniteSet(C) /\ Cardinality(C) = Len(conns)
  <2>1. fds \in [1 .. Len(conns) -> C] /\ \A t \in C : \E i \in 1 .. Len(conns) : fds[i] = t
    OBVIOUS
  <2>2. \A i, j \in 1 .. Len(conns) : fds[i] = fds[j] => i = j
    BY <1>1 DEF Apart
  <2> HIDE DEF fds, C
  <2> QED BY <1>1, <2>1, <2>2, DistinctCount
<1>4. P \cap C = {}
  BY <1>1 DEF Apart
<1>5. Open = P \cup C
  BY <1>1 DEF Open, Held, Range
<1> HIDE DEF P, C
<1>6. Cardinality(Open) = Len(pending) + Len(conns)
  <2>1. Cardinality(P \cup C) = Cardinality(P) + Cardinality(C) - Cardinality(P \cap C)
    BY <1>2, <1>3, FS_Union
  <2>2. Cardinality(P \cap C) = 0
    BY <1>4, FS_EmptySet
  <2> QED BY <2>1, <2>2, <1>1, <1>2, <1>3, <1>5
<1> QED BY <1>6 DEF Apart, SocketsAccounted

\* What a list is made of, and where a socket may be.
LEMMA Lists ==
  ASSUME TypeSockets
  PROVE  /\ Len(pending) \in Nat /\ DOMAIN pending = 1 .. Len(pending)
         /\ \A i \in DOMAIN pending : pending[i] \in Fds
         /\ Len(conns) \in Nat /\ DOMAIN conns = 1 .. Len(conns)
         /\ \A i \in DOMAIN conns : /\ conns[i] \in Conns
                                     /\ conns[i].fd \in Fds /\ conns[i].start \in Times
         /\ \A fd : fd \in Open <=> \/ \E i \in DOMAIN pending : pending[i] = fd
                                    \/ \E i \in DOMAIN conns : conns[i].fd = fd
<1>1. /\ Len(pending) \in Nat /\ DOMAIN pending = 1 .. Len(pending)
      /\ pending \in [1 .. Len(pending) -> Fds]
      /\ Len(conns) \in Nat /\ DOMAIN conns = 1 .. Len(conns)
      /\ conns \in [1 .. Len(conns) -> Conns]
  BY LenProperties DEF TypeSockets
<1>2. \A i \in DOMAIN conns : /\ conns[i] \in Conns
                              /\ conns[i].fd \in Fds /\ conns[i].start \in Times
  BY <1>1 DEF Conns
<1>3. \A fd : fd \in Open <=> \/ \E i \in DOMAIN pending : pending[i] = fd
                             \/ \E i \in DOMAIN conns : conns[i].fd = fd
  BY DEF Open, Held, Range
<1> QED BY <1>1, <1>2, <1>3

\* A list given entry by entry.
LEMMA ListOf ==
  ASSUME NEW S, NEW m \in Nat, NEW s \in [1 .. m -> S]
  PROVE  s \in Seq(S) /\ Len(s) = m
<1>1. s \in Seq(S)
  BY SeqDef
<1>2. Len(s) \in Nat /\ DOMAIN s = 1 .. Len(s)
  BY <1>1, LenProperties
<1> QED BY <1>1, <1>2

\* What Closed() leaves to the other sockets.
LEMMA ClosedGives ==
  ASSUME TypeSockets, NEW fds, Closed(fds)
  PROVE  /\ data' \in [Fds -> Data] /\ inTime' \in [Fds -> BOOLEAN]
         /\ \A fd \in Fds : data'[fd] = IF fd \in fds THEN Nothing ELSE data[fd]
         /\ \A fd \in Fds : inTime'[fd] <=> inTime[fd] /\ fd \notin fds
<1>1. data' \in [Fds -> Data] /\ \A fd \in Fds : data'[fd] = IF fd \in fds THEN Nothing ELSE data[fd]
  BY DEF TypeSockets, Closed, Data
<1>2. inTime' \in [Fds -> BOOLEAN] /\ \A fd \in Fds : inTime'[fd] <=> inTime[fd] /\ fd \notin fds
  BY DEF TypeSockets, Closed
<1> QED BY <1>1, <1>2

\* The list is shortened to the m entries at the places at[i]; the sockets of the others,
\* at the places in gone, are among those that are closed.
Removal(m, at, gone, fds) ==
    /\ m \in Nat /\ m <= Len(conns)
    /\ at \in [1 .. m -> DOMAIN conns] /\ gone \subseteq DOMAIN conns
    /\ \A i, j \in 1 .. m : at[i] = at[j] => i = j
    /\ \A j \in DOMAIN conns \ gone : \E i \in 1 .. m : at[i] = j
    /\ pending' = pending /\ conns' \in [1 .. m -> Conns]
    /\ \A i \in 1 .. m : conns'[i] = conns[at[i]]
    /\ Closed(fds) /\ \A i \in gone : conns[i].fd \in fds

\* Connections that are erased from the list are closed, and the others stay apart.
LEMMA RemovalKeepsApart ==
  ASSUME TypeSockets, Apart, NEW m, NEW at, NEW gone, NEW fds, Removal(m, at, gone, fds)
  PROVE  TypeSockets' /\ Apart' /\ Len(conns') = m
<1> USE DEF Removal
<1>1. conns' \in [1 .. m -> Conns] /\ \A i \in 1 .. m : conns'[i] = conns[at[i]]
  OBVIOUS
<1>2. conns' \in Seq(Conns) /\ Len(conns') = m /\ DOMAIN conns' = 1 .. m
  BY <1>1, ListOf
<1>3. TypeSockets'
  BY <1>2, ClosedGives DEF TypeSockets
<1>4. \A i, j \in DOMAIN conns' : conns'[i].fd = conns'[j].fd => i = j
  BY <1>1, <1>2 DEF Apart
<1>5. \A i \in DOMAIN pending', j \in DOMAIN conns' : pending'[i] # conns'[j].fd
  BY <1>1, <1>2 DEF Apart
<1>6. ASSUME NEW fd \in Fds, fd \notin Open' PROVE data'[fd] = Nothing
  <2>1. CASE fd \notin Open
    BY <2>1, ClosedGives DEF Apart
  <2>2. CASE \E j \in DOMAIN conns : conns[j].fd = fd
    <3>1. PICK j \in DOMAIN conns : conns[j].fd = fd
      BY <2>2
    <3>2. \A i \in DOMAIN conns' : conns'[i].fd # fd
      BY <1>3, <1>6, Lists DEF Open, Held
    <3>3. j \in gone
      BY <3>1, <3>2, <1>1, <1>2
    <3> QED BY <3>1, <3>3, ClosedGives
  <2>3. CASE \E i \in DOMAIN pending : pending[i] = fd
    <3>1. fd \in Range(pending')
      BY <2>3 DEF Range
    <3> QED BY <3>1, <1>6 DEF Open
  <2> QED BY <2>1, <2>2, <2>3, Lists
<1>7. Len(conns') <= OpenMax
  BY <1>2, Lists, EventAssumption DEF Apart
<1> QED BY <1>2, <1>3, <1>4, <1>5, <1>6, <1>7, Zenon DEF Apart

\* RemoveAt(), entry by entry.
LEMMA RemoveAtGives ==
  ASSUME NEW S, NEW s \in Seq(S), NEW n \in 1 .. Len(s)
  PROVE  RemoveAt(s, n) = [i \in 1 .. Len(s) - 1 |-> s[IF i < n THEN i ELSE i + 1]]
<1> DEFINE l == Len(s)
           a == SubSeq(s, 1, n - 1)
           b == SubSeq(s, n + 1, l)
           r == [i \in 1 .. l - 1 |-> s[IF i < n THEN i ELSE i + 1]]
<1>1. l \in Nat /\ n \in Nat /\ 1 <= n /\ n <= l /\ s \in [1 .. l -> S]
  BY LenProperties
<1>2. /\ a \in Seq(S) /\ Len(a) = n - 1
      /\ \A i \in 1 .. n - 1 : a[i] = s[i]
  <2>1. /\ a \in Seq(S) /\ Len(a) = IF 1 <= n - 1 THEN (n - 1) - 1 + 1 ELSE 0
        /\ \A i \in 1 .. (n - 1) - 1 + 1 : a[i] = s[1 + i - 1]
    BY <1>1, SubSeqProperties
  <2> HIDE DEF a, l
  <2> QED BY <2>1, <1>1
<1>3. /\ b \in Seq(S) /\ Len(b) = l - n
      /\ \A i \in 1 .. l - n : b[i] = s[n + i]
  <2>1. /\ b \in Seq(S) /\ Len(b) = IF n + 1 <= l THEN l - (n + 1) + 1 ELSE 0
        /\ \A i \in 1 .. l - (n + 1) + 1 : b[i] = s[n + 1 + i - 1]
    BY <1>1, SubSeqProperties
  <2> HIDE DEF b, l
  <2>2. Len(b) = l - n
    BY <2>1, <1>1
  <2>3. ASSUME NEW i \in 1 .. l - n PROVE b[i] = s[n + i]
    <3>1. i \in 1 .. l - (n + 1) + 1 /\ n + 1 + i - 1 = n + i
      BY <1>1
    <3> QED BY <3>1, <2>1
  <2> QED BY <2>1, <2>2, <2>3
<1>4. r \in [1 .. l - 1 -> S] /\ \A i \in 1 .. l - 1 : r[i] = s[IF i < n THEN i ELSE i + 1]
  <2> HIDE DEF l
  <2> QED BY <1>1
<1> HIDE DEF a, b, r, l
<1>5. r \in Seq(S) /\ Len(r) = l - 1
  <2>1. l - 1 \in Nat
    BY <1>1
  <2> QED BY <2>1, <1>4, ListOf
<1>6. /\ a \o b \in Seq(S) /\ Len(a \o b) = l - 1
      /\ \A i \in 1 .. l - 1 : (a \o b)[i] = IF i <= n - 1 THEN a[i] ELSE b[i - (n - 1)]
  <2>1. /\ a \o b \in Seq(S) /\ Len(a \o b) = Len(a) + Len(b)
        /\ \A i \in 1 .. Len(a) + Len(b) : (a \o b)[i] = IF i <= Len(a) THEN a[i] ELSE b[i - Len(a)]
    BY <1>2, <1>3, ConcatProperties
  <2>2. Len(a) + Len(b) = l - 1
    BY <1>1, <1>2, <1>3
  <2> QED BY <2>1, <2>2, <1>2
<1>7. ASSUME NEW i \in 1 .. l - 1 PROVE (a \o b)[i] = r[i]
  <2>1. CASE i < n
    BY <2>1, <1>1, <1>2, <1>4, <1>6
  <2>2. CASE i >= n
    <3>1. (a \o b)[i] = b[i - (n - 1)] /\ r[i] = s[i + 1]
      BY <2>2, <1>1, <1>4, <1>6
    <3>2. i - (n - 1) \in 1 .. l - n /\ n + (i - (n - 1)) = i + 1
      BY <2>2, <1>1
    <3> QED BY <3>1, <3>2, <1>3
  <2>3. i < n \/ i >= n
    BY <1>1
  <2> QED BY <2>1, <2>2, <2>3, Zenon
<1>8. a \o b = r
  BY <1>5, <1>6, <1>7, SeqEqual
<1> QED BY <1>8 DEF RemoveAt, a, b, r, l

\* A socket the system gives out is a closed one.
LEMMA ConnectKeepsApart ==
  ASSUME TypeSockets, Apart, Connect
  PROVE  TypeSockets' /\ Apart'
<1>1. PICK fd \in Fds \ Open : pending' = Append(pending, fd)
  BY DEF Connect
<1>2. conns' = conns /\ data' = data /\ inTime' = inTime
  BY DEF Connect
<1>3. /\ pending' \in Seq(Fds) /\ Len(pending') = Len(pending) + 1
      /\ DOMAIN pending' = 1 .. Len(pending) + 1
      /\ \A i \in 1 .. Len(pending) + 1 :
            pending'[i] = IF i <= Len(pending) THEN pending[i] ELSE fd
  BY <1>1 DEF TypeSockets
<1>4. TypeSockets'
  BY <1>2, <1>3 DEF TypeSockets
<1>5. \A i \in DOMAIN pending : pending[i] # fd
  BY <1>1, Lists
<1>6. \A j \in DOMAIN conns : conns[j].fd # fd
  BY <1>1, Lists
<1>7. \A i, j \in DOMAIN pending' : pending'[i] = pending'[j] => i = j
  BY <1>3, <1>5, Lists DEF Apart
<1>8. \A i \in DOMAIN pending', j \in DOMAIN conns' : pending'[i] # conns'[j].fd
  BY <1>2, <1>3, <1>6, Lists DEF Apart
<1>9. ASSUME NEW other \in Fds, other \notin Open' PROVE data'[other] = Nothing
  <2>1. \A i \in 1 .. Len(pending) + 1 : pending'[i] # other
    BY <1>3, <1>9 DEF Open, Range
  <2>2. \A i \in DOMAIN pending : pending[i] # other
    BY <2>1, <1>3, Lists
  <2>3. \A j \in DOMAIN conns : conns[j].fd # other
    BY <1>2, <1>9 DEF Open, Held
  <2> QED BY <2>2, <2>3, <1>2, Lists DEF Apart
<1> QED BY <1>2, <1>4, <1>7, <1>8, <1>9 DEF Apart

\* Only an open socket has a peer that sends.
LEMMA SendKeepsApart ==
  ASSUME TypeSockets, Apart, Send
  PROVE  TypeSockets' /\ Apart'
<1>1. PICK fd \in Open, d \in Data \ {Nothing} :
          /\ data' = [data EXCEPT ![fd] = d]
          /\ inTime' = [inTime EXCEPT ![fd] = fd \in Held => Age(Start(fd)) + 2 * Period < DataMax]
  BY DEF Send
<1>2. conns' = conns /\ pending' = pending
  BY DEF Send
<1>3. TypeSockets'
  <2>1. data' \in [Fds -> Data]
    BY <1>1 DEF TypeSockets
  <2>2. inTime' \in [Fds -> BOOLEAN]
    BY <1>1 DEF TypeSockets
  <2> QED BY <2>1, <2>2, <1>2 DEF TypeSockets
<1>4. Open' = Open
  BY <1>2 DEF Open, Held
<1>5. \A other \in Fds \ Open : data'[other] = data[other]
  BY <1>1 DEF TypeSockets
<1> QED BY <1>2, <1>3, <1>4, <1>5 DEF Apart

\* A socket goes from the pipe into the list, or is closed.
LEMMA AcceptKeepsApart ==
  ASSUME TypeSockets, Apart, clock \in Times, ConnectionsAccept
  PROVE  TypeSockets' /\ Apart'
<1>1. CASE pending = <<>>
  <2>1. UNCHANGED <<pending, conns, data, inTime>>
    BY <1>1 DEF ConnectionsAccept, peers
  <2> QED BY <2>1 DEF TypeSockets, Apart, Open, Held
<1>2. CASE pending # <<>>
  <2> DEFINE fd == Head(pending)
             c == [fd |-> fd, start |-> clock]
  <2>1. /\ pending' \in Seq(Fds) /\ Len(pending) >= 1 /\ Len(pending') = Len(pending) - 1
        /\ DOMAIN pending' = 1 .. Len(pending) - 1
        /\ \A i \in 1 .. Len(pending) - 1 : pending'[i] = pending[i + 1]
        /\ fd = pending[1] /\ fd \in Fds
    <3>1. pending' = Tail(pending)
      BY <1>2 DEF ConnectionsAccept
    <3>2. /\ pending' \in Seq(Fds) /\ Len(pending') = Len(pending) - 1
          /\ \A i \in 1 .. Len(pending') : pending'[i] = pending[i + 1]
          /\ fd \in Fds
      BY <3>1, <1>2, HeadTailProperties DEF TypeSockets
    <3>3. Len(pending) >= 1 /\ fd = pending[1]
      BY <1>2 DEF TypeSockets
    <3>4. DOMAIN pending' = 1 .. Len(pending')
      BY <3>2, LenProperties
    <3> QED BY <3>2, <3>3, <3>4
  <2> HIDE DEF fd
  <2>0. ASSUME NEW i \in DOMAIN pending'
        PROVE  i + 1 \in DOMAIN pending /\ pending'[i] = pending[i + 1] /\ i \in Nat
    BY <2>1, Lists
  <2>2. \A i, j \in DOMAIN pending' : pending'[i] = pending'[j] => i = j
    <3>1. SUFFICES ASSUME NEW i \in DOMAIN pending', NEW j \in DOMAIN pending', pending'[i] = pending'[j]
                   PROVE  i = j
      OBVIOUS
    <3>2. \A k, l \in DOMAIN pending : pending[k] = pending[l] => k = l
      BY DEF Apart
    <3>3. i + 1 \in DOMAIN pending /\ j + 1 \in DOMAIN pending /\ pending[i + 1] = pending[j + 1]
      BY <3>1, <2>0
    <3>4. i + 1 = j + 1
      BY <3>2, <3>3
    <3> QED BY <3>4, <2>0
  <2>3. \A i \in DOMAIN pending' : pending'[i] # fd
    <3>1. SUFFICES ASSUME NEW i \in DOMAIN pending', pending'[i] = fd PROVE FALSE
      OBVIOUS
    <3>2. \A k, l \in DOMAIN pending : pending[k] = pending[l] => k = l
      BY DEF Apart
    <3>3. /\ i + 1 \in DOMAIN pending /\ 1 \in DOMAIN pending
          /\ pending[i + 1] = pending[1] /\ i \in Nat /\ i # 0
      BY <3>1, <2>0, <2>1, Lists
    <3>4. i + 1 = 1
      BY <3>2, <3>3
    <3> QED BY <3>3, <3>4
  <2>4. \A j \in DOMAIN conns : conns[j].fd # fd
    BY <2>1, Lists DEF Apart
  <2>5. \A i \in DOMAIN pending', j \in DOMAIN conns : pending'[i] # conns[j].fd
    BY <2>0 DEF Apart
  <2>6. ASSUME NEW other \in Fds, other # fd, other \notin Range(pending'), other \notin Held
        PROVE  data[other] = Nothing
    <3>1. \A i \in 1 .. Len(pending) - 1 : pending[i + 1] # other
      BY <2>1, <2>6 DEF Range
    <3>2. \A i \in DOMAIN pending : pending[i] # other
      <4>1. SUFFICES ASSUME NEW i \in 1 .. Len(pending) PROVE pending[i] # other
        BY Lists
      <4>2. CASE i = 1
        BY <4>2, <2>1, <2>6
      <4>3. CASE i # 1
        <5>1. i - 1 \in 1 .. Len(pending) - 1 /\ (i - 1) + 1 = i
          BY <4>3, Lists
        <5> QED BY <5>1, <3>1
      <4> QED BY <4>2, <4>3
    <3>3. \A j \in DOMAIN conns : conns[j].fd # other
      BY <2>6 DEF Held
    <3> QED BY <3>2, <3>3, Lists DEF Apart
  <2>7. CASE /\ Len(conns) < OpenMax /\ conns' = Append(conns, c)
             /\ data' = data /\ inTime' = inTime
    <3>1. c \in Conns /\ c.fd = fd
      BY <2>1 DEF Conns
    <3> HIDE DEF c
    <3>2. /\ conns' \in Seq(Conns) /\ Len(conns') = Len(conns) + 1
          /\ DOMAIN conns' = 1 .. Len(conns) + 1
          /\ \A i \in 1 .. Len(conns) + 1 : conns'[i] = IF i <= Len(conns) THEN conns[i] ELSE c
      BY <2>7, <3>1 DEF TypeSockets
    <3>3. TypeSockets'
      BY <2>1, <2>7, <3>2 DEF TypeSockets
    <3>4. Len(conns') <= OpenMax
      BY <2>7, <3>2, Lists, EventAssumption
    <3>5. \A i, j \in DOMAIN conns' : conns'[i].fd = conns'[j].fd => i = j
      BY <2>4, <3>1, <3>2, Lists DEF Apart
    <3>6. \A i \in DOMAIN pending', j \in DOMAIN conns' : pending'[i] # conns'[j].fd
      BY <2>3, <2>5, <3>1, <3>2, Lists
    <3>7. ASSUME NEW other \in Fds, other \notin Open' PROVE data'[other] = Nothing
      <4>1. other \notin Range(pending') /\ \A j \in DOMAIN conns' : conns'[j].fd # other
        BY <3>7 DEF Open, Held
      <4>2. other # fd
        <5>1. Len(conns) + 1 \in DOMAIN conns' /\ conns'[Len(conns) + 1] = c
          BY <3>2, Lists
        <5> QED BY <5>1, <4>1, <3>1
      <4>3. other \notin Held
        BY <4>1, <3>2, Lists DEF Held
      <4> QED BY <4>1, <4>2, <4>3, <2>6, <2>7
    <3> QED BY <2>2, <3>3, <3>4, <3>5, <3>6, <3>7, Zenon DEF Apart
  <2>8. CASE conns' = conns /\ Closed({fd})
    <3>1. TypeSockets'
      BY <2>1, <2>8, ClosedGives DEF TypeSockets
    <3>2. ASSUME NEW other \in Fds, other \notin Open' PROVE data'[other] = Nothing
      <4>1. data'[other] = IF other \in {fd} THEN Nothing ELSE data[other]
        BY <2>8, ClosedGives
      <4>2. other \notin Range(pending') /\ other \notin Held
        BY <2>8, <3>2 DEF Open, Held
      <4> QED BY <4>1, <4>2, <2>6
    <3> QED BY <2>2, <2>5, <2>8, <3>1, <3>2 DEF Apart
  <2> QED BY <1>2, <2>7, <2>8 DEF ConnectionsAccept, fd
<1> QED BY <1>1, <1>2

\* What the timeouts leave are the young connections, and all of them.
LEMMA TimeoutsGive ==
  ASSUME TypeSockets, Apart, DataTimeoutsCheck
  PROVE  /\ TypeSockets' /\ Apart'
         /\ \A i \in DOMAIN conns' : \E j \in DOMAIN conns :
               conns'[i] = conns[j] /\ ~Due(conns[j].start, DataMax)
         /\ \A j \in DOMAIN conns : ~Due(conns[j].start, DataMax) =>
               \E i \in DOMAIN conns' : conns'[i] = conns[j]
         /\ \E fds : Closed(fds)
<1> DEFINE young == {i \in DOMAIN conns : ~Due(conns[i].start, DataMax)}
           m == Cardinality(young)
<1>1. /\ pending' = pending
      /\ Closed({conns[i].fd : i \in DOMAIN conns \ young})
  BY DEF DataTimeoutsCheck
<1>2. PICK at \in [1 .. m -> young] :
          /\ Range(at) = young
          /\ \A i, j \in DOMAIN at : i < j => at[i] < at[j]
          /\ conns' = [i \in DOMAIN at |-> conns[at[i]]]
  BY DEF DataTimeoutsCheck
<1>3. m \in Nat /\ m <= Len(conns)
  <2>1. Len(conns) \in Nat /\ DOMAIN conns = 1 .. Len(conns)
    BY Lists
  <2>2. IsFiniteSet(DOMAIN conns) /\ Cardinality(DOMAIN conns) = Len(conns)
    <3>1. PICK n \in Nat : n = Len(conns)
      BY <2>1
    <3>2. IsFiniteSet(1 .. n) /\ Cardinality(1 .. n) = n
      BY FS_Interval
    <3> QED BY <2>1, <3>1, <3>2
  <2>3. young \in SUBSET DOMAIN conns
    OBVIOUS
  <2> HIDE DEF young
  <2>4. IsFiniteSet(young) /\ m <= Len(conns)
    BY <2>2, <2>3, FS_Subset
  <2> QED BY <2>4, FS_CardinalityType
<1>4. young \subseteq DOMAIN conns /\ young \subseteq Int
  BY Lists
<1> HIDE DEF m
<1>5. DOMAIN at = 1 .. m /\ at \in [1 .. m -> DOMAIN conns]
  BY <1>2
<1>6. \A j \in young : \E i \in 1 .. m : at[i] = j
  BY <1>2, <1>5 DEF Range
<1>7. \A i, j \in 1 .. m : at[i] = at[j] => i = j
  <2>1. SUFFICES ASSUME NEW i \in 1 .. m, NEW j \in 1 .. m, at[i] = at[j], i < j PROVE FALSE
    BY <1>3
  <2>2. at[i] < at[j] /\ at[i] \in Int
    BY <2>1, <1>2, <1>4, <1>5
  <2> QED BY <2>1, <2>2
<1>8. conns' \in [1 .. m -> Conns] /\ \A i \in 1 .. m : conns'[i] = conns[at[i]]
  <2>1. conns' = [i \in 1 .. m |-> conns[at[i]]]
    BY <1>2, <1>5
  <2> QED BY <2>1, <1>5, Lists
<1> DEFINE gone == DOMAIN conns \ young
           fds == {conns[i].fd : i \in DOMAIN conns \ young}
<1>9. /\ gone \in SUBSET DOMAIN conns
      /\ \A j \in DOMAIN conns \ gone : \E i \in 1 .. m : at[i] = j
      /\ Closed(fds) /\ \A i \in gone : conns[i].fd \in fds
  BY <1>1, <1>6
<1> HIDE DEF gone, fds
<1>10. TypeSockets' /\ Apart'
  <2>1. Removal(m, at, gone, fds)
    BY <1>1, <1>3, <1>5, <1>7, <1>8, <1>9 DEF Removal
  <2> QED BY <2>1, RemovalKeepsApart
<1>11. DOMAIN conns' = 1 .. m /\ \A i \in 1 .. m : at[i] \in young /\ conns'[i] = conns[at[i]]
  BY <1>2, <1>5, <1>8
<1> QED BY <1>1, <1>6, <1>10, <1>11

\* A connection that is read is erased, those behind it move up.
LEMMA EnqueueGives ==
  ASSUME TypeSockets, Apart, MsgEnqueue, pos \in Nat \ {0}, data[conns[pos].fd] # Nothing
  PROVE  /\ TypeSockets' /\ Apart'
         /\ pos \in DOMAIN conns /\ pos' = pos
         /\ \A i \in DOMAIN conns' : LET j == IF i < pos THEN i ELSE i + 1
                                     IN j \in DOMAIN conns /\ conns'[i] = conns[j]
         /\ Closed({conns[pos].fd})
<1>1. /\ pending' = pending /\ pos' = pos /\ pos \in DOMAIN conns
      /\ conns' = RemoveAt(conns, pos)
      /\ Closed({conns[pos].fd})
  BY Lists DEF MsgEnqueue
<1> DEFINE m == Len(conns) - 1
           at == [i \in 1 .. m |-> IF i < pos THEN i ELSE i + 1]
           gone == {pos}
<1>2. /\ m \in Nat /\ m <= Len(conns) /\ DOMAIN conns = 1 .. m + 1
      /\ pos \in 1 .. m + 1
  BY <1>1, Lists
<1>3. conns' = [i \in 1 .. m |-> conns[IF i < pos THEN i ELSE i + 1]]
  <2>1. conns \in Seq(Conns) /\ pos \in 1 .. Len(conns)
    BY <1>1, Lists DEF TypeSockets
  <2>2. RemoveAt(conns, pos) = [i \in 1 .. Len(conns) - 1 |-> conns[IF i < pos THEN i ELSE i + 1]]
    BY <2>1, RemoveAtGives
  <2> QED BY <1>1, <2>2
<1> HIDE DEF m
<1>4. /\ at \in [1 .. m -> DOMAIN conns]
      /\ \A i \in 1 .. m : at[i] = IF i < pos THEN i ELSE i + 1
  BY <1>2
<1>5. \A j \in DOMAIN conns \ gone : \E i \in 1 .. m : at[i] = j
  <2>1. SUFFICES ASSUME NEW j \in 1 .. m + 1, j # pos PROVE \E i \in 1 .. m : at[i] = j
    BY <1>2
  <2>2. CASE j < pos
    <3>1. j \in 1 .. m /\ at[j] = j
      BY <2>2, <1>2, <1>4
    <3> QED BY <3>1
  <2>3. CASE j > pos
    <3>1. j - 1 \in 1 .. m /\ at[j - 1] = j
      BY <2>3, <1>2, <1>4
    <3> QED BY <3>1
  <2> QED BY <2>1, <2>2, <2>3, <1>2
<1>6. \A i, j \in 1 .. m : at[i] = at[j] => i = j
  BY <1>2, <1>4
<1>7. gone \in SUBSET DOMAIN conns /\ \A i \in gone : conns[i].fd \in {conns[pos].fd}
  BY <1>1
<1>8. /\ DOMAIN conns' = 1 .. m /\ conns' \in [1 .. m -> Conns]
      /\ \A i \in 1 .. m : conns'[i] = conns[at[i]]
  BY <1>2, <1>3, <1>4, Lists
<1> HIDE DEF gone, at
<1>9. TypeSockets' /\ Apart'
  <2>1. Removal(m, at, gone, {conns[pos].fd})
    BY <1>1, <1>2, <1>4, <1>5, <1>6, <1>7, <1>8 DEF Removal
  <2> QED BY <2>1, RemovalKeepsApart
<1> QED BY <1>1, <1>2, <1>4, <1>8, <1>9

\* Every step keeps the sockets apart.
LEMMA NextKeepsApart ==
  ASSUME TypeSockets, Apart, TypeTick, [Next]_vars
  PROVE  TypeSockets' /\ Apart'
<1>1. ASSUME UNCHANGED <<pending, conns, data, inTime>> PROVE TypeSockets' /\ Apart'
  BY <1>1 DEF TypeSockets, Apart, Open, Held
<1>2. CASE Connect
  BY <1>2, ConnectKeepsApart
<1>3. CASE Send
  BY <1>3, SendKeepsApart
<1>4. CASE ConnectionsAccept
  BY <1>4, AcceptKeepsApart DEF TypeTick
<1>5. CASE DataTimeoutsCheck
  BY <1>5, TimeoutsGive
<1>6. CASE MsgEnqueue
  <2>1. CASE data[conns[pos].fd] = Nothing
    BY <1>1, <1>6, <2>1 DEF MsgEnqueue
  <2>2. CASE data[conns[pos].fd] # Nothing
    BY <1>6, <2>2, EnqueueGives DEF TypeTick
  <2> QED BY <2>1, <2>2
<1>7. CASE Advance \/ StartListening \/ DequeueStart \/ DequeueTurn \/ DequeueDone
  BY <1>1, <1>7 DEF Advance, StartListening, DequeueStart, DequeueTurn, DequeueDone, peers
<1>8. ASSUME NEW ref \in Refs, Pop(ref) PROVE TypeSockets' /\ Apart'
  BY <1>1, <1>8 DEF Pop, peers
<1>9. CASE UNCHANGED vars
  BY <1>1, <1>9 DEF vars
<1> QED BY <1>2, <1>3, <1>4, <1>5, <1>6, <1>7, <1>8, <1>9 DEF Next, Tick

-----------------------------------------------------------------------------
(* How old things get *)

\* Every step leaves the clock, the events and the position of the tick in their ranges.
LEMMA NextKeepsType ==
  ASSUME TypeSockets, TypeTick, [Next]_vars
  PROVE  TypeTick'
<1>1. CASE \/ Connect \/ Send \/ UNCHANGED vars
  BY <1>1 DEF Connect, Send, vars, loop, TypeTick
<1>2. CASE Advance
  <2>1. clock' \in Times /\ late' \in 0 .. Period
    BY <1>2, EventAssumption DEF Advance, TypeTick, Times
  <2> QED BY <2>1, <1>2 DEF Advance, loop, TypeTick
<1>3. CASE StartListening
  BY <1>3, EventAssumption DEF StartListening, loop, TypeTick
<1>4. CASE ConnectionsAccept
  <2>1. UNCHANGED <<clock, now, events, pos, iter, broken>> /\ pc' = "timeouts" /\ late' = 0
    BY <1>4 DEF ConnectionsAccept, loop
  <2> QED BY <2>1, EventAssumption DEF TypeTick
<1>5. CASE DataTimeoutsCheck
  <2>1. UNCHANGED <<clock, now, events, late, iter, broken>> /\ pc' = "receive" /\ pos' = 1
    BY <1>5 DEF DataTimeoutsCheck, loop
  <2> QED BY <2>1 DEF TypeTick
<1>6. CASE MsgEnqueue
  <2>1. UNCHANGED <<clock, now, late, iter, broken, pc>> /\ pos' \in {pos, pos + 1}
    BY <1>6 DEF MsgEnqueue, loop
  <2>2. events' \in [Refs -> {None} \cup Times]
    BY <1>6 DEF MsgEnqueue, TypeTick
  <2> QED BY <2>1, <2>2 DEF TypeTick
<1>7. CASE DequeueStart
  <2>1. iter' \in Refs \cup {End}
    BY <1>7, Next1Gives DEF DequeueStart
  <2> QED BY <2>1, <1>7 DEF DequeueStart, TypeTick
<1>8. CASE DequeueTurn
  <2>1. iter' \in Refs \cup {End}
    BY <1>8, Next1Gives DEF DequeueTurn, TypeTick
  <2>2. events' \in [Refs -> {None} \cup Times]
    BY <1>8 DEF DequeueTurn, TypeTick
  <2>3. pc' \in {pc, "broken"} /\ broken' \in {broken, "iter"} /\ UNCHANGED <<clock, late, pos, now>>
    BY <1>8 DEF DequeueTurn
  <2> QED BY <2>1, <2>2, <2>3 DEF TypeTick
<1>9. CASE DequeueDone
  BY <1>9 DEF DequeueDone, loop, TypeTick
<1>10. ASSUME NEW ref \in Refs, Pop(ref) PROVE TypeTick'
  BY <1>10 DEF Pop, loop, TypeTick
<1> QED BY <1>1, <1>2, <1>3, <1>4, <1>5, <1>6, <1>7, <1>8, <1>9, <1>10 DEF Next, Tick

\* Nothing is there before the listener has started, and a broken one stays so.
LEMMA NextKeepsBegun ==
  ASSUME TypeTick, Begun, [Next]_vars
  PROVE  Begun'
<1>1. CASE Connect \/ Send \/ Advance \/ UNCHANGED vars
  BY <1>1 DEF Connect, Send, Advance, vars, peers, Begun, Queued
<1>2. CASE StartListening
  BY <1>2 DEF StartListening, Begun
<1>3. CASE ConnectionsAccept \/ DataTimeoutsCheck \/ MsgEnqueue
  <2>1. pc' \in {"timeouts", "receive"} /\ broken' = broken /\ pc # "broken"
    BY <1>3 DEF ConnectionsAccept, DataTimeoutsCheck, MsgEnqueue
  <2> QED BY <2>1 DEF Begun
<1>4. CASE DequeueStart \/ DequeueDone
  BY <1>4 DEF DequeueStart, DequeueDone, Begun
<1>5. CASE DequeueTurn
  BY <1>5 DEF DequeueTurn, Begun
<1>6. ASSUME NEW ref \in Refs, Pop(ref) PROVE Begun'
  <2>1. pc' = pc /\ broken' = broken /\ conns' = conns /\ pc # "start"
    BY <1>6 DEF Pop, Begun, Queued
  <2> QED BY <2>1 DEF Begun
<1> QED BY <1>1, <1>2, <1>3, <1>4, <1>5, <1>6 DEF Next, Tick

\* A tick of the clock: what is young enough is one older, and the tick is one later.
LEMMA AdvanceGives ==
  ASSUME TypeTick, Advance
  PROVE  /\ late < Period /\ late' = late + 1 /\ late \in Nat /\ clock' \in Times
         /\ \A a \in Times : Age(a) < Word - 1 => Elapsed(a, clock') = Age(a) + 1
         /\ UNCHANGED <<pending, data, inTime, conns, events, pc, pos, now, iter, broken>>
<1>1. /\ late < Period /\ late' = late + 1
      /\ clock' = IF clock = Word - 1 THEN 0 ELSE clock + 1
      /\ UNCHANGED <<pending, data, inTime, conns, events, pc, pos, now, iter, broken>>
  BY DEF Advance, peers, loop
<1>2. clock' \in Times /\ clock \in Times /\ late \in Nat
  BY <1>1, EventAssumption DEF Times, TypeTick
<1>3. ASSUME NEW a \in Times, Age(a) < Word - 1 PROVE Elapsed(a, clock') = Age(a) + 1
  BY <1>1, <1>2, <1>3, ElapsedGrows DEF Age
<1> QED BY <1>1, <1>2, <1>3

\* Connections: what the timeouts leave is younger than the limit, and grows older by less
\* than a Period until they are looked at again.
LEMMA NextKeepsConnAges ==
  ASSUME TypeSockets, TypeTick, Apart, Begun, ConnAges, [Next]_vars
  PROVE  ConnAges'
<1>0. /\ DataMax \in Nat /\ Period \in Nat /\ Word \in Nat /\ DataMax + 2 * Period < Word
      /\ late \in Nat /\ late <= Period /\ clock \in Times
      /\ \A i \in DOMAIN conns : conns[i].start \in Times /\ Age(conns[i].start) \in Nat
                                /\ Age(conns[i].start) <= ConnLimit
  <2>1. late \in Nat /\ late <= Period /\ clock \in Times
    BY EventAssumption DEF TypeTick
  <2>2. ASSUME NEW i \in DOMAIN conns
        PROVE  conns[i].start \in Times /\ Age(conns[i].start) \in Nat /\ Age(conns[i].start) <= ConnLimit
    <3>1. conns[i].start \in Times /\ Age(conns[i].start) <= ConnLimit
      BY Lists DEF ConnAges
    <3>2. Age(conns[i].start) \in Times
      BY <2>1, <3>1, ElapsedType DEF Age
    <3> QED BY <3>1, <3>2 DEF Times
  <2> QED BY <2>1, <2>2, EventAssumption
<1>1. ASSUME UNCHANGED <<clock, conns>>, ConnLimit' = ConnLimit PROVE ConnAges'
  BY <1>1 DEF ConnAges, Age
<1>2. CASE Connect \/ Send \/ DequeueStart \/ DequeueTurn \/ DequeueDone \/ UNCHANGED vars
  <2>1. UNCHANGED <<clock, conns, late>> /\ (pc' = "timeouts" <=> pc = "timeouts")
    BY <1>2 DEF Connect, Send, DequeueStart, DequeueTurn, DequeueDone, vars, peers
  <2> QED BY <2>1, <1>1 DEF ConnLimit
<1>3. ASSUME NEW ref \in Refs, Pop(ref) PROVE ConnAges'
  BY <1>1, <1>3 DEF Pop, peers, ConnLimit
<1>4. CASE Advance
  <2>1. ConnLimit' = ConnLimit + 1 /\ ConnLimit < Word - 1 /\ ConnLimit \in Nat
    BY <1>0, <1>4, AdvanceGives DEF ConnLimit
  <2>2. ASSUME NEW i \in DOMAIN conns PROVE Elapsed(conns[i].start, clock') = Age(conns[i].start) + 1
    <3>1. Age(conns[i].start) < Word - 1
      BY <1>0, <2>1
    <3> QED BY <3>1, <1>0, <1>4, AdvanceGives
  <2>3. conns' = conns
    BY <1>4, AdvanceGives
  <2> QED BY <2>1, <2>2, <2>3, <1>0 DEF ConnAges, Age
<1>5. CASE StartListening
  <2>1. conns' = <<>>
    BY <1>5 DEF StartListening, Begun, peers
  <2> QED BY <2>1 DEF ConnAges
<1>6. CASE ConnectionsAccept
  <2>1. /\ clock' = clock /\ late' = 0 /\ pc = "idle" /\ pc' = "timeouts"
        /\ \/ conns' = conns
           \/ conns' = Append(conns, [fd |-> Head(pending), start |-> clock])
    BY <1>6 DEF ConnectionsAccept
  <2>2. ConnLimit <= ConnLimit' /\ ConnLimit \in Nat /\ ConnLimit' \in Nat
    BY <2>1, <1>0 DEF ConnLimit
  <2>3. ASSUME NEW i \in DOMAIN conns' PROVE Elapsed(conns'[i].start, clock) <= ConnLimit'
    <3>1. CASE i \in DOMAIN conns /\ conns'[i] = conns[i]
      BY <3>1, <2>2, <1>0 DEF Age
    <3>2. CASE conns'[i] = [fd |-> Head(pending), start |-> clock]
      <4>1. Elapsed(clock, clock) = 0
        BY <1>0, ElapsedType
      <4> QED BY <3>2, <4>1, <2>2
    <3>3. conns' = conns => i \in DOMAIN conns
      OBVIOUS
    <3>4. conns' = Append(conns, [fd |-> Head(pending), start |-> clock]) =>
            \/ i \in DOMAIN conns /\ conns'[i] = conns[i]
            \/ conns'[i] = [fd |-> Head(pending), start |-> clock]
      <4>1. conns \in Seq(Conns) /\ Len(conns) \in Nat /\ DOMAIN conns = 1 .. Len(conns)
        BY Lists DEF TypeSockets
      <4> QED BY <4>1
    <3> QED BY <3>1, <3>2, <3>3, <3>4, <2>1
  <2> QED BY <2>1, <2>3 DEF ConnAges, Age
<1>7. CASE DataTimeoutsCheck
  <2>1. clock' = clock /\ late' = late
    BY <1>7 DEF DataTimeoutsCheck
  <2>2. ASSUME NEW i \in DOMAIN conns' PROVE Elapsed(conns'[i].start, clock) <= ConnLimit'
    <3>1. PICK j \in DOMAIN conns : conns'[i] = conns[j] /\ ~Due(conns[j].start, DataMax)
      BY <1>7, TimeoutsGive
    <3>2. Age(conns[j].start) < DataMax
      BY <3>1, <1>0 DEF Due
    <3>3. DataMax <= ConnLimit' /\ ConnLimit' \in Nat
      BY <2>1, <1>0 DEF ConnLimit
    <3> QED BY <3>1, <3>2, <3>3, <1>0 DEF Age
  <2> QED BY <2>1, <2>2 DEF ConnAges, Age
<1>8. CASE MsgEnqueue
  <2>1. clock' = clock /\ ConnLimit' = ConnLimit
    BY <1>8 DEF MsgEnqueue, ConnLimit
  <2>2. CASE data[conns[pos].fd] = Nothing
    BY <1>1, <1>8, <2>1, <2>2 DEF MsgEnqueue
  <2>3. CASE data[conns[pos].fd] # Nothing
    <3>1. ASSUME NEW i \in DOMAIN conns' PROVE \E j \in DOMAIN conns : conns'[i] = conns[j]
      BY <1>8, <2>3, EnqueueGives DEF TypeTick
    <3> QED BY <3>1, <2>1, <1>0 DEF ConnAges, Age
  <2> QED BY <2>2, <2>3
<1> QED BY <1>2, <1>3, <1>4, <1>5, <1>6, <1>7, <1>8 DEF Next, Tick

\* What is known of the age of an event that is there.
LEMMA EventAge ==
  ASSUME TypeTick, EventAges, NEW ref \in Refs, events[ref] # None
  PROVE  /\ events[ref] \in Times /\ Age(events[ref]) \in Nat
         /\ Age(events[ref]) <= EventLimit(ref)
         /\ EventLimit(ref) \in Nat /\ EventLimit(ref) < DequeueMax + 2 * Period + 1
<1>1. events[ref] \in Times /\ clock \in Times /\ Age(events[ref]) <= EventLimit(ref)
  BY DEF TypeTick, EventAges, Queued
<1>2. Age(events[ref]) \in Times
  BY <1>1, ElapsedType DEF Age
<1>3. EventLimit(ref) \in Nat /\ EventLimit(ref) < DequeueMax + 2 * Period + 1
  BY EventAssumption DEF EventLimit, TypeTick
<1> QED BY <1>1, <1>2, <1>3 DEF Times

\* What a turn of the loop over the events does to them.
LEMMA TurnGives ==
  ASSUME TypeTick, Begun, DequeueTurn
  PROVE  /\ pc = "dequeue" /\ iter \in Refs
         /\ UNCHANGED <<clock, late, pos, now, pending, conns, data, inTime>>
         /\ \/ events[iter] = None /\ broken' = "iter" /\ pc' = "broken" /\ events' = events
            \/ /\ events[iter] # None /\ pc' = "dequeue" /\ broken' = broken
               /\ iter' = Next1(iter)
               /\ events' = IF Elapsed(events[iter], now) >= DequeueMax
                            THEN [events EXCEPT ![iter] = None] ELSE events
<1>1. iter \in Refs
  BY DEF DequeueTurn, TypeTick
<1> QED BY <1>1 DEF DequeueTurn, peers

\* Events: as with the connections, and the loop that looks at them is walked through in
\* the order of the references.
LEMMA NextKeepsEventAges ==
  ASSUME TypeSockets, TypeTick, Begun, EventAges, Snapshot, [Next]_vars
  PROVE  EventAges'
<1>0. /\ DequeueMax \in Nat /\ Period \in Nat /\ Word \in Nat /\ DequeueMax + 2 * Period < Word
      /\ late \in Nat /\ late <= Period /\ clock \in Times
  BY EventAssumption DEF TypeTick
<1>1. ASSUME UNCHANGED <<clock, late>>,
             \A ref \in Refs : events'[ref] # None => events'[ref] = events[ref] \/ events'[ref] = clock,
             \A ref \in Refs : Swept(ref)' => Swept(ref)
      PROVE  EventAges'
  <2>1. SUFFICES ASSUME NEW ref \in Refs, events'[ref] # None
                 PROVE  Elapsed(events'[ref], clock) <= EventLimit(ref)'
    BY <1>1 DEF EventAges, Queued, Age
  <2>2. EventLimit(ref) <= EventLimit(ref)' /\ EventLimit(ref) \in Nat /\ EventLimit(ref)' \in Nat
    BY <1>0, <1>1 DEF EventLimit
  <2>3. CASE events'[ref] = events[ref]
    BY <2>1, <2>2, <2>3, EventAge DEF Age
  <2>4. CASE events'[ref] = clock
    BY <2>2, <2>4, <1>0, ElapsedType
  <2> QED BY <1>1, <2>1, <2>3, <2>4
<1>2. CASE Connect \/ Send \/ DataTimeoutsCheck \/ UNCHANGED vars
  <2>1. UNCHANGED <<clock, late, events>> /\ \A ref \in Refs : Swept(ref)' => Swept(ref)
    BY <1>2 DEF Connect, Send, DataTimeoutsCheck, vars, loop, Swept
  <2> QED BY <2>1, <1>1
<1>3. ASSUME NEW r \in Refs, Pop(r) PROVE EventAges'
  <2>1. /\ UNCHANGED <<clock, late>> /\ \A ref \in Refs : Swept(ref)' => Swept(ref)
        /\ events' = [events EXCEPT ![r] = None]
    BY <1>3 DEF Pop, loop, Swept
  <2>2. \A ref \in Refs : events'[ref] # None => events'[ref] = events[ref]
    BY <2>1 DEF TypeTick
  <2> QED BY <2>1, <2>2, <1>1
<1>4. CASE MsgEnqueue
  <2>1. UNCHANGED <<clock, late>> /\ \A ref \in Refs : Swept(ref)' => Swept(ref)
    BY <1>4 DEF MsgEnqueue, loop, Swept
  <2>2. \A ref \in Refs : events'[ref] = events[ref] \/ events'[ref] = clock
    BY <1>4 DEF MsgEnqueue, TypeTick
  <2> QED BY <2>1, <2>2, <1>1
<1>5. CASE DequeueStart
  <2>1. UNCHANGED <<clock, late, events>> /\ pc' = "dequeue" /\ iter' = Next1(End)
    BY <1>5 DEF DequeueStart
  <2>2. SUFFICES ASSUME NEW ref \in Refs, events[ref] # None
                 PROVE  Elapsed(events[ref], clock) <= EventLimit(ref)'
    BY <2>1 DEF EventAges, Queued, Age
  <2>3. ~Swept(ref)'
    <3>1. ref \in Queued /\ ref > End /\ ref \in Nat
      BY <2>2, EventAssumption DEF Queued, End
    <3>2. iter' # End /\ iter' <= ref /\ iter' \in Refs
      BY <3>1, <2>1, Next1Gives
    <3> QED BY <3>1, <3>2, <2>1, EventAssumption DEF Swept
  <2>4. EventLimit(ref) <= EventLimit(ref)'
    BY <2>1, <2>3, <1>0 DEF EventLimit
  <2>5. EventLimit(ref)' \in Nat
    BY <2>1, <1>0 DEF EventLimit
  <2> QED BY <2>2, <2>4, <2>5, EventAge DEF Age
<1>6. CASE DequeueTurn
  <2>1. UNCHANGED <<clock, late, now>> /\ pc = "dequeue" /\ iter \in Refs
    BY <1>6, TurnGives
  <2>2. CASE events[iter] = None
    <3>1. events' = events /\ pc' = "broken"
      BY <1>6, <2>2, TurnGives
    <3>2. \A ref \in Refs : Swept(ref)' => Swept(ref)
      BY <3>1 DEF Swept
    <3> QED BY <2>1, <3>1, <3>2, <1>1
  <2>3. CASE events[iter] # None
    <3>1. /\ pc' = "dequeue" /\ iter' = Next1(iter)
          /\ events' = IF Elapsed(events[iter], now) >= DequeueMax
                       THEN [events EXCEPT ![iter] = None] ELSE events
      BY <1>6, <2>3, TurnGives
    <3>2. SUFFICES ASSUME NEW ref \in Refs, events'[ref] # None
                   PROVE  Elapsed(events'[ref], clock) <= EventLimit(ref)'
      BY <2>1 DEF EventAges, Queued, Age
    <3>3. events'[ref] = events[ref] /\ (ref = iter => Elapsed(events[iter], now) < DequeueMax)
      <4>1. CASE Elapsed(events[iter], now) >= DequeueMax
        BY <3>1, <3>2, <4>1 DEF TypeTick
      <4>2. CASE ~(Elapsed(events[iter], now) >= DequeueMax)
        <5>1. Elapsed(events[iter], now) \in Times
          BY <2>1, <2>3, ElapsedType DEF TypeTick
        <5> QED BY <3>1, <4>2, <5>1, EventAssumption DEF Times
      <4> QED BY <4>1, <4>2
    <3>4. /\ Age(events[ref]) \in Nat /\ Age(events[ref]) <= EventLimit(ref)
          /\ EventLimit(ref) \in Nat /\ events[ref] \in Times
      BY <3>2, <3>3, EventAge
    <3>5. CASE ref = iter
      <4>1. Age(now) <= late /\ Age(now) <= Age(events[iter])
        BY <2>1, <2>3 DEF Snapshot, Queued
      <4>2. Elapsed(events[iter], now) = Age(events[iter]) - Age(now)
        BY <4>1, <3>4, <3>5, ElapsedBetween DEF Age, TypeTick
      <4>3. Age(now) \in Nat
        BY ElapsedType DEF Age, TypeTick, Times
      <4>4. Age(events[iter]) <= DequeueMax + late
        BY <4>1, <4>2, <4>3, <3>3, <3>4, <3>5, <1>0
      <4>5. DequeueMax + late <= EventLimit(ref)' /\ EventLimit(ref)' \in Nat
        BY <2>1, <1>0 DEF EventLimit
      <4> QED BY <4>4, <4>5, <3>3, <3>4, <3>5, <1>0 DEF Age
    <3>6. CASE ref # iter
      <4>1. Swept(ref)' => Swept(ref)
        <5>1. SUFFICES ASSUME Swept(ref)', ~(ref < iter) PROVE FALSE
          BY <2>1 DEF Swept
        <5>2. ref > iter /\ ref \in Queued
          BY <5>1, <3>2, <3>3, <3>6, <2>1, EventAssumption DEF Queued
        <5>3. iter' # End /\ iter' <= ref /\ iter' \in Refs
          BY <5>2, <3>1, <2>1, Next1Gives
        <5> QED BY <5>1, <5>3, <3>1, EventAssumption DEF Swept
      <4>2. EventLimit(ref) <= EventLimit(ref)' /\ EventLimit(ref)' \in Nat
        BY <4>1, <2>1, <1>0 DEF EventLimit
      <4> QED BY <4>2, <3>3, <3>4 DEF Age
    <3> QED BY <3>5, <3>6
  <2> QED BY <2>2, <2>3
<1>7. CASE DequeueDone
  <2>1. UNCHANGED <<clock, late, events>> /\ pc = "dequeue" /\ iter = End
    BY <1>7 DEF DequeueDone
  <2>2. \A ref \in Refs : Swept(ref)' => Swept(ref)
    BY <2>1 DEF Swept
  <2> QED BY <2>1, <2>2, <1>1
<1>8. CASE StartListening
  <2>1. Queued' = {}
    BY <1>8 DEF StartListening, Begun, Queued
  <2> QED BY <2>1 DEF EventAges
<1>9. CASE ConnectionsAccept
  <2>1. UNCHANGED <<clock, events>> /\ late' = 0 /\ pc = "idle" /\ pc' = "timeouts"
    BY <1>9 DEF ConnectionsAccept
  <2>2. SUFFICES ASSUME NEW ref \in Refs, events[ref] # None
                 PROVE  Elapsed(events[ref], clock) <= EventLimit(ref)'
    BY <2>1 DEF EventAges, Queued, Age
  <2>3. EventLimit(ref) <= EventLimit(ref)' /\ EventLimit(ref)' \in Nat
    BY <2>1, <1>0 DEF EventLimit, Swept
  <2> QED BY <2>2, <2>3, EventAge DEF Age
<1>10. CASE Advance
  <2>1. SUFFICES ASSUME NEW ref \in Refs, events[ref] # None
                 PROVE  Elapsed(events[ref], clock') <= EventLimit(ref)'
    BY <1>10, AdvanceGives DEF EventAges, Queued, Age
  <2>2. EventLimit(ref)' = EventLimit(ref) + 1
    <3>1. Swept(ref)' = Swept(ref)
      BY <1>10, AdvanceGives DEF Swept
    <3> QED BY <3>1, <1>0, <1>10, AdvanceGives DEF EventLimit
  <2>3. EventLimit(ref) < Word - 1
    BY <1>0, <1>10, AdvanceGives DEF EventLimit
  <2>4. Elapsed(events[ref], clock') = Age(events[ref]) + 1
    BY <2>1, <2>3, <1>0, <1>10, EventAge, AdvanceGives
  <2> QED BY <2>1, <2>2, <2>4, EventAge
<1> QED BY <1>2, <1>3, <1>4, <1>5, <1>6, <1>7, <1>8, <1>9, <1>10 DEF Next, Tick

\* The loop over the events begins with the time of the clock, and meets no younger one.
LEMMA NextKeepsSnapshot ==
  ASSUME TypeSockets, TypeTick, Begun, EventAges, Snapshot, [Next]_vars
  PROVE  Snapshot'
<1>0. /\ now \in Times /\ clock \in Times /\ Age(now) \in Nat
      /\ DequeueMax \in Nat /\ Period \in Nat /\ Word \in Nat /\ DequeueMax + 2 * Period < Word
  BY ElapsedType, EventAssumption DEF TypeTick, Age, Times
<1>1. ASSUME UNCHANGED <<clock, late, now>>, pc = "dequeue",
             \A ref \in Refs : events'[ref] # None => events'[ref] = events[ref]
      PROVE  Snapshot'
  BY <1>1 DEF Snapshot, Queued, Age
<1>2. CASE Connect \/ Send \/ UNCHANGED vars
  <2>1. UNCHANGED <<clock, late, now, events, pc>>
    BY <1>2 DEF Connect, Send, vars, loop
  <2> QED BY <2>1, <1>1 DEF Snapshot
<1>3. CASE StartListening \/ ConnectionsAccept \/ DataTimeoutsCheck \/ MsgEnqueue \/ DequeueDone
  <2>1. pc' # "dequeue"
    BY <1>3 DEF StartListening, ConnectionsAccept, DataTimeoutsCheck, MsgEnqueue, DequeueDone
  <2> QED BY <2>1 DEF Snapshot
<1>4. ASSUME NEW r \in Refs, Pop(r) PROVE Snapshot'
  <2>1. UNCHANGED <<clock, late, now, pc>> /\ events' = [events EXCEPT ![r] = None]
    BY <1>4 DEF Pop, loop
  <2>2. \A ref \in Refs : events'[ref] # None => events'[ref] = events[ref]
    BY <2>1 DEF TypeTick
  <2> QED BY <2>1, <2>2, <1>1 DEF Snapshot
<1>5. CASE DequeueTurn
  <2>1. UNCHANGED <<clock, late, now>> /\ pc = "dequeue"
    BY <1>5, TurnGives
  <2>2. \A ref \in Refs : events'[ref] # None => events'[ref] = events[ref]
    BY <1>5, TurnGives DEF TypeTick
  <2> QED BY <2>1, <2>2, <1>1
<1>6. CASE DequeueStart
  <2>1. UNCHANGED <<clock, late, events>> /\ now' = clock
    BY <1>6 DEF DequeueStart
  <2>2. Age(now)' = 0
    BY <2>1, <1>0, ElapsedType DEF Age
  <2>3. ASSUME NEW ref \in Refs, events[ref] # None PROVE Age(events[ref])' \in Nat
    BY <2>1, <2>3, EventAge DEF Age
  <2>4. late' \in Nat
    BY <2>1, EventAssumption DEF TypeTick
  <2> QED BY <2>1, <2>2, <2>3, <2>4 DEF Snapshot, Queued
<1>7. CASE Advance
  <2>1. SUFFICES ASSUME pc = "dequeue"
                 PROVE  /\ Age(now)' <= late'
                        /\ \A ref \in Refs : events[ref] # None => Age(now)' <= Age(events[ref])'
    BY <1>7, AdvanceGives DEF Snapshot, Queued
  <2>2. Age(now) <= late /\ \A ref \in Queued : Age(now) <= Age(events[ref])
    BY <2>1 DEF Snapshot
  <2>3. Age(now)' = Age(now) + 1
    <3>1. Age(now) < Word - 1
      BY <2>2, <1>0, <1>7, AdvanceGives
    <3> QED BY <3>1, <1>0, <1>7, AdvanceGives DEF Age
  <2>4. ASSUME NEW ref \in Refs, events[ref] # None
        PROVE  Age(events[ref])' = Age(events[ref]) + 1 /\ Age(events[ref]) \in Nat
    <3>1. EventLimit(ref) < Word - 1
      BY <1>0, <1>7, AdvanceGives DEF EventLimit
    <3> QED BY <2>4, <3>1, <1>0, <1>7, EventAge, AdvanceGives DEF Age
  <2> QED BY <2>2, <2>3, <2>4, <1>0, <1>7, AdvanceGives DEF Queued
<1> QED BY <1>2, <1>3, <1>4, <1>5, <1>6, <1>7 DEF Next, Tick

\* What the loop stands on is taken away by itself only, when pop() is not called meanwhile.
LEMMA NextKeepsIterThere ==
  ASSUME TypeTick, Begun, IterThere, [Next]_vars
  PROVE  IterThere'
<1> SUFFICES ASSUME ~ClientThreads
             PROVE  broken' # "iter" /\ (pc' = "dequeue" /\ iter' # End => events'[iter'] # None)
  BY DEF IterThere
<1>0. broken # "iter" /\ (pc = "dequeue" /\ iter # End => events[iter] # None)
  BY DEF IterThere
<1>1. CASE Connect \/ Send \/ Advance \/ UNCHANGED vars
  BY <1>0, <1>1 DEF Connect, Send, Advance, vars, loop
<1>2. CASE StartListening \/ ConnectionsAccept \/ DataTimeoutsCheck \/ MsgEnqueue \/ DequeueDone
  <2>1. pc' # "dequeue" /\ broken' \in {broken, "null"}
    BY <1>2 DEF StartListening, ConnectionsAccept, DataTimeoutsCheck, MsgEnqueue, DequeueDone
  <2> QED BY <1>0, <2>1
<1>3. ASSUME NEW ref \in Refs, Pop(ref) PROVE broken' # "iter" /\ pc' # "dequeue"
  BY <1>0, <1>3 DEF Pop
<1>4. CASE DequeueStart
  BY <1>0, <1>4, Next1Gives DEF DequeueStart
<1>5. CASE DequeueTurn
  <2>1. pc = "dequeue" /\ iter \in Refs /\ events[iter] # None
    BY <1>0, <1>5, TurnGives DEF DequeueTurn
  <2>2. /\ broken' = broken /\ iter' = Next1(iter)
        /\ events' \in {events, [events EXCEPT ![iter] = None]}
    BY <1>5, <2>1, TurnGives
  <2>3. ASSUME iter' # End PROVE events'[iter'] # None
    <3>1. iter' \in Refs /\ events[iter'] # None /\ iter' > iter
      BY <2>1, <2>2, <2>3, Next1Gives
    <3>2. iter' # iter
      BY <3>1, <2>1, EventAssumption
    <3> QED BY <3>1, <3>2, <2>1, <2>2 DEF TypeTick
  <2> QED BY <1>0, <2>2, <2>3
<1> QED BY <1>1, <1>2, <1>3, <1>4, <1>5 DEF Next, Tick

\* Start() finds the one connection of a socket.
LEMMA StartOfConn ==
  ASSUME TypeSockets, Apart, NEW i \in DOMAIN conns
  PROVE  Start(conns[i].fd) = conns[i].start
<1>1. \A c \in Range(conns) : c.fd = conns[i].fd => c = conns[i]
  BY DEF Apart, Range
<1>2. conns[i] \in Range(conns)
  BY DEF Range
<1>3. (CHOOSE c \in Range(conns) : c.fd = conns[i].fd) = conns[i]
  BY <1>1, <1>2
<1> QED BY <1>3 DEF Start

\* Data that came in time is gone, with its connection, or has time enough left.
LEMMA NextKeepsTimely ==
  ASSUME TypeSockets, TypeTick, Apart, Begun, ConnAges, Timely, [Next]_vars
  PROVE  Timely'
<1>0. /\ DataMax \in Nat /\ Period \in Nat /\ Word \in Nat /\ DataMax + 2 * Period < Word
      /\ late \in Nat /\ late <= Period /\ clock \in Times /\ pos \in Nat
      /\ DOMAIN conns = 1 .. Len(conns) /\ Len(conns) \in Nat
  BY EventAssumption, Lists DEF TypeTick
<1>1. \A i \in DOMAIN conns : /\ conns[i].fd \in Fds /\ conns[i].start \in Times
                              /\ Age(conns[i].start) \in Nat
  <2>1. ASSUME NEW i \in DOMAIN conns PROVE conns[i].start \in Times /\ Age(conns[i].start) \in Times
    BY <1>0, Lists, ElapsedType DEF Age
  <2> QED BY <2>1, Lists DEF Times
\* A step that leaves each connection that is in time where it was, or takes it further off.
<1>2. ASSUME UNCHANGED <<clock, conns>>, late' \in Nat,
             \A fd \in Fds : inTime'[fd] => inTime[fd] /\ data'[fd] = data[fd],
             \A i \in DOMAIN conns : inTime'[conns[i].fd] => TimelyLimit(i) <= TimelyLimit(i)'
      PROVE  Timely'
  <2>1. \A fd \in Fds : inTime'[fd] => data'[fd] # Nothing
    BY <1>2 DEF Timely
  <2>2. ASSUME Period < DataMax, NEW i \in DOMAIN conns, inTime'[conns[i].fd]
        PROVE  Age(conns[i].start) + 2 * Period < TimelyLimit(i)'
    <3>1. inTime[conns[i].fd]
      BY <1>1, <1>2, <2>2
    <3>2. Age(conns[i].start) + 2 * Period < TimelyLimit(i)
      BY <2>2, <3>1 DEF Timely
    <3>3. TimelyLimit(i) <= TimelyLimit(i)'
      BY <1>2, <2>2
    <3>4. late' \in Nat
      BY <1>2
    <3>5. TimelyLimit(i)' \in {DataMax + late' + Period, DataMax + late' + 0}
      BY Zenon DEF TimelyLimit
    <3>6. TimelyLimit(i) \in Nat
      BY <1>0 DEF TimelyLimit
    <3> QED BY <3>2, <3>3, <3>4, <3>5, <3>6, <1>0, <1>1
  <2> QED BY <2>1, <2>2, <1>2 DEF Timely, Age
<1>3. CASE Connect \/ DequeueTurn \/ DequeueDone \/ UNCHANGED vars
  <2>1. /\ UNCHANGED <<clock, conns, data, inTime, late, pos>>
        /\ pc' = pc \/ (pc \notin {"timeouts", "receive"} /\ pc' \notin {"timeouts", "receive"})
    BY <1>3 DEF Connect, DequeueTurn, DequeueDone, vars, peers
  <2>2. \A i \in DOMAIN conns : TimelyLimit(i)' = TimelyLimit(i)
    BY <2>1 DEF TimelyLimit
  <2>3. \A i \in DOMAIN conns : TimelyLimit(i) \in Nat
    BY <1>0 DEF TimelyLimit
  <2> QED BY <1>0, <1>2, <2>1, <2>2, <2>3
<1>4. ASSUME NEW ref \in Refs, Pop(ref) PROVE Timely'
  <2>1. UNCHANGED <<clock, conns, data, inTime, late, pos, pc>>
    BY <1>4 DEF Pop, peers
  <2> QED BY <2>1 DEF Timely, TimelyLimit, Age
<1>5. CASE Send
  <2>1. PICK fd \in Open, d \in Data \ {Nothing} :
          /\ data' = [data EXCEPT ![fd] = d]
          /\ inTime' = [inTime EXCEPT ![fd] = fd \in Held => Age(Start(fd)) + 2 * Period < DataMax]
    BY <1>5 DEF Send
  <2>2. UNCHANGED <<clock, late, conns, pc, pos>>
    BY <1>5 DEF Send
  <2>3. \A other \in Fds : inTime'[other] => data'[other] # Nothing
    BY <2>1 DEF Timely, TypeSockets
  <2>4. ASSUME Period < DataMax, NEW i \in DOMAIN conns, inTime'[conns[i].fd]
        PROVE  Age(conns[i].start) + 2 * Period < TimelyLimit(i)
    <3>1. CASE conns[i].fd # fd
      <4>1. inTime[conns[i].fd]
        BY <2>1, <2>4, <3>1, <1>1 DEF TypeSockets
      <4> QED BY <2>4, <4>1 DEF Timely
    <3>2. CASE conns[i].fd = fd
      <4>1. fd \in Held /\ fd \in Fds
        BY <3>2, <1>1 DEF Held
      <4>2. Age(Start(fd)) + 2 * Period < DataMax
        BY <4>1, <2>1, <2>4, <3>2 DEF TypeSockets
      <4>3. Age(conns[i].start) + 2 * Period < DataMax
        BY <4>2, <3>2, StartOfConn
      <4>4. DataMax <= TimelyLimit(i) /\ TimelyLimit(i) \in Nat
        BY <1>0 DEF TimelyLimit
      <4> QED BY <4>3, <4>4, <1>0, <1>1
    <3> QED BY <3>1, <3>2
  <2> QED BY <2>2, <2>3, <2>4 DEF Timely, TimelyLimit, Age
<1>6. CASE StartListening
  <2>1. conns' = <<>> /\ UNCHANGED <<data, inTime>>
    BY <1>6 DEF StartListening, Begun, peers
  <2> QED BY <2>1 DEF Timely
<1>7. CASE DequeueStart
  <2>1. UNCHANGED <<clock, conns, data, inTime, late>> /\ pc' = "dequeue"
        /\ pc = "receive" /\ pos > Len(conns)
    BY <1>7 DEF DequeueStart, peers
  <2>2. \A i \in DOMAIN conns : TimelyLimit(i) <= TimelyLimit(i)'
    BY <1>0, <2>1 DEF TimelyLimit
  <2> QED BY <1>0, <1>2, <2>1, <2>2
<1>8. CASE Advance
  <2>1. UNCHANGED <<data, inTime, conns, pc, pos>> /\ late' = late + 1 /\ late < Period
    BY <1>8, AdvanceGives
  <2>2. ASSUME Period < DataMax, NEW i \in DOMAIN conns, inTime[conns[i].fd]
        PROVE  Elapsed(conns[i].start, clock') + 2 * Period < TimelyLimit(i)'
    <3>1. Age(conns[i].start) + 2 * Period < TimelyLimit(i)
      BY <2>2 DEF Timely
    <3>2. Age(conns[i].start) < Word - 1
      BY <2>1, <1>0, <1>1 DEF ConnAges, ConnLimit
    <3>3. Elapsed(conns[i].start, clock') = Age(conns[i].start) + 1
      BY <3>2, <1>1, <1>8, AdvanceGives
    <3>4. TimelyLimit(i)' = TimelyLimit(i) + 1 /\ TimelyLimit(i) \in Nat
      BY <2>1, <1>0 DEF TimelyLimit
    <3> QED BY <3>1, <3>3, <3>4, <1>0, <1>1
  <2> QED BY <2>1, <2>2 DEF Timely, Age
<1>9. CASE ConnectionsAccept
  <2>1. /\ clock' = clock /\ late' = 0 /\ pc = "idle" /\ pc' = "timeouts"
        /\ \/ conns' = conns /\ UNCHANGED <<data, inTime>>
           \/ conns' = conns /\ \E fds : Closed(fds)
           \/ /\ conns' = Append(conns, [fd |-> Head(pending), start |-> clock])
              /\ UNCHANGED <<data, inTime>>
    BY <1>9 DEF ConnectionsAccept, peers
  <2>2. \A fd \in Fds : inTime'[fd] => inTime[fd] /\ data'[fd] = data[fd]
    BY <2>1, ClosedGives
  <2>3. \A i \in Nat : TimelyLimit(i)' = DataMax + Period /\ TimelyLimit(i) = DataMax + late
    BY <2>1, <1>0 DEF TimelyLimit
  <2>4. CASE conns' = conns
    <3>1. \A i \in DOMAIN conns : TimelyLimit(i) <= TimelyLimit(i)'
      BY <2>3, <1>0
    <3>2. late' \in Nat
      BY <2>1
    <3> QED BY <2>1, <2>2, <2>4, <3>1, <3>2, <1>2
  <2>5. CASE /\ conns' = Append(conns, [fd |-> Head(pending), start |-> clock])
             /\ UNCHANGED <<data, inTime>>
    <3>1. ASSUME Period < DataMax, NEW i \in DOMAIN conns', inTime[conns'[i].fd]
          PROVE  Elapsed(conns'[i].start, clock) + 2 * Period < TimelyLimit(i)'
      <4>1. i \in Nat
        BY <2>5, <1>0 DEF TypeSockets
      <4>2. CASE i \in DOMAIN conns /\ conns'[i] = conns[i]
        <5>1. Age(conns[i].start) + 2 * Period < TimelyLimit(i)
          BY <3>1, <4>2 DEF Timely
        <5> QED BY <5>1, <4>1, <4>2, <2>3, <1>0, <1>1 DEF Age
      <4>3. CASE conns'[i] = [fd |-> Head(pending), start |-> clock]
        <5>1. Elapsed(clock, clock) = 0
          BY <1>0, ElapsedType
        <5> QED BY <5>1, <3>1, <4>1, <4>3, <2>3, <1>0
      <4> QED BY <4>2, <4>3, <2>5 DEF TypeSockets
    <3> QED BY <2>1, <2>5, <3>1 DEF Timely, Age
  <2> QED BY <2>1, <2>4, <2>5
<1>10. CASE DataTimeoutsCheck
  <2>1. UNCHANGED <<clock, late>> /\ pc = "timeouts" /\ pc' = "receive" /\ pos' = 1
    BY <1>10 DEF DataTimeoutsCheck
  <2>2. \A fd \in Fds : inTime'[fd] => inTime[fd] /\ data'[fd] = data[fd]
    BY <1>10, TimeoutsGive, ClosedGives
  <2>3. ASSUME Period < DataMax, NEW i \in DOMAIN conns', inTime'[conns'[i].fd]
        PROVE  Elapsed(conns'[i].start, clock) + 2 * Period < TimelyLimit(i)'
    <3>1. PICK j \in DOMAIN conns : conns'[i] = conns[j]
      BY <1>10, TimeoutsGive
    <3>2. inTime[conns[j].fd]
      BY <2>2, <2>3, <3>1, <1>1
    <3>3. Age(conns[j].start) + 2 * Period < TimelyLimit(j)
      BY <2>3, <3>2 DEF Timely
    <3>4. i \in Nat /\ i >= 1
      <4>1. DOMAIN conns' = 1 .. Len(conns')
        BY <1>10, TimeoutsGive, LenProperties DEF TypeSockets
      <4> QED BY <4>1
    <3>5. TimelyLimit(i)' = TimelyLimit(j)
      BY <2>1, <3>4 DEF TimelyLimit
    <3> QED BY <3>1, <3>3, <3>5 DEF Age
  <2> QED BY <2>1, <2>2, <2>3 DEF Timely, Age
<1>11. CASE MsgEnqueue
  <2>1. /\ UNCHANGED <<clock, late, pc>> /\ pc = "receive" /\ pos \in DOMAIN conns
    BY <1>11, <1>0 DEF MsgEnqueue, TypeTick
  <2>2. CASE data[conns[pos].fd] = Nothing
    <3>1. pos' = pos + 1 /\ UNCHANGED <<conns, data, inTime>>
      BY <1>11, <2>2 DEF MsgEnqueue
    <3>2. ~inTime[conns[pos].fd]
      BY <2>1, <2>2, <1>1 DEF Timely
    <3>3. \A i \in DOMAIN conns : inTime[conns[i].fd] => TimelyLimit(i) <= TimelyLimit(i)'
      <4>1. ASSUME NEW i \in DOMAIN conns, i # pos PROVE TimelyLimit(i) <= TimelyLimit(i)'
        BY <2>1, <3>1, <4>1, <1>0 DEF TimelyLimit
      <4> QED BY <3>2, <4>1
    <3> QED BY <2>1, <3>1, <3>3, <1>0, <1>2
  <2>3. CASE data[conns[pos].fd] # Nothing
    <3>1. /\ pos' = pos
          /\ \A i \in DOMAIN conns' : LET j == IF i < pos THEN i ELSE i + 1
                                      IN j \in DOMAIN conns /\ conns'[i] = conns[j]
          /\ \A fd \in Fds : inTime'[fd] => inTime[fd] /\ data'[fd] = data[fd]
      BY <1>11, <2>3, EnqueueGives, ClosedGives DEF TypeTick
    <3>2. ASSUME Period < DataMax, NEW i \in DOMAIN conns', inTime'[conns'[i].fd]
          PROVE  Elapsed(conns'[i].start, clock) + 2 * Period < TimelyLimit(i)'
      <4> DEFINE j == IF i < pos THEN i ELSE i + 1
      <4>1. j \in DOMAIN conns /\ conns'[i] = conns[j]
        BY <3>1
      <4>2. i \in Nat
        <5>1. DOMAIN conns' = 1 .. Len(conns')
          BY <1>11, <2>3, EnqueueGives, LenProperties DEF TypeSockets, TypeTick
        <5> QED BY <5>1
      <4>3. TimelyLimit(i)' = TimelyLimit(j)
        BY <2>1, <3>1, <4>2, <1>0 DEF TimelyLimit
      <4> HIDE DEF j
      <4>4. inTime[conns[j].fd]
        BY <3>1, <3>2, <4>1, <1>1
      <4>5. Age(conns[j].start) + 2 * Period < TimelyLimit(j)
        BY <3>2, <4>1, <4>4 DEF Timely
      <4> QED BY <4>1, <4>3, <4>5 DEF Age
    <3> QED BY <2>1, <3>1, <3>2 DEF Timely, Age
  <2> QED BY <2>2, <2>3
<1> QED BY <1>3, <1>4, <1>5, <1>6, <1>7, <1>8, <1>9, <1>10, <1>11 DEF Next, Tick

-----------------------------------------------------------------------------
(* The theorems *)

\* A listener that was just made holds nothing.
LEMMA InitIInv == Init => IInv
<1> SUFFICES ASSUME Init PROVE IInv
  OBVIOUS
<1>1. TypeSockets
  BY DEF Init, TypeSockets, Data
<1>2. TypeTick
  BY EventAssumption DEF Init, TypeTick, Times
<1>3. Apart
  BY EventAssumption DEF Init, Apart
<1>4. Begun /\ Queued = {}
  BY DEF Init, Begun, Queued
<1>5. ConnAges /\ Timely
  BY DEF Init, ConnAges, Timely
<1>6. EventAges /\ Snapshot /\ IterThere
  BY <1>4 DEF Init, EventAges, Snapshot, IterThere
<1> QED BY <1>1, <1>2, <1>3, <1>4, <1>5, <1>6 DEF IInv

\* Every part of the invariant survives a step, with the help of the others.
LEMMA NextIInv == IInv /\ [Next]_vars => IInv'
<1> SUFFICES ASSUME IInv, [Next]_vars PROVE IInv'
  OBVIOUS
<1>1. TypeSockets' /\ Apart' /\ TypeTick' /\ Begun'
  BY NextKeepsApart, NextKeepsType, NextKeepsBegun DEF IInv
<1>2. ConnAges' /\ EventAges' /\ Snapshot'
  BY NextKeepsConnAges, NextKeepsEventAges, NextKeepsSnapshot DEF IInv
<1>3. IterThere' /\ Timely'
  BY NextKeepsIterThere, NextKeepsTimely DEF IInv
<1> QED BY <1>1, <1>2, <1>3 DEF IInv

\* The invariant of the listener.
THEOREM IInvAlways == Spec => []IInv
BY InitIInv, NextIInv, PTL DEF Spec

\* SocketsAccounted (EventListening.cpp:103-141): for every number of descriptors each open
\* socket is at one place only, and no more than cNumOpenConnsMax of them are connections.
THEOREM SocketsAccountedAlways == Spec => []SocketsAccounted
<1>1. IInv => SocketsAccounted
  BY ApartCounts DEF IInv
<1> QED BY <1>1, IInvAlways, PTL

\* The limits on the ages by phase are the ones of the property, or stricter.
LEMMA AgesImplyStale ==
  ASSUME IInv
  PROVE  NothingStale
<1>2. ASSUME NEW c \in Range(conns) PROVE Age(c.start) <= DataMax + 2 * Period
  <2>1. PICK i \in DOMAIN conns : c = conns[i]
    BY DEF Range
  <2>2. conns[i].start \in Times /\ clock \in Times /\ late \in 0 .. Period
    BY Lists DEF IInv, TypeTick
  <2>3. Age(conns[i].start) \in Times
    BY <2>2, ElapsedType DEF Age
  <2>4. Age(conns[i].start) <= ConnLimit
    BY DEF IInv, ConnAges
  <2> QED BY <2>1, <2>2, <2>3, <2>4, EventAssumption DEF ConnLimit, Times
<1>3. ASSUME NEW ref \in Queued PROVE Age(events[ref]) <= DequeueMax + 2 * Period
  BY EventAge, EventAssumption DEF IInv, Queued
<1> QED BY <1>2, <1>3 DEF NothingStale

\* NothingStale (EventListening.cpp:143-167, 263-286), over any wrap of millis(), for all
\* timeouts and whoever calls pop() from where.
THEOREM NothingStaleAlways == Spec => []NothingStale
<1>1. IInv => NothingStale
  BY AgesImplyStale
<1> QED BY <1>1, IInvAlways, PTL

\* The loop over the events (EventListening.cpp:271-287) takes no lock, and erases while it
\* walks: it never stands on an event that is gone if pop() is called from the listener's own
\* thread only.
THEOREM LoopStandsOnEvent == ~ClientThreads => (Spec => [](broken # "iter"))
<1> SUFFICES ASSUME ~ClientThreads PROVE Spec => [](broken # "iter")
  OBVIOUS
<1>1. IInv => broken # "iter"
  BY DEF IInv, IterThere
<1> QED BY <1>1, IInvAlways, PTL

\* A connection whose data came in time is young when the timeouts are looked at.
LEMMA TimelyIsKept ==
  ASSUME IInv, Next, Period < DataMax, NEW fd \in Held, pc = "timeouts", inTime[fd]
  PROVE  fd \in {c.fd : c \in Range(conns')}
<1>1. PICK i \in DOMAIN conns : conns[i].fd = fd
  BY DEF Held
<1>2. ASSUME NEW j \in DOMAIN conns', conns'[j] = conns[i] PROVE fd \in {c.fd : c \in Range(conns')}
  BY <1>1, <1>2 DEF Range
<1>3. CASE DataTimeoutsCheck
  <2>1. /\ DataMax \in Nat /\ Period \in Nat /\ late \in Nat /\ late <= Period
        /\ Age(conns[i].start) \in Nat
    <3>1. conns[i].start \in Times /\ clock \in Times /\ late \in 0 .. Period
      BY Lists DEF IInv, TypeTick
    <3>2. Age(conns[i].start) \in Times
      BY <3>1, ElapsedType DEF Age
    <3> QED BY <3>1, <3>2, EventAssumption DEF Times
  <2>2. Age(conns[i].start) + 2 * Period < DataMax + late + Period
    BY <1>1, <2>1 DEF IInv, Timely, TimelyLimit
  <2>3. ~Due(conns[i].start, DataMax)
    BY <2>1, <2>2 DEF Due
  <2>4. PICK j \in DOMAIN conns' : conns'[j] = conns[i]
    BY <1>3, <2>3, TimeoutsGive DEF IInv
  <2> QED BY <2>4, <1>2
<1>4. CASE conns' = conns
  BY <1>2, <1>4
<1> QED BY <1>3, <1>4 DEF Next, Tick, Connect, Send, Advance, StartListening, ConnectionsAccept,
           MsgEnqueue, DequeueStart, DequeueTurn, DequeueDone, Pop, peers

\* An event the loop drops was due when the loop began, and has not got younger.
LEMMA DroppedIsDue ==
  ASSUME IInv, Next, NEW ref \in Queued, pc = "dequeue", pc' = pc, events'[ref] = None
  PROVE  Age(events[ref]) >= DequeueMax \/ Pop(ref)
<1>0. ref \in Refs /\ events[ref] # None
  BY DEF Queued
<1>1. CASE DequeueTurn
  <2>1. ref = iter /\ Elapsed(events[ref], now) >= DequeueMax
    BY <1>0, <1>1, TurnGives DEF IInv, TypeTick
  <2>2. Age(now) <= Age(events[ref])
    BY DEF IInv, Snapshot
  <2>3. events[ref] \in Times /\ now \in Times /\ clock \in Times /\ Age(events[ref]) \in Nat
    BY <1>0, EventAge DEF IInv, TypeTick
  <2>4. Elapsed(events[ref], now) = Age(events[ref]) - Age(now)
    BY <2>2, <2>3, ElapsedBetween DEF Age
  <2>5. Age(now) \in Nat
    BY <2>3, ElapsedType DEF Age, Times
  <2> QED BY <2>1, <2>3, <2>4, <2>5, EventAssumption
<1>2. ASSUME NEW r \in Refs, Pop(r) PROVE Pop(ref)
  <2>1. events' = [events EXCEPT ![r] = None]
    BY <1>2 DEF Pop
  <2>2. r = ref
    BY <2>1, <1>0 DEF IInv, TypeTick
  <2> QED BY <1>2, <2>2
<1>3. CASE events' = events \/ pc # "dequeue" \/ pc' # "dequeue"
  BY <1>0, <1>3
<1> QED BY <1>1, <1>2, <1>3 DEF Next, Tick, Connect, Send, Advance, StartListening, ConnectionsAccept,
           DataTimeoutsCheck, MsgEnqueue, DequeueStart, DequeueDone

\* NothingDroppedEarly (EventListening.cpp:100-101, 155, 278): a listener that is ticked more
\* often than a connection times out - a new connection is first looked at a Period later -
\* drops no connection and no event before its time, whoever calls pop() from where.
THEOREM NothingDroppedEarlyAlways == Period < DataMax => (Spec => NothingDroppedEarly)
<1> SUFFICES ASSUME Period < DataMax PROVE Spec => NothingDroppedEarly
  OBVIOUS
<1>1. ASSUME IInv, [Next]_vars
      PROVE  [/\ \A fd \in Held : pc = "timeouts" /\ inTime[fd] => fd \in {c.fd : c \in Range(conns')}
              /\ \A ref \in Queued : pc = "dequeue" /\ pc' = pc /\ events'[ref] = None
                     => Age(events[ref]) >= DequeueMax \/ Pop(ref)
             ]_vars
  BY <1>1, TimelyIsKept, DroppedIsDue
<1> QED BY <1>1, IInvAlways, PTL DEF Spec, NothingDroppedEarly
=============================================================================
