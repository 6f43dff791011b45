---------------------------- MODULE DnsResolving ----------------------------
(***************************************************************************)
(* DnsResolving.cpp: lookups of host names with c-ares, and the global     *)
(* initialisation of that library (LibDspc.cpp).  Each lookup has a        *)
(* channel of its own and is ticked by one thread; threads share the flag  *)
(* of the initialisation, under a mutex.                                   *)
(*                                                                         *)
(* c-ares calls aresRequestDone() once per query: at once within           *)
(* ares_getaddrinfo(), when it knows the answer without asking (an address *)
(* as name, /etc/hosts), within ares_process(), or within ares_destroy()   *)
(* at the latest.                                                          *)
(***************************************************************************)
EXTENDS Integers, FiniteSets

CONSTANT Lookups

VARIABLES
    life,         \* "none", "active", "down" when shutdown() has returned
    mState, success, canceled,
    channel,      \* mChannelAres: "none", "open", "gone", "twice" when destroyed again
    mChannelAresInitDone,
    mDoneAres,
    query,        \* c-ares has a query with a pointer to the lookup
    addrs,        \* mLstIPv4 or mLstIPv6 have entries
    touched,      \* an answer was written into a lookup that was not there
    caresGlobalInitDone,
    library       \* of ares_library_init() and ares_library_cleanup(): the difference

procVars == <<life, mState, success, canceled>>
aresVars == <<channel, mChannelAresInitDone, mDoneAres, query, addrs, touched>>
globalVars == <<caresGlobalInitDone, library>>
vars == <<procVars, aresVars, globalVars>>

Init ==
    /\ life = [d \in Lookups |-> "none"]
    /\ mState = [d \in Lookups |-> "StStart"]
    /\ success = [d \in Lookups |-> "Pending"]
    /\ canceled = [d \in Lookups |-> FALSE]
    /\ channel = [d \in Lookups |-> "none"]
    /\ mChannelAresInitDone = [d \in Lookups |-> FALSE]
    /\ mDoneAres = [d \in Lookups |-> "Pending"]
    /\ query = [d \in Lookups |-> FALSE]
    /\ addrs = [d \in Lookups |-> FALSE]
    /\ touched = FALSE
    /\ caresGlobalInitDone = FALSE /\ library = 0

\* Every lookup of this program is one of these; the object is used once and not again.
Create(d) ==
    /\ life[d] = "none"
    /\ life' = [life EXCEPT ![d] = "active"]
    /\ mState' = [mState EXCEPT ![d] = "StStart"]
    /\ success' = [success EXCEPT ![d] = "Pending"]
    /\ canceled' = [canceled EXCEPT ![d] = FALSE]
    /\ channel' = [channel EXCEPT ![d] = "none"]
    /\ mChannelAresInitDone' = [mChannelAresInitDone EXCEPT ![d] = FALSE]
    /\ mDoneAres' = [mDoneAres EXCEPT ![d] = "Pending"]
    /\ query' = [query EXCEPT ![d] = FALSE]
    /\ addrs' = [addrs EXCEPT ![d] = FALSE]
    /\ UNCHANGED <<touched, globalVars>>

Cancel(d) ==
    /\ life[d] = "active" /\ ~canceled[d]
    /\ canceled' = [canceled EXCEPT ![d] = TRUE]
    /\ UNCHANGED <<life, mState, success, aresVars, globalVars>>

\* The destructor does nothing.
Destroy(d) ==
    /\ life[d] = "down"
    /\ life' = [life EXCEPT ![d] = "none"]
    /\ UNCHANGED <<mState, success, canceled, aresVars, globalVars>>

-----------------------------------------------------------------------------
(* c-ares *)

\* aresRequestDone(): an address, none that can be used, or an error.
Answer(d, done, some) ==
    /\ mDoneAres' = [mDoneAres EXCEPT ![d] = done]
    /\ addrs' = [addrs EXCEPT ![d] = @ \/ some]
    /\ query' = [query EXCEPT ![d] = FALSE]
    /\ touched' = (touched \/ life[d] = "none")
Answered(d) == Answer(d, "Positive", TRUE) \/ Answer(d, "Positive", FALSE) \/ Answer(d, "-1", FALSE)
NoAnswer    == UNCHANGED <<mDoneAres, addrs, query, touched>>

\* What ares_destroy() makes of a channel; an open query is answered with an error.
Destroyed(c) == IF c = "open" THEN "gone" ELSE "twice"

-----------------------------------------------------------------------------
(* process() *)

Ticked(d, state) == /\ life[d] = "active" /\ success[d] = "Pending" /\ ~canceled[d]
                    /\ mState[d] = state

Goto(d, state)  == mState' = [mState EXCEPT ![d] = state] /\ UNCHANGED success
Finish(d, with) == success' = [success EXCEPT ![d] = with] /\ UNCHANGED mState

\* The host name may be missing.
Start(d) ==
    /\ Ticked(d, "StStart")
    /\ Goto(d, "StGlobalInit") \/ Finish(d, "-1")
    /\ UNCHANGED <<life, canceled, aresVars, globalVars>>

CaresGlobalInit ==
    IF caresGlobalInitDone THEN UNCHANGED globalVars
    ELSE library' = library + 1 /\ caresGlobalInitDone' = TRUE

GlobalInit(d) ==
    /\ Ticked(d, "StGlobalInit")
    /\ CaresGlobalInit
    /\ Goto(d, "StAresStart")
    /\ UNCHANGED <<life, canceled, aresVars>>

\* aresStart(): without a channel it ends early, else the query is made.
AresStart(d) ==
    /\ Ticked(d, "StAresStart")
    /\ \/ /\ Finish(d, "-1")
          /\ NoAnswer /\ UNCHANGED <<channel, mChannelAresInitDone>>
       \/ /\ Goto(d, "StAresDoneWait")
          /\ channel' = [channel EXCEPT ![d] = "open"]
          /\ mChannelAresInitDone' = [mChannelAresInitDone EXCEPT ![d] = TRUE]
          /\ \/ Answered(d)
             \/ query' = [query EXCEPT ![d] = TRUE] /\ UNCHANGED <<mDoneAres, addrs, touched>>
    /\ UNCHANGED <<life, canceled, globalVars>>

\* aresProcess(): without a query there is no descriptor, which is taken for an error
\* whatever was answered before (228-232).  With one, select() may fail, or it is more than
\* select() may be given; else c-ares works on the query.
AresProcess(d) ==
    IF ~query[d]
    THEN mDoneAres' = [mDoneAres EXCEPT ![d] = "-1"] /\ UNCHANGED <<addrs, query, touched>>
    ELSE \/ mDoneAres' = [mDoneAres EXCEPT ![d] = "-1"] /\ UNCHANGED <<addrs, query, touched>>
         \/ Answered(d)
         \/ NoAnswer

\* StAresDoneWait: the channel is destroyed here on success, and in shutdown() otherwise.
AresDoneWaitStale(d) ==                                                      \* variant
    /\ Ticked(d, "StAresDoneWait")
    /\ AresProcess(d)
    /\ IF mDoneAres[d] = "Pending" THEN UNCHANGED <<success, mState>> ELSE Finish(d, mDoneAres[d])
    /\ IF mDoneAres[d] = "Positive"
       THEN /\ channel' = [channel EXCEPT ![d] = Destroyed(@)]
            /\ mChannelAresInitDone' = [mChannelAresInitDone EXCEPT ![d] = FALSE]
       ELSE UNCHANGED <<channel, mChannelAresInitDone>>
    /\ UNCHANGED <<life, canceled, globalVars>>
AresDoneWaitError(d) ==                                                      \* variant
    /\ Ticked(d, "StAresDoneWait")
    /\ AresProcess(d)
    /\ IF mDoneAres'[d] # "Positive" THEN UNCHANGED <<success, mState>> ELSE Finish(d, mDoneAres'[d])
    /\ IF mDoneAres'[d] = "Positive"
       THEN /\ channel' = [channel EXCEPT ![d] = Destroyed(@)]
            /\ mChannelAresInitDone' = [mChannelAresInitDone EXCEPT ![d] = FALSE]
       ELSE UNCHANGED <<channel, mChannelAresInitDone>>
    /\ UNCHANGED <<life, canceled, globalVars>>
AresDoneWait(d) ==
    /\ Ticked(d, "StAresDoneWait")
    /\ AresProcess(d)
    /\ IF mDoneAres'[d] = "Pending" THEN UNCHANGED <<success, mState>> ELSE Finish(d, mDoneAres'[d])
    /\ IF mDoneAres'[d] = "Positive"
       THEN /\ channel' = [channel EXCEPT ![d] = Destroyed(@)]
            /\ mChannelAresInitDone' = [mChannelAresInitDone EXCEPT ![d] = FALSE]
       ELSE UNCHANGED <<channel, mChannelAresInitDone>>
    /\ UNCHANGED <<life, canceled, globalVars>>

\* shutdown(), of a lookup that has finished or was canceled.  The query that is still open
\* is answered before the lookup goes.
ShutdownLeft(d) ==                                                           \* variant
    /\ life[d] = "active" /\ (success[d] # "Pending" \/ canceled[d])
    /\ life' = [life EXCEPT ![d] = "down"]
    /\ IF mChannelAresInitDone[d] /\ ~canceled[d]
       THEN /\ channel' = [channel EXCEPT ![d] = Destroyed(@)]
            /\ mChannelAresInitDone' = [mChannelAresInitDone EXCEPT ![d] = FALSE]
            /\ IF query[d] THEN Answer(d, "-1", FALSE) ELSE NoAnswer
       ELSE UNCHANGED aresVars
    /\ UNCHANGED <<mState, success, canceled, globalVars>>
Shutdown(d) ==
    /\ life[d] = "active" /\ (success[d] # "Pending" \/ canceled[d])
    /\ life' = [life EXCEPT ![d] = "down"]
    /\ IF mChannelAresInitDone[d]
       THEN /\ channel' = [channel EXCEPT ![d] = Destroyed(@)]
            /\ mChannelAresInitDone' = [mChannelAresInitDone EXCEPT ![d] = FALSE]
            /\ IF query[d] THEN Answer(d, "-1", FALSE) ELSE NoAnswer
       ELSE UNCHANGED aresVars
    /\ UNCHANGED <<mState, success, canceled, globalVars>>

\* The global destructor, that SystemCore calls when no process is left.
CaresGlobalDeInit ==
    /\ \A d \in Lookups : life[d] = "none"
    /\ caresGlobalInitDone
    /\ library' = library - 1 /\ caresGlobalInitDone' = FALSE
    /\ UNCHANGED <<procVars, aresVars>>

Tick(d) == Start(d) \/ GlobalInit(d) \/ AresStart(d) \/ AresDoneWait(d)

Next == \/ \E d \in Lookups : Create(d) \/ Cancel(d) \/ Destroy(d) \/ Tick(d) \/ Shutdown(d)
        \/ CaresGlobalDeInit

\* Ticks go on, and c-ares answers a query after the tries it was configured for (183-184).
Spec == Init /\ [][Next]_vars
FairSpec == Spec /\ \A d \in Lookups :
    /\ WF_vars(Tick(d)) /\ WF_vars(Shutdown(d))
    /\ SF_vars(AresDoneWait(d) /\ mDoneAres'[d] # "Pending")

-----------------------------------------------------------------------------
TypeOK ==
    /\ life \in [Lookups -> {"none", "active", "down"}]
    /\ mState \in [Lookups -> {"StStart", "StGlobalInit", "StAresStart", "StAresDoneWait"}]
    /\ success \in [Lookups -> {"Pending", "Positive", "-1"}]
    /\ canceled \in [Lookups -> BOOLEAN]
    /\ channel \in [Lookups -> {"none", "open", "gone", "twice"}]
    /\ mChannelAresInitDone \in [Lookups -> BOOLEAN]
    /\ mDoneAres \in [Lookups -> {"Pending", "Positive", "-1"}]
    /\ query \in [Lookups -> BOOLEAN] /\ addrs \in [Lookups -> BOOLEAN]
    /\ touched \in BOOLEAN
    /\ caresGlobalInitDone \in BOOLEAN /\ library \in {0, 1}

\* A channel is destroyed once, whether the lookup succeeds, fails or is canceled, and is
\* gone before the lookup: c-ares, that keeps a pointer to the lookup of an open query,
\* never writes into one that is deleted.  No channel outlives the library.
ChannelEndsFirst ==
    /\ ~touched
    /\ \A d \in Lookups :
        /\ channel[d] # "twice"
        /\ query[d] => life[d] = "active" /\ channel[d] = "open"
        /\ channel[d] = "open" => life[d] = "active" /\ library = 1
    /\ library = IF caresGlobalInitDone THEN 1 ELSE 0

\* An answer that c-ares gives to a tick is the result of that tick; an error with addresses
\* comes only from an answer that was there before the first of them (228-232).
AnswerIsResult == [][ \A d \in Lookups : life[d] = "active" /\ mState[d] = "StAresDoneWait" =>
    /\ query[d] /\ ~query'[d] /\ life'[d] = "active" => success'[d] = mDoneAres'[d]
    /\ success'[d] = "Positive" => mDoneAres'[d] = "Positive"
    /\ success[d] = "Pending" /\ success'[d] = "-1" /\ addrs'[d] => ~query[d]
  ]_vars

\* Every lookup ends.
LookupEnds == \A d \in Lookups : life[d] = "active" ~> life[d] # "active"
=============================================================================
