------------------------- MODULE DnsResolvingProofs -------------------------
(***************************************************************************)
(* Proofs about DnsResolving.cpp for any set of lookups: what c-ares keeps *)
(* a pointer to outlives it, and the result of a tick is the answer of it. *)
(***************************************************************************)
EXTENDS DnsResolving, TLAPS

\* The conjuncts of the invariant that speak of one lookup.  The flag follows the channel, so
\* that whoever destroys it next finds it gone; a query keeps the channel open, and an open
\* channel its lookup; nothing was answered before the query.
LookupOK(d) ==
    /\ channel[d] # "twice"
    /\ mChannelAresInitDone[d] <=> channel[d] = "open"
    /\ query[d] => channel[d] = "open" /\ ~addrs[d] /\ mDoneAres[d] # "Positive"
    /\ channel[d] = "open" => life[d] = "active" /\ mState[d] = "StAresDoneWait"
    /\ life[d] = "active" /\ mState[d] \in {"StAresStart", "StAresDoneWait"} => caresGlobalInitDone
    /\ life[d] = "active" /\ mState[d] # "StAresDoneWait" =>
          ~addrs[d] /\ success[d] # "Positive" /\ mDoneAres[d] = "Pending"
    /\ life[d] = "active" /\ mState[d] = "StAresDoneWait" /\ success[d] = "Pending" => channel[d] = "open"
    /\ life[d] = "active" /\ success[d] = "Positive" =>
          mDoneAres[d] = "Positive" /\ channel[d] # "open"

\* The library is initialised once, and no answer came too late.
GlobalOK == ~touched /\ library = IF caresGlobalInitDone THEN 1 ELSE 0

Kept == TypeOK /\ GlobalOK /\ \A d \in Lookups : LookupOK(d)

\* A channel of a lookup that waits, and of no other, is all that the property asks for.
LEMMA KeptImplies == Kept => ChannelEndsFirst
<1> SUFFICES ASSUME Kept PROVE ChannelEndsFirst
  OBVIOUS
<1>1. ASSUME NEW d \in Lookups
      PROVE  /\ channel[d] # "twice"
             /\ query[d] => life[d] = "active" /\ channel[d] = "open"
             /\ channel[d] = "open" => life[d] = "active" /\ library = 1
  BY DEF Kept, LookupOK, GlobalOK
<1> QED BY <1>1 DEF Kept, GlobalOK, ChannelEndsFirst

\* Nothing was looked up yet.
LEMMA InitKept == Init => Kept
<1> SUFFICES ASSUME Init PROVE Kept
  OBVIOUS
<1>1. TypeOK
  BY DEF Init, TypeOK
<1>2. GlobalOK
  BY DEF Init, GlobalOK
<1>3. ASSUME NEW d \in Lookups PROVE LookupOK(d)
  BY DEF Init, LookupOK
<1> QED BY <1>1, <1>2, <1>3 DEF Kept

-----------------------------------------------------------------------------
(* The parent of a lookup *)

\* A new lookup has neither a channel nor an answer.
LEMMA CreateKeeps ==
  ASSUME Kept, NEW e \in Lookups, Create(e)
  PROVE  Kept'
<1>1a. GlobalOK'
  BY DEF Kept, GlobalOK, Create, globalVars
<1>1b. TypeOK'
  BY DEF Kept, TypeOK, Create, globalVars
<1>1. TypeOK' /\ GlobalOK'
  BY <1>1a, <1>1b
<1>2. ASSUME NEW d \in Lookups PROVE LookupOK(d)'
  BY DEF Kept, TypeOK, LookupOK, Create, globalVars
<1> QED BY <1>1, <1>2 DEF Kept

\* Cancel only asks for the shutdown; the destructor comes after it.
LEMMA CancelOrDestroyKeeps ==
  ASSUME Kept, NEW e \in Lookups, Cancel(e) \/ Destroy(e)
  PROVE  Kept'
<1>1. /\ UNCHANGED <<mState, success, aresVars, globalVars>>
      /\ canceled' \in [Lookups -> BOOLEAN]
      /\ \/ life' = life
         \/ life[e] = "down" /\ life' = [life EXCEPT ![e] = "none"]
  BY DEF Kept, TypeOK, Cancel, Destroy
<1>2a. GlobalOK'
  BY <1>1 DEF Kept, GlobalOK, aresVars, globalVars
<1>2b. TypeOK'
  BY <1>1 DEF Kept, TypeOK, aresVars, globalVars
<1>2. TypeOK' /\ GlobalOK'
  BY <1>2a, <1>2b
<1>3. ASSUME NEW d \in Lookups PROVE LookupOK(d)'
  BY <1>1 DEF Kept, TypeOK, LookupOK, aresVars, globalVars
<1> QED BY <1>2, <1>3 DEF Kept

-----------------------------------------------------------------------------
(* process() and shutdown() *)

\* A channel is opened by the start, which may be answered, or fail, before it returns.
LEMMA StartKeeps ==
  ASSUME Kept, NEW e \in Lookups, Start(e)
  PROVE  Kept'
<1>1a. GlobalOK'
  BY DEF Kept, GlobalOK, Start, Ticked, Goto, Finish, aresVars, globalVars
<1>1b. TypeOK'
  BY DEF Kept, TypeOK, Start, Ticked, Goto, Finish, aresVars, globalVars
<1>1. TypeOK' /\ GlobalOK'
  BY <1>1a, <1>1b
<1>2. ASSUME NEW d \in Lookups PROVE LookupOK(d)'
  BY DEF Kept, TypeOK, LookupOK, Start, Ticked, Goto, Finish, aresVars, globalVars
<1> QED BY <1>1, <1>2 DEF Kept

\* Whoever comes first initialises the library, and those who come later find it so.
LEMMA GlobalInitKeeps ==
  ASSUME Kept, NEW e \in Lookups, GlobalInit(e)
  PROVE  Kept'
<1>1. /\ caresGlobalInitDone'
      /\ library' = 1
      /\ UNCHANGED <<life, success, canceled, aresVars>>
      /\ mState[e] = "StGlobalInit" /\ mState' = [mState EXCEPT ![e] = "StAresStart"]
  BY DEF Kept, TypeOK, GlobalOK, GlobalInit, CaresGlobalInit, Ticked, Goto, globalVars
<1>2a. GlobalOK'
  BY <1>1 DEF Kept, GlobalOK, aresVars
<1>2b. TypeOK'
  BY <1>1 DEF Kept, TypeOK, aresVars
<1>2. TypeOK' /\ GlobalOK'
  BY <1>2a, <1>2b
<1>3. ASSUME NEW d \in Lookups PROVE LookupOK(d)'
  BY <1>1 DEF Kept, TypeOK, LookupOK, aresVars
<1> QED BY <1>2, <1>3 DEF Kept

\* The callback writes its answer into the lookup of the query, and closes this.
LEMMA AnsweredGives ==
  ASSUME TypeOK, NEW e \in Lookups, life[e] = "active", Answered(e)
  PROVE  /\ touched' = touched
         /\ mDoneAres' \in [Lookups -> {"Pending", "Positive", "-1"}]
         /\ addrs' \in [Lookups -> BOOLEAN] /\ query' \in [Lookups -> BOOLEAN]
         /\ \A d \in Lookups \ {e} :
               mDoneAres'[d] = mDoneAres[d] /\ addrs'[d] = addrs[d] /\ query'[d] = query[d]
         /\ ~query'[e] /\ mDoneAres'[e] # "Pending"
         /\ mDoneAres'[e] = "-1" => addrs'[e] = addrs[e]
<1>1. PICK done \in {"Positive", "-1"}, some \in BOOLEAN : Answer(e, done, some) /\ (done = "-1" => ~some)
  BY DEF Answered
<1>2. mDoneAres' = [mDoneAres EXCEPT ![e] = done] /\ query' = [query EXCEPT ![e] = FALSE]
  BY <1>1 DEF Answer
<1>3. addrs' = [addrs EXCEPT ![e] = @ \/ some]
  BY <1>1 DEF Answer
<1>4. touched' = touched
  BY <1>1 DEF Answer, TypeOK
<1>5. /\ addrs' \in [Lookups -> BOOLEAN] /\ \A d \in Lookups \ {e} : addrs'[d] = addrs[d]
      /\ done = "-1" => addrs'[e] = addrs[e]
  BY <1>1, <1>3 DEF TypeOK
<1> QED BY <1>2, <1>4, <1>5 DEF TypeOK

\* The channel opens where there was none, and the query may be answered at once.
LEMMA AresStartKeeps ==
  ASSUME Kept, NEW e \in Lookups, AresStart(e)
  PROVE  Kept'
<1>1. /\ life[e] = "active" /\ mState[e] = "StAresStart" /\ ~addrs[e]
      /\ UNCHANGED <<life, canceled, caresGlobalInitDone, library>>
  BY DEF Kept, LookupOK, AresStart, Ticked, globalVars
<1>2. CASE Finish(e, "-1") /\ NoAnswer /\ UNCHANGED <<channel, mChannelAresInitDone>>
  <2>1a. GlobalOK'
    BY <1>1, <1>2 DEF Kept, GlobalOK, Finish, NoAnswer
  <2>1b. TypeOK'
    BY <1>1, <1>2 DEF Kept, TypeOK, Finish, NoAnswer
  <2>1. TypeOK' /\ GlobalOK'
    BY <2>1a, <2>1b
  <2>2. ASSUME NEW d \in Lookups PROVE LookupOK(d)'
    BY <1>1, <1>2 DEF Kept, TypeOK, LookupOK, Finish, NoAnswer
  <2> QED BY <2>1, <2>2 DEF Kept
<1>3. CASE /\ Goto(e, "StAresDoneWait")
           /\ channel' = [channel EXCEPT ![e] = "open"]
           /\ mChannelAresInitDone' = [mChannelAresInitDone EXCEPT ![e] = TRUE]
           /\ \/ Answered(e)
              \/ query' = [query EXCEPT ![e] = TRUE] /\ UNCHANGED <<mDoneAres, addrs, touched>>
  <2>1. /\ touched' = touched
        /\ mDoneAres' \in [Lookups -> {"Pending", "Positive", "-1"}]
        /\ addrs' \in [Lookups -> BOOLEAN] /\ query' \in [Lookups -> BOOLEAN]
        /\ \A d \in Lookups \ {e} :
              mDoneAres'[d] = mDoneAres[d] /\ addrs'[d] = addrs[d] /\ query'[d] = query[d]
        /\ query'[e] => ~addrs'[e] /\ mDoneAres'[e] # "Positive"
    <3>1. CASE Answered(e)
      BY <1>1, <3>1, AnsweredGives DEF Kept
    <3>2. CASE query' = [query EXCEPT ![e] = TRUE] /\ UNCHANGED <<mDoneAres, addrs, touched>>
      BY <1>1, <3>2 DEF Kept, TypeOK, GlobalOK, LookupOK
    <3> QED BY <1>3, <3>1, <3>2
  <2>2a. GlobalOK'
    BY <1>1, <1>3, <2>1 DEF Kept, GlobalOK, Goto
  <2>2b. TypeOK'
    BY <1>1, <1>3, <2>1 DEF Kept, TypeOK, Goto
  <2>2. TypeOK' /\ GlobalOK'
    BY <2>2a, <2>2b
  <2>3. ASSUME NEW d \in Lookups PROVE LookupOK(d)'
    BY <1>1, <1>3, <2>1 DEF Kept, TypeOK, LookupOK, Goto
  <2> QED BY <2>2, <2>3 DEF Kept
<1> QED BY <1>2, <1>3 DEF AresStart

\* What a tick may learn: nothing, an error, or the one answer of the query.
LEMMA AresProcessGives ==
  ASSUME Kept, NEW e \in Lookups, life[e] = "active", AresProcess(e)
  PROVE  /\ touched' = touched
         /\ mDoneAres' \in [Lookups -> {"Pending", "Positive", "-1"}]
         /\ addrs' \in [Lookups -> BOOLEAN] /\ query' \in [Lookups -> BOOLEAN]
         /\ \A d \in Lookups \ {e} :
               mDoneAres'[d] = mDoneAres[d] /\ addrs'[d] = addrs[d] /\ query'[d] = query[d]
         /\ query'[e] => query[e] /\ ~addrs'[e]
         /\ query[e] /\ ~query'[e] => mDoneAres'[e] # "Pending"
         /\ mDoneAres'[e] = "Positive" => ~query'[e]
         /\ query[e] /\ mDoneAres'[e] = "-1" => ~addrs'[e]
<1>1. ~touched /\ LookupOK(e) /\ TypeOK
  BY DEF Kept, GlobalOK
<1>2. CASE mDoneAres' = [mDoneAres EXCEPT ![e] = "-1"] /\ UNCHANGED <<addrs, query, touched>>
  BY <1>1, <1>2 DEF TypeOK, LookupOK
<1>3. CASE query[e] /\ Answered(e)
  BY <1>1, <1>3, AnsweredGives DEF LookupOK
<1>4. CASE query[e] /\ NoAnswer
  BY <1>1, <1>4 DEF TypeOK, LookupOK, NoAnswer
<1> QED BY <1>2, <1>3, <1>4 DEF AresProcess

\* A tick ends the lookup with what it learns, and on success it destroys the channel.
LEMMA AresDoneWaitKeeps ==
  ASSUME Kept, NEW e \in Lookups, AresDoneWait(e)
  PROVE  Kept'
<1>1. /\ life[e] = "active" /\ mState[e] = "StAresDoneWait" /\ success[e] = "Pending"
      /\ channel[e] = "open" /\ caresGlobalInitDone
      /\ AresProcess(e)
      /\ UNCHANGED <<life, mState, canceled, caresGlobalInitDone, library>>
  BY DEF Kept, LookupOK, AresDoneWait, Ticked, Finish, globalVars
<1>2. /\ touched' = touched
      /\ mDoneAres' \in [Lookups -> {"Pending", "Positive", "-1"}]
      /\ addrs' \in [Lookups -> BOOLEAN] /\ query' \in [Lookups -> BOOLEAN]
      /\ \A d \in Lookups \ {e} :
            mDoneAres'[d] = mDoneAres[d] /\ addrs'[d] = addrs[d] /\ query'[d] = query[d]
      /\ query'[e] => query[e] /\ ~addrs'[e]
      /\ mDoneAres'[e] = "Positive" => ~query'[e]
  BY <1>1, AresProcessGives
<1>3. CASE mDoneAres'[e] = "Positive"
  <2>1. /\ success' = [success EXCEPT ![e] = "Positive"]
        /\ channel' = [channel EXCEPT ![e] = "gone"]
        /\ mChannelAresInitDone' = [mChannelAresInitDone EXCEPT ![e] = FALSE]
    BY <1>1, <1>3 DEF AresDoneWait, Finish, Destroyed
  <2>2a. GlobalOK'
    BY <1>1, <1>2, <2>1 DEF Kept, GlobalOK
  <2>2b. TypeOK'
    BY <1>1, <1>2, <2>1 DEF Kept, TypeOK
  <2>2. TypeOK' /\ GlobalOK'
    BY <2>2a, <2>2b
  <2>3. ASSUME NEW d \in Lookups PROVE LookupOK(d)'
    BY <1>1, <1>2, <1>3, <2>1 DEF Kept, TypeOK, LookupOK
  <2> QED BY <2>2, <2>3 DEF Kept
<1>4. CASE mDoneAres'[e] # "Positive"
  <2>1. /\ success' = success \/ success' = [success EXCEPT ![e] = "-1"]
        /\ UNCHANGED <<channel, mChannelAresInitDone>>
    BY <1>2, <1>4 DEF AresDoneWait, Finish
  <2>2a. GlobalOK'
    BY <1>1, <1>2, <2>1 DEF Kept, GlobalOK
  <2>2b. TypeOK'
    BY <1>1, <1>2, <2>1 DEF Kept, TypeOK
  <2>2. TypeOK' /\ GlobalOK'
    BY <2>2a, <2>2b
  <2>3. ASSUME NEW d \in Lookups PROVE LookupOK(d)'
    BY <1>1, <1>2, <1>4, <2>1 DEF Kept, TypeOK, LookupOK
  <2> QED BY <2>2, <2>3 DEF Kept
<1> QED BY <1>3, <1>4

\* shutdown() destroys the channel that process() has left, while the lookup is still there.
LEMMA ShutdownKeeps ==
  ASSUME Kept, NEW e \in Lookups, Shutdown(e)
  PROVE  Kept'
<1>1. /\ life[e] = "active" /\ life' = [life EXCEPT ![e] = "down"]
      /\ UNCHANGED <<mState, success, canceled, caresGlobalInitDone, library>>
  BY DEF Shutdown, globalVars
<1>2. /\ touched' = touched
      /\ mDoneAres' \in [Lookups -> {"Pending", "Positive", "-1"}]
      /\ addrs' = addrs /\ query' \in [Lookups -> BOOLEAN]
      /\ \A d \in Lookups \ {e} : mDoneAres'[d] = mDoneAres[d] /\ query'[d] = query[d]
      /\ channel' = [channel EXCEPT ![e] = IF mChannelAresInitDone[e] THEN "gone" ELSE @]
      /\ mChannelAresInitDone' = [mChannelAresInitDone EXCEPT ![e] = FALSE]
      /\ ~query'[e]
  <2>1. ~touched /\ LookupOK(e) /\ TypeOK
    BY DEF Kept, GlobalOK
  <2>2. CASE mChannelAresInitDone[e]
    <3>1. /\ channel' = [channel EXCEPT ![e] = "gone"]
          /\ mChannelAresInitDone' = [mChannelAresInitDone EXCEPT ![e] = FALSE]
      BY <2>1, <2>2 DEF LookupOK, Shutdown, Destroyed
    <3>2. CASE query[e]
      <4>1. /\ mDoneAres' = [mDoneAres EXCEPT ![e] = "-1"]
            /\ addrs' = [addrs EXCEPT ![e] = @ \/ FALSE]
            /\ query' = [query EXCEPT ![e] = FALSE]
            /\ touched' = (touched \/ life[e] = "none")
        BY <2>2, <3>2 DEF Shutdown, Answer
      <4>2. addrs' = addrs
        BY <2>1, <4>1 DEF TypeOK
      <4>3. touched' = touched
        BY <1>1, <2>1, <4>1 DEF TypeOK
      <4> QED BY <2>1, <2>2, <3>1, <4>1, <4>2, <4>3 DEF TypeOK
    <3>3. CASE ~query[e]
      BY <2>1, <2>2, <3>1, <3>3 DEF TypeOK, Shutdown, NoAnswer
    <3> QED BY <3>2, <3>3
  <2>3. CASE ~mChannelAresInitDone[e]
    BY <1>1, <2>1, <2>3 DEF TypeOK, LookupOK, Shutdown, aresVars
  <2> QED BY <2>2, <2>3
<1>3a. GlobalOK'
  BY <1>1, <1>2 DEF Kept, GlobalOK
<1>3b. TypeOK'
  BY <1>1, <1>2 DEF Kept, TypeOK
<1>3. TypeOK' /\ GlobalOK'
  BY <1>3a, <1>3b
<1>4. ASSUME NEW d \in Lookups PROVE LookupOK(d)'
  BY <1>1, <1>2 DEF Kept, TypeOK, LookupOK
<1> QED BY <1>3, <1>4 DEF Kept

\* The library is left when no lookup is left.
LEMMA CaresGlobalDeInitKeeps ==
  ASSUME Kept, CaresGlobalDeInit
  PROVE  Kept'
<1>1a. GlobalOK'
  BY DEF Kept, GlobalOK, CaresGlobalDeInit, procVars, aresVars
<1>0. library' = 0 /\ caresGlobalInitDone' = FALSE /\ UNCHANGED <<procVars, aresVars>>
  BY DEF Kept, GlobalOK, CaresGlobalDeInit
<1>1b. TypeOK'
  BY <1>0 DEF Kept, TypeOK, procVars, aresVars
<1>1. TypeOK' /\ GlobalOK'
  BY <1>1a, <1>1b
<1>2. ASSUME NEW d \in Lookups PROVE LookupOK(d)'
  BY DEF Kept, TypeOK, LookupOK, CaresGlobalDeInit, procVars, aresVars
<1> QED BY <1>1, <1>2 DEF Kept

\* Every step of a lookup, of c-ares and of the client keeps it.
LEMMA NextKeeps == Kept /\ [Next]_vars => Kept'
<1> SUFFICES ASSUME Kept, [Next]_vars PROVE Kept'
  OBVIOUS
<1>1. CASE UNCHANGED vars
  <2>1a. GlobalOK'
    BY <1>1 DEF Kept, GlobalOK, vars, procVars, aresVars, globalVars
  <2>1b. TypeOK'
    BY <1>1 DEF Kept, TypeOK, vars, procVars, aresVars, globalVars
  <2>1. TypeOK' /\ GlobalOK'
    BY <2>1a, <2>1b
  <2>2. ASSUME NEW d \in Lookups PROVE LookupOK(d)'
    BY <1>1 DEF Kept, LookupOK, vars, procVars, aresVars, globalVars
  <2> QED BY <2>1, <2>2 DEF Kept
<1>2. CASE CaresGlobalDeInit
  BY <1>2, CaresGlobalDeInitKeeps
<1>3. ASSUME NEW e \in Lookups,
             Create(e) \/ Cancel(e) \/ Destroy(e) \/ Tick(e) \/ Shutdown(e)
      PROVE  Kept'
  BY <1>3, CreateKeeps, CancelOrDestroyKeeps, StartKeeps, GlobalInitKeeps, AresStartKeeps,
     AresDoneWaitKeeps, ShutdownKeeps DEF Tick
<1> QED BY <1>1, <1>2, <1>3 DEF Next

-----------------------------------------------------------------------------
\* It holds whenever there are lookups, and when there are none.
LEMMA Invariance == Spec => []Kept
BY InitKept, NextKeeps, PTL DEF Spec

\* Channels end before their lookups and the library ends after them, however many there are.
THEOREM ChannelSafe == Spec => []ChannelEndsFirst
BY Invariance, KeptImplies, PTL

\* A step of one lookup leaves the results of the others alone, and its own is what c-ares
\* answered in this step.
LEMMA StepAnswers == Kept /\ Kept' /\ [Next]_vars =>
  \A d \in Lookups : life[d] = "active" /\ mState[d] = "StAresDoneWait" =>
    /\ query[d] /\ ~query'[d] /\ life'[d] = "active" => success'[d] = mDoneAres'[d]
    /\ success'[d] = "Positive" => mDoneAres'[d] = "Positive"
    /\ success[d] = "Pending" /\ success'[d] = "-1" /\ addrs'[d] => ~query[d]
<1> SUFFICES ASSUME Kept, Kept', [Next]_vars,
                    NEW d \in Lookups, life[d] = "active", mState[d] = "StAresDoneWait"
             PROVE  /\ query[d] /\ ~query'[d] /\ life'[d] = "active" => success'[d] = mDoneAres'[d]
                    /\ success'[d] = "Positive" => mDoneAres'[d] = "Positive"
                    /\ success[d] = "Pending" /\ success'[d] = "-1" /\ addrs'[d] => ~query[d]
  OBVIOUS
<1> DEFINE Goal == /\ query[d] /\ ~query'[d] /\ life'[d] = "active" => success'[d] = mDoneAres'[d]
                   /\ success'[d] = "Positive" => mDoneAres'[d] = "Positive"
                   /\ success[d] = "Pending" /\ success'[d] = "-1" /\ addrs'[d] => ~query[d]
<1>1. LookupOK(d) /\ TypeOK
  BY DEF Kept
\* Most steps neither answer this lookup nor end it.
<1>2. ASSUME success'[d] = success[d], query'[d] = query[d], mDoneAres'[d] = mDoneAres[d]
      PROVE  Goal
  BY <1>1, <1>2 DEF LookupOK, TypeOK
<1>3. CASE UNCHANGED vars \/ CaresGlobalDeInit
  BY <1>2, <1>3 DEF vars, procVars, aresVars, CaresGlobalDeInit
<1>4. ASSUME NEW e \in Lookups, Create(e) \/ Cancel(e) \/ Destroy(e) \/ Start(e) \/ GlobalInit(e)
      PROVE  Goal
  <2>1. success'[d] = success[d] /\ query'[d] = query[d] /\ mDoneAres'[d] = mDoneAres[d]
    BY <1>1, <1>4 DEF TypeOK, Create, Cancel, Destroy, Start, GlobalInit, Ticked, Goto, Finish, aresVars
  <2> QED BY <2>1, <1>2
<1>5. ASSUME NEW e \in Lookups, AresStart(e) PROVE Goal
  <2>1. d # e
    BY <1>5 DEF AresStart, Ticked
  <2>2. success'[d] = success[d] /\ query'[d] = query[d] /\ mDoneAres'[d] = mDoneAres[d]
    BY <1>1, <1>5, <2>1 DEF TypeOK, AresStart, Goto, Finish, NoAnswer, Answered, Answer
  <2> QED BY <2>2, <1>2
<1>6. ASSUME NEW e \in Lookups, AresDoneWait(e) PROVE Goal
  <2>1. life[e] = "active" /\ AresProcess(e)
    BY <1>6 DEF AresDoneWait, Ticked
  <2>2. /\ d # e => mDoneAres'[d] = mDoneAres[d] /\ query'[d] = query[d]
        /\ query[e] /\ ~query'[e] => mDoneAres'[e] # "Pending"
        /\ query[e] /\ mDoneAres'[e] = "-1" => ~addrs'[e]
    BY <2>1, AresProcessGives
  <2>3. CASE d # e
    <3>1. success'[d] = success[d]
      BY <1>1, <1>6, <2>3 DEF TypeOK, AresDoneWait, Finish
    <3> QED BY <3>1, <2>2, <2>3, <1>2
  <2>4. CASE d = e
    <3>1. /\ success[d] = "Pending"
          /\ mDoneAres'[d] # "Pending" => success'[d] = mDoneAres'[d]
          /\ mDoneAres'[d] = "Pending" => success'[d] = "Pending"
      BY <1>1, <1>6, <2>4 DEF TypeOK, AresDoneWait, Ticked, Finish
    <3> QED BY <3>1, <2>2, <2>4
  <2> QED BY <2>3, <2>4
<1>7. ASSUME NEW e \in Lookups, Shutdown(e) PROVE Goal
  <2>1. success' = success
    BY <1>7 DEF Shutdown
  <2>2. CASE d # e
    <3>1. query'[d] = query[d] /\ mDoneAres'[d] = mDoneAres[d]
      BY <1>1, <1>7, <2>2 DEF TypeOK, Shutdown, Answer, NoAnswer, aresVars
    <3> QED BY <3>1, <2>1, <1>2
  \* A lookup that succeeded has no channel left to shut down.
  <2>3. CASE d = e
    <3>1. life'[d] = "down"
      BY <1>1, <1>7, <2>3 DEF TypeOK, Shutdown
    <3>2. success[d] = "Positive" => mDoneAres'[d] = "Positive"
      BY <1>1, <1>7, <2>3 DEF LookupOK, Shutdown, aresVars
    <3> QED BY <2>1, <3>1, <3>2
  <2> QED BY <2>2, <2>3
<1> QED BY <1>3, <1>4, <1>5, <1>6, <1>7 DEF Next, Tick

\* Every answer of c-ares to a tick ends that lookup with this result, for any set of lookups.
THEOREM AnswerExact == Spec => AnswerIsResult
BY Invariance, StepAnswers, PTL DEF Spec, AnswerIsResult
=============================================================================
