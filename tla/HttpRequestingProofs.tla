------------------------ MODULE HttpRequestingProofs ------------------------
(***************************************************************************)
(* Proofs about HttpRequesting.cpp for any set of requests, provided that  *)
(* their TLS versions are known.                                           *)
(***************************************************************************)
EXTENDS HttpRequestingProps, TLAPS

\* The conjuncts of the invariant that speak of one request.
RequestOK(r) ==
  /\ handle[r] # "twice"
  /\ life[r] = "none" => handle[r] # "alive" /\ lists[r] # "alive"
  /\ mCurlBound[r] <=> r \in added
  /\ r \in added => /\ pCurlMulti = "up" /\ life[r] = "active" /\ step[r] # "lists"
                    /\ handle[r] = "alive" /\ lists[r] # "freed" /\ mDoneCurl[r] = "Pending"
  /\ pReq = r => life[r] = "active" /\ step[r] # "lists"
  /\ life[r] # "none" /\ mState[r] = "StReqDoneWait" =>
        /\ success[r] = "Positive" => ended[r] = "CURLE_OK"
        /\ success[r] = "-1" => ended[r] = "error"
  /\ mpCurl[r] = "set" <=> handle[r] = "alive"
  /\ life[r] = "none" => mpCurl[r] = "NULL" /\ step[r] = "none"
  /\ life[r] # "active" => step[r] = "none" /\ lists[r] # "alive"
  /\ mDoneCurl[r] = "Positive" \/ pReq = r => ended[r] = mCurlRes[r]
  /\ mDoneCurl[r] = "Positive" => pReq # r
  /\ mDoneCurl[r] = "Positive" \/ pReq = r => r \notin added
  /\ step[r] \in {"multi", "read"} =>
        life[r] = "active" /\ success[r] = "Pending" /\ mState[r] \in {"StReqStart", "StReqDoneWait"}
  /\ life[r] = "active" /\ mState[r] \in Unbound =>
        /\ mDoneCurl[r] = "Pending" /\ pReq # r /\ r \notin added /\ lists[r] # "freed"
        /\ success[r] = "Pending" /\ mState[r] # "StStart" => mpCurl[r] = "set"

\* The invariant is one of the types and one of each request.
LEMMA InvSplit == TypeOK => (IInv <=> \A r \in Requests : RequestOK(r))
<1> SUFFICES ASSUME TypeOK PROVE IInv <=> \A r \in Requests : RequestOK(r)
  OBVIOUS
<1>1. ASSUME IInv, NEW r \in Requests PROVE RequestOK(r)
  <2>1. /\ mCurlBound[r] <=> r \in added
        /\ r \in added => /\ pCurlMulti = "up" /\ life[r] = "active" /\ step[r] # "lists"
                          /\ handle[r] = "alive" /\ lists[r] # "freed" /\ mDoneCurl[r] = "Pending"
    BY <1>1 DEF IInv, MultiKnowsLiving
  <2>2. pReq = r => life[r] = "active" /\ step[r] # "lists"
    BY <1>1, HttpAssumption DEF IInv, CompletesLiving
  <2>3. /\ handle[r] # "twice"
        /\ life[r] = "none" => handle[r] # "alive" /\ lists[r] # "alive"
        /\ life[r] # "none" /\ mState[r] = "StReqDoneWait" =>
              /\ success[r] = "Positive" => ended[r] = "CURLE_OK"
              /\ success[r] = "-1" => ended[r] = "error"
    BY <1>1 DEF IInv, FreedOnce, ResultIsOwn
  <2>4. /\ mpCurl[r] = "set" <=> handle[r] = "alive"
        /\ life[r] = "none" => mpCurl[r] = "NULL" /\ step[r] = "none"
        /\ life[r] # "active" => step[r] = "none" /\ lists[r] # "alive"
    BY <1>1 DEF IInv, HandleInv
  <2>5. /\ mDoneCurl[r] = "Positive" \/ pReq = r => ended[r] = mCurlRes[r]
        /\ mDoneCurl[r] = "Positive" => pReq # r
        /\ mDoneCurl[r] = "Positive" \/ pReq = r => r \notin added
        /\ step[r] \in {"multi", "read"} =>
              life[r] = "active" /\ success[r] = "Pending" /\ mState[r] \in {"StReqStart", "StReqDoneWait"}
    BY <1>1 DEF IInv, AnswerInv
  <2>6. life[r] = "active" /\ mState[r] \in Unbound =>
           /\ mDoneCurl[r] = "Pending" /\ pReq # r /\ r \notin added /\ lists[r] # "freed"
           /\ success[r] = "Pending" /\ mState[r] # "StStart" => mpCurl[r] = "set"
    BY <1>1 DEF IInv, PrepareInv
  <2> QED BY <2>1, <2>2, <2>3, <2>4, <2>5, <2>6 DEF RequestOK
<1>2. ASSUME \A r \in Requests : RequestOK(r) PROVE IInv
  <2>1. MultiKnowsLiving
    BY <1>2 DEF MultiKnowsLiving, RequestOK, TypeOK
  <2>2. FreedOnce /\ CompletesLiving /\ ResultIsOwn /\ HandleInv /\ AnswerInv /\ PrepareInv
    BY <1>2 DEF FreedOnce, CompletesLiving, ResultIsOwn, HandleInv, AnswerInv, PrepareInv, RequestOK, TypeOK
  <2> QED BY <2>1, <2>2 DEF IInv
<1> QED BY <1>1, <1>2

\* The form of the invariant in which each step keeps it.
Kept == TypeOK /\ \A r \in Requests : RequestOK(r)

-----------------------------------------------------------------------------
(* The parent of a request *)

\* A new request has its handle to itself.
LEMMA CreateKeeps ==
  ASSUME Kept, NEW q \in Requests, Create(q)
  PROVE  Kept'
<1>1. TypeOK'
  BY HttpAssumption DEF Kept, TypeOK, Create, States
<1>2. ASSUME NEW r \in Requests PROVE RequestOK(r)'
  BY HttpAssumption DEF Kept, TypeOK, RequestOK, Unbound, Create, States
<1> QED BY <1>1, <1>2 DEF Kept

\* Cancel only asks for the shutdown.
LEMMA CancelKeeps ==
  ASSUME Kept, NEW q \in Requests, Cancel(q)
  PROVE  Kept'
<1>1. TypeOK'
  BY HttpAssumption DEF Kept, TypeOK, Cancel, procVars, curlVars, multiVars
<1>2. ASSUME NEW r \in Requests PROVE RequestOK(r)'
  BY HttpAssumption DEF Kept, TypeOK, RequestOK, Unbound, Cancel, procVars, curlVars, multiVars
<1> QED BY <1>1, <1>2 DEF Kept

\* The destructor frees a handle that no one else knows any more.
LEMMA DestroyKeeps ==
  ASSUME Kept, NEW q \in Requests, Destroy(q)
  PROVE  Kept'
<1>1. TypeOK'
  BY HttpAssumption DEF Kept, TypeOK, Destroy, procVars, multiVars, Freed
<1>2. ASSUME NEW r \in Requests PROVE RequestOK(r)'
  BY HttpAssumption DEF Kept, TypeOK, RequestOK, Unbound, Destroy, procVars, multiVars, Freed
<1> QED BY <1>1, <1>2 DEF Kept

-----------------------------------------------------------------------------
(* process() and shutdown() *)

\* StStart goes on only with a handle.
LEMMA StartKeeps ==
  ASSUME Kept, NEW q \in Requests, Start(q)
  PROVE  Kept'
<1>1. TypeOK'
  BY HttpAssumption DEF Kept, TypeOK, Start, Ticked, Goto, Fail, States, procVars, curlVars, multiVars
<1>2. ASSUME NEW r \in Requests PROVE RequestOK(r)'
  BY HttpAssumption DEF Kept, TypeOK, RequestOK, Unbound, Start, Ticked, Goto, Fail, States, procVars, curlVars, multiVars
<1> QED BY <1>1, <1>2 DEF Kept

\* The lookup of the host is a child of the request alone.
LEMMA ResolvStartKeeps ==
  ASSUME Kept, NEW q \in Requests, ResolvStart(q)
  PROVE  Kept'
<1>1. TypeOK'
  BY HttpAssumption DEF Kept, TypeOK, ResolvStart, Ticked, Goto, Fail, States, procVars, curlVars, multiVars
<1>2. ASSUME NEW r \in Requests PROVE RequestOK(r)'
  BY HttpAssumption DEF Kept, TypeOK, RequestOK, Unbound, ResolvStart, Ticked, Goto, Fail, States, procVars, curlVars, multiVars
<1> QED BY <1>1, <1>2 DEF Kept

\* The end of the lookup changes nothing that is shared.
LEMMA ResolvEndKeeps ==
  ASSUME Kept, NEW q \in Requests, ResolvEnd(q)
  PROVE  Kept'
<1>1. TypeOK'
  BY HttpAssumption DEF Kept, TypeOK, ResolvEnd, Ticked, Goto, Fail, States, procVars, curlVars, multiVars
<1>2. ASSUME NEW r \in Requests PROVE RequestOK(r)'
  BY HttpAssumption DEF Kept, TypeOK, RequestOK, Unbound, ResolvEnd, Ticked, Goto, Fail, States, procVars, curlVars, multiVars
<1> QED BY <1>1, <1>2 DEF Kept

\* Nor does taking its result.
LEMMA ResolvDoneWaitKeeps ==
  ASSUME Kept, NEW q \in Requests, ResolvDoneWait(q)
  PROVE  Kept'
<1>1. TypeOK'
  BY HttpAssumption DEF Kept, TypeOK, ResolvDoneWait, Ticked, Goto, Fail, States, procVars, curlVars, multiVars
<1>2. ASSUME NEW r \in Requests PROVE RequestOK(r)'
  BY HttpAssumption DEF Kept, TypeOK, RequestOK, Unbound, ResolvDoneWait, Ticked, Goto, Fail, States, procVars, curlVars, multiVars
<1> QED BY <1>1, <1>2 DEF Kept

\* The URL is the request's own.
LEMMA UrlReAsmKeeps ==
  ASSUME Kept, NEW q \in Requests, UrlReAsm(q)
  PROVE  Kept'
<1>1. TypeOK'
  BY HttpAssumption DEF Kept, TypeOK, UrlReAsm, Ticked, Goto, Fail, States, procVars, curlVars, multiVars
<1>2. ASSUME NEW r \in Requests PROVE RequestOK(r)'
  BY HttpAssumption DEF Kept, TypeOK, RequestOK, Unbound, UrlReAsm, Ticked, Goto, Fail, States, procVars, curlVars, multiVars
<1> QED BY <1>1, <1>2 DEF Kept

\* Without a bad TLS version nothing is freed in the configuration.
LEMMA EasyConfigureKeeps ==
  ASSUME Kept, NEW q \in Requests, BadTls = {}, EasyConfigure(q)
  PROVE  Kept'
<1>1. TypeOK'
  BY HttpAssumption DEF Kept, TypeOK, EasyConfigure, Ticked, Goto, Fail, States, multiVars
<1>2. ASSUME NEW r \in Requests PROVE RequestOK(r)'
  BY HttpAssumption DEF Kept, TypeOK, RequestOK, Unbound, EasyConfigure, Ticked, Goto, Fail, States, multiVars
<1> QED BY <1>1, <1>2 DEF Kept

\* A request is bound with a live handle, or fails as it was.
LEMMA EasyBindKeeps ==
  ASSUME Kept, NEW q \in Requests, EasyBind(q)
  PROVE  Kept'
<1>1. /\ life[q] = "active" /\ step[q] = "none" /\ success[q] = "Pending" /\ mState[q] = "StEasyBind"
      /\ UNCHANGED <<life, canceled, step, mpResolv, mpCurl, mDoneCurl, mCurlRes, handle, lists,
                     mtxCurlMulti, ended, pReq>>
  BY DEF EasyBind, Ticked
<1>2. CASE /\ Fail(q) /\ UNCHANGED <<mCurlBound, added>>
           /\ pCurlMulti' \in {pCurlMulti, "up"}
  <2>1. success' = [success EXCEPT ![q] = "-1"] /\ mState' = mState
    BY <1>2 DEF Fail
  <2>2. TypeOK'
    BY <1>1, <1>2, <2>1 DEF Kept, TypeOK
  <2>3. ASSUME NEW r \in Requests PROVE RequestOK(r)'
    BY <1>1, <1>2, <2>1 DEF Kept, TypeOK, RequestOK
  <2> QED BY <2>2, <2>3 DEF Kept
<1>3. CASE /\ Goto(q, "StReqStart") /\ pCurlMulti' = "up"
           /\ mCurlBound' = [mCurlBound EXCEPT ![q] = TRUE] /\ added' = added \cup {q}
  <2>1. mState' = [mState EXCEPT ![q] = "StReqStart"] /\ success' = success
    BY <1>3 DEF Goto
  <2>2. TypeOK'
    BY <1>1, <1>3, <2>1 DEF Kept, TypeOK, States
  <2>3. ASSUME NEW r \in Requests PROVE RequestOK(r)'
    BY <1>1, <1>3, <2>1 DEF Kept, TypeOK, RequestOK, Unbound
  <2> QED BY <2>2, <2>3 DEF Kept
<1> QED BY <1>2, <1>3 DEF EasyBind

\* What the request reads without the mutex was written for its own transfer.
LEMMA ReqReadKeeps ==
  ASSUME Kept, NEW q \in Requests, ReqRead(q)
  PROVE  Kept'
<1>1. TypeOK'
  BY HttpAssumption DEF Kept, TypeOK, ReqRead, curlVars, multiVars
<1>2. ASSUME NEW r \in Requests PROVE RequestOK(r)'
  BY HttpAssumption DEF Kept, TypeOK, RequestOK, Unbound, ReqRead, curlVars, multiVars
<1> QED BY <1>1, <1>2 DEF Kept

\* The mutex is free, so no one is completing the request.
LEMMA UnbindKeeps ==
  ASSUME Kept, NEW q \in Requests, Unbind(q)
  PROVE  Kept'
<1>1. TypeOK'
  BY HttpAssumption DEF Kept, TypeOK, Unbind, procVars
<1>2. ASSUME NEW r \in Requests PROVE RequestOK(r)'
  BY HttpAssumption DEF Kept, TypeOK, RequestOK, Unbound, Unbind, procVars
<1> QED BY <1>1, <1>2 DEF Kept

\* The lists are freed when curl knows the handle no more.
LEMMA ListsFreeKeeps ==
  ASSUME Kept, NEW q \in Requests, ListsFree(q)
  PROVE  Kept'
<1>1. TypeOK'
  BY HttpAssumption DEF Kept, TypeOK, ListsFree, ListFreed, procVars, multiVars
<1>2. ASSUME NEW r \in Requests PROVE RequestOK(r)'
  BY HttpAssumption DEF Kept, TypeOK, RequestOK, Unbound, ListsFree, ListFreed, procVars, multiVars
<1> QED BY <1>1, <1>2 DEF Kept

-----------------------------------------------------------------------------
(* multiProcess() *)

\* curl brings transfers of bound requests to their end.
LEMMA MultiPerformKeeps ==
  ASSUME Kept, NEW q \in Requests, MultiPerform(q)
  PROVE  Kept'
<1>1. PICK now \in SUBSET {r \in added : ended[r] = "no"} :
         \E res \in [now -> {"CURLE_OK", "error"}] :
            ended' = [r \in Requests |-> IF r \in now THEN res[r] ELSE ended[r]]
  BY DEF MultiPerform
<1>2. ended' \in [Requests -> {"no", "CURLE_OK", "error"}]
  BY <1>1 DEF Kept, TypeOK
<1>3. \A r \in Requests : r \notin added => ended'[r] = ended[r]
  BY <1>1
<1>4. TypeOK'
  BY <1>2, HttpAssumption DEF Kept, TypeOK, MultiPerform, Ticked, procVars, curlVars
<1>5. ASSUME NEW r \in Requests PROVE RequestOK(r)'
  BY <1>3, HttpAssumption DEF Kept, TypeOK, RequestOK, Unbound, MultiPerform, Ticked, procVars, curlVars
<1> QED BY <1>4, <1>5 DEF Kept

\* What curl reports is bound, so its handle is alive and its request is not shutting down.
LEMMA MessageTakeKeeps ==
  ASSUME Kept, NEW q \in Requests, MessageTake(q)
  PROVE  Kept'
<1>1. PICK m \in Messages :
         /\ pReq' = m
         /\ mCurlRes' = [mCurlRes EXCEPT ![m] = ended[m]]
         /\ added' = added \ {m}
         /\ mCurlBound' = [mCurlBound EXCEPT ![m] = FALSE]
         /\ lists' = [lists EXCEPT ![m] = ListFreed(lists[m])]
         /\ handle' = [handle EXCEPT ![m] = Freed(handle[m])]
         /\ mpCurl' = [mpCurl EXCEPT ![m] = "NULL"]
  BY DEF MessageTake
<1>2. /\ step[q] = "multi" /\ pReq = NoReq /\ mtxCurlMulti = q /\ mtxCurlMulti' = mtxCurlMulti
      /\ UNCHANGED <<life, canceled, step, mState, success, mpResolv, mDoneCurl, pCurlMulti, ended>>
  BY DEF MessageTake, procVars, Kept, TypeOK
<1>3. m \in Requests /\ m \in added /\ ended[m] \in {"CURLE_OK", "error"}
  BY DEF Kept, TypeOK, Messages
<1>4. handle[m] = "alive" /\ lists[m] # "freed" /\ Freed(handle[m]) = "freed"
      /\ ListFreed(lists[m]) \in {"NULL", "freed"}
  BY <1>3 DEF Kept, TypeOK, RequestOK, Freed, ListFreed
<1>5. TypeOK'
  BY <1>1, <1>2, <1>3, <1>4, HttpAssumption DEF Kept, TypeOK
<1>6. ASSUME NEW r \in Requests PROVE RequestOK(r)'
  BY <1>1, <1>2, <1>3, <1>4, HttpAssumption DEF Kept, TypeOK, RequestOK, Unbound
<1> QED BY <1>5, <1>6 DEF Kept

\* The last assignment for a completed request.
LEMMA MessageDoneKeeps ==
  ASSUME Kept, NEW q \in Requests, MessageDone(q)
  PROVE  Kept'
<1>1. TypeOK'
  BY HttpAssumption DEF Kept, TypeOK, MessageDone, procVars
<1>2. ASSUME NEW r \in Requests PROVE RequestOK(r)'
  BY HttpAssumption DEF Kept, TypeOK, RequestOK, Unbound, MessageDone, procVars
<1> QED BY <1>1, <1>2 DEF Kept

\* The mutex is given back when no message is left.
LEMMA MultiEndKeeps ==
  ASSUME Kept, NEW q \in Requests, MultiEnd(q)
  PROVE  Kept'
<1>1. TypeOK'
  BY HttpAssumption DEF Kept, TypeOK, MultiEnd, curlVars, States
<1>2. ASSUME NEW r \in Requests PROVE RequestOK(r)'
  BY HttpAssumption DEF Kept, TypeOK, RequestOK, Unbound, MultiEnd, curlVars, States
<1> QED BY <1>1, <1>2 DEF Kept

-----------------------------------------------------------------------------
(* The theorems *)

\* No request exists at first.
LEMMA InitKept == Init => Kept
  BY HttpAssumption DEF Init, Kept, TypeOK, RequestOK, Unbound, States

\* Every step keeps the invariant.
LEMMA NextKept == BadTls = {} /\ Kept /\ [Next]_vars => Kept'
<1> SUFFICES ASSUME BadTls = {}, Kept, [Next]_vars PROVE Kept'
  OBVIOUS
<1>1. ASSUME NEW q \in Requests, Create(q) \/ Cancel(q) \/ Destroy(q) \/ ResolvEnd(q) PROVE Kept'
  BY <1>1, CreateKeeps, CancelKeeps, DestroyKeeps, ResolvEndKeeps
<1>2. ASSUME NEW q \in Requests, Preparing(q) PROVE Kept'
  BY <1>2, StartKeeps, ResolvStartKeeps, ResolvDoneWaitKeeps, UrlReAsmKeeps, EasyConfigureKeeps
     DEF Preparing
<1>3. ASSUME NEW q \in Requests, Working(q) PROVE Kept'
  BY <1>3, ReqReadKeeps, MessageTakeKeeps, MessageDoneKeeps, MultiEndKeeps, ListsFreeKeeps DEF Working
<1>4. ASSUME NEW q \in Requests, Locking(q) PROVE Kept'
  BY <1>4, EasyBindKeeps, MultiPerformKeeps, UnbindKeeps DEF Locking
<1>5. CASE curlMultiDeInit
  <2>1. TypeOK'
    BY <1>5 DEF curlMultiDeInit, Kept, TypeOK, procVars, curlVars
  <2>2. ASSUME NEW r \in Requests PROVE RequestOK(r)'
    BY <1>5 DEF curlMultiDeInit, Kept, RequestOK, procVars, curlVars
  <2> QED BY <2>1, <2>2 DEF Kept
<1>6. CASE UNCHANGED vars
  BY <1>6 DEF vars, procVars, curlVars, multiVars, Kept, TypeOK, RequestOK
<1> QED BY <1>1, <1>2, <1>3, <1>4, <1>5, <1>6 DEF Next

\* The invariant of the requests and of what they share, for any number of requests whose
\* TLS versions are known.
THEOREM HttpInvariance == BadTls = {} => (Spec => []IInv)
<1> SUFFICES ASSUME BadTls = {} PROVE Spec => []IInv
  OBVIOUS
<1>1. Kept /\ [Next]_vars => Kept'
  BY NextKept
<1>2. Kept => IInv
  BY InvSplit DEF Kept
<1> QED BY InitKept, <1>1, <1>2, PTL DEF Spec

\* The types of the state; whoever is in multiProcess() has the mutex.
THEOREM HttpTypes == BadTls = {} => (Spec => []TypeOK)
<1>1. IInv => TypeOK
  BY DEF IInv
<1> QED BY <1>1, HttpInvariance, PTL

\* No easy handle of a request with a known TLS version is freed twice or left behind.
THEOREM HttpFreedOnce == BadTls = {} => (Spec => []FreedOnce)
<1>1. IInv => FreedOnce
  BY DEF IInv
<1> QED BY <1>1, HttpInvariance, PTL

\* What the multi handle knows is alive and bound.
THEOREM HttpMultiKnowsLiving == BadTls = {} => (Spec => []MultiKnowsLiving)
<1>1. IInv => MultiKnowsLiving
  BY DEF IInv
<1> QED BY <1>1, HttpInvariance, PTL

\* No request is shut down while another thread completes it.
THEOREM HttpCompletesLiving == BadTls = {} => (Spec => []CompletesLiving)
<1>1. IInv => CompletesLiving
  BY DEF IInv
<1> QED BY <1>1, HttpInvariance, PTL

\* A request reports the result of its own transfer.
THEOREM HttpResultIsOwn == BadTls = {} => (Spec => []ResultIsOwn)
<1>1. IInv => ResultIsOwn
  BY DEF IInv
<1> QED BY <1>1, HttpInvariance, PTL
=============================================================================
