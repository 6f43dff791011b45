--------------------------- MODULE HttpRequesting ---------------------------
(***************************************************************************)
(* HttpRequesting.cpp: requests of any threads share one multi handle of   *)
(* libcurl.  Whoever ticks lets curl work on the transfers of all of them  *)
(* and completes every request that curl reports, under mtxCurlMulti; a    *)
(* request looks at what was written for it without that mutex.            *)
(*                                                                         *)
(* Each request has a thread of its own here.  What requests of one thread *)
(* do is among it.  Both curl_slist of a request are freed together and    *)
(* are one here; the share interface (ENABLE_CURL_SHARE) is not compiled.  *)
(***************************************************************************)
EXTENDS Integers

CONSTANTS Requests,
          BadTls,   \* the requests for which versionTlsSet() got an unknown version
          NoReq

ASSUME HttpAssumption == NoReq \notin Requests /\ BadTls \subseteq Requests

VARIABLES
    life,         \* "none", "active", "down" when shutdown() has ended
    mState, success, canceled,
    step,         \* where a tick is between two locks: "none", "multi", "read", "lists"
    mpResolv,     \* "NULL", or the success of the DnsResolving it points to
    mpCurl,       \* "NULL" or "set"
    mCurlBound, mDoneCurl, mCurlRes,
    (* what the pointers point to *)
    handle,       \* the easy handle: "none", "alive", "freed", "twice" when freed again
    lists,        \* mpListHeader and mpListResolv: "NULL", "alive" or "freed"
    (* shared *)
    pCurlMulti, mtxCurlMulti,
    added,        \* the easy handles curl has in the multi handle
    ended,        \* of each transfer: "no" or its result, for which a message waits
    pReq          \* the request multiProcess() is completing

procVars == <<mState, success, mpResolv>>
curlVars == <<mpCurl, mCurlBound, mDoneCurl, mCurlRes, handle, lists>>
multiVars == <<pCurlMulti, mtxCurlMulti, added, ended, pReq>>
vars == <<life, canceled, step, procVars, curlVars, multiVars>>

States == {"StStart", "StDnsResolvStart", "StDnsResolvDoneWait", "StUrlReAsm",
           "StEasyInit", "StEasyBind", "StReqStart", "StReqDoneWait"}

Init ==
    /\ life = [r \in Requests |-> "none"]
    /\ mState = [r \in Requests |-> "StStart"]
    /\ success = [r \in Requests |-> "Pending"]
    /\ canceled = [r \in Requests |-> FALSE]
    /\ step = [r \in Requests |-> "none"]
    /\ mpResolv = [r \in Requests |-> "NULL"]
    /\ mpCurl = [r \in Requests |-> "NULL"]
    /\ mCurlBound = [r \in Requests |-> FALSE]
    /\ mDoneCurl = [r \in Requests |-> "Pending"]
    /\ mCurlRes = [r \in Requests |-> "CURLE_OK"]
    /\ handle = [r \in Requests |-> "none"]
    /\ lists = [r \in Requests |-> "NULL"]
    /\ pCurlMulti = "NULL" /\ mtxCurlMulti = NoReq /\ added = {}
    /\ ended = [r \in Requests |-> "no"] /\ pReq = NoReq

\* curl_easy_cleanup() and curl_slist_free_all()
Freed(h)     == IF h = "alive" THEN "freed" ELSE "twice"
ListFreed(l) == IF l = "alive" THEN "freed" ELSE l

-----------------------------------------------------------------------------
(* The parent of a request *)

\* The constructor; curl_easy_init() may fail.
Create(r) ==
    /\ life[r] = "none" /\ handle[r] # "twice"
    /\ life' = [life EXCEPT ![r] = "active"]
    /\ \E ok \in BOOLEAN :
          /\ mpCurl' = [mpCurl EXCEPT ![r] = IF ok THEN "set" ELSE "NULL"]
          /\ handle' = [handle EXCEPT ![r] = IF ok THEN "alive" ELSE "none"]
    /\ mState' = [mState EXCEPT ![r] = "StStart"]
    /\ success' = [success EXCEPT ![r] = "Pending"]
    /\ canceled' = [canceled EXCEPT ![r] = FALSE]
    /\ mpResolv' = [mpResolv EXCEPT ![r] = "NULL"]
    /\ mCurlBound' = [mCurlBound EXCEPT ![r] = FALSE]
    /\ mDoneCurl' = [mDoneCurl EXCEPT ![r] = "Pending"]
    /\ mCurlRes' = [mCurlRes EXCEPT ![r] = "CURLE_OK"]
    /\ lists' = [lists EXCEPT ![r] = "NULL"]
    /\ ended' = [ended EXCEPT ![r] = "no"]
    /\ UNCHANGED <<step, pCurlMulti, mtxCurlMulti, added, pReq>>

Cancel(r) ==
    /\ life[r] = "active" /\ ~canceled[r]
    /\ canceled' = [canceled EXCEPT ![r] = TRUE]
    /\ UNCHANGED <<life, step, procVars, curlVars, multiVars>>

\* The destructor.
Destroy(r) ==
    /\ life[r] = "down"
    /\ life' = [life EXCEPT ![r] = "none"]
    /\ handle' = [handle EXCEPT ![r] = IF mpCurl[r] = "set" THEN Freed(@) ELSE @]
    /\ mpCurl' = [mpCurl EXCEPT ![r] = "NULL"]
    /\ UNCHANGED <<canceled, step, procVars, mCurlBound, mDoneCurl, mCurlRes, lists, multiVars>>

-----------------------------------------------------------------------------
(* process() *)

Ticked(r, state) == /\ life[r] = "active" /\ step[r] = "none"
                    /\ success[r] = "Pending" /\ ~canceled[r] /\ mState[r] = state

Goto(r, state) == mState' = [mState EXCEPT ![r] = state] /\ UNCHANGED success
Fail(r)        == success' = [success EXCEPT ![r] = "-1"] /\ UNCHANGED mState

\* The host is a name without an address, or it is not; the URL may be missing.
Start(r) ==
    /\ Ticked(r, "StStart")
    /\ \/ Fail(r)
       \/ mpCurl[r] = "set" /\ \E state \in {"StDnsResolvStart", "StUrlReAsm"} : Goto(r, state)
    /\ UNCHANGED <<life, canceled, step, mpResolv, curlVars, multiVars>>

ResolvStart(r) ==
    /\ Ticked(r, "StDnsResolvStart")
    /\ \/ Fail(r) /\ UNCHANGED mpResolv
       \/ Goto(r, "StDnsResolvDoneWait") /\ mpResolv' = [mpResolv EXCEPT ![r] = "Pending"]
    /\ UNCHANGED <<life, canceled, step, curlVars, multiVars>>

\* DnsResolving comes to an end; it is ticked with its parent.
ResolvEnd(r) ==
    /\ life[r] = "active" /\ step[r] = "none" /\ mpResolv[r] = "Pending"
    /\ \E result \in {"Positive", "-1"} : mpResolv' = [mpResolv EXCEPT ![r] = result]
    /\ UNCHANGED <<life, canceled, step, mState, success, curlVars, multiVars>>

\* Without an address curl resolves the name itself.
ResolvDoneWait(r) ==
    /\ Ticked(r, "StDnsResolvDoneWait") /\ mpResolv[r] # "Pending"
    /\ mpResolv' = [mpResolv EXCEPT ![r] = "NULL"]
    /\ Goto(r, "StUrlReAsm")
    /\ UNCHANGED <<life, canceled, step, curlVars, multiVars>>

UrlReAsm(r) ==
    /\ Ticked(r, "StUrlReAsm")
    /\ Goto(r, "StEasyInit")
    /\ UNCHANGED <<life, canceled, step, mpResolv, curlVars, multiVars>>

\* easyHandleCurlConfigure().  The unknown TLS version frees the handle, not the pointer.
EasyConfigure(r) ==
    /\ Ticked(r, "StEasyInit")
    /\ IF r \in BadTls
       THEN Fail(r) /\ handle' = [handle EXCEPT ![r] = Freed(@)] /\ UNCHANGED lists
       ELSE /\ Goto(r, "StEasyBind") /\ UNCHANGED handle
            /\ \E l \in {"NULL", "alive"} : lists' = [lists EXCEPT ![r] = l]
    /\ UNCHANGED <<life, canceled, step, mpResolv, mpCurl, mCurlBound, mDoneCurl, mCurlRes, multiVars>>

\* easyHandleCurlBind() with multiHandleCurlInit().
EasyBind(r) ==
    /\ Ticked(r, "StEasyBind") /\ mtxCurlMulti = NoReq
    /\ \/ Fail(r) /\ UNCHANGED <<pCurlMulti, mCurlBound, added>>
       \/ /\ pCurlMulti' = "up"
          /\ \/ Fail(r) /\ UNCHANGED <<mCurlBound, added>>
             \/ /\ Goto(r, "StReqStart")
                /\ mCurlBound' = [mCurlBound EXCEPT ![r] = TRUE]
                /\ added' = added \cup {r}
    /\ UNCHANGED <<life, canceled, step, mpResolv, mpCurl, mDoneCurl, mCurlRes, handle, lists,
                   mtxCurlMulti, ended, pReq>>

\* The unlocked part of StReqDoneWait.
ReqRead(r) ==
    /\ step[r] = "read"
    /\ step' = [step EXCEPT ![r] = "none"]
    /\ success' = [success EXCEPT ![r] = IF mDoneCurl[r] = "Pending" THEN "Pending"
                                         ELSE IF mCurlRes[r] = "CURLE_OK" THEN "Positive" ELSE "-1"]
    /\ UNCHANGED <<life, canceled, mState, mpResolv, curlVars, multiVars>>

-----------------------------------------------------------------------------
(* multiProcess() *)

\* curl_multi_perform(): any of the transfers come to an end.
MultiPerform(r) ==
    /\ Ticked(r, "StReqStart") \/ Ticked(r, "StReqDoneWait")
    /\ mtxCurlMulti = NoReq /\ mtxCurlMulti' = r
    /\ step' = [step EXCEPT ![r] = "multi"]
    /\ \E now \in SUBSET {q \in added : ended[q] = "no"} :
          \E res \in [now -> {"CURLE_OK", "error"}] :
             ended' = [q \in Requests |-> IF q \in now THEN res[q] ELSE ended[q]]
    /\ UNCHANGED <<life, canceled, procVars, curlVars, pCurlMulti, added, pReq>>

Messages == {q \in added : ended[q] # "no"}

\* Variant: the result goes to the request that ticks.
MessageTakeTicker(r) ==
    /\ step[r] = "multi" /\ pReq = NoReq
    /\ \E q \in Messages :
          /\ pReq' = q
          /\ mCurlRes' = [mCurlRes EXCEPT ![r] = ended[q]]
          /\ added' = added \ {q}
          /\ mCurlBound' = [mCurlBound EXCEPT ![q] = FALSE]
          /\ lists' = [lists EXCEPT ![q] = ListFreed(@)]
          /\ handle' = [handle EXCEPT ![q] = Freed(@)]
          /\ mpCurl' = [mpCurl EXCEPT ![q] = "NULL"]
    /\ UNCHANGED <<life, canceled, step, procVars, mDoneCurl, pCurlMulti, mtxCurlMulti, ended>>

\* Variant: the pointer is kept.
MessageTakeKept(r) ==
    /\ step[r] = "multi" /\ pReq = NoReq
    /\ \E q \in Messages :
          /\ pReq' = q
          /\ mCurlRes' = [mCurlRes EXCEPT ![q] = ended[q]]
          /\ added' = added \ {q}
          /\ mCurlBound' = [mCurlBound EXCEPT ![q] = FALSE]
          /\ lists' = [lists EXCEPT ![q] = ListFreed(@)]
          /\ handle' = [handle EXCEPT ![q] = Freed(@)]
    /\ UNCHANGED <<life, canceled, step, procVars, mpCurl, mDoneCurl, pCurlMulti, mtxCurlMulti, ended>>

\* curl_multi_info_read() of one message, and what is done for its request but the last
\* assignment.
MessageTake(r) ==
    /\ step[r] = "multi" /\ pReq = NoReq
    /\ \E q \in Messages :
          /\ pReq' = q
          /\ mCurlRes' = [mCurlRes EXCEPT ![q] = ended[q]]
          /\ added' = added \ {q}
          /\ mCurlBound' = [mCurlBound EXCEPT ![q] = FALSE]
          /\ lists' = [lists EXCEPT ![q] = ListFreed(@)]
          /\ handle' = [handle EXCEPT ![q] = Freed(@)]
          /\ mpCurl' = [mpCurl EXCEPT ![q] = "NULL"]
    /\ UNCHANGED <<life, canceled, step, procVars, mDoneCurl, pCurlMulti, mtxCurlMulti, ended>>

\* Variant: it is the request that ticks that is done.
MessageDoneTicker(r) ==
    /\ step[r] = "multi" /\ pReq # NoReq
    /\ mDoneCurl' = [mDoneCurl EXCEPT ![r] = "Positive"]
    /\ pReq' = NoReq
    /\ UNCHANGED <<life, canceled, step, procVars, mpCurl, mCurlBound, mCurlRes, handle, lists,
                   pCurlMulti, mtxCurlMulti, added, ended>>

MessageDone(r) ==
    /\ step[r] = "multi" /\ pReq # NoReq
    /\ mDoneCurl' = [mDoneCurl EXCEPT ![pReq] = "Positive"]
    /\ pReq' = NoReq
    /\ UNCHANGED <<life, canceled, step, procVars, mpCurl, mCurlBound, mCurlRes, handle, lists,
                   pCurlMulti, mtxCurlMulti, added, ended>>

MultiEnd(r) ==
    /\ step[r] = "multi" /\ pReq = NoReq /\ Messages = {}
    /\ mtxCurlMulti' = NoReq
    /\ step' = [step EXCEPT ![r] = IF mState[r] = "StReqStart" THEN "none" ELSE "read"]
    /\ mState' = [mState EXCEPT ![r] = "StReqDoneWait"]
    /\ UNCHANGED <<life, success, canceled, mpResolv, curlVars, pCurlMulti, added, ended, pReq>>

-----------------------------------------------------------------------------
(* shutdown() *)

\* Variant: without the mutex.
UnbindUnlocked(r) ==
    /\ life[r] = "active" /\ step[r] = "none" /\ (success[r] # "Pending" \/ canceled[r])
    /\ step' = [step EXCEPT ![r] = "lists"]
    /\ mCurlBound' = [mCurlBound EXCEPT ![r] = FALSE]
    /\ added' = IF mCurlBound[r] THEN added \ {r} ELSE added
    /\ UNCHANGED <<life, canceled, procVars, mpCurl, mDoneCurl, mCurlRes, handle, lists,
                   pCurlMulti, mtxCurlMulti, ended, pReq>>

\* Variant: a canceled request stays with curl.
UnbindNot(r) ==
    /\ life[r] = "active" /\ step[r] = "none" /\ (success[r] # "Pending" \/ canceled[r])
    /\ mtxCurlMulti = NoReq
    /\ step' = [step EXCEPT ![r] = "lists"]
    /\ UNCHANGED <<life, canceled, procVars, curlVars, multiVars>>

\* easyHandleCurlUnbind(): curl drops the message of a handle it is asked to remove.
Unbind(r) ==
    /\ life[r] = "active" /\ step[r] = "none" /\ (success[r] # "Pending" \/ canceled[r])
    /\ mtxCurlMulti = NoReq
    /\ step' = [step EXCEPT ![r] = "lists"]
    /\ mCurlBound' = [mCurlBound EXCEPT ![r] = FALSE]
    /\ added' = IF mCurlBound[r] THEN added \ {r} ELSE added
    /\ UNCHANGED <<life, canceled, procVars, mpCurl, mDoneCurl, mCurlRes, handle, lists,
                   pCurlMulti, mtxCurlMulti, ended, pReq>>

ListsFree(r) ==
    /\ step[r] = "lists"
    /\ step' = [step EXCEPT ![r] = "none"]
    /\ life' = [life EXCEPT ![r] = "down"]
    /\ lists' = [lists EXCEPT ![r] = ListFreed(@)]
    /\ UNCHANGED <<canceled, procVars, mpCurl, mCurlBound, mDoneCurl, mCurlRes, handle, multiVars>>

\* A global destructor: SystemCore calls it when no process is left.
curlMultiDeInit ==
    /\ \A r \in Requests : life[r] = "none"
    /\ pCurlMulti = "up" /\ pCurlMulti' = "NULL"
    /\ UNCHANGED <<life, canceled, step, procVars, curlVars, mtxCurlMulti, added, ended, pReq>>

-----------------------------------------------------------------------------
Preparing(r) == \/ Start(r) \/ ResolvStart(r) \/ ResolvDoneWait(r) \/ UrlReAsm(r) \/ EasyConfigure(r)
Working(r)   == ReqRead(r) \/ MessageTake(r) \/ MessageDone(r) \/ MultiEnd(r) \/ ListsFree(r)
Locking(r)   == EasyBind(r) \/ MultiPerform(r) \/ Unbind(r)

Next == \/ \E r \in Requests : \/ Create(r) \/ Cancel(r) \/ Destroy(r) \/ ResolvEnd(r)
                               \/ Preparing(r) \/ Working(r) \/ Locking(r)
        \/ curlMultiDeInit

Spec == Init /\ [][Next]_vars

\* Threads go on, and get a mutex that is free time and again.
FairSpec == Spec /\ \A r \in Requests : /\ WF_vars(Preparing(r)) /\ WF_vars(Working(r))
                                        /\ SF_vars(Locking(r))
=============================================================================
