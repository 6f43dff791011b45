------------------------- MODULE HttpRequestingProps -------------------------
(* What HttpRequesting.cpp promises to the parents of requests and to libcurl. *)
EXTENDS HttpRequesting

\* The types of the requests and of what they share; whoever is in multiProcess() has the
\* mutex, and nobody else.
TypeOK ==
    /\ life \in [Requests -> {"none", "active", "down"}]
    /\ mState \in [Requests -> States]
    /\ success \in [Requests -> {"Pending", "Positive", "-1"}]
    /\ canceled \in [Requests -> BOOLEAN]
    /\ step \in [Requests -> {"none", "multi", "read", "lists"}]
    /\ mpResolv \in [Requests -> {"NULL", "Pending", "Positive", "-1"}]
    /\ mpCurl \in [Requests -> {"NULL", "set"}]
    /\ mCurlBound \in [Requests -> BOOLEAN]
    /\ mDoneCurl \in [Requests -> {"Pending", "Positive"}]
    /\ mCurlRes \in [Requests -> {"CURLE_OK", "error"}]
    /\ handle \in [Requests -> {"none", "alive", "freed", "twice"}]
    /\ lists \in [Requests -> {"NULL", "alive", "freed"}]
    /\ pCurlMulti \in {"NULL", "up"} /\ mtxCurlMulti \in Requests \cup {NoReq}
    /\ added \subseteq Requests /\ ended \in [Requests -> {"no", "CURLE_OK", "error"}]
    /\ pReq \in Requests \cup {NoReq}
    /\ \A r \in Requests : step[r] = "multi" <=> mtxCurlMulti = r
    /\ pReq # NoReq => mtxCurlMulti # NoReq

\* HttpRequesting.md, of repel() and of errors: a request ends, well or with a negative
\* number, and is given back.  Whether it is completed by its own thread or by another,
\* fails before it is bound or is canceled: its easy handle is freed once, and nothing is
\* left of it when it is destroyed.
FreedOnce ==
    \A r \in Requests : /\ handle[r] # "twice"
                        /\ life[r] = "none" => handle[r] # "alive" /\ lists[r] # "alive"

\* libcurl works on what the multi handle knows in the tick of any request: the easy
\* handles are alive, so are the lists they refer to and the buffers of the request, and
\* mCurlBound tells which they are.
MultiKnowsLiving ==
    /\ added = {r \in Requests : mCurlBound[r]}
    /\ added # {} => pCurlMulti = "up"
    /\ \A r \in added : /\ life[r] = "active" /\ step[r] # "lists"
                        /\ handle[r] = "alive" /\ lists[r] # "freed" /\ mDoneCurl[r] = "Pending"

\* The request another thread is completing is not destroyed meanwhile, nor has it begun
\* to free what that thread frees.
CompletesLiving == pReq # NoReq => life[pReq] = "active" /\ step[pReq] # "lists"

\* A request reports the result of its own transfer, whoever it was told by.
ResultIsOwn ==
    \A r \in Requests : life[r] # "none" /\ mState[r] = "StReqDoneWait" =>
        /\ success[r] = "Positive" => ended[r] = "CURLE_OK"
        /\ success[r] = "-1" => ended[r] = "error"

\* Once curl has the result of a transfer, its request ends: nobody takes the message
\* of another request off without telling it.
AnswerReaches ==
    \A r \in Requests : r \in added /\ ended[r] # "no"
                        ~> success[r] # "Pending" \/ canceled[r]

-----------------------------------------------------------------------------
(* What the invariants above rest on *)

\* A handle is known by its pointer; the pointer is gone when a request was completed.
HandleInv ==
    \A r \in Requests :
        /\ mpCurl[r] = "set" <=> handle[r] = "alive"
        /\ life[r] = "none" => mpCurl[r] = "NULL" /\ step[r] = "none"
        /\ life[r] # "active" => step[r] = "none" /\ lists[r] # "alive"

\* What a request was told is what curl found, and only in the last states is it told.
AnswerInv ==
    \A r \in Requests :
        /\ mDoneCurl[r] = "Positive" \/ pReq = r => ended[r] = mCurlRes[r]
        /\ mDoneCurl[r] = "Positive" => pReq # r
        /\ mDoneCurl[r] = "Positive" \/ pReq = r => r \notin added
        /\ step[r] \in {"multi", "read"} =>
              life[r] = "active" /\ success[r] = "Pending" /\ mState[r] \in {"StReqStart", "StReqDoneWait"}

\* Before it is bound, nobody else touches a request, and it has its handle.
Unbound == {"StStart", "StDnsResolvStart", "StDnsResolvDoneWait", "StUrlReAsm", "StEasyInit", "StEasyBind"}

PrepareInv ==
    \A r \in Requests : life[r] = "active" /\ mState[r] \in Unbound =>
        /\ mDoneCurl[r] = "Pending" /\ pReq # r /\ r \notin added /\ lists[r] # "freed"
        /\ success[r] = "Pending" /\ mState[r] # "StStart" => mpCurl[r] = "set"

IInv == TypeOK /\ FreedOnce /\ MultiKnowsLiving /\ CompletesLiving /\ ResultIsOwn
        /\ HandleInv /\ AnswerInv /\ PrepareInv
=============================================================================
