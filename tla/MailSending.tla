----------------------------- MODULE MailSending -----------------------------
(***************************************************************************)
(* MailSending.cpp: mails share one multi handle of libcurl, as the        *)
(* requests of HttpRequesting do: whoever ticks lets curl work on all of   *)
(* them and completes every mail that curl reports, under mtxCurlMulti.    *)
(* There is no shutdown(): a mail that failed, ran into its timeout or is  *)
(* canceled is known to curl until it is deleted, and is then taken from   *)
(* curl by curl_easy_cleanup(), without the mutex.                         *)
(*                                                                         *)
(* With Threads each mail is ticked by a thread of its own; without, all   *)
(* mails belong to one thread, and a call ends before the next begins.     *)
(***************************************************************************)
EXTENDS Integers, FiniteSets

CONSTANTS Mails, Threads, NoMail,
          Body, Header,    \* the length of a text, and of the header it is given
          Extra,           \* what is announced to curl above the text: 20 bytes
          Limited          \* curl reads no more of a mail than was announced (since 8.7)

\* A header is longer than 20 bytes whatever is in it.
ASSUME MailAssumption ==
    /\ NoMail \notin Mails /\ Threads \in BOOLEAN /\ Limited \in BOOLEAN
    /\ Body \in Nat /\ Header \in Nat /\ Extra \in Nat /\ Extra < Header

VARIABLES
    life,          \* "none", "active", "down" when it has ended and is not deleted yet
    mState, success, canceled,
    step,          \* where a tick is: "none", "multi" with the mutex, "read" after it
    overdue,       \* the timeout has passed
    mpCurl, mpListRecipients,       \* the pointers: "NULL" or "set"
    handle, list,  \* and what is there: "none", "alive", "freed", "twice"
    mDone, mCurlRes, mRespCode,
    mBody, mNumSent,                \* the length of the text, and how much of it curl has read
    infile,        \* CURLOPT_INFILESIZE_LARGE
    (* shared *)
    curlGlobalInitDone, pCurlMulti, mtxCurlMulti,
    added,         \* the easy handles curl has in the multi handle
    ended,         \* what became of each transfer: "no", or one of Ends, for which a message waits
    pReq,          \* the mail multiProcess() is completing
    touched        \* a mail, or its handle, was used when it was not there any more

procVars  == <<life, mState, success, canceled, overdue>>
mailVars  == <<mBody, mNumSent, infile>>
curlVars  == <<mpCurl, mpListRecipients, handle, list, mDone, mCurlRes, mRespCode, mailVars>>
multiVars == <<curlGlobalInitDone, pCurlMulti, mtxCurlMulti, added, ended, pReq, touched>>
vars == <<procVars, step, curlVars, multiVars>>

Of(x) == [m \in Mails |-> x]

\* The mail was taken by the server; there was no recipient, and curl has asked for help
\* instead of sending (CURLE_OK, but not 250); the connection was lost after a 250 to an
\* earlier command; any other failure.
Ends     == {"sent", "other", "lost", "failed"}
Res(end) == IF end \in {"sent", "other"} THEN "ok" ELSE "error"
Code(end) == IF end \in {"sent", "lost"} THEN 250 ELSE 0

Init ==
    /\ life = Of("none") /\ mState = Of("MailSeStart") /\ success = Of("Pending")
    /\ canceled = Of(FALSE) /\ step = Of("none") /\ overdue = Of(FALSE)
    /\ mpCurl = Of("NULL") /\ mpListRecipients = Of("NULL")
    /\ handle = Of("none") /\ list = Of("none")
    /\ mDone = Of("Pending") /\ mCurlRes = Of("ok") /\ mRespCode = Of(0)
    /\ mBody = Of(Body) /\ mNumSent = Of(0) /\ infile = Of(0)
    /\ curlGlobalInitDone = FALSE /\ pCurlMulti = "NULL" /\ mtxCurlMulti = NoMail
    /\ added = {} /\ ended = Of("no") /\ pReq = NoMail /\ touched = FALSE

Freed(x) == IF x = "alive" THEN "freed" ELSE "twice"

\* One thread does one thing at a time.
Turn == Threads \/ \A m \in Mails : step[m] = "none"

-----------------------------------------------------------------------------
(* The parent of a mail.  A cancel or a timeout of a mail that has ended changes nothing. *)

Create(m) ==
    /\ life[m] = "none" /\ Turn
    /\ life' = [life EXCEPT ![m] = "active"]
    /\ handle' = [handle EXCEPT ![m] = "none"] /\ list' = [list EXCEPT ![m] = "none"]
    /\ UNCHANGED <<mState, success, canceled, overdue, step, mpCurl, mpListRecipients, mDone, mCurlRes,
                   mRespCode, mailVars, multiVars>>

Cancel(m) ==
    /\ life[m] = "active" /\ success[m] = "Pending" /\ ~canceled[m] /\ Turn
    /\ canceled' = [canceled EXCEPT ![m] = TRUE]
    /\ UNCHANGED <<life, mState, success, overdue, step, curlVars, multiVars>>

\* Processing::shutdown() does nothing.
Down(m) ==
    /\ life[m] = "active" /\ step[m] = "none" /\ Turn
    /\ success[m] # "Pending" \/ canceled[m]
    /\ life' = [life EXCEPT ![m] = "down"]
    /\ UNCHANGED <<mState, success, canceled, overdue, step, curlVars, multiVars>>

\* What is known of a mail that is not there is what the constructor gives the next one.
Forget(m) ==
    /\ life' = [life EXCEPT ![m] = "none"]
    /\ mState' = [mState EXCEPT ![m] = "MailSeStart"]
    /\ success' = [success EXCEPT ![m] = "Pending"]
    /\ canceled' = [canceled EXCEPT ![m] = FALSE] /\ overdue' = [overdue EXCEPT ![m] = FALSE]
    /\ mDone' = [mDone EXCEPT ![m] = "Pending"] /\ mCurlRes' = [mCurlRes EXCEPT ![m] = "ok"]
    /\ mRespCode' = [mRespCode EXCEPT ![m] = 0] /\ mNumSent' = [mNumSent EXCEPT ![m] = 0]
    /\ mBody' = [mBody EXCEPT ![m] = Body] /\ infile' = [infile EXCEPT ![m] = 0]
    /\ ended' = [ended EXCEPT ![m] = "no"]

\* The destructor.  curl_easy_cleanup() takes the handle from the multi handle; when another
\* thread is working on that, both use what is freed.
Destroy(m) ==
    /\ life[m] = "down" /\ Turn
    /\ IF mpListRecipients[m] = "set"
       THEN /\ list' = [list EXCEPT ![m] = Freed(@)]
            /\ mpListRecipients' = [mpListRecipients EXCEPT ![m] = "NULL"]
       ELSE UNCHANGED <<list, mpListRecipients>>
    /\ IF mpCurl[m] = "set"
       THEN /\ handle' = [handle EXCEPT ![m] = Freed(@)]
            /\ mpCurl' = [mpCurl EXCEPT ![m] = "NULL"]
            /\ added' = added \ {m}
            /\ touched' = (touched \/ (m \in added /\ mtxCurlMulti # NoMail))
       ELSE UNCHANGED <<handle, mpCurl, added, touched>>
    /\ Forget(m)
    /\ UNCHANGED <<step, curlGlobalInitDone, pCurlMulti, mtxCurlMulti, pReq>>

-----------------------------------------------------------------------------
(* process() *)

Ticked(m, state) == /\ life[m] = "active" /\ step[m] = "none" /\ Turn
                    /\ success[m] = "Pending" /\ ~canceled[m] /\ mState[m] = state

Fail(m) == success' = [success EXCEPT ![m] = "-1"]

CurlGlobalInit == curlGlobalInitDone' = TRUE

\* The recipient is appended to a list that only the mail knows; nobody looks whether that
\* worked (207).  The length is announced before the text gets its header (222, 245).
EasyHandleCreate(m, made) ==
    IF made
    THEN /\ mpCurl' = [mpCurl EXCEPT ![m] = "set"]
         /\ handle' = [handle EXCEPT ![m] = "alive"]
         /\ \/ /\ mpListRecipients' = [mpListRecipients EXCEPT ![m] = "set"]
               /\ list' = [list EXCEPT ![m] = "alive"]
            \/ UNCHANGED <<mpListRecipients, list>>
         /\ infile' = [infile EXCEPT ![m] = mBody[m] + Extra]
         /\ mBody' = [mBody EXCEPT ![m] = Header + mBody[m]]
    ELSE UNCHANGED <<mpCurl, handle, mpListRecipients, list, infile, mBody>>

\* Under mtxCurlMulti.  The multi handle may not be had, or not take the easy handle.
CurlEasyHandleBind(m, bound) ==
    IF bound THEN pCurlMulti' = "up" /\ added' = added \cup {m}
             ELSE pCurlMulti' \in {pCurlMulti, "up"} /\ UNCHANGED added

\* MailSeStart up to the lock of multiProcess().
Start(m) ==
    /\ Ticked(m, "MailSeStart") /\ mtxCurlMulti = NoMail
    /\ CurlGlobalInit
    /\ \E made, bound \in BOOLEAN :
          /\ bound => made
          /\ EasyHandleCreate(m, made)
          /\ IF made THEN CurlEasyHandleBind(m, bound) ELSE UNCHANGED <<pCurlMulti, added>>
          /\ IF bound THEN step' = [step EXCEPT ![m] = "bound"] /\ UNCHANGED success
                      ELSE Fail(m) /\ UNCHANGED step
    /\ UNCHANGED <<life, mState, canceled, overdue, mDone, mCurlRes, mRespCode, mNumSent, mtxCurlMulti,
                   ended, pReq, touched>>

\* How much of a mail curl reads, and the transfers that go on.
ReadMax(m) == IF Limited /\ infile[m] < mBody[m] THEN infile[m] ELSE mBody[m]
Going == {q \in added : ended[q] = "no"}

\* curl_multi_perform(): texts are read with stringToCurlDataRead(), transfers end.  One
\* without recipients reads nothing.
MultiPerform(m) ==
    /\ step[m] = "bound" \/ Ticked(m, "MailSeDoneWait")
    /\ mtxCurlMulti = NoMail /\ mtxCurlMulti' = m
    /\ step' = [step EXCEPT ![m] = "multi"]
    /\ \E num \in [Going -> 0 .. Header + Body], end \in [Going -> Ends \cup {"no"}] :
          /\ \A q \in Going :
                /\ num[q] >= mNumSent[q] /\ num[q] <= ReadMax(q)
                /\ mpListRecipients[q] = "NULL" => num[q] = 0 /\ end[q] # "sent"
                /\ mpListRecipients[q] = "set" => end[q] # "other"
                /\ end[q] = "sent" => num[q] = ReadMax(q)
          /\ mNumSent' = [q \in Mails |-> IF q \in Going THEN num[q] ELSE mNumSent[q]]
          /\ ended' = [q \in Mails |-> IF q \in Going THEN end[q] ELSE ended[q]]
    /\ UNCHANGED <<procVars, mpCurl, mpListRecipients, handle, list, mDone, mCurlRes, mRespCode,
                   mBody, infile, curlGlobalInitDone, pCurlMulti, added, pReq, touched>>

Messages == {q \in added : ended[q] # "no"}

\* curl_multi_info_read() of one message, and what is done for its mail but the last
\* assignment.
MessageTakeList(m) ==                                                        \* variant
    /\ step[m] = "multi" /\ pReq = NoMail
    /\ \E q \in Messages :
          /\ pReq' = q
          /\ mCurlRes' = [mCurlRes EXCEPT ![q] = Res(ended[q])]
          /\ mRespCode' = [mRespCode EXCEPT ![q] = Code(ended[q])]
          /\ added' = added \ {q}
          /\ list' = [list EXCEPT ![q] = IF mpListRecipients[q] = "set" THEN Freed(@) ELSE @]
          /\ handle' = [handle EXCEPT ![q] = Freed(@)]
          /\ mpCurl' = [mpCurl EXCEPT ![q] = "NULL"]
    /\ UNCHANGED <<procVars, step, mpListRecipients, mDone, mailVars, curlGlobalInitDone, pCurlMulti,
                   mtxCurlMulti, ended, touched>>
MessageTakeOwn(m) ==                                                         \* variant
    /\ step[m] = "multi" /\ pReq = NoMail
    /\ \E q \in Messages :
          /\ pReq' = q
          /\ mCurlRes' = [mCurlRes EXCEPT ![m] = Res(ended[q])]
          /\ mRespCode' = [mRespCode EXCEPT ![m] = Code(ended[q])]
          /\ added' = added \ {q}
          /\ list' = [list EXCEPT ![q] = IF mpListRecipients[q] = "set" THEN Freed(@) ELSE @]
          /\ mpListRecipients' = [mpListRecipients EXCEPT ![q] = "NULL"]
          /\ handle' = [handle EXCEPT ![q] = Freed(@)]
          /\ mpCurl' = [mpCurl EXCEPT ![q] = "NULL"]
    /\ UNCHANGED <<procVars, step, mDone, mailVars, curlGlobalInitDone, pCurlMulti,
                   mtxCurlMulti, ended, touched>>
MessageTake(m) ==
    /\ step[m] = "multi" /\ pReq = NoMail
    /\ \E q \in Messages :
          /\ pReq' = q
          /\ mCurlRes' = [mCurlRes EXCEPT ![q] = Res(ended[q])]
          /\ mRespCode' = [mRespCode EXCEPT ![q] = Code(ended[q])]
          /\ added' = added \ {q}
          /\ list' = [list EXCEPT ![q] = IF mpListRecipients[q] = "set" THEN Freed(@) ELSE @]
          /\ mpListRecipients' = [mpListRecipients EXCEPT ![q] = "NULL"]
          /\ handle' = [handle EXCEPT ![q] = Freed(@)]
          /\ mpCurl' = [mpCurl EXCEPT ![q] = "NULL"]
    /\ UNCHANGED <<procVars, step, mDone, mailVars, curlGlobalInitDone, pCurlMulti,
                   mtxCurlMulti, ended, touched>>

MessageDone(m) ==
    /\ step[m] = "multi" /\ pReq # NoMail
    /\ mDone' = [mDone EXCEPT ![pReq] = "Positive"]
    /\ touched' = (touched \/ life[pReq] = "none")
    /\ pReq' = NoMail
    /\ UNCHANGED <<procVars, step, mpCurl, mpListRecipients, handle, list, mCurlRes,
                   mRespCode, mailVars, curlGlobalInitDone, pCurlMulti, mtxCurlMulti, added, ended>>

MultiEnd(m) ==
    /\ step[m] = "multi" /\ pReq = NoMail /\ Messages = {}
    /\ mtxCurlMulti' = NoMail
    /\ step' = [step EXCEPT ![m] = IF mState[m] = "MailSeStart" THEN "none" ELSE "read"]
    /\ mState' = [mState EXCEPT ![m] = "MailSeDoneWait"]
    /\ UNCHANGED <<life, success, canceled, overdue, curlVars, curlGlobalInitDone, pCurlMulti,
                   added, ended, pReq, touched>>

\* dMailSendTimeoutMs passes.  A tick has taken the time before multiProcess().
Timeout(m) ==
    /\ life[m] = "active" /\ mState[m] = "MailSeDoneWait" /\ step[m] = "none" /\ Turn
    /\ success[m] = "Pending" /\ ~canceled[m] /\ ~overdue[m]
    /\ overdue' = [overdue EXCEPT ![m] = TRUE]
    /\ UNCHANGED <<life, mState, success, canceled, step, curlVars, multiVars>>

\* The end of MailSeDoneWait: the timeout comes before the answer.
ResultReadWait(m) ==                                                         \* variant
    /\ step[m] = "read"
    /\ step' = [step EXCEPT ![m] = "none"]
    /\ success' = [success EXCEPT ![m] =
           IF mDone[m] = "Pending" THEN "Pending"
           ELSE IF mCurlRes[m] = "ok" /\ mRespCode[m] = 250 THEN "Positive" ELSE "-1"]
    /\ UNCHANGED <<life, mState, canceled, overdue, curlVars, multiVars>>
ResultRead(m) ==
    /\ step[m] = "read"
    /\ step' = [step EXCEPT ![m] = "none"]
    /\ success' = [success EXCEPT ![m] =
           IF overdue[m] THEN "-1"
           ELSE IF mDone[m] = "Pending" THEN "Pending"
           ELSE IF mCurlRes[m] = "ok" /\ mRespCode[m] = 250 THEN "Positive" ELSE "-1"]
    /\ UNCHANGED <<life, mState, canceled, overdue, curlVars, multiVars>>

\* curlGlobalDeInit(), that SystemCore calls when no process is left.  curlMultiDeInit() is
\* called by nobody: the multi handle stays.
CurlGlobalDeInit ==
    /\ \A m \in Mails : life[m] = "none"
    /\ curlGlobalInitDone /\ curlGlobalInitDone' = FALSE
    /\ UNCHANGED <<procVars, step, curlVars, pCurlMulti, mtxCurlMulti, added, ended, pReq, touched>>

Work(m) == Start(m) \/ MultiPerform(m) \/ MessageTake(m) \/ MessageDone(m) \/ MultiEnd(m) \/ ResultRead(m)

Next == \/ \E m \in Mails : Create(m) \/ Cancel(m) \/ Down(m) \/ Destroy(m) \/ Work(m) \/ Timeout(m)
        \/ CurlGlobalDeInit

Spec == Init /\ [][Next]_vars

\* Ticks go on, get the mutex time and again, and time passes; the server may say nothing.
FairSpec == Spec /\ \A m \in Mails : SF_vars(Work(m)) /\ SF_vars(Timeout(m)) /\ SF_vars(Down(m))

-----------------------------------------------------------------------------
TypeOK ==
    /\ life \in [Mails -> {"none", "active", "down"}]
    /\ mState \in [Mails -> {"MailSeStart", "MailSeDoneWait"}]
    /\ success \in [Mails -> {"Pending", "Positive", "-1"}]
    /\ canceled \in [Mails -> BOOLEAN] /\ overdue \in [Mails -> BOOLEAN]
    /\ step \in [Mails -> {"none", "bound", "multi", "read"}]
    /\ mpCurl \in [Mails -> {"NULL", "set"}] /\ mpListRecipients \in [Mails -> {"NULL", "set"}]
    /\ handle \in [Mails -> {"none", "alive", "freed", "twice"}]
    /\ list \in [Mails -> {"none", "alive", "freed", "twice"}]
    /\ mDone \in [Mails -> {"Pending", "Positive"}]
    /\ mCurlRes \in [Mails -> {"ok", "error"}] /\ mRespCode \in [Mails -> {0, 250}]
    /\ mBody \in [Mails -> {Body, Header + Body}] /\ infile \in [Mails -> Nat]
    /\ mNumSent \in [Mails -> 0 .. Header + Body]
    /\ curlGlobalInitDone \in BOOLEAN /\ pCurlMulti \in {"NULL", "up"}
    /\ mtxCurlMulti \in Mails \cup {NoMail} /\ pReq \in Mails \cup {NoMail}
    /\ added \subseteq Mails /\ ended \in [Mails -> Ends \cup {"no"}]
    /\ touched \in BOOLEAN

\* Whoever completes a mail, or deletes it while curl is at it: its handle and its list are
\* freed once, and none of them is used or written to afterwards.  With Threads this fails.
NothingFreedUsed ==
    /\ ~touched
    /\ \A m \in Mails :
        /\ handle[m] # "twice" /\ list[m] # "twice"
        /\ life[m] = "none" => handle[m] # "alive" /\ list[m] # "alive"
    /\ \A m \in added : /\ handle[m] = "alive" /\ life[m] # "none"
                        /\ mpListRecipients[m] = "set" => list[m] = "alive"
    /\ added # {} => curlGlobalInitDone /\ pCurlMulti = "up"

\* "Environment change. An email has been sent to the recipient" (MailSending.md, RESULT):
\* the result of a mail, which the tick of any other may have read from curl, is that of its
\* own transfer.  One that reports success was taken by the server, the whole of it, and had
\* a recipient; one that reports an error in time was not taken.
ResultIsTrue ==
    \A m \in Mails : life[m] # "none" =>
        /\ success[m] = "Positive" => ended[m] = "sent"
        /\ success[m] = "Positive" /\ ~Limited => mNumSent[m] = mBody[m]
        /\ success[m] = "-1" /\ ~overdue[m] => ended[m] # "sent"

\* Every mail ends, whatever the server does: the timeout sees to it.
MailEnds == \A m \in Mails : life[m] = "active" ~> life[m] # "active"
=============================================================================
