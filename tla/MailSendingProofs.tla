-------------------------- MODULE MailSendingProofs --------------------------
(***************************************************************************)
(* Proofs about MailSending.cpp for any set of mails that one thread       *)
(* ticks: nothing is freed twice or used when it is freed, and the result  *)
(* of a mail is what became of it.                                         *)
(***************************************************************************)
EXTENDS MailSending, TLAPS

\* What each pointer of a mail says of the thing it points to; what curl knows is alive.
PointersOK(m) ==
    /\ handle[m] # "twice" /\ list[m] # "twice"
    /\ mpCurl[m] = "set" <=> handle[m] = "alive"
    /\ mpListRecipients[m] = "set" <=> list[m] = "alive"
    /\ life[m] = "none" => mpCurl[m] = "NULL" /\ mpListRecipients[m] = "NULL"
    /\ m \in added => /\ handle[m] = "alive" /\ life[m] # "none"
                      /\ curlGlobalInitDone /\ pCurlMulti = "up"

\* A mail is completed once, while it is there, by the thread that holds the mutex.
CompletionOK(m) ==
    /\ step[m] = "multi" <=> mtxCurlMulti = m
    /\ step[m] # "none" => life[m] # "none"
    /\ step[m] = "read" => mState[m] = "MailSeDoneWait"
    /\ pReq = m => life[m] # "none" /\ mtxCurlMulti # NoMail
    /\ m \in added => mDone[m] = "Pending" /\ pReq # m
    /\ mDone[m] = "Positive" \/ pReq = m =>
          mCurlRes[m] = Res(ended[m]) /\ mRespCode[m] = Code(ended[m])

\* Nothing became of the mail yet, and it has no header.
Unbound(m) == m \notin added /\ ended[m] = "no" /\ mDone[m] = "Pending" /\ pReq # m /\ mBody[m] = Body

\* So it is before it is there and until it is bound; afterwards its result follows the transfer.
AnswerOK(m) ==
    /\ ended[m] = "sent" /\ ~Limited => mNumSent[m] = mBody[m]
    /\ life[m] = "none" => success[m] = "Pending" /\ Unbound(m)
    /\ life[m] # "none" =>
        /\ success[m] = "Positive" => mDone[m] = "Positive" /\ ended[m] = "sent"
        /\ success[m] = "-1" /\ ~overdue[m] => m \notin added /\ ended[m] # "sent"
        /\ mState[m] = "MailSeStart" /\ step[m] = "none" /\ success[m] = "Pending" => Unbound(m)

MailOK(m) == PointersOK(m) /\ CompletionOK(m) /\ AnswerOK(m)

Kept == TypeOK /\ touched = FALSE /\ \A m \in Mails : MailOK(m)

\* Pointers that are set exactly while there is something behind them are not freed twice.
LEMMA KeptImplies == Kept => NothingFreedUsed /\ ResultIsTrue
<1> SUFFICES ASSUME Kept PROVE NothingFreedUsed /\ ResultIsTrue
  OBVIOUS
<1>1. ASSUME NEW m \in Mails
      PROVE  /\ handle[m] # "twice" /\ list[m] # "twice"
             /\ life[m] = "none" => handle[m] # "alive" /\ list[m] # "alive"
             /\ m \in added => /\ handle[m] = "alive" /\ life[m] # "none"
                               /\ mpListRecipients[m] = "set" => list[m] = "alive"
             /\ m \in added => curlGlobalInitDone /\ pCurlMulti = "up"
  BY DEF Kept, MailOK, PointersOK, TypeOK
<1>2. NothingFreedUsed
  BY <1>1 DEF Kept, TypeOK, NothingFreedUsed
<1>3. ResultIsTrue
  BY DEF Kept, MailOK, AnswerOK, Unbound, ResultIsTrue
<1> QED BY <1>2, <1>3

\* There is no mail yet.
LEMMA InitKept == Init => Kept
<1> SUFFICES ASSUME Init PROVE Kept
  OBVIOUS
<1>1. TypeOK
  <2>1. /\ mBody \in [Mails -> {Body, Header + Body}] /\ infile \in [Mails -> Nat]
        /\ mNumSent \in [Mails -> 0 .. Header + Body] /\ mRespCode \in [Mails -> {0, 250}]
    BY MailAssumption DEF Init, Of
  <2>2. /\ ended \in [Mails -> Ends \cup {"no"}] /\ mDone \in [Mails -> {"Pending", "Positive"}]
        /\ mCurlRes \in [Mails -> {"ok", "error"}] /\ added \subseteq Mails
        /\ success \in [Mails -> {"Pending", "Positive", "-1"}]
    BY DEF Init, Of
  <2> QED BY <2>1, <2>2 DEF Init, TypeOK, Of
<1>2. ASSUME NEW m \in Mails PROVE MailOK(m)
  BY MailAssumption DEF Init, MailOK, PointersOK, CompletionOK, AnswerOK, Unbound, Of
<1> QED BY <1>1, <1>2 DEF Kept, Init

\* Between the steps of a tick of its own thread a mail finds the mutex free.
LEMMA TurnIsFree ==
  ASSUME Kept, ~Threads, Turn
  PROVE  mtxCurlMulti = NoMail /\ pReq = NoMail
<1>1. mtxCurlMulti = NoMail
  BY DEF Kept, TypeOK, MailOK, CompletionOK, Turn
<1> QED BY <1>1 DEF Kept, TypeOK, MailOK, CompletionOK

-----------------------------------------------------------------------------
(* The parent of a mail *)

\* A new mail takes the place of one that was deleted.
LEMMA CreateKeeps ==
  ASSUME Kept, ~Threads, NEW q \in Mails, Create(q)
  PROVE  Kept'
<1>1. /\ life[q] = "none" /\ life' = [life EXCEPT ![q] = "active"]
      /\ handle' = [handle EXCEPT ![q] = "none"] /\ list' = [list EXCEPT ![q] = "none"]
      /\ UNCHANGED <<mState, success, canceled, overdue, step, mpCurl, mpListRecipients, mDone,
                     mCurlRes, mRespCode, mailVars, multiVars>>
  BY DEF Create
<1>2. TypeOK' /\ touched' = FALSE
  BY <1>1 DEF Kept, TypeOK, mailVars, multiVars
<1>3. ASSUME NEW m \in Mails PROVE MailOK(m)'
  <2>1. PointersOK(m)'
    BY <1>1 DEF Kept, TypeOK, MailOK, PointersOK, multiVars
  <2>2. CompletionOK(m)'
    BY <1>1 DEF Kept, TypeOK, MailOK, CompletionOK, multiVars
  <2>3. AnswerOK(m)'
    BY <1>1 DEF Kept, TypeOK, MailOK, PointersOK, AnswerOK, Unbound, mailVars, multiVars
  <2> QED BY <2>1, <2>2, <2>3 DEF MailOK
<1> QED BY <1>2, <1>3 DEF Kept

\* Cancel, the shutdown that does nothing, and the time touch neither pointers nor curl.
LEMMA AskKeeps ==
  ASSUME Kept, NEW q \in Mails, Cancel(q) \/ Down(q) \/ Timeout(q)
  PROVE  Kept'
<1>1. /\ UNCHANGED <<mState, success, step, curlVars, multiVars>>
      /\ canceled' \in [Mails -> BOOLEAN]
      /\ overdue' \in [Mails -> BOOLEAN] /\ \A m \in Mails : overdue[m] => overdue'[m]
      /\ life' \in [Mails -> {"none", "active", "down"}]
      /\ \A m \in Mails : life'[m] = "none" <=> life[m] = "none"
  <2>1. CASE Cancel(q)
    BY <2>1 DEF Kept, TypeOK, Cancel
  <2>2. CASE Down(q)
    BY <2>2 DEF Kept, TypeOK, Down
  <2>3. CASE Timeout(q)
    BY <2>3 DEF Kept, TypeOK, Timeout
  <2> QED BY <2>1, <2>2, <2>3
<1>2. TypeOK' /\ touched' = FALSE
  BY <1>1 DEF Kept, TypeOK, curlVars, mailVars, multiVars
<1>3. ASSUME NEW m \in Mails PROVE MailOK(m)'
  BY <1>1 DEF Kept, MailOK, PointersOK, CompletionOK, AnswerOK, Unbound, curlVars, mailVars, multiVars
<1> QED BY <1>2, <1>3 DEF Kept

\* The destructor frees what is left, when no tick is under way.
LEMMA DestroyKeeps ==
  ASSUME Kept, ~Threads, NEW q \in Mails, Destroy(q)
  PROVE  Kept'
<1>1. mtxCurlMulti = NoMail /\ pReq = NoMail
  BY TurnIsFree DEF Destroy
<1>2. /\ life[q] = "down" /\ Forget(q)
      /\ UNCHANGED <<step, curlGlobalInitDone, pCurlMulti, mtxCurlMulti, pReq>>
  BY DEF Destroy
<1>3. /\ list' = [list EXCEPT ![q] = IF mpListRecipients[q] = "set" THEN "freed" ELSE @]
      /\ mpListRecipients' = [mpListRecipients EXCEPT ![q] = "NULL"]
  BY DEF Kept, TypeOK, MailOK, PointersOK, Destroy, Freed
<1>4. /\ handle' = [handle EXCEPT ![q] = IF mpCurl[q] = "set" THEN "freed" ELSE @]
      /\ mpCurl' = [mpCurl EXCEPT ![q] = "NULL"]
      /\ added' = added \ {q}
      /\ touched' = FALSE
  BY <1>1 DEF Kept, TypeOK, MailOK, PointersOK, Destroy, Freed
<1>5. TypeOK' /\ touched' = FALSE
  <2>1. /\ mBody' \in [Mails -> {Body, Header + Body}] /\ infile' \in [Mails -> Nat]
        /\ mNumSent' \in [Mails -> 0 .. Header + Body]
    BY <1>2, MailAssumption DEF Kept, TypeOK, Forget
  <2>2. /\ life' \in [Mails -> {"none", "active", "down"}]
        /\ mState' \in [Mails -> {"MailSeStart", "MailSeDoneWait"}]
        /\ success' \in [Mails -> {"Pending", "Positive", "-1"}]
        /\ canceled' \in [Mails -> BOOLEAN] /\ overdue' \in [Mails -> BOOLEAN]
        /\ mDone' \in [Mails -> {"Pending", "Positive"}]
        /\ mCurlRes' \in [Mails -> {"ok", "error"}] /\ mRespCode' \in [Mails -> {0, 250}]
        /\ ended' \in [Mails -> Ends \cup {"no"}]
    BY <1>2 DEF Kept, TypeOK, Forget
  <2> QED BY <1>2, <1>3, <1>4, <2>1, <2>2 DEF Kept, TypeOK
<1>6. ASSUME NEW m \in Mails PROVE MailOK(m)'
  <2>0. /\ life' = [life EXCEPT ![q] = "none"] /\ mState' = [mState EXCEPT ![q] = "MailSeStart"]
        /\ success' = [success EXCEPT ![q] = "Pending"]
        /\ mDone' = [mDone EXCEPT ![q] = "Pending"] /\ ended' = [ended EXCEPT ![q] = "no"]
        /\ mBody' = [mBody EXCEPT ![q] = Body]
    BY <1>2 DEF Forget
  <2>1. PointersOK(m)'
    BY <1>2, <1>3, <1>4, <2>0 DEF Kept, TypeOK, MailOK, PointersOK
  <2>2. CASE m = q
    <3>1. step[q] = "none"
      BY <1>2, MailAssumption, <1>1 DEF Kept, MailOK, CompletionOK, Destroy, Turn
    <3>2. CompletionOK(m)'
      BY <1>1, <1>2, <1>4, <2>0, <2>2, <3>1, MailAssumption DEF Kept, TypeOK, MailOK, CompletionOK
    <3>3. AnswerOK(m)'
      <4>1. /\ life'[q] = "none" /\ success'[q] = "Pending" /\ mDone'[q] = "Pending" /\ ended'[q] = "no"
            /\ mBody'[q] = Body /\ q \notin added' /\ pReq' # q
        BY <1>1, <1>2, <1>4, <2>0, MailAssumption DEF Kept, TypeOK
      <4> QED BY <4>1, <2>2 DEF AnswerOK, Unbound
    <3> QED BY <2>1, <3>2, <3>3 DEF MailOK
  <2>3. CASE m # q
    <3>1. /\ UNCHANGED <<life[m], mState[m], success[m], canceled[m], overdue[m], mDone[m], mCurlRes[m],
                         mRespCode[m], mNumSent[m], mBody[m], infile[m], ended[m]>>
          /\ m \in added' <=> m \in added
      BY <1>2, <1>4, <2>3 DEF Kept, TypeOK, Forget
    <3>2. CompletionOK(m)' /\ AnswerOK(m)'
      BY <1>1, <1>2, <3>1, MailAssumption DEF Kept, MailOK, CompletionOK, AnswerOK, Unbound
    <3> QED BY <2>1, <3>2 DEF MailOK
  <2> QED BY <2>2, <2>3
<1> QED BY <1>5, <1>6 DEF Kept

-----------------------------------------------------------------------------
(* process() *)

\* A mail that could not be bound has its handle still, but curl does not know of it.
LEMMA StartKeeps ==
  ASSUME Kept, NEW q \in Mails, Start(q)
  PROVE  Kept'
<1>1. /\ life[q] = "active" /\ step[q] = "none" /\ success[q] = "Pending" /\ mState[q] = "MailSeStart"
      /\ mtxCurlMulti = NoMail /\ curlGlobalInitDone' = TRUE
      /\ UNCHANGED <<life, mState, canceled, overdue, mDone, mCurlRes, mRespCode, mNumSent,
                     mtxCurlMulti, ended, pReq, touched>>
  BY DEF Start, Ticked, CurlGlobalInit
<1>2. PICK made, bound \in BOOLEAN :
          /\ bound => made
          /\ EasyHandleCreate(q, made)
          /\ IF made THEN CurlEasyHandleBind(q, bound) ELSE UNCHANGED <<pCurlMulti, added>>
          /\ IF bound THEN step' = [step EXCEPT ![q] = "bound"] /\ UNCHANGED success
                      ELSE Fail(q) /\ UNCHANGED step
  BY DEF Start
<1>3. /\ mpCurl' \in [Mails -> {"NULL", "set"}] /\ mpListRecipients' \in [Mails -> {"NULL", "set"}]
      /\ handle' \in [Mails -> {"none", "alive", "freed", "twice"}]
      /\ list' \in [Mails -> {"none", "alive", "freed", "twice"}]
      /\ \A m \in Mails \ {q} : /\ mpCurl'[m] = mpCurl[m] /\ handle'[m] = handle[m]
                                /\ mpListRecipients'[m] = mpListRecipients[m] /\ list'[m] = list[m]
      /\ made => /\ mpCurl'[q] = "set" /\ handle'[q] = "alive"
                 /\ \/ mpListRecipients'[q] = "set" /\ list'[q] = "alive"
                    \/ mpListRecipients'[q] = mpListRecipients[q] /\ list'[q] = list[q]
      /\ ~made => UNCHANGED <<mpCurl, handle, mpListRecipients, list>>
  <2>1. CASE made
    <3>1. /\ mpCurl' = [mpCurl EXCEPT ![q] = "set"] /\ handle' = [handle EXCEPT ![q] = "alive"]
          /\ \/ /\ mpListRecipients' = [mpListRecipients EXCEPT ![q] = "set"]
                /\ list' = [list EXCEPT ![q] = "alive"]
             \/ UNCHANGED <<mpListRecipients, list>>
      BY <1>2, <2>1 DEF EasyHandleCreate
    <3> QED BY <2>1, <3>1 DEF Kept, TypeOK
  <2>2. CASE ~made
    BY <1>2, <2>2 DEF Kept, TypeOK, EasyHandleCreate
  <2> QED BY <2>1, <2>2
<1>b. /\ \A m \in Mails \ {q} : mBody'[m] = mBody[m] /\ infile'[m] = infile[m]
      /\ infile' \in [Mails -> Nat]
  BY <1>2, MailAssumption DEF Kept, TypeOK, EasyHandleCreate
<1>c. mBody' \in [Mails -> {Body, Header + Body}]
  <2>1. CASE made
    BY <1>1, <1>2, <2>1 DEF Kept, TypeOK, MailOK, AnswerOK, Unbound, EasyHandleCreate
  <2>2. CASE ~made
    BY <1>2, <2>2 DEF Kept, TypeOK, EasyHandleCreate
  <2> QED BY <2>1, <2>2
<1>4. /\ pCurlMulti' \in {"NULL", "up"}
      /\ pCurlMulti = "up" => pCurlMulti' = "up"
      /\ added' = IF bound THEN added \cup {q} ELSE added
      /\ bound => pCurlMulti' = "up"
  BY <1>2 DEF Kept, TypeOK, CurlEasyHandleBind
<1>5. /\ bound => step' = [step EXCEPT ![q] = "bound"] /\ UNCHANGED success
      /\ ~bound => success' = [success EXCEPT ![q] = "-1"] /\ UNCHANGED step
  BY <1>2 DEF Fail
<1>6. TypeOK' /\ touched' = FALSE
  <2>1. /\ added' \subseteq Mails
        /\ step' \in [Mails -> {"none", "bound", "multi", "read"}]
        /\ success' \in [Mails -> {"Pending", "Positive", "-1"}]
    BY <1>4, <1>5 DEF Kept, TypeOK
  <2> QED BY <1>1, <1>3, <1>b, <1>c, <1>4, <2>1 DEF Kept, TypeOK
<1>7. ASSUME NEW m \in Mails PROVE MailOK(m)'
  <2>1. PointersOK(m)'
    <3>1. CASE m = q
      BY <1>1, <1>2, <1>3, <1>4, <3>1 DEF Kept, TypeOK, MailOK, PointersOK, AnswerOK, Unbound
    <3>2. CASE m # q
      BY <1>1, <1>3, <1>4, <3>2 DEF Kept, TypeOK, MailOK, PointersOK
    <3> QED BY <3>1, <3>2
  <2>2. CompletionOK(m)'
    BY <1>1, <1>4, <1>5, MailAssumption DEF Kept, TypeOK, MailOK, CompletionOK, AnswerOK, Unbound
  <2>3. AnswerOK(m)'
    <3>1. CASE m = q
      <4>1. Unbound(q) /\ life[q] # "none"
        BY <1>1 DEF Kept, MailOK, AnswerOK
      <4>2. /\ ended'[q] = "no" /\ life'[q] # "none"
            /\ success'[q] = "-1" => q \notin added'
            /\ success'[q] # "Positive"
            /\ step'[q] = "none" => success'[q] # "Pending"
        BY <1>1, <1>4, <1>5, <4>1 DEF Kept, TypeOK, Unbound
      <4> QED BY <3>1, <4>2 DEF AnswerOK
    <3>2. CASE m # q
      <4>1. /\ mBody'[m] = mBody[m] /\ success'[m] = success[m] /\ step'[m] = step[m]
            /\ m \in added' <=> m \in added
        BY <1>b, <1>4, <1>5, <3>2 DEF Kept, TypeOK
      <4> QED BY <1>1, <4>1 DEF Kept, MailOK, AnswerOK, Unbound
    <3> QED BY <3>1, <3>2
  <2> QED BY <2>1, <2>2, <2>3 DEF MailOK
<1> QED BY <1>6, <1>7 DEF Kept

\* Transfers of mails that curl knows go on or end; one that ends well has been read to the end.
LEMMA MultiPerformKeeps ==
  ASSUME Kept, NEW q \in Mails, MultiPerform(q)
  PROVE  Kept'
<1>1. /\ mtxCurlMulti = NoMail /\ mtxCurlMulti' = q
      /\ step' = [step EXCEPT ![q] = "multi"]
      /\ (step[q] = "bound" /\ life[q] # "none") \/ (mState[q] = "MailSeDoneWait" /\ life[q] = "active")
      /\ UNCHANGED <<procVars, mpCurl, mpListRecipients, handle, list, mDone, mCurlRes, mRespCode,
                     mBody, infile, curlGlobalInitDone, pCurlMulti, added, pReq, touched>>
  BY DEF MultiPerform, Ticked, Kept, MailOK, CompletionOK
<1>2. /\ ended' \in [Mails -> Ends \cup {"no"}] /\ mNumSent' \in [Mails -> 0 .. Header + Body]
      /\ \A m \in Mails \ Going : ended'[m] = ended[m] /\ mNumSent'[m] = mNumSent[m]
      /\ \A m \in Going : ended'[m] = "sent" /\ ~Limited => mNumSent'[m] = mBody[m]
  <2>1. PICK num \in [Going -> 0 .. Header + Body], end \in [Going -> Ends \cup {"no"}] :
          /\ \A m \in Going : end[m] = "sent" => num[m] = ReadMax(m)
          /\ mNumSent' = [m \in Mails |-> IF m \in Going THEN num[m] ELSE mNumSent[m]]
          /\ ended' = [m \in Mails |-> IF m \in Going THEN end[m] ELSE ended[m]]
    BY DEF MultiPerform
  <2>2. Going \subseteq Mails
    BY DEF Kept, TypeOK, Going
  <2>3. ASSUME NEW m \in Mails
        PROVE  /\ ended'[m] \in Ends \cup {"no"} /\ mNumSent'[m] \in 0 .. Header + Body
               /\ m \notin Going => ended'[m] = ended[m] /\ mNumSent'[m] = mNumSent[m]
               /\ m \in Going /\ ended'[m] = "sent" /\ ~Limited => mNumSent'[m] = mBody[m]
    BY <2>1 DEF Kept, TypeOK, ReadMax
  <2> QED BY <2>1, <2>2, <2>3
<1>3. TypeOK' /\ touched' = FALSE
  BY <1>1, <1>2 DEF Kept, TypeOK, procVars, mailVars
<1>4. ASSUME NEW m \in Mails PROVE MailOK(m)'
  <2>1. PointersOK(m)'
    BY <1>1 DEF Kept, MailOK, PointersOK, procVars, mailVars
  <2>2. CompletionOK(m)'
    BY <1>1, <1>2, MailAssumption DEF Kept, TypeOK, MailOK, CompletionOK, Going, procVars, mailVars
  <2>3. AnswerOK(m)'
    BY <1>1, <1>2 DEF Kept, TypeOK, MailOK, AnswerOK, Unbound, CompletionOK, Going, procVars, mailVars
  <2> QED BY <2>1, <2>2, <2>3 DEF MailOK
<1> QED BY <1>3, <1>4 DEF Kept

\* curl forgets the mail before its handle is freed.
LEMMA MessageTakeKeeps ==
  ASSUME Kept, NEW w \in Mails, MessageTake(w)
  PROVE  Kept'
<1>1. PICK q \in Mails :
          /\ q \in added /\ ended[q] # "no"
          /\ pReq' = q
          /\ mCurlRes' = [mCurlRes EXCEPT ![q] = Res(ended[q])]
          /\ mRespCode' = [mRespCode EXCEPT ![q] = Code(ended[q])]
          /\ added' = added \ {q}
          /\ list' = [list EXCEPT ![q] = IF mpListRecipients[q] = "set" THEN Freed(@) ELSE @]
          /\ mpListRecipients' = [mpListRecipients EXCEPT ![q] = "NULL"]
          /\ handle' = [handle EXCEPT ![q] = Freed(@)]
          /\ mpCurl' = [mpCurl EXCEPT ![q] = "NULL"]
  BY DEF Kept, TypeOK, MessageTake, Messages
<1>2. /\ mtxCurlMulti = w /\ pReq = NoMail
      /\ UNCHANGED <<procVars, step, mDone, mailVars, curlGlobalInitDone, pCurlMulti, mtxCurlMulti,
                     ended, touched>>
  BY DEF Kept, MailOK, CompletionOK, MessageTake
<1>3. /\ list' = [list EXCEPT ![q] = IF mpListRecipients[q] = "set" THEN "freed" ELSE @]
      /\ handle' = [handle EXCEPT ![q] = "freed"]
  BY <1>1 DEF Kept, TypeOK, MailOK, PointersOK, Freed
<1>4. TypeOK' /\ touched' = FALSE
  <2>1. mCurlRes' \in [Mails -> {"ok", "error"}] /\ mRespCode' \in [Mails -> {0, 250}]
    BY <1>1 DEF Kept, TypeOK, Res, Code
  <2> QED BY <1>1, <1>2, <1>3, <2>1 DEF Kept, TypeOK, procVars, mailVars
<1>5. ASSUME NEW m \in Mails PROVE MailOK(m)'
  <2>1. PointersOK(m)'
    BY <1>1, <1>2, <1>3 DEF Kept, TypeOK, MailOK, PointersOK, procVars, mailVars
  <2>2. CompletionOK(m)'
    BY <1>1, <1>2, MailAssumption DEF Kept, TypeOK, MailOK, PointersOK, CompletionOK, procVars, mailVars
  <2>3. AnswerOK(m)'
    BY <1>1, <1>2 DEF Kept, TypeOK, MailOK, AnswerOK, Unbound, procVars, mailVars
  <2> QED BY <2>1, <2>2, <2>3 DEF MailOK
<1> QED BY <1>4, <1>5 DEF Kept

\* The mail whose message curl has reported is completed, whoever ticks.
LEMMA MessageDoneKeeps ==
  ASSUME Kept, NEW w \in Mails, MessageDone(w)
  PROVE  Kept'
<1>1. /\ pReq \in Mails /\ pReq' = NoMail
      /\ mDone' = [mDone EXCEPT ![pReq] = "Positive"]
      /\ touched' = (touched \/ life[pReq] = "none")
      /\ UNCHANGED <<procVars, step, mpCurl, mpListRecipients, handle, list, mCurlRes, mRespCode,
                     mailVars, curlGlobalInitDone, pCurlMulti, mtxCurlMulti, added, ended>>
  BY DEF Kept, TypeOK, MessageDone
<1>2. touched' = FALSE
  BY <1>1 DEF Kept, TypeOK, MailOK, CompletionOK
<1>3. TypeOK'
  BY <1>1, <1>2 DEF Kept, TypeOK, procVars, mailVars
<1>4. ASSUME NEW m \in Mails PROVE MailOK(m)'
  <2>1. PointersOK(m)'
    BY <1>1 DEF Kept, MailOK, PointersOK, procVars, mailVars
  <2>2. CompletionOK(m)'
    BY <1>1, MailAssumption DEF Kept, TypeOK, MailOK, CompletionOK, procVars, mailVars
  <2>3. AnswerOK(m)'
    BY <1>1, MailAssumption DEF Kept, TypeOK, MailOK, AnswerOK, Unbound, procVars, mailVars
  <2> QED BY <2>1, <2>2, <2>3 DEF MailOK
<1> QED BY <1>2, <1>3, <1>4 DEF Kept

\* The mutex is left, and the mail that held it goes on.
LEMMA MultiEndKeeps ==
  ASSUME Kept, NEW w \in Mails, MultiEnd(w)
  PROVE  Kept'
<1>1. /\ mtxCurlMulti = w /\ pReq = NoMail /\ mtxCurlMulti' = NoMail
      /\ step' = [step EXCEPT ![w] = IF mState[w] = "MailSeStart" THEN "none" ELSE "read"]
      /\ mState' = [mState EXCEPT ![w] = "MailSeDoneWait"]
      /\ UNCHANGED <<life, success, canceled, overdue, curlVars, curlGlobalInitDone, pCurlMulti,
                     added, ended, pReq, touched>>
  BY DEF Kept, MailOK, CompletionOK, MultiEnd
<1>2. TypeOK' /\ touched' = FALSE
  BY <1>1 DEF Kept, TypeOK, curlVars, mailVars
<1>3. ASSUME NEW m \in Mails PROVE MailOK(m)'
  <2>1. PointersOK(m)'
    BY <1>1 DEF Kept, MailOK, PointersOK, curlVars, mailVars
  <2>2. CompletionOK(m)'
    BY <1>1, MailAssumption DEF Kept, TypeOK, MailOK, CompletionOK, curlVars, mailVars
  <2>3. AnswerOK(m)'
    BY <1>1 DEF Kept, TypeOK, MailOK, AnswerOK, Unbound, curlVars, mailVars
  <2> QED BY <2>1, <2>2, <2>3 DEF MailOK
<1> QED BY <1>2, <1>3 DEF Kept

\* What is reported is the result of a transfer that has ended, or the timeout.
LEMMA ResultReadKeeps ==
  ASSUME Kept, NEW q \in Mails, ResultRead(q)
  PROVE  Kept'
<1>1. /\ step[q] = "read" /\ step' = [step EXCEPT ![q] = "none"]
      /\ UNCHANGED <<life, mState, canceled, overdue, curlVars, multiVars>>
  BY DEF ResultRead
<1>2. /\ success' \in [Mails -> {"Pending", "Positive", "-1"}]
      /\ \A m \in Mails \ {q} : success'[m] = success[m]
      /\ success'[q] = "Positive" =>
            mDone[q] = "Positive" /\ mCurlRes[q] = "ok" /\ mRespCode[q] = 250
      /\ success'[q] = "-1" /\ ~overdue[q] =>
            mDone[q] = "Positive" /\ ~(mCurlRes[q] = "ok" /\ mRespCode[q] = 250)
  BY DEF Kept, TypeOK, ResultRead
<1>r. mDone[q] = "Positive" => (mCurlRes[q] = "ok" /\ mRespCode[q] = 250 <=> ended[q] = "sent")
  <2>1. ended[q] \in Ends \cup {"no"}
    BY DEF Kept, TypeOK
  <2>2. mDone[q] = "Positive" => mCurlRes[q] = Res(ended[q]) /\ mRespCode[q] = Code(ended[q])
    BY DEF Kept, MailOK, CompletionOK
  <2> QED BY <2>1, <2>2 DEF Ends, Res, Code
<1>s. mDone[q] = "Positive" => q \notin added
  BY DEF Kept, MailOK, CompletionOK
<1>3. TypeOK' /\ touched' = FALSE
  BY <1>1, <1>2 DEF Kept, TypeOK, curlVars, mailVars, multiVars
<1>4. ASSUME NEW m \in Mails PROVE MailOK(m)'
  <2>1. PointersOK(m)'
    BY <1>1 DEF Kept, MailOK, PointersOK, curlVars, mailVars, multiVars
  <2>2. CompletionOK(m)'
    BY <1>1 DEF Kept, TypeOK, MailOK, CompletionOK, curlVars, mailVars, multiVars
  <2>3. AnswerOK(m)'
    <3>1. CASE m = q
      <4>1. mState[q] = "MailSeDoneWait" /\ life[q] # "none"
        BY <1>1 DEF Kept, TypeOK, MailOK, CompletionOK
      <4> QED BY <1>1, <1>2, <1>r, <1>s, <3>1, <4>1
              DEF Kept, MailOK, AnswerOK, curlVars, mailVars, multiVars
    <3>2. CASE m # q
      BY <1>1, <1>2, <3>2 DEF Kept, TypeOK, MailOK, AnswerOK, Unbound, curlVars, mailVars, multiVars
    <3> QED BY <3>1, <3>2
  <2> QED BY <2>1, <2>2, <2>3 DEF MailOK
<1> QED BY <1>3, <1>4 DEF Kept

\* libcurl is left when no mail is left.
LEMMA CurlGlobalDeInitKeeps ==
  ASSUME Kept, CurlGlobalDeInit
  PROVE  Kept'
<1>1. TypeOK' /\ touched' = FALSE
  BY DEF Kept, TypeOK, CurlGlobalDeInit, procVars, curlVars, mailVars
<1>2. ASSUME NEW m \in Mails PROVE MailOK(m)'
  BY DEF Kept, MailOK, PointersOK, CompletionOK, AnswerOK, Unbound, CurlGlobalDeInit, procVars, curlVars, mailVars
<1> QED BY <1>1, <1>2 DEF Kept

\* With one thread every step keeps it, deletions in the middle of a transfer included.
LEMMA NextKeeps == ~Threads /\ Kept /\ [Next]_vars => Kept'
<1> SUFFICES ASSUME ~Threads, Kept, [Next]_vars PROVE Kept'
  OBVIOUS
<1>1. CASE UNCHANGED vars
  <2>1. TypeOK' /\ touched' = FALSE
    BY <1>1 DEF Kept, TypeOK, vars, procVars, curlVars, mailVars, multiVars
  <2>2. ASSUME NEW m \in Mails PROVE MailOK(m)'
    BY <1>1 DEF Kept, MailOK, PointersOK, CompletionOK, AnswerOK, Unbound, vars, procVars, curlVars, mailVars, multiVars
  <2> QED BY <2>1, <2>2 DEF Kept
<1>2. CASE CurlGlobalDeInit
  BY <1>2, CurlGlobalDeInitKeeps
<1>3. ASSUME NEW q \in Mails,
             Create(q) \/ Cancel(q) \/ Down(q) \/ Destroy(q) \/ Work(q) \/ Timeout(q)
      PROVE  Kept'
  BY <1>3, CreateKeeps, AskKeeps, DestroyKeeps, StartKeeps, MultiPerformKeeps, MessageTakeKeeps,
     MessageDoneKeeps, MultiEndKeeps, ResultReadKeeps DEF Work
<1> QED BY <1>1, <1>2, <1>3 DEF Next

-----------------------------------------------------------------------------
\* It holds however the mails of one thread follow one another.
LEMMA Invariance == ~Threads => (Spec => []Kept)
<1> SUFFICES ASSUME ~Threads PROVE Spec => []Kept
  OBVIOUS
<1>1. Kept /\ [Next]_vars => Kept'
  BY NextKeeps
<1> QED BY <1>1, InitKept, PTL DEF Spec

\* Of any number of mails in one thread none has its handle or its list freed twice, and curl
\* knows none that is freed.  With several threads this fails: the destructor takes no mutex.
THEOREM NothingFreedSafe == ~Threads => (Spec => []NothingFreedUsed)
<1> SUFFICES ASSUME ~Threads PROVE Spec => []NothingFreedUsed
  OBVIOUS
<1>1. Spec => []Kept
  BY Invariance
<1>2. Kept => NothingFreedUsed
  BY KeptImplies
<1> QED BY <1>1, <1>2, PTL

\* Of any number of mails in one thread, whichever of them read the message of another: each
\* reports success only when its own transfer ended with the 250 of a mail that was taken (and,
\* unless curl reads no more than was announced, was read to its end), and an error in time
\* only when it did not.
THEOREM ResultTrue == ~Threads => (Spec => []ResultIsTrue)
<1> SUFFICES ASSUME ~Threads PROVE Spec => []ResultIsTrue
  OBVIOUS
<1>1. Spec => []Kept
  BY Invariance
<1>2. Kept => ResultIsTrue
  BY KeptImplies
<1> QED BY <1>1, <1>2, PTL
=============================================================================
