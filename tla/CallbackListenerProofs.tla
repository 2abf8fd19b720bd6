----------------------- MODULE CallbackListenerProofs -----------------------
(***************************************************************************)
(* What every step of a listener keeps, for any set of runs and requests   *)
(* and any set of faults.  Used by OAuthRecoveryProofs.                    *)
(***************************************************************************)
EXTENDS CallbackListener, TLAPS

\* Whatever happens to the listener of run r.
ListenerAction(r) ==
  \/ Connect(r) \/ HangUp(r) \/ Decide(r) \/ Expire(r) \/ StopServing(r) \/ ThreadDies(r)
  \/ \E q \in Sent \cup Synthetic : Receive(r, q) \/ DirectReceive(r, q)
  \/ DirectDecide(r)
  \/ StartListener(r) \/ StartListenerTooSlow(r)
  \/ WaitEnds(r) \/ WaitTimesOut(r) \/ CloseListener(r) \/ ListenerDies(r)

\* A handler past its check has a request; an accepted code is that of the
\* session whose state the callback carried, and of the run itself.
OwnCode == \A r \in Run : result[r] \in Accepted => code[r] = r
HandlerHasRequest == \A r \in Run : thread[r] = "deciding" => request[r] \in Request
ListenerInv == ListenerTypeOK /\ OwnCode /\ HandlerHasRequest

\* A result, once there, stays, and the code with it.
Settled ==
  \A r \in Run : result[r] # Nothing => result'[r] = result[r] /\ code'[r] = code[r]

\* What storing a result does.
Stored ==
  /\ result' \in [Run -> Result \cup {Nothing}]
  /\ code' \in [Run -> Run \cup {Nothing}]
  /\ OwnCode' /\ Settled

LEMMA SameIsStored ==
  ASSUME ListenerInv, UNCHANGED <<result, code>>
  PROVE  Stored
  BY DEF Stored, ListenerInv, ListenerTypeOK, OwnCode, Settled

\* _finish with an accepted code of the run, or with a refusal.
LEMMA FinishStores ==
  ASSUME ListenerInv, NEW r \in Run, NEW v \in Result, NEW c \in Run \cup {Nothing},
         v \in Accepted => c = r, Finish(r, v, c)
  PROVE  Stored
<1>1. CASE result[r] = Nothing
  <2>1. /\ result' = [result EXCEPT ![r] = v]
        /\ code' = [code EXCEPT ![r] = c]
    BY <1>1 DEF Finish
  <2>2. /\ result' \in [Run -> Result \cup {Nothing}]
        /\ code' \in [Run -> Run \cup {Nothing}]
    BY <2>1 DEF ListenerInv, ListenerTypeOK
  <2>3. OwnCode' /\ Settled
    BY <1>1, <2>1 DEF ListenerInv, ListenerTypeOK, OwnCode, Settled
  <2> QED  BY <2>2, <2>3 DEF Stored
<1>2. CASE result[r] # Nothing
  BY <1>2, SameIsStored DEF Finish
<1> QED  BY <1>1, <1>2

LEMMA ExpiryStores ==
  ASSUME ListenerInv, NEW r \in Run, Finish(r, "expired", Nothing)
  PROVE  Stored
<1>1. "expired" \in Result /\ "expired" \notin Accepted  BY DEF Result, Accepted
<1> QED  BY <1>1, FinishStores

\* The handler of a request.
LEMMA RequestStores ==
  ASSUME ListenerInv, NEW r \in Run, NEW q \in Request, FinishRequest(r, q)
  PROVE  Stored
<1> DEFINE v == Verdict(r, q)
           c == IF v \in Accepted THEN q.state ELSE Nothing
<1>1. v \in Result /\ (v \in Accepted => q.state = r)
  BY DEF Verdict, Result, Accepted, Request
<1>2. c \in Run \cup {Nothing} /\ (v \in Accepted => c = r)
  BY <1>1
<1>3. Finish(r, v, c)
  BY DEF FinishRequest
<1> HIDE DEF v, c
<1> QED  BY <1>1, <1>2, <1>3, FinishStores

LEMMA ListenerStepKeeps ==
  ASSUME ListenerInv, NEW r \in Run, ListenerAction(r)
  PROVE  ListenerInv' /\ Settled
<1> DEFINE Threads == /\ thread' \in [Run -> {"none", "serving", "reading", "deciding", "dead"}]
                      /\ request' \in [Run -> Request \cup {Nothing}]
                      /\ direct' \in [Run -> Request \cup {Nothing}]
                      /\ HandlerHasRequest'
<1> SUFFICES Stored /\ Threads
  BY DEF Stored, ListenerInv, ListenerTypeOK
<1> USE DEF ListenerInv, ListenerTypeOK, HandlerHasRequest, Turn
<1>1. CASE Connect(r)
  BY <1>1, SameIsStored DEF Connect
<1>2. CASE HangUp(r)
  BY <1>2, SameIsStored DEF HangUp
<1>3. CASE Decide(r)
  <2>1. request[r] \in Request /\ FinishRequest(r, request[r])  BY <1>3 DEF Decide
  <2>2. Stored  BY <2>1, RequestStores
  <2>3. Threads  BY <1>3 DEF Decide
  <2> QED  BY <2>2, <2>3
<1>4. CASE Expire(r)
  BY <1>4, ExpiryStores DEF Expire
<1>5. CASE StopServing(r)
  BY <1>5, SameIsStored DEF StopServing
<1>6. CASE ThreadDies(r)
  BY <1>6, SameIsStored DEF ThreadDies
<1>7. ASSUME NEW q \in Sent \cup Synthetic, Receive(r, q)  PROVE Stored /\ Threads
  <2>1. q \in Request  BY RequestsAssumption
  <2>2. Stored  BY <1>7, SameIsStored DEF Receive
  <2>3. Threads  BY <1>7, <2>1 DEF Receive
  <2> QED  BY <2>2, <2>3
<1>8. ASSUME NEW q \in Sent \cup Synthetic, DirectReceive(r, q)  PROVE Stored /\ Threads
  <2>1. q \in Request  BY RequestsAssumption
  <2>2. Stored  BY <1>8, SameIsStored DEF DirectReceive
  <2>3. Threads  BY <1>8, <2>1 DEF DirectReceive
  <2> QED  BY <2>2, <2>3
<1>9. CASE DirectDecide(r)
  <2>1. direct[r] \in Request /\ FinishRequest(r, direct[r])  BY <1>9 DEF DirectDecide
  <2>2. Stored  BY <2>1, RequestStores
  <2>3. Threads  BY <1>9 DEF DirectDecide
  <2> QED  BY <2>2, <2>3
<1>10. CASE StartListener(r)
  BY <1>10, SameIsStored DEF StartListener
<1>11. CASE StartListenerTooSlow(r)
  BY <1>11, ExpiryStores DEF StartListenerTooSlow
<1>12. CASE WaitEnds(r)
  BY <1>12, ExpiryStores, SameIsStored DEF WaitEnds
<1>13. CASE WaitTimesOut(r)
  BY <1>13, SameIsStored DEF WaitTimesOut, listenerVars
<1>14. CASE CloseListener(r)
  BY <1>14, ExpiryStores DEF CloseListener
<1>15. CASE ListenerDies(r)
  BY <1>15, SameIsStored DEF ListenerDies
<1> QED  BY <1>1, <1>2, <1>3, <1>4, <1>5, <1>6, <1>7, <1>8, <1>9, <1>10, <1>11, <1>12, <1>13,
           <1>14, <1>15 DEF ListenerAction

LEMMA ListenerStartsWell == ListenerInit => ListenerInv
<1>1. Nothing \notin Accepted  BY ResultAssumption DEF Result
<1> QED  BY <1>1 DEF ListenerInit, ListenerInv, ListenerTypeOK, OwnCode, HandlerHasRequest
=============================================================================
