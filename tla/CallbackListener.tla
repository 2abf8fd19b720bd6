-------------------------- MODULE CallbackListener --------------------------
(***************************************************************************)
(* The one-shot loopback listener of scripts/google_oauth_redirect.py.     *)
(*                                                                         *)
(* A run has one listener: a thread that serves one connection at a time,  *)
(* a result that is written at most once under a lock, and the code of the *)
(* accepted callback.  Besides that thread, the run's main thread closes   *)
(* the listener and another thread may hand it a callback directly         *)
(* (consume_callback_once).  Each of them looks at the result, lets go of  *)
(* the lock, and then stores a result of its own: two steps here.          *)
(*                                                                         *)
(* A request is the session whose state it carries and what the rest of it *)
(* is: "full" a code with all scopes, "partial" a code with other scopes,  *)
(* "other" anything the handler turns down (another host or path, a        *)
(* provider error, no code, malformed scopes).  The code of a callback is  *)
(* the session it was granted to, which is the one whose state it carries. *)
(*                                                                         *)
(* _done is set exactly when _result is, under the same lock.              *)
(***************************************************************************)
EXTENDS OAuthRuns

CONSTANTS Sent,      \* the requests that clients may send
          Synthetic  \* what consume_callback_once may be called with

VARIABLES thread,    \* per run, what the listener's thread does
          request,   \* per run, the request its handler has let in
          direct,    \* per run, the callback consume_callback_once has let in
          result,    \* per run, _result
          code       \* per run, _authorization_code

listenerVars == <<thread, request, direct, result, code>>

Request == [state : Run \cup {Nothing}, answer : {"full", "partial", "other"}]

ASSUME RequestsAssumption == Sent \subseteq Request /\ Synthetic \subseteq Request

Accepted == {"full", "partial"}
Result == Accepted \cup {"rejected", "expired"}

ASSUME ResultAssumption == Nothing \notin Result

ListenerTypeOK ==
  /\ thread \in [Run -> {"none", "serving", "reading", "deciding", "dead"}]
  /\ request \in [Run -> Request \cup {Nothing}]
  /\ direct \in [Run -> Request \cup {Nothing}]
  /\ result \in [Run -> Result \cup {Nothing}]
  /\ code \in [Run -> Run \cup {Nothing}]

ListenerInit ==
  /\ thread = [r \in Run |-> "none"]
  /\ request = [r \in Run |-> Nothing]
  /\ direct = [r \in Run |-> Nothing]
  /\ result = [r \in Run |-> Nothing]
  /\ code = [r \in Run |-> Nothing]

\* Faulty: the state is not compared.
VerdictOfAnyState(r, q) == IF q.answer = "other" THEN "rejected" ELSE q.answer

\* _consume_query: what a request amounts to.
Verdict(r, q) ==
  IF q.answer # "other" /\ q.state = r THEN q.answer ELSE "rejected"

\* Faulty: the last result counts.
FinishAgain(r, v, c) ==
  /\ result' = [result EXCEPT ![r] = v]
  /\ code' = [code EXCEPT ![r] = c]

\* _finish: the first result is the only one.
Finish(r, v, c) ==
  IF result[r] = Nothing
  THEN /\ result' = [result EXCEPT ![r] = v]
       /\ code' = [code EXCEPT ![r] = c]
  ELSE UNCHANGED <<result, code>>

\* What a handler stores for the request q it has let in.
FinishRequest(r, q) ==
  LET v == Verdict(r, q) IN Finish(r, v, IF v \in Accepted THEN q.state ELSE Nothing)

Turn(r, t) == thread' = [thread EXCEPT ![r] = t]

-----------------------------------------------------------------------------
(* The thread: _serve, handle_request, do_GET.                             *)

\* handle_request accepts a connection.  From here the thread reads from the
\* client, and there is no time limit on that.
Connect(r) ==
  /\ thread[r] = "serving"
  /\ Turn(r, "reading")
  /\ UNCHANGED <<request, direct, result, code>>

\* The client goes away, or sends something that is not a GET.
HangUp(r) ==
  /\ thread[r] = "reading"
  /\ Turn(r, "serving")
  /\ UNCHANGED <<request, direct, result, code>>

\* _consume_request and _consume_query up to the check of _result; a second
\* callback is turned away.
Receive(r, q) ==
  /\ thread[r] = "reading"
  /\ q \in Sent
  /\ IF result[r] = Nothing
     THEN Turn(r, "deciding") /\ request' = [request EXCEPT ![r] = q]
     ELSE Turn(r, "serving") /\ UNCHANGED request
  /\ UNCHANGED <<direct, result, code>>

\* The rest of _consume_query, and the answer to the browser.
Decide(r) ==
  /\ thread[r] = "deciding"
  /\ FinishRequest(r, request[r])
  /\ Turn(r, "serving")
  /\ request' = [request EXCEPT ![r] = Nothing]
  /\ UNCHANGED direct

\* The deadline has passed at the head of the loop; the thread ends.
Expire(r) ==
  /\ thread[r] = "serving" /\ result[r] = Nothing
  /\ Finish(r, "expired", Nothing)
  /\ Turn(r, "dead")
  /\ UNCHANGED <<request, direct>>

\* Faulty: the loop looks at the clock and not at _done.
StopServingLate(r) == FALSE /\ UNCHANGED listenerVars

\* _done is set at the head of the loop; the socket is closed.
StopServing(r) ==
  /\ thread[r] = "serving" /\ result[r] # Nothing
  /\ Turn(r, "dead")
  /\ UNCHANGED <<request, direct, result, code>>

\* handle_request raises: the thread ends with or without a result.
ThreadDies(r) ==
  /\ "socket" \in Faults /\ thread[r] = "serving"
  /\ Turn(r, "dead")
  /\ UNCHANGED <<request, direct, result, code>>

-----------------------------------------------------------------------------
(* Other threads.                                                          *)

\* consume_callback_once, to the check and from there.
DirectReceive(r, q) ==
  /\ thread[r] # "none" /\ direct[r] = Nothing /\ result[r] = Nothing
  /\ q \in Synthetic
  /\ direct' = [direct EXCEPT ![r] = q]
  /\ UNCHANGED <<thread, request, result, code>>

DirectDecide(r) ==
  /\ direct[r] # Nothing
  /\ FinishRequest(r, direct[r])
  /\ direct' = [direct EXCEPT ![r] = Nothing]
  /\ UNCHANGED <<thread, request>>

\* start: the thread runs, and the caller knows, or has waited a second for
\* it and closed the listener.
StartListener(r) ==
  /\ Turn(r, "serving")
  /\ UNCHANGED <<request, direct, result, code>>

StartListenerTooSlow(r) ==
  /\ "bind" \in Faults
  /\ Turn(r, "serving")
  /\ Finish(r, "expired", Nothing)
  /\ UNCHANGED <<request, direct>>

\* wait: it ends with the thread; no result is an expiry, and recorded as one
\* if the thread was already dead at the call ...
WaitEnds(r) ==
  /\ thread[r] = "dead"
  /\ Finish(r, "expired", Nothing) \/ UNCHANGED <<result, code>>
  /\ UNCHANGED <<thread, request, direct>>

\* Faulty: the thread is joined without a limit.
WaitForever(r) == FALSE /\ UNCHANGED listenerVars

\* ... or with the time it was given.
WaitTimesOut(r) == thread[r] # "dead" /\ UNCHANGED listenerVars

\* Faulty: a disposition that callers do not know.
CloseListenerAsClosed(r) ==
  /\ Finish(r, "closed", Nothing)
  /\ UNCHANGED <<thread, request, direct>>

\* close: an expiry unless there is a result.  The thread is joined for two
\* seconds, whether or not that is enough for it to end.
CloseListener(r) ==
  /\ Finish(r, "expired", Nothing)
  /\ UNCHANGED <<thread, request, direct>>

\* The process dies, and its threads with it.
ListenerDies(r) ==
  /\ Turn(r, "dead")
  /\ request' = [request EXCEPT ![r] = Nothing]
  /\ direct' = [direct EXCEPT ![r] = Nothing]
  /\ UNCHANGED <<result, code>>

\* Only the first terminal request, or the end of the time, settles a run:
\* no later, repeated or concurrent callback and no closing of the listener
\* replaces the result or the code (_finish, close).
OneDisposition ==
  [][\A r \in Run : result[r] # Nothing =>
        result'[r] = result[r] /\ code'[r] = code[r]]_listenerVars
=============================================================================
