--------------------------- MODULE OAuthRecovery ---------------------------
(***************************************************************************)
(* Guarded OAuth re-authorization: run_guarded_oauth and its command line  *)
(* (scripts/google_oauth_live_runner.py) around run_oauth_exchange         *)
(* (scripts/google_oauth_flow.py), with the listener of CallbackListener   *)
(* and, beside the runs, the swap and the refresh of CredentialSwap.       *)
(*                                                                         *)
(* A run is a process.  Its main thread binds the listener, writes the     *)
(* pending session and the authorization URL to files, waits for the       *)
(* callback, checks it against the pending file, exchanges the code and    *)
(* writes the candidate; on every way out it clears the files and closes   *)
(* the listener.  Runs share all files and no lock.                        *)
(***************************************************************************)
EXTENDS CallbackListener, CredentialSwap

VARIABLES pend,     \* whose pending session is in the file
          url,      \* whose authorization URL is in the handoff file
          phase,    \* per run, the call its main thread makes next
          baseline, \* per run, the hash of the token at preflight
          fetched,  \* per run, the code it has exchanged
          outcome,  \* per run, its result
          stuck     \* history: per run, those of its files it failed to remove

sessionVars == <<pend, url, stuck>>
runVars == <<phase, baseline, fetched, outcome>>
vars == <<listenerVars, credentialVars, sessionVars, runVars>>

Before == {"arm", "preflight", "listen"}
During == {"save", "url", "wait", "load", "recheck", "fetch", "write", "confirm", "discard"}
After == {"clear", "close", "last", "handoff"}
Phase == Before \cup During \cup After \cup {"end", "dead"}
Outcome == {"running", "exchanged", "accepted", "refused", "changed", "raised", "interrupted"}

TypeOK ==
  /\ ListenerTypeOK /\ CredentialTypeOK
  /\ pend \in Run \cup {Nothing} /\ url \in Run \cup {Nothing}
  /\ phase \in [Run -> Phase]
  /\ baseline \in [Run -> File]
  /\ fetched \in [Run -> Run \cup {Nothing}]
  /\ outcome \in [Run -> Outcome]
  /\ stuck \in [Run -> SUBSET {"pend", "url", "cand"}]

Init ==
  /\ ListenerInit /\ CredentialInit
  /\ pend = Nothing /\ url = Nothing
  /\ phase = [r \in Run |-> "arm"]
  /\ baseline = [r \in Run |-> Absent]
  /\ fetched = [r \in Run |-> Nothing]
  /\ outcome = [r \in Run |-> "running"]
  /\ stuck = [r \in Run |-> {}]

Goto(r, p) == phase' = [phase EXCEPT ![r] = p] /\ UNCHANGED <<baseline, fetched, outcome>>
Return(r, p, o) ==
  /\ phase' = [phase EXCEPT ![r] = p]
  /\ outcome' = [outcome EXCEPT ![r] = o]
  /\ UNCHANGED <<baseline, fetched>>
Refuse(r, p) == Return(r, p, "refused")

\* An unlink of f, which is owner's, fails: the file stays, and the code says
\* nothing of it.
Unremoved(r, f, owner) ==
  /\ "unlink" \in Faults
  /\ stuck' = [stuck EXCEPT ![r] = IF owner = r THEN @ \cup {f} ELSE @]

Active(r) == phase[r] \in During \cup After \cup {"preflight", "listen"}

-----------------------------------------------------------------------------
(* Before the exchange: run_guarded_oauth, run_oauth_exchange.             *)

\* _preflight, but for the client configuration.
Clear == oper # Absent /\ cand = Absent /\ pend = Nothing /\ url = Nothing

\* main: a preflight of its own, and the hash of the token against the one
\* on the command line.
Arm(r) ==
  /\ phase[r] = "arm"
  /\ (Clear /\ Goto(r, "preflight")) \/ Refuse(r, "end")
  /\ UNCHANGED <<listenerVars, credentialVars, sessionVars>>

\* Faulty: a candidate that is in the way is removed.
PreflightRemoves(r) ==
  /\ phase[r] = "preflight"
  /\ IF oper # Absent /\ pend = Nothing /\ url = Nothing
     THEN /\ phase' = [phase EXCEPT ![r] = "listen"]
          /\ baseline' = [baseline EXCEPT ![r] = oper]
          /\ cand' = Absent
          /\ UNCHANGED <<fetched, outcome>>
     ELSE Refuse(r, "end") /\ UNCHANGED cand
  /\ UNCHANGED <<listenerVars, oper, held, swap, old, new, refreshVars, sessionVars>>

\* The preflight of run_guarded_oauth, whose hash is the one that counts.
Preflight(r) ==
  /\ phase[r] = "preflight"
  /\ IF Clear
     THEN /\ phase' = [phase EXCEPT ![r] = "listen"]
          /\ baseline' = [baseline EXCEPT ![r] = oper]
          /\ UNCHANGED <<fetched, outcome>>
     ELSE Refuse(r, "end")
  /\ UNCHANGED <<listenerVars, credentialVars, sessionVars>>

\* The listener is up before anything is written.
Listen(r) ==
  /\ phase[r] = "listen"
  /\ \/ StartListener(r) /\ Goto(r, "save")
     \/ StartListenerTooSlow(r) /\ Refuse(r, "handoff")
     \/ "bind" \in Faults /\ Refuse(r, "handoff") /\ UNCHANGED listenerVars
  /\ UNCHANGED <<credentialVars, sessionVars>>

\* prepare_candidate removes what it wrote when it fails, if it can.
SavePending(r) ==
  /\ phase[r] = "save"
  /\ \/ pend' = r /\ Goto(r, "url")
     \/ /\ "prepare" \in Faults
        /\ pend' = Nothing \/ ("unlink" \in Faults /\ pend' = r)
        /\ Refuse(r, "clear")
  /\ UNCHANGED <<listenerVars, credentialVars, url, stuck>>

\* authorization_url and publish: a URL that is there already is not replaced.
PublishUrl(r) ==
  /\ phase[r] = "url"
  /\ \/ url = Nothing /\ url' = r /\ Goto(r, "wait")
     \/ url # Nothing /\ UNCHANGED url /\ Refuse(r, "clear")
     \/ /\ "prepare" \in Faults /\ url = Nothing
        /\ UNCHANGED url \/ ("unlink" \in Faults /\ url' = r)
        /\ Refuse(r, "clear")
  /\ UNCHANGED <<listenerVars, credentialVars, pend, stuck>>

\* The callback, or the refusal it amounts to; CALLBACK_FAILED when the wait
\* times out, even if the thread is just accepting a callback.
Wait(r) ==
  /\ phase[r] = "wait"
  /\ \/ WaitEnds(r) /\ IF result[r] \in Accepted THEN Goto(r, "load") ELSE Refuse(r, "clear")
     \/ WaitTimesOut(r) /\ Refuse(r, "clear")
  /\ UNCHANGED <<credentialVars, sessionVars>>

\* PendingSessionStore.load: the pending file is there, and is this run's.
SessionLoaded(r) == pend = r

\* The session has not expired, and the scopes are the ones asked for.
CheckSession(r) ==
  /\ phase[r] = "load"
  /\ (SessionLoaded(r) /\ result[r] = "full" /\ Goto(r, "recheck")) \/ Refuse(r, "clear")
  /\ UNCHANGED <<listenerVars, credentialVars, sessionVars>>

-----------------------------------------------------------------------------
(* GoogleAuthFlowAdapter.exchange.                                         *)

\* OPERATIONAL_TOKEN_CHANGED and CANDIDATE_PRESENT leave the candidate.
Recheck(r) ==
  /\ phase[r] = "recheck"
  /\ IF oper = baseline[r] /\ cand = Absent THEN Goto(r, "fetch") ELSE Refuse(r, "clear")
  /\ UNCHANGED <<listenerVars, credentialVars, sessionVars>>

\* fetch_token, and the hash after it.  The code is used up either way.
FetchToken(r) ==
  /\ phase[r] = "fetch"
  /\ fetched' = [fetched EXCEPT ![r] = code[r]]
  /\ \/ /\ oper = baseline[r]
        /\ phase' = [phase EXCEPT ![r] = "write"] /\ UNCHANGED outcome
     \/ /\ oper # baseline[r] \/ "exchange" \in Faults
        /\ phase' = [phase EXCEPT ![r] = "discard"]
        /\ outcome' = [outcome EXCEPT ![r] = "refused"]
  /\ UNCHANGED <<listenerVars, credentialVars, sessionVars, baseline>>

\* prepare_candidate: over what is there by now, and away with it on failure.
WriteCandidate(r) ==
  /\ phase[r] = "write"
  /\ \/ cand' = r /\ Goto(r, "confirm")
     \/ /\ "prepare" \in Faults
        /\ cand' = Absent \/ ("unlink" \in Faults /\ cand' \in {cand, Torn, r})
        /\ Refuse(r, "discard")
  /\ UNCHANGED <<listenerVars, oper, held, swap, old, new, refreshVars, sessionVars>>

\* Faulty: the last checks are outside the try.
ConfirmCandidateOutsideTry(r) ==
  /\ phase[r] = "confirm"
  /\ IF cand # Absent /\ oper = baseline[r]
     THEN Return(r, "clear", "exchanged")
     ELSE Refuse(r, "clear")
  /\ UNCHANGED <<listenerVars, credentialVars, sessionVars>>

\* The file is there and the token is still the one of the preflight.
ConfirmCandidate(r) ==
  /\ phase[r] = "confirm"
  /\ IF cand # Absent /\ oper = baseline[r]
     THEN Return(r, "clear", "exchanged")
     ELSE Refuse(r, "discard")
  /\ UNCHANGED <<listenerVars, credentialVars, sessionVars>>

\* The handlers unlink the candidate, whoever wrote it.  An OSError of that
\* unlink takes the place of the error: the run ends with EXCHANGE_FAILED.
DiscardCandidate(r) ==
  /\ phase[r] = "discard"
  /\ \/ cand' = Absent /\ UNCHANGED stuck
     \/ Unremoved(r, "cand", cand) /\ UNCHANGED cand
  /\ Goto(r, "clear")
  /\ UNCHANGED <<listenerVars, oper, held, swap, old, new, refreshVars, pend, url>>

-----------------------------------------------------------------------------
(* The way out: the two finally clauses.                                   *)

\* clear unlinks the file, whosesoever it is, and swallows an OSError.
ClearPending(r) ==
  /\ phase[r] = "clear"
  /\ \/ pend' = Nothing /\ UNCHANGED stuck
     \/ Unremoved(r, "pend", pend) /\ UNCHANGED pend
  /\ Goto(r, "close")
  /\ UNCHANGED <<listenerVars, credentialVars, url>>

Close(r) ==
  /\ phase[r] = "close"
  /\ CloseListener(r)
  /\ Goto(r, IF outcome[r] = "exchanged" THEN "last" ELSE "handoff")
  /\ UNCHANGED <<credentialVars, sessionVars>>

\* The last look at the token; _sha256 of a missing file raises.  The
\* candidate stays in any case.
LastCheck(r) ==
  /\ phase[r] = "last"
  /\ Return(r, "handoff", CASE oper = baseline[r] -> "accepted"
                            [] oper = Absent -> "raised"
                            [] OTHER -> "changed")
  /\ UNCHANGED <<listenerVars, credentialVars, sessionVars>>

ClearHandoff(r) ==
  /\ phase[r] = "handoff"
  /\ \/ url' = Nothing /\ UNCHANGED stuck
     \/ Unremoved(r, "url", url) /\ UNCHANGED url
  /\ Goto(r, "end")
  /\ UNCHANGED <<listenerVars, credentialVars, pend>>

MainStep(r) ==
  \/ Preflight(r) \/ Listen(r) \/ SavePending(r) \/ PublishUrl(r) \/ Wait(r)
  \/ CheckSession(r) \/ Recheck(r) \/ FetchToken(r) \/ WriteCandidate(r)
  \/ ConfirmCandidate(r) \/ DiscardCandidate(r)
  \/ ClearPending(r) \/ Close(r) \/ LastCheck(r) \/ ClearHandoff(r)

-----------------------------------------------------------------------------
(* The environment.                                                        *)

\* A candidate that is being written is left as it is, or torn, or whole.
PartlyWritten(r) == cand' \in IF phase[r] = "write" THEN {cand, Torn, r} ELSE {cand}

\* Ctrl-C passes the handlers, which catch Exception, and runs the finally
\* clauses.
Interrupt(r) ==
  /\ "interrupt" \in Faults /\ phase[r] \in During \ {"discard"}
  /\ PartlyWritten(r)
  /\ Return(r, "clear", "interrupted")
  /\ UNCHANGED <<listenerVars, oper, held, swap, old, new, refreshVars, sessionVars>>

\* The process dies.
Crash(r) ==
  /\ "crash" \in Faults /\ Active(r)
  /\ PartlyWritten(r)
  /\ Goto(r, "dead")
  /\ ListenerDies(r)
  /\ UNCHANGED <<oper, held, swap, old, new, refreshVars, sessionVars>>

\* Whoever knows the port may connect; the state of a run is known once its
\* URL has been written.
Requests(r) ==
  {q \in Request : q.state \in Run => phase[q.state] \notin Before \cup {"save", "url"}}

ListenerStep(r) ==
  \/ Connect(r) \/ HangUp(r) \/ Decide(r) \/ Expire(r) \/ StopServing(r) \/ ThreadDies(r)
  \/ \E q \in Requests(r) : Receive(r, q) \/ DirectReceive(r, q)
  \/ DirectDecide(r)

\* The operator promotes what an accepted run has left, when no run is at work.
Promote ==
  /\ \E r \in Run : outcome[r] = "accepted"
  /\ \A r \in Run : ~Active(r)
  /\ BeginSwap

Alone(A) == A /\ UNCHANGED <<credentialVars, sessionVars, runVars>>

Next ==
  \/ \E r \in Run : Arm(r) \/ MainStep(r) \/ Interrupt(r) \/ Crash(r)
  \/ \E r \in Run : Alone(ListenerStep(r))
  \/ (Promote \/ SwapStep \/ RefreshStep) /\ UNCHANGED <<listenerVars, sessionVars, runVars>>

\* The threads of a live process run, and its calls of the file system and of
\* icacls come to an end; fetch_token, which is called without a time limit,
\* need not.  The listener's loop looks at _done and at the clock each time
\* round: strong fairness, as clients may keep it reading in between.
Fairness ==
  \A r \in Run :
    /\ WF_vars(phase[r] # "fetch" /\ MainStep(r))
    /\ WF_vars(Alone(Decide(r)))
    /\ SF_vars(Alone(Expire(r) \/ StopServing(r)))

Spec == Init /\ [][Next]_vars
FairSpec == Spec /\ Fairness

-----------------------------------------------------------------------------
(* Properties.                                                             *)

\* A run exchanges no code but that of its own authorization, and only when
\* the result of its listener is that callback with the scopes asked for,
\* whatever callbacks, other runs and failures interleave.
ExchangesOwnCode ==
  \A r \in Run : fetched[r] # Nothing => fetched[r] = r /\ result[r] = "full"

\* A run that has returned left no session and no URL of its own, and if it
\* was refused no candidate either, whatever failed and wherever it was
\* interrupted: nothing of it stands in the way of the next one, but a file
\* that it did try to remove and could not, which it does not report (the
\* finally clauses, the handlers of exchange).
NothingLeftBehind ==
  \A r \in Run : phase[r] = "end" =>
    /\ pend = r => "pend" \in stuck[r]
    /\ url = r => "url" \in stuck[r]
    /\ outcome[r] = "refused" /\ cand = r => "cand" \in stuck[r]

\* The credential of an accepted run is the candidate, until it is promoted
\* or another run that got as far as exchanging a code has removed it.
AcceptedIsCandidate ==
  \A r \in Run : outcome[r] = "accepted" /\ cand # r =>
    \/ swap # "idle"
    \/ \E s \in Run \ {r} : fetched[s] # Nothing

\* Whatever swap and refresh do to the token file between each other's calls,
\* deaths and failed rollbacks of both included, a usable token is in it or in
\* a backup, until a refresh takes the file away after removing its backup.
\* And as long as the swap is not done, or once it has failed and rolled back,
\* both the old and the new token are there, unless a refresh has moved the
\* token file since the swap began or a later run has exchanged a code.
SwapLosesNothing ==
  /\ TokenOnDisk \/ RolledBackBlind
  /\ swap \in {"place", "verify", "undo", "restore", "failed"} =>
       \/ disturbed
       \/ \E s \in Run \ {new} : fetched[s] # Nothing
       \/ /\ old = (IF swap = "failed" THEN oper ELSE held)
          /\ new \in {oper, cand}

\* Every run that gets under way returns or dies, even if a client holds the
\* listener's only thread for ever, unless it waits for ever for the answer of
\* the token endpoint (fetch_token has no time limit).
RunReturns ==
  \A r \in Run :
    \/ <>[](phase[r] = "fetch")
    \/ Active(r) ~> ~Active(r)

\* The listener of every run that has returned stops serving, unless a client
\* that sends nothing holds it for ever.
ListenerCloses ==
  \A r \in Run :
    \/ <>[](thread[r] = "reading")
    \/ phase[r] = "end" ~> thread[r] \in {"none", "dead"}
=============================================================================
