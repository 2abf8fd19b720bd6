------------------------ MODULE OAuthRecoveryProofs ------------------------
(***************************************************************************)
(* Proofs about OAuthRecovery, for any number of runs, any requests of     *)
(* clients and any set of faults.                                          *)
(*                                                                         *)
(* The invariant has three layers: what a listener has stored              *)
(* (CallbackListenerProofs), how far each run has come and what it owns,   *)
(* and where the swap has put the old and the new token.  A step of a run  *)
(* is first reduced to its Effect, which is all that the credentials see.  *)
(***************************************************************************)
EXTENDS OAuthRecovery, CallbackListenerProofs

USE TokensAssumption, NothingAssumption, ResultAssumption

Returned == {"exchanged", "accepted", "changed", "raised", "interrupted"}

\* How far run r has come.
Progress(r) ==
  /\ phase[r] \in {"recheck", "fetch", "write", "confirm"} => result[r] = "full"
  /\ phase[r] \in {"write", "confirm", "discard"} => fetched[r] # Nothing
  /\ phase[r] \in Before \cup (During \ {"discard"}) => outcome[r] = "running"
  /\ phase[r] \in Before \cup During => stuck[r] = {}
  /\ phase[r] = "discard" => outcome[r] = "refused"
  /\ phase[r] \in After \cup {"end"} => outcome[r] # "running"
  /\ phase[r] = "last" => outcome[r] = "exchanged"
  /\ fetched[r] # Nothing => fetched[r] = r /\ result[r] = "full"

\* The session files a run still has to clear, or has failed to.
Session(r) ==
  /\ pend = r => phase[r] \in (During \ {"save"}) \cup {"clear", "dead"} \/ "pend" \in stuck[r]
  /\ url = r => phase[r] \in (During \ {"save", "url"}) \cup After \cup {"dead"}
                   \/ "url" \in stuck[r]

\* Tokens of a run that may still be refused are in the candidate only.
MayHold(r) ==
  \/ phase[r] \in {"confirm", "discard", "dead"} \/ outcome[r] \in Returned
  \/ "cand" \in stuck[r]
Kept(r) == phase[r] = "dead" \/ (phase[r] = "end" /\ MayHold(r))
Holding(r) ==
  /\ cand = r => MayHold(r)
  /\ r \in {oper, held, kept, new} => Kept(r)

\* The candidate of a run that has exchanged its code.
Has(r) == phase[r] = "confirm" \/ outcome[r] \in {"exchanged", "accepted"}
OthersFetched(r) == \E s \in Run \ {r} : fetched[s] # Nothing
Candidate(r) == Has(r) => cand = r \/ swap # "idle" \/ OthersFetched(r)

RunInv == \A r \in Run : Progress(r) /\ Session(r)
CandidateInv == \A r \in Run : Holding(r) /\ Candidate(r)

\* A refresh has taken the token file away, to restore it or not.
TakenAway == refresh \in {"restore", "rollback_failed"}

\* Where the swap has put the old and the new token, if nobody else was there.
Undisturbed ==
  /\ swap \in {"backup", "failed"} => oper = old
  /\ swap \in {"place", "verify", "undo", "restore"} => held = old
  /\ swap = "place" => oper = Absent
  /\ swap = "verify" => oper = new
  /\ swap = "undo" => (oper = Absent /\ cand = new) \/ oper = new \/ OthersFetched(new)
  /\ swap \in {"restore", "failed"} => cand = new \/ OthersFetched(new)
SwapInv ==
  /\ swap \in {"backup", "place"} => cand = new /\ \A r \in Run : phase[r] \in {"arm", "end", "dead"}
  /\ swap # "idle" => new \in Token
  /\ {oper, held, kept} \subseteq Token \cup {Absent}
  /\ swap \in {"place", "verify", "undo", "restore", "rollback_failed"} => held \in Token
  /\ oper \in Token \/ held \in Token \/ TakenAway
  /\ swap = "drop" => oper \in Token \/ TakenAway
  /\ ~disturbed => Undisturbed

Inv == TypeOK /\ ListenerInv /\ RunInv /\ CandidateInv /\ SwapInv

-----------------------------------------------------------------------------
(* The steps of a run.                                                     *)

RunAction(r) == Arm(r) \/ MainStep(r) \/ Interrupt(r) \/ Crash(r)

\* What the credentials see of a step of run r.
Effect(r) ==
  /\ phase[r] \notin {"end", "dead"}
  /\ fetched[r] # Nothing => fetched'[r] # Nothing
  /\ stuck[r] \subseteq stuck'[r]
  /\ phase[r] = "arm" /\ cand # Absent => phase'[r] = "end"
  /\ cand' # cand => phase[r] \in {"write", "discard"} /\ cand' \in {r, Torn, Absent}
  /\ cand' = r => cand = r \/ MayHold(r)'
  /\ MayHold(r) => MayHold(r)' \/ cand' # r
  /\ Has(r)' => cand' = r \/ (Has(r) /\ cand' = cand)

\* Every step of a run is one of its listener, or none.
LEMMA RunStepListens ==
  ASSUME NEW r \in Run, RunAction(r)
  PROVE  ListenerAction(r) \/ UNCHANGED listenerVars
  BY DEF RunAction, ListenerAction, MainStep, Arm, Preflight, Listen, SavePending, PublishUrl, Wait,
         CheckSession, SessionLoaded, Recheck, FetchToken, WriteCandidate, ConfirmCandidate, DiscardCandidate,
         ClearPending, Close, LastCheck, ClearHandoff, Interrupt, Crash

\* The variables of the other runs, and those of the swap and the refresh,
\* stay; a run writes only its own name, or none, into the session files.
Frame(r) ==
  /\ \A s \in Run \ {r} :
       /\ phase'[s] = phase[s] /\ outcome'[s] = outcome[s] /\ fetched'[s] = fetched[s]
       /\ stuck'[s] = stuck[s]
  /\ pend' \in {pend, r, Nothing} /\ url' \in {url, r, Nothing}
  /\ UNCHANGED <<oper, held, swap, old, new, refreshVars>>

LEMMA RunStepTypes ==
  ASSUME TypeOK, ListenerInv', NEW r \in Run, RunAction(r)
  PROVE  TypeOK' /\ Frame(r)
<1> USE DEF TypeOK, CredentialTypeOK, ListenerInv, Frame, Phase, Before, During, After, Outcome, File, Token,
            Goto, Return, Refuse, credentialVars, swapVars, refreshVars, sessionVars
<1>1. CASE Arm(r)  BY <1>1 DEF Arm, Clear
<1>2. CASE Preflight(r)  BY <1>2 DEF Preflight, Clear
<1>3. CASE Listen(r)  BY <1>3 DEF Listen
<1>4. CASE SavePending(r)  BY <1>4 DEF SavePending
<1>5. CASE PublishUrl(r)  BY <1>5 DEF PublishUrl
<1>6. CASE Wait(r)  BY <1>6 DEF Wait
<1>7. CASE CheckSession(r)  BY <1>7 DEF CheckSession, SessionLoaded
<1>8. CASE Recheck(r)  BY <1>8 DEF Recheck
<1>9. CASE FetchToken(r)  BY <1>9 DEF FetchToken, ListenerTypeOK
<1>10. CASE WriteCandidate(r)  BY <1>10 DEF WriteCandidate
<1>11. CASE ConfirmCandidate(r)  BY <1>11 DEF ConfirmCandidate
<1>12. CASE DiscardCandidate(r)  BY <1>12 DEF DiscardCandidate, Unremoved
<1>13. CASE ClearPending(r)  BY <1>13 DEF ClearPending, Unremoved
<1>14. CASE Close(r)  BY <1>14 DEF Close
<1>15. CASE LastCheck(r)  BY <1>15 DEF LastCheck
<1>16. CASE ClearHandoff(r)  BY <1>16 DEF ClearHandoff, Unremoved
<1>17. CASE Interrupt(r)  BY <1>17 DEF Interrupt, PartlyWritten
<1>18. CASE Crash(r)  BY <1>18 DEF Crash, PartlyWritten, Active
<1> QED  BY <1>1, <1>2, <1>3, <1>4, <1>5, <1>6, <1>7, <1>8, <1>9, <1>10, <1>11, <1>12, <1>13, <1>14,
            <1>15, <1>16, <1>17, <1>18 DEF RunAction, MainStep

\* The run that takes the step.
LEMMA RunStepProgress ==
  ASSUME TypeOK, NEW r \in Run, Progress(r), Session(r), OwnCode, TypeOK',
         result[r] = "full" => result'[r] = "full", RunAction(r)
  PROVE  Progress(r)' /\ Session(r)'
<1> USE DEF TypeOK, Progress, Session, sessionVars, Before, During, After, Goto, Return, Refuse
<1>1. CASE Arm(r)  BY <1>1 DEF Arm, Clear
<1>2. CASE Preflight(r)  BY <1>2 DEF Preflight, Clear
<1>3. CASE Listen(r)  BY <1>3 DEF Listen
<1>4. CASE SavePending(r)  BY <1>4 DEF SavePending
<1>5. CASE PublishUrl(r)  BY <1>5 DEF PublishUrl
<1>6. CASE Wait(r)  BY <1>6 DEF Wait
<1>7. CASE CheckSession(r)  BY <1>7 DEF CheckSession, SessionLoaded
<1>8. CASE Recheck(r)  BY <1>8 DEF Recheck
<1>9. CASE FetchToken(r)  BY <1>9 DEF FetchToken, OwnCode, Accepted
<1>10. CASE WriteCandidate(r)  BY <1>10 DEF WriteCandidate
<1>11. CASE ConfirmCandidate(r)  BY <1>11 DEF ConfirmCandidate
<1>12. CASE DiscardCandidate(r)  BY <1>12 DEF DiscardCandidate, Unremoved
<1>13. CASE ClearPending(r)  BY <1>13 DEF ClearPending, Unremoved
<1>14. CASE Close(r)  BY <1>14 DEF Close
<1>15. CASE LastCheck(r)  BY <1>15 DEF LastCheck
<1>16. CASE ClearHandoff(r)  BY <1>16 DEF ClearHandoff, Unremoved
<1>17. CASE Interrupt(r)  BY <1>17 DEF Interrupt, PartlyWritten
<1>18. CASE Crash(r)  BY <1>18 DEF Crash, PartlyWritten, Active
<1> QED  BY <1>1, <1>2, <1>3, <1>4, <1>5, <1>6, <1>7, <1>8, <1>9, <1>10, <1>11, <1>12, <1>13, <1>14,
            <1>15, <1>16, <1>17, <1>18 DEF RunAction, MainStep

LEMMA RunStepEffect ==
  ASSUME TypeOK, NEW r \in Run, Progress(r), OwnCode, RunAction(r)
  PROVE  Effect(r)
<1> USE DEF TypeOK, Progress, Effect, MayHold, Has, Returned, Before, During, After, Goto, Return, Refuse,
            credentialVars, swapVars, sessionVars
<1>1. CASE Arm(r)  BY <1>1 DEF Arm, Clear
<1>2. CASE Preflight(r)  BY <1>2 DEF Preflight, Clear
<1>3. CASE Listen(r)  BY <1>3 DEF Listen
<1>4. CASE SavePending(r)  BY <1>4 DEF SavePending
<1>5. CASE PublishUrl(r)  BY <1>5 DEF PublishUrl
<1>6. CASE Wait(r)  BY <1>6 DEF Wait
<1>7. CASE CheckSession(r)  BY <1>7 DEF CheckSession, SessionLoaded
<1>8. CASE Recheck(r)  BY <1>8 DEF Recheck
<1>9. CASE FetchToken(r)  BY <1>9 DEF FetchToken, OwnCode, Accepted
<1>10. CASE WriteCandidate(r)  BY <1>10 DEF WriteCandidate
<1>11. CASE ConfirmCandidate(r)  BY <1>11 DEF ConfirmCandidate
<1>12. CASE DiscardCandidate(r)  BY <1>12 DEF DiscardCandidate, Unremoved
<1>13. CASE ClearPending(r)  BY <1>13 DEF ClearPending, Unremoved
<1>14. CASE Close(r)  BY <1>14 DEF Close
<1>15. CASE LastCheck(r)  BY <1>15 DEF LastCheck
<1>16. CASE ClearHandoff(r)  BY <1>16 DEF ClearHandoff, Unremoved
<1>17. CASE Interrupt(r)  BY <1>17 DEF Interrupt, PartlyWritten
<1>18. CASE Crash(r)  BY <1>18 DEF Crash, PartlyWritten, Active
<1> QED  BY <1>1, <1>2, <1>3, <1>4, <1>5, <1>6, <1>7, <1>8, <1>9, <1>10, <1>11, <1>12, <1>13, <1>14,
            <1>15, <1>16, <1>17, <1>18 DEF RunAction, MainStep

\* Frame and Effect are what the other lemmas use of a step of a run.
LEMMA FetchedStays ==
  ASSUME NEW r \in Run, Frame(r), Effect(r), NEW x, OthersFetched(x)
  PROVE  OthersFetched(x)'
  BY DEF Frame, Effect, OthersFetched

\* Only a run that has exchanged a code changes the candidate file.
LEMMA ChangerHasFetched ==
  ASSUME NEW r \in Run, Progress(r), Effect(r), cand' # cand, NEW x, x # r
  PROVE  OthersFetched(x)'
  BY DEF Progress, Effect, OthersFetched

LEMMA RunStepRuns ==
  ASSUME Inv, Settled, NEW r \in Run, RunAction(r), TypeOK', Frame(r)
  PROVE  RunInv'
<1>1. \A s \in Run : result[s] = "full" => result'[s] = "full"
  BY DEF Settled, Result, Accepted
<1>2. Progress(r)' /\ Session(r)'
  BY <1>1, RunStepProgress DEF Inv, RunInv, ListenerInv
<1>3. ASSUME NEW s \in Run \ {r}  PROVE Progress(s)' /\ Session(s)'
  <2>1. Progress(s) /\ Session(s)  BY DEF Inv, RunInv
  <2>2. Progress(s)'  BY <1>1, <2>1 DEF Progress, Frame
  <2>3. Session(s)'  BY <2>1 DEF Session, Frame
  <2> QED  BY <2>2, <2>3
<1> QED  BY <1>2, <1>3 DEF RunInv

LEMMA RunStepCandidates ==
  ASSUME Inv, NEW r \in Run, Frame(r), Effect(r)
  PROVE  CandidateInv'
<1>1. \A s \in Run : Holding(s) /\ Candidate(s) /\ Progress(s)  BY DEF Inv, CandidateInv, RunInv
<1>2. ~Kept(r)  BY DEF Effect, Kept
<1>3. Holding(r)'
  BY <1>1, <1>2 DEF Holding, Frame, Effect, refreshVars
<1>4. Candidate(r)'
  <2>1. CASE Has(r)' /\ cand' # r
    <3>1. Has(r) /\ cand' = cand  BY <2>1 DEF Effect
    <3>2. swap # "idle" \/ OthersFetched(r)  BY <1>1, <2>1, <3>1 DEF Candidate
    <3>3. swap' = swap  BY DEF Frame
    <3>4. OthersFetched(r) => OthersFetched(r)'  BY FetchedStays
    <3> QED  BY <3>2, <3>3, <3>4 DEF Candidate
  <2> QED  BY <2>1 DEF Candidate
<1>5. ASSUME NEW s \in Run \ {r}  PROVE Holding(s)' /\ Candidate(s)'
  <2>1. Holding(s)'
    BY <1>1 DEF Holding, MayHold, Kept, Frame, Effect, refreshVars
  <2>2. CASE cand' = cand
    <3>1. OthersFetched(s) => OthersFetched(s)'  BY FetchedStays
    <3>2. Has(s)' => Has(s)  BY DEF Has, Frame
    <3>3. swap' = swap  BY DEF Frame
    <3> QED  BY <1>1, <2>1, <2>2, <3>1, <3>2, <3>3 DEF Candidate
  <2>3. CASE cand' # cand
    <3>1. OthersFetched(s)'  BY <1>1, <2>3, ChangerHasFetched
    <3> QED  BY <2>1, <3>1 DEF Candidate
  <2> QED  BY <2>2, <2>3
<1> QED  BY <1>3, <1>4, <1>5 DEF CandidateInv

LEMMA RunStepSwap ==
  ASSUME Inv, NEW r \in Run, Frame(r), Effect(r)
  PROVE  SwapInv'
<1>1. SwapInv /\ Progress(r) /\ Holding(r)  BY DEF Inv, RunInv, CandidateInv
<1>2. new # r
  BY <1>1 DEF Holding, Kept, Effect
<1>3. UNCHANGED <<oper, held, swap, old, new, refresh, kept, disturbed>>  BY DEF Frame, refreshVars
<1>4. OthersFetched(new) => OthersFetched(new)'
  BY <1>3, FetchedStays DEF OthersFetched
<1>5. cand' = cand \/ OthersFetched(new)'
  BY <1>1, <1>2, <1>3, ChangerHasFetched DEF OthersFetched
<1>6. swap \in {"backup", "place"} =>
        cand' = new /\ \A s \in Run : phase'[s] \in {"arm", "end", "dead"}
  BY <1>1 DEF SwapInv, Frame, Effect, Token
<1>7. Undisturbed => Undisturbed'
  BY <1>3, <1>4, <1>5 DEF Undisturbed
<1> QED  BY <1>1, <1>3, <1>6, <1>7 DEF SwapInv, TakenAway

-----------------------------------------------------------------------------
(* The steps of the swap and of the refresh: no run moves.                 *)

LEMMA CredentialStepTypes ==
  ASSUME CredentialTypeOK, Promote \/ SwapStep \/ RefreshStep
  PROVE  CredentialTypeOK'
<1> USE DEF CredentialTypeOK, SwapPhase, RefreshPhase, File, Token, Rename, Refresh, refreshVars, swapVars
<1>1. CASE Promote  BY <1>1 DEF Promote, BeginSwap
<1>2. CASE MoveToBackup  BY <1>2 DEF MoveToBackup
<1>3. CASE PlaceCandidate  BY <1>3 DEF PlaceCandidate
<1>4. CASE VerifyPromotedAcl  BY <1>4 DEF VerifyPromotedAcl
<1>5. CASE UndoPlacement  BY <1>5 DEF UndoPlacement
<1>6. CASE RestoreBackup  BY <1>6 DEF RestoreBackup
<1>7. CASE DropBackup  BY <1>7 DEF DropBackup
<1>8. CASE SwapDies  BY <1>8 DEF SwapDies
<1>9. CASE CompareRefresh  BY <1>9 DEF CompareRefresh
<1>10. CASE ReplaceByRefresh  BY <1>10 DEF ReplaceByRefresh
<1>11. CASE VerifyRefresh  BY <1>11 DEF VerifyRefresh
<1>12. CASE SyncRefresh  BY <1>12 DEF SyncRefresh
<1>13. CASE DisplaceByRefresh  BY <1>13 DEF DisplaceByRefresh
<1>14. CASE RestoreByRefresh  BY <1>14 DEF RestoreByRefresh
<1> QED  BY <1>1, <1>2, <1>3, <1>4, <1>5, <1>6, <1>7, <1>8, <1>9, <1>10, <1>11, <1>12, <1>13, <1>14
            DEF SwapStep, RefreshStep

\* A promotion begins when no run is at work, so that the candidate it takes
\* is that of a run that will not take it back.
LEMMA PromoteKeeps ==
  ASSUME Inv, Promote, UNCHANGED <<listenerVars, sessionVars, runVars>>
  PROVE  CandidateInv' /\ SwapInv'
<1> USE DEF Inv, TypeOK, Promote, BeginSwap, runVars, sessionVars, refreshVars
<1>1. \A r \in Run : phase[r] \in {"arm", "end", "dead"}
  BY DEF Active, Phase, Before, During, After
<1>2. \A r \in Run : Holding(r) /\ Candidate(r) /\ Progress(r) /\ Session(r)
  BY DEF CandidateInv, RunInv
<1>3. \A r \in Run : cand = r => Kept(r)
  BY <1>1, <1>2 DEF Holding, MayHold, Kept, Progress, Before, Returned
<1>4. CandidateInv'
  BY <1>2, <1>3 DEF CandidateInv, Holding, Candidate, MayHold, Kept
<1>5. SwapInv'
  BY <1>1 DEF SwapInv, TakenAway, Undisturbed
<1> QED  BY <1>4, <1>5

\* Files only change places, and what a refresh writes is no run's.
LEMMA CandidatesStay ==
  ASSUME CandidateInv, UNCHANGED <<sessionVars, runVars>>,
         (swap' = swap /\ cand' = cand) \/ swap' # "idle",
         cand' \in {cand, oper, Absent}, oper' \in {oper, new, held, kept, Absent, Fresh},
         held' \in {held, oper, Absent}, kept' \in {kept, oper, Absent}, new' = new
  PROVE  CandidateInv'
<1> SUFFICES ASSUME NEW r \in Run  PROVE Holding(r)' /\ Candidate(r)'
  BY DEF CandidateInv
<1>1. Holding(r) /\ Candidate(r)  BY DEF CandidateInv
<1>2. (MayHold(r)' <=> MayHold(r)) /\ (Kept(r)' <=> Kept(r)) /\ (Kept(r) => MayHold(r))
  BY DEF MayHold, Kept, runVars, sessionVars
<1>3. Holding(r)'
  BY <1>1, <1>2 DEF Holding
<1>4. (Has(r)' <=> Has(r)) /\ (OthersFetched(r) => OthersFetched(r)')
  BY DEF Has, OthersFetched, runVars
<1> QED  BY <1>1, <1>3, <1>4 DEF Candidate

LEMMA SwapStepKeeps ==
  ASSUME Inv, SwapStep, UNCHANGED <<listenerVars, sessionVars, runVars>>
  PROVE  CandidateInv' /\ SwapInv'
<1>1. SwapInv /\ CandidateInv /\ CredentialTypeOK  BY DEF Inv, TypeOK
<1>2. OthersFetched(new) => OthersFetched(new)'
  BY DEF OthersFetched, SwapStep, MoveToBackup, PlaceCandidate, VerifyPromotedAcl, UndoPlacement,
         RestoreBackup, DropBackup, SwapDies, Rename, runVars
<1>3. UNCHANGED <<phase, fetched>>  BY DEF runVars
<1> USE <1>1, <1>2, <1>3 DEF SwapInv, TakenAway, Undisturbed, Rename, refreshVars, Token
<1>4. CASE MoveToBackup  BY <1>4, CandidatesStay DEF MoveToBackup
<1>5. CASE PlaceCandidate  BY <1>5, CandidatesStay DEF PlaceCandidate
<1>6. CASE VerifyPromotedAcl  BY <1>6, CandidatesStay DEF VerifyPromotedAcl
<1>7. CASE UndoPlacement  BY <1>7, CandidatesStay DEF UndoPlacement
<1>8. CASE RestoreBackup  BY <1>8, CandidatesStay DEF RestoreBackup
<1>9. CASE DropBackup  BY <1>9, CandidatesStay DEF DropBackup
<1>10. CASE SwapDies  BY <1>10, CandidatesStay DEF SwapDies
<1> QED  BY <1>4, <1>5, <1>6, <1>7, <1>8, <1>9, <1>10 DEF SwapStep

\* A refresh that moves the token file disturbs the swap under way, and what
\* it puts there is a token until it takes the file away.
LEMMA RefreshStepKeeps ==
  ASSUME Inv, RefreshStep, UNCHANGED <<listenerVars, sessionVars, runVars>>
  PROVE  CandidateInv' /\ SwapInv'
<1>1. SwapInv /\ CandidateInv  BY DEF Inv
<1>2. /\ UNCHANGED <<cand, held, swap, old, new>>
      /\ oper' \in {oper, kept, Absent, Fresh} /\ kept' \in {kept, oper, Absent}
      /\ disturbed' = (disturbed \/ (oper' # oper /\ swap # "idle"))
  BY DEF RefreshStep, Refresh, CompareRefresh, ReplaceByRefresh, VerifyRefresh, SyncRefresh,
         DisplaceByRefresh, RestoreByRefresh
<1>3. CandidateInv'  BY <1>1, <1>2, CandidatesStay
<1>4. /\ oper' = Absent => oper = Absent \/ TakenAway'
      /\ TakenAway => TakenAway' \/ oper' \in Token
  BY <1>1, Zenon DEF SwapInv, RefreshStep, Refresh, CompareRefresh, ReplaceByRefresh, VerifyRefresh,
         SyncRefresh, DisplaceByRefresh, RestoreByRefresh, TakenAway, Token
<1>5. ~disturbed' => Undisturbed'
  <2> SUFFICES ASSUME ~disturbed'  PROVE Undisturbed'
    OBVIOUS
  <2>1. Undisturbed /\ (oper' = oper \/ swap = "idle")  BY <1>1, <1>2 DEF SwapInv
  <2>2. OthersFetched(new) <=> OthersFetched(new)'  BY <1>2 DEF OthersFetched, runVars
  <2> QED  BY <1>2, <2>1, <2>2 DEF Undisturbed
<1> QED  BY <1>1, <1>2, <1>3, <1>4, <1>5 DEF SwapInv, runVars, Token

-----------------------------------------------------------------------------
(* The invariant.                                                          *)

LEMMA ListenerStepListens ==
  ASSUME NEW r \in Run, ListenerStep(r)
  PROVE  ListenerAction(r)
  BY DEF ListenerStep, ListenerAction, Receive, DirectReceive, Requests

\* A settled result is all that the rest of the state depends on.
LEMMA ListenerKeepsRest ==
  ASSUME Inv, Settled, UNCHANGED <<credentialVars, sessionVars, runVars>>
  PROVE  RunInv' /\ CandidateInv' /\ SwapInv'
<1>1. \A r \in Run : result[r] = "full" => result'[r] = "full"
  BY DEF Settled, Result, Accepted
<1> USE DEF Inv, credentialVars, swapVars, refreshVars, sessionVars, runVars
<1>2. RunInv'
  <2> SUFFICES ASSUME NEW r \in Run  PROVE Progress(r)' /\ Session(r)'
    BY DEF RunInv
  <2>1. Progress(r) /\ Session(r)  BY DEF RunInv
  <2> QED  BY <1>1, <2>1 DEF Progress, Session
<1>3. CandidateInv'
  BY DEF CandidateInv, Holding, Candidate, MayHold, Kept, Has, OthersFetched
<1>4. SwapInv'
  BY DEF SwapInv, TakenAway, Undisturbed, OthersFetched
<1> QED  BY <1>2, <1>3, <1>4

LEMMA Initially == Init => Inv
<1> SUFFICES ASSUME Init  PROVE Inv
  OBVIOUS
<1> USE DEF Init, ListenerInit, CredentialInit
<1>1. TypeOK
  BY DEF TypeOK, ListenerTypeOK, CredentialTypeOK, SwapPhase, File, Token, Phase, Before, During, After,
         RefreshPhase, Outcome, Result, Accepted
<1>2. ListenerInv
  BY <1>1 DEF TypeOK, ListenerInv, OwnCode, HandlerHasRequest, Result
<1>3. RunInv
  BY DEF RunInv, Progress, Session, Before, During, After
<1>4. CandidateInv
  BY DEF CandidateInv, Holding, Candidate, MayHold, Kept, Has
<1>5. SwapInv
  BY DEF SwapInv, Undisturbed, Token
<1> QED  BY <1>1, <1>2, <1>3, <1>4, <1>5 DEF Inv

LEMMA StepKeeps == Inv /\ [Next]_vars => Inv' /\ Settled
<1> SUFFICES ASSUME Inv, [Next]_vars  PROVE Inv' /\ Settled
  OBVIOUS
<1>0. ListenerInv /\ TypeOK  BY DEF Inv
<1>1. ASSUME NEW r \in Run, RunAction(r)  PROVE Inv' /\ Settled
  <2>1. ListenerInv' /\ Settled
    <3>1. CASE ListenerAction(r)  BY <1>0, <3>1, ListenerStepKeeps
    <3>2. CASE UNCHANGED listenerVars
      BY <1>0, <3>2 DEF listenerVars, ListenerInv, ListenerTypeOK, OwnCode, HandlerHasRequest, Settled
    <3> QED  BY <1>1, <3>1, <3>2, RunStepListens
  <2>2. TypeOK' /\ Frame(r)  BY <1>0, <1>1, <2>1, RunStepTypes
  <2>3. RunInv'  BY <1>1, <2>1, <2>2, RunStepRuns
  <2>4. Progress(r) /\ OwnCode  BY DEF Inv, RunInv, ListenerInv
  <2>5. Effect(r)  BY <1>0, <1>1, <2>4, RunStepEffect
  <2>6. CandidateInv' /\ SwapInv'  BY <2>2, <2>5, RunStepCandidates, RunStepSwap
  <2> QED  BY <2>1, <2>2, <2>3, <2>6 DEF Inv
<1>2. ASSUME NEW r \in Run, Alone(ListenerStep(r))  PROVE Inv' /\ Settled
  <2>1. ListenerStep(r) /\ UNCHANGED <<credentialVars, sessionVars, runVars>>  BY <1>2 DEF Alone
  <2>2. ListenerInv' /\ Settled  BY <1>0, <2>1, ListenerStepListens, ListenerStepKeeps
  <2>3. RunInv' /\ CandidateInv' /\ SwapInv'  BY <2>1, <2>2, ListenerKeepsRest
  <2>4. TypeOK'
    BY <1>0, <2>1, <2>2
       DEF TypeOK, ListenerInv, CredentialTypeOK, credentialVars, swapVars, refreshVars, sessionVars, runVars
  <2> QED  BY <2>2, <2>3, <2>4 DEF Inv
<1>3. CASE (Promote \/ SwapStep \/ RefreshStep) /\ UNCHANGED <<listenerVars, sessionVars, runVars>>
  <2>1. ListenerInv' /\ Settled
    BY <1>0, <1>3 DEF listenerVars, ListenerInv, ListenerTypeOK, OwnCode, HandlerHasRequest, Settled
  <2>2. TypeOK'
    <3>1. CredentialTypeOK'  BY <1>0, <1>3, CredentialStepTypes DEF TypeOK
    <3> QED  BY <1>0, <1>3, <2>1, <3>1 DEF TypeOK, ListenerInv, sessionVars, runVars
  <2>3. RunInv'
    BY <1>3 DEF Inv, RunInv, Progress, Session, listenerVars, sessionVars, runVars
  <2>4. CandidateInv' /\ SwapInv'
    BY <1>3, PromoteKeeps, SwapStepKeeps, RefreshStepKeeps
  <2> QED  BY <2>1, <2>2, <2>3, <2>4 DEF Inv
<1>4. CASE UNCHANGED vars
  <2>1. Settled /\ ListenerInv'
    BY <1>0, <1>4
       DEF vars, listenerVars, ListenerInv, ListenerTypeOK, OwnCode, HandlerHasRequest, Settled
  <2>2. RunInv' /\ CandidateInv' /\ SwapInv'  BY <1>4, <2>1, ListenerKeepsRest DEF vars
  <2>3. TypeOK'
    BY <1>0, <1>4, <2>1
       DEF vars, TypeOK, ListenerInv, CredentialTypeOK, credentialVars, swapVars, refreshVars, sessionVars,
           runVars
  <2> QED  BY <2>1, <2>2, <2>3 DEF Inv
<1> QED  BY <1>1, <1>2, <1>3, <1>4 DEF Next, RunAction

-----------------------------------------------------------------------------
(* The theorems.                                                           *)

\* Inv holds of every reachable state: the files, the listeners and the runs
\* are as the code may have left them.
THEOREM Invariant == Spec => []Inv
<1>1. Inv /\ [Next]_vars => Inv'  BY StepKeeps
<1> QED  BY Initially, <1>1, PTL DEF Spec

\* Every variable keeps its type, for any number of runs.
THEOREM TypeInvariant == Spec => []TypeOK
<1>1. Inv => TypeOK  BY DEF Inv
<1> QED  BY Invariant, <1>1, PTL

\* A run exchanges only the code of its own authorization, and only when all
\* scopes were granted (run_oauth_exchange, consume_callback_once).
THEOREM OwnCodeOnly == Spec => []ExchangesOwnCode
<1>1. Inv => ExchangesOwnCode  BY DEF Inv, RunInv, Progress, ExchangesOwnCode
<1> QED  BY Invariant, <1>1, PTL

\* A run that has returned has left no session, no URL and, if refused, no
\* candidate, but a file whose removal it tried and failed (the finally
\* clauses of run_oauth_exchange and run_guarded_oauth, clear, exchange).
THEOREM CleanReturn == Spec => []NothingLeftBehind
<1>1. ASSUME Inv  PROVE NothingLeftBehind
  <2> SUFFICES ASSUME NEW r \in Run, phase[r] = "end"
               PROVE  /\ pend = r => "pend" \in stuck[r]
                      /\ url = r => "url" \in stuck[r]
                      /\ outcome[r] = "refused" /\ cand = r => "cand" \in stuck[r]
    BY DEF NothingLeftBehind
  <2>1. Session(r) /\ Holding(r)  BY <1>1 DEF Inv, RunInv, CandidateInv
  <2>2. (pend = r => "pend" \in stuck[r]) /\ (url = r => "url" \in stuck[r])
    BY <2>1 DEF Session, During, After
  <2>3. outcome[r] = "refused" /\ MayHold(r) => "cand" \in stuck[r]  BY DEF MayHold, Returned
  <2> QED  BY <2>1, <2>2, <2>3 DEF Holding
<1> QED  BY Invariant, <1>1, PTL

\* An accepted run's credential stays the candidate until it is promoted or
\* another run that exchanged a code takes it away.
THEOREM AcceptedStays == Spec => []AcceptedIsCandidate
<1>1. Inv => AcceptedIsCandidate
  BY DEF Inv, CandidateInv, Candidate, Has, OthersFetched, AcceptedIsCandidate
<1> QED  BY Invariant, <1>1, PTL

\* A usable token is in the token file or in a backup, whatever the swap and
\* the refresh do between each other's calls, until a refresh takes the file
\* away with its own backup gone; and a swap that is not done, or has failed
\* and rolled back, has lost neither the old nor the new token, unless a
\* refresh has moved the token file since it began or another run has
\* exchanged a code (atomic_promote, rollback_refresh_promotion).
THEOREM SwapIsSafe == Spec => []SwapLosesNothing
<1>1. ASSUME Inv  PROVE SwapLosesNothing
  <2>1. SwapInv  BY <1>1 DEF Inv
  <2>2. TokenOnDisk \/ RolledBackBlind
    BY <2>1 DEF SwapInv, TokenOnDisk, RolledBackBlind, TakenAway
  <2>3. swap \in {"place", "verify", "undo", "restore", "failed"} =>
          disturbed \/ OthersFetched(new)
          \/ (old = (IF swap = "failed" THEN oper ELSE held) /\ new \in {oper, cand})
    BY <2>1 DEF SwapInv, Undisturbed
  <2> QED  BY <2>2, <2>3 DEF OthersFetched, SwapLosesNothing
<1> QED  BY Invariant, <1>1, PTL

\* The first result of a listener is final, whatever other callbacks, threads
\* and closings do (_finish).
THEOREM FirstResultFinal == Spec => OneDisposition
<1>1. Inv /\ [Next]_vars => [\A r \in Run : result[r] # Nothing =>
                                 result'[r] = result[r] /\ code'[r] = code[r]]_listenerVars
  BY StepKeeps DEF Settled
<1> QED  BY Invariant, <1>1, PTL DEF Spec, OneDisposition

=============================================================================
