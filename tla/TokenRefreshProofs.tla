------------------------- MODULE TokenRefreshProofs -------------------------
(***************************************************************************)
(* Proofs about TokenRefresh, for any set of attempts and any set of       *)
(* faults.                                                                 *)
(***************************************************************************)
EXTENDS TokenRefresh, TLAPS

(* Every variable keeps its type: the model's files, phases and outcomes   *)
(* are the ones declared.                                                  *)
THEOREM TypeInvariant == Spec => []TypeOK
<1>1. Init => TypeOK
  BY DEF Init, TypeOK, File, Content, Token, Phase, Critical, Outcome
<1>2. TypeOK /\ [Next]_vars => TypeOK'
  <2> SUFFICES ASSUME TypeOK, [Next]_vars PROVE TypeOK'
    OBVIOUS
  <2> USE DEF TypeOK, At, Goto, Raise, files, File, Content, Token, Phase,
              Critical, Outcome
  <2>1. ASSUME NEW p \in Attempt, LoadCredential(p)  PROVE TypeOK'
    BY <2>1 DEF LoadCredential
  <2>2. ASSUME NEW p \in Attempt, SnapshotOperational(p)  PROVE TypeOK'
    BY <2>2 DEF SnapshotOperational
  <2>3. ASSUME NEW p \in Attempt, RefreshInMemory(p)  PROVE TypeOK'
    BY <2>3 DEF RefreshInMemory
  <2>4. ASSUME NEW p \in Attempt, CheckCandidateAbsent(p)  PROVE TypeOK'
    BY <2>4 DEF CheckCandidateAbsent
  <2>5. ASSUME NEW p \in Attempt, ReadOriginal(p)  PROVE TypeOK'
    BY <2>5 DEF ReadOriginal
  <2>6. ASSUME NEW p \in Attempt, WriteCandidate(p)  PROVE TypeOK'
    BY <2>6 DEF WriteCandidate
  <2>7. ASSUME NEW p \in Attempt, DiscardCandidate(p)  PROVE TypeOK'
    BY <2>7 DEF DiscardCandidate
  <2>8. ASSUME NEW p \in Attempt, FlushCandidate(p)  PROVE TypeOK'
    BY <2>8 DEF FlushCandidate
  <2>9. ASSUME NEW p \in Attempt, RecheckOriginal(p)  PROVE TypeOK'
    BY <2>9 DEF RecheckOriginal
  <2>10. ASSUME NEW p \in Attempt, ValidateCandidate(p)  PROVE TypeOK'
    BY <2>10 DEF ValidateCandidate, Acceptable
  <2>11. ASSUME NEW p \in Attempt, ValidateOperational(p)  PROVE TypeOK'
    BY <2>11 DEF ValidateOperational, NewBackupPath
  <2>12. ASSUME NEW p \in Attempt, EnterLock(p)  PROVE TypeOK'
    BY <2>12 DEF EnterLock
  <2>13. ASSUME NEW p \in Attempt, CompareOriginal(p)  PROVE TypeOK'
    BY <2>13 DEF CompareOriginal
  <2>14. ASSUME NEW p \in Attempt, WriteBackup(p)  PROVE TypeOK'
    BY <2>14 DEF WriteBackup
  <2>15. ASSUME NEW p \in Attempt, ReplaceOperational(p)  PROVE TypeOK'
    BY <2>15 DEF ReplaceOperational
  <2>16. ASSUME NEW p \in Attempt, VerifyPromoted(p)  PROVE TypeOK'
    BY <2>16 DEF VerifyPromoted
  <2>17. ASSUME NEW p \in Attempt, UnlinkBackup(p)  PROVE TypeOK'
    BY <2>17 DEF UnlinkBackup
  <2>18. ASSUME NEW p \in Attempt, FlushPromoted(p)  PROVE TypeOK'
    BY <2>18 DEF FlushPromoted
  <2>19. ASSUME NEW p \in Attempt, RollbackDisplace(p)  PROVE TypeOK'
    BY <2>19 DEF RollbackDisplace
  <2>20. ASSUME NEW p \in Attempt, RollbackRestore(p)  PROVE TypeOK'
    BY <2>20 DEF RollbackRestore
  <2>21. ASSUME NEW p \in Attempt, ExitLock(p)  PROVE TypeOK'
    BY <2>21 DEF ExitLock
  <2>22. ASSUME NEW p \in Attempt, CleanupCandidate(p)  PROVE TypeOK'
    BY <2>22 DEF CleanupCandidate
  <2>23. ASSUME NEW p \in Attempt, Crash(p)  PROVE TypeOK'
    BY <2>23 DEF Crash
  <2>24. CASE UNCHANGED vars
    BY <2>24 DEF vars
  <2>25. QED
    BY <2>1, <2>2, <2>3, <2>4, <2>5, <2>6, <2>7, <2>8, <2>9, <2>10, <2>11, <2>12,
       <2>13, <2>14, <2>15, <2>16, <2>17, <2>18, <2>19, <2>20, <2>21, <2>22,
       <2>23, <2>24 DEF Next, Step
<1>3. QED
  BY <1>1, <1>2, PTL DEF Spec

-----------------------------------------------------------------------------
(* The inductive invariant.                                                *)

Promoting == {"backup", "replace", "verify", "drop", "sync", "displace", "restore"}

\* An attempt that has got past ReadOriginal started from a real token.
OriginalIsToken ==
  \A p \in Attempt :
    pc[p] \in {"write", "flush", "recheck", "vcand", "voper", "lock", "compare"}
                \cup Promoting
      => original[p] \in Token

\* There is no backup before it is written, unless the process died at it, and
\* it is exact from its writing to its removal.  It is missing during a
\* rollback only when the last flush was what failed.
BackupHeld ==
  \A p \in Attempt :
    /\ alive[p] /\ pc[p] \in {"load", "snapshot", "refresh", "probe", "read", "write", "flush",
                             "recheck", "vcand", "voper", "lock", "compare", "backup"}
         => backup[p] = Absent
    /\ pc[p] \in {"replace", "verify", "drop"} => backup[p] = original[p]
    /\ pc[p] = "sync" => backup[p] = Absent
    /\ pc[p] \in {"displace", "restore"}
         => backup[p] = original[p] \/ (backup[p] = Absent /\ "final" \in Faults)

\* After the hash check the operational file holds the attempt's own token.
PromotedOwn ==
  \A p \in Attempt : pc[p] \in {"drop", "sync"} => oper = p

\* An outcome is decided once, when the unwinding begins.
OutcomeDecided ==
  \A p \in Attempt : pc[p] \notin {"discard", "unlock", "cleanup", "end"} => outcome[p] = "running"

Trusted(v) == v = Boot \/ (v \in Attempt /\ outcome[v] = "persisted")

NoRollbackFailed == \A p \in Attempt : outcome[p] # "rollback_failed"

\* The operational token is trusted unless an attempt is between its swap
\* and its report, and that attempt started from a trusted token.
TrustedOrUndoable ==
  NoRollbackFailed =>
    /\ \A p \in Attempt : pc[p] \in Promoting => Trusted(original[p])
    /\ \/ Trusted(oper)
       \/ \E p \in Attempt : pc[p] \in {"verify", "drop", "sync", "displace", "restore"}

Inv ==
  /\ TypeOK /\ PromotionExclusive /\ SnapshotStillCurrent
  /\ OriginalIsToken /\ BackupHeld /\ PromotedOwn
  /\ OutcomeDecided /\ TrustedOrUndoable

LEMMA InvInductive == Spec => []Inv
<1>1. Init => Inv
  BY DistinctAssumption DEF Init, Inv, TypeOK, File, Content, Token, Phase,
     Critical, Outcome, PromotionExclusive, SnapshotStillCurrent,
     OriginalIsToken, BackupHeld, PromotedOwn, OutcomeDecided, Promoting,
     TrustedOrUndoable, Trusted, NoRollbackFailed
<1>2. Inv /\ TypeOK' /\ [Next]_vars => Inv'
  <2> SUFFICES ASSUME Inv, TypeOK', [Next]_vars PROVE Inv'
    OBVIOUS
  <2> USE DistinctAssumption DEF Inv, At, Goto, Raise, files, Token, Critical,
              Promoting, TypeOK, Outcome, PromotionExclusive,
              SnapshotStillCurrent, OriginalIsToken, BackupHeld, PromotedOwn,
              OutcomeDecided, TrustedOrUndoable, Trusted, NoRollbackFailed
  <2>1. ASSUME NEW p \in Attempt, LoadCredential(p)  PROVE Inv'
    BY <2>1 DEF LoadCredential
  <2>2. ASSUME NEW p \in Attempt, SnapshotOperational(p)  PROVE Inv'
    BY <2>2 DEF SnapshotOperational
  <2>3. ASSUME NEW p \in Attempt, RefreshInMemory(p)  PROVE Inv'
    BY <2>3 DEF RefreshInMemory
  <2>4. ASSUME NEW p \in Attempt, CheckCandidateAbsent(p)  PROVE Inv'
    BY <2>4 DEF CheckCandidateAbsent
  <2>5. ASSUME NEW p \in Attempt, ReadOriginal(p)  PROVE Inv'
    BY <2>5 DEF ReadOriginal
  <2>6. ASSUME NEW p \in Attempt, WriteCandidate(p)  PROVE Inv'
    BY <2>6 DEF WriteCandidate
  <2>7. ASSUME NEW p \in Attempt, DiscardCandidate(p)  PROVE Inv'
    BY <2>7 DEF DiscardCandidate
  <2>8. ASSUME NEW p \in Attempt, FlushCandidate(p)  PROVE Inv'
    BY <2>8 DEF FlushCandidate
  <2>9. ASSUME NEW p \in Attempt, RecheckOriginal(p)  PROVE Inv'
    BY <2>9 DEF RecheckOriginal
  <2>10. ASSUME NEW p \in Attempt, ValidateCandidate(p)  PROVE Inv'
    BY <2>10 DEF ValidateCandidate, Acceptable
  <2>11. ASSUME NEW p \in Attempt, ValidateOperational(p)  PROVE Inv'
    BY <2>11 DEF ValidateOperational, NewBackupPath
  <2>12. ASSUME NEW p \in Attempt, EnterLock(p)  PROVE Inv'
    BY <2>12 DEF EnterLock
  <2>13. ASSUME NEW p \in Attempt, CompareOriginal(p)  PROVE Inv'
    BY <2>13 DEF CompareOriginal
  <2>14. ASSUME NEW p \in Attempt, WriteBackup(p)  PROVE Inv'
    BY <2>14 DEF WriteBackup
  <2>15. ASSUME NEW p \in Attempt, ReplaceOperational(p)  PROVE Inv'
    BY <2>15 DEF ReplaceOperational
  <2>16. ASSUME NEW p \in Attempt, VerifyPromoted(p)  PROVE Inv'
    BY <2>16 DEF VerifyPromoted
  <2>17. ASSUME NEW p \in Attempt, UnlinkBackup(p)  PROVE Inv'
    BY <2>17 DEF UnlinkBackup
  <2>18. ASSUME NEW p \in Attempt, FlushPromoted(p)  PROVE Inv'
    BY <2>18 DEF FlushPromoted
  <2>19. ASSUME NEW p \in Attempt, RollbackDisplace(p)  PROVE Inv'
    BY <2>19 DEF RollbackDisplace
  <2>20. ASSUME NEW p \in Attempt, RollbackRestore(p)  PROVE Inv'
    BY <2>20 DEF RollbackRestore
  <2>21. ASSUME NEW p \in Attempt, ExitLock(p)  PROVE Inv'
    BY <2>21 DEF ExitLock
  <2>22. ASSUME NEW p \in Attempt, CleanupCandidate(p)  PROVE Inv'
    BY <2>22 DEF CleanupCandidate
  <2>23. ASSUME NEW p \in Attempt, Crash(p)  PROVE Inv'
    BY <2>23 DEF Crash
  <2>24. CASE UNCHANGED vars
    BY <2>24 DEF vars
  <2>25. QED
    BY <2>1, <2>2, <2>3, <2>4, <2>5, <2>6, <2>7, <2>8, <2>9, <2>10, <2>11, <2>12,
       <2>13, <2>14, <2>15, <2>16, <2>17, <2>18, <2>19, <2>20, <2>21, <2>22,
       <2>23, <2>24 DEF Next, Step
<1>3. QED
  BY <1>1, <1>2, TypeInvariant, PTL DEF Spec

-----------------------------------------------------------------------------
(* What follows from it.                                                   *)

(* No two attempts are ever inside the promotion together.                 *)
THEOREM PromotionMutualExclusion == Spec => []PromotionExclusive
BY InvInductive, PTL DEF Inv

(* The swap never overwrites a token its attempt has not read.             *)
THEOREM NoLostUpdate == Spec => []SnapshotStillCurrent
BY InvInductive, PTL DEF Inv

(* With the lock free and every rollback successful, the operational file  *)
(* holds the first token or one whose attempt reported success.            *)
THEOREM UnlockedTokenIsTrusted == Spec => []UnlockedTokenTrusted
<1>1. Inv => UnlockedTokenTrusted
  <2> SUFFICES ASSUME Inv, lock = Absent, NoRollbackFailed
               PROVE  Trusted(oper)
    BY DEF UnlockedTokenTrusted, Trusted, NoRollbackFailed
  <2>1. \A p \in Attempt : pc[p] \notin Critical
    BY DistinctAssumption DEF Inv, PromotionExclusive
  <2> QED
    BY <2>1 DEF Inv, TrustedOrUndoable, Critical
<1> QED
  BY <1>1, InvInductive, PTL

(* Only the live owner of the lock changes the operational token: from its *)
(* snapshot, or back to it.                                                *)
THEOREM OperationalCompareAndSwap == Spec => CompareAndSwap
<1> DEFINE Swap == oper' # oper =>
                     \E p \in Attempt :
                       /\ alive[p] /\ lock = p
                       /\ oper = original[p] \/ oper' \in {original[p], Absent}
<1>1. Inv /\ [Next]_vars => [Swap]_vars
  <2> SUFFICES ASSUME Inv, Next, oper' # oper PROVE Swap
    BY DEF vars
  <2> PICK p \in Attempt : Step(p) \/ Crash(p)
    BY DEF Next
  \* Three actions write the operational file.
  <2>1. ReplaceOperational(p) \/ RollbackDisplace(p) \/ RollbackRestore(p)
    BY DEF Step, files, Crash, LoadCredential, SnapshotOperational,
       RefreshInMemory, CheckCandidateAbsent, ReadOriginal, WriteCandidate, DiscardCandidate,
       FlushCandidate, RecheckOriginal, ValidateCandidate, Acceptable, ValidateOperational,
       NewBackupPath, EnterLock, CompareOriginal, WriteBackup, VerifyPromoted, UnlinkBackup,
       FlushPromoted, ExitLock, CleanupCandidate
  <2>2. alive[p] /\ lock = p
    BY <2>1 DEF ReplaceOperational, RollbackDisplace, RollbackRestore, At,
       Inv, PromotionExclusive, Critical
  <2>3. oper = original[p] \/ oper' \in {original[p], Absent}
    BY <2>1 DEF ReplaceOperational, RollbackDisplace, RollbackRestore, At,
       Inv, SnapshotStillCurrent, BackupHeld
  <2> QED
    BY <2>2, <2>3
<1> QED
  BY <1>1, InvInductive, PTL DEF Spec, CompareAndSwap

(* As long as the flush after the removal of the backup succeeds, a usable *)
(* token survives every other failure and every crash.                     *)
THEOREM TokenAlwaysRecoverable ==
  ASSUME "final" \notin Faults
  PROVE  Spec => []TokenRecoverable
<1>1. Init => TokenRecoverable
  BY DEF Init, TokenRecoverable, Token
<1>2. TokenRecoverable /\ Inv /\ [Next]_vars => TokenRecoverable'
  <2> SUFFICES ASSUME TokenRecoverable, Inv, [Next]_vars PROVE TokenRecoverable'
    OBVIOUS
  <2> USE DEF TokenRecoverable, At, files, Inv, TypeOK
  <2>1. ASSUME NEW p \in Attempt, WriteBackup(p)  PROVE TokenRecoverable'
    BY <2>1 DEF WriteBackup, SnapshotStillCurrent, OriginalIsToken, Promoting
  <2>2. ASSUME NEW p \in Attempt, ReplaceOperational(p)  PROVE TokenRecoverable'
    BY <2>2 DEF ReplaceOperational, SnapshotStillCurrent, BackupHeld, OriginalIsToken, Promoting
  <2>3. ASSUME NEW p \in Attempt, UnlinkBackup(p)  PROVE TokenRecoverable'
    BY <2>3 DEF UnlinkBackup, PromotedOwn, Token
  <2>4. ASSUME NEW p \in Attempt, RollbackDisplace(p)  PROVE TokenRecoverable'
    BY <2>4 DEF RollbackDisplace, BackupHeld, OriginalIsToken, Promoting
  <2>5. ASSUME NEW p \in Attempt, RollbackRestore(p)  PROVE TokenRecoverable'
    BY <2>5 DEF RollbackRestore, BackupHeld, OriginalIsToken, Promoting
  <2>6. ASSUME NEW p \in Attempt, Crash(p)  PROVE TokenRecoverable'
    BY <2>6, DistinctAssumption DEF Crash, BackupHeld, Token
  <2>7. ASSUME NEW p \in Attempt, ValidateOperational(p)  PROVE TokenRecoverable'
    BY <2>7, DistinctAssumption DEF ValidateOperational, NewBackupPath, BackupHeld, Token
  \* Nothing else touches the operational file or a backup.
  <2>8. CASE UNCHANGED <<oper, backup>>
    BY <2>8
  <2>9. QED
    BY <2>1, <2>2, <2>3, <2>4, <2>5, <2>6, <2>7, <2>8 DEF Next, Step, vars,
       LoadCredential, SnapshotOperational, RefreshInMemory,
       CheckCandidateAbsent, ReadOriginal, WriteCandidate, DiscardCandidate,
       FlushCandidate, RecheckOriginal, ValidateCandidate, Acceptable,
       EnterLock, CompareOriginal, VerifyPromoted, FlushPromoted, ExitLock,
       CleanupCandidate
<1> QED
  BY <1>1, <1>2, InvInductive, PTL DEF Spec



-----------------------------------------------------------------------------
(* The refinement: the register, seen through the mapping, makes the step  *)
(* of the attempt that acts, or none.                                      *)

\* What an attempt's own steps leave alone.
Frame(p) ==
  \A q \in Attempt \ {p} :
    pc'[q] = pc[q] /\ outcome'[q] = outcome[q] /\ backup'[q] = backup[q]

LEMMA StepFrame ==
  ASSUME TypeOK, NEW p \in Attempt, Step(p) \/ Crash(p)
  PROVE  Frame(p)
BY DEF Frame, TypeOK, Step, At, Goto, Raise, files, Crash,
       LoadCredential, SnapshotOperational, RefreshInMemory,
       CheckCandidateAbsent, ReadOriginal, WriteCandidate, DiscardCandidate, FlushCandidate,
       RecheckOriginal, ValidateCandidate, Acceptable, ValidateOperational, NewBackupPath, EnterLock,
       CompareOriginal, WriteBackup, ReplaceOperational, VerifyPromoted,
       UnlinkBackup, FlushPromoted, RollbackDisplace, RollbackRestore,
       ExitLock, CleanupCandidate

LEMMA StatusFrame ==
  ASSUME NEW p \in Attempt, Frame(p)
  PROVE  RegisterStatus' = [RegisterStatus EXCEPT ![p] = StatusOf(p)']
<1>1. \A q \in Attempt \ {p} : StatusOf(q)' = StatusOf(q)
  BY DEF Frame, StatusOf, Undoable
<1> QED
  BY <1>1 DEF RegisterStatus

LEMMA StatusUnchanged ==
  ASSUME NEW p \in Attempt, Frame(p), StatusOf(p)' = StatusOf(p)
  PROVE  RegisterStatus' = RegisterStatus /\ RegisterStatus[p] = StatusOf(p)
<1>1. RegisterStatus' = [RegisterStatus EXCEPT ![p] = StatusOf(p)']
  BY StatusFrame
<1> QED
  BY <1>1 DEF RegisterStatus

\* The attempt takes no visible step, or returns.
LEMMA QuietStep ==
  ASSUME NEW p \in Attempt, Frame(p), UNCHANGED original,
         RegisterToken' = RegisterToken,
         \/ StatusOf(p)' = StatusOf(p)
         \/ StatusOf(p) = "running" /\ StatusOf(p)' \in {"current", "refused"}
         \/ StatusOf(p) = "installed" /\ StatusOf(p)' = "persisted"
  PROVE  [Register!RegisterNext]_(Register!registerVars)
<1>1. RegisterStatus' = [RegisterStatus EXCEPT ![p] = StatusOf(p)']
  BY StatusFrame
<1>2. RegisterStatus[p] = StatusOf(p)
  BY DEF RegisterStatus
<1>3. CASE StatusOf(p)' = StatusOf(p)
  <2>1. RegisterStatus' = RegisterStatus
    BY <1>3, StatusUnchanged
  <2> QED
    BY <2>1 DEF Register!registerVars
<1>4. CASE StatusOf(p)' # StatusOf(p)
  <2>1. Register!Return(p)
    BY <1>1, <1>2, <1>4 DEF Register!Return
  <2> QED
    BY <2>1 DEF Register!RegisterNext
<1> QED
  BY <1>3, <1>4

\* The attempt reports that its rollback failed.
LEMMA FailedRollbackStep ==
  ASSUME NEW p \in Attempt, Frame(p), UNCHANGED original,
         RegisterToken' \in File,
         StatusOf(p) \in {"running", "installed"},
         StatusOf(p)' = "rollback_failed"
  PROVE  [Register!RegisterNext]_(Register!registerVars)
<1>1. RegisterStatus' = [RegisterStatus EXCEPT ![p] = "rollback_failed"]
  BY StatusFrame
<1>2. RegisterStatus[p] = StatusOf(p)
  BY DEF RegisterStatus
<1>3. Register!FailRollback(p)
  BY <1>1, <1>2 DEF Register!FailRollback
<1> QED
  BY <1>3 DEF Register!RegisterNext

(* The files implement the register: every step of an attempt, seen        *)
(* through the mapping, is a step of the register or a stutter.            *)
THEOREM RefreshImplementsRegister == Spec => ImplementsRegister
<1>1. Init => Register!RegisterInit
  BY DEF Init, Register!RegisterInit, RegisterToken, RegisterStatus, StatusOf,
     Undoable, File
<1>2. Inv /\ TypeOK' /\ [Next]_vars => [Register!RegisterNext]_(Register!registerVars)
  <2> SUFFICES ASSUME Inv, TypeOK', Next
               PROVE  [Register!RegisterNext]_(Register!registerVars)
    BY DEF vars, Register!registerVars, RegisterToken, RegisterStatus, StatusOf, Undoable
  <2> PICK p \in Attempt : Step(p) \/ Crash(p)
    BY DEF Next
  <2>0. Frame(p) /\ TypeOK
    BY StepFrame DEF Inv
  <2> USE DistinctAssumption DEF RegisterToken, StatusOf, Undoable, At, Goto, Raise,
          files, Inv, TypeOK, PromotionExclusive, Critical, OutcomeDecided, Frame
  <2> DEFINE Quiet == /\ UNCHANGED original /\ RegisterToken' = RegisterToken
                      /\ \/ StatusOf(p)' = StatusOf(p)
                         \/ StatusOf(p) = "running" /\ StatusOf(p)' \in {"current", "refused"}
                         \/ StatusOf(p) = "installed" /\ StatusOf(p)' = "persisted"
  <2>1. ASSUME LoadCredential(p) PROVE Quiet
    BY <2>1 DEF LoadCredential
  <2>2. ASSUME RefreshInMemory(p) PROVE Quiet
    BY <2>2 DEF RefreshInMemory
  <2>3. ASSUME CheckCandidateAbsent(p) PROVE Quiet
    BY <2>3 DEF CheckCandidateAbsent
  <2>4. ASSUME ReadOriginal(p) PROVE Quiet
    BY <2>4 DEF ReadOriginal
  <2>5. ASSUME WriteCandidate(p) PROVE Quiet
    BY <2>5 DEF WriteCandidate
  <2>6. ASSUME DiscardCandidate(p) PROVE Quiet
    BY <2>6 DEF DiscardCandidate
  <2>7. ASSUME FlushCandidate(p) PROVE Quiet
    BY <2>7 DEF FlushCandidate
  <2>8. ASSUME RecheckOriginal(p) PROVE Quiet
    BY <2>8 DEF RecheckOriginal
  <2>9. ASSUME ValidateCandidate(p) PROVE Quiet
    BY <2>9 DEF ValidateCandidate, Acceptable
  <2>10. ASSUME ValidateOperational(p) PROVE Quiet
    BY <2>10 DEF ValidateOperational, NewBackupPath
  <2>11. ASSUME EnterLock(p) PROVE Quiet
    BY <2>11 DEF EnterLock
  <2>12. ASSUME CompareOriginal(p) PROVE Quiet
    BY <2>12 DEF CompareOriginal
  <2>13. ASSUME WriteBackup(p) PROVE Quiet
    BY <2>13 DEF WriteBackup
  <2>14. ASSUME ReplaceOperational(p) PROVE Quiet
    BY <2>14 DEF ReplaceOperational, SnapshotStillCurrent, BackupHeld, OriginalIsToken,
       Promoting, Token
  <2>15. ASSUME VerifyPromoted(p) PROVE Quiet
    BY <2>15 DEF VerifyPromoted, BackupHeld, OriginalIsToken, Promoting, Token
  <2>16. ASSUME FlushPromoted(p) PROVE Quiet
    BY <2>16 DEF FlushPromoted, BackupHeld
  <2>17. ASSUME ExitLock(p) PROVE Quiet
    BY <2>17 DEF ExitLock
  <2>18. ASSUME CleanupCandidate(p) PROVE Quiet
    BY <2>18 DEF CleanupCandidate
  <2>19. ASSUME Crash(p) PROVE Quiet
    BY <2>19 DEF Crash
  <2>20. CASE SnapshotOperational(p)
    <3>1. RegisterToken' = RegisterToken /\ StatusOf(p) = "running"
      BY <2>20 DEF SnapshotOperational
    <3>2. CASE Raise(p, "end", "refused") /\ UNCHANGED original
      <4>1. UNCHANGED original /\ StatusOf(p)' = "refused"
        BY <2>20, <3>2 DEF SnapshotOperational
      <4> QED
        BY <3>1, <4>1, <2>0, QuietStep
    <3>3. CASE Goto(p, "refresh") /\ original' = [original EXCEPT ![p] = oper]
      <4>1. original' = [original EXCEPT ![p] = oper] /\ StatusOf(p)' = "running"
        BY <2>20, <3>3 DEF SnapshotOperational
      <4>2. StatusOf(p)' = StatusOf(p)
        BY <3>1, <4>1
      <4>3. RegisterStatus' = RegisterStatus /\ RegisterStatus[p] = "running"
        BY <4>2, <3>1, <2>0, StatusUnchanged
      <4>4. Register!Read(p)
        BY <3>1, <4>1, <4>3 DEF Register!Read
      <4> QED
        BY <4>4 DEF Register!RegisterNext
    <3> QED
      BY <2>20, <3>2, <3>3 DEF SnapshotOperational
  \* The point of no return.
  <2>21. CASE UnlinkBackup(p)
    <3>1. RegisterToken = original[p] /\ StatusOf(p) = "running" /\ UNCHANGED original
      BY <2>21 DEF UnlinkBackup, BackupHeld, OriginalIsToken, Promoting, Token
    <3>2. CASE backup' = [backup EXCEPT ![p] = Absent] /\ Goto(p, "sync")
      <4>1. RegisterToken' = p /\ StatusOf(p)' = "installed"
        BY <2>21, <3>2 DEF UnlinkBackup, PromotedOwn
      <4>2. RegisterStatus' = [RegisterStatus EXCEPT ![p] = StatusOf(p)']
        BY <2>0, StatusFrame
      <4>3. RegisterStatus[p] = "running"
        BY <3>1 DEF RegisterStatus
      <4>4. Register!Install(p)
        BY <3>1, <4>1, <4>2, <4>3 DEF Register!Install
      <4> QED
        BY <4>4 DEF Register!RegisterNext
    <3>3. CASE Goto(p, "displace") /\ UNCHANGED backup
      <4>1. RegisterToken' = RegisterToken /\ StatusOf(p)' = StatusOf(p)
        BY <2>21, <3>1, <3>3 DEF UnlinkBackup, BackupHeld, OriginalIsToken, Promoting, Token
      <4> QED
        BY <3>1, <4>1, <2>0, QuietStep
    <3> QED
      BY <2>21, <3>2, <3>3 DEF UnlinkBackup
  <2>22. CASE RollbackDisplace(p)
    <3>1. UNCHANGED original /\ RegisterToken' \in File
      BY <2>22 DEF RollbackDisplace
    <3>2. \/ RegisterToken' = RegisterToken
             /\ \/ StatusOf(p)' = StatusOf(p)
                \/ StatusOf(p) = "running" /\ StatusOf(p)' = "refused"
          \/ StatusOf(p) \in {"running", "installed"} /\ StatusOf(p)' = "rollback_failed"
      BY <2>22 DEF RollbackDisplace, BackupHeld
    <3> QED
      BY <3>1, <3>2, <2>0, QuietStep, FailedRollbackStep
  <2>23. CASE RollbackRestore(p)
    <3>1. UNCHANGED original /\ RegisterToken' \in File
      BY <2>23 DEF RollbackRestore
    <3>2. \/ RegisterToken' = RegisterToken
             /\ \/ StatusOf(p)' = StatusOf(p)
                \/ StatusOf(p) = "running" /\ StatusOf(p)' = "refused"
          \/ StatusOf(p) \in {"running", "installed"} /\ StatusOf(p)' = "rollback_failed"
      BY <2>23 DEF RollbackRestore, BackupHeld
    <3> QED
      BY <3>1, <3>2, <2>0, QuietStep, FailedRollbackStep
  <2>24. CASE Quiet
    BY <2>0, <2>24, QuietStep
  <2> QED
    BY <2>1, <2>2, <2>3, <2>4, <2>5, <2>6, <2>7, <2>8, <2>9, <2>10, <2>11, <2>12,
       <2>13, <2>14, <2>15, <2>16, <2>17, <2>18, <2>19, <2>20, <2>21, <2>22, <2>23, <2>24 DEF Step
<1> QED
  BY <1>1, <1>2, InvInductive, TypeInvariant, PTL
     DEF Spec, ImplementsRegister, Register!RegisterSpec

-----------------------------------------------------------------------------
(* Nothing is left behind.                                                 *)

\* The phases of an attempt that still unlinks the candidate.
Sweeping == {"discard", "flush", "recheck", "vcand", "voper", "lock", "cleanup"} \cup Critical

\* Whoever owns the lock file, has a backup or keeps others from its candidate
\* is still to remove it, unless it is the candidate of an attempt that could
\* not read the operational file again.
Owned ==
  /\ lock # Absent => pc[lock] \in Critical
  /\ \A p \in Attempt :
       backup[p] # Absent => \/ pc[p] \in {"replace", "verify", "drop", "displace", "restore"}
                             \/ outcome[p] = "rollback_failed"
  /\ cand # Absent => SomeUnread \/ \E p \in Attempt : pc[p] \in Sweeping

LEMMA OwnedStep ==
  ASSUME Faults \cap {"crash", "unlink", "flush", "readback"} = {}, Inv, Owned, [Next]_vars
  PROVE  Owned'
<1> USE DistinctAssumption DEF At, Goto, Raise, files, Inv, TypeOK, Token, File, Content, Owned,
        SomeUnread, Sweeping, Critical, PromotionExclusive, OriginalIsToken, Promoting, BackupHeld,
        OutcomeDecided
<1>1. ASSUME NEW p \in Attempt, LoadCredential(p)  PROVE Owned'
  BY <1>1 DEF LoadCredential
<1>2. ASSUME NEW p \in Attempt, SnapshotOperational(p)  PROVE Owned'
  BY <1>2 DEF SnapshotOperational
<1>3. ASSUME NEW p \in Attempt, RefreshInMemory(p)  PROVE Owned'
  BY <1>3 DEF RefreshInMemory
<1>4. ASSUME NEW p \in Attempt, CheckCandidateAbsent(p)  PROVE Owned'
  BY <1>4 DEF CheckCandidateAbsent
<1>5. ASSUME NEW p \in Attempt, ReadOriginal(p)  PROVE Owned'
  BY <1>5 DEF ReadOriginal
<1>6. ASSUME NEW p \in Attempt, WriteCandidate(p)  PROVE Owned'
  BY <1>6 DEF WriteCandidate
<1>7. ASSUME NEW p \in Attempt, DiscardCandidate(p)  PROVE Owned'
  BY <1>7 DEF DiscardCandidate
<1>8. ASSUME NEW p \in Attempt, FlushCandidate(p)  PROVE Owned'
  BY <1>8 DEF FlushCandidate
<1>9. ASSUME NEW p \in Attempt, RecheckOriginal(p)  PROVE Owned'
  BY <1>9 DEF RecheckOriginal
<1>10. ASSUME NEW p \in Attempt, ValidateCandidate(p)  PROVE Owned'
  BY <1>10 DEF ValidateCandidate, Acceptable
<1>11. ASSUME NEW p \in Attempt, ValidateOperational(p)  PROVE Owned'
  BY <1>11 DEF ValidateOperational, NewBackupPath
<1>12. ASSUME NEW p \in Attempt, EnterLock(p)  PROVE Owned'
  BY <1>12 DEF EnterLock
<1>13. ASSUME NEW p \in Attempt, CompareOriginal(p)  PROVE Owned'
  BY <1>13 DEF CompareOriginal
<1>14. ASSUME NEW p \in Attempt, WriteBackup(p)  PROVE Owned'
  BY <1>14 DEF WriteBackup
<1>15. ASSUME NEW p \in Attempt, ReplaceOperational(p)  PROVE Owned'
  BY <1>15 DEF ReplaceOperational
<1>16. ASSUME NEW p \in Attempt, VerifyPromoted(p)  PROVE Owned'
  BY <1>16 DEF VerifyPromoted
<1>17. ASSUME NEW p \in Attempt, UnlinkBackup(p)  PROVE Owned'
  BY <1>17 DEF UnlinkBackup
<1>18. ASSUME NEW p \in Attempt, FlushPromoted(p)  PROVE Owned'
  BY <1>18 DEF FlushPromoted
<1>19. ASSUME NEW p \in Attempt, RollbackDisplace(p)  PROVE Owned'
  BY <1>19 DEF RollbackDisplace
<1>20. ASSUME NEW p \in Attempt, RollbackRestore(p)  PROVE Owned'
  BY <1>20 DEF RollbackRestore
<1>21. ASSUME NEW p \in Attempt, ExitLock(p)  PROVE Owned'
  BY <1>21 DEF ExitLock
<1>22. ASSUME NEW p \in Attempt, CleanupCandidate(p)  PROVE Owned'
  BY <1>22 DEF CleanupCandidate
<1>23. ASSUME NEW p \in Attempt, Crash(p)  PROVE Owned'
  BY <1>23 DEF Crash
<1>24. CASE UNCHANGED vars
  BY <1>24 DEF vars
<1> QED
  BY <1>1, <1>2, <1>3, <1>4, <1>5, <1>6, <1>7, <1>8, <1>9, <1>10, <1>11, <1>12, <1>13,
     <1>14, <1>15, <1>16, <1>17, <1>18, <1>19, <1>20, <1>21, <1>22, <1>23, <1>24 DEF Next, Step

(* Failing reads, ACL checks, replaces and backups included, an attempt    *)
(* removes the lock and the backup it leaves behind, and some attempt      *)
(* removes the candidate: once all have returned, none is left, unless a   *)
(* rollback has failed, and the candidate unless an attempt has left       *)
(* through the second read of prepare_refresh_candidate, which no handler  *)
(* covers (_RefreshLock.__exit__, _cleanup, the finally clause of          *)
(* refresh_and_persist_credential).  Unlinks, flushes and the reading back *)
(* of a backup must succeed, and no process may die.                       *)
THEOREM AttemptsCleanUp ==
  ASSUME Faults \cap {"crash", "unlink", "flush", "readback"} = {}
  PROVE  Spec => []DirectoryClean
<1>1. Init => Owned
  BY DistinctAssumption DEF Init, Owned
<1>2. Inv /\ Owned => DirectoryClean
  <2> SUFFICES ASSUME Inv, Owned,
                      \A p \in Attempt : pc[p] = "end" /\ outcome[p] # "rollback_failed"
               PROVE  /\ lock = Absent
                      /\ \A p \in Attempt : backup[p] = Absent
                      /\ cand # Absent => SomeUnread
    BY DEF DirectoryClean
  <2>1. lock \in Attempt \cup {Absent}
    BY DEF Inv, TypeOK
  <2> QED
    BY <2>1 DEF Owned, Sweeping, Critical
<1> QED
  BY <1>1, <1>2, OwnedStep, InvInductive, PTL DEF Spec

-----------------------------------------------------------------------------
(* After a failed swap, and after a death with the lock.                   *)

(* A process that dies between __enter__ and __exit__ of _RefreshLock      *)
(* leaves its lock file, which nothing in the code expires: from then on   *)
(* no step of any attempt changes the lock or the operational token.       *)
DeadOwnerFreezes ==
  [][\A p \in Attempt :
       lock = p /\ ~ alive[p]
         => lock' = p /\ ~ alive'[p] /\ oper' = oper]_vars

THEOREM DeadOwnersFreezeTheToken == Spec => DeadOwnerFreezes
<1> DEFINE Frozen == \A p \in Attempt :
                       lock = p /\ ~ alive[p]
                         => lock' = p /\ ~ alive'[p] /\ oper' = oper
<1>1. Inv /\ [Next]_vars => [Frozen]_vars
  <2> SUFFICES ASSUME Inv, Next,
                      NEW p \in Attempt, lock = p, ~ alive[p]
               PROVE  lock' = p /\ ~ alive'[p] /\ oper' = oper
    BY DEF vars
  <2> PICK q \in Attempt : Step(q) \/ Crash(q)
    BY DEF Next
  <2>1. alive[q] /\ q # p
    BY DEF Step, Crash, At, LoadCredential, SnapshotOperational, RefreshInMemory,
       CheckCandidateAbsent, ReadOriginal, WriteCandidate, DiscardCandidate,
       FlushCandidate, RecheckOriginal, ValidateCandidate, Acceptable, ValidateOperational, NewBackupPath,
       EnterLock, CompareOriginal, WriteBackup, ReplaceOperational, VerifyPromoted,
       UnlinkBackup, FlushPromoted, RollbackDisplace, RollbackRestore, ExitLock,
       CleanupCandidate
  <2>2. pc[q] \notin Critical /\ lock # Absent
    BY <2>1, DistinctAssumption DEF Inv, PromotionExclusive
  <2>3. UNCHANGED <<oper, lock>>
    BY <2>2 DEF Step, Crash, At, files, Critical, LoadCredential,
       SnapshotOperational, RefreshInMemory, CheckCandidateAbsent, ReadOriginal,
       WriteCandidate, DiscardCandidate, FlushCandidate, RecheckOriginal,
       ValidateCandidate, Acceptable, ValidateOperational, NewBackupPath, EnterLock, CompareOriginal,
       WriteBackup, ReplaceOperational, VerifyPromoted, UnlinkBackup,
       FlushPromoted, RollbackDisplace, RollbackRestore, ExitLock, CleanupCandidate
  <2>4. alive'[p] = alive[p]
    BY <2>1 DEF Step, Crash, Goto, Raise, Inv, TypeOK, LoadCredential,
       SnapshotOperational, RefreshInMemory, CheckCandidateAbsent, ReadOriginal,
       WriteCandidate, DiscardCandidate, FlushCandidate, RecheckOriginal,
       ValidateCandidate, Acceptable, ValidateOperational, NewBackupPath, EnterLock, CompareOriginal,
       WriteBackup, ReplaceOperational, VerifyPromoted, UnlinkBackup,
       FlushPromoted, RollbackDisplace, RollbackRestore, ExitLock, CleanupCandidate
  <2> QED
    BY <2>3, <2>4
<1> QED
  BY <1>1, InvInductive, PTL DEF Spec, DeadOwnerFreezes

(* rollback_refresh_promotion, when its two replaces succeed and the flush *)
(* after the removal of the backup did: an attempt that leaves the         *)
(* rollback leaves in the operational file the token it read before the    *)
(* swap, whatever made it roll back and whether or not the checks of the   *)
(* restored file then fail.                                                *)
RollbackRestores ==
  [][\A p \in Attempt :
       pc[p] \in {"displace", "restore"} /\ pc'[p] = "unlock"
         => oper' = original[p]]_vars

THEOREM RollbacksRestoreTheOriginal ==
  ASSUME Faults \cap {"final", "replace"} = {}
  PROVE  Spec => RollbackRestores
<1> DEFINE Restored == \A p \in Attempt :
                         pc[p] \in {"displace", "restore"} /\ pc'[p] = "unlock"
                           => oper' = original[p]
<1>1. Inv /\ [Next]_vars => [Restored]_vars
  <2> SUFFICES ASSUME Inv, Next, NEW p \in Attempt,
                      pc[p] \in {"displace", "restore"}, pc'[p] = "unlock"
               PROVE  oper' = original[p]
    BY DEF vars
  <2> PICK q \in Attempt : Step(q) \/ Crash(q)
    BY DEF Next
  \* Only the attempt itself moves, and it is at one of the two replaces.
  <2>1. q = p /\ Step(p)
    <3>1. CASE Crash(q)
      BY <3>1 DEF Crash
    <3>2. CASE q # p
      BY <3>2, StepFrame DEF Frame, Inv
    <3> QED
      BY <3>1, <3>2
  <2>2. RollbackDisplace(p) \/ RollbackRestore(p)
    BY <2>1 DEF Step, At, LoadCredential, SnapshotOperational, RefreshInMemory,
       CheckCandidateAbsent, ReadOriginal, WriteCandidate, DiscardCandidate,
       FlushCandidate, RecheckOriginal, ValidateCandidate, Acceptable, ValidateOperational, NewBackupPath,
       EnterLock, CompareOriginal, WriteBackup, ReplaceOperational, VerifyPromoted,
       UnlinkBackup, FlushPromoted, ExitLock, CleanupCandidate
  <2>3. CASE RollbackDisplace(p)
    BY <2>3 DEF RollbackDisplace, Goto, Inv, TypeOK
  \* The backup is there, and it is exact.
  <2>4. CASE RollbackRestore(p)
    BY <2>4, DistinctAssumption DEF RollbackRestore, At, Inv, BackupHeld,
       OriginalIsToken, Promoting, Token
  <2> QED
    BY <2>2, <2>3, <2>4
<1> QED
  BY <1>1, InvInductive, PTL DEF Spec, RollbackRestores
=============================================================================
