---------------------------- MODULE TokenRefresh ----------------------------
(***************************************************************************)
(* Durable OAuth refresh, non_profit_hermes/oauth_refresh.py, and its two  *)
(* callers (operations.get_creds, approved_safe_sync.creds).               *)
(*                                                                         *)
(* An attempt is one call of refresh_and_persist_credential by some        *)
(* process.  Attempts share a directory and nothing else: the operational  *)
(* token file, ONE candidate path (derived from the token's name), one     *)
(* lock file, and a backup path of each attempt's own (mkstemp).  Every    *)
(* action is one file-system call together with the checks the code makes  *)
(* on its result, so that attempts interleave between any two calls and a  *)
(* process can die between any two.                                        *)
(*                                                                         *)
(* The bytes of a token are abstracted to whose token it is: the refreshed *)
(* credential attempt p serialises is p itself; Torn is the prefix an      *)
(* interrupted write leaves.  Hash comparisons are comparisons of content. *)
(***************************************************************************)
CONSTANTS Attempt,   \* the attempts; p also names the token p obtains
          Boot,      \* the token in the file before the first attempt
          Torn,      \* bytes that are not a serialised credential
          Absent,    \* the file does not exist
          Faults     \* the kinds of failure the environment may inject

\* crash: the process dies.  refresh: the token endpoint fails.  prepare:
\* writing the candidate, icacls or reading an ACL fails before the lock.
\* validate: the acceptance checks reject a well-formed candidate (expired,
\* wrong scopes, ACL).  read: a file that is there cannot be read (access
\* denied, sharing violation).  lock: writing the created lock file fails.
\* acl: an ACL read or comparison fails under the lock.  backup: naming or
\* writing the backup fails.  readback: the written backup cannot be read, or
\* does not read back as written.  flush: an fsync fails, the last one
\* excepted, which is final.  replace: os.replace fails.  unlink: an unlink
\* fails.
FaultKinds == {"crash", "refresh", "prepare", "validate", "read", "lock", "acl",
               "backup", "readback", "flush", "final", "replace", "unlink"}

ASSUME DistinctAssumption ==
  /\ Boot \notin Attempt /\ Torn \notin Attempt /\ Absent \notin Attempt
  /\ Boot # Torn /\ Boot # Absent /\ Torn # Absent

ASSUME FaultsAssumption == Faults \subseteq FaultKinds

VARIABLES oper,      \* the operational token file
          cand,      \* the shared candidate file
          backup,    \* per attempt, its backup file
          lock,      \* Absent, or the attempt that created the lock file
          pc,        \* per attempt, the call it makes next
          original,  \* per attempt, original_hash / original_bytes
          outcome,   \* per attempt, how its call ended
          alive      \* per attempt, whether its process still runs

files == <<oper, cand, backup, lock>>
vars == <<oper, cand, backup, lock, pc, original, outcome, alive>>

Token == Attempt \cup {Boot}
Content == Token \cup {Torn}
File == Content \cup {Absent}

\* Holding _RefreshLock.
Critical == {"compare", "backup", "replace", "verify", "drop", "sync",
             "displace", "restore", "unlock"}
Phase == {"load", "snapshot", "refresh", "probe", "read", "write", "discard",
          "flush", "recheck", "vcand", "voper", "lock", "cleanup", "end"} \cup Critical
\* unread: the one read outside every handler failed, and the caller gets the
\* OSError itself.
Outcome == {"running", "current", "persisted", "refused", "unread", "rollback_failed"}

TypeOK ==
  /\ oper \in File /\ cand \in File
  /\ backup \in [Attempt -> File]
  /\ lock \in Attempt \cup {Absent}
  /\ pc \in [Attempt -> Phase]
  /\ original \in [Attempt -> File]
  /\ outcome \in [Attempt -> Outcome]
  /\ alive \in [Attempt -> BOOLEAN]

Init ==
  /\ oper = Boot /\ cand = Absent /\ lock = Absent
  /\ backup = [p \in Attempt |-> Absent]
  /\ pc = [p \in Attempt |-> "load"]
  /\ original = [p \in Attempt |-> Absent]
  /\ outcome = [p \in Attempt |-> "running"]
  /\ alive = [p \in Attempt |-> TRUE]

At(p, l) == alive[p] /\ pc[p] = l
Goto(p, l) == pc' = [pc EXCEPT ![p] = l] /\ UNCHANGED <<outcome, alive>>
\* The error (or result) o is decided; what is left is the code's unwinding.
Raise(p, l, o) ==
  /\ pc' = [pc EXCEPT ![p] = l]
  /\ outcome' = [outcome EXCEPT ![p] = o]
  /\ UNCHANGED alive

-----------------------------------------------------------------------------
(* Before the lock: load, refresh in memory, prepare, validate.            *)

\* get_creds / creds: an unreadable token is a configuration error, one that
\* has not expired is returned as it is.
LoadCredential(p) ==
  /\ At(p, "load")
  /\ \/ oper \in Token /\ (Goto(p, "snapshot") \/ Raise(p, "end", "current"))
     \/ /\ oper \notin Token \/ "read" \in Faults
        /\ Raise(p, "end", "refused")
  /\ UNCHANGED <<files, original>>

SnapshotOperational(p) ==
  /\ At(p, "snapshot")
  /\ \/ /\ oper = Absent \/ "read" \in Faults
        /\ Raise(p, "end", "refused") /\ UNCHANGED original
     \/ oper # Absent /\ Goto(p, "refresh") /\ original' = [original EXCEPT ![p] = oper]
  /\ UNCHANGED files

RefreshInMemory(p) ==
  /\ At(p, "refresh")
  /\ Goto(p, "probe") \/ ("refresh" \in Faults /\ Raise(p, "end", "refused"))
  /\ UNCHANGED <<files, original>>

\* CANDIDATE_ALREADY_EXISTS leaves the candidate alone: it is someone else's.
CheckCandidateAbsent(p) ==
  /\ At(p, "probe")
  /\ IF cand = Absent THEN Goto(p, "read") ELSE Raise(p, "end", "refused")
  /\ UNCHANGED <<files, original>>

ReadOriginal(p) ==
  /\ At(p, "read")
  /\ \/ oper = original[p] /\ oper \in Token /\ Goto(p, "write")
     \/ /\ \/ oper # original[p] \/ oper \notin Token
           \/ Faults \cap {"prepare", "read"} # {}
        /\ Raise(p, "end", "refused")
  /\ UNCHANGED <<files, original>>

\* write_bytes replaces whatever another attempt put there meanwhile.
WriteCandidate(p) ==
  /\ At(p, "write")
  /\ \/ cand' = p /\ Goto(p, "flush")
     \/ "prepare" \in Faults /\ cand' \in {cand, Torn, p} /\ Raise(p, "discard", "refused")
  /\ UNCHANGED <<oper, backup, lock, original>>

\* The handlers of prepare_candidate unlink the candidate; the caller's
\* handler (CleanupCandidate) does so again.
DiscardCandidate(p) ==
  /\ At(p, "discard")
  /\ cand' = Absent \/ ("unlink" \in Faults /\ UNCHANGED cand)
  /\ Goto(p, "cleanup")
  /\ UNCHANGED <<oper, backup, lock, original>>

\* The flush opens the file, which another attempt may have unlinked.
FlushCandidate(p) ==
  /\ At(p, "flush")
  /\ \/ cand # Absent /\ Goto(p, "recheck")
     \/ /\ cand = Absent \/ "flush" \in Faults
        /\ Raise(p, "cleanup", "refused")
  /\ UNCHANGED <<files, original>>

\* Faulty: OPERATIONAL_CHANGED_DURING_PREPARE without the cleanup.
RecheckOriginalLeaky(p) ==
  /\ At(p, "recheck")
  /\ \/ oper = original[p] /\ Goto(p, "vcand")
     \/ (oper = Absent \/ "read" \in Faults) /\ Raise(p, "end", "unread")
     \/ oper \notin {original[p], Absent} /\ Raise(p, "end", "refused")
  /\ UNCHANGED <<files, original>>

\* The second look at the operational token.  Its read_bytes stands outside
\* every handler: when the file is missing, or is there and cannot be read,
\* the candidate stays behind.
RecheckOriginal(p) ==
  /\ At(p, "recheck")
  /\ \/ oper = original[p] /\ Goto(p, "vcand")
     \/ (oper = Absent \/ "read" \in Faults) /\ Raise(p, "end", "unread")
     \/ oper \notin {original[p], Absent} /\ Raise(p, "cleanup", "refused")
  /\ UNCHANGED <<files, original>>

\* evaluate_candidate_acceptance, as far as it depends on the bytes: every
\* check of _CHECK_ORDER but the comparison with the existing token.
Acceptable(c) == c \in Token

\* The candidate file need not hold the bytes that this attempt wrote.
ValidateCandidate(p) ==
  /\ At(p, "vcand")
  /\ \/ Acceptable(cand) /\ Goto(p, "voper")
     \/ /\ ~Acceptable(cand) \/ Faults \cap {"validate", "read"} # {}
        /\ Raise(p, "cleanup", "refused")
  /\ UNCHANGED <<files, original>>

\* _new_backup_path creates an empty file for the sake of its name and
\* removes it again.  mkstemp may fail, or the unlink, which leaves the file.
NewBackupPath(p) ==
  \/ Goto(p, "lock") /\ UNCHANGED backup
  \/ "backup" \in Faults /\ Raise(p, "cleanup", "refused") /\ UNCHANGED backup
  \/ /\ "unlink" \in Faults
     /\ backup' = [backup EXCEPT ![p] = Torn]
     /\ Raise(p, "cleanup", "refused")

\* existing_token_unchanged, the last check, and the name of the backup.
ValidateOperational(p) ==
  /\ At(p, "voper")
  /\ \/ oper = original[p] /\ NewBackupPath(p)
     \/ /\ oper # original[p] \/ "read" \in Faults
        /\ Raise(p, "cleanup", "refused") /\ UNCHANGED backup
  /\ UNCHANGED <<oper, cand, lock, original>>

-----------------------------------------------------------------------------
(* Under the lock: promote_refresh_candidate_atomically.                   *)

\* Faulty: O_CREAT without O_EXCL.
EnterLockShared(p) ==
  /\ At(p, "lock")
  /\ lock' = p /\ Goto(p, "compare")
  /\ UNCHANGED <<oper, cand, backup, original>>

\* Faulty: CONCURRENT_REFRESH unwinds through __exit__ and unlinks the lock
\* file of the attempt that owns it.
EnterLockUnlinks(p) ==
  /\ At(p, "lock")
  /\ \/ lock = Absent /\ lock' = p /\ Goto(p, "compare")
     \/ lock # Absent /\ Raise(p, "unlock", "refused") /\ UNCHANGED lock
  /\ UNCHANGED <<oper, cand, backup, original>>

\* Faulty: LOCK_FAILED does not remove the lock file it created.
EnterLockLeaky(p) ==
  /\ At(p, "lock")
  /\ \/ /\ lock = Absent
        /\ lock' = p
        /\ \/ Goto(p, "compare")
           \/ "lock" \in Faults /\ Raise(p, "cleanup", "refused")
     \/ lock # Absent /\ Raise(p, "cleanup", "refused") /\ UNCHANGED lock
  /\ UNCHANGED <<oper, cand, backup, original>>

\* O_CREAT | O_EXCL.  LOCK_FAILED: the file cannot be created, or cannot be
\* written and is then closed and unlinked, as leaving the lock does.
EnterLock(p) ==
  /\ At(p, "lock")
  /\ \/ /\ lock = Absent
        /\ lock' = p
        /\ \/ Goto(p, "compare")
           \/ "lock" \in Faults /\ Raise(p, "unlock", "refused")
     \/ /\ lock # Absent \/ "lock" \in Faults
        /\ Raise(p, "cleanup", "refused") /\ UNCHANGED lock
  /\ UNCHANGED <<oper, cand, backup, original>>

\* Faulty: the hash is not compared again under the lock.
CompareOriginalSkipped(p) ==
  At(p, "compare") /\ Goto(p, "backup") /\ UNCHANGED <<files, original>>

\* hash(operational) = original_hash, then the ACL.
CompareOriginal(p) ==
  /\ At(p, "compare")
  /\ \/ oper = original[p] /\ Goto(p, "backup")
     \/ /\ oper # original[p] \/ Faults \cap {"acl", "read"} # {}
        /\ Raise(p, "unlock", "refused")
  /\ UNCHANGED <<files, original>>

\* Faulty: the swap goes ahead when the backup could not be written.
WriteBackupBestEffort(p) ==
  /\ At(p, "backup")
  /\ \/ backup' = [backup EXCEPT ![p] = original[p]]
     \/ "backup" \in Faults /\ UNCHANGED backup
  /\ Goto(p, "replace")
  /\ UNCHANGED <<oper, cand, lock, original>>

\* _write_exact_backup: the preparer removes what it failed to write, but a
\* failed reading back (BACKUP_CONTENT_MISMATCH included) or a failed flush
\* leaves the backup behind.
WriteBackup(p) ==
  /\ At(p, "backup")
  /\ \/ backup' = [backup EXCEPT ![p] = original[p]] /\ Goto(p, "replace")
     \/ "backup" \in Faults /\ Raise(p, "unlock", "refused") /\ UNCHANGED backup
     \/ /\ Faults \cap {"flush", "readback"} # {}
        /\ \/ backup' = [backup EXCEPT ![p] = original[p]]
           \/ "readback" \in Faults /\ backup' = [backup EXCEPT ![p] = Torn]
        /\ Raise(p, "unlock", "refused")
  /\ UNCHANGED <<oper, cand, lock, original>>

\* Faulty: PROMOTION_FAILED leaves the backup.
ReplaceOperationalLeaky(p) ==
  /\ At(p, "replace")
  /\ \/ cand # Absent /\ oper' = cand /\ cand' = Absent /\ Goto(p, "verify")
     \/ cand = Absent /\ Raise(p, "unlock", "refused") /\ UNCHANGED <<oper, cand>>
  /\ UNCHANGED <<backup, lock, original>>

\* Whatever the candidate path holds now becomes the operational token.
\* When nothing was replaced the backup is removed (_cleanup).
ReplaceOperational(p) ==
  /\ At(p, "replace")
  /\ \/ /\ cand # Absent
        /\ oper' = cand /\ cand' = Absent
        /\ Goto(p, "verify")
        /\ UNCHANGED backup
     \/ /\ cand = Absent \/ "replace" \in Faults
        /\ \/ backup' = [backup EXCEPT ![p] = Absent]
           \/ "unlink" \in Faults /\ UNCHANGED backup
        /\ Raise(p, "unlock", "refused")
        /\ UNCHANGED <<oper, cand>>
  /\ UNCHANGED <<lock, original>>

\* Faulty: the promoted file is flushed but not hashed.
VerifyPromotedUnhashed(p) ==
  /\ At(p, "verify")
  /\ Goto(p, "drop") \/ ("flush" \in Faults /\ Goto(p, "displace"))
  /\ UNCHANGED <<files, original>>

\* fsync, PROMOTED_HASH_MISMATCH, PROMOTED_ACL_MISMATCH.
VerifyPromoted(p) ==
  /\ At(p, "verify")
  /\ \/ oper = p /\ Goto(p, "drop")
     \/ /\ oper # p \/ Faults \cap {"flush", "read", "acl"} # {}
        /\ Goto(p, "displace")
  /\ UNCHANGED <<files, original>>

\* Faulty: one backup path for all attempts.
UnlinkBackupShared(p) ==
  /\ At(p, "drop")
  /\ backup' = Absent /\ Goto(p, "sync")
  /\ UNCHANGED <<oper, cand, lock, original>>

UnlinkBackup(p) ==
  /\ At(p, "drop")
  /\ \/ backup' = [backup EXCEPT ![p] = Absent] /\ Goto(p, "sync")
     \/ "unlink" \in Faults /\ Goto(p, "displace") /\ UNCHANGED backup
  /\ UNCHANGED <<oper, cand, lock, original>>

FlushPromoted(p) ==
  /\ At(p, "sync")
  /\ \/ Raise(p, "unlock", "persisted")
     \/ "final" \in Faults /\ Goto(p, "displace")
  /\ UNCHANGED <<files, original>>

\* rollback_refresh_promotion, first replace: the promoted token goes back to
\* the candidate path.
RollbackDisplace(p) ==
  /\ At(p, "displace")
  /\ \/ cand' = oper /\ oper' = Absent /\ Goto(p, "restore")
     \/ /\ "replace" \in Faults
        /\ Raise(p, "unlock", "rollback_failed")
        /\ UNCHANGED <<oper, cand>>
  /\ UNCHANGED <<backup, lock, original>>

\* Faulty: a rollback that fails is reported like one that succeeded.
RollbackRestoreSilent(p) ==
  /\ At(p, "restore")
  /\ \/ /\ backup[p] # Absent
        /\ oper' = backup[p] /\ backup' = [backup EXCEPT ![p] = Absent]
     \/ /\ backup[p] = Absent \/ "replace" \in Faults
        /\ UNCHANGED <<oper, backup>>
  /\ Raise(p, "unlock", "refused")
  /\ UNCHANGED <<cand, lock, original>>

\* Second replace, and the flush and comparisons of bytes and ACL after it.
RollbackRestore(p) ==
  /\ At(p, "restore")
  /\ \/ /\ backup[p] # Absent
        /\ oper' = backup[p] /\ backup' = [backup EXCEPT ![p] = Absent]
        /\ \/ Raise(p, "unlock", "refused")
           \/ /\ Faults \cap {"acl", "flush", "read"} # {}
              /\ Raise(p, "unlock", "rollback_failed")
     \/ /\ backup[p] = Absent \/ "replace" \in Faults
        /\ Raise(p, "unlock", "rollback_failed")
        /\ UNCHANGED <<oper, backup>>
  /\ UNCHANGED <<cand, lock, original>>

\* __exit__: errors of the unlink are swallowed.
ExitLock(p) ==
  /\ At(p, "unlock")
  /\ lock' = Absent \/ ("unlink" \in Faults /\ UNCHANGED lock)
  /\ Goto(p, "cleanup")
  /\ UNCHANGED <<oper, cand, backup, original>>

-----------------------------------------------------------------------------

\* The handlers of prepare_refresh_candidate and the finally clause of
\* refresh_and_persist_credential: unlink whatever is at the candidate path.
CleanupCandidate(p) ==
  /\ At(p, "cleanup")
  /\ cand' = Absent \/ ("unlink" \in Faults /\ UNCHANGED cand)
  /\ Goto(p, "end")
  /\ UNCHANGED <<oper, backup, lock, original>>

\* The process dies; a write it was in the middle of leaves a prefix, and
\* mkstemp an empty file.
Crash(p) ==
  /\ "crash" \in Faults
  /\ alive[p] /\ pc[p] # "end"
  /\ alive' = [alive EXCEPT ![p] = FALSE]
  /\ cand' \in IF pc[p] = "write" THEN {cand, Torn} ELSE {cand}
  /\ \/ UNCHANGED backup
     \/ pc[p] \in {"voper", "backup"} /\ backup' = [backup EXCEPT ![p] = Torn]
  /\ UNCHANGED <<oper, lock, pc, original, outcome>>

Step(p) ==
  \/ LoadCredential(p) \/ SnapshotOperational(p) \/ RefreshInMemory(p)
  \/ CheckCandidateAbsent(p) \/ ReadOriginal(p) \/ WriteCandidate(p)
  \/ DiscardCandidate(p) \/ FlushCandidate(p) \/ RecheckOriginal(p)
  \/ ValidateCandidate(p) \/ ValidateOperational(p)
  \/ EnterLock(p) \/ CompareOriginal(p) \/ WriteBackup(p)
  \/ ReplaceOperational(p) \/ VerifyPromoted(p) \/ UnlinkBackup(p)
  \/ FlushPromoted(p) \/ RollbackDisplace(p) \/ RollbackRestore(p)
  \/ ExitLock(p) \/ CleanupCandidate(p)

Next == \E p \in Attempt : Step(p) \/ Crash(p)

Spec == Init /\ [][Next]_vars

\* The operating system schedules every live process; nothing waits for
\* another process, so weak fairness of each one's next call is enough.
FairSpec == Spec /\ \A p \in Attempt : WF_vars(Step(p))

-----------------------------------------------------------------------------
(* Safety.                                                                 *)

\* _RefreshLock: an attempt between __enter__ and __exit__ owns the lock
\* file, so no two attempts are ever inside the promotion together, a
\* crashed one included.
PromotionExclusive ==
  \A p \in Attempt : pc[p] \in Critical => lock = p

\* The compare (under the lock) and the swap are two calls with a backup
\* written between them.  When the swap is about to happen the operational
\* token is still the one the attempt read before it contacted the token
\* endpoint: no other attempt's promotion is overwritten.
SnapshotStillCurrent ==
  \A p \in Attempt : pc[p] \in {"backup", "replace"} => oper = original[p]

\* Every change of the operational token is made by the live owner of the
\* lock, and either starts from that owner's snapshot (the swap) or undoes
\* its own swap (the two replaces of the rollback).
CompareAndSwap ==
  [][oper' # oper =>
       \E p \in Attempt :
         /\ alive[p] /\ lock = p
         /\ oper = original[p] \/ oper' \in {original[p], Absent}]_vars

\* Whatever fails and whoever dies, some file still holds a usable token:
\* the operational file, or the backup of an attempt.
TokenRecoverable ==
  oper \in Token \/ \E p \in Attempt : backup[p] \in Token

\* When nobody holds the lock and no attempt has reported that its rollback
\* failed, the operational file is there, and what it holds is the initial
\* token or the token of an attempt that reported success: never a torn
\* file, a rejected token, or bytes that another attempt slipped into the
\* shared candidate path after they were validated.
UnlockedTokenTrusted ==
  (lock = Absent /\ \A p \in Attempt : outcome[p] # "rollback_failed")
    => \/ oper = Boot
       \/ oper \in Attempt /\ outcome[oper] = "persisted"

\* Some attempt left through the read that nothing handles (oauth_refresh.py,
\* the second look of prepare_refresh_candidate): nobody cleans up after it.
SomeUnread == \E p \in Attempt : outcome[p] = "unread"

\* Once every attempt has returned, no lock, backup or candidate file (each a
\* copy of a credential, or a bar to every later refresh) is left behind,
\* whichever of its RefreshPersistenceErrors an attempt ended with, a failed
\* rollback excepted.  The candidate does stay when an attempt ended with the
\* OSError of that one unhandled read.  Needs runs in which nobody crashes, no
\* unlink fails and neither a flush nor the reading back of a backup does.
DirectoryClean ==
  (\A p \in Attempt : pc[p] = "end" /\ outcome[p] # "rollback_failed")
    => /\ lock = Absent
       /\ \A p \in Attempt : backup[p] = Absent
       /\ cand # Absent => SomeUnread

\* SECURITY_AND_PRIVACY.md, OAuth credential persistence, step 8: "restore
\* exact bytes and ACL on handled post-swap failure".  An attempt that fails
\* after the swap ends with what it read back in the operational file (or
\* with a token that a later attempt persisted).
PostSwapFailureRestored ==
  \A p \in Attempt :
    (pc[p] = "end" /\ outcome[p] = "rollback_failed")
      => \/ oper = original[p]
         \/ oper \in Attempt /\ outcome[oper] = "persisted"

-----------------------------------------------------------------------------
(* Liveness, for runs without crashes and failing unlinks.                 *)

\* CONCURRENT_REFRESH is a passing condition: the lock is always released.
LockReleased == (lock # Absent) ~> (lock = Absent)

\* CANDIDATE_ALREADY_EXISTS is a passing condition, unless an attempt leaves
\* through the unhandled read: a candidate is removed in the end, wherever
\* else the attempts fail.
CandidateRemoved == (cand # Absent) ~> (cand = Absent \/ SomeUnread)

-----------------------------------------------------------------------------
(* The register that callers see.                                          *)

\* Between the swap and the removal of the backup the swap can be undone.
Undoable(p) ==
  pc[p] \in {"verify", "drop", "displace", "restore"} /\ backup[p] # Absent

RegisterToken ==
  IF lock # Absent /\ Undoable(lock) THEN original[lock] ELSE oper

\* Removing the backup is the point of no return.
StatusOf(p) ==
  IF outcome[p] = "unread" THEN "refused"
  ELSE IF outcome[p] # "running" THEN outcome[p]
  ELSE IF pc[p] = "sync" \/ (pc[p] = "displace" /\ ~Undoable(p)) THEN "installed"
  ELSE IF pc[p] = "restore" /\ ~Undoable(p) THEN "rollback_failed"
  ELSE "running"

RegisterStatus == [p \in Attempt |-> StatusOf(p)]

Register == INSTANCE TokenRegister WITH
  Value <- File, First <- Boot,
  token <- RegisterToken, base <- original, status <- RegisterStatus

\* The files implement the register: seen through the mapping, the token
\* changes by compare-and-swap, "persisted" is reported only by an attempt
\* whose own token went in and a refusal only by one that changed nothing.
ImplementsRegister == Register!RegisterSpec
=============================================================================
