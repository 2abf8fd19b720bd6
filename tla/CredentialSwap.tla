--------------------------- MODULE CredentialSwap ---------------------------
(***************************************************************************)
(* atomic_promote of scripts/google_oauth_acl.py: an operator swaps an     *)
(* accepted candidate with the operational token, by two renames with a    *)
(* backup in between and a way back.  The durable refresh (TokenRefresh)   *)
(* may be at work on the same token file, and the two share no lock.  What *)
(* is kept here of a refresh is what it does to that file and to its own   *)
(* backup: the comparison under its lock, the backup, the replacement, the *)
(* checks after it and the rollback.  What comes before leaves no trace in *)
(* these files, and a refresh whose comparison fails none at all.  Its     *)
(* candidate path is left out: what a rollback moves there is unlinked     *)
(* when the refresh returns.                                               *)
(*                                                                         *)
(* A token is the run that obtained it, Boot is the first one and Fresh    *)
(* what the refresh obtains.                                               *)
(***************************************************************************)
EXTENDS OAuthRuns

CONSTANTS Boot, Fresh, Torn, Absent,
          Refreshing  \* whether there is a refresh beside the runs

VARIABLES oper,    \* the operational token file
          cand,    \* the candidate file
          held,    \* the backup of the swap
          swap,    \* the call the swap makes next, and how it ended
          old, new, \* what the swap found in oper and cand
          refresh, \* what a refresh does next, and how it ended
          kept,    \* its backup
          disturbed \* history: it moved the token file after the swap began

swapVars == <<oper, cand, held, swap, old, new>>
refreshVars == <<refresh, kept, disturbed>>
credentialVars == <<swapVars, refreshVars>>

Token == Run \cup {Boot, Fresh}
File == Token \cup {Torn, Absent}

ASSUME TokensAssumption ==
  /\ {Boot, Fresh, Torn, Absent} \cap Run = {}
  /\ Boot # Fresh /\ Boot # Torn /\ Boot # Absent
  /\ Fresh # Torn /\ Fresh # Absent /\ Torn # Absent

ASSUME RefreshingAssumption == Refreshing \in BOOLEAN

SwapPhase == {"idle", "backup", "place", "verify", "undo", "restore", "drop",
              "done", "failed", "rollback_failed", "dead"}
RefreshPhase == {"idle", "replace", "verify", "sync", "displace", "restore", "done",
                 "rollback_failed"}

CredentialTypeOK ==
  /\ oper \in File /\ cand \in File /\ held \in File
  /\ swap \in SwapPhase
  /\ old \in File /\ new \in File
  /\ refresh \in RefreshPhase
  /\ kept \in File
  /\ disturbed \in BOOLEAN

CredentialInit ==
  /\ oper = Boot /\ cand = Absent /\ held = Absent
  /\ swap = "idle" /\ old = Absent /\ new = Absent
  /\ refresh = "idle" /\ kept = Absent /\ disturbed = FALSE

Rename(phase) == swap' = phase /\ UNCHANGED <<old, new, refreshVars>>

\* Both are regular files with one ACL.  That the candidate is a credential
\* is the operator's business (google_oauth_candidate_acceptance.py).
BeginSwap ==
  /\ swap = "idle" /\ oper # Absent /\ cand \in Token
  /\ swap' = "backup" /\ old' = oper /\ new' = cand
  /\ UNCHANGED <<oper, cand, held, refreshVars>>

\* Nothing has moved when the first replace fails.
MoveToBackup ==
  /\ swap = "backup"
  /\ \/ /\ oper # Absent
        /\ held' = oper /\ oper' = Absent
        /\ Rename("place")
     \/ /\ oper = Absent \/ "swap" \in Faults
        /\ Rename("failed")
        /\ UNCHANGED <<oper, held>>
  /\ UNCHANGED cand

PlaceCandidate ==
  /\ swap = "place"
  /\ \/ /\ cand # Absent
        /\ oper' = cand /\ cand' = Absent
        /\ Rename("verify")
     \/ /\ cand = Absent \/ "swap" \in Faults
        /\ Rename("undo")
        /\ UNCHANGED <<oper, cand>>
  /\ UNCHANGED held

\* The ACL of a file that a refresh has taken away cannot be read.
VerifyPromotedAcl ==
  /\ swap = "verify"
  /\ \/ oper # Absent /\ Rename("drop")
     \/ (oper = Absent \/ "swap" \in Faults) /\ Rename("undo")
  /\ UNCHANGED <<oper, cand, held>>

\* Faulty: the backup is put back over what was promoted.
UndoPlacementNot ==
  /\ swap = "undo"
  /\ Rename("restore")
  /\ UNCHANGED <<oper, cand, held>>

\* The promoted file goes back to where the candidate was.
UndoPlacement ==
  /\ swap = "undo"
  /\ \/ /\ oper # Absent
        /\ cand' = oper /\ oper' = Absent
        /\ Rename("restore")
     \/ /\ oper = Absent
        /\ Rename("restore")
        /\ UNCHANGED <<oper, cand>>
     \/ /\ "swap" \in Faults
        /\ Rename("rollback_failed")
        /\ UNCHANGED <<oper, cand>>
  /\ UNCHANGED held

RestoreBackup ==
  /\ swap = "restore"
  /\ \/ /\ oper' = held /\ held' = Absent
        /\ Rename("failed")
     \/ /\ "swap" \in Faults
        /\ Rename("rollback_failed")
        /\ UNCHANGED <<oper, held>>
  /\ UNCHANGED cand

\* BACKUP_CLEANUP_FAILED leaves the backup behind.
DropBackup ==
  /\ swap = "drop"
  /\ held' = Absent \/ ("swap" \in Faults /\ UNCHANGED held)
  /\ Rename("done")
  /\ UNCHANGED <<oper, cand>>

SwapDies ==
  /\ "crash" \in Faults
  /\ swap \in {"backup", "place", "verify", "undo", "restore", "drop"}
  /\ Rename("dead")
  /\ UNCHANGED <<oper, cand, held>>

SwapStep ==
  \/ MoveToBackup \/ PlaceCandidate \/ VerifyPromotedAcl
  \/ UndoPlacement \/ RestoreBackup \/ DropBackup \/ SwapDies

-----------------------------------------------------------------------------
(* A durable refresh by the bot (oauth_refresh.py).                        *)

\* The refresh goes on to phase, the token file becomes f.
Refresh(phase, f) ==
  /\ refresh' = phase
  /\ oper' = f
  /\ disturbed' = (disturbed \/ (f # oper /\ swap # "idle"))
  /\ UNCHANGED <<cand, held, swap, old, new>>

\* Under the refresh's own lock, which the swap does not take: the token file
\* is what the refresh started from, and is backed up.
CompareRefresh ==
  /\ Refreshing /\ refresh = "idle" /\ oper \in Token
  /\ Refresh("replace", oper)
  /\ kept' = oper

\* Over whatever is there, or where nothing is.
ReplaceByRefresh ==
  /\ refresh = "replace"
  /\ \/ Refresh("verify", Fresh) /\ UNCHANGED kept
     \/ "refresh" \in Faults /\ Refresh("done", oper) /\ kept' = Absent

\* The promoted bytes, and then the backup is removed.
VerifyRefresh ==
  /\ refresh = "verify"
  /\ \/ oper = Fresh /\ Refresh("sync", oper) /\ kept' = Absent
     \/ (oper # Fresh \/ "refresh" \in Faults) /\ Refresh("displace", oper) /\ UNCHANGED kept

\* The last flush opens the file again.
SyncRefresh ==
  /\ refresh = "sync"
  /\ \/ oper # Absent /\ Refresh("done", oper)
     \/ (oper = Absent \/ "refresh" \in Faults) /\ Refresh("displace", oper)
  /\ UNCHANGED kept

\* rollback_refresh_promotion: whatever is in the token file goes to the
\* candidate path of the refresh, to be unlinked there.
DisplaceByRefresh ==
  /\ refresh = "displace"
  /\ \/ Refresh("restore", Absent)
     \/ "refresh" \in Faults /\ Refresh("rollback_failed", oper)
  /\ UNCHANGED kept

\* ... and the backup comes back, if there is one.
RestoreByRefresh ==
  /\ refresh = "restore"
  /\ \/ kept # Absent /\ Refresh("done", kept) /\ kept' = Absent
     \/ /\ kept = Absent \/ "refresh" \in Faults
        /\ Refresh("rollback_failed", oper)
        /\ UNCHANGED kept

RefreshStep ==
  \/ CompareRefresh \/ ReplaceByRefresh \/ VerifyRefresh
  \/ SyncRefresh \/ DisplaceByRefresh \/ RestoreByRefresh

-----------------------------------------------------------------------------
\* A usable token is in the token file or in a backup.
TokenOnDisk == \E f \in {oper, held, kept} : f \in Token

\* The refresh has taken the token file away with its backup already gone,
\* because the flush after that failed: its rollback fails by construction.
RolledBackBlind == refresh \in {"restore", "rollback_failed"} /\ kept = Absent
=============================================================================
