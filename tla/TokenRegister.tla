--------------------------- MODULE TokenRegister ----------------------------
(***************************************************************************)
(* What durable OAuth refresh promises to the callers of                   *)
(* refresh_and_persist_credential (oauth_refresh.py): the operational      *)
(* token is a register that attempts change by compare-and-swap only.  An  *)
(* attempt reports "persisted" only after its own token went in, leaves    *)
(* the register alone when it reports a refusal, and says so               *)
(* ("rollback_failed") in the one case where it cannot put the register    *)
(* back.  Candidate, backup and lock files, crashes and the order of file  *)
(* operations are all below this level.                                    *)
(***************************************************************************)
CONSTANTS Attempt,   \* calls of refresh_and_persist_credential
          Value,     \* everything the register can hold or be read as
          First      \* what it holds before the first attempt

VARIABLES token,     \* the operational token
          base,      \* per attempt, the value it read and means to replace
          status     \* per attempt, what it has done or reported

registerVars == <<token, base, status>>

RegisterInit ==
  /\ token = First
  /\ base \in [Attempt -> Value]
  /\ status = [p \in Attempt |-> "running"]

\* An attempt takes its snapshot.  Another attempt may be in the middle of a
\* swap, so what it reads need not be the register's value.
Read(p) ==
  /\ status[p] = "running"
  /\ \E v \in Value : base' = [base EXCEPT ![p] = v]
  /\ UNCHANGED <<token, status>>

\* The compare-and-swap: the register still holds the snapshot.
Install(p) ==
  /\ status[p] = "running"
  /\ token = base[p]
  /\ token' = p
  /\ status' = [status EXCEPT ![p] = "installed"]
  /\ UNCHANGED base

\* The attempt returns: with its token installed, or without having changed
\* anything (nothing to refresh, or a refusal).
Return(p) ==
  /\ \/ status[p] = "installed" /\ status' = [status EXCEPT ![p] = "persisted"]
     \/ /\ status[p] = "running"
        /\ \E s \in {"current", "refused"} : status' = [status EXCEPT ![p] = s]
  /\ UNCHANGED <<token, base>>

\* A rollback that fails is reported; the register then holds anything.
FailRollback(p) ==
  /\ status[p] \in {"running", "installed"}
  /\ status' = [status EXCEPT ![p] = "rollback_failed"]
  /\ token' \in Value
  /\ UNCHANGED base

RegisterNext ==
  \E p \in Attempt : Read(p) \/ Install(p) \/ Return(p) \/ FailRollback(p)

RegisterSpec == RegisterInit /\ [][RegisterNext]_registerVars
=============================================================================
