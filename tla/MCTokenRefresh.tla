--------------------------- MODULE MCTokenRefresh ---------------------------
(* Instances of TokenRefresh for TLC.                                      *)
EXTENDS TokenRefresh, TLC

CONSTANTS a1, a2, a3

TwoAttempts == {a1, a2}
ThreeAttempts == {a1, a2, a3}

\* The order of two attempts never matters, only who acts.
AttemptSymmetry == Permutations(Attempt)

\* Every failure the code has a handler for, and crashes.
AllButFinalFlush == FaultKinds \ {"final"}
\* Only the fsync after the backup is gone fails.
OnlyFinalFlush == {"final"}
\* Failures after which every attempt still gets to clean up, the read that
\* nothing handles included.
CleanFaults == {"refresh", "prepare", "validate", "read", "lock", "acl", "backup",
                "replace"}
=============================================================================
