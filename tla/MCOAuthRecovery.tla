-------------------------- MODULE MCOAuthRecovery --------------------------
(* Instances of OAuthRecovery for TLC.                                     *)
EXTENDS OAuthRecovery, TLC

CONSTANTS r1, r2

OneRun == {r1}
TwoRuns == {r1, r2}

\* The order of two runs never matters, only who acts.
RunSymmetry == Permutations(Run)

\* For each run the callback that grants all, and one that grants too little;
\* for the other run, both carry a wrong state.
Callbacks == [state : Run, answer : {"full", "partial"}]
\* All that a client may send.
AnyRequest == Request
None == {}
=============================================================================
