-------------------------- MODULE MCEventPromotion --------------------------
(* Instances of EventPromotion for TLC.                                    *)
EXTENDS EventPromotion, TLC

CONSTANTS d1, d2, s1, s2, p1, p2

OneDraft == {d1}
TwoDrafts == {d1, d2}
OneScope == {s1}
One == {p1}
Two == {p1, p2}

\* An incomplete intake and one that is ready for promotion.
Forms == {[approval |-> "needs-info", status |-> "needs-info", private |-> TRUE, complete |-> FALSE],
          [approval |-> "approved", status |-> "ready", private |-> TRUE, complete |-> TRUE]}

\* A note, an approval, a cancellation, a change of privacy.
Edits == {[f \in {} |-> f],
          [approval |-> "approved", status |-> "ready", complete |-> TRUE],
          [status |-> "cancelled"],
          [private |-> FALSE]}
=============================================================================
