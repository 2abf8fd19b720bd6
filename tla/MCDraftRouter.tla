--------------------------- MODULE MCDraftRouter ---------------------------
(* Instances of DraftRouter for TLC.                                       *)
EXTENDS DraftRouter, TLC

CONSTANTS p1, s1, s2, r1, r2, n1

One == {p1}
TwoScopes == {s1, s2}

\* Two drafts of one kind, and a need.
SerialDrafts == {r1, r2, n1}

Kinds == [d \in Draft |-> IF d = n1 THEN "need" ELSE "report"]

NewStatuses == {"needs-info", "new", "ready"}

\* Answers to the reports, that name them under their own key or not at all.
ReportAnswers ==
  [named : {None} \cup {d \in Draft : KindOf[d] = "report"}, by : {"report"}, keys : {{"report"}},
   prefix : {FALSE}, status : {None, "ready", "cancelled"}]
\* Words without a key, the first of which may be that of a command.
PlainWords ==
  [named : {None}, by : {"id"}, keys : {{}}, prefix : BOOLEAN, status : {None}]
\* An ID with no more keys.
IdsOnly ==
  [named : Draft, by : {"id"}, keys : {{}}, prefix : {FALSE}, status : {None, "ready"}]

Mixed == ReportAnswers \cup PlainWords \cup IdsOnly

\* The chats and the two reports may be exchanged.
RouterSymmetry == Permutations({s1, s2}) \cup Permutations({r1, r2})
=============================================================================
