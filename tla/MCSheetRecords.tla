--------------------------- MODULE MCSheetRecords ---------------------------
(* Instances of SheetRecords for TLC.                                      *)
EXTENDS SheetRecords, FiniteSets, TLC

CONSTANTS w1, w2, x1, x2, g1, f1, f2, v1, v2

TwoWorkers == {w1, w2}
OneWorker == {w1}
TwoFields == {f1, f2}
OneField == {f1}
TwoValues == {v1, v2}
\* f1 is the description, f2 another column.
Shown == [create |-> {f1}, update |-> {f1, f2}]
OneFresh == {g1}

\* Two chats that name different IDs; one of them names live numbers.
OwnNames == [w \in Worker |-> IF w = w1 THEN {2} ELSE {x2}]

\* One field is set to the value that is not the default.
Changes == LET v == CHOOSE v \in Value : v # CHOOSE u \in Value : TRUE IN
           {[f \in {g} |-> v] : g \in Field}

\* Bound: a log that shows three writes is not continued.
ShortLog == Cardinality(audit) <= 2

FailingCalls == {"call"}
=============================================================================
