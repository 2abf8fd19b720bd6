--------------------------- MODULE MCPublication ---------------------------
(* Instances of Publication for TLC.                                       *)
EXTENDS Publication, TLC

CONSTANTS s1, s2, i1, e1

TwoSyncers == {s1, s2}
SyncerSymmetry == Permutations(TwoSyncers)
OneId == {i1}
Seconds == {1, 2}
OneEvent == {e1}

Base == [privacy |-> TRUE, status |-> "public", permission |-> "yes", text |-> TRUE,
         approval |-> TRUE, event |-> NoEvent]
\* A request that is public or held back; an event row that is public or drafted.
Bodies ==
  [Requests |-> {Base, [Base EXCEPT !.permission = "no"]},
   Donations |-> {}, Reports |-> {},
   CalendarLog |-> {[Base EXCEPT !.event = e1, !.approval = FALSE]}]

\* A public request, an event row that is public once its event exists, and
\* reports that stay as they are: duplicates, an empty summary, a row without a key.
Contents ==
  LET row(u, b) == [id |-> i1, updated |-> u, body |-> b] IN
  {[Requests |-> <<row(1, Base)>>,
    Donations |-> <<>>,
    Reports |-> <<row(0, Base), row(1, [Base EXCEPT !.text = FALSE]),
                  [id |-> NoId, updated |-> 1, body |-> Base]>>,
    CalendarLog |-> <<row(1, [Base EXCEPT !.event = e1])>>]}

\* The board log and both copies of the first page.
ThreeFiles == SelectSeq(AllFiles, LAMBDA f : f \in {"approved_board_log", "index"})
=============================================================================
