----------------------------- MODULE Publication -----------------------------
(***************************************************************************)
(* approved_safe_sync.py: the gates of the approved-safe export, the       *)
(* collection of one snapshot from the spreadsheet and the Calendar, and   *)
(* the writing of the public site from it.                                 *)
(*                                                                         *)
(* run_sync reads the tabs one request at a time, then the pages of the    *)
(* Calendar's list, filters what it has read, and writes the JSON files    *)
(* and the pages one after the other; it takes no lock and leaves what it  *)
(* has written when it dies.  The bot and the staff change the tabs and    *)
(* the Calendar meanwhile, and a second sync may run.                      *)
(*                                                                         *)
(* Tasks and Inventory are read and never exported, and are left out, like *)
(* the text of the files: a file is the set of records that it shows.      *)
(***************************************************************************)
EXTENDS Naturals, Sequences, FiniteSets

CONSTANTS Syncer,    \* processes that run the sync
          Id,        \* primary keys, NoId for a blank one
          NoId,
          Event,     \* Calendar events, NoEvent for a blank CalendarEventID
          NoEvent,
          Body,      \* per tab, the bodies that rows of this instance have
          Initial,   \* contents of the tabs when it begins
          Files,     \* the files of this instance, in the order of AllFiles
          Second,    \* what ts() returns
          MaxRows,   \* bounds on the rows of a tab,
          MaxChanges,\* the changes to tabs and Calendar, and the runs
          MaxRuns

RecordTab == {"Requests", "Donations", "Reports"}
ItemTab == RecordTab \cup {"CalendarLog"}
Reading == ItemTab \cup {"AuditLog", "Calendar"}

\* What the gates tell apart in a row.  "public" and "terminal" are relative to
\* the tab; "permission" is ConsentToShare, PublicListingAllowed,
\* PublicSummaryAllowed or PublicCalendarAllowed; "text" is the description,
\* the summary draft or the title to publish.
AnyBody == [privacy : BOOLEAN, status : {"public", "terminal", "other"},
            permission : {"yes", "approved", "no"}, text : BOOLEAN,
            approval : BOOLEAN, event : Event \cup {NoEvent}]

ASSUME ConstantsAssumption ==
  /\ NoId \notin Id /\ NoEvent \notin Event /\ Event # {}
  /\ DOMAIN Body = ItemTab /\ \A t \in ItemTab : Body[t] \subseteq AnyBody
  /\ Initial \subseteq [ItemTab -> Seq([id : Id \cup {NoId}, updated : Nat, body : AnyBody])]
  /\ MaxRows \in Nat /\ Second \subseteq Nat \ {0} /\ MaxChanges \in Nat /\ MaxRuns \in Nat

VARIABLES tab,       \* the rows of each tab, below the header
          calendar,  \* the status of each event, as events().list gives it
          pc,        \* per syncer, what it reads next, or "write"
          snap,      \* per syncer, what it has read
          next,      \* per syncer, the file it writes next
          site,      \* per file, the records that it shows
          ever,      \* history: records and events public at some time
          since,     \* history: those public since the run began
          alone,     \* history: no other run has overlapped this one
          hidden,    \* history: records whose last write took them back
          spent      \* changes and runs so far

sources == <<tab, calendar>>
history == <<ever, since, hidden>>
vars == <<sources, pc, snap, next, site, history, alone, spent>>

Row == [id : Id \cup {NoId}, updated : Nat, body : AnyBody]
Item == [tab : ItemTab, row : Row]

-----------------------------------------------------------------------------
(* The gates.                                                              *)

Ids(rows) == {rows[i].id : i \in DOMAIN rows} \ {NoId}
At(rows, d) == {i \in DOMAIN rows : rows[i].id = d}
\* A mutant: the last row of a key, whatever its LastUpdated.
LastRows(rows) ==
  {rows[i] : i \in {k \in DOMAIN rows : rows[k].id # NoId /\ \A j \in At(rows, rows[k].id) : j <= k}}
\* Of the rows with one key, the one with the highest LastUpdated, the lowest of
\* equals; rows without a key are dropped.
deduplicate_rows(rows) ==
  {rows[i] : i \in {k \in DOMAIN rows : rows[k].id # NoId /\ \A j \in At(rows, rows[k].id) :
                      \/ rows[j].updated < rows[k].updated
                      \/ rows[j].updated = rows[k].updated /\ j <= k}}

is_affirmative(p) == p \in {"yes", "approved"}
\* safe_needs_from_requests, safe_donations and safe_reports have the same gates.
safe_record(b) ==
  b.privacy /\ b.status # "terminal" /\ b.status = "public" /\ is_affirmative(b.permission) /\ b.text
\* safe_calendar_export, but for the event, whose permission has its own list.
safe_calendar_row(b) ==
  /\ b.event # NoEvent /\ b.privacy /\ b.permission = "yes"
  /\ b.approval /\ b.status = "public" /\ b.text
Safe(t, b) == IF t = "CalendarLog" THEN safe_calendar_row(b) ELSE safe_record(b)

\* The rows of a tab that pass its gates on the row, as items.
Passing(t, rows) == {[tab |-> t, row |-> r] : r \in {s \in deduplicate_rows(rows) : Safe(t, s.body)}}

\* A mutant: the permission is not looked at.
ReasonWithoutPermission(b) ==
  CASE ~ b.privacy -> "privacy_not_approved"
    [] b.privacy /\ b.status = "terminal" -> "terminal_status"
    [] b.privacy /\ b.status = "other" -> "status_not_public"
    [] b.privacy /\ b.status = "public" /\ ~ b.text -> "missing_text"
    [] OTHER -> "none"
\* The report of a dry run gives each row that is left out a reason.
rejection_reason(b) ==
  CASE ~ b.privacy -> "privacy_not_approved"
    [] b.privacy /\ b.status = "terminal" -> "terminal_status"
    [] b.privacy /\ b.status = "other" -> "status_not_public"
    [] b.privacy /\ b.status = "public" /\ ~ is_affirmative(b.permission) -> "permission_not_affirmative"
    [] b.privacy /\ b.status = "public" /\ is_affirmative(b.permission) /\ ~ b.text -> "missing_text"
    [] OTHER -> "none"
missing_primary_keys(rows) == Cardinality(At(rows, NoId))
duplicate_count(rows) == Cardinality(DOMAIN rows \ At(rows, NoId)) - Cardinality(Ids(rows))
rejected(rows) == Cardinality({r \in deduplicate_rows(rows) : rejection_reason(r.body) # "none"})

-----------------------------------------------------------------------------
(* A snapshot, and what each file shows of it.                             *)

Snapshot == [tab : [ItemTab -> Seq(Row)], counted : SUBSET Item,
             live : SUBSET Event, listed : SUBSET Event]
Blank == [tab |-> [t \in ItemTab |-> <<>>], counted |-> {}, live |-> {}, listed |-> {}]

\* A mutant: the event is not looked up.
ApprovedOfAnyEvent(s, t) == Passing(t, s.tab[t])
Approved(s, t) == {m \in Passing(t, s.tab[t]) : t = "CalendarLog" => m.row.body.event \in s.live}
\* The first of an export: its ID is the first to appear in the tab.
First(s, t) ==
  LET above(m) == {i \in DOMAIN s.tab[t] : \A j \in 1 .. i : s.tab[t][j].id # m.row.id} IN
  {m \in Approved(s, t) : \A n \in Approved(s, t) : above(m) \subseteq above(n)}
Visible(s) == UNION {Approved(s, t) : t \in RecordTab}

Shows(f, s) ==
  CASE f = "approved_needs" -> Approved(s, "Requests")
    [] f = "approved_calendar" -> Approved(s, "CalendarLog")
    [] f = "approved_reports" -> Approved(s, "Reports")
    [] f = "approved_donations" -> Approved(s, "Donations")
    [] f = "approved_board_log" -> s.counted
    [] f = "index" -> UNION {First(s, t) : t \in ItemTab}
    [] f = "current-needs" -> Approved(s, "Requests")
    [] f = "calendar" -> First(s, "CalendarLog")
    [] f = "reports" -> First(s, "Reports")
    [] f = "today" -> UNION {First(s, t) : t \in {"CalendarLog", "Requests", "Reports"}}
    [] f = "deployment-proof" -> UNION {Approved(s, t) : t \in ItemTab}

\* write_both writes each page twice.  approved_volunteer_gaps, .nojekyll and
\* LIVE_CHECK_002.html show no record.
AllFiles ==
  << "approved_needs", "approved_calendar", "approved_reports", "approved_donations",
     "approved_board_log", "index", "index", "current-needs", "current-needs", "calendar",
     "calendar", "reports", "reports", "today", "today", "deployment-proof", "deployment-proof" >>
ASSUME FilesAssumption == Files \in Seq({AllFiles[n] : n \in DOMAIN AllFiles})

-----------------------------------------------------------------------------
(* What may be public, by the documents and not by the code: the record is  *)
(* approved and no row with its key has a later LastUpdated.               *)

MayBePublic(t, b) ==
  /\ b.privacy /\ b.status = "public" /\ b.permission # "no" /\ b.text
  /\ t = "CalendarLog" => b.approval /\ b.event # NoEvent
Released(rows, t) ==
  {[tab |-> t, row |-> rows[i]] : i \in {k \in DOMAIN rows :
     /\ rows[k].id # NoId /\ MayBePublic(t, rows[k].body)
     /\ \A j \in At(rows, rows[k].id) : rows[j].updated <= rows[k].updated}}

Public == [items : SUBSET Item, events : SUBSET Event]
Nothing == [items |-> {}, events |-> {}]
Now == [items |-> UNION {Released(tab[t], t) : t \in ItemTab},
        events |-> {e \in Event : calendar[e] = "confirmed"}]
Join(a, b) == [items |-> a.items \cup b.items, events |-> a.events \cup b.events]
Within(items, p) ==
  \A m \in items : m \in p.items /\ (m.tab = "CalendarLog" => m.row.body.event \in p.events)

TypeOK ==
  /\ tab \in [ItemTab -> Seq(Row)]
  /\ calendar \in [Event -> {"absent", "confirmed", "cancelled"}]
  /\ pc \in [Syncer -> Reading \cup {"idle", "write"}]
  /\ snap \in [Syncer -> Snapshot] /\ next \in [Syncer -> Nat \ {0}]
  /\ site \in [DOMAIN Files -> SUBSET Item]
  /\ ever \in Public /\ since \in [Syncer -> Public]
  /\ alone \in [Syncer -> BOOLEAN] /\ hidden \subseteq ItemTab \X Id
  /\ spent \in [changes : Nat, runs : Nat]

Init ==
  /\ tab \in Initial
  /\ calendar = [e \in Event |-> "absent"]
  /\ pc = [s \in Syncer |-> "idle"]
  /\ snap = [s \in Syncer |-> Blank] /\ next = [s \in Syncer |-> 1]
  /\ site = [f \in DOMAIN Files |-> {}]
  /\ ever = Now /\ since = [s \in Syncer |-> Nothing]
  /\ alone = [s \in Syncer |-> FALSE] /\ hidden = {}
  /\ spent = [changes |-> 0, runs |-> 0]

-----------------------------------------------------------------------------
(* The bot and the staff.                                                  *)

\* The history of a change to a tab or to the Calendar.
Observe ==
  /\ spent' = [spent EXCEPT !.changes = @ + 1]
  /\ ever' = Join(ever, Now')
  /\ since' = [s \in Syncer |-> IF pc[s] = "idle" THEN since[s] ELSE Join(since[s], Now')]
  /\ UNCHANGED <<pc, snap, next, site, alone>>
Put(t, rows) ==
  /\ Len(rows) <= MaxRows /\ tab' = [tab EXCEPT ![t] = rows]
  /\ UNCHANGED calendar /\ Observe
\* A write of the bot takes a record back when no other row of it is as recent.
TakesBack(t, rows, i) ==
  /\ ~ MayBePublic(t, rows[i].body)
  /\ \A j \in At(rows, rows[i].id) \ {i} : rows[j].updated < rows[i].updated
BotPut(t, rows, i) ==
  /\ Put(t, rows)
  /\ hidden' = IF TakesBack(t, rows, i) THEN hidden \cup {<<t, rows[i].id>>}
                                        ELSE hidden \ {<<t, rows[i].id>>}
StaffPut(t, rows, i) == Put(t, rows) /\ hidden' = hidden \ {<<t, rows[i].id>>}

\* add_request and its like append a row, duplicates included: SheetRecords
\* shows how two rows come to have one ID.
BotAppend(t) ==
  \E d \in Id, b \in Body[t], c \in Second :
    BotPut(t, Append(tab[t], [id |-> d, updated |-> c, body |-> b]), Len(tab[t]) + 1)
\* update_request and its like write the first row with the ID.
BotUpdate(t) ==
  \E i \in DOMAIN tab[t], b \in Body[t], c \in Second :
    /\ tab[t][i].id # NoId /\ \A j \in At(tab[t], tab[t][i].id) : i <= j
    /\ BotPut(t, [tab[t] EXCEPT ![i].updated = c, ![i].body = b], i)
\* By hand: an edit leaves LastUpdated as it was, and a new row may have no key.
StaffEdit(t) ==
  \E i \in DOMAIN tab[t], b \in Body[t] : StaffPut(t, [tab[t] EXCEPT ![i].body = b], i)
StaffAppend(t) ==
  \E d \in Id \cup {NoId}, b \in Body[t] :
    StaffPut(t, Append(tab[t], [id |-> d, updated |-> 0, body |-> b]), Len(tab[t]) + 1)
\* An event is created, or cancelled.
ChangeEvent(e) ==
  /\ \/ calendar[e] = "absent" /\ calendar' = [calendar EXCEPT ![e] = "confirmed"]
     \/ calendar[e] = "confirmed" /\ calendar' = [calendar EXCEPT ![e] = "cancelled"]
  /\ UNCHANGED <<tab, hidden>> /\ Observe

-----------------------------------------------------------------------------
(* run_sync.                                                               *)

Start(s) ==
  /\ spent.runs < MaxRuns /\ pc[s] = "idle" /\ pc' = [pc EXCEPT ![s] = "Requests"]
  /\ since' = [since EXCEPT ![s] = Now]
  /\ alone' = [r \in Syncer |-> IF r = s THEN \A q \in Syncer \ {s} : pc[q] = "idle" ELSE FALSE]
  /\ spent' = [spent EXCEPT !.runs = @ + 1]
  /\ UNCHANGED <<sources, snap, next, site, ever, hidden>>

\* collect_approved_safe_data: TAB_ORDER, then the Calendar.
After == [Requests |-> "Donations", Donations |-> "Reports", Reports |-> "CalendarLog",
          CalendarLog |-> "AuditLog", AuditLog |-> "Calendar"]
Collect(s) == UNCHANGED <<sources, next, site, history, alone, spent>>
\* safe_board_log counts the entries of visible records; those of CalendarLog
\* rows and of other targets it counts whatever they are about.  An entry comes
\* some time after the write that it is about, if the writer lives.
Counting(s) == {[snap EXCEPT ![s].counted = c] : c \in SUBSET Visible(snap[s])}
ReadTab(s) ==
  /\ pc[s] \in DOMAIN After /\ pc' = [pc EXCEPT ![s] = After[pc[s]]]
  /\ \/ pc[s] # "AuditLog" /\ snap' = [snap EXCEPT ![s].tab[pc[s]] = tab[pc[s]]]
     \/ pc[s] = "AuditLog" /\ snap' \in Counting(s)
  /\ Collect(s)
\* A mutant: an item without an ID is kept.
ListPageUnnamed(s) ==
  /\ pc[s] = "Calendar"
  /\ \E e \in Event \ snap[s].listed :
       /\ snap' = [snap EXCEPT ![s].listed = @ \cup {e}, ![s].live = @ \cup {NoEvent}]
       /\ pc' = [pc EXCEPT ![s] = IF snap[s].listed \cup {e} = Event THEN "write" ELSE "Calendar"]
  /\ Collect(s)
\* One page of events().list, here of one event.
ListPage(s) ==
  /\ pc[s] = "Calendar"
  /\ \E e \in Event \ snap[s].listed :
       /\ snap' = [snap EXCEPT ![s].listed = @ \cup {e},
                               ![s].live = @ \cup ({e} \cap {x \in Event : calendar[x] = "confirmed"})]
       /\ pc' = [pc EXCEPT ![s] = IF snap[s].listed \cup {e} = Event THEN "write" ELSE "Calendar"]
  /\ Collect(s)

\* A mutant: a file that would show nothing is not written.
WriteFileUnlessEmpty(s) ==
  /\ pc[s] = "write" /\ next[s] \in DOMAIN Files
  /\ LET shown == Shows(Files[next[s]], snap[s]) IN
       site' = IF shown = {} THEN site ELSE [site EXCEPT ![next[s]] = shown]
  /\ next' = [next EXCEPT ![s] = @ + 1]
  /\ UNCHANGED <<sources, pc, snap, history, alone, spent>>
\* write_public_site, one file.
WriteFile(s) ==
  /\ pc[s] = "write" /\ next[s] \in DOMAIN Files
  /\ site' = [site EXCEPT ![next[s]] = Shows(Files[next[s]], snap[s])]
  /\ next' = [next EXCEPT ![s] = @ + 1]
  /\ UNCHANGED <<sources, pc, snap, history, alone, spent>>

End(s) ==
  /\ pc' = [pc EXCEPT ![s] = "idle"] /\ snap' = [snap EXCEPT ![s] = Blank]
  /\ next' = [next EXCEPT ![s] = 1] /\ since' = [since EXCEPT ![s] = Nothing]
  /\ alone' = [alone EXCEPT ![s] = FALSE]
  /\ UNCHANGED <<sources, ever, hidden, spent>>
\* A run has written every file, or was a dry run, or /daily, and writes none.
Return(s) ==
  /\ pc[s] = "write" /\ (next[s] = 1 \/ next[s] \notin DOMAIN Files)
  /\ End(s) /\ UNCHANGED site
\* A call raises, or the process dies: the file at hand may be cut short.
Abort(s) ==
  /\ pc[s] # "idle" /\ End(s)
  /\ \/ UNCHANGED site
     \/ /\ pc[s] = "write" /\ next[s] \in DOMAIN Files
        /\ \E part \in SUBSET Shows(Files[next[s]], snap[s]) : site' = [site EXCEPT ![next[s]] = part]

SourceStep ==
  /\ spent.changes < MaxChanges
  /\ \/ \E t \in ItemTab : BotAppend(t) \/ BotUpdate(t) \/ StaffEdit(t) \/ StaffAppend(t)
     \/ \E e \in Event : ChangeEvent(e)
Next ==
  \/ SourceStep
  \/ \E s \in Syncer : Start(s) \/ ReadTab(s) \/ ListPage(s) \/ WriteFile(s) \/ Return(s) \/ Abort(s)
Spec == Init /\ [][Next]_vars

-----------------------------------------------------------------------------
(* Properties.                                                             *)

\* What a file shows was released, and its event live, at some time; whatever
\* runs overlap or die.
PublishedWasReleased == \A f \in DOMAIN Files : Within(site[f], ever)

\* When a run that no other overlaps has written its files, none of them still
\* shows a record that had been taken back before the run began, or an event
\* cancelled before, whatever earlier runs have left.
CompleteRunIsFresh ==
  \A s \in Syncer : pc[s] = "write" /\ next[s] \notin DOMAIN Files /\ alone[s] =>
    \A f \in DOMAIN Files : Within(site[f], since[s])

\* A record that the bot has taken back, in a second of its own, passes no gate
\* until it is written again, however many older rows have its ID.
TakenBackIsHidden ==
  \A t \in ItemTab : \A m \in Passing(t, tab[t]) : <<t, m.row.id>> \notin hidden

\* A dry run accounts for every row that it has read: exported, rejected for a
\* reason, a duplicate, or without a key.
DryRunAccounts ==
  \A s \in Syncer : pc[s] = "write" => \A t \in RecordTab :
    LET rows == snap[s].tab[t] IN
    Len(rows) = Cardinality(Approved(snap[s], t)) + rejected(rows)
                  + duplicate_count(rows) + missing_primary_keys(rows)
=============================================================================
