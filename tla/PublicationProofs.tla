------------------------- MODULE PublicationProofs -------------------------
(***************************************************************************)
(* What the public site shows was released, and what a run that nobody     *)
(* overlaps leaves was released since the run began: for any number of     *)
(* runs, rows, events and files.                                           *)
(***************************************************************************)
EXTENDS Publication, FiniteSetTheorems, WellFoundedInduction, TLAPS

\* p has no more than q.
Sub(p, q) == p.items \subseteq q.items /\ p.events \subseteq q.events

Running(s) == pc[s] # "idle"

\* The history knows what is public now, and a run what was since it began.
History ==
  /\ Sub(Now, ever)
  /\ \A s \in Syncer : Sub(since[s], ever) /\ (Running(s) => Sub(Now, since[s]))

\* What a run has read passes the gates only if released since it began.
ReadSince(s) ==
  /\ \A t \in ItemTab : Passing(t, snap[s].tab[t]) \subseteq since[s].items
  /\ snap[s].live \subseteq since[s].events
  /\ Within(snap[s].counted, since[s])

\* A run that is alone stays so, and its files are the ones there.
OwnFiles(s) ==
  /\ alone[s] => \A r \in Syncer \ {s} : ~ Running(r)
  /\ alone[s] /\ pc[s] = "write" =>
       \A f \in DOMAIN Files : f < next[s] => Within(site[f], since[s])

\* A run begins with an empty snapshot and at the first file.
Fresh(s) == (~ Running(s) => snap[s] = Blank) /\ (pc[s] # "write" => next[s] = 1)

SyncInv == History /\ \A s \in Syncer : ReadSince(s) /\ OwnFiles(s) /\ Fresh(s)

\* A record taken back has a row that is not public and is its latest.
Buried(t, d) ==
  \E i \in DOMAIN tab[t] :
    /\ tab[t][i].id = d /\ ~ MayBePublic(t, tab[t][i].body)
    /\ \A j \in At(tab[t], d) \ {i} : tab[t][j].updated < tab[t][i].updated
HiddenInv == \A h \in hidden : Buried(h[1], h[2])

-----------------------------------------------------------------------------
(* The gates.                                                              *)

\* The gates of the code are no weaker than those of the documents.
LEMMA SafeIsPublic ==
  ASSUME NEW t \in ItemTab, NEW b \in AnyBody, Safe(t, b)
  PROVE  MayBePublic(t, b)
BY DEF Safe, MayBePublic, safe_record, safe_calendar_row, is_affirmative, AnyBody, ItemTab, RecordTab

\* Whatever the body of a row, the export keeps it exactly if the dry run has
\* no reason to reject it: the gates of safe_needs_from_requests and its like
\* and those of rejection_reason are written twice and are the same.
THEOREM GatesAgree ==
  \A b \in AnyBody : safe_record(b) <=> rejection_reason(b) = "none"
BY DEF safe_record, rejection_reason, is_affirmative, AnyBody

LEMMA DedupRows ==
  ASSUME NEW rows \in Seq(Row), NEW r \in deduplicate_rows(rows)
  PROVE  \E k \in DOMAIN rows :
           /\ r = rows[k] /\ rows[k].id # NoId
           /\ \A j \in At(rows, rows[k].id) : rows[j].updated <= rows[k].updated
<1>1. PICK k \in DOMAIN rows :
        /\ r = rows[k] /\ rows[k].id # NoId
        /\ \A j \in At(rows, rows[k].id) : \/ rows[j].updated < rows[k].updated
                                           \/ rows[j].updated = rows[k].updated /\ j <= k
  BY DEF deduplicate_rows
<1>2. \A j \in DOMAIN rows : rows[j].updated \in Nat
  <2>1. \A j \in DOMAIN rows : rows[j] \in Row  OBVIOUS
  <2> QED  BY <2>1 DEF Row
<1>3. \A j \in At(rows, rows[k].id) : rows[j].updated <= rows[k].updated
  BY <1>1, <1>2 DEF At
<1> QED  BY <1>1, <1>3

\* What passes the gates is released.
LEMMA PassingIsReleased ==
  ASSUME NEW t \in ItemTab, NEW rows \in Seq(Row)
  PROVE  Passing(t, rows) \subseteq Released(rows, t) /\ Passing(t, rows) \subseteq Item
<1> SUFFICES ASSUME NEW m \in Passing(t, rows)
             PROVE  m \in Released(rows, t) /\ m \in Item
  OBVIOUS
<1>1. PICK r \in deduplicate_rows(rows) : m = [tab |-> t, row |-> r] /\ Safe(t, r.body)
  BY DEF Passing
<1>2. PICK k \in DOMAIN rows :
        /\ r = rows[k] /\ rows[k].id # NoId
        /\ \A j \in At(rows, rows[k].id) : rows[j].updated <= rows[k].updated
  BY <1>1, DedupRows
<1>3. r \in Row /\ r.body \in AnyBody
  <2>1. r \in Row  BY <1>2
  <2> QED  BY <2>1 DEF Row
<1>4. MayBePublic(t, rows[k].body)  BY <1>1, <1>2, <1>3, SafeIsPublic
<1>5. m = [tab |-> t, row |-> rows[k]]  BY <1>1, <1>2
<1>6. m \in Released(rows, t)  BY <1>2, <1>4, <1>5 DEF Released
<1>7. m \in Item  BY <1>1, <1>3 DEF Item
<1> QED  BY <1>6, <1>7

-----------------------------------------------------------------------------
(* Types.                                                                  *)

LEMMA ReleasedType ==
  ASSUME NEW t \in ItemTab, NEW rows \in Seq(Row)
  PROVE  Released(rows, t) \subseteq Item
<1> SUFFICES ASSUME NEW k \in DOMAIN rows
             PROVE  [tab |-> t, row |-> rows[k]] \in Item
  BY DEF Released
<1>1. rows[k] \in Row  OBVIOUS
<1> QED  BY <1>1 DEF Item

LEMMA NowType ==
  ASSUME tab \in [ItemTab -> Seq(Row)]
  PROVE  Now \in Public
<1>1. \A t \in ItemTab : Released(tab[t], t) \subseteq Item  BY ReleasedType
<1> QED  BY <1>1 DEF Now, Public

LEMMA JoinType == \A a, b \in Public : Join(a, b) \in Public
BY DEF Join, Public

LEMMA AppendType ==
  ASSUME TypeOK, NEW t \in ItemTab, NEW d \in Id \cup {NoId}, NEW u \in Nat, NEW b \in Body[t]
  PROVE  Append(tab[t], [id |-> d, updated |-> u, body |-> b]) \in Seq(Row)
<1>1. tab[t] \in Seq(Row)  BY DEF TypeOK
<1>2. b \in AnyBody  BY ConstantsAssumption
<1>3. [id |-> d, updated |-> u, body |-> b] \in Row  BY <1>2 DEF Row
<1> QED  BY <1>1, <1>3

LEMMA EditType ==
  ASSUME TypeOK, NEW t \in ItemTab, NEW i \in DOMAIN tab[t], NEW u \in Nat, NEW b \in Body[t]
  PROVE  /\ [tab[t] EXCEPT ![i].updated = u, ![i].body = b] \in Seq(Row)
         /\ [tab[t] EXCEPT ![i].body = b] \in Seq(Row)
         /\ tab[t][i] \in Row
<1>1. tab[t] \in Seq(Row)  BY DEF TypeOK
<1>2. b \in AnyBody  BY ConstantsAssumption
<1>3. tab[t][i] \in Row  BY <1>1
<1>4. [[tab[t][i] EXCEPT !.updated = u] EXCEPT !.body = b] \in Row  BY <1>2, <1>3 DEF Row
<1>5. [tab[t][i] EXCEPT !.body = b] \in Row  BY <1>2, <1>3 DEF Row
<1>6. ASSUME NEW r \in Row PROVE [tab[t] EXCEPT ![i] = r] \in Seq(Row)  BY <1>1
<1> QED  BY <1>3, <1>4, <1>5, <1>6

\* A change to the tabs or the Calendar leaves both well typed.
SourceTyped ==
  /\ tab' \in [ItemTab -> Seq(Row)]
  /\ calendar' \in [Event -> {"absent", "confirmed", "cancelled"}]
  /\ hidden' \subseteq ItemTab \X Id
  /\ Observe
\* What the bot and the staff do to the tabs and the Calendar.
LEMMA SourceStepType ==
  ASSUME TypeOK, SourceStep
  PROVE  SourceTyped
<1>1. ASSUME NEW t \in ItemTab, NEW rows \in Seq(Row), Put(t, rows)
      PROVE  /\ tab' \in [ItemTab -> Seq(Row)] /\ Observe
             /\ calendar' \in [Event -> {"absent", "confirmed", "cancelled"}]
  BY <1>1 DEF Put, TypeOK
<1>2. ASSUME NEW t \in ItemTab, BotAppend(t) PROVE SourceTyped
  <2>1. PICK d \in Id, b \in Body[t], c \in Second :
          BotPut(t, Append(tab[t], [id |-> d, updated |-> c, body |-> b]), Len(tab[t]) + 1)
    BY <1>2 DEF BotAppend
  <2> DEFINE rows == Append(tab[t], [id |-> d, updated |-> c, body |-> b])
  <2>2. c \in Nat  BY ConstantsAssumption
  <2>3. rows \in Seq(Row)  BY <2>2, AppendType
  <2>4. tab[t] \in Seq(Row)  BY DEF TypeOK
  <2>5. rows[Len(tab[t]) + 1].id = d  BY <2>4
  <2>6. hidden' \subseteq ItemTab \X Id  BY <2>1, <2>5 DEF BotPut, TypeOK
  <2> QED  BY <1>1, <2>1, <2>3, <2>6 DEF SourceTyped, BotPut
<1>3. ASSUME NEW t \in ItemTab, BotUpdate(t) PROVE SourceTyped
  <2>1. PICK i \in DOMAIN tab[t], b \in Body[t], c \in Second :
          /\ tab[t][i].id # NoId
          /\ BotPut(t, [tab[t] EXCEPT ![i].updated = c, ![i].body = b], i)
    BY <1>3 DEF BotUpdate
  <2> DEFINE rows == [tab[t] EXCEPT ![i].updated = c, ![i].body = b]
  <2>2. c \in Nat  BY ConstantsAssumption
  <2>3. rows \in Seq(Row) /\ tab[t][i] \in Row  BY <2>2, EditType
  <2>4. rows[i].id = tab[t][i].id /\ rows[i].id \in Id  BY <2>1, <2>3 DEF Row
  <2>5. hidden' \subseteq ItemTab \X Id  BY <2>1, <2>4 DEF BotPut, TypeOK
  <2> QED  BY <1>1, <2>1, <2>3, <2>5 DEF SourceTyped, BotPut
<1>4. ASSUME NEW t \in ItemTab, StaffEdit(t) PROVE SourceTyped
  <2>1. PICK i \in DOMAIN tab[t], b \in Body[t] : StaffPut(t, [tab[t] EXCEPT ![i].body = b], i)
    BY <1>4 DEF StaffEdit
  <2>2. [tab[t] EXCEPT ![i].body = b] \in Seq(Row)  BY EditType, 0 \in Nat
  <2> QED  BY <1>1, <2>1, <2>2 DEF SourceTyped, StaffPut, TypeOK
<1>5. ASSUME NEW t \in ItemTab, StaffAppend(t) PROVE SourceTyped
  <2>1. PICK d \in Id \cup {NoId}, b \in Body[t] :
          StaffPut(t, Append(tab[t], [id |-> d, updated |-> 0, body |-> b]), Len(tab[t]) + 1)
    BY <1>5 DEF StaffAppend
  <2>2. Append(tab[t], [id |-> d, updated |-> 0, body |-> b]) \in Seq(Row)  BY AppendType
  <2> QED  BY <1>1, <2>1, <2>2 DEF SourceTyped, StaffPut, TypeOK
<1>6. ASSUME NEW e \in Event, ChangeEvent(e) PROVE SourceTyped
  BY <1>6 DEF ChangeEvent, TypeOK, SourceTyped
<1> QED  BY <1>2, <1>3, <1>4, <1>5, <1>6 DEF SourceStep

\* What files may show is what the snapshot has released.
LEMMA ApprovedWithin ==
  ASSUME NEW s \in Syncer, TypeOK, ReadSince(s), NEW t \in ItemTab
  PROVE  /\ Approved(snap[s], t) \subseteq Item /\ Within(Approved(snap[s], t), since[s])
         /\ First(snap[s], t) \subseteq Approved(snap[s], t)
         /\ \A m \in Approved(snap[s], t) : m.tab = t
<1>1. snap[s].tab[t] \in Seq(Row)  BY DEF TypeOK, Snapshot
<1>2. Approved(snap[s], t) \subseteq Passing(t, snap[s].tab[t])  BY DEF Approved
<1>3. \A m \in Passing(t, snap[s].tab[t]) : m.tab = t  BY DEF Passing
<1>4. Approved(snap[s], t) \subseteq Item  BY <1>1, <1>2, PassingIsReleased
<1>5. Within(Approved(snap[s], t), since[s])
  <2> SUFFICES ASSUME NEW m \in Approved(snap[s], t)
               PROVE  m \in since[s].items /\ (m.tab = "CalendarLog" => m.row.body.event \in since[s].events)
    BY DEF Within
  <2>1. m \in since[s].items  BY <1>2 DEF ReadSince
  <2>2. m.tab = t  BY <1>2, <1>3
  <2>3. ASSUME t = "CalendarLog" PROVE m.row.body.event \in snap[s].live  BY <2>3 DEF Approved
  <2> QED  BY <2>1, <2>2, <2>3 DEF ReadSince
<1>6. First(snap[s], t) \subseteq Approved(snap[s], t)  BY DEF First
<1> QED  BY <1>2, <1>3, <1>4, <1>5, <1>6

LEMMA ShowsWithin ==
  ASSUME NEW s \in Syncer, TypeOK, ReadSince(s), NEW n \in DOMAIN Files
  PROVE  Shows(Files[n], snap[s]) \subseteq Item /\ Within(Shows(Files[n], snap[s]), since[s])
<1>1. Files[n] \in {AllFiles[k] : k \in DOMAIN AllFiles}  BY FilesAssumption
<1>2. Files[n] \in {"approved_needs", "approved_calendar", "approved_reports", "approved_donations",
                    "approved_board_log", "index", "current-needs", "calendar", "reports", "today",
                    "deployment-proof"}
  BY <1>1 DEF AllFiles
<1> DEFINE Good(x) == x \subseteq Item /\ Within(x, since[s])
<1>3. \A t \in ItemTab : Good(Approved(snap[s], t))  BY ApprovedWithin
<1>4. \A t \in ItemTab : Good(First(snap[s], t))  BY <1>3, ApprovedWithin DEF Within
<1>5. Good(snap[s].counted)  BY DEF ReadSince, TypeOK, Snapshot
<1>6. Good(UNION {First(snap[s], t) : t \in ItemTab})  BY <1>4 DEF Within
<1>7. Good(UNION {Approved(snap[s], t) : t \in ItemTab})  BY <1>3 DEF Within
<1>8. Good(UNION {First(snap[s], t) : t \in {"CalendarLog", "Requests", "Reports"}})
  BY <1>4 DEF Within, ItemTab, RecordTab
<1>9. {"Requests", "Donations", "Reports", "CalendarLog"} \subseteq ItemTab  BY DEF ItemTab, RecordTab
<1> HIDE DEF Good
<1>10. Good(Shows(Files[n], snap[s]))
  BY <1>2, <1>3, <1>4, <1>5, <1>6, <1>7, <1>8, <1>9 DEF Shows
<1> QED  BY <1>10 DEF Good

-----------------------------------------------------------------------------
(* The type invariant.                                                     *)

LEMMA InitType == Init => TypeOK
<1> SUFFICES ASSUME Init PROVE TypeOK
  OBVIOUS
<1>1. tab \in [ItemTab -> Seq(Row)]  BY ConstantsAssumption DEF Init, Row
<1>2. ever \in Public  BY <1>1, NowType DEF Init
<1>3. Nothing \in Public  BY DEF Nothing, Public
<1>4. Blank \in Snapshot
  <2>1. <<>> \in Seq(Row)  OBVIOUS
  <2> QED  BY <2>1 DEF Blank, Snapshot
<1> QED  BY <1>1, <1>2, <1>3, <1>4 DEF Init, TypeOK

LEMMA SnapshotFields ==
  ASSUME NEW r \in Snapshot
  PROVE  /\ \A a \in [ItemTab -> Seq(Row)] : [r EXCEPT !.tab = a] \in Snapshot
         /\ \A c \in SUBSET Item : [r EXCEPT !.counted = c] \in Snapshot
         /\ \A l, k \in SUBSET Event : [[r EXCEPT !.listed = k] EXCEPT !.live = l] \in Snapshot
         /\ r.tab \in [ItemTab -> Seq(Row)] /\ r.live \subseteq Event /\ r.listed \subseteq Event
         /\ r.counted \subseteq Item
<1> DEFINE T == [ItemTab -> Seq(Row)]  C == SUBSET Item  E == SUBSET Event
<1>1. Snapshot = [tab : T, counted : C, live : E, listed : E]  BY DEF Snapshot
<1> HIDE DEF T, C, E
<1>2. r \in [tab : T, counted : C, live : E, listed : E]  BY <1>1
<1>3. \A a \in T : [r EXCEPT !.tab = a] \in Snapshot  BY <1>1, <1>2
<1>4. \A c \in C : [r EXCEPT !.counted = c] \in Snapshot  BY <1>1, <1>2
<1>5. \A l, k \in E : [[r EXCEPT !.listed = k] EXCEPT !.live = l] \in Snapshot  BY <1>1, <1>2
<1>6. r.tab \in T /\ r.counted \in C /\ r.live \in E /\ r.listed \in E  BY <1>2
<1> QED  BY <1>3, <1>4, <1>5, <1>6 DEF T, C, E

\* The end of a run, and each of its steps, keep the snapshot well typed.
LEMMA ReadTabType == ASSUME TypeOK, NEW s \in Syncer, ReadTab(s) PROVE TypeOK'
<1>1. pc' \in [Syncer -> Reading \cup {"idle", "write"}]
  BY DEF ReadTab, TypeOK, After, Reading, ItemTab, RecordTab
<1>2. snap' \in [Syncer -> Snapshot]
  <2>1. CASE pc[s] # "AuditLog" /\ snap' = [snap EXCEPT ![s].tab[pc[s]] = tab[pc[s]]]
    <3>1. pc[s] \in ItemTab  BY <2>1 DEF ReadTab, After, ItemTab, RecordTab
    <3>2. tab[pc[s]] \in Seq(Row)  BY <3>1 DEF TypeOK
    <3>3. snap[s] \in Snapshot  BY DEF TypeOK
    <3>4. [snap[s].tab EXCEPT ![pc[s]] = tab[pc[s]]] \in [ItemTab -> Seq(Row)]
      BY <3>2, <3>3, SnapshotFields
    <3>5. [snap[s] EXCEPT !.tab[pc[s]] = tab[pc[s]]] \in Snapshot  BY <3>3, <3>4, SnapshotFields
    <3> QED  BY <2>1, <3>5 DEF TypeOK
  <2>2. CASE snap' \in Counting(s)
    <3>1. PICK c \in SUBSET Visible(snap[s]) : snap' = [snap EXCEPT ![s].counted = c]
      BY <2>2 DEF Counting
    <3>2. Visible(snap[s]) \subseteq Item
      <4>1. ASSUME NEW t \in RecordTab PROVE Approved(snap[s], t) \subseteq Item
        <5>1. snap[s].tab[t] \in Seq(Row) /\ t \in ItemTab  BY DEF TypeOK, Snapshot, ItemTab
        <5> QED  BY <5>1, PassingIsReleased DEF Approved
      <4> QED  BY <4>1 DEF Visible
    <3>3. snap[s] \in Snapshot  BY DEF TypeOK
    <3>4. [snap[s] EXCEPT !.counted = c] \in Snapshot  BY <3>1, <3>2, <3>3, SnapshotFields
    <3> QED  BY <3>1, <3>4 DEF TypeOK
  <2> QED  BY <2>1, <2>2 DEF ReadTab
<1> QED  BY <1>1, <1>2 DEF ReadTab, Collect, TypeOK, sources, history

LEMMA ListPageType == ASSUME TypeOK, NEW s \in Syncer, ListPage(s) PROVE TypeOK'
<1>1. PICK e \in Event :
        /\ snap' = [snap EXCEPT ![s].listed = @ \cup {e},
                                ![s].live = @ \cup ({e} \cap {x \in Event : calendar[x] = "confirmed"})]
        /\ pc' = [pc EXCEPT ![s] = IF snap[s].listed \cup {e} = Event THEN "write" ELSE "Calendar"]
  BY DEF ListPage
<1>2. snap' \in [Syncer -> Snapshot]
  <2> DEFINE k == snap[s].listed \cup {e}
             l == snap[s].live \cup ({e} \cap {x \in Event : calendar[x] = "confirmed"})
  <2>1. snap[s] \in Snapshot  BY DEF TypeOK
  <2>2. k \in SUBSET Event /\ l \in SUBSET Event  BY <2>1, SnapshotFields
  <2>3. [[snap[s] EXCEPT !.listed = k] EXCEPT !.live = l] \in Snapshot
    BY <2>1, <2>2, SnapshotFields
  <2>4. [snap[s] EXCEPT !.listed = k, !.live = l] = [[snap[s] EXCEPT !.listed = k] EXCEPT !.live = l]
    OBVIOUS
  <2>5. snap' = [snap EXCEPT ![s] = [snap[s] EXCEPT !.listed = k, !.live = l]]
    BY <1>1, <2>1 DEF TypeOK, Snapshot
  <2> QED  BY <2>3, <2>4, <2>5 DEF TypeOK
<1>3. pc' \in [Syncer -> Reading \cup {"idle", "write"}]  BY <1>1 DEF TypeOK, Reading
<1> QED  BY <1>2, <1>3 DEF ListPage, Collect, TypeOK, sources, history

LEMMA EndType ==
  ASSUME TypeOK, NEW s \in Syncer, End(s), site' \in [DOMAIN Files -> SUBSET Item]
  PROVE  TypeOK'
<1>1. Blank \in Snapshot /\ Nothing \in Public
  <2>1. <<>> \in Seq(Row)  OBVIOUS
  <2> QED  BY <2>1 DEF Blank, Snapshot, Nothing, Public
<1> QED  BY <1>1 DEF End, TypeOK, sources

LEMMA SpentType ==
  ASSUME TypeOK
  PROVE  /\ [spent EXCEPT !.changes = @ + 1] \in [changes : Nat, runs : Nat]
         /\ [spent EXCEPT !.runs = @ + 1] \in [changes : Nat, runs : Nat]
<1>1. spent \in [changes : Nat, runs : Nat]  BY DEF TypeOK
<1> QED  BY <1>1

LEMMA NextType == ASSUME TypeOK, \A s \in Syncer : ReadSince(s), [Next]_vars PROVE TypeOK'
<1>1. CASE SourceStep
  <2>1. SourceTyped  BY <1>1, SourceStepType
  <2>2. Now' \in Public
    <3>1. tab' \in [ItemTab -> Seq(Row)]  BY <2>1 DEF SourceTyped
    <3>2. \A t \in ItemTab : Released(tab'[t], t) \subseteq Item  BY <3>1, ReleasedType
    <3> QED  BY <3>2 DEF Now, Public
  <2>3. ever' \in Public /\ since' \in [Syncer -> Public]
    BY <2>1, <2>2, JoinType DEF SourceTyped, Observe, TypeOK
  <2>4. spent' \in [changes : Nat, runs : Nat]  BY <2>1, SpentType DEF SourceTyped, Observe
  <2>5. UNCHANGED <<pc, snap, next, site, alone>>  BY <2>1 DEF SourceTyped, Observe
  <2> QED  BY <2>1, <2>3, <2>4, <2>5 DEF SourceTyped, TypeOK
<1>2. ASSUME NEW s \in Syncer, Start(s) PROVE TypeOK'
  <2>1. Now \in Public  BY NowType DEF TypeOK
  <2>2. pc' \in [Syncer -> Reading \cup {"idle", "write"}]
    BY <1>2 DEF Start, TypeOK, Reading, ItemTab, RecordTab
  <2>3. spent' \in [changes : Nat, runs : Nat]  BY <1>2, SpentType DEF Start
  <2>4. alone' \in [Syncer -> BOOLEAN]  BY <1>2 DEF Start
  <2>5. since' \in [Syncer -> Public]  BY <1>2, <2>1 DEF Start, TypeOK
  <2>6. UNCHANGED <<tab, calendar, snap, next, site, ever, hidden>>  BY <1>2 DEF Start, sources
  <2> QED  BY <2>2, <2>3, <2>4, <2>5, <2>6 DEF TypeOK
<1>3. ASSUME NEW s \in Syncer, WriteFile(s) PROVE TypeOK'
  <2>1. Shows(Files[next[s]], snap[s]) \subseteq Item  BY <1>3, ShowsWithin DEF WriteFile
  <2> QED  BY <1>3, <2>1 DEF WriteFile, TypeOK, sources, history
<1>4. ASSUME NEW s \in Syncer, Return(s) PROVE TypeOK'
  <2>1. site' \in [DOMAIN Files -> SUBSET Item]  BY <1>4 DEF Return, TypeOK
  <2> QED  BY <1>4, <2>1, EndType DEF Return
<1>5. ASSUME NEW s \in Syncer, Abort(s) PROVE TypeOK'
  <2>1. CASE UNCHANGED site  BY <1>5, <2>1, EndType DEF Abort, TypeOK
  <2>2. ASSUME next[s] \in DOMAIN Files, NEW part \in SUBSET Shows(Files[next[s]], snap[s]),
               site' = [site EXCEPT ![next[s]] = part]
        PROVE  TypeOK'
    <3>1. part \subseteq Item  BY <2>2, ShowsWithin
    <3>2. site' \in [DOMAIN Files -> SUBSET Item]  BY <2>2, <3>1 DEF TypeOK
    <3> QED  BY <1>5, <3>2, EndType DEF Abort
  <2> QED  BY <1>5, <2>1, <2>2 DEF Abort
<1>6. CASE UNCHANGED vars  BY <1>6 DEF vars, TypeOK, sources, history
<1> QED  BY <1>1, <1>2, <1>3, <1>4, <1>5, <1>6, ReadTabType, ListPageType DEF Next

-----------------------------------------------------------------------------
(* The steps of the sync, and what they keep.                              *)

Inv == TypeOK /\ SyncInv /\ PublishedWasReleased

LEMMA WithinSub == ASSUME NEW x, NEW p, NEW q, Within(x, p), Sub(p, q) PROVE Within(x, q)
BY DEF Within, Sub

LEMMA EmptyPasses == ASSUME NEW t PROVE Passing(t, <<>>) = {}
BY DEF Passing, deduplicate_rows

LEMMA InitInv == Init => Inv
<1> SUFFICES ASSUME Init PROVE Inv
  OBVIOUS
<1>1. TypeOK  BY InitType
<1>2. History  BY DEF Init, History, Sub, Running, Nothing
<1>3. ASSUME NEW s \in Syncer PROVE ReadSince(s)
  BY EmptyPasses DEF Init, ReadSince, Blank, Within
<1>4. ASSUME NEW s \in Syncer PROVE OwnFiles(s) /\ Fresh(s)
  BY DEF Init, OwnFiles, Fresh
<1>5. PublishedWasReleased  BY DEF Init, PublishedWasReleased, Within
<1> QED  BY <1>1, <1>2, <1>3, <1>4, <1>5 DEF Inv, SyncInv

\* A change to the sources only adds to the history.
LEMMA SourceStepInv == ASSUME Inv, SourceStep PROVE (SyncInv /\ PublishedWasReleased)'
<1>1. Observe /\ TypeOK  BY SourceStepType DEF Inv, SourceTyped
<1>2. Sub(Now', ever') /\ Sub(ever, ever')  BY <1>1 DEF Observe, Join, Sub
<1>3. \A s \in Syncer : /\ since'[s] = IF pc[s] = "idle" THEN since[s] ELSE Join(since[s], Now')
                        /\ Sub(since[s], since'[s])
  BY <1>1 DEF Observe, Join, Sub
<1>4. ASSUME NEW s \in Syncer PROVE Sub(since'[s], ever') /\ (Running(s)' => Sub(Now', since'[s]))
  <2>1. Sub(since[s], ever)  BY DEF Inv, SyncInv, History
  <2> QED  BY <1>1, <1>2, <1>3, <2>1 DEF Observe, Join, Sub, Running
<1>5. UNCHANGED <<pc, snap, next, site, alone>>  BY <1>1 DEF Observe
<1>6. ASSUME NEW s \in Syncer PROVE ReadSince(s)'
  <2>1. ReadSince(s) /\ Sub(since[s], since'[s])  BY <1>3 DEF Inv, SyncInv
  <2>2. Within(snap[s].counted, since'[s])  BY <2>1, WithinSub DEF ReadSince
  <2> QED  BY <1>5, <2>1, <2>2 DEF ReadSince, Sub
<1>7. ASSUME NEW s \in Syncer PROVE (OwnFiles(s) /\ Fresh(s))'
  <2>1. OwnFiles(s) /\ Fresh(s)  BY DEF Inv, SyncInv
  <2>2. \A f \in DOMAIN Files : Within(site[f], since[s]) => Within(site[f], since'[s])
    BY <1>3, WithinSub
  <2> QED  BY <1>5, <2>1, <2>2 DEF OwnFiles, Fresh, Running
<1>8. PublishedWasReleased'  BY <1>2, <1>5, WithinSub DEF Inv, PublishedWasReleased
<1> QED  BY <1>2, <1>4, <1>6, <1>7, <1>8 DEF SyncInv, History

LEMMA StartInv ==
  ASSUME Inv, NEW s \in Syncer, Start(s) PROVE (SyncInv /\ PublishedWasReleased)'
<1>1. /\ pc[s] = "idle" /\ pc' = [pc EXCEPT ![s] = "Requests"]
      /\ since' = [since EXCEPT ![s] = Now]
      /\ alone' = [r \in Syncer |-> IF r = s THEN \A q \in Syncer \ {s} : pc[q] = "idle" ELSE FALSE]
      /\ UNCHANGED <<tab, calendar, snap, next, site, ever>>
  BY DEF Start, sources
<1>2. Now' = Now  BY <1>1 DEF Now
<1>3. TypeOK /\ History /\ PublishedWasReleased  BY DEF Inv, SyncInv
<1>4. History'  BY <1>1, <1>2, <1>3 DEF History, Sub, TypeOK, Running
<1>5. ASSUME NEW r \in Syncer PROVE (ReadSince(r) /\ OwnFiles(r) /\ Fresh(r))'
  <2>1. ReadSince(r) /\ OwnFiles(r) /\ Fresh(r)  BY DEF Inv, SyncInv
  <2>2. CASE r = s
    <3>1. snap[s] = Blank /\ next[s] = 1  BY <1>1, <2>1, <2>2 DEF Fresh, Running
    <3>2. ReadSince(s)'  BY <1>1, <3>1, EmptyPasses DEF ReadSince, Blank, Within
    <3>3. OwnFiles(s)'  BY <1>1, <1>3 DEF OwnFiles, TypeOK, Running
    <3> QED  BY <1>1, <1>3, <2>1, <2>2, <3>1, <3>2, <3>3 DEF Fresh, TypeOK, Running
  <2>3. CASE r # s
    BY <1>1, <1>3, <2>1, <2>3 DEF ReadSince, OwnFiles, Fresh, TypeOK, Running
  <2> QED  BY <2>2, <2>3
<1>6. PublishedWasReleased'  BY <1>1, <1>3 DEF PublishedWasReleased
<1> QED  BY <1>4, <1>5, <1>6 DEF SyncInv

\* A step of a run that changes only its place and its snapshot.
LEMMA CollectInv ==
  ASSUME Inv, NEW s \in Syncer, Collect(s), Running(s), pc[s] # "write",
         \A r \in Syncer \ {s} : pc'[r] = pc[r] /\ snap'[r] = snap[r],
         Running(s)', ReadSince(s)'
  PROVE  (SyncInv /\ PublishedWasReleased)'
<1>1. UNCHANGED <<tab, calendar, next, site, ever, since, alone>>
  BY DEF Collect, sources, history
<1>2. History /\ PublishedWasReleased  BY DEF Inv, SyncInv
<1>3. Now' = Now  BY <1>1 DEF Now
<1>4. History'  BY <1>1, <1>2, <1>3 DEF History, Sub, Running
<1>5. next[s] = 1  BY DEF Inv, SyncInv, Fresh
<1>6. ASSUME NEW r \in Syncer PROVE (ReadSince(r) /\ OwnFiles(r) /\ Fresh(r))'
  <2>1. ReadSince(r) /\ OwnFiles(r) /\ Fresh(r)  BY DEF Inv, SyncInv
  <2>2. CASE r = s
    <3>1. \A f \in DOMAIN Files : ~ f < 1  BY FilesAssumption
    <3>2. OwnFiles(s)'  BY <1>1, <1>5, <2>1, <2>2, <3>1 DEF OwnFiles, Running
    <3> QED  BY <1>1, <1>5, <2>1, <2>2, <3>2 DEF Fresh, Running
  <2>3. CASE r # s
    BY <1>1, <2>1, <2>3 DEF ReadSince, OwnFiles, Fresh, Running
  <2> QED  BY <2>2, <2>3
<1>7. PublishedWasReleased'  BY <1>1, <1>2 DEF PublishedWasReleased
<1> QED  BY <1>4, <1>6, <1>7 DEF SyncInv

LEMMA ReadTabInv ==
  ASSUME Inv, NEW s \in Syncer, ReadTab(s) PROVE (SyncInv /\ PublishedWasReleased)'
<1>1. TypeOK /\ ReadSince(s) /\ History  BY DEF Inv, SyncInv
<1>2. pc[s] \in DOMAIN After /\ Collect(s) /\ pc' = [pc EXCEPT ![s] = After[pc[s]]]  BY DEF ReadTab
<1>3. Running(s) /\ pc[s] # "write" /\ Running(s)'
  BY <1>1, <1>2 DEF After, Running, TypeOK
<1>4. since' = since  BY <1>2 DEF Collect, history
<1>5. snap[s] \in Snapshot  BY <1>1 DEF TypeOK
<1>6. CASE pc[s] # "AuditLog" /\ snap' = [snap EXCEPT ![s].tab[pc[s]] = tab[pc[s]]]
  <2>1. pc[s] \in ItemTab  BY <1>2, <1>6 DEF After, ItemTab, RecordTab
  <2>2. tab[pc[s]] \in Seq(Row)  BY <1>1, <2>1 DEF TypeOK
  <2>3. Passing(pc[s], tab[pc[s]]) \subseteq since[s].items
    <3>1. Passing(pc[s], tab[pc[s]]) \subseteq Released(tab[pc[s]], pc[s])
      BY <2>1, <2>2, PassingIsReleased
    <3>2. Released(tab[pc[s]], pc[s]) \subseteq Now.items  BY <2>1 DEF Now
    <3>3. Now.items \subseteq since[s].items  BY <1>1, <1>3 DEF History, Sub
    <3> QED  BY <3>1, <3>2, <3>3
  <2>4. /\ snap'[s].tab = [snap[s].tab EXCEPT ![pc[s]] = tab[pc[s]]]
        /\ snap'[s].live = snap[s].live /\ snap'[s].counted = snap[s].counted
    BY <1>1, <1>5, <1>6 DEF TypeOK, Snapshot
  <2>5. snap[s].tab \in [ItemTab -> Seq(Row)]  BY <1>5, SnapshotFields
  <2>6. ASSUME NEW t \in ItemTab PROVE Passing(t, snap'[s].tab[t]) \subseteq since[s].items
    BY <1>1, <2>3, <2>4, <2>5 DEF ReadSince
  <2>7. ReadSince(s)'  BY <1>1, <1>4, <2>4, <2>6 DEF ReadSince
  <2>8. \A r \in Syncer \ {s} : pc'[r] = pc[r] /\ snap'[r] = snap[r]
    BY <1>1, <1>2, <1>6 DEF TypeOK
  <2> QED  BY <1>2, <1>3, <2>7, <2>8, CollectInv
<1>7. CASE snap' \in Counting(s)
  <2>1. PICK c \in SUBSET Visible(snap[s]) : snap' = [snap EXCEPT ![s].counted = c]
    BY <1>7 DEF Counting
  <2>2. Within(Visible(snap[s]), since[s])
    <3>1. \A t \in RecordTab : Within(Approved(snap[s], t), since[s])
      BY <1>1, ApprovedWithin DEF ItemTab
    <3> QED  BY <3>1 DEF Visible, Within
  <2>3. Within(c, since[s])  BY <2>1, <2>2 DEF Within
  <2>4. snap'[s].counted = c /\ snap'[s].tab = snap[s].tab /\ snap'[s].live = snap[s].live
    BY <1>1, <1>5, <2>1 DEF TypeOK, Snapshot
  <2>5. ReadSince(s)'  BY <1>1, <1>4, <2>3, <2>4 DEF ReadSince
  <2>6. \A r \in Syncer \ {s} : pc'[r] = pc[r] /\ snap'[r] = snap[r]
    BY <1>1, <1>2, <2>1 DEF TypeOK
  <2> QED  BY <1>2, <1>3, <2>5, <2>6, CollectInv
<1> QED  BY <1>6, <1>7 DEF ReadTab

LEMMA ListPageInv ==
  ASSUME Inv, NEW s \in Syncer, ListPage(s) PROVE (SyncInv /\ PublishedWasReleased)'
<1>1. TypeOK /\ ReadSince(s) /\ History  BY DEF Inv, SyncInv
<1>2. PICK e \in Event :
        /\ snap' = [snap EXCEPT ![s].listed = @ \cup {e},
                                ![s].live = @ \cup ({e} \cap {x \in Event : calendar[x] = "confirmed"})]
        /\ pc' = [pc EXCEPT ![s] = IF snap[s].listed \cup {e} = Event THEN "write" ELSE "Calendar"]
  BY DEF ListPage
<1>3. pc[s] = "Calendar" /\ Collect(s)  BY DEF ListPage
<1>4. Running(s) /\ pc[s] # "write" /\ Running(s)'  BY <1>1, <1>2, <1>3 DEF Running, TypeOK
<1>5. since' = since  BY <1>3 DEF Collect, history
<1>6. snap[s] \in Snapshot  BY <1>1 DEF TypeOK
<1>7. /\ snap'[s].live = snap[s].live \cup ({e} \cap {x \in Event : calendar[x] = "confirmed"})
      /\ snap'[s].tab = snap[s].tab /\ snap'[s].counted = snap[s].counted
  BY <1>1, <1>2, <1>6 DEF TypeOK, Snapshot
<1>8. {x \in Event : calendar[x] = "confirmed"} \subseteq since[s].events
  BY <1>1, <1>4 DEF History, Sub, Now
<1>9. ReadSince(s)'  BY <1>1, <1>5, <1>7, <1>8 DEF ReadSince
<1>10. \A r \in Syncer \ {s} : pc'[r] = pc[r] /\ snap'[r] = snap[r]  BY <1>1, <1>2 DEF TypeOK
<1> QED  BY <1>3, <1>4, <1>9, <1>10, CollectInv

LEMMA WriteFileInv ==
  ASSUME Inv, NEW s \in Syncer, WriteFile(s) PROVE (SyncInv /\ PublishedWasReleased)'
<1>1. TypeOK /\ ReadSince(s) /\ History /\ PublishedWasReleased  BY DEF Inv, SyncInv
<1> DEFINE shown == Shows(Files[next[s]], snap[s])
<1>2. /\ pc[s] = "write" /\ next[s] \in DOMAIN Files
      /\ site' = [site EXCEPT ![next[s]] = shown] /\ next' = [next EXCEPT ![s] = @ + 1]
      /\ UNCHANGED <<tab, calendar, pc, snap, ever, since, alone>>
  BY DEF WriteFile, sources, history
<1>3. Within(shown, since[s])  BY <1>1, <1>2, ShowsWithin
<1> HIDE DEF shown
<1>4. Within(shown, ever)  BY <1>1, <1>3, WithinSub DEF History
<1>5. Now' = Now  BY <1>2 DEF Now
<1>6. History'  BY <1>1, <1>2, <1>5 DEF History, Sub, Running
<1>7. \A f \in DOMAIN Files : site'[f] = IF f = next[s] THEN shown ELSE site[f]
  BY <1>1, <1>2 DEF TypeOK
<1>8. PublishedWasReleased'  BY <1>1, <1>2, <1>4, <1>7 DEF PublishedWasReleased
<1>9. ASSUME NEW r \in Syncer PROVE (ReadSince(r) /\ OwnFiles(r) /\ Fresh(r))'
  <2>1. ReadSince(r) /\ OwnFiles(r) /\ Fresh(r)  BY DEF Inv, SyncInv
  <2>2. CASE r = s
    <3>1. next'[s] = next[s] + 1 /\ next[s] \in Nat \ {0}  BY <1>1, <1>2 DEF TypeOK
    <3>3. DOMAIN Files \subseteq Nat  BY FilesAssumption
    <3>4. ASSUME alone[s], NEW f \in DOMAIN Files, f < next[s] + 1
          PROVE  Within(site'[f], since[s])
      BY <1>2, <1>3, <1>7, <2>1, <2>2, <3>1, <3>3, <3>4 DEF OwnFiles
    <3>5. OwnFiles(s)'  BY <1>2, <2>1, <2>2, <3>1, <3>4 DEF OwnFiles, Running
    <3> QED  BY <1>2, <2>1, <2>2, <3>5 DEF ReadSince, Fresh, Running
  <2>3. CASE r # s
    <3>1. Running(s)  BY <1>2 DEF Running
    <3>2. ~ alone[r]  BY <2>1, <2>3, <3>1 DEF OwnFiles
    <3>3. next'[r] = next[r]  BY <1>1, <1>2, <2>3 DEF TypeOK
    <3> QED  BY <1>2, <2>1, <3>2, <3>3 DEF ReadSince, OwnFiles, Fresh, Running
  <2> QED  BY <2>2, <2>3
<1> QED  BY <1>6, <1>8, <1>9 DEF SyncInv

\* The end of a run, whatever it leaves of the file at hand.
LEMMA EndInv ==
  ASSUME Inv, NEW s \in Syncer, End(s), Running(s), PublishedWasReleased'
  PROVE  SyncInv'
<1>1. TypeOK /\ History  BY DEF Inv, SyncInv
<1>2. /\ pc' = [pc EXCEPT ![s] = "idle"] /\ snap' = [snap EXCEPT ![s] = Blank]
      /\ next' = [next EXCEPT ![s] = 1] /\ since' = [since EXCEPT ![s] = Nothing]
      /\ alone' = [alone EXCEPT ![s] = FALSE] /\ UNCHANGED <<tab, calendar, ever>>
  BY DEF End, sources
<1>3. Now' = Now  BY <1>2 DEF Now
<1>4. Sub(Nothing, ever)  BY DEF Nothing, Sub
<1>5. History'
  BY <1>1, <1>2, <1>3, <1>4 DEF History, TypeOK, Running, Sub
<1>6. ASSUME NEW r \in Syncer PROVE (ReadSince(r) /\ OwnFiles(r) /\ Fresh(r))'
  <2>1. ReadSince(r) /\ OwnFiles(r) /\ Fresh(r)  BY DEF Inv, SyncInv
  <2>2. CASE r = s
    <3>1. snap'[s] = Blank /\ next'[s] = 1 /\ pc'[s] = "idle" /\ ~ alone'[s]
      BY <1>1, <1>2 DEF TypeOK
    <3>2. ReadSince(s)'  BY <3>1, EmptyPasses DEF ReadSince, Blank, Within
    <3> QED  BY <2>2, <3>1, <3>2 DEF OwnFiles, Fresh, Running
  <2>3. CASE r # s
    <3>1. ~ alone[r]  BY <2>1, <2>3 DEF OwnFiles
    <3>2. /\ snap'[r] = snap[r] /\ next'[r] = next[r] /\ pc'[r] = pc[r]
          /\ since'[r] = since[r] /\ ~ alone'[r]
      BY <1>1, <1>2, <2>3, <3>1 DEF TypeOK
    <3> QED  BY <2>1, <3>2 DEF ReadSince, OwnFiles, Fresh, Running
  <2> QED  BY <2>2, <2>3
<1> QED  BY <1>5, <1>6 DEF SyncInv

LEMMA ReturnInv ==
  ASSUME Inv, NEW s \in Syncer, Return(s) PROVE (SyncInv /\ PublishedWasReleased)'
<1>1. PublishedWasReleased'  BY DEF Return, End, Inv, PublishedWasReleased
<1>2. Running(s)  BY DEF Return, Running
<1> QED  BY <1>1, <1>2, EndInv DEF Return

LEMMA AbortInv ==
  ASSUME Inv, NEW s \in Syncer, Abort(s) PROVE (SyncInv /\ PublishedWasReleased)'
<1>1. Running(s) /\ End(s) /\ ever' = ever  BY DEF Abort, Running, End
<1>2. TypeOK /\ ReadSince(s) /\ History /\ PublishedWasReleased  BY DEF Inv, SyncInv
<1>3. ASSUME UNCHANGED site PROVE PublishedWasReleased'  BY <1>1, <1>2, <1>3 DEF PublishedWasReleased
<1>4. ASSUME next[s] \in DOMAIN Files, NEW part \in SUBSET Shows(Files[next[s]], snap[s]),
             site' = [site EXCEPT ![next[s]] = part]
      PROVE  PublishedWasReleased'
  <2>1. Within(part, since[s])  BY <1>2, <1>4, ShowsWithin DEF Within
  <2>2. Within(part, ever)  BY <1>2, <2>1, WithinSub DEF History
  <2>3. \A f \in DOMAIN Files : site'[f] = IF f = next[s] THEN part ELSE site[f]
    BY <1>2, <1>4 DEF TypeOK
  <2> QED  BY <1>1, <1>2, <2>2, <2>3 DEF PublishedWasReleased
<1>5. PublishedWasReleased'  BY <1>3, <1>4 DEF Abort
<1> QED  BY <1>1, <1>5, EndInv

LEMMA StutterInv ==
  ASSUME Inv, UNCHANGED vars PROVE (SyncInv /\ PublishedWasReleased)'
<1>1. UNCHANGED <<tab, calendar, pc, snap, next, site, ever, since, alone>>
  BY DEF vars, sources, history
<1>2. Now' = Now  BY <1>1 DEF Now
<1> QED
  BY <1>1, <1>2 DEF Inv, SyncInv, History, ReadSince, OwnFiles, Fresh, Running, Sub, PublishedWasReleased

LEMMA NextInv == Inv /\ [Next]_vars => Inv'
<1> SUFFICES ASSUME Inv, [Next]_vars PROVE Inv'
  OBVIOUS
<1>1. TypeOK'  BY NextType DEF Inv, SyncInv
<1>2. (SyncInv /\ PublishedWasReleased)'
  BY SourceStepInv, StartInv, ReadTabInv, ListPageInv, WriteFileInv, ReturnInv, AbortInv, StutterInv
     DEF Next
<1> QED  BY <1>1, <1>2 DEF Inv

LEMMA AlwaysInv == Spec => []Inv
<1>1. Init => Inv  BY InitInv
<1>2. Inv /\ [Next]_vars => Inv'  BY NextInv
<1> QED  BY <1>1, <1>2, PTL DEF Spec

-----------------------------------------------------------------------------
(* Theorems.                                                               *)

\* Every reachable state is well typed.
THEOREM TypeInvariant == Spec => []TypeOK
<1>1. Inv => TypeOK  BY DEF Inv
<1> QED  BY <1>1, AlwaysInv, PTL

\* Whatever runs of run_sync overlap or die halfway, a file shows only records
\* that were released at some time, and events that were live.
THEOREM SiteShowsReleased == Spec => []PublishedWasReleased
<1>1. Inv => PublishedWasReleased  BY DEF Inv
<1> QED  BY <1>1, AlwaysInv, PTL

\* A run that no other overlaps leaves nothing on the site that had been taken
\* back before it began, whatever earlier runs have left there.
THEOREM CompleteRunLeavesNothingStale == Spec => []CompleteRunIsFresh
<1>1. Inv => CompleteRunIsFresh
  <2> SUFFICES ASSUME Inv, NEW s \in Syncer, pc[s] = "write", next[s] \notin DOMAIN Files,
                      alone[s], NEW f \in DOMAIN Files
               PROVE  Within(site[f], since[s])
    BY DEF CompleteRunIsFresh
  <2>1. OwnFiles(s) /\ TypeOK  BY DEF Inv, SyncInv
  <2>2. f < next[s]
    <3>1. DOMAIN Files = 1 .. Len(Files) /\ Len(Files) \in Nat  BY FilesAssumption
    <3>2. next[s] \in Nat \ {0}  BY <2>1 DEF TypeOK
    <3> QED  BY <3>1, <3>2
  <2> QED  BY <2>1, <2>2 DEF OwnFiles
<1> QED  BY <1>1, AlwaysInv, PTL

-----------------------------------------------------------------------------
(* Records taken back.                                                     *)

\* rows differs from the rows of t in row i only, and not in its ID.
ChangesRow(t, rows, i) ==
  /\ i \in DOMAIN rows
  /\ \A j \in DOMAIN rows \ {i} : j \in DOMAIN tab[t] /\ rows[j] = tab[t][j]
  /\ \A j \in DOMAIN tab[t] : j \in DOMAIN rows /\ tab[t][j].id = rows[j].id

\* A write to row i leaves the rows of every other key as they are.
LEMMA BuriedKept ==
  ASSUME NEW t \in ItemTab, NEW rows, NEW i,
         tab \in [ItemTab -> Seq(Row)], tab' = [tab EXCEPT ![t] = rows],
         ChangesRow(t, rows, i)
  PROVE  \A u \in ItemTab, d \in Id :
           Buried(u, d) /\ <<u, d>> # <<t, rows[i].id>> => Buried(u, d)'
<1> SUFFICES ASSUME NEW u \in ItemTab, NEW d \in Id, Buried(u, d), <<u, d>> # <<t, rows[i].id>>
             PROVE  Buried(u, d)'
  OBVIOUS
<1>1. CASE u # t
  <2>1. tab'[u] = tab[u]  BY <1>1
  <2> QED  BY <2>1 DEF Buried
<1>2. CASE u = t
  <2>1. tab'[u] = rows /\ d # rows[i].id  BY <1>2
  <2>2. PICK k \in DOMAIN tab[t] :
          /\ tab[t][k].id = d /\ ~ MayBePublic(t, tab[t][k].body)
          /\ \A j \in At(tab[t], d) \ {k} : tab[t][j].updated < tab[t][k].updated
    BY <1>2 DEF Buried
  <2>3. k \in DOMAIN rows /\ k # i /\ rows[k] = tab[t][k]  BY <2>1, <2>2 DEF ChangesRow
  <2>4. \A j \in At(rows, d) : j \in At(tab[t], d) /\ rows[j] = tab[t][j]
    BY <2>1 DEF At, ChangesRow
  <2> QED  BY <1>2, <2>1, <2>2, <2>3, <2>4 DEF Buried
<1> QED  BY <1>1, <1>2

\* A write of the bot or the staff.
LEMMA PutHidden ==
  ASSUME TypeOK, HiddenInv, NEW t \in ItemTab, NEW rows, NEW i,
         ChangesRow(t, rows, i),
         BotPut(t, rows, i) \/ StaffPut(t, rows, i)
  PROVE  HiddenInv'
<1>1. tab \in [ItemTab -> Seq(Row)] /\ hidden \subseteq ItemTab \X Id  BY DEF TypeOK
<1>2. tab' = [tab EXCEPT ![t] = rows]  BY DEF BotPut, StaffPut, Put
<1>3. ASSUME NEW h \in hidden, h # <<t, rows[i].id>> PROVE Buried(h[1], h[2])'
  <2>4. \A u \in ItemTab, d \in Id :
          Buried(u, d) /\ <<u, d>> # <<t, rows[i].id>> => Buried(u, d)'
    BY <1>1, <1>2, BuriedKept
  <2>1. h[1] \in ItemTab /\ h[2] \in Id /\ h = <<h[1], h[2]>>  BY <1>1
  <2>2. Buried(h[1], h[2])  BY DEF HiddenInv
  <2>3. <<h[1], h[2]>> # <<t, rows[i].id>>  BY <1>3, <2>1
  <2> QED  BY <2>1, <2>2, <2>3, <2>4
<1>4. ASSUME TakesBack(t, rows, i) PROVE Buried(t, rows[i].id)'
  <2>1. tab'[t] = rows  BY <1>1, <1>2
  <2> QED  BY <1>4, <2>1 DEF TakesBack, Buried, ChangesRow
<1>5. CASE TakesBack(t, rows, i) /\ hidden' = hidden \cup {<<t, rows[i].id>>}
  <2> SUFFICES ASSUME NEW h \in hidden' PROVE Buried(h[1], h[2])'
    BY DEF HiddenInv
  <2>1. CASE h = <<t, rows[i].id>>  BY <1>4, <1>5, <2>1
  <2>2. CASE h # <<t, rows[i].id>>  BY <1>3, <1>5, <2>2
  <2> QED  BY <2>1, <2>2
<1>6. CASE hidden' = hidden \ {<<t, rows[i].id>>}  BY <1>3, <1>6 DEF HiddenInv
<1> QED  BY <1>5, <1>6 DEF BotPut, StaffPut

LEMMA NextHidden == Inv /\ HiddenInv /\ [Next]_vars => HiddenInv'
<1> SUFFICES ASSUME Inv, HiddenInv, [Next]_vars PROVE HiddenInv'
  OBVIOUS
<1>1. TypeOK  BY DEF Inv
<1>2. ASSUME NEW t \in ItemTab, BotAppend(t) \/ StaffAppend(t) PROVE HiddenInv'
  <2>1. PICK r : LET rows == Append(tab[t], r) IN
                 BotPut(t, rows, Len(tab[t]) + 1) \/ StaffPut(t, rows, Len(tab[t]) + 1)
    BY <1>2 DEF BotAppend, StaffAppend
  <2>2. tab[t] \in Seq(Row)  BY <1>1 DEF TypeOK
  <2> DEFINE rows == Append(tab[t], r)  i == Len(tab[t]) + 1
  <2>3. DOMAIN rows = 1 .. i /\ DOMAIN tab[t] = 1 .. Len(tab[t])  BY <2>2
  <2>4. \A j \in DOMAIN tab[t] : rows[j] = tab[t][j]  BY <2>2
  <2> HIDE DEF rows
  <2>5. i \in DOMAIN rows  BY <2>2, <2>3
  <2>6. \A j \in DOMAIN rows \ {i} : j \in DOMAIN tab[t] /\ rows[j] = tab[t][j]  BY <2>2, <2>3, <2>4
  <2>7. \A j \in DOMAIN tab[t] : j \in DOMAIN rows /\ tab[t][j].id = rows[j].id  BY <2>2, <2>3, <2>4
  <2>8. BotPut(t, rows, i) \/ StaffPut(t, rows, i)  BY <2>1 DEF rows
  <2>9. ChangesRow(t, rows, i)  BY <2>5, <2>6, <2>7 DEF ChangesRow
  <2> HIDE DEF i
  <2> QED  BY <1>1, <2>8, <2>9, PutHidden
<1>3. ASSUME NEW t \in ItemTab, BotUpdate(t) \/ StaffEdit(t) PROVE HiddenInv'
  <2> DEFINE Writes(rows, i) ==
        /\ BotPut(t, rows, i) \/ StaffPut(t, rows, i)
        /\ \/ \E b \in Body[t] : rows = [tab[t] EXCEPT ![i].body = b]
           \/ \E b \in Body[t], c \in Second : rows = [tab[t] EXCEPT ![i].updated = c, ![i].body = b]
  <2>0. PICK i \in DOMAIN tab[t] : \E rows : Writes(rows, i)
    BY <1>3 DEF BotUpdate, StaffEdit
  <2>1. PICK rows : Writes(rows, i)
    BY <2>0
  <2>2. tab[t] \in Seq(Row) /\ tab[t][i] \in Row  BY <1>1 DEF TypeOK
  <2>3. DOMAIN rows = DOMAIN tab[t] /\ \A j \in DOMAIN rows \ {i} : rows[j] = tab[t][j]
    BY <2>1, <2>2
  <2>4. rows[i].id = tab[t][i].id  BY <2>1, <2>2 DEF Row
  <2>5. ChangesRow(t, rows, i)  BY <2>3, <2>4 DEF ChangesRow
  <2> QED  BY <1>1, <2>1, <2>5, PutHidden
<1>4. ASSUME UNCHANGED <<tab, hidden>> PROVE HiddenInv'
  BY <1>4 DEF HiddenInv, Buried
<1>5. CASE \E e \in Event : ChangeEvent(e)  BY <1>4, <1>5 DEF ChangeEvent
<1>6. ASSUME NEW s \in Syncer,
             Start(s) \/ ReadTab(s) \/ ListPage(s) \/ WriteFile(s) \/ Return(s) \/ Abort(s)
      PROVE  UNCHANGED <<tab, hidden>>
  BY <1>6 DEF Start, ReadTab, ListPage, WriteFile, Return, Abort, End, Collect, sources, history
<1>7. CASE UNCHANGED vars  BY <1>4, <1>7 DEF vars, sources, history
<1> QED  BY <1>2, <1>3, <1>4, <1>5, <1>6, <1>7 DEF Next, SourceStep

\* A record that a write of the bot has taken back, later than every other row
\* with its ID, is exported by no reading until it is written again.
THEOREM TakenBackStaysHidden == Spec => []TakenBackIsHidden
<1>1. Init => HiddenInv  BY DEF Init, HiddenInv
<1>2. TypeOK /\ HiddenInv => TakenBackIsHidden
  <2> SUFFICES ASSUME TypeOK, HiddenInv, NEW t \in ItemTab, NEW m \in Passing(t, tab[t]),
                      <<t, m.row.id>> \in hidden
               PROVE  FALSE
    BY DEF TakenBackIsHidden
  <2>1. tab[t] \in Seq(Row)  BY DEF TypeOK
  <2>2. PICK x \in deduplicate_rows(tab[t]) : m = [tab |-> t, row |-> x] /\ Safe(t, x.body)
    BY DEF Passing
  <2>3. PICK k \in DOMAIN tab[t] :
          /\ x = tab[t][k]
          /\ \A j \in At(tab[t], tab[t][k].id) : tab[t][j].updated <= tab[t][k].updated
    BY <2>1, <2>2, DedupRows
  <2>4. \A j \in DOMAIN tab[t] : tab[t][j].updated \in Nat /\ tab[t][j].body \in AnyBody
    <3>1. \A j \in DOMAIN tab[t] : tab[t][j] \in Row  BY <2>1
    <3> QED  BY <3>1 DEF Row
  <2>5. m.row = tab[t][k]  BY <2>2, <2>3
  <2>6. PICK i \in DOMAIN tab[t] :
          /\ tab[t][i].id = tab[t][k].id /\ ~ MayBePublic(t, tab[t][i].body)
          /\ \A j \in At(tab[t], tab[t][k].id) \ {i} : tab[t][j].updated < tab[t][i].updated
    BY <2>5 DEF HiddenInv, Buried
  <2>7. MayBePublic(t, tab[t][k].body)  BY <2>2, <2>3, <2>4, SafeIsPublic
  <2>8. k # i /\ k \in At(tab[t], tab[t][k].id) /\ i \in At(tab[t], tab[t][k].id)
    BY <2>6, <2>7 DEF At
  <2>9. tab[t][k].updated < tab[t][i].updated /\ tab[t][i].updated <= tab[t][k].updated
    BY <2>3, <2>6, <2>8
  <2> QED  BY <2>4, <2>9
<1>3. Inv => TypeOK  BY DEF Inv
<1> QED  BY <1>1, <1>2, <1>3, AlwaysInv, NextHidden, PTL DEF Spec

-----------------------------------------------------------------------------
(* The counts of a dry run.                                                *)

\* A nonempty set of numbers has a least element.
LEMMA LeastNumber ==
  ASSUME NEW S, S \subseteq Nat, S # {}
  PROVE  \E x \in S : \A y \in S : x =< y
<1> DEFINE Below == {ss \in Nat \X Nat : ss[1] < ss[2]}
<1>1. IsWellFoundedOn(Below, Nat)
  BY NatLessThanWellFounded DEF OpToRel
<1>2. \E x \in S : \A y \in S : ~ (<<y, x>> \in Below)
  <2> HIDE DEF Below
  <2> QED BY <1>1, WFMin
<1>3. PICK x \in S : \A y \in S : ~ (<<y, x>> \in Below)
  BY <1>2
<1>4. ASSUME NEW y \in S PROVE x =< y
  <2>1. x \in Nat /\ y \in Nat /\ ~ (<<y, x>> \in Below)
    BY <1>3
  <2> QED BY <2>1
<1> QED BY <1>4

\* Row j is preferred to row k.
Later(rows, j, k) ==
  rows[k].updated < rows[j].updated \/ (rows[k].updated = rows[j].updated /\ k < j)
Kept(rows, k) ==
  rows[k].id # NoId /\ \A j \in At(rows, rows[k].id) : \/ rows[j].updated < rows[k].updated
                                                       \/ rows[j].updated = rows[k].updated /\ j <= k

LEMMA RowFields ==
  ASSUME NEW rows \in Seq(Row)
  PROVE  /\ DOMAIN rows = 1 .. Len(rows) /\ Len(rows) \in Nat
         /\ \A k \in DOMAIN rows : /\ k \in Nat /\ rows[k].updated \in Nat
                                   /\ rows[k].id \in Id \cup {NoId} /\ rows[k].body \in AnyBody
<1>1. \A k \in DOMAIN rows : rows[k] \in Row  OBVIOUS
<1> QED  BY <1>1 DEF Row

LEMMA DomainFinite ==
  ASSUME NEW rows \in Seq(Row), NEW S, S \subseteq DOMAIN rows
  PROVE  IsFiniteSet(S) /\ IsFiniteSet(DOMAIN rows) /\ Cardinality(DOMAIN rows) = Len(rows)
<1>1. IsFiniteSet(1 .. Len(rows)) /\ Cardinality(1 .. Len(rows)) = Len(rows)
  <2>1. Len(rows) \in Nat  OBVIOUS
  <2>2. Cardinality(1 .. Len(rows)) = IF 1 > Len(rows) THEN 0 ELSE Len(rows) - 1 + 1
    BY <2>1, FS_Interval
  <2> QED  BY <2>1, <2>2, FS_Interval
<1> QED  BY <1>1, RowFields, FS_Subset

\* Of the rows with a key, one is kept.
LEMMA OneIsKept ==
  ASSUME NEW rows \in Seq(Row), NEW d \in Ids(rows)
  PROVE  \E k \in At(rows, d) : Kept(rows, k)
<1> DEFINE A == At(rows, d)
           Above(k) == {j \in A : Later(rows, j, k)}
           Counts == {Cardinality(Above(k)) : k \in A}
<1>1. A \subseteq DOMAIN rows /\ A # {} /\ d # NoId
  BY DEF At, Ids
<1>2. \A k \in A : k \in Nat /\ rows[k].updated \in Nat /\ rows[k].id = d
  BY <1>1, RowFields DEF At
<1>3. \A k \in A : IsFiniteSet(Above(k)) /\ Cardinality(Above(k)) \in Nat
  <2>1. \A k \in A : Above(k) \subseteq DOMAIN rows  BY <1>1
  <2> HIDE DEF A, Above
  <2> QED  BY <2>1, DomainFinite, FS_CardinalityType
<1>4. PICK k \in A : \A j \in A : Cardinality(Above(k)) =< Cardinality(Above(j))
  <2>1. Counts \subseteq Nat /\ Counts # {}  BY <1>1, <1>3
  <2> HIDE DEF Counts
  <2>2. PICK x \in Counts : \A y \in Counts : x =< y  BY <2>1, LeastNumber
  <2> QED  BY <2>2 DEF Counts
<1>5. ASSUME NEW j \in A, Later(rows, j, k)  PROVE FALSE
  <2>1. Above(j) \subseteq Above(k) /\ j \in Above(k) /\ j \notin Above(j)
    BY <1>2, <1>5 DEF Later
  <2>2. IsFiniteSet(Above(k)) /\ Cardinality(Above(k)) \in Nat /\ Cardinality(Above(j)) \in Nat
    BY <1>3
  <2>3. Cardinality(Above(k)) =< Cardinality(Above(j))
    BY <1>4
  <2> HIDE DEF Above, A
  <2>4. Cardinality(Above(j)) <= Cardinality(Above(k)) /\ (Cardinality(Above(k)) = Cardinality(Above(j)) => Above(k) = Above(j))
    BY <2>1, <2>2, FS_Subset
  <2> QED  BY <2>1, <2>2, <2>3, <2>4
<1>6. Kept(rows, k)
  <2>1. rows[k].id = d /\ A = At(rows, rows[k].id)
    BY <1>2
  <2>2. ASSUME NEW j \in A
        PROVE  rows[j].updated < rows[k].updated \/ (rows[j].updated = rows[k].updated /\ j <= k)
    <3>1. ~ Later(rows, j, k)  BY <1>5
    <3> QED  BY <1>2, <3>1 DEF Later
  <2> QED  BY <1>1, <2>1, <2>2 DEF Kept
<1> QED  BY <1>6

\* deduplicate_rows keeps as many rows as there are keys: one of each.
LEMMA OneRowPerKey ==
  ASSUME NEW rows \in Seq(Row)
  PROVE  /\ IsFiniteSet(deduplicate_rows(rows))
         /\ Cardinality(deduplicate_rows(rows)) = Cardinality(Ids(rows))
<1> DEFINE K == {k \in DOMAIN rows : Kept(rows, k)}
           D == deduplicate_rows(rows)
           f == [k \in K |-> rows[k]]
           g == [r \in D |-> r.id]
<1>1. D = {rows[k] : k \in K}
  BY DEF deduplicate_rows, Kept
<1>2. IsFiniteSet(D)
  <2>1. IsFiniteSet(K)  BY DomainFinite
  <2>2. f \in Surjection(K, D)  BY <1>1 DEF Surjection
  <2> HIDE DEF K, D, f
  <2> QED  BY <2>1, <2>2, FS_Surjection
<1>3. ASSUME NEW j \in K, NEW k \in K, rows[j].id = rows[k].id  PROVE j = k
  <2>1. j \in At(rows, rows[k].id) /\ k \in At(rows, rows[j].id)
    BY <1>3 DEF At
  <2>2. j \in Nat /\ k \in Nat /\ rows[j].updated \in Nat /\ rows[k].updated \in Nat
    BY RowFields
  <2> QED  BY <2>1, <2>2 DEF Kept
<1>4. g \in Bijection(D, Ids(rows))
  <2>1. \A r \in D : r.id \in Ids(rows)
    BY <1>1 DEF Kept, Ids
  <2>2. \A r, q \in D : r.id = q.id => r = q
    BY <1>1, <1>3
  <2>3. ASSUME NEW d \in Ids(rows)  PROVE \E r \in D : r.id = d
    <3>1. PICK k \in At(rows, d) : Kept(rows, k)  BY OneIsKept
    <3>2. k \in K /\ rows[k].id = d  BY <3>1 DEF At
    <3> QED  BY <1>1, <3>2
  <2> HIDE DEF D
  <2> QED  BY <2>1, <2>2, <2>3 DEF Bijection, Injection, Surjection, IsInjective
<1>5. ExistsBijection(D, Ids(rows))
  BY <1>4 DEF ExistsBijection
<1> HIDE DEF D
<1>6. Cardinality(Ids(rows)) = Cardinality(D)
  BY <1>2, <1>5, FS_Bijection
<1> QED  BY <1>2, <1>6 DEF D

\* A row that is kept is exported or rejected, and not both.
LEMMA ExportedOrRejected ==
  ASSUME NEW t \in RecordTab, NEW rows \in Seq(Row)
  PROVE  /\ Cardinality(Passing(t, rows)) \in Nat /\ rejected(rows) \in Nat
         /\ Cardinality(deduplicate_rows(rows)) = Cardinality(Passing(t, rows)) + rejected(rows)
<1> DEFINE D == deduplicate_rows(rows)
           E == {r \in D : safe_record(r.body)}
           J == {r \in D : rejection_reason(r.body) # "none"}
           f == [r \in E |-> [tab |-> t, row |-> r]]
<1>1. IsFiniteSet(D)  BY OneRowPerKey
<1>2. \A r \in D : r.body \in AnyBody
  BY RowFields DEF deduplicate_rows
<1>3. E \cup J = D /\ E \cap J = {}
  BY <1>2, GatesAgree
<1>4. E \subseteq D /\ J \subseteq D /\ rejected(rows) = Cardinality(J)
  BY DEF rejected
<1>5. Passing(t, rows) = {[tab |-> t, row |-> r] : r \in E}
  BY DEF Passing, Safe, RecordTab
<1>6. f \in Bijection(E, Passing(t, rows))
  <2>1. \A r, q \in E : [tab |-> t, row |-> r] = [tab |-> t, row |-> q] => r = q
    OBVIOUS
  <2> HIDE DEF E
  <2> QED  BY <1>5, <2>1 DEF Bijection, Injection, Surjection, IsInjective
<1>7. ExistsBijection(E, Passing(t, rows))
  BY <1>6 DEF ExistsBijection
<1> HIDE DEF D, E, J
<1>8. /\ IsFiniteSet(E) /\ IsFiniteSet(J)
      /\ Cardinality(E) \in Nat /\ Cardinality(J) \in Nat
  BY <1>1, <1>4, FS_Subset, FS_CardinalityType
<1>9. Cardinality(Passing(t, rows)) = Cardinality(E)
  BY <1>7, <1>8, FS_Bijection
<1>10. Cardinality(E \cup J) = Cardinality(E) + Cardinality(J) - Cardinality(E \cap J)
  BY <1>8, FS_Union
<1>11. Cardinality(E \cap J) = 0
  BY <1>3, FS_EmptySet
<1>12. Cardinality(D) = Cardinality(E) + Cardinality(J)
  <2>1. Cardinality(D) = Cardinality(E) + Cardinality(J) - Cardinality(E \cap J)
    BY <1>3, <1>10
  <2> QED  BY <1>8, <1>11, <2>1
<1>13. Cardinality(D) = Cardinality(Passing(t, rows)) + rejected(rows)
  BY <1>4, <1>9, <1>12
<1>14. Cardinality(Passing(t, rows)) \in Nat /\ rejected(rows) \in Nat
  BY <1>4, <1>8, <1>9
<1> QED  BY <1>13, <1>14 DEF D

\* Whatever the rows of a tab, however many have one key or none, and whatever
\* was changed while it was read: what a dry run reports as exported, rejected,
\* duplicate and without a key adds up to the rows that it has read
\* (deduplicate_rows, rejection_reason, tab_report).
THEOREM DryRunsAddUp == Spec => []DryRunAccounts
<1>1. ASSUME TypeOK  PROVE DryRunAccounts
  <2> SUFFICES ASSUME NEW s \in Syncer, NEW t \in RecordTab
               PROVE  LET rows == snap[s].tab[t] IN
                      Len(rows) = Cardinality(Approved(snap[s], t)) + rejected(rows)
                                    + duplicate_count(rows) + missing_primary_keys(rows)
    BY DEF DryRunAccounts
  <2>1. PICK rows \in Seq(Row) : rows = snap[s].tab[t]
    BY <1>1 DEF TypeOK, Snapshot, ItemTab
  <2>2. Approved(snap[s], t) = Passing(t, rows)
    BY <2>1 DEF Approved, RecordTab
  <2>3. /\ Cardinality(Passing(t, rows)) \in Nat /\ rejected(rows) \in Nat
        /\ Cardinality(Passing(t, rows)) + rejected(rows) = Cardinality(Ids(rows))
    BY ExportedOrRejected, OneRowPerKey
  <2> DEFINE D == DOMAIN rows
             A == At(rows, NoId)
  <2>4. A \subseteq D  BY DEF At
  <2> HIDE DEF D, A
  <2>5. IsFiniteSet(D) /\ IsFiniteSet(A) /\ Cardinality(D) = Len(rows) /\ Len(rows) \in Nat
    BY <2>4, DomainFinite, RowFields DEF D
  <2>6. Cardinality(D \ A) = Cardinality(D) - Cardinality(A)
    <3>1. D \cap A = A  BY <2>4
    <3>2. Cardinality(D \ A) = Cardinality(D) - Cardinality(D \cap A)
      BY <2>5, FS_Difference
    <3> QED  BY <3>1, <3>2
  <2>7. Cardinality(A) \in Nat  BY <2>5, FS_CardinalityType
  <2>8. /\ duplicate_count(rows) = Cardinality(D \ A) - Cardinality(Ids(rows))
        /\ missing_primary_keys(rows) = Cardinality(A)
    BY DEF duplicate_count, missing_primary_keys, D, A
  <2>9. Len(rows) = Cardinality(Passing(t, rows)) + rejected(rows)
                      + duplicate_count(rows) + missing_primary_keys(rows)
    BY <2>3, <2>5, <2>6, <2>7, <2>8
  <2> QED  BY <2>1, <2>2, <2>9
<1> QED  BY <1>1, TypeInvariant, PTL
=============================================================================
