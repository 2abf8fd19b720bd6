---------------------------- MODULE SheetRecords ----------------------------
(***************************************************************************)
(* One record tab (Requests, Donations, Reports, Tasks or Inventory) and   *)
(* the AuditLog: the add_*, update_* and update_inventory operations of    *)
(* operations.py, with the reading that numbers a /need and the one that   *)
(* resolves the target of a follow-up in router.py.                        *)
(*                                                                         *)
(* Each operation is a sequence of calls to the spreadsheet with no lock   *)
(* and no transaction around them; every action is one call, so operations *)
(* of different processes interleave between any two.  Nobody but these    *)
(* operations writes to the tab.  ensure_header rewrites a constant and is *)
(* left out.  Of the AuditLog, the entries for rows written are kept: they *)
(* show some columns of the row, on a creation the description alone.      *)
(***************************************************************************)
EXTENDS Naturals, Sequences, SequencesExt

CONSTANTS Worker,    \* processes
          MaxLive,   \* REQ-LIVE-<today>-001 .. MaxLive
          Fresh,     \* IDs that gen_id can draw
          Names,     \* per worker, the IDs its messages name
          Numberer,  \* workers that receive /need without an ID
          Field, Value,
          Change,    \* what a message can mention: values of some fields
          Logged,    \* per outcome, the fields that the audit entry shows
          Optional,  \* fields that /inventory leaves empty when not mentioned
          None,
          Window,    \* rows that _row_exists reads (499)
          Reach,     \* rows that the other readers read (999)
          MaxRows,   \* bound on the rows of the tab
          Faults     \* "call": any call may raise or its process die;
                     \* "read": a reading whose exception is swallowed

Live == 1 .. MaxLive
Id == Live \cup Fresh \cup UNION {Names[w] : w \in Worker}
Body == [Field -> Value]
Partial == UNION {[S -> Value] : S \in SUBSET Field}
Row == [id : Id, body : Body]
Entry == UNION {[op : {o}, id : Id, after : [Logged[o] -> Value]] : o \in {"create", "update"}}
Draft == [id : Id \cup {0}, body : Body]  \* a row to write; 0: not numbered yet
Request == [op : {"add", "update", "upsert"}, id : Id \cup {0}, change : Partial]

ASSUME ConstantsAssumption ==
  /\ MaxLive \in Nat /\ Window \in Nat /\ Reach \in Nat /\ MaxRows \in Nat
  /\ Window <= Reach
  /\ Change \subseteq Partial
  /\ Logged \in [{"create", "update"} -> SUBSET Field]
  /\ Value # {} /\ None \notin Draft /\ None \notin Request /\ 0 \notin Id
  /\ Numberer \subseteq Worker /\ Optional \subseteq Field
  /\ \A w \in Worker : Fresh \cap (Names[w] \cup Live) = {}
  /\ Faults \subseteq {"call", "read"}

VARIABLES rows,    \* the tab, below its header
          last,    \* per row, how it was last written: by a creation, by an
                   \* update, or by a writer that died before it logged it
          audit,   \* the AuditLog's entries for rows created or updated
          pc,      \* per worker, the call it makes next
          msg,     \* per worker, the operation and what it was asked to change
          held,    \* per worker, the row it is about to write
          at       \* per worker, the index of the row it has found

vars == <<rows, last, audit, pc, msg, held, at>>
local == <<msg, held, at>>

Outcome == {"create", "update", "duplicate_skipped", "update_missing"}
Message == [op : {"add", "update", "upsert"} \cup Outcome, named : BOOLEAN,
            change : Partial]

TypeOK ==
  /\ rows \in Seq(Row) /\ audit \subseteq Entry
  /\ last \in Seq({"create", "update", "lost"}) /\ Len(last) = Len(rows)
  /\ pc \in [Worker -> {"idle", "number", "check", "append", "find", "write", "log"}]
  /\ msg \in [Worker -> Message \cup {None}]
  /\ held \in [Worker -> Draft \cup {None}]
  /\ at \in [Worker -> Nat]

Init ==
  /\ rows = <<>> /\ last = <<>> /\ audit = {}
  /\ pc = [w \in Worker |-> "idle"]
  /\ msg = [w \in Worker |-> None]
  /\ held = [w \in Worker |-> None]
  /\ at = [w \in Worker |-> 0]

Ids == {rows[i].id : i \in DOMAIN rows}
\* _find_row_by_id: the first row with that ID among those it reads, or 0.
RowAt(d) == LET i == SelectInSeq(rows, LAMBDA r : r.id = d) IN IF i <= Reach THEN i ELSE 0
\* Named fields replace those of the body.
Overlay(b, c) == [f \in Field |-> IF f \in DOMAIN c THEN c[f] ELSE b[f]]
\* A new row: fields that the message does not mention get a default.
Default == [f \in Field |-> CHOOSE v \in Value : TRUE]
Fill(c) == Overlay(Default, c)

Goto(w, l) == pc' = [pc EXCEPT ![w] = l]
Hold(w, r) == held' = [held EXCEPT ![w] = r]
\* The operation has had outcome o; what is left is its audit entry.
Log(w, o) == Goto(w, "log") /\ msg' = [msg EXCEPT ![w].op = o]
\* The operation has changed a row that its audit entry is still to name.
Wrote(w) == pc[w] = "log" /\ msg[w].op \in {"create", "update"}
Return(w) ==
  /\ Goto(w, "idle") /\ Hold(w, None)
  /\ msg' = [msg EXCEPT ![w] = None]
  /\ at' = [at EXCEPT ![w] = 0]
Accept(w, l, op, named, c, r) ==
  /\ pc[w] = "idle" /\ Goto(w, l) /\ Hold(w, r)
  /\ msg' = [msg EXCEPT ![w] = [op |-> op, named |-> named, change |-> c]]
  /\ UNCHANGED <<rows, last, audit, at>>

-----------------------------------------------------------------------------
(* Messages.                                                               *)

\* add_request, add_donation, add_report, add_task: the ID is named, or drawn
\* by gen_id.
AddRecord(w) ==
  \E c \in Change :
    \/ \E d \in Names[w] : Accept(w, "check", "add", TRUE, c, [id |-> d, body |-> Fill(c)])
    \/ \E d \in Fresh :
         /\ d \notin Ids /\ \A v \in Worker : held[v] # None => held[v].id # d
         /\ Accept(w, "check", "add", FALSE, c, [id |-> d, body |-> Fill(c)])

\* route_need: a need without an ID (0 here) is numbered first.
AddNeed(w) ==
  /\ w \in Numberer
  /\ \E c \in Change : Accept(w, "number", "add", FALSE, c, [id |-> 0, body |-> Fill(c)])

\* update_request and its like, called with the fields to change.
UpdateRecord(w) ==
  \E c \in Change, d \in Names[w] :
    Accept(w, "find", "update", TRUE, c, [id |-> d, body |-> Fill(c)])

\* A follow-up: the target is read here, and all its fields are passed on,
\* those of this reading where the message does not mention them.
FollowUp(w) ==
  \E c \in Change, d \in Names[w] \cap Ids :
    /\ RowAt(d) # 0
    /\ LET b == Overlay(rows[RowAt(d)].body, c) IN
       Accept(w, "find", "update", TRUE, b, [id |-> d, body |-> b])

\* update_inventory, from route_inventory: a field that the message does not
\* mention is passed as UNKNOWN, or empty; an empty one does not overwrite.
UpsertRecord(w) ==
  \E c \in Change :
    LET passed == [f \in DOMAIN c \cup (Field \ Optional) |-> Fill(c)[f]] IN
    \/ \E d \in Names[w] : Accept(w, "find", "upsert", TRUE, passed, [id |-> d, body |-> Fill(c)])
    \/ \E d \in Fresh :
         /\ d \notin Ids /\ \A v \in Worker : held[v] # None => held[v].id # d
         /\ Accept(w, "find", "upsert", FALSE, passed, [id |-> d, body |-> Fill(c)])

-----------------------------------------------------------------------------
(* The calls.                                                              *)

LastNumber == LET seen == {rows[i].id : i \in {j \in DOMAIN rows : j <= Reach}} \cap Live
              IN CHOOSE n \in seen \cup {0} : \A m \in seen : m <= n

\* Faulty: a record without an ID stays without one.
NumberRecordNever(w) ==
  /\ pc[w] = "number" /\ Goto(w, "check")
  /\ UNCHANGED <<rows, last, audit, local>>

\* Faulty: the numbers in use are counted.
NumberRecordByCount(w) ==
  /\ pc[w] = "number"
  /\ Hold(w, [held[w] EXCEPT !.id = Len(rows) + 1])
  /\ Len(rows) < MaxLive /\ Goto(w, "check")
  /\ UNCHANGED <<rows, last, audit, msg, at>>

\* generate_live_request_id: the highest number of today plus one; 1 when the
\* reading raises.
NumberRecord(w) ==
  /\ pc[w] = "number"
  /\ \E n \in {LastNumber} \cup (IF "read" \in Faults THEN {0} ELSE {}) :
       n < MaxLive /\ Hold(w, [held[w] EXCEPT !.id = n + 1])
  /\ Goto(w, "check")
  /\ UNCHANGED <<rows, last, audit, msg, at>>

\* Faulty: the header is skipped twice.
CheckDuplicateBelow(w) ==
  /\ pc[w] = "check"
  /\ LET exists == \E i \in DOMAIN rows : i > 1 /\ i <= Window /\ rows[i].id = held[w].id IN
     \/ exists /\ Log(w, "duplicate_skipped")
     \/ ~exists /\ Goto(w, "append") /\ UNCHANGED msg
  /\ UNCHANGED <<rows, last, audit, held, at>>

\* _row_exists.
CheckDuplicate(w) ==
  /\ pc[w] = "check"
  /\ LET exists == \E i \in DOMAIN rows : i <= Window /\ rows[i].id = held[w].id IN
     \/ exists /\ Log(w, "duplicate_skipped")
     \/ (~exists \/ "read" \in Faults) /\ Goto(w, "append") /\ UNCHANGED msg
  /\ UNCHANGED <<rows, last, audit, held, at>>

\* append_row: the service inserts below the last row.
AppendRow(w) ==
  /\ pc[w] = "append"
  /\ Len(rows) < MaxRows
  /\ rows' = Append(rows, held[w]) /\ last' = Append(last, "create")
  /\ Log(w, "create")
  /\ UNCHANGED <<audit, held, at>>

\* What will be written to row i is decided by this reading of it.
Found(w, i) ==
  /\ i # 0 /\ Hold(w, [held[w] EXCEPT !.body = Overlay(rows[i].body, msg[w].change)])
  /\ at' = [at EXCEPT ![w] = i] /\ Goto(w, "write") /\ UNCHANGED msg

\* _find_row_by_id, in update_request and its like.
FindRow(w) ==
  /\ pc[w] = "find" /\ msg[w].op = "update"
  /\ LET i == RowAt(held[w].id) IN
     Found(w, i) \/ (i = 0 /\ Log(w, "update_missing") /\ UNCHANGED <<held, at>>)
  /\ UNCHANGED <<rows, last, audit>>

\* The same in update_inventory, which creates the item that it does not find.
FindItem(w) ==
  /\ pc[w] = "find" /\ msg[w].op = "upsert"
  /\ LET i == RowAt(held[w].id) IN
     Found(w, i) \/ (i = 0 /\ Goto(w, "append") /\ UNCHANGED local)
  /\ UNCHANGED <<rows, last, audit>>

\* Faulty: every field of the message, empty or not.
WriteRowFilled(w) ==
  /\ pc[w] = "write"
  /\ rows' = [rows EXCEPT ![at[w]].body = Fill(msg[w].change)]
  /\ last' = [last EXCEPT ![at[w]] = "update"]
  /\ Log(w, "update")
  /\ UNCHANGED <<audit, held, at>>

\* The whole row is overwritten.
WriteRow(w) ==
  /\ pc[w] = "write"
  /\ rows' = [rows EXCEPT ![at[w]] = held[w]]
  /\ last' = [last EXCEPT ![at[w]] = "update"]
  /\ Log(w, "update")
  /\ UNCHANGED <<audit, held, at>>

\* What the audit entry says of body b, written by w.
Said(w, b) == [op |-> msg[w].op, id |-> held[w].id, after |-> [f \in Logged[msg[w].op] |-> b[f]]]

\* Faulty: what was asked for is logged, not what was written.
WriteAuditLogAsked(w) ==
  /\ pc[w] = "log"
  /\ audit' = audit \cup IF Wrote(w) THEN {Said(w, Fill(msg[w].change))} ELSE {}
  /\ Return(w)
  /\ UNCHANGED <<rows, last>>

\* write_audit_log.
WriteAuditLog(w) ==
  /\ pc[w] = "log"
  /\ audit' = audit \cup IF Wrote(w) THEN {Said(w, held[w].body)} ELSE {}
  /\ Return(w)
  /\ UNCHANGED <<rows, last>>

\* A call raises, or the process dies.
Abort(w) ==
  /\ "call" \in Faults /\ pc[w] # "idle"
  /\ last' = [i \in DOMAIN rows |-> IF Wrote(w) /\ held[w] = rows[i] THEN "lost" ELSE last[i]]
  /\ Return(w)
  /\ UNCHANGED <<rows, audit>>

Step(w) ==
  \/ NumberRecord(w) \/ CheckDuplicate(w) \/ AppendRow(w)
  \/ FindRow(w) \/ FindItem(w) \/ WriteRow(w) \/ WriteAuditLog(w)

Next == \E w \in Worker :
  \/ AddRecord(w) \/ AddNeed(w) \/ UpdateRecord(w) \/ FollowUp(w) \/ UpsertRecord(w)
  \/ Step(w) \/ Abort(w)

Spec == Init /\ [][Next]_vars

-----------------------------------------------------------------------------
(* Properties.                                                             *)

\* Chats name different IDs, and live numbers are those of one process: what
\* the next three properties need.
ChatsApart ==
  \A w, v \in Worker : w # v =>
    /\ Names[w] \cap Names[v] = {}
    /\ v \in Numberer => w \notin Numberer /\ Names[w] \cap Live = {}

\* "Idempotent on RequestID" (and its like): an ID has one row.
OneRowPerId ==
  \A i, j \in DOMAIN rows : rows[i].id = rows[j].id => i = j

\* A message that leaves the choice of an ID to the program is never dropped
\* as a duplicate of another record.
NewRecordKept ==
  \A w \in Worker : pc[w] = "log" /\ msg[w].op = "duplicate_skipped" => msg[w].named

\* The operations are atomic: a reading of the target, a reading of the row
\* and the whole-row write, with other operations between them, change the
\* record as one step of RecordTable would that has the message only.
Table == {rows[i] : i \in DOMAIN rows}
Asked == [w \in Worker |->
            IF pc[w] \in {"idle", "log"} THEN None
            ELSE [op |-> msg[w].op, id |-> held[w].id, change |-> msg[w].change]]
Records == INSTANCE RecordTable WITH table <- Table, asked <- Asked
ImplementsTable == Records!TableSpec

\* The AuditLog accounts for the tab: some entry of the kind of a row's last
\* write agrees with the row in every field that it shows, or the one that
\* wrote the row is about to log it.  A writer that dies in between leaves the
\* row unaccounted for, until somebody writes it again.
Agrees(e, o, r) == e.op = o /\ e.id = r.id /\ \A f \in Logged[o] : e.after[f] = r.body[f]
Accounted(i) ==
  \/ \E e \in audit : Agrees(e, last[i], rows[i])
  \/ \E w \in Worker : Wrote(w) /\ msg[w].op = last[i] /\ held[w] = rows[i]
Audited == \A i \in DOMAIN rows : last[i] # "lost" => Accounted(i)

=============================================================================
