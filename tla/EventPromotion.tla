--------------------------- MODULE EventPromotion ---------------------------
(***************************************************************************)
(* Event drafts and their one-shot promotion to a Calendar event:          *)
(* router.route_event, route_event_followup and the authorization file,    *)
(* operations.upsert_event_draft and create_calendar_event_from_draft.     *)
(*                                                                         *)
(* A process handles one message at a time; several processes (the gateway *)
(* plugin, the command line, a second gateway) share the CalendarLog tab,  *)
(* the Calendar, the authorization file and the active-draft file, with no *)
(* lock and no transaction.  Every action is one remote call or one file   *)
(* access with the decisions that follow it, so messages of different      *)
(* processes interleave between any two calls.                             *)
(*                                                                         *)
(* A row keeps the fields the gates read; approval and status keep the     *)
(* values the gates tell apart.  The AuditLog rows these calls append are  *)
(* not part of the state: nothing here reads them, and a failure to append *)
(* one is an Abort.                                                        *)
(***************************************************************************)
EXTENDS Naturals, Sequences, SequencesExt

CONSTANTS Draft,     \* EventDraftIDs
          Scope,     \* source scopes (chats)
          Editor,    \* processes that receive draft messages
          Promoter,  \* processes that receive promotion messages
          Form,      \* what an /event message can fill in
          Edit,      \* what a follow-up can change
          None,
          MaxRows,   \* bound on the rows of the tab
          MaxIssued, \* bound on the authorizations per draft and scope
          Failing    \* may a process die, or a call of it raise

Process == Editor \cup Promoter

Approval == {"needs-info", "approved", "created"}
Status == {"needs-info", "ready", "confirmed", "cancelled"}
Row == [id : Draft, scope : Scope, approval : Approval, status : Status,
        private : BOOLEAN,   \* PublicCalendarAllowed = no, private-review
        complete : BOOLEAN,  \* a known title, usable start and end
        cal : BOOLEAN]       \* CalendarEventID is not blank
Grant == [id : Draft, scope : Scope, live : BOOLEAN]

ASSUME FormAssumption ==
  Form \subseteq [approval : Approval, status : Status,
                  private : BOOLEAN, complete : BOOLEAN]
\* A follow-up names some of the fields and leaves the others.
ASSUME EditAssumption ==
  \A e \in Edit : \A r \in Row : [f \in DOMAIN r |-> IF f \in DOMAIN e THEN e[f] ELSE r[f]] \in Row
ASSUME NoneAssumption == None \notin Draft /\ None \notin Grant
ASSUME BoundsAssumption == MaxRows \in Nat /\ MaxIssued \in Nat /\ Failing \in BOOLEAN

VARIABLES rows,      \* the CalendarLog tab, below its header
          made,      \* Calendar events inserted, by draft and scope
          auth,      \* the authorization file
          issued,    \* authorizations written so far, by draft and scope
          active,    \* per scope, active_event_id
          pc,        \* per process, the call it makes next
          msg,       \* per process, the message it handles
          held,      \* per process, the row it is about to write
          at         \* per process, the index of the row it has found

vars == <<rows, made, auth, issued, active, pc, msg, held, at>>
shared == <<rows, made, auth, issued, active>>
local == <<msg, held, at>>

\* Between reading a row and writing it; between the gates and the insertion.
Phase == {"idle", "find", "write", "settle", "gate", "validate", "consume",
          "reread", "insert", "record", "finish"}

Message == [kind : {"intake", "edit", "unarmed", "promote"}, scope : Scope]

TypeOK ==
  /\ rows \in Seq(Row)
  /\ made \in [Draft \X Scope -> Nat]
  /\ auth \in Grant \cup {None}
  /\ issued \in [Draft \X Scope -> Nat]
  /\ active \in [Scope -> Draft \cup {None}]
  /\ pc \in [Process -> Phase]
  /\ msg \in [Process -> Message \cup {None}]
  /\ held \in [Process -> Row \cup {None}]
  /\ at \in [Process -> Nat]

Init ==
  /\ rows = <<>> /\ auth = None
  /\ made = [g \in Draft \X Scope |-> 0]
  /\ issued = [g \in Draft \X Scope |-> 0]
  /\ active = [s \in Scope |-> None]
  /\ pc = [p \in Process |-> "idle"]
  /\ msg = [p \in Process |-> None]
  /\ held = [p \in Process |-> None]
  /\ at = [p \in Process |-> 0]

\* _find_row_by_id: the first row with that ID, 0 when there is none.
RowAt(d) == SelectInSeq(rows, LAMBDA r : r.id = d)
\* OPEN_EVENT_STATES; needs-info stands for draft and new as well.
OpenStates == {"needs-info", "ready"}
IsOpen(d) == RowAt(d) # 0 /\ rows[RowAt(d)].status \in OpenStates
OpenDrafts(s) == {i \in DOMAIN rows : rows[i].status \in OpenStates /\ rows[i].scope = s}

Goto(p, l) == pc' = [pc EXCEPT ![p] = l] /\ UNCHANGED local
\* The call is over; nothing of it is remembered.
Return(p) ==
  /\ pc' = [pc EXCEPT ![p] = "idle"]
  /\ msg' = [msg EXCEPT ![p] = None]
  /\ held' = [held EXCEPT ![p] = None]
  /\ at' = [at EXCEPT ![p] = 0]
\* Row r has been found at i.
Found(p, l, r, i) ==
  /\ pc' = [pc EXCEPT ![p] = l]
  /\ held' = [held EXCEPT ![p] = r]
  /\ at' = [at EXCEPT ![p] = i]
  /\ UNCHANGED msg
\* Message k from scope s asks for row r to be written.
Accept(p, k, s, r) ==
  /\ pc' = [pc EXCEPT ![p] = "find"]
  /\ msg' = [msg EXCEPT ![p] = [kind |-> k, scope |-> s]]
  /\ held' = [held EXCEPT ![p] = r]
  /\ UNCHANGED at
SetActive(s, d) == active' = [active EXCEPT ![s] = d]
ClearActive(s, d) ==
  active' = IF active[s] = d THEN [active EXCEPT ![s] = None] ELSE active

-----------------------------------------------------------------------------
(* Messages.                                                               *)

\* /event: the draft's ID is generated, or named by the message.
ReceiveIntake(p) ==
  /\ p \in Editor /\ pc[p] = "idle"
  /\ \E d \in Draft, s \in Scope, f \in Form :
       Accept(p, "intake", s,
              [id |-> d, scope |-> s, approval |-> f.approval, status |-> f.status,
               private |-> f.private, complete |-> f.complete, cal |-> FALSE])
  /\ UNCHANGED shared

\* resolve_event_followup_target: the draft the message names, or the active
\* one while it is open, or the only open draft of the scope.  An active
\* pointer to a draft that is not open is dropped.
Target(s, named) ==
  IF named # None THEN RowAt(named)
  ELSE IF active[s] # None /\ IsOpen(active[s]) THEN RowAt(active[s])
  ELSE IF \E i \in DOMAIN rows : OpenDrafts(s) = {i} THEN CHOOSE i \in OpenDrafts(s) : TRUE
  ELSE 0

DropStaleActive(s, named) ==
  active' = IF named = None /\ active[s] # None /\ ~IsOpen(active[s])
            THEN [active EXCEPT ![s] = None] ELSE active

Overlay(r, e) == [f \in DOMAIN r |-> IF f \in DOMAIN e THEN e[f] ELSE r[f]]

\* A follow-up.  What will be written is decided here, from this reading of
\* the row: _apply_event_followup_updates passes every field of the target.
\* unarmed: create_calendar=yes outside the one-shot mode, a draft update.
ReceiveFollowup(p) ==
  /\ p \in Editor /\ pc[p] = "idle"
  /\ \E s \in Scope, named \in Draft \cup {None}, e \in Edit, k \in {"edit", "unarmed"} :
       LET i == Target(s, named) IN
       /\ DropStaleActive(s, named)
       /\ \/ i = 0 /\ UNCHANGED <<pc, local>>
          \/ i # 0 /\ Accept(p, k, s, [Overlay(rows[i], e) EXCEPT !.scope = s])
  /\ UNCHANGED <<rows, made, auth, issued>>

\* The plugin lets a promotion through only when it names the draft and
\* nothing else.  A draft that already has an event is not touched.
ReceivePromotion(p) ==
  /\ p \in Promoter /\ pc[p] = "idle"
  /\ \E s \in Scope, d \in Draft :
       /\ RowAt(d) # 0
       /\ LET r == rows[RowAt(d)] IN
          \/ r.cal /\ ClearActive(s, d) /\ UNCHANGED <<pc, local>>
          \/ ~r.cal /\ Accept(p, "promote", s, [r EXCEPT !.scope = s]) /\ UNCHANGED active
  /\ UNCHANGED <<rows, made, auth, issued>>

-----------------------------------------------------------------------------
(* upsert_event_draft.                                                     *)

\* The row is read again.  CalendarEventID is taken from this reading, and so
\* are the times when those about to be written are empty.
FindRow(p) ==
  /\ pc[p] = "find"
  /\ LET i == RowAt(held[p].id) IN
     \E c \in {held[p].complete} \cup {rows[j].complete : j \in {i} \ {0}} :
       /\ held[p].complete => c
       /\ Found(p, "write", [held[p] EXCEPT !.cal = i # 0 /\ rows[i].cal, !.complete = c], i)
  /\ UNCHANGED shared

AfterWrite(p) ==
  \/ msg[p].kind = "unarmed" /\ Return(p)
  \/ msg[p].kind = "promote" /\ Goto(p, "gate")
  \/ msg[p].kind \in {"intake", "edit"} /\ Goto(p, "settle")

\* Faulty: a new row for every write.
WriteRowAppends(p) ==
  /\ pc[p] = "write"
  /\ Len(rows) < MaxRows /\ rows' = Append(rows, held[p])
  /\ AfterWrite(p)
  /\ UNCHANGED <<made, auth, issued, active>>

\* Faulty: "keep it blank" taken literally.
WriteRowBlanks(p) ==
  /\ pc[p] = "write"
  /\ IF at[p] = 0 THEN Len(rows) < MaxRows /\ rows' = Append(rows, held[p])
     ELSE rows' = [rows EXCEPT ![at[p]] = [held[p] EXCEPT !.cal = FALSE]]
  /\ AfterWrite(p)
  /\ UNCHANGED <<made, auth, issued, active>>

\* The whole row is overwritten, or appended if it was not found.
WriteRow(p) ==
  /\ pc[p] = "write"
  /\ \/ at[p] = 0 /\ Len(rows) < MaxRows /\ rows' = Append(rows, held[p])
     \/ at[p] # 0 /\ rows' = [rows EXCEPT ![at[p]] = held[p]]
  /\ AfterWrite(p)
  /\ UNCHANGED <<made, auth, issued, active>>

\* The end of an intake or a follow-up: the active pointer.  An intake does
\* not look at CalendarEventID; a follow-up reads the row once more for it.
Settle(p) ==
  /\ pc[p] = "settle"
  /\ LET r == held[p]
         cal == msg[p].kind = "edit" /\ rows[RowAt(r.id)].cal IN
     IF r.status \in OpenStates /\ ~cal THEN SetActive(r.scope, r.id)
     ELSE IF msg[p].kind = "intake" \/ r.status = "cancelled" \/ (cal /\ r.status = "confirmed")
     THEN ClearActive(r.scope, r.id)
     ELSE UNCHANGED active
  /\ Return(p)
  /\ UNCHANGED <<rows, made, auth, issued>>

-----------------------------------------------------------------------------
(* The promotion.                                                          *)

\* Faulty: the privacy gate of EVENT-004 is missing.
GateOpen(p) ==
  /\ pc[p] = "gate"
  /\ LET r == rows[RowAt(held[p].id)] IN
     IF r.approval = "approved" /\ r.status = "ready" /\ r.complete
     THEN Goto(p, "validate") ELSE Return(p)
  /\ UNCHANGED shared

\* All ordinary draft gates, on a fresh reading of the row.
Gate(p) ==
  /\ pc[p] = "gate"
  /\ LET r == rows[RowAt(held[p].id)] IN
     IF r.private /\ r.approval = "approved" /\ r.status = "ready" /\ r.complete
     THEN Goto(p, "validate") ELSE Return(p)
  /\ UNCHANGED shared

\* _valid_event_calendar_promotion_authorization.
Authorized(d, s) == auth # None /\ auth.live /\ auth.id = d /\ auth.scope = s

\* "blocked" leaves the authorization where it is.
Validate(p) ==
  /\ pc[p] = "validate"
  /\ IF Authorized(held[p].id, msg[p].scope)
     THEN Goto(p, "consume") ELSE Return(p)
  /\ UNCHANGED shared

\* Faulty: the file stays, without the draft it was for.
ConsumeBlanks(p) ==
  /\ pc[p] = "consume"
  /\ auth' = [auth EXCEPT !.id = None]
  /\ Goto(p, "reread")
  /\ UNCHANGED <<rows, made, issued, active>>

\* Faulty: the authorization is left for a retry, should the attempt fail.
ConsumeLater(p) ==
  /\ pc[p] = "consume"
  /\ Goto(p, "reread")
  /\ UNCHANGED shared

\* _consume_event_calendar_promotion_authorization: the file is unlinked,
\* whatever it authorizes by now; that it is already gone is not an error.
Consume(p) ==
  /\ pc[p] = "consume"
  /\ auth' = None
  /\ Goto(p, "reread")
  /\ UNCHANGED <<rows, made, issued, active>>

\* create_calendar_event_from_draft reads the row and blocks on its own gates
\* (the datetimes are part of complete, the title UNKNOWN is not a block).
FindDraft(p) ==
  /\ pc[p] = "reread"
  /\ LET i == RowAt(held[p].id)
         r == rows[i] IN
     \/ r.cal /\ Found(p, "finish", r, i)
     \/ /\ ~r.cal /\ r.approval = "approved" /\ r.status = "ready"
        /\ Found(p, "insert", r, i)
     \/ /\ ~r.cal /\ (r.approval # "approved" \/ r.status # "ready" \/ ~r.complete)
        /\ Return(p)
  /\ UNCHANGED shared

\* The one external attempt.
InsertEvent(p) ==
  /\ pc[p] = "insert"
  /\ made' = [made EXCEPT ![<<held[p].id, msg[p].scope>>] = @ + 1]
  /\ Goto(p, "record")
  /\ UNCHANGED <<rows, auth, issued, active>>

\* The same row, as it was read before the insertion.
RecordEvent(p) ==
  /\ pc[p] = "record"
  /\ rows' = [rows EXCEPT ![at[p]] = [held[p] EXCEPT !.cal = TRUE, !.approval = "created",
                                                     !.status = "confirmed"]]
  /\ Goto(p, "finish")
  /\ UNCHANGED <<made, auth, issued, active>>

Finish(p) ==
  /\ pc[p] = "finish"
  /\ ClearActive(msg[p].scope, held[p].id)
  /\ Return(p)
  /\ UNCHANGED <<rows, made, auth, issued>>

-----------------------------------------------------------------------------
(* The environment.                                                        *)

\* write_event_calendar_promotion_authorization, by the operator: it replaces
\* an earlier authorization.
Authorize ==
  /\ \E d \in Draft, s \in Scope :
       /\ issued[<<d, s>>] < MaxIssued
       /\ auth' = [id |-> d, scope |-> s, live |-> TRUE]
       /\ issued' = [issued EXCEPT ![<<d, s>>] = @ + 1]
  /\ UNCHANGED <<rows, made, active, pc, local>>

Expire ==
  /\ auth # None /\ auth' = [auth EXCEPT !.live = FALSE]
  /\ UNCHANGED <<rows, made, issued, active, pc, local>>

\* A remote call raises, or the process dies: nothing catches either.
Abort(p) ==
  /\ Failing /\ pc[p] # "idle"
  /\ Return(p)
  /\ UNCHANGED shared

Step(p) ==
  \/ ReceiveIntake(p) \/ ReceiveFollowup(p) \/ ReceivePromotion(p)
  \/ FindRow(p) \/ WriteRow(p) \/ Settle(p)
  \/ Gate(p) \/ Validate(p) \/ Consume(p) \/ FindDraft(p)
  \/ InsertEvent(p) \/ RecordEvent(p) \/ Finish(p)

Next == Authorize \/ Expire \/ \E p \in Process : Step(p) \/ Abort(p)

Spec == Init /\ [][Next]_vars

-----------------------------------------------------------------------------
(* Properties.                                                             *)

\* SOUL.md: "Calendar authorization is also exact and one-shot".  However
\* calls fail or die, and whatever other messages arrive meanwhile, a draft
\* never gets more Calendar events from a scope than the operator has
\* written authorizations for that draft and that scope.
OneInsertPerAuthorization ==
  \A g \in Draft \X Scope : made[g] <= issued[g]

\* The docstring of create_calendar_event_from_draft: "exactly one insert on
\* retry".
OneEventPerDraft ==
  \A d \in Draft : \A s, t \in Scope :
    /\ made[<<d, s>>] <= 1
    /\ s # t => made[<<d, s>>] = 0 \/ made[<<d, t>>] = 0

\* upsert_event_draft: "Never creates a second row for the same EventDraftID".
\* Needs messages that are handled one after the other.
OneRowPerDraft ==
  \A i, j \in DOMAIN rows : rows[i].id = rows[j].id => i = j

\* No write of a draft, and no promotion, ever erases a CalendarEventID.
\* Needs messages that are handled one after the other.
CalendarIdKept ==
  [][\A i \in DOMAIN rows : rows[i].cal => rows'[i].cal]_vars

\* What is inserted is at that moment a private, complete, approved and ready
\* draft without an event: the gates of the router and of the operation, each
\* on its own reading of the row, agree with the sheet at the insertion.
\* Needs messages that are handled one after the other.
InsertGated ==
  [][\A d \in Draft, s \in Scope :
       made'[<<d, s>>] # made[<<d, s>>] =>
         \E i \in DOMAIN rows :
           /\ rows[i].id = d /\ rows[i].private /\ rows[i].complete
           /\ rows[i].approval = "approved" /\ rows[i].status = "ready"
           /\ ~rows[i].cal]_vars

=============================================================================
