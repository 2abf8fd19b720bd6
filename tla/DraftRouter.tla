---------------------------- MODULE DraftRouter ----------------------------
(***************************************************************************)
(* Which draft a plain follow-up message goes to: handle_message and the   *)
(* follow-up handlers of router.py, with the file of active pointers.      *)
(*                                                                         *)
(* The six handlers are asked in a fixed order, and the first that takes   *)
(* the message answers it.  A handler finds its target by the ID that the  *)
(* message names, by the active pointer of the chat, or among the open     *)
(* drafts of the chat.  All pointers of all chats are one JSON file; every *)
(* change of it is load_active_need_state, then a write_text that empties  *)
(* the file before it fills it, with no lock.                              *)
(*                                                                         *)
(* Reading a target and writing it is one step here (SheetRecords and      *)
(* EventPromotion have what happens in between); every access to the file, *)
(* that of each handler that is asked included, is a step of its own.      *)
(***************************************************************************)
EXTENDS Naturals

CONSTANTS Process,
          Scope,    \* source scopes (chats)
          Draft,    \* record IDs
          KindOf,   \* the tab that an ID belongs to
          None,
          Torn,     \* the file when it is not the JSON of a dict
          FollowUps,  \* the follow-up messages that may arrive
          Drafted,    \* the statuses that a command may give its row
          Dying     \* may a process die, or a call of it raise

Chain == <<"event", "report", "task", "inventory", "donation", "need">>
Kind == {Chain[i] : i \in DOMAIN Chain}

\* needs-info stands for draft as well, done for complete and cancelled for
\* rejected; EventPromotion has the confirmed events.
Status == {"needs-info", "new", "ready", "done", "cancelled"}
OpenStates(k) ==
  CASE k = "event" -> {"needs-info", "new", "ready"}
    [] k \in {"task", "inventory"} -> {"needs-info", "new"}
    [] OTHER -> {"needs-info"}
\* The statuses on which a follow-up clears the pointer.
ClearStates(k) ==
  CASE k = "event" -> {"cancelled"}
    [] k \in {"task", "inventory"} -> {"ready", "done"}
    [] OTHER -> {"ready"}

ASSUME KindAssumption == KindOf \in [Draft -> Kind]
ASSUME NoneAssumption ==
  None \notin Draft \cup Status /\ None \notin [scope : Scope, status : Status]
ASSUME TornAssumption == Torn \notin [Scope -> [Kind -> Draft \cup {None}]]
ASSUME DyingAssumption == Dying \in BOOLEAN
\* A follow-up: the ID it names, under id or the key of one kind; the kinds
\* that it has fields of; whether its first word is another command's; the
\* status it sets.
ASSUME FollowUpAssumption ==
  FollowUps \subseteq [named : Draft \cup {None}, by : Kind \cup {"id"}, keys : SUBSET Kind,
                      prefix : BOOLEAN, status : Status \cup {None}]
ASSUME DraftedAssumption == Drafted \subseteq Status

VARIABLES drafts,  \* per ID, the scope and the status of its row
          file,    \* per scope and kind, the active pointer; or Torn
          pc,      \* per process, what it does next
          msg,     \* per process, the follow-up it passes on or handles
          op,      \* per process, the change of a pointer it makes
          loaded,  \* per process, the pointers it has read to change them
          touched, \* drafts that each chat has created or named
          latest,  \* per scope and kind, the open draft written last
          lost     \* scopes and kinds whose latest draft a death has kept from
                   \* the file, or dropped from it

vars == <<drafts, file, pc, msg, op, loaded, touched, latest, lost>>
history == <<touched, latest, lost>>

Row == [scope : Scope, status : Status]
Pointers == [Scope -> [Kind -> Draft \cup {None}]]
NoPointers == [s \in Scope |-> [k \in Kind |-> None]]
Asking == [next : DOMAIN Chain, scope : Scope, message : FollowUps]
Handling == [kind : Kind, scope : Scope, named : Draft \cup {None}, status : Status \cup {None}]
PointerOp == [set : BOOLEAN, scope : Scope, id : Draft, then : {"idle", "drafts"}]

TypeOK ==
  /\ drafts \in [Draft -> Row \cup {None}]
  /\ file \in Pointers \cup {Torn}
  /\ pc \in [Process -> {"idle", "ask", "resolve", "drafts", "load", "empty", "fill"}]
  /\ msg \in [Process -> Asking \cup Handling \cup {None}]
  /\ op \in [Process -> PointerOp \cup {None}]
  /\ loaded \in [Process -> Pointers]
  /\ touched \subseteq Scope \X Draft
  /\ latest \in Pointers
  /\ lost \subseteq Scope \X Kind

Init ==
  /\ drafts = [d \in Draft |-> None]
  /\ file = NoPointers
  /\ pc = [p \in Process |-> "idle"]
  /\ msg = [p \in Process |-> None]
  /\ op = [p \in Process |-> None]
  /\ loaded = [p \in Process |-> NoPointers]
  /\ touched = {}
  /\ latest = NoPointers
  /\ lost = {}

\* load_active_need_state: what cannot be read counts as no pointers.
Contents == IF file = Torn THEN NoPointers ELSE file
Active(s, k) == Contents[s][k]

Exists(d) == drafts[d] # None
IsOpen(d) == Exists(d) /\ drafts[d].status \in OpenStates(KindOf[d])

Goto(p, l) == pc' = [pc EXCEPT ![p] = l]
Return(p) ==
  /\ Goto(p, "idle")
  /\ msg' = [msg EXCEPT ![p] = None]
  /\ op' = [op EXCEPT ![p] = None]
  /\ loaded' = [loaded EXCEPT ![p] = NoPointers]
\* Change the pointer of o.scope to o.id, or drop it; then go on.
Change(p, o) ==
  /\ Goto(p, "load") /\ op' = [op EXCEPT ![p] = o]
  /\ UNCHANGED <<msg, loaded>>

\* Row d is written, by chat s.
Write(s, d, st) ==
  LET open == st \in OpenStates(KindOf[d]) IN
  /\ drafts' = [drafts EXCEPT ![d] = [scope |-> s, status |-> st]]
  /\ touched' = touched \cup {<<s, d>>}
  /\ latest' = [t \in Scope |-> [k \in Kind |->
       IF open /\ t = s /\ k = KindOf[d] THEN d
       ELSE IF open /\ t = s /\ KindOf[d] = "need" THEN None
       ELSE IF ~open /\ latest[t][k] = d THEN None ELSE latest[t][k]]]
  /\ lost' = IF open THEN lost \ {<<s, KindOf[d]>>} ELSE lost

-----------------------------------------------------------------------------
(* Messages.                                                               *)

\* /event, /report and the others.  An ID that is in use is not written again,
\* but for events and inventory items.
Command(p) ==
  /\ pc[p] = "idle"
  /\ \E s \in Scope, d \in Draft, st \in Drafted :
       /\ Exists(d) => KindOf[d] \in {"event", "inventory"}
       /\ Write(s, d, st)
       /\ Change(p, [set |-> st \in OpenStates(KindOf[d]), scope |-> s, id |-> d, then |-> "idle"])
  /\ UNCHANGED file

\* Does the handler of kind k take message m of chat s?
Takes(k, s, m) ==
  CASE k = "event" -> /\ ~m.prefix
                      /\ \/ k \in m.keys \/ Active(s, k) # None
                         \/ m.named # None /\ m.by \in {"id", k}
    [] k \in {"report", "task", "inventory"} -> k \in m.keys \/ Active(s, k) # None
    [] OTHER -> TRUE

ReceiveFollowUp(p) ==
  /\ pc[p] = "idle" /\ Goto(p, "ask")
  /\ \E s \in Scope, m \in FollowUps :
       msg' = [msg EXCEPT ![p] = [next |-> 1, scope |-> s, message |-> m]]
  /\ UNCHANGED <<drafts, file, op, loaded, history>>

\* The next handler of the chain.  It reads an ID under id or its own key.
AskHandler(p) ==
  LET i == msg[p].next
      k == Chain[i]
      s == msg[p].scope
      m == msg[p].message IN
  /\ pc[p] = "ask"
  /\ \/ /\ Takes(k, s, m) /\ Goto(p, "resolve")
        /\ msg' = [msg EXCEPT ![p] = [kind |-> k, scope |-> s, status |-> m.status,
                                   named |-> IF m.by \in {"id", k} THEN m.named ELSE None]]
     \/ /\ ~Takes(k, s, m) /\ UNCHANGED pc
        /\ msg' = [msg EXCEPT ![p] = [next |-> i + 1, scope |-> s, message |-> m]]
  /\ UNCHANGED <<drafts, file, op, loaded, history>>

-----------------------------------------------------------------------------
(* The target of a follow-up.                                              *)

\* Draft d gets the follow-up, and from now on belongs to the chat it came
\* from.
Attach(p, d) ==
  LET s == msg[p].scope
      k == KindOf[d]
      st == IF msg[p].status # None THEN msg[p].status ELSE drafts[d].status IN
  /\ Write(s, d, st)
  /\ IF st \in OpenStates(k) \cup ClearStates(k)
     THEN Change(p, [set |-> st \in OpenStates(k), scope |-> s, id |-> d, then |-> "idle"])
     ELSE Return(p)

\* resolve_*_followup_target, as far as the active pointer.
Resolve(p) ==
  LET k == msg[p].kind
      s == msg[p].scope
      n == msg[p].named
      a == Active(s, k) IN
  /\ pc[p] = "resolve"
  /\ \/ n # None /\ Exists(n) /\ KindOf[n] = k /\ Attach(p, n)
     \/ n = None /\ a # None /\ IsOpen(a) /\ Attach(p, a)
     \/ /\ n # None /\ (~Exists(n) \/ KindOf[n] # k)
        /\ Return(p) /\ UNCHANGED <<drafts, history>>
     \/ /\ n = None /\ a # None /\ ~IsOpen(a)
        /\ Change(p, [set |-> FALSE, scope |-> s, id |-> a, then |-> "drafts"])
        /\ UNCHANGED <<drafts, history>>
     \/ /\ n = None /\ a = None
        /\ Goto(p, "drafts") /\ UNCHANGED <<msg, op, loaded, drafts, history>>
  /\ UNCHANGED file

\* Faulty: the chat is not compared.
OpenDraftsAnywhere(s, k) == {d \in Draft : KindOf[d] = k /\ IsOpen(d)}

OpenDrafts(s, k) == {d \in Draft : KindOf[d] = k /\ IsOpen(d) /\ drafts[d].scope = s}

\* The only open draft of the chat, if there is but one.
PickDraft(p) ==
  LET D == OpenDrafts(msg[p].scope, msg[p].kind) IN
  /\ pc[p] = "drafts"
  /\ \/ \E d \in D : D = {d} /\ Attach(p, d)
     \/ (\A d \in D : D # {d}) /\ Return(p) /\ UNCHANGED <<drafts, history>>
  /\ UNCHANGED file

-----------------------------------------------------------------------------
(* The file of active pointers.                                            *)

Proceed(p) ==
  \/ op[p].then = "idle" /\ Return(p)
  \/ /\ op[p].then = "drafts" /\ Goto(p, "drafts")
     /\ op' = [op EXCEPT ![p] = None] /\ loaded' = [loaded EXCEPT ![p] = NoPointers]
     /\ UNCHANGED msg

\* Faulty: a file that cannot be read is not taken for an empty one.
LoadStateTorn(p) ==
  /\ pc[p] = "load"
  /\ loaded' = [loaded EXCEPT ![p] = file] /\ Goto(p, "empty") /\ UNCHANGED <<msg, op>>
  /\ UNCHANGED <<drafts, file, history>>

\* Faulty: every set_active_* replaces all pointers of the chat.
LoadStateReplaces(p) ==
  LET o == op[p] IN
  /\ pc[p] = "load"
  /\ loaded' = [loaded EXCEPT ![p] = [Contents EXCEPT ![o.scope] =
       [NoPointers[o.scope] EXCEPT ![KindOf[o.id]] = IF o.set THEN o.id ELSE None]]]
  /\ Goto(p, "empty") /\ UNCHANGED <<msg, op>>
  /\ UNCHANGED <<drafts, file, history>>

\* What set_active_* makes of pointers f: set_active_need_request_id replaces
\* all those of the chat.
WithActive(f, s, d) ==
  [f EXCEPT ![s] = [j \in Kind |-> IF j = KindOf[d] THEN d
                                   ELSE IF KindOf[d] = "need" THEN None ELSE f[s][j]]]

\* clear_active_*.
WithoutActive(f, s, d) == [f EXCEPT ![s][KindOf[d]] = None]

\* clear_active_* leaves a pointer to another draft alone.
LoadState(p) ==
  LET o == op[p]
      k == KindOf[o.id]
      entry == Contents[o.scope] IN
  /\ pc[p] = "load"
  /\ \/ /\ o.set
        /\ loaded' = [loaded EXCEPT ![p] = WithActive(Contents, o.scope, o.id)]
        /\ Goto(p, "empty") /\ UNCHANGED <<msg, op>>
     \/ /\ ~o.set /\ entry # NoPointers[o.scope] /\ entry[k] \in {None, o.id}
        /\ loaded' = [loaded EXCEPT ![p] = WithoutActive(Contents, o.scope, o.id)]
        /\ Goto(p, "empty") /\ UNCHANGED <<msg, op>>
     \/ /\ ~o.set /\ (entry = NoPointers[o.scope] \/ entry[k] \notin {None, o.id})
        /\ Proceed(p)
  /\ UNCHANGED <<drafts, file, history>>

\* write_text opens the file, which empties it, and writes.
EmptyFile(p) ==
  /\ pc[p] = "empty" /\ file' = Torn
  /\ Goto(p, "fill")
  /\ UNCHANGED <<drafts, msg, op, loaded, history>>
FillFile(p) ==
  /\ pc[p] = "fill" /\ file' = loaded[p]
  /\ Proceed(p)
  /\ UNCHANGED <<drafts, history>>

\* A call raises, or the process dies: with the file empty it loses all
\* pointers; before, that of the draft it has just written.
Abort(p) ==
  /\ Dying /\ pc[p] # "idle"
  /\ Return(p)
  /\ lost' = IF pc[p] = "fill" THEN Scope \X Kind
             ELSE IF pc[p] \in {"load", "empty"} /\ op[p].set
             THEN lost \cup {<<op[p].scope, KindOf[op[p].id]>>} ELSE lost
  /\ UNCHANGED <<drafts, file, touched, latest>>

Next == \E p \in Process :
  \/ Command(p) \/ ReceiveFollowUp(p) \/ AskHandler(p) \/ Resolve(p) \/ PickDraft(p)
  \/ LoadState(p) \/ EmptyFile(p) \/ FillFile(p) \/ Abort(p)

Spec == Init /\ [][Next]_vars

-----------------------------------------------------------------------------
(* Properties.                                                             *)

\* "in the same session": a follow-up that does not name a draft changes it
\* only if its chat has created it or named it before, whatever messages of
\* other chats arrive meanwhile and whatever happens to the file.
OwnDraftsOnly ==
  [][\A p \in Process, d \in Draft :
       pc[p] \in {"resolve", "drafts"} /\ pc'[p] # pc[p] /\ drafts'[d] # drafts[d] =>
         d = msg[p].named \/ <<msg[p].scope, d>> \in touched]_vars

\* "other active_* pointers are never erased": between messages that are
\* handled one after the other, the active pointer of a chat is the open draft
\* that the chat has written last.  There are two exceptions: a need that the
\* chat drafts replaces its other pointers (Write), and a death keeps a
\* pointer from the file or, while the file is empty, drops all of them (lost);
\* either lasts until the chat writes an open draft of that kind.
Remembered ==
  (\A p \in Process : pc[p] = "idle") =>
    \A s \in Scope, k \in Kind :
      latest[s][k] # None /\ <<s, k>> \notin lost => Active(s, k) = latest[s][k]

=============================================================================
