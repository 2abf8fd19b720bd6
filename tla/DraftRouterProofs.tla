------------------------- MODULE DraftRouterProofs -------------------------
(***************************************************************************)
(* A follow-up that names no draft only changes drafts of its own chat,    *)
(* for any number of processes, chats and drafts.                          *)
(***************************************************************************)
EXTENDS DraftRouter, TLAPS

USE DEF history

\* A process that looks for a target handles a message, and one that changes
\* a pointer knows which.
Busy(p) ==
  /\ pc[p] = "ask" => msg[p] \in Asking
  /\ pc[p] \in {"resolve", "drafts"} => msg[p] \in Handling
  /\ pc[p] \in {"load", "empty", "fill"} => op[p] \in PointerOp
  /\ pc[p] \in {"load", "empty", "fill"} /\ op[p].then = "drafts" => msg[p] \in Handling

Structure == TypeOK /\ \A p \in Process : Busy(p)

\* Every pointer in f is to a draft of its chat.
OwnPointers(f) == \A s \in Scope, k \in Kind : f[s][k] # None => <<s, f[s][k]>> \in touched

\* What is on the sheet, in the file and in the hands of a process, belongs
\* to chats that have created or named it.
OwnRows == \A d \in Draft : drafts[d] # None => <<drafts[d].scope, d>> \in touched
OwnFile == file # Torn => OwnPointers(file)
OwnWork(p) ==
  /\ pc[p] \in {"empty", "fill"} => OwnPointers(loaded[p])
  /\ pc[p] \in {"load", "empty", "fill"} => <<op[p].scope, op[p].id>> \in touched
Owned == OwnRows /\ OwnFile /\ \A p \in Process : OwnWork(p)

-----------------------------------------------------------------------------
\* What load_active_need_state returns is a set of pointers.
LEMMA ContentsType == ASSUME TypeOK PROVE Contents \in Pointers
BY DEF TypeOK, Contents, NoPointers, Pointers

LEMMA ChainType == \A i \in DOMAIN Chain : Chain[i] \in Kind
BY DEF Kind

\* A row that is written keeps the sheet well typed, and only adds to what
\* the chats have touched.
LEMMA WriteType ==
  ASSUME TypeOK, NEW s \in Scope, NEW d \in Draft, NEW st \in Status, Write(s, d, st)
  PROVE  /\ drafts' \in [Draft -> Row \cup {None}]
         /\ touched' \subseteq Scope \X Draft
         /\ latest' \in Pointers /\ lost' \subseteq Scope \X Kind
         /\ touched \subseteq touched' /\ <<s, d>> \in touched'
<1>1. [scope |-> s, status |-> st] \in Row  BY DEF Row
<1>2. drafts' \in [Draft -> Row \cup {None}]  BY <1>1 DEF Write, TypeOK
<1>3. touched' \subseteq Scope \X Draft  BY DEF Write, TypeOK
<1>4. latest' \in Pointers  BY DEF Write, TypeOK, Pointers
<1>5. lost' \subseteq Scope \X Kind  BY DEF Write, TypeOK
<1> QED  BY <1>2, <1>3, <1>4, <1>5 DEF Write

LEMMA WriteOwned ==
  ASSUME TypeOK, OwnRows, NEW s \in Scope, NEW d \in Draft, NEW st \in Status, Write(s, d, st)
  PROVE  OwnRows'
<1> SUFFICES ASSUME NEW e \in Draft, drafts'[e] # None
             PROVE  <<drafts'[e].scope, e>> \in touched'
  BY DEF OwnRows
<1>1. CASE e = d  BY <1>1 DEF Write, TypeOK
<1>2. CASE e # d  BY <1>2 DEF Write, TypeOK, OwnRows
<1> QED  BY <1>1, <1>2

\* Return and Change leave the process in order, and the others alone.
LEMMA ReturnType ==
  ASSUME Structure, NEW p \in Process, Return(p)
  PROVE  /\ pc' \in [Process -> {"idle", "ask", "resolve", "drafts", "load", "empty", "fill"}]
         /\ msg' \in [Process -> Asking \cup Handling \cup {None}]
         /\ op' \in [Process -> PointerOp \cup {None}]
         /\ loaded' \in [Process -> Pointers]
         /\ \A q \in Process : Busy(q)'
         /\ pc'[p] = "idle"
         /\ \A q \in Process : q # p => pc'[q] = pc[q] /\ op'[q] = op[q] /\ loaded'[q] = loaded[q]
<1>0. NoPointers \in Pointers  BY DEF NoPointers, Pointers
<1> QED  BY <1>0 DEF Structure, TypeOK, Busy, Return, Goto

LEMMA ChangeType ==
  ASSUME Structure, NEW p \in Process, NEW o \in PointerOp, Change(p, o),
         o.then = "drafts" => msg[p] \in Handling
  PROVE  /\ pc' \in [Process -> {"idle", "ask", "resolve", "drafts", "load", "empty", "fill"}]
         /\ msg' \in [Process -> Asking \cup Handling \cup {None}]
         /\ op' \in [Process -> PointerOp \cup {None}]
         /\ loaded' \in [Process -> Pointers]
         /\ \A q \in Process : Busy(q)'
         /\ pc'[p] = "load" /\ op'[p] = o
         /\ \A q \in Process : q # p => pc'[q] = pc[q] /\ op'[q] = op[q] /\ loaded'[q] = loaded[q]
BY DEF Structure, TypeOK, Busy, Change, Goto

\* What is owned stays owned as more is touched.
LEMMA FileKept ==
  ASSUME OwnFile, UNCHANGED file, touched \subseteq touched'
  PROVE  OwnFile'
BY DEF OwnFile, OwnPointers

LEMMA ReturnOwned ==
  ASSUME Structure, Owned, NEW p \in Process, Return(p), touched \subseteq touched'
  PROVE  \A q \in Process : OwnWork(q)'
<1>1. /\ pc'[p] = "idle"
      /\ \A q \in Process : q # p => pc'[q] = pc[q] /\ op'[q] = op[q] /\ loaded'[q] = loaded[q]
  BY ReturnType
<1> TAKE q \in Process
<1>2. CASE q = p  BY <1>1, <1>2 DEF OwnWork
<1>3. CASE q # p  BY <1>1, <1>3 DEF OwnWork, Owned, OwnPointers
<1> QED  BY <1>2, <1>3

LEMMA ChangeOwned ==
  ASSUME Structure, Owned, NEW p \in Process, NEW o \in PointerOp, Change(p, o),
         o.then = "drafts" => msg[p] \in Handling,
         touched \subseteq touched', <<o.scope, o.id>> \in touched'
  PROVE  \A q \in Process : OwnWork(q)'
<1>1. /\ pc'[p] = "load" /\ op'[p] = o
      /\ \A q \in Process : q # p => pc'[q] = pc[q] /\ op'[q] = op[q] /\ loaded'[q] = loaded[q]
  BY ChangeType
<1> TAKE q \in Process
<1>2. CASE q = p  BY <1>1, <1>2 DEF OwnWork
<1>3. CASE q # p  BY <1>1, <1>3 DEF OwnWork, Owned, OwnPointers
<1> QED  BY <1>2, <1>3

-----------------------------------------------------------------------------
\* Attaching a message of chat s to draft d.
LEMMA AttachKeeps ==
  ASSUME Structure, Owned, NEW p \in Process, NEW d \in Draft, msg[p] \in Handling, Exists(d),
         Attach(p, d), UNCHANGED file
  PROVE  Structure' /\ Owned'
<1> DEFINE s == msg[p].scope
           k == KindOf[d]
           st == IF msg[p].status # None THEN msg[p].status ELSE drafts[d].status
           o == [set |-> st \in OpenStates(k), scope |-> s, id |-> d, then |-> "idle"]
<1>1. s \in Scope  BY DEF Handling
<1>2. st \in Status  BY DEF Handling, Exists, Structure, TypeOK, Row
<1>3. Write(s, d, st)  BY DEF Attach
<1>4. o \in PointerOp  BY <1>1 DEF PointerOp
<1>5. Change(p, o) \/ Return(p)  BY DEF Attach
<1>6. /\ drafts' \in [Draft -> Row \cup {None}]
      /\ touched' \subseteq Scope \X Draft
      /\ latest' \in Pointers /\ lost' \subseteq Scope \X Kind
      /\ touched \subseteq touched' /\ <<s, d>> \in touched'
  <2> HIDE DEF st, s
  <2> QED  BY <1>1, <1>2, <1>3, WriteType DEF Structure
<1>7. OwnRows'
  <2> HIDE DEF st, s
  <2> QED  BY <1>1, <1>2, <1>3, WriteOwned DEF Structure, Owned
<1>8. OwnFile'  BY <1>6, FileKept DEF Owned
<1>9. o.then = "idle" /\ <<o.scope, o.id>> = <<s, d>>  OBVIOUS
<1> HIDE DEF o, st, s
<1>10. CASE Change(p, o)
  <2>1. Structure'  BY <1>4, <1>6, <1>9, <1>10, ChangeType DEF Structure, TypeOK
  <2>2. \A q \in Process : OwnWork(q)'  BY <1>4, <1>6, <1>9, <1>10, ChangeOwned
  <2> QED  BY <2>1, <2>2, <1>7, <1>8 DEF Owned
<1>11. CASE Return(p)
  <2>1. Structure'  BY <1>6, <1>11, ReturnType DEF Structure, TypeOK
  <2>2. \A q \in Process : OwnWork(q)'  BY <1>6, <1>11, ReturnOwned
  <2> QED  BY <2>1, <2>2, <1>7, <1>8 DEF Owned
<1> QED  BY <1>5, <1>10, <1>11

LEMMA CommandKeeps ==
  ASSUME Structure, Owned, NEW p \in Process, Command(p)
  PROVE  Structure' /\ Owned'
<1>1. PICK s \in Scope, d \in Draft, st \in Drafted :
        /\ Write(s, d, st)
        /\ Change(p, [set |-> st \in OpenStates(KindOf[d]), scope |-> s, id |-> d, then |-> "idle"])
  BY DEF Command
<1> DEFINE o == [set |-> st \in OpenStates(KindOf[d]), scope |-> s, id |-> d, then |-> "idle"]
<1>2. st \in Status  BY DraftedAssumption
<1>3. o \in PointerOp  BY DEF PointerOp
<1>4. /\ drafts' \in [Draft -> Row \cup {None}]
      /\ touched' \subseteq Scope \X Draft
      /\ latest' \in Pointers /\ lost' \subseteq Scope \X Kind
      /\ touched \subseteq touched' /\ <<s, d>> \in touched'
  BY <1>1, <1>2, WriteType DEF Structure
<1>5. OwnRows'  BY <1>1, <1>2, WriteOwned DEF Structure, Owned
<1>6. UNCHANGED file  BY DEF Command
<1>7. OwnFile'  BY <1>4, <1>6, FileKept DEF Owned
<1>8. Change(p, o)  BY <1>1
<1>9. o.then = "idle" /\ <<o.scope, o.id>> = <<s, d>>  OBVIOUS
<1> HIDE DEF o
<1>10. Structure'  BY <1>3, <1>4, <1>6, <1>8, <1>9, ChangeType DEF Structure, TypeOK
<1>11. \A q \in Process : OwnWork(q)'  BY <1>3, <1>4, <1>8, <1>9, ChangeOwned
<1> QED  BY <1>5, <1>7, <1>10, <1>11 DEF Owned

LEMMA ReceiveKeeps ==
  ASSUME Structure, Owned, NEW p \in Process, ReceiveFollowUp(p)
  PROVE  Structure' /\ Owned'
<1>1. PICK s \in Scope, m \in FollowUps :
        msg' = [msg EXCEPT ![p] = [next |-> 1, scope |-> s, message |-> m]]
  BY DEF ReceiveFollowUp
<1> DEFINE h == [next |-> 1, scope |-> s, message |-> m]
<1>2. h \in Asking  BY DEF Asking, Chain
<1>3. msg' = [msg EXCEPT ![p] = h]  BY <1>1
<1> HIDE DEF h
<1>4. TypeOK'  BY <1>2, <1>3 DEF Structure, TypeOK, ReceiveFollowUp, Goto
<1>5. \A q \in Process : Busy(q)'
  BY <1>2, <1>3 DEF Structure, TypeOK, Busy, ReceiveFollowUp, Goto
<1>6. Owned'
  BY DEF Structure, TypeOK, Owned, OwnRows, OwnFile, OwnWork, OwnPointers, ReceiveFollowUp, Goto
<1> QED  BY <1>4, <1>5, <1>6 DEF Structure

\* The last handler of the chain takes every message: there is always a next.
LEMMA AskKeeps ==
  ASSUME Structure, Owned, NEW p \in Process, AskHandler(p)
  PROVE  Structure' /\ Owned'
<1> DEFINE i == msg[p].next
           k == Chain[i]
           s == msg[p].scope
           m == msg[p].message
           taken == [kind |-> k, scope |-> s, status |-> m.status,
                     named |-> IF m.by \in {"id", k} THEN m.named ELSE None]
           passed == [next |-> i + 1, scope |-> s, message |-> m]
<1>1. pc[p] = "ask" /\ msg[p] \in Asking /\ UNCHANGED <<drafts, file, op, loaded, history>>
  BY DEF AskHandler, Structure, Busy
<1>2. i \in DOMAIN Chain /\ s \in Scope /\ m \in FollowUps  BY <1>1 DEF Asking
<1>3. k \in Kind  BY <1>2, ChainType
<1>4. Owned'
  BY <1>1 DEF AskHandler, Structure, TypeOK, Owned, OwnRows, OwnFile, OwnWork, OwnPointers, Goto
<1>5. CASE msg' = [msg EXCEPT ![p] = taken] /\ Goto(p, "resolve")
  <2>1. m.named \in Draft \cup {None} /\ m.status \in Status \cup {None}
    BY <1>2, FollowUpAssumption
  <2>2. taken \in Handling  BY <1>2, <1>3, <2>1 DEF Handling
  <2>3. PICK h : h = taken  OBVIOUS
  <2>4. TypeOK'  BY <1>1, <1>5, <2>2, <2>3 DEF Structure, TypeOK, Goto
  <2>5. \A q \in Process : Busy(q)'  BY <1>1, <1>5, <2>2, <2>3 DEF Structure, TypeOK, Busy, Goto
  <2> QED  BY <1>4, <2>4, <2>5 DEF Structure
<1>6. CASE ~Takes(k, s, m) /\ msg' = [msg EXCEPT ![p] = passed] /\ UNCHANGED pc
  <2>1. k \notin {"donation", "need"}  BY <1>6 DEF Takes
  <2>2. i + 1 \in DOMAIN Chain  BY <1>2, <2>1 DEF Chain
  <2>3. passed \in Asking  BY <1>2, <2>2 DEF Asking
  <2>4. PICK h : h = passed  OBVIOUS
  <2>5. TypeOK'  BY <1>1, <1>6, <2>3, <2>4 DEF Structure, TypeOK
  <2>6. \A q \in Process : Busy(q)'  BY <1>1, <1>6, <2>3, <2>4 DEF Structure, TypeOK, Busy
  <2> QED  BY <1>4, <2>5, <2>6 DEF Structure
<1> QED  BY <1>5, <1>6 DEF AskHandler

\* An active pointer is to a draft of its chat.
LEMMA ActiveOwned ==
  ASSUME Structure, Owned, NEW s \in Scope, NEW k \in Kind, Active(s, k) # None
  PROVE  Active(s, k) \in Draft /\ <<s, Active(s, k)>> \in touched
<1>1. file # Torn /\ Active(s, k) = file[s][k]
  BY DEF Active, Contents, NoPointers
<1> QED  BY <1>1 DEF Structure, TypeOK, Owned, OwnFile, OwnPointers, Pointers

LEMMA ResolveKeeps ==
  ASSUME Structure, Owned, NEW p \in Process, Resolve(p)
  PROVE  Structure' /\ Owned'
<1> DEFINE k == msg[p].kind
           s == msg[p].scope
           n == msg[p].named
           a == Active(s, k)
<1>1. msg[p] \in Handling  BY DEF Structure, Busy, Resolve
<1>2. k \in Kind /\ s \in Scope /\ n \in Draft \cup {None}  BY <1>1 DEF Handling
<1>3. UNCHANGED file  BY DEF Resolve
<1>4. CASE n # None /\ Exists(n) /\ KindOf[n] = k /\ Attach(p, n)
  BY <1>1, <1>2, <1>3, <1>4, AttachKeeps
<1>5. CASE n = None /\ a # None /\ IsOpen(a) /\ Attach(p, a)
  <2>1. a \in Draft /\ Exists(a)  BY <1>2, <1>5, ActiveOwned DEF IsOpen
  <2> QED  BY <1>1, <1>3, <1>5, <2>1, AttachKeeps
<1>6. CASE Return(p) /\ UNCHANGED <<drafts, history>>
  <2>1. \A q \in Process : OwnWork(q)'  BY <1>6, ReturnOwned
  <2>2. Structure'  BY <1>3, <1>6, ReturnType DEF Structure, TypeOK
  <2> QED  BY <1>3, <1>6, <2>1, <2>2 DEF Owned, OwnRows, OwnFile, OwnPointers
<1>7. CASE /\ n = None /\ a # None
           /\ Change(p, [set |-> FALSE, scope |-> s, id |-> a, then |-> "drafts"])
           /\ UNCHANGED <<drafts, history>>
  <2> DEFINE o == [set |-> FALSE, scope |-> s, id |-> a, then |-> "drafts"]
  <2>1. a \in Draft /\ <<s, a>> \in touched  BY <1>2, <1>7, ActiveOwned
  <2>2. o \in PointerOp /\ <<o.scope, o.id>> \in touched'  BY <1>2, <1>7, <2>1 DEF PointerOp
  <2>3. Change(p, o)  BY <1>7
  <2> HIDE DEF o
  <2>4. \A q \in Process : OwnWork(q)'  BY <1>1, <1>7, <2>2, <2>3, ChangeOwned
  <2>5. Structure'  BY <1>1, <1>3, <1>7, <2>2, <2>3, ChangeType DEF Structure, TypeOK
  <2> QED  BY <1>3, <1>7, <2>4, <2>5 DEF Owned, OwnRows, OwnFile, OwnPointers
<1>8. CASE Goto(p, "drafts") /\ UNCHANGED <<msg, op, loaded, drafts, history>>
  BY <1>1, <1>3, <1>8
  DEF Goto, Structure, TypeOK, Busy, Owned, OwnRows, OwnFile, OwnWork, OwnPointers
<1> QED  BY <1>4, <1>5, <1>6, <1>7, <1>8 DEF Resolve

LEMMA PickKeeps ==
  ASSUME Structure, Owned, NEW p \in Process, PickDraft(p)
  PROVE  Structure' /\ Owned'
<1>1. msg[p] \in Handling  BY DEF Structure, Busy, PickDraft
<1>2. UNCHANGED file  BY DEF PickDraft
<1>3. ASSUME NEW d \in OpenDrafts(msg[p].scope, msg[p].kind), Attach(p, d)
      PROVE  Structure' /\ Owned'
  <2>1. d \in Draft /\ Exists(d)  BY DEF OpenDrafts, IsOpen
  <2> QED  BY <1>1, <1>2, <1>3, <2>1, AttachKeeps
<1>4. CASE Return(p) /\ UNCHANGED <<drafts, history>>
  <2>1. \A q \in Process : OwnWork(q)'  BY <1>4, ReturnOwned
  <2>2. Structure'  BY <1>2, <1>4, ReturnType DEF Structure, TypeOK
  <2> QED  BY <1>2, <1>4, <2>1, <2>2 DEF Owned, OwnRows, OwnFile, OwnPointers
<1> QED  BY <1>3, <1>4 DEF PickDraft

-----------------------------------------------------------------------------
\* Proceed ends the handling, or goes on to the open drafts.
LEMMA ProceedKeeps ==
  ASSUME Structure, Owned, NEW p \in Process, pc[p] \in {"load", "fill"}, Proceed(p),
         UNCHANGED touched
  PROVE  /\ pc' \in [Process -> {"idle", "ask", "resolve", "drafts", "load", "empty", "fill"}]
         /\ msg' \in [Process -> Asking \cup Handling \cup {None}]
         /\ op' \in [Process -> PointerOp \cup {None}]
         /\ loaded' \in [Process -> Pointers]
         /\ \A q \in Process : Busy(q)' /\ OwnWork(q)'
<1>1. CASE Return(p)  BY <1>1, ReturnType, ReturnOwned
<1>2. CASE /\ op[p].then = "drafts" /\ Goto(p, "drafts")
           /\ op' = [op EXCEPT ![p] = None] /\ loaded' = [loaded EXCEPT ![p] = NoPointers]
           /\ UNCHANGED msg
  <2>1. NoPointers \in Pointers  BY DEF NoPointers, Pointers
  <2>2. msg[p] \in Handling  BY <1>2 DEF Structure, Busy
  <2>3. \A q \in Process : Busy(q)'  BY <1>2, <2>2 DEF Structure, TypeOK, Busy, Goto
  <2>4. \A q \in Process : OwnWork(q)'
    BY <1>2 DEF Structure, TypeOK, Owned, OwnWork, OwnPointers, Goto
  <2> QED  BY <1>2, <2>1, <2>3, <2>4 DEF Structure, TypeOK, Goto
<1> QED  BY <1>1, <1>2 DEF Proceed

LEMMA LoadKeeps ==
  ASSUME Structure, Owned, NEW p \in Process, LoadState(p)
  PROVE  Structure' /\ Owned'
<1> DEFINE o == op[p]
           k == KindOf[o.id]
           entry == Contents[o.scope]
<1>1. /\ o \in PointerOp /\ o.scope \in Scope /\ o.id \in Draft /\ k \in Kind
      /\ <<o.scope, o.id>> \in touched
  BY KindAssumption DEF LoadState, Structure, Busy, PointerOp, Owned, OwnWork
<1>2. Contents \in Pointers  BY ContentsType DEF Structure
<1>3. OwnPointers(Contents)
  BY DEF Owned, OwnFile, OwnPointers, Contents, NoPointers
<1>4. UNCHANGED <<drafts, file, history>>  BY DEF LoadState
<1>5. OwnRows' /\ OwnFile'  BY <1>4 DEF Owned, OwnRows, OwnFile, OwnPointers
<1>6. ASSUME NEW f \in Pointers, OwnPointers(f), loaded' = [loaded EXCEPT ![p] = f],
             Goto(p, "empty"), UNCHANGED <<msg, op>>
      PROVE  Structure' /\ Owned'
  <2>1. TypeOK'  BY <1>4, <1>6 DEF Structure, TypeOK, Goto
  <2>2. \A q \in Process : Busy(q)'
    BY <1>1, <1>6 DEF LoadState, WithActive, WithoutActive, Structure, TypeOK, Busy, Goto
  <2>3. \A q \in Process : OwnWork(q)'
    BY <1>1, <1>4, <1>6 DEF Structure, TypeOK, Owned, OwnWork, OwnPointers, Goto
  <2> QED  BY <1>5, <2>1, <2>2, <2>3 DEF Structure, Owned
<1>7. CASE /\ o.set
           /\ loaded' = [loaded EXCEPT ![p] = [Contents EXCEPT ![o.scope] =
                [j \in Kind |-> IF j = k THEN o.id ELSE IF k = "need" THEN None ELSE entry[j]]]]
           /\ Goto(p, "empty") /\ UNCHANGED <<msg, op>>
  <2> DEFINE f == [Contents EXCEPT ![o.scope] =
                [j \in Kind |-> IF j = k THEN o.id ELSE IF k = "need" THEN None ELSE entry[j]]]
  <2>1. f \in Pointers  BY <1>1, <1>2 DEF Pointers
  <2>2. OwnPointers(f)  BY <1>1, <1>2, <1>3 DEF OwnPointers, Pointers
  <2>3. loaded' = [loaded EXCEPT ![p] = f]  BY <1>7
  <2> HIDE DEF f
  <2> QED  BY <1>6, <1>7, <2>1, <2>2, <2>3
<1>8. CASE /\ loaded' = [loaded EXCEPT ![p] = [Contents EXCEPT ![o.scope][k] = None]]
           /\ Goto(p, "empty") /\ UNCHANGED <<msg, op>>
  <2> DEFINE f == [Contents EXCEPT ![o.scope][k] = None]
  <2>1. f \in Pointers  BY <1>1, <1>2 DEF Pointers
  <2>2. OwnPointers(f)  BY <1>1, <1>2, <1>3 DEF OwnPointers, Pointers
  <2>3. loaded' = [loaded EXCEPT ![p] = f]  BY <1>8
  <2> HIDE DEF f
  <2> QED  BY <1>6, <1>8, <2>1, <2>2, <2>3
<1>9. CASE Proceed(p)
  <2>1. pc[p] \in {"load", "fill"}  BY DEF LoadState
  <2>2. /\ pc' \in [Process -> {"idle", "ask", "resolve", "drafts", "load", "empty", "fill"}]
        /\ msg' \in [Process -> Asking \cup Handling \cup {None}]
        /\ op' \in [Process -> PointerOp \cup {None}]
        /\ loaded' \in [Process -> Pointers]
        /\ \A q \in Process : Busy(q)' /\ OwnWork(q)'
    BY <1>4, <1>9, <2>1, ProceedKeeps
  <2>3. TypeOK'  BY <1>4, <2>2 DEF Structure, TypeOK
  <2> QED  BY <1>5, <2>2, <2>3 DEF Structure, Owned
<1> QED  BY <1>7, <1>8, <1>9 DEF LoadState, WithActive, WithoutActive

LEMMA EmptyKeeps ==
  ASSUME Structure, Owned, NEW p \in Process, EmptyFile(p)
  PROVE  Structure' /\ Owned'
<1>1. TypeOK'  BY DEF EmptyFile, Goto, Structure, TypeOK
<1>2. \A q \in Process : Busy(q)'  BY DEF EmptyFile, Goto, Structure, TypeOK, Busy
<1>3. Owned'
  BY DEF EmptyFile, Goto, Structure, TypeOK, Owned, OwnRows, OwnFile, OwnWork, OwnPointers
<1> QED  BY <1>1, <1>2, <1>3 DEF Structure

LEMMA FillKeeps ==
  ASSUME Structure, Owned, NEW p \in Process, FillFile(p)
  PROVE  Structure' /\ Owned'
<1>1. pc[p] = "fill" /\ file' = loaded[p] /\ UNCHANGED <<drafts, history>> /\ Proceed(p)
  BY DEF FillFile
<1>2. /\ pc' \in [Process -> {"idle", "ask", "resolve", "drafts", "load", "empty", "fill"}]
      /\ msg' \in [Process -> Asking \cup Handling \cup {None}]
      /\ op' \in [Process -> PointerOp \cup {None}]
      /\ loaded' \in [Process -> Pointers]
      /\ \A q \in Process : Busy(q)' /\ OwnWork(q)'
  BY <1>1, ProceedKeeps
<1>3. loaded[p] \in Pointers /\ OwnPointers(loaded[p])
  BY <1>1 DEF Structure, TypeOK, Owned, OwnWork
<1>4. OwnRows' /\ OwnFile'  BY <1>1, <1>3 DEF Owned, OwnRows, OwnFile, OwnPointers
<1>5. TypeOK'  BY <1>1, <1>2, <1>3 DEF Structure, TypeOK
<1> QED  BY <1>2, <1>4, <1>5 DEF Structure, Owned

LEMMA AbortKeeps ==
  ASSUME Structure, Owned, NEW p \in Process, Abort(p)
  PROVE  Structure' /\ Owned'
<1>1. Return(p) /\ UNCHANGED <<drafts, file, touched, latest>>  BY DEF Abort
<1>2. lost' \subseteq Scope \X Kind
  BY KindAssumption DEF Abort, Structure, TypeOK, Busy, PointerOp
<1>3. \A q \in Process : OwnWork(q)'  BY <1>1, ReturnOwned
<1>4. Structure'  BY <1>1, <1>2, ReturnType DEF Structure, TypeOK
<1> QED  BY <1>1, <1>3, <1>4 DEF Owned, OwnRows, OwnFile, OwnPointers

-----------------------------------------------------------------------------
Inv == Structure /\ Owned

\* The invariant is inductive.
LEMMA Inductive == Spec => []Inv
<1>1. Init => Inv
  <2> SUFFICES ASSUME Init PROVE Inv  OBVIOUS
  <2>1. NoPointers \in Pointers  BY DEF NoPointers, Pointers
  <2>2. TypeOK  BY <2>1 DEF Init, TypeOK
  <2>3. Owned  BY DEF Init, Owned, OwnRows, OwnFile, OwnWork, OwnPointers, NoPointers
  <2> QED  BY <2>2, <2>3 DEF Inv, Structure, Busy, Init
<1>2. Inv /\ [Next]_vars => Inv'
  <2> SUFFICES ASSUME Inv, [Next]_vars PROVE Inv'  OBVIOUS
  <2>0. Structure /\ Owned  BY DEF Inv
  <2>1. CASE UNCHANGED vars
    BY <2>1 DEF vars, Inv, Structure, TypeOK, Busy, Owned, OwnRows, OwnFile, OwnWork, OwnPointers
  <2>2. ASSUME NEW p \in Process,
               \/ Command(p) \/ ReceiveFollowUp(p) \/ AskHandler(p) \/ Resolve(p) \/ PickDraft(p)
               \/ LoadState(p) \/ EmptyFile(p) \/ FillFile(p) \/ Abort(p)
        PROVE  Structure' /\ Owned'
    BY <2>0, <2>2, CommandKeeps, ReceiveKeeps, AskKeeps, ResolveKeeps, PickKeeps, LoadKeeps, EmptyKeeps,
       FillKeeps, AbortKeeps
  <2> QED  BY <2>1, <2>2 DEF Next, Inv
<1> QED  BY <1>1, <1>2, PTL DEF Spec

\* Every reachable state is well typed: the pointers a process has read are
\* always a dict of pointers, even after it has found the file torn
\* (load_active_need_state).
THEOREM TypeInvariant == Spec => []TypeOK
<1>1. Inv => TypeOK  BY DEF Inv, Structure
<1> QED  BY Inductive, <1>1, PTL

\* A follow-up that names no draft only changes a draft that its chat has
\* created or named before, for any number of processes that change the file
\* of pointers without a lock and may die between emptying and filling it
\* (resolve_*_followup_target, save_active_need_state).
THEOREM FollowUpsStayInTheirChat == Spec => OwnDraftsOnly
<1> DEFINE Kept == \A p \in Process, d \in Draft :
             pc[p] \in {"resolve", "drafts"} /\ pc'[p] # pc[p] /\ drafts'[d] # drafts[d] =>
               d = msg[p].named \/ <<msg[p].scope, d>> \in touched
<1>1. ASSUME Inv, [Next]_vars, NEW p \in Process, NEW d \in Draft,
             pc[p] \in {"resolve", "drafts"}, pc'[p] # pc[p], drafts'[d] # drafts[d]
      PROVE  d = msg[p].named \/ <<msg[p].scope, d>> \in touched
  <2>0. /\ Structure /\ Owned
        /\ DOMAIN pc = Process /\ drafts \in [Draft -> Row \cup {None}]
    BY <1>1 DEF Inv, Structure, TypeOK
  <2>1. PICK q \in Process :
          \/ Command(q) \/ ReceiveFollowUp(q) \/ AskHandler(q) \/ Resolve(q) \/ PickDraft(q)
          \/ LoadState(q) \/ EmptyFile(q) \/ FillFile(q) \/ Abort(q)
    BY <1>1 DEF Next, vars
  <2>2. q = p
    BY <1>1, <2>0, <2>1 DEF Command, ReceiveFollowUp, AskHandler, Resolve, PickDraft, LoadState,
       EmptyFile, FillFile, Abort, Attach, Proceed, Return, Change, Goto
  <2>3. Resolve(p) \/ PickDraft(p)
    BY <1>1, <2>1, <2>2 DEF Command, ReceiveFollowUp, AskHandler, LoadState, EmptyFile, FillFile, Abort
  <2>4. msg[p] \in Handling  BY <1>1, <2>0 DEF Structure, Busy
  <2>5. ASSUME NEW e \in Draft, Attach(p, e) PROVE d = e
    BY <1>1, <2>0, <2>5 DEF Attach, Write
  <2>6. CASE Resolve(p)
    <3>1. msg[p].kind \in Kind /\ msg[p].scope \in Scope /\ msg[p].named \in Draft \cup {None}
      BY <2>4 DEF Handling
    <3>2. CASE /\ msg[p].named # None /\ Attach(p, msg[p].named)
      BY <2>5, <3>1, <3>2
    <3>3. CASE LET a == Active(msg[p].scope, msg[p].kind) IN a # None /\ Attach(p, a)
      <4>1. /\ Active(msg[p].scope, msg[p].kind) \in Draft
            /\ <<msg[p].scope, Active(msg[p].scope, msg[p].kind)>> \in touched
        BY <2>0, <3>1, <3>3, ActiveOwned
      <4> QED  BY <2>5, <3>3, <4>1
    <3>4. CASE UNCHANGED drafts  BY <1>1, <3>4
    <3> QED  BY <2>6, <3>2, <3>3, <3>4 DEF Resolve
  <2>7. CASE PickDraft(p)
    <3>1. ASSUME NEW e \in OpenDrafts(msg[p].scope, msg[p].kind), Attach(p, e)
          PROVE  <<msg[p].scope, d>> \in touched
      <4>1. e \in Draft /\ drafts[e] # None /\ drafts[e].scope = msg[p].scope
        BY DEF OpenDrafts, IsOpen, Exists
      <4>2. d = e  BY <2>5, <3>1, <4>1
      <4> QED  BY <2>0, <4>1, <4>2 DEF Owned, OwnRows
    <3>2. CASE UNCHANGED drafts  BY <1>1, <3>2
    <3> QED  BY <2>7, <3>1, <3>2 DEF PickDraft
  <2> QED  BY <2>3, <2>6, <2>7
<1>2. Inv /\ [Next]_vars => [Kept]_vars  BY <1>1
<1> QED  BY <1>2, Inductive, PTL DEF Spec, OwnDraftsOnly

-----------------------------------------------------------------------------
(* The draft written last is the active one.                               *)

\* Pointers f have every pointer of l but those that a death has lost.
Agree(l, x, f) ==
  \A s \in Scope, k \in Kind : l[s][k] # None /\ <<s, k>> \notin x => f[s][k] = l[s][k]

\* What the change o makes of the pointers f.
Changed(o, f) ==
  LET k == KindOf[o.id] IN
  IF o.set
  THEN [f EXCEPT ![o.scope] =
          [j \in Kind |-> IF j = k THEN o.id ELSE IF k = "need" THEN None ELSE f[o.scope][j]]]
  ELSE IF f[o.scope][k] = o.id THEN [f EXCEPT ![o.scope][k] = None] ELSE f

\* What the file will hold when p is done with it.
Intended(p) ==
  IF pc[p] = "load" THEN Changed(op[p], Contents)
  ELSE IF pc[p] \in {"empty", "fill"} THEN loaded[p] ELSE Contents

\* A draft that was written last is open: a stale pointer is never to it.
LatestOpen == \A s \in Scope, k \in Kind : latest[s][k] # None => IsOpen(latest[s][k])

\* What is about to replace the file differs from it in the change alone.
Pending(p) == pc[p] = "empty" => op[p] \in PointerOp /\ loaded[p] = Changed(op[p], Contents)

Memory ==
  Remembered /\ LatestOpen /\ \A p \in Process : Agree(latest, lost, Intended(p)) /\ Pending(p)

\* The one process knows all.
LEMMA OneRemembers ==
  ASSUME \A p, q \in Process : p = q, NEW p \in Process, LatestOpen', Pending(p)',
         Agree(latest', lost', Intended(p)')
  PROVE  Memory'
<1>1. ASSUME NEW q \in Process  PROVE Agree(latest', lost', Intended(q)') /\ Pending(q)'
  <2>1. q = p  OBVIOUS
  <2> QED  BY <2>1
<1>2. ASSUME pc'[p] = "idle", NEW s \in Scope, NEW k \in Kind, latest'[s][k] # None,
             <<s, k>> \notin lost'
      PROVE  Active(s, k)' = latest'[s][k]
  BY <1>2 DEF Agree, Intended, Active
<1> QED  BY <1>1, <1>2 DEF Memory, Remembered, Agree

\* A draft that is open once it is written is the latest of its chat and kind,
\* and the change that follows makes it the active one; one that is not open
\* is nowhere the latest.
LEMMA WriteRemembered ==
  ASSUME TypeOK, LatestOpen, NEW f \in Pointers, Agree(latest, lost, f),
         NEW s \in Scope, NEW d \in Draft, NEW st \in Status, Write(s, d, st),
         NEW o, o = [set |-> st \in OpenStates(KindOf[d]), scope |-> s, id |-> d, then |-> "idle"]
  PROVE  LatestOpen' /\ Agree(latest', lost', Changed(o, f)) /\ (~ o.set => Agree(latest', lost', f))
<1> DEFINE k == KindOf[d]
           open == st \in OpenStates(k)
<1>0. k \in Kind /\ latest \in Pointers /\ drafts \in [Draft -> Row \cup {None}]
  BY KindAssumption DEF TypeOK
<1>1. ASSUME NEW t \in Scope, NEW j \in Kind
      PROVE  latest'[t][j] = IF open /\ t = s /\ j = k THEN d
                             ELSE IF open /\ t = s /\ k = "need" THEN None
                             ELSE IF ~open /\ latest[t][j] = d THEN None ELSE latest[t][j]
  BY DEF Write
<1>7. \A t \in Scope, j \in Kind : <<t, j>> \notin lost' =>
        <<t, j>> \notin lost \/ (open /\ t = s /\ j = k)
  BY DEF Write
<1>2. drafts'[d].status = st /\ drafts'[d] # None
  <2>1. [scope |-> s, status |-> st] # None
    <3>1. [scope |-> s, status |-> st] \in [scope : Scope, status : Status]  OBVIOUS
    <3> QED  BY <3>1, NoneAssumption
  <2> QED  BY <1>0, <2>1 DEF Write
<1>3. \A e \in Draft : e # d => drafts'[e] = drafts[e]
  BY <1>0 DEF Write
<1>4. LatestOpen'
  <2> SUFFICES ASSUME NEW t \in Scope, NEW j \in Kind, NEW e, e = latest'[t][j], e # None
               PROVE  IsOpen(e)'
    BY DEF LatestOpen
  <2>1. CASE e = d
    <3>1. open
      BY <1>1, <2>1
    <3> QED  BY <1>2, <2>1, <3>1 DEF IsOpen, Exists
  <2>2. CASE e # d
    <3>1. latest[t][j] = e  BY <1>1, <2>2
    <3>2. e \in Draft /\ IsOpen(e)
      BY <1>0, <3>1 DEF LatestOpen, Pointers
    <3>3. drafts'[e] = drafts[e]  BY <1>3, <2>2, <3>2
    <3> QED  BY <3>2, <3>3 DEF IsOpen, Exists
  <2> QED  BY <2>1, <2>2
<1>5. CASE open
  <2>1. Changed(o, f) = [f EXCEPT ![s] =
          [j \in Kind |-> IF j = k THEN d ELSE IF k = "need" THEN None ELSE f[s][j]]]
    BY <1>5 DEF Changed
  <2>2. ASSUME NEW t \in Scope, NEW j \in Kind, latest'[t][j] # None, <<t, j>> \notin lost'
        PROVE  Changed(o, f)[t][j] = latest'[t][j]
    <3>1. CASE t = s
      <4>1. Changed(o, f)[t][j] = IF j = k THEN d ELSE IF k = "need" THEN None ELSE f[s][j]
        BY <2>1, <3>1 DEF Pointers
      <4> QED  BY <1>1, <1>5, <1>7, <2>2, <3>1, <4>1 DEF Agree
    <3>2. CASE t # s
      <4>1. Changed(o, f)[t][j] = f[t][j]
        BY <2>1, <3>2 DEF Pointers
      <4> QED  BY <1>1, <1>5, <1>7, <2>2, <3>2, <4>1 DEF Agree
    <3> QED  BY <3>1, <3>2
  <2> QED  BY <1>4, <1>5, <2>2 DEF Agree
<1>6. CASE ~ open
  <2>1. \A t \in Scope, j \in Kind : latest'[t][j] # None => latest'[t][j] = latest[t][j] /\ latest[t][j] # d
    BY <1>1, <1>6
  <2>2. Agree(latest', lost', f)
    BY <1>6, <1>7, <2>1 DEF Agree
  <2>3. Agree(latest', lost', Changed(o, f))
    <3>1. CASE f[s][k] = d
      <4>1. Changed(o, f) = [f EXCEPT ![s][k] = None]
        BY <1>6, <3>1 DEF Changed
      <4>2. ASSUME NEW t \in Scope, NEW j \in Kind, latest'[t][j] # None, <<t, j>> \notin lost'
            PROVE  Changed(o, f)[t][j] = latest'[t][j]
        <5>1. f[t][j] = latest'[t][j] /\ latest'[t][j] # d
          BY <2>1, <2>2, <4>2 DEF Agree
        <5>2. ~ (t = s /\ j = k)
          BY <3>1, <5>1
        <5>3. Changed(o, f)[t][j] = f[t][j]
          BY <4>1, <5>2 DEF Pointers
        <5> QED  BY <5>1, <5>3
      <4> QED  BY <4>2 DEF Agree
    <3>2. CASE f[s][k] # d
      BY <1>6, <2>2, <3>2 DEF Changed
    <3> QED  BY <3>1, <3>2
  <2> QED  BY <1>4, <2>2, <2>3
<1> QED  BY <1>5, <1>6

\* Dropping a pointer to a draft that is not open drops no latest one.
LEMMA DropRemembered ==
  ASSUME TypeOK, LatestOpen, NEW f \in Pointers, Agree(latest, lost, f), NEW o \in PointerOp,
         ~ o.set, ~ IsOpen(o.id)
  PROVE  Agree(latest, lost, Changed(o, f))
<1> DEFINE k == KindOf[o.id]
<1>1. o.scope \in Scope /\ k \in Kind
  BY KindAssumption DEF PointerOp
<1>2. CASE f[o.scope][k] = o.id
  <2>1. Changed(o, f) = [f EXCEPT ![o.scope][k] = None]
    BY <1>2 DEF Changed
  <2>2. ASSUME NEW t \in Scope, NEW j \in Kind, latest[t][j] # None, <<t, j>> \notin lost
        PROVE  Changed(o, f)[t][j] = latest[t][j]
    <3>1. f[t][j] = latest[t][j] /\ latest[t][j] # o.id
      BY <2>2 DEF Agree, LatestOpen
    <3>2. ~ (t = o.scope /\ j = k)
      BY <1>2, <3>1
    <3>3. Changed(o, f)[t][j] = f[t][j]
      BY <1>1, <2>1, <3>2 DEF Pointers
    <3> QED  BY <3>1, <3>3
  <2> QED  BY <2>2 DEF Agree
<1>3. CASE f[o.scope][k] # o.id
  BY <1>3 DEF Changed
<1> QED  BY <1>2, <1>3

\* A change that is not made leaves every pointer but its own as it would be.
LEMMA UnchangedRemembered ==
  ASSUME NEW f \in Pointers, NEW o \in PointerOp, Agree(latest, lost, Changed(o, f)),
         NEW x, lost \subseteq x, o.set => <<o.scope, KindOf[o.id]>> \in x
  PROVE  Agree(latest, x, f)
<1> DEFINE k == KindOf[o.id]
<1> SUFFICES ASSUME NEW t \in Scope, NEW j \in Kind, latest[t][j] # None, <<t, j>> \notin x
             PROVE  f[t][j] = latest[t][j]
  BY DEF Agree
<1>1. o.scope \in Scope /\ k \in Kind  BY KindAssumption DEF PointerOp
<1>2. Changed(o, f)[t][j] = latest[t][j]  BY DEF Agree
<1>3. CASE o.set
  <2>1. Changed(o, f) = [f EXCEPT ![o.scope] =
          [i \in Kind |-> IF i = k THEN o.id ELSE IF k = "need" THEN None ELSE f[o.scope][i]]]
    BY <1>3 DEF Changed
  <2>2. ~ (t = o.scope /\ j = k)  BY <1>3
  <2>3. CASE t = o.scope
    <3>1. Changed(o, f)[t][j] = IF k = "need" THEN None ELSE f[t][j]
      BY <1>1, <2>1, <2>2, <2>3 DEF Pointers
    <3> QED  BY <1>2, <3>1
  <2>4. CASE t # o.scope
    <3>1. Changed(o, f)[t][j] = f[t][j]  BY <2>1, <2>4 DEF Pointers
    <3> QED  BY <1>2, <3>1
  <2> QED  BY <2>3, <2>4
<1>4. CASE ~ o.set /\ f[o.scope][k] = o.id
  <2>1. Changed(o, f) = [f EXCEPT ![o.scope][k] = None]  BY <1>4 DEF Changed
  <2>2. ~ (t = o.scope /\ j = k)  BY <1>1, <1>2, <2>1 DEF Pointers
  <2>3. Changed(o, f)[t][j] = f[t][j]  BY <1>1, <2>1, <2>2 DEF Pointers
  <2> QED  BY <1>2, <2>3
<1>5. CASE ~ o.set /\ f[o.scope][k] # o.id
  BY <1>2, <1>5 DEF Changed
<1> QED  BY <1>3, <1>4, <1>5

LEMMA ContentsKept == ASSUME UNCHANGED file PROVE Contents' = Contents
BY DEF Contents

\* The change of a pointer that follows a write, or the return without one.
LEMMA WrittenRemembers ==
  ASSUME \A p, q \in Process : p = q, Structure, Memory, NEW p \in Process,
         Intended(p) = Contents, UNCHANGED file,
         NEW s \in Scope, NEW d \in Draft, NEW st \in Status, Write(s, d, st),
         NEW o, o = [set |-> st \in OpenStates(KindOf[d]), scope |-> s, id |-> d, then |-> "idle"],
         Change(p, o) \/ (Return(p) /\ ~ o.set)
  PROVE  Memory'
<1>1. /\ TypeOK /\ LatestOpen /\ Agree(latest, lost, Contents) /\ Contents \in Pointers
      /\ Contents' = Contents /\ o \in PointerOp
  BY ContentsType, ContentsKept DEF Structure, Memory, PointerOp
<1>2. LatestOpen' /\ Agree(latest', lost', Changed(o, Contents)) /\ (~ o.set => Agree(latest', lost', Contents))
  BY <1>1, WriteRemembered
<1>3. CASE Change(p, o)
  <2>1. pc'[p] = "load" /\ op'[p] = o
    BY <1>3 DEF Change, Goto, Structure, TypeOK
  <2>2. Intended(p)' = Changed(o, Contents) /\ Pending(p)'
    BY <1>1, <2>1 DEF Intended, Changed, Pending
  <2> QED  BY <1>2, <2>2, OneRemembers
<1>4. CASE Return(p) /\ ~ o.set
  <2>1. pc'[p] = "idle"
    BY <1>4 DEF Return, Goto, Structure, TypeOK
  <2>2. Intended(p)' = Contents /\ Pending(p)'
    BY <1>1, <2>1 DEF Intended, Pending
  <2> QED  BY <1>2, <1>4, <2>2, OneRemembers
<1> QED  BY <1>3, <1>4

LEMMA AttachRemembers ==
  ASSUME \A p, q \in Process : p = q, Structure, Memory, NEW p \in Process,
         Intended(p) = Contents, UNCHANGED file, msg[p] \in Handling,
         NEW d \in Draft, Exists(d), Attach(p, d)
  PROVE  Memory'
<1> DEFINE s == msg[p].scope
           k == KindOf[d]
           st == IF msg[p].status # None THEN msg[p].status ELSE drafts[d].status
           o == [set |-> st \in OpenStates(k), scope |-> s, id |-> d, then |-> "idle"]
<1>1. s \in Scope  BY DEF Handling
<1>2. st \in Status  BY DEF Handling, Exists, Structure, TypeOK, Row
<1>3. Write(s, d, st)  BY DEF Attach
<1>4. Change(p, o) \/ (Return(p) /\ ~ o.set)  BY DEF Attach
<1> HIDE DEF s, st
<1>5. o = [set |-> st \in OpenStates(KindOf[d]), scope |-> s, id |-> d, then |-> "idle"]  OBVIOUS
<1> HIDE DEF o
<1> QED  BY <1>1, <1>2, <1>3, <1>4, <1>5, WrittenRemembers

\* A step that writes no draft and goes on to a phase in which the file is as
\* it should be.
LEMMA SettledRemembers ==
  ASSUME \A p, q \in Process : p = q, Memory, NEW p \in Process, UNCHANGED <<drafts, latest, lost>>,
         pc'[p] \in {"idle", "ask", "resolve", "drafts"}, Agree(latest, lost, Contents')
  PROVE  Memory'
<1>1. Intended(p)' = Contents' /\ Pending(p)'  BY DEF Intended, Pending
<1>2. LatestOpen'  BY DEF Memory, LatestOpen, IsOpen, Exists
<1> QED  BY <1>1, <1>2, OneRemembers

LEMMA ProceedSettles ==
  ASSUME TypeOK, NEW p \in Process, Proceed(p)
  PROVE  pc'[p] \in {"idle", "drafts"}
BY DEF TypeOK, Proceed, Return, Goto

\* Emptying and filling the file only takes up what was loaded.
LEMMA MemoryStep ==
  ASSUME \A p, q \in Process : p = q, Structure, Owned, Memory, [Next]_vars
  PROVE  Memory'
<1>0. TypeOK /\ LatestOpen /\ (\A p \in Process : Agree(latest, lost, Intended(p))) /\ Contents \in Pointers
  BY ContentsType DEF Structure, Memory
<1>1. ASSUME NEW p \in Process, Command(p)  PROVE Memory'
  <2>1. pc[p] = "idle" /\ UNCHANGED file  BY <1>1 DEF Command
  <2>2. PICK s \in Scope, d \in Draft, st \in Drafted :
          /\ Write(s, d, st)
          /\ Change(p, [set |-> st \in OpenStates(KindOf[d]), scope |-> s, id |-> d, then |-> "idle"])
    BY <1>1 DEF Command
  <2>3. st \in Status  BY DraftedAssumption
  <2>4. Intended(p) = Contents  BY <2>1 DEF Intended
  <2> QED  BY <2>1, <2>2, <2>3, <2>4, WrittenRemembers
<1>2. ASSUME NEW p \in Process, ReceiveFollowUp(p)  PROVE Memory'
  <2>1. pc[p] = "idle" /\ pc'[p] = "ask" /\ UNCHANGED <<drafts, file, latest, lost>>
    BY <1>0, <1>2 DEF ReceiveFollowUp, Goto, TypeOK
  <2>2. Intended(p) = Contents /\ Contents' = Contents  BY <2>1, ContentsKept DEF Intended
  <2> QED  BY <1>0, <2>1, <2>2, SettledRemembers
<1>10. ASSUME NEW p \in Process, AskHandler(p)  PROVE Memory'
  <2>1. pc[p] = "ask" /\ pc'[p] \in {"ask", "resolve"} /\ UNCHANGED <<drafts, file, latest, lost>>
    BY <1>0, <1>10 DEF AskHandler, Goto, TypeOK
  <2>2. Intended(p) = Contents /\ Contents' = Contents  BY <2>1, ContentsKept DEF Intended
  <2> QED  BY <1>0, <2>1, <2>2, SettledRemembers
<1>3. ASSUME NEW p \in Process, Resolve(p)  PROVE Memory'
  <2> DEFINE k == msg[p].kind
             s == msg[p].scope
             n == msg[p].named
             a == Active(s, k)
  <2>1. pc[p] = "resolve" /\ msg[p] \in Handling /\ UNCHANGED file
    BY <1>3 DEF Resolve, Structure, Busy
  <2>2. k \in Kind /\ s \in Scope /\ n \in Draft \cup {None}  BY <2>1 DEF Handling
  <2>3. Intended(p) = Contents /\ Contents' = Contents  BY <2>1, ContentsKept DEF Intended
  <2>4. CASE n # None /\ Exists(n) /\ Attach(p, n)
    BY <2>1, <2>2, <2>3, <2>4, AttachRemembers
  <2>5. CASE n = None /\ a # None /\ IsOpen(a) /\ Attach(p, a)
    <3>1. a \in Draft /\ Exists(a)  BY <2>2, <2>5, ActiveOwned DEF IsOpen
    <3> QED  BY <2>1, <2>3, <2>5, <3>1, AttachRemembers
  <2>6. CASE (Return(p) \/ Goto(p, "drafts")) /\ UNCHANGED <<drafts, latest, lost>>
    <3>1. pc'[p] \in {"idle", "drafts"}  BY <1>0, <2>6 DEF Return, Goto, TypeOK
    <3> QED  BY <1>0, <2>3, <2>6, <3>1, SettledRemembers
  <2>7. CASE /\ a # None /\ ~ IsOpen(a)
             /\ Change(p, [set |-> FALSE, scope |-> s, id |-> a, then |-> "drafts"])
             /\ UNCHANGED <<drafts, latest, lost>>
    <3> DEFINE o == [set |-> FALSE, scope |-> s, id |-> a, then |-> "drafts"]
    <3>1. a \in Draft  BY <2>2, <2>7, ActiveOwned
    <3>2. o \in PointerOp /\ ~ o.set /\ ~ IsOpen(o.id)  BY <2>2, <2>7, <3>1 DEF PointerOp
    <3>3. Change(p, o)  BY <2>7
    <3> HIDE DEF o
    <3>4. PICK c : c = o  OBVIOUS
    <3>5. Agree(latest, lost, Changed(c, Contents))
      BY <1>0, <2>3, <3>2, <3>4, DropRemembered
    <3>6. pc'[p] = "load" /\ op'[p] = c
      BY <1>0, <3>3, <3>4 DEF Change, Goto, TypeOK
    <3>7. Intended(p)' = Changed(c, Contents) /\ Pending(p)'
      BY <2>3, <3>6 DEF Intended, Changed, Pending
    <3>8. LatestOpen'  BY <1>0, <2>7 DEF LatestOpen, IsOpen, Exists
    <3> QED  BY <2>7, <3>5, <3>7, <3>8, OneRemembers
  <2> QED  BY <1>3, <2>4, <2>5, <2>6, <2>7 DEF Resolve
<1>4. ASSUME NEW p \in Process, PickDraft(p)  PROVE Memory'
  <2>1. pc[p] = "drafts" /\ msg[p] \in Handling /\ UNCHANGED file
    BY <1>4 DEF PickDraft, Structure, Busy
  <2>2. Intended(p) = Contents /\ Contents' = Contents  BY <2>1, ContentsKept DEF Intended
  <2>3. ASSUME NEW d \in OpenDrafts(msg[p].scope, msg[p].kind), Attach(p, d)  PROVE Memory'
    <3>1. d \in Draft /\ Exists(d)  BY DEF OpenDrafts, IsOpen
    <3> QED  BY <2>1, <2>2, <2>3, <3>1, AttachRemembers
  <2>4. CASE Return(p) /\ UNCHANGED <<drafts, latest, lost>>
    <3>1. pc'[p] = "idle"  BY <1>0, <2>4 DEF Return, Goto, TypeOK
    <3> QED  BY <1>0, <2>2, <2>4, <3>1, SettledRemembers
  <2> QED  BY <1>4, <2>3, <2>4 DEF PickDraft
<1>5. ASSUME NEW p \in Process, LoadState(p)  PROVE Memory'
  <2> DEFINE o == op[p]
             k == KindOf[o.id]
             entry == Contents[o.scope]
  <2>1. pc[p] = "load" /\ o \in PointerOp /\ UNCHANGED <<drafts, file, latest, lost>>
    BY <1>5 DEF LoadState, Structure, Busy
  <2>2. o.scope \in Scope /\ o.id \in Draft /\ k \in Kind
    BY <2>1, KindAssumption DEF PointerOp
  <2>3. Agree(latest, lost, Changed(o, Contents)) /\ Contents' = Contents
    BY <1>0, <2>1, ContentsKept DEF Intended
  <2>4. o.id # None  BY <2>2, NoneAssumption
  <2>5. ASSUME loaded' = [loaded EXCEPT ![p] = Changed(o, Contents)], Goto(p, "empty"), UNCHANGED op
        PROVE  Memory'
    <3>1. pc'[p] = "empty" /\ loaded'[p] = Changed(o, Contents) /\ op'[p] = o
      BY <1>0, <2>5 DEF Goto, TypeOK
    <3>2. Intended(p)' = Changed(o, Contents)  BY <3>1 DEF Intended
    <3>4. Pending(p)'
      <4>1. Changed(op'[p], Contents') = Changed(o, Contents)  BY <2>3, <3>1
      <4> QED  BY <2>1, <3>1, <4>1 DEF Pending, Changed
    <3>3. LatestOpen'  BY <1>0, <2>1 DEF LatestOpen, IsOpen, Exists
    <3> QED  BY <2>1, <2>3, <3>2, <3>3, <3>4, OneRemembers
  <2>6. CASE /\ o.set
             /\ loaded' = [loaded EXCEPT ![p] = [Contents EXCEPT ![o.scope] =
                  [j \in Kind |-> IF j = k THEN o.id ELSE IF k = "need" THEN None ELSE entry[j]]]]
             /\ Goto(p, "empty") /\ UNCHANGED op
    <3>1. loaded' = [loaded EXCEPT ![p] = Changed(o, Contents)]
      BY <2>6 DEF Changed
    <3> QED  BY <2>5, <2>6, <3>1
  <2>7. CASE /\ ~ o.set /\ entry[k] \in {None, o.id}
             /\ loaded' = [loaded EXCEPT ![p] = [Contents EXCEPT ![o.scope][k] = None]]
             /\ Goto(p, "empty") /\ UNCHANGED op
    <3>1. Changed(o, Contents) = [Contents EXCEPT ![o.scope][k] = None]
      <4>1. CASE entry[k] = o.id  BY <2>7, <4>1 DEF Changed
      <4>2. CASE entry[k] = None
        <5>1. Changed(o, Contents) = Contents  BY <2>4, <2>7, <4>2 DEF Changed
        <5>2. [Contents EXCEPT ![o.scope][k] = None] = Contents
          BY <1>0, <2>2, <4>2 DEF Pointers
        <5> QED  BY <5>1, <5>2
      <4> QED  BY <2>7, <4>1, <4>2
    <3> QED  BY <2>5, <2>7, <3>1
  <2>8. CASE ~ o.set /\ (entry = NoPointers[o.scope] \/ entry[k] \notin {None, o.id}) /\ Proceed(p)
    <3>1. entry[k] # o.id
      BY <2>2, <2>4, <2>8 DEF NoPointers
    <3>2. Changed(o, Contents) = Contents
      BY <2>8, <3>1 DEF Changed
    <3>3. pc'[p] \in {"idle", "drafts"}
      BY <1>0, <2>8, ProceedSettles
    <3> QED  BY <2>1, <2>3, <3>2, <3>3, SettledRemembers
  <2> QED  BY <1>5, <2>6, <2>7, <2>8 DEF LoadState, WithActive, WithoutActive
<1>6. ASSUME NEW p \in Process, EmptyFile(p)  PROVE Memory'
  <2>1. pc[p] = "empty" /\ pc'[p] = "fill" /\ UNCHANGED <<drafts, loaded, latest, lost>>
    BY <1>0, <1>6 DEF EmptyFile, Goto, TypeOK
  <2>2. Intended(p)' = Intended(p) /\ Pending(p)'  BY <2>1 DEF Intended, Pending
  <2>3. LatestOpen'  BY <1>0, <2>1 DEF LatestOpen, IsOpen, Exists
  <2> QED  BY <1>0, <2>1, <2>2, <2>3, OneRemembers
<1>7. ASSUME NEW p \in Process, FillFile(p)  PROVE Memory'
  <2>1. pc[p] = "fill" /\ file' = loaded[p] /\ UNCHANGED <<drafts, latest, lost>> /\ Proceed(p)
    BY <1>7 DEF FillFile
  <2>2. loaded[p] # Torn
    BY <1>0, TornAssumption DEF TypeOK, Pointers
  <2>3. Contents' = Intended(p)  BY <2>1, <2>2 DEF Contents, Intended
  <2>4. pc'[p] \in {"idle", "drafts"}  BY <1>0, <2>1, ProceedSettles
  <2> QED  BY <1>0, <2>1, <2>3, <2>4, SettledRemembers
<1>8. ASSUME NEW p \in Process, Abort(p)  PROVE Memory'
  <2>1. pc'[p] = "idle" /\ UNCHANGED <<drafts, file, latest>>
    BY <1>0, <1>8 DEF Abort, Return, Goto, TypeOK
  <2>2. Contents' = Contents  BY <2>1, ContentsKept
  <2>3. Intended(p)' = Contents /\ Pending(p)'  BY <2>1, <2>2 DEF Intended, Pending
  <2>4. LatestOpen'  BY <1>0, <2>1 DEF LatestOpen, IsOpen, Exists
  <2>5. CASE pc[p] = "fill"
    <3>1. lost' = Scope \X Kind  BY <1>8, <2>5 DEF Abort
    <3> QED  BY <2>3, <2>4, <3>1, OneRemembers DEF Agree
  <2>6. CASE pc[p] \in {"load", "empty"}
    <3> DEFINE o == op[p]
    <3>1. o \in PointerOp  BY <2>6 DEF Structure, Busy
    <3>2. Intended(p) = Changed(o, Contents)  BY <2>6 DEF Memory, Intended, Pending
    <3>3. lost \subseteq lost' /\ (o.set => <<o.scope, KindOf[o.id]>> \in lost')
      BY <1>8, <2>6 DEF Abort
    <3>4. Agree(latest, lost, Changed(o, Contents))  BY <1>0, <3>2
    <3> HIDE DEF o
    <3>5. PICK x : x = lost'  OBVIOUS
    <3>6. Agree(latest, x, Contents)  BY <1>0, <3>1, <3>3, <3>4, <3>5, UnchangedRemembered
    <3> QED  BY <2>1, <2>3, <2>4, <3>5, <3>6, OneRemembers
  <2>7. CASE pc[p] \notin {"load", "empty", "fill"}
    <3>1. Intended(p) = Contents  BY <2>7 DEF Intended
    <3>2. lost' = lost  BY <1>8, <2>7 DEF Abort
    <3> QED  BY <1>0, <2>1, <2>3, <2>4, <3>1, <3>2, OneRemembers
  <2> QED  BY <2>5, <2>6, <2>7
<1>9. CASE UNCHANGED vars
  BY <1>9 DEF vars, Memory, Remembered, LatestOpen, IsOpen, Exists, Agree, Intended, Changed,
     Pending, Contents, Active
<1> QED  BY <1>1, <1>2, <1>3, <1>4, <1>5, <1>6, <1>7, <1>8, <1>9, <1>10 DEF Next

\* Where one process handles the messages one after the other, the pointer of a
\* chat for a kind is, between messages, the open draft of that kind that the
\* chat has written last: no message of another chat and no stale pointer that
\* is dropped makes the router forget or confuse it.  Excepted are a pointer
\* that a need of the chat has replaced and one that a death has lost, until
\* the chat writes an open draft of the kind again: a death before the file is
\* emptied loses the pointer to the draft just written and no other, one with
\* the file empty loses all (save_active_need_state, set_active_*,
\* clear_active_*).
THEOREM SerialRouterRemembers ==
  ASSUME \A p, q \in Process : p = q
  PROVE  Spec => []Remembered
<1>1. Init => Memory
  BY DEF Init, Memory, Remembered, LatestOpen, Agree, Pending, NoPointers
<1>2. Inv /\ Memory /\ [Next]_vars => Memory'
  BY MemoryStep DEF Inv
<1>3. Memory => Remembered
  BY DEF Memory
<1> QED  BY <1>1, <1>2, <1>3, Inductive, PTL DEF Spec
=============================================================================
