------------------------- MODULE SheetRecordsProofs -------------------------
(***************************************************************************)
(* An ID has one row, a record without an ID is not dropped, a write keeps *)
(* what its message does not mention, and the AuditLog accounts for the    *)
(* tab: for any number of processes, IDs, fields and rows.                 *)
(***************************************************************************)
EXTENDS SheetRecords, SequenceTheorems, WellFoundedInduction, TLAPS

\* A worker that is not idle knows its message and the row it may write; the
\* row has an ID once it is numbered.
Busy(w) ==
  /\ pc[w] = "idle" => held[w] = None
  /\ pc[w] # "idle" => msg[w] \in Message /\ held[w] \in Draft
  /\ pc[w] \notin {"idle", "number"} => held[w].id \in Id

Base == TypeOK /\ Audited /\ \A w \in Worker : Busy(w)

\* The IDs that a worker may hold are its own, and no two hold the same.
OwnIds(w) == Names[w] \cup Fresh \cup (IF w \in Numberer THEN Live \cup {0} ELSE {})
Own(w) ==
  /\ pc[w] = "number" => w \in Numberer
  /\ pc[w] # "idle" => held[w].id \in OwnIds(w)
Distinct(w) ==
  \A v \in Worker : pc[w] # "idle" /\ pc[v] # "idle" /\ held[w].id = held[v].id => w = v

\* What is about to be appended is not in the tab, and neither is an ID that
\* the program chose and is about to check.
Vacant(w) ==
  /\ pc[w] = "append" => held[w].id \notin Ids
  /\ pc[w] = "check" /\ ~ msg[w].named => held[w].id \notin Ids

\* The row about to be overwritten is the one that was read: the new row is
\* what the message makes of it.
Located(w) ==
  pc[w] = "write" =>
    /\ at[w] \in DOMAIN rows /\ rows[at[w]].id = held[w].id
    /\ held[w].body = Overlay(rows[at[w]].body, msg[w].change)

\* Which operations come where, and that a new row has the message's values.
Shape(w) ==
  /\ pc[w] = "number" => held[w].id = 0
  /\ pc[w] \in {"number", "check", "append"} =>
       msg[w].op \in {"add", "upsert"} /\ held[w].body = Fill(msg[w].change)
  /\ pc[w] \in {"find", "write"} => msg[w].op \in {"update", "upsert"}
  /\ pc[w] = "find" /\ msg[w].op = "upsert" => held[w].body = Fill(msg[w].change)

Kept(w) == pc[w] = "log" /\ msg[w].op = "duplicate_skipped" => msg[w].named

Sound(w) == Own(w) /\ Distinct(w) /\ Vacant(w) /\ Located(w) /\ Kept(w) /\ Shape(w)

\* What holds besides Base where chats are apart, no reading fails unnoticed
\* and the tab is short enough for all of it to be read.
Apart == Len(rows) <= MaxRows /\ OneRowPerId /\ \A w \in Worker : Sound(w)

-----------------------------------------------------------------------------
(* What the readings return.                                               *)

\* A nonempty set of numbers has a least element.
LEMMA LeastNumber ==
  ASSUME NEW S, S \subseteq Nat, S # {}
  PROVE  \E x \in S : \A y \in S : x <= y
<1> DEFINE Below == {ss \in Nat \X Nat : ss[1] < ss[2]}
<1>1. IsWellFoundedOn(Below, Nat)
  BY NatLessThanWellFounded DEF OpToRel
<1>2. \E x \in S : \A y \in S : ~ (<<y, x>> \in Below)
  <2> HIDE DEF Below
  <2> QED BY <1>1, WFMin
<1>3. PICK x \in S : \A y \in S : ~ (<<y, x>> \in Below)
  BY <1>2
<1>4. ASSUME NEW y \in S PROVE x <= y
  <2>1. x \in Nat /\ y \in Nat /\ ~ (<<y, x>> \in Below)
    BY <1>3
  <2> QED BY <2>1
<1> QED BY <1>4

\* A nonempty set of numbers with a bound has a greatest element: what the
\* bound exceeds it by is least.
LEMMA GreatestNumber ==
  ASSUME NEW S, NEW m \in Nat, S \subseteq 0 .. m, S # {}
  PROVE  \E x \in S : \A y \in S : y <= x
<1> DEFINE Gaps == {m - x : x \in S}
<1>1. Gaps \subseteq Nat /\ Gaps # {}
  OBVIOUS
<1>2. PICK g \in Gaps : \A h \in Gaps : g <= h
  <2> HIDE DEF Gaps
  <2> QED BY <1>1, LeastNumber
<1>3. PICK x \in S : g = m - x
  OBVIOUS
<1>4. ASSUME NEW y \in S PROVE y <= x
  <2>1. m - x <= m - y BY <1>2, <1>3
  <2> HIDE DEF Gaps
  <2>2. x \in 0 .. m /\ y \in 0 .. m OBVIOUS
  <2> QED BY <2>1, <2>2
<1> QED BY <1>4

\* _find_row_by_id returns a row with the ID it was asked for, and misses
\* none of those that it reads.
LEMMA RowAtFinds ==
  ASSUME rows \in Seq(Row), NEW d
  PROVE  /\ RowAt(d) \in Nat
         /\ RowAt(d) # 0 => RowAt(d) \in DOMAIN rows /\ rows[RowAt(d)].id = d
         /\ Len(rows) <= Reach /\ d \in Ids => RowAt(d) # 0
<1> DEFINE I == {i \in 1 .. Len(rows) : rows[i].id = d}
           least == CHOOSE x \in I : \A y \in I : x <= y
           first == IF I # {} THEN least ELSE 0
<1>1. RowAt(d) = IF first <= Reach THEN first ELSE 0
  BY DEF RowAt, SelectInSeq, Min
<1>2. I # {} => least \in I
  <2> HIDE DEF I
  <2>1. I \subseteq Nat BY DEF I
  <2> QED BY <2>1, LeastNumber
<1>3. DOMAIN rows = 1 .. Len(rows) /\ Len(rows) \in Nat /\ Reach \in Nat
  BY ConstantsAssumption
<1>4. CASE I = {}
  <2>1. RowAt(d) = 0 BY <1>1, <1>3, <1>4
  <2>2. d \notin Ids BY <1>3, <1>4 DEF Ids
  <2> QED BY <2>1, <2>2
<1>5. CASE I # {}
  <2>1. first \in 1 .. Len(rows) /\ rows[first].id = d BY <1>2, <1>5
  <2> HIDE DEF first
  <2>2. RowAt(d) = 0 \/ RowAt(d) = first BY <1>1
  <2>3. Len(rows) <= Reach => RowAt(d) = first BY <1>1, <1>3, <2>1
  <2>4. first \in Nat /\ first # 0 BY <1>3, <2>1
  <2> QED BY <1>3, <2>1, <2>2, <2>3, <2>4
<1> QED BY <1>4, <1>5

\* The highest number that is read is a number, and none that is read is
\* higher.
LEMMA LastNumberIsLast ==
  /\ LastNumber \in Nat
  /\ \A i \in DOMAIN rows : i <= Reach /\ rows[i].id \in Live => rows[i].id <= LastNumber
<1> DEFINE seen == {rows[i].id : i \in {j \in DOMAIN rows : j <= Reach}} \cap Live
           some == seen \cup {0}
<1>1. some \subseteq 0 .. MaxLive /\ some # {} /\ MaxLive \in Nat
  BY ConstantsAssumption DEF Live
<1>2. LastNumber = CHOOSE n \in some : \A m \in seen : m <= n
  BY DEF LastNumber
<1>3. \E n \in some : \A m \in some : m <= n
  <2> HIDE DEF some
  <2> QED BY <1>1, GreatestNumber
<1>4. LastNumber \in some /\ \A m \in seen : m <= LastNumber
  <2> HIDE DEF seen
  <2> QED BY <1>2, <1>3
<1> QED BY <1>1, <1>4

LEMMA OverlayType ==
  ASSUME NEW b \in Body, NEW c \in Partial
  PROVE  Overlay(b, c) \in Body
BY DEF Overlay, Body, Partial

LEMMA FillType ==
  ASSUME NEW c \in Partial
  PROVE  Fill(c) \in Body
<1>1. Default \in Body BY ConstantsAssumption DEF Body, Default
<1>2. Overlay(Default, c) \in Body BY <1>1, OverlayType
<1> QED BY <1>2 DEF Fill

\* /inventory passes what a message leaves out at its default: the row that
\* it would create is the same.
LEMMA PassedFills ==
  ASSUME NEW c \in Partial
  PROVE  LET passed == [f \in DOMAIN c \cup (Field \ Optional) |-> Fill(c)[f]] IN
         passed \in Partial /\ Fill(passed) = Fill(c)
<1> DEFINE S == DOMAIN c \cup (Field \ Optional)
           passed == [f \in S |-> Fill(c)[f]]
<1>1. S \subseteq Field  BY DEF Partial
<1>2. \A f \in S : Fill(c)[f] \in Value  BY <1>1, FillType DEF Body
<1>3. passed \in [S -> Value]  BY <1>2
<1>4. passed \in Partial  BY <1>1, <1>3 DEF Partial
<1>5. ASSUME NEW f \in Field  PROVE Fill(passed)[f] = Fill(c)[f]
  <2>1. Fill(passed)[f] = IF f \in S THEN Fill(c)[f] ELSE Default[f]  BY DEF Fill, Overlay
  <2>2. f \notin S => Fill(c)[f] = Default[f]  BY DEF Fill, Overlay
  <2> QED  BY <2>1, <2>2
<1>6. Fill(passed) = Fill(c)  BY <1>5 DEF Fill, Overlay
<1> QED  BY <1>4, <1>6

-----------------------------------------------------------------------------
(* What the steps do.                                                      *)

\* Worker w alone moves.
Others(w) ==
  \A v \in Worker \ {w} :
    pc'[v] = pc[v] /\ msg'[v] = msg[v] /\ held'[v] = held[v] /\ at'[v] = at[v]

\* The ID that w takes up is one that it names, or one that nobody has.
Eligible(w, l, named, d) ==
  \/ d \in Names[w] /\ named
  \/ d \in Fresh \ Ids /\ \A v \in Worker : held[v] # None => held[v].id # d
  \/ d = 0 /\ l = "number" /\ w \in Numberer

\* A message: w takes up a row to write and goes to l.
Accepts(w, l, op, named, c, r) ==
  /\ Accept(w, l, op, named, c, r) /\ Eligible(w, l, named, r.id)
  /\ l = "number" => w \in Numberer /\ r.id = 0
  /\ l \in {"number", "check"} => op = "add"
  /\ l = "find" => op \in {"update", "upsert"}
  /\ op \in {"add", "upsert"} => r.body = Fill(c)

Take(w) == AddRecord(w) \/ AddNeed(w) \/ UpdateRecord(w) \/ FollowUp(w) \/ UpsertRecord(w)

LEMMA IdType ==
  ASSUME NEW w \in Worker
  PROVE  /\ \A d \in Names[w] \cup Fresh : d \in Id /\ d # 0
         /\ \A d \in Live : d \in Id
BY ConstantsAssumption DEF Id

Taken(w) ==
  \E l \in {"number", "check", "find"}, op \in {"add", "update", "upsert"},
     named \in BOOLEAN, c \in Partial, r \in Draft :
    Accepts(w, l, op, named, c, r) /\ (l # "number" => r.id \in Id)

LEMMA AcceptTakes ==
  ASSUME NEW w \in Worker, NEW d, NEW b \in Body, NEW c \in Partial,
         NEW l \in {"number", "check", "find"}, NEW op \in {"add", "update", "upsert"},
         NEW named \in BOOLEAN,
         Accept(w, l, op, named, c, [id |-> d, body |-> b]), Eligible(w, l, named, d),
         l = "number" => w \in Numberer /\ d = 0,
         l \in {"number", "check"} => op = "add",
         l = "find" => op \in {"update", "upsert"},
         op \in {"add", "upsert"} => b = Fill(c)
  PROVE  Taken(w)
<1>1. d \in Names[w] \cup Fresh \/ l = "number"  BY DEF Eligible
<1>2. d \in Id \cup {0} /\ (l # "number" => d \in Id)  BY <1>1, IdType
<1>3. [id |-> d, body |-> b] \in Draft  BY <1>2 DEF Draft
<1>4. Accepts(w, l, op, named, c, [id |-> d, body |-> b])  BY DEF Accepts
<1> QED  BY <1>2, <1>3, <1>4 DEF Taken

\* Every message is taken up, with an ID of the worker's own.
LEMMA TakeAccepts ==
  ASSUME TypeOK, NEW w \in Worker, Take(w)
  PROVE  Taken(w)
<1>1. \A c \in Change : c \in Partial /\ Fill(c) \in Body
  BY FillType, ConstantsAssumption
<1>2. ASSUME NEW d \in Names[w], NEW l  PROVE Eligible(w, l, TRUE, d)
  BY DEF Eligible
<1>3. ASSUME NEW d \in Fresh, NEW l, d \notin Ids, \A v \in Worker : held[v] # None => held[v].id # d
      PROVE  Eligible(w, l, FALSE, d)
  BY <1>3 DEF Eligible
<1>4. CASE AddRecord(w)
  <2>1. PICK c \in Change :
    \/ \E d \in Names[w] : Accept(w, "check", "add", TRUE, c, [id |-> d, body |-> Fill(c)])
    \/ \E d \in Fresh :
         /\ d \notin Ids /\ \A v \in Worker : held[v] # None => held[v].id # d
         /\ Accept(w, "check", "add", FALSE, c, [id |-> d, body |-> Fill(c)])
    BY <1>4 DEF AddRecord
  <2>2. c \in Partial /\ Fill(c) \in Body  BY <1>1
  <2>3. ASSUME NEW d \in Names[w], Accept(w, "check", "add", TRUE, c, [id |-> d, body |-> Fill(c)])
        PROVE  Taken(w)
    BY <1>2, <2>2, <2>3, AcceptTakes
  <2>4. ASSUME NEW d \in Fresh, d \notin Ids, \A v \in Worker : held[v] # None => held[v].id # d,
               Accept(w, "check", "add", FALSE, c, [id |-> d, body |-> Fill(c)])
        PROVE  Taken(w)
    BY <1>3, <2>2, <2>4, AcceptTakes
  <2> QED  BY <2>1, <2>3, <2>4
<1>8. CASE AddNeed(w)
  <2>1. PICK c \in Change : Accept(w, "number", "add", FALSE, c, [id |-> 0, body |-> Fill(c)])
    BY <1>8 DEF AddNeed
  <2>2. c \in Partial /\ Fill(c) \in Body  BY <1>1
  <2>3. w \in Numberer /\ Eligible(w, "number", FALSE, 0)  BY <1>8 DEF AddNeed, Eligible
  <2> QED  BY <2>1, <2>2, <2>3, AcceptTakes
<1>5. CASE UpdateRecord(w)
  <2>1. PICK c \in Change, d \in Names[w] : Accept(w, "find", "update", TRUE, c, [id |-> d, body |-> Fill(c)])
    BY <1>5 DEF UpdateRecord
  <2>2. c \in Partial /\ Fill(c) \in Body  BY <1>1
  <2> QED  BY <1>2, <2>1, <2>2, AcceptTakes
<1>6. CASE FollowUp(w)
  <2> DEFINE b(c, d) == Overlay(rows[RowAt(d)].body, c)
  <2>1. PICK c \in Change, d \in Names[w] \cap Ids :
          /\ RowAt(d) # 0
          /\ Accept(w, "find", "update", TRUE, b(c, d), [id |-> d, body |-> b(c, d)])
    BY <1>6 DEF FollowUp
  <2>2. RowAt(d) \in DOMAIN rows  BY <2>1, RowAtFinds DEF TypeOK
  <2>3. rows[RowAt(d)] \in Row  BY <2>2 DEF TypeOK
  <2>4. rows[RowAt(d)].body \in Body  BY <2>3 DEF Row
  <2>5. b(c, d) \in Body  BY <1>1, <2>4, OverlayType
  <2>6. b(c, d) \in Partial  BY <2>5 DEF Body, Partial
  <2> HIDE DEF b
  <2> QED  BY <1>2, <2>1, <2>5, <2>6, AcceptTakes
<1>7. CASE UpsertRecord(w)
  <2> DEFINE passed(c) == [f \in DOMAIN c \cup (Field \ Optional) |-> Fill(c)[f]]
  <2>1. PICK c \in Change :
          \/ \E d \in Names[w] : Accept(w, "find", "upsert", TRUE, passed(c), [id |-> d, body |-> Fill(c)])
          \/ \E d \in Fresh :
               /\ d \notin Ids /\ \A v \in Worker : held[v] # None => held[v].id # d
               /\ Accept(w, "find", "upsert", FALSE, passed(c), [id |-> d, body |-> Fill(c)])
    BY <1>7 DEF UpsertRecord
  <2>2. c \in Partial /\ Fill(c) \in Body  BY <1>1
  <2>3. passed(c) \in Partial /\ Fill(passed(c)) = Fill(c)  BY <2>2, PassedFills
  <2> HIDE DEF passed
  <2>4. ASSUME NEW d \in Names[w], Accept(w, "find", "upsert", TRUE, passed(c), [id |-> d, body |-> Fill(c)])
        PROVE  Taken(w)
    BY <1>2, <2>2, <2>3, <2>4, AcceptTakes
  <2>5. ASSUME NEW d \in Fresh, d \notin Ids, \A v \in Worker : held[v] # None => held[v].id # d,
               Accept(w, "find", "upsert", FALSE, passed(c), [id |-> d, body |-> Fill(c)])
        PROVE  Taken(w)
    BY <1>3, <2>2, <2>3, <2>5, AcceptTakes
  <2> QED  BY <2>1, <2>4, <2>5
<1> QED  BY <1>4, <1>5, <1>6, <1>7, <1>8 DEF Take

LEMMA StepFrame ==
  ASSUME TypeOK, NEW w \in Worker, Take(w) \/ Step(w) \/ Abort(w)
  PROVE  Others(w)
<1>1. CASE Take(w)
  BY <1>1, TakeAccepts DEF Taken, Accepts, Accept, Goto, Hold, Others, TypeOK
<1>2. CASE NumberRecord(w) \/ CheckDuplicate(w) \/ AppendRow(w)
  BY <1>2 DEF NumberRecord, CheckDuplicate, AppendRow, Log, Goto, Hold, Others, TypeOK
<1>3. CASE FindRow(w) \/ FindItem(w) \/ WriteRow(w)
  BY <1>3 DEF FindRow, FindItem, Found, WriteRow, Log, Goto, Hold, Others, TypeOK, local
<1>4. CASE WriteAuditLog(w) \/ Abort(w)
  BY <1>4 DEF WriteAuditLog, Abort, Return, Goto, Hold, Others, TypeOK
<1> QED  BY <1>1, <1>2, <1>3, <1>4 DEF Step

-----------------------------------------------------------------------------
(* Types, and the AuditLog.                                                *)

LEMMA BusyFrame ==
  ASSUME NEW w \in Worker, Others(w), Busy(w)', \A v \in Worker : Busy(v)
  PROVE  \A v \in Worker : Busy(v)'
BY DEF Others, Busy

\* A step that leaves the rows alone takes no account away: a writer goes on
\* to log, or has logged, or has died.
LEMMA AuditedFrame ==
  ASSUME Audited, rows' = rows, audit \subseteq audit',
         \A i \in DOMAIN rows : last'[i] \in {last[i], "lost"},
         \A v \in Worker : Wrote(v) =>
           \/ Wrote(v)' /\ held'[v] = held[v] /\ msg'[v] = msg[v]
           \/ \E e \in audit' : Agrees(e, msg[v].op, held[v])
           \/ \A i \in DOMAIN rows : rows[i] = held[v] => last'[i] = "lost"
  PROVE  Audited'
<1> SUFFICES ASSUME NEW i \in DOMAIN rows, last'[i] # "lost"  PROVE Accounted(i)'
  BY DEF Audited
<1>1. last'[i] = last[i] /\ Accounted(i)  BY DEF Audited
<1>2. CASE \E e \in audit : Agrees(e, last[i], rows[i])
  BY <1>1, <1>2 DEF Accounted, Agrees
<1>3. ASSUME NEW v \in Worker, Wrote(v), msg[v].op = last[i], held[v] = rows[i]
      PROVE  Accounted(i)'
  <2>1. CASE Wrote(v)' /\ held'[v] = held[v] /\ msg'[v] = msg[v]
    BY <1>1, <1>3, <2>1 DEF Accounted
  <2>2. CASE \E e \in audit' : Agrees(e, msg[v].op, held[v])
    BY <1>1, <1>3, <2>2 DEF Accounted, Agrees
  <2> QED  BY <1>3, <2>1, <2>2
<1> QED  BY <1>1, <1>2, <1>3 DEF Accounted

\* A step of w, while it has nothing to log, leaves the other writers.
LEMMA NotLogging ==
  ASSUME NEW w \in Worker, Others(w), pc[w] # "log"
  PROVE  \A v \in Worker : Wrote(v) => v # w /\ Wrote(v)' /\ held'[v] = held[v] /\ msg'[v] = msg[v]
BY DEF Others, Wrote

LEMMA RowChange ==
  ASSUME TypeOK, Audited, NEW w \in Worker, Others(w), pc[w] # "log", Wrote(w)', held'[w] = held[w],
         UNCHANGED audit,
         \A i \in DOMAIN rows' :
           \/ rows'[i] = held[w] /\ last'[i] = msg'[w].op
           \/ i \in DOMAIN rows /\ rows'[i] = rows[i] /\ last'[i] = last[i]
  PROVE  Audited'
<1> SUFFICES ASSUME NEW i \in DOMAIN rows', last'[i] # "lost"  PROVE Accounted(i)'
  BY DEF Audited
<1>1. CASE rows'[i] = held[w] /\ last'[i] = msg'[w].op  BY <1>1 DEF Accounted
<1>2. CASE i \in DOMAIN rows /\ rows'[i] = rows[i] /\ last'[i] = last[i]
  <2>1. Accounted(i)  BY <1>2 DEF Audited
  <2>2. (\E e \in audit : Agrees(e, last[i], rows[i])) => Accounted(i)'
    BY <1>2 DEF Accounted, Agrees
  <2>3. ASSUME NEW v \in Worker, Wrote(v), msg[v].op = last[i], held[v] = rows[i]
        PROVE  Accounted(i)'
    BY <1>2, <2>3, NotLogging DEF Accounted
  <2> QED  BY <2>1, <2>2, <2>3 DEF Accounted
<1> QED  BY <1>1, <1>2

\* What is logged of a row is an entry that agrees with it.
LEMMA SaidIsEntry ==
  ASSUME NEW w \in Worker, held[w] \in Row, msg[w].op \in {"create", "update"}
  PROVE  LET e == Said(w, held[w].body) IN e \in Entry /\ Agrees(e, msg[w].op, held[w])
<1> DEFINE o == msg[w].op
           S == Logged[o]
           after == [f \in S |-> held[w].body[f]]
<1>1. S \subseteq Field  BY ConstantsAssumption
<1>2. held[w].id \in Id /\ held[w].body \in [Field -> Value]  BY DEF Row, Body
<1>3. after \in [S -> Value]  BY <1>1, <1>2
<1>4. Said(w, held[w].body) = [op |-> o, id |-> held[w].id, after |-> after]  BY DEF Said
<1> HIDE DEF after
<1>5. Said(w, held[w].body) \in Entry  BY <1>2, <1>3, <1>4 DEF Entry
<1>6. Agrees(Said(w, held[w].body), o, held[w])  BY <1>4 DEF Agrees, after
<1> QED  BY <1>5, <1>6

LEMMA BaseInit == Init => Base
<1> SUFFICES ASSUME Init  PROVE Base
  OBVIOUS
<1>1. TypeOK  BY DEF Init, TypeOK
<1>2. Audited  BY DEF Init, Audited
<1> QED  BY <1>1, <1>2 DEF Init, Base, Busy

LEMMA BaseStep ==
  Base /\ [Next]_vars => Base'
<1> SUFFICES ASSUME Base, [Next]_vars  PROVE Base'
  OBVIOUS
<1>1. TypeOK /\ Audited /\ \A w \in Worker : Busy(w)  BY DEF Base
<1> DEFINE Good(w) == TypeOK' /\ Busy(w)' /\ Audited'
<1>2. ASSUME NEW w \in Worker, Take(w)  PROVE Good(w)
  <2>1. PICK l \in {"number", "check", "find"}, op \in {"add", "update", "upsert"},
             named \in BOOLEAN, c \in Partial, r \in Draft :
          Accepts(w, l, op, named, c, r) /\ (l # "number" => r.id \in Id)
    BY <1>1, <1>2, TakeAccepts DEF Taken
  <2>2. /\ pc[w] = "idle" /\ pc' = [pc EXCEPT ![w] = l] /\ held' = [held EXCEPT ![w] = r]
        /\ msg' = [msg EXCEPT ![w] = [op |-> op, named |-> named, change |-> c]]
        /\ UNCHANGED <<rows, last, audit, at>>
    BY <2>1 DEF Accepts, Accept, Goto, Hold
  <2>3. [op |-> op, named |-> named, change |-> c] \in Message  BY DEF Message, Outcome
  <2>4. TypeOK'  BY <1>1, <2>2, <2>3 DEF TypeOK
  <2>5. Busy(w)'  BY <1>1, <2>1, <2>2, <2>3 DEF Busy, TypeOK
  <2>6. Audited'  BY <1>1, <1>2, <2>2, StepFrame, NotLogging, AuditedFrame
  <2> QED  BY <2>4, <2>5, <2>6
<1>3. ASSUME NEW w \in Worker, NumberRecord(w)  PROVE Good(w)
  <2>1. PICK n \in {LastNumber, 0} :
          /\ pc[w] = "number" /\ n < MaxLive
          /\ held' = [held EXCEPT ![w] = [held[w] EXCEPT !.id = n + 1]]
          /\ pc' = [pc EXCEPT ![w] = "check"] /\ UNCHANGED <<rows, last, audit, msg, at>>
    BY <1>3 DEF NumberRecord, Goto, Hold
  <2>2. n + 1 \in Live  BY <2>1, LastNumberIsLast, ConstantsAssumption DEF Live
  <2>3. n + 1 \in Id  BY <2>2 DEF Id
  <2>4. held[w] \in Draft /\ msg[w] \in Message  BY <1>1, <2>1 DEF Busy
  <2>5. [held[w] EXCEPT !.id = n + 1] \in Draft  BY <2>3, <2>4 DEF Draft
  <2>6. TypeOK'  BY <1>1, <2>1, <2>5 DEF TypeOK
  <2>7. Busy(w)'  BY <1>1, <2>1, <2>3, <2>4, <2>5 DEF Busy, TypeOK, Draft
  <2>8. Step(w)  BY <1>3 DEF Step
  <2>9. Audited'  BY <1>1, <2>1, <2>8, StepFrame, NotLogging, AuditedFrame
  <2> QED  BY <2>6, <2>7, <2>9
<1>4. ASSUME NEW w \in Worker, CheckDuplicate(w)  PROVE Good(w)
  <2>1. held[w] \in Draft /\ msg[w] \in Message /\ held[w].id \in Id
    BY <1>1, <1>4 DEF Busy, CheckDuplicate
  <2>2. [msg[w] EXCEPT !.op = "duplicate_skipped"] \in Message  BY <2>1 DEF Message, Outcome
  <2>3. TypeOK'  BY <1>1, <1>4, <2>2 DEF CheckDuplicate, Log, Goto, TypeOK
  <2>4. Busy(w)'  BY <1>1, <1>4, <2>1, <2>2 DEF CheckDuplicate, Log, Goto, TypeOK, Busy
  <2>5. Step(w) /\ pc[w] # "log" /\ UNCHANGED <<rows, last, audit>>  BY <1>4 DEF Step, CheckDuplicate
  <2>6. Audited'  BY <1>1, <2>5, StepFrame, NotLogging, AuditedFrame
  <2> QED  BY <2>3, <2>4, <2>6
<1>5. ASSUME NEW w \in Worker, AppendRow(w)  PROVE Good(w)
  <2>1. held[w] \in Draft /\ msg[w] \in Message /\ held[w].id \in Id
    BY <1>1, <1>5 DEF Busy, AppendRow
  <2>2. /\ pc' = [pc EXCEPT ![w] = "log"] /\ msg' = [msg EXCEPT ![w].op = "create"]
        /\ rows' = Append(rows, held[w]) /\ last' = Append(last, "create")
        /\ UNCHANGED <<audit, held, at>> /\ pc[w] = "append"
    BY <1>5 DEF AppendRow, Log, Goto
  <2>3. [msg[w] EXCEPT !.op = "create"] \in Message  BY <2>1 DEF Message, Outcome
  <2>4. held[w] \in Row  BY <2>1 DEF Row, Draft
  <2>5. TypeOK'  BY <1>1, <2>2, <2>3, <2>4 DEF TypeOK
  <2>6. Busy(w)'  BY <1>1, <2>1, <2>2, <2>3 DEF TypeOK, Busy
  <2>7. Wrote(w)' /\ msg'[w].op = "create"
    <3>1. msg'[w] = [msg[w] EXCEPT !.op = "create"] /\ pc'[w] = "log"  BY <1>1, <2>2 DEF TypeOK
    <3>2. msg'[w].op = "create"  BY <2>1, <3>1 DEF Message
    <3> QED  BY <3>1, <3>2 DEF Wrote
  <2>8. Step(w)  BY <1>5 DEF Step
  <2>9. rows \in Seq(Row) /\ last \in Seq({"create", "update", "lost"}) /\ Len(last) = Len(rows)
    BY <1>1 DEF TypeOK
  <2>10. \A i \in DOMAIN rows' :
           \/ rows'[i] = held[w] /\ last'[i] = msg'[w].op
           \/ i \in DOMAIN rows /\ rows'[i] = rows[i] /\ last'[i] = last[i]
    BY <2>2, <2>4, <2>7, <2>9
  <2>11. Audited'  BY <1>1, <2>2, <2>7, <2>8, <2>10, StepFrame, RowChange
  <2> QED  BY <2>5, <2>6, <2>11
<1>6. ASSUME NEW w \in Worker, FindRow(w) \/ FindItem(w)  PROVE Good(w)
  <2> DEFINE i == RowAt(held[w].id)
  <2>1. held[w] \in Draft /\ msg[w] \in Message /\ held[w].id \in Id /\ pc[w] = "find"
    BY <1>1, <1>6 DEF Busy, FindRow, FindItem, Found
  <2>2. i \in Nat /\ (i # 0 => i \in DOMAIN rows)  BY <1>1, RowAtFinds DEF TypeOK
  <2>3. UNCHANGED <<rows, last, audit>>  BY <1>6 DEF FindRow, FindItem, Found
  <2>4. Step(w)  BY <1>6 DEF Step
  <2>5. Audited'  BY <1>1, <2>1, <2>3, <2>4, StepFrame, NotLogging, AuditedFrame
  <2>6. CASE i # 0
    <3> DEFINE b == Overlay(rows[i].body, msg[w].change)
    <3>1. /\ held' = [held EXCEPT ![w] = [held[w] EXCEPT !.body = b]]
          /\ at' = [at EXCEPT ![w] = i] /\ pc' = [pc EXCEPT ![w] = "write"] /\ UNCHANGED msg
      BY <1>6, <2>6 DEF FindRow, FindItem, Found, Goto, Hold
    <3>2. rows[i] \in Row  BY <1>1, <2>2, <2>6 DEF TypeOK
    <3>3. rows[i].body \in Body /\ msg[w].change \in Partial  BY <2>1, <3>2 DEF Row, Message
    <3>4. b \in Body  BY <3>3, OverlayType
    <3> HIDE DEF b, i
    <3>5. [held[w] EXCEPT !.body = b] \in Draft /\ [held[w] EXCEPT !.body = b].id = held[w].id
      BY <2>1, <3>4 DEF Draft
    <3>6. TypeOK'  BY <1>1, <2>2, <2>3, <3>1, <3>5 DEF TypeOK
    <3>7. Busy(w)'  BY <1>1, <2>1, <3>1, <3>5 DEF TypeOK, Busy
    <3> QED  BY <2>5, <3>6, <3>7
  <2>7. CASE i = 0 /\ msg[w].op = "upsert"
    <3>1. pc' = [pc EXCEPT ![w] = "append"] /\ UNCHANGED <<msg, held, at>>
      BY <1>6, <2>1, <2>7 DEF FindRow, FindItem, Found, Goto, Log, local
    <3> QED  BY <1>1, <2>1, <2>3, <2>5, <3>1 DEF TypeOK, Busy
  <2>8. CASE i = 0 /\ msg[w].op = "update"
    <3>1. /\ pc' = [pc EXCEPT ![w] = "log"] /\ msg' = [msg EXCEPT ![w].op = "update_missing"]
          /\ UNCHANGED <<held, at>>
      BY <1>6, <2>1, <2>8 DEF FindRow, FindItem, Found, Goto, Log, local
    <3>2. [msg[w] EXCEPT !.op = "update_missing"] \in Message  BY <2>1 DEF Message, Outcome
    <3>3. TypeOK'  BY <1>1, <2>3, <3>1, <3>2 DEF TypeOK
    <3> QED  BY <1>1, <2>1, <2>5, <3>1, <3>2, <3>3 DEF TypeOK, Busy
  <2> QED  BY <1>6, <2>6, <2>7, <2>8 DEF FindRow, FindItem, Found
<1>7. ASSUME NEW w \in Worker, WriteRow(w)  PROVE Good(w)
  <2>1. held[w] \in Draft /\ msg[w] \in Message /\ held[w].id \in Id
    BY <1>1, <1>7 DEF Busy, WriteRow
  <2>2. /\ pc' = [pc EXCEPT ![w] = "log"] /\ msg' = [msg EXCEPT ![w].op = "update"]
        /\ rows' = [rows EXCEPT ![at[w]] = held[w]] /\ last' = [last EXCEPT ![at[w]] = "update"]
        /\ UNCHANGED <<audit, held, at>> /\ pc[w] = "write"
    BY <1>7 DEF WriteRow, Log, Goto
  <2>3. [msg[w] EXCEPT !.op = "update"] \in Message  BY <2>1 DEF Message, Outcome
  <2>4. held[w] \in Row  BY <2>1 DEF Row, Draft
  <2>5. rows \in Seq(Row) /\ last \in Seq({"create", "update", "lost"}) /\ Len(last) = Len(rows)
    BY <1>1 DEF TypeOK
  <2>6. rows' \in Seq(Row) /\ Len(rows') = Len(rows)
    <3>1. rows \in [1 .. Len(rows) -> Row] /\ Len(rows) \in Nat  BY <2>5
    <3>2. [rows EXCEPT ![at[w]] = held[w]] \in [1 .. Len(rows) -> Row]  BY <2>4, <3>1
    <3>3. rows' \in [1 .. Len(rows) -> Row]  BY <2>2, <3>2
    <3> QED  BY <3>1, <3>3, SeqDef
  <2>13. last' \in Seq({"create", "update", "lost"}) /\ Len(last') = Len(last)
    <3> DEFINE K == {"create", "update", "lost"}
    <3>1. last \in [1 .. Len(last) -> K] /\ Len(last) \in Nat  BY <2>5
    <3>2. [last EXCEPT ![at[w]] = "update"] \in [1 .. Len(last) -> K]  BY <3>1
    <3>3. last' \in [1 .. Len(last) -> K]  BY <2>2, <3>2
    <3> QED  BY <3>1, <3>3, SeqDef
  <2>7. TypeOK'  BY <1>1, <2>2, <2>3, <2>5, <2>6, <2>13 DEF TypeOK
  <2>8. Busy(w)'  BY <1>1, <2>1, <2>2, <2>3 DEF TypeOK, Busy
  <2>9. Wrote(w)' /\ msg'[w].op = "update"
    <3>1. msg'[w] = [msg[w] EXCEPT !.op = "update"] /\ pc'[w] = "log"  BY <1>1, <2>2 DEF TypeOK
    <3>2. msg'[w].op = "update"  BY <2>1, <3>1 DEF Message
    <3> QED  BY <3>1, <3>2 DEF Wrote
  <2>10. Step(w)  BY <1>7 DEF Step
  <2>11. \A i \in DOMAIN rows' :
           \/ rows'[i] = held[w] /\ last'[i] = msg'[w].op
           \/ i \in DOMAIN rows /\ rows'[i] = rows[i] /\ last'[i] = last[i]
    BY <2>2, <2>5, <2>9
  <2>12. Audited'  BY <1>1, <2>2, <2>9, <2>10, <2>11, StepFrame, RowChange
  <2> QED  BY <2>7, <2>8, <2>12
<1>8. ASSUME NEW w \in Worker, WriteAuditLog(w) \/ Abort(w)  PROVE Good(w)
  <2>1. /\ pc' = [pc EXCEPT ![w] = "idle"] /\ held' = [held EXCEPT ![w] = None]
        /\ msg' = [msg EXCEPT ![w] = None] /\ at' = [at EXCEPT ![w] = 0] /\ UNCHANGED rows
    BY <1>8 DEF WriteAuditLog, Abort, Return, Goto, Hold
  <2>2. Wrote(w) => held[w] \in Row /\ msg[w].op \in {"create", "update"}
    <3>1. SUFFICES ASSUME Wrote(w)  PROVE held[w] \in Row /\ msg[w].op \in {"create", "update"}
      OBVIOUS
    <3>2. held[w] \in Draft /\ held[w].id \in Id  BY <1>1, <3>1 DEF Wrote, Busy
    <3> QED  BY <3>1, <3>2 DEF Row, Draft, Wrote
  <2>3. Busy(w)'  BY <1>1, <2>1 DEF TypeOK, Busy
  <2>4. Others(w)  BY <1>1, <1>8, StepFrame DEF Step
  <2>5. \A v \in Worker \ {w} : Wrote(v) => Wrote(v)' /\ held'[v] = held[v] /\ msg'[v] = msg[v]
    BY <2>4 DEF Others, Wrote
  <2>6. CASE WriteAuditLog(w)
    <3> DEFINE e == Said(w, held[w].body)
    <3>1. audit' = audit \cup (IF Wrote(w) THEN {e} ELSE {}) /\ UNCHANGED last
      BY <2>6 DEF WriteAuditLog
    <3>2. Wrote(w) => e \in Entry /\ Agrees(e, msg[w].op, held[w])
      BY <2>2, SaidIsEntry
    <3> HIDE DEF e
    <3>3. audit \subseteq audit' /\ audit' \subseteq Entry  BY <1>1, <3>1, <3>2 DEF TypeOK
    <3>4. TypeOK'  BY <1>1, <2>1, <3>1, <3>3 DEF TypeOK
    <3>5. Wrote(w) => \E x \in audit' : Agrees(x, msg[w].op, held[w])  BY <3>1, <3>2
    <3>6. \A i \in DOMAIN rows : last'[i] \in {last[i], "lost"}  BY <3>1
    <3>7. Audited'  BY <1>1, <2>1, <2>5, <3>3, <3>5, <3>6, AuditedFrame
    <3> QED  BY <2>3, <3>4, <3>7
  <2>7. CASE Abort(w)
    <3>1. /\ last' = [i \in DOMAIN rows |-> IF Wrote(w) /\ held[w] = rows[i] THEN "lost" ELSE last[i]]
          /\ UNCHANGED audit
      BY <2>7 DEF Abort
    <3>2. last' \in Seq({"create", "update", "lost"}) /\ Len(last') = Len(rows)
      <4> DEFINE K == {"create", "update", "lost"}
      <4>1. rows \in Seq(Row) /\ last \in Seq(K) /\ Len(last) = Len(rows)  BY <1>1 DEF TypeOK
      <4>2. DOMAIN rows = 1 .. Len(rows) /\ DOMAIN last = 1 .. Len(rows) /\ Len(rows) \in Nat  BY <4>1
      <4>3. \A i \in 1 .. Len(rows) : last[i] \in K  BY <4>1
      <4>4. last' \in [1 .. Len(rows) -> K]  BY <3>1, <4>2, <4>3
      <4> QED  BY <4>2, <4>4, SeqDef
    <3>3. TypeOK'  BY <1>1, <2>1, <3>1, <3>2 DEF TypeOK
    <3>4. \A i \in DOMAIN rows : last'[i] \in {last[i], "lost"}  BY <3>1
    <3>5. Wrote(w) => \A i \in DOMAIN rows : rows[i] = held[w] => last'[i] = "lost"  BY <3>1
    <3>6. Audited'  BY <1>1, <2>1, <2>5, <3>1, <3>4, <3>5, AuditedFrame
    <3> QED  BY <2>3, <3>3, <3>6
  <2> QED  BY <1>8, <2>6, <2>7
<1>9. ASSUME NEW w \in Worker, Take(w) \/ Step(w) \/ Abort(w)  PROVE Base'
  <2>1. Good(w)  BY <1>2, <1>3, <1>4, <1>5, <1>6, <1>7, <1>8, <1>9 DEF Step
  <2>2. \A v \in Worker : Busy(v)'  BY <1>1, <1>9, <2>1, StepFrame, BusyFrame
  <2> QED  BY <2>1, <2>2 DEF Base
<1>10. CASE UNCHANGED vars
  BY <1>1, <1>10 DEF vars, local, Base, TypeOK, Audited, Accounted, Agrees, Busy, Wrote
<1> QED  BY <1>9, <1>10 DEF Next, Take

THEOREM TypeInvariant == Spec => []TypeOK
<1>1. Base => TypeOK  BY DEF Base
<1> QED  BY <1>1, BaseInit, BaseStep, PTL DEF Spec

\* However operations interleave, also when messages race for one ID and
\* readings fail, an entry of the kind of a row's last write agrees with the
\* row in every field that it shows, or its writer is about to log it; a row
\* whose writer died between the write and the entry is the exception, until
\* it is written again.
THEOREM LogAccountsForRows == Spec => []Audited
<1>1. Base => Audited  BY DEF Base
<1> QED  BY <1>1, BaseInit, BaseStep, PTL DEF Spec

-----------------------------------------------------------------------------
(* Chats apart.                                                            *)

Served == ChatsApart /\ MaxRows <= Window /\ "read" \notin Faults

LEMMA OwnApart ==
  ASSUME ChatsApart, NEW w \in Worker, NEW v \in Worker, w # v
  PROVE  (OwnIds(w) \ Fresh) \cap OwnIds(v) = {}
<1>1. 0 \notin Names[w] \cup Names[v] \cup Fresh  BY IdType
<1>2. Fresh \cap (Names[w] \cup Live) = {}  BY ConstantsAssumption
<1>3. Names[w] \cap Names[v] = {}  BY DEF ChatsApart
<1>4. v \in Numberer => w \notin Numberer /\ Names[w] \cap Live = {}  BY DEF ChatsApart
<1>5. w \in Numberer => v \notin Numberer /\ Names[v] \cap Live = {}  BY DEF ChatsApart
<1> QED  BY <1>1, <1>2, <1>3, <1>4, <1>5 DEF OwnIds

LEMMA EligibleIsOwn ==
  ASSUME NEW w \in Worker, NEW l, NEW named, NEW d, Eligible(w, l, named, d)
  PROVE  /\ d \in OwnIds(w)
         /\ d \in Fresh => d \notin Ids /\ \A v \in Worker : held[v] # None => held[v].id # d
<1>1. 0 \notin Fresh /\ Names[w] \cap Fresh = {}  BY IdType, ConstantsAssumption
<1> QED  BY <1>1 DEF Eligible, OwnIds

\* A step that leaves the rows alone: only the worker that moves matters.
LEMMA SoundFrame ==
  ASSUME Apart, NEW w \in Worker, Others(w), rows' = rows, Sound(w)'
  PROVE  Apart'
<1>1. ASSUME NEW v \in Worker, v # w  PROVE Sound(v)'
  <2>1. pc'[v] = pc[v] /\ msg'[v] = msg[v] /\ held'[v] = held[v] /\ at'[v] = at[v]
    BY <1>1 DEF Others
  <2>2. Sound(v) /\ Ids' = Ids  BY DEF Apart, Ids
  <2>3. Own(v)' /\ Vacant(v)' /\ Kept(v)' /\ Shape(v)'
    BY <2>1, <2>2 DEF Sound, Own, Vacant, Kept, Shape
  <2>4. Located(v)'  BY <2>1, <2>2 DEF Sound, Located
  <2>5. ASSUME NEW u \in Worker, pc'[v] # "idle", pc'[u] # "idle", held'[v].id = held'[u].id
        PROVE  v = u
    <3>1. CASE u = w  BY <2>5, <3>1 DEF Sound, Distinct
    <3>2. CASE u # w  BY <2>1, <2>2, <2>5, <3>2 DEF Others, Sound, Distinct
    <3> QED  BY <3>1, <3>2
  <2> QED  BY <2>3, <2>4, <2>5 DEF Sound, Distinct
<1>2. Len(rows') <= MaxRows /\ OneRowPerId'  BY DEF Apart, OneRowPerId
<1> QED  BY <1>1, <1>2 DEF Apart

\* A step that keeps the ID of the row of w, and to which nothing is added,
\* keeps the holders apart.
LEMMA SameHolding ==
  ASSUME NEW w \in Worker, Others(w), Own(w), Distinct(w), pc[w] # "idle",
         held'[w].id = held[w].id, pc'[w] # "number"
  PROVE  Own(w)' /\ Distinct(w)'
<1>1. Own(w)'  BY DEF Own
<1>2. Distinct(w)'  BY DEF Distinct, Others
<1> QED  BY <1>1, <1>2

LEMMA TakeSound ==
  ASSUME Served, Base, Apart, NEW w \in Worker, Take(w)
  PROVE  Apart'
<1>1. TypeOK /\ \A v \in Worker : Busy(v)  BY DEF Base
<1>2. PICK l \in {"number", "check", "find"}, op \in {"add", "update", "upsert"},
           named \in BOOLEAN, c \in Partial, r \in Draft : Accepts(w, l, op, named, c, r)
  BY <1>1, TakeAccepts DEF Taken
<1>3. /\ pc'[w] = l /\ held'[w] = r /\ msg'[w] = [op |-> op, named |-> named, change |-> c]
      /\ rows' = rows /\ Eligible(w, l, named, r.id) /\ (l = "number" => w \in Numberer)
  BY <1>1, <1>2 DEF Accepts, Accept, Goto, Hold, TypeOK
<1>4. Others(w)  BY <1>1, StepFrame
<1>5. Own(w)'  BY <1>3, EligibleIsOwn DEF Own
<1>6. ASSUME NEW v \in Worker, pc'[v] # "idle", held'[v].id = r.id, v # w
      PROVE  FALSE
  <2>1. pc[v] # "idle" /\ held[v].id = r.id  BY <1>4, <1>6 DEF Others
  <2>2. held[v] # None  BY <1>1, <2>1, ConstantsAssumption DEF Busy
  <2>3. r.id \in OwnIds(w) \ Fresh  BY <1>3, <2>1, <2>2, EligibleIsOwn
  <2>4. r.id \in OwnIds(v)  BY <2>1 DEF Apart, Sound, Own
  <2> QED  BY <1>6, <2>3, <2>4, OwnApart DEF Served
<1>7. Distinct(w)'  BY <1>3, <1>6 DEF Distinct
<1>8. l = "check" /\ ~ named => r.id \notin Ids
  BY <1>3 DEF Eligible
<1>9. Vacant(w)'  BY <1>3, <1>8 DEF Vacant, Ids
<1>10. Located(w)' /\ Kept(w)'  BY <1>3 DEF Located, Kept
<1>11. Shape(w)'  BY <1>2, <1>3 DEF Accepts, Shape
<1> QED  BY <1>3, <1>4, <1>5, <1>7, <1>9, <1>10, <1>11, SoundFrame DEF Sound

\* The number after the highest is that of no row, and of no other worker.
LEMMA NumberIsFree ==
  ASSUME Served, Base, Apart, NEW w \in Worker, NumberRecord(w)
  PROVE  /\ held'[w] = [held[w] EXCEPT !.id = LastNumber + 1] /\ held[w] \in Draft
         /\ LastNumber + 1 \in Live /\ LastNumber + 1 \in OwnIds(w) /\ LastNumber + 1 \notin Ids
         /\ \A v \in Worker \ {w} : pc[v] # "idle" => held[v].id # LastNumber + 1
<1>1. TypeOK /\ \A v \in Worker : Busy(v)  BY DEF Base
<1> DEFINE n == LastNumber + 1
<1>2. /\ pc[w] = "number" /\ held'[w] = [held[w] EXCEPT !.id = n] /\ LastNumber < MaxLive
  BY <1>1 DEF NumberRecord, Goto, Hold, Served, TypeOK
<1>3. held[w] \in Draft  BY <1>1, <1>2 DEF Busy
<1>4. n \in Live  BY <1>2, LastNumberIsLast, ConstantsAssumption DEF Live
<1>5. w \in Numberer  BY <1>2 DEF Apart, Sound, Own
<1>6. n \in OwnIds(w) \ Fresh  BY <1>4, <1>5, ConstantsAssumption DEF OwnIds
<1>7. ASSUME NEW v \in Worker \ {w}, pc[v] # "idle", held[v].id = n
      PROVE  FALSE
  <2>1. n \in OwnIds(v)  BY <1>7 DEF Apart, Sound, Own
  <2> QED  BY <1>6, <1>7, <2>1, OwnApart DEF Served
<1>8. n \notin Ids
  <2> SUFFICES ASSUME NEW i \in DOMAIN rows, rows[i].id = n  PROVE FALSE
    BY DEF Ids
  <2>1. rows \in Seq(Row)  BY <1>1 DEF TypeOK
  <2>2. i \in 1 .. Len(rows) /\ Len(rows) \in Nat  BY <2>1
  <2>3. i <= Reach  BY <2>2, ConstantsAssumption DEF Apart, Served
  <2>4. n <= LastNumber  BY <1>4, <2>3, LastNumberIsLast
  <2> QED  BY <2>4, LastNumberIsLast
<1> QED  BY <1>2, <1>3, <1>4, <1>6, <1>7, <1>8

LEMMA NumberSound ==
  ASSUME Served, Base, Apart, NEW w \in Worker, NumberRecord(w)
  PROVE  Apart'
<1>1. TypeOK  BY DEF Base
<1> DEFINE n == LastNumber + 1
<1>2. pc[w] = "number" /\ pc'[w] = "check" /\ UNCHANGED <<rows, msg>>
  BY <1>1 DEF NumberRecord, Goto, TypeOK
<1>3. held'[w].id = n /\ held'[w].body = held[w].body  BY NumberIsFree DEF Draft
<1>4. Step(w)  BY DEF Step
<1>5. Others(w)  BY <1>1, <1>4, StepFrame
<1>6. Own(w)'  BY <1>2, <1>3, NumberIsFree DEF Own
<1>7. ASSUME NEW v \in Worker, pc'[v] # "idle", held'[v].id = n, v # w
      PROVE  FALSE
  <2>1. pc[v] # "idle" /\ held[v].id = n  BY <1>5, <1>7 DEF Others
  <2> QED  BY <1>7, <2>1, NumberIsFree
<1>8. Distinct(w)'
  <2> HIDE DEF n
  <2> QED  BY <1>3, <1>7 DEF Distinct
<1>9. Vacant(w)'  BY <1>2, <1>3, NumberIsFree DEF Vacant, Ids
<1>10. Located(w)' /\ Kept(w)'  BY <1>2 DEF Located, Kept
<1>11. Shape(w)'  BY <1>2, <1>3 DEF Apart, Sound, Shape
<1> QED  BY <1>2, <1>5, <1>6, <1>8, <1>9, <1>10, <1>11, SoundFrame DEF Sound

\* The check reads every row: what it does not find is not there, and an ID
\* that the program chose is not found.
LEMMA CheckSound ==
  ASSUME Served, Base, Apart, NEW w \in Worker, CheckDuplicate(w)
  PROVE  Apart'
<1>1. TypeOK /\ \A v \in Worker : Busy(v)  BY DEF Base
<1>2. pc[w] = "check" /\ UNCHANGED <<rows, held>>  BY DEF CheckDuplicate
<1>3. Step(w)  BY DEF Step
<1>4. Others(w)  BY <1>1, <1>3, StepFrame
<1>5. Sound(w)  BY DEF Apart
<1>6. msg[w] \in Message  BY <1>1, <1>2 DEF Busy
<1> DEFINE exists == \E i \in DOMAIN rows : i <= Window /\ rows[i].id = held[w].id
<1>7. exists <=> held[w].id \in Ids
  <2>1. rows \in Seq(Row)  BY <1>1 DEF TypeOK
  <2>2. \A i \in DOMAIN rows : i \in 1 .. Len(rows) /\ Len(rows) \in Nat  BY <2>1
  <2>3. \A i \in DOMAIN rows : i <= Window  BY <2>2, ConstantsAssumption DEF Apart, Served
  <2> QED  BY <2>3 DEF Ids
<1>8. CASE exists /\ Log(w, "duplicate_skipped")
  <2>1. pc'[w] = "log" /\ msg'[w] = [msg[w] EXCEPT !.op = "duplicate_skipped"]
    BY <1>1, <1>8 DEF Log, Goto, TypeOK
  <2>2. msg'[w].named = msg[w].named  BY <1>6, <2>1 DEF Message
  <2>3. msg[w].named  BY <1>2, <1>5, <1>7, <1>8 DEF Sound, Vacant
  <2>4. Kept(w)'  BY <2>2, <2>3 DEF Kept
  <2>5. Vacant(w)' /\ Located(w)' /\ Shape(w)'  BY <2>1 DEF Vacant, Located, Shape
  <2>6. Own(w)' /\ Distinct(w)'  BY <1>2, <1>4, <1>5, <2>1, SameHolding DEF Sound
  <2> QED  BY <1>2, <1>4, <2>4, <2>5, <2>6, SoundFrame DEF Sound
<1>9. CASE ~ exists /\ Goto(w, "append") /\ UNCHANGED msg
  <2>1. pc'[w] = "append"  BY <1>1, <1>9 DEF Goto, TypeOK
  <2>2. Vacant(w)'  BY <1>2, <1>7, <1>9, <2>1 DEF Vacant, Ids
  <2>3. Located(w)' /\ Kept(w)' /\ Shape(w)'
    BY <1>2, <1>5, <1>9, <2>1 DEF Sound, Located, Kept, Shape
  <2>4. Own(w)' /\ Distinct(w)'  BY <1>2, <1>4, <1>5, <2>1, SameHolding DEF Sound
  <2> QED  BY <1>2, <1>4, <2>2, <2>3, <2>4, SoundFrame DEF Sound
<1> QED  BY <1>8, <1>9 DEF CheckDuplicate, Served

\* The row that is found has the ID, and what will be written differs from it
\* in fields of the message only; none is found if none has the ID.
LEMMA FindSound ==
  ASSUME Served, Base, Apart, NEW w \in Worker, FindRow(w) \/ FindItem(w)
  PROVE  Apart'
<1>1. TypeOK /\ \A v \in Worker : Busy(v)  BY DEF Base
<1>2. pc[w] = "find" /\ rows' = rows  BY DEF FindRow, FindItem, Found
<1>3. Step(w)  BY DEF Step
<1>4. Others(w)  BY <1>1, <1>3, StepFrame
<1>5. Sound(w)  BY DEF Apart
<1>6. msg[w] \in Message /\ held[w] \in Draft  BY <1>1, <1>2 DEF Busy
<1> DEFINE i == RowAt(held[w].id)
<1>7. rows \in Seq(Row)  BY <1>1 DEF TypeOK
<1>8. i # 0 => i \in DOMAIN rows /\ rows[i].id = held[w].id  BY <1>7, RowAtFinds
<1>9. i = 0 => held[w].id \notin Ids
  <2>1. Len(rows) <= Reach
    BY <1>7, ConstantsAssumption DEF Apart, Served
  <2> QED  BY <1>7, <2>1, RowAtFinds
<1>10. CASE i # 0
  <2> DEFINE b == Overlay(rows[i].body, msg[w].change)
  <2>1. /\ held' = [held EXCEPT ![w] = [held[w] EXCEPT !.body = b]]
        /\ at' = [at EXCEPT ![w] = i] /\ pc' = [pc EXCEPT ![w] = "write"] /\ UNCHANGED msg
    BY <1>10 DEF FindRow, FindItem, Found, Goto, Hold
  <2> HIDE DEF b, i
  <2>3. pc'[w] = "write" /\ at'[w] = i /\ held'[w].id = held[w].id /\ held'[w].body = b
    BY <1>1, <1>6, <2>1 DEF TypeOK, Draft
  <2>4. Located(w)'  BY <1>2, <1>8, <1>10, <2>1, <2>3 DEF Located, b
  <2>5. Vacant(w)' /\ Kept(w)' /\ Shape(w)'
    BY <1>2, <1>5, <2>1, <2>3 DEF Vacant, Kept, Sound, Shape
  <2>6. Own(w)' /\ Distinct(w)'  BY <1>2, <1>4, <1>5, <2>3, SameHolding DEF Sound
  <2> QED  BY <1>2, <1>4, <2>4, <2>5, <2>6, SoundFrame DEF Sound
<1>11. CASE i = 0
  <2>1. /\ pc'[w] \in {"append", "log"} /\ UNCHANGED held
        /\ pc'[w] = "log" => msg'[w] = [msg[w] EXCEPT !.op = "update_missing"]
        /\ pc'[w] = "append" => msg[w].op = "upsert" /\ UNCHANGED msg
    BY <1>1, <1>11 DEF FindRow, FindItem, Found, Goto, Log, local, TypeOK
  <2>2. pc'[w] = "log" => msg'[w].op = "update_missing"  BY <1>6, <2>1 DEF Message
  <2>3. Vacant(w)'  BY <1>2, <1>9, <1>11, <2>1 DEF Vacant, Ids
  <2>4. Located(w)' /\ Kept(w)' /\ Shape(w)'
    BY <1>2, <1>5, <2>1, <2>2 DEF Located, Kept, Sound, Shape
  <2>5. Own(w)' /\ Distinct(w)'  BY <1>2, <1>4, <1>5, <2>1, SameHolding DEF Sound
  <2> QED  BY <1>2, <1>4, <2>3, <2>4, <2>5, SoundFrame DEF Sound
<1> QED  BY <1>10, <1>11

\* What is appended has an ID of its own.
LEMMA AppendSound ==
  ASSUME Base, Apart, NEW w \in Worker, AppendRow(w)
  PROVE  Apart'
<1>1. TypeOK /\ \A v \in Worker : Busy(v)  BY DEF Base
<1>2. /\ pc[w] = "append" /\ Len(rows) < MaxRows /\ rows' = Append(rows, held[w])
      /\ pc'[w] = "log" /\ msg'[w] = [msg[w] EXCEPT !.op = "create"] /\ held' = held
  BY <1>1 DEF AppendRow, Log, Goto, TypeOK
<1>3. Step(w)  BY DEF Step
<1>4. Others(w)  BY <1>1, <1>3, StepFrame
<1>5. \A v \in Worker : Sound(v)  BY DEF Apart
<1>6. msg[w] \in Message /\ held[w] \in Draft /\ held[w].id \in Id  BY <1>1, <1>2 DEF Busy
<1>7. held[w] \in Row  BY <1>6 DEF Draft, Row
<1>8. rows \in Seq(Row)  BY <1>1 DEF TypeOK
<1>9. /\ Len(rows') = Len(rows) + 1 /\ rows'[Len(rows')] = held[w]
      /\ \A i \in DOMAIN rows' : i # Len(rows') => i \in DOMAIN rows
      /\ \A i \in DOMAIN rows : i \in DOMAIN rows' /\ rows'[i] = rows[i]
  BY <1>2, <1>7, <1>8
<1>10. Len(rows') <= MaxRows  BY <1>2, <1>8, <1>9, ConstantsAssumption
<1>11. held[w].id \notin Ids  BY <1>2, <1>5 DEF Sound, Vacant
<1>12. OneRowPerId'
  <2>1. ASSUME NEW i \in DOMAIN rows', NEW j \in DOMAIN rows', rows'[i].id = rows'[j].id
        PROVE  i = j
    <3>1. CASE i # Len(rows') /\ j # Len(rows')
      BY <1>9, <2>1, <3>1 DEF Apart, OneRowPerId
    <3>2. CASE i = Len(rows') /\ j # Len(rows')
      BY <1>9, <1>11, <2>1, <3>2 DEF Ids
    <3>3. CASE i # Len(rows') /\ j = Len(rows')
      BY <1>9, <1>11, <2>1, <3>3 DEF Ids
    <3> QED  BY <3>1, <3>2, <3>3
  <2> QED  BY <2>1 DEF OneRowPerId
<1>13. \A d : d \in Ids' => d \in Ids \/ d = held[w].id
  BY <1>9 DEF Ids
<1>14. ASSUME NEW v \in Worker, v # w  PROVE Sound(v)'
  <2>1. pc'[v] = pc[v] /\ msg'[v] = msg[v] /\ held'[v] = held[v] /\ at'[v] = at[v]
    BY <1>4, <1>14 DEF Others
  <2>2. Own(v)' /\ Kept(v)' /\ Shape(v)'  BY <1>5, <2>1 DEF Sound, Own, Kept, Shape
  <2>3. Distinct(v)'
    <3>1. ASSUME NEW u \in Worker, pc'[u] # "idle"  PROVE pc[u] # "idle" /\ held'[u] = held[u]
      BY <1>2, <1>4, <3>1 DEF Others
    <3> QED  BY <1>5, <2>1, <3>1 DEF Sound, Distinct
  <2>4. pc[v] # "idle" => held[v].id # held[w].id
    BY <1>2, <1>5, <1>14 DEF Sound, Distinct
  <2>5. Vacant(v)'  BY <1>5, <1>13, <2>1, <2>4 DEF Sound, Vacant
  <2>6. Located(v)'
    <3> SUFFICES ASSUME pc[v] = "write"
                 PROVE  /\ at[v] \in DOMAIN rows' /\ rows'[at[v]].id = held[v].id
                        /\ held[v].body = Overlay(rows'[at[v]].body, msg[v].change)
      BY <2>1 DEF Located
    <3>1. /\ at[v] \in DOMAIN rows /\ rows[at[v]].id = held[v].id
          /\ held[v].body = Overlay(rows[at[v]].body, msg[v].change)
      BY <1>5 DEF Sound, Located
    <3>2. at[v] \in DOMAIN rows' /\ rows'[at[v]] = rows[at[v]]  BY <1>9, <3>1
    <3> QED  BY <3>1, <3>2
  <2> QED  BY <2>2, <2>3, <2>5, <2>6 DEF Sound
<1>15. Sound(w)'
  <2>1. msg'[w].op = "create"  BY <1>2, <1>6 DEF Message
  <2>2. Vacant(w)' /\ Located(w)' /\ Kept(w)' /\ Shape(w)'
    BY <1>2, <2>1 DEF Vacant, Located, Kept, Shape
  <2>3. Own(w)' /\ Distinct(w)'  BY <1>2, <1>4, <1>5, SameHolding DEF Sound
  <2> QED  BY <2>2, <2>3 DEF Sound
<1> QED  BY <1>10, <1>12, <1>14, <1>15 DEF Apart

\* The row that is overwritten keeps its ID and what is not mentioned.
LEMMA WriteKeeps ==
  ASSUME Base, Apart, NEW w \in Worker, WriteRow(w)
  PROVE  /\ pc[w] = "write" /\ at[w] \in DOMAIN rows /\ held[w].id = rows[at[w]].id
         /\ DOMAIN rows' = DOMAIN rows /\ Len(rows') = Len(rows)
         /\ rows'[at[w]] = held[w] /\ \A i \in DOMAIN rows \ {at[w]} : rows'[i] = rows[i]
         /\ \A i \in DOMAIN rows : rows'[i].id = rows[i].id
         /\ held[w].body = Overlay(rows[at[w]].body, msg[w].change)
<1>1. rows \in Seq(Row)  BY DEF Base, TypeOK
<1>2. pc[w] = "write" /\ rows' = [rows EXCEPT ![at[w]] = held[w]]  BY DEF WriteRow
<1>3. Located(w)  BY DEF Apart, Sound
<1>4. at[w] \in DOMAIN rows /\ held[w].id = rows[at[w]].id
  BY <1>2, <1>3 DEF Located
<1>5. held[w].body = Overlay(rows[at[w]].body, msg[w].change)
  BY <1>2, <1>3 DEF Located
<1>6. DOMAIN rows' = DOMAIN rows /\ rows'[at[w]] = held[w] /\ \A i \in DOMAIN rows \ {at[w]} : rows'[i] = rows[i]
  BY <1>1, <1>2, <1>4
<1>7. Len(rows') = Len(rows)  BY <1>1, <1>2, <1>4
<1> QED  BY <1>2, <1>4, <1>5, <1>6, <1>7

LEMMA WriteSound ==
  ASSUME Base, Apart, NEW w \in Worker, WriteRow(w)
  PROVE  Apart'
<1>1. TypeOK /\ \A v \in Worker : Busy(v)  BY DEF Base
<1>2. /\ pc[w] = "write" /\ held' = held
      /\ pc'[w] = "log" /\ msg'[w] = [msg[w] EXCEPT !.op = "update"]
  BY <1>1 DEF WriteRow, Log, Goto, TypeOK
<1>3. Step(w)  BY DEF Step
<1>4. Others(w)  BY <1>1, <1>3, StepFrame
<1>5. \A v \in Worker : Sound(v)  BY DEF Apart
<1>6. msg[w] \in Message  BY <1>1, <1>2 DEF Busy
<1>7. DOMAIN rows' = DOMAIN rows /\ \A i \in DOMAIN rows : rows'[i].id = rows[i].id
  BY WriteKeeps
<1>8. Len(rows') <= MaxRows /\ OneRowPerId'
  BY <1>7, WriteKeeps DEF Apart, OneRowPerId
<1>9. Ids' = Ids  BY <1>7 DEF Ids
<1>10. ASSUME NEW v \in Worker, v # w  PROVE Sound(v)'
  <2>1. pc'[v] = pc[v] /\ msg'[v] = msg[v] /\ held'[v] = held[v] /\ at'[v] = at[v]
    BY <1>4, <1>10 DEF Others
  <2>2. Own(v)' /\ Kept(v)' /\ Vacant(v)' /\ Shape(v)'
    BY <1>5, <1>9, <2>1 DEF Sound, Own, Kept, Vacant, Shape
  <2>3. Distinct(v)'
    <3>1. ASSUME NEW u \in Worker, pc'[u] # "idle"  PROVE pc[u] # "idle" /\ held'[u] = held[u]
      BY <1>2, <1>4, <3>1 DEF Others
    <3> QED  BY <1>5, <2>1, <3>1 DEF Sound, Distinct
  <2>4. Located(v)'
    <3> SUFFICES ASSUME pc[v] = "write"
                 PROVE  /\ at[v] \in DOMAIN rows' /\ rows'[at[v]].id = held[v].id
                        /\ held[v].body = Overlay(rows'[at[v]].body, msg[v].change)
      BY <2>1 DEF Located
    <3>1. /\ at[v] \in DOMAIN rows /\ rows[at[v]].id = held[v].id
          /\ held[v].body = Overlay(rows[at[v]].body, msg[v].change)
      BY <1>5 DEF Sound, Located
    <3>2. held[v].id # held[w].id  BY <1>2, <1>5, <1>10 DEF Sound, Distinct
    <3>3. at[v] # at[w]  BY <3>1, <3>2, WriteKeeps
    <3>4. rows'[at[v]] = rows[at[v]]  BY <3>1, <3>3, WriteKeeps
    <3> QED  BY <1>7, <3>1, <3>4
  <2> QED  BY <2>2, <2>3, <2>4 DEF Sound
<1>11. Sound(w)'
  <2>1. msg'[w].op = "update"  BY <1>2, <1>6 DEF Message
  <2>2. Vacant(w)' /\ Located(w)' /\ Kept(w)' /\ Shape(w)'
    BY <1>2, <2>1 DEF Vacant, Located, Kept, Shape
  <2>3. Own(w)' /\ Distinct(w)'  BY <1>2, <1>4, <1>5, SameHolding DEF Sound
  <2> QED  BY <2>2, <2>3 DEF Sound
<1> QED  BY <1>8, <1>10, <1>11 DEF Apart

LEMMA ReturnSound ==
  ASSUME Base, Apart, NEW w \in Worker, WriteAuditLog(w) \/ Abort(w)
  PROVE  Apart'
<1>1. TypeOK  BY DEF Base
<1>2. pc'[w] = "idle" /\ rows' = rows
  BY <1>1 DEF WriteAuditLog, Abort, Return, Goto, TypeOK
<1>3. Others(w)  BY <1>1, StepFrame DEF Step
<1>4. Sound(w)'  BY <1>2 DEF Sound, Own, Distinct, Vacant, Located, Kept, Shape
<1> QED  BY <1>2, <1>3, <1>4, SoundFrame

LEMMA ApartInit == Init => Apart
<1> SUFFICES ASSUME Init  PROVE Apart
  OBVIOUS
<1>1. rows = <<>> /\ \A w \in Worker : pc[w] = "idle"  BY DEF Init
<1>2. Len(rows) <= MaxRows /\ OneRowPerId  BY <1>1, ConstantsAssumption DEF OneRowPerId
<1>3. \A w \in Worker : Sound(w)  BY <1>1 DEF Sound, Own, Distinct, Vacant, Located, Kept, Shape
<1> QED  BY <1>2, <1>3 DEF Apart

LEMMA ApartStep ==
  ASSUME Served
  PROVE  Base /\ Apart /\ [Next]_vars => Apart'
<1> SUFFICES ASSUME Base, Apart, [Next]_vars  PROVE Apart'
  OBVIOUS
<1>1. ASSUME NEW w \in Worker, Take(w) \/ Step(w) \/ Abort(w)  PROVE Apart'
  BY <1>1, TakeSound, NumberSound, CheckSound, FindSound, AppendSound, WriteSound, ReturnSound
     DEF Step
<1>2. CASE UNCHANGED vars
  BY <1>2 DEF vars, local, Apart, OneRowPerId, Sound, Own, Distinct, Vacant, Located, Kept, Shape, Ids
<1> QED  BY <1>1, <1>2 DEF Next, Take

\* "Idempotent on RequestID": where chats name different IDs, live numbers are
\* those of one process, the duplicate check reads the whole tab and none of
\* its readings fails unnoticed, an ID never has a second row.
THEOREM AddIsIdempotent ==
  ASSUME ChatsApart, MaxRows <= Window, "read" \notin Faults
  PROVE  Spec => []OneRowPerId
<1>1. Served  BY DEF Served
<1>2. Apart => OneRowPerId  BY DEF Apart
<1>3. Base /\ Apart /\ [Next]_vars => Apart'  BY <1>1, ApartStep
<1> QED  BY <1>2, <1>3, BaseInit, BaseStep, ApartInit, PTL DEF Spec

\* Under the same conditions no message that leaves the ID to the program is
\* dropped as a duplicate: the number after the last and the ID that gen_id
\* draws stay free until the row is appended.
THEOREM NewRecordsAreKept ==
  ASSUME ChatsApart, MaxRows <= Window, "read" \notin Faults
  PROVE  Spec => []NewRecordKept
<1>1. Served  BY DEF Served
<1>2. Apart => NewRecordKept  BY DEF Apart, Sound, Kept, NewRecordKept
<1>3. Base /\ Apart /\ [Next]_vars => Apart'  BY <1>1, ApartStep
<1> QED  BY <1>2, <1>3, BaseInit, BaseStep, ApartInit, PTL DEF Spec

-----------------------------------------------------------------------------
(* The refinement.                                                         *)

\* What a worker has asked, and when it changes.
LEMMA AskedFrame ==
  ASSUME NEW w \in Worker, Others(w)
  PROVE  Asked' = [Asked EXCEPT ![w] = Asked'[w]]
BY DEF Asked, Others

LEMMA AskedType ==
  ASSUME Base, Apart, NEW w \in Worker, pc[w] \notin {"idle", "log"}
  PROVE  Asked[w] \in Request /\ Asked[w] # None
<1>1. msg[w] \in Message /\ held[w] \in Draft  BY DEF Base, Busy
<1>2. pc[w] \in {"number", "check", "append", "find", "write"}  BY DEF Base, TypeOK
<1>3. msg[w].op \in {"add", "update", "upsert"}  BY <1>2 DEF Apart, Sound, Shape
<1>4. Asked[w] \in Request  BY <1>1, <1>3 DEF Asked, Request, Message, Draft
<1> QED  BY <1>4, ConstantsAssumption

LEMMA KnownIsIds == Records!Known = Ids
BY DEF Records!Known, Table, Ids

LEMMA MergedIsOverlay == \A b, c : Records!Merged(b, c) = Overlay(b, c)
BY DEF Records!Merged, Overlay

\* A step that changes nothing above, or with which w has nothing left to do.
LEMMA QuietSteps ==
  ASSUME Base, Apart, NEW w \in Worker, Others(w), rows' = rows
  PROVE  /\ Asked'[w] = Asked[w] => UNCHANGED <<Table, Asked>>
         /\ pc[w] \notin {"idle", "log"} /\ pc'[w] \in {"idle", "log"} => Records!Settle(w)
<1>1. Table' = Table  BY DEF Table
<1>2. Asked' = [Asked EXCEPT ![w] = Asked'[w]]  BY AskedFrame
<1>3. Asked'[w] = Asked[w] => Asked' = Asked  BY <1>2 DEF Asked
<1>4. ASSUME pc[w] \notin {"idle", "log"}, pc'[w] \in {"idle", "log"}
      PROVE  Records!Settle(w)
  <2>1. Asked[w] # None  BY <1>4, AskedType
  <2>2. Asked'[w] = None  BY <1>4 DEF Asked
  <2> QED  BY <1>1, <1>2, <2>1, <2>2 DEF Records!Settle
<1> QED  BY <1>1, <1>3, <1>4

LEMMA TakeRefines ==
  ASSUME Base, Apart, NEW w \in Worker, Take(w)
  PROVE  Records!Ask(w)
<1>1. TypeOK  BY DEF Base
<1>2. Others(w)  BY <1>1, StepFrame
<1>3. PICK l \in {"number", "check", "find"}, op \in {"add", "update", "upsert"},
           named \in BOOLEAN, c \in Partial, r \in Draft : Accepts(w, l, op, named, c, r)
  BY <1>1, TakeAccepts DEF Taken
<1>4. /\ pc[w] = "idle" /\ pc'[w] = l /\ held'[w] = r /\ rows' = rows
      /\ msg'[w] = [op |-> op, named |-> named, change |-> c]
  BY <1>1, <1>3 DEF Accepts, Accept, Goto, Hold, TypeOK
<1>5. Asked[w] = None  BY <1>4 DEF Asked
<1>6. Asked'[w] = [op |-> op, id |-> r.id, change |-> c]  BY <1>4 DEF Asked
<1>7. Asked'[w] \in Request  BY <1>6 DEF Request, Draft
<1>8. Table' = Table  BY <1>4 DEF Table
<1> QED  BY <1>2, <1>5, <1>7, <1>8, AskedFrame DEF Records!Ask

LEMMA NumberRefines ==
  ASSUME Served, Base, Apart, NEW w \in Worker, NumberRecord(w)
  PROVE  Records!Number(w)
<1>1. TypeOK  BY DEF Base
<1> DEFINE n == LastNumber + 1
<1>2. pc[w] = "number" /\ pc'[w] = "check" /\ UNCHANGED <<rows, msg>>
  BY <1>1 DEF NumberRecord, Goto, TypeOK
<1>3. held'[w].id = n /\ n \in Id \ Ids  BY NumberIsFree DEF Draft, Id
<1>4. Others(w)  BY <1>1, StepFrame DEF Step
<1>5. held[w].id = 0  BY <1>2 DEF Apart, Sound, Shape
<1>6. Asked[w] # None  BY <1>2, AskedType
<1>7. Asked[w] = [op |-> msg[w].op, id |-> 0, change |-> msg[w].change]
  BY <1>2, <1>5 DEF Asked
<1> HIDE DEF n
<1>8. Asked'[w] = [op |-> msg[w].op, id |-> n, change |-> msg[w].change]
  BY <1>2, <1>3 DEF Asked
<1>9. Asked'[w] = [Asked[w] EXCEPT !.id = n]  BY <1>7, <1>8
<1>10. Asked' = [Asked EXCEPT ![w].id = n]  BY <1>4, <1>9, AskedFrame
<1>11. ASSUME NEW v \in Worker, Asked[v] # None  PROVE Asked[v].id # n
  <2>1. CASE v = w
    <3>1. n # 0  BY <1>3, ConstantsAssumption
    <3> QED  BY <1>7, <2>1, <3>1
  <2>2. CASE v # w
    <3>1. pc[v] \notin {"idle", "log"} /\ Asked[v].id = held[v].id  BY <1>11 DEF Asked
    <3> QED  BY <2>2, <3>1, NumberIsFree DEF n
  <2> QED  BY <2>1, <2>2
<1>12. Table' = Table  BY <1>2 DEF Table
<1>13. n \in Id \ Records!Known  BY <1>3, KnownIsIds
<1>14. Asked[w].id = 0  BY <1>7
<1>15. \E d \in Id \ Records!Known :
         /\ \A v \in Worker : Asked[v] # None => Asked[v].id # d
         /\ Asked' = [Asked EXCEPT ![w].id = d]
  BY <1>10, <1>11, <1>13, Zenon
<1> QED  BY <1>6, <1>12, <1>14, <1>15, Zenon DEF Records!Number

LEMMA AppendRefines ==
  ASSUME Base, Apart, NEW w \in Worker, AppendRow(w)
  PROVE  Records!Settle(w)
<1>1. TypeOK  BY DEF Base
<1>2. pc[w] = "append" /\ pc'[w] = "log" /\ rows' = Append(rows, held[w])
  BY <1>1 DEF AppendRow, Log, Goto, TypeOK
<1>3. Others(w)  BY <1>1, StepFrame DEF Step
<1>4. held[w] \in Draft /\ held[w].id \in Id  BY <1>2 DEF Base, Busy
<1>5. held[w].id \notin Ids /\ msg[w].op \in {"add", "upsert"} /\ held[w].body = Fill(msg[w].change)
  BY <1>2 DEF Apart, Sound, Vacant, Shape
<1>6. Asked[w] # None  BY <1>2, AskedType
<1>7. Asked[w] = [op |-> msg[w].op, id |-> held[w].id, change |-> msg[w].change]
  BY <1>2 DEF Asked
<1>8. Asked'[w] = None  BY <1>2 DEF Asked
<1>9. Table' = Table \cup {held[w]}
  <2>1. rows \in Seq(Row) /\ held[w] \in Row  BY <1>1, <1>4 DEF TypeOK, Row, Draft
  <2> QED  BY <1>2, <2>1 DEF Table
<1>10. held[w] = [id |-> held[w].id, body |-> Records!Merged(Default, msg[w].change)]
  BY <1>4, <1>5, MergedIsOverlay DEF Draft, Fill
<1>11. Records!Create(w)
  <2>1. Asked[w].id \in Id \ Records!Known  BY <1>4, <1>5, <1>7, KnownIsIds
  <2>2. Table' = Table \cup {[id |-> Asked[w].id, body |-> Records!Merged(Default, Asked[w].change)]}
    BY <1>7, <1>9, <1>10
  <2> QED  BY <1>5, <1>7, <2>1, <2>2 DEF Records!Create
<1> QED  BY <1>3, <1>6, <1>8, <1>11, AskedFrame DEF Records!Settle

LEMMA WriteRefines ==
  ASSUME Base, Apart, NEW w \in Worker, WriteRow(w)
  PROVE  Records!Settle(w)
<1>1. TypeOK  BY DEF Base
<1>2. pc[w] = "write" /\ pc'[w] = "log"
  BY <1>1 DEF WriteRow, Log, Goto, TypeOK
<1>3. Others(w)  BY <1>1, StepFrame DEF Step
<1>4. held[w] \in Draft  BY <1>2 DEF Base, Busy
<1>5. msg[w].op \in {"update", "upsert"}  BY <1>2 DEF Apart, Sound, Shape
<1>6. Asked[w] # None  BY <1>2, AskedType
<1>7. Asked[w] = [op |-> msg[w].op, id |-> held[w].id, change |-> msg[w].change]
  BY <1>2 DEF Asked
<1>8. Asked'[w] = None  BY <1>2 DEF Asked
<1> DEFINE r == rows[at[w]]
<1>9. r \in Table /\ r.id = held[w].id  BY WriteKeeps DEF Table
<1>10. \A i \in DOMAIN rows \ {at[w]} : rows[i] # r
  BY WriteKeeps DEF Apart, OneRowPerId
<1>11. Table' = (Table \ {r}) \cup {held[w]}
  <2>1. \A i \in DOMAIN rows \ {at[w]} : rows'[i] = rows[i]  BY WriteKeeps
  <2>2. DOMAIN rows' = DOMAIN rows /\ rows'[at[w]] = held[w] /\ at[w] \in DOMAIN rows  BY WriteKeeps
  <2>3. Table \ {r} = {rows[i] : i \in DOMAIN rows \ {at[w]}}  BY <1>10, <2>2 DEF Table
  <2>4. Table' = {rows'[i] : i \in DOMAIN rows \ {at[w]}} \cup {held[w]}  BY <2>2 DEF Table
  <2>5. {rows'[i] : i \in DOMAIN rows \ {at[w]}} = {rows[i] : i \in DOMAIN rows \ {at[w]}}  BY <2>1
  <2> QED  BY <2>3, <2>4, <2>5
<1>12. held[w] = [id |-> r.id, body |-> Records!Merged(r.body, msg[w].change)]
  BY <1>4, <1>9, WriteKeeps, MergedIsOverlay DEF Draft
<1> HIDE DEF r
<1>13. Records!Merge(w)
  <2>1. r \in Table /\ r.id = Asked[w].id  BY <1>7, <1>9
  <2>2. Table' = (Table \ {r}) \cup {[id |-> r.id, body |-> Records!Merged(r.body, Asked[w].change)]}
    BY <1>7, <1>11, <1>12
  <2> QED  BY <1>5, <1>7, <2>1, <2>2 DEF Records!Merge
<1> QED  BY <1>3, <1>6, <1>8, <1>13, AskedFrame DEF Records!Settle

LEMMA StepRefines ==
  ASSUME Served, Base, Apart, NEW w \in Worker, Take(w) \/ Step(w) \/ Abort(w)
  PROVE  Records!Ask(w) \/ Records!Number(w) \/ Records!Settle(w) \/ UNCHANGED <<Table, Asked>>
<1>1. TypeOK /\ Others(w)  BY StepFrame DEF Base
<1>2. CASE Take(w) \/ NumberRecord(w) \/ AppendRow(w) \/ WriteRow(w)
  BY <1>2, TakeRefines, NumberRefines, AppendRefines, WriteRefines
<1>3. CASE CheckDuplicate(w)
  <2>1. pc[w] = "check" /\ UNCHANGED <<rows, held>>  BY <1>3 DEF CheckDuplicate
  <2>2. pc'[w] = "log" \/ (pc'[w] = "append" /\ UNCHANGED msg)
    BY <1>1, <1>3 DEF CheckDuplicate, Log, Goto, TypeOK
  <2>3. pc'[w] = "append" /\ UNCHANGED msg => Asked'[w] = Asked[w]  BY <2>1 DEF Asked
  <2> QED  BY <1>1, <2>1, <2>2, <2>3, QuietSteps
<1>4. CASE FindRow(w) \/ FindItem(w)
  <2>1. pc[w] = "find" /\ rows' = rows /\ held[w] \in Draft
    BY <1>4 DEF FindRow, FindItem, Found, Base, Busy
  <2>2. \/ pc'[w] = "log"
        \/ pc'[w] \in {"write", "append"} /\ UNCHANGED msg /\ held'[w].id = held[w].id
    <3>1. \/ pc' = [pc EXCEPT ![w] = "log"]
          \/ pc' = [pc EXCEPT ![w] = "append"] /\ UNCHANGED <<msg, held>>
          \/ /\ pc' = [pc EXCEPT ![w] = "write"] /\ UNCHANGED msg
             /\ \E b : held' = [held EXCEPT ![w] = [held[w] EXCEPT !.body = b]]
      BY <1>4 DEF FindRow, FindItem, Found, Log, Goto, Hold, local
    <3>2. \A b : [held[w] EXCEPT !.body = b].id = held[w].id  BY <2>1 DEF Draft
    <3>3. w \in DOMAIN pc /\ w \in DOMAIN held  BY <1>1 DEF TypeOK
    <3>4. CASE pc' = [pc EXCEPT ![w] = "log"]  BY <3>3, <3>4
    <3>5. CASE pc' = [pc EXCEPT ![w] = "append"] /\ UNCHANGED <<msg, held>>  BY <3>3, <3>5
    <3>6. CASE /\ pc' = [pc EXCEPT ![w] = "write"] /\ UNCHANGED msg
               /\ \E b : held' = [held EXCEPT ![w] = [held[w] EXCEPT !.body = b]]
      <4>1. PICK b : held' = [held EXCEPT ![w] = [held[w] EXCEPT !.body = b]]  BY <3>6
      <4>2. held'[w].id = held[w].id  BY <3>2, <3>3, <4>1
      <4> QED  BY <3>3, <3>6, <4>2
    <3> QED  BY <3>1, <3>4, <3>5, <3>6
  <2>3. pc'[w] \in {"write", "append"} /\ UNCHANGED msg /\ held'[w].id = held[w].id
          => Asked'[w] = Asked[w]
    BY <2>1 DEF Asked
  <2> QED  BY <1>1, <2>1, <2>2, <2>3, QuietSteps
<1>5. CASE WriteAuditLog(w) \/ Abort(w)
  <2>1. pc[w] # "idle" /\ pc'[w] = "idle" /\ rows' = rows
    BY <1>1, <1>5 DEF WriteAuditLog, Abort, Return, Goto, TypeOK
  <2>2. pc[w] = "log" => Asked'[w] = Asked[w]  BY <2>1 DEF Asked
  <2> QED  BY <1>1, <2>1, <2>2, QuietSteps
<1> QED  BY <1>2, <1>3, <1>4, <1>5 DEF Step

\* Under the same conditions operations are atomic: although a whole row is
\* written that was read two calls earlier, the record changes as if the
\* message alone had been applied to what it is when the write happens.
THEOREM OperationsAreAtomic ==
  ASSUME ChatsApart, MaxRows <= Window, "read" \notin Faults
  PROVE  Spec => ImplementsTable
<1>1. Served  BY DEF Served
<1>2. Base /\ Apart /\ [Next]_vars => Apart'  BY <1>1, ApartStep
<1>3. Init => Records!TableInit
  BY DEF Init, Records!TableInit, Table, Asked
<1>4. Base /\ Apart /\ [Next]_vars => [Records!TableNext]_(Records!tableVars)
  <2> SUFFICES ASSUME Base, Apart, [Next]_vars
               PROVE  Records!TableNext \/ UNCHANGED <<Table, Asked>>
    BY DEF Records!tableVars
  <2>1. CASE UNCHANGED vars
    BY <2>1 DEF vars, local, Table, Asked
  <2>2. ASSUME NEW w \in Worker, Take(w) \/ Step(w) \/ Abort(w)
        PROVE  Records!TableNext \/ UNCHANGED <<Table, Asked>>
    BY <1>1, <2>2, StepRefines DEF Records!TableNext
  <2> QED  BY <2>1, <2>2 DEF Next, Take
<1> QED
  BY <1>2, <1>3, <1>4, BaseInit, BaseStep, ApartInit, PTL DEF Spec, ImplementsTable, Records!TableSpec

=============================================================================
