------------------------ MODULE EventPromotionProofs ------------------------
(***************************************************************************)
(* Proofs about EventPromotion, for any drafts, chats, processes, messages *)
(* and bounds.                                                             *)
(***************************************************************************)
EXTENDS EventPromotion, WellFoundedInduction, TLAPS

-----------------------------------------------------------------------------
(* What RowAt finds.                                                       *)

\* A nonempty set of numbers has a least element, so the CHOOSE of Min
\* chooses one of them.
LEMMA MinInSet ==
  ASSUME NEW S, S \subseteq Nat, S # {}
  PROVE  (CHOOSE x \in S : \A y \in S : x =< y) \in S
<1> DEFINE Below == {ss \in Nat \X Nat : ss[1] < ss[2]}
<1>1. IsWellFoundedOn(Below, Nat)
  BY NatLessThanWellFounded DEF OpToRel
<1>2. \E x \in S : \A y \in S : ~ (<<y, x>> \in Below)
  <2> HIDE DEF Below
  <2> QED BY <1>1, WFMin
<1>3. PICK x \in S : \A y \in S : ~ (<<y, x>> \in Below)
  BY <1>2
<1>4. ASSUME NEW y \in S PROVE x =< y
  <2>1. x \in Nat /\ y \in Nat /\ ~ (<<y, x>> \in Below)
    BY <1>3
  <2> QED BY <2>1
<1> QED BY <1>4

\* _find_row_by_id returns a row with the ID it was asked for, and misses
\* none.
LEMMA RowAtFinds ==
  ASSUME rows \in Seq(Row), NEW d
  PROVE  /\ RowAt(d) \in Nat
         /\ RowAt(d) # 0 => RowAt(d) \in DOMAIN rows /\ rows[RowAt(d)].id = d
         /\ (\E i \in DOMAIN rows : rows[i].id = d) => RowAt(d) # 0
<1> DEFINE I == {i \in 1 .. Len(rows) : rows[i].id = d}
<1>1. RowAt(d) = IF I # {} THEN CHOOSE x \in I : \A y \in I : x =< y ELSE 0
  BY DEF RowAt, SelectInSeq, Min
<1>2. I # {} => RowAt(d) \in I
  <2> HIDE DEF I
  <2>1. I \subseteq Nat BY DEF I
  <2> QED BY <1>1, <2>1, MinInSet
<1>3. DOMAIN rows = 1 .. Len(rows)
  OBVIOUS
<1>4. CASE I = {}
  <2>1. RowAt(d) = 0 BY <1>1, <1>4
  <2>2. ~ \E i \in DOMAIN rows : rows[i].id = d BY <1>3, <1>4
  <2> QED BY <2>1, <2>2
<1>5. CASE I # {}
  <2>1. RowAt(d) \in I BY <1>2, <1>5
  <2>2. RowAt(d) \in 1 .. Len(rows) /\ rows[RowAt(d)].id = d BY <2>1
  <2>3. RowAt(d) # 0 /\ RowAt(d) \in Nat BY <2>2
  <2> QED BY <2>2, <2>3, <1>3
<1> QED BY <1>4, <1>5

\* A follow-up is resolved to a row of the tab, or to none.
LEMMA TargetFinds ==
  ASSUME rows \in Seq(Row), NEW s, NEW n
  PROVE  Target(s, n) \in DOMAIN rows \cup {0}
<1>1. \A d : RowAt(d) \in DOMAIN rows \cup {0}
  BY RowAtFinds
<1>2. ASSUME \E i \in DOMAIN rows : OpenDrafts(s) = {i}
      PROVE  (CHOOSE i \in OpenDrafts(s) : TRUE) \in DOMAIN rows
  BY <1>2
<1> QED BY <1>1, <1>2 DEF Target

-----------------------------------------------------------------------------
(* The inductive invariant.                                                *)

Promotion == {"gate", "validate", "consume", "reread", "insert", "record", "finish"}

\* A process that handles a message knows the message and a row to write.
Busy(p) == pc[p] # "idle" => msg[p] \in Message /\ held[p] \in Row

\* The row that a process has found is the row of the draft it works on: rows
\* are appended and overwritten, and an ID never moves.
Located(p) ==
  /\ at[p] # 0 => /\ pc[p] # "idle"
                  /\ at[p] \in DOMAIN rows /\ rows[at[p]].id = held[p].id
  /\ pc[p] \in {"insert", "record", "finish"} => at[p] # 0

\* Only promoters promote, and what they promote is in the tab.
Promotable(p) ==
  /\ pc[p] \in Promotion => msg[p].kind = "promote"
  /\ pc[p] # "idle" /\ msg[p].kind = "promote" =>
       p \in Promoter /\ \E i \in DOMAIN rows : rows[i].id = held[p].id

Fit(p) == Busy(p) /\ Located(p) /\ Promotable(p)

Structure == TypeOK /\ \A p \in Process : Fit(p)

\* The draft and the chat that process p promotes it for.
Grantee(p) == <<held[p].id, msg[p].scope>>
Granted(g) == auth # None /\ <<auth.id, auth.scope>> = g
\* The authorization for g is consumed, and the insertion is still to come.
Owed(g) == \E p \in Process : pc[p] \in {"reread", "insert"} /\ Grantee(p) = g
\* The authorization for g has been validated, and is not consumed yet.
Validated(g) == \E p \in Process : pc[p] = "consume" /\ Grantee(p) = g
Due(g) == (IF Granted(g) THEN 1 ELSE 0) + (IF Owed(g) THEN 1 ELSE 0)

\* Every authorization is in the file, or consumed for an insertion to come,
\* or spent; one that is in the file when it has been validated is spent by
\* nobody else before it is consumed.
Budget ==
  \A g \in Draft \X Scope :
    /\ made[g] + Due(g) <= issued[g]
    /\ Validated(g) => made[g] + 1 <= issued[g]

-----------------------------------------------------------------------------
(* The structure of the state.                                             *)

\* No row goes, and no row changes its ID.
Kept == /\ DOMAIN rows \subseteq DOMAIN rows'
        /\ \A i \in DOMAIN rows : rows'[i].id = rows[i].id
\* The others have not moved.
OthersWait(p) ==
  \A q \in Process \ {p} : pc'[q] = pc[q] /\ msg'[q] = msg[q] /\ held'[q] = held[q] /\ at'[q] = at[q]

\* A step of p leaves what is known about the others.
LEMMA OthersFit ==
  ASSUME Structure, NEW p \in Process, Kept, OthersWait(p), TypeOK', Fit(p)'
  PROVE  Structure'
<1>1. ASSUME NEW q \in Process \ {p}  PROVE Fit(q)'
  <2>1. Fit(q) /\ pc'[q] = pc[q] /\ msg'[q] = msg[q] /\ held'[q] = held[q] /\ at'[q] = at[q]
    BY <1>1 DEF Structure, OthersWait
  <2>2. Busy(q)' BY <2>1 DEF Fit, Busy
  <2>3. Located(q)' BY <2>1 DEF Fit, Located, Kept
  <2>4. Promotable(q)' BY <2>1 DEF Fit, Promotable, Kept
  <2> QED BY <2>2, <2>3, <2>4 DEF Fit
<1> QED BY <1>1 DEF Structure

\* The steps that leave the message and the row of p as they are.
LEMMA GotoFits ==
  ASSUME Structure, NEW p \in Process, NEW l \in Phase \ {"idle"}, Goto(p, l), pc[p] # "idle",
         Kept, TypeOK',
         l \in Promotion => pc[p] \in Promotion \/ msg[p].kind = "promote",
         l \in {"insert", "record", "finish"} => pc[p] \in {"insert", "record", "finish"}
  PROVE  Structure'
<1>1. OthersWait(p) /\ pc'[p] = l /\ UNCHANGED local
  BY DEF Goto, OthersWait, local, Structure, TypeOK
<1>2. Fit(p) BY DEF Structure
<1>3. Busy(p)' BY <1>1, <1>2 DEF Fit, Busy, local
<1>4. Located(p)' BY <1>1, <1>2 DEF Fit, Located, Kept, local
<1>5. Promotable(p)' BY <1>1, <1>2 DEF Fit, Promotable, Kept, local
<1> QED BY <1>1, <1>3, <1>4, <1>5, OthersFit DEF Fit

\* An idle process has nothing to know.
LEMMA ReturnFits ==
  ASSUME Structure, NEW p \in Process, Return(p), Kept, TypeOK'
  PROVE  Structure'
<1>1. OthersWait(p) /\ pc'[p] = "idle" /\ at'[p] = 0
  BY DEF Return, OthersWait, Structure, TypeOK
<1>2. Fit(p)' BY <1>1 DEF Fit, Busy, Located, Promotable, Promotion
<1> QED BY <1>1, <1>2, OthersFit

\* A row is found only where it is.
LEMMA FoundFits ==
  ASSUME Structure, NEW p \in Process, NEW l \in {"write", "insert", "finish"}, NEW r \in Row,
         NEW i \in DOMAIN rows \cup {0}, Found(p, l, r, i), pc[p] # "idle",
         Kept, TypeOK', r.id = held[p].id, i # 0 => rows[i].id = r.id,
         l # "write" => i # 0 /\ pc[p] \in Promotion
  PROVE  Structure'
<1>1. OthersWait(p) /\ pc'[p] = l /\ held'[p] = r /\ at'[p] = i /\ UNCHANGED msg
  BY DEF Found, OthersWait, Structure, TypeOK
<1>2. Fit(p) BY DEF Structure
<1>3. Busy(p)' BY <1>1, <1>2 DEF Fit, Busy
<1>4. Located(p)' BY <1>1, <1>2 DEF Fit, Located, Kept
<1>5. Promotable(p)' BY <1>1, <1>2 DEF Fit, Promotable, Kept, Promotion
<1> QED BY <1>1, <1>3, <1>4, <1>5, OthersFit DEF Fit

\* A message is accepted by an idle process.
LEMMA AcceptFits ==
  ASSUME Structure, NEW p \in Process, NEW k \in {"intake", "edit", "unarmed", "promote"},
         NEW s \in Scope, NEW r \in Row, Accept(p, k, s, r), pc[p] = "idle",
         Kept, TypeOK',
         k = "promote" => p \in Promoter /\ \E i \in DOMAIN rows : rows[i].id = r.id
  PROVE  Structure'
<1>1. /\ OthersWait(p) /\ pc'[p] = "find" /\ held'[p] = r /\ at'[p] = at[p]
      /\ msg'[p] = [kind |-> k, scope |-> s]
  BY DEF Accept, OthersWait, Structure, TypeOK
<1>2. Fit(p) BY DEF Structure
<1>3. Busy(p)' BY <1>1 DEF Busy, Message
<1>4. Located(p)' BY <1>1, <1>2 DEF Fit, Located
<1>5. Promotable(p)' BY <1>1 DEF Promotable, Kept, Promotion
<1> QED BY <1>1, <1>3, <1>4, <1>5, OthersFit DEF Fit

\* Nothing runs at first, and there is no row to know of.
LEMMA StructureInit == Init => Structure
  BY NoneAssumption
  DEF Init, Structure, TypeOK, Fit, Busy, Located, Promotable, Phase, Promotion

\* Every step keeps the structure: that of p by what p finds and remembers,
\* the others because no row moves.
LEMMA StructureStep ==
  ASSUME Structure, [Next]_vars
  PROVE  Structure'
<1>0. TypeOK /\ (rows' = rows => Kept)
  BY DEF Structure, Kept
<1>1. ASSUME NEW p \in Process, ReceiveIntake(p)  PROVE Structure'
  <2>1. PICK d \in Draft, s \in Scope, f \in Form :
          Accept(p, "intake", s,
              [id |-> d, scope |-> s, approval |-> f.approval, status |-> f.status,
               private |-> f.private, complete |-> f.complete, cal |-> FALSE])
    BY <1>1 DEF ReceiveIntake
  <2> DEFINE r == [id |-> d, scope |-> s, approval |-> f.approval, status |-> f.status,
                   private |-> f.private, complete |-> f.complete, cal |-> FALSE]
  <2>2. r \in Row
    BY FormAssumption DEF Row
  <2>3. pc[p] = "idle" /\ UNCHANGED shared
    BY <1>1 DEF ReceiveIntake
  <2> HIDE DEF r
  <2>4. TypeOK'
    BY <1>0, <2>1, <2>2, <2>3 DEF TypeOK, Accept, shared, Phase, Message, r
  <2> QED BY <1>0, <2>1, <2>2, <2>3, <2>4, AcceptFits DEF shared, r
<1>2. ASSUME NEW p \in Process, ReceiveFollowup(p)  PROVE Structure'
  <2>1. PICK s \in Scope, named \in Draft \cup {None}, e \in Edit, k \in {"edit", "unarmed"} :
          LET i == Target(s, named) IN
          /\ DropStaleActive(s, named)
          /\ \/ i = 0 /\ UNCHANGED <<pc, local>>
             \/ i # 0 /\ Accept(p, k, s, [Overlay(rows[i], e) EXCEPT !.scope = s])
    BY <1>2 DEF ReceiveFollowup
  <2>2. active' \in [Scope -> Draft \cup {None}]
    BY <1>0, <2>1 DEF DropStaleActive, TypeOK
  <2>3. pc[p] = "idle" /\ UNCHANGED <<rows, made, auth, issued>>
    BY <1>2 DEF ReceiveFollowup
  <2> DEFINE r == [Overlay(rows[Target(s, named)], e) EXCEPT !.scope = s]
  <2>4. CASE UNCHANGED <<pc, local>>
    <3>1. TypeOK' BY <1>0, <2>2, <2>3, <2>4 DEF TypeOK, local
    <3>2. Fit(p)' /\ OthersWait(p)
      BY <2>3, <2>4 DEF Structure, Fit, Busy, Located, Promotable, OthersWait, local
    <3> QED BY <1>0, <2>3, <3>1, <3>2, OthersFit
  <2>5. CASE Target(s, named) # 0 /\ Accept(p, k, s, r)
    <3>1. rows[Target(s, named)] \in Row
      BY <1>0, <2>5, TargetFinds DEF TypeOK
    <3>2. Overlay(rows[Target(s, named)], e) \in Row
      BY <3>1, EditAssumption DEF Overlay
    <3>3. r \in Row
      BY <3>2 DEF Row
    <3> HIDE DEF r
    <3>4. TypeOK'
      BY <1>0, <2>2, <2>3, <2>5, <3>3 DEF TypeOK, Accept, Phase, Message
    <3> QED BY <1>0, <2>3, <2>5, <3>3, <3>4, AcceptFits
  <2> QED BY <2>1, <2>4, <2>5
<1>3. ASSUME NEW p \in Process, ReceivePromotion(p)  PROVE Structure'
  <2>1. PICK s \in Scope, d \in Draft :
          /\ RowAt(d) # 0
          /\ LET r == rows[RowAt(d)] IN
             \/ r.cal /\ ClearActive(s, d) /\ UNCHANGED <<pc, local>>
             \/ ~r.cal /\ Accept(p, "promote", s, [r EXCEPT !.scope = s]) /\ UNCHANGED active
    BY <1>3 DEF ReceivePromotion
  <2>2. pc[p] = "idle" /\ p \in Promoter /\ UNCHANGED <<rows, made, auth, issued>>
    BY <1>3 DEF ReceivePromotion
  <2>3. RowAt(d) \in DOMAIN rows /\ rows[RowAt(d)] \in Row /\ rows[RowAt(d)].id = d
    BY <1>0, <2>1, RowAtFinds DEF TypeOK
  <2>4. CASE ClearActive(s, d) /\ UNCHANGED <<pc, local>>
    <3>1. TypeOK' BY <1>0, <2>2, <2>4 DEF TypeOK, local, ClearActive
    <3>2. Fit(p)' /\ OthersWait(p)
      BY <2>2, <2>4 DEF Structure, Fit, Busy, Located, Promotable, OthersWait, local
    <3> QED BY <1>0, <2>2, <3>1, <3>2, OthersFit
  <2> DEFINE r == [rows[RowAt(d)] EXCEPT !.scope = s]
  <2>5. CASE Accept(p, "promote", s, r) /\ UNCHANGED active
    <3>1. r \in Row /\ r.id = d
      BY <2>3 DEF Row
    <3> HIDE DEF r
    <3>2. TypeOK'
      BY <1>0, <2>2, <2>5, <3>1 DEF TypeOK, Accept, Phase, Message
    <3> QED BY <1>0, <2>2, <2>3, <2>5, <3>1, <3>2, AcceptFits
  <2> QED BY <2>1, <2>4, <2>5
<1>4. ASSUME NEW p \in Process, FindRow(p)  PROVE Structure'
  <2> DEFINE i == RowAt(held[p].id)
             r(c) == [held[p] EXCEPT !.cal = i # 0 /\ rows[i].cal, !.complete = c]
  <2>1. i \in DOMAIN rows \cup {0} /\ i \in Nat /\ (i # 0 => rows[i] \in Row /\ rows[i].id = held[p].id)
    BY <1>0, RowAtFinds DEF TypeOK
  <2>2. PICK c : /\ c \in {held[p].complete} \cup {rows[j].complete : j \in {i} \ {0}}
                 /\ Found(p, "write", r(c), i)
    BY <1>4 DEF FindRow
  <2>3. pc[p] = "find" /\ held[p] \in Row /\ UNCHANGED shared
    BY <1>4 DEF FindRow, Structure, Fit, Busy
  <2> HIDE DEF i
  <2>4. c \in BOOLEAN /\ (i # 0 /\ rows[i].cal) \in BOOLEAN
    BY <2>1, <2>2, <2>3 DEF Row
  <2>5. r(c) \in Row /\ r(c).id = held[p].id
    BY <2>3, <2>4 DEF Row
  <2> HIDE DEF r
  <2>6. TypeOK'
    BY <1>0, <2>1, <2>2, <2>3, <2>5 DEF TypeOK, Found, Phase, shared
  <2> QED BY <1>0, <2>1, <2>2, <2>3, <2>5, <2>6, FoundFits DEF shared
<1>5. ASSUME NEW p \in Process, WriteRow(p)  PROVE Structure'
  <2>1. pc[p] = "write" /\ held[p] \in Row /\ msg[p] \in Message /\ Fit(p)
    BY <1>5 DEF WriteRow, Structure, Fit, Busy
  <2>2. rows' \in Seq(Row) /\ Kept
    <3>1. CASE rows' = Append(rows, held[p])
      BY <1>0, <2>1, <3>1 DEF TypeOK, Kept
    <3>2. CASE at[p] # 0 /\ rows' = [rows EXCEPT ![at[p]] = held[p]]
      BY <1>0, <2>1, <3>2 DEF TypeOK, Kept, Fit, Located
    <3> QED BY <1>5, <3>1, <3>2 DEF WriteRow
  <2>3. UNCHANGED <<made, auth, issued, active>>
    BY <1>5 DEF WriteRow
  <2>4. CASE Return(p)
    <3>1. TypeOK' BY <1>0, <2>2, <2>3, <2>4 DEF TypeOK, Return, Phase
    <3> QED BY <2>2, <2>4, <3>1, ReturnFits
  <2>5. CASE msg[p].kind = "promote" /\ Goto(p, "gate")
    <3>1. TypeOK' BY <1>0, <2>2, <2>3, <2>5 DEF TypeOK, Goto, Phase, local
    <3> QED BY <2>1, <2>2, <2>5, <3>1, GotoFits DEF Phase
  <2>6. CASE Goto(p, "settle")
    <3>1. TypeOK' BY <1>0, <2>2, <2>3, <2>6 DEF TypeOK, Goto, Phase, local
    <3> QED BY <2>1, <2>2, <2>6, <3>1, GotoFits DEF Phase, Promotion
  <2> QED BY <1>5, <2>4, <2>5, <2>6 DEF WriteRow, AfterWrite
<1>6. ASSUME NEW p \in Process, Settle(p)  PROVE Structure'
  <2>1. held[p] \in Row /\ Return(p) /\ UNCHANGED <<rows, made, auth, issued>>
    BY <1>6 DEF Settle, SetActive, Structure, Fit, Busy
  <2>2. active' \in [Scope -> Draft \cup {None}]
    BY <1>0, <1>6, <2>1 DEF Settle, SetActive, ClearActive, Row, TypeOK
  <2>3. TypeOK' BY <1>0, <2>1, <2>2 DEF TypeOK, Return, Phase
  <2> QED BY <1>0, <2>1, <2>3, ReturnFits
<1>7. ASSUME NEW p \in Process, Gate(p) \/ Validate(p)  PROVE Structure'
  <2>1. /\ pc[p] \in {"gate", "validate"} /\ UNCHANGED shared
        /\ Goto(p, "validate") \/ Goto(p, "consume") \/ Return(p)
    BY <1>7 DEF Gate, Validate, Authorized
  <2>3. CASE Return(p)
    <3>1. TypeOK' BY <1>0, <2>1, <2>3 DEF TypeOK, Return, Phase, shared
    <3> QED BY <1>0, <2>1, <2>3, <3>1, ReturnFits DEF shared
  <2>4. ASSUME NEW l \in {"validate", "consume"}, Goto(p, l)  PROVE Structure'
    <3>1. TypeOK' BY <1>0, <2>1, <2>4 DEF TypeOK, Goto, Phase, shared, local
    <3> QED BY <1>0, <2>1, <2>4, <3>1, GotoFits DEF Phase, Promotion, shared
  <2> QED BY <2>1, <2>3, <2>4
<1>8. ASSUME NEW p \in Process, Consume(p)  PROVE Structure'
  <2>1. /\ pc[p] = "consume" /\ Goto(p, "reread") /\ auth' = None
        /\ UNCHANGED <<rows, made, issued, active>>
    BY <1>8 DEF Consume
  <2>2. TypeOK' BY <1>0, <2>1 DEF TypeOK, Goto, Phase, local
  <2> QED BY <1>0, <2>1, <2>2, GotoFits DEF Phase, Promotion
<1>9. ASSUME NEW p \in Process, FindDraft(p)  PROVE Structure'
  <2> DEFINE i == RowAt(held[p].id)
  <2>1. pc[p] = "reread" /\ UNCHANGED shared
    BY <1>9 DEF FindDraft
  <2>2. \E j \in DOMAIN rows : rows[j].id = held[p].id
    BY <2>1 DEF Structure, Fit, Promotable, Promotion
  <2>3. i \in DOMAIN rows /\ i \in Nat /\ i # 0 /\ rows[i].id = held[p].id
    BY <1>0, <2>2, RowAtFinds DEF TypeOK
  <2>4. (\E l \in {"finish", "insert"} : Found(p, l, rows[i], i)) \/ Return(p)
    BY <1>9 DEF FindDraft
  <2> HIDE DEF i
  <2>5. rows[i] \in Row
    BY <1>0, <2>3 DEF TypeOK
  <2>6. CASE Return(p)
    <3>1. TypeOK' BY <1>0, <2>1, <2>6 DEF TypeOK, Return, Phase, shared
    <3> QED BY <1>0, <2>1, <2>6, <3>1, ReturnFits DEF shared
  <2>7. ASSUME NEW l \in {"finish", "insert"}, Found(p, l, rows[i], i)  PROVE Structure'
    <3>1. TypeOK' BY <1>0, <2>1, <2>3, <2>5, <2>7 DEF TypeOK, Found, Phase, shared
    <3> QED BY <1>0, <2>1, <2>3, <2>5, <2>7, <3>1, FoundFits DEF shared, Promotion
  <2> QED BY <2>4, <2>6, <2>7
<1>10. ASSUME NEW p \in Process, InsertEvent(p)  PROVE Structure'
  <2>1. pc[p] = "insert" /\ Goto(p, "record") /\ UNCHANGED <<rows, auth, issued, active>>
    BY <1>10 DEF InsertEvent
  <2>2. made' \in [Draft \X Scope -> Nat]
    <3>1. made \in [Draft \X Scope -> Nat] BY <1>0 DEF TypeOK
    <3> DEFINE g == <<held[p].id, msg[p].scope>>
    <3>2. made' = [made EXCEPT ![g] = @ + 1] BY <1>10 DEF InsertEvent
    <3> HIDE DEF g
    <3>3. \A n \in Nat : n + 1 \in Nat  OBVIOUS
    <3> QED BY <3>1, <3>2, <3>3
  <2>3. TypeOK' BY <1>0, <2>1, <2>2 DEF TypeOK, Goto, Phase, local
  <2> QED BY <1>0, <2>1, <2>3, GotoFits DEF Phase, Promotion
<1>11. ASSUME NEW p \in Process, RecordEvent(p)  PROVE Structure'
  <2> DEFINE r == [held[p] EXCEPT !.cal = TRUE, !.approval = "created", !.status = "confirmed"]
  <2>1. /\ pc[p] = "record" /\ Goto(p, "finish") /\ UNCHANGED <<made, auth, issued, active>>
        /\ rows' = [rows EXCEPT ![at[p]] = r]
    BY <1>11 DEF RecordEvent
  <2>2. held[p] \in Row /\ at[p] \in DOMAIN rows /\ rows[at[p]].id = held[p].id
    BY <2>1 DEF Structure, Fit, Busy, Located
  <2>3. r \in Row /\ r.id = held[p].id
    BY <2>2 DEF Row, Approval, Status
  <2> HIDE DEF r
  <2>4. rows' \in Seq(Row) /\ Kept
    BY <1>0, <2>1, <2>2, <2>3 DEF TypeOK, Kept
  <2>5. TypeOK' BY <1>0, <2>1, <2>4 DEF TypeOK, Goto, Phase, local
  <2> QED BY <2>1, <2>4, <2>5, GotoFits DEF Phase, Promotion
<1>12. ASSUME NEW p \in Process, Finish(p)  PROVE Structure'
  <2>1. Return(p) /\ UNCHANGED <<rows, made, auth, issued>>
    BY <1>12 DEF Finish
  <2>2. active' \in [Scope -> Draft \cup {None}]
    BY <1>0, <1>12 DEF Finish, ClearActive, TypeOK
  <2>3. TypeOK' BY <1>0, <2>1, <2>2 DEF TypeOK, Return, Phase
  <2> QED BY <1>0, <2>1, <2>3, ReturnFits
<1>13. CASE Authorize
  BY <1>13 DEF Authorize, Grant, Structure, TypeOK, Fit, Busy, Located, Promotable, local
<1>14. CASE Expire
  BY <1>14, NoneAssumption
  DEF Expire, Grant, Structure, TypeOK, Fit, Busy, Located, Promotable, local
<1>15. ASSUME NEW p \in Process, Abort(p)  PROVE Structure'
  <2>1. Return(p) /\ UNCHANGED shared
    BY <1>15 DEF Abort
  <2>2. TypeOK' BY <1>0, <2>1 DEF TypeOK, Return, Phase, shared
  <2> QED BY <1>0, <2>1, <2>2, ReturnFits DEF shared
<1>16. CASE UNCHANGED vars
  BY <1>16 DEF vars, Structure, TypeOK, Fit, Busy, Located, Promotable
<1> QED
  BY <1>1, <1>2, <1>3, <1>4, <1>5, <1>6, <1>7, <1>8, <1>9, <1>10, <1>11, <1>12, <1>13,
     <1>14, <1>15, <1>16 DEF Next, Step

\* Every variable keeps its type, whatever messages arrive and whatever calls
\* fail: no process ever overwrites or promotes a row that is not there.
THEOREM TypeInvariant == Spec => []TypeOK
<1>1. Structure => TypeOK
  BY DEF Structure
<1> QED
  BY <1>1, StructureInit, StructureStep, PTL DEF Spec

-----------------------------------------------------------------------------
(* One insertion per authorization.                                        *)

\* Only promoters get as far as the authorization.
LEMMA PromotersPromote ==
  ASSUME Structure, NEW p \in Process, pc[p] \in Promotion
  PROVE  p \in Promoter
  BY DEF Structure, Fit, Promotable, Promotion

\* Nothing new is granted, owed or validated.
LEMMA NothingDue ==
  ASSUME TypeOK, TypeOK', Budget, UNCHANGED <<made, issued>>,
         \A g \in Draft \X Scope :
           (Granted(g)' => Granted(g)) /\ (Owed(g)' => Owed(g)) /\ (Validated(g)' => Validated(g))
  PROVE  Budget'
<1>1. ASSUME NEW g \in Draft \X Scope
      PROVE (made[g] + Due(g) <= issued[g])' /\ (Validated(g) => made[g] + 1 <= issued[g])'
  <2>1. made[g] \in Nat /\ issued[g] \in Nat /\ made'[g] = made[g] /\ issued'[g] = issued[g]
    BY DEF TypeOK
  <2>2. (Granted(g)' => Granted(g)) /\ (Owed(g)' => Owed(g)) /\ (Validated(g)' => Validated(g))
    OBVIOUS
  <2>3. Due(g) \in Nat /\ Due(g)' \in Nat /\ Due(g)' <= Due(g)
    BY <2>2 DEF Due
  <2>4. made[g] + Due(g) <= issued[g] /\ (Validated(g) => made[g] + 1 <= issued[g])
    BY DEF Budget
  <2> QED BY <2>1, <2>2, <2>3, <2>4
<1> QED BY <1>1 DEF Budget

\* p is not about to consume an authorization or to insert.
LEMMA ElsewhereNothingDue ==
  ASSUME TypeOK, TypeOK', Budget, NEW p \in Process, OthersWait(p),
         pc'[p] \notin {"consume", "reread", "insert"}, UNCHANGED <<made, issued, auth>>
  PROVE  Budget'
<1>1. ASSUME NEW g, Owed(g)'  PROVE Owed(g)
  BY <1>1 DEF Owed, Grantee, OthersWait
<1>2. ASSUME NEW g, Validated(g)'  PROVE Validated(g)
  BY <1>2 DEF Validated, Grantee, OthersWait
<1>3. ASSUME NEW g, Granted(g)'  PROVE Granted(g)
  BY <1>3 DEF Granted
<1> QED BY <1>1, <1>2, <1>3, NothingDue

\* The one promoter consumes an authorization before it inserts, and inserts
\* once; an authorization for the same draft and chat that arrives between its
\* validation and its consumption is lost with it.
LEMMA BudgetStep ==
  ASSUME \A p, q \in Promoter : p = q, Structure, Budget, [Next]_vars
  PROVE  Budget'
<1>1. Structure' /\ TypeOK /\ TypeOK'
  BY StructureStep DEF Structure
<1>2. ASSUME NEW p \in Process, NEW q \in Process, pc[p] \in Promotion, pc[q] \in Promotion
      PROVE p = q
  BY <1>2, PromotersPromote
<1>3. ASSUME NEW p \in Process, NEW q \in Process, pc'[p] \in Promotion, pc'[q] \in Promotion
      PROVE p = q
  BY <1>1, <1>3, PromotersPromote DEF Structure, Fit, Promotable, Promotion
<1>4. ASSUME NEW p \in Process, ReceiveIntake(p) \/ ReceiveFollowup(p) \/ ReceivePromotion(p)
      PROVE Budget'
  <2>1. pc[p] = "idle" /\ UNCHANGED <<made, issued, auth>>
    BY <1>4 DEF ReceiveIntake, ReceiveFollowup, ReceivePromotion, shared
  <2>2. CASE pc'[p] = "find" /\ OthersWait(p)
    BY <1>1, <2>1, <2>2, ElsewhereNothingDue
  <2>3. CASE UNCHANGED <<pc, local>>
    BY <1>1, <2>1, <2>3, NothingDue DEF Granted, Owed, Validated, Grantee, local
  <2>4. ASSUME NEW k, NEW s, NEW r, Accept(p, k, s, r)  PROVE pc'[p] = "find" /\ OthersWait(p)
    BY <1>1, <2>4 DEF Accept, OthersWait, TypeOK
  <2> QED BY <1>4, <2>2, <2>3, <2>4 DEF ReceiveIntake, ReceiveFollowup, ReceivePromotion
<1>5. ASSUME NEW p \in Process,
             FindRow(p) \/ WriteRow(p) \/ Settle(p) \/ Gate(p) \/ RecordEvent(p) \/ Finish(p) \/ Abort(p)
      PROVE Budget'
  <2>1. UNCHANGED <<made, issued, auth>>
    BY <1>5 DEF FindRow, WriteRow, Settle, SetActive, Gate, RecordEvent, Finish, Abort, shared
  <2>2. pc'[p] \in {"write", "gate", "settle", "validate", "finish", "idle"} /\ OthersWait(p)
    <3>1. ASSUME NEW l, Goto(p, l)  PROVE pc'[p] = l /\ OthersWait(p)
      BY <1>1, <3>1 DEF Goto, OthersWait, TypeOK, local
    <3>2. ASSUME Return(p)  PROVE pc'[p] = "idle" /\ OthersWait(p)
      BY <1>1, <3>2 DEF Return, OthersWait, TypeOK
    <3>3. ASSUME NEW r, NEW i, Found(p, "write", r, i)  PROVE pc'[p] = "write" /\ OthersWait(p)
      BY <1>1, <3>3 DEF Found, OthersWait, TypeOK
    <3>4. CASE FindRow(p) BY <3>3, <3>4 DEF FindRow
    <3>5. CASE WriteRow(p) BY <3>1, <3>2, <3>5 DEF WriteRow, AfterWrite
    <3>6. CASE Settle(p) BY <3>2, <3>6 DEF Settle, SetActive
    <3>7. CASE Gate(p) BY <3>1, <3>2, <3>7 DEF Gate
    <3>8. CASE RecordEvent(p) BY <3>1, <3>8 DEF RecordEvent
    <3>9. CASE Finish(p) BY <3>2, <3>9 DEF Finish
    <3>10. CASE Abort(p) BY <3>2, <3>10 DEF Abort
    <3> QED BY <1>5, <3>4, <3>5, <3>6, <3>7, <3>8, <3>9, <3>10
  <2> QED BY <1>1, <2>1, <2>2, ElsewhereNothingDue
<1>6. ASSUME NEW p \in Process, Validate(p)  PROVE Budget'
  <2>1. pc[p] = "validate" /\ UNCHANGED shared
    BY <1>6 DEF Validate, Authorized
  <2>2. CASE Return(p)
    <3>1. pc'[p] = "idle" /\ OthersWait(p)
      BY <1>1, <2>2 DEF Return, OthersWait, TypeOK
    <3> QED BY <1>1, <2>1, <3>1, ElsewhereNothingDue DEF shared
  <2>3. CASE Goto(p, "consume") /\ Granted(Grantee(p))
    <3>1. pc'[p] = "consume" /\ OthersWait(p) /\ UNCHANGED local
      BY <1>1, <2>3 DEF Goto, OthersWait, TypeOK, local
    <3>2. ASSUME NEW g \in Draft \X Scope
          PROVE (made[g] + Due(g) <= issued[g])' /\ (Validated(g) => made[g] + 1 <= issued[g])'
      <4>1. made[g] \in Nat /\ issued[g] \in Nat /\ made'[g] = made[g] /\ issued'[g] = issued[g]
        BY <1>1, <2>1 DEF TypeOK, shared
      <4>2. (Granted(g)' <=> Granted(g)) /\ (Owed(g)' => Owed(g))
        BY <2>1, <3>1 DEF Granted, Owed, Grantee, OthersWait, shared
      <4>3. Validated(g)' => Granted(g)
        BY <1>3, <2>3, <3>1 DEF Validated, Grantee, Promotion, local
      <4>4. Due(g) \in Nat /\ Due(g)' \in Nat /\ Due(g)' <= Due(g) /\ (Granted(g) => 1 <= Due(g))
        BY <4>2 DEF Due
      <4>5. made[g] + Due(g) <= issued[g]
        BY DEF Budget
      <4> QED BY <4>1, <4>3, <4>4, <4>5
    <3> QED BY <3>2 DEF Budget
  <2> QED BY <1>6, <2>2, <2>3 DEF Validate, Authorized, Granted, Grantee
<1>7. ASSUME NEW p \in Process, Consume(p)  PROVE Budget'
  <2>1. pc[p] = "consume" /\ Goto(p, "reread") /\ auth' = None /\ UNCHANGED <<made, issued>>
    BY <1>7 DEF Consume
  <2>2. pc'[p] = "reread" /\ OthersWait(p) /\ UNCHANGED local
    BY <1>1, <2>1 DEF Goto, OthersWait, TypeOK, local
  <2>3. ASSUME NEW g \in Draft \X Scope
        PROVE (made[g] + Due(g) <= issued[g])' /\ (Validated(g) => made[g] + 1 <= issued[g])'
    <3>1. made[g] \in Nat /\ issued[g] \in Nat /\ made'[g] = made[g] /\ issued'[g] = issued[g]
      BY <1>1, <2>1 DEF TypeOK
    <3>2. ~ Granted(g)' /\ ~ Validated(g)'
      <4>1. ~ Granted(g)' BY <2>1 DEF Granted
      <4>2. ~ Validated(g)'
        BY <1>3, <2>2 DEF Validated, Promotion
      <4> QED BY <4>1, <4>2
    <3>3. Owed(g)' => Validated(g)
      BY <1>3, <2>1, <2>2 DEF Owed, Validated, Grantee, Promotion, local
    <3>4. (Due(g)' = 1 /\ Validated(g)) \/ Due(g)' = 0
      BY <3>2, <3>3 DEF Due
    <3>5. Due(g) \in Nat BY DEF Due
    <3>6. made[g] + Due(g) <= issued[g] /\ (Validated(g) => made[g] + 1 <= issued[g])
      BY DEF Budget
    <3> QED BY <3>1, <3>2, <3>4, <3>5, <3>6
  <2> QED BY <2>3 DEF Budget
<1>8. ASSUME NEW p \in Process, FindDraft(p)  PROVE Budget'
  <2>1. pc[p] = "reread" /\ UNCHANGED <<made, issued, auth>>
    BY <1>8 DEF FindDraft, shared
  <2>2. CASE Return(p)
    <3>1. pc'[p] = "idle" /\ OthersWait(p)
      BY <1>1, <2>2 DEF Return, OthersWait, TypeOK
    <3> QED BY <1>1, <2>1, <3>1, ElsewhereNothingDue
  <2> DEFINE i == RowAt(held[p].id)
  <2>3. CASE \E l \in {"insert", "finish"} : Found(p, l, rows[i], i)
    <3>1. /\ pc'[p] \in {"insert", "finish"} /\ OthersWait(p)
          /\ held'[p] = rows[i] /\ msg'[p] = msg[p]
      BY <1>1, <2>3 DEF Found, OthersWait, TypeOK
    <3>2. \E j \in DOMAIN rows : rows[j].id = held[p].id
      BY <2>1 DEF Structure, Fit, Promotable, Promotion
    <3>3. rows[i].id = held[p].id
      BY <1>1, <3>2, RowAtFinds DEF TypeOK
    <3>4. Grantee(p)' = Grantee(p)
      BY <3>1, <3>3 DEF Grantee
    <3>5. ASSUME NEW g, Owed(g)'  PROVE Owed(g)
      BY <2>1, <3>1, <3>4, <3>5 DEF Owed, Grantee, OthersWait
    <3>6. ASSUME NEW g, Validated(g)'  PROVE Validated(g)
      BY <3>1, <3>6 DEF Validated, Grantee, OthersWait
    <3>7. ASSUME NEW g, Granted(g)'  PROVE Granted(g)
      BY <2>1, <3>7 DEF Granted
    <3> QED BY <1>1, <2>1, <3>5, <3>6, <3>7, NothingDue
  <2> QED BY <1>8, <2>2, <2>3 DEF FindDraft
<1>9. ASSUME NEW p \in Process, InsertEvent(p)  PROVE Budget'
  <2>1. /\ pc[p] = "insert" /\ Goto(p, "record") /\ UNCHANGED <<auth, issued>>
        /\ made' = [made EXCEPT ![Grantee(p)] = @ + 1]
    BY <1>9 DEF InsertEvent, Grantee
  <2>2. pc'[p] = "record" /\ OthersWait(p)
    BY <1>1, <2>1 DEF Goto, OthersWait, TypeOK, local
  <2>3. ASSUME NEW g \in Draft \X Scope
        PROVE (made[g] + Due(g) <= issued[g])' /\ (Validated(g) => made[g] + 1 <= issued[g])'
    <3>1. made[g] \in Nat /\ issued[g] \in Nat /\ issued'[g] = issued[g]
      BY <1>1, <2>1 DEF TypeOK
    <3>2. made'[g] = IF g = Grantee(p) THEN made[g] + 1 ELSE made[g]
      <4> HIDE DEF Grantee
      <4>1. made \in [Draft \X Scope -> Nat] BY <1>1 DEF TypeOK
      <4> QED BY <2>1, <4>1
    <3>3. ~ Owed(g)' /\ ~ Validated(g)' /\ (Granted(g)' <=> Granted(g))
      <4>1. ~ Owed(g)' BY <1>3, <2>2 DEF Owed, Promotion
      <4>2. ~ Validated(g)' BY <1>3, <2>2 DEF Validated, Promotion
      <4>3. Granted(g)' <=> Granted(g) BY <2>1 DEF Granted
      <4> QED BY <4>1, <4>2, <4>3
    <3>4. g = Grantee(p) => Owed(g)
      BY <2>1 DEF Owed
    <3>5. Due(g) \in Nat /\ Due(g)' \in Nat /\ Due(g)' <= Due(g) /\ (Owed(g) => Due(g)' + 1 <= Due(g))
      BY <3>3 DEF Due
    <3>6. made[g] + Due(g) <= issued[g]
      BY DEF Budget
    <3> QED BY <3>1, <3>2, <3>3, <3>4, <3>5, <3>6
  <2> QED BY <2>3 DEF Budget
<1>10. CASE Authorize
  <2>1. PICK d \in Draft, s \in Scope :
          /\ auth' = [id |-> d, scope |-> s, live |-> TRUE]
          /\ issued' = [issued EXCEPT ![<<d, s>>] = @ + 1]
    BY <1>10 DEF Authorize
  <2>2. UNCHANGED <<made, pc, local>>
    BY <1>10 DEF Authorize
  <2>3. ASSUME NEW g \in Draft \X Scope
        PROVE (made[g] + Due(g) <= issued[g])' /\ (Validated(g) => made[g] + 1 <= issued[g])'
    <3>1. made[g] \in Nat /\ issued[g] \in Nat /\ made'[g] = made[g]
      BY <1>1, <2>2 DEF TypeOK
    <3>2. issued'[g] = IF g = <<d, s>> THEN issued[g] + 1 ELSE issued[g]
      BY <1>1, <2>1 DEF TypeOK
    <3>3. (Owed(g)' <=> Owed(g)) /\ (Validated(g)' <=> Validated(g))
      BY <2>2 DEF Owed, Validated, Grantee, local
    <3>4. Granted(g)' => g = <<d, s>>
      BY <2>1 DEF Granted
    <3>5. Due(g) \in Nat /\ Due(g)' \in Nat /\ Due(g)' <= Due(g) + 1
          /\ (~ Granted(g)' => Due(g)' <= Due(g))
      BY <3>3 DEF Due
    <3>6. made[g] + Due(g) <= issued[g] /\ (Validated(g) => made[g] + 1 <= issued[g])
      BY DEF Budget
    <3> QED BY <3>1, <3>2, <3>3, <3>4, <3>5, <3>6
  <2> QED BY <2>3 DEF Budget
<1>11. CASE Expire
  <2>1. ASSUME NEW g, Granted(g)'  PROVE Granted(g)
    BY <1>1, <1>11, <2>1 DEF Expire, Granted, TypeOK, Grant
  <2>2. ASSUME NEW g, Owed(g)' \/ Validated(g)'  PROVE (Owed(g)' => Owed(g)) /\ (Validated(g)' => Validated(g))
    BY <1>11 DEF Expire, Owed, Validated, Grantee, local
  <2>3. UNCHANGED <<made, issued>>
    BY <1>11 DEF Expire
  <2> QED BY <1>1, <2>1, <2>2, <2>3, NothingDue
<1>12. CASE UNCHANGED vars
  BY <1>1, <1>12, NothingDue DEF vars, Granted, Owed, Validated, Grantee
<1> QED
  BY <1>4, <1>5, <1>6, <1>7, <1>8, <1>9, <1>10, <1>11, <1>12 DEF Next, Step

\* The documented promise of a one-shot authorization: where one process
\* receives promotion messages, no draft ever gets more Calendar events from a
\* chat than authorizations were written for that draft and that chat,
\* whatever the other processes do and whatever fails.
THEOREM OneShot ==
  ASSUME \A p, q \in Promoter : p = q
  PROVE  Spec => []OneInsertPerAuthorization
<1>1. Init => Budget
  <2>1. ASSUME Init  PROVE Budget
    <3>1. ASSUME NEW g \in Draft \X Scope
          PROVE made[g] + Due(g) <= issued[g] /\ (Validated(g) => made[g] + 1 <= issued[g])
      <4>1. made[g] = 0 /\ issued[g] = 0
        BY <2>1 DEF Init
      <4>2. ~ Owed(g) /\ ~ Validated(g) /\ ~ Granted(g)
        BY <2>1 DEF Init, Owed, Validated, Granted
      <4> QED BY <4>1, <4>2 DEF Due
    <3> QED BY <3>1 DEF Budget
  <2> QED BY <2>1
<1>2. Structure /\ Budget => OneInsertPerAuthorization
  <2>1. ASSUME Structure, Budget, NEW g \in Draft \X Scope  PROVE made[g] <= issued[g]
    <3>1. made[g] \in Nat /\ issued[g] \in Nat /\ Due(g) \in Nat
      BY <2>1 DEF Structure, TypeOK, Due
    <3> QED BY <2>1, <3>1 DEF Budget
  <2> QED BY <2>1 DEF OneInsertPerAuthorization
<1> QED
  BY <1>1, <1>2, StructureInit, StructureStep, BudgetStep, PTL DEF Spec

-----------------------------------------------------------------------------
(* One message after the other.                                            *)

\* The gates of the router let this row through.
Passed(r) == r.private /\ r.complete /\ r.approval = "approved" /\ r.status = "ready"

\* What p has read is what the tab still holds: that there is no row with the
\* ID it is about to append; the CalendarEventID of the row it is about to
\* overwrite; that the row it promotes has passed the gates, and has no event
\* when the event is inserted.
Fresh(p) ==
  /\ pc[p] = "write" /\ at[p] = 0 => \A i \in DOMAIN rows : rows[i].id # held[p].id
  /\ pc[p] = "write" /\ at[p] # 0 => (rows[at[p]].cal => held[p].cal)
  /\ pc[p] \in {"validate", "consume", "reread"} =>
       \E i \in DOMAIN rows : rows[i].id = held[p].id /\ Passed(rows[i])
  /\ pc[p] = "insert" => Passed(rows[at[p]]) /\ ~ rows[at[p]].cal

Serial == OneRowPerDraft /\ \A p \in Process : Fresh(p)

\* A draft that has an event has exactly one, and its row says so, from the
\* step after the insertion on.
Recorded(d) ==
  \/ \E i \in DOMAIN rows : rows[i].id = d /\ rows[i].cal
  \/ \E p \in Process : pc[p] = "record" /\ held[p].id = d
AllRecorded == \A d \in Draft, s \in Scope : made[<<d, s>>] # 0 => Recorded(d)

\* Where a step of p leaves p.
LEMMA Moves ==
  ASSUME TypeOK, NEW p \in Process
  PROVE  /\ \A l : Goto(p, l) => pc'[p] = l /\ UNCHANGED local
         /\ Return(p) => pc'[p] = "idle"
         /\ \A l, r, i : Found(p, l, r, i) => pc'[p] = l /\ held'[p] = r /\ at'[p] = i
         /\ \A k, s, r : Accept(p, k, s, r) => pc'[p] = "find"
BY DEF TypeOK, Goto, Return, Found, Accept, local

\* Where the tab and p are as before, or p has nothing fresh to remember.
LEMMA StaysSerial ==
  ASSUME \A p, q \in Process : p = q, Serial, NEW p \in Process, UNCHANGED rows,
         \/ UNCHANGED <<pc, local>>
         \/ pc'[p] \notin {"write", "validate", "consume", "reread", "insert"}
  PROVE  Serial'
<1>1. OneRowPerDraft'  BY DEF Serial, OneRowPerDraft
<1>2. Fresh(p)'  BY DEF Serial, Fresh, local
<1> QED  BY <1>1, <1>2 DEF Serial

\* A write keeps one row per draft, and every CalendarEventID: the row is
\* still the one that FindRow found, or there is still none.
LEMMA WriteSerial ==
  ASSUME Structure, Serial, NEW p \in Process, WriteRow(p)
  PROVE  OneRowPerDraft' /\ \A i \in DOMAIN rows : rows[i].cal => rows'[i].cal
<1>1. /\ pc[p] = "write" /\ held[p] \in Row /\ rows \in Seq(Row) /\ Fresh(p)
      /\ at[p] # 0 => at[p] \in DOMAIN rows /\ rows[at[p]].id = held[p].id
  BY DEF WriteRow, Structure, TypeOK, Fit, Busy, Located, Serial
<1>2. CASE at[p] = 0 /\ rows' = Append(rows, held[p])
  <2>1. \A i \in DOMAIN rows : rows[i].id # held[p].id
    BY <1>1, <1>2 DEF Fresh
  <2>2. /\ DOMAIN rows = 1 .. Len(rows) /\ DOMAIN rows' = 1 .. Len(rows) + 1
        /\ \A i \in DOMAIN rows : rows'[i] = rows[i]
        /\ rows'[Len(rows) + 1] = held[p] /\ Len(rows) \in Nat
    BY <1>1, <1>2
  <2>3. \A i \in DOMAIN rows' : i \in DOMAIN rows \/ i = Len(rows) + 1
    BY <2>2
  <2> QED BY <2>1, <2>2, <2>3 DEF Serial, OneRowPerDraft
<1>3. CASE at[p] # 0 /\ rows' = [rows EXCEPT ![at[p]] = held[p]]
  <2>1. rows[at[p]].cal => held[p].cal
    BY <1>1, <1>3 DEF Fresh
  <2>2. DOMAIN rows' = DOMAIN rows /\ \A i \in DOMAIN rows : rows'[i].id = rows[i].id
    BY <1>1, <1>3
  <2>3. \A i \in DOMAIN rows : rows[i].cal => rows'[i].cal
    BY <1>1, <1>3, <2>1
  <2> QED BY <2>2, <2>3 DEF Serial, OneRowPerDraft
<1> QED BY <1>2, <1>3 DEF WriteRow

\* The row of the insertion is overwritten by a row with an event.
LEMMA RecordSerial ==
  ASSUME Structure, Serial, NEW p \in Process, RecordEvent(p)
  PROVE  /\ OneRowPerDraft' /\ \A i \in DOMAIN rows : rows[i].cal => rows'[i].cal
         /\ DOMAIN rows' = DOMAIN rows /\ at[p] \in DOMAIN rows
         /\ rows'[at[p]].id = held[p].id /\ rows'[at[p]].cal
<1> DEFINE r == [held[p] EXCEPT !.cal = TRUE, !.approval = "created", !.status = "confirmed"]
<1>1. /\ pc[p] = "record" /\ held[p] \in Row /\ rows \in Seq(Row)
      /\ at[p] \in DOMAIN rows /\ rows[at[p]].id = held[p].id
      /\ rows' = [rows EXCEPT ![at[p]] = r]
  BY DEF RecordEvent, Structure, TypeOK, Fit, Busy, Located
<1>2. r.id = held[p].id /\ r.cal
  BY <1>1 DEF Row
<1> HIDE DEF r
<1>3. /\ DOMAIN rows' = DOMAIN rows /\ rows'[at[p]] = r
      /\ \A i \in DOMAIN rows : i # at[p] => rows'[i] = rows[i]
  BY <1>1
<1>4. \A i \in DOMAIN rows : rows'[i].id = rows[i].id
  BY <1>1, <1>2, <1>3
<1>5. \A i \in DOMAIN rows : rows[i].cal => rows'[i].cal
  BY <1>2, <1>3
<1> QED BY <1>1, <1>2, <1>3, <1>4, <1>5 DEF Serial, OneRowPerDraft

\* Nobody else writes between a reading and the write or the insertion that
\* relies on it.
LEMMA SerialStep ==
  ASSUME \A p, q \in Process : p = q, Structure, Serial, [Next]_vars
  PROVE  Serial'
<1>0. TypeOK
  BY DEF Structure
<1>1. ASSUME NEW p \in Process, ReceiveIntake(p) \/ ReceiveFollowup(p) \/ ReceivePromotion(p)
      PROVE Serial'
  <2>1. UNCHANGED rows /\ (UNCHANGED <<pc, local>> \/ pc'[p] = "find")
    BY <1>0, <1>1, Moves DEF ReceiveIntake, ReceiveFollowup, ReceivePromotion, shared
  <2> QED BY <2>1, StaysSerial
<1>2. ASSUME NEW p \in Process, FindRow(p)  PROVE Serial'
  <2> DEFINE i == RowAt(held[p].id)
             r(c) == [held[p] EXCEPT !.cal = i # 0 /\ rows[i].cal, !.complete = c]
  <2>1. PICK c : Found(p, "write", r(c), i)
    BY <1>2 DEF FindRow
  <2>2. UNCHANGED rows /\ held[p] \in Row
    BY <1>2 DEF FindRow, shared, Structure, Fit, Busy
  <2>3. r(c).id = held[p].id /\ (i # 0 /\ rows[i].cal => r(c).cal)
    BY <2>2 DEF Row
  <2>4. i = 0 => \A j \in DOMAIN rows : rows[j].id # held[p].id
    BY <1>0, RowAtFinds DEF TypeOK
  <2> HIDE DEF i, r
  <2>5. pc'[p] = "write" /\ held'[p] = r(c) /\ at'[p] = i
    BY <1>0, <2>1, Moves
  <2>6. Fresh(p)'
    BY <2>2, <2>3, <2>4, <2>5 DEF Fresh
  <2> QED BY <2>2, <2>6 DEF Serial, OneRowPerDraft
<1>3. ASSUME NEW p \in Process, WriteRow(p)  PROVE Serial'
  <2>1. pc'[p] \in {"idle", "gate", "settle"}
    BY <1>0, <1>3, Moves DEF WriteRow, AfterWrite
  <2>2. Fresh(p)'
    BY <2>1 DEF Fresh
  <2> QED BY <1>3, <2>2, WriteSerial DEF Serial
<1>4. ASSUME NEW p \in Process, Settle(p) \/ Finish(p) \/ Abort(p) \/ InsertEvent(p)  PROVE Serial'
  <2>1. UNCHANGED rows /\ pc'[p] \in {"idle", "record"}
    BY <1>0, <1>4, Moves DEF Settle, SetActive, Finish, Abort, InsertEvent, shared
  <2> QED BY <2>1, StaysSerial
<1>5. ASSUME NEW p \in Process, Gate(p)  PROVE Serial'
  <2>1. UNCHANGED rows /\ pc[p] = "gate"
    BY <1>5 DEF Gate, shared
  <2>2. CASE Return(p)
    BY <1>0, <2>1, <2>2, Moves, StaysSerial
  <2>3. CASE Passed(rows[RowAt(held[p].id)]) /\ Goto(p, "validate")
    <3>1. \E i \in DOMAIN rows : rows[i].id = held[p].id
      BY <2>1 DEF Structure, Fit, Promotable, Promotion
    <3>2. RowAt(held[p].id) \in DOMAIN rows /\ rows[RowAt(held[p].id)].id = held[p].id
      BY <1>0, <3>1, RowAtFinds DEF TypeOK
    <3>3. pc'[p] = "validate" /\ UNCHANGED local
      BY <1>0, <2>3, Moves
    <3>4. Fresh(p)'
      BY <2>1, <2>3, <3>2, <3>3 DEF Fresh, local
    <3> QED BY <2>1, <3>4 DEF Serial, OneRowPerDraft
  <2> QED BY <1>5, <2>2, <2>3 DEF Gate, Passed
<1>6. ASSUME NEW p \in Process, Validate(p) \/ Consume(p)  PROVE Serial'
  <2>1. /\ UNCHANGED rows /\ pc[p] \in {"validate", "consume"}
        /\ Return(p) \/ \E l \in {"consume", "reread"} : Goto(p, l)
    BY <1>6 DEF Validate, Authorized, Consume, shared
  <2>2. CASE Return(p)
    BY <1>0, <2>1, <2>2, Moves, StaysSerial
  <2>3. ASSUME NEW l \in {"consume", "reread"}, Goto(p, l)  PROVE Serial'
    <3>1. pc'[p] = l /\ UNCHANGED local
      BY <1>0, <2>3, Moves
    <3>2. Fresh(p)'
      BY <2>1, <3>1 DEF Serial, Fresh, local
    <3> QED BY <2>1, <3>2 DEF Serial, OneRowPerDraft
  <2> QED BY <2>1, <2>2, <2>3
<1>7. ASSUME NEW p \in Process, FindDraft(p)  PROVE Serial'
  <2> DEFINE i == RowAt(held[p].id)
  <2>1. UNCHANGED rows /\ pc[p] = "reread"
    BY <1>7 DEF FindDraft, shared
  <2>2. CASE Return(p) \/ Found(p, "finish", rows[i], i)
    BY <1>0, <2>1, <2>2, Moves, StaysSerial
  <2>3. CASE ~ rows[i].cal /\ Found(p, "insert", rows[i], i)
    <3>1. PICK j \in DOMAIN rows : rows[j].id = held[p].id /\ Passed(rows[j])
      BY <2>1 DEF Serial, Fresh
    <3>2. i \in DOMAIN rows /\ rows[i].id = held[p].id
      BY <1>0, <3>1, RowAtFinds DEF TypeOK
    <3>3. i = j
      BY <3>1, <3>2 DEF Serial, OneRowPerDraft
    <3> HIDE DEF i
    <3>4. pc'[p] = "insert" /\ at'[p] = i
      BY <1>0, <2>3, Moves
    <3>5. Fresh(p)'
      BY <2>1, <2>3, <3>1, <3>3, <3>4 DEF Fresh
    <3> QED BY <2>1, <3>5 DEF Serial, OneRowPerDraft
  <2> QED BY <1>7, <2>2, <2>3 DEF FindDraft
<1>8. ASSUME NEW p \in Process, RecordEvent(p)  PROVE Serial'
  <2>1. pc'[p] = "finish"
    BY <1>0, <1>8, Moves DEF RecordEvent
  <2>2. Fresh(p)'
    BY <2>1 DEF Fresh
  <2> QED BY <1>8, <2>2, RecordSerial DEF Serial
<1>9. CASE Authorize \/ Expire \/ UNCHANGED vars
  <2>1. UNCHANGED <<rows, pc, local>>
    BY <1>9 DEF Authorize, Expire, vars, local
  <2> QED BY <2>1 DEF Serial, OneRowPerDraft, Fresh, local
<1> QED
  BY <1>1, <1>2, <1>3, <1>4, <1>5, <1>6, <1>7, <1>8, <1>9 DEF Next, Step

LEMMA SerialInit == Init => Serial
BY DEF Init, Serial, OneRowPerDraft, Fresh

\* Only two steps write the tab.
LEMMA CalendarIdStep ==
  ASSUME Structure, Serial, [Next]_vars
  PROVE  \A i \in DOMAIN rows : rows[i].cal => rows'[i].cal
<1>1. CASE \E p \in Process : WriteRow(p)  BY <1>1, WriteSerial
<1>2. CASE \E p \in Process : RecordEvent(p)  BY <1>2, RecordSerial
<1>3. CASE UNCHANGED rows  BY <1>3
<1> QED
  BY <1>1, <1>2, <1>3 DEF Next, Step, vars, shared, Authorize, Expire, ReceiveIntake,
     ReceiveFollowup, ReceivePromotion, FindRow, Settle, SetActive, Gate,
     Validate, Authorized, Consume, FindDraft,
     InsertEvent, Finish, Abort

\* "Never creates a second row for the same EventDraftID" (upsert_event_draft),
\* where one process handles the messages one after the other: whatever is
\* named, found, edited or promoted, and wherever a call raises.
THEOREM SerialDraftsHaveOneRow ==
  ASSUME \A p, q \in Process : p = q
  PROVE  Spec => []OneRowPerDraft
<1>1. Serial => OneRowPerDraft
  BY DEF Serial
<1> QED
  BY <1>1, SerialInit, SerialStep, StructureInit, StructureStep, PTL DEF Spec

\* Where messages are handled one after the other, neither a draft update nor a
\* promotion erases a CalendarEventID, although every write of upsert_event_draft
\* overwrites the whole row.
THEOREM SerialCalendarIdsAreKept ==
  ASSUME \A p, q \in Process : p = q
  PROVE  Spec => CalendarIdKept
<1> DEFINE Kept2 == \A i \in DOMAIN rows : rows[i].cal => rows'[i].cal
<1>1. Structure /\ Serial /\ [Next]_vars => [Kept2]_vars
  BY CalendarIdStep
<1>2. CalendarIdKept <=> [][Kept2]_vars
  BY DEF CalendarIdKept
<1> HIDE DEF Kept2
<1> QED
  BY <1>1, <1>2, SerialInit, SerialStep, StructureInit, StructureStep, PTL DEF Spec

\* Where messages are handled one after the other, an event is inserted only for
\* a draft that the sheet shows private, complete, approved, ready and without
\* an event at that moment, although the gates were evaluated on earlier
\* readings of the row and the authorization was consumed in between.
THEOREM SerialInsertionsAreGated ==
  ASSUME \A p, q \in Process : p = q
  PROVE  Spec => InsertGated
<1> DEFINE Gated == \A d \in Draft, s \in Scope :
             made'[<<d, s>>] # made[<<d, s>>] =>
               \E i \in DOMAIN rows :
                 /\ rows[i].id = d /\ rows[i].private /\ rows[i].complete
                 /\ rows[i].approval = "approved" /\ rows[i].status = "ready"
                 /\ ~rows[i].cal
<1>1. ASSUME Structure, Serial, [Next]_vars, NEW d \in Draft, NEW s \in Scope,
             made'[<<d, s>>] # made[<<d, s>>]
      PROVE  \E i \in DOMAIN rows : rows[i].id = d /\ Passed(rows[i]) /\ ~ rows[i].cal
  <2>1. PICK p \in Process : InsertEvent(p)
    BY <1>1 DEF Next, Step, vars, shared, Authorize, Expire, ReceiveIntake, ReceiveFollowup,
       ReceivePromotion, FindRow, WriteRow, Settle, SetActive, Gate,
       Validate, Authorized, Consume, FindDraft,
       RecordEvent, Finish, Abort
  <2>2. pc[p] = "insert" /\ made' = [made EXCEPT ![<<held[p].id, msg[p].scope>>] = @ + 1]
    BY <2>1 DEF InsertEvent
  <2>3. held[p].id = d
    BY <1>1, <2>2 DEF Structure, TypeOK
  <2>4. at[p] \in DOMAIN rows /\ rows[at[p]].id = held[p].id
    BY <1>1, <2>2 DEF Structure, Fit, Located
  <2>5. Passed(rows[at[p]]) /\ ~ rows[at[p]].cal
    BY <1>1, <2>2 DEF Serial, Fresh
  <2> QED BY <2>3, <2>4, <2>5
<1>2. Structure /\ Serial /\ [Next]_vars => [Gated]_vars
  BY <1>1 DEF Passed
<1>3. InsertGated <=> [][Gated]_vars
  BY DEF InsertGated
<1> HIDE DEF Gated
<1> QED
  BY <1>2, <1>3, SerialInit, SerialStep, StructureInit, StructureStep, PTL DEF Spec

-----------------------------------------------------------------------------
(* One event per draft, where nothing fails.                               *)

\* The rows that are overwritten keep their place and their ID.
LEMMA KeptStep ==
  ASSUME Structure, [Next]_vars
  PROVE  Kept
<1>1. rows \in Seq(Row)
  BY DEF Structure, TypeOK
<1>2. ASSUME NEW p \in Process, WriteRow(p)  PROVE Kept
  <2>1. at[p] # 0 => at[p] \in DOMAIN rows /\ rows[at[p]].id = held[p].id
    BY DEF Structure, Fit, Located
  <2>2. held[p] \in Row
    BY <1>2 DEF WriteRow, Structure, Fit, Busy
  <2> QED BY <1>1, <1>2, <2>1, <2>2 DEF WriteRow, Kept
<1>3. ASSUME NEW p \in Process, RecordEvent(p)  PROVE Kept
  <2> DEFINE r == [held[p] EXCEPT !.cal = TRUE, !.approval = "created", !.status = "confirmed"]
  <2>1. /\ pc[p] = "record" /\ rows' = [rows EXCEPT ![at[p]] = r]
    BY <1>3 DEF RecordEvent
  <2>2. held[p] \in Row /\ at[p] \in DOMAIN rows /\ rows[at[p]].id = held[p].id
    BY <2>1 DEF Structure, Fit, Busy, Located
  <2>3. r.id = held[p].id
    BY <2>2 DEF Row
  <2> HIDE DEF r
  <2> QED BY <1>1, <2>1, <2>2, <2>3 DEF Kept
<1>4. CASE UNCHANGED rows  BY <1>4 DEF Kept
<1> QED
  BY <1>2, <1>3, <1>4 DEF Next, Step, vars, shared, Authorize, Expire, ReceiveIntake,
     ReceiveFollowup, ReceivePromotion, FindRow, Settle, SetActive, Gate,
     Validate, Authorized, Consume, FindDraft,
     InsertEvent, Finish, Abort

\* What is recorded stays recorded: the promotion runs on to RecordEvent, and
\* the row keeps its CalendarEventID.
LEMMA RecordedStays ==
  ASSUME \A p, q \in Process : p = q, ~ Failing, Structure, Serial, [Next]_vars,
         NEW d, Recorded(d)
  PROVE  Recorded(d)'
<1>1. CASE \E i \in DOMAIN rows : rows[i].id = d /\ rows[i].cal
  <2>1. PICK i \in DOMAIN rows : rows[i].id = d /\ rows[i].cal
    BY <1>1
  <2>2. rows'[i].cal
    BY <2>1, CalendarIdStep
  <2>3. Kept
    BY KeptStep
  <2> QED BY <2>1, <2>2, <2>3 DEF Recorded, Kept
<1>2. CASE \E p \in Process : pc[p] = "record" /\ held[p].id = d
  <2>1. PICK p \in Process : pc[p] = "record" /\ held[p].id = d
    BY <1>2
  <2>2. CASE RecordEvent(p)
    BY <2>1, <2>2, RecordSerial DEF Recorded
  <2>3. CASE UNCHANGED <<pc, held>>
    BY <2>1, <2>3 DEF Recorded
  <2>4. CASE Next /\ ~ Authorize /\ ~ Expire /\ ~ RecordEvent(p)
    <3>1. Step(p) \/ Abort(p)
      BY <2>4 DEF Next
    <3> QED
      BY <2>1, <2>4, <3>1 DEF Step, ReceiveIntake, ReceiveFollowup, ReceivePromotion, FindRow,
         WriteRow, Settle, SetActive, Gate, Validate, Authorized, Consume, FindDraft, InsertEvent, Finish, Abort
  <2> QED BY <2>2, <2>3, <2>4 DEF vars, local, Authorize, Expire
<1> QED BY <1>1, <1>2 DEF Recorded

\* Where messages are handled one after the other and no call fails, a draft
\* never gets a second Calendar event, from whatever chats it is promoted and
\* however many authorizations are written ("exactly one insert on retry",
\* create_calendar_event_from_draft).  A failure between the insertion and the
\* recording refutes it.
THEOREM FailureFreeSerialInsertsOnce ==
  ASSUME \A p, q \in Process : p = q, ~ Failing
  PROVE  Spec => []OneEventPerDraft
<1> DEFINE Once == OneEventPerDraft /\ AllRecorded
<1>1. Init => Once
  BY DEF Init, OneEventPerDraft, AllRecorded
<1>2. ASSUME Structure, Structure', Serial, Once, [Next]_vars  PROVE Once'
  <2>1. \A d : Recorded(d) => Recorded(d)'
    BY <1>2, RecordedStays
  <2>2. ASSUME NEW p \in Process, InsertEvent(p)  PROVE Once'
    <3>1. /\ pc[p] = "insert" /\ Goto(p, "record")
          /\ made' = [made EXCEPT ![Grantee(p)] = @ + 1]
      BY <2>2 DEF InsertEvent, Grantee
    <3>2. held[p] \in Row /\ msg[p] \in Message
      BY <1>2, <3>1 DEF Structure, Fit, Busy
    <3>3. Grantee(p) \in Draft \X Scope /\ made \in [Draft \X Scope -> Nat]
      BY <1>2, <3>2 DEF Grantee, Row, Message, Structure, TypeOK
    <3>4. ~ Recorded(held[p].id)
      <4>1. at[p] \in DOMAIN rows /\ rows[at[p]].id = held[p].id /\ ~ rows[at[p]].cal
        BY <1>2, <3>1 DEF Structure, Fit, Located, Serial, Fresh
      <4>2. \A i \in DOMAIN rows : rows[i].id = held[p].id => ~ rows[i].cal
        BY <1>2, <4>1 DEF Serial, OneRowPerDraft
      <4>3. \A q \in Process : pc[q] # "record"
        BY <3>1
      <4> QED BY <4>2, <4>3 DEF Recorded
    <3>5. \A s \in Scope : made[<<held[p].id, s>>] = 0
      BY <1>2, <3>2, <3>4 DEF AllRecorded, Row
    <3>6. \A g \in Draft \X Scope : made'[g] = IF g = Grantee(p) THEN made[g] + 1 ELSE made[g]
      <4> HIDE DEF Grantee
      <4> QED BY <3>1, <3>3
    <3>7. UNCHANGED held /\ Recorded(held[p].id)'
      <4>1. pc'[p] = "record" /\ UNCHANGED local
        BY <1>2, <3>1, Moves DEF Structure
      <4> QED BY <4>1 DEF Recorded, local
    <3>8. AllRecorded'
      <4> SUFFICES ASSUME NEW d \in Draft, NEW s \in Scope, made'[<<d, s>>] # 0
                   PROVE  Recorded(d)'
        BY DEF AllRecorded
      <4>1. CASE d = held[p].id  BY <3>7, <4>1
      <4>2. CASE d # held[p].id
        <5>1. made'[<<d, s>>] = made[<<d, s>>]
          BY <3>6, <4>2 DEF Grantee
        <5> QED BY <1>2, <2>1, <5>1 DEF AllRecorded
      <4> QED BY <4>1, <4>2
    <3>9. OneEventPerDraft'
      <4> SUFFICES ASSUME NEW d \in Draft, NEW s \in Scope, NEW t \in Scope
                   PROVE  /\ made'[<<d, s>>] <= 1
                          /\ s # t => made'[<<d, s>>] = 0 \/ made'[<<d, t>>] = 0
        BY DEF OneEventPerDraft
      <4>1. CASE d = held[p].id
        <5>1. /\ made'[<<d, s>>] = IF s = msg[p].scope THEN 1 ELSE 0
              /\ made'[<<d, t>>] = IF t = msg[p].scope THEN 1 ELSE 0
          BY <3>5, <3>6, <4>1 DEF Grantee
        <5> QED BY <5>1
      <4>2. CASE d # held[p].id
        <5>1. made'[<<d, s>>] = made[<<d, s>>] /\ made'[<<d, t>>] = made[<<d, t>>]
          BY <3>6, <4>2 DEF Grantee
        <5> QED BY <1>2, <5>1 DEF OneEventPerDraft
      <4> QED BY <4>1, <4>2
    <3> QED BY <3>8, <3>9
  <2>3. CASE UNCHANGED made
    BY <1>2, <2>1, <2>3 DEF OneEventPerDraft, AllRecorded
  <2> QED
    BY <1>2, <2>2, <2>3 DEF Next, Step, vars, shared, Authorize, Expire, ReceiveIntake,
       ReceiveFollowup, ReceivePromotion, FindRow, WriteRow, Settle, SetActive, Gate, Validate, Authorized, Consume,
       FindDraft, RecordEvent, Finish, Abort
<1>3. Once => OneEventPerDraft
  OBVIOUS
<1> HIDE DEF Once
<1> QED
  BY <1>1, <1>2, <1>3, SerialInit, SerialStep, StructureInit, StructureStep, PTL DEF Spec
=============================================================================
