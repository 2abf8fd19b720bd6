---------------------------- MODULE RecordTable -----------------------------
(***************************************************************************)
(* What the add_*, update_* and update_inventory operations of             *)
(* operations.py promise to the router: a tab is a set of records with     *)
(* different IDs, and an operation takes effect on it at one instant, or   *)
(* not at all.  An addition creates a record with the values of its        *)
(* message, an update changes those values of the record as it is at that  *)
(* instant, an upsert does whichever applies.  Row numbers, readings, the  *)
(* whole-row write and the AuditLog are all below this level.              *)
(***************************************************************************)
CONSTANTS Worker, Id, Field,
          Request,   \* operations: [op, id, change], with ID 0 if to be numbered
          Default,   \* values of a new record that its message leaves out
          None

VARIABLES table,     \* the records, each with its ID and its body
          asked      \* per worker, the operation that has had no effect yet

tableVars == <<table, asked>>

Known == {r.id : r \in table}
Merged(b, c) == [f \in Field |-> IF f \in DOMAIN c THEN c[f] ELSE b[f]]

TableInit ==
  /\ table = {}
  /\ asked = [w \in Worker |-> None]

Ask(w) ==
  /\ asked[w] = None /\ asked'[w] \in Request
  /\ asked' = [asked EXCEPT ![w] = asked'[w]]
  /\ UNCHANGED table

\* The number is that of no record, and nobody else's.
Number(w) ==
  /\ asked[w] # None /\ asked[w].id = 0
  /\ \E d \in Id \ Known :
       /\ \A v \in Worker : asked[v] # None => asked[v].id # d
       /\ asked' = [asked EXCEPT ![w].id = d]
  /\ UNCHANGED table

Create(w) ==
  /\ asked[w].op \in {"add", "upsert"} /\ asked[w].id \in Id \ Known
  /\ table' = table \cup {[id |-> asked[w].id, body |-> Merged(Default, asked[w].change)]}

Merge(w) ==
  /\ asked[w].op \in {"update", "upsert"}
  /\ \E r \in table :
       /\ r.id = asked[w].id
       /\ table' = (table \ {r}) \cup {[id |-> r.id, body |-> Merged(r.body, asked[w].change)]}

\* The operation ends, with its effect or (a duplicate, a missing record, a
\* failure) without any.
Settle(w) ==
  /\ asked[w] # None /\ asked' = [asked EXCEPT ![w] = None]
  /\ Create(w) \/ Merge(w) \/ UNCHANGED table

TableNext == \E w \in Worker : Ask(w) \/ Number(w) \/ Settle(w)

TableSpec == TableInit /\ [][TableNext]_tableVars
=============================================================================
