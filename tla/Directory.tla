----------------------------- MODULE Directory -----------------------------
(***************************************************************************)
(* What the administration of tenants and entities promises: every request *)
(* that is answered with success has changed one row, at one instant, from *)
(* the version its client had seen to the next, and once for its key.      *)
(***************************************************************************)
EXTENDS Integers

VARIABLES
  table,    \* the rows of tenant and entity
  done      \* the requests answered with success, and what they were told

vars == <<table, done>>

(* A name is used once among the tenants, and once in each tenant.          *)
NameFree(id, row) ==
  \A j \in DOMAIN table \ {id} :
    table[j].kind = row.kind /\ table[j].tenant = row.tenant => table[j].name # row.name

ParentKnown(row) ==
  row.parent # 0 =>
    /\ row.parent \in DOMAIN table
    /\ table[row.parent].kind = "ENTITY"
    /\ table[row.parent].tenant = row.tenant

(* The key has done nothing yet at this endpoint; only creations of         *)
(* different entities may share one.                                        *)
KeyFresh(q) ==
  \A d \in done :
    /\ d.req.tenant = q.tenant
    /\ d.req.kind = q.kind
    /\ d.req.target = q.target
    /\ d.req.key = q.key
    => q.kind = "ENTITY" /\ q.target = 0 /\ d.req.payload # q.payload

Written(row, payload) ==
  [f \in DOMAIN row |->
     IF f \in DOMAIN payload THEN payload[f]
     ELSE IF f = "version" THEN row.version + 1 ELSE row[f]]

Blank(q) ==
  [kind |-> q.kind, tenant |-> IF q.kind = "ENTITY" THEN q.tenant ELSE 0,
   name |-> "", parent |-> 0, active |-> TRUE, version |-> 0]

Create(q, id) ==
  /\ q.target = 0
  /\ id \notin DOMAIN table
  /\ ParentKnown(Written(Blank(q), q.payload))

Change(q, id) ==
  /\ q.target = id
  /\ id \in DOMAIN table
  /\ table[id].version = q.viewed
  /\ "parent" \in DOMAIN q.payload =>
       q.payload.parent # id /\ ParentKnown(Written(table[id], q.payload))

(* The answer is the row as it is written.                                  *)
Answer(q, id, row) ==
  /\ Create(q, id) \/ Change(q, id)
  /\ row = Written(IF q.target = 0 THEN Blank(q) ELSE table[id], q.payload)
  /\ KeyFresh(q)
  /\ NameFree(id, row)
  /\ table' = [j \in DOMAIN table \cup {id} |-> IF j = id THEN row ELSE table[j]]
  /\ done' = done \cup {[req |-> q, id |-> id, row |-> row]}

(* A step gives one answer.                                                 *)
Next == \E d \in done' : d \notin done /\ Answer(d.req, d.id, d.row)
=============================================================================
