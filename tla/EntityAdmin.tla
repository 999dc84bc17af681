---------------------------- MODULE EntityAdmin ----------------------------
(***************************************************************************)
(* POST and PATCH of /tenants and /entities, statement by statement, as    *)
(* READ COMMITTED transactions: the idempotency key is looked up, the row  *)
(* and its name are checked, the key is claimed, the row is written, the   *)
(* answer is stored with the key, and all of it commits together.  Unique  *)
(* indexes and row locks make sessions wait for one another.               *)
(*                                                                         *)
(* Every handler has the same steps; where POST and PATCH, or tenants and  *)
(* entities, differ, the guard says so.  Currencies are left out, and so   *)
(* are roles: every caller is one who may.                                 *)
(***************************************************************************)
EXTENDS Integers, FiniteSets

CONSTANTS
  Rows,        \* ids, for tenants and entities
  Names, Keys, Sessions,
  MaxVersion,  \* bound: the versions a client may have seen
  MaxWrites    \* bound: requests answered with success

ASSUME AdminAssumption ==
  /\ Rows \subseteq Nat \ {0}
  /\ {1, 2} \subseteq Rows
  /\ Names # {}
  /\ MaxVersion \in Nat
  /\ MaxWrites \in Nat

VARIABLES
  table,     \* the committed rows of tenant and entity, by id
  keyRows,   \* the committed rows of idempotency_key, with the answer each has
  sess       \* what each session is doing

vars == <<table, keyRows, sess>>

-----------------------------------------------------------------------------
(* The request has its caller's tenant, the target of a PATCH (0: a POST),  *)
(* the fields of its payload and the version of its If-Match.               *)
Changes(kind) ==
  [name : Names] \cup [active : BOOLEAN] \cup
  (IF kind = "ENTITY" THEN [parent : Rows \cup {0}] ELSE {})

PostPayloads(kind) ==
  IF kind = "ENTITY" THEN [name : Names, parent : Rows \cup {0}] ELSE [name : Names]

Requests ==
  UNION {[tenant : Rows, kind : {k}, target : {0}, key : Keys, payload : PostPayloads(k),
          viewed : {0}] \cup
         [tenant : Rows, kind : {k}, target : Rows, key : Keys, payload : Changes(k),
          viewed : 1 .. MaxVersion] : k \in {"TENANT", "ENTITY"}}

(* The caller's tenant is one there is, and tenants are administered by     *)
(* users of the first; a client has its ids from earlier answers.           *)
Caller(q) ==
  /\ {q.tenant, q.target} \subseteq DOMAIN table \cup {0}
  /\ "parent" \in DOMAIN q.payload => q.payload.parent \in DOMAIN table \cup {0}
  /\ table[q.tenant].kind = "TENANT"
  /\ q.kind = "TENANT" => q.tenant = 1

(* The key is unique per tenant, entity and endpoint.                       *)
SameKey(p, q) ==
  p.tenant = q.tenant /\ p.kind = q.kind /\ p.target = q.target /\ p.key = q.key

(* POST /entities stores no entity with its key: an index holds any number  *)
(* of rows with NULL.                                                       *)
Unscoped(q) == q.kind = "ENTITY" /\ q.target = 0

KeysOf(q) == {k \in keyRows : SameKey(k.req, q)}

-----------------------------------------------------------------------------
Idle == [pc |-> "IDLE"]

Init ==
  \E n \in Names :
    /\ table = [i \in {1, 2} |->
         [kind |-> IF i = 1 THEN "TENANT" ELSE "ENTITY", tenant |-> IF i = 1 THEN 0 ELSE 1,
          name |-> n, parent |-> 0, active |-> TRUE, version |-> 1]]
    /\ keyRows = {}
    /\ sess = [s \in Sessions |-> Idle]

InFlight == {s \in Sessions : sess[s].pc # "IDLE"}

(* check_idempotency lets the request pass: it found no such key.  A retry  *)
(* of the same payload is told the answer stored with the key, any other is *)
(* refused; neither changes anything.                                       *)
Begin(s, q) ==
  /\ sess[s].pc = "IDLE"
  /\ Cardinality(keyRows) + Cardinality(InFlight) < MaxWrites
  /\ Caller(q)
  /\ KeysOf(q) = {}
  /\ sess' = [sess EXCEPT ![s] = [pc |-> "READ", req |-> q]]
  /\ UNCHANGED <<table, keyRows>>

(* The fields named in the payload, and the next version.                   *)
Written(row, payload) ==
  [f \in DOMAIN row |->
     IF f \in DOMAIN payload THEN payload[f]
     ELSE IF f = "version" THEN row.version + 1 ELSE row[f]]

Blank(q) ==
  [kind |-> q.kind, tenant |-> IF q.kind = "ENTITY" THEN q.tenant ELSE 0,
   name |-> "", parent |-> 0, active |-> TRUE, version |-> 0]

ParentKnown(q) ==
  "parent" \in DOMAIN q.payload /\ q.payload.parent # 0 =>
    /\ q.payload.parent # q.target
    /\ table[q.payload.parent].kind = "ENTITY"
    /\ table[q.payload.parent].tenant = q.tenant

(* POST: the tenant is active.  PATCH: the row is there, an entity in the   *)
(* caller's tenant, and at the version of If-Match.                         *)
Read(s) ==
  LET q == sess[s].req
  IN  /\ sess[s].pc = "READ"
      /\ IF q.target = 0
         THEN q.kind = "ENTITY" => table[q.tenant].active
         ELSE /\ table[q.target].kind = q.kind
              /\ q.kind = "ENTITY" => table[q.target].tenant = q.tenant
              /\ table[q.target].version = q.viewed
      /\ ParentKnown(q)
      /\ sess' = [sess EXCEPT ![s] =
           [pc |-> "NAME", req |-> q,
            row |-> Written(IF q.target = 0 THEN Blank(q) ELSE table[q.target], q.payload)]]
      /\ UNCHANGED <<table, keyRows>>

SameName(p, q) == p.kind = q.kind /\ p.tenant = q.tenant /\ p.name = q.name

NameFree(id, row) == \A j \in DOMAIN table \ {id} : ~SameName(table[j], row)

CheckName(s) ==
  /\ sess[s].pc = "NAME"
  /\ "name" \in DOMAIN sess[s].req.payload => NameFree(sess[s].req.target, sess[s].row)
  /\ sess' = [sess EXCEPT ![s].pc = "KEY"]
  /\ UNCHANGED <<table, keyRows>>

-----------------------------------------------------------------------------
(* What a session has written and not committed.                            *)
HasKey(s) == sess[s].pc \in {"LOCK", "WRITE", "COMPLETE", "COMMIT"}
HasRowLock(s) == sess[s].pc \in {"WRITE", "COMPLETE", "COMMIT"} /\ sess[s].req.target # 0
HasRow(s) == sess[s].pc \in {"COMPLETE", "COMMIT"}

(* The unique index makes the second of two wait for the first; one that    *)
(* finds the key committed fails with an error of the database.             *)
ClaimKey(s) ==
  /\ sess[s].pc = "KEY"
  /\ Unscoped(sess[s].req) \/
       /\ \A z \in Sessions \ {s} : HasKey(z) => ~SameKey(sess[z].req, sess[s].req)
       /\ KeysOf(sess[s].req) = {}
  /\ sess' = [sess EXCEPT ![s].pc = IF sess[s].req.target = 0 THEN "WRITE" ELSE "LOCK"]
  /\ UNCHANGED <<table, keyRows>>

(* PATCH: UPDATE ... WHERE version = the version read.  It writes the       *)
(* fields of the payload over the row as it is now.                         *)
LockRowAnyVersion(s) == \* faulty: no version in the WHERE clause
  LET id == sess[s].req.target
  IN  /\ sess[s].pc = "LOCK"
      /\ \A z \in Sessions \ {s} : HasRowLock(z) => sess[z].req.target # id
      /\ sess' = [sess EXCEPT ![s].pc = "WRITE"]
      /\ UNCHANGED <<table, keyRows>>

LockRow(s) ==
  LET id == sess[s].req.target
  IN  /\ sess[s].pc = "LOCK"
      /\ \A z \in Sessions \ {s} : HasRowLock(z) => sess[z].req.target # id
      /\ table[id].version = sess[s].row.version - 1
      /\ sess' = [sess EXCEPT ![s].pc = "WRITE"]
      /\ UNCHANGED <<table, keyRows>>

UsedIds == DOMAIN table \cup {sess[z].id : z \in {y \in Sessions : HasRow(y)}}

(* INSERT, or the part of the UPDATE that comes to the index of names: it   *)
(* waits while another session is putting the name in or taking it out.     *)
NameContested(s) ==
  \E z \in Sessions \ {s} :
    /\ HasRow(z)
    /\ \/ SameName(sess[z].row, sess[s].row)
       \/ sess[z].req.target # 0 /\ SameName(table[sess[z].req.target], sess[s].row)

WriteRowOnceChecked(s) == \* faulty: no unique index, the name has been checked
  LET q == sess[s].req
  IN  /\ sess[s].pc = "WRITE"
      /\ \E id \in IF q.target = 0 THEN Rows \ UsedIds ELSE {q.target} :
           /\ q.target = 0 => \A j \in Rows \ UsedIds : id <= j
           /\ sess' = [sess EXCEPT ![s] =
                [pc |-> "COMPLETE", req |-> q, row |-> sess[s].row, id |-> id]]
      /\ UNCHANGED <<table, keyRows>>

WriteRow(s) ==
  LET q == sess[s].req
  IN  /\ sess[s].pc = "WRITE"
      /\ "name" \in DOMAIN q.payload =>
           ~NameContested(s) /\ NameFree(q.target, sess[s].row)
      /\ \E id \in IF q.target = 0 THEN Rows \ UsedIds ELSE {q.target} :
           /\ q.target = 0 => \A j \in Rows \ UsedIds : id <= j
           /\ sess' = [sess EXCEPT ![s] =
                [pc |-> "COMPLETE", req |-> q, row |-> sess[s].row, id |-> id]]
      /\ UNCHANGED <<table, keyRows>>

(* The key is looked up again; it must be the only one.                     *)
Complete(s) ==
  /\ sess[s].pc = "COMPLETE"
  /\ KeysOf(sess[s].req) = {}
  /\ sess' = [sess EXCEPT ![s].pc = "COMMIT"]
  /\ UNCHANGED <<table, keyRows>>

Commit(s) ==
  LET t == sess[s]
  IN  /\ t.pc = "COMMIT"
      /\ table' = [i \in DOMAIN table \cup {t.id} |-> IF i = t.id THEN t.row ELSE table[i]]
      /\ keyRows' = keyRows \cup {[req |-> t.req, id |-> t.id, row |-> t.row]}
      /\ sess' = [sess EXCEPT ![s] = Idle]

(* A check or a statement raises, or the connection is lost: get_db rolls   *)
(* everything back.                                                         *)
Abort(s) ==
  /\ sess[s].pc # "IDLE"
  /\ sess' = [sess EXCEPT ![s] = Idle]
  /\ UNCHANGED <<table, keyRows>>

Next ==
  \E s \in Sessions :
    \/ \E q \in Requests : Begin(s, q)
    \/ Read(s) \/ CheckName(s) \/ ClaimKey(s) \/ LockRow(s) \/ WriteRow(s)
    \/ Complete(s) \/ Commit(s) \/ Abort(s)

Spec == Init /\ [][Next]_vars

-----------------------------------------------------------------------------
TypeOK ==
  /\ DOMAIN table \subseteq Rows
  /\ \A s \in InFlight : sess[s].req \in Requests

(* The answers that clients were given, and will be given again when they   *)
(* repeat a request, are the history of the rows: every version a row has   *)
(* had since the seed was the answer to one request, and to one only, and   *)
(* the last is the row.                                                     *)
AnswersAreHistory ==
  \A i \in DOMAIN table :
    LET answers == {k \in keyRows : k.id = i}
        first == IF i \in {1, 2} THEN 2 ELSE 1
    IN  /\ \A v \in first .. table[i].version : \E k \in answers : k.row.version = v
        /\ \A k \in answers : k.row.version <= table[i].version
        /\ \A k, l \in answers : k.row.version = l.row.version => k = l
        /\ \A k \in answers : k.row.version = table[i].version => k.row = table[i]

(* However the statements of requests interleave, each that succeeds acts   *)
(* at its commit as the promise says: from the version its client saw, once *)
(* for its key, with a name nobody has and a parent of its tenant.          *)
Promise == INSTANCE Directory WITH done <- keyRows

ImplementsDirectory == [][Promise!Next]_<<table, keyRows>>
=============================================================================
