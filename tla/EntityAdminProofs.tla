------------------------- MODULE EntityAdminProofs -------------------------
(***************************************************************************)
(* Proofs about EntityAdmin: whatever tenants, names, keys and sessions    *)
(* there are, the requests implement Directory, and the answers are the    *)
(* history of the rows.                                                    *)
(*                                                                         *)
(* The invariant says of a session what it may rely on at each statement,  *)
(* with t for its record, T for the table and K for the committed keys.    *)
(***************************************************************************)
EXTENDS EntityAdmin, TLAPS

Row ==
  [kind : {"TENANT", "ENTITY"}, tenant : Rows \cup {0}, name : Names \cup {""},
   parent : Rows \cup {0}, active : BOOLEAN, version : Nat]

AfterRead == {"NAME", "KEY", "LOCK", "WRITE", "COMPLETE", "COMMIT"}
WithKey == {"LOCK", "WRITE", "COMPLETE", "COMMIT"}
WithLock == {"WRITE", "COMPLETE", "COMMIT"}
WithRow == {"COMPLETE", "COMMIT"}

FreeIn(T, id, row) == \A j \in DOMAIN T \ {id} : ~SameName(T[j], row)

ParentIn(T, q) ==
  "parent" \in DOMAIN q.payload /\ q.payload.parent # 0 =>
    /\ q.payload.parent # q.target
    /\ q.payload.parent \in DOMAIN T
    /\ T[q.payload.parent].kind = "ENTITY"
    /\ T[q.payload.parent].tenant = q.tenant

(* What a PATCH read is what is there, unless the version has moved.        *)
PatchOf(t, T) ==
  LET old == T[t.req.target]
  IN  /\ old.kind = t.req.kind
      /\ t.req.kind = "ENTITY" => old.tenant = t.req.tenant
      /\ t.req.viewed <= old.version
      /\ old.version = t.req.viewed => t.row = Written(old, t.req.payload)
      /\ t.row.version = t.req.viewed + 1

ReadOK(t, T) ==
  /\ t.row \in Row
  /\ ParentIn(T, t.req)
  /\ t.req.target = 0 => t.row = Written(Blank(t.req), t.req.payload)
  /\ t.req.target # 0 => PatchOf(t, T)

RowOK(t, T) ==
  /\ t.req.target = 0 => t.id \in Rows \ DOMAIN T
  /\ t.req.target # 0 => t.id = t.req.target
  /\ FreeIn(T, t.id, t.row)

KeyOK(t, K) ==
  /\ ~Unscoped(t.req) => \A k \in K : ~SameKey(k.req, t.req)
  /\ t.pc = "COMMIT" =>
       \A k \in K : SameKey(k.req, t.req) => k.req.payload # t.req.payload

(* The ids in a request are of rows there are.                              *)
Known(q, T) ==
  /\ q.target \in DOMAIN T \cup {0}
  /\ "parent" \in DOMAIN q.payload => q.payload.parent \in DOMAIN T \cup {0}

SessOK(t, T, K) ==
  /\ t.pc \in {"IDLE", "READ"} \cup AfterRead
  /\ t.pc # "IDLE" => t.req \in Requests /\ Known(t.req, T)
  /\ t.pc \in AfterRead => ReadOK(t, T)
  /\ t.pc = "LOCK" => t.req.target # 0
  /\ t.pc \in WithLock /\ t.req.target # 0 => T[t.req.target].version = t.req.viewed
  /\ t.pc \in WithRow => RowOK(t, T)
  /\ t.pc \in WithKey => KeyOK(t, K)

(* Two sessions hold different keys, different rows and different names.    *)
PairOK(t, u) ==
  /\ t.pc \in WithKey /\ u.pc \in WithKey /\ ~Unscoped(t.req) => ~SameKey(u.req, t.req)
  /\ t.pc \in WithLock /\ u.pc \in WithLock /\ t.req.target # 0 => t.req.target # u.req.target
  /\ t.pc \in WithRow /\ u.pc \in WithRow => t.id # u.id /\ ~SameName(t.row, u.row)

TableOK(T) ==
  /\ {1, 2} \subseteq DOMAIN T
  /\ DOMAIN T \subseteq Rows
  /\ T \in [DOMAIN T -> Row]
  /\ \A i \in DOMAIN T : FreeIn(T, i, T[i])

AdminInv ==
  /\ TableOK(table)
  /\ DOMAIN sess = Sessions
  /\ \A s \in Sessions : SessOK(sess[s], table, keyRows)
  /\ \A s, z \in Sessions : s # z => PairOK(sess[s], sess[z])
  /\ \A k \in keyRows : k.id \in DOMAIN table /\ k.row \in Row

-----------------------------------------------------------------------------
(* What can be in a payload.                                                *)
PayloadOK(p) ==
  /\ DOMAIN p \subseteq {"name", "parent", "active"}
  /\ "name" \in DOMAIN p => p["name"] \in Names
  /\ "parent" \in DOMAIN p => p["parent"] \in Rows \cup {0}
  /\ "active" \in DOMAIN p => p["active"] \in BOOLEAN

(* The fields of a request.                                                 *)
LEMMA RequestFacts ==
  ASSUME NEW q \in Requests
  PROVE  /\ q.kind \in {"TENANT", "ENTITY"}
         /\ q.tenant \in Rows
         /\ q.target \in Rows \cup {0}
         /\ q.viewed \in Nat
         /\ PayloadOK(q.payload)
         /\ q.target = 0 => "name" \in DOMAIN q.payload
         /\ "parent" \in DOMAIN q.payload => q.kind = "ENTITY"
<1>1. PICK k \in {"TENANT", "ENTITY"} :
        \/ q \in [tenant : Rows, kind : {k}, target : {0}, key : Keys,
                  payload : PostPayloads(k), viewed : {0}]
        \/ q \in [tenant : Rows, kind : {k}, target : Rows, key : Keys,
                  payload : Changes(k), viewed : 1 .. MaxVersion]
  BY DEF Requests
<1>2. \A p \in PostPayloads(k) : /\ PayloadOK(p) /\ "name" \in DOMAIN p
                                 /\ "parent" \in DOMAIN p => k = "ENTITY"
  BY DEF PostPayloads, PayloadOK
<1>3. \A p \in Changes(k) : PayloadOK(p) /\ ("parent" \in DOMAIN p => k = "ENTITY")
  BY DEF Changes, PayloadOK
<1>4. 0 \notin Rows
  BY AdminAssumption
<1>5. QED
  <2>1. CASE q \in [tenant : Rows, kind : {k}, target : {0}, key : Keys,
                   payload : PostPayloads(k), viewed : {0}]
    BY <1>2, <2>1
  <2>2. CASE q \in [tenant : Rows, kind : {k}, target : Rows, key : Keys,
                   payload : Changes(k), viewed : 1 .. MaxVersion]
    BY <1>3, <1>4, <2>2, AdminAssumption
  <2>3. QED
    BY <1>1, <2>1, <2>2

(* What a write does to a row.                                              *)
LEMMA WrittenFields ==
  ASSUME NEW r \in Row, NEW q \in Requests
  PROVE  /\ Written(r, q.payload) \in Row
         /\ Written(r, q.payload).kind = r.kind
         /\ Written(r, q.payload).tenant = r.tenant
         /\ Written(r, q.payload).version = r.version + 1
         /\ "name" \in DOMAIN q.payload => Written(r, q.payload).name = q.payload["name"]
         /\ "name" \notin DOMAIN q.payload => Written(r, q.payload).name = r.name
         /\ Written(r, q.payload).parent =
              IF "parent" \in DOMAIN q.payload THEN q.payload["parent"] ELSE r.parent
<1> DEFINE p == q.payload
           w == Written(r, p)
<1>1. PayloadOK(p)
  BY RequestFacts
<1>2. /\ w = [f \in DOMAIN r |->
             IF f \in DOMAIN p THEN p[f] ELSE IF f = "version" THEN r.version + 1 ELSE r[f]]
      /\ DOMAIN r = {"kind", "tenant", "name", "parent", "active", "version"}
  BY DEF Written, Row
<1>3. /\ r.version \in Nat /\ r.kind \in {"TENANT", "ENTITY"} /\ r.tenant \in Rows \cup {0}
      /\ r.name \in Names \cup {""} /\ r.parent \in Rows \cup {0}
  BY DEF Row
<1>4. r.active \in BOOLEAN
  BY DEF Row
<1> HIDE DEF p, w
<1>5. w.kind = r.kind /\ w.tenant = r.tenant /\ w.version = r.version + 1
  BY <1>1, <1>2 DEF PayloadOK
<1>6. /\ "name" \in DOMAIN p => w.name = p["name"]
      /\ "name" \notin DOMAIN p => w.name = r.name
  BY <1>1, <1>2 DEF PayloadOK
<1>7. w.parent = IF "parent" \in DOMAIN p THEN p["parent"] ELSE r.parent
  BY <1>2
<1>8. w.active = IF "active" \in DOMAIN p THEN p["active"] ELSE r.active
  BY <1>2
<1>9. w \in Row
  <2>1. w = [kind |-> w.kind, tenant |-> w.tenant, name |-> w.name, parent |-> w.parent,
             active |-> w.active, version |-> w.version]
    BY <1>2
  <2>2. w.kind \in {"TENANT", "ENTITY"} /\ w.tenant \in Rows \cup {0} /\ w.version \in Nat
    <3>1. \A n \in Nat : n + 1 \in Nat
      OBVIOUS
    <3>2. QED
      BY <1>3, <1>5, <3>1, Zenon
  <2>3. w.name \in Names \cup {""}
    BY <1>1, <1>3, <1>6 DEF PayloadOK
  <2>4. w.parent \in Rows \cup {0}
    BY <1>1, <1>3, <1>7 DEF PayloadOK
  <2>5. w.active \in BOOLEAN
    <3>1. CASE "active" \in DOMAIN p
      BY <1>1, <1>8, <3>1, Zenon DEF PayloadOK
    <3>2. CASE "active" \notin DOMAIN p
      BY <1>4, <1>8, <3>2, Zenon
    <3>3. QED
      BY <3>1, <3>2
  <2>6. QED
    BY <2>1, <2>2, <2>3, <2>4, <2>5 DEF Row
<1>10. QED
  BY <1>5, <1>6, <1>7, <1>9 DEF w, p

(* The row a POST starts from.                                              *)
LEMMA BlankRow ==
  ASSUME NEW q \in Requests
  PROVE  /\ Blank(q) \in Row
         /\ Blank(q).kind = q.kind
         /\ Blank(q).tenant = IF q.kind = "ENTITY" THEN q.tenant ELSE 0
         /\ Blank(q).version = 0
         /\ Blank(q).parent = 0
BY RequestFacts DEF Blank, Row

-----------------------------------------------------------------------------
(* The same key and the same name are symmetric.                            *)
LEMMA SameKeySymmetric ==
  ASSUME NEW p, NEW q
  PROVE  SameKey(p, q) => SameKey(q, p) /\ (Unscoped(p) <=> Unscoped(q))
BY DEF SameKey, Unscoped

(* Initially the seed is there and no session is at work.                   *)
LEMMA InitialStates == Init => AdminInv
<1> SUFFICES ASSUME Init
             PROVE  AdminInv
  OBVIOUS
<1>1. PICK n \in Names :
        table = [i \in {1, 2} |->
          [kind |-> IF i = 1 THEN "TENANT" ELSE "ENTITY", tenant |-> IF i = 1 THEN 0 ELSE 1,
           name |-> n, parent |-> 0, active |-> TRUE, version |-> 1]]
  BY DEF Init
<1>2. keyRows = {} /\ sess = [s \in Sessions |-> Idle]
  BY DEF Init
<1>3. TableOK(table)
  <2>1. DOMAIN table = {1, 2} /\ {1, 2} \subseteq Rows
    BY <1>1, AdminAssumption
  <2>2. table \in [{1, 2} -> Row]
    BY <1>1, <2>1 DEF Row
  <2>3. \A i \in {1, 2} : FreeIn(table, i, table[i])
    BY <1>1, <2>1 DEF FreeIn, SameName
  <2>4. QED
    BY <2>1, <2>2, <2>3 DEF TableOK
<1>4. \A s \in Sessions : SessOK(sess[s], table, keyRows)
  BY <1>2 DEF SessOK, Idle, AfterRead, WithKey, WithLock, WithRow
<1>5. \A s, z \in Sessions : PairOK(sess[s], sess[z])
  BY <1>2 DEF PairOK, Idle, WithKey, WithLock, WithRow
<1>6. QED
  BY <1>2, <1>3, <1>4, <1>5 DEF AdminInv

(* A step of one session that commits nothing concerns the others only      *)
(* through what it holds.                                                   *)
LEMMA QuietStep ==
  ASSUME AdminInv, UNCHANGED <<table, keyRows>>, NEW s \in Sessions,
         sess' = [sess EXCEPT ![s] = sess'[s]],
         SessOK(sess'[s], table, keyRows),
         \A z \in Sessions \ {s} : PairOK(sess'[s], sess[z]) /\ PairOK(sess[z], sess'[s])
  PROVE  AdminInv'
<1>1. DOMAIN sess' = Sessions
  BY DEF AdminInv
<1>2. \A z \in Sessions \ {s} : sess'[z] = sess[z]
  BY DEF AdminInv
<1>3. TableOK(table)'
  BY DEF AdminInv, TableOK, FreeIn, SameName
<1>4. \A z \in Sessions : SessOK(sess'[z], table', keyRows')
  BY <1>2 DEF AdminInv
<1>5. \A y, z \in Sessions : y # z => PairOK(sess'[y], sess'[z])
  BY <1>2 DEF AdminInv
<1>6. \A k \in keyRows' : k.id \in DOMAIN table' /\ k.row \in Row
  BY DEF AdminInv
<1>7. QED
  BY <1>1, <1>3, <1>4, <1>5, <1>6 DEF AdminInv

(* A session that starts or ends holds nothing.                             *)
LEMMA StartAndEnd ==
  ASSUME AdminInv, NEW s \in Sessions, (\E q \in Requests : Begin(s, q)) \/ Abort(s)
  PROVE  AdminInv'
<1> USE DEF AfterRead, WithKey, WithLock, WithRow
<1>1. DOMAIN sess = Sessions
  BY DEF AdminInv
<1>2. CASE Abort(s)
  <2>1. sess'[s] = Idle /\ sess' = [sess EXCEPT ![s] = sess'[s]] /\ UNCHANGED <<table, keyRows>>
    BY <1>1, <1>2 DEF Abort
  <2>2. SessOK(sess'[s], table, keyRows)
    BY <2>1 DEF SessOK, Idle
  <2>3. \A z \in Sessions \ {s} : PairOK(sess'[s], sess[z]) /\ PairOK(sess[z], sess'[s])
    BY <2>1 DEF PairOK, Idle
  <2>4. QED
    BY <2>1, <2>2, <2>3, QuietStep
<1>3. ASSUME NEW q \in Requests, Begin(s, q)
      PROVE  AdminInv'
  <2>1. /\ sess'[s] = [pc |-> "READ", req |-> q] /\ sess' = [sess EXCEPT ![s] = sess'[s]]
        /\ UNCHANGED <<table, keyRows>>
    BY <1>1, <1>3 DEF Begin
  <2>2. Known(q, table)
    BY <1>3 DEF Begin, Caller, Known
  <2>3. SessOK(sess'[s], table, keyRows)
    BY <2>1, <2>2 DEF SessOK
  <2>4. \A z \in Sessions \ {s} : PairOK(sess'[s], sess[z]) /\ PairOK(sess[z], sess'[s])
    BY <2>1 DEF PairOK
  <2>5. QED
    BY <2>1, <2>3, <2>4, QuietStep
<1>4. QED
  BY <1>2, <1>3

(* The row that is going to be written follows from the row read.           *)
LEMMA ReadStep ==
  ASSUME AdminInv, NEW s \in Sessions, Read(s)
  PROVE  AdminInv'
<1> DEFINE q == sess[s].req
           base == IF q.target = 0 THEN Blank(q) ELSE table[q.target]
<1>1. /\ sess[s].pc = "READ" /\ UNCHANGED <<table, keyRows>> /\ ParentKnown(q)
      /\ sess'[s] = [pc |-> "NAME", req |-> q, row |-> Written(base, q.payload)]
      /\ sess' = [sess EXCEPT ![s] = sess'[s]]
  BY DEF Read, AdminInv
<1>2. /\ q.target # 0 => /\ table[q.target].kind = q.kind
                         /\ q.kind = "ENTITY" => table[q.target].tenant = q.tenant
                         /\ table[q.target].version = q.viewed
  BY DEF Read
<1>3. q \in Requests /\ Known(q, table)
  BY <1>1 DEF AdminInv, SessOK
<1> HIDE DEF q
<1>4. base \in Row
  BY <1>3, BlankRow DEF AdminInv, TableOK, Known
<1>5. /\ Written(base, q.payload) \in Row
      /\ Written(base, q.payload).version = base.version + 1
  BY <1>3, <1>4, WrittenFields
<1>6. ParentIn(table, q)
  BY <1>1, <1>3 DEF ParentKnown, ParentIn, Known
<1>7. ReadOK(sess'[s], table)
  <2>1. CASE q.target = 0
    BY <1>1, <1>5, <1>6, <2>1 DEF ReadOK
  <2>2. CASE q.target # 0
    <3>1. q.viewed \in Nat
      BY <1>3, RequestFacts
    <3>2. PatchOf(sess'[s], table)
      BY <1>1, <1>2, <1>5, <2>2, <3>1 DEF PatchOf
    <3>3. QED
      BY <1>1, <1>5, <1>6, <2>2, <3>2 DEF ReadOK
  <2>3. QED
    BY <2>1, <2>2
<1>8. SessOK(sess'[s], table, keyRows)
  BY <1>1, <1>3, <1>7 DEF SessOK, AfterRead, WithKey, WithLock, WithRow
<1>9. \A z \in Sessions \ {s} : PairOK(sess'[s], sess[z]) /\ PairOK(sess[z], sess'[s])
  BY <1>1 DEF PairOK, WithKey, WithLock, WithRow
<1>10. QED
  BY <1>1, <1>8, <1>9, QuietStep

(* Looking at the name changes nothing yet.                                 *)
LEMMA CheckNameStep ==
  ASSUME AdminInv, NEW s \in Sessions, CheckName(s)
  PROVE  AdminInv'
<1>1. /\ sess[s].pc = "NAME" /\ UNCHANGED <<table, keyRows>>
      /\ sess' = [sess EXCEPT ![s] = sess'[s]]
      /\ sess'[s] = [sess[s] EXCEPT !.pc = "KEY"]
  BY DEF CheckName, AdminInv
<1>2. SessOK(sess[s], table, keyRows)
  BY DEF AdminInv
<1> DEFINE t == sess'[s]
<1>3. t.pc = "KEY" /\ t.req = sess[s].req /\ t.row = sess[s].row
  BY <1>1, <1>2 DEF SessOK, AfterRead
<1> HIDE DEF t
<1>4. SessOK(t, table, keyRows)
  BY <1>1, <1>2, <1>3 DEF SessOK, ReadOK, PatchOf, AfterRead, WithKey, WithLock, WithRow
<1>5. \A z \in Sessions \ {s} : PairOK(t, sess[z]) /\ PairOK(sess[z], t)
  BY <1>3 DEF PairOK, WithKey, WithLock, WithRow
<1>6. QED
  BY <1>1, <1>4, <1>5, QuietStep DEF t

(* The session that gets the key is the only one that has it.               *)
LEMMA ClaimKeyStep ==
  ASSUME AdminInv, NEW s \in Sessions, ClaimKey(s)
  PROVE  AdminInv'
<1>1. /\ sess[s].pc = "KEY" /\ UNCHANGED <<table, keyRows>>
      /\ sess' = [sess EXCEPT ![s] = sess'[s]]
      /\ sess'[s] = [sess[s] EXCEPT !.pc = IF sess[s].req.target = 0 THEN "WRITE" ELSE "LOCK"]
  BY DEF ClaimKey, AdminInv
<1>2. SessOK(sess[s], table, keyRows)
  BY DEF AdminInv
<1> DEFINE t == sess'[s]
<1>3. /\ t.pc = IF t.req.target = 0 THEN "WRITE" ELSE "LOCK"
      /\ t.req = sess[s].req /\ t.row = sess[s].row
  BY <1>1, <1>2 DEF SessOK, AfterRead
<1>4. ~Unscoped(t.req) =>
        /\ \A k \in keyRows : ~SameKey(k.req, t.req)
        /\ \A z \in Sessions \ {s} : sess[z].pc \in WithKey => ~SameKey(sess[z].req, t.req)
  BY <1>3 DEF ClaimKey, HasKey, KeysOf, WithKey
<1> HIDE DEF t
<1>5. SessOK(t, table, keyRows)
  BY <1>1, <1>2, <1>3, <1>4
  DEF SessOK, ReadOK, PatchOf, KeyOK, AfterRead, WithKey, WithLock, WithRow
<1>6. \A z \in Sessions \ {s} : PairOK(t, sess[z]) /\ PairOK(sess[z], t)
  <2> SUFFICES ASSUME NEW z \in Sessions \ {s}
               PROVE  PairOK(t, sess[z]) /\ PairOK(sess[z], t)
    OBVIOUS
  <2>1. /\ SameKey(t.req, sess[z].req) => SameKey(sess[z].req, t.req)
        /\ SameKey(t.req, sess[z].req) => (Unscoped(t.req) <=> Unscoped(sess[z].req))
    BY SameKeySymmetric
  <2>2. QED
    BY <1>3, <1>4, <2>1 DEF PairOK, WithLock, WithRow
<1>7. QED
  BY <1>1, <1>5, <1>6, QuietStep DEF t

(* The version in the WHERE clause makes the row locked the row read.       *)
LEMMA LockRowStep ==
  ASSUME AdminInv, NEW s \in Sessions, LockRow(s)
  PROVE  AdminInv'
<1>1. /\ sess[s].pc = "LOCK" /\ UNCHANGED <<table, keyRows>>
      /\ sess' = [sess EXCEPT ![s] = sess'[s]]
      /\ sess'[s] = [sess[s] EXCEPT !.pc = "WRITE"]
      /\ table[sess[s].req.target].version = sess[s].row.version - 1
      /\ \A z \in Sessions \ {s} :
           sess[z].pc \in WithLock /\ sess[z].req.target # 0 =>
             sess[z].req.target # sess[s].req.target
  BY DEF LockRow, AdminInv, HasRowLock, WithLock
<1>2. SessOK(sess[s], table, keyRows) /\ \A z \in Sessions \ {s} :
        PairOK(sess[s], sess[z]) /\ PairOK(sess[z], sess[s])
  BY DEF AdminInv
<1> DEFINE t == sess'[s]
<1>3. t.pc = "WRITE" /\ t.req = sess[s].req /\ t.row = sess[s].row
  BY <1>1, <1>2 DEF SessOK, AfterRead
<1>4. t.req.target # 0 /\ t.row.version = t.req.viewed + 1 /\ t.req.viewed \in Nat
  BY <1>1, <1>2, <1>3, RequestFacts DEF SessOK, ReadOK, PatchOf, AfterRead
<1> HIDE DEF t
<1>5. table[t.req.target].version = t.req.viewed
  BY <1>1, <1>3, <1>4
<1>6. SessOK(t, table, keyRows)
  BY <1>1, <1>2, <1>3, <1>4, <1>5
  DEF SessOK, ReadOK, PatchOf, KeyOK, AfterRead, WithKey, WithLock, WithRow
<1>7. \A z \in Sessions \ {s} : PairOK(t, sess[z]) /\ PairOK(sess[z], t)
  BY <1>1, <1>2, <1>3, <1>4 DEF PairOK, WithKey, WithLock, WithRow
<1>8. QED
  BY <1>1, <1>6, <1>7, QuietStep DEF t

(* The key is complete when it is the only one.                             *)
LEMMA CompleteStep ==
  ASSUME AdminInv, NEW s \in Sessions, Complete(s)
  PROVE  AdminInv'
<1>1. /\ sess[s].pc = "COMPLETE" /\ UNCHANGED <<table, keyRows>>
      /\ sess' = [sess EXCEPT ![s] = sess'[s]]
      /\ sess'[s] = [sess[s] EXCEPT !.pc = "COMMIT"]
      /\ \A k \in keyRows : ~SameKey(k.req, sess[s].req)
  BY DEF Complete, AdminInv, KeysOf
<1>2. SessOK(sess[s], table, keyRows) /\ \A z \in Sessions \ {s} :
        PairOK(sess[s], sess[z]) /\ PairOK(sess[z], sess[s])
  BY DEF AdminInv
<1> DEFINE t == sess'[s]
<1>3. t.pc = "COMMIT" /\ t.req = sess[s].req /\ t.row = sess[s].row /\ t.id = sess[s].id
  BY <1>1, <1>2 DEF SessOK, AfterRead
<1> HIDE DEF t
<1>4. SessOK(t, table, keyRows)
  BY <1>1, <1>2, <1>3
  DEF SessOK, ReadOK, PatchOf, RowOK, KeyOK, AfterRead, WithKey, WithLock, WithRow
<1>5. \A z \in Sessions \ {s} : PairOK(t, sess[z]) /\ PairOK(sess[z], t)
  BY <1>1, <1>2, <1>3 DEF PairOK, WithKey, WithLock, WithRow
<1>6. QED
  BY <1>1, <1>4, <1>5, QuietStep DEF t

(* The name a row is going to have: the payload's, or the one it had.       *)
LEMMA NameOfRow ==
  ASSUME NEW t, NEW T, TableOK(T), t.req \in Requests, Known(t.req, T), ReadOK(t, T),
         t.req.target # 0 => T[t.req.target].version = t.req.viewed
  PROVE  /\ "name" \notin DOMAIN t.req.payload =>
              t.req.target # 0 /\ t.req.target \in DOMAIN T /\ t.row.name = T[t.req.target].name
         /\ t.req.target # 0 => /\ t.row.kind = T[t.req.target].kind
                                /\ t.row.tenant = T[t.req.target].tenant
<1>1. t.req.target = 0 => "name" \in DOMAIN t.req.payload
  BY RequestFacts
<1>2. CASE t.req.target # 0
  <2>1. t.req.target \in DOMAIN T /\ T[t.req.target] \in Row
    BY <1>2 DEF Known, TableOK
  <2>2. t.row = Written(T[t.req.target], t.req.payload)
    BY <1>2 DEF ReadOK, PatchOf
  <2>3. QED
    BY <1>2, <2>1, <2>2, WrittenFields
<1>3. QED
  BY <1>1, <1>2

(* The index gives the name to one session at a time.                       *)
LEMMA WriteRowStep ==
  ASSUME AdminInv, NEW s \in Sessions, WriteRow(s)
  PROVE  AdminInv'
<1> DEFINE q == sess[s].req
           row == sess[s].row
<1>1. PICK id \in IF q.target = 0 THEN Rows \ UsedIds ELSE {q.target} :
        sess' = [sess EXCEPT ![s] = [pc |-> "COMPLETE", req |-> q, row |-> row, id |-> id]]
  BY DEF WriteRow
<1>2. /\ sess[s].pc = "WRITE" /\ UNCHANGED <<table, keyRows>>
      /\ "name" \in DOMAIN q.payload => ~NameContested(s) /\ NameFree(q.target, row)
  BY DEF WriteRow
<1>3. /\ sess'[s] = [pc |-> "COMPLETE", req |-> q, row |-> row, id |-> id]
      /\ sess' = [sess EXCEPT ![s] = sess'[s]]
  BY <1>1 DEF AdminInv
<1>4. /\ SessOK(sess[s], table, keyRows) /\ TableOK(table)
      /\ \A z \in Sessions \ {s} : /\ PairOK(sess[s], sess[z]) /\ PairOK(sess[z], sess[s])
                                    /\ SessOK(sess[z], table, keyRows)
  BY DEF AdminInv
<1>5. /\ q \in Requests /\ Known(q, table) /\ ReadOK(sess[s], table)
      /\ q.target # 0 => table[q.target].version = q.viewed
  BY <1>2, <1>4 DEF SessOK, AfterRead, WithLock
<1>6. /\ "name" \notin DOMAIN q.payload =>
            q.target # 0 /\ q.target \in DOMAIN table /\ row.name = table[q.target].name
      /\ q.target # 0 => row.kind = table[q.target].kind /\ row.tenant = table[q.target].tenant
  BY <1>4, <1>5, NameOfRow
<1>7. 0 \notin Rows /\ DOMAIN table \subseteq Rows
  BY <1>4, AdminAssumption DEF TableOK
<1>8. FreeIn(table, id, row)
  <2>1. CASE "name" \in DOMAIN q.payload
    BY <1>1, <1>2, <1>7, <2>1 DEF FreeIn, NameFree
  <2>2. CASE "name" \notin DOMAIN q.payload
    <3>1. FreeIn(table, q.target, table[q.target]) /\ id = q.target
      BY <1>1, <1>4, <1>6, <2>2 DEF TableOK
    <3>2. QED
      BY <1>6, <2>2, <3>1 DEF FreeIn, SameName
  <2>3. QED
    BY <2>1, <2>2
<1>9. q.target = 0 => id \in Rows \ DOMAIN table
  BY <1>1 DEF UsedIds
<1>10. \A z \in Sessions \ {s} :
         sess[z].pc \in WithRow => id # sess[z].id /\ ~SameName(row, sess[z].row)
  <2> SUFFICES ASSUME NEW z \in Sessions \ {s}, sess[z].pc \in WithRow
               PROVE  id # sess[z].id /\ ~SameName(row, sess[z].row)
    OBVIOUS
  <2>1. RowOK(sess[z], table) /\ HasRow(z)
    BY <1>4 DEF SessOK, HasRow, WithRow
  <2>2. id # sess[z].id
    <3>1. CASE q.target = 0
      BY <1>1, <2>1, <3>1 DEF UsedIds
    <3>2. CASE q.target # 0
      <4>1. id = q.target /\ q.target \in DOMAIN table
        BY <1>1, <1>5, <3>2 DEF Known
      <4>2. q.target # sess[z].req.target
        BY <1>2, <1>4, <3>2 DEF PairOK, WithLock, WithRow
      <4>3. QED
        BY <2>1, <4>1, <4>2 DEF RowOK
    <3>3. QED
      BY <3>1, <3>2
  <2>3. ~SameName(row, sess[z].row)
    <3>1. CASE "name" \in DOMAIN q.payload
      BY <1>2, <2>1, <3>1 DEF NameContested, SameName
    <3>2. CASE "name" \notin DOMAIN q.payload
      <4>1. q.target \in DOMAIN table \ {sess[z].id}
        BY <1>1, <1>6, <2>2, <3>2
      <4>2. ~SameName(table[q.target], sess[z].row)
        BY <2>1, <4>1 DEF RowOK, FreeIn
      <4>3. QED
        BY <1>6, <3>2, <4>2 DEF SameName
    <3>3. QED
      BY <3>1, <3>2
  <2>4. QED
    BY <2>2, <2>3
<1> DEFINE t == sess'[s]
<1>11. t.pc = "COMPLETE" /\ t.req = q /\ t.row = row /\ t.id = id
  BY <1>3
<1> HIDE DEF t
<1>12. SessOK(t, table, keyRows)
  <2>1. ReadOK(t, table)
    BY <1>5, <1>11 DEF ReadOK, PatchOf
  <2>2. RowOK(t, table)
    BY <1>1, <1>8, <1>9, <1>11 DEF RowOK
  <2>3. KeyOK(t, keyRows)
    BY <1>2, <1>4, <1>11 DEF SessOK, KeyOK, WithKey
  <2>4. QED
    BY <1>5, <1>11, <2>1, <2>2, <2>3 DEF SessOK, AfterRead
<1>13. \A z \in Sessions \ {s} : PairOK(t, sess[z]) /\ PairOK(sess[z], t)
  <2> SUFFICES ASSUME NEW z \in Sessions \ {s}
               PROVE  PairOK(t, sess[z]) /\ PairOK(sess[z], t)
    OBVIOUS
  <2>1. PairOK(sess[s], sess[z]) /\ PairOK(sess[z], sess[s])
    BY <1>4
  <2>2. sess[z].pc \in WithRow =>
          /\ id # sess[z].id
          /\ ~SameName(row, sess[z].row) /\ ~SameName(sess[z].row, row)
    BY <1>10 DEF SameName
  <2>3. QED
    BY <1>2, <1>11, <2>1, <2>2 DEF PairOK, WithKey, WithLock
<1>14. QED
  BY <1>3, <1>2, <1>12, <1>13, QuietStep DEF t

(* What is known of the session that commits, and of the table after it.    *)
LEMMA CommitFacts ==
  ASSUME AdminInv, NEW s \in Sessions, Commit(s)
  PROVE  LET u == sess[s]
         IN  /\ u.pc = "COMMIT" /\ u.req \in Requests /\ Known(u.req, table)
             /\ u.row \in Row /\ u.id \in Rows
             /\ ReadOK(u, table) /\ RowOK(u, table) /\ KeyOK(u, keyRows)
             /\ DOMAIN table' = DOMAIN table \cup {u.id}
             /\ table'[u.id] = u.row
             /\ \A j \in DOMAIN table \ {u.id} : table'[j] = table[j]
             /\ u.req.target = 0 => u.id \notin DOMAIN table
             /\ u.req.target # 0 =>
                  /\ u.id = u.req.target
                  /\ u.id \in DOMAIN table
                  /\ table[u.id].version = u.req.viewed
                  /\ u.row = Written(table[u.id], u.req.payload)
                  /\ u.row.version = u.req.viewed + 1
                  /\ u.row.kind = table[u.id].kind
                  /\ u.row.tenant = table[u.id].tenant
<1> DEFINE u == sess[s]
<1>1. u.pc = "COMMIT" /\ table' = [i \in DOMAIN table \cup {u.id} |-> IF i = u.id THEN u.row ELSE table[i]]
  BY DEF Commit
<1>2. SessOK(u, table, keyRows) /\ TableOK(table)
  BY DEF AdminInv
<1> HIDE DEF u
<1>3. /\ u.req \in Requests /\ Known(u.req, table) /\ ReadOK(u, table) /\ RowOK(u, table)
      /\ KeyOK(u, keyRows)
      /\ u.req.target # 0 => table[u.req.target].version = u.req.viewed
  BY <1>1, <1>2 DEF SessOK, AfterRead, WithKey, WithLock, WithRow
<1>4. u.row \in Row
  BY <1>3 DEF ReadOK
<1>5. u.req.target # 0 => u.id = u.req.target /\ u.id \in DOMAIN table
  BY <1>3 DEF RowOK, Known
<1>6. u.req.target = 0 => u.id \in Rows \ DOMAIN table
  BY <1>3 DEF RowOK
<1>7. u.req.target # 0 => /\ u.row = Written(table[u.id], u.req.payload)
                         /\ u.row.version = u.req.viewed + 1
  BY <1>3, <1>5 DEF ReadOK, PatchOf
<1>8. u.req.target # 0 => u.row.kind = table[u.id].kind /\ u.row.tenant = table[u.id].tenant
  BY <1>2, <1>3, <1>5, NameOfRow
<1>9. u.id \in Rows
  BY <1>2, <1>5, <1>6 DEF TableOK
<1>10. QED
  BY <1>1, <1>3, <1>4, <1>5, <1>6, <1>7, <1>8, <1>9 DEF u

(* Two creations under way with one payload would have one name.            *)
LEMMA PayloadsDiffer ==
  ASSUME NEW t, NEW u, NEW T, t.req \in Requests, u.req \in Requests,
         ReadOK(t, T), ReadOK(u, T), Unscoped(t.req), SameKey(u.req, t.req),
         ~SameName(t.row, u.row)
  PROVE  u.req.payload # t.req.payload
<1>1. /\ Unscoped(u.req) /\ u.req.tenant = t.req.tenant
      /\ u.req.target = 0 /\ t.req.target = 0
      /\ u.req.kind = "ENTITY" /\ t.req.kind = "ENTITY"
  BY DEF SameKey, Unscoped
<1>2. /\ t.row = Written(Blank(t.req), t.req.payload)
      /\ u.row = Written(Blank(u.req), u.req.payload)
  BY <1>1 DEF ReadOK
<1>3. "name" \in DOMAIN t.req.payload /\ "name" \in DOMAIN u.req.payload
  BY <1>1, RequestFacts
<1>4. t.row.kind = "ENTITY" /\ t.row.tenant = t.req.tenant /\ t.row.name = t.req.payload["name"]
  BY <1>1, <1>2, <1>3, BlankRow, WrittenFields
<1>5. u.row.kind = "ENTITY" /\ u.row.tenant = u.req.tenant /\ u.row.name = u.req.payload["name"]
  BY <1>1, <1>2, <1>3, BlankRow, WrittenFields
<1>6. QED
  BY <1>1, <1>4, <1>5 DEF SameName

(* A commit leaves the others what they rely on: it makes a version they    *)
(* have not seen, and takes none of their names, ids and keys.              *)
LEMMA CommitStep ==
  ASSUME AdminInv, NEW s \in Sessions, Commit(s)
  PROVE  AdminInv'
<1> DEFINE u == sess[s]
<1>1. /\ u.pc = "COMMIT" /\ u.req \in Requests /\ Known(u.req, table)
      /\ u.row \in Row /\ u.id \in Rows
      /\ ReadOK(u, table) /\ RowOK(u, table)
      /\ DOMAIN table' = DOMAIN table \cup {u.id}
      /\ table'[u.id] = u.row
      /\ \A j \in DOMAIN table \ {u.id} : table'[j] = table[j]
      /\ u.req.target = 0 => u.id \notin DOMAIN table
      /\ u.req.target # 0 =>
           /\ u.id = u.req.target
           /\ u.id \in DOMAIN table
           /\ table[u.id].version = u.req.viewed
           /\ u.row.version = u.req.viewed + 1
           /\ u.row.kind = table[u.id].kind
           /\ u.row.tenant = table[u.id].tenant
  BY CommitFacts
<1>2. /\ TableOK(table) /\ \A z \in Sessions \ {s} :
           SessOK(sess[z], table, keyRows) /\ PairOK(sess[z], u) /\ PairOK(u, sess[z])
  BY DEF AdminInv
<1>3. /\ keyRows' = keyRows \cup {[req |-> u.req, id |-> u.id, row |-> u.row]}
      /\ sess' = [sess EXCEPT ![s] = Idle]
      /\ table' = [i \in DOMAIN table \cup {u.id} |-> IF i = u.id THEN u.row ELSE table[i]]
  BY DEF Commit
<1>4. /\ sess'[s] = Idle /\ \A z \in Sessions \ {s} : sess'[z] = sess[z]
      /\ DOMAIN sess' = Sessions
  BY <1>3 DEF AdminInv
<1> HIDE DEF u
<1>5. /\ FreeIn(table, u.id, u.row)
      /\ \A j \in DOMAIN table : table'[j].kind = table[j].kind /\ table'[j].tenant = table[j].tenant
  BY <1>1 DEF RowOK
<1>6. TableOK(table')
  <2>1. {1, 2} \subseteq DOMAIN table' /\ DOMAIN table' \subseteq Rows
    BY <1>1, <1>2 DEF TableOK
  <2>2. table' \in [DOMAIN table' -> Row]
    BY <1>1, <1>2, <1>3 DEF TableOK
  <2>3. \A i \in DOMAIN table' : FreeIn(table', i, table'[i])
    BY <1>1, <1>2, <1>5 DEF TableOK, FreeIn, SameName
  <2>4. QED
    BY <2>1, <2>2, <2>3 DEF TableOK
<1>7. \A k \in keyRows' : k.id \in DOMAIN table' /\ k.row \in Row
  BY <1>1, <1>3 DEF AdminInv
<1>8. ASSUME NEW z \in Sessions \ {s}
      PROVE  SessOK(sess[z], table', keyRows')
  <2> DEFINE t == sess[z]
  <2>1. SessOK(t, table, keyRows) /\ PairOK(t, u) /\ PairOK(u, t)
    BY <1>2
  <2> HIDE DEF t
  <2>2. t.pc # "IDLE" => t.req \in Requests /\ Known(t.req, table) /\ Known(t.req, table')
    BY <1>1, <2>1 DEF SessOK, Known
  <2>3. ASSUME t.pc \in AfterRead
        PROVE  ReadOK(t, table')
    <3>1. ReadOK(t, table) /\ t.req \in Requests /\ Known(t.req, table)
      BY <2>1, <2>2, <2>3 DEF SessOK, AfterRead
    <3>2. ParentIn(table', t.req)
      BY <1>1, <1>5, <3>1 DEF ReadOK, ParentIn
    <3>3. ASSUME t.req.target # 0
          PROVE  PatchOf(t, table')
      <4>1. PatchOf(t, table) /\ t.req.target \in DOMAIN table
        BY <3>1, <3>3 DEF ReadOK, Known
      <4>2. CASE t.req.target = u.id
        <5>1. table[u.id].version = u.req.viewed /\ u.row.version = u.req.viewed + 1
          BY <1>1, <4>1, <4>2
        <5>2. t.req.viewed \in Nat /\ u.req.viewed \in Nat
          BY <1>1, <3>1, RequestFacts
        <5>3. t.req.viewed < u.row.version
          BY <4>1, <4>2, <5>1, <5>2 DEF PatchOf
        <5>4. QED
          BY <1>1, <1>5, <4>1, <4>2, <5>1, <5>2, <5>3 DEF PatchOf
      <4>3. CASE t.req.target # u.id
        <5>1. table'[t.req.target] = table[t.req.target]
          BY <1>1, <4>1, <4>3
        <5>2. QED
          BY <4>1, <5>1 DEF PatchOf
      <4>4. QED
        BY <4>2, <4>3
    <3>4. QED
      BY <3>1, <3>2, <3>3 DEF ReadOK
  <2>4. ASSUME t.pc \in WithLock, t.req.target # 0
        PROVE  table'[t.req.target].version = t.req.viewed
    <3>1. t.req.target \in DOMAIN table /\ table[t.req.target].version = t.req.viewed
      BY <2>1, <2>2, <2>4 DEF SessOK, Known, WithLock
    <3>2. t.req.target # u.id
      BY <1>1, <2>1, <2>4, <3>1 DEF PairOK, WithLock
    <3>3. QED
      BY <1>1, <3>1, <3>2
  <2>5. ASSUME t.pc \in WithRow
        PROVE  RowOK(t, table')
    <3>1. RowOK(t, table) /\ t.id # u.id /\ ~SameName(u.row, t.row)
      BY <1>1, <2>1, <2>5 DEF SessOK, PairOK, WithRow
    <3>2. QED
      BY <1>1, <3>1 DEF RowOK, FreeIn
  <2>6. ASSUME t.pc \in WithKey
        PROVE  KeyOK(t, keyRows')
    <3>1. KeyOK(t, keyRows) /\ (~Unscoped(t.req) => ~SameKey(u.req, t.req))
      BY <1>1, <2>1, <2>6 DEF SessOK, PairOK, WithKey
    <3>2. ASSUME t.pc = "COMMIT", SameKey(u.req, t.req)
          PROVE  u.req.payload # t.req.payload
      <4>1. ~SameName(t.row, u.row) /\ Unscoped(t.req)
        BY <1>1, <2>1, <3>1, <3>2 DEF PairOK, WithRow
      <4>2. t.req \in Requests /\ ReadOK(t, table)
        BY <2>1, <2>2, <3>2 DEF SessOK, AfterRead
      <4>3. QED
        BY <1>1, <3>2, <4>1, <4>2, PayloadsDiffer
    <3>3. QED
      BY <1>3, <3>1, <3>2 DEF KeyOK
  <2>7. SessOK(t, table', keyRows')
    BY <2>1, <2>2, <2>3, <2>4, <2>5, <2>6 DEF SessOK
  <2>8. QED
    BY <2>7 DEF t
<1>9. SessOK(Idle, table', keyRows')
  BY DEF SessOK, Idle, AfterRead, WithKey, WithLock, WithRow
<1>10. \A y, z \in Sessions : y # z => PairOK(sess'[y], sess'[z])
  BY <1>4 DEF AdminInv, PairOK, Idle, WithKey, WithLock, WithRow
<1>11. QED
  BY <1>4, <1>6, <1>7, <1>8, <1>9, <1>10 DEF AdminInv

-----------------------------------------------------------------------------
(* The steps are these.                                                     *)
LEMMA Steps ==
  ASSUME [Next]_vars
  PROVE  \/ UNCHANGED vars
         \/ \E s \in Sessions :
              \/ (\E q \in Requests : Begin(s, q)) \/ Abort(s)
              \/ Read(s) \/ CheckName(s) \/ ClaimKey(s) \/ LockRow(s) \/ WriteRow(s)
              \/ Complete(s) \/ Commit(s)
BY DEF Next

(* The invariant of the administration, for any number of sessions.         *)
THEOREM AdminInvariance == Spec => []AdminInv
<1>1. AdminInv /\ [Next]_vars => AdminInv'
  <2> SUFFICES ASSUME AdminInv, [Next]_vars
               PROVE  AdminInv'
    OBVIOUS
  <2>1. CASE UNCHANGED vars
    BY <2>1 DEF vars, AdminInv, TableOK, FreeIn, SameName
  <2>2. ASSUME NEW s \in Sessions,
               \/ (\E q \in Requests : Begin(s, q)) \/ Abort(s)
               \/ Read(s) \/ CheckName(s) \/ ClaimKey(s) \/ LockRow(s) \/ WriteRow(s)
               \/ Complete(s) \/ Commit(s)
        PROVE  AdminInv'
    BY <2>2, StartAndEnd, ReadStep, CheckNameStep, ClaimKeyStep, LockRowStep, WriteRowStep,
       CompleteStep, CommitStep
  <2>3. QED
    BY <2>1, <2>2, Steps
<1>2. QED
  BY <1>1, InitialStates, PTL DEF Spec

(* A commit is an answer as Directory promises it.                          *)
LEMMA CommitAnswers ==
  ASSUME AdminInv, NEW s \in Sessions, Commit(s)
  PROVE  Promise!Next
<1> DEFINE u == sess[s]
           d == [req |-> u.req, id |-> u.id, row |-> u.row]
<1>1. /\ u.pc = "COMMIT" /\ u.req \in Requests /\ u.row \in Row /\ u.id \in Rows
      /\ ReadOK(u, table) /\ RowOK(u, table) /\ KeyOK(u, keyRows)
      /\ u.req.target = 0 => u.id \notin DOMAIN table
      /\ u.req.target # 0 =>
           /\ u.id = u.req.target
           /\ u.id \in DOMAIN table
           /\ table[u.id].version = u.req.viewed
           /\ u.row = Written(table[u.id], u.req.payload)
           /\ u.row.kind = table[u.id].kind
           /\ u.row.tenant = table[u.id].tenant
  BY CommitFacts
<1>2. /\ keyRows' = keyRows \cup {d}
      /\ table' = [i \in DOMAIN table \cup {u.id} |-> IF i = u.id THEN u.row ELSE table[i]]
  BY DEF Commit
<1>3. d.req = u.req /\ d.id = u.id /\ d.row = u.row
  OBVIOUS
<1> HIDE DEF u, d
<1>4. Promise!KeyFresh(u.req)
  BY <1>1 DEF Promise!KeyFresh, KeyOK, SameKey, Unscoped
<1>5. d \notin keyRows
  BY <1>1, <1>3 DEF KeyOK, SameKey
<1>6. Promise!NameFree(u.id, u.row)
  BY <1>1 DEF Promise!NameFree, RowOK, FreeIn, SameName
<1>7. u.row = Promise!Written(IF u.req.target = 0 THEN Promise!Blank(u.req) ELSE table[u.id],
                              u.req.payload)
  BY <1>1 DEF Promise!Written, Promise!Blank, Written, Blank, ReadOK
<1>8. "parent" \in DOMAIN u.req.payload => u.req.kind = "ENTITY"
  BY <1>1, RequestFacts
<1>9. ParentIn(table, u.req)
  BY <1>1 DEF ReadOK
<1>10. CASE u.req.target = 0
  <2>1. u.row = Written(Blank(u.req), u.req.payload)
    BY <1>1, <1>10 DEF ReadOK
  <2>2. /\ u.row.tenant = (IF u.req.kind = "ENTITY" THEN u.req.tenant ELSE 0)
        /\ u.row.parent = (IF "parent" \in DOMAIN u.req.payload
                           THEN u.req.payload["parent"] ELSE 0)
    BY <1>1, <2>1, BlankRow, WrittenFields
  <2>3. Promise!ParentKnown(u.row)
    BY <1>8, <1>9, <2>2 DEF Promise!ParentKnown, ParentIn
  <2>4. Promise!Create(u.req, u.id)
    BY <1>1, <1>7, <1>10, <2>3 DEF Promise!Create
  <2>5. Promise!Answer(d.req, d.id, d.row)
    BY <1>2, <1>3, <1>4, <1>6, <1>7, <2>4 DEF Promise!Answer, d
  <2>6. QED
    BY <1>2, <1>5, <2>5 DEF Promise!Next
<1>11. CASE u.req.target # 0
  <2>1. ASSUME "parent" \in DOMAIN u.req.payload
        PROVE  u.req.payload.parent # u.id /\ Promise!ParentKnown(u.row)
    <3>1. u.row.parent = u.req.payload["parent"]
      <4>1. table[u.id] \in Row
        BY <1>1, <1>11 DEF AdminInv, TableOK
      <4>2. QED
        BY <1>1, <1>11, <2>1, <4>1, WrittenFields
    <3>2. u.row.tenant = u.req.tenant
      BY <1>1, <1>8, <1>11, <2>1 DEF ReadOK, PatchOf
    <3>3. 0 \notin Rows
      BY AdminAssumption
    <3>4. QED
      BY <1>1, <1>9, <1>11, <2>1, <3>1, <3>2, <3>3 DEF Promise!ParentKnown, ParentIn
  <2>2. Promise!Change(u.req, u.id)
    BY <1>1, <1>7, <1>11, <2>1 DEF Promise!Change
  <2>3. Promise!Answer(d.req, d.id, d.row)
    BY <1>2, <1>3, <1>4, <1>6, <1>7, <2>2 DEF Promise!Answer, d
  <2>4. QED
    BY <1>2, <1>5, <2>3 DEF Promise!Next
<1>12. QED
  BY <1>10, <1>11

(* Tenants and entities change as Directory promises.                       *)
THEOREM AdminImplementsDirectory == Spec => ImplementsDirectory
<1>1. AdminInv /\ [Next]_vars => [Promise!Next]_<<table, keyRows>>
  <2> SUFFICES ASSUME AdminInv, [Next]_vars
               PROVE  Promise!Next \/ UNCHANGED <<table, keyRows>>
    OBVIOUS
  <2>1. CASE UNCHANGED vars
    BY <2>1 DEF vars
  <2>2. ASSUME NEW s \in Sessions,
               \/ (\E q \in Requests : Begin(s, q)) \/ Abort(s)
               \/ Read(s) \/ CheckName(s) \/ ClaimKey(s) \/ LockRow(s) \/ WriteRow(s)
               \/ Complete(s)
        PROVE  UNCHANGED <<table, keyRows>>
    BY <2>2 DEF Begin, Abort, Read, CheckName, ClaimKey, LockRow, WriteRow, Complete
  <2>3. ASSUME NEW s \in Sessions, Commit(s)
        PROVE  Promise!Next
    BY <2>3, CommitAnswers
  <2>4. QED
    BY <2>1, <2>2, <2>3, Steps
<1>2. QED
  BY <1>1, AdminInvariance, PTL DEF Spec, ImplementsDirectory

-----------------------------------------------------------------------------
(* The history, with the seed at version 1.                                 *)
LEMMA HistoryKept == AdminInv /\ AnswersAreHistory /\ [Next]_vars => AnswersAreHistory'
<1> SUFFICES ASSUME AdminInv, AnswersAreHistory, [Next]_vars
             PROVE  AnswersAreHistory'
  OBVIOUS
<1>1. CASE UNCHANGED <<table, keyRows>>
  BY <1>1 DEF AnswersAreHistory
<1>2. ASSUME NEW s \in Sessions, Commit(s)
      PROVE  AnswersAreHistory'
  <2> DEFINE u == sess[s]
             d == [req |-> u.req, id |-> u.id, row |-> u.row]
             first(i) == IF i \in {1, 2} THEN 2 ELSE 1
  <2>1. /\ u.req \in Requests /\ u.row \in Row /\ ReadOK(u, table)
        /\ DOMAIN table' = DOMAIN table \cup {u.id}
        /\ table'[u.id] = u.row
        /\ \A j \in DOMAIN table \ {u.id} : table'[j] = table[j]
        /\ u.req.target = 0 => u.id \notin DOMAIN table
        /\ u.req.target # 0 =>
             /\ u.id \in DOMAIN table
             /\ table[u.id].version = u.req.viewed
             /\ u.row.version = u.req.viewed + 1
    BY <1>2, CommitFacts
  <2>2. keyRows' = keyRows \cup {d} /\ d.id = u.id /\ d.row = u.row
    BY <1>2 DEF Commit
  <2>3. /\ {1, 2} \subseteq DOMAIN table
        /\ \A k \in keyRows : k.id \in DOMAIN table /\ k.row.version \in Nat
        /\ \A i \in DOMAIN table : table[i].version \in Nat
    BY DEF AdminInv, TableOK, Row
  <2>4. u.req.viewed \in Nat
    BY <2>1, RequestFacts
  <2>5. u.req.target = 0 => u.row.version = 1
    BY <2>1, BlankRow, WrittenFields DEF ReadOK
  <2> HIDE DEF u, d
  <2>6. ASSUME NEW i \in DOMAIN table', i # u.id
        PROVE  /\ i \in DOMAIN table /\ table'[i] = table[i]
               /\ {k \in keyRows' : k.id = i} = {k \in keyRows : k.id = i}
    BY <2>1, <2>2, <2>6
  <2>7. {k \in keyRows' : k.id = u.id} = {k \in keyRows : k.id = u.id} \cup {d}
    BY <2>2
  <2>8. ASSUME NEW i \in DOMAIN table'
        PROVE  LET answers == {k \in keyRows' : k.id = i}
               IN  /\ \A v \in first(i) .. table'[i].version :
                        \E k \in answers : k.row.version = v
                   /\ \A k \in answers : k.row.version <= table'[i].version
                   /\ \A k, l \in answers : k.row.version = l.row.version => k = l
                   /\ \A k \in answers : k.row.version = table'[i].version => k.row = table'[i]
    <3>1. CASE i # u.id
      BY <2>6, <2>8, <3>1 DEF AnswersAreHistory
    <3>2. CASE i = u.id /\ u.req.target = 0
      <4>1. /\ {k \in keyRows' : k.id = i} = {d} /\ i \notin {1, 2}
            /\ table'[i] = u.row /\ u.row.version = 1
        BY <2>1, <2>3, <2>5, <2>7, <3>2
      <4>2. QED
        BY <2>2, <4>1
    <3>3. CASE i = u.id /\ u.req.target # 0
      <4> DEFINE old == {k \in keyRows : k.id = i}
                 new == {k \in keyRows' : k.id = i}
                 w == table[i].version
      <4>1. /\ new = old \cup {d} /\ w \in Nat /\ d.row.version = w + 1
            /\ table'[i] = d.row /\ i \in DOMAIN table
        BY <2>1, <2>2, <2>3, <2>7, <3>3
      <4>2. /\ \A v \in first(i) .. w : \E k \in old : k.row.version = v
            /\ \A k \in old : k.row.version <= w /\ k.row.version \in Nat
            /\ \A k, l \in old : k.row.version = l.row.version => k = l
        BY <2>3, <4>1 DEF AnswersAreHistory
      <4> HIDE DEF old, new, w, first
      <4>3. \A v \in first(i) .. (w + 1) : v \in first(i) .. w \/ v = w + 1
        BY <4>1 DEF first
      <4>4. \A v \in first(i) .. (w + 1) : \E k \in new : k.row.version = v
        BY <4>1, <4>2, <4>3
      <4>5. \A k \in old : k.row.version # w + 1
        BY <4>1, <4>2
      <4>6. \A k \in new : k.row.version <= w + 1
        BY <4>1, <4>2
      <4>7. \A k, l \in new : k.row.version = l.row.version => k = l
        BY <4>1, <4>2, <4>5
      <4>8. \A k \in new : k.row.version = w + 1 => k.row = d.row
        BY <4>1, <4>5
      <4>9. QED
        BY <4>1, <4>4, <4>6, <4>7, <4>8 DEF new
    <3>4. QED
      BY <3>1, <3>2, <3>3
  <2>9. QED
    BY <2>8 DEF AnswersAreHistory
<1>3. ASSUME NEW s \in Sessions,
             \/ (\E q \in Requests : Begin(s, q)) \/ Abort(s)
             \/ Read(s) \/ CheckName(s) \/ ClaimKey(s) \/ LockRow(s) \/ WriteRow(s)
             \/ Complete(s)
      PROVE  UNCHANGED <<table, keyRows>>
  BY <1>3 DEF Begin, Abort, Read, CheckName, ClaimKey, LockRow, WriteRow, Complete
<1>4. CASE UNCHANGED vars
  BY <1>1, <1>4 DEF vars
<1>5. QED
  BY <1>1, <1>2, <1>3, <1>4, Steps

(* What clients are told is what happened to the rows.                      *)
THEOREM AdminHistory == Spec => []AnswersAreHistory
<1>1. Init => AnswersAreHistory
  <2> SUFFICES ASSUME Init
               PROVE  AnswersAreHistory
    OBVIOUS
  <2>1. keyRows = {} /\ DOMAIN table = {1, 2} /\ \A i \in {1, 2} : table[i].version = 1
    BY DEF Init
  <2>2. QED
    BY <2>1 DEF AnswersAreHistory
<1>2. QED
  BY <1>1, HistoryKept, AdminInvariance, PTL DEF Spec
=============================================================================
