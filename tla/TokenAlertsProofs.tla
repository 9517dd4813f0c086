--------------------------- MODULE TokenAlertsProofs ---------------------------
(***************************************************************************)
(* Machine-checked proofs about TokenAlerts, for any number of users,      *)
(* alerts and requests in flight.                                          *)
(***************************************************************************)
EXTENDS TokenAlerts, TLAPS

(* The values a row and a body are built from.                             *)
LEMMA MergeType ==
  ASSUME NEW c \in Condition, NEW p \in Patches \cup {NoPatch}
  PROVE  /\ Merge(c, p) \in Condition
         /\ ~Keyed(p) => Merge(c, p) = c
  <1>1. p \in Patch
    BY PatchesAssumption DEF Patch, NoPatch
  <1>2. Merge(c, p) \in Condition
    BY <1>1 DEF Merge, Condition, Patch
  <1>3. ~Keyed(p) => Merge(c, p) = c
    BY <1>1 DEF Merge, Keyed, Condition, Patch
  <1> QED BY <1>2, <1>3

LEMMA StoredType ==
  ASSUME NEW c \in Condition
  PROVE  Stored(c) \in Condition /\ Stored(Stored(c)) = Stored(c)
  BY ColumnAssumption DEF Stored, Condition

LEMMA PatchedType ==
  ASSUME NEW row \in Row, NEW p \in Patches \cup {NoPatch}
  PROVE  /\ Patched(row, p) \in Row
         /\ Patched(row, p).owner = IF p.owner = Absent THEN row.owner ELSE p.owner
         /\ Patched(row, p).cond = Stored(Merge(row.cond, p))
  <1>1. p \in Patch
    BY PatchesAssumption DEF Patch, NoPatch
  <1>2. row.cond \in Condition
    BY DEF Row
  <1>3. Stored(Merge(row.cond, p)) \in Condition
    BY <1>2, MergeType, StoredType
  <1>4. (IF p.active = Absent THEN row.active ELSE p.active) \in BOOLEAN
    BY <1>1 DEF Patch, Row
  <1>5. (IF p.owner = Absent THEN row.owner ELSE p.owner) \in User
    BY <1>1 DEF Patch, Row
  <1> QED BY <1>3, <1>4, <1>5 DEF Patched, Row

-------------------------------------------------------------------------------
(* Type correctness.                                                       *)
LEMMA CommitType ==
  ASSUME TypeOK, NEW r \in Req, Pending(r),
         NEW table \in [AlertId -> Row \cup {NoAlert}], Commit(r, table)
  PROVE  /\ req' \in [Req -> InFlight \cup {NoRequest}]
         /\ holders' \in [AlertId -> SUBSET User]
  <1>1. \A q \in Req : Pending(q) => [req[q] EXCEPT !.stale = TRUE] \in InFlight
    BY DEF TypeOK, Pending, InFlight
  <1>2. ASSUME NEW a \in AlertId, table[a] # NoAlert
        PROVE  holders[a] \cup {table[a].owner} \in SUBSET User
    <2>1. table[a].owner \in User
      BY <1>2 DEF Row
    <2> QED BY <2>1 DEF TypeOK
  <1>3. holders' \in [AlertId -> SUBSET User]
    BY <1>2 DEF Commit
  <1>4. req' \in [Req -> InFlight \cup {NoRequest}]
    BY <1>1 DEF Commit, TypeOK, Pending
  <1> QED BY <1>3, <1>4

LEMMA HoldType ==
  ASSUME TypeOK, NEW r \in Req,
         NEW pc \in {"check", "write"}, NEW op \in Op, NEW u \in User,
         NEW id \in AlertId \cup {NoAlert}, NEW c \in Condition,
         NEW p \in Patches \cup {NoPatch},
         op = "create" <=> id = NoAlert,
         pc = "check" => op \in {"update", "activate"},
         op # "update" => p = NoPatch,
         Hold(r, pc, op, u, id, c, p)
  PROVE  TypeOK'
  <1> DEFINE q == [pc |-> pc, op |-> op, user |-> u, id |-> id,
                   cond |-> c, patch |-> p, stale |-> FALSE]
  <1>1. q \in InFlight
    BY DEF InFlight
  <1>2. req' = [req EXCEPT ![r] = q] /\ UNCHANGED <<alerts, unchecked, holders>>
    BY DEF Hold
  <1> QED BY <1>1, <1>2 DEF TypeOK, AlertsTypeOK

LEMMA RowTypes ==
  ASSUME TypeOK, NEW a \in AlertId, Exists(a)
  PROVE  alerts[a] \in Row /\ alerts[a].cond \in Condition
  BY DEF TypeOK, AlertsTypeOK, Exists, Row

LEMMA RequestTypes ==
  ASSUME TypeOK, NEW r \in Req, Pending(r)
  PROVE  /\ req[r] \in InFlight
         /\ req[r].op # "create" => req[r].id \in AlertId
  BY DEF TypeOK, Pending, InFlight

LEMMA BeginType ==
  ASSUME TypeOK, NEW r \in Req, Begin(r)
  PROVE  TypeOK'
  <1>1. PICK u \in User :
          \/ \E c \in Condition : BeginCreate(r, u, c)
          \/ \E a \in AlertId :
               \/ \E p \in Patches : BeginUpdate(r, u, a, p)
               \/ BeginActivate(r, u, a)
               \/ BeginDeactivate(r, u, a)
               \/ BeginDelete(r, u, a)
    BY DEF Begin
  <1>2. \A a \in AlertId : a # NoAlert
    BY NoAlertAssumption
  <1>3. ASSUME NEW c \in Condition, BeginCreate(r, u, c)
        PROVE  TypeOK'
    BY <1>3, HoldType DEF BeginCreate, Op
  <1>4. ASSUME NEW a \in AlertId, NEW p \in Patches, BeginUpdate(r, u, a, p)
        PROVE  TypeOK'
    <2>1. Merge(alerts[a].cond, p) \in Condition
      BY <1>4, RowTypes, MergeType DEF BeginUpdate, Owned
    <2> QED BY <2>1, <1>2, <1>4, HoldType DEF BeginUpdate, Op
  <1>5. ASSUME NEW a \in AlertId, BeginActivate(r, u, a)
        PROVE  TypeOK'
    BY <1>2, <1>5, RowTypes, HoldType DEF BeginActivate, Owned, Op
  <1>6. ASSUME NEW a \in AlertId, BeginDeactivate(r, u, a)
        PROVE  TypeOK'
    BY <1>2, <1>6, RowTypes, HoldType DEF BeginDeactivate, Owned, Op
  <1>7. ASSUME NEW a \in AlertId, BeginDelete(r, u, a)
        PROVE  TypeOK'
    BY <1>2, <1>7, RowTypes, HoldType DEF BeginDelete, Owned, Op
  <1> QED BY <1>1, <1>3, <1>4, <1>5, <1>6, <1>7

LEMMA WriteType ==
  ASSUME TypeOK, NEW r \in Req, Write(r)
  PROVE  TypeOK'
  <1>1. ASSUME NEW a \in AlertId, NEW row \in Row \cup {NoAlert}, Pending(r),
               Commit(r, [alerts EXCEPT ![a] = row]), unchecked' \subseteq AlertId
        PROVE  TypeOK'
    <2>1. [alerts EXCEPT ![a] = row] \in [AlertId -> Row \cup {NoAlert}]
      BY <1>1 DEF TypeOK, AlertsTypeOK
    <2>2. /\ req' \in [Req -> InFlight \cup {NoRequest}]
          /\ holders' \in [AlertId -> SUBSET User]
      BY <1>1, <2>1, CommitType
    <2> QED BY <1>1, <2>1, <2>2 DEF Commit, TypeOK, AlertsTypeOK
  <1>2. ASSUME NEW a \in AlertId, WriteCreate(r, a)
        PROVE  TypeOK'
    <2>1. req[r] \in InFlight
      BY <1>2, RequestTypes DEF WriteCreate
    <2>2. NewRow(req[r].user, req[r].cond) \in Row
      BY <2>1, StoredType DEF NewRow, Row, InFlight
    <2>3. unchecked' \subseteq AlertId
      BY <1>2 DEF WriteCreate, TypeOK
    <2> QED BY <1>1, <1>2, <2>2, <2>3 DEF WriteCreate
  <1>3. CASE WriteUpdate(r)
    <2> DEFINE a == req[r].id
    <2>1. Pending(r) /\ Exists(a) /\ a \in AlertId
      BY <1>3, RequestTypes DEF WriteUpdate
    <2>2. Patched(alerts[a], req[r].patch) \in Row
      BY <2>1, RowTypes, RequestTypes, PatchedType DEF InFlight
    <2>3. unchecked' \subseteq AlertId
      BY <1>3, <2>1 DEF WriteUpdate, TypeOK
    <2>4. Commit(r, [alerts EXCEPT ![a] = Patched(alerts[a], req[r].patch)])
      BY <1>3 DEF WriteUpdate
    <2> QED BY <1>1, <2>1, <2>2, <2>3, <2>4
  <1>4. CASE WriteActivate(r)
    <2> DEFINE a == req[r].id
    <2>1. Pending(r) /\ Exists(a) /\ a \in AlertId
      BY <1>4, RequestTypes DEF WriteActivate
    <2>2. [alerts[a] EXCEPT !.active = TRUE] \in Row
      BY <2>1, RowTypes DEF Row
    <2>3. unchecked' \subseteq AlertId
      BY <1>4, <2>1 DEF WriteActivate, TypeOK
    <2> QED BY <1>1, <1>4, <2>1, <2>2, <2>3 DEF WriteActivate
  <1>5. CASE WriteDeactivate(r)
    <2> DEFINE a == req[r].id
    <2>1. Pending(r) /\ Exists(a) /\ a \in AlertId
      BY <1>5, RequestTypes DEF WriteDeactivate
    <2>2. [alerts[a] EXCEPT !.active = FALSE] \in Row
      BY <2>1, RowTypes DEF Row
    <2>3. unchecked' \subseteq AlertId
      BY <1>5 DEF WriteDeactivate, TypeOK
    <2> QED BY <1>1, <1>5, <2>1, <2>2, <2>3 DEF WriteDeactivate
  <1>6. CASE WriteDelete(r)
    <2>1. Pending(r) /\ req[r].id \in AlertId
      BY <1>6, RequestTypes DEF WriteDelete
    <2>2. unchecked' \subseteq AlertId
      BY <1>6 DEF WriteDelete, TypeOK
    <2> QED BY <1>1, <1>6, <2>1, <2>2 DEF WriteDelete
  <1> QED BY <1>2, <1>3, <1>4, <1>5, <1>6 DEF Write

LEMMA NextType ==
  ASSUME TypeOK, [Next]_vars
  PROVE  TypeOK'
  <1>1. CASE UNCHANGED vars
    BY <1>1 DEF TypeOK, AlertsTypeOK, vars
  <1>2. ASSUME NEW r \in Req, CheckDuplicate(r)
        PROVE  TypeOK'
    <2>1. req[r] \in InFlight
      BY <1>2, RequestTypes DEF CheckDuplicate
    <2>2. [req[r] EXCEPT !.pc = "write"] \in InFlight
      BY <2>1 DEF InFlight
    <2> QED BY <1>2, <2>2 DEF CheckDuplicate, TypeOK, AlertsTypeOK
  <1>3. ASSUME NEW r \in Req, Refuse(r)
        PROVE  TypeOK'
    BY <1>3 DEF Refuse, TypeOK, AlertsTypeOK
  <1> QED BY <1>1, <1>2, <1>3, BeginType, WriteType DEF Next, Step

(* Every reachable state is well typed, whatever the sets of users,        *)
(* symbols, prices and requests.                                           *)
THEOREM TypeCorrect == Spec => []TypeOK
  <1>1. Init => TypeOK
    BY DEF Init, RequestsInit, TypeOK, AlertsTypeOK
  <1>2. TypeOK /\ [Next]_vars => TypeOK'
    BY NextType
  <1> QED BY <1>1, <1>2, PTL DEF Spec

-------------------------------------------------------------------------------
(* What a write does to the table: who writes row a, and what is written.  *)
OwnerBefore(r, a) == IF Exists(a) THEN alerts[a].owner ELSE req[r].user

OneRow(r, a, row) ==
  /\ alerts' = [alerts EXCEPT ![a] = row]
  /\ Exists(a) => /\ req[r].user \in holders[a]
                  /\ ~req[r].stale => alerts[a].owner = req[r].user
  /\ row # NoAlert =>
       /\ row \in Row
       /\ Stored(row.cond) = row.cond
       /\ row.owner # OwnerBefore(r, a) =>
            req[r].op = "update" /\ req[r].patch.owner = row.owner
  /\ ~Exists(a) /\ row # NoAlert => \A q \in Req : ~Refers(q, a)

LEMMA CreateRow ==
  ASSUME DuplicateInv, NEW r \in Req, NEW a \in AlertId, WriteCreate(r, a)
  PROVE  OneRow(r, a, NewRow(req[r].user, req[r].cond))
  <1> DEFINE row == NewRow(req[r].user, req[r].cond)
  <1>1. req[r] \in InFlight
    BY RequestTypes DEF WriteCreate, DuplicateInv
  <1>2. row \in Row /\ row.owner = req[r].user /\ Stored(row.cond) = row.cond
    BY <1>1, StoredType DEF NewRow, Row, InFlight
  <1>3. ~Exists(a) /\ \A q \in Req : ~Refers(q, a)
    BY DEF WriteCreate, Fresh
  <1>4. alerts' = [alerts EXCEPT ![a] = row]
    BY DEF WriteCreate, Commit
  <1> QED BY <1>2, <1>3, <1>4 DEF OneRow, OwnerBefore

LEMMA WrittenRow ==
  ASSUME DuplicateInv, NEW r \in Req, Pending(r), req[r].op # "create", Exists(req[r].id)
  PROVE  /\ req[r].id \in AlertId
         /\ alerts[req[r].id] \in Row
         /\ req[r].user \in holders[req[r].id]
         /\ ~req[r].stale => alerts[req[r].id].owner = req[r].user
         /\ Stored(alerts[req[r].id].cond) = alerts[req[r].id].cond
  <1>1. req[r].id \in AlertId
    BY RequestTypes DEF DuplicateInv
  <1> QED BY <1>1, RowTypes DEF DuplicateInv, RowsStored, HoldersAsk, UpToDate, Refers

LEMMA UpdateRow ==
  ASSUME DuplicateInv, NEW r \in Req, WriteUpdate(r)
  PROVE  OneRow(r, req[r].id, Patched(alerts[req[r].id], req[r].patch))
  <1> DEFINE a == req[r].id
             row == Patched(alerts[a], req[r].patch)
  <1>1. Pending(r) /\ req[r].op = "update" /\ Exists(a)
    BY DEF WriteUpdate
  <1>2. /\ a \in AlertId /\ alerts[a] \in Row /\ req[r].user \in holders[a]
        /\ ~req[r].stale => alerts[a].owner = req[r].user
    BY <1>1, WrittenRow
  <1>3. req[r].patch \in Patches \cup {NoPatch}
    BY <1>1, RequestTypes DEF InFlight, DuplicateInv
  <1>4. Merge(alerts[a].cond, req[r].patch) \in Condition
    BY <1>2, <1>3, MergeType DEF Row
  <1>5. /\ row \in Row /\ Stored(row.cond) = row.cond
        /\ row.owner # alerts[a].owner => req[r].patch.owner = row.owner
    BY <1>2, <1>3, <1>4, PatchedType, StoredType
  <1>6. alerts' = [alerts EXCEPT ![a] = row]
    BY DEF WriteUpdate, Commit
  <1> QED BY <1>1, <1>2, <1>5, <1>6 DEF OneRow, OwnerBefore

LEMMA ActivateRow ==
  ASSUME DuplicateInv, NEW r \in Req, WriteActivate(r)
  PROVE  OneRow(r, req[r].id, [alerts[req[r].id] EXCEPT !.active = TRUE])
  <1>1. Pending(r) /\ req[r].op = "activate" /\ Exists(req[r].id)
    BY DEF WriteActivate
  <1>2. alerts' = [alerts EXCEPT ![req[r].id].active = TRUE]
    BY DEF WriteActivate, Commit
  <1> QED BY <1>1, <1>2, WrittenRow DEF OneRow, OwnerBefore, Row

LEMMA DeactivateRow ==
  ASSUME DuplicateInv, NEW r \in Req, WriteDeactivate(r)
  PROVE  OneRow(r, req[r].id, [alerts[req[r].id] EXCEPT !.active = FALSE])
  <1>1. Pending(r) /\ req[r].op = "deactivate" /\ Exists(req[r].id)
    BY DEF WriteDeactivate
  <1>2. alerts' = [alerts EXCEPT ![req[r].id].active = FALSE]
    BY DEF WriteDeactivate, Commit
  <1> QED BY <1>1, <1>2, WrittenRow DEF OneRow, OwnerBefore, Row

LEMMA DeleteRow ==
  ASSUME DuplicateInv, NEW r \in Req, WriteDelete(r)
  PROVE  OneRow(r, req[r].id, NoAlert)
  <1>1. Pending(r) /\ req[r].op = "delete" /\ Exists(req[r].id)
    BY DEF WriteDelete
  <1>2. alerts' = [alerts EXCEPT ![req[r].id] = NoAlert]
    BY DEF WriteDelete, Commit
  <1> QED BY <1>1, <1>2, WrittenRow DEF OneRow, OwnerBefore

-------------------------------------------------------------------------------
(* A write keeps what the requests in flight rely on: those whose user it  *)
(* disturbs become stale, and those of other users never look at the row.  *)
LEMMA WriteKeepsRequests ==
  ASSUME DuplicateInv, NEW r \in Req, Pending(r), NEW a \in AlertId, NEW row,
         OneRow(r, a, row), Commit(r, [alerts EXCEPT ![a] = row])
  PROVE  RowsStored' /\ HoldersAsk' /\ (\A q \in Req : UpToDate(q)')
  <1>1. alerts' = [alerts EXCEPT ![a] = row] /\ alerts'[a] = row
        /\ \A b \in AlertId \ {a} : alerts'[b] = alerts[b]
    BY DEF OneRow, DuplicateInv, TypeOK, AlertsTypeOK
  <1>2. req'[r] = NoRequest
    BY DEF Commit
  <1>3. ASSUME NEW q \in Req, Pending(q)'
        PROVE  /\ q # r /\ Pending(q)
               /\ req'[q] = [req[q] EXCEPT !.stale = TRUE] \/ req'[q] = req[q]
               /\ ~req'[q].stale => ~Disturbs(req[q].user) /\ req'[q] = req[q]
    <2>1. q # r
      BY <1>2, <1>3 DEF Pending
    <2>2. Pending(q)
      BY <1>3, <2>1 DEF Commit, Pending
    <2>3. req[q] \in InFlight
      BY <2>2, RequestTypes DEF DuplicateInv
    <2>4. [req[q] EXCEPT !.stale = TRUE].stale = TRUE
      BY <2>3 DEF InFlight
    <2> QED BY <2>1, <2>2, <2>4 DEF Commit
  <1>4. ASSUME NEW q \in Req, Pending(q)'
        PROVE  /\ req'[q].id = req[q].id /\ req'[q].user = req[q].user
               /\ req'[q].cond = req[q].cond /\ req'[q].patch = req[q].patch
               /\ req'[q].pc = req[q].pc /\ req'[q].op = req[q].op
               /\ req[q].stale => req'[q].stale
    <2>1. req[q] \in InFlight
      BY <1>3, <1>4, RequestTypes DEF DuplicateInv
    <2> QED BY <1>3, <1>4, <2>1 DEF InFlight
  <1>5. RowsStored'
    BY <1>1 DEF RowsStored, OneRow, Exists, DuplicateInv
  <1>6. ASSUME NEW q \in Req, Pending(q)', req[q].id = a, row # NoAlert
        PROVE  Exists(a)
    BY <1>3, <1>6 DEF Refers, OneRow
  <1>7. HoldersAsk'
    <2>1. ASSUME NEW b \in AlertId, Exists(b)'
          PROVE  alerts'[b].owner \in holders'[b] /\ holders[b] \subseteq holders'[b]
      BY <2>1, <1>1 DEF Commit, Exists
    <2>2. ASSUME NEW b \in AlertId, Exists(b)', NEW q \in Req, Refers(q, b)'
          PROVE  req'[q].user \in holders'[b]
      <3>1. Pending(q)' /\ Pending(q) /\ req[q].id = b /\ req'[q].user = req[q].user
        BY <2>2, <1>3, <1>4 DEF Refers
      <3>2. Exists(b)
        BY <3>1, <2>2, <1>1, <1>6 DEF Exists
      <3>3. req[q].user \in holders[b]
        BY <3>1, <3>2 DEF DuplicateInv, HoldersAsk, Refers
      <3> QED BY <3>1, <3>3, <2>1, <2>2
    <2> QED BY <2>1, <2>2 DEF HoldersAsk
  <1>8. ASSUME NEW q \in Req, Pending(q)', ~req'[q].stale
        PROVE  UpToDate(q)'
    <2>1. Pending(q) /\ ~req[q].stale /\ UpToDate(q)
      BY <1>3, <1>4, <1>8 DEF DuplicateInv
    <2>2. ASSUME NEW b \in AlertId, req'[q].id = b, Exists(b)'
          PROVE  /\ alerts'[b].owner = req'[q].user
                 /\ Merge(alerts'[b].cond, req'[q].patch) = req'[q].cond
      <3>1. CASE b # a
        BY <3>1, <2>1, <2>2, <1>1, <1>4, <1>8 DEF UpToDate, Exists
      <3>2. CASE b = a
        <4>1. Exists(a) /\ row # NoAlert
          BY <3>2, <2>2, <1>1, <1>4, <1>6, <1>8 DEF Exists
        <4>2. alerts[a].owner = req[q].user
          BY <4>1, <3>2, <2>1, <2>2, <1>4, <1>8 DEF UpToDate
        <4>3. ~Recondition(a) /\ ~HandsOver(a)
          BY <4>1, <4>2, <1>3, <1>8 DEF Disturbs, Owned
        <4>4. alerts'[a].cond = alerts[a].cond /\ alerts'[a].owner = alerts[a].owner
          BY <4>1, <4>3, <1>1 DEF Recondition, HandsOver
        <4> QED BY <4>1, <4>4, <3>2, <2>1, <2>2, <1>4, <1>8 DEF UpToDate
      <3> QED BY <3>1, <3>2
    <2>3. ASSUME Checked(q)', NEW b \in AlertId \ {req'[q].id},
                 ActiveOn(req[q].user, req[q].cond, b)'
          PROVE  FALSE
      <3>1. ~TwinExists(req[q].user, req[q].cond, req[q].id) /\ b \in AlertId \ {req[q].id}
        BY <2>1, <2>3, <1>4, <1>8 DEF UpToDate, Checked
      <3>2. CASE b # a
        BY <3>1, <3>2, <2>3, <1>1, <1>4, <1>8 DEF TwinExists, ActiveOn, IsActive, Exists
      <3>3. CASE b = a
        <4>1. /\ row # NoAlert /\ row.active /\ row.owner = req[q].user
              /\ row.cond = req[q].cond
          BY <3>3, <2>3, <1>1, <1>4, <1>8 DEF ActiveOn, IsActive, Exists
        <4>2. ~Arms(a) /\ ~Recondition(a) /\ ~HandsOver(a)
          <5>1. alerts'[a] # NoAlert /\ alerts'[a].owner = req[q].user
            BY <4>1, <1>1
          <5>2. ~Disturbs(req[q].user)
            BY <1>3, <1>8
          <5> QED BY <5>1, <5>2 DEF Disturbs
        <4>3. IsActive(a)
          BY <4>1, <4>2, <1>1 DEF Arms
        <4>4. ActiveOn(req[q].user, req[q].cond, a)
          BY <4>1, <4>2, <4>3, <1>1 DEF ActiveOn, IsActive, Recondition, HandsOver, OneRow
        <4> QED BY <4>4, <3>1, <3>3 DEF TwinExists
      <3> QED BY <3>2, <3>3
    <2>4. Checked(q)' => ~TwinExists(req[q].user, req[q].cond, req[q].id)'
      BY <2>3, <1>4, <1>8 DEF TwinExists
    <2> QED BY <2>2, <2>4, <1>4, <1>8 DEF UpToDate, TwinExists, ActiveOn, IsActive, Exists
  <1>9. \A q \in Req : UpToDate(q)'
    BY <1>8 DEF UpToDate
  <1> QED BY <1>5, <1>7, <1>9

-------------------------------------------------------------------------------
(* A write can only break the duplicate invariant at the row it writes.    *)
(* What a write leaves in the marks: those of other rows alone, and that   *)
(* of row a unless the row written is no twin of an active one.            *)
Marked(a, row) ==
  /\ \A b \in AlertId \ {a} : b \in unchecked' <=> b \in unchecked
  /\ \/ a \in unchecked'
     \/ row = NoAlert
     \/ ~row.active
     \/ ~TwinExists(row.owner, row.cond, a)
     \/ /\ ActiveOn(row.owner, row.cond, a)
        /\ a \in unchecked' <=> a \in unchecked

LEMMA WriteKeepsDuplicates ==
  ASSUME DuplicateInv, NEW r \in Req, NEW a \in AlertId, NEW row,
         OneRow(r, a, row), Marked(a, row)
  PROVE  DuplicateNeedsUncheckedWrite'
  <1>1. alerts'[a] = row /\ \A b \in AlertId \ {a} : alerts'[b] = alerts[b]
    BY DEF OneRow, DuplicateInv, TypeOK, AlertsTypeOK
  <1>2. ASSUME NEW b \in AlertId, NEW c \in AlertId, Duplicates(b, c)'
        PROVE  b \in unchecked' \/ c \in unchecked'
    <2>1. /\ b # c
          /\ alerts'[b] # NoAlert /\ alerts'[b].active
          /\ alerts'[c] # NoAlert /\ alerts'[c].active
          /\ alerts'[c].owner = alerts'[b].owner
          /\ alerts'[c].cond = alerts'[b].cond
      BY <1>2 DEF Duplicates, ActiveOn, IsActive, Exists
    <2>2. CASE b # a /\ c # a
      <3>1. Duplicates(b, c)
        BY <1>1, <2>1, <2>2 DEF Duplicates, ActiveOn, IsActive, Exists
      <3> QED BY <3>1, <2>2 DEF DuplicateInv, DuplicateNeedsUncheckedWrite, Marked
    <2>3. ASSUME NEW d \in AlertId, d # a, alerts'[d] # NoAlert, alerts'[d].active,
                 row # NoAlert, row.active,
                 alerts'[d].owner = row.owner, alerts'[d].cond = row.cond
          PROVE  a \in unchecked' \/ d \in unchecked'
      <3>1. ActiveOn(row.owner, row.cond, d)
        BY <2>3, <1>1 DEF ActiveOn, IsActive, Exists
      <3>2. TwinExists(row.owner, row.cond, a)
        BY <3>1, <2>3 DEF TwinExists
      <3>3. CASE ActiveOn(row.owner, row.cond, a) /\ (a \in unchecked' <=> a \in unchecked)
        <4>1. Duplicates(a, d)
          BY <3>1, <3>3, <2>3 DEF Duplicates, ActiveOn
        <4> QED BY <4>1, <3>3, <2>3 DEF DuplicateInv, DuplicateNeedsUncheckedWrite, Marked
      <3> QED BY <2>3, <3>2, <3>3 DEF Marked
    <2>4. CASE b = a
      BY <2>1, <2>3, <2>4, <1>1
    <2>5. CASE c = a
      BY <2>1, <2>3, <2>5, <1>1
    <2> QED BY <2>2, <2>4, <2>5
  <1> QED BY <1>2 DEF DuplicateNeedsUncheckedWrite

(* All that a write does: request r replaces row a by row and is answered. *)
Writes(r, a, row) ==
  /\ Pending(r) /\ a \in AlertId
  /\ OneRow(r, a, row)
  /\ Commit(r, [alerts EXCEPT ![a] = row])
  /\ Marked(a, row)
  /\ row = NoAlert => Exists(a) /\ a \notin unchecked'
  /\ ~Exists(a) => row # NoAlert /\ row.active

LEMMA CreateWrites ==
  ASSUME DuplicateInv, NEW r \in Req, NEW a \in AlertId, WriteCreate(r, a)
  PROVE  Writes(r, a, NewRow(req[r].user, req[r].cond))
  <1> DEFINE row == NewRow(req[r].user, req[r].cond)
  <1>1. Pending(r) /\ req[r].op = "create" /\ OneRow(r, a, row)
        /\ Commit(r, [alerts EXCEPT ![a] = row])
    BY CreateRow DEF WriteCreate
  <1>2. req[r] \in InFlight /\ req[r].id = NoAlert /\ req[r].pc = "write"
    BY <1>1, RequestTypes DEF DuplicateInv, InFlight
  <1>3. a \in unchecked' \/ ~TwinExists(row.owner, row.cond, a)
    <2>1. CASE req[r].stale \/ Stored(req[r].cond) # req[r].cond
      BY <2>1 DEF WriteCreate
    <2>2. CASE ~req[r].stale /\ Stored(req[r].cond) = req[r].cond
      <3>1. ~TwinExists(req[r].user, req[r].cond, NoAlert)
        BY <1>1, <1>2, <2>2 DEF DuplicateInv, UpToDate, Checked
      <3> QED BY <3>1, <2>2, NoAlertAssumption DEF TwinExists, NewRow
    <2> QED BY <2>1, <2>2
  <1>4. \A b \in AlertId \ {a} : b \in unchecked' <=> b \in unchecked
    BY DEF WriteCreate
  <1>5. row \in Row
    BY <1>2, StoredType DEF InFlight, NewRow, Row
  <1>6. row # NoAlert /\ row.active
    BY <1>5, NoAlertAssumption DEF NewRow
  <1> QED BY <1>1, <1>3, <1>4, <1>6 DEF Writes, Marked

LEMMA UpdateWrites ==
  ASSUME DuplicateInv, NEW r \in Req, WriteUpdate(r)
  PROVE  Writes(r, req[r].id, Patched(alerts[req[r].id], req[r].patch))
  <1> DEFINE a == req[r].id
             p == req[r].patch
             row == Patched(alerts[a], p)
  <1>1. /\ Pending(r) /\ req[r].op = "update" /\ req[r].pc = "write" /\ Exists(a)
        /\ OneRow(r, a, row) /\ Commit(r, [alerts EXCEPT ![a] = row])
    BY UpdateRow DEF WriteUpdate
  <1>2. /\ a \in AlertId /\ alerts[a] \in Row
        /\ ~req[r].stale => alerts[a].owner = req[r].user
        /\ Stored(alerts[a].cond) = alerts[a].cond
    BY <1>1, WrittenRow
  <1>3. req[r] \in InFlight /\ p \in Patches \cup {NoPatch}
    BY <1>1, RequestTypes DEF DuplicateInv, InFlight
  <1>4. row.cond = Stored(Merge(alerts[a].cond, p)) /\ row # NoAlert
    BY <1>2, <1>3, PatchedType, NoAlertAssumption
  <1>5. CASE Keyed(p)
    <2>1. unchecked' = IF \/ req[r].stale \/ Stored(req[r].cond) # req[r].cond
                          \/ row.owner # req[r].user
                       THEN unchecked \cup {a} ELSE unchecked \ {a}
      BY <1>5 DEF WriteUpdate
    <2>2. a \in unchecked' \/ ~TwinExists(row.owner, row.cond, a)
      <3>1. CASE /\ ~req[r].stale /\ Stored(req[r].cond) = req[r].cond
                 /\ row.owner = req[r].user
        <4>1. Merge(alerts[a].cond, p) = req[r].cond
          BY <3>1, <1>1, <1>2 DEF DuplicateInv, UpToDate
        <4>2. ~TwinExists(req[r].user, req[r].cond, a)
          BY <3>1, <1>1, <1>5 DEF DuplicateInv, UpToDate, Checked
        <4> QED BY <4>1, <4>2, <3>1, <1>4
      <3> QED BY <3>1, <2>1
    <2>3. \A b \in AlertId \ {a} : b \in unchecked' <=> b \in unchecked
      BY <2>1
    <2> QED BY <1>1, <1>2, <1>4, <2>2, <2>3 DEF Writes, Marked
  <1>6. CASE ~Keyed(p)
    <2>1. row.cond = alerts[a].cond
      BY <1>2, <1>3, <1>4, <1>6, MergeType DEF Row
    <2>2. unchecked' = IF row.active /\ (~alerts[a].active \/ row.owner # alerts[a].owner)
                       THEN unchecked \cup {a} ELSE unchecked
      BY <1>6 DEF WriteUpdate
    <2>3. \/ a \in unchecked'
          \/ ~row.active
          \/ /\ ActiveOn(row.owner, row.cond, a)
             /\ a \in unchecked' <=> a \in unchecked
      BY <1>1, <1>2, <1>4, <2>1, <2>2 DEF ActiveOn, IsActive
    <2>4. \A b \in AlertId \ {a} : b \in unchecked' <=> b \in unchecked
      BY <2>2
    <2> QED BY <1>1, <1>2, <1>4, <2>3, <2>4 DEF Writes, Marked
  <1> QED BY <1>5, <1>6

LEMMA ActivateWrites ==
  ASSUME DuplicateInv, NEW r \in Req, WriteActivate(r)
  PROVE  Writes(r, req[r].id, [alerts[req[r].id] EXCEPT !.active = TRUE])
  <1> DEFINE a == req[r].id
             row == [alerts[a] EXCEPT !.active = TRUE]
  <1>1. /\ Pending(r) /\ req[r].op = "activate" /\ req[r].pc = "write" /\ Exists(a)
        /\ OneRow(r, a, row)
    BY ActivateRow DEF WriteActivate
  <1>2. /\ a \in AlertId /\ alerts[a] \in Row
        /\ ~req[r].stale => alerts[a].owner = req[r].user
    BY <1>1, WrittenRow
  <1>3. req[r] \in InFlight /\ req[r].patch = NoPatch
    BY <1>1, RequestTypes DEF DuplicateInv, InFlight
  <1>4. Commit(r, [alerts EXCEPT ![a] = row])
    BY <1>2 DEF WriteActivate, DuplicateInv, TypeOK, AlertsTypeOK
  <1>5. row \in Row /\ row # NoAlert
    BY <1>2, NoAlertAssumption DEF Row
  <1>6. row.owner = alerts[a].owner /\ row.cond = alerts[a].cond
    BY <1>2 DEF Row
  <1>7. a \in unchecked' \/ ~TwinExists(row.owner, row.cond, a)
    <2>1. CASE req[r].stale
      BY <2>1 DEF WriteActivate
    <2>2. CASE ~req[r].stale
      <3>1. Merge(alerts[a].cond, NoPatch) = req[r].cond
        BY <2>2, <1>1, <1>2, <1>3 DEF DuplicateInv, UpToDate
      <3>2. Merge(alerts[a].cond, NoPatch) = alerts[a].cond
        BY <1>2, MergeType DEF Row, Keyed, NoPatch
      <3>3. ~TwinExists(req[r].user, req[r].cond, a)
        BY <2>2, <1>1 DEF DuplicateInv, UpToDate, Checked
      <3> QED BY <3>1, <3>2, <3>3, <1>2, <1>6, <2>2
    <2> QED BY <2>1, <2>2
  <1>8. \A b \in AlertId \ {a} : b \in unchecked' <=> b \in unchecked
    BY DEF WriteActivate
  <1> QED BY <1>1, <1>2, <1>4, <1>5, <1>7, <1>8 DEF Writes, Marked

LEMMA DeactivateWrites ==
  ASSUME DuplicateInv, NEW r \in Req, WriteDeactivate(r)
  PROVE  Writes(r, req[r].id, [alerts[req[r].id] EXCEPT !.active = FALSE])
  <1> DEFINE a == req[r].id
             row == [alerts[a] EXCEPT !.active = FALSE]
  <1>1. Pending(r) /\ req[r].op = "deactivate" /\ Exists(a) /\ OneRow(r, a, row)
    BY DeactivateRow DEF WriteDeactivate
  <1>2. a \in AlertId /\ alerts[a] \in Row
    BY <1>1, WrittenRow
  <1>3. Commit(r, [alerts EXCEPT ![a] = row])
    BY DEF WriteDeactivate
  <1>4. row \in Row /\ row # NoAlert /\ ~row.active
    BY <1>2, NoAlertAssumption DEF Row
  <1>5. \A b \in AlertId \ {a} : b \in unchecked' <=> b \in unchecked
    BY DEF WriteDeactivate
  <1> QED BY <1>1, <1>2, <1>3, <1>4, <1>5 DEF Writes, Marked

LEMMA DeleteWrites ==
  ASSUME DuplicateInv, NEW r \in Req, WriteDelete(r)
  PROVE  Writes(r, req[r].id, NoAlert)
  <1> DEFINE a == req[r].id
  <1>1. /\ Pending(r) /\ req[r].op = "delete" /\ Exists(a) /\ OneRow(r, a, NoAlert)
        /\ Commit(r, [alerts EXCEPT ![a] = NoAlert])
    BY DeleteRow DEF WriteDelete
  <1>2. a \in AlertId
    BY <1>1, WrittenRow
  <1>3. /\ \A b \in AlertId \ {a} : b \in unchecked' <=> b \in unchecked
        /\ a \notin unchecked'
    BY DEF WriteDelete
  <1> QED BY <1>1, <1>2, <1>3 DEF Writes, Marked

(* The five writes in one form, from which the invariant, the ownership of *)
(* rows and the refinement follow.                                         *)
LEMMA WriteEffect ==
  ASSUME DuplicateInv, NEW r \in Req, Write(r)
  PROVE  \E a \in AlertId, row \in Row \cup {NoAlert} : Writes(r, a, row)
  <1>1. ASSUME NEW a, NEW row, Writes(r, a, row)
        PROVE  a \in AlertId /\ row \in Row \cup {NoAlert}
    BY <1>1 DEF Writes, OneRow
  <1>2. \E a, row : Writes(r, a, row)
    BY CreateWrites, UpdateWrites, ActivateWrites, DeactivateWrites, DeleteWrites
       DEF Write
  <1> QED BY <1>1, <1>2

LEMMA WriteKeepsInv ==
  ASSUME DuplicateInv, NEW r \in Req, Write(r)
  PROVE  DuplicateInv'
  <1>1. PICK a \in AlertId, row \in Row \cup {NoAlert} : Writes(r, a, row)
    BY WriteEffect
  <1>2. TypeOK'
    BY WriteType DEF DuplicateInv
  <1>3. DuplicateNeedsUncheckedWrite'
    BY <1>1, WriteKeepsDuplicates DEF Writes
  <1>4. RowsStored' /\ HoldersAsk' /\ (\A q \in Req : UpToDate(q)')
    BY <1>1, WriteKeepsRequests DEF Writes
  <1> QED BY <1>2, <1>3, <1>4 DEF DuplicateInv

-------------------------------------------------------------------------------
(* The steps that leave the table alone.                                   *)
LEMMA HoldKeepsInv ==
  ASSUME DuplicateInv, NEW r \in Req, TypeOK',
         NEW pc, NEW op, NEW u, NEW id, NEW c, NEW p,
         Hold(r, pc, op, u, id, c, p),
         \A a \in AlertId : id = a => Owned(u, a) /\ Merge(alerts[a].cond, p) = c,
         pc = "write" /\ (op \in {"create", "activate"} \/ (op = "update" /\ Keyed(p)))
           => ~TwinExists(u, c, id)
  PROVE  DuplicateInv'
  <1>1. UNCHANGED <<alerts, unchecked, holders>>
    BY DEF Hold
  <1>2. /\ req'[r].pc = pc /\ req'[r].op = op /\ req'[r].user = u /\ req'[r].id = id
        /\ req'[r].cond = c /\ req'[r].patch = p
        /\ \A q \in Req \ {r} : req'[q] = req[q]
    BY DEF Hold, DuplicateInv, TypeOK
  <1>3. RowsStored' /\ DuplicateNeedsUncheckedWrite'
    BY <1>1 DEF DuplicateInv, RowsStored, DuplicateNeedsUncheckedWrite, Duplicates,
                ActiveOn, IsActive, Exists
  <1>4. HoldersAsk'
    BY <1>1, <1>2 DEF DuplicateInv, HoldersAsk, Refers, Pending, Exists, Owned
  <1>5. UpToDate(r)'
    BY <1>1, <1>2 DEF UpToDate, Checked, TwinExists, ActiveOn, IsActive, Exists, Pending, Owned
  <1>6. ASSUME NEW q \in Req \ {r}
        PROVE  UpToDate(q)'
    BY <1>1, <1>2 DEF DuplicateInv, UpToDate, Checked, TwinExists, ActiveOn, IsActive,
                      Exists, Pending
  <1> QED BY <1>3, <1>4, <1>5, <1>6 DEF DuplicateInv

LEMMA BeginKeepsInv ==
  ASSUME DuplicateInv, NEW r \in Req, Begin(r)
  PROVE  DuplicateInv'
  <1>1. TypeOK'
    BY BeginType DEF DuplicateInv
  <1>2. PICK u \in User :
          \/ \E c \in Condition : BeginCreate(r, u, c)
          \/ \E a \in AlertId :
               \/ \E p \in Patches : BeginUpdate(r, u, a, p)
               \/ BeginActivate(r, u, a)
               \/ BeginDeactivate(r, u, a)
               \/ BeginDelete(r, u, a)
    BY DEF Begin
  <1>3. \A a \in AlertId : Exists(a) => Merge(alerts[a].cond, NoPatch) = alerts[a].cond
    BY RowTypes, MergeType DEF DuplicateInv, Keyed, NoPatch
  <1>4. ASSUME NEW c \in Condition, BeginCreate(r, u, c)
        PROVE  DuplicateInv'
    <2>1. ~TwinExists(u, c, NoAlert) /\ Hold(r, "write", "create", u, NoAlert, c, NoPatch)
      BY <1>4 DEF BeginCreate
    <2> QED BY <1>1, <2>1, HoldKeepsInv, NoAlertAssumption
  <1>5. ASSUME NEW a \in AlertId, NEW p \in Patches, BeginUpdate(r, u, a, p)
        PROVE  DuplicateInv'
    <2>1. /\ Owned(u, a)
          /\ Hold(r, IF Keyed(p) THEN "check" ELSE "write", "update", u, a,
                  Merge(alerts[a].cond, p), p)
      BY <1>5 DEF BeginUpdate
    <2> QED BY <1>1, <2>1, HoldKeepsInv
  <1>6. ASSUME NEW a \in AlertId, BeginActivate(r, u, a)
        PROVE  DuplicateInv'
    <2>1. Owned(u, a) /\ Hold(r, "check", "activate", u, a, alerts[a].cond, NoPatch)
      BY <1>6 DEF BeginActivate
    <2> QED BY <1>1, <1>3, <2>1, HoldKeepsInv DEF Owned
  <1>7. ASSUME NEW a \in AlertId, BeginDeactivate(r, u, a)
        PROVE  DuplicateInv'
    <2>1. Owned(u, a) /\ Hold(r, "write", "deactivate", u, a, alerts[a].cond, NoPatch)
      BY <1>7 DEF BeginDeactivate
    <2> QED BY <1>1, <1>3, <2>1, HoldKeepsInv DEF Owned
  <1>8. ASSUME NEW a \in AlertId, BeginDelete(r, u, a)
        PROVE  DuplicateInv'
    <2>1. Owned(u, a) /\ Hold(r, "write", "delete", u, a, alerts[a].cond, NoPatch)
      BY <1>8 DEF BeginDelete
    <2> QED BY <1>1, <1>3, <2>1, HoldKeepsInv DEF Owned
  <1> QED BY <1>2, <1>4, <1>5, <1>6, <1>7, <1>8

LEMMA CheckKeepsInv ==
  ASSUME DuplicateInv, NEW r \in Req, CheckDuplicate(r), TypeOK'
  PROVE  DuplicateInv'
  <1>1. UNCHANGED <<alerts, unchecked, holders>> /\ ~TwinExists(req[r].user, req[r].cond, req[r].id)
    BY DEF CheckDuplicate
  <1>2. Pending(r) /\ \A q \in Req \ {r} : req'[q] = req[q]
    BY DEF CheckDuplicate, DuplicateInv, TypeOK
  <1>3. /\ req'[r].user = req[r].user /\ req'[r].id = req[r].id
        /\ req'[r].cond = req[r].cond /\ req'[r].patch = req[r].patch
        /\ req'[r].stale = req[r].stale
    <2>1. req'[r] = [req[r] EXCEPT !.pc = "write"] /\ req[r] \in InFlight
      BY <1>2, RequestTypes DEF CheckDuplicate, DuplicateInv, TypeOK
    <2> QED BY <2>1 DEF InFlight
  <1>4. RowsStored' /\ DuplicateNeedsUncheckedWrite'
    BY <1>1 DEF DuplicateInv, RowsStored, DuplicateNeedsUncheckedWrite, Duplicates,
                ActiveOn, IsActive, Exists
  <1>5. HoldersAsk'
    BY <1>1, <1>2, <1>3 DEF DuplicateInv, HoldersAsk, Refers, Pending, Exists
  <1>6. UpToDate(r)'
    BY <1>1, <1>2, <1>3 DEF DuplicateInv, UpToDate, Checked, TwinExists, ActiveOn,
                            IsActive, Exists, Pending
  <1>7. ASSUME NEW q \in Req \ {r}
        PROVE  UpToDate(q)'
    BY <1>1, <1>2 DEF DuplicateInv, UpToDate, Checked, TwinExists, ActiveOn, IsActive,
                      Exists, Pending
  <1> QED BY <1>4, <1>5, <1>6, <1>7 DEF DuplicateInv

LEMMA RefuseKeepsInv ==
  ASSUME DuplicateInv, NEW r \in Req, Refuse(r), TypeOK'
  PROVE  DuplicateInv'
  <1>1. UNCHANGED <<alerts, unchecked, holders>>
    BY DEF Refuse
  <1>2. req'[r] = NoRequest /\ \A q \in Req \ {r} : req'[q] = req[q]
    BY DEF Refuse, DuplicateInv, TypeOK
  <1>3. RowsStored' /\ DuplicateNeedsUncheckedWrite'
    BY <1>1 DEF DuplicateInv, RowsStored, DuplicateNeedsUncheckedWrite, Duplicates,
                ActiveOn, IsActive, Exists
  <1>4. HoldersAsk'
    BY <1>1, <1>2 DEF DuplicateInv, HoldersAsk, Refers, Pending, Exists
  <1>5. \A q \in Req : UpToDate(q)'
    BY <1>1, <1>2 DEF DuplicateInv, UpToDate, Checked, TwinExists, ActiveOn, IsActive,
                      Exists, Pending
  <1> QED BY <1>3, <1>4, <1>5 DEF DuplicateInv

LEMMA NextKeepsInv ==
  ASSUME DuplicateInv, [Next]_vars
  PROVE  DuplicateInv'
  <1>1. TypeOK'
    BY NextType DEF DuplicateInv
  <1>2. CASE UNCHANGED vars
    BY <1>1, <1>2 DEF vars, DuplicateInv, RowsStored, HoldersAsk, Refers, Pending,
         DuplicateNeedsUncheckedWrite, Duplicates, UpToDate, Checked, TwinExists,
         ActiveOn, IsActive, Exists
  <1>3. CASE Next
    <2>1. PICK r \in Req : Step(r)
      BY <1>3 DEF Next
    <2>2. CASE Begin(r)
      BY <2>2, BeginKeepsInv
    <2>3. CASE CheckDuplicate(r)
      BY <2>3, <1>1, CheckKeepsInv
    <2>4. CASE Write(r)
      BY <2>4, WriteKeepsInv
    <2>5. CASE Refuse(r)
      BY <2>5, <1>1, RefuseKeepsInv
    <2> QED BY <2>1, <2>2, <2>3, <2>4, <2>5 DEF Step
  <1> QED BY <1>2, <1>3

LEMMA InitInv == Init => DuplicateInv
  <1> SUFFICES ASSUME Init PROVE DuplicateInv
    OBVIOUS
  <1>1. \A a \in AlertId : ~Exists(a)
    BY DEF Init, Exists
  <1>2. \A r \in Req : ~Pending(r)
    BY DEF Init, RequestsInit, Pending
  <1>3. TypeOK
    BY DEF Init, RequestsInit, TypeOK, AlertsTypeOK
  <1> QED BY <1>1, <1>2, <1>3 DEF DuplicateInv, RowsStored, HoldersAsk, Refers, UpToDate,
             DuplicateNeedsUncheckedWrite, Duplicates, IsActive

(* The inductive invariant holds in every reachable state.                 *)
THEOREM DuplicateInvCorrect == Spec => []DuplicateInv
  <1>1. Init => DuplicateInv
    BY InitInv
  <1>2. DuplicateInv /\ [Next]_vars => DuplicateInv'
    BY NextKeepsInv
  <1> QED BY <1>1, <1>2, PTL DEF Spec

(* A user ends up with two active alerts on one condition only through a   *)
(* write that no up-to-date duplicate check covers, whatever the number of *)
(* users, alerts and concurrent requests.                                  *)
THEOREM DuplicatesExplained == Spec => []DuplicateNeedsUncheckedWrite
  <1>1. DuplicateInv => DuplicateNeedsUncheckedWrite
    BY DEF DuplicateInv
  <1> QED BY <1>1, DuplicateInvCorrect, PTL

-------------------------------------------------------------------------------
(* Only a write changes the table, and it changes one row.                 *)
LEMMA OnlyWritesChange ==
  ASSUME NEW r \in Req, Step(r), ~Write(r)
  PROVE  UNCHANGED <<alerts, unchecked, holders>>
  BY DEF Step, Begin, Hold, BeginCreate, BeginUpdate, BeginActivate,
         BeginDeactivate, BeginDelete, CheckDuplicate, Refuse

HolderChanges(a) ==
  \E r \in Req :
    LET owner == IF Exists(a) THEN alerts[a].owner ELSE req[r].user
    IN  /\ Pending(r) /\ req'[r] = NoRequest
        /\ \/ req[r].user = owner
           \/ req[r].stale /\ req[r].user \in holders[a]
        /\ alerts'[a] # NoAlert /\ alerts'[a].owner # owner =>
             req[r].op = "update" /\ req[r].patch.owner = alerts'[a].owner

LEMMA HolderStep ==
  ASSUME DuplicateInv, [Next]_vars, NEW a \in AlertId, alerts'[a] # alerts[a]
  PROVE  HolderChanges(a)
  <1>1. ~UNCHANGED alerts
    OBVIOUS
  <1>2. PICK r \in Req : Write(r)
    BY <1>1, OnlyWritesChange DEF Next, vars
  <1>3. PICK b \in AlertId, row \in Row \cup {NoAlert} : Writes(r, b, row)
    BY <1>2, WriteEffect
  <1>4. Pending(r) /\ req'[r] = NoRequest /\ OneRow(r, b, row)
    BY <1>3 DEF Writes, Commit, DuplicateInv, TypeOK
  <1>5. a = b /\ alerts'[a] = row
    BY <1>4 DEF OneRow, DuplicateInv, TypeOK, AlertsTypeOK
  <1>6. req[r].stale \in BOOLEAN
    BY <1>4, RequestTypes DEF DuplicateInv, InFlight
  <1> QED BY <1>4, <1>5, <1>6 DEF OneRow, OwnerBefore, HolderChanges

(* Although every write goes by id alone after an earlier ownership check, *)
(* and an update may hand a row over, a row is touched only for its owner  *)
(* or for a user who owned it when his request read it, and goes only to   *)
(* whom a body names.                                                      *)
THEOREM OwnershipRespected == Spec => ChangesByHolders
  <1>1. DuplicateInv /\ [Next]_vars =>
          [\A a \in AlertId : alerts'[a] # alerts[a] => HolderChanges(a)]_vars
    BY HolderStep
  <1> QED BY <1>1, DuplicateInvCorrect, PTL DEF Spec, ChangesByHolders, HolderChanges

LEMMA RevivalStep ==
  ASSUME DuplicateInv, [Next]_vars, NEW a \in AlertId, ~Exists(a), alerts'[a] # NoAlert
  PROVE  \E r \in Req : Pending(r) /\ req[r].op = "create" /\ req'[r] = NoRequest
  <1>1. ~UNCHANGED alerts
    BY DEF Exists
  <1>2. PICK r \in Req : Write(r)
    BY <1>1, OnlyWritesChange DEF Next, vars
  <1>3. CASE \E b \in AlertId : WriteCreate(r, b)
    BY <1>3 DEF WriteCreate, Commit, DuplicateInv, TypeOK
  <1>4. CASE WriteUpdate(r) \/ WriteActivate(r) \/ WriteDeactivate(r) \/ WriteDelete(r)
    <2>1. Exists(req[r].id) /\ \A b \in AlertId \ {req[r].id} : alerts'[b] = alerts[b]
      BY <1>4 DEF WriteUpdate, WriteActivate, WriteDeactivate, WriteDelete, Commit,
                  DuplicateInv, TypeOK, AlertsTypeOK
    <2> QED BY <2>1 DEF Exists
  <1> QED BY <1>2, <1>3, <1>4 DEF Write

(* A deleted row comes back through no update, activate or deactivate that *)
(* had read it before it was deleted.                                      *)
THEOREM DeletedStayDeleted == Spec => NoResurrection
  <1>1. DuplicateInv /\ [Next]_vars =>
          [\A a \in AlertId : ~Exists(a) /\ alerts'[a] # NoAlert =>
             \E r \in Req : Pending(r) /\ req[r].op = "create" /\ req'[r] = NoRequest]_vars
    BY RevivalStep
  <1> QED BY <1>1, DuplicateInvCorrect, PTL DEF Spec, NoResurrection

-------------------------------------------------------------------------------
(* The refinement: what the mapping makes of the rows.                     *)
BookOf == [a \in {b \in AlertId : Exists(b)} |-> EntryOf(a)]

LEMMA TwinMapping ==
  ASSUME NEW a \in AlertId, NEW e, Book!TwinOf(a, e)
  PROVE  TwinExists(e.owner, e.cond, a)
  BY DEF Book!TwinOf, TwinExists, ActiveOn, IsActive, EntryOf

LEMMA WriteIsBookStep ==
  ASSUME DuplicateInv, NEW r \in Req, Write(r)
  PROVE  [Book!BookNext]_Book!bookVars
  <1>1. PICK a \in AlertId, row \in Row \cup {NoAlert} : Writes(r, a, row)
    BY WriteEffect
  <1>2. alerts'[a] = row /\ \A b \in AlertId \ {a} : alerts'[b] = alerts[b]
    BY <1>1 DEF Writes, OneRow, DuplicateInv, TypeOK, AlertsTypeOK
  <1>3. unchecked \subseteq AlertId /\ unchecked' \subseteq AlertId
    BY WriteType DEF DuplicateInv, TypeOK
  <1>4. unchecked' = unchecked \cup {a} \/ unchecked' = unchecked \ {a}
    BY <1>1, <1>3 DEF Writes, Marked
  <1>5. CASE row = NoAlert
    <2>1. {b \in AlertId : Exists(b)'} = {b \in AlertId : Exists(b)} \ {a}
      BY <1>2, <1>5 DEF Exists
    <2>2. BookOf' = [b \in DOMAIN BookOf \ {a} |-> BookOf[b]]
      BY <1>2, <2>1 DEF BookOf, EntryOf
    <2>3. Exists(a) /\ unchecked' = unchecked \ {a}
      BY <1>1, <1>4, <1>5 DEF Writes
    <2>4. Book!Remove(a)
      BY <2>2, <2>3 DEF Book!Remove, Book!Present, BookOf
    <2> QED BY <2>4 DEF Book!BookNext
  <1>6. CASE row # NoAlert
    <2> DEFINE e == [owner |-> row.owner, cond |-> row.cond, active |-> row.active]
    <2>1. row \in Row
      BY <1>6
    <2>2. {b \in AlertId : Exists(b)'} = {b \in AlertId : Exists(b)} \cup {a}
      BY <1>2, <1>6 DEF Exists
    <2>3. BookOf' = [b \in DOMAIN BookOf \cup {a} |-> IF b = a THEN e ELSE BookOf[b]]
      BY <1>2, <2>2 DEF BookOf, EntryOf
    <2>4. CASE /\ ActiveOn(row.owner, row.cond, a) /\ row.active
               /\ a \in unchecked' <=> a \in unchecked
      <3>1. e = EntryOf(a) /\ Exists(a)
        BY <2>1, <2>4, RowTypes DEF ActiveOn, IsActive, EntryOf, DuplicateInv, Row
      <3>2. BookOf' = BookOf
        BY <2>3, <3>1 DEF BookOf
      <3>3. unchecked' = unchecked
        BY <1>1, <1>3, <2>4 DEF Writes, Marked
      <3> QED BY <3>2, <3>3 DEF Book!bookVars, BookOf
    <2>5. CASE a \in unchecked' \/ ~row.active \/ ~TwinExists(row.owner, row.cond, a)
      <3>1. Book!Put(a, e)
        BY <1>4, <2>3, <2>5, TwinMapping DEF Book!Put, BookOf
      <3>2. CASE Exists(a)
        <4>1. a \in DOMAIN BookOf
          BY <3>2 DEF BookOf
        <4>2. Book!Change(a, row.owner, row.cond, row.active)
          BY <3>1, <4>1 DEF Book!Change, Book!Present, BookOf
        <4> QED BY <2>1, <4>2 DEF Book!BookNext, Row
      <3>3. CASE ~Exists(a)
        <4>1. row.active = TRUE
          BY <1>1, <2>1, <3>3 DEF Writes, Row
        <4>2. Book!Add(a, row.owner, row.cond)
          BY <3>1, <3>3, <4>1 DEF Book!Add, Book!Present
        <4> QED BY <2>1, <4>2 DEF Book!BookNext, Row
      <3> QED BY <3>2, <3>3
    <2> QED BY <1>1, <1>6, <2>4, <2>5 DEF Writes, Marked
  <1> QED BY <1>5, <1>6

(* Every behaviour of the handlers, however many requests overlap, is one  *)
(* of the atomic book: tokenAlert.service.ts gives each request the effect *)
(* of one step on one alert, and repeats an active alert only where the    *)
(* book lets it.                                                           *)
THEOREM HandlersImplementBook == Spec => ImplementsBook
  <1>1. Init => Book!BookInit
    BY DEF Init, RequestsInit, Exists, Book!BookInit
  <1>2. DuplicateInv /\ [Next]_vars => [Book!BookNext]_Book!bookVars
    <2> SUFFICES ASSUME DuplicateInv, [Next]_vars
                 PROVE  [Book!BookNext]_Book!bookVars
      OBVIOUS
    <2>1. CASE UNCHANGED <<alerts, unchecked, holders>>
      BY <2>1 DEF Book!bookVars, Exists, EntryOf
    <2>2. CASE \E r \in Req : Write(r)
      BY <2>2, WriteIsBookStep
    <2> QED BY <2>1, <2>2, OnlyWritesChange DEF Next, vars
  <1> QED BY <1>1, <1>2, DuplicateInvCorrect, PTL DEF Spec, ImplementsBook, Book!BookSpec
===============================================================================
