------------------------------ MODULE TokenAlerts ------------------------------
(***************************************************************************)
(* The user-facing operations of services/tokenAlert.service.ts behind     *)
(* routes/tokenAlert.routes.ts.  Every handler is a sequence of awaited    *)
(* prisma calls on one Node event loop: each call is a step, and the steps *)
(* of requests that are in flight together interleave freely.              *)
(*                                                                         *)
(* A handler that answers with an error (404, 403, 401, 500) before its    *)
(* write leaves nothing behind: at the first call this is the action not   *)
(* being enabled, at a later one it is the action Refuse.  listTokenAlert  *)
(* and getTokenAlert only read.                                            *)
(*                                                                         *)
(* The body of an update reaches prisma whole.  It may name the columns of *)
(* the documentation and, beside them, another owner (userId, or a connect *)
(* of the user relation).  Bodies that rewrite the id or write to other    *)
(* tables through the relation are left out.                               *)
(***************************************************************************)
EXTENDS AlertTable, FiniteSets

CONSTANTS
  Req,         \* slots for requests in flight: bounds the concurrency
  NoRequest,   \* a free slot
  Absent,      \* a field a PUT body leaves out
  Patches      \* the PUT bodies clients send

Patch == [symbol : Symbol \cup {Absent}, price : Price \cup {Absent},
          direction : Direction \cup {Absent}, active : BOOLEAN \cup {Absent},
          owner : User \cup {Absent}]

ASSUME PatchesAssumption == Patches \subseteq Patch

NoPatch == [symbol |-> Absent, price |-> Absent, direction |-> Absent,
            active |-> Absent, owner |-> Absent]

(* The validators of the bodies, as far as prices go. *)
ValidInput(c) == c.price > 0

ValidUpdateInput(p) == p.price # Absent => p.price > 0

(* Mutant: the guard of one field is used for another. *)
MergeByDirection(c, p) ==
  [symbol    |-> IF p.symbol = Absent THEN c.symbol ELSE p.symbol,
   price     |-> IF p.direction = Absent THEN c.price ELSE p.price,
   direction |-> IF p.direction = Absent THEN c.direction ELSE p.direction]

(* The condition of a row once the body is laid over it (data.x || row.x). *)
Merge(c, p) ==
  [symbol    |-> IF p.symbol = Absent THEN c.symbol ELSE p.symbol,
   price     |-> IF p.price = Absent THEN c.price ELSE p.price,
   direction |-> IF p.direction = Absent THEN c.direction ELSE p.direction]

(* Whether updateTokenAlertService looks for a duplicate at all. *)
Keyed(p) == p.symbol # Absent \/ p.price # Absent \/ p.direction # Absent

(* prisma.tokenAlert.update({data}): only the fields present are written.  *)
Patched(row, p) ==
  [row EXCEPT !.cond = Stored(Merge(@, p)),
              !.active = IF p.active = Absent THEN @ ELSE p.active,
              !.owner = IF p.owner = Absent THEN @ ELSE p.owner]

Op == {"create", "update", "delete", "activate", "deactivate"}

(* A request between two of its prisma calls.  cond is the condition the   *)
(* duplicate check asks about, computed from the row as it was first read. *)
(* stale is a history variable: since that first read an alert that was or *)
(* became the same user's was armed, edited or handed over.                *)
InFlight ==
  {q \in [pc : {"check", "write"}, op : Op, user : User,
          id : AlertId \cup {NoAlert}, cond : Condition,
          patch : Patches \cup {NoPatch}, stale : BOOLEAN] :
     /\ q.op = "create" <=> q.id = NoAlert
     /\ q.pc = "check" => q.op \in {"update", "activate"}
     /\ q.op # "update" => q.patch = NoPatch}

ASSUME NoRequestAssumption == NoRequest \notin InFlight

VARIABLES
  req,         \* [Req -> InFlight \cup {NoRequest}]
  unchecked,   \* history: rows whose last arming or editing write was not
               \* covered by an up-to-date duplicate check
  holders      \* history: the users who have owned a row since its creation

requestVars == <<req, unchecked, holders>>

-------------------------------------------------------------------------------
RequestsInit == /\ req = [r \in Req |-> NoRequest]
                /\ unchecked = {}
                /\ holders = [a \in AlertId |-> {}]

Pending(r) == req[r] # NoRequest

Refers(r, a) == Pending(r) /\ req[r].id = a

(* uuids do not repeat: an id nobody holds any more stands for a new one.  *)
Fresh(a) == ~Exists(a) /\ \A r \in Req : ~Refers(r, a)

(* Bound: as many creates in flight as there are ids left for them.        *)
TableHasRoom ==
  Cardinality({r \in Req : Pending(r) /\ req[r].op = "create"})
    < Cardinality({a \in AlertId : Fresh(a)})

Hold(r, pc, op, u, id, c, p) ==
  /\ ~Pending(r)
  /\ req' = [req EXCEPT ![r] = [pc |-> pc, op |-> op, user |-> u, id |-> id,
                                cond |-> c, patch |-> p, stale |-> FALSE]]
  /\ UNCHANGED <<alerts, unchecked, holders>>

(* The write of r: the table changes, r is answered, and requests of the   *)
(* users it disturbs that have read the table before now hold old data.    *)
Commit(r, table) ==
  /\ alerts' = table
  /\ req' = [q \in Req |->
       IF q = r THEN NoRequest
       ELSE IF Pending(q) /\ Disturbs(req[q].user)
       THEN [req[q] EXCEPT !.stale = TRUE]
       ELSE req[q]]
  /\ holders' = [a \in AlertId |-> IF table[a] = NoAlert THEN {}
                                   ELSE holders[a] \cup {table[a].owner}]

(* Mutant: create without its findFirst. *)
BeginCreateUnchecked(r, u, c) ==
  /\ ValidInput(c)
  /\ TableHasRoom
  /\ Hold(r, "write", "create", u, NoAlert, c, NoPatch)

(* createTokenAlertService: findFirst, then create.                        *)
BeginCreate(r, u, c) ==
  /\ ValidInput(c)
  /\ TableHasRoom
  /\ ~TwinExists(u, c, NoAlert)
  /\ Hold(r, "write", "create", u, NoAlert, c, NoPatch)

WriteCreate(r, a) ==
  /\ Pending(r) /\ req[r].op = "create"
  /\ Fresh(a)
  /\ Commit(r, [alerts EXCEPT ![a] = NewRow(req[r].user, req[r].cond)])
  /\ unchecked' = IF req[r].stale \/ Stored(req[r].cond) # req[r].cond
                  THEN unchecked \cup {a} ELSE unchecked \ {a}

(* updateTokenAlertService: findFirst by id and user, the duplicate check  *)
(* only when the body names symbol, price or direction, then update by id. *)
(* The check asks about the alerts of the user who asks, not of a new owner.*)
BeginUpdate(r, u, a, p) ==
  /\ ValidUpdateInput(p)
  /\ Owned(u, a)
  /\ Hold(r, IF Keyed(p) THEN "check" ELSE "write", "update", u, a,
          Merge(alerts[a].cond, p), p)

WriteUpdate(r) ==
  /\ Pending(r) /\ req[r].op = "update" /\ req[r].pc = "write"
  /\ LET a   == req[r].id
         p   == req[r].patch
         new == Patched(alerts[a], p)
     IN  /\ Exists(a)
         /\ Commit(r, [alerts EXCEPT ![a] = new])
         /\ unchecked' =
              CASE Keyed(p) -> IF \/ req[r].stale \/ Stored(req[r].cond) # req[r].cond
                                  \/ new.owner # req[r].user
                               THEN unchecked \cup {a} ELSE unchecked \ {a}
                [] /\ ~Keyed(p) /\ new.active
                   /\ ~alerts[a].active \/ new.owner # alerts[a].owner -> unchecked \cup {a}
                [] OTHER -> unchecked

(* Mutant: activate without its duplicate check. *)
BeginActivateUnchecked(r, u, a) ==
  /\ Owned(u, a)
  /\ ~alerts[a].active
  /\ Hold(r, "write", "activate", u, a, alerts[a].cond, NoPatch)

(* activateTokenAlertService: findFirst, not already active, the duplicate *)
(* check, then update({active: true}) by id.                               *)
BeginActivate(r, u, a) ==
  /\ Owned(u, a)
  /\ ~alerts[a].active
  /\ Hold(r, "check", "activate", u, a, alerts[a].cond, NoPatch)

(* Mutant: an upsert, which brings a deleted row back. *)
WriteActivateUpserting(r) ==
  /\ Pending(r) /\ req[r].op = "activate" /\ req[r].pc = "write"
  /\ Commit(r, [alerts EXCEPT ![req[r].id] = NewRow(req[r].user, req[r].cond)])
  /\ UNCHANGED unchecked

WriteActivate(r) ==
  /\ Pending(r) /\ req[r].op = "activate" /\ req[r].pc = "write"
  /\ Exists(req[r].id)
  /\ Commit(r, [alerts EXCEPT ![req[r].id].active = TRUE])
  /\ unchecked' = IF req[r].stale THEN unchecked \cup {req[r].id}
                                  ELSE unchecked \ {req[r].id}

(* Mutant: the answer of the second findFirst is ignored. *)
CheckDuplicateIgnored(r) ==
  /\ Pending(r) /\ req[r].pc = "check"
  /\ req' = [req EXCEPT ![r].pc = "write"]
  /\ UNCHANGED <<alerts, unchecked, holders>>

(* The second findFirst of update and activate: no other active alert of   *)
(* this user on the condition computed at the first one.                   *)
CheckDuplicate(r) ==
  /\ Pending(r) /\ req[r].pc = "check"
  /\ ~TwinExists(req[r].user, req[r].cond, req[r].id)
  /\ req' = [req EXCEPT ![r].pc = "write"]
  /\ UNCHANGED <<alerts, unchecked, holders>>

(* deactivateTokenAlertService: findFirst, still active, update by id.     *)
BeginDeactivate(r, u, a) ==
  /\ Owned(u, a)
  /\ alerts[a].active
  /\ Hold(r, "write", "deactivate", u, a, alerts[a].cond, NoPatch)

WriteDeactivate(r) ==
  /\ Pending(r) /\ req[r].op = "deactivate"
  /\ Exists(req[r].id)
  /\ Commit(r, [alerts EXCEPT ![req[r].id].active = FALSE])
  /\ UNCHANGED unchecked

(* Mutant: the row is looked up by id alone. *)
BeginDeleteAnyOwner(r, u, a) ==
  /\ Exists(a)
  /\ Hold(r, "write", "delete", u, a, alerts[a].cond, NoPatch)

(* deleteTokenAlertService: findFirst, delete by id.                       *)
BeginDelete(r, u, a) ==
  /\ Owned(u, a)
  /\ Hold(r, "write", "delete", u, a, alerts[a].cond, NoPatch)

WriteDelete(r) ==
  /\ Pending(r) /\ req[r].op = "delete"
  /\ Exists(req[r].id)
  /\ Commit(r, [alerts EXCEPT ![req[r].id] = NoAlert])
  /\ unchecked' = unchecked \ {req[r].id}

(* ALREADY_EXISTS at the duplicate check, or prisma's P2025 (500) because  *)
(* the row was deleted between the read and the write by id.               *)
Refuse(r) ==
  /\ Pending(r)
  /\ \/ req[r].pc = "check" /\ TwinExists(req[r].user, req[r].cond, req[r].id)
     \/ req[r].pc = "write" /\ req[r].op # "create" /\ ~Exists(req[r].id)
  /\ req' = [req EXCEPT ![r] = NoRequest]
  /\ UNCHANGED <<alerts, unchecked, holders>>

-------------------------------------------------------------------------------
Begin(r) ==
  \E u \in User :
    \/ \E c \in Condition : BeginCreate(r, u, c)
    \/ \E a \in AlertId :
         \/ \E p \in Patches : BeginUpdate(r, u, a, p)
         \/ BeginActivate(r, u, a)
         \/ BeginDeactivate(r, u, a)
         \/ BeginDelete(r, u, a)

Write(r) ==
  \/ \E a \in AlertId : WriteCreate(r, a)
  \/ WriteUpdate(r)
  \/ WriteActivate(r)
  \/ WriteDeactivate(r)
  \/ WriteDelete(r)

Step(r) == Begin(r) \/ CheckDuplicate(r) \/ Write(r) \/ Refuse(r)

Init == /\ alerts = [a \in AlertId |-> NoAlert]
        /\ RequestsInit

Next == \E r \in Req : Step(r)

vars == <<alerts, req, unchecked, holders>>

Spec == Init /\ [][Next]_vars

-------------------------------------------------------------------------------
(* Every variable has its type. *)
TypeOK == /\ AlertsTypeOK
          /\ req \in [Req -> InFlight \cup {NoRequest}]
          /\ unchecked \subseteq AlertId
          /\ holders \in [AlertId -> SUBSET User]

(* What tokenAlert.service.ts:64 and :172 and the message ALREADY_EXISTS   *)
(* claim: a user never has two active alerts on one condition.             *)
NoDuplicateActiveAlerts == \A a, b \in AlertId : ~Duplicates(a, b)

(* Where the claim holds: one request at a time, prices the column keeps,  *)
(* no body that switches an alert on without naming its condition, and     *)
(* none that names an owner.                                               *)
NoCauses == /\ \A r, q \in Req : r = q
            /\ \A c \in Condition : Stored(c) = c
            /\ \A p \in Patches : /\ Keyed(p) \/ p.active # TRUE
                                  /\ p.owner = Absent

(* What the code does guarantee: of two duplicates, one was last written   *)
(* by a request whose duplicate check was out of date, was skipped (a body *)
(* without symbol, price and direction), compared a price finer than the   *)
(* column, or looked among the alerts of another user than the row then    *)
(* went to.                                                                *)
DuplicateNeedsUncheckedWrite ==
  \A a, b \in AlertId : Duplicates(a, b) => a \in unchecked \/ b \in unchecked

(* Why it holds.  A row holds a condition the column can keep; whoever     *)
(* asks for a change of a row owns it or has owned it; and as long as no   *)
(* alert of the user has been armed, edited or handed over since a request *)
(* first read the table, the row it read is still the user's, the          *)
(* condition it computed there is still the one it is about to write, and  *)
(* the answer of its duplicate check still holds.                          *)
RowsStored == \A a \in AlertId : Exists(a) => Stored(alerts[a].cond) = alerts[a].cond

HoldersAsk ==
  \A a \in AlertId : Exists(a) =>
    /\ alerts[a].owner \in holders[a]
    /\ \A r \in Req : Refers(r, a) => req[r].user \in holders[a]

Checked(r) == /\ req[r].pc = "write"
              /\ \/ req[r].op \in {"create", "activate"}
                 \/ req[r].op = "update" /\ Keyed(req[r].patch)

UpToDate(r) ==
  Pending(r) /\ ~req[r].stale =>
    /\ \A a \in AlertId :
         req[r].id = a /\ Exists(a) =>
           /\ alerts[a].owner = req[r].user
           /\ Merge(alerts[a].cond, req[r].patch) = req[r].cond
    /\ Checked(r) => ~TwinExists(req[r].user, req[r].cond, req[r].id)

DuplicateInv == /\ TypeOK
                /\ RowsStored
                /\ HoldersAsk
                /\ \A r \in Req : UpToDate(r)
                /\ DuplicateNeedsUncheckedWrite

(* The writes go by id alone (tokenAlert.service.ts:140, :155, :189, :208) *)
(* after an earlier read by id and user, and update may write another      *)
(* owner.  Still: a row is created for who asks; afterwards it changes or  *)
(* disappears only through a request of its owner, or through one that was *)
(* overtaken, of a user who has owned the row before; and it gets another  *)
(* owner only through an update whose body names that owner.               *)
ChangesByHolders ==
  [][\A a \in AlertId : alerts'[a] # alerts[a] =>
       \E r \in Req :
         LET owner == IF Exists(a) THEN alerts[a].owner ELSE req[r].user
         IN  /\ Pending(r) /\ req'[r] = NoRequest
             /\ \/ req[r].user = owner
                \/ req[r].stale /\ req[r].user \in holders[a]
             /\ alerts'[a] # NoAlert /\ alerts'[a].owner # owner =>
                  req[r].op = "update" /\ req[r].patch.owner = alerts'[a].owner]_vars

(* A request that read a row before it was deleted cannot bring it back:   *)
(* a row appears only through a create.                                    *)
NoResurrection ==
  [][\A a \in AlertId : ~Exists(a) /\ alerts'[a] # NoAlert =>
       \E r \in Req : Pending(r) /\ req[r].op = "create" /\ req'[r] = NoRequest]_vars

(* The entry of the book that row a stands for. *)
EntryOf(a) == [owner |-> alerts[a].owner, cond |-> alerts[a].cond,
               active |-> alerts[a].active]

Book == INSTANCE AlertBook WITH
          User <- User, Condition <- Condition, AlertId <- AlertId,
          book <- [a \in {b \in AlertId : Exists(b)} |-> EntryOf(a)],
          loose <- unchecked

(* However requests overlap, the handlers of tokenAlert.service.ts, each a *)
(* sequence of calls, implement the book: one atomic step per request, on  *)
(* one alert, with a repetition only where the book allows one.            *)
ImplementsBook == Book!BookSpec
===============================================================================
