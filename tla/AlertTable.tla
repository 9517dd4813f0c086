------------------------------ MODULE AlertTable ------------------------------
(***************************************************************************)
(* The TokenAlert table of prisma/schema.prisma, shared by the HTTP        *)
(* requests (TokenAlerts) and by the background job (PriceAlertChecker).   *)
(*                                                                         *)
(* The table has no unique index and no foreign key that restricts these   *)
(* operations: every prisma call is one atomic step on it, and nothing     *)
(* makes two calls of one handler atomic.                                  *)
(***************************************************************************)
EXTENDS Naturals

CONSTANTS
  User,        \* accounts
  Symbol,      \* symbols an alert may name
  Price,       \* prices, in units finer than the column keeps
  Column,      \* Column[p]: what the Decimal(20,10) column keeps of price p
  AlertId,     \* row identifiers (uuids)
  NoAlert      \* "no such row", the null of findFirst and findUnique

Direction == {"CROSS_UP", "CROSS_DOWN"}

(* What an alert waits for. *)
Condition == [symbol : Symbol, price : Price, direction : Direction]

(* A row.  lastNotificationDate is reduced to "has been set".              *)
Row == [owner : User, cond : Condition, active : BOOLEAN,
        lastNotificationDate : BOOLEAN]

ASSUME PriceAssumption == Price \subseteq Nat

ASSUME ColumnAssumption ==
  /\ Column \in [Price -> Price]
  /\ \A p \in Price : Column[Column[p]] = Column[p]

ASSUME NoAlertAssumption == NoAlert \notin Row \cup AlertId

VARIABLE alerts    \* [AlertId -> Row], NoAlert where no row exists

AlertsTypeOK == alerts \in [AlertId -> Row \cup {NoAlert}]

(* The rows the column can hold: prices already rounded to its scale. *)
Stored(c) == [c EXCEPT !.price = Column[@]]

Exists(a) == alerts[a] # NoAlert

IsActive(a) == Exists(a) /\ alerts[a].active

Owned(u, a) == Exists(a) /\ alerts[a].owner = u

(* Row a is an active alert of user u on condition c. *)
ActiveOn(u, c, a) == IsActive(a) /\ alerts[a].owner = u /\ alerts[a].cond = c

(* findFirst({symbol, price, direction, userId, active: true, NOT: {id}}). *)
TwinExists(u, c, id) == \E a \in AlertId \ {id} : ActiveOn(u, c, a)

(* Two active alerts of one user wait for the same thing. *)
Duplicates(a, b) == a # b /\ IsActive(a) /\ ActiveOn(alerts[a].owner, alerts[a].cond, b)

NewRow(u, c) == [owner |-> u, cond |-> Stored(c), active |-> TRUE,
                 lastNotificationDate |-> FALSE]

(* A step arms alert a: creates it or switches it from inactive to active. *)
Arms(a) == /\ alerts'[a] # NoAlert /\ alerts'[a].active
           /\ ~IsActive(a)

(* A step gives the existing alert a another condition. *)
Recondition(a) == /\ Exists(a) /\ alerts'[a] # NoAlert
                  /\ alerts'[a].cond # alerts[a].cond

(* A step gives the existing alert a to another user. *)
HandsOver(a) == /\ Exists(a) /\ alerts'[a] # NoAlert
                /\ alerts'[a].owner # alerts[a].owner

(* A step changes what user u's requests find out about active alerts: an  *)
(* alert that is or becomes u's is armed, edited or handed over.           *)
Disturbs(u) ==
  \E a \in AlertId :
    /\ Arms(a) \/ Recondition(a) \/ HandsOver(a)
    /\ Owned(u, a) \/ (alerts'[a] # NoAlert /\ alerts'[a].owner = u)
===============================================================================
