--------------------------- MODULE PriceAlertChecker ---------------------------
(***************************************************************************)
(* The job of services/alertScheduler: PriceAlertChecker.checkAllActive-   *)
(* Alerts, run by the single BullMQ worker (concurrency 1) on a schedule,  *)
(* on demand, and again after a failed or interrupted run.  A pass reads   *)
(* the active alerts once, asks for their prices once, and then walks the  *)
(* alerts it read, pushing and deactivating those whose condition is met.  *)
(* Everything after the first step works on that snapshot.                 *)
(*                                                                         *)
(* The price service, Firebase and the crash are outside this module: what *)
(* they may answer is a choice.  checkSpecificAlert has no caller.         *)
(***************************************************************************)
EXTENDS AlertTable, FiniteSets

CONSTANTS
  Token,               \* device tokens
  NoToken,             \* the user never registered a device
  Quote,               \* prices the price service may answer
  Unlisted,            \* no price in its answer for this symbol
  ValidSymbol,         \* symbols matching /^[A-Z0-9]+$/
  MaxSymbols,          \* symbols per price request (100 in the code)
  MaxFaults            \* bound: crashes and failed database writes

ASSUME QuoteAssumption ==
  /\ Quote \subseteq Nat
  /\ Unlisted \notin Quote
  /\ NoToken \notin Token
  /\ ValidSymbol \subseteq Symbol
  /\ MaxSymbols \in Nat /\ MaxFaults \in Nat

(* An element of activeAlerts: what the pass remembers of a row. *)
Snapshot == [id : AlertId, owner : User, cond : Condition, token : Token \cup {NoToken}]

ASSUME NoSnapshotAssumption == NoAlert \notin Snapshot

VARIABLES
  device,    \* [User -> Token \cup {NoToken}], the users' deviceToken column
  market,    \* [Symbol -> Quote \cup {Unlisted}], what the price service would answer
  pc,        \* where the pass stands
  todo,      \* snapshots the loop has not reached
  cur,       \* the snapshot in processTriggeredAlert, NoAlert outside it
  quoted,    \* priceMap
  faults,    \* crashes and failed database writes so far
  push,      \* history: the last push for the alert since it was last armed
  touched    \* history: rows a user has written since the pass read them

jobVars == <<device, market, pc, todo, cur, quoted, faults, push, touched>>
checkerVars == <<alerts, jobVars>>

NoPrices == [s \in Symbol |-> Unlisted]

Symbols == {s.cond.symbol : s \in todo}

-------------------------------------------------------------------------------
JobInit == /\ device \in [User -> Token \cup {NoToken}]
           /\ market \in {m \in [Symbol -> Quote \cup {Unlisted}] :
                            \A s \in Symbol \ ValidSymbol : m[s] = Unlisted}
           /\ pc = "idle" /\ todo = {} /\ cur = NoAlert
           /\ quoted = NoPrices
           /\ faults = 0
           /\ push = [a \in AlertId |-> "none"]
           /\ touched = {}

(* findMany({active: true, include: user.deviceToken}).  Without alerts    *)
(* the pass ends at once.                                                  *)
ReadActiveAlerts ==
  /\ pc = "idle"
  /\ todo' = {[id |-> a, owner |-> alerts[a].owner, cond |-> alerts[a].cond,
               token |-> device[alerts[a].owner]] : a \in {b \in AlertId : IsActive(b)}}
  /\ todo' # {}
  /\ pc' = "fetch"
  /\ touched' = {}
  /\ UNCHANGED <<alerts, device, market, cur, quoted, faults, push>>

(* CryptoPriceService.validateRequest on the symbols of the whole batch.   *)
RequestAccepted == Symbols \subseteq ValidSymbol /\ Cardinality(Symbols) <= MaxSymbols

FetchSucceeds ==
  /\ pc = "fetch" /\ RequestAccepted
  /\ quoted' = [s \in Symbol |-> IF s \in Symbols THEN market[s] ELSE Unlisted]
  /\ pc' = "loop"
  /\ UNCHANGED <<alerts, device, market, todo, cur, faults, push, touched>>

(* getPrices throws or answers success: false; the job fails and is run    *)
(* again as a new pass.                                                    *)
FetchFails ==
  /\ pc = "fetch"
  /\ pc' = "idle" /\ todo' = {} /\ touched' = {}
  /\ UNCHANGED <<alerts, device, market, cur, quoted, faults, push>>

(* Mutants: strict comparisons; directions taken the wrong way round. *)
ConditionMetStrictly(price, c) ==
  IF c.direction = "CROSS_UP" THEN price > c.price ELSE price < c.price

ConditionMetReversed(price, c) ==
  IF c.direction = "CROSS_UP" THEN price <= c.price ELSE price >= c.price

ConditionMet(price, c) ==
  IF c.direction = "CROSS_UP" THEN price >= c.price ELSE price <= c.price

(* One round of the loop, up to the await of processTriggeredAlert.        *)
CheckAlert(s) ==
  LET triggered == /\ quoted[s.cond.symbol] # Unlisted
                   /\ ConditionMet(quoted[s.cond.symbol], s.cond)
  IN  /\ pc = "loop" /\ s \in todo
      /\ todo' = todo \ {s}
      /\ IF triggered
         THEN cur' = s /\ pc' = IF s.token # NoToken THEN "send" ELSE "write"
         ELSE UNCHANGED <<cur, pc>>
      /\ UNCHANGED <<alerts, device, market, quoted, faults, push, touched>>

(* sendPriceAlertNotification returns: Firebase took the message or        *)
(* refused it ({success: false}); the caller does not look.  It never      *)
(* throws: server.ts exits unless Firebase has been initialised.           *)
SendReturns(outcome) ==
  /\ pc = "send"
  /\ push' = [push EXCEPT ![cur.id] = outcome]
  /\ pc' = "write"
  /\ UNCHANGED <<alerts, device, market, todo, cur, quoted, faults, touched>>

(* Mutants of the write: the alert stays active; every alert of its user   *)
(* on the symbol is switched off; the snapshot is written back whole.      *)
StampFiredOnly ==
  /\ pc = "write" /\ Exists(cur.id)
  /\ alerts' = [alerts EXCEPT ![cur.id].lastNotificationDate = TRUE]
  /\ pc' = "loop" /\ cur' = NoAlert
  /\ UNCHANGED <<device, market, todo, quoted, faults, push, touched>>

DeactivateFiredSymbol ==
  /\ pc = "write" /\ Exists(cur.id)
  /\ alerts' = [a \in AlertId |->
       IF Owned(cur.owner, a) /\ alerts[a].cond.symbol = cur.cond.symbol
       THEN [alerts[a] EXCEPT !.active = FALSE, !.lastNotificationDate = TRUE]
       ELSE alerts[a]]
  /\ pc' = "loop" /\ cur' = NoAlert
  /\ UNCHANGED <<device, market, todo, quoted, faults, push, touched>>

WriteFiredSnapshot ==
  /\ pc = "write" /\ Exists(cur.id)
  /\ alerts' = [alerts EXCEPT ![cur.id] =
       [owner |-> cur.owner, cond |-> cur.cond, active |-> FALSE,
        lastNotificationDate |-> TRUE]]
  /\ pc' = "loop" /\ cur' = NoAlert
  /\ UNCHANGED <<device, market, todo, quoted, faults, push, touched>>

(* update({active: false, lastNotificationDate}) by id: no other column,   *)
(* and no look at what the row is by now.                                  *)
DeactivateFired ==
  /\ pc = "write" /\ Exists(cur.id)
  /\ alerts' = [alerts EXCEPT ![cur.id].active = FALSE,
                              ![cur.id].lastNotificationDate = TRUE]
  /\ pc' = "loop" /\ cur' = NoAlert
  /\ UNCHANGED <<device, market, todo, quoted, faults, push, touched>>

(* Mutants: a row that is gone is not survived; the alert stays current. *)
DeactivateFailsUnlessGone ==
  /\ pc = "write" /\ Exists(cur.id)
  /\ faults < MaxFaults /\ faults' = faults + 1
  /\ push' = [push EXCEPT ![cur.id] = "none"]
  /\ pc' = "loop" /\ cur' = NoAlert
  /\ UNCHANGED <<alerts, device, market, todo, quoted, touched>>

DeactivateFailsKeepingCur ==
  /\ pc = "write" /\ ~Exists(cur.id)
  /\ pc' = "loop"
  /\ UNCHANGED <<alerts, cur, device, market, todo, quoted, faults, push, touched>>

(* The row is gone, or the database is: the round's catch goes on.         *)
DeactivateFails ==
  /\ pc = "write"
  /\ IF Exists(cur.id) THEN faults < MaxFaults /\ faults' = faults + 1
                       ELSE UNCHANGED faults
  /\ push' = [push EXCEPT ![cur.id] = "none"]
  /\ pc' = "loop" /\ cur' = NoAlert
  /\ UNCHANGED <<alerts, device, market, todo, quoted, touched>>

EndPass ==
  /\ pc = "loop" /\ todo = {}
  /\ pc' = "idle" /\ quoted' = NoPrices /\ touched' = {}
  /\ UNCHANGED <<alerts, device, market, todo, cur, faults, push>>

(* The process dies and is started again: the pass is lost, its job is run *)
(* again.  Only a push not yet followed by its write is forgotten.         *)
Crash ==
  /\ faults < MaxFaults
  /\ faults' = faults + 1
  /\ pc' = "idle" /\ todo' = {} /\ cur' = NoAlert /\ quoted' = NoPrices
  /\ touched' = {}
  /\ push' = IF pc = "write" THEN [push EXCEPT ![cur.id] = "none"] ELSE push
  /\ UNCHANGED <<alerts, device, market>>

(* The world around the job. *)
MarketMoves(s, q) ==
  /\ market' = [market EXCEPT ![s] = q]
  /\ UNCHANGED <<alerts, device, pc, todo, cur, quoted, faults, push, touched>>

(* updateDeviceTokenService. *)
RegisterDevice(u, t) ==
  /\ device' = [device EXCEPT ![u] = t]
  /\ UNCHANGED <<alerts, market, pc, todo, cur, quoted, faults, push, touched>>

-------------------------------------------------------------------------------
Fetch == FetchSucceeds \/ FetchFails

Send == \E outcome \in {"delivered", "refused"} : SendReturns(outcome)

Deactivate == DeactivateFired \/ DeactivateFails

PassStep == \/ ReadActiveAlerts
            \/ Fetch
            \/ \E s \in todo : CheckAlert(s)
            \/ Send
            \/ Deactivate
            \/ EndPass

WorldStep == \/ \E s \in ValidSymbol, q \in Quote \cup {Unlisted} : MarketMoves(s, q)
             \/ \E u \in User, t \in Token : RegisterDevice(u, t)

(* On its own the job runs over a table nobody else writes: alerts that    *)
(* have never fired, and alerts that have and were armed again.            *)
CheckerInit == /\ JobInit
               /\ alerts \in [AlertId -> {NoAlert} \cup [owner : User, cond : Condition,
                                active : {TRUE}, lastNotificationDate : BOOLEAN]]

CheckerNext == PassStep \/ WorldStep \/ Crash

(* The schedule starts passes for ever and the worker carries each one on; *)
(* the price service answers again and again if asked again and again.     *)
JobFairness == WF_checkerVars(PassStep) /\ SF_checkerVars(FetchSucceeds)

CheckerSpec == CheckerInit /\ [][CheckerNext]_checkerVars /\ JobFairness

-------------------------------------------------------------------------------
(* The variables have their types, and cur is set exactly while an alert   *)
(* is being processed.                                                     *)
JobTypeOK ==
  /\ device \in [User -> Token \cup {NoToken}]
  /\ market \in [Symbol -> Quote \cup {Unlisted}]
  /\ pc \in {"idle", "fetch", "loop", "send", "write"}
  /\ todo \subseteq Snapshot
  /\ cur \in Snapshot \cup {NoAlert}
  /\ pc \in {"send", "write"} <=> cur # NoAlert
  /\ quoted \in [Symbol -> Quote \cup {Unlisted}]
  /\ faults \in 0..MaxFaults
  /\ push \in [AlertId -> {"none", "delivered", "refused"}]
  /\ touched \subseteq AlertId

(* Reference meaning of a crossing, for the properties.                    *)
Crossed(c, price) == \/ c.direction = "CROSS_UP" /\ c.price <= price
                     \/ c.direction = "CROSS_DOWN" /\ c.price >= price

Reached(c) == market[c.symbol] # Unlisted /\ Crossed(c, market[c.symbol])

(* Alert a stands, waiting for c, and the market is there.                 *)
Due(a, c) == IsActive(a) /\ alerts[a].cond = c /\ Reached(c)

(* README.md:35 "Get notified when prices hit your targets": an alert does *)
(* not stay armed for ever while its condition holds.                      *)
DueAlertsFire == \A a \in AlertId, c \in Condition : ~<>[]Due(a, c)

(* A pass always ends. *)
PassesEnd == pc # "idle" ~> pc = "idle"

(* The pass changes row a in this step. *)
Fires(a) == pc = "write" /\ pc' = "loop" /\ alerts'[a] # alerts[a]
===============================================================================
