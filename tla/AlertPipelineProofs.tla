-------------------------- MODULE AlertPipelineProofs --------------------------
(***************************************************************************)
(* Machine-checked proofs about AlertPipeline: what the requests and the   *)
(* price check do to the alerts they share, for any number of users,       *)
(* alerts, requests in flight, symbols, prices, crashes and failures.      *)
(***************************************************************************)
EXTENDS AlertPipeline, TokenAlertsProofs

(* The parts of the state, typed.                                          *)
LEMMA JobTypes ==
  ASSUME PipelineInv
  PROVE  /\ TypeOK /\ JobTypeOK
         /\ todo \subseteq Snapshot
         /\ cur # NoAlert => cur \in Snapshot
         /\ \A s \in Snapshot : s.id \in AlertId /\ s.cond \in Condition /\ s.owner \in User
         /\ \A s \in Snapshot : s.cond.symbol \in Symbol
  BY DEF PipelineInv, DuplicateInv, JobTypeOK, Snapshot, Condition

LEMMA PipelineInitInv == PipelineInit => PipelineInv
  <1> SUFFICES ASSUME PipelineInit
               PROVE  PipelineInv
    OBVIOUS
  <1>1. DuplicateInv
    BY InitInv DEF PipelineInit
  <1>2. NoPrices \in [Symbol -> Quote \cup {Unlisted}]
    BY DEF NoPrices
  <1>3. 0 \in 0..MaxFaults
    BY QuoteAssumption
  <1>4. JobTypeOK
    BY <1>2, <1>3 DEF PipelineInit, JobInit, JobTypeOK
  <1>5. Held = {}
    BY DEF PipelineInit, JobInit, Held
  <1> QED BY <1>1, <1>4, <1>5 DEF PipelineInit, JobInit, PipelineInv, OneSnapshotEach,
             SnapshotsTrue, CurrentMet, PushesOpen

(* The job leaves the requests alone, and most of its steps the table too. *)
LEMMA TableUntouched ==
  ASSUME DuplicateInv, UNCHANGED <<alerts, req, unchecked, holders>>
  PROVE  DuplicateInv'
  BY NextKeepsInv DEF vars

-------------------------------------------------------------------------------
(* The steps of a pass, each on its own.                                   *)
LEMMA ReadKeepsInv ==
  ASSUME PipelineInv, ReadActiveAlerts, UNCHANGED requestVars
  PROVE  PipelineInv'
  <1>1. UNCHANGED <<alerts, req, unchecked, holders, device, market, cur, quoted, faults, push>>
    BY DEF ReadActiveAlerts, requestVars
  <1>2. DuplicateInv'
    BY <1>1, TableUntouched DEF PipelineInv
  <1>3. cur = NoAlert /\ pc = "idle"
    BY DEF ReadActiveAlerts, PipelineInv, JobTypeOK
  <1>4. ASSUME NEW s \in todo'
        PROVE  /\ s \in Snapshot
               /\ IsActive(s.id)
               /\ s = [id |-> s.id, owner |-> alerts[s.id].owner,
                       cond |-> alerts[s.id].cond, token |-> device[alerts[s.id].owner]]
    <2>1. PICK a \in AlertId :
            /\ IsActive(a)
            /\ s = [id |-> a, owner |-> alerts[a].owner, cond |-> alerts[a].cond,
                    token |-> device[alerts[a].owner]]
      BY <1>4 DEF ReadActiveAlerts
    <2>2. alerts[a] \in Row
      BY <2>1, JobTypes, RowTypes DEF IsActive
    <2>3. device[alerts[a].owner] \in Token \cup {NoToken}
      BY <2>2 DEF Row, PipelineInv, JobTypeOK
    <2>4. s \in Snapshot
      BY <2>1, <2>2, <2>3 DEF Snapshot, Row
    <2> QED BY <2>1, <2>4
  <1>5. JobTypeOK'
    BY <1>1, <1>3, <1>4 DEF ReadActiveAlerts, PipelineInv, JobTypeOK
  <1>6. Held' = todo'
    BY <1>1, <1>3 DEF Held
  <1>7. cur \notin todo'
    BY <1>3, <1>4, NoSnapshotAssumption
  <1>8. OneSnapshotEach'
    BY <1>1, <1>4, <1>6, <1>7 DEF OneSnapshotEach, ReadActiveAlerts
  <1>9. SnapshotsTrue'
    BY <1>1, <1>4, <1>6 DEF SnapshotsTrue, IsActive, Exists
  <1>10. CurrentMet'
    BY <1>1, <1>3 DEF CurrentMet
  <1>11. \A a \in AlertId : IsActive(a) => push[a] = "none"
    BY <1>3 DEF PipelineInv, PushesOpen
  <1>12. \A s \in todo' : push'[s.id] = "none"
    BY <1>1, <1>4, <1>11 DEF Snapshot
  <1>13. pc' = "fetch"
    BY DEF ReadActiveAlerts
  <1>14. PushesOpen'
    BY <1>1, <1>11, <1>12, <1>13 DEF PushesOpen, IsActive, Exists
  <1> QED BY <1>2, <1>5, <1>8, <1>9, <1>10, <1>14 DEF PipelineInv

LEMMA FetchKeepsInv ==
  ASSUME PipelineInv, Fetch, UNCHANGED requestVars
  PROVE  PipelineInv'
  <1>1. UNCHANGED <<alerts, req, unchecked, holders, device, market, cur, faults, push>>
    BY DEF Fetch, FetchSucceeds, FetchFails, requestVars
  <1>2. DuplicateInv'
    BY <1>1, TableUntouched DEF PipelineInv
  <1>3. cur = NoAlert /\ pc = "fetch"
    BY DEF Fetch, FetchSucceeds, FetchFails, PipelineInv, JobTypeOK
  <1>4. /\ todo' \subseteq todo /\ pc' \in {"idle", "loop"}
        /\ touched' = touched \/ (todo' = {} /\ touched' = {})
        /\ pc' = "idle" => todo' = {}
    BY DEF Fetch, FetchSucceeds, FetchFails
  <1>5. quoted' \in [Symbol -> Quote \cup {Unlisted}]
    BY DEF Fetch, FetchSucceeds, FetchFails, PipelineInv, JobTypeOK
  <1>6. JobTypeOK'
    BY <1>1, <1>3, <1>4, <1>5 DEF PipelineInv, JobTypeOK
  <1>7. Held' = todo' /\ Held = todo
    BY <1>1, <1>3 DEF Held
  <1>8. OneSnapshotEach'
    BY <1>1, <1>4, <1>7 DEF PipelineInv, OneSnapshotEach
  <1>9. SnapshotsTrue'
    BY <1>1, <1>4, <1>7 DEF PipelineInv, SnapshotsTrue, IsActive, Exists
  <1>10. CurrentMet'
    BY <1>1, <1>3 DEF CurrentMet
  <1>11. PushesOpen'
    BY <1>1, <1>3, <1>4 DEF PipelineInv, PushesOpen, IsActive, Exists
  <1> QED BY <1>2, <1>6, <1>8, <1>9, <1>10, <1>11 DEF PipelineInv

LEMMA ConditionMetCrossed ==
  ASSUME NEW c \in Condition, NEW q \in Quote, ConditionMet(q, c)
  PROVE  Crossed(c, q)
  BY PriceAssumption, QuoteAssumption DEF ConditionMet, Crossed, Condition, Direction

LEMMA CheckAlertKeepsInv ==
  ASSUME PipelineInv, NEW s \in todo, CheckAlert(s), UNCHANGED requestVars
  PROVE  PipelineInv'
  <1>1. UNCHANGED <<alerts, req, unchecked, holders, device, market, quoted, faults, push, touched>>
    BY DEF CheckAlert, requestVars
  <1>2. DuplicateInv'
    BY <1>1, TableUntouched DEF PipelineInv
  <1>3. /\ cur = NoAlert /\ pc = "loop" /\ todo' = todo \ {s}
        /\ s \in Snapshot /\ s.cond \in Condition /\ s.cond.symbol \in Symbol
        /\ s # NoAlert
    BY JobTypes, NoSnapshotAssumption DEF CheckAlert, PipelineInv, JobTypeOK
  <1>4. CASE cur' = NoAlert /\ pc' = "loop"
    <2>1. JobTypeOK'
      BY <1>1, <1>3, <1>4 DEF PipelineInv, JobTypeOK
    <2>2. Held' = todo' /\ Held = todo
      BY <1>3, <1>4 DEF Held
    <2>3. OneSnapshotEach' /\ CurrentMet'
      BY <1>3, <1>4, <2>2 DEF PipelineInv, OneSnapshotEach, CurrentMet
    <2>4. SnapshotsTrue'
      BY <1>1, <1>3, <2>2 DEF PipelineInv, SnapshotsTrue, IsActive, Exists
    <2>5. PushesOpen'
      BY <1>1, <1>3, <1>4 DEF PipelineInv, PushesOpen, IsActive, Exists
    <2> QED BY <1>2, <2>1, <2>3, <2>4, <2>5 DEF PipelineInv
  <1>5. CASE /\ quoted[s.cond.symbol] # Unlisted
             /\ ConditionMet(quoted[s.cond.symbol], s.cond)
             /\ cur' = s /\ pc' = IF s.token # NoToken THEN "send" ELSE "write"
    <2>1. JobTypeOK'
      BY <1>1, <1>3, <1>5 DEF PipelineInv, JobTypeOK
    <2>2. Held' = todo /\ Held = todo
      BY <1>3, <1>5 DEF Held
    <2>3. OneSnapshotEach'
      BY <1>3, <1>5, <2>2 DEF PipelineInv, OneSnapshotEach
    <2>4. quoted[s.cond.symbol] \in Quote
      BY <1>3, <1>5 DEF PipelineInv, JobTypeOK
    <2>5. CurrentMet'
      BY <1>1, <1>3, <1>5, <2>4, ConditionMetCrossed DEF CurrentMet
    <2>6. SnapshotsTrue'
      BY <1>1, <2>2 DEF PipelineInv, SnapshotsTrue, IsActive, Exists
    <2>7. push[s.id] = "none" /\ \A a \in AlertId : IsActive(a) => push[a] = "none"
      BY <1>3 DEF PipelineInv, PushesOpen
    <2>8. \A t \in todo' : push'[t.id] = "none"
      BY <1>1, <1>3 DEF PipelineInv, PushesOpen
    <2>9. cur' = s /\ (pc' = "write" => cur'.token = NoToken)
      BY <1>5
    <2>10. PushesOpen'
      BY <1>1, <2>7, <2>8, <2>9 DEF PushesOpen, IsActive, Exists
    <2> QED BY <1>2, <2>1, <2>3, <2>5, <2>6, <2>10 DEF PipelineInv
  <1> QED BY <1>3, <1>4, <1>5 DEF CheckAlert

LEMMA SendKeepsInv ==
  ASSUME PipelineInv, Send, UNCHANGED requestVars
  PROVE  PipelineInv'
  <1>1. PICK outcome \in {"delivered", "refused"} : SendReturns(outcome)
    BY DEF Send
  <1>2. UNCHANGED <<alerts, req, unchecked, holders, device, market, todo, cur, quoted, faults, touched>>
    BY <1>1 DEF SendReturns, requestVars
  <1>3. DuplicateInv'
    BY <1>2, TableUntouched DEF PipelineInv
  <1>4. /\ pc = "send" /\ pc' = "write" /\ cur # NoAlert /\ cur.id \in AlertId
        /\ push' = [push EXCEPT ![cur.id] = outcome]
    BY <1>1, JobTypes DEF SendReturns, PipelineInv, JobTypeOK
  <1>5. JobTypeOK'
    BY <1>2, <1>4 DEF PipelineInv, JobTypeOK
  <1>6. Held' = Held /\ cur \in Held /\ todo \subseteq Held
    BY <1>2, <1>4 DEF Held
  <1>7. OneSnapshotEach' /\ SnapshotsTrue' /\ CurrentMet'
    <2>1. OneSnapshotEach'
      BY <1>2, <1>4, <1>6 DEF PipelineInv, OneSnapshotEach
    <2>2. SnapshotsTrue'
      BY <1>2, <1>6 DEF PipelineInv, SnapshotsTrue, IsActive, Exists
    <2>3. CurrentMet'
      BY <1>2 DEF PipelineInv, CurrentMet
    <2> QED BY <2>1, <2>2, <2>3
  <1>8. /\ push'[cur.id] = outcome
        /\ \A a \in AlertId \ {cur.id} : push'[a] = push[a]
    BY <1>4 DEF PipelineInv, JobTypeOK
  <1>9. \A s \in todo : s.id # cur.id /\ s.id \in AlertId
    BY <1>6, JobTypes DEF PipelineInv, OneSnapshotEach
  <1>10. PushesOpen'
    BY <1>2, <1>4, <1>8, <1>9 DEF PipelineInv, PushesOpen, IsActive, Exists
  <1> QED BY <1>3, <1>5, <1>7, <1>10 DEF PipelineInv

-------------------------------------------------------------------------------
(* The job's write: the row turns inactive and keeps everything else.      *)
LEMMA FiredRow ==
  ASSUME PipelineInv, DeactivateFired
  PROVE  /\ cur # NoAlert /\ cur.id \in AlertId /\ alerts[cur.id] \in Row
         /\ alerts'[cur.id] \in Row
         /\ alerts'[cur.id].owner = alerts[cur.id].owner
         /\ alerts'[cur.id].cond = alerts[cur.id].cond
         /\ ~alerts'[cur.id].active
         /\ \A a \in AlertId \ {cur.id} : alerts'[a] = alerts[a]
         /\ alerts' \in [AlertId -> Row \cup {NoAlert}]
  <1>1. pc = "write" /\ cur # NoAlert /\ cur.id \in AlertId /\ Exists(cur.id)
    BY JobTypes DEF DeactivateFired, PipelineInv, JobTypeOK
  <1>2. alerts[cur.id] \in Row
    BY <1>1, RowTypes, JobTypes
  <1>3. alerts \in [AlertId -> Row \cup {NoAlert}]
    BY JobTypes DEF TypeOK, AlertsTypeOK
  <1> DEFINE new == [alerts[cur.id] EXCEPT !.active = FALSE, !.lastNotificationDate = TRUE]
  <1>4. alerts' = [alerts EXCEPT ![cur.id] = new]
    BY <1>1, <1>3 DEF DeactivateFired
  <1>5. /\ new \in Row /\ new.owner = alerts[cur.id].owner
        /\ new.cond = alerts[cur.id].cond /\ ~new.active
    BY <1>2 DEF Row
  <1> QED BY <1>1, <1>2, <1>3, <1>4, <1>5

LEMMA FiredStaysGone ==
  ASSUME PipelineInv, DeactivateFired, NEW a \in AlertId
  PROVE  /\ Exists(a)' <=> Exists(a)
         /\ IsActive(a)' => IsActive(a) /\ a # cur.id
         /\ Exists(a) => /\ alerts'[a].owner = alerts[a].owner
                         /\ alerts'[a].cond = alerts[a].cond
  <1>1. alerts[cur.id] # NoAlert /\ alerts'[cur.id] # NoAlert
    BY FiredRow, NoAlertAssumption
  <1> QED BY <1>1, FiredRow DEF Exists, IsActive

LEMMA FiredKeepsDuplicateInv ==
  ASSUME PipelineInv, DeactivateFired, UNCHANGED requestVars
  PROVE  DuplicateInv'
  <1>1. UNCHANGED <<req, unchecked, holders>>
    BY DEF requestVars
  <1>2. TypeOK'
    BY <1>1, FiredRow, JobTypes DEF TypeOK, AlertsTypeOK
  <1>3. RowsStored'
    BY FiredStaysGone DEF PipelineInv, DuplicateInv, RowsStored
  <1>4. HoldersAsk'
    BY <1>1, FiredStaysGone DEF PipelineInv, DuplicateInv, HoldersAsk, Refers, Pending
  <1>5. ASSUME NEW u, NEW c, NEW id, TwinExists(u, c, id)'
        PROVE  TwinExists(u, c, id)
    BY <1>5, FiredStaysGone DEF TwinExists, ActiveOn, IsActive
  <1>6. ASSUME NEW r \in Req
        PROVE  UpToDate(r)'
    <2>1. UpToDate(r)
      BY DEF PipelineInv, DuplicateInv
    <2>2. \A a \in AlertId : Exists(a)' => /\ Exists(a)
                                         /\ alerts'[a].owner = alerts[a].owner
                                         /\ alerts'[a].cond = alerts[a].cond
      BY FiredStaysGone
    <2>3. TwinExists(req[r].user, req[r].cond, req[r].id)' =>
            TwinExists(req[r].user, req[r].cond, req[r].id)
      BY <1>1, FiredStaysGone DEF TwinExists, ActiveOn, IsActive
    <2>4. Pending(r)' = Pending(r) /\ Checked(r)' = Checked(r)
      BY <1>1 DEF Pending, Checked
    <2> QED BY <1>1, <2>1, <2>2, <2>3, <2>4 DEF UpToDate
  <1>7. ASSUME NEW a \in AlertId, NEW b \in AlertId, Duplicates(a, b)'
        PROVE  Duplicates(a, b)
    BY <1>7, FiredStaysGone DEF Duplicates, ActiveOn, IsActive
  <1>8. DuplicateNeedsUncheckedWrite'
    BY <1>1, <1>7 DEF PipelineInv, DuplicateInv, DuplicateNeedsUncheckedWrite
  <1> QED BY <1>2, <1>3, <1>4, <1>6, <1>8 DEF DuplicateInv

LEMMA DeactivateKeepsInv ==
  ASSUME PipelineInv, Deactivate, UNCHANGED requestVars
  PROVE  PipelineInv'
  <1>1. /\ pc = "write" /\ pc' = "loop" /\ cur' = NoAlert
        /\ UNCHANGED <<device, market, todo, quoted, touched, req, unchecked, holders>>
    BY DEF Deactivate, DeactivateFired, DeactivateFails, requestVars
  <1>2. cur # NoAlert /\ cur.id \in AlertId
    BY <1>1, JobTypes DEF PipelineInv, JobTypeOK
  <1>3. Held' = todo /\ todo \subseteq Held /\ cur \in Held
    BY <1>1, <1>2 DEF Held
  <1>4. \A s \in todo : s.id # cur.id /\ s.id \in AlertId /\ s # NoAlert
    BY <1>3, JobTypes, NoSnapshotAssumption DEF PipelineInv, OneSnapshotEach
  <1>5. OneSnapshotEach' /\ CurrentMet'
    BY <1>1, <1>3, <1>4 DEF PipelineInv, OneSnapshotEach, CurrentMet
  <1>6. CASE DeactivateFired
    <2>1. faults' = faults /\ push' = push
      BY <1>6 DEF DeactivateFired
    <2>2. DuplicateInv'
      BY <1>6, FiredKeepsDuplicateInv
    <2>3. JobTypeOK'
      BY <1>1, <2>1 DEF PipelineInv, JobTypeOK
    <2>4. ASSUME NEW s \in todo, s.id \notin touched
          PROVE  IsActive(s.id)' /\ alerts'[s.id].cond = s.cond
      <3>1. IsActive(s.id) /\ alerts[s.id].cond = s.cond
        BY <1>3, <2>4 DEF PipelineInv, SnapshotsTrue
      <3>2. alerts'[s.id] = alerts[s.id]
        BY <1>4, <1>6, FiredRow
      <3> QED BY <3>1, <3>2 DEF IsActive, Exists
    <2>5. SnapshotsTrue'
      BY <1>1, <1>3, <2>4 DEF SnapshotsTrue
    <2>6. \A a \in AlertId : IsActive(a)' => IsActive(a) /\ a # cur.id
      BY <1>6, FiredStaysGone
    <2>7. PushesOpen'
      BY <1>1, <2>1, <2>6 DEF PipelineInv, PushesOpen
    <2> QED BY <1>5, <2>2, <2>3, <2>5, <2>7 DEF PipelineInv
  <1>7. CASE DeactivateFails
    <2>1. alerts' = alerts /\ push' = [push EXCEPT ![cur.id] = "none"]
      BY <1>7 DEF DeactivateFails
    <2>2. DuplicateInv'
      BY <1>1, <2>1, TableUntouched DEF PipelineInv
    <2>3. faults' \in 0..MaxFaults
      BY <1>7, QuoteAssumption DEF DeactivateFails, PipelineInv, JobTypeOK
    <2>4. JobTypeOK'
      BY <1>1, <2>1, <2>3 DEF PipelineInv, JobTypeOK
    <2>5. SnapshotsTrue'
      BY <1>1, <1>3, <2>1 DEF PipelineInv, SnapshotsTrue, IsActive, Exists
    <2>6. push'[cur.id] = "none" /\ \A a \in AlertId \ {cur.id} : push'[a] = push[a]
      BY <2>1 , <1>2 DEF PipelineInv, JobTypeOK
    <2>7. PushesOpen'
      BY <1>1, <1>4, <2>1, <2>6 DEF PipelineInv, PushesOpen, IsActive, Exists
    <2> QED BY <1>5, <2>2, <2>4, <2>5, <2>7 DEF PipelineInv
  <1> QED BY <1>6, <1>7 DEF Deactivate

LEMMA EndPassKeepsInv ==
  ASSUME PipelineInv, EndPass, UNCHANGED requestVars
  PROVE  PipelineInv'
  <1>1. /\ pc = "loop" /\ pc' = "idle" /\ todo = {} /\ quoted' = NoPrices /\ touched' = {}
        /\ UNCHANGED <<alerts, req, unchecked, holders, device, market, todo, cur, faults, push>>
    BY DEF EndPass, requestVars
  <1>2. DuplicateInv'
    BY <1>1, TableUntouched DEF PipelineInv
  <1>3. cur = NoAlert /\ Held' = {}
    BY <1>1 DEF PipelineInv, JobTypeOK, Held
  <1>4. JobTypeOK'
    BY <1>1, <1>3 DEF PipelineInv, JobTypeOK, NoPrices
  <1> QED BY <1>1, <1>2, <1>3, <1>4 DEF PipelineInv, OneSnapshotEach, SnapshotsTrue,
             CurrentMet, PushesOpen, IsActive, Exists

-------------------------------------------------------------------------------
(* What happens around the pass.                                           *)
LEMMA WorldKeepsInv ==
  ASSUME PipelineInv, WorldStep, UNCHANGED requestVars
  PROVE  PipelineInv'
  <1>1. UNCHANGED <<alerts, req, unchecked, holders, pc, todo, cur, quoted, faults, push, touched>>
    BY DEF WorldStep, MarketMoves, RegisterDevice, requestVars
  <1>2. DuplicateInv'
    BY <1>1, TableUntouched DEF PipelineInv
  <1>3. /\ device' \in [User -> Token \cup {NoToken}]
        /\ market' \in [Symbol -> Quote \cup {Unlisted}]
    BY QuoteAssumption DEF WorldStep, MarketMoves, RegisterDevice, PipelineInv, JobTypeOK
  <1>4. JobTypeOK'
    BY <1>1, <1>3 DEF PipelineInv, JobTypeOK
  <1>5. Held' = Held
    BY <1>1 DEF Held
  <1> QED BY <1>1, <1>2, <1>4, <1>5 DEF PipelineInv, OneSnapshotEach, SnapshotsTrue,
             CurrentMet, PushesOpen, IsActive, Exists

LEMMA CrashKeepsInv ==
  ASSUME PipelineInv, CrashStep
  PROVE  PipelineInv'
  <1>1. /\ pc' = "idle" /\ todo' = {} /\ cur' = NoAlert /\ quoted' = NoPrices
        /\ touched' = {} /\ req' = [r \in Req |-> NoRequest]
        /\ UNCHANGED <<alerts, unchecked, holders, device, market>>
    BY DEF CrashStep, Crash
  <1>2. faults' \in 0..MaxFaults
    BY QuoteAssumption DEF CrashStep, Crash, PipelineInv, JobTypeOK
  <1>3. TypeOK'
    BY <1>1, JobTypes DEF TypeOK, AlertsTypeOK
  <1>4. \A r \in Req : ~Pending(r)'
    BY <1>1 DEF Pending
  <1>5. DuplicateInv'
    BY <1>1, <1>3, <1>4 DEF PipelineInv, DuplicateInv, RowsStored, HoldersAsk, Refers,
         UpToDate, DuplicateNeedsUncheckedWrite, Duplicates, ActiveOn, IsActive, Exists
  <1>6. push' \in [AlertId -> {"none", "delivered", "refused"}]
    BY DEF CrashStep, Crash, PipelineInv, JobTypeOK
  <1>7. JobTypeOK'
    BY <1>1, <1>2, <1>6 DEF PipelineInv, JobTypeOK, NoPrices
  <1>8. Held' = {}
    BY <1>1 DEF Held
  <1>9. ASSUME NEW a \in AlertId, IsActive(a)
        PROVE  push'[a] = "none"
    <2>1. CASE pc = "write"
      <3>1. cur.id \in AlertId /\ push' = [push EXCEPT ![cur.id] = "none"]
        BY <2>1, JobTypes DEF CrashStep, Crash, PipelineInv, JobTypeOK
      <3>2. push[a] # "none" => a = cur.id
        BY <1>9 DEF PipelineInv, PushesOpen
      <3> QED BY <3>1, <3>2 DEF PipelineInv, JobTypeOK
    <2>2. CASE pc # "write"
      BY <1>9, <2>2 DEF PipelineInv, PushesOpen, CrashStep, Crash
    <2> QED BY <2>1, <2>2
  <1>10. PushesOpen'
    BY <1>1, <1>9 DEF PushesOpen, IsActive, Exists
  <1> QED BY <1>1, <1>5, <1>7, <1>8, <1>10 DEF PipelineInv, OneSnapshotEach,
             SnapshotsTrue, CurrentMet

(* A request may change rows under the pass: it marks them touched, and    *)
(* opens the push of an alert it arms or deletes again.                    *)
LEMMA RequestKeepsInv ==
  ASSUME PipelineInv, NEW r \in Req, RequestStep(r)
  PROVE  PipelineInv'
  <1>1. Step(r) /\ UNCHANGED <<device, market, pc, todo, cur, quoted, faults>>
    BY DEF RequestStep
  <1>2. DuplicateInv'
    BY <1>1, NextKeepsInv DEF PipelineInv, Next
  <1>3. /\ \A a \in AlertId : push'[a] = push[a] \/ push'[a] = "none"
        /\ \A a \in AlertId : Arms(a) \/ alerts'[a] = NoAlert => push'[a] = "none"
        /\ \A a \in AlertId : ~Arms(a) /\ alerts'[a] # NoAlert => push'[a] = push[a]
        /\ push' \in [AlertId -> {"none", "delivered", "refused"}]
    BY DEF RequestStep, PipelineInv, JobTypeOK
  <1>4. touched' \subseteq AlertId
    BY DEF RequestStep, PipelineInv, JobTypeOK
  <1>5. JobTypeOK'
    BY <1>1, <1>3, <1>4 DEF PipelineInv, JobTypeOK
  <1>6. Held' = Held /\ Held \subseteq Snapshot
    BY <1>1, JobTypes DEF Held
  <1>7. OneSnapshotEach' /\ CurrentMet'
    BY <1>1, <1>6 DEF PipelineInv, OneSnapshotEach, CurrentMet
  <1>8. CASE pc = "idle"
    <2>1. Held = {} /\ cur = NoAlert
      BY <1>8 DEF PipelineInv, OneSnapshotEach, JobTypeOK, Held
    <2>2. SnapshotsTrue'
      BY <1>6, <2>1 DEF SnapshotsTrue
    <2>3. PushesOpen'
      BY <1>1, <1>3, <1>8, <2>1 DEF PipelineInv, PushesOpen, Arms, IsActive, Exists, Held
    <2> QED BY <1>2, <1>5, <1>7, <2>2, <2>3 DEF PipelineInv
  <1>9. CASE pc # "idle"
    <2>1. \A a \in AlertId : a \notin touched' => a \notin touched /\ alerts'[a] = alerts[a]
      BY <1>9 DEF RequestStep
    <2>2. \A s \in Held : s.id \in AlertId
      BY <1>6, JobTypes
    <2>3. SnapshotsTrue'
      BY <1>6, <2>1, <2>2 DEF PipelineInv, SnapshotsTrue, IsActive, Exists
    <2>4. \A s \in todo' : push'[s.id] = "none"
      BY <1>1, <1>3, <2>2 DEF PipelineInv, PushesOpen, Held
    <2>5. pc' = "send" => push'[cur'.id] = "none"
      BY <1>1, <1>3, <2>2 DEF PipelineInv, PushesOpen, Held, JobTypeOK
    <2>6. ASSUME NEW a \in AlertId, IsActive(a)', push'[a] # "none"
          PROVE  pc' = "write" /\ cur'.id = a
      <3>1. IsActive(a) /\ push[a] # "none"
        BY <1>3, <2>6 DEF Arms, IsActive, Exists
      <3> QED BY <1>1, <3>1 DEF PipelineInv, PushesOpen
    <2>7. ASSUME pc = "write", cur.id \notin touched'
          PROVE  push'[cur.id] # "none" \/ cur.token = NoToken
      <3>1. cur \in Held /\ cur.id \in AlertId
        BY <2>2, <2>7 DEF Held, PipelineInv, JobTypeOK
      <3>2. cur.id \notin touched /\ alerts'[cur.id] = alerts[cur.id]
        BY <2>1, <2>7, <3>1
      <3>3. IsActive(cur.id)
        BY <3>1, <3>2 DEF PipelineInv, SnapshotsTrue
      <3>4. push'[cur.id] = push[cur.id]
        BY <1>3, <3>1, <3>2, <3>3 DEF Arms, IsActive, Exists
      <3> QED BY <2>7, <3>2, <3>4 DEF PipelineInv, PushesOpen
    <2>8. PushesOpen'
      BY <1>1, <2>4, <2>5, <2>6, <2>7 DEF PushesOpen
    <2> QED BY <1>2, <1>5, <1>7, <2>3, <2>8 DEF PipelineInv
  <1> QED BY <1>8, <1>9

LEMMA PipelineStepInv ==
  ASSUME PipelineInv, [PipelineNext]_pipelineVars
  PROVE  PipelineInv'
  <1>1. CASE UNCHANGED pipelineVars
    <2>1. UNCHANGED <<alerts, req, unchecked, holders, device, market, pc, todo, cur, quoted,
                      faults, push, touched>>
      BY <1>1 DEF pipelineVars, jobVars
    <2>2. DuplicateInv'
      BY <2>1, TableUntouched DEF PipelineInv
    <2> QED BY <2>1, <2>2 DEF PipelineInv, JobTypeOK, OneSnapshotEach, SnapshotsTrue,
               CurrentMet, PushesOpen, Held, IsActive, Exists
  <1>2. ASSUME NEW r \in Req, RequestStep(r)
        PROVE  PipelineInv'
    BY <1>2, RequestKeepsInv
  <1>3. CASE CrashStep
    BY <1>3, CrashKeepsInv
  <1>4. CASE PassStep /\ UNCHANGED requestVars
    BY <1>4, ReadKeepsInv, FetchKeepsInv, CheckAlertKeepsInv, SendKeepsInv,
       DeactivateKeepsInv, EndPassKeepsInv DEF PassStep
  <1>5. CASE WorldStep /\ UNCHANGED requestVars
    BY <1>5, WorldKeepsInv
  <1> QED BY <1>1, <1>2, <1>3, <1>4, <1>5 DEF PipelineNext, JobStep

(* The inductive invariant holds in every reachable state.                 *)
THEOREM PipelineInvCorrect == PipelineSpec => []PipelineInv
  <1> QED BY PipelineInitInv, PipelineStepInv, PTL DEF PipelineSpec

(* Table, requests and job stay well typed together, and an alert is       *)
(* current exactly while the job is sending or writing.                    *)
THEOREM PipelineTypeCorrect == PipelineSpec => []PipelineTypeOK
  <1>1. PipelineInv => PipelineTypeOK
    BY JobTypes DEF PipelineTypeOK
  <1> QED BY <1>1, PipelineInvCorrect, PTL

-------------------------------------------------------------------------------
(* What a step of the whole subsystem does.                                *)
LEMMA FiringStep ==
  ASSUME PipelineInv, [PipelineNext]_pipelineVars, pc = "write", pc' = "loop"
  PROVE  Deactivate /\ UNCHANGED requestVars
  BY DEF PipelineNext, pipelineVars, jobVars, RequestStep, JobStep, CrashStep, Crash,
         PassStep, WorldStep, MarketMoves, RegisterDevice, ReadActiveAlerts, Fetch,
         FetchSucceeds, FetchFails, CheckAlert, Send, SendReturns, EndPass

LEMMA FiresRightly ==
  ASSUME PipelineInv, [PipelineNext]_pipelineVars, NEW a \in AlertId,
         Fires(a), a \notin touched
  PROVE  /\ IsActive(a)
         /\ Crossed(alerts[a].cond, quoted[alerts[a].cond.symbol])
         /\ push[a] # "none" \/ cur.token = NoToken
  <1>1. pc = "write" /\ pc' = "loop" /\ alerts'[a] # alerts[a]
    BY DEF Fires
  <1>2. DeactivateFired
    BY <1>1, FiringStep DEF Deactivate, DeactivateFails
  <1>3. cur # NoAlert /\ a = cur.id
    BY <1>1, <1>2, FiredRow
  <1>4. cur \in Held
    BY <1>3, JobTypes DEF Held
  <1>5. IsActive(a) /\ alerts[a].cond = cur.cond
    BY <1>3, <1>4 DEF PipelineInv, SnapshotsTrue
  <1> QED BY <1>1, <1>3, <1>5 DEF PipelineInv, CurrentMet, PushesOpen

(* While its user leaves an alert alone, the pass deactivates it only if   *)
(* it was active, its condition was met at the quoted price, and its push  *)
(* had gone out - however many requests, failures and crashes there are.   *)
THEOREM FiresOnlyRightly == PipelineSpec => UntouchedFiresRightly
  <1>1. PipelineInv /\ [PipelineNext]_pipelineVars =>
          [\A a \in AlertId : Fires(a) /\ a \notin touched =>
             /\ IsActive(a)
             /\ Crossed(alerts[a].cond, quoted[alerts[a].cond.symbol])
             /\ push[a] # "none" \/ cur.token = NoToken]_pipelineVars
    BY FiresRightly
  <1> QED BY <1>1, PipelineInvCorrect, PTL DEF PipelineSpec, UntouchedFiresRightly

(* No alert is pushed a second time for one arming, unless a crash or a    *)
(* failed write came between its push and its write.                       *)
THEOREM PushedOnce == PipelineSpec => NoRepeatedPush
  <1>1. PipelineInv =>
          [\A a \in AlertId : pc = "send" /\ pc' = "write" /\ cur.id = a =>
             push[a] = "none"]_pipelineVars
    BY DEF PipelineInv, PushesOpen
  <1> QED BY <1>1, PipelineInvCorrect, PTL DEF NoRepeatedPush

-------------------------------------------------------------------------------
(* A request that begins takes a free slot.                                *)
LEMMA HoldFills ==
  ASSUME TypeOK, NEW r \in Req,
         NEW q \in {"check", "write"}, NEW op \in Op, NEW u \in User,
         NEW id \in AlertId \cup {NoAlert}, NEW c \in Condition,
         NEW p \in Patches \cup {NoPatch},
         op = "create" <=> id = NoAlert,
         q = "check" => op \in {"update", "activate"},
         op # "update" => p = NoPatch,
         Hold(r, q, op, u, id, c, p)
  PROVE  ~Pending(r) /\ req'[r] # NoRequest
  <1>1. [pc |-> q, op |-> op, user |-> u, id |-> id, cond |-> c, patch |-> p,
         stale |-> FALSE] \in InFlight
    BY DEF InFlight
  <1> QED BY <1>1, NoRequestAssumption DEF Hold, TypeOK

LEMMA BeginFills ==
  ASSUME TypeOK, NEW r \in Req, Begin(r)
  PROVE  ~Pending(r) /\ req'[r] # NoRequest
  <1>1. \A a \in AlertId : a # NoAlert
    BY NoAlertAssumption
  <1>2. ASSUME NEW u \in User, NEW c \in Condition, BeginCreate(r, u, c)
        PROVE  ~Pending(r) /\ req'[r] # NoRequest
    BY <1>2, HoldFills DEF BeginCreate, Op
  <1>3. ASSUME NEW u \in User, NEW a \in AlertId, NEW p \in Patches, BeginUpdate(r, u, a, p)
        PROVE  ~Pending(r) /\ req'[r] # NoRequest
    <2>1. Merge(alerts[a].cond, p) \in Condition
      BY <1>3, RowTypes, MergeType DEF BeginUpdate, Owned
    <2> QED BY <2>1, <1>1, <1>3, HoldFills DEF BeginUpdate, Op
  <1>4. ASSUME NEW u \in User, NEW a \in AlertId, BeginActivate(r, u, a)
        PROVE  ~Pending(r) /\ req'[r] # NoRequest
    BY <1>1, <1>4, RowTypes, HoldFills DEF BeginActivate, Owned, Op
  <1>5. ASSUME NEW u \in User, NEW a \in AlertId, BeginDeactivate(r, u, a)
        PROVE  ~Pending(r) /\ req'[r] # NoRequest
    BY <1>1, <1>5, RowTypes, HoldFills DEF BeginDeactivate, Owned, Op
  <1>6. ASSUME NEW u \in User, NEW a \in AlertId, BeginDelete(r, u, a)
        PROVE  ~Pending(r) /\ req'[r] # NoRequest
    BY <1>1, <1>6, RowTypes, HoldFills DEF BeginDelete, Owned, Op
  <1> QED BY <1>2, <1>3, <1>4, <1>5, <1>6 DEF Begin

(* Every step of a request shows in req.                                   *)
LEMMA RequestsMove ==
  ASSUME PipelineInv, NEW r \in Req, Step(r)
  PROVE  req' # req
  <1>1. TypeOK /\ req \in [Req -> InFlight \cup {NoRequest}]
    BY JobTypes DEF TypeOK
  <1>2. CASE Begin(r)
    BY <1>1, <1>2, BeginFills DEF Pending
  <1>3. CASE CheckDuplicate(r)
    BY <1>1, <1>3 DEF CheckDuplicate, Pending, InFlight
  <1>4. CASE Write(r)
    BY <1>4, <1>1 DEF Write, WriteCreate, WriteUpdate, WriteActivate, WriteDeactivate,
                      WriteDelete, Commit, Pending
  <1>5. CASE Refuse(r)
    BY <1>1, <1>5 DEF Refuse, Pending
  <1> QED BY <1>2, <1>3, <1>4, <1>5 DEF Step

(* Outside the requests only the job's write changes the table.            *)
LEMMA JobStepsOnTable ==
  ASSUME [PipelineNext]_pipelineVars, ~\E r \in Req : RequestStep(r)
  PROVE  alerts' = alerts \/ (DeactivateFired /\ UNCHANGED requestVars)
  BY DEF PipelineNext, pipelineVars, JobStep, CrashStep, Crash, PassStep, WorldStep,
         MarketMoves, RegisterDevice, ReadActiveAlerts, Fetch, FetchSucceeds,
         FetchFails, CheckAlert, Send, SendReturns, Deactivate, DeactivateFails, EndPass

LEMMA EditsKept ==
  ASSUME PipelineInv, [PipelineNext]_pipelineVars, req' = req, NEW a \in AlertId
  PROVE  /\ ~Arms(a) /\ ~Recondition(a) /\ ~HandsOver(a)
         /\ ~Exists(a) => alerts'[a] = NoAlert
  <1>1. ~\E r \in Req : RequestStep(r)
    BY RequestsMove DEF RequestStep
  <1>2. CASE alerts' = alerts
    BY <1>2 DEF Arms, Recondition, HandsOver, IsActive, Exists
  <1>3. CASE DeactivateFired
    BY <1>3, FiredStaysGone DEF Arms, Recondition, HandsOver, IsActive, Exists
  <1> QED BY <1>1, <1>2, <1>3, JobStepsOnTable

(* The job's late write, by id and blind to what the row has become, never *)
(* arms an alert, revives a deleted one, or undoes an edit or a handover.  *)
THEOREM EditsSurviveTheJob == PipelineSpec => JobKeepsEdits
  <1>1. PipelineInv /\ [PipelineNext]_pipelineVars =>
          [req' = req => \A a \in AlertId :
             /\ ~Arms(a) /\ ~Recondition(a) /\ ~HandsOver(a)
             /\ ~Exists(a) => alerts'[a] = NoAlert]_pipelineVars
    BY EditsKept
  <1> QED BY <1>1, PipelineInvCorrect, PTL DEF PipelineSpec, JobKeepsEdits

-------------------------------------------------------------------------------
(* The refinement: in the book, the job's write is a change of the alert   *)
(* to inactive; a crash shows nowhere.                                     *)
LEMMA FiredIsBookStep ==
  ASSUME PipelineInv, DeactivateFired, UNCHANGED requestVars
  PROVE  Book!BookNext
  <1>1. PICK a \in AlertId : a = cur.id
    BY FiredRow
  <1>2. /\ Exists(a) /\ alerts[a].owner \in User /\ alerts[a].cond \in Condition
        /\ unchecked' = unchecked
    BY <1>1, FiredRow DEF DeactivateFired, requestVars, Row
  <1>3. \A b \in AlertId : Exists(b)' <=> Exists(b)
    BY FiredStaysGone
  <1> DEFINE e == [owner |-> alerts[a].owner, cond |-> alerts[a].cond, active |-> FALSE]
  <1>4. EntryOf(a)' = e
    BY <1>1, FiredRow DEF EntryOf, Row
  <1>5. \A b \in AlertId \ {a} : EntryOf(b)' = EntryOf(b)
    BY <1>1, FiredRow DEF EntryOf
  <1>6. a \in DOMAIN BookOf /\ BookOf[a].owner = alerts[a].owner
    BY <1>2 DEF BookOf, EntryOf
  <1>7. BookOf' = [b \in DOMAIN BookOf \cup {a} |-> IF b = a THEN e ELSE BookOf[b]]
    BY <1>2, <1>3, <1>4, <1>5 DEF BookOf
  <1>8. Book!Put(a, e)
    BY <1>2, <1>7 DEF Book!Put, BookOf
  <1>9. Book!Change(a, alerts[a].owner, alerts[a].cond, FALSE)
    BY <1>6, <1>8 DEF Book!Change, Book!Present, BookOf
  <1> QED BY <1>2, <1>9 DEF Book!BookNext

(* With the job and its crashes on the same table the handlers still       *)
(* implement the book: what the pass does to an alert is one atomic change *)
(* of that alert, of its active flag only.                                 *)
THEOREM PipelineImplementsBook == PipelineSpec => ImplementsBook
  <1>1. PipelineInit => Book!BookInit
    BY DEF PipelineInit, Init, RequestsInit, Exists, Book!BookInit
  <1>2. PipelineInv /\ [PipelineNext]_pipelineVars => [Book!BookNext]_Book!bookVars
    <2> SUFFICES ASSUME PipelineInv, [PipelineNext]_pipelineVars
                 PROVE  [Book!BookNext]_Book!bookVars
      OBVIOUS
    <2>1. CASE UNCHANGED <<alerts, unchecked>>
      BY <2>1 DEF Book!bookVars, Exists, EntryOf
    <2>2. ASSUME NEW r \in Req, RequestStep(r)
          PROVE  [Book!BookNext]_Book!bookVars
      <3>1. Step(r) /\ DuplicateInv
        BY <2>2 DEF RequestStep, PipelineInv
      <3>2. CASE Write(r)
        BY <3>1, <3>2, WriteIsBookStep
      <3> QED BY <2>1, <3>1, <3>2, OnlyWritesChange
    <2>3. CASE DeactivateFired /\ UNCHANGED requestVars
      BY <2>3, FiredIsBookStep
    <2>4. unchecked' = unchecked \/ \E r \in Req : RequestStep(r)
      BY DEF PipelineNext, pipelineVars, JobStep, CrashStep, requestVars
    <2> QED BY <2>1, <2>2, <2>3, <2>4, JobStepsOnTable
  <1> QED BY <1>1, <1>2, PipelineInvCorrect, PTL
          DEF PipelineSpec, ImplementsBook, Book!BookSpec

-------------------------------------------------------------------------------
(* Without a cause no request is ever out of date and no write unchecked.  *)
Quiet == /\ unchecked = {}
         /\ \A r \in Req : Pending(r) => ~req[r].stale

LEMMA HoldQuiet ==
  ASSUME TypeOK, Quiet, NEW r \in Req, NEW p, NEW op, NEW u, NEW id, NEW c, NEW b,
         Hold(r, p, op, u, id, c, b)
  PROVE  Quiet'
  <1>1. \A q \in Req : q # r => req'[q] = req[q]
    BY DEF Hold, TypeOK
  <1>2. req'[r].stale = FALSE /\ unchecked' = unchecked
    BY DEF Hold, TypeOK
  <1> QED BY <1>1, <1>2 DEF Quiet, Pending

LEMMA StepQuiet ==
  ASSUME NoCauses, DuplicateInv, Quiet, NEW r \in Req, Step(r)
  PROVE  Quiet'
  <1> TypeOK
    BY DEF DuplicateInv
  <1>1. CASE Begin(r)
    BY <1>1, HoldQuiet DEF Begin, BeginCreate, BeginUpdate, BeginActivate, BeginDeactivate,
         BeginDelete
  <1>2. CASE CheckDuplicate(r) \/ Refuse(r)
    <2>1. \A q \in Req : q # r => req'[q] = req[q]
      BY <1>2 DEF CheckDuplicate, Refuse, TypeOK
    <2>2. Pending(r) /\ ~req[r].stale /\ unchecked' = unchecked
      BY <1>2 DEF CheckDuplicate, Refuse, Quiet
    <2>3. req[r] \in InFlight
      BY <2>2, RequestTypes
    <2>4. req'[r] # NoRequest => ~req'[r].stale
      BY <1>2, <2>2, <2>3 DEF CheckDuplicate, Refuse, TypeOK, InFlight
    <2> QED BY <2>1, <2>2, <2>4 DEF Quiet, Pending
  <1>3. CASE Write(r)
    <2>1. Pending(r) /\ ~req[r].stale /\ req[r] \in InFlight
      <3>1. Pending(r)
        BY <1>3 DEF Write, WriteCreate, WriteUpdate, WriteActivate, WriteDeactivate, WriteDelete
      <3> QED BY <3>1, RequestTypes DEF Quiet
    <2>2. Stored(req[r].cond) = req[r].cond
      BY <2>1 DEF NoCauses, InFlight
    <2>3. \A q \in Req : req'[q] = NoRequest
      <3>1. \A q \in Req : q = r
        BY DEF NoCauses
      <3>2. req'[r] = NoRequest
        BY <1>3 DEF Write, WriteCreate, WriteUpdate, WriteActivate, WriteDeactivate,
             WriteDelete, Commit
      <3> QED BY <3>1, <3>2
    <2>4. unchecked' = {}
      <3>1. CASE \E a \in AlertId : WriteCreate(r, a)
        BY <2>1, <2>2, <3>1 DEF WriteCreate, Quiet
      <3>2. CASE WriteUpdate(r)
        <4>1. PICK a, p : a = req[r].id /\ p = req[r].patch
          OBVIOUS
        <4>2. PICK new : new = Patched(alerts[a], p)
          OBVIOUS
        <4>3. /\ req[r].op = "update" /\ Exists(a)
              /\ unchecked' =
                   CASE Keyed(p) -> IF \/ req[r].stale \/ Stored(req[r].cond) # req[r].cond
                                       \/ new.owner # req[r].user
                                    THEN unchecked \cup {a} ELSE unchecked \ {a}
                     [] /\ ~Keyed(p) /\ new.active
                        /\ ~alerts[a].active \/ new.owner # alerts[a].owner
                          -> unchecked \cup {a}
                     [] OTHER -> unchecked
          BY <3>2, <4>1, <4>2 DEF WriteUpdate
        <4>4. a \in AlertId /\ alerts[a] \in Row /\ alerts[a].owner = req[r].user
          BY <2>1, <4>1, <4>3, WrittenRow
        <4>5. p \in Patches \cup {NoPatch} /\ p.owner = Absent
          <5>1. p \in Patches \cup {NoPatch}
            BY <2>1, <4>1 DEF InFlight
          <5>2. NoPatch.owner = Absent /\ \A b \in Patches : b.owner = Absent
            BY DEF NoCauses, NoPatch
          <5> QED BY <5>1, <5>2
        <4>6. new.owner = alerts[a].owner
          BY <4>2, <4>4, <4>5, PatchedType
        <4>7. CASE Keyed(p)
          BY <2>1, <2>2, <4>3, <4>7, <4>4, <4>6 DEF Quiet
        <4>8. CASE ~Keyed(p)
          <5>1. alerts[a] \in Row /\ p \in Patches \cup {NoPatch} /\ p \in Patch
            BY <4>4, <4>5, PatchesAssumption DEF Patch, NoPatch
          <5>2. new.active = IF p.active = Absent THEN alerts[a].active ELSE p.active
            BY <4>2, <5>1 DEF Patched, Row
          <5>3. p.active = Absent \/ p.active = FALSE
            <6>1. p.active \in BOOLEAN \cup {Absent}
              BY <5>1 DEF Patch
            <6>2. p \in Patches => p.active # TRUE
              BY <4>8 DEF NoCauses
            <6>3. p = NoPatch => p.active = Absent
              BY DEF NoPatch
            <6> QED BY <5>1, <6>1, <6>2, <6>3
          <5>4. ~(new.active /\ ~alerts[a].active)
            BY <5>1, <5>2, <5>3
          <5> QED BY <4>3, <4>8, <4>6, <5>4 DEF Quiet
        <4> QED BY <4>7, <4>8
      <3>3. CASE WriteActivate(r)
        BY <2>1, <3>3 DEF WriteActivate, Quiet
      <3>4. CASE WriteDeactivate(r) \/ WriteDelete(r)
        BY <3>4 DEF WriteDeactivate, WriteDelete, Quiet
      <3> QED BY <1>3, <3>1, <3>2, <3>3, <3>4 DEF Write
    <2> QED BY <2>3, <2>4 DEF Quiet, Pending
  <1> QED BY <1>1, <1>2, <1>3 DEF Step

(* Repetitions have no cause but these: where requests come one at a time, *)
(* the column keeps every price and no body only switches an alert on or   *)
(* names an owner, the claim of ALREADY_EXISTS (tokenAlert.service.ts:64,  *)
(* :130, :172) holds, whatever the job and its crashes do between a check  *)
(* and its write.                                                          *)
THEOREM OneAtATimeKeepsApart ==
  ASSUME NoCauses
  PROVE  PipelineSpec => []NoDuplicateActiveAlerts
  <1>1. PipelineInit => Quiet
    BY DEF PipelineInit, Init, RequestsInit, Quiet, Pending
  <1>2. ASSUME PipelineInv, Quiet, [PipelineNext]_pipelineVars PROVE Quiet'
    <2>1. CASE \E r \in Req : RequestStep(r)
      BY <1>2, <2>1, StepQuiet DEF RequestStep, PipelineInv, DuplicateInv
    <2>2. CASE CrashStep
      BY <1>2, <2>2 DEF CrashStep, Quiet, Pending
    <2>3. CASE JobStep \/ UNCHANGED pipelineVars
      BY <1>2, <2>3 DEF JobStep, requestVars, pipelineVars, Quiet, Pending
    <2> QED BY <1>2, <2>1, <2>2, <2>3 DEF PipelineNext
  <1>3. PipelineInv /\ Quiet => NoDuplicateActiveAlerts
    BY DEF PipelineInv, DuplicateInv, DuplicateNeedsUncheckedWrite, Quiet, NoDuplicateActiveAlerts
  <1> QED BY <1>1, <1>2, <1>3, PipelineInvCorrect, PTL DEF PipelineSpec
===============================================================================
