----------------------------- MODULE AlertPipeline -----------------------------
(***************************************************************************)
(* The alert subsystem as one process runs it: the requests of TokenAlerts *)
(* and the job of PriceAlertChecker on one event loop and one table, with  *)
(* a crash that loses both and a database that keeps the rows.             *)
(***************************************************************************)
EXTENDS TokenAlerts, PriceAlertChecker

pipelineVars == <<alerts, req, unchecked, holders, jobVars>>

(* A uuid is new to the pass as well. *)
NewToPass(a) == /\ \A s \in todo : s.id # a
                /\ cur # NoAlert => cur.id # a

(* A step of a request; the history variables of the job follow it.        *)
RequestStep(r) ==
  /\ Step(r)
  /\ \A a \in AlertId : ~Exists(a) /\ alerts'[a] # NoAlert => NewToPass(a)
  /\ push' = [a \in AlertId |->
                IF Arms(a) \/ alerts'[a] = NoAlert THEN "none" ELSE push[a]]
  /\ touched' = IF pc = "idle" THEN {}
                ELSE touched \cup {a \in AlertId : alerts'[a] # alerts[a]}
  /\ UNCHANGED <<device, market, pc, todo, cur, quoted, faults>>

JobStep == (PassStep \/ WorldStep) /\ UNCHANGED requestVars

(* Requests in flight get no answer; what they wrote stays written.        *)
CrashStep == /\ Crash
             /\ req' = [r \in Req |-> NoRequest]
             /\ UNCHANGED <<unchecked, holders>>

PipelineInit == Init /\ JobInit

PipelineNext == (\E r \in Req : RequestStep(r)) \/ JobStep \/ CrashStep

(* As in PriceAlertChecker; nothing is assumed of the requests.            *)
PipelineFairness ==
  /\ WF_pipelineVars(PassStep /\ UNCHANGED requestVars)
  /\ SF_pipelineVars(FetchSucceeds /\ UNCHANGED requestVars)

PipelineSpec == PipelineInit /\ [][PipelineNext]_pipelineVars /\ PipelineFairness

-------------------------------------------------------------------------------
PipelineTypeOK == TypeOK /\ JobTypeOK

(* While the user leaves the row alone, what the pass does to an alert is  *)
(* what the row says: it is deactivated only if it was active, its own     *)
(* condition was met at the quoted price, and its push went out before.    *)
UntouchedFiresRightly ==
  [][\A a \in AlertId : Fires(a) /\ a \notin touched =>
       /\ IsActive(a)
       /\ Crossed(alerts[a].cond, quoted[alerts[a].cond.symbol])
       /\ push[a] # "none" \/ cur.token = NoToken]_pipelineVars

(* An armed alert is pushed once, however passes, failures and requests    *)
(* interleave; only a crash or failed write between push and write repeats *)
(* it, and only for the alert being processed.                             *)
NoRepeatedPush ==
  [][\A a \in AlertId : pc = "send" /\ pc' = "write" /\ cur.id = a =>
       push[a] = "none"]_pipelineVars

(* Why these hold.  A pass holds one snapshot of a row, and what it        *)
(* remembers is true of every row the user has left alone since; no        *)
(* snapshot still to be processed has been pushed, nor any active alert    *)
(* but the one between its push and its write.                             *)
Held == todo \cup ({cur} \ {NoAlert})

OneSnapshotEach == /\ \A s, t \in Held : s.id = t.id => s = t
                   /\ cur \notin todo
                   /\ pc = "idle" => todo = {}

SnapshotsTrue ==
  \A s \in Held : s.id \notin touched =>
    IsActive(s.id) /\ alerts[s.id].cond = s.cond

CurrentMet ==
  cur # NoAlert => /\ quoted[cur.cond.symbol] # Unlisted
                   /\ Crossed(cur.cond, quoted[cur.cond.symbol])

PushesOpen ==
  /\ \A s \in todo : push[s.id] = "none"
  /\ pc = "send" => push[cur.id] = "none"
  /\ \A a \in AlertId : IsActive(a) /\ push[a] # "none" => pc = "write" /\ cur.id = a
  /\ pc = "write" /\ cur.id \notin touched => push[cur.id] # "none" \/ cur.token = NoToken

PipelineInv == /\ DuplicateInv
               /\ JobTypeOK
               /\ OneSnapshotEach
               /\ SnapshotsTrue
               /\ CurrentMet
               /\ PushesOpen

(* The job's write by id neither arms an alert, nor brings a deleted one   *)
(* back, nor undoes an edit or a change of owner made since the snapshot.  *)
JobKeepsEdits ==
  [][req' = req => \A a \in AlertId :
       /\ ~Arms(a) /\ ~Recondition(a) /\ ~HandsOver(a)
       /\ ~Exists(a) => alerts'[a] = NoAlert]_pipelineVars
===============================================================================
