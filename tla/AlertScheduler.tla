----------------------------- MODULE AlertScheduler -----------------------------
(***************************************************************************)
(* The life of a server process around its price-check queue: server.ts    *)
(* and app.ts start it, services/alertScheduler keeps the singleton that   *)
(* owns queue and worker, the internal routes command it, a signal stops   *)
(* it.  Queue, repeatable jobs and the pause flag live in Redis and        *)
(* outlive the process.  What a job does is PriceAlertChecker.             *)
(*                                                                         *)
(* BullMQ is modelled as the code relies on it: a repeatable job yields    *)
(* one job per slot, a worker of concurrency 1 runs waiting jobs while the *)
(* queue is not paused, a failed run is retried, a run whose process died  *)
(* is given back once.  A command issued while Redis is down waits for it. *)
(***************************************************************************)
EXTENDS Naturals, FiniteSets

CONSTANTS
  Interval,      \* values of PRICE_CHECK_INTERVAL, each a repeatable job
  Immediate,     \* bound: immediate checks pending at a time
  NoJob,
  MaxAttempts    \* config.jobs.maxRetries, the attempts of a job

ASSUME SchedulerAssumption ==
  /\ Interval \cap Immediate = {}
  /\ NoJob \notin Interval \cup Immediate
  /\ MaxAttempts \in Nat \ {0}

Job == Interval \cup Immediate

VARIABLES
  redis,      \* Redis answers
  repeats,    \* repeatable jobs on record in Redis
  paused,     \* the queue is paused in Redis
  waiting,    \* jobs waiting or delayed for a retry
  tries,      \* [Job -> failed runs of the pending job]
  stalled,    \* pending jobs given back once after their process died
  proc,       \* the server process, or how the last one went
  interval,   \* config.jobs.priceCheckInterval of this process
  instance,   \* alertSchedulerInstance and how far initialize has come
  worker,     \* priceCheckWorker
  active      \* the job the worker runs

storeVars == <<repeats, paused, waiting, tries, stalled>>
procVars == <<proc, interval, instance, worker, active>>
schedulerVars == <<redis, storeVars, procVars>>

(* Killed, or by the exit(0) of a signal's handler.                        *)
Gone == {"killed", "exited"}

Pending(j) == j \in waiting \/ active = j

(* What the queue keeps of job j ends with it.                             *)
Forget(j) == tries' = [tries EXCEPT ![j] = 0] /\ stalled' = stalled \ {j}

-------------------------------------------------------------------------------
SchedulerInit ==
  /\ redis \in BOOLEAN
  /\ repeats = {} /\ paused = FALSE /\ waiting = {}
  /\ tries = [j \in Job |-> 0] /\ stalled = {}
  /\ proc \in Gone /\ interval \in Interval
  /\ instance = "none" /\ worker = "none" /\ active = NoJob

(* Importing app.ts starts initializeBullBoard, which is the first to ask  *)
(* for the scheduler: the instance is stored, connection, queue and worker *)
(* are made, and initialize awaits removeRepeatable.                       *)
Start(i) ==
  /\ proc \in Gone
  /\ proc' = "booting" /\ interval' = i
  /\ instance' = "removing" /\ worker' = "open"
  /\ UNCHANGED <<redis, storeVars, active>>

(* Firebase is there; getAlertSchedulerService finds the stored instance,  *)
(* whatever has become of it, and the server listens.                      *)
Listen ==
  /\ proc = "booting"
  /\ proc' = "listening"
  /\ UNCHANGED <<redis, storeVars, interval, instance, worker, active>>

(* removeRepeatable of this interval.  Whether its key, which lacks the    *)
(* jobId that add gives, finds the record is BullMQ's affair.              *)
RemoveOld ==
  /\ instance = "removing" /\ redis
  /\ repeats' \in {repeats, repeats \ {interval}}
  /\ instance' = "adding"
  /\ UNCHANGED <<redis, paused, waiting, tries, stalled, proc, interval, worker, active>>

(* Mutant: the recurring job is not added. *)
AddRecurringForgotten ==
  /\ instance = "adding" /\ redis
  /\ instance' = "ready"
  /\ UNCHANGED <<redis, storeVars, proc, interval, worker, active>>

AddRecurring ==
  /\ instance = "adding" /\ redis
  /\ repeats' = repeats \cup {interval}
  /\ instance' = "ready"
  /\ UNCHANGED <<redis, paused, waiting, tries, stalled, proc, interval, worker, active>>

(* Mutant: the error is swallowed inside initialize. *)
InitializeFailsSilently ==
  /\ instance \in {"removing", "adding"} /\ redis
  /\ instance' = "ready"
  /\ UNCHANGED <<redis, storeVars, proc, interval, worker, active>>

(* Redis answers one of the two with an error: initialize throws to Bull   *)
(* Board, which logs it; instance and worker stay as they are.             *)
InitializeFails ==
  /\ instance \in {"removing", "adding"} /\ redis
  /\ instance' = "broken"
  /\ UNCHANGED <<redis, storeVars, proc, interval, worker, active>>

(* The process is gone; the job it ran is given back by BullMQ, once.      *)
Die(how) ==
  /\ proc' = how /\ instance' = "none" /\ worker' = "none" /\ active' = NoJob
  /\ CASE active = NoJob -> UNCHANGED <<waiting, tries, stalled>>
       [] active \in stalled -> Forget(active) /\ UNCHANGED waiting
       [] OTHER -> /\ waiting' = waiting \cup {active} /\ stalled' = stalled \cup {active}
                   /\ UNCHANGED tries
  /\ UNCHANGED <<redis, repeats, paused, interval>>

(* Killed, crashed, or process.exit(1) because Firebase is not configured. *)
Crash == proc \notin Gone /\ Die("killed")

(* Mutant: the handler of a signal does not await the shutdown.            *)
SignalExitsAtOnce ==
  /\ proc \in {"booting", "listening"}
  /\ Die("exited")

(* SIGINT or SIGTERM: shutdown returns at once unless isInitialized, and   *)
(* the process exits; else it begins with the worker.                      *)
Signal ==
  /\ proc \in {"booting", "listening"}
  /\ IF instance = "ready"
     THEN /\ proc' = "stopping" /\ worker' = "closing"
          /\ UNCHANGED <<redis, storeVars, interval, instance, active>>
     ELSE Die("exited")

(* Mutant: the worker closes once the queue is empty. *)
WorkerClosesDrained ==
  /\ worker = "closing" /\ active = NoJob /\ waiting = {}
  /\ worker' = "none"
  /\ UNCHANGED <<redis, storeVars, proc, interval, instance, active>>

(* worker.close() waits for the job it runs.                               *)
WorkerCloses ==
  /\ worker = "closing" /\ active = NoJob
  /\ worker' = "none"
  /\ UNCHANGED <<redis, storeVars, proc, interval, instance, active>>

(* Queue, events and connection are closed and the process exits.          *)
Exit == proc = "stopping" /\ worker = "none" /\ redis /\ Die("exited")

(* A close that throws, for want of Redis, ends the process as well.       *)
ShutdownFails == proc = "stopping" /\ ~redis /\ Die("exited")

-------------------------------------------------------------------------------
(* The internal routes reach the queue when isInitialized.                 *)
Commandable == proc \in {"listening", "stopping"} /\ instance = "ready" /\ worker # "none" /\ redis

Enqueue(j) ==
  /\ ~Pending(j)
  /\ waiting' = waiting \cup {j}
  /\ UNCHANGED <<redis, repeats, paused, tries, stalled, procVars>>

TriggerImmediate(j) == Commandable /\ j \in Immediate /\ Enqueue(j)

Pause == /\ Commandable /\ paused' = TRUE
         /\ UNCHANGED <<redis, repeats, waiting, tries, stalled, procVars>>

Resume == /\ Commandable /\ paused' = FALSE
          /\ UNCHANGED <<redis, repeats, waiting, tries, stalled, procVars>>

(* The next slot of a repeatable job.  Bound: one job of it at a time.     *)
Due(i) == worker = "open" /\ redis /\ i \in repeats /\ Enqueue(i)

TakeJob(j) ==
  /\ worker = "open" /\ redis /\ ~paused /\ active = NoJob
  /\ j \in waiting
  /\ waiting' = waiting \ {j} /\ active' = j
  /\ UNCHANGED <<redis, repeats, paused, tries, stalled, proc, interval, instance, worker>>

JobCompletes ==
  /\ active # NoJob /\ redis
  /\ active' = NoJob /\ Forget(active)
  /\ UNCHANGED <<redis, repeats, paused, waiting, proc, interval, instance, worker>>

(* Mutants: attempts are not counted; one more than configured is made. *)
JobFailsForEver ==
  /\ active # NoJob /\ redis
  /\ active' = NoJob
  /\ waiting' = waiting \cup {active}
  /\ UNCHANGED <<redis, repeats, paused, tries, stalled, proc, interval, instance, worker>>

JobFailsOneMore ==
  /\ active # NoJob /\ redis
  /\ active' = NoJob
  /\ IF tries[active] < MaxAttempts
     THEN /\ waiting' = waiting \cup {active}
          /\ tries' = [tries EXCEPT ![active] = @ + 1] /\ UNCHANGED stalled
     ELSE Forget(active) /\ UNCHANGED waiting
  /\ UNCHANGED <<redis, repeats, paused, proc, interval, instance, worker>>

(* processPriceCheckJob throws: retried after a delay, up to its attempts. *)
JobFails ==
  /\ active # NoJob /\ redis
  /\ active' = NoJob
  /\ IF tries[active] + 1 < MaxAttempts
     THEN /\ waiting' = waiting \cup {active}
          /\ tries' = [tries EXCEPT ![active] = @ + 1] /\ UNCHANGED stalled
     ELSE Forget(active) /\ UNCHANGED waiting
  /\ UNCHANGED <<redis, repeats, paused, proc, interval, instance, worker>>

RedisToggles == redis' = ~redis /\ UNCHANGED <<storeVars, procVars>>

-------------------------------------------------------------------------------
Initialize == RemoveOld \/ AddRecurring \/ InitializeFails

JobEnds == JobCompletes \/ JobFails

Stop == WorkerCloses \/ Exit

Command == Pause \/ Resume \/ \E j \in Immediate : TriggerImmediate(j)

SchedulerNext ==
  \/ \E i \in Interval : Start(i) \/ Due(i)
  \/ Listen \/ Initialize
  \/ \E j \in Job : TakeJob(j)
  \/ JobEnds
  \/ Command \/ Signal \/ Stop \/ ShutdownFails
  \/ Crash \/ RedisToggles

(* A process carries on what it began; slots come round for ever; a job    *)
(* ends, as every call of a pass does.  A waiting job is taken if the      *)
(* worker is free for it again and again: passes last seconds and slots    *)
(* are half an hour apart.                                                 *)
SchedulerFairness ==
  /\ WF_schedulerVars(Listen) /\ WF_schedulerVars(Initialize)
  /\ WF_schedulerVars(JobEnds) /\ WF_schedulerVars(Stop)
  /\ \A i \in Interval : WF_schedulerVars(Due(i))
  /\ \A j \in Job : SF_schedulerVars(TakeJob(j))

SchedulerSpec == SchedulerInit /\ [][SchedulerNext]_schedulerVars /\ SchedulerFairness

-------------------------------------------------------------------------------
SchedulerTypeOK ==
  /\ redis \in BOOLEAN /\ paused \in BOOLEAN
  /\ repeats \subseteq Interval /\ waiting \subseteq Job /\ stalled \subseteq Job
  /\ tries \in [Job -> 0..(MaxAttempts - 1)]
  /\ proc \in Gone \cup {"booting", "listening", "stopping"}
  /\ interval \in Interval
  /\ instance \in {"none", "removing", "adding", "ready", "broken"}
  /\ worker \in {"none", "open", "closing"}
  /\ active \in Job \cup {NoJob}
  /\ active \notin waiting
  /\ \A j \in Job : tries[j] > 0 \/ j \in stalled => Pending(j)
  /\ proc \in Gone => instance = "none" /\ worker = "none" /\ active = NoJob

(* The schedule a ready service was configured with is on record, whatever *)
(* earlier processes left behind or lost half-way.                         *)
ScheduleStands == instance = "ready" => interval \in repeats

(* Queue and connection are closed under no running pass.                  *)
ClosedBetweenPasses == proc = "stopping" /\ worker = "none" => active = NoJob

(* Each of these is as much of the past as the next step needs.            *)
SchedulerInv == SchedulerTypeOK /\ ScheduleStands /\ ClosedBetweenPasses

(* "Graceful shutdown" (server.ts:29): a signal's exit(0) cuts a running   *)
(* pass short only if the service had not come to be initialized, so that  *)
(* shutdown returned at once, or if closing it threw for want of Redis.    *)
GracefulExits ==
  [][active # NoJob /\ proc' = "exited" =>
       instance # "ready" \/ (proc = "stopping" /\ ~redis)]_schedulerVars

(* And it ends: a process told to stop goes down by itself once Redis      *)
(* answers, with a pass running, the queue paused or jobs left in it.      *)
ShutdownEnds == <>[]redis => (proc = "stopping" ~> proc \in Gone)

(* While a ready service is left running, recurring passes go on starting, *)
(* no matter how many crashed, failed or were triggered before.            *)
ChecksKeepComing ==
  <>[](proc = "listening" /\ instance = "ready" /\ redis /\ ~paused)
    => []<>(active \in Interval)

(* A pending check is run to its end, in the process that accepted it or   *)
(* in a later one, ready or not: nothing stays in the queue for ever.      *)
PendingChecksEnd ==
  <>[](proc = "listening" /\ redis /\ ~paused)
    => \A j \in Job : Pending(j) ~> ~Pending(j)

(* server.ts:16 "Alert scheduler service initialized" and exit(1) of the   *)
(* catch below it: a server that listens runs its checks.                  *)
ListeningServerChecks ==
  <>[](proc = "listening" /\ redis /\ ~paused) => []<>(active \in Interval)
===============================================================================
