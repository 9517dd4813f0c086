-------------------------- MODULE AlertSchedulerProofs --------------------------
(* Proofs about AlertScheduler, for any intervals, any number of immediate *)
(* checks and any number of attempts.                                      *)
EXTENDS AlertScheduler, TLAPS

LEMMA JobFacts == 0 \in 0..(MaxAttempts - 1) /\ NoJob \notin Job
  BY SchedulerAssumption DEF Job

LEMMA InitInv == ASSUME SchedulerInit PROVE SchedulerInv
  <1>1. tries \in [Job -> 0..(MaxAttempts - 1)]
    BY JobFacts DEF SchedulerInit
  <1>2. \A j \in Job : ~(tries[j] > 0) /\ j \notin stalled
    BY DEF SchedulerInit
  <1> QED
    BY <1>1, <1>2 DEF SchedulerInit, SchedulerInv, SchedulerTypeOK, ScheduleStands, ClosedBetweenPasses

(* A step that leaves the jobs and what is kept of them alone.             *)
LEMMA QuietStep ==
  ASSUME SchedulerInv, UNCHANGED <<waiting, tries, stalled, active>>,
         redis' \in BOOLEAN, paused' \in BOOLEAN, repeats' \subseteq Interval,
         proc' \in {"booting", "listening", "stopping"}, interval' \in Interval,
         instance' \in {"none", "removing", "adding", "ready", "broken"},
         worker' \in {"none", "open", "closing"},
         ScheduleStands', ClosedBetweenPasses'
  PROVE  SchedulerInv'
  BY DEF SchedulerInv, SchedulerTypeOK, Pending, Gone

(* The end of a job, whether or not it goes back to the queue.             *)
LEMMA JobEndsInv == ASSUME SchedulerInv, JobEnds PROVE SchedulerInv'
  <1> USE DEF SchedulerInv
  <1>1. ScheduleStands' /\ ClosedBetweenPasses'
    BY DEF JobEnds, JobCompletes, JobFails, ScheduleStands, ClosedBetweenPasses
  <1>2. active \in Job /\ active \notin waiting /\ tries[active] \in 0..(MaxAttempts - 1)
        /\ MaxAttempts \in Nat
    BY SchedulerAssumption DEF JobEnds, JobCompletes, JobFails, SchedulerTypeOK
  <1>3. NoJob \notin Job
    BY JobFacts
  <1>4. CASE Forget(active) /\ active' = NoJob /\ UNCHANGED waiting
    <2>1. tries' \in [Job -> 0..(MaxAttempts - 1)]
      BY <1>4, JobFacts DEF Forget, SchedulerTypeOK
    <2>2. \A j \in Job : tries'[j] > 0 \/ j \in stalled' => Pending(j)'
      BY <1>2, <1>4 DEF Forget, SchedulerTypeOK, Pending
    <2> QED
      BY <1>1, <1>3, <1>4, <2>1, <2>2
         DEF JobEnds, JobCompletes, JobFails, SchedulerTypeOK, Forget
  <1>5. CASE /\ JobFails /\ tries[active] + 1 < MaxAttempts
    <2>1. tries' \in [Job -> 0..(MaxAttempts - 1)]
      BY <1>2, <1>5 DEF JobFails, SchedulerTypeOK
    <2>2. \A j \in Job : tries'[j] > 0 \/ j \in stalled' => Pending(j)'
      BY <1>2, <1>5 DEF JobFails, SchedulerTypeOK, Pending
    <2> QED
      BY <1>1, <1>2, <1>3, <1>5, <2>1, <2>2 DEF JobFails, SchedulerTypeOK
  <1> QED
    BY <1>4, <1>5 DEF JobEnds, JobCompletes, JobFails

(* The end of the process, however it comes.                               *)
LEMMA DieInv == ASSUME SchedulerInv, NEW how \in Gone, Die(how) PROVE SchedulerInv'
  <1> USE DEF SchedulerInv
  <1>1. ScheduleStands' /\ ClosedBetweenPasses'
    BY DEF Die, ScheduleStands, ClosedBetweenPasses
  <1>2. NoJob \notin Job /\ active \in Job \cup {NoJob} /\ active \notin waiting
    BY JobFacts DEF SchedulerTypeOK
  <1>3. CASE active = NoJob
    BY <1>1, <1>2, <1>3 DEF Die, SchedulerTypeOK, Pending, Gone
  <1>4. CASE active # NoJob /\ active \in stalled
    <2>1. Forget(active) /\ UNCHANGED waiting
      BY <1>4 DEF Die
    <2>2. tries' \in [Job -> 0..(MaxAttempts - 1)]
      BY <2>1, JobFacts DEF Forget, SchedulerTypeOK
    <2>3. \A j \in Job : tries'[j] > 0 \/ j \in stalled' => Pending(j)'
      BY <1>2, <2>1 DEF Die, Forget, SchedulerTypeOK, Pending
    <2> QED
      BY <1>1, <1>2, <2>1, <2>2, <2>3 DEF Die, Forget, SchedulerTypeOK, Gone
  <1>5. CASE active # NoJob /\ active \notin stalled
    <2>1. waiting' = waiting \cup {active} /\ stalled' = stalled \cup {active} /\ UNCHANGED tries
      BY <1>5 DEF Die
    <2>2. \A j \in Job : tries'[j] > 0 \/ j \in stalled' => Pending(j)'
      BY <1>2, <2>1 DEF SchedulerTypeOK, Pending
    <2> QED
      BY <1>1, <1>2, <1>5, <2>1, <2>2 DEF Die, SchedulerTypeOK, Gone
  <1> QED
    BY <1>3, <1>4, <1>5

(* A job comes into the queue.                                             *)
LEMMA EnqueueInv == ASSUME SchedulerInv, NEW j \in Job, Enqueue(j) PROVE SchedulerInv'
  <1> USE DEF SchedulerInv
  <1>1. ScheduleStands' /\ ClosedBetweenPasses'
    BY DEF Enqueue, ScheduleStands, ClosedBetweenPasses, procVars
  <1> QED
    BY <1>1 DEF Enqueue, procVars, SchedulerTypeOK, Pending

LEMMA TakeJobInv == ASSUME SchedulerInv, NEW j \in Job, TakeJob(j) PROVE SchedulerInv'
  <1> USE DEF SchedulerInv
  <1>1. ScheduleStands' /\ ClosedBetweenPasses'
    BY DEF TakeJob, ScheduleStands, ClosedBetweenPasses
  <1>2. \A k \in Job : Pending(k)' <=> Pending(k)
    BY JobFacts DEF TakeJob, Pending
  <1> QED
    BY <1>1, <1>2 DEF TakeJob, SchedulerTypeOK

-------------------------------------------------------------------------------
(* The life of a process up to its end: the schedule is the same or added  *)
(* to once the instance is ready, and a worker closes without a job.       *)
LEMMA LifeInv ==
  ASSUME SchedulerInv,
         \/ \E i \in Interval : Start(i)
         \/ Listen \/ Initialize \/ WorkerCloses
         \/ Signal /\ instance = "ready"
  PROVE  SchedulerInv'
  <1> USE DEF SchedulerInv
  <1>1. CASE \E i \in Interval : Start(i)
    BY <1>1, QuietStep DEF Start, storeVars, SchedulerTypeOK, ScheduleStands, ClosedBetweenPasses
  <1>2. CASE Listen
    BY <1>2, QuietStep DEF Listen, storeVars, SchedulerTypeOK, ScheduleStands, ClosedBetweenPasses
  <1>3. CASE RemoveOld
    BY <1>3, QuietStep DEF RemoveOld, SchedulerTypeOK, ScheduleStands, ClosedBetweenPasses
  <1>4. CASE AddRecurring
    BY <1>4, QuietStep DEF AddRecurring, SchedulerTypeOK, ScheduleStands, ClosedBetweenPasses
  <1>5. CASE InitializeFails
    BY <1>5, QuietStep DEF InitializeFails, storeVars, SchedulerTypeOK, ScheduleStands, ClosedBetweenPasses
  <1>6. CASE WorkerCloses
    BY <1>6, QuietStep DEF WorkerCloses, storeVars, SchedulerTypeOK, ScheduleStands, ClosedBetweenPasses
  <1>7. CASE Signal /\ instance = "ready"
    BY <1>7, QuietStep DEF Signal, storeVars, SchedulerTypeOK, ScheduleStands, ClosedBetweenPasses
  <1> QED
    BY <1>1, <1>2, <1>3, <1>4, <1>5, <1>6, <1>7 DEF Initialize

(* What Redis and the operator do beside it.                               *)
LEMMA RedisInv ==
  ASSUME SchedulerInv, Pause \/ Resume \/ RedisToggles PROVE SchedulerInv'
  <1> USE DEF SchedulerInv
  <1>1. ScheduleStands' /\ ClosedBetweenPasses'
    BY DEF Pause, Resume, RedisToggles, storeVars, procVars, ScheduleStands, ClosedBetweenPasses
  <1>2. redis' \in BOOLEAN /\ paused' \in BOOLEAN
    BY DEF Pause, Resume, RedisToggles, storeVars, procVars, SchedulerTypeOK
  <1>3. UNCHANGED <<repeats, waiting, tries, stalled, proc, interval, instance, worker, active>>
    BY DEF Pause, Resume, RedisToggles, storeVars, procVars
  <1> QED
    BY <1>1, <1>2, <1>3 DEF SchedulerTypeOK, Pending

LEMMA StepInv == ASSUME SchedulerInv, [SchedulerNext]_schedulerVars PROVE SchedulerInv'
  <1>1. ASSUME NEW i \in Interval, Due(i) PROVE SchedulerInv'
    BY <1>1, EnqueueInv DEF Due, Job
  <1>2. ASSUME NEW j \in Job, TakeJob(j) PROVE SchedulerInv'
    BY <1>2, TakeJobInv
  <1>3. CASE Command
    BY <1>3, EnqueueInv, RedisInv DEF Command, TriggerImmediate, Job
  <1>4. CASE Signal \/ Stop \/ ShutdownFails \/ Crash
    BY <1>4, DieInv, LifeInv DEF Signal, Stop, Exit, ShutdownFails, Crash, Gone
  <1>5. CASE UNCHANGED schedulerVars
    BY <1>5 DEF schedulerVars, storeVars, procVars, SchedulerInv, SchedulerTypeOK, Pending,
         ScheduleStands, ClosedBetweenPasses
  <1> QED
    BY <1>1, <1>2, <1>3, <1>4, <1>5, LifeInv, JobEndsInv, RedisInv DEF SchedulerNext

(* The inductive invariant, of the specification with its fairness.        *)
THEOREM SchedulerInvCorrect == SchedulerSpec => []SchedulerInv
  <1>1. SchedulerInit => SchedulerInv
    BY InitInv
  <1>2. SchedulerInv /\ [SchedulerNext]_schedulerVars => SchedulerInv'
    BY StepInv
  <1>3. SchedulerSpec => SchedulerInit /\ [][SchedulerNext]_schedulerVars
    BY DEF SchedulerSpec
  <1> QED
    BY <1>1, <1>2, <1>3, PTL

(* Whatever the queue holds and however often processes die, no job is     *)
(* both waiting and run, none is tried more often than configured, and     *)
(* the queue keeps nothing of a job that has left it.                      *)
THEOREM SchedulerTypeCorrect == SchedulerSpec => []SchedulerTypeOK
  <1>1. SchedulerInv => SchedulerTypeOK
    BY DEF SchedulerInv
  <1> QED
    BY <1>1, SchedulerInvCorrect, PTL

(* initialize (AlertSchedulerService.ts:99-116): a ready service has its   *)
(* schedule on record, whatever intervals earlier processes had and        *)
(* wherever they died.                                                     *)
THEOREM ScheduleAlwaysStands == SchedulerSpec => []ScheduleStands
  <1>1. SchedulerInv => ScheduleStands
    BY DEF SchedulerInv
  <1> QED
    BY <1>1, SchedulerInvCorrect, PTL

(* shutdown (AlertSchedulerService.ts:288-306): the exit of a signal's     *)
(* handler cuts a running pass short only if the service was not yet ready *)
(* or closing it failed, however pass, worker, Redis and signal interleave.*)
THEOREM ExitsAreGraceful == SchedulerSpec => GracefulExits
  <1>1. ASSUME SchedulerInv, SchedulerNext, active # NoJob, proc' = "exited"
        PROVE  instance # "ready" \/ (proc = "stopping" /\ ~redis)
    <2>1. proc \notin Gone
      BY <1>1 DEF SchedulerInv, SchedulerTypeOK
    <2>2. proc' # proc
      BY <1>1, <2>1 DEF Gone
    <2>3. Signal \/ Exit \/ ShutdownFails
      BY <1>1, <2>1, <2>2
         DEF SchedulerNext, Start, Due, Enqueue, procVars, Listen, Initialize, RemoveOld,
             AddRecurring, InitializeFails, TakeJob, JobEnds, JobCompletes, JobFails, Command,
             TriggerImmediate, Pause, Resume, Stop, WorkerCloses, Crash, Die, RedisToggles
    <2>4. CASE Signal
      BY <1>1, <2>4 DEF Signal
    <2>5. ~Exit
      BY <1>1 DEF Exit, SchedulerInv, ClosedBetweenPasses
    <2> QED
      BY <2>3, <2>4, <2>5 DEF ShutdownFails
  <1>2. SchedulerInv /\ [SchedulerNext]_schedulerVars =>
          [active # NoJob /\ proc' = "exited" =>
             instance # "ready" \/ (proc = "stopping" /\ ~redis)]_schedulerVars
    BY <1>1
  <1>3. SchedulerSpec => [][SchedulerNext]_schedulerVars
    BY DEF SchedulerSpec
  <1> QED
    BY <1>2, <1>3, SchedulerInvCorrect, PTL DEF GracefulExits
===============================================================================
