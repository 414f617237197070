---------------------------- MODULE MonitorProofs ---------------------------
(***************************************************************************)
(* Theorems about Monitoring, for any number of policies, channels and     *)
(* goroutines: its types, that a probe task is run once, that the alerts   *)
(* open within an hour for one key come from different goroutines, and     *)
(* that a channel hears of an alert once.                                  *)
(***************************************************************************)
EXTENDS Monitoring, TLAPS

USE PoliciesAssumption, RulesAssumption, MonitoringBoundsAssumption

(* The values that handlers put into their goroutine and the queue.         *)
LEMMA IdleType == Idle \in WorkerStates /\ WorkerNamesRows(Idle)
BY DEF Idle, Handler, NoJob, Job, WorkerStates, WorkerNamesRows, JobNamesRows, Jobs,
       Kinds, Pcs

(* A retried job names what it named.                                       *)
LEMMA AgainType ==
    ASSUME NEW j \in Jobs, j.kind # "none", JobNamesRows(j)
    PROVE  \A k \in Again(j) : /\ k \in Jobs /\ k.kind # "none" /\ JobNamesRows(k)
                               /\ k.task = j.task
BY DEF Again, Jobs, Kinds, JobNamesRows

(* A tier has a severity.                                                   *)
LEMMA CheckType ==
    ASSUME NEW tier \in 1..3 PROVE SeverityOf(tier) \in Severities
BY DEF SeverityOf, Severities

(* The key of a task is a tier.                                             *)
LEMMA KeyType == ASSUME TypeOK, NEW t \in TaskIds PROVE KeyOf(t) \in 1..3
BY DEF TypeOK, KeyOf, TaskRows

(* Rules name channels.                                                     *)
LEMMA ChannelsType ==
    ASSUME NEW severity \in Severities
    PROVE  MatchingChannels(Rules, severity, "probe") \subseteq Channels
BY DEF MatchingChannels, ListMatchingRules

(* A stored alert extends the table; the rest of the rows stay.             *)
LEMMA AppendAlert ==
    ASSUME TypeOK, NEW key \in 1..3, NEW w \in Workers
    PROVE  LET a == Append(alerts, NewAlert(key, w)) IN
           /\ a \in Seq(AlertRows)
           /\ Len(a) = Len(alerts) + 1
           /\ Len(alerts) \in Nat
           /\ \A i \in 1..Len(alerts) : a[i] = alerts[i]
           /\ a[Len(alerts) + 1] = NewAlert(key, w)
<1>1. NewAlert(key, w) \in AlertRows
    BY DEF NewAlert, AlertRows
<1>2. alerts \in Seq(AlertRows)
    BY DEF TypeOK
<1> QED BY <1>1, <1>2

(* Rows are rewritten in place.                                             *)
LEMMA RewriteAlert ==
    ASSUME TypeOK, NEW i \in 1..Len(alerts), NEW row \in AlertRows
    PROVE  /\ [alerts EXCEPT ![i] = row] \in Seq(AlertRows)
           /\ Len([alerts EXCEPT ![i] = row]) = Len(alerts)
           /\ \A k \in 1..Len(alerts) :
                  [alerts EXCEPT ![i] = row][k] = IF k = i THEN row ELSE alerts[k]
<1>1. alerts \in Seq(AlertRows)
    BY DEF TypeOK
<1> QED BY <1>1

(* A job that may be in the queue.                                          *)
GoodJob(j) == j \in Jobs /\ j.kind # "none" /\ JobNamesRows(j)

(* A step that types the fresh values it writes preserves the types: rows   *)
(* of alert_events stay where they are, so the old names are still good.    *)
LEMMA TypeStep ==
    ASSUME TypeOK,
           site' \in Answers, enabled' \subseteq Policies, on' \subseteq Channels,
           tasks' \in [TaskIds -> TaskRows],
           alerts' \in Seq(AlertRows), Len(alerts) <= Len(alerts'),
           \A j \in jobs' : j \in jobs \/ GoodJob(j)',
           worker' \in [Workers -> WorkerStates],
           \A w \in Workers : worker'[w] = worker[w] \/ WorkerNamesRows(worker[w])',
           changes' \in Nat, faults' \in Nat
    PROVE  TypeOK'
<1>1. Len(alerts) \in Nat /\ Len(alerts') \in Nat
    BY DEF TypeOK
<1>2. ASSUME NEW j \in Jobs, JobNamesRows(j) PROVE JobNamesRows(j)'
    BY <1>1, <1>2 DEF JobNamesRows
<1>3. \A j \in jobs' : GoodJob(j)'
    BY <1>2 DEF TypeOK, GoodJob
<1>4. ASSUME NEW w \in Workers PROVE WorkerNamesRows(worker[w])'
    <2>1. CASE worker'[w] = worker[w]
        <3>1. worker[w].job \in Jobs /\ WorkerNamesRows(worker[w])
            BY DEF TypeOK, WorkerStates
        <3>2. JobNamesRows(worker[w].job)'
            BY <1>2, <2>1, <3>1 DEF WorkerNamesRows
        <3> QED BY <1>1, <2>1, <3>1, <3>2 DEF WorkerNamesRows
    <2> QED BY <2>1
<1> QED BY <1>3, <1>4 DEF TypeOK, GoodJob

(* The jobs of the queue and of a busy goroutine are good.                  *)
LEMMA OldJobs ==
    ASSUME TypeOK
    PROVE  /\ \A j \in jobs : GoodJob(j)
           /\ \A w \in Workers : worker[w] \in WorkerStates /\ worker[w].job \in Jobs
           /\ \A w \in Workers : ~At(w, "idle") => GoodJob(worker[w].job)
<1>1. \A w \in Workers : worker[w] \in WorkerStates /\ worker[w].job \in Jobs
    BY DEF TypeOK, WorkerStates
<1>2. \A w \in Workers : ~At(w, "idle") => GoodJob(worker[w].job)
    BY <1>1 DEF TypeOK, GoodJob, WorkerNamesRows, At
<1> QED BY <1>1, <1>2 DEF TypeOK, GoodJob

(* What asynq puts back is as good as what it took.                         *)
LEMMA AgainGood ==
    ASSUME NEW j, GoodJob(j), UNCHANGED alerts
    PROVE  \A k \in Again(j) : GoodJob(k)'
<1>1. \A k \in Again(j) : k \in Jobs /\ k.kind # "none" /\ JobNamesRows(k)
    BY AgainType DEF GoodJob
<1> QED BY <1>1 DEF GoodJob, JobNamesRows

(* A goroutine gets a new state.                                            *)
LEMMA SetWorker ==
    ASSUME TypeOK, NEW w \in Workers, NEW v \in WorkerStates,
           worker' = [worker EXCEPT ![w] = v], WorkerNamesRows(v)'
    PROVE  /\ worker' \in [Workers -> WorkerStates]
           /\ \A u \in Workers : worker'[u] = worker[u] \/ WorkerNamesRows(worker[u])'
<1>1. worker' \in [Workers -> WorkerStates]
    BY DEF TypeOK
<1>2. worker'[w] = v /\ \A u \in Workers : u # w => worker'[u] = worker[u]
    BY DEF TypeOK
<1>3. WorkerNamesRows(worker[w])'
    BY <1>2 DEF WorkerNamesRows, JobNamesRows
<1> QED BY <1>1, <1>2, <1>3

(* Handlers that take a job, return nil or return an error.                 *)
LEMMA TakeType ==
    ASSUME TypeOK, NEW w \in Workers, NEW j \in jobs, NEW pc \in Pcs, NEW todo,
           Take(w, j, pc, todo), UNCHANGED alerts,
           \/ pc = "schedule" /\ todo \subseteq Policies /\ j.kind = "schedule"
           \/ pc = "check" /\ todo = {} /\ j.kind = "probe"
           \/ pc = "insert" /\ todo = {} /\ j.kind = "fire"
           \/ pc = "send" /\ todo = {} /\ j.kind = "notify"
    PROVE  /\ worker' \in [Workers -> WorkerStates]
           /\ \A u \in Workers : worker'[u] = worker[u] \/ WorkerNamesRows(worker[u])'
<1> DEFINE v == Handler(pc, j, todo)
<1>2. GoodJob(j)
    BY OldJobs
<1>3. v \in WorkerStates
    BY <1>2 DEF WorkerStates, GoodJob, Handler
<1>4. WorkerNamesRows(v)'
    BY <1>2 DEF WorkerNamesRows, JobNamesRows, GoodJob, Handler
<1>5. worker' = [worker EXCEPT ![w] = v]
    BY DEF Take
<1> HIDE DEF v
<1> QED BY <1>3, <1>4, <1>5, SetWorker

(* The handler has returned nil.                                            *)
LEMMA DoneType ==
    ASSUME TypeOK, NEW w \in Workers, Done(w)
    PROVE  /\ worker' \in [Workers -> WorkerStates]
           /\ \A u \in Workers : worker'[u] = worker[u] \/ WorkerNamesRows(worker[u])'
<1>1. Idle \in WorkerStates
    BY IdleType
<1>2. WorkerNamesRows(Idle)'
    BY DEF WorkerNamesRows, JobNamesRows, Idle, Handler, NoJob, Job
<1> QED BY <1>1, <1>2, SetWorker DEF Done

(* The handler has returned an error, or is lost.                           *)
LEMMA ErrorType ==
    ASSUME TypeOK, NEW w \in Workers, ~At(w, "idle"), ReturnError(w),
           UNCHANGED alerts
    PROVE  /\ worker' \in [Workers -> WorkerStates]
           /\ \A u \in Workers : worker'[u] = worker[u] \/ WorkerNamesRows(worker[u])'
           /\ \A j \in jobs' : j \in jobs \/ GoodJob(j)'
<1>1. Done(w) /\ jobs' = jobs \cup Again(worker[w].job)
    BY DEF ReturnError
<1>2. GoodJob(worker[w].job)
    BY OldJobs
<1> QED BY <1>1, <1>2, AgainGood, DoneType

(* The types of the variables the worker does not write.                    *)
LEMMA WorldType ==
    ASSUME TypeOK, UNCHANGED world, NoFault \/ Fault
    PROVE  /\ site' \in Answers /\ enabled' \subseteq Policies
           /\ on' \subseteq Channels /\ changes' \in Nat /\ faults' \in Nat
BY DEF TypeOK, world, NoFault, Fault

(* One lemma for each action that writes: its step preserves the types.     *)
LEMMA ScheduleTickType == TypeOK /\ ScheduleTick => TypeOK'
<1> SUFFICES ASSUME TypeOK, ScheduleTick PROVE TypeOK'
    OBVIOUS
<1>1. \A j \in jobs' : j \in jobs \/ GoodJob(j)'
    BY DEF ScheduleTick, Enqueue, GoodJob, Job, Jobs, Kinds, JobNamesRows
<1>2. UNCHANGED <<world, tasks, alerts, worker, faults>>
    BY DEF ScheduleTick
<1>3. worker' \in [Workers -> WorkerStates] /\ tasks' \in [TaskIds -> TaskRows]
      /\ alerts' \in Seq(AlertRows) /\ Len(alerts) <= Len(alerts')
    BY <1>2 DEF TypeOK
<1> QED BY <1>1, <1>2, <1>3, WorldType, TypeStep DEF NoFault

(* ScheduleAll.                                                             *)
LEMMA ScheduleAllType ==
    ASSUME TypeOK, NEW w \in Workers, NEW j \in jobs, ScheduleAll(w, j)
    PROVE  TypeOK'
<1>1. UNCHANGED <<world, tasks, alerts>> /\ (NoFault \/ Fault)
    BY DEF ScheduleAll
<1>2. tasks' \in [TaskIds -> TaskRows]
      /\ alerts' \in Seq(AlertRows) /\ Len(alerts) <= Len(alerts')
    BY <1>1 DEF TypeOK
<1>3. /\ worker' \in [Workers -> WorkerStates]
      /\ \A u \in Workers : worker'[u] = worker[u] \/ WorkerNamesRows(worker[u])'
    <2>1. CASE Take(w, j, "schedule", enabled)
        BY <1>1, <2>1, TakeType DEF TypeOK, Pcs, ScheduleAll
    <2>2. CASE UNCHANGED worker
        BY <2>2 DEF TypeOK
    <2> QED BY <2>1, <2>2 DEF ScheduleAll
<1>4. \A k \in jobs' : k \in jobs \/ GoodJob(k)'
    BY <1>1, OldJobs, AgainGood DEF ScheduleAll
<1> QED BY <1>1, <1>2, <1>3, <1>4, WorldType, TypeStep

(* A round of its loop.                                                     *)
LEMMA CreateAndEnqueueType ==
    ASSUME TypeOK, NEW w \in Workers, CreateAndEnqueue(w)
    PROVE  TypeOK'
<1>1. UNCHANGED <<world, alerts>> /\ (NoFault \/ Fault)
    BY DEF CreateAndEnqueue
<1>2. alerts' \in Seq(AlertRows) /\ Len(alerts) <= Len(alerts')
    BY <1>1 DEF TypeOK
<1>3. PICK p \in worker[w].todo, t \in Free :
          /\ Done(w) \/ worker' = [worker EXCEPT ![w].todo = @ \ {p}]
          /\ tasks' = [tasks EXCEPT ![t] = NewTask(p)]
          /\ Enqueue(Job("probe", t, 0, "none")) \/ UNCHANGED jobs
    BY DEF CreateAndEnqueue
<1>4. p \in Policies /\ t \in TaskIds
    BY DEF TypeOK, WorkerNamesRows, CreateAndEnqueue, At, Free
<1>5. tasks' \in [TaskIds -> TaskRows]
    BY <1>3, <1>4 DEF TypeOK, NewTask, TaskRows
<1>6. \A k \in jobs' : k \in jobs \/ GoodJob(k)'
    BY <1>3, <1>4 DEF Enqueue, GoodJob, Job, Jobs, Kinds, JobNamesRows
<1>7. /\ worker' \in [Workers -> WorkerStates]
      /\ \A u \in Workers : worker'[u] = worker[u] \/ WorkerNamesRows(worker[u])'
    <2>1. CASE Done(w)
        BY <2>1, DoneType
    <2>2. CASE worker' = [worker EXCEPT ![w].todo = @ \ {p}]
        <3>1. worker[w] \in WorkerStates /\ WorkerNamesRows(worker[w])
            BY DEF TypeOK
        <3>0. PICK v : v = [worker[w] EXCEPT !.todo = @ \ {p}]
            OBVIOUS
        <3>2. v \in WorkerStates
            BY <3>0, <3>1 DEF WorkerStates
        <3>3. WorkerNamesRows(v)'
            BY <1>1, <3>0, <3>1 DEF WorkerNamesRows, JobNamesRows, WorkerStates,
                                    CreateAndEnqueue, At
        <3>4. worker' = [worker EXCEPT ![w] = v]
            BY <2>2, <3>0
        <3> QED BY <3>2, <3>3, <3>4, SetWorker
    <2> QED BY <1>3, <2>1, <2>2
<1> QED BY <1>1, <1>2, <1>5, <1>6, <1>7, WorldType, TypeStep

(* The claim.                                                               *)
LEMMA ClaimTaskType ==
    ASSUME TypeOK, NEW w \in Workers, NEW j \in jobs, ClaimTask(w, j)
    PROVE  TypeOK'
<1>1. UNCHANGED <<world, alerts>> /\ (NoFault \/ Fault) /\ j.kind = "probe"
    BY DEF ClaimTask
<1>2. alerts' \in Seq(AlertRows) /\ Len(alerts) <= Len(alerts')
    BY <1>1 DEF TypeOK
<1>3. tasks' \in [TaskIds -> TaskRows]
    <2>1. CASE tasks' = [tasks EXCEPT ![j.task].status = "running"]
        BY <2>1 DEF TypeOK, TaskRows
    <2> QED BY <2>1 DEF ClaimTask, TypeOK
<1>4. /\ worker' \in [Workers -> WorkerStates]
      /\ \A u \in Workers : worker'[u] = worker[u] \/ WorkerNamesRows(worker[u])'
    <2>1. CASE Take(w, j, "check", {})
        BY <1>1, <2>1, TakeType DEF Pcs
    <2>2. CASE UNCHANGED worker
        BY <2>2 DEF TypeOK
    <2> QED BY <2>1, <2>2 DEF ClaimTask
<1>5. \A k \in jobs' : k \in jobs \/ GoodJob(k)'
    BY DEF ClaimTask
<1> QED BY <1>1, <1>2, <1>3, <1>4, <1>5, WorldType, TypeStep

(* A goroutine in the middle of a probe goes on with it.                    *)
LEMMA ProbeStepType ==
    ASSUME TypeOK, NEW w \in Workers, NEW pc \in {"fire", "complete"},
           worker[w].pc \in {"check", "fire"}, UNCHANGED alerts,
           worker' = [worker EXCEPT ![w].pc = pc]
    PROVE  /\ worker' \in [Workers -> WorkerStates]
           /\ \A u \in Workers : worker'[u] = worker[u] \/ WorkerNamesRows(worker[u])'
           /\ worker[w].job.task \in TaskIds
<1>1. worker[w] \in WorkerStates /\ WorkerNamesRows(worker[w])
    BY DEF TypeOK
<1>2. PICK v : v = [worker[w] EXCEPT !.pc = pc]
    OBVIOUS
<1>3. v \in WorkerStates
    BY <1>1, <1>2 DEF WorkerStates, Pcs
<1>4. WorkerNamesRows(v)'
    BY <1>1, <1>2 DEF WorkerNamesRows, JobNamesRows, WorkerStates
<1>5. worker' = [worker EXCEPT ![w] = v]
    BY <1>2
<1>6. worker[w].job.task \in TaskIds
    BY <1>1 DEF WorkerNamesRows, JobNamesRows
<1> QED BY <1>3, <1>4, <1>5, <1>6, SetWorker

(* The check.                                                               *)
LEMMA CheckSiteType ==
    ASSUME TypeOK, NEW w \in Workers, CheckSite(w)
    PROVE  TypeOK'
<1>1. UNCHANGED <<world, alerts, jobs>> /\ (NoFault \/ Fault) /\ At(w, "check")
    BY DEF CheckSite
<1>2. alerts' \in Seq(AlertRows) /\ Len(alerts) <= Len(alerts')
    BY <1>1 DEF TypeOK
<1>3. PICK pc \in {"fire", "complete"} : worker' = [worker EXCEPT ![w].pc = pc]
    BY DEF CheckSite
<1>4. /\ worker' \in [Workers -> WorkerStates]
      /\ \A u \in Workers : worker'[u] = worker[u] \/ WorkerNamesRows(worker[u])'
      /\ worker[w].job.task \in TaskIds
    BY <1>1, <1>3, ProbeStepType DEF At
<1>5. tasks' = [tasks EXCEPT ![worker[w].job.task].runs = @ + 1]
    BY DEF CheckSite
<1>6. tasks' \in [TaskIds -> TaskRows]
    <2>1. PICK t \in TaskIds : t = worker[w].job.task
        BY <1>4
    <2>2. PICK n : n = tasks[t].runs + 1
        OBVIOUS
    <2>3. n \in Nat
        BY <2>2 DEF TypeOK, TaskRows
    <2>4. tasks' = [tasks EXCEPT ![t].runs = n]
        BY <1>5, <2>1, <2>2
    <2> QED BY <2>3, <2>4 DEF TypeOK, TaskRows
<1>7. \A k \in jobs' : k \in jobs \/ GoodJob(k)'
    BY <1>1
<1> QED BY <1>1, <1>2, <1>4, <1>6, <1>7, WorldType, TypeStep

(* The alert:fire task.                                                     *)
LEMMA FireProbeAlertType ==
    ASSUME TypeOK, NEW w \in Workers, FireProbeAlert(w)
    PROVE  TypeOK'
<1>1. UNCHANGED <<world, tasks, alerts>> /\ (NoFault \/ Fault) /\ At(w, "fire")
    BY DEF FireProbeAlert
<1>2. /\ alerts' \in Seq(AlertRows) /\ Len(alerts) <= Len(alerts')
      /\ tasks' \in [TaskIds -> TaskRows]
    BY <1>1 DEF TypeOK
<1>3. worker' = [worker EXCEPT ![w].pc = "complete"]
    BY DEF FireProbeAlert, Goto
<1>4. /\ worker' \in [Workers -> WorkerStates]
      /\ \A u \in Workers : worker'[u] = worker[u] \/ WorkerNamesRows(worker[u])'
      /\ worker[w].job.task \in TaskIds
    BY <1>1, <1>3, ProbeStepType DEF At
<1>5. PICK t \in TaskIds : t = worker[w].job.task
    BY <1>4
<1>6. jobs' = jobs \cup {Job("fire", t, 0, "none")} \/ jobs' = jobs
    BY <1>5 DEF FireProbeAlert, Enqueue
<1>7. \A k \in jobs' : k \in jobs \/ GoodJob(k)'
    BY <1>6 DEF GoodJob, Job, Jobs, Kinds, JobNamesRows
<1> QED BY <1>1, <1>2, <1>4, <1>7, WorldType, TypeStep

(* The end of a probe.                                                      *)
LEMMA CompleteTaskType ==
    ASSUME TypeOK, NEW w \in Workers, CompleteTask(w)
    PROVE  TypeOK'
<1>1. UNCHANGED <<world, alerts>> /\ (NoFault \/ Fault) /\ At(w, "complete")
    BY DEF CompleteTask
<1>2. alerts' \in Seq(AlertRows) /\ Len(alerts) <= Len(alerts')
    BY <1>1 DEF TypeOK
<1>3. tasks' \in [TaskIds -> TaskRows]
    <2>1. CASE tasks' = [tasks EXCEPT ![worker[w].job.task].status = "completed"]
        BY <2>1 DEF TypeOK, TaskRows
    <2> QED BY <2>1 DEF CompleteTask, TypeOK
<1>4. /\ worker' \in [Workers -> WorkerStates]
      /\ \A u \in Workers : worker'[u] = worker[u] \/ WorkerNamesRows(worker[u])'
      /\ \A k \in jobs' : k \in jobs \/ GoodJob(k)'
    <2>1. CASE Done(w) /\ UNCHANGED jobs
        BY <2>1, DoneType
    <2>2. CASE ReturnError(w)
        BY <1>1, <2>2, ErrorType DEF At
    <2> QED BY <2>1, <2>2 DEF CompleteTask
<1> QED BY <1>1, <1>2, <1>3, <1>4, WorldType, TypeStep

(* The dedup check.                                                         *)
LEMMA DedupCheckType ==
    ASSUME TypeOK, NEW w \in Workers, NEW j \in jobs, DedupCheck(w, j)
    PROVE  TypeOK'
<1>1. UNCHANGED <<world, tasks, alerts>> /\ (NoFault \/ Fault) /\ j.kind = "fire"
    BY DEF DedupCheck
<1>2. /\ alerts' \in Seq(AlertRows) /\ Len(alerts) <= Len(alerts')
      /\ tasks' \in [TaskIds -> TaskRows]
    BY <1>1 DEF TypeOK
<1>3. /\ worker' \in [Workers -> WorkerStates]
      /\ \A u \in Workers : worker'[u] = worker[u] \/ WorkerNamesRows(worker[u])'
    <2>1. CASE Take(w, j, "insert", {})
        BY <1>1, <2>1, TakeType DEF Pcs
    <2>2. CASE UNCHANGED worker
        BY <2>2 DEF TypeOK
    <2> QED BY <2>1, <2>2 DEF DedupCheck
<1>4. \A k \in jobs' : k \in jobs \/ GoodJob(k)'
    BY <1>1, OldJobs, AgainGood DEF DedupCheck
<1> QED BY <1>1, <1>2, <1>3, <1>4, WorldType, TypeStep

(* The insert: the fan-out names the row it added.                          *)
LEMMA InsertAlertType ==
    ASSUME TypeOK, NEW w \in Workers, InsertAlert(w)
    PROVE  TypeOK'
<1>1. UNCHANGED <<world, tasks>> /\ (NoFault \/ Fault) /\ At(w, "insert")
    BY DEF InsertAlert
<1>2. tasks' \in [TaskIds -> TaskRows]
    BY <1>1 DEF TypeOK
<1>3. worker[w] \in WorkerStates /\ WorkerNamesRows(worker[w])
    BY DEF TypeOK
<1>4. PICK key \in 1..3 : key = KeyOf(worker[w].job.task)
    BY <1>1, <1>3, KeyType DEF WorkerNamesRows, JobNamesRows, At
<1>5. CASE ReturnError(w) /\ UNCHANGED alerts
    <2>1. alerts' \in Seq(AlertRows) /\ Len(alerts) <= Len(alerts')
        BY <1>5 DEF TypeOK
    <2>2. /\ worker' \in [Workers -> WorkerStates]
          /\ \A u \in Workers : worker'[u] = worker[u] \/ WorkerNamesRows(worker[u])'
          /\ \A k \in jobs' : k \in jobs \/ GoodJob(k)'
        BY <1>1, <1>5, ErrorType DEF At
    <2> QED BY <1>1, <1>2, <2>1, <2>2, WorldType, TypeStep
<1>6. ASSUME NEW channels \in SUBSET Channels,
             alerts' = Append(alerts, NewAlert(key, w)),
             worker' = [worker EXCEPT ![w].pc = "fanout",
                           ![w].alert = Len(alerts) + 1, ![w].todo = channels],
             UNCHANGED jobs
      PROVE  TypeOK'
    <2>1. /\ alerts' \in Seq(AlertRows) /\ Len(alerts') = Len(alerts) + 1
          /\ Len(alerts) \in Nat
        BY <1>6, AppendAlert
    <2>2. PICK n : n = Len(alerts) + 1
        OBVIOUS
    <2>3. PICK a, b, v : /\ a = [worker[w] EXCEPT !.pc = "fanout"]
                         /\ b = [a EXCEPT !.alert = n]
                         /\ v = [b EXCEPT !.todo = channels]
        OBVIOUS
    <2>a. a \in WorkerStates /\ a.pc = "fanout" /\ a.job = worker[w].job
        BY <1>3, <2>3 DEF WorkerStates, Pcs
    <2>b. b \in WorkerStates /\ b.pc = "fanout" /\ b.job = worker[w].job /\ b.alert = n
        <3>1. n \in Nat /\ b = [a EXCEPT !.alert = n]
            BY <2>1, <2>2, <2>3
        <3> QED BY <3>1, <2>a DEF WorkerStates
    <2>4. /\ v \in WorkerStates /\ v.pc = "fanout" /\ v.job = worker[w].job
          /\ v.alert = n /\ v.todo = channels
        BY <2>3, <2>b DEF WorkerStates
    <2>5. worker' = [worker EXCEPT ![w] = v]
        BY <1>6, <2>2, <2>3 DEF TypeOK
    <2>6. WorkerNamesRows(v)'
        BY <1>1, <1>3, <2>1, <2>2, <2>4 DEF WorkerNamesRows, JobNamesRows, At
    <2>7. /\ worker' \in [Workers -> WorkerStates]
          /\ \A u \in Workers : worker'[u] = worker[u] \/ WorkerNamesRows(worker[u])'
        BY <2>4, <2>5, <2>6, SetWorker
    <2>8. (\A k \in jobs' : k \in jobs \/ GoodJob(k)') /\ Len(alerts) <= Len(alerts')
        BY <1>6, <2>1
    <2> QED BY <1>1, <1>2, <2>1, <2>7, <2>8, WorldType, TypeStep
<1>7. MatchingChannels(Rules, SeverityOf(key), "probe") \subseteq Channels
    BY CheckType, ChannelsType
<1>8. {} \in SUBSET Channels
    OBVIOUS
<1> QED BY <1>4, <1>5, <1>6, <1>7, <1>8 DEF InsertAlert

(* A round of the fan-out.                                                  *)
LEMMA EnqueueNotifyType ==
    ASSUME TypeOK, NEW w \in Workers, EnqueueNotify(w)
    PROVE  TypeOK'
<1>1. UNCHANGED <<world, tasks, alerts>> /\ (NoFault \/ Fault) /\ At(w, "fanout")
    BY DEF EnqueueNotify
<1>2. /\ alerts' \in Seq(AlertRows) /\ Len(alerts) <= Len(alerts')
      /\ tasks' \in [TaskIds -> TaskRows]
    BY <1>1 DEF TypeOK
<1>3. worker[w] \in WorkerStates /\ WorkerNamesRows(worker[w])
    BY DEF TypeOK
<1>4. PICK c \in worker[w].todo :
          \/ /\ Enqueue(Job("notify", 0, worker[w].alert, c))
             /\ worker' = [worker EXCEPT ![w].todo = @ \ {c}, ![w].enqueued = TRUE]
          \/ /\ worker' = [worker EXCEPT ![w].todo = @ \ {c}]
             /\ UNCHANGED jobs
    BY DEF EnqueueNotify
<1>5. PICK i \in 1..Len(alerts) : i = worker[w].alert
    BY <1>1, <1>3 DEF WorkerNamesRows, At
<1>6. c \in Channels
    BY <1>1, <1>3 DEF WorkerNamesRows, At
<1>7. \A k \in jobs' : k \in jobs \/ GoodJob(k)'
    <2>1. jobs' = jobs \cup {Job("notify", 0, i, c)} \/ jobs' = jobs
        BY <1>4, <1>5 DEF Enqueue
    <2>2. i \in Nat
        BY DEF TypeOK
    <2> QED BY <1>1, <1>6, <2>1, <2>2 DEF GoodJob, Job, Jobs, Kinds, JobNamesRows
<1>8. PICK a, b : /\ a = [worker[w] EXCEPT !.todo = @ \ {c}]
                  /\ b = [a EXCEPT !.enqueued = TRUE]
    OBVIOUS
<1>9. /\ a \in WorkerStates /\ a.pc = "fanout" /\ a.job = worker[w].job
      /\ a.alert = worker[w].alert /\ a.todo \subseteq Channels
    BY <1>1, <1>3, <1>8 DEF WorkerStates, WorkerNamesRows, At
<1>10. /\ b \in WorkerStates /\ b.pc = "fanout" /\ b.job = worker[w].job
       /\ b.alert = worker[w].alert /\ b.todo \subseteq Channels
    <2>1. b = [a EXCEPT !.enqueued = TRUE]
        BY <1>8
    <2> QED BY <1>9, <2>1 DEF WorkerStates
<1>11. WorkerNamesRows(a)' /\ WorkerNamesRows(b)'
    BY <1>1, <1>3, <1>9, <1>10 DEF WorkerNamesRows, JobNamesRows, At
<1>12. worker' = [worker EXCEPT ![w] = a] \/ worker' = [worker EXCEPT ![w] = b]
    BY <1>4, <1>8 DEF TypeOK
<1>13. /\ worker' \in [Workers -> WorkerStates]
       /\ \A u \in Workers : worker'[u] = worker[u] \/ WorkerNamesRows(worker[u])'
    BY <1>9, <1>10, <1>11, <1>12, SetWorker
<1> QED BY <1>1, <1>2, <1>7, <1>13, WorldType, TypeStep

(* Its end.                                                                 *)
LEMMA MarkNotifiedType ==
    ASSUME TypeOK, NEW w \in Workers, MarkNotified(w)
    PROVE  TypeOK'
<1>1. UNCHANGED <<world, tasks, jobs>> /\ (NoFault \/ Fault) /\ At(w, "fanout")
      /\ Done(w)
    BY DEF MarkNotified
<1>2. tasks' \in [TaskIds -> TaskRows] /\ \A k \in jobs' : k \in jobs \/ GoodJob(k)'
    BY <1>1 DEF TypeOK
<1>3. alerts' \in Seq(AlertRows) /\ Len(alerts) <= Len(alerts')
    <2>1. PICK i \in 1..Len(alerts) : i = worker[w].alert
        BY <1>1 DEF TypeOK, WorkerNamesRows, At
    <2>2. worker[w].enqueued \in BOOLEAN /\ alerts[i] \in AlertRows /\ Len(alerts) \in Nat
        BY DEF TypeOK, WorkerStates
    <2>3. PICK row : row = [alerts[i] EXCEPT !.notified = @ \/ worker[w].enqueued]
        OBVIOUS
    <2>4. row \in AlertRows
        BY <2>2, <2>3 DEF AlertRows
    <2>5. alerts' = [alerts EXCEPT ![i] = row] \/ alerts' = alerts
        BY <2>1, <2>3 DEF MarkNotified
    <2>6. Len(alerts) \in Nat /\ alerts \in Seq(AlertRows)
        BY DEF TypeOK
    <2>7. CASE alerts' = [alerts EXCEPT ![i] = row]
        BY <2>4, <2>6, <2>7, RewriteAlert
    <2> QED BY <2>5, <2>6, <2>7
<1> QED BY <1>1, <1>2, <1>3, DoneType, WorldType, TypeStep

(* What a delivery writes about its channel is a row again.                 *)
LEMMA DeliveryRow ==
    ASSUME NEW row \in AlertRows, NEW c \in Channels,
           NEW status \in {"sent", "failed", "suppressed"}
    PROVE  /\ [row EXCEPT !.history = @ \cup {<<c, status>>}] \in AlertRows
           /\ [row EXCEPT !.delivered[c] = @ + 1] \in AlertRows
<1>1. PICK h : h = row.history \cup {<<c, status>>}
    OBVIOUS
<1>2. h \in SUBSET (Channels \X {"sent", "failed", "suppressed"})
    BY <1>1 DEF AlertRows
<1>3. [row EXCEPT !.history = h] \in AlertRows
    BY <1>2 DEF AlertRows
<1>4. PICK d : d = [row.delivered EXCEPT ![c] = @ + 1]
    OBVIOUS
<1>5. row.delivered \in [Channels -> Nat]
    BY DEF AlertRows
<1>6. d \in [Channels -> Nat]
    BY <1>4, <1>5
<1>7. [row EXCEPT !.delivered = d] \in AlertRows
    BY <1>6 DEF AlertRows
<1> QED BY <1>1, <1>3, <1>4, <1>7

(* A delivery starts.                                                       *)
LEMMA DispatchType ==
    ASSUME TypeOK, NEW w \in Workers, NEW j \in jobs, DispatchByChannelID(w, j)
    PROVE  TypeOK'
<1>1. UNCHANGED <<world, tasks>> /\ (NoFault \/ Fault) /\ j.kind = "notify"
    BY DEF DispatchByChannelID
<1>2. tasks' \in [TaskIds -> TaskRows] /\ \A k \in jobs' : k \in jobs \/ GoodJob(k)'
    BY <1>1 DEF TypeOK, DispatchByChannelID
<1>3. j.alert \in 1..Len(alerts) /\ j.channel \in Channels
    BY <1>1 DEF TypeOK, JobNamesRows
<1>4. alerts[j.alert] \in AlertRows /\ Len(alerts) \in Nat
    BY <1>3 DEF TypeOK
<1>5. alerts' \in Seq(AlertRows) /\ Len(alerts) <= Len(alerts')
    <2>1. PICK row : row = [alerts[j.alert] EXCEPT !.history =
                               @ \cup {<<j.channel, "suppressed">>}]
        OBVIOUS
    <2>2. row \in AlertRows
        BY <1>3, <1>4, <2>1, DeliveryRow
    <2>3. alerts' = [alerts EXCEPT ![j.alert] = row] \/ alerts' = alerts
        BY <2>1 DEF DispatchByChannelID
    <2> QED BY <1>3, <1>4, <2>2, <2>3, RewriteAlert DEF TypeOK
<1>6. /\ worker' \in [Workers -> WorkerStates]
      /\ \A u \in Workers : worker'[u] = worker[u] \/ WorkerNamesRows(worker[u])'
    <2>1. CASE Take(w, j, "send", {}) /\ UNCHANGED alerts
        BY <1>1, <2>1, TakeType DEF Pcs
    <2>2. CASE UNCHANGED worker
        BY <2>2 DEF TypeOK
    <2> QED BY <2>1, <2>2 DEF DispatchByChannelID
<1> QED BY <1>1, <1>2, <1>5, <1>6, WorldType, TypeStep

(* The message.                                                             *)
LEMMA SendType ==
    ASSUME TypeOK, NEW w \in Workers, Send(w)
    PROVE  TypeOK'
<1>1. UNCHANGED <<world, tasks, jobs>> /\ (NoFault \/ Fault) /\ At(w, "send")
    BY DEF Send
<1>2. tasks' \in [TaskIds -> TaskRows] /\ \A k \in jobs' : k \in jobs \/ GoodJob(k)'
    BY <1>1 DEF TypeOK
<1>3. worker[w] \in WorkerStates /\ WorkerNamesRows(worker[w])
    BY DEF TypeOK
<1>4. PICK i \in 1..Len(alerts), c \in Channels :
          i = worker[w].job.alert /\ c = worker[w].job.channel
    BY <1>1, <1>3 DEF WorkerNamesRows, JobNamesRows, At
<1>5. alerts[i] \in AlertRows /\ Len(alerts) \in Nat /\ alerts \in Seq(AlertRows)
    BY DEF TypeOK
<1>6. alerts' \in Seq(AlertRows) /\ Len(alerts') = Len(alerts)
    <2>1. PICK row : row = [alerts[i] EXCEPT !.delivered[c] = @ + 1]
        OBVIOUS
    <2>2. row \in AlertRows
        BY <1>5, <2>1, DeliveryRow
    <2>3. alerts' = [alerts EXCEPT ![i] = row] \/ alerts' = alerts
        BY <1>4, <2>1 DEF Send
    <2>4. CASE alerts' = [alerts EXCEPT ![i] = row]
        BY <2>2, <2>4, RewriteAlert
    <2> QED BY <1>5, <2>3, <2>4
<1>7. PICK status \in {"sent", "failed"} :
          worker' = [worker EXCEPT ![w].pc = "record", ![w].status = status]
    BY DEF Send
<1>8. PICK a, v : /\ a = [worker[w] EXCEPT !.pc = "record"]
                  /\ v = [a EXCEPT !.status = status]
    OBVIOUS
<1>9. a \in WorkerStates /\ a.pc = "record" /\ a.job = worker[w].job
    BY <1>3, <1>8 DEF WorkerStates, Pcs
<1>10. /\ v \in WorkerStates /\ v.pc = "record" /\ v.job = worker[w].job
       /\ v.status = status
    <2>1. v = [a EXCEPT !.status = status]
        BY <1>8
    <2> QED BY <1>9, <2>1 DEF WorkerStates
<1>11. WorkerNamesRows(v)'
    BY <1>1, <1>3, <1>6, <1>10 DEF WorkerNamesRows, JobNamesRows, At
<1>12. worker' = [worker EXCEPT ![w] = v]
    BY <1>7, <1>8 DEF TypeOK
<1>13. /\ worker' \in [Workers -> WorkerStates]
       /\ \A u \in Workers : worker'[u] = worker[u] \/ WorkerNamesRows(worker[u])'
    BY <1>10, <1>11, <1>12, SetWorker
<1>14. Len(alerts) <= Len(alerts')
    BY <1>5, <1>6
<1> QED BY <1>1, <1>2, <1>6, <1>13, <1>14, WorldType, TypeStep

(* Its history.                                                             *)
LEMMA RecordHistoryType ==
    ASSUME TypeOK, NEW w \in Workers, RecordHistory(w)
    PROVE  TypeOK'
<1>1. UNCHANGED <<world, tasks, jobs>> /\ (NoFault \/ Fault) /\ At(w, "record")
      /\ Done(w)
    BY DEF RecordHistory
<1>2. tasks' \in [TaskIds -> TaskRows] /\ \A k \in jobs' : k \in jobs \/ GoodJob(k)'
    BY <1>1 DEF TypeOK
<1>3. worker[w] \in WorkerStates /\ WorkerNamesRows(worker[w])
    BY DEF TypeOK
<1>4. PICK i \in 1..Len(alerts), c \in Channels, status \in {"sent", "failed"} :
          /\ i = worker[w].job.alert /\ c = worker[w].job.channel
          /\ status = worker[w].status
    BY <1>1, <1>3 DEF WorkerNamesRows, WorkerStates, JobNamesRows, At
<1>5. alerts[i] \in AlertRows /\ Len(alerts) \in Nat /\ alerts \in Seq(AlertRows)
    BY DEF TypeOK
<1>6. alerts' \in Seq(AlertRows) /\ Len(alerts) <= Len(alerts')
    <2>1. PICK row : row = [alerts[i] EXCEPT !.history = @ \cup {<<c, status>>}]
        OBVIOUS
    <2>2. row \in AlertRows
        BY <1>5, <2>1, DeliveryRow
    <2>3. alerts' = [alerts EXCEPT ![i] = row] \/ alerts' = alerts
        BY <1>4, <2>1 DEF RecordHistory
    <2>4. CASE alerts' = [alerts EXCEPT ![i] = row]
        BY <1>5, <2>2, <2>4, RewriteAlert
    <2> QED BY <1>5, <2>3, <2>4
<1> QED BY <1>1, <1>2, <1>6, DoneType, WorldType, TypeStep

(* A lost goroutine.                                                        *)
LEMMA CrashType ==
    ASSUME TypeOK, NEW w \in Workers, Crash(w)
    PROVE  TypeOK'
<1>1. UNCHANGED <<world, tasks, alerts>> /\ Fault /\ ReturnError(w) /\ ~At(w, "idle")
    BY DEF Crash
<1>2. /\ alerts' \in Seq(AlertRows) /\ Len(alerts) <= Len(alerts')
      /\ tasks' \in [TaskIds -> TaskRows]
    BY <1>1 DEF TypeOK
<1> QED BY <1>1, <1>2, ErrorType, WorldType, TypeStep

(* The steps outside of the worker.                                         *)
LEMMA OutsideType ==
    ASSUME TypeOK, SiteChanges \/ Operators \/ HourPasses
    PROVE  TypeOK'
<1>1. UNCHANGED <<tasks, jobs, worker, faults>> /\ changes' \in Nat
    BY DEF SiteChanges, Operators, HourPasses, Change, UpdatePolicy, UpdateChannel,
           ResolveAlert, TypeOK
<1>2. site' \in Answers /\ enabled' \subseteq Policies /\ on' \subseteq Channels
    BY DEF SiteChanges, Operators, HourPasses, UpdatePolicy, UpdateChannel,
           ResolveAlert, TypeOK
<1>3. alerts' \in Seq(AlertRows) /\ Len(alerts) <= Len(alerts')
    <2>1. alerts \in Seq(AlertRows) /\ Len(alerts) \in Nat
        BY DEF TypeOK
    <2>2. ASSUME NEW i \in 1..Len(alerts), ResolveAlert(i)
          PROVE  alerts' \in Seq(AlertRows) /\ Len(alerts) <= Len(alerts')
        <3>1. PICK row : row = [alerts[i] EXCEPT !.resolved = TRUE]
            OBVIOUS
        <3>2. alerts[i] \in AlertRows
            BY <2>1
        <3>3. row \in AlertRows
            BY <3>1, <3>2 DEF AlertRows
        <3>4. alerts' = [alerts EXCEPT ![i] = row]
            BY <2>2, <3>1 DEF ResolveAlert
        <3> QED BY <2>1, <3>3, <3>4, RewriteAlert
    <2>3. CASE HourPasses
        <3>1. alerts' = [i \in 1..Len(alerts) |-> [alerts[i] EXCEPT !.old = TRUE]]
            BY <2>3 DEF HourPasses, Aged
        <3>2. \A i \in 1..Len(alerts) : [alerts[i] EXCEPT !.old = TRUE] \in AlertRows
            <4> SUFFICES ASSUME NEW i \in 1..Len(alerts)
                         PROVE  [alerts[i] EXCEPT !.old = TRUE] \in AlertRows
                OBVIOUS
            <4>1. alerts[i] \in AlertRows
                BY <2>1
            <4> QED BY <4>1 DEF AlertRows
        <3>3. alerts' \in [1..Len(alerts) -> AlertRows]
            BY <3>1, <3>2
        <3> QED BY <2>1, <3>3
    <2>4. CASE UNCHANGED alerts
        BY <2>1, <2>4
    <2> QED BY <2>2, <2>3, <2>4 DEF SiteChanges, Operators, UpdatePolicy, UpdateChannel
<1>4. faults' \in Nat /\ tasks' \in [TaskIds -> TaskRows]
      /\ worker' \in [Workers -> WorkerStates]
    BY <1>1 DEF TypeOK
<1> QED BY <1>1, <1>2, <1>3, <1>4, TypeStep

(* Every step preserves the types.                                          *)
LEMMA TypeNext == TypeOK /\ [Next]_vars => TypeOK'
<1> SUFFICES ASSUME TypeOK, [Next]_vars PROVE TypeOK'
    OBVIOUS
<1>1. CASE UNCHANGED vars
    BY <1>1 DEF vars, world, TypeOK, JobNamesRows, WorkerNamesRows
<1>2. ASSUME NEW w \in Workers, NEW j \in jobs, TakeJob(w, j) PROVE TypeOK'
    BY <1>2, ScheduleAllType, ClaimTaskType, DedupCheckType, DispatchType DEF TakeJob
<1>3. ASSUME NEW w \in Workers, Step(w) PROVE TypeOK'
    BY <1>3, CreateAndEnqueueType, CheckSiteType, FireProbeAlertType,
       CompleteTaskType, InsertAlertType, EnqueueNotifyType, MarkNotifiedType,
       SendType, RecordHistoryType DEF Step
<1> QED BY <1>1, <1>2, <1>3, ScheduleTickType, CrashType, OutsideType DEF Next

(* The worker starts with typed tables.                                     *)
LEMMA TypeInit == Init => TypeOK
<1> SUFFICES ASSUME Init PROVE TypeOK
    OBVIOUS
<1>1. PICK p \in Policies : p = CHOOSE q \in Policies : TRUE
    OBVIOUS
<1>2. NewTask(p) \in TaskRows
    BY DEF NewTask, TaskRows
<1>3. tasks \in [TaskIds -> TaskRows]
    BY <1>1, <1>2 DEF Init
<1>4. worker \in [Workers -> WorkerStates] /\ \A w \in Workers : WorkerNamesRows(worker[w])
    BY IdleType DEF Init
<1> QED BY <1>3, <1>4 DEF Init, TypeOK

(* Every variable keeps its type, and no goroutine or job names a row that  *)
(* does not exist, whatever is lost, retried or resolved on the way.        *)
THEOREM TypeCorrect == Spec => []TypeOK
BY TypeInit, TypeNext, PTL DEF Spec

-----------------------------------------------------------------------------
ProbePcs == {"check", "fire", "complete"}

(* A step of one goroutine leaves the others alone.                         *)
LEMMA OthersStay ==
    ASSUME TypeOK, NEW w \in Workers,
           (\E j \in jobs : TakeJob(w, j)) \/ Step(w) \/ Crash(w)
    PROVE  \A u \in Workers : u # w => worker'[u] = worker[u]
<1> USE DEF TypeOK
<1>1. ASSUME NEW j \in jobs, TakeJob(w, j)
      PROVE  \A u \in Workers : u # w => worker'[u] = worker[u]
    BY <1>1 DEF TakeJob, ScheduleAll, ClaimTask, DedupCheck, DispatchByChannelID, Take
<1>2. CASE CreateAndEnqueue(w) \/ CheckSite(w) \/ FireProbeAlert(w) \/ CompleteTask(w)
    BY <1>2 DEF CreateAndEnqueue, CheckSite, FireProbeAlert, CompleteTask, Goto,
                ReturnError, Done
<1>3. CASE InsertAlert(w)
    BY <1>3 DEF InsertAlert, ReturnError, Done
<1>4. CASE EnqueueNotify(w)
    BY <1>4 DEF EnqueueNotify
<1>5. CASE MarkNotified(w) \/ RecordHistory(w) \/ Crash(w)
    BY <1>5 DEF MarkNotified, RecordHistory, Crash, ReturnError, Done
<1>6. CASE Send(w)
    BY <1>6 DEF Send
<1> QED BY <1>1, <1>2, <1>3, <1>4, <1>5, <1>6 DEF Step

(* Where a goroutine is after its step, and which task it names then.       *)
LEMMA Moves ==
    ASSUME TypeOK, NEW w \in Workers,
           (\E j \in jobs : TakeJob(w, j)) \/ Step(w) \/ Crash(w)
    PROVE  \/ worker'[w] = worker[w]
           \/ worker'[w].pc \notin ProbePcs \cup {"insert"}
           \/ \E j \in jobs : /\ ClaimTask(w, j) \/ DedupCheck(w, j)
                              /\ worker'[w] = Handler("check", j, {})
                                 \/ worker'[w] = Handler("insert", j, {})
           \/ /\ worker[w].pc \in ProbePcs /\ worker'[w].pc \in ProbePcs \ {"check"}
              /\ worker'[w].job = worker[w].job
<1> USE DEF TypeOK, ProbePcs
<1>1. ASSUME NEW j \in jobs, ScheduleAll(w, j) \/ DispatchByChannelID(w, j)
      PROVE  worker'[w] = worker[w] \/ worker'[w].pc \notin ProbePcs \cup {"insert"}
    BY <1>1 DEF ScheduleAll, DispatchByChannelID, Take, Handler
<1>2. ASSUME NEW j \in jobs, ClaimTask(w, j) \/ DedupCheck(w, j)
      PROVE  \/ worker'[w] = worker[w]
             \/ worker'[w] = Handler("check", j, {})
             \/ worker'[w] = Handler("insert", j, {})
    BY <1>2 DEF ClaimTask, DedupCheck, Take
<1>3. CASE CheckSite(w) \/ FireProbeAlert(w)
    BY <1>3 DEF CheckSite, FireProbeAlert, Goto, At, WorkerStates
<1>4. CASE CreateAndEnqueue(w)
    BY <1>4 DEF CreateAndEnqueue, At, Done, Idle, Handler, WorkerStates
<1>5. CASE CompleteTask(w) \/ MarkNotified(w) \/ RecordHistory(w) \/ Crash(w)
    BY <1>5 DEF CompleteTask, MarkNotified, RecordHistory, Crash, ReturnError, Done,
                Idle, Handler
<1>6. CASE InsertAlert(w)
    BY <1>6 DEF InsertAlert, ReturnError, Done, Idle, Handler, WorkerStates
<1>7. CASE EnqueueNotify(w)
    <2>1. PICK c : \/ worker' = [worker EXCEPT ![w].todo = @ \ {c}, ![w].enqueued = TRUE]
                   \/ worker' = [worker EXCEPT ![w].todo = @ \ {c}]
        BY <1>7 DEF EnqueueNotify
    <2>2. PICK a, b : /\ a = [worker[w] EXCEPT !.todo = @ \ {c}]
                      /\ b = [a EXCEPT !.enqueued = TRUE]
        OBVIOUS
    <2>3. worker'[w] = a \/ worker'[w] = b
        BY <2>1, <2>2
    <2>4. worker[w].pc = "fanout" /\ worker[w] \in WorkerStates
        BY <1>7 DEF EnqueueNotify, At
    <2>5. a.pc = "fanout"
        BY <2>2, <2>4 DEF WorkerStates
    <2>6. b = [a EXCEPT !.enqueued = TRUE]
        BY <2>2
    <2>7. b.pc = "fanout"
        BY <2>5, <2>6
    <2> QED BY <2>3, <2>5, <2>7
<1>8. CASE Send(w)
    BY <1>8 DEF Send, WorkerStates
<1> QED BY <1>1, <1>2, <1>3, <1>4, <1>5, <1>6, <1>7, <1>8 DEF Step, TakeJob

(* The inductive invariant behind ProbedOnce: who is in the middle of a     *)
(* probe has its task to itself, and the task has left "pending".           *)
RunOnce ==
    \A t \in TaskIds : /\ tasks[t].runs \in {0, 1}
                       /\ tasks[t].status = "pending" => tasks[t].runs = 0

Claimed ==
    \A w \in Workers :
        worker[w].pc \in ProbePcs =>
            /\ tasks[worker[w].job.task].status = "running"
            /\ worker[w].pc = "check" => tasks[worker[w].job.task].runs = 0

Apart ==
    \A w, v \in Workers :
        (/\ w # v
         /\ worker[w].pc \in ProbePcs
         /\ worker[v].pc \in ProbePcs) => worker[w].job.task # worker[v].job.task

ClaimInv == RunOnce /\ Claimed /\ Apart

(* A goroutine in the middle of a probe names a task.                       *)
LEMMA ProbeNamesTask ==
    ASSUME TypeOK, NEW w \in Workers, worker[w].pc \in ProbePcs
    PROVE  worker[w].job.task \in TaskIds
BY DEF TypeOK, WorkerNamesRows, JobNamesRows, ProbePcs

(* Steps that leave the tasks alone: a goroutine stays, leaves the probe,   *)
(* or goes on behind the check.                                             *)
LEMMA ClaimFrame ==
    ASSUME TypeOK, ClaimInv, UNCHANGED tasks,
           \A u \in Workers :
               \/ worker'[u] = worker[u]
               \/ worker'[u].pc \notin ProbePcs
               \/ /\ worker[u].pc \in ProbePcs /\ worker'[u].pc \in ProbePcs \ {"check"}
                  /\ worker'[u].job = worker[u].job
    PROVE  ClaimInv'
BY DEF ClaimInv, RunOnce, Claimed, Apart, ProbePcs

(* A step of w that writes one task, which no other goroutine is probing.   *)
LEMMA ClaimStep ==
    ASSUME TypeOK, ClaimInv, NEW w \in Workers, NEW t \in TaskIds,
           \A s \in TaskIds : s # t => tasks'[s] = tasks[s],
           \A u \in Workers : u # w => worker'[u] = worker[u],
           \A u \in Workers : u # w /\ worker[u].pc \in ProbePcs =>
               worker[u].job.task # t,
           tasks'[t].runs \in {0, 1},
           tasks'[t].status = "pending" => tasks'[t].runs = 0,
           worker'[w].pc \in ProbePcs =>
               /\ worker'[w].job.task = t
               /\ tasks'[t].status = "running"
               /\ worker'[w].pc = "check" => tasks'[t].runs = 0
    PROVE  ClaimInv'
<1>1. RunOnce'
    BY DEF ClaimInv, RunOnce
<1>2. Claimed'
    <2> SUFFICES ASSUME NEW u \in Workers, worker'[u].pc \in ProbePcs
                 PROVE  /\ tasks'[worker'[u].job.task].status = "running"
                        /\ worker'[u].pc = "check" => tasks'[worker'[u].job.task].runs = 0
        BY DEF Claimed
    <2>1. CASE u = w
        BY <2>1
    <2>2. CASE u # w
        <3>1. worker'[u] = worker[u] /\ worker[u].pc \in ProbePcs
            BY <2>2
        <3>2. worker[u].job.task \in TaskIds \ {t}
            BY <2>2, <3>1, ProbeNamesTask
        <3>3. tasks'[worker[u].job.task] = tasks[worker[u].job.task]
            BY <3>2
        <3> QED BY <3>1, <3>3 DEF ClaimInv, Claimed
    <2> QED BY <2>1, <2>2
<1>3. Apart'
    BY DEF ClaimInv, Apart
<1> QED BY <1>1, <1>2, <1>3 DEF ClaimInv

(* A fresh task is nobody's: Free leaves out what goroutines name.          *)
LEMMA CreateClaim ==
    ASSUME TypeOK, ClaimInv, NEW w \in Workers, CreateAndEnqueue(w)
    PROVE  ClaimInv'
<1>1. PICK p \in worker[w].todo, t \in Free : tasks' = [tasks EXCEPT ![t] = NewTask(p)]
    BY DEF CreateAndEnqueue
<1>2. worker'[w].pc \notin ProbePcs
    BY DEF CreateAndEnqueue, At, Done, Idle, Handler, WorkerStates, TypeOK, ProbePcs
<1>3. \A u \in Workers : u # w => worker'[u] = worker[u]
    BY OthersStay DEF Step
<1>4. t \in TaskIds /\ \A u \in Workers : worker[u].job.task # t
    BY DEF Free
<1>5. /\ tasks'[t].runs = 0
      /\ \A s \in TaskIds : s # t => tasks'[s] = tasks[s]
    BY <1>1, <1>4 DEF TypeOK, NewTask
<1>6. tasks'[t].runs \in {0, 1}
    BY <1>5
<1>7. /\ \A s \in TaskIds : s # t => tasks'[s] = tasks[s]
      /\ \A u \in Workers : u # w /\ worker[u].pc \in ProbePcs =>
             worker[u].job.task # t
      /\ tasks'[t].status = "pending" => tasks'[t].runs = 0
      /\ worker'[w].pc \in ProbePcs =>
             /\ worker'[w].job.task = t
             /\ tasks'[t].status = "running"
             /\ worker'[w].pc = "check" => tasks'[t].runs = 0
    BY <1>2, <1>4, <1>5
<1> QED BY <1>3, <1>4, <1>6, <1>7, ClaimStep

(* Who claims a pending task is alone with it.                              *)
LEMMA ClaimTaskClaim ==
    ASSUME TypeOK, ClaimInv, NEW w \in Workers, NEW j \in jobs, ClaimTask(w, j)
    PROVE  ClaimInv'
<1>1. \A u \in Workers : u # w => worker'[u] = worker[u]
    BY OthersStay DEF TakeJob
<1>2. CASE UNCHANGED <<tasks, worker>>
    BY <1>2, ClaimFrame
<1>3. CASE /\ tasks[j.task].status = "pending"
           /\ tasks' = [tasks EXCEPT ![j.task].status = "running"]
           /\ Take(w, j, "check", {})
    <2>1. PICK t \in TaskIds : t = j.task
        BY DEF ClaimTask, TypeOK, JobNamesRows
    <2>2. worker'[w].pc = "check" /\ worker'[w].job.task = t
        BY <1>3, <2>1 DEF Take, Handler, TypeOK
    <2>3. /\ tasks'[t].status = "running" /\ tasks'[t].runs = tasks[t].runs
          /\ \A s \in TaskIds : s # t => tasks'[s] = tasks[s]
        BY <1>3, <2>1 DEF TypeOK, TaskRows
    <2>4. tasks[t].runs = 0 /\ tasks[t].status = "pending"
        BY <1>3, <2>1 DEF ClaimInv, RunOnce
    <2>5. \A u \in Workers : worker[u].pc \in ProbePcs => worker[u].job.task \in TaskIds \ {t}
        BY <2>4, ProbeNamesTask DEF ClaimInv, Claimed
    <2>6. /\ \A u \in Workers : u # w /\ worker[u].pc \in ProbePcs =>
                 worker[u].job.task # t
          /\ tasks'[t].runs \in {0, 1}
          /\ tasks'[t].status = "pending" => tasks'[t].runs = 0
          /\ worker'[w].pc \in ProbePcs =>
                 /\ worker'[w].job.task = t
                 /\ tasks'[t].status = "running"
                 /\ worker'[w].pc = "check" => tasks'[t].runs = 0
        BY <2>2, <2>3, <2>4, <2>5
    <2> QED BY <1>1, <2>3, <2>6, ClaimStep
<1> QED BY <1>2, <1>3 DEF ClaimTask

(* The only run of a task.                                                  *)
LEMMA CheckSiteClaim ==
    ASSUME TypeOK, ClaimInv, NEW w \in Workers, CheckSite(w)
    PROVE  ClaimInv'
<1>1. \A u \in Workers : u # w => worker'[u] = worker[u]
    BY OthersStay DEF Step
<1>2. worker[w].pc = "check" /\ worker[w].pc \in ProbePcs
    BY DEF CheckSite, At, ProbePcs
<1>3. PICK t \in TaskIds : t = worker[w].job.task
    BY <1>2, ProbeNamesTask
<1>4. tasks' = [tasks EXCEPT ![t].runs = @ + 1]
    BY <1>3 DEF CheckSite
<1>5. /\ tasks'[t].runs = tasks[t].runs + 1 /\ tasks'[t].status = tasks[t].status
      /\ \A s \in TaskIds : s # t => tasks'[s] = tasks[s]
    BY <1>4 DEF TypeOK, TaskRows
<1>6. tasks[t].runs = 0 /\ tasks[t].status = "running"
    BY <1>2, <1>3 DEF ClaimInv, Claimed
<1>7. worker'[w].pc \in ProbePcs \ {"check"} /\ worker'[w].job = worker[w].job
    BY DEF CheckSite, At, TypeOK, WorkerStates, ProbePcs
<1>8. \A u \in Workers : u # w /\ worker[u].pc \in ProbePcs =>
          worker[u].job.task \in TaskIds \ {t}
    BY <1>2, <1>3, ProbeNamesTask DEF ClaimInv, Apart
<1>9. tasks'[t].runs = 1 /\ tasks'[t].status = "running"
    BY <1>5, <1>6
<1>10. /\ \A s \in TaskIds : s # t => tasks'[s] = tasks[s]
       /\ \A u \in Workers : u # w /\ worker[u].pc \in ProbePcs =>
              worker[u].job.task # t
    BY <1>5, <1>8
<1>11. /\ tasks'[t].runs \in {0, 1}
       /\ tasks'[t].status = "pending" => tasks'[t].runs = 0
       /\ worker'[w].pc \in ProbePcs =>
              /\ worker'[w].job.task = t
              /\ tasks'[t].status = "running"
              /\ worker'[w].pc = "check" => tasks'[t].runs = 0
    BY <1>3, <1>7, <1>9
<1> QED BY <1>1, <1>10, <1>11, ClaimStep

(* The task of a finished probe stays out of "pending".                     *)
LEMMA CompleteTaskClaim ==
    ASSUME TypeOK, ClaimInv, NEW w \in Workers, CompleteTask(w)
    PROVE  ClaimInv'
<1>1. \A u \in Workers : u # w => worker'[u] = worker[u]
    BY OthersStay DEF Step
<1>2. worker[w].pc \in ProbePcs
    BY DEF CompleteTask, At, ProbePcs
<1>3. worker'[w].pc \notin ProbePcs
    BY DEF CompleteTask, ReturnError, Done, Idle, Handler, TypeOK, ProbePcs
<1>4. CASE UNCHANGED tasks
    BY <1>1, <1>3, <1>4, ClaimFrame
<1>5. CASE tasks' = [tasks EXCEPT ![worker[w].job.task].status = "completed"]
    <2>1. PICK t \in TaskIds : t = worker[w].job.task
        BY <1>2, ProbeNamesTask
    <2>2. /\ tasks'[t].runs = tasks[t].runs /\ tasks'[t].status = "completed"
          /\ \A s \in TaskIds : s # t => tasks'[s] = tasks[s]
        BY <1>5, <2>1 DEF TypeOK, TaskRows
    <2>3. \A u \in Workers : u # w /\ worker[u].pc \in ProbePcs =>
              worker[u].job.task \in TaskIds \ {t}
        BY <1>2, <2>1, ProbeNamesTask DEF ClaimInv, Apart
    <2>4. tasks'[t].runs \in {0, 1}
        BY <2>2 DEF ClaimInv, RunOnce
    <2>5. /\ \A s \in TaskIds : s # t => tasks'[s] = tasks[s]
          /\ \A u \in Workers : u # w /\ worker[u].pc \in ProbePcs =>
                 worker[u].job.task # t
          /\ tasks'[t].status = "pending" => tasks'[t].runs = 0
          /\ worker'[w].pc \in ProbePcs =>
                 /\ worker'[w].job.task = t
                 /\ tasks'[t].status = "running"
                 /\ worker'[w].pc = "check" => tasks'[t].runs = 0
        BY <1>3, <2>2, <2>3
    <2> QED BY <1>1, <2>4, <2>5, ClaimStep
<1> QED BY <1>4, <1>5 DEF CompleteTask

(* Every step preserves ClaimInv.                                           *)
LEMMA ClaimNext == TypeOK /\ ClaimInv /\ [Next]_vars => ClaimInv'
<1> SUFFICES ASSUME TypeOK, ClaimInv, [Next]_vars PROVE ClaimInv'
    OBVIOUS
<1>1. CASE UNCHANGED <<tasks, worker>>
    BY <1>1, ClaimFrame
<1>2. ASSUME NEW w \in Workers, NEW j \in jobs, TakeJob(w, j) PROVE ClaimInv'
    <2>1. CASE ClaimTask(w, j)
        BY <2>1, ClaimTaskClaim
    <2>2. CASE ScheduleAll(w, j) \/ DedupCheck(w, j) \/ DispatchByChannelID(w, j)
        <3>1. UNCHANGED tasks
            BY <2>2 DEF ScheduleAll, DedupCheck, DispatchByChannelID
        <3>2. worker'[w] = worker[w] \/ worker'[w].pc \notin ProbePcs
            BY <2>2 DEF ScheduleAll, DedupCheck, DispatchByChannelID, Take, Handler,
                        TypeOK, ProbePcs
        <3> QED BY <1>2, <3>1, <3>2, OthersStay, ClaimFrame
    <2> QED BY <1>2, <2>1, <2>2 DEF TakeJob
<1>3. ASSUME NEW w \in Workers, Step(w) \/ Crash(w) PROVE ClaimInv'
    <2>1. CASE CreateAndEnqueue(w)
        BY <2>1, CreateClaim
    <2>2. CASE CheckSite(w)
        BY <2>2, CheckSiteClaim
    <2>3. CASE CompleteTask(w)
        BY <2>3, CompleteTaskClaim
    <2>4. CASE \/ FireProbeAlert(w) \/ InsertAlert(w) \/ EnqueueNotify(w)
               \/ MarkNotified(w) \/ Send(w) \/ RecordHistory(w) \/ Crash(w)
        <3>1. UNCHANGED tasks
            BY <2>4 DEF FireProbeAlert, InsertAlert, EnqueueNotify, MarkNotified, Send,
                        RecordHistory, Crash
        <3>2. ~At(w, "idle")
            BY <2>4 DEF FireProbeAlert, InsertAlert, EnqueueNotify, MarkNotified, Send,
                        RecordHistory, Crash, At
        <3>3. ASSUME NEW j \in jobs PROVE ~ClaimTask(w, j) /\ ~DedupCheck(w, j)
            BY <3>2 DEF ClaimTask, DedupCheck, Ready
        <3>4. \/ worker'[w] = worker[w]
              \/ worker'[w].pc \notin ProbePcs
              \/ /\ worker[w].pc \in ProbePcs /\ worker'[w].pc \in ProbePcs \ {"check"}
                 /\ worker'[w].job = worker[w].job
            BY <1>3, <3>3, Moves
        <3> QED BY <1>3, <3>1, <3>4, OthersStay, ClaimFrame
    <2> QED BY <1>3, <2>1, <2>2, <2>3, <2>4 DEF Step
<1>4. CASE ScheduleTick \/ SiteChanges \/ Operators \/ HourPasses
    BY <1>1, <1>4 DEF ScheduleTick, SiteChanges, Operators, HourPasses, UpdatePolicy,
                      UpdateChannel, ResolveAlert
<1> QED BY <1>1, <1>2, <1>3, <1>4 DEF Next, vars

(* Redelivery, retries and lost goroutines never run a probe task twice.    *)
THEOREM ProbedAtMostOnce == Spec => []ProbedOnce
<1>1. Init => ClaimInv
    BY DEF Init, ClaimInv, RunOnce, Claimed, Apart, NewTask, Idle, Handler, ProbePcs
<1>2. ClaimInv => ProbedOnce
    BY DEF ClaimInv, RunOnce, ProbedOnce
<1> QED BY <1>1, <1>2, ClaimNext, TypeCorrect, PTL DEF Spec

-----------------------------------------------------------------------------
(* The inductive invariant behind DedupPerWorker: between its dedup check   *)
(* and its insert a goroutine has no alert of its own that would suppress.  *)
Unseen ==
    \A w \in Workers :
        worker[w].pc = "insert" =>
            \A i \in 1..Len(alerts) :
                Suppresses(alerts[i], KeyOf(worker[w].job.task)) => alerts[i].by # w

DedupInv == DedupPerWorker /\ Unseen

(* Rows keep their key and their author, and what is resolved or old stays. *)
Kept ==
    /\ Len(alerts') = Len(alerts)
    /\ \A i \in 1..Len(alerts) :
           /\ alerts'[i].key = alerts[i].key
           /\ alerts'[i].by = alerts[i].by
           /\ alerts[i].resolved => alerts'[i].resolved
           /\ alerts[i].old => alerts'[i].old

(* One row is rewritten in a column that the dedup check does not read.     *)
LEMMA KeptRow ==
    ASSUME TypeOK, NEW i \in 1..Len(alerts), NEW row \in AlertRows,
           alerts' = [alerts EXCEPT ![i] = row],
           row.key = alerts[i].key, row.by = alerts[i].by,
           alerts[i].resolved => row.resolved, alerts[i].old => row.old
    PROVE  Kept
BY RewriteAlert DEF Kept

(* Only the insert adds a row; no other step of a goroutine disturbs one.   *)
LEMMA KeptWorker ==
    ASSUME TypeOK, NEW w \in Workers,
           \/ \E j \in jobs : TakeJob(w, j)
           \/ Step(w) /\ ~(InsertAlert(w) /\ alerts' # alerts)
           \/ Crash(w)
    PROVE  Kept
<1>0. alerts \in Seq(AlertRows) /\ worker[w] \in WorkerStates /\ WorkerNamesRows(worker[w])
    BY DEF TypeOK
<1>1. CASE UNCHANGED alerts
    BY <1>1 DEF Kept
<1>2. ASSUME NEW j \in jobs, DispatchByChannelID(w, j), ~UNCHANGED alerts PROVE Kept
    <2>1. PICK i \in 1..Len(alerts), c \in Channels : i = j.alert /\ c = j.channel
        BY <1>2 DEF TypeOK, JobNamesRows, DispatchByChannelID
    <2>2. PICK row : row = [alerts[i] EXCEPT !.history = @ \cup {<<c, "suppressed">>}]
        OBVIOUS
    <2>3. alerts[i] \in AlertRows
        BY <1>0
    <2>4. row \in AlertRows
        BY <2>2, <2>3, DeliveryRow
    <2>5. /\ row.key = alerts[i].key /\ row.by = alerts[i].by
          /\ row.resolved = alerts[i].resolved /\ row.old = alerts[i].old
        BY <2>2, <2>3 DEF AlertRows
    <2>6. alerts' = [alerts EXCEPT ![i] = row]
        BY <1>2, <2>1, <2>2 DEF DispatchByChannelID
    <2> QED BY <2>4, <2>5, <2>6, KeptRow
<1>3. CASE MarkNotified(w) /\ ~UNCHANGED alerts
    <2>1. PICK i \in 1..Len(alerts) : i = worker[w].alert
        BY <1>0, <1>3 DEF WorkerNamesRows, MarkNotified, At
    <2>2. worker[w].enqueued \in BOOLEAN /\ alerts[i] \in AlertRows
        BY <1>0 DEF WorkerStates
    <2>3. PICK row : row = [alerts[i] EXCEPT !.notified = @ \/ worker[w].enqueued]
        OBVIOUS
    <2>4. row \in AlertRows
        BY <2>2, <2>3 DEF AlertRows
    <2>5. /\ row.key = alerts[i].key /\ row.by = alerts[i].by
          /\ row.resolved = alerts[i].resolved /\ row.old = alerts[i].old
        BY <2>2, <2>3 DEF AlertRows
    <2>6. alerts' = [alerts EXCEPT ![i] = row]
        BY <1>3, <2>1, <2>3 DEF MarkNotified
    <2> QED BY <2>4, <2>5, <2>6, KeptRow
<1>4. CASE Send(w) /\ ~UNCHANGED alerts
    <2>1. PICK i \in 1..Len(alerts), c \in Channels :
              i = worker[w].job.alert /\ c = worker[w].job.channel
        BY <1>0, <1>4 DEF WorkerNamesRows, JobNamesRows, Send, At
    <2>2. alerts[i] \in AlertRows
        BY <1>0
    <2>3. PICK row : row = [alerts[i] EXCEPT !.delivered[c] = @ + 1]
        OBVIOUS
    <2>4. row \in AlertRows
        BY <2>2, <2>3, DeliveryRow
    <2>5. /\ row.key = alerts[i].key /\ row.by = alerts[i].by
          /\ row.resolved = alerts[i].resolved /\ row.old = alerts[i].old
        BY <2>2, <2>3 DEF AlertRows
    <2>6. alerts' = [alerts EXCEPT ![i] = row]
        BY <1>4, <2>1, <2>3 DEF Send
    <2> QED BY <2>4, <2>5, <2>6, KeptRow
<1>5. CASE RecordHistory(w) /\ ~UNCHANGED alerts
    <2>1. PICK i \in 1..Len(alerts), c \in Channels, status \in {"sent", "failed"} :
              /\ i = worker[w].job.alert /\ c = worker[w].job.channel
              /\ status = worker[w].status
        BY <1>0, <1>5 DEF WorkerNamesRows, WorkerStates, JobNamesRows, RecordHistory, At
    <2>2. alerts[i] \in AlertRows
        BY <1>0
    <2>3. PICK row : row = [alerts[i] EXCEPT !.history = @ \cup {<<c, status>>}]
        OBVIOUS
    <2>4. row \in AlertRows
        BY <2>2, <2>3, DeliveryRow
    <2>5. /\ row.key = alerts[i].key /\ row.by = alerts[i].by
          /\ row.resolved = alerts[i].resolved /\ row.old = alerts[i].old
        BY <2>2, <2>3 DEF AlertRows
    <2>6. alerts' = [alerts EXCEPT ![i] = row]
        BY <1>5, <2>1, <2>3 DEF RecordHistory
    <2> QED BY <2>4, <2>5, <2>6, KeptRow
<1>6. CASE \/ \E j \in jobs : ScheduleAll(w, j) \/ ClaimTask(w, j) \/ DedupCheck(w, j)
           \/ CreateAndEnqueue(w) \/ CheckSite(w) \/ FireProbeAlert(w)
           \/ CompleteTask(w) \/ EnqueueNotify(w) \/ Crash(w)
    <2>1. UNCHANGED alerts
        BY <1>6 DEF ScheduleAll, ClaimTask, DedupCheck, CreateAndEnqueue, CheckSite,
                    FireProbeAlert, CompleteTask, EnqueueNotify, Crash
    <2> QED BY <1>1, <2>1
<1> QED BY <1>1, <1>2, <1>3, <1>4, <1>5, <1>6 DEF TakeJob, Step

(* Operators and time only resolve and age.                                 *)
LEMMA KeptOutside ==
    ASSUME TypeOK, ScheduleTick \/ SiteChanges \/ Operators \/ HourPasses
    PROVE  Kept
<1>0. alerts \in Seq(AlertRows) /\ Len(alerts) \in Nat
    BY DEF TypeOK
<1>1. CASE UNCHANGED alerts
    BY <1>1 DEF Kept
<1>2. ASSUME NEW i \in 1..Len(alerts), ResolveAlert(i) PROVE Kept
    <2>1. PICK row : row = [alerts[i] EXCEPT !.resolved = TRUE]
        OBVIOUS
    <2>2. alerts[i] \in AlertRows
        BY <1>0
    <2>3. /\ row \in AlertRows /\ row.key = alerts[i].key /\ row.by = alerts[i].by
          /\ row.resolved /\ row.old = alerts[i].old
        BY <2>1, <2>2 DEF AlertRows
    <2>4. alerts' = [alerts EXCEPT ![i] = row]
        BY <1>2, <2>1 DEF ResolveAlert
    <2> QED BY <2>3, <2>4, KeptRow
<1>3. CASE HourPasses
    <2>1. alerts' = [i \in 1..Len(alerts) |-> [alerts[i] EXCEPT !.old = TRUE]]
        BY <1>3 DEF HourPasses, Aged
    <2>2. Len(alerts') = Len(alerts)
        BY <1>0, <2>1
    <2>3. ASSUME NEW i \in 1..Len(alerts)
          PROVE  /\ alerts'[i].key = alerts[i].key /\ alerts'[i].by = alerts[i].by
                 /\ alerts'[i].resolved = alerts[i].resolved /\ alerts'[i].old
        <3>1. alerts'[i] = [alerts[i] EXCEPT !.old = TRUE] /\ alerts[i] \in AlertRows
            BY <1>0, <2>1
        <3> QED BY <3>1 DEF AlertRows
    <2> QED BY <2>2, <2>3 DEF Kept
<1> QED BY <1>1, <1>2, <1>3 DEF ScheduleTick, SiteChanges, Operators, UpdatePolicy,
                                UpdateChannel

(* The task of a goroutine that is about to insert is not replaced.         *)
LEMMA KeyStays ==
    ASSUME TypeOK, [Next]_vars, NEW u \in Workers, worker[u].pc = "insert"
    PROVE  KeyOf(worker[u].job.task) = Tier[tasks'[worker[u].job.task].policy]
<1>1. PICK s \in TaskIds : s = worker[u].job.task
    BY DEF TypeOK, WorkerNamesRows, JobNamesRows
<1>2. tasks \in [TaskIds -> TaskRows]
    BY DEF TypeOK
<1>3. tasks'[s].policy = tasks[s].policy
    <2>1. CASE UNCHANGED tasks
        BY <2>1
    <2>2. ASSUME NEW t \in TaskIds, NEW x,
                 \/ tasks' = [tasks EXCEPT ![t].status = x]
                 \/ tasks' = [tasks EXCEPT ![t].runs = x]
          PROVE  tasks'[s].policy = tasks[s].policy
        BY <1>2, <2>2 DEF TaskRows
    <2>3. ASSUME NEW w \in Workers, CreateAndEnqueue(w)
          PROVE  tasks'[s].policy = tasks[s].policy
        <3>1. PICK p \in worker[w].todo, t \in Free : tasks' = [tasks EXCEPT ![t] = NewTask(p)]
            BY <2>3 DEF CreateAndEnqueue
        <3>2. t # s
            BY <1>1 DEF Free
        <3> QED BY <1>2, <3>1, <3>2
    <2>4. ASSUME NEW w \in Workers, NEW j \in jobs, ClaimTask(w, j)
          PROVE  tasks'[s].policy = tasks[s].policy
        <3>1. j.task \in TaskIds
            BY <2>4 DEF ClaimTask, TypeOK, JobNamesRows
        <3> QED BY <2>1, <2>2, <2>4, <3>1 DEF ClaimTask
    <2>5. ASSUME NEW w \in Workers, CheckSite(w) \/ CompleteTask(w)
          PROVE  tasks'[s].policy = tasks[s].policy
        <3>1. worker[w].job.task \in TaskIds
            BY <2>5, ProbeNamesTask DEF CheckSite, CompleteTask, At, ProbePcs
        <3> QED BY <2>1, <2>2, <2>5, <3>1 DEF CheckSite, CompleteTask
    <2>6. ASSUME NEW w \in Workers,
                 \/ \E j \in jobs : \/ ScheduleAll(w, j) \/ DedupCheck(w, j)
                                    \/ DispatchByChannelID(w, j)
                 \/ FireProbeAlert(w) \/ InsertAlert(w) \/ EnqueueNotify(w)
                 \/ MarkNotified(w) \/ Send(w) \/ RecordHistory(w) \/ Crash(w)
          PROVE  UNCHANGED tasks
        BY <2>6 DEF ScheduleAll, DedupCheck, DispatchByChannelID, FireProbeAlert,
                    InsertAlert, EnqueueNotify, MarkNotified, Send, RecordHistory, Crash
    <2>7. CASE ScheduleTick \/ SiteChanges \/ Operators \/ HourPasses
        BY <2>1, <2>7 DEF ScheduleTick, SiteChanges, Operators, HourPasses,
                          UpdatePolicy, UpdateChannel, ResolveAlert
    <2>8. CASE UNCHANGED vars
        BY <2>1, <2>8 DEF vars
    <2> QED BY <2>1, <2>3, <2>4, <2>5, <2>6, <2>7, <2>8 DEF Next, TakeJob, Step
<1> QED BY <1>1, <1>3 DEF KeyOf

(* A step that keeps the rows and sends nobody new to the insert.           *)
LEMMA DedupFrame ==
    ASSUME TypeOK, DedupInv, [Next]_vars, Kept,
           \A u \in Workers : worker'[u] = worker[u] \/ worker'[u].pc # "insert"
    PROVE  DedupInv'
<1>1. DedupPerWorker'
    BY DEF DedupInv, DedupPerWorker, Kept, Suppresses, Open
<1>2. Unseen'
    <2> SUFFICES ASSUME NEW u \in Workers, worker'[u].pc = "insert",
                        NEW i \in 1..Len(alerts'),
                        Suppresses(alerts'[i], Tier[tasks'[worker'[u].job.task].policy])
                 PROVE  alerts'[i].by # u
        BY DEF Unseen, KeyOf
    <2>1. worker'[u] = worker[u] /\ worker[u].pc = "insert" /\ i \in 1..Len(alerts)
        BY DEF Kept
    <2>2. Suppresses(alerts'[i], KeyOf(worker[u].job.task))
        BY <2>1, KeyStays
    <2>3. Suppresses(alerts[i], KeyOf(worker[u].job.task))
        BY <2>1, <2>2 DEF Kept, Suppresses, Open
    <2>4. alerts[i].by # u
        BY <2>1, <2>3 DEF DedupInv, Unseen
    <2>5. alerts'[i].by = alerts[i].by
        BY <2>1 DEF Kept
    <2> QED BY <2>4, <2>5
<1> QED BY <1>1, <1>2 DEF DedupInv

(* A goroutine reaches the insert when nothing suppresses its key.          *)
LEMMA DedupCheckDedup ==
    ASSUME TypeOK, DedupInv, [Next]_vars, NEW w \in Workers, NEW j \in jobs,
           DedupCheck(w, j)
    PROVE  DedupInv'
<1>1. Kept /\ \A u \in Workers : u # w => worker'[u] = worker[u]
    BY KeptWorker, OthersStay DEF TakeJob
<1>2. CASE UNCHANGED worker
    BY <1>1, <1>2, DedupFrame
<1>3. CASE ~ExistsActiveDedupKey(alerts, KeyOf(j.task)) /\ Take(w, j, "insert", {})
    <2>1. DedupPerWorker'
        BY <1>1 DEF DedupInv, DedupPerWorker, Kept, Suppresses, Open
    <2>2. UNCHANGED <<tasks, alerts>>
        BY DEF DedupCheck
    <2>3. worker'[w].job = j
        BY <1>3 DEF Take, Handler, TypeOK
    <2>4. \A i \in 1..Len(alerts) : ~Suppresses(alerts[i], KeyOf(j.task))
        BY <1>3 DEF ExistsActiveDedupKey
    <2>5. Unseen'
        BY <1>1, <2>2, <2>3, <2>4 DEF DedupInv, Unseen, KeyOf
    <2> QED BY <2>1, <2>5 DEF DedupInv
<1> QED BY <1>2, <1>3 DEF DedupCheck

(* Its insert then adds a row by an author that has no other one.           *)
LEMMA InsertDedup ==
    ASSUME TypeOK, DedupInv, NEW w \in Workers, InsertAlert(w), alerts' # alerts
    PROVE  DedupInv'
<1>1. worker[w].pc = "insert" /\ UNCHANGED tasks
    BY DEF InsertAlert, At
<1>2. PICK key \in 1..3 : key = KeyOf(worker[w].job.task)
    BY <1>1, KeyType DEF TypeOK, WorkerNamesRows, JobNamesRows
<1>3. alerts' = Append(alerts, NewAlert(key, w))
    BY <1>2 DEF InsertAlert
<1>4. /\ Len(alerts) \in Nat /\ Len(alerts') = Len(alerts) + 1
      /\ \A i \in 1..Len(alerts) : alerts'[i] = alerts[i]
      /\ alerts'[Len(alerts) + 1] = NewAlert(key, w)
    BY <1>3, AppendAlert
<1>5. NewAlert(key, w).by = w /\ NewAlert(key, w).key = key
    BY DEF NewAlert
<1>6. \A i \in 1..Len(alerts) : Suppresses(alerts[i], key) => alerts[i].by # w
    BY <1>1, <1>2 DEF DedupInv, Unseen
<1>7. DedupPerWorker'
    <2> SUFFICES ASSUME NEW i \in 1..Len(alerts'), NEW k \in 1..Len(alerts'), i # k,
                        Suppresses(alerts'[i], alerts'[k].key),
                        Suppresses(alerts'[k], alerts'[i].key)
                 PROVE  alerts'[i].by # alerts'[k].by
        BY DEF DedupPerWorker
    <2>1. CASE i \in 1..Len(alerts) /\ k \in 1..Len(alerts)
        BY <1>4, <2>1 DEF DedupInv, DedupPerWorker
    <2>2. CASE i \in 1..Len(alerts) /\ k = Len(alerts) + 1
        BY <1>4, <1>5, <1>6, <2>2
    <2>3. CASE k \in 1..Len(alerts) /\ i = Len(alerts) + 1
        BY <1>4, <1>5, <1>6, <2>3
    <2> QED BY <1>4, <2>1, <2>2, <2>3
<1>8. worker'[w].pc # "insert" /\ \A u \in Workers : u # w => worker'[u] = worker[u]
    <2>1. ASSUME NEW j \in jobs PROVE ~ClaimTask(w, j) /\ ~DedupCheck(w, j)
        BY <1>1 DEF ClaimTask, DedupCheck, Ready, At
    <2>2. worker'[w] # worker[w]
        <3>1. PICK channels : worker' = [worker EXCEPT ![w].pc = "fanout",
                                            ![w].alert = Len(alerts) + 1,
                                            ![w].todo = channels]
            BY DEF InsertAlert
        <3>2. worker'[w].pc = "fanout"
            BY <3>1 DEF TypeOK, WorkerStates
        <3> QED BY <1>1, <3>2
    <2> QED BY <1>1, <2>1, <2>2, Moves, OthersStay DEF Step, ProbePcs
<1>9. Unseen'
    <2> SUFFICES ASSUME NEW u \in Workers, worker'[u].pc = "insert",
                        NEW i \in 1..Len(alerts'),
                        Suppresses(alerts'[i], Tier[tasks'[worker'[u].job.task].policy])
                 PROVE  alerts'[i].by # u
        BY DEF Unseen, KeyOf
    <2>1. u # w /\ worker'[u] = worker[u] /\ tasks' = tasks
        BY <1>1, <1>8
    <2>2. CASE i \in 1..Len(alerts)
        BY <1>4, <2>1, <2>2 DEF DedupInv, Unseen, KeyOf
    <2>3. CASE i = Len(alerts) + 1
        BY <1>4, <1>5, <2>1, <2>3
    <2> QED BY <1>4, <2>2, <2>3
<1> QED BY <1>7, <1>9 DEF DedupInv

(* Every step preserves DedupInv.                                           *)
LEMMA DedupNext == TypeOK /\ DedupInv /\ [Next]_vars => DedupInv'
<1> SUFFICES ASSUME TypeOK, DedupInv, [Next]_vars PROVE DedupInv'
    OBVIOUS
<1>1. CASE UNCHANGED vars
    BY <1>1 DEF vars, DedupInv, DedupPerWorker, Unseen, KeyOf
<1>2. CASE ScheduleTick \/ SiteChanges \/ Operators \/ HourPasses
    <2>1. UNCHANGED worker
        BY <1>2 DEF ScheduleTick, SiteChanges, Operators, HourPasses, UpdatePolicy,
                    UpdateChannel, ResolveAlert
    <2> QED BY <1>2, <2>1, KeptOutside, DedupFrame
<1>3. ASSUME NEW w \in Workers, (\E j \in jobs : TakeJob(w, j)) \/ Step(w) \/ Crash(w)
      PROVE  DedupInv'
    <2>1. CASE InsertAlert(w) /\ alerts' # alerts
        BY <2>1, InsertDedup
    <2>2. CASE \E j \in jobs : DedupCheck(w, j)
        BY <2>2, DedupCheckDedup
    <2>3. CASE ~(InsertAlert(w) /\ alerts' # alerts) /\ ~\E j \in jobs : DedupCheck(w, j)
        <3>1. Kept /\ \A u \in Workers : u # w => worker'[u] = worker[u]
            BY <1>3, <2>3, KeptWorker, OthersStay
        <3>2. worker'[w] = worker[w] \/ worker'[w].pc # "insert"
            <4>1. ASSUME NEW j \in jobs, ClaimTask(w, j)
                  PROVE  worker'[w] = worker[w] \/ worker'[w].pc = "check"
                BY <4>1 DEF ClaimTask, Take, Handler, TypeOK
            <4> QED BY <1>3, <2>3, <4>1, Moves DEF ProbePcs
        <3> QED BY <3>1, <3>2, DedupFrame
    <2> QED BY <2>1, <2>2, <2>3
<1> QED BY <1>1, <1>2, <1>3 DEF Next

(* However goroutines race through the alert engine, one of them has at     *)
(* most one alert open within an hour for a key.                            *)
THEOREM DedupByAuthor == Spec => []DedupPerWorker
<1>1. Init => DedupInv
    BY DEF Init, DedupInv, DedupPerWorker, Unseen, Idle, Handler
<1>2. DedupInv => DedupPerWorker
    BY DEF DedupInv
<1> QED BY <1>1, <1>2, DedupNext, TypeCorrect, PTL DEF Spec

-----------------------------------------------------------------------------
(* The inductive invariant behind ToldOnce: the duty to tell channel c of   *)
(* alert i is a token that is in one place at most, with the engine, in the *)
(* queue or with a sender, and who gives it out a second time pays for it   *)
(* with a fault.                                                            *)
Has(v, i, c) ==
    \/ v.pc = "fanout" /\ v.alert = i /\ c \in v.todo
    \/ v.pc \in {"send", "record"} /\ v.job.alert = i /\ v.job.channel = c

Untold(v, i, c) == Has(v, i, c) /\ v.pc # "record"

Queued(i, c) == {j \in jobs : j.kind = "notify" /\ j.alert = i /\ j.channel = c}

OneHolder(i, c) ==
    \A u, v \in Workers : Has(worker[u], i, c) /\ Has(worker[v], i, c) => u = v

OneJob(i, c) == \A j, k \in Queued(i, c) : j = k

JobOrHolder(i, c) == Queued(i, c) = {} \/ \A u \in Workers : ~Has(worker[u], i, c)

Unpaid(i, c) ==
    (Queued(i, c) # {} \/ \E u \in Workers : Untold(worker[u], i, c)) =>
        alerts[i].delivered[c] <= faults

Pair(i, c) ==
    /\ OneHolder(i, c)
    /\ OneJob(i, c)
    /\ JobOrHolder(i, c)
    /\ Unpaid(i, c)
    /\ alerts[i].delivered[c] <= 1 + faults

ToldInv == \A i \in 1..Len(alerts), c \in Channels : Pair(i, c)

(* What the steps below say of the counters.                                *)
Counts(i, c) ==
    /\ faults \in Nat /\ faults' \in Nat /\ faults <= faults'
    /\ alerts[i].delivered[c] \in Nat /\ alerts'[i].delivered[c] \in Nat

(* The token stays where it is or is dropped.                               *)
LEMMA PairFrame ==
    ASSUME NEW i, NEW c, Pair(i, c), Counts(i, c),
           alerts'[i].delivered[c] = alerts[i].delivered[c],
           \A u \in Workers : Has(worker'[u], i, c) => Has(worker[u], i, c),
           \A u \in Workers : Untold(worker'[u], i, c) => Untold(worker[u], i, c),
           \A k \in jobs' : k \in Queued(i, c)' => k \in Queued(i, c)
    PROVE  Pair(i, c)'
<1>0. Queued(i, c)' \subseteq Queued(i, c)
    BY DEF Queued
<1>1. OneHolder(i, c)' /\ OneJob(i, c)' /\ JobOrHolder(i, c)'
    BY <1>0 DEF Pair, OneHolder, OneJob, JobOrHolder
<1>2. Unpaid(i, c)'
    BY <1>0 DEF Pair, Unpaid, Counts
<1> QED BY <1>1, <1>2 DEF Pair, Counts

(* A goroutine that has it puts it into the queue.                          *)
LEMMA PairQueue ==
    ASSUME NEW i, NEW c, Pair(i, c), Counts(i, c), NEW w \in Workers, NEW x,
           alerts'[i].delivered[c] = alerts[i].delivered[c],
           alerts[i].delivered[c] <= faults',
           Has(worker[w], i, c), ~Has(worker'[w], i, c),
           \A u \in Workers : u # w => worker'[u] = worker[u],
           \A k \in jobs' : k \in Queued(i, c)' => k \in Queued(i, c) \/ k = x
    PROVE  Pair(i, c)'
<1>1. \A u \in Workers : ~Has(worker'[u], i, c)
    BY DEF Pair, OneHolder
<1>2. \A k \in Queued(i, c)' : k = x
    BY DEF Pair, JobOrHolder, Queued
<1>3. OneHolder(i, c)' /\ OneJob(i, c)' /\ JobOrHolder(i, c)'
    BY <1>1, <1>2 DEF OneHolder, OneJob, JobOrHolder
<1>4. Unpaid(i, c)' /\ alerts'[i].delivered[c] <= 1 + faults'
    BY DEF Unpaid, Counts
<1> QED BY <1>3, <1>4 DEF Pair

(* A goroutine takes it from the queue.                                     *)
LEMMA PairTake ==
    ASSUME NEW i, NEW c, Pair(i, c), Counts(i, c), NEW w \in Workers,
           NEW j \in Queued(i, c), jobs' = jobs \ {j},
           alerts'[i].delivered[c] = alerts[i].delivered[c],
           \A u \in Workers : u # w => worker'[u] = worker[u]
    PROVE  Pair(i, c)'
<1>1. \A u \in Workers : Has(worker'[u], i, c) => u = w
    BY DEF Pair, JobOrHolder
<1>2. Queued(i, c)' = {}
    BY DEF Pair, OneJob, Queued
<1>3. OneHolder(i, c)' /\ OneJob(i, c)' /\ JobOrHolder(i, c)'
    BY <1>1, <1>2 DEF OneHolder, OneJob, JobOrHolder
<1>4. alerts[i].delivered[c] <= faults
    BY DEF Pair, Unpaid
<1>5. Unpaid(i, c)' /\ alerts'[i].delivered[c] <= 1 + faults'
    BY <1>4 DEF Unpaid, Counts
<1> QED BY <1>3, <1>5 DEF Pair

(* A goroutine that has it tells the channel.                               *)
LEMMA PairSend ==
    ASSUME NEW i, NEW c, Pair(i, c), Counts(i, c), NEW w \in Workers,
           Untold(worker[w], i, c), ~Untold(worker'[w], i, c),
           alerts'[i].delivered[c] <= alerts[i].delivered[c] + 1,
           \A u \in Workers : u # w => worker'[u] = worker[u],
           UNCHANGED jobs
    PROVE  Pair(i, c)'
<1>0. Has(worker[w], i, c)
    BY DEF Untold
<1>1. \A u \in Workers : Has(worker'[u], i, c) => u = w
    BY <1>0 DEF Pair, OneHolder
<1>2. Queued(i, c)' = {}
    BY <1>0 DEF Pair, JobOrHolder, Queued
<1>3. OneHolder(i, c)' /\ OneJob(i, c)' /\ JobOrHolder(i, c)'
    BY <1>1, <1>2 DEF OneHolder, OneJob, JobOrHolder
<1>4. Unpaid(i, c)'
    BY <1>1, <1>2 DEF Unpaid, Untold
<1>5. alerts[i].delivered[c] <= faults
    BY DEF Pair, Unpaid
<1> QED BY <1>3, <1>4, <1>5 DEF Pair, Counts

(* Only the send counts a delivery.                                         *)
LEMMA DeliveredRow ==
    ASSUME TypeOK, NEW k \in 1..Len(alerts), NEW row \in AlertRows,
           row.delivered = alerts[k].delivered, alerts' = [alerts EXCEPT ![k] = row],
           NEW i \in 1..Len(alerts)
    PROVE  alerts'[i].delivered = alerts[i].delivered
BY RewriteAlert

(* A new entry of notification_history.                                     *)
LEMMA DeliveredHistory ==
    ASSUME TypeOK, NEW k \in 1..Len(alerts), NEW c \in Channels,
           NEW status \in {"sent", "failed", "suppressed"},
           alerts' = [alerts EXCEPT ![k].history = @ \cup {<<c, status>>}],
           NEW i \in 1..Len(alerts)
    PROVE  alerts'[i].delivered = alerts[i].delivered
<1>1. PICK row : row = [alerts[k] EXCEPT !.history = @ \cup {<<c, status>>}]
    OBVIOUS
<1>2. alerts[k] \in AlertRows
    BY DEF TypeOK
<1>3. row \in AlertRows
    BY <1>1, <1>2, DeliveryRow
<1>4. row.delivered = alerts[k].delivered
    BY <1>1, <1>2 DEF AlertRows
<1>5. alerts' = [alerts EXCEPT ![k] = row]
    BY <1>1
<1> QED BY <1>3, <1>4, <1>5, DeliveredRow

(* The steps of a goroutine.                                                *)
LEMMA DeliveredWorker ==
    ASSUME TypeOK, NEW w \in Workers, ~Send(w),
           (\E j \in jobs : TakeJob(w, j)) \/ Step(w) \/ Crash(w),
           NEW i \in 1..Len(alerts)
    PROVE  alerts'[i].delivered = alerts[i].delivered
<1>0. /\ alerts \in Seq(AlertRows) /\ Len(alerts) \in Nat
      /\ worker[w] \in WorkerStates /\ WorkerNamesRows(worker[w])
    BY DEF TypeOK
<1>1. CASE UNCHANGED alerts
    BY <1>1
<1>2. ASSUME NEW j \in jobs, DispatchByChannelID(w, j), ~UNCHANGED alerts
      PROVE  alerts'[i].delivered = alerts[i].delivered
    <2>1. PICK k \in 1..Len(alerts), c \in Channels : k = j.alert /\ c = j.channel
        BY <1>2 DEF TypeOK, JobNamesRows, DispatchByChannelID
    <2>2. alerts' = [alerts EXCEPT ![k].history = @ \cup {<<c, "suppressed">>}]
        BY <1>2, <2>1 DEF DispatchByChannelID
    <2> QED BY <2>2, DeliveredHistory
<1>3. CASE MarkNotified(w) /\ ~UNCHANGED alerts
    <2>1. PICK k \in 1..Len(alerts) : k = worker[w].alert
        BY <1>0, <1>3 DEF WorkerNamesRows, MarkNotified, At
    <2>2. worker[w].enqueued \in BOOLEAN /\ alerts[k] \in AlertRows
        BY <1>0 DEF WorkerStates
    <2>3. PICK row : row = [alerts[k] EXCEPT !.notified = @ \/ worker[w].enqueued]
        OBVIOUS
    <2>4. row \in AlertRows /\ row.delivered = alerts[k].delivered
        BY <2>2, <2>3 DEF AlertRows
    <2>5. alerts' = [alerts EXCEPT ![k] = row]
        BY <1>3, <2>1, <2>3 DEF MarkNotified
    <2> QED BY <2>4, <2>5, DeliveredRow
<1>4. CASE RecordHistory(w) /\ ~UNCHANGED alerts
    <2>1. PICK k \in 1..Len(alerts), c \in Channels, status \in {"sent", "failed"} :
              /\ k = worker[w].job.alert /\ c = worker[w].job.channel
              /\ status = worker[w].status
        BY <1>0, <1>4 DEF WorkerNamesRows, WorkerStates, JobNamesRows, RecordHistory, At
    <2>2. alerts' = [alerts EXCEPT ![k].history = @ \cup {<<c, status>>}]
        BY <1>4, <2>1 DEF RecordHistory
    <2> QED BY <2>2, DeliveredHistory
<1>5. CASE InsertAlert(w) /\ ~UNCHANGED alerts
    <2>1. PICK key \in 1..3 : key = KeyOf(worker[w].job.task)
        BY <1>0, <1>5, KeyType DEF WorkerNamesRows, JobNamesRows, InsertAlert, At
    <2>2. alerts' = Append(alerts, NewAlert(key, w))
        BY <1>5, <2>1 DEF InsertAlert
    <2> QED BY <2>2, AppendAlert
<1>6. CASE \/ \E j \in jobs : ScheduleAll(w, j) \/ ClaimTask(w, j) \/ DedupCheck(w, j)
           \/ CreateAndEnqueue(w) \/ CheckSite(w) \/ FireProbeAlert(w)
           \/ CompleteTask(w) \/ EnqueueNotify(w) \/ Crash(w)
    <2>1. UNCHANGED alerts
        BY <1>6 DEF ScheduleAll, ClaimTask, DedupCheck, CreateAndEnqueue, CheckSite,
                    FireProbeAlert, CompleteTask, EnqueueNotify, Crash
    <2> QED BY <1>1, <2>1
<1> QED BY <1>1, <1>2, <1>3, <1>4, <1>5, <1>6 DEF TakeJob, Step

(* The steps outside of the worker.                                         *)
LEMMA DeliveredOutside ==
    ASSUME TypeOK, ScheduleTick \/ SiteChanges \/ Operators \/ HourPasses,
           NEW i \in 1..Len(alerts)
    PROVE  alerts'[i].delivered = alerts[i].delivered
<1>0. alerts \in Seq(AlertRows) /\ alerts[i] \in AlertRows
    BY DEF TypeOK
<1>1. CASE UNCHANGED alerts
    BY <1>1
<1>2. ASSUME NEW k \in 1..Len(alerts), ResolveAlert(k)
      PROVE  alerts'[i].delivered = alerts[i].delivered
    <2>1. PICK row : row = [alerts[k] EXCEPT !.resolved = TRUE]
        OBVIOUS
    <2>2. alerts[k] \in AlertRows
        BY <1>0
    <2>3. row \in AlertRows /\ row.delivered = alerts[k].delivered
        BY <2>1, <2>2 DEF AlertRows
    <2>4. alerts' = [alerts EXCEPT ![k] = row]
        BY <1>2, <2>1 DEF ResolveAlert
    <2> QED BY <2>3, <2>4, DeliveredRow
<1>3. CASE HourPasses
    <2>1. alerts'[i] = [alerts[i] EXCEPT !.old = TRUE]
        BY <1>3 DEF HourPasses, Aged
    <2> QED BY <1>0, <2>1 DEF AlertRows
<1> QED BY <1>1, <1>2, <1>3 DEF ScheduleTick, SiteChanges, Operators, UpdatePolicy,
                                UpdateChannel

(* Rows are never deleted and faults never forgotten.                       *)
LEMMA CountsStep ==
    ASSUME TypeOK, TypeOK', Next, NEW i \in 1..Len(alerts), NEW c \in Channels
    PROVE  Counts(i, c) /\ i \in 1..Len(alerts')
<1>1. faults' = faults \/ faults' = faults + 1
    <2>1. CASE ScheduleTick \/ SiteChanges \/ Operators \/ HourPasses
        BY <2>1 DEF ScheduleTick, SiteChanges, Operators, HourPasses, UpdatePolicy,
                    UpdateChannel, ResolveAlert
    <2>2. ASSUME NEW w \in Workers, NEW j \in jobs, TakeJob(w, j)
          PROVE  faults' = faults \/ faults' = faults + 1
        BY <2>2 DEF TakeJob, ScheduleAll, ClaimTask, DedupCheck, DispatchByChannelID,
                    Fault, NoFault
    <2>3. ASSUME NEW w \in Workers, Step(w) \/ Crash(w)
          PROVE  faults' = faults \/ faults' = faults + 1
        BY <2>3 DEF Step, CreateAndEnqueue, CheckSite, FireProbeAlert, CompleteTask,
                    InsertAlert, EnqueueNotify, MarkNotified, Send, RecordHistory,
                    Crash, Fault, NoFault
    <2> QED BY <2>1, <2>2, <2>3 DEF Next
<1>2. i \in 1..Len(alerts')
    <2>1. CASE ScheduleTick \/ SiteChanges \/ Operators \/ HourPasses
        BY <2>1, KeptOutside DEF Kept
    <2>2. ASSUME NEW w \in Workers, (\E j \in jobs : TakeJob(w, j)) \/ Step(w) \/ Crash(w)
          PROVE  i \in 1..Len(alerts')
        <3>1. CASE InsertAlert(w) /\ alerts' # alerts
            <4>1. PICK key \in 1..3 : key = KeyOf(worker[w].job.task)
                BY <3>1, KeyType DEF TypeOK, WorkerNamesRows, JobNamesRows, InsertAlert, At
            <4>2. alerts' = Append(alerts, NewAlert(key, w))
                BY <3>1, <4>1 DEF InsertAlert
            <4> QED BY <4>2, AppendAlert
        <3> QED BY <2>2, <3>1, KeptWorker DEF Kept
    <2> QED BY <2>1, <2>2 DEF Next
<1>3. alerts[i] \in AlertRows /\ alerts'[i] \in AlertRows
    BY <1>2 DEF TypeOK
<1>4. alerts[i].delivered[c] \in Nat /\ alerts'[i].delivered[c] \in Nat
    BY <1>3 DEF AlertRows
<1> QED BY <1>1, <1>2, <1>4 DEF Counts, TypeOK

(* The steps that are not about a delivery leave the tokens alone.          *)
LEMMA QuietTold ==
    ASSUME TypeOK, NEW w \in Workers, NEW i \in 1..Len(alerts), NEW c \in Channels,
           Pair(i, c), Counts(i, c),
           \A u \in Workers : u # w => worker'[u] = worker[u],
           alerts'[i].delivered = alerts[i].delivered,
           worker'[w] = worker[w] \/ ~Has(worker'[w], i, c),
           \A k \in jobs' : k \in jobs \/ k.kind # "notify"
    PROVE  Pair(i, c)'
<1>1. \A k \in jobs' : k \in Queued(i, c)' => k \in Queued(i, c)
    BY DEF Queued
<1>2. \A u \in Workers : Has(worker'[u], i, c) => Has(worker[u], i, c)
    OBVIOUS
<1>3. \A u \in Workers : Untold(worker'[u], i, c) => Untold(worker[u], i, c)
    BY DEF Untold
<1> QED BY <1>1, <1>2, <1>3, PairFrame

(* A retried job is about the same delivery.                                *)
LEMMA AgainSame ==
    ASSUME NEW j \in Jobs
    PROVE  \A k \in Again(j) :
               k.kind = j.kind /\ k.alert = j.alert /\ k.channel = j.channel
BY DEF Again, Jobs

(* Scheduling, probing and the dedup check.                                 *)
LEMMA ProbeTold ==
    ASSUME TypeOK, NEW w \in Workers, NEW i \in 1..Len(alerts), NEW c \in Channels,
           Pair(i, c), Counts(i, c),
           \/ \E j \in jobs : ScheduleAll(w, j) \/ ClaimTask(w, j) \/ DedupCheck(w, j)
           \/ CreateAndEnqueue(w) \/ CheckSite(w) \/ FireProbeAlert(w)
           \/ CompleteTask(w)
    PROVE  Pair(i, c)'
<1>1. \A u \in Workers : u # w => worker'[u] = worker[u]
    BY OthersStay DEF TakeJob, Step
<1>2. alerts'[i].delivered = alerts[i].delivered
    BY DEF ScheduleAll, ClaimTask, DedupCheck, CreateAndEnqueue, CheckSite,
           FireProbeAlert, CompleteTask
<1>3. worker'[w] = worker[w] \/ worker'[w].pc \notin {"fanout", "send", "record"}
    <2>1. ASSUME NEW j \in jobs, ScheduleAll(w, j) \/ ClaimTask(w, j) \/ DedupCheck(w, j)
          PROVE  worker'[w] = worker[w] \/ worker'[w].pc \notin {"fanout", "send", "record"}
        BY <2>1 DEF ScheduleAll, ClaimTask, DedupCheck, Take, Handler, TypeOK
    <2>2. CASE CreateAndEnqueue(w)
        BY <2>2 DEF CreateAndEnqueue, At, Done, Idle, Handler, WorkerStates, TypeOK
    <2>3. CASE CheckSite(w) \/ FireProbeAlert(w) \/ CompleteTask(w)
        BY <2>3 DEF CheckSite, FireProbeAlert, CompleteTask, Goto, ReturnError, Done,
                    Idle, Handler, WorkerStates, TypeOK
    <2> QED BY <2>1, <2>2, <2>3
<1>4. worker'[w] = worker[w] \/ ~Has(worker'[w], i, c)
    BY <1>3 DEF Has
<1>5. \A k \in jobs' : k \in jobs \/ k.kind # "notify"
    <2>1. ASSUME NEW j \in jobs, ScheduleAll(w, j) \/ ClaimTask(w, j) \/ DedupCheck(w, j)
          PROVE  \A k \in jobs' : k \in jobs \/ k.kind # "notify"
        <3>1. j.kind # "notify" /\ jobs' \subseteq jobs \cup Again(j) /\ j \in Jobs
            BY <2>1 DEF ScheduleAll, ClaimTask, DedupCheck, TypeOK
        <3> QED BY <3>1, AgainSame
    <2>2. CASE CreateAndEnqueue(w) \/ FireProbeAlert(w)
        BY <2>2 DEF CreateAndEnqueue, FireProbeAlert, Enqueue, Job
    <2>3. CASE CheckSite(w)
        BY <2>3 DEF CheckSite
    <2>4. CASE CompleteTask(w)
        <3>1. worker[w].job \in Jobs /\ worker[w].job.kind = "probe"
            BY <2>4 DEF CompleteTask, At, TypeOK, WorkerNamesRows, WorkerStates
        <3>2. jobs' \subseteq jobs \cup Again(worker[w].job)
            BY <2>4 DEF CompleteTask, ReturnError
        <3> QED BY <3>1, <3>2, AgainSame
    <2> QED BY <2>1, <2>2, <2>3, <2>4
<1> QED BY <1>1, <1>2, <1>4, <1>5, QuietTold

(* A handler is lost or returns an error: if it had the token, the token is *)
(* back in the queue, at the price of a fault.                              *)
LEMMA ErrorTold ==
    ASSUME TypeOK, NEW w \in Workers, NEW i \in 1..Len(alerts), NEW c \in Channels,
           Pair(i, c), Counts(i, c), ReturnError(w), ~At(w, "idle"),
           UNCHANGED alerts, faults' = faults + 1,
           \A u \in Workers : u # w => worker'[u] = worker[u]
    PROVE  Pair(i, c)'
<1>1. worker[w] \in WorkerStates /\ WorkerNamesRows(worker[w]) /\ worker[w].job \in Jobs
    BY DEF TypeOK, WorkerStates
<1>2. jobs' = jobs \cup Again(worker[w].job) /\ worker'[w].pc = "idle"
    BY DEF ReturnError, Done, Idle, Handler, TypeOK
<1>3. ~Has(worker'[w], i, c)
    BY <1>2 DEF Has
<1>4. \A k \in Again(worker[w].job) :
          /\ k.kind = worker[w].job.kind /\ k.alert = worker[w].job.alert
          /\ k.channel = worker[w].job.channel
    BY <1>1, AgainSame
<1>5. CASE worker[w].pc \notin {"send", "record"}
    <2>1. worker[w].job.kind # "notify"
        BY <1>1, <1>5 DEF WorkerNamesRows, WorkerStates, Pcs, At
    <2> QED BY <1>2, <1>3, <1>4, <2>1, QuietTold
<1>6. CASE worker[w].pc \in {"send", "record"} /\ ~Has(worker[w], i, c)
    <2>1. worker[w].job.alert # i \/ worker[w].job.channel # c
        BY <1>6 DEF Has
    <2>2. \A k \in jobs' : k \in Queued(i, c)' => k \in Queued(i, c)
        BY <1>2, <1>4, <2>1 DEF Queued
    <2>3. \A u \in Workers : Has(worker'[u], i, c) => Has(worker[u], i, c)
        BY <1>3
    <2>4. \A u \in Workers : Untold(worker'[u], i, c) => Untold(worker[u], i, c)
        BY <1>3 DEF Untold
    <2> QED BY <2>2, <2>3, <2>4, PairFrame
<1>7. CASE Has(worker[w], i, c)
    <2>1. PICK x : \A k \in Again(worker[w].job) : k = x
        BY DEF Again
    <2>2. \A k \in jobs' : k \in Queued(i, c)' => k \in Queued(i, c) \/ k = x
        BY <1>2, <2>1 DEF Queued
    <2>3. alerts[i].delivered[c] <= faults'
        BY DEF Pair, Counts
    <2> QED BY <1>3, <1>7, <2>2, <2>3, PairQueue
<1> QED BY <1>5, <1>6, <1>7

(* The insert: rows that exist are not concerned.                           *)
LEMMA InsertTold ==
    ASSUME TypeOK, NEW w \in Workers, NEW i \in 1..Len(alerts), NEW c \in Channels,
           Pair(i, c), Counts(i, c), InsertAlert(w)
    PROVE  Pair(i, c)'
<1>1. \A u \in Workers : u # w => worker'[u] = worker[u]
    BY OthersStay DEF Step
<1>2. CASE ReturnError(w) /\ Fault /\ UNCHANGED alerts
    BY <1>1, <1>2, ErrorTold DEF InsertAlert, At, Fault
<1>3. ASSUME NEW channels,
             worker' = [worker EXCEPT ![w].pc = "fanout",
                                      ![w].alert = Len(alerts) + 1,
                                      ![w].todo = channels],
             UNCHANGED jobs
      PROVE  Pair(i, c)'
    <2>1. worker'[w].pc = "fanout" /\ worker'[w].alert = Len(alerts) + 1
        BY <1>3 DEF TypeOK, WorkerStates
    <2>2. Len(alerts) \in Nat
        BY DEF TypeOK
    <2>3. worker'[w].alert # i
        BY <2>1, <2>2
    <2>4. ~Has(worker'[w], i, c)
        BY <2>1, <2>3 DEF Has
    <2>5. alerts'[i].delivered = alerts[i].delivered
        <3>1. ~Send(w)
            BY DEF InsertAlert, Send, At
        <3> QED BY <3>1, DeliveredWorker DEF Step
    <2> QED BY <1>1, <1>3, <2>4, <2>5, QuietTold
<1> QED BY <1>2, <1>3 DEF InsertAlert

(* The new row: nobody has named it before, and nobody has heard of it.     *)
LEMMA NewTold ==
    ASSUME TypeOK, NEW w \in Workers, InsertAlert(w), alerts' # alerts,
           NEW n, n = Len(alerts) + 1, NEW c \in Channels
    PROVE  Pair(n, c)' /\ Len(alerts') = n
<1>1. \A u \in Workers : u # w => worker'[u] = worker[u]
    BY OthersStay DEF Step
<1>2. PICK key \in 1..3 : key = KeyOf(worker[w].job.task)
    BY KeyType DEF TypeOK, WorkerNamesRows, JobNamesRows, InsertAlert, At
<1>3. alerts' = Append(alerts, NewAlert(key, w)) /\ UNCHANGED jobs
    BY <1>2 DEF InsertAlert
<1>4. n \in Nat /\ n \notin 1..Len(alerts)
    BY DEF TypeOK
<1>5. Len(alerts') = n /\ alerts'[n] = NewAlert(key, w)
    BY <1>3, <1>4, AppendAlert
<1>6. alerts'[n].delivered[c] = 0
    BY <1>5 DEF NewAlert
<1>7. Queued(n, c)' = {}
    BY <1>3, <1>4 DEF Queued, TypeOK, JobNamesRows
<1>8. \A u \in Workers : ~Has(worker[u], n, c)
    BY <1>4 DEF Has, TypeOK, WorkerNamesRows, JobNamesRows
<1>9. OneHolder(n, c)' /\ OneJob(n, c)' /\ JobOrHolder(n, c)'
    BY <1>1, <1>7, <1>8 DEF OneHolder, OneJob, JobOrHolder
<1>10. faults \in Nat /\ faults' \in Nat
    BY DEF TypeOK, InsertAlert, NoFault, Fault
<1>11. Unpaid(n, c)' /\ alerts'[n].delivered[c] <= 1 + faults'
    BY <1>6, <1>10 DEF Unpaid
<1>12. Pair(n, c)'
    BY <1>9, <1>11 DEF Pair
<1> QED BY <1>4, <1>5, <1>12

(* The fan-out turns one token into a job, or drops it.                     *)
LEMMA EnqueueTold ==
    ASSUME TypeOK, NEW w \in Workers, NEW i \in 1..Len(alerts), NEW c \in Channels,
           Pair(i, c), Counts(i, c), EnqueueNotify(w)
    PROVE  Pair(i, c)'
<1>1. \A u \in Workers : u # w => worker'[u] = worker[u]
    BY OthersStay DEF Step
<1>2. worker[w].pc = "fanout" /\ UNCHANGED alerts
    BY DEF EnqueueNotify, At
<1>3. PICK d \in worker[w].todo :
          \/ /\ jobs' = jobs \cup {Job("notify", 0, worker[w].alert, d)}
             /\ worker' = [worker EXCEPT ![w].todo = @ \ {d}, ![w].enqueued = TRUE]
          \/ /\ worker' = [worker EXCEPT ![w].todo = @ \ {d}]
             /\ UNCHANGED jobs
    BY DEF EnqueueNotify, Enqueue
<1>4. /\ worker'[w].pc = "fanout" /\ worker'[w].alert = worker[w].alert
      /\ worker'[w].todo = worker[w].todo \ {d}
    BY <1>2, <1>3 DEF TypeOK, WorkerStates
<1>5. Has(worker'[w], i, c) => Has(worker[w], i, c)
    BY <1>2, <1>4 DEF Has
<1>6. PICK x : x = Job("notify", 0, worker[w].alert, d)
    OBVIOUS
<1>7. x.alert = worker[w].alert /\ x.channel = d
    BY <1>6 DEF Job
<1>8. CASE worker[w].alert = i /\ d = c
    <2>1. Has(worker[w], i, c) /\ ~Has(worker'[w], i, c) /\ Untold(worker[w], i, c)
        BY <1>2, <1>4, <1>8 DEF Has, Untold
    <2>2. \A k \in jobs' : k \in Queued(i, c)' => k \in Queued(i, c) \/ k = x
        BY <1>3, <1>6 DEF Queued
    <2>3. alerts[i].delivered[c] <= faults
        BY <2>1 DEF Pair, Unpaid
    <2>4. alerts[i].delivered[c] <= faults'
        BY <2>3 DEF Counts
    <2> QED BY <1>1, <1>2, <2>1, <2>2, <2>4, PairQueue
<1>9. CASE worker[w].alert # i \/ d # c
    <2>1. \A k \in jobs' : k \in Queued(i, c)' => k \in Queued(i, c)
        BY <1>3, <1>6, <1>7, <1>9 DEF Queued
    <2>2. \A u \in Workers : Has(worker'[u], i, c) => Has(worker[u], i, c)
        BY <1>1, <1>5
    <2>3. \A u \in Workers : Untold(worker'[u], i, c) => Untold(worker[u], i, c)
        BY <1>1, <1>2, <1>5 DEF Untold
    <2> QED BY <1>2, <2>1, <2>2, <2>3, PairFrame
<1> QED BY <1>8, <1>9

(* What follows the fan-out and the send drops what the goroutine had.      *)
LEMMA EndTold ==
    ASSUME TypeOK, NEW w \in Workers, NEW i \in 1..Len(alerts), NEW c \in Channels,
           Pair(i, c), Counts(i, c), MarkNotified(w) \/ RecordHistory(w)
    PROVE  Pair(i, c)'
<1>1. \A u \in Workers : u # w => worker'[u] = worker[u]
    BY OthersStay DEF Step
<1>2. worker'[w].pc = "idle" /\ UNCHANGED jobs
    BY DEF MarkNotified, RecordHistory, Done, Idle, Handler, TypeOK
<1>3. ~Has(worker'[w], i, c)
    BY <1>2 DEF Has
<1>4. ~Send(w)
    BY DEF Send, MarkNotified, RecordHistory, At
<1>5. alerts'[i].delivered = alerts[i].delivered
    BY <1>4, DeliveredWorker DEF Step
<1> QED BY <1>1, <1>2, <1>3, <1>5, QuietTold

(* The dispatcher takes a job from the queue.                               *)
LEMMA DispatchTold ==
    ASSUME TypeOK, NEW w \in Workers, NEW i \in 1..Len(alerts), NEW c \in Channels,
           Pair(i, c), Counts(i, c), NEW j \in jobs, DispatchByChannelID(w, j)
    PROVE  Pair(i, c)'
<1>1. \A u \in Workers : u # w => worker'[u] = worker[u]
    BY OthersStay DEF TakeJob
<1>2. jobs' = jobs \ {j} /\ j.kind = "notify" /\ ~Send(w)
    BY DEF DispatchByChannelID, Ready, Send, At
<1>3. alerts'[i].delivered = alerts[i].delivered
    BY <1>2, DeliveredWorker DEF TakeJob
<1>4. CASE UNCHANGED worker
    BY <1>2, <1>3, <1>4, QuietTold
<1>5. CASE Take(w, j, "send", {})
    <2>1. worker'[w].pc = "send" /\ worker'[w].job = j
        BY <1>5 DEF Take, Handler, TypeOK
    <2>2. CASE j.alert = i /\ j.channel = c
        <3>1. j \in Queued(i, c)
            BY <1>2, <2>2 DEF Queued
        <3> QED BY <1>1, <1>2, <1>3, <3>1, PairTake
    <2>3. CASE j.alert # i \/ j.channel # c
        <3>1. ~Has(worker'[w], i, c)
            BY <2>1, <2>3 DEF Has
        <3> QED BY <1>1, <1>2, <1>3, <3>1, QuietTold
    <2> QED BY <2>2, <2>3
<1> QED BY <1>4, <1>5 DEF DispatchByChannelID

(* The send.                                                                *)
LEMMA SendTold ==
    ASSUME TypeOK, NEW w \in Workers, NEW i \in 1..Len(alerts), NEW c \in Channels,
           Pair(i, c), Counts(i, c), Send(w)
    PROVE  Pair(i, c)'
<1>1. \A u \in Workers : u # w => worker'[u] = worker[u]
    BY OthersStay DEF Step
<1>2. worker[w].pc = "send" /\ UNCHANGED jobs
    BY DEF Send, At
<1>3. worker'[w].pc = "record" /\ worker'[w].job = worker[w].job
    BY DEF Send, TypeOK, WorkerStates
<1>4. PICK k \in 1..Len(alerts), d \in Channels :
          k = worker[w].job.alert /\ d = worker[w].job.channel
    BY <1>2 DEF TypeOK, WorkerNamesRows, JobNamesRows
<1>5. ASSUME NEW e \in Channels
      PROVE  alerts'[i].delivered[e] =
                 IF alerts' # alerts /\ i = k /\ e = d
                 THEN alerts[i].delivered[e] + 1 ELSE alerts[i].delivered[e]
    <2>1. CASE UNCHANGED alerts
        BY <2>1
    <2>2. CASE alerts' # alerts
        <3>1. alerts' = [alerts EXCEPT ![k].delivered[d] = @ + 1]
            BY <1>4, <2>2 DEF Send
        <3>2. PICK row : row = [alerts[k] EXCEPT !.delivered[d] = @ + 1]
            OBVIOUS
        <3>3. alerts[k] \in AlertRows
            BY DEF TypeOK
        <3>4. row \in AlertRows
            BY <3>2, <3>3, DeliveryRow
        <3>5. row.delivered = [alerts[k].delivered EXCEPT ![d] = @ + 1]
            BY <3>2, <3>3 DEF AlertRows
        <3>6. row.delivered[e] = IF e = d THEN alerts[k].delivered[e] + 1
                                         ELSE alerts[k].delivered[e]
            BY <3>3, <3>5 DEF AlertRows
        <3>7. alerts' = [alerts EXCEPT ![k] = row]
            BY <3>1, <3>2
        <3>8. alerts'[i] = IF i = k THEN row ELSE alerts[i]
            BY <3>4, <3>7, RewriteAlert
        <3> QED BY <2>2, <3>6, <3>8
    <2> QED BY <2>1, <2>2
<1>6. CASE k = i /\ d = c
    <2>1. Untold(worker[w], i, c)
        BY <1>2, <1>4, <1>6 DEF Untold, Has
    <2>2. ~Untold(worker'[w], i, c)
        BY <1>3 DEF Untold
    <2>3. alerts'[i].delivered[c] <= alerts[i].delivered[c] + 1
        BY <1>5 DEF Counts
    <2> QED BY <1>1, <1>2, <2>1, <2>2, <2>3, PairSend
<1>7. CASE k # i \/ d # c
    <2>1. alerts'[i].delivered[c] = alerts[i].delivered[c]
        BY <1>5, <1>7
    <2>2. ~Has(worker'[w], i, c)
        BY <1>3, <1>4, <1>7 DEF Has
    <2>3. \A u \in Workers : Has(worker'[u], i, c) => Has(worker[u], i, c)
        BY <1>1, <2>2
    <2>4. \A u \in Workers : Untold(worker'[u], i, c) => Untold(worker[u], i, c)
        BY <1>1, <2>2 DEF Untold
    <2>5. \A x \in jobs' : x \in Queued(i, c)' => x \in Queued(i, c)
        BY <1>2 DEF Queued
    <2> QED BY <2>1, <2>3, <2>4, <2>5, PairFrame
<1> QED BY <1>6, <1>7

(* Every step preserves ToldInv.                                            *)
LEMMA ToldNext == TypeOK /\ TypeOK' /\ ToldInv /\ [Next]_vars => ToldInv'
<1> SUFFICES ASSUME TypeOK, TypeOK', ToldInv, [Next]_vars PROVE ToldInv'
    OBVIOUS
<1>1. CASE UNCHANGED vars
    BY <1>1 DEF vars, ToldInv, Pair, OneHolder, OneJob, JobOrHolder, Unpaid, Queued
<1>2. ASSUME Next, NEW i \in 1..Len(alerts), NEW c \in Channels PROVE Pair(i, c)'
    <2>1. Pair(i, c) /\ Counts(i, c)
        BY <1>2, CountsStep DEF ToldInv
    <2>2. CASE ScheduleTick \/ SiteChanges \/ Operators \/ HourPasses
        <3>1. UNCHANGED worker
            BY <2>2 DEF ScheduleTick, SiteChanges, Operators, HourPasses, UpdatePolicy,
                        UpdateChannel, ResolveAlert
        <3>2. \A k \in jobs' : k \in jobs \/ k.kind # "notify"
            BY <2>2 DEF ScheduleTick, SiteChanges, Operators, HourPasses, UpdatePolicy,
                        UpdateChannel, ResolveAlert, Enqueue, Job
        <3>3. alerts'[i].delivered = alerts[i].delivered
            BY <2>2, DeliveredOutside
        <3>4. \A k \in jobs' : k \in Queued(i, c)' => k \in Queued(i, c)
            BY <3>2 DEF Queued
        <3> QED BY <2>1, <3>1, <3>3, <3>4, PairFrame
    <2>3. ASSUME NEW w \in Workers, NEW j \in jobs, TakeJob(w, j) PROVE Pair(i, c)'
        BY <2>1, <2>3, ProbeTold, DispatchTold DEF TakeJob
    <2>4. ASSUME NEW w \in Workers, Step(w) PROVE Pair(i, c)'
        BY <2>1, <2>4, ProbeTold, InsertTold, EnqueueTold, EndTold, SendTold DEF Step
    <2>5. ASSUME NEW w \in Workers, Crash(w) PROVE Pair(i, c)'
        <3>1. /\ ReturnError(w) /\ ~At(w, "idle") /\ UNCHANGED alerts
              /\ faults' = faults + 1
            BY <2>5 DEF Crash, Fault
        <3> QED BY <2>1, <2>5, <3>1, OthersStay, ErrorTold
    <2> QED BY <1>2, <2>2, <2>3, <2>4, <2>5 DEF Next
<1>3. ASSUME Next, NEW i \in 1..Len(alerts'), i \notin 1..Len(alerts), NEW c \in Channels
      PROVE  Pair(i, c)'
    <2>0. Len(alerts) \in Nat /\ Len(alerts') \in Nat
        BY DEF TypeOK
    <2>1. ~Kept
        BY <1>3 DEF Kept
    <2>2. PICK w \in Workers : InsertAlert(w) /\ alerts' # alerts
        BY <1>3, <2>1, KeptWorker, KeptOutside DEF Next
    <2>3. PICK n \in Nat : n = Len(alerts) + 1
        BY <2>0
    <2>4. Pair(n, c)' /\ Len(alerts') = n
        BY <2>2, <2>3, NewTold
    <2>5. i = n
        BY <1>3, <2>0, <2>3, <2>4
    <2> QED BY <2>4, <2>5
<1> QED BY <1>1, <1>2, <1>3 DEF ToldInv

(* A channel hears of an alert at most once more than calls have failed,    *)
(* whatever is retried, lost or sent at the same time.                      *)
THEOREM ToldAtMostOnce == Spec => []ToldOnce
<1>1. Init => ToldInv
    BY DEF Init, ToldInv
<1>2. ToldInv => ToldOnce
    BY DEF ToldInv, Pair, ToldOnce
<1> QED BY <1>1, <1>2, ToldNext, TypeCorrect, PTL DEF Spec

=============================================================================
