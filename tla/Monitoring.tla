----------------------------- MODULE Monitoring -----------------------------
(***************************************************************************)
(* From a probe of a site to a message on a channel: the scheduler creates *)
(* probe tasks every five minutes, a run of a task checks the site and     *)
(* enqueues alert:fire when the result is bad, the alert engine suppresses *)
(* duplicates and stores the alert, and one notify:send task for each      *)
(* channel delivers it (internal/probe, internal/alert).                   *)
(*                                                                         *)
(* Everything runs in the worker, on goroutines that share three tables    *)
(* and the queue and no lock.  A goroutine is cut where it calls the       *)
(* database, the queue, the site or the channel.                           *)
(***************************************************************************)
EXTENDS AlertEvents, FiniteSets

CONSTANTS
    Policies,    \* rows of probe_policies, all for the one domain
    Tier,        \* their column tier
    Rules,       \* rows of notification_rules
    Channels,    \* rows of notification_channels
    Workers,     \* goroutines of the asynq server
    TaskIds,     \* bound: probe tasks that matter at the same time
    Sites,       \* bound: the answers the site gives
    MaxEvents    \* bound: changes outside of the worker, failed calls and
                 \* lost goroutines

Answers == {"fine", "altered", "cut", "error", "timeout", "refused"}

Severities == {"P1", "P2", "P3"}

ASSUME PoliciesAssumption == Policies # {} /\ Tier \in [Policies -> 1..3]
ASSUME RulesAssumption ==
    /\ "none" \notin Channels
    /\ Rules \subseteq [channel : Channels, minSeverity : Severities,
                        alertType : {"null", "probe", "gfw"}, enabled : BOOLEAN]
ASSUME MonitoringBoundsAssumption ==
    /\ TaskIds \subseteq Nat \ {0}
    /\ Sites \subseteq Answers
    /\ Workers \subseteq Nat
    /\ MaxEvents \in Nat

VARIABLES
    site,     \* what the site answers
    enabled,  \* the policies that are enabled
    on,       \* the channels that are enabled
    tasks,    \* probe_tasks, with how often each was run
    alerts,   \* alert_events with the deliveries and notification_history
    jobs,     \* asynq tasks in the queue
    worker,   \* what each goroutine is doing
    changes,  \* how many things have happened
    faults    \* how many calls have failed

world == <<site, enabled, on, changes>>

vars == <<world, tasks, alerts, jobs, worker, faults>>

-----------------------------------------------------------------------------
(* What the checkers of the three tiers make of an answer.  A name that    *)
(* does not resolve is like a connection that is refused.  L1 accepts any  *)
(* page below status 500, L2 and L3 look for the expected content.  L3     *)
(* does not notice that the body was cut, but then misses its keyword.     *)

statusFromErr(answer) == IF answer = "timeout" THEN "timeout" ELSE "fail"

CheckL1(answer) ==
    CASE answer \in {"timeout", "refused"} -> statusFromErr(answer)
      [] answer = "error"                  -> "fail"
      [] OTHER                             -> "ok"

CheckL2(answer) ==
    CASE answer \in {"timeout", "refused"} -> statusFromErr(answer)
      [] answer = "cut"                    -> "error"
      [] answer \in {"error", "altered"}   -> "fail"
      [] OTHER                             -> "ok"

CheckL3(answer) ==
    CASE answer \in {"timeout", "refused"}      -> statusFromErr(answer)
      [] answer \in {"error", "altered", "cut"} -> "fail"
      [] OTHER                                  -> "ok"

Check(tier, answer) ==
    CASE tier = 1 -> CheckL1(answer)
      [] tier = 2 -> CheckL2(answer)
      [] OTHER    -> CheckL3(answer)

Bad(status) == status \in {"fail", "timeout", "error"}

SeverityOf(tier) ==
    CASE tier = 1 -> "P1" [] tier = 2 -> "P2" [] OTHER -> "P3"

-----------------------------------------------------------------------------
(* Goroutines and the queue. *)

(* A task of asynq: probe:schedule_all, probe:run_lN for a probe task,     *)
(* alert:fire for the probe task that failed, notify:send for a channel.   *)
Job(kind, task, alert, channel) ==
    [kind |-> kind, task |-> task, alert |-> alert, channel |-> channel,
     tries |-> 0]

MaxRetry == [schedule |-> 25, probe |-> 2, fire |-> 3, notify |-> 3]

NoJob == Job("none", 0, 0, "none")

(* A goroutine: its job and the locals of the handler.  todo is what the   *)
(* loop over policies or channels has still to do.                         *)
Handler(pc, job, todo) ==
    [pc |-> pc, job |-> job, status |-> "none", alert |-> 0,
     todo |-> todo, enqueued |-> FALSE]

Idle == Handler("idle", NoJob, {})

At(w, pc) == worker[w].pc = pc

Goto(w, pc) == worker' = [worker EXCEPT ![w].pc = pc]

Enqueue(job) == jobs' = jobs \cup {job}

(* Goroutines are interchangeable: the first that is idle takes a task.    *)
Ready(w) == At(w, "idle") /\ \A v \in Workers : v < w => ~At(v, "idle")

Take(w, job, pc, todo) ==
    worker' = [worker EXCEPT ![w] = Handler(pc, job, todo)]

(* The handler returns nil. *)
Done(w) == worker' = [worker EXCEPT ![w] = Idle]

(* It returns an error, or its goroutine is lost: asynq starts the task    *)
(* again from its beginning, until its retries are used up.                *)
Again(job) ==
    IF job.tries < MaxRetry[job.kind] THEN {[job EXCEPT !.tries = @ + 1]}
                                      ELSE {}

ReturnError(w) ==
    Done(w) /\ jobs' = jobs \cup Again(worker[w].job)

Fault == changes + faults < MaxEvents /\ faults' = faults + 1

NoFault == UNCHANGED faults

Change == changes + faults < MaxEvents /\ changes' = changes + 1

(* A task that no job and no goroutine names is never read again, whatever *)
(* its status: its id stands for the next row of the table.                *)
Free ==
    {t \in TaskIds :
        /\ \A j \in jobs : j.task # t
        /\ \A w \in Workers : worker[w].job.task # t}

NewTask(p) ==
    [policy |-> p, status |-> "pending", runs |-> 0]

(* The dedup key of a probe alert is probe:lN:domain:id, for the one       *)
(* domain of the model its tier.                                           *)
KeyOf(t) == Tier[tasks[t].policy]

NewAlert(key, w) ==
    [key |-> key, resolved |-> FALSE, old |-> FALSE, notified |-> FALSE,
     by |-> w, delivered |-> [c \in Channels |-> 0], history |-> {}]

Init ==
    /\ site \in Sites
    /\ enabled = Policies
    /\ on = Channels
    /\ tasks = [t \in TaskIds |-> NewTask(CHOOSE p \in Policies : TRUE)]
    /\ alerts = <<>>
    /\ jobs = {}
    /\ worker = [w \in Workers |-> Idle]
    /\ changes = 0
    /\ faults = 0

-----------------------------------------------------------------------------
(* The scheduler. *)

(* Every five minutes.  Bound: the next run starts when the last is done   *)
(* and ids are left for it.                                                *)
ScheduleTick ==
    /\ \A j \in jobs : j.kind # "schedule"
    /\ \A w \in Workers : ~At(w, "schedule")
    /\ Cardinality(Free) >= Cardinality(Policies)
    /\ Enqueue(Job("schedule", 0, 0, "none"))
    /\ UNCHANGED <<world, tasks, alerts, worker, faults>>

(* Mutant: the policies that are not enabled are listed.                   *)
ScheduleDisabled(w, j) ==
    /\ Ready(w)
    /\ j \in jobs /\ j.kind = "schedule"
    /\ IF enabled = Policies THEN UNCHANGED worker
                             ELSE Take(w, j, "schedule", Policies \ enabled)
    /\ jobs' = jobs \ {j}
    /\ NoFault
    /\ UNCHANGED <<world, tasks, alerts>>

(* ScheduleAll reads the enabled policies and the active domains. *)
ScheduleAll(w, j) ==
    /\ Ready(w)
    /\ j \in jobs /\ j.kind = "schedule"
    /\ \/ /\ IF enabled = {} THEN UNCHANGED worker
                              ELSE Take(w, j, "schedule", enabled)
          /\ jobs' = jobs \ {j}
          /\ NoFault
       \/ /\ jobs' = (jobs \ {j}) \cup Again(j)
          /\ Fault
          /\ UNCHANGED worker
    /\ UNCHANGED <<world, tasks, alerts>>

(* One round of its loop: createAndEnqueue inserts a row, then enqueues    *)
(* its task.  When the second fails the row stays pending and nobody reads *)
(* it; an insert that fails comes to the same.                             *)
CreateAndEnqueue(w) ==
    /\ At(w, "schedule")
    /\ \E p \in worker[w].todo :
        /\ IF worker[w].todo = {p}
           THEN Done(w)
           ELSE worker' = [worker EXCEPT ![w].todo = @ \ {p}]
        /\ \E t \in Free :
            /\ tasks' = [tasks EXCEPT ![t] = NewTask(p)]
            /\ \/ Enqueue(Job("probe", t, 0, "none")) /\ NoFault
               \/ Fault /\ UNCHANGED jobs
    /\ UNCHANGED <<world, alerts>>

-----------------------------------------------------------------------------
(* A probe run (HandleL1, HandleL2 and HandleL3). *)

(* Mutant: whatever its status is, the task is claimed.                    *)
ClaimAnyway(w, j) ==
    /\ Ready(w)
    /\ j \in jobs /\ j.kind = "probe"
    /\ jobs' = jobs \ {j}
    /\ tasks' = [tasks EXCEPT ![j.task].status = "running"]
    /\ Take(w, j, "check", {})
    /\ NoFault
    /\ UNCHANGED <<world, alerts>>

(* It claims its task first; whatever the reason that it cannot, it        *)
(* returns nil.                                                            *)
ClaimTask(w, j) ==
    /\ Ready(w)
    /\ j \in jobs /\ j.kind = "probe"
    /\ jobs' = jobs \ {j}
    /\ \/ /\ tasks[j.task].status = "pending"
          /\ tasks' = [tasks EXCEPT ![j.task].status = "running"]
          /\ Take(w, j, "check", {})
          /\ NoFault
       \/ /\ tasks[j.task].status # "pending"
          /\ NoFault
          /\ UNCHANGED <<tasks, worker>>
       \/ /\ Fault
          /\ UNCHANGED <<tasks, worker>>
    /\ UNCHANGED <<world, alerts>>

(* The check itself; a fault on the way to the site is a bad result too.   *)
(* SaveResult only adds a row for the statistics: whether it fails or not  *)
(* the handler goes on.                                                    *)
CheckSite(w) ==
    /\ At(w, "check")
    /\ LET t == worker[w].job.task
           next(status) ==
               worker' = [worker EXCEPT
                             ![w].pc = IF Bad(status) THEN "fire" ELSE "complete"]
       IN  /\ tasks' = [tasks EXCEPT ![t].runs = @ + 1]
           /\ \/ next(Check(KeyOf(t), site)) /\ NoFault
              \/ next("timeout") /\ Fault
    /\ UNCHANGED <<world, alerts, jobs>>

(* fireProbeAlert: an alert:fire task, or a warning in the log. *)
FireProbeAlert(w) ==
    /\ At(w, "fire")
    /\ Goto(w, "complete")
    /\ \/ Enqueue(Job("fire", worker[w].job.task, 0, "none")) /\ NoFault
       \/ Fault /\ UNCHANGED jobs
    /\ UNCHANGED <<world, tasks, alerts>>

(* CompleteTask; its error is the handler's. *)
CompleteTask(w) ==
    /\ At(w, "complete")
    /\ \/ /\ tasks' = [tasks EXCEPT ![worker[w].job.task].status = "completed"]
          /\ Done(w)
          /\ NoFault
          /\ UNCHANGED jobs
       \/ /\ ReturnError(w)
          /\ Fault
          /\ UNCHANGED tasks
    /\ UNCHANGED <<world, alerts>>

-----------------------------------------------------------------------------
(* The alert engine (Engine.Fire, called by HandleAlertFire). *)

(* The dedup check: suppressed, to be inserted, or an error. *)
DedupCheck(w, j) ==
    /\ Ready(w)
    /\ j \in jobs /\ j.kind = "fire"
    /\ \/ /\ ExistsActiveDedupKey(alerts, KeyOf(j.task))
          /\ jobs' = jobs \ {j}
          /\ NoFault
          /\ UNCHANGED worker
       \/ /\ ~ExistsActiveDedupKey(alerts, KeyOf(j.task))
          /\ jobs' = jobs \ {j}
          /\ Take(w, j, "insert", {})
          /\ NoFault
       \/ /\ jobs' = (jobs \ {j}) \cup Again(j)
          /\ Fault
          /\ UNCHANGED worker
    /\ UNCHANGED <<world, tasks, alerts>>

(* The insert, and the rules that match; when these cannot be read the     *)
(* alert is stored and nobody is told.                                     *)
InsertAlert(w) ==
    LET key == KeyOf(worker[w].job.task)
        stored(channels) ==
            /\ alerts' = Append(alerts, NewAlert(key, w))
            /\ worker' = [worker EXCEPT ![w].pc = "fanout",
                             ![w].alert = Len(alerts) + 1,
                             ![w].todo = channels]
            /\ UNCHANGED jobs
    IN  /\ At(w, "insert")
        /\ \/ stored(MatchingChannels(Rules, SeverityOf(key), "probe")) /\ NoFault
           \/ stored({}) /\ Fault
           \/ ReturnError(w) /\ Fault /\ UNCHANGED alerts
        /\ UNCHANGED <<world, tasks>>

(* Mutant: the channels that were served are not remembered.               *)
EnqueueNotifyAgain(w) ==
    /\ At(w, "fanout")
    /\ \E c \in worker[w].todo :
        /\ Enqueue(Job("notify", 0, worker[w].alert, c))
        /\ worker' = [worker EXCEPT ![w].enqueued = TRUE]
        /\ NoFault
    /\ UNCHANGED <<world, tasks, alerts>>

(* One notify:send task for each channel; one that cannot be enqueued is   *)
(* skipped.                                                                *)
EnqueueNotify(w) ==
    /\ At(w, "fanout")
    /\ \E c \in worker[w].todo :
        \/ /\ Enqueue(Job("notify", 0, worker[w].alert, c))
           /\ worker' = [worker EXCEPT ![w].todo = @ \ {c}, ![w].enqueued = TRUE]
           /\ NoFault
        \/ /\ worker' = [worker EXCEPT ![w].todo = @ \ {c}]
           /\ Fault
           /\ UNCHANGED jobs
    /\ UNCHANGED <<world, tasks, alerts>>

(* MarkNotified when at least one was enqueued. *)
MarkNotified(w) ==
    /\ At(w, "fanout")
    /\ worker[w].todo = {}
    /\ Done(w)
    /\ \/ /\ alerts' = [alerts EXCEPT ![worker[w].alert].notified =
                             @ \/ worker[w].enqueued]
          /\ NoFault
       \/ /\ worker[w].enqueued
          /\ Fault
          /\ UNCHANGED alerts
    /\ UNCHANGED <<world, tasks, jobs>>

-----------------------------------------------------------------------------
(* Delivery (HandleNotifySend and Dispatcher.DispatchByChannelID). *)

(* Mutant: the test of the channel is the wrong way round.                 *)
DispatchToDisabled(w, j) ==
    /\ Ready(w)
    /\ j \in jobs /\ j.kind = "notify"
    /\ jobs' = jobs \ {j}
    /\ IF j.channel \in on THEN UNCHANGED worker ELSE Take(w, j, "send", {})
    /\ NoFault
    /\ UNCHANGED <<world, tasks, alerts>>

(* The channel is read: not found, disabled, or to be sent to. *)
DispatchByChannelID(w, j) ==
    /\ Ready(w)
    /\ j \in jobs /\ j.kind = "notify"
    /\ jobs' = jobs \ {j}
    /\ \/ /\ j.channel \in on
          /\ Take(w, j, "send", {})
          /\ NoFault
          /\ UNCHANGED alerts
       \/ /\ j.channel \notin on
          /\ alerts' = [alerts EXCEPT ![j.alert].history =
                           @ \cup {<<j.channel, "suppressed">>}]
          /\ NoFault
          /\ UNCHANGED worker
       \/ /\ Fault
          /\ UNCHANGED <<alerts, worker>>
    /\ UNCHANGED <<world, tasks>>

(* sender.Send; after an error the message may have arrived or not. *)
Send(w) ==
    LET job == worker[w].job
        arrives ==
            alerts' = [alerts EXCEPT ![job.alert].delivered[job.channel] = @ + 1]
        records(status) ==
            worker' = [worker EXCEPT ![w].pc = "record", ![w].status = status]
    IN  /\ At(w, "send")
        /\ \/ arrives /\ records("sent") /\ NoFault
           \/ (arrives \/ UNCHANGED alerts) /\ records("failed") /\ Fault
        /\ UNCHANGED <<world, tasks, jobs>>

(* recordHistory; nothing is returned, so a failed message is not sent     *)
(* again.                                                                  *)
RecordHistory(w) ==
    LET job == worker[w].job
    IN  /\ At(w, "record")
        /\ Done(w)
        /\ \/ /\ alerts' = [alerts EXCEPT ![job.alert].history =
                                @ \cup {<<job.channel, worker[w].status>>}]
              /\ NoFault
           \/ /\ Fault
              /\ UNCHANGED alerts
        /\ UNCHANGED <<world, tasks, jobs>>

-----------------------------------------------------------------------------
(* The outside. *)

(* A goroutine is lost, its timeout strikes or its process ends. *)
Crash(w) ==
    /\ ~At(w, "idle")
    /\ ReturnError(w)
    /\ Fault
    /\ UNCHANGED <<world, tasks, alerts>>

SiteChanges ==
    /\ Change
    /\ site' \in Sites \ {site}
    /\ UNCHANGED <<enabled, on, tasks, alerts, jobs, worker, faults>>

UpdatePolicy(p) ==
    /\ Change
    /\ enabled' \in {enabled \cup {p}, enabled \ {p}} \ {enabled}
    /\ UNCHANGED <<site, on, tasks, alerts, jobs, worker, faults>>

UpdateChannel(c) ==
    /\ Change
    /\ on' \in {on \cup {c}, on \ {c}} \ {on}
    /\ UNCHANGED <<site, enabled, tasks, alerts, jobs, worker, faults>>

ResolveAlert(i) ==
    /\ Change
    /\ ~alerts[i].resolved
    /\ alerts' = [alerts EXCEPT ![i].resolved = TRUE]
    /\ UNCHANGED <<site, enabled, on, tasks, jobs, worker, faults>>

HourPasses ==
    /\ Change
    /\ \E i \in 1..Len(alerts) : ~alerts[i].old
    /\ alerts' = Aged(alerts)
    /\ UNCHANGED <<site, enabled, on, tasks, jobs, worker, faults>>

-----------------------------------------------------------------------------
TakeJob(w, j) ==
    \/ ScheduleAll(w, j)
    \/ ClaimTask(w, j)
    \/ DedupCheck(w, j)
    \/ DispatchByChannelID(w, j)

Step(w) ==
    \/ CreateAndEnqueue(w)
    \/ CheckSite(w)
    \/ FireProbeAlert(w)
    \/ CompleteTask(w)
    \/ InsertAlert(w)
    \/ EnqueueNotify(w)
    \/ MarkNotified(w)
    \/ Send(w)
    \/ RecordHistory(w)

Operators ==
    \/ \E p \in Policies : UpdatePolicy(p)
    \/ \E c \in Channels : UpdateChannel(c)
    \/ \E i \in 1..Len(alerts) : ResolveAlert(i)

Next ==
    \/ ScheduleTick
    \/ \E w \in Workers :
           \/ \E j \in jobs : TakeJob(w, j)
           \/ Step(w)
           \/ Crash(w)
    \/ SiteChanges
    \/ Operators
    \/ HourPasses

Spec == Init /\ [][Next]_vars

(* The scheduler ticks, a goroutine goes on, and the queue starves no      *)
(* task: tasks are served in turn and queues by weight, not strictly.      *)
FairSpec ==
    /\ Spec
    /\ WF_vars(ScheduleTick)
    /\ \A w \in Workers : WF_vars(Step(w))
    /\ \A kind \in {"schedule", "probe", "fire", "notify"} :
           SF_vars(\E w \in Workers, j \in jobs : j.kind = kind /\ TakeJob(w, j))

-----------------------------------------------------------------------------
Kinds == {"none", "schedule", "probe", "fire", "notify"}

Jobs ==
    [kind : Kinds, task : TaskIds \cup {0}, alert : Nat,
     channel : Channels \cup {"none"}, tries : Nat]

Pcs ==
    {"idle", "schedule", "check", "fire", "complete", "insert",
     "fanout", "send", "record"}

(* Jobs and goroutines name the rows they work on.                         *)
JobNamesRows(j) ==
    /\ j.kind \in {"probe", "fire"} => j.task \in TaskIds
    /\ j.kind = "notify" => j.alert \in 1..Len(alerts) /\ j.channel \in Channels

WorkerNamesRows(v) ==
    /\ JobNamesRows(v.job)
    /\ v.pc # "idle" => v.job.kind # "none"
    /\ v.pc \in {"check", "fire", "complete"} => v.job.kind = "probe"
    /\ v.pc \in {"insert", "fanout"} => v.job.kind = "fire"
    /\ v.pc \in {"send", "record"} => v.job.kind = "notify"
    /\ v.pc = "fanout" => v.alert \in 1..Len(alerts) /\ v.todo \subseteq Channels
    /\ v.pc = "record" => v.status # "none"
    /\ v.pc = "schedule" => v.job.kind = "schedule" /\ v.todo \subseteq Policies

TaskRows ==
    [policy : Policies, status : {"pending", "running", "completed"}, runs : Nat]

AlertRows ==
    [key : 1..3, resolved : BOOLEAN, old : BOOLEAN, notified : BOOLEAN,
     by : Workers, delivered : [Channels -> Nat],
     history : SUBSET (Channels \X {"sent", "failed", "suppressed"})]

WorkerStates ==
    [pc : Pcs, job : Jobs, status : {"none", "sent", "failed"}, alert : Nat,
     todo : SUBSET (Policies \cup Channels), enqueued : BOOLEAN]

(* Every variable has its type, and a goroutine or job that works on a     *)
(* probe task or an alert names one that exists.                           *)
TypeOK ==
    /\ site \in Answers
    /\ enabled \subseteq Policies
    /\ on \subseteq Channels
    /\ tasks \in [TaskIds -> TaskRows]
    /\ alerts \in Seq(AlertRows)
    /\ jobs \subseteq Jobs
    /\ worker \in [Workers -> WorkerStates]
    /\ \A j \in jobs : j.kind # "none" /\ JobNamesRows(j)
    /\ \A w \in Workers : WorkerNamesRows(worker[w])
    /\ changes \in Nat
    /\ faults \in Nat

(* A probe task is run at most once, however often its job is delivered.   *)
(* (ClaimTask is the only guard, HandleL1.run.)                            *)
ProbedOnce == \A t \in TaskIds : tasks[t].runs <= 1

(* Two alerts that are open within one hour for the same key were fired by *)
(* goroutines that were between the dedup check and the insert at the same *)
(* time: a flood is no larger than the number of goroutines, and a single  *)
(* goroutine fires one alert an hour (Engine.Fire).                        *)
DedupPerWorker ==
    \A i, k \in 1..Len(alerts) :
        (/\ i # k
         /\ Suppresses(alerts[i], alerts[k].key)
         /\ Suppresses(alerts[k], alerts[i].key)) => alerts[i].by # alerts[k].by

(* A channel hears of an alert once; each time more costs a fault that hit *)
(* its delivery (enqueueNotify once per channel, HandleNotifySend returns  *)
(* nil).                                                                   *)
ToldOnce ==
    \A i \in 1..Len(alerts), c \in Channels :
        alerts[i].delivered[c] <= 1 + faults

(* A site that stays bad for an enabled policy has an open alert again and *)
(* again: suppression, lost tasks and retries never silence it for good.   *)
DownAlerts ==
    \A p \in Policies :
        <>[](p \in enabled /\ Bad(Check(Tier[p], site))) =>
            []<>(\E i \in 1..Len(alerts) : Open(alerts[i], Tier[p]))

(* Without faults no alert stays unknown to a channel that is enabled and  *)
(* has a rule for it.                                                      *)
Told(c) ==
    \A i \in 1..Len(alerts) :
        c \in MatchingChannels(Rules, SeverityOf(alerts[i].key), "probe") =>
            alerts[i].delivered[c] > 0

EveryAlertTold ==
    \A c \in Channels : [](faults = 0 /\ c \in on) => []<>Told(c)

=============================================================================
