------------------------------- MODULE Release -------------------------------
(***************************************************************************)
(* One release of the Domain Lifecycle & Deployment Platform, from its     *)
(* creation to its terminal state: the release row and its state machine,  *)
(* the shards and domain tasks that planning creates, the agent tasks that *)
(* dispatch creates, the asynq jobs that drive all of it, and the requests *)
(* of operators that run against them (internal/release, internal/artifact *)
(* and the stores under store/postgres).                                   *)
(*                                                                         *)
(* Every asynq job is a thread of its own: the worker runs 75 goroutines,  *)
(* so a queued job can always be picked up.  A handler is cut into steps   *)
(* where another actor can see or change what it reads: after a            *)
(* transition, and after it has read the release or the task statistics.   *)
(***************************************************************************)
EXTENDS Integers, FiniteSets

CONSTANTS
    Domains,             \* ids of the domains in release_scopes
    Agents,              \* ids of the agents
    GroupOf,             \* release_scopes.host_group_id of a domain, 0 for NULL
    AgentGroup,          \* agents.host_group_id of an agent, 0 for NULL
    HasPrevious,         \* an earlier release of the project has succeeded
    MaxFinalizeRetries,  \* maxFinalizeRetries, 360 in the code
    Ops,                 \* operator requests that may arrive
    JobIds,              \* bound: asynq jobs that exist at a time
    MaxFaults,           \* bound: crashes, database errors and lost enqueues
    MaxRollbacks         \* bound: rollback_records rows

ASSUME DomainsAssumption == IsFiniteSet(Domains) /\ Domains \subseteq Nat
ASSUME AgentsAssumption == IsFiniteSet(Agents) /\ Agents \subseteq Nat
ASSUME GroupAssumption ==
    GroupOf \in [Domains -> Nat] /\ AgentGroup \in [Agents -> Nat]
ASSUME ParameterAssumption ==
    /\ HasPrevious \in BOOLEAN
    /\ MaxFinalizeRetries \in Nat
    /\ Ops \subseteq {"pause", "resume", "cancel", "rollback"}
    /\ JobIds \subseteq Nat
    /\ MaxFaults \in Nat
    /\ MaxRollbacks \in Nat

VARIABLES
    status,        \* releases.status, "none" before the row exists
    artifact,      \* the artifacts row: "none", "built", "linked" to the release
    domainTasks,   \* domain_tasks.status of each domain, "absent" without a row
    shards,        \* release_shards: status and counts by shard_index
    tasks,         \* agent_tasks.status by task_id
    successCount,  \* releases.success_count
    failureCount,  \* releases.failure_count
    rollbacks,     \* rollback_records: "absent", "open" or the outcome
    jobs,          \* asynq jobs, each with its payload and program counter
    faults         \* how many faults have happened

plan == <<domainTasks, shards>>

counts == <<successCount, failureCount>>

vars == <<status, artifact, plan, tasks, counts, rollbacks, jobs, faults>>

-----------------------------------------------------------------------------
(* The state machine of a release. *)

Statuses == {"pending", "planning", "ready", "executing", "paused",
             "succeeded", "failed", "rolling_back", "rolled_back", "cancelled"}

validReleaseTransitions ==
    [s \in Statuses |->
        CASE s = "pending"      -> {"planning", "cancelled"}
          [] s = "planning"     -> {"ready", "cancelled", "failed"}
          [] s = "ready"        -> {"executing", "cancelled"}
          [] s = "executing"    -> {"paused", "succeeded", "failed"}
          [] s = "paused"       -> {"executing", "rolling_back", "cancelled"}
          [] s = "failed"       -> {"rolling_back", "cancelled"}
          [] s = "rolling_back" -> {"rolled_back", "failed"}
          [] OTHER              -> {}]

CanReleaseTransition(from, to) ==
    from \in Statuses /\ to \in validReleaseTransitions[from]

(* Mutant: the optimistic check is missing.                                 *)
CanMoveUnchecked(from, to) == CanReleaseTransition(from, to)

(* TransitionRelease: edge check, row lock, optimistic check, update.  The  *)
(* call fails, changing nothing, exactly when CanMove is false.             *)
CanMove(from, to) == CanReleaseTransition(from, to) /\ status = from

TransitionRelease(from, to) == CanMove(from, to) /\ status' = to

-----------------------------------------------------------------------------
(* Planning: which shard a domain lands in.                                *)

ShardIndexes == 0 .. Cardinality(Domains) - 1

Planned == {d \in Domains : domainTasks[d] # "absent"}

(* planByHostGroup: host groups in ascending order, domains without one in  *)
(* a last shard of their own.                                               *)
ShardIndex(d, valid) ==
    LET groups == {GroupOf[e] : e \in valid} \ {0}
    IN  IF GroupOf[d] = 0
        THEN Cardinality(groups)
        ELSE Cardinality({g \in groups : g < GroupOf[d]})

ShardOf(d) == ShardIndex(d, Planned)

DomainsOf(s) == {d \in Planned : ShardOf(d) = s}

-----------------------------------------------------------------------------
(* Agent tasks.  The task_id of a deploy task is made of the release, the   *)
(* domain task and the agent, that of a rollback task of the release and    *)
(* the agent; task_id is UNIQUE, so a second insert fails.                  *)

TaskIds == [op : {"deploy", "rollback"}, domain : Domains, agent : Agents]

TaskStates == {"absent", "pending", "claimed", "succeeded", "failed"}

Existing == {t \in TaskIds : tasks[t] # "absent"}

(* Mutant: an insert that meets its own task_id resets the row.             *)
InsertableAgain == {t \in TaskIds : tasks[t] # "pending"}

(* What the UNIQUE task_id lets CreateAgentTask insert.                     *)
Insertable == TaskIds \ Existing

Nth(S, n) == CHOOSE x \in S : Cardinality({y \in S : y < x}) = n

(* The agents a domain may be sent to: those online in its host group, or   *)
(* else all that are online.                                                *)
Pool(d, online) ==
    LET mates == {a \in online : AgentGroup[a] = GroupOf[d]}
    IN  IF GroupOf[d] > 0 /\ mates # {} THEN mates ELSE online

(* Round robin over the pool by the position of the domain in its shard.    *)
TargetAgent(d, online) ==
    LET pos == Cardinality({e \in DomainsOf(ShardOf(d)) : e < d})
    IN  Nth(Pool(d, online), pos % Cardinality(Pool(d, online)))

(* ExecuteRollback hangs every rollback task on the release's first row.    *)
Representative ==
    CHOOSE d \in DomainsOf(0) : \A e \in DomainsOf(0) : d <= e

AgentTaskStats(ts) ==
    [ok   |-> Cardinality({t \in ts : tasks[t] = "succeeded"}),
     bad  |-> Cardinality({t \in ts : tasks[t] = "failed"}),
     busy |-> Cardinality({t \in ts : tasks[t] \in {"pending", "claimed"}})]

StatsByRelease == AgentTaskStats(Existing)

StatsByShard(s) ==
    AgentTaskStats({t \in Existing : t.domain \in DomainsOf(s)})

-----------------------------------------------------------------------------
(* asynq.                                                                   *)

(* "undo" is a finalize job with IsRollback set.  "request" is no asynq job *)
(* but the goroutine of the API server that serves a rollback request.      *)
Kinds == {"plan", "build", "dispatch", "finalize", "request", "rollback",
          "undo"}

MaxRetry == [plan |-> 3, build |-> 2, dispatch |-> 3, finalize |-> 0,
             request |-> 0, rollback |-> 2, undo |-> 0]

Zero == [ok |-> 0, bad |-> 0, busy |-> 0]

NoJob == [kind |-> "none"]

(* A job as it is enqueued.                                                 *)
Job(kind, shard, poll, rec) ==
    [kind |-> kind, shard |-> shard, poll |-> poll, rec |-> rec,
     attempt |-> 0, pc |-> "queued", seen |-> Zero]

At(j, kind, pc) == jobs[j].kind = kind /\ jobs[j].pc = pc

FreeSlot(k) ==
    /\ jobs[k] = NoJob
    /\ \A i \in JobIds : jobs[i] = NoJob => k <= i

Fault == faults < MaxFaults /\ faults' = faults + 1

Goto(j, pc) == jobs' = [jobs EXCEPT ![j].pc = pc]

(* The handler returned an error, or its worker died: asynq runs the job    *)
(* again until its retries are used up, then archives it.                   *)
AfterError(job) ==
    IF job.attempt < MaxRetry[job.kind]
    THEN [job EXCEPT !.attempt = @ + 1, !.pc = "queued", !.seen = Zero]
    ELSE NoJob

ReturnError(j) == jobs' = [jobs EXCEPT ![j] = AfterError(@)]

(* The handler returned nil and asynq acknowledged the job; or the worker   *)
(* died before the acknowledgement and the job will run again.              *)
Return(j) ==
    \/ jobs' = [jobs EXCEPT ![j] = NoJob] /\ UNCHANGED faults
    \/ ReturnError(j) /\ Fault

(* The last enqueue of a handler.  A failing enqueue is only logged.        *)
EnqueueAndReturn(j, job) ==
    \/ jobs' = [jobs EXCEPT ![j] = NoJob] /\ Fault
    \/ \E k \in JobIds :
        /\ FreeSlot(k)
        /\ \/ jobs' = [jobs EXCEPT ![j] = NoJob, ![k] = job] /\ UNCHANGED faults
           \/ jobs' = [jobs EXCEPT ![j] = AfterError(@), ![k] = job] /\ Fault

(* A worker dies, or a store call fails, between two steps of a handler.    *)
Crash(j) ==
    /\ jobs[j] # NoJob
    /\ Fault
    /\ ReturnError(j)
    /\ UNCHANGED <<status, artifact, plan, tasks, counts, rollbacks>>

(* Redis loses what it had not yet written to its append-only file.         *)
LoseQueue ==
    /\ Fault
    /\ jobs' = [j \in JobIds |->
                  IF jobs[j].kind = "request" THEN jobs[j] ELSE NoJob]
    /\ UNCHANGED <<status, artifact, plan, tasks, counts, rollbacks>>

-----------------------------------------------------------------------------
(* Creation and planning. *)

Init ==
    /\ status = "none"
    /\ artifact = "none"
    /\ domainTasks = [d \in Domains |-> "absent"]
    /\ shards = [s \in ShardIndexes |->
                    [status |-> "absent", ok |-> 0, bad |-> 0]]
    /\ tasks = [t \in TaskIds |-> "absent"]
    /\ successCount = 0
    /\ failureCount = 0
    /\ rollbacks = [r \in 1 .. MaxRollbacks |-> "absent"]
    /\ jobs = [j \in JobIds |-> NoJob]
    /\ faults = 0

(* Create: the row is inserted as pending and a plan job enqueued.          *)
Create ==
    /\ status = "none"
    /\ status' = "pending"
    /\ \/ /\ \E k \in JobIds :
                 /\ FreeSlot(k)
                 /\ jobs' = [jobs EXCEPT ![k] = Job("plan", 0, 0, 0)]
          /\ UNCHANGED faults
       \/ Fault /\ UNCHANGED jobs
    /\ UNCHANGED <<artifact, plan, tasks, counts, rollbacks>>

(* Plan, first step: pending -> planning, or an error when the release is   *)
(* no longer pending, which is what every retry finds.                      *)
PlanBegin(j) ==
    /\ At(j, "plan", "queued")
    /\ IF CanMove("pending", "planning")
       THEN TransitionRelease("pending", "planning") /\ Goto(j, "rows")
       ELSE ReturnError(j) /\ UNCHANGED status
    /\ UNCHANGED <<artifact, plan, tasks, counts, rollbacks, faults>>

(* The release is moved from one state to another if it is still there; the *)
(* handler ignores the error otherwise.                                     *)
TryMove(from, to) ==
    status' = IF CanMove(from, to) THEN to ELSE status

(* CreateShard and CreateBatch: a row for each of these domains, and one    *)
(* for each shard they are in.                                              *)
InsertRows(ds) ==
    /\ domainTasks' = [d \in Domains |->
                          IF d \in ds THEN "pending" ELSE "absent"]
    /\ shards' = [s \in ShardIndexes |->
                     IF \E d \in ds : ShardIndex(d, ds) = s
                     THEN [status |-> "pending", ok |-> 0, bad |-> 0]
                     ELSE shards[s]]

(* Plan, the rest: the domains of the scope that are still active get a row *)
(* each, in one shard per host group; then the artifact build is enqueued.  *)
(* Without an active domain the release fails, and also when the enqueue or *)
(* an insert fails, with the rows of the first n shards there; when the     *)
(* worker dies on the way it stays in planning.                             *)
PlanRows(j) ==
    /\ At(j, "plan", "rows")
    /\ \E valid \in SUBSET Domains :
        \/ /\ valid = {}
           /\ TryMove("planning", "failed")
           /\ ReturnError(j)
           /\ UNCHANGED <<plan, faults>>
        \/ /\ valid # {}
           /\ InsertRows(valid)
           /\ \E k \in JobIds :
                /\ FreeSlot(k)
                /\ jobs' = [jobs EXCEPT ![j] = NoJob,
                                        ![k] = Job("build", 0, 0, 0)]
           /\ UNCHANGED <<status, faults>>
        \/ \E n \in 0 .. Cardinality(Domains) :
           /\ InsertRows({d \in valid : ShardIndex(d, valid) < n})
           /\ Fault
           /\ TryMove("planning", "failed") \/ UNCHANGED status
           /\ ReturnError(j)
    /\ UNCHANGED <<artifact, tasks, counts, rollbacks>>

-----------------------------------------------------------------------------
(* Building the artifact. *)

(* Build.  A release may be impossible to build: its template does not     *)
(* parse or render, a domain or the version is gone, or an earlier release  *)
(* had the same content: rendering is deterministic and artifact_id, the    *)
(* checksum of the content, is UNIQUE.  Nor can a build that runs again be  *)
(* stored.  Nothing fails the release when the retries are used up.         *)
BuildArtifact(j) ==
    /\ At(j, "build", "queued")
    /\ \/ artifact = "none" /\ artifact' = "built" /\ Goto(j, "link")
       \/ ReturnError(j) /\ UNCHANGED artifact
    /\ UNCHANGED <<status, plan, tasks, counts, rollbacks, faults>>

(* Mutant: the artifact is never linked.                                    *)
LinkNothing(j) ==
    /\ At(j, "build", "link")
    /\ Goto(j, "ready")
    /\ UNCHANGED <<status, artifact, plan, tasks, counts, rollbacks, faults>>

(* MarkReady, first statement: SetArtifactID, whatever the status is.       *)
LinkArtifact(j) ==
    /\ At(j, "build", "link")
    /\ artifact' = "linked"
    /\ Goto(j, "ready")
    /\ UNCHANGED <<status, plan, tasks, counts, rollbacks, faults>>

(* MarkReady: planning -> ready.                                            *)
MarkReady(j) ==
    /\ At(j, "build", "ready")
    /\ IF CanMove("planning", "ready")
       THEN TransitionRelease("planning", "ready") /\ Goto(j, "first")
       ELSE ReturnError(j) /\ UNCHANGED status
    /\ UNCHANGED <<artifact, plan, tasks, counts, rollbacks, faults>>

(* MarkReady: the shard with the lowest index is dispatched.                *)
DispatchFirst(j) ==
    /\ At(j, "build", "first")
    /\ EnqueueAndReturn(j, Job("dispatch", 0, 0, 0))
    /\ UNCHANGED <<status, artifact, plan, tasks, counts, rollbacks>>

-----------------------------------------------------------------------------
(* DispatchShard. *)

(* The release row is read; only a release that is ready is moved.  No      *)
(* other status stops the dispatch.                                         *)
DispatchRead(j) ==
    /\ At(j, "dispatch", "queued")
    /\ Goto(j, IF status = "ready" THEN "start" ELSE "send")
    /\ UNCHANGED <<status, artifact, plan, tasks, counts, rollbacks, faults>>

DispatchStart(j) ==
    /\ At(j, "dispatch", "start")
    /\ IF CanMove("ready", "executing")
       THEN TransitionRelease("ready", "executing") /\ Goto(j, "send")
       ELSE ReturnError(j) /\ UNCHANGED status
    /\ UNCHANGED <<artifact, plan, tasks, counts, rollbacks, faults>>

(* One agent task per domain of the shard, on the agent the round robin     *)
(* over the agents online now gives it; a domain without an agent is marked *)
(* failed and gets no task.  An insert that meets its own task_id fails and *)
(* leaves the domain task alone.                                            *)
DispatchSend(j) ==
    LET s == jobs[j].shard IN
    /\ At(j, "dispatch", "send")
    /\ IF artifact # "linked"
       THEN ReturnError(j) /\ UNCHANGED <<domainTasks, tasks>>
       ELSE \E online \in SUBSET Agents :
              LET lonely == {d \in DomainsOf(s) : Pool(d, online) = {}}
                  new    == {t \in Insertable :
                                /\ t.op = "deploy"
                                /\ t.domain \in DomainsOf(s) \ lonely
                                /\ t.agent = TargetAgent(t.domain, online)}
                  sent   == {t.domain : t \in new}
              IN  /\ tasks' = [t \in TaskIds |->
                                  IF t \in new THEN "pending" ELSE tasks[t]]
                  /\ domainTasks' = [d \in Domains |->
                                        IF d \in lonely THEN "failed"
                                        ELSE IF d \in sent THEN "dispatched"
                                        ELSE domainTasks[d]]
                  /\ Goto(j, "sent")
    /\ shards' = [shards EXCEPT ![s].status = "dispatching"]
    /\ UNCHANGED <<status, artifact, counts, rollbacks, faults>>

DispatchSent(j) ==
    LET s == jobs[j].shard IN
    /\ At(j, "dispatch", "sent")
    /\ shards' = [shards EXCEPT ![s].status = "running"]
    /\ EnqueueAndReturn(j, Job("finalize", s, 0, 0))
    /\ UNCHANGED <<status, artifact, domainTasks, tasks, counts, rollbacks>>

-----------------------------------------------------------------------------
(* Finalize of a shard. *)

(* A finalize job that finds the release in another state than it expects   *)
(* ends silently: nothing re-enqueues it.                                   *)
FinalizeRead(j, kind, expected) ==
    /\ At(j, kind, "queued")
    /\ IF status = expected
       THEN Goto(j, "stats") /\ UNCHANGED faults
       ELSE Return(j)
    /\ UNCHANGED <<status, artifact, plan, tasks, counts, rollbacks>>

(* Mutant: the poll counter stands still.                                   *)
FinalizeForever(j, kind, stats) ==
    /\ At(j, kind, "stats")
    /\ IF stats.busy > 0 /\ jobs[j].poll < MaxFinalizeRetries
       THEN EnqueueAndReturn(j, Job(kind, jobs[j].shard, jobs[j].poll,
                                    jobs[j].rec))
       ELSE /\ jobs' = [jobs EXCEPT ![j].pc = "close", ![j].seen = stats]
            /\ UNCHANGED faults
    /\ UNCHANGED <<status, artifact, plan, tasks, counts, rollbacks>>

(* The statistics are read; while tasks are in progress and polls are left  *)
(* the job enqueues its successor.                                          *)
FinalizeStats(j, kind, stats) ==
    /\ At(j, kind, "stats")
    /\ IF stats.busy > 0 /\ jobs[j].poll < MaxFinalizeRetries
       THEN EnqueueAndReturn(j, Job(kind, jobs[j].shard, jobs[j].poll + 1,
                                    jobs[j].rec))
       ELSE /\ jobs' = [jobs EXCEPT ![j].pc = "close", ![j].seen = stats]
            /\ UNCHANGED faults
    /\ UNCHANGED <<status, artifact, plan, tasks, counts, rollbacks>>

(* Mutant: running out of polls is not a failure.                           *)
HasFailedOnly(stats) == stats.bad > 0

(* hasFailed: a task failed, or time ran out with tasks in progress.        *)
HasFailed(stats) == stats.bad > 0 \/ stats.busy > 0

CountTasks(stats) ==
    /\ successCount' = successCount + stats.ok
    /\ failureCount' = failureCount + stats.bad

ShardClose(j) ==
    LET s == jobs[j].shard
        stats == jobs[j].seen
    IN
    /\ At(j, "finalize", "close")
    /\ CountTasks(stats)
    /\ shards' = [shards EXCEPT ![s] =
                    [status |-> IF HasFailed(stats) THEN "failed"
                                ELSE "succeeded",
                     ok |-> stats.ok, bad |-> stats.bad]]
    /\ Goto(j, IF HasFailed(stats) THEN "fail" ELSE "next")
    /\ UNCHANGED <<status, artifact, domainTasks, tasks, rollbacks, faults>>

ShardFail(j) ==
    /\ At(j, "finalize", "fail")
    /\ IF CanMove("executing", "failed")
       THEN TransitionRelease("executing", "failed") /\ Return(j)
       ELSE ReturnError(j) /\ UNCHANGED <<status, faults>>
    /\ UNCHANGED <<artifact, plan, tasks, counts, rollbacks>>

(* Mutant: an index too far.                                                *)
PendingTooFar(s) == {k \in ShardIndexes : k > s + 1 /\ shards[k].status = "pending"}

(* GetNextPendingShard.                                                     *)
PendingAfter(s) == {k \in ShardIndexes : k > s /\ shards[k].status = "pending"}

(* The shard succeeded: the next pending one is dispatched, without another *)
(* look at the release; after the last one the release has succeeded.       *)
ShardNext(j) ==
    LET s == jobs[j].shard IN
    /\ At(j, "finalize", "next")
    /\ \/ /\ \E k \in PendingAfter(s) :
                /\ \A l \in PendingAfter(s) : k <= l
                /\ EnqueueAndReturn(j, Job("dispatch", k, 0, 0))
          /\ UNCHANGED status
       \/ /\ PendingAfter(s) = {}
          /\ IF CanMove("executing", "succeeded")
             THEN TransitionRelease("executing", "succeeded") /\ Return(j)
             ELSE ReturnError(j) /\ UNCHANGED <<status, faults>>
    /\ UNCHANGED <<artifact, plan, tasks, counts, rollbacks>>

-----------------------------------------------------------------------------
(* Rollback. *)

Complete(rec, outcome) ==
    rollbacks' = [r \in DOMAIN rollbacks |->
                     IF r = rec THEN outcome ELSE rollbacks[r]]

(* Rollback, the operator's request, up to its record.  Without an earlier  *)
(* succeeded release there is nothing to go back to.  A record that cannot  *)
(* be inserted does not stop the request, which goes on without one.        *)
RequestRollback ==
    /\ "rollback" \in Ops
    /\ HasPrevious
    /\ CanReleaseTransition(status, "rolling_back")
    /\ \E k \in JobIds, r \in 0 .. MaxRollbacks :
        /\ FreeSlot(k)
        /\ jobs' = [jobs EXCEPT ![k] =
                        [Job("request", 0, 0, r) EXCEPT !.pc = status]]
        /\ \/ /\ r # 0
              /\ rollbacks[r] = "absent"
              /\ \A q \in 1 .. (r - 1) : rollbacks[q] # "absent"
              /\ rollbacks' = [rollbacks EXCEPT ![r] = "open"]
              /\ UNCHANGED faults
           \/ r = 0 /\ Fault /\ UNCHANGED rollbacks
    /\ UNCHANGED <<status, artifact, plan, tasks, counts>>

(* Rollback, the rest: the transition from the status it has read, then the *)
(* job.  When the release has moved on meanwhile the record stays open.     *)
BeginRollback(j) ==
    /\ jobs[j].kind = "request"
    /\ IF CanMove(jobs[j].pc, "rolling_back")
       THEN /\ TransitionRelease(jobs[j].pc, "rolling_back")
            /\ \/ /\ jobs' = [jobs EXCEPT ![j] =
                                 Job("rollback", 0, 0, jobs[j].rec)]
                  /\ UNCHANGED faults
               \/ jobs' = [jobs EXCEPT ![j] = NoJob] /\ Fault
       ELSE ReturnError(j) /\ UNCHANGED <<status, faults>>
    /\ UNCHANGED <<artifact, plan, tasks, counts, rollbacks>>

(* ExecuteRollback: one rollback task for every agent that has a task of    *)
(* the release, or else for every agent online.  Tasks of an earlier        *)
(* rollback keep their task_id, so their inserts fail and are skipped.      *)
ExecuteRollback(j) ==
    /\ At(j, "rollback", "queued")
    /\ \/ /\ status # "rolling_back"
          /\ Return(j)
          /\ UNCHANGED <<status, tasks, rollbacks>>
       \/ /\ status = "rolling_back"
          /\ UNCHANGED faults
          /\ \E online \in SUBSET Agents :
              LET involved == {t.agent : t \in Existing}
                  targets  == IF involved # {} THEN involved ELSE online
                  new      == {t \in Insertable :
                                  /\ t.op = "rollback"
                                  /\ t.domain = Representative
                                  /\ t.agent \in targets}
              IN
              \/ /\ targets = {}
                 /\ TransitionRelease("rolling_back", "failed")
                 /\ Complete(jobs[j].rec, "failed")
                 /\ ReturnError(j)
                 /\ UNCHANGED tasks
              \/ /\ targets # {} /\ Planned = {}
                 /\ ReturnError(j)
                 /\ UNCHANGED <<status, tasks, rollbacks>>
              \/ /\ targets # {} /\ Planned # {}
                 /\ tasks' = [t \in TaskIds |->
                                 IF t \in new THEN "pending" ELSE tasks[t]]
                 /\ Goto(j, "sent")
                 /\ UNCHANGED <<status, rollbacks>>
    /\ UNCHANGED <<artifact, plan, counts>>

(* Mutant: IsRollback is left out of the payload.                           *)
RollbackSentAsDeploy(j) ==
    /\ At(j, "rollback", "sent")
    /\ EnqueueAndReturn(j, Job("finalize", 0, 0, jobs[j].rec))
    /\ UNCHANGED <<status, artifact, plan, tasks, counts, rollbacks>>

RollbackSent(j) ==
    /\ At(j, "rollback", "sent")
    /\ EnqueueAndReturn(j, Job("undo", 0, 0, jobs[j].rec))
    /\ UNCHANGED <<status, artifact, plan, tasks, counts, rollbacks>>

(* Finalize of a rollback: the statistics of the whole release go to the    *)
(* release and to each of its shards.                                       *)
RollbackClose(j) ==
    LET stats == jobs[j].seen IN
    /\ At(j, "undo", "close")
    /\ CountTasks(stats)
    /\ shards' = [s \in ShardIndexes |->
                     IF shards[s].status = "absent" THEN shards[s]
                     ELSE [shards[s] EXCEPT !.ok = stats.ok, !.bad = stats.bad]]
    /\ Goto(j, "settle")
    /\ UNCHANGED <<status, artifact, domainTasks, tasks, rollbacks, faults>>

RollbackTo(stats) == IF HasFailed(stats) THEN "failed" ELSE "rolled_back"

(* Mutant: the error of the transition is ignored.                          *)
RollbackSettleAnyway(j) ==
    /\ At(j, "undo", "settle")
    /\ TryMove("rolling_back", RollbackTo(jobs[j].seen))
    /\ Goto(j, "mark")
    /\ UNCHANGED <<artifact, plan, tasks, counts, rollbacks, faults>>

RollbackSettle(j) ==
    LET to == RollbackTo(jobs[j].seen) IN
    /\ At(j, "undo", "settle")
    /\ IF CanMove("rolling_back", to)
       THEN TransitionRelease("rolling_back", to) /\ Goto(j, "mark")
       ELSE ReturnError(j) /\ UNCHANGED status
    /\ UNCHANGED <<artifact, plan, tasks, counts, rollbacks, faults>>

RollbackMark(j) ==
    LET outcome == IF HasFailed(jobs[j].seen) THEN "failed" ELSE "succeeded" IN
    /\ At(j, "undo", "mark")
    /\ shards' = [s \in ShardIndexes |->
                     IF shards[s].status = "absent" THEN shards[s]
                     ELSE [shards[s] EXCEPT !.status = outcome]]
    /\ Complete(jobs[j].rec, outcome)
    /\ Return(j)
    /\ UNCHANGED <<status, artifact, domainTasks, tasks, counts>>

-----------------------------------------------------------------------------
(* The other requests of operators, and the agents. *)

Request(op, from, to) ==
    /\ op \in Ops
    /\ TransitionRelease(from, to)
    /\ UNCHANGED <<artifact, plan, tasks, counts, rollbacks, jobs, faults>>

Pause == Request("pause", "executing", "paused")

Resume == Request("resume", "paused", "executing")

(* Cancel reads the status, checks the edge and moves from what it read.    *)
Cancel == \E from \in Statuses : Request("cancel", from, "cancelled")

(* An agent claims a pending task of its own; no status of the release is   *)
(* looked at.                                                               *)
ClaimTask(t) ==
    /\ tasks[t] = "pending"
    /\ tasks' = [tasks EXCEPT ![t] = "claimed"]
    /\ UNCHANGED <<status, artifact, plan, counts, rollbacks, jobs, faults>>

ReportTask(t, outcome) ==
    /\ tasks[t] = "claimed"
    /\ tasks' = [tasks EXCEPT ![t] = outcome]
    /\ UNCHANGED <<status, artifact, plan, counts, rollbacks, jobs, faults>>

-----------------------------------------------------------------------------
JobStep(j) ==
    \/ PlanBegin(j) \/ PlanRows(j)
    \/ BuildArtifact(j) \/ LinkArtifact(j) \/ MarkReady(j) \/ DispatchFirst(j)
    \/ DispatchRead(j) \/ DispatchStart(j) \/ DispatchSend(j) \/ DispatchSent(j)
    \/ FinalizeRead(j, "finalize", "executing")
    \/ FinalizeStats(j, "finalize", StatsByShard(jobs[j].shard))
    \/ ShardClose(j) \/ ShardFail(j) \/ ShardNext(j)
    \/ BeginRollback(j) \/ ExecuteRollback(j) \/ RollbackSent(j)
    \/ FinalizeRead(j, "undo", "rolling_back")
    \/ FinalizeStats(j, "undo", StatsByRelease)
    \/ RollbackClose(j) \/ RollbackSettle(j) \/ RollbackMark(j)

Operator == Pause \/ Resume \/ Cancel \/ RequestRollback

Agent == \E t \in TaskIds :
            ClaimTask(t) \/ \E o \in {"succeeded", "failed"} : ReportTask(t, o)

Next ==
    \/ Create
    \/ \E j \in JobIds : JobStep(j) \/ Crash(j)
    \/ LoseQueue
    \/ Operator
    \/ Agent

Spec == Init /\ [][Next]_vars

(* The worker keeps running every job it has; nothing is asked of operators *)
(* or of agents, which may stay away for ever.                              *)
Fairness == \A j \in JobIds : WF_vars(JobStep(j))

FairSpec == Spec /\ Fairness


-----------------------------------------------------------------------------
(* Properties. *)

Pcs == {"queued", "rows", "link", "ready", "first", "start", "send", "sent",
        "stats", "close", "fail", "next", "settle", "mark", "paused", "failed"}

Stats == [ok : Nat, bad : Nat, busy : Nat]

LiveJob == [kind : Kinds, shard : Nat, poll : Nat, rec : Nat, attempt : Nat,
            pc : Pcs, seen : Stats]

ShardStates == {"absent", "pending", "dispatching", "running", "succeeded",
                "failed"}

(* Every column and every job payload holds a value the schema's CHECK      *)
(* constraints and the payload types of internal/tasks allow.               *)
TypeOK ==
    /\ status \in Statuses \cup {"none"}
    /\ artifact \in {"none", "built", "linked"}
    /\ domainTasks \in
          [Domains -> {"absent", "pending", "dispatched", "failed"}]
    /\ shards \in [ShardIndexes -> [status : ShardStates, ok : Nat, bad : Nat]]
    /\ tasks \in [TaskIds -> TaskStates]
    /\ successCount \in Nat
    /\ failureCount \in Nat
    /\ rollbacks \in
          [1 .. MaxRollbacks -> {"absent", "open", "succeeded", "failed"}]
    /\ jobs \in [JobIds -> LiveJob \cup {NoJob}]
    /\ faults \in Nat

Deploys == {t \in Existing : t.op = "deploy"}

Undos == {t \in Existing : t.op = "rollback"}

(* "If shard 1 fails -> shard 2 never starts": a deploy task exists in a    *)
(* shard only when all deploy tasks of all earlier shards have succeeded,   *)
(* whatever operators request meanwhile (DispatchShard, Finalize).  Holds   *)
(* until the first fault: a dispatch job that runs again after its worker   *)
(* died may give a domain of an earlier shard to another agent.             *)
EarlierShardsClean ==
    \A t, u \in Deploys :
        ShardOf(t.domain) < ShardOf(u.domain) => tasks[t] = "succeeded"

(* A release that succeeded has counted every one of its agent tasks once,  *)
(* all of them succeeded, and so did all its shards (Finalize).  Holds      *)
(* until the first fault: such a dispatch job may insert a task later.      *)
SucceededIsCounted ==
    status = "succeeded" =>
        /\ \A t \in Existing : tasks[t] = "succeeded"
        /\ successCount = Cardinality(Existing)
        /\ failureCount = 0
        /\ \A s \in ShardIndexes : shards[s].status \in {"absent", "succeeded"}

(* A rolled back release has tasks that undid it, and each of them          *)
(* succeeded (ExecuteRollback, Finalize with IsRollback).  Holds of a first *)
(* rollback until the first fault: the job of a second one, or one that     *)
(* runs again, may insert tasks between the statistics and the verdict.     *)
RolledBackIsUndone ==
    status = "rolled_back" =>
        /\ Undos # {}
        /\ \A t \in Undos : tasks[t] = "succeeded"

(* A release that is ready or further on its way out, and every release    *)
(* that has deploy tasks, has its artifact linked, through all crashes and  *)
(* retries: DispatchShard and DryRun never find artifact_id NULL            *)
(* (MarkReady).                                                             *)
ReleaseHasArtifact ==
    (status \in {"ready", "executing", "paused", "succeeded"} \/ Deploys # {})
        => artifact = "linked"

(* A rollback record says success only of a release that is rolled back:    *)
(* no race of rollbacks, cancellations and crashes completes a record       *)
(* whose release went elsewhere (Finalize, rollbacks.Complete).             *)
RecordIsTrue ==
    (\E r \in 1 .. MaxRollbacks : rollbacks[r] = "succeeded")
        => status = "rolled_back"

(* No job, late, retried or duplicated, moves a release out of a terminal   *)
(* state (TransitionRelease's optimistic check).                            *)
TerminalIsFinal ==
    [][(status \in {"succeeded", "rolled_back", "cancelled"})
          => status' = status]_vars

(* The agent_tasks rows of a release are inserted, claimed and reported     *)
(* once: neither a second dispatch of a shard nor a second rollback resets  *)
(* a task that is under way or done (DispatchShard, ExecuteRollback).       *)
AgentTasks == INSTANCE AgentTask WITH Ids <- TaskIds, row <- tasks

TasksOnce == AgentTasks!Spec

(* The release was planned and is not being built.                          *)
NotBuilt == status = "planning" /\ \A j \in JobIds : jobs[j] = NoJob

(* A release nobody pauses comes to an end although its agents may never    *)
(* answer: the polls of Finalize run out (maxFinalizeRetries).  Only one    *)
(* that cannot be built does not: its job is archived after the retries,    *)
(* and it stays in planning (HandleBuild).                                  *)
Settles ==
    status = "pending"
        ~> (status \in {"succeeded", "failed", "cancelled"} \/ NotBuilt)

(* A rollback of a release with domain tasks comes to an end.               *)
RollbackSettles ==
    (status = "rolling_back" /\ Planned # {})
        ~> status \in {"rolled_back", "failed"}

=============================================================================
