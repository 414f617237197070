---------------------------- MODULE ReleaseProofs ----------------------------
(* Theorems about Release, for every set of domains, agents and jobs, every  *)
(* number of polls, faults and rollbacks.                                    *)
EXTENDS Release, FiniteSetTheorems, TLAPS, WellFoundedInduction

JobSet == LiveJob \cup {NoJob}

ShardRows == [ShardIndexes -> [status : ShardStates, ok : Nat, bad : Nat]]

(* The task ids are finitely many, so the statistics are numbers.            *)
LEMMA TaskIdsFinite == IsFiniteSet(TaskIds)
<1> DEFINE Ops2   == {"deploy", "rollback"}
           Pairs  == Ops2 \X Domains
           Triple == Pairs \X Agents
           f      == [x \in Triple |->
                        [op |-> x[1][1], domain |-> x[1][2], agent |-> x[2]]]
<1>1. IsFiniteSet(Ops2)
  <2>1. IsFiniteSet({"deploy"})
    BY FS_Singleton
  <2>2. Ops2 = {"deploy"} \cup {"rollback"}
    OBVIOUS
  <2> QED BY <2>1, <2>2, FS_AddElement
<1>2. IsFiniteSet(Pairs)
  BY <1>1, DomainsAssumption, FS_Product
<1>3. IsFiniteSet(Triple)
  BY <1>2, AgentsAssumption, FS_Product
<1>4. f \in Surjection(Triple, TaskIds)
  <2>1. f \in [Triple -> TaskIds]
    BY DEF TaskIds
  <2>2. ASSUME NEW t \in TaskIds PROVE \E x \in Triple : f[x] = t
    <3>1. <<<<t.op, t.domain>>, t.agent>> \in Triple
      BY DEF TaskIds
    <3>2. f[<<<<t.op, t.domain>>, t.agent>>] = t
      BY <3>1 DEF TaskIds
    <3> QED BY <3>1, <3>2
  <2> QED BY <2>1, <2>2 DEF Surjection
<1> QED BY <1>3, <1>4, FS_Surjection

(* The counts of any set of agent tasks are natural numbers, since the     *)
(* task ids are finitely many (AgentTaskStats).                            *)
LEMMA StatsType ==
  ASSUME NEW ts \in SUBSET TaskIds
  PROVE  AgentTaskStats(ts) \in Stats
<1>1. ASSUME NEW S \in SUBSET ts PROVE Cardinality(S) \in Nat
  BY TaskIdsFinite, FS_Subset, FS_CardinalityType
<1> QED BY <1>1 DEF AgentTaskStats, Stats

(* A job as it is enqueued is well typed.                                  *)
LEMMA JobType ==
  ASSUME NEW kind \in Kinds, NEW shard \in Nat, NEW poll \in Nat, NEW rec \in Nat
  PROVE  Job(kind, shard, poll, rec) \in LiveJob
BY DEF Job, LiveJob, Pcs, Stats, Zero

(* What asynq makes of a job whose handler failed is well typed.           *)
LEMMA AfterErrorType ==
  ASSUME NEW job \in LiveJob
  PROVE  AfterError(job) \in JobSet
<1>1. MaxRetry[job.kind] \in Nat
  BY DEF LiveJob, Kinds, MaxRetry
<1>2. [job EXCEPT !.attempt = @ + 1, !.pc = "queued", !.seen = Zero] \in LiveJob
  <2>1. Zero \in Stats /\ "queued" \in Pcs /\ job.attempt + 1 \in Nat
    BY DEF LiveJob, Pcs, Stats, Zero
  <2> QED BY <2>1 DEF LiveJob
<1> QED BY <1>2 DEF AfterError, JobSet

(* A job that is at a step of a handler is not an empty slot.                *)
LEMMA AtIsLive ==
  ASSUME NEW j \in JobIds, jobs \in [JobIds -> JobSet],
         NEW kind \in Kinds, NEW pc, At(j, kind, pc)
  PROVE  jobs[j] \in LiveJob /\ jobs[j].kind = kind /\ jobs[j].pc = pc
BY DEF At, JobSet, NoJob, Kinds

(* Moving a job to another place of its handler keeps the type of jobs.    *)
LEMMA GotoType ==
  ASSUME NEW j \in JobIds, jobs \in [JobIds -> JobSet], jobs[j] \in LiveJob,
         NEW pc \in Pcs, Goto(j, pc)
  PROVE  jobs' \in [JobIds -> JobSet]
<1>1. [jobs[j] EXCEPT !.pc = pc] \in LiveJob
  BY DEF LiveJob
<1> QED BY <1>1 DEF Goto, JobSet

(* A handler that returns an error keeps the type of jobs.                 *)
LEMMA ReturnErrorType ==
  ASSUME NEW j \in JobIds, jobs \in [JobIds -> JobSet], jobs[j] \in LiveJob,
         ReturnError(j)
  PROVE  jobs' \in [JobIds -> JobSet]
BY AfterErrorType DEF ReturnError

(* A handler that returns nil keeps the types of jobs and faults.          *)
LEMMA ReturnType ==
  ASSUME NEW j \in JobIds, jobs \in [JobIds -> JobSet], jobs[j] \in LiveJob,
         faults \in Nat, Return(j)
  PROVE  jobs' \in [JobIds -> JobSet] /\ faults' \in Nat
<1>1. NoJob \in JobSet
  BY DEF JobSet
<1> QED BY <1>1, ReturnErrorType DEF Return, Fault

(* A handler that ends with an enqueue keeps the types of jobs and faults. *)
LEMMA EnqueueType ==
  ASSUME NEW j \in JobIds, jobs \in [JobIds -> JobSet], jobs[j] \in LiveJob,
         faults \in Nat, NEW job \in LiveJob, EnqueueAndReturn(j, job)
  PROVE  jobs' \in [JobIds -> JobSet] /\ faults' \in Nat
<1>1. NoJob \in JobSet /\ job \in JobSet /\ AfterError(jobs[j]) \in JobSet
  BY AfterErrorType DEF JobSet
<1> QED BY <1>1 DEF EnqueueAndReturn, Fault

-----------------------------------------------------------------------------
(* Type correctness.                                                         *)

(* The empty database and the empty queue are well typed.                  *)
LEMMA InitType == Init => TypeOK
BY ParameterAssumption
   DEF Init, TypeOK, TaskStates, ShardStates, JobSet

(* Create keeps the types.                                                 *)
LEMMA CreateType == TypeOK /\ Create => TypeOK'
<1> SUFFICES ASSUME TypeOK, Create PROVE TypeOK'
  OBVIOUS
<1>1. Job("plan", 0, 0, 0) \in LiveJob
  BY JobType DEF Kinds
<1>2. jobs' \in [JobIds -> LiveJob \cup {NoJob}] /\ faults' \in Nat
  BY <1>1 DEF Create, TypeOK, Fault
<1> QED BY <1>2 DEF Create, TypeOK, Statuses, plan, counts

(* UpdateShardStatus keeps the type of release_shards, also for a          *)
(* shard_index without a row.                                              *)
LEMMA ShardStatusType ==
  ASSUME shards \in ShardRows, NEW s, NEW st \in ShardStates
  PROVE  [shards EXCEPT ![s].status = st] \in ShardRows
<1>1. CASE s \in ShardIndexes
  <2>1. [shards[s] EXCEPT !.status = st] \in
           [status : ShardStates, ok : Nat, bad : Nat]
    BY <1>1 DEF ShardRows
  <2> QED BY <1>1, <2>1 DEF ShardRows
<1>2. CASE s \notin ShardIndexes
  BY <1>2 DEF ShardRows
<1> QED BY <1>1, <1>2

(* The first transition of Plan keeps the types.                           *)
LEMMA PlanBeginType ==
  ASSUME TypeOK, NEW j \in JobIds, PlanBegin(j) PROVE TypeOK'
<1>1. jobs[j] \in LiveJob
  BY AtIsLive DEF PlanBegin, TypeOK, JobSet, Kinds
<1>2. jobs' \in [JobIds -> JobSet]
  BY <1>1, GotoType, ReturnErrorType DEF PlanBegin, TypeOK, JobSet, Pcs
<1> QED BY <1>2 DEF PlanBegin, TransitionRelease, CanMove, TypeOK, Statuses,
                    JobSet, plan, counts

(* The rows that Plan inserts are well typed.                              *)
LEMMA PlanRowsType ==
  ASSUME TypeOK, NEW j \in JobIds, PlanRows(j) PROVE TypeOK'
<1>1. jobs[j] \in LiveJob
  BY AtIsLive DEF PlanRows, TypeOK, JobSet, Kinds
<1>2. Job("build", 0, 0, 0) \in JobSet /\ NoJob \in JobSet
  BY JobType DEF Kinds, JobSet
<1>3. jobs' \in [JobIds -> JobSet] /\ faults' \in Nat
  <2>1. \/ ReturnError(j)
        \/ \E k \in JobIds :
              jobs' = [jobs EXCEPT ![j] = NoJob, ![k] = Job("build", 0, 0, 0)]
    BY DEF PlanRows
  <2>2. faults' \in Nat
    <3>1. Fault \/ UNCHANGED faults
      BY DEF PlanRows
    <3> QED BY <3>1 DEF TypeOK, Fault
  <2> QED BY <1>1, <1>2, <2>1, <2>2, ReturnErrorType DEF TypeOK, JobSet
<1>4. status' \in Statuses \cup {"none"}
  BY DEF PlanRows, TryMove, TypeOK, Statuses
<1>5. domainTasks' \in [Domains -> {"absent", "pending", "dispatched", "failed"}]
  BY DEF PlanRows, InsertRows, TypeOK, plan
<1>6. shards' \in ShardRows
  <2>1. [status |-> "pending", ok |-> 0, bad |-> 0] \in
          [status : ShardStates, ok : Nat, bad : Nat]
    BY DEF ShardStates
  <2>2. \/ shards' = shards
        \/ \E ds \in SUBSET Domains : InsertRows(ds)
    BY DEF PlanRows, plan
  <2> QED BY <2>1, <2>2 DEF InsertRows, TypeOK, ShardRows
<1> QED BY <1>3, <1>4, <1>5, <1>6 DEF ShardRows, PlanRows, TypeOK, JobSet, counts

(* Build keeps the types.                                                  *)
LEMMA BuildArtifactType ==
  ASSUME TypeOK, NEW j \in JobIds, BuildArtifact(j) PROVE TypeOK'
<1>1. jobs[j] \in LiveJob
  BY AtIsLive DEF BuildArtifact, TypeOK, JobSet, Kinds
<1>2. jobs' \in [JobIds -> JobSet]
  BY <1>1, GotoType, ReturnErrorType DEF BuildArtifact, TypeOK, JobSet, Pcs
<1> QED BY <1>2 DEF BuildArtifact, TypeOK, JobSet, plan, counts

(* SetArtifactID keeps the types.                                          *)
LEMMA LinkArtifactType ==
  ASSUME TypeOK, NEW j \in JobIds, LinkArtifact(j) PROVE TypeOK'
<1>1. jobs[j] \in LiveJob
  BY AtIsLive DEF LinkArtifact, TypeOK, JobSet, Kinds
<1>2. jobs' \in [JobIds -> JobSet]
  BY <1>1, GotoType DEF LinkArtifact, TypeOK, JobSet, Pcs
<1> QED BY <1>2 DEF LinkArtifact, TypeOK, JobSet, plan, counts

(* The transition of MarkReady keeps the types.                            *)
LEMMA MarkReadyType ==
  ASSUME TypeOK, NEW j \in JobIds, MarkReady(j) PROVE TypeOK'
<1>1. jobs[j] \in LiveJob
  BY AtIsLive DEF MarkReady, TypeOK, JobSet, Kinds
<1>2. jobs' \in [JobIds -> JobSet]
  BY <1>1, GotoType, ReturnErrorType DEF MarkReady, TypeOK, JobSet, Pcs
<1> QED BY <1>2 DEF MarkReady, TransitionRelease, TypeOK, Statuses, JobSet,
                    plan, counts

(* The enqueue of MarkReady keeps the types.                               *)
LEMMA DispatchFirstType ==
  ASSUME TypeOK, NEW j \in JobIds, DispatchFirst(j) PROVE TypeOK'
<1>1. jobs[j] \in LiveJob
  BY AtIsLive DEF DispatchFirst, TypeOK, JobSet, Kinds
<1>2. jobs' \in [JobIds -> JobSet] /\ faults' \in Nat
  BY <1>1, JobType, EnqueueType DEF DispatchFirst, TypeOK, JobSet, Kinds
<1> QED BY <1>2 DEF DispatchFirst, TypeOK, JobSet, plan, counts

(* The first read of DispatchShard keeps the types.                        *)
LEMMA DispatchReadType ==
  ASSUME TypeOK, NEW j \in JobIds, DispatchRead(j) PROVE TypeOK'
<1>1. jobs[j] \in LiveJob
  BY AtIsLive DEF DispatchRead, TypeOK, JobSet, Kinds
<1>2. jobs' \in [JobIds -> JobSet]
  BY <1>1, GotoType DEF DispatchRead, TypeOK, JobSet, Pcs
<1> QED BY <1>2 DEF DispatchRead, TypeOK, JobSet, plan, counts

(* The transition of DispatchShard keeps the types.                        *)
LEMMA DispatchStartType ==
  ASSUME TypeOK, NEW j \in JobIds, DispatchStart(j) PROVE TypeOK'
<1>1. jobs[j] \in LiveJob
  BY AtIsLive DEF DispatchStart, TypeOK, JobSet, Kinds
<1>2. jobs' \in [JobIds -> JobSet]
  BY <1>1, GotoType, ReturnErrorType DEF DispatchStart, TypeOK, JobSet, Pcs
<1> QED BY <1>2 DEF DispatchStart, TransitionRelease, TypeOK, Statuses, JobSet,
                    plan, counts

(* The agent tasks that DispatchShard inserts are well typed.              *)
LEMMA DispatchSendType ==
  ASSUME TypeOK, NEW j \in JobIds, DispatchSend(j) PROVE TypeOK'
<1>1. jobs[j] \in LiveJob
  BY AtIsLive DEF DispatchSend, TypeOK, JobSet, Kinds
<1>2. jobs' \in [JobIds -> JobSet]
  BY <1>1, GotoType, ReturnErrorType DEF DispatchSend, TypeOK, JobSet, Pcs
<1>3. tasks' \in [TaskIds -> TaskStates]
  BY DEF DispatchSend, TypeOK, TaskStates
<1>4. domainTasks' \in [Domains -> {"absent", "pending", "dispatched", "failed"}]
  BY DEF DispatchSend, TypeOK
<1>5. shards' \in ShardRows
  BY ShardStatusType DEF DispatchSend, TypeOK, ShardStates, ShardRows
<1> QED BY <1>2, <1>3, <1>4, <1>5 DEF ShardRows, DispatchSend, TypeOK, JobSet, counts

(* The end of DispatchShard keeps the types.                               *)
LEMMA DispatchSentType ==
  ASSUME TypeOK, NEW j \in JobIds, DispatchSent(j) PROVE TypeOK'
<1>1. jobs[j] \in LiveJob
  BY AtIsLive DEF DispatchSent, TypeOK, JobSet, Kinds
<1>2. Job("finalize", jobs[j].shard, 0, 0) \in LiveJob
  BY <1>1, JobType DEF LiveJob, Kinds
<1>3. jobs' \in [JobIds -> JobSet] /\ faults' \in Nat
  BY <1>1, <1>2, EnqueueType DEF DispatchSent, TypeOK, JobSet
<1>4. shards' \in ShardRows
  BY ShardStatusType DEF DispatchSent, TypeOK, ShardStates, ShardRows
<1> QED BY <1>3, <1>4 DEF ShardRows, DispatchSent, TypeOK, JobSet, counts

(* The status check of Finalize keeps the types, for a deploy and for a    *)
(* rollback.                                                               *)
LEMMA FinalizeReadType ==
  ASSUME TypeOK, NEW j \in JobIds, NEW kind \in Kinds, NEW expected,
         FinalizeRead(j, kind, expected)
  PROVE  TypeOK'
<1>1. jobs[j] \in LiveJob
  BY AtIsLive DEF FinalizeRead, TypeOK, JobSet
<1>2. jobs' \in [JobIds -> JobSet] /\ faults' \in Nat
  BY <1>1, GotoType, ReturnType DEF FinalizeRead, TypeOK, JobSet, Pcs
<1> QED BY <1>2 DEF FinalizeRead, TypeOK, JobSet, plan, counts

(* The statistics a Finalize job takes along, and the poll it enqueues,    *)
(* are well typed.                                                         *)
LEMMA FinalizeStatsType ==
  ASSUME TypeOK, NEW j \in JobIds, NEW kind \in Kinds, NEW stats \in Stats,
         FinalizeStats(j, kind, stats)
  PROVE  TypeOK'
<1>1. jobs[j] \in LiveJob
  BY AtIsLive DEF FinalizeStats, TypeOK, JobSet
<1>2. Job(kind, jobs[j].shard, jobs[j].poll + 1, jobs[j].rec) \in LiveJob
  <2>1. jobs[j].shard \in Nat /\ jobs[j].poll + 1 \in Nat /\ jobs[j].rec \in Nat
    BY <1>1 DEF LiveJob
  <2> QED BY <2>1, JobType
<1>3. CASE EnqueueAndReturn(j, Job(kind, jobs[j].shard, jobs[j].poll + 1,
                                   jobs[j].rec))
  <2>1. jobs' \in [JobIds -> JobSet] /\ faults' \in Nat
    BY <1>1, <1>2, <1>3, EnqueueType DEF TypeOK, JobSet
  <2> QED BY <2>1 DEF FinalizeStats, TypeOK, JobSet, plan, counts
<1>4. CASE /\ jobs' = [jobs EXCEPT ![j].pc = "close", ![j].seen = stats]
           /\ UNCHANGED faults
  <2>1. [jobs[j] EXCEPT !.pc = "close", !.seen = stats] \in JobSet
    <3>1. "close" \in Pcs
      BY DEF Pcs
    <3> QED BY <1>1, <3>1 DEF LiveJob, JobSet
  <2>2. jobs' = [jobs EXCEPT ![j] = [jobs[j] EXCEPT !.pc = "close", !.seen = stats]]
    BY <1>1, <1>4 DEF TypeOK, LiveJob
  <2>3. jobs' \in [JobIds -> JobSet]
    BY <2>1, <2>2 DEF TypeOK, JobSet
  <2> QED BY <1>4, <2>3 DEF FinalizeStats, TypeOK, JobSet, plan, counts
<1> QED BY <1>3, <1>4 DEF FinalizeStats


(* The counters only ever grow by numbers of tasks.                          *)
LEMMA CountTasksType ==
  ASSUME TypeOK, NEW stats \in Stats, CountTasks(stats)
  PROVE  successCount' \in Nat /\ failureCount' \in Nat
BY DEF CountTasks, TypeOK, Stats

(* Closing a shard keeps the counts of the release natural numbers.        *)
LEMMA ShardCloseType ==
  ASSUME TypeOK, NEW j \in JobIds, ShardClose(j) PROVE TypeOK'
<1>1. jobs[j] \in LiveJob /\ jobs[j].seen \in Stats
  BY AtIsLive DEF ShardClose, TypeOK, JobSet, Kinds, LiveJob
<1>2. jobs' \in [JobIds -> JobSet]
  BY <1>1, GotoType DEF ShardClose, TypeOK, JobSet, Pcs
<1>3. successCount' \in Nat /\ failureCount' \in Nat
  <2>1. CountTasks(jobs[j].seen)
    BY DEF ShardClose
  <2> QED BY <1>1, <2>1, CountTasksType
<1>4. shards' \in ShardRows
  <2> DEFINE row == [status |-> IF HasFailed(jobs[j].seen) THEN "failed"
                                ELSE "succeeded",
                     ok |-> jobs[j].seen.ok, bad |-> jobs[j].seen.bad]
  <2>1. row \in [status : ShardStates, ok : Nat, bad : Nat]
    BY <1>1 DEF Stats, ShardStates
  <2>2. shards' = [shards EXCEPT ![jobs[j].shard] = row]
    BY DEF ShardClose
  <2> QED BY <2>1, <2>2 DEF TypeOK, ShardRows
<1> QED BY <1>2, <1>3, <1>4 DEF ShardRows, ShardClose, TypeOK, JobSet

(* Failing the release after a failed shard keeps the types.               *)
LEMMA ShardFailType ==
  ASSUME TypeOK, NEW j \in JobIds, ShardFail(j) PROVE TypeOK'
<1>1. jobs[j] \in LiveJob
  BY AtIsLive DEF ShardFail, TypeOK, JobSet, Kinds
<1>2. jobs' \in [JobIds -> JobSet] /\ faults' \in Nat
  BY <1>1, ReturnType, ReturnErrorType DEF ShardFail, TypeOK, JobSet
<1> QED BY <1>2 DEF ShardFail, TransitionRelease, TypeOK, Statuses, JobSet,
                    plan, counts

(* Going on to the next shard, or succeeding, keeps the types.             *)
LEMMA ShardNextType ==
  ASSUME TypeOK, NEW j \in JobIds, ShardNext(j) PROVE TypeOK'
<1>1. jobs[j] \in LiveJob
  BY AtIsLive DEF ShardNext, TypeOK, JobSet, Kinds
<1>2. jobs' \in [JobIds -> JobSet] /\ faults' \in Nat
  <2>1. CASE \E k \in PendingAfter(jobs[j].shard) :
                EnqueueAndReturn(j, Job("dispatch", k, 0, 0))
    <3>1. PICK k \in PendingAfter(jobs[j].shard) :
                  EnqueueAndReturn(j, Job("dispatch", k, 0, 0))
      BY <2>1
    <3>2. k \in Nat
      BY DomainsAssumption, FS_CardinalityType DEF PendingAfter, ShardIndexes
    <3>3. Job("dispatch", k, 0, 0) \in LiveJob
      BY <3>2, JobType DEF Kinds
    <3> QED BY <1>1, <3>1, <3>3, EnqueueType DEF TypeOK, JobSet
  <2>2. CASE Return(j)
    BY <1>1, <2>2, ReturnType DEF TypeOK, JobSet
  <2>3. CASE ReturnError(j) /\ UNCHANGED faults
    BY <1>1, <2>3, ReturnErrorType DEF TypeOK, JobSet
  <2> QED BY <2>1, <2>2, <2>3 DEF ShardNext
<1> QED BY <1>2 DEF ShardNext, TransitionRelease, TypeOK, Statuses, JobSet,
                    plan, counts

(* The record of a rollback request is well typed.                         *)
LEMMA RequestRollbackType == TypeOK /\ RequestRollback => TypeOK'
<1> SUFFICES ASSUME TypeOK, RequestRollback PROVE TypeOK'
  OBVIOUS
<1>1. status \in {"paused", "failed"}
  BY DEF RequestRollback, CanReleaseTransition, validReleaseTransitions, Statuses
<1>2. ASSUME NEW r \in 0 .. MaxRollbacks
      PROVE  [Job("request", 0, 0, r) EXCEPT !.pc = status] \in JobSet
  <2>1. Job("request", 0, 0, r) \in LiveJob
    BY JobType, ParameterAssumption DEF Kinds
  <2>2. status \in Pcs
    BY <1>1 DEF Pcs
  <2> QED BY <2>1, <2>2 DEF LiveJob, JobSet
<1>3. jobs' \in [JobIds -> JobSet]
  BY <1>2 DEF RequestRollback, TypeOK, JobSet
<1>4. rollbacks' \in [1 .. MaxRollbacks -> {"absent", "open", "succeeded", "failed"}]
  BY DEF RequestRollback, TypeOK
<1>5. faults' \in Nat
  BY DEF RequestRollback, TypeOK, Fault
<1> QED BY <1>3, <1>4, <1>5 DEF RequestRollback, TypeOK, JobSet, plan, counts

(* The transition and the enqueue of Rollback keep the types.              *)
LEMMA BeginRollbackType ==
  ASSUME TypeOK, NEW j \in JobIds, BeginRollback(j) PROVE TypeOK'
<1>1. jobs[j] \in LiveJob
  BY DEF BeginRollback, TypeOK, NoJob
<1>2. Job("rollback", 0, 0, jobs[j].rec) \in JobSet /\ NoJob \in JobSet
  BY <1>1, JobType DEF LiveJob, Kinds, JobSet
<1>3. jobs' \in [JobIds -> JobSet] /\ faults' \in Nat
  BY <1>1, <1>2, ReturnErrorType DEF BeginRollback, TypeOK, JobSet, Fault
<1> QED BY <1>3 DEF BeginRollback, TransitionRelease, TypeOK, Statuses, JobSet,
                    plan, counts

(* Completing a record of any number keeps the records well typed.           *)
LEMMA CompleteType ==
  ASSUME TypeOK, NEW rec, NEW outcome \in {"succeeded", "failed"},
         Complete(rec, outcome)
  PROVE  rollbacks' \in
            [1 .. MaxRollbacks -> {"absent", "open", "succeeded", "failed"}]
BY DEF Complete, TypeOK

(* The rollback tasks that ExecuteRollback inserts are well typed.         *)
LEMMA ExecuteRollbackType ==
  ASSUME TypeOK, NEW j \in JobIds, ExecuteRollback(j) PROVE TypeOK'
<1>1. jobs[j] \in LiveJob
  BY AtIsLive DEF ExecuteRollback, TypeOK, JobSet, Kinds
<1>2. CASE Return(j) /\ UNCHANGED <<status, tasks, rollbacks>>
  <2>1. jobs' \in [JobIds -> JobSet] /\ faults' \in Nat
    BY <1>1, <1>2, ReturnType DEF TypeOK, JobSet
  <2> QED BY <1>2, <2>1 DEF ExecuteRollback, TypeOK, JobSet, plan, counts
<1>3. CASE /\ status' = "failed" /\ Complete(jobs[j].rec, "failed")
           /\ ReturnError(j) /\ UNCHANGED <<tasks, faults>>
  <2>1. jobs' \in [JobIds -> JobSet]
    BY <1>1, <1>3, ReturnErrorType DEF TypeOK, JobSet
  <2>2. rollbacks' \in
           [1 .. MaxRollbacks -> {"absent", "open", "succeeded", "failed"}]
    BY <1>3, CompleteType
  <2> QED BY <1>3, <2>1, <2>2
          DEF ExecuteRollback, TypeOK, Statuses, JobSet, plan, counts
<1>4. CASE ReturnError(j) /\ UNCHANGED <<status, tasks, rollbacks, faults>>
  <2>1. jobs' \in [JobIds -> JobSet]
    BY <1>1, <1>4, ReturnErrorType DEF TypeOK, JobSet
  <2> QED BY <1>4, <2>1 DEF ExecuteRollback, TypeOK, JobSet, plan, counts
<1>5. CASE /\ \E new : tasks' = [t \in TaskIds |->
                                   IF t \in new THEN "pending" ELSE tasks[t]]
           /\ Goto(j, "sent") /\ UNCHANGED <<status, rollbacks, faults>>
  <2>1. jobs' \in [JobIds -> JobSet]
    BY <1>1, <1>5, GotoType DEF TypeOK, JobSet, Pcs
  <2>2. tasks' \in [TaskIds -> TaskStates]
    BY <1>5 DEF TypeOK, TaskStates
  <2> QED BY <1>5, <2>1, <2>2 DEF ExecuteRollback, TypeOK, JobSet, plan, counts
<1> QED BY <1>2, <1>3, <1>4, <1>5 DEF ExecuteRollback, TransitionRelease

(* The enqueue of ExecuteRollback keeps the types.                         *)
LEMMA RollbackSentType ==
  ASSUME TypeOK, NEW j \in JobIds, RollbackSent(j) PROVE TypeOK'
<1>1. jobs[j] \in LiveJob
  BY AtIsLive DEF RollbackSent, TypeOK, JobSet, Kinds
<1>2. Job("undo", 0, 0, jobs[j].rec) \in LiveJob
  BY <1>1, JobType DEF LiveJob, Kinds
<1>3. jobs' \in [JobIds -> JobSet] /\ faults' \in Nat
  BY <1>1, <1>2, EnqueueType DEF RollbackSent, TypeOK, JobSet
<1> QED BY <1>3 DEF RollbackSent, TypeOK, JobSet, plan, counts

(* Counting the tasks of a rollback keeps the types.                       *)
LEMMA RollbackCloseType ==
  ASSUME TypeOK, NEW j \in JobIds, RollbackClose(j) PROVE TypeOK'
<1>1. jobs[j] \in LiveJob /\ jobs[j].seen \in Stats
  BY AtIsLive DEF RollbackClose, TypeOK, JobSet, Kinds, LiveJob
<1>2. jobs' \in [JobIds -> JobSet]
  BY <1>1, GotoType DEF RollbackClose, TypeOK, JobSet, Pcs
<1>3. successCount' \in Nat /\ failureCount' \in Nat
  <2>1. CountTasks(jobs[j].seen)
    BY DEF RollbackClose
  <2> QED BY <1>1, <2>1, CountTasksType
<1>4. shards' \in ShardRows
  <2>1. jobs[j].seen.ok \in Nat /\ jobs[j].seen.bad \in Nat
    BY <1>1 DEF Stats
  <2>2. ASSUME NEW s \in ShardIndexes
        PROVE  [shards[s] EXCEPT !.ok = jobs[j].seen.ok, !.bad = jobs[j].seen.bad]
                  \in [status : ShardStates, ok : Nat, bad : Nat]
    BY <2>1 DEF TypeOK
  <2> QED BY <2>2 DEF RollbackClose, TypeOK, ShardRows
<1> QED BY <1>2, <1>3, <1>4 DEF ShardRows, RollbackClose, TypeOK, JobSet

(* The transition that ends a rollback keeps the types.                    *)
LEMMA RollbackSettleType ==
  ASSUME TypeOK, NEW j \in JobIds, RollbackSettle(j) PROVE TypeOK'
<1>1. jobs[j] \in LiveJob
  BY AtIsLive DEF RollbackSettle, TypeOK, JobSet, Kinds
<1>2. jobs' \in [JobIds -> JobSet]
  BY <1>1, GotoType, ReturnErrorType DEF RollbackSettle, TypeOK, JobSet, Pcs
<1> QED BY <1>2 DEF RollbackSettle, RollbackTo, TransitionRelease, TypeOK,
                    Statuses, JobSet, plan, counts

(* Marking shards and record after a rollback keeps the types.             *)
LEMMA RollbackMarkType ==
  ASSUME TypeOK, NEW j \in JobIds, RollbackMark(j) PROVE TypeOK'
<1> DEFINE outcome == IF HasFailed(jobs[j].seen) THEN "failed" ELSE "succeeded"
<1>1. jobs[j] \in LiveJob
  BY AtIsLive DEF RollbackMark, TypeOK, JobSet, Kinds
<1>2. jobs' \in [JobIds -> JobSet] /\ faults' \in Nat
  BY <1>1, ReturnType DEF RollbackMark, TypeOK, JobSet
<1>3. rollbacks' \in
         [1 .. MaxRollbacks -> {"absent", "open", "succeeded", "failed"}]
  <2>1. Complete(jobs[j].rec, outcome)
    BY DEF RollbackMark
  <2> QED BY <2>1, CompleteType
<1>4. shards' \in ShardRows
  <2>1. ASSUME NEW s \in ShardIndexes
        PROVE  [shards[s] EXCEPT !.status = outcome]
                  \in [status : ShardStates, ok : Nat, bad : Nat]
    <3>1. outcome \in ShardStates
      BY DEF ShardStates
    <3> QED BY <3>1 DEF TypeOK
  <2> QED BY <2>1 DEF RollbackMark, TypeOK, ShardRows
<1> QED BY <1>2, <1>3, <1>4 DEF ShardRows, RollbackMark, TypeOK, JobSet, counts

(* A crash of a worker keeps the types.                                    *)
LEMMA CrashType ==
  ASSUME TypeOK, NEW j \in JobIds, Crash(j) PROVE TypeOK'
<1>1. jobs[j] \in LiveJob
  BY DEF Crash, TypeOK
<1>2. jobs' \in [JobIds -> JobSet] /\ faults' \in Nat
  BY <1>1, ReturnErrorType DEF Crash, Fault, TypeOK, JobSet
<1> QED BY <1>2 DEF Crash, TypeOK, JobSet, plan, counts

(* Losing the queue keeps the types.                                       *)
LEMMA LoseQueueType == TypeOK /\ LoseQueue => TypeOK'
BY DEF LoseQueue, Fault, TypeOK, plan, counts

(* Every operator's request keeps the types.                               *)
LEMMA OperatorType == TypeOK /\ Operator => TypeOK'
<1>1. TypeOK /\ (Pause \/ Resume \/ Cancel) => TypeOK'
  BY DEF Pause, Resume, Cancel, Request, TransitionRelease, TypeOK, Statuses,
         plan, counts
<1> QED BY <1>1, RequestRollbackType DEF Operator

(* Claims and reports of agents keep the types.                            *)
LEMMA AgentType == TypeOK /\ Agent => TypeOK'
BY DEF Agent, ClaimTask, ReportTask, TypeOK, TaskStates, plan, counts

(* What the finalize jobs read are numbers of tasks.                         *)
LEMMA ReadStatsType ==
  /\ StatsByRelease \in Stats
  /\ \A s : StatsByShard(s) \in Stats
BY StatsType DEF StatsByRelease, StatsByShard, Existing

(* Every step of every job keeps the types: one case per step.             *)
LEMMA JobStepType ==
  ASSUME TypeOK, NEW j \in JobIds, JobStep(j) PROVE TypeOK'
<1>1. CASE PlanBegin(j) \/ PlanRows(j)
  BY <1>1, PlanBeginType, PlanRowsType
<1>2. CASE BuildArtifact(j) \/ LinkArtifact(j) \/ MarkReady(j) \/ DispatchFirst(j)
  BY <1>2, BuildArtifactType, LinkArtifactType, MarkReadyType, DispatchFirstType
<1>3. CASE DispatchRead(j) \/ DispatchStart(j) \/ DispatchSend(j) \/ DispatchSent(j)
  BY <1>3, DispatchReadType, DispatchStartType, DispatchSendType, DispatchSentType
<1>4. CASE \/ FinalizeRead(j, "finalize", "executing")
           \/ FinalizeRead(j, "undo", "rolling_back")
  BY <1>4, FinalizeReadType DEF Kinds
<1>5. CASE \/ FinalizeStats(j, "finalize", StatsByShard(jobs[j].shard))
           \/ FinalizeStats(j, "undo", StatsByRelease)
  BY <1>5, ReadStatsType, FinalizeStatsType DEF Kinds
<1>6. CASE ShardClose(j) \/ ShardFail(j) \/ ShardNext(j)
  BY <1>6, ShardCloseType, ShardFailType, ShardNextType
<1>7. CASE BeginRollback(j) \/ ExecuteRollback(j) \/ RollbackSent(j)
  BY <1>7, BeginRollbackType, ExecuteRollbackType, RollbackSentType
<1>8. CASE RollbackClose(j) \/ RollbackSettle(j) \/ RollbackMark(j)
  BY <1>8, RollbackCloseType, RollbackSettleType, RollbackMarkType
<1> QED BY <1>1, <1>2, <1>3, <1>4, <1>5, <1>6, <1>7, <1>8 DEF JobStep

(* TypeOK is inductive.                                                    *)
LEMMA NextType == TypeOK /\ [Next]_vars => TypeOK'
<1> SUFFICES ASSUME TypeOK, [Next]_vars PROVE TypeOK'
  OBVIOUS
<1>1. CASE UNCHANGED vars
  BY <1>1 DEF vars, plan, counts, TypeOK
<1>2. CASE Create \/ LoseQueue \/ Operator \/ Agent
  BY <1>2, CreateType, LoseQueueType, OperatorType, AgentType
<1>3. CASE \E j \in JobIds : JobStep(j) \/ Crash(j)
  BY <1>3, JobStepType, CrashType
<1> QED BY <1>1, <1>2, <1>3 DEF Next

(* Every column of the release's rows and every job payload keeps its type,  *)
(* whatever crashes, retries and requests interleave.                        *)
THEOREM TypeCorrect == Spec => []TypeOK
<1>1. TypeOK /\ [Next]_vars => TypeOK'
  BY NextType
<1> QED BY InitType, <1>1, PTL DEF Spec

-----------------------------------------------------------------------------
(* Terminal states are final.                                                *)

(* Every step leaves the status alone or follows an edge of the table from   *)
(* the status the row has.                                                   *)
LEMMA StatusMovesAlongEdges ==
  ASSUME TypeOK, [Next]_vars
  PROVE  \/ status' = status
         \/ status = "none" /\ status' = "pending"
         \/ CanReleaseTransition(status, status')
<1>1. CASE UNCHANGED vars
  BY <1>1 DEF vars
<1>2. CASE Create
  BY <1>2 DEF Create
<1>3. CASE LoseQueue \/ Agent
  BY <1>3 DEF LoseQueue, Agent, ClaimTask, ReportTask
<1>4. CASE Operator
  BY <1>4 DEF Operator, Pause, Resume, Cancel, Request, TransitionRelease,
              CanMove, RequestRollback
<1>5. ASSUME NEW j \in JobIds, JobStep(j) \/ Crash(j)
      PROVE  status' = status \/ CanReleaseTransition(status, status')
  <2>1. CASE Crash(j)
    BY <2>1 DEF Crash
  <2>2. CASE PlanBegin(j) \/ PlanRows(j)
    BY <2>2 DEF PlanBegin, PlanRows, TransitionRelease, TryMove, CanMove
  <2>3. CASE BuildArtifact(j) \/ LinkArtifact(j) \/ MarkReady(j) \/ DispatchFirst(j)
    BY <2>3 DEF BuildArtifact, LinkArtifact, MarkReady, DispatchFirst,
                TransitionRelease, CanMove
  <2>4. CASE DispatchRead(j) \/ DispatchStart(j) \/ DispatchSend(j) \/ DispatchSent(j)
    BY <2>4 DEF DispatchRead, DispatchStart, DispatchSend, DispatchSent,
                TransitionRelease, CanMove
  <2>5. CASE \/ FinalizeRead(j, "finalize", "executing")
             \/ FinalizeRead(j, "undo", "rolling_back")
             \/ FinalizeStats(j, "finalize", StatsByShard(jobs[j].shard))
             \/ FinalizeStats(j, "undo", StatsByRelease)
    BY <2>5 DEF FinalizeRead, FinalizeStats
  <2>6. CASE ShardClose(j) \/ ShardFail(j) \/ ShardNext(j)
    BY <2>6 DEF ShardClose, ShardFail, ShardNext, TransitionRelease, CanMove
  <2>7. CASE BeginRollback(j) \/ ExecuteRollback(j) \/ RollbackSent(j)
    BY <2>7 DEF BeginRollback, ExecuteRollback, RollbackSent,
                TransitionRelease, CanMove
  <2>8. CASE RollbackClose(j) \/ RollbackSettle(j) \/ RollbackMark(j)
    BY <2>8 DEF RollbackClose, RollbackSettle, RollbackMark,
                TransitionRelease, CanMove
  <2> QED BY <1>5, <2>1, <2>2, <2>3, <2>4, <2>5, <2>6, <2>7, <2>8 DEF JobStep
<1> QED BY <1>1, <1>2, <1>3, <1>4, <1>5 DEF Next

(* No step, of any number of late, retried or duplicated jobs and requests,  *)
(* takes a release out of a terminal state (TransitionRelease).              *)
THEOREM TerminalForever == Spec => TerminalIsFinal
<1>1. TypeOK /\ [Next]_vars
        => ((status \in {"succeeded", "rolled_back", "cancelled"})
               => status' = status)
  <2> SUFFICES ASSUME TypeOK, [Next]_vars,
                      status \in {"succeeded", "rolled_back", "cancelled"}
               PROVE  status' = status
    OBVIOUS
  <2>1. validReleaseTransitions[status] = {}
    BY DEF validReleaseTransitions, Statuses
  <2> QED BY <2>1, StatusMovesAlongEdges DEF CanReleaseTransition
<1>2. Spec => [][(status \in {"succeeded", "rolled_back", "cancelled"})
                    => status' = status]_vars
  BY <1>1, TypeCorrect, PTL DEF Spec
<1> QED BY <1>2 DEF TerminalIsFinal

-----------------------------------------------------------------------------
(* What a job knows of the release when it reaches the steps that matter: a  *)
(* build job about to mark the release ready has linked the artifact, and a  *)
(* finalize job about to record a successful rollback has made the release   *)
(* rolled_back.                                                              *)

(* A step after which no job is newly at one of those two places.            *)
Quiet ==
    \A k \in JobIds : \/ jobs'[k] = jobs[k]
                      \/ jobs'[k] = NoJob
                      \/ jobs'[k].pc \notin {"ready", "mark"}

(* Moving a job to any other place is quiet.                               *)
LEMMA QuietGoto ==
  ASSUME TypeOK, NEW j \in JobIds, jobs[j] \in LiveJob,
         NEW pc \in Pcs \ {"ready", "mark"}, Goto(j, pc)
  PROVE  Quiet
BY DEF Goto, Quiet, TypeOK, LiveJob

(* Returning an error is quiet.                                            *)
LEMMA QuietReturnError ==
  ASSUME TypeOK, NEW j \in JobIds, jobs[j] \in LiveJob, ReturnError(j)
  PROVE  Quiet
<1>1. AfterError(jobs[j]) = NoJob \/ AfterError(jobs[j]).pc = "queued"
  BY DEF AfterError, LiveJob
<1> QED BY <1>1 DEF ReturnError, Quiet, TypeOK

(* Returning nil is quiet.                                                 *)
LEMMA QuietReturn ==
  ASSUME TypeOK, NEW j \in JobIds, jobs[j] \in LiveJob, Return(j)
  PROVE  Quiet
<1>1. CASE jobs' = [jobs EXCEPT ![j] = NoJob]
  BY <1>1 DEF Quiet, TypeOK
<1> QED BY <1>1, QuietReturnError DEF Return

(* Enqueueing a job is quiet: a new job is queued.                         *)
LEMMA QuietEnqueue ==
  ASSUME TypeOK, NEW j \in JobIds, jobs[j] \in LiveJob,
         NEW kind, NEW shard, NEW poll, NEW rec,
         EnqueueAndReturn(j, Job(kind, shard, poll, rec))
  PROVE  Quiet
<1>1. AfterError(jobs[j]) = NoJob \/ AfterError(jobs[j]).pc = "queued"
  BY DEF AfterError, LiveJob
<1>2. Job(kind, shard, poll, rec).pc = "queued"
  BY DEF Job
<1> QED BY <1>1, <1>2 DEF EnqueueAndReturn, Quiet, TypeOK

(* Only two handlers' steps are not quiet.                                   *)
LEMMA QuietJobStep ==
  ASSUME TypeOK, NEW j \in JobIds, JobStep(j)
  PROVE  Quiet \/ LinkArtifact(j) \/ RollbackSettle(j)
<1>1. CASE jobs[j] \notin LiveJob
  <2>1. jobs[j] = NoJob
    BY <1>1 DEF TypeOK
  <2> QED BY <2>1 DEF JobStep, NoJob, At, PlanBegin, PlanRows, BuildArtifact,
                LinkArtifact, MarkReady, DispatchFirst, DispatchRead,
                DispatchStart, DispatchSend, DispatchSent, FinalizeRead,
                FinalizeStats, ShardClose, ShardFail, ShardNext, BeginRollback,
                ExecuteRollback, RollbackSent, RollbackClose, RollbackSettle,
                RollbackMark
<1>2. CASE jobs[j] \in LiveJob
  <2>1. CASE PlanBegin(j) \/ BuildArtifact(j) \/ MarkReady(j)
    BY <1>2, <2>1, QuietGoto, QuietReturnError
       DEF PlanBegin, BuildArtifact, MarkReady, Pcs
  <2>2. CASE PlanRows(j)
    <3>1. \/ ReturnError(j)
          \/ \E k \in JobIds :
                jobs' = [jobs EXCEPT ![j] = NoJob, ![k] = Job("build", 0, 0, 0)]
      BY <2>2 DEF PlanRows
    <3>2. Job("build", 0, 0, 0).pc = "queued"
      BY DEF Job
    <3>3. CASE ReturnError(j)
      BY <1>2, <3>3, QuietReturnError
    <3>4. CASE \E k \in JobIds :
                jobs' = [jobs EXCEPT ![j] = NoJob, ![k] = Job("build", 0, 0, 0)]
      BY <3>2, <3>4 DEF Quiet, TypeOK
    <3> QED BY <3>1, <3>3, <3>4
  <2>3. CASE DispatchFirst(j) \/ DispatchSent(j) \/ RollbackSent(j)
    BY <1>2, <2>3, QuietEnqueue DEF DispatchFirst, DispatchSent, RollbackSent
  <2>4. CASE DispatchRead(j) \/ DispatchStart(j) \/ DispatchSend(j)
    BY <1>2, <2>4, QuietGoto, QuietReturnError
       DEF DispatchRead, DispatchStart, DispatchSend, Pcs
  <2>5. CASE \/ FinalizeRead(j, "finalize", "executing")
             \/ FinalizeRead(j, "undo", "rolling_back")
    BY <1>2, <2>5, QuietGoto, QuietReturn DEF FinalizeRead, Pcs
  <2>6. ASSUME NEW kind, NEW stats, FinalizeStats(j, kind, stats) PROVE Quiet
    <3>1. CASE EnqueueAndReturn(j, Job(kind, jobs[j].shard, jobs[j].poll + 1,
                                       jobs[j].rec))
      BY <1>2, <3>1, QuietEnqueue
    <3>2. CASE jobs' = [jobs EXCEPT ![j].pc = "close", ![j].seen = stats]
      <4>1. jobs'[j].pc = "close"
        BY <1>2, <3>2 DEF TypeOK, LiveJob
      <4>2. \A k \in JobIds \ {j} : jobs'[k] = jobs[k]
        BY <3>2 DEF TypeOK
      <4> QED BY <4>1, <4>2 DEF Quiet
    <3> QED BY <2>6, <3>1, <3>2 DEF FinalizeStats
  <2>7. CASE ShardClose(j) \/ RollbackClose(j)
    BY <1>2, <2>7, QuietGoto DEF ShardClose, RollbackClose, Pcs
  <2>8. CASE ShardFail(j) \/ RollbackMark(j)
    BY <1>2, <2>8, QuietReturn, QuietReturnError DEF ShardFail, RollbackMark
  <2>9. CASE ShardNext(j)
    BY <1>2, <2>9, QuietEnqueue, QuietReturn, QuietReturnError DEF ShardNext
  <2>10. CASE BeginRollback(j)
    <3>1. Job("rollback", 0, 0, jobs[j].rec).pc = "queued"
      BY DEF Job
    <3>2. CASE \/ jobs' = [jobs EXCEPT ![j] = Job("rollback", 0, 0, jobs[j].rec)]
               \/ jobs' = [jobs EXCEPT ![j] = NoJob]
      BY <3>1, <3>2 DEF Quiet, TypeOK
    <3> QED BY <1>2, <2>10, <3>2, QuietReturnError DEF BeginRollback
  <2>11. CASE ExecuteRollback(j)
    <3>1. Return(j) \/ ReturnError(j) \/ Goto(j, "sent")
      BY <2>11 DEF ExecuteRollback
    <3> QED BY <1>2, <3>1, QuietGoto, QuietReturn, QuietReturnError DEF Pcs
  <2> QED BY <2>1, <2>2, <2>3, <2>4, <2>5, <2>6, <2>7, <2>8, <2>9, <2>10, <2>11
          DEF JobStep
<1> QED BY <1>1, <1>2

(* Every step is quiet but the two that lead to those places.              *)
LEMMA QuietNext ==
  ASSUME TypeOK, [Next]_vars
  PROVE  Quiet \/ \E j \in JobIds : LinkArtifact(j) \/ RollbackSettle(j)
<1>1. CASE UNCHANGED jobs
  BY <1>1 DEF Quiet
<1>2. CASE Create
  <2>1. Job("plan", 0, 0, 0).pc = "queued"
    BY DEF Job
  <2> QED BY <1>2, <2>1 DEF Create, Quiet, TypeOK
<1>3. CASE LoseQueue
  BY <1>3 DEF LoseQueue, Quiet
<1>4. CASE RequestRollback
  <2>1. status \in {"paused", "failed"}
    BY <1>4 DEF RequestRollback, CanReleaseTransition, validReleaseTransitions,
                Statuses
  <2>2. \A r : [Job("request", 0, 0, r) EXCEPT !.pc = status].pc = status
    BY DEF Job
  <2> QED BY <1>4, <2>1, <2>2 DEF RequestRollback, Quiet, TypeOK
<1>5. CASE Pause \/ Resume \/ Cancel \/ Agent
  <2>1. UNCHANGED jobs
    BY <1>5 DEF Pause, Resume, Cancel, Request, Agent, ClaimTask, ReportTask
  <2> QED BY <1>1, <2>1
<1>6. ASSUME NEW j \in JobIds, Crash(j) PROVE Quiet
  <2>1. jobs[j] \in LiveJob
    BY <1>6 DEF Crash, TypeOK
  <2> QED BY <1>6, <2>1, QuietReturnError DEF Crash
<1>7. CASE UNCHANGED vars
  BY <1>1, <1>7 DEF vars
<1> QED BY <1>1, <1>2, <1>3, <1>4, <1>5, <1>6, <1>7, QuietJobStep
        DEF Next, Operator

-----------------------------------------------------------------------------
(* A release on its way out has its artifact.                                *)

(* ReleaseHasArtifact is not inductive: MarkReady moves the release without  *)
(* a look at artifact_id, and relies on having set it before.                *)
ArtifactInv ==
    /\ ReleaseHasArtifact
    /\ \A j \in JobIds : At(j, "build", "ready") => artifact = "linked"

(* A linked artifact stays linked.                                           *)
LEMMA LinkedStays ==
  ASSUME TypeOK, [Next]_vars, artifact = "linked" PROVE artifact' = "linked"
<1>1. CASE UNCHANGED vars \/ Create \/ LoseQueue \/ Operator \/ Agent
  BY <1>1 DEF vars, Create, LoseQueue, Operator, Pause, Resume, Cancel, Request,
              RequestRollback, Agent, ClaimTask, ReportTask
<1>2. ASSUME NEW j \in JobIds, JobStep(j) \/ Crash(j) PROVE artifact' = "linked"
  BY <1>2 DEF Crash, JobStep, PlanBegin, PlanRows, BuildArtifact, LinkArtifact,
       MarkReady, DispatchFirst, DispatchRead, DispatchStart, DispatchSend,
       DispatchSent, FinalizeRead, FinalizeStats, ShardClose, ShardFail,
       ShardNext, BeginRollback, ExecuteRollback, RollbackSent, RollbackClose,
       RollbackSettle, RollbackMark
<1> QED BY <1>1, <1>2 DEF Next

(* The status reaches ready in MarkReady only, and a release gets its first  *)
(* deploy task in DispatchSend only.                                         *)
LEMMA ReadyByMarkReady ==
  ASSUME TypeOK, [Next]_vars, status' = "ready", status # "ready"
  PROVE  \E j \in JobIds : At(j, "build", "ready")
<1>1. ~(UNCHANGED vars \/ Create \/ LoseQueue \/ Operator \/ Agent)
  BY DEF vars, Create, LoseQueue, Operator, Pause, Resume, Cancel, Request,
         TransitionRelease, RequestRollback, Agent, ClaimTask, ReportTask
<1>2. ASSUME NEW j \in JobIds, JobStep(j) \/ Crash(j)
      PROVE  At(j, "build", "ready")
  BY <1>2 DEF Crash, JobStep, PlanBegin, PlanRows, BuildArtifact, LinkArtifact,
       MarkReady, DispatchFirst, DispatchRead, DispatchStart, DispatchSend,
       DispatchSent, FinalizeRead, FinalizeStats, ShardClose, ShardFail,
       ShardNext, BeginRollback, ExecuteRollback, RollbackSent, RollbackClose,
       RollbackSettle, RollbackMark, RollbackTo, TransitionRelease, TryMove
<1> QED BY <1>1, <1>2 DEF Next

(* The first deploy task is inserted only when artifact_id is set:         *)
(* DispatchShard returns an error otherwise.                               *)
LEMMA DeploysBySend ==
  ASSUME TypeOK, [Next]_vars, Deploys = {}, Deploys' # {}
  PROVE  artifact = "linked"
<1>1. PICK t \in TaskIds : tasks'[t] # "absent" /\ t.op = "deploy"
  BY DEF Deploys, Existing
<1>2. tasks[t] = "absent"
  BY <1>1 DEF Deploys, Existing
<1>3. CASE UNCHANGED vars \/ Create \/ LoseQueue \/ Operator
  BY <1>1, <1>2, <1>3 DEF vars, Create, LoseQueue, Operator, Pause, Resume,
              Cancel, Request, RequestRollback
<1>4. CASE Agent
  BY <1>1, <1>2, <1>4 DEF Agent, ClaimTask, ReportTask, TypeOK
<1>5. ASSUME NEW j \in JobIds, ExecuteRollback(j) PROVE artifact = "linked"
  <2>1. CASE UNCHANGED tasks
    BY <1>1, <1>2, <2>1
  <2>2. CASE \E new \in SUBSET {u \in TaskIds : u.op = "rollback"} :
                tasks' = [u \in TaskIds |->
                            IF u \in new THEN "pending" ELSE tasks[u]]
    BY <1>1, <1>2, <2>2
  <2> QED BY <1>5, <2>1, <2>2 DEF ExecuteRollback, Insertable
<1>6. ASSUME NEW j \in JobIds, DispatchSend(j) PROVE artifact = "linked"
  BY <1>1, <1>2, <1>6 DEF DispatchSend
<1>7. ASSUME NEW j \in JobIds, JobStep(j) \/ Crash(j),
             ~ExecuteRollback(j), ~DispatchSend(j)
      PROVE  artifact = "linked"
  <2>1. UNCHANGED tasks
    BY <1>7 DEF Crash, JobStep, PlanBegin, PlanRows, BuildArtifact, LinkArtifact,
       MarkReady, DispatchFirst, DispatchRead, DispatchStart,
       DispatchSent, FinalizeRead, FinalizeStats, ShardClose, ShardFail,
       ShardNext, BeginRollback, RollbackSent, RollbackClose,
       RollbackSettle, RollbackMark
  <2> QED BY <1>1, <1>2, <2>1
<1> QED BY <1>3, <1>4, <1>5, <1>6, <1>7 DEF Next

(* ArtifactInv is inductive.                                               *)
LEMMA ArtifactStep == TypeOK /\ ArtifactInv /\ [Next]_vars => ArtifactInv'
<1> SUFFICES ASSUME TypeOK, ArtifactInv, [Next]_vars PROVE ArtifactInv'
  OBVIOUS
<1>1. CASE artifact = "linked"
  BY <1>1, LinkedStays DEF ArtifactInv, ReleaseHasArtifact
<1>2. CASE artifact # "linked"
  <2>1. status' \notin {"ready", "executing", "paused", "succeeded"}
    <3>1. status \notin {"ready", "executing", "paused", "succeeded"}
      BY <1>2 DEF ArtifactInv, ReleaseHasArtifact
    <3>2. status' # "ready"
      BY <1>2, <3>1, ReadyByMarkReady DEF ArtifactInv
    <3>3. CASE CanReleaseTransition(status, status')
      BY <3>1, <3>2, <3>3
         DEF CanReleaseTransition, validReleaseTransitions, Statuses
    <3> QED BY <3>1, <3>3, StatusMovesAlongEdges
  <2>2. Deploys' = {}
    BY <1>2, DeploysBySend DEF ArtifactInv, ReleaseHasArtifact
  <2>3. ASSUME NEW k \in JobIds, At(k, "build", "ready")'
        PROVE  artifact' = "linked"
    <3>1. CASE Quiet
      <4>1. jobs'[k] = jobs[k]
        BY <2>3, <3>1 DEF Quiet, At, NoJob
      <4> QED BY <1>2, <2>3, <4>1 DEF ArtifactInv, At
    <3>2. CASE \E j \in JobIds : LinkArtifact(j)
      BY <3>2 DEF LinkArtifact
    <3>3. CASE \E j \in JobIds : RollbackSettle(j)
      <4>1. PICK j \in JobIds : RollbackSettle(j)
        BY <3>3
      <4>2. jobs[j] \in LiveJob /\ jobs[j].kind = "undo"
        BY <4>1, AtIsLive DEF RollbackSettle, TypeOK, JobSet, Kinds
      <4>3. CASE k = j
        <5>1. jobs'[j].kind # "build"
          <6>1. AfterError(jobs[j]).kind # "build"
            BY <4>2 DEF AfterError, NoJob, LiveJob
          <6>2. Goto(j, "mark") \/ ReturnError(j)
            BY <4>1 DEF RollbackSettle
          <6>3. CASE Goto(j, "mark")
            BY <4>2, <6>3 DEF Goto, LiveJob, TypeOK
          <6>4. CASE ReturnError(j)
            BY <6>1, <6>4 DEF ReturnError, TypeOK
          <6> QED BY <6>2, <6>3, <6>4
        <5> QED BY <2>3, <4>3, <5>1 DEF At
      <4>4. CASE k # j
        <5>1. jobs'[k] = jobs[k]
          BY <4>1, <4>4 DEF RollbackSettle, Goto, ReturnError, TypeOK
        <5> QED BY <1>2, <2>3, <5>1 DEF ArtifactInv, At
      <4> QED BY <4>3, <4>4
    <3> QED BY <3>1, <3>2, <3>3, QuietNext
  <2> QED BY <2>1, <2>2, <2>3 DEF ArtifactInv, ReleaseHasArtifact
<1> QED BY <1>1, <1>2

(* Whatever crashes between SetArtifactID and the transition, and however    *)
(* often the build job runs again, no release is ready, runs or has deploy   *)
(* tasks without its artifact (MarkReady, DispatchShard).                    *)
THEOREM ArtifactLinked == Spec => []ReleaseHasArtifact
<1>1. Init => ArtifactInv
  BY DEF Init, ArtifactInv, ReleaseHasArtifact, Deploys, Existing, At, NoJob
<1>2. ArtifactInv => ReleaseHasArtifact
  BY DEF ArtifactInv
<1> QED BY <1>1, <1>2, ArtifactStep, TypeCorrect, PTL DEF Spec

-----------------------------------------------------------------------------
(* A rollback record tells the truth.                                        *)

(* RecordIsTrue is not inductive: RollbackMark writes the outcome after the  *)
(* transition, from the statistics it has kept.                              *)
RecordInv ==
    /\ RecordIsTrue
    /\ \A j \in JobIds :
          At(j, "undo", "mark") /\ ~HasFailed(jobs[j].seen)
             => status = "rolled_back"

(* A record is completed as succeeded by RollbackMark only.                  *)
LEMMA SucceededByMark ==
  ASSUME TypeOK, [Next]_vars, NEW r \in 1 .. MaxRollbacks,
         rollbacks'[r] = "succeeded", rollbacks[r] # "succeeded"
  PROVE  \E j \in JobIds : At(j, "undo", "mark") /\ ~HasFailed(jobs[j].seen)
<1>1. CASE UNCHANGED vars \/ Create \/ LoseQueue \/ Agent \/ Pause \/ Resume \/ Cancel
  BY <1>1 DEF vars, Create, LoseQueue, Pause, Resume, Cancel, Request, Agent,
              ClaimTask, ReportTask
<1>2. CASE RequestRollback
  BY <1>2 DEF RequestRollback, TypeOK
<1>3. ASSUME NEW j \in JobIds, ExecuteRollback(j) PROVE FALSE
  BY <1>3 DEF ExecuteRollback, Complete, TypeOK
<1>4. ASSUME NEW j \in JobIds, RollbackMark(j)
      PROVE  At(j, "undo", "mark") /\ ~HasFailed(jobs[j].seen)
  BY <1>4 DEF RollbackMark, Complete, TypeOK
<1>5. ASSUME NEW j \in JobIds, JobStep(j) \/ Crash(j),
             ~ExecuteRollback(j), ~RollbackMark(j)
      PROVE  FALSE
  BY <1>5 DEF Crash, JobStep, PlanBegin, PlanRows, BuildArtifact, LinkArtifact,
     MarkReady, DispatchFirst, DispatchRead, DispatchStart, DispatchSend,
     DispatchSent, FinalizeRead, FinalizeStats, ShardClose, ShardFail,
     ShardNext, BeginRollback, RollbackSent, RollbackClose, RollbackSettle
<1> QED BY <1>1, <1>2, <1>3, <1>4, <1>5 DEF Next, Operator

(* RecordInv is inductive.                                                 *)
LEMMA RecordStep == TypeOK /\ RecordInv /\ [Next]_vars => RecordInv'
<1> SUFFICES ASSUME TypeOK, RecordInv, [Next]_vars PROVE RecordInv'
  OBVIOUS
<1>1. status = "rolled_back" => status' = "rolled_back"
  BY StatusMovesAlongEdges
     DEF CanReleaseTransition, validReleaseTransitions, Statuses
<1>2. RecordIsTrue'
  BY <1>1, SucceededByMark DEF RecordInv, RecordIsTrue
<1>3. ASSUME NEW k \in JobIds, At(k, "undo", "mark")', ~HasFailed(jobs'[k].seen)
      PROVE  status' = "rolled_back"
  <2>1. CASE jobs'[k] = jobs[k]
    BY <1>1, <1>3, <2>1 DEF RecordInv, At
  <2>2. CASE Quiet
    BY <1>3, <2>1, <2>2 DEF Quiet, At, NoJob
  <2>3. ASSUME NEW j \in JobIds, LinkArtifact(j) PROVE status' = "rolled_back"
    <3>1. jobs[j] \in LiveJob
      BY <2>3, AtIsLive DEF LinkArtifact, TypeOK, JobSet, Kinds
    <3>2. jobs'[j].pc = "ready"
      BY <2>3, <3>1 DEF LinkArtifact, Goto, TypeOK, LiveJob
    <3>3. k # j
      BY <1>3, <3>2 DEF At
    <3>4. jobs'[k] = jobs[k]
      BY <2>3, <3>3 DEF LinkArtifact, Goto, TypeOK
    <3> QED BY <2>1, <3>4
  <2>4. ASSUME NEW j \in JobIds, RollbackSettle(j) PROVE status' = "rolled_back"
    <3>1. jobs[j] \in LiveJob
      BY <2>4, AtIsLive DEF RollbackSettle, TypeOK, JobSet, Kinds
    <3>2. CASE k # j
      <4>1. jobs'[k] = jobs[k]
        BY <2>4, <3>2 DEF RollbackSettle, Goto, ReturnError, TypeOK
      <4> QED BY <2>1, <4>1
    <3>3. CASE k = j
      <4>1. CASE ReturnError(j)
        <5>1. jobs'[j] = NoJob \/ jobs'[j].pc = "queued"
          BY <3>1, <4>1 DEF ReturnError, AfterError, LiveJob, TypeOK
        <5> QED BY <1>3, <3>3, <5>1 DEF At, NoJob
      <4>2. CASE Goto(j, "mark") /\ status' = RollbackTo(jobs[j].seen)
        <5>1. jobs'[j].seen = jobs[j].seen
          BY <3>1, <4>2 DEF Goto, LiveJob, TypeOK
        <5>2. ~HasFailed(jobs[j].seen)
          BY <1>3, <3>3, <5>1
        <5> QED BY <4>2, <5>2 DEF RollbackTo
      <4> QED BY <2>4, <4>1, <4>2 DEF RollbackSettle, TransitionRelease
    <3> QED BY <3>2, <3>3
  <2> QED BY <2>2, <2>3, <2>4, QuietNext
<1>4. \A k \in JobIds : (At(k, "undo", "mark") /\ ~HasFailed(jobs[k].seen)
                           => status = "rolled_back")'
  BY <1>3 DEF At, HasFailed
<1> QED BY <1>2, <1>4 DEF RecordInv

(* No race of rollbacks, cancellations and crashes completes a rollback      *)
(* record as succeeded when its release went elsewhere (Finalize).           *)
THEOREM RecordsTrue == Spec => []RecordIsTrue
<1>1. Init => RecordInv
  BY DEF Init, RecordInv, RecordIsTrue, At, NoJob
<1>2. RecordInv => RecordIsTrue
  BY DEF RecordInv
<1> QED BY <1>1, <1>2, RecordStep, TypeCorrect, PTL DEF Spec

-----------------------------------------------------------------------------
(* The agent_tasks rows of a release implement AgentTask.                    *)

(* Every step inserts rows, claims one, reports one or leaves them alone.    *)
LEMMA TaskStep ==
  ASSUME TypeOK, [Next]_vars PROVE [AgentTasks!Next]_tasks
<1>1. CASE UNCHANGED tasks
  BY <1>1
<1>2. ASSUME NEW new \in SUBSET {t \in TaskIds : tasks[t] = "absent"},
             tasks' = [t \in TaskIds |-> IF t \in new THEN "pending" ELSE tasks[t]]
      PROVE  AgentTasks!Next
  BY <1>2 DEF AgentTasks!Next, AgentTasks!Insert
<1>3. Insertable = {t \in TaskIds : tasks[t] = "absent"}
  BY DEF Insertable, Existing
<1>4. CASE Agent
  <2>1. PICK t \in TaskIds :
               ClaimTask(t) \/ \E o \in {"succeeded", "failed"} : ReportTask(t, o)
    BY <1>4 DEF Agent
  <2>2. CASE ClaimTask(t)
    BY <2>2 DEF ClaimTask, AgentTasks!Next, AgentTasks!Claim
  <2>3. ASSUME NEW o \in {"succeeded", "failed"}, ReportTask(t, o)
        PROVE  AgentTasks!Next
    BY <2>3 DEF ReportTask, AgentTasks!Next, AgentTasks!Report
  <2> QED BY <2>1, <2>2, <2>3
<1>5. ASSUME NEW j \in JobIds, ExecuteRollback(j) PROVE [AgentTasks!Next]_tasks
  <2>1. \/ UNCHANGED tasks
        \/ \E new \in SUBSET Insertable :
              tasks' = [t \in TaskIds |-> IF t \in new THEN "pending" ELSE tasks[t]]
    BY <1>5 DEF ExecuteRollback
  <2> QED BY <1>2, <1>3, <2>1
<1>6. ASSUME NEW j \in JobIds, DispatchSend(j) PROVE [AgentTasks!Next]_tasks
  <2>1. \/ UNCHANGED tasks
        \/ \E new \in SUBSET Insertable :
              tasks' = [t \in TaskIds |-> IF t \in new THEN "pending" ELSE tasks[t]]
    BY <1>6 DEF DispatchSend
  <2> QED BY <1>2, <1>3, <2>1
<1>7. ASSUME NEW j \in JobIds, JobStep(j) \/ Crash(j),
             ~ExecuteRollback(j), ~DispatchSend(j)
      PROVE  UNCHANGED tasks
  BY <1>7 DEF Crash, JobStep, PlanBegin, PlanRows, BuildArtifact, LinkArtifact,
     MarkReady, DispatchFirst, DispatchRead, DispatchStart, DispatchSent,
     FinalizeRead, FinalizeStats, ShardClose, ShardFail, ShardNext,
     BeginRollback, RollbackSent, RollbackClose, RollbackSettle, RollbackMark
<1>8. CASE UNCHANGED vars \/ Create \/ LoseQueue \/ Operator
  <2>1. UNCHANGED tasks
    BY <1>8 DEF vars, Create, LoseQueue, Operator, Pause, Resume, Cancel,
                Request, RequestRollback
  <2> QED BY <2>1
<1> QED BY <1>4, <1>5, <1>6, <1>7, <1>8 DEF Next

(* However shards are dispatched again and rollbacks repeated, a task of the *)
(* release is inserted, claimed and reported once (DispatchShard,            *)
(* ExecuteRollback, the UNIQUE task_id).                                     *)
THEOREM TasksImplemented == Spec => TasksOnce
<1>1. Init => AgentTasks!Init
  BY DEF Init, AgentTasks!Init
<1>2. TypeOK /\ [Next]_vars => [AgentTasks!Next]_tasks
  BY TaskStep
<1> QED BY <1>1, <1>2, TypeCorrect, PTL DEF Spec, TasksOnce, AgentTasks!Spec

-----------------------------------------------------------------------------
(* Shards go out in order.  Plan, build, dispatch and finalize jobs form one *)
(* chain: without a fault at most one of them exists at a time, and it knows *)
(* how far the release has come.                                             *)

Chain == {"plan", "build", "dispatch", "finalize"}

Rolling == {"request", "rollback", "undo"}

(* A job that was in one slot, as the same or another job there.             *)
Moved(j, y) == jobs' = [jobs EXCEPT ![j] = y]

(* A job that ends and leaves another in a free slot.                        *)
Handed(j, y) ==
    \E k \in JobIds : /\ jobs[k] = NoJob /\ k # j
                      /\ jobs' = [jobs EXCEPT ![j] = NoJob, ![k] = y]

(* A fault counts, so it cannot be what a step without faults did.           *)
LEMMA NoFault == TypeOK /\ faults' = 0 => ~Fault
BY DEF TypeOK, Fault

(* There is no way back from a fault.                                        *)
LEMMA FaultsStay ==
  ASSUME TypeOK, [Next]_vars, faults' = 0
  PROVE  faults = 0
<1>1. ~Fault
  BY NoFault
<1>2. CASE UNCHANGED vars \/ Create \/ LoseQueue \/ Operator \/ Agent
  BY <1>1, <1>2 DEF vars, Create, LoseQueue, Operator, Pause, Resume, Cancel,
        Request, RequestRollback, Agent, ClaimTask, ReportTask
<1>3. ASSUME NEW j \in JobIds, JobStep(j) \/ Crash(j) PROVE faults = 0
  BY <1>1, <1>3 DEF JobStep, Crash, PlanBegin, PlanRows, BuildArtifact,
     LinkArtifact, MarkReady, DispatchFirst, DispatchRead, DispatchStart,
     DispatchSend, DispatchSent, FinalizeRead, FinalizeStats, ShardClose,
     ShardFail, ShardNext, BeginRollback, ExecuteRollback, RollbackSent,
     RollbackClose, RollbackSettle, RollbackMark, Return, EnqueueAndReturn
<1> QED BY <1>2, <1>3 DEF Next

(* What remains of the ways a handler can end when nothing fails.            *)
LEMMA CleanReturn ==
  ASSUME TypeOK, faults' = 0, NEW j, Return(j)
  PROVE  Moved(j, NoJob)
BY NoFault DEF Return, Moved

(* A handler that ends with an enqueue hands over to the new job.            *)
LEMMA CleanEnqueue ==
  ASSUME TypeOK, faults' = 0, NEW j \in JobIds, jobs[j] # NoJob, NEW y,
         EnqueueAndReturn(j, y)
  PROVE  Handed(j, y)
BY NoFault DEF EnqueueAndReturn, FreeSlot, Handed

(* An error leaves no job, or the same one queued again.                     *)
LEMMA ErrorMoves ==
  ASSUME TypeOK, NEW j \in JobIds, jobs[j] \in LiveJob, ReturnError(j)
  PROVE  \E y : /\ Moved(j, y)
                /\ \/ y = NoJob
                   \/ /\ MaxRetry[jobs[j].kind] > 0
                      /\ y \in LiveJob /\ y.kind = jobs[j].kind
                      /\ y.shard = jobs[j].shard /\ y.pc = "queued"
<1> DEFINE y == AfterError(jobs[j])
<1>1. Moved(j, y)
  BY DEF ReturnError, Moved
<1>2. MaxRetry[jobs[j].kind] \in Nat
  BY DEF LiveJob, Kinds, MaxRetry
<1>3. CASE jobs[j].attempt < MaxRetry[jobs[j].kind]
  <2>1. y = [jobs[j] EXCEPT !.attempt = @ + 1, !.pc = "queued", !.seen = Zero]
    BY <1>3 DEF AfterError
  <2>2. y \in JobSet
    BY AfterErrorType
  <2>3. y.kind = jobs[j].kind /\ y.shard = jobs[j].shard /\ y.pc = "queued"
    BY <2>1 DEF LiveJob
  <2>4. y \in LiveJob
    BY <2>2, <2>3 DEF JobSet, NoJob, LiveJob, Kinds
  <2>5. MaxRetry[jobs[j].kind] > 0
    BY <1>2, <1>3 DEF LiveJob
  <2> QED BY <1>1, <2>3, <2>4, <2>5
<1>4. CASE ~(jobs[j].attempt < MaxRetry[jobs[j].kind])
  BY <1>1, <1>4 DEF AfterError
<1> QED BY <1>3, <1>4

(* The next step of a handler is the same job, with what it has read.        *)
LEMMA GotoMoves ==
  ASSUME TypeOK, NEW j \in JobIds, jobs[j] \in LiveJob, NEW pc, Goto(j, pc)
  PROVE  \E y : /\ Moved(j, y)
                /\ y.kind = jobs[j].kind /\ y.shard = jobs[j].shard
                /\ y.seen = jobs[j].seen /\ y.pc = pc /\ y # NoJob
<1> DEFINE y == [jobs[j] EXCEPT !.pc = pc]
<1>1. Moved(j, y)
  BY DEF Goto, Moved
<1>2. y.kind = jobs[j].kind /\ y.shard = jobs[j].shard
      /\ y.seen = jobs[j].seen /\ y.pc = pc /\ y # NoJob
  BY DEF LiveJob, NoJob, Kinds
<1> QED BY <1>1, <1>2

(* Statistics without a failure and without a task in progress: all tasks    *)
(* they are about have succeeded, and are counted.                           *)
LEMMA CleanStats ==
  ASSUME TypeOK, NEW ts \in SUBSET Existing, ~HasFailed(AgentTaskStats(ts))
  PROVE  /\ \A t \in ts : tasks[t] = "succeeded"
         /\ AgentTaskStats(ts).ok = Cardinality(ts)
         /\ AgentTaskStats(ts).bad = 0
<1> DEFINE Good == {t \in ts : tasks[t] = "succeeded"}
           Bad  == {t \in ts : tasks[t] = "failed"}
           Busy == {t \in ts : tasks[t] \in {"pending", "claimed"}}
<1>1. IsFiniteSet(Bad) /\ IsFiniteSet(Busy)
  BY TaskIdsFinite, FS_Subset DEF Existing
<1>2. Cardinality(Bad) \in Nat /\ Cardinality(Busy) \in Nat
  BY <1>1, FS_CardinalityType
<1>3. /\ AgentTaskStats(ts).ok = Cardinality(Good)
      /\ AgentTaskStats(ts).bad = Cardinality(Bad)
      /\ AgentTaskStats(ts).busy = Cardinality(Busy)
  BY DEF AgentTaskStats
<1>4. Cardinality(Bad) = 0 /\ Cardinality(Busy) = 0
  <2> HIDE DEF Good, Bad, Busy
  <2> QED BY <1>2, <1>3 DEF HasFailed
<1>5. Bad = {} /\ Busy = {}
  BY <1>1, <1>4, FS_EmptySet
<1>6. \A t \in ts : tasks[t] = "succeeded"
  BY <1>5 DEF Existing, TypeOK, TaskStates
<1>7. Good = ts
  BY <1>6
<1> QED BY <1>3, <1>4, <1>6, <1>7

(* The shard that each domain of the release is in.                          *)
Sh == [d \in Domains |-> ShardOf(d)]

(* A finalize job that has found its shard clean.                            *)
Passed(job) ==
    /\ job.kind = "finalize"
    /\ (job.pc = "close" /\ ~HasFailed(job.seen)) \/ job.pc = "next"

(* What the job of the chain knows: nothing is deployed before the first     *)
(* dispatch; then no shard beyond its own is, and all before it are done.    *)
InOrder(job) ==
    /\ job.kind \in {"plan", "build"} => Deploys = {}
    /\ job.kind \in {"dispatch", "finalize"} =>
          \A t \in Deploys :
             /\ Sh[t.domain] <= job.shard
             /\ Sh[t.domain] < job.shard => tasks[t] = "succeeded"
    /\ Passed(job) =>
          \A t \in Deploys :
             Sh[t.domain] = job.shard => tasks[t] = "succeeded"

OneChain ==
    \A i, j \in JobIds :
       jobs[i].kind \in Chain /\ jobs[j].kind \in Chain => i = j

(* Before the row exists nothing else does.                                  *)
Untouched == status = "none" => /\ \A t \in TaskIds : tasks[t] = "absent"
                                /\ \A j \in JobIds : jobs[j] = NoJob

(* EarlierShardsClean is not inductive: which shard may be deployed next is  *)
(* known by the one job of the chain.                                        *)
OrderBody ==
    /\ OneChain
    /\ \A j \in JobIds : InOrder(jobs[j])
    /\ Untouched
    /\ \A t \in Deploys : t.domain \in Planned
    /\ EarlierShardsClean

OrderInv == faults = 0 => OrderBody

(* Shards are numbers.                                                       *)
LEMMA ShardOfType == Sh \in [Domains -> Nat]
<1> SUFFICES ASSUME NEW d \in Domains PROVE ShardOf(d) \in Nat
  BY DEF Sh
<1> DEFINE groups == {GroupOf[e] : e \in Planned} \ {0}
           f      == [e \in Planned |-> GroupOf[e]]
<1>1. IsFiniteSet(Planned)
  BY DomainsAssumption, FS_Subset DEF Planned
<1>2. f \in Surjection(Planned, {GroupOf[e] : e \in Planned})
  BY DEF Surjection
<1>3. IsFiniteSet({GroupOf[e] : e \in Planned})
  <2> HIDE DEF f
  <2> QED BY <1>1, <1>2, FS_Surjection
<1>4. IsFiniteSet(groups)
  BY <1>3, FS_Subset
<1>5. ASSUME NEW S \in SUBSET groups PROVE Cardinality(S) \in Nat
  BY <1>4, FS_Subset, FS_CardinalityType
<1>6. Cardinality(groups) \in Nat
  BY <1>5
<1>7. Cardinality({g \in groups : g < GroupOf[d]}) \in Nat
  BY <1>5
<1> HIDE DEF groups
<1> QED BY <1>6, <1>7 DEF ShardOf, ShardIndex, groups

(* A step that moves no domain to another shard, inserts no deploy task and  *)
(* takes none back from being done.                                          *)
Calm ==
    /\ Sh' = Sh /\ Deploys' = Deploys /\ Planned' = Planned
    /\ \A t \in Deploys : tasks[t] = "succeeded" => tasks'[t] = "succeeded"

(* A calm step takes nothing from what a job knows of the order.             *)
LEMMA CalmOrder ==
  ASSUME Calm, NEW job, InOrder(job) PROVE InOrder(job)'
BY DEF Calm, InOrder, Passed

(* A calm step keeps earlier shards clean.                                   *)
LEMMA CalmClean ==
  ASSUME Calm, EarlierShardsClean PROVE EarlierShardsClean'
<1> SUFFICES ASSUME NEW t \in Deploys', NEW u \in Deploys',
                    ShardOf(t.domain)' < ShardOf(u.domain)'
             PROVE  tasks'[t] = "succeeded"
  BY DEF EarlierShardsClean
<1>1. t \in Deploys /\ u \in Deploys /\ t.domain \in Domains /\ u.domain \in Domains
  BY DEF Calm, Deploys, Existing, TaskIds
<1>2. Sh'[t.domain] < Sh'[u.domain]
  BY <1>1 DEF Sh
<1>3. ShardOf(t.domain) < ShardOf(u.domain)
  BY <1>1, <1>2 DEF Calm, Sh
<1> QED BY <1>1, <1>3 DEF Calm, EarlierShardsClean

(* Leaving the rows of the plan and the tasks alone is calm.                 *)
LEMMA CalmSame ==
  ASSUME UNCHANGED <<tasks, domainTasks>> PROVE Calm
BY DEF Calm, Sh, ShardOf, Planned, Deploys, Existing

(* A job that moves, or ends and hands over, keeps the chain in order when   *)
(* what takes its place is in order.                                         *)
LEMMA OrderPasses ==
  ASSUME TypeOK, OrderBody, NEW j \in JobIds, NEW y,
         Moved(j, y) \/ Handed(j, y),
         y.kind \in Chain => jobs[j].kind \in Chain,
         \A k \in JobIds : \A x : k # j /\ x = jobs[k] => InOrder(x)',
         InOrder(y)'
  PROVE  OneChain' /\ \A k \in JobIds : InOrder(jobs[k])'
<1>1. InOrder(NoJob)'
  BY DEF InOrder, Passed, NoJob
<1>2. NoJob.kind \notin Chain
  BY DEF NoJob, Chain
<1>3. CASE Moved(j, y)
  <2>1. jobs'[j] = y /\ \A k \in JobIds : k # j => jobs'[k] = jobs[k]
    BY <1>3 DEF Moved, TypeOK
  <2>2. OneChain'
    BY <2>1 DEF OneChain, OrderBody
  <2>3. ASSUME NEW k \in JobIds PROVE InOrder(jobs[k])'
    <3>1. \E x : x = jobs'[k] /\ InOrder(x)'
      BY <2>1
    <3> QED BY <3>1 DEF InOrder, Passed
  <2> QED BY <2>2, <2>3
<1>4. CASE Handed(j, y)
  <2>1. PICK k \in JobIds : /\ jobs[k] = NoJob /\ k # j
                            /\ jobs' = [jobs EXCEPT ![j] = NoJob, ![k] = y]
    BY <1>4 DEF Handed
  <2>2. /\ jobs'[k] = y /\ jobs'[j] = NoJob
        /\ \A i \in JobIds : i # j /\ i # k => jobs'[i] = jobs[i]
    BY <2>1 DEF TypeOK
  <2>3. OneChain'
    BY <1>2, <2>2 DEF OneChain, OrderBody
  <2>4. ASSUME NEW i \in JobIds PROVE InOrder(jobs[i])'
    <3>1. \E x : x = jobs'[i] /\ InOrder(x)'
      BY <1>1, <2>2
    <3> QED BY <3>1 DEF InOrder, Passed
  <2> QED BY <2>3, <2>4
<1> QED BY <1>3, <1>4

(* The rest of OrderBody in a calm step.                                     *)
LEMMA OrderCalmPasses ==
  ASSUME TypeOK, OrderBody, Calm, NEW j \in JobIds, NEW y,
         Moved(j, y) \/ Handed(j, y),
         y.kind \in Chain => jobs[j].kind \in Chain,
         InOrder(y), status' # "none"
  PROVE  OrderBody'
<1>1. \A k \in JobIds : \A x : k # j /\ x = jobs[k] => InOrder(x)'
  BY CalmOrder DEF OrderBody
<1>2. InOrder(y)'
  BY CalmOrder
<1>3. OneChain' /\ \A k \in JobIds : InOrder(jobs[k])'
  BY <1>1, <1>2, OrderPasses
<1>4. EarlierShardsClean'
  BY CalmClean DEF OrderBody
<1> QED BY <1>3, <1>4 DEF OrderBody, Calm, Untouched

(* The same job at a place where it claims no more than before is in order.  *)
LEMMA SameInOrder ==
  ASSUME NEW job, NEW y, InOrder(job),
         y = NoJob \/ (y.kind = job.kind /\ y.shard = job.shard
                         /\ (Passed(y) => Passed(job)))
  PROVE  InOrder(y) /\ (y.kind \in Chain => job.kind \in Chain)
BY DEF InOrder, NoJob, Chain, Passed

(* The steps that leave order as it is: the job is the same or is gone, and  *)
(* no finalize job comes to a verdict.                                       *)
Kept(j) ==
    \E y : /\ Moved(j, y) \/ Handed(j, y)
           /\ \/ y = NoJob
              \/ y.kind \notin Chain
              \/ /\ y.kind = jobs[j].kind /\ y.shard = jobs[j].shard
                 /\ Passed(y) => Passed(jobs[j])

(* Such a step keeps all of OrderBody when it is calm.                       *)
LEMMA KeptOrder ==
  ASSUME TypeOK, OrderBody, Calm, NEW j \in JobIds, Kept(j), status' # "none"
  PROVE  OrderBody'
<1>1. PICK y : /\ Moved(j, y) \/ Handed(j, y)
               /\ \/ y = NoJob
                  \/ y.kind \notin Chain
                  \/ /\ y.kind = jobs[j].kind /\ y.shard = jobs[j].shard
                     /\ Passed(y) => Passed(jobs[j])
  BY DEF Kept
<1>2. InOrder(y) /\ (y.kind \in Chain => jobs[j].kind \in Chain)
  <2>1. InOrder(jobs[j])
    BY DEF OrderBody
  <2>2. CASE y.kind \notin Chain
    BY <2>2 DEF InOrder, Passed, Chain
  <2> QED BY <1>1, <2>1, <2>2, SameInOrder
<1> QED BY <1>1, <1>2, OrderCalmPasses

(* An error, a return without one and a plain move are such steps.           *)
LEMMA ErrorKept ==
  ASSUME TypeOK, NEW j \in JobIds, jobs[j] \in LiveJob, ReturnError(j)
  PROVE  Kept(j)
<1>1. PICK y : /\ Moved(j, y)
               /\ \/ y = NoJob
                  \/ /\ MaxRetry[jobs[j].kind] > 0
                     /\ y \in LiveJob /\ y.kind = jobs[j].kind
                     /\ y.shard = jobs[j].shard /\ y.pc = "queued"
  BY ErrorMoves
<1> QED BY <1>1 DEF Kept, Passed

(* Going on in a handler is such a step, except for an unproved verdict.     *)
LEMMA GotoKept ==
  ASSUME TypeOK, NEW j \in JobIds, jobs[j] \in LiveJob, NEW pc, Goto(j, pc),
         \/ pc \notin {"close", "next"}
         \/ jobs[j].kind # "finalize"
         \/ jobs[j].pc = "close" /\ pc = "next" /\ ~HasFailed(jobs[j].seen)
  PROVE  Kept(j)
<1>1. PICK y : /\ Moved(j, y)
               /\ y.kind = jobs[j].kind /\ y.shard = jobs[j].shard
               /\ y.seen = jobs[j].seen /\ y.pc = pc /\ y # NoJob
  BY GotoMoves
<1>2. Passed(y) => Passed(jobs[j])
  BY <1>1 DEF Passed
<1> QED BY <1>1, <1>2 DEF Kept

(* So is the end of a handler.                                               *)
LEMMA ReturnKept ==
  ASSUME TypeOK, faults' = 0, NEW j \in JobIds, Return(j)
  PROVE  Kept(j)
BY CleanReturn DEF Kept

(* A job that takes a step is not an empty slot.                             *)
LEMMA StepIsLive ==
  ASSUME TypeOK, NEW j \in JobIds, JobStep(j)
  PROVE  jobs[j] \in LiveJob
<1> SUFFICES ASSUME jobs[j] = NoJob PROVE FALSE
  BY DEF TypeOK
<1> QED BY DEF JobStep, NoJob, At, PlanBegin, PlanRows, BuildArtifact,
     LinkArtifact, MarkReady, DispatchFirst, DispatchRead, DispatchStart,
     DispatchSend, DispatchSent, FinalizeRead, FinalizeStats, ShardClose,
     ShardFail, ShardNext, BeginRollback, ExecuteRollback, RollbackSent,
     RollbackClose, RollbackSettle, RollbackMark

(* The row does not go away again.                                           *)
LEMMA RowStays ==
  ASSUME TypeOK, [Next]_vars, status # "none"
  PROVE  status' # "none"
BY StatusMovesAlongEdges
   DEF CanReleaseTransition, validReleaseTransitions, Statuses

(* The steps that change neither tasks nor the plan, nor come to a verdict.  *)
LEMMA OrderQuietSteps ==
  ASSUME TypeOK, OrderBody, faults' = 0, status' # "none", NEW j \in JobIds,
         jobs[j] \in LiveJob,
         \/ PlanBegin(j) \/ BuildArtifact(j) \/ LinkArtifact(j) \/ MarkReady(j)
         \/ DispatchRead(j) \/ DispatchStart(j)
         \/ FinalizeRead(j, "finalize", "executing")
         \/ FinalizeRead(j, "undo", "rolling_back")
         \/ ShardClose(j) \/ ShardFail(j)
         \/ RollbackClose(j) \/ RollbackSettle(j) \/ RollbackMark(j)
  PROVE  OrderBody'
<1>1. UNCHANGED <<tasks, domainTasks>>
  BY DEF PlanBegin, BuildArtifact, LinkArtifact, MarkReady, DispatchRead,
         DispatchStart, FinalizeRead, ShardClose, ShardFail, RollbackClose,
         RollbackSettle, RollbackMark, plan
<1>2. CASE ReturnError(j)
  BY <1>1, <1>2, CalmSame, ErrorKept, KeptOrder
<1>3. CASE Return(j)
  BY <1>1, <1>3, CalmSame, ReturnKept, KeptOrder
<1>4. ASSUME NEW pc, Goto(j, pc), pc \notin {"close", "next"}
      PROVE  OrderBody'
  BY <1>1, <1>4, CalmSame, GotoKept, KeptOrder
<1>5. CASE ShardClose(j)
  <2>1. CASE HasFailed(jobs[j].seen)
    BY <1>4, <1>5, <2>1 DEF ShardClose
  <2>2. CASE ~HasFailed(jobs[j].seen)
    <3>1. Goto(j, "next") /\ jobs[j].pc = "close"
      BY <1>5, <2>2 DEF ShardClose, At
    <3> QED BY <1>1, <2>2, <3>1, CalmSame, GotoKept, KeptOrder
  <2> QED BY <2>1, <2>2
<1>6. CASE PlanBegin(j) \/ BuildArtifact(j) \/ LinkArtifact(j) \/ MarkReady(j)
  BY <1>2, <1>4, <1>6 DEF PlanBegin, BuildArtifact, LinkArtifact, MarkReady
<1>7. CASE \/ DispatchRead(j) \/ DispatchStart(j)
           \/ FinalizeRead(j, "finalize", "executing")
           \/ FinalizeRead(j, "undo", "rolling_back") \/ ShardFail(j)
  BY <1>2, <1>3, <1>4, <1>7 DEF DispatchRead, DispatchStart, FinalizeRead, ShardFail
<1>8. CASE RollbackClose(j) \/ RollbackSettle(j) \/ RollbackMark(j)
  BY <1>2, <1>3, <1>4, <1>8 DEF RollbackClose, RollbackSettle, RollbackMark
<1> QED BY <1>5, <1>6, <1>7, <1>8

(* While there is no deploy task every job and every plan are in order.      *)
LEMMA NothingDeployed ==
  ASSUME TypeOK, OrderBody, NEW j \in JobIds, NEW y,
         Moved(j, y) \/ Handed(j, y),
         y.kind \in Chain => jobs[j].kind \in Chain,
         Deploys' = {}, status' # "none"
  PROVE  OrderBody'
<1>1. \A x : InOrder(x)'
  BY DEF InOrder, Passed
<1>2. EarlierShardsClean'
  BY DEF EarlierShardsClean
<1>3. OneChain' /\ \A k \in JobIds : InOrder(jobs[k])'
  BY <1>1, OrderPasses
<1> QED BY <1>2, <1>3 DEF OrderBody, Untouched

(* Planning inserts its rows while nothing is deployed.                      *)
LEMMA OrderPlanRows ==
  ASSUME TypeOK, OrderBody, faults' = 0, status' # "none", NEW j \in JobIds,
         PlanRows(j)
  PROVE  OrderBody'
<1>1. jobs[j] \in LiveJob /\ jobs[j].kind = "plan"
  BY AtIsLive DEF PlanRows, TypeOK, JobSet, Kinds
<1>2. Deploys' = {}
  <2>1. Deploys = {}
    BY <1>1 DEF OrderBody, InOrder
  <2> QED BY <2>1 DEF PlanRows, Deploys, Existing
<1>3. CASE ReturnError(j)
  <2>1. PICK y : /\ Moved(j, y)
                 /\ \/ y = NoJob
                    \/ /\ MaxRetry[jobs[j].kind] > 0
                       /\ y \in LiveJob /\ y.kind = jobs[j].kind
                       /\ y.shard = jobs[j].shard /\ y.pc = "queued"
    BY <1>1, <1>3, ErrorMoves
  <2>2. y.kind \in Chain => jobs[j].kind \in Chain
    BY <1>1 DEF Chain
  <2> QED BY <1>2, <2>1, <2>2, NothingDeployed
<1>4. CASE \E k \in JobIds :
              /\ FreeSlot(k)
              /\ jobs' = [jobs EXCEPT ![j] = NoJob, ![k] = Job("build", 0, 0, 0)]
  <2>1. Handed(j, Job("build", 0, 0, 0))
    <3>1. jobs[j] # NoJob
      BY <1>1 DEF NoJob
    <3> QED BY <1>4, <3>1 DEF Handed, FreeSlot
  <2>2. jobs[j].kind \in Chain
    BY <1>1 DEF Chain
  <2> QED BY <1>2, <2>1, <2>2, NothingDeployed
<1> QED BY <1>3, <1>4, NoFault DEF PlanRows

(* The first shard is the first to be dispatched.                            *)
LEMMA OrderDispatchFirst ==
  ASSUME TypeOK, OrderBody, faults' = 0, status' # "none", NEW j \in JobIds,
         DispatchFirst(j)
  PROVE  OrderBody'
<1>1. jobs[j] \in LiveJob /\ jobs[j].kind = "build"
  BY AtIsLive DEF DispatchFirst, TypeOK, JobSet, Kinds
<1>2. Deploys' = {}
  <2>1. Deploys = {}
    BY <1>1 DEF OrderBody, InOrder
  <2> QED BY <2>1 DEF DispatchFirst, Deploys, Existing
<1>3. Handed(j, Job("dispatch", 0, 0, 0))
  BY <1>1, CleanEnqueue DEF DispatchFirst, NoJob, LiveJob, Kinds
<1>4. jobs[j].kind \in Chain
  BY <1>1 DEF Chain
<1> QED BY <1>2, <1>3, <1>4, NothingDeployed

(* What the verdict is about, and what follows it.                           *)
LEMMA OrderDispatchSent ==
  ASSUME TypeOK, OrderBody, faults' = 0, status' # "none", NEW j \in JobIds,
         DispatchSent(j)
  PROVE  OrderBody'
<1>1. jobs[j] \in LiveJob /\ jobs[j].kind = "dispatch"
  BY AtIsLive DEF DispatchSent, TypeOK, JobSet, Kinds
<1> DEFINE y == Job("finalize", jobs[j].shard, 0, 0)
<1>2. Handed(j, y)
  BY <1>1, CleanEnqueue DEF DispatchSent, NoJob, LiveJob, Kinds
<1>3. InOrder(y)
  <2>1. InOrder(jobs[j])
    BY DEF OrderBody
  <2>2. y.kind = "finalize" /\ y.shard = jobs[j].shard /\ y.pc = "queued"
    BY DEF Job
  <2> QED BY <1>1, <2>1, <2>2 DEF InOrder, Passed
<1>4. jobs[j].kind \in Chain
  BY <1>1 DEF Chain
<1>5. Calm
  BY CalmSame DEF DispatchSent
<1> HIDE DEF y
<1> QED BY <1>2, <1>3, <1>4, <1>5, OrderCalmPasses

(* A shard without a failure and without a task in progress is done.         *)
LEMMA ShardDone ==
  ASSUME TypeOK, OrderBody, NEW s, ~HasFailed(StatsByShard(s))
  PROVE  \A t \in Deploys : Sh[t.domain] = s => tasks[t] = "succeeded"
<1> DEFINE ts == {t \in Existing : t.domain \in DomainsOf(s)}
<1>1. \A t \in ts : tasks[t] = "succeeded"
  BY CleanStats DEF StatsByShard
<1>2. ASSUME NEW t \in Deploys, Sh[t.domain] = s PROVE t \in ts
  BY <1>2 DEF OrderBody, DomainsOf, Sh, Deploys, Existing, TaskIds
<1> QED BY <1>1, <1>2

(* The verdict of a shard is passed on statistics that were clean.           *)
LEMMA OrderFinalizeStats ==
  ASSUME TypeOK, OrderBody, faults' = 0, status' # "none", NEW j \in JobIds,
         FinalizeStats(j, "finalize", StatsByShard(jobs[j].shard))
  PROVE  OrderBody'
<1>1. jobs[j] \in LiveJob /\ jobs[j].kind = "finalize"
  BY AtIsLive DEF FinalizeStats, TypeOK, JobSet, Kinds
<1>2. Calm
  BY CalmSame DEF FinalizeStats, plan
<1>3. InOrder(jobs[j]) /\ jobs[j].kind \in Chain
  BY <1>1 DEF OrderBody, Chain
<1>4. CASE EnqueueAndReturn(j, Job("finalize", jobs[j].shard,
                                   jobs[j].poll + 1, jobs[j].rec))
  <2> DEFINE y == Job("finalize", jobs[j].shard, jobs[j].poll + 1, jobs[j].rec)
  <2>1. Handed(j, y)
    BY <1>1, <1>4, CleanEnqueue DEF NoJob, LiveJob, Kinds
  <2>2. y.kind = "finalize" /\ y.shard = jobs[j].shard /\ y.pc = "queued"
    BY DEF Job
  <2>3. InOrder(y)
    BY <1>1, <1>3, <2>2 DEF InOrder, Passed
  <2> HIDE DEF y
  <2> QED BY <1>2, <1>3, <2>1, <2>3, OrderCalmPasses
<1>5. CASE jobs' = [jobs EXCEPT ![j].pc = "close",
                               ![j].seen = StatsByShard(jobs[j].shard)]
  <2> DEFINE y == [jobs[j] EXCEPT !.pc = "close",
                                  !.seen = StatsByShard(jobs[j].shard)]
  <2>1. Moved(j, y)
    BY <1>1, <1>5 DEF Moved, TypeOK, LiveJob
  <2>2. /\ y.kind = "finalize" /\ y.shard = jobs[j].shard
        /\ y.seen = StatsByShard(jobs[j].shard)
    BY <1>1 DEF LiveJob
  <2>3. InOrder(y)
    <3>1. ~HasFailed(y.seen) => \A t \in Deploys :
             Sh[t.domain] = jobs[j].shard => tasks[t] = "succeeded"
      BY <2>2, ShardDone
    <3>2. y.pc = "close"
      BY <1>1 DEF LiveJob
    <3> HIDE DEF y
    <3> QED BY <1>1, <1>3, <2>2, <3>1, <3>2 DEF InOrder, Passed
  <2> HIDE DEF y
  <2> QED BY <1>2, <1>3, <2>1, <2>3, OrderCalmPasses
<1> QED BY <1>4, <1>5 DEF FinalizeStats

(* The next shard is dispatched when all before it are done.                 *)
LEMMA OrderShardNext ==
  ASSUME TypeOK, OrderBody, faults' = 0, status' # "none", NEW j \in JobIds,
         ShardNext(j)
  PROVE  OrderBody'
<1>1. /\ jobs[j] \in LiveJob /\ jobs[j].kind = "finalize"
      /\ jobs[j].pc = "next"
  BY AtIsLive DEF ShardNext, TypeOK, JobSet, Kinds
<1>2. Calm
  BY CalmSame DEF ShardNext, plan
<1>3. CASE ReturnError(j) \/ Return(j)
  BY <1>1, <1>2, <1>3, ErrorKept, ReturnKept, KeptOrder
<1>4. ASSUME NEW k \in PendingAfter(jobs[j].shard),
             EnqueueAndReturn(j, Job("dispatch", k, 0, 0))
      PROVE  OrderBody'
  <2> DEFINE y == Job("dispatch", k, 0, 0)
  <2>1. Handed(j, y)
    BY <1>1, <1>4, CleanEnqueue DEF NoJob, LiveJob, Kinds
  <2>2. y.kind = "dispatch" /\ y.shard = k /\ y.pc = "queued"
    BY DEF Job
  <2>3. k \in Int /\ k > jobs[j].shard /\ jobs[j].shard \in Nat
    BY <1>1 DEF PendingAfter, ShardIndexes, LiveJob
  <2>4. ASSUME NEW t \in Deploys
        PROVE  /\ Sh[t.domain] <= k
               /\ tasks[t] = "succeeded"
    <3>1. InOrder(jobs[j]) /\ Passed(jobs[j])
      BY <1>1 DEF OrderBody, Passed
    <3>2. Sh[t.domain] <= jobs[j].shard
      BY <1>1, <3>1 DEF InOrder
    <3>3. Sh[t.domain] \in Nat
      BY ShardOfType DEF Deploys, Existing, TaskIds
    <3>4. tasks[t] = "succeeded"
      BY <1>1, <2>3, <3>1, <3>2, <3>3 DEF InOrder
    <3> QED BY <2>3, <3>2, <3>3, <3>4
  <2>5. InOrder(y)
    BY <2>2, <2>4 DEF InOrder, Passed
  <2>6. jobs[j].kind \in Chain
    BY <1>1 DEF Chain
  <2> HIDE DEF y
  <2> QED BY <1>2, <2>1, <2>5, <2>6, OrderCalmPasses
<1> QED BY <1>3, <1>4 DEF ShardNext

(* A dispatch inserts deploy tasks of its own shard only, and resets none.   *)
LEMMA SendInserts ==
  ASSUME TypeOK, NEW j \in JobIds, DispatchSend(j)
  PROVE  /\ Planned' = Planned /\ Sh' = Sh
         /\ \A t \in TaskIds :
               \/ tasks'[t] = tasks[t]
               \/ /\ tasks[t] = "absent" /\ tasks'[t] = "pending"
                  /\ t.op = "deploy" /\ t.domain \in DomainsOf(jobs[j].shard)
                  /\ artifact = "linked"
<1>1. CASE artifact # "linked"
  BY <1>1 DEF DispatchSend, Planned, Sh, ShardOf
<1>2. CASE artifact = "linked"
  <2>1. PICK online \in SUBSET Agents :
          LET s == jobs[j].shard
              lonely == {d \in DomainsOf(s) : Pool(d, online) = {}}
              new    == {t \in Insertable :
                            /\ t.op = "deploy"
                            /\ t.domain \in DomainsOf(s) \ lonely
                            /\ t.agent = TargetAgent(t.domain, online)}
              sent   == {t.domain : t \in new}
          IN  /\ tasks' = [t \in TaskIds |->
                              IF t \in new THEN "pending" ELSE tasks[t]]
              /\ domainTasks' = [d \in Domains |->
                                    IF d \in lonely THEN "failed"
                                    ELSE IF d \in sent THEN "dispatched"
                                    ELSE domainTasks[d]]
    BY <1>2 DEF DispatchSend
  <2> DEFINE s == jobs[j].shard
             lonely == {d \in DomainsOf(s) : Pool(d, online) = {}}
             new    == {t \in Insertable :
                           /\ t.op = "deploy"
                           /\ t.domain \in DomainsOf(s) \ lonely
                           /\ t.agent = TargetAgent(t.domain, online)}
             sent   == {t.domain : t \in new}
  <2>2. /\ tasks' = [t \in TaskIds |-> IF t \in new THEN "pending" ELSE tasks[t]]
        /\ domainTasks' = [d \in Domains |->
                              IF d \in lonely THEN "failed"
                              ELSE IF d \in sent THEN "dispatched"
                              ELSE domainTasks[d]]
    BY <2>1
  <2>3. \A t \in new : /\ tasks[t] = "absent" /\ t.op = "deploy"
                       /\ t.domain \in DomainsOf(s)
    BY DEF Insertable, Existing
  <2>4. lonely \subseteq Planned /\ sent \subseteq Planned
    BY DEF DomainsOf
  <2> HIDE DEF lonely, new, sent
  <2>5. Planned' = Planned
    BY <2>2, <2>4 DEF Planned
  <2>6. Sh' = Sh
    BY <2>5 DEF Sh, ShardOf
  <2> QED BY <1>2, <2>2, <2>3, <2>5, <2>6
<1> QED BY <1>1, <1>2

(* A dispatch inserts deploy tasks of its own shard only.                    *)
LEMMA OrderDispatchSend ==
  ASSUME TypeOK, OrderBody, faults' = 0, status' # "none", NEW j \in JobIds,
         DispatchSend(j)
  PROVE  OrderBody'
<1>1. jobs[j] \in LiveJob /\ jobs[j].kind = "dispatch" /\ jobs[j].shard \in Nat
  BY AtIsLive DEF DispatchSend, TypeOK, JobSet, Kinds, LiveJob
<1>2. PICK y : /\ Moved(j, y)
               /\ y = NoJob \/ (y.kind = "dispatch" /\ y.shard = jobs[j].shard)
  <2>1. Goto(j, "sent") \/ ReturnError(j)
    BY DEF DispatchSend
  <2> QED BY <1>1, <2>1, GotoMoves, ErrorMoves
<1>3. \A t \in Deploys' :
         \/ /\ t \in Deploys
            /\ tasks'[t] = tasks[t]
         \/ Sh[t.domain] = jobs[j].shard /\ t.domain \in Planned
  BY SendInserts DEF Deploys, Existing, DomainsOf, Sh, Planned
<1>4. InOrder(jobs[j])
  BY DEF OrderBody
<1>5. ASSUME NEW t \in Deploys'
      PROVE  /\ Sh[t.domain] <= jobs[j].shard
             /\ Sh[t.domain] < jobs[j].shard => tasks'[t] = "succeeded"
  BY <1>1, <1>3, <1>4 DEF InOrder
<1>6. InOrder(y)'
  <2>1. CASE y = NoJob
    BY <2>1 DEF InOrder, Passed, NoJob
  <2>2. CASE y.kind = "dispatch" /\ y.shard = jobs[j].shard
    <3>1. Sh' = Sh
      BY SendInserts
    <3> QED BY <1>5, <2>2, <3>1 DEF InOrder, Passed
  <2> QED BY <1>2, <2>1, <2>2
<1>7. \A k \in JobIds : \A x : k # j /\ x = jobs[k] => InOrder(x)'
  <2> SUFFICES ASSUME NEW k \in JobIds, NEW x, k # j, x = jobs[k]
               PROVE  InOrder(x)'
    OBVIOUS
  <2>1. x.kind \notin Chain
    BY <1>1 DEF OrderBody, OneChain, Chain
  <2> QED BY <2>1 DEF InOrder, Passed, Chain
<1>8. y.kind \in Chain => jobs[j].kind \in Chain
  BY <1>1, <1>2 DEF Chain, NoJob
<1>9. EarlierShardsClean'
  <2> SUFFICES ASSUME NEW t \in Deploys', NEW u \in Deploys',
                      ShardOf(t.domain)' < ShardOf(u.domain)'
               PROVE  tasks'[t] = "succeeded"
    BY DEF EarlierShardsClean
  <2>1. t.domain \in Domains /\ u.domain \in Domains
    BY DEF Deploys, Existing, TaskIds
  <2>2. Sh[t.domain] < Sh[u.domain]
    <3>1. Sh'[t.domain] < Sh'[u.domain]
      BY <2>1 DEF Sh
    <3> QED BY <3>1, SendInserts
  <2>3. Sh[t.domain] \in Nat /\ Sh[u.domain] \in Nat
    BY <2>1, ShardOfType
  <2> QED BY <1>1, <1>5, <2>2, <2>3
<1>10. \A t \in Deploys' : t.domain \in Planned'
  <2>1. Planned' = Planned
    BY SendInserts
  <2> QED BY <1>3, <2>1 DEF OrderBody
<1>11. OneChain' /\ \A k \in JobIds : InOrder(jobs[k])'
  BY <1>2, <1>6, <1>7, <1>8, OrderPasses
<1> QED BY <1>9, <1>10, <1>11 DEF OrderBody, Untouched

(* A rollback inserts no deploy task.                                        *)
LEMMA RollbackInserts ==
  ASSUME TypeOK, NEW j \in JobIds, ExecuteRollback(j)
  PROVE  \A t \in TaskIds :
            \/ tasks'[t] = tasks[t]
            \/ tasks[t] = "absent" /\ tasks'[t] = "pending" /\ t.op = "rollback"
<1>1. \/ UNCHANGED tasks
      \/ \E new \in SUBSET {u \in Insertable : u.op = "rollback"} :
            tasks' = [u \in TaskIds |-> IF u \in new THEN "pending" ELSE tasks[u]]
  BY DEF ExecuteRollback
<1> QED BY <1>1 DEF Insertable, Existing

(* What the jobs of a rollback do is outside the chain.                      *)
LEMMA OrderRollbackSteps ==
  ASSUME TypeOK, OrderBody, faults' = 0, status' # "none", NEW j \in JobIds,
         \/ BeginRollback(j) \/ ExecuteRollback(j) \/ RollbackSent(j)
         \/ FinalizeStats(j, "undo", StatsByRelease)
  PROVE  OrderBody'
<1>1. jobs[j] \in LiveJob
  <2>1. BeginRollback(j) => jobs[j] \in LiveJob
    BY DEF BeginRollback, TypeOK, NoJob
  <2>2. ExecuteRollback(j) \/ RollbackSent(j) => jobs[j] \in LiveJob
    BY AtIsLive DEF ExecuteRollback, RollbackSent, TypeOK, JobSet, Kinds
  <2>3. FinalizeStats(j, "undo", StatsByRelease) => jobs[j] \in LiveJob
    BY AtIsLive DEF FinalizeStats, TypeOK, JobSet, Kinds
  <2> QED BY <2>1, <2>2, <2>3
<1>2. Calm
  <2>1. CASE ExecuteRollback(j)
    <3>1. Planned' = Planned /\ Sh' = Sh
      BY <2>1 DEF ExecuteRollback, plan, Planned, Sh, ShardOf
    <3>2. Deploys' = Deploys /\ \A t \in Deploys : tasks'[t] = tasks[t]
      BY <2>1, RollbackInserts DEF Deploys, Existing
    <3> QED BY <3>1, <3>2 DEF Calm
  <2>2. CASE \/ BeginRollback(j) \/ RollbackSent(j)
             \/ FinalizeStats(j, "undo", StatsByRelease)
    BY <2>2, CalmSame DEF BeginRollback, RollbackSent, FinalizeStats, plan
  <2> QED BY <2>1, <2>2
<1>3. Kept(j)
  <2>0. jobs[j] # NoJob
    BY <1>1 DEF NoJob, LiveJob, Kinds
  <2>1. ReturnError(j) \/ Return(j) => Kept(j)
    BY <1>1, ErrorKept, ReturnKept
  <2>2. Goto(j, "sent") => Kept(j)
    BY <1>1, GotoKept
  <2>3. ASSUME NEW kind \in Rolling, NEW poll, NEW rec,
               Moved(j, Job(kind, 0, poll, rec)) \/ Handed(j, Job(kind, 0, poll, rec))
        PROVE  Kept(j)
    <3>1. Job(kind, 0, poll, rec).kind \notin Chain
      BY DEF Job, Chain, Rolling
    <3> QED BY <2>3, <3>1 DEF Kept
  <2>4. BeginRollback(j) => Kept(j)
    <3>1. BeginRollback(j) =>
             ReturnError(j) \/ Moved(j, Job("rollback", 0, 0, jobs[j].rec))
      BY NoFault DEF BeginRollback, Moved
    <3> QED BY <2>1, <2>3, <3>1 DEF Rolling
  <2>5. ExecuteRollback(j) => Kept(j)
    BY <2>1, <2>2 DEF ExecuteRollback
  <2>6. RollbackSent(j) => Kept(j)
    BY <2>0, <2>3, CleanEnqueue DEF RollbackSent, Rolling
  <2>7. CASE FinalizeStats(j, "undo", StatsByRelease)
    <3>1. jobs[j].kind = "undo"
      BY <2>7 DEF FinalizeStats, At
    <3>2. CASE EnqueueAndReturn(j, Job("undo", jobs[j].shard,
                                       jobs[j].poll + 1, jobs[j].rec))
      <4> DEFINE y == Job("undo", jobs[j].shard, jobs[j].poll + 1, jobs[j].rec)
      <4>1. Handed(j, y)
        BY <2>0, <3>2, CleanEnqueue
      <4>2. y.kind \notin Chain
        BY DEF Job, Chain
      <4> HIDE DEF y
      <4> QED BY <4>1, <4>2 DEF Kept
    <3>3. CASE jobs' = [jobs EXCEPT ![j].pc = "close", ![j].seen = StatsByRelease]
      <4> DEFINE y == [jobs[j] EXCEPT !.pc = "close", !.seen = StatsByRelease]
      <4>1. Moved(j, y)
        BY <1>1, <3>3 DEF Moved, TypeOK, LiveJob
      <4>2. y.kind \notin Chain
        BY <1>1, <3>1 DEF Chain, LiveJob
      <4> HIDE DEF y
      <4> QED BY <4>1, <4>2 DEF Kept
    <3> QED BY <2>7, <3>2, <3>3 DEF FinalizeStats
  <2> QED BY <2>4, <2>5, <2>6, <2>7
<1> QED BY <1>2, <1>3, KeptOrder

(* OrderBody in every step of a job.                                         *)
LEMMA OrderJobStep ==
  ASSUME TypeOK, OrderBody, faults' = 0, [Next]_vars, NEW j \in JobIds,
         JobStep(j)
  PROVE  OrderBody'
<1>1. jobs[j] \in LiveJob
  BY StepIsLive
<1>2. status # "none"
  BY <1>1 DEF OrderBody, Untouched, NoJob, LiveJob, Kinds
<1>3. status' # "none"
  BY <1>2, RowStays
<1> QED BY <1>1, <1>3, OrderQuietSteps, OrderPlanRows, OrderDispatchFirst,
           OrderDispatchSend, OrderDispatchSent, OrderFinalizeStats,
           OrderShardNext, OrderRollbackSteps
        DEF JobStep

(* A new release has one job, which plans it.                                *)
LEMMA OrderCreate ==
  ASSUME TypeOK, OrderBody, faults' = 0, Create
  PROVE  OrderBody'
<1>1. /\ \A t \in TaskIds : tasks'[t] = "absent"
      /\ \A k \in JobIds : jobs[k] = NoJob
  BY DEF Create, OrderBody, Untouched
<1>2. Deploys' = {}
  BY <1>1 DEF Deploys, Existing
<1>3. PICK k \in JobIds : jobs' = [jobs EXCEPT ![k] = Job("plan", 0, 0, 0)]
  BY NoFault DEF Create
<1>4. OneChain'
  BY <1>1, <1>3 DEF OneChain, TypeOK, NoJob, Chain
<1> QED BY <1>2, <1>4 DEF OrderBody, InOrder, Passed, Untouched, Create,
                          EarlierShardsClean

(* Requests of operators and agents leave the chain alone.                   *)
LEMMA OrderOthers ==
  ASSUME TypeOK, OrderBody, faults' = 0, [Next]_vars, Operator \/ Agent
  PROVE  OrderBody'
<1>1. status # "none"
  BY DEF Operator, Pause, Resume, Cancel, Request, TransitionRelease, CanMove,
         CanReleaseTransition, Statuses, RequestRollback, Agent, ClaimTask,
         ReportTask, OrderBody, Untouched
<1>2. status' # "none"
  BY <1>1, RowStays
<1>3. Calm
  <2>1. CASE Operator
    BY <2>1, CalmSame DEF Operator, Pause, Resume, Cancel, Request,
       RequestRollback, plan
  <2>2. CASE Agent
    <3>1. Planned' = Planned /\ Sh' = Sh
      BY <2>2 DEF Agent, ClaimTask, ReportTask, plan, Planned, Sh, ShardOf
    <3>2. PICK t \in TaskIds, o \in TaskStates \ {"absent"} :
             /\ tasks[t] \in {"pending", "claimed"}
             /\ tasks' = [tasks EXCEPT ![t] = o]
      BY <2>2 DEF Agent, ClaimTask, ReportTask, TaskStates
    <3>3. Deploys' = Deploys
      BY <3>2 DEF Deploys, Existing, TypeOK
    <3>4. \A u \in Deploys : tasks[u] = "succeeded" => tasks'[u] = "succeeded"
      BY <3>2 DEF Deploys, Existing, TypeOK
    <3> QED BY <3>1, <3>3, <3>4 DEF Calm
  <2> QED BY <2>1, <2>2
<1>4. CASE UNCHANGED jobs
  <2>1. OneChain'
    BY <1>4 DEF OneChain, OrderBody
  <2>2. ASSUME NEW k \in JobIds PROVE InOrder(jobs[k])'
    <3>1. \E x : x = jobs'[k] /\ InOrder(x)'
      BY <1>3, <1>4, CalmOrder DEF OrderBody
    <3> QED BY <3>1 DEF InOrder, Passed
  <2>3. EarlierShardsClean'
    BY <1>3, CalmClean DEF OrderBody
  <2> QED BY <1>2, <1>3, <2>1, <2>2, <2>3 DEF OrderBody, Calm, Untouched
<1>5. CASE RequestRollback
  <2>1. PICK k \in JobIds, r \in 0 .. MaxRollbacks :
          jobs' = [jobs EXCEPT ![k] =
                     [Job("request", 0, 0, r) EXCEPT !.pc = status]]
    BY <1>5 DEF RequestRollback
  <2> DEFINE y == [Job("request", 0, 0, r) EXCEPT !.pc = status]
  <2>2. y.kind = "request"
    BY DEF Job
  <2>3. Moved(k, y)
    BY <2>1 DEF Moved
  <2> HIDE DEF y
  <2>4. Kept(k)
    BY <2>2, <2>3 DEF Kept, Chain
  <2> QED BY <1>2, <1>3, <2>4, KeptOrder
<1> QED BY <1>4, <1>5 DEF Operator, Pause, Resume, Cancel, Request, Agent,
                          ClaimTask, ReportTask

(* OrderInv is inductive.                                                    *)
LEMMA OrderStep == TypeOK /\ OrderInv /\ [Next]_vars => OrderInv'
<1> SUFFICES ASSUME TypeOK, OrderInv, [Next]_vars, faults' = 0 PROVE OrderBody'
  BY DEF OrderInv
<1>1. OrderBody
  BY FaultsStay DEF OrderInv
<1>2. CASE UNCHANGED vars
  <2>1. Calm /\ jobs' = jobs /\ status' = status
    BY <1>2, CalmSame DEF vars, plan
  <2>2. ASSUME NEW k \in JobIds PROVE InOrder(jobs[k])'
    <3>1. \E x : x = jobs'[k] /\ InOrder(x)'
      BY <1>1, <2>1, CalmOrder DEF OrderBody
    <3> QED BY <3>1 DEF InOrder, Passed
  <2>3. EarlierShardsClean'
    BY <1>1, <2>1, CalmClean DEF OrderBody
  <2>4. OneChain' /\ Untouched'
    BY <1>1, <1>2 DEF OneChain, Untouched, OrderBody, vars
  <2> QED BY <1>1, <2>1, <2>2, <2>3, <2>4 DEF OrderBody, Calm
<1>3. CASE Create
  BY <1>1, <1>3, OrderCreate
<1>4. CASE LoseQueue \/ \E j \in JobIds : Crash(j)
  BY <1>4, NoFault DEF LoseQueue, Crash
<1>5. ASSUME NEW j \in JobIds, JobStep(j) PROVE OrderBody'
  BY <1>1, <1>5, OrderJobStep
<1>6. CASE Operator \/ Agent
  BY <1>1, <1>6, OrderOthers
<1> QED BY <1>2, <1>3, <1>4, <1>5, <1>6 DEF Next

(* Until the first crash, failed call or lost enqueue, no shard has a deploy *)
(* task while one of an earlier shard has not succeeded, whatever operators  *)
(* request and agents report meanwhile (DispatchShard, Finalize).            *)
THEOREM ShardsInOrder == Spec => [](faults = 0 => EarlierShardsClean)
<1>1. Init => OrderInv
  BY DEF Init, OrderInv, OrderBody, OneChain, InOrder, Passed, Untouched,
         Deploys, Existing, EarlierShardsClean, NoJob, Chain
<1>2. OrderInv => (faults = 0 => EarlierShardsClean)
  BY DEF OrderInv, OrderBody
<1> QED BY <1>1, <1>2, OrderStep, TypeCorrect, PTL DEF Spec

-----------------------------------------------------------------------------
(* What a succeeded release has counted.                                     *)

(* The release has not failed and nothing was rolled back or cancelled.      *)
Forward == status \in {"none", "pending", "planning", "ready", "executing",
                       "paused", "succeeded"}

DeploysBefore(k) == {t \in Deploys : Sh[t.domain] < k}

DeploysIn(k) == {t \in Deploys : Sh[t.domain] = k}

(* The shards before k have succeeded, those after it have not begun.        *)
Around(k) ==
    \A s \in ShardIndexes :
       /\ s < k => shards[s].status \in {"absent", "succeeded"}
       /\ s > k => shards[s].status \in {"absent", "pending"}

Uncounted ==
    /\ successCount = 0
    /\ failureCount = 0
    /\ \A s \in ShardIndexes : shards[s].status \in {"absent", "pending"}

(* The job of a shard that has not been counted.                             *)
Open(job) ==
    \/ job.kind = "dispatch"
    \/ job.kind = "finalize" /\ job.pc \in {"queued", "stats", "close"}

(* What the job of the chain knows of the counters and of the other shards.  *)
Counting(job) ==
    /\ job.kind \notin {"rollback", "undo"}
    /\ job.kind \in {"plan", "build"} => Uncounted
    /\ Open(job) =>
          /\ successCount = Cardinality(DeploysBefore(job.shard))
          /\ failureCount = 0
          /\ Around(job.shard)
    /\ (job.kind = "finalize" /\ job.pc = "close" /\ ~HasFailed(job.seen)) =>
          /\ job.seen.ok = Cardinality(DeploysIn(job.shard))
          /\ job.seen.bad = 0
    /\ (job.kind = "finalize" /\ job.pc = "next") =>
          /\ successCount = Cardinality(Deploys)
          /\ failureCount = 0
          /\ Around(job.shard)
          /\ job.shard \in ShardIndexes =>
                shards[job.shard].status = "succeeded"

(* SucceededIsCounted is not inductive: the counters of a release under way  *)
(* are those of its finished shards.                                         *)
CountBody ==
    /\ Undos = {}
    /\ \A j \in JobIds : Counting(jobs[j])
    /\ status = "none" => Uncounted
    /\ status = "succeeded" => \A j \in JobIds : jobs[j].kind \notin Chain
    /\ SucceededIsCounted

CountInv == faults = 0 /\ Forward => CountBody

(* There is no way back to a release that goes forward.                      *)
LEMMA ForwardStays ==
  ASSUME TypeOK, [Next]_vars, Forward' PROVE Forward
BY StatusMovesAlongEdges
   DEF TypeOK, Forward, CanReleaseTransition, validReleaseTransitions, Statuses

(* A release succeeds in one place.                                          *)
LEMMA SucceededByNext ==
  ASSUME TypeOK, [Next]_vars, status # "succeeded", status' = "succeeded"
  PROVE  \E j \in JobIds : ShardNext(j)
<1>1. CASE UNCHANGED vars \/ Create \/ LoseQueue \/ Operator \/ Agent
  BY <1>1 DEF vars, Create, LoseQueue, Operator, Pause, Resume, Cancel, Request,
        TransitionRelease, RequestRollback, Agent, ClaimTask, ReportTask
<1>2. ASSUME NEW j \in JobIds, JobStep(j) \/ Crash(j), ~ShardNext(j)
      PROVE FALSE
  BY <1>2 DEF JobStep, Crash, PlanBegin, PlanRows, BuildArtifact, LinkArtifact,
     MarkReady, DispatchFirst, DispatchRead, DispatchStart, DispatchSend,
     DispatchSent, FinalizeRead, FinalizeStats, ShardClose, ShardFail,
     BeginRollback, ExecuteRollback, RollbackSent, RollbackClose,
     RollbackSettle, RollbackTo, RollbackMark, TransitionRelease, TryMove
<1> QED BY <1>1, <1>2 DEF Next

(* A step that changes neither the counters nor the shards, nor which deploy *)
(* tasks there are.                                                          *)
Still ==
    /\ Sh' = Sh /\ Deploys' = Deploys
    /\ UNCHANGED <<shards, successCount, failureCount>>

(* A still step takes nothing from what a job knows of the counters.         *)
LEMMA StillCounting ==
  ASSUME Still, NEW job, Counting(job) PROVE Counting(job)'
BY DEF Still, Counting, Open, Uncounted, DeploysBefore, DeploysIn, Around

(* Leaving tasks, plan and counters alone is still.                          *)
LEMMA StillSame ==
  ASSUME UNCHANGED <<tasks, plan, counts>> PROVE Still
BY DEF Still, Sh, ShardOf, Planned, Deploys, Existing, plan, counts

(* A job outside the chain claims nothing of the counters.                   *)
LEMMA OthersCounting ==
  ASSUME NEW job, job.kind \notin Chain, Counting(job) PROVE Counting(job)'
BY DEF Counting, Open, Chain

(* What takes the place of the job of the chain counts right, and so do all. *)
LEMMA CountPasses ==
  ASSUME TypeOK, OrderBody, CountBody, NEW j \in JobIds, NEW y,
         jobs[j].kind \in Chain, Moved(j, y) \/ Handed(j, y), Counting(y)'
  PROVE  \A k \in JobIds : Counting(jobs[k])'
<1> SUFFICES ASSUME NEW k \in JobIds PROVE Counting(jobs[k])'
  OBVIOUS
<1>1. Counting(NoJob)'
  BY DEF Counting, Open, NoJob
<1>2. \A i \in JobIds : \A x : i # j /\ x = jobs[i] => Counting(x)'
  BY OthersCounting DEF OrderBody, OneChain, CountBody
<1>3. \E x : x = jobs'[k] /\ Counting(x)'
  <2>1. CASE Moved(j, y)
    <3>1. jobs'[j] = y /\ (k # j => jobs'[k] = jobs[k])
      BY <2>1 DEF Moved, TypeOK
    <3> QED BY <1>2, <3>1
  <2>2. CASE Handed(j, y)
    <3>1. jobs'[k] = y \/ jobs'[k] = NoJob \/ (k # j /\ jobs'[k] = jobs[k])
      BY <2>2 DEF Handed, TypeOK
    <3> QED BY <1>1, <1>2, <3>1
  <2> QED BY <2>1, <2>2
<1> QED BY <1>3 DEF Counting, Open

(* The rest of CountBody in a step of the chain that does not end it.        *)
LEMMA CountChain ==
  ASSUME TypeOK, OrderBody, CountBody, [Next]_vars, NEW j \in JobIds, NEW y,
         jobs[j].kind \in Chain, Moved(j, y) \/ Handed(j, y), Counting(y)',
         Undos' = {}, status' # "succeeded", status' # "none"
  PROVE  CountBody'
<1>1. \A k \in JobIds : Counting(jobs[k])'
  BY CountPasses
<1> QED BY <1>1 DEF CountBody, SucceededIsCounted

(* A job of the chain that goes on, or ends, without a verdict.              *)
SameCount(j) ==
    \E y : /\ Moved(j, y)
           /\ \/ y = NoJob
              \/ /\ y.kind = jobs[j].kind /\ y.shard = jobs[j].shard
                 /\ jobs[j].kind = "finalize" =>
                       /\ jobs[j].pc \in {"queued", "stats"}
                       /\ y.pc \in {"queued", "stats"}

(* Such a step keeps all of CountBody when it is still.                      *)
LEMMA SameCounting ==
  ASSUME TypeOK, OrderBody, CountBody, [Next]_vars, NEW j \in JobIds,
         jobs[j].kind \in Chain, SameCount(j),
         UNCHANGED <<tasks, plan, counts>>,
         status' # "succeeded", status' # "none"
  PROVE  CountBody'
<1>1. PICK y : /\ Moved(j, y)
               /\ \/ y = NoJob
                  \/ /\ y.kind = jobs[j].kind /\ y.shard = jobs[j].shard
                     /\ jobs[j].kind = "finalize" =>
                           /\ jobs[j].pc \in {"queued", "stats"}
                           /\ y.pc \in {"queued", "stats"}
  BY DEF SameCount
<1>2. Counting(y)
  <2>1. Counting(jobs[j])
    BY DEF CountBody
  <2>2. CASE y = NoJob
    BY <2>2 DEF Counting, Open, NoJob
  <2> QED BY <1>1, <2>1, <2>2 DEF Counting, Open
<1>3. Counting(y)'
  BY <1>2, StillSame, StillCounting
<1>4. Undos' = {}
  BY DEF CountBody, Undos, Existing
<1> QED BY <1>1, <1>3, <1>4, CountChain

(* The steps of the chain that neither insert, count nor close anything.     *)
LEMMA CountQuietSteps ==
  ASSUME TypeOK, OrderBody, CountBody, faults' = 0, [Next]_vars, Forward',
         status' # "succeeded", status' # "none", NEW j \in JobIds,
         jobs[j] \in LiveJob,
         \/ PlanBegin(j) \/ BuildArtifact(j) \/ LinkArtifact(j) \/ MarkReady(j)
         \/ DispatchRead(j) \/ DispatchStart(j)
         \/ FinalizeRead(j, "finalize", "executing") \/ ShardFail(j)
  PROVE  CountBody'
<1>1. UNCHANGED <<tasks, plan, counts>>
  BY DEF PlanBegin, BuildArtifact, LinkArtifact, MarkReady, DispatchRead,
         DispatchStart, FinalizeRead, ShardFail
<1>2. jobs[j].kind \in Chain
  BY DEF PlanBegin, BuildArtifact, LinkArtifact, MarkReady, DispatchRead,
         DispatchStart, FinalizeRead, ShardFail, At, Chain
<1>3. ASSUME SameCount(j) PROVE CountBody'
  BY <1>1, <1>2, <1>3, SameCounting
<1>4. CASE ReturnError(j)
  <2>1. PICK y : /\ Moved(j, y)
                 /\ \/ y = NoJob
                    \/ /\ MaxRetry[jobs[j].kind] > 0
                       /\ y \in LiveJob /\ y.kind = jobs[j].kind
                       /\ y.shard = jobs[j].shard /\ y.pc = "queued"
    BY <1>4, ErrorMoves
  <2>2. MaxRetry["finalize"] = 0
    BY DEF MaxRetry
  <2>3. SameCount(j)
    BY <2>1, <2>2 DEF SameCount
  <2> QED BY <1>3, <2>3
<1>5. CASE Return(j)
  BY <1>3, <1>5, CleanReturn DEF SameCount
<1>6. ASSUME NEW pc, Goto(j, pc),
             jobs[j].kind = "finalize" => jobs[j].pc = "queued" /\ pc = "stats"
      PROVE  CountBody'
  <2>1. SameCount(j)
    BY <1>6, GotoMoves DEF SameCount
  <2> QED BY <1>3, <2>1
<1>7. CASE PlanBegin(j) \/ BuildArtifact(j) \/ LinkArtifact(j) \/ MarkReady(j)
  BY <1>4, <1>6, <1>7 DEF PlanBegin, BuildArtifact, LinkArtifact, MarkReady, At
<1>8. CASE \/ DispatchRead(j) \/ DispatchStart(j)
           \/ FinalizeRead(j, "finalize", "executing")
  BY <1>4, <1>5, <1>6, <1>8 DEF DispatchRead, DispatchStart, FinalizeRead, At
<1>9. CASE ShardFail(j)
  BY <1>4, <1>9 DEF ShardFail, TransitionRelease, Forward
<1> QED BY <1>7, <1>8, <1>9

(* Planning inserts pending shards and hands over to the build.              *)
LEMMA CountPlanRows ==
  ASSUME TypeOK, OrderBody, CountBody, faults' = 0, [Next]_vars,
         status' # "succeeded", status' # "none", NEW j \in JobIds, PlanRows(j)
  PROVE  CountBody'
<1>1. jobs[j] \in LiveJob /\ jobs[j].kind = "plan"
  BY AtIsLive DEF PlanRows, TypeOK, JobSet, Kinds
<1>2. Uncounted
  BY <1>1 DEF CountBody, Counting
<1>3. Undos' = {} /\ counts' = counts
  BY DEF PlanRows, CountBody, Undos, Existing
<1>4. Uncounted'
  <2>1. \A s \in ShardIndexes : shards'[s].status \in {"absent", "pending"}
    BY <1>2, NoFault DEF PlanRows, InsertRows, Uncounted, plan
  <2> QED BY <1>2, <1>3, <2>1 DEF Uncounted, counts
<1>5. PICK y : /\ Moved(j, y) \/ Handed(j, y)
               /\ y = NoJob \/ y.kind \in {"plan", "build"}
  <2>1. CASE ReturnError(j)
    BY <1>1, <2>1, ErrorMoves
  <2>2. CASE \E k \in JobIds :
                /\ FreeSlot(k)
                /\ jobs' = [jobs EXCEPT ![j] = NoJob, ![k] = Job("build", 0, 0, 0)]
    <3>1. jobs[j] # NoJob /\ Job("build", 0, 0, 0).kind = "build"
      BY <1>1 DEF NoJob, Job
    <3> QED BY <2>2, <3>1 DEF Handed, FreeSlot
  <2> QED BY <2>1, <2>2, NoFault DEF PlanRows
<1>6. Counting(y)'
  BY <1>4, <1>5 DEF Counting, Open, NoJob
<1>7. jobs[j].kind \in Chain
  BY <1>1 DEF Chain
<1> QED BY <1>3, <1>5, <1>6, <1>7, CountChain

(* The first dispatch finds nothing counted.                                 *)
LEMMA CountDispatchFirst ==
  ASSUME TypeOK, OrderBody, CountBody, faults' = 0, [Next]_vars,
         status' # "succeeded", status' # "none", NEW j \in JobIds,
         DispatchFirst(j)
  PROVE  CountBody'
<1>1. jobs[j] \in LiveJob /\ jobs[j].kind = "build"
  BY AtIsLive DEF DispatchFirst, TypeOK, JobSet, Kinds
<1> DEFINE y == Job("dispatch", 0, 0, 0)
<1>2. Handed(j, y)
  BY <1>1, CleanEnqueue DEF DispatchFirst, NoJob, LiveJob, Kinds
<1>3. Uncounted /\ Deploys = {}
  BY <1>1 DEF CountBody, Counting, OrderBody, InOrder
<1>4. Cardinality(DeploysBefore(0)) = 0
  BY <1>3, FS_EmptySet DEF DeploysBefore
<1>5. Around(0)
  BY <1>3 DEF Around, Uncounted, ShardIndexes
<1>6. Counting(y)
  <2>1. y.kind = "dispatch" /\ y.shard = 0
    BY DEF Job
  <2> HIDE DEF y
  <2> QED BY <1>3, <1>4, <1>5, <2>1 DEF Counting, Open, Uncounted
<1>7. Undos' = {} /\ Still
  BY StillSame DEF DispatchFirst, CountBody, Undos, Existing, plan
<1>8. jobs[j].kind \in Chain
  BY <1>1 DEF Chain
<1> HIDE DEF y
<1> QED BY <1>2, <1>6, <1>7, <1>8, StillCounting, CountChain

(* Setting the status of shard s says nothing of the shards around it.       *)
LEMMA AroundStays ==
  ASSUME TypeOK, NEW s, NEW row, Around(s), shards' = [shards EXCEPT ![s] = row]
  PROVE  /\ \A i \in ShardIndexes :
               /\ i < s => shards'[i].status \in {"absent", "succeeded"}
               /\ i > s => shards'[i].status \in {"absent", "pending"}
         /\ s \in ShardIndexes => shards'[s] = row
<1>1. \A i \in ShardIndexes : i # s => shards'[i] = shards[i]
  BY DEF TypeOK
<1>2. \A i \in ShardIndexes : i < s \/ i > s => i # s
  BY DEF ShardIndexes
<1> QED BY <1>1, <1>2 DEF Around, TypeOK

(* The dispatch of a shard is counted with its verdict.                      *)
LEMMA CountDispatchSend ==
  ASSUME TypeOK, OrderBody, CountBody, faults' = 0, [Next]_vars,
         status' # "succeeded", status' # "none", NEW j \in JobIds,
         DispatchSend(j)
  PROVE  CountBody'
<1>1. jobs[j] \in LiveJob /\ jobs[j].kind = "dispatch" /\ jobs[j].shard \in Nat
  BY AtIsLive DEF DispatchSend, TypeOK, JobSet, Kinds, LiveJob
<1>2. PICK s \in Nat : s = jobs[j].shard
  BY <1>1
<1>3. PICK y : /\ Moved(j, y)
               /\ y = NoJob \/ (y.kind = "dispatch" /\ y.shard = s)
  <2>1. Goto(j, "sent") \/ ReturnError(j)
    BY DEF DispatchSend
  <2> QED BY <1>1, <1>2, <2>1, GotoMoves, ErrorMoves
<1>4. Undos' = {}
  BY SendInserts DEF CountBody, Undos, Existing
<1>5. DeploysBefore(s)' = DeploysBefore(s)
  <2>1. Deploys \subseteq Deploys'
    BY SendInserts DEF Deploys, Existing
  <2>2. ASSUME NEW t \in Deploys', t \notin Deploys PROVE Sh[t.domain] = s
    BY <1>2, <2>2, SendInserts DEF Deploys, Existing, DomainsOf, Sh, Planned
  <2>3. Sh' = Sh
    BY SendInserts
  <2>4. {t \in Deploys' : Sh[t.domain] < s} = {t \in Deploys : Sh[t.domain] < s}
    BY <2>1, <2>2
  <2> QED BY <2>3, <2>4 DEF DeploysBefore
<1>6. Counting(jobs[j]) /\ Open(jobs[j])
  BY <1>1 DEF CountBody, Open
<1>7. Around(s)'
  <2>1. Around(s)
    BY <1>2, <1>6 DEF Counting
  <2>2. shards' = [shards EXCEPT ![s] = [shards[s] EXCEPT !.status = "dispatching"]]
    BY <1>2 DEF DispatchSend
  <2>3. ASSUME NEW i \in ShardIndexes
        PROVE  /\ i < s => shards'[i].status \in {"absent", "succeeded"}
               /\ i > s => shards'[i].status \in {"absent", "pending"}
    BY <2>1, <2>2, AroundStays
  <2> QED BY <2>3 DEF Around
<1>8. Counting(y)'
  <2>1. successCount = Cardinality(DeploysBefore(s)) /\ failureCount = 0
    BY <1>2, <1>6 DEF Counting
  <2>2. successCount' = successCount /\ failureCount' = failureCount
    BY DEF DispatchSend, counts
  <2>3. (successCount = Cardinality(DeploysBefore(s)) /\ failureCount = 0)'
    BY <1>5, <2>1, <2>2
  <2> QED BY <1>3, <1>7, <2>3 DEF Counting, Open, NoJob
<1>9. jobs[j].kind \in Chain
  BY <1>1 DEF Chain
<1> QED BY <1>3, <1>4, <1>8, <1>9, CountChain

(* A shard that has been sent is still to be counted.                        *)
LEMMA CountDispatchSent ==
  ASSUME TypeOK, OrderBody, CountBody, faults' = 0, [Next]_vars,
         status' # "succeeded", status' # "none", NEW j \in JobIds,
         DispatchSent(j)
  PROVE  CountBody'
<1>1. jobs[j] \in LiveJob /\ jobs[j].kind = "dispatch" /\ jobs[j].shard \in Nat
  BY AtIsLive DEF DispatchSent, TypeOK, JobSet, Kinds, LiveJob
<1>2. PICK s \in Nat : s = jobs[j].shard
  BY <1>1
<1>3. PICK y : y = Job("finalize", s, 0, 0)
  OBVIOUS
<1>4. Handed(j, y)
  BY <1>1, <1>2, <1>3, CleanEnqueue DEF DispatchSent, NoJob, LiveJob, Kinds
<1>5. Undos' = {} /\ Deploys' = Deploys /\ Sh' = Sh
  BY DEF DispatchSent, CountBody, Undos, Deploys, Existing, Sh, ShardOf, Planned
<1>6. Counting(jobs[j]) /\ Open(jobs[j])
  BY <1>1 DEF CountBody, Open
<1>7. Around(s)'
  <2>1. Around(s)
    BY <1>2, <1>6 DEF Counting
  <2>2. shards' = [shards EXCEPT ![s] = [shards[s] EXCEPT !.status = "running"]]
    BY <1>2 DEF DispatchSent
  <2>3. ASSUME NEW i \in ShardIndexes
        PROVE  /\ i < s => shards'[i].status \in {"absent", "succeeded"}
               /\ i > s => shards'[i].status \in {"absent", "pending"}
    BY <2>1, <2>2, AroundStays
  <2> QED BY <2>3 DEF Around
<1>8. Counting(y)'
  <2>1. successCount = Cardinality(DeploysBefore(s)) /\ failureCount = 0
    BY <1>2, <1>6 DEF Counting
  <2>2. (successCount = Cardinality(DeploysBefore(s)) /\ failureCount = 0)'
    BY <1>5, <2>1 DEF DispatchSent, counts, DeploysBefore
  <2>3. y.kind = "finalize" /\ y.shard = s /\ y.pc = "queued"
    BY <1>3 DEF Job
  <2> QED BY <1>7, <2>2, <2>3 DEF Counting, Open
<1>9. jobs[j].kind \in Chain
  BY <1>1 DEF Chain
<1> QED BY <1>4, <1>5, <1>8, <1>9, CountChain

(* The statistics of a clean shard are the number of its deploy tasks.       *)
LEMMA ShardCounted ==
  ASSUME TypeOK, OrderBody, Undos = {}, NEW s, ~HasFailed(StatsByShard(s))
  PROVE  /\ StatsByShard(s).ok = Cardinality(DeploysIn(s))
         /\ StatsByShard(s).bad = 0
<1> DEFINE ts == {t \in Existing : t.domain \in DomainsOf(s)}
<1>1. /\ StatsByShard(s).ok = Cardinality(ts)
      /\ StatsByShard(s).bad = 0
  BY CleanStats DEF StatsByShard
<1>2. \A t \in Existing : t \in Deploys /\ t.domain \in Domains
  BY DEF Undos, Deploys, Existing, TaskIds
<1>3. ts = DeploysIn(s)
  BY <1>2 DEF OrderBody, DeploysIn, DomainsOf, Sh, Deploys
<1> QED BY <1>1, <1>3

(* Clean statistics of a shard count its deploy tasks.                       *)
LEMMA CountFinalizeStats ==
  ASSUME TypeOK, OrderBody, CountBody, faults' = 0, [Next]_vars,
         status' # "succeeded", status' # "none", NEW j \in JobIds,
         FinalizeStats(j, "finalize", StatsByShard(jobs[j].shard))
  PROVE  CountBody'
<1>1. /\ jobs[j] \in LiveJob /\ jobs[j].kind = "finalize"
      /\ jobs[j].pc = "stats" /\ jobs[j].kind \in Chain
  BY AtIsLive DEF FinalizeStats, TypeOK, JobSet, Kinds, Chain
<1>2. Undos' = {} /\ Still
  BY StillSame DEF FinalizeStats, CountBody, Undos, Existing
<1>3. Counting(jobs[j]) /\ Open(jobs[j])
  BY <1>1 DEF CountBody, Open
<1>4. CASE EnqueueAndReturn(j, Job("finalize", jobs[j].shard,
                                   jobs[j].poll + 1, jobs[j].rec))
  <2> DEFINE y == Job("finalize", jobs[j].shard, jobs[j].poll + 1, jobs[j].rec)
  <2>1. Handed(j, y)
    BY <1>1, <1>4, CleanEnqueue DEF NoJob, LiveJob, Kinds
  <2>2. y.kind = "finalize" /\ y.shard = jobs[j].shard /\ y.pc = "queued"
    BY DEF Job
  <2> HIDE DEF y
  <2>3. Counting(y)
    BY <1>3, <2>2 DEF Counting, Open
  <2> QED BY <1>1, <1>2, <2>1, <2>3, StillCounting, CountChain
<1>5. CASE jobs' = [jobs EXCEPT ![j].pc = "close",
                               ![j].seen = StatsByShard(jobs[j].shard)]
  <2> DEFINE y == [jobs[j] EXCEPT !.pc = "close",
                                  !.seen = StatsByShard(jobs[j].shard)]
  <2>1. Moved(j, y)
    BY <1>1, <1>5 DEF Moved, TypeOK, LiveJob
  <2>2. /\ y.kind = "finalize" /\ y.shard = jobs[j].shard
        /\ y.seen = StatsByShard(jobs[j].shard) /\ y.pc = "close"
    BY <1>1 DEF LiveJob
  <2>3. ~HasFailed(y.seen) => /\ y.seen.ok = Cardinality(DeploysIn(y.shard))
                              /\ y.seen.bad = 0
    BY <2>2, ShardCounted DEF CountBody
  <2> HIDE DEF y
  <2>4. Counting(y)
    BY <1>3, <2>2, <2>3 DEF Counting, Open
  <2> QED BY <1>1, <1>2, <2>1, <2>4, StillCounting, CountChain
<1> QED BY <1>4, <1>5 DEF FinalizeStats

(* The deploy tasks up to a shard are those before it and those in it.       *)
LEMMA DeploysUpTo ==
  ASSUME NEW s \in Nat, \A t \in Deploys : Sh[t.domain] <= s
  PROVE  Cardinality(Deploys)
            = Cardinality(DeploysBefore(s)) + Cardinality(DeploysIn(s))
<1>1. \A t \in Deploys : Sh[t.domain] \in Nat
  BY ShardOfType DEF Deploys, Existing, TaskIds
<1>2. /\ Deploys = DeploysBefore(s) \cup DeploysIn(s)
      /\ DeploysBefore(s) \cap DeploysIn(s) = {}
  BY <1>1 DEF DeploysBefore, DeploysIn
<1>3. IsFiniteSet(DeploysBefore(s)) /\ IsFiniteSet(DeploysIn(s))
  BY TaskIdsFinite, FS_Subset DEF DeploysBefore, DeploysIn, Deploys, Existing
<1>4. Cardinality({}) = 0
  BY FS_EmptySet
<1>5. Cardinality(DeploysBefore(s)) \in Nat /\ Cardinality(DeploysIn(s)) \in Nat
  BY <1>3, FS_CardinalityType
<1>6. Cardinality(DeploysBefore(s) \cup DeploysIn(s))
         = Cardinality(DeploysBefore(s)) + Cardinality(DeploysIn(s))
              - Cardinality(DeploysBefore(s) \cap DeploysIn(s))
  BY <1>3, FS_Union
<1>7. Cardinality(DeploysBefore(s) \cap DeploysIn(s)) = 0
  BY <1>2, <1>4
<1>8. Cardinality(Deploys) = Cardinality(DeploysBefore(s) \cup DeploysIn(s))
  BY <1>2
<1> QED BY <1>5, <1>6, <1>7, <1>8

(* Closing a clean shard adds its tasks to those of the shards before it.    *)
LEMMA CountShardClose ==
  ASSUME TypeOK, OrderBody, CountBody, faults' = 0, [Next]_vars,
         status' # "succeeded", status' # "none", NEW j \in JobIds,
         ShardClose(j)
  PROVE  CountBody'
<1>1. /\ jobs[j] \in LiveJob /\ jobs[j].kind = "finalize"
      /\ jobs[j].pc = "close" /\ jobs[j].kind \in Chain
      /\ jobs[j].shard \in Nat
  BY AtIsLive DEF ShardClose, TypeOK, JobSet, Kinds, Chain, LiveJob
<1>2. PICK s \in Nat : s = jobs[j].shard
  BY <1>1
<1>3. Undos' = {} /\ Deploys' = Deploys
  BY DEF ShardClose, CountBody, Undos, Deploys, Existing
<1>4. Counting(jobs[j]) /\ Open(jobs[j])
  BY <1>1 DEF CountBody, Open
<1>5. CASE HasFailed(jobs[j].seen)
  <2>1. Goto(j, "fail")
    BY <1>5 DEF ShardClose
  <2>2. PICK y : /\ Moved(j, y)
                 /\ y.kind = jobs[j].kind /\ y.shard = jobs[j].shard
                 /\ y.seen = jobs[j].seen /\ y.pc = "fail" /\ y # NoJob
    BY <1>1, <2>1, GotoMoves
  <2>3. Counting(y)'
    BY <1>1, <2>2 DEF Counting, Open
  <2> QED BY <1>1, <1>3, <2>2, <2>3, CountChain
<1>6. CASE ~HasFailed(jobs[j].seen)
  <2>1. PICK y : /\ Moved(j, y)
                 /\ y.kind = jobs[j].kind /\ y.shard = jobs[j].shard
                 /\ y.seen = jobs[j].seen /\ y.pc = "next" /\ y # NoJob
    <3>1. Goto(j, "next")
      BY <1>6 DEF ShardClose
    <3> QED BY <1>1, <3>1, GotoMoves
  <2>2. /\ successCount = Cardinality(DeploysBefore(s)) /\ failureCount = 0
        /\ jobs[j].seen.ok = Cardinality(DeploysIn(s)) /\ jobs[j].seen.bad = 0
        /\ Around(s)
    BY <1>1, <1>2, <1>4, <1>6 DEF Counting
  <2>3. \A t \in Deploys : Sh[t.domain] <= s
    BY <1>1, <1>2 DEF OrderBody, InOrder
  <2>4. successCount' = Cardinality(Deploys) /\ failureCount' = 0
    BY <2>2, <2>3, DeploysUpTo DEF ShardClose, CountTasks
  <2>5. PICK row : /\ shards' = [shards EXCEPT ![s] = row]
                   /\ row.status = "succeeded"
    <3> DEFINE r == [status |-> "succeeded",
                     ok |-> jobs[j].seen.ok, bad |-> jobs[j].seen.bad]
    <3>1. shards' = [shards EXCEPT ![s] = r]
      BY <1>2, <1>6 DEF ShardClose
    <3>2. r.status = "succeeded"
      OBVIOUS
    <3> QED BY <3>1, <3>2
  <2>6. /\ Around(s)'
        /\ s \in ShardIndexes => shards'[s].status = "succeeded"
    <3>1. ASSUME NEW i \in ShardIndexes
          PROVE  /\ i < s => shards'[i].status \in {"absent", "succeeded"}
                 /\ i > s => shards'[i].status \in {"absent", "pending"}
      BY <2>2, <2>5, AroundStays
    <3>2. s \in ShardIndexes => shards'[s] = row
      BY <2>2, <2>5, AroundStays
    <3> QED BY <2>5, <3>1, <3>2 DEF Around
  <2>7. Counting(y)'
    <3>1. (successCount = Cardinality(Deploys) /\ failureCount = 0)'
      BY <1>3, <2>4
    <3>2. y.shard = s /\ y.kind = "finalize" /\ y.pc = "next"
      BY <1>1, <1>2, <2>1
    <3> QED BY <2>6, <3>1, <3>2 DEF Counting, Open
  <2> QED BY <1>1, <1>3, <2>1, <2>7, CountChain
<1> QED BY <1>5, <1>6

(* After a clean shard everything deployed so far is done and counted.       *)
LEMMA NextKnows ==
  ASSUME TypeOK, OrderBody, CountBody, NEW j \in JobIds, NEW s \in Nat,
         jobs[j] \in LiveJob, At(j, "finalize", "next"), s = jobs[j].shard
  PROVE  /\ \A t \in Deploys : Sh[t.domain] \in Nat /\ Sh[t.domain] <= s
         /\ \A t \in Existing : tasks[t] = "succeeded"
         /\ Existing = Deploys
         /\ successCount = Cardinality(Deploys) /\ failureCount = 0
         /\ Around(s)
         /\ s \in ShardIndexes => shards[s].status = "succeeded"
<1>1. InOrder(jobs[j]) /\ Passed(jobs[j]) /\ Counting(jobs[j])
  BY DEF OrderBody, CountBody, Passed, At
<1>2. ASSUME NEW t \in Deploys
      PROVE  /\ Sh[t.domain] \in Nat /\ Sh[t.domain] <= s
             /\ tasks[t] = "succeeded"
  <2>1. Sh[t.domain] \in Nat
    BY ShardOfType DEF Deploys, Existing, TaskIds
  <2>2. Sh[t.domain] <= s
    BY <1>1 DEF InOrder, At
  <2>3. Sh[t.domain] < s => tasks[t] = "succeeded"
    BY <1>1 DEF InOrder, At
  <2>4. Sh[t.domain] = s => tasks[t] = "succeeded"
    BY <1>1 DEF InOrder
  <2> QED BY <2>1, <2>2, <2>3, <2>4
<1>3. Existing = Deploys
  BY DEF CountBody, Undos, Deploys, Existing, TaskIds
<1> QED BY <1>1, <1>2, <1>3 DEF Counting, At

(* The next shard goes out, or none is left and the release has succeeded.   *)
LEMMA CountShardNext ==
  ASSUME TypeOK, OrderBody, CountBody, faults' = 0, [Next]_vars, Forward',
         status' # "none", NEW j \in JobIds, ShardNext(j)
  PROVE  CountBody'
<1>1. /\ jobs[j] \in LiveJob /\ At(j, "finalize", "next")
      /\ jobs[j].kind = "finalize" /\ jobs[j].kind \in Chain
      /\ jobs[j].shard \in Nat
  BY AtIsLive DEF ShardNext, TypeOK, JobSet, Kinds, Chain, LiveJob
<1>2. PICK s \in Nat : s = jobs[j].shard
  BY <1>1
<1>3. Undos' = {} /\ Still /\ Deploys' = Deploys /\ UNCHANGED <<tasks, plan, counts>>
  BY StillSame DEF ShardNext, CountBody, Undos, Deploys, Existing
<1>4. /\ \A t \in Deploys : Sh[t.domain] \in Nat /\ Sh[t.domain] <= s
      /\ \A t \in Existing : tasks[t] = "succeeded"
      /\ Existing = Deploys
      /\ successCount = Cardinality(Deploys) /\ failureCount = 0
      /\ Around(s)
      /\ s \in ShardIndexes => shards[s].status = "succeeded"
  BY <1>1, <1>2, NextKnows
<1>5. status # "succeeded"
  BY <1>1 DEF CountBody
<1>6. ASSUME NEW k \in PendingAfter(s), \A l \in PendingAfter(s) : k <= l,
             EnqueueAndReturn(j, Job("dispatch", k, 0, 0)), UNCHANGED status
      PROVE  CountBody'
  <2>1. PICK y : y = Job("dispatch", k, 0, 0)
    OBVIOUS
  <2>2. Handed(j, y)
    BY <1>1, <1>6, <2>1, CleanEnqueue DEF NoJob, LiveJob, Kinds
  <2>3. k \in Int /\ k > s /\ k \in ShardIndexes
    BY DEF PendingAfter, ShardIndexes
  <2>4. DeploysBefore(k) = Deploys
    BY <1>4, <2>3 DEF DeploysBefore
  <2>5. ASSUME NEW i \in ShardIndexes
        PROVE  /\ i < k => shards[i].status \in {"absent", "succeeded"}
               /\ i > k => shards[i].status \in {"absent", "pending"}
    <3>1. i \in Int
      BY DEF ShardIndexes
    <3>2. CASE i < s
      BY <1>4, <2>3, <3>1, <3>2 DEF Around
    <3>3. CASE i = s
      BY <1>4, <2>3, <3>1, <3>3
    <3>4. CASE i > s
      <4>1. shards[i].status \in {"absent", "pending"}
        BY <1>4, <3>4 DEF Around
      <4>2. shards[i].status = "pending" => k <= i
        BY <1>6, <3>4 DEF PendingAfter
      <4> QED BY <2>3, <3>1, <4>1, <4>2
    <3> QED BY <3>1, <3>2, <3>3, <3>4
  <2>6. y.kind = "dispatch" /\ y.shard = k
    BY <2>1 DEF Job
  <2>7. Counting(y)
    BY <1>4, <2>4, <2>5, <2>6 DEF Counting, Open, Around
  <2>8. Counting(y)'
    BY <1>3, <2>7, StillCounting
  <2> QED BY <1>1, <1>3, <1>5, <1>6, <2>2, <2>8, CountChain
<1>7. ASSUME PendingAfter(s) = {}, status' = "succeeded", Return(j)
      PROVE  CountBody'
  <2>1. Moved(j, NoJob)
    BY <1>7, CleanReturn
  <2>2. Counting(NoJob)'
    BY DEF Counting, Open, NoJob
  <2>3. \A k \in JobIds : Counting(jobs[k])'
    BY <1>1, <2>1, <2>2, CountPasses
  <2>4. \A k \in JobIds : jobs'[k].kind \notin Chain
    BY <1>1, <2>1 DEF Moved, TypeOK, OrderBody, OneChain, NoJob, Chain
  <2>5. ASSUME NEW i \in ShardIndexes
        PROVE  shards[i].status \in {"absent", "succeeded"}
    <3>1. i \in Int
      BY DEF ShardIndexes
    <3>2. CASE i > s
      <4>1. shards[i].status \in {"absent", "pending"}
        BY <1>4, <3>2 DEF Around
      <4>2. shards[i].status # "pending"
        BY <1>7, <3>2 DEF PendingAfter
      <4> QED BY <4>1, <4>2
    <3>3. CASE i < s
      BY <1>4, <3>3 DEF Around
    <3>4. CASE i = s
      BY <1>4, <3>4
    <3> QED BY <3>1, <3>2, <3>3, <3>4
  <2>6. SucceededIsCounted'
    <3>1. Existing' = Existing
      BY <1>3 DEF Existing
    <3> QED BY <1>3, <1>4, <2>5, <3>1 DEF SucceededIsCounted, plan, counts
  <2> QED BY <1>3, <2>3, <2>4, <2>6 DEF CountBody
<1>8. CASE ReturnError(j) /\ UNCHANGED status
  <2>1. PICK y : /\ Moved(j, y)
                 /\ \/ y = NoJob
                    \/ /\ MaxRetry[jobs[j].kind] > 0
                       /\ y \in LiveJob /\ y.kind = jobs[j].kind
                       /\ y.shard = jobs[j].shard /\ y.pc = "queued"
    BY <1>1, <1>8, ErrorMoves
  <2>2. y = NoJob
    BY <1>1, <2>1 DEF MaxRetry
  <2>3. SameCount(j)
    BY <2>1, <2>2 DEF SameCount
  <2> QED BY <1>1, <1>3, <1>5, <1>8, <2>3, SameCounting
<1> QED BY <1>2, <1>6, <1>7, <1>8 DEF ShardNext, TransitionRelease

(* A request for a rollback that found the release elsewhere ends.           *)
LEMMA CountRequestEnds ==
  ASSUME TypeOK, CountBody, faults' = 0, [Next]_vars, Forward',
         NEW j \in JobIds, BeginRollback(j)
  PROVE  CountBody'
<1>1. jobs[j] \in LiveJob /\ jobs[j].kind = "request"
  BY DEF BeginRollback, TypeOK, NoJob
<1>2. ReturnError(j) /\ UNCHANGED status
  BY DEF BeginRollback, TransitionRelease, Forward
<1>3. PICK y : /\ Moved(j, y)
               /\ \/ y = NoJob
                  \/ /\ MaxRetry[jobs[j].kind] > 0
                     /\ y \in LiveJob /\ y.kind = jobs[j].kind
                     /\ y.shard = jobs[j].shard /\ y.pc = "queued"
  BY <1>1, <1>2, ErrorMoves
<1>4. y = NoJob
  BY <1>1, <1>3 DEF MaxRetry
<1>5. UNCHANGED <<tasks, plan, counts>> /\ Still
  BY StillSame DEF BeginRollback
<1>6. ASSUME NEW k \in JobIds PROVE Counting(jobs[k])'
  <2>1. Counting(NoJob)'
    BY DEF Counting, Open, NoJob
  <2>2. jobs'[k] = NoJob \/ jobs'[k] = jobs[k]
    BY <1>3, <1>4 DEF Moved, TypeOK
  <2>3. \E x : x = jobs'[k] /\ Counting(x)'
    BY <1>5, <2>1, <2>2, StillCounting DEF CountBody
  <2> QED BY <2>3 DEF Counting, Open
<1>7. \A k \in JobIds : jobs'[k].kind \in Chain => jobs[k].kind \in Chain
  BY <1>3, <1>4 DEF Moved, TypeOK, NoJob, Chain
<1> QED BY <1>2, <1>5, <1>6, <1>7
        DEF CountBody, Undos, Existing, Uncounted, SucceededIsCounted, plan, counts

(* CountBody in every step of a job.                                         *)
LEMMA CountJobStep ==
  ASSUME TypeOK, OrderBody, CountBody, faults' = 0, [Next]_vars, Forward',
         NEW j \in JobIds, JobStep(j)
  PROVE  CountBody'
<1>1. jobs[j] \in LiveJob
  BY StepIsLive
<1>2. status # "none"
  BY <1>1 DEF OrderBody, Untouched, NoJob, LiveJob, Kinds
<1>3. status' # "none"
  BY <1>2, RowStays
<1>4. jobs[j].kind \notin {"rollback", "undo"}
  BY DEF CountBody, Counting
<1>5. ~(\/ ExecuteRollback(j) \/ RollbackSent(j)
        \/ FinalizeRead(j, "undo", "rolling_back")
        \/ FinalizeStats(j, "undo", StatsByRelease)
        \/ RollbackClose(j) \/ RollbackSettle(j) \/ RollbackMark(j))
  BY <1>4 DEF ExecuteRollback, RollbackSent, FinalizeRead, FinalizeStats,
              RollbackClose, RollbackSettle, RollbackMark, At
<1>6. CASE BeginRollback(j)
  BY <1>6, CountRequestEnds
<1>7. CASE ShardNext(j)
  BY <1>3, <1>7, CountShardNext
<1>8. CASE ~BeginRollback(j) /\ ~ShardNext(j)
  <2>1. jobs[j].kind \in Chain
    BY <1>5, <1>8 DEF JobStep, PlanBegin, PlanRows, BuildArtifact, LinkArtifact,
       MarkReady, DispatchFirst, DispatchRead, DispatchStart, DispatchSend,
       DispatchSent, FinalizeRead, FinalizeStats, ShardClose, ShardFail, At, Chain
  <2>2. status # "succeeded"
    BY <2>1 DEF CountBody
  <2>3. status' # "succeeded"
    BY <1>5, <1>8, <2>2 DEF JobStep, PlanBegin, PlanRows, BuildArtifact,
       LinkArtifact, MarkReady, DispatchFirst, DispatchRead, DispatchStart,
       DispatchSend, DispatchSent, FinalizeRead, FinalizeStats, ShardClose,
       ShardFail, TransitionRelease, TryMove
  <2> QED BY <1>1, <1>3, <1>5, <1>8, <2>3, CountQuietSteps, CountPlanRows,
             CountDispatchFirst, CountDispatchSend, CountDispatchSent,
             CountFinalizeStats, CountShardClose
          DEF JobStep
<1> QED BY <1>6, <1>7, <1>8

(* CountBody in every other step.                                            *)
LEMMA CountOthers ==
  ASSUME TypeOK, OrderBody, CountBody, faults' = 0, [Next]_vars, Forward',
         Create \/ Operator \/ Agent \/ UNCHANGED vars
  PROVE  CountBody'
<1>1. CASE Create
  <2>1. Uncounted /\ \A k \in JobIds : jobs[k] = NoJob
    BY <1>1 DEF Create, CountBody, OrderBody, Untouched
  <2>2. Uncounted' /\ Undos' = {} /\ status' = "pending"
    BY <1>1, <2>1 DEF Create, Uncounted, CountBody, Undos, Existing, plan, counts
  <2>3. PICK k \in JobIds : jobs' = [jobs EXCEPT ![k] = Job("plan", 0, 0, 0)]
    BY <1>1, NoFault DEF Create
  <2>4. Job("plan", 0, 0, 0).kind = "plan"
    BY DEF Job
  <2>5. ASSUME NEW i \in JobIds PROVE Counting(jobs[i])'
    <3>1. jobs'[i].kind \in {"plan", "none"}
      BY <2>1, <2>3, <2>4 DEF TypeOK, NoJob
    <3> QED BY <2>2, <3>1 DEF Counting, Open
  <2> QED BY <2>2, <2>5 DEF CountBody, SucceededIsCounted
<1>2. CASE Pause \/ Resume \/ Cancel \/ UNCHANGED vars
  <2>1. UNCHANGED <<tasks, plan, counts, jobs>> /\ Still
    BY <1>2, StillSame DEF Pause, Resume, Cancel, Request, vars
  <2>2. status' \in {"none", "succeeded"} => status' = status
    BY <1>2 DEF Pause, Resume, Cancel, Request, TransitionRelease, vars
  <2>3. ASSUME NEW k \in JobIds PROVE Counting(jobs[k])'
    <3>1. \E x : x = jobs'[k] /\ Counting(x)'
      BY <2>1, StillCounting DEF CountBody
    <3> QED BY <3>1 DEF Counting, Open
  <2> QED BY <2>1, <2>2, <2>3
          DEF CountBody, Undos, Existing, Uncounted, SucceededIsCounted, plan, counts
<1>3. CASE RequestRollback
  <2>1. UNCHANGED <<tasks, plan, counts, status>> /\ Still
    BY <1>3, StillSame DEF RequestRollback
  <2>2. PICK k \in JobIds, r \in 0 .. MaxRollbacks :
          jobs' = [jobs EXCEPT ![k] =
                     [Job("request", 0, 0, r) EXCEPT !.pc = status]]
    BY <1>3 DEF RequestRollback
  <2>3. PICK y : y = [Job("request", 0, 0, r) EXCEPT !.pc = status]
    OBVIOUS
  <2>4. y.kind = "request" /\ Counting(y)'
    BY <2>3 DEF Job, Counting, Open
  <2>5. \A i \in JobIds : jobs'[i] = y \/ jobs'[i] = jobs[i]
    BY <2>2, <2>3 DEF TypeOK
  <2>6. ASSUME NEW i \in JobIds PROVE Counting(jobs[i])'
    <3>1. \E x : x = jobs'[i] /\ Counting(x)'
      BY <2>1, <2>4, <2>5, StillCounting DEF CountBody
    <3> QED BY <3>1 DEF Counting, Open
  <2>7. \A i \in JobIds : jobs'[i].kind \in Chain => jobs[i].kind \in Chain
    BY <2>4, <2>5 DEF Chain
  <2> QED BY <2>1, <2>6, <2>7
          DEF CountBody, Undos, Existing, Uncounted, SucceededIsCounted, plan, counts
<1>4. CASE Agent
  <2>1. PICK t \in TaskIds, o \in TaskStates \ {"absent"} :
           /\ tasks[t] \in {"pending", "claimed"}
           /\ tasks' = [tasks EXCEPT ![t] = o]
    BY <1>4 DEF Agent, ClaimTask, ReportTask, TaskStates
  <2>2. Existing' = Existing /\ t \in Existing
    BY <2>1 DEF Existing, TypeOK
  <2>3. UNCHANGED <<plan, counts, status, jobs>>
    BY <1>4 DEF Agent, ClaimTask, ReportTask
  <2>4. Still
    BY <2>2, <2>3 DEF Still, Deploys, Sh, ShardOf, Planned, plan, counts
  <2>5. status # "succeeded"
    BY <2>1, <2>2 DEF CountBody, SucceededIsCounted
  <2>6. ASSUME NEW k \in JobIds PROVE Counting(jobs[k])'
    <3>1. \E x : x = jobs'[k] /\ Counting(x)'
      BY <2>3, <2>4, StillCounting DEF CountBody
    <3> QED BY <3>1 DEF Counting, Open
  <2> QED BY <2>2, <2>3, <2>5, <2>6
          DEF CountBody, Undos, Uncounted, SucceededIsCounted, plan, counts
<1> QED BY <1>1, <1>2, <1>3, <1>4 DEF Operator

(* CountInv is inductive.                                                    *)
LEMMA CountStep == TypeOK /\ OrderInv /\ CountInv /\ [Next]_vars => CountInv'
<1> SUFFICES ASSUME TypeOK, OrderInv, CountInv, [Next]_vars, faults' = 0, Forward'
             PROVE  CountBody'
  BY DEF CountInv
<1>1. OrderBody /\ CountBody
  BY FaultsStay, ForwardStays DEF OrderInv, CountInv
<1>2. CASE LoseQueue \/ \E j \in JobIds : Crash(j)
  BY <1>2, NoFault DEF LoseQueue, Crash
<1>3. ASSUME NEW j \in JobIds, JobStep(j) PROVE CountBody'
  BY <1>1, <1>3, CountJobStep
<1>4. CASE Create \/ Operator \/ Agent \/ UNCHANGED vars
  BY <1>1, <1>4, CountOthers
<1> QED BY <1>2, <1>3, <1>4 DEF Next

(* Until the first fault a release that says succeeded has counted each of   *)
(* its agent tasks once, none of them and no shard failed or still runs,     *)
(* although each verdict rests on statistics that agents went on changing    *)
(* (Finalize).                                                               *)
THEOREM SuccessIsCounted == Spec => [](faults = 0 => SucceededIsCounted)
<1>1. Init => OrderInv /\ CountInv
  BY DEF Init, OrderInv, OrderBody, OneChain, InOrder, Passed, Untouched,
         Deploys, Undos, Existing, EarlierShardsClean, NoJob, Chain, CountInv,
         CountBody, Counting, Open, Uncounted, SucceededIsCounted
<1>2. CountInv => (faults = 0 => SucceededIsCounted)
  BY DEF CountInv, CountBody, Forward, SucceededIsCounted
<1> QED BY <1>1, <1>2, OrderStep, CountStep, TypeCorrect, PTL DEF Spec

-----------------------------------------------------------------------------
(* What a rolled back release has undone.                                    *)

(* At most one rollback of the release has been requested.                   *)
OneRequest ==
    \A q, r \in 1 .. MaxRollbacks :
       rollbacks[q] # "absent" /\ rollbacks[r] # "absent" => q = r

NoRequest == \A r \in 1 .. MaxRollbacks : rollbacks[r] = "absent"

(* A rollback whose tasks have not been inserted, and one whose have.        *)
Before(job) ==
    job.kind = "request" \/ (job.kind = "rollback" /\ job.pc # "sent")

After(job) ==
    job.kind = "undo" \/ (job.kind = "rollback" /\ job.pc = "sent")

(* What the one request, or the job it has become, knows of the release.     *)
Undoing(job) ==
    /\ Before(job) => Undos = {} /\ status # "rolled_back"
    /\ job.kind = "request" => status # "rolling_back"
    /\ After(job) => Undos # {}
    /\ After(job) /\ job.pc # "mark" => status # "rolled_back"
    /\ (job.kind = "undo" /\ job.pc \in {"close", "settle"}
          /\ ~HasFailed(job.seen)) =>
          \A t \in Undos : tasks[t] = "succeeded"

OneRolling ==
    \A i, j \in JobIds :
       jobs[i].kind \in Rolling /\ jobs[j].kind \in Rolling => i = j

(* RolledBackIsUndone is not inductive: the verdict is taken from statistics *)
(* read earlier, and stands because no other job of a rollback exists.       *)
UndoBody ==
    /\ OneRolling
    /\ \A j \in JobIds : Undoing(jobs[j])
    /\ NoRequest => /\ \A j \in JobIds : jobs[j].kind \notin Rolling
                    /\ Undos = {}
                    /\ status \notin {"rolling_back", "rolled_back"}
    /\ RolledBackIsUndone

UndoInv == faults = 0 /\ OneRequest => UndoBody

(* A set of numbers that is not empty has a least one.                       *)
LEMMA LeastOf ==
  ASSUME NEW T \in SUBSET Nat, T # {}
  PROVE  \E x \in T : \A y \in T : x <= y
<1>1. IsWellFoundedOn(OpToRel(<, Nat), Nat)
  BY NatLessThanWellFounded, Zenon
<1>2. PICK x \in T : \A y \in T : <<y, x>> \notin OpToRel(<, Nat)
  BY <1>1, WFMin
<1>3. \A y \in T : y < x => <<y, x>> \in OpToRel(<, Nat)
  BY DEF OpToRel
<1>4. \A y \in T : ~(y < x)
  BY <1>2, <1>3
<1> QED BY <1>4

(* A release with domain tasks has one to hang the rollback tasks on.        *)
LEMMA RepresentativeExists ==
  ASSUME Planned # {}
  PROVE  Representative \in Domains
<1> DEFINE groups == {GroupOf[e] : e \in Planned} \ {0}
<1>1. Planned \subseteq Domains /\ \A d \in Planned : GroupOf[d] \in Nat
  BY GroupAssumption DEF Planned
<1>2. Cardinality({}) = 0
  BY FS_EmptySet
<1>3. PICK d \in Planned : ShardIndex(d, Planned) = 0
  <2>1. CASE groups = {}
    <3>1. PICK d \in Planned : TRUE
      OBVIOUS
    <3>2. GroupOf[d] = 0
      BY <2>1
    <3> QED BY <1>2, <2>1, <3>2 DEF ShardIndex
  <2>2. CASE groups # {}
    <3>1. groups \in SUBSET Nat
      BY <1>1
    <3>2. PICK g \in groups : \A h \in groups : g <= h
      <4> HIDE DEF groups
      <4> QED BY <2>2, <3>1, LeastOf
    <3>3. PICK d \in Planned : GroupOf[d] = g /\ g # 0
      BY <3>2
    <3>4. {h \in groups : h < GroupOf[d]} = {}
      BY <3>1, <3>2, <3>3
    <3> QED BY <1>2, <3>3, <3>4 DEF ShardIndex
  <2> QED BY <2>1, <2>2
<1>4. d \in DomainsOf(0)
  BY <1>3 DEF DomainsOf, ShardOf
<1>5. DomainsOf(0) \in SUBSET Nat /\ DomainsOf(0) \subseteq Domains
  BY <1>1, DomainsAssumption DEF DomainsOf
<1>6. \E e \in DomainsOf(0) : \A f \in DomainsOf(0) : e <= f
  BY <1>4, <1>5, LeastOf
<1>7. Representative \in DomainsOf(0)
  BY <1>6 DEF Representative
<1> QED BY <1>5, <1>7

(* A step that neither inserts a rollback task nor begins or ends a rollback. *)
Aside ==
    /\ Undos' = Undos
    /\ \A t \in Undos : tasks[t] = "succeeded" => tasks'[t] = "succeeded"
    /\ status' \in {"rolling_back", "rolled_back"} => status' = status

(* A step aside takes nothing from what a rollback knows.                    *)
LEMMA AsideUndoing ==
  ASSUME Aside, NEW job, Undoing(job) PROVE Undoing(job)'
BY DEF Aside, Undoing, Before, After

(* A job outside the rollback claims nothing of it.                          *)
LEMMA OthersUndoing ==
  ASSUME NEW job, job.kind \notin Rolling PROVE Undoing(job) /\ Undoing(job)'
BY DEF Undoing, Before, After, Rolling

(* What takes the place of a job knows what the rollback has done, and so do *)
(* all.                                                                      *)
LEMMA UndoPasses ==
  ASSUME TypeOK, UndoBody, NEW j \in JobIds, NEW y,
         Moved(j, y) \/ Handed(j, y),
         y.kind \in Rolling => jobs[j].kind \in Rolling,
         \A k \in JobIds : \A x : k # j /\ x = jobs[k] => Undoing(x)',
         Undoing(y)'
  PROVE  OneRolling' /\ \A k \in JobIds : Undoing(jobs[k])'
<1>1. Undoing(NoJob)' /\ NoJob.kind \notin Rolling
  BY OthersUndoing DEF NoJob, Rolling
<1>2. CASE Moved(j, y)
  <2>1. jobs'[j] = y /\ \A k \in JobIds : k # j => jobs'[k] = jobs[k]
    BY <1>2 DEF Moved, TypeOK
  <2>2. OneRolling'
    BY <2>1 DEF OneRolling, UndoBody
  <2>3. ASSUME NEW k \in JobIds PROVE Undoing(jobs[k])'
    <3>1. \E x : x = jobs'[k] /\ Undoing(x)'
      BY <2>1
    <3> QED BY <3>1 DEF Undoing, Before, After
  <2> QED BY <2>2, <2>3
<1>3. CASE Handed(j, y)
  <2>1. PICK k \in JobIds : /\ jobs[k] = NoJob /\ k # j
                            /\ jobs' = [jobs EXCEPT ![j] = NoJob, ![k] = y]
    BY <1>3 DEF Handed
  <2>2. /\ jobs'[k] = y /\ jobs'[j] = NoJob
        /\ \A i \in JobIds : i # j /\ i # k => jobs'[i] = jobs[i]
    BY <2>1 DEF TypeOK
  <2>3. OneRolling'
    BY <1>1, <2>2 DEF OneRolling, UndoBody
  <2>4. ASSUME NEW i \in JobIds PROVE Undoing(jobs[i])'
    <3>1. \E x : x = jobs'[i] /\ Undoing(x)'
      BY <1>1, <2>2
    <3> QED BY <3>1 DEF Undoing, Before, After
  <2> QED BY <2>3, <2>4
<1> QED BY <1>2, <1>3

(* UndoBody in a step aside: jobs outside the rollback move on, or the one   *)
(* inside does and knows what has been done.                                 *)
LEMMA UndoAside ==
  ASSUME TypeOK, UndoBody, Aside, UNCHANGED rollbacks, NEW j \in JobIds, NEW y,
         Moved(j, y) \/ Handed(j, y),
         y.kind \in Rolling => jobs[j].kind \in Rolling,
         Undoing(y)
  PROVE  UndoBody'
<1>1. \A k \in JobIds : \A x : k # j /\ x = jobs[k] => Undoing(x)'
  BY AsideUndoing DEF UndoBody
<1>2. Undoing(y)'
  BY AsideUndoing
<1>3. OneRolling' /\ \A k \in JobIds : Undoing(jobs[k])'
  BY <1>1, <1>2, UndoPasses
<1>4. NoRequest' => \A k \in JobIds : jobs'[k].kind \notin Rolling
  <2> SUFFICES ASSUME NoRequest' PROVE \A k \in JobIds : jobs'[k].kind \notin Rolling
    OBVIOUS
  <2>1. \A k \in JobIds : jobs[k].kind \notin Rolling
    BY DEF NoRequest, UndoBody
  <2>2. y.kind \notin Rolling /\ NoJob.kind \notin Rolling
    BY <2>1 DEF NoJob, Rolling
  <2> QED BY <2>1, <2>2 DEF Moved, Handed, TypeOK
<1>5. NoRequest' => /\ Undos' = {}
                    /\ status' \notin {"rolling_back", "rolled_back"}
  BY DEF NoRequest, UndoBody, Aside
<1>6. RolledBackIsUndone'
  BY DEF UndoBody, RolledBackIsUndone, Aside
<1> QED BY <1>3, <1>4, <1>5, <1>6 DEF UndoBody

(* A step aside that leaves the jobs alone.                                  *)
LEMMA UndoSame ==
  ASSUME TypeOK, UndoBody, Aside, UNCHANGED <<rollbacks, jobs>>
  PROVE  UndoBody'
<1>1. ASSUME NEW k \in JobIds PROVE Undoing(jobs[k])'
  <2>1. \E x : x = jobs'[k] /\ Undoing(x)'
    BY AsideUndoing DEF UndoBody
  <2> QED BY <2>1 DEF Undoing, Before, After
<1>2. RolledBackIsUndone'
  BY DEF UndoBody, RolledBackIsUndone, Aside
<1> QED BY <1>1, <1>2 DEF UndoBody, OneRolling, NoRequest, Aside

(* The jobs of the chain stay outside the rollback.                          *)
LEMMA ChainStaysOut ==
  ASSUME TypeOK, faults' = 0, NEW j \in JobIds, jobs[j] \in LiveJob,
         \/ PlanBegin(j) \/ PlanRows(j)
         \/ BuildArtifact(j) \/ LinkArtifact(j) \/ MarkReady(j) \/ DispatchFirst(j)
         \/ DispatchRead(j) \/ DispatchStart(j) \/ DispatchSend(j)
         \/ DispatchSent(j)
         \/ FinalizeRead(j, "finalize", "executing")
         \/ FinalizeStats(j, "finalize", StatsByShard(jobs[j].shard))
         \/ ShardClose(j) \/ ShardFail(j) \/ ShardNext(j)
  PROVE  \E y : (Moved(j, y) \/ Handed(j, y)) /\ y.kind \notin Rolling
<1> DEFINE Out == \E y : (Moved(j, y) \/ Handed(j, y)) /\ y.kind \notin Rolling
<1>1. jobs[j].kind \notin Rolling /\ jobs[j] # NoJob
  BY DEF PlanBegin, PlanRows, BuildArtifact, LinkArtifact, MarkReady,
     DispatchFirst, DispatchRead, DispatchStart, DispatchSend, DispatchSent,
     FinalizeRead, FinalizeStats, ShardClose, ShardFail, ShardNext, At, Rolling,
     NoJob
<1>2. NoJob.kind \notin Rolling
  BY DEF NoJob, Rolling
<1>3. ReturnError(j) => Out
  BY <1>1, <1>2, ErrorMoves
<1>4. Return(j) => Out
  BY <1>2, CleanReturn
<1>5. ASSUME NEW pc, Goto(j, pc) PROVE Out
  BY <1>1, <1>5, GotoMoves
<1>6. ASSUME NEW kind \in Chain, NEW shard, NEW poll, NEW rec,
             EnqueueAndReturn(j, Job(kind, shard, poll, rec))
      PROVE  Out
  <2>1. Job(kind, shard, poll, rec).kind \notin Rolling
    BY DEF Job, Rolling, Chain
  <2> QED BY <1>1, <1>6, <2>1, CleanEnqueue
<1>7. "build" \in Chain /\ "dispatch" \in Chain /\ "finalize" \in Chain
  BY DEF Chain
<1> HIDE DEF Out
<1>8. PlanBegin(j) \/ BuildArtifact(j) \/ LinkArtifact(j) \/ MarkReady(j) => Out
  BY <1>3, <1>5 DEF PlanBegin, BuildArtifact, LinkArtifact, MarkReady
<1>9. PlanRows(j) => Out
  <2>1. ASSUME NEW k \in JobIds, FreeSlot(k),
               jobs' = [jobs EXCEPT ![j] = NoJob, ![k] = Job("build", 0, 0, 0)]
        PROVE  Out
    <3>1. Job("build", 0, 0, 0).kind \notin Rolling
      BY DEF Job, Rolling
    <3>2. Handed(j, Job("build", 0, 0, 0))
      BY <1>1, <2>1 DEF Handed, FreeSlot
    <3> QED BY <3>1, <3>2 DEF Out
  <2> QED BY <1>3, <2>1, NoFault DEF PlanRows
<1>10. DispatchFirst(j) \/ DispatchSent(j) => Out
  BY <1>6, <1>7 DEF DispatchFirst, DispatchSent
<1>11. DispatchRead(j) \/ DispatchStart(j) \/ DispatchSend(j) => Out
  BY <1>3, <1>5 DEF DispatchRead, DispatchStart, DispatchSend
<1>12. FinalizeRead(j, "finalize", "executing") => Out
  BY <1>4, <1>5 DEF FinalizeRead
<1>13. ShardClose(j) \/ ShardFail(j) => Out
  BY <1>3, <1>4, <1>5 DEF ShardClose, ShardFail
<1>14. ShardNext(j) => Out
  BY <1>3, <1>4, <1>6, <1>7 DEF ShardNext
<1>15. ASSUME FinalizeStats(j, "finalize", StatsByShard(jobs[j].shard)) PROVE Out
  <2>1. PICK stats : stats = StatsByShard(jobs[j].shard)
    OBVIOUS
  <2>4. FinalizeStats(j, "finalize", stats)
    BY <1>15, <2>1
  <2>2. CASE jobs' = [jobs EXCEPT ![j].pc = "close", ![j].seen = stats]
    <3> DEFINE y == [jobs[j] EXCEPT !.pc = "close", !.seen = stats]
    <3>1. Moved(j, y) /\ y.kind \notin Rolling
      BY <1>1, <2>2 DEF Moved, TypeOK, LiveJob
    <3> HIDE DEF y
    <3> QED BY <3>1 DEF Out
  <2>3. CASE EnqueueAndReturn(j, Job("finalize", jobs[j].shard,
                                     jobs[j].poll + 1, jobs[j].rec))
    BY <1>6, <1>7, <2>3
  <2> QED BY <2>2, <2>3, <2>4 DEF FinalizeStats
<1> QED BY <1>8, <1>9, <1>10, <1>11, <1>12, <1>13, <1>14, <1>15 DEF Out

(* So whatever they do is aside of it.                                       *)
LEMMA UndoChainSteps ==
  ASSUME TypeOK, UndoBody, faults' = 0, NEW j \in JobIds, jobs[j] \in LiveJob,
         \/ PlanBegin(j) \/ PlanRows(j)
         \/ BuildArtifact(j) \/ LinkArtifact(j) \/ MarkReady(j) \/ DispatchFirst(j)
         \/ DispatchRead(j) \/ DispatchStart(j) \/ DispatchSend(j)
         \/ DispatchSent(j)
         \/ FinalizeRead(j, "finalize", "executing")
         \/ FinalizeStats(j, "finalize", StatsByShard(jobs[j].shard))
         \/ ShardClose(j) \/ ShardFail(j) \/ ShardNext(j)
  PROVE  UndoBody'
<1>1. PICK y : (Moved(j, y) \/ Handed(j, y)) /\ y.kind \notin Rolling
  BY ChainStaysOut
<1>2. UNCHANGED rollbacks
  BY DEF PlanBegin, PlanRows, BuildArtifact, LinkArtifact, MarkReady,
     DispatchFirst, DispatchRead, DispatchStart, DispatchSend, DispatchSent,
     FinalizeRead, FinalizeStats, ShardClose, ShardFail, ShardNext
<1>3. status' \in {"rolling_back", "rolled_back"} => status' = status
  BY DEF PlanBegin, PlanRows, BuildArtifact, LinkArtifact, MarkReady,
     DispatchFirst, DispatchRead, DispatchStart, DispatchSend, DispatchSent,
     FinalizeRead, FinalizeStats, ShardClose, ShardFail, ShardNext,
     TransitionRelease, TryMove
<1>4. Undos' = Undos /\ \A t \in Undos : tasks'[t] = tasks[t]
  <2>1. CASE DispatchSend(j)
    BY <2>1, SendInserts DEF Undos, Existing
  <2>2. CASE ~DispatchSend(j)
    <3>1. UNCHANGED tasks
      BY <2>2 DEF PlanBegin, PlanRows, BuildArtifact, LinkArtifact, MarkReady,
         DispatchFirst, DispatchRead, DispatchStart, DispatchSent,
         FinalizeRead, FinalizeStats, ShardClose, ShardFail, ShardNext
    <3> QED BY <3>1 DEF Undos, Existing
  <2> QED BY <2>1, <2>2
<1>5. Aside
  BY <1>3, <1>4 DEF Aside
<1> QED BY <1>1, <1>2, <1>5, OthersUndoing, UndoAside

(* A request that has been recorded stays recorded.                          *)
LEMMA RequestsStay ==
  ASSUME TypeOK, [Next]_vars
  PROVE  (OneRequest' => OneRequest) /\ (NoRequest' => NoRequest)
<1>1. ASSUME NEW r \in 1 .. MaxRollbacks, rollbacks[r] # "absent"
      PROVE  rollbacks'[r] # "absent"
  <2>1. ASSUME NEW rec, NEW outcome \in {"succeeded", "failed"},
               Complete(rec, outcome)
        PROVE  rollbacks'[r] # "absent"
    BY <1>1, <2>1 DEF Complete, TypeOK
  <2>2. CASE RequestRollback
    BY <1>1, <2>2 DEF RequestRollback, TypeOK
  <2>3. ASSUME NEW j \in JobIds, ExecuteRollback(j) PROVE rollbacks'[r] # "absent"
    BY <1>1, <2>1, <2>3 DEF ExecuteRollback
  <2>4. ASSUME NEW j \in JobIds, RollbackMark(j) PROVE rollbacks'[r] # "absent"
    BY <2>1, <2>4 DEF RollbackMark
  <2>5. ASSUME NEW j \in JobIds, JobStep(j), ~ExecuteRollback(j), ~RollbackMark(j)
        PROVE  UNCHANGED rollbacks
    BY <2>5 DEF JobStep, PlanBegin, PlanRows, BuildArtifact, LinkArtifact,
       MarkReady, DispatchFirst, DispatchRead, DispatchStart, DispatchSend,
       DispatchSent, FinalizeRead, FinalizeStats, ShardClose, ShardFail,
       ShardNext, BeginRollback, RollbackSent, RollbackClose, RollbackSettle
  <2>6. CASE \/ Create \/ LoseQueue \/ \E j \in JobIds : Crash(j)
             \/ Pause \/ Resume \/ Cancel \/ Agent \/ UNCHANGED vars
    <3>1. UNCHANGED rollbacks
      BY <2>6 DEF Create, LoseQueue, Crash, Pause, Resume, Cancel, Request,
                  Agent, ClaimTask, ReportTask, vars
    <3> QED BY <1>1, <3>1
  <2> QED BY <1>1, <2>2, <2>3, <2>4, <2>5, <2>6 DEF Next, Operator
<1> QED BY <1>1 DEF OneRequest, NoRequest

(* UndoBody when the one job of the rollback takes its next step.            *)
LEMMA UndoRolls ==
  ASSUME TypeOK, UndoBody, [Next]_vars, NEW j \in JobIds,
         jobs[j].kind \in Rolling, NEW y, Moved(j, y) \/ Handed(j, y),
         Undoing(y)', RolledBackIsUndone'
  PROVE  UndoBody'
<1>1. ASSUME NEW k \in JobIds, NEW x, k # j, x = jobs[k] PROVE Undoing(x)'
  <2>1. x.kind \notin Rolling
    BY <1>1 DEF UndoBody, OneRolling
  <2> QED BY <2>1, OthersUndoing
<1>2. OneRolling' /\ \A k \in JobIds : Undoing(jobs[k])'
  BY <1>1, UndoPasses
<1>3. ~NoRequest'
  BY RequestsStay DEF UndoBody
<1> QED BY <1>2, <1>3 DEF UndoBody

(* The steps of a rollback that leave the tasks and the release's row alone. *)
LEMMA UndoKeeps ==
  ASSUME TypeOK, UndoBody, [Next]_vars, NEW j \in JobIds,
         jobs[j].kind \in Rolling, UNCHANGED <<tasks, status>>, NEW y,
         Moved(j, y) \/ Handed(j, y), Undoing(y)
  PROVE  UndoBody'
<1>1. Undos' = Undos
  BY DEF Undos, Existing
<1>2. Undoing(y)'
  BY <1>1 DEF Undoing, Before, After
<1>3. RolledBackIsUndone'
  BY <1>1 DEF UndoBody, RolledBackIsUndone
<1> QED BY <1>2, <1>3, UndoRolls

(* A request takes the release to rolling_back and becomes the rollback job, *)
(* or finds that the release has moved on.                                   *)
LEMMA UndoBegin ==
  ASSUME TypeOK, UndoBody, [Next]_vars, faults' = 0, NEW j \in JobIds,
         BeginRollback(j)
  PROVE  UndoBody'
<1>1. jobs[j].kind = "request" /\ jobs[j].kind \in Rolling /\ jobs[j] \in LiveJob
  BY DEF BeginRollback, Rolling, TypeOK, NoJob
<1>2. UNCHANGED tasks /\ Undos' = Undos /\ Undos = {}
  BY <1>1 DEF BeginRollback, Undos, Existing, UndoBody, Undoing, Before
<1>3. CASE CanMove(jobs[j].pc, "rolling_back")
  <2>1. PICK y : y = Job("rollback", 0, 0, jobs[j].rec)
    OBVIOUS
  <2>2. Moved(j, y) /\ status' = "rolling_back"
    BY <1>3, <2>1, NoFault DEF BeginRollback, TransitionRelease, Moved
  <2>3. y.kind = "rollback" /\ y.pc = "queued"
    BY <2>1 DEF Job
  <2>4. Undoing(y)' /\ RolledBackIsUndone'
    BY <1>2, <2>2, <2>3 DEF Undoing, Before, After, RolledBackIsUndone
  <2> QED BY <1>1, <2>2, <2>4, UndoRolls
<1>4. CASE ~CanMove(jobs[j].pc, "rolling_back")
  <2>1. ReturnError(j) /\ UNCHANGED status
    BY <1>4 DEF BeginRollback
  <2>2. Moved(j, NoJob)
    BY <1>1, <2>1, ErrorMoves DEF MaxRetry
  <2>3. Undoing(NoJob)
    BY OthersUndoing DEF NoJob, Rolling
  <2> QED BY <1>1, <1>2, <2>1, <2>2, <2>3, UndoKeeps
<1> QED BY <1>3, <1>4

(* Every agent that is to undo the release has a rollback task of it.        *)
LEMMA RollbackReaches ==
  ASSUME TypeOK, Planned # {}, NEW targets \in SUBSET Agents, targets # {},
         LET new == {t \in Insertable :
                        /\ t.op = "rollback"
                        /\ t.domain = Representative
                        /\ t.agent \in targets}
         IN  tasks' = [t \in TaskIds |->
                          IF t \in new THEN "pending" ELSE tasks[t]]
  PROVE  Undos' # {}
<1>1. PICK a \in targets : TRUE
  OBVIOUS
<1>2. PICK t \in TaskIds :
          t.op = "rollback" /\ t.domain = Representative /\ t.agent = a
  <2> DEFINE t == [op |-> "rollback", domain |-> Representative, agent |-> a]
  <2>1. t \in TaskIds
    BY <1>1, RepresentativeExists DEF TaskIds
  <2> QED BY <2>1
<1>3. tasks'[t] # "absent"
  BY <1>1, <1>2 DEF Insertable, Existing
<1> QED BY <1>2, <1>3 DEF Undos, Existing

(* ExecuteRollback inserts a task at least, or leaves the release without    *)
(* any.                                                                      *)
LEMMA UndoExecute ==
  ASSUME TypeOK, UndoBody, [Next]_vars, faults' = 0, NEW j \in JobIds,
         ExecuteRollback(j)
  PROVE  UndoBody'
<1>1. /\ jobs[j].kind = "rollback" /\ jobs[j].kind \in Rolling
      /\ jobs[j].pc = "queued" /\ jobs[j] \in LiveJob
  BY AtIsLive DEF ExecuteRollback, Rolling, At, TypeOK, NoJob
<1>2. Undos = {} /\ status # "rolled_back"
  BY <1>1 DEF UndoBody, Undoing, Before
<1>3. ASSUME ReturnError(j), UNCHANGED tasks, status' # "rolled_back"
      PROVE  UndoBody'
  <2>1. Undos' = {}
    BY <1>2, <1>3 DEF Undos, Existing
  <2>2. PICK y : /\ Moved(j, y)
                 /\ y = NoJob \/ (y.kind = "rollback" /\ y.pc = "queued")
    BY <1>1, <1>3, ErrorMoves
  <2>3. Undoing(y)' /\ RolledBackIsUndone'
    BY <1>3, <2>1, <2>2 DEF Undoing, Before, After, NoJob, RolledBackIsUndone
  <2> QED BY <1>1, <2>2, <2>3, UndoRolls
<1>4. CASE status # "rolling_back"
  <2>1. Return(j) /\ UNCHANGED <<tasks, status>>
    BY <1>4 DEF ExecuteRollback
  <2>2. Moved(j, NoJob)
    BY <2>1, CleanReturn
  <2>3. Undoing(NoJob)
    BY OthersUndoing DEF NoJob, Rolling
  <2> QED BY <1>1, <2>1, <2>2, <2>3, UndoKeeps
<1>5. CASE status = "rolling_back"
  <2>1. PICK online \in SUBSET Agents :
              LET involved == {t.agent : t \in Existing}
                  targets  == IF involved # {} THEN involved ELSE online
                  new      == {t \in Insertable :
                                  /\ t.op = "rollback"
                                  /\ t.domain = Representative
                                  /\ t.agent \in targets}
              IN
              \/ /\ targets = {}
                 /\ TransitionRelease("rolling_back", "failed")
                 /\ Complete(jobs[j].rec, "failed")
                 /\ ReturnError(j)
                 /\ UNCHANGED tasks
              \/ /\ targets # {} /\ Planned = {}
                 /\ ReturnError(j)
                 /\ UNCHANGED <<status, tasks, rollbacks>>
              \/ /\ targets # {} /\ Planned # {}
                 /\ tasks' = [t \in TaskIds |->
                                 IF t \in new THEN "pending" ELSE tasks[t]]
                 /\ Goto(j, "sent")
                 /\ UNCHANGED <<status, rollbacks>>
    BY <1>5 DEF ExecuteRollback
  <2> DEFINE involved == {t.agent : t \in Existing}
             targets  == IF involved # {} THEN involved ELSE online
             new      == {t \in Insertable :
                             /\ t.op = "rollback"
                             /\ t.domain = Representative
                             /\ t.agent \in targets}
  <2>2. targets \in SUBSET Agents
    BY DEF Existing, TaskIds
  <2> HIDE DEF targets
  <2>3. \/ ReturnError(j) /\ UNCHANGED tasks /\ status' # "rolled_back"
        \/ /\ targets # {} /\ Planned # {}
           /\ tasks' = [t \in TaskIds |->
                           IF t \in new THEN "pending" ELSE tasks[t]]
           /\ Goto(j, "sent")
           /\ UNCHANGED status
    BY <1>5, <2>1 DEF TransitionRelease, targets
  <2>4. CASE /\ targets # {} /\ Planned # {}
             /\ tasks' = [t \in TaskIds |->
                             IF t \in new THEN "pending" ELSE tasks[t]]
             /\ Goto(j, "sent")
             /\ UNCHANGED status
    <3>1. Undos' # {}
      BY <2>2, <2>4, RollbackReaches
    <3>2. PICK y : Moved(j, y) /\ y.kind = "rollback" /\ y.pc = "sent"
      BY <1>1, <2>4, GotoMoves
    <3>3. Undoing(y)' /\ RolledBackIsUndone'
      BY <1>5, <2>4, <3>1, <3>2 DEF Undoing, Before, After, RolledBackIsUndone
    <3> QED BY <1>1, <3>2, <3>3, UndoRolls
  <2> QED BY <1>3, <2>3, <2>4
<1> QED BY <1>4, <1>5

(* Waiting for the rollback tasks: the statistics that end the wait are      *)
(* those of tasks that have all succeeded, or they have failed.              *)
LEMMA UndoWaits ==
  ASSUME TypeOK, UndoBody, [Next]_vars, faults' = 0, NEW j \in JobIds,
         \/ RollbackSent(j)
         \/ FinalizeRead(j, "undo", "rolling_back")
         \/ FinalizeStats(j, "undo", StatsByRelease)
         \/ RollbackClose(j)
  PROVE  UndoBody'
<1>1. /\ jobs[j].kind \in {"rollback", "undo"} /\ jobs[j].kind \in Rolling
      /\ jobs[j] \in LiveJob /\ jobs[j] # NoJob
      /\ UNCHANGED <<tasks, status>>
  <2>1. jobs[j].kind \in {"rollback", "undo"}
    BY DEF RollbackSent, FinalizeRead, FinalizeStats, RollbackClose, At
  <2>2. UNCHANGED <<tasks, status>>
    BY DEF RollbackSent, FinalizeRead, FinalizeStats, RollbackClose
  <2> QED BY <2>1, <2>2 DEF Rolling, TypeOK, NoJob
<1>2. Undos # {} /\ status # "rolled_back"
  BY DEF RollbackSent, FinalizeRead, FinalizeStats, RollbackClose, At,
         UndoBody, Undoing, After
<1>3. ASSUME NEW y, Moved(j, y) \/ Handed(j, y), y.kind = "undo",
             (y.pc \in {"close", "settle"} /\ ~HasFailed(y.seen))
                => \A t \in Undos : tasks[t] = "succeeded"
      PROVE  UndoBody'
  <2>1. Undoing(y)
    BY <1>2, <1>3 DEF Undoing, Before, After
  <2> QED BY <1>1, <1>3, <2>1, UndoKeeps
<1>4. ASSUME NEW poll, EnqueueAndReturn(j, Job("undo", 0, poll, jobs[j].rec))
      PROVE  UndoBody'
  <2>1. PICK y : y = Job("undo", 0, poll, jobs[j].rec)
    OBVIOUS
  <2>2. Handed(j, y)
    BY <1>1, <1>4, <2>1, CleanEnqueue
  <2>3. y.kind = "undo" /\ y.pc = "queued"
    BY <2>1 DEF Job
  <2> QED BY <1>3, <2>2, <2>3
<1>5. CASE RollbackSent(j)
  BY <1>4, <1>5 DEF RollbackSent
<1>6. CASE FinalizeRead(j, "undo", "rolling_back")
  <2>1. jobs[j].kind = "undo"
    BY <1>6 DEF FinalizeRead, At
  <2>2. CASE Goto(j, "stats")
    BY <1>1, <1>3, <2>1, <2>2, GotoMoves
  <2>3. CASE Return(j)
    <3>1. Moved(j, NoJob) /\ Undoing(NoJob)
      BY <2>3, CleanReturn, OthersUndoing DEF NoJob, Rolling
    <3> QED BY <1>1, <3>1, UndoKeeps
  <2> QED BY <1>6, <2>2, <2>3 DEF FinalizeRead
<1>7. CASE FinalizeStats(j, "undo", StatsByRelease)
  <2>1. PICK stats : stats = StatsByRelease
    OBVIOUS
  <2>2. CASE jobs' = [jobs EXCEPT ![j].pc = "close", ![j].seen = stats]
    <3>1. PICK y : y = [jobs[j] EXCEPT !.pc = "close", !.seen = stats]
      OBVIOUS
    <3>2. Moved(j, y) /\ y.kind = "undo" /\ y.seen = stats
      BY <1>1, <1>7, <2>2, <3>1 DEF Moved, FinalizeStats, At, TypeOK, LiveJob
    <3>3. ~HasFailed(stats) => \A t \in Undos : tasks[t] = "succeeded"
      BY <2>1, CleanStats DEF StatsByRelease, Undos
    <3> QED BY <1>3, <3>2, <3>3
  <2>3. CASE EnqueueAndReturn(j, Job("undo", jobs[j].shard, jobs[j].poll + 1,
                                     jobs[j].rec))
    <3>1. PICK y : y = Job("undo", jobs[j].shard, jobs[j].poll + 1, jobs[j].rec)
      OBVIOUS
    <3>2. Handed(j, y)
      BY <1>1, <2>3, <3>1, CleanEnqueue
    <3>3. y.kind = "undo" /\ y.pc = "queued"
      BY <3>1 DEF Job
    <3> QED BY <1>3, <3>2, <3>3
  <2> QED BY <1>7, <2>1, <2>2, <2>3 DEF FinalizeStats
<1>8. CASE RollbackClose(j)
  <2>1. jobs[j].kind = "undo" /\ jobs[j].pc = "close" /\ Goto(j, "settle")
    BY <1>8 DEF RollbackClose, At
  <2>2. ~HasFailed(jobs[j].seen) => \A t \in Undos : tasks[t] = "succeeded"
    BY <2>1 DEF UndoBody, Undoing
  <2>3. PICK y : /\ Moved(j, y) /\ y.kind = "undo"
                 /\ y.seen = jobs[j].seen /\ y.pc = "settle"
    BY <1>1, <2>1, GotoMoves
  <2> QED BY <1>3, <2>2, <2>3
<1> QED BY <1>5, <1>6, <1>7, <1>8

(* The verdict: rolled_back is written for statistics without a failure.     *)
LEMMA UndoSettles ==
  ASSUME TypeOK, UndoBody, [Next]_vars, faults' = 0, NEW j \in JobIds,
         RollbackSettle(j) \/ RollbackMark(j)
  PROVE  UndoBody'
<1>1. /\ jobs[j].kind = "undo" /\ jobs[j].kind \in Rolling
      /\ jobs[j] \in LiveJob /\ UNCHANGED tasks
  BY AtIsLive DEF RollbackSettle, RollbackMark, Rolling, At, TypeOK, NoJob
<1>2. Undoing(NoJob)
  BY OthersUndoing DEF NoJob, Rolling
<1>3. CASE RollbackMark(j)
  <2>1. Moved(j, NoJob) /\ UNCHANGED <<tasks, status>>
    BY <1>3, CleanReturn DEF RollbackMark
  <2> QED BY <1>1, <1>2, <2>1, UndoKeeps
<1>4. CASE RollbackSettle(j) /\ ~CanMove("rolling_back", RollbackTo(jobs[j].seen))
  <2>1. ReturnError(j) /\ UNCHANGED <<tasks, status>>
    BY <1>4 DEF RollbackSettle
  <2>2. Moved(j, NoJob)
    BY <1>1, <2>1, ErrorMoves DEF MaxRetry
  <2> QED BY <1>1, <1>2, <2>1, <2>2, UndoKeeps
<1>5. CASE RollbackSettle(j) /\ CanMove("rolling_back", RollbackTo(jobs[j].seen))
  <2>1. Goto(j, "mark") /\ status' = RollbackTo(jobs[j].seen)
    BY <1>5 DEF RollbackSettle, TransitionRelease
  <2>2. /\ Undos # {}
        /\ ~HasFailed(jobs[j].seen) => \A t \in Undos : tasks[t] = "succeeded"
    BY <1>5 DEF RollbackSettle, At, UndoBody, Undoing, After
  <2>3. Undos' = Undos
    BY <1>1 DEF Undos, Existing
  <2>4. PICK y : Moved(j, y) /\ y.kind = "undo" /\ y.pc = "mark"
    BY <1>1, <2>1, GotoMoves
  <2>5. Undoing(y)'
    BY <2>2, <2>3, <2>4 DEF Undoing, Before, After
  <2>6. RolledBackIsUndone'
    BY <1>1, <2>1, <2>2, <2>3 DEF RolledBackIsUndone, RollbackTo
  <2> QED BY <1>1, <2>4, <2>5, <2>6, UndoRolls
<1> QED BY <1>3, <1>4, <1>5

(* The first request: until it is recorded nothing has been rolled back.     *)
LEMMA UndoRequest ==
  ASSUME TypeOK, UndoBody, faults' = 0, OneRequest', RequestRollback
  PROVE  UndoBody'
<1>1. PICK k \in JobIds, r \in 0 .. MaxRollbacks :
        /\ FreeSlot(k)
        /\ jobs' = [jobs EXCEPT ![k] =
                        [Job("request", 0, 0, r) EXCEPT !.pc = status]]
        /\ r # 0
        /\ rollbacks[r] = "absent"
        /\ rollbacks' = [rollbacks EXCEPT ![r] = "open"]
  BY NoFault DEF RequestRollback
<1>2. r \in 1 .. MaxRollbacks /\ rollbacks'[r] = "open"
  BY <1>1 DEF TypeOK
<1>3. NoRequest
  BY <1>1, <1>2 DEF OneRequest, NoRequest, TypeOK
<1>4. /\ \A j \in JobIds : jobs[j].kind \notin Rolling
      /\ Undos = {} /\ status \notin {"rolling_back", "rolled_back"}
  BY <1>3 DEF UndoBody
<1>5. UNCHANGED <<status, tasks>> /\ Undos' = {}
  BY <1>4 DEF RequestRollback, Undos, Existing
<1>6. PICK y : y = [Job("request", 0, 0, r) EXCEPT !.pc = status]
  OBVIOUS
<1>7. y.kind = "request"
  BY <1>6 DEF Job
<1>8. jobs'[k] = y /\ \A j \in JobIds : j # k => jobs'[j] = jobs[j]
  BY <1>1, <1>6 DEF TypeOK
<1>9. OneRolling'
  BY <1>4, <1>8 DEF OneRolling
<1>10. Undoing(y)'
  BY <1>4, <1>5, <1>7 DEF Undoing, Before, After
<1>11. ASSUME NEW j \in JobIds PROVE Undoing(jobs[j])'
  <2>1. \E x : x = jobs'[j] /\ Undoing(x)'
    BY <1>4, <1>8, <1>10, OthersUndoing
  <2> QED BY <2>1 DEF Undoing, Before, After
<1>12. ~NoRequest'
  BY <1>2 DEF NoRequest
<1> QED BY <1>4, <1>5, <1>9, <1>11, <1>12 DEF UndoBody, RolledBackIsUndone

(* Everything that is no step of a job.                                      *)
LEMMA UndoOthers ==
  ASSUME TypeOK, UndoBody, faults' = 0, OneRequest',
         Create \/ Operator \/ Agent \/ UNCHANGED vars
  PROVE  UndoBody'
<1>1. CASE Create
  <2>1. PICK k \in JobIds : /\ FreeSlot(k)
                            /\ jobs' = [jobs EXCEPT ![k] = Job("plan", 0, 0, 0)]
    BY <1>1, NoFault DEF Create
  <2>2. PICK y : y = Job("plan", 0, 0, 0)
    OBVIOUS
  <2>3. Moved(k, y) /\ y.kind \notin Rolling
    BY <2>1, <2>2 DEF Moved, Job, Rolling
  <2>4. Aside /\ UNCHANGED rollbacks
    BY <1>1 DEF Create, Aside, Undos, Existing
  <2> QED BY <2>3, <2>4, OthersUndoing, UndoAside
<1>2. CASE Pause \/ Resume \/ Cancel \/ UNCHANGED vars
  <2>1. UNCHANGED <<tasks, rollbacks, jobs>>
    BY <1>2 DEF Pause, Resume, Cancel, Request, vars
  <2>2. status' \in {"rolling_back", "rolled_back"} => status' = status
    BY <1>2 DEF Pause, Resume, Cancel, Request, TransitionRelease, vars
  <2>3. Aside
    BY <2>1, <2>2 DEF Aside, Undos, Existing
  <2> QED BY <2>1, <2>3, UndoSame
<1>3. CASE RequestRollback
  BY <1>3, UndoRequest
<1>4. CASE Agent
  <2>1. PICK t \in TaskIds, o \in TaskStates \ {"absent"} :
           /\ tasks[t] \in {"pending", "claimed"}
           /\ tasks' = [tasks EXCEPT ![t] = o]
    BY <1>4 DEF Agent, ClaimTask, ReportTask, TaskStates
  <2>2. UNCHANGED <<rollbacks, jobs, status>>
    BY <1>4 DEF Agent, ClaimTask, ReportTask
  <2>3. Aside
    BY <2>1, <2>2 DEF Aside, Undos, Existing, TypeOK
  <2> QED BY <2>2, <2>3, UndoSame
<1> QED BY <1>1, <1>2, <1>3, <1>4 DEF Operator

(* UndoInv is inductive.                                                     *)
LEMMA UndoStep == TypeOK /\ UndoInv /\ [Next]_vars => UndoInv'
<1> SUFFICES ASSUME TypeOK, UndoInv, [Next]_vars, faults' = 0, OneRequest'
             PROVE  UndoBody'
  BY DEF UndoInv
<1>1. UndoBody
  BY FaultsStay, RequestsStay DEF UndoInv
<1>2. CASE LoseQueue \/ \E j \in JobIds : Crash(j)
  BY <1>2, NoFault DEF LoseQueue, Crash
<1>3. ASSUME NEW j \in JobIds, JobStep(j) PROVE UndoBody'
  BY <1>1, <1>3, StepIsLive, UndoChainSteps, UndoBegin, UndoExecute, UndoWaits,
     UndoSettles
  DEF JobStep
<1>4. CASE Create \/ Operator \/ Agent \/ UNCHANGED vars
  BY <1>1, <1>4, UndoOthers
<1> QED BY <1>2, <1>3, <1>4 DEF Next

(* Until the first fault, and as long as one rollback has been requested at  *)
(* most, a rolled back release has rollback tasks and every one of them has  *)
(* succeeded (ExecuteRollback, Finalize with IsRollback).                    *)
THEOREM FirstRollbackUndoes ==
  Spec => [](faults = 0 /\ OneRequest => RolledBackIsUndone)
<1>1. Init => UndoInv
  BY DEF Init, UndoInv, UndoBody, OneRolling, Undoing, Before, After, Rolling,
         Undos, Existing, NoJob, RolledBackIsUndone
<1>2. UndoInv => (faults = 0 /\ OneRequest => RolledBackIsUndone)
  BY DEF UndoInv, UndoBody
<1> QED BY <1>1, <1>2, UndoStep, TypeCorrect, PTL DEF Spec

=============================================================================
