---------------------------- MODULE AgentProofs -----------------------------
(***************************************************************************)
(* Theorems about agents.  About AgentFleet, their rows, their tasks and   *)
(* their processes: for every number of hosts, agents and tasks, every     *)
(* limit and every number of lost calls and dead processes.  About         *)
(* HostDeploy, what one of them does on its host: for every set of         *)
(* releases, manifests, keys and refused configurations, and for any       *)
(* number of tasks.                                                        *)
(***************************************************************************)
EXTENDS AgentFleet, HostDeploy, FiniteSetTheorems, TLAPS

-----------------------------------------------------------------------------
(* The fleet.                                                               *)

Procs == [pc : {"down", "idle", "polled", "working", "done"},
          agent : AgentIds \cup {0}, task : Tasks \cup {0},
          outcome : {"none", "succeeded", "failed"}]

(* A process that executes a task, or has done so and is about to report.    *)
Busy(h) == proc[h].pc \in {"working", "done"}

(* What makes RunsMatchRows inductive: the task of a busy process is claimed *)
(* and was executed once, no other process is busy with it, and a process    *)
(* that has finished has an outcome to report.                               *)
FleetInv ==
    /\ RunsMatchRows
    /\ \A h \in Hosts :
          /\ proc[h].pc \in {"polled", "working", "done"} => proc[h].task \in Tasks
          /\ Busy(h) => row[proc[h].task] = "claimed" /\ runs[proc[h].task] = 1
          /\ proc[h].pc = "done" => proc[h].outcome \in {"succeeded", "failed"}
    /\ \A g, h \in Hosts :
          g # h /\ Busy(g) /\ Busy(h) => proc[g].task # proc[h].task

Inv == TypeOK /\ FleetInv

(* The steps that touch no task and no process.                              *)
AgentRowStep ==
    \/ \E a \in AgentIds : Age(a) \/ \E to \in Targets : OperatorTransition(a, to)
    \/ Checker

(* The invariant holds before any agent has registered.                    *)
LEMMA InitInv == Init => Inv
BY DEF Init, Inv, TypeOK, FleetInv, RunsMatchRows, Busy, Down

(* An idle process, of whichever agent, is busy with nothing.                *)
LEMMA StartType ==
  ASSUME NEW a \in AgentIds \cup {0}
  PROVE  Start(a) \in Procs /\ Start(a).pc = "idle" /\ Down \in Procs
BY DEF Start, Procs, Down

(* When one process goes idle or down and the rest stays, what FleetInv says *)
(* of the other processes still holds.                                       *)
LEMMA GoesQuiet ==
  ASSUME Inv, NEW h \in Hosts, NEW p \in Procs, p.pc \in {"idle", "down"},
         proc' = [proc EXCEPT ![h] = p], UNCHANGED rows, UNCHANGED runs
  PROVE  FleetInv' /\ proc' \in [Hosts -> Procs]
<1>1. proc' \in [Hosts -> Procs]
  BY DEF Inv, TypeOK, Procs
<1>2. \A g \in Hosts \ {h} : proc'[g] = proc[g]
  BY DEF Inv, TypeOK
<1>3. proc'[h] = p
  BY DEF Inv, TypeOK
<1> QED BY <1>1, <1>2, <1>3 DEF Inv, FleetInv, RunsMatchRows, Busy, rows

(* Register, whether it answers or not, keeps the invariant.               *)
LEMMA RegisterInv ==
  ASSUME Inv, NEW h \in Hosts, Register(h) PROVE Inv'
<1>1. PICK a \in AgentIds :
         /\ agentStatus' \in {[agentStatus EXCEPT ![a] = "online"],
                              [agentStatus EXCEPT ![a] = "registered"]}
         /\ fresh' = [fresh EXCEPT ![a] = TRUE]
         /\ proc' = [proc EXCEPT ![h] = Start(a)] \/ proc' = proc
  BY DEF Register
<1>2. FleetInv' /\ proc' \in [Hosts -> Procs]
  <2>1. CASE proc' = [proc EXCEPT ![h] = Start(a)]
    BY <2>1, StartType, GoesQuiet DEF Register
  <2>2. CASE proc' = proc
    BY <2>2 DEF Register, Inv, TypeOK, Procs, FleetInv, RunsMatchRows, Busy, rows
  <2> QED BY <1>1, <2>1, <2>2
<1>3. faults' \in Nat
  BY DEF Register, Inv, TypeOK, Fault
<1> QED BY <1>1, <1>2, <1>3 DEF Register, Inv, TypeOK, Procs, AgentStates, rows

(* A heartbeat keeps the invariant.                                        *)
LEMMA HeartbeatInv ==
  ASSUME Inv, NEW h \in Hosts, Heartbeat(h) PROVE Inv'
<1>1. agentStatus' \in [AgentIds -> AgentStates \cup {"none"}]
  BY DEF Heartbeat, Inv, TypeOK, AgentStates
<1>2. fresh' \in [AgentIds -> BOOLEAN]
  BY DEF Heartbeat, Inv, TypeOK
<1>3. FleetInv'
  BY DEF Heartbeat, Inv, FleetInv, RunsMatchRows, Busy, rows
<1> QED BY <1>1, <1>2, <1>3 DEF Heartbeat, Inv, TypeOK, rows

(* Steps on the agents table alone keep the invariant.                     *)
LEMMA AgentRowInv ==
  ASSUME Inv, AgentRowStep PROVE Inv'
<1>1. UNCHANGED <<rows, proc, runs>>
  BY DEF AgentRowStep, Age, OperatorTransition, Checker, ListStale, MarkOffline
<1>2. FleetInv'
  BY <1>1 DEF Inv, FleetInv, RunsMatchRows, Busy, rows
<1>3. CASE \E a \in AgentIds : Age(a)
  BY <1>2, <1>3 DEF Age, Inv, TypeOK, Fault, rows
<1>4. CASE \E a \in AgentIds, to \in Targets : OperatorTransition(a, to)
  <2>1. PICK a \in AgentIds, to \in Targets : OperatorTransition(a, to)
    BY <1>4
  <2>2. to \in AgentStates
    BY <2>1 DEF OperatorTransition, CanMove, CanAgentTransition,
                validAgentTransitions, AgentStates
  <2> QED BY <1>2, <2>1, <2>2 DEF OperatorTransition, Inv, TypeOK, rows
<1>5. CASE ListStale
  BY <1>2, <1>5 DEF ListStale, StaleOnline, Inv, TypeOK, rows
<1>6. CASE \E x \in stale : MarkOffline(x)
  BY <1>2, <1>6 DEF MarkOffline, Inv, TypeOK, AgentStates, rows
<1> QED BY <1>3, <1>4, <1>5, <1>6 DEF AgentRowStep, Checker

(* Inserting a pending task keeps the invariant: nobody runs it.           *)
LEMMA DispatchInv ==
  ASSUME Inv, NEW t \in Tasks, NEW a \in AgentIds, Dispatch(t, a) PROVE Inv'
<1>1. row' \in [Tasks -> {"absent", "pending", "claimed", "succeeded", "failed"}]
  BY DEF Dispatch, Inv, TypeOK
<1>2. FleetInv'
  BY DEF Dispatch, Inv, TypeOK, FleetInv, RunsMatchRows, Busy
<1> QED BY <1>1, <1>2 DEF Dispatch, Inv, TypeOK, agents

(* A poll hands a process one of the pending tasks of its own agent.       *)
LEMMA PollInv ==
  ASSUME Inv, NEW h \in Hosts, Poll(h) PROVE Inv'
<1>1. PICK t \in Tasks : proc' = [proc EXCEPT ![h].pc = "polled", ![h].task = t]
  BY DEF Poll, NextPendingTask
<1>2. proc'[h] = [proc[h] EXCEPT !.pc = "polled", !.task = t]
  BY <1>1 DEF Inv, TypeOK
<1>3. proc'[h] \in Procs /\ proc'[h].pc = "polled" /\ proc'[h].task = t
  BY <1>2 DEF Inv, TypeOK, Procs
<1>4. \A g \in Hosts \ {h} : proc'[g] = proc[g]
  BY <1>1 DEF Inv, TypeOK
<1>5. proc' \in [Hosts -> Procs]
  BY <1>1, <1>3, <1>4 DEF Inv, TypeOK, Procs
<1>6. FleetInv'
  <2>1. UNCHANGED <<row, runs>>
    BY DEF Poll, rows
  <2>2. RunsMatchRows'
    BY <2>1 DEF Inv, FleetInv, RunsMatchRows
  <2>3. \A g \in Hosts : proc'[g].pc \in {"working", "done"}
                            => g # h /\ Busy(g) /\ proc'[g] = proc[g]
    BY <1>3, <1>4 DEF Busy
  <2> QED BY <1>3, <1>4, <2>1, <2>2, <2>3 DEF Inv, FleetInv, Busy
<1> QED BY <1>5, <1>6 DEF Poll, Inv, TypeOK, Procs, agents, rows

(* The claim that is confirmed: the only step that begins to execute.        *)
LEMMA ExecuteInv ==
  ASSUME Inv, NEW h \in Hosts, proc[h].pc = "polled",
         row[proc[h].task] = "pending", Execute(h),
         row' = [row EXCEPT ![proc[h].task] = "claimed"],
         UNCHANGED <<agents, owner, faults>>
  PROVE  Inv'
<1> DEFINE t == proc[h].task
<1>1. t \in Tasks /\ runs[t] = 0 /\ row[t] = "pending"
  BY DEF Inv, FleetInv, RunsMatchRows
<1>2. runs' = [runs EXCEPT ![t] = 1]
  BY <1>1 DEF Execute, Inv, TypeOK
<1>3. proc'[h] = [proc[h] EXCEPT !.pc = "working"]
  BY DEF Execute, Inv, TypeOK
<1>4. proc'[h] \in Procs /\ proc'[h].pc = "working" /\ proc'[h].task = t
  BY <1>3 DEF Inv, TypeOK, Procs
<1>5. \A g \in Hosts \ {h} : proc'[g] = proc[g]
  BY DEF Execute, Inv, TypeOK
<1>6. \A g \in Hosts : Busy(g) => proc[g].task # t /\ proc[g].task \in Tasks
  BY <1>1 DEF Inv, FleetInv, Busy
<1>7. /\ row' \in [Tasks -> {"absent", "pending", "claimed", "succeeded", "failed"}]
      /\ runs' \in [Tasks -> Nat]
      /\ proc' \in [Hosts -> Procs]
  <2>1. row' \in [Tasks -> {"absent", "pending", "claimed", "succeeded", "failed"}]
    BY <1>1 DEF Inv, TypeOK
  <2>2. runs' \in [Tasks -> Nat]
    BY <1>1, <1>2 DEF Inv, TypeOK
  <2>3. proc' \in [Hosts -> Procs]
    BY <1>4, <1>5 DEF Execute, Inv, TypeOK, Procs
  <2> QED BY <2>1, <2>2, <2>3
<1>8. row'[t] = "claimed" /\ runs'[t] = 1
  BY <1>1, <1>2 DEF Inv, TypeOK
<1>9. \A u \in Tasks \ {t} : row'[u] = row[u] /\ runs'[u] = runs[u]
  BY <1>1, <1>2 DEF Inv, TypeOK
<1>10. RunsMatchRows'
  BY <1>8, <1>9 DEF Inv, FleetInv, RunsMatchRows
<1>11. ASSUME NEW g \in Hosts
       PROVE  /\ proc'[g].pc \in {"polled", "working", "done"}
                    => proc'[g].task \in Tasks
              /\ proc'[g].pc \in {"working", "done"}
                    => row'[proc'[g].task] = "claimed" /\ runs'[proc'[g].task] = 1
              /\ proc'[g].pc = "done" => proc'[g].outcome \in {"succeeded", "failed"}
  <2>1. CASE g = h
    BY <1>1, <1>4, <1>8, <2>1
  <2>2. CASE g # h
    BY <1>5, <1>6, <1>9, <2>2 DEF Inv, FleetInv, Busy
  <2> QED BY <2>1, <2>2
<1>12. ASSUME NEW g \in Hosts, NEW k \in Hosts, g # k,
              proc'[g].pc \in {"working", "done"},
              proc'[k].pc \in {"working", "done"}
       PROVE  proc'[g].task # proc'[k].task
  <2>1. CASE g = h
    BY <1>4, <1>5, <1>6, <1>12, <2>1 DEF Busy
  <2>2. CASE k = h
    BY <1>4, <1>5, <1>6, <1>12, <2>2 DEF Busy
  <2>3. CASE g # h /\ k # h
    BY <1>5, <1>12, <2>3 DEF Inv, FleetInv, Busy
  <2> QED BY <2>1, <2>2, <2>3
<1>13. FleetInv'
  BY <1>10, <1>11, <1>12 DEF FleetInv, Busy
<1> QED BY <1>7, <1>13 DEF Inv, TypeOK, Procs, agents

(* The claim that the database accepts is the only one for its task: the   *)
(* process that made it becomes the one that runs it.                      *)
LEMMA ClaimInv ==
  ASSUME Inv, NEW h \in Hosts, ClaimTask(h) PROVE Inv'
<1> DEFINE t == proc[h].task
<1>1. t \in Tasks
  BY DEF ClaimTask, Inv, FleetInv
<1>2. Start(proc[h].agent) \in Procs /\ Start(proc[h].agent).pc = "idle"
  BY StartType DEF Inv, TypeOK
<1>3. CASE /\ row[t] = "pending" /\ row' = [row EXCEPT ![t] = "claimed"]
           /\ Execute(h) /\ UNCHANGED faults
  BY <1>3, ExecuteInv DEF ClaimTask
<1>4. CASE /\ row[t] = "pending" /\ row' = [row EXCEPT ![t] = "claimed"]
           /\ Idle(h) /\ Fault /\ UNCHANGED runs
  <2>1. \A g \in Hosts : Busy(g) => proc[g].task # t
    BY <1>4 DEF Inv, FleetInv, Busy
  <2>2. proc'[h].pc = "idle" /\ \A g \in Hosts \ {h} : proc'[g] = proc[g]
    BY <1>2, <1>4 DEF Idle, Inv, TypeOK
  <2>3. proc' \in [Hosts -> Procs]
    BY <1>2, <1>4 DEF Idle, Inv, TypeOK, Procs
  <2>4. row' \in [Tasks -> {"absent", "pending", "claimed", "succeeded", "failed"}]
    BY <1>1, <1>4 DEF Inv, TypeOK
  <2>5. RunsMatchRows'
    BY <1>1, <1>4 DEF Inv, TypeOK, FleetInv, RunsMatchRows
  <2>6. FleetInv'
    BY <1>4, <2>1, <2>2, <2>5 DEF Inv, TypeOK, FleetInv, Busy
  <2> QED BY <1>4, <2>3, <2>4, <2>6 DEF ClaimTask, Inv, TypeOK, Procs, Fault, agents
<1>5. CASE Idle(h) /\ UNCHANGED <<row, runs>>
  <2>1. FleetInv' /\ proc' \in [Hosts -> Procs]
    BY <1>2, <1>5, GoesQuiet DEF Idle, ClaimTask, rows
  <2>2. faults' \in Nat
    BY DEF ClaimTask, Inv, TypeOK, Fault
  <2> QED BY <1>5, <2>1, <2>2 DEF ClaimTask, Inv, TypeOK, Procs, agents
<1> QED BY <1>3, <1>4, <1>5 DEF ClaimTask

(* A process whose task comes to an end still holds it, claimed and run.   *)
LEMMA FinishInv ==
  ASSUME Inv, NEW h \in Hosts, NEW o \in {"succeeded", "failed"}, Finish(h, o)
  PROVE  Inv'
<1>1. proc'[h] = [proc[h] EXCEPT !.pc = "done", !.outcome = o]
  BY DEF Finish, Inv, TypeOK
<1>2. /\ proc'[h] \in Procs /\ proc'[h].pc = "done"
      /\ proc'[h].task = proc[h].task /\ proc'[h].outcome = o
  <2>1. proc[h] \in Procs
    BY DEF Inv, TypeOK, Procs
  <2> QED BY <1>1, <2>1 DEF Procs
<1>3. \A g \in Hosts \ {h} : proc'[g] = proc[g]
  BY DEF Finish, Inv, TypeOK
<1>4. proc' \in [Hosts -> Procs]
  BY <1>2, <1>3 DEF Finish, Inv, TypeOK, Procs
<1>5. \A g \in Hosts : proc'[g].pc \in {"working", "done"}
                          => Busy(g) /\ proc'[g].task = proc[g].task
  BY <1>2, <1>3 DEF Finish, Busy
<1>6. FleetInv'
  <2>1. UNCHANGED <<row, runs>>
    BY DEF Finish, rows
  <2>2. RunsMatchRows'
    BY <2>1 DEF Inv, FleetInv, RunsMatchRows
  <2>3. proc[h].task \in Tasks
    BY DEF Finish, Inv, FleetInv
  <2> QED BY <1>2, <1>3, <1>5, <2>1, <2>2, <2>3 DEF Inv, FleetInv, Busy
<1> QED BY <1>4, <1>6 DEF Finish, Inv, TypeOK, Procs, agents, rows

(* The report closes the row of a task that was claimed and has run.       *)
LEMMA ReportInv ==
  ASSUME Inv, NEW h \in Hosts, ReportTask(h) PROVE Inv'
<1> DEFINE t == proc[h].task
<1>1. /\ t \in Tasks /\ row[t] = "claimed" /\ runs[t] = 1 /\ Busy(h)
      /\ proc[h].outcome \in {"succeeded", "failed"}
  BY DEF ReportTask, Inv, FleetInv, Busy
<1>2. Start(proc[h].agent) \in Procs /\ Start(proc[h].agent).pc = "idle"
  BY StartType DEF Inv, TypeOK
<1>3. CASE UNCHANGED row
  <2>1. FleetInv' /\ proc' \in [Hosts -> Procs]
    BY <1>2, <1>3, GoesQuiet DEF Idle, ReportTask, rows
  <2>2. faults' \in Nat
    BY DEF ReportTask, Inv, TypeOK, Fault
  <2> QED BY <1>3, <2>1, <2>2 DEF ReportTask, Inv, TypeOK, Procs, agents
<1>4. CASE row' = [row EXCEPT ![t] = proc[h].outcome] /\ UNCHANGED faults
  <2>1. \A g \in Hosts \ {h} : Busy(g) => proc[g].task # t
    BY <1>1 DEF Inv, FleetInv
  <2>2. proc'[h].pc = "idle" /\ \A g \in Hosts \ {h} : proc'[g] = proc[g]
    BY <1>2 DEF ReportTask, Idle, Inv, TypeOK
  <2>3. proc' \in [Hosts -> Procs]
    BY <1>2 DEF ReportTask, Idle, Inv, TypeOK, Procs
  <2>4. row' \in [Tasks -> {"absent", "pending", "claimed", "succeeded", "failed"}]
    BY <1>1, <1>4 DEF Inv, TypeOK
  <2>5. RunsMatchRows'
    BY <1>1, <1>4 DEF ReportTask, Inv, TypeOK, FleetInv, RunsMatchRows
  <2>6. FleetInv'
    BY <1>4, <2>1, <2>2, <2>5 DEF ReportTask, Inv, TypeOK, FleetInv, Busy
  <2> QED BY <1>4, <2>3, <2>4, <2>6 DEF ReportTask, Inv, TypeOK, Procs, agents
<1> QED BY <1>3, <1>4 DEF ReportTask

(* A process that stops leaves its claimed task behind, unexecuted or      *)
(* done.                                                                   *)
LEMMA StopInv ==
  ASSUME Inv, NEW h \in Hosts, Stop(h) PROVE Inv'
<1>1. Down \in Procs /\ Down.pc = "down"
  BY DEF Down, Procs
<1>2. FleetInv' /\ proc' \in [Hosts -> Procs]
  BY <1>1, GoesQuiet DEF Stop
<1> QED BY <1>2 DEF Stop, Inv, TypeOK, Procs, Fault, agents, rows

(* Inv is inductive: one case per action.                                  *)
LEMMA NextInv == Inv /\ [Next]_vars => Inv'
<1> SUFFICES ASSUME Inv, [Next]_vars PROVE Inv'
  OBVIOUS
<1>1. CASE UNCHANGED vars
  BY <1>1 DEF vars, Inv, TypeOK, FleetInv, RunsMatchRows, Busy
<1>2. CASE AgentRowStep
  BY <1>2, AgentRowInv
<1>3. ASSUME NEW h \in Hosts, Register(h) \/ Heartbeat(h) \/ Work(h) \/ Stop(h)
      PROVE  Inv'
  BY <1>3, RegisterInv, HeartbeatInv, PollInv, ClaimInv, FinishInv, ReportInv,
     StopInv DEF Work
<1>4. ASSUME NEW t \in Tasks, NEW a \in AgentIds, Dispatch(t, a) PROVE Inv'
  BY <1>4, DispatchInv
<1> QED BY <1>1, <1>2, <1>3, <1>4 DEF Next, AgentRowStep

(* Inv holds of every reachable state.                                     *)
LEMMA InvHolds == Spec => []Inv
BY InitInv, NextInv, PTL DEF Spec

(* The rows of agents and tasks, and what each process holds, keep their     *)
(* types.                                                                    *)
THEOREM FleetTypeCorrect == Spec => []TypeOK
<1>1. Inv => TypeOK
  BY DEF Inv
<1> QED BY <1>1, InvHolds, PTL

(* No lost request or response and no dying process makes an agent execute a *)
(* task twice or report one it has not executed (pullLoop, ClaimTask).       *)
THEOREM RunsOnce == Spec => []RunsMatchRows
<1>1. Inv => RunsMatchRows
  BY DEF Inv, FleetInv
<1> QED BY <1>1, InvHolds, PTL

-----------------------------------------------------------------------------
(* The limit of a host group.                                                *)

(* The processes that have polled a task and not yet claimed it.             *)
Polled == {h \in Hosts : proc[h].pc = "polled"}

(* What makes OverrunIsBounded inductive: every process that polled may turn *)
(* its task into a claimed one, and one process less has then polled.        *)
OverrunInv ==
    MaxConcurrency > 0 =>
        Cardinality(InFlight) + Cardinality(Polled)
            < MaxConcurrency + Cardinality(Hosts)

(* Tasks and processes are finitely many.                                    *)
LEMMA Countable ==
  /\ IsFiniteSet(InFlight) /\ Cardinality(InFlight) \in Nat
  /\ IsFiniteSet(InFlight') /\ Cardinality(InFlight') \in Nat
  /\ IsFiniteSet(Polled) /\ Cardinality(Polled) \in Nat
  /\ IsFiniteSet(Polled') /\ Cardinality(Polled') \in Nat
  /\ Cardinality(Polled) <= Cardinality(Hosts)
  /\ Cardinality(Polled') <= Cardinality(Hosts)
  /\ Cardinality(Hosts) \in Nat
<1>1. /\ InFlight \in SUBSET Tasks /\ InFlight' \in SUBSET Tasks
      /\ Polled \in SUBSET Hosts /\ Polled' \in SUBSET Hosts
  BY DEF InFlight, Polled
<1> QED BY <1>1, TasksAssumption, HostsAssumption, FS_Subset, FS_CardinalityType

(* One element more counts for one at most.                                  *)
LEMMA OneMore ==
  ASSUME NEW S, IsFiniteSet(S), NEW x, NEW T, T \subseteq S \cup {x}
  PROVE  Cardinality(T) <= Cardinality(S) + 1
<1> DEFINE U == S \cup {x}
<1>1. IsFiniteSet(U) /\ Cardinality(U) =
         IF x \in S THEN Cardinality(S) ELSE Cardinality(S) + 1
  BY FS_AddElement
<1>2. IsFiniteSet(T) /\ Cardinality(T) <= Cardinality(U)
  BY <1>1, FS_Subset
<1>3. Cardinality(S) \in Nat /\ Cardinality(T) \in Nat
  BY <1>2, FS_CardinalityType
<1> QED BY <1>1, <1>2, <1>3

(* One element less counts for one.                                          *)
LEMMA OneLess ==
  ASSUME NEW S, IsFiniteSet(S), NEW x \in S, NEW T, T \subseteq S \ {x}
  PROVE  Cardinality(T) <= Cardinality(S) - 1
<1> DEFINE U == S \ {x}
<1>1. IsFiniteSet(U) /\ Cardinality(U) = Cardinality(S) - 1
  BY FS_RemoveElement
<1>2. Cardinality(T) <= Cardinality(U)
  BY <1>1, FS_Subset
<1> QED BY <1>1, <1>2

(* A step after which neither more tasks are claimed nor more processes have *)
(* polled keeps the bound.                                                   *)
LEMMA NotMoreBusy ==
  ASSUME OverrunInv, InFlight' \subseteq InFlight, Polled' \subseteq Polled
  PROVE  OverrunInv'
<1>1. /\ Cardinality(InFlight') <= Cardinality(InFlight)
      /\ Cardinality(Polled') <= Cardinality(Polled)
  BY Countable, FS_Subset
<1> QED BY <1>1, Countable, LimitAssumption DEF OverrunInv

(* A poll is answered while the group is below its limit, and at most all    *)
(* processes have polled then.                                               *)
LEMMA PollBelowLimit ==
  ASSUME NEW h \in Hosts, Poll(h) PROVE OverrunInv'
<1>1. ~AtCapacity /\ InFlight' = InFlight
  BY DEF Poll, NextPendingTask, InFlight, rows
<1>2. MaxConcurrency > 0 => Cardinality(InFlight') < MaxConcurrency
  BY <1>1, Countable, LimitAssumption DEF AtCapacity
<1> QED BY <1>2, Countable, LimitAssumption DEF OverrunInv

(* A claim, confirmed or not, adds at most one task and uses up one poll.    *)
LEMMA ClaimUsesPoll ==
  ASSUME Inv, OverrunInv, NEW h \in Hosts, ClaimTask(h) PROVE OverrunInv'
<1> DEFINE t == proc[h].task
<1>1. h \in Polled /\ Polled' \subseteq Polled \ {h}
  <2>1. proc'[h].pc # "polled" /\ \A g \in Hosts \ {h} : proc'[g] = proc[g]
    BY DEF ClaimTask, Execute, Idle, Start, Inv, TypeOK
  <2> QED BY <2>1 DEF ClaimTask, Polled
<1>2. InFlight' \subseteq InFlight \cup {t}
  BY DEF ClaimTask, InFlight, Inv, TypeOK
<1>3. Cardinality(Polled') <= Cardinality(Polled) - 1
  BY <1>1, Countable, OneLess
<1>4. Cardinality(InFlight') <= Cardinality(InFlight) + 1
  BY <1>2, Countable, OneMore
<1> QED BY <1>3, <1>4, Countable, LimitAssumption DEF OverrunInv

(* Every other step leaves both counts as they are or lowers them.           *)
LEMMA OtherStepsNotBusier ==
  ASSUME Inv, OverrunInv,
         \/ UNCHANGED vars \/ AgentRowStep
         \/ \E t \in Tasks, a \in AgentIds : Dispatch(t, a)
         \/ \E h \in Hosts :
               \/ Register(h) \/ Heartbeat(h) \/ ReportTask(h) \/ Stop(h)
               \/ \E o \in {"succeeded", "failed"} : Finish(h, o)
  PROVE  OverrunInv'
<1>1. Polled' \subseteq Polled
  <2>1. CASE proc' = proc
    BY <2>1 DEF Polled
  <2>2. CASE \E h \in Hosts : \E p \in Procs :
                 p.pc # "polled" /\ proc' = [proc EXCEPT ![h] = p]
    BY <2>2 DEF Polled, Inv, TypeOK
  <2>3. ASSUME NEW h \in Hosts, Register(h)
        PROVE  \/ proc' = proc
               \/ \E p \in Procs :
                     p.pc # "polled" /\ proc' = [proc EXCEPT ![h] = p]
    BY <2>3, StartType DEF Register
  <2>4. ASSUME NEW h \in Hosts, ReportTask(h) \/ Stop(h)
        PROVE  \E p \in Procs :
                   p.pc # "polled" /\ proc' = [proc EXCEPT ![h] = p]
    <3>1. proc[h].agent \in AgentIds \cup {0}
      BY DEF Inv, TypeOK
    <3> QED BY <2>4, <3>1, StartType DEF ReportTask, Idle, Stop, Down
  <2>5. ASSUME NEW h \in Hosts, NEW o \in {"succeeded", "failed"}, Finish(h, o)
        PROVE  \E p \in Procs :
                   p.pc # "polled" /\ proc' = [proc EXCEPT ![h] = p]
    <3>1. /\ proc' = [proc EXCEPT ![h] = [proc[h] EXCEPT !.pc = "done",
                                                         !.outcome = o]]
          /\ [proc[h] EXCEPT !.pc = "done", !.outcome = o] \in Procs
      BY <2>5 DEF Finish, Inv, TypeOK, Procs
    <3>2. [proc[h] EXCEPT !.pc = "done", !.outcome = o].pc # "polled"
      BY DEF Inv, TypeOK
    <3> QED BY <3>1, <3>2
  <2> QED BY <2>1, <2>2, <2>3, <2>4, <2>5
       DEF AgentRowStep, Age, OperatorTransition, Checker, ListStale,
           MarkOffline, Dispatch, Heartbeat, vars
<1>2. InFlight' \subseteq InFlight
  <2>1. ASSUME NEW h \in Hosts, ReportTask(h) PROVE InFlight' \subseteq InFlight
    BY <2>1 DEF ReportTask, InFlight, Inv, TypeOK, FleetInv
  <2>2. ASSUME NEW t \in Tasks, NEW a \in AgentIds, Dispatch(t, a)
        PROVE  InFlight' \subseteq InFlight
    BY <2>2 DEF Dispatch, InFlight, Inv, TypeOK
  <2> QED BY <2>1, <2>2
       DEF AgentRowStep, Age, OperatorTransition, Checker, ListStale, MarkOffline,
           Register, Heartbeat, Stop, Finish, InFlight, rows, vars
<1> QED BY <1>1, <1>2, NotMoreBusy

(* Agents that polled at the same time may overrun the limit of their group, *)
(* never by as many tasks as there are agents: for every limit and any       *)
(* number of agents and tasks (NextPendingTask, ClaimTask).                  *)
THEOREM OverrunBounded == Spec => []OverrunIsBounded
<1>1. Init => OverrunInv
  <2> SUFFICES ASSUME Init, MaxConcurrency > 0
               PROVE  Cardinality(InFlight) + Cardinality(Polled)
                         < MaxConcurrency + Cardinality(Hosts)
    BY DEF OverrunInv
  <2>1. InFlight = {} /\ Polled = {}
    BY DEF Init, InFlight, Polled, Down
  <2> QED BY <2>1, FS_EmptySet, Countable, LimitAssumption
<1>2. Inv /\ OverrunInv /\ [Next]_vars => OverrunInv'
  <2> SUFFICES ASSUME Inv, OverrunInv, [Next]_vars PROVE OverrunInv'
    OBVIOUS
  <2> QED BY PollBelowLimit, ClaimUsesPoll, OtherStepsNotBusier
       DEF Next, Work, AgentRowStep
<1>3. OverrunInv => OverrunIsBounded
  BY Countable, LimitAssumption DEF OverrunInv, OverrunIsBounded
<1> QED BY <1>1, <1>2, <1>3, InvHolds, PTL DEF Spec

-----------------------------------------------------------------------------
(* The rows implement AgentTask.                                             *)

(* Every step of the fleet is a step of AgentTask or leaves the rows       *)
(* alone.                                                                  *)
LEMMA RowStep == ASSUME Inv, [Next]_vars PROVE [AgentTasks!Next]_row
<1>1. CASE UNCHANGED row
  BY <1>1
<1>2. ASSUME NEW t \in Tasks, NEW a \in AgentIds, Dispatch(t, a)
      PROVE  AgentTasks!Next
  <2>1. row' = [u \in Tasks |-> IF u \in {t} THEN "pending" ELSE row[u]]
    BY <1>2 DEF Dispatch, Inv, TypeOK
  <2>2. {t} \in SUBSET {u \in Tasks : row[u] = "absent"}
    BY <1>2 DEF Dispatch
  <2> QED BY <2>1, <2>2 DEF AgentTasks!Next, AgentTasks!Insert
<1>3. ASSUME NEW h \in Hosts, ClaimTask(h) PROVE [AgentTasks!Next]_row
  <2>1. proc[h].task \in Tasks
    BY <1>3 DEF ClaimTask, Inv, FleetInv
  <2>2. \/ UNCHANGED row
        \/ /\ row[proc[h].task] = "pending"
           /\ row' = [row EXCEPT ![proc[h].task] = "claimed"]
    BY <1>3 DEF ClaimTask
  <2> QED BY <2>1, <2>2 DEF AgentTasks!Next, AgentTasks!Claim
<1>4. ASSUME NEW h \in Hosts, ReportTask(h) PROVE [AgentTasks!Next]_row
  <2>1. /\ proc[h].task \in Tasks /\ row[proc[h].task] = "claimed"
        /\ proc[h].outcome \in {"succeeded", "failed"}
    BY <1>4 DEF ReportTask, Inv, FleetInv, Busy
  <2>2. \/ UNCHANGED row
        \/ row' = [row EXCEPT ![proc[h].task] = proc[h].outcome]
    BY <1>4 DEF ReportTask
  <2> QED BY <2>1, <2>2 DEF AgentTasks!Next, AgentTasks!Report
<1>5. ASSUME NEW h \in Hosts,
             Register(h) \/ Heartbeat(h) \/ Poll(h) \/ Stop(h)
               \/ \E o \in {"succeeded", "failed"} : Finish(h, o)
      PROVE  UNCHANGED row
  BY <1>5 DEF Register, Heartbeat, Poll, Stop, Finish, rows
<1>6. CASE AgentRowStep \/ UNCHANGED vars
  BY <1>6 DEF AgentRowStep, Age, OperatorTransition, Checker, ListStale,
              MarkOffline, rows, vars
<1> QED BY <1>2, <1>3, <1>4, <1>5, <1>6 DEF Next, Work, AgentRowStep

(* Each task is claimed once and reported once, from its claim on: what      *)
(* Release assumes of the agents is what the agents do.                      *)
THEOREM FleetImplementsTasks == Spec => TasksOnce
<1>1. Init => AgentTasks!Init
  BY DEF Init, AgentTasks!Init
<1>2. Inv /\ [Next]_vars => [AgentTasks!Next]_row
  BY RowStep
<1> QED BY <1>1, <1>2, InvHolds, PTL DEF Spec, TasksOnce, AgentTasks!Spec

-----------------------------------------------------------------------------
(* Operators and health checks.                                              *)

OutOfService == {"draining", "disabled", "upgrading"}

(* Only an operator moves an agent that is out of service: a health check  *)
(* moves agents that were online, busy or idle when they were listed and   *)
(* still are, a heartbeat those that are offline, and a registration       *)
(* takes a new id.                                                         *)
LEMMA OutOfServiceStep ==
    ASSUME Inv, [Next]_vars, NEW a \in AgentIds, agentStatus[a] \in OutOfService
    PROVE  agentStatus'[a] \in {agentStatus[a]} \cup Targets
<1> USE DEF OutOfService
<1>1. agentStatus \in [AgentIds -> AgentStates \cup {"none"}]
  BY DEF Inv, TypeOK
<1>2. ASSUME NEW h \in Hosts, Register(h)
      PROVE  agentStatus'[a] = agentStatus[a]
  BY <1>1, <1>2 DEF Register, NewId
<1>3. ASSUME NEW h \in Hosts, Heartbeat(h)
      PROVE  agentStatus'[a] = agentStatus[a]
  BY <1>1, <1>3 DEF Heartbeat, CanMove
<1>4. ASSUME NEW x \in stale, MarkOffline(x)
      PROVE  agentStatus'[a] = agentStatus[a]
  <2>1. x.status \in {"online", "busy", "idle"}
    BY DEF Inv, TypeOK
  <2> QED BY <1>1, <1>4, <2>1 DEF MarkOffline, CanMove
<1>5. ASSUME NEW b \in AgentIds, NEW to \in Targets, OperatorTransition(b, to)
      PROVE  agentStatus'[a] \in {agentStatus[a]} \cup Targets
  BY <1>1, <1>5 DEF OperatorTransition
<1>6. ASSUME UNCHANGED agentStatus
      PROVE  agentStatus'[a] = agentStatus[a]
  BY <1>6
<1>7. ASSUME NEW h \in Hosts, Work(h) \/ Stop(h)
      PROVE  UNCHANGED agentStatus
  BY <1>7 DEF Work, Poll, ClaimTask, ReportTask, Finish, Stop, agents
<1>8. ASSUME NEW b \in AgentIds, Age(b) \/ \E t \in Tasks : Dispatch(t, b)
      PROVE  UNCHANGED agentStatus
  BY <1>8 DEF Age, Dispatch, agents
<1>9. ASSUME ListStale \/ UNCHANGED vars
      PROVE  UNCHANGED agentStatus
  BY <1>9 DEF ListStale, vars
<1> QED BY <1>2, <1>3, <1>4, <1>5, <1>6, <1>7, <1>8, <1>9 DEF Next, Checker

(* However old the list of a health check is, and however late a heartbeat   *)
(* arrives, an agent that an operator has taken out of service stays there   *)
(* until an operator moves it (CheckStaleAgents, Heartbeat).                 *)
THEOREM OperatorPrevails == Spec => OperatorWins
<1>1. Inv /\ [Next]_vars =>
          [\A a \in AgentIds :
              agentStatus[a] \in {"draining", "disabled", "upgrading"}
                 => agentStatus'[a] \in {agentStatus[a]} \cup Targets]_vars
  BY OutOfServiceStep DEF OutOfService
<1> QED BY <1>1, InvHolds, PTL DEF Spec, OperatorWins

-----------------------------------------------------------------------------
(* The host.                                                                *)

AtWork == pc # "idle"

(* Phases in which the manifest of the task is in place.                    *)
Written ==
    \/ pc \in {"test", "snapshot", "reload"}
    \/ pc = "verify" /\ task.type # "rollback"

(* What a phase may rely on: staging holds the release once its checksum    *)
(* matched, only signed releases get further, and the loops have done what  *)
(* is not left to do.                                                       *)
PhaseInv ==
    /\ AtWork => task.release \in Releases /\ result = "none"
    /\ pc \in {"restore", "restoring"} => task.type = "rollback"
    /\ pc \in {"download", "checksum", "signature", "write", "test", "snapshot",
               "reload"} => task.type # "rollback"
    /\ pc \in {"signature", "write"} => ChecksumMatches
    /\ pc = "write" =>
          /\ task.release \in Signed
          /\ todo \subseteq FilesOf[task.release]
          /\ \A f \in FilesOf[task.release] \ todo : disk[f] = task.release
    /\ Written => \A f \in FilesOf[task.release] : disk[f] = task.release
    /\ pc = "snapshot" /\ HasNginx => NginxAccepts
    /\ pc = "reload" => HasNginx /\ NginxAccepts
    /\ pc = "restoring" =>
          /\ previous[task.release] # NoSnapshot
          /\ todo \subseteq Html
          /\ \A f \in Html \ todo : previous[task.release][f] \in {0, disk[f]}
    /\ pc = "verify" /\ task.type = "rollback" =>
          \A f \in Html : previous[task.release][f] \in {0, disk[f]}

HostInv == HostTypeOK /\ PhaseInv /\ ServesGenuine /\ SuccessIsComplete

USE HostAssumption

(* The first state: an empty host.                                          *)
LEMMA HostStarts == HostInit => HostInv
<1> SUFFICES ASSUME HostInit PROVE HostInv
  OBVIOUS
<1>1. HostTypeOK
  BY DEF HostInit, HostTypeOK, Files, Contents, NoSnapshot, NoTask, Corrupt, Torn
<1>2. PhaseInv
  BY DEF HostInit, PhaseInv, AtWork, Written
<1>3. ServesGenuine
  BY DEF HostInit, ServesGenuine, Genuine, Torn
<1>4. SuccessIsComplete
  BY DEF HostInit, SuccessIsComplete
<1> QED  BY <1>1, <1>2, <1>3, <1>4 DEF HostInv

(* A step that writes neither files nor snapshots nor the configuration     *)
(* keeps what is served.                                                    *)
LEMMA ServedKept ==
    ASSUME ServesGenuine, UNCHANGED <<disk, loaded, previous>>
    PROVE  ServesGenuine'
BY DEF ServesGenuine

(* A new task starts with an empty staging directory.                       *)
LEMMA ReceiveKeeps ==
    ASSUME HostInv, NEW r \in Releases, NEW defer \in BOOLEAN,
           NEW type \in Types \cup {"rollback"}, Receive(type, r, defer)
    PROVE  HostInv'
<1> USE DEF HostInv
<1>1. HostTypeOK'
  BY DEF Receive, HostTypeOK, Files, Contents, Corrupt, Torn
<1>2. PhaseInv'
  BY DEF Receive, PhaseInv, AtWork, Written, HostTypeOK, HasNginx
<1>3. ServesGenuine'
  BY ServedKept DEF Receive
<1>4. SuccessIsComplete'
  BY DEF Receive, SuccessIsComplete
<1> QED  BY <1>1, <1>2, <1>3, <1>4

(* The phases before the first file is written.                             *)
LEMMA FetchKeeps ==
    ASSUME HostInv, Download \/ VerifyChecksum \/ VerifySignature
    PROVE  HostInv'
<1> USE DEF HostInv, kept
<1>1. HostTypeOK'
  <2>1. staging' \in [Files -> Contents]
    <3>1. CASE UNCHANGED staging
      BY <3>1 DEF HostTypeOK
    <3>2. CASE Download /\ ~UNCHANGED staging
      <4>1. task.release \in Contents /\ Corrupt \in Contents /\ 0 \in Contents
        BY <3>2 DEF Download, PhaseInv, AtWork, Contents
      <4>2. PICK bad \in SUBSET FilesOf[task.release] :
                staging' = [f \in Files |->
                               IF f \in bad THEN Corrupt
                               ELSE IF f \in FilesOf[task.release]
                               THEN task.release ELSE 0]
        BY <3>2 DEF Download
      <4> QED  BY <4>1, <4>2
    <3> QED  BY <3>1, <3>2 DEF VerifyChecksum, VerifySignature
  <2>2. todo' \subseteq Files
    <3>1. CASE UNCHANGED todo
      BY <3>1 DEF HostTypeOK
    <3>2. CASE VerifySignature /\ todo' = FilesOf[task.release]
      BY <3>2 DEF VerifySignature, PhaseInv, AtWork, Files
    <3> QED  BY <3>1, <3>2 DEF Download, VerifyChecksum, VerifySignature
  <2>3. UNCHANGED <<disk, loaded, previous, task, received>>
    BY DEF Download, VerifyChecksum, VerifySignature
  <2>4. /\ pc' \in {"idle", "checksum", "signature", "write"}
        /\ result' \in {result, "failed"}
    BY DEF Download, VerifyChecksum, VerifySignature, Enter, Fail
  <2> QED  BY <2>1, <2>2, <2>3, <2>4 DEF HostTypeOK
<1>2. ServesGenuine'
  BY ServedKept DEF Download, VerifyChecksum, VerifySignature
<1>3. PhaseInv'
  <2>1. CASE Download
    BY <2>1 DEF Download, PhaseInv, AtWork, Written, Enter, Fail, HostTypeOK, HasNginx
  <2>2. CASE VerifyChecksum
    BY <2>2 DEF VerifyChecksum, PhaseInv, AtWork, Written, Enter, Fail, HostTypeOK,
                HasNginx, ChecksumMatches
  <2>3. CASE VerifySignature
    BY <2>3 DEF VerifySignature, PhaseInv, AtWork, Written, Enter, Fail, HostTypeOK,
                HasNginx, ChecksumMatches
  <2> QED  BY <2>1, <2>2, <2>3
<1>4. SuccessIsComplete'
  BY DEF Download, VerifyChecksum, VerifySignature, SuccessIsComplete, PhaseInv,
         AtWork, Enter, Fail
<1> QED  BY <1>1, <1>2, <1>3, <1>4

(* A copy that breaks off leaves a torn file, which is still a part of a    *)
(* genuine one.                                                             *)
LEMMA InterruptedKeeps ==
    ASSUME HostTypeOK, ServesGenuine, Interrupted, UNCHANGED <<loaded, previous>>
    PROVE  ServesGenuine' /\ disk' \in [Files -> Contents]
BY DEF HostTypeOK, ServesGenuine, Interrupted, Genuine, Contents, Torn

(* The phases that write the files of the manifest and test them.           *)
LEMMA WriteKeeps ==
    ASSUME HostInv, WriteFile \/ WriteDone \/ NginxTest
    PROVE  HostInv'
<1> USE DEF HostInv, kept
<1>1. CASE WriteFile
  <2>1. CASE \E f \in todo : /\ disk' = [disk EXCEPT ![f] = staging[f]]
                             /\ todo' = todo \ {f}
                             /\ UNCHANGED <<pc, result>>
    <3>1. PICK f \in todo : /\ disk' = [disk EXCEPT ![f] = staging[f]]
                            /\ todo' = todo \ {f}
                            /\ UNCHANGED <<pc, result>>
      BY <2>1
    <3>2. /\ f \in FilesOf[task.release] /\ staging[f] = task.release
          /\ task.release \in Signed /\ task.release \in Releases
          /\ result = "none" /\ pc = "write"
      BY <1>1, <3>1 DEF WriteFile, PhaseInv, ChecksumMatches, AtWork
    <3>3. HostTypeOK'
      BY <1>1, <3>1, <3>2 DEF WriteFile, HostTypeOK, Files, Contents
    <3>4. PhaseInv'
      BY <1>1, <3>1, <3>2 DEF WriteFile, PhaseInv, AtWork, Written, HostTypeOK,
                              ChecksumMatches, Files
    <3>5. ServesGenuine'
      BY <1>1, <3>1, <3>2 DEF WriteFile, ServesGenuine, Genuine, HostTypeOK, Files
    <3>6. SuccessIsComplete'
      BY <1>1, <3>1, <3>2 DEF WriteFile, SuccessIsComplete
    <3> QED  BY <3>3, <3>4, <3>5, <3>6
  <2>2. CASE Fail /\ Interrupted /\ UNCHANGED todo
    <3>1. ServesGenuine' /\ disk' \in [Files -> Contents]
      BY <1>1, <2>2, InterruptedKeeps DEF WriteFile
    <3>2. HostTypeOK' /\ PhaseInv' /\ SuccessIsComplete'
      BY <1>1, <2>2, <3>1 DEF WriteFile, Fail, HostTypeOK, PhaseInv, AtWork, Written,
                              SuccessIsComplete
    <3> QED  BY <3>1, <3>2
  <2> QED  BY <1>1, <2>1, <2>2 DEF WriteFile
<1>2. CASE WriteDone \/ NginxTest
  <2>1. HostTypeOK'
    BY <1>2 DEF WriteDone, NginxTest, HostTypeOK, Enter, Fail
  <2>2. PhaseInv'
    BY <1>2 DEF WriteDone, NginxTest, PhaseInv, AtWork, Written, Enter, Fail, AllWritten,
                HasNginx, NginxAccepts, ChecksumMatches
  <2>3. ServesGenuine'
    BY <1>2, ServedKept DEF WriteDone, NginxTest
  <2>4. SuccessIsComplete'
    BY <1>2 DEF WriteDone, NginxTest, PhaseInv, AtWork, SuccessIsComplete, Enter, Fail
  <2> QED  BY <2>1, <2>2, <2>3, <2>4
<1> QED  BY <1>1, <1>2

(* A snapshot, cut off or not, holds what deploy_path holds, what the       *)
(* snapshot held before, or torn files.                                     *)
LEMMA SnapshotGenuine ==
    ASSUME HostTypeOK, ServesGenuine, task.release \in Releases,
           NEW done \in SUBSET Html, NEW torn \in SUBSET Html,
           previous' = [previous EXCEPT ![task.release] = SnapshotWith(done, torn)],
           UNCHANGED <<disk, loaded>>
    PROVE  ServesGenuine' /\ previous' \in [Releases -> [Html -> Contents]]
<1> DEFINE s == SnapshotWith(done, torn)
<1>1. s \in [Html -> Genuine] /\ s \in [Html -> Contents]
  <2>1. DOMAIN Webroot = Html
    BY DEF Webroot
  <2>2. s = [f \in Html |->
                IF f \in torn THEN Torn
                ELSE IF f \in done THEN Webroot[f]
                ELSE IF previous[task.release] = NoSnapshot THEN 0
                ELSE previous[task.release][f]]
    BY <2>1 DEF SnapshotWith
  <2>3. \A f \in Html : Webroot[f] \in Genuine
    BY DEF Webroot, ServesGenuine, Files
  <2>4. Torn \in Genuine /\ 0 \in Genuine /\ Genuine \subseteq Contents
    BY DEF Genuine, Contents
  <2>5. previous[task.release] = NoSnapshot
           \/ \A f \in Html : previous[task.release][f] \in Genuine
    BY DEF ServesGenuine
  <2> HIDE DEF s
  <2>6. \A f \in Html : s[f] \in Genuine
    BY <2>2, <2>3, <2>4, <2>5
  <2> QED  BY <2>2, <2>4, <2>6
<1> HIDE DEF s
<1>2. \A r \in Releases : previous'[r] = IF r = task.release THEN s ELSE previous[r]
  BY DEF HostTypeOK, s
<1>3. previous' \in [Releases -> [Html -> Contents]]
  BY <1>1 DEF HostTypeOK, s
<1>4. ServesGenuine'
  BY <1>1, <1>2 DEF ServesGenuine
<1> QED  BY <1>3, <1>4

LEMMA CutSnapshotGenuine ==
    ASSUME HostTypeOK, ServesGenuine, task.release \in Releases, CutSnapshot,
           UNCHANGED <<disk, loaded>>
    PROVE  ServesGenuine' /\ previous' \in [Releases -> [Html -> Contents]]
<1>1. CASE UNCHANGED previous
  BY <1>1, ServedKept DEF HostTypeOK
<1>2. CASE \E done \in SUBSET Html, torn \in SUBSET Html :
              previous' = [previous EXCEPT ![task.release] = SnapshotWith(done, torn)]
  BY <1>2, SnapshotGenuine
<1> QED  BY <1>1, <1>2 DEF CutSnapshot

(* The phases after the files are written.                                  *)
LEMMA FinishKeeps ==
    ASSUME HostInv, Snapshot \/ Reload \/ LocalVerify
    PROVE  HostInv'
<1> USE DEF HostInv, kept
<1>1. CASE Snapshot
  <2>1. task.release \in Releases /\ result = "none" /\ UNCHANGED <<disk, loaded>>
    BY <1>1 DEF Snapshot, PhaseInv, AtWork
  <2>2. ServesGenuine' /\ previous' \in [Releases -> [Html -> Contents]]
    <3>1. CASE CutSnapshot
      BY <2>1, <3>1, CutSnapshotGenuine DEF HostInv
    <3>2. CASE previous' = [previous EXCEPT ![task.release] = SnapshotWith(Html, {})]
      <4>1. Html \in SUBSET Html /\ {} \in SUBSET Html
        OBVIOUS
      <4> QED BY <2>1, <3>2, <4>1, SnapshotGenuine DEF HostInv
    <3> QED BY <1>1, <3>1, <3>2 DEF Snapshot
  <2>3. HostTypeOK'
    BY <1>1, <2>2 DEF Snapshot, HostTypeOK, Enter
  <2>4. PhaseInv'
    BY <1>1, <2>1 DEF Snapshot, PhaseInv, AtWork, Written, Enter, HasNginx, NginxAccepts
  <2>5. SuccessIsComplete'
    BY <1>1, <2>1 DEF Snapshot, SuccessIsComplete, Enter
  <2> QED  BY <2>2, <2>3, <2>4, <2>5
<1>2. CASE Reload
  <2>1. "conf" \in Files /\ task.release \in Releases /\ result = "none"
    BY <1>2 DEF Files, Reload, PhaseInv, AtWork
  <2>2. HostTypeOK'
    BY <1>2, <2>1 DEF Reload, HostTypeOK, Enter, Fail
  <2>3. ServesGenuine'
    BY <1>2, <2>1 DEF Reload, ServesGenuine, PhaseInv, NginxAccepts
  <2>4. PhaseInv'
    BY <1>2 DEF Reload, PhaseInv, AtWork, Written, Enter, Fail
  <2>5. SuccessIsComplete'
    BY <1>2, <2>1 DEF Reload, SuccessIsComplete, Enter, Fail
  <2> QED  BY <2>2, <2>3, <2>4, <2>5
<1>3. CASE LocalVerify
  <2>1. HostTypeOK'
    BY <1>3 DEF LocalVerify, HostTypeOK, Succeed, Fail
  <2>2. ServesGenuine'
    BY <1>3, ServedKept DEF LocalVerify
  <2>3. PhaseInv'
    BY <1>3 DEF LocalVerify, PhaseInv, AtWork, Written, Succeed, Fail
  <2>4. SuccessIsComplete'
    BY <1>3 DEF LocalVerify, PhaseInv, Written, SuccessIsComplete, Succeed, Fail
  <2> QED  BY <2>1, <2>2, <2>3, <2>4
<1> QED  BY <1>1, <1>2, <1>3

(* The phases of a rollback.                                                *)
LEMMA RestoreKeeps ==
    ASSUME HostInv, RestoreBegin \/ RestoreFile
    PROVE  HostInv'
<1> USE DEF HostInv, kept
<1>1. CASE RestoreBegin
  <2>1. HostTypeOK'
    BY <1>1 DEF RestoreBegin, HostTypeOK, Files, Enter, Fail
  <2>2. ServesGenuine'
    BY <1>1, ServedKept DEF RestoreBegin
  <2>3. PhaseInv'
    BY <1>1 DEF RestoreBegin, PhaseInv, AtWork, Written, Enter, Fail
  <2>4. SuccessIsComplete'
    BY <1>1 DEF RestoreBegin, PhaseInv, AtWork, SuccessIsComplete, Enter, Fail
  <2> QED  BY <2>1, <2>2, <2>3, <2>4
<1>2. CASE RestoreFile
  <2>1. /\ task.release \in Releases /\ task.type = "rollback" /\ pc = "restoring"
        /\ result = "none" /\ previous[task.release] # NoSnapshot
        /\ todo \subseteq Html
    BY <1>2 DEF RestoreFile, PhaseInv, AtWork
  <2>2. CASE \E f \in todo : /\ disk' = [disk EXCEPT ![f] = previous[task.release][f]]
                             /\ todo' = todo \ {f}
                             /\ UNCHANGED <<pc, result>>
    <3>1. PICK f \in todo : /\ disk' = [disk EXCEPT ![f] = previous[task.release][f]]
                            /\ todo' = todo \ {f}
                            /\ UNCHANGED <<pc, result>>
      BY <2>2
    <3>2. f \in Html /\ previous[task.release][f] \in Genuine
      BY <2>1, <3>1 DEF ServesGenuine
    <3>3. disk' \in [Files -> Contents]
      <4>1. previous[task.release] \in [Html -> Contents] /\ disk \in [Files -> Contents]
        BY <2>1 DEF HostTypeOK
      <4>2. previous[task.release][f] \in Contents
        BY <4>1, <3>2
      <4> QED  BY <3>1, <4>1, <4>2
    <3>4. \A g \in Files : disk'[g] = IF g = f THEN previous[task.release][f] ELSE disk[g]
      BY <3>1, <3>2 DEF HostTypeOK, Files
    <3>5. HostTypeOK'
      BY <1>2, <3>1, <3>3 DEF RestoreFile, HostTypeOK
    <3>6. ServesGenuine'
      BY <1>2, <3>2, <3>4 DEF RestoreFile, ServesGenuine
    <3>7. PhaseInv'
      BY <1>2, <2>1, <3>1, <3>2, <3>4 DEF RestoreFile, PhaseInv, AtWork, Written, Files
    <3>8. SuccessIsComplete'
      BY <2>1, <3>1 DEF SuccessIsComplete
    <3> QED  BY <3>5, <3>6, <3>7, <3>8
  <2>3. CASE todo # {} /\ Fail /\ Interrupted /\ UNCHANGED todo
    <3>1. ServesGenuine' /\ disk' \in [Files -> Contents]
      BY <1>2, <2>3, InterruptedKeeps DEF RestoreFile
    <3>2. HostTypeOK' /\ PhaseInv' /\ SuccessIsComplete'
      BY <1>2, <2>3, <3>1 DEF RestoreFile, Fail, HostTypeOK, PhaseInv, AtWork, Written,
                              SuccessIsComplete
    <3> QED  BY <3>1, <3>2
  <2>4. CASE todo = {} /\ Enter("verify") /\ UNCHANGED <<disk, todo>>
    <3>1. HostTypeOK'
      BY <1>2, <2>4 DEF RestoreFile, HostTypeOK, Enter
    <3>2. ServesGenuine'
      BY <1>2, <2>4, ServedKept DEF RestoreFile
    <3>3. PhaseInv'
      BY <1>2, <2>1, <2>4 DEF RestoreFile, PhaseInv, AtWork, Written, Enter
    <3>4. SuccessIsComplete'
      BY <2>1, <2>4 DEF SuccessIsComplete, Enter
    <3> QED  BY <3>1, <3>2, <3>3, <3>4
  <2> QED  BY <1>2, <2>2, <2>3, <2>4 DEF RestoreFile
<1> QED  BY <1>1, <1>2

(* A crash forgets the task, and may tear the file or the snapshot it was   *)
(* at.                                                                      *)
LEMMA CrashKeeps ==
    ASSUME HostInv, Crash
    PROVE  HostInv'
<1> USE DEF HostInv, kept
<1>1. task.release \in Releases /\ pc' = "idle" /\ result' = "none"
  BY DEF Crash, PhaseInv, AtWork
<1>2. /\ ServesGenuine'
      /\ disk' \in [Files -> Contents]
      /\ previous' \in [Releases -> [Html -> Contents]]
  <2>1. CASE pc \in {"write", "restoring"}
    BY <2>1, InterruptedKeeps DEF Crash, HostTypeOK
  <2>2. CASE pc = "snapshot"
    BY <1>1, <2>2, CutSnapshotGenuine DEF Crash, HostTypeOK
  <2>3. CASE pc \notin {"write", "restoring", "snapshot"}
    BY <2>3, ServedKept DEF Crash, HostTypeOK
  <2> QED  BY <2>1, <2>2, <2>3
<1>3. HostTypeOK'
  BY <1>1, <1>2 DEF Crash, HostTypeOK
<1>4. PhaseInv' /\ SuccessIsComplete'
  BY <1>1 DEF PhaseInv, AtWork, Written, SuccessIsComplete
<1> QED  BY <1>2, <1>3, <1>4

LEMMA HostStep == HostInv /\ [HostNext]_hostVars => HostInv'
<1> SUFFICES ASSUME HostInv, [HostNext]_hostVars PROVE HostInv'
  OBVIOUS
<1>1. CASE UNCHANGED hostVars
  BY <1>1 DEF hostVars, HostInv, HostTypeOK, PhaseInv, AtWork, Written, ServesGenuine,
              SuccessIsComplete, ChecksumMatches, HasNginx, NginxAccepts
<1>2. CASE HostNext
  BY <1>2, ReceiveKeeps, FetchKeeps, WriteKeeps, FinishKeeps, RestoreKeeps, CrashKeeps
     DEF HostNext
<1> QED  BY <1>1, <1>2

LEMMA HostInvariant == HostSpec => []HostInv
BY HostStarts, HostStep, PTL DEF HostSpec

(* The variables of HostDeploy keep their types.                            *)
THEOREM HostTypeCorrect == HostSpec => []HostTypeOK
<1>1. HostInv => HostTypeOK
  BY DEF HostInv
<1> QED  BY <1>1, HostInvariant, PTL

(* What is served, what a rollback can bring back and what nginx runs is    *)
(* genuine and accepted (verifyArtifactChecksum, verifyArtifactSignature,   *)
(* nginx -t), whatever breaks off and however many tasks come.              *)
THEOREM ServedIsGenuine == HostSpec => []ServesGenuine
<1>1. HostInv => ServesGenuine
  BY DEF HostInv
<1> QED  BY <1>1, HostInvariant, PTL

(* A task that reports success has put all of its files in place            *)
(* (handleTask, restoreFromSnapshot).                                       *)
THEOREM SuccessComplete == HostSpec => []SuccessIsComplete
<1>1. HostInv => SuccessIsComplete
  BY DEF HostInv
<1> QED  BY <1>1, HostInvariant, PTL

=============================================================================
