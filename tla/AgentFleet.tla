----------------------------- MODULE AgentFleet -----------------------------
(***************************************************************************)
(* The agents of one host group: their rows and state machine on the       *)
(* control plane (internal/agent, store/postgres/agent.go) and the agent   *)
(* processes on the hosts (cmd/agent), which register, send heartbeats,    *)
(* and poll, claim, execute and report tasks over HTTP.  Every request may *)
(* be lost on its way, or its response on the way back; a process may die  *)
(* at any point and registers again, as a new agent, when it is restarted. *)
(***************************************************************************)
EXTENDS Integers, FiniteSets

CONSTANTS
    Hosts,           \* hosts that run an agent process
    AgentIds,        \* bound: rows of the agents table, by id
    Tasks,           \* ids of agent_tasks, in the order of created_at
    MaxConcurrency,  \* host_groups.max_concurrency, 0 for unlimited
    HealthChecks,    \* whether anything runs the health checker
    Targets,         \* states that operators move agents to
    MaxFaults        \* bound: lost calls and processes that die

ASSUME HostsAssumption == IsFiniteSet(Hosts)
ASSUME AgentIdsAssumption == IsFiniteSet(AgentIds) /\ AgentIds \subseteq Nat \ {0}
ASSUME TasksAssumption == IsFiniteSet(Tasks) /\ Tasks \subseteq Nat \ {0}
ASSUME LimitAssumption ==
    MaxConcurrency \in Nat /\ HealthChecks \in BOOLEAN /\ MaxFaults \in Nat

VARIABLES
    agentStatus,  \* agents.status by id, "none" without a row
    fresh,        \* agents.last_seen_at is less than 90 s old
    stale,        \* what the health checker has listed: agent and status read
    owner,        \* agent_tasks.agent_id by task, 0 without a row
    row,          \* agent_tasks.status by task
    proc,         \* the agent process of each host
    runs,         \* how often each task was executed on a host
    faults

vars == <<agentStatus, fresh, stale, owner, row, proc, runs, faults>>

rows == <<owner, row>>

agents == <<agentStatus, fresh, stale>>

-----------------------------------------------------------------------------
(* The state machine of an agent. *)

AgentStates == {"registered", "online", "busy", "idle", "offline", "draining",
                "disabled", "upgrading", "error"}

validAgentTransitions ==
    [s \in AgentStates |->
        CASE s = "registered" -> {"online"}
          [] s = "online"     -> {"busy", "idle", "offline", "draining",
                                  "disabled", "upgrading", "error"}
          [] s = "busy"       -> {"online", "offline", "error"}
          [] s = "idle"       -> {"online", "busy", "offline", "draining",
                                  "disabled", "error"}
          [] s = "offline"    -> {"online", "error"}
          [] s = "draining"   -> {"disabled", "offline", "error"}
          [] s = "disabled"   -> {"online"}
          [] s = "upgrading"  -> {"online", "error"}
          [] s = "error"      -> {"online", "disabled"}]

CanAgentTransition(from, to) ==
    from \in AgentStates /\ to \in validAgentTransitions[from]

(* Mutant: the optimistic check is missing.                                 *)
CanMoveUnchecked(a, from, to) == CanAgentTransition(from, to)

(* TransitionAgent succeeds exactly when the edge exists and the row is     *)
(* still in the state the caller read.                                      *)
CanMove(a, from, to) == CanAgentTransition(from, to) /\ agentStatus[a] = from

Fault == faults < MaxFaults /\ faults' = faults + 1

-----------------------------------------------------------------------------
(* Agent rows. *)

Down == [pc |-> "down", agent |-> 0, task |-> 0, outcome |-> "none"]

Start(a) == [pc |-> "idle", agent |-> a, task |-> 0, outcome |-> "none"]

NewId(a) == agentStatus[a] = "none" /\ \A b \in AgentIds :
                                          agentStatus[b] = "none" => a <= b

(* Register always creates a row, then moves it to online; an error of that *)
(* transition is only logged.  Without an answer the process exits.         *)
Register(h) ==
    /\ proc[h].pc = "down"
    /\ \E a \in AgentIds :
        /\ NewId(a)
        /\ fresh' = [fresh EXCEPT ![a] = TRUE]
        /\ \/ /\ agentStatus' = [agentStatus EXCEPT ![a] = "online"]
              /\ proc' = [proc EXCEPT ![h] = Start(a)]
              /\ UNCHANGED faults
           \/ /\ agentStatus' = [agentStatus EXCEPT ![a] = "registered"]
              /\ proc' = [proc EXCEPT ![h] = Start(a)]
              /\ Fault
           \/ /\ agentStatus' = [agentStatus EXCEPT ![a] = "online"]
              /\ UNCHANGED proc
              /\ Fault
    /\ UNCHANGED <<stale, rows, runs>>

(* Mutant: an agent that was offline stays so.                              *)
HeartbeatNoPromotion(h) ==
    /\ proc[h].pc # "down"
    /\ fresh' = [fresh EXCEPT ![proc[h].agent] = TRUE]
    /\ UNCHANGED <<agentStatus, stale, rows, proc, runs, faults>>

(* Heartbeat: last_seen_at is set, and an offline agent is online again.    *)
Heartbeat(h) ==
    LET a == proc[h].agent IN
    /\ proc[h].pc # "down"
    /\ fresh' = [fresh EXCEPT ![a] = TRUE]
    /\ agentStatus' = IF CanMove(a, "offline", "online")
                      THEN [agentStatus EXCEPT ![a] = "online"]
                      ELSE agentStatus
    /\ UNCHANGED <<stale, rows, proc, runs, faults>>

(* 90 s pass without a heartbeat: the process is gone, or its heartbeats    *)
(* get lost.                                                                *)
Silent(a) == \A h \in Hosts : proc[h].agent # a

Age(a) ==
    /\ fresh[a]
    /\ fresh' = [fresh EXCEPT ![a] = FALSE]
    /\ IF Silent(a) THEN UNCHANGED faults ELSE Fault
    /\ UNCHANGED <<agentStatus, stale, rows, proc, runs>>

(* ListStaleOnlineAgents.                                                   *)
StaleOnline ==
    {b \in AgentIds :
        agentStatus[b] \in {"online", "busy", "idle"} /\ ~fresh[b]}

(* CheckStaleAgents: the list is read, then each agent of it is moved from  *)
(* the status it was listed with.                                           *)
ListStale ==
    /\ HealthChecks
    /\ stale = {}
    /\ StaleOnline # {}
    /\ stale' = {[agent |-> a, status |-> agentStatus[a]] : a \in StaleOnline}
    /\ UNCHANGED <<agentStatus, fresh, rows, proc, runs, faults>>

MarkOffline(x) ==
    /\ stale' = stale \ {x}
    /\ agentStatus' = IF CanMove(x.agent, x.status, "offline")
                      THEN [agentStatus EXCEPT ![x.agent] = "offline"]
                      ELSE agentStatus
    /\ UNCHANGED <<fresh, rows, proc, runs, faults>>

(* POST /agents/:id/transition.                                             *)
OperatorTransition(a, to) ==
    /\ CanMove(a, agentStatus[a], to)
    /\ agentStatus' = [agentStatus EXCEPT ![a] = to]
    /\ UNCHANGED <<fresh, stale, rows, proc, runs, faults>>

-----------------------------------------------------------------------------
(* Tasks. *)

(* DispatchShard creates a task for an agent that is online or idle.        *)
Dispatch(t, a) ==
    /\ row[t] = "absent"
    /\ \A u \in Tasks : u < t => row[u] # "absent"
    /\ agentStatus[a] \in {"online", "idle"}
    /\ row' = [row EXCEPT ![t] = "pending"]
    /\ owner' = [owner EXCEPT ![t] = a]
    /\ UNCHANGED <<agents, proc, runs, faults>>

(* Mutant: tasks that wait count as in flight.                              *)
InFlightAll == {t \in Tasks : row[t] \in {"pending", "claimed"}}

InFlight == {t \in Tasks : row[t] = "claimed"}

(* Mutant: the limit may be reached, and then one task more.                *)
OverCapacity == MaxConcurrency > 0 /\ Cardinality(InFlight) > MaxConcurrency

AtCapacity == MaxConcurrency > 0 /\ Cardinality(InFlight) >= MaxConcurrency

(* NextPendingTask: the agent's oldest pending task, unless the host group  *)
(* is at its limit.  The agent's status is not looked at.                   *)
NextPendingTask(a) ==
    {t \in Tasks :
        /\ ~AtCapacity
        /\ owner[t] = a /\ row[t] = "pending"
        /\ \A u \in Tasks : owner[u] = a /\ row[u] = "pending" => t <= u}

Poll(h) ==
    /\ proc[h].pc = "idle"
    /\ \E t \in NextPendingTask(proc[h].agent) :
           proc' = [proc EXCEPT ![h].pc = "polled", ![h].task = t]
    /\ UNCHANGED <<agents, rows, runs, faults>>

Idle(h) == proc' = [proc EXCEPT ![h] = Start(proc[h].agent)]

Execute(h) ==
    /\ proc' = [proc EXCEPT ![h].pc = "working"]
    /\ runs' = [runs EXCEPT ![proc[h].task] = @ + 1]

(* Mutant: the error of the claim is ignored.                               *)
ClaimAnyway(h) ==
    LET t == proc[h].task IN
    /\ proc[h].pc = "polled"
    /\ Execute(h)
    /\ \/ row' = [row EXCEPT ![t] = "claimed"] /\ UNCHANGED faults
       \/ UNCHANGED row /\ Fault
    /\ UNCHANGED <<agents, owner>>

(* ClaimTask and what the pull loop makes of the answer: only a claim that  *)
(* is confirmed is executed.                                                *)
ClaimTask(h) ==
    LET t == proc[h].task IN
    /\ proc[h].pc = "polled"
    /\ \/ /\ row[t] = "pending"
          /\ row' = [row EXCEPT ![t] = "claimed"]
          /\ \/ Execute(h) /\ UNCHANGED faults
             \/ Idle(h) /\ Fault /\ UNCHANGED runs
       \/ /\ row[t] # "pending"
          /\ Idle(h)
          /\ UNCHANGED <<row, runs, faults>>
       \/ /\ Idle(h) /\ Fault
          /\ UNCHANGED <<row, runs>>
    /\ UNCHANGED <<agents, owner>>

(* handleTask comes to an end; HostDeploy is about what it does.            *)
Finish(h, outcome) ==
    /\ proc[h].pc = "working"
    /\ proc' = [proc EXCEPT ![h].pc = "done", ![h].outcome = outcome]
    /\ UNCHANGED <<agents, rows, runs, faults>>

(* ReportTask is sent once.  CompleteTask writes whatever the row says.     *)
ReportTask(h) ==
    LET t == proc[h].task IN
    /\ proc[h].pc = "done"
    /\ Idle(h)
    /\ \/ row' = [row EXCEPT ![t] = proc[h].outcome] /\ UNCHANGED faults
       \/ UNCHANGED row /\ Fault
    /\ UNCHANGED <<agents, owner, runs>>

(* The agent process stops or dies, whatever it is doing.                   *)
Stop(h) ==
    /\ proc[h].pc # "down"
    /\ Fault
    /\ proc' = [proc EXCEPT ![h] = Down]
    /\ UNCHANGED <<agents, rows, runs>>

-----------------------------------------------------------------------------
Init ==
    /\ agentStatus = [a \in AgentIds |-> "none"]
    /\ fresh = [a \in AgentIds |-> FALSE]
    /\ stale = {}
    /\ owner = [t \in Tasks |-> 0]
    /\ row = [t \in Tasks |-> "absent"]
    /\ proc = [h \in Hosts |-> Down]
    /\ runs = [t \in Tasks |-> 0]
    /\ faults = 0

Checker == ListStale \/ \E x \in stale : MarkOffline(x)

Work(h) ==
    \/ Poll(h) \/ ClaimTask(h) \/ ReportTask(h)
    \/ \E o \in {"succeeded", "failed"} : Finish(h, o)

Next ==
    \/ \E h \in Hosts : Register(h) \/ Heartbeat(h) \/ Work(h) \/ Stop(h)
    \/ \E a \in AgentIds :
        \/ Age(a)
        \/ \E to \in Targets : OperatorTransition(a, to)
        \/ \E t \in Tasks : Dispatch(t, a)
    \/ Checker

Spec == Init /\ [][Next]_vars

(* A process that runs keeps sending heartbeats and pulling tasks.  Nothing *)
(* is asked of the health checker: the worker registers a stub for its job, *)
(* and nothing enqueues it.                                                 *)
Fairness == \A h \in Hosts : WF_vars(Heartbeat(h)) /\ WF_vars(Work(h))

FairSpec == Spec /\ Fairness

-----------------------------------------------------------------------------
(* Properties. *)

TypeOK ==
    /\ agentStatus \in [AgentIds -> AgentStates \cup {"none"}]
    /\ fresh \in [AgentIds -> BOOLEAN]
    /\ stale \subseteq [agent : AgentIds, status : {"online", "busy", "idle"}]
    /\ owner \in [Tasks -> AgentIds \cup {0}]
    /\ row \in [Tasks -> {"absent", "pending", "claimed", "succeeded", "failed"}]
    /\ proc \in [Hosts -> [pc : {"down", "idle", "polled", "working", "done"},
                           agent : AgentIds \cup {0}, task : Tasks \cup {0},
                           outcome : {"none", "succeeded", "failed"}]]
    /\ runs \in [Tasks -> Nat]
    /\ faults \in Nat

(* A task is executed at most once, and never without its claim on record:  *)
(* a task that waits was not begun, one with an outcome was executed,       *)
(* whatever requests and responses get lost and whichever processes die     *)
(* (pullLoop, ClaimTask, ReportTask).                                       *)
RunsMatchRows ==
    \A t \in Tasks :
        /\ row[t] \in {"absent", "pending"} => runs[t] = 0
        /\ row[t] = "claimed" => runs[t] <= 1
        /\ row[t] \in {"succeeded", "failed"} => runs[t] = 1

(* The limit of a host group is checked when a task is polled and not when  *)
(* it is claimed.  Agents that polled at the same time overrun it, but      *)
(* never by as many tasks as there are agents, whatever was claimed for     *)
(* nobody because an answer got lost (NextPendingTask, ClaimTask).          *)
OverrunIsBounded ==
    MaxConcurrency > 0 =>
        Cardinality(InFlight) < MaxConcurrency + Cardinality(Hosts)

(* What an operator has taken out of service is not put back, and not       *)
(* called offline, by a health check or heartbeat that read an older status *)
(* (CheckStaleAgents, TransitionAgent's optimistic check).                  *)
OperatorWins ==
    [][\A a \in AgentIds :
          agentStatus[a] \in {"draining", "disabled", "upgrading"}
             => agentStatus'[a] \in {agentStatus[a]} \cup Targets]_vars

(* The rows implement AgentTask, as the release side assumes.               *)
AgentTasks == INSTANCE AgentTask WITH Ids <- Tasks

TasksOnce == AgentTasks!Spec

(* A process that keeps running is not left offline: its next heartbeat     *)
(* brings its agent back, also when the health check has used a stale list  *)
(* (Heartbeat).                                                             *)
OfflineRecovers ==
    \A h \in Hosts, a \in AgentIds :
        (proc[h].agent = a /\ agentStatus[a] = "offline")
            ~> (proc[h].agent # a \/ agentStatus[a] # "offline")

(* Unless a call is lost or a process dies every task of the host group     *)
(* gets its outcome: the limit delays tasks and starves none                *)
(* (NextPendingTask).                                                       *)
EveryTaskEnds ==
    \A t \in Tasks :
        row[t] = "pending" ~> (row[t] \in {"succeeded", "failed"} \/ faults > 0)

=============================================================================
