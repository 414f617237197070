# Verification of the Domain Lifecycle & Deployment Platform

This directory holds TLA+ models of the platform, the TLC
configurations that check them on small instances, and TLAPS proofs of the
properties that matter most. `PROJECT.json` maps every definition to the lines
it models and lists runs, mutants, findings, hazards and theorems.

    tlc -workers 2 -config ReleaseChain.cfg MCRelease     # one run
    tlapm ReleaseProofs.tla                               # one proof module

## 1. The system

The platform keeps an inventory of domains, deploys HTML and nginx
configuration to hosts through pull agents, and watches domains from outside.
Four kinds of processes share one PostgreSQL database and one Redis:

| Process | Code | Role |
|---|---|---|
| server | `cmd/server`, `api/` | HTTP API for operators, agents and probe nodes |
| worker | `cmd/worker` | 75 goroutines running asynq jobs; scheduler of periodic jobs |
| agent | `cmd/agent` | one per host: registers, heartbeats, pulls and executes tasks |
| probe node | `cmd/probe` | measures domains from a vantage point |

### 1.1 Components, their state and their operations

| Component | State | Operations | What makes it correct |
|---|---|---|---|
| Release service (`internal/release`) | `releases`, `release_shards`, `domain_tasks`, `rollback_records` | Create, Plan, MarkReady, DispatchShard, Finalize, Rollback, Pause, Resume, Cancel | shards in order, verdict agrees with tasks, terminal states final, every release ends |
| Artifact pipeline (`internal/artifact`) | `artifacts`, object store | Build, callback to MarkReady | a release that is ready has its artifact |
| Agent control plane (`internal/agent`, `store/postgres/agent.go`) | `agents`, `agent_tasks`, `agent_heartbeats` | Register, Heartbeat, PullNextTask, ClaimTask, ReportTask, CheckStaleAgents, Transition | a task is executed once, the limit is overrun by few, operators win |
| Agent process (`cmd/agent`) | files, snapshots, running nginx configuration | download, verify, write, test, snapshot, reload, check, roll back | only genuine content is served, success means complete |
| Domain lifecycle (`internal/lifecycle`) | `domains`, `domain_lifecycle_history` | Register, Transition, UpdateAsset, transfers | the history is a path ending at the state |
| DNS records and bindings (`internal/dnsrecord`) | DNS columns of `domains`, `domain_dns_records` | bind, nameserver check, list, sync, create, update, delete and batch delete of records | a right delegation is recognised, a lasting mismatch alerts, a row describes a record that exists |
| DNS providers, templates, drift (`internal/dnsprovider`, `dnstemplate`, `dnsquery`) | `dns_providers`, `dns_record_templates`, Redis keys | CRUD, apply a template, compare a zone with DNS | a drift alerts once an hour |
| DNS provider clients (`pkg/provider/dns`) | zones at Cloudflare, Alidns, DNSPod, Huawei | list page by page, create, update, delete | a listing is complete, errors are told apart |
| Probing (`internal/probe`) | `probe_tasks`, `probe_results` | schedule, run, aggregate | failing domains alert, a task runs once |
| GFW detection (`internal/gfw`, `cmd/probe`) | probe nodes, assignments, measurements, verdicts, blocking status of `domains` | register, heartbeat, assign, measure, analyse, block and unblock | the verdict names the layer that is blocked; one node or one analysis blocks nothing |
| Alerts and notifications (`internal/alert`, `pkg/notify`) | `alert_events`, rules, channels, Redis keys | fire, deduplicate, resolve, dispatch | no alert repeated without end, channels are told once |
| Maintenance windows, status pages | `maintenance_windows`, `status_pages` | schedule, suppress, render | suppression ends with its window |
| CDN (`internal/cdn`, `internal/cdndomain`, `pkg/provider/cdn`) | `cdn_providers`, `cdn_accounts`, `domain_cdn_bindings`, acceleration domains at the vendors | CRUD, bind, unbind, refresh | database and vendor agree; a request repeated succeeds |
| Import (`internal/importer`) | `domain_import_jobs`, `domains` | upload, run line by line, retry | every line is imported, skipped or failed |
| Registrars (`internal/registrar`, `pkg/provider/registrar`) | `registrars`, `registrar_accounts`, dates of `domains` | CRUD, sync of an account | dates are those of the registrar, no domain is missed |
| Expiry (`internal/domain`), SSL, cost | `expiry_status`, certificates, cost columns | periodic checks | status follows the dates, a change is told |
| Projects, templates, tags, users, permissions | their tables | CRUD | - |
| Web interface (`web/`) | none | - | - |

### 1.2 How they interact

An operator's request writes a row and enqueues a job; the job moves the row
on and enqueues the next job (release:plan -> artifact:build ->
release:dispatch_shard -> release:finalize -> the next shard). Rows and queue
are two stores without a common transaction: a job can be lost while its row
waits, or run again over what its first run left. Agents and the release
service meet only in `agent_tasks`; `AgentTask.tla` states what both rely on.
Periodic jobs (nameserver check, drift, probes) are enqueued by the scheduler
and act on what they listed earlier. Requests that concern DNS, CDN and
registrars call a vendor first and write the row afterwards, without a lock.

### 1.3 What is hard

- Jobs, operators and agents interleave, and most handlers read a status,
  work, and move the row later. One idiom protects the state machines: lock
  the row, compare with the status read, update. What has no such check is
  what the models look at: statistics, transfers, the concurrency limit, the
  delegation status.
- asynq runs a job again after an error or a crash, up to its MaxRetry, and
  delivers at least once.
- The agent protocol has no acknowledgements beyond HTTP: a claim or a report
  can be lost either way.
- Files on a host are not written atomically.
- A vendor's listing comes in pages and changes while it is read; a call that
  timed out may have taken effect.
- The confidence record of GFW detection is loaded, changed and saved in three
  steps by requests that share it.
- Liveness rests on chains of jobs that re-enqueue themselves, and on periodic
  jobs that list what is left to do.

`PROJECT.json` "hazards" lists these places one by one.

## 2. Modules

| Module | Models | Composes |
|---|---|---|
| `AgentTask` | the promise of the `agent_tasks` table: inserted, claimed and reported once | abstract specification |
| `Release` | one release with its shards, tasks, rollback records and asynq jobs | refines `AgentTask` |
| `AgentFleet` | the agents of one host group, on both ends of the protocol | refines `AgentTask` |
| `HostDeploy` | what one agent does to its host, task after task | - |
| `DomainRow` | one `domains` row: lifecycle, transfer, provider, nameserver check | - |
| `AlertEvents` | the tables of alerts and notification rules, as operators | used by `Monitoring` and `Gfw` |
| `Monitoring` | probes of one domain, the alerts they raise, the messages about them | extends `AlertEvents` |
| `Gfw` | probe nodes, their measurements of one domain, the verdict, its alert | extends `AlertEvents` |
| `DnsClients` | the four DNS clients as operators: paging, conversions, errors | used by `DnsRecords` |
| `DnsRecords` | rows, zones, providers, templates and drift checks | extends `DnsClients` |
| `CdnClients` | three CDN clients as short programs of API calls | used by `CdnBindings` |
| `CdnBindings` | the bindings of one domain, accounts and providers, the vendors | extends `CdnClients` |
| `DomainImport` | import jobs and every other writer of `domains` | used by `Registrars` |
| `RegistrarClients` | three registrar clients as operators: paging, errors | used by `Registrars` |
| `Registrars` | registrars, accounts, account sync, expiry check, on the table the import fills | extends both |
| `MC...` | parameter values for TLC | |
| `AgentProofs` | theorems about agents | extends `AgentFleet` and `HostDeploy` |
| `ReleaseProofs`, `DomainProofs`, `MonitorProofs`, `GfwProofs`, `DnsProofs`, `CdnProofs`, `RegistrarProofs` | theorems | each extends its component |

### 2.1 Release

`status`, `shards`, `domainTasks`, `tasks`, the counters and `rollbacks` are
the columns of the same names; `jobs` holds each asynq job with its payload, its
attempt, a program counter, and what it has read (`seen`). A handler is cut
where another actor can see or change what it uses: after each transition and
after each read of status or statistics that is used later. So Finalize is
FinalizeRead, FinalizeStats, ShardClose, ShardFail or ShardNext; Rollback is
RequestRollback and BeginRollback (the record is written before the
transition). `Crash` ends a run at any cut and lets asynq retry it; `LoseQueue`
is a Redis that lost its data; an enqueue may fail, which the code logs.

Abstractions:

- Store errors that the code discards (`_ =`) are not modelled one by one, nor
  are timestamps.
- The branch of Finalize for shard_id 0 (`service.go:828-860`) has no producer.
- Create never sets `host_group_id` of a scope row (`service.go:192-197`), so
  today every release has one shard. The planner and the schema support more;
  `GroupOf` stands for that column and the runs use both.
- What Create checks of templates leaves no state behind. Which of the domains
  in scope are active when Plan reads them is a choice of `PlanRows`.
- Whether the release can be built is a choice of `BuildArtifact`, made anew at
  each attempt (section 4 lists the reasons for a failure).
- DryRun and the reload batching of `dispatcher.go` read only.

### 2.2 AgentFleet and AgentTask

`proc` is the agent process: what it polled, claims or executes. Every call is
one action with the outcomes done, lost before it arrived, and done with the
response lost. `fresh` abstracts `last_seen_at` to "less than 90 s ago". The
health checker lists first and moves afterwards, one agent at a time, from the
status it listed; in the program its job is a stub, so only the safety
properties are about it, and `HealthChecks` says whether it is there. A restarted
process registers as a new agent, as `cmd/agent/main.go` does. A heartbeat's read and transition are one step, and so
are the dispatcher's read of online agents and its insert; the Release module
cuts the latter.

### 2.3 HostDeploy

`disk` says which release each file comes from, `previous` what each snapshot
holds, `loaded` the configuration nginx runs. A copy may break off between
files or inside one (`Torn`); a download may be altered (`Corrupt`). Files of a
manifest are copied in any order. `defer` merges the two reasons why a task does
not reload.

### 2.4 DomainRow

A request is a read and a write with its read in between (`requests`); `checks`
are the domain:ns_check tasks with the nameservers they carry. `delegated`,
the clock and the Redis TTLs belong to the environment. Nameserver lists are
abstracted to the provider they belong to: two lists match exactly when they
are of the same provider. UpdateAsset and Bind also write back the other asset
columns from their read; those are not modelled. The retries of a check are
abstracted to "once more, or archived". `ns_actual` and the time stamps are left
out.

### 2.5 Monitoring and AlertEvents

The chain probe:schedule_all -> probe:run_lN -> alert:fire -> notify:send, all
of it on goroutines of the worker (`worker`) that share the queue (`jobs`) and
the tables `probe_tasks` (`tasks`) and `alert_events` (`alerts`, with what the
channels received in `delivered` and the rows of `notification_history`). A
handler is cut at each call of the database, the queue, the site or a channel:
HandleL1.run is ClaimTask, CheckSite, FireProbeAlert, CompleteTask; Engine.Fire
is DedupCheck, InsertAlert, EnqueueNotify for each channel, MarkNotified;
HandleNotifySend is DispatchByChannelID, Send, RecordHistory. `Fault` lets one
call fail, `Crash` loses a goroutine; both give the job back to asynq as far as
the handler returns an error and its MaxRetry allows. The site answers with one
of six `Answers`, which the three checkers tell apart differently (`Check`).

Abstractions:

- One domain, so a policy is its tier and a dedup key is the tier of its probe.
- A task that no job and no goroutine names is never read again, whatever its
  status (`ListPendingTasks` has no caller), so its id is used for the next row.
- Time is `old`: whether an alert left the dedup window of one hour.
- The results in `probe_results` feed statistics only; whether saving one fails
  makes no difference to the run. Texts and formats of messages are left out.
- `runs`, `delivered` and `by` are history: they record what happened for the
  properties.

### 2.6 Gfw

`world` is what the site and the firewall do, and `Troubles` what one check may
meet that is nobody's doing: the resolver fails or answers in less than 5 ms, a
connection, a handshake or a request fails. `CheckDNS` to `CheckHTTP` say what a
node sees of both, `checkDNS` to `checkHTTP` and `Classify` are the decision
tree of the analyzer on two such measurements; `VerdictsAreRight` compares the
two ends. A node registers, fetches its assignment, measures and submits a
batch that may be lost. A request for the latest verdict runs the chain of
AnalyzeAndStore: fetch the newest pair, load and save the confidence record (two
steps, because Redis is read and written without a transaction), insert the
verdict, write the blocking columns, resolve or fire the alert and enqueue a
message for each channel.

Abstractions: one domain; an address is genuine, bogus, fake or of a CDN edge;
confidence is in hundredths; the two hours of the Redis key are
`ConfidenceExpires`. An answer forged in the network is an address (`poison`,
`bogon`), and how fast it came is a trouble, since the code looks at the time
only; `mute` is a firewall that drops the query. `found` and the `trouble` of a
measurement are history: the analyses that found blocking and were counted, and
what the check met. Heartbeats and `MarkStaleOffline` are left out, because
nothing calls the latter and no decision reads the status of a node.

### 2.7 DnsClients and DnsRecords

`zones` are the items at the providers, `rows` the table `domain_dns_records`.
A request holds what it has read (`request[q]`: the client, the page it is on,
the records it got, the ids it has dealt with) and is cut before each API call
and before its write. A page is asked for while others change the zone. Each
client has its own way of paging (position, marker, one page only), of writing a
content (plain, quoted, with a trailing dot) and of telling errors apart; a name
is a host, in full or without the zone, and these conversions are the operators
of `DnsClients`. A drift check lists the zone, resolves the names, compares, and
sets or clears its key in Redis. Its message goes to two channels
(`notify.NewMulti`, `cmd/worker/main.go:77`), so sending may fail with nothing
delivered or with one of them served (`SendFails`). `deleted`, `renames`,
`disturbed` and `alerts` are history: the ids that were deleted at each provider,
how often an item got another name, the ids that someone touched behind a row's
back, and the alerts sent in this hour. A listing of one name, as the drift check
asks for, loses a record that is renamed away while it pages, so
`NothingMissed` says nothing of a drift listing during which that happened.

Abstractions: one zone; values are symbols with a written form; TTL, proxied
flag and signing pass through.

### 2.8 CdnClients and CdnBindings

A call of a client is a sequence of API calls (stop before delete, look up after
add); `cdn` is the acceleration domain at each vendor with its owner and phase,
and `Settle` the vendor finishing what it began. Bind, unbind and refresh are cut
at every API call and statement; the administration of providers and accounts
runs beside them. `answer` is the last good answer as long as nothing else
happened, `goal` what the operator keeps asking for. Of the rows of one account
only the newest one is kept: older ones are soft-deleted and read by nothing.

### 2.9 DomainImport, RegistrarClients, Registrars

A file is a sequence of lines; the worker takes one line per step, stores its
progress every `ProgressEvery` lines, and starts over on a retry. `domains` is
shared with everyone who registers, edits or retires a domain. The lines a worker
has left are a set of line numbers, of which it takes the first. A sync walks the
pages of a registrar (`held`) and then updates row by row; a page is the names
whose place in the list is in its range, and what is left to write a set of
names with their cursor, taken in the order of the list. The expiry check
lists what `ListWithFilter` returns, updates row by row, and then sends its
notices. Days are numbers; 0 is no date.

## 3. Runs

| Run | Expect | Question |
|---|---|---|
| ReleaseChain | pass | two shards, two agents, all operator requests: order of shards, verdicts |
| ReleaseFaults | pass | one shard with two faults: artifact link, records, terminal states, tasks inserted once |
| ReleaseLiveness | pass | every rollback ends, and every release ends or cannot be built, although agents may never answer |
| Fleet | pass | lost calls, restarts, an operator, health checks: a task runs once, the limit is overrun by less than the number of agents and starves no task, operators win, wrongly offline agents return |
| HostPipeline | pass | altered downloads, refused configurations, cut copies, crashes |
| DomainRows | pass | concurrent requests and nameserver checks on one domain |
| MonitorAlerts | pass | from a probe to a message on two goroutines: a task runs once, what the dedup window holds back, a site that stays down is alerted |
| GfwVerdicts | pass | two nodes inside, one outside, two requests, a DNS answer that is missing or too fast: verdicts are right, blocking needs three analyses of two nodes, reports rest on stored verdicts |
| DnsRecords | pass | four providers, overlapping operations, a fault, others at the console: complete listings, true rows, one alert an hour unless Redis or one channel fails |
| DnsSync | violation | a sync deletes the rows of records that still exist |
| CdnBindings | pass | three vendors, overlapping requests, lost calls, a dead server: answers are true, repeated requests succeed |
| Registrars | pass | import, sync and expiry check on the same rows: no line lost, dates right, no domain missed, expiry told, jobs end |

The passing runs say `CHECK_DEADLOCK FALSE` because these systems come to rest:
a release is terminal, all tasks are reported, a domain is retired, nobody asks
for anything. MonitorAlerts checks deadlock: the scheduler never ends.

### 3.1 Bounds

- `JobIds`: jobs that exist at a time. ReleaseChain never fills its four slots,
  so the bound cuts nothing there; with faults, three slots allow a job, its
  duplicate and a rollback at once.
- `MaxFaults`: 2 in ReleaseFaults, so that a fault can hit the recovery from
  another one; 1 in the runs that also check liveness, and in DnsRecords.
- `MaxFinalizeRetries`: 1 or 2 instead of 360. The code compares a counter with
  it; "poll again" and "give up" both happen.
- `MaxRollbacks`: 2 where a second rollback meets the rows of the first one.
- `AgentIds`: 2 ids for 2 hosts: both hosts register, or one of them registers
  again after a restart. Three tasks and a limit of 1, so that the limit is met,
  overrun by one, and waited for. Of the operator's `Targets` the run has
  draining, from which an agent may be left where it is; `OperatorPrevails` is
  proved for all of them.
- `MaxTasks` in HostDeploy: 4, which is two deploys, and two more tasks that
  deploy or roll back what these left.
- `Requests`, `Checks`, `MaxMoves` in DomainRow: two requests race; a check
  races with requests and with the clock; five moves reach every state and a
  re-enabled one. `Traffic` says which kinds of requests arrive in one
  behaviour: the lifecycle, the transfer and the provider are disjoint columns,
  so the run interleaves each kind with itself, and the proofs cover all
  kinds together.
- `MaxEvents` in Monitoring: 1, a fault, a lost goroutine, a change of the
  site, of a policy or of a channel, an alert resolved by hand, or an hour. It
  may strike at every point of every handler; `TaskIds` and `Workers` are 2, so that
  two alerts of one key race. Two events together are beyond TLC here for the
  liveness properties; the proofs have no such bound. Goroutines are
  interchangeable, so the first idle one takes a job, and a scheduling run
  starts when the one before it is done.
- Gfw: two nodes inside (interchangeable, symmetry) and one outside, two
  requests, three measurements (one of each node, or several of one), one
  event; "blocked" is reached. The event may be a change of the world between
  two measurements, or one check that meets a trouble of the resolver; the other
  kinds of trouble are left to `VerdictsRight`. `SomeWorlds` has
  a site behind a CDN and one without, which the firewall leaves alone or
  interferes with in the DNS, TLS or HTTP layer.
- DnsRecords: `PageSize` 1 and `CloudflarePage` 2, so that three items make a
  second page or an incomplete one; two provider rows, of any of the four
  types; two requests at a time, three in all, one fault.
- CdnBindings: two accounts that may share a login, two providers, two
  requests at a time, `MaxUpsets` 2: requests other than the goal, failed calls,
  deaths of the server and changes at the vendor. Requests for the goal are not
  bounded.
- Registrars: three names, two projects, two accounts, one job of at most three
  lines (`MaxRows` 3, progress after 2, one retry as in the code), three events,
  the days 0, 10, 93 and 100 around the thresholds of the expiry status, page
  size 1, and `ListLimit` 2 instead of 200 so that the limit is met.

### 3.2 Fairness

- Release: weak fairness of every job. The worker has more goroutines than the
  model has jobs and asynq takes every queued job. Nothing is asked of agents
  or operators.
- AgentFleet: agent processes that are up keep heartbeating and polling (their
  loops do nothing else). Nothing is asked of the health checker: the worker
  registers a stub for its job (`cmd/worker/main.go:187`) and nothing enqueues it.
- DomainRow: the scheduler enqueues ns_check_all every hour, the worker runs
  every check, requests end, time passes.
- Monitoring: the scheduler ticks every five minutes, a goroutine that has a job
  goes on, and no kind of job is starved: queues are served by weight, not
  strictly (`internal/bootstrap/asynq.go:80`). That last one is strong fairness,
  because the goroutines that could take a job are busy now and then.

- CdnBindings: a request goes on (every API call has a timeout), the operator
  repeats a request that is not answered well, and a vendor finishes what it
  began.
- Registrars: the server and the worker go on with an import; asynq delivers a
  task until its retries are used up.

### 3.3 Mutants

Every property of a passing run has a mutant: a definition in the form a
plausible bug would give it (a missing optimistic check, a wrong index, a
verdict that ignores tasks still running, a claim without its status guard, a
list that forgets mismatches). TLC finds the property violated under each.

## 4. What the violation run shows

**DnsSync.** `internal/dnsrecord/sync.go:52` promises that "Records that no longer
exist on the provider side are soft-deleted locally." The upsert of each record
names a conflict target, (domain_id, provider_record_id), that no unique index
of the migrations covers, so the statement fails each time and the failure is
only logged. The set of ids to keep stays empty, and the prune deletes all rows
of the domain while their records are still at the provider.

Disagreements met while modelling that have no run of their own. Releases,
agents, hosts:

- A finalize job that meets a paused release ends and Resume only changes the
  status, so a resumed release may stay executing with no job
  (`service.go:663`, `README.md:300`).
- The verdict of a rollback counts all agent tasks of the release; the failed
  deploy task that caused the rollback makes it fail (`service.go:676`,
  `PHASE2_TASKLIST.md:328`).
- `max_concurrency` is checked at the poll, not at the claim: two agents that
  poll together exceed it (`agent.go:325`, `PHASE2_TASKLIST.md:571`).
- The snapshot is taken after the new files are written, so a rollback brings
  back the files it should undo (`handler.go:94` and `117`, `README.md:375`).

- Without an online agent no agent task is created, Finalize finds nothing
  failed and the release succeeds, although the comment at `service.go:513` says
  that agent tasks "will be created but won't be claimed until agents come
  online".
- A release whose jobs are lost with Redis never goes on, although
  `docs/ARCHITECTURE.md:715` says that releases resume from the database.
- A dispatch job that read "executing" inserts deploy tasks after a rollback
  has begun (`service.go:463`); agents execute them.
- `NextPendingTask` does not look at the agent's status, so a draining agent
  goes on receiving tasks (`agent.go:339`, `PHASE2_TASKLIST.md:32`).
- A second rollback of a release may end it as rolled_back with a rollback task
  pending (`rollback.go:171`, `PHASE2_TASKLIST.md:376`; steps in section 5).
- A release that cannot be built stays in planning for ever: its job is archived
  after its retries, and nothing fails the release. Its template version may be
  unpublished (`builder.go:86`), none of its domains active (`:90`), a template
  may not parse or render (`:112-118`), a row may be gone
  (`artifact/handler.go:63`, `:78`), or another artifact has the same content:
  `artifact_id` is the checksum and UNIQUE (`builder.go:199`,
  `000001_init.up.sql:314`), so a second release that changes nothing is
  refused. `Settles` states what holds: a release ends, or is in planning
  without a job.
- "An online agent that stops heartbeating is transitioned to `offline` after 90s"
  (`docs/PHASE1_TASKLIST.md:792`): the job is a stub (`cmd/worker/main.go:187`)
  that nothing enqueues, so in this program an agent that falls silent stays
  online and tasks are dispatched to it. No property says otherwise.
- Agent tasks have no timeout on the server (`PHASE2_TASKLIST.md:526`).
- The comment at `agent/service.go:115` says "next heartbeat will promote", but
  Heartbeat promotes only offline agents: an agent whose first transition
  failed stays `registered`.
- Files are copied in place, not swapped (`handler.go:221`,
  `ARCHITECTURE.md:455`).
- deploy_html tasks skip the nginx phases, so a batch that ends with one does
  not reload (`service.go:549`, `PHASE2_TASKLIST.md:573`).

Domains, probes, alerts:

- The first mismatch of a domain older than a day alerts at once, and a domain
  whose lookups fail never alerts, although the comment says "If mismatch
  persists for > 24h" (`ns_task.go:123`).
- UpdateAsset, the bulk update and the import set a provider without touching
  `ns_delegation_status`: such a domain stays `unset` and is never checked, or
  stays `verified` for the provider it had. A crash or a race between the two
  statements of Bind and Unbind leaves the same. `VerifiedInTheEnd` therefore
  allows `unset`.
- "1 alert per hour max" (`ARCHITECTURE.md:374`) is exceeded by goroutines that
  pass the dedup check together; `DedupPerWorker` states the bound that holds.
- An alert:fire task that dies after its insert is suppressed by its own row when
  it is retried, so its messages are never enqueued (`engine.go:40-55`).
- notify:send has MaxRetry(3), but its handler returns nil after a failed send
  (`alert/task.go:104`): no message is tried again.
- "Called when a probe or drift check recovers" (`engine.go:112`): no probe calls
  Resolve, so a probe alert stays open until an operator resolves it.
- A database error while claiming a probe task is taken for "already claimed"
  and ends the job without a retry (`probe/task.go:58-63`); the interval and the
  target filter of a policy are stored and never read.
- Completing and cancelling the same transfer at once: the later write wins,
  with four columns that agree (`TransferAgrees`).


GFW detection:

- A verdict is computed only when the latest one is asked for and there is none
  yet, although `verdict_service.go:22` speaks of each batch of measurements.
- One check of a probe that met trouble is called blocking: a lookup that failed or
  timed out is recorded (`checker.go:140-153`), and an answer in less than 5 ms
  is flagged as injected whoever sent it (`checker.go:173-175`, `bogon.go:74`);
  either makes the verdict "dns" (`analyzer.go:228`) although the firewall
  leaves the site alone. `VerdictsAreRight` promises no false alarm only for a
  probe that met no trouble, and names the layer only where the control met none
  but a fast answer.
- The record counts analyses, not measurements: requests that meet compare the
  same stored pair, and each counts it (`verdict_service.go:57-90`). Three
  analyses of two measurements, of two nodes, mark a domain blocked, although
  the counter is called "consecutive blocking measurements" (`confidence.go:20`)
  and `docs/PHASE_D_TASKLIST.md:37` says "confirmed by 3 consecutive
  measurements from 2 CN nodes". `BlockedIsCorroborated` states what holds.
- Without a control the confidence is not held at 0.30 (`analyzer.go:120`), and a
  site that is down for probe and control alike is judged http-failure instead
  of indeterminate (`docs/PHASE_D_TASKLIST.md`, "Control HTTP failed").
- A resolve and a fire that race leave an open alert on a clear domain; a reset
  of the record between another request's load and save is lost. Neither breaks
  `BlockedIsCorroborated`: lost updates only lower the count of the record.
- ActivelyBlockedDomains filters before DISTINCT ON, so a domain whose newest
  verdict is clear may still be listed (`gfw_verdict.go`).

DNS records:

- BatchDelete soft-deletes the rows it is given although they may belong to
  another domain, and stops at the first error of the provider although the
  comment says that it goes on; UpdateRecord does not store type and name; a
  row whose record is gone can never be deleted.
- Alidns loses the form of TXT and SRV values, Cloudflare that of SRV and CAA;
  Alidns' DomainRecordDuplicate becomes "not found"; Cloudflare's listing is one
  page of 500; listings by position miss a record when another one is deleted
  meanwhile. `NothingMissed` and `RowsAreTrue` state what holds in spite of these.
- A sync that lists before a concurrent Create prunes the new row.
- The drift check reports the SOA of an apex domain as extra each time, and
  never finds an SRV record equal.
- "at most one alert per domain per hour (Critical Rule #8)" (`dnsquery/task.go:103`):
  the notifier sends to Telegram and a webhook and returns an error when one of
  them fails (`cmd/worker/main.go:77`, `notify.go:49-57`); the key is cleared
  (`task.go:186-196`), and the next check alerts again within the hour on the
  channel that had delivered. `OneAlertPerHour` excepts this and errors of Redis.
- A worker that dies between setting the key and sending loses the alert for
  an hour; clearing the key may remove another worker's.
- `KnownProviderTypes` lacks huaweidns; deleting a provider counts its domains
  and then deletes, and a domain bound in between keeps a dead provider.

CDN:

- "prevents phantom bindings" (`cdndomain/service.go:5-7`): overlapping unbinds,
  two accounts with the same credentials, and a Bind that races an Unbind
  (AlreadyExists, then the domain is deleted) leave a live row without a domain.
- SoftDeleteAccount ignores live bindings, UpdateProvider may change the type
  under them, UpdateAccount without credentials stores `{}`, a refresh that was
  overtaken writes an old status.
- `allowedProviderTypes` has "cloudflare", the registry "cloudflare_cdn".

Import, registrars, expiry:

- CheckAllExpiry "iterates every non-retired domain with an expiry_date"
  (`expiry.go:109`) with a limit of 10000, which ListWithFilter clamps to 200
  (`domain.go:441-443`). `ExpiryIsTold` speaks of the rows it returns.
- domain:expiry_check ("daily", `tasks/types.go:32`), ssl:check_expiry and
  ssl:check_all_active are enqueued by nothing; an expiry date set to NULL
  keeps the old status; a notice that failed is not repeated; renewed domains
  are listed in the "expired" notice; `grace_end_date` is never set, so "grace" is
  unreachable; certificates are upserted on columns without a unique index.
- "not safe to retry from scratch", but the task has MaxRetry(1): a retried job
  reports its own rows as skipped. A job whose retries are used up, or whose
  last write failed, stays "processing"; one whose enqueue was answered late is
  marked failed and then runs. `registrar_account_id` of a job is never applied.
- A registrar account updated from an old read restores old credentials; an
  account deleted while an import or a registration uses it leaves rows that
  name it; page numbers miss a domain when another one leaves meanwhile;
  Namecheap's rate limit is not recognised.

## 5. Proofs

TLC checks a small instance; the theorems below hold for every value of the
constants that satisfies the named ASSUMEs (ids are numbers, sets that are
counted are finite). No property is assumed of code outside the model.

| Theorem | States | Argument |
|---|---|---|
| `TypeCorrect` | `Spec => []TypeOK` (Release) | inductive as it stands; one lemma per group of actions. Counting needs finiteness of domains and agents |
| `TerminalForever` | `TerminalIsFinal` | every change of status passes `CanMove`, whose graph has no edge out of a terminal state |
| `ArtifactLinked` | `ReleaseHasArtifact` | by `ArtifactInv`: a job past linking, a status past planning or a deploy task each imply the link. Needed because the link and the transition are two steps and the job between them may be retried |
| `ShardsInOrder` | `faults = 0 => EarlierShardsClean` | by `OrderInv`: without faults at most one job of plan, build, dispatch, finalize exists, no deploy task is in a later shard than the one it names, and those of earlier shards have succeeded; a finalize job past a clean verdict knows the same of its own shard. Needed because a verdict is taken from statistics that agents change after they were read |
| `SuccessIsCounted` | `faults = 0 => SucceededIsCounted` | by `OrderInv` and `CountInv`: while the release goes forward the counters are those of the shards before the one job of the chain, and the shards after it are still pending. Cardinalities of the deploy tasks before, in and up to a shard add up |
| `FirstRollbackUndoes` | `faults = 0 /\ OneRequest => RolledBackIsUndone` | by `UndoInv`: a request and what it becomes are the only job of a rollback; no rollback task exists before ExecuteRollback, some do after it, and clean statistics it carries mean that all of them have succeeded. That ExecuteRollback inserts one needs a first shard with a least domain (`RepresentativeExists`) |
| `RecordsTrue` | `RecordIsTrue` | by `RecordInv`: a job about to mark a record as succeeded finds the release rolled back, which is terminal |
| `TasksImplemented` | `Spec => AgentTasks!Spec` | every step inserts absent rows, claims or reports one, or stutters on `tasks` |
| `FleetTypeCorrect` | `Spec => []TypeOK` (AgentFleet) | part of `Inv` |
| `RunsOnce` | `RunsMatchRows` | by `FleetInv`: a process executes only a task that its row shows as claimed by it, and no two processes share an agent id |
| `OverrunBounded` | `OverrunIsBounded` (AgentFleet) | by `OverrunInv`: the claimed tasks and the processes that have polled are together fewer than limit and agents. Needed because every process that polled may still claim, whatever was claimed meanwhile |
| `FleetImplementsTasks` | `Spec => AgentTasks!Spec` | from `Inv`, step by step |
| `HostTypeCorrect` | `HostSpec => []HostTypeOK` | part of `HostInv` |
| `ServedIsGenuine` | `ServesGenuine` (HostDeploy) | by `HostInv`: what a task has downloaded was verified before it is copied, and a snapshot or a loaded configuration is made of files that were; torn files are accounted for until they are written again |
| `SuccessComplete` | `SuccessIsComplete` (HostDeploy) | by `HostInv`: what is left to copy shrinks to nothing before the task may report success |
| `DomainTypeCorrect` | `Spec => []TypeOK` (DomainRow) | inductive as it stands |
| `HistoryPath` | `HistoryIsPath` | by `DomainInv`: a waiting transition has read a legal edge, no row means no history; appending a row that starts where the history ends extends the path |
| `TransferConsistent` | `TransferAgrees` | by `DomainInv`: a waiting completion carries the columns of a pending transfer |
| `TypeCorrect` (MonitorProofs) | `Spec => []TypeOK` (Monitoring) | inductive as it stands, because `TypeOK` includes that jobs and goroutines name rows that exist; rows are only appended |
| `ProbedAtMostOnce` | `ProbedOnce` | by `ClaimInv`: goroutines between claim and completion have different tasks, all of them running, and a task before its check was never run. Needed because the run is counted two steps after the guard, and ids are used again |
| `DedupByAuthor` | `DedupPerWorker` | by `DedupInv`: between dedup check and insert, no alert that would suppress was written by the goroutine itself. Needed because others insert in between; the key must not change meanwhile (`KeyStays`) |
| `BlockedCorroborated` | `BlockedIsCorroborated` | by `GfwInv`: the record in Redis, every copy a request has loaded, and every confidence derived from one are backed by analyses that were counted, and analyses are never taken back. Needed because load and save of concurrent requests overwrite each other |
| `ReportsRestOnVerdicts` | `ReportsHaveVerdict` | by `GfwInv`: a request past the insert carries a verdict of the history, and one that fires has a status other than none; marking alerts keeps their severities |
| `OperatorPrevails` | `OperatorWins` (AgentFleet) | step by step: the health checker and the heartbeat move an agent only from the status they read, and none of the statuses they read is one that an operator gives |
| `ToldAtMostOnce` | `ToldOnce` (Monitoring) | by `ToldInv`: of each alert and channel there is one job or one goroutine that holds the message, never both, and as long as it is not sent the deliveries are paid for by faults. Needed because a message passes from the loop of Fire to the queue, to a goroutine and, after a fault, back to the queue |
| `VerdictsRight` | `VerdictsAreRight` (Gfw) | by `SoundInv`: each measurement, taken or stored, is what its node sees of a world that was real then and of the trouble it met, no two have one time stamp, and a verdict is what `Classify` says of such a pair; then case by case over what a firewall can do and what a check can meet |
| `AlertsOncePerHour` | `OneAlertPerHour` (DnsRecords) | by `KeyInv`: unless Redis failed, or one channel did after the other had delivered, a request that is about to send is the only one of its domain, holds the key, and no alert was sent since the key was set. Needed because several checks find the same drift and a key may be cleared or expire between them |
| `RowsStayTrue` | `RowsAreTrue` (DnsRecords) | by `DnsInv` (an id is given once; a request knows the client it made; a call that awaits its write is either true of its record or the record was disturbed) and `TrueInv`, its consequence for rows: a step that changes a record disturbs it, or awaits the write of its rows |
| `ListingsMissNothing` | `NothingMissed` (DnsRecords) | by `DnsInv` and `ListInv`: what a listing has got so far are the records up to its cursor. For pages by position the cursor is a rank, and ranks only move when an item is deleted, since new ids are larger; for the marker it is the largest id seen |
| `ImportAccounts` | `EveryLineAccounted` (Registrars) | by `DomainInv` and `ImportInv`: what a worker has counted and the lines it has left add up to the file, every line it has no more is a row of its job or named, a worker has a task only while it is active, and a completed job is out of the queue. Needed because a retry starts the file again while rows of the first try are there, and `by` is never overwritten |
| `ListingMissesNothing` | `NothingMissed` (Registrars) | by `SyncInv` and the lemma `ListingAdvances`, one page of each client: a page moves the cursor over its own names only, and is the last one only when no name is left. With page numbers a name that leaves moves the others, so there the promise ends |
| `SyncLeavesTheDates` | `SyncIsTrue` (Registrars) | by `SyncInv`: as long as nothing else happened a listed name is still to be written with the date that is held, or its row has that date, or it is reported. Uses `ListingMissesNothing` and that no refusal is taken for a page |
| `ExpiryHasBeenTold` | `ExpiryIsTold` (Registrars) | by `ExpiryInv`: a status that is not well has been told, lost, or is among the changes of the check that runs; those are what the rows say, since each row is written once. Needed because notices go out after all rows are written, and a worker may die between |
| `CdnTypeCorrect` | `Spec => []TypeOK` (CdnBindings) | part of `CdnInv`; the calls a request may have left are the ends of the clients' programs (`ProgramsTyped`, `TodoAdvances`) |
| `AnswersAgree` | `AnswerIsTrue` (CdnBindings) | by `CdnInv`: a request that is alone knows its vendor, its login and its domain's id, and once its calls are done they have brought about, or seen, what its answer will say. Needed because an answer rests on several calls; uses that each client tells "not found" exactly when the vendor does not have the domain (`ErrorsTell`) and reads a state as what it is (`StatusTold`) |

Each inductive invariant is also true on the runs' instances.

The hypotheses of the three theorems about shards, counts and rollbacks are
needed; TLC gives a counterexample without each of them.

- `faults = 0`. A worker that dies between its enqueue and its
  acknowledgement has its job run again. The second run of a dispatch job,
  with other agents online, sends a domain of an earlier shard to another
  agent while a later shard is under way, or after the release was counted
  and succeeded; nothing in `DispatchShard` looks for that
  (`service.go:463`). The second run of a rollback job inserts tasks that the
  statistics of the first did not see.
- `OneRequest`, no second request for a rollback. Nothing else has to fail: a
  dispatch job has read "executing" and waits, the operator pauses the release
  and asks for a rollback, which finds no agent, fails the release and returns
  an error, so that asynq will run its job again (`rollback.go:134-147`). A
  second request moves the release to rolling_back; now the old job, run
  again, and the new one both find it so. The old one inserts a task for agent
  1 and its finalize job reads clean statistics; the late dispatch gives agent
  2 a deploy task; the new job inserts a rollback task for agent 2, and the
  first verdict moves the release to rolled_back while that task is pending.
  `PHASE2_TASKLIST.md:376` says "Release transitions to `rolled_back` after all
  rollback tasks complete".

Assumptions on constants are what the code guarantees: ids of rows start at 1 and
of providers are positive numbers; `InputAssumption` gives inputs and templates
the types of the request bodies; `ForeignAssumption` says that what others add at
a console has ids of its own, numbered from 1, and at least one value;
`FilesAssumption` and `RegistrarsAssumption` give files, rows and names at the
registrar their types, and say that no row that is there at first is of a job to
come.

A proof by induction over data, which the library's induction theorems cannot
give here, is replaced by a least counterexample: a set of numbers that is not
empty has a least member (`LeastOf`, `GreatestOf` in
`DnsProofs` and `RegistrarProofs`, from the well-foundedness
of the natural numbers), which is enough for ranks, pages and counters. What a
recursive operator computes for every input stays out of reach.

Only model-checked are the liveness properties: fairness and ENABLED are out of
the prover's reach. Every other property of a passing run is stated by a
theorem, three of the release under the hypotheses above.

## 6. What is not modelled, and the plan

Not modelled, and why:

- Signing and formatting of vendor requests, authentication, routing,
  bootstrap, metrics, the web interface: stateless or pure I/O.
- Plain CRUD whose rows no decision reads: projects, tags, host groups, rules
  and channels, policies, nodes' descriptions, names and notes everywhere.
- The propagation check of DNS, which writes nothing. GetNameservers, called for a
  binding and for the nameserver check (`binding.go:150`), is modelled by what it
  returns: the nameservers of the provider, or none (`Enqueue` in DomainRow).
- Code without a caller: MarkStaleOffline of GFW, BatchCreateRecords,
  `safety.go` and
  `ratelimit.go` (called by tests only), the Cloudflare CDN client and the purge,
  prefetch, configuration and statistics of the others, the SSL jobs.
- Status pages, maintenance windows, dashboards, costs: queries and arithmetic
  for display.

The plan, most important first:

1. A run of Release with a second rollback, for the counterexample of section 5.
2. SSL certificates, as soon as a scheduler enqueues their jobs; costs as
   operators over fee schedules, with their recalculation.
3. Maintenance windows together with the status page that asks for them.
