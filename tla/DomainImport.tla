---------------------------- MODULE DomainImport ----------------------------
(***************************************************************************)
(* Bulk import of domains (internal/importer): an uploaded CSV file is     *)
(* kept in a row of domain_import_jobs, and a task of the queue registers  *)
(* its lines one by one in the table domains.                              *)
(*                                                                         *)
(* The upload, the worker and everybody else who registers or retires a    *)
(* domain take their statements in any order.  A worker that dies, runs    *)
(* out of its 30 minutes or returns an error is given the task again, at   *)
(* most MaxRetry times, and then starts the file from its first line.      *)
(* A line is its FQDN, its registrar account and its expiry date; a line   *)
(* the parser refuses, for whatever reason, has the FQDN 0.                *)
(***************************************************************************)
EXTENDS Integers, Sequences, FiniteSets

CONSTANTS
    Fqdns,          \* names, in the order of the alphabet
    Projects,
    Accounts,       \* ids in registrar_accounts
    Files,          \* CSV files that may be uploaded
    InitDomains,    \* what the table domains may hold at first
    Jobs,           \* bound: uploads
    MaxRows,        \* 5000
    ProgressEvery,  \* 100
    MaxRetry,       \* 1
    MaxEvents       \* bound: uploads, other requests, failures, and changes
                    \* from outside

ASSUME ImportAssumption ==
    /\ Fqdns \subseteq Nat \ {0} /\ IsFiniteSet(Fqdns) /\ Accounts \subseteq Nat \ {0}
    /\ Jobs \subseteq Nat \ {0}
    /\ MaxRows \in Nat /\ ProgressEvery \in Nat \ {0} /\ MaxRetry \in Nat

(* The line of a file, and a row of the table.                             *)
Lines ==
    [fqdn : Fqdns \cup {0}, account : Accounts \cup {0}, expiry : Nat]

Rows ==
    [id : Nat, state : {"none", "live", "retired"}, project : Projects \cup {0},
     account : Accounts \cup {0}, expiry : Nat, by : Jobs \cup {0}]

(* The rows that are there at first are of no job here.                    *)
ASSUME FilesAssumption ==
    /\ Files \subseteq Seq(Lines)
    /\ InitDomains \subseteq [Fqdns -> Rows]
    /\ \A start \in InitDomains : \A f \in Fqdns : start[f].by = 0

VARIABLES
    domains,   \* the rows of domains, by FQDN
    accounts,  \* registrar_accounts; changed by Registrars only
    jobs,      \* domain_import_jobs
    tasks,     \* the task of each job in the queue
    work,      \* the worker that has the task of a job
    events     \* how much of MaxEvents is used

importVars == <<jobs, tasks, work>>

Event == events < MaxEvents /\ events' = events + 1

(* A row; ids grow, 0 is no row, and no row is ever removed.               *)
NoDomain == [id |-> 0, state |-> "none", project |-> 0, account |-> 0, expiry |-> 0,
             by |-> 0]

NoCounts == [imported |-> 0, skipped |-> 0, failed |-> 0]

NoJob == [status |-> "none", project |-> 0, raw |-> <<>>,
          counts |-> NoCounts, details |-> {}]

NoTask == [state |-> "none", retried |-> 0]

Idle == [pc |-> "idle"]

ImportInit ==
    /\ domains \in InitDomains
    /\ jobs = [j \in Jobs |-> NoJob]
    /\ tasks = [j \in Jobs |-> NoTask]
    /\ work = [j \in Jobs |-> Idle]
    /\ events = 0

-----------------------------------------------------------------------------
(* The table domains. *)

(* uq_domains_fqdn covers the rows of all projects, retired ones too, and  *)
(* registrar_account_id refers to a row of registrar_accounts.             *)
CanCreate(line) ==
    /\ domains[line.fqdn].state = "none"
    /\ line.account # 0 => accounts[line.account].state # "none"

Create(line, project, by) ==
    domains' = [domains EXCEPT ![line.fqdn] =
        [id |-> Cardinality({f \in Fqdns : domains[f].id # 0}) + 1,
         state |-> "live", project |-> project, account |-> line.account,
         expiry |-> line.expiry, by |-> by]]

(* Register: an error leaves nothing behind. *)
Register(line, project, by) ==
    IF CanCreate(line) THEN Create(line, project, by) ELSE UNCHANGED domains

ExistingFQDNs(project, fqdns) ==
    {f \in fqdns : domains[f].state = "live" /\ domains[f].project = project}

-----------------------------------------------------------------------------
(* The upload. *)

validateFQDN(line) == line.fqdn # 0

(* The numbers of the lines that can be read, and how many cannot.         *)
ParseCSV(raw) ==
    [ok     |-> Len(raw) \in 1..MaxRows,
     rows   |-> {i \in 1..Len(raw) : validateFQDN(raw[i])},
     errors |-> Cardinality({i \in 1..Len(raw) : ~validateFQDN(raw[i])})]

CreateRow(j, project, raw) ==
    jobs' = [jobs EXCEPT ![j] =
        [NoJob EXCEPT !.status = "pending", !.project = project, !.raw = raw]]

CreateJob(j, project, raw) ==
    /\ ParseCSV(raw).ok
    /\ CreateRow(j, project, raw)
    /\ tasks' = [tasks EXCEPT ![j].state = "unqueued"]

Upload(j, project, raw) ==
    /\ jobs[j] = NoJob
    /\ CreateJob(j, project, raw)
    /\ Event
    /\ UNCHANGED <<domains, work>>

Enqueue(j) ==
    /\ tasks[j].state = "unqueued"
    /\ tasks' = [tasks EXCEPT ![j].state = "queued"]
    /\ UNCHANGED <<domains, jobs, work, events>>

MarkCompleted(j, status, counts, details) ==
    jobs' = [jobs EXCEPT ![j].status = status, ![j].counts = counts,
                         ![j].details = details]

(* Enqueueing fails, whether or not the queue has the task; or the server  *)
(* dies, or cannot write, before it has said so in the row.                *)
EnqueueFails(j) ==
    /\ tasks[j].state = "unqueued"
    /\ Event
    /\ \E state \in {"none", "queued"} :
           tasks' = [tasks EXCEPT ![j].state = state]
    /\ \/ MarkCompleted(j, "failed", NoCounts, {})
       \/ UNCHANGED jobs
    /\ UNCHANGED <<domains, work>>

-----------------------------------------------------------------------------
(* The worker. *)

(* Mutant: a job that was begun is not begun again.                        *)
MarkStartedOnce(j) ==
    jobs[j].status = "pending" /\ jobs' = [jobs EXCEPT ![j].status = "processing"]

MarkStarted(j) == jobs' = [jobs EXCEPT ![j].status = "processing"]

(* ProcessImportPayload up to the first query about the domains.           *)
Start(j) ==
    /\ tasks[j].state = "queued"
    /\ tasks' = [tasks EXCEPT ![j].state = "active"]
    /\ MarkStarted(j)
    /\ LET parsed == ParseCSV(jobs[j].raw)
       IN  work' = [work EXCEPT ![j] =
               [pc |-> "look", rows |-> parsed.rows, existing |-> {},
                details |-> IF parsed.errors = 0 THEN {}
                            ELSE {[fqdn |-> 0, why |-> "skipped"]},
                counts |-> [NoCounts EXCEPT !.skipped = parsed.errors]]]
    /\ UNCHANGED <<domains, events>>

Look(j) ==
    /\ work[j].pc = "look"
    /\ LET fqdns == {jobs[j].raw[i].fqdn : i \in work[j].rows}
       IN  work' = [work EXCEPT ![j].pc = "rows",
                        ![j].existing = ExistingFQDNs(jobs[j].project, fqdns)]
    /\ UNCHANGED <<domains, jobs, tasks, events>>

Count(counts, what) == [counts EXCEPT ![what] = @ + 1]

Total(counts) == counts.imported + counts.skipped + counts.failed

(* The first line that is left. *)
NextNumber(j) == CHOOSE i \in work[j].rows : \A k \in work[j].rows : i <= k

NextLine(j) == jobs[j].raw[NextNumber(j)]

(* Mutant: a line that was skipped is counted, and not named.              *)
NextRowSilent(j, what) ==
    LET line == NextLine(j) IN
    work' = [work EXCEPT
        ![j].rows = @ \ {NextNumber(j)},
        ![j].counts = Count(@, what),
        ![j].details = IF what # "failed" THEN @
                       ELSE @ \cup {[fqdn |-> line.fqdn, why |-> what]}]

(* The line is done with: counted, and named in the details unless it was  *)
(* imported.                                                               *)
NextRow(j, what) ==
    LET line == NextLine(j) IN
    work' = [work EXCEPT
        ![j].rows = @ \ {NextNumber(j)},
        ![j].counts = Count(@, what),
        ![j].details = IF what = "imported" THEN @
                       ELSE @ \cup {[fqdn |-> line.fqdn, why |-> what]}]

UpdateProgress(j, what) ==
    LET counts == Count(work[j].counts, what) IN
    jobs' = IF what = "imported" /\ Total(counts) % ProgressEvery = 0
            THEN [jobs EXCEPT ![j].counts = counts] ELSE jobs

ImportRow(j) ==
    LET line == NextLine(j)
        what == IF line.fqdn \in work[j].existing THEN "skipped"
                ELSE IF CanCreate(line) THEN "imported" ELSE "failed"
    IN  /\ work[j].pc = "rows" /\ work[j].rows # {}
        /\ IF what = "imported" THEN Register(line, jobs[j].project, j)
           ELSE UNCHANGED domains
        /\ NextRow(j, what)
        /\ UpdateProgress(j, what)
        /\ UNCHANGED <<tasks, events>>

(* Register answers with an error of the database, which may have kept the *)
(* row all the same.                                                       *)
RowFails(j) ==
    LET line == NextLine(j) IN
    /\ work[j].pc = "rows" /\ work[j].rows # {}
    /\ line.fqdn \notin work[j].existing
    /\ Event
    /\ Register(line, jobs[j].project, j) \/ UNCHANGED domains
    /\ NextRow(j, "failed")
    /\ UNCHANGED <<jobs, tasks>>

(* One line that was imported is enough for a job to be completed.         *)
finalStatus(counts) ==
    IF counts.failed > 0 /\ counts.imported = 0 THEN "failed" ELSE "completed"

ProcessImportPayload(j) ==
    /\ work[j].pc = "rows" /\ work[j].rows = {}
    /\ MarkCompleted(j, finalStatus(work[j].counts), work[j].counts, work[j].details)
    /\ tasks' = [tasks EXCEPT ![j].state = "done"]
    /\ work' = [work EXCEPT ![j] = Idle]
    /\ UNCHANGED <<domains, events>>

(* The last statement fails; that is logged, and the task is done.         *)
CompletionLost(j) ==
    /\ work[j].pc = "rows" /\ work[j].rows = {}
    /\ Event
    /\ tasks' = [tasks EXCEPT ![j].state = "unrecorded"]
    /\ work' = [work EXCEPT ![j] = Idle]
    /\ UNCHANGED <<domains, jobs>>

(* The worker dies, its time is over, or an early statement fails: the     *)
(* queue gives the task out again, or archives it.                         *)
Die(j) ==
    /\ work[j] # Idle
    /\ Event
    /\ tasks' = [tasks EXCEPT ![j] =
           IF @.retried < MaxRetry
           THEN [state |-> "queued", retried |-> @.retried + 1]
           ELSE [@ EXCEPT !.state = "archived"]]
    /\ work' = [work EXCEPT ![j] = Idle]
    /\ UNCHANGED <<domains, jobs>>

-----------------------------------------------------------------------------
(* Others register a domain, and retire one. *)

RegisterOther(f, project) ==
    /\ CanCreate([fqdn |-> f, account |-> 0])
    /\ Event
    /\ Register([fqdn |-> f, account |-> 0, expiry |-> 0], project, 0)
    /\ UNCHANGED importVars

Retire(f) ==
    /\ domains[f].state = "live"
    /\ Event
    /\ domains' = [domains EXCEPT ![f].state = "retired"]
    /\ UNCHANGED importVars

HandleDomainImport(j) ==
    Start(j) \/ Look(j) \/ ImportRow(j) \/ ProcessImportPayload(j)

ImportNext ==
    \/ \E j \in Jobs :
           \/ \E p \in Projects, raw \in Files : Upload(j, p, raw)
           \/ Enqueue(j) \/ EnqueueFails(j) \/ HandleDomainImport(j)
           \/ RowFails(j) \/ CompletionLost(j) \/ Die(j)
    \/ \E f \in Fqdns : Retire(f) \/ \E p \in Projects : RegisterOther(f, p)

-----------------------------------------------------------------------------
(* A job that says it is completed has accounted for its whole file: the   *)
(* counts add up to its lines, and every line is a row of its project or   *)
(* is named in the details, even when the file was taken up again after a  *)
(* crash or met others who register the same names (ProcessImportPayload,  *)
(* ExistingFQDNs, Register).                                               *)
EveryLineAccounted ==
    \A j \in Jobs : jobs[j].status = "completed" =>
        /\ Total(jobs[j].counts) = Len(jobs[j].raw)
        /\ \A i \in 1..Len(jobs[j].raw) :
               LET f == jobs[j].raw[i].fqdn
               IN  \/ f # 0 /\ domains[f].by = j
                   \/ \E d \in jobs[j].details : d.fqdn = f

(* An upload whose task reached the queue comes to an end, also after a    *)
(* crash, unless the task failed again on its last try or the last         *)
(* statement could not be written (MarkStarted, MaxRetry, Timeout).        *)
JobEnds ==
    \A j \in Jobs : tasks[j].state = "queued" ~>
        \/ jobs[j].status \in {"completed", "failed"} /\ tasks[j].state = "done"
        \/ tasks[j].state \in {"archived", "unrecorded"}

=============================================================================
