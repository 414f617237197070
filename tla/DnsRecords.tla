----------------------------- MODULE DnsRecords -----------------------------
(***************************************************************************)
(* DNS records: the rows of domain_dns_records, the zones at the providers *)
(* and the requests between them (internal/dnsrecord), with the rows of    *)
(* dns_providers (internal/dnsprovider), the record templates              *)
(* (internal/dnstemplate) and the drift check (internal/dnsquery).         *)
(*                                                                         *)
(* Requests are goroutines of the API server, the drift checks of the      *)
(* worker.  A request reads the database, calls the provider, and writes   *)
(* the database: it is cut before every call and before the write.  One    *)
(* that fails before its first call has changed nothing and is left out.   *)
(***************************************************************************)
EXTENDS DnsClients, Sequences, TLC

CONSTANTS
    Domains,       \* the hosts of one zone that are domains of the platform
    ProviderIds,   \* ids of rows of dns_providers
    ProviderRows,  \* what an administrator enters for a provider
    Requests,      \* goroutines of the API server and of the worker
    Inputs,        \* records an operator enters
    Templates,     \* record templates an operator enters
    Values,        \* values given to the variable of a template
    Foreign,       \* items at the providers that others made
    MaxOps,        \* bound: operations started
    MaxFaults      \* bound: calls, statements and workers that fail

ASSUME DnsAssumption ==
    /\ ProviderIds \subseteq Nat \ {0}
    /\ MaxOps \in Nat /\ MaxFaults \in Nat

(* What operators enter is a record, with text for a variable; the items   *)
(* of others have the first ids, and at least one value.                   *)
ASSUME InputAssumption ==
    /\ Inputs \subseteq Records /\ Templates \subseteq Seq(Records)
    /\ Values \subseteq STRING

ASSUME ForeignAssumption ==
    /\ IsFiniteSet(Foreign)
    /\ \A i \in Foreign : i.id \in 1..Cardinality(Foreign) /\ i.values # {}
    /\ \A i, j \in Foreign : i.id = j.id => i = j

VARIABLES
    zones,         \* the items at each provider
    lastId,        \* the id last given to an item
    providers,     \* dns_providers
    domains,       \* dns_provider_id of each domain, 0 for NULL
    rows,          \* domain_dns_records
    template,      \* the row of dns_record_templates: <<>> or one template
    request,       \* what each goroutine is doing
    queue,         \* dns:drift_check tasks waiting: a domain and a provider
    alerted,       \* the keys dns:drift:alerted in Redis
    alerts,        \* alerts sent while the key of the domain lives (history)
    deleted,       \* ids of the items deleted at each provider (history)
    renames,       \* how many changes gave an item another name (history)
    disturbed,     \* ids that failures or others have touched (history)
    faults,        \* the faults that have happened
    ops            \* how many operations were started

itemVars  == <<zones, lastId, deleted, renames>>
zoneVars  == <<itemVars, disturbed>>
adminVars == <<providers, domains, template>>
driftVars == <<queue, alerted, alerts>>

vars == <<zoneVars, adminVars, rows, request, driftVars, faults, ops>>

-----------------------------------------------------------------------------
(* Requests.                                                               *)

NoProvider == [live |-> FALSE, type |-> "", zone |-> "", creds |-> FALSE]

Idle ==
    [op |-> "idle", pc |-> "", domain |-> "", provider |-> 0,
     client |-> NoProvider, known |-> FALSE, local |-> {}, ids |-> {},
     done |-> {}, rec |-> NoRecord, cursor |-> 0, got |-> {}, from |-> {},
     gone |-> {}, renames |-> 0, todo |-> <<>>]

Provider(p) == IF p = 0 THEN NoProvider ELSE providers[p]

(* The error of resolveSync, of which Sync, CreateRecord, UpdateRecord,    *)
(* DeleteRecord and BatchDelete make a client.                             *)
resolveSync(p) ==
    IF p = 0 THEN "ErrNoProvider"
    ELSE IF ~providers[p].live THEN "ErrDNSProviderNotFound"
    ELSE Get(providers[p])

(* resolveProvider does the same for the requests without rows. *)
resolveProvider(p) == resolveSync(p)

(* A request for a domain, whose row getDomain has read. *)
Of(op, pc, d, p) ==
    [Idle EXCEPT !.op = op, !.pc = pc, !.domain = d, !.provider = p,
                 !.client = Provider(p)]

For(op, pc, d) == Of(op, pc, d, domains[d])

getDomain(q, d) == request[q] = Idle /\ ops < MaxOps

Begin(q, state) ==
    /\ request' = [request EXCEPT ![q] = state]
    /\ ops' = ops + 1
    /\ UNCHANGED <<zoneVars, adminVars, rows, driftVars, faults>>

LiveRow(id) == CHOOSE r \in rows : r.id = id

GetByID(id) == \E r \in rows : r.id = id /\ r.live

RowIds == {r.id : r \in rows}

(* Validate: the type is a known one, and there are a name and a content. *)
Validate(rec) ==
    /\ rec.type \in {"A", "AAAA", "CNAME", "MX", "TXT", "NS", "SRV", "CAA", "PTR"}
    /\ rec.name.host # "" /\ rec.content.v # ""

Sync(q, d) ==
    /\ getDomain(q, d) /\ resolveSync(domains[d]) = ""
    /\ Begin(q, For("sync", "list", d))

CreateLocal(q, d) ==
    \E rec \in Inputs :
        /\ getDomain(q, d) /\ Validate(rec) /\ resolveSync(domains[d]) = ""
        /\ Begin(q, [For("create", "call", d) EXCEPT !.rec = rec])

(* The row is one of the domain, and not deleted. *)
UpdateLocal(q, d) ==
    \E id \in RowIds, rec \in Inputs :
        /\ getDomain(q, d) /\ Validate(rec)
        /\ GetByID(id) /\ LiveRow(id).domain = d
        /\ resolveSync(domains[d]) = ""
        /\ Begin(q, [For("update", "call", d) EXCEPT
                         !.local = {id}, !.ids = {LiveRow(id).rid}, !.rec = rec])

DeleteLocal(q, d) ==
    \E id \in RowIds :
        /\ getDomain(q, d) /\ GetByID(id) /\ LiveRow(id).domain = d
        /\ resolveSync(domains[d]) = ""
        /\ Begin(q, [For("delete", "call", d) EXCEPT
                         !.local = {id}, !.ids = {LiveRow(id).rid}])

(* The records of the rows that are the domain's; all rows are kept. *)
BatchDeleteLocal(q, d) ==
    \E local \in SUBSET RowIds :
        LET own == {r \in rows : r.id \in local /\ r.live /\ r.domain = d}
        IN  /\ getDomain(q, d) /\ resolveSync(domains[d]) = ""
            /\ own # {}
            /\ Begin(q, [For("batch", "call", d) EXCEPT
                             !.local = local, !.ids = {r.rid : r \in own}])

(* provider-records: the same operations by id of the provider, without    *)
(* rows.                                                                   *)
CreateProviderRecord(q, d) ==
    \E rec \in Inputs :
        /\ getDomain(q, d) /\ Validate(rec) /\ resolveProvider(domains[d]) = ""
        /\ Begin(q, [For("rawcreate", "call", d) EXCEPT !.rec = rec])

UpdateProviderRecord(q, d) ==
    \E id \in 1..lastId, rec \in Inputs :
        /\ getDomain(q, d) /\ Validate(rec) /\ resolveProvider(domains[d]) = ""
        /\ Begin(q, [For("rawupdate", "call", d) EXCEPT !.ids = {id}, !.rec = rec])

DeleteProviderRecord(q, d) ==
    \E id \in 1..lastId :
        /\ getDomain(q, d) /\ resolveProvider(domains[d]) = ""
        /\ Begin(q, [For("rawdelete", "call", d) EXCEPT !.ids = {id}])

-----------------------------------------------------------------------------
(* Templates.  A template is a sequence of records; the content of one may *)
(* be a variable.                                                          *)

Variable == "{{var}}"

ExtractVariables(t) == {"var" : i \in {j \in DOMAIN t : t[j].content.v = Variable}}

substitute(content, value) ==
    IF content.v = Variable THEN [content EXCEPT !.v = value] ELSE content

(* With no value for a variable nothing is rendered. *)
renderRecords(t, given, value) ==
    IF ExtractVariables(t) \subseteq given
    THEN [i \in DOMAIN t |-> [t[i] EXCEPT !.content = substitute(t[i].content, value)]]
    ELSE <<>>

SetTemplate(new) ==
    /\ ops < MaxOps /\ ops' = ops + 1
    /\ template' = new
    /\ UNCHANGED <<zoneVars, providers, domains, rows, request, driftVars, faults>>

(* The variables that are stored with a template are those it uses. *)
StoredTemplate(t) == <<[records |-> t, variables |-> ExtractVariables(t)]>>

CreateTemplate ==
    \E t \in Templates : template = <<>> /\ SetTemplate(StoredTemplate(t))

UpdateTemplate ==
    \E t \in Templates : template # <<>> /\ SetTemplate(StoredTemplate(t))

DeleteTemplate == template # <<>> /\ SetTemplate(<<>>)

(* What the template service renders. *)
Rendered(given, value) == renderRecords(template[1].records, given, value)

(* ApplyTemplate creates the rendered records one by one; a dry run stops  *)
(* after rendering.                                                        *)
ApplyTemplate(q, d) ==
    \E given \in SUBSET {"var"}, value \in Values :
        /\ getDomain(q, d) /\ template # <<>>
        /\ Rendered(given, value) # <<>>
        /\ Begin(q, [For("apply", "next", d) EXCEPT !.todo = Rendered(given, value)])

(* CreateRecord makes a client for each record; one that fails is skipped. *)
ApplyNext(q) ==
    LET s    == request[q]
        rest == Tail(s.todo)
    IN  /\ s.pc = "next"
        /\ request' = [request EXCEPT ![q] =
              IF s.todo = <<>> THEN Idle
              ELSE IF ~Validate(Head(s.todo)) \/ resolveSync(s.provider) # ""
              THEN [s EXCEPT !.todo = rest]
              ELSE [s EXCEPT !.pc = "call", !.todo = rest, !.rec = Head(s.todo),
                             !.client = providers[s.provider], !.known = FALSE]]
        /\ UNCHANGED <<zoneVars, adminVars, rows, driftVars, faults, ops>>

-----------------------------------------------------------------------------
(* Calls of the provider.                                                  *)

InCall(q) == request[q].pc \in {"list", "call"}

(* The first call of a client may have to find the zone. *)
Ready(q) == InCall(q) /\ ~NeedsLookup(request[q].client, request[q].known)

Items(q) == zones[request[q].client.type]

(* A call that failed ends the request, the record of a template, or the   *)
(* drift check, whose status is then "error".  Records a batch has deleted *)
(* keep their rows.                                                        *)
AfterFailure(s) == IF s.op = "apply" THEN [s EXCEPT !.pc = "next"] ELSE Idle

Fail(q) ==
    /\ request' = [request EXCEPT ![q] = AfterFailure(@)]
    /\ disturbed' = disturbed \cup request[q].done

LookupZone(q) ==
    LET s == request[q]
    IN  /\ InCall(q) /\ NeedsLookup(s.client, s.known)
        /\ \/ /\ LookupZoneByName(s.client) = ""
              /\ request' = [request EXCEPT ![q].known = TRUE]
              /\ UNCHANGED disturbed
           \/ LookupZoneByName(s.client) # "" /\ Fail(q)
        /\ UNCHANGED <<itemVars, adminVars, rows, driftVars, faults, ops>>

(* The next page.  A drift check lists one name. *)
ListPage(q) ==
    LET s      == request[q]
        listed == IF s.op = "drift" THEN {i \in Items(q) : i.host = s.domain}
                  ELSE Items(q)
        page   == ListRecords(s.client.type, listed, s.cursor)
        first  == s.got = {} /\ s.cursor = 0
        after  == IF page.more THEN "list" ELSE IF s.op = "drift" THEN "lookup" ELSE "write"
    IN  /\ Ready(q) /\ s.pc = "list"
        /\ \/ NoSuchZone(s.client) /\ Fail(q)
           \/ /\ ~NoSuchZone(s.client)
              /\ request' = [request EXCEPT ![q] =
                    [s EXCEPT !.pc = after, !.cursor = page.cursor,
                       !.got = s.got \cup UNION {RecordsOf(s.client.type, i) : i \in page.items},
                       !.from = IF first THEN Ids(listed) ELSE s.from,
                       !.gone = IF first THEN deleted[s.client.type] ELSE s.gone,
                       !.renames = IF first THEN renames ELSE s.renames]]
              /\ UNCHANGED disturbed
        /\ UNCHANGED <<itemVars, adminVars, rows, driftVars, faults, ops>>

(* The provider carries out a change.  A record that another request has   *)
(* changed and not yet written, and one that is changed without its row,   *)
(* is disturbed.                                                           *)
Pending(q, id) ==
    \E k \in Requests \ {q} :
        request[k].pc = "write" /\ id \in request[k].ids \cup {request[k].rec.id}

Disturbs(q, id) ==
    IF Pending(q, id) \/ request[q].op \in {"rawupdate", "rawdelete"}
    THEN {id} ELSE {}

(* An item has another name than before. *)
Renamed(old, new) == \E i \in old, j \in new : i.id = j.id /\ i.host # j.host

Change(q, items, id, touched) ==
    /\ zones' = [zones EXCEPT ![request[q].client.type] = items]
    /\ lastId' = IF id > lastId THEN id ELSE lastId
    /\ deleted' = [deleted EXCEPT ![request[q].client.type] =
                      @ \cup (Ids(Items(q)) \ Ids(items))]
    /\ renames' = IF Renamed(Items(q), items) THEN renames + 1 ELSE renames
    /\ disturbed' = disturbed \cup touched
    /\ UNCHANGED <<adminVars, rows, driftVars, ops>>

(* SyncService.CreateRecord, UpdateRecord, DeleteRecord and BatchDelete:   *)
(* the change the next call asks for, and the request after it.            *)

NewItem(s, id) ==
    IF NoSuchZone(s.client) THEN Refused(zones[s.client.type], "nozone")
    ELSE CreateRecord(s.client.type, zones[s.client.type], id, s.rec)

ReplacedItem(s, id) == UpdateRecord(s.client.type, zones[s.client.type], id, s.rec)

RemovedItem(s, id) == DeleteRecord(s.client.type, zones[s.client.type], id)

SyncCreateRecord(s, id) ==
    LET change == NewItem(s, id)
    IN  [change |-> change, next |-> [s EXCEPT !.pc = "write", !.rec = change.rec]]

(* Mutant: the row is made of what was asked, not of what was returned. *)
SyncUpdateRecordAsked(s, id) ==
    [change |-> ReplacedItem(s, id),
     next   |-> [s EXCEPT !.pc = "write", !.rec.id = id]]

SyncUpdateRecord(s, id) ==
    LET change == ReplacedItem(s, id)
    IN  [change |-> change, next |-> [s EXCEPT !.pc = "write", !.rec = change.rec]]

SyncDeleteRecord(s, id) ==
    [change |-> RemovedItem(s, id),
     next   |-> [s EXCEPT !.pc = "write", !.done = {id}]]

(* BatchDeleteRecords of a client deletes one record after the other. *)
BatchDeleteRecords(s, id) ==
    [change |-> RemovedItem(s, id),
     next   |-> [s EXCEPT !.done = @ \cup {id},
                          !.pc   = IF s.ids = s.done \cup {id} THEN "write" ELSE "call"]]

(* Service.CreateRecord, UpdateRecord and DeleteRecord: nothing is         *)
(* written.                                                                *)
ServiceCreateRecord(s, id) == [change |-> NewItem(s, id), next |-> Idle]
ServiceUpdateRecord(s, id) == [change |-> ReplacedItem(s, id), next |-> Idle]
ServiceDeleteRecord(s, id) == [change |-> RemovedItem(s, id), next |-> Idle]

Asked(q, id) ==
    LET s == request[q]
    IN  CASE s.op \in {"create", "apply"} -> SyncCreateRecord(s, id)
          [] s.op = "update"              -> SyncUpdateRecord(s, id)
          [] s.op = "delete"              -> SyncDeleteRecord(s, id)
          [] s.op = "batch"               -> BatchDeleteRecords(s, id)
          [] s.op = "rawcreate"           -> ServiceCreateRecord(s, id)
          [] s.op = "rawupdate"           -> ServiceUpdateRecord(s, id)
          [] s.op = "rawdelete"           -> ServiceDeleteRecord(s, id)

(* The id of a new item, or one the request names. *)
CallIds(q) ==
    IF request[q].op \in {"create", "rawcreate", "apply"} THEN {lastId + 1}
    ELSE request[q].ids \ request[q].done

Call(q) ==
    /\ Ready(q) /\ request[q].pc = "call"
    /\ \E id \in CallIds(q) :
          LET asked == Asked(q, id)
              error == ErrorOf(request[q].client.type, asked.change.reason)
          IN  \/ /\ error # "" /\ Fail(q)
                 /\ UNCHANGED <<itemVars, adminVars, rows,
                                driftVars, ops>>
              \/ /\ error = ""
                 /\ request' = [request EXCEPT ![q] = asked.next]
                 /\ Change(q, asked.change.items, id, Disturbs(q, id))
    /\ UNCHANGED faults

Fault(kind) ==
    /\ Cardinality(faults) < MaxFaults /\ kind \notin faults
    /\ faults' = faults \cup {kind}

(* The API refuses a call for a reason of its own. *)
Refuse(q) ==
    /\ InCall(q) /\ Fault("refused")
    /\ \E reason \in {"auth", "throttle", "broken"} :
           ErrorOf(request[q].client.type, reason) # ""
    /\ Fail(q)
    /\ UNCHANGED <<itemVars, adminVars, rows, driftVars, ops>>

(* The change is made, and the answer is lost. *)
LoseAnswer(q) ==
    /\ Ready(q) /\ request[q].pc = "call" /\ Fault("lost")
    /\ \E id \in CallIds(q) :
          LET change == Asked(q, id).change
          IN  /\ change.reason = ""
              /\ Change(q, change.items, id, request[q].done \cup {id})
    /\ request' = [request EXCEPT ![q] = AfterFailure(@)]

-----------------------------------------------------------------------------
(* Writes of the database.                                                 *)

(* A priority of 0 is stored as NULL. *)
ptrInt(prio) == prio

providerRecordToRow(s) ==
    [id |-> Cardinality(rows) + 1, domain |-> s.domain, provider |-> s.provider,
     rid |-> s.rec.id, type |-> s.rec.type, name |-> s.rec.name,
     content |-> s.rec.content, prio |-> ptrInt(s.rec.prio), live |-> TRUE,
     at |-> s.client.type]

InsertRow(s) == rows \cup {providerRecordToRow(s)}

(* The columns content, priority and provider_record_id of a live row;     *)
(* the type and the name are not written.                                  *)
UpdateRow(s) ==
    {IF r.id \in s.local /\ r.live
     THEN [r EXCEPT !.content = s.rec.content, !.prio = ptrInt(s.rec.prio),
                    !.rid = s.rec.id]
     ELSE r : r \in rows}

SoftDelete(local) ==
    {IF r.id \in local THEN [r EXCEPT !.live = FALSE] ELSE r : r \in rows}

(* The unique indexes of domain_dns_records.  The comment of the migration *)
(* leaves uniqueness to the program.                                       *)
UniqueIndexes == {}

(* An INSERT ... ON CONFLICT over columns without a unique index fails. *)
UpsertByProviderID(rec) ==
    IF <<"domain_id", "provider_record_id">> \in UniqueIndexes THEN "" ELSE "error"

(* Without ids to keep every row of the domain goes. *)
DeleteByProviderIDs(d, keep) ==
    {IF r.domain = d /\ (keep = {} \/ r.rid \notin keep)
     THEN [r EXCEPT !.live = FALSE] ELSE r : r \in rows}

(* Sync writes what it listed: the ids of the records it could upsert are  *)
(* kept.                                                                   *)
SyncRows(s) ==
    DeleteByProviderIDs(s.domain,
        {rec.id : rec \in {x \in s.got : UpsertByProviderID(x) = ""}})

Written(s) ==
    CASE s.op = "sync"                -> SyncRows(s)
      [] s.op \in {"create", "apply"} -> InsertRow(s)
      [] s.op = "update"              -> UpdateRow(s)
      [] s.op \in {"delete", "batch"} -> SoftDelete(s.local)

AfterWrite(s) == IF s.op = "apply" THEN [s EXCEPT !.pc = "next"] ELSE Idle

Write(q) ==
    LET s == request[q]
    IN  /\ s.pc = "write"
        /\ rows' = Written(s)
        /\ request' = [request EXCEPT ![q] = AfterWrite(s)]
        /\ UNCHANGED <<zoneVars, adminVars, driftVars, faults, ops>>

(* The statement fails: the provider has changed and the rows have not. *)
WriteFails(q) ==
    LET s == request[q]
    IN  /\ s.pc = "write" /\ Fault("database")
        /\ request' = [request EXCEPT ![q] = AfterWrite(s)]
        /\ disturbed' = disturbed \cup s.ids \cup {s.rec.id}
        /\ UNCHANGED <<itemVars, adminVars, rows, driftVars, ops>>

-----------------------------------------------------------------------------
(* The rows of dns_providers, and the bindings of domains.                 *)

KnownProviderTypes ==
    {"cloudflare", "route53", "dnspod", "alidns", "godaddy", "namecheap", "manual"}

Admin == ops < MaxOps /\ ops' = ops + 1

(* What the service makes of the input of a new row and of a change; an    *)
(* empty config and empty credentials keep what is stored.                 *)
NewProvider(row) == [row EXCEPT !.live = TRUE]

MergedProvider(old, row) ==
    [live  |-> TRUE, type |-> row.type,
     zone  |-> IF row.zone = "" THEN old.zone ELSE row.zone,
     creds |-> row.creds \/ old.creds]

SetProvider(p, row) ==
    /\ Admin /\ row.type \in KnownProviderTypes
    /\ providers' = [providers EXCEPT ![p] = row]
    /\ UNCHANGED <<zoneVars, domains, template, rows, request, driftVars, faults>>

CreateProvider(p) ==
    \E row \in ProviderRows :
        providers[p] = NoProvider /\ SetProvider(p, NewProvider(row))

UpdateProvider(p) ==
    \E row \in ProviderRows :
        providers[p].live /\ SetProvider(p, MergedProvider(providers[p], row))

(* SoftDelete counts the domains, then deletes. *)
DeleteProvider(q, p) ==
    /\ request[q] = Idle /\ ops < MaxOps
    /\ \A d \in Domains : domains[d] # p
    /\ Begin(q, [Idle EXCEPT !.op = "unprovide", !.pc = "unprovide", !.provider = p])

DeleteProviderRow(q) ==
    /\ request[q].pc = "unprovide"
    /\ providers' = [providers EXCEPT ![request[q].provider].live = FALSE]
    /\ request' = [request EXCEPT ![q] = Idle]
    /\ UNCHANGED <<zoneVars, domains, template, rows, driftVars, faults, ops>>

(* Binding a domain reads the provider, makes a client, and writes. *)
Bind(q, d, p) ==
    /\ request[q] = Idle /\ ops < MaxOps
    /\ p # domains[d] /\ (p # 0 => resolveSync(p) = "")
    /\ Begin(q, [Idle EXCEPT !.op = "bind", !.pc = "bind", !.domain = d, !.provider = p])

BindDomain(q) ==
    /\ request[q].pc = "bind"
    /\ domains' = [domains EXCEPT ![request[q].domain] = request[q].provider]
    /\ request' = [request EXCEPT ![q] = Idle]
    /\ UNCHANGED <<zoneVars, providers, template, rows, driftVars, faults, ops>>

-----------------------------------------------------------------------------
(* The drift check.                                                        *)

(* HandleDriftCheckAll, every half hour or on request: a task per domain   *)
(* with a provider.  A task that waits already is not told apart.          *)
DriftCheckAll ==
    /\ Admin
    /\ queue' = queue \cup {<<d, domains[d]>> : d \in {x \in Domains : domains[x] # 0}}
    /\ UNCHANGED <<zoneVars, adminVars, rows, request, alerted, alerts, faults>>

(* A worker takes a task and reads the provider the task names.  The task  *)
(* ends without a client; if the provider is gone, after two retries.      *)
TakeDriftCheck(q) ==
    \E task \in queue :
        /\ request[q] = Idle
        /\ queue' = queue \ {task}
        /\ request' = [request EXCEPT ![q] =
              IF resolveSync(task[2]) = "" THEN Of("drift", "list", task[1], task[2])
              ELSE Idle]
        /\ UNCHANGED <<zoneVars, adminVars, rows, alerted, alerts, faults, ops>>

(* An upper or a lower case makes no difference, nor does a trailing dot. *)
normaliseKey(type, content) == <<type, TrimDot(content)>>

(* A record as the resolver answers it.  SRV is written in a way of its    *)
(* own, a TXT without quotes.                                              *)
parseRR(item, value) ==
    IF item.type = "SRV" THEN <<item.type, "host:port">>
    ELSE normaliseKey(item.type, TrimQuotes(value))

(* What the resolver knows of the name: what the zone has, or not yet.     *)
(* The apex has an SOA record as well.                                     *)
Lookup(s, fresh) ==
    (IF fresh THEN UNION {{parseRR(i, v) : v \in i.values} :
                              i \in {x \in zones[s.client.type] : x.host = s.domain}}
     ELSE {})
    \cup (IF s.domain = "@" THEN {<<"SOA", "serial">>} ELSE {})

(* The keys that only one side has. *)
CompareRecords(expected, actual) == (expected \ actual) \cup (actual \ expected)

driftStatus(s, actual) ==
    LET expected == {normaliseKey(rec.type, rec.content) : rec \in s.got}
    IN  IF CompareRecords(expected, actual) = {} THEN "ok"
        ELSE IF s.got = {} THEN "no_expected" ELSE "drift"

CheckDrift(q) ==
    LET s == request[q]
    IN  /\ s.pc = "lookup"
        /\ \E fresh \in BOOLEAN :
              request' = [request EXCEPT ![q] =
                  IF driftStatus(s, Lookup(s, fresh)) = "drift"
                  THEN [s EXCEPT !.pc = "alert"] ELSE Idle]
        /\ UNCHANGED <<zoneVars, adminVars, rows, driftVars, faults, ops>>

(* Mutant: the key is read and not set. *)
trySetAlertedGet(q) ==
    LET d == request[q].domain
    IN  /\ request[q].pc = "alert"
        /\ request' = [request EXCEPT ![q] =
              IF d \in alerted THEN Idle ELSE [@ EXCEPT !.pc = "send"]]
        /\ UNCHANGED <<zoneVars, adminVars, rows, driftVars, faults, ops>>

(* SetNX sets the key of the domain or finds it. *)
trySetAlerted(q) ==
    LET d == request[q].domain
    IN  /\ request[q].pc = "alert"
        /\ request' = [request EXCEPT ![q] =
              IF d \in alerted THEN Idle ELSE [@ EXCEPT !.pc = "send"]]
        /\ alerted' = alerted \cup {d}
        /\ UNCHANGED <<zoneVars, adminVars, rows, queue, alerts, faults, ops>>

(* An error of Redis lets the alert pass. *)
RedisFails(q) ==
    /\ request[q].pc = "alert" /\ Fault("redis")
    /\ request' = [request EXCEPT ![q].pc = "send"]
    /\ UNCHANGED <<zoneVars, adminVars, rows, driftVars, ops>>

SendAlert(q) ==
    /\ request[q].pc = "send"
    /\ alerts' = [alerts EXCEPT ![request[q].domain] = @ + 1]
    /\ request' = [request EXCEPT ![q].pc = "sent"]
    /\ UNCHANGED <<zoneVars, adminVars, rows, queue, alerted, faults, ops>>

(* clearAlerted: an alert that could not be sent may be tried again, unless *)
(* its key cannot be deleted.  The notifier sends to two channels and       *)
(* returns the error of one, also when the other has delivered.             *)
SendFails(q) ==
    LET d == request[q].domain
    IN  /\ request[q].pc = "send"
        /\ \/ Fault("send") /\ UNCHANGED alerts
           \/ Fault("partial") /\ alerts' = [alerts EXCEPT ![d] = @ + 1]
        /\ alerted' \in {alerted \ {d}, alerted}
        /\ request' = [request EXCEPT ![q] = Idle]
        /\ UNCHANGED <<zoneVars, adminVars, rows, queue, ops>>

Acknowledge(q) ==
    /\ request[q].pc = "sent"
    /\ request' = [request EXCEPT ![q] = Idle]
    /\ UNCHANGED <<zoneVars, adminVars, rows, driftVars, faults, ops>>

(* A worker dies, and its task is delivered again. *)
Crash(q) ==
    /\ request[q].op = "drift" /\ Fault("crash")
    /\ queue' = queue \cup {<<request[q].domain, request[q].provider>>}
    /\ request' = [request EXCEPT ![q] = Idle]
    /\ UNCHANGED <<zoneVars, adminVars, rows, alerted, alerts, ops>>

(* An hour has passed.  A task has a minute: none is in the middle. *)
HourPasses(d) ==
    /\ d \in alerted
    /\ \A q \in Requests : request[q].domain = d => request[q].pc \notin {"send", "sent"}
    /\ alerted' = alerted \ {d}
    /\ alerts' = [alerts EXCEPT ![d] = 0]
    /\ UNCHANGED <<zoneVars, adminVars, rows, request, queue, faults, ops>>

-----------------------------------------------------------------------------
Init ==
    /\ zones = [t \in ClientTypes |-> Foreign]
    /\ lastId = Cardinality(Foreign)
    /\ \E row \in ProviderRows :
           providers = [p \in ProviderIds |-> IF p = 1 THEN row ELSE NoProvider]
    /\ domains = [d \in Domains |-> 1]
    /\ rows = {} /\ template = <<>>
    /\ request = [q \in Requests |-> Idle]
    /\ queue = {} /\ alerted = {} /\ alerts = [d \in Domains |-> 0]
    /\ deleted = [t \in ClientTypes |-> {}] /\ renames = 0 /\ disturbed = {}
    /\ faults = {} /\ ops = 0

Start(q, d) ==
    \/ Sync(q, d) \/ CreateLocal(q, d) \/ UpdateLocal(q, d) \/ DeleteLocal(q, d)
    \/ BatchDeleteLocal(q, d) \/ ApplyTemplate(q, d)
    \/ CreateProviderRecord(q, d) \/ UpdateProviderRecord(q, d)
    \/ DeleteProviderRecord(q, d)

Step(q) ==
    \/ LookupZone(q) \/ ListPage(q) \/ Call(q) \/ Refuse(q) \/ LoseAnswer(q)
    \/ ApplyNext(q) \/ Write(q) \/ WriteFails(q)
    \/ DeleteProviderRow(q) \/ BindDomain(q)

DriftStep(q) ==
    \/ TakeDriftCheck(q) \/ CheckDrift(q) \/ trySetAlerted(q) \/ RedisFails(q)
    \/ SendAlert(q) \/ SendFails(q) \/ Acknowledge(q) \/ Crash(q)

Next ==
    \/ \E q \in Requests, d \in Domains : Start(q, d)
    \/ \E q \in Requests, d \in Domains, p \in ProviderIds \cup {0} : Bind(q, d, p)
    \/ \E q \in Requests, p \in ProviderIds : DeleteProvider(q, p)
    \/ \E q \in Requests : Step(q) \/ DriftStep(q)
    \/ \E p \in ProviderIds : CreateProvider(p) \/ UpdateProvider(p)
    \/ CreateTemplate \/ UpdateTemplate \/ DeleteTemplate
    \/ DriftCheckAll
    \/ \E d \in Domains : HourPasses(d)

Spec == Init /\ [][Next]_vars

-----------------------------------------------------------------------------
(* Properties.                                                             *)

(* A listing that is complete has every item that was there from its first *)
(* page to its last, for a client that pages by position as long as no     *)
(* item was deleted meanwhile, for Huawei's marker in any case, and for    *)
(* Cloudflare's only page when the zone fits into it (ListRecords of the   *)
(* four clients).  A listing of one name may lose an item to another name. *)
NothingMissed ==
    \A q \in Requests :
        LET s    == request[q]
            lost == deleted[s.client.type]
        IN  /\ s.pc \in {"lookup", "write"} /\ s.op \in {"sync", "drift"}
            /\ lost = s.gone \/ s.client.type = "huaweidns"
            /\ s.op = "drift" => renames = s.renames
            /\ s.client.type = "cloudflare" => Cardinality(s.from) <= CloudflarePage
            => s.from \ lost \subseteq Ids(s.got)

(* A row says what its provider says.  While no request is between its     *)
(* call and its write, the record of a live row exists and a listing shows *)
(* the content of the row, unless a failure, another request in between or *)
(* a call without rows has touched the record (SyncService: call the       *)
(* provider, then persist).  Alidns stores a TXT or an SRV record in       *)
(* another form than the one the client returns.                           *)
RowsAreTrue ==
    \A r \in rows :
        /\ r.live /\ r.rid \notin disturbed
        /\ ~\E q \in Requests :
               /\ request[q].pc \in {"call", "write"}
               /\ r.rid \in request[q].done \cup {request[q].rec.id}
        => \E i \in zones[r.at] :
               /\ i.id = r.rid
               /\ \/ \E rec \in RecordsOf(r.at, i) : rec.content = r.content
                  \/ r.at = "alidns" /\ i.type \in {"TXT", "SRV"}

(* One alert while the key of the domain lives, whatever workers do at the *)
(* same time, and when a task is delivered again after its alert was sent. *)
(* Two errors let another one pass: one of Redis, and one of a channel     *)
(* after the other channel had delivered (trySetAlerted, clearAlerted,     *)
(* Multi.Send).                                                            *)
OneAlertPerHour ==
    faults \cap {"redis", "partial"} # {} \/ \A d \in Domains : alerts[d] <= 1

(* Sync deletes a row when its record is gone from the provider            *)
(* (SyncService.Sync).                                                     *)
PrunedAreGone ==
    [][\A q \in Requests :
          request[q].op = "sync" /\ request[q].pc = "write" /\ request'[q] = Idle
          => \A r \in rows \ rows' : ~Has(zones[r.at], r.rid)]_vars

=============================================================================
