----------------------------- MODULE Registrars -----------------------------
(***************************************************************************)
(* Registrars, their accounts and the sync of an account                   *)
(* (internal/registrar), and the check of expiry dates (internal/domain),  *)
(* together with the import that fills the table they work on.             *)
(*                                                                         *)
(* A sync asks the registrar for one page at a time, while domains enter   *)
(* and leave the account there, and then updates the rows one by one.  An  *)
(* expiry check reads all rows, updates them one by one and then tells of  *)
(* the changes.  Any other request, an import or a change from outside may *)
(* come between two of these steps; a page may be refused, a statement or  *)
(* a notice may fail, and the process may die.                             *)
(* Names, notes and capabilities are left out.                             *)
(***************************************************************************)
EXTENDS DomainImport, RegistrarClients

CONSTANTS
    RegistrarIds,  \* ids in registrars
    Logins,        \* credentials a registrar accepts
    InitHeld,      \* what login 1 may hold at first: name -> day
    Dates,         \* expiry dates, as days; 0 is no date
    ListLimit,     \* 200, the most rows ListWithFilter answers with
    Days,          \* the days on which something happens
    Requests       \* bound: requests served at the same time

NotHeld == -1

ASSUME RegistrarsAssumption ==
    /\ 1 \in RegistrarIds /\ 1 \in Accounts /\ 1 \in Logins
    /\ Logins \subseteq Nat \ {0}
    /\ ListLimit \in Nat
    /\ Dates \subseteq Nat /\ 0 \in Dates /\ Days \subseteq Nat /\ 0 \in Days
    /\ InitHeld \subseteq [Fqdns -> Dates \cup {NotHeld}]

VARIABLES
    registrars,  \* registrars: state, api_type
    held,        \* at the registrar: the names of each login, with dates
    requests,    \* requests being served, with what they have read
    check,       \* the expiry check that is running
    status,      \* expiry_status of the rows of domains
    told,        \* the last notice about a domain
    answer,      \* the last good answer, until anything else happens
    now          \* the day

tables == <<registrars, accounts>>

expiryVars == <<check, status, told>>

vars == <<domains, importVars, tables, held, requests, expiryVars, answer, now, events>>

Names(login) == {f \in Fqdns : held[login][f] # NotHeld}

NoRequest == [op |-> "idle"]

NoCheck == [pc |-> "idle"]

NoAnswer == [op |-> "none"]

Init ==
    /\ ImportInit
    /\ \E type \in RegisteredTypes :
           registrars = [g \in RegistrarIds |->
               IF g = 1 THEN [state |-> "live", api |-> type]
               ELSE [state |-> "none", api |-> ""]]
    /\ accounts = [a \in Accounts |->
           IF a = 1 THEN [state |-> "live", registrar |-> 1, login |-> 1]
           ELSE [state |-> "none", registrar |-> 0, login |-> 0]]
    /\ \E start \in InitHeld :
           held = [l \in Logins |-> IF l = 1 THEN start
                                    ELSE [f \in Fqdns |-> NotHeld]]
    /\ requests = [r \in Requests |-> NoRequest]
    /\ check = NoCheck
    /\ status = [f \in Fqdns |-> "ok"]
    /\ told = [f \in Fqdns |-> "none"]
    /\ answer = NoAnswer
    /\ now = 0

-----------------------------------------------------------------------------
(* An answer can be held against the state only when nothing else happened *)
(* while it was worked out.                                                *)

Disturbed(all) == [q \in Requests |->
    IF all[q] = NoRequest THEN NoRequest ELSE [all[q] EXCEPT !.alone = FALSE]]

DisturbCheck == IF check = NoCheck THEN NoCheck ELSE [check EXCEPT !.alone = FALSE]

Disturb ==
    requests' = Disturbed(requests) /\ check' = DisturbCheck /\ answer' = NoAnswer

Quiet == check = NoCheck /\ \A q \in Requests : requests[q] = NoRequest

Begin(r, request) ==
    /\ requests[r] = NoRequest
    /\ requests' = [Disturbed(requests) EXCEPT ![r] = request]
    /\ check' = DisturbCheck /\ answer' = NoAnswer

Continue(r, request) ==
    requests' = [requests EXCEPT ![r] = request] /\ UNCHANGED <<check, answer>>

Fail(r) ==
    requests' = [requests EXCEPT ![r] = NoRequest] /\ answer' = NoAnswer /\ UNCHANGED check

-----------------------------------------------------------------------------
(* Registrars and accounts. *)

GetByID(g) == registrars[g].state = "live"

GetAccountByID(a) == accounts[a].state = "live"

Administer == Event /\ Disturb /\ UNCHANGED <<domains, importVars, held, status, told, now>>

AdminRequest(r, request) ==
    /\ Event
    /\ Begin(r, request)
    /\ UNCHANGED <<domains, importVars, tables, held, status, told, now>>

InsertRegistrar(g, api) ==
    /\ registrars[g].state = "none"
    /\ registrars' = [registrars EXCEPT ![g] = [state |-> "live", api |-> api]]

ServiceCreate(g, api) == InsertRegistrar(g, api)

CreateRegistrar(g, api) ==
    ServiceCreate(g, api) /\ Administer /\ UNCHANGED accounts

(* The api_type is the one of the request, also when it has none.          *)
SetRegistrar(g, api) == registrars' = [registrars EXCEPT ![g].api = api]

ServiceUpdate(g, api) == GetByID(g) /\ SetRegistrar(g, api)

UpdateRegistrar(g, api) ==
    ServiceUpdate(g, api) /\ Administer /\ UNCHANGED accounts

(* Deleting counts the dependents first, in a statement of its own.        *)
NoAccounts(g) ==
    \A a \in Accounts : ~(accounts[a].state = "live" /\ accounts[a].registrar = g)

ServiceDelete(r, g) ==
    GetByID(g) /\ NoAccounts(g) /\ AdminRequest(r, [op |-> "delete registrar", id |-> g,
                                                    alone |-> Quiet])

DeleteRegistrar(r, g) == ServiceDelete(r, g)

SoftDelete(g) == registrars' = [registrars EXCEPT ![g].state = "deleted"]

ServiceCreateAccount(r, a, g, login) ==
    /\ GetByID(g)
    /\ AdminRequest(r, [op |-> "create account", id |-> a, registrar |-> g,
                        login |-> login, alone |-> Quiet])

CreateAccount(r, a, g, login) ==
    accounts[a].state = "none" /\ ServiceCreateAccount(r, a, g, login)

InsertAccount(q) ==
    accounts' = IF accounts[q.id].state # "none" THEN accounts
                ELSE [accounts EXCEPT ![q.id] =
                    [state |-> "live", registrar |-> q.registrar, login |-> q.login]]

(* The row is read, and written back with the credentials of the request,  *)
(* or with those it had when the request has none (0).                     *)
ServiceUpdateAccount(r, a, login) ==
    /\ GetAccountByID(a)
    /\ AdminRequest(r, [op |-> "update account", id |-> a, alone |-> Quiet,
           login |-> IF login = 0 THEN accounts[a].login ELSE login])

UpdateAccount(r, a, login) == ServiceUpdateAccount(r, a, login)

SetAccount(q) ==
    accounts' = IF ~GetAccountByID(q.id) THEN accounts
                ELSE [accounts EXCEPT ![q.id].login = q.login]

NoDomains(a) == \A f \in Fqdns : domains[f].state = "none" \/ domains[f].account # a

ServiceDeleteAccount(r, a) ==
    /\ GetAccountByID(a) /\ NoDomains(a)
    /\ AdminRequest(r, [op |-> "delete account", id |-> a, alone |-> Quiet])

DeleteAccount(r, a) == ServiceDeleteAccount(r, a)

SoftDeleteAccount(a) == accounts' = [accounts EXCEPT ![a].state = "deleted"]

(* The second statement of these requests. *)
Write(r) ==
    LET q == requests[r] IN
    /\ \/ q.op = "delete registrar" /\ SoftDelete(q.id) /\ UNCHANGED accounts
       \/ q.op = "create account" /\ InsertAccount(q) /\ UNCHANGED registrars
       \/ q.op = "update account" /\ SetAccount(q) /\ UNCHANGED registrars
       \/ q.op = "delete account" /\ SoftDeleteAccount(q.id) /\ UNCHANGED registrars
    /\ requests' = [Disturbed(requests) EXCEPT ![r] = NoRequest]
    /\ check' = DisturbCheck /\ answer' = NoAnswer
    /\ UNCHANGED <<domains, importVars, held, status, told, now, events>>

-----------------------------------------------------------------------------
(* The sync of an account. *)

SyncAccount(r, a) ==
    LET g == accounts[a].registrar
        type == registrars[g].api
        login == accounts[a].login
    IN  /\ GetAccountByID(a) /\ GetByID(g) /\ type # ""
        /\ GetProvider(type, login)
        /\ AdminRequest(r, [op |-> "sync", id |-> a, type |-> type, login |-> login,
               pc |-> "list", cursor |-> FirstPage(type), listed |-> {},
               todo |-> {}, notFound |-> {}, errors |-> FALSE,
               kept |-> Names(login), left |-> FALSE, alone |-> Quiet])

(* The handler begins a sync that somebody asks for. *)
Sync(r, a) == SyncAccount(r, a)

(* One page; an answer that is not seen to be an error is taken as a page, *)
(* and has no items when it is one.                                        *)
FetchPage(r, refused) ==
    LET q == requests[r] IN
    /\ q.op = "sync" /\ q.pc = "list"
    /\ IF refused THEN Event ELSE UNCHANGED events
    /\ \E reply \in Answers(q.type, refused) :
        LET page == ListDomains(q.type, IF refused THEN {} ELSE Names(q.login), q.cursor)
            infos == {[cursor |-> q.cursor,
                       info |-> DomainInfo(q.type, f, held[q.login][f])] : f \in page.items}
        IN  IF FetchOK(q.type, reply)
            THEN Continue(r, [q EXCEPT !.cursor = page.next,
                     !.pc = IF page.more THEN "list" ELSE "write",
                     !.listed = @ \cup page.items,
                     !.todo = @ \cup infos])
            ELSE Fail(r)
    /\ UNCHANGED <<domains, importVars, tables, held, status, told, now>>

(* Mutant: the row of a name is updated whichever account it has.          *)
MatchesAnyAccount(info, a) == domains[info.fqdn].state # "none"

Matches(info, a) ==
    domains[info.fqdn].state # "none" /\ domains[info.fqdn].account = a

(* The first domain of the list that is left: pages are asked for with     *)
(* growing cursors, and have their names in order.                         *)
FirstOf(todo) ==
    CHOOSE i \in todo : \A k \in todo :
        \/ i.cursor < k.cursor
        \/ i.cursor = k.cursor /\ i.info.fqdn <= k.info.fqdn

(* The row of the name, if it belongs to the account.                      *)
UpdateDomainDates(r) ==
    LET q == requests[r]
        info == FirstOf(q.todo).info
        found == Matches(info, q.id)
    IN  /\ q.op = "sync" /\ q.pc = "write" /\ q.todo # {}
        /\ domains' = IF found THEN [domains EXCEPT ![info.fqdn].expiry = info.expiry]
                      ELSE domains
        /\ requests' = [Disturbed(requests) EXCEPT ![r] =
               [q EXCEPT !.todo = @ \ {FirstOf(@)},
                         !.notFound = IF found THEN @ ELSE @ \cup {info.fqdn}]]
        /\ check' = DisturbCheck /\ answer' = NoAnswer
        /\ UNCHANGED <<importVars, tables, held, status, told, now, events>>

(* The statement fails: the name is reported, and the sync goes on.        *)
UpdateFails(r) ==
    LET q == requests[r] IN
    /\ q.op = "sync" /\ q.pc = "write" /\ q.todo # {}
    /\ Event
    /\ Continue(r, [q EXCEPT !.todo = @ \ {FirstOf(@)}, !.errors = TRUE])
    /\ UNCHANGED <<domains, importVars, tables, held, status, told, now>>

SyncDone(r) ==
    LET q == requests[r] IN
    /\ q.op = "sync" /\ q.pc = "write" /\ q.todo = {}
    /\ requests' = [requests EXCEPT ![r] = NoRequest]
    /\ answer' = IF q.alone /\ ~q.errors
                 THEN [op |-> "sync", account |-> q.id, login |-> q.login,
                       notFound |-> q.notFound]
                 ELSE NoAnswer
    /\ UNCHANGED <<domains, importVars, tables, held, expiryVars, now, events>>

(* The server dies during a request. *)
Abort(r) ==
    /\ requests[r] # NoRequest
    /\ Event
    /\ Fail(r)
    /\ UNCHANGED <<domains, importVars, tables, held, status, told, now>>

-----------------------------------------------------------------------------
(* The expiry check, a task of the queue; one at a time is modelled. *)

daysUntil(expiry, day) == expiry - day

(* Mutant: the day of expiry itself is the last good one.                  *)
ComputeExpiryStatusLate(expiry, graceEnd, day) ==
    LET left == daysUntil(expiry, day)
    IN  IF expiry = 0 \/ left > 90 THEN "ok"
        ELSE IF left <= 0 THEN IF day < graceEnd THEN "grace" ELSE "expired"
        ELSE IF left < 7 THEN "expiring_7d"
        ELSE IF left < 30 THEN "expiring_30d"
        ELSE "expiring_90d"

ComputeExpiryStatus(expiry, graceEnd, day) ==
    LET left == daysUntil(expiry, day)
    IN  IF expiry = 0 \/ left > 90 THEN "ok"
        ELSE IF left <= 0 THEN IF day < graceEnd THEN "grace" ELSE "expired"
        ELSE IF left <= 7 THEN "expiring_7d"
        ELSE IF left <= 30 THEN "expiring_30d"
        ELSE "expiring_90d"

(* The rows with the lowest ids, retired ones too.  The check asks for     *)
(* 10000 rows and gets ListLimit.                                          *)
ListWithFilter == {f \in Fqdns : domains[f].id \in 1..ListLimit}

(* The rows are read at once; grace_end_date is never set.                 *)
CheckAllExpiry ==
    /\ check = NoCheck
    /\ Event
    /\ check' = [pc |-> "update", day |-> now, alone |-> Quiet, changed |-> {},
                 todo |-> {f \in ListWithFilter : domains[f].state = "live"
                                                  /\ domains[f].expiry # 0},
                 read |-> [f \in Fqdns |-> [status |-> status[f],
                                            expiry |-> domains[f].expiry]]]
    /\ requests' = Disturbed(requests)
    /\ answer' = NoAnswer
    /\ UNCHANGED <<domains, importVars, tables, held, status, told, now>>

(* The next row; one whose status is the same is passed over, and one that *)
(* cannot be written (an event) is not told of.                            *)
UpdateExpiryStatus(failing) ==
    LET f == CHOOSE x \in check.todo : \A y \in check.todo : x <= y
        new == ComputeExpiryStatus(check.read[f].expiry, 0, check.day)
        write == new # check.read[f].status /\ ~failing
    IN  /\ check.pc = "update" /\ check.todo # {}
        /\ IF failing THEN Event /\ new # check.read[f].status ELSE UNCHANGED events
        /\ status' = IF write THEN [status EXCEPT ![f] = new] ELSE status
        /\ check' = [check EXCEPT !.todo = @ \ {f},
               !.alone = @ /\ ~failing,
               !.changed = IF write THEN @ \cup {[fqdn |-> f, status |-> new]} ELSE @]
        /\ UNCHANGED <<domains, importVars, tables, held, requests, told, answer, now>>

CheckUpdated ==
    /\ check.pc = "update" /\ check.todo = {}
    /\ check' = [check EXCEPT !.pc = "tell"]
    /\ UNCHANGED <<domains, importVars, tables, held, requests, status, told, answer,
                   now, events>>

(* A domain that is well again is put with the expired ones.               *)
groupByStatus(changed, key) ==
    {c \in changed : IF c.status = "ok" THEN key = "expired" ELSE c.status = key}

(* One notice for each group; a notice that fails is logged only.          *)
Send(key, lost) ==
    LET group == groupByStatus(check.changed, key)
        names == {c.fqdn : c \in group}
    IN  /\ check.pc = "tell" /\ group # {}
        /\ IF lost THEN Event ELSE UNCHANGED events
        /\ told' = [f \in Fqdns |-> IF f \notin names THEN told[f]
                                    ELSE IF lost THEN "lost" ELSE key]
        /\ check' = [check EXCEPT !.changed = @ \ group]
        /\ UNCHANGED <<domains, importVars, tables, held, requests, status, answer, now>>

CheckDone ==
    /\ check.pc = "tell" /\ check.changed = {}
    /\ check' = NoCheck
    /\ answer' = IF check.alone THEN [op |-> "check", day |-> check.day] ELSE NoAnswer
    /\ UNCHANGED <<domains, importVars, tables, held, requests, status, told, now, events>>

(* The worker dies: what it has not told of yet is never told.             *)
CheckDies ==
    /\ check # NoCheck
    /\ Event
    /\ told' = [f \in Fqdns |-> IF \E c \in check.changed : c.fqdn = f
                                THEN "lost" ELSE told[f]]
    /\ check' = NoCheck /\ answer' = NoAnswer
    /\ UNCHANGED <<domains, importVars, tables, held, requests, status, now>>

-----------------------------------------------------------------------------
(* Changes from outside: a name enters or leaves the login at the          *)
(* registrar or is renewed there, a row is edited, time passes.            *)

AtRegistrar(l, f, day) ==
    /\ held[l][f] # day
    /\ Event
    /\ held' = [held EXCEPT ![l][f] = day]
    /\ requests' = [q \in Requests |->
           LET s == Disturbed(requests)[q] IN
           IF s # NoRequest /\ s.op = "sync" /\ s.pc = "list" /\ s.login = l /\ day = NotHeld
           THEN [s EXCEPT !.kept = @ \ {f}, !.left = TRUE] ELSE s]
    /\ check' = DisturbCheck /\ answer' = NoAnswer
    /\ UNCHANGED <<domains, importVars, tables, status, told, now>>

(* UpdateAsset writes the account and the date of the form.                *)
UpdateAsset(f, a, expiry) ==
    /\ domains[f].state # "none"
    /\ a # 0 => accounts[a].state # "none"
    /\ Event /\ Disturb
    /\ domains' = [domains EXCEPT ![f].account = a, ![f].expiry = expiry]
    /\ UNCHANGED <<importVars, tables, held, status, told, now>>

DayPasses(day) ==
    /\ day > now
    /\ now' = day
    /\ Event
    /\ answer' = NoAnswer
    /\ UNCHANGED <<domains, importVars, tables, held, requests, expiryVars>>

(* A step of an import, or of somebody who registers or retires.           *)
Import == ImportNext /\ Disturb /\ UNCHANGED <<tables, held, status, told, now>>

Admin(r) ==
    \/ \E g \in RegistrarIds, api \in RegisteredTypes \cup {""} :
           CreateRegistrar(g, api) \/ UpdateRegistrar(g, api)
    \/ \E g \in RegistrarIds : DeleteRegistrar(r, g)
    \/ \E a \in Accounts, l \in Logins \cup {0} :
           UpdateAccount(r, a, l) \/ \E g \in RegistrarIds : CreateAccount(r, a, g, l)
    \/ \E a \in Accounts : DeleteAccount(r, a) \/ Sync(r, a)

Outside ==
    \/ \E l \in Logins, f \in Fqdns, day \in Dates \cup {NotHeld} : AtRegistrar(l, f, day)
    \/ \E f \in Fqdns, a \in Accounts \cup {0}, day \in Dates : UpdateAsset(f, a, day)
    \/ \E day \in Days : DayPasses(day)

Next ==
    \/ Import
    \/ \E r \in Requests :
           \/ Admin(r) \/ Write(r)
           \/ \E refused \in BOOLEAN : FetchPage(r, refused)
           \/ UpdateDomainDates(r) \/ UpdateFails(r) \/ SyncDone(r) \/ Abort(r)
    \/ CheckAllExpiry \/ CheckUpdated \/ CheckDone \/ CheckDies
    \/ \E bad \in BOOLEAN : UpdateExpiryStatus(bad)
    \/ \E key \in {"expiring_90d", "expiring_30d", "expiring_7d", "expired"},
          lost \in BOOLEAN : Send(key, lost)
    \/ Outside

Spec == Init /\ [][Next]_vars

(* The server and the workers go on with imports.                          *)
FairSpec ==
    Spec /\ \A j \in Jobs :
        WF_vars((Enqueue(j) \/ HandleDomainImport(j)) /\ Disturb
                /\ UNCHANGED <<tables, held, status, told, now>>)

-----------------------------------------------------------------------------
(* A sync that was answered and met nothing else has left the rows of its  *)
(* account with the dates the registrar has, and has named every domain of *)
(* the registrar that has no such row (SyncAccount, UpdateDomainDates).    *)
SyncIsTrue ==
    answer.op = "sync" => \A f \in Names(answer.login) :
        IF domains[f].state # "none" /\ domains[f].account = answer.account
        THEN domains[f].expiry = held[answer.login][f]
        ELSE f \in answer.notFound

(* A sync that goes on to write has seen every name the login held from    *)
(* its first page to its last: with GoDaddy's markers whatever leaves in   *)
(* between, with page numbers as long as nothing does; and an answer that  *)
(* says an error is never taken for the end of the list (ListDomains).     *)
NothingMissed ==
    \A r \in Requests :
        LET q == requests[r]
        IN  q.op = "sync" => (q.pc = "write" /\ (q.type = "godaddy" \/ ~q.left)
                              => q.kept \subseteq q.listed)

(* After an expiry check that met nothing else, every live domain with a   *)
(* date, of the rows ListWithFilter answers with, has the status of its    *)
(* date, and the last notice about one that is expiring or expired names   *)
(* that status, or was lost (CheckAllExpiry, ProcessTask: the status is    *)
(* stored before the notice goes out).                                     *)
ExpiryIsTold ==
    answer.op = "check" => \A f \in ListWithFilter :
        domains[f].state = "live" /\ domains[f].expiry # 0 =>
            LET left == domains[f].expiry - answer.day IN
            /\ (status[f] = "ok") = (left > 90)
            /\ (status[f] = "expired") = (left <= 0)
            /\ (status[f] = "expiring_7d") = (left \in 1..7)
            /\ status[f] # "ok" => told[f] \in {status[f], "lost"}

=============================================================================
