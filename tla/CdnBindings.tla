---------------------------- MODULE CdnBindings -----------------------------
(***************************************************************************)
(* The bindings of one domain to CDN accounts (internal/cdndomain), the    *)
(* administration of providers and accounts (internal/cdn), and the CDN    *)
(* vendors that hold the acceleration domain.                              *)
(*                                                                         *)
(* Every request is cut at each call of a vendor and at each statement of  *)
(* the database, so requests overlap in any way.  A call may be refused,   *)
(* may be lost before or after it took effect, and the server may die.     *)
(* An operator with a goal repeats a request until it is answered well.    *)
(* Names of providers and accounts are left out: a name that is taken is   *)
(* an answer that changes nothing.                                         *)
(***************************************************************************)
EXTENDS CdnClients, FiniteSets

CONSTANTS
    Accounts,     \* ids in cdn_accounts; the goal is about account 1
    Providers,    \* ids in cdn_providers
    InitTypes,    \* the types the providers may have at first
    Logins,       \* credentials a vendor accepts
    Assigned,     \* accounts some row of domains names in cdn_account_id
    Requests,     \* bound: requests served at the same time
    MaxUpsets     \* bound: requests not made for the goal, requests about
                  \* providers and accounts, failed calls, deaths of the
                  \* server, and changes somebody makes at the vendor

ASSUME CdnAssumption ==
    /\ 1 \in Accounts /\ Accounts \subseteq Nat
    /\ 1 \in Providers /\ Providers \subseteq Nat
    /\ 1 \in Logins /\ Logins \subseteq Nat \ {0}
    /\ Assigned \subseteq Accounts
    /\ MaxUpsets \in Nat

VARIABLES
    providers,  \* cdn_providers: type, deleted
    accounts,   \* cdn_accounts: state, provider, credentials
    binding,    \* domain_cdn_bindings: the newest row of each account
    cdn,        \* the acceleration domain at each vendor
    requests,   \* requests being served, with what they have read
    answer,     \* the last good answer, until anything else happens
    goal,       \* what the operator wants of account 1: bound or unbound
    upsets      \* how much of MaxUpsets is used

rows == <<providers, accounts>>

vars == <<rows, binding, cdn, requests, answer, goal, upsets>>

-----------------------------------------------------------------------------

(* allowedProviderTypes: cloudflare is allowed where cloudflare_cdn is     *)
(* registered; it stands for all types that have no client.                *)
allowedProviderTypes == {"cloudflare", "tencent_cdn", "huawei_cdn", "aliyun_cdn"}

Idle == [op |-> "idle"]

NoAnswer == [op |-> "none", account |-> 0]

NoBinding == [id |-> 0, live |-> FALSE, status |-> "offline", cname |-> FALSE]

Absent == [id |-> 0, owner |-> 0, phase |-> "off"]

Present(vendor) == cdn[vendor].owner # 0

Init ==
    /\ \E type \in InitTypes, second \in Logins \cup {0} :
        /\ providers = [p \in Providers |->
               IF p = 1 THEN [type |-> type, deleted |-> FALSE]
               ELSE [type |-> "cloudflare", deleted |-> second = 0]]
        /\ accounts = [a \in Accounts |->
               IF a = 1 THEN [state |-> "live", provider |-> 1, login |-> 1]
               ELSE [state |-> IF second = 0 THEN "none" ELSE "live",
                     provider |-> 1, login |-> second]]
    /\ binding = [a \in Accounts |-> NoBinding]
    /\ cdn = [v \in Vendors |-> Absent]
    /\ requests = [r \in Requests |-> Idle]
    /\ answer = NoAnswer
    /\ goal \in {"bind", "unbind"}
    /\ upsets = 0

Upset == upsets < MaxUpsets /\ upsets' = upsets + 1

(* A request is alone while no other one and no change from outside meets  *)
(* it; only then can its answer be held against the state.                 *)
Others(r) == {q \in Requests \ {r} : requests[q] # Idle}

Disturbed(all) == [q \in Requests |->
    IF all[q] = Idle THEN Idle ELSE [all[q] EXCEPT !.alone = FALSE]]

Begin(r, request) ==
    /\ requests[r] = Idle
    /\ requests' = [IF Others(r) = {} THEN requests ELSE Disturbed(requests)
                    EXCEPT ![r] = [request EXCEPT !.alone = Others(r) = {}]]
    /\ answer' = NoAnswer

Continue(r, request) ==
    requests' = [requests EXCEPT ![r] = request] /\ UNCHANGED answer

(* The request ends with an error, or with an answer. *)
Fail(r) ==
    requests' = [requests EXCEPT ![r] = Idle] /\ answer' = NoAnswer

Succeed(r) ==
    /\ requests' = [requests EXCEPT ![r] = Idle]
    /\ answer' = IF requests[r].alone
                 THEN [op |-> requests[r].op, account |-> requests[r].account]
                 ELSE NoAnswer

-----------------------------------------------------------------------------
(* Bind, unbind and refresh: the part before the first call of the vendor. *)

GetAccountByID(a) == accounts[a].state = "live"

GetProviderByID(p) == ~providers[p].deleted

(* resolveProvider: the client of the account, "" or an error. *)
resolveProvider(a) ==
    LET p == accounts[a].provider
    IN  IF ~GetAccountByID(a) THEN "ErrAccountNotFound"
        ELSE IF ~GetProviderByID(p) THEN "error"
        ELSE Get(providers[p].type, accounts[a].login)

TypeOf(a) == providers[accounts[a].provider].type

Client(a, op, calls) ==
    [op |-> op, account |-> a, vendor |-> TypeOf(a), login |-> accounts[a].login,
     todo |-> calls, row |-> binding[a].id, id |-> 0, seen |-> NoBinding,
     alone |-> TRUE]

(* BindDomain, with no client nothing is called.                           *)
BindDomain(r, a) ==
    /\ resolveProvider(a) = ""
    /\ Begin(r, Client(a, "bind", AddDomain(TypeOf(a))))

GetBindingByID(a) == binding[a].live

UnbindDomain(r, a) ==
    /\ GetBindingByID(a) /\ resolveProvider(a) = ""
    /\ Begin(r, Client(a, "unbind", RemoveDomain(TypeOf(a))))

RefreshStatus(r, a) ==
    /\ GetBindingByID(a) /\ resolveProvider(a) = ""
    /\ Begin(r, Client(a, "refresh", GetDomain(TypeOf(a))))

(* The three handlers, for requests of anyone; and the requests of the     *)
(* operator, who is told by an answer or by the list of bindings whether   *)
(* there is something left to do.                                          *)
Bind(r, a) == BindDomain(r, a) /\ Upset /\ UNCHANGED <<rows, binding, cdn, goal>>

Unbind(r, a) == UnbindDomain(r, a) /\ Upset /\ UNCHANGED <<rows, binding, cdn, goal>>

Refresh(r, a) == RefreshStatus(r, a) /\ Upset /\ UNCHANGED <<rows, binding, cdn, goal>>

Retry(r) ==
    /\ \A q \in Requests : requests[q] = Idle \/ requests[q].op = "refresh"
    /\ \/ goal = "bind" /\ ~binding[1].live /\ BindDomain(r, 1)
       \/ goal = "unbind" /\ UnbindDomain(r, 1)
    /\ UNCHANGED <<rows, binding, cdn, goal, upsets>>

-----------------------------------------------------------------------------
(* What a vendor does with a call.  A name belongs to one login; a domain  *)
(* can be deleted when it is off, and is busy while its state changes.     *)

Addressed(r) ==
    LET q == requests[r] IN
    /\ cdn[q.vendor].owner = q.login
    /\ q.id \in {0, cdn[q.vendor].id}

Refusal(r) ==
    LET q == requests[r]
        domain == cdn[q.vendor]
    IN  IF Head(q.todo) = "add" THEN IF Present(q.vendor) THEN "exists" ELSE ""
        ELSE IF ~Addressed(r) THEN "absent"
        ELSE IF \/ Head(q.todo) = "stop" /\ domain.phase \in {"starting", "stopping"}
                \/ Head(q.todo) = "delete" /\ domain.phase \notin {"off", "failed"}
        THEN "busy" ELSE ""

(* The domain after the call: starting and stopping may take a while.      *)
Effects(r) ==
    LET q == requests[r]
        domain == cdn[q.vendor]
    IN  IF Refusal(r) # "" THEN {domain}
        ELSE CASE Head(q.todo) = "add" ->
                    {[id |-> domain.id + 1, owner |-> q.login, phase |-> p] :
                        p \in {"starting", "on"}}
               [] Head(q.todo) = "stop" /\ domain.phase = "on" ->
                    {[domain EXCEPT !.phase = p] : p \in {"stopping", "off"}}
               [] Head(q.todo) = "delete" -> {[Absent EXCEPT !.id = domain.id]}
               [] OTHER -> {domain}

(* What the client does with an error of a call; GetDomain of a domain     *)
(* that was there already is part of BindDomain, a domain that is gone is  *)
(* no error of UnbindDomain, and offline for RefreshStatus.                *)
Mishap(r, error) ==
    LET q == requests[r] IN
    IF Ignored(Head(q.todo))
    THEN Continue(r, [q EXCEPT !.todo = Tail(@)])
    ELSE IF q.op = "bind" /\ error = "ErrDomainAlreadyExists"
    THEN Continue(r, [q EXCEPT !.todo = GetDomain(q.vendor)])
    ELSE IF q.op \in {"unbind", "refresh"} /\ error = "ErrDomainNotFound"
    THEN Continue(r, [q EXCEPT !.todo = <<>>, !.seen = NoBinding])
    ELSE Fail(r)

(* The answer to a call: a domain, an id, or nothing to keep.              *)
Heard(r, domain) ==
    LET q == requests[r]
        seen == CDNDomain(q.vendor, domain.phase)
    IN  [q EXCEPT !.todo = Tail(@),
                  !.id = IF Head(q.todo) = "resolve" THEN domain.id ELSE @,
                  !.seen = IF Head(q.todo) \in {"add", "get"}
                           THEN [NoBinding EXCEPT !.status = seen.status,
                                                  !.cname = seen.cname]
                           ELSE @]

(* A call that is answered. *)
Call(r) ==
    LET q == requests[r]
        error == ErrorOf(q.vendor, Refusal(r))
    IN  /\ q # Idle /\ q.todo # <<>>
        /\ \E domain \in Effects(r) :
               /\ cdn' = [cdn EXCEPT ![q.vendor] = domain]
               /\ IF error = "" THEN Continue(r, Heard(r, domain))
                  ELSE Mishap(r, error)
        /\ UNCHANGED <<rows, binding, goal, upsets>>

(* A call that is refused for a reason of its own or not carried out.      *)
CallRefused(r, reason) ==
    LET q == requests[r] IN
    /\ q # Idle /\ q.todo # <<>>
    /\ Upset
    /\ Mishap(r, ErrorOf(q.vendor, reason))
    /\ UNCHANGED <<rows, binding, cdn, goal>>

(* A call that is carried out, and its answer lost.                        *)
CallLost(r) ==
    LET q == requests[r] IN
    /\ q # Idle /\ q.todo # <<>>
    /\ Upset
    /\ \E domain \in Effects(r) : cdn' = [cdn EXCEPT ![q.vendor] = domain]
    /\ Mishap(r, "error")
    /\ UNCHANGED <<rows, binding, goal>>

-----------------------------------------------------------------------------
(* The statement that ends a request. *)

(* One live row for a domain and an account (uq_active_domain_cdn_binding). *)
CreateBinding(r) ==
    LET q == requests[r]
        a == q.account
    IN  IF binding[a].live THEN Fail(r) /\ UNCHANGED binding
        ELSE /\ binding' = [binding EXCEPT ![a] =
                   [q.seen EXCEPT !.id = binding[a].id + 1, !.live = TRUE]]
             /\ Succeed(r)

StillLive(r) ==
    LET a == requests[r].account
    IN  binding[a].live /\ binding[a].id = requests[r].row

SoftDeleteBinding(r) ==
    IF ~StillLive(r) THEN Fail(r) /\ UNCHANGED binding
    ELSE /\ binding' = [binding EXCEPT ![requests[r].account].live = FALSE]
         /\ Succeed(r)

UpdateBindingStatus(r) ==
    IF ~StillLive(r) THEN Fail(r) /\ UNCHANGED binding
    ELSE /\ binding' = [binding EXCEPT ![requests[r].account] =
                [@ EXCEPT !.status = requests[r].seen.status,
                          !.cname = requests[r].seen.cname]]
         /\ Succeed(r)

Finish(r) ==
    LET q == requests[r] IN
    /\ q # Idle /\ q.todo = <<>>
    /\ CASE q.op = "bind"    -> CreateBinding(r)
         [] q.op = "unbind"  -> SoftDeleteBinding(r)
         [] q.op = "refresh" -> UpdateBindingStatus(r)
         [] OTHER            -> FALSE
    /\ UNCHANGED <<rows, cdn, goal, upsets>>

(* The statement fails, or the server dies at any point of a request.      *)
Abort(r) ==
    /\ requests[r] # Idle
    /\ Upset
    /\ Fail(r)
    /\ UNCHANGED <<rows, binding, cdn, goal>>

-----------------------------------------------------------------------------
(* Providers and accounts.  Deleting looks for dependents first, and so    *)
(* does creating an account for its provider, in a statement of its own.   *)

Administer ==
    /\ Upset
    /\ requests' = Disturbed(requests)
    /\ answer' = NoAnswer
    /\ UNCHANGED <<binding, cdn, goal>>

InsertProvider(p, type) ==
    /\ providers[p].deleted
    /\ providers' = [providers EXCEPT ![p] = [type |-> type, deleted |-> FALSE]]

ServiceCreateProvider(p, type) ==
    type \in allowedProviderTypes /\ InsertProvider(p, type)

CreateProvider(p, type) ==
    ServiceCreateProvider(p, type) /\ Administer /\ UNCHANGED accounts

(* The type may change under accounts that have bindings.                  *)
SetProvider(p, type) ==
    GetProviderByID(p) /\ providers' = [providers EXCEPT ![p].type = type]

ServiceUpdateProvider(p, type) ==
    type \in allowedProviderTypes /\ SetProvider(p, type)

UpdateProvider(p, type) ==
    ServiceUpdateProvider(p, type) /\ Administer /\ UNCHANGED accounts

SetAccount(a, login) ==
    GetAccountByID(a) /\ accounts' = [accounts EXCEPT ![a].login = login]

(* Credentials that are left out are stored as {}, whatever they were.     *)
ServiceUpdateAccount(a, given) ==
    SetAccount(a, IF given = {} THEN 0 ELSE CHOOSE l \in given : TRUE)

UpdateAccount(a, given) ==
    ServiceUpdateAccount(a, given) /\ Administer /\ UNCHANGED providers

AdminRequest(r, op, subject, login) ==
    /\ Upset
    /\ Begin(r, [op |-> op, account |-> subject, login |-> login, todo |-> <<>>,
                 alone |-> TRUE])
    /\ UNCHANGED <<rows, binding, cdn, goal>>

ServiceCreateAccount(p, given) ==
    [ok |-> GetProviderByID(p),
     login |-> IF given = {} THEN 0 ELSE CHOOSE l \in given : TRUE]

CreateAccount(r, a, p, given) ==
    LET service == ServiceCreateAccount(p, given) IN
    /\ accounts[a].state = "none" /\ service.ok
    /\ AdminRequest(r, "create account", [account |-> a, provider |-> p],
                    service.login)

InsertAccount(r) ==
    LET q == requests[r] IN
    /\ q # Idle /\ q.op = "create account"
    /\ IF accounts[q.account.account].state = "none"
       THEN accounts' = [accounts EXCEPT ![q.account.account] =
                [state |-> "live", provider |-> q.account.provider,
                 login |-> q.login]]
       ELSE UNCHANGED accounts
    /\ Fail(r)
    /\ UNCHANGED <<providers, binding, cdn, goal, upsets>>

(* Only the column cdn_account_id of domains is counted, not the bindings. *)
CountDomainsByAccount(a) == a \in Assigned

ServiceDeleteAccount(a) == GetAccountByID(a) /\ ~CountDomainsByAccount(a)

DeleteAccount(r, a) ==
    ServiceDeleteAccount(a) /\ AdminRequest(r, "delete account", a, 0)

SoftDeleteAccount(a) == accounts' = [accounts EXCEPT ![a].state = "deleted"]

CountAccountsByProvider(p) ==
    Cardinality({a \in Accounts : accounts[a].state = "live"
                                  /\ accounts[a].provider = p})

ServiceDeleteProvider(p) == GetProviderByID(p) /\ CountAccountsByProvider(p) = 0

DeleteProvider(r, p) ==
    ServiceDeleteProvider(p) /\ AdminRequest(r, "delete provider", p, 0)

SoftDeleteProvider(p) == providers' = [providers EXCEPT ![p].deleted = TRUE]

DeleteRow(r) ==
    LET q == requests[r] IN
    /\ q # Idle
    /\ \/ q.op = "delete account" /\ SoftDeleteAccount(q.account) /\ UNCHANGED providers
       \/ q.op = "delete provider" /\ SoftDeleteProvider(q.account) /\ UNCHANGED accounts
    /\ Fail(r)
    /\ UNCHANGED <<binding, cdn, goal, upsets>>

-----------------------------------------------------------------------------
(* The vendor's own steps: a change of state ends, well or not; somebody   *)
(* removes the domain at the vendor's console.                             *)

Settle(v) ==
    /\ Present(v) /\ cdn[v].phase \in {"starting", "stopping"}
    /\ \E p \in IF cdn[v].phase = "starting" THEN {"on", "failed"} ELSE {"off"} :
           cdn' = [cdn EXCEPT ![v].phase = p]
    /\ requests' = Disturbed(requests)
    /\ answer' = NoAnswer
    /\ UNCHANGED <<rows, binding, goal, upsets>>

Console(v) ==
    /\ Present(v)
    /\ Upset
    /\ cdn' = [cdn EXCEPT ![v] = [Absent EXCEPT !.id = cdn[v].id]]
    /\ requests' = Disturbed(requests)
    /\ answer' = NoAnswer
    /\ UNCHANGED <<rows, binding, goal>>

Admin(r) ==
    \/ \E p \in Providers, t \in allowedProviderTypes :
           CreateProvider(p, t) \/ UpdateProvider(p, t)
    \/ \E a \in Accounts, given \in {{}} \cup {{l} : l \in Logins} :
           \/ UpdateAccount(a, given)
           \/ \E p \in Providers : CreateAccount(r, a, p, given)
    \/ \E a \in Accounts : DeleteAccount(r, a)
    \/ \E p \in Providers : DeleteProvider(r, p)

Step(r) == Call(r) \/ Finish(r) \/ InsertAccount(r) \/ DeleteRow(r)

Next ==
    \/ \E r \in Requests :
           \/ \E a \in Accounts : Bind(r, a) \/ Unbind(r, a) \/ Refresh(r, a)
           \/ Retry(r) \/ Step(r) \/ Admin(r)
           \/ \E reason \in {"auth", "throttle", "broken"} : CallRefused(r, reason)
           \/ CallLost(r) \/ Abort(r)
    \/ \E v \in Vendors : Settle(v) \/ Console(v)

Spec == Init /\ [][Next]_vars

(* Requests are served, the operator repeats what failed, and a vendor     *)
(* comes to an end with a change of state.                                 *)
FairSpec ==
    /\ Spec
    /\ \A r \in Requests : WF_vars(Step(r)) /\ WF_vars(Retry(r))
    /\ \A v \in Vendors : WF_vars(Settle(v))

-----------------------------------------------------------------------------
(* What a binding should say of a domain in a phase. *)
Truth(phase) ==
    CASE phase = "on" -> {"online"}
      [] phase = "off" -> {"offline"}
      [] phase = "failed" -> {"offline", "configuring"}
      [] OTHER -> {"configuring"}

(* The request that was answered well and met no other one has left the    *)
(* database and the vendor in agreement: bound on both sides, gone on both *)
(* sides, or with the status the vendor has, whatever failed on the way    *)
(* (BindDomain, UnbindDomain, RefreshStatus: provider first, then the row). *)
AnswerIsTrue ==
    LET a == answer.account
        domain == cdn[TypeOf(a)]
        mine == domain.owner = accounts[a].login
    IN  answer.op # "none" =>
            CASE answer.op = "bind"   -> binding[a].live /\ mine
              [] answer.op = "unbind" -> ~binding[a].live /\ ~mine
              [] OTHER -> IF mine THEN /\ binding[a].status \in Truth(domain.phase)
                                       /\ binding[a].cname
                          ELSE binding[a].status = "offline" /\ ~binding[a].cname

Usable(a) ==
    resolveProvider(a) = "" /\ TypeOf(a) \in Vendors

Taken(a) == cdn[TypeOf(a)].owner \notin {0, accounts[a].login}

(* A bind that is repeated succeeds in the end, whatever an earlier        *)
(* attempt left behind: a domain added whose answer or whose row was lost, *)
(* or one that is still being set up (ErrDomainAlreadyExists, GetDomain).  *)
BindEnds ==
    goal = "bind" ~> [](Usable(1) /\ ~Taken(1) => binding[1].live)

(* An unbind that is repeated succeeds in the end: a domain already        *)
(* deleted or gone is no error, and one that is busy can be stopped and    *)
(* deleted later (UnbindDomain, RemoveDomain).                             *)
UnbindEnds ==
    goal = "unbind" ~> [](Usable(1) => ~binding[1].live)

=============================================================================
