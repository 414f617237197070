----------------------------- MODULE DomainRow ------------------------------
(***************************************************************************)
(* One row of the table domains and those who write it: operators who      *)
(* register the domain, move it through its lifecycle, track a transfer    *)
(* and bind a DNS provider, and the hourly job that compares the           *)
(* nameservers of the domain with those of its provider                    *)
(* (internal/lifecycle, internal/dnsrecord, store/postgres/domain.go).     *)
(*                                                                         *)
(* A request that reads the row and writes it later is cut in two steps;   *)
(* only a lifecycle transition looks again at what it has read.            *)
(***************************************************************************)
EXTENDS Integers, Sequences

CONSTANTS
    Providers,   \* ids in dns_providers
    Registrars,  \* names of registrars a domain may be transferred to
    Traffic,     \* bound: the kinds of requests that arrive together
    Requests,    \* bound: requests served at the same time
    Checks,      \* bound: ns_check tasks that exist at the same time
    MaxMoves,    \* bound: rows of domain_lifecycle_history
    MaxFaults    \* bound: failed calls to resolver, provider, store, notifier

ASSUME ProvidersAssumption == Providers \subseteq Nat \ {0}
ASSUME RegistrarsAssumption == "null" \notin Registrars
ASSUME TrafficAssumption == Traffic \subseteq SUBSET {"life", "transfer", "dns"}
ASSUME RowBoundsAssumption ==
    /\ Requests \subseteq Nat
    /\ Checks \subseteq Nat
    /\ MaxMoves \in Nat
    /\ MaxFaults \in Nat

VARIABLES
    life,       \* lifecycle_state, "none" before the row exists
    history,    \* domain_lifecycle_history, oldest first
    transfer,   \* transfer_status and its gaining registrar and timestamps
    provider,   \* dns_provider_id, 0 for NULL
    ns,         \* ns_delegation_status
    delegated,  \* whose nameservers the registry publishes, 0 for none
    requests,   \* requests being served, with what they have read
    checks,     \* ns_check tasks, each with its payload and program counter
    aged,       \* the row was created more than 24 hours ago
    start,      \* redis key ns:mismatch:start: "none", "young" or over 24h "old"
    alerted,    \* redis key ns:mismatch:alerted exists
    traffic,    \* the requests that arrive in this behaviour
    faults      \* how many calls have failed

dns == <<provider, ns, delegated>>

keys == <<aged, start, alerted>>

vars == <<life, history, transfer, dns, requests, checks, keys, traffic, faults>>

-----------------------------------------------------------------------------
(* The lifecycle of a domain. *)

AllLifecycleStates ==
    {"requested", "approved", "provisioned", "active", "disabled", "retired"}

validLifecycleTransitions ==
    [s \in AllLifecycleStates |->
        CASE s = "requested"   -> {"approved", "retired"}
          [] s = "approved"    -> {"provisioned", "retired"}
          [] s = "provisioned" -> {"active", "disabled", "retired"}
          [] s = "active"      -> {"disabled", "retired"}
          [] s = "disabled"    -> {"active", "retired"}
          [] OTHER             -> {}]

CanLifecycleTransition(from, to) ==
    from \in AllLifecycleStates /\ to \in validLifecycleTransitions[from]

Idle == [op |-> "idle"]

Exists == life # "none"

Serve(r, request) ==
    requests[r] = Idle /\ requests' = [requests EXCEPT ![r] = request]

Done(r) == requests' = [requests EXCEPT ![r] = Idle]

NoTransfer ==
    [status |-> "null", gaining |-> "null", requested |-> FALSE,
     completed |-> FALSE]

NoCheck == [pc |-> "none", expected |-> 0, seen |-> 0]

Init ==
    /\ life = "none"
    /\ history = <<>>
    /\ transfer = NoTransfer
    /\ provider = 0
    /\ ns = "unset"
    /\ delegated \in Providers \cup {0}
    /\ requests = [r \in Requests |-> Idle]
    /\ checks = [k \in Checks |-> NoCheck]
    /\ aged = FALSE
    /\ start = "none"
    /\ alerted = FALSE
    /\ traffic \in Traffic
    /\ faults = 0

(* Register: the row is inserted, with or without a provider; its history  *)
(* row (nil -> requested) follows in a transaction of its own.             *)
Register(r, p) ==
    /\ ~Exists
    /\ life' = "requested"
    /\ provider' = p
    /\ Serve(r, [op |-> "register"])
    /\ UNCHANGED <<history, transfer, ns, delegated, checks, keys, traffic, faults>>

RegisterHistory(r) ==
    /\ requests[r].op = "register"
    /\ history' = Append(history, [from |-> "null", to |-> "requested"])
    /\ Done(r)
    /\ UNCHANGED <<life, transfer, dns, checks, keys, traffic, faults>>

(* The handler reads the state, and Transition checks the edge.            *)
TransitionRead(r, to) ==
    /\ "life" \in traffic
    /\ CanLifecycleTransition(life, to)
    /\ Serve(r, [op |-> "move", from |-> life, to |-> to])
    /\ UNCHANGED <<life, history, transfer, dns, checks, keys, traffic, faults>>

(* Mutant: the optimistic check is missing.                                *)
StillThereOrNot(from) == from \in AllLifecycleStates

(* TransitionTx's optimistic check, under the row lock.                    *)
StillThere(from) == life = from

(* TransitionTx: update and history row in one transaction, or an error.   *)
TransitionTx(r) ==
    LET move == requests[r] IN
    /\ move.op = "move"
    /\ IF StillThere(move.from)
       THEN /\ Len(history) < MaxMoves
            /\ life' = move.to
            /\ history' = Append(history, [from |-> move.from, to |-> move.to])
       ELSE UNCHANGED <<life, history>>
    /\ Done(r)
    /\ UNCHANGED <<transfer, dns, checks, keys, traffic, faults>>

(* The server dies, or the store fails, before the request writes again.   *)
Abort(r) ==
    /\ requests[r] # Idle
    /\ Done(r)
    /\ UNCHANGED <<life, history, transfer, dns, checks, keys, traffic, faults>>

-----------------------------------------------------------------------------
(* Transfers. *)

(* InitiateTransfer's check on the row; the gaining registrar is optional. *)
InitiateRead(r, to) ==
    /\ "transfer" \in traffic
    /\ Exists
    /\ transfer.status # "pending"
    /\ Serve(r, [op |-> "initiate", gaining |-> to])
    /\ UNCHANGED <<life, history, transfer, dns, checks, keys, traffic, faults>>

(* CompleteTransfer and CancelTransfer read the row the same way.          *)
CloseRead(r, op) ==
    /\ "transfer" \in traffic
    /\ Exists
    /\ transfer.status = "pending"
    /\ Serve(r, [op |-> op, saw |-> transfer])
    /\ UNCHANGED <<life, history, transfer, dns, checks, keys, traffic, faults>>

(* Mutant: a completed transfer writes what a cancelled one does.          *)
CompletedBare(saw) == [NoTransfer EXCEPT !.status = "completed",
                                         !.completed = TRUE]

(* CompleteTransfer keeps registrar and date of the request it has read.   *)
Completed(saw) == [saw EXCEPT !.status = "completed", !.completed = TRUE]

(* UpdateTransferStatus: one unconditional UPDATE of all four columns.     *)
UpdateTransferStatus(r) ==
    LET req == requests[r] IN
    /\ req.op \in {"initiate", "complete", "cancel"}
    /\ transfer' = CASE req.op = "initiate" ->
                          [status |-> "pending", gaining |-> req.gaining,
                           requested |-> TRUE, completed |-> FALSE]
                     [] req.op = "complete" -> Completed(req.saw)
                     [] req.op = "cancel" ->
                          [NoTransfer EXCEPT !.status = "cancelled"]
    /\ Done(r)
    /\ UNCHANGED <<life, history, dns, checks, keys, traffic, faults>>

-----------------------------------------------------------------------------
(* The DNS provider of the domain. *)

(* UpdateAsset and BulkUpdateFields write the provider and nothing of its  *)
(* delegation; only the first can write NULL.                              *)
UpdateAsset(p) ==
    /\ "dns" \in traffic
    /\ Exists
    /\ provider' = p
    /\ UNCHANGED <<life, history, transfer, ns, delegated, requests, checks,
                   keys, traffic, faults>>

BulkUpdateFields(p) == p # 0 /\ UpdateAsset(p)

(* BindDNSProvider and UnbindDNSProvider: first the provider, then, in     *)
(* another statement, the delegation status.                               *)
BindProvider(r, p) ==
    /\ "dns" \in traffic
    /\ Exists
    /\ provider' = p
    /\ Serve(r, [op |-> IF p = 0 THEN "unbind" ELSE "bind"])
    /\ UNCHANGED <<life, history, transfer, ns, delegated, checks, keys,
                   traffic, faults>>

BindStatus(r) ==
    /\ requests[r].op \in {"bind", "unbind"}
    /\ ns' = IF requests[r].op = "bind" THEN "pending" ELSE "unset"
    /\ Done(r)
    /\ UNCHANGED <<life, history, transfer, provider, delegated, checks, keys,
                   traffic, faults>>

(* The registry publishes other nameservers, or none.                      *)
Delegate(q) ==
    /\ "dns" \in traffic
    /\ delegated' = q
    /\ UNCHANGED <<life, history, transfer, provider, ns, requests, checks, keys,
                   traffic, faults>>

-----------------------------------------------------------------------------
(* The nameserver check. *)

Fault == faults < MaxFaults /\ faults' = faults + 1

(* The check goes on, with what the resolver has told it.                  *)
GoOn(k, pc, seen) ==
    checks' = [checks EXCEPT ![k] = [pc |-> pc, expected |-> checks[k].expected,
                                     seen |-> seen]]

Goto(k, pc) == GoOn(k, pc, 0)

Finish(k) == checks' = [checks EXCEPT ![k] = NoCheck]

(* A check carries the nameservers its provider names; when the provider   *)
(* cannot be asked it carries none.                                        *)
Enqueue(k) ==
    /\ "dns" \in traffic
    /\ provider # 0
    /\ checks[k] = NoCheck
    /\ \E expected \in {provider, 0} :
        /\ checks' = [checks EXCEPT ![k] =
                         [pc |-> "queued", expected |-> expected, seen |-> 0]]
        /\ IF expected = 0 THEN Fault ELSE UNCHANGED faults
    /\ UNCHANGED <<life, history, transfer, dns, requests, keys, traffic>>

(* Mutant: the list leaves out the mismatches.                             *)
ListedPendingOnly == {"pending"}

(* ListWithPendingNS.                                                      *)
Listed == {"pending", "mismatch"}

CheckAll(k) == ns \in Listed /\ Enqueue(k)

TriggerVerify(k) == Exists /\ Enqueue(k)

(* CheckNSDelegation asks the resolver.  It finds no answer when nothing   *)
(* is delegated, or when the call fails.                                   *)
Lookup(k) ==
    /\ checks[k].pc = "queued"
    /\ \/ GoOn(k, "found", delegated) /\ UNCHANGED faults
       \/ GoOn(k, "found", 0) /\ Fault
    /\ UNCHANGED <<life, history, transfer, dns, requests, keys, traffic>>

nsListsMatch(expected, actual) == expected # 0 /\ expected = actual

(* UpdateNSDelegation with the result.  A failed lookup is a mismatch and  *)
(* ends the check.                                                         *)
UpdateNSDelegation(k) ==
    LET c == checks[k] IN
    /\ c.pc = "found"
    /\ \/ /\ c.seen = 0
          /\ ns' = "mismatch"
          /\ Finish(k)
       \/ /\ c.seen # 0
          /\ IF nsListsMatch(c.expected, c.seen)
             THEN ns' = "verified" /\ Goto(k, "clear")
             ELSE ns' = "mismatch" /\ Goto(k, "age")
    /\ UNCHANGED <<life, history, transfer, provider, delegated, requests, keys,
                   traffic, faults>>

(* The worker dies or the store fails: asynq runs the check again, unless  *)
(* it has done so too often or the handler swallows the error.             *)
CheckFails(k) ==
    /\ checks[k] # NoCheck
    /\ Fault
    /\ Goto(k, "queued") \/ Finish(k)
    /\ UNCHANGED <<life, history, transfer, dns, requests, keys, traffic>>

clearMismatchAlerted == start' = "none" /\ alerted' = FALSE

Verified(k) ==
    /\ checks[k].pc = "clear"
    /\ clearMismatchAlerted
    /\ Finish(k)
    /\ UNCHANGED <<life, history, transfer, dns, requests, aged, traffic, faults>>

(* The age of a mismatch: that of the key, or that of the row if there was *)
(* no key yet.                                                             *)
OlderThanADay == IF start = "none" THEN aged ELSE start = "old"

(* trySetMismatchStart, mismatchAge and trySetMismatchAlerted.  A key that *)
(* redis does not tell of counts as new.                                   *)
MismatchAge(k) ==
    /\ checks[k].pc = "age"
    /\ \E startKnown, alertKnown \in BOOLEAN :
        LET old   == IF startKnown THEN OlderThanADay ELSE aged
            first == alertKnown => ~alerted
        IN  /\ start' = IF startKnown /\ start = "none" THEN "young" ELSE start
            /\ alerted' = (alerted \/ (old /\ alertKnown))
            /\ IF old /\ first THEN Goto(k, "send") ELSE Finish(k)
            /\ IF startKnown /\ alertKnown THEN UNCHANGED faults ELSE Fault
    /\ UNCHANGED <<life, history, transfer, dns, requests, aged, traffic>>

(* The notification is sent, or fails and clears the keys.                 *)
SendAlert(k) ==
    /\ checks[k].pc = "send"
    /\ \/ UNCHANGED <<start, alerted, faults>>
       \/ clearMismatchAlerted /\ Fault
    /\ Finish(k)
    /\ UNCHANGED <<life, history, transfer, dns, requests, aged, traffic>>

(* Time passes: 24 hours for the row or the key, 7 days until the start    *)
(* key expires, an hour until the other one does.                          *)
RowAges ==
    /\ "dns" \in traffic /\ Exists /\ ~aged
    /\ aged' = TRUE
    /\ UNCHANGED <<life, history, transfer, dns, requests, checks, start,
                   alerted, traffic, faults>>

KeyAges ==
    /\ start # "none"
    /\ aged
    /\ start' = IF start = "young" THEN "old" ELSE "none"
    /\ UNCHANGED <<life, history, transfer, dns, requests, checks, aged,
                   alerted, traffic, faults>>

AlertKeyExpires ==
    /\ alerted
    /\ alerted' = FALSE
    /\ UNCHANGED <<life, history, transfer, dns, requests, checks, aged, start,
                   traffic, faults>>

-----------------------------------------------------------------------------
Request(r) ==
    \/ \E p \in Providers \cup {0} : Register(r, p) \/ BindProvider(r, p)
    \/ \E to \in AllLifecycleStates : TransitionRead(r, to)
    \/ \E to \in Registrars \cup {"null"} : InitiateRead(r, to)
    \/ \E op \in {"complete", "cancel"} : CloseRead(r, op)

Respond(r) ==
    \/ RegisterHistory(r) \/ TransitionTx(r) \/ UpdateTransferStatus(r)
    \/ BindStatus(r) \/ Abort(r)

CheckStep(k) ==
    \/ Lookup(k) \/ UpdateNSDelegation(k)
    \/ Verified(k) \/ MismatchAge(k) \/ SendAlert(k)

Clock == RowAges \/ KeyAges \/ AlertKeyExpires

Next ==
    \/ \E r \in Requests : Request(r) \/ Respond(r)
    \/ \E p \in Providers \cup {0} :
           UpdateAsset(p) \/ BulkUpdateFields(p) \/ Delegate(p)
    \/ \E k \in Checks : CheckAll(k) \/ TriggerVerify(k)
                        \/ CheckStep(k) \/ CheckFails(k)
    \/ Clock

Spec == Init /\ [][Next]_vars

(* The scheduler enqueues a check every hour, the worker runs every check, *)
(* a request ends, and time passes.                                        *)
Fairness ==
    /\ WF_vars(\E k \in Checks : CheckAll(k))
    /\ \A k \in Checks : WF_vars(CheckStep(k))
    /\ \A r \in Requests : WF_vars(Respond(r))
    /\ WF_vars(RowAges) /\ WF_vars(KeyAges) /\ WF_vars(AlertKeyExpires)

FairSpec == Spec /\ Fairness

-----------------------------------------------------------------------------
(* Properties. *)

Names == Registrars \cup {"null"}

TransferRows ==
    [status : {"null", "pending", "completed", "cancelled"}, gaining : Names,
     requested : BOOLEAN, completed : BOOLEAN]

RequestRows ==
    [op : {"idle", "register", "bind", "unbind"}]
    \cup [op : {"move"}, from : AllLifecycleStates, to : AllLifecycleStates]
    \cup [op : {"initiate"}, gaining : Names]
    \cup [op : {"complete", "cancel"}, saw : TransferRows]

HistoryRows ==
    [from : AllLifecycleStates \cup {"null"}, to : AllLifecycleStates]

Ids == Providers \cup {0}

CheckRows ==
    [pc : {"none", "queued", "found", "clear", "age", "send"},
     expected : Ids, seen : Ids]

(* Every column, key and task payload holds a value that the CHECK          *)
(* constraints and comments of the migrations list.                         *)
TypeOK ==
    /\ life \in AllLifecycleStates \cup {"none"}
    /\ history \in Seq(HistoryRows)
    /\ transfer \in TransferRows
    /\ provider \in Ids
    /\ ns \in {"unset", "pending", "verified", "mismatch"}
    /\ delegated \in Ids
    /\ requests \in [Requests -> RequestRows]
    /\ checks \in [Checks -> CheckRows]
    /\ aged \in BOOLEAN
    /\ start \in {"none", "young", "old"}
    /\ alerted \in BOOLEAN
    /\ traffic \in Traffic
    /\ faults \in Nat

(* The transitions in a history.  The row of the registration, written on  *)
(* its own, may come late and is none.                                      *)
Moves(h) == {i \in 1 .. Len(h) : h[i].from # "null"}

(* The transitions before the n-th row lead to state s.                    *)
LeadTo(h, n, s) ==
    /\ (\A i \in Moves(h) : i >= n) => s = "requested"
    /\ \A i \in Moves(h) :
          i < n /\ (\A j \in Moves(h) : j < n => j <= i) => s = h[i].to

(* The history of a domain is a path through the lifecycle graph that ends *)
(* at its state, however requests overtake each other (TransitionTx).      *)
HistoryIsPath ==
    /\ Exists => LeadTo(history, Len(history) + 1, life)
    /\ \A n \in Moves(history) :
          /\ LeadTo(history, n, history[n].from)
          /\ CanLifecycleTransition(history[n].from, history[n].to)

(* The four columns of a transfer agree although requests write them from  *)
(* a row that others change: what is pending or completed was requested,   *)
(* what is cancelled is forgotten (UpdateTransferStatus).                  *)
TransferAgrees ==
    /\ transfer.status \in {"pending", "completed"} <=> transfer.requested
    /\ transfer.status = "completed" <=> transfer.completed
    /\ transfer.gaining # "null" => transfer.requested

(* A domain whose registry and provider agree for good is found verified   *)
(* again and again, after whatever stale checks, failed calls and rebinds: *)
(* the hourly job leaves no pending or mismatched domain behind            *)
(* (HandleNSCheckAll, HandleNSCheck).                                      *)
VerifiedInTheEnd ==
    <>[](provider # 0 /\ delegated = provider)
        => []<>(ns \in {"verified", "unset"})

(* A mismatch that lasts is alerted again and again, as long as the        *)
(* resolver answers: no order of checks, expiring keys and failing         *)
(* notifications suppresses the alert for good (HandleNSCheck).            *)
MismatchAlerts ==
    <>[](provider # 0 /\ delegated # 0 /\ ns = "mismatch")
        => []<>(\E k \in Checks : checks[k].pc = "send")

=============================================================================
