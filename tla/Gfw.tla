-------------------------------- MODULE Gfw ---------------------------------
(***************************************************************************)
(* Detection of blocking, for one domain: nodes inside (role probe) and    *)
(* outside (role control) of the firewall measure the domain in four       *)
(* layers and submit what they see (cmd/probe); a request for the latest   *)
(* verdict compares the newest pair of measurements, counts how often and  *)
(* from how many nodes blocking was seen, stores a verdict, writes the     *)
(* blocking columns of the domain and fires or resolves an alert           *)
(* (internal/gfw).                                                         *)
(*                                                                         *)
(* Nodes are processes of their own and requests goroutines of the server; *)
(* they share the database and a record in Redis, and no lock.  Each is    *)
(* cut where it calls the network, the database, Redis or the queue.       *)
(***************************************************************************)
EXTENDS AlertEvents, FiniteSets

CONSTANTS
    Nodes,         \* operator-assigned node ids
    RoleOf,        \* the role each node is configured with
    Rules,         \* rows of notification_rules
    Requests,      \* goroutines of the API server, numbered
    Worlds,        \* bound: what the site and the firewall may be doing
    Troubles,      \* bound: what one check may meet that is nobody's doing
    MaxMeasured,   \* bound: measurements taken
    MaxEvents      \* bound: changes of the world, expiries, failed calls

SiteStates == {"up", "cdn", "down", "gone"}

CensorActs == {"none", "bogon", "poison", "nxdomain", "mute", "drop",
               "reset", "stall", "page", "stub", "451"}

(* The resolver fails, or answers in less than 5 ms; a connection, a        *)
(* handshake or a request fails.                                            *)
TroubleKinds == {"resolver", "fast", "connect", "handshake", "request"}

ASSUME GfwAssumption ==
    /\ RoleOf \in [Nodes -> {"probe", "control"}]
    /\ Requests \subseteq Nat
    /\ Worlds \subseteq [site : SiteStates, censor : CensorActs]
    /\ Troubles \subseteq SUBSET TroubleKinds
    /\ MaxMeasured \in Nat
    /\ MaxEvents \in Nat

VARIABLES
    world,         \* the site and the firewall, outside of the program
    nodes,         \* gfw_probe_nodes: the nodes that have registered
    assignment,    \* gfw_check_assignments: the row of the domain
    process,       \* what each probe binary is doing
    measurements,  \* gfw_measurements
    measured,      \* the measurements taken so far, which orders them
    confidence,    \* the record of the domain in Redis
    found,         \* every analysis that found blocking and was counted
                   \* (history)
    verdicts,      \* gfw_verdicts
    domain,        \* the blocking columns of the domain
    alerts,        \* alert_events
    notices,       \* notify:send tasks enqueued
    request,       \* what each request is doing
    events         \* how many events have happened

environment == <<world, events>>
nodeVars    == <<nodes, assignment, process, measurements, measured>>
verdictVars == <<confidence, found, verdicts, domain, alerts, notices, request>>

vars == <<environment, nodeVars, verdictVars>>

-----------------------------------------------------------------------------
(* What a node sees (Checker.FullCheck).  Results that are nil or empty in *)
(* the code are absent here.                                               *)

NoHTTP == [status |-> 0, title |-> "", length |-> 0, error |-> "absent"]

(* The firewall acts on probes only. *)
Acts(w, role) == IF role = "probe" THEN w.censor ELSE "none"

(* The addresses the name resolves to; a CDN answers with another edge     *)
(* inside than outside.                                                    *)
Resolved(w, role) ==
    LET act == Acts(w, role)
    IN  IF act = "bogon" THEN {"bogon"}
        ELSE IF act = "poison" THEN {"fake"}
        ELSE IF act \in {"nxdomain", "mute"} \/ w.site = "gone" THEN {}
        ELSE IF w.site # "cdn" THEN {"site"}
        ELSE IF role = "probe" THEN {"edge1"} ELSE {"edge2"}

AnyBogon(ips) == "bogon" \in ips

(* Whoever answered: the time is all that is looked at. *)
IsLikelyInjected(trouble) == "fast" \in trouble

(* A response without an answer is not an error, a missing response is. *)
CheckDNS(w, role, trouble) ==
    LET failed  == "resolver" \in trouble \/ Acts(w, role) = "mute"
        answers == IF failed THEN {} ELSE Resolved(w, role)
    IN  [answers  |-> answers,
         error    |-> IF failed THEN "timeout" ELSE "",
         bogon    |-> AnyBogon(answers),
         injected |-> answers # {} /\ IsLikelyInjected(trouble)]

Genuine(ip) == ip \notin {"bogon", "fake"}

(* The firewall lets packets through to the address. *)
Reaches(w, role, ip) == Genuine(ip) /\ Acts(w, role) # "drop"

classifyNetError(w, role, ip, trouble) ==
    IF Reaches(w, role, ip) /\ "connect" \notin trouble
    THEN "connection_refused" ELSE "timeout"

CheckTCP(w, role, ip, trouble) ==
    IF Reaches(w, role, ip) /\ w.site # "down" /\ "connect" \notin trouble
    THEN "ok" ELSE classifyNetError(w, role, ip, trouble)

CheckTLS(w, role, trouble) ==
    IF Acts(w, role) = "reset" \/ "handshake" \in trouble
    THEN "connection_reset"
    ELSE IF Acts(w, role) = "stall" THEN "timeout" ELSE "ok"

(* An HTTP request resolves, connects and shakes hands again. *)
CheckHTTP(w, role, ip, trouble) ==
    LET act == Acts(w, role)
        tcp == CheckTCP(w, role, ip, {})
        tls == CheckTLS(w, role, {})
        page(status, title, length) ==
            [status |-> status, title |-> title, length |-> length, error |-> ""]
    IN  IF "request" \in trouble THEN [NoHTTP EXCEPT !.error = "timeout"]
        ELSE IF tcp # "ok" THEN [NoHTTP EXCEPT !.error = tcp]
        ELSE IF tls # "ok" THEN [NoHTTP EXCEPT !.error = tls]
        ELSE CASE act = "page" -> page(200, "notice", 100)
               [] act = "stub" -> page(200, "", 10)
               [] act = "451"  -> page(451, "", 0)
               [] OTHER        -> page(200, "site", 100)

(* Without an answer only the first layer has a result.  TLS is tried on   *)
(* the addresses that accept a connection.  The world and the trouble are  *)
(* recorded for the properties.                                            *)
FullCheck(n, w, trouble) ==
    LET role == RoleOf[n]
        dns  == CheckDNS(w, role, trouble)
        tcp  == {CheckTCP(w, role, ip, trouble) : ip \in dns.answers}
    IN  [node |-> n, role |-> role, at |-> measured + 1,
         seen |-> w, trouble |-> trouble,
         dns  |-> dns,
         tcp  |-> tcp,
         tls  |-> IF "ok" \in tcp THEN {CheckTLS(w, role, trouble)} ELSE {},
         http |-> IF dns.answers = {} THEN NoHTTP
                  ELSE CheckHTTP(w, role, CHOOSE ip \in dns.answers : TRUE,
                                 trouble)]

-----------------------------------------------------------------------------
(* The decision tree (Analyzer).  control is the set of the control        *)
(* measurements there are: none or one.                                    *)

CDNAddresses == {"edge1", "edge2"}

(* The CDN an address belongs to. *)
Lookup(ip) == IF ip \in CDNAddresses THEN "cloudflare" ELSE ""

cdnMatchAll(probeIPs, controlIPs) ==
    /\ probeIPs # {} /\ controlIPs # {}
    /\ \E owner \in {"cloudflare"} :
        \A ip \in probeIPs \cup controlIPs : Lookup(ip) = owner

(* Mutant: addresses of one CDN are compared like others.                  *)
checkDNSStrict(probe, control) ==
    ~ \/ probe.dns.bogon \/ probe.dns.injected
      \/ probe.dns.error # "" /\ \A c \in control : c.dns.error = ""
      \/ \E c \in control :
            /\ c.dns.answers # {}
            /\ probe.dns.answers \cap c.dns.answers = {}

(* Whether the answers are consistent. *)
checkDNS(probe, control) ==
    ~ \/ probe.dns.bogon \/ probe.dns.injected
      \/ probe.dns.error # "" /\ \A c \in control : c.dns.error = ""
      \/ \E c \in control :
            /\ c.dns.answers # {}
            /\ probe.dns.answers \cap c.dns.answers = {}
            /\ ~cdnMatchAll(probe.dns.answers, c.dns.answers)

(* Every connection of the probe failed and one of the control did not. *)
checkTCP(probe, control) ==
    /\ probe.tcp # {} /\ "ok" \notin probe.tcp
    /\ \E c \in control : "ok" \in c.tcp

isTLSSNIError(error) == error \in {"connection_reset", "tls_handshake_failure"}

checkTLS(probe, control) ==
    /\ probe.tls # {} /\ \A e \in probe.tls : isTLSSNIError(e)
    /\ \E c \in control : "ok" \in c.tls

isHTTPBlockStatus(status) == status \in {0, 451}

isHTTPDiff(p, c) ==
    \/ p.status # c.status /\ p.status >= 200 /\ c.status >= 200
    \/ p.title # c.title /\ p.title # "" /\ c.title # ""
    \/ /\ p.length > 0 /\ c.length > 0
       /\ 10 * p.length < 3 * c.length \/ p.length > 3 * c.length

checkHTTP(probe, control) ==
    IF probe.http.error = "absent" THEN ""
    ELSE IF probe.http.error # "" \/ isHTTPBlockStatus(probe.http.status)
    THEN "http-failure"
    ELSE IF \E c \in control : c.http.error = "" /\ isHTTPDiff(probe.http, c.http)
    THEN "http-diff" ELSE ""

(* The layer that is blocked; "" is BlockingNone, and accessible. *)
Classify(probe, control) ==
    IF ~checkDNS(probe, control) THEN "dns"
    ELSE IF checkTCP(probe, control) THEN "tcp_ip"
    ELSE IF checkTLS(probe, control) THEN "tls_sni"
    ELSE checkHTTP(probe, control)

-----------------------------------------------------------------------------
(* Confidence in hundredths, and what follows from it.                     *)

NoConfidence == [count |-> 0, nodes |-> {}, last |-> ""]

scoreFromState(s) ==
    IF Cardinality(s.nodes) >= 2 THEN IF s.count >= 3 THEN 90 ELSE 70
    ELSE IF s.count >= 2 THEN 50
    ELSE IF s.count >= 1 THEN 30
    ELSE 0

(* Mutant: an observation is counted twice.                                *)
RecordTwice(s, node, blocking) ==
    IF blocking = "" THEN NoConfidence
    ELSE [count |-> s.count + 2, nodes |-> s.nodes \cup {node}, last |-> blocking]

(* One more observation: another layer starts the count again and keeps    *)
(* the nodes.                                                              *)
Record(s, node, blocking) ==
    IF blocking = "" THEN NoConfidence
    ELSE [count |-> IF s.last \in {"", blocking} THEN s.count + 1 ELSE 1,
          nodes |-> s.nodes \cup {node},
          last  |-> blocking]

classifyBlocking(score, blocking) ==
    IF blocking = "" THEN [status |-> "none", severity |-> "none"]
    ELSE IF score >= 90 THEN [status |-> "blocked", severity |-> "P1"]
    ELSE IF score >= 70 THEN [status |-> "possibly_blocked", severity |-> "P2"]
    ELSE IF score >= 30 THEN [status |-> "none", severity |-> "P3"]
    ELSE [status |-> "none", severity |-> "none"]

-----------------------------------------------------------------------------
(* State. *)

NoAssignment == [enabled |-> FALSE, nodes |-> {}]

AllNodes == [enabled |-> TRUE, nodes |-> Nodes]

Down == [pc |-> "down", batch |-> {}]

IdleNode == [pc |-> "idle", batch |-> {}]

Verdict(probe, control, blocking, score) ==
    [probe |-> probe, control |-> control, blocking |-> blocking,
     confidence |-> score]

NoVerdict == Verdict({}, {}, "", 0)

(* A request: the locals of AnalyzeAndStore and Fire.  loaded is what it   *)
(* read from Redis.                                                        *)
Request(pc, verdict, loaded, alert, todo) ==
    [pc |-> pc, verdict |-> verdict, loaded |-> loaded, alert |-> alert,
     todo |-> todo]

IdleRequest == Request("idle", NoVerdict, NoConfidence, 0, {})

NotBlocked == [status |-> "none", type |-> "", confidence |-> 0]

Key == "gfw:blocked"

Init ==
    /\ world \in Worlds
    /\ nodes = Nodes
    /\ assignment = AllNodes
    /\ process = [n \in Nodes |-> IdleNode]
    /\ measurements = {}
    /\ measured = 0
    /\ confidence = NoConfidence
    /\ found = [count |-> 0, nodes |-> {}]
    /\ verdicts = {}
    /\ domain = NotBlocked
    /\ alerts = <<>>
    /\ notices = {}
    /\ request = [r \in Requests |-> IdleRequest]
    /\ events = 0

Event == events < MaxEvents /\ events' = events + 1

NoEvent == UNCHANGED events

-----------------------------------------------------------------------------
(* The world. *)

WorldChanges ==
    /\ world' \in Worlds \ {world}
    /\ Event
    /\ UNCHANGED <<nodeVars, verdictVars>>

(* The key in Redis expires two hours after it was written. *)
ConfidenceExpires ==
    /\ confidence # NoConfidence
    /\ confidence' = NoConfidence
    /\ Event
    /\ UNCHANGED <<world, nodeVars, found, verdicts, domain, alerts, notices, request>>

-----------------------------------------------------------------------------
(* Assignments (an operator). *)

(* The row names all the nodes. *)
UpsertAssignment ==
    /\ assignment = NoAssignment
    /\ assignment' = AllNodes
    /\ NoEvent
    /\ UNCHANGED <<world, nodes, process, measurements, measured, verdictVars>>

DisableAssignment ==
    /\ assignment.enabled
    /\ assignment' = [assignment EXCEPT !.enabled = FALSE]
    /\ Event
    /\ UNCHANGED <<world, nodes, process, measurements, measured, verdictVars>>

DeleteAssignment ==
    /\ assignment # NoAssignment
    /\ assignment' = NoAssignment
    /\ Event
    /\ UNCHANGED <<world, nodes, process, measurements, measured, verdictVars>>

-----------------------------------------------------------------------------
(* The probe binary. *)

(* An upsert of the row. *)
StoreNode(n) == nodes' = nodes \cup {n}

(* The service accepts the two roles. *)
RegisterNode(n) == RoleOf[n] \in {"probe", "control"} /\ StoreNode(n)

(* The binary starts and registers; without an answer it gives up. *)
Register(n) ==
    /\ process[n].pc = "down"
    /\ \/ RegisterNode(n) /\ process' = [process EXCEPT ![n] = IdleNode] /\ NoEvent
       \/ RegisterNode(n) /\ UNCHANGED process /\ Event
    /\ UNCHANGED <<world, assignment, measurements, measured, verdictVars>>

ListAssignmentsForNode(n) == assignment.enabled /\ n \in assignment.nodes

(* The enabled assignments that name a node that is known. *)
GetAssignments(n) == n \in nodes /\ ListAssignmentsForNode(n)

(* A round of the measure loop: fetch the assignments, check the domain.   *)
RunMeasurements(n) ==
    /\ process[n].pc = "idle"
    /\ GetAssignments(n)
    /\ measured < MaxMeasured
    /\ \E trouble \in Troubles :
        /\ process' = [process EXCEPT ![n] =
             [pc |-> "submit", batch |-> {FullCheck(n, world, trouble)}]]
        /\ IF trouble = {} THEN NoEvent ELSE Event
    /\ measured' = measured + 1
    /\ UNCHANGED <<world, nodes, assignment, measurements, verdictVars>>

(* One transaction. *)
InsertMeasurements(batch) == measurements' = measurements \cup batch

StoreMeasurements(n, batch) ==
    IF n \in nodes THEN InsertMeasurements(batch) ELSE UNCHANGED measurements

(* A batch is sent once; one that is lost, or refused, is dropped. *)
SubmitMeasurements(n) ==
    /\ process[n].pc = "submit"
    /\ process' = [process EXCEPT ![n] = IdleNode]
    /\ \/ StoreMeasurements(n, process[n].batch) /\ NoEvent
       \/ UNCHANGED measurements /\ Event
    /\ UNCHANGED <<world, nodes, assignment, measured, verdictVars>>

Crash(n) ==
    /\ process[n].pc # "down"
    /\ process' = [process EXCEPT ![n] = Down]
    /\ Event
    /\ UNCHANGED <<world, nodes, assignment, measurements, measured, verdictVars>>

-----------------------------------------------------------------------------
(* A request for the latest verdict. *)

At(r, pc) == request[r].pc = pc

Goto(r, pc) == request' = [request EXCEPT ![r].pc = pc]

Return(r) == request' = [request EXCEPT ![r] = IdleRequest]

(* Goroutines are interchangeable: the first that is idle takes a request. *)
Ready(r) == At(r, "idle") /\ \A q \in Requests : q < r => ~At(q, "idle")

Newest(S) == {m \in S : \A o \in S : o.at <= m.at}

(* The newest measurement of each role. *)
LatestMeasurementPair ==
    [role \in {"probe", "control"} |->
        Newest({m \in measurements : m.role = role})]

(* Only a domain without a verdict is analysed. *)
LatestVerdict(r) ==
    /\ Ready(r)
    /\ verdicts = {}
    /\ Goto(r, "fetch")
    /\ NoEvent
    /\ UNCHANGED <<world, nodeVars, confidence, found, verdicts, domain, alerts, notices>>

(* Without a probe measurement there is nothing to analyse. *)
FetchMeasurements(r) ==
    LET pair == LatestMeasurementPair
    IN  /\ At(r, "fetch")
        /\ \/ /\ pair["probe"] = {}
              /\ Return(r)
              /\ NoEvent
           \/ /\ Return(r)
              /\ Event
           \/ \E probe \in pair["probe"] :
                /\ request' = [request EXCEPT ![r] =
                     Request("load",
                             Verdict({probe}, pair["control"],
                                     Classify(probe, pair["control"]), 0),
                             NoConfidence, 0, {})]
                /\ NoEvent
        /\ UNCHANGED <<world, nodeVars, confidence, found, verdicts, domain, alerts, notices>>

(* Record, first half.  An error leaves the confidence at 0. *)
LoadConfidence(r) ==
    /\ At(r, "load")
    /\ \/ /\ request' = [request EXCEPT ![r].pc = "save", ![r].loaded = confidence]
          /\ NoEvent
       \/ /\ Goto(r, "persist")
          /\ Event
    /\ UNCHANGED <<world, nodeVars, confidence, found, verdicts, domain, alerts, notices>>

NodeOf(v) == (CHOOSE m \in v.probe : TRUE).node

(* Record, second half: what was loaded plus this observation is written   *)
(* over whatever is there now.                                             *)
SaveConfidence(r) ==
    LET v == request[r].verdict
        s == Record(request[r].loaded, NodeOf(v), v.blocking)
        observed ==
            IF v.blocking = "" THEN UNCHANGED found
            ELSE found' = [count |-> found.count + 1, nodes |-> found.nodes \cup {NodeOf(v)}]
        persist(score) ==
            request' = [request EXCEPT ![r] =
                Request("persist", [v EXCEPT !.confidence = score], NoConfidence, 0, {})]
    IN  /\ At(r, "save")
        /\ \/ confidence' = s /\ observed /\ persist(scoreFromState(s)) /\ NoEvent
           \/ confidence' = s /\ observed /\ persist(0) /\ Event
           \/ UNCHANGED <<confidence, found>> /\ persist(0) /\ Event
        /\ UNCHANGED <<world, nodeVars, verdicts, domain, alerts, notices>>

InsertVerdict(v) == verdicts' = verdicts \cup {v}

(* Mutant: a verdict that cannot be stored is reported all the same.       *)
PersistVerdictOrNot(r) ==
    /\ At(r, "persist")
    /\ \/ InsertVerdict(request[r].verdict) /\ NoEvent
       \/ Event /\ UNCHANGED verdicts
    /\ Goto(r, "status")
    /\ UNCHANGED <<world, nodeVars, confidence, found, domain, alerts, notices>>

(* A verdict that cannot be stored has no consequences. *)
PersistVerdict(r) ==
    /\ At(r, "persist")
    /\ \/ /\ InsertVerdict(request[r].verdict)
          /\ Goto(r, "status")
          /\ NoEvent
       \/ Return(r) /\ Event /\ UNCHANGED verdicts
    /\ UNCHANGED <<world, nodeVars, confidence, found, domain, alerts, notices>>

Assessed(v) == classifyBlocking(v.confidence, v.blocking)

(* The columns of the domain.  The type is written without a status too.   *)
BlockingColumns(v) ==
    [status     |-> Assessed(v).status,
     type       |-> v.blocking,
     confidence |-> IF Assessed(v).status = "none" THEN 0 ELSE v.confidence]

(* An error is logged, and the alert is evaluated all the same. *)
UpdateDomainBlockingStatus(r) ==
    LET v == request[r].verdict
    IN  /\ At(r, "status")
        /\ \/ domain' = BlockingColumns(v) /\ NoEvent
           \/ UNCHANGED domain /\ Event
        /\ Goto(r, IF Assessed(v).status = "none" THEN "resolve" ELSE "dedup")
        /\ UNCHANGED <<world, nodeVars, confidence, found, verdicts, alerts, notices>>

Resolve(r) ==
    /\ At(r, "resolve")
    /\ \/ alerts' = ResolveByDedupKey(alerts, Key) /\ NoEvent
       \/ UNCHANGED alerts /\ Event
    /\ Return(r)
    /\ UNCHANGED <<world, nodeVars, confidence, found, verdicts, domain, notices>>

(* Engine.Fire: suppressed, to be inserted, or an error. *)
DedupCheck(r) ==
    /\ At(r, "dedup")
    /\ \/ ExistsActiveDedupKey(alerts, Key) /\ Return(r) /\ NoEvent
       \/ ~ExistsActiveDedupKey(alerts, Key) /\ Goto(r, "insert") /\ NoEvent
       \/ Return(r) /\ Event
    /\ UNCHANGED <<world, nodeVars, confidence, found, verdicts, domain, alerts, notices>>

NewAlert(severity) ==
    [key |-> Key, severity |-> severity, resolved |-> FALSE, old |-> FALSE]

(* The loop over the channels, and the end of the request after the last.  *)
FanOut(r, alert, todo) ==
    request' = [request EXCEPT ![r] =
        IF todo = {} THEN IdleRequest
        ELSE Request("fanout", NoVerdict, NoConfidence, alert, todo)]

InsertAlert(r) ==
    LET severity == Assessed(request[r].verdict).severity
        stored(channels) ==
            /\ alerts' = Append(alerts, NewAlert(severity))
            /\ FanOut(r, Len(alerts) + 1, channels)
    IN  /\ At(r, "insert")
        /\ \/ stored(MatchingChannels(Rules, severity, "gfw")) /\ NoEvent
           \/ stored({}) /\ Event
           \/ Return(r) /\ Event /\ UNCHANGED alerts
        /\ UNCHANGED <<world, nodeVars, confidence, found, verdicts, domain, notices>>

(* One notify:send task for each channel; one that cannot be enqueued is   *)
(* skipped.                                                                *)
EnqueueNotify(r) ==
    /\ At(r, "fanout")
    /\ \E c \in request[r].todo :
        /\ FanOut(r, request[r].alert, request[r].todo \ {c})
        /\ \/ notices' = notices \cup {<<request[r].alert, c>>} /\ NoEvent
           \/ UNCHANGED notices /\ Event
    /\ UNCHANGED <<world, nodeVars, confidence, found, verdicts, domain, alerts>>

(* An hour goes by, and a younger alert no longer suppresses the next. *)
AlertsAge ==
    /\ \E i \in 1..Len(alerts) : ~alerts[i].old
    /\ alerts' = Aged(alerts)
    /\ Event
    /\ UNCHANGED <<world, nodeVars, confidence, found, verdicts, domain, notices, request>>

-----------------------------------------------------------------------------
NodeStep(n) ==
    \/ Register(n)
    \/ RunMeasurements(n)
    \/ SubmitMeasurements(n)
    \/ Crash(n)

RequestStep(r) ==
    \/ LatestVerdict(r)
    \/ FetchMeasurements(r)
    \/ LoadConfidence(r)
    \/ SaveConfidence(r)
    \/ PersistVerdict(r)
    \/ UpdateDomainBlockingStatus(r)
    \/ Resolve(r)
    \/ DedupCheck(r)
    \/ InsertAlert(r)
    \/ EnqueueNotify(r)

Next ==
    \/ WorldChanges
    \/ ConfidenceExpires
    \/ UpsertAssignment
    \/ DisableAssignment
    \/ DeleteAssignment
    \/ AlertsAge
    \/ \E n \in Nodes : NodeStep(n)
    \/ \E r \in Requests : RequestStep(r)

Spec == Init /\ [][Next]_vars

-----------------------------------------------------------------------------
(* Properties. *)

(* The layer the firewall interferes with; a handshake that is left        *)
(* hanging shows as an HTTP request without an answer.                     *)
InterferedLayer ==
    [act \in CensorActs |->
        CASE act \in {"bogon", "poison", "nxdomain", "mute"} -> "dns"
          [] act = "drop"             -> "tcp_ip"
          [] act = "reset"            -> "tls_sni"
          [] act \in {"stall", "451"} -> "http-failure"
          [] act \in {"page", "stub"} -> "http-diff"
          [] OTHER                    -> ""]

Works(w) == w.site \in {"up", "cdn"}

(* What a stored verdict says of a site that works, when the probe and its *)
(* control, if there is one, saw the same world.  A probe that met no      *)
(* trouble of its own raises no false alarm, and compared with a sound     *)
(* control it names the layer the firewall really interfered with.         *)
(* Interference is noticed whatever the probe met.  Nothing is said of a   *)
(* probe in trouble before a firewall that leaves the site alone: one      *)
(* lost or fast DNS answer is then called blocking (Analyzer.Classify      *)
(* against what FullCheck measures).                                       *)
VerdictsAreRight ==
    \A v \in verdicts : \A p \in v.probe :
        Works(p.seen) /\ (\A c \in v.control : c.seen = p.seen) =>
            /\ p.trouble = {} /\ p.seen.censor = "none" => v.blocking = ""
            /\ \A c \in v.control : c.trouble \subseteq {"fast"} =>
                /\ p.trouble = {}
                      => v.blocking = InterferedLayer[p.seen.censor]
                /\ p.seen.censor # "none" => v.blocking # ""

(* A domain is marked blocked only after three analyses found it blocked,  *)
(* of probes at two nodes, and possibly blocked only after analyses of two *)
(* nodes, whatever is lost between the load and the save of the record in  *)
(* Redis.  An analysis is not a measurement: requests that meet compare    *)
(* the same stored pair, and each of them counts (ConfidenceTracker.Record,*)
(* UpdateDomainBlockingStatus).                                            *)
BlockedIsCorroborated ==
    /\ domain.status = "blocked" => found.count >= 3
    /\ domain.status # "none" => Cardinality(found.nodes) >= 2

(* What the dashboard and the operators are told rests on a verdict that   *)
(* is in the history: the columns of the domain are those of one, and each *)
(* alert has the severity of one (AnalyzeAndStore, EvaluateAndAlert).      *)
ReportsHaveVerdict ==
    /\ domain # NotBlocked => \E v \in verdicts : domain = BlockingColumns(v)
    /\ \A i \in 1..Len(alerts) : \E v \in verdicts :
        Assessed(v).severity = alerts[i].severity /\ Assessed(v).status # "none"

=============================================================================
