----------------------------- MODULE GfwProofs ------------------------------
(***************************************************************************)
(* What Gfw guarantees for every set of nodes, rules and worlds, and for   *)
(* any number of requests, measurements and failures.                      *)
(***************************************************************************)
EXTENDS Gfw, FiniteSetTheorems, TLAPS

(* A record in Redis, or a copy of one, counts observations that were made. *)
Backed(s, f) ==
    /\ s.count \in Nat /\ s.count <= f.count
    /\ s.nodes \subseteq f.nodes

(* The confidence of a verdict is one that observations account for.        *)
Supported(v, f) ==
    /\ v.confidence \in Nat
    /\ v.confidence >= 90 => f.count >= 3
    /\ v.confidence >= 70 => Cardinality(f.nodes) >= 2

(* Observations are only added.                                             *)
Grows(f, g) ==
    /\ g.count \in Nat /\ f.count <= g.count
    /\ f.nodes \subseteq g.nodes /\ IsFiniteSet(g.nodes)

(* What a request carries from step to step: its locals are backed by the   *)
(* observations f, and its verdict is in the history vs once it has         *)
(* consequences.                                                            *)
Good(q, f, vs) ==
    /\ q = Request(q.pc, q.verdict, q.loaded, q.alert, q.todo)
    /\ q.verdict = Verdict(q.verdict.probe, q.verdict.control,
                           q.verdict.blocking, q.verdict.confidence)
    /\ Backed(q.loaded, f)
    /\ Supported(q.verdict, f)
    /\ q.pc \in {"status", "resolve", "dedup", "insert"} => q.verdict \in vs
    /\ q.pc \in {"dedup", "insert"} => Assessed(q.verdict).status # "none"

Severities == {"P1", "P2", "P3", "none"}

AlertRow ==
    [key : {Key}, severity : Severities, resolved : BOOLEAN, old : BOOLEAN]

RequestsInv ==
    /\ DOMAIN request = Requests
    /\ \A r \in Requests : Good(request[r], found, verdicts)

FoundInv ==
    /\ found.count \in Nat /\ IsFiniteSet(found.nodes)
    /\ Backed(confidence, found)

GfwInv ==
    /\ RequestsInv /\ FoundInv
    /\ alerts \in Seq(AlertRow)
    /\ BlockedIsCorroborated /\ ReportsHaveVerdict

-----------------------------------------------------------------------------
(* Growing evidence keeps what it backs. *)

LEMMA BackedGrows ==
    ASSUME NEW s, NEW f, NEW g, f.count \in Nat, Backed(s, f), Grows(f, g)
    PROVE  Backed(s, g)
BY DEF Backed, Grows

LEMMA SupportedGrows ==
    ASSUME NEW v, NEW f, NEW g, f.count \in Nat, IsFiniteSet(f.nodes),
           Supported(v, f), Grows(f, g)
    PROVE  Supported(v, g)
<1>1. /\ Cardinality(f.nodes) <= Cardinality(g.nodes)
      /\ Cardinality(f.nodes) \in Nat /\ Cardinality(g.nodes) \in Nat
  BY FS_Subset, FS_CardinalityType DEF Grows
<1> QED  BY <1>1 DEF Supported, Grows

LEMMA GoodGrows ==
    ASSUME NEW q, NEW f, NEW g, NEW vs, NEW ws, f.count \in Nat,
           IsFiniteSet(f.nodes), Good(q, f, vs), Grows(f, g), vs \subseteq ws
    PROVE  Good(q, g, ws)
<1>1. Backed(q.loaded, g)
  BY BackedGrows DEF Good
<1>2. Supported(q.verdict, g)
  BY SupportedGrows DEF Good
<1> QED  BY <1>1, <1>2 DEF Good

LEMMA NoGrowth == FoundInv => Grows(found, found)
BY DEF FoundInv, Grows

LEMMA EmptyBacked ==
    ASSUME NEW f, f.count \in Nat
    PROVE  Backed(NoConfidence, f)
BY DEF Backed, NoConfidence

(* An idle request is good whatever was observed. *)
LEMMA IdleGood ==
    ASSUME NEW f, NEW vs, f.count \in Nat
    PROVE  Good(IdleRequest, f, vs)
<1> DEFINE q == IdleRequest
<1>1. /\ q.pc = "idle" /\ q.verdict = NoVerdict /\ q.loaded = NoConfidence
      /\ q.alert = 0 /\ q.todo = {}
  BY DEF IdleRequest, Request
<1>2. q = Request(q.pc, q.verdict, q.loaded, q.alert, q.todo)
  BY <1>1 DEF IdleRequest
<1>3. Backed(NoConfidence, f)
  BY DEF Backed, NoConfidence
<1>4. /\ NoVerdict = Verdict(NoVerdict.probe, NoVerdict.control,
                             NoVerdict.blocking, NoVerdict.confidence)
      /\ Supported(NoVerdict, f)
  BY DEF NoVerdict, Verdict, Supported
<1> HIDE DEF q
<1> QED  BY <1>1, <1>2, <1>3, <1>4 DEF Good, q

(* A step of one request, after which its locals are good. *)
LEMMA OneRequest ==
    ASSUME RequestsInv, FoundInv, NEW r \in Requests, NEW q,
           request' = [request EXCEPT ![r] = q],
           Grows(found, found'), verdicts \subseteq verdicts',
           Good(q, found', verdicts')
    PROVE  RequestsInv'
<1>1. DOMAIN request' = Requests
  BY DEF RequestsInv
<1>2. ASSUME NEW p \in Requests PROVE Good(request'[p], found', verdicts')
  <2>1. CASE p = r
    BY <2>1 DEF RequestsInv
  <2>2. CASE p # r
    <3>1. request'[p] = request[p]
      BY <2>2 DEF RequestsInv
    <3>2. Good(request[p], found, verdicts)
      BY DEF RequestsInv
    <3> QED  BY <3>1, <3>2, GoodGrows DEF FoundInv
  <2> QED  BY <2>1, <2>2
<1> QED  BY <1>1, <1>2 DEF RequestsInv

(* The next place of a request. *)
LEMMA GotoGood ==
    ASSUME RequestsInv, FoundInv, NEW r \in Requests, NEW pc, Goto(r, pc),
           verdicts \subseteq verdicts', UNCHANGED found,
           pc \in {"status", "resolve", "dedup", "insert"} =>
               request[r].verdict \in verdicts',
           pc \in {"dedup", "insert"} =>
               Assessed(request[r].verdict).status # "none"
    PROVE  RequestsInv'
<1> DEFINE old == request[r]
           q == Request(pc, old.verdict, old.loaded, old.alert, old.todo)
<1>1. Good(old, found, verdicts)
  BY DEF RequestsInv
<1>2. request' = [request EXCEPT ![r] = q]
  <2>1. old = Request(old.pc, old.verdict, old.loaded, old.alert, old.todo)
    BY <1>1 DEF Good
  <2>2. [old EXCEPT !.pc = pc] = q
    BY <2>1 DEF Request
  <2> QED  BY <2>2 DEF Goto
<1>3. /\ q.pc = pc /\ q.verdict = old.verdict /\ q.loaded = old.loaded
      /\ q.alert = old.alert /\ q.todo = old.todo
  BY DEF Request
<1> HIDE DEF q
<1>4. q = Request(q.pc, q.verdict, q.loaded, q.alert, q.todo)
  BY <1>3 DEF q
<1>5. Good(q, found, verdicts')
  BY <1>1, <1>3, <1>4 DEF Good
<1> QED  BY <1>2, <1>5, NoGrowth, OneRequest

LEMMA ReturnGood ==
    ASSUME RequestsInv, FoundInv, NEW r \in Requests, Return(r),
           UNCHANGED <<found, verdicts>>
    PROVE  RequestsInv'
<1>1. Good(IdleRequest, found, verdicts)
  BY IdleGood DEF FoundInv
<1> QED  BY <1>1, NoGrowth, OneRequest DEF Return

LEMMA RequestsSame ==
    ASSUME RequestsInv, UNCHANGED <<request, found, verdicts>>
    PROVE  RequestsInv'
BY DEF RequestsInv

-----------------------------------------------------------------------------
(* The two reports are kept when what they speak of does not change. *)

LEMMA CorroboratedKept ==
    ASSUME FoundInv, BlockedIsCorroborated, UNCHANGED domain, Grows(found, found')
    PROVE  BlockedIsCorroborated'
<1>1. /\ Cardinality(found.nodes) <= Cardinality(found'.nodes)
      /\ Cardinality(found.nodes) \in Nat /\ Cardinality(found'.nodes) \in Nat
  BY FS_Subset, FS_CardinalityType DEF Grows, FoundInv
<1> QED  BY <1>1 DEF BlockedIsCorroborated, Grows, FoundInv

LEMMA ReportsKept ==
    ASSUME ReportsHaveVerdict, UNCHANGED <<domain, alerts>>, verdicts \subseteq verdicts'
    PROVE  ReportsHaveVerdict'
BY DEF ReportsHaveVerdict

(* Marking alerts keeps their number and their severities. *)
LEMMA MarkedAlerts ==
    ASSUME alerts \in Seq(AlertRow),
           alerts' \in {ResolveByDedupKey(alerts, Key), Aged(alerts)}
    PROVE  /\ alerts' \in Seq(AlertRow)
           /\ Len(alerts') = Len(alerts)
           /\ \A i \in 1..Len(alerts) : alerts'[i].severity = alerts[i].severity
<1> DEFINE mark(i) == IF alerts' = Aged(alerts) THEN [alerts[i] EXCEPT !.old = TRUE]
                      ELSE IF Open(alerts[i], Key) THEN [alerts[i] EXCEPT !.resolved = TRUE]
                      ELSE alerts[i]
<1>1. Len(alerts) \in Nat /\ \A i \in 1..Len(alerts) : alerts[i] \in AlertRow
  OBVIOUS
<1>2. \A row \in AlertRow :
          /\ [row EXCEPT !.old = TRUE] \in AlertRow
          /\ [row EXCEPT !.old = TRUE].severity = row.severity
          /\ [row EXCEPT !.resolved = TRUE] \in AlertRow
          /\ [row EXCEPT !.resolved = TRUE].severity = row.severity
  BY DEF AlertRow
<1>3. \A i \in 1..Len(alerts) :
          mark(i) \in AlertRow /\ mark(i).severity = alerts[i].severity
  BY <1>1, <1>2
<1>4. alerts' = [i \in 1..Len(alerts) |-> mark(i)]
  BY DEF ResolveByDedupKey, Aged
<1> HIDE DEF mark
<1>5. alerts' \in [1..Len(alerts) -> AlertRow]
  BY <1>3, <1>4
<1>6. alerts' \in Seq(AlertRow) /\ Len(alerts') = Len(alerts)
  BY <1>1, <1>5
<1> QED  BY <1>3, <1>4, <1>6

LEMMA MarkingKeeps ==
    ASSUME ReportsHaveVerdict, alerts \in Seq(AlertRow),
           alerts' \in {ResolveByDedupKey(alerts, Key), Aged(alerts)},
           UNCHANGED <<domain, verdicts>>
    PROVE  ReportsHaveVerdict' /\ alerts' \in Seq(AlertRow)
BY MarkedAlerts DEF ReportsHaveVerdict

-----------------------------------------------------------------------------
(* The steps, one lemma for each group. *)

LEMMA GfwInit == Init => GfwInv
<1> SUFFICES ASSUME Init PROVE GfwInv
  OBVIOUS
<1>1. FoundInv
  <2>1. found.count \in Nat /\ found.nodes = {} /\ confidence = NoConfidence
    BY DEF Init
  <2> QED  BY <2>1, FS_EmptySet, EmptyBacked DEF FoundInv
<1>2. RequestsInv
  BY <1>1, IdleGood DEF Init, RequestsInv, FoundInv
<1>3. BlockedIsCorroborated
  BY DEF Init, BlockedIsCorroborated, NotBlocked
<1>4. alerts \in Seq(AlertRow) /\ ReportsHaveVerdict
  BY DEF Init, ReportsHaveVerdict
<1> QED  BY <1>1, <1>2, <1>3, <1>4 DEF GfwInv

(* Steps of the world, of the nodes and of the operators. *)
LEMMA OutsideKeeps ==
    ASSUME GfwInv, UNCHANGED <<found, verdicts, domain, request>>,
           confidence' \in {confidence, NoConfidence},
           \/ UNCHANGED alerts
           \/ alerts' = Aged(alerts)
    PROVE  GfwInv'
<1> USE DEF GfwInv
<1>1. RequestsInv'
  BY RequestsSame
<1>2. FoundInv'
  <2>1. Backed(NoConfidence, found)
    BY EmptyBacked DEF FoundInv
  <2> QED  BY <2>1 DEF FoundInv
<1>3. BlockedIsCorroborated'
  BY NoGrowth, CorroboratedKept
<1>4. ReportsHaveVerdict' /\ alerts' \in Seq(AlertRow)
  BY ReportsKept, MarkingKeeps
<1> QED  BY <1>1, <1>2, <1>3, <1>4

(* Steps of a request that write nothing but its locals. *)
LEMMA QuietKeeps ==
    ASSUME GfwInv, RequestsInv',
           UNCHANGED <<found, confidence, verdicts, domain, alerts>>
    PROVE  GfwInv'
<1> USE DEF GfwInv
<1>1. FoundInv'
  BY DEF FoundInv
<1>2. BlockedIsCorroborated' /\ ReportsHaveVerdict'
  BY NoGrowth, CorroboratedKept, ReportsKept
<1> QED  BY <1>1, <1>2

LEMMA ReadsKeep ==
    ASSUME GfwInv, NEW r \in Requests,
           LatestVerdict(r) \/ FetchMeasurements(r) \/ LoadConfidence(r)
    PROVE  GfwInv'
<1> USE DEF GfwInv
<1>1. CASE LatestVerdict(r)
  BY <1>1, GotoGood, QuietKeeps DEF LatestVerdict
<1>2. CASE FetchMeasurements(r)
  <2>1. CASE Return(r)
    BY <1>2, <2>1, ReturnGood, QuietKeeps DEF FetchMeasurements
  <2>2. CASE \E probe \in LatestMeasurementPair["probe"] :
                request' = [request EXCEPT ![r] =
                     Request("load",
                             Verdict({probe}, LatestMeasurementPair["control"],
                                     Classify(probe, LatestMeasurementPair["control"]), 0),
                             NoConfidence, 0, {})]
    <3>1. PICK probe : request' = [request EXCEPT ![r] =
                     Request("load",
                             Verdict({probe}, LatestMeasurementPair["control"],
                                     Classify(probe, LatestMeasurementPair["control"]), 0),
                             NoConfidence, 0, {})]
      BY <2>2
    <3> DEFINE v == Verdict({probe}, LatestMeasurementPair["control"],
                            Classify(probe, LatestMeasurementPair["control"]), 0)
               q == Request("load", v, NoConfidence, 0, {})
    <3>2. v = Verdict(v.probe, v.control, v.blocking, v.confidence) /\ v.confidence = 0
      BY DEF Verdict
    <3> HIDE DEF v
    <3>3. Supported(v, found) /\ Backed(NoConfidence, found)
      BY <3>2, EmptyBacked DEF Supported, FoundInv
    <3>4. Good(q, found, verdicts)
      BY <3>2, <3>3 DEF Good, Request
    <3>5. request' = [request EXCEPT ![r] = q]
      BY <3>1 DEF v
    <3> HIDE DEF q
    <3>6. UNCHANGED <<found, confidence, verdicts, domain, alerts>>
      BY <1>2 DEF FetchMeasurements
    <3> QED  BY <3>4, <3>5, <3>6, NoGrowth, OneRequest, QuietKeeps
  <2> QED  BY <1>2, <2>1, <2>2 DEF FetchMeasurements
<1>3. CASE LoadConfidence(r)
  <2>1. CASE Goto(r, "persist")
    BY <1>3, <2>1, GotoGood, QuietKeeps DEF LoadConfidence
  <2>2. CASE request' = [request EXCEPT ![r].pc = "save", ![r].loaded = confidence]
    <3> DEFINE old == request[r]
               q == Request("save", old.verdict, confidence, old.alert, old.todo)
    <3>1. Good(old, found, verdicts)
      BY DEF RequestsInv
    <3>2. old = Request(old.pc, old.verdict, old.loaded, old.alert, old.todo)
      BY <3>1 DEF Good
    <3>3. [[old EXCEPT !.pc = "save"] EXCEPT !.loaded = confidence] = q
      <4>1. [old EXCEPT !.pc = "save"] =
                Request("save", old.verdict, old.loaded, old.alert, old.todo)
        BY <3>2 DEF Request
      <4>2. [Request("save", old.verdict, old.loaded, old.alert, old.todo)
                EXCEPT !.loaded = confidence] = q
        BY DEF Request
      <4> QED  BY <4>1, <4>2
    <3>4. request' = [request EXCEPT ![r] = q]
      BY <2>2, <3>3 DEF RequestsInv
    <3>5. Good(q, found, verdicts)
      BY <3>1 DEF Good, Request, FoundInv
    <3> HIDE DEF q
    <3>6. UNCHANGED <<found, confidence, verdicts, domain, alerts>>
      BY <1>3 DEF LoadConfidence
    <3> QED  BY <3>4, <3>5, <3>6, NoGrowth, OneRequest, QuietKeeps
  <2> QED  BY <1>3, <2>1, <2>2 DEF LoadConfidence
<1> QED  BY <1>1, <1>2, <1>3

(* The score of a record that observations back is supported by them. *)
LEMMA ScoreSupported ==
    ASSUME NEW s, NEW f, f.count \in Nat, IsFiniteSet(f.nodes), Backed(s, f)
    PROVE  /\ scoreFromState(s) \in Nat
           /\ scoreFromState(s) >= 90 => f.count >= 3
           /\ scoreFromState(s) >= 70 => Cardinality(f.nodes) >= 2
<1>1. /\ Cardinality(s.nodes) <= Cardinality(f.nodes)
      /\ Cardinality(s.nodes) \in Nat /\ Cardinality(f.nodes) \in Nat
  BY FS_Subset, FS_CardinalityType DEF Backed
<1> QED  BY <1>1 DEF scoreFromState, Backed

(* One more observation, which is counted in the record and in f.           *)
LEMMA RecordBacked ==
    ASSUME NEW old, NEW f, NEW node, NEW blocking, f.count \in Nat,
           IsFiniteSet(f.nodes), Backed(old, f)
    PROVE  LET g == IF blocking = "" THEN f
                    ELSE [count |-> f.count + 1, nodes |-> f.nodes \cup {node}]
           IN  /\ Grows(f, g) /\ g.count \in Nat /\ IsFiniteSet(g.nodes)
               /\ Backed(Record(old, node, blocking), g)
<1>1. CASE blocking = ""
  <2>1. Record(old, node, blocking) = NoConfidence
    BY <1>1 DEF Record
  <2>2. Grows(f, f) /\ Backed(NoConfidence, f)
    BY EmptyBacked DEF Grows
  <2> QED  BY <1>1, <2>1, <2>2
<1>2. CASE blocking # ""
  <2> DEFINE g == [count |-> f.count + 1, nodes |-> f.nodes \cup {node}]
             s == Record(old, node, blocking)
  <2>1. g.count = f.count + 1 /\ g.nodes = f.nodes \cup {node}
    OBVIOUS
  <2>2. s.count \in {old.count + 1, 1} /\ s.nodes = old.nodes \cup {node}
    BY <1>2 DEF Record
  <2> HIDE DEF g, s
  <2>3. IsFiniteSet(g.nodes)
    BY <2>1, FS_AddElement
  <2>4. Grows(f, g) /\ g.count \in Nat
    BY <2>1, <2>3 DEF Grows
  <2>5. Backed(s, g)
    BY <2>1, <2>2 DEF Backed
  <2> QED  BY <1>2, <2>3, <2>4, <2>5 DEF g, s
<1> QED  BY <1>1, <1>2

(* Whatever another request has written meanwhile, the record that is       *)
(* saved counts no more than was observed: each observation is counted in   *)
(* found, and the record adds at most this one to what it had loaded.       *)
LEMMA SaveKeeps ==
    ASSUME GfwInv, NEW r \in Requests, SaveConfidence(r)
    PROVE  GfwInv'
<1> USE DEF GfwInv
<1> DEFINE v == request[r].verdict
           s == Record(request[r].loaded, NodeOf(v), v.blocking)
<1>1. Good(request[r], found, verdicts)
  BY DEF RequestsInv
<1>2. UNCHANGED <<verdicts, domain, alerts>>
  BY DEF SaveConfidence
<1>3. PICK score \in {scoreFromState(s), 0} :
          /\ request' = [request EXCEPT ![r] =
                 Request("persist", [v EXCEPT !.confidence = score], NoConfidence, 0, {})]
          /\ \/ /\ confidence' = s
                /\ IF v.blocking = "" THEN UNCHANGED found
                   ELSE found' = [count |-> found.count + 1,
                                  nodes |-> found.nodes \cup {NodeOf(v)}]
             \/ UNCHANGED <<confidence, found>> /\ score = 0
  BY DEF SaveConfidence
<1>4. /\ Grows(found, found') /\ found'.count \in Nat /\ IsFiniteSet(found'.nodes)
      /\ UNCHANGED confidence \/ Backed(s, found')
      /\ confidence' \in {confidence, s}
      /\ score = 0 \/ Backed(s, found')
  <2>1. found.count \in Nat /\ IsFiniteSet(found.nodes) /\ Backed(request[r].loaded, found)
    BY <1>1 DEF FoundInv, Good
  <2>2. CASE UNCHANGED <<confidence, found>> /\ score = 0
    BY <2>1, <2>2 DEF Grows
  <2>3. CASE /\ confidence' = s
             /\ found' = IF v.blocking = "" THEN found
                         ELSE [count |-> found.count + 1,
                               nodes |-> found.nodes \cup {NodeOf(v)}]
    <3> DEFINE g == IF v.blocking = "" THEN found
                    ELSE [count |-> found.count + 1, nodes |-> found.nodes \cup {NodeOf(v)}]
    <3>1. Grows(found, g) /\ g.count \in Nat /\ IsFiniteSet(g.nodes) /\ Backed(s, g)
      BY <2>1, RecordBacked
    <3>2. found' = g /\ confidence' = s
      BY <2>3
    <3> HIDE DEF g, s
    <3> QED  BY <3>1, <3>2
  <2> QED  BY <1>3, <2>2, <2>3
<1> HIDE DEF s
<1>5. Supported([v EXCEPT !.confidence = score], found')
  <2>1. [v EXCEPT !.confidence = score] = Verdict(v.probe, v.control, v.blocking, score)
    BY <1>1 DEF Good, Verdict
  <2>2. /\ score \in Nat
        /\ score >= 90 => found'.count >= 3
        /\ score >= 70 => Cardinality(found'.nodes) >= 2
    <3>1. CASE score = 0
      BY <3>1
    <3>2. CASE score = scoreFromState(s) /\ Backed(s, found')
      BY <1>4, <3>2, ScoreSupported
    <3> QED  BY <1>3, <1>4, <3>1, <3>2
  <2> QED  BY <2>1, <2>2 DEF Supported, Verdict
<1>6. RequestsInv'
  <2> DEFINE w == Verdict(v.probe, v.control, v.blocking, score)
             q == Request("persist", w, NoConfidence, 0, {})
  <2>1. [v EXCEPT !.confidence = score] = w
    BY <1>1 DEF Good, Verdict
  <2>2. w = Verdict(w.probe, w.control, w.blocking, w.confidence)
    BY DEF Verdict
  <2>3. Supported(w, found') /\ Backed(NoConfidence, found')
    BY <1>4, <1>5, <2>1, EmptyBacked
  <2> HIDE DEF w
  <2>4. Good(q, found', verdicts')
    BY <2>2, <2>3 DEF Good, Request
  <2>5. request' = [request EXCEPT ![r] = q]
    BY <1>3, <2>1
  <2> HIDE DEF q
  <2> QED  BY <1>2, <1>4, <2>4, <2>5, OneRequest
<1>7. FoundInv'
  <2>1. Backed(confidence, found')
    BY <1>4, BackedGrows DEF FoundInv
  <2> QED  BY <1>4, <2>1 DEF FoundInv
<1>8. BlockedIsCorroborated' /\ ReportsHaveVerdict'
  BY <1>2, <1>4, CorroboratedKept, ReportsKept
<1> QED  BY <1>2, <1>6, <1>7, <1>8

LEMMA ClassifyScore ==
    ASSUME NEW score \in Nat, NEW blocking
    PROVE  /\ classifyBlocking(score, blocking).status = "blocked" => score >= 90
           /\ classifyBlocking(score, blocking).status # "none" => score >= 70
<1>0. score >= 90 => score >= 70
  OBVIOUS
<1>1. CASE blocking = ""
  BY <1>1 DEF classifyBlocking
<1>2. CASE blocking # "" /\ score >= 70
  BY <1>2 DEF classifyBlocking
<1>3. CASE blocking # "" /\ ~(score >= 70)
  <2>1. ~(score >= 90)
    BY <1>0, <1>3, Zenon
  <2>2. classifyBlocking(score, blocking) \in
            {[status |-> "none", severity |-> s] : s \in {"P3", "none"}}
    BY <1>3, <2>1 DEF classifyBlocking
  <2> QED  BY <2>2
<1> QED  BY <1>1, <1>2, <1>3

(* A stored verdict may have consequences; one that is not stored has none. *)
LEMMA PersistKeeps ==
    ASSUME GfwInv, NEW r \in Requests, PersistVerdict(r)
    PROVE  GfwInv'
<1> USE DEF GfwInv
<1>1. UNCHANGED <<found, confidence, domain, alerts>>
  BY DEF PersistVerdict
<1>2. RequestsInv' /\ verdicts \subseteq verdicts'
  <2>1. CASE Return(r) /\ UNCHANGED verdicts
    BY <1>1, <2>1, ReturnGood
  <2>2. CASE InsertVerdict(request[r].verdict) /\ Goto(r, "status")
    BY <1>1, <2>2, GotoGood DEF InsertVerdict
  <2> QED  BY <2>1, <2>2 DEF PersistVerdict
<1>3. FoundInv'
  BY <1>1 DEF FoundInv
<1>4. BlockedIsCorroborated' /\ ReportsHaveVerdict'
  BY <1>1, <1>2, NoGrowth, CorroboratedKept, ReportsKept
<1> QED  BY <1>1, <1>2, <1>3, <1>4

(* The columns of the domain are those of the stored verdict.               *)
LEMMA StatusKeeps ==
    ASSUME GfwInv, NEW r \in Requests, UpdateDomainBlockingStatus(r)
    PROVE  GfwInv'
<1> USE DEF GfwInv
<1> DEFINE v == request[r].verdict
<1>1. UNCHANGED <<found, confidence, verdicts, alerts>>
  BY DEF UpdateDomainBlockingStatus
<1>2. v \in verdicts /\ Supported(v, found)
  BY DEF UpdateDomainBlockingStatus, At, RequestsInv, Good
<1>3. RequestsInv'
  <2>1. CASE Assessed(v).status = "none" /\ Goto(r, "resolve")
    BY <1>1, <1>2, <2>1, GotoGood
  <2>2. CASE Assessed(v).status # "none" /\ Goto(r, "dedup")
    BY <1>1, <1>2, <2>2, GotoGood
  <2> QED  BY <2>1, <2>2 DEF UpdateDomainBlockingStatus
<1>4. FoundInv'
  BY <1>1 DEF FoundInv
<1>5. CASE UNCHANGED domain
  BY <1>1, <1>3, <1>4, <1>5, NoGrowth, CorroboratedKept, ReportsKept
<1>6. CASE domain' = BlockingColumns(v)
  <2>1. ReportsHaveVerdict'
    BY <1>1, <1>2, <1>6 DEF ReportsHaveVerdict
  <2>2. domain'.status = Assessed(v).status
    BY <1>6 DEF BlockingColumns
  <2>3. /\ Assessed(v).status = "blocked" => v.confidence >= 90
        /\ Assessed(v).status # "none" => v.confidence >= 70
    BY <1>2, ClassifyScore DEF Assessed, Supported
  <2>4. BlockedIsCorroborated'
    BY <1>1, <1>2, <2>2, <2>3 DEF BlockedIsCorroborated, Supported
  <2> QED  BY <1>1, <1>3, <1>4, <2>1, <2>4
<1> QED  BY <1>5, <1>6 DEF UpdateDomainBlockingStatus

(* A clear domain has its open alerts resolved.                             *)
LEMMA ResolveKeeps ==
    ASSUME GfwInv, NEW r \in Requests, Resolve(r)
    PROVE  GfwInv'
<1> USE DEF GfwInv
<1>1. UNCHANGED <<found, confidence, verdicts, domain>> /\ Return(r)
  BY DEF Resolve
<1>2. RequestsInv'
  BY <1>1, ReturnGood
<1>3. FoundInv'
  BY <1>1 DEF FoundInv
<1>4. BlockedIsCorroborated'
  BY <1>1, NoGrowth, CorroboratedKept
<1>5. ReportsHaveVerdict' /\ alerts' \in Seq(AlertRow)
  BY <1>1, ReportsKept, MarkingKeeps DEF Resolve
<1> QED  BY <1>2, <1>3, <1>4, <1>5

LEMMA DedupKeeps ==
    ASSUME GfwInv, NEW r \in Requests, DedupCheck(r)
    PROVE  GfwInv'
<1> USE DEF GfwInv
<1>1. UNCHANGED <<found, confidence, verdicts, domain, alerts>>
  BY DEF DedupCheck
<1>2. request[r].verdict \in verdicts /\ Assessed(request[r].verdict).status # "none"
  BY DEF DedupCheck, At, RequestsInv, Good
<1>3. RequestsInv'
  <2>1. CASE Return(r)
    BY <1>1, <2>1, ReturnGood
  <2>2. CASE Goto(r, "insert")
    BY <1>1, <1>2, <2>2, GotoGood
  <2> QED  BY <2>1, <2>2 DEF DedupCheck
<1> QED  BY <1>1, <1>3, QuietKeeps

(* The loop over the channels carries no verdict any more.                  *)
LEMMA FanOutGood ==
    ASSUME RequestsInv, FoundInv, NEW r \in Requests, NEW alert, NEW todo,
           FanOut(r, alert, todo), UNCHANGED <<found, verdicts>>
    PROVE  RequestsInv'
<1>1. CASE todo = {}
  BY <1>1, ReturnGood DEF FanOut, Return
<1>2. CASE todo # {}
  <2> DEFINE q == Request("fanout", NoVerdict, NoConfidence, alert, todo)
  <2>1. request' = [request EXCEPT ![r] = q]
    BY <1>2 DEF FanOut
  <2>2. /\ q.pc = "fanout" /\ q.verdict = NoVerdict /\ q.loaded = NoConfidence
        /\ q.alert = alert /\ q.todo = todo
    BY DEF Request
  <2> HIDE DEF q
  <2>3. q = Request(q.pc, q.verdict, q.loaded, q.alert, q.todo)
    BY <2>2 DEF q
  <2>4. /\ NoVerdict = Verdict(NoVerdict.probe, NoVerdict.control,
                               NoVerdict.blocking, NoVerdict.confidence)
        /\ Supported(NoVerdict, found)
    BY DEF NoVerdict, Verdict, Supported
  <2>5. Backed(NoConfidence, found)
    BY EmptyBacked DEF FoundInv
  <2>6. Good(q, found, verdicts)
    BY <2>2, <2>3, <2>4, <2>5 DEF Good
  <2> QED  BY <2>1, <2>6, NoGrowth, OneRequest
<1> QED  BY <1>1, <1>2

LEMMA ClassifySeverity ==
    ASSUME NEW score \in Nat, NEW blocking
    PROVE  classifyBlocking(score, blocking).severity \in Severities
<1>1. CASE blocking = ""
  BY <1>1 DEF classifyBlocking, Severities
<1>2. CASE blocking # "" /\ score >= 90
  BY <1>2 DEF classifyBlocking, Severities
<1>3. CASE blocking # "" /\ ~(score >= 90) /\ score >= 70
  BY <1>3 DEF classifyBlocking, Severities
<1>4. CASE blocking # "" /\ ~(score >= 90) /\ ~(score >= 70)
  BY <1>4 DEF classifyBlocking, Severities
<1> QED  BY <1>1, <1>2, <1>3, <1>4, Zenon

(* The new row has the severity of the verdict of the request.              *)
LEMMA InsertKeeps ==
    ASSUME GfwInv, NEW r \in Requests, InsertAlert(r)
    PROVE  GfwInv'
<1> USE DEF GfwInv
<1> DEFINE v == request[r].verdict
           severity == Assessed(v).severity
<1>1. UNCHANGED <<found, confidence, verdicts, domain>>
  BY DEF InsertAlert
<1>2. v \in verdicts /\ Assessed(v).status # "none"
  BY DEF InsertAlert, At, RequestsInv, Good
<1>3. CASE Return(r) /\ UNCHANGED alerts
  BY <1>1, <1>3, ReturnGood, QuietKeeps
<1>4. CASE /\ alerts' = Append(alerts, NewAlert(severity))
           /\ \E channels : FanOut(r, Len(alerts) + 1, channels)
  <2>1. RequestsInv'
    BY <1>1, <1>4, FanOutGood
  <2>2. FoundInv'
    BY <1>1 DEF FoundInv
  <2>3. BlockedIsCorroborated'
    BY <1>1, NoGrowth, CorroboratedKept
  <2>4. severity \in Severities
    <3>1. v.confidence \in Nat
      BY DEF RequestsInv, Good, Supported
    <3> QED  BY <3>1, ClassifySeverity DEF Assessed
  <2> HIDE DEF severity
  <2>5. NewAlert(severity) \in AlertRow /\ NewAlert(severity).severity = severity
    BY <2>4 DEF NewAlert, AlertRow
  <2>6. /\ alerts' \in Seq(AlertRow) /\ Len(alerts') = Len(alerts) + 1
        /\ \A i \in 1..Len(alerts) : alerts'[i] = alerts[i]
        /\ alerts'[Len(alerts) + 1] = NewAlert(severity)
    BY <1>4, <2>5
  <2>7. ReportsHaveVerdict'
    <3>1. ASSUME NEW i \in 1..Len(alerts')
          PROVE  \E u \in verdicts : /\ Assessed(u).severity = alerts'[i].severity
                                     /\ Assessed(u).status # "none"
      <4>1. CASE i = Len(alerts) + 1
        BY <1>2, <2>5, <2>6, <4>1 DEF severity
      <4>2. CASE i \in 1..Len(alerts)
        BY <2>6, <4>2 DEF ReportsHaveVerdict
      <4>3. Len(alerts) \in Nat
        OBVIOUS
      <4> QED  BY <2>6, <4>1, <4>2, <4>3
    <3> QED  BY <1>1, <3>1 DEF ReportsHaveVerdict
  <2> QED  BY <2>1, <2>2, <2>3, <2>6, <2>7
<1> QED  BY <1>3, <1>4 DEF InsertAlert

LEMMA EnqueueKeeps ==
    ASSUME GfwInv, NEW r \in Requests, EnqueueNotify(r)
    PROVE  GfwInv'
<1> USE DEF GfwInv
<1>1. UNCHANGED <<found, confidence, verdicts, domain, alerts>>
  BY DEF EnqueueNotify
<1>2. RequestsInv'
  BY <1>1, FanOutGood DEF EnqueueNotify
<1> QED  BY <1>1, <1>2, QuietKeeps

-----------------------------------------------------------------------------
LEMMA GfwStep == GfwInv /\ [Next]_vars => GfwInv'
<1> SUFFICES ASSUME GfwInv, [Next]_vars PROVE GfwInv'
  OBVIOUS
<1>1. CASE UNCHANGED vars
  BY <1>1, OutsideKeeps DEF vars, verdictVars
<1>2. CASE WorldChanges
  BY <1>2, OutsideKeeps DEF WorldChanges, verdictVars
<1>3. CASE ConfidenceExpires
  BY <1>3, OutsideKeeps DEF ConfidenceExpires
<1>4. CASE UpsertAssignment \/ DisableAssignment \/ DeleteAssignment
  BY <1>4, OutsideKeeps
  DEF UpsertAssignment, DisableAssignment, DeleteAssignment, verdictVars
<1>5. CASE AlertsAge
  BY <1>5, OutsideKeeps DEF AlertsAge
<1>6. CASE \E n \in Nodes : NodeStep(n)
  <2>1. UNCHANGED verdictVars
    BY <1>6 DEF NodeStep, Register, RunMeasurements, SubmitMeasurements, Crash
  <2> QED  BY <2>1, OutsideKeeps DEF verdictVars
<1>7. CASE \E r \in Requests : RequestStep(r)
  BY <1>7, ReadsKeep, SaveKeeps, PersistKeeps, StatusKeeps, ResolveKeeps,
     DedupKeeps, InsertKeeps, EnqueueKeeps DEF RequestStep
<1> QED  BY <1>1, <1>2, <1>3, <1>4, <1>5, <1>6, <1>7 DEF Next

LEMMA GfwInvariant == Spec => []GfwInv
BY GfwInit, GfwStep, PTL DEF Spec

(* Whatever updates of the record in Redis overwrite each other, and       *)
(* whichever calls fail, a domain is marked blocked only after three       *)
(* observations of blocking and never on the word of one node: a lost      *)
(* update can only lower the confidence (ConfidenceTracker.Record,         *)
(* UpdateDomainBlockingStatus).                                            *)
THEOREM BlockedCorroborated == Spec => []BlockedIsCorroborated
<1>1. GfwInv => BlockedIsCorroborated
  BY DEF GfwInv
<1> QED  BY <1>1, GfwInvariant, PTL

(* The blocking columns of the domain and every alert rest on a verdict in *)
(* the history, for any number of requests that analyse, store and alert   *)
(* at the same time (AnalyzeAndStore, EvaluateAndAlert).                   *)
THEOREM ReportsRestOnVerdicts == Spec => []ReportsHaveVerdict
<1>1. GfwInv => ReportsHaveVerdict
  BY DEF GfwInv
<1> QED  BY <1>1, GfwInvariant, PTL

-----------------------------------------------------------------------------
(* What a measurement shows of the world it was taken in. *)

Shows(m, w, role) ==
    /\ m.role = role /\ m.seen = w
    /\ m.dns = CheckDNS(w, role, m.trouble)
    /\ m.tcp = {CheckTCP(w, role, ip, m.trouble) : ip \in m.dns.answers}
    /\ m.tls = (IF "ok" \in m.tcp THEN {CheckTLS(w, role, m.trouble)} ELSE {})
    /\ m.http = (IF m.dns.answers = {} THEN NoHTTP
                 ELSE CheckHTTP(w, role, CHOOSE ip \in m.dns.answers : TRUE,
                                m.trouble))

DNSActs == {"bogon", "poison", "nxdomain", "mute"}

WebPage(status, title, length) ==
    [status |-> status, title |-> title, length |-> length, error |-> ""]

SitePage == WebPage(200, "site", 100)

NoticePage == WebPage(200, "notice", 100)

StubPage == WebPage(200, "", 10)

LegalPage == WebPage(451, "", 0)

NoAnswer == [NoHTTP EXCEPT !.error = "timeout"]

(* A control that can be compared with. *)
Clean(c) == c.trouble \subseteq {"fast"}

(* The address of a site that works. *)
Address(w, role) ==
    IF w.site # "cdn" THEN "site"
    ELSE IF role = "probe" THEN "edge1" ELSE "edge2"

(* Without interference with the name, it resolves to the site. *)
LEMMA SeesAddress ==
    ASSUME NEW w, NEW role \in {"probe", "control"}, NEW m, Shows(m, w, role), Works(w),
           Acts(w, role) \notin DNSActs, "resolver" \notin m.trouble
    PROVE  LET a == Address(w, role) IN
           /\ m.dns.answers = {a} /\ ~m.dns.bogon /\ m.dns.error = ""
           /\ m.dns.injected <=> "fast" \in m.trouble
           /\ m.tcp = {CheckTCP(w, role, a, m.trouble)}
           /\ m.http = CheckHTTP(w, role, a, m.trouble)
           /\ Genuine(a)
<1> DEFINE a == Address(w, role)
<1>1. Resolved(w, role) = {a} /\ a \in {"site", "edge1", "edge2"}
  BY DEF Resolved, Works, DNSActs, Address
<1> HIDE DEF a
<1>2. PICK d : d = CheckDNS(w, role, m.trouble)
  OBVIOUS
<1>3. /\ d.answers = {a} /\ d.error = "" /\ ~d.bogon
      /\ d.injected <=> "fast" \in m.trouble
  BY <1>1, <1>2 DEF CheckDNS, AnyBogon, DNSActs, IsLikelyInjected
<1>4. m.dns = d /\ m.dns.answers = {a}
  BY <1>2, <1>3 DEF Shows
<1>5. m.tcp = {CheckTCP(w, role, a, m.trouble)}
  BY <1>4 DEF Shows
<1>6. m.http = CheckHTTP(w, role, a, m.trouble)
  <2>1. (CHOOSE ip \in {a} : TRUE) = a
    OBVIOUS
  <2>2. m.dns.answers # {} /\ (CHOOSE ip \in m.dns.answers : TRUE) = a
    BY <1>4, <2>1
  <2> QED  BY <2>2 DEF Shows
<1>7. Genuine(a)
  BY <1>1 DEF Genuine
<1> QED  BY <1>3, <1>4, <1>5, <1>6, <1>7 DEF a

(* A clean control sees the site as it is. *)
LEMMA ControlSees ==
    ASSUME NEW w, NEW c, Shows(c, w, "control"), Works(w), Clean(c)
    PROVE  /\ c.dns.answers = {Address(w, "control")} /\ c.dns.error = ""
           /\ c.tcp = {"ok"} /\ c.tls = {"ok"} /\ c.http = SitePage
<1> DEFINE a == Address(w, "control")
<1>1. Acts(w, "control") = "none"
  BY DEF Acts
<1>2. /\ "resolver" \notin c.trouble /\ "connect" \notin c.trouble
      /\ "handshake" \notin c.trouble /\ "request" \notin c.trouble
  BY DEF Clean
<1>3. /\ c.dns.answers = {a} /\ c.dns.error = ""
      /\ c.tcp = {CheckTCP(w, "control", a, c.trouble)}
      /\ c.http = CheckHTTP(w, "control", a, c.trouble)
      /\ Genuine(a)
  BY <1>1, <1>2, SeesAddress DEF DNSActs
<1> HIDE DEF a
<1>4. /\ CheckTCP(w, "control", a, c.trouble) = "ok"
      /\ CheckTLS(w, "control", c.trouble) = "ok"
      /\ CheckTCP(w, "control", a, {}) = "ok" /\ CheckTLS(w, "control", {}) = "ok"
  BY <1>1, <1>2, <1>3 DEF CheckTCP, CheckTLS, Works, Reaches
<1>5. CheckHTTP(w, "control", a, c.trouble) = SitePage
  BY <1>1, <1>2, <1>4 DEF CheckHTTP, SitePage, WebPage
<1>6. c.tcp = {"ok"} /\ c.tls = {"ok"}
  BY <1>3, <1>4 DEF Shows
<1> QED  BY <1>3, <1>5, <1>6 DEF a

(* A control in trouble has the site's page or none, and its answers are   *)
(* the site's or none.                                                     *)
LEMMA AnyControlSees ==
    ASSUME NEW w, NEW c, Shows(c, w, "control"), Works(w)
    PROVE  /\ c.dns.answers \in {{}, {Address(w, "control")}}
           /\ c.http.error = "" => c.http = SitePage
<1> DEFINE a == Address(w, "control")
<1>1. Acts(w, "control") = "none"
  BY DEF Acts
<1>2. CASE "resolver" \in c.trouble
  <2>1. CheckDNS(w, "control", c.trouble).answers = {}
    BY <1>2 DEF CheckDNS
  <2>2. c.dns.answers = {} /\ c.http = NoHTTP
    BY <2>1 DEF Shows
  <2>3. NoHTTP.error = "absent"
    BY DEF NoHTTP
  <2>4. c.http.error # ""
    BY <2>2, <2>3
  <2> QED  BY <2>2, <2>4
<1>3. CASE "resolver" \notin c.trouble
  <2>1. /\ c.dns.answers = {a} /\ c.http = CheckHTTP(w, "control", a, c.trouble)
        /\ Genuine(a)
    BY <1>1, <1>3, SeesAddress DEF DNSActs
  <2> HIDE DEF a
  <2>2. CASE "request" \in c.trouble
    <3>1. c.http = NoAnswer
      BY <2>1, <2>2 DEF CheckHTTP, NoAnswer
    <3> QED  BY <2>1, <3>1 DEF NoAnswer, NoHTTP, a
  <2>3. CASE "request" \notin c.trouble
    <3>1. CheckTCP(w, "control", a, {}) = "ok" /\ CheckTLS(w, "control", {}) = "ok"
      BY <1>1, <2>1 DEF CheckTCP, CheckTLS, Works, Reaches
    <3>2. CheckHTTP(w, "control", a, c.trouble) = SitePage
      BY <1>1, <2>3, <3>1 DEF CheckHTTP, SitePage, WebPage
    <3> QED  BY <2>1, <3>2 DEF a
  <2> QED  BY <2>2, <2>3
<1> QED  BY <1>2, <1>3

(* A lookup fails, or its answers are looked through. *)
LEMMA LookedUp ==
    ASSUME NEW w, NEW role, NEW trouble, NEW d, d = CheckDNS(w, role, trouble)
    PROVE  IF "resolver" \in trouble \/ Acts(w, role) = "mute"
           THEN d.error = "timeout"
           ELSE /\ d.answers = Resolved(w, role)
                /\ AnyBogon(Resolved(w, role)) => d.bogon
<1>1. CASE "resolver" \in trouble \/ Acts(w, role) = "mute"
  BY <1>1 DEF CheckDNS
<1>2. CASE ~("resolver" \in trouble \/ Acts(w, role) = "mute")
  BY <1>2 DEF CheckDNS
<1> QED  BY <1>1, <1>2

(* Interference with the name, and a resolver that fails, are blamed on    *)
(* the first layer.                                                        *)
LEMMA DNSBlamed ==
    ASSUME NEW w, NEW p, NEW c, Shows(p, w, "probe"), Shows(c, w, "control"), Clean(c),
           Works(w), w.censor \in DNSActs \/ "resolver" \in p.trouble
    PROVE  Classify(p, {c}) = "dns"
<1>1. c.dns.answers = {Address(w, "control")} /\ c.dns.error = ""
  BY ControlSees
<1>2. Address(w, "control") \in {"site", "edge2"} /\ Acts(w, "probe") = w.censor
  BY DEF Address, Acts
<1>3. PICK d : d = CheckDNS(w, "probe", p.trouble)
  OBVIOUS
<1>4. p.dns = d
  BY <1>3 DEF Shows
<1>5. CASE w.censor = "mute" \/ "resolver" \in p.trouble
  <2>1. d.error = "timeout"
    BY <1>2, <1>3, <1>5, LookedUp
  <2>2. p.dns.error # "" /\ \A x \in {c} : x.dns.error = ""
    BY <1>1, <1>4, <2>1
  <2> QED  BY <2>2 DEF Classify, checkDNS
<1>6. CASE w.censor # "mute" /\ "resolver" \notin p.trouble
  <2>1. /\ p.dns.answers = Resolved(w, "probe")
        /\ AnyBogon(Resolved(w, "probe")) => p.dns.bogon
    <3>1. /\ d.answers = Resolved(w, "probe")
          /\ AnyBogon(Resolved(w, "probe")) => d.bogon
      BY <1>2, <1>3, <1>6, LookedUp
    <3> QED  BY <1>4, <3>1
  <2>2. CASE w.censor = "bogon"
    <3>1. p.dns.bogon
      BY <1>2, <2>1, <2>2 DEF Resolved, AnyBogon
    <3> QED  BY <3>1 DEF Classify, checkDNS
  <2>3. CASE w.censor \in {"poison", "nxdomain"}
    <3>1. p.dns.answers = {"fake"} \/ p.dns.answers = {}
      BY <1>2, <2>1, <2>3 DEF Resolved
    <3>2. /\ c.dns.answers # {} /\ p.dns.answers \cap c.dns.answers = {}
          /\ ~cdnMatchAll(p.dns.answers, c.dns.answers)
      BY <1>1, <1>2, <3>1 DEF cdnMatchAll, Lookup, CDNAddresses
    <3> QED  BY <3>2 DEF Classify, checkDNS
  <2> QED  BY <1>6, <2>2, <2>3 DEF DNSActs
<1> QED  BY <1>5, <1>6

(* Otherwise the answers agree, directly or by the CDN they belong to. *)
LEMMA DNSAgrees ==
    ASSUME NEW w, NEW p, NEW C, Shows(p, w, "probe"), Works(w), w.censor \notin DNSActs,
           p.trouble = {}, \A c \in C : Shows(c, w, "control")
    PROVE  checkDNS(p, C)
<1>1. Acts(w, "probe") = w.censor
  BY DEF Acts
<1>2. /\ p.dns.answers = {Address(w, "probe")} /\ p.dns.error = ""
      /\ ~p.dns.bogon /\ ~p.dns.injected
  BY <1>1, SeesAddress
<1>3. ASSUME NEW c \in C, c.dns.answers # {}
      PROVE  \/ p.dns.answers \cap c.dns.answers # {}
             \/ cdnMatchAll(p.dns.answers, c.dns.answers)
  <2>1. c.dns.answers = {Address(w, "control")}
    BY <1>3, AnyControlSees
  <2> QED  BY <1>2, <2>1 DEF Address, cdnMatchAll, Lookup, CDNAddresses
<1> QED  BY <1>2, <1>3 DEF checkDNS

(* What a probe without trouble sees of a site that works, layer by layer. *)
Observed(p, w) ==
    /\ w.censor = "drop" => p.tcp = {"timeout"}
    /\ w.censor # "drop" => p.tcp = {"ok"} /\ p.tls = {CheckTLS(w, "probe", {})}
    /\ w.censor = "stall" => p.http = NoAnswer
    /\ w.censor = "none" => p.http = SitePage
    /\ w.censor = "page" => p.http = NoticePage
    /\ w.censor = "stub" => p.http = StubPage
    /\ w.censor = "451" => p.http = LegalPage

LEMMA ProbeSees ==
    ASSUME NEW w, NEW p, Shows(p, w, "probe"), Works(w), w.censor \in CensorActs \ DNSActs,
           p.trouble = {}
    PROVE  Observed(p, w)
<1> USE DEF Observed
<1> DEFINE a == Address(w, "probe")
<1>1. Acts(w, "probe") = w.censor
  BY DEF Acts
<1>2. /\ p.tcp = {CheckTCP(w, "probe", a, {})} /\ p.http = CheckHTTP(w, "probe", a, {})
      /\ Genuine(a)
  BY <1>1, SeesAddress
<1> HIDE DEF a
<1>3. /\ w.censor = "drop" => CheckTCP(w, "probe", a, {}) = "timeout"
      /\ w.censor # "drop" => CheckTCP(w, "probe", a, {}) = "ok"
  BY <1>1, <1>2 DEF CheckTCP, classifyNetError, Works, Reaches
<1>4. CASE w.censor = "drop"
  BY <1>2, <1>3, <1>4
<1>5. CASE w.censor # "drop"
  <2>1. CheckTCP(w, "probe", a, {}) = "ok"
    BY <1>3, <1>5
  <2>2. p.tcp = {"ok"}
    BY <1>2, <2>1
  <2>3. p.tls = {CheckTLS(w, "probe", {})}
    BY <2>2 DEF Shows
  <2>4. CASE w.censor = "stall"
    <3>1. CheckTLS(w, "probe", {}) = "timeout"
      BY <1>1, <2>4 DEF CheckTLS
    <3>2. CheckHTTP(w, "probe", a, {}) = NoAnswer
      BY <2>1, <3>1 DEF CheckHTTP, NoAnswer
    <3> QED  BY <1>2, <2>2, <2>3, <2>4, <3>2
  <2>5. CASE w.censor = "reset"
    BY <2>2, <2>3, <2>5
  <2>6. CASE w.censor \notin {"stall", "reset"}
    <3>1. CheckTLS(w, "probe", {}) = "ok"
      BY <1>1, <2>6 DEF CheckTLS
    <3>2. /\ w.censor = "none" => CheckHTTP(w, "probe", a, {}) = SitePage
          /\ w.censor = "page" => CheckHTTP(w, "probe", a, {}) = NoticePage
          /\ w.censor = "stub" => CheckHTTP(w, "probe", a, {}) = StubPage
          /\ w.censor = "451" => CheckHTTP(w, "probe", a, {}) = LegalPage
      <4>1. CASE w.censor = "none"
        BY <1>1, <2>1, <3>1, <4>1 DEF CheckHTTP, WebPage, SitePage
      <4>2. CASE w.censor = "page"
        BY <1>1, <2>1, <3>1, <4>2 DEF CheckHTTP, WebPage, NoticePage
      <4>3. CASE w.censor = "stub"
        BY <1>1, <2>1, <3>1, <4>3 DEF CheckHTTP, WebPage, StubPage
      <4>4. CASE w.censor = "451"
        BY <1>1, <2>1, <3>1, <4>4 DEF CheckHTTP, WebPage, LegalPage
      <4> QED  BY <4>1, <4>2, <4>3, <4>4
    <3> QED  BY <1>2, <1>5, <2>2, <2>3, <2>6, <3>2
  <2> QED  BY <2>4, <2>5, <2>6
<1> QED  BY <1>4, <1>5

(* The fourth layer compares pages. *)
LEMMA PagesDiffer ==
    ~isHTTPDiff(SitePage, SitePage) /\ isHTTPDiff(NoticePage, SitePage)
    /\ isHTTPDiff(StubPage, SitePage)
BY DEF isHTTPDiff, WebPage, SitePage, NoticePage, StubPage

LEMMA PageStatus ==
    /\ ~isHTTPBlockStatus(SitePage.status) /\ SitePage.error = ""
    /\ ~isHTTPBlockStatus(NoticePage.status) /\ NoticePage.error = ""
    /\ ~isHTTPBlockStatus(StubPage.status) /\ StubPage.error = ""
    /\ isHTTPBlockStatus(LegalPage.status) /\ LegalPage.error = ""
    /\ NoAnswer.error = "timeout"
<1>1. SitePage.error = "" /\ NoticePage.error = "" /\ StubPage.error = "" /\ LegalPage.error = ""
  BY DEF WebPage, SitePage, NoticePage, StubPage, LegalPage
<1>2. /\ ~isHTTPBlockStatus(SitePage.status) /\ ~isHTTPBlockStatus(NoticePage.status)
      /\ ~isHTTPBlockStatus(StubPage.status) /\ isHTTPBlockStatus(LegalPage.status)
  BY DEF isHTTPBlockStatus, WebPage, SitePage, NoticePage, StubPage, LegalPage
<1>3. NoAnswer.error = "timeout"
  BY DEF NoAnswer, NoHTTP
<1> QED  BY <1>1, <1>2, <1>3, Zenon

LEMMA PageJudged ==
    ASSUME NEW p, NEW C, \A c \in C : c.http = SitePage
    PROVE  /\ p.http = SitePage => checkHTTP(p, C) = ""
           /\ C # {} /\ p.http \in {NoticePage, StubPage} => checkHTTP(p, C) = "http-diff"
           /\ p.http \in {LegalPage, NoAnswer} => checkHTTP(p, C) = "http-failure"
<1>1. \A c \in C : c.http.error = ""
  BY PageStatus, Zenon
<1>2. ASSUME NEW h, p.http = h, h.error = "", ~isHTTPBlockStatus(h.status)
      PROVE  /\ C # {} /\ isHTTPDiff(h, SitePage) => checkHTTP(p, C) = "http-diff"
             /\ ~isHTTPDiff(h, SitePage) => checkHTTP(p, C) = ""
  <2>1. p.http.error # "absent"
    BY <1>2
  <2> QED  BY <1>1, <1>2, <2>1, Zenon DEF checkHTTP
<1>3. ASSUME NEW h, p.http = h,
             (h.error = "" /\ isHTTPBlockStatus(h.status)) \/ h.error = "timeout"
      PROVE  checkHTTP(p, C) = "http-failure"
  <2>1. p.http.error # "absent"
    BY <1>3
  <2>2. p.http.error # "" \/ isHTTPBlockStatus(p.http.status)
    BY <1>3
  <2> QED  BY <2>1, <2>2, Zenon DEF checkHTTP
<1> QED  BY <1>2, <1>3, PageStatus, PagesDiffer, Zenon

(* The decision tree names the layer of the interference. *)
LEMMA LayerNamed ==
    ASSUME NEW w, NEW p, NEW c, Shows(p, w, "probe"), Shows(c, w, "control"), Works(w),
           w.censor \in CensorActs, p.trouble = {}, Clean(c)
    PROVE  Classify(p, {c}) = InterferedLayer[w.censor]
<1>1. CASE w.censor \in DNSActs
  <2>1. Classify(p, {c}) = "dns"
    BY <1>1, DNSBlamed
  <2> QED  BY <1>1, <2>1 DEF InterferedLayer, DNSActs
<1>2. CASE w.censor \in CensorActs \ DNSActs
  <2>1. checkDNS(p, {c}) /\ Observed(p, w)
    BY <1>2, DNSAgrees, ProbeSees
  <2>2. c.tcp = {"ok"} /\ c.tls = {"ok"} /\ c.http = SitePage
    BY ControlSees
  <2>3. CASE w.censor = "drop"
    <3>1. p.tcp = {"timeout"}
      BY <2>1, <2>3 DEF Observed
    <3>2. checkTCP(p, {c})
      BY <2>2, <3>1 DEF checkTCP
    <3> QED  BY <2>1, <2>3, <3>2 DEF Classify, InterferedLayer
  <2>4. CASE w.censor # "drop"
    <3>1. p.tcp = {"ok"} /\ p.tls = {CheckTLS(w, "probe", {})}
      BY <2>1, <2>4 DEF Observed
    <3>2. ~checkTCP(p, {c})
      BY <3>1 DEF checkTCP
    <3>3. Acts(w, "probe") = w.censor
      BY DEF Acts
    <3>4. CASE w.censor = "reset"
      <4>1. CheckTLS(w, "probe", {}) = "connection_reset"
        BY <3>3, <3>4 DEF CheckTLS
      <4>2. checkTLS(p, {c})
        BY <2>2, <3>1, <4>1 DEF checkTLS, isTLSSNIError
      <4> QED  BY <2>1, <3>2, <3>4, <4>2 DEF Classify, InterferedLayer
    <3>5. CASE w.censor # "reset"
      <4>1. CheckTLS(w, "probe", {}) \in {"ok", "timeout"}
        BY <3>3, <3>5 DEF CheckTLS
      <4>2. ~checkTLS(p, {c})
        BY <3>1, <4>1 DEF checkTLS, isTLSSNIError
      <4>3. Classify(p, {c}) = checkHTTP(p, {c})
        BY <2>1, <3>2, <4>2 DEF Classify
      <4>4. /\ p.http = SitePage => checkHTTP(p, {c}) = ""
            /\ p.http \in {NoticePage, StubPage} => checkHTTP(p, {c}) = "http-diff"
            /\ p.http \in {LegalPage, NoAnswer} => checkHTTP(p, {c}) = "http-failure"
        <5>1. {c} # {} /\ \A d \in {c} : d.http = SitePage
          BY <2>2
        <5> QED  BY <5>1, PageJudged, Zenon
      <4>5. CASE w.censor = "none"
        BY <2>1, <4>3, <4>4, <4>5 DEF Observed, InterferedLayer
      <4>6. CASE w.censor \in {"page", "stub"}
        BY <2>1, <4>3, <4>4, <4>6 DEF Observed, InterferedLayer
      <4>7. CASE w.censor \in {"stall", "451"}
        BY <2>1, <4>3, <4>4, <4>7 DEF Observed, InterferedLayer
      <4> QED  BY <1>2, <2>4, <3>5, <4>5, <4>6, <4>7 DEF CensorActs, DNSActs
    <3> QED  BY <3>4, <3>5
  <2> QED  BY <2>3, <2>4
<1> QED  BY <1>1, <1>2

(* A probe without trouble raises no false alarm, whatever its control met. *)
LEMMA NoFalseAlarm ==
    ASSUME NEW w, NEW p, NEW C, Shows(p, w, "probe"), Works(w), w.censor = "none",
           p.trouble = {}, \A c \in C : Shows(c, w, "control")
    PROVE  Classify(p, C) = ""
<1>1. w.censor \in CensorActs \ DNSActs /\ Acts(w, "probe") = "none"
  BY DEF CensorActs, DNSActs, Acts
<1>2. checkDNS(p, C) /\ Observed(p, w)
  BY <1>1, DNSAgrees, ProbeSees
<1>3. p.tcp = {"ok"} /\ p.tls = {"ok"} /\ p.http = SitePage
  <2>1. CheckTLS(w, "probe", {}) = "ok"
    BY <1>1 DEF CheckTLS
  <2> QED  BY <1>2, <2>1 DEF Observed
<1>4. ~checkTCP(p, C) /\ ~checkTLS(p, C)
  BY <1>3 DEF checkTCP, checkTLS, isTLSSNIError
<1>5. checkHTTP(p, C) = ""
  <2>1. \A c \in C : c.http.error = "" => c.http = SitePage
    BY AnyControlSees
  <2>2. \A c \in C : c.http.error = "" => ~isHTTPDiff(p.http, c.http)
    BY <1>3, <2>1, PagesDiffer, Zenon
  <2>3. /\ p.http.error = "" /\ p.http.error # "absent"
        /\ ~isHTTPBlockStatus(p.http.status)
    BY <1>3, PageStatus
  <2> QED  BY <2>2, <2>3, Zenon DEF checkHTTP
<1> QED  BY <1>2, <1>4, <1>5 DEF Classify

(* Interference is noticed whatever the probe met: trouble adds to the     *)
(* differences and takes none away.                                        *)
LEMMA Noticed ==
    ASSUME NEW w, NEW p, NEW c, Shows(p, w, "probe"), Shows(c, w, "control"), Works(w),
           w.censor \in CensorActs \ {"none"}, Clean(c)
    PROVE  Classify(p, {c}) # ""
<1> DEFINE a == Address(w, "probe")
<1>1. c.tcp = {"ok"} /\ c.tls = {"ok"} /\ c.http = SitePage
  BY ControlSees
<1>2. Acts(w, "probe") = w.censor
  BY DEF Acts
<1>3. CASE w.censor \in DNSActs \/ "resolver" \in p.trouble
  <2>1. Classify(p, {c}) = "dns"
    BY <1>3, DNSBlamed
  <2> QED  BY <2>1
<1>4. CASE w.censor \notin DNSActs /\ "resolver" \notin p.trouble
  <2>1. /\ p.tcp = {CheckTCP(w, "probe", a, p.trouble)}
        /\ p.http = CheckHTTP(w, "probe", a, p.trouble)
        /\ Genuine(a)
    BY <1>2, <1>4, SeesAddress
  <2> HIDE DEF a
  <2>2. CASE w.censor = "drop" \/ "connect" \in p.trouble
    <3>1. "ok" \notin p.tcp /\ p.tcp # {}
      BY <1>2, <2>1, <2>2 DEF CheckTCP, classifyNetError, Reaches
    <3>2. checkTCP(p, {c})
      BY <1>1, <3>1 DEF checkTCP
    <3> QED  BY <3>2 DEF Classify
  <2>3. CASE w.censor = "reset" \/ "handshake" \in p.trouble
    <3>1. CASE "ok" \in p.tcp
      <4>1. p.tls = {"connection_reset"}
        BY <1>2, <2>3, <3>1 DEF Shows, CheckTLS
      <4>2. checkTLS(p, {c})
        BY <1>1, <4>1 DEF checkTLS, isTLSSNIError
      <4> QED  BY <4>2 DEF Classify
    <3>2. CASE "ok" \notin p.tcp
      <4>1. checkTCP(p, {c})
        BY <1>1, <2>1, <3>2 DEF checkTCP
      <4> QED  BY <4>1 DEF Classify
    <3> QED  BY <3>1, <3>2
  <2>4. CASE "request" \in p.trouble
    <3>1. p.http = NoAnswer
      BY <2>1, <2>4 DEF CheckHTTP, NoAnswer
    <3>2. checkHTTP(p, {c}) = "http-failure"
      BY <1>1, <3>1, PageJudged
    <3> QED  BY <3>2 DEF Classify
  <2>5. CASE /\ w.censor \in {"stall", "page", "stub", "451"}
             /\ "request" \notin p.trouble
    <3>1. CheckTCP(w, "probe", a, {}) = "ok"
      BY <1>2, <2>1, <2>5 DEF CheckTCP, Reaches, Works
    <3>2. p.http \in {NoAnswer, NoticePage, StubPage, LegalPage}
      <4>1. CASE w.censor = "stall"
        <5>1. CheckTLS(w, "probe", {}) = "timeout"
          BY <1>2, <4>1 DEF CheckTLS
        <5>2. CheckHTTP(w, "probe", a, p.trouble) = NoAnswer
          BY <2>5, <3>1, <5>1 DEF CheckHTTP, NoAnswer
        <5> QED  BY <2>1, <5>2
      <4>2. CASE w.censor \in {"page", "stub", "451"}
        <5>1. CheckTLS(w, "probe", {}) = "ok"
          BY <1>2, <4>2 DEF CheckTLS
        <5>2. CASE w.censor = "page"
          BY <1>2, <2>1, <2>5, <3>1, <5>1, <5>2 DEF CheckHTTP, WebPage, NoticePage
        <5>3. CASE w.censor = "stub"
          BY <1>2, <2>1, <2>5, <3>1, <5>1, <5>3 DEF CheckHTTP, WebPage, StubPage
        <5>4. CASE w.censor = "451"
          BY <1>2, <2>1, <2>5, <3>1, <5>1, <5>4 DEF CheckHTTP, WebPage, LegalPage
        <5> QED  BY <4>2, <5>2, <5>3, <5>4
      <4> QED  BY <2>5, <4>1, <4>2
    <3>3. {c} # {} /\ \A d \in {c} : d.http = SitePage
      BY <1>1
    <3>4. /\ p.http \in {NoticePage, StubPage} => checkHTTP(p, {c}) = "http-diff"
          /\ p.http \in {LegalPage, NoAnswer} => checkHTTP(p, {c}) = "http-failure"
      BY <3>3, PageJudged, Zenon
    <3>5. checkHTTP(p, {c}) # ""
      BY <3>2, <3>4
    <3> QED  BY <3>5 DEF Classify
  <2> QED  BY <1>4, <2>2, <2>3, <2>4, <2>5 DEF CensorActs, DNSActs
<1> QED  BY <1>3, <1>4

-----------------------------------------------------------------------------
(* The inductive invariant behind VerdictsAreRight: measurements show what  *)
(* their node saw and no two have one time stamp, so that a verdict rests   *)
(* on one probe and at most one control, and names what Classify makes of   *)
(* them.                                                                    *)
AWorld == [site : SiteStates, censor : CensorActs]

True(m) == m.seen \in AWorld /\ m.role \in {"probe", "control"} /\ Shows(m, m.seen, m.role)

Taken == measurements \cup UNION {process[n].batch : n \in Nodes}

Dated ==
    /\ measured \in Nat
    /\ \A m \in Taken : True(m) /\ m.at \in 1..measured
    /\ \A m, o \in Taken : m.at = o.at => m = o

Sound(v) ==
    /\ \A p \in v.probe :
        True(p) /\ p.role = "probe" /\ v.blocking = Classify(p, v.control)
    /\ \A c \in v.control : True(c) /\ c.role = "control"
    /\ \A c, d \in v.control : c = d

SoundInv ==
    /\ world \in AWorld
    /\ DOMAIN process = Nodes
    /\ Dated
    /\ \A r \in Requests : Sound(request[r].verdict)
    /\ \A v \in verdicts : Sound(v)

(* A sound verdict is right.                                                *)
LEMMA SoundIsRight ==
    ASSUME NEW v, Sound(v), NEW p \in v.probe, Works(p.seen),
           \A c \in v.control : c.seen = p.seen
    PROVE  /\ p.trouble = {} /\ p.seen.censor = "none" => v.blocking = ""
           /\ \A c \in v.control : c.trouble \subseteq {"fast"} =>
                /\ p.trouble = {}
                      => v.blocking = InterferedLayer[p.seen.censor]
                /\ p.seen.censor # "none" => v.blocking # ""
<1> DEFINE w == p.seen
<1>1. Shows(p, w, "probe") /\ w.censor \in CensorActs /\ v.blocking = Classify(p, v.control)
  BY DEF Sound, True, AWorld
<1>2. \A c \in v.control : Shows(c, w, "control")
  BY DEF Sound, True
<1> HIDE DEF w
<1>3. ASSUME NEW c \in v.control, Clean(c)
      PROVE  /\ p.trouble = {} => v.blocking = InterferedLayer[w.censor]
             /\ w.censor # "none" => v.blocking # ""
  <2>1. Shows(c, w, "control") /\ v.control = {c}
    BY <1>2 DEF Sound
  <2>2. Works(w) /\ Shows(p, w, "probe") /\ w.censor \in CensorActs
    BY <1>1 DEF w
  <2>3. p.trouble = {} => v.blocking = InterferedLayer[w.censor]
    BY <1>1, <1>3, <2>1, <2>2, LayerNamed
  <2>4. w.censor # "none" => v.blocking # ""
    BY <1>1, <1>3, <2>1, <2>2, Noticed
  <2> QED  BY <2>3, <2>4
<1>4. ASSUME p.trouble = {}, w.censor = "none" PROVE v.blocking = ""
  BY <1>1, <1>2, <1>4, NoFalseAlarm DEF w
<1> QED  BY <1>3, <1>4 DEF w, Clean

(* Requests that start have nothing to be right about.                      *)
LEMMA NoVerdictSound == Sound(NoVerdict) /\ Sound(IdleRequest.verdict)
<1>1. Sound(NoVerdict)
  BY DEF Sound, NoVerdict, Verdict
<1> QED  BY <1>1 DEF IdleRequest, Request

(* What a node measures now.                                                *)
LEMMA MeasuresTrue ==
    ASSUME SoundInv, NEW n \in Nodes, NEW trouble
    PROVE  /\ True(FullCheck(n, world, trouble))
           /\ FullCheck(n, world, trouble).at = measured + 1
<1> DEFINE role == RoleOf[n]
           m == FullCheck(n, world, trouble)
<1>1. role \in {"probe", "control"} /\ world \in AWorld
  BY GfwAssumption DEF SoundInv
<1> HIDE DEF role
<1>2. /\ m.role = role /\ m.seen = world /\ m.trouble = trouble
      /\ m.at = measured + 1
      /\ m.dns = CheckDNS(world, role, trouble)
      /\ m.tcp = {CheckTCP(world, role, ip, trouble) :
                      ip \in CheckDNS(world, role, trouble).answers}
  BY DEF FullCheck, role
<1>3. m.tls = (IF "ok" \in m.tcp THEN {CheckTLS(world, role, trouble)} ELSE {})
  BY <1>2 DEF FullCheck, role
<1>4. m.http = (IF m.dns.answers = {} THEN NoHTTP
                ELSE CheckHTTP(world, role, CHOOSE ip \in m.dns.answers : TRUE,
                               trouble))
  BY <1>2 DEF FullCheck, role
<1> HIDE DEF m
<1>5. Shows(m, world, role)
  BY <1>2, <1>3, <1>4 DEF Shows
<1> QED  BY <1>1, <1>2, <1>5 DEF True, m

(* Measurements are handed on or dropped.                                   *)
LEMMA DatedKept ==
    ASSUME Dated, UNCHANGED measured, Taken' \subseteq Taken
    PROVE  Dated'
BY DEF Dated

(* One node changes what it is doing.                                       *)
LEMMA OneProcess ==
    ASSUME DOMAIN process = Nodes, NEW n \in Nodes, NEW x,
           process' = [process EXCEPT ![n] = x],
           measurements' \subseteq measurements \cup process[n].batch
    PROVE  /\ DOMAIN process' = Nodes
           /\ \A m \in Taken' : m \in Taken \/ m \in x.batch
<1>1. DOMAIN process' = Nodes /\ process'[n] = x
  OBVIOUS
<1>2. \A o \in Nodes : o # n => process'[o] = process[o]
  OBVIOUS
<1>3. \A m \in Taken' : m \in Taken \/ m \in x.batch
  BY <1>1, <1>2 DEF Taken
<1> QED  BY <1>1, <1>3

(* The steps of the nodes.                                                  *)
LEMMA NodesSound ==
    ASSUME SoundInv, NEW n \in Nodes, NodeStep(n)
    PROVE  SoundInv'
<1>1. UNCHANGED <<world, verdicts, request>>
  BY DEF NodeStep, Register, RunMeasurements, SubmitMeasurements, Crash, verdictVars
<1>2. DOMAIN process' = Nodes /\ Dated'
  <2>1. CASE Register(n)
    <3>1. CASE UNCHANGED process
      <4>1. Taken' = Taken
        BY <2>1, <3>1 DEF Register, Taken
      <4> QED  BY <2>1, <3>1, <4>1, DatedKept DEF SoundInv, Register
    <3>2. CASE process' = [process EXCEPT ![n] = IdleNode]
      <4>1. IdleNode.batch = {}
        BY DEF IdleNode
      <4>2. UNCHANGED <<measurements, measured>>
        BY <2>1 DEF Register
      <4> QED  BY <3>2, <4>1, <4>2, OneProcess, DatedKept DEF SoundInv
    <3> QED  BY <2>1, <3>1, <3>2 DEF Register
  <2>2. CASE SubmitMeasurements(n)
    <3>1. IdleNode.batch = {}
      BY DEF IdleNode
    <3>2. /\ process' = [process EXCEPT ![n] = IdleNode] /\ UNCHANGED measured
          /\ measurements' \subseteq measurements \cup process[n].batch
      BY <2>2 DEF SubmitMeasurements, StoreMeasurements, InsertMeasurements
    <3> QED  BY <3>1, <3>2, OneProcess, DatedKept DEF SoundInv
  <2>3. CASE Crash(n)
    <3>1. Down.batch = {}
      BY DEF Down
    <3>2. process' = [process EXCEPT ![n] = Down] /\ UNCHANGED <<measurements, measured>>
      BY <2>3 DEF Crash
    <3> QED  BY <3>1, <3>2, OneProcess, DatedKept DEF SoundInv
  <2>4. CASE RunMeasurements(n)
    <3>0. PICK trouble \in Troubles : process' = [process EXCEPT ![n] =
              [pc |-> "submit", batch |-> {FullCheck(n, world, trouble)}]]
      BY <2>4 DEF RunMeasurements
    <3>1. PICK m : m = FullCheck(n, world, trouble)
      OBVIOUS
    <3>2. True(m) /\ m.at = measured + 1
      BY <3>1, MeasuresTrue
    <3>3. PICK x : x = [pc |-> "submit", batch |-> {m}]
      OBVIOUS
    <3>4. x.batch = {m}
      BY <3>3
    <3>5. /\ process' = [process EXCEPT ![n] = x]
          /\ measurements' = measurements /\ measured' = measured + 1
      BY <2>4, <3>0, <3>1, <3>3 DEF RunMeasurements
    <3>6. DOMAIN process' = Nodes /\ \A o \in Taken' : o \in Taken \/ o = m
      BY <3>4, <3>5, OneProcess DEF SoundInv
    <3>7. /\ measured \in Nat /\ \A o \in Taken : True(o) /\ o.at \in 1..measured
          /\ \A o, q \in Taken : o.at = q.at => o = q
      BY DEF SoundInv, Dated
    <3>8. \A o \in Taken' : True(o) /\ o.at \in 1..measured'
      BY <3>2, <3>5, <3>6, <3>7
    <3>9. \A o \in Taken : o.at # m.at
      BY <3>2, <3>7
    <3>10. \A o, q \in Taken' : o.at = q.at => o = q
      BY <3>6, <3>7, <3>9
    <3>11. measured' \in Nat
      BY <3>5, <3>7
    <3> QED  BY <3>6, <3>8, <3>10, <3>11 DEF Dated
  <2> QED  BY <2>1, <2>2, <2>3, <2>4 DEF NodeStep
<1> QED  BY <1>1, <1>2 DEF SoundInv

(* Steps that leave the nodes alone.                                        *)
LEMMA SoundKept ==
    ASSUME SoundInv, world' \in AWorld, UNCHANGED <<process, measurements, measured>>,
           \A r \in Requests : Sound(request'[r].verdict),
           \A v \in verdicts' : v \in verdicts \/ Sound(v)
    PROVE  SoundInv'
<1>1. Taken' = Taken
  BY DEF Taken
<1>2. Dated'
  BY <1>1, DatedKept DEF SoundInv
<1> QED  BY <1>2 DEF SoundInv

(* The newest measurement of a role is one.                                 *)
LEMMA NewestOne ==
    ASSUME Dated, NEW role, NEW S, S = {m \in measurements : m.role = role}
    PROVE  /\ \A m \in Newest(S) : m \in measurements /\ m.role = role /\ True(m)
           /\ \A m, o \in Newest(S) : m = o
<1>1. \A m \in Newest(S) : m \in measurements /\ m.role = role /\ m \in Taken
  BY DEF Newest, Taken
<1>2. ASSUME NEW m \in Newest(S), NEW o \in Newest(S) PROVE m = o
  <2>1. m.at <= o.at /\ o.at <= m.at
    BY DEF Newest
  <2>2. m.at \in Nat /\ o.at \in Nat
    BY <1>1 DEF Dated
  <2> QED  BY <1>1, <2>1, <2>2 DEF Dated
<1> QED  BY <1>1, <1>2 DEF Dated

(* The pair that a request compares gives a sound verdict.                  *)
LEMMA FetchSound ==
    ASSUME Dated, NEW probe \in LatestMeasurementPair["probe"],
           NEW control, control = LatestMeasurementPair["control"]
    PROVE  Sound(Verdict({probe}, control, Classify(probe, control), 0))
<1>1. /\ probe \in Newest({m \in measurements : m.role = "probe"})
      /\ control = Newest({m \in measurements : m.role = "control"})
  BY DEF LatestMeasurementPair
<1>2. True(probe) /\ probe.role = "probe"
  BY <1>1, NewestOne
<1>3. /\ \A c \in control : True(c) /\ c.role = "control"
      /\ \A c, d \in control : c = d
  BY <1>1, NewestOne
<1>4. PICK v : v = Verdict({probe}, control, Classify(probe, control), 0)
  OBVIOUS
<1>5. v.probe = {probe} /\ v.control = control /\ v.blocking = Classify(probe, control)
  BY <1>4 DEF Verdict
<1>6. Sound(v)
  BY <1>2, <1>3, <1>5 DEF Sound
<1> QED  BY <1>4, <1>6

(* The score does not enter.                                                *)
LEMMA SoundScore ==
    ASSUME NEW v, Sound(v), NEW score,
           v = Verdict(v.probe, v.control, v.blocking, v.confidence)
    PROVE  Sound([v EXCEPT !.confidence = score])
<1>1. PICK u : u = [v EXCEPT !.confidence = score]
  OBVIOUS
<1>2. u.probe = v.probe /\ u.control = v.control /\ u.blocking = v.blocking
  BY <1>1 DEF Verdict
<1>3. Sound(u)
  BY <1>2 DEF Sound
<1> QED  BY <1>1, <1>3

(* A request gets a new state.                                              *)
LEMMA SoundRequest ==
    ASSUME SoundInv, RequestsInv, NEW r \in Requests, NEW q,
           request' = [request EXCEPT ![r] = q], Sound(q.verdict)
    PROVE  \A p \in Requests : Sound(request'[p].verdict)
<1>1. request'[r] = q /\ \A p \in Requests : p # r => request'[p] = request[p]
  BY DEF RequestsInv
<1> QED  BY <1>1 DEF SoundInv

LEMMA SoundGoto ==
    ASSUME SoundInv, RequestsInv, NEW r \in Requests, NEW pc, Goto(r, pc)
    PROVE  \A p \in Requests : Sound(request'[p].verdict)
<1>1. PICK q : q = [request[r] EXCEPT !.pc = pc]
  OBVIOUS
<1>2. q.verdict = request[r].verdict
  BY <1>1 DEF RequestsInv, Good, Request
<1>3. Sound(q.verdict)
  BY <1>2 DEF SoundInv
<1> QED  BY <1>1, <1>3, SoundRequest DEF Goto

LEMMA SoundReturn ==
    ASSUME SoundInv, RequestsInv, NEW r \in Requests, Return(r)
    PROVE  \A p \in Requests : Sound(request'[p].verdict)
BY NoVerdictSound, SoundRequest DEF Return

(* The steps of a request.                                                  *)
LEMMA RequestsSound ==
    ASSUME SoundInv, RequestsInv, NEW r \in Requests, RequestStep(r)
    PROVE  SoundInv'
<1> DEFINE Stay == \A p \in Requests : Sound(request'[p].verdict)
<1>1. UNCHANGED <<world, nodeVars>>
  BY DEF RequestStep, LatestVerdict, FetchMeasurements, LoadConfidence, SaveConfidence,
         PersistVerdict, UpdateDomainBlockingStatus, Resolve, DedupCheck, InsertAlert,
         EnqueueNotify
<1>2. world' \in AWorld /\ UNCHANGED <<process, measurements, measured>>
  BY <1>1 DEF nodeVars, SoundInv
<1>3. CASE LatestVerdict(r)
  BY <1>2, <1>3, SoundGoto, SoundKept DEF LatestVerdict
<1>4. CASE FetchMeasurements(r)
  <2>1. Stay
    <3>1. CASE Return(r)
      BY <3>1, SoundReturn
    <3>2. ASSUME NEW probe \in LatestMeasurementPair["probe"],
                 request' = [request EXCEPT ![r] =
                     Request("load",
                             Verdict({probe}, LatestMeasurementPair["control"],
                                     Classify(probe, LatestMeasurementPair["control"]), 0),
                             NoConfidence, 0, {})]
          PROVE  Stay
      <4>1. PICK v : v = Verdict({probe}, LatestMeasurementPair["control"],
                                 Classify(probe, LatestMeasurementPair["control"]), 0)
        OBVIOUS
      <4>2. Sound(v)
        BY <4>1, FetchSound DEF SoundInv
      <4>3. PICK q : q = Request("load", v, NoConfidence, 0, {})
        OBVIOUS
      <4>4. q.verdict = v
        BY <4>3 DEF Request
      <4>5. request' = [request EXCEPT ![r] = q]
        BY <3>2, <4>1, <4>3
      <4> QED  BY <4>2, <4>4, <4>5, SoundRequest
    <3> QED  BY <1>4, <3>1, <3>2 DEF FetchMeasurements
  <2>2. UNCHANGED verdicts
    BY <1>4 DEF FetchMeasurements
  <2> QED  BY <1>2, <2>1, <2>2, SoundKept
<1>5. CASE LoadConfidence(r)
  <2>1. Stay
    <3>1. CASE Goto(r, "persist")
      BY <3>1, SoundGoto
    <3>2. CASE request' = [request EXCEPT ![r].pc = "save", ![r].loaded = confidence]
      <4>1. PICK q : q = [request[r] EXCEPT !.pc = "save", !.loaded = confidence]
        OBVIOUS
      <4>2. q.verdict = request[r].verdict
        BY <4>1 DEF RequestsInv, Good, Request
      <4>3. Sound(q.verdict)
        BY <4>2 DEF SoundInv
      <4>4. request' = [request EXCEPT ![r] = q]
        BY <3>2, <4>1 DEF RequestsInv
      <4> QED  BY <4>3, <4>4, SoundRequest
    <3> QED  BY <1>5, <3>1, <3>2 DEF LoadConfidence
  <2>2. UNCHANGED verdicts
    BY <1>5 DEF LoadConfidence
  <2> QED  BY <1>2, <2>1, <2>2, SoundKept
<1>6. CASE SaveConfidence(r)
  <2>1. PICK score : request' = [request EXCEPT ![r] =
            Request("persist", [request[r].verdict EXCEPT !.confidence = score],
                    NoConfidence, 0, {})]
    BY <1>6 DEF SaveConfidence
  <2>2. PICK v : v = [request[r].verdict EXCEPT !.confidence = score]
    OBVIOUS
  <2>3. Sound(v)
    BY <2>2, SoundScore DEF SoundInv, RequestsInv, Good
  <2>4. PICK q : q = Request("persist", v, NoConfidence, 0, {})
    OBVIOUS
  <2>5. q.verdict = v
    BY <2>4 DEF Request
  <2>6. request' = [request EXCEPT ![r] = q]
    BY <2>1, <2>2, <2>4
  <2>7. UNCHANGED verdicts
    BY <1>6 DEF SaveConfidence
  <2> QED  BY <1>2, <2>3, <2>5, <2>6, <2>7, SoundRequest, SoundKept
<1>7. CASE PersistVerdict(r)
  <2>1. \A v \in verdicts' : v \in verdicts \/ Sound(v)
    BY <1>7 DEF PersistVerdict, InsertVerdict, SoundInv
  <2>2. Stay
    BY <1>7, SoundGoto, SoundReturn DEF PersistVerdict
  <2> QED  BY <1>2, <2>1, <2>2, SoundKept
<1>8. CASE UpdateDomainBlockingStatus(r)
  <2>1. PICK pc : Goto(r, pc)
    BY <1>8 DEF UpdateDomainBlockingStatus
  <2>2. UNCHANGED verdicts
    BY <1>8 DEF UpdateDomainBlockingStatus
  <2> QED  BY <1>2, <2>1, <2>2, SoundGoto, SoundKept
<1>9. CASE Resolve(r) \/ DedupCheck(r)
  <2>1. Stay
    BY <1>9, SoundGoto, SoundReturn DEF Resolve, DedupCheck
  <2>2. UNCHANGED verdicts
    BY <1>9 DEF Resolve, DedupCheck
  <2> QED  BY <1>2, <2>1, <2>2, SoundKept
<1>10. CASE InsertAlert(r) \/ EnqueueNotify(r)
  <2>1. ASSUME NEW alert, NEW todo, FanOut(r, alert, todo) PROVE Stay
    <3>1. PICK q : q = IF todo = {} THEN IdleRequest
                       ELSE Request("fanout", NoVerdict, NoConfidence, alert, todo)
      OBVIOUS
    <3>2. Sound(q.verdict)
      BY <3>1, NoVerdictSound DEF Request
    <3>3. request' = [request EXCEPT ![r] = q]
      BY <2>1, <3>1 DEF FanOut
    <3> QED  BY <3>2, <3>3, SoundRequest
  <2>2. Stay
    BY <1>10, <2>1, SoundReturn DEF InsertAlert, EnqueueNotify
  <2>3. UNCHANGED verdicts
    BY <1>10 DEF InsertAlert, EnqueueNotify
  <2> QED  BY <1>2, <2>2, <2>3, SoundKept
<1> QED  BY <1>3, <1>4, <1>5, <1>6, <1>7, <1>8, <1>9, <1>10 DEF RequestStep

LEMMA SoundInit == Init => SoundInv
<1> SUFFICES ASSUME Init PROVE SoundInv
  OBVIOUS
<1>1. world \in AWorld
  BY GfwAssumption DEF Init, AWorld
<1>2. Taken = {}
  BY DEF Init, Taken, IdleNode
<1>3. Dated
  BY <1>2 DEF Init, Dated
<1> QED  BY <1>1, <1>3, NoVerdictSound DEF Init, SoundInv

LEMMA SoundStep == SoundInv /\ GfwInv /\ [Next]_vars => SoundInv'
<1> SUFFICES ASSUME SoundInv, GfwInv, [Next]_vars PROVE SoundInv'
  OBVIOUS
<1>1. CASE \/ UNCHANGED vars \/ WorldChanges \/ ConfidenceExpires \/ AlertsAge
           \/ UpsertAssignment \/ DisableAssignment \/ DeleteAssignment
  <2>1. UNCHANGED <<process, measurements, measured, request, verdicts>>
    BY <1>1 DEF vars, WorldChanges, ConfidenceExpires, AlertsAge, UpsertAssignment,
                DisableAssignment, DeleteAssignment, nodeVars, verdictVars
  <2>2. world' \in AWorld
    BY <1>1, GfwAssumption
    DEF SoundInv, AWorld, vars, environment, WorldChanges, ConfidenceExpires, AlertsAge,
        UpsertAssignment, DisableAssignment, DeleteAssignment
  <2> QED  BY <2>1, <2>2, SoundKept DEF SoundInv
<1>2. CASE \E n \in Nodes : NodeStep(n)
  BY <1>2, NodesSound
<1>3. CASE \E r \in Requests : RequestStep(r)
  BY <1>3, RequestsSound DEF GfwInv
<1> QED  BY <1>1, <1>2, <1>3 DEF Next

(* Whatever the firewall does, in whichever worlds, whatever the checks    *)
(* meet and however nodes and requests are interleaved: when probe and     *)
(* control saw a site that works in the same world, a probe without        *)
(* trouble is judged by what the firewall did, and interference is noticed *)
(* with or without trouble (Analyzer.Classify).                            *)
THEOREM VerdictsRight == Spec => []VerdictsAreRight
<1>1. SoundInv => VerdictsAreRight
  BY SoundIsRight DEF SoundInv, VerdictsAreRight
<1> QED  BY <1>1, SoundInit, SoundStep, GfwInvariant, PTL DEF Spec

=============================================================================
