----------------------------- MODULE DnsProofs -----------------------------
(***************************************************************************)
(* Proofs about DnsRecords: one alert an hour, rows that say what the      *)
(* provider says, and listings that miss nothing, for any zones, requests, *)
(* templates, page sizes and bounds.                                       *)
(***************************************************************************)
EXTENDS DnsRecords, FiniteSetTheorems, SequenceTheorems, WellFoundedInduction, TLAPS

-----------------------------------------------------------------------------
(* Least and greatest numbers.                                             *)

Before == OpToRel(<, Nat)

(* A set of numbers that is not empty has a least one. *)
LEMMA LeastOf ==
    ASSUME NEW T \in SUBSET Nat, T # {}
    PROVE  \E x \in T : \A y \in T : x <= y
<1>1. IsWellFoundedOn(Before, Nat)
  BY NatLessThanWellFounded DEF Before
<1>2. PICK x \in T : \A y \in T : <<y, x>> \notin Before
  BY <1>1, WFMin
<1>3. \A y \in T : y < x => <<y, x>> \in Before
  BY DEF Before, OpToRel
<1>4. \A y \in T : ~(y < x)
  BY <1>2, <1>3
<1>5. \A y \in T : x <= y
  BY <1>4
<1> QED
  BY <1>5

(* One that has a bound has a greatest one. *)
LEMMA GreatestOf ==
    ASSUME NEW T \in SUBSET Nat, T # {}, NEW n \in Nat, \A y \in T : y <= n
    PROVE  \E x \in T : \A y \in T : y <= x
<1> DEFINE U == {m \in Nat : \A y \in T : y <= m}
<1>1. PICK m \in U : \A k \in U : m <= k
  <2>1. U \in SUBSET Nat /\ n \in U
    OBVIOUS
  <2> HIDE DEF U
  <2> QED
    BY <2>1, LeastOf
<1>2. CASE m \in T
  BY <1>1, <1>2
<1>3. CASE m \notin T
  <2>1. PICK y \in T : TRUE
    OBVIOUS
  <2>2. \A x \in T : x <= m - 1
    BY <1>1, <1>3
  <2>3. m \in Nat /\ m - 1 \in U
    BY <1>1, <2>1, <2>2
  <2>4. m <= m - 1
    BY <1>1, <2>3
  <2> QED
    BY <2>3, <2>4
<1> QED
  BY <1>2, <1>3

-----------------------------------------------------------------------------
(* The clients.                                                            *)

(* A client is made of a row whose type is registered (Get). *)
LEMMA RegisteredType ==
    ASSUME NEW row, Get(row) = ""
    PROVE  row.type \in ClientTypes
BY DEF Get, ClientTypes

(* A refusal is an error, whichever client reports it. *)
LEMMA RefusalsAreErrors ==
    ASSUME NEW t \in ClientTypes,
           NEW reason \in {"norecord", "duplicate", "nozone", "outside"}
    PROVE  ErrorOf(t, reason) # ""
<1> DEFINE answer == Says(t, reason)
<1>0. PICK none : none = ""
  OBVIOUS
<1>1. CASE t = "cloudflare"
  <2>1. ErrorOf(t, reason) = cfCheckStatus(answer)
    BY <1>1 DEF ErrorOf, cfDoRequest
  <2>2. answer.http = 400 \/ answer.http = 404
    <3>1. CASE reason \in {"norecord", "nozone"}
      <4>1. answer = [http |-> 404, code |-> reason]
        BY <1>1, <3>1 DEF Says
      <4> QED
        BY <4>1
    <3>2. CASE reason \in {"duplicate", "outside"}
      <4>1. answer = [http |-> 400, code |-> reason]
        BY <1>1, <3>2, ZenonT(60) DEF Says
      <4> QED
        BY <4>1
    <3> QED
      BY <3>1, <3>2
  <2>3. \A http \in {400, 404} :
           (CASE http < 400 -> "" [] http = 403 -> "ErrUnauthorized"
              [] http = 404 -> "ErrRecordNotFound"
              [] http = 429 -> "ErrRateLimitExceeded" [] OTHER -> "error") # ""
    OBVIOUS
  <2> HIDE DEF answer
  <2>4. cfCheckStatus(answer) # ""
    BY <2>2, <2>3 DEF cfCheckStatus
  <2> QED
    BY <2>1, <2>4
<1>2. CASE t = "alidns"
  <2>1. ErrorOf(t, reason) = alidnsCheckStatus(answer)
    BY <1>2 DEF ErrorOf, alidnsDoRequest
  <2>2. answer = [http |-> 400, code |-> reason]
    BY <1>2, ZenonT(60) DEF Says
  <2>3. answer.code = reason
    BY <2>2
  <2>4. alidnsMapCode(reason) # ""
    BY DEF alidnsMapCode
  <2> HIDE DEF answer
  <2> QED
    BY <2>1, <2>3, <2>4, ZenonT(60) DEF alidnsCheckStatus
<1>3. CASE t = "dnspod"
  <2>1. ErrorOf(t, reason) = dnspodCall(answer)
    BY <1>3 DEF ErrorOf
  <2>2. answer = [http |-> 200, code |-> reason]
    BY <1>3, ZenonT(60) DEF Says
  <2>3. answer.code = reason
    BY <2>2
  <2>4. dnspodMapCode(reason) # ""
    BY DEF dnspodMapCode
  <2> HIDE DEF answer
  <2> QED
    BY <2>1, <2>3, <2>4 DEF dnspodCall
<1>4. CASE t = "huaweidns"
  <2>1. ErrorOf(t, reason) = hwCheckHTTP(answer)
    BY <1>4 DEF ErrorOf, hwDoJSON
  <2>2. answer.http \in {400, 404, 409}
    <3>1. CASE reason \in {"norecord", "nozone"}
      <4>1. answer = [http |-> 404, code |-> reason]
        BY <1>4, <3>1 DEF Says
      <4> QED
        BY <4>1
    <3>2. CASE reason = "duplicate"
      <4>1. answer = [http |-> 409, code |-> none]
        BY <1>0, <1>4, <3>2, ZenonT(60) DEF Says
      <4> QED
        BY <4>1
    <3>3. CASE reason = "outside"
      <4>1. answer = [http |-> 400, code |-> none]
        BY <1>0, <1>4, <3>3, ZenonT(60) DEF Says
      <4> QED
        BY <4>1
    <3> QED
      BY <3>1, <3>2, <3>3
  <2>3. \A code : hwMapCode(code) # ""
    BY DEF hwMapCode
  <2> DEFINE told == hwMapCode(answer.code)
              http == answer.http
  <2>4. hwCheckHTTP(answer) \in {told, "ErrUnauthorized", "ErrRecordNotFound",
               "ErrRecordAlreadyExists", "ErrRateLimitExceeded", "error"}
    <3>1. http \notin {200, 202, 204}
      BY <2>2
    <3> HIDE DEF told, http
    <3> QED
      BY <3>1 DEF hwCheckHTTP, told, http
  <2> QED
    BY <2>1, <2>3, <2>4
<1> QED
  BY <1>1, <1>2, <1>3, <1>4 DEF ClientTypes

(* A listing shows this content of an item (Alidns stores TXT and SRV      *)
(* records in another form than the one its client returns).               *)
Shows(t, i, content) ==
    \/ \E rec \in RecordsOf(t, i) : rec.content = content
    \/ t = "alidns" /\ i.type \in {"TXT", "SRV"}

(* What Put does with an item that has the id and one value. *)
Stored(t, items, id, change) ==
    \E i : /\ i.id = id /\ i.values # {}
           /\ change.items = {j \in items : j.id # id} \cup {i}
           /\ change.reason = "" /\ change.rec.id = id
           /\ Shows(t, i, change.rec.content)

LEMMA PutStores ==
    ASSUME NEW t, NEW items, NEW id, NEW i, NEW rec,
           i.id = id, i.values # {}, rec.id = id, Shows(t, i, rec.content)
    PROVE  LET change == Put(t, items, i, rec)
           IN  Stored(t, items, id, change) \/ change.reason = "duplicate"
<1>0. PICK none : none = ""
  OBVIOUS
<1>1. CASE Clashes(t, items, i)
  BY <1>1 DEF Put, Refused
<1>2. CASE ~Clashes(t, items, i)
  <2>1. Put(t, items, i, rec) = [items |-> {j \in items : j.id # i.id} \cup {i},
                                 reason |-> none, rec |-> rec]
    BY <1>0, <1>2 DEF Put
  <2>2. PICK c : c = Put(t, items, i, rec)
    OBVIOUS
  <2>3. /\ c.items = {j \in items : j.id # id} \cup {i}
        /\ c.reason = none /\ c.rec = rec
    BY <2>1, <2>2
  <2>4. Stored(t, items, id, c)
    BY <1>0, <2>3 DEF Stored
  <2> QED
    BY <2>2, <2>4
<1> QED
  BY <1>1, <1>2

(* A call that creates or replaces an item stores it, and the record the   *)
(* client returns is the one a listing shows; or it is refused.            *)
LEMMA CreateStores ==
    ASSUME NEW t \in ClientTypes, NEW items, NEW id, NEW rec \in Records
    PROVE  LET change == CreateRecord(t, items, id, rec)
           IN  \/ Stored(t, items, id, change)
               \/ change.reason \in {"duplicate", "outside"}
<1>0. DOMAIN rec = {"id", "type", "name", "content", "prio"}
  BY DEF Records
<1>1. CASE t = "cloudflare"
  <2> DEFINE item == ItemOf(id, rec, cfBuildRequest(rec))
  <2>1. item.id = id /\ item.values # {}
    BY DEF ItemOf
  <2> HIDE DEF item
  <2>2. cfRecordToRecord(item).id = id
    BY <2>1 DEF cfRecordToRecord
  <2>3. Shows(t, item, cfRecordToRecord(item).content)
    BY <1>1 DEF Shows, RecordsOf
  <2>4. CreateRecord(t, items, id, rec) = Put(t, items, item, cfRecordToRecord(item))
    BY <1>1 DEF CreateRecord, cfCreateRecord, item
  <2> QED
    BY <2>1, <2>2, <2>3, <2>4, PutStores
<1>2. CASE t = "alidns"
  <2> DEFINE item == ItemOf(id, rec, alidnsBuildValue(rec))
             back == [rec EXCEPT !.id = id, !.name = nameFromRR(rrFromName(rec.name))]
  <2>1. /\ item.id = id /\ item.values = {alidnsBuildValue(rec)}
        /\ item.type = rec.type
    BY DEF ItemOf
  <2>2. back.id = id /\ back.content = rec.content
    BY <1>0
  <2> HIDE DEF item, back
  <2>3. Shows(t, item, back.content)
    <3>1. CASE rec.type \in {"TXT", "SRV"}
      BY <1>2, <2>1, <3>1 DEF Shows
    <3>2. CASE rec.type \notin {"TXT", "SRV"}
      <4>1. OnlyValue(item) = rec.content
        BY <2>1, <3>2 DEF OnlyValue, alidnsBuildValue
      <4>2. alidnsToRecord(item).content = rec.content
        BY <2>1, <3>2, <4>1 DEF alidnsToRecord
      <4>3. RecordsOf(t, item) = {alidnsToRecord(item)}
        BY <1>2 DEF RecordsOf
      <4> QED
        BY <2>2, <4>2, <4>3 DEF Shows
    <3> QED
      BY <3>1, <3>2
  <2>4. CreateRecord(t, items, id, rec) = Put(t, items, item, back)
    BY <1>2 DEF CreateRecord, alidnsCreateRecord, item, back
  <2> QED
    BY <2>1, <2>2, <2>3, <2>4, PutStores
<1>3. CASE t = "dnspod"
  <2> DEFINE whole == ItemOf(id, rec, rec.content)
             item  == IF rec.type = "MX" THEN whole ELSE [whole EXCEPT !.prio = 0]
             back  == [rec EXCEPT !.id = id, !.name = nameFromRR(rrFromName(rec.name))]
  <2>1. item.id = id /\ item.values = {rec.content}
    BY DEF ItemOf
  <2>2. back.id = id /\ back.content = rec.content
    BY <1>0
  <2>3. CreateRecord(t, items, id, rec) = Put(t, items, item, back)
    BY <1>3 DEF CreateRecord, dnspodCreateRecord
  <2> HIDE DEF item, back
  <2>4. Shows(t, item, back.content)
    <3>1. OnlyValue(item) = rec.content
      BY <2>1 DEF OnlyValue
    <3>2. dnspodToRecord(item).content = rec.content
      BY <3>1 DEF dnspodToRecord
    <3>3. RecordsOf(t, item) = {dnspodToRecord(item)}
      BY <1>3 DEF RecordsOf
    <3> QED
      BY <2>2, <3>2, <3>3 DEF Shows
  <2> QED
    BY <2>1, <2>2, <2>3, <2>4, PutStores
<1>4. CASE t = "huaweidns"
  <2> DEFINE item == ItemOf(id, rec, hwRecordValue(rec))
             back == CHOOSE r \in hwRecordsetToRecords(item) : TRUE
  <2>1. item.id = id /\ item.values # {}
    BY DEF ItemOf
  <2>2. \/ CreateRecord(t, items, id, rec) = Put(t, items, item, back)
        \/ CreateRecord(t, items, id, rec) = Refused(items, "outside")
    BY <1>4 DEF CreateRecord, hwCreateRecord
  <2> HIDE DEF item
  <2>3. hwRecordsetToRecords(item) # {}
    BY <2>1 DEF hwRecordsetToRecords
  <2>4. back \in hwRecordsetToRecords(item)
    BY <2>3
  <2> HIDE DEF back
  <2>5. back.id = id
    BY <2>1, <2>4 DEF hwRecordsetToRecords
  <2>6. Shows(t, item, back.content)
    BY <1>4, <2>4 DEF Shows, RecordsOf
  <2>7. Refused(items, "outside").reason = "outside"
    BY DEF Refused
  <2> QED
    BY <2>1, <2>2, <2>5, <2>6, <2>7, PutStores
<1> QED
  BY <1>1, <1>2, <1>3, <1>4 DEF ClientTypes

(* An update does the same with an item that exists. *)
LEMMA UpdateStores ==
    ASSUME NEW t \in ClientTypes, NEW items, NEW id, NEW rec \in Records
    PROVE  LET change == UpdateRecord(t, items, id, rec)
           IN  \/ Stored(t, items, id, change) /\ Has(items, id)
               \/ change.reason \in {"duplicate", "outside", "norecord"}
<1>1. CASE ~Has(items, id)
  BY <1>1 DEF UpdateRecord, Refused
<1>2. CASE Has(items, id)
  <2>1. UpdateRecord(t, items, id, rec) = CreateRecord(t, items, id, rec)
    BY <1>2 DEF UpdateRecord, CreateRecord, cfUpdateRecord, alidnsUpdateRecord,
                dnspodUpdateRecord, hwUpdateRecord, ClientTypes
  <2> QED
    BY <1>2, <2>1, CreateStores
<1> QED
  BY <1>1, <1>2

(* A delete takes the item away, or there is none. *)
LEMMA DeleteTakes ==
    ASSUME NEW t \in ClientTypes, NEW items, NEW id
    PROVE  LET change == DeleteRecord(t, items, id)
           IN  \/ /\ Has(items, id) /\ change.reason = ""
                  /\ change.items = {i \in items : i.id # id}
               \/ change.reason = "norecord"
<1>1. DeleteRecord(t, items, id) = Removed(items, id)
  BY DEF DeleteRecord, cfDeleteRecord, alidnsDeleteRecord, dnspodDeleteRecord,
         hwDeleteRecord, ClientTypes
<1>2. PICK c : c = Removed(items, id)
  OBVIOUS
<1>3. \/ Has(items, id) /\ c.reason = "" /\ c.items = {i \in items : i.id # id}
      \/ c.reason = "norecord"
  BY <1>2 DEF Removed, Refused
<1> QED
  BY <1>1, <1>2, <1>3

-----------------------------------------------------------------------------
(* Requests: what each is doing, and with what.                            *)

Fields ==
    {"op", "pc", "domain", "provider", "client", "known", "local", "ids", "done",
     "rec", "cursor", "got", "from", "gone", "renames", "todo"}

RawOps    == {"rawcreate", "rawupdate", "rawdelete"}
RowOps    == {"update", "delete", "batch"}
CreateOps == {"create", "apply"}
DeleteOps == {"delete", "batch", "rawdelete"}
ListOps   == {"sync", "drift"}

OpsAt(pc) ==
    CASE pc = "list"   -> ListOps
      [] pc = "call"   -> RawOps \cup RowOps \cup CreateOps
      [] pc = "write"  -> {"sync"} \cup RowOps \cup CreateOps
      [] pc = "lookup" -> {"drift"}
      [] pc = "next"   -> {"apply"}
      [] pc \in {"alert", "send", "sent"} -> {"drift"}
      [] pc = "unprovide" -> {"unprovide"}
      [] pc = "bind"      -> {"bind"}
      [] pc = ""          -> {"idle"}

LEMMA OpsAtIs ==
    /\ OpsAt("list") = ListOps
    /\ OpsAt("call") = RawOps \cup RowOps \cup CreateOps
    /\ OpsAt("write") = {"sync"} \cup RowOps \cup CreateOps
    /\ OpsAt("lookup") = {"drift"} /\ OpsAt("next") = {"apply"}
    /\ OpsAt("alert") = {"drift"} /\ OpsAt("send") = {"drift"} /\ OpsAt("sent") = {"drift"}
    /\ OpsAt("unprovide") = {"unprovide"} /\ OpsAt("bind") = {"bind"}
    /\ OpsAt("") = {"idle"}
BY DEF OpsAt

AtProvider == {"list", "call", "write", "lookup"}

Sound(s) ==
    /\ DOMAIN s = Fields
    /\ s.op \in OpsAt(s.pc)
    /\ s.todo \in Seq(Records)
    /\ s.pc \in AtProvider => s.client.type \in ClientTypes
    /\ s.pc = "call" => s.op \in DeleteOps \/ s.rec \in Records

RequestInv ==
    /\ DOMAIN request = Requests
    /\ \A q \in Requests : Sound(request[q])
    /\ template # <<>> => template[1].records \in Seq(Records)

(* The ids that others had given when the system started. *)
Others == Cardinality(Foreign)

ZoneInv ==
    /\ DOMAIN zones = ClientTypes /\ DOMAIN deleted = ClientTypes
    /\ lastId \in Nat /\ Others \in Nat /\ Others <= lastId
    /\ \A t \in ClientTypes : IsFiniteSet(zones[t]) /\ deleted[t] \subseteq 1..lastId
    /\ \A t \in ClientTypes : \A i \in zones[t] :
          i.id \in 1..lastId /\ i.values # {} /\ i.id \notin deleted[t]
    /\ \A t \in ClientTypes : \A i, j \in zones[t] : i.id = j.id => i = j
    /\ \A t, u \in ClientTypes : \A i \in zones[t], j \in zones[u] :
          i.id = j.id /\ t # u => i.id <= Others

(* Only this provider may have the record. *)
Only(t, id) == \A u \in ClientTypes : \A i \in zones[u] : i.id = id => u = t

RowFields ==
    {"id", "domain", "provider", "rid", "type", "name", "content", "prio", "live", "at"}

RowRids == {r.rid : r \in rows}

RowInv ==
    /\ IsFiniteSet(rows)
    /\ \A r \in rows :
          /\ DOMAIN r = RowFields
          /\ r.id \in 1..Cardinality(rows)
          /\ r.rid \in Nat /\ Others < r.rid /\ r.rid <= lastId
          /\ r.at \in ClientTypes /\ Only(r.at, r.rid)
    /\ \A r, x \in rows : r.id = x.id \/ r.rid = x.rid => r = x

(* A provider says this of a record. *)
ItemSays(t, id, content) ==
    \E i \in zones[t] : i.id = id /\ Shows(t, i, content)

(* Requests that name rows, and requests between their call and their      *)
(* write.                                                                  *)
Naming(s)   == s.op \in RowOps /\ s.pc \in {"call", "write"}
Creating(s) == s.op \in CreateOps /\ s.pc = "write"
Updating(s) == s.op = "update" /\ s.pc = "write"

NamesRows(s) ==
    /\ s.ids \subseteq RowRids /\ s.done \subseteq s.ids
    /\ \A r \in rows : r.rid \in s.ids => r.id \in s.local
    /\ s.op = "delete" /\ s.pc = "call" => s.done = {}
    /\ s.op = "update" =>
          /\ \A x, y \in s.ids : x = y
          /\ s.local \subseteq RowIds
          /\ \A r \in rows : r.id \in s.local => r.rid \in s.ids

HasNew(s) ==
    /\ s.rec.id \in Nat /\ Others < s.rec.id /\ s.rec.id <= lastId
    /\ s.rec.id \notin RowRids
    /\ Only(s.client.type, s.rec.id)

(* What holds of a request between its call and its write, until a failure *)
(* or another request touches its record.                                  *)
PendingOf(s) ==
    /\ Naming(s) => NamesRows(s)
    /\ Creating(s) => HasNew(s)
    /\ Updating(s) =>
          s.rec.id \in s.ids /\ \A r \in rows : r.rid = s.rec.id => r.at = s.client.type
    /\ (Creating(s) \/ Updating(s)) /\ s.rec.id \notin disturbed
          => ItemSays(s.client.type, s.rec.id, s.rec.content)

PendingInv ==
    /\ \A q \in Requests : PendingOf(request[q])
    /\ \A q, k \in Requests :
          /\ Creating(request[q]) /\ Creating(request[k])
          /\ request[q].rec.id = request[k].rec.id
          => q = k

(* The records a request has changed, and whose rows it is still to write. *)
Touched(s) ==
    IF Updating(s) THEN {s.rec.id}
    ELSE IF Naming(s) /\ s.op # "update" THEN s.done ELSE {}

TrueInv ==
    \A r \in rows :
        /\ r.live /\ r.rid \notin disturbed
        /\ \A q \in Requests : r.rid \notin Touched(request[q])
        => ItemSays(r.at, r.rid, r.content)

-----------------------------------------------------------------------------
(* The kinds of steps.                                                     *)

(* The request of q becomes n. *)
Moves(q, n) == request' = [request EXCEPT ![q] = n] /\ Sound(n)

(* It has nothing to do with the provider any more. *)
Rests(q, n) ==
    /\ Moves(q, n) /\ n.pc \notin AtProvider
    /\ UNCHANGED <<itemVars, rows>>
    /\ disturbed \subseteq disturbed' /\ Touched(request[q]) \subseteq disturbed'

(* It begins with the provider. *)
Begins(q, n) ==
    /\ Moves(q, n) /\ request[q].pc \in {"", "next"}
    /\ n.pc \in {"list", "call"}
    /\ n.pc = "list" => n.cursor = 0 /\ n.got = {}
    /\ Naming(n) => NamesRows(n)
    /\ UNCHANGED <<zoneVars, rows>>

(* It has found the zone. *)
Finds(q, n) ==
    /\ Moves(q, n) /\ request[q].pc \in {"list", "call"}
    /\ n = [request[q] EXCEPT !.known = TRUE]
    /\ UNCHANGED <<zoneVars, rows>>

(* It has a page more. *)
Pages(q, n) ==
    /\ Moves(q, n) /\ request[q].pc = "list" /\ ListPage(q)
    /\ n.pc \in {"list", "lookup", "write"} /\ n.op = request[q].op
    /\ UNCHANGED <<zoneVars, rows>>

(* The provider stores or takes away an item. *)
MayPut(q, id) ==
    \/ request[q].op \in CreateOps \cup {"rawcreate"} /\ id = lastId + 1
    \/ /\ request[q].op \in {"update", "rawupdate"}
       /\ Has(Items(q), id) /\ id \in request[q].ids

Puts(q, id, items) ==
    /\ MayPut(q, id)
    /\ \E i \in items : /\ items = {j \in Items(q) : j.id # id} \cup {i}
                        /\ i.id = id /\ i.values # {}

Takes(q, id, items) ==
    /\ items = {j \in Items(q) : j.id # id}
    /\ request[q].op \in {"delete", "batch", "rawdelete"}
    /\ Has(Items(q), id) /\ id \in request[q].ids

(* What becomes of the request: it is to write a record that the provider  *)
(* shows, or it has deleted one more, or it ends and what it has touched   *)
(* is disturbed.                                                           *)
ToWrite(q, n, id, items) ==
    \E back :
       /\ n = [request[q] EXCEPT !.pc = "write", !.rec = back]
       /\ request[q].op \in CreateOps \cup {"update"}
       /\ back.id = id
       /\ \E i \in items : i.id = id /\ Shows(request[q].client.type, i, back.content)

OneMore(q, n, id) ==
    /\ request[q].op \in {"delete", "batch"}
    /\ n.op = request[q].op /\ n.ids = request[q].ids /\ n.local = request[q].local
    /\ n.pc \in {"call", "write"}
    /\ n.done = request[q].done \cup {id}
    /\ n.op = "delete" => n.pc = "write"

Leaves(q, n, id) ==
    /\ n.pc \notin AtProvider
    /\ Touched(request[q]) \subseteq disturbed'
    /\ id \in disturbed' \/ id = lastId + 1

Changes(q, n) ==
    \E id, items :
        /\ Moves(q, n) /\ request[q].pc = "call"
        /\ Puts(q, id, items) \/ Takes(q, id, items)
        /\ \/ ToWrite(q, n, id, items) \/ OneMore(q, n, id)
           \/ Leaves(q, n, id)
        /\ \E touched : Change(q, items, id, touched)
        /\ \A k \in Requests \ {q} :
              (Updating(request[k]) \/ Creating(request[k])) /\ request[k].rec.id = id
              => id \in disturbed'

(* It writes its rows. *)
Writes(q, n) ==
    /\ Moves(q, n) /\ n.pc \notin AtProvider
    /\ request[q].pc = "write" /\ rows' = Written(request[q])
    /\ UNCHANGED zoneVars

(* Redis and the alerts are left alone. *)
Hushed == alerted' = alerted /\ alerts' = alerts /\ faults \subseteq faults'

Kind(q, n) ==
    /\ n.pc # "send" /\ Hushed
    /\ \/ Rests(q, n) \/ Begins(q, n) \/ Finds(q, n)
       \/ Pages(q, n) \/ Changes(q, n) \/ Writes(q, n)

(* A request that is not at its provider has touched nothing. *)
LEMMA UntouchedAway ==
    ASSUME NEW s, s.pc \notin {"call", "write"}
    PROVE  Touched(s) = {}
BY DEF Touched, Updating, Naming

LEMMA UntouchedOthers ==
    ASSUME NEW s, s.op \notin RowOps
    PROVE  Touched(s) = {}
BY DEF Touched, Updating, Naming, RowOps

(* A request for a domain, before it has anything. *)
Fresh(s, op, pc) ==
    /\ DOMAIN s = Fields /\ s.op = op /\ s.pc = pc /\ s.done = {} /\ s.ids = {}
    /\ s.cursor = 0 /\ s.got = {} /\ s.todo = <<>> /\ s.rec = NoRecord

LEMMA OfIs ==
    ASSUME NEW op, NEW pc, NEW d, NEW p
    PROVE  /\ Fresh(Of(op, pc, d, p), op, pc)
           /\ resolveSync(p) = "" => Of(op, pc, d, p).client.type \in ClientTypes
<1>1. Fresh(Of(op, pc, d, p), op, pc) /\ Of(op, pc, d, p).client = Provider(p)
  BY DEF Of, Idle, Fields, Fresh
<1>2. ASSUME resolveSync(p) = "" PROVE Of(op, pc, d, p).client.type \in ClientTypes
  <2>1. p # 0 /\ Get(providers[p]) = ""
    BY <1>2 DEF resolveSync
  <2>2. Of(op, pc, d, p).client = providers[p]
    BY <1>1, <2>1 DEF Provider
  <2> QED
    BY <2>1, <2>2, RegisteredType
<1> QED
  BY <1>1, <1>2

LEMMA ForIs ==
    ASSUME NEW op, NEW pc, NEW d
    PROVE  /\ Fresh(For(op, pc, d), op, pc)
           /\ resolveSync(domains[d]) = "" => For(op, pc, d).client.type \in ClientTypes
BY OfIs DEF For

LEMMA NothingToDo == <<>> \in Seq(Records)
OBVIOUS

LEMMA CallIsSound ==
    ASSUME NEW s, DOMAIN s = Fields, s.pc = "call",
           s.op \in RawOps \cup RowOps \cup CreateOps,
           s.todo \in Seq(Records), s.op \in DeleteOps \/ s.rec \in Records,
           s.client.type \in ClientTypes
    PROVE  Sound(s)
<1>1. s.op \in OpsAt(s.pc)
  BY DEF OpsAt
<1> QED
  BY <1>1 DEF Sound

LEMMA IdleIs ==
    /\ Sound(Idle) /\ Idle.pc = "" /\ Idle.op = "idle" /\ Idle.done = {}
    /\ Touched(Idle) = {}
<1>1. /\ DOMAIN Idle = Fields /\ Idle.pc = "" /\ Idle.op = "idle"
      /\ Idle.todo = <<>> /\ Idle.done = {}
  BY DEF Idle, Fields
<1>2. Idle.op \in OpsAt(Idle.pc)
  BY <1>1 DEF OpsAt
<1>3. Sound(Idle)
  BY <1>1, <1>2, NothingToDo DEF Sound, AtProvider
<1> QED
  BY <1>1, <1>3, UntouchedAway

(* Begin, for a request that goes to its provider. *)
LEMMA BeginBegins ==
    ASSUME NEW q \in Requests, NEW n, RequestInv, request[q] = Idle, Begin(q, n),
           Sound(n), n.pc \in {"list", "call"}, n.done = {},
           n.pc = "list" => n.cursor = 0 /\ n.got = {},
           Naming(n) => NamesRows(n)
    PROVE  Kind(q, n)
<1>1. Begins(q, n)
  BY IdleIs DEF Begin, Begins, Moves
<1>2. Hushed
  BY DEF Begin, driftVars, Hushed
<1> QED
  BY <1>1, <1>2 DEF Kind

(* Begin, for one that does not. *)
LEMMA BeginRests ==
    ASSUME NEW q \in Requests, NEW n, RequestInv, request[q] = Idle, Begin(q, n),
           Sound(n), n.pc \notin AtProvider, n.pc # "send"
    PROVE  Kind(q, n)
<1>1. Rests(q, n)
  BY IdleIs DEF Begin, Rests, Moves, zoneVars
<1>2. Hushed
  BY DEF Begin, driftVars, Hushed
<1> QED
  BY <1>1, <1>2 DEF Kind

LEMMA LiveRowIs ==
    ASSUME RowInv, NEW id, GetByID(id)
    PROVE  LiveRow(id) \in rows /\ LiveRow(id).id = id
BY DEF GetByID, LiveRow

(* Every request that an operator starts begins with its provider, or with *)
(* the records of a template.                                              *)
LEMMA SyncKind ==
    ASSUME NEW q \in Requests, NEW d \in Domains, RequestInv, Sync(q, d)
    PROVE  \E n : Kind(q, n)
<1> DEFINE n == For("sync", "list", d)
<1>1. request[q] = Idle /\ resolveSync(domains[d]) = "" /\ Begin(q, n)
  BY DEF Sync, getDomain
<1>2. Fresh(n, "sync", "list") /\ n.client.type \in ClientTypes
  BY <1>1, ForIs
<1> HIDE DEF n
<1>3. n.op \in OpsAt(n.pc)
  BY <1>2 DEF Fresh, OpsAt, ListOps
<1>4. Sound(n) /\ ~Naming(n)
  BY <1>2, <1>3, NothingToDo DEF Fresh, Sound, Naming
<1> QED
  BY <1>1, <1>2, <1>4, BeginBegins DEF Fresh

LEMMA CreateLocalKind ==
    ASSUME NEW q \in Requests, NEW d \in Domains, RequestInv, CreateLocal(q, d)
    PROVE  \E n : Kind(q, n)
<1> DEFINE s == For("create", "call", d)
<1>1. PICK rec \in Inputs :
         /\ request[q] = Idle /\ resolveSync(domains[d]) = ""
         /\ Begin(q, [s EXCEPT !.rec = rec])
  BY DEF CreateLocal, getDomain, resolveProvider
<1> DEFINE n == [s EXCEPT !.rec = rec]
<1>2. Fresh(s, "create", "call") /\ s.client.type \in ClientTypes
  BY <1>1, ForIs
<1>3. Begin(q, n)
  BY <1>1
<1> HIDE DEF s
<1>4. /\ DOMAIN n = Fields /\ n.op = "create" /\ n.pc = "call" /\ n.done = {}
      /\ n.todo = <<>> /\ n.client = s.client
      /\ n.rec = rec
  BY <1>2 DEF Fresh, Fields
<1> HIDE DEF n
<1>5. n.op \in DeleteOps \/ n.rec \in Records
  BY <1>4, InputAssumption DEF DeleteOps
<1>6. n.op \in RawOps \cup RowOps \cup CreateOps
  BY <1>4 DEF RawOps, RowOps, CreateOps
<1>7. Sound(n)
  BY <1>2, <1>4, <1>5, <1>6, NothingToDo, CallIsSound
<1>8. ~Naming(n)
  BY <1>4 DEF Naming, RowOps
<1> QED
  BY <1>1, <1>3, <1>4, <1>7, <1>8, BeginBegins

LEMMA UpdateLocalKind ==
    ASSUME NEW q \in Requests, NEW d \in Domains, RequestInv, RowInv, UpdateLocal(q, d)
    PROVE  \E n : Kind(q, n)
<1> DEFINE s == For("update", "call", d)
<1>1. PICK id \in RowIds, rec \in Inputs :
         /\ request[q] = Idle /\ resolveSync(domains[d]) = "" /\ GetByID(id)
         /\ Begin(q, [s EXCEPT !.local = {id}, !.ids = {LiveRow(id).rid}, !.rec = rec])
  BY DEF UpdateLocal, getDomain, resolveProvider
<1> DEFINE n == [s EXCEPT !.local = {id}, !.ids = {LiveRow(id).rid}, !.rec = rec]
<1>2. Fresh(s, "update", "call") /\ s.client.type \in ClientTypes
  BY <1>1, ForIs
<1>3. Begin(q, n)
  BY <1>1
<1> HIDE DEF s
<1>4. /\ DOMAIN n = Fields /\ n.op = "update" /\ n.pc = "call" /\ n.done = {}
      /\ n.todo = <<>> /\ n.client = s.client
      /\ n.rec = rec /\ n.local = {id} /\ n.ids = {LiveRow(id).rid}
  BY <1>2 DEF Fresh, Fields
<1> HIDE DEF n
<1>5. n.op \in DeleteOps \/ n.rec \in Records
  BY <1>4, InputAssumption DEF DeleteOps
<1>6. n.op \in RawOps \cup RowOps \cup CreateOps
  BY <1>4 DEF RawOps, RowOps, CreateOps
<1>7. Sound(n)
  BY <1>2, <1>4, <1>5, <1>6, NothingToDo, CallIsSound
<1>8. NamesRows(n)
  <2>1. PICK r \in rows : r = LiveRow(id) /\ r.id = id
    BY <1>1, LiveRowIs
  <2>2. \A x \in rows : x.rid = r.rid <=> x.id = id
    BY <2>1 DEF RowInv
  <2>3. id \in RowIds /\ r.rid \in RowRids
    BY <1>1 DEF RowRids
  <2> QED
    BY <1>4, <2>1, <2>2, <2>3 DEF NamesRows
<1> QED
  BY <1>1, <1>3, <1>4, <1>7, <1>8, BeginBegins

LEMMA DeleteLocalKind ==
    ASSUME NEW q \in Requests, NEW d \in Domains, RequestInv, RowInv, DeleteLocal(q, d)
    PROVE  \E n : Kind(q, n)
<1> DEFINE s == For("delete", "call", d)
<1>1. PICK id \in RowIds :
         /\ request[q] = Idle /\ resolveSync(domains[d]) = "" /\ GetByID(id)
         /\ Begin(q, [s EXCEPT !.local = {id}, !.ids = {LiveRow(id).rid}])
  BY DEF DeleteLocal, getDomain, resolveProvider
<1> DEFINE n == [s EXCEPT !.local = {id}, !.ids = {LiveRow(id).rid}]
<1>2. Fresh(s, "delete", "call") /\ s.client.type \in ClientTypes
  BY <1>1, ForIs
<1>3. Begin(q, n)
  BY <1>1
<1> HIDE DEF s
<1>4. /\ DOMAIN n = Fields /\ n.op = "delete" /\ n.pc = "call" /\ n.done = {}
      /\ n.todo = <<>> /\ n.client = s.client
      /\ n.rec = NoRecord /\ n.local = {id} /\ n.ids = {LiveRow(id).rid}
  BY <1>2 DEF Fresh, Fields
<1> HIDE DEF n
<1>5. n.op \in DeleteOps \/ n.rec \in Records
  BY <1>4, InputAssumption DEF DeleteOps
<1>6. n.op \in RawOps \cup RowOps \cup CreateOps
  BY <1>4 DEF RawOps, RowOps, CreateOps
<1>7. Sound(n)
  BY <1>2, <1>4, <1>5, <1>6, NothingToDo, CallIsSound
<1>8. NamesRows(n)
  BY <1>1, <1>4, LiveRowIs DEF NamesRows, RowRids, RowIds, RowInv
<1> QED
  BY <1>1, <1>3, <1>4, <1>7, <1>8, BeginBegins

LEMMA CreateProviderRecordKind ==
    ASSUME NEW q \in Requests, NEW d \in Domains, RequestInv, CreateProviderRecord(q, d)
    PROVE  \E n : Kind(q, n)
<1> DEFINE s == For("rawcreate", "call", d)
<1>1. PICK rec \in Inputs :
         /\ request[q] = Idle /\ resolveSync(domains[d]) = ""
         /\ Begin(q, [s EXCEPT !.rec = rec])
  BY DEF CreateProviderRecord, getDomain, resolveProvider
<1> DEFINE n == [s EXCEPT !.rec = rec]
<1>2. Fresh(s, "rawcreate", "call") /\ s.client.type \in ClientTypes
  BY <1>1, ForIs
<1>3. Begin(q, n)
  BY <1>1
<1> HIDE DEF s
<1>4. /\ DOMAIN n = Fields /\ n.op = "rawcreate" /\ n.pc = "call" /\ n.done = {}
      /\ n.todo = <<>> /\ n.client = s.client
      /\ n.rec = rec
  BY <1>2 DEF Fresh, Fields
<1> HIDE DEF n
<1>5. n.op \in DeleteOps \/ n.rec \in Records
  BY <1>4, InputAssumption DEF DeleteOps
<1>6. n.op \in RawOps \cup RowOps \cup CreateOps
  BY <1>4 DEF RawOps, RowOps, CreateOps
<1>7. Sound(n)
  BY <1>2, <1>4, <1>5, <1>6, NothingToDo, CallIsSound
<1>8. ~Naming(n)
  BY <1>4 DEF Naming, RowOps
<1> QED
  BY <1>1, <1>3, <1>4, <1>7, <1>8, BeginBegins

LEMMA UpdateProviderRecordKind ==
    ASSUME NEW q \in Requests, NEW d \in Domains, RequestInv, UpdateProviderRecord(q, d)
    PROVE  \E n : Kind(q, n)
<1> DEFINE s == For("rawupdate", "call", d)
<1>1. PICK id \in 1..lastId, rec \in Inputs :
         /\ request[q] = Idle /\ resolveSync(domains[d]) = ""
         /\ Begin(q, [s EXCEPT !.ids = {id}, !.rec = rec])
  BY DEF UpdateProviderRecord, getDomain, resolveProvider
<1> DEFINE n == [s EXCEPT !.ids = {id}, !.rec = rec]
<1>2. Fresh(s, "rawupdate", "call") /\ s.client.type \in ClientTypes
  BY <1>1, ForIs
<1>3. Begin(q, n)
  BY <1>1
<1> HIDE DEF s
<1>4. /\ DOMAIN n = Fields /\ n.op = "rawupdate" /\ n.pc = "call" /\ n.done = {}
      /\ n.todo = <<>> /\ n.client = s.client
      /\ n.rec = rec
  BY <1>2 DEF Fresh, Fields
<1> HIDE DEF n
<1>5. n.op \in DeleteOps \/ n.rec \in Records
  BY <1>4, InputAssumption DEF DeleteOps
<1>6. n.op \in RawOps \cup RowOps \cup CreateOps
  BY <1>4 DEF RawOps, RowOps, CreateOps
<1>7. Sound(n)
  BY <1>2, <1>4, <1>5, <1>6, NothingToDo, CallIsSound
<1>8. ~Naming(n)
  BY <1>4 DEF Naming, RowOps
<1> QED
  BY <1>1, <1>3, <1>4, <1>7, <1>8, BeginBegins

LEMMA DeleteProviderRecordKind ==
    ASSUME NEW q \in Requests, NEW d \in Domains, RequestInv, DeleteProviderRecord(q, d)
    PROVE  \E n : Kind(q, n)
<1> DEFINE s == For("rawdelete", "call", d)
<1>1. PICK id \in 1..lastId :
         /\ request[q] = Idle /\ resolveSync(domains[d]) = ""
         /\ Begin(q, [s EXCEPT !.ids = {id}])
  BY DEF DeleteProviderRecord, getDomain, resolveProvider
<1> DEFINE n == [s EXCEPT !.ids = {id}]
<1>2. Fresh(s, "rawdelete", "call") /\ s.client.type \in ClientTypes
  BY <1>1, ForIs
<1>3. Begin(q, n)
  BY <1>1
<1> HIDE DEF s
<1>4. /\ DOMAIN n = Fields /\ n.op = "rawdelete" /\ n.pc = "call" /\ n.done = {}
      /\ n.todo = <<>> /\ n.client = s.client
      /\ n.rec = NoRecord
  BY <1>2 DEF Fresh, Fields
<1> HIDE DEF n
<1>5. n.op \in DeleteOps \/ n.rec \in Records
  BY <1>4, InputAssumption DEF DeleteOps
<1>6. n.op \in RawOps \cup RowOps \cup CreateOps
  BY <1>4 DEF RawOps, RowOps, CreateOps
<1>7. Sound(n)
  BY <1>2, <1>4, <1>5, <1>6, NothingToDo, CallIsSound
<1>8. ~Naming(n)
  BY <1>4 DEF Naming, RowOps
<1> QED
  BY <1>1, <1>3, <1>4, <1>7, <1>8, BeginBegins

OwnRids(d, local) == {r.rid : r \in {x \in rows : x.id \in local /\ x.live /\ x.domain = d}}

LEMMA BatchDeleteLocalKind ==
    ASSUME NEW q \in Requests, NEW d \in Domains, RequestInv, RowInv, BatchDeleteLocal(q, d)
    PROVE  \E n : Kind(q, n)
<1> DEFINE s == For("batch", "call", d)
<1>1. PICK local \in SUBSET RowIds :
         /\ request[q] = Idle /\ resolveSync(domains[d]) = ""
         /\ Begin(q, [s EXCEPT !.local = local, !.ids = OwnRids(d, local)])
  BY DEF BatchDeleteLocal, getDomain, OwnRids
<1> DEFINE n == [s EXCEPT !.local = local, !.ids = OwnRids(d, local)]
<1>2. Fresh(s, "batch", "call") /\ s.client.type \in ClientTypes
  BY <1>1, ForIs
<1>3. Begin(q, n)
  BY <1>1
<1> HIDE DEF s
<1>4. /\ DOMAIN n = Fields /\ n.op = "batch" /\ n.pc = "call" /\ n.done = {}
      /\ n.todo = <<>> /\ n.client = s.client
      /\ n.rec = NoRecord /\ n.local = local /\ n.ids = OwnRids(d, local)
  BY <1>2 DEF Fresh, Fields
<1> HIDE DEF n
<1>5. n.op \in DeleteOps \/ n.rec \in Records
  BY <1>4, InputAssumption DEF DeleteOps
<1>6. n.op \in RawOps \cup RowOps \cup CreateOps
  BY <1>4 DEF RawOps, RowOps, CreateOps
<1>7. Sound(n)
  BY <1>2, <1>4, <1>5, <1>6, NothingToDo, CallIsSound
<1>8. NamesRows(n)
  BY <1>1, <1>4 DEF NamesRows, RowRids, RowInv, OwnRids
<1> QED
  BY <1>1, <1>3, <1>4, <1>7, <1>8, BeginBegins

(* A template is rendered into records. *)
LEMMA RenderedAreRecords ==
    ASSUME RequestInv, template # <<>>, NEW given, NEW value \in Values
    PROVE  Rendered(given, value) \in Seq(Records)
<1> DEFINE t == template[1].records
           Contents == [v : STRING, form : {"plain", "quoted", "dotted"}]
<1>1. t \in Seq(Records)
  BY DEF RequestInv
<1> HIDE DEF t
<1>2. \A c \in Contents : substitute(c, value) \in Contents
  BY InputAssumption DEF substitute
<1>3. \A i \in DOMAIN t : [t[i] EXCEPT !.content = substitute(t[i].content, value)] \in Records
  <2> TAKE i \in DOMAIN t
  <2>1. PICK rec \in Records : rec = t[i]
    BY <1>1
  <2>2. rec.content \in Contents
    BY DEF Records
  <2>3. substitute(rec.content, value) \in Contents
    BY <1>2, <2>2
  <2>4. \A c \in Contents : [rec EXCEPT !.content = c] \in Records
    BY DEF Records
  <2> QED
    BY <2>1, <2>3, <2>4
<1> DEFINE all == [i \in DOMAIN t |-> [t[i] EXCEPT !.content = substitute(t[i].content, value)]]
<1>4. all \in Seq(Records)
  <2>1. DOMAIN t = 1..Len(t) /\ Len(t) \in Nat
    BY <1>1
  <2>2. all \in [1..Len(t) -> Records]
    BY <1>3, <2>1
  <2> HIDE DEF all
  <2> QED
    BY <2>1, <2>2, SeqDef
<1> QED
  BY <1>4, NothingToDo DEF Rendered, renderRecords, t

LEMMA ApplyTemplateKind ==
    ASSUME NEW q \in Requests, NEW d \in Domains, RequestInv, ApplyTemplate(q, d)
    PROVE  \E n : Kind(q, n)
<1> DEFINE s == For("apply", "next", d)
<1>1. PICK given \in SUBSET {"var"}, value \in Values :
         /\ request[q] = Idle /\ template # <<>>
         /\ Begin(q, [s EXCEPT !.todo = Rendered(given, value)])
  BY DEF ApplyTemplate, getDomain
<1>2. PICK todo \in Seq(Records) : todo = Rendered(given, value)
  BY <1>1, RenderedAreRecords
<1> DEFINE n == [s EXCEPT !.todo = todo]
<1>3. Fresh(s, "apply", "next")
  BY ForIs
<1>4. Begin(q, n)
  BY <1>1, <1>2
<1> HIDE DEF s
<1>5. DOMAIN n = Fields /\ n.op = "apply" /\ n.pc = "next" /\ n.todo = todo
  BY <1>3 DEF Fresh, Fields
<1> HIDE DEF n
<1>6. n.op \in OpsAt(n.pc)
  BY <1>5 DEF OpsAt
<1>7. Sound(n)
  BY <1>5, <1>6 DEF Sound, AtProvider
<1> QED
  BY <1>1, <1>4, <1>5, <1>7, BeginRests DEF AtProvider

LEMMA StartKind ==
    ASSUME NEW q \in Requests, NEW d \in Domains, RequestInv, RowInv, Start(q, d)
    PROVE  \E n : Kind(q, n)
BY SyncKind, CreateLocalKind, UpdateLocalKind, DeleteLocalKind, BatchDeleteLocalKind,
   ApplyTemplateKind, CreateProviderRecordKind, UpdateProviderRecordKind,
   DeleteProviderRecordKind DEF Start

(* The writes of dns_providers and of the bindings. *)
LEMMA DeleteProviderKind ==
    ASSUME NEW q \in Requests, NEW p \in ProviderIds, RequestInv, DeleteProvider(q, p)
    PROVE  \E n : Kind(q, n)
<1> DEFINE n == [Idle EXCEPT !.op = "unprovide", !.pc = "unprovide", !.provider = p]
<1>1. request[q] = Idle /\ Begin(q, n)
  BY DEF DeleteProvider
<1>2. DOMAIN n = Fields /\ n.op = "unprovide" /\ n.pc = "unprovide" /\ n.todo = <<>>
  BY DEF Idle, Fields
<1> HIDE DEF n
<1>3. n.op \in OpsAt(n.pc)
  BY <1>2 DEF OpsAt
<1>4. Sound(n)
  BY <1>2, <1>3, NothingToDo DEF Sound, AtProvider
<1> QED
  BY <1>1, <1>2, <1>4, BeginRests DEF AtProvider

LEMMA BindKind ==
    ASSUME NEW q \in Requests, NEW d \in Domains, NEW p, RequestInv, Bind(q, d, p)
    PROVE  \E n : Kind(q, n)
<1> DEFINE n == [Idle EXCEPT !.op = "bind", !.pc = "bind", !.domain = d, !.provider = p]
<1>1. request[q] = Idle /\ Begin(q, n)
  BY DEF Bind
<1>2. DOMAIN n = Fields /\ n.op = "bind" /\ n.pc = "bind" /\ n.todo = <<>>
  BY DEF Idle, Fields
<1> HIDE DEF n
<1>3. n.op \in OpsAt(n.pc)
  BY <1>2 DEF OpsAt
<1>4. Sound(n)
  BY <1>2, <1>3, NothingToDo DEF Sound, AtProvider
<1> QED
  BY <1>1, <1>2, <1>4, BeginRests DEF AtProvider

(* A request that ends without having touched anything. *)
LEMMA Ends ==
    ASSUME NEW q \in Requests, request' = [request EXCEPT ![q] = Idle],
           UNCHANGED <<itemVars, rows>>, disturbed \subseteq disturbed',
           Touched(request[q]) \subseteq disturbed', Hushed
    PROVE  Kind(q, Idle)
<1>1. Rests(q, Idle)
  BY IdleIs DEF Rests, Moves, AtProvider
<1> QED
  BY <1>1, IdleIs DEF Kind

LEMMA ShortKinds ==
    ASSUME NEW q \in Requests, RequestInv,
           DeleteProviderRow(q) \/ BindDomain(q) \/ Acknowledge(q)
    PROVE  \E n : Kind(q, n)
<1>1. /\ request' = [request EXCEPT ![q] = Idle]
      /\ UNCHANGED <<itemVars, rows, disturbed>> /\ Hushed
  BY DEF DeleteProviderRow, BindDomain, Acknowledge, Hushed, zoneVars, driftVars
<1>2. Touched(request[q]) = {}
  <2>1. request[q].pc \in {"unprovide", "bind", "sent"}
    BY DEF DeleteProviderRow, BindDomain, Acknowledge
  <2> QED
    BY <2>1, UntouchedAway
<1> QED
  BY <1>1, <1>2, Ends

(* After a failure, or after the write of one record, a template goes on   *)
(* and any other request ends.                                             *)
LEMMA GoesOn ==
    ASSUME NEW s, Sound(s), NEW n,
           n = IF s.op = "apply" THEN [s EXCEPT !.pc = "next"] ELSE Idle
    PROVE  Sound(n) /\ n.pc \in {"", "next"} /\ n.pc \notin AtProvider /\ n.pc # "send"
<1>1. CASE s.op = "apply"
  <2>1. DOMAIN n = Fields /\ n.op = "apply" /\ n.pc = "next" /\ n.todo = s.todo
    BY <1>1 DEF Sound, Fields
  <2>2. n.op \in OpsAt(n.pc)
    BY <2>1, OpsAtIs
  <2> QED
    BY <2>1, <2>2 DEF Sound, AtProvider
<1>2. CASE s.op # "apply"
  BY <1>2, IdleIs DEF AtProvider
<1> QED
  BY <1>1, <1>2

LEMMA FailRests ==
    ASSUME NEW q \in Requests, RequestInv, request[q].pc \in {"list", "call"},
           Fail(q), UNCHANGED <<itemVars, rows>>, Hushed
    PROVE  \E n : Kind(q, n)
<1> DEFINE n == AfterFailure(request[q])
<1>1. request' = [request EXCEPT ![q] = n] /\ disturbed' = disturbed \cup request[q].done
  BY DEF Fail
<1>2. Sound(n) /\ n.pc \notin AtProvider /\ n.pc # "send"
  BY GoesOn DEF RequestInv, AfterFailure
<1>3. Touched(request[q]) \subseteq request[q].done
  BY DEF Touched, Updating
<1> HIDE DEF n
<1>4. Rests(q, n)
  BY <1>1, <1>2, <1>3 DEF Rests, Moves
<1> QED
  BY <1>2, <1>4 DEF Kind

LEMMA RefuseKind ==
    ASSUME NEW q \in Requests, RequestInv, Refuse(q)
    PROVE  \E n : Kind(q, n)
<1>1. Hushed /\ Fail(q) /\ request[q].pc \in {"list", "call"}
  BY DEF Refuse, Fault, Hushed, driftVars, InCall
<1>2. UNCHANGED <<itemVars, rows>>
  BY DEF Refuse
<1> QED
  BY <1>1, <1>2, FailRests

LEMMA LookupZoneKind ==
    ASSUME NEW q \in Requests, RequestInv, LookupZone(q)
    PROVE  \E n : Kind(q, n)
<1>1. Hushed /\ request[q].pc \in {"list", "call"} /\ UNCHANGED <<itemVars, rows>>
  BY DEF LookupZone, Hushed, driftVars, InCall
<1>2. CASE Fail(q)
  BY <1>1, <1>2, FailRests
<1>3. CASE request' = [request EXCEPT ![q].known = TRUE] /\ UNCHANGED disturbed
  <2> DEFINE s == request[q]
             n == [s EXCEPT !.known = TRUE]
  <2>1. Sound(s)
    BY DEF RequestInv
  <2>2. /\ DOMAIN n = Fields /\ n.op = s.op /\ n.pc = s.pc /\ n.todo = s.todo
        /\ n.client = s.client /\ n.rec = s.rec
    BY <2>1 DEF Sound, Fields
  <2>3. Sound(n)
    BY <2>1, <2>2 DEF Sound
  <2>4. Finds(q, n)
    BY <1>1, <1>3, <2>3 DEF Finds, Moves, zoneVars
  <2> QED
    BY <1>1, <2>2, <2>4 DEF Kind
<1> QED
  BY <1>2, <1>3 DEF LookupZone

LEMMA ListPageKind ==
    ASSUME NEW q \in Requests, RequestInv, ListPage(q)
    PROVE  \E n : Kind(q, n)
<1>1. Hushed /\ request[q].pc = "list" /\ UNCHANGED <<itemVars, rows>>
  BY DEF ListPage, Hushed, driftVars
<1>2. CASE Fail(q)
  BY <1>1, <1>2, FailRests
<1>3. CASE ~Fail(q)
  <2> DEFINE s == request[q]
  <2>0. Sound(s)
    BY DEF RequestInv
  <2> DEFINE listed == IF s.op = "drift" THEN {i \in Items(q) : i.host = s.domain}
                       ELSE Items(q)
             page   == ListRecords(s.client.type, listed, s.cursor)
             first  == s.got = {} /\ s.cursor = 0
             pc     == IF page.more THEN "list"
                       ELSE IF s.op = "drift" THEN "lookup" ELSE "write"
             cursor == page.cursor
             got    == s.got \cup UNION {RecordsOf(s.client.type, i) : i \in page.items}
             from   == IF first THEN Ids(listed) ELSE s.from
             gone   == IF first THEN deleted[s.client.type] ELSE s.gone
             count  == IF first THEN renames ELSE s.renames
  <2>1. /\ request' = [request EXCEPT ![q] =
              [s EXCEPT !.pc = pc, !.cursor = cursor, !.got = got, !.from = from,
                        !.gone = gone, !.renames = count]]
        /\ UNCHANGED disturbed
    BY <1>3 DEF ListPage
  <2>11. pc \in {"list", IF s.op = "drift" THEN "lookup" ELSE "write"}
    OBVIOUS
  <2> HIDE DEF pc, cursor, got, from, gone, count
  <2> DEFINE n == [s EXCEPT !.pc = pc, !.cursor = cursor, !.got = got, !.from = from,
                            !.gone = gone, !.renames = count]
  <2>2. /\ DOMAIN n = Fields /\ n.op = s.op /\ n.pc = pc /\ n.todo = s.todo
        /\ n.client = s.client
    BY <2>0 DEF Sound, Fields
  <2>3. s.op \in ListOps
    BY <1>1, <2>0, OpsAtIs DEF Sound
  <2>4. n.op \in OpsAt(n.pc)
    BY <2>11, <2>2, <2>3, OpsAtIs, ZenonT(60) DEF ListOps
  <2>5. Moves(q, n)
    <3>1. Sound(n)
      BY <1>1, <2>0, <2>11, <2>2, <2>4 DEF Sound, AtProvider
    <3> QED
      BY <2>1, <3>1 DEF Moves
  <2>6. Pages(q, n)
    BY <1>1, <2>1, <2>11, <2>2, <2>5 DEF Pages, zoneVars
  <2> QED
    BY <1>1, <2>11, <2>2, <2>6 DEF Kind
<1> QED
  BY <1>2, <1>3

LEMMA ApplyNextKind ==
    ASSUME NEW q \in Requests, RequestInv, ApplyNext(q)
    PROVE  \E n : Kind(q, n)
<1> DEFINE s    == request[q]
           rest == Tail(s.todo)
           head == Head(s.todo)
           n    == IF s.todo = <<>> THEN Idle
                   ELSE IF ~Validate(head) \/ resolveSync(s.provider) # ""
                   THEN [s EXCEPT !.todo = rest]
                   ELSE [s EXCEPT !.pc = "call", !.todo = rest, !.rec = head,
                                  !.client = providers[s.provider], !.known = FALSE]
<1>1. /\ s.pc = "next" /\ request' = [request EXCEPT ![q] = n]
      /\ UNCHANGED <<zoneVars, rows>> /\ Hushed
  BY DEF ApplyNext, Hushed, driftVars
<1>2. Sound(s) /\ s.op = "apply"
  BY <1>1, OpsAtIs DEF RequestInv, Sound
<1>3. s.todo # <<>> => head \in Records /\ rest \in Seq(Records)
  BY <1>2 DEF Sound
<1>4. Touched(s) = {}
  BY <1>1, UntouchedAway
<1>5. CASE s.todo = <<>>
  BY <1>1, <1>4, <1>5, Ends DEF zoneVars
<1>6. CASE s.todo # <<>> /\ (~Validate(head) \/ resolveSync(s.provider) # "")
  <2>1. n = [s EXCEPT !.todo = rest]
    BY <1>6
  <2> HIDE DEF n, rest, head
  <2>2. DOMAIN n = Fields /\ n.op = s.op /\ n.pc = s.pc /\ n.todo = rest
    BY <1>2, <2>1 DEF Sound, Fields
  <2>3. Sound(n)
    BY <1>1, <1>2, <1>3, <1>6, <2>2 DEF Sound, AtProvider
  <2>4. Rests(q, n)
    BY <1>1, <1>4, <2>2, <2>3 DEF Rests, Moves, AtProvider, zoneVars
  <2> QED
    BY <1>1, <2>2, <2>4 DEF Kind
<1>7. CASE s.todo # <<>> /\ ~(~Validate(head) \/ resolveSync(s.provider) # "")
  <2>1. n = [s EXCEPT !.pc = "call", !.todo = rest, !.rec = head,
                      !.client = providers[s.provider], !.known = FALSE]
    BY <1>7
  <2>2. providers[s.provider].type \in ClientTypes
    BY <1>7, RegisteredType DEF resolveSync
  <2> HIDE DEF n, rest, head
  <2>3. /\ DOMAIN n = Fields /\ n.op = "apply" /\ n.pc = "call" /\ n.todo = rest
        /\ n.rec = head /\ n.client = providers[s.provider] /\ n.done = s.done
    BY <1>2, <2>1 DEF Sound, Fields
  <2>4. n.op \in RawOps \cup RowOps \cup CreateOps /\ ~Naming(n)
    BY <2>3 DEF CreateOps, Naming, RowOps
  <2>5. Sound(n)
    BY <1>3, <1>7, <2>2, <2>3, <2>4, CallIsSound
  <2>6. Begins(q, n)
    BY <1>1, <2>3, <2>4, <2>5 DEF Begins, Moves
  <2> QED
    BY <1>1, <2>3, <2>6 DEF Kind
<1> QED
  BY <1>5, <1>6, <1>7

(* What a call asks for: an item is stored or taken away, or the call is   *)
(* refused.                                                                *)
Refusals == {"norecord", "duplicate", "nozone", "outside"}

LEMMA NewItemIs ==
    ASSUME NEW s, NEW id, s.client.type \in ClientTypes, s.rec \in Records
    PROVE  \/ Stored(s.client.type, zones[s.client.type], id, NewItem(s, id))
           \/ NewItem(s, id).reason \in Refusals
<1>1. CASE NoSuchZone(s.client)
  BY <1>1 DEF NewItem, Refused, Refusals
<1>2. CASE ~NoSuchZone(s.client)
  <2>1. NewItem(s, id) = CreateRecord(s.client.type, zones[s.client.type], id, s.rec)
    BY <1>2 DEF NewItem
  <2> QED
    BY <2>1, CreateStores DEF Refusals
<1> QED
  BY <1>1, <1>2

(* The change and the request after it, by the kind of request. *)
AskedIs(q, id, change, n) ==
    LET s == request[q]
    IN  /\ \/ change.reason \in Refusals
           \/ change.reason = "" /\ Puts(q, id, change.items)
           \/ change.reason = "" /\ Takes(q, id, change.items)
        /\ \/ change.reason \in Refusals
           \/ ToWrite(q, n, id, change.items) \/ OneMore(q, n, id)
           \/ s.op \in RawOps /\ n = Idle
        /\ change.reason = "" => Sound(n) /\ n.pc # "send"

LEMMA WriteIsSound ==
    ASSUME NEW s, Sound(s), s.pc = "call", s.op \in CreateOps \cup {"update"}, NEW back
    PROVE  LET n == [s EXCEPT !.pc = "write", !.rec = back] IN Sound(n) /\ n.pc # "send"
<1> DEFINE n == [s EXCEPT !.pc = "write", !.rec = back]
<1>1. /\ DOMAIN n = Fields /\ n.pc = "write" /\ n.op = s.op /\ n.todo = s.todo
      /\ n.client = s.client
  BY DEF Sound, Fields
<1> HIDE DEF n
<1>2. n.op \in OpsAt(n.pc)
  BY <1>1, OpsAtIs, ZenonT(60) DEF RowOps
<1>3. Sound(n)
  BY <1>1, <1>2 DEF Sound, AtProvider
<1> QED
  BY <1>1, <1>3 DEF n

LEMMA ToWriteIs ==
    ASSUME NEW q \in Requests, RequestInv, request[q].pc = "call",
           request[q].op \in CreateOps \cup {"update"}, NEW id, NEW change,
           change.rec.id = id,
           \E i \in change.items :
              i.id = id /\ Shows(request[q].client.type, i, change.rec.content)
    PROVE  LET n == [request[q] EXCEPT !.pc = "write", !.rec = change.rec]
           IN  ToWrite(q, n, id, change.items) /\ Sound(n) /\ n.pc # "send"
<1> DEFINE n == [request[q] EXCEPT !.pc = "write", !.rec = change.rec]
<1>1. Sound(n) /\ n.pc # "send"
  BY WriteIsSound DEF RequestInv
<1>2. ToWrite(q, n, id, change.items)
  BY DEF ToWrite
<1> QED
  BY <1>1, <1>2

LEMMA AskedCreate ==
    ASSUME NEW q \in Requests, RequestInv, request[q].pc = "call",
           request[q].op \in CreateOps \cup {"rawcreate"}, NEW id, id = lastId + 1
    PROVE  AskedIs(q, id, Asked(q, id).change, Asked(q, id).next)
<1> DEFINE s == request[q]
           c == NewItem(s, id)
<1>0. Sound(s) /\ s.client.type \in ClientTypes /\ s.rec \in Records
  BY DEF RequestInv, Sound, AtProvider, DeleteOps, CreateOps
<1>1. Stored(s.client.type, Items(q), id, c) \/ c.reason \in Refusals
  BY <1>0, NewItemIs DEF Items
<1>2. c.reason # "" \/ c.reason \notin Refusals
  BY DEF Refusals
<1>3. CASE s.op \in CreateOps
  <2> DEFINE n == [s EXCEPT !.pc = "write", !.rec = c.rec]
  <2>1. Asked(q, id).change = c /\ Asked(q, id).next = n
    BY <1>3 DEF Asked, SyncCreateRecord, CreateOps
  <2> HIDE DEF c
  <2>2. CASE c.reason \in Refusals
    BY <1>2, <2>1, <2>2 DEF AskedIs
  <2>3. CASE Stored(s.client.type, Items(q), id, c)
    <3>0. MayPut(q, id)
      BY <1>0, <2>3 DEF MayPut
    <3>1. /\ c.reason = "" /\ Puts(q, id, c.items) /\ c.rec.id = id
          /\ \E i \in c.items : i.id = id /\ Shows(s.client.type, i, c.rec.content)
      BY <2>3, <3>0 DEF Stored, Puts
    <3>2. ToWrite(q, n, id, c.items) /\ Sound(n) /\ n.pc # "send"
      BY <1>3, <3>1, ToWriteIs
    <3> QED
      BY <2>1, <3>1, <3>2 DEF AskedIs
  <2> QED
    BY <1>1, <2>2, <2>3
<1>4. CASE s.op = "rawcreate"
  <2>1. Asked(q, id).change = c /\ Asked(q, id).next = Idle
    BY <1>4 DEF Asked, ServiceCreateRecord
  <2> HIDE DEF c
  <2>2. CASE c.reason \in Refusals
    BY <1>2, <2>1, <2>2 DEF AskedIs
  <2>3. CASE Stored(s.client.type, Items(q), id, c)
    <3>0. MayPut(q, id)
      BY <1>0, <2>3 DEF MayPut
    <3>1. c.reason = "" /\ Puts(q, id, c.items)
      BY <2>3, <3>0 DEF Stored, Puts
    <3> QED
      BY <1>4, <2>1, <3>1, IdleIs DEF AskedIs, RawOps
  <2> QED
    BY <1>1, <2>2, <2>3
<1> QED
  BY <1>3, <1>4

LEMMA AskedUpdate ==
    ASSUME NEW q \in Requests, RequestInv, request[q].pc = "call",
           request[q].op \in {"update", "rawupdate"}, NEW id, id \in request[q].ids
    PROVE  AskedIs(q, id, Asked(q, id).change, Asked(q, id).next)
<1> DEFINE s == request[q]
           c == ReplacedItem(s, id)
<1>0. Sound(s) /\ s.client.type \in ClientTypes /\ s.rec \in Records
  BY DEF RequestInv, Sound, AtProvider, DeleteOps
<1>1. \/ Stored(s.client.type, Items(q), id, c) /\ Has(Items(q), id)
      \/ c.reason \in Refusals
  BY <1>0, UpdateStores DEF Items, ReplacedItem, Refusals
<1>2. c.reason # "" \/ c.reason \notin Refusals
  BY DEF Refusals
<1>3. CASE s.op = "update"
  <2> DEFINE n == [s EXCEPT !.pc = "write", !.rec = c.rec]
  <2>1. Asked(q, id).change = c /\ Asked(q, id).next = n
    BY <1>3 DEF Asked, SyncUpdateRecord
  <2> HIDE DEF c
  <2>2. CASE c.reason \in Refusals
    BY <1>2, <2>1, <2>2 DEF AskedIs
  <2>3. CASE Stored(s.client.type, Items(q), id, c) /\ Has(Items(q), id)
    <3>0. MayPut(q, id)
      BY <1>0, <2>3 DEF MayPut
    <3>1. /\ c.reason = "" /\ Puts(q, id, c.items) /\ c.rec.id = id
          /\ \E i \in c.items : i.id = id /\ Shows(s.client.type, i, c.rec.content)
      BY <2>3, <3>0 DEF Stored, Puts
    <3>2. ToWrite(q, n, id, c.items) /\ Sound(n) /\ n.pc # "send"
      BY <1>3, <3>1, ToWriteIs
    <3> QED
      BY <2>1, <3>1, <3>2 DEF AskedIs
  <2> QED
    BY <1>1, <2>2, <2>3
<1>4. CASE s.op = "rawupdate"
  <2>1. Asked(q, id).change = c /\ Asked(q, id).next = Idle
    BY <1>4 DEF Asked, ServiceUpdateRecord
  <2> HIDE DEF c
  <2>2. CASE c.reason \in Refusals
    BY <1>2, <2>1, <2>2 DEF AskedIs
  <2>3. CASE Stored(s.client.type, Items(q), id, c) /\ Has(Items(q), id)
    <3>0. MayPut(q, id)
      BY <1>0, <2>3 DEF MayPut
    <3>1. c.reason = "" /\ Puts(q, id, c.items)
      BY <2>3, <3>0 DEF Stored, Puts
    <3> QED
      BY <1>4, <2>1, <3>1, IdleIs DEF AskedIs, RawOps
  <2> QED
    BY <1>1, <2>2, <2>3
<1> QED
  BY <1>3, <1>4

LEMMA AskedDelete ==
    ASSUME NEW q \in Requests, RequestInv, PendingInv, request[q].pc = "call",
           request[q].op \in DeleteOps, NEW id, id \in request[q].ids
    PROVE  AskedIs(q, id, Asked(q, id).change, Asked(q, id).next)
<1> DEFINE s == request[q]
           c == RemovedItem(s, id)
<1>0. Sound(s) /\ DOMAIN s = Fields /\ s.client.type \in ClientTypes
  BY DEF RequestInv, Sound, AtProvider
<1>1. \/ /\ Has(Items(q), id) /\ c.reason = ""
         /\ c.items = {i \in Items(q) : i.id # id}
      \/ c.reason = "norecord"
  BY <1>0, DeleteTakes DEF Items, RemovedItem
<1>2. \/ c.reason = "" /\ Takes(q, id, c.items)
      \/ c.reason \in Refusals /\ c.reason # ""
  BY <1>1 DEF Takes, DeleteOps, Refusals
<1>3. Asked(q, id).change = c
  BY DEF Asked, SyncDeleteRecord, BatchDeleteRecords, ServiceDeleteRecord, DeleteOps
<1>4. CASE s.op = "delete"
  <2> DEFINE n == [s EXCEPT !.pc = "write", !.done = {id}]
  <2>1. Asked(q, id).next = n
    BY <1>4 DEF Asked, SyncDeleteRecord
  <2>2. s.done = {}
    BY <1>4 DEF PendingInv, PendingOf, Naming, NamesRows, RowOps
  <2>3. /\ DOMAIN n = Fields /\ n.op = "delete" /\ n.pc = "write" /\ n.done = {id}
        /\ n.ids = s.ids /\ n.local = s.local /\ n.todo = s.todo /\ n.client = s.client
    BY <1>0, <1>4 DEF Fields
  <2> HIDE DEF n, c
  <2>4. Sound(n)
    <3>1. n.op \in OpsAt(n.pc)
      BY <2>3, OpsAtIs DEF RowOps
    <3> QED
      BY <1>0, <2>3, <3>1 DEF Sound, AtProvider
  <2>5. OneMore(q, n, id)
    BY <1>4, <2>2, <2>3 DEF OneMore
  <2> QED
    BY <1>2, <1>3, <2>1, <2>3, <2>4, <2>5 DEF AskedIs
<1>5. CASE s.op = "batch"
  <2>1. PICK pc \in {"write", "call"} :
           Asked(q, id).next = [s EXCEPT !.done = @ \cup {id}, !.pc = pc]
    BY <1>5 DEF Asked, BatchDeleteRecords
  <2> DEFINE n == [s EXCEPT !.done = @ \cup {id}, !.pc = pc]
  <2>3. /\ DOMAIN n = Fields /\ n.op = "batch" /\ n.pc = pc /\ n.done = s.done \cup {id}
        /\ n.ids = s.ids /\ n.local = s.local /\ n.todo = s.todo /\ n.client = s.client
    BY <1>0, <1>5 DEF Fields
  <2> HIDE DEF n, c
  <2>4. Sound(n)
    <3>1. n.op \in OpsAt(n.pc)
      BY <2>3, OpsAtIs DEF RowOps
    <3> QED
      BY <1>0, <2>3, <3>1 DEF Sound, AtProvider, DeleteOps
  <2>5. OneMore(q, n, id)
    BY <1>5, <2>3 DEF OneMore
  <2> QED
    BY <1>2, <1>3, <2>1, <2>3, <2>4, <2>5 DEF AskedIs, n
<1>6. CASE s.op = "rawdelete"
  <2>1. Asked(q, id).next = Idle
    BY <1>6 DEF Asked, ServiceDeleteRecord
  <2> HIDE DEF c
  <2> QED
    BY <1>2, <1>3, <1>6, <2>1, IdleIs DEF AskedIs, RawOps
<1> QED
  BY <1>4, <1>5, <1>6 DEF DeleteOps

LEMMA AskedAny ==
    ASSUME NEW q \in Requests, RequestInv, PendingInv, request[q].pc = "call",
           NEW id \in CallIds(q)
    PROVE  /\ AskedIs(q, id, Asked(q, id).change, Asked(q, id).next)
           /\ request[q].client.type \in ClientTypes
           /\ request[q].op \in RawOps \cup RowOps \cup CreateOps
<1>1. /\ request[q].client.type \in ClientTypes
      /\ request[q].op \in RawOps \cup RowOps \cup CreateOps
  BY OpsAtIs DEF RequestInv, Sound, AtProvider
<1>2. CASE request[q].op \in CreateOps \cup {"rawcreate"}
  <2>1. id = lastId + 1
    BY <1>2 DEF CallIds, CreateOps
  <2> QED
    BY <1>1, <1>2, <2>1, AskedCreate
<1>3. CASE request[q].op \notin CreateOps \cup {"rawcreate"}
  <2>1. id \in request[q].ids
    BY <1>3 DEF CallIds, CreateOps
  <2>2. request[q].op \in {"update", "rawupdate"} \cup DeleteOps
    BY <1>1, <1>3 DEF RawOps, RowOps, DeleteOps
  <2> QED
    BY <1>1, <2>1, <2>2, AskedUpdate, AskedDelete
<1> QED
  BY <1>2, <1>3

LEMMA CallKind ==
    ASSUME NEW q \in Requests, RequestInv, PendingInv, Call(q)
    PROVE  \E n : Kind(q, n)
<1>1. PICK id \in CallIds(q) :
         LET asked == Asked(q, id)
             error == ErrorOf(request[q].client.type, asked.change.reason)
         IN  \/ error # "" /\ Fail(q) /\ UNCHANGED <<itemVars, adminVars, rows, driftVars, ops>>
             \/ /\ error = "" /\ request' = [request EXCEPT ![q] = asked.next]
                /\ Change(q, asked.change.items, id, Disturbs(q, id))
  BY DEF Call
<1>2. request[q].pc = "call" /\ faults' = faults
  BY DEF Call
<1> DEFINE c == Asked(q, id).change
           n == Asked(q, id).next
<1>3. /\ AskedIs(q, id, c, n) /\ request[q].client.type \in ClientTypes
      /\ request[q].op \in RawOps \cup RowOps \cup CreateOps
  BY <1>2, AskedAny
<1>4. CASE Fail(q) /\ UNCHANGED <<itemVars, adminVars, rows, driftVars, ops>>
  <2>1. Hushed
    BY <1>2, <1>4 DEF Hushed, driftVars
  <2> QED
    BY <1>2, <1>4, <2>1, FailRests
<1>5. CASE /\ ErrorOf(request[q].client.type, c.reason) = ""
           /\ request' = [request EXCEPT ![q] = n]
           /\ Change(q, c.items, id, Disturbs(q, id))
  <2>1. c.reason \notin Refusals
    BY <1>3, <1>5, RefusalsAreErrors DEF Refusals
  <2> HIDE DEF c, n
  <2>2. /\ Puts(q, id, c.items) \/ Takes(q, id, c.items)
        /\ \/ ToWrite(q, n, id, c.items) \/ OneMore(q, n, id)
           \/ request[q].op \in RawOps /\ n = Idle
        /\ Sound(n) /\ n.pc # "send"
    BY <1>3, <2>1 DEF AskedIs
  <2>3. disturbed' = disturbed \cup Disturbs(q, id)
    BY <1>5 DEF Change
  <2>4. ASSUME request[q].op \in RawOps, n = Idle PROVE Leaves(q, n, id)
    <3>1. n.pc \notin AtProvider
      BY <2>4, IdleIs DEF AtProvider
    <3>2. Touched(request[q]) = {}
      BY <2>4, UntouchedOthers DEF RawOps, RowOps
    <3>3. id \in disturbed' \/ id = lastId + 1
      BY <2>2, <2>3, <2>4 DEF RawOps, Puts, Takes, MayPut, Disturbs
    <3> QED
      BY <3>1, <3>2, <3>3 DEF Leaves
  <2>5. \A k \in Requests \ {q} :
           (Updating(request[k]) \/ Creating(request[k])) /\ request[k].rec.id = id
           => id \in disturbed'
    BY <2>3 DEF Updating, Creating, Disturbs, Pending
  <2>6. Changes(q, n)
    BY <1>2, <1>5, <2>2, <2>4, <2>5 DEF Changes, Moves
  <2>7. Hushed
    BY <1>2, <1>5 DEF Hushed, Change, driftVars
  <2> QED
    BY <2>2, <2>6, <2>7 DEF Kind
<1> QED
  BY <1>1, <1>4, <1>5

LEMMA LoseAnswerKind ==
    ASSUME NEW q \in Requests, RequestInv, PendingInv, LoseAnswer(q)
    PROVE  \E n : Kind(q, n)
<1>1. PICK id \in CallIds(q) :
         /\ Asked(q, id).change.reason = ""
         /\ Change(q, Asked(q, id).change.items, id, request[q].done \cup {id})
  BY DEF LoseAnswer
<1> DEFINE n == AfterFailure(request[q])
           c == Asked(q, id).change
<1>2. /\ request[q].pc = "call" /\ request' = [request EXCEPT ![q] = n]
      /\ faults \subseteq faults'
  BY DEF LoseAnswer, Fault
<1>3. Sound(n) /\ n.pc \notin AtProvider /\ n.pc # "send"
  BY GoesOn DEF RequestInv, AfterFailure
<1>4. AskedIs(q, id, c, Asked(q, id).next)
  BY <1>2, AskedAny
<1> HIDE DEF n, c
<1>5. c.reason = "" /\ Change(q, c.items, id, request[q].done \cup {id})
  BY <1>1 DEF c
<1>6. Puts(q, id, c.items) \/ Takes(q, id, c.items)
  BY <1>4, <1>5 DEF AskedIs, Refusals
<1>7. disturbed' = disturbed \cup request[q].done \cup {id}
  BY <1>5 DEF Change
<1>8. Leaves(q, n, id)
  BY <1>2, <1>3, <1>7 DEF Leaves, Touched, Updating
<1>9. Changes(q, n)
  BY <1>2, <1>3, <1>5, <1>6, <1>7, <1>8 DEF Changes, Moves
<1>10. Hushed
  BY <1>2, <1>5 DEF Hushed, Change, driftVars
<1> QED
  BY <1>3, <1>9, <1>10 DEF Kind

LEMMA WriteKind ==
    ASSUME NEW q \in Requests, RequestInv, PendingInv, Write(q) \/ WriteFails(q)
    PROVE  \E n : Kind(q, n)
<1> DEFINE n == AfterWrite(request[q])
<1>1. request[q].pc = "write" /\ request' = [request EXCEPT ![q] = n] /\ Hushed
  BY DEF Write, WriteFails, Fault, Hushed, driftVars
<1>2. Sound(n) /\ n.pc \notin AtProvider /\ n.pc # "send"
  BY GoesOn DEF RequestInv, AfterWrite
<1>3. CASE Write(q)
  <2>1. rows' = Written(request[q]) /\ UNCHANGED zoneVars
    BY <1>3 DEF Write
  <2> HIDE DEF n
  <2> QED
    BY <1>1, <1>2, <2>1 DEF Kind, Writes, Moves
<1>4. CASE WriteFails(q)
  <2>1. /\ disturbed' = disturbed \cup request[q].ids \cup {request[q].rec.id}
        /\ UNCHANGED <<itemVars, rows>>
    BY <1>4 DEF WriteFails
  <2>2. Touched(request[q]) \subseteq request[q].ids \cup {request[q].rec.id}
    BY <1>1 DEF Touched, PendingInv, PendingOf, NamesRows
  <2> HIDE DEF n
  <2>3. Rests(q, n)
    BY <1>1, <1>2, <2>1, <2>2 DEF Rests, Moves
  <2> QED
    BY <1>1, <1>2, <2>3 DEF Kind
<1> QED
  BY <1>3, <1>4

LEMMA TakeDriftCheckKind ==
    ASSUME NEW q \in Requests, RequestInv, TakeDriftCheck(q)
    PROVE  \E n : Kind(q, n)
<1>1. PICK task \in queue :
         /\ request[q] = Idle
         /\ request' = [request EXCEPT ![q] =
               IF resolveSync(task[2]) = "" THEN Of("drift", "list", task[1], task[2])
               ELSE Idle]
         /\ UNCHANGED <<zoneVars, adminVars, rows, alerted, alerts, faults, ops>>
  BY DEF TakeDriftCheck
<1>2. Hushed /\ UNCHANGED <<zoneVars, rows>>
  BY <1>1 DEF Hushed
<1>3. CASE resolveSync(task[2]) # ""
  BY <1>1, <1>2, <1>3, IdleIs, Ends DEF zoneVars
<1>4. CASE resolveSync(task[2]) = ""
  <2> DEFINE n == Of("drift", "list", task[1], task[2])
  <2>1. Fresh(n, "drift", "list") /\ n.client.type \in ClientTypes
    BY <1>4, OfIs
  <2> HIDE DEF n
  <2>2. n.op \in OpsAt(n.pc)
    BY <2>1, OpsAtIs DEF Fresh, ListOps
  <2>3. Sound(n) /\ ~Naming(n)
    BY <2>1, <2>2, NothingToDo DEF Fresh, Sound, Naming
  <2>4. request' = [request EXCEPT ![q] = n]
    BY <1>1, <1>4 DEF n
  <2>5. Begins(q, n)
    BY <1>1, <1>2, <2>1, <2>3, <2>4, IdleIs DEF Begins, Moves, Fresh
  <2> QED
    BY <1>2, <2>1, <2>5 DEF Kind, Fresh
<1> QED
  BY <1>3, <1>4

(* Steps of a drift check after its listing. *)
LEMMA DriftRests ==
    ASSUME NEW q \in Requests, RequestInv, NEW pc \in {"alert", "send", "sent"},
           request[q].op = "drift", request' = [request EXCEPT ![q].pc = pc],
           UNCHANGED <<zoneVars, rows>>
    PROVE  \E n : Rests(q, n) /\ n.pc = pc
<1> DEFINE s == request[q]
           n == [s EXCEPT !.pc = pc]
<1>1. Sound(s)
  BY DEF RequestInv
<1>2. DOMAIN n = Fields /\ n.op = "drift" /\ n.pc = pc /\ n.todo = s.todo
  BY <1>1 DEF Sound, Fields
<1>3. Touched(s) = {}
  BY UntouchedOthers DEF RowOps
<1>4. request' = [request EXCEPT ![q] = n]
  OBVIOUS
<1> HIDE DEF n
<1>5. n.op \in OpsAt(n.pc)
  BY <1>2, OpsAtIs
<1>6. Sound(n)
  BY <1>1, <1>2, <1>5 DEF Sound, AtProvider
<1>7. Rests(q, n)
  BY <1>2, <1>3, <1>4, <1>6 DEF Rests, Moves, AtProvider, zoneVars
<1> QED
  BY <1>2, <1>7

LEMMA EndRests ==
    ASSUME NEW q \in Requests, request[q].op = "drift",
           request' = [request EXCEPT ![q] = Idle], UNCHANGED <<zoneVars, rows>>
    PROVE  Rests(q, Idle)
<1>1. Touched(request[q]) = {}
  BY UntouchedOthers DEF RowOps
<1> QED
  BY <1>1, IdleIs DEF Rests, Moves, AtProvider, zoneVars

LEMMA CheckDriftKind ==
    ASSUME NEW q \in Requests, RequestInv, CheckDrift(q)
    PROVE  \E n : Kind(q, n)
<1>1. Hushed /\ UNCHANGED <<zoneVars, rows>> /\ request[q].pc = "lookup"
  BY DEF CheckDrift, Hushed, driftVars
<1>2. request[q].op = "drift"
  BY <1>1, OpsAtIs DEF RequestInv, Sound
<1>3. \/ request' = [request EXCEPT ![q] = Idle]
      \/ request' = [request EXCEPT ![q].pc = "alert"]
  BY DEF CheckDrift
<1> QED
  BY <1>1, <1>2, <1>3, DriftRests, EndRests, IdleIs DEF Kind

LEMMA CrashKind ==
    ASSUME NEW q \in Requests, RequestInv, Crash(q)
    PROVE  \E n : Kind(q, n)
<1>1. /\ Hushed /\ UNCHANGED <<zoneVars, rows>> /\ request[q].op = "drift"
      /\ request' = [request EXCEPT ![q] = Idle]
  BY DEF Crash, Hushed, Fault
<1> QED
  BY <1>1, EndRests, IdleIs DEF Kind

AlertStep(q) ==
    trySetAlerted(q) \/ RedisFails(q) \/ SendAlert(q) \/ SendFails(q)

LEMMA AlertStepRests ==
    ASSUME NEW q \in Requests, RequestInv, AlertStep(q)
    PROVE  \E n : Rests(q, n)
<1>1. UNCHANGED <<zoneVars, rows>> /\ request[q].pc \in {"alert", "send"}
  BY DEF AlertStep, trySetAlerted, RedisFails, SendAlert, SendFails
<1>2. request[q].op = "drift"
  BY <1>1, OpsAtIs DEF RequestInv, Sound
<1>3. \/ request' = [request EXCEPT ![q] = Idle]
      \/ request' = [request EXCEPT ![q].pc = "send"]
      \/ request' = [request EXCEPT ![q].pc = "sent"]
  BY DEF AlertStep, trySetAlerted, RedisFails, SendAlert, SendFails
<1> QED
  BY <1>1, <1>2, <1>3, DriftRests, EndRests

(* A step of none of the requests. *)
Elsewhere ==
    UNCHANGED <<zoneVars, rows, request>> /\ (Hushed \/ \E d \in Domains : HourPasses(d))

LEMMA Kinds ==
    ASSUME RequestInv, RowInv, PendingInv, Next
    PROVE  \/ \E q \in Requests : \E n : Kind(q, n)
           \/ \E q \in Requests : AlertStep(q) /\ \E n : Rests(q, n)
           \/ Elsewhere
<1>1. CASE \E q \in Requests, d \in Domains : Start(q, d)
  BY <1>1, StartKind
<1>2. CASE \E q \in Requests, d \in Domains, p \in ProviderIds \cup {0} : Bind(q, d, p)
  BY <1>2, BindKind
<1>3. CASE \E q \in Requests, p \in ProviderIds : DeleteProvider(q, p)
  BY <1>3, DeleteProviderKind
<1>4. CASE \E q \in Requests : Step(q)
  BY <1>4, LookupZoneKind, ListPageKind, CallKind, RefuseKind, LoseAnswerKind,
     ApplyNextKind, WriteKind, ShortKinds DEF Step
<1>5. CASE \E q \in Requests : DriftStep(q)
  BY <1>5, TakeDriftCheckKind, CheckDriftKind, AlertStepRests, ShortKinds, CrashKind
     DEF DriftStep, AlertStep
<1>6. CASE \E p \in ProviderIds : CreateProvider(p) \/ UpdateProvider(p)
  BY <1>6 DEF CreateProvider, UpdateProvider, SetProvider, Elsewhere, Hushed, driftVars
<1>7. CASE CreateTemplate \/ UpdateTemplate \/ DeleteTemplate
  BY <1>7 DEF CreateTemplate, UpdateTemplate, DeleteTemplate, SetTemplate, Elsewhere,
              Hushed, driftVars
<1>8. CASE DriftCheckAll
  BY <1>8 DEF DriftCheckAll, Elsewhere, Hushed
<1>9. CASE \E d \in Domains : HourPasses(d)
  <2>1. UNCHANGED <<zoneVars, rows, request>>
    BY <1>9 DEF HourPasses
  <2> QED
    BY <1>9, <2>1 DEF Elsewhere
<1> QED
  BY <1>1, <1>2, <1>3, <1>4, <1>5, <1>6, <1>7, <1>8, <1>9 DEF Next

(* In short: one request moves, or none. *)
LEMMA MovesOrNot ==
    ASSUME RequestInv, RowInv, PendingInv, Next
    PROVE  (\E q \in Requests : \E n : Moves(q, n)) \/ request' = request
BY Kinds, ZenonT(60) DEF Kind, Rests, Begins, Finds, Pages, Changes, Writes, Elsewhere

LEMMA TemplateKept ==
    ASSUME RequestInv, Next
    PROVE  template' # <<>> => template'[1].records \in Seq(Records)

<1>1. CASE template' = template
  BY <1>1 DEF RequestInv
<1>2. CASE CreateTemplate \/ UpdateTemplate \/ DeleteTemplate
  <2>1. template' = <<>> \/ \E t \in Templates : template' = StoredTemplate(t)
    BY <1>2 DEF CreateTemplate, UpdateTemplate, DeleteTemplate, SetTemplate
  <2>2. \A t \in Templates : StoredTemplate(t)[1].records = t
    BY DEF StoredTemplate
  <2> QED
    BY <2>1, <2>2, InputAssumption
<1>3. ASSUME ~(CreateTemplate \/ UpdateTemplate \/ DeleteTemplate)
      PROVE  template' = template
  <2> USE DEF adminVars
  <2>1. \A q, n : Begin(q, n) => template' = template
    BY DEF Begin
  <2>2. ASSUME NEW q, NEW d, Start(q, d) PROVE template' = template
    BY <2>1, <2>2 DEF Start, Sync, CreateLocal, UpdateLocal, DeleteLocal,
       BatchDeleteLocal, ApplyTemplate, CreateProviderRecord, UpdateProviderRecord,
       DeleteProviderRecord
  <2>3. ASSUME NEW q, Step(q) PROVE template' = template
    <3>1. Call(q) \/ LoseAnswer(q) => template' = template
      BY DEF Call, LoseAnswer, Change
    <3> QED
      BY <2>3, <3>1 DEF Step, LookupZone, ListPage, Refuse, ApplyNext, Write, WriteFails,
         DeleteProviderRow, BindDomain
  <2>4. ASSUME NEW q, DriftStep(q) PROVE template' = template
    BY <2>4 DEF DriftStep, TakeDriftCheck, CheckDrift, trySetAlerted, RedisFails,
       SendAlert, SendFails, Acknowledge, Crash
  <2>5. ASSUME NEW q, NEW p, NEW d, Bind(q, d, p) \/ DeleteProvider(q, p)
        PROVE  template' = template
    BY <2>1, <2>5 DEF Bind, DeleteProvider
  <2>6. ASSUME NEW p, CreateProvider(p) \/ UpdateProvider(p) PROVE template' = template
    BY <2>6 DEF CreateProvider, UpdateProvider, SetProvider
  <2>7. ASSUME NEW d, DriftCheckAll \/ HourPasses(d) PROVE template' = template
    BY <2>7 DEF DriftCheckAll, HourPasses
  <2> QED
    BY <1>3, <2>2, <2>3, <2>4, <2>5, <2>6, <2>7 DEF Next
<1> QED
  BY <1>1, <1>2, <1>3

LEMMA RequestStep ==
    ASSUME RequestInv, RowInv, PendingInv, [Next]_vars
    PROVE  RequestInv'
<1>1. CASE Next
  <2>1. template' # <<>> => template'[1].records \in Seq(Records)
    BY <1>1, TemplateKept
  <2>2. DOMAIN request' = Requests /\ \A q \in Requests : Sound(request'[q])
    BY <1>1, MovesOrNot DEF RequestInv, Moves
  <2>3. \A q \in Requests : Sound(request[q])'
    BY <2>2 DEF Sound
  <2> QED
    BY <2>1, <2>2, <2>3 DEF RequestInv
<1>2. CASE UNCHANGED vars
  <2>1. UNCHANGED <<request, template>>
    BY <1>2 DEF vars, adminVars
  <2> QED
    BY <2>1 DEF RequestInv, Sound
<1> QED
  BY <1>1, <1>2

-----------------------------------------------------------------------------
(* Alerts.  Unless Redis or a channel has failed, the one request that is about to send *)
(* an alert for a domain holds the key of the domain, and none was sent    *)
(* since the key was set.                                                  *)

Sending(q) == request[q].pc = "send"

KeyHeld ==
    /\ \A q \in Requests : Sending(q) =>
          /\ request[q].domain \in alerted
          /\ request[q].domain \in Domains => alerts[request[q].domain] = 0
    /\ \A q, k \in Requests :
          Sending(q) /\ Sending(k) /\ request[q].domain = request[k].domain => q = k
    /\ \A d \in Domains : (d \notin alerted => alerts[d] = 0) /\ alerts[d] <= 1

KeyInv ==
    /\ alerts \in [Domains -> Nat]
    /\ "redis" \notin faults /\ "partial" \notin faults => KeyHeld

(* A step that is silent about alerts. *)
LEMMA SilentKeeps ==
    ASSUME KeyInv, DOMAIN request = Requests, Hushed, NEW q \in Requests, NEW n,
           request' = [request EXCEPT ![q] = n], n.pc # "send"
    PROVE  KeyInv'
<1>1. /\ alerts' \in [Domains -> Nat]
      /\ "redis" \notin faults' /\ "partial" \notin faults' => KeyHeld
  BY DEF KeyInv, Hushed
<1>2. ASSUME KeyHeld PROVE KeyHeld'
  <2>1. \A k \in Requests : Sending(k)' => Sending(k) /\ request'[k] = request[k]
    BY DEF Sending
  <2> QED
    BY <1>2, <2>1 DEF KeyHeld, Hushed
<1> QED
  BY <1>1, <1>2 DEF KeyInv

(* One more alert is counted. *)
LEMMA CountsUp ==
    ASSUME KeyInv, NEW d, alerts' = [alerts EXCEPT ![d] = @ + 1]
    PROVE  alerts' \in [Domains -> Nat]
<1>1. alerts \in [Domains -> Nat]
  BY DEF KeyInv
<1>2. CASE d \in Domains
  BY <1>1, <1>2
<1>3. CASE d \notin Domains
  <2>1. alerts' = alerts
    BY <1>1, <1>3
  <2> QED
    BY <1>1, <2>1
<1> QED
  BY <1>2, <1>3

LEMMA AlertStepKeeps ==
    ASSUME KeyInv, RequestInv, NEW q \in Requests, AlertStep(q)
    PROVE  KeyInv'
<1> DEFINE d == request[q].domain
<1>0. DOMAIN request = Requests /\ \A k \in Requests : DOMAIN request[k] = Fields
  BY DEF RequestInv, Sound
<1>1. CASE trySetAlerted(q)
  <2>1. /\ request[q].pc = "alert" /\ alerted' = alerted \cup {d}
        /\ request' = [request EXCEPT ![q] =
              IF d \in alerted THEN Idle ELSE [@ EXCEPT !.pc = "send"]]
        /\ alerts' = alerts /\ faults' = faults
    BY <1>1 DEF trySetAlerted
  <2>2. \A k \in Requests : k # q => request'[k] = request[k]
    BY <1>0, <2>1
  <2>3. CASE d \in alerted
    <3>1. request'[q].pc = ""
      BY <1>0, <2>1, <2>3, IdleIs
    <3>2. \A k \in Requests : Sending(k)' => Sending(k) /\ request'[k] = request[k]
      BY <2>2, <3>1 DEF Sending
    <3> QED
      BY <2>1, <2>3, <3>2 DEF KeyInv, KeyHeld
  <2>4. CASE d \notin alerted
    <3>1. request'[q].pc = "send" /\ request'[q].domain = d
      BY <1>0, <2>1, <2>4 DEF Fields
    <3>2. \A k \in Requests \ {q} : Sending(k)' => Sending(k) /\ request'[k] = request[k]
      BY <2>2 DEF Sending
    <3>3. KeyHeld => \A k \in Requests : Sending(k) => request[k].domain # d
      BY <2>4 DEF KeyHeld
    <3> HIDE DEF d
    <3>4. KeyHeld => KeyHeld'
      BY <2>1, <2>4, <3>1, <3>2, <3>3 DEF KeyHeld
    <3> QED
      BY <2>1, <3>4 DEF KeyInv
  <2> QED
    BY <2>3, <2>4
<1>2. CASE RedisFails(q)
  BY <1>2 DEF RedisFails, Fault, driftVars, KeyInv
<1>3. CASE SendAlert(q)
  <2>1. /\ request[q].pc = "send" /\ alerted' = alerted /\ faults' = faults
        /\ alerts' = [alerts EXCEPT ![d] = @ + 1]
        /\ request' = [request EXCEPT ![q].pc = "sent"]
    BY <1>3 DEF SendAlert
  <2>2. \A k \in Requests : k # q => request'[k] = request[k]
    BY <1>0, <2>1
  <2>3. request'[q].pc = "sent"
    BY <1>0, <2>1 DEF Fields
  <2>4. \A k \in Requests : Sending(k)' => Sending(k) /\ request'[k] = request[k] /\ k # q
    BY <2>2, <2>3 DEF Sending
  <2>5. Sending(q)
    BY <2>1 DEF Sending
  <2>6. alerts' \in [Domains -> Nat]
    BY <2>1, CountsUp
  <2>7. KeyHeld => KeyHeld'
    <3> HAVE KeyHeld
    <3>1. \A k \in Requests : Sending(k)' => request[k].domain # d
      BY <2>4, <2>5 DEF KeyHeld
    <3>2. d \in alerted /\ (d \in Domains => alerts[d] = 0)
      BY <2>5 DEF KeyHeld
    <3>3. \A x \in Domains : alerts'[x] = IF x = d THEN 1 ELSE alerts[x]
      BY <2>1, <3>2 DEF KeyInv
    <3> HIDE DEF d
    <3> QED
      BY <2>1, <2>4, <3>1, <3>2, <3>3 DEF KeyHeld
  <2> QED
    BY <2>1, <2>6, <2>7 DEF KeyInv
<1>4. CASE SendFails(q)
  <2>1. /\ request[q].pc = "send" /\ alerted' \in {alerted \ {d}, alerted}
        /\ faults \subseteq faults' /\ request' = [request EXCEPT ![q] = Idle]
    BY <1>4 DEF SendFails, Fault
  <2>2. CASE UNCHANGED alerts
    <3>1. \A k \in Requests :
             Sending(k)' => Sending(k) /\ request'[k] = request[k] /\ k # q
      BY <1>0, <2>1, IdleIs DEF Sending
    <3>2. Sending(q)
      BY <2>1 DEF Sending
    <3>3. KeyHeld => KeyHeld'
      <4>1. CASE alerted' = alerted \ {d}
        BY <2>1, <2>2, <3>1, <3>2, <4>1 DEF KeyHeld
      <4>2. CASE alerted' = alerted
        BY <2>1, <2>2, <3>1, <3>2, <4>2 DEF KeyHeld
      <4> QED
        BY <2>1, <4>1, <4>2
    <3> QED
      BY <2>1, <2>2, <3>3 DEF KeyInv
  <2>3. CASE Fault("partial") /\ alerts' = [alerts EXCEPT ![d] = @ + 1]
    <3>1. "partial" \in faults'
      BY <2>3 DEF Fault
    <3>2. alerts' \in [Domains -> Nat]
      BY <2>3, CountsUp
    <3> QED
      BY <3>1, <3>2 DEF KeyInv
  <2> QED
    BY <1>4, <2>2, <2>3 DEF SendFails
<1> QED
  BY <1>1, <1>2, <1>3, <1>4 DEF AlertStep

LEMMA KeyStep ==
    ASSUME KeyInv, RequestInv, RowInv, PendingInv, [Next]_vars
    PROVE  KeyInv'
<1>0. DOMAIN request = Requests
  BY DEF RequestInv
<1>1. CASE Next
  <2>1. CASE \E q \in Requests : \E n : Kind(q, n)
    <3>0. PICK q \in Requests : \E n : Kind(q, n)
      BY <2>1
    <3>1. PICK n : Kind(q, n)
      BY <3>0
    <3>2. request' = [request EXCEPT ![q] = n] /\ n.pc # "send" /\ Hushed
      BY <3>1 DEF Kind, Rests, Begins, Finds, Pages, Changes, Writes, Moves
    <3> QED
      BY <1>0, <3>2, SilentKeeps
  <2>2. CASE \E q \in Requests : AlertStep(q)
    BY <2>2, AlertStepKeeps
  <2>3. CASE request' = request /\ Hushed
    <3>1. /\ alerts' \in [Domains -> Nat]
          /\ "redis" \notin faults' /\ "partial" \notin faults' => KeyHeld
      BY <2>3 DEF KeyInv, Hushed
    <3>2. KeyHeld => KeyHeld'
      BY <2>3 DEF KeyHeld, Sending, Hushed
    <3> QED
      BY <3>1, <3>2 DEF KeyInv
  <2>4. ASSUME NEW d \in Domains, HourPasses(d) PROVE KeyInv'
    <3>1. /\ alerted' = alerted \ {d} /\ alerts' = [alerts EXCEPT ![d] = 0]
          /\ request' = request /\ faults' = faults
          /\ \A q \in Requests : request[q].domain = d => ~Sending(q)
      BY <2>4 DEF HourPasses, Sending
    <3>2. alerts' \in [Domains -> Nat]
      BY <3>1 DEF KeyInv
    <3>3. \A x \in Domains : alerts'[x] = IF x = d THEN 0 ELSE alerts[x]
      BY <3>1 DEF KeyInv
    <3>4. \A q \in Requests : Sending(q)' <=> Sending(q)
      BY <3>1 DEF Sending
    <3>5. KeyHeld => KeyHeld'
      BY <3>1, <3>3, <3>4 DEF KeyHeld
    <3> QED
      BY <3>1, <3>2, <3>5 DEF KeyInv
  <2> QED
    BY <1>1, <2>1, <2>2, <2>3, <2>4, Kinds DEF Elsewhere
<1>2. CASE UNCHANGED vars
  <2>1. UNCHANGED <<request, alerted, alerts, faults>>
    BY <1>2 DEF vars, driftVars
  <2> QED
    BY <2>1 DEF KeyInv, KeyHeld, Sending
<1> QED
  BY <1>1, <1>2

-----------------------------------------------------------------------------
(* Zones.  A change stores or takes away the item of one id.               *)

Swaps(t, id, items) ==
    /\ t \in ClientTypes /\ id \in Nat
    /\ \A i \in zones[t] : i.id # id => i \in items
    /\ \A i \in items : i.id # id => i \in zones[t]
    /\ \A i \in items : i.id = id => i.values # {}
    /\ \A i, j \in items : i.id = id /\ j.id = id => i = j
    /\ id = lastId + 1 \/ Has(zones[t], id)
    /\ IsFiniteSet(items)
    /\ zones' = [zones EXCEPT ![t] = items]
    /\ lastId' = IF id > lastId THEN id ELSE lastId
    /\ deleted' = [deleted EXCEPT ![t] = @ \cup (Ids(zones[t]) \ Ids(items))]
    /\ renames' = IF Renamed(zones[t], items) THEN renames + 1 ELSE renames

LEMMA ChangeSwaps ==
    ASSUME ZoneInv, RequestInv, NEW q \in Requests, request[q].pc = "call",
           NEW id, NEW items, NEW touched,
           Puts(q, id, items) \/ Takes(q, id, items), Change(q, items, id, touched)
    PROVE  Swaps(request[q].client.type, id, items)
<1> DEFINE t == request[q].client.type
<1>1. t \in ClientTypes
  BY DEF RequestInv, Sound, AtProvider
<1>2. Items(q) = zones[t] /\ IsFiniteSet(zones[t])
  BY <1>1 DEF Items, ZoneInv
<1>3. id = lastId + 1 \/ Has(zones[t], id)
  BY <1>2 DEF Puts, Takes, MayPut
<1>4. id \in Nat
  BY <1>1, <1>3 DEF Has, ZoneInv
<1> HIDE DEF t
<1>5. IsFiniteSet(items)
  <2>1. IsFiniteSet({j \in zones[t] : j.id # id})
    <3>1. {j \in zones[t] : j.id # id} \in SUBSET zones[t]
      OBVIOUS
    <3> QED
      BY <1>2, <3>1, FS_Subset
  <2>2. \A i : IsFiniteSet({j \in zones[t] : j.id # id} \cup {i})
    BY <2>1, FS_AddElement
  <2> QED
    BY <1>2, <2>1, <2>2 DEF Puts, Takes
<1>6. /\ \A i \in zones[t] : i.id # id => i \in items
      /\ \A i \in items : i.id # id => i \in zones[t]
      /\ \A i \in items : i.id = id => i.values # {}
      /\ \A i, j \in items : i.id = id /\ j.id = id => i = j
  BY <1>2 DEF Puts, Takes
<1>7. /\ zones' = [zones EXCEPT ![t] = items]
      /\ lastId' = IF id > lastId THEN id ELSE lastId
      /\ deleted' = [deleted EXCEPT ![t] = @ \cup (Ids(zones[t]) \ Ids(items))]
      /\ renames' = IF Renamed(zones[t], items) THEN renames + 1 ELSE renames
  BY <1>2 DEF Change, t
<1> QED
  BY <1>1, <1>3, <1>4, <1>5, <1>6, <1>7 DEF Swaps, t

(* What is where after a change. *)
LEMMA SwapFacts ==
    ASSUME ZoneInv, NEW t, NEW id, NEW items, Swaps(t, id, items)
    PROVE  /\ zones'[t] = items
           /\ \A u \in ClientTypes : u # t => zones'[u] = zones[u] /\ deleted'[u] = deleted[u]
           /\ deleted'[t] = deleted[t] \cup (Ids(zones[t]) \ Ids(items))
           /\ DOMAIN zones' = ClientTypes /\ DOMAIN deleted' = ClientTypes
           /\ lastId' \in Nat /\ lastId <= lastId' /\ id \in 1..lastId'
           /\ \A u \in ClientTypes : \A i \in zones'[u] :
                 i \in zones[u] \/ (u = t /\ i.id = id)
<1>1. /\ zones'[t] = items
      /\ \A u \in ClientTypes : u # t => zones'[u] = zones[u] /\ deleted'[u] = deleted[u]
      /\ deleted'[t] = deleted[t] \cup (Ids(zones[t]) \ Ids(items))
      /\ DOMAIN zones' = ClientTypes /\ DOMAIN deleted' = ClientTypes
  BY DEF Swaps, ZoneInv
<1>2. id \in 1..(lastId + 1)
  BY DEF Swaps, ZoneInv, Has
<1>3. lastId' \in Nat /\ lastId <= lastId' /\ id \in 1..lastId'
  BY <1>2 DEF Swaps, ZoneInv
<1>4. \A u \in ClientTypes : \A i \in zones'[u] : i \in zones[u] \/ (u = t /\ i.id = id)
  BY <1>1 DEF Swaps
<1> QED
  BY <1>1, <1>3, <1>4

LEMMA SwapZones ==
    ASSUME ZoneInv, NEW t, NEW id, NEW items, Swaps(t, id, items)
    PROVE  ZoneInv'
<1>0. t \in ClientTypes /\ Others \in Nat /\ lastId \in Nat /\ Others <= lastId
  BY DEF Swaps, ZoneInv
<1>1. /\ zones'[t] = items
      /\ \A u \in ClientTypes : u # t => zones'[u] = zones[u] /\ deleted'[u] = deleted[u]
      /\ deleted'[t] = deleted[t] \cup (Ids(zones[t]) \ Ids(items))
      /\ DOMAIN zones' = ClientTypes /\ DOMAIN deleted' = ClientTypes
      /\ lastId' \in Nat /\ lastId <= lastId' /\ id \in 1..lastId'
      /\ \A u \in ClientTypes : \A i \in zones'[u] : i \in zones[u] \/ (u = t /\ i.id = id)
  BY SwapFacts
<1>2. \A u \in ClientTypes : IsFiniteSet(zones'[u])
  BY <1>1 DEF Swaps, ZoneInv
<1>3. \A u \in ClientTypes : deleted'[u] \subseteq 1..lastId'
  <2>1. \A u \in ClientTypes : deleted[u] \subseteq 1..lastId'
    BY <1>0, <1>1 DEF ZoneInv
  <2>2. Ids(zones[t]) \subseteq 1..lastId'
    BY <1>0, <1>1 DEF ZoneInv, Ids
  <2> QED
    BY <1>1, <2>1, <2>2
<1>4. id \notin deleted[t]
  BY <1>0 DEF ZoneInv, Swaps, Has
<1>5. \A u \in ClientTypes : \A i \in zones'[u] :
         i.id \in 1..lastId' /\ i.values # {} /\ i.id \notin deleted'[u]
  <2> TAKE u \in ClientTypes
  <2> TAKE i \in zones'[u]
  <2>1. CASE i \in zones[u]
    <3>1. i.id \in 1..lastId /\ i.values # {} /\ i.id \notin deleted[u]
      BY <2>1 DEF ZoneInv
    <3>2. u = t => i.id \in Ids(items)
      BY <1>1 DEF Ids
    <3> QED
      BY <1>0, <1>1, <3>1, <3>2
  <2>2. CASE u = t /\ i.id = id
    <3>1. i \in items /\ id \in Ids(items)
      BY <1>1, <2>2 DEF Ids
    <3> QED
      BY <1>1, <1>4, <2>2, <3>1 DEF Swaps
  <2> QED
    BY <1>1, <2>1, <2>2
<1>6. \A u \in ClientTypes : \A i, j \in zones'[u] : i.id = j.id => i = j
  <2> TAKE u \in ClientTypes
  <2>1. CASE u # t
    BY <1>1, <2>1 DEF ZoneInv
  <2>2. CASE u = t
    <3>1. \A i, j \in items : i.id = j.id /\ i.id # id => i = j
      BY <1>0 DEF Swaps, ZoneInv
    <3> QED
      BY <1>1, <2>2, <3>1 DEF Swaps
  <2> QED
    BY <2>1, <2>2
<1>7. ASSUME NEW u \in ClientTypes, NEW i \in zones'[t], NEW j \in zones'[u],
             i.id = j.id, u # t
      PROVE  i.id <= Others
  <2>1. j \in zones[u]
    BY <1>1, <1>7
  <2>2. j.id <= lastId /\ j.id \in Nat
    BY <2>1 DEF ZoneInv
  <2>3. \E k \in zones[t] : k.id = j.id
    BY <1>0, <1>1, <1>7, <2>2 DEF Swaps, Has
  <2> QED
    BY <1>0, <1>7, <2>1, <2>3 DEF ZoneInv
<1>8. \A u, v \in ClientTypes : \A i \in zones'[u], j \in zones'[v] :
         i.id = j.id /\ u # v => i.id <= Others
  <2> SUFFICES ASSUME NEW u \in ClientTypes, NEW v \in ClientTypes,
                      NEW i \in zones'[u], NEW j \in zones'[v], i.id = j.id, u # v
               PROVE  i.id <= Others
    OBVIOUS
  <2>1. CASE u = t
    BY <1>7, <2>1
  <2>2. CASE v = t
    BY <1>7, <2>2
  <2>3. CASE u # t /\ v # t
    BY <1>1, <2>3 DEF ZoneInv
  <2> QED
    BY <2>1, <2>2, <2>3
<1> QED
  BY <1>0, <1>1, <1>2, <1>3, <1>5, <1>6, <1>8 DEF ZoneInv, Others

LEMMA ZoneStep ==
    ASSUME ZoneInv, RequestInv, RowInv, PendingInv, [Next]_vars
    PROVE  ZoneInv'
<1>1. CASE UNCHANGED itemVars
  BY <1>1 DEF itemVars, ZoneInv, Others
<1>2. ASSUME NEW q \in Requests, NEW n, Changes(q, n) PROVE ZoneInv'
  <2>1. PICK id, items, touched :
           /\ request[q].pc = "call"
           /\ Puts(q, id, items) \/ Takes(q, id, items)
           /\ Change(q, items, id, touched)
    BY <1>2 DEF Changes
  <2> QED
    BY <2>1, ChangeSwaps, SwapZones
<1>3. CASE Next
  BY <1>1, <1>2, <1>3, Kinds
     DEF Kind, Rests, Begins, Finds, Pages, Writes, Elsewhere, zoneVars
<1>4. CASE UNCHANGED vars
  BY <1>1, <1>4 DEF vars, zoneVars
<1> QED
  BY <1>3, <1>4

-----------------------------------------------------------------------------
(* Rows.  A write inserts one row, or changes rows in place: it keeps what *)
(* they are about, and a row that stays live is the old one, or has the    *)
(* content that the provider returned.                                     *)

Keeps(s, r, x) ==
    /\ DOMAIN x = RowFields /\ x.id = r.id /\ x.rid = r.rid /\ x.at = r.at
    /\ x.live => /\ r.live
                 /\ \/ x = r /\ r.rid \notin Touched(s)
                    \/ /\ Updating(s) /\ r.rid = s.rec.id
                       /\ r.at = s.client.type /\ x.content = s.rec.content

InPlace(s) ==
    \E f \in [rows -> rows'] :
        /\ \A x \in rows' : \E r \in rows : x = f[r]
        /\ \A r \in rows : Keeps(s, r, f[r])

Inserts(s) ==
    \E x : /\ rows' = rows \cup {x} /\ DOMAIN x = RowFields
           /\ x.id = Cardinality(rows) + 1 /\ x.rid = s.rec.id
           /\ x.at = s.client.type /\ x.content = s.rec.content

LEMMA SoftDeleted ==
    ASSUME NEW r \in rows, RowInv
    PROVE  LET x == [r EXCEPT !.live = FALSE]
           IN  /\ DOMAIN x = RowFields /\ x.id = r.id /\ x.rid = r.rid /\ x.at = r.at
               /\ ~x.live
<1>1. DOMAIN r = RowFields
  BY DEF RowInv
<1> QED
  BY <1>1 DEF RowFields

LEMMA WrittenIs ==
    ASSUME RequestInv, RowInv, PendingInv, NEW q \in Requests,
           request[q].pc = "write", rows' = Written(request[q])
    PROVE  \/ InPlace(request[q])
           \/ Creating(request[q]) /\ Inserts(request[q])
<1> DEFINE s == request[q]
<1>0. s.op \in {"sync"} \cup RowOps \cup CreateOps
  BY OpsAtIs DEF RequestInv, Sound
<1>1. CASE s.op = "sync"
  <2> DEFINE keep == {rec.id : rec \in {x \in s.got : UpsertByProviderID(x) = ""}}
             dies(r) == r.domain = s.domain /\ (keep = {} \/ r.rid \notin keep)
             f == [r \in rows |-> IF dies(r) THEN [r EXCEPT !.live = FALSE] ELSE r]
  <2>1. rows' = {IF dies(r) THEN [r EXCEPT !.live = FALSE] ELSE r : r \in rows}
    BY <1>1 DEF Written, SyncRows, DeleteByProviderIDs
  <2>2. f \in [rows -> rows'] /\ \A x \in rows' : \E r \in rows : x = f[r]
    BY <2>1
  <2>3. \A r \in rows : f[r] = IF dies(r) THEN [r EXCEPT !.live = FALSE] ELSE r
    OBVIOUS
  <2> HIDE DEF f, dies
  <2>4. Touched(s) = {}
    BY <1>1, UntouchedOthers DEF RowOps
  <2>5. \A r \in rows : Keeps(s, r, f[r])
    BY <2>3, <2>4, SoftDeleted, ZenonT(60) DEF Keeps, RowInv
  <2> QED
    BY <2>2, <2>5 DEF InPlace
<1>2. CASE s.op \in {"delete", "batch"}
  <2> DEFINE f == [r \in rows |-> IF r.id \in s.local THEN [r EXCEPT !.live = FALSE] ELSE r]
  <2>1. rows' = {IF r.id \in s.local THEN [r EXCEPT !.live = FALSE] ELSE r : r \in rows}
    BY <1>2 DEF Written, SoftDelete
  <2>2. f \in [rows -> rows'] /\ \A x \in rows' : \E r \in rows : x = f[r]
    BY <2>1
  <2>3. \A r \in rows : f[r] = IF r.id \in s.local THEN [r EXCEPT !.live = FALSE] ELSE r
    OBVIOUS
  <2> HIDE DEF f
  <2>4. NamesRows(s)
    BY <1>2 DEF PendingInv, PendingOf, Naming, RowOps
  <2>5. \A r \in rows : r.id \notin s.local => r.rid \notin Touched(s)
    BY <1>2, <2>4 DEF NamesRows, Touched, Updating
  <2>6. \A r \in rows : Keeps(s, r, f[r])
    BY <2>3, <2>5, SoftDeleted, ZenonT(60) DEF Keeps, RowInv
  <2> QED
    BY <2>2, <2>6 DEF InPlace
<1>3. CASE s.op = "update"
  <2> DEFINE hit(r) == r.id \in s.local /\ r.live
             new(r) == [r EXCEPT !.content = s.rec.content, !.prio = ptrInt(s.rec.prio),
                                 !.rid = s.rec.id]
             f == [r \in rows |-> IF hit(r) THEN new(r) ELSE r]
  <2>1. rows' = {IF hit(r) THEN new(r) ELSE r : r \in rows}
    BY <1>3 DEF Written, UpdateRow
  <2>2. f \in [rows -> rows'] /\ \A x \in rows' : \E r \in rows : x = f[r]
    BY <2>1
  <2>3. \A r \in rows : f[r] = IF hit(r) THEN new(r) ELSE r
    OBVIOUS
  <2>4. \A r \in rows :
           /\ DOMAIN new(r) = RowFields /\ new(r).id = r.id /\ new(r).at = r.at
           /\ new(r).rid = s.rec.id /\ new(r).content = s.rec.content
    BY DEF RowInv, RowFields
  <2>5. /\ Updating(s) /\ NamesRows(s) /\ s.rec.id \in s.ids
        /\ \A r \in rows : r.rid = s.rec.id => r.at = s.client.type
    BY <1>3 DEF PendingInv, PendingOf, Naming, RowOps, Updating
  <2>6. \A r \in rows : r.id \in s.local <=> r.rid = s.rec.id
    BY <1>3, <2>5 DEF NamesRows
  <2>7. Touched(s) = {s.rec.id}
    BY <2>5 DEF Touched
  <2>8. \A r \in rows : DOMAIN r = RowFields
    BY DEF RowInv
  <2>9. ASSUME NEW r \in rows PROVE Keeps(s, r, f[r])
    <3> HIDE DEF f, new
    <3>1. CASE hit(r)
      BY <2>3, <2>4, <2>5, <2>6, <3>1 DEF Keeps
    <3>2. CASE ~hit(r)
      BY <2>3, <2>6, <2>7, <2>8, <3>2 DEF Keeps
    <3> QED
      BY <3>1, <3>2
  <2> QED
    BY <2>2, <2>9 DEF InPlace
<1>4. CASE s.op \in CreateOps
  <2> DEFINE x == providerRecordToRow(s)
  <2>1. rows' = rows \cup {x}
    BY <1>4 DEF Written, InsertRow, CreateOps
  <2>2. /\ DOMAIN x = RowFields /\ x.id = Cardinality(rows) + 1 /\ x.rid = s.rec.id
        /\ x.at = s.client.type /\ x.content = s.rec.content
    BY DEF providerRecordToRow, RowFields
  <2> QED
    BY <1>4, <2>1, <2>2 DEF Inserts, Creating
<1> QED
  BY <1>0, <1>1, <1>2, <1>3, <1>4 DEF RowOps

LEMMA InPlaceRows ==
    ASSUME RowInv, NEW s, InPlace(s), UNCHANGED <<zones, lastId>>
    PROVE  RowInv' /\ RowRids' = RowRids /\ RowIds' = RowIds
<1>1. PICK f \in [rows -> rows'] :
         /\ \A x \in rows' : \E r \in rows : x = f[r]
         /\ \A r \in rows : Keeps(s, r, f[r])
  BY DEF InPlace
<1>2. \A r, x \in rows : f[r] = f[x] => r = x
  BY <1>1 DEF Keeps, RowInv
<1>3. f \in Bijection(rows, rows')
  <2>1. f \in Injection(rows, rows')
    BY <1>2 DEF Injection, IsInjective
  <2>2. f \in Surjection(rows, rows')
    BY <1>1 DEF Surjection
  <2> QED
    BY <2>1, <2>2 DEF Bijection
<1>4. IsFiniteSet(rows') /\ Cardinality(rows') = Cardinality(rows)
  BY <1>3, FS_Bijection DEF RowInv, ExistsBijection
<1>5. \A x \in rows' : \E r \in rows :
         DOMAIN x = RowFields /\ x.id = r.id /\ x.rid = r.rid /\ x.at = r.at /\ x = f[r]
  BY <1>1 DEF Keeps
<1>6. \A x \in rows' :
         /\ DOMAIN x = RowFields
         /\ x.id \in 1..Cardinality(rows')
         /\ x.rid \in Nat /\ Others < x.rid /\ x.rid <= lastId'
         /\ x.at \in ClientTypes /\ Only(x.at, x.rid)'
  BY <1>4, <1>5 DEF RowInv, Only
<1>7. \A r, x \in rows' : r.id = x.id \/ r.rid = x.rid => r = x
  BY <1>5 DEF RowInv
<1>8. RowRids' = RowRids /\ RowIds' = RowIds
  BY <1>1, <1>5 DEF RowRids, RowIds, Keeps
<1> QED
  BY <1>4, <1>6, <1>7, <1>8 DEF RowInv, Others

LEMMA InsertRows ==
    ASSUME RowInv, ZoneInv, NEW s, Inserts(s), HasNew(s), s.client.type \in ClientTypes,
           UNCHANGED <<zones, lastId>>
    PROVE  RowInv' /\ RowRids' = RowRids \cup {s.rec.id}
<1>1. PICK x : /\ rows' = rows \cup {x} /\ DOMAIN x = RowFields
               /\ x.id = Cardinality(rows) + 1 /\ x.rid = s.rec.id
               /\ x.at = s.client.type
  BY DEF Inserts
<1>2. IsFiniteSet(rows) /\ Cardinality(rows) \in Nat
  BY FS_CardinalityType DEF RowInv
<1>3. \A r \in rows : r.id # x.id /\ r.rid # x.rid
  BY <1>1, <1>2 DEF RowInv, HasNew, RowRids
<1>4. IsFiniteSet(rows') /\ Cardinality(rows') = Cardinality(rows) + 1
  BY <1>1, <1>2, <1>3, FS_AddElement
<1>5. \A r \in rows' :
         /\ DOMAIN r = RowFields
         /\ r.id \in 1..Cardinality(rows')
         /\ r.rid \in Nat /\ Others < r.rid /\ r.rid <= lastId'
         /\ r.at \in ClientTypes /\ Only(r.at, r.rid)'
  <2>1. /\ x.rid \in Nat /\ Others < x.rid /\ x.rid <= lastId' /\ x.at \in ClientTypes
        /\ Only(x.at, x.rid)' /\ x.id \in 1..Cardinality(rows')
    BY <1>1, <1>2, <1>4 DEF HasNew, Only
  <2>2. \A r \in rows :
           /\ DOMAIN r = RowFields
           /\ r.id \in 1..Cardinality(rows')
           /\ r.rid \in Nat /\ Others < r.rid /\ r.rid <= lastId'
           /\ r.at \in ClientTypes /\ Only(r.at, r.rid)'
    BY <1>2, <1>4 DEF RowInv, Only
  <2> QED
    BY <1>1, <2>1, <2>2
<1>6. \A r, y \in rows' : r.id = y.id \/ r.rid = y.rid => r = y
  BY <1>1, <1>3 DEF RowInv
<1>7. RowRids' = RowRids \cup {s.rec.id}
  BY <1>1 DEF RowRids
<1> QED
  BY <1>4, <1>5, <1>6, <1>7 DEF RowInv, Others

LEMMA SwapRows ==
    ASSUME RowInv, ZoneInv, NEW t, NEW id, NEW items, Swaps(t, id, items), rows' = rows
    PROVE  RowInv'
<1>1. \A u \in ClientTypes : \A i \in zones'[u] : i \in zones[u] \/ (u = t /\ i.id = id)
  BY SwapFacts
<1>2. lastId' \in Nat /\ lastId \in Nat /\ lastId <= lastId' /\ Others \in Nat
  BY SwapFacts DEF ZoneInv
<1>3. ASSUME NEW r \in rows PROVE Only(r.at, r.rid)'
  <2>1. r.rid \in Nat /\ r.rid <= lastId /\ Only(r.at, r.rid)
    BY DEF RowInv
  <2>2. r.rid = id => Has(zones[t], id) /\ t \in ClientTypes
    BY <1>2, <2>1 DEF Swaps
  <2> QED
    BY <1>1, <2>1, <2>2 DEF Only, Has
<1>4. \A r \in rows : r.rid <= lastId'
  BY <1>2 DEF RowInv
<1> QED
  BY <1>3, <1>4 DEF RowInv, Others

LEMMA RowStep ==
    ASSUME ZoneInv, RequestInv, RowInv, PendingInv, [Next]_vars
    PROVE  RowInv'
<1>1. CASE UNCHANGED <<itemVars, rows>>
  BY <1>1 DEF itemVars, RowInv, Others, Only
<1>2. ASSUME NEW q \in Requests, NEW n, Changes(q, n) PROVE RowInv'
  <2>1. PICK id, items, touched :
           /\ request[q].pc = "call"
           /\ Puts(q, id, items) \/ Takes(q, id, items)
           /\ Change(q, items, id, touched)
    BY <1>2 DEF Changes
  <2>2. rows' = rows
    BY <2>1 DEF Change
  <2> QED
    BY <2>1, <2>2, ChangeSwaps, SwapRows
<1>3. ASSUME NEW q \in Requests, NEW n, Writes(q, n) PROVE RowInv'
  <2>1. /\ request[q].pc = "write" /\ rows' = Written(request[q])
        /\ UNCHANGED <<zones, lastId>>
    BY <1>3 DEF Writes, zoneVars, itemVars
  <2>2. request[q].client.type \in ClientTypes
    BY <2>1 DEF RequestInv, Sound, AtProvider
  <2>3. Creating(request[q]) => HasNew(request[q])
    BY DEF PendingInv, PendingOf
  <2> QED
    BY <2>1, <2>2, <2>3, WrittenIs, InPlaceRows, InsertRows
<1>4. CASE Next
  BY <1>1, <1>2, <1>3, <1>4, Kinds
     DEF Kind, Rests, Begins, Finds, Pages, Elsewhere, zoneVars
<1>5. CASE UNCHANGED vars
  BY <1>1, <1>5 DEF vars, zoneVars
<1> QED
  BY <1>4, <1>5

-----------------------------------------------------------------------------
(* Requests between their call and their write.                            *)

(* Requests that stay as they are, while the zones and the rows do. *)
LEMMA PendingFrame ==
    ASSUME NEW s, PendingOf(s), UNCHANGED <<zones, lastId, rows>>, disturbed \subseteq disturbed'
    PROVE  PendingOf(s)'
<1>1. NamesRows(s) => NamesRows(s)'
  BY DEF NamesRows, RowRids, RowIds
<1>2. HasNew(s) => HasNew(s)'
  BY DEF HasNew, RowRids, Only, Others
<1>3. \A t, id, content : ItemSays(t, id, content) => ItemSays(t, id, content)'
  BY DEF ItemSays, Shows
<1> QED
  BY <1>1, <1>2, <1>3 DEF PendingOf, Naming, Creating, Updating

LEMMA PendingSwap ==
    ASSUME ZoneInv, RowInv, NEW s, PendingOf(s), NEW t, NEW id, NEW items,
           Swaps(t, id, items), rows' = rows, disturbed \subseteq disturbed',
           Creating(s) \/ Updating(s) => s.client.type \in ClientTypes,
           (Creating(s) \/ Updating(s)) /\ s.rec.id = id => id \in disturbed'
    PROVE  PendingOf(s)'
<1>0. t \in ClientTypes /\ lastId \in Nat
  BY DEF Swaps, ZoneInv
<1>1. NamesRows(s) => NamesRows(s)'
  BY DEF NamesRows, RowRids, RowIds
<1>2. HasNew(s) => HasNew(s)'
  <2> HAVE HasNew(s)
  <2>1. s.rec.id \in Nat /\ Others < s.rec.id /\ s.rec.id <= lastId /\ s.rec.id \notin RowRids
    BY DEF HasNew
  <2>2. lastId' \in Nat /\ lastId <= lastId'
    BY SwapFacts
  <2>3. Only(s.client.type, s.rec.id)'
    <3>1. Only(s.client.type, s.rec.id)
      BY DEF HasNew
    <3>2. \A u \in ClientTypes : \A i \in zones'[u] : i \in zones[u] \/ (u = t /\ i.id = id)
      BY SwapFacts
    <3>3. s.rec.id = id => Has(zones[t], id)
      BY <1>0, <2>1 DEF Swaps
    <3> QED
      BY <1>0, <3>1, <3>2, <3>3 DEF Only, Has
  <2> QED
    BY <1>0, <2>1, <2>2, <2>3 DEF HasNew, RowRids, Others
<1>3. ASSUME Creating(s) \/ Updating(s), s.rec.id \notin disturbed'
      PROVE  ItemSays(s.client.type, s.rec.id, s.rec.content)'
  <2>1. PICK i \in zones[s.client.type] :
           i.id = s.rec.id /\ Shows(s.client.type, i, s.rec.content)
    BY <1>3 DEF PendingOf, ItemSays
  <2>2. i.id # id
    BY <1>3, <2>1
  <2>3. i \in zones'[s.client.type]
    BY <1>3, <2>1, <2>2, SwapFacts DEF Swaps
  <2> QED
    BY <2>1, <2>3 DEF ItemSays, Shows
<1> QED
  BY <1>1, <1>2, <1>3 DEF PendingOf, Naming, Creating, Updating

LEMMA PendingInPlace ==
    ASSUME RowInv, NEW s, PendingOf(s), NEW w, InPlace(w),
           UNCHANGED <<zones, lastId, disturbed>>
    PROVE  PendingOf(s)'
<1>0. RowRids' = RowRids /\ RowIds' = RowIds
  BY InPlaceRows
<1>1. \A x \in rows' : \E r \in rows : x.id = r.id /\ x.rid = r.rid /\ x.at = r.at
  BY DEF InPlace, Keeps
<1>2. NamesRows(s) => NamesRows(s)'
  BY <1>0, <1>1 DEF NamesRows
<1>3. HasNew(s) => HasNew(s)'
  BY <1>0 DEF HasNew, Only, Others
<1>4. \A t, id, content : ItemSays(t, id, content) => ItemSays(t, id, content)'
  BY DEF ItemSays, Shows
<1> QED
  BY <1>1, <1>2, <1>3, <1>4 DEF PendingOf, Naming, Creating, Updating

LEMMA PendingInsert ==
    ASSUME RowInv, NEW s, PendingOf(s), NEW w, Inserts(w), HasNew(w),
           Creating(s) => s.rec.id # w.rec.id, RowRids' = RowRids \cup {w.rec.id},
           UNCHANGED <<zones, lastId, disturbed>>
    PROVE  PendingOf(s)'
<1>0. PICK x : rows' = rows \cup {x} /\ x.id = Cardinality(rows) + 1 /\ x.rid = w.rec.id
  BY DEF Inserts
<1>1. x.rid \notin RowRids /\ x.id \notin RowIds
  <2>1. Cardinality(rows) \in Nat
    BY FS_CardinalityType DEF RowInv
  <2> QED
    BY <1>0, <2>1 DEF HasNew, RowIds, RowInv
<1>2. RowIds \subseteq RowIds'
  BY <1>0 DEF RowIds
<1>3. NamesRows(s) => NamesRows(s)'
  BY <1>0, <1>1, <1>2 DEF NamesRows
<1>4. Creating(s) /\ HasNew(s) => HasNew(s)'
  BY DEF HasNew, Only, Others
<1>5. \A t, id, content : ItemSays(t, id, content) => ItemSays(t, id, content)'
  BY DEF ItemSays, Shows
<1>6. Updating(s) => s.rec.id # x.rid
  BY <1>1 DEF PendingOf, Updating, Naming, NamesRows, RowOps
<1> QED
  BY <1>0, <1>3, <1>4, <1>5, <1>6 DEF PendingOf, Naming, Creating, Updating

(* A request that is not between its call and its write. *)
LEMMA PendingAway ==
    ASSUME NEW s, s.pc \notin {"call", "write"}
    PROVE  PendingOf(s)' /\ ~Creating(s)
BY DEF PendingOf, Naming, Creating, Updating


(* One request moves: what becomes of it, and of the others. *)
LEMMA PendingMove ==
    ASSUME RequestInv, PendingInv, NEW q \in Requests, NEW n, Moves(q, n), PendingOf(n)',
           \A k \in Requests \ {q} : \A s : s = request[k] => PendingOf(s)',
           Creating(n) => \A k \in Requests \ {q} :
                             Creating(request[k]) => request[k].rec.id # n.rec.id
    PROVE  PendingInv'
<1>1. request'[q] = n /\ \A k \in Requests \ {q} : request'[k] = request[k]
  BY DEF RequestInv, Moves
<1>2. \A k \in Requests : \A s : s = request'[k] => PendingOf(s)'
  BY <1>1
<1>3. \A k \in Requests : PendingOf(request[k])'
  <2> TAKE k \in Requests
  <2>1. PICK s : s = request'[k]
    OBVIOUS
  <2>2. PendingOf(s)'
    BY <1>2, <2>1
  <2> QED
    BY <2>1, <2>2 DEF PendingOf, NamesRows, HasNew, ItemSays, Only, Naming, Creating, Updating
<1>4. \A k, j \in Requests :
         /\ Creating(request'[k]) /\ Creating(request'[j])
         /\ request'[k].rec.id = request'[j].rec.id
         => k = j
  BY <1>1 DEF PendingInv
<1> QED
  BY <1>3, <1>4 DEF PendingInv, Creating

(* A step that changes neither zones nor rows. *)
LEMMA PendingStill ==
    ASSUME RequestInv, PendingInv, NEW q \in Requests, NEW n,
           Rests(q, n) \/ Begins(q, n) \/ Finds(q, n) \/ Pages(q, n)
    PROVE  PendingInv'
<1>1. Moves(q, n) /\ UNCHANGED <<zones, lastId, rows>> /\ disturbed \subseteq disturbed'
  BY DEF Rests, Begins, Finds, Pages, zoneVars, itemVars
<1>2. ASSUME NEW k \in Requests, NEW s, s = request[k] PROVE PendingOf(s)'
  <2>1. PendingOf(s)
    BY <1>2 DEF PendingInv
  <2> QED
    BY <1>1, <2>1, PendingFrame
<1>3. PendingOf(n)' /\ ~Creating(n)
  <2>1. CASE Rests(q, n)
    BY <2>1, PendingAway DEF Rests, AtProvider
  <2>2. CASE Begins(q, n)
    <3>1. PendingOf(n) /\ ~Creating(n)
      BY <2>2 DEF Begins, PendingOf, Creating, Updating
    <3> QED
      BY <1>1, <3>1, PendingFrame
  <2>3. CASE Finds(q, n)
    <3>1. PICK s : s = request[q] /\ PendingOf(s) /\ Sound(s)
      BY DEF PendingInv, RequestInv
    <3>2. s.pc \in {"list", "call"} /\ n = [s EXCEPT !.known = TRUE]
      BY <2>3, <3>1 DEF Finds
    <3>3. /\ n.pc = s.pc /\ n.op = s.op /\ n.ids = s.ids /\ n.done = s.done
          /\ n.local = s.local
      BY <3>1, <3>2 DEF Sound, Fields
    <3>4. PendingOf(n) /\ ~Creating(n)
      BY <3>1, <3>2, <3>3 DEF PendingOf, Creating, Updating, Naming, NamesRows
    <3> QED
      BY <1>1, <3>4, PendingFrame
  <2>4. CASE Pages(q, n)
    <3>1. n.op \in ListOps
      BY <2>4, OpsAtIs DEF Pages, RequestInv, Sound
    <3>2. ~Naming(n) /\ ~Creating(n) /\ ~Updating(n)
      BY <3>1 DEF ListOps, Naming, Creating, Updating, RowOps, CreateOps
    <3> QED
      BY <3>2 DEF PendingOf, Naming, Creating, Updating
  <2> QED
    BY <2>1, <2>2, <2>3, <2>4
<1> QED
  BY <1>1, <1>2, <1>3, PendingMove

LEMMA PendingWrites ==
    ASSUME RequestInv, ZoneInv, RowInv, PendingInv, NEW q \in Requests, NEW n, Writes(q, n)
    PROVE  PendingInv'
<1>1. /\ Moves(q, n) /\ UNCHANGED <<zones, lastId, disturbed>>
      /\ request[q].pc = "write" /\ rows' = Written(request[q]) /\ n.pc \notin AtProvider
  BY DEF Writes, zoneVars, itemVars
<1>2. PendingOf(n)' /\ ~Creating(n)
  BY <1>1, PendingAway DEF AtProvider
<1>3. PICK w : w = request[q]
  OBVIOUS
<1>4. ASSUME NEW k \in Requests \ {q}, NEW s, s = request[k] PROVE PendingOf(s)'
  <2>1. PendingOf(s)
    BY <1>4 DEF PendingInv
  <2>2. CASE InPlace(w)
    BY <1>1, <2>1, <2>2, PendingInPlace
  <2>3. CASE Creating(w) /\ Inserts(w)
    <3>1. HasNew(w) /\ w.client.type \in ClientTypes
      BY <1>1, <1>3, <2>3 DEF PendingInv, PendingOf, RequestInv, Sound, AtProvider
    <3>2. Creating(s) => s.rec.id # w.rec.id
      BY <1>3, <1>4, <2>3 DEF PendingInv
    <3>3. RowRids' = RowRids \cup {w.rec.id}
      BY <1>1, <2>3, <3>1, InsertRows
    <3> QED
      BY <1>1, <2>1, <2>3, <3>1, <3>2, <3>3, PendingInsert
  <2> QED
    BY <1>1, <1>3, <2>2, <2>3, WrittenIs
<1> QED
  BY <1>1, <1>2, <1>4, PendingMove

(* The request that makes a change. *)
LEMMA PendingChanger ==
    ASSUME RequestInv, ZoneInv, RowInv, PendingInv, NEW q \in Requests, NEW n,
           NEW id, NEW items, request[q].pc = "call", rows' = rows,
           Puts(q, id, items) \/ Takes(q, id, items),
           Swaps(request[q].client.type, id, items),
           ToWrite(q, n, id, items) \/ OneMore(q, n, id) \/ Leaves(q, n, id)
    PROVE  PendingOf(n)' /\ (Creating(n) => n.rec.id = lastId + 1)
<1>0. PICK s : s = request[q] /\ PendingOf(s) /\ Sound(s)
  BY DEF PendingInv, RequestInv
<1>1. Items(q) = zones[s.client.type] /\ s.pc = "call" /\ s.client.type \in ClientTypes
  BY <1>0 DEF Items, Sound, AtProvider
<1>2. NamesRows(s) => NamesRows(s)'
  BY DEF NamesRows, RowRids, RowIds
<1>3. CASE Leaves(q, n, id)
  BY <1>3, PendingAway DEF Leaves, AtProvider
<1>4. CASE OneMore(q, n, id)
  <2>1. /\ s.op \in {"delete", "batch"} /\ n.op = s.op /\ n.ids = s.ids /\ n.local = s.local
        /\ n.done = s.done \cup {id} /\ n.pc \in {"call", "write"}
        /\ (n.op = "delete" => n.pc = "write")
    BY <1>0, <1>4 DEF OneMore
  <2>2. id \in s.ids
    BY <1>0, <2>1 DEF Puts, Takes, MayPut, CreateOps
  <2>3. NamesRows(s)'
    BY <1>0, <1>1, <1>2, <2>1 DEF PendingOf, Naming, RowOps
  <2>4. NamesRows(n)'
    BY <2>1, <2>2, <2>3 DEF NamesRows
  <2>5. ~Creating(n) /\ ~Updating(n)
    BY <2>1 DEF Creating, Updating, CreateOps
  <2> QED
    BY <2>4, <2>5 DEF PendingOf, Naming, Creating, Updating
<1>5. CASE ToWrite(q, n, id, items)
  <2>1. PICK back :
           /\ n = [s EXCEPT !.pc = "write", !.rec = back]
           /\ s.op \in CreateOps \cup {"update"}
           /\ back.id = id
           /\ \E i \in items : i.id = id /\ Shows(s.client.type, i, back.content)
    BY <1>0, <1>5 DEF ToWrite
  <2>2. /\ n.pc = "write" /\ n.rec = back /\ n.op = s.op /\ n.ids = s.ids
        /\ n.done = s.done /\ n.local = s.local /\ n.client = s.client
    BY <1>0, <2>1 DEF Sound, Fields
  <2>3. MayPut(q, id)
    BY <1>0, <2>1 DEF Puts, Takes, CreateOps
  <2>4. zones'[s.client.type] = items /\ lastId' \in Nat /\ id <= lastId' /\ id \in Nat
    BY <1>0, SwapFacts
  <2>5. ItemSays(n.client.type, n.rec.id, n.rec.content)'
    <3>1. PICK i \in zones'[n.client.type] :
             i.id = n.rec.id /\ Shows(n.client.type, i, n.rec.content)
      BY <2>1, <2>2, <2>4
    <3> QED
      BY <3>1 DEF ItemSays, Shows
  <2>6. CASE s.op = "update"
    <3>1. id \in s.ids /\ Has(zones[s.client.type], id)
      BY <1>0, <1>1, <2>3, <2>6 DEF MayPut, CreateOps
    <3>2. NamesRows(s)'
      BY <1>0, <1>1, <1>2, <2>6 DEF PendingOf, Naming, RowOps
    <3>3. NamesRows(n)'
      BY <2>2, <2>6, <3>2 DEF NamesRows
    <3>4. \A r \in rows : r.rid = id => r.at = s.client.type
      BY <1>1, <3>1 DEF RowInv, Only, Has
    <3>5. ~Creating(n)
      BY <2>2, <2>6 DEF Creating, CreateOps
    <3> QED
      BY <2>1, <2>2, <2>5, <3>1, <3>3, <3>4, <3>5 DEF PendingOf, Naming, Creating, Updating
  <2>7. CASE s.op \in CreateOps
    <3>1. id = lastId + 1 /\ lastId \in Nat /\ Others \in Nat /\ Others <= lastId
      BY <1>0, <2>3, <2>7 DEF MayPut, CreateOps, ZoneInv
    <3>2. id \notin RowRids
      BY <3>1 DEF RowInv, RowRids
    <3>3. Only(s.client.type, id)'
      <4>1. \A u \in ClientTypes : \A i \in zones[u] : i.id # id
        BY <3>1 DEF ZoneInv
      <4>2. \A u \in ClientTypes : u # s.client.type => zones'[u] = zones[u]
        BY <1>0, SwapFacts
      <4> QED
        BY <4>1, <4>2 DEF Only
    <3>4. HasNew(n)'
      BY <2>1, <2>2, <2>4, <3>1, <3>2, <3>3 DEF HasNew, RowRids, Others, Only
    <3>5. ~Naming(n) /\ ~Updating(n)
      BY <2>2, <2>7 DEF Naming, Updating, CreateOps, RowOps
    <3> QED
      BY <2>1, <2>2, <2>5, <3>1, <3>4, <3>5 DEF PendingOf, Naming, Creating, Updating
  <2> QED
    BY <2>1, <2>6, <2>7
<1> QED
  BY <1>3, <1>4, <1>5

LEMMA PendingChanges ==
    ASSUME RequestInv, ZoneInv, RowInv, PendingInv, NEW q \in Requests, NEW n, Changes(q, n)
    PROVE  PendingInv'
<1>1. PICK id, items, touched :
         /\ Moves(q, n) /\ request[q].pc = "call"
         /\ Puts(q, id, items) \/ Takes(q, id, items)
         /\ ToWrite(q, n, id, items) \/ OneMore(q, n, id) \/ Leaves(q, n, id)
         /\ Change(q, items, id, touched)
         /\ \A k \in Requests \ {q} :
               (Updating(request[k]) \/ Creating(request[k])) /\ request[k].rec.id = id
               => id \in disturbed'
  BY DEF Changes
<1>2. rows' = rows /\ disturbed \subseteq disturbed'
  BY <1>1 DEF Change
<1>3. PICK t : t = request[q].client.type
  OBVIOUS
<1>4. Swaps(t, id, items)
  BY <1>1, <1>3, ChangeSwaps
<1>5. PendingOf(n)' /\ (Creating(n) => n.rec.id = lastId + 1)
  BY <1>1, <1>2, <1>3, <1>4, PendingChanger
<1>6. ASSUME NEW k \in Requests \ {q}, NEW s, s = request[k] PROVE PendingOf(s)'
  <2>1. PendingOf(s)
    BY <1>6 DEF PendingInv
  <2>2. Creating(s) \/ Updating(s) => s.client.type \in ClientTypes
    BY <1>6 DEF RequestInv, Sound, AtProvider, Creating, Updating
  <2>3. (Creating(s) \/ Updating(s)) /\ s.rec.id = id => id \in disturbed'
    BY <1>1, <1>6
  <2> QED
    BY <1>2, <1>4, <2>1, <2>2, <2>3, PendingSwap
<1>7. Creating(n) => \A k \in Requests \ {q} :
                        Creating(request[k]) => request[k].rec.id # n.rec.id
  <2>1. lastId \in Nat
    BY DEF ZoneInv
  <2>2. \A k \in Requests : Creating(request[k]) =>
           request[k].rec.id \in Nat /\ request[k].rec.id <= lastId
    BY DEF PendingInv, PendingOf, HasNew
  <2> QED
    BY <1>5, <2>1, <2>2
<1> QED
  BY <1>1, <1>5, <1>6, <1>7, PendingMove

LEMMA PendingStep ==
    ASSUME RequestInv, ZoneInv, RowInv, PendingInv, [Next]_vars
    PROVE  PendingInv'
<1>1. CASE UNCHANGED <<zoneVars, rows, request>>
  <2>1. ASSUME NEW k \in Requests PROVE PendingOf(request[k])'
    <3>1. PICK s : s = request[k] /\ PendingOf(s)
      BY DEF PendingInv
    <3>2. PendingOf(s)'
      BY <1>1, <3>1, PendingFrame DEF zoneVars, itemVars
    <3> QED
      BY <1>1, <3>1, <3>2
         DEF PendingOf, NamesRows, HasNew, ItemSays, Only, Naming, Creating, Updating
  <2> QED
    BY <1>1, <2>1 DEF PendingInv, Creating
<1>2. CASE Next
  BY <1>1, <1>2, Kinds, PendingStill, PendingWrites, PendingChanges DEF Kind, Elsewhere
<1>3. CASE UNCHANGED vars
  BY <1>1, <1>3 DEF vars
<1> QED
  BY <1>2, <1>3

-----------------------------------------------------------------------------
(* Rows say what their providers say.                                      *)

(* The premise of the invariant for a record. *)
Undisturbed(rid) ==
    rid \notin disturbed /\ \A q \in Requests : rid \notin Touched(request[q])

LEMMA TrueIs == TrueInv <=> \A r \in rows : r.live /\ Undisturbed(r.rid) => ItemSays(r.at, r.rid, r.content)
BY DEF TrueInv, Undisturbed

(* A record stays undisturbed back to the state before, if the request     *)
(* that moves had not touched it.                                          *)
LEMMA UndisturbedBefore ==
    ASSUME RequestInv, NEW q \in Requests, NEW n, Moves(q, n), disturbed \subseteq disturbed',
           NEW rid, Undisturbed(rid)', rid \notin Touched(request[q])
    PROVE  Undisturbed(rid)
<1>1. \A k \in Requests \ {q} : request'[k] = request[k]
  BY DEF RequestInv, Moves
<1>2. \A k \in Requests : rid \notin Touched(request'[k])
  BY DEF Undisturbed, Touched, Updating, Naming
<1> QED
  BY <1>1, <1>2 DEF Undisturbed

LEMMA TrueStill ==
    ASSUME RequestInv, TrueInv, NEW q \in Requests, NEW n,
           Rests(q, n) \/ Begins(q, n) \/ Finds(q, n) \/ Pages(q, n)
    PROVE  TrueInv'
<1>1. Moves(q, n) /\ UNCHANGED <<zones, rows>> /\ disturbed \subseteq disturbed'
  BY DEF Rests, Begins, Finds, Pages, zoneVars, itemVars
<1>2. Touched(request[q]) \subseteq disturbed' \cup Touched(n)
  <2>1. CASE Finds(q, n)
    <3>1. PICK s : s = request[q] /\ Sound(s) /\ n = [s EXCEPT !.known = TRUE]
      BY <2>1 DEF Finds, RequestInv
    <3>2. n.pc = s.pc /\ n.op = s.op /\ n.done = s.done /\ n.rec = s.rec
      BY <3>1 DEF Sound, Fields
    <3> QED
      BY <3>1, <3>2 DEF Touched, Updating, Naming
  <2>2. Rests(q, n) => Touched(request[q]) \subseteq disturbed'
    BY DEF Rests
  <2>3. Begins(q, n) \/ Pages(q, n) => Touched(request[q]) = {}
    BY UntouchedAway DEF Begins, Pages
  <2> QED
    BY <2>1, <2>2, <2>3
<1>3. request'[q] = n
  BY <1>1 DEF RequestInv, Moves
<1>4. ASSUME NEW rid, Undisturbed(rid)' PROVE Undisturbed(rid)
  <2>1. rid \notin disturbed' /\ rid \notin Touched(request'[q])
    BY <1>4 DEF Undisturbed, Touched, Updating, Naming
  <2> QED
    BY <1>1, <1>2, <1>3, <1>4, <2>1, UndisturbedBefore
<1>5. ASSUME NEW r \in rows', r.live, Undisturbed(r.rid)'
      PROVE  ItemSays(r.at, r.rid, r.content)'
  <2>1. ItemSays(r.at, r.rid, r.content)
    BY <1>1, <1>4, <1>5, TrueIs
  <2> QED
    BY <1>1, <2>1 DEF ItemSays, Shows
<1> QED
  BY <1>5 DEF TrueInv, Undisturbed

LEMMA TrueChanges ==
    ASSUME RequestInv, ZoneInv, RowInv, TrueInv, NEW q \in Requests, NEW n, Changes(q, n)
    PROVE  TrueInv'
<1>1. PICK id, items, touched :
         /\ Moves(q, n) /\ request[q].pc = "call"
         /\ Puts(q, id, items) \/ Takes(q, id, items)
         /\ ToWrite(q, n, id, items) \/ OneMore(q, n, id) \/ Leaves(q, n, id)
         /\ Change(q, items, id, touched)
  BY DEF Changes
<1>2. rows' = rows /\ disturbed \subseteq disturbed'
  BY <1>1 DEF Change
<1>3. PICK t : t = request[q].client.type
  OBVIOUS
<1>4. Swaps(t, id, items)
  BY <1>1, <1>3, ChangeSwaps
<1>5. request'[q] = n
  BY <1>1 DEF RequestInv, Moves
<1>6. /\ Touched(request[q]) \subseteq disturbed' \cup Touched(n)
      /\ id \in disturbed' \cup Touched(n) \/ id = lastId + 1
  <2>1. CASE Leaves(q, n, id)
    BY <2>1 DEF Leaves
  <2>2. CASE OneMore(q, n, id)
    <3>1. /\ n.op = request[q].op /\ request[q].op \in {"delete", "batch"}
          /\ n.pc \in {"call", "write"} /\ n.done = request[q].done \cup {id}
      BY <2>2 DEF OneMore
    <3>2. Touched(n) = n.done /\ Touched(request[q]) = request[q].done
      BY <1>1, <3>1 DEF Touched, Updating, Naming, RowOps
    <3> QED
      BY <3>1, <3>2
  <2>3. CASE ToWrite(q, n, id, items)
    <3>1. PICK s : s = request[q] /\ Sound(s)
      BY DEF RequestInv
    <3>2. PICK back :
             /\ n = [s EXCEPT !.pc = "write", !.rec = back] /\ back.id = id
             /\ s.op \in CreateOps \cup {"update"}
      BY <2>3, <3>1 DEF ToWrite
    <3>3. n.pc = "write" /\ n.op = s.op /\ n.rec = back
      BY <3>1, <3>2 DEF Sound, Fields
    <3>4. Touched(s) = {}
      BY <1>1, <3>1, <3>2 DEF Touched, Updating, Naming, CreateOps, RowOps
    <3>5. s.op = "update" => Touched(n) = {id}
      BY <3>2, <3>3 DEF Touched, Updating
    <3>6. s.op \in CreateOps => id = lastId + 1
      BY <1>1, <3>1 DEF Puts, Takes, MayPut, CreateOps
    <3> QED
      BY <3>1, <3>2, <3>4, <3>5, <3>6
  <2> QED
    BY <1>1, <2>1, <2>2, <2>3
<1>7. ASSUME NEW r \in rows, r.live, Undisturbed(r.rid)'
      PROVE  ItemSays(r.at, r.rid, r.content)'
  <2>1. r.rid \notin disturbed' /\ r.rid \notin Touched(request'[q])
    BY <1>7 DEF Undisturbed, Touched, Updating, Naming
  <2>2. r.rid \in Nat /\ r.rid <= lastId /\ lastId \in Nat /\ r.at \in ClientTypes
    BY DEF RowInv, ZoneInv
  <2>3. r.rid # id
    BY <1>5, <1>6, <2>1, <2>2
  <2>4. Undisturbed(r.rid)
    BY <1>1, <1>2, <1>5, <1>6, <1>7, <2>1, UndisturbedBefore
  <2>5. PICK i \in zones[r.at] : i.id = r.rid /\ Shows(r.at, i, r.content)
    BY <1>7, <2>4, TrueIs DEF ItemSays
  <2>6. i \in zones'[r.at]
    BY <1>4, <2>2, <2>3, <2>5, SwapFacts DEF Swaps
  <2> QED
    BY <2>5, <2>6 DEF ItemSays, Shows
<1> QED
  BY <1>2, <1>7 DEF TrueInv, Undisturbed

LEMMA TrueWrites ==
    ASSUME RequestInv, RowInv, PendingInv, TrueInv, NEW q \in Requests, NEW n, Writes(q, n)
    PROVE  TrueInv'
<1>1. /\ Moves(q, n) /\ UNCHANGED <<zones, disturbed>>
      /\ request[q].pc = "write" /\ rows' = Written(request[q])
  BY DEF Writes, zoneVars, itemVars
<1>2. PICK s : s = request[q] /\ PendingOf(s)
  BY DEF PendingInv
<1>3. ASSUME NEW t, NEW id, NEW content, ItemSays(t, id, content)
      PROVE  ItemSays(t, id, content)'
  BY <1>1, <1>3 DEF ItemSays, Shows
<1>4. ASSUME NEW r \in rows, r.live, Undisturbed(r.rid)', r.rid \notin Touched(s)
      PROVE  ItemSays(r.at, r.rid, r.content)'
  <2>1. Undisturbed(r.rid)
    BY <1>1, <1>2, <1>4, UndisturbedBefore
  <2> QED
    BY <1>3, <1>4, <2>1, TrueIs
<1>5. ASSUME NEW rid, Undisturbed(rid)' PROVE rid \notin disturbed
  BY <1>1, <1>5 DEF Undisturbed
<1>6. (Creating(s) \/ Updating(s)) /\ s.rec.id \notin disturbed
         => ItemSays(s.client.type, s.rec.id, s.rec.content)
  BY <1>2 DEF PendingOf
<1>7. ASSUME NEW x \in rows', x.live, Undisturbed(x.rid)'
      PROVE  ItemSays(x.at, x.rid, x.content)'
  <2>1. CASE InPlace(s)
    <3>1. PICK r \in rows : Keeps(s, r, x)
      BY <2>1 DEF InPlace
    <3>2. x.rid = r.rid /\ x.at = r.at /\ r.live
      BY <1>7, <3>1 DEF Keeps
    <3>3. CASE x = r /\ r.rid \notin Touched(s)
      BY <1>4, <1>7, <3>3
    <3>4. CASE /\ Updating(s) /\ r.rid = s.rec.id /\ r.at = s.client.type
               /\ x.content = s.rec.content
      BY <1>3, <1>5, <1>6, <1>7, <3>2, <3>4
    <3> QED
      BY <1>7, <3>1, <3>3, <3>4 DEF Keeps
  <2>2. CASE Creating(s) /\ Inserts(s)
    <3>1. CASE x \in rows
      <4>1. Touched(s) = {}
        BY <2>2, UntouchedOthers DEF Creating, CreateOps, RowOps
      <4> QED
        BY <1>4, <1>7, <3>1, <4>1
    <3>2. CASE x \notin rows
      <4>1. x.rid = s.rec.id /\ x.at = s.client.type /\ x.content = s.rec.content
        BY <2>2, <3>2 DEF Inserts
      <4> QED
        BY <1>3, <1>5, <1>6, <1>7, <2>2, <4>1
    <3> QED
      BY <3>1, <3>2
  <2> QED
    BY <1>1, <1>2, <2>1, <2>2, WrittenIs
<1> QED
  BY <1>7 DEF TrueInv, Undisturbed

LEMMA TrueStep ==
    ASSUME RequestInv, ZoneInv, RowInv, PendingInv, TrueInv, [Next]_vars
    PROVE  TrueInv'
<1>1. CASE UNCHANGED <<zoneVars, rows, request>>
  BY <1>1 DEF zoneVars, itemVars, TrueInv, ItemSays, Shows, Touched, Updating, Naming
<1>2. CASE Next
  BY <1>1, <1>2, Kinds, TrueStill, TrueWrites, TrueChanges DEF Kind, Elsewhere
<1>3. CASE UNCHANGED vars
  BY <1>1, <1>3 DEF vars
<1> QED
  BY <1>2, <1>3

-----------------------------------------------------------------------------
(* The invariant, and what follows from it.                                *)

DnsInv == RequestInv /\ ZoneInv /\ RowInv /\ PendingInv

LEMMA DnsInit == Init => DnsInv /\ KeyInv /\ TrueInv
<1> SUFFICES ASSUME Init PROVE DnsInv /\ KeyInv /\ TrueInv
  OBVIOUS
<1>1. DOMAIN request = Requests /\ \A q \in Requests : request[q] = Idle
  BY DEF Init
<1>2. RequestInv
  BY <1>1, IdleIs DEF Init, RequestInv
<1>3. ZoneInv
  <2>1. IsFiniteSet(Foreign) /\ Others \in Nat
    BY ForeignAssumption, FS_CardinalityType DEF Others
  <2>2. /\ \A i \in Foreign : i.id \in 1..Others /\ i.values # {}
        /\ \A i, j \in Foreign : i.id = j.id => i = j
    BY ForeignAssumption DEF Others
  <2>3. /\ DOMAIN zones = ClientTypes /\ DOMAIN deleted = ClientTypes /\ lastId = Others
        /\ \A t \in ClientTypes : zones[t] = Foreign /\ deleted[t] = {}
    BY DEF Init, Others
  <2> QED
    BY <2>1, <2>2, <2>3 DEF ZoneInv
<1>4. RowInv
  BY FS_EmptySet DEF Init, RowInv
<1>5. PendingInv
  <2>1. \A q \in Requests : ~Naming(request[q]) /\ ~Creating(request[q]) /\ ~Updating(request[q])
    BY <1>1, IdleIs DEF Naming, Creating, Updating
  <2> QED
    BY <2>1 DEF PendingInv, PendingOf
<1>6. KeyInv
  <2>1. \A q \in Requests : ~Sending(q)
    BY <1>1, IdleIs DEF Sending
  <2> QED
    BY <2>1 DEF Init, KeyInv, KeyHeld
<1>7. TrueInv
  BY DEF Init, TrueInv
<1> QED
  BY <1>2, <1>3, <1>4, <1>5, <1>6, <1>7 DEF DnsInv

LEMMA DnsStep == DnsInv /\ [Next]_vars => DnsInv'
BY RequestStep, ZoneStep, RowStep, PendingStep DEF DnsInv

(* A domain is alerted once while its key lives, whatever the workers do   *)
(* at the same time and whether the key of an alert that failed could be   *)
(* deleted or not, unless Redis fails or one channel does after the other  *)
(* has delivered (trySetAlerted, clearAlerted, Multi.Send).                *)
THEOREM AlertsOncePerHour == Spec => []OneAlertPerHour
<1>1. Init => DnsInv /\ KeyInv
  BY DnsInit
<1>2. DnsInv /\ KeyInv /\ [Next]_vars => DnsInv' /\ KeyInv'
  BY DnsStep, KeyStep DEF DnsInv
<1>3. KeyInv => OneAlertPerHour
  BY DEF KeyInv, KeyHeld, OneAlertPerHour
<1> QED
  BY <1>1, <1>2, <1>3, PTL DEF Spec

LEMMA TrueRows == TrueInv => RowsAreTrue
<1> SUFFICES ASSUME TrueInv, NEW r \in rows, r.live, r.rid \notin disturbed,
                    ~\E q \in Requests :
                        /\ request[q].pc \in {"call", "write"}
                        /\ r.rid \in request[q].done \cup {request[q].rec.id}
             PROVE  \E i \in zones[r.at] :
                        /\ i.id = r.rid
                        /\ \/ \E rec \in RecordsOf(r.at, i) : rec.content = r.content
                           \/ r.at = "alidns" /\ i.type \in {"TXT", "SRV"}
  BY DEF RowsAreTrue
<1>1. \A q \in Requests : r.rid \notin Touched(request[q])
  BY DEF Touched, Updating, Naming
<1>2. ItemSays(r.at, r.rid, r.content)
  BY <1>1 DEF TrueInv
<1> QED
  BY <1>2 DEF ItemSays, Shows

(* The record of a live row exists at its provider and says what the row   *)
(* says, whatever requests, templates and drift checks run at the same     *)
(* time, as long as no failure, no other request and no call without rows  *)
(* has touched it (SyncService: call the provider, then persist).          *)
THEOREM RowsStayTrue == Spec => []RowsAreTrue
<1>1. Init => DnsInv /\ TrueInv
  BY DnsInit
<1>2. DnsInv /\ TrueInv /\ [Next]_vars => DnsInv' /\ TrueInv'
  BY DnsStep, TrueStep DEF DnsInv
<1> QED
  BY <1>1, <1>2, TrueRows, PTL DEF Spec

-----------------------------------------------------------------------------
(* Ranks.  The position of an item is the number of ids up to its own.     *)

UpTo(S, x) == {y \in S : y <= x}

Count(S, x) == Cardinality(UpTo(S, x))

LEMMA CountType ==
    ASSUME NEW S \in SUBSET Nat, IsFiniteSet(S), NEW x
    PROVE  IsFiniteSet(UpTo(S, x)) /\ Count(S, x) \in Nat /\ Count(S, x) <= Cardinality(S)
<1>1. UpTo(S, x) \in SUBSET S
  BY DEF UpTo
<1>2. IsFiniteSet(UpTo(S, x)) /\ Cardinality(UpTo(S, x)) <= Cardinality(S)
  BY <1>1, FS_Subset
<1> QED
  BY <1>2, FS_CardinalityType DEF Count

LEMMA CountGrows ==
    ASSUME NEW S \in SUBSET Nat, IsFiniteSet(S), NEW x \in S, NEW y \in S
    PROVE  (x <= y => Count(S, x) <= Count(S, y)) /\ (x < y => Count(S, x) < Count(S, y))
<1>0. x \in Nat /\ y \in Nat /\ \A z \in S : z \in Nat
  OBVIOUS
<1>1. ASSUME x <= y PROVE Count(S, x) <= Count(S, y)
  <2>0. \A z \in S : z <= x => z <= y
    BY <1>0, <1>1
  <2>1. UpTo(S, x) \in SUBSET UpTo(S, y)
    BY <2>0 DEF UpTo
  <2> QED
    BY <2>1, CountType, FS_Subset DEF Count
<1>2. ASSUME x < y PROVE Count(S, x) < Count(S, y)
  <2>0. \A z \in S : z <= x => z <= y
    BY <1>0, <1>2
  <2>1. UpTo(S, x) \in SUBSET UpTo(S, y)
    BY <2>0 DEF UpTo
  <2>2. y \in UpTo(S, y) /\ y \notin UpTo(S, x)
    BY <1>0, <1>2 DEF UpTo
  <2>3. Count(S, x) # Count(S, y)
    BY <2>1, <2>2, CountType, FS_Subset DEF Count
  <2>4. Count(S, x) <= Count(S, y)
    BY <2>1, CountType, FS_Subset DEF Count
  <2> QED
    BY <2>3, <2>4, CountType
<1> QED
  BY <1>1, <1>2

(* A finite set of numbers has a greatest one. *)
LEMMA GreatestIn ==
    ASSUME NEW S \in SUBSET Nat, IsFiniteSet(S), S # {}
    PROVE  \E x \in S : \A y \in S : y <= x
<1> DEFINE R == {Count(S, x) : x \in S}
<1>0. \A x \in S : x \in Nat
  OBVIOUS
<1>1. /\ R \in SUBSET Nat /\ R # {} /\ \A c \in R : c <= Cardinality(S)
      /\ Cardinality(S) \in Nat
  BY CountType, FS_CardinalityType
<1>2. PICK c \in R : \A d \in R : d <= c
  <2> HIDE DEF R
  <2> QED
    BY <1>1, GreatestOf
<1>3. PICK x \in S : Count(S, x) = c
  BY <1>2
<1>4. \A y \in S : Count(S, y) \in Nat /\ Count(S, y) <= Count(S, x)
  BY <1>1, <1>2, <1>3
<1>5. \A y \in S : ~(x < y)
  BY <1>4, CountGrows
<1> QED
  BY <1>0, <1>5

LEMMA CountPositive ==
    ASSUME NEW S \in SUBSET Nat, IsFiniteSet(S), NEW x \in S
    PROVE  Count(S, x) >= 1
<1>1. x \in UpTo(S, x)
  BY DEF UpTo
<1>2. Count(S, x) # 0
  BY <1>1, CountType, FS_EmptySet DEF Count
<1> QED
  BY <1>2, CountType

(* More ids, a higher rank. *)
LEMMA CountOfMore ==
    ASSUME NEW S, NEW R \in SUBSET Nat, IsFiniteSet(R), S \subseteq R, NEW x
    PROVE  Count(S, x) <= Count(R, x)
<1>1. UpTo(S, x) \in SUBSET UpTo(R, x)
  BY DEF UpTo
<1> QED
  BY <1>1, CountType, FS_Subset DEF Count

(* No rank is left out: above a rank there is the next one. *)
LEMMA NoGap ==
    ASSUME NEW S \in SUBSET Nat, IsFiniteSet(S), NEW o \in Nat, NEW x \in S, Count(S, x) > o
    PROVE  \E y \in S : Count(S, y) = o + 1
<1>0. \A z \in S : z \in Nat
  OBVIOUS
<1> DEFINE T == {y \in S : Count(S, y) > o}
<1>1. PICK y \in T : \A z \in T : y <= z
  <2>1. T \in SUBSET Nat /\ x \in T
    OBVIOUS
  <2> HIDE DEF T
  <2> QED
    BY <2>1, LeastOf
<1>2. y \in S /\ y \in Nat /\ Count(S, y) > o
  BY <1>1
<1> DEFINE B == {z \in S : z < y}
<1>3. B \in SUBSET S /\ y \notin B /\ UpTo(S, y) = B \cup {y}
  <2>1. ~(y < y) /\ \A z \in S : z <= y <=> z < y \/ z = y
    BY <1>0, <1>2
  <2> QED
    BY <1>2, <2>1 DEF UpTo
<1>4. IsFiniteSet(B) /\ Cardinality(B) \in Nat
  BY <1>3, FS_Subset, FS_CardinalityType
<1>5. Count(S, y) = Cardinality(B) + 1
  BY <1>3, <1>4, FS_AddElement DEF Count
<1>6. Cardinality(B) <= o
  <2>1. CASE B = {}
    BY <2>1, FS_EmptySet
  <2>2. CASE B # {}
    <3>1. PICK z \in B : \A w \in B : w <= z
      <4>0. \A w \in S : w < y => w <= y
        BY <1>0, <1>2
      <4>1. B \in SUBSET Nat /\ \A w \in B : w <= y
        BY <1>0, <4>0
      <4> HIDE DEF B
      <4> QED
        BY <1>2, <2>2, <4>1, GreatestOf
    <3>2. B = UpTo(S, z)
      <4>1. z \in S /\ z < y
        BY <3>1
      <4>2. \A w \in S : w <= z => w < y
        BY <1>0, <1>2, <4>1
      <4> QED
        BY <3>1, <4>2 DEF UpTo
    <3>3. z \in S /\ z \notin T
      BY <1>1, <1>2, <3>1
    <3>4. Count(S, z) <= o
      BY <3>3, CountType
    <3> QED
      BY <3>2, <3>4 DEF Count
  <2> QED
    BY <2>1, <2>2
<1>7. Count(S, y) = o + 1
  <2> HIDE DEF B
  <2> QED
    BY <1>2, <1>4, <1>5, <1>6
<1> QED
  BY <1>2, <1>7

(* What a listing is made of. *)
Orderly(items) ==
    /\ IsFiniteSet(items)
    /\ \A i \in items : i.id \in Nat \ {0} /\ i.values # {}
    /\ \A i, j \in items : i.id = j.id => i = j

LEMMA RankIs ==
    ASSUME NEW items, NEW i
    PROVE  Rank(items, i) = Count(Ids(items), i.id)
BY DEF Rank, Count, UpTo

LEMMA IdsOf ==
    ASSUME NEW items, Orderly(items)
    PROVE  /\ Ids(items) \in SUBSET Nat /\ IsFiniteSet(Ids(items))
           /\ Cardinality(Ids(items)) <= Cardinality(items)
           /\ Cardinality(items) \in Nat /\ Cardinality(Ids(items)) \in Nat
<1>1. Ids(items) \in SUBSET Nat
  BY DEF Orderly, Ids
<1> DEFINE f == [i \in items |-> i.id]
<1>2. f \in Surjection(items, Ids(items))
  BY DEF Surjection, Ids
<1>3. IsFiniteSet(Ids(items)) /\ Cardinality(Ids(items)) <= Cardinality(items)
  BY <1>2, FS_Surjection DEF Orderly
<1> QED
  BY <1>1, <1>3, FS_CardinalityType DEF Orderly

LEMMA RankOf ==
    ASSUME NEW items, Orderly(items), NEW i \in items
    PROVE  /\ Rank(items, i) \in Nat /\ Rank(items, i) >= 1
           /\ Rank(items, i) <= Cardinality(Ids(items))
<1>1. i.id \in Ids(items)
  BY DEF Ids
<1> QED
  BY <1>1, RankIs, IdsOf, CountType, CountPositive

(* A page holds no more than its size. *)
LEMMA PageFits ==
    ASSUME NEW items, Orderly(items), NEW o \in Nat, NEW size \in Nat
    PROVE  LET page == Slice(items, o, size)
           IN  IsFiniteSet(page) /\ Cardinality(page) \in Nat /\ Cardinality(page) <= size
<1> DEFINE page == Slice(items, o, size)
           f == [i \in page |-> Rank(items, i)]
<1>1. \A i \in page : i \in items /\ Rank(items, i) \in (o + 1)..(o + size)
  BY RankOf DEF Slice
<1>2. \A i, j \in page : f[i] = f[j] => i = j
  <2> SUFFICES ASSUME NEW i \in page, NEW j \in page, f[i] = f[j] PROVE i = j
    OBVIOUS
  <2>1. Count(Ids(items), i.id) = Count(Ids(items), j.id)
    BY RankIs
  <2>2. i.id \in Ids(items) /\ j.id \in Ids(items) /\ i.id \in Nat /\ j.id \in Nat
    BY <1>1 DEF Ids, Orderly
  <2> HIDE DEF page, f
  <2>3. Count(Ids(items), i.id) \in Nat
    BY IdsOf, CountType
  <2>4. ~(i.id < j.id) /\ ~(j.id < i.id)
    BY <2>1, <2>2, <2>3, IdsOf, CountGrows
  <2> QED
    BY <1>1, <2>2, <2>4 DEF Orderly
<1>3. f \in Injection(page, (o + 1)..(o + size))
  <2>1. f \in [page -> (o + 1)..(o + size)]
    BY <1>1
  <2> HIDE DEF f, page
  <2> QED
    BY <1>2, <2>1 DEF Injection, IsInjective
<1>4. IsFiniteSet((o + 1)..(o + size)) /\ Cardinality((o + 1)..(o + size)) = size
  BY FS_Interval
<1>5. IsFiniteSet(page) /\ Cardinality(page) <= size
  BY <1>3, <1>4, FS_Injection
<1> QED
  BY <1>5, FS_CardinalityType

(* A page that is empty has nothing after it. *)
LEMMA EmptyPage ==
    ASSUME NEW items, Orderly(items), NEW o \in Nat, NEW size \in Nat \ {0},
           Slice(items, o, size) = {}
    PROVE  \A i \in items : Rank(items, i) <= o
<1> SUFFICES ASSUME NEW i \in items, ~(Rank(items, i) <= o) PROVE FALSE
  OBVIOUS
<1>0. Rank(items, i) \in Nat /\ Rank(items, i) = Count(Ids(items), i.id)
  BY RankOf, RankIs
<1>1. i.id \in Ids(items) /\ Count(Ids(items), i.id) > o
  BY <1>0 DEF Ids
<1>2. PICK y \in Ids(items) : Count(Ids(items), y) = o + 1
  BY <1>1, IdsOf, NoGap
<1>3. PICK j \in items : j.id = y
  BY <1>2 DEF Ids
<1>4. Rank(items, j) = o + 1
  BY <1>2, <1>3, RankIs
<1>5. j \in Slice(items, o, size)
  BY <1>4 DEF Slice
<1> QED
  BY <1>5

(* A listing shows records with the id of their item. *)
LEMMA RecordsHaveIds ==
    ASSUME NEW t \in ClientTypes, NEW items, Orderly(items), NEW page \in SUBSET items
    PROVE  Ids(UNION {RecordsOf(t, i) : i \in page}) = Ids(page)
<1>1. ASSUME NEW i \in page PROVE /\ RecordsOf(t, i) # {}
                                  /\ \A rec \in RecordsOf(t, i) : rec.id = i.id
  <2>1. CASE t = "cloudflare"
    <3>1. cfRecordToRecord(i).id = i.id
      BY DEF cfRecordToRecord
    <3> QED
      BY <2>1, <3>1 DEF RecordsOf
  <2>2. CASE t = "alidns"
    <3>1. alidnsToRecord(i).id = i.id
      BY DEF alidnsToRecord
    <3> QED
      BY <2>2, <3>1 DEF RecordsOf
  <2>3. CASE t = "dnspod"
    <3>1. dnspodToRecord(i).id = i.id
      BY DEF dnspodToRecord
    <3> QED
      BY <2>3, <3>1 DEF RecordsOf
  <2>4. CASE t = "huaweidns"
    <3>1. i.values # {}
      BY DEF Orderly
    <3>2. hwRecordsetToRecords(i) # {}
      BY <3>1 DEF hwRecordsetToRecords
    <3>3. \A rec \in hwRecordsetToRecords(i) : rec.id = i.id
      BY DEF hwRecordsetToRecords
    <3> QED
      BY <2>4, <3>2, <3>3 DEF RecordsOf
  <2> QED
    BY <2>1, <2>2, <2>3, <2>4 DEF ClientTypes
<1> QED
  BY <1>1 DEF Ids

(* Whether the pages before a cursor had the item: its id is up to the     *)
(* marker, or its rank is up to the records the cursor stands for.         *)
Position(t, cursor) == IF t = "alidns" THEN cursor * PageSize ELSE cursor

Passed(t, items, cursor, i) ==
    IF t = "huaweidns" THEN i.id <= cursor ELSE Rank(items, i) <= Position(t, cursor)

(* A page is part of the zone, takes the cursor over its items only, and   *)
(* is the last one only when nothing is left.                              *)
Advances(t, items, cursor, page, more, next) ==
    /\ page \subseteq items
    /\ more => /\ next \in Nat /\ next > 0
               /\ \A i \in items : Passed(t, items, next, i)
                                   => Passed(t, items, cursor, i) \/ i \in page
    /\ ~more => \A i \in items : Passed(t, items, cursor, i) \/ i \in page

LEMMA PositionPages ==
    ASSUME NEW items, Orderly(items), NEW o \in Nat
    PROVE  LET page    == Slice(items, o, PageSize)
               fetched == o + Cardinality(page)
               more    == fetched < Cardinality(items) /\ page # {}
           IN  /\ page \subseteq items /\ fetched \in Nat /\ fetched <= o + PageSize
               /\ page # {} => fetched > 0
               /\ \A i \in items : Rank(items, i) <= o + PageSize
                                   => Rank(items, i) <= o \/ i \in page
               /\ ~more => \A i \in items : Rank(items, i) <= o \/ i \in page
<1> DEFINE page    == Slice(items, o, PageSize)
           fetched == o + Cardinality(page)
<1>0. PageSize \in Nat \ {0}
  BY PageAssumption
<1>1. page \subseteq items
  BY DEF Slice
<1>2. IsFiniteSet(page) /\ Cardinality(page) \in Nat /\ Cardinality(page) <= PageSize
  BY <1>0, PageFits
<1>3. page # {} => Cardinality(page) # 0
  BY <1>2, FS_EmptySet
<1>4. \A i \in items : Rank(items, i) \in Nat /\ Rank(items, i) <= Cardinality(Ids(items))
  BY RankOf
<1>5. \A i \in items : Rank(items, i) <= o + PageSize => Rank(items, i) <= o \/ i \in page
  BY <1>4 DEF Slice
<1>6. page = {} => \A i \in items : Rank(items, i) <= o
  BY <1>0, EmptyPage
<1>7. Cardinality(Ids(items)) <= Cardinality(items)
      /\ Cardinality(items) \in Nat /\ Cardinality(Ids(items)) \in Nat
  BY IdsOf
<1> HIDE DEF page
<1>8. ~(fetched < Cardinality(items)) =>
         \A i \in items : Rank(items, i) <= o + PageSize
  BY <1>0, <1>2, <1>4, <1>7
<1>9. fetched \in Nat /\ fetched <= o + PageSize /\ (page # {} => fetched > 0)
  BY <1>0, <1>2, <1>3
<1> HIDE DEF fetched
<1>10. ~(fetched < Cardinality(items) /\ page # {}) =>
          \A i \in items : Rank(items, i) <= o \/ i \in page
  BY <1>5, <1>6, <1>8
<1> QED
  BY <1>1, <1>5, <1>9, <1>10 DEF page, fetched

LastOf(page) == CHOOSE id \in Ids(page) : \A i \in page : i.id <= id

LEMMA MarkerPages ==
    ASSUME NEW items, Orderly(items), NEW m \in Nat
    PROVE  LET rest == {i \in items : i.id > m}
               page == Slice(rest, 0, PageSize)
               next == LastOf(page)
           IN  /\ page \subseteq items
               /\ page # {} => /\ next \in Nat /\ next > 0
                               /\ \A i \in items : i.id <= next => i.id <= m \/ i \in page
               /\ page = rest \/ page = {} => \A i \in items : i.id <= m \/ i \in page
<1> DEFINE rest == {i \in items : i.id > m}
           page == Slice(rest, 0, PageSize)
           next == LastOf(page)
<1>0. PageSize \in Nat \ {0} /\ \A i \in items : i.id \in Nat \ {0}
  BY PageAssumption DEF Orderly
<1>1. rest \in SUBSET items /\ \A i \in items : i.id <= m \/ i \in rest
  BY <1>0
<1>2. Orderly(rest)
  BY <1>1, FS_Subset DEF Orderly
<1> HIDE DEF rest
<1>3. page \subseteq rest
  BY DEF Slice
<1>4. \A i \in rest : Rank(rest, i) \in Nat /\ Rank(rest, i) >= 1
  BY <1>2, RankOf
<1>5. page = {} => rest = {}
  <2>1. page = {} => \A i \in rest : Rank(rest, i) <= 0
    BY <1>0, <1>2, EmptyPage
  <2> QED
    BY <1>4, <2>1
<1>6. ASSUME page # {}
      PROVE  next \in Nat /\ next > 0 /\ \A i \in items : i.id <= next => i.id <= m \/ i \in page
  <2>0. Ids(page) \in SUBSET Nat /\ Ids(page) # {} /\ Ids(page) \subseteq Ids(rest)
    BY <1>0, <1>1, <1>3, <1>6 DEF Ids
  <2>1. IsFiniteSet(Ids(page))
    BY <1>2, <2>0, IdsOf, FS_Subset
  <2>2. \E id \in Ids(page) : \A y \in Ids(page) : y <= id
    BY <2>0, <2>1, GreatestIn
  <2>3. next \in Ids(page) /\ \A i \in page : i.id <= next
    BY <2>2 DEF Ids, LastOf
  <2> HIDE DEF next
  <2>4. PICK top \in page : top.id = next
    BY <2>3 DEF Ids
  <2>5. top \in rest /\ Rank(rest, top) <= PageSize
    BY <1>0, <1>3, <2>4 DEF Slice
  <2>6. ASSUME NEW i \in rest, i.id <= next PROVE i \in page
    <3>1. i.id \in Ids(rest) /\ top.id \in Ids(rest)
      BY <2>5 DEF Ids
    <3>2. Count(Ids(rest), i.id) <= Count(Ids(rest), top.id)
      BY <1>2, <2>4, <2>6, <3>1, IdsOf, CountGrows
    <3>3. Rank(rest, i) <= Rank(rest, top)
      BY <3>2, RankIs
    <3>4. Rank(rest, i) <= PageSize
      BY <1>0, <1>4, <2>5, <3>3
    <3> QED
      BY <1>0, <1>4, <3>4 DEF Slice
  <2>7. next \in Nat /\ next > 0
    BY <1>0, <1>1, <2>4, <2>5
  <2> QED
    BY <1>1, <2>6, <2>7
<1> HIDE DEF page, next
<1>7. page = rest \/ page = {} => \A i \in items : i.id <= m \/ i \in page
  BY <1>1, <1>5
<1> QED
  BY <1>1, <1>3, <1>6, <1>7 DEF rest, page, next

(* ListRecords of the three clients that ask for more than one page. *)
LEMMA PagesAdvance ==
    ASSUME NEW t \in ClientTypes, t # "cloudflare", NEW items, Orderly(items),
           NEW cursor \in Nat
    PROVE  LET page == ListRecords(t, items, cursor)
           IN  Advances(t, items, cursor, page.items, page.more, page.cursor)
<1>0. PageSize \in Nat \ {0}
  BY PageAssumption
<1>1. CASE t = "alidns"
  <2> DEFINE o       == cursor * PageSize
             page    == Slice(items, o, PageSize)
             fetched == o + Cardinality(page)
             more    == fetched < Cardinality(items) /\ page # {}
  <2>1. ListRecords(t, items, cursor) = [items |-> page, cursor |-> cursor + 1, more |-> more]
    BY <1>1 DEF ListRecords, alidnsListRecords
  <2>2. o \in Nat /\ (cursor + 1) * PageSize = o + PageSize
    BY <1>0
  <2>3. /\ page \subseteq items
        /\ \A i \in items : Rank(items, i) <= o + PageSize
                            => Rank(items, i) <= o \/ i \in page
        /\ ~more => \A i \in items : Rank(items, i) <= o \/ i \in page
    BY <2>2, PositionPages
  <2>4. \A i : /\ Passed(t, items, cursor, i) <=> Rank(items, i) <= o
               /\ Passed(t, items, cursor + 1, i) <=> Rank(items, i) <= o + PageSize
    BY <1>1, <2>2 DEF Passed, Position
  <2> HIDE DEF o, page, more
  <2>5. Advances(t, items, cursor, page, more, cursor + 1)
    BY <2>3, <2>4 DEF Advances
  <2> QED
    BY <2>1, <2>5
<1>2. CASE t = "dnspod"
  <2> DEFINE page    == Slice(items, cursor, PageSize)
             fetched == cursor + Cardinality(page)
             more    == fetched < Cardinality(items) /\ page # {}
  <2>1. ListRecords(t, items, cursor) = [items |-> page, cursor |-> fetched, more |-> more]
    BY <1>2 DEF ListRecords, dnspodListRecords
  <2>3. /\ page \subseteq items /\ fetched \in Nat /\ fetched <= cursor + PageSize
        /\ page # {} => fetched > 0
        /\ \A i \in items : Rank(items, i) <= cursor + PageSize
                            => Rank(items, i) <= cursor \/ i \in page
        /\ ~more => \A i \in items : Rank(items, i) <= cursor \/ i \in page
    BY PositionPages
  <2>4. \A i : /\ Passed(t, items, cursor, i) <=> Rank(items, i) <= cursor
               /\ Passed(t, items, fetched, i) <=> Rank(items, i) <= fetched
    BY <1>2 DEF Passed, Position
  <2>5. \A i \in items : Rank(items, i) \in Nat
    BY RankOf
  <2>6. more => page # {}
    OBVIOUS
  <2> HIDE DEF page, more, fetched
  <2>7. \A i \in items : Rank(items, i) <= fetched => Rank(items, i) <= cursor + PageSize
    BY <1>0, <2>3, <2>5
  <2>8. Advances(t, items, cursor, page, more, fetched)
    BY <2>3, <2>4, <2>6, <2>7 DEF Advances
  <2> QED
    BY <2>1, <2>8
<1>3. CASE t = "huaweidns"
  <2> DEFINE rest == {i \in items : i.id > cursor}
             page == Slice(rest, 0, PageSize)
             last == LastOf(page)
             next == IF page = {} THEN cursor ELSE last
             more == page # rest /\ page # {}
  <2>1. ListRecords(t, items, cursor) = [items |-> page, more |-> more, cursor |-> next]
    BY <1>3 DEF ListRecords, hwListRecords, LastOf
  <2>2. /\ page \subseteq items
        /\ page # {} => /\ last \in Nat /\ last > 0
                        /\ \A i \in items : i.id <= last => i.id <= cursor \/ i \in page
        /\ page = rest \/ page = {} => \A i \in items : i.id <= cursor \/ i \in page
    BY MarkerPages
  <2>3. more => page # {} /\ next = last
    OBVIOUS
  <2>4. ~more => page = rest \/ page = {}
    OBVIOUS
  <2>5. \A c, i : Passed(t, items, c, i) <=> i.id <= c
    BY <1>3 DEF Passed
  <2> HIDE DEF rest, page, last, next, more
  <2>6. Advances(t, items, cursor, page, more, next)
    BY <2>2, <2>3, <2>4, <2>5 DEF Advances
  <2> QED
    BY <2>1, <2>6
<1> QED
  BY <1>1, <1>2, <1>3 DEF ClientTypes

(* At the start nothing is passed. *)
LEMMA NothingPassed ==
    ASSUME NEW t \in ClientTypes, NEW items, Orderly(items), NEW i \in items
    PROVE  ~Passed(t, items, 0, i)
<1>0. PageSize \in Nat \ {0} /\ i.id \in Nat \ {0}
  BY PageAssumption DEF Orderly
<1>1. Rank(items, i) \in Nat /\ Rank(items, i) >= 1
  BY RankOf
<1>2. Position(t, 0) = 0
  BY <1>0 DEF Position
<1> QED
  BY <1>0, <1>1, <1>2 DEF Passed

(* The only page of Cloudflare has a zone that fits into it. *)
LEMMA OnlyPage ==
    ASSUME NEW items, Orderly(items)
    PROVE  LET page == ListRecords("cloudflare", items, 0)
           IN  /\ ~page.more /\ page.items \subseteq items
               /\ Cardinality(Ids(items)) <= CloudflarePage => page.items = items
<1>0. CloudflarePage \in Nat /\ Cardinality(Ids(items)) \in Nat
  BY PageAssumption, IdsOf
<1>1. ListRecords("cloudflare", items, 0) =
         [items |-> Slice(items, 0, CloudflarePage), more |-> FALSE, cursor |-> 0]
  BY DEF ListRecords, cfListRecords
<1>2. ASSUME Cardinality(Ids(items)) <= CloudflarePage
      PROVE  Slice(items, 0, CloudflarePage) = items
  <2>1. \A i \in items : Rank(items, i) > 0 /\ Rank(items, i) <= 0 + CloudflarePage
    BY <1>0, <1>2, RankOf
  <2> QED
    BY <2>1 DEF Slice
<1>3. Slice(items, 0, CloudflarePage) \subseteq items
  BY DEF Slice
<1> QED
  BY <1>1, <1>2, <1>3

-----------------------------------------------------------------------------
(* Listings.  Between two pages every item that was there at the first one *)
(* is still listed, and is in what was read once its page has passed.      *)

Listed(s) ==
    IF s.op = "drift" THEN {i \in zones[s.client.type] : i.host = s.domain}
    ELSE zones[s.client.type]

Lost(s) == deleted[s.client.type]

(* No item was taken to another name while one name is listed. *)
Calm(s) == s.op = "drift" => renames = s.renames

(* Nothing was deleted, where that would shift the pages. *)
Steady(s) == Lost(s) = s.gone \/ s.client.type = "huaweidns"

Began(s) == s.gone \subseteq Lost(s) /\ s.renames \in Nat /\ s.renames <= renames

MidList(s) ==
    /\ Began(s) /\ s.client.type # "cloudflare"
    /\ Calm(s) => s.from \ Lost(s) \subseteq Ids(Listed(s))
    /\ Calm(s) /\ Steady(s) =>
          \A i \in Listed(s) :
             i.id \in s.from /\ Passed(s.client.type, Listed(s), s.cursor, i)
             => i.id \in Ids(s.got)

HasListed(s) ==
    /\ Began(s)
    /\ /\ Calm(s) /\ Steady(s)
       /\ s.client.type = "cloudflare" => Cardinality(s.from) <= CloudflarePage
       => s.from \ Lost(s) \subseteq Ids(s.got)

ListOf(s) ==
    s.op \in ListOps =>
       /\ s.pc = "list" =>
             /\ s.cursor \in Nat /\ (s.cursor = 0 => s.got = {})
             /\ s.cursor > 0 => MidList(s)
       /\ s.pc \in {"lookup", "write"} => HasListed(s)

ListInv == renames \in Nat /\ \A q \in Requests : ListOf(request[q])

LEMMA PartOrderly ==
    ASSUME NEW items, Orderly(items), NEW part \in SUBSET items
    PROVE  Orderly(part)
BY FS_Subset DEF Orderly

LEMMA ListedOrderly ==
    ASSUME ZoneInv, NEW s, s.client.type \in ClientTypes
    PROVE  Orderly(Listed(s))
<1>1. Listed(s) \in SUBSET zones[s.client.type]
  BY DEF Listed
<1>2. Orderly(zones[s.client.type])
  BY DEF ZoneInv, Orderly
<1> QED
  BY <1>1, <1>2, PartOrderly

(* The zones stay as they are. *)
LEMMA ListFrame ==
    ASSUME NEW s, ListOf(s), UNCHANGED <<zones, deleted, renames>>
    PROVE  ListOf(s)'
BY DEF ListOf, MidList, HasListed, Began, Steady, Calm, Lost, Listed

(* An item is changed, stored or taken away by another request. *)
LEMMA ListSwap ==
    ASSUME ZoneInv, ZoneInv', renames \in Nat, NEW s, ListOf(s),
           s.pc \in AtProvider => s.client.type \in ClientTypes,
           NEW t, NEW id, NEW items, Swaps(t, id, items)
    PROVE  ListOf(s)' /\ renames' \in Nat
<1>1. /\ renames' \in Nat /\ renames <= renames'
      /\ renames' = renames => ~Renamed(zones[t], items)
  BY DEF Swaps
<1>2. CASE s.op \notin ListOps \/ s.pc \notin {"list", "lookup", "write"}
  BY <1>1, <1>2 DEF ListOf
<1>3. CASE s.op \in ListOps /\ s.pc \in {"list", "lookup", "write"}
  <2> DEFINE u == s.client.type
  <2>0. u \in ClientTypes /\ t \in ClientTypes
    BY <1>3 DEF AtProvider, Swaps
  <2>1. Lost(s) \subseteq Lost(s)'
    BY <2>0, SwapFacts DEF Lost
  <2>2. Began(s) => Began(s)' /\ (Calm(s)' => Calm(s))
    BY <1>1, <2>1 DEF Began, Calm
  <2>3. Began(s) => (Steady(s)' => Steady(s))
    BY <2>1 DEF Began, Steady
  <2>4. HasListed(s) => HasListed(s)'
    BY <2>1, <2>2, <2>3 DEF HasListed
  <2>5. ASSUME Began(s), Calm(s)', NEW x \in Ids(Listed(s)), x \notin Lost(s)'
        PROVE  x \in Ids(Listed(s))'
    <3>1. PICK i \in Listed(s) : i.id = x
      BY <2>5 DEF Ids
    <3>2. i \in zones[u] /\ (s.op = "drift" => i.host = s.domain)
      BY <3>1 DEF Listed
    <3>3. PICK j \in zones'[u] : j.id = x /\ (s.op = "drift" => j.host = s.domain)
      <4>1. CASE u # t \/ x # id
        <5>1. i \in zones'[u]
          BY <2>0, <3>1, <3>2, <4>1, SwapFacts DEF Swaps
        <5> QED
          BY <3>1, <3>2, <5>1
      <4>2. CASE u = t /\ x = id
        <5>1. x \in Ids(zones[t])
          BY <3>1, <3>2, <4>2 DEF Ids
        <5>2. x \in Ids(items)
          BY <2>0, <2>5, <4>2, <5>1, SwapFacts DEF Lost
        <5>3. PICK j \in items : j.id = x
          BY <5>2 DEF Ids
        <5>4. s.op = "drift" => renames' = renames
          BY <1>1, <2>5 DEF Began, Calm
        <5>5. s.op = "drift" => i.host = j.host
          BY <1>1, <3>1, <3>2, <4>2, <5>3, <5>4 DEF Renamed
        <5> QED
          BY <2>0, <3>2, <4>2, <5>3, <5>5, SwapFacts
      <4> QED
        BY <4>1, <4>2
    <3>4. j \in Listed(s)'
      BY <3>3 DEF Listed
    <3> QED
      BY <3>3, <3>4 DEF Ids
  <2>6. ASSUME MidList(s), s.cursor \in Nat PROVE MidList(s)'
    <3>1. Began(s) /\ Began(s)' /\ s.client.type # "cloudflare"
      BY <2>2, <2>6 DEF MidList
    <3>2. ASSUME Calm(s)' PROVE (s.from \ Lost(s) \subseteq Ids(Listed(s)))'
      <4>1. Calm(s)
        BY <2>2, <3>1, <3>2
      <4>2. s.from \ Lost(s) \subseteq Ids(Listed(s))
        BY <2>6, <4>1 DEF MidList
      <4> QED
        BY <2>1, <2>5, <3>1, <3>2, <4>2
    <3>3. ASSUME Calm(s)', Steady(s)', NEW i \in Listed(s)', i.id \in s.from,
                 Passed(s.client.type, Listed(s)', s.cursor, i)
          PROVE  i.id \in Ids(s.got)
      <4>1. Calm(s) /\ Steady(s)
        BY <2>2, <2>3, <3>1, <3>3
      <4>2. i.id \notin Lost(s)'
        <5>1. i \in zones'[u]
          BY <3>3 DEF Listed
        <5> QED
          BY <2>0, <5>1 DEF ZoneInv, Lost
      <4>3. i.id \in Ids(Listed(s))
        BY <2>1, <2>6, <3>3, <4>1, <4>2 DEF MidList
      <4>4. PICK j \in Listed(s) : j.id = i.id
        BY <4>3 DEF Ids
      <4>5. Passed(s.client.type, Listed(s), s.cursor, j)
        <5>1. CASE u = "huaweidns"
          BY <3>3, <4>4, <5>1 DEF Passed
        <5>2. CASE u # "huaweidns"
          <6>1. Lost(s)' = Lost(s)
            BY <2>1, <3>1, <3>3, <5>2 DEF Steady, Began
          <6>2. \A x \in Ids(Listed(s)) : x \notin Lost(s)
            BY <2>0 DEF Listed, Ids, Lost, ZoneInv
          <6>3. Ids(Listed(s)) \subseteq Ids(Listed(s)')
            BY <2>5, <3>1, <3>3, <6>1, <6>2
          <6>4. PICK A, B : A = Listed(s) /\ B = Listed(s)'
            OBVIOUS
          <6>5. Orderly(A) /\ Orderly(B)
            <7>1. Orderly(zones'[u])
              BY <2>0 DEF ZoneInv, Orderly
            <7>2. B \in SUBSET zones'[u]
              BY <6>4 DEF Listed
            <7> QED
              BY <2>0, <6>4, <7>1, <7>2, PartOrderly, ListedOrderly
          <6>6. Count(Ids(A), j.id) <= Count(Ids(B), j.id)
            BY <6>3, <6>4, <6>5, IdsOf, CountOfMore
          <6>7. Rank(A, j) <= Rank(B, i)
            BY <4>4, <6>6, RankIs
          <6>8. Rank(B, i) <= Position(u, s.cursor)
            BY <3>3, <5>2, <6>4 DEF Passed
          <6>9. Position(u, s.cursor) \in Nat
            BY <2>6, PageAssumption DEF Position
          <6>10. Rank(A, j) \in Nat /\ Rank(B, i) \in Nat
            BY <3>3, <4>4, <6>4, <6>5, RankOf
          <6>11. Rank(A, j) <= Position(u, s.cursor)
            BY <6>7, <6>8, <6>9, <6>10
          <6> QED
            BY <5>2, <6>4, <6>11 DEF Passed
        <5> QED
          BY <5>1, <5>2
      <4> QED
        BY <2>6, <3>3, <4>1, <4>4, <4>5 DEF MidList
    <3> QED
      BY <3>1, <3>2, <3>3 DEF MidList
  <2> QED
    BY <1>1, <1>3, <2>4, <2>6 DEF ListOf
<1> QED
  BY <1>2, <1>3

(* The request after a page. *)
AfterPage(s, n) ==
    LET items == Listed(s)
        page  == ListRecords(s.client.type, items, s.cursor)
        first == s.got = {} /\ s.cursor = 0
    IN  /\ n.op = s.op /\ n.client = s.client /\ n.domain = s.domain
        /\ n.pc = IF page.more THEN "list" ELSE IF s.op = "drift" THEN "lookup" ELSE "write"
        /\ n.cursor = page.cursor
        /\ n.got = s.got \cup UNION {RecordsOf(s.client.type, i) : i \in page.items}
        /\ n.from = IF first THEN Ids(items) ELSE s.from
        /\ n.gone = IF first THEN Lost(s) ELSE s.gone
        /\ n.renames = IF first THEN renames ELSE s.renames

LEMMA PageIsTaken ==
    ASSUME RequestInv, NEW q \in Requests, NEW n, Pages(q, n), NEW s, s = request[q]
    PROVE  AfterPage(s, n)
<1>1. /\ Sound(s) /\ s.pc = "list" /\ s.op \in ListOps /\ request'[q] = n /\ ListPage(q)
      /\ n.pc \in {"list", "lookup", "write"}
  BY OpsAtIs DEF Pages, Moves, RequestInv, Sound
<1>2. ~Fail(q)
  <2>1. Fail(q) => request'[q] = Idle
    BY <1>1 DEF Fail, AfterFailure, ListOps, RequestInv
  <2> QED
    BY <1>1, <2>1, IdleIs
<1> DEFINE items == Listed(s)
           page   == ListRecords(s.client.type, items, s.cursor)
           first  == s.got = {} /\ s.cursor = 0
           pc     == IF page.more THEN "list" ELSE IF s.op = "drift" THEN "lookup" ELSE "write"
           cursor == page.cursor
           got    == s.got \cup UNION {RecordsOf(s.client.type, i) : i \in page.items}
           from   == IF first THEN Ids(items) ELSE s.from
           gone   == IF first THEN Lost(s) ELSE s.gone
           count  == IF first THEN renames ELSE s.renames
<1>3. request' = [request EXCEPT ![q] =
           [s EXCEPT !.pc = pc, !.cursor = cursor, !.got = got, !.from = from,
                     !.gone = gone, !.renames = count]]
  <2>1. items = IF s.op = "drift" THEN {i \in Items(q) : i.host = s.domain} ELSE Items(q)
    BY DEF Items, Listed
  <2>2. deleted[s.client.type] = Lost(s)
    BY DEF Lost
  <2> HIDE DEF items
  <2> QED
    BY <1>1, <1>2, <2>1, <2>2 DEF ListPage
<1> HIDE DEF pc, cursor, got, from, gone, count
<1>4. n = [s EXCEPT !.pc = pc, !.cursor = cursor, !.got = got, !.from = from,
                    !.gone = gone, !.renames = count]
  BY <1>1, <1>3 DEF RequestInv
<1>5. /\ n.op = s.op /\ n.client = s.client /\ n.domain = s.domain /\ n.pc = pc
      /\ n.cursor = cursor /\ n.got = got /\ n.from = from /\ n.gone = gone
      /\ n.renames = count
  BY <1>1, <1>4 DEF Sound, Fields
<1> QED
  BY <1>5 DEF AfterPage, pc, cursor, got, from, gone, count

LEMMA ListPageOf ==
    ASSUME ZoneInv, renames \in Nat, NEW s, NEW n, ListOf(s), AfterPage(s, n),
           s.pc = "list", s.op \in ListOps, s.client.type \in ClientTypes
    PROVE  ListOf(n)
<1> DEFINE t     == s.client.type
           items == Listed(s)
           page  == ListRecords(t, items, s.cursor)
<1>1. s.cursor \in Nat /\ (s.cursor = 0 => s.got = {}) /\ (s.cursor > 0 => MidList(s))
  BY DEF ListOf
<1>2. Orderly(items)
  BY ListedOrderly
<1>3. /\ n.op = s.op /\ n.client = s.client /\ n.domain = s.domain
      /\ n.pc = IF page.more THEN "list" ELSE IF s.op = "drift" THEN "lookup" ELSE "write"
      /\ n.cursor = page.cursor
      /\ n.got = s.got \cup UNION {RecordsOf(t, i) : i \in page.items}
  BY DEF AfterPage
<1>4. /\ Listed(n) = items /\ Lost(n) = Lost(s)
  BY <1>3 DEF Listed, Lost
<1>5. /\ Began(n)
      /\ Calm(n) => n.from \ Lost(n) \subseteq Ids(items)
      /\ t # "cloudflare" /\ Calm(n) /\ Steady(n) =>
            \A i \in items : i.id \in n.from /\ Passed(t, items, s.cursor, i)
                             => i.id \in Ids(s.got)
  <2>1. CASE s.cursor = 0
    <3>0. n.from = Ids(items) /\ n.gone = Lost(s) /\ n.renames = renames
      BY <1>1, <2>1 DEF AfterPage
    <3>1. Began(n)
      BY <1>4, <3>0 DEF Began
    <3> QED
      BY <1>2, <2>1, <3>0, <3>1, NothingPassed
  <2>2. CASE s.cursor > 0
    <3>0. n.from = s.from /\ n.gone = s.gone /\ n.renames = s.renames /\ MidList(s)
      BY <1>1, <2>2 DEF AfterPage
    <3>1. Began(n) /\ (Calm(n) => Calm(s)) /\ (Steady(n) => Steady(s))
      BY <1>3, <1>4, <3>0 DEF MidList, Began, Calm, Steady
    <3> QED
      BY <1>4, <3>0, <3>1 DEF MidList
  <2> QED
    BY <1>1, <2>1, <2>2
<1>6. page.items \subseteq items => Ids(n.got) = Ids(s.got) \cup Ids(page.items)
  <2>1. page.items \subseteq items => Ids(UNION {RecordsOf(t, i) : i \in page.items}) = Ids(page.items)
    BY <1>2, RecordsHaveIds
  <2>2. Ids(n.got) = Ids(s.got) \cup Ids(UNION {RecordsOf(t, i) : i \in page.items})
    BY <1>3 DEF Ids
  <2> QED
    BY <2>1, <2>2
<1> HIDE DEF items, page
<1>7. CASE t = "cloudflare"
  <2>1. s.cursor = 0
    BY <1>1, <1>7 DEF MidList
  <2>2. n.from = Ids(items)
    BY <1>1, <2>1 DEF AfterPage, items
  <2>3. /\ ~page.more /\ page.items \subseteq items
        /\ Cardinality(Ids(items)) <= CloudflarePage => page.items = items
    BY <1>2, <1>7, <2>1, OnlyPage DEF page
  <2>4. Cardinality(n.from) <= CloudflarePage => n.from \ Lost(n) \subseteq Ids(n.got)
    BY <1>6, <2>2, <2>3
  <2>5. HasListed(n) /\ n.pc # "list"
    BY <1>3, <1>5, <1>7, <2>3, <2>4 DEF HasListed
  <2> QED
    BY <2>5 DEF ListOf
<1>8. CASE t # "cloudflare"
  <2>1. Advances(t, items, s.cursor, page.items, page.more, page.cursor)
    BY <1>1, <1>2, <1>8, PagesAdvance DEF page
  <2>2. Ids(n.got) = Ids(s.got) \cup Ids(page.items)
    BY <1>6, <2>1 DEF Advances
  <2>3. CASE page.more
    <3>1. n.cursor \in Nat /\ n.cursor > 0 /\ n.pc = "list"
      BY <1>3, <2>1, <2>3 DEF Advances
    <3>2. ASSUME Calm(n), Steady(n), NEW i \in items, i.id \in n.from,
                 Passed(t, items, n.cursor, i)
          PROVE  i.id \in Ids(n.got)
      <4>1. Passed(t, items, s.cursor, i) \/ i \in page.items
        BY <1>3, <2>1, <2>3, <3>2 DEF Advances
      <4> QED
        BY <1>5, <1>8, <2>2, <3>2, <4>1 DEF Ids
    <3>3. MidList(n)
      BY <1>3, <1>4, <1>5, <1>8, <3>2 DEF MidList
    <3> QED
      BY <3>1, <3>3 DEF ListOf
  <2>4. CASE ~page.more
    <3>1. n.pc # "list"
      BY <1>3, <2>4
    <3>2. ASSUME Calm(n), Steady(n), NEW x \in n.from \ Lost(n)
          PROVE  x \in Ids(n.got)
      <4>1. PICK i \in items : i.id = x
        BY <1>5, <3>2 DEF Ids
      <4>2. Passed(t, items, s.cursor, i) \/ i \in page.items
        BY <2>1, <2>4 DEF Advances
      <4> QED
        BY <1>5, <1>8, <2>2, <3>2, <4>1, <4>2 DEF Ids
    <3>3. HasListed(n)
      BY <1>5, <3>2 DEF HasListed
    <3> QED
      BY <3>1, <3>3 DEF ListOf
  <2> QED
    BY <2>3, <2>4
<1> QED
  BY <1>7, <1>8

LEMMA ListMove ==
    ASSUME RequestInv, NEW q \in Requests, NEW n, Moves(q, n), ListOf(n)', renames' \in Nat,
           \A k \in Requests \ {q} : \A s : s = request[k] => ListOf(s)'
    PROVE  ListInv'
<1>1. request'[q] = n /\ \A k \in Requests \ {q} : request'[k] = request[k]
  BY DEF RequestInv, Moves
<1>2. \A k \in Requests : \A s : s = request'[k] => ListOf(s)'
  BY <1>1
<1>3. \A k \in Requests : ListOf(request[k])'
  <2> TAKE k \in Requests
  <2>1. PICK s : s = request'[k]
    OBVIOUS
  <2>2. ListOf(s)'
    BY <1>2, <2>1
  <2> QED
    BY <2>1, <2>2 DEF ListOf, MidList, HasListed, Began, Steady, Calm, Lost, Listed
<1> QED
  BY <1>3 DEF ListInv

(* A request that has no listing. *)
LEMMA NoListing ==
    ASSUME NEW s, s.op \notin ListOps \/ s.pc \notin {"list", "lookup", "write"}
    PROVE  ListOf(s)'
BY DEF ListOf

LEMMA ListStill ==
    ASSUME RequestInv, ZoneInv, ListInv, NEW q \in Requests, NEW n,
           Rests(q, n) \/ Begins(q, n) \/ Finds(q, n) \/ Pages(q, n) \/ Writes(q, n)
    PROVE  ListInv'
<1>1. Moves(q, n) /\ UNCHANGED <<zones, deleted, renames>> /\ renames \in Nat
  BY DEF Rests, Begins, Finds, Pages, Writes, zoneVars, itemVars, ListInv
<1>2. ASSUME NEW k \in Requests, NEW s, s = request[k] PROVE ListOf(s)'
  <2>1. ListOf(s)
    BY <1>2 DEF ListInv
  <2> QED
    BY <1>1, <2>1, ListFrame
<1>3. PICK s : s = request[q] /\ ListOf(s) /\ Sound(s)
  BY DEF ListInv, RequestInv
<1>4. ListOf(n)'
  <2>1. CASE Rests(q, n) \/ Writes(q, n)
    BY <2>1, NoListing DEF Rests, Writes, AtProvider
  <2>2. CASE Begins(q, n)
    <3>1. n.pc \in {"list", "call"} /\ (n.pc = "list" => n.cursor = 0 /\ n.got = {})
      BY <2>2 DEF Begins
    <3>2. n.pc = "list" => n.cursor \in Nat /\ ~(n.cursor > 0)
      BY <3>1
    <3>3. ListOf(n)
      BY <3>1, <3>2, Zenon DEF ListOf
    <3> QED
      BY <1>1, <3>3, ListFrame
  <2>3. CASE Finds(q, n)
    <3>1. s.pc \in {"list", "call"} /\ n = [s EXCEPT !.known = TRUE]
      BY <1>3, <2>3 DEF Finds
    <3>2. /\ n.pc = s.pc /\ n.op = s.op /\ n.cursor = s.cursor /\ n.got = s.got
          /\ n.client = s.client /\ n.domain = s.domain /\ n.from = s.from
          /\ n.gone = s.gone /\ n.renames = s.renames
      BY <1>3, <3>1 DEF Sound, Fields
    <3>3. /\ Listed(n) = Listed(s) /\ Lost(n) = Lost(s) /\ (Calm(n) <=> Calm(s))
          /\ (Steady(n) <=> Steady(s)) /\ (Began(n) <=> Began(s))
      BY <3>2 DEF Began, Steady, Calm, Lost, Listed
    <3>4. MidList(s) => MidList(n)
      BY <3>2, <3>3 DEF MidList
    <3>5. ListOf(n)
      BY <1>3, <3>1, <3>2, <3>4 DEF ListOf
    <3> QED
      BY <1>1, <3>5, ListFrame
  <2>4. CASE Pages(q, n)
    <3>1. s.pc = "list" /\ s.op \in ListOps /\ s.client.type \in ClientTypes
      BY <1>3, <2>4, OpsAtIs DEF Pages, Sound, AtProvider
    <3>2. AfterPage(s, n)
      BY <1>3, <2>4, PageIsTaken
    <3>3. ListOf(n)
      BY <1>1, <1>3, <3>1, <3>2, ListPageOf
    <3> QED
      BY <1>1, <3>3, ListFrame
  <2> QED
    BY <2>1, <2>2, <2>3, <2>4
<1> QED
  BY <1>1, <1>2, <1>4, ListMove

LEMMA ListChanges ==
    ASSUME RequestInv, ZoneInv, ZoneInv', ListInv, NEW q \in Requests, NEW n, Changes(q, n)
    PROVE  ListInv'
<1>1. PICK id, items, touched :
         /\ Moves(q, n) /\ request[q].pc = "call"
         /\ Puts(q, id, items) \/ Takes(q, id, items)
         /\ ToWrite(q, n, id, items) \/ OneMore(q, n, id) \/ Leaves(q, n, id)
         /\ Change(q, items, id, touched)
  BY DEF Changes
<1>2. PICK t : t = request[q].client.type
  OBVIOUS
<1>3. Swaps(t, id, items)
  BY <1>1, <1>2, ChangeSwaps
<1>4. ASSUME NEW k \in Requests, NEW s, s = request[k] PROVE ListOf(s)' /\ renames' \in Nat
  <2>1. ListOf(s) /\ renames \in Nat /\ (s.pc \in AtProvider => s.client.type \in ClientTypes)
    BY <1>4 DEF ListInv, RequestInv, Sound
  <2> QED
    BY <1>3, <2>1, ListSwap
<1>5. n.op \notin ListOps \/ n.pc \notin {"list", "lookup", "write"}
  <2>1. PICK s : s = request[q] /\ Sound(s)
    BY DEF RequestInv
  <2>2. ToWrite(q, n, id, items) => n.op \in CreateOps \cup {"update"}
    <3>1. \A back : [s EXCEPT !.pc = "write", !.rec = back].op = s.op
      BY <2>1 DEF Sound, Fields
    <3> QED
      BY <2>1, <3>1 DEF ToWrite
  <2>3. OneMore(q, n, id) => n.op \in {"delete", "batch"}
    BY DEF OneMore
  <2>4. Leaves(q, n, id) => n.pc \notin AtProvider
    BY DEF Leaves
  <2> QED
    BY <1>1, <2>2, <2>3, <2>4 DEF CreateOps, ListOps, AtProvider
<1>6. ListOf(n)'
  BY <1>5, NoListing
<1> QED
  BY <1>1, <1>4, <1>6, ListMove

LEMMA ListStep ==
    ASSUME DnsInv, ListInv, [Next]_vars
    PROVE  ListInv'
<1>0. RequestInv /\ ZoneInv /\ RowInv /\ PendingInv /\ ZoneInv'
  BY ZoneStep DEF DnsInv
<1>1. CASE UNCHANGED <<zoneVars, request>>
  <2>1. ASSUME NEW k \in Requests PROVE ListOf(request[k])'
    <3>1. PICK s : s = request[k] /\ ListOf(s)
      BY DEF ListInv
    <3>2. ListOf(s)'
      BY <1>1, <3>1, ListFrame DEF zoneVars, itemVars
    <3> QED
      BY <1>1, <3>1, <3>2
         DEF ListOf, MidList, HasListed, Began, Steady, Calm, Lost, Listed
  <2> QED
    BY <1>1, <2>1 DEF ListInv, zoneVars, itemVars
<1>2. CASE Next
  BY <1>0, <1>1, <1>2, Kinds, ListStill, ListChanges DEF Kind, Elsewhere
<1>3. CASE UNCHANGED vars
  BY <1>1, <1>3 DEF vars
<1> QED
  BY <1>2, <1>3

LEMMA ListInit == Init => ListInv
<1> SUFFICES ASSUME Init PROVE ListInv
  OBVIOUS
<1>1. \A q \in Requests : request[q].pc = ""
  BY IdleIs DEF Init
<1> QED
  BY <1>1 DEF Init, ListInv, ListOf

LEMMA ListMissesNothing ==
    ASSUME RequestInv, ListInv
    PROVE  NothingMissed
<1> SUFFICES ASSUME NEW q \in Requests, NEW s, s = request[q],
                    s.pc \in {"lookup", "write"}, s.op \in {"sync", "drift"},
                    deleted[s.client.type] = s.gone \/ s.client.type = "huaweidns",
                    s.op = "drift" => renames = s.renames,
                    s.client.type = "cloudflare" => Cardinality(s.from) <= CloudflarePage
             PROVE  s.from \ deleted[s.client.type] \subseteq Ids(s.got)
  BY DEF NothingMissed
<1>1. HasListed(s)
  BY DEF ListInv, ListOf, ListOps
<1> QED
  BY <1>1 DEF HasListed, Calm, Steady, Lost

(* A listing that has come to its end has every item that was in the zone  *)
(* from its first page to its last, however the pages and the changes of   *)
(* other requests interleave, and whatever the size of a page: by marker   *)
(* always, by position unless an item was deleted, on one page if the zone *)
(* fits (ListRecords of the four clients).                                 *)
THEOREM ListingsMissNothing == Spec => []NothingMissed
<1>1. Init => DnsInv /\ ListInv
  BY DnsInit, ListInit
<1>2. DnsInv /\ ListInv /\ [Next]_vars => DnsInv' /\ ListInv'
  BY DnsStep, ListStep
<1>3. DnsInv /\ ListInv => NothingMissed
  BY ListMissesNothing DEF DnsInv
<1> QED
  BY <1>1, <1>2, <1>3, PTL DEF Spec

=============================================================================
