----------------------------- MODULE DnsClients -----------------------------
(***************************************************************************)
(* The four clients of pkg/provider/dns.  A client turns a call of the     *)
(* Provider interface into one or more API calls on a zone and turns the   *)
(* answer into records or an error.                                        *)
(*                                                                         *)
(* A zone is a set of items [id, host, type, values, prio].  Only a        *)
(* recordset of Huawei has more than one value.  A content is a value and  *)
(* the way it is written: plain, in quotes, or with a trailing dot.  The   *)
(* name of a record is a host, written in full or without the zone.        *)
(* TTLs, the proxied flag and signatures are left out: they pass through.  *)
(***************************************************************************)
EXTENDS Integers, FiniteSets

CONSTANTS
    PageSize,      \* alidnsPageSize, dnspodPageLimit, hwPageLimit
    CloudflarePage \* per_page of Cloudflare, which is asked for one page

ASSUME PageAssumption ==
    PageSize \in Nat \ {0} /\ CloudflarePage \in Nat \ {0}

(* A record as the callers know it. *)
Records ==
    [id : Nat, type : STRING, name : [host : STRING, full : BOOLEAN],
     content : [v : STRING, form : {"plain", "quoted", "dotted"}], prio : Nat]

ClientTypes == {"cloudflare", "alidns", "dnspod", "huaweidns"}

(* Why an API refuses a call.  "" is a call that is carried out. *)
Reasons == {"", "auth", "throttle", "norecord", "duplicate", "nozone",
            "outside", "broken"}

(* The HTTP status and the error code each API says it with. *)
Says(type, reason) ==
    LET status == CASE reason = ""         -> 200
                    [] reason = "auth"     -> 403
                    [] reason = "throttle" -> 429
                    [] reason \in {"norecord", "nozone"} -> 404
                    [] reason = "broken"   -> 500
                    [] OTHER               -> 400
    IN  CASE type = "cloudflare" -> [http |-> status, code |-> reason]
          [] type = "alidns"     ->
               IF reason \in {"", "broken"} THEN [http |-> status, code |-> ""]
               ELSE [http |-> 400, code |-> reason]
          [] type = "dnspod"     ->
               IF reason = "broken" THEN [http |-> 500, code |-> ""]
               ELSE [http |-> 200, code |-> reason]
          [] type = "huaweidns"  ->
               CASE reason = "duplicate" -> [http |-> 409, code |-> ""]
                 [] reason \in {"norecord", "nozone"} -> [http |-> 404, code |-> reason]
                 [] OTHER -> [http |-> status, code |-> ""]

-----------------------------------------------------------------------------
(* How an answer becomes an error.                                         *)

cfCheckStatus(answer) ==
    CASE answer.http < 400   -> ""
      [] answer.http = 403   -> "ErrUnauthorized"
      [] answer.http = 404   -> "ErrRecordNotFound"
      [] answer.http = 429   -> "ErrRateLimitExceeded"
      [] OTHER               -> "error"

(* A record that exists already is reported as not found. *)
alidnsMapCode(code) ==
    CASE code = "auth"                     -> "ErrUnauthorized"
      [] code \in {"norecord", "duplicate"} -> "ErrRecordNotFound"
      [] code = "nozone"                   -> "ErrZoneNotFound"
      [] code = "throttle"                 -> "ErrRateLimitExceeded"
      [] OTHER                             -> "error"

alidnsCheckStatus(answer) ==
    IF answer.http = 404 THEN "ErrRecordNotFound"
    ELSE IF answer.http = 429 THEN "ErrRateLimitExceeded"
    ELSE IF answer.code # "" THEN alidnsMapCode(answer.code)
    ELSE IF answer.http = 200 THEN ""
    ELSE IF answer.http = 403 THEN "ErrUnauthorized" ELSE "error"

dnspodCheckHTTP(answer) ==
    CASE answer.http = 200 -> ""
      [] answer.http = 403 -> "ErrUnauthorized"
      [] answer.http = 429 -> "ErrRateLimitExceeded"
      [] OTHER             -> "error"

dnspodMapCode(code) ==
    CASE code = "auth"      -> "ErrUnauthorized"
      [] code = "norecord"  -> "ErrRecordNotFound"
      [] code = "nozone"    -> "ErrZoneNotFound"
      [] code = "throttle"  -> "ErrRateLimitExceeded"
      [] code = "duplicate" -> "ErrRecordAlreadyExists"
      [] OTHER              -> "error"

hwMapCode(code) ==
    CASE code = "auth"      -> "ErrUnauthorized"
      [] code = "norecord"  -> "ErrRecordNotFound"
      [] code = "nozone"    -> "ErrZoneNotFound"
      [] code = "throttle"  -> "ErrRateLimitExceeded"
      [] code = "duplicate" -> "ErrRecordAlreadyExists"
      [] OTHER              -> "error"

hwCheckHTTP(answer) ==
    IF answer.http \in {200, 202, 204} THEN ""
    ELSE IF answer.code # "" THEN hwMapCode(answer.code)
    ELSE CASE answer.http = 403 -> "ErrUnauthorized"
           [] answer.http = 404 -> "ErrRecordNotFound"
           [] answer.http = 409 -> "ErrRecordAlreadyExists"
           [] answer.http = 429 -> "ErrRateLimitExceeded"
           [] OTHER             -> "error"

(* doRequest, call and doJSON: one API call.  An answer that does not      *)
(* arrive is an error too, whatever became of the call.                    *)
cfDoRequest(answer)     == cfCheckStatus(answer)
alidnsDoRequest(answer) == alidnsCheckStatus(answer)

dnspodCall(answer) ==
    IF dnspodCheckHTTP(answer) # "" THEN dnspodCheckHTTP(answer)
    ELSE IF answer.code # "" THEN dnspodMapCode(answer.code) ELSE ""

hwDoJSON(answer) == hwCheckHTTP(answer)

ErrorOf(type, reason) ==
    LET answer == Says(type, reason)
    IN  CASE type = "cloudflare" -> cfDoRequest(answer)
          [] type = "alidns"     -> alidnsDoRequest(answer)
          [] type = "dnspod"     -> dnspodCall(answer)
          [] type = "huaweidns"  -> hwDoJSON(answer)

-----------------------------------------------------------------------------
(* Constructors.  A row of dns_providers has a type, a zone (the zone_id   *)
(* of Cloudflare, the domain_name of the others: an id, a name, a name the *)
(* account does not have, or nothing) and credentials, or none.            *)

NewCloudflareProvider(row) ==
    IF row.zone = "" THEN "ErrMissingConfig"
    ELSE IF ~row.creds THEN "ErrMissingCredentials" ELSE ""

NewAlidnsProvider(row) ==
    IF row.zone = "" THEN "ErrMissingConfig"
    ELSE IF ~row.creds THEN "ErrMissingCredentials" ELSE ""

NewDNSPodProvider(row) ==
    IF row.zone = "" THEN "ErrMissingConfig"
    ELSE IF ~row.creds THEN "ErrMissingCredentials" ELSE ""

NewHuaweiDNSProvider(row) ==
    IF row.zone = "" THEN "ErrMissingConfig"
    ELSE IF ~row.creds THEN "ErrMissingCredentials" ELSE ""

(* Get: the factory registered for the type. *)
Get(row) ==
    CASE row.type = "cloudflare" -> NewCloudflareProvider(row)
      [] row.type = "alidns"     -> NewAlidnsProvider(row)
      [] row.type = "dnspod"     -> NewDNSPodProvider(row)
      [] row.type = "huaweidns"  -> NewHuaweiDNSProvider(row)
      [] OTHER                   -> "ErrProviderNotRegistered"

(* lookupZoneByName: the account has the zone, or not. *)
cfLookupZoneByName(zone) == IF zone = "unknown" THEN "ErrZoneNotFound" ELSE ""
hwLookupZoneByName(zone) == IF zone = "unknown" THEN "ErrZoneNotFound" ELSE ""

cfIsZoneID(zone) == zone = "id"

(* The call that must come before the first one on the zone, if any.  The  *)
(* id it returns is kept for an hour, in a client that lives for one       *)
(* request.                                                                *)
cfResolveZone(row, known) == ~known /\ ~cfIsZoneID(row.zone)
hwResolveZoneID(row, known) == ~known

NeedsLookup(row, known) ==
    \/ row.type = "cloudflare" /\ cfResolveZone(row, known)
    \/ row.type = "huaweidns" /\ hwResolveZoneID(row, known)

LookupZoneByName(row) ==
    IF row.type = "cloudflare" THEN cfLookupZoneByName(row.zone)
    ELSE hwLookupZoneByName(row.zone)

(* alidns and dnspod name the zone in every call. *)
NoSuchZone(row) == row.type \in {"alidns", "dnspod"} /\ row.zone = "unknown"

-----------------------------------------------------------------------------
(* Records on the wire.                                                    *)

Plain(content)  == [content EXCEPT !.form = "plain"]

TrimQuotes(content) == IF content.form = "quoted" THEN Plain(content) ELSE content
TrimDot(content)    == IF content.form = "dotted" THEN Plain(content) ELSE content

(* What SRV and CAA records are built from, the field Extra, is set by no  *)
(* caller: the value that is sent is empty.                                *)
Empty == [v |-> "", form |-> "plain"]

rrFromName(name)  == name.host
nameFromRR(rr)    == [host |-> rr, full |-> TRUE]

hwFQDN(content)     == [content EXCEPT !.form = "dotted"]
hwMXValue(content)  == hwFQDN(content)

cfBuildRequest(rec) == IF rec.type \in {"SRV", "CAA"} THEN Empty ELSE rec.content

alidnsBuildValue(rec) ==
    CASE rec.type = "TXT" -> TrimQuotes(rec.content)
      [] rec.type = "SRV" -> Empty
      [] OTHER            -> rec.content

hwRecordValue(rec) ==
    CASE rec.type = "MX"              -> hwMXValue(rec.content)
      [] rec.type \in {"CNAME", "NS"} -> hwFQDN(rec.content)
      [] OTHER                        -> rec.content

OnlyValue(item) == CHOOSE v \in item.values : TRUE

cfRecordToRecord(item) ==
    [id |-> item.id, type |-> item.type, name |-> nameFromRR(item.host),
     content |-> OnlyValue(item), prio |-> item.prio]

alidnsToRecord(item) ==
    [id |-> item.id, type |-> item.type, name |-> nameFromRR(item.host),
     content |-> IF item.type = "TXT" THEN TrimQuotes(OnlyValue(item))
                 ELSE OnlyValue(item),
     prio |-> item.prio]

dnspodToRecord(item) ==
    [id |-> item.id, type |-> item.type, name |-> nameFromRR(item.host),
     content |-> OnlyValue(item),
     prio |-> IF item.type = "MX" THEN item.prio ELSE 0]

hwRecordName(item) == [host |-> item.host, full |-> TRUE]

(* One record per value, all with the id of the recordset. *)
hwRecordsetToRecords(item) ==
    {[id |-> item.id, type |-> item.type, name |-> hwRecordName(item),
      content |-> IF item.type = "MX" THEN TrimDot(v) ELSE v,
      prio |-> IF item.type = "MX" THEN item.prio ELSE 0] : v \in item.values}

RecordsOf(type, item) ==
    CASE type = "cloudflare" -> {cfRecordToRecord(item)}
      [] type = "alidns"     -> {alidnsToRecord(item)}
      [] type = "dnspod"     -> {dnspodToRecord(item)}
      [] type = "huaweidns"  -> hwRecordsetToRecords(item)

-----------------------------------------------------------------------------
(* ListRecords, one call of the API at a time.  A zone is listed in the    *)
(* order of its ids.  A page is the items it holds and whether the client  *)
(* asks for another.                                                       *)

Ids(items) == {i.id : i \in items}

Rank(items, item) == Cardinality({id \in Ids(items) : id <= item.id})

Slice(items, offset, size) ==
    {i \in items : Rank(items, i) > offset /\ Rank(items, i) <= offset + size}

(* One page, and no second. *)
cfListRecords(items) ==
    [items |-> Slice(items, 0, CloudflarePage), more |-> FALSE, cursor |-> 0]

(* Mutant: the pages fetched are counted with this one. *)
alidnsListRecordsAhead(items, pages) ==
    LET page    == Slice(items, pages * PageSize, PageSize)
        fetched == (pages + 1) * PageSize + Cardinality(page)
    IN  [items |-> page, cursor |-> pages + 1,
         more  |-> fetched < Cardinality(items) /\ page # {}]

(* The cursor is the number of pages before this one. *)
alidnsListRecords(items, pages) ==
    LET page    == Slice(items, pages * PageSize, PageSize)
        fetched == pages * PageSize + Cardinality(page)
    IN  [items |-> page, cursor |-> pages + 1,
         more  |-> fetched < Cardinality(items) /\ page # {}]

(* The cursor is the number of records fetched. *)
dnspodListRecords(items, offset) ==
    LET page    == Slice(items, offset, PageSize)
        fetched == offset + Cardinality(page)
    IN  [items |-> page, cursor |-> fetched,
         more  |-> fetched < Cardinality(items) /\ page # {}]

(* The cursor, the marker, is the last id seen. *)
hwListRecords(items, marker) ==
    LET rest == {i \in items : i.id > marker}
        page == Slice(rest, 0, PageSize)
    IN  [items |-> page,
         more  |-> page # rest /\ page # {},
         cursor |-> IF page = {} THEN marker
                    ELSE CHOOSE id \in Ids(page) : \A i \in page : i.id <= id]

ListRecords(type, items, cursor) ==
    CASE type = "cloudflare" -> cfListRecords(items)
      [] type = "alidns"     -> alidnsListRecords(items, cursor)
      [] type = "dnspod"     -> dnspodListRecords(items, cursor)
      [] type = "huaweidns"  -> hwListRecords(items, cursor)

-----------------------------------------------------------------------------
(* Changes.  Each is the items after the call, the reason of a refusal,    *)
(* and the record the client returns.                                      *)

NoRecord == [id |-> 0, type |-> "", name |-> nameFromRR(""),
             content |-> Empty, prio |-> 0]

Refused(items, reason) == [items |-> items, reason |-> reason, rec |-> NoRecord]

ItemOf(id, rec, value) ==
    [id |-> id, host |-> rec.name.host, type |-> rec.type,
     values |-> {value}, prio |-> rec.prio]

(* An API takes no second item like this one: the same name, type and      *)
(* value, or, for recordsets, the same name and type.                      *)
Clashes(type, items, item) ==
    \E i \in items :
        /\ i.id # item.id /\ i.host = item.host /\ i.type = item.type
        /\ type = "huaweidns" \/ i.values = item.values

Put(type, items, item, rec) ==
    IF Clashes(type, items, item) THEN Refused(items, "duplicate")
    ELSE [items  |-> {i \in items : i.id # item.id} \cup {item},
          reason |-> "", rec |-> rec]

(* The record is the one in the answer. *)
cfCreateRecord(items, id, rec) ==
    LET item == ItemOf(id, rec, cfBuildRequest(rec))
    IN  Put("cloudflare", items, item, cfRecordToRecord(item))

(* The record is the one that was asked for, with an id and a full name. *)
alidnsCreateRecord(items, id, rec) ==
    LET rr == rrFromName(rec.name)
    IN  Put("alidns", items, ItemOf(id, rec, alidnsBuildValue(rec)),
            [rec EXCEPT !.id = id, !.name = nameFromRR(rr)])

(* A priority is sent for MX only. *)
dnspodCreateRecord(items, id, rec) ==
    LET subdomain == rrFromName(rec.name)
        item == ItemOf(id, rec, rec.content)
    IN  Put("dnspod", items,
            IF rec.type = "MX" THEN item ELSE [item EXCEPT !.prio = 0],
            [rec EXCEPT !.id = id, !.name = nameFromRR(subdomain)])

(* Cloudflare completes a name without the zone, and the clients of alidns *)
(* and dnspod do; Huawei is sent it as it is, and refuses it.              *)
hwCreateRecord(items, id, rec) ==
    LET item == ItemOf(id, rec, hwRecordValue(rec))
        back == CHOOSE r \in hwRecordsetToRecords(item) : TRUE
    IN  IF rec.name.full THEN Put("huaweidns", items, item, back)
        ELSE Refused(items, "outside")

CreateRecord(type, items, id, rec) ==
    CASE type = "cloudflare" -> cfCreateRecord(items, id, rec)
      [] type = "alidns"     -> alidnsCreateRecord(items, id, rec)
      [] type = "dnspod"     -> dnspodCreateRecord(items, id, rec)
      [] type = "huaweidns"  -> hwCreateRecord(items, id, rec)

(* An update replaces the item, and all values of a recordset. *)
cfUpdateRecord(items, id, rec)     == cfCreateRecord(items, id, rec)
alidnsUpdateRecord(items, id, rec) == alidnsCreateRecord(items, id, rec)
dnspodUpdateRecord(items, id, rec) == dnspodCreateRecord(items, id, rec)
hwUpdateRecord(items, id, rec)     == hwCreateRecord(items, id, rec)

Has(items, id) == \E i \in items : i.id = id

UpdateRecord(type, items, id, rec) ==
    IF ~Has(items, id) THEN Refused(items, "norecord")
    ELSE CASE type = "cloudflare" -> cfUpdateRecord(items, id, rec)
           [] type = "alidns"     -> alidnsUpdateRecord(items, id, rec)
           [] type = "dnspod"     -> dnspodUpdateRecord(items, id, rec)
           [] type = "huaweidns"  -> hwUpdateRecord(items, id, rec)

Removed(items, id) ==
    IF Has(items, id)
    THEN [items |-> {i \in items : i.id # id}, reason |-> "", rec |-> NoRecord]
    ELSE Refused(items, "norecord")

cfDeleteRecord(items, id)     == Removed(items, id)
alidnsDeleteRecord(items, id) == Removed(items, id)
dnspodDeleteRecord(items, id) == Removed(items, id)
hwDeleteRecord(items, id)     == Removed(items, id)

DeleteRecord(type, items, id) ==
    CASE type = "cloudflare" -> cfDeleteRecord(items, id)
      [] type = "alidns"     -> alidnsDeleteRecord(items, id)
      [] type = "dnspod"     -> dnspodDeleteRecord(items, id)
      [] type = "huaweidns"  -> hwDeleteRecord(items, id)

=============================================================================
