----------------------------- MODULE CdnClients -----------------------------
(***************************************************************************)
(* The clients of pkg/provider/cdn.  A call of the Provider interface is a *)
(* short program of API calls; the answer of each becomes an error or the  *)
(* state of the acceleration domain.                                       *)
(*                                                                         *)
(* Three clients can be reached: a row of cdn_providers cannot have the    *)
(* type cloudflare_cdn under which the fourth one is registered.  Origins, *)
(* business types, timestamps and signatures pass through and are left     *)
(* out; listings, purges, prefetches and statistics have no caller.        *)
(***************************************************************************)
EXTENDS Integers, Sequences

(* The vendors whose API the platform can call. *)
Vendors == {"aliyun_cdn", "tencent_cdn", "huawei_cdn"}

(* Types the registry of the package knows. *)
Registered == Vendors \cup {"cloudflare_cdn"}

(* Why an API refuses a call.  "" is a call that is carried out. *)
Reasons == {"", "auth", "throttle", "absent", "exists", "busy", "broken"}

(* The HTTP status and the error code each API says it with. *)
Says(type, reason) ==
    IF reason \in {"", "broken"}
    THEN [http |-> IF reason = "" THEN 200 ELSE 500, code |-> ""]
    ELSE CASE type = "aliyun_cdn"  -> [http |-> 400, code |-> reason]
           [] type = "tencent_cdn" -> [http |-> 200, code |-> reason]
           [] type = "huawei_cdn"  ->
                [http |-> CASE reason = "auth"     -> 403
                            [] reason = "absent"   -> 404
                            [] reason = "exists"   -> 409
                            [] reason = "throttle" -> 429
                            [] OTHER               -> 400,
                 code |-> reason]

-----------------------------------------------------------------------------
(* How an answer becomes an error. *)

(* Mutant: no code stands for a domain that exists already.                *)
aliyunCDNMapCodeNew(code) ==
    CASE code = "auth"     -> "ErrUnauthorized"
      [] code = "absent"   -> "ErrDomainNotFound"
      [] code = "throttle" -> "ErrRateLimitExceeded"
      [] OTHER             -> "error"

aliyunCDNMapCode(code) ==
    CASE code = "auth"     -> "ErrUnauthorized"
      [] code = "absent"   -> "ErrDomainNotFound"
      [] code = "exists"   -> "ErrDomainAlreadyExists"
      [] code = "throttle" -> "ErrRateLimitExceeded"
      [] OTHER             -> "error"

aliyunCDNCheckStatus(answer) ==
    IF answer.http = 404 THEN "ErrDomainNotFound"
    ELSE IF answer.http = 429 THEN "ErrRateLimitExceeded"
    ELSE IF answer.code # "" THEN aliyunCDNMapCode(answer.code)
    ELSE IF answer.http = 200 THEN ""
    ELSE IF answer.http \in {401, 403} THEN "ErrUnauthorized" ELSE "error"

tencentCDNCheckHTTP(answer) ==
    CASE answer.http = 200 -> ""
      [] answer.http \in {401, 403} -> "ErrUnauthorized"
      [] answer.http = 429 -> "ErrRateLimitExceeded"
      [] OTHER             -> "error"

(* Mutant: a domain that is gone is an error like any other.               *)
tencentCDNMapCodeFound(code) ==
    CASE code = "auth"                -> "ErrUnauthorized"
      [] code \in {"exists", "busy"}  -> "ErrDomainAlreadyExists"
      [] code = "throttle"            -> "ErrRateLimitExceeded"
      [] OTHER                        -> "error"

(* CdnOpInProgress, a domain that is busy, counts as one that exists.      *)
tencentCDNMapCode(code) ==
    CASE code = "auth"                -> "ErrUnauthorized"
      [] code = "absent"              -> "ErrDomainNotFound"
      [] code \in {"exists", "busy"}  -> "ErrDomainAlreadyExists"
      [] code = "throttle"            -> "ErrRateLimitExceeded"
      [] OTHER                        -> "error"

huaweiCDNCheckHTTP(answer) ==
    CASE answer.http \in {200, 201, 202, 204} -> ""
      [] answer.http \in {401, 403} -> "ErrUnauthorized"
      [] answer.http = 404 -> "ErrDomainNotFound"
      [] answer.http = 409 -> "ErrDomainAlreadyExists"
      [] answer.http = 429 -> "ErrRateLimitExceeded"
      [] OTHER             -> "error"

(* doRequest, call and doJSON: one API call.  An answer that does not      *)
(* arrive is an error too, whatever became of the call.                    *)
aliyunDoRequest(answer) == aliyunCDNCheckStatus(answer)

tencentCall(answer) ==
    LET refused == tencentCDNCheckHTTP(answer)
    IN  IF refused = "" /\ answer.code # "" THEN tencentCDNMapCode(answer.code)
        ELSE refused

huaweiDoJSON(answer) == huaweiCDNCheckHTTP(answer)

ErrorOf(type, reason) ==
    LET answer == Says(type, reason)
    IN  CASE type = "aliyun_cdn"  -> aliyunDoRequest(answer)
          [] type = "tencent_cdn" -> tencentCall(answer)
          [] type = "huawei_cdn"  -> huaweiDoJSON(answer)

-----------------------------------------------------------------------------
(* Constructors: the credentials of an account are those of a login at the *)
(* vendor, or {} (0).  The config passed to a factory is always {}.        *)

NewAliyunCDNProvider(login)  == IF login = 0 THEN "ErrMissingCredentials" ELSE ""
NewTencentCDNProvider(login) == IF login = 0 THEN "ErrMissingCredentials" ELSE ""
NewHuaweiCDNProvider(login)  == IF login = 0 THEN "ErrMissingCredentials" ELSE ""

(* Get: the factory registered for the type. *)
Get(type, login) ==
    CASE type = "aliyun_cdn"  -> NewAliyunCDNProvider(login)
      [] type = "tencent_cdn" -> NewTencentCDNProvider(login)
      [] type = "huawei_cdn"  -> NewHuaweiCDNProvider(login)
      [] OTHER                -> "ErrProviderNotRegistered"

-----------------------------------------------------------------------------
(* The API calls behind AddDomain, GetDomain and RemoveDomain.  Aliyun and *)
(* Tencent read a domain back after they have added it.  Huawei addresses  *)
(* a domain by an id that it looks up first.                               *)

aliyunAddDomain     == <<"add", "get">>
aliyunGetDomain     == <<"get">>
aliyunRemoveDomain  == <<"stop", "delete">>

tencentAddDomain    == <<"add", "get">>
tencentGetDomain    == <<"get">>
tencentRemoveDomain == <<"stop", "delete">>

huaweiAddDomain     == <<"add">>
resolveDomainID     == <<"resolve">>
huaweiGetDomain     == resolveDomainID \o <<"get">>
huaweiRemoveDomain  == resolveDomainID \o <<"stop", "delete">>

AddDomain(type) ==
    CASE type = "aliyun_cdn"  -> aliyunAddDomain
      [] type = "tencent_cdn" -> tencentAddDomain
      [] type = "huawei_cdn"  -> huaweiAddDomain

GetDomain(type) ==
    CASE type = "aliyun_cdn"  -> aliyunGetDomain
      [] type = "tencent_cdn" -> tencentGetDomain
      [] type = "huawei_cdn"  -> huaweiGetDomain

RemoveDomain(type) ==
    CASE type = "aliyun_cdn"  -> aliyunRemoveDomain
      [] type = "tencent_cdn" -> tencentRemoveDomain
      [] type = "huawei_cdn"  -> huaweiRemoveDomain

(* The result of stopping a domain is not looked at.                       *)
Ignored(call) == call = "stop"

-----------------------------------------------------------------------------
(* What a vendor calls the state of a domain, and how a client reads it.   *)

Phases == {"starting", "on", "stopping", "off", "failed"}

Raw(type, phase) ==
    CASE phase = "on"     -> "online"
      [] phase = "off"    -> "offline"
      [] phase = "failed" -> IF type = "huawei_cdn" THEN "configure_failed"
                             ELSE IF type = "aliyun_cdn" THEN "check_failed"
                             ELSE "rejected"
      [] OTHER            -> IF type = "tencent_cdn" THEN "processing"
                             ELSE "configuring"

aliyunCDNMapStatus(raw) ==
    IF raw \in {"online", "configuring", "checking"} THEN raw ELSE "offline"

tencentCDNMapStatus(raw) ==
    CASE raw = "online" -> "online"
      [] raw \in {"processing", "submitted", "deploying"} -> "configuring"
      [] OTHER          -> "offline"

(* Mutant: a domain that is being set up is not told from a stopped one.   *)
huaweiCDNMapStatusBlunt(raw) == IF raw = "online" THEN raw ELSE "offline"

huaweiCDNMapStatus(raw) ==
    CASE raw \in {"online", "checking"} -> raw
      [] raw \in {"configuring", "configure_failed"} -> "configuring"
      [] OTHER -> "offline"

aliyunCDNDetailToDomain(raw) == [status |-> aliyunCDNMapStatus(raw), cname |-> TRUE]
tencentCDNDomainToCDN(raw)   == [status |-> tencentCDNMapStatus(raw), cname |-> TRUE]
huaweiCDNDomainToType(raw)   == [status |-> huaweiCDNMapStatus(raw), cname |-> TRUE]

(* The CDNDomain a client returns for a domain in a phase. *)
CDNDomain(type, phase) ==
    LET raw == Raw(type, phase)
    IN  CASE type = "aliyun_cdn"  -> aliyunCDNDetailToDomain(raw)
          [] type = "tencent_cdn" -> tencentCDNDomainToCDN(raw)
          [] type = "huawei_cdn"  -> huaweiCDNDomainToType(raw)

=============================================================================
