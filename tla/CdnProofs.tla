----------------------------- MODULE CdnProofs ------------------------------
(***************************************************************************)
(* What CdnBindings guarantees for every set of accounts, providers and    *)
(* logins, any number of requests, and any changes beside them.            *)
(***************************************************************************)
EXTENDS CdnBindings, SequenceTheorems, TLAPS

ClientOps == {"bind", "unbind", "refresh"}

Statuses == {"online", "offline", "configuring", "checking"}

Bindings == [id : Nat, live : BOOLEAN, status : Statuses, cname : BOOLEAN]

(* The calls a request may still have to make.                              *)
Todo(op) ==
    CASE op = "bind"   -> {<<>>, <<"get">>, <<"add">>, <<"add", "get">>,
                           <<"resolve", "get">>}
      [] op = "unbind" -> {<<>>, <<"delete">>, <<"stop", "delete">>,
                           <<"resolve", "stop", "delete">>}
      [] OTHER         -> {<<>>, <<"get">>, <<"resolve", "get">>}

(* A request that calls a vendor, and those of the administration.          *)
Calling ==
    {q \in [op : ClientOps, account : Accounts, vendor : Vendors,
            login : Nat \ {0}, todo : Todo("bind") \cup Todo("unbind"),
            row : Nat, id : Nat, seen : Bindings, alone : BOOLEAN] :
        q.todo \in Todo(q.op)}

Creating == [op : {"create account"},
             account : [account : Accounts, provider : Providers],
             login : Nat, todo : {<<>>}, alone : BOOLEAN]

Deleting == [op : {"delete account", "delete provider"},
             account : Accounts \cup Providers,
             login : Nat, todo : {<<>>}, alone : BOOLEAN]

Served == Calling \cup Creating \cup Deleting

(* The types of the variables.                                              *)
TypeOK ==
    /\ providers \in [Providers -> [type : InitTypes \cup allowedProviderTypes,
                                    deleted : BOOLEAN]]
    /\ accounts \in [Accounts -> [state : {"none", "live", "deleted"},
                                  provider : Providers, login : Nat]]
    /\ binding \in [Accounts -> Bindings]
    /\ cdn \in [Vendors -> [id : Nat, owner : Nat, phase : Phases]]
    /\ requests \in [Requests -> Served \cup {Idle}]
    /\ answer \in [op : ClientOps \cup {"none"}, account : Accounts \cup {0}]

(* What the vendor has of the account of a request.                         *)
Mine(q) == cdn[q.vendor].owner = q.login

(* What a request that has made its calls has brought about or seen.        *)
Achieved(q) ==
    /\ q.op = "bind" => Mine(q)
    /\ q.op = "unbind" => ~Mine(q)
    /\ q.op = "refresh" /\ Mine(q) =>
          q.seen.status \in Truth(cdn[q.vendor].phase) /\ q.seen.cname
    /\ q.op = "refresh" /\ ~Mine(q) => q.seen.status = "offline" /\ ~q.seen.cname

(* What a request knows that nobody has disturbed.                          *)
Knows(q) ==
    /\ q.vendor = TypeOf(q.account)
    /\ q.login = accounts[q.account].login
    /\ q.id \in {0, cdn[q.vendor].id}
    /\ q.todo = <<>> => Achieved(q)
    /\ q.todo \in {<<"add">>, <<"add", "get">>} => q.id = 0

(* A request of a client that no other request and nobody else has met.     *)
Alone(q) == q.op \in ClientOps /\ q.alone

(* AnswerIsTrue is not inductive: an answer is given at the end of several  *)
(* calls, and rests on what each of them left or saw.                       *)
AloneInv ==
    /\ \A r \in Requests :
          Alone(requests[r]) => /\ \A q \in Requests \ {r} : requests[q] = Idle
                                /\ Knows(requests[r])
    /\ answer.op # "none" => \A r \in Requests : requests[r] = Idle
    /\ AnswerIsTrue

CdnInv == TypeOK /\ AloneInv

-----------------------------------------------------------------------------
(* The clients.                                                             *)

(* An API call is carried out, or its domain was not found, exactly when    *)
(* the client says so.                                                      *)
LEMMA ErrorsTell ==
  ASSUME NEW v \in Vendors, NEW reason \in Reasons
  PROVE  /\ reason = "" => ErrorOf(v, reason) = ""
         /\ reason # "" => ErrorOf(v, reason) # ""
         /\ reason = "absent" => ErrorOf(v, reason) = "ErrDomainNotFound"
         /\ reason # "absent" => ErrorOf(v, reason) # "ErrDomainNotFound"
<1> DEFINE Told(type, why) ==
       /\ why = "" => ErrorOf(type, why) = ""
       /\ why # "" => ErrorOf(type, why) # ""
       /\ why = "absent" => ErrorOf(type, why) = "ErrDomainNotFound"
       /\ why # "absent" => ErrorOf(type, why) # "ErrDomainNotFound"
<1> DEFINE Codes == {"auth", "throttle", "absent", "exists", "busy"}
<1>1. ASSUME NEW why \in Reasons PROVE Told("aliyun_cdn", why)
  <2>1. /\ aliyunCDNMapCode("auth") = "ErrUnauthorized"
        /\ aliyunCDNMapCode("absent") = "ErrDomainNotFound"
        /\ aliyunCDNMapCode("exists") = "ErrDomainAlreadyExists"
        /\ aliyunCDNMapCode("throttle") = "ErrRateLimitExceeded"
        /\ aliyunCDNMapCode("busy") = "error"
    BY DEF aliyunCDNMapCode
  <2>2. ASSUME NEW code \in Codes
        PROVE  Says("aliyun_cdn", code) = [http |-> 400, code |-> code]
    BY DEF Says
  <2>3. /\ aliyunCDNCheckStatus([http |-> 400, code |-> "auth"]) = aliyunCDNMapCode("auth")
        /\ aliyunCDNCheckStatus([http |-> 400, code |-> "absent"]) = aliyunCDNMapCode("absent")
        /\ aliyunCDNCheckStatus([http |-> 400, code |-> "exists"]) = aliyunCDNMapCode("exists")
        /\ aliyunCDNCheckStatus([http |-> 400, code |-> "throttle"]) = aliyunCDNMapCode("throttle")
        /\ aliyunCDNCheckStatus([http |-> 400, code |-> "busy"]) = aliyunCDNMapCode("busy")
    BY DEF aliyunCDNCheckStatus, aliyunCDNMapCode
  <2>4. ASSUME NEW code \in Codes PROVE Told("aliyun_cdn", code)
    <3>1. ErrorOf("aliyun_cdn", code) = aliyunCDNMapCode(code)
      BY <2>2, <2>3 DEF ErrorOf, aliyunDoRequest
    <3> QED BY <2>1, <3>1
  <2>5. ErrorOf("aliyun_cdn", "") = "" /\ ErrorOf("aliyun_cdn", "broken") = "error"
    BY DEF ErrorOf, Says, aliyunDoRequest, aliyunCDNCheckStatus
  <2>6. Told("aliyun_cdn", "") /\ Told("aliyun_cdn", "broken")
    BY <2>5
  <2> QED BY <2>4, <2>6 DEF Reasons
<1>2. ASSUME NEW why \in Reasons PROVE Told("tencent_cdn", why)
  <2>1. /\ tencentCDNMapCode("auth") = "ErrUnauthorized"
        /\ tencentCDNMapCode("absent") = "ErrDomainNotFound"
        /\ tencentCDNMapCode("exists") = "ErrDomainAlreadyExists"
        /\ tencentCDNMapCode("throttle") = "ErrRateLimitExceeded"
        /\ tencentCDNMapCode("busy") = "ErrDomainAlreadyExists"
    BY DEF tencentCDNMapCode
  <2>2. ASSUME NEW code \in Codes
        PROVE  Says("tencent_cdn", code) = [http |-> 200, code |-> code]
    BY DEF Says
  <2>3. /\ tencentCall([http |-> 200, code |-> "auth"]) = tencentCDNMapCode("auth")
        /\ tencentCall([http |-> 200, code |-> "absent"]) = tencentCDNMapCode("absent")
        /\ tencentCall([http |-> 200, code |-> "exists"]) = tencentCDNMapCode("exists")
        /\ tencentCall([http |-> 200, code |-> "throttle"]) = tencentCDNMapCode("throttle")
        /\ tencentCall([http |-> 200, code |-> "busy"]) = tencentCDNMapCode("busy")
    BY DEF tencentCall, tencentCDNCheckHTTP
  <2>4. ASSUME NEW code \in Codes PROVE Told("tencent_cdn", code)
    <3>1. ErrorOf("tencent_cdn", code) = tencentCDNMapCode(code)
      BY <2>2, <2>3 DEF ErrorOf
    <3> QED BY <2>1, <3>1
  <2>5. ErrorOf("tencent_cdn", "") = "" /\ ErrorOf("tencent_cdn", "broken") = "error"
    BY DEF ErrorOf, Says, tencentCall, tencentCDNCheckHTTP
  <2>6. Told("tencent_cdn", "") /\ Told("tencent_cdn", "broken")
    BY <2>5
  <2> QED BY <2>4, <2>6 DEF Reasons
<1>3. ASSUME NEW why \in Reasons PROVE Told("huawei_cdn", why)
  <2>1. /\ ErrorOf("huawei_cdn", "") = ""
        /\ ErrorOf("huawei_cdn", "broken") = "error"
        /\ ErrorOf("huawei_cdn", "auth") = "ErrUnauthorized"
        /\ ErrorOf("huawei_cdn", "absent") = "ErrDomainNotFound"
        /\ ErrorOf("huawei_cdn", "exists") = "ErrDomainAlreadyExists"
        /\ ErrorOf("huawei_cdn", "throttle") = "ErrRateLimitExceeded"
        /\ ErrorOf("huawei_cdn", "busy") = "error"
    BY DEF ErrorOf, Says, huaweiDoJSON, huaweiCDNCheckHTTP
  <2> QED BY <2>1 DEF Reasons
<1> HIDE DEF Told
<1>4. Told(v, reason)
  BY <1>1, <1>2, <1>3 DEF Vendors
<1> QED BY <1>4 DEF Told

(* What a client makes of the state of a domain is true of it.              *)
LEMMA StatusTold ==
  ASSUME NEW v \in Vendors, NEW phase \in Phases
  PROVE  /\ CDNDomain(v, phase).status \in Truth(phase)
         /\ CDNDomain(v, phase).status \in Statuses
         /\ CDNDomain(v, phase).cname = TRUE
BY DEF Vendors, Phases, Truth, Statuses, CDNDomain, Raw, aliyunCDNDetailToDomain,
       aliyunCDNMapStatus, tencentCDNDomainToCDN, tencentCDNMapStatus,
       huaweiCDNDomainToType, huaweiCDNMapStatus

(* Looking up an id comes before the calls that need it.                    *)
LEMMA LookUpFirst ==
  /\ huaweiGetDomain = <<"resolve", "get">>
  /\ huaweiRemoveDomain = <<"resolve", "stop", "delete">>
<1> DEFINE S == {"resolve", "get", "stop", "delete"}
           r == <<"resolve">>
           g == <<"get">>
           d == <<"stop", "delete">>
           u == <<"resolve", "get">>
           w == <<"resolve", "stop", "delete">>
<1>1. /\ r \in Seq(S) /\ g \in Seq(S) /\ d \in Seq(S) /\ u \in Seq(S) /\ w \in Seq(S)
      /\ Len(r) = 1 /\ Len(g) = 1 /\ Len(d) = 2 /\ Len(u) = 2 /\ Len(w) = 3
      /\ r[1] = "resolve" /\ g[1] = "get" /\ d[1] = "stop" /\ d[2] = "delete"
      /\ u[1] = "resolve" /\ u[2] = "get"
      /\ w[1] = "resolve" /\ w[2] = "stop" /\ w[3] = "delete"
  OBVIOUS
<1> HIDE DEF S, r, g, d, u, w
<1>2. r \o g = u
  <2>1. /\ r \o g \in Seq(S) /\ Len(r \o g) = 2
        /\ (r \o g)[1] = r[1] /\ (r \o g)[2] = g[1]
    BY <1>1, ConcatProperties
  <2>2. \A i \in 1 .. Len(r \o g) : (r \o g)[i] = u[i]
    BY <1>1, <2>1
  <2> QED BY <1>1, <2>1, <2>2, SeqEqual
<1>3. r \o d = w
  <2> DEFINE rd == r \o d
  <2>1. /\ rd \in Seq(S) /\ Len(rd) = Len(r) + Len(d)
        /\ \A i \in 1 .. Len(r) + Len(d) :
              rd[i] = IF i <= Len(r) THEN r[i] ELSE d[i - Len(r)]
    BY <1>1, ConcatProperties, Zenon
  <2>2. /\ rd \in Seq(S) /\ Len(rd) = 3
        /\ \A i \in 1 .. 1 + 2 : rd[i] = IF i <= 1 THEN r[i] ELSE d[i - 1]
    BY <1>1, <2>1
  <2> HIDE DEF rd
  <2>3. rd[1] = r[1] /\ rd[2] = d[1] /\ rd[3] = d[2]
    BY <1>1, <2>2
  <2>4. \A i \in 1 .. Len(rd) : rd[i] = w[i]
    BY <1>1, <2>2, <2>3
  <2>5. rd = w
    BY <1>1, <2>2, <2>4, SeqEqual
  <2> QED BY <2>5 DEF rd
<1> QED BY <1>2, <1>3 DEF r, g, d, u, w, huaweiGetDomain, huaweiRemoveDomain, resolveDomainID

(* The programs of the clients are among the calls of a request.            *)
LEMMA ProgramsTyped ==
  ASSUME NEW v \in Vendors
  PROVE  /\ AddDomain(v) \in {<<"add">>, <<"add", "get">>}
         /\ GetDomain(v) \in {<<"get">>, <<"resolve", "get">>}
         /\ RemoveDomain(v) \in {<<"stop", "delete">>,
                                 <<"resolve", "stop", "delete">>}
BY LookUpFirst
   DEF Vendors, AddDomain, GetDomain, RemoveDomain, aliyunAddDomain,
       aliyunGetDomain, aliyunRemoveDomain, tencentAddDomain, tencentGetDomain,
       tencentRemoveDomain, huaweiAddDomain

(* Each has something to do, and only AddDomain adds.                       *)
LEMMA ProgramsDo ==
  ASSUME NEW v \in Vendors
  PROVE  /\ AddDomain(v) \in Todo("bind") /\ AddDomain(v) # <<>>
         /\ GetDomain(v) \in Todo("bind") /\ GetDomain(v) \in Todo("refresh")
         /\ GetDomain(v) # <<>> /\ GetDomain(v) \notin {<<"add">>, <<"add", "get">>}
         /\ RemoveDomain(v) \in Todo("unbind") /\ RemoveDomain(v) # <<>>
         /\ RemoveDomain(v) \notin {<<"add">>, <<"add", "get">>}
<1>1. AddDomain(v) \in Todo("bind") /\ AddDomain(v) # <<>>
  BY ProgramsTyped DEF Todo
<1>2. ASSUME GetDomain(v) = <<"get">>
      PROVE  /\ GetDomain(v) \in Todo("bind") /\ GetDomain(v) \in Todo("refresh")
             /\ GetDomain(v) # <<>> /\ GetDomain(v) \notin {<<"add">>, <<"add", "get">>}
  <2>1. GetDomain(v) # <<>> /\ GetDomain(v) # <<"add">> /\ GetDomain(v) # <<"add", "get">>
    BY <1>2
  <2>2. GetDomain(v) \in Todo("bind") /\ GetDomain(v) \in Todo("refresh")
    BY <1>2 DEF Todo
  <2> QED BY <2>1, <2>2
<1>3. ASSUME GetDomain(v) = <<"resolve", "get">>
      PROVE  /\ GetDomain(v) \in Todo("bind") /\ GetDomain(v) \in Todo("refresh")
             /\ GetDomain(v) # <<>> /\ GetDomain(v) \notin {<<"add">>, <<"add", "get">>}
  <2>1. GetDomain(v) # <<>> /\ GetDomain(v) # <<"add">> /\ GetDomain(v) # <<"add", "get">>
    BY <1>3
  <2>2. GetDomain(v) \in Todo("bind") /\ GetDomain(v) \in Todo("refresh")
    BY <1>3 DEF Todo
  <2> QED BY <2>1, <2>2
<1>4. ASSUME RemoveDomain(v) = <<"stop", "delete">>
      PROVE  /\ RemoveDomain(v) \in Todo("unbind") /\ RemoveDomain(v) # <<>>
             /\ RemoveDomain(v) \notin {<<"add">>, <<"add", "get">>}
  <2>1. RemoveDomain(v) # <<>> /\ RemoveDomain(v) # <<"add">> /\ RemoveDomain(v) # <<"add", "get">>
    BY <1>4
  <2>2. RemoveDomain(v) \in Todo("unbind")
    BY <1>4 DEF Todo
  <2> QED BY <2>1, <2>2
<1>5. ASSUME RemoveDomain(v) = <<"resolve", "stop", "delete">>
      PROVE  /\ RemoveDomain(v) \in Todo("unbind") /\ RemoveDomain(v) # <<>>
             /\ RemoveDomain(v) \notin {<<"add">>, <<"add", "get">>}
  <2>1. RemoveDomain(v) # <<>> /\ RemoveDomain(v) # <<"add">> /\ RemoveDomain(v) # <<"add", "get">>
    BY <1>5
  <2>2. RemoveDomain(v) \in Todo("unbind")
    BY <1>5 DEF Todo
  <2> QED BY <2>1, <2>2
<1>6. /\ GetDomain(v) \in Todo("bind") /\ GetDomain(v) \in Todo("refresh")
      /\ GetDomain(v) # <<>> /\ GetDomain(v) \notin {<<"add">>, <<"add", "get">>}
  BY <1>2, <1>3, ProgramsTyped
<1>7. /\ RemoveDomain(v) \in Todo("unbind") /\ RemoveDomain(v) # <<>>
      /\ RemoveDomain(v) \notin {<<"add">>, <<"add", "get">>}
  BY <1>4, <1>5, ProgramsTyped
<1> QED BY <1>1, <1>6, <1>7

(* Taking the first of the calls leaves calls of the same request; the last *)
(* one of a bind or refresh reads or adds the domain, of an unbind deletes. *)
LEMMA TodoAdvances ==
  ASSUME NEW op \in ClientOps, NEW todo \in Todo(op), todo # <<>>
  PROVE  /\ Tail(todo) \in Todo(op)
         /\ Head(todo) \in {"add", "get", "resolve", "stop", "delete"}
         /\ op # "unbind" => Head(todo) \notin {"stop", "delete"}
         /\ op = "unbind" => Head(todo) \notin {"add", "get"}
         /\ op = "refresh" => Head(todo) # "add"
         /\ Tail(todo) = <<>> => Head(todo) \in {"add", "get", "delete"}
         /\ Tail(todo) \notin {<<"add">>, <<"add", "get">>}
         /\ Head(todo) = "add" => todo \in {<<"add">>, <<"add", "get">>}
<1>1. CASE todo = <<"get">>
  <2>1. Head(todo) = "get" /\ Tail(todo) = <<>>
    BY <1>1
  <2> QED BY <1>1, <2>1 DEF ClientOps, Todo
<1>2. CASE todo = <<"add">>
  <2>1. Head(todo) = "add" /\ Tail(todo) = <<>>
    BY <1>2
  <2> QED BY <1>2, <2>1 DEF ClientOps, Todo
<1>3. CASE todo = <<"delete">>
  <2>1. Head(todo) = "delete" /\ Tail(todo) = <<>>
    BY <1>3
  <2> QED BY <1>3, <2>1 DEF ClientOps, Todo
<1>4. CASE todo = <<"add", "get">>
  <2>1. Head(todo) = "add" /\ Tail(todo) = <<"get">>
    BY <1>4
  <2> QED BY <1>4, <2>1 DEF ClientOps, Todo
<1>5. CASE todo = <<"resolve", "get">>
  <2>1. Head(todo) = "resolve" /\ Tail(todo) = <<"get">>
    BY <1>5
  <2> QED BY <1>5, <2>1 DEF ClientOps, Todo
<1>6. CASE todo = <<"stop", "delete">>
  <2>1. Head(todo) = "stop" /\ Tail(todo) = <<"delete">>
    BY <1>6
  <2> QED BY <1>6, <2>1 DEF ClientOps, Todo
<1>7. CASE todo = <<"resolve", "stop", "delete">>
  <2>1. Head(todo) = "resolve" /\ Tail(todo) = <<"stop", "delete">>
    BY <1>7
  <2> QED BY <1>7, <2>1 DEF ClientOps, Todo
<1> QED BY <1>1, <1>2, <1>3, <1>4, <1>5, <1>6, <1>7 DEF ClientOps, Todo

-----------------------------------------------------------------------------
(* How the steps of a request treat it and the others.                      *)

USE CdnAssumption

(* What a request is follows from its operation.                            *)
LEMMA Kinds ==
  ASSUME TypeOK, NEW r \in Requests
  PROVE  /\ requests[r] \in Served \cup {Idle}
         /\ requests[r].op \in ClientOps => requests[r] \in Calling
         /\ requests[r].op = "create account" => requests[r] \in Creating
         /\ requests[r].op \in {"delete account", "delete provider"} =>
               requests[r] \in Deleting
         /\ requests[r] # Idle => requests[r].alone \in BOOLEAN
<1>1. requests[r] \in Served \cup {Idle}
  BY DEF TypeOK
<1>2. CASE requests[r] = Idle
  BY <1>2 DEF Idle, ClientOps
<1>3. CASE requests[r] \in Calling
  BY <1>3 DEF Calling, ClientOps, Served
<1>4. CASE requests[r] \in Creating
  BY <1>4 DEF Creating, ClientOps, Served
<1>5. CASE requests[r] \in Deleting
  BY <1>5 DEF Deleting, ClientOps, Served
<1> QED BY <1>1, <1>2, <1>3, <1>4, <1>5 DEF Served

(* While a request is served that somebody has met, no other one is alone,  *)
(* and there is no answer.                                                  *)
LEMMA NoneBeside ==
  ASSUME CdnInv, NEW r \in Requests, requests[r] # Idle
  PROVE  /\ answer.op = "none"
         /\ \A q \in Requests \ {r} : ~Alone(requests[q])
BY DEF CdnInv, AloneInv

(* Nothing is alone where no request is served.                             *)
LEMMA IdleIsNotAlone == ~Alone(Idle)
BY DEF Alone, Idle, ClientOps

(* No answer claims nothing.                                                *)
LEMMA NoAnswerIsTrue ==
  /\ NoAnswer.op = "none"
  /\ NoAnswer \in [op : ClientOps \cup {"none"}, account : Accounts \cup {0}]
BY DEF NoAnswer, ClientOps

(* A request that ends without an answer.                                   *)
LEMMA FailKeeps ==
  ASSUME CdnInv, NEW r \in Requests, requests[r] # Idle, Fail(r)
  PROVE  /\ AloneInv'
         /\ requests' \in [Requests -> Served \cup {Idle}]
         /\ answer' \in [op : ClientOps \cup {"none"}, account : Accounts \cup {0}]
<1>1. requests' = [requests EXCEPT ![r] = Idle] /\ answer' = NoAnswer
  BY DEF Fail
<1>2. requests' \in [Requests -> Served \cup {Idle}]
  BY <1>1 DEF CdnInv, TypeOK
<1>3. \A q \in Requests : ~Alone(requests'[q])
  BY <1>1, NoneBeside, IdleIsNotAlone DEF CdnInv, TypeOK
<1>4. answer'.op = "none"
  BY <1>1, NoAnswerIsTrue
<1>5. AnswerIsTrue'
  BY <1>4 DEF AnswerIsTrue
<1>6. \A q \in Requests : ~Alone(requests[q])'
  BY <1>3 DEF Alone
<1>7. AloneInv'
  BY <1>4, <1>5, <1>6 DEF AloneInv
<1> QED BY <1>1, <1>2, <1>7, NoAnswerIsTrue

(* What is noted of a request beside being alone does not change with it.   *)
LEMMA FlagKept ==
  ASSUME NEW q \in Served, NEW b \in BOOLEAN, NEW p, p = [q EXCEPT !.alone = b]
  PROVE  /\ p \in Served
         /\ p.alone = b
         /\ p.op = q.op
         /\ q \in Calling =>
               /\ p \in Calling
               /\ p.account = q.account /\ p.vendor = q.vendor /\ p.login = q.login
               /\ p.todo = q.todo /\ p.id = q.id /\ p.seen = q.seen
<1>1. CASE q \in Calling
  BY <1>1 DEF Calling, Served
<1>2. CASE q \in Creating
  <2>1. p \in Creating /\ p.alone = b /\ p.op = q.op
    BY <1>2 DEF Creating
  <2>2. q \notin Calling
    BY <1>2 DEF Creating, Calling, ClientOps
  <2> QED BY <2>1, <2>2 DEF Served
<1>3. CASE q \in Deleting
  <2>1. p \in Deleting /\ p.alone = b /\ p.op = q.op
    BY <1>3 DEF Deleting
  <2>2. q \notin Calling
    BY <1>3 DEF Deleting, Calling, ClientOps
  <2> QED BY <2>1, <2>2 DEF Served
<1> QED BY <1>1, <1>2, <1>3 DEF Served

(* Requests that somebody meets are not alone any more.                     *)
LEMMA DisturbedNotAlone ==
  ASSUME TypeOK, NEW q \in Requests
  PROVE  /\ Disturbed(requests)[q] \in Served \cup {Idle}
         /\ ~Alone(Disturbed(requests)[q])
<1>1. Disturbed(requests)[q] = IF requests[q] = Idle THEN Idle
                               ELSE [requests[q] EXCEPT !.alone = FALSE]
  BY DEF Disturbed
<1>2. CASE requests[q] = Idle
  BY <1>1, <1>2, IdleIsNotAlone
<1>3. CASE requests[q] # Idle
  <2>1. requests[q] \in Served
    BY <1>3, Kinds
  <2> QED BY <1>1, <1>3, <2>1, FlagKept DEF Alone
<1> QED BY <1>2, <1>3

(* Whatever happens beside the requests leaves none of them alone.          *)
LEMMA DisturbKeeps ==
  ASSUME CdnInv, requests' = Disturbed(requests), answer' = NoAnswer
  PROVE  /\ AloneInv'
         /\ requests' \in [Requests -> Served \cup {Idle}]
         /\ answer' \in [op : ClientOps \cup {"none"}, account : Accounts \cup {0}]
<1>1. \A q \in Requests : requests'[q] \in Served \cup {Idle} /\ ~Alone(requests'[q])
  BY DisturbedNotAlone DEF CdnInv
<1>2. requests' \in [Requests -> Served \cup {Idle}]
  BY <1>1 DEF Disturbed
<1>3. answer'.op = "none"
  BY NoAnswerIsTrue
<1>4. AnswerIsTrue'
  BY <1>3 DEF AnswerIsTrue
<1>5. \A q \in Requests : ~Alone(requests[q])'
  BY <1>1 DEF Alone
<1>6. AloneInv'
  BY <1>3, <1>4, <1>5 DEF AloneInv
<1> QED BY <1>2, <1>6, NoAnswerIsTrue

(* A request that begins is alone when no other one is being served.        *)
LEMMA BeginKeeps ==
  ASSUME CdnInv, NEW r \in Requests, NEW q \in Served, Begin(r, q),
         q.op \in ClientOps => q \in Calling /\ Knows(q),
         UNCHANGED <<providers, accounts, binding, cdn>>
  PROVE  /\ AloneInv'
         /\ requests' \in [Requests -> Served \cup {Idle}]
         /\ answer' \in [op : ClientOps \cup {"none"}, account : Accounts \cup {0}]
<1>1. PICK b \in BOOLEAN : b = (Others(r) = {})
  OBVIOUS
<1>2. PICK p : p = [q EXCEPT !.alone = b]
  OBVIOUS
<1>3. /\ p \in Served /\ p.alone = b /\ p.op = q.op
      /\ q \in Calling =>
            /\ p \in Calling
            /\ p.account = q.account /\ p.vendor = q.vendor /\ p.login = q.login
            /\ p.todo = q.todo /\ p.id = q.id /\ p.seen = q.seen
  BY <1>2, FlagKept
<1>4. /\ requests[r] = Idle /\ answer' = NoAnswer
      /\ requests' = [IF b THEN requests ELSE Disturbed(requests) EXCEPT ![r] = p]
  BY <1>1, <1>2 DEF Begin
<1>5. ASSUME NEW s \in Requests \ {r}
      PROVE  /\ requests'[s] \in Served \cup {Idle} /\ ~Alone(requests'[s])
             /\ b => requests'[s] = Idle
  <2>1. CASE b
    <3>1. requests[s] = Idle
      BY <1>1, <2>1 DEF Others
    <3>2. requests'[s] = requests[s]
      BY <1>4, <2>1
    <3> QED BY <3>1, <3>2, IdleIsNotAlone
  <2>2. CASE ~b
    <3>1. requests'[s] = Disturbed(requests)[s]
      BY <1>4, <2>2
    <3> QED BY <2>2, <3>1, DisturbedNotAlone DEF CdnInv
  <2> QED BY <2>1, <2>2
<1>6. requests'[r] = p
  BY <1>4 DEF CdnInv, TypeOK, Disturbed
<1>7. requests' \in [Requests -> Served \cup {Idle}]
  <2>1. DOMAIN requests = Requests /\ DOMAIN Disturbed(requests) = Requests
    BY DEF CdnInv, TypeOK, Disturbed
  <2>2. requests' = [s \in Requests |-> requests'[s]]
    BY <1>4, <2>1
  <2>3. \A s \in Requests : requests'[s] \in Served \cup {Idle}
    BY <1>3, <1>5, <1>6
  <2> QED BY <2>2, <2>3
<1>8. answer'.op = "none"
  BY <1>4, NoAnswerIsTrue
<1>9. AnswerIsTrue'
  BY <1>8 DEF AnswerIsTrue
<1>10. ASSUME p.op \in ClientOps PROVE Knows(p)'
  BY <1>3, <1>10 DEF Knows, Achieved, Mine, TypeOf
<1>11. ASSUME NEW s \in Requests, Alone(requests[s])'
       PROVE  /\ \A t \in Requests \ {s} : requests'[t] = Idle
              /\ Knows(requests[s])'
  <2>1. s = r
    BY <1>5, <1>11 DEF Alone
  <2>2. p.op \in ClientOps /\ b
    BY <1>3, <1>6, <1>11, <2>1 DEF Alone
  <2> QED BY <1>5, <1>6, <1>10, <2>1, <2>2 DEF Knows, Achieved, Mine, TypeOf
<1>12. AloneInv'
  BY <1>8, <1>9, <1>11 DEF AloneInv
<1> QED BY <1>4, <1>7, <1>12, NoAnswerIsTrue

(* A request that goes on with what it knows.                               *)
LEMMA ContinueKeeps ==
  ASSUME CdnInv, NEW r \in Requests, requests[r] \in Calling,
         NEW q \in Calling, q.alone = requests[r].alone, Continue(r, q),
         q.alone => Knows(q)'
  PROVE  /\ AloneInv'
         /\ requests' \in [Requests -> Served \cup {Idle}]
         /\ answer' \in [op : ClientOps \cup {"none"}, account : Accounts \cup {0}]
<1>1. /\ requests[r] # Idle
      /\ Alone(q) => Alone(requests[r])
  BY DEF Calling, Idle, Alone, ClientOps
<1>2. requests' = [requests EXCEPT ![r] = q] /\ answer' = answer
  BY DEF Continue
<1>3. requests' \in [Requests -> Served \cup {Idle}]
  BY <1>2 DEF CdnInv, TypeOK, Served
<1>4. requests'[r] = q /\ \A s \in Requests \ {r} : requests'[s] = requests[s]
  BY <1>2 DEF CdnInv, TypeOK
<1>5. answer'.op = "none" /\ \A s \in Requests \ {r} : ~Alone(requests'[s])
  BY <1>1, <1>2, <1>4, NoneBeside
<1>6. AnswerIsTrue'
  BY <1>5 DEF AnswerIsTrue
<1>7. ASSUME NEW s \in Requests, Alone(requests[s])'
      PROVE  /\ \A t \in Requests \ {s} : requests'[t] = Idle
             /\ Knows(requests[s])'
  <2>1. s = r
    BY <1>5, <1>7 DEF Alone
  <2>2. Alone(q) /\ q.alone
    BY <1>4, <1>7, <2>1 DEF Alone
  <2>3. \A t \in Requests \ {s} : requests'[t] = Idle
    BY <1>1, <1>4, <2>1, <2>2 DEF CdnInv, AloneInv
  <2>4. Knows(requests[s])'
    BY <1>4, <2>1, <2>2 DEF Knows, Achieved, Mine, TypeOf
  <2> QED BY <2>3, <2>4
<1>8. AloneInv'
  BY <1>5, <1>6, <1>7 DEF AloneInv
<1> QED BY <1>2, <1>3, <1>8 DEF CdnInv, TypeOK

-----------------------------------------------------------------------------
(* Calls.                                                                   *)

(* The domain at a vendor.                                                  *)
Domain == [id : Nat, owner : Nat, phase : Phases]

(* Why a vendor refuses a call: it is absent only when the login has no     *)
(* domain there, or the id is that of another one; and a domain is read,    *)
(* stopped or deleted only by its owner.                                    *)
LEMMA RefusalTells ==
  ASSUME TypeOK, NEW r \in Requests, requests[r] \in Calling, requests[r].todo # <<>>
  PROVE  /\ Refusal(r) \in Reasons
         /\ Refusal(r) = "absent" => ~Addressed(r)
         /\ Refusal(r) = "" /\ Head(requests[r].todo) # "add" => Addressed(r)
BY DEF Refusal, Reasons

(* What a call that is carried out makes of the domain.                     *)
LEMMA EffectsTyped ==
  ASSUME CdnInv, NEW r \in Requests, requests[r] \in Calling,
         requests[r].todo # <<>>, NEW domain \in Effects(r)
  PROVE  /\ domain \in Domain
         /\ requests[r].alone => requests[r].id \in {0, domain.id}
         /\ Refusal(r) # "" => domain = cdn[requests[r].vendor]
         /\ Refusal(r) = "" /\ Head(requests[r].todo) = "add" =>
               domain.owner = requests[r].login
         /\ Refusal(r) = "" /\ Head(requests[r].todo) = "delete" => domain.owner = 0
         /\ Head(requests[r].todo) \in {"get", "resolve"} =>
               domain = cdn[requests[r].vendor]
<1>1. PICK q \in Calling : q = requests[r]
  OBVIOUS
<1>2. PICK head : head = Head(q.todo)
  OBVIOUS
<1>3. PICK old \in Domain : old = cdn[q.vendor]
  BY DEF CdnInv, TypeOK, Domain, Calling
<1>4. /\ head \in {"add", "get", "resolve", "stop", "delete"}
      /\ head = "add" => q.todo \in {<<"add">>, <<"add", "get">>}
  BY <1>1, <1>2, TodoAdvances DEF Calling
<1>5. q.alone => q.id \in {0, old.id} /\ (head = "add" => q.id = 0)
  BY <1>1, <1>3, <1>4 DEF CdnInv, AloneInv, Alone, Knows, Calling
<1>6. CASE Refusal(r) # ""
  <2>1. domain = old
    BY <1>1, <1>3, <1>6 DEF Effects
  <2> QED BY <1>1, <1>2, <1>3, <1>5, <1>6, <2>1
<1>7. CASE Refusal(r) = "" /\ head = "add"
  <2>1. PICK p \in {"starting", "on"} :
           domain = [id |-> old.id + 1, owner |-> q.login, phase |-> p]
    BY <1>1, <1>2, <1>3, <1>7 DEF Effects
  <2>2. domain \in Domain /\ domain.owner = q.login
    BY <2>1 DEF Domain, Phases, Calling
  <2> QED BY <1>1, <1>2, <1>5, <1>7, <2>2
<1>8. CASE Refusal(r) = "" /\ head = "delete"
  <2>1. domain = [Absent EXCEPT !.id = old.id]
    BY <1>1, <1>2, <1>3, <1>8 DEF Effects
  <2>2. domain \in Domain /\ domain.owner = 0 /\ domain.id = old.id
    BY <2>1 DEF Domain, Phases, Absent
  <2> QED BY <1>1, <1>2, <1>5, <1>8, <2>2
<1>9. CASE Refusal(r) = "" /\ head = "stop" /\ old.phase = "on"
  <2>1. PICK p \in {"stopping", "off"} : domain = [old EXCEPT !.phase = p]
    BY <1>1, <1>2, <1>3, <1>9 DEF Effects
  <2>2. domain \in Domain /\ domain.id = old.id
    BY <2>1 DEF Domain, Phases
  <2> QED BY <1>1, <1>2, <1>5, <1>9, <2>2
<1>10. CASE Refusal(r) = "" /\ head = "stop" /\ old.phase # "on"
  <2>1. domain = old
    BY <1>1, <1>2, <1>3, <1>10 DEF Effects
  <2> QED BY <1>1, <1>2, <1>3, <1>5, <1>10, <2>1
<1>11. CASE Refusal(r) = "" /\ head \in {"get", "resolve"}
  <2>1. domain = old
    BY <1>1, <1>2, <1>3, <1>11 DEF Effects
  <2> QED BY <1>1, <1>2, <1>3, <1>5, <1>11, <2>1
<1>12. CASE Refusal(r) = ""
  <2>1. CASE head = "add"
    BY <1>7, <1>12, <2>1
  <2>2. CASE head = "delete"
    BY <1>8, <1>12, <2>2
  <2>3. CASE head = "stop"
    BY <1>9, <1>10, <1>12, <2>3
  <2>4. CASE head \in {"get", "resolve"}
    BY <1>11, <1>12, <2>4
  <2>5. head \in {"add", "delete", "stop"} \cup {"get", "resolve"}
    BY <1>4
  <2> QED BY <2>1, <2>2, <2>3, <2>4, <2>5
<1> QED BY <1>6, <1>12

(* What a request has to know after a call to go on.                        *)
LEMMA GoesOn ==
  ASSUME CdnInv, NEW r \in Requests, requests[r] \in Calling, NEW domain \in Domain,
         cdn' = [cdn EXCEPT ![requests[r].vendor] = domain],
         UNCHANGED <<providers, accounts>>,
         NEW p \in Calling, Continue(r, p), p.alone = requests[r].alone,
         p.account = requests[r].account, p.vendor = requests[r].vendor,
         p.login = requests[r].login,
         p.todo \notin {<<"add">>, <<"add", "get">>},
         p.alone => p.id \in {0, domain.id},
         p.alone /\ p.todo = <<>> =>
            /\ p.op = "bind" => domain.owner = p.login
            /\ p.op = "unbind" => domain.owner # p.login
            /\ p.op = "refresh" /\ domain.owner = p.login =>
                  p.seen.status \in Truth(domain.phase) /\ p.seen.cname
            /\ p.op = "refresh" /\ domain.owner # p.login =>
                  p.seen.status = "offline" /\ ~p.seen.cname
  PROVE  /\ AloneInv'
         /\ requests' \in [Requests -> Served \cup {Idle}]
         /\ answer' \in [op : ClientOps \cup {"none"}, account : Accounts \cup {0}]
<1>1. ASSUME p.alone PROVE Knows(p)'
  <2>1. cdn'[p.vendor] = domain
    BY DEF CdnInv, TypeOK, Calling
  <2>2. Knows(requests[r])
    BY <1>1 DEF CdnInv, AloneInv, Alone, Calling
  <2>3. TypeOf(p.account)' = TypeOf(p.account)
    BY DEF TypeOf
  <2>4. p.vendor = TypeOf(p.account)' /\ p.login = accounts'[p.account].login
    BY <2>2, <2>3 DEF Knows
  <2>5. p.todo = <<>> => Achieved(p)'
    BY <1>1, <2>1 DEF Achieved, Mine
  <2> QED BY <1>1, <2>1, <2>4, <2>5 DEF Knows
<1> QED BY <1>1, ContinueKeeps

(* A call that comes back with an error.                                    *)
LEMMA MishapKeeps ==
  ASSUME CdnInv, NEW r \in Requests, requests[r] \in Calling, requests[r].todo # <<>>,
         NEW domain \in Domain, NEW error,
         cdn' = [cdn EXCEPT ![requests[r].vendor] = domain],
         UNCHANGED <<providers, accounts>>,
         requests[r].alone => requests[r].id \in {0, domain.id},
         requests[r].alone /\ error = "ErrDomainNotFound" =>
            domain.owner # requests[r].login,
         Mishap(r, error)
  PROVE  /\ AloneInv'
         /\ requests' \in [Requests -> Served \cup {Idle}]
         /\ answer' \in [op : ClientOps \cup {"none"}, account : Accounts \cup {0}]
<1>1. PICK q \in Calling : q = requests[r]
  OBVIOUS
<1>2. q # Idle /\ q.op \in ClientOps /\ q.todo \in Todo(q.op) /\ q.vendor \in Vendors
  BY DEF Calling, Idle, ClientOps
<1>3. CASE Ignored(Head(q.todo))
  <2>1. PICK p : p = [q EXCEPT !.todo = Tail(q.todo)]
    OBVIOUS
  <2>2. /\ Tail(q.todo) \in Todo(q.op) /\ Tail(q.todo) # <<>>
        /\ Tail(q.todo) \notin {<<"add">>, <<"add", "get">>}
    BY <1>1, <1>2, <1>3, TodoAdvances DEF Ignored
  <2>3. /\ p \in Calling /\ p.todo = Tail(q.todo) /\ p.alone = q.alone /\ p.id = q.id
        /\ p.account = q.account /\ p.vendor = q.vendor /\ p.login = q.login
    BY <2>1, <2>2 DEF Calling, Todo, ClientOps
  <2>4. Continue(r, p)
    BY <1>1, <1>3, <2>1 DEF Mishap
  <2> QED BY <1>1, <2>2, <2>3, <2>4, GoesOn
<1>4. CASE ~Ignored(Head(q.todo)) /\ q.op = "bind" /\ error = "ErrDomainAlreadyExists"
  <2>1. PICK p : p = [q EXCEPT !.todo = GetDomain(q.vendor)]
    OBVIOUS
  <2>2. /\ GetDomain(q.vendor) \in Todo("bind") /\ GetDomain(q.vendor) # <<>>
        /\ GetDomain(q.vendor) \notin {<<"add">>, <<"add", "get">>}
    BY <1>2, ProgramsDo
  <2>3. /\ p \in Calling /\ p.todo = GetDomain(q.vendor) /\ p.alone = q.alone
        /\ p.id = q.id /\ p.account = q.account /\ p.vendor = q.vendor
        /\ p.login = q.login
    BY <1>4, <2>1, <2>2 DEF Calling
  <2>4. Continue(r, [q EXCEPT !.todo = GetDomain(q.vendor)])
    BY <1>1, <1>4, Zenon DEF Mishap
  <2>5. Continue(r, p)
    BY <2>1, <2>4
  <2> QED BY <1>1, <2>2, <2>3, <2>5, GoesOn
<1>5. CASE /\ ~Ignored(Head(q.todo)) /\ q.op \in {"unbind", "refresh"}
           /\ error = "ErrDomainNotFound"
  <2>1. PICK p : p = [q EXCEPT !.todo = <<>>, !.seen = NoBinding]
    OBVIOUS
  <2>2. <<>> \in Todo(q.op) /\ NoBinding \in Bindings
    BY <1>2 DEF Todo, Bindings, NoBinding, Statuses
  <2>3. /\ p \in Calling /\ p.todo = <<>> /\ p.alone = q.alone /\ p.id = q.id
        /\ p.account = q.account /\ p.vendor = q.vendor /\ p.login = q.login
        /\ p.op = q.op /\ p.seen = NoBinding
    BY <2>1, <2>2 DEF Calling, Todo, ClientOps
  <2>4. Continue(r, p)
    BY <1>1, <1>5, <2>1 DEF Mishap
  <2>5. p.seen.status = "offline" /\ ~p.seen.cname
    BY <2>3 DEF NoBinding
  <2>6. p.todo \notin {<<"add">>, <<"add", "get">>}
    BY <2>3
  <2> QED BY <1>1, <1>5, <2>3, <2>4, <2>5, <2>6, GoesOn
<1>6. CASE Fail(r)
  BY <1>1, <1>2, <1>6, FailKeeps
<1> QED BY <1>1, <1>3, <1>4, <1>5, <1>6 DEF Mishap

(* A call that is carried out, and answered.                                *)
LEMMA HeardKeeps ==
  ASSUME CdnInv, NEW r \in Requests, requests[r] \in Calling, requests[r].todo # <<>>,
         NEW domain \in Effects(r), Refusal(r) = "",
         cdn' = [cdn EXCEPT ![requests[r].vendor] = domain],
         UNCHANGED <<providers, accounts>>, Continue(r, Heard(r, domain))
  PROVE  /\ AloneInv'
         /\ requests' \in [Requests -> Served \cup {Idle}]
         /\ answer' \in [op : ClientOps \cup {"none"}, account : Accounts \cup {0}]
<1>1. PICK q \in Calling : q = requests[r]
  OBVIOUS
<1>2. PICK head : head = Head(q.todo)
  OBVIOUS
<1>3. /\ q.op \in ClientOps /\ q.todo \in Todo(q.op) /\ q.vendor \in Vendors
      /\ q.login \in Nat \ {0} /\ q.id \in Nat /\ q.seen \in Bindings
  BY DEF Calling
<1>4. /\ Tail(q.todo) \in Todo(q.op)
      /\ head \in {"add", "get", "resolve", "stop", "delete"}
      /\ q.op # "unbind" => head \notin {"stop", "delete"}
      /\ q.op = "unbind" => head \notin {"add", "get"}
      /\ q.op = "refresh" => head # "add"
      /\ Tail(q.todo) = <<>> => head \in {"add", "get", "delete"}
      /\ Tail(q.todo) \notin {<<"add">>, <<"add", "get">>}
  BY <1>1, <1>2, <1>3, TodoAdvances
<1>5. /\ domain \in Domain
      /\ q.alone => q.id \in {0, domain.id}
      /\ head = "add" => domain.owner = q.login
      /\ head = "delete" => domain.owner = 0
      /\ head \in {"get", "resolve"} => domain = cdn[q.vendor]
  BY <1>1, <1>2, EffectsTyped
<1>6. head = "get" => domain.owner = q.login
  BY <1>1, <1>2, <1>5, RefusalTells DEF Addressed, CdnInv
<1>7. PICK told : told = CDNDomain(q.vendor, domain.phase)
  OBVIOUS
<1>8. told.status \in Truth(domain.phase) /\ told.status \in Statuses /\ told.cname = TRUE
  BY <1>3, <1>5, <1>7, StatusTold DEF Domain
<1>9. PICK seen : seen = IF head \in {"add", "get"}
                         THEN [NoBinding EXCEPT !.status = told.status, !.cname = told.cname]
                         ELSE q.seen
  OBVIOUS
<1>10. /\ seen \in Bindings
       /\ head \in {"add", "get"} => seen.status = told.status /\ seen.cname = TRUE
  BY <1>3, <1>8, <1>9 DEF Bindings, NoBinding
<1>11. PICK id : id = IF head = "resolve" THEN domain.id ELSE q.id
  OBVIOUS
<1>12. id \in Nat /\ (q.alone => id \in {0, domain.id})
  BY <1>3, <1>5, <1>11 DEF Domain
<1>13. PICK p : p = [q EXCEPT !.todo = Tail(q.todo), !.id = id, !.seen = seen]
  OBVIOUS
<1>14. Continue(r, p)
  BY <1>1, <1>2, <1>7, <1>9, <1>11, <1>13 DEF Heard
<1>15. /\ p \in Calling /\ p.todo = Tail(q.todo) /\ p.alone = q.alone /\ p.id = id
       /\ p.account = q.account /\ p.vendor = q.vendor /\ p.login = q.login
       /\ p.op = q.op /\ p.seen = seen
  BY <1>4, <1>10, <1>12, <1>13 DEF Calling, Todo, ClientOps
<1>16. ASSUME p.todo = <<>>
       PROVE  /\ p.op = "bind" => domain.owner = p.login
              /\ p.op = "unbind" => domain.owner # p.login
              /\ p.op = "refresh" /\ domain.owner = p.login =>
                    p.seen.status \in Truth(domain.phase) /\ p.seen.cname
              /\ p.op = "refresh" /\ domain.owner # p.login =>
                    p.seen.status = "offline" /\ ~p.seen.cname
  <2>1. head \in {"add", "get", "delete"}
    BY <1>4, <1>15, <1>16
  <2>2. CASE head = "delete"
    BY <1>3, <1>4, <1>5, <1>15, <2>2
  <2>3. CASE head \in {"add", "get"}
    <3>1. domain.owner = p.login /\ p.op # "unbind"
      BY <1>4, <1>5, <1>6, <1>15, <2>3
    <3> QED BY <1>8, <1>10, <1>15, <2>3, <3>1
  <2> QED BY <2>1, <2>2, <2>3
<1> QED BY <1>1, <1>4, <1>5, <1>12, <1>14, <1>15, <1>16, GoesOn

(* What a step of a request keeps, beside what the lemmas above say of it.  *)
LEMMA CallTyped ==
  ASSUME CdnInv, NEW v \in Vendors, NEW domain \in Domain,
         cdn' = [cdn EXCEPT ![v] = domain],
         UNCHANGED <<providers, accounts, binding>>, AloneInv',
         requests' \in [Requests -> Served \cup {Idle}],
         answer' \in [op : ClientOps \cup {"none"}, account : Accounts \cup {0}]
  PROVE  CdnInv'
BY DEF CdnInv, TypeOK, Domain

(* A call comes to its end in one of three ways.                            *)
LEMMA CallKeeps ==
  ASSUME CdnInv, NEW r \in Requests, requests[r] \in Calling, Call(r)
  PROVE  CdnInv'
<1>1. PICK v \in Vendors : v = requests[r].vendor
  BY DEF Calling
<1>2. requests[r].todo # <<>> /\ UNCHANGED <<providers, accounts, binding>>
  BY DEF Call, rows
<1>3. PICK error : error = ErrorOf(v, Refusal(r))
  OBVIOUS
<1>4. PICK domain \in Effects(r) :
         /\ cdn' = [cdn EXCEPT ![v] = domain]
         /\ IF error = "" THEN Continue(r, Heard(r, domain)) ELSE Mishap(r, error)
  BY <1>1, <1>3 DEF Call
<1>5. /\ domain \in Domain
      /\ requests[r].alone => requests[r].id \in {0, domain.id}
      /\ Refusal(r) # "" => domain = cdn[v]
  BY <1>1, <1>2, EffectsTyped
<1>6. Refusal(r) \in Reasons /\ (Refusal(r) = "absent" => ~Addressed(r))
  BY <1>2, RefusalTells DEF CdnInv
<1>7. /\ error = "" => Refusal(r) = ""
      /\ error = "ErrDomainNotFound" => Refusal(r) = "absent"
  BY <1>3, <1>6, ErrorsTell
<1>8. ASSUME requests[r].alone, error = "ErrDomainNotFound"
      PROVE  domain.owner # requests[r].login
  BY <1>1, <1>5, <1>6, <1>7, <1>8 DEF Addressed
<1>9. /\ AloneInv'
      /\ requests' \in [Requests -> Served \cup {Idle}]
      /\ answer' \in [op : ClientOps \cup {"none"}, account : Accounts \cup {0}]
  <2>1. CASE error = ""
    BY <1>1, <1>2, <1>4, <1>7, <2>1, HeardKeeps
  <2>2. CASE error # ""
    BY <1>1, <1>2, <1>4, <1>5, <1>8, <2>2, MishapKeeps
  <2> QED BY <2>1, <2>2
<1> QED BY <1>2, <1>4, <1>5, <1>9, CallTyped

(* A call that is refused for a reason of its own changes no domain.        *)
LEMMA CallRefusedKeeps ==
  ASSUME CdnInv, NEW r \in Requests, requests[r] \in Calling,
         NEW reason \in {"auth", "throttle", "broken"}, CallRefused(r, reason)
  PROVE  CdnInv'
<1>1. PICK v \in Vendors : v = requests[r].vendor
  BY DEF Calling
<1>2. requests[r].todo # <<>> /\ UNCHANGED <<providers, accounts, binding, cdn>>
  BY DEF CallRefused, rows
<1>3. PICK error : error = ErrorOf(v, reason)
  OBVIOUS
<1>4. Mishap(r, error)
  BY <1>1, <1>3 DEF CallRefused
<1>5. error # "ErrDomainNotFound"
  BY <1>3, ErrorsTell DEF Reasons
<1>6. PICK domain \in Domain : domain = cdn[v]
  BY DEF CdnInv, TypeOK, Domain
<1>7. cdn' = [cdn EXCEPT ![v] = domain]
  BY <1>2, <1>6 DEF CdnInv, TypeOK
<1>8. requests[r].alone => requests[r].id \in {0, domain.id}
  BY <1>1, <1>6 DEF CdnInv, AloneInv, Alone, Knows, Calling
<1>9. /\ AloneInv'
      /\ requests' \in [Requests -> Served \cup {Idle}]
      /\ answer' \in [op : ClientOps \cup {"none"}, account : Accounts \cup {0}]
  BY <1>1, <1>2, <1>4, <1>5, <1>7, <1>8, MishapKeeps
<1> QED BY <1>2, <1>7, <1>9, CallTyped

(* A call whose answer is lost has changed the domain, and ends its request.*)
LEMMA CallLostKeeps ==
  ASSUME CdnInv, NEW r \in Requests, requests[r] \in Calling, CallLost(r)
  PROVE  CdnInv'
<1>1. PICK v \in Vendors : v = requests[r].vendor
  BY DEF Calling
<1>2. requests[r].todo # <<>> /\ UNCHANGED <<providers, accounts, binding>>
  BY DEF CallLost, rows
<1>3. PICK domain \in Effects(r) : cdn' = [cdn EXCEPT ![v] = domain]
  BY <1>1 DEF CallLost
<1>4. Mishap(r, "error")
  BY DEF CallLost
<1>5. domain \in Domain /\ (requests[r].alone => requests[r].id \in {0, domain.id})
  BY <1>2, EffectsTyped
<1>6. /\ AloneInv'
      /\ requests' \in [Requests -> Served \cup {Idle}]
      /\ answer' \in [op : ClientOps \cup {"none"}, account : Accounts \cup {0}]
  BY <1>1, <1>2, <1>3, <1>4, <1>5, MishapKeeps
<1> QED BY <1>2, <1>3, <1>5, <1>6, CallTyped

-----------------------------------------------------------------------------
(* The statement that ends a request.                                       *)

(* An answer that may be held against the state is the one of a request     *)
(* that was alone and has done its calls.                                   *)
LEMMA SucceedKeeps ==
  ASSUME CdnInv, NEW r \in Requests, requests[r] \in Calling, requests[r].todo = <<>>,
         Succeed(r), UNCHANGED <<providers, accounts, cdn>>,
         NEW row \in Bindings,
         binding' = [binding EXCEPT ![requests[r].account] = row],
         requests[r].op = "bind" => row.live,
         requests[r].op = "unbind" => ~row.live,
         requests[r].op = "refresh" => /\ row.status = requests[r].seen.status
                                       /\ row.cname = requests[r].seen.cname
  PROVE  CdnInv'
<1>1. PICK q \in Calling : q = requests[r]
  OBVIOUS
<1>2. q.op \in ClientOps /\ q.account \in Accounts /\ q.vendor \in Vendors /\ q # Idle
  BY DEF Calling, Idle, ClientOps
<1>3. requests' = [requests EXCEPT ![r] = Idle]
  BY DEF Succeed
<1>4. requests' \in [Requests -> Served \cup {Idle}]
  BY <1>3 DEF CdnInv, TypeOK
<1>5. binding' \in [Accounts -> Bindings] /\ binding'[q.account] = row
  BY <1>1, <1>2 DEF CdnInv, TypeOK
<1>6. \A s \in Requests : ~Alone(requests'[s])
  BY <1>1, <1>2, <1>3, NoneBeside, IdleIsNotAlone DEF CdnInv, TypeOK
<1>7. \A s \in Requests : ~Alone(requests[s])'
  BY <1>6 DEF Alone
<1>8. CASE ~q.alone
  <2>1. answer' = NoAnswer
    BY <1>1, <1>8 DEF Succeed
  <2>2. answer'.op = "none"
    BY <2>1, NoAnswerIsTrue
  <2>3. AnswerIsTrue'
    BY <2>2 DEF AnswerIsTrue
  <2>4. AloneInv'
    BY <1>7, <2>2, <2>3 DEF AloneInv
  <2> QED BY <1>4, <1>5, <2>1, <2>4, NoAnswerIsTrue DEF CdnInv, TypeOK
<1>9. CASE q.alone
  <2>1. answer' = [op |-> q.op, account |-> q.account]
    BY <1>1, <1>9 DEF Succeed
  <2>2. answer' \in [op : ClientOps \cup {"none"}, account : Accounts \cup {0}]
    BY <1>2, <2>1
  <2>3. /\ \A s \in Requests \ {r} : requests[s] = Idle
        /\ Knows(q)
    BY <1>1, <1>2, <1>9 DEF CdnInv, AloneInv, Alone
  <2>4. \A s \in Requests : requests'[s] = Idle
    BY <1>3, <2>3 DEF CdnInv, TypeOK
  <2>5. /\ TypeOf(q.account)' = q.vendor
        /\ accounts'[q.account].login = q.login
        /\ cdn'[q.vendor] = cdn[q.vendor]
        /\ Achieved(q)
    BY <1>1, <2>3 DEF Knows, TypeOf
  <2>6. answer'.op = q.op /\ answer'.account = q.account
    BY <2>1
  <2>7. AnswerIsTrue'
    <3>1. CASE q.op = "bind"
      BY <1>1, <1>5, <2>5, <2>6, <3>1 DEF AnswerIsTrue, Achieved, Mine
    <3>2. CASE q.op = "unbind"
      BY <1>1, <1>5, <2>5, <2>6, <3>2 DEF AnswerIsTrue, Achieved, Mine
    <3>3. CASE q.op = "refresh"
      BY <1>1, <1>5, <2>5, <2>6, <3>3 DEF AnswerIsTrue, Achieved, Mine
    <3> QED BY <1>2, <3>1, <3>2, <3>3 DEF ClientOps
  <2>8. AloneInv'
    BY <1>7, <2>4, <2>7 DEF AloneInv
  <2> QED BY <1>4, <1>5, <2>2, <2>8 DEF CdnInv, TypeOK
<1> QED BY <1>8, <1>9

(* CreateBinding, SoftDeleteBinding and UpdateBindingStatus.                *)
LEMMA FinishKeeps ==
  ASSUME CdnInv, NEW r \in Requests, requests[r] \in Calling, Finish(r)
  PROVE  CdnInv'
<1>1. PICK q \in Calling : q = requests[r]
  OBVIOUS
<1>2. PICK a \in Accounts : a = q.account
  BY DEF Calling
<1>3. PICK old \in Bindings : old = binding[a]
  BY DEF CdnInv, TypeOK
<1>4. /\ q # Idle /\ q.todo = <<>> /\ q.op \in ClientOps /\ q.seen \in Bindings
      /\ UNCHANGED <<providers, accounts, cdn>>
  BY <1>1 DEF Finish, Calling, rows
<1>5. CASE Fail(r) /\ UNCHANGED binding
  BY <1>1, <1>4, <1>5, FailKeeps DEF CdnInv, TypeOK
<1>6. CASE q.op = "bind" /\ ~(Fail(r) /\ UNCHANGED binding)
  <2>1. PICK row : row = [q.seen EXCEPT !.id = old.id + 1, !.live = TRUE]
    OBVIOUS
  <2>2. row \in Bindings /\ row.live
    <3>1. PICK next \in Nat : next = old.id + 1
      BY <1>3 DEF Bindings
    <3>2. PICK seen \in Bindings : seen = q.seen
      BY <1>4
    <3>3. row = [seen EXCEPT !.id = next, !.live = TRUE]
      BY <2>1, <3>1, <3>2
    <3> QED BY <3>3 DEF Bindings
  <2>3. Succeed(r) /\ binding' = [binding EXCEPT ![a] = row]
    BY <1>1, <1>2, <1>3, <1>6, <2>1 DEF Finish, CreateBinding
  <2> QED BY <1>1, <1>2, <1>4, <1>6, <2>2, <2>3, SucceedKeeps
<1>7. CASE q.op = "unbind" /\ ~(Fail(r) /\ UNCHANGED binding)
  <2>1. PICK row : row = [old EXCEPT !.live = FALSE]
    OBVIOUS
  <2>2. row \in Bindings /\ ~row.live
    BY <2>1 DEF Bindings
  <2>3. Succeed(r) /\ binding' = [binding EXCEPT ![a] = row]
    BY <1>1, <1>2, <1>3, <1>7, <2>1 DEF Finish, SoftDeleteBinding
  <2> QED BY <1>1, <1>2, <1>4, <1>7, <2>2, <2>3, SucceedKeeps
<1>8. CASE q.op = "refresh" /\ ~(Fail(r) /\ UNCHANGED binding)
  <2>1. PICK row : row = [old EXCEPT !.status = q.seen.status, !.cname = q.seen.cname]
    OBVIOUS
  <2>2. /\ row \in Bindings
        /\ row.status = q.seen.status /\ row.cname = q.seen.cname
    BY <1>4, <2>1 DEF Bindings
  <2>3. Succeed(r) /\ binding' = [binding EXCEPT ![a] = row]
    BY <1>1, <1>2, <1>3, <1>8, <2>1 DEF Finish, UpdateBindingStatus
  <2> QED BY <1>1, <1>2, <1>4, <1>8, <2>2, <2>3, SucceedKeeps
<1> QED BY <1>4, <1>5, <1>6, <1>7, <1>8 DEF ClientOps

(* The statement fails, or the server dies.                                 *)
LEMMA AbortKeeps ==
  ASSUME CdnInv, NEW r \in Requests, Abort(r)
  PROVE  CdnInv'
BY FailKeeps DEF Abort, rows, CdnInv, TypeOK

-----------------------------------------------------------------------------
(* Requests that begin.                                                     *)

(* A type has a client, and an account its credentials, when Get says so.   *)
LEMMA GetRegistered ==
  ASSUME NEW type, NEW login, Get(type, login) = ""
  PROVE  type \in Vendors /\ login # 0
BY DEF Get, Vendors, NewAliyunCDNProvider, NewTencentCDNProvider, NewHuaweiCDNProvider

(* What a request reads of its account and its binding when it begins.      *)
LEMMA ClientKnows ==
  ASSUME CdnInv, NEW a \in Accounts, resolveProvider(a) = "",
         NEW op \in ClientOps, NEW calls \in Todo(op), calls # <<>>
  PROVE  /\ TypeOf(a) \in Vendors
         /\ Client(a, op, calls).op = op
         /\ Client(a, op, calls) \in Calling
         /\ Knows(Client(a, op, calls))
<1>1. Get(TypeOf(a), accounts[a].login) = ""
  BY DEF resolveProvider, TypeOf
<1>2. PICK v \in Vendors : v = TypeOf(a)
  BY <1>1, GetRegistered
<1>3. PICK login \in Nat \ {0} : login = accounts[a].login
  BY <1>1, GetRegistered DEF CdnInv, TypeOK
<1>4. PICK row \in Nat : row = binding[a].id
  BY DEF CdnInv, TypeOK, Bindings
<1>5. PICK q : q = [op |-> op, account |-> a, vendor |-> v, login |-> login,
                    todo |-> calls, row |-> row, id |-> 0, seen |-> NoBinding,
                    alone |-> TRUE]
  OBVIOUS
<1>6. q = Client(a, op, calls)
  BY <1>2, <1>3, <1>4, <1>5 DEF Client
<1>7. NoBinding \in Bindings
  BY DEF NoBinding, Bindings, Statuses
<1>8. calls \in Todo("bind") \cup Todo("unbind")
  BY DEF Todo, ClientOps
<1>9. q \in Calling /\ q.op = op
  BY <1>5, <1>7, <1>8 DEF Calling
<1>10. Knows(q)
  BY <1>2, <1>3, <1>5 DEF Knows
<1> QED BY <1>2, <1>6, <1>9, <1>10

(* BindDomain, UnbindDomain and RefreshStatus up to the first call.         *)
LEMMA ClientBegins ==
  ASSUME CdnInv, NEW r \in Requests, NEW a \in Accounts,
         BindDomain(r, a) \/ UnbindDomain(r, a) \/ RefreshStatus(r, a),
         UNCHANGED <<providers, accounts, binding, cdn>>
  PROVE  CdnInv'
<1>1. ASSUME NEW op \in ClientOps, NEW calls \in Todo(op), calls # <<>>,
             resolveProvider(a) = "", Begin(r, Client(a, op, calls))
      PROVE  CdnInv'
  <2>1. PICK q \in Served : /\ q = Client(a, op, calls)
                            /\ q \in Calling /\ Knows(q)
    BY <1>1, ClientKnows DEF Served
  <2>2. Begin(r, q)
    BY <1>1, <2>1
  <2> QED BY <2>1, <2>2, BeginKeeps DEF CdnInv, TypeOK
<1>2. resolveProvider(a) = "" /\ TypeOf(a) \in Vendors
  BY GetRegistered DEF BindDomain, UnbindDomain, RefreshStatus, resolveProvider, TypeOf
<1>3. CASE BindDomain(r, a)
  BY <1>1, <1>2, <1>3, ProgramsDo DEF BindDomain, ClientOps
<1>4. CASE UnbindDomain(r, a)
  BY <1>1, <1>2, <1>4, ProgramsDo DEF UnbindDomain, ClientOps
<1>5. CASE RefreshStatus(r, a)
  BY <1>1, <1>2, <1>5, ProgramsDo DEF RefreshStatus, ClientOps
<1> QED BY <1>3, <1>4, <1>5

(* Requests of anyone, and those of the operator.                           *)
LEMMA RequestKeeps ==
  ASSUME CdnInv, NEW r \in Requests,
         Retry(r) \/ \E a \in Accounts : Bind(r, a) \/ Unbind(r, a) \/ Refresh(r, a)
  PROVE  CdnInv'
<1>1. CASE Retry(r)
  BY <1>1, ClientBegins DEF Retry, rows
<1>2. CASE \E a \in Accounts : Bind(r, a) \/ Unbind(r, a) \/ Refresh(r, a)
  BY <1>2, ClientBegins DEF Bind, Unbind, Refresh, rows
<1> QED BY <1>1, <1>2

-----------------------------------------------------------------------------
(* Providers and accounts, and what changes at the vendors by itself.       *)

(* Credentials, left out or given.                                          *)
LEMMA GivenLogin ==
  ASSUME NEW given \in {{}} \cup {{l} : l \in Logins}
  PROVE  (IF given = {} THEN 0 ELSE CHOOSE l \in given : TRUE) \in Nat
<1>1. CASE given = {}
  BY <1>1
<1>2. CASE given # {}
  <2>1. PICK l \in Logins : given = {l}
    BY <1>2
  <2>2. (CHOOSE k \in given : TRUE) \in given
    BY <2>1
  <2> QED BY <1>2, <2>1, <2>2
<1> QED BY <1>1, <1>2

(* Changes of a provider or of an account, in one statement.                *)
LEMMA AdministerKeeps ==
  ASSUME CdnInv, Administer,
         providers' \in [Providers -> [type : InitTypes \cup allowedProviderTypes,
                                       deleted : BOOLEAN]],
         accounts' \in [Accounts -> [state : {"none", "live", "deleted"},
                                     provider : Providers, login : Nat]]
  PROVE  CdnInv'
BY DisturbKeeps DEF Administer, CdnInv, TypeOK

(* The type of a provider changes, or there is a new one.                   *)
LEMMA ProviderKeeps ==
  ASSUME CdnInv, NEW p \in Providers, NEW type \in allowedProviderTypes,
         CreateProvider(p, type) \/ UpdateProvider(p, type)
  PROVE  CdnInv'
<1>1. providers' \in [Providers -> [type : InitTypes \cup allowedProviderTypes,
                                    deleted : BOOLEAN]]
  <2> DEFINE Rows == [type : InitTypes \cup allowedProviderTypes, deleted : BOOLEAN]
  <2>1. PICK row \in Rows : providers' = [providers EXCEPT ![p] = row]
    <3>1. CASE CreateProvider(p, type)
      <4>1. [type |-> type, deleted |-> FALSE] \in Rows
        OBVIOUS
      <4> QED BY <3>1, <4>1 DEF CreateProvider, ServiceCreateProvider, InsertProvider
    <3>2. CASE UpdateProvider(p, type)
      <4>1. PICK new : new = [providers[p] EXCEPT !.type = type]
        OBVIOUS
      <4>2. new \in Rows
        BY <4>1 DEF CdnInv, TypeOK
      <4>3. providers' = [providers EXCEPT ![p] = new]
        BY <3>2, <4>1 DEF UpdateProvider, ServiceUpdateProvider, SetProvider
      <4> QED BY <4>2, <4>3
    <3> QED BY <3>1, <3>2
  <2> QED BY <2>1 DEF CdnInv, TypeOK
<1> QED BY <1>1, AdministerKeeps DEF CreateProvider, UpdateProvider, CdnInv, TypeOK

(* The credentials of an account change.                                    *)
LEMMA AccountKeeps ==
  ASSUME CdnInv, NEW a \in Accounts, NEW given \in {{}} \cup {{l} : l \in Logins},
         UpdateAccount(a, given)
  PROVE  CdnInv'
<1>1. PICK login \in Nat :
         login = IF given = {} THEN 0 ELSE CHOOSE l \in given : TRUE
  BY GivenLogin
<1>2. accounts' = [accounts EXCEPT ![a].login = login]
  BY <1>1 DEF UpdateAccount, ServiceUpdateAccount, SetAccount
<1>3. accounts' \in [Accounts -> [state : {"none", "live", "deleted"},
                                  provider : Providers, login : Nat]]
  BY <1>2 DEF CdnInv, TypeOK
<1> QED BY <1>3, AdministerKeeps DEF UpdateAccount, CdnInv, TypeOK

(* Changes that take two statements, and begin with a look.                 *)
LEMMA AdminBegins ==
  ASSUME CdnInv, NEW r \in Requests,
         \/ \E a \in Accounts, p \in Providers, given \in {{}} \cup {{l} : l \in Logins} :
               CreateAccount(r, a, p, given)
         \/ \E a \in Accounts : DeleteAccount(r, a)
         \/ \E p \in Providers : DeleteProvider(r, p)
  PROVE  CdnInv'
<1>1. ASSUME NEW q \in Creating \cup Deleting, Begin(r, q),
             UNCHANGED <<providers, accounts, binding, cdn>>
      PROVE  CdnInv'
  <2>1. q \in Served /\ q.op \notin ClientOps
    BY <1>1 DEF Served, Creating, Deleting, ClientOps
  <2> QED BY <1>1, <2>1, BeginKeeps DEF CdnInv, TypeOK
<1>2. CASE \E a \in Accounts, p \in Providers, given \in {{}} \cup {{l} : l \in Logins} :
              CreateAccount(r, a, p, given)
  <2>1. PICK a \in Accounts, p \in Providers, given \in {{}} \cup {{l} : l \in Logins} :
           CreateAccount(r, a, p, given)
    BY <1>2
  <2>2. PICK login \in Nat : login = ServiceCreateAccount(p, given).login
    BY GivenLogin DEF ServiceCreateAccount
  <2>3. PICK q : q = [op |-> "create account",
                      account |-> [account |-> a, provider |-> p],
                      login |-> login, todo |-> <<>>, alone |-> TRUE]
    OBVIOUS
  <2>4. q \in Creating
    BY <2>3 DEF Creating
  <2>5. Begin(r, q) /\ UNCHANGED <<providers, accounts, binding, cdn>>
    BY <2>1, <2>2, <2>3 DEF CreateAccount, AdminRequest, rows
  <2> QED BY <1>1, <2>4, <2>5
<1>3. CASE \/ \E a \in Accounts : DeleteAccount(r, a)
           \/ \E p \in Providers : DeleteProvider(r, p)
  <2>1. PICK op \in {"delete account", "delete provider"},
             subject \in Accounts \cup Providers : AdminRequest(r, op, subject, 0)
    BY <1>3 DEF DeleteAccount, DeleteProvider
  <2>2. PICK q : q = [op |-> op, account |-> subject, login |-> 0, todo |-> <<>>,
                      alone |-> TRUE]
    OBVIOUS
  <2>3. q \in Deleting
    BY <2>2 DEF Deleting
  <2>4. Begin(r, q) /\ UNCHANGED <<providers, accounts, binding, cdn>>
    BY <2>1, <2>2 DEF AdminRequest, rows
  <2> QED BY <1>1, <2>3, <2>4
<1> QED BY <1>2, <1>3

(* The second statement: an account is inserted, a row deleted.             *)
LEMMA AdminEnds ==
  ASSUME CdnInv, NEW r \in Requests, InsertAccount(r) \/ DeleteRow(r)
  PROVE  CdnInv'
<1>1. /\ AloneInv'
      /\ requests' \in [Requests -> Served \cup {Idle}]
      /\ answer' \in [op : ClientOps \cup {"none"}, account : Accounts \cup {0}]
  BY FailKeeps DEF InsertAccount, DeleteRow
<1>2. accounts' \in [Accounts -> [state : {"none", "live", "deleted"},
                                  provider : Providers, login : Nat]]
  <2>1. CASE UNCHANGED accounts
    BY <2>1 DEF CdnInv, TypeOK
  <2>2. CASE InsertAccount(r) /\ ~UNCHANGED accounts
    <3>1. PICK q \in Creating : q = requests[r]
      BY <2>2, Kinds DEF InsertAccount, CdnInv
    <3>2. PICK row : row = [state |-> "live", provider |-> q.account.provider,
                            login |-> q.login]
      OBVIOUS
    <3>3. row \in [state : {"none", "live", "deleted"}, provider : Providers, login : Nat]
      BY <3>2 DEF Creating
    <3>4. accounts' = [accounts EXCEPT ![q.account.account] = row]
      BY <2>2, <3>1, <3>2 DEF InsertAccount
    <3> QED BY <3>3, <3>4 DEF CdnInv, TypeOK
  <2>3. CASE DeleteRow(r) /\ ~UNCHANGED accounts
    <3>1. accounts' = [accounts EXCEPT ![requests[r].account].state = "deleted"]
      BY <2>3 DEF DeleteRow, SoftDeleteAccount
    <3>2. PICK a : a = requests[r].account
      OBVIOUS
    <3>3. a \in Accounts
      BY <2>3, <3>1, <3>2 DEF CdnInv, TypeOK
    <3>4. PICK row : row = [accounts[a] EXCEPT !.state = "deleted"]
      OBVIOUS
    <3>5. row \in [state : {"none", "live", "deleted"}, provider : Providers, login : Nat]
      BY <3>3, <3>4 DEF CdnInv, TypeOK
    <3>6. accounts' = [accounts EXCEPT ![a] = row]
      BY <3>1, <3>2, <3>3, <3>4 DEF CdnInv, TypeOK
    <3> QED BY <3>5, <3>6 DEF CdnInv, TypeOK
  <2> QED BY <2>1, <2>2, <2>3
<1>3. providers' \in [Providers -> [type : InitTypes \cup allowedProviderTypes,
                                    deleted : BOOLEAN]]
  <2>1. CASE UNCHANGED providers
    BY <2>1 DEF CdnInv, TypeOK
  <2>2. CASE DeleteRow(r) /\ ~UNCHANGED providers
    <3>1. providers' = [providers EXCEPT ![requests[r].account].deleted = TRUE]
      BY <2>2 DEF DeleteRow, SoftDeleteProvider
    <3>2. PICK p : p = requests[r].account
      OBVIOUS
    <3>3. p \in Providers
      BY <2>2, <3>1, <3>2 DEF CdnInv, TypeOK
    <3>4. PICK row : row = [providers[p] EXCEPT !.deleted = TRUE]
      OBVIOUS
    <3>5. row \in [type : InitTypes \cup allowedProviderTypes, deleted : BOOLEAN]
      <4>1. PICK old \in [type : InitTypes \cup allowedProviderTypes, deleted : BOOLEAN] :
               old = providers[p]
        BY <3>3 DEF CdnInv, TypeOK
      <4>2. row = [old EXCEPT !.deleted = TRUE]
        BY <3>4, <4>1
      <4> QED BY <4>2
    <3>6. providers' = [providers EXCEPT ![p] = row]
      BY <3>1, <3>2, <3>3, <3>4 DEF CdnInv, TypeOK
    <3> QED BY <3>5, <3>6 DEF CdnInv, TypeOK
  <2> QED BY <2>1, <2>2 DEF InsertAccount
<1> QED BY <1>1, <1>2, <1>3 DEF InsertAccount, DeleteRow, CdnInv, TypeOK

(* A change of state at a vendor, and a domain removed there by hand.       *)
LEMMA VendorKeeps ==
  ASSUME CdnInv, NEW v \in Vendors, Settle(v) \/ Console(v)
  PROVE  CdnInv'
<1>1. PICK domain \in Domain : cdn' = [cdn EXCEPT ![v] = domain]
  <2>1. PICK old \in Domain : old = cdn[v]
    BY DEF CdnInv, TypeOK, Domain
  <2>2. CASE Settle(v)
    <3>1. PICK p \in {"on", "failed", "off"} : cdn' = [cdn EXCEPT ![v].phase = p]
      BY <2>2 DEF Settle
    <3>2. PICK new : new = [old EXCEPT !.phase = p]
      OBVIOUS
    <3>3. new \in Domain
      BY <3>2 DEF Domain, Phases
    <3>4. cdn' = [cdn EXCEPT ![v] = new]
      BY <2>1, <3>1, <3>2
    <3> QED BY <3>3, <3>4
  <2>3. CASE Console(v)
    <3>1. PICK new : new = [Absent EXCEPT !.id = old.id]
      OBVIOUS
    <3>2. new \in Domain
      BY <3>1 DEF Domain, Phases, Absent
    <3>3. cdn' = [cdn EXCEPT ![v] = new]
      BY <2>1, <2>3, <3>1 DEF Console
    <3> QED BY <3>2, <3>3
  <2> QED BY <2>2, <2>3
<1>2. /\ AloneInv'
      /\ requests' \in [Requests -> Served \cup {Idle}]
      /\ answer' \in [op : ClientOps \cup {"none"}, account : Accounts \cup {0}]
  BY DisturbKeeps DEF Settle, Console
<1>3. UNCHANGED <<providers, accounts, binding>>
  BY DEF Settle, Console, rows
<1> QED BY <1>1, <1>2, <1>3, CallTyped

-----------------------------------------------------------------------------
(* The invariant.                                                           *)

(* At first nothing is bound and nobody is served.                          *)
LEMMA CdnInit == Init => CdnInv
<1> SUFFICES ASSUME Init PROVE CdnInv
  OBVIOUS
<1>1. PICK type \in InitTypes, second \in Logins \cup {0} :
         /\ providers = [p \in Providers |->
                IF p = 1 THEN [type |-> type, deleted |-> FALSE]
                ELSE [type |-> "cloudflare", deleted |-> second = 0]]
         /\ accounts = [a \in Accounts |->
                IF a = 1 THEN [state |-> "live", provider |-> 1, login |-> 1]
                ELSE [state |-> IF second = 0 THEN "none" ELSE "live",
                      provider |-> 1, login |-> second]]
  BY DEF Init
<1>2. providers \in [Providers -> [type : InitTypes \cup allowedProviderTypes,
                                   deleted : BOOLEAN]]
  <2>1. PICK none \in BOOLEAN : none = (second = 0)
    OBVIOUS
  <2>2. [type |-> "cloudflare", deleted |-> none] \in
           [type : InitTypes \cup allowedProviderTypes, deleted : BOOLEAN]
    BY DEF allowedProviderTypes
  <2>3. [type |-> type, deleted |-> FALSE] \in
           [type : InitTypes \cup allowedProviderTypes, deleted : BOOLEAN]
    OBVIOUS
  <2>4. providers = [p \in Providers |->
                        IF p = 1 THEN [type |-> type, deleted |-> FALSE]
                        ELSE [type |-> "cloudflare", deleted |-> none]]
    BY <1>1, <2>1
  <2> QED BY <2>2, <2>3, <2>4
<1>3. accounts \in [Accounts -> [state : {"none", "live", "deleted"},
                                 provider : Providers, login : Nat]]
  BY <1>1
<1>4. binding \in [Accounts -> Bindings]
  BY DEF Init, NoBinding, Bindings, Statuses
<1>5. cdn \in [Vendors -> [id : Nat, owner : Nat, phase : Phases]]
  BY DEF Init, Absent, Phases
<1>6. requests \in [Requests -> Served \cup {Idle}]
  BY DEF Init
<1>7. answer.op = "none"
      /\ answer \in [op : ClientOps \cup {"none"}, account : Accounts \cup {0}]
  BY NoAnswerIsTrue DEF Init
<1>8. \A r \in Requests : ~Alone(requests[r])
  BY IdleIsNotAlone DEF Init
<1>9. AnswerIsTrue
  BY <1>7 DEF AnswerIsTrue
<1>10. AloneInv
  BY <1>7, <1>8, <1>9 DEF AloneInv
<1> QED BY <1>2, <1>3, <1>4, <1>5, <1>6, <1>7, <1>10 DEF CdnInv, TypeOK

(* Only a request of a client has calls to make.                            *)
LEMMA WithCalls ==
  ASSUME CdnInv, NEW r \in Requests, requests[r] # Idle, requests[r].todo # <<>>
  PROVE  requests[r] \in Calling
<1>1. CASE requests[r] \in Creating \cup Deleting
  BY <1>1 DEF Creating, Deleting
<1> QED BY <1>1, Kinds DEF CdnInv, Served

(* Every step keeps the invariant.                                          *)
LEMMA CdnStep == CdnInv /\ [Next]_vars => CdnInv'
<1> SUFFICES ASSUME CdnInv, [Next]_vars PROVE CdnInv'
  OBVIOUS
<1>1. CASE UNCHANGED vars
  BY <1>1 DEF vars, rows, CdnInv, TypeOK, AloneInv, AnswerIsTrue, Alone, Knows,
              Achieved, Mine, TypeOf
<1>2. ASSUME NEW r \in Requests, Call(r) PROVE CdnInv'
  BY <1>2, WithCalls, CallKeeps DEF Call
<1>3. ASSUME NEW r \in Requests, Finish(r) PROVE CdnInv'
  <2>1. requests[r].op \in ClientOps
    BY <1>3 DEF Finish, ClientOps
  <2> QED BY <1>3, <2>1, Kinds, FinishKeeps DEF CdnInv
<1>4. ASSUME NEW r \in Requests, Step(r) PROVE CdnInv'
  BY <1>2, <1>3, <1>4, AdminEnds DEF Step
<1>5. ASSUME NEW r \in Requests, Admin(r) PROVE CdnInv'
  BY <1>5, ProviderKeeps, AccountKeeps, AdminBegins DEF Admin
<1>6. ASSUME NEW r \in Requests, NEW reason \in {"auth", "throttle", "broken"},
             CallRefused(r, reason)
      PROVE  CdnInv'
  BY <1>6, WithCalls, CallRefusedKeeps DEF CallRefused
<1>7. ASSUME NEW r \in Requests, CallLost(r) PROVE CdnInv'
  BY <1>7, WithCalls, CallLostKeeps DEF CallLost
<1>8. CASE Next
  BY <1>4, <1>5, <1>6, <1>7, <1>8, RequestKeeps, AbortKeeps, VendorKeeps DEF Next
<1> QED BY <1>1, <1>8

(* The invariant holds throughout.                                          *)
LEMMA CdnInvariant == Spec => []CdnInv
BY CdnInit, CdnStep, PTL DEF Spec

(* The variables of CdnBindings keep their types.                           *)
THEOREM CdnTypeCorrect == Spec => []TypeOK
<1>1. CdnInv => TypeOK
  BY DEF CdnInv
<1> QED BY <1>1, CdnInvariant, PTL

(* A request answered well that met no other one has left the database and  *)
(* the vendor in agreement: a domain bound on both sides, gone from both,   *)
(* or with the status the vendor has, whatever was refused, was there       *)
(* already or was gone on the way (BindDomain, UnbindDomain, RefreshStatus).*)
THEOREM AnswersAgree == Spec => []AnswerIsTrue
<1>1. CdnInv => AnswerIsTrue
  BY DEF CdnInv, AloneInv
<1> QED BY <1>1, CdnInvariant, PTL

=============================================================================
