-------------------------- MODULE RegistrarClients --------------------------
(***************************************************************************)
(* The clients of pkg/provider/registrar: how each of them asks for the    *)
(* domains of an account, page by page, and when it stops.                 *)
(*                                                                         *)
(* A name is a number, in the order in which the API lists.  Of a domain   *)
(* only its expiry date is kept, a day; 0 is a date that is missing or     *)
(* cannot be parsed, which becomes NULL.                                   *)
(***************************************************************************)
EXTENDS Integers, FiniteSets

CONSTANT RegistrarPage  \* page size: 500 at GoDaddy, 100 at the others

ASSUME RegistrarPageAssumption == RegistrarPage \in Nat \ {0}

(* The types registered with Register. *)
RegisteredTypes == {"godaddy", "namecheap", "aliyun"}

(* The HTTP status of an answer, and whether its body is an error.  Only   *)
(* GoDaddy always says in the status that it refuses.                      *)
Answers(type, refused) ==
    IF ~refused THEN {[http |-> 200, error |-> FALSE]}
    ELSE {[http |-> h, error |-> TRUE] :
             h \in IF type = "godaddy" THEN {403} ELSE {200, 403}}

-----------------------------------------------------------------------------
(* One call: the errors that are recognised. *)

checkStatus(answer) == answer.http = 200

goDaddyFetchDomainList(answer) == checkStatus(answer)

mapNamecheapErrors(answer) == ~answer.error

namecheapFetchPage(answer) == answer.http = 200 /\ mapNamecheapErrors(answer)

(* Mutant: an error told in the body of a 200 is taken for an empty page.  *)
aliyunCheckStatusOnly(answer) == answer.http = 200

aliyunCheckStatus(answer) == answer.http = 200 /\ ~answer.error

aliyunDoRequest(answer) == aliyunCheckStatus(answer)

FetchOK(type, answer) ==
    CASE type = "godaddy"   -> goDaddyFetchDomainList(answer)
      [] type = "namecheap" -> namecheapFetchPage(answer)
      [] type = "aliyun"    -> aliyunDoRequest(answer)

-----------------------------------------------------------------------------
(* A page, as the API gives it: the names after a marker, or the page of a *)
(* number.                                                                 *)

(* How many of the names come before one. *)
Before(names, n) == Cardinality({m \in names : m < n})

PageFrom(names, from) ==
    {n \in names : Before(names, n) \in from..(from + RegistrarPage - 1)}

After(names, marker) == PageFrom({n \in names : n > marker}, 0)

Numbered(names, page) == PageFrom(names, (page - 1) * RegistrarPage)

-----------------------------------------------------------------------------
(* The loops of ListDomains: what a page adds, whether there is another,   *)
(* and how that one is asked for.                                          *)

LastName(items) == CHOOSE n \in items : \A m \in items : m <= n

(* A page that is not full is the last one; the next begins after the last *)
(* name of this one.                                                       *)
goDaddyListDomains(names, marker) ==
    LET items == After(names, marker)
    IN  [items |-> items, more |-> Cardinality(items) >= RegistrarPage,
         next |-> IF items = {} THEN marker ELSE LastName(items)]

(* The number of pages is computed from the total of each answer.          *)
namecheapListDomains(names, page) ==
    LET total == Cardinality(names)
        pages == (total + RegistrarPage - 1) \div RegistrarPage
    IN  [items |-> Numbered(names, page), more |-> total # 0 /\ page < pages,
         next |-> page + 1]

(* The API says itself whether there is a next page.                       *)
aliyunListDomains(names, page) ==
    [items |-> Numbered(names, page),
     more  |-> page * RegistrarPage < Cardinality(names),
     next  |-> page + 1]

FirstPage(type) == IF type = "godaddy" THEN 0 ELSE 1

ListDomains(type, names, cursor) ==
    CASE type = "godaddy"   -> goDaddyListDomains(names, cursor)
      [] type = "namecheap" -> namecheapListDomains(names, cursor)
      [] type = "aliyun"    -> aliyunListDomains(names, cursor)

-----------------------------------------------------------------------------
(* What becomes of an item.  Each API writes dates in a layout of its own; *)
(* what is written in another, or left out (day 0), is not parsed.  The    *)
(* column is a DATE: times of day are lost.                                *)

Layout(type) ==
    CASE type = "godaddy"   -> "RFC3339"
      [] type = "namecheap" -> "01/02/2006"
      [] type = "aliyun"    -> "2006-01-02 15:04:05"

Parse(layout, date) == IF date.layout = layout THEN date.day ELSE 0

toDomainInfo(item) ==
    [fqdn |-> item.name, expiry |-> Parse("RFC3339", item.expires)]

ncToDomainInfo(item) ==
    [fqdn |-> item.name, expiry |-> Parse("01/02/2006", item.expires)]

aliyunToDomainInfo(item) ==
    [fqdn |-> item.name, expiry |-> Parse("2006-01-02 15:04:05", item.expires)]

DomainInfo(type, name, day) ==
    LET item == [name |-> name, expires |-> [layout |-> Layout(type), day |-> day]]
    IN  CASE type = "godaddy"   -> toDomainInfo(item)
          [] type = "namecheap" -> ncToDomainInfo(item)
          [] type = "aliyun"    -> aliyunToDomainInfo(item)

(* The constructors need credentials; 0 stands for {}.                     *)
newGoDaddyProvider(login)   == login # 0
newNamecheapProvider(login) == login # 0
newAliyunProvider(login)    == login # 0

(* Get: the factory of the type, if there is one. *)
GetProvider(type, login) ==
    CASE type = "godaddy"   -> newGoDaddyProvider(login)
      [] type = "namecheap" -> newNamecheapProvider(login)
      [] type = "aliyun"    -> newAliyunProvider(login)
      [] OTHER              -> FALSE

=============================================================================
