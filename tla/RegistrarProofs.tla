--------------------------- MODULE RegistrarProofs ---------------------------
(***************************************************************************)
(* Theorems about Registrars and the import, for any names, accounts,      *)
(* registrars, files, page sizes and bounds: no line of a file is lost, a  *)
(* listing misses no domain, a sync leaves the dates of the registrar, and *)
(* an expiry that was checked has been told.                               *)
(***************************************************************************)
EXTENDS Registrars, FiniteSetTheorems, WellFoundedInduction, TLAPS

-----------------------------------------------------------------------------
(* Least and greatest numbers.                                             *)

LessThan == OpToRel(<, Nat)

(* A set of numbers that is not empty has a least one. *)
LEMMA LeastOf ==
    ASSUME NEW T \in SUBSET Nat, T # {}
    PROVE  \E x \in T : \A y \in T : x <= y
<1>1. IsWellFoundedOn(LessThan, Nat)
  BY NatLessThanWellFounded, Zenon DEF LessThan
<1>2. PICK x \in T : \A y \in T : <<y, x>> \notin LessThan
  BY <1>1, WFMin
<1>3. \A y \in T : y < x => <<y, x>> \in LessThan
  BY DEF LessThan, OpToRel
<1>4. \A y \in T : ~(y < x)
  BY <1>2, <1>3
<1> QED
  BY <1>4

(* A finite one has a greatest one: the one that the fewest are greater    *)
(* than.                                                                   *)
LEMMA GreatestOf ==
    ASSUME NEW T \in SUBSET Nat, IsFiniteSet(T), T # {}
    PROVE  \E x \in T : \A y \in T : y <= x
<1> DEFINE Above(x) == {y \in T : x < y}
           counts == {Cardinality(Above(x)) : x \in T}
<1>0. \A x \in T : x \in Nat
  OBVIOUS
<1>1. \A x \in T : IsFiniteSet(Above(x)) /\ Cardinality(Above(x)) \in Nat
  <2> TAKE x \in T
  <2>1. Above(x) \in SUBSET T
    OBVIOUS
  <2> QED
    BY <2>1, FS_Subset, FS_CardinalityType
<1>2. counts \in SUBSET Nat /\ counts # {}
  BY <1>1
<1>3. PICK c \in counts : \A d \in counts : c <= d
  <2> HIDE DEF counts
  <2> QED
    BY <1>2, LeastOf
<1>4. PICK x \in T : Cardinality(Above(x)) = c
  BY <1>3
<1>5. ASSUME NEW y \in T, x < y PROVE FALSE
  <2>1. y \in Above(x) /\ y \notin Above(y)
    BY <1>0, <1>5
  <2>2. Above(y) \subseteq Above(x)
    BY <1>0, <1>4, <1>5
  <2>3. Above(y) \in SUBSET Above(x) /\ Above(y) # Above(x)
    BY <2>1, <2>2
  <2>4. IsFiniteSet(Above(x))
    BY <1>1, <1>4
  <2> HIDE DEF Above
  <2>5. Cardinality(Above(y)) < Cardinality(Above(x))
    BY <2>3, <2>4, <1>1, <1>4, FS_Subset
  <2>6. c <= Cardinality(Above(y))
    BY <1>3
  <2> QED
    BY <1>1, <1>4, <2>5, <2>6
<1> QED
  BY <1>0, <1>5

-----------------------------------------------------------------------------
(* The pages of a list.                                                    *)

(* The names that come before one of a finite set. *)
LEMMA BeforeIs ==
    ASSUME NEW names \in SUBSET Nat, IsFiniteSet(names), NEW n
    PROVE  /\ IsFiniteSet({m \in names : m < n})
           /\ Before(names, n) \in Nat
           /\ Before(names, n) <= Cardinality(names) /\ Cardinality(names) \in Nat
           /\ n \in names => Before(names, n) < Cardinality(names)
<1> DEFINE B == {m \in names : m < n}
<1>1. B \in SUBSET names
  OBVIOUS
<1>2. n \in names => n \notin B
  OBVIOUS
<1> HIDE DEF B
<1>3. /\ IsFiniteSet(B) /\ Cardinality(B) <= Cardinality(names)
      /\ (Cardinality(names) = Cardinality(B) => names = B)
      /\ Cardinality(B) \in Nat /\ Cardinality(names) \in Nat
  BY <1>1, FS_Subset, FS_CardinalityType
<1>4. n \in names => Cardinality(B) < Cardinality(names)
  BY <1>2, <1>3
<1> QED
  BY <1>3, <1>4 DEF B, Before

(* More names, more of them before one. *)
LEMMA BeforeGrows ==
    ASSUME NEW names \in SUBSET Nat, NEW more \in SUBSET Nat, IsFiniteSet(more),
           names \subseteq more, NEW n
    PROVE  Before(names, n) <= Before(more, n)
<1>1. {m \in names : m < n} \in SUBSET {m \in more : m < n}
  OBVIOUS
<1>2. IsFiniteSet({m \in more : m < n})
  BY BeforeIs
<1> QED
  BY <1>1, <1>2, FS_Subset DEF Before

(* A smaller name has no more before it. *)
LEMMA BeforeOrder ==
    ASSUME NEW names \in SUBSET Nat, IsFiniteSet(names), NEW n \in Nat, NEW k \in Nat, n <= k
    PROVE  Before(names, n) <= Before(names, k)
<1>1. {m \in names : m < n} \in SUBSET {m \in names : m < k}
  <2>1. \A m \in Nat : m < n => m < k
    OBVIOUS
  <2> QED
    BY <2>1
<1>2. IsFiniteSet({m \in names : m < k})
  BY BeforeIs
<1> QED
  BY <1>1, <1>2, FS_Subset DEF Before

(* Whether the pages before a cursor had a name, or its place.             *)
Passed(type, names, cursor, n) ==
    IF type = "godaddy" THEN n <= cursor
    ELSE Before(names, n) < (cursor - 1) * RegistrarPage

(* A page moves the cursor over its own names only, and is the last one    *)
(* only when nothing is left.                                              *)
Advances(type, names, cursor, page) ==
    /\ page.items \subseteq names
    /\ page.next \in Nat /\ (type # "godaddy" => page.next >= 1)
    /\ \A n \in names : Passed(type, names, page.next, n)
                        => Passed(type, names, cursor, n) \/ n \in page.items
    /\ ~page.more => \A n \in names : Passed(type, names, cursor, n) \/ n \in page.items

(* Page numbers (Namecheap, Aliyun). *)
LEMMA NumberedPage ==
    ASSUME NEW names \in SUBSET Nat, IsFiniteSet(names), NEW page \in Nat, page >= 1
    PROVE  /\ Numbered(names, page) \subseteq names
           /\ \A n \in names : Before(names, n) < page * RegistrarPage
                 => Before(names, n) < (page - 1) * RegistrarPage \/ n \in Numbered(names, page)
<1> DEFINE from == (page - 1) * RegistrarPage
<1>0. RegistrarPage \in Nat
  BY RegistrarPageAssumption
<1>1. from \in Nat /\ page * RegistrarPage = from + RegistrarPage
  BY <1>0
<1> HIDE DEF from
<1>2. Numbered(names, page) = PageFrom(names, from)
  BY DEF Numbered, from
<1>3. ASSUME NEW n \in names, Before(names, n) < from + RegistrarPage, ~(Before(names, n) < from)
      PROVE  n \in PageFrom(names, from)
  <2>1. Before(names, n) \in Nat
    BY BeforeIs
  <2>2. \A b \in Nat : b < from + RegistrarPage /\ ~(b < from)
                     => b \in from..(from + RegistrarPage - 1)
    BY <1>0, <1>1
  <2> QED
    BY <1>3, <2>1, <2>2 DEF PageFrom
<1> QED
  BY <1>1, <1>2, <1>3 DEF PageFrom, from

LEMMA NumberedIs ==
    ASSUME NEW names \in SUBSET Nat, IsFiniteSet(names), NEW cursor \in Nat, cursor >= 1,
           NEW type, type # "godaddy", NEW page,
           page.items = Numbered(names, cursor), page.next = cursor + 1,
           ~page.more => \A n \in names : Before(names, n) < cursor * RegistrarPage
    PROVE  Advances(type, names, cursor, page)
<1>1. page.next \in Nat /\ page.next >= 1 /\ page.next - 1 = cursor
  OBVIOUS
<1>2. \A n \in names : Passed(type, names, page.next, n)
                       => Passed(type, names, cursor, n) \/ n \in page.items
  BY <1>1, NumberedPage DEF Passed
<1>3. ~page.more => \A n \in names : Passed(type, names, cursor, n) \/ n \in page.items
  BY NumberedPage DEF Passed
<1>4. page.items \subseteq names
  BY NumberedPage
<1> QED
  BY <1>1, <1>2, <1>3, <1>4 DEF Advances

LEMMA Further ==
    ASSUME NEW a \in Nat, NEW b \in Nat, NEW c \in Nat, a < b, b <= c
    PROVE  a < c
OBVIOUS

LEMMA NamecheapPage ==
    ASSUME NEW names \in SUBSET Nat, IsFiniteSet(names), NEW cursor \in Nat, cursor >= 1
    PROVE  Advances("namecheap", names, cursor, namecheapListDomains(names, cursor))
<1> DEFINE page  == namecheapListDomains(names, cursor)
           total == Cardinality(names)
           pages == (total + RegistrarPage - 1) \div RegistrarPage
<1>0. total \in Nat /\ RegistrarPage \in Nat \ {0}
  BY FS_CardinalityType, RegistrarPageAssumption
<1>1. /\ page.items = Numbered(names, cursor) /\ page.next = cursor + 1
      /\ page.more = (total # 0 /\ cursor < pages)
  BY DEF namecheapListDomains
<1>3. total <= pages * RegistrarPage
  <2>1. \A t \in Nat, p \in Nat \ {0} : t <= ((t + p - 1) \div p) * p
    OBVIOUS
  <2> QED
    BY <1>0, <2>1
<1>4. pages \in Nat
  <2>1. \A t \in Nat, p \in Nat \ {0} : (t + p - 1) \div p \in Nat
    OBVIOUS
  <2> QED
    BY <1>0, <2>1
<1> HIDE DEF pages, page, total
<1>5. ~page.more => total <= cursor * RegistrarPage
  <2>1. \A k \in Nat, c \in Nat, p \in Nat : k <= c => k * p <= c * p
    OBVIOUS
  <2>2. total = 0 => total <= cursor * RegistrarPage
    BY <1>0
  <2>3. pages <= cursor => pages * RegistrarPage <= cursor * RegistrarPage
    BY <1>0, <1>4, <2>1
  <2>4. pages * RegistrarPage \in Nat /\ cursor * RegistrarPage \in Nat
    BY <1>0, <1>4
  <2>5. \A a, b, c \in Nat : a <= b /\ b <= c => a <= c
    OBVIOUS
  <2>6. ~(cursor < pages) => pages <= cursor
    BY <1>4
  <2> QED
    BY <1>0, <1>1, <1>3, <2>2, <2>3, <2>4, <2>5, <2>6
<1>6. \A n \in names : Before(names, n) \in Nat /\ Before(names, n) < total
  BY BeforeIs DEF total
<1>7. cursor * RegistrarPage \in Nat
  BY <1>0
<1>8. ~page.more => \A n \in names : Before(names, n) < cursor * RegistrarPage
  BY <1>5, <1>6, <1>7, <1>0, Further
<1> QED
  <2>1. Advances("namecheap", names, cursor, page)
    BY <1>1, <1>8, NumberedIs
  <2> QED
    BY <2>1 DEF page

LEMMA AliyunPage ==
    ASSUME NEW names \in SUBSET Nat, IsFiniteSet(names), NEW cursor \in Nat, cursor >= 1
    PROVE  Advances("aliyun", names, cursor, aliyunListDomains(names, cursor))
<1> DEFINE page  == aliyunListDomains(names, cursor)
           total == Cardinality(names)
<1>0. total \in Nat /\ RegistrarPage \in Nat \ {0}
  BY FS_CardinalityType, RegistrarPageAssumption
<1>1. /\ page.items = Numbered(names, cursor) /\ page.next = cursor + 1
      /\ page.more = (cursor * RegistrarPage < total)
  BY DEF aliyunListDomains
<1> HIDE DEF page, total
<1>3. \A n \in names : Before(names, n) \in Nat /\ Before(names, n) < total
  BY BeforeIs DEF total
<1>4. cursor * RegistrarPage \in Nat
  BY <1>0
<1>5. ~page.more => total <= cursor * RegistrarPage
  <2>1. \A a, b \in Nat : ~(a < b) => b <= a
    OBVIOUS
  <2> QED
    BY <1>0, <1>1, <1>4, <2>1
<1>6. ~page.more => \A n \in names : Before(names, n) < cursor * RegistrarPage
  BY <1>0, <1>3, <1>4, <1>5, Further
<1> QED
  <2>1. Advances("aliyun", names, cursor, page)
    BY <1>1, <1>6, NumberedIs
  <2> QED
    BY <2>1 DEF page

(* The marker of GoDaddy. *)
LEMMA GoDaddyPage ==
    ASSUME NEW names \in SUBSET Nat, IsFiniteSet(names), NEW cursor \in Nat
    PROVE  Advances("godaddy", names, cursor, goDaddyListDomains(names, cursor))
<1> DEFINE rest  == {n \in names : n > cursor}
           items == After(names, cursor)
           next  == IF items = {} THEN cursor ELSE LastName(items)
           page  == goDaddyListDomains(names, cursor)
<1>0. RegistrarPage \in Nat \ {0} /\ \A n \in names : n \in Nat
  BY RegistrarPageAssumption
<1>1. rest \in SUBSET Nat /\ rest \in SUBSET names /\ IsFiniteSet(rest)
  <2>1. rest \in SUBSET names
    OBVIOUS
  <2> QED
    BY <2>1, FS_Subset
<1>2. items = PageFrom(rest, 0) /\ \A n \in names : n \in rest <=> n > cursor
  BY DEF After
<1>3. page.items = items /\ page.more = (Cardinality(items) >= RegistrarPage)
      /\ page.next = next
  BY DEF goDaddyListDomains
<1> HIDE DEF rest, items, page
<1>4. \A n : n \in items <=> n \in rest /\ Before(rest, n) < RegistrarPage
  <2>1. \A b \in Nat : b \in 0..(0 + RegistrarPage - 1) <=> b < RegistrarPage
    BY <1>0
  <2>2. \A n \in rest : Before(rest, n) \in Nat
    BY <1>1, BeforeIs
  <2> QED
    BY <1>2, <2>1, <2>2 DEF PageFrom
<1>5. items \in SUBSET Nat /\ items \in SUBSET rest /\ IsFiniteSet(items)
  <2>1. items \in SUBSET rest
    BY <1>4
  <2> QED
    BY <1>1, <2>1, FS_Subset
<1>6. Cardinality(items) \in Nat
  BY <1>5, FS_CardinalityType
<1>7. items # {} => next \in items /\ \A m \in items : m <= next
  <2>1. items # {} => \E x \in items : \A y \in items : y <= x
    BY <1>5, GreatestOf
  <2> QED
    BY <2>1 DEF LastName
<1>8. next \in Nat
  BY <1>5, <1>7
<1>9. ASSUME NEW n \in names, n <= next PROVE n <= cursor \/ n \in items
  <2>1. CASE items = {}
    BY <1>9, <2>1
  <2>2. CASE items # {} /\ n > cursor
    <3>1. n \in rest /\ next \in items /\ next \in Nat /\ n \in Nat
      BY <1>0, <1>2, <1>7, <1>8, <2>2
    <3>2. Before(rest, n) <= Before(rest, next)
      BY <1>1, <1>9, <3>1, BeforeOrder
    <3>3. Before(rest, next) < RegistrarPage
      BY <1>4, <3>1
    <3>4. Before(rest, n) \in Nat /\ Before(rest, next) \in Nat
      BY <1>1, BeforeIs
    <3>5. Before(rest, n) < RegistrarPage
      BY <1>0, <3>2, <3>3, <3>4
    <3> QED
      BY <1>4, <3>1, <3>5
  <2> QED
    BY <1>0, <2>1, <2>2
(* The least name that a page leaves out has the whole page before it. *)
<1>10. ASSUME Cardinality(items) < RegistrarPage PROVE items = rest
  <2> DEFINE out == rest \ items
  <2>1. CASE out # {}
    <3>1. out \in SUBSET Nat
      BY <1>1
    <3>2. PICK x \in out : \A y \in out : x <= y
      BY <2>1, <3>1, LeastOf
    <3>3. x \in rest /\ x \notin items /\ x \in Nat
      BY <3>1, <3>2
    <3>4. \A m \in rest : m < x => m \in items
      <4>1. \A m \in Nat : m < x => ~(x <= m)
        BY <3>3
      <4> QED
        BY <1>1, <3>2, <4>1
    <3>5. {m \in rest : m < x} \in SUBSET items
      BY <3>4
    <3>6. Before(rest, x) <= Cardinality(items)
      BY <1>5, <3>5, FS_Subset DEF Before
    <3>7. Before(rest, x) \in Nat
      BY <1>1, BeforeIs
    <3>8. Before(rest, x) < RegistrarPage
      BY <1>0, <1>6, <1>10, <3>6, <3>7
    <3> QED
      BY <1>4, <3>3, <3>8
  <2> QED
    BY <1>5, <2>1
<1>11. ~page.more => items = rest
  <2>1. ~(Cardinality(items) >= RegistrarPage) => Cardinality(items) < RegistrarPage
    BY <1>0, <1>6
  <2> QED
    BY <1>3, <1>10, <2>1
<1>12. ~page.more => \A n \in names : n <= cursor \/ n \in items
  BY <1>0, <1>2, <1>11
<1>13. Advances("godaddy", names, cursor, page)
  BY <1>1, <1>3, <1>5, <1>8, <1>9, <1>12 DEF Advances, Passed
<1> QED
  BY <1>13 DEF page

LEMMA ListingAdvances ==
    ASSUME NEW type \in RegisteredTypes, NEW names \in SUBSET Nat, IsFiniteSet(names),
           NEW cursor \in Nat, type # "godaddy" => cursor >= 1
    PROVE  Advances(type, names, cursor, ListDomains(type, names, cursor))
BY GoDaddyPage, NamecheapPage, AliyunPage DEF RegisteredTypes, ListDomains

(* What the clients make of an answer, and of a domain. *)
LEMMA RefusalsAreSeen ==
    ASSUME NEW type \in RegisteredTypes, NEW reply \in Answers(type, TRUE)
    PROVE  ~FetchOK(type, reply)
<1>1. reply.error /\ (type = "godaddy" => reply.http # 200)
  BY DEF Answers
<1>2. CASE type = "godaddy"
  BY <1>1, <1>2 DEF FetchOK, goDaddyFetchDomainList, checkStatus
<1>3. CASE type = "namecheap"
  BY <1>1, <1>3 DEF FetchOK, namecheapFetchPage, mapNamecheapErrors
<1>4. CASE type = "aliyun"
  BY <1>1, <1>4 DEF FetchOK, aliyunDoRequest, aliyunCheckStatus
<1> QED
  BY <1>2, <1>3, <1>4 DEF RegisteredTypes

LEMMA DatesAreRead ==
    ASSUME NEW type \in RegisteredTypes, NEW name, NEW day
    PROVE  DomainInfo(type, name, day) = [fqdn |-> name, expiry |-> day]
BY DEF RegisteredTypes, DomainInfo, toDomainInfo, ncToDomainInfo, aliyunToDomainInfo,
       Layout, Parse

-----------------------------------------------------------------------------
(* The table domains.  A row once registered keeps the job it is from.     *)

DomainInv ==
    /\ domains \in [Fqdns -> Rows]
    /\ \A f \in Fqdns : domains[f].state = "none" => domains[f].by = 0

KeepsRows == \A f \in Fqdns : domains[f].by # 0 => domains'[f].by = domains[f].by

LEMMA DomainFields ==
    ASSUME DomainInv, NEW f \in Fqdns
    PROVE  /\ domains[f].id \in Nat /\ domains[f].state \in {"none", "live", "retired"}
           /\ domains[f].account \in Accounts \cup {0} /\ domains[f].expiry \in Nat
           /\ domains[f].by \in Jobs \cup {0}
BY DEF DomainInv, Rows

LEMMA Created ==
    ASSUME DomainInv, NEW line, line.fqdn \in Fqdns, line.account \in Accounts \cup {0},
           line.expiry \in Nat, NEW project \in Projects \cup {0}, NEW by \in Jobs \cup {0},
           CanCreate(line), Create(line, project, by)
    PROVE  DomainInv' /\ KeepsRows /\ domains'[line.fqdn].by = by
<1> DEFINE id  == Cardinality({f \in Fqdns : domains[f].id # 0}) + 1
           new == [id |-> id, state |-> "live", project |-> project,
                   account |-> line.account, expiry |-> line.expiry, by |-> by]
<1>1. id \in Nat
  <2>1. {f \in Fqdns : domains[f].id # 0} \in SUBSET Fqdns
    OBVIOUS
  <2> QED
    BY <2>1, ImportAssumption, FS_Subset, FS_CardinalityType
<1>2. domains' = [domains EXCEPT ![line.fqdn] = new]
  BY DEF Create
<1> HIDE DEF id
<1>3. new \in Rows /\ new.state = "live" /\ new.by = by
  BY <1>1 DEF Rows
<1> HIDE DEF new
<1>4. domains' \in [Fqdns -> Rows] /\ domains'[line.fqdn] = new
      /\ \A f \in Fqdns \ {line.fqdn} : domains'[f] = domains[f]
  BY <1>2, <1>3 DEF DomainInv
<1>5. domains[line.fqdn].by = 0
  BY DEF CanCreate, DomainInv
<1> QED
  BY <1>3, <1>4, <1>5 DEF DomainInv, KeepsRows

LEMMA Registered ==
    ASSUME DomainInv, NEW line, line.fqdn \in Fqdns, line.account \in Accounts \cup {0},
           line.expiry \in Nat, NEW project \in Projects \cup {0}, NEW by \in Jobs \cup {0},
           Register(line, project, by) \/ UNCHANGED domains
    PROVE  /\ DomainInv' /\ KeepsRows
           /\ CanCreate(line) /\ Register(line, project, by) => domains'[line.fqdn].by = by
<1>1. CASE CanCreate(line) /\ Register(line, project, by)
  BY <1>1, Created DEF Register
<1>2. CASE ~(CanCreate(line) /\ Register(line, project, by))
  <2>1. UNCHANGED domains
    BY <1>2 DEF Register
  <2> QED
    BY <1>2, <2>1 DEF DomainInv, KeepsRows
<1> QED
  BY <1>1, <1>2

(* Other writers change a state, an account or a date.                     *)
LEMMA Edited ==
    ASSUME DomainInv, NEW f \in Fqdns, NEW row \in Rows, row.by = domains[f].by,
           row.state = "none" => domains[f].state = "none",
           domains' = [domains EXCEPT ![f] = row]
    PROVE  DomainInv' /\ KeepsRows
<1>1. domains' \in [Fqdns -> Rows] /\ domains'[f] = row
      /\ \A g \in Fqdns \ {f} : domains'[g] = domains[g]
  BY DEF DomainInv
<1> QED
  BY <1>1 DEF DomainInv, KeepsRows

LEMMA Retired ==
    ASSUME DomainInv, NEW f \in Fqdns, Retire(f)
    PROVE  DomainInv' /\ KeepsRows
<1> DEFINE row == [domains[f] EXCEPT !.state = "retired"]
<1>1. domains' = [domains EXCEPT ![f] = row]
  BY DEF Retire
<1>2. row \in Rows /\ row.by = domains[f].by /\ row.state # "none"
  BY DEF DomainInv, Rows
<1> HIDE DEF row
<1> QED
  BY <1>1, <1>2, Edited

-----------------------------------------------------------------------------
(* Imports.                                                                *)

Counts  == [imported : Nat, skipped : Nat, failed : Nat]
Details == [fqdn : Fqdns \cup {0}, why : {"skipped", "failed"}]

JobRows ==
    [status : {"none", "pending", "processing", "completed", "failed"},
     project : Projects \cup {0}, raw : Seq(Lines), counts : Counts,
     details : SUBSET Details]

TaskStates ==
    [state : {"none", "unqueued", "queued", "active", "done", "unrecorded", "archived"},
     retried : Nat]

Works ==
    [pc : {"look", "rows"}, rows : SUBSET Nat, existing : SUBSET (Fqdns \cup {0}),
     details : SUBSET Details, counts : Counts]

ImportTypes ==
    /\ jobs \in [Jobs -> JobRows]
    /\ tasks \in [Jobs -> TaskStates]
    /\ work \in [Jobs -> {Idle} \cup Works]

Good(raw) == {i \in 1..Len(raw) : validateFQDN(raw[i])}

(* A line has become a row, or is in the details.                          *)
Settled(j, i, details) ==
    LET f == jobs[j].raw[i].fqdn
    IN  \/ f # 0 /\ domains[f].by = j
        \/ \E d \in details : d.fqdn = f

(* What a worker has counted and what it has left add up to the file.      *)
WorkOf(j) ==
    work[j] # Idle =>
        /\ tasks[j].state = "active"
        /\ work[j].rows \subseteq Good(jobs[j].raw)
        /\ Total(work[j].counts) + Cardinality(work[j].rows) = Len(jobs[j].raw)
        /\ \A i \in 1..Len(jobs[j].raw) :
               i \in work[j].rows \/ Settled(j, i, work[j].details)

(* A job that is completed is out of the queue, and one that was never     *)
(* uploaded was never in it.                                               *)
JobOf(j) ==
    /\ jobs[j].status = "none" => tasks[j].state = "none"
    /\ jobs[j].status = "completed" =>
          /\ tasks[j].state = "done"
          /\ Total(jobs[j].counts) = Len(jobs[j].raw)
          /\ \A i \in 1..Len(jobs[j].raw) : Settled(j, i, jobs[j].details)

ImportInv == ImportTypes /\ \A j \in Jobs : WorkOf(j) /\ JobOf(j)

(* What was settled stays so, when rows are kept.                          *)
LEMMA SettledStays ==
    ASSUME NEW j \in Jobs, KeepsRows, ImportTypes,
           UNCHANGED jobs \/ jobs'[j].raw = jobs[j].raw,
           NEW i \in 1..Len(jobs[j].raw), NEW details, NEW more, details \subseteq more,
           Settled(j, i, details)
    PROVE  Settled(j, i, more)'
<1>1. jobs[j].raw \in Seq(Lines)
  BY DEF ImportTypes, JobRows
<1>2. jobs[j].raw[i] \in Lines /\ jobs'[j].raw = jobs[j].raw
  BY <1>1
<1>3. jobs[j].raw[i].fqdn \in Fqdns \cup {0}
  BY <1>2 DEF Lines
<1>4. j # 0
  BY ImportAssumption
<1> QED
  BY <1>2, <1>3, <1>4 DEF Settled, KeepsRows

(* The worker of another job sees nothing of a step.                       *)
LEMMA OtherJob ==
    ASSUME ImportInv, KeepsRows, NEW k \in Jobs, jobs'[k] = jobs[k], tasks'[k] = tasks[k],
           work'[k] = work[k]
    PROVE  WorkOf(k)' /\ JobOf(k)'
<1>1. ASSUME NEW i \in 1..Len(jobs[k].raw), NEW details, Settled(k, i, details)
      PROVE  Settled(k, i, details)'
  BY <1>1, SettledStays DEF ImportInv
<1> QED
  BY <1>1 DEF ImportInv, WorkOf, JobOf

LEMMA ImportRests ==
    ASSUME ImportInv, KeepsRows, UNCHANGED importVars
    PROVE  ImportInv'
BY OtherJob DEF ImportInv, ImportTypes, importVars

(* Such a step is about one job.                                           *)
About(j) == \A k \in Jobs \ {j} :
    jobs'[k] = jobs[k] /\ tasks'[k] = tasks[k] /\ work'[k] = work[k]

LEMMA AboutOne ==
    ASSUME ImportInv, KeepsRows, NEW j \in Jobs, About(j), ImportTypes', WorkOf(j)', JobOf(j)'
    PROVE  ImportInv'
<1>1. \A k \in Jobs \ {j} : WorkOf(k)' /\ JobOf(k)'
  BY OtherJob DEF About
<1> QED
  BY <1>1 DEF ImportInv

LEMMA GoodLines ==
    ASSUME NEW raw \in Seq(Lines)
    PROVE  /\ Good(raw) \in SUBSET Nat /\ IsFiniteSet(Good(raw)) /\ Len(raw) \in Nat
           /\ \A i \in Good(raw) : /\ i \in 1..Len(raw) /\ raw[i] \in Lines
                                   /\ raw[i].fqdn \in Fqdns
                                   /\ raw[i].account \in Accounts \cup {0}
                                   /\ raw[i].expiry \in Nat
<1>1. Len(raw) \in Nat /\ \A i \in 1..Len(raw) : raw[i] \in Lines
  OBVIOUS
<1>2. IsFiniteSet(1..Len(raw)) /\ Good(raw) \in SUBSET (1..Len(raw))
  BY <1>1, FS_Interval DEF Good
<1>3. IsFiniteSet(Good(raw)) /\ Good(raw) \in SUBSET Nat
  BY <1>1, <1>2, FS_Subset
<1>4. \A i \in Good(raw) : i \in 1..Len(raw) /\ raw[i] \in Lines /\ raw[i].fqdn # 0
  BY <1>1 DEF Good, validateFQDN
<1> QED
  BY <1>1, <1>3, <1>4 DEF Lines

(* The lines that can be read and those that cannot are all lines.         *)
LEMMA LinesAddUp ==
    ASSUME NEW raw \in Seq(Lines)
    PROVE  /\ Cardinality(Good(raw)) \in Nat /\ ParseCSV(raw).errors \in Nat
           /\ ParseCSV(raw).rows = Good(raw)
           /\ ParseCSV(raw).errors + Cardinality(Good(raw)) = Len(raw)
           /\ ParseCSV(raw).errors = 0 => Good(raw) = 1..Len(raw)
<1> DEFINE bad == {i \in 1..Len(raw) : ~validateFQDN(raw[i])}
           all == 1..Len(raw)
<1>1. Len(raw) \in Nat
  OBVIOUS
<1>2. IsFiniteSet(all) /\ Cardinality(all) = Len(raw)
  BY <1>1, FS_Interval
<1>3. bad = all \ Good(raw) /\ Good(raw) \in SUBSET all
  BY DEF Good
<1>4. ParseCSV(raw).errors = Cardinality(bad) /\ ParseCSV(raw).rows = Good(raw)
  BY DEF ParseCSV, Good
<1> HIDE DEF bad, all
<1>5. all \cap Good(raw) = Good(raw)
  BY <1>3
<1>6. /\ IsFiniteSet(bad) /\ IsFiniteSet(Good(raw))
      /\ Cardinality(bad) = Cardinality(all) - Cardinality(Good(raw))
  <2>1. IsFiniteSet(all \ Good(raw))
        /\ Cardinality(all \ Good(raw)) = Cardinality(all) - Cardinality(all \cap Good(raw))
    BY <1>2, FS_Difference
  <2>2. IsFiniteSet(Good(raw))
    BY <1>2, <1>3, FS_Subset
  <2> QED
    BY <1>3, <1>5, <2>1, <2>2
<1>7. Cardinality(bad) \in Nat /\ Cardinality(Good(raw)) \in Nat
  BY <1>6, FS_CardinalityType
<1>8. Cardinality(bad) = 0 => bad = {}
  BY <1>6, FS_EmptySet
<1>9. bad = {} => Good(raw) = all
  BY <1>3
<1> QED
  BY <1>1, <1>2, <1>4, <1>6, <1>7, <1>8, <1>9 DEF all

LEMMA NothingYet ==
    /\ Idle \notin Works /\ Idle.pc \notin {"look", "rows"}
    /\ NoCounts \in Counts /\ NoJob \in JobRows /\ NoTask \in TaskStates
<1>1. <<>> \in Seq(Lines)
  OBVIOUS
<1>2. Idle \notin Works /\ Idle.pc \notin {"look", "rows"}
  BY DEF Idle, Works
<1>3. NoCounts \in Counts /\ NoTask \in TaskStates
  BY DEF NoCounts, Counts, NoTask, TaskStates
<1> QED
  BY <1>1, <1>2, <1>3 DEF NoJob, JobRows

LEMMA WorkTypes ==
    ASSUME ImportTypes, NEW j \in Jobs, work[j].pc \in {"look", "rows"}
    PROVE  /\ work[j] \in Works /\ work[j] # Idle
           /\ work[j].rows \in SUBSET Nat /\ work[j].counts \in Counts
           /\ work[j].details \in SUBSET Details
BY NothingYet DEF ImportTypes, Works

LEMMA JobTypes ==
    ASSUME ImportTypes, NEW j \in Jobs
    PROVE  /\ jobs[j].raw \in Seq(Lines) /\ jobs[j].counts \in Counts
           /\ jobs[j].project \in Projects \cup {0}
           /\ jobs[j].details \in SUBSET Details
BY DEF ImportTypes, JobRows

LEMMA TotalType ==
    ASSUME NEW counts \in Counts
    PROVE  /\ Total(counts) \in Nat
           /\ \A what \in {"imported", "skipped", "failed"} :
                 Count(counts, what) \in Counts /\ Total(Count(counts, what)) = Total(counts) + 1
<1>1. /\ counts.imported \in Nat /\ counts.skipped \in Nat /\ counts.failed \in Nat
  BY DEF Counts
<1>2. Total(counts) \in Nat
  BY <1>1 DEF Total
<1>3. ASSUME NEW what \in {"imported", "skipped", "failed"}
      PROVE  Count(counts, what) \in Counts /\ Total(Count(counts, what)) = Total(counts) + 1
  <2>1. Count(counts, what) \in Counts
    BY <1>1 DEF Count, Counts
  <2>2. CASE what = "imported"
    <3>1. /\ Count(counts, what).imported = counts.imported + 1
          /\ Count(counts, what).skipped = counts.skipped
          /\ Count(counts, what).failed = counts.failed
      BY <2>2 DEF Count, Counts
    <3> QED
      BY <1>1, <2>1, <3>1 DEF Total
  <2>3. CASE what = "skipped"
    <3>1. /\ Count(counts, what).imported = counts.imported
          /\ Count(counts, what).skipped = counts.skipped + 1
          /\ Count(counts, what).failed = counts.failed
      BY <2>3 DEF Count, Counts
    <3> QED
      BY <1>1, <2>1, <3>1 DEF Total
  <2>4. CASE what = "failed"
    <3>1. /\ Count(counts, what).imported = counts.imported
          /\ Count(counts, what).skipped = counts.skipped
          /\ Count(counts, what).failed = counts.failed + 1
      BY <2>4 DEF Count, Counts
    <3> QED
      BY <1>1, <2>1, <3>1 DEF Total
  <2> QED
    BY <2>1, <2>2, <2>3, <2>4
<1> QED
  BY <1>2, <1>3

LEMMA UploadKeeps ==
    ASSUME ImportInv, NEW j \in Jobs, NEW p \in Projects, NEW raw \in Files, Upload(j, p, raw)
    PROVE  ImportInv'
<1> DEFINE new  == [NoJob EXCEPT !.status = "pending", !.project = p, !.raw = raw]
           task == [tasks[j] EXCEPT !.state = "unqueued"]
<1>1. /\ jobs[j] = NoJob /\ UNCHANGED <<domains, work>>
      /\ jobs' = [jobs EXCEPT ![j] = new] /\ tasks' = [tasks EXCEPT ![j] = task]
  BY DEF Upload, CreateJob, CreateRow
<1>2. raw \in Seq(Lines)
  BY FilesAssumption
<1>3. new \in JobRows /\ new.status = "pending" /\ new.raw = raw
  BY <1>2, NothingYet DEF NoJob, JobRows
<1>4. task \in TaskStates /\ task.state = "unqueued"
  BY DEF ImportInv, ImportTypes, TaskStates
<1> HIDE DEF new, task
<1>5. ImportTypes'
  BY <1>1, <1>3, <1>4 DEF ImportInv, ImportTypes
<1>6. jobs'[j] = new /\ tasks'[j] = task /\ work'[j] = work[j] /\ About(j)
  BY <1>1 DEF ImportInv, ImportTypes, About
<1>7. work[j] = Idle
  BY <1>1 DEF ImportInv, WorkOf, JobOf, NoJob
<1>8. WorkOf(j)' /\ JobOf(j)'
  BY <1>3, <1>4, <1>6, <1>7 DEF WorkOf, JobOf
<1> QED
  BY <1>1, <1>5, <1>6, <1>8, AboutOne DEF KeepsRows

(* A task that is not in the hands of a worker changes its place, and the  *)
(* row of its job may be closed as failed.                                 *)
LEMMA PlaceKeeps ==
    ASSUME ImportInv, UNCHANGED <<domains, work>>, NEW j \in Jobs, work[j] = Idle,
           NEW job \in JobRows, job.raw = jobs[j].raw,
           job.status \notin {"none", "completed"}, jobs' = [jobs EXCEPT ![j] = job],
           NEW task \in TaskStates, tasks' = [tasks EXCEPT ![j] = task]
    PROVE  ImportInv'
<1>1. ImportTypes'
  BY DEF ImportInv, ImportTypes
<1>2. jobs'[j] = job /\ tasks'[j] = task /\ work'[j] = work[j] /\ About(j)
  BY DEF ImportInv, ImportTypes, About
<1>3. WorkOf(j)' /\ JobOf(j)'
  BY <1>2 DEF WorkOf, JobOf
<1> QED
  BY <1>1, <1>2, <1>3, AboutOne DEF KeepsRows

LEMMA Unqueued ==
    ASSUME ImportInv, NEW j \in Jobs, tasks[j].state \in {"unqueued", "queued"}
    PROVE  work[j] = Idle /\ jobs[j].status \notin {"none", "completed"} /\ jobs[j] \in JobRows
BY DEF ImportInv, ImportTypes, WorkOf, JobOf

LEMMA EnqueueKeeps ==
    ASSUME ImportInv, NEW j \in Jobs, Enqueue(j) \/ EnqueueFails(j)
    PROVE  ImportInv'
<1>1. work[j] = Idle /\ jobs[j].status \notin {"none", "completed"} /\ jobs[j] \in JobRows
  BY Unqueued DEF Enqueue, EnqueueFails
<1>2. PICK state \in {"none", "queued"} :
         tasks' = [tasks EXCEPT ![j] = [tasks[j] EXCEPT !.state = state]]
  BY DEF Enqueue, EnqueueFails
<1>3. [tasks[j] EXCEPT !.state = state] \in TaskStates
  BY DEF ImportInv, ImportTypes, TaskStates
<1> DEFINE failed == [jobs[j] EXCEPT !.status = "failed", !.counts = NoCounts, !.details = {}]
<1>4. CASE UNCHANGED jobs
  <2>1. jobs' = [jobs EXCEPT ![j] = jobs[j]]
    BY <1>4 DEF ImportInv, ImportTypes
  <2> QED
    BY <1>1, <1>2, <1>3, <2>1, PlaceKeeps DEF Enqueue, EnqueueFails
<1>5. CASE MarkCompleted(j, "failed", NoCounts, {})
  <2>1. jobs' = [jobs EXCEPT ![j] = failed]
    BY <1>5 DEF MarkCompleted, ImportInv, ImportTypes
  <2>2. failed \in JobRows /\ failed.raw = jobs[j].raw /\ failed.status = "failed"
    BY <1>1, NothingYet DEF JobRows
  <2> HIDE DEF failed
  <2> QED
    BY <1>1, <1>2, <1>3, <2>1, <2>2, PlaceKeeps DEF Enqueue, EnqueueFails
<1> QED
  BY <1>4, <1>5 DEF Enqueue, EnqueueFails

LEMMA StartKeeps ==
    ASSUME ImportInv, NEW j \in Jobs, Start(j)
    PROVE  ImportInv'
<1> DEFINE raw    == jobs[j].raw
           parsed == ParseCSV(raw)
           job    == [jobs[j] EXCEPT !.status = "processing"]
           task   == [tasks[j] EXCEPT !.state = "active"]
           counts == [NoCounts EXCEPT !.skipped = parsed.errors]
           details == IF parsed.errors = 0 THEN {} ELSE {[fqdn |-> 0, why |-> "skipped"]}
           new    == [pc |-> "look", rows |-> parsed.rows, existing |-> {},
                      details |-> details, counts |-> counts]
<1>1. /\ jobs' = [jobs EXCEPT ![j] = job] /\ tasks' = [tasks EXCEPT ![j] = task]
      /\ work' = [work EXCEPT ![j] = new] /\ UNCHANGED domains
  BY DEF Start, MarkStarted
<1>2. raw \in Seq(Lines) /\ jobs[j] \in JobRows /\ tasks[j] \in TaskStates
  BY DEF ImportInv, ImportTypes, JobRows
<1>3. /\ Good(raw) \in SUBSET Nat /\ parsed.errors \in Nat /\ parsed.rows = Good(raw)
      /\ parsed.errors + Cardinality(Good(raw)) = Len(raw)
  BY <1>2, LinesAddUp, GoodLines
<1>4. job \in JobRows /\ job.status = "processing" /\ job.raw = raw
  BY <1>2 DEF JobRows
<1>5. task \in TaskStates /\ task.state = "active"
  BY <1>2 DEF TaskStates
<1>6. counts \in Counts /\ Total(counts) = parsed.errors
  <2> DEFINE errors == parsed.errors
  <2>1. errors \in Nat
    BY <1>3
  <2> HIDE DEF errors
  <2>2. [NoCounts EXCEPT !.skipped = errors] = [imported |-> 0, skipped |-> errors, failed |-> 0]
    BY DEF NoCounts
  <2> QED
    BY <2>1, <2>2 DEF errors, Counts, Total
<1>7. details \in SUBSET Details
  BY DEF Details
<1>8. \A i \in 1..Len(raw) : i \in Good(raw) \/ \E d \in details : d.fqdn = raw[i].fqdn
  <2> SUFFICES ASSUME NEW i \in 1..Len(raw), i \notin Good(raw)
               PROVE  \E d \in details : d.fqdn = raw[i].fqdn
    OBVIOUS
  <2>1. raw[i].fqdn = 0
    BY DEF Good, validateFQDN
  <2>2. parsed.errors # 0
    BY <1>2, LinesAddUp
  <2>3. details = {[fqdn |-> 0, why |-> "skipped"]}
    BY <2>2
  <2> HIDE DEF details
  <2> QED
    BY <2>1, <2>3
<1> HIDE DEF parsed, counts, details, job, task
<1>9. new \in Works
  BY <1>3, <1>6, <1>7 DEF Works
<1>10. /\ new.rows = Good(raw) /\ new.counts = counts /\ new.details = details
  BY <1>3
<1> HIDE DEF new
<1>11. ImportTypes'
  BY <1>1, <1>4, <1>5, <1>9 DEF ImportInv, ImportTypes
<1>12. jobs'[j] = job /\ tasks'[j] = task /\ work'[j] = new /\ About(j)
  BY <1>1 DEF ImportInv, ImportTypes, About
<1>13. jobs'[j].raw = raw /\ jobs'[j].status = "processing" /\ work'[j] = new
       /\ work'[j].details = details /\ work'[j].rows = Good(raw) /\ tasks'[j].state = "active"
  BY <1>4, <1>5, <1>10, <1>12
<1> HIDE DEF raw
<1>14. \A i \in 1..Len(jobs'[j].raw) : i \in work'[j].rows \/ Settled(j, i, work[j].details)'
  BY <1>8, <1>13 DEF Settled
<1>15. Total(work'[j].counts) + Cardinality(work'[j].rows) = Len(jobs'[j].raw)
  BY <1>3, <1>6, <1>10, <1>13
<1>16. WorkOf(j)' /\ JobOf(j)'
  BY <1>13, <1>14, <1>15 DEF WorkOf, JobOf
<1> QED
  BY <1>1, <1>11, <1>12, <1>16, AboutOne DEF KeepsRows

LEMMA LookKeeps ==
    ASSUME ImportInv, NEW j \in Jobs, Look(j)
    PROVE  ImportInv'
<1> DEFINE fqdns == {jobs[j].raw[i].fqdn : i \in work[j].rows}
           new   == [work[j] EXCEPT !.pc = "rows",
                                    !.existing = ExistingFQDNs(jobs[j].project, fqdns)]
<1>1. work' = [work EXCEPT ![j] = new] /\ UNCHANGED <<domains, jobs, tasks>>
      /\ work[j].pc = "look"
  BY DEF Look, ImportInv, ImportTypes
<1>2. work[j] \in Works /\ work[j] # Idle /\ jobs[j].raw \in Seq(Lines)
  BY <1>1, WorkTypes, JobTypes DEF ImportInv
<1>3. work[j].rows \subseteq Good(jobs[j].raw)
  BY <1>2 DEF ImportInv, WorkOf
<1>4. fqdns \subseteq Fqdns
  BY <1>2, <1>3, GoodLines
<1>5. ExistingFQDNs(jobs[j].project, fqdns) \in SUBSET (Fqdns \cup {0})
  BY <1>4 DEF ExistingFQDNs
<1> HIDE DEF fqdns
<1>6. new \in Works /\ new.rows = work[j].rows /\ new.counts = work[j].counts
      /\ new.details = work[j].details
  BY <1>2, <1>5 DEF Works
<1> HIDE DEF new
<1>7. ImportTypes'
  BY <1>1, <1>6 DEF ImportInv, ImportTypes
<1>8. work'[j] = new /\ About(j)
  BY <1>1 DEF ImportInv, ImportTypes, About
<1>9. WorkOf(j)' /\ JobOf(j)'
  BY <1>1, <1>2, <1>6, <1>8 DEF ImportInv, WorkOf, JobOf, Settled
<1> QED
  BY <1>1, <1>7, <1>8, <1>9, AboutOne DEF KeepsRows

(* One line: the worker has it no more, and it is settled.                 *)
LEMMA LineTaken ==
    ASSUME ImportInv, NEW j \in Jobs, work[j].pc = "rows", work[j].rows # {}
    PROVE  LET raw == jobs[j].raw
               i   == NextNumber(j)
           IN  /\ i \in work[j].rows /\ i \in Good(raw) /\ NextLine(j) = raw[i]
               /\ NextLine(j).fqdn \in Fqdns /\ NextLine(j).account \in Accounts \cup {0}
               /\ NextLine(j).expiry \in Nat
               /\ Cardinality(work[j].rows \ {i}) \in Nat
               /\ Cardinality(work[j].rows \ {i}) + 1 = Cardinality(work[j].rows)
<1>1. /\ work[j].rows \in SUBSET Nat /\ work[j] # Idle /\ jobs[j].raw \in Seq(Lines)
  BY WorkTypes, JobTypes DEF ImportInv
<1>2. work[j].rows \in SUBSET Good(jobs[j].raw)
  BY <1>1 DEF ImportInv, WorkOf
<1>3. \E x \in work[j].rows : \A y \in work[j].rows : x <= y
  BY <1>1, LeastOf
<1>4. NextNumber(j) \in work[j].rows
  BY <1>3 DEF NextNumber
<1>5. IsFiniteSet(work[j].rows)
  BY <1>1, <1>2, GoodLines, FS_Subset
<1>6. /\ Cardinality(work[j].rows \ {NextNumber(j)}) = Cardinality(work[j].rows) - 1
      /\ Cardinality(work[j].rows \ {NextNumber(j)}) \in Nat
      /\ Cardinality(work[j].rows) \in Nat
  BY <1>4, <1>5, FS_RemoveElement, FS_CardinalityType
<1> QED
  BY <1>1, <1>2, <1>4, <1>6, GoodLines DEF NextLine

LEMMA RowTaken ==
    ASSUME ImportInv, NEW j \in Jobs, work[j].pc = "rows", work[j].rows # {}, KeepsRows,
           NEW what \in {"imported", "skipped", "failed"}, NextRow(j, what), UNCHANGED tasks,
           what = "imported" => domains'[NextLine(j).fqdn].by = j,
           NEW job \in JobRows, jobs' = [jobs EXCEPT ![j] = job],
           job.raw = jobs[j].raw, job.status = jobs[j].status
    PROVE  ImportInv'
<1> DEFINE old  == work[j]
           line == NextLine(j)
           named == [fqdn |-> line.fqdn, why |-> what]
           more == IF what = "imported" THEN old.details ELSE old.details \cup {named}
           new  == [old EXCEPT !.rows = @ \ {NextNumber(j)}, !.counts = Count(@, what),
                               !.details = more]
<1>1. work' = [work EXCEPT ![j] = new]
  BY DEF NextRow
<1>2. /\ old \in Works /\ old # Idle /\ jobs[j].raw \in Seq(Lines)
      /\ old.rows \in SUBSET Nat /\ old.counts \in Counts /\ old.details \in SUBSET Details
  BY WorkTypes, JobTypes DEF ImportInv
<1>3. /\ NextNumber(j) \in old.rows /\ line = jobs[j].raw[NextNumber(j)]
      /\ line.fqdn \in Fqdns
      /\ Cardinality(old.rows \ {NextNumber(j)}) \in Nat
      /\ Cardinality(old.rows \ {NextNumber(j)}) + 1 = Cardinality(old.rows)
  BY LineTaken
<1>4. /\ Count(old.counts, what) \in Counts /\ Total(old.counts) \in Nat
      /\ Total(Count(old.counts, what)) = Total(old.counts) + 1
  BY <1>2, TotalType
<1>5. more \in SUBSET Details /\ old.details \subseteq more
      /\ (what # "imported" => named \in more /\ named.fqdn = line.fqdn)
  <2>1. what # "imported" => named \in Details
    BY <1>3 DEF Details
  <2> QED
    BY <1>2, <2>1
<1>6. /\ tasks[j].state = "active" /\ old.rows \subseteq Good(jobs[j].raw)
      /\ Total(old.counts) + Cardinality(old.rows) = Len(jobs[j].raw)
      /\ \A i \in 1..Len(jobs[j].raw) : i \in old.rows \/ Settled(j, i, old.details)
  BY <1>2 DEF ImportInv, WorkOf
<1> HIDE DEF old, line, named, more
<1>7. new \in Works /\ new.rows = old.rows \ {NextNumber(j)} /\ new.details = more
      /\ new.counts = Count(old.counts, what)
  BY <1>2, <1>4, <1>5 DEF Works
<1> HIDE DEF new
<1>8. ImportTypes'
  BY <1>1, <1>7 DEF ImportInv, ImportTypes
<1>9. jobs'[j] = job /\ work'[j] = new /\ tasks'[j] = tasks[j] /\ About(j)
  BY <1>1 DEF ImportInv, ImportTypes, About
<1>10. Total(new.counts) + Cardinality(new.rows) = Len(jobs[j].raw)
  <2>1. Cardinality(old.rows) \in Nat
    BY <1>3
  <2>2. \A a, b, c \in Nat : c + 1 = b => (a + 1) + c = a + b
    OBVIOUS
  <2> QED
    BY <1>3, <1>4, <1>6, <1>7, <2>1, <2>2
<1>11. PICK det : det = more
  OBVIOUS
<1>12. ASSUME NEW i \in 1..Len(jobs[j].raw), i \notin new.rows PROVE Settled(j, i, det)'
  <2>1. CASE i = NextNumber(j)
    <3>1. jobs'[j].raw[i].fqdn = line.fqdn
      BY <1>3, <1>9, <2>1
    <3>2. CASE what = "imported"
      <4>1. domains'[line.fqdn].by = j /\ line.fqdn # 0
        BY <1>3, <3>2, ImportAssumption DEF line
      <4> QED
        BY <3>1, <4>1 DEF Settled
    <3>3. CASE what # "imported"
      BY <1>5, <1>11, <3>1, <3>3 DEF Settled
    <3> QED
      BY <3>2, <3>3
  <2>2. CASE i # NextNumber(j)
    <3>1. PICK was : was = old.details
      OBVIOUS
    <3>2. Settled(j, i, was) /\ was \subseteq det /\ jobs'[j].raw = jobs[j].raw
      BY <1>5, <1>6, <1>7, <1>9, <1>11, <1>12, <2>2, <3>1
    <3> QED
      BY <3>2, SettledStays DEF ImportInv
  <2> QED
    BY <2>1, <2>2
<1>13. jobs'[j].raw = jobs[j].raw /\ work'[j].details = det /\ work'[j].rows = new.rows
       /\ work'[j].counts = new.counts /\ tasks'[j].state = "active"
       /\ jobs'[j].status = jobs[j].status
  BY <1>6, <1>7, <1>9, <1>11
<1>14. \A i \in 1..Len(jobs'[j].raw) : i \in work'[j].rows \/ Settled(j, i, work[j].details)'
  BY <1>12, <1>13
<1>15. WorkOf(j)'
  <2>1. work'[j].rows \subseteq Good(jobs'[j].raw)
    BY <1>6, <1>7, <1>13
  <2>2. Total(work'[j].counts) + Cardinality(work'[j].rows) = Len(jobs'[j].raw)
    BY <1>10, <1>13
  <2> QED
    BY <1>13, <1>14, <2>1, <2>2 DEF WorkOf
<1>16. JobOf(j)'
  BY <1>6, <1>13 DEF ImportInv, JobOf
<1> QED
  BY <1>8, <1>9, <1>15, <1>16, AboutOne

LEMMA ImportRowKeeps ==
    ASSUME DomainInv, ImportInv, NEW j \in Jobs, ImportRow(j)
    PROVE  DomainInv' /\ KeepsRows /\ ImportInv'
<1> DEFINE line == NextLine(j)
           what == IF line.fqdn \in work[j].existing THEN "skipped"
                   ELSE IF CanCreate(line) THEN "imported" ELSE "failed"
           counts == Count(work[j].counts, what)
           job == IF what = "imported" /\ Total(counts) % ProgressEvery = 0
                  THEN [jobs[j] EXCEPT !.counts = counts] ELSE jobs[j]
<1>1. /\ work[j].pc = "rows" /\ work[j].rows # {} /\ NextRow(j, what) /\ UNCHANGED tasks
      /\ IF what = "imported" THEN Register(line, jobs[j].project, j) ELSE UNCHANGED domains
      /\ UpdateProgress(j, what)
  BY DEF ImportRow
<1>2. line.fqdn \in Fqdns /\ line.account \in Accounts \cup {0} /\ line.expiry \in Nat
  BY <1>1, LineTaken
<1>3. jobs[j].project \in Projects \cup {0} /\ jobs[j] \in JobRows
  BY JobTypes DEF ImportInv, ImportTypes
<1>4. what \in {"imported", "skipped", "failed"} /\ (what = "imported" => CanCreate(line))
  OBVIOUS
<1>5. work[j].counts \in Counts
  BY <1>1, WorkTypes DEF ImportInv
<1>6. counts \in Counts
  BY <1>4, <1>5, TotalType
<1> HIDE DEF line, what, counts
<1>7. DomainInv' /\ KeepsRows /\ (what = "imported" => domains'[line.fqdn].by = j)
  BY <1>1, <1>2, <1>3, <1>4, Registered
<1>8. job \in JobRows /\ job.raw = jobs[j].raw /\ job.status = jobs[j].status
  BY <1>3, <1>6 DEF JobRows
<1>9. jobs' = [jobs EXCEPT ![j] = job]
  BY <1>1 DEF UpdateProgress, counts, ImportInv, ImportTypes
<1> HIDE DEF job
<1> QED
  BY <1>1, <1>4, <1>7, <1>8, <1>9, RowTaken DEF line

LEMMA RowFailsKeeps ==
    ASSUME DomainInv, ImportInv, NEW j \in Jobs, RowFails(j)
    PROVE  DomainInv' /\ KeepsRows /\ ImportInv'
<1>1. /\ work[j].pc = "rows" /\ work[j].rows # {} /\ NextRow(j, "failed")
      /\ UNCHANGED <<jobs, tasks>>
      /\ Register(NextLine(j), jobs[j].project, j) \/ UNCHANGED domains
  BY DEF RowFails
<1>2. /\ NextLine(j).fqdn \in Fqdns /\ NextLine(j).account \in Accounts \cup {0}
      /\ NextLine(j).expiry \in Nat
  BY <1>1, LineTaken
<1>3. jobs[j].project \in Projects \cup {0} /\ jobs[j] \in JobRows
  BY JobTypes DEF ImportInv, ImportTypes
<1>4. DomainInv' /\ KeepsRows
  BY <1>1, <1>2, <1>3, Registered
<1>5. jobs' = [jobs EXCEPT ![j] = jobs[j]]
  BY <1>1 DEF ImportInv, ImportTypes
<1> QED
  BY <1>1, <1>3, <1>4, <1>5, RowTaken

(* All lines are done with: what the worker counted is what the row says.  *)
LEMMA ProcessKeeps ==
    ASSUME ImportInv, NEW j \in Jobs, ProcessImportPayload(j)
    PROVE  ImportInv'
<1> DEFINE old == work[j]
           job == [jobs[j] EXCEPT !.status = finalStatus(old.counts), !.counts = old.counts,
                                  !.details = old.details]
           task == [tasks[j] EXCEPT !.state = "done"]
<1>1. /\ old.pc = "rows" /\ old.rows = {} /\ UNCHANGED domains
      /\ jobs' = [jobs EXCEPT ![j] = job] /\ tasks' = [tasks EXCEPT ![j] = task]
      /\ work' = [work EXCEPT ![j] = Idle]
  BY DEF ProcessImportPayload, MarkCompleted, ImportInv, ImportTypes
<1>2. /\ old # Idle /\ old.counts \in Counts /\ old.details \in SUBSET Details
      /\ jobs[j] \in JobRows /\ tasks[j] \in TaskStates
  BY <1>1, WorkTypes DEF ImportInv, ImportTypes
<1>3. job \in JobRows /\ job.counts = old.counts /\ job.details = old.details
      /\ job.raw = jobs[j].raw /\ job.status # "none"
  BY <1>2 DEF JobRows, finalStatus
<1>4. task \in TaskStates /\ task.state = "done"
  BY <1>2 DEF TaskStates
<1>5. /\ Total(old.counts) + Cardinality(old.rows) = Len(jobs[j].raw)
      /\ \A i \in 1..Len(jobs[j].raw) : i \in old.rows \/ Settled(j, i, old.details)
  BY <1>2 DEF ImportInv, WorkOf
<1>6. Total(old.counts) = Len(jobs[j].raw)
  <2>1. Cardinality(old.rows) = 0
    BY <1>1, FS_EmptySet
  <2>2. Total(old.counts) \in Nat
    BY <1>2, TotalType
  <2> QED
    BY <1>5, <2>1, <2>2
<1> HIDE DEF old, job, task
<1>7. ImportTypes'
  BY <1>1, <1>3, <1>4 DEF ImportInv, ImportTypes
<1>8. jobs'[j] = job /\ tasks'[j] = task /\ work'[j] = Idle /\ About(j)
  BY <1>1 DEF ImportInv, ImportTypes, About
<1>9. \A i \in 1..Len(jobs'[j].raw) : Settled(j, i, jobs[j].details)'
  BY <1>1, <1>3, <1>5, <1>8 DEF Settled
<1>10. WorkOf(j)' /\ JobOf(j)'
  BY <1>3, <1>4, <1>6, <1>8, <1>9 DEF WorkOf, JobOf
<1> QED
  BY <1>1, <1>7, <1>8, <1>10, AboutOne DEF KeepsRows

(* The worker has the task no more, and the row is as it was: not          *)
(* completed, since the task was active.                                   *)
LEMMA DroppedKeeps ==
    ASSUME ImportInv, NEW j \in Jobs, work[j] # Idle, UNCHANGED <<domains, jobs>>,
           NEW task \in TaskStates, task.state \in {"queued", "unrecorded", "archived"},
           tasks' = [tasks EXCEPT ![j] = task], work' = [work EXCEPT ![j] = Idle]
    PROVE  ImportInv'
<1>1. tasks[j].state = "active"
  BY DEF ImportInv, WorkOf
<1>2. jobs[j].status \notin {"none", "completed"}
  BY <1>1 DEF ImportInv, JobOf
<1>3. ImportTypes'
  BY DEF ImportInv, ImportTypes
<1>4. jobs'[j] = jobs[j] /\ tasks'[j] = task /\ work'[j] = Idle /\ About(j)
  BY DEF ImportInv, ImportTypes, About
<1>5. WorkOf(j)' /\ JobOf(j)'
  BY <1>2, <1>4 DEF WorkOf, JobOf
<1> QED
  BY <1>3, <1>4, <1>5, AboutOne DEF KeepsRows

LEMMA WorkerGone ==
    ASSUME ImportInv, NEW j \in Jobs, CompletionLost(j) \/ Die(j)
    PROVE  ImportInv'
<1>0. tasks[j] \in TaskStates
  BY DEF ImportInv, ImportTypes
<1>1. CASE CompletionLost(j)
  <2> DEFINE task == [tasks[j] EXCEPT !.state = "unrecorded"]
  <2>1. /\ tasks' = [tasks EXCEPT ![j] = task] /\ work' = [work EXCEPT ![j] = Idle]
        /\ UNCHANGED <<domains, jobs>> /\ work[j].pc = "rows"
    BY <1>1 DEF CompletionLost
  <2>2. task \in TaskStates /\ task.state = "unrecorded"
    BY <1>0 DEF TaskStates
  <2>3. work[j] # Idle
    BY <2>1, WorkTypes DEF ImportInv
  <2> HIDE DEF task
  <2> QED
    BY <2>1, <2>2, <2>3, DroppedKeeps
<1>2. CASE Die(j)
  <2> DEFINE task == IF tasks[j].retried < MaxRetry
                     THEN [state |-> "queued", retried |-> tasks[j].retried + 1]
                     ELSE [tasks[j] EXCEPT !.state = "archived"]
  <2>1. /\ tasks' = [tasks EXCEPT ![j] = task] /\ work' = [work EXCEPT ![j] = Idle]
        /\ UNCHANGED <<domains, jobs>> /\ work[j] # Idle
    BY <1>2 DEF Die
  <2>2. task \in TaskStates /\ task.state \in {"queued", "archived"}
    BY <1>0 DEF TaskStates
  <2> HIDE DEF task
  <2> QED
    BY <2>1, <2>2, DroppedKeeps
<1> QED
  BY <1>1, <1>2

LEMMA OthersKeep ==
    ASSUME DomainInv, ImportInv, NEW f \in Fqdns,
           Retire(f) \/ \E p \in Projects : RegisterOther(f, p)
    PROVE  DomainInv' /\ KeepsRows /\ ImportInv'
<1>1. CASE Retire(f)
  BY <1>1, Retired, ImportRests DEF Retire
<1>2. CASE \E p \in Projects : RegisterOther(f, p)
  <2> DEFINE line == [fqdn |-> f, account |-> 0, expiry |-> 0]
  <2>1. PICK p \in Projects : Register(line, p, 0) /\ UNCHANGED importVars
    BY <1>2 DEF RegisterOther
  <2>2. line.fqdn \in Fqdns /\ line.account \in Accounts \cup {0} /\ line.expiry \in Nat
    OBVIOUS
  <2> HIDE DEF line
  <2>3. DomainInv' /\ KeepsRows
    BY <2>1, <2>2, Registered
  <2> QED
    BY <2>1, <2>3, ImportRests
<1> QED
  BY <1>1, <1>2

LEMMA ImportKeeps ==
    ASSUME DomainInv, ImportInv, ImportNext
    PROVE  DomainInv' /\ KeepsRows /\ ImportInv'
<1>1. CASE \E f \in Fqdns : Retire(f) \/ \E p \in Projects : RegisterOther(f, p)
  BY <1>1, OthersKeep
<1>2. ASSUME NEW j \in Jobs,
             \/ \E p \in Projects, raw \in Files : Upload(j, p, raw)
             \/ Enqueue(j) \/ EnqueueFails(j) \/ HandleDomainImport(j)
             \/ RowFails(j) \/ CompletionLost(j) \/ Die(j)
      PROVE  DomainInv' /\ KeepsRows /\ ImportInv'
  <2>1. CASE UNCHANGED domains
    <3>1. DomainInv' /\ KeepsRows
      BY <2>1 DEF DomainInv, KeepsRows
    <3>2. CASE ImportRow(j)
      BY <3>2, ImportRowKeeps
    <3>3. CASE RowFails(j)
      BY <3>3, RowFailsKeeps
    <3>4. CASE ~ImportRow(j) /\ ~RowFails(j)
      BY <1>2, <3>1, <3>4, UploadKeeps, EnqueueKeeps, StartKeeps, LookKeeps, ProcessKeeps,
         WorkerGone DEF HandleDomainImport
    <3> QED
      BY <3>2, <3>3, <3>4
  <2>2. CASE ImportRow(j) \/ RowFails(j)
    BY <2>2, ImportRowKeeps, RowFailsKeeps
  <2>3. (ImportRow(j) \/ RowFails(j)) \/ UNCHANGED domains
    BY <1>2 DEF Upload, Enqueue, EnqueueFails, HandleDomainImport, Start, Look,
                ProcessImportPayload, CompletionLost, Die
  <2> QED
    BY <2>1, <2>2, <2>3
<1> QED
  BY <1>1, <1>2 DEF ImportNext

-----------------------------------------------------------------------------
(* Requests.                                                               *)

AccountRows ==
    [state : {"none", "live", "deleted"}, registrar : RegistrarIds \cup {0},
     login : Logins \cup {0}]

Writes ==
    [op : {"delete registrar"}, id : RegistrarIds, alone : BOOLEAN]
    \cup [op : {"delete account"}, id : Accounts, alone : BOOLEAN]
    \cup [op : {"update account"}, id : Accounts, alone : BOOLEAN, login : Logins \cup {0}]
    \cup [op : {"create account"}, id : Accounts, registrar : RegistrarIds,
          login : Logins \cup {0}, alone : BOOLEAN]

Infos == [cursor : Nat, info : [fqdn : Fqdns, expiry : Dates]]

Syncs ==
    [op : {"sync"}, id : Accounts, type : RegisteredTypes, login : Logins,
     pc : {"list", "write"}, cursor : Nat, listed : SUBSET Fqdns, todo : SUBSET Infos,
     notFound : SUBSET Fqdns, errors : BOOLEAN, kept : SUBSET Fqdns, left : BOOLEAN,
     alone : BOOLEAN]

RequestTypes ==
    /\ accounts \in [Accounts -> AccountRows]
    /\ held \in [Logins -> [Fqdns -> Dates \cup {NotHeld}]]
    /\ requests \in [Requests -> {NoRequest} \cup Writes \cup Syncs]

(* The pages so far had every name, of those held all the time, that the   *)
(* cursor has passed.                                                      *)
ListOf(q) ==
    /\ q.pc = "list" =>
          /\ q.kept \subseteq Names(q.login)
          /\ q.type # "godaddy" => q.cursor >= 1
          /\ \A n \in q.kept :
                Passed(q.type, Names(q.login), q.cursor, n) /\ (q.type = "godaddy" \/ ~q.left)
                => n \in q.listed
    /\ q.pc = "write" /\ (q.type = "godaddy" \/ ~q.left) => q.kept \subseteq q.listed

Dated(q, f) ==
    IF domains[f].state # "none" /\ domains[f].account = q.id
    THEN domains[f].expiry = held[q.login][f] ELSE f \in q.notFound

(* A name that was listed is still to be done, or has its date, as long as *)
(* the sync met nothing else.                                              *)
AloneOf(q) ==
    q.alone /\ ~q.errors =>
        /\ q.kept = Names(q.login) /\ ~q.left
        /\ \A e \in q.todo : e.info.expiry = held[q.login][e.info.fqdn]
        /\ \A f \in q.listed : (\E e \in q.todo : e.info.fqdn = f) \/ Dated(q, f)

RequestOf(q) == q.op = "sync" => ListOf(q) /\ AloneOf(q)

SyncInv ==
    RequestTypes /\ SyncIsTrue /\ \A r \in Requests : RequestOf(requests[r])

LEMMA SyncOnly ==
    ASSUME NEW q \in {NoRequest} \cup Writes \cup Syncs
    PROVE  /\ (q = NoRequest \/ q \in Writes) <=> q.op # "sync"
           /\ q \in Syncs <=> q.op = "sync"
<1>1. q = NoRequest => q.op # "sync"
  BY DEF NoRequest
<1>2. q \in Writes => q.op # "sync"
  BY DEF Writes
<1>3. q \in Syncs => q.op = "sync"
  BY DEF Syncs
<1> QED
  BY <1>1, <1>2, <1>3

LEMMA SyncFields ==
    ASSUME NEW q \in Syncs
    PROVE  /\ q.op = "sync" /\ q.id \in Accounts /\ q.type \in RegisteredTypes
           /\ q.login \in Logins /\ q.pc \in {"list", "write"} /\ q.cursor \in Nat
           /\ q.listed \in SUBSET Fqdns /\ q.todo \in SUBSET Infos
           /\ q.notFound \in SUBSET Fqdns /\ q.errors \in BOOLEAN
           /\ q.kept \in SUBSET Fqdns /\ q.left \in BOOLEAN /\ q.alone \in BOOLEAN
BY DEF Syncs

(* A request that something has come between is still one. *)
LEMMA Noticed ==
    ASSUME NEW q \in Syncs
    PROVE  LET p == [q EXCEPT !.alone = FALSE]
           IN  /\ p \in Syncs /\ p.alone = FALSE /\ p.op = q.op /\ p.id = q.id
               /\ p.type = q.type /\ p.login = q.login /\ p.pc = q.pc /\ p.cursor = q.cursor
               /\ p.listed = q.listed /\ p.kept = q.kept /\ p.left = q.left
BY DEF Syncs

LEMMA WriteFields ==
    ASSUME NEW q \in {NoRequest} \cup Writes \cup Syncs
    PROVE  /\ q.op \in {"create account", "update account"} =>
                 q.id \in Accounts /\ q.login \in Logins \cup {0}
           /\ q.op = "create account" => q.registrar \in RegistrarIds
           /\ q.op = "delete account" => q.id \in Accounts
<1>1. CASE q = NoRequest
  BY <1>1 DEF NoRequest
<1>2. CASE q \in Syncs
  BY <1>2, SyncFields
<1>3. CASE q \in [op : {"delete registrar"}, id : RegistrarIds, alone : BOOLEAN]
  BY <1>3
<1>4. CASE q \in [op : {"delete account"}, id : Accounts, alone : BOOLEAN]
  BY <1>4
<1>5. CASE q \in [op : {"update account"}, id : Accounts, alone : BOOLEAN,
                  login : Logins \cup {0}]
  BY <1>5
<1>6. CASE q \in [op : {"create account"}, id : Accounts, registrar : RegistrarIds,
                  login : Logins \cup {0}, alone : BOOLEAN]
  BY <1>6
<1> QED
  BY <1>1, <1>2, <1>3, <1>4, <1>5, <1>6 DEF Writes

LEMMA NoticedWrites ==
    ASSUME NEW q \in Writes
    PROVE  [q EXCEPT !.alone = FALSE] \in Writes
BY DEF Writes

LEMMA NamesIs ==
    ASSUME RequestTypes, NEW login \in Logins
    PROVE  /\ Names(login) \in SUBSET Nat /\ Names(login) \in SUBSET Fqdns
           /\ IsFiniteSet(Names(login)) /\ 0 \notin Names(login)
           /\ \A f \in Names(login) : held[login][f] \in Dates
<1>1. Names(login) \in SUBSET Fqdns
  BY DEF Names
<1>2. IsFiniteSet(Names(login))
  BY <1>1, ImportAssumption, FS_Subset
<1> QED
  BY <1>1, <1>2, ImportAssumption DEF RequestTypes, Names

(* Something has come between: what was listed stays so.                   *)
LEMMA OtherRequest ==
    ASSUME RequestTypes, NEW r \in Requests, RequestOf(requests[r]), UNCHANGED held
    PROVE  /\ Disturbed(requests)[r] \in {NoRequest} \cup Writes \cup Syncs
           /\ \A p : p = Disturbed(requests)[r] => RequestOf(p)'
<1>1. PICK q \in {NoRequest} \cup Writes \cup Syncs : q = requests[r]
  BY DEF RequestTypes
<1>2. CASE q = NoRequest
  <2>1. Disturbed(requests)[r] = NoRequest
    BY <1>1, <1>2 DEF Disturbed
  <2> QED
    BY <2>1 DEF RequestOf, NoRequest
<1>3. CASE q # NoRequest
  <2>1. Disturbed(requests)[r] = [q EXCEPT !.alone = FALSE]
    BY <1>1, <1>3 DEF Disturbed
  <2>2. CASE q \in Writes
    <3>1. [q EXCEPT !.alone = FALSE] \in Writes
      BY <2>2, NoticedWrites
    <3> QED
      BY <2>1, <3>1, SyncOnly DEF RequestOf
  <2>3. CASE q \in Syncs
    <3>1. PICK p : p = [q EXCEPT !.alone = FALSE]
      OBVIOUS
    <3>2. /\ p \in Syncs /\ p.alone = FALSE /\ p.type = q.type /\ p.login = q.login
          /\ p.pc = q.pc /\ p.cursor = q.cursor /\ p.listed = q.listed
          /\ p.kept = q.kept /\ p.left = q.left
      BY <2>3, <3>1, Noticed
    <3>3. ListOf(q)
      BY <1>1, <2>3, SyncFields DEF RequestOf
    <3>4. ListOf(p)'
      BY <3>2, <3>3 DEF ListOf, Names
    <3>5. AloneOf(p)'
      BY <3>2 DEF AloneOf
    <3> QED
      BY <2>1, <3>1, <3>2, <3>4, <3>5 DEF RequestOf
  <2> QED
    BY <1>3, <2>2, <2>3
<1> QED
  BY <1>2, <1>3

(* A step that all requests notice. *)
LEMMA Disturbing ==
    ASSUME SyncInv, UNCHANGED held, accounts' \in [Accounts -> AccountRows],
           requests' = Disturbed(requests), answer' = NoAnswer
    PROVE  SyncInv'
<1>1. SyncIsTrue'
  BY DEF SyncIsTrue, NoAnswer
<1>2. ASSUME NEW r \in Requests
      PROVE  /\ requests'[r] \in {NoRequest} \cup Writes \cup Syncs
             /\ RequestOf(requests[r])'
  <2>1. PICK p : p = Disturbed(requests)[r]
    OBVIOUS
  <2>2. p \in {NoRequest} \cup Writes \cup Syncs /\ RequestOf(p)'
    BY <2>1, OtherRequest DEF SyncInv
  <2>3. requests'[r] = p
    BY <2>1
  <2> QED
    BY <2>2, <2>3
<1>3. requests' = [r \in Requests |-> requests'[r]]
  BY DEF Disturbed
<1>4. RequestTypes'
  BY <1>2, <1>3 DEF RequestTypes, SyncInv
<1> QED
  BY <1>1, <1>2, <1>4 DEF SyncInv

(* The same with one request that goes on, begins or ends. *)
LEMMA DisturbingOthers ==
    ASSUME SyncInv, UNCHANGED held, accounts' \in [Accounts -> AccountRows],
           NEW r \in Requests, NEW new \in {NoRequest} \cup Writes \cup Syncs,
           RequestOf(new)', requests' = [Disturbed(requests) EXCEPT ![r] = new],
           answer' = NoAnswer
    PROVE  SyncInv'
<1>1. SyncIsTrue'
  BY DEF SyncIsTrue, NoAnswer
<1>2. ASSUME NEW k \in Requests
      PROVE  /\ requests'[k] \in {NoRequest} \cup Writes \cup Syncs
             /\ RequestOf(requests[k])'
  <2>1. PICK p : p = Disturbed(requests)[k]
    OBVIOUS
  <2>2. p \in {NoRequest} \cup Writes \cup Syncs /\ RequestOf(p)'
    BY <2>1, OtherRequest DEF SyncInv
  <2>3. requests'[k] = IF k = r THEN new ELSE p
    BY <2>1 DEF Disturbed
  <2> QED
    BY <2>2, <2>3
<1>3. requests' = [k \in Requests |-> requests'[k]]
  BY DEF Disturbed
<1>4. RequestTypes'
  BY <1>2, <1>3 DEF RequestTypes, SyncInv
<1> QED
  BY <1>1, <1>2, <1>4 DEF SyncInv

(* One request goes on, or ends, and the others see nothing of it.         *)
LEMMA Continuing ==
    ASSUME SyncInv, UNCHANGED <<domains, held, accounts>>,
           NEW r \in Requests, NEW new \in {NoRequest} \cup Writes \cup Syncs,
           RequestOf(new)', requests' = [requests EXCEPT ![r] = new], SyncIsTrue'
    PROVE  SyncInv'
<1>1. RequestTypes'
  BY DEF SyncInv, RequestTypes
<1>2. ASSUME NEW k \in Requests
      PROVE  RequestOf(requests[k])'
  <2>1. PICK p : p = requests[k]
    OBVIOUS
  <2>2. RequestOf(p)'
    BY <2>1 DEF SyncInv, RequestOf, ListOf, AloneOf, Dated, Names
  <2>3. requests'[k] = IF k = r THEN new ELSE p
    BY <2>1 DEF SyncInv, RequestTypes
  <2> QED
    BY <2>2, <2>3
<1> QED
  BY <1>1, <1>2 DEF SyncInv

LEMMA NoRequestIsOne ==
    RequestOf(NoRequest) /\ RequestOf(NoRequest)' /\ \A q \in Writes : RequestOf(q)'
BY SyncOnly DEF RequestOf, NoRequest

(* A request that writes in its next step. *)
LEMMA Begins ==
    ASSUME SyncInv, NEW r \in Requests, NEW new \in Writes,
           AdminRequest(r, new)
    PROVE  SyncInv'
<1>1. /\ requests' = [Disturbed(requests) EXCEPT ![r] = new] /\ answer' = NoAnswer
      /\ UNCHANGED <<held, accounts>>
  BY DEF AdminRequest, Begin, tables
<1>2. accounts' \in [Accounts -> AccountRows]
  BY <1>1 DEF SyncInv, RequestTypes
<1>3. RequestOf(new)'
  BY NoRequestIsOne
<1> QED
  BY <1>1, <1>2, <1>3, DisturbingOthers

LEMMA LoginOf ==
    ASSUME RequestTypes, NEW a \in Accounts
    PROVE  accounts[a].login \in Logins \cup {0}
BY DEF RequestTypes, AccountRows

(* Every request of an administrator but a sync. *)
LEMMA AdminKeeps ==
    ASSUME SyncInv, NEW r \in Requests, Admin(r), ~\E a \in Accounts : Sync(r, a)
    PROVE  SyncInv'
<1>1. ASSUME NEW g \in RegistrarIds, NEW api,
             CreateRegistrar(g, api) \/ UpdateRegistrar(g, api)
      PROVE  SyncInv'
  <2>1. UNCHANGED <<held, accounts>> /\ requests' = Disturbed(requests) /\ answer' = NoAnswer
    BY <1>1 DEF CreateRegistrar, UpdateRegistrar, Administer, Disturb
  <2>2. accounts' \in [Accounts -> AccountRows]
    BY <2>1 DEF SyncInv, RequestTypes
  <2> QED
    BY <2>1, <2>2, Disturbing
<1>2. Quiet \in BOOLEAN
  BY DEF Quiet
<1> HIDE DEF Quiet
<1>3. ASSUME NEW g \in RegistrarIds, DeleteRegistrar(r, g) PROVE SyncInv'
  <2> DEFINE new == [op |-> "delete registrar", id |-> g, alone |-> Quiet]
  <2>1. AdminRequest(r, new)
    BY <1>3 DEF DeleteRegistrar, ServiceDelete
  <2>2. new \in Writes
    BY <1>2 DEF Writes
  <2> QED
    BY <2>1, <2>2, Begins
<1>4. ASSUME NEW a \in Accounts, NEW l \in Logins \cup {0}, UpdateAccount(r, a, l)
      PROVE  SyncInv'
  <2> DEFINE login == IF l = 0 THEN accounts[a].login ELSE l
             new == [op |-> "update account", id |-> a, alone |-> Quiet, login |-> login]
  <2>1. AdminRequest(r, new)
    BY <1>4 DEF UpdateAccount, ServiceUpdateAccount
  <2>2. login \in Logins \cup {0}
    BY LoginOf DEF SyncInv
  <2> HIDE DEF login
  <2>3. new \in Writes
    BY <1>2, <2>2 DEF Writes
  <2> QED
    BY <2>1, <2>3, Begins
<1>5. ASSUME NEW a \in Accounts, NEW l \in Logins \cup {0}, NEW g \in RegistrarIds,
             CreateAccount(r, a, g, l)
      PROVE  SyncInv'
  <2> DEFINE new == [op |-> "create account", id |-> a, registrar |-> g, login |-> l,
                     alone |-> Quiet]
  <2>1. AdminRequest(r, new)
    BY <1>5 DEF CreateAccount, ServiceCreateAccount
  <2>2. new \in Writes
    BY <1>2 DEF Writes
  <2> QED
    BY <2>1, <2>2, Begins
<1>6. ASSUME NEW a \in Accounts, DeleteAccount(r, a) PROVE SyncInv'
  <2> DEFINE new == [op |-> "delete account", id |-> a, alone |-> Quiet]
  <2>1. AdminRequest(r, new)
    BY <1>6 DEF DeleteAccount, ServiceDeleteAccount
  <2>2. new \in Writes
    BY <1>2 DEF Writes
  <2> QED
    BY <2>1, <2>2, Begins
<1> QED
  BY <1>1, <1>3, <1>4, <1>5, <1>6 DEF Admin

LEMMA WriteKeeps ==
    ASSUME SyncInv, NEW r \in Requests, Write(r)
    PROVE  SyncInv'
<1>1. PICK q \in {NoRequest} \cup Writes \cup Syncs : q = requests[r]
  BY DEF SyncInv, RequestTypes
<1>2. /\ requests' = [Disturbed(requests) EXCEPT ![r] = NoRequest]
      /\ answer' = NoAnswer /\ UNCHANGED held
  BY DEF Write
<1>3. accounts \in [Accounts -> AccountRows]
  BY DEF SyncInv, RequestTypes
<1>4. accounts' \in [Accounts -> AccountRows]
  <2>1. CASE UNCHANGED accounts
    BY <1>3, <2>1
  <2>2. CASE q.op = "create account" /\ InsertAccount(q)
    <3>1. q.id \in Accounts /\ q.registrar \in RegistrarIds /\ q.login \in Logins \cup {0}
      BY <2>2, WriteFields
    <3>2. [state |-> "live", registrar |-> q.registrar, login |-> q.login] \in AccountRows
      BY <3>1 DEF AccountRows
    <3> QED
      BY <1>3, <2>2, <3>1, <3>2 DEF InsertAccount
  <2>3. CASE q.op = "update account" /\ SetAccount(q)
    <3>1. q.id \in Accounts /\ q.login \in Logins \cup {0}
      BY <2>3, WriteFields
    <3>2. [accounts[q.id] EXCEPT !.login = q.login] \in AccountRows
      BY <1>3, <3>1 DEF AccountRows
    <3> QED
      BY <1>3, <2>3, <3>1, <3>2 DEF SetAccount
  <2>4. CASE q.op = "delete account" /\ SoftDeleteAccount(q.id)
    <3>1. q.id \in Accounts
      BY <2>4, WriteFields
    <3>2. [accounts[q.id] EXCEPT !.state = "deleted"] \in AccountRows
      BY <1>3, <3>1 DEF AccountRows
    <3> QED
      BY <1>3, <2>4, <3>1, <3>2 DEF SoftDeleteAccount
  <2> QED
    BY <1>1, <2>1, <2>2, <2>3, <2>4 DEF Write
<1> QED
  BY <1>2, <1>4, NoRequestIsOne, DisturbingOthers

LEMMA SyncBegins ==
    ASSUME SyncInv, NEW r \in Requests, NEW a \in Accounts, Sync(r, a)
    PROVE  SyncInv'
<1>1. PICK type, login, names, alone :
         /\ type = registrars[accounts[a].registrar].api /\ login = accounts[a].login
         /\ names = Names(login) /\ alone = Quiet
  OBVIOUS
<1> DEFINE new == [op |-> "sync", id |-> a, type |-> type, login |-> login,
                   pc |-> "list", cursor |-> FirstPage(type), listed |-> {},
                   todo |-> {}, notFound |-> {}, errors |-> FALSE,
                   kept |-> names, left |-> FALSE, alone |-> alone]
<1>2. GetProvider(type, login) /\ AdminRequest(r, new)
  BY <1>1 DEF Sync, SyncAccount
<1>3. type \in RegisteredTypes /\ login # 0
  BY <1>2 DEF GetProvider, RegisteredTypes, newGoDaddyProvider, newNamecheapProvider,
              newAliyunProvider
<1>4. login \in Logins
  BY <1>1, <1>3, LoginOf DEF SyncInv
<1>5. names \in SUBSET Fqdns /\ names \in SUBSET Nat /\ 0 \notin names /\ IsFiniteSet(names)
  BY <1>1, <1>4, NamesIs DEF SyncInv
<1>6. FirstPage(type) \in Nat /\ (type = "godaddy" => FirstPage(type) = 0)
      /\ (type # "godaddy" => FirstPage(type) = 1)
  BY DEF FirstPage
<1>7. alone \in BOOLEAN
  BY <1>1 DEF Quiet
<1>8. new \in Syncs
  BY <1>3, <1>4, <1>5, <1>6, <1>7 DEF Syncs
<1>9. /\ new.pc = "list" /\ new.kept = names /\ new.login = login /\ new.type = type
      /\ new.cursor = FirstPage(type) /\ new.left = FALSE /\ new.todo = {} /\ new.listed = {}
  OBVIOUS
<1> HIDE DEF new
<1>10. PICK it : it = new
  OBVIOUS
<1>11. /\ requests' = [Disturbed(requests) EXCEPT ![r] = it] /\ answer' = NoAnswer
       /\ UNCHANGED <<held, accounts>>
  BY <1>2, <1>10 DEF AdminRequest, Begin, tables
<1>12. Names(login)' = names
  BY <1>1, <1>11 DEF Names
<1>13. \A n \in names : ~Passed(type, names, FirstPage(type), n)
  <2> SUFFICES ASSUME NEW n \in names PROVE ~Passed(type, names, FirstPage(type), n)
    OBVIOUS
  <2>1. CASE type = "godaddy"
    <3>1. n \in Nat /\ n # 0
      BY <1>5
    <3> QED
      BY <1>6, <2>1, <3>1 DEF Passed
  <2>2. CASE type # "godaddy"
    <3>1. Before(names, n) \in Nat /\ RegistrarPage \in Nat
      BY <1>5, BeforeIs, RegistrarPageAssumption
    <3>2. (1 - 1) * RegistrarPage = 0
      BY <3>1
    <3>3. ~(Before(names, n) < 0)
      BY <3>1
    <3> QED
      BY <1>6, <2>2, <3>2, <3>3 DEF Passed
  <2> QED
    BY <2>1, <2>2
<1>14. ListOf(it)'
  BY <1>6, <1>9, <1>10, <1>12, <1>13 DEF ListOf
<1>15. AloneOf(it)'
  BY <1>9, <1>10, <1>12 DEF AloneOf
<1>16. accounts' \in [Accounts -> AccountRows]
  BY <1>11 DEF SyncInv, RequestTypes
<1> QED
  BY <1>8, <1>10, <1>11, <1>14, <1>15, <1>16, DisturbingOthers DEF RequestOf

(* What was held against the state can still be. *)
LEMMA TrueStays ==
    ASSUME SyncIsTrue, UNCHANGED <<domains, held, answer>>
    PROVE  SyncIsTrue'
BY DEF SyncIsTrue, Names

LEMMA Ends ==
    ASSUME SyncInv, NEW r \in Requests, Fail(r), UNCHANGED <<domains, held, accounts>>
    PROVE  SyncInv'
<1>1. SyncIsTrue'
  BY DEF Fail, SyncIsTrue, NoAnswer
<1> QED
  BY <1>1, NoRequestIsOne, Continuing DEF Fail

LEMMA FetchKeeps ==
    ASSUME SyncInv, NEW r \in Requests, NEW refused \in BOOLEAN, FetchPage(r, refused)
    PROVE  SyncInv'
<1> DEFINE s == requests[r]
<1>1. PICK reply \in Answers(s.type, refused) :
        LET page == ListDomains(s.type, IF refused THEN {} ELSE Names(s.login), s.cursor)
            infos == {[cursor |-> s.cursor,
                       info |-> DomainInfo(s.type, f, held[s.login][f])] : f \in page.items}
        IN  IF FetchOK(s.type, reply)
            THEN Continue(r, [s EXCEPT !.cursor = page.next,
                     !.pc = IF page.more THEN "list" ELSE "write",
                     !.listed = @ \cup page.items,
                     !.todo = @ \cup infos])
            ELSE Fail(r)
  BY DEF FetchPage
<1>2. s.op = "sync" /\ s.pc = "list" /\ UNCHANGED <<domains, held, accounts>>
  BY DEF FetchPage, tables
<1>3. s \in Syncs
  BY <1>2, SyncOnly DEF SyncInv, RequestTypes
<1>4. s.type \in RegisteredTypes
  BY <1>3, SyncFields
<1>5. PICK q : q = s
  OBVIOUS
<1>6. CASE ~FetchOK(s.type, reply)
  BY <1>1, <1>2, <1>6, Ends
<1>7. CASE FetchOK(s.type, reply)
  <2>1. ~refused
    BY <1>4, <1>7, RefusalsAreSeen
  <2>2. PICK names, page : names = Names(q.login) /\ page = ListDomains(q.type, names, q.cursor)
    OBVIOUS
  <2>3. PICK infos : infos = {[cursor |-> q.cursor,
                 info |-> DomainInfo(q.type, f, held[q.login][f])] : f \in page.items}
    OBVIOUS
  <2>4. Continue(r, [q EXCEPT !.cursor = page.next,
                     !.pc = IF page.more THEN "list" ELSE "write",
                     !.listed = @ \cup page.items,
                     !.todo = @ \cup infos])
    BY <1>1, <1>5, <1>7, <2>1, <2>2, <2>3
  <2>5. requests' = [requests EXCEPT ![r] =
               [q EXCEPT !.cursor = page.next, !.pc = IF page.more THEN "list" ELSE "write",
                         !.listed = @ \cup page.items, !.todo = @ \cup infos]]
        /\ UNCHANGED answer
    BY <2>4 DEF Continue
  <2>6. q \in Syncs /\ q = requests[r] /\ q.pc = "list"
    BY <1>2, <1>3, <1>5
  <2>7. UNCHANGED answer /\ q.op = "sync"
    BY <1>2, <1>5, <2>5
  <2>8. PICK new :
           new = [q EXCEPT !.cursor = page.next, !.pc = IF page.more THEN "list" ELSE "write",
                           !.listed = @ \cup page.items, !.todo = @ \cup infos]
    OBVIOUS
  <2>9. /\ q.type \in RegisteredTypes /\ q.login \in Logins /\ q.cursor \in Nat
        /\ q.listed \in SUBSET Fqdns /\ q.todo \in SUBSET Infos /\ q.kept \in SUBSET Fqdns
        /\ q.op = "sync"
    BY <2>6, SyncFields
  <2>10. ListOf(q) /\ AloneOf(q)
    BY <2>6, <2>9 DEF SyncInv, RequestOf
  <2>11. /\ names \in SUBSET Nat /\ names \in SUBSET Fqdns /\ IsFiniteSet(names)
        /\ \A f \in names : held[q.login][f] \in Dates
    BY <2>2, <2>9, NamesIs DEF SyncInv
  <2>12. q.type # "godaddy" => q.cursor >= 1
    BY <2>2, <2>6, <2>10 DEF ListOf
  <2>13. Advances(q.type, names, q.cursor, page)
    BY <2>2, <2>9, <2>11, <2>12, ListingAdvances
  <2>14. page.items \subseteq names /\ page.next \in Nat /\ (q.type # "godaddy" => page.next >= 1)
    BY <2>13 DEF Advances
  <2>15. infos = {[cursor |-> q.cursor, info |-> [fqdn |-> f, expiry |-> held[q.login][f]]] :
                    f \in page.items}
    BY <2>3, <2>9, DatesAreRead
  <2>16. infos \in SUBSET Infos
    <3>1. ASSUME NEW f \in names
          PROVE  [cursor |-> q.cursor, info |-> [fqdn |-> f, expiry |-> held[q.login][f]]] \in Infos
      BY <2>9, <2>11 DEF Infos
    <3> QED
      BY <2>14, <2>15, <3>1
  <2>17. /\ new \in Syncs /\ new.cursor = page.next /\ new.listed = q.listed \cup page.items
         /\ new.pc = (IF page.more THEN "list" ELSE "write") /\ new.todo = q.todo \cup infos
         /\ new.kept = q.kept /\ new.login = q.login /\ new.type = q.type /\ new.left = q.left
         /\ new.alone = q.alone /\ new.errors = q.errors /\ new.id = q.id
         /\ new.notFound = q.notFound /\ new.op = "sync"
    <3>1. PICK pc, listed, todo : /\ pc = IF page.more THEN "list" ELSE "write"
                                  /\ listed = q.listed \cup page.items
                                  /\ todo = q.todo \cup infos
      OBVIOUS
    <3>2. pc \in {"list", "write"} /\ listed \in SUBSET Fqdns /\ todo \in SUBSET Infos
      BY <2>9, <2>11, <2>14, <2>16, <3>1
    <3>3. new = [q EXCEPT !.cursor = page.next, !.pc = pc, !.listed = listed, !.todo = todo]
      BY <2>8, <3>1
    <3>4. /\ new \in Syncs /\ new.cursor = page.next /\ new.listed = listed
          /\ new.pc = pc /\ new.todo = todo
          /\ new.kept = q.kept /\ new.login = q.login /\ new.type = q.type /\ new.left = q.left
          /\ new.alone = q.alone /\ new.errors = q.errors /\ new.id = q.id
          /\ new.notFound = q.notFound /\ new.op = q.op
      BY <2>6, <2>14, <3>2, <3>3 DEF Syncs
    <3> QED
      BY <2>9, <3>1, <3>4
  <2>18. Names(q.login)' = names /\ held'[q.login] = held[q.login]
    BY <1>2, <2>2 DEF Names
  <2>19. /\ q.kept \subseteq names
         /\ \A n \in q.kept : Passed(q.type, names, q.cursor, n)
                              /\ (q.type = "godaddy" \/ ~q.left) => n \in q.listed
    BY <2>2, <2>6, <2>10 DEF ListOf
  <2>20. ListOf(new)'
    <3>1. page.more => \A n \in q.kept :
             Passed(q.type, names, page.next, n) /\ (q.type = "godaddy" \/ ~q.left)
             => n \in new.listed
      BY <2>13, <2>17, <2>19 DEF Advances
    <3>2. ~page.more /\ (q.type = "godaddy" \/ ~q.left) => q.kept \subseteq new.listed
      BY <2>13, <2>17, <2>19 DEF Advances
    <3> QED
      BY <2>14, <2>17, <2>18, <2>19, <3>1, <3>2 DEF ListOf
  <2>21. AloneOf(new)'
    <3> SUFFICES ASSUME q.alone, ~q.errors
                 PROVE  /\ q.kept = names /\ ~q.left
                        /\ \A e \in new.todo : e.info.expiry = held[q.login][e.info.fqdn]
                        /\ \A f \in new.listed : (\E e \in new.todo : e.info.fqdn = f)
                                                 \/ Dated(new, f)'
      BY <2>17, <2>18 DEF AloneOf
    <3>1. /\ q.kept = names /\ ~q.left
          /\ \A e \in q.todo : e.info.expiry = held[q.login][e.info.fqdn]
          /\ \A f \in q.listed : (\E e \in q.todo : e.info.fqdn = f) \/ Dated(q, f)
      BY <2>2, <2>10 DEF AloneOf
    <3>2. \A e \in infos : e.info.expiry = held[q.login][e.info.fqdn]
      BY <2>15
    <3>3. ASSUME NEW f \in page.items PROVE \E e \in infos : e.info.fqdn = f
      <4> DEFINE e == [cursor |-> q.cursor, info |-> [fqdn |-> f, expiry |-> held[q.login][f]]]
      <4>1. e \in infos
        BY <2>15
      <4>2. e.info.fqdn = f
        OBVIOUS
      <4> HIDE DEF e
      <4> QED
        BY <4>1, <4>2
    <3>4. \A f : Dated(q, f) => Dated(new, f)'
      BY <1>2, <2>17, <2>18 DEF Dated
    <3> QED
      BY <2>17, <3>1, <3>2, <3>3, <3>4
  <2>22. SyncIsTrue'
    BY <1>2, <2>7, TrueStays DEF SyncInv
  <2> QED
    BY <1>2, <2>5, <2>8, <2>17, <2>20, <2>21, <2>22, Continuing DEF RequestOf
<1> QED
  BY <1>6, <1>7

LEMMA FirstIsOne ==
    ASSUME NEW todo \in SUBSET Infos, todo # {}
    PROVE  /\ FirstOf(todo) \in todo
           /\ FirstOf(todo).info.fqdn \in Fqdns /\ FirstOf(todo).info.expiry \in Dates
<1> DEFINE cursors == {e.cursor : e \in todo}
<1>1. \A e \in todo : e.cursor \in Nat /\ e.info.fqdn \in Fqdns /\ e.info.expiry \in Dates
  BY DEF Infos
<1>2. cursors \in SUBSET Nat /\ cursors # {}
  BY <1>1
<1>3. PICK c \in cursors : \A d \in cursors : c <= d
  <2> HIDE DEF cursors
  <2> QED
    BY <1>2, LeastOf
<1> DEFINE names == {e.info.fqdn : e \in {d \in todo : d.cursor = c}}
<1>4. names \in SUBSET Nat /\ names # {}
  BY <1>1, <1>3, ImportAssumption
<1>5. PICK f \in names : \A g \in names : f <= g
  <2> HIDE DEF names
  <2> QED
    BY <1>4, LeastOf
<1>6. PICK i \in todo : i.cursor = c /\ i.info.fqdn = f
  BY <1>5
<1>7. \A k \in todo : \/ i.cursor < k.cursor
                      \/ i.cursor = k.cursor /\ i.info.fqdn <= k.info.fqdn
  <2> SUFFICES ASSUME NEW k \in todo, ~(i.cursor < k.cursor)
               PROVE  i.cursor = k.cursor /\ i.info.fqdn <= k.info.fqdn
    OBVIOUS
  <2>1. c <= k.cursor /\ c \in Nat /\ k.cursor \in Nat
    BY <1>1, <1>2, <1>3
  <2>2. k.cursor = c
    BY <1>6, <2>1
  <2>3. k.info.fqdn \in names
    BY <2>2
  <2> QED
    BY <1>5, <1>6, <2>2, <2>3
<1>8. FirstOf(todo) \in todo
  BY <1>7 DEF FirstOf
<1> QED
  BY <1>1, <1>8

LEMMA UpdateKeeps ==
    ASSUME DomainInv, SyncInv, NEW r \in Requests, UpdateDomainDates(r)
    PROVE  SyncInv' /\ DomainInv' /\ KeepsRows
<1>1. PICK q, first : q = requests[r] /\ first = FirstOf(q.todo)
  OBVIOUS
<1> DEFINE found == Matches(first.info, q.id)
           row   == [domains[first.info.fqdn] EXCEPT !.expiry = first.info.expiry]
           turned == [q EXCEPT !.todo = @ \ {first},
                               !.notFound = IF found THEN @ ELSE @ \cup {first.info.fqdn}]
<1>2. /\ q.op = "sync" /\ q.pc = "write" /\ q.todo # {} /\ UNCHANGED <<held, accounts>>
      /\ domains' = IF found THEN [domains EXCEPT ![first.info.fqdn] = row] ELSE domains
      /\ requests' = [Disturbed(requests) EXCEPT ![r] = turned]
      /\ answer' = NoAnswer
  BY <1>1 DEF UpdateDomainDates, tables
<1>3. q \in Syncs
  BY <1>1, <1>2, SyncOnly DEF SyncInv, RequestTypes
<1>4. /\ q.login \in Logins /\ q.todo \in SUBSET Infos /\ q.notFound \in SUBSET Fqdns
      /\ q.listed \in SUBSET Fqdns
  BY <1>3, SyncFields
<1>5. first \in q.todo /\ first.info.fqdn \in Fqdns /\ first.info.expiry \in Dates
  BY <1>1, <1>2, <1>4, FirstIsOne
<1>6. row \in Rows /\ row.by = domains[first.info.fqdn].by /\ row.expiry = first.info.expiry
      /\ row.state = domains[first.info.fqdn].state
      /\ row.account = domains[first.info.fqdn].account
  BY <1>5, RegistrarsAssumption DEF DomainInv, Rows
<1> HIDE DEF row
<1>7. DomainInv' /\ KeepsRows
  <2>1. CASE found
    BY <1>2, <1>5, <1>6, <2>1, Edited
  <2>2. CASE ~found
    BY <1>2, <2>2 DEF DomainInv, KeepsRows
  <2> QED
    BY <2>1, <2>2
<1>8. PICK new, todo, notFound :
         /\ todo = q.todo \ {first}
         /\ notFound = IF found THEN q.notFound ELSE q.notFound \cup {first.info.fqdn}
         /\ new = [q EXCEPT !.todo = todo, !.notFound = notFound]
  OBVIOUS
<1>9. turned = new
  BY <1>8
<1>10. todo \in SUBSET Infos /\ notFound \in SUBSET Fqdns
  BY <1>4, <1>5, <1>8
<1> HIDE DEF turned, found
<1>11. /\ new \in Syncs /\ new.todo = todo /\ new.notFound = notFound /\ new.op = "sync"
       /\ new.id = q.id /\ new.type = q.type /\ new.login = q.login /\ new.pc = q.pc
       /\ new.listed = q.listed /\ new.errors = q.errors /\ new.kept = q.kept
       /\ new.left = q.left /\ new.alone = q.alone
  BY <1>2, <1>3, <1>8, <1>10 DEF Syncs
<1>12. ListOf(q) /\ AloneOf(q)
  BY <1>1, <1>2 DEF SyncInv, RequestOf
<1>13. ListOf(new)'
  BY <1>2, <1>11, <1>12 DEF ListOf
<1>14. AloneOf(new)'
  <2>0. Names(q.login)' = Names(q.login) /\ held'[q.login] = held[q.login]
    BY <1>2 DEF Names
  <2> SUFFICES ASSUME q.alone, ~q.errors
               PROVE  /\ q.kept = Names(q.login) /\ ~q.left
                      /\ \A e \in todo : e.info.expiry = held[q.login][e.info.fqdn]
                      /\ \A f \in q.listed : (\E e \in todo : e.info.fqdn = f)
                                             \/ Dated(new, f)'
    BY <1>11, <2>0 DEF AloneOf
  <2>1. /\ q.kept = Names(q.login) /\ ~q.left
        /\ \A e \in q.todo : e.info.expiry = held[q.login][e.info.fqdn]
        /\ \A f \in q.listed : (\E e \in q.todo : e.info.fqdn = f) \/ Dated(q, f)
    BY <1>12 DEF AloneOf
  <2>2. ASSUME NEW f \in q.listed, ~\E e \in todo : e.info.fqdn = f PROVE Dated(new, f)'
    <3>1. CASE f = first.info.fqdn
      <4>1. CASE found
        <5>1. domains'[f] = row /\ row.expiry = held[q.login][f]
              /\ row.state # "none" /\ row.account = q.id
          BY <1>2, <1>5, <1>6, <2>1, <3>1, <4>1 DEF found, Matches, DomainInv
        <5> QED
          BY <1>11, <2>0, <5>1 DEF Dated
      <4>2. CASE ~found
        <5>1. domains'[f] = domains[f] /\ f \in notFound
              /\ (domains[f].state = "none" \/ domains[f].account # q.id)
          BY <1>2, <1>8, <3>1, <4>2 DEF found, Matches
        <5> QED
          BY <1>11, <5>1 DEF Dated
      <4> QED
        BY <4>1, <4>2
    <3>2. CASE f # first.info.fqdn
      <4>1. ~\E e \in q.todo : e.info.fqdn = f
        BY <1>8, <2>2, <3>2
      <4>2. Dated(q, f)
        BY <2>1, <4>1
      <4>3. domains'[f] = domains[f]
        BY <1>2, <1>4, <3>2 DEF DomainInv
      <4>4. q.notFound \subseteq notFound
        BY <1>8
      <4> QED
        BY <1>11, <2>0, <4>2, <4>3, <4>4 DEF Dated
    <3> QED
      BY <3>1, <3>2
  <2> QED
    BY <1>8, <2>1, <2>2
<1>15. accounts' \in [Accounts -> AccountRows]
  BY <1>2 DEF SyncInv, RequestTypes
<1>16. SyncInv'
  BY <1>2, <1>9, <1>11, <1>13, <1>14, <1>15, DisturbingOthers DEF RequestOf
<1> QED
  BY <1>7, <1>16

LEMMA UpdateFailsKeeps ==
    ASSUME SyncInv, NEW r \in Requests, UpdateFails(r)
    PROVE  SyncInv'
<1>1. PICK q, first : q = requests[r] /\ first = FirstOf(q.todo)
  OBVIOUS
<1>2. PICK new, todo : todo = q.todo \ {first} /\ new = [q EXCEPT !.todo = todo, !.errors = TRUE]
  OBVIOUS
<1>3. /\ q.op = "sync" /\ q.pc = "write" /\ UNCHANGED <<domains, held, accounts, answer>>
      /\ requests' = [requests EXCEPT ![r] = new]
  BY <1>1, <1>2 DEF UpdateFails, Continue, tables
<1>4. q \in Syncs
  BY <1>1, <1>3, SyncOnly DEF SyncInv, RequestTypes
<1>5. todo \in SUBSET Infos
  BY <1>2, <1>4, SyncFields
<1>6. /\ new \in Syncs /\ new.errors = TRUE /\ new.op = "sync" /\ new.type = q.type
      /\ new.pc = q.pc /\ new.listed = q.listed /\ new.kept = q.kept /\ new.left = q.left
  BY <1>2, <1>3, <1>4, <1>5 DEF Syncs
<1>7. ListOf(new)' /\ AloneOf(new)'
  BY <1>1, <1>3, <1>6 DEF SyncInv, RequestOf, ListOf, AloneOf
<1> QED
  BY <1>3, <1>6, <1>7, TrueStays, Continuing DEF RequestOf, SyncInv

(* What a sync that met nothing else answers. *)
LEMMA SyncDoneKeeps ==
    ASSUME SyncInv, NEW r \in Requests, SyncDone(r)
    PROVE  SyncInv'
<1>1. PICK q : q = requests[r]
  OBVIOUS
<1>2. /\ q.op = "sync" /\ q.pc = "write" /\ q.todo = {}
      /\ UNCHANGED <<domains, held, accounts>>
      /\ requests' = [requests EXCEPT ![r] = NoRequest]
      /\ answer' = IF q.alone /\ ~q.errors
                   THEN [op |-> "sync", account |-> q.id, login |-> q.login,
                         notFound |-> q.notFound]
                   ELSE NoAnswer
  BY <1>1 DEF SyncDone, tables
<1>3. SyncIsTrue'
  <2>1. CASE ~(q.alone /\ ~q.errors)
    BY <1>2, <2>1 DEF SyncIsTrue, NoAnswer
  <2>2. CASE q.alone /\ ~q.errors
    <3>1. /\ q.kept = Names(q.login) /\ ~q.left /\ q.kept \subseteq q.listed
          /\ \A f \in q.listed : Dated(q, f)
      BY <1>1, <1>2, <2>2 DEF SyncInv, RequestOf, ListOf, AloneOf
    <3>2. \A f \in Names(q.login) : Dated(q, f)
      BY <3>1
    <3>3. answer'.account = q.id /\ answer'.login = q.login /\ answer'.notFound = q.notFound
      BY <1>2, <2>2
    <3>4. Names(q.login)' = Names(q.login)
      BY <1>2 DEF Names
    <3> QED
      BY <1>2, <3>2, <3>3, <3>4 DEF SyncIsTrue, Dated
  <2> QED
    BY <2>1, <2>2
<1> QED
  BY <1>2, <1>3, NoRequestIsOne, Continuing

(* A name enters, leaves or is renewed: whoever leaves while it is listed  *)
(* is no longer expected, and more names make a page number worth less.    *)
LEMMA AtRegistrarOne ==
    ASSUME RequestTypes, NEW l \in Logins, NEW f \in Fqdns, NEW day \in Dates \cup {NotHeld},
           held' = [held EXCEPT ![l][f] = day],
           NEW q \in Syncs, ListOf(q), NEW s \in Syncs, s.alone = FALSE,
           NEW hit, hit = (q.pc = "list" /\ q.login = l /\ day = NotHeld),
           s.kept = (IF hit THEN q.kept \ {f} ELSE q.kept), s.left = (IF hit THEN TRUE ELSE q.left),
           s.type = q.type, s.login = q.login, s.pc = q.pc, s.cursor = q.cursor,
           s.listed = q.listed
    PROVE  RequestOf(s)'
<1>1. AloneOf(s)'
  BY DEF AloneOf
<1>2. /\ q.login \in Logins /\ q.kept \in SUBSET Fqdns /\ q.cursor \in Nat /\ q.type \in RegisteredTypes
      /\ q.pc \in {"list", "write"}
  BY SyncFields
<1>3. CASE q.pc = "write"
  BY <1>3 DEF ListOf, RequestOf, AloneOf
<1>4. CASE q.pc = "list"
  <2> DEFINE old == Names(q.login)
             new == {g \in Fqdns : held'[q.login][g] # NotHeld}
  <2>1. Names(q.login)' = new
    BY DEF Names
  <2>2. /\ held'[q.login][f] = (IF q.login = l THEN day ELSE held[q.login][f])
        /\ \A g \in Fqdns \ {f} : held'[q.login][g] = held[q.login][g]
    BY <1>2 DEF RequestTypes
  <2>3. old \in SUBSET Nat /\ IsFiniteSet(old) /\ old \in SUBSET Fqdns
    BY <1>2, NamesIs
  <2>4. new \in SUBSET Nat /\ IsFiniteSet(new)
    <3>1. new \in SUBSET Fqdns
      OBVIOUS
    <3> QED
      BY <3>1, ImportAssumption, FS_Subset
  <2>5. q.kept \subseteq old /\ (q.type # "godaddy" => q.cursor >= 1)
        /\ \A n \in q.kept : Passed(q.type, old, q.cursor, n)
                             /\ (q.type = "godaddy" \/ ~q.left) => n \in q.listed
    BY <1>4 DEF ListOf
  <2>6. CASE hit
    <3>1. s.kept \subseteq new
      BY <2>2, <2>5, <2>6, <1>2 DEF Names
    <3>2. \A n \in s.kept : Passed(s.type, new, s.cursor, n)
                            /\ (s.type = "godaddy" \/ ~s.left) => n \in s.listed
      BY <2>5, <2>6 DEF Passed
    <3> QED
      BY <1>1, <1>4, <2>1, <2>5, <3>1, <3>2 DEF ListOf, RequestOf
  <2>7. CASE ~hit
    <3>1. old \subseteq new
      BY <1>4, <2>2, <2>7 DEF Names
    <3>2. \A n \in q.kept : Passed(q.type, new, q.cursor, n) => Passed(q.type, old, q.cursor, n)
      <4> SUFFICES ASSUME NEW n \in q.kept, q.type # "godaddy",
                          Before(new, n) < (q.cursor - 1) * RegistrarPage
                   PROVE  Before(old, n) < (q.cursor - 1) * RegistrarPage
        BY DEF Passed
      <4>1. Before(old, n) <= Before(new, n)
        BY <2>3, <2>4, <3>1, BeforeGrows
      <4>2. Before(old, n) \in Nat /\ Before(new, n) \in Nat
        BY <2>3, <2>4, BeforeIs
      <4>3. (q.cursor - 1) * RegistrarPage \in Nat
        <5>1. \A c, p \in Nat : c >= 1 => (c - 1) * p \in Nat
          OBVIOUS
        <5> QED
          BY <1>2, <2>5, <5>1, RegistrarPageAssumption
      <4>4. \A a, b, c \in Nat : a <= b /\ b < c => a < c
        OBVIOUS
      <4> HIDE DEF old, new
      <4> QED
        BY <4>1, <4>2, <4>3, <4>4
    <3>3. s.kept \subseteq new
      BY <2>5, <2>7, <3>1
    <3>4. \A n \in s.kept : Passed(s.type, new, s.cursor, n)
                            /\ (s.type = "godaddy" \/ ~s.left) => n \in s.listed
      BY <2>5, <2>7, <3>2
    <3> QED
      BY <1>1, <1>4, <2>1, <2>5, <3>3, <3>4 DEF ListOf, RequestOf
  <2> QED
    BY <2>6, <2>7
<1> QED
  BY <1>2, <1>3, <1>4

LEMMA AtRegistrarKeeps ==
    ASSUME SyncInv, NEW l \in Logins, NEW f \in Fqdns, NEW day \in Dates \cup {NotHeld},
           AtRegistrar(l, f, day)
    PROVE  SyncInv'
<1>1. /\ held' = [held EXCEPT ![l][f] = day] /\ UNCHANGED accounts
      /\ answer' = NoAnswer
      /\ requests' = [q \in Requests |->
           LET s == Disturbed(requests)[q] IN
           IF s # NoRequest /\ s.op = "sync" /\ s.pc = "list" /\ s.login = l /\ day = NotHeld
           THEN [s EXCEPT !.kept = @ \ {f}, !.left = TRUE] ELSE s]
  BY DEF AtRegistrar, tables
<1>2. SyncIsTrue'
  BY <1>1 DEF SyncIsTrue, NoAnswer
<1>3. ASSUME NEW r \in Requests
      PROVE  /\ requests'[r] \in {NoRequest} \cup Writes \cup Syncs
             /\ RequestOf(requests[r])'
  <2>1. PICK q, s, new : /\ q = requests[r] /\ s = Disturbed(requests)[r]
                         /\ new = requests'[r]
    OBVIOUS
  <2>2. q \in {NoRequest} \cup Writes \cup Syncs /\ RequestOf(q)
    BY <2>1 DEF SyncInv, RequestTypes
  <2>3. new = IF s # NoRequest /\ s.op = "sync" /\ s.pc = "list" /\ s.login = l /\ day = NotHeld
              THEN [s EXCEPT !.kept = @ \ {f}, !.left = TRUE] ELSE s
    BY <1>1, <2>1
  <2>4. s = IF q = NoRequest THEN NoRequest ELSE [q EXCEPT !.alone = FALSE]
    BY <2>1 DEF Disturbed
  <2>5. CASE q = NoRequest
    <3>1. new = NoRequest
      BY <2>3, <2>4, <2>5
    <3> QED
      BY <2>1, <3>1, NoRequestIsOne
  <2>6. CASE q \in Writes
    <3>1. s \in Writes \/ s = NoRequest
      BY <2>4, <2>6, NoticedWrites
    <3>2. new = s
      BY <2>3, <3>1, SyncOnly
    <3> QED
      BY <2>1, <3>1, <3>2, NoRequestIsOne
  <2>7. CASE q \in Syncs
    <3>1. q # NoRequest /\ q.op = "sync" /\ q.kept \in SUBSET Fqdns
      BY <2>7, SyncOnly, SyncFields DEF NoRequest
    <3>2. s = [q EXCEPT !.alone = FALSE]
      BY <2>4, <3>1
    <3>3. /\ s \in Syncs /\ s.alone = FALSE /\ s.op = q.op
          /\ s.type = q.type /\ s.login = q.login /\ s.pc = q.pc /\ s.cursor = q.cursor
          /\ s.listed = q.listed /\ s.kept = q.kept /\ s.left = q.left
      BY <2>7, <3>2, Noticed
    <3>4. PICK hit : hit = (q.pc = "list" /\ q.login = l /\ day = NotHeld)
      OBVIOUS
    <3>5. s # NoRequest
      BY <3>1, <3>3, SyncOnly DEF NoRequest
    <3>6. CASE hit
      <4>1. PICK kept : kept = q.kept \ {f}
        OBVIOUS
      <4>2. new = [s EXCEPT !.kept = kept, !.left = TRUE] /\ kept \in SUBSET Fqdns
        BY <2>3, <3>1, <3>3, <3>4, <3>5, <3>6, <4>1
      <4>3. /\ new \in Syncs /\ new.alone = FALSE /\ new.kept = kept /\ new.left = TRUE
            /\ new.type = s.type /\ new.login = s.login /\ new.pc = s.pc
            /\ new.cursor = s.cursor /\ new.listed = s.listed
        BY <3>3, <4>2 DEF Syncs
      <4>4. ListOf(q)
        BY <2>2, <3>1 DEF RequestOf
      <4>5. RequestOf(new)'
        BY <1>1, <2>7, <3>3, <3>4, <3>6, <4>1, <4>3, <4>4, AtRegistrarOne DEF SyncInv
      <4> QED
        BY <2>1, <4>3, <4>5
    <3>7. CASE ~hit
      <4>1. new = s
        BY <2>3, <3>3, <3>4, <3>7
      <4>2. ListOf(q)
        BY <2>2, <3>1 DEF RequestOf
      <4>3. RequestOf(new)'
        BY <1>1, <2>7, <3>3, <3>4, <3>7, <4>1, <4>2, AtRegistrarOne DEF SyncInv
      <4> QED
        BY <2>1, <3>3, <4>1, <4>3
    <3> QED
      BY <3>6, <3>7
  <2> QED
    BY <2>2, <2>5, <2>6, <2>7
<1>4. requests' = [r \in Requests |-> requests'[r]]
  BY <1>1
<1>5. held' \in [Logins -> [Fqdns -> Dates \cup {NotHeld}]] /\ accounts' \in [Accounts -> AccountRows]
  BY <1>1 DEF SyncInv, RequestTypes
<1>6. RequestTypes'
  BY <1>3, <1>4, <1>5 DEF RequestTypes
<1> QED
  BY <1>2, <1>3, <1>6 DEF SyncInv

(* Steps that no request sees. *)
LEMMA Unseen ==
    ASSUME SyncInv, UNCHANGED <<domains, held, accounts, requests>>, SyncIsTrue'
    PROVE  SyncInv'
<1>1. RequestTypes'
  BY DEF SyncInv, RequestTypes
<1>2. ASSUME NEW k \in Requests
      PROVE  RequestOf(requests[k])'
  <2>1. PICK p : p = requests[k]
    OBVIOUS
  <2>2. RequestOf(p)'
    BY <2>1 DEF SyncInv, RequestOf, ListOf, AloneOf, Dated, Names
  <2> QED
    BY <2>1, <2>2
<1> QED
  BY <1>1, <1>2 DEF SyncInv

CheckStep ==
    \/ CheckUpdated \/ CheckDone \/ CheckDies
    \/ \E bad \in BOOLEAN : UpdateExpiryStatus(bad)
    \/ \E key \in {"expiring_90d", "expiring_30d", "expiring_7d", "expired"},
          lost \in BOOLEAN : Send(key, lost)

LEMMA CheckIsUnseen ==
    ASSUME SyncInv, CheckStep
    PROVE  SyncInv'
<1>1. UNCHANGED <<domains, held, accounts, requests>>
  BY DEF CheckStep, CheckUpdated, CheckDone, CheckDies, UpdateExpiryStatus, Send, tables
<1>2. UNCHANGED answer \/ answer' = NoAnswer \/ answer' = [op |-> "check", day |-> check.day]
  BY DEF CheckStep, CheckUpdated, CheckDone, CheckDies, UpdateExpiryStatus, Send
<1>3. SyncIsTrue'
  <2>1. CASE UNCHANGED answer
    BY <1>1, <2>1, TrueStays DEF SyncInv
  <2>2. CASE answer' = NoAnswer \/ answer' = [op |-> "check", day |-> check.day]
    BY <2>2 DEF SyncIsTrue, NoAnswer
  <2> QED
    BY <1>2, <2>1, <2>2
<1> QED
  BY <1>1, <1>3, Unseen

(* Steps that everybody notices. *)
LEMMA NoticedKeeps ==
    ASSUME SyncInv, Import \/ CheckAllExpiry \/
           \E f \in Fqdns, a \in Accounts \cup {0}, day \in Dates : UpdateAsset(f, a, day)
    PROVE  SyncInv'
<1>1. UNCHANGED <<held, accounts>> /\ requests' = Disturbed(requests) /\ answer' = NoAnswer
  BY DEF Import, CheckAllExpiry, UpdateAsset, Disturb, tables
<1>2. accounts' \in [Accounts -> AccountRows]
  BY <1>1 DEF SyncInv, RequestTypes
<1> QED
  BY <1>1, <1>2, Disturbing

LEMMA SyncStep ==
    ASSUME DomainInv, SyncInv, Next
    PROVE  SyncInv'
<1>1. CASE Import \/ CheckAllExpiry
  BY <1>1, NoticedKeeps
<1>2. ASSUME NEW r \in Requests,
             \/ Admin(r) \/ Write(r)
             \/ \E refused \in BOOLEAN : FetchPage(r, refused)
             \/ UpdateDomainDates(r) \/ UpdateFails(r) \/ SyncDone(r) \/ Abort(r)
      PROVE  SyncInv'
  <2>1. CASE Admin(r)
    BY <2>1, AdminKeeps, SyncBegins
  <2>2. CASE Abort(r)
    BY <2>2, Ends DEF Abort, tables
  <2> QED
    BY <1>2, <2>1, <2>2, WriteKeeps, FetchKeeps, UpdateKeeps, UpdateFailsKeeps, SyncDoneKeeps
<1>3. CASE CheckStep
  BY <1>3, CheckIsUnseen
<1>4. CASE Outside
  <2>1. ASSUME NEW day \in Days, DayPasses(day) PROVE SyncInv'
    <3>1. SyncIsTrue'
      BY <2>1 DEF DayPasses, SyncIsTrue, NoAnswer
    <3> QED
      BY <2>1, <3>1, Unseen DEF DayPasses, tables
  <2> QED
    BY <1>4, <2>1, AtRegistrarKeeps, NoticedKeeps DEF Outside
<1> QED
  BY <1>1, <1>2, <1>3, <1>4 DEF Next, CheckStep

-----------------------------------------------------------------------------
(* The tables, whatever is done. *)

TableInv == DomainInv /\ ImportInv

LEMMA TableStep ==
    ASSUME TableInv, SyncInv, Next
    PROVE  TableInv' /\ KeepsRows
<1>1. CASE UNCHANGED <<domains, importVars>>
  <2>1. DomainInv' /\ KeepsRows
    BY <1>1 DEF TableInv, DomainInv, KeepsRows
  <2> QED
    BY <1>1, <2>1, ImportRests DEF TableInv
<1>2. CASE Import
  BY <1>2, ImportKeeps DEF Import, TableInv
<1>3. ASSUME NEW r \in Requests, UpdateDomainDates(r) PROVE TableInv' /\ KeepsRows
  <2>1. DomainInv' /\ KeepsRows
    BY <1>3, UpdateKeeps DEF TableInv
  <2>2. UNCHANGED importVars
    BY <1>3 DEF UpdateDomainDates
  <2> QED
    BY <2>1, <2>2, ImportRests DEF TableInv
<1>4. ASSUME NEW f \in Fqdns, NEW a \in Accounts \cup {0}, NEW day \in Dates,
             UpdateAsset(f, a, day)
      PROVE  TableInv' /\ KeepsRows
  <2> DEFINE row == [domains[f] EXCEPT !.account = a, !.expiry = day]
  <2>1. domains' = [domains EXCEPT ![f] = row] /\ UNCHANGED importVars
    BY <1>4 DEF UpdateAsset, TableInv, DomainInv
  <2>2. row \in Rows /\ row.by = domains[f].by /\ row.state = domains[f].state
    BY RegistrarsAssumption DEF TableInv, DomainInv, Rows
  <2> HIDE DEF row
  <2>3. DomainInv' /\ KeepsRows
    BY <2>1, <2>2, Edited DEF TableInv
  <2> QED
    BY <2>1, <2>3, ImportRests DEF TableInv
<1>5. \/ Import \/ UNCHANGED <<domains, importVars>>
      \/ \E r \in Requests : UpdateDomainDates(r)
      \/ \E f \in Fqdns, a \in Accounts \cup {0}, day \in Dates : UpdateAsset(f, a, day)
  <2>1. ASSUME NEW r \in Requests,
               Admin(r) \/ Write(r) \/ UpdateFails(r) \/ SyncDone(r) \/ Abort(r)
               \/ \E refused \in BOOLEAN : FetchPage(r, refused)
        PROVE  UNCHANGED <<domains, importVars>>
    <3>1. CASE Admin(r)
      BY <3>1 DEF Admin, CreateRegistrar, UpdateRegistrar, Administer, DeleteRegistrar,
         ServiceDelete, UpdateAccount, ServiceUpdateAccount, CreateAccount,
         ServiceCreateAccount, DeleteAccount, ServiceDeleteAccount, Sync, SyncAccount,
         AdminRequest
    <3>2. CASE ~Admin(r)
      BY <2>1, <3>2 DEF Write, UpdateFails, SyncDone, Abort, FetchPage
    <3> QED
      BY <3>1, <3>2
  <2>2. CheckAllExpiry \/ CheckStep => UNCHANGED <<domains, importVars>>
    BY DEF CheckStep, CheckUpdated, CheckDone, CheckDies, UpdateExpiryStatus, Send,
           CheckAllExpiry
  <2>3. Outside => \/ UNCHANGED <<domains, importVars>>
                   \/ \E f \in Fqdns, a \in Accounts \cup {0}, day \in Dates : UpdateAsset(f, a, day)
    BY DEF Outside, AtRegistrar, DayPasses
  <2> QED
    BY <2>1, <2>2, <2>3 DEF Next, CheckStep
<1> QED
  BY <1>1, <1>2, <1>3, <1>4, <1>5

-----------------------------------------------------------------------------
(* The expiry check.                                                       *)

Statuses == {"ok", "expiring_90d", "expiring_30d", "expiring_7d", "expired"}

Changes == [fqdn : Fqdns, status : Statuses]

Checks ==
    [pc : {"update", "tell"}, day : Nat, alone : BOOLEAN, changed : SUBSET Changes,
     todo : SUBSET Fqdns, read : [Fqdns -> [status : Statuses, expiry : Nat]]]

ExpiryTypes ==
    /\ status \in [Fqdns -> Statuses]
    /\ now \in Nat
    /\ check = NoCheck \/ check \in Checks

(* A status that is not well has been told, or the check that wrote it is  *)
(* still to tell it.                                                       *)
Told(f) ==
    status[f] # "ok" =>
        \/ told[f] \in {status[f], "lost"}
        \/ check # NoCheck /\ [fqdn |-> f, status |-> status[f]] \in check.changed

Due(f) == f \in ListWithFilter /\ domains[f].state = "live" /\ domains[f].expiry # 0

(* What a check has changed is what the rows say, and it writes each row   *)
(* once; with nothing between, what it read is what the rows have.         *)
CheckOf ==
    check # NoCheck =>
        /\ \A c \in check.changed : c.status = status[c.fqdn] /\ c.fqdn \notin check.todo
        /\ check.pc = "tell" => check.todo = {}
        /\ \A f \in check.todo : status[f] = check.read[f].status
        /\ check.alone => \A f \in Fqdns : Due(f) =>
              /\ check.read[f].expiry = domains[f].expiry
              /\ f \in check.todo
                 \/ status[f] = ComputeExpiryStatus(domains[f].expiry, 0, check.day)

AnswerOf == answer.op = "check" => check = NoCheck

ExpiryInv ==
    /\ ExpiryTypes /\ CheckOf /\ AnswerOf /\ ExpiryIsTold
    /\ \A f \in Fqdns : Told(f)

(* The thresholds; "grace" needs an end of grace, which no row has.        *)
LEMMA Thresholds ==
    ASSUME NEW expiry \in Nat, NEW day \in Nat
    PROVE  LET s == ComputeExpiryStatus(expiry, 0, day)
               left == expiry - day
           IN  /\ s \in Statuses
               /\ expiry # 0 => /\ (s = "ok") = (left > 90)
                                /\ (s = "expired") = (left <= 0)
                                /\ (s = "expiring_7d") = (left \in 1..7)
<1>1. ~(day < 0)
  OBVIOUS
<1> QED
  BY <1>1 DEF ComputeExpiryStatus, daysUntil, Statuses

(* A step that the check notices, or that it never sees.                   *)
LEMMA CheckNotices ==
    ASSUME ExpiryInv, UNCHANGED <<status, told>>, now' \in Nat, answer'.op # "check",
           check' = DisturbCheck
    PROVE  ExpiryInv'
<1>1. CASE check = NoCheck
  <2>1. check' = NoCheck
    BY <1>1 DEF DisturbCheck
  <2> QED
    BY <1>1, <2>1 DEF ExpiryInv, ExpiryTypes, CheckOf, AnswerOf, ExpiryIsTold, Told
<1>2. CASE check # NoCheck
  <2>1. check \in Checks /\ check' = [check EXCEPT !.alone = FALSE]
    BY <1>2 DEF ExpiryInv, ExpiryTypes, DisturbCheck
  <2>2. /\ check' \in Checks /\ check'.alone = FALSE /\ check'.changed = check.changed
        /\ check'.todo = check.todo /\ check'.pc = check.pc /\ check'.read = check.read
    BY <2>1 DEF Checks
  <2>3. NoCheck \notin Checks
    BY DEF NoCheck, Checks
  <2>4. CheckOf'
    BY <1>2, <2>2 DEF ExpiryInv, CheckOf
  <2>5. \A f \in Fqdns : Told(f)'
    BY <1>2, <2>2, <2>3 DEF ExpiryInv, Told
  <2> QED
    BY <2>2, <2>4, <2>5 DEF ExpiryInv, ExpiryTypes, AnswerOf, ExpiryIsTold
<1> QED
  BY <1>1, <1>2

LEMMA CheckUnseen ==
    ASSUME ExpiryInv, UNCHANGED <<status, told, check, domains>>, now' \in Nat,
           UNCHANGED answer \/ answer'.op # "check"
    PROVE  ExpiryInv'
<1>1. ExpiryTypes'
  BY DEF ExpiryInv, ExpiryTypes
<1>2. CheckOf' /\ \A f \in Fqdns : Told(f)'
  BY DEF ExpiryInv, CheckOf, Due, ListWithFilter, Told
<1>3. AnswerOf' /\ ExpiryIsTold'
  BY DEF ExpiryInv, AnswerOf, ExpiryIsTold, ListWithFilter
<1> QED
  BY <1>1, <1>2, <1>3 DEF ExpiryInv

LEMMA CheckFields ==
    ASSUME ExpiryTypes, check # NoCheck
    PROVE  /\ check \in Checks /\ check.pc \in {"update", "tell"} /\ check.day \in Nat
           /\ check.alone \in BOOLEAN /\ check.changed \in SUBSET Changes
           /\ check.todo \in SUBSET Fqdns
           /\ \A f \in Fqdns : check.read[f].status \in Statuses /\ check.read[f].expiry \in Nat
BY DEF ExpiryTypes, Checks

LEMMA CheckBegins ==
    ASSUME TableInv, ExpiryInv, CheckAllExpiry
    PROVE  ExpiryInv'
<1> DEFINE read == [f \in Fqdns |-> [status |-> status[f], expiry |-> domains[f].expiry]]
           todo == {f \in ListWithFilter : domains[f].state = "live" /\ domains[f].expiry # 0}
<1>0. Quiet \in BOOLEAN
  BY DEF Quiet
<1> HIDE DEF Quiet
<1>1. /\ check = NoCheck /\ answer' = NoAnswer /\ UNCHANGED <<domains, status, told, now>>
      /\ check' = [pc |-> "update", day |-> now, alone |-> Quiet, changed |-> {},
                   todo |-> todo, read |-> read]
  BY DEF CheckAllExpiry
<1>2. read \in [Fqdns -> [status : Statuses, expiry : Nat]]
  BY DomainFields DEF TableInv, ExpiryInv, ExpiryTypes
<1>3. todo \in SUBSET Fqdns /\ now \in Nat /\ \A f \in Fqdns : f \in todo <=> Due(f)
  BY DEF ExpiryInv, ExpiryTypes, ListWithFilter, Due
<1>4. \A f \in Fqdns : read[f].status = status[f] /\ read[f].expiry = domains[f].expiry
  OBVIOUS
<1> HIDE DEF read, todo
<1>5. check' \in Checks
  BY <1>0, <1>1, <1>2, <1>3 DEF Checks
<1>6. /\ check'.changed = {} /\ check'.todo = todo /\ check'.read = read
      /\ check'.pc = "update"
  BY <1>1
<1>7. ExpiryTypes'
  BY <1>1, <1>5 DEF ExpiryInv, ExpiryTypes
<1>8. \A f \in Fqdns : Due(f)' <=> f \in todo
  BY <1>1, <1>3 DEF Due, ListWithFilter
<1>9. CheckOf'
  BY <1>1, <1>3, <1>4, <1>6, <1>8 DEF CheckOf
<1>10. \A f \in Fqdns : Told(f)'
  BY <1>1 DEF ExpiryInv, Told
<1>11. AnswerOf' /\ ExpiryIsTold'
  BY <1>1 DEF AnswerOf, ExpiryIsTold, NoAnswer
<1> QED
  BY <1>7, <1>9, <1>10, <1>11 DEF ExpiryInv

(* One row is written, or passed over, or cannot be written.               *)
LEMMA RowChecked ==
    ASSUME ExpiryInv, NEW failing \in BOOLEAN, UpdateExpiryStatus(failing)
    PROVE  ExpiryInv'
<1> DEFINE f0 == CHOOSE x \in check.todo : \A y \in check.todo : x <= y
           new0 == ComputeExpiryStatus(check.read[f0].expiry, 0, check.day)
           write0 == new0 # check.read[f0].status /\ ~failing
           todo0 == check.todo \ {f0}
           alone0 == check.alone /\ ~failing
           changed0 == IF write0 THEN check.changed \cup {[fqdn |-> f0, status |-> new0]}
                       ELSE check.changed
<1>1. /\ check.pc = "update" /\ check.todo # {}
      /\ failing => new0 # check.read[f0].status
      /\ status' = IF write0 THEN [status EXCEPT ![f0] = new0] ELSE status
      /\ check' = [check EXCEPT !.todo = todo0, !.alone = alone0, !.changed = changed0]
      /\ UNCHANGED <<domains, told, answer, now>>
  BY DEF UpdateExpiryStatus
<1>2. PICK f, old, new : f = f0 /\ old = check /\ new = new0
  OBVIOUS
<1>3. PICK write, changed, todo, alone :
         /\ write = write0 /\ write = (new # old.read[f].status /\ ~failing)
         /\ changed = changed0
         /\ changed = IF write THEN old.changed \cup {[fqdn |-> f, status |-> new]}
                      ELSE old.changed
         /\ todo = todo0 /\ todo = old.todo \ {f}
         /\ alone = alone0 /\ alone = (old.alone /\ ~failing)
  BY <1>2
<1>4. /\ f = (CHOOSE x \in check.todo : \A y \in check.todo : x <= y) /\ old = check
      /\ new = ComputeExpiryStatus(old.read[f].expiry, 0, old.day)
  BY <1>2
<1> HIDE DEF f0, new0, write0, todo0, alone0, changed0
<1>5. /\ old.pc = "update" /\ old.todo # {}
      /\ failing => new # old.read[f].status
      /\ status' = IF write THEN [status EXCEPT ![f] = new] ELSE status
      /\ check' = [old EXCEPT !.todo = todo, !.alone = alone, !.changed = changed]
      /\ UNCHANGED <<domains, told, answer, now>>
  BY <1>1, <1>2, <1>3
<1>6. old # NoCheck
  BY <1>5 DEF NoCheck
<1>7. /\ old \in Checks /\ old.day \in Nat /\ old.alone \in BOOLEAN
      /\ old.changed \in SUBSET Changes /\ old.todo \in SUBSET Fqdns
      /\ \A g \in Fqdns : old.read[g].status \in Statuses /\ old.read[g].expiry \in Nat
  BY <1>4, <1>6, CheckFields DEF ExpiryInv
<1>8. f \in old.todo /\ f \in Fqdns
  <2>1. old.todo \in SUBSET Nat
    BY <1>7, ImportAssumption
  <2>2. \E x \in old.todo : \A y \in old.todo : x <= y
    BY <1>5, <2>1, LeastOf
  <2> QED
    BY <1>4, <1>7, <2>2
<1>9. new \in Statuses
  BY <1>4, <1>7, <1>8, Thresholds
<1>10. changed \in SUBSET Changes /\ todo \in SUBSET Fqdns /\ alone \in BOOLEAN
  BY <1>3, <1>7, <1>8, <1>9 DEF Changes
<1>11. /\ check' \in Checks /\ check'.changed = changed /\ check'.todo = todo
       /\ check'.alone = alone /\ check'.read = old.read /\ check'.day = old.day
       /\ check'.pc = "update"
  BY <1>5, <1>7, <1>10 DEF Checks
<1>12. /\ \A c \in old.changed : c.status = status[c.fqdn] /\ c.fqdn \notin old.todo
       /\ \A g \in old.todo : status[g] = old.read[g].status
       /\ old.alone => \A g \in Fqdns : Due(g) =>
             /\ old.read[g].expiry = domains[g].expiry
             /\ g \in old.todo
                \/ status[g] = ComputeExpiryStatus(domains[g].expiry, 0, old.day)
  BY <1>4, <1>6 DEF ExpiryInv, CheckOf
<1>13. ExpiryTypes'
  BY <1>5, <1>9, <1>11 DEF ExpiryInv, ExpiryTypes
<1>14. /\ status'[f] = (IF write THEN new ELSE status[f])
       /\ \A g \in Fqdns \ {f} : status'[g] = status[g]
  BY <1>5, <1>8 DEF ExpiryInv, ExpiryTypes
<1>15. CheckOf'
  <2>1. ASSUME NEW c \in changed PROVE c.status = status'[c.fqdn] /\ c.fqdn \notin todo
    <3>1. CASE c \in old.changed
      <4>1. c.fqdn # f /\ c.fqdn \in Fqdns
        BY <1>7, <1>8, <1>12, <3>1 DEF Changes
      <4> QED
        BY <1>3, <1>12, <1>14, <3>1, <4>1
    <3>2. CASE c \notin old.changed
      <4>1. write /\ c = [fqdn |-> f, status |-> new]
        BY <1>3, <2>1, <3>2
      <4>2. c.fqdn = f /\ c.status = new
        BY <4>1
      <4> QED
        BY <1>3, <1>14, <4>1, <4>2
    <3> QED
      BY <3>1, <3>2
  <2>2. ASSUME NEW g \in todo PROVE status'[g] = old.read[g].status
    BY <1>3, <1>7, <1>12, <1>14, <2>2
  <2>3. ASSUME alone, NEW g \in Fqdns, Due(g)
        PROVE  /\ old.read[g].expiry = domains[g].expiry
               /\ g \in todo \/ status'[g] = ComputeExpiryStatus(domains[g].expiry, 0, old.day)
    <3>1. old.alone /\ ~failing
      BY <1>3, <2>3
    <3>2. /\ old.read[g].expiry = domains[g].expiry
          /\ g \in old.todo
             \/ status[g] = ComputeExpiryStatus(domains[g].expiry, 0, old.day)
      BY <1>12, <2>3, <3>1
    <3>3. CASE g = f
      <4>1. status'[f] = new
        BY <1>3, <1>8, <1>12, <1>14, <3>1
      <4> QED
        BY <1>4, <3>2, <3>3, <4>1
    <3>4. CASE g # f
      BY <1>3, <1>14, <3>2, <3>4
    <3> QED
      BY <3>3, <3>4
  <2>4. \A g \in Fqdns : Due(g)' <=> Due(g)
    BY <1>5 DEF Due, ListWithFilter
  <2> QED
    BY <1>5, <1>11, <2>1, <2>2, <2>3, <2>4 DEF CheckOf
<1>16. check' # NoCheck
  BY <1>11 DEF NoCheck
<1>17. ASSUME NEW g \in Fqdns PROVE Told(g)'
  <2>1. CASE g = f /\ write
    <3>1. [fqdn |-> g, status |-> status'[g]] \in check'.changed
      BY <1>3, <1>11, <1>14, <2>1
    <3> QED
      BY <1>16, <3>1 DEF Told
  <2>2. CASE ~(g = f /\ write)
    <3>1. status'[g] = status[g] /\ told'[g] = told[g] /\ old.changed \subseteq check'.changed
      BY <1>3, <1>5, <1>11, <1>14, <2>2
    <3>2. Told(g)
      BY DEF ExpiryInv
    <3> QED
      BY <1>4, <1>16, <3>1, <3>2 DEF Told
  <2> QED
    BY <2>1, <2>2
<1>18. answer.op # "check"
  BY <1>4, <1>6 DEF ExpiryInv, AnswerOf
<1>19. AnswerOf' /\ ExpiryIsTold'
  BY <1>5, <1>18 DEF AnswerOf, ExpiryIsTold
<1> QED
  BY <1>13, <1>15, <1>17, <1>19 DEF ExpiryInv

LEMMA UpdatedKeeps ==
    ASSUME ExpiryInv, CheckUpdated
    PROVE  ExpiryInv'
<1>1. /\ check.pc = "update" /\ check.todo = {} /\ check' = [check EXCEPT !.pc = "tell"]
      /\ UNCHANGED <<domains, status, told, answer, now>>
  BY DEF CheckUpdated
<1>2. check # NoCheck
  BY <1>1 DEF NoCheck
<1>3. check \in Checks
  BY <1>2, CheckFields DEF ExpiryInv
<1>4. /\ check' \in Checks /\ check'.pc = "tell" /\ check'.changed = check.changed
      /\ check'.todo = check.todo /\ check'.read = check.read /\ check'.day = check.day
      /\ check'.alone = check.alone
  BY <1>1, <1>3 DEF Checks
<1>5. check' # NoCheck
  BY <1>4 DEF NoCheck
<1>6. ExpiryTypes'
  BY <1>1, <1>4 DEF ExpiryInv, ExpiryTypes
<1>7. CheckOf'
  BY <1>1, <1>2, <1>4 DEF ExpiryInv, CheckOf, Due, ListWithFilter
<1>8. \A f \in Fqdns : Told(f)'
  BY <1>1, <1>2, <1>4, <1>5 DEF ExpiryInv, Told
<1>9. answer.op # "check"
  BY <1>2 DEF ExpiryInv, AnswerOf
<1>10. AnswerOf' /\ ExpiryIsTold'
  BY <1>1, <1>9 DEF AnswerOf, ExpiryIsTold
<1> QED
  BY <1>6, <1>7, <1>8, <1>10 DEF ExpiryInv

(* A notice takes its whole group, and says the status that the rows have. *)
LEMMA SendKeeps ==
    ASSUME ExpiryInv, NEW lost \in BOOLEAN,
           NEW key \in {"expiring_90d", "expiring_30d", "expiring_7d", "expired"},
           Send(key, lost)
    PROVE  ExpiryInv'
<1>1. PICK old, group, names : /\ old = check /\ group = groupByStatus(check.changed, key)
                               /\ names = {c.fqdn : c \in group}
  OBVIOUS
<1>2. PICK left : left = old.changed \ group
  OBVIOUS
<1>3. /\ old.pc = "tell" /\ check' = [old EXCEPT !.changed = left]
      /\ told' = [f \in Fqdns |-> IF f \notin names THEN told[f]
                                  ELSE IF lost THEN "lost" ELSE key]
      /\ UNCHANGED <<domains, status, answer, now>>
  BY <1>1, <1>2 DEF Send
<1>4. check # NoCheck
  BY <1>1, <1>3 DEF NoCheck
<1>5. old \in Checks /\ old.changed \in SUBSET Changes
  BY <1>1, <1>4, CheckFields DEF ExpiryInv
<1>6. left \in SUBSET Changes
  BY <1>2, <1>5
<1>7. /\ check' \in Checks /\ check'.pc = "tell" /\ check'.changed = left
      /\ check'.todo = old.todo /\ check'.read = old.read /\ check'.day = old.day
      /\ check'.alone = old.alone
  BY <1>3, <1>5, <1>6 DEF Checks
<1>8. check' # NoCheck
  BY <1>7 DEF NoCheck
<1>9. ExpiryTypes'
  BY <1>3, <1>7 DEF ExpiryInv, ExpiryTypes
<1>10. CheckOf'
  BY <1>1, <1>2, <1>3, <1>4, <1>7 DEF ExpiryInv, CheckOf, Due, ListWithFilter
<1>11. ASSUME NEW f \in Fqdns, status[f] # "ok", f \in names
       PROVE  status[f] = key
  <2>1. PICK c \in group : c.fqdn = f
    BY <1>1, <1>11
  <2>2. c \in old.changed /\ (c.status = "ok" \/ c.status = key)
    BY <1>1 DEF groupByStatus
  <2>3. c.status = status[f]
    BY <1>1, <1>4, <2>1, <2>2 DEF ExpiryInv, CheckOf
  <2> QED
    BY <1>11, <2>2, <2>3
<1>12. ASSUME NEW f \in Fqdns PROVE Told(f)'
  <2>1. CASE status[f] # "ok" /\ f \in names
    BY <1>3, <1>11, <2>1 DEF Told
  <2>2. CASE status[f] # "ok" /\ f \notin names
    <3>1. told'[f] = told[f] /\ status'[f] = status[f]
      BY <1>3, <2>2
    <3>2. [fqdn |-> f, status |-> status[f]] \notin group
      BY <1>1, <2>2
    <3>3. Told(f)
      BY DEF ExpiryInv
    <3> QED
      BY <1>1, <1>2, <1>7, <1>8, <3>1, <3>2, <3>3 DEF Told
  <2>3. CASE status[f] = "ok"
    BY <1>3, <2>3 DEF Told
  <2> QED
    BY <2>1, <2>2, <2>3
<1>13. answer.op # "check"
  BY <1>4 DEF ExpiryInv, AnswerOf
<1>14. AnswerOf' /\ ExpiryIsTold'
  BY <1>3, <1>13 DEF AnswerOf, ExpiryIsTold
<1> QED
  BY <1>9, <1>10, <1>12, <1>14 DEF ExpiryInv

(* What a check answers, when all rows and notices are done. *)
LEMMA DoneKeeps ==
    ASSUME TableInv, ExpiryInv, CheckDone
    PROVE  ExpiryInv'
<1>1. /\ check.pc = "tell" /\ check.changed = {} /\ check' = NoCheck
      /\ UNCHANGED <<domains, status, told, now>>
      /\ answer' = IF check.alone THEN [op |-> "check", day |-> check.day] ELSE NoAnswer
  BY DEF CheckDone
<1>2. check # NoCheck
  BY <1>1 DEF NoCheck
<1>3. check.day \in Nat /\ check.alone \in BOOLEAN
  BY <1>2, CheckFields DEF ExpiryInv
<1>4. \A f \in Fqdns : status[f] # "ok" => told[f] \in {status[f], "lost"}
  BY <1>1 DEF ExpiryInv, Told
<1>5. ExpiryTypes' /\ CheckOf' /\ AnswerOf'
  BY <1>1 DEF ExpiryInv, ExpiryTypes, CheckOf, AnswerOf
<1>6. \A f \in Fqdns : Told(f)'
  BY <1>1, <1>4 DEF Told
<1>7. ExpiryIsTold'
  <2>1. CASE ~check.alone
    BY <1>1, <2>1 DEF ExpiryIsTold, NoAnswer
  <2>2. CASE check.alone
    <3>1. answer'.op = "check" /\ answer'.day = check.day
      BY <1>1, <2>2
    <3>2. ASSUME NEW f \in Fqdns, Due(f)
          PROVE  /\ status[f] = ComputeExpiryStatus(domains[f].expiry, 0, check.day)
                 /\ domains[f].expiry \in Nat /\ domains[f].expiry # 0
      BY <1>1, <1>2, <2>2, <3>2, DomainFields DEF TableInv, ExpiryInv, CheckOf, Due
    <3>3. ASSUME NEW f \in Fqdns, Due(f)
          PROVE  LET left == domains[f].expiry - check.day IN
                 /\ (status[f] = "ok") = (left > 90)
                 /\ (status[f] = "expired") = (left <= 0)
                 /\ (status[f] = "expiring_7d") = (left \in 1..7)
                 /\ status[f] # "ok" => told[f] \in {status[f], "lost"}
      BY <1>3, <1>4, <3>2, <3>3, Thresholds
    <3>4. ListWithFilter' = ListWithFilter /\ ListWithFilter \subseteq Fqdns
      BY <1>1 DEF ListWithFilter
    <3> QED
      BY <1>1, <3>1, <3>3, <3>4 DEF ExpiryIsTold, Due
  <2> QED
    BY <2>1, <2>2
<1> QED
  BY <1>5, <1>6, <1>7 DEF ExpiryInv

LEMMA DiesKeeps ==
    ASSUME ExpiryInv, CheckDies
    PROVE  ExpiryInv'
<1>1. /\ check' = NoCheck /\ answer' = NoAnswer /\ UNCHANGED <<status, now>>
      /\ told' = [f \in Fqdns |-> IF \E c \in check.changed : c.fqdn = f
                                  THEN "lost" ELSE told[f]]
  BY DEF CheckDies
<1>2. ASSUME NEW f \in Fqdns PROVE Told(f)'
  <2>1. Told(f)
    BY DEF ExpiryInv
  <2>2. [fqdn |-> f, status |-> status[f]].fqdn = f
    OBVIOUS
  <2> QED
    BY <1>1, <2>1, <2>2 DEF Told
<1>3. ExpiryTypes' /\ CheckOf' /\ AnswerOf' /\ ExpiryIsTold'
  BY <1>1 DEF ExpiryInv, ExpiryTypes, CheckOf, AnswerOf, ExpiryIsTold, NoAnswer
<1> QED
  BY <1>2, <1>3 DEF ExpiryInv

LEMMA ExpiryStep ==
    ASSUME TableInv, ExpiryInv, Next
    PROVE  ExpiryInv'
<1>1. CASE Import
  BY <1>1, CheckNotices DEF Import, Disturb, NoAnswer, ExpiryInv, ExpiryTypes
<1>2. ASSUME NEW r \in Requests,
             \/ Admin(r) \/ Write(r)
             \/ \E refused \in BOOLEAN : FetchPage(r, refused)
             \/ UpdateDomainDates(r) \/ UpdateFails(r) \/ SyncDone(r) \/ Abort(r)
      PROVE  ExpiryInv'
  <2>0. now \in Nat
    BY DEF ExpiryInv, ExpiryTypes
  <2>1. CASE Admin(r)
    <3>1. check' = DisturbCheck /\ answer' = NoAnswer /\ UNCHANGED <<status, told, now>>
      BY <2>1 DEF Admin, CreateRegistrar, UpdateRegistrar, Administer, Disturb,
         DeleteRegistrar, ServiceDelete, UpdateAccount, ServiceUpdateAccount, CreateAccount,
         ServiceCreateAccount, DeleteAccount, ServiceDeleteAccount, Sync, SyncAccount,
         AdminRequest, Begin
    <3> QED
      BY <2>0, <3>1, CheckNotices DEF NoAnswer
  <2>2. CASE Write(r) \/ UpdateDomainDates(r)
    <3>1. check' = DisturbCheck /\ answer' = NoAnswer /\ UNCHANGED <<status, told, now>>
      BY <2>2 DEF Write, UpdateDomainDates
    <3> QED
      BY <2>0, <3>1, CheckNotices DEF NoAnswer
  <2>3. CASE UpdateFails(r) \/ Abort(r) \/ \E refused \in BOOLEAN : FetchPage(r, refused)
    <3>1. /\ UNCHANGED <<status, told, now, domains>>
          /\ \E q : Continue(r, q) \/ Fail(r)
      BY <2>3 DEF UpdateFails, Abort, FetchPage
    <3>2. UNCHANGED check /\ (UNCHANGED answer \/ answer' = NoAnswer)
      BY <3>1 DEF Continue, Fail
    <3> QED
      BY <2>0, <3>1, <3>2, CheckUnseen DEF NoAnswer
  <2>4. CASE SyncDone(r)
    <3>1. UNCHANGED <<status, told, now, domains, check>>
      BY <2>4 DEF SyncDone, expiryVars
    <3>2. answer'.op # "check"
      BY <2>4 DEF SyncDone, NoAnswer
    <3> QED
      BY <2>0, <3>1, <3>2, CheckUnseen
  <2> QED
    BY <1>2, <2>1, <2>2, <2>3, <2>4
<1>3. CASE CheckAllExpiry
  BY <1>3, CheckBegins
<1>4. CASE CheckStep
  BY <1>4, RowChecked, UpdatedKeeps, SendKeeps, DoneKeeps, DiesKeeps DEF CheckStep
<1>5. CASE Outside
  <2>0. now \in Nat
    BY DEF ExpiryInv, ExpiryTypes
  <2>1. ASSUME NEW l \in Logins, NEW f \in Fqdns, NEW day, AtRegistrar(l, f, day)
        PROVE  ExpiryInv'
    BY <2>0, <2>1, CheckNotices DEF AtRegistrar, NoAnswer
  <2>2. ASSUME NEW f \in Fqdns, NEW a, NEW day, UpdateAsset(f, a, day)
        PROVE  ExpiryInv'
    BY <2>0, <2>2, CheckNotices DEF UpdateAsset, Disturb, NoAnswer
  <2>3. ASSUME NEW day \in Days, DayPasses(day) PROVE ExpiryInv'
    <3>1. day \in Nat
      BY RegistrarsAssumption
    <3> QED
      BY <2>3, <3>1, CheckUnseen DEF DayPasses, expiryVars, NoAnswer
  <2> QED
    BY <1>5, <2>1, <2>2, <2>3 DEF Outside
<1> QED
  BY <1>1, <1>2, <1>3, <1>4, <1>5 DEF Next, CheckStep

-----------------------------------------------------------------------------
(* All of it.                                                              *)

Inv == TableInv /\ SyncInv /\ ExpiryInv

LEMMA TablesAtFirst ==
    ASSUME ImportInit
    PROVE  TableInv
<1>1. domains \in InitDomains /\ domains \in [Fqdns -> Rows]
      /\ \A f \in Fqdns : domains[f].by = 0
  BY FilesAssumption DEF ImportInit
<1>2. DomainInv
  BY <1>1 DEF DomainInv
<1>3. ImportTypes
  BY NothingYet DEF ImportInit, ImportTypes
<1>4. \A j \in Jobs : work[j] = Idle /\ jobs[j].status = "none" /\ tasks[j].state = "none"
  BY DEF ImportInit, NoJob, NoTask
<1>5. \A j \in Jobs : WorkOf(j) /\ JobOf(j)
  BY <1>4 DEF WorkOf, JobOf
<1> QED
  BY <1>2, <1>3, <1>5 DEF TableInv, ImportInv

LEMMA AtFirst ==
    Init => Inv
<1> SUFFICES ASSUME Init PROVE Inv
  OBVIOUS
<1>1. TableInv
  BY TablesAtFirst DEF Init
<1>2. SyncInv
  <2>1. \A a \in Accounts : accounts[a] \in AccountRows
    BY RegistrarsAssumption DEF Init, AccountRows
  <2>2. accounts \in [Accounts -> AccountRows]
    BY <2>1 DEF Init
  <2>3. held \in [Logins -> [Fqdns -> Dates \cup {NotHeld}]]
    <3>1. PICK start \in InitHeld :
             held = [l \in Logins |-> IF l = 1 THEN start ELSE [f \in Fqdns |-> NotHeld]]
      BY DEF Init
    <3>2. start \in [Fqdns -> Dates \cup {NotHeld}]
      BY RegistrarsAssumption
    <3>3. [f \in Fqdns |-> NotHeld] \in [Fqdns -> Dates \cup {NotHeld}]
      OBVIOUS
    <3> QED
      BY <3>1, <3>2, <3>3
  <2>4. requests = [r \in Requests |-> NoRequest] /\ answer = NoAnswer
    BY DEF Init
  <2>5. RequestTypes
    BY <2>2, <2>3, <2>4 DEF RequestTypes
  <2>6. SyncIsTrue
    BY <2>4 DEF SyncIsTrue, NoAnswer
  <2>7. \A r \in Requests : RequestOf(requests[r])
    BY <2>4, NoRequestIsOne
  <2> QED
    BY <2>5, <2>6, <2>7 DEF SyncInv
<1>3. ExpiryInv
  BY DEF Init, ExpiryInv, ExpiryTypes, Statuses, CheckOf, AnswerOf, ExpiryIsTold, Told,
         NoAnswer
<1> QED
  BY <1>1, <1>2, <1>3 DEF Inv

LEMMA InvKept ==
    Inv /\ [Next]_vars => Inv'
<1> SUFFICES ASSUME Inv, [Next]_vars PROVE Inv'
  OBVIOUS
<1>1. CASE Next
  BY <1>1, TableStep, SyncStep, ExpiryStep DEF Inv, TableInv
<1>2. CASE UNCHANGED vars
  <2>1. UNCHANGED <<domains, importVars, accounts, held, requests, check, status, told,
                    answer, now>>
    BY <1>2 DEF vars, tables, expiryVars
  <2>2. KeepsRows /\ DomainInv'
    BY <2>1 DEF Inv, TableInv, DomainInv, KeepsRows
  <2>3. TableInv'
    BY <2>1, <2>2, ImportRests DEF Inv, TableInv
  <2>4. SyncInv'
    BY <2>1, TrueStays, Unseen DEF Inv, SyncInv
  <2>5. ExpiryInv'
    <3>1. now \in Nat
      BY DEF Inv, ExpiryInv, ExpiryTypes
    <3> QED
      BY <2>1, <3>1, CheckUnseen DEF Inv
  <2> QED
    BY <2>3, <2>4, <2>5 DEF Inv
<1> QED
  BY <1>1, <1>2

(* Everything above holds in every state that can be reached. *)
THEOREM RegistrarsInvariant ==
    Spec => []Inv
BY AtFirst, InvKept, PTL DEF Spec

(* A job that says it is completed has accounted for every line of its     *)
(* file, also when the worker died and the file was taken up again, or     *)
(* others registered the same names (ProcessImportPayload).                *)
THEOREM ImportAccounts ==
    Spec => []EveryLineAccounted
<1>1. Inv => EveryLineAccounted
  BY DEF Inv, TableInv, ImportInv, JobOf, Settled, EveryLineAccounted
<1> QED
  BY <1>1, RegistrarsInvariant, PTL

(* A listing that has ended has every name the login held all the time,    *)
(* for any page size, with the markers of GoDaddy and with page numbers,   *)
(* as far as these can (ListDomains).                                      *)
THEOREM ListingMissesNothing ==
    Spec => []NothingMissed
<1>1. Inv => NothingMissed
  BY DEF Inv, SyncInv, RequestOf, ListOf, NothingMissed
<1> QED
  BY <1>1, RegistrarsInvariant, PTL

(* A sync that met nothing else has given every row of its account the     *)
(* date of the registrar, and named every domain that has no such row      *)
(* (SyncAccount, UpdateDomainDates).                                       *)
THEOREM SyncLeavesTheDates ==
    Spec => []SyncIsTrue
<1>1. Inv => SyncIsTrue
  BY DEF Inv, SyncInv
<1> QED
  BY <1>1, RegistrarsInvariant, PTL

(* After an expiry check that met nothing else each row it read has the    *)
(* status of its date, and that status was told, or the notice was lost    *)
(* (CheckAllExpiry, ProcessTask).                                          *)
THEOREM ExpiryHasBeenTold ==
    Spec => []ExpiryIsTold
<1>1. Inv => ExpiryIsTold
  BY DEF Inv, ExpiryInv
<1> QED
  BY <1>1, RegistrarsInvariant, PTL

=============================================================================
