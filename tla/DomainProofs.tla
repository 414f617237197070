---------------------------- MODULE DomainProofs ----------------------------
(***************************************************************************)
(* Theorems about DomainRow, for any number of providers, requests and     *)
(* checks: its types, that the history of a domain is a path through the   *)
(* lifecycle graph, and that the columns of a transfer agree.              *)
(***************************************************************************)
EXTENDS DomainRow, TLAPS

(* What the two properties rest on: a request that waits for its second     *)
(* step has seen the truth.  A move was along an edge, what is to be        *)
(* completed was pending, and a history row is written for a domain that    *)
(* exists.                                                                  *)
RequestsSawTruth ==
    \A r \in Requests :
        /\ requests[r].op = "register" => Exists
        /\ requests[r].op = "move" =>
              CanLifecycleTransition(requests[r].from, requests[r].to)
        /\ requests[r].op = "complete" =>
              /\ requests[r].saw.status = "pending"
              /\ requests[r].saw.requested

NoRowNoHistory == ~Exists => history = <<>>

LifeInv == RequestsSawTruth /\ NoRowNoHistory /\ HistoryIsPath

DomainInv == TypeOK /\ LifeInv /\ TransferAgrees

-----------------------------------------------------------------------------
(* A row appended to a history: what the earlier rows lead to is unchanged, *)
(* and a transition out of the state reached leads to its target.           *)
LEMMA AppendRow ==
    ASSUME NEW h \in Seq(HistoryRows), NEW e \in HistoryRows
    PROVE  /\ Append(h, e) \in Seq(HistoryRows)
           /\ Len(Append(h, e)) = Len(h) + 1
           /\ \A i \in 1 .. Len(h) : Append(h, e)[i] = h[i]
           /\ Append(h, e)[Len(h) + 1] = e
           /\ Moves(Append(h, e)) = IF e.from = "null" THEN Moves(h)
                                    ELSE Moves(h) \cup {Len(h) + 1}
<1> DEFINE g == Append(h, e)
<1>1. /\ g \in Seq(HistoryRows)
      /\ Len(h) \in Nat
      /\ Len(g) = Len(h) + 1
      /\ \A i \in 1 .. Len(h) : g[i] = h[i]
      /\ g[Len(h) + 1] = e
    OBVIOUS
<1> HIDE DEF g
<1>2. 1 .. Len(g) = (1 .. Len(h)) \cup {Len(h) + 1}
    BY <1>1
<1>3. Moves(g) = IF e.from = "null" THEN Moves(h)
                 ELSE Moves(h) \cup {Len(h) + 1}
    BY <1>1, <1>2 DEF Moves
<1> QED BY <1>1, <1>3 DEF g

(* What the earlier rows lead to does not depend on the appended one.       *)
LEMMA AppendLeads ==
    ASSUME NEW h \in Seq(HistoryRows), NEW e \in HistoryRows, NEW s,
           NEW n \in 1 .. Len(h) + 1, LeadTo(h, n, s)
    PROVE  LeadTo(Append(h, e), n, s)
<1> DEFINE g == Append(h, e)
<1>1. /\ Len(h) \in Nat
      /\ \A i \in Moves(h) : i \in 1 .. Len(h) /\ g[i] = h[i]
      /\ Moves(g) = Moves(h) \/ Moves(g) = Moves(h) \cup {Len(h) + 1}
    BY AppendRow DEF Moves
<1>2. \A i \in Moves(g) : i < n => i \in Moves(h)
    BY <1>1
<1>3. Moves(h) \subseteq Moves(g)
    BY <1>1
<1> HIDE DEF g
<1> QED BY <1>1, <1>2, <1>3 DEF LeadTo, g

-----------------------------------------------------------------------------
(* All steps that touch neither the lifecycle, its history nor the          *)
(* transfer, and add no request that has read one of them.                  *)
DnsStep ==
    \/ \E p \in Providers \cup {0} :
           UpdateAsset(p) \/ BulkUpdateFields(p) \/ Delegate(p)
    \/ \E k \in Checks : CheckAll(k) \/ TriggerVerify(k)
                            \/ CheckStep(k) \/ CheckFails(k)
    \/ Clock

(* A check, a change of the provider or the clock keeps the types.          *)
LEMMA DnsStepTypes ==
    ASSUME TypeOK, DnsStep
    PROVE  /\ TypeOK'
           /\ UNCHANGED <<life, history, transfer, requests>>
<1>1. ASSUME NEW p \in Providers \cup {0},
             UpdateAsset(p) \/ BulkUpdateFields(p) \/ Delegate(p)
      PROVE  TypeOK' /\ UNCHANGED <<life, history, transfer, requests>>
    BY <1>1 DEF UpdateAsset, BulkUpdateFields, Delegate, TypeOK, Ids, keys
<1>2. ASSUME NEW k \in Checks, CheckAll(k) \/ TriggerVerify(k)
      PROVE  TypeOK' /\ UNCHANGED <<life, history, transfer, requests>>
    BY <1>2 DEF CheckAll, TriggerVerify, Enqueue, Fault, TypeOK, Ids, keys, dns,
                CheckRows
<1>3. ASSUME NEW k \in Checks, CheckStep(k) \/ CheckFails(k)
      PROVE  TypeOK' /\ UNCHANGED <<life, history, transfer, requests>>
    <2>1. ASSUME Lookup(k)
          PROVE  TypeOK' /\ UNCHANGED <<life, history, transfer, requests>>
        BY <2>1 DEF Lookup, GoOn, Fault, TypeOK, Ids, keys, dns, CheckRows
    <2>2. ASSUME UpdateNSDelegation(k)
          PROVE  TypeOK' /\ UNCHANGED <<life, history, transfer, requests>>
        BY <2>2 DEF UpdateNSDelegation, Goto, GoOn, Finish, NoCheck, TypeOK, Ids, keys,
                    CheckRows
    <2>3. ASSUME Verified(k)
          PROVE  TypeOK' /\ UNCHANGED <<life, history, transfer, requests>>
        BY <2>3 DEF Verified, clearMismatchAlerted, Finish, NoCheck, TypeOK, Ids,
                    dns, CheckRows
    <2>4. ASSUME MismatchAge(k)
          PROVE  TypeOK' /\ UNCHANGED <<life, history, transfer, requests>>
        <3>1. checks' \in [Checks -> CheckRows] /\ faults' \in Nat
            BY <2>4 DEF MismatchAge, Fault, Goto, GoOn, Finish, NoCheck, TypeOK,
                        Ids, CheckRows
        <3>2. /\ start' \in {"none", "young", "old"}
              /\ alerted' \in BOOLEAN
              /\ UNCHANGED <<life, history, transfer, dns, requests, aged, traffic>>
            BY <2>4 DEF MismatchAge, TypeOK
        <3> QED BY <3>1, <3>2 DEF TypeOK, dns
    <2>5. ASSUME SendAlert(k)
          PROVE  TypeOK' /\ UNCHANGED <<life, history, transfer, requests>>
        <3>1. checks' \in [Checks -> CheckRows] /\ faults' \in Nat
            BY <2>5 DEF SendAlert, Fault, Finish, NoCheck, TypeOK, Ids, CheckRows
        <3>2. /\ start' \in {"none", "young", "old"}
              /\ alerted' \in BOOLEAN
              /\ UNCHANGED <<life, history, transfer, dns, requests, aged, traffic>>
            BY <2>5 DEF SendAlert, clearMismatchAlerted, TypeOK
        <3> QED BY <3>1, <3>2 DEF TypeOK, dns
    <2>6. ASSUME CheckFails(k)
          PROVE  TypeOK' /\ UNCHANGED <<life, history, transfer, requests>>
        BY <2>6 DEF CheckFails, Fault, Goto, GoOn, Finish, NoCheck, TypeOK, Ids, dns,
                    keys, CheckRows
    <2> QED BY <1>3, <2>1, <2>2, <2>3, <2>4, <2>5, <2>6 DEF CheckStep
<1>4. ASSUME Clock
      PROVE  TypeOK' /\ UNCHANGED <<life, history, transfer, requests>>
    BY <1>4 DEF Clock, RowAges, KeyAges, AlertKeyExpires, TypeOK, dns
<1> QED BY <1>1, <1>2, <1>3, <1>4 DEF DnsStep

-----------------------------------------------------------------------------
(* A request that is served or answered keeps the others as they are.       *)
LEMMA OneRequest ==
    ASSUME TypeOK, NEW r \in Requests, NEW q \in RequestRows,
           requests' = [requests EXCEPT ![r] = q]
    PROVE  /\ requests' \in [Requests -> RequestRows]
           /\ requests'[r] = q
           /\ \A o \in Requests : o # r => requests'[o] = requests[o]
BY DEF TypeOK

(* The requests waiting for their second step, by kind.                     *)
LEMMA RequestKinds ==
    ASSUME NEW q \in RequestRows
    PROVE  /\ q.op = "move" =>
                 q.from \in AllLifecycleStates /\ q.to \in AllLifecycleStates
           /\ q.op = "initiate" => q.gaining \in Names
           /\ q.op \in {"complete", "cancel"} => q.saw \in TransferRows
BY DEF RequestRows

(* What a request may have read is of the type of a request.               *)
LEMMA NewRequests ==
    /\ Idle \in RequestRows
    /\ \A op \in {"register", "bind", "unbind"} : [op |-> op] \in RequestRows
    /\ \A f, t \in AllLifecycleStates :
          [op |-> "move", from |-> f, to |-> t] \in RequestRows
    /\ \A g \in Names : [op |-> "initiate", gaining |-> g] \in RequestRows
    /\ \A op \in {"complete", "cancel"}, w \in TransferRows :
          [op |-> op, saw |-> w] \in RequestRows
BY DEF RequestRows, Idle

(* Every step of a request keeps the types.                                 *)
LEMMA RequestTypes ==
    ASSUME TypeOK, NEW r \in Requests, Request(r) \/ Respond(r)
    PROVE  TypeOK'
<1> USE NewRequests
<1>1. ASSUME NEW p \in Providers \cup {0}, Register(r, p)
      PROVE  TypeOK'
    <2>1. requests' \in [Requests -> RequestRows]
        BY <1>1, OneRequest DEF Register, Serve
    <2> QED BY <1>1, <2>1 DEF Register, TypeOK, Ids, keys, AllLifecycleStates
<1>2. ASSUME NEW p \in Providers \cup {0}, BindProvider(r, p)
      PROVE  TypeOK'
    <2>1. requests' \in [Requests -> RequestRows]
        BY <1>2, OneRequest DEF BindProvider, Serve
    <2> QED BY <1>2, <2>1 DEF BindProvider, TypeOK, Ids, keys
<1>3. ASSUME NEW to \in AllLifecycleStates, TransitionRead(r, to)
      PROVE  TypeOK'
    <2>1. life \in AllLifecycleStates
        BY <1>3 DEF TransitionRead, CanLifecycleTransition
    <2>2. requests' \in [Requests -> RequestRows]
        BY <1>3, <2>1, OneRequest DEF TransitionRead, Serve
    <2> QED BY <1>3, <2>2 DEF TransitionRead, TypeOK, dns, keys
<1>4. ASSUME NEW to \in Registrars \cup {"null"}, InitiateRead(r, to)
      PROVE  TypeOK'
    <2>1. requests' \in [Requests -> RequestRows]
        BY <1>4, OneRequest DEF InitiateRead, Serve, Names
    <2> QED BY <1>4, <2>1 DEF InitiateRead, TypeOK, dns, keys
<1>5. ASSUME NEW op \in {"complete", "cancel"}, CloseRead(r, op)
      PROVE  TypeOK'
    <2>1. requests' \in [Requests -> RequestRows]
        BY <1>5, OneRequest DEF CloseRead, Serve, TypeOK
    <2> QED BY <1>5, <2>1 DEF CloseRead, TypeOK, dns, keys
<1>6. ASSUME Respond(r)
      PROVE  TypeOK'
    <2>1. requests' \in [Requests -> RequestRows]
        BY <1>6, OneRequest DEF Respond, RegisterHistory, TransitionTx,
                                UpdateTransferStatus, BindStatus, Abort, Done
    <2>2. CASE RegisterHistory(r)
        <3>1. [from |-> "null", to |-> "requested"] \in HistoryRows
            BY DEF HistoryRows, AllLifecycleStates
        <3> QED BY <2>1, <2>2, <3>1, AppendRow
                DEF RegisterHistory, TypeOK, dns, keys
    <2>3. CASE TransitionTx(r)
        <3>1. /\ requests[r].from \in AllLifecycleStates
              /\ requests[r].to \in AllLifecycleStates
            BY <2>3, RequestKinds DEF TransitionTx, TypeOK
        <3>2. [from |-> requests[r].from, to |-> requests[r].to] \in HistoryRows
            BY <3>1 DEF HistoryRows
        <3> DEFINE e == [from |-> requests[r].from, to |-> requests[r].to]
        <3>3. Append(history, e) \in Seq(HistoryRows)
            BY <3>2, AppendRow DEF TypeOK
        <3>4. history' = history \/ history' = Append(history, e)
            BY <2>3 DEF TransitionTx
        <3>5. history' \in Seq(HistoryRows)
            BY <3>3, <3>4 DEF TypeOK
        <3> QED BY <2>1, <2>3, <3>1, <3>5 DEF TransitionTx, TypeOK, dns, keys
    <2>4. CASE UpdateTransferStatus(r)
        <3>1. transfer' \in TransferRows
            BY <2>4, RequestKinds
            DEF UpdateTransferStatus, Completed, NoTransfer, TransferRows, Names,
                TypeOK
        <3> QED BY <2>1, <2>4, <3>1 DEF UpdateTransferStatus, TypeOK, dns, keys
    <2>5. CASE BindStatus(r)
        BY <2>1, <2>5 DEF BindStatus, TypeOK, keys
    <2>6. CASE Abort(r)
        BY <2>1, <2>6 DEF Abort, TypeOK, dns, keys
    <2> QED BY <1>6, <2>2, <2>3, <2>4, <2>5, <2>6 DEF Respond
<1> QED BY <1>1, <1>2, <1>3, <1>4, <1>5, <1>6 DEF Request

-----------------------------------------------------------------------------
(* The types hold at first and after every step.                            *)
LEMMA InitTypes == Init => TypeOK
<1> SUFFICES ASSUME Init PROVE TypeOK
    OBVIOUS
<1>1. requests \in [Requests -> RequestRows]
    BY NewRequests DEF Init
<1>2. checks \in [Checks -> CheckRows]
    BY DEF Init, NoCheck, CheckRows, Ids
<1>3. transfer \in TransferRows
    BY DEF Init, NoTransfer, TransferRows, Names
<1>4. history \in Seq(HistoryRows)
    BY DEF Init
<1> QED BY <1>1, <1>2, <1>3, <1>4 DEF Init, TypeOK, Ids

(* Every step keeps the types.                                              *)
LEMMA StepTypes == TypeOK /\ [Next]_vars => TypeOK'
<1> SUFFICES ASSUME TypeOK, [Next]_vars PROVE TypeOK'
    OBVIOUS
<1>1. ASSUME NEW r \in Requests, Request(r) \/ Respond(r)
      PROVE  TypeOK'
    BY <1>1, RequestTypes
<1>2. CASE DnsStep
    BY <1>2, DnsStepTypes
<1>3. CASE UNCHANGED vars
    BY <1>3 DEF vars, dns, keys, TypeOK
<1> QED BY <1>1, <1>2, <1>3 DEF Next, DnsStep

(* The row of a domain, its requests, its keys and the checks of its        *)
(* nameservers keep their types (DomainStore, HandleNSCheck).               *)
THEOREM DomainTypeCorrect == Spec => []TypeOK
<1> QED BY InitTypes, StepTypes, PTL DEF Spec

-----------------------------------------------------------------------------
(* A step that changes neither the life, the history nor the transfer, and  *)
(* at most answers a request or serves one that has seen the truth.         *)
LEMMA RequestsKept ==
    ASSUME TypeOK, RequestsSawTruth, Exists => Exists', NEW r \in Requests,
           NEW q \in RequestRows, requests' = [requests EXCEPT ![r] = q],
           q.op = "register" => Exists',
           q.op = "move" => CanLifecycleTransition(q.from, q.to),
           q.op = "complete" => q.saw.status = "pending" /\ q.saw.requested
    PROVE  RequestsSawTruth'
<1>1. /\ requests'[r] = q
      /\ \A o \in Requests : o # r => requests'[o] = requests[o]
    BY OneRequest
<1> QED BY <1>1 DEF RequestsSawTruth, CanLifecycleTransition,
                    validLifecycleTransitions

(* A request that is answered leaves nothing behind.                        *)
LEMMA AnsweredKept ==
    ASSUME TypeOK, RequestsSawTruth, Exists => Exists', NEW r \in Requests,
           Done(r)
    PROVE  RequestsSawTruth'
BY RequestsKept, NewRequests DEF Done, Idle

(* Registration, second step.                                               *)
LEMMA RegisterHistoryInv ==
    ASSUME TypeOK, LifeInv, NEW r \in Requests, RegisterHistory(r)
    PROVE  NoRowNoHistory' /\ HistoryIsPath'
<1> DEFINE e == [from |-> "null", to |-> "requested"]
           g == Append(history, e)
<1>1. /\ e \in HistoryRows
      /\ history \in Seq(HistoryRows)
      /\ history' = g
      /\ life' = life
      /\ Exists
    BY DEF HistoryRows, AllLifecycleStates, TypeOK, RegisterHistory, LifeInv,
           RequestsSawTruth
<1>2. /\ Len(g) = Len(history) + 1
      /\ Moves(g) = Moves(history)
      /\ \A i \in 1 .. Len(history) : g[i] = history[i]
    BY <1>1, AppendRow
<1>3. Len(history) \in Nat /\ \A i \in Moves(history) : i \in 1 .. Len(history)
    BY <1>1 DEF Moves
<1>4. LeadTo(g, Len(g) + 1, life)
    <2>1. LeadTo(history, Len(history) + 1, life)
        BY <1>1 DEF LifeInv, HistoryIsPath
    <2> HIDE DEF g
    <2> QED BY <1>2, <1>3, <2>1 DEF LeadTo
<1>5. \A n \in Moves(g) :
         /\ LeadTo(g, n, g[n].from)
         /\ CanLifecycleTransition(g[n].from, g[n].to)
    <2> TAKE n \in Moves(g)
    <2>1. n \in 1 .. Len(history) /\ g[n] = history[n] /\ n \in Moves(history)
        BY <1>2, <1>3
    <2>2. LeadTo(history, n, history[n].from)
        BY <2>1 DEF LifeInv, HistoryIsPath
    <2>3. LeadTo(g, n, history[n].from)
        BY <1>1, <1>3, <2>1, <2>2, AppendLeads
    <2> QED BY <2>1, <2>3 DEF LifeInv, HistoryIsPath
<1> HIDE DEF g
<1> QED BY <1>1, <1>4, <1>5 DEF NoRowNoHistory, HistoryIsPath, Exists,
           CanLifecycleTransition, validLifecycleTransitions, LeadTo, Moves

(* A transition that finds the domain where it was read: the new row starts *)
(* where the history had led to, and its target is where it leads now.      *)
LEMMA TransitionInv ==
    ASSUME TypeOK, LifeInv, NEW r \in Requests, TransitionTx(r)
    PROVE  NoRowNoHistory' /\ HistoryIsPath'
<1> DEFINE e == [from |-> requests[r].from, to |-> requests[r].to]
           g == Append(history, e)
<1>1. CASE UNCHANGED <<life, history>>
    BY <1>1 DEF LifeInv, NoRowNoHistory, HistoryIsPath, Exists, LeadTo, Moves,
           CanLifecycleTransition, validLifecycleTransitions
<1>2. CASE ~UNCHANGED <<life, history>>
    <2>1. /\ history' = g
          /\ life' = e.to
          /\ life = e.from
          /\ requests[r].op = "move"
        BY <1>2 DEF TransitionTx, StillThere
    <2>2. CanLifecycleTransition(e.from, e.to)
        BY <2>1 DEF LifeInv, RequestsSawTruth
    <2>3. /\ e.from \in AllLifecycleStates
          /\ e.to \in AllLifecycleStates
        BY <2>1, RequestKinds DEF TypeOK
    <2>4. /\ e \in HistoryRows
          /\ e.from # "null"
          /\ Exists
          /\ Exists'
        BY <2>1, <2>3 DEF HistoryRows, Exists, AllLifecycleStates
    <2>5. history \in Seq(HistoryRows)
        BY DEF TypeOK
    <2> HIDE DEF e
    <2>6. /\ Len(g) = Len(history) + 1
          /\ Moves(g) = Moves(history) \cup {Len(history) + 1}
          /\ \A i \in 1 .. Len(history) : g[i] = history[i]
          /\ g[Len(history) + 1] = e
        BY <2>4, <2>5, AppendRow
    <2>7. /\ Len(history) \in Nat
          /\ \A i \in Moves(history) : i \in 1 .. Len(history)
        BY <2>5 DEF Moves
    <2>8. LeadTo(g, Len(history) + 1, e.from)
        <3>1. LeadTo(history, Len(history) + 1, e.from)
            BY <2>1, <2>4 DEF LifeInv, HistoryIsPath
        <3> QED BY <2>4, <2>5, <2>7, <3>1, AppendLeads
    <2>9. ASSUME NEW n \in Moves(g)
          PROVE  /\ LeadTo(g, n, g[n].from)
                 /\ CanLifecycleTransition(g[n].from, g[n].to)
        <3>1. CASE n = Len(history) + 1
            BY <2>2, <2>6, <2>8, <3>1
        <3>2. CASE n # Len(history) + 1
            <4>1. /\ n \in Moves(history)
                  /\ n \in 1 .. Len(history)
                  /\ g[n] = history[n]
                BY <2>6, <2>7, <3>2
            <4>2. /\ LeadTo(history, n, history[n].from)
                  /\ CanLifecycleTransition(history[n].from, history[n].to)
                BY <4>1 DEF LifeInv, HistoryIsPath
            <4>3. LeadTo(g, n, history[n].from)
                BY <2>4, <2>5, <2>7, <4>1, <4>2, AppendLeads
            <4> QED BY <4>1, <4>2, <4>3
        <3> QED BY <3>1, <3>2
    <2> HIDE DEF g
    <2>10. LeadTo(g, Len(g) + 1, e.to)
        BY <2>6, <2>7 DEF LeadTo
    <2> QED BY <2>1, <2>4, <2>9, <2>10 DEF NoRowNoHistory, HistoryIsPath,
               CanLifecycleTransition, validLifecycleTransitions, LeadTo, Moves
<1> QED BY <1>1, <1>2

(* The lifecycle part of the invariant holds after every step.              *)
LEMMA LifeStep == DomainInv /\ [Next]_vars => LifeInv'
<1> SUFFICES ASSUME DomainInv, [Next]_vars PROVE LifeInv'
    OBVIOUS
<1>0. TypeOK /\ LifeInv /\ TransferAgrees
    BY DEF DomainInv
<1> USE NewRequests, <1>0
<1>1. ASSUME UNCHANGED <<life, history>>
      PROVE  NoRowNoHistory' /\ HistoryIsPath'
    BY <1>1 DEF LifeInv, NoRowNoHistory, HistoryIsPath, Exists, LeadTo, Moves,
           CanLifecycleTransition, validLifecycleTransitions
<1>2. ASSUME UNCHANGED <<life, history, requests>>
      PROVE  LifeInv'
    BY <1>1, <1>2 DEF LifeInv, RequestsSawTruth, Exists, CanLifecycleTransition,
           validLifecycleTransitions
<1>3. ASSUME NEW r \in Requests, NEW p \in Providers \cup {0}, Register(r, p)
      PROVE  LifeInv'
    <2>1. history = <<>> /\ history' = <<>> /\ life' = "requested"
        BY <1>3 DEF Register, LifeInv, NoRowNoHistory
    <2>2. Moves(history') = {}
        BY <2>1 DEF Moves
    <2>3. RequestsSawTruth'
        BY <1>3, <2>1, RequestsKept DEF Register, Serve, LifeInv, Exists
    <2> QED BY <2>1, <2>2, <2>3 DEF LifeInv, NoRowNoHistory, HistoryIsPath,
               LeadTo, Exists
<1>4. ASSUME NEW r \in Requests, NEW p \in Providers \cup {0}, BindProvider(r, p)
      PROVE  LifeInv'
    BY <1>1, <1>4, RequestsKept DEF BindProvider, Serve, LifeInv, Exists
<1>5. ASSUME NEW r \in Requests, NEW to \in AllLifecycleStates,
             TransitionRead(r, to)
      PROVE  LifeInv'
    <2>1. life \in AllLifecycleStates
        BY <1>5 DEF TransitionRead, CanLifecycleTransition
    <2>2. RequestsSawTruth'
        BY <1>5, <2>1, RequestsKept DEF TransitionRead, Serve, LifeInv, Exists
    <2> QED BY <1>1, <1>5, <2>2 DEF TransitionRead, LifeInv
<1>6. ASSUME NEW r \in Requests, NEW to \in Registrars \cup {"null"},
             InitiateRead(r, to)
      PROVE  LifeInv'
    BY <1>1, <1>6, RequestsKept DEF InitiateRead, Serve, LifeInv, Exists, Names
<1>7. ASSUME NEW r \in Requests, NEW op \in {"complete", "cancel"},
             CloseRead(r, op)
      PROVE  LifeInv'
    BY <1>1, <1>7, RequestsKept
    DEF CloseRead, Serve, LifeInv, Exists, TypeOK, TransferAgrees
<1>8. ASSUME NEW r \in Requests, Respond(r)
      PROVE  LifeInv'
    <2>1. Done(r) /\ (Exists => Exists')
        <3>1. CASE TransitionTx(r)
            <4>1. requests[r].to \in AllLifecycleStates
                BY <3>1, RequestKinds DEF TransitionTx, TypeOK
            <4> QED BY <3>1, <4>1 DEF TransitionTx, Exists, AllLifecycleStates
        <3> QED BY <1>8, <3>1 DEF Respond, RegisterHistory, UpdateTransferStatus,
                   BindStatus, Abort, Exists
    <2>2. RequestsSawTruth'
        BY <2>1, AnsweredKept DEF LifeInv
    <2>3. NoRowNoHistory' /\ HistoryIsPath'
        <3>1. CASE RegisterHistory(r)
            BY <3>1, RegisterHistoryInv
        <3>2. CASE TransitionTx(r)
            BY <3>2, TransitionInv
        <3>3. CASE UpdateTransferStatus(r) \/ BindStatus(r) \/ Abort(r)
            BY <1>1, <3>3 DEF UpdateTransferStatus, BindStatus, Abort
        <3> QED BY <1>8, <3>1, <3>2, <3>3 DEF Respond
    <2> QED BY <2>2, <2>3 DEF LifeInv
<1>9. CASE DnsStep
    BY <1>2, <1>9, DnsStepTypes
<1>10. CASE UNCHANGED vars
    BY <1>2, <1>10 DEF vars
<1> QED BY <1>3, <1>4, <1>5, <1>6, <1>7, <1>8, <1>9, <1>10
        DEF Next, Request, DnsStep

(* The columns of a transfer agree after every step.                        *)
LEMMA TransferStep == DomainInv /\ [Next]_vars => TransferAgrees'
<1> SUFFICES ASSUME DomainInv, [Next]_vars PROVE TransferAgrees'
    OBVIOUS
<1>0. TypeOK /\ RequestsSawTruth /\ TransferAgrees
    BY DEF DomainInv, LifeInv
<1>1. CASE UNCHANGED transfer
    BY <1>0, <1>1 DEF TransferAgrees
<1>2. ASSUME NEW r \in Requests, UpdateTransferStatus(r)
      PROVE  TransferAgrees'
    <2>1. CASE requests[r].op = "initiate"
        BY <1>0, <1>2, <2>1 DEF UpdateTransferStatus, TransferAgrees
    <2>2. CASE requests[r].op = "complete"
        <3>1. /\ requests[r].saw \in TransferRows
              /\ requests[r].saw.requested
            BY <1>0, <2>2, RequestKinds DEF TypeOK, RequestsSawTruth
        <3>2. transfer' = Completed(requests[r].saw)
            BY <1>2, <2>2 DEF UpdateTransferStatus
        <3>3. /\ transfer'.status = "completed"
              /\ transfer'.completed = TRUE
              /\ transfer'.requested = requests[r].saw.requested
            BY <3>1, <3>2 DEF Completed, TransferRows
        <3> QED BY <3>1, <3>3 DEF TransferAgrees
    <2>3. CASE requests[r].op = "cancel"
        BY <1>2, <2>3 DEF UpdateTransferStatus, TransferAgrees, NoTransfer
    <2> QED BY <1>2, <2>1, <2>2, <2>3 DEF UpdateTransferStatus
<1>3. ASSUME NEW r \in Requests, Request(r) \/ Respond(r),
             ~UpdateTransferStatus(r)
      PROVE  UNCHANGED transfer
    BY <1>3 DEF Request, Respond, Register, BindProvider, TransitionRead,
           InitiateRead, CloseRead, RegisterHistory, TransitionTx, BindStatus,
           Abort
<1>4. CASE DnsStep
    BY <1>0, <1>1, <1>4, DnsStepTypes
<1>5. CASE UNCHANGED vars
    BY <1>1, <1>5 DEF vars
<1> QED BY <1>1, <1>2, <1>3, <1>4, <1>5 DEF Next, DnsStep

(* The inductive invariant holds at first.                                  *)
LEMMA InitInv == Init => DomainInv
<1> SUFFICES ASSUME Init PROVE DomainInv
    OBVIOUS
<1>1. TypeOK
    BY InitTypes
<1>2. LifeInv
    BY DEF Init, LifeInv, RequestsSawTruth, NoRowNoHistory, HistoryIsPath, Moves,
           Exists, Idle
<1>3. TransferAgrees
    BY DEF Init, TransferAgrees, NoTransfer
<1> QED BY <1>1, <1>2, <1>3 DEF DomainInv

(* Every step keeps the inductive invariant.                                *)
LEMMA StepInv == DomainInv /\ [Next]_vars => DomainInv'
BY StepTypes, LifeStep, TransferStep DEF DomainInv

(* The history of a domain is a path that ends at its state, for any number *)
(* of concurrent transitions and registrations (TransitionTx).              *)
THEOREM HistoryPath == Spec => []HistoryIsPath
<1>1. DomainInv => HistoryIsPath
    BY DEF DomainInv, LifeInv
<1> QED BY <1>1, InitInv, StepInv, PTL DEF Spec

(* What the row says of a transfer agrees with itself, for any number of    *)
(* requests that write it from stale reads (UpdateTransferStatus).          *)
THEOREM TransferConsistent == Spec => []TransferAgrees
<1>1. DomainInv => TransferAgrees
    BY DEF DomainInv
<1> QED BY <1>1, InitInv, StepInv, PTL DEF Spec

=============================================================================
