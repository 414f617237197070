---------------------------- MODULE AlertEvents -----------------------------
(***************************************************************************)
(* The tables alert_events and notification_rules as their users see them  *)
(* (store/postgres/alert.go): rows are appended and marked, never deleted. *)
(* The alert engine works on them for probes (Monitoring) and for blocking *)
(* verdicts (Gfw).                                                         *)
(***************************************************************************)
EXTENDS Integers, Sequences

severityRank == [P1 |-> 4, P2 |-> 3, P3 |-> 2, INFO |-> 1]

(* resolved_at IS NULL *)
Open(event, key) == event.key = key /\ ~event.resolved

(* Mutant: the window is tested the wrong way round.                       *)
SuppressesOld(event, key) == Open(event, key) /\ event.old

(* Open, and created within the dedup window of an hour. *)
Suppresses(event, key) == Open(event, key) /\ ~event.old

ExistsActiveDedupKey(alerts, key) ==
    \E i \in 1..Len(alerts) : Suppresses(alerts[i], key)

ResolveByDedupKey(alerts, key) ==
    [i \in 1..Len(alerts) |->
        IF Open(alerts[i], key) THEN [alerts[i] EXCEPT !.resolved = TRUE]
                                ELSE alerts[i]]

(* An hour goes by. *)
Aged(alerts) ==
    [i \in 1..Len(alerts) |-> [alerts[i] EXCEPT !.old = TRUE]]

(* The enabled rules that match.  A rule without an alert_type matches     *)
(* every source; one for another target would be like a disabled one.      *)
ListMatchingRules(rules, severity, source) ==
    {r \in rules :
        /\ r.enabled
        /\ r.alertType \in {"null", source}
        /\ severityRank[severity] >= severityRank[r.minSeverity]}

(* Their distinct channels. *)
MatchingChannels(rules, severity, source) ==
    {r.channel : r \in ListMatchingRules(rules, severity, source)}

=============================================================================
