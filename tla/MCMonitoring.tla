---------------------------- MODULE MCMonitoring ----------------------------
(* Instances of Monitoring for model checking. *)
EXTENDS Monitoring

(* One L2 policy: its answers are told apart from those of L1 and L3. *)
TierTwo == [p \in Policies |-> 2]

(* Two rules of one channel match the alert, two do not. *)
SomeRules ==
    [channel : {"mail"}, minSeverity : {"P2", "P3"}, alertType : {"null"},
     enabled : {TRUE}]
    \cup [channel : {"mail"}, minSeverity : {"P1"}, alertType : {"probe", "gfw"},
          enabled : {TRUE}]

=============================================================================
