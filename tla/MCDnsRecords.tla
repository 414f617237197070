---------------------------- MODULE MCDnsRecords ----------------------------
(* Instances of DnsRecords for model checking. *)
EXTENDS DnsRecords

CONSTANTS r1, r2

Text(v, form) == [v |-> v, form |-> form]

Entry(host, full, type, content) ==
    [id |-> 0, type |-> type, name |-> [host |-> host, full |-> full],
     content |-> content, prio |-> 0]

(* An address of another name, and an alias that Huawei stores with a      *)
(* trailing dot.                                                           *)
SomeInputs ==
    {Entry("@", TRUE, "A", Text("ip", "plain")),
     Entry("www", TRUE, "CNAME", Text("cdn", "plain"))}

SomeTemplates ==
    {<<Entry("www", TRUE, "A", Text(Variable, "plain"))>>,
     <<Entry("www", TRUE, "CNAME", Text(Variable, "plain")),
       Entry("www", FALSE, "TXT", Text("spf", "quoted"))>>}

SomeProviders ==
    {[live |-> TRUE, type |-> t, zone |-> "name", creds |-> TRUE] : t \in ClientTypes}

(* Two items that were made with the console of the provider. *)
Console ==
    {[id |-> i, host |-> h, type |-> "A", values |-> {Text("old", "plain")}, prio |-> 0] :
        <<i, h>> \in {<<1, "@">>, <<2, "www">>}}

=============================================================================
