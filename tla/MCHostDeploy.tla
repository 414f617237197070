---------------------------- MODULE MCHostDeploy ----------------------------
(* Instances of HostDeploy for model checking. *)
EXTENDS HostDeploy

(* Release 1 has one page and a configuration, release 2 two pages and a    *)
(* configuration, release 3 two pages.                                      *)
Manifests ==
    [r \in Releases |-> CASE r = 1 -> {"index", "conf"}
                          [] r = 2 -> {"index", "about", "conf"}
                          [] OTHER -> {"index", "about"}]

(* nginx -t refuses the configuration of release 2 and one that is torn.    *)
RefusedConf == {2, Torn}

=============================================================================
