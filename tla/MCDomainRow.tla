---------------------------- MODULE MCDomainRow -----------------------------
(* Instances of DomainRow for model checking. *)
EXTENDS DomainRow

(* The lifecycle of a domain, its transfer or its provider: the columns    *)
(* are disjoint, so each kind of request is interleaved with itself only.  *)
OneKind == {{"life"}, {"transfer"}, {"dns"}}

=============================================================================
