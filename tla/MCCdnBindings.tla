--------------------------- MODULE MCCdnBindings ----------------------------
(* Instances of CdnBindings for model checking. *)
EXTENDS CdnBindings

=============================================================================
