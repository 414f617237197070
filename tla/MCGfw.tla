------------------------------- MODULE MCGfw --------------------------------
(* Instances of Gfw for model checking. *)
EXTENDS Gfw, TLC

CONSTANTS bj, sh, hk

(* The site works, behind a CDN or not, and the firewall leaves it alone   *)
(* or interferes in the first, in the third or in the fourth layer.  A     *)
(* check may miss the answer of its resolver, or get one too fast.         *)
SomeWorlds ==
    [site : {"cdn"}, censor : {"none", "reset"}]
    \cup [site : {"up"}, censor : {"poison", "stub"}]

SomeTroubles == {{}, {"resolver"}, {"fast"}}

Inside == Permutations({bj, sh})

(* Two nodes inside and one outside. *)
Roles == [n \in Nodes |-> IF n = hk THEN "control" ELSE "probe"]

OneRule ==
    [channel : {"mail"}, minSeverity : {"P1"}, alertType : {"gfw"}, enabled : {TRUE}]

=============================================================================
