---------------------------- MODULE MCRegistrars ----------------------------
(* Three names, two accounts and two registrars.                           *)
EXTENDS Registrars

Line(f, a) == [fqdn |-> f, account |-> a, expiry |-> 0]

(* A name twice, a line that cannot be read, an account that may not exist *)
(* and a file that is too long.                                            *)
MCFiles == {<<Line(1, 1), Line(2, 1), Line(1, 1)>>,
            <<Line(0, 0), Line(3, 2)>>,
            <<Line(1, 0), Line(1, 0), Line(1, 0), Line(1, 0)>>}

Row(n, p, a, day) == [NoDomain EXCEPT
    !.id = n, !.state = "live", !.project = p, !.account = a, !.expiry = day]

(* At first the table is empty, or has names of both projects; one of them *)
(* has no account.                                                         *)
MCInitDomains == {<<NoDomain, NoDomain, NoDomain>>,
                  <<Row(1, 1, 1, 100), Row(2, 1, 1, 100), Row(3, 2, 0, 100)>>}

(* At first the login holds all names; only one has a date.                *)
MCInitHeld == {[f \in Fqdns |-> IF f = 1 THEN 100 ELSE 0]}

=============================================================================
