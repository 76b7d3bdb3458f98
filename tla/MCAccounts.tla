------------------------------ MODULE MCAccounts -------------------------------
(* Instances of Accounts: an empty table, and two administrators whose      *)
(* passwords were hashed with the former parameters.                        *)
EXTENDS Accounts, TLC

Admin(p) == [Unborn EXCEPT !.live = TRUE, !.name = p, !.old = TRUE, !.admin = TRUE, !.active = TRUE]
Empty == [i \in Ids |-> Unborn]
Both == [i \in Ids |-> IF i = 1 THEN Admin("ann") ELSE IF i = 2 THEN Admin("bob") ELSE Unborn]
EmptyOrBoth == {Empty, Both}
Anyone == Permutations(Requests)
===============================================================================
