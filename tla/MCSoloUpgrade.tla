---------------------------- MODULE MCSoloUpgrade -----------------------------
(***************************************************************************)
(* Instances of the standalone upgrade: from 11.1.4 to 12.1.7, whose train *)
(* has 12.1.2 for its base, on a firewall that holds the running release   *)
(* alone, which a cleanup may delete once the target runs.                 *)
(***************************************************************************)
EXTENDS SoloUpgrade

Running == <<11, 1, 4, 0>>
Wanted == <<12, 1, 7, 0>>
Offered == {[version |-> <<12, 1, 2, 0>>, base |-> TRUE], [version |-> Wanted, base |-> FALSE],
            [version |-> <<11, 1, 0, 0>>, base |-> TRUE], [version |-> Running, base |-> FALSE]}
Stored == {Running}

Unattended == {[mode |-> "none", autoReboot |-> TRUE]}
AllOptions == {[mode |-> "none", autoReboot |-> TRUE], [mode |-> "hold", autoReboot |-> FALSE],
               [mode |-> "stage_only", autoReboot |-> TRUE]}
===============================================================================
