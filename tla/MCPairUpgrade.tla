---------------------------- MODULE MCPairUpgrade ----------------------------
(***************************************************************************)
(* Instances of the pair upgrade: the job options, the HA states the pair  *)
(* starts in and what the rest of the job does, one definition per choice. *)
(***************************************************************************)
EXTENDS PairUpgrade

Default == [mode |-> "none", autoReboot |-> TRUE, gateFailover |-> FALSE,
            gatePrimary |-> FALSE, failback |-> FALSE, ackPre |-> TRUE, ackPost |-> TRUE]
Gated == [Default EXCEPT !.autoReboot = FALSE, !.gateFailover = TRUE, !.gatePrimary = TRUE]
Checked == [Default EXCEPT !.ackPre = FALSE, !.ackPost = FALSE]
Hold == [Default EXCEPT !.mode = "hold"]

Unattended == {Default}
AllGates == {Gated, [Gated EXCEPT !.mode = "hold"]}
PrimaryOnly == {[Default EXCEPT !.gatePrimary = TRUE]}
Checks == {Checked, [Checked EXCEPT !.failback = TRUE]}
Stagings == {[Default EXCEPT !.mode = "stage_only"], Hold}

BFirst == {[m \in Members |-> IF m = A THEN "active" ELSE "passive"]}
Leftover == {[m \in Members |-> IF m = A THEN "suspended" ELSE "active"]}
SettledOrNot == BFirst \cup Leftover

Operators == AllGates \cup Checks \cup Stagings
Everyone == Operators \cup Unattended
Alone == {"none"}
Others == {"running"}
===============================================================================
