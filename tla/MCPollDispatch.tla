---------------------------- MODULE MCPollDispatch ----------------------------
(***************************************************************************)
(* An instance of the poll dispatcher: two devices of one Panorama, the    *)
(* second one added by hand, and the two poll classes.                     *)
(***************************************************************************)
EXTENDS PollDispatch, TLC

CONSTANTS d1, d2

Shared == (d1 :> "pano") @@ (d2 :> "pano")
TwoClasses == [c \in {"system", "config"} |-> IF c = "system" THEN 3 ELSE 5]
===============================================================================
