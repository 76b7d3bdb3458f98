--------------------------- MODULE MCDriveDispatch ---------------------------
(***************************************************************************)
(* Instances of the dispatch: one gate and one wait, in either order.  *)
(***************************************************************************)
EXTENDS DriveDispatch, TLC

GateAndWait == <<"gate", "wait">>
WaitThenGate == <<"wait", "gate">>

(* Pairs are interchangeable, and so are workers.                           *)
Interchangeable == Permutations(Pairs) \cup Permutations(Workers)
===============================================================================
