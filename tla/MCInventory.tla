----------------------------- MODULE MCInventory ------------------------------
(***************************************************************************)
(* Instances of the inventory: an HA pair behind one Panorama, of which an *)
(* import may pick one member.                                             *)
(***************************************************************************)
EXTENDS Inventory

Pair == {"a", "b"}
ThePano == [s \in Pair |-> "p"]
Mates == [s \in Pair |-> IF s = "a" THEN "b" ELSE "a"]
Imports == {{}, {"a"}}
===============================================================================
