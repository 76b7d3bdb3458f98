---------------------------- MODULE RollingUpgrade ----------------------------
(***************************************************************************)
(* What an HA pair upgrade promises, whatever the orchestrator does in     *)
(* between (docs/ARCHITECTURE.md, "Upgrade orchestrator"): one member      *)
(* serves at any time, a member changes its image only while it is out of  *)
(* the cluster, and the second member only once the first, fixed for the   *)
(* job, runs the target.                                                   *)
(***************************************************************************)
CONSTANTS Members, NoMember

VARIABLES
  lead,     \* the member upgraded first, NoMember before it is chosen
  version,  \* the image each member runs
  away,     \* the members out of the cluster
  serving   \* the member that carries the traffic

vars == <<lead, version, away, serving>>

TypeOK ==
  /\ lead \in Members \cup {NoMember}
  /\ version \in [Members -> {"old", "target"}]
  /\ away \subseteq Members
  /\ serving \in Members \ away

Init == TypeOK /\ lead = NoMember /\ version = [m \in Members |-> "old"]

Choose(m) ==
  /\ lead = NoMember /\ lead' = m
  /\ UNCHANGED <<version, away, serving>>

(* A member leaves the cluster; the serving one hands the traffic over      *)
(* first.                                                                   *)
Leave(m) ==
  /\ m \notin away
  /\ away' = away \cup {m}
  /\ serving' \in Members \ away'
  /\ m # serving => serving' = serving
  /\ UNCHANGED <<lead, version>>

Replace(m) ==
  /\ m \in away /\ version[m] = "old"
  /\ lead # NoMember
  /\ m # lead => version[lead] = "target"
  /\ version' = [version EXCEPT ![m] = "target"]
  /\ UNCHANGED <<lead, away, serving>>

Rejoin(m) ==
  /\ m \in away
  /\ away' = away \ {m}
  /\ UNCHANGED <<lead, version, serving>>

Next == \E m \in Members : Choose(m) \/ Leave(m) \/ Replace(m) \/ Rejoin(m)

Spec == Init /\ [][Next]_vars

===============================================================================
