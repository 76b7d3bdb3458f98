------------------------------- MODULE MCAlerts -------------------------------
(***************************************************************************)
(* An instance of the alert engine: thresholds of 75 and 90, and usages    *)
(* quiet for both, between them (within the hysteresis of the upper one),  *)
(* and above both.                                                         *)
(***************************************************************************)
EXTENDS Alerts

Usages == {60, 87, 95}
Global(i, sev, t) == [id |-> i, scope |-> "global", sev |-> sev, threshold |-> t,
                      sustained |-> 1, enabled |-> TRUE]

(* The seeded default, and the seeded override of a volatile metric.        *)
Seeded == {Global(1, "warning", 75),
           [Global(2, "critical", 90) EXCEPT !.scope = "metric", !.sustained = 2]}

(* A second global rule next to the seeded one, and one under the override. *)
Added == {Global(3, "warning", 90), Global(3, "critical", 75)}
Edits == {[threshold |-> 75, sustained |-> 2, enabled |-> TRUE],
          [threshold |-> 90, sustained |-> 1, enabled |-> FALSE]}
===============================================================================
