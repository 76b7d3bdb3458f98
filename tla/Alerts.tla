-------------------------------- MODULE Alerts --------------------------------
(***************************************************************************)
(* The alert engine (app/alerts) for one device and one metric: the rules  *)
(* an operator edits, the evaluation a poll runs over its fresh sample,    *)
(* the alerts it opens, updates and clears, and what the replacement or    *)
(* the deletion of the device does to them.  One of each suffices: an      *)
(* evaluation reads no state of another device or metric.  An              *)
(* acknowledgement is a mark on a row that nothing reads, and is left out. *)
(*                                                                         *)
(* A poll is a process: it takes its timestamp, reads the firewall,        *)
(* commits the sample in a session of its own and evaluates it, and later  *)
(* commits the change of the alert with the device's row.  Two polls       *)
(* overlap when "poll now" sweeps next to the dispatcher.                  *)
(*                                                                         *)
(* The history lists the samples by timestamp: a poll's place is taken     *)
(* when it starts and filled when its sample is written.  Only the places  *)
(* a rule can look back to are kept, and a cleared alert only as long as a *)
(* poll holds it.                                                          *)
(***************************************************************************)
EXTENDS Integers, FiniteSets, Sequences, SequencesExt

CONSTANTS
  Pollers,     \* the polls of the device that may run at one time
  Nobody,      \* no poller
  Levels,      \* the usages of the metric, in percent
  Thresholds,  \* the thresholds of the rules
  Sustains,    \* the sustained_samples of the rules
  SeededRules, \* the rules of a fresh database
  NewRules,    \* the rules an operator may add
  Settings,    \* the threshold, sustained_samples and enabled an edit may set
  RuleIds,     \* bound on the rule rows
  AlertIds,    \* bound on the alert rows
  MaxUpsets    \* bound on the edits of rules, replacements and broken polls

HYSTERESIS_PCT == 5
Severities == {"critical", "warning"}
Unread == -1

AlertRule == [id : RuleIds, scope : {"metric", "global"}, sev : Severities,
              threshold : Thresholds, sustained : Sustains, enabled : BOOLEAN]
NoRule == [id |-> -1]
Alert == [id : AlertIds, sev : Severities, threshold : Thresholds,
          open : BOOLEAN]
NoAlert == [id |-> -1]

ASSUME AlertsAssumption ==
  /\ Levels \subseteq 0..100 /\ Thresholds \subseteq 1..100 /\ Sustains \subseteq 1..20
  /\ RuleIds \subseteq Nat /\ AlertIds \subseteq Nat
  /\ SeededRules \subseteq AlertRule /\ NewRules \subseteq AlertRule
  /\ Settings \subseteq [threshold : Thresholds, sustained : Sustains, enabled : BOOLEAN]
  /\ Nobody \notin Pollers
  /\ MaxUpsets \in Nat

VARIABLES
  present,  \* the device is in the inventory
  rules,    \* the rows of alert_rules
  history,  \* the device's samples, the oldest first
  alerts,   \* the rows of alerts
  polls,    \* what each poller is at
  upsets,   \* the edits, replacements and broken polls so far
  overlapped  \* two polls have overlapped, or the device absorbed another row

vars == <<present, rules, history, alerts, polls, upsets, overlapped>>

LookBack == Max(Sustains)
Place == [of : Pollers \cup {Nobody}, pct : Levels \cup {Unread}]
Idle == [at |-> "idle"]
Verdicts == {"nothing", "open", "update", "clear"}  \* what an evaluated poll will commit
Work == {Idle} \cup [at : {"polling", "nothing"}] \cup [at : {"open"}, rule : AlertRule]
          \cup [at : {"update"}, was : Alert, rule : AlertRule]
          \cup [at : {"clear"}, was : Alert]

(* The type invariant.                                                      *)
TypeOK ==
  /\ present \in BOOLEAN /\ overlapped \in BOOLEAN
  /\ rules \subseteq AlertRule
  /\ history \in Seq(Place)
  /\ alerts \subseteq Alert
  /\ polls \in [Pollers -> Work]
  /\ upsets \in 0..MaxUpsets

Init ==
  /\ present = TRUE /\ overlapped = FALSE
  /\ rules = SeededRules
  /\ history = <<>> /\ alerts = {}
  /\ polls = [p \in Pollers |-> Idle]
  /\ upsets = 0

-------------------------------------------------------------------------------
(* The rules.                                                               *)

(* The dictionary keeps one rule per scope and severity, whichever row the  *)
(* query returns last; a disabled rule is not in it, so the global rule     *)
(* stands in for a disabled override.                                       *)
RulesFor(sev) ==
  LET Enabled(scope) == {r \in rules : r.enabled /\ r.sev = sev /\ r.scope = scope}
  IN  IF Enabled("metric") # {} THEN Enabled("metric")
      ELSE IF Enabled("global") # {} THEN Enabled("global") ELSE {NoRule}

Breached(r, pct) == r # NoRule /\ pct >= r.threshold

(* The rules that may be the firing one: the critical one comes first.      *)
Firing(pct) ==
  LET hits(sev) == {r \in RulesFor(sev) : Breached(r, pct)}
      misses(sev) == RulesFor(sev) \ hits(sev)
  IN  hits("critical")
        \cup (IF misses("critical") = {} THEN {}
              ELSE hits("warning") \cup (IF misses("warning") = {} THEN {} ELSE {NoRule}))

FreeRule == RuleIds \ {r.id : r \in rules}
Upset == upsets < MaxUpsets /\ upsets' = upsets + 1
Edited == Upset /\ UNCHANGED <<present, history, alerts, polls, overlapped>>

(* The unique constraint on (metric, severity) admits no second override,   *)
(* but a second global rule: its metric is NULL.                            *)
CreateRule ==
  /\ FreeRule # {}
  /\ \E new \in NewRules :
        /\ new.scope = "metric" => \A r \in rules : r.scope = "global" \/ r.sev # new.sev
        /\ rules' = rules \cup {[new EXCEPT !.id = Min(FreeRule)]}
  /\ Edited

UpdateRule ==
  /\ \E r \in rules, s \in Settings :
        LET edited == [r EXCEPT !.threshold = s.threshold, !.sustained = s.sustained,
                                !.enabled = s.enabled]
        IN  edited # r /\ rules' = (rules \ {r}) \cup {edited}
  /\ Edited

DeleteRule == (\E r \in rules : rules' = rules \ {r}) /\ Edited

-------------------------------------------------------------------------------
(* A poll.                                                                  *)

Busy == {p \in Pollers : polls[p] # Idle}
OpenAlerts == {a \in alerts : a.open}
Own(h, p) == CHOOSE i \in 1..Len(h) : h[i].of = p
IsRead(e) == e.pct # Unread

(* The elements of a sequence that are in T, in their order: SelectSeq, as  *)
(* a function that can be unfolded in a proof.                              *)
Where(s, T) ==
  LET upTo[i \in 0..Len(s)] ==
        IF i = 0 THEN <<>>
        ELSE IF s[i] \in T THEN Append(upTo[i - 1], s[i]) ELSE upTo[i - 1]
  IN upTo[Len(s)]

(* A place is kept while it is held, and a sample while a rule can reach it *)
(* from a place that is held or from the next poll.                         *)
Nothing == [of |-> Nobody, pct |-> Unread]
Needed(h, i) ==
  \/ h[i].of # Nobody
  \/ \E j \in i + 1..Len(h) + 1 :
       /\ j = Len(h) + 1 \/ h[j].of # Nobody
       /\ Cardinality({k \in i + 1..j - 1 : IsRead(h[k])}) < LookBack - 1
Recent(h) ==
  Where([i \in 1..Len(h) |-> IF Needed(h, i) THEN h[i] ELSE Nothing], Place \ {Nothing})

(* A poll that ends gives its place up.                                     *)
Ended(p) ==
  Recent([i \in 1..Len(history) |->
            IF history[i].of = p THEN [history[i] EXCEPT !.of = Nobody] ELSE history[i]])

Begin(p) ==
  /\ polls[p] = Idle /\ present
  /\ polls' = [polls EXCEPT ![p] = [at |-> "polling"]]
  /\ history' = Append(history, [of |-> p, pct |-> Unread])
  /\ overlapped' = (overlapped \/ Busy # {})
  /\ UNCHANGED <<present, rules, alerts, upsets>>

(* The poll's own sample and the ones written before it, the latest last.   *)
Seen(h, p) == Where(SubSeq(h, 1, Own(h, p)), {e \in Place : IsRead(e)})

(* Mutant of _breach_is_sustained: one sample too few is asked for.         *)
SustainedButOne(h, p, r) ==
  LET seen == Seen(h, p)
  IN  \/ r.sustained <= 1
      \/ /\ Len(seen) >= r.sustained
         /\ \A i \in Len(seen) - r.sustained + 2..Len(seen) : seen[i].pct >= r.threshold

_breach_is_sustained(h, p, r) ==
  LET seen == Seen(h, p)
  IN  \/ r.sustained <= 1
      \/ /\ Len(seen) >= r.sustained
         /\ \A i \in Len(seen) - r.sustained + 1..Len(seen) : seen[i].pct >= r.threshold

(* The dictionary of open alerts keeps one, whichever comes last.           *)
Existing == IF OpenAlerts = {} THEN {NoAlert} ELSE OpenAlerts

(* Mutant of Verdict: a breach within the hysteresis opens.                 *)
VerdictBelow(h, p, pct, r, a) ==
  IF r # NoRule /\ a = NoAlert
  THEN [at |-> "open", rule |-> [r EXCEPT !.threshold = @ - HYSTERESIS_PCT]]
  ELSE [at |-> "nothing"]

(* Mutant of Verdict: each severity has an alert of its own.                *)
VerdictPerSeverity(h, p, pct, r, a) ==
  CASE r # NoRule /\ a # NoAlert /\ a.sev = r.sev -> [at |-> "update", was |-> a, rule |-> r]
    [] r # NoRule /\ (a = NoAlert \/ a.sev # r.sev) /\ _breach_is_sustained(h, p, r) -> [at |-> "open", rule |-> r]
    [] r = NoRule /\ a # NoAlert /\ pct < a.threshold - HYSTERESIS_PCT -> [at |-> "clear", was |-> a]
    [] OTHER -> [at |-> "nothing"]

(* Mutant of Verdict: only a rule in force clears its alert.                *)
VerdictUnderRule(h, p, pct, r, a) ==
  CASE r # NoRule /\ a # NoAlert -> [at |-> "update", was |-> a, rule |-> r]
    [] r # NoRule /\ a = NoAlert /\ _breach_is_sustained(h, p, r) -> [at |-> "open", rule |-> r]
    [] r = NoRule /\ a # NoAlert /\ RulesFor(a.sev) # {NoRule} /\ pct < a.threshold - HYSTERESIS_PCT ->
         [at |-> "clear", was |-> a]
    [] OTHER -> [at |-> "nothing"]

Verdict(h, p, pct, r, a) ==
  CASE r # NoRule /\ a # NoAlert -> [at |-> "update", was |-> a, rule |-> r]
    [] r # NoRule /\ a = NoAlert /\ _breach_is_sustained(h, p, r) -> [at |-> "open", rule |-> r]
    [] r = NoRule /\ a # NoAlert /\ pct < a.threshold - HYSTERESIS_PCT -> [at |-> "clear", was |-> a]
    [] OTHER -> [at |-> "nothing"]

(* The sample is read and committed, and evaluated against what the other   *)
(* sessions have committed by then.                                         *)
Evaluate(p) ==
  /\ polls[p].at = "polling" /\ present
  /\ \E pct \in Levels :
        LET h == [history EXCEPT ![Own(history, p)].pct = pct]
        IN  /\ history' = h
            /\ \E r \in Firing(pct), a \in Existing :
                  polls' = [polls EXCEPT ![p] = Verdict(h, p, pct, r, a)]
  /\ UNCHANGED <<present, rules, alerts, upsets, overlapped>>

FreeAlert == AlertIds \ {a.id : a \in alerts}

(* Mutant of Updated: the severity of the alert is kept.                    *)
UpdatedThreshold(a, q) == [a EXCEPT !.threshold = q.rule.threshold]

(* An update writes the columns that differ from the row as it was loaded:  *)
(* an alert cleared meanwhile stays cleared, and a severity or a threshold  *)
(* that another poll has changed is kept when this one saw no change in it. *)
Updated(a, q) ==
  [a EXCEPT !.sev = IF q.rule.sev = q.was.sev THEN @ ELSE q.rule.sev,
            !.threshold = IF q.rule.threshold = q.was.threshold THEN @ ELSE q.rule.threshold]
Written(q) ==
  CASE q.at = "open" ->
         alerts \cup {[id |-> Min(FreeAlert), sev |-> q.rule.sev, threshold |-> q.rule.threshold,
                       open |-> TRUE]}
    [] q.at = "update" -> {IF a.id = q.was.id THEN Updated(a, q) ELSE a : a \in alerts}
    [] q.at = "clear" -> {IF a.id = q.was.id THEN [a EXCEPT !.open = FALSE] ELSE a : a \in alerts}
    [] OTHER -> alerts

HeldBy(ps) == {polls[p].was.id : p \in {q \in ps : polls[q].at \in {"update", "clear"}}}

Commit(p) ==
  /\ polls[p].at \in Verdicts /\ present
  /\ polls[p].at = "open" => FreeAlert # {}
  /\ polls' = [polls EXCEPT ![p] = Idle]
  /\ alerts' = {a \in Written(polls[p]) : a.open \/ a.id \in HeldBy(Pollers \ {p})}
  /\ history' = Ended(p)
  /\ UNCHANGED <<present, rules, upsets, overlapped>>

(* An exception, the time limit or a lost worker: what was not committed is *)
(* gone, a written sample stays.                                            *)
Break(p) ==
  /\ polls[p] # Idle /\ present
  /\ Upset
  /\ polls' = [polls EXCEPT ![p] = Idle]
  /\ alerts' = {a \in alerts : a.open \/ a.id \in HeldBy(Pollers \ {p})}
  /\ history' = Ended(p)
  /\ UNCHANGED <<present, rules, overlapped>>

(* A poll whose device is gone cannot write: its keys have no row.          *)
Orphaned(p) ==
  /\ polls[p] # Idle /\ ~present
  /\ polls' = [polls EXCEPT ![p] = Idle]
  /\ UNCHANGED <<present, rules, history, alerts, upsets, overlapped>>

-------------------------------------------------------------------------------
(* The operator.                                                            *)

(* Deleting the device takes its samples and alerts along.                  *)
DeleteDevice ==
  /\ present /\ present' = FALSE
  /\ history' = <<>> /\ alerts' = {}
  /\ UNCHANGED <<rules, polls, upsets, overlapped>>

(* replace_serial moves the samples and alerts of the row it absorbs, the   *)
(* one of the new hardware: its samples are the younger ones.               *)
Absorb ==
  /\ present /\ FreeAlert # {}
  /\ Upset
  /\ \E pct \in Levels, r \in rules :
        /\ history' = Recent(Append(history, [of |-> Nobody, pct |-> pct]))
        /\ alerts' \in {alerts, alerts \cup {[id |-> Min(FreeAlert), sev |-> r.sev,
                            threshold |-> r.threshold, open |-> TRUE]}}
  /\ overlapped' = TRUE
  /\ UNCHANGED <<present, rules, polls>>

Works(p) == Evaluate(p) \/ Commit(p) \/ Orphaned(p)

Next ==
  \/ \E p \in Pollers : Begin(p) \/ Works(p) \/ Break(p)
  \/ CreateRule \/ UpdateRule \/ DeleteRule
  \/ DeleteDevice \/ Absorb

Spec == Init /\ [][Next]_vars

(* Polls go on, and the dispatcher keeps coming back; no poll in particular *)
(* is promised to get through.                                              *)
Fairness == WF_vars(\E p \in Pollers : Works(p)) /\ WF_vars(\E p \in Pollers : Begin(p))
FairSpec == Spec /\ Fairness

-------------------------------------------------------------------------------
(* Properties.                                                              *)

(* One row is firing, unless two polls have overlapped or the device has    *)
(* absorbed another row: through edits of the rules and broken polls.       *)
OneOpenPerMetric == ~overlapped => Cardinality(OpenAlerts) <= 1

(* A poll that is about to open an alert while no other runs stands on      *)
(* consecutive samples that all breach the rule, whatever broken polls have *)
(* left out of the history, and whatever the rules are by now.              *)
OpensSustained ==
  \A p \in Pollers : polls[p].at = "open" /\ present /\ ~overlapped =>
    LET seen == Seen(history, p)
        breaching == {i \in 1..Len(seen) : \A j \in i..Len(seen) : seen[j].pct >= polls[p].rule.threshold}
    IN  Cardinality(breaching) >= polls[p].rule.sustained

(* The samples the history holds.                                           *)
Sampled == {history[i].pct : i \in {j \in 1..Len(history) : IsRead(history[j])}}

(* When from some time on every sample is critical under the rules in       *)
(* force, a critical alert ends up open and stays so, whatever order the    *)
(* last commits of overlapping polls came in.                               *)
Critical(pct) == \A r \in Firing(pct) : r # NoRule /\ r.sev = "critical"
CriticalUsageAlerts ==
  <>[](present /\ \A u \in Sampled : Critical(u)) => <>[](\E a \in OpenAlerts : a.sev = "critical")

(* When from some time on every sample is below the reach of every          *)
(* threshold, all the open alerts get cleared: duplicates, and those whose  *)
(* rule was deleted or disabled, included.                                  *)
Quiet(pct) == \A t \in Thresholds : pct < t - HYSTERESIS_PCT
QuietUsageClears ==
  <>[](present /\ \A u \in Sampled : Quiet(u)) => <>[](OpenAlerts = {})
===============================================================================
