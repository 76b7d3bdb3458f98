------------------------------ MODULE PairUpgrade ------------------------------
(***************************************************************************)
(* The upgrade orchestrator driving one HA pair of one job                 *)
(* (app/upgrade/services/upgrade.py), with the operator's routes           *)
(* (app/upgrade/routes/jobs.py), the background Panorama sync and the two  *)
(* firewalls.                                                              *)
(*                                                                         *)
(* A drive of the pair (`drive_pair`) is one process: it takes a dispatch  *)
(* message, walks the phases and stops at a gate, at a wait, on a failure  *)
(* or when the pair is done.  `at` is the phase function it is in, `on`    *)
(* the member that function works on.  Every phase function is one action  *)
(* (two where a commit inside it can be observed), so operator clicks, the *)
(* abort, the sync and the firewalls interleave between them.              *)
(*                                                                         *)
(* A firewall is modelled from what the orchestrator asks of it: whether   *)
(* its management plane answers, the image it runs, its HA state and the   *)
(* install job.  `row` is the device's database row, which the code reads  *)
(* instead of the firewall in most of its decisions: the probe made on     *)
(* entry is not committed and its refresh throws the fresh values away.    *)
(*                                                                         *)
(* Waits time out nondeterministically; the download is one step; the      *)
(* snapshots, which never change the flow, leave only their marker.        *)
(***************************************************************************)
EXTENDS Naturals, FiniteSets

CONSTANTS
  A, B,         \* the two members of the pair
  NoMember,     \* no member
  Policies,     \* the job options a run explores
  HaStarts,     \* the HA states, [A |-> _, B |-> _], the firewalls may start in
  RestStarts,   \* what the job's other devices may be doing at the start
  SyncOn,       \* TRUE when the Panorama sync refreshes the rows
  AbortOn,      \* TRUE when the operator may abort the job
  CrashOn,      \* TRUE when a drive may end in an exception
  Killable,     \* the policies under which a worker may be killed in a drive
  RefuseOn,     \* TRUE when a firewall may ignore an HA command
  MaxMsgs,      \* bound on the dispatch messages waiting
  MaxClicks,    \* bound on the operator's gate clicks
  MaxRetries    \* bound on the operator's retries

ASSUME PairAssumption ==
  /\ A # B
  /\ NoMember \notin {A, B}

ASSUME BoundAssumption ==
  /\ MaxMsgs \in Nat \ {0}
  /\ MaxClicks \in Nat
  /\ MaxRetries \in Nat
  /\ {SyncOn, AbortOn, CrashOn, RefuseOn} \subseteq BOOLEAN
  /\ Killable \subseteq Policies

Members == {A, B}
Other(m) == IF m = A THEN B ELSE A

HaStates == {"active", "passive", "suspended", "initial"}
Versions == {"old", "target"}
Modes == {"none", "stage_only", "hold"}
RestStates == {"none", "running", "done", "failed"}

Policy == [mode : Modes, autoReboot : BOOLEAN, gateFailover : BOOLEAN,
           gatePrimary : BOOLEAN, failback : BOOLEAN,
           ackPre : BOOLEAN, ackPost : BOOLEAN]

ASSUME PolicyAssumption ==
  /\ Policies \subseteq Policy
  /\ HaStarts \subseteq [Members -> HaStates]
  /\ RestStarts \subseteq RestStates

AwaitConfirm == {"AWAITING_INSTALL_CONFIRM", "AWAITING_REBOOT_CONFIRM",
                 "AWAITING_FAILOVER_CONFIRM", "AWAITING_PRIMARY_UPGRADE_CONFIRM"}
AwaitOverride == {"AWAITING_PRECHECK_OVERRIDE", "AWAITING_POSTCHECK_OVERRIDE"}

(* BUSY stands for every in-flight phase between two parks.                *)
Phases == {"PENDING", "BUSY", "DONE", "FAILED"} \cup AwaitConfirm \cup AwaitOverride

JobEnded == {"COMPLETED", "COMPLETED_WITH_ERRORS", "FAILED", "ABORTED"}
JobStates == {"PENDING", "RUNNING"} \cup JobEnded

Markers == {"precheck", "snapshot", "ensure_image", "install_confirmed", "suspend_ha",
            "install_issued", "software_installed", "reboot_confirmed",
            "reboot_issued", "install_complete", "ha_resumed",
            "ha_resume_complete", "postcheck", "failover_confirmed", "failover",
            "primary_upgrade_confirmed"}

GateMarkers == {"install_confirmed", "reboot_confirmed", "failover_confirmed",
                "primary_upgrade_confirmed"}

Steps == {"idle", "classify", "precheck", "early", "image", "staged", "hold",
          "suspend", "install", "poll", "rebootGate", "reboot", "boot", "resume",
          "settle", "postcheck", "failoverGate", "failover", "primaryGate",
          "failback", "finish", "heal", "close", "cleanup"}

VARIABLES
  job,        \* UpgradeJob.state
  policy,     \* the job's options, fixed when it is created
  rest,       \* the job's other devices
  task,       \* DeviceUpgradeTask of each member
  row,        \* Device row of each member: the cached version and HA state
  first,      \* the member whose progress says ha_member = "passive"
  at, on,     \* where the drive is
  msgs,       \* drive_pair messages waiting in the queue
  dev,        \* the firewalls themselves
  clicks,     \* gate clicks accepted so far
  retries     \* retries accepted so far

vars == <<job, policy, rest, task, row, first, at, on, msgs, dev, clicks, retries>>
operVars == <<policy, rest, clicks, retries>>

(* A token that is not "rerun" is a go-ahead: the code stores a random      *)
(* string, the model the gate at which the operator clicked.  `told` is set *)
(* when the timeline asks the operator to resume a member.                  *)
Tokens == {"", "rerun"} \cup AwaitConfirm \cup AwaitOverride
Tasks == [Members -> [phase : Phases, token : Tokens,
                      marks : SUBSET Markers, told : BOOLEAN]]
Rows == [Members -> [ver : Versions, ha : HaStates \cup {"unknown"}]]
Devices == [Members -> [up : BOOLEAN, ver : Versions, ha : HaStates,
                        inst : {"none", "running", "ok", "bad"}]]

(* The type invariant: every variable keeps to the values the code gives it. *)
TypeOK ==
  /\ job \in JobStates
  /\ policy \in Policy
  /\ rest \in RestStates
  /\ task \in Tasks
  /\ row \in Rows
  /\ first \in Members \cup {NoMember}
  /\ at \in Steps
  /\ on \in Members
  /\ msgs \in 0..MaxMsgs
  /\ dev \in Devices
  /\ clicks \in 0..MaxClicks
  /\ retries \in 0..MaxRetries

(* A job freshly created over a pair that runs the old version.  The rows  *)
(* are what the last sync or probe read, the HA roles settled.             *)
Init ==
  /\ job = "PENDING"
  /\ policy \in Policies
  /\ rest \in RestStarts
  /\ task = [m \in Members |->
               [phase |-> "PENDING", token |-> "", marks |-> {}, told |-> FALSE]]
  /\ \E ha \in HaStarts :
        /\ dev = [m \in Members |->
                    [up |-> TRUE, ver |-> "old", ha |-> ha[m], inst |-> "none"]]
        /\ row = [m \in Members |-> [ver |-> "old", ha |-> ha[m]]]
  /\ first = NoMember
  /\ at = "idle" /\ on = A
  /\ msgs = 0 /\ clicks = 0 /\ retries = 0

-------------------------------------------------------------------------------
(* Small state functions of the code.                                       *)

Done(m, k) == k \in task[m].marks
AtTarget(m) == row[m].ver = "target"
HealthyIfKnown(s) == s # "unknown"                     (* mutant of Healthy *)
Healthy(s) == s \in {"active", "passive"}
Staging == policy.mode \in {"stage_only", "hold"}
Second == Other(first)
Ended == job \in JobEnded

Queued == IF msgs < MaxMsgs THEN msgs + 1 ELSE msgs
Goto(s, m) == at' = s /\ on' = m
Return == Goto("finish", A)

Marked(t, m, K) == [t EXCEPT ![m].marks = @ \cup K]
Unmarked(t, m, K) == [t EXCEPT ![m].marks = @ \ K]
InPhase(t, m, p) == [t EXCEPT ![m].phase = p]
ConsumedLater(t, M) == t                               (* mutant of Consumed *)
Consumed(t, M) == [m \in Members |-> IF m \in M THEN [t[m] EXCEPT !.token = ""] ELSE t[m]]
BothInPhase(t, p) == [m \in Members |-> [t[m] EXCEPT !.phase = p]]

(* A phase function records FAILED on its task and returns False.           *)
FailAs(t, m) == task' = InPhase(t, m, "FAILED") /\ Return
FailBoth(t) == task' = BothInPhase(t, "FAILED") /\ Return

(* A wait that is not over parks: the drive ends and is dispatched again.   *)
Park(t) == task' = t /\ msgs' = Queued /\ Return

(* What a read of a firewall's HA state may return: a daemon that is still  *)
(* starting may answer with no state at all.                                *)
Reads(m) == {dev[m].ha} \cup (IF dev[m].ha = "initial" THEN {"unknown"} ELSE {})
Refreshed(m, s) == [row EXCEPT ![m] = [ver |-> dev[m].ver, ha |-> s]]
MayRefresh(m) == IF dev[m].up THEN \E s \in Reads(m) : row' = Refreshed(m, s)
                 ELSE UNCHANGED row

(* The commands, as the firewalls carry them out.  The peer takes over the  *)
(* service a member gives up.                                               *)
HandOver(m) ==
  IF dev[m].ha = "active" /\ dev[Other(m)].up /\ dev[Other(m)].ha = "passive"
    THEN [dev EXCEPT ![Other(m)].ha = "active"] ELSE dev
Suspended(m) == [HandOver(m) EXCEPT ![m].ha = "suspended"]
Resumed(m) == IF dev[m].ha = "suspended" THEN [dev EXCEPT ![m].ha = "initial"] ELSE dev
Installing(m) == [dev EXCEPT ![m].inst = "running"]
Restarted(m) ==
  [HandOver(m) EXCEPT ![m] =
     [up |-> FALSE, ver |-> @.ver, inst |-> @.inst,
      ha |-> IF @.ha = "suspended" THEN "suspended" ELSE "initial"]]

-------------------------------------------------------------------------------
(* The drive: entry, classification, checks and staging.                    *)

(* The markers of m after reconcile_markers_with_device_state: what it does *)
(* not know better it takes from the row.                                   *)
Reconciled(m) ==
  LET done    == task[m].marks
      handles == {"install_issued", "reboot_issued"}
      ahead   == AtTarget(m) /\ "install_complete" \notin done
      lies    == dev[m].up /\ ~AtTarget(m) /\ "install_complete" \in done
      relapse == /\ dev[m].up /\ row[m].ha \in {"suspended", "initial"}
                 /\ "ha_resume_complete" \in done
      added   == (IF ahead THEN {"install_complete", "ensure_image"} ELSE {})
                   \cup (IF Healthy(row[m].ha) THEN {"ha_resume_complete"} ELSE {})
                   \cup (IF row[m].ha = "suspended" THEN {"suspend_ha"} ELSE {})
      dropped == (IF ahead \/ lies THEN handles ELSE {})
                   \cup (IF lies THEN {"install_complete", "software_installed"} ELSE {})
                   \cup (IF relapse THEN {"ha_resume_complete", "ha_resumed"} ELSE {})
  IN (done \ dropped) \cup added

(* A worker takes a message and the pair's lock; a job that ended only gets *)
(* its members resumed.                                                     *)
Begin ==
  /\ at = "idle" /\ msgs > 0
  /\ msgs' = msgs - 1
  /\ task' = [m \in Members |->
                [task[m] EXCEPT !.told = FALSE,
                                !.marks = IF Ended THEN @ ELSE Reconciled(m)]]
  /\ Goto(IF Ended THEN "cleanup" ELSE "classify", A)
  /\ UNCHANGED <<job, row, first, dev, operVars>>

(* The pair's lock is held: the message is a no-op.                         *)
DropDuplicate ==
  /\ at # "idle" /\ msgs > 0
  /\ msgs' = msgs - 1
  /\ UNCHANGED <<job, task, row, first, at, on, dev, operVars>>

Passive == {m \in Members : row[m].ha = "passive" /\ row[Other(m)].ha = "active"}

(* The member to upgrade first, fixed by the first drive that finds one.    *)
Classify ==
  /\ at = "classify"
  /\ first' \in IF first = NoMember THEN Passive ELSE {first}
  /\ Goto("precheck", first')
  /\ UNCHANGED <<job, task, row, msgs, dev, operVars>>

(* No clean passive and active: resume the members whose row is suspended   *)
(* and give up (the probe that follows the resume is lost, so the second    *)
(* classification sees the same rows).                                      *)
RolesUnclear ==
  /\ at = "classify" /\ first = NoMember /\ Passive = {}
  /\ LET asleep == {m \in Members : row[m].ha = "suspended"} IN
     \E woken \in SUBSET {m \in asleep : dev[m].up} :
       /\ ~RefuseOn => woken = {m \in asleep : dev[m].up}
       /\ dev' = [m \in Members |-> IF m \in woken THEN Resumed(m)[m] ELSE dev[m]]
       /\ FailBoth([m \in Members |->
                      [task[m] EXCEPT !.told = @ \/ m \in asleep \ woken]])
  /\ UNCHANGED <<job, row, first, msgs, operVars>>

(* The checks: _phase_precheck of the two members before anything else, and *)
(* _phase_postcheck of a member after its upgrade.                          *)
InCheck == at \in {"precheck", "postcheck"}
CheckParking == IF at = "precheck" THEN "AWAITING_PRECHECK_OVERRIDE"
                ELSE "AWAITING_POSTCHECK_OVERRIDE"
CheckParked == task[on].phase = CheckParking
Informational == at = "precheck" /\ Staging
Acknowledged == Informational \/ (IF at = "precheck" THEN policy.ackPre ELSE policy.ackPost)
Answer == IF Ended THEN "" ELSE task[on].token

(* Mutants of AfterCheck: the second member's precheck is left out; the     *)
(* failover is left out; the second member is left out.                     *)
AfterFirstCheck ==
  IF at = "precheck" THEN Goto("early", first)
    ELSE IF on = first THEN Goto("failoverGate", first) ELSE Goto("failback", first)
AfterCheckNoFailover ==
  IF at = "precheck"
    THEN IF on = first THEN Goto("precheck", Second) ELSE Goto("early", first)
    ELSE IF on = first THEN Goto("primaryGate", Second) ELSE Goto("failback", first)
AfterCheckAlone ==
  IF at = "precheck"
    THEN IF on = first THEN Goto("precheck", Second) ELSE Goto("early", first)
    ELSE Goto("failback", first)
AfterCheck ==
  IF at = "precheck"
    THEN IF on = first THEN Goto("precheck", Second) ELSE Goto("early", first)
    ELSE IF on = first THEN Goto("failoverGate", first) ELSE Goto("failback", first)

CheckSkip ==
  /\ InCheck /\ Done(on, at)
  /\ AfterCheck
  /\ UNCHANGED <<job, task, row, first, msgs, dev, operVars>>

(* The drive comes back to a parked check: no answer yet (or the job ended) *)
(* leaves it parked, an override passes it.                                 *)
CheckOverride ==
  /\ InCheck /\ ~Done(on, at) /\ CheckParked
  /\ \/ Answer = "" /\ Return /\ UNCHANGED task
     \/ /\ Answer \notin {"", "rerun"} /\ AfterCheck
        /\ task' = Marked(Consumed(task, {on}), on, {at})
  /\ UNCHANGED <<job, row, first, msgs, dev, operVars>>

MayRun == InCheck /\ ~Done(on, at) /\ (CheckParked => Answer = "rerun")
Unparked == InPhase(IF CheckParked THEN Consumed(task, {on}) ELSE task, on, "BUSY")

(* The check is made: it passes, or fails and was acknowledged in advance,  *)
(* or fails and parks the member for the operator.                          *)
RunCheck ==
  /\ MayRun
  /\ MayRefresh(on)
  /\ \/ task' = Marked(Unparked, on, {at}) /\ AfterCheck
     \/ ~Acknowledged /\ task' = InPhase(Unparked, on, CheckParking) /\ Return
  /\ UNCHANGED <<job, first, msgs, dev, operVars>>

(* A check that cannot be made fails the member, unless it only informs.    *)
CheckRaises ==
  /\ CrashOn /\ MayRun
  /\ IF Informational
       THEN task' = Marked(Unparked, on, {at}) /\ AfterCheck
       ELSE FailAs(Unparked, on)
  /\ UNCHANGED <<job, row, first, msgs, dev, operVars>>

(* The snapshots, then the early exit: both rows at the target and healthy. *)
Early ==
  /\ at = "early"
  /\ LET t == [m \in Members |->
                 IF Done(m, "snapshot") THEN task[m]
                 ELSE [task[m] EXCEPT !.phase = "BUSY", !.marks = @ \cup {"snapshot"}]]
     IN IF \A m \in Members : AtTarget(m) /\ Healthy(row[m].ha)
          THEN task' = BothInPhase(t, "DONE") /\ Return
          ELSE task' = t /\ Goto("image", first)
  /\ UNCHANGED <<job, row, first, msgs, dev, operVars>>

AfterImage == IF on = first THEN Goto("image", Second) ELSE Goto("staged", first)

EnsureImage ==
  /\ at = "image"
  /\ \/ /\ Done(on, "ensure_image") /\ AfterImage
        /\ UNCHANGED <<task, msgs>>
     \/ /\ ~Done(on, "ensure_image") /\ AfterImage
        /\ task' = Marked(IF AtTarget(on) THEN task ELSE InPhase(task, on, "BUSY"),
                          on, {"ensure_image"})
        /\ UNCHANGED msgs
     \/ /\ ~Done(on, "ensure_image") /\ ~AtTarget(on)
        /\ Park(InPhase(task, on, "BUSY"))
     \/ /\ ~Done(on, "ensure_image") /\ ~AtTarget(on)
        /\ FailAs(task, on) /\ UNCHANGED msgs
  /\ UNCHANGED <<job, row, first, dev, operVars>>

(* Mutant of Staged: a stage-only job goes on.                              *)
StagedOnward ==
  /\ at = "staged" /\ Goto("hold", first)
  /\ UNCHANGED <<job, task, row, first, msgs, dev, operVars>>

(* A stage-only job stops here.                                             *)
Staged ==
  /\ at = "staged"
  /\ IF policy.mode = "stage_only"
       THEN task' = BothInPhase(task, "DONE") /\ Return
       ELSE Goto("hold", first) /\ UNCHANGED task
  /\ UNCHANGED <<job, row, first, msgs, dev, operVars>>

(* Stage and hold: both members park, a token of either lets them go.       *)
HoldGate ==
  /\ at = "hold"
  /\ \/ /\ policy.mode # "hold" \/ Done(first, "install_confirmed")
        /\ Goto("suspend", first) /\ UNCHANGED task
     \/ /\ policy.mode = "hold" /\ ~Done(first, "install_confirmed")
        /\ IF \E m \in Members : task[m].token # ""
             THEN /\ task' = Marked(Consumed(task, Members), first, {"install_confirmed"})
                  /\ Goto("suspend", first)
             ELSE /\ task' = BothInPhase(task, "AWAITING_INSTALL_CONFIRM")
                  /\ Return
  /\ UNCHANGED <<job, row, first, msgs, dev, operVars>>

(* The other three gates: _confirm_gate on member m, on to step `next` of   *)
(* member n.                                                                *)
Gate(m, marker, parking, next, n) ==
  \/ Done(m, marker) /\ Goto(next, n) /\ UNCHANGED task
  \/ /\ ~Done(m, marker)
     /\ IF task[m].token # ""
          THEN task' = Marked(Consumed(task, {m}), m, {marker}) /\ Goto(next, n)
          ELSE task' = InPhase(task, m, parking) /\ Return

-------------------------------------------------------------------------------
(* The drive: the upgrade of one member.                                    *)

(* When a step sends its command to the firewall.                           *)
MustSuspend(m) == ~Done(m, "suspend_ha") /\ ~AtTarget(m)
(* Mutant of InstallNeeded: an installed image counts as a running one.     *)
InstallNeededOnce(m) ==
  ~AtTarget(m) /\ task[m].marks \cap {"install_complete", "software_installed"} = {}
InstallNeeded(m) == ~Done(m, "install_complete") /\ ~AtTarget(m)
MustInstall(m) == /\ InstallNeeded(m)
                  /\ ~Done(m, "software_installed") /\ ~Done(m, "install_issued")

SuspendHa ==
  /\ at = "suspend"
  /\ \/ /\ ~MustSuspend(on)
        /\ task' = Marked(InPhase(task, on, "BUSY"), on, {"suspend_ha"})
        /\ Goto("install", on) /\ UNCHANGED dev
     \/ /\ MustSuspend(on) /\ dev[on].up
        /\ dev' = Suspended(on)
        /\ task' = Marked(InPhase(task, on, "BUSY"), on, {"suspend_ha"})
        /\ Goto("install", on)
     \/ /\ MustSuspend(on) /\ (~dev[on].up \/ RefuseOn)
        /\ FailAs(task, on) /\ UNCHANGED dev
  /\ UNCHANGED <<job, row, first, msgs, operVars>>

InstallSkip ==
  /\ at = "install"
  /\ \/ /\ ~InstallNeeded(on)
        /\ task' = Marked(task, on, {"install_complete"}) /\ Goto("resume", on)
     \/ /\ InstallNeeded(on) /\ Done(on, "software_installed")
        /\ task' = InPhase(task, on, "BUSY") /\ Goto("rebootGate", on)
     \/ /\ InstallNeeded(on) /\ ~Done(on, "software_installed")
        /\ Done(on, "install_issued")
        /\ task' = InPhase(task, on, "BUSY") /\ Goto("poll", on)
  /\ UNCHANGED <<job, row, first, msgs, dev, operVars>>

(* The install is requested once; a device busy with another install is     *)
(* asked again later, any other refusal fails the member.                   *)
InstallRequest ==
  /\ at = "install" /\ MustInstall(on)
  /\ \/ /\ dev[on].up /\ dev[on].inst # "running"
        /\ dev' = Installing(on)
        /\ task' = Marked(InPhase(task, on, "BUSY"), on, {"install_issued"})
        /\ Goto("poll", on) /\ UNCHANGED msgs
     \/ /\ dev[on].inst = "running" /\ Park(InPhase(task, on, "BUSY")) /\ UNCHANGED dev
     \/ FailAs(task, on) /\ UNCHANGED <<dev, msgs>>
  /\ UNCHANGED <<job, row, first, operVars>>

(* One look at the install job: over and well, over and failed, gone, or    *)
(* still running.  A timeout keeps the handle, the other failures drop it.  *)
InstallPoll ==
  /\ at = "poll"
  /\ LET answers == dev[on].up
         dropped == Unmarked(task, on, {"install_issued"})
     IN \/ /\ answers /\ dev[on].inst = "ok"
           /\ task' = Marked(dropped, on, {"software_installed"})
           /\ Goto("rebootGate", on) /\ UNCHANGED msgs
        \/ /\ answers /\ dev[on].inst = "bad"
           /\ FailAs(dropped, on) /\ UNCHANGED msgs
        \/ /\ ~answers \/ dev[on].inst = "none"
           /\ FailAs(dropped, on) /\ UNCHANGED msgs
        \/ /\ ~answers \/ dev[on].inst \in {"none", "running"}
           /\ Park(task) \/ (FailAs(task, on) /\ UNCHANGED msgs)
  /\ UNCHANGED <<job, row, first, dev, operVars>>

RebootGate ==
  /\ at = "rebootGate"
  /\ IF policy.autoReboot THEN Goto("reboot", on) /\ UNCHANGED task
     ELSE Gate(on, "reboot_confirmed", "AWAITING_REBOOT_CONFIRM", "reboot", on)
  /\ UNCHANGED <<job, row, first, msgs, dev, operVars>>

(* The restart is issued once.                                              *)
Reboot ==
  /\ at = "reboot"
  /\ \/ /\ Done(on, "reboot_issued")
        /\ task' = InPhase(task, on, "BUSY") /\ Goto("boot", on)
        /\ UNCHANGED dev
     \/ /\ ~Done(on, "reboot_issued") /\ dev[on].up
        /\ dev' = Restarted(on)
        /\ task' = Marked(InPhase(task, on, "BUSY"), on, {"reboot_issued"})
        /\ Goto("boot", on)
     \/ /\ ~Done(on, "reboot_issued") /\ FailAs(task, on) /\ UNCHANGED dev
  /\ UNCHANGED <<job, row, first, msgs, operVars>>

(* One look at the rebooting member.  Up on the target: the row is probed   *)
(* and verified; the probe itself may fail and leave the old row.  Not yet: *)
(* park, or fail when it timed out or came back on the old image.           *)
RebootWait ==
  /\ at = "boot"
  /\ \/ /\ dev[on].up /\ dev[on].ver = "target"
        /\ MayRefresh(on) \/ UNCHANGED row
        /\ IF row'[on].ver = "target"
             THEN /\ task' = Marked(Unmarked(task, on, {"reboot_issued"}),
                                    on, {"install_complete"})
                  /\ Goto("resume", on)
             ELSE FailAs(Unmarked(task, on, {"software_installed"}), on)
        /\ UNCHANGED msgs
     \/ Park(task) /\ UNCHANGED row
     \/ FailAs(task, on) /\ UNCHANGED <<row, msgs>>
  /\ UNCHANGED <<job, first, dev, operVars>>

(* Back in HA: skipped when the marker says so; otherwise, once the daemon  *)
(* is there, the resume is issued and must be seen to move the member.      *)
ResumeHa ==
  /\ at = "resume"
  /\ \/ /\ Done(on, "ha_resume_complete")
        /\ Goto("postcheck", on) /\ UNCHANGED <<task, dev>>
     \/ /\ ~Done(on, "ha_resume_complete") /\ Done(on, "ha_resumed")
        /\ Goto("settle", on) /\ UNCHANGED <<task, dev>>
     \/ /\ ~Done(on, "ha_resume_complete") /\ ~Done(on, "ha_resumed")
        /\ dev[on].up /\ dev[on].ha # "initial"
        /\ dev' = Resumed(on)
        /\ task' = Marked(task, on, {"ha_resumed"})
        /\ Goto("settle", on)
     \/ /\ ~Done(on, "ha_resume_complete") /\ ~Done(on, "ha_resumed")
        /\ ~dev[on].up \/ dev[on].ha = "initial" \/ RefuseOn
        /\ FailAs(task, on) /\ UNCHANGED dev
  /\ UNCHANGED <<job, row, first, msgs, operVars>>

(* One look at the member's HA state; passive ends the wait.  The message   *)
(* of a timeout reads the peer too.                                         *)
PassiveWait ==
  /\ at = "settle"
  /\ LET seen == IF dev[on].up THEN {[row EXCEPT ![on].ha = s] : s \in Reads(on)}
                 ELSE {row} IN
     \/ /\ dev[on].up /\ dev[on].ha = "passive"
        /\ row' \in seen
        /\ task' = Marked(Unmarked(task, on, {"ha_resumed"}), on, {"ha_resume_complete"})
        /\ Goto("postcheck", on) /\ UNCHANGED msgs
     \/ /\ ~(dev[on].up /\ dev[on].ha = "passive")
        /\ row' \in seen /\ Park(task)
     \/ /\ ~(dev[on].up /\ dev[on].ha = "passive")
        /\ \E r \in seen : row' \in
             IF dev[Other(on)].up
               THEN {[r EXCEPT ![Other(on)] = [ver |-> dev[Other(on)].ver, ha |-> s]] :
                       s \in Reads(Other(on))}
               ELSE {r}
        /\ FailAs(task, on) /\ UNCHANGED msgs
  /\ UNCHANGED <<job, first, dev, operVars>>

-------------------------------------------------------------------------------
(* The drive: failover, the end of the pair and the end of the drive.       *)

FailoverGate ==
  /\ at = "failoverGate"
  /\ IF policy.gateFailover
       THEN Gate(first, "failover_confirmed", "AWAITING_FAILOVER_CONFIRM", "failover", first)
       ELSE Goto("failover", first) /\ UNCHANGED task
  /\ UNCHANGED <<job, row, first, msgs, dev, operVars>>

(* The upgraded member is read again, and only if it can take over is the   *)
(* other one suspended.                                                     *)
Failover ==
  /\ at = "failover"
  /\ LET t == InPhase(task, first, "BUSY") IN
     \/ /\ Done(first, "failover")
        /\ task' = t /\ Goto("primaryGate", Second) /\ UNCHANGED <<row, dev>>
     \/ /\ ~Done(first, "failover") /\ ~dev[first].up
        /\ FailAs(t, first) /\ UNCHANGED <<row, dev>>
     \/ /\ ~Done(first, "failover") /\ dev[first].up
        /\ \E s \in Reads(first) :
             /\ row' = Refreshed(first, s)
             /\ \/ /\ Healthy(s) /\ dev[Second].up
                   /\ dev' = Suspended(Second)
                   /\ task' = Marked(t, first, {"failover"})
                   /\ Goto("primaryGate", Second)
                \/ /\ Healthy(s) /\ (~dev[Second].up \/ RefuseOn)
                   /\ FailAs(t, first) /\ UNCHANGED dev
                \/ ~Healthy(s) /\ FailBoth(t) /\ UNCHANGED dev
  /\ UNCHANGED <<job, first, msgs, operVars>>

PrimaryGate ==
  /\ at = "primaryGate"
  /\ IF policy.gatePrimary
       THEN Gate(on, "primary_upgrade_confirmed", "AWAITING_PRIMARY_UPGRADE_CONFIRM",
                 "suspend", on)
       ELSE Goto("suspend", on) /\ UNCHANGED task
  /\ UNCHANGED <<job, row, first, msgs, dev, operVars>>

(* Both members are upgraded.  The failback suspends the first one; that it *)
(* fails changes nothing.                                                   *)
Complete ==
  /\ at = "failback"
  /\ \/ policy.failback /\ dev[first].up /\ dev' = Suspended(first)
     \/ (policy.failback => ~dev[first].up \/ RefuseOn) /\ UNCHANGED dev
  /\ task' = BothInPhase(task, "DONE") /\ Return
  /\ UNCHANGED <<job, row, first, msgs, operVars>>

Failing(t) == \E m \in Members : t[m].phase = "FAILED"
FailedOpen(t) ==
  [m \in Members |-> IF t[m].phase \in {"DONE", "FAILED"} THEN t[m]
                     ELSE [t[m] EXCEPT !.phase = "FAILED"]]

(* Mutant of Finish: only an abort resumes the suspended members.           *)
FinishUnhealed ==
  /\ at = "finish"
  /\ task' = IF Failing(task) THEN FailedOpen(task) ELSE task
  /\ Goto(IF job = "ABORTED" THEN "heal" ELSE "close", A)
  /\ UNCHANGED <<job, row, first, msgs, dev, operVars>>

(* The pair fails as a whole; a failed pair and an aborted job have their   *)
(* suspended members resumed.                                               *)
Finish ==
  /\ at = "finish"
  /\ task' = IF Failing(task) THEN FailedOpen(task) ELSE task
  /\ Goto(IF job = "ABORTED" \/ Failing(task) THEN "heal" ELSE "close", A)
  /\ UNCHANGED <<job, row, first, msgs, dev, operVars>>

(* The effect on the firewalls of the command the current step is about to  *)
(* send.                                                                    *)
Calls ==
  (IF at = "suspend" /\ MustSuspend(on) /\ dev[on].up THEN {Suspended(on)} ELSE {})
  \cup (IF at = "install" /\ MustInstall(on) /\ dev[on].up /\ dev[on].inst # "running"
          THEN {Installing(on)} ELSE {})
  \cup (IF at = "reboot" /\ ~Done(on, "reboot_issued") /\ dev[on].up
          THEN {Restarted(on)} ELSE {})
  \cup (IF at = "failover" /\ ~Done(first, "failover") /\ dev[first].up
             /\ Healthy(dev[first].ha) /\ dev[Second].up
          THEN {Suspended(Second)} ELSE {})

(* An exception in the drive, the soft time limit for one, fails what it    *)
(* left open.  The failover waits a minute between its command and the      *)
(* commit of its marker, so the exception may come in between.              *)
Crash ==
  /\ CrashOn /\ at \notin {"idle", "heal", "cleanup", "close"}
  /\ dev' \in {dev} \cup (IF at = "failover" THEN Calls ELSE {})
  /\ task' = FailedOpen(task)
  /\ Goto("heal", A)
  /\ UNCHANGED <<job, row, first, msgs, operVars>>

(* One member is resumed if this job suspended it or its row says so; when  *)
(* that cannot be confirmed the operator is told.                           *)
Heal ==
  /\ at \in {"heal", "cleanup"}
  /\ LET acts == Done(on, "suspend_ha") \/ row[on].ha = "suspended" IN
     \/ ~acts /\ UNCHANGED <<dev, task>>
     \/ acts /\ dev[on].up /\ dev' = Resumed(on) /\ UNCHANGED task
     \/ /\ acts /\ (~dev[on].up \/ RefuseOn)
        /\ task' = [task EXCEPT ![on].told = TRUE] /\ UNCHANGED dev
  /\ IF on = A THEN Goto(at, B) ELSE Goto(IF at = "heal" THEN "close" ELSE "idle", A)
  /\ UNCHANGED <<job, row, first, msgs, operVars>>

(* _maybe_mark_job_done: the state of the job once no device is open.       *)
JobAfter(j, t, r) ==
  LET over(p)  == \A m \in Members : t[m].phase = p
      open     == r = "running" \/ \E m \in Members : t[m].phase \notin {"DONE", "FAILED"}
  IN IF j \in JobEnded \/ open THEN j
     ELSE IF over("DONE") /\ r # "failed" THEN "COMPLETED"
     ELSE IF over("FAILED") /\ r # "done" THEN "FAILED"
     ELSE "COMPLETED_WITH_ERRORS"

Close ==
  /\ at = "close"
  /\ job' = JobAfter(job, task, rest)
  /\ Goto("idle", A)
  /\ UNCHANGED <<task, row, first, msgs, dev, operVars>>

(* The worker is killed, possibly between a command to the firewall and the *)
(* commit of its marker.  The message is delivered again, or is lost to the *)
(* pair's lock when the redelivery comes before the lock expires.           *)
Kill ==
  /\ policy \in Killable /\ at # "idle"
  /\ dev' \in {dev} \cup Calls
  /\ msgs' \in {msgs, Queued}
  /\ Goto("idle", A)
  /\ UNCHANGED <<job, task, row, first, operVars>>

-------------------------------------------------------------------------------
(* The operator.                                                            *)

driveVars == <<row, first, at, on, dev>>

Start ==
  /\ job = "PENDING"
  /\ job' = "RUNNING" /\ msgs' = Queued
  /\ UNCHANGED <<task, driveVars, operVars>>

(* A click at a gate leaves its token on the task and wakes the pair.       *)
Click(m, token) ==
  /\ ~Ended /\ clicks < MaxClicks
  /\ clicks' = clicks + 1
  /\ task' = [task EXCEPT ![m].token = token]
  /\ msgs' = Queued
  /\ UNCHANGED <<job, policy, rest, retries, driveVars>>

Confirm(m) == task[m].phase \in AwaitConfirm /\ Click(m, task[m].phase)
Override(m) == task[m].phase \in AwaitOverride /\ Click(m, task[m].phase)
Rerun(m) == task[m].phase \in AwaitOverride /\ Click(m, "rerun")

(* Anything but a member that is done or parked at a gate may be retried,   *)
(* and the job is open again.                                               *)
Retry(m) ==
  /\ job \notin {"COMPLETED", "ABORTED"} /\ retries < MaxRetries
  /\ task[m].phase \notin {"DONE"} \cup AwaitConfirm \cup AwaitOverride
  /\ retries' = retries + 1
  /\ task' = InPhase(task, m, "PENDING")
  /\ job' = IF job \in {"FAILED", "COMPLETED_WITH_ERRORS"} THEN "RUNNING" ELSE job
  /\ msgs' = Queued
  /\ UNCHANGED <<policy, rest, clicks, driveVars>>

Abort ==
  /\ AbortOn /\ ~Ended
  /\ job' = "ABORTED" /\ msgs' = Queued
  /\ UNCHANGED <<task, driveVars, operVars>>

-------------------------------------------------------------------------------
(* The rest of the system.                                                  *)

others == <<policy, first, at, on, msgs, clicks, retries, task>>

(* The job's other devices reach their end, and their drive closes the job. *)
RestEnds ==
  /\ rest = "running" /\ job # "PENDING"
  /\ rest' \in {"done", "failed"}
  /\ job' = JobAfter(job, task, rest')
  /\ UNCHANGED <<others, row, dev>>

(* Panorama's sync rewrites the row of a connected device.                  *)
Sync(m) ==
  /\ SyncOn /\ dev[m].up
  /\ MayRefresh(m)
  /\ UNCHANGED <<others, job, rest, dev>>

InstallEnds(m) ==
  /\ dev[m].up /\ dev[m].inst = "running"
  /\ \E r \in {"ok", "bad"} : dev' = [dev EXCEPT ![m].inst = r]
  /\ UNCHANGED <<others, job, rest, row>>

(* A restarted firewall comes back on the image it installed, or on the one *)
(* it had; a suspended one may come back suspended or not.                  *)
Boot(m) ==
  /\ ~dev[m].up
  /\ \E v \in IF dev[m].inst = "ok" THEN {"target", dev[m].ver} ELSE {dev[m].ver} :
     \E h \in {dev[m].ha, "initial"} :
       dev' = [dev EXCEPT ![m] = [up |-> TRUE, ver |-> v, ha |-> h, inst |-> "none"]]
  /\ UNCHANGED <<others, job, rest, row>>

(* HA settles: a member joins the active one, or serves when none does.     *)
SettleHa(m) ==
  /\ dev[m].up /\ dev[m].ha = "initial"
  /\ dev' = [dev EXCEPT ![m].ha =
                IF dev[Other(m)].up /\ dev[Other(m)].ha = "active" THEN "passive"
                ELSE "active"]
  /\ UNCHANGED <<others, job, rest, row>>

-------------------------------------------------------------------------------
Drive ==
  \/ Begin \/ DropDuplicate \/ Classify \/ RolesUnclear
  \/ CheckSkip \/ CheckOverride \/ RunCheck \/ CheckRaises
  \/ Early \/ EnsureImage \/ Staged \/ HoldGate
  \/ SuspendHa \/ InstallSkip \/ InstallRequest \/ InstallPoll
  \/ RebootGate \/ Reboot \/ RebootWait \/ ResumeHa \/ PassiveWait
  \/ FailoverGate \/ Failover \/ PrimaryGate \/ Complete
  \/ Finish \/ Heal \/ Close \/ Crash \/ Kill

Operator ==
  \/ Start \/ Abort
  \/ \E m \in Members : Confirm(m) \/ Override(m) \/ Rerun(m) \/ Retry(m)

World ==
  \/ RestEnds
  \/ \E m \in Members : Sync(m) \/ InstallEnds(m) \/ Boot(m) \/ SettleHa(m)

Next == Drive \/ Operator \/ World

Spec == Init /\ [][Next]_vars

-------------------------------------------------------------------------------
(* What holds.                                                              *)

(* One member of the pair serves at any moment: no command the orchestrator *)
(* sends, in any order of failures, retries and kills, takes both out       *)
(* (_phase_failover's safety check, and the order of _drive_ha_pair).       *)
ServiceContinuity == \E m \in Members : dev[m].up /\ dev[m].ha = "active"

(* Nor do kills, aborts, the gates and the overrides, in a job that does not *)
(* fail back: the failback alone suspends a serving member unchecked.       *)
FailbackOrService == policy.failback \/ ServiceContinuity

(* Until the failover is recorded, no install and no restart reaches the    *)
(* member that was active: "never break both members at once"               *)
(* (_format_passive_timeout_message).                                       *)
ActiveUntouched ==
  first # NoMember /\ ~Done(first, "failover") =>
    dev[Second].up /\ dev[Second].ver = "old" /\ dev[Second].inst = "none"

(* Once an install or a restart reached the second member, the first one    *)
(* runs the target: a failed first upgrade is never repeated on the second. *)
Touched(m) == ~dev[m].up \/ dev[m].ver = "target" \/ dev[m].inst # "none"
SecondAfterFirst ==
  first # NoMember /\ Touched(Second) => dev[first].ver = "target"

(* A member reported DONE really runs the target image, whatever was        *)
(* skipped by markers on the way.                                           *)
DoneMeansUpgraded ==
  \A m \in Members : task[m].phase = "DONE" /\ policy.mode # "stage_only" =>
    dev[m].ver = "target"

(* However the pair ends, the member upgraded first (or a pair that never   *)
(* got classified) is not left suspended, unless the operator was told to   *)
(* resume it (_heal_suspended_members).                                     *)
FirstRejoins ==
  at = "idle" =>
    \A m \in Members :
      (first = NoMember \/ m = first) /\ task[m].phase \in {"DONE", "FAILED"} =>
        dev[m].ha # "suspended" \/ task[m].told

(* Every gate passed was paid for by one click of the operator: a token is  *)
(* used once, however many dispatches find it (_confirm_gate).              *)
OneClickOneGate ==
  Cardinality({g \in Members \X GateMarkers : Done(g[1], g[2])}) <= clicks

(* No firewall of the pair is touched before the prechecks of BOTH members  *)
(* passed or were overridden: "If either fails precheck, don't proceed".    *)
CheckedBeforeTouched ==
  (\E m \in Members : Touched(m) \/ dev[m].ha = "suspended") =>
    \A m \in Members : Done(m, "precheck")

(* Staging touches neither member: no install, no restart, no suspend, even *)
(* when the staging drive fails or crashes (_pre_stage_stop and             *)
(* _pre_stage_hold_gate).                                                   *)
StagingTouchesNothing ==
  \/ policy.mode = "stage_only"
  \/ policy.mode = "hold" /\ \A m \in Members : ~Done(m, "install_confirmed")
  => \A m \in Members : ~Touched(m) /\ dev[m].ha # "suspended"

(* The drive implements the abstract rolling upgrade of the pair.           *)
Away == {m \in Members : ~dev[m].up \/ dev[m].ha \in {"suspended", "initial"}}
Servers == {m \in Members : dev[m].up /\ dev[m].ha = "active"}
Rolling == INSTANCE RollingUpgrade WITH
             lead <- first,
             version <- [m \in Members |-> dev[m].ver],
             away <- Away,
             serving <- IF Servers = {} THEN NoMember ELSE CHOOSE m \in Servers : TRUE
ImplementsRolling == Rolling!Spec

-------------------------------------------------------------------------------
(* What the repository says and the code does not do.                       *)

(* "aborting never strands a cluster degraded on a single node" (abort_job):*)
(* once the drive of an aborted job has healed the pair, a member still     *)
(* suspended is at least reported.  The member suspended by the failover    *)
(* has no suspend_ha marker and its row still says active.                  *)
AbortHeals ==
  [][at = "cleanup" /\ at' = "idle" =>
       \A m \in Members : dev'[m].ha # "suspended" \/ task'[m].told]_vars
===============================================================================
