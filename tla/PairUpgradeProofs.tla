-------------------------- MODULE PairUpgradeProofs --------------------------
(***************************************************************************)
(* Proofs about PairUpgrade: the two members are never upgraded in the     *)
(* wrong order, a member that is reported done runs the target image, one  *)
(* member serves throughout, and the drive implements RollingUpgrade.      *)
(*                                                                         *)
(* All of them rest on one inductive invariant, IInv.  A step is looked at *)
(* twice: for its effect on the data (StepOK: which markers, phases, rows  *)
(* and firewalls it may change) and for the step of the drive it leads to  *)
(* (ControlOK).  The service adds ServiceInv, which says where it is, and  *)
(* the refinement DownInv, which says what a firewall that is down claims. *)
(***************************************************************************)
EXTENDS PairUpgrade, TLAPS

(* The steps of the upgrade of one member, and those before a first member *)
(* is chosen.                                                              *)
UpgradeSteps == {"primaryGate", "suspend", "install", "poll", "rebootGate", "reboot",
                 "boot", "resume", "settle", "postcheck"}
RestSteps == {"idle", "classify", "finish", "heal", "close", "cleanup"}

Untouched(m) == dev[m].up /\ dev[m].ver = "old" /\ dev[m].inst = "none"

(* Before a first member is chosen nothing has been touched.               *)
UnchosenInv ==
  first = NoMember => at \in RestSteps /\ \A m \in Members : Untouched(m)

(* The drive works on the second member only after the failover.           *)
SecondInv ==
  first # NoMember /\ on = Second /\ at \in UpgradeSteps => Done(first, "failover")

FailoverInv == \A m \in Members : Done(m, "failover") => m = first

(* The row does not run ahead of the firewall, nor the markers of the row. *)
ImageInv ==
  \A m \in Members :
    /\ AtTarget(m) => dev[m].ver = "target"
    /\ Done(m, "install_complete") \/ Done(m, "failover") => AtTarget(m)

(* Where the drive is past an upgrade, that member's row is at the target. *)
PlaceInv ==
  /\ at \in {"resume", "settle", "postcheck"} => AtTarget(on)
  /\ at \in {"failoverGate", "failover"} => AtTarget(first)
  /\ at = "failback" => \A m \in Members : AtTarget(m)

(* A member is done with the pair, or with staging; none before a first    *)
(* member is chosen.                                                       *)
DoneInv ==
  \A m \in Members : task[m].phase = "DONE" =>
    /\ first # NoMember
    /\ policy.mode = "stage_only" \/ \A n \in Members : dev[n].ver = "target"

(* The inductive invariant.                                                *)
IInv ==
  /\ TypeOK
  /\ UnchosenInv /\ SecondInv /\ FailoverInv /\ ImageInv /\ PlaceInv
  /\ ActiveUntouched /\ DoneInv

-------------------------------------------------------------------------------
(* What a step may do to the tasks, the rows and the firewalls.            *)

(* A marker or phase that claims an upgrade is only added to a member that *)
(* runs the target, the failover marker only by the failover, and that one *)
(* is never removed.                                                       *)
Upgraded(m) == AtTarget(m) \/ row'[m].ver = "target"
FailingOver == at = "failover" /\ at' = "primaryGate"
TrueTasks(t) ==
  /\ t \in Tasks
  /\ \A m \in Members :
       /\ "install_complete" \in t[m].marks => Done(m, "install_complete") \/ Upgraded(m)
       /\ "failover" \in t[m].marks =>
            Done(m, "failover") \/ (m = first /\ Upgraded(m) /\ FailingOver)
       /\ Done(m, "failover") => "failover" \in t[m].marks
       /\ t[m].phase = "DONE" =>
            \/ task[m].phase = "DONE"
            \/ policy.mode = "stage_only" /\ at = "staged"
            \/ \A n \in Members : dev[n].ver = "target"

TrueRows(r) ==
  /\ r \in Rows
  /\ \A m \in Members : r[m].ver = row[m].ver \/ r[m].ver = dev[m].ver

(* The member that is not to be touched yet.                               *)
Guarded(m) == first = NoMember \/ (m = Second /\ ~Done(first, "failover"))

SafeDevices(d) ==
  /\ d \in Devices
  /\ \A m \in Members :
       /\ d[m].ver = dev[m].ver \/ d[m].ver = "target"
       /\ Guarded(m) /\ Untouched(m) => d[m].up /\ d[m].ver = "old" /\ d[m].inst = "none"

StepOK ==
  /\ policy' = policy
  /\ TrueTasks(task') /\ TrueRows(row') /\ SafeDevices(dev')

ControlOK ==
  /\ at' \in Steps /\ on' \in Members
  /\ first' = NoMember => at' \in RestSteps
  /\ SecondInv' /\ PlaceInv'

-------------------------------------------------------------------------------
(* Lemmas about the operators of the model.                                *)

(* The pair is a member and its other one.                                 *)
LEMMA OtherMember ==
  /\ \A m \in Members : Other(m) \in Members /\ Other(m) # m /\ Other(Other(m)) = m
  /\ \A m, n \in Members : m # n => n = Other(m)
  /\ NoMember \notin Members
BY PairAssumption DEF Members, Other

(* Values the steps write.                                                 *)
LEMMA Names ==
  /\ {"PENDING", "FAILED", "BUSY", "DONE", "AWAITING_PRECHECK_OVERRIDE",
      "AWAITING_POSTCHECK_OVERRIDE", "AWAITING_INSTALL_CONFIRM",
      "AWAITING_REBOOT_CONFIRM", "AWAITING_FAILOVER_CONFIRM",
      "AWAITING_PRIMARY_UPGRADE_CONFIRM"} \subseteq Phases
  /\ {"precheck", "postcheck", "ensure_image", "install_confirmed", "suspend_ha",
      "install_issued", "software_installed", "reboot_confirmed", "reboot_issued",
      "ha_resumed", "ha_resume_complete", "failover_confirmed",
      "primary_upgrade_confirmed"} \subseteq Markers \ {"install_complete", "failover"}
  /\ {"install_complete", "failover", "snapshot"} \subseteq Markers
BY DEF Phases, AwaitConfirm, AwaitOverride, Markers

(* The tasks as they stand claim nothing that is not so.                     *)
LEMMA TrueTasksNow ==
  ASSUME TypeOK
  PROVE  TrueTasks(task)
BY DEF TypeOK, TrueTasks, Done

(* Any marker that claims nothing may be added.                            *)
LEMMA MarkedTasks ==
  ASSUME NEW t, TrueTasks(t), NEW m \in Members,
         NEW k \in Markers \ {"install_complete", "failover"}
  PROVE  TrueTasks(Marked(t, m, {k}))
BY DEF TrueTasks, Marked, Tasks

(* A marker that claims an upgrade may be added to a member that runs the  *)
(* target.                                                                 *)
LEMMA ClaimedTasks ==
  ASSUME NEW t, TrueTasks(t), NEW m \in Members, Upgraded(m),
         NEW k \in Markers, k = "failover" => m = first /\ FailingOver
  PROVE  TrueTasks(Marked(t, m, {k}))
BY DEF TrueTasks, Marked, Tasks

(* A marker that was added is there.                                         *)
LEMMA MarkedHas ==
  ASSUME NEW t \in Tasks, NEW m \in Members, NEW k
  PROVE  k \in Marked(t, m, {k})[m].marks
BY DEF Marked, Tasks

(* Any marker but that of the failover may be removed.                       *)
LEMMA UnmarkedTasks ==
  ASSUME NEW t, TrueTasks(t), NEW m \in Members, NEW k, k # "failover"
  PROVE  TrueTasks(Unmarked(t, m, {k}))
BY DEF TrueTasks, Unmarked, Tasks

(* A member may be put in any phase but DONE.                                *)
LEMMA InPhaseTasks ==
  ASSUME NEW t, TrueTasks(t), NEW m \in Members, NEW p \in Phases \ {"DONE"}
  PROVE  TrueTasks(InPhase(t, m, p))
BY DEF TrueTasks, InPhase, Tasks

(* Both members may be put in a phase; in DONE when it is true of both.      *)
LEMMA BothInPhaseTasks ==
  ASSUME NEW t, TrueTasks(t), NEW p \in Phases,
         p = "DONE" => \/ policy.mode = "stage_only" /\ at = "staged"
                       \/ \A m \in Members : dev[m].ver = "target"
  PROVE  TrueTasks(BothInPhase(t, p))
BY DEF TrueTasks, BothInPhase, Tasks

(* Reading the operator's tokens claims nothing.                             *)
LEMMA ConsumedTasks ==
  ASSUME NEW t, TrueTasks(t), NEW M
  PROVE  TrueTasks(Consumed(t, M))
<1> "" \in Tokens BY DEF Tokens
<1> QED BY DEF TrueTasks, Consumed, Tasks

(* Failing the tasks that are not over claims nothing.                       *)
LEMMA FailedOpenTasks ==
  ASSUME NEW t, TrueTasks(t)
  PROVE  TrueTasks(FailedOpen(t))
<1> "FAILED" \in Phases BY Names
<1> QED BY DEF TrueTasks, FailedOpen, Tasks

(* Failing the member at work claims nothing.                                *)
LEMMA FailAsTasks ==
  ASSUME NEW t, TrueTasks(t), NEW m \in Members, FailAs(t, m)
  PROVE  TrueTasks(task')
BY InPhaseTasks, Names DEF FailAs

(* Failing both members claims nothing.                                      *)
LEMMA FailBothTasks ==
  ASSUME NEW t, TrueTasks(t), FailBoth(t)
  PROVE  TrueTasks(task')
BY BothInPhaseTasks, Names DEF FailBoth

(* What the four commands leave of the firewalls as it was.                  *)
LEMMA CommandDevices ==
  ASSUME dev \in Devices, NEW m \in Members
  PROVE  /\ Suspended(m) \in Devices /\ Resumed(m) \in Devices
         /\ Installing(m) \in Devices /\ Restarted(m) \in Devices
         /\ \A n \in Members :
              /\ \A d \in {Suspended(m), Resumed(m)} :
                   d[n].up = dev[n].up /\ d[n].ver = dev[n].ver /\ d[n].inst = dev[n].inst
              /\ \A d \in {Installing(m), Restarted(m)} : d[n].ver = dev[n].ver
              /\ n # m => /\ \A d \in {Installing(m), Restarted(m)} :
                               d[n].up = dev[n].up /\ d[n].inst = dev[n].inst
<1> USE OtherMember DEF Devices, HaStates
<1>1. HandOver(m) \in Devices /\ \A n \in Members : 
         /\ HandOver(m)[n].up = dev[n].up
         /\ HandOver(m)[n].ver = dev[n].ver 
         /\ HandOver(m)[n].inst = dev[n].inst
  BY DEF HandOver
<1>2. /\ Suspended(m) \in Devices
      /\ \A n \in Members : /\ Suspended(m)[n].up = dev[n].up
                            /\ Suspended(m)[n].ver = dev[n].ver
                            /\ Suspended(m)[n].inst = dev[n].inst
  BY <1>1 DEF Suspended
<1>3. /\ Resumed(m) \in Devices
      /\ \A n \in Members : /\ Resumed(m)[n].up = dev[n].up
                            /\ Resumed(m)[n].ver = dev[n].ver
                            /\ Resumed(m)[n].inst = dev[n].inst
  BY DEF Resumed
<1>4. /\ Installing(m) \in Devices
      /\ \A n \in Members : /\ Installing(m)[n].ver = dev[n].ver
                            /\ n # m => /\ Installing(m)[n].up = dev[n].up
                                        /\ Installing(m)[n].inst = dev[n].inst
  BY DEF Installing
<1>5. /\ Restarted(m) \in Devices
      /\ \A n \in Members : /\ Restarted(m)[n].ver = dev[n].ver
                            /\ n # m => /\ Restarted(m)[n].up = dev[n].up
                                        /\ Restarted(m)[n].inst = dev[n].inst
  <2> DEFINE h == HandOver(m)
  <2>1. Restarted(m) =
          [h EXCEPT ![m] =
             [up |-> FALSE, ver |-> h[m].ver, inst |-> h[m].inst,
              ha |-> IF h[m].ha = "suspended" THEN "suspended" ELSE "initial"]]
    BY DEF Restarted
  <2> HIDE DEF h
  <2>2. h \in Devices /\ \A n \in Members : /\ h[n].up = dev[n].up
                                           /\ h[n].ver = dev[n].ver
                                           /\ h[n].inst = dev[n].inst
    BY <1>1 DEF h
  <2> DEFINE r == [up |-> FALSE, ver |-> h[m].ver, inst |-> h[m].inst,
                   ha |-> IF h[m].ha = "suspended" THEN "suspended" ELSE "initial"]
  <2>3. /\ r \in [up : BOOLEAN, ver : Versions, ha : HaStates,
                  inst : {"none", "running", "ok", "bad"}]
        /\ r.ver = h[m].ver
    BY <2>2
  <2> HIDE DEF r
  <2>4. Restarted(m) = [h EXCEPT ![m] = r]
    BY <2>1 DEF r
  <2> QED BY <2>2, <2>3, <2>4
<1> QED BY <1>2, <1>3, <1>4, <1>5

(* Firewalls that stay as they are stay safe.                                *)
LEMMA SameDevices ==
  ASSUME TypeOK
  PROVE  SafeDevices(dev)
BY DEF TypeOK, SafeDevices, Untouched

(* Suspending or resuming a member touches neither.                        *)
LEMMA HaCommand ==
  ASSUME TypeOK, NEW m \in Members
  PROVE  SafeDevices(Suspended(m)) /\ SafeDevices(Resumed(m))
BY CommandDevices DEF TypeOK, SafeDevices, Untouched

(* Installing on or restarting a member that is not guarded.               *)
LEMMA UpgradeCommand ==
  ASSUME TypeOK, NEW m \in Members, ~Guarded(m)
  PROVE  SafeDevices(Installing(m)) /\ SafeDevices(Restarted(m))
BY CommandDevices DEF TypeOK, SafeDevices, Untouched

(* Rows that stay as they are stay true.                                     *)
LEMMA SameRows ==
  ASSUME TypeOK
  PROVE  TrueRows(row)
BY DEF TypeOK, TrueRows

(* A refresh writes what the firewall answered.                              *)
LEMMA RefreshedRows ==
  ASSUME TypeOK, NEW m \in Members, NEW s \in Reads(m)
  PROVE  TrueRows(Refreshed(m, s))
BY DEF TypeOK, Devices, Rows, Reads, Refreshed, TrueRows

(* So does a refresh that may fail.                                          *)
LEMMA MayRefreshRows ==
  ASSUME TypeOK, NEW m \in Members, MayRefresh(m)
  PROVE  TrueRows(row')
BY RefreshedRows, SameRows DEF MayRefresh

(* A posted message keeps to the bound.                                      *)
LEMMA QueuedBound ==
  ASSUME TypeOK
  PROVE  Queued \in 0..MaxMsgs
BY BoundAssumption DEF Queued, TypeOK

-------------------------------------------------------------------------------
(* Every step has a harmless effect.                                       *)

(* Markers, phases, rows and firewalls: one step per action of Next.         *)
LEMMA StepEffect ==
  ASSUME IInv, Next
  PROVE  StepOK
<1> USE DEF StepOK, operVars
<1>1. TypeOK BY DEF IInv
<1>2. TrueTasks(task) /\ TrueRows(row) /\ SafeDevices(dev)
  BY <1>1, TrueTasksNow, SameRows, SameDevices
<1>3. on \in Members /\ A \in Members /\ B \in Members
  BY <1>1 DEF TypeOK, Members
<1>4. at \notin RestSteps => first \in Members /\ Second \in Members
  BY <1>1, OtherMember DEF IInv, UnchosenInv, TypeOK, Second
<1>5. at \in {"suspend", "install", "poll", "rebootGate", "reboot", "boot"} => ~Guarded(on)
  BY <1>4 DEF IInv, SecondInv, UpgradeSteps, RestSteps, Guarded, UnchosenInv
<1>6. \A m \in Members : dev[m].ver = "target" \/ ~AtTarget(m)
  BY DEF IInv, ImageInv, AtTarget
<1> USE <1>2, <1>3
<1>begin. CASE Begin
  <2>1. ASSUME NEW m \in Members
        PROVE  /\ Reconciled(m) \subseteq Markers
               /\ "install_complete" \in Reconciled(m) =>
                    Done(m, "install_complete") \/ AtTarget(m)
               /\ "failover" \in Reconciled(m) <=> Done(m, "failover")
    <3>1. task[m].marks \subseteq Markers BY <1>1 DEF TypeOK, Tasks
    <3> QED BY <3>1, Names DEF Reconciled, Done
  <2>2. \A m \in Members :
          /\ task'[m].phase = task[m].phase
          /\ task'[m].marks = task[m].marks \/ task'[m].marks = Reconciled(m)
    BY <1>begin, <1>1 DEF Begin, TypeOK, Tasks
  <2>3. task' \in Tasks
    BY <1>begin, <1>1, <2>1 DEF Begin, TypeOK, Tasks
  <2>4. TrueTasks(task')
    BY <2>1, <2>2, <2>3 DEF TrueTasks, Done, Upgraded
  <2> QED BY <1>begin, <2>4 DEF Begin
<1>dup. CASE DropDuplicate BY <1>dup DEF DropDuplicate
<1>class. CASE Classify BY <1>class DEF Classify
<1>unclear. CASE RolesUnclear
  <2>1. PICK woken \in SUBSET {m \in Members : row[m].ha = "suspended"} :
          /\ dev' = [m \in Members |-> IF m \in woken THEN Resumed(m)[m] ELSE dev[m]]
          /\ FailBoth([m \in Members |->
               [task[m] EXCEPT !.told = @ \/ m \in {n \in Members : row[n].ha = "suspended"} \ woken]])
    BY <1>unclear DEF RolesUnclear
  <2>2. SafeDevices(dev')
    BY <2>1, <1>1, HaCommand DEF SafeDevices, Devices, TypeOK
  <2> DEFINE t == [m \in Members |->
               [task[m] EXCEPT !.told = @ \/ m \in {n \in Members : row[n].ha = "suspended"} \ woken]]
  <2>3. TrueTasks(t)
    <3>1. \A m \in Members :
            /\ t[m] \in [phase : Phases, token : Tokens, marks : SUBSET Markers, told : BOOLEAN]
            /\ t[m].marks = task[m].marks /\ t[m].phase = task[m].phase
      BY <1>1 DEF Tasks, TypeOK
    <3>2. t \in Tasks BY <3>1 DEF Tasks
    <3> HIDE DEF t
    <3> QED BY <3>1, <3>2 DEF TrueTasks, Done
  <2> QED BY <2>1, <2>2, <2>3, FailBothTasks, <1>unclear DEF RolesUnclear
<1>skip. CASE CheckSkip BY <1>skip DEF CheckSkip
<1>over. CASE CheckOverride
  <2>1. at \in {"precheck", "postcheck"} BY <1>over DEF CheckOverride, InCheck
  <2>2. TrueTasks(Marked(Consumed(task, {on}), on, {at}))
    BY <2>1, ConsumedTasks, MarkedTasks, Names
  <2> QED BY <1>over, <2>2 DEF CheckOverride
<1>7. MayRun => /\ TrueTasks(Unparked)
                /\ TrueTasks(Marked(Unparked, on, {at}))
                /\ CheckParking \in Phases \ {"DONE"}
  <2>1. TrueTasks(Unparked)
    BY ConsumedTasks, InPhaseTasks, Names DEF Unparked
  <2> QED BY <2>1, MarkedTasks, Names DEF MayRun, InCheck, CheckParking
<1>run. CASE RunCheck
  <2>1. TrueTasks(task') BY <1>run, <1>7, InPhaseTasks DEF RunCheck
  <2> QED BY <1>run, <2>1, <1>1, MayRefreshRows DEF RunCheck
<1>raise. CASE CheckRaises
  <2>1. TrueTasks(task') BY <1>raise, <1>7, FailAsTasks DEF CheckRaises
  <2> QED BY <1>raise, <2>1 DEF CheckRaises
<1>early. CASE Early
  <2> DEFINE t == [m \in Members |->
                 IF Done(m, "snapshot") THEN task[m]
                 ELSE [task[m] EXCEPT !.phase = "BUSY", !.marks = @ \cup {"snapshot"}]]
  <2>1. TrueTasks(t)
    <3>1. \A m \in Members :
            /\ t[m] \in [phase : Phases, token : Tokens, marks : SUBSET Markers, told : BOOLEAN]
            /\ t[m].marks \subseteq task[m].marks \cup {"snapshot"}
            /\ task[m].marks \subseteq t[m].marks
            /\ t[m].phase \in {task[m].phase, "BUSY"}
      BY <1>1, Names DEF Tasks, TypeOK
    <3>2. t \in Tasks BY <3>1 DEF Tasks
    <3> HIDE DEF t
    <3> QED BY <3>1, <3>2 DEF TrueTasks, Done
  <2>2. \/ task' = t
        \/ task' = BothInPhase(t, "DONE") /\ (\A m \in Members : AtTarget(m))
    BY <1>early DEF Early
  <2>3. TrueTasks(task')
    BY <2>1, <2>2, <1>6, BothInPhaseTasks, Names
  <2> QED BY <1>early, <2>3 DEF Early
<1>image. CASE EnsureImage
  <2>1. TrueTasks(InPhase(task, on, "BUSY")) BY InPhaseTasks, Names
  <2>2. TrueTasks(task')
    BY <1>image, <2>1, MarkedTasks, FailAsTasks, Names DEF EnsureImage, Park
  <2> QED BY <1>image, <2>2 DEF EnsureImage
<1>staged. CASE Staged
  <2>1. TrueTasks(task') BY <1>staged, BothInPhaseTasks, Names DEF Staged
  <2> QED BY <1>staged, <2>1 DEF Staged
<1>hold. CASE HoldGate
  <2>1. first \in Members BY <1>hold, <1>4 DEF HoldGate, RestSteps
  <2>2. TrueTasks(Marked(Consumed(task, Members), first, {"install_confirmed"}))
    BY <2>1, ConsumedTasks, MarkedTasks, Names
  <2>3. TrueTasks(task') BY <1>hold, <2>2, BothInPhaseTasks, Names DEF HoldGate
  <2> QED BY <1>hold, <2>3 DEF HoldGate
<1>8. ASSUME NEW m \in Members, NEW n, NEW k \in Markers \ {"install_complete", "failover"},
             NEW p \in Phases \ {"DONE"}, NEW s, Gate(m, k, p, s, n)
      PROVE  TrueTasks(task')
  BY <1>8, ConsumedTasks, MarkedTasks, InPhaseTasks DEF Gate
<1>suspend. CASE SuspendHa
  <2>1. TrueTasks(Marked(InPhase(task, on, "BUSY"), on, {"suspend_ha"}))
    BY InPhaseTasks, MarkedTasks, Names
  <2>2. TrueTasks(task') BY <1>suspend, <2>1, FailAsTasks DEF SuspendHa
  <2>3. SafeDevices(dev') BY <1>suspend, <1>1, HaCommand DEF SuspendHa
  <2> QED BY <1>suspend, <2>2, <2>3 DEF SuspendHa
<1>inskip. CASE InstallSkip
  <2>1. TrueTasks(InPhase(task, on, "BUSY")) BY InPhaseTasks, Names
  <2>2. ~InstallNeeded(on) => Upgraded(on)
    BY DEF InstallNeeded, Upgraded, IInv, ImageInv
  <2>3. ~InstallNeeded(on) => TrueTasks(Marked(task, on, {"install_complete"}))
    BY <2>2, ClaimedTasks, Names
  <2>4. TrueTasks(task') BY <1>inskip, <2>1, <2>3 DEF InstallSkip
  <2> QED BY <1>inskip, <2>4 DEF InstallSkip
<1>request. CASE InstallRequest
  <2>1. TrueTasks(InPhase(task, on, "BUSY")) BY InPhaseTasks, Names
  <2>2. TrueTasks(task')
    BY <1>request, <2>1, MarkedTasks, FailAsTasks, Names DEF InstallRequest, Park
  <2>3. SafeDevices(dev') BY <1>request, <1>1, <1>5, UpgradeCommand DEF InstallRequest
  <2> QED BY <1>request, <2>2, <2>3 DEF InstallRequest
<1>poll. CASE InstallPoll
  <2> DEFINE t == Unmarked(task, on, {"install_issued"})
  <2>1. TrueTasks(t) BY UnmarkedTasks
  <2>2. TrueTasks(Marked(t, on, {"software_installed"})) BY <2>1, MarkedTasks, Names
  <2>3. \/ task' = Marked(t, on, {"software_installed"})
        \/ FailAs(t, on) \/ FailAs(task, on) \/ task' = task
    BY <1>poll DEF InstallPoll, Park
  <2> HIDE DEF t
  <2>4. TrueTasks(task') BY <2>1, <2>2, <2>3, FailAsTasks
  <2> QED BY <1>poll, <2>4 DEF InstallPoll
<1>rgate. CASE RebootGate
  <2>1. TrueTasks(task') BY <1>rgate, <1>8, Names DEF RebootGate
  <2> QED BY <1>rgate, <2>1 DEF RebootGate
<1>reboot. CASE Reboot
  <2>1. TrueTasks(InPhase(task, on, "BUSY")) BY InPhaseTasks, Names
  <2>2. TrueTasks(task') BY <1>reboot, <2>1, MarkedTasks, FailAsTasks, Names DEF Reboot
  <2>3. SafeDevices(dev') BY <1>reboot, <1>1, <1>5, UpgradeCommand DEF Reboot
  <2> QED BY <1>reboot, <2>2, <2>3 DEF Reboot
<1>boot. CASE RebootWait
  <2>1. TrueTasks(Unmarked(task, on, {"reboot_issued"}))
    BY UnmarkedTasks
  <2>2. TrueTasks(Unmarked(task, on, {"software_installed"}))
    BY UnmarkedTasks
  <2>3. TrueTasks(task')
    BY <1>boot, <2>1, <2>2, ClaimedTasks, FailAsTasks, Names DEF RebootWait, Park, Upgraded
  <2>4. TrueRows(row') BY <1>boot, <1>1, MayRefreshRows DEF RebootWait
  <2> QED BY <1>boot, <2>3, <2>4 DEF RebootWait
<1>resume. CASE ResumeHa
  <2>1. TrueTasks(task') BY <1>resume, MarkedTasks, FailAsTasks, Names DEF ResumeHa
  <2>2. SafeDevices(dev') BY <1>resume, <1>1, HaCommand DEF ResumeHa
  <2> QED BY <1>resume, <2>1, <2>2 DEF ResumeHa
<1>settle. CASE PassiveWait
  <2>1. TrueTasks(Unmarked(task, on, {"ha_resumed"}))
    BY UnmarkedTasks
  <2>2. TrueTasks(task')
    BY <1>settle, <2>1, MarkedTasks, FailAsTasks, Names DEF PassiveWait, Park
  <2> DEFINE seen == IF dev[on].up THEN {[row EXCEPT ![on].ha = s] : s \in Reads(on)}
                     ELSE {row}
  <2> DEFINE states == HaStates \cup {"unknown"}
  <2>3. \A m \in Members : Reads(m) \subseteq states /\ dev[m].ver \in Versions
    BY <1>1 DEF TypeOK, Devices, Reads, HaStates
  <2>4. row \in Rows BY <1>1 DEF TypeOK
  <2>5. \A r \in seen : r \in Rows /\ \A m \in Members : r[m].ver = row[m].ver
    BY <2>3, <2>4 DEF Rows
  <2>6. \/ row' \in seen
        \/ \E r \in seen, s \in Reads(Other(on)) :
             row' = [r EXCEPT ![Other(on)] = [ver |-> dev[Other(on)].ver, ha |-> s]]
    BY <1>settle DEF PassiveWait
  <2> HIDE DEF seen
  <2>7. ASSUME row' \in seen PROVE TrueRows(row')
    <3>1. row' \in Rows /\ \A m \in Members : row'[m].ver = row[m].ver BY <2>5, <2>7
    <3> QED BY <3>1 DEF TrueRows
  <2>8. ASSUME NEW r \in seen, NEW s \in Reads(Other(on)),
               row' = [r EXCEPT ![Other(on)] = [ver |-> dev[Other(on)].ver, ha |-> s]]
        PROVE  TrueRows(row')
    <3>1. /\ Other(on) \in Members /\ r \in Rows
          /\ \A m \in Members : r[m].ver = row[m].ver
      BY <2>5, OtherMember
    <3>2. [ver |-> dev[Other(on)].ver, ha |-> s] \in [ver : Versions, ha : states]
      BY <2>3, <3>1
    <3>3. row' \in Rows BY <2>8, <3>1, <3>2 DEF Rows
    <3>4. \A m \in Members : row'[m].ver = row[m].ver \/ row'[m].ver = dev[m].ver
      BY <2>8, <3>1 DEF Rows
    <3> QED BY <3>3, <3>4 DEF TrueRows
  <2>9. TrueRows(row') BY <2>6, <2>7, <2>8
  <2> QED BY <1>settle, <2>2, <2>9 DEF PassiveWait
<1>fgate. CASE FailoverGate
  <2>1. first \in Members BY <1>fgate, <1>4 DEF FailoverGate, RestSteps
  <2>2. TrueTasks(task') BY <1>fgate, <2>1, <1>8, Names DEF FailoverGate
  <2> QED BY <1>fgate, <2>2 DEF FailoverGate
<1>failover. CASE Failover
  <2>1. first \in Members /\ Second \in Members /\ Upgraded(first)
    BY <1>failover, <1>4 DEF Failover, RestSteps, IInv, PlaceInv, Upgraded
  <2> DEFINE t == InPhase(task, first, "BUSY")
  <2>2. TrueTasks(t) BY <2>1, InPhaseTasks, Names
  <2>3. FailingOver => TrueTasks(Marked(t, first, {"failover"}))
    BY <2>1, <2>2, ClaimedTasks, Names
  <2>4. \/ task' = t \/ FailAs(t, first) \/ FailBoth(t)
        \/ FailingOver /\ task' = Marked(t, first, {"failover"})
    BY <1>failover DEF Failover, FailingOver, Goto
  <2> HIDE DEF t
  <2>5. TrueTasks(task') BY <2>1, <2>2, <2>3, <2>4, FailAsTasks, FailBothTasks
  <2>6. TrueRows(row') BY <1>failover, <1>1, <2>1, RefreshedRows DEF Failover
  <2>7. SafeDevices(dev') BY <1>failover, <1>1, <2>1, HaCommand DEF Failover
  <2> QED BY <1>failover, <2>5, <2>6, <2>7 DEF Failover
<1>pgate. CASE PrimaryGate
  <2>1. TrueTasks(task') BY <1>pgate, <1>8, Names DEF PrimaryGate
  <2> QED BY <1>pgate, <2>1 DEF PrimaryGate
<1>complete. CASE Complete
  <2>1. first \in Members /\ \A m \in Members : dev[m].ver = "target"
    BY <1>complete, <1>4, <1>6 DEF Complete, RestSteps, IInv, PlaceInv
  <2>2. TrueTasks(task') BY <1>complete, <2>1, BothInPhaseTasks, Names DEF Complete
  <2>3. SafeDevices(dev') BY <1>complete, <1>1, <2>1, HaCommand DEF Complete
  <2> QED BY <1>complete, <2>2, <2>3 DEF Complete
<1>finish. CASE Finish
  <2>1. TrueTasks(task') BY <1>finish, FailedOpenTasks DEF Finish
  <2> QED BY <1>finish, <2>1 DEF Finish
<1>9. \A d \in Calls : SafeDevices(d)
  BY <1>1, <1>4, <1>5, HaCommand, UpgradeCommand DEF Calls, RestSteps
<1>crash. CASE Crash
  <2>1. TrueTasks(task') BY <1>crash, FailedOpenTasks DEF Crash
  <2>2. SafeDevices(dev') BY <1>crash, <1>9 DEF Crash
  <2> QED BY <1>crash, <2>1, <2>2 DEF Crash
<1>heal. CASE Heal
  <2>1. TrueTasks([task EXCEPT ![on].told = TRUE])
    BY <1>1 DEF TrueTasks, Tasks, TypeOK
  <2>2. task' = task \/ task' = [task EXCEPT ![on].told = TRUE]
    BY <1>heal DEF Heal
  <2>3. dev' = dev \/ dev' = Resumed(on) BY <1>heal DEF Heal
  <2> QED BY <1>heal, <2>1, <2>2, <2>3, <1>1, HaCommand DEF Heal
<1>close. CASE Close BY <1>close DEF Close
<1>kill. CASE Kill BY <1>kill, <1>9 DEF Kill
<1>start. CASE Start BY <1>start DEF Start, driveVars
<1>abort. CASE Abort BY <1>abort DEF Abort, driveVars
<1>10. ASSUME NEW m \in Members, NEW k \in Tokens, Click(m, k)
       PROVE  StepOK
  <2>1. TrueTasks([task EXCEPT ![m].token = k])
    BY <1>1 DEF TrueTasks, Tasks, TypeOK
  <2> QED BY <1>10, <2>1 DEF Click, driveVars
<1>click. ASSUME NEW m \in Members, Confirm(m) \/ Override(m) \/ Rerun(m)
          PROVE  StepOK
  BY <1>click, <1>10 DEF Confirm, Override, Rerun, Tokens
<1>retry. ASSUME NEW m \in Members, Retry(m)
          PROVE  StepOK
  BY <1>retry, InPhaseTasks, Names DEF Retry, driveVars
<1>rest. CASE RestEnds BY <1>rest DEF RestEnds, others
<1>sync. ASSUME NEW m \in Members, Sync(m)
         PROVE  StepOK
  BY <1>sync, <1>1, MayRefreshRows DEF Sync, others
<1>11. \A m \in Members : Guarded(m) => Untouched(m)
  BY <1>1, OtherMember DEF IInv, UnchosenInv, ActiveUntouched, Guarded, Untouched, TypeOK
<1>ends. ASSUME NEW m \in Members, InstallEnds(m)
         PROVE  StepOK
  <2>1. SafeDevices(dev')
    BY <1>ends, <1>1, <1>11 DEF InstallEnds, SafeDevices, Untouched, TypeOK, Devices
  <2> QED BY <1>ends, <2>1 DEF InstallEnds, others
<1>up. ASSUME NEW m \in Members, Boot(m)
       PROVE  StepOK
  <2>1. SafeDevices(dev')
    BY <1>up, <1>1, <1>11 DEF Boot, SafeDevices, Untouched, TypeOK, Devices, Versions, HaStates
  <2> QED BY <1>up, <2>1 DEF Boot, others
<1>ha. ASSUME NEW m \in Members, SettleHa(m)
       PROVE  StepOK
  <2>1. SafeDevices(dev')
    BY <1>ha, <1>1 DEF SettleHa, SafeDevices, Untouched, TypeOK, Devices, HaStates
  <2> QED BY <1>ha, <2>1 DEF SettleHa, others
<1> QED
  BY <1>begin, <1>dup, <1>class, <1>unclear, <1>skip, <1>over, <1>run, <1>raise, <1>early,
     <1>image, <1>staged, <1>hold, <1>suspend, <1>inskip, <1>request, <1>poll, <1>rgate,
     <1>reboot, <1>boot, <1>resume, <1>settle, <1>fgate, <1>failover, <1>pgate,
     <1>complete, <1>finish, <1>crash, <1>heal, <1>close, <1>kill, <1>start, <1>abort,
     <1>click, <1>retry, <1>rest, <1>sync, <1>ends, <1>up, <1>ha
  DEF Next, Drive, Operator, World

-------------------------------------------------------------------------------
(* Every step leads the drive to a place it may be in.                     *)

(* A row at the target stays there.                                        *)
LEMMA RowsStay ==
  ASSUME IInv, StepOK
  PROVE  \A m \in Members : AtTarget(m) => AtTarget(m)'
BY DEF IInv, ImageInv, StepOK, TrueRows, AtTarget

(* A step that leaves the drive where it is.                               *)
LEMMA StayControl ==
  ASSUME IInv, StepOK, at' = at, on' = on, first' = first
  PROVE  ControlOK
<1>1. TypeOK BY DEF IInv
<1>2. first' = NoMember => at' \in RestSteps BY DEF IInv, UnchosenInv
<1>3. SecondInv'
  BY <1>1, OtherMember
  DEF IInv, StepOK, UnchosenInv, SecondInv, TypeOK, TrueTasks, Done, Second, UpgradeSteps,
      RestSteps
<1>4. first \in Members \/ at \in RestSteps
  BY <1>1 DEF IInv, UnchosenInv, TypeOK
<1>5. PlaceInv'
  BY <1>1, <1>4, RowsStay DEF IInv, PlaceInv, TypeOK, AtTarget, RestSteps
<1> QED BY <1>1, <1>2, <1>3, <1>5 DEF ControlOK, TypeOK

(* A step that ends the drive or starts it.                                *)
LEMMA RestControl ==
  ASSUME at' \in RestSteps, on' \in Members
  PROVE  ControlOK
BY DEF ControlOK, RestSteps, Steps, SecondInv, PlaceInv, UpgradeSteps

(* A step from one phase of a member's upgrade to the next.                *)
LEMMA UpgradeControl ==
  ASSUME IInv, StepOK, at \in UpgradeSteps, at' \in UpgradeSteps, on' = on, first' = first,
         at' \in {"resume", "settle", "postcheck"} => AtTarget(on) \/ AtTarget(on)'
  PROVE  ControlOK
<1>1. TypeOK BY DEF IInv
<1>2. first \in Members BY <1>1 DEF IInv, UnchosenInv, TypeOK, UpgradeSteps, RestSteps
<1>3. SecondInv'
  BY <1>1, <1>2, OtherMember
  DEF IInv, StepOK, SecondInv, TypeOK, TrueTasks, Done, Second
<1>4. PlaceInv'
  BY <1>1, RowsStay DEF PlaceInv, TypeOK, AtTarget, UpgradeSteps
<1> QED BY <1>1, <1>2, <1>3, <1>4, OtherMember DEF ControlOK, TypeOK, UpgradeSteps, Steps

(* A step to a phase before the upgrade, or to the upgrade of the first    *)
(* member.                                                                 *)
LEMMA FirstControl ==
  ASSUME first' \in Members, on' \in Members,
         at' \in Steps \ {"resume", "settle", "postcheck", "failoverGate", "failover", "failback"},
         on' = first' \/ at' \notin UpgradeSteps
  PROVE  ControlOK
BY OtherMember DEF ControlOK, SecondInv, PlaceInv, Second

(* The drive's place and its member: one step per action of Next.            *)
LEMMA StepControl ==
  ASSUME IInv, Next, StepOK
  PROVE  ControlOK
<1>1. TypeOK BY DEF IInv
<1>2. on \in Members /\ A \in Members /\ B \in Members
  BY <1>1 DEF TypeOK, Members
<1>3. at \notin RestSteps => first \in Members /\ Second \in Members /\ Second # first
  BY <1>1, OtherMember DEF IInv, UnchosenInv, TypeOK, Second
<1>4. \A m \in Members : AtTarget(m) => AtTarget(m)'
  BY RowsStay
<1> USE <1>2 DEF Goto, Return, operVars, FailAs, FailBoth, Park
<1>begin. CASE Begin BY <1>begin, RestControl DEF Begin, RestSteps
<1>dup. CASE DropDuplicate BY <1>dup, StayControl DEF DropDuplicate
<1>class. CASE Classify
  <2>1. first' \in Members
    BY <1>class, <1>1 DEF Classify, Passive, TypeOK
  <2> QED BY <1>class, <2>1, FirstControl DEF Classify, Steps, UpgradeSteps
<1>unclear. CASE RolesUnclear
  BY <1>unclear, RestControl DEF RolesUnclear, RestSteps
<1>5. ASSUME InCheck, AfterCheck, first' = first
      PROVE  ControlOK
  <2>1. first \in Members /\ Second \in Members /\ Second # first
    BY <1>3, <1>5 DEF InCheck, RestSteps
  <2>2. CASE at = "precheck"
    BY <1>5, <2>1, <2>2, FirstControl DEF AfterCheck, Steps, UpgradeSteps
  <2>3. CASE at = "postcheck" /\ on = first
    <3>1. AtTarget(first)' BY <1>4, <1>5, <2>1, <2>3 DEF IInv, PlaceInv, AtTarget
    <3> QED
      BY <1>5, <2>1, <2>3, <3>1, OtherMember
      DEF AfterCheck, ControlOK, Steps, SecondInv, PlaceInv, UpgradeSteps, AtTarget
  <2>4. CASE at = "postcheck" /\ on # first
    <3>1. on = Second BY <2>1, <2>4, OtherMember DEF Second
    <3>2. AtTarget(on) /\ AtTarget(first)
      BY <2>1, <2>4, <3>1, OtherMember
      DEF IInv, PlaceInv, SecondInv, ImageInv, UpgradeSteps
    <3>3. \A m \in Members : AtTarget(m)'
      BY <1>4, <2>1, <3>1, <3>2, OtherMember DEF Second
    <3> QED
      BY <1>5, <2>1, <2>4, <3>3, OtherMember
      DEF AfterCheck, ControlOK, Steps, SecondInv, PlaceInv, UpgradeSteps
  <2> QED BY <1>5, <2>2, <2>3, <2>4 DEF InCheck
<1>skip. CASE CheckSkip BY <1>skip, <1>5 DEF CheckSkip
<1>over. CASE CheckOverride BY <1>over, <1>5, RestControl DEF CheckOverride, RestSteps
<1>run. CASE RunCheck BY <1>run, <1>5, RestControl DEF RunCheck, MayRun, RestSteps
<1>raise. CASE CheckRaises BY <1>raise, <1>5, RestControl DEF CheckRaises, MayRun, RestSteps
<1>early. CASE Early
  BY <1>early, <1>3, RestControl, FirstControl DEF Early, RestSteps, Steps, UpgradeSteps
<1>image. CASE EnsureImage
  BY <1>image, <1>3, RestControl, FirstControl
  DEF EnsureImage, AfterImage, RestSteps, Steps, UpgradeSteps
<1>staged. CASE Staged
  BY <1>staged, <1>3, RestControl, FirstControl DEF Staged, RestSteps, Steps, UpgradeSteps
<1>hold. CASE HoldGate
  BY <1>hold, <1>3, RestControl, FirstControl DEF HoldGate, RestSteps, Steps
<1>suspend. CASE SuspendHa
  BY <1>suspend, RestControl, UpgradeControl DEF SuspendHa, RestSteps, UpgradeSteps
<1>inskip. CASE InstallSkip
  <2>1. ~InstallNeeded(on) => AtTarget(on)
    BY DEF InstallNeeded, IInv, ImageInv
  <2> QED BY <1>inskip, <2>1, UpgradeControl DEF InstallSkip, UpgradeSteps
<1>request. CASE InstallRequest
  BY <1>request, RestControl, UpgradeControl DEF InstallRequest, RestSteps, UpgradeSteps
<1>poll. CASE InstallPoll
  BY <1>poll, RestControl, UpgradeControl DEF InstallPoll, RestSteps, UpgradeSteps
<1>rgate. CASE RebootGate
  BY <1>rgate, RestControl, UpgradeControl DEF RebootGate, Gate, RestSteps, UpgradeSteps
<1>reboot. CASE Reboot
  BY <1>reboot, RestControl, UpgradeControl DEF Reboot, RestSteps, UpgradeSteps
<1>boot. CASE RebootWait
  <2>1. at = "boot" /\ on' \in Members /\ first' = first BY <1>boot DEF RebootWait
  <2>2. \/ at' = "finish"
        \/ at' = "resume" /\ on' = on /\ row'[on].ver = "target"
    BY <1>boot DEF RebootWait
  <2>3. at' = "resume" => AtTarget(on)' BY <2>2 DEF AtTarget
  <2> QED BY <2>1, <2>2, <2>3, RestControl, UpgradeControl DEF RestSteps, UpgradeSteps
<1>6. at \in {"resume", "settle"} => AtTarget(on)
  BY DEF IInv, PlaceInv
<1>resume. CASE ResumeHa
  BY <1>resume, <1>6, RestControl, UpgradeControl DEF ResumeHa, RestSteps, UpgradeSteps
<1>settle. CASE PassiveWait
  BY <1>settle, <1>6, RestControl, UpgradeControl DEF PassiveWait, RestSteps, UpgradeSteps
<1>7. at \in {"failoverGate", "failover"} => row'[first].ver = "target"
  BY <1>3, <1>4 DEF IInv, PlaceInv, RestSteps, AtTarget
<1>fgate. CASE FailoverGate
  <2>1. at' = "finish" \/ (at' = "failover" /\ on' = first)
    BY <1>fgate DEF FailoverGate, Gate
  <2>2. at' = "failover" => ControlOK
    BY <1>fgate, <1>3, <1>7, <2>1, OtherMember
    DEF FailoverGate, ControlOK, Steps, SecondInv, PlaceInv, UpgradeSteps, RestSteps, AtTarget
  <2> QED BY <1>fgate, <2>1, <2>2, RestControl DEF FailoverGate, Gate, RestSteps
<1>failover. CASE Failover
  <2>1. first \in Members /\ Second \in Members BY <1>failover, <1>3 DEF Failover, RestSteps
  <2>2. at' = "primaryGate" => Done(first, "failover")'
    <3>1. CASE task' = Marked(InPhase(task, first, "BUSY"), first, {"failover"})
      <4>1. InPhase(task, first, "BUSY") \in Tasks
        BY <1>1, <2>1, TrueTasksNow, InPhaseTasks, Names DEF TrueTasks
      <4>2. "failover" \in Marked(InPhase(task, first, "BUSY"), first, {"failover"})[first].marks
        BY <2>1, <4>1, MarkedHas
      <4>3. first' = first BY <1>failover DEF Failover
      <4> QED BY <3>1, <4>2, <4>3 DEF Done
    <3>2. CASE Done(first, "failover")
      BY <1>failover, <2>1, <3>2 DEF StepOK, TrueTasks, Failover, Done
    <3>3. at' = "primaryGate" =>
            \/ Done(first, "failover")
            \/ task' = Marked(InPhase(task, first, "BUSY"), first, {"failover"})
      BY <1>failover DEF Failover
    <3> QED BY <3>1, <3>2, <3>3
  <2>3. at' = "finish" \/ (at' = "primaryGate" /\ on' = Second)
    BY <1>failover DEF Failover
  <2>4. first' = first BY <1>failover DEF Failover
  <2>5. at' = "primaryGate" => ControlOK
    BY <2>1, <2>2, <2>3, <2>4, OtherMember
    DEF ControlOK, Steps, SecondInv, PlaceInv, UpgradeSteps, Done
  <2> QED BY <1>failover, <2>3, <2>5, RestControl DEF Failover, RestSteps
<1>pgate. CASE PrimaryGate
  BY <1>pgate, RestControl, UpgradeControl DEF PrimaryGate, Gate, RestSteps, UpgradeSteps
<1>complete. CASE Complete BY <1>complete, RestControl DEF Complete, RestSteps
<1>finish. CASE Finish BY <1>finish, RestControl DEF Finish, RestSteps
<1>crash. CASE Crash BY <1>crash, RestControl DEF Crash, RestSteps
<1>heal. CASE Heal BY <1>heal, RestControl DEF Heal, RestSteps
<1>close. CASE Close BY <1>close, RestControl DEF Close, RestSteps
<1>kill. CASE Kill BY <1>kill, RestControl DEF Kill, RestSteps
<1>op. CASE Operator
  BY <1>op, StayControl DEF Operator, Start, Abort, Confirm, Override, Rerun, Click, Retry, driveVars
<1>world. CASE World
  BY <1>world, StayControl DEF World, RestEnds, Sync, InstallEnds, Boot, SettleHa, others
<1> QED
  BY <1>begin, <1>dup, <1>class, <1>unclear, <1>skip, <1>over, <1>run, <1>raise, <1>early,
     <1>image, <1>staged, <1>hold, <1>suspend, <1>inskip, <1>request, <1>poll, <1>rgate,
     <1>reboot, <1>boot, <1>resume, <1>settle, <1>fgate, <1>failover, <1>pgate,
     <1>complete, <1>finish, <1>crash, <1>heal, <1>close, <1>kill, <1>op, <1>world
  DEF Next, Drive

-------------------------------------------------------------------------------
(* The inductive invariant and the theorems.                               *)

(* The invariant holds initially.                                            *)
LEMMA InitInvariant == Init => IInv
<1> SUFFICES ASSUME Init PROVE IInv OBVIOUS
<1>1. first = NoMember /\ at = "idle" /\ on = A
  BY DEF Init
<1>2. PICK ha \in HaStarts :
        /\ dev = [m \in Members |-> [up |-> TRUE, ver |-> "old", ha |-> ha[m], inst |-> "none"]]
        /\ row = [m \in Members |-> [ver |-> "old", ha |-> ha[m]]]
  BY DEF Init
<1>3. ha \in [Members -> HaStates] BY PolicyAssumption
<1>4. task \in Tasks
  BY Names DEF Init, Tasks, Tokens
<1>5. dev \in Devices /\ row \in Rows
  BY <1>2, <1>3 DEF Devices, Rows, Versions
<1>6. TypeOK
  <2>1. policy \in Policy /\ rest \in RestStates
    BY PolicyAssumption DEF Init
  <2>2. 0 \in 0..MaxMsgs /\ 0 \in 0..MaxClicks /\ 0 \in 0..MaxRetries
    BY BoundAssumption
  <2> QED
    BY <1>1, <1>4, <1>5, <2>1, <2>2 DEF Init, TypeOK, JobStates, Steps, Members
<1>7. \A m \in Members : Untouched(m) /\ row[m].ver = "old"
  BY <1>2 DEF Untouched
<1>8. \A m \in Members : task[m].marks = {} /\ task[m].phase = "PENDING"
  BY DEF Init
<1> QED
  BY <1>1, <1>6, <1>7, <1>8
  DEF IInv, UnchosenInv, RestSteps, SecondInv, FailoverInv, ImageInv, PlaceInv, Done,
      AtTarget, ActiveUntouched, DoneInv

(* The first member is chosen once.                                        *)
LEMMA StepFirst ==
  ASSUME TypeOK, Next
  PROVE  first' = first \/ (first = NoMember /\ first' \in Members)
<1>1. CASE Classify BY <1>1 DEF Classify, Passive
<1>2. CASE Operator
  BY <1>2 DEF Operator, Start, Abort, Confirm, Override, Rerun, Click, Retry, driveVars
<1>3. CASE World
  BY <1>3 DEF World, RestEnds, Sync, InstallEnds, Boot, SettleHa, others
<1>4. CASE Drive /\ ~Classify
  BY <1>4
  DEF Drive, Begin, DropDuplicate, RolesUnclear, CheckSkip, CheckOverride, RunCheck,
      CheckRaises, Early, EnsureImage, Staged, HoldGate, SuspendHa, InstallSkip,
      InstallRequest, InstallPoll, RebootGate, Reboot, RebootWait, ResumeHa, PassiveWait,
      FailoverGate, Failover, PrimaryGate, Complete, Finish, Heal, Close, Crash, Kill
<1> QED BY <1>1, <1>2, <1>3, <1>4 DEF Next

(* The job's state keeps to its type.                                        *)
LEMMA StepJob ==
  ASSUME TypeOK, Next
  PROVE  job' \in JobStates /\ rest' \in RestStates
<1>0. JobAfter(job, task, rest) \in JobStates /\ JobAfter(job, task, rest') \in JobStates
  BY DEF JobAfter, TypeOK, JobStates, JobEnded
<1>1. CASE Operator
  BY <1>1
  DEF TypeOK, JobStates, JobEnded, Operator, Start, Abort, Confirm, Override, Rerun, Click,
      Retry, operVars
<1>2. CASE World
  BY <1>0, <1>2
  DEF TypeOK, RestStates, World, RestEnds, Sync, InstallEnds, Boot, SettleHa
<1>3. CASE Drive
  BY <1>0, <1>3
  DEF TypeOK, operVars,
      Drive, Begin, DropDuplicate, Classify, RolesUnclear, CheckSkip, CheckOverride,
      RunCheck, CheckRaises, Early, EnsureImage, Staged, HoldGate, SuspendHa, InstallSkip,
      InstallRequest, InstallPoll, RebootGate, Reboot, RebootWait, ResumeHa, PassiveWait,
      FailoverGate, Failover, PrimaryGate, Complete, Finish, Heal, Close, Crash, Kill
<1> QED BY <1>1, <1>2, <1>3 DEF Next

(* The counters keep to their bounds.                                        *)
LEMMA StepCounters ==
  ASSUME TypeOK, Next
  PROVE  /\ msgs' \in 0..MaxMsgs /\ clicks' \in 0..MaxClicks /\ retries' \in 0..MaxRetries
<1>1. Queued \in 0..MaxMsgs /\ (msgs > 0 => msgs - 1 \in 0..MaxMsgs)
  BY QueuedBound, BoundAssumption DEF TypeOK
<1>2. CASE Operator
  <2>1. (clicks < MaxClicks => clicks + 1 \in 0..MaxClicks)
        /\ (retries < MaxRetries => retries + 1 \in 0..MaxRetries)
    BY BoundAssumption DEF TypeOK
  <2> QED
    BY <1>1, <1>2, <2>1
    DEF TypeOK, Operator, Start, Abort, Confirm, Override, Rerun, Click, Retry, operVars,
        driveVars
<1>3. CASE World
  BY <1>3 DEF TypeOK, World, RestEnds, Sync, InstallEnds, Boot, SettleHa, others
<1>4. CASE Drive
  <2>1. clicks' = clicks /\ retries' = retries
    BY <1>4
    DEF operVars,
        Drive, Begin, DropDuplicate, Classify, RolesUnclear, CheckSkip, CheckOverride,
        RunCheck, CheckRaises, Early, EnsureImage, Staged, HoldGate, SuspendHa, InstallSkip,
        InstallRequest, InstallPoll, RebootGate, Reboot, RebootWait, ResumeHa, PassiveWait,
        FailoverGate, Failover, PrimaryGate, Complete, Finish, Heal, Close, Crash, Kill
  <2>2. msgs' = msgs \/ msgs' = Queued \/ (msgs > 0 /\ msgs' = msgs - 1)
    BY <1>4
    DEF Park,
        Drive, Begin, DropDuplicate, Classify, RolesUnclear, CheckSkip, CheckOverride,
        RunCheck, CheckRaises, Early, EnsureImage, Staged, HoldGate, SuspendHa, InstallSkip,
        InstallRequest, InstallPoll, RebootGate, Reboot, RebootWait, ResumeHa, PassiveWait,
        FailoverGate, Failover, PrimaryGate, Complete, Finish, Heal, Close, Crash, Kill
  <2> QED BY <1>1, <2>1, <2>2 DEF TypeOK
<1> QED BY <1>2, <1>3, <1>4 DEF Next

(* Every step keeps the invariant.                                           *)
LEMMA StepInvariant == IInv /\ [Next]_vars => IInv'
<1> SUFFICES ASSUME IInv, [Next]_vars PROVE IInv' OBVIOUS
<1>1. CASE UNCHANGED vars
  BY <1>1
  DEF vars, IInv, TypeOK, UnchosenInv, SecondInv, FailoverInv, ImageInv, PlaceInv,
      ActiveUntouched, DoneInv, Done, AtTarget, Second, Untouched
<1>2. CASE Next
  <2>1. StepOK BY <1>2, StepEffect
  <2>2. ControlOK BY <1>2, <2>1, StepControl
  <2>0. TypeOK BY DEF IInv
  <2>4. first' = first \/ (first = NoMember /\ first' \in Members)
    BY <1>2, <2>0, StepFirst
  <2>3. TypeOK'
    BY <1>2, <2>1, <2>2, <2>4, <2>0, StepJob, StepCounters
    DEF TypeOK, StepOK, TrueTasks, TrueRows, SafeDevices, ControlOK
  <2>5. \A m \in Members : Guarded(m) => Untouched(m)
    BY <2>0, OtherMember DEF IInv, UnchosenInv, ActiveUntouched, Guarded, Untouched, TypeOK
  <2>6. UnchosenInv'
    BY <2>1, <2>2, <2>4, <2>5 DEF UnchosenInv, ControlOK, StepOK, SafeDevices, Guarded, Untouched
  <2>7. FailoverInv'
    BY <2>1, <2>4, OtherMember DEF IInv, FailoverInv, StepOK, TrueTasks, Done
  <2>8. ImageInv'
    <3>1. \A m \in Members : /\ AtTarget(m) => AtTarget(m)'
                             /\ Upgraded(m) => AtTarget(m)'
                             /\ AtTarget(m)' => dev'[m].ver = "target"
      BY <2>1, RowsStay DEF IInv, ImageInv, StepOK, TrueRows, SafeDevices, AtTarget, Upgraded
    <3> QED BY <2>1, <3>1 DEF IInv, ImageInv, StepOK, TrueTasks, Done
  <2>9. ActiveUntouched'
    <3> SUFFICES ASSUME first' # NoMember, "failover" \notin task'[first'].marks
                 PROVE  LET m == Other(first') IN
                        dev'[m].up /\ dev'[m].ver = "old" /\ dev'[m].inst = "none"
      BY DEF ActiveUntouched, Second, Done
    <3>1. first' \in Members /\ Other(first') \in Members
      BY <2>0, <2>4, OtherMember DEF TypeOK
    <3>2. Guarded(Other(first'))
      BY <2>1, <2>4, <3>1 DEF Guarded, StepOK, TrueTasks, Done, Second
    <3> QED BY <2>1, <2>5, <3>1, <3>2 DEF StepOK, SafeDevices
  <2>10. DoneInv'
    <3>1. first = NoMember => at # "staged" /\ \A n \in Members : dev[n].ver = "old"
      BY DEF IInv, UnchosenInv, RestSteps, Untouched
    <3>2. \A n \in Members : dev[n].ver = "target" => dev'[n].ver = "target"
      BY <2>1 DEF StepOK, SafeDevices
    <3>3. first # NoMember => first' # NoMember BY <2>4
    <3>4. A \in Members BY DEF Members
    <3> QED BY <2>1, <3>1, <3>2, <3>3, <3>4 DEF IInv, DoneInv, StepOK, TrueTasks
  <2> QED BY <2>2, <2>3, <2>6, <2>7, <2>8, <2>9, <2>10 DEF IInv, ControlOK
<1> QED BY <1>1, <1>2

(* The invariant holds in every state of the pair upgrade.                   *)
LEMMA Invariant == Spec => []IInv
BY InitInvariant, StepInvariant, PTL DEF Spec

(* Every variable keeps to the values the code gives it.                   *)
THEOREM TypeCorrect == Spec => []TypeOK
<1>1. IInv => TypeOK BY DEF IInv
<1> QED BY <1>1, Invariant, PTL

(* No install and no restart reaches the member that was active before the *)
(* failover is recorded.                                                   *)
THEOREM ActiveStaysUntouched == Spec => []ActiveUntouched
<1>1. IInv => ActiveUntouched BY DEF IInv
<1> QED BY <1>1, Invariant, PTL

(* The second member is touched only once the first one runs the target.   *)
THEOREM SecondFollowsFirst == Spec => []SecondAfterFirst
<1>1. IInv => SecondAfterFirst
  BY OtherMember
  DEF IInv, TypeOK, ActiveUntouched, ImageInv, SecondAfterFirst, Touched, Second
<1> QED BY <1>1, Invariant, PTL

(* A member reported done runs the target image.                           *)
THEOREM DoneIsUpgraded == Spec => []DoneMeansUpgraded
<1>1. IInv => DoneMeansUpgraded BY DEF IInv, DoneInv, DoneMeansUpgraded
<1> QED BY <1>1, Invariant, PTL

-------------------------------------------------------------------------------
(* One member serves.                                                      *)

Serves(m) == dev[m].up /\ dev[m].ha = "active"

(* The steps from the install request to the end of the reboot.            *)
Working == {"poll", "rebootGate", "reboot", "boot"}

(* Who serves: the second member until the failover command, the first one *)
(* from then on.  The failover command and its marker are committed apart, *)
(* so for a while the service is where the markers do not say; but by then *)
(* the first member's row is at the target and no command reaches it.      *)
ServiceInv ==
  /\ first = NoMember => /\ \E m \in Members : Serves(m)
                         /\ \A m \in Members : row[m].ha = "active" => Serves(m)
  /\ first # NoMember => Serves(Second) \/ (Serves(first) /\ AtTarget(first))
  /\ first # NoMember /\ Done(first, "failover") => Serves(first)
  /\ first # NoMember /\ at \in Working /\ on = first =>
       Serves(Second) /\ ~Done(first, "failover")

(* The effects on the service a step may have.                             *)
KeepsService(d) == \A m \in Members : Serves(m) => d[m].up /\ d[m].ha = "active"
OtherServes(d) ==
  /\ at \in {"suspend", "reboot"} /\ Serves(Other(on))
  /\ at = "suspend" => ~AtTarget(on)
  /\ d[Other(on)].up /\ d[Other(on)].ha = "active"
FirstServes(d) == at = "failover" /\ d[first].up /\ d[first].ha = "active"
SafeService(d) == KeepsService(d) \/ OtherServes(d) \/ FirstServes(d)

(* The commands: a resume or an install leaves the service alone; a        *)
(* suspended or restarted member leaves it to the other one.               *)
LEMMA CommandService ==
  ASSUME TypeOK, NEW m \in Members
  PROVE  /\ KeepsService(Resumed(m)) /\ KeepsService(Installing(m))
         /\ \A W \in SUBSET Members :
              KeepsService([n \in Members |-> IF n \in W THEN Resumed(n)[n] ELSE dev[n]])
         /\ \A d \in {Suspended(m), Restarted(m)} :
              /\ Serves(Other(m)) => d[Other(m)].up /\ d[Other(m)].ha = "active"
              /\ Serves(m) /\ dev[Other(m)].up /\ dev[Other(m)].ha = "passive" =>
                   d[Other(m)].up /\ d[Other(m)].ha = "active"
<1> DEFINE o == Other(m)
<1>0. o \in Members /\ o # m BY OtherMember
<1>1. \A n \in Members : KeepsService(Resumed(n))
  BY DEF Resumed, KeepsService, Serves, TypeOK, Devices
<1>2. KeepsService(Installing(m))
  BY DEF Installing, KeepsService, Serves, TypeOK, Devices
<1>3. \A W \in SUBSET Members :
        KeepsService([n \in Members |-> IF n \in W THEN Resumed(n)[n] ELSE dev[n]])
  <2>1. ASSUME NEW W, NEW n \in Members, Serves(n)
        PROVE  LET d == IF n \in W THEN Resumed(n)[n] ELSE dev[n] IN
               d.up /\ d.ha = "active"
    BY <1>1, <2>1 DEF KeepsService, Serves
  <2> QED BY <2>1 DEF KeepsService
<1>4. /\ HandOver(m) \in Devices
      /\ HandOver(m)[o].up = dev[o].up
      /\ Serves(o) => HandOver(m)[o].ha = "active"
      /\ Serves(m) /\ dev[o].up /\ dev[o].ha = "passive" => HandOver(m)[o].ha = "active"
  BY <1>0 DEF HandOver, Serves, TypeOK, Devices, HaStates
<1>5. Suspended(m)[o] = HandOver(m)[o] /\ Restarted(m)[o] = HandOver(m)[o]
  <2> DEFINE h == HandOver(m)
  <2>1. h \in Devices BY <1>4
  <2>2. Suspended(m) = [h EXCEPT ![m].ha = "suspended"] BY DEF Suspended
  <2>3. \E r : Restarted(m) = [h EXCEPT ![m] = r] BY DEF Restarted
  <2> HIDE DEF h
  <2>4. Suspended(m)[o] = h[o] /\ Restarted(m)[o] = h[o]
    BY <1>0, <2>1, <2>2, <2>3 DEF Devices
  <2> QED BY <2>4 DEF h
<1> QED BY <1>1, <1>2, <1>3, <1>4, <1>5 DEF Serves

(* Where a member is about to be suspended or restarted, the other serves. *)
LEMMA StandbyServes ==
  ASSUME IInv, ServiceInv
  PROVE  /\ at = "suspend" /\ ~AtTarget(on) => Serves(Other(on))
         /\ at \in Working => Serves(Other(on))
         /\ at = "install" /\ InstallNeeded(on) => Serves(Other(on))
         /\ at \in UpgradeSteps /\ on # first =>
              Serves(first) /\ AtTarget(first) /\ Other(on) = first
<1>1. TypeOK BY DEF IInv
<1>2. at \in UpgradeSteps => first \in Members /\ first # NoMember /\ on \in Members
  BY <1>1, OtherMember DEF IInv, UnchosenInv, TypeOK, UpgradeSteps, RestSteps
<1>3. at \in UpgradeSteps /\ on # first =>
        Serves(first) /\ AtTarget(first) /\ Other(on) = first
  <2> SUFFICES ASSUME at \in UpgradeSteps, on # first
               PROVE  Serves(first) /\ AtTarget(first) /\ Other(on) = first
    OBVIOUS
  <2>1. on = Second /\ Other(on) = first BY <1>2, OtherMember DEF Second
  <2>2. Done(first, "failover") BY <1>2, <2>1 DEF IInv, SecondInv
  <2> QED BY <1>2, <2>1, <2>2 DEF ServiceInv, IInv, ImageInv
<1>4. on = first => Other(on) = Second BY DEF Second
<1>5. {"suspend", "install"} \cup Working \subseteq UpgradeSteps BY DEF Working, UpgradeSteps
<1> QED BY <1>2, <1>3, <1>4, <1>5 DEF ServiceInv, InstallNeeded

(* The command the drive is about to send is safe.                         *)
LEMMA CallsService ==
  ASSUME IInv, ServiceInv
  PROVE  /\ at = "suspend" /\ MustSuspend(on) => SafeService(Suspended(on))
         /\ at = "reboot" => SafeService(Restarted(on))
         /\ at = "failover" /\ dev[first].up /\ Healthy(dev[first].ha) =>
              FirstServes(Suspended(Second))
         /\ \A d \in Calls : SafeService(d)
<1>1. TypeOK BY DEF IInv
<1>2. at \notin RestSteps => first \in Members /\ Second \in Members /\ on \in Members
                             /\ first # NoMember /\ Other(Second) = first
  BY <1>1, OtherMember DEF IInv, UnchosenInv, TypeOK, Second
<1>3. ASSUME at = "suspend", MustSuspend(on)
      PROVE  SafeService(Suspended(on))
  <2>1. ~AtTarget(on) /\ Serves(Other(on))
    BY <1>3, StandbyServes DEF MustSuspend
  <2> QED
    BY <1>1, <1>2, <1>3, <2>1, CommandService DEF SafeService, OtherServes, RestSteps
<1>4. ASSUME at = "reboot"
      PROVE  SafeService(Restarted(on))
  <2>1. Serves(Other(on)) BY <1>4, StandbyServes DEF Working
  <2> QED
    BY <1>1, <1>2, <1>4, <2>1, CommandService DEF SafeService, OtherServes, RestSteps
<1>5. ASSUME at = "failover", dev[first].up, Healthy(dev[first].ha)
      PROVE  FirstServes(Suspended(Second))
  <2>1. /\ Second \in Members /\ Other(Second) = first /\ first # NoMember
    BY <1>2, <1>5 DEF RestSteps
  <2>2. Serves(first) \/ (Serves(Second) /\ dev[first].ha = "passive")
    BY <1>5, <2>1 DEF ServiceInv, Healthy, Serves
  <2> QED BY <1>1, <1>5, <2>1, <2>2, CommandService DEF FirstServes
<1>6. at = "install" => KeepsService(Installing(on))
  BY <1>1, <1>2, CommandService DEF RestSteps
<1>7. \A d \in Calls : SafeService(d)
  BY <1>3, <1>4, <1>5, <1>6 DEF Calls, SafeService
<1> QED BY <1>3, <1>4, <1>5, <1>7

(* Every step has a safe effect on the service: one step per action of Next *)
(* that acts on a firewall.                                                 *)
LEMMA StepService ==
  ASSUME IInv, ServiceInv, ~policy.failback, Next
  PROVE  SafeService(dev')
<1>1. TypeOK BY DEF IInv
<1>2. on \in Members BY <1>1 DEF TypeOK
<1>same. CASE dev' = dev BY <1>same DEF SafeService, KeepsService, Serves
<1>unclear. CASE RolesUnclear
  <2>1. \E W \in SUBSET Members :
          dev' = [m \in Members |-> IF m \in W THEN Resumed(m)[m] ELSE dev[m]]
    BY <1>unclear DEF RolesUnclear
  <2> QED BY <2>1, <1>1, <1>2, CommandService DEF SafeService
<1>suspend. CASE SuspendHa BY <1>suspend, <1>same, CallsService DEF SuspendHa
<1>request. CASE InstallRequest
  BY <1>request, <1>same, <1>1, <1>2, CommandService DEF InstallRequest, SafeService
<1>reboot. CASE Reboot BY <1>reboot, <1>same, CallsService DEF Reboot
<1>resume. CASE ResumeHa
  BY <1>resume, <1>same, <1>1, <1>2, CommandService DEF ResumeHa, SafeService
<1>failover. CASE Failover
  <2>1. \A s \in Reads(first) : Healthy(s) => s = dev[first].ha
    BY DEF Reads, Healthy
  <2>2. \/ dev' = dev
        \/ /\ at = "failover" /\ dev[first].up /\ dev' = Suspended(Second)
           /\ \E s \in Reads(first) : Healthy(s)
    BY <1>failover DEF Failover
  <2> QED BY <2>1, <2>2, <1>same, CallsService DEF SafeService
<1>complete. CASE Complete BY <1>complete, <1>same DEF Complete
<1>cut. CASE Crash \/ Kill
  BY <1>cut, <1>same, CallsService DEF Crash, Kill
<1>heal. CASE Heal BY <1>heal, <1>same, <1>1, <1>2, CommandService DEF Heal, SafeService
<1>ends. ASSUME NEW m \in Members, InstallEnds(m)
         PROVE  SafeService(dev')
  BY <1>ends, <1>1 DEF InstallEnds, SafeService, KeepsService, Serves, TypeOK, Devices
<1>up. ASSUME NEW m \in Members, Boot(m)
       PROVE  SafeService(dev')
  BY <1>up, <1>1 DEF Boot, SafeService, KeepsService, Serves
<1>ha. ASSUME NEW m \in Members, SettleHa(m)
       PROVE  SafeService(dev')
  BY <1>ha, <1>1 DEF SettleHa, SafeService, KeepsService, Serves, TypeOK, Devices
<1>drive. CASE Drive /\ ~(RolesUnclear \/ SuspendHa \/ InstallRequest \/ Reboot \/ ResumeHa
                          \/ Failover \/ Complete \/ Crash \/ Kill \/ Heal)
  BY <1>drive, <1>same
  DEF Drive, Begin, DropDuplicate, Classify, CheckSkip, CheckOverride, RunCheck,
      CheckRaises, Early, EnsureImage, Staged, HoldGate, InstallSkip, InstallPoll,
      RebootGate, RebootWait, PassiveWait, FailoverGate, PrimaryGate, Finish, Close
<1>op. CASE Operator
  BY <1>op, <1>same
  DEF Operator, Start, Abort, Confirm, Override, Rerun, Click, Retry, driveVars
<1>still. ASSUME RestEnds \/ (\E m \in Members : Sync(m))
          PROVE  SafeService(dev')
  BY <1>still, <1>same DEF RestEnds, Sync
<1> QED
  BY <1>unclear, <1>suspend, <1>request, <1>reboot, <1>resume, <1>failover, <1>complete,
     <1>cut, <1>heal, <1>ends, <1>up, <1>ha, <1>drive, <1>op, <1>still
  DEF Next, World

(* The drive gets to work on a member whose row is not at the target, and  *)
(* stays at work on that member.                                           *)
LEMMA StepWorking ==
  ASSUME TypeOK, Next, at' \in Working
  PROVE  on' = on /\ first' = first /\ (at \in Working \/ (at = "install" /\ InstallNeeded(on)))
<1> USE DEF Goto, Return, FailAs, FailBoth, Park, Working
<1>1. CASE InstallSkip \/ InstallRequest \/ InstallPoll \/ RebootGate \/ Reboot \/ RebootWait
  BY <1>1
  DEF InstallSkip, InstallRequest, MustInstall, InstallPoll, RebootGate, Gate, Reboot,
      RebootWait
<1>2. CASE Operator
  BY <1>2 DEF Operator, Start, Abort, Confirm, Override, Rerun, Click, Retry, driveVars
<1>3. CASE World
  BY <1>3 DEF World, RestEnds, Sync, InstallEnds, Boot, SettleHa, others
<1>4. CASE DropDuplicate BY <1>4 DEF DropDuplicate
<1>5. CASE Drive /\ ~(InstallSkip \/ InstallRequest \/ InstallPoll \/ RebootGate \/ Reboot
                      \/ RebootWait \/ DropDuplicate)
  BY <1>5
  DEF Drive, Begin, Classify, RolesUnclear, CheckSkip, CheckOverride, RunCheck, CheckRaises,
      AfterCheck, Early, EnsureImage, AfterImage, Staged, HoldGate, SuspendHa, ResumeHa,
      PassiveWait, FailoverGate, Failover, PrimaryGate, Gate, Complete, Finish, Heal, Close,
      Crash, Kill
<1> QED BY <1>1, <1>2, <1>3, <1>4, <1>5 DEF Next

(* Until a first member is chosen a row changes to what its firewall says. *)
LEMMA IdleRows ==
  ASSUME IInv, Next, first = NoMember
  PROVE  \A m \in Members :
           row'[m].ha = row[m].ha \/ (dev[m].up /\ row'[m].ha \in Reads(m))
<1>1. TypeOK /\ at \in RestSteps BY DEF IInv, UnchosenInv
<1>2. CASE row' = row BY <1>2
<1>3. ASSUME NEW n \in Members, Sync(n)
      PROVE  \A m \in Members :
               row'[m].ha = row[m].ha \/ (dev[m].up /\ row'[m].ha \in Reads(m))
  <2>1. dev[n].up /\ \E s \in Reads(n) : row' = Refreshed(n, s)
    BY <1>3 DEF Sync, MayRefresh
  <2> QED BY <1>1, <2>1 DEF Refreshed, TypeOK, Rows
<1>4. CASE Drive
  BY <1>1, <1>2, <1>4
  DEF RestSteps, Drive, Begin, DropDuplicate, Classify, RolesUnclear, CheckSkip,
      CheckOverride, RunCheck, CheckRaises, MayRun, InCheck, Early, EnsureImage, Staged,
      HoldGate, SuspendHa, InstallSkip, InstallRequest, InstallPoll, RebootGate, Reboot,
      RebootWait, ResumeHa, PassiveWait, FailoverGate, Failover, PrimaryGate, Complete,
      Finish, Heal, Close, Crash, Kill
<1>5. CASE Operator
  BY <1>2, <1>5
  DEF Operator, Start, Abort, Confirm, Override, Rerun, Click, Retry, driveVars
<1>6. ASSUME RestEnds \/ \E m \in Members : InstallEnds(m) \/ Boot(m) \/ SettleHa(m)
      PROVE  row' = row
  BY <1>6 DEF RestEnds, InstallEnds, Boot, SettleHa
<1> QED BY <1>2, <1>3, <1>4, <1>5, <1>6 DEF Next, World

(* Every step keeps the invariant.                                         *)
LEMMA ServiceKept ==
  ASSUME IInv, ServiceInv, ~policy.failback, Next
  PROVE  ServiceInv'
<1>1. TypeOK /\ TypeOK' BY StepInvariant DEF IInv
<1>2. StepOK BY StepEffect
<1>3. SafeService(dev') BY StepService
<1>4. first' = first \/ (first = NoMember /\ first' \in Members)
  BY <1>1, StepFirst
<1>5. first \in Members =>
        /\ first # NoMember /\ Second \in Members /\ Other(Second) = first
        /\ \A m \in Members : m # first => m = Second
  BY OtherMember DEF Second
<1>6. \A m \in Members : /\ AtTarget(m) => AtTarget(m)'
                         /\ Upgraded(m) => AtTarget(m)'
  BY <1>2, RowsStay DEF AtTarget, Upgraded
<1>7. CASE first' = NoMember
  <2>1. first = NoMember /\ at \in RestSteps BY <1>4, <1>7, OtherMember DEF IInv, UnchosenInv
  <2>2. \A m \in Members : Serves(m) => Serves(m)'
    BY <1>3, <2>1
    DEF SafeService, KeepsService, OtherServes, FirstServes, Serves, RestSteps
  <2>3. \A m \in Members : row'[m].ha = "active" => row[m].ha = "active" \/ Serves(m)
    BY <2>1, IdleRows DEF Reads, Serves
  <2> QED BY <1>7, <2>1, <2>2, <2>3 DEF ServiceInv
<1>8. CASE first = NoMember /\ first' \in Members
  <2>1. Classify
    BY <1>8, OtherMember
    DEF Next, Drive, Operator, World, Begin, DropDuplicate, RolesUnclear, CheckSkip,
        CheckOverride, RunCheck, CheckRaises, Early, EnsureImage, Staged, HoldGate, SuspendHa,
        InstallSkip, InstallRequest, InstallPoll, RebootGate, Reboot, RebootWait, ResumeHa,
        PassiveWait, FailoverGate, Failover, PrimaryGate, Complete, Finish, Heal, Close,
        Crash, Kill, Start, Abort, Confirm, Override, Rerun, Click, Retry, driveVars, RestEnds,
        Sync, InstallEnds, Boot, SettleHa, others
  <2>2. first' \in Passive /\ at' = "precheck" /\ dev' = dev /\ task' = task
    BY <1>8, <2>1 DEF Classify, Goto
  <2>3. Serves(Other(first')) BY <1>8, <2>2, OtherMember DEF Passive, ServiceInv
  <2>4. ~Done(first', "failover") BY <1>8, OtherMember DEF IInv, FailoverInv
  <2> QED
    BY <1>8, <2>2, <2>3, <2>4, OtherMember DEF ServiceInv, Serves, Second, Done, Working
<1>9. CASE first' = first /\ first \in Members
  <2>1. Done(first, "failover") => AtTarget(first) BY <1>9 DEF IInv, ImageInv
  <2>2. at \in {"suspend", "reboot"} => on \in Members /\ (on # first =>
          Serves(first) /\ AtTarget(first) /\ Other(on) = first)
    BY <1>1, StandbyServes DEF TypeOK, UpgradeSteps
  <2>3. Serves(Second)' \/ (Serves(first)' /\ AtTarget(first)')
    <3>1. CASE KeepsService(dev')
      BY <1>5, <1>6, <1>9, <3>1 DEF KeepsService, ServiceInv, Serves, Second, AtTarget
    <3>2. CASE OtherServes(dev')
      <4>1. CASE on = first BY <1>9, <3>2, <4>1 DEF OtherServes, Serves, Second
      <4>2. CASE on # first
        BY <1>6, <1>9, <2>2, <3>2, <4>2 DEF OtherServes, Serves, AtTarget
      <4> QED BY <4>1, <4>2
    <3>3. CASE FirstServes(dev')
      <4>1. AtTarget(first) BY <3>3 DEF FirstServes, IInv, PlaceInv
      <4> QED BY <1>6, <1>9, <3>3, <4>1 DEF FirstServes, Serves, AtTarget
    <3> QED BY <1>3, <3>1, <3>2, <3>3 DEF SafeService
  <2>4. ASSUME Done(first, "failover")'
        PROVE  Serves(first)'
    <3>1. CASE FirstServes(dev') BY <1>9, <3>1 DEF FirstServes, Serves
    <3>2. CASE ~FirstServes(dev') /\ Done(first, "failover")
      <4>1. Serves(first) BY <1>5, <1>9, <3>2 DEF ServiceInv
      <4>2. CASE KeepsService(dev') BY <1>9, <4>1, <4>2 DEF KeepsService, Serves
      <4>3. CASE OtherServes(dev')
        <5>1. on # first
          BY <1>5, <1>9, <2>1, <3>2, <4>3 DEF OtherServes, ServiceInv, Working
        <5> QED BY <1>9, <2>2, <4>3, <5>1 DEF OtherServes, Serves
      <4> QED BY <1>3, <3>2, <4>2, <4>3 DEF SafeService
    <3>3. CASE ~FirstServes(dev') /\ ~Done(first, "failover")
      <4>1. at = "failover" /\ at' = "primaryGate"
        BY <1>2, <1>9, <2>4, <3>3 DEF StepOK, TrueTasks, FailingOver, Done
      <4>2. KeepsService(dev')
        BY <1>3, <3>3, <4>1 DEF SafeService, OtherServes
      <4>3. Failover
        BY <4>1
        DEF Next, Drive, Operator, World, Begin, DropDuplicate, Classify, RolesUnclear,
            CheckSkip, CheckOverride, RunCheck, CheckRaises, MayRun, InCheck, Early,
            EnsureImage, Staged, HoldGate, SuspendHa, InstallSkip, InstallRequest,
            InstallPoll, RebootGate, Reboot, RebootWait, ResumeHa, PassiveWait, FailoverGate,
            PrimaryGate, Complete, Finish, Heal, Close, Crash, Kill, Start, Abort, Confirm,
            Override, Rerun, Click, Retry, driveVars, RestEnds, Sync, InstallEnds, Boot,
            SettleHa, others, Goto, Return
      <4>4. /\ dev[first].up /\ dev' = Suspended(Second)
            /\ \E s \in Reads(first) : Healthy(s)
        BY <3>3, <4>1, <4>3 DEF Failover, Goto, Return, FailAs, FailBoth
      <4>5. Healthy(dev[first].ha) BY <4>4 DEF Reads, Healthy
      <4> QED BY <3>3, <4>1, <4>4, <4>5, CallsService
    <3> QED BY <3>1, <3>2, <3>3
  <2>5. ASSUME at' \in Working, on' = first
        PROVE  Serves(Second)' /\ ~Done(first, "failover")'
    <3>1. on = first /\ (at \in Working \/ (at = "install" /\ InstallNeeded(on)))
      BY <1>1, <2>5, StepWorking
    <3>2. Serves(Second) /\ ~Done(first, "failover")
      <4>1. CASE at \in Working BY <1>5, <1>9, <3>1, <4>1 DEF ServiceInv
      <4>2. CASE at = "install" /\ InstallNeeded(first)
        <5>1. ~AtTarget(first) BY <4>2 DEF InstallNeeded
        <5> QED BY <1>5, <1>9, <2>1, <5>1 DEF ServiceInv
      <4> QED BY <3>1, <4>1, <4>2
    <3>3. at # "failover" BY <3>1 DEF Working
    <3>4. Serves(Second)'
      BY <1>3, <1>5, <1>9, <3>1, <3>2, <3>3
      DEF SafeService, KeepsService, OtherServes, FirstServes, Serves, Second
    <3>5. ~Done(first, "failover")'
      BY <1>2, <1>9, <3>2, <3>3 DEF StepOK, TrueTasks, FailingOver, Done
    <3> QED BY <3>4, <3>5
  <2> QED BY <1>5, <1>9, <2>3, <2>4, <2>5 DEF ServiceInv
<1> QED BY <1>1, <1>4, <1>7, <1>8, <1>9 DEF TypeOK

(* The pair is served when its job is created.                             *)
LEMMA InitService == Init /\ ServiceContinuity => ServiceInv
<1> SUFFICES ASSUME Init, ServiceContinuity PROVE ServiceInv OBVIOUS
<1>1. PICK ha \in HaStarts :
        /\ dev = [m \in Members |-> [up |-> TRUE, ver |-> "old", ha |-> ha[m], inst |-> "none"]]
        /\ row = [m \in Members |-> [ver |-> "old", ha |-> ha[m]]]
  BY DEF Init
<1>2. first = NoMember BY DEF Init
<1> QED BY <1>1, <1>2 DEF ServiceContinuity, ServiceInv, Serves

(* A step, or none, keeps the invariant unless the job fails back.           *)
LEMMA StepServiceInv ==
  ASSUME IInv, ServiceInv, ~policy.failback, [Next]_vars
  PROVE  ServiceInv' /\ ~policy'.failback
<1>1. CASE UNCHANGED vars
  BY <1>1 DEF vars, ServiceInv, Serves, AtTarget, Done, Second
<1>2. CASE Next BY <1>2, ServiceKept, StepEffect DEF StepOK
<1> QED BY <1>1, <1>2

(* The invariant says who serves.                                            *)
LEMMA SomeoneServes ==
  ASSUME IInv, ServiceInv
  PROVE  ServiceContinuity
BY OtherMember DEF IInv, TypeOK, ServiceInv, Serves, ServiceContinuity, Second

(* A job that does not fail back, created over a pair that is served.        *)
ServedPair == ServiceContinuity /\ ~policy.failback

(* One member of such a pair serves at any moment, whatever fails, is      *)
(* refused, retried, aborted or killed.                                    *)
THEOREM OneMemberServes == Spec /\ ServedPair => []ServiceContinuity
<1> DEFINE I == ServiceInv /\ ~policy.failback
<1>1. Init /\ ServedPair => I BY InitService DEF ServedPair
<1>2. IInv /\ I /\ [Next]_vars => I' BY StepServiceInv
<1>3. IInv /\ I => ServiceContinuity BY SomeoneServes
<1> HIDE DEF I
<1> QED BY <1>1, <1>2, <1>3, Invariant, PTL DEF Spec

(* Only a job that fails back may leave a pair that was served unserved.   *)
THEOREM ServiceLostOnlyByFailback == Spec /\ ServiceContinuity => []FailbackOrService
<1> DEFINE I == policy.failback \/ ServiceInv
<1>1. Init /\ ServiceContinuity => I BY InitService
<1>2. IInv /\ I /\ [Next]_vars => I'
  <2> SUFFICES ASSUME IInv, I, [Next]_vars PROVE I' OBVIOUS
  <2>1. policy' = policy BY StepEffect DEF StepOK, vars
  <2> QED BY <2>1, StepServiceInv
<1>3. IInv /\ I => FailbackOrService BY SomeoneServes DEF FailbackOrService
<1> HIDE DEF I
<1> QED BY <1>1, <1>2, <1>3, Invariant, PTL DEF Spec

-------------------------------------------------------------------------------
(* The rolling upgrade.                                                    *)

(* A firewall that is down does not claim to serve.                        *)
DownInv == \A m \in Members : ~dev[m].up => dev[m].ha \in {"suspended", "initial"}

(* What a step may do to the cluster: nothing but a resume or the progress *)
(* of an install, or one member leaves and the other takes over from it.   *)
Stays(d) == \A m \in Members :
  /\ d[m].up = dev[m].up /\ d[m].ver = dev[m].ver
  /\ d[m].ha = dev[m].ha \/ (dev[m].ha = "suspended" /\ d[m].ha = "initial")
Leaves(d, m) ==
  /\ d[m].ver = dev[m].ver /\ d[m].ha \in {"suspended", "initial"}
  /\ d[Other(m)].up = dev[Other(m)].up /\ d[Other(m)].ver = dev[Other(m)].ver
  /\ \/ d[Other(m)].ha = dev[Other(m)].ha
     \/ /\ dev[m].ha = "active" /\ dev[Other(m)].ha = "passive"
        /\ d[Other(m)].ha = "active"

(* What the commands do to the cluster.                                    *)
LEMMA CommandCluster ==
  ASSUME TypeOK, NEW m \in Members
  PROVE  /\ Stays(Resumed(m)) /\ Stays(Installing(m))
         /\ \A W \in SUBSET Members :
              Stays([n \in Members |-> IF n \in W THEN Resumed(n)[n] ELSE dev[n]])
         /\ Leaves(Suspended(m), m) /\ Leaves(Restarted(m), m)
<1> DEFINE o == Other(m)
<1>0. o \in Members /\ o # m BY OtherMember
<1>1. \A n \in Members : Stays(Resumed(n)) BY DEF Resumed, Stays, TypeOK, Devices
<1>2. Stays(Installing(m)) BY DEF Installing, Stays, TypeOK, Devices
<1>3. \A W \in SUBSET Members :
        Stays([n \in Members |-> IF n \in W THEN Resumed(n)[n] ELSE dev[n]])
  BY <1>1 DEF Stays
<1>4. /\ HandOver(m) \in Devices
      /\ HandOver(m)[m] = dev[m]
      /\ HandOver(m)[o].up = dev[o].up /\ HandOver(m)[o].ver = dev[o].ver
      /\ \/ HandOver(m)[o].ha = dev[o].ha
         \/ /\ dev[m].ha = "active" /\ dev[o].ha = "passive"
            /\ HandOver(m)[o].ha = "active"
  BY <1>0 DEF HandOver, TypeOK, Devices, HaStates
<1>5. /\ Suspended(m)[o] = HandOver(m)[o] /\ Restarted(m)[o] = HandOver(m)[o]
      /\ Suspended(m)[m].ver = dev[m].ver /\ Suspended(m)[m].ha = "suspended"
      /\ Restarted(m)[m].ver = dev[m].ver
      /\ Restarted(m)[m].ha \in {"suspended", "initial"}
  <2> DEFINE h == HandOver(m)
             r == [up |-> FALSE, ver |-> h[m].ver, inst |-> h[m].inst,
                   ha |-> IF h[m].ha = "suspended" THEN "suspended" ELSE "initial"]
  <2>1. h \in Devices /\ h[m] = dev[m] BY <1>4
  <2>2. Suspended(m) = [h EXCEPT ![m].ha = "suspended"] BY DEF Suspended
  <2>3. Restarted(m) = [h EXCEPT ![m] = r] BY DEF Restarted
  <2>4. r.ver = h[m].ver /\ r.ha \in {"suspended", "initial"} OBVIOUS
  <2> HIDE DEF h, r
  <2>5. /\ Suspended(m)[o] = h[o] /\ Restarted(m)[o] = h[o]
        /\ Suspended(m)[m].ver = h[m].ver /\ Suspended(m)[m].ha = "suspended"
        /\ Restarted(m)[m] = r
    BY <1>0, <2>1, <2>2, <2>3 DEF Devices
  <2> QED BY <2>1, <2>4, <2>5 DEF h
<1> QED BY <1>1, <1>2, <1>3, <1>4, <1>5 DEF Leaves

(* Every step leaves the cluster alone, takes one member out of it, boots  *)
(* one or lets one rejoin: one step per action that acts on a firewall.    *)
LEMMA StepCluster ==
  ASSUME IInv, ~policy.failback, Next
  PROVE  \/ Stays(dev')
         \/ first' = first /\ \E m \in Members : Leaves(dev', m) \/ Boot(m) \/ SettleHa(m)
<1> DEFINE Goal == \/ Stays(dev')
                   \/ first' = first /\ \E m \in Members :
                                          Leaves(dev', m) \/ Boot(m) \/ SettleHa(m)
<1>0. TypeOK BY DEF IInv
<1>1. on \in Members BY <1>0 DEF TypeOK
<1>2. at \notin RestSteps => Second \in Members
  BY <1>0, OtherMember DEF IInv, UnchosenInv, TypeOK, Second
<1>same. CASE dev' = dev BY <1>same DEF Stays
<1>unclear. CASE RolesUnclear
  <2>1. \E W \in SUBSET Members :
          dev' = [m \in Members |-> IF m \in W THEN Resumed(m)[m] ELSE dev[m]]
    BY <1>unclear DEF RolesUnclear
  <2> QED BY <2>1, <1>0, <1>1, CommandCluster
<1>suspend. CASE SuspendHa BY <1>suspend, <1>same, <1>0, <1>1, CommandCluster DEF SuspendHa
<1>request. CASE InstallRequest
  BY <1>request, <1>same, <1>0, <1>1, CommandCluster DEF InstallRequest
<1>reboot. CASE Reboot BY <1>reboot, <1>same, <1>0, <1>1, CommandCluster DEF Reboot
<1>resume. CASE ResumeHa BY <1>resume, <1>same, <1>0, <1>1, CommandCluster DEF ResumeHa
<1>failover. CASE Failover
  BY <1>failover, <1>same, <1>0, <1>2, CommandCluster DEF Failover, RestSteps
<1>complete. CASE Complete BY <1>complete, <1>same DEF Complete
<1>cut. CASE Crash \/ Kill
  <2>1. dev' = dev \/ dev' \in Calls BY <1>cut DEF Crash, Kill
  <2>2. first' = first BY <1>cut DEF Crash, Kill
  <2> QED BY <2>1, <2>2, <1>same, <1>0, <1>1, <1>2, CommandCluster DEF Calls, RestSteps
<1>heal. CASE Heal BY <1>heal, <1>same, <1>0, <1>1, CommandCluster DEF Heal
<1>ends. ASSUME NEW m \in Members, InstallEnds(m)
         PROVE  Stays(dev')
  BY <1>0, <1>ends DEF InstallEnds, Stays, TypeOK, Devices
<1>world. ASSUME NEW m \in Members, Boot(m) \/ SettleHa(m)
          PROVE  Goal
  BY <1>world DEF Boot, SettleHa, others
<1>drive. CASE Drive /\ ~(RolesUnclear \/ SuspendHa \/ InstallRequest \/ Reboot \/ ResumeHa
                          \/ Failover \/ Complete \/ Crash \/ Kill \/ Heal)
  BY <1>drive, <1>same
  DEF Drive, Begin, DropDuplicate, Classify, CheckSkip, CheckOverride, RunCheck,
      CheckRaises, Early, EnsureImage, Staged, HoldGate, InstallSkip, InstallPoll,
      RebootGate, RebootWait, PassiveWait, FailoverGate, PrimaryGate, Finish, Close
<1>op. CASE Operator
  BY <1>op, <1>same
  DEF Operator, Start, Abort, Confirm, Override, Rerun, Click, Retry, driveVars
<1>still. ASSUME RestEnds \/ (\E m \in Members : Sync(m))
          PROVE  Goal
  BY <1>still, <1>same DEF RestEnds, Sync
<1> QED
  BY <1>unclear, <1>suspend, <1>request, <1>reboot, <1>resume, <1>failover, <1>complete,
     <1>cut, <1>heal, <1>ends, <1>world, <1>drive, <1>op, <1>still
  DEF Next, World

(* No step lets a firewall that is down claim to serve.                    *)
LEMMA DownKept ==
  ASSUME IInv, DownInv, ~policy.failback, Next
  PROVE  DownInv'
<1>1. TypeOK BY DEF IInv
<1>2. CASE Stays(dev') BY <1>2 DEF Stays, DownInv
<1>3. ASSUME NEW m \in Members, Leaves(dev', m)
      PROVE  DownInv'
  <2>1. \A n \in Members : n = m \/ n = Other(m) BY OtherMember
  <2>2. ~dev[Other(m)].up => dev[Other(m)].ha \in {"suspended", "initial"}
    BY OtherMember DEF DownInv
  <2> QED BY <1>3, <2>1, <2>2 DEF Leaves, DownInv
<1>4. ASSUME NEW m \in Members, Boot(m) \/ SettleHa(m)
      PROVE  DownInv'
  BY <1>1, <1>4 DEF Boot, SettleHa, DownInv, TypeOK, Devices
<1> QED BY <1>1, <1>2, <1>3, <1>4, StepCluster

(* The member that serves, as the abstract upgrade sees it.                *)
Serving == IF Servers = {} THEN NoMember ELSE CHOOSE m \in Servers : TRUE

LEMMA OneServing ==
  ASSUME ServiceContinuity
  PROVE  Serving \in Servers /\ Servers \subseteq Members \ Away
BY OtherMember DEF ServiceContinuity, Serving, Servers, Away

(* A step that leaves the cluster alone changes nothing the abstract        *)
(* upgrade sees.                                                           *)
LEMMA StayMaps ==
  ASSUME Stays(dev')
  PROVE  /\ [m \in Members |-> dev[m].ver]' = [m \in Members |-> dev[m].ver]
         /\ Away' = Away /\ Servers' = Servers
BY DEF Stays, Away, Servers

(* A member that goes leaves, or was out already; the one that stays serves. *)
LEMMA LeaveMaps ==
  ASSUME DownInv, ServiceContinuity, ServiceContinuity', NEW m \in Members, Leaves(dev', m)
  PROVE  /\ [n \in Members |-> dev[n].ver]' = [n \in Members |-> dev[n].ver]
         /\ Away' = Away \cup {m}
         /\ m \in Away => Servers' = Servers
         /\ Serving' \in Members \ Away'
         /\ m # Serving => Serving' = Serving
<1> DEFINE o == Other(m)
<1>1. o \in Members /\ o # m /\ Members = {m, o} BY OtherMember
<1>2. [n \in Members |-> dev[n].ver]' = [n \in Members |-> dev[n].ver]
  BY <1>1 DEF Leaves
<1>3. Away' = Away \cup {m} BY <1>1 DEF Leaves, Away
<1>4. m \in Away => Servers' = Servers BY <1>1 DEF Leaves, Away, Servers, DownInv
<1>5. Serving \in Members /\ Serving' \in Members \ Away'
  BY OneServing DEF Servers, ServiceContinuity, Serving, Away
<1> QED BY <1>1, <1>2, <1>3, <1>4, <1>5

(* A member that boots on the target was free to change its image.         *)
LEMMA BootMaps ==
  ASSUME IInv, DownInv, NEW m \in Members, Boot(m)
  PROVE  /\ Away' = Away /\ Servers' = Servers /\ m \in Away
         /\ \/ [n \in Members |-> dev[n].ver]' = [n \in Members |-> dev[n].ver]
            \/ /\ dev[m].ver = "old" /\ first # NoMember
               /\ m # first => dev[first].ver = "target"
               /\ [n \in Members |-> dev[n].ver]' =
                    [[n \in Members |-> dev[n].ver] EXCEPT ![m] = "target"]
<1>1. TypeOK BY DEF IInv
<1>2. PICK v \in IF dev[m].inst = "ok" THEN {"target", dev[m].ver} ELSE {dev[m].ver},
           h \in {dev[m].ha, "initial"} :
        ~dev[m].up /\ dev' = [dev EXCEPT ![m] = [up |-> TRUE, ver |-> v, ha |-> h,
                                                 inst |-> "none"]]
  BY DEF Boot
<1>3. dev[m].ha \in {"suspended", "initial"} BY <1>2 DEF DownInv
<1>4. Away' = Away /\ Servers' = Servers /\ m \in Away
  BY <1>1, <1>2, <1>3 DEF Away, Servers, TypeOK, Devices
<1>5. [n \in Members |-> dev[n].ver]' = [[n \in Members |-> dev[n].ver] EXCEPT ![m] = v]
  BY <1>1, <1>2 DEF TypeOK, Devices
<1>6. CASE v = dev[m].ver BY <1>4, <1>5, <1>6
<1>7. CASE v # dev[m].ver
  <2>1. dev[m].inst = "ok" /\ v = "target" /\ dev[m].ver = "old"
    BY <1>1, <1>2, <1>7 DEF TypeOK, Devices, Versions
  <2>2. first # NoMember BY <2>1 DEF IInv, UnchosenInv, Untouched
  <2>3. ASSUME m # first
        PROVE  dev[first].ver = "target"
    <3>1. m = Second /\ first \in Members BY <1>1, <2>2, <2>3, OtherMember DEF TypeOK, Second
    <3>2. Done(first, "failover") BY <2>1, <2>2, <3>1 DEF IInv, ActiveUntouched, Untouched
    <3> QED BY <1>1, <2>2, <3>1, <3>2 DEF IInv, ImageInv
  <2> QED BY <1>4, <1>5, <2>1, <2>2, <2>3
<1> QED BY <1>6, <1>7

(* A member settles into the cluster the other one serves.                 *)
LEMMA SettleMaps ==
  ASSUME IInv, ServiceContinuity, NEW m \in Members, SettleHa(m)
  PROVE  /\ Servers' = Servers /\ m \in Away /\ Away' = Away \ {m}
         /\ [n \in Members |-> dev[n].ver]' = [n \in Members |-> dev[n].ver]
<1> DEFINE o == Other(m)
<1>1. o \in Members /\ o # m /\ Members = {m, o} BY OtherMember
<1>2. TypeOK BY DEF IInv
<1>3. dev[m].up /\ dev[m].ha = "initial" BY DEF SettleHa
<1>4. dev[o].up /\ dev[o].ha = "active" BY <1>1, <1>3 DEF ServiceContinuity
<1>5. dev' = [dev EXCEPT ![m].ha = "passive"] BY <1>4 DEF SettleHa
<1> QED BY <1>1, <1>2, <1>3, <1>4, <1>5 DEF Away, Servers, TypeOK, Devices

(* Every step is a step of the rolling upgrade, or none.                   *)
LEMMA StepMaps ==
  ASSUME IInv, DownInv, ServiceContinuity, ServiceContinuity', ~policy.failback, Next
  PROVE  [Rolling!Next]_Rolling!vars
<1> DEFINE ver == [m \in Members |-> dev[m].ver]
<1>1. TypeOK BY DEF IInv
<1>2. \A m \in Members : ver[m] = dev[m].ver OBVIOUS
<1>3. first' = first \/ (first = NoMember /\ first' \in Members) BY <1>1, StepFirst
<1>4. Servers' = Servers => Serving' = Serving BY DEF Serving
<1>5. CASE Stays(dev')
  <2>1. ver' = ver /\ Away' = Away /\ Servers' = Servers BY <1>5, StayMaps
  <2>2. CASE first' = first
    BY <1>4, <2>1, <2>2 DEF Rolling!vars, Serving
  <2>3. CASE first = NoMember /\ first' \in Members
    <3>1. Rolling!Choose(first') BY <1>4, <2>1, <2>3 DEF Rolling!Choose, Serving
    <3> QED BY <2>3, <3>1 DEF Rolling!Next
  <2> QED BY <1>3, <2>2, <2>3
<1>6. ASSUME first' = first, NEW m \in Members, Leaves(dev', m)
      PROVE  [Rolling!Next]_Rolling!vars
  <2>1. /\ ver' = ver /\ Away' = Away \cup {m}
        /\ m \in Away => Servers' = Servers
        /\ Serving' \in Members \ Away'
        /\ m # Serving => Serving' = Serving
    BY <1>6, LeaveMaps
  <2>2. CASE m \in Away
    <3>1. Away' = Away BY <2>1, <2>2
    <3> QED BY <1>4, <1>6, <2>1, <2>2, <3>1 DEF Rolling!vars, Serving
  <2>3. CASE m \notin Away
    <3>1. Rolling!Leave(m) BY <1>6, <2>1, <2>3 DEF Rolling!Leave, Serving
    <3> QED BY <3>1 DEF Rolling!Next
  <2> QED BY <2>2, <2>3
<1>7. ASSUME first' = first, NEW m \in Members, Boot(m)
      PROVE  [Rolling!Next]_Rolling!vars
  <2>1. /\ Away' = Away /\ Servers' = Servers /\ m \in Away
        /\ \/ ver' = ver
           \/ /\ ver[m] = "old" /\ first # NoMember
              /\ m # first => ver[first] = "target"
              /\ ver' = [ver EXCEPT ![m] = "target"]
    <3>1. first # NoMember => first \in Members BY <1>1 DEF TypeOK
    <3> QED BY <1>2, <1>7, <3>1, BootMaps
  <2>2. CASE ver' = ver BY <1>4, <1>7, <2>1, <2>2 DEF Rolling!vars, Serving
  <2>3. CASE ver' # ver
    <3>1. Rolling!Replace(m) BY <1>4, <1>7, <2>1, <2>3 DEF Rolling!Replace, Serving
    <3> QED BY <3>1 DEF Rolling!Next
  <2> QED BY <2>2, <2>3
<1>8. ASSUME first' = first, NEW m \in Members, SettleHa(m)
      PROVE  [Rolling!Next]_Rolling!vars
  <2>1. Servers' = Servers /\ m \in Away /\ Away' = Away \ {m} /\ ver' = ver
    BY <1>8, SettleMaps
  <2>2. Rolling!Rejoin(m) BY <1>4, <1>8, <2>1 DEF Rolling!Rejoin, Serving
  <2> QED BY <2>2 DEF Rolling!Next
<1> QED BY <1>5, <1>6, <1>7, <1>8, StepCluster

(* The pair starts as the rolling upgrade does.                            *)
LEMMA InitMaps == Init /\ ServiceContinuity => Rolling!Init /\ DownInv
<1> SUFFICES ASSUME Init, ServiceContinuity PROVE Rolling!Init /\ DownInv OBVIOUS
<1>1. PICK ha \in HaStarts :
        dev = [m \in Members |-> [up |-> TRUE, ver |-> "old", ha |-> ha[m], inst |-> "none"]]
  BY DEF Init
<1>2. [m \in Members |-> dev[m].ver] = [m \in Members |-> "old"] BY <1>1
<1>3. Serving \in Members \ Away BY OneServing
<1>4. first = NoMember BY DEF Init
<1>5. Rolling!TypeOK BY <1>2, <1>3, <1>4 DEF Rolling!TypeOK, Serving, Away
<1>6. DownInv BY <1>1 DEF DownInv
<1> QED BY <1>2, <1>4, <1>5, <1>6 DEF Rolling!Init

(* The drive of such a pair implements the abstract rolling upgrade: in    *)
(* every order of drives, kills, clicks, retries, aborts and syncs a member *)
(* leaves the cluster only when the other one serves, changes its image     *)
(* only while it is out, and the second follows the first.                 *)
THEOREM RollingIsImplemented == Spec /\ ServedPair => ImplementsRolling
<1> DEFINE I == IInv /\ ServiceInv /\ DownInv /\ ~policy.failback
<1>1. Init /\ ServedPair => I /\ Rolling!Init
  BY InitInvariant, InitService, InitMaps DEF ServedPair
<1>2. I /\ [Next]_vars => I'
  <2> SUFFICES ASSUME I, [Next]_vars PROVE I' OBVIOUS
  <2>1. IInv' /\ ServiceInv' /\ ~policy'.failback BY StepInvariant, StepServiceInv
  <2>2. DownInv' BY DownKept DEF vars, DownInv
  <2> QED BY <2>1, <2>2
<1>3. I => ServiceContinuity BY SomeoneServes
<1>4. I /\ ServiceContinuity /\ ServiceContinuity' /\ [Next]_vars =>
        [Rolling!Next]_Rolling!vars
  <2> SUFFICES ASSUME I, ServiceContinuity, ServiceContinuity', [Next]_vars
               PROVE  [Rolling!Next]_Rolling!vars
    OBVIOUS
  <2>1. CASE Next BY <2>1, StepMaps
  <2>2. CASE UNCHANGED vars
    BY <2>2 DEF vars, Rolling!vars, Away, Servers
  <2> QED BY <2>1, <2>2
<1> HIDE DEF I
<1> QED BY <1>1, <1>2, <1>3, <1>4, PTL DEF Spec, ImplementsRolling, Rolling!Spec
===============================================================================
