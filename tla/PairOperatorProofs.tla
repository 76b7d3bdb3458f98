-------------------------- MODULE PairOperatorProofs --------------------------
(***************************************************************************)
(* Proofs about PairUpgrade: what the operator's answers stand between.    *)
(* No firewall is touched before the prechecks of both members are behind, *)
(* staging touches none, every gate passed was paid for by a click, and    *)
(* the member upgraded first is back in the cluster at the end.            *)
(*                                                                         *)
(* The first two follow from GateInv, which says what is behind at every   *)
(* step of the drive; the third from ClickInv, which counts the tokens     *)
(* that are not used yet along with the gates passed; the last from        *)
(* BehindInv, AsleepInv and HealedInv, which follow the suspended member.  *)
(***************************************************************************)
EXTENDS PairUpgradeProofs, FiniteSetTheorems

PrepSteps == {"early", "image", "staged", "hold"}
WorkSteps == UpgradeSteps \cup {"failoverGate", "failover", "failback"}

Prechecked == \A m \in Members : Done(m, "precheck")
StagedJob ==
  \/ policy.mode = "stage_only"
  \/ policy.mode = "hold" /\ \A m \in Members : ~Done(m, "install_confirmed")
Disturbed == \E m \in Members : Touched(m) \/ dev[m].ha = "suspended"

(* What is behind where the drive is, and once a firewall was disturbed.   *)
PlaceBehind ==
  /\ at = "precheck" /\ on # first => Done(first, "precheck")
  /\ at \in PrepSteps \cup WorkSteps => Prechecked
  /\ at \in WorkSteps \cup {"hold"} => policy.mode # "stage_only"
  /\ at \in WorkSteps => ~StagedJob
GateInv ==
  /\ PlaceBehind
  /\ Disturbed => Prechecked /\ ~StagedJob

(* The gates passed and the members with an answer that is not used yet:   *)
(* together never more than the clicks.                                    *)
Passed == {g \in Members \X GateMarkers : Done(g[1], g[2])}
Answered == {m \in Members : task[m].token # ""}
ClickInv == Cardinality(Passed) + Cardinality(Answered) <= clicks

-------------------------------------------------------------------------------
(* What a step may do to the marks and the tokens.                         *)

Kept == {"precheck", "install_confirmed", "suspend_ha"}

(* Nothing is spent: no gate is passed, no token is added.                 *)
Unspent(t) ==
  /\ t \in Tasks
  /\ \A m \in Members :
       /\ \A k \in Kept : Done(m, k) => k \in t[m].marks
       /\ \A k \in GateMarkers : k \in t[m].marks => Done(m, k)
       /\ t[m].token \in {task[m].token, ""}

(* One gate is passed with the token of member n, or of both.              *)
PaidGate ==
  /\ clicks' = clicks
  /\ \E m \in Members, k \in GateMarkers, M \in SUBSET Members :
       /\ task' = Marked(Consumed(task, M), m, {k})
       /\ \E n \in M : task[n].token # ""

Clicked ==
  /\ clicks' = clicks + 1
  /\ \E m \in Members, c \in Tokens : task' = [task EXCEPT ![m].token = c]

Spends == (Unspent(task') /\ clicks' = clicks) \/ PaidGate \/ Clicked

(* The tasks as they stand spend nothing.                                  *)
LEMMA UnspentNow ==
  ASSUME TypeOK
  PROVE  Unspent(task)
BY DEF TypeOK, Unspent, Done

(* Neither does a marker that is not a gate's.                             *)
LEMMA MarkedUnspent ==
  ASSUME NEW t, Unspent(t), NEW m \in Members, NEW k \in Markers \ GateMarkers
  PROVE  Unspent(Marked(t, m, {k}))
BY DEF Unspent, Marked, Tasks

(* Any marker may be dropped but those the invariant rests on.             *)
LEMMA UnmarkedUnspent ==
  ASSUME NEW t, Unspent(t), NEW m \in Members, NEW k, k \notin Kept
  PROVE  Unspent(Unmarked(t, m, {k}))
BY DEF Unspent, Unmarked, Tasks

(* A phase spends nothing.                                                 *)
LEMMA InPhaseUnspent ==
  ASSUME NEW t, Unspent(t), NEW m \in Members, NEW p \in Phases
  PROVE  Unspent(InPhase(t, m, p)) /\ Unspent(BothInPhase(t, p))
<1>1. Unspent(InPhase(t, m, p)) BY DEF Unspent, InPhase, Tasks
<1>2. Unspent(BothInPhase(t, p)) BY DEF Unspent, BothInPhase, Tasks
<1> QED BY <1>1, <1>2

(* Nor does a token that is thrown away.                                   *)
LEMMA ConsumedUnspent ==
  ASSUME NEW t, Unspent(t), NEW M
  PROVE  Unspent(Consumed(t, M))
<1> "" \in Tokens BY DEF Tokens
<1> QED BY DEF Unspent, Consumed, Tasks

(* Nor does the failure of what is open.                                   *)
LEMMA FailedOpenUnspent ==
  ASSUME NEW t, Unspent(t)
  PROVE  Unspent(FailedOpen(t))
<1> "FAILED" \in Phases BY Names
<1> QED BY DEF Unspent, FailedOpen, Tasks

(* Failing one member or both spends nothing.                              *)
LEMMA FailUnspent ==
  ASSUME NEW t, Unspent(t), NEW m \in Members, FailAs(t, m) \/ FailBoth(t)
  PROVE  Unspent(task')
BY InPhaseUnspent, Names DEF FailAs, FailBoth

(* The markers that are not a gate's, and those the steps drop.            *)
LEMMA GateNames ==
  /\ {"precheck", "postcheck", "ensure_image", "suspend_ha", "install_issued",
      "software_installed", "reboot_issued", "ha_resumed", "ha_resume_complete",
      "install_complete", "failover", "snapshot"} \subseteq Markers \ GateMarkers
  /\ GateMarkers \subseteq Markers
  /\ {"install_issued", "software_installed", "reboot_issued", "ha_resumed"} \cap Kept = {}
BY DEF Markers, GateMarkers, Kept

(* A gate is passed with a token, or nothing is spent.                     *)
LEMMA GateSpends ==
  ASSUME TypeOK, NEW m \in Members, NEW k \in GateMarkers, NEW p \in Phases, NEW s, NEW n,
         Gate(m, k, p, s, n), clicks' = clicks
  PROVE  Spends
<1>1. CASE task' = task BY <1>1, UnspentNow DEF Spends
<1>2. CASE task' = InPhase(task, m, p) BY <1>2, UnspentNow, InPhaseUnspent DEF Spends
<1>3. CASE task[m].token # "" /\ task' = Marked(Consumed(task, {m}), m, {k})
  <2>1. {m} \in SUBSET Members /\ m \in {m} OBVIOUS
  <2> QED BY <1>3, <2>1 DEF Spends, PaidGate
<1> QED BY <1>1, <1>2, <1>3 DEF Gate

(* The reconciliation with the rows neither passes a gate nor forgets one.   *)
LEMMA ReconciledUnspent ==
  ASSUME TypeOK, Begin
  PROVE  Unspent(task')
<1>1. \A m \in Members : task[m] \in [phase : Phases, token : Tokens,
                                      marks : SUBSET Markers, told : BOOLEAN]
  BY DEF TypeOK, Tasks
<1>2. ASSUME NEW m \in Members
      PROVE  /\ Reconciled(m) \subseteq Markers
             /\ \A k \in Kept : Done(m, k) => k \in Reconciled(m)
             /\ \A k \in GateMarkers : k \in Reconciled(m) => Done(m, k)
  <2>1. task[m].marks \subseteq Markers BY <1>1
  <2> QED BY <2>1, Names DEF Reconciled, Done, Kept, GateMarkers
<1>3. \A m \in Members :
        /\ task'[m] \in [phase : Phases, token : Tokens,
                         marks : SUBSET Markers, told : BOOLEAN]
        /\ task'[m].token = task[m].token
        /\ task'[m].marks \in {task[m].marks, Reconciled(m)}
  BY <1>1, <1>2 DEF Begin
<1>4. task' \in Tasks BY <1>3 DEF Begin, Tasks
<1> QED BY <1>2, <1>3, <1>4 DEF Unspent, Done

(* Every step spends a token on a gate, takes a click or spends nothing: one *)
(* step per action of Next that writes the tasks.                            *)
LEMMA StepSpends ==
  ASSUME IInv, Next
  PROVE  Spends
<1>1. TypeOK BY DEF IInv
<1>2. Unspent(task) BY <1>1, UnspentNow
<1>3. on \in Members /\ A \in Members /\ B \in Members
  BY <1>1 DEF TypeOK, Members
<1>4. at \notin RestSteps => first \in Members /\ Second \in Members
  BY <1>1, OtherMember DEF IInv, UnchosenInv, TypeOK, Second
<1>5. Unspent(task') /\ clicks' = clicks => Spends BY DEF Spends
<1> USE <1>2, <1>3
<1>begin. CASE Begin
  BY <1>begin, <1>1, <1>5, ReconciledUnspent DEF Begin, operVars
<1>same. CASE DropDuplicate \/ Classify \/ CheckSkip \/ Close \/ Kill \/ Start \/ Abort
  BY <1>same, <1>5
  DEF DropDuplicate, Classify, CheckSkip, Close, Kill, Start, Abort, operVars, driveVars
<1>unclear. CASE RolesUnclear
  <2>1. PICK woken \in SUBSET {m \in Members : row[m].ha = "suspended"} :
          FailBoth([m \in Members |->
            [task[m] EXCEPT !.told = @ \/ m \in {n \in Members : row[n].ha = "suspended"} \ woken]])
    BY <1>unclear DEF RolesUnclear
  <2> DEFINE t == [m \in Members |->
            [task[m] EXCEPT !.told = @ \/ m \in {n \in Members : row[n].ha = "suspended"} \ woken]]
  <2>2. \A m \in Members :
          /\ t[m] \in [phase : Phases, token : Tokens, marks : SUBSET Markers, told : BOOLEAN]
          /\ t[m].marks = task[m].marks /\ t[m].token = task[m].token
    BY <1>1 DEF Tasks, TypeOK
  <2>3. t \in Tasks BY <2>2 DEF Tasks
  <2>5. FailBoth(t) BY <2>1
  <2> HIDE DEF t
  <2>4. Unspent(t) BY <2>2, <2>3 DEF Unspent, Done
  <2> QED BY <2>5, <2>4, <1>5, <1>unclear, FailUnspent DEF RolesUnclear, operVars
<1>6. /\ Unspent(Consumed(task, {on})) /\ Unspent(Unparked)
      /\ InCheck => /\ Unspent(Marked(Consumed(task, {on}), on, {at}))
                    /\ Unspent(Marked(Unparked, on, {at}))
      /\ Unspent(InPhase(Unparked, on, CheckParking))
  <2>1. Unspent(Unparked) BY ConsumedUnspent, InPhaseUnspent, Names DEF Unparked
  <2>2. InCheck => at \in Markers \ GateMarkers BY GateNames DEF InCheck
  <2> QED BY <2>1, <2>2, ConsumedUnspent, MarkedUnspent, InPhaseUnspent, Names DEF CheckParking
<1>check. CASE CheckOverride \/ RunCheck \/ CheckRaises
  <2>1. \/ task' = task
        \/ task' = Marked(Consumed(task, {on}), on, {at}) /\ InCheck
        \/ task' = Marked(Unparked, on, {at}) /\ InCheck
        \/ task' = InPhase(Unparked, on, CheckParking)
        \/ FailAs(Unparked, on)
    BY <1>check DEF CheckOverride, RunCheck, CheckRaises, MayRun
  <2>2. Unspent(task') BY <2>1, <1>6, FailUnspent
  <2> QED BY <1>check, <2>2, <1>5 DEF CheckOverride, RunCheck, CheckRaises, operVars
<1>early. CASE Early
  <2> DEFINE t == [m \in Members |->
                 IF Done(m, "snapshot") THEN task[m]
                 ELSE [task[m] EXCEPT !.phase = "BUSY", !.marks = @ \cup {"snapshot"}]]
  <2>1. \A m \in Members :
          /\ t[m] \in [phase : Phases, token : Tokens, marks : SUBSET Markers, told : BOOLEAN]
          /\ t[m].marks \subseteq task[m].marks \cup {"snapshot"}
          /\ task[m].marks \subseteq t[m].marks
          /\ t[m].token = task[m].token
    BY <1>1, Names DEF Tasks, TypeOK
  <2>2. t \in Tasks BY <2>1 DEF Tasks
  <2>3. task' = t \/ task' = BothInPhase(t, "DONE") BY <1>early DEF Early
  <2> HIDE DEF t
  <2>4. Unspent(t) BY <2>1, <2>2, GateNames DEF Unspent, Done
  <2>5. Unspent(task') BY <2>3, <2>4, InPhaseUnspent, Names
  <2> QED BY <1>early, <2>5, <1>5 DEF Early, operVars
<1>7. /\ Unspent(InPhase(task, on, "BUSY"))
      /\ \A k \in Markers \ GateMarkers :
           Unspent(Marked(task, on, {k})) /\ Unspent(Marked(InPhase(task, on, "BUSY"), on, {k}))
      /\ \A p \in Phases : Unspent(BothInPhase(task, p))
  BY MarkedUnspent, InPhaseUnspent, Names
<1>image. CASE EnsureImage
  <2>1. \/ task' = task \/ task' = InPhase(task, on, "BUSY") \/ FailAs(task, on)
        \/ task' = Marked(task, on, {"ensure_image"})
        \/ task' = Marked(InPhase(task, on, "BUSY"), on, {"ensure_image"})
    BY <1>image DEF EnsureImage, Park
  <2>2. Unspent(task') BY <2>1, <1>7, FailUnspent, GateNames
  <2> QED BY <1>image, <2>2, <1>5 DEF EnsureImage, operVars
<1>staged. CASE Staged \/ Complete
  <2>1. task' = task \/ task' = BothInPhase(task, "DONE") BY <1>staged DEF Staged, Complete
  <2>2. Unspent(task') BY <2>1, <1>7, Names
  <2> QED BY <1>staged, <2>2, <1>5 DEF Staged, Complete, operVars
<1>hold. CASE HoldGate
  <2>1. first \in Members BY <1>hold, <1>4 DEF HoldGate, RestSteps
  <2>2. \/ task' = task \/ task' = BothInPhase(task, "AWAITING_INSTALL_CONFIRM")
        \/ /\ \E m \in Members : task[m].token # ""
           /\ task' = Marked(Consumed(task, Members), first, {"install_confirmed"})
    BY <1>hold DEF HoldGate
  <2>3. Unspent(BothInPhase(task, "AWAITING_INSTALL_CONFIRM")) BY <1>7, Names
  <2>4. Members \in SUBSET Members /\ "install_confirmed" \in GateMarkers
    BY DEF GateMarkers
  <2>5. clicks' = clicks BY <1>hold DEF HoldGate, operVars
  <2> QED BY <2>1, <2>2, <2>3, <2>4, <2>5 DEF Spends, PaidGate
<1>member. CASE SuspendHa \/ InstallSkip \/ InstallRequest \/ Reboot \/ ResumeHa
  <2>1. \/ task' = task \/ task' = InPhase(task, on, "BUSY") \/ FailAs(task, on)
        \/ \E k \in Markers \ GateMarkers :
             \/ task' = Marked(task, on, {k})
             \/ task' = Marked(InPhase(task, on, "BUSY"), on, {k})
    BY <1>member, GateNames DEF SuspendHa, InstallSkip, InstallRequest, Reboot, ResumeHa, Park
  <2>2. Unspent(task') BY <2>1, <1>7, FailUnspent
  <2> QED
    BY <1>member, <2>2, <1>5
    DEF SuspendHa, InstallSkip, InstallRequest, Reboot, ResumeHa, operVars
<1>wait. CASE InstallPoll \/ RebootWait \/ PassiveWait
  <2> DEFINE D == {"install_issued", "software_installed", "reboot_issued", "ha_resumed"}
  <2>1. \/ task' = task \/ FailAs(task, on)
        \/ \E k \in D : \/ FailAs(Unmarked(task, on, {k}), on)
                        \/ \E j \in Markers \ GateMarkers :
                             task' = Marked(Unmarked(task, on, {k}), on, {j})
    BY <1>wait, GateNames DEF InstallPoll, RebootWait, PassiveWait, Park
  <2>2. \A k \in D : Unspent(Unmarked(task, on, {k})) BY UnmarkedUnspent, GateNames
  <2> HIDE DEF D
  <2>3. Unspent(task') BY <2>1, <2>2, FailUnspent, MarkedUnspent
  <2> QED BY <1>wait, <2>3, <1>5 DEF InstallPoll, RebootWait, PassiveWait, operVars
<1>rgate. CASE RebootGate
  <2>1. "reboot_confirmed" \in GateMarkers BY DEF GateMarkers
  <2>2. \/ task' = task
        \/ Gate(on, "reboot_confirmed", "AWAITING_REBOOT_CONFIRM", "reboot", on)
    BY <1>rgate DEF RebootGate
  <2> QED BY <1>rgate, <2>1, <2>2, <1>1, <1>5, GateSpends, Names DEF RebootGate, operVars
<1>fgate. CASE FailoverGate
  <2>1. "failover_confirmed" \in GateMarkers /\ first \in Members
    BY <1>fgate, <1>4 DEF GateMarkers, FailoverGate, RestSteps
  <2>2. \/ task' = task
        \/ Gate(first, "failover_confirmed", "AWAITING_FAILOVER_CONFIRM", "failover", first)
    BY <1>fgate DEF FailoverGate
  <2> QED BY <1>fgate, <2>1, <2>2, <1>1, <1>5, GateSpends, Names DEF FailoverGate, operVars
<1>pgate. CASE PrimaryGate
  <2>1. "primary_upgrade_confirmed" \in GateMarkers BY DEF GateMarkers
  <2>2. \/ task' = task
        \/ Gate(on, "primary_upgrade_confirmed", "AWAITING_PRIMARY_UPGRADE_CONFIRM",
                "suspend", on)
    BY <1>pgate DEF PrimaryGate
  <2> QED BY <1>pgate, <2>1, <2>2, <1>1, <1>5, GateSpends, Names DEF PrimaryGate, operVars
<1>failover. CASE Failover
  <2>1. first \in Members BY <1>failover, <1>4 DEF Failover, RestSteps
  <2> DEFINE t == InPhase(task, first, "BUSY")
  <2>2. Unspent(t) BY <2>1, InPhaseUnspent, Names
  <2>3. task' = t \/ FailAs(t, first) \/ FailBoth(t) \/ task' = Marked(t, first, {"failover"})
    BY <1>failover DEF Failover
  <2> HIDE DEF t
  <2>4. Unspent(task') BY <2>1, <2>2, <2>3, FailUnspent, MarkedUnspent, GateNames
  <2> QED BY <1>failover, <2>4, <1>5 DEF Failover, operVars
<1>finish. CASE Finish \/ Crash
  <2>1. task' = task \/ task' = FailedOpen(task) BY <1>finish DEF Finish, Crash
  <2>2. Unspent(task') BY <2>1, FailedOpenUnspent
  <2> QED BY <1>finish, <2>2, <1>5 DEF Finish, Crash, operVars
<1>heal. CASE Heal
  <2>1. Unspent([task EXCEPT ![on].told = TRUE]) BY DEF Unspent, Tasks
  <2>2. task' = task \/ task' = [task EXCEPT ![on].told = TRUE] BY <1>heal DEF Heal
  <2> QED BY <1>heal, <2>1, <2>2, <1>5 DEF Heal, operVars
<1>click. ASSUME NEW m \in Members, Confirm(m) \/ Override(m) \/ Rerun(m)
          PROVE  Spends
  <2>1. \E c \in Tokens : Click(m, c)
    BY <1>click DEF Confirm, Override, Rerun, Tokens
  <2> QED BY <2>1 DEF Click, Clicked, Spends
<1>retry. ASSUME NEW m \in Members, Retry(m)
          PROVE  Spends
  <2>1. Unspent(task') BY <1>retry, InPhaseUnspent, Names DEF Retry
  <2> QED BY <1>retry, <2>1, <1>5 DEF Retry
<1>world. CASE World
  BY <1>world, <1>5 DEF World, RestEnds, Sync, InstallEnds, Boot, SettleHa, others
<1> QED
  BY <1>begin, <1>same, <1>unclear, <1>check, <1>early, <1>image, <1>staged, <1>hold,
     <1>member, <1>wait, <1>rgate, <1>fgate, <1>pgate, <1>failover, <1>finish, <1>heal,
     <1>click, <1>retry, <1>world
  DEF Next, Drive, Operator

-------------------------------------------------------------------------------
(* Gates and clicks.                                                       *)

(* What is counted is finite.                                              *)
LEMMA CountedFinite ==
  /\ \A S \in SUBSET (Members \X GateMarkers) : IsFiniteSet(S)
  /\ \A S \in SUBSET Members : IsFiniteSet(S)
<1>1. IsFiniteSet(Members) /\ IsFiniteSet(GateMarkers)
  <2>1. IsFiniteSet({A}) /\ IsFiniteSet({"install_confirmed"}) BY FS_Singleton
  <2>2. IsFiniteSet({A} \cup {B}) BY <2>1, FS_AddElement
  <2>3. IsFiniteSet({"install_confirmed"} \cup {"reboot_confirmed"}) BY <2>1, FS_AddElement
  <2>4. IsFiniteSet({"install_confirmed"} \cup {"reboot_confirmed"} \cup {"failover_confirmed"})
    BY <2>3, FS_AddElement
  <2>5. IsFiniteSet({"install_confirmed"} \cup {"reboot_confirmed"} \cup {"failover_confirmed"}
                      \cup {"primary_upgrade_confirmed"})
    BY <2>4, FS_AddElement
  <2>6. /\ {A} \cup {B} = Members
        /\ {"install_confirmed"} \cup {"reboot_confirmed"} \cup {"failover_confirmed"}
             \cup {"primary_upgrade_confirmed"} = GateMarkers
    BY DEF Members, GateMarkers
  <2> QED BY <2>2, <2>5, <2>6
<1>2. IsFiniteSet(Members \X GateMarkers) BY <1>1, FS_Product
<1> QED BY <1>1, <1>2, FS_Subset

(* A set that gains at most one element counts at most one more.             *)
LEMMA OneMore ==
  ASSUME NEW S, IsFiniteSet(S), NEW x, NEW T, T \subseteq S \cup {x}
  PROVE  /\ IsFiniteSet(T) /\ Cardinality(T) <= Cardinality(S) + 1
         /\ Cardinality(T) \in Nat /\ Cardinality(S) \in Nat
<1>1. /\ IsFiniteSet(S \cup {x})
      /\ Cardinality(S \cup {x}) <= Cardinality(S) + 1
  <2>1. /\ IsFiniteSet(S \cup {x})
        /\ Cardinality(S \cup {x}) = IF x \in S THEN Cardinality(S) ELSE Cardinality(S) + 1
    BY FS_AddElement
  <2>2. Cardinality(S) \in Nat BY FS_CardinalityType
  <2> QED BY <2>1, <2>2
<1>2. IsFiniteSet(T) /\ Cardinality(T) <= Cardinality(S \cup {x})
  BY <1>1, FS_Subset
<1>3. /\ Cardinality(S) \in Nat /\ Cardinality(T) \in Nat /\ Cardinality(S \cup {x}) \in Nat
  BY <1>1, <1>2, FS_CardinalityType
<1> QED BY <1>1, <1>2, <1>3

(* A set that loses an element and gains none counts at least one less.      *)
LEMMA OneLess ==
  ASSUME NEW S, IsFiniteSet(S), NEW x \in S, NEW T, T \subseteq S \ {x}
  PROVE  /\ Cardinality(T) + 1 <= Cardinality(S)
         /\ Cardinality(T) \in Nat /\ Cardinality(S) \in Nat
<1>1. /\ IsFiniteSet(S \ {x}) /\ Cardinality(S \ {x}) = Cardinality(S) - 1
  BY FS_RemoveElement
<1>2. IsFiniteSet(T) /\ Cardinality(T) <= Cardinality(S \ {x})
  BY <1>1, FS_Subset
<1>3. /\ Cardinality(S) \in Nat /\ Cardinality(T) \in Nat /\ Cardinality(S \ {x}) \in Nat
  BY <1>1, <1>2, FS_CardinalityType
<1> QED BY <1>1, <1>2, <1>3

(* Every step keeps the count.                                               *)
LEMMA StepClicks ==
  ASSUME IInv, ClickInv, Spends
  PROVE  ClickInv'
<1>0. TypeOK BY DEF IInv
<1>1. /\ IsFiniteSet(Passed) /\ IsFiniteSet(Answered)
      /\ IsFiniteSet(Passed') /\ IsFiniteSet(Answered')
  BY CountedFinite DEF Passed, Answered
<1>2. /\ Cardinality(Passed) \in Nat /\ Cardinality(Answered) \in Nat
      /\ Cardinality(Passed') \in Nat /\ Cardinality(Answered') \in Nat
  BY <1>1, FS_CardinalityType
<1>3. clicks \in Nat BY <1>0, BoundAssumption DEF TypeOK
<1>4. CASE Unspent(task') /\ clicks' = clicks
  <2>1. Passed' \subseteq Passed /\ Answered' \subseteq Answered
    BY <1>4 DEF Unspent, Passed, Answered, Done
  <2>2. /\ Cardinality(Passed') <= Cardinality(Passed)
        /\ Cardinality(Answered') <= Cardinality(Answered)
    BY <1>1, <2>1, FS_Subset
  <2> QED BY <1>2, <1>3, <1>4, <2>2 DEF ClickInv
<1>5. CASE PaidGate
  <2>1. PICK m \in Members, k \in GateMarkers, M \in SUBSET Members :
          /\ task' = Marked(Consumed(task, M), m, {k})
          /\ \E n \in M : task[n].token # ""
    BY <1>5 DEF PaidGate
  <2>2. PICK n \in M : task[n].token # "" BY <2>1
  <2> DEFINE t == Consumed(task, M)
  <2>3. \A j \in Members : /\ t[j].marks = task[j].marks
                           /\ t[j].token = IF j \in M THEN "" ELSE task[j].token
    BY <1>0 DEF Consumed, TypeOK, Tasks
  <2>4. t \in Tasks
    <3>1. "" \in Tokens BY DEF Tokens
    <3> QED BY <3>1, <1>0 DEF Consumed, TypeOK, Tasks
  <2>5. task' = Marked(t, m, {k}) BY <2>1
  <2> HIDE DEF t
  <2>6. \A j \in Members : /\ task'[j].marks = t[j].marks \cup (IF j = m THEN {k} ELSE {})
                           /\ task'[j].token = t[j].token
    BY <2>4, <2>5 DEF Marked, Tasks
  <2>7. Passed' \subseteq Passed \cup {<<m, k>>}
    <3>1. ASSUME NEW j \in Members, NEW g \in GateMarkers, g \in task'[j].marks
          PROVE  g \in task[j].marks \/ <<j, g>> = <<m, k>>
      BY <2>3, <2>6, <3>1
    <3> QED BY <3>1 DEF Passed, Done
  <2>8. n \in Answered /\ Answered' \subseteq Answered \ {n}
    BY <2>2, <2>3, <2>6 DEF Answered
  <2>9. Cardinality(Passed') <= Cardinality(Passed) + 1
    BY <1>1, <2>7, OneMore
  <2>10. Cardinality(Answered') + 1 <= Cardinality(Answered)
    BY <1>1, <2>8, OneLess
  <2>11. clicks' = clicks BY <1>5 DEF PaidGate
  <2> QED BY <1>2, <1>3, <2>9, <2>10, <2>11 DEF ClickInv
<1>6. CASE Clicked
  <2>1. PICK m \in Members, c \in Tokens : task' = [task EXCEPT ![m].token = c]
    BY <1>6 DEF Clicked
  <2>2. \A j \in Members : /\ task'[j].marks = task[j].marks
                           /\ j # m => task'[j].token = task[j].token
    BY <1>0, <2>1 DEF TypeOK, Tasks
  <2>3. Passed' \subseteq Passed /\ Answered' \subseteq Answered \cup {m}
    BY <2>2 DEF Passed, Answered, Done
  <2>4. Cardinality(Passed') <= Cardinality(Passed)
    BY <1>1, <2>3, FS_Subset
  <2>5. Cardinality(Answered') <= Cardinality(Answered) + 1
    BY <1>1, <2>3, OneMore
  <2> QED BY <1>2, <1>3, <1>6, <2>4, <2>5 DEF ClickInv, Clicked
<1> QED BY <1>4, <1>5, <1>6 DEF Spends

(* Before the first click nothing is passed and nothing answered.            *)
LEMMA InitClicks == Init => ClickInv
<1> SUFFICES ASSUME Init PROVE ClickInv OBVIOUS
<1>1. Passed = {} /\ Answered = {} BY DEF Init, Passed, Answered, Done
<1>2. clicks = 0 BY DEF Init
<1>3. Cardinality(Passed) = 0 /\ Cardinality(Answered) = 0 BY <1>1, FS_EmptySet
<1> QED BY <1>2, <1>3 DEF ClickInv

(* Every gate passed was paid for by one click of the operator, however many *)
(* dispatches found its token.                                               *)
THEOREM ClickPaysOneGate == Spec => []OneClickOneGate
<1>1. IInv /\ ClickInv /\ [Next]_vars => ClickInv'
  <2> SUFFICES ASSUME IInv, ClickInv, [Next]_vars PROVE ClickInv' OBVIOUS
  <2>1. CASE UNCHANGED vars
    BY <2>1 DEF vars, ClickInv, Passed, Answered, Done
  <2>2. CASE Next BY <2>2, StepSpends, StepClicks
  <2> QED BY <2>1, <2>2
<1>2. IInv /\ ClickInv => OneClickOneGate
  <2> SUFFICES ASSUME IInv, ClickInv PROVE OneClickOneGate OBVIOUS
  <2>1. Cardinality(Passed) \in Nat /\ Cardinality(Answered) \in Nat
    BY CountedFinite, FS_CardinalityType DEF Passed, Answered
  <2>2. clicks \in Nat BY BoundAssumption DEF IInv, TypeOK
  <2>3. Cardinality(Passed) <= clicks BY <2>1, <2>2 DEF ClickInv
  <2> QED BY <2>3 DEF OneClickOneGate, Passed
<1> QED BY <1>1, <1>2, InitClicks, Invariant, PTL DEF Spec

-------------------------------------------------------------------------------
(* Prechecks and staging.                                                  *)

(* A member that is disturbed was so before, unless the drive is at work.   *)
Quiet(d) ==
  (\E m \in Members : ~d[m].up \/ d[m].ver = "target" \/ d[m].inst # "none"
                        \/ d[m].ha = "suspended")
    => Disturbed \/ at \in WorkSteps

(* What was checked or released stays so.                                  *)
LEMMA MarksKept ==
  ASSUME TypeOK, Spends
  PROVE  \A m \in Members, k \in Kept : Done(m, k) => Done(m, k)'
<1>1. CASE Unspent(task') BY <1>1 DEF Unspent, Done
<1>2. CASE PaidGate
  <2>1. PICK m \in Members, k \in GateMarkers, M \in SUBSET Members :
          task' = Marked(Consumed(task, M), m, {k})
    BY <1>2 DEF PaidGate
  <2>2. /\ Consumed(task, M) \in Tasks
        /\ \A j \in Members : Consumed(task, M)[j].marks = task[j].marks
    <3>1. "" \in Tokens BY DEF Tokens
    <3> QED BY <3>1 DEF Consumed, TypeOK, Tasks
  <2> QED BY <2>1, <2>2 DEF Marked, Tasks, Done
<1>3. CASE Clicked BY <1>3 DEF Clicked, TypeOK, Tasks, Done
<1> QED BY <1>1, <1>2, <1>3 DEF Spends

(* Resuming a member and settling its HA disturb none.                      *)
LEMMA ResumedQuiet ==
  ASSUME TypeOK, NEW m \in Members
  PROVE  /\ Quiet(Resumed(m))
         /\ \A W \in SUBSET Members :
              Quiet([n \in Members |-> IF n \in W THEN Resumed(n)[n] ELSE dev[n]])
<1>1. \A n \in Members, j \in Members :
        /\ Resumed(n)[j].up = dev[j].up /\ Resumed(n)[j].ver = dev[j].ver
        /\ Resumed(n)[j].inst = dev[j].inst
        /\ Resumed(n)[j].ha = "suspended" => dev[j].ha = "suspended"
  BY DEF Resumed, TypeOK, Devices
<1> QED BY <1>1 DEF Quiet, Disturbed, Touched

(* Only the drive at work disturbs a firewall: one step per action of Next  *)
(* that acts on one.                                                        *)
LEMMA StepQuiet ==
  ASSUME IInv, Next
  PROVE  Quiet(dev')
<1>1. TypeOK BY DEF IInv
<1>2. on \in Members BY <1>1 DEF TypeOK
<1>3. Quiet(dev) BY <1>1 DEF Quiet, Disturbed, Touched, TypeOK, Devices, Versions
<1>4. at \in WorkSteps => Quiet(dev') BY DEF Quiet
<1>same. CASE dev' = dev BY <1>same, <1>3
<1>unclear. CASE RolesUnclear
  <2>1. \E W \in SUBSET Members :
          dev' = [m \in Members |-> IF m \in W THEN Resumed(m)[m] ELSE dev[m]]
    BY <1>unclear DEF RolesUnclear
  <2> QED BY <2>1, <1>1, <1>2, ResumedQuiet
<1>work. CASE SuspendHa \/ InstallRequest \/ Reboot \/ ResumeHa \/ Failover \/ Complete
  BY <1>work, <1>4
  DEF SuspendHa, InstallRequest, Reboot, ResumeHa, Failover, Complete, WorkSteps, UpgradeSteps
<1>5. at \notin WorkSteps => Calls = {} BY DEF Calls, WorkSteps, UpgradeSteps
<1>cut. CASE Crash \/ Kill
  BY <1>cut, <1>3, <1>4, <1>5 DEF Crash, Kill, WorkSteps
<1>heal. CASE Heal BY <1>heal, <1>1, <1>2, <1>3, ResumedQuiet DEF Heal
<1>ends. ASSUME NEW m \in Members, InstallEnds(m)
         PROVE  Quiet(dev')
  BY <1>ends, <1>1 DEF InstallEnds, Quiet, Disturbed, Touched, TypeOK, Devices
<1>up. ASSUME NEW m \in Members, Boot(m)
       PROVE  Quiet(dev')
  BY <1>up, <1>1 DEF Boot, Quiet, Disturbed, Touched
<1>ha. ASSUME NEW m \in Members, SettleHa(m)
       PROVE  Quiet(dev')
  BY <1>ha, <1>1 DEF SettleHa, Quiet, Disturbed, Touched, TypeOK, Devices
<1>drive. CASE Drive /\ ~(RolesUnclear \/ SuspendHa \/ InstallRequest \/ Reboot \/ ResumeHa
                          \/ Failover \/ Complete \/ Crash \/ Kill \/ Heal)
  BY <1>drive, <1>same
  DEF Drive, Begin, DropDuplicate, Classify, CheckSkip, CheckOverride, RunCheck,
      CheckRaises, Early, EnsureImage, Staged, HoldGate, InstallSkip, InstallPoll,
      RebootGate, RebootWait, PassiveWait, FailoverGate, PrimaryGate, Finish, Close
<1>op. CASE Operator
  BY <1>op, <1>same
  DEF Operator, Start, Abort, Confirm, Override, Rerun, Click, Retry, driveVars
<1>still. ASSUME RestEnds \/ (\E m \in Members : Sync(m))
          PROVE  Quiet(dev')
  BY <1>still, <1>same DEF RestEnds, Sync
<1> QED
  BY <1>unclear, <1>work, <1>cut, <1>heal, <1>ends, <1>up, <1>ha, <1>drive, <1>op, <1>still
  DEF Next, World

(* A step that ends the drive, starts it or leaves it where it is.          *)
LEMMA RestBehind ==
  ASSUME IInv, PlaceBehind, Spends, policy' = policy,
         at' \in RestSteps \/ (at' = at /\ on' = on /\ first' = first)
  PROVE  PlaceBehind'
<1>1. TypeOK BY DEF IInv
<1>2. \A m \in Members, k \in Kept : Done(m, k) => Done(m, k)'
  BY <1>1, MarksKept
<1>3. CASE at' \in RestSteps
  BY <1>3 DEF RestSteps, PlaceBehind, PrepSteps, WorkSteps, UpgradeSteps
<1>4. CASE at' = at /\ on' = on /\ first' = first
  <2>1. Prechecked => Prechecked' BY <1>2 DEF Prechecked, Kept
  <2>2. ~StagedJob => ~StagedJob' BY <1>2 DEF StagedJob, Kept
  <2>3. at = "precheck" /\ on # first => Done(first, "precheck")'
    <3>1. first \in Members \/ at # "precheck"
      BY <1>1 DEF IInv, UnchosenInv, TypeOK, RestSteps
    <3> QED BY <1>2, <1>4, <3>1 DEF PlaceBehind, Kept, Done
  <2> QED BY <1>4, <2>1, <2>2, <2>3 DEF PlaceBehind, Done
<1> QED BY <1>3, <1>4

(* A step of the drive that goes on past both prechecks: it may go where    *)
(* the policy and the operator let it.                                      *)
LEMMA OnwardBehind ==
  ASSUME TypeOK, Spends, Prechecked, at' # "precheck",
         at' \in WorkSteps \cup {"hold"} => policy'.mode # "stage_only",
         at' \in WorkSteps => ~StagedJob'
  PROVE  PlaceBehind'
<1>1. Prechecked' BY MarksKept DEF Prechecked, Kept
<1> QED BY <1>1 DEF PlaceBehind

(* The step keeps what is behind the drive: one step per action of Next.      *)
LEMMA StepBehind ==
  ASSUME IInv, PlaceBehind, Next, Spends
  PROVE  PlaceBehind'
<1>1. TypeOK BY DEF IInv
<1>2. policy' = policy
  BY StepEffect DEF StepOK
<1>3. \A m \in Members, k \in Kept : Done(m, k) => Done(m, k)'
  BY <1>1, MarksKept
<1>4. at \notin RestSteps => first \in Members /\ Second \in Members /\ Second # first
  BY <1>1, OtherMember DEF IInv, UnchosenInv, TypeOK, Second
<1>5. ~StagedJob => ~StagedJob' BY <1>2, <1>3 DEF StagedJob, Kept
<1> USE <1>2 DEF Goto, Return, FailAs, FailBoth, Park
<1>rest. CASE at' \in RestSteps \/ (at' = at /\ on' = on /\ first' = first)
  BY <1>rest, RestBehind
<1>6. ASSUME at \in WorkSteps, at' \in WorkSteps
      PROVE  PlaceBehind'
  <2>1. Prechecked /\ policy.mode # "stage_only" /\ ~StagedJob
    BY <1>6 DEF PlaceBehind
  <2> QED BY <1>1, <1>5, <1>6, <2>1, OnwardBehind DEF WorkSteps, UpgradeSteps
<1>work. CASE SuspendHa \/ InstallSkip \/ InstallRequest \/ InstallPoll \/ RebootGate \/ Reboot
              \/ RebootWait \/ ResumeHa \/ PassiveWait
  <2>1. at \in WorkSteps /\ at' \in WorkSteps \cup RestSteps
    BY <1>work
    DEF SuspendHa, InstallSkip, InstallRequest, InstallPoll, RebootGate, Gate, Reboot,
        RebootWait, ResumeHa, PassiveWait, WorkSteps, UpgradeSteps, RestSteps
  <2> QED BY <2>1, <1>6, <1>rest
<1>over. CASE FailoverGate \/ Failover \/ PrimaryGate \/ Complete
  <2>1. at \in WorkSteps /\ at' \in WorkSteps \cup RestSteps
    BY <1>over
    DEF FailoverGate, Gate, Failover, PrimaryGate, Complete, WorkSteps, UpgradeSteps, RestSteps
  <2> QED BY <2>1, <1>6, <1>rest
<1>7. ASSUME InCheck, AfterCheck, first' = first, at \in task'[on].marks
      PROVE  PlaceBehind'
  <2>1. CASE at = "postcheck"
    <3>1. at \in WorkSteps /\ at' \in WorkSteps
      BY <1>7, <2>1 DEF AfterCheck, WorkSteps, UpgradeSteps
    <3> QED BY <3>1, <1>6
  <2>2. CASE at = "precheck" /\ on = first
    <3>1. at' = "precheck" /\ on' = Second
      BY <1>7, <2>2 DEF AfterCheck
    <3>2. Done(first, "precheck")' BY <1>7, <2>2 DEF Done
    <3> QED BY <3>1, <3>2 DEF PlaceBehind, PrepSteps, WorkSteps, UpgradeSteps
  <2>3. CASE at = "precheck" /\ on # first
    <3>1. at' = "early" BY <1>7, <2>3 DEF AfterCheck
    <3>2. first \in Members /\ on \in Members BY <1>1, <1>4, <2>3 DEF RestSteps, TypeOK
    <3>3. "precheck" \in task'[first].marks
      BY <1>3, <2>3, <3>2 DEF PlaceBehind, Kept, Done
    <3>4. \A m \in Members : m = on \/ m = first
      BY <2>3, <3>2, OtherMember
    <3>5. Prechecked' BY <1>7, <2>3, <3>3, <3>4 DEF Prechecked, Done
    <3> QED BY <3>1, <3>5 DEF PlaceBehind, PrepSteps, WorkSteps, UpgradeSteps
  <2> QED BY <1>7, <2>1, <2>2, <2>3 DEF InCheck
<1>8. /\ Consumed(task, {on}) \in Tasks /\ Unparked \in Tasks
      /\ \A t \in Tasks : at \in Marked(t, on, {at})[on].marks
  <2>1. on \in Members BY <1>1 DEF TypeOK
  <2>2. Unspent(Consumed(task, {on})) /\ Unspent(Unparked)
    BY <1>1, <2>1, UnspentNow, ConsumedUnspent, InPhaseUnspent, Names DEF Unparked
  <2> QED BY <2>1, <2>2, MarkedHas DEF Unspent
<1>skip. CASE CheckSkip BY <1>skip, <1>7 DEF CheckSkip, Done
<1>check. CASE CheckOverride \/ RunCheck \/ CheckRaises
  <2>1. /\ first' = first /\ InCheck
        /\ \/ at' \in RestSteps
           \/ /\ AfterCheck
              /\ \/ task' = Marked(Consumed(task, {on}), on, {at})
                 \/ task' = Marked(Unparked, on, {at})
    BY <1>check DEF CheckOverride, RunCheck, CheckRaises, MayRun, RestSteps
  <2> QED BY <2>1, <1>7, <1>8, <1>rest
<1>9. ASSUME at \in PrepSteps, at' \in {"image", "staged"}
      PROVE  PlaceBehind'
  BY <1>1, <1>9, OnwardBehind DEF PlaceBehind, WorkSteps, UpgradeSteps
<1>early. CASE Early
  <2>1. at = "early" /\ at' \in {"image", "finish"} BY <1>early DEF Early
  <2> QED BY <2>1, <1>9, <1>rest DEF PrepSteps, RestSteps
<1>image. CASE EnsureImage
  <2>1. at = "image" /\ at' \in {"image", "staged", "finish"}
    BY <1>image DEF EnsureImage, AfterImage
  <2> QED BY <2>1, <1>9, <1>rest DEF PrepSteps, RestSteps
<1>staged. CASE Staged
  <2>1. at = "staged" /\ Prechecked
    BY <1>staged DEF Staged, PlaceBehind, PrepSteps
  <2>2. at' = "finish" \/ (at' = "hold" /\ policy.mode # "stage_only")
    BY <1>staged DEF Staged
  <2> QED BY <1>1, <2>1, <2>2, <1>rest, OnwardBehind DEF RestSteps, WorkSteps, UpgradeSteps
<1>hold. CASE HoldGate
  <2>1. at = "hold" /\ Prechecked /\ policy.mode # "stage_only" /\ first \in Members
    BY <1>hold, <1>4 DEF HoldGate, PlaceBehind, PrepSteps, RestSteps
  <2>2. CASE at' = "finish" BY <2>2, <1>rest DEF RestSteps
  <2>3. CASE /\ at' = "suspend"
             /\ policy.mode # "hold" \/ "install_confirmed" \in task'[first].marks
    <3>1. ~StagedJob' BY <2>1, <2>3 DEF StagedJob, Done
    <3> QED BY <1>1, <2>1, <2>3, <3>1, OnwardBehind
  <2>4. Unspent(Consumed(task, Members)) BY <1>1, UnspentNow, ConsumedUnspent
  <2>5. "install_confirmed" \in Marked(Consumed(task, Members), first,
                                       {"install_confirmed"})[first].marks
    BY <2>1, <2>4, MarkedHas DEF Unspent
  <2> QED BY <1>hold, <2>2, <2>3, <2>5 DEF HoldGate, Done
<1>class. CASE Classify
  BY <1>class DEF Classify, PlaceBehind, PrepSteps, WorkSteps, UpgradeSteps
<1>back. CASE Begin \/ RolesUnclear \/ Finish \/ Heal \/ Close \/ Crash \/ Kill
  BY <1>back, <1>rest DEF Begin, RolesUnclear, Finish, Heal, Close, Crash, Kill, RestSteps
<1>dup. CASE DropDuplicate BY <1>dup, <1>rest DEF DropDuplicate
<1>op. CASE Operator
  BY <1>op, <1>rest
  DEF Operator, Start, Abort, Confirm, Override, Rerun, Click, Retry, driveVars
<1>world. CASE World
  BY <1>world, <1>rest DEF World, RestEnds, Sync, InstallEnds, Boot, SettleHa, others
<1> QED
  BY <1>work, <1>over, <1>skip, <1>check, <1>early, <1>image, <1>staged, <1>hold, <1>class,
     <1>back, <1>dup, <1>op, <1>world
  DEF Next, Drive

(* Every step keeps the invariant.                                         *)
LEMMA StepGates == IInv /\ GateInv /\ [Next]_vars => GateInv'
<1> SUFFICES ASSUME IInv, GateInv, [Next]_vars PROVE GateInv' OBVIOUS
<1>1. CASE UNCHANGED vars
  BY <1>1
  DEF vars, GateInv, PlaceBehind, Prechecked, StagedJob, Disturbed, Touched, Done
<1>2. CASE Next
  <2>1. TypeOK BY DEF IInv
  <2>2. Spends BY <1>2, StepSpends
  <2>3. PlaceBehind' BY <1>2, <2>2, StepBehind DEF GateInv
  <2>4. policy' = policy BY <1>2, StepEffect DEF StepOK
  <2>5. Disturbed' => Disturbed \/ at \in WorkSteps
    BY <1>2, StepQuiet DEF Quiet, Disturbed, Touched
  <2>6. Disturbed' => Prechecked /\ ~StagedJob
    BY <2>5 DEF GateInv, PlaceBehind
  <2>7. \A m \in Members, k \in Kept : Done(m, k) => Done(m, k)'
    BY <2>1, <2>2, MarksKept
  <2>8. (Prechecked => Prechecked') /\ (~StagedJob => ~StagedJob')
    BY <2>4, <2>7 DEF Prechecked, StagedJob, Kept
  <2> QED BY <2>3, <2>6, <2>8 DEF GateInv
<1> QED BY <1>1, <1>2

(* A pair no member of which was suspended when the job was created.       *)
SettledPair == \A m \in Members : dev[m].ha # "suspended"

(* Nothing is disturbed when the job is created.                            *)
LEMMA InitGates == Init /\ SettledPair => GateInv
<1> SUFFICES ASSUME Init, SettledPair PROVE GateInv OBVIOUS
<1>1. at = "idle" BY DEF Init
<1>2. \A m \in Members : dev[m].up /\ dev[m].ver = "old" /\ dev[m].inst = "none"
  <2>1. PICK ha \in HaStarts :
          dev = [m \in Members |-> [up |-> TRUE, ver |-> "old", ha |-> ha[m], inst |-> "none"]]
    BY DEF Init
  <2> QED BY <2>1
<1> QED
  BY <1>1, <1>2
  DEF GateInv, PlaceBehind, PrepSteps, WorkSteps, UpgradeSteps, Disturbed, Touched,
      SettledPair

(* No firewall of such a pair is touched or suspended before the prechecks *)
(* of both members passed or were overridden.                              *)
THEOREM ChecksComeFirst == Spec /\ SettledPair => []CheckedBeforeTouched
<1>1. GateInv => CheckedBeforeTouched
  BY DEF GateInv, CheckedBeforeTouched, Disturbed, Prechecked
<1> QED BY <1>1, InitGates, StepGates, Invariant, PTL DEF Spec

(* Nor does staging touch or suspend one, even when its drive fails or      *)
(* crashes.                                                                 *)
THEOREM StagingIsHarmless == Spec /\ SettledPair => []StagingTouchesNothing
<1>1. GateInv => StagingTouchesNothing
  BY DEF GateInv, StagingTouchesNothing, Disturbed, StagedJob
<1> QED BY <1>1, InitGates, StepGates, Invariant, PTL DEF Spec

-------------------------------------------------------------------------------
(* The member upgraded first rejoins the pair.                             *)

(* What is behind the drive holds of every pair, settled or not.           *)
LEMMA BehindInvariant == Spec => []PlaceBehind
<1>1. Init => PlaceBehind
  BY DEF Init, PlaceBehind, PrepSteps, WorkSteps, UpgradeSteps
<1>2. IInv /\ PlaceBehind /\ [Next]_vars => PlaceBehind'
  <2> SUFFICES ASSUME IInv, PlaceBehind, [Next]_vars PROVE PlaceBehind' OBVIOUS
  <2>1. CASE UNCHANGED vars
    BY <2>1 DEF vars, PlaceBehind, Prechecked, StagedJob, Done
  <2>2. CASE Next BY <2>2, StepSpends, StepBehind
  <2> QED BY <2>1, <2>2
<1> QED BY <1>1, <1>2, Invariant, PTL DEF Spec

(* Whom the property is about, and what it asks of him.                     *)
Subject(m) == first = NoMember \/ m = first
Over(m) == task[m].phase \in {"DONE", "FAILED"}
Rejoined(m) == dev[m].ha # "suspended" \/ task[m].told

(* Before a first member is chosen the rows know who is suspended and who   *)
(* is passive; afterwards the marker knows that the first one is suspended. *)
(* The drive comes to rest through the healing of both members.             *)
AsleepInv ==
  /\ first = NoMember => \A m \in Members :
        /\ dev[m].ha = "suspended" => row[m].ha = "suspended"
        /\ row[m].ha = "passive" => dev[m].ha = "passive"
  /\ first # NoMember /\ dev[first].ha = "suspended" =>
        Done(first, "suspend_ha") /\ policy.mode # "stage_only"
HealedInv ==
  /\ at \in {"idle", "close"} => \A m \in Members : Subject(m) /\ Over(m) => Rejoined(m)
  /\ at \in {"heal", "cleanup"} /\ on = B => (Subject(A) => Rejoined(A))

(* What the commands make of the HA state of a member.                     *)
LEMMA CommandStates ==
  ASSUME TypeOK, NEW m \in Members
  PROVE  /\ \A n \in Members : dev[n].ha # "suspended" =>
              /\ Resumed(m)[n].ha # "suspended" /\ Installing(m)[n].ha # "suspended"
              /\ Restarted(m)[n].ha # "suspended"
              /\ n # m => Suspended(m)[n].ha # "suspended"
         /\ Resumed(m)[m].ha # "suspended"
         /\ \A n \in Members :
              \/ Resumed(m)[n].ha = dev[n].ha
              \/ dev[n].ha = "suspended" /\ Resumed(m)[n].ha = "initial"
<1>1. dev \in Devices BY DEF TypeOK
<1>2. /\ HandOver(m) \in Devices
      /\ \A n \in Members : HandOver(m)[n].ha \in {dev[n].ha, "active"}
  BY <1>1, OtherMember DEF HandOver, Devices, HaStates
<1>3. \A n \in Members : n # m => Suspended(m)[n].ha \in {dev[n].ha, "active"}
  BY <1>2 DEF Suspended, Devices
<1>4. \A n \in Members : dev[n].ha # "suspended" => Restarted(m)[n].ha # "suspended"
  <2> DEFINE h == HandOver(m)
  <2> DEFINE r == [up |-> FALSE, ver |-> h[m].ver, inst |-> h[m].inst,
                   ha |-> IF h[m].ha = "suspended" THEN "suspended" ELSE "initial"]
  <2>1. Restarted(m) = [h EXCEPT ![m] = r] BY DEF Restarted
  <2>2. r.ha = IF h[m].ha = "suspended" THEN "suspended" ELSE "initial" OBVIOUS
  <2>3. h \in Devices /\ \A n \in Members : h[n].ha \in {dev[n].ha, "active"} BY <1>2
  <2> HIDE DEF h, r
  <2>4. \A n \in Members : Restarted(m)[n] = IF n = m THEN r ELSE h[n]
    BY <2>1, <2>3 DEF Devices
  <2> QED BY <2>2, <2>3, <2>4
<1>5. \A n \in Members : Installing(m)[n].ha = dev[n].ha BY <1>1 DEF Installing, Devices
<1>6. /\ Resumed(m)[m].ha # "suspended"
      /\ \A n \in Members : \/ Resumed(m)[n].ha = dev[n].ha
                            \/ dev[n].ha = "suspended" /\ Resumed(m)[n].ha = "initial"
  BY <1>1 DEF Resumed, Devices
<1> QED BY <1>3, <1>4, <1>5, <1>6

(* A member falls asleep by the suspend of its own upgrade, with its marker, *)
(* or by the failover, which suspends the second one.                        *)
LEMMA StepSleeps ==
  ASSUME IInv, Next, ~policy.failback, policy \notin Killable
  PROVE  \A m \in Members : dev'[m].ha = "suspended" =>
           \/ dev[m].ha = "suspended"
           \/ at = "failover" /\ m = Second
           \/ at = "suspend" /\ "suspend_ha" \in task'[m].marks
<1> DEFINE P == \A m \in Members : dev'[m].ha = "suspended" =>
                  \/ dev[m].ha = "suspended"
                  \/ at = "failover" /\ m = Second
                  \/ at = "suspend" /\ "suspend_ha" \in task'[m].marks
<1> SUFFICES P OBVIOUS
<1>1. TypeOK BY DEF IInv
<1>2. on \in Members BY <1>1 DEF TypeOK
<1>3. at = "failover" => Second \in Members
  BY <1>1, OtherMember DEF IInv, UnchosenInv, RestSteps, TypeOK, Second
<1>same. CASE dev' = dev BY <1>same
<1>unclear. CASE RolesUnclear
  <2>1. PICK W \in SUBSET Members :
          dev' = [m \in Members |-> IF m \in W THEN Resumed(m)[m] ELSE dev[m]]
    BY <1>unclear DEF RolesUnclear
  <2> QED BY <2>1, <1>1, CommandStates
<1>suspend. CASE SuspendHa
  <2>1. InPhase(task, on, "BUSY") \in Tasks
    BY <1>1, <1>2, UnspentNow, InPhaseUnspent, Names DEF Unspent
  <2>2. "suspend_ha" \in Marked(InPhase(task, on, "BUSY"), on, {"suspend_ha"})[on].marks
    BY <1>2, <2>1, MarkedHas
  <2>3. \/ dev' = dev
        \/ /\ at = "suspend" /\ dev' = Suspended(on)
           /\ task' = Marked(InPhase(task, on, "BUSY"), on, {"suspend_ha"})
    BY <1>suspend DEF SuspendHa
  <2> QED BY <2>2, <2>3, <1>same, <1>1, <1>2, CommandStates
<1>member. CASE InstallRequest \/ Reboot \/ ResumeHa \/ Heal
  <2>1. dev' \in {dev, Installing(on), Restarted(on), Resumed(on)}
    BY <1>member DEF InstallRequest, Reboot, ResumeHa, Heal
  <2> QED BY <2>1, <1>same, <1>1, <1>2, CommandStates
<1>failover. CASE Failover \/ Crash
  <2>1. dev' = dev \/ (at = "failover" /\ dev' = Suspended(Second))
    BY <1>failover DEF Failover, Crash, Calls
  <2> QED BY <2>1, <1>same, <1>1, <1>3, CommandStates
<1>complete. CASE Complete BY <1>complete, <1>same DEF Complete
<1>kill. CASE Kill BY <1>kill DEF Kill
<1>ends. ASSUME NEW m \in Members, InstallEnds(m)
         PROVE  P
  BY <1>ends, <1>1 DEF InstallEnds, TypeOK, Devices
<1>up. ASSUME NEW m \in Members, Boot(m)
       PROVE  P
  BY <1>up, <1>1 DEF Boot, TypeOK, Devices
<1>ha. ASSUME NEW m \in Members, SettleHa(m)
       PROVE  P
  BY <1>ha, <1>1 DEF SettleHa, TypeOK, Devices
<1>drive. CASE Drive /\ ~(RolesUnclear \/ SuspendHa \/ InstallRequest \/ Reboot \/ ResumeHa
                          \/ Failover \/ Complete \/ Crash \/ Kill \/ Heal)
  BY <1>drive, <1>same
  DEF Drive, Begin, DropDuplicate, Classify, CheckSkip, CheckOverride, RunCheck,
      CheckRaises, Early, EnsureImage, Staged, HoldGate, InstallSkip, InstallPoll,
      RebootGate, RebootWait, PassiveWait, FailoverGate, PrimaryGate, Finish, Close
<1>op. CASE Operator
  BY <1>op, <1>same
  DEF Operator, Start, Abort, Confirm, Override, Rerun, Click, Retry, driveVars
<1>still. ASSUME RestEnds \/ (\E m \in Members : Sync(m))
          PROVE  P
  BY <1>still, <1>same DEF RestEnds, Sync
<1> HIDE DEF P
<1> QED
  BY <1>unclear, <1>suspend, <1>member, <1>failover, <1>complete, <1>kill, <1>ends, <1>up,
     <1>ha, <1>drive, <1>op, <1>still
  DEF Next, World

(* Until a first member is chosen a firewall only leaves the suspended or the *)
(* initial state.                                                            *)
LEMMA IdleDevices ==
  ASSUME IInv, Next, first = NoMember
  PROVE  \A m \in Members :
           \/ dev'[m].ha = dev[m].ha
           \/ dev[m].ha \in {"suspended", "initial"} /\ dev'[m].ha # "suspended"
<1> DEFINE P == \A m \in Members :
                  \/ dev'[m].ha = dev[m].ha
                  \/ dev[m].ha \in {"suspended", "initial"} /\ dev'[m].ha # "suspended"
<1> SUFFICES P OBVIOUS
<1>1. TypeOK /\ at \in RestSteps /\ (\A m \in Members : dev[m].up)
  BY DEF IInv, UnchosenInv, Untouched
<1>2. on \in Members BY <1>1 DEF TypeOK
<1>3. CASE dev' = dev BY <1>3
<1>4. CASE RolesUnclear
  <2>1. PICK W \in SUBSET Members :
          dev' = [m \in Members |-> IF m \in W THEN Resumed(m)[m] ELSE dev[m]]
    BY <1>4 DEF RolesUnclear
  <2> QED BY <2>1, <1>1, CommandStates
<1>5. CASE Heal
  <2>1. dev' \in {dev, Resumed(on)} BY <1>5 DEF Heal
  <2> QED BY <2>1, <1>1, <1>2, <1>3, CommandStates
<1>6. CASE Crash \/ Kill
  <2>1. Calls = {} BY <1>1 DEF Calls, RestSteps
  <2> QED BY <1>3, <1>6, <2>1 DEF Crash, Kill
<1>7. ASSUME NEW m \in Members, InstallEnds(m) \/ Boot(m)
      PROVE  P
  BY <1>1, <1>7 DEF InstallEnds, Boot, TypeOK, Devices
<1>8. ASSUME NEW m \in Members, SettleHa(m)
      PROVE  P
  BY <1>1, <1>8 DEF SettleHa, TypeOK, Devices
<1>9. CASE Drive /\ ~(RolesUnclear \/ Heal \/ Crash \/ Kill)
  BY <1>1, <1>3, <1>9
  DEF RestSteps, Drive, Begin, DropDuplicate, Classify, CheckSkip, CheckOverride, RunCheck,
      CheckRaises, MayRun, InCheck, Early, EnsureImage, Staged, HoldGate, SuspendHa,
      InstallSkip, InstallRequest, InstallPoll, RebootGate, Reboot, RebootWait, ResumeHa,
      PassiveWait, FailoverGate, Failover, PrimaryGate, Complete, Finish, Close
<1>10. CASE Operator
  BY <1>3, <1>10
  DEF Operator, Start, Abort, Confirm, Override, Rerun, Click, Retry, driveVars
<1>11. ASSUME RestEnds \/ (\E m \in Members : Sync(m))
       PROVE  P
  BY <1>3, <1>11 DEF RestEnds, Sync
<1> HIDE DEF P
<1> QED BY <1>4, <1>5, <1>6, <1>7, <1>8, <1>9, <1>10, <1>11 DEF Next, World

(* Every step keeps who is known to be asleep.                             *)
LEMMA StepAsleep ==
  ASSUME IInv, PlaceBehind, AsleepInv, Next, ~policy.failback, policy \notin Killable
  PROVE  AsleepInv'
<1>1. TypeOK BY DEF IInv
<1>2. first' = first \/ (first = NoMember /\ first' \in Members)
  BY <1>1, StepFirst
<1>3. Spends BY StepSpends
<1>4. policy' = policy BY StepEffect DEF StepOK
<1>5. CASE first' = NoMember
  <2>1. first = NoMember BY <1>2, <1>5, OtherMember
  <2>2. \A m \in Members :
          row'[m].ha = row[m].ha \/ (dev[m].up /\ row'[m].ha \in Reads(m))
    BY <2>1, IdleRows
  <2>3. \A m \in Members :
          \/ dev'[m].ha = dev[m].ha
          \/ dev[m].ha \in {"suspended", "initial"} /\ dev'[m].ha # "suspended"
    BY <2>1, IdleDevices
  <2>4. \A m \in Members : Reads(m) \subseteq {dev[m].ha, "unknown"}
                           /\ (dev[m].ha # "initial" => Reads(m) = {dev[m].ha})
    BY DEF Reads
  <2>5. ASSUME NEW m \in Members, dev'[m].ha = "suspended"
        PROVE  row'[m].ha = "suspended"
    BY <2>1, <2>2, <2>3, <2>4, <2>5 DEF AsleepInv
  <2>6. ASSUME NEW m \in Members, row'[m].ha = "passive"
        PROVE  dev'[m].ha = "passive"
    BY <2>1, <2>2, <2>3, <2>4, <2>6 DEF AsleepInv
  <2> QED BY <1>5, <2>5, <2>6 DEF AsleepInv
<1>6. CASE first = NoMember /\ first' \in Members
  <2>1. first' \in Passive /\ dev' = dev
    BY <1>6, OtherMember
    DEF Next, Drive, Operator, World, Begin, DropDuplicate, Classify, RolesUnclear, CheckSkip,
        CheckOverride, RunCheck, CheckRaises, Early, EnsureImage, Staged, HoldGate, SuspendHa,
        InstallSkip, InstallRequest, InstallPoll, RebootGate, Reboot, RebootWait, ResumeHa,
        PassiveWait, FailoverGate, Failover, PrimaryGate, Complete, Finish, Heal, Close,
        Crash, Kill, Start, Abort, Confirm, Override, Rerun, Click, Retry, driveVars, RestEnds,
        Sync, InstallEnds, Boot, SettleHa, others
  <2>2. dev'[first'].ha = "passive" BY <1>6, <2>1 DEF Passive, AsleepInv
  <2> QED BY <1>6, <2>2, OtherMember DEF AsleepInv
<1>7. CASE first' = first /\ first \in Members
  <2>0. first # NoMember /\ Second # first BY <1>7, OtherMember DEF Second
  <2>1. SUFFICES ASSUME dev'[first].ha = "suspended"
                 PROVE  "suspend_ha" \in task'[first].marks /\ policy.mode # "stage_only"
    BY <1>4, <1>7, <2>0 DEF AsleepInv, Done
  <2>2. Done(first, "suspend_ha") => "suspend_ha" \in task'[first].marks
    BY <1>1, <1>3, <1>7, MarksKept DEF Kept, Done
  <2>3. at = "suspend" => policy.mode # "stage_only"
    BY DEF PlaceBehind, WorkSteps, UpgradeSteps
  <2> QED BY <1>7, <2>0, <2>1, <2>2, <2>3, StepSleeps DEF AsleepInv
<1> QED BY <1>1, <1>2, <1>5, <1>6, <1>7 DEF TypeOK

(* A healed member is awake, or the operator was told.                     *)
LEMMA HealRejoins ==
  ASSUME IInv, AsleepInv, Heal
  PROVE  /\ Subject(on) => dev'[on].ha # "suspended" \/ task'[on].told
         /\ \A m \in Members : Rejoined(m) => dev'[m].ha # "suspended" \/ task'[m].told
         /\ \A m \in Members : task'[m].phase = task[m].phase
         /\ first' = first /\ on' # on
         /\ on = A => at' = at
<1>1. TypeOK /\ on \in Members BY DEF IInv, TypeOK
<1>2. \A m \in Members : task[m] \in [phase : Phases, token : Tokens,
                                      marks : SUBSET Markers, told : BOOLEAN]
  BY <1>1 DEF TypeOK, Tasks
<1>3. \/ dev' = dev /\ task' = task /\ ~Done(on, "suspend_ha") /\ row[on].ha # "suspended"
      \/ dev' = Resumed(on) /\ task' = task
      \/ dev' = dev /\ task' = [task EXCEPT ![on].told = TRUE]
  BY DEF Heal
<1>4. first' = first /\ on' # on /\ (on = A => at' = at)
  BY PairAssumption DEF Heal, Goto
<1>5. CASE dev' = dev /\ task' = task /\ ~Done(on, "suspend_ha") /\ row[on].ha # "suspended"
  <2>1. Subject(on) => dev[on].ha # "suspended"
    BY <1>1, <1>5, OtherMember DEF Subject, AsleepInv
  <2> QED BY <1>4, <1>5, <2>1 DEF Rejoined
<1>6. CASE dev' = Resumed(on) /\ task' = task
  BY <1>1, <1>4, <1>6, CommandStates DEF Rejoined
<1>7. CASE dev' = dev /\ task' = [task EXCEPT ![on].told = TRUE]
  <2>1. \A m \in Members : /\ task'[m].phase = task[m].phase
                           /\ task'[m].told = IF m = on THEN TRUE ELSE task[m].told
    BY <1>1, <1>2, <1>7 DEF TypeOK, Tasks
  <2> QED BY <1>1, <1>4, <1>7, <2>1 DEF Rejoined
<1> QED BY <1>3, <1>5, <1>6, <1>7

(* The drive comes to rest only through a healing, or without a failure: one *)
(* step per action that leads to the end of a drive.                         *)
LEMMA StepHealed ==
  ASSUME IInv, ServiceInv, AsleepInv, HealedInv, Next, ~policy.failback,
         policy \notin Killable
  PROVE  HealedInv'
<1>1. TypeOK BY DEF IInv
<1>2. at \in {"idle", "close", "heal", "cleanup"} =>
        \A m \in Members : dev'[m].ha = "suspended" => dev[m].ha = "suspended"
  BY StepSleeps
<1>3. A \in Members /\ B \in Members /\ A # B /\ (\A m \in Members : m = A \/ m = B)
  BY PairAssumption DEF Members
<1>4. ASSUME at' = at, on' = on, first' = first,
             \A m \in Members : /\ task'[m].told = task[m].told
                                /\ Over(m)' => Over(m)
      PROVE  HealedInv'
  BY <1>2, <1>3, <1>4 DEF HealedInv, Subject, Rejoined
<1>op. CASE Operator
  <2>1. at' = at /\ on' = on /\ first' = first
    BY <1>op
    DEF Operator, Start, Abort, Confirm, Override, Rerun, Click, Retry, driveVars
  <2>2. \/ task' = task
        \/ \E m \in Members : \/ \E c : task' = [task EXCEPT ![m].token = c]
                              \/ task' = InPhase(task, m, "PENDING")
    BY <1>op
    DEF Operator, Start, Abort, Confirm, Override, Rerun, Click, Retry
  <2>3. \A m \in Members : /\ task'[m].told = task[m].told
                           /\ Over(m)' => Over(m)
    BY <1>1, <2>2 DEF Over, InPhase, TypeOK, Tasks
  <2> QED BY <1>4, <2>1, <2>3
<1>still. CASE World \/ DropDuplicate
  BY <1>still, <1>4
  DEF World, RestEnds, Sync, InstallEnds, Boot, SettleHa, others, DropDuplicate, Over
<1>away. ASSUME at' \notin {"idle", "close"}, at' \in {"heal", "cleanup"} => on' = A
         PROVE  HealedInv'
  BY <1>3, <1>away DEF HealedInv
<1>finish. CASE Finish
  <2>1. CASE Failing(task) \/ job = "ABORTED"
    BY <1>finish, <2>1, <1>away DEF Finish, Goto
  <2>2. CASE ~Failing(task) /\ job # "ABORTED"
    <3>1. at' = "close" /\ task' = task /\ first' = first /\ dev' = dev
      BY <1>finish, <2>2 DEF Finish, Goto
    <3>2. ASSUME NEW m \in Members, Subject(m), Over(m)
          PROVE  dev[m].ha # "suspended"
      <4>1. task[m].phase = "DONE" BY <2>2, <3>2 DEF Over, Failing
      <4>2. first # NoMember /\ m = first BY <3>2, <4>1 DEF IInv, DoneInv, Subject
      <4>3. CASE policy.mode = "stage_only" BY <4>2, <4>3 DEF AsleepInv
      <4>4. CASE policy.mode # "stage_only"
        <5>1. Second \in Members BY <4>2, OtherMember DEF Second
        <5>2. dev[Second].ver = "target" BY <4>1, <4>4, <5>1 DEF IInv, DoneInv
        <5>3. Done(first, "failover") BY <4>2, <5>2 DEF IInv, ActiveUntouched
        <5> QED BY <4>2, <5>3 DEF ServiceInv, Serves
      <4> QED BY <4>3, <4>4
    <3> QED BY <3>1, <3>2 DEF HealedInv, Subject, Over, Rejoined
  <2> QED BY <2>1, <2>2
<1>heal. CASE Heal
  <2>1. on \in Members BY <1>1 DEF TypeOK
  <2>2. CASE on = A
    <3>1. at' = at /\ at \in {"heal", "cleanup"} BY <1>heal, <2>2, HealRejoins DEF Heal
    <3>2. Subject(A)' => Rejoined(A)'
      BY <1>heal, <2>2, HealRejoins DEF Subject, Rejoined
    <3> QED BY <3>1, <3>2 DEF HealedInv
  <2>3. CASE on = B
    <3>1. at' \in {"idle", "close"} BY <1>heal, <2>3, <1>3 DEF Heal, Goto
    <3>2. Subject(A) => Rejoined(A) BY <1>heal, <2>3 DEF Heal, HealedInv
    <3>3. \A m \in Members : Subject(m)' => Rejoined(m)'
      BY <1>heal, <2>3, <1>3, <3>2, HealRejoins DEF Subject, Rejoined
    <3> QED BY <3>1, <3>3 DEF HealedInv
  <2> QED BY <1>3, <2>1, <2>2, <2>3
<1>close. CASE Close
  BY <1>close, <1>2 DEF Close, Goto, operVars, HealedInv, Subject, Over, Rejoined
<1>start. CASE Begin \/ Crash
  BY <1>start, <1>away DEF Begin, Crash, Goto
<1>kill. CASE Kill BY <1>kill DEF Kill
<1>drive. CASE Drive /\ ~(Finish \/ Heal \/ Close \/ Begin \/ Crash \/ Kill \/ DropDuplicate)
  <2>1. at' \notin {"idle", "close", "heal", "cleanup"}
    BY <1>drive
    DEF Drive, Classify, RolesUnclear, CheckSkip, CheckOverride, RunCheck, CheckRaises,
        AfterCheck, Early, EnsureImage, AfterImage, Staged, HoldGate, SuspendHa, InstallSkip,
        InstallRequest, InstallPoll, RebootGate, Reboot, RebootWait, ResumeHa, PassiveWait,
        FailoverGate, Failover, PrimaryGate, Gate, Complete, Goto, Return, FailAs, FailBoth,
        Park
  <2> QED BY <2>1, <1>away
<1> QED
  BY <1>op, <1>still, <1>finish, <1>heal, <1>close, <1>start, <1>kill, <1>drive DEF Next

(* A job that does not fail back, over a pair that is served, in a drive no *)
(* worker of which is killed.                                               *)
UnkilledPair == ServedPair /\ policy \notin Killable

(* However the drive of such a pair ends, the member upgraded first is not  *)
(* left suspended, unless the operator was told to resume it.               *)
THEOREM FirstComesBack == Spec /\ UnkilledPair => []FirstRejoins
<1> DEFINE I == /\ ServiceInv /\ AsleepInv /\ HealedInv
                /\ ~policy.failback /\ policy \notin Killable
<1>1. Init /\ UnkilledPair => I
  <2> SUFFICES ASSUME Init, UnkilledPair PROVE I OBVIOUS
  <2>1. ServiceInv BY InitService DEF UnkilledPair, ServedPair
  <2>2. PICK ha \in HaStarts :
          /\ dev = [m \in Members |-> [up |-> TRUE, ver |-> "old", ha |-> ha[m], inst |-> "none"]]
          /\ row = [m \in Members |-> [ver |-> "old", ha |-> ha[m]]]
    BY DEF Init
  <2>3. first = NoMember /\ at = "idle" /\ \A m \in Members : task[m].phase = "PENDING"
    BY DEF Init
  <2> QED BY <2>1, <2>2, <2>3 DEF UnkilledPair, ServedPair, AsleepInv, HealedInv, Over
<1>2. IInv /\ PlaceBehind /\ I /\ [Next]_vars => I'
  <2> SUFFICES ASSUME IInv, PlaceBehind, I, [Next]_vars PROVE I' OBVIOUS
  <2>1. CASE UNCHANGED vars
    BY <2>1
    DEF vars, ServiceInv, Serves, AtTarget, AsleepInv, HealedInv, Subject, Over, Rejoined,
        Done, Second
  <2>2. CASE Next
    <3>1. policy' = policy BY <2>2, StepEffect DEF StepOK
    <3>2. ServiceInv' BY <2>2, ServiceKept
    <3>3. AsleepInv' BY <2>2, StepAsleep
    <3>4. HealedInv' BY <2>2, StepHealed
    <3> QED BY <3>1, <3>2, <3>3, <3>4
  <2> QED BY <2>1, <2>2
<1>3. I => FirstRejoins
  BY DEF HealedInv, Subject, Over, Rejoined, FirstRejoins
<1> HIDE DEF I
<1> QED BY <1>1, <1>2, <1>3, Invariant, BehindInvariant, PTL DEF Spec
===============================================================================
