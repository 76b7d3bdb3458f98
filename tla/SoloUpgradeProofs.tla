-------------------------- MODULE SoloUpgradeProofs ---------------------------
(***************************************************************************)
(* Proofs about SoloUpgrade, for every catalogue, disk, option and bound.  *)
(*                                                                         *)
(* The first part is about versions alone: the order of the tuples is      *)
(* total, every train has a lowest release, and what the base image of a   *)
(* train is.  The second is the inductive invariant of a drive: its type,  *)
(* what the firewall runs, what an install is worth once its marker is     *)
(* written, and how often a restart is issued.                             *)
(***************************************************************************)
EXTENDS SoloUpgrade, WellFoundedInduction, TLAPS

-------------------------------------------------------------------------------
(* Versions.                                                                *)

(* The order, component by component.                                       *)
ByParts(v, w) ==
  \/ v[1] < w[1]
  \/ v[1] = w[1] /\ v[2] < w[2]
  \/ v[1] = w[1] /\ v[2] = w[2] /\ v[3] < w[3]
  \/ v[1] = w[1] /\ v[2] = w[2] /\ v[3] = w[3] /\ v[4] < w[4]

LEMMA BelowByParts ==
  ASSUME NEW v \in Version, NEW w \in Version
  PROVE  Below(v, w) <=> ByParts(v, w)
  <1>1. 1..4 = {1, 2, 3, 4} OBVIOUS
  <1>2. 1..1-1 = {} /\ 1..2-1 = {1} /\ 1..3-1 = {1, 2} /\ 1..4-1 = {1, 2, 3} OBVIOUS
  <1>3. Below(v, w) <=> \/ v[1] < w[1] /\ \A j \in 1..1-1 : v[j] = w[j]
                        \/ v[2] < w[2] /\ \A j \in 1..2-1 : v[j] = w[j]
                        \/ v[3] < w[3] /\ \A j \in 1..3-1 : v[j] = w[j]
                        \/ v[4] < w[4] /\ \A j \in 1..4-1 : v[j] = w[j]
    BY <1>1 DEF Below
  <1> QED BY <1>2, <1>3 DEF ByParts

(* Two versions are compared one way at most, and one way unless equal.     *)
LEMMA BelowIsTotal ==
  ASSUME NEW v \in Version, NEW w \in Version
  PROVE  /\ Below(v, w) => ~Below(w, v)
         /\ ~Below(v, v)
         /\ v # w => Below(v, w) \/ Below(w, v)
  <1>1. v # w => \E i \in 1..4 : v[i] # w[i] BY DEF Version
  <1>2. v # w => v[1] # w[1] \/ v[2] # w[2] \/ v[3] # w[3] \/ v[4] # w[4]
    BY <1>1
  <1>3. \A i \in {1, 2, 3, 4} : v[i] \in Nat /\ w[i] \in Nat BY DEF Version
  <1>4. Below(v, w) <=> ByParts(v, w)
    BY BelowByParts
  <1>5. Below(w, v) <=> ByParts(w, v)
    BY BelowByParts
  <1>6. ~Below(v, v) BY <1>3, BelowByParts DEF ByParts
  <1> QED BY <1>2, <1>3, <1>4, <1>5, <1>6 DEF ByParts

(* A release of a newer train is above every release of an older one.       *)
LEMMA NewerTrainIsAbove ==
  ASSUME NEW v \in Version, NEW w \in Version, NEW u \in Version,
         Below(v, w), feature_train(v) # feature_train(w), feature_train(u) = feature_train(w)
  PROVE  ~Below(u, v)
  <1>1. \A i \in {1, 2, 3, 4} : v[i] \in Nat /\ w[i] \in Nat /\ u[i] \in Nat BY DEF Version
  <1>2. u[1] = w[1] /\ u[2] = w[2] BY DEF feature_train
  <1>3. v[1] # w[1] \/ v[2] # w[2] BY DEF feature_train
  <1>4. Below(v, w) <=> ByParts(v, w)
    BY BelowByParts
  <1>5. Below(u, v) <=> ByParts(u, v)
    BY BelowByParts
  <1> QED BY <1>1, <1>2, <1>3, <1>4, <1>5 DEF ByParts

(* A set of numbers has a least one.                                        *)
LEMMA LeastNumber ==
  ASSUME NEW S, S \subseteq Nat, S # {}
  PROVE  \E a \in S : \A b \in S : a <= b
  <1>1. PICK a \in S : \A b \in S : ~ (<<b, a>> \in OpToRel(<, Nat))
    BY NatLessThanWellFounded, WFMin
  <1>2. \A b \in S : ~ (b < a) BY <1>1 DEF OpToRel
  <1> QED BY <1>2

(* Among versions one is below all the others.                              *)
LEMMA LowestExists ==
  ASSUME NEW S, S \subseteq Version, S # {}
  PROVE  Lowest(S) \in S /\ \A w \in S \ {Lowest(S)} : Below(Lowest(S), w)
  <1>0. \A v \in S : v[1] \in Nat /\ v[2] \in Nat /\ v[3] \in Nat /\ v[4] \in Nat
    BY DEF Version
  <1>1. PICK v1 \in S : \A w \in S : v1[1] <= w[1]
    <2> DEFINE T == {w[1] : w \in S}
    <2>1. PICK a \in T : \A b \in T : a <= b BY <1>0, LeastNumber
    <2> QED BY <2>1
  <1>2. PICK v2 \in S : v2[1] = v1[1] /\ \A w \in S : w[1] = v1[1] => v2[2] <= w[2]
    <2> DEFINE T == {w[2] : w \in {u \in S : u[1] = v1[1]}}
    <2>1. T # {} /\ T \subseteq Nat BY <1>0
    <2>2. PICK a \in T : \A b \in T : a <= b BY <2>1, LeastNumber
    <2> QED BY <2>2
  <1>3. PICK v3 \in S : /\ v3[1] = v1[1] /\ v3[2] = v2[2]
                        /\ \A w \in S : w[1] = v1[1] /\ w[2] = v2[2] => v3[3] <= w[3]
    <2> DEFINE T == {w[3] : w \in {u \in S : u[1] = v1[1] /\ u[2] = v2[2]}}
    <2>1. T # {} /\ T \subseteq Nat BY <1>0, <1>2
    <2>2. PICK a \in T : \A b \in T : a <= b BY <2>1, LeastNumber
    <2> QED BY <2>2
  <1>4. PICK v4 \in S : /\ v4[1] = v1[1] /\ v4[2] = v2[2] /\ v4[3] = v3[3]
                        /\ \A w \in S : w[1] = v1[1] /\ w[2] = v2[2] /\ w[3] = v3[3] => v4[4] <= w[4]
    <2> DEFINE T == {w[4] : w \in {u \in S : u[1] = v1[1] /\ u[2] = v2[2] /\ u[3] = v3[3]}}
    <2>1. T # {} /\ T \subseteq Nat BY <1>0, <1>3
    <2>2. PICK a \in T : \A b \in T : a <= b BY <2>1, LeastNumber
    <2> QED BY <2>2
  <1>5. ASSUME NEW w \in S \ {v4} PROVE Below(v4, w)
    <2>1. v4 \in Version /\ w \in Version /\ w # v4 OBVIOUS
    <2>2. ~Below(w, v4)
      <3>1. Below(w, v4) <=> ByParts(w, v4)
        BY <2>1, BelowByParts
      <3>2. v1[1] <= w[1] BY <1>1
      <3>3. w[1] = v1[1] => v2[2] <= w[2] BY <1>2
      <3>4. w[1] = v1[1] /\ w[2] = v2[2] => v3[3] <= w[3] BY <1>3
      <3>5. w[1] = v1[1] /\ w[2] = v2[2] /\ w[3] = v3[3] => v4[4] <= w[4] BY <1>4
      <3>6. v4[1] = v1[1] /\ v4[2] = v2[2] /\ v4[3] = v3[3] BY <1>3, <1>4
      <3>7. /\ v1[1] \in Nat /\ v2[2] \in Nat /\ v3[3] \in Nat /\ v4[4] \in Nat
            /\ w[1] \in Nat /\ w[2] \in Nat /\ w[3] \in Nat /\ w[4] \in Nat BY <1>0
      <3> QED BY <3>1, <3>2, <3>3, <3>4, <3>5, <3>6, <3>7 DEF ByParts
    <2> QED BY <2>1, <2>2, BelowIsTotal
  <1>6. \E v \in S : \A w \in S \ {v} : Below(v, w) BY <1>5
  <1> QED BY <1>6 DEF Lowest

-------------------------------------------------------------------------------
(* The inductive invariant.                                                 *)

(* The firewall runs and will boot one of the two versions, the target for  *)
(* good; the row, and the marker of the install, say no more than that.     *)
Runs ==
  /\ dev.runs \in {Start, Target} /\ dev.next \in {dev.runs, Target}
  /\ row = Target => dev.runs = Target
  /\ "install_complete" \in task.marks => row = Target
  /\ at \in {"postcheck", "done"} => row = Target
  /\ task.phase = "DONE" /\ opt.mode # "stage_only" => row = Target

(* A base is asked for only where the catalogue has one.                    *)
BaseKnown ==
  at \in {"base", "baseAsked", "basePoll"} \/ dev.jobs["base"] = "act" => Image("base") \in Versions

(* What the marker of an install is worth: the target boots next, unless    *)
(* the firewall has given it up.                                            *)
Installed ==
  /\ ~dev.up => dev.jobs["install"] \in {"none", "gone"}
  /\ dev.jobs["install"] = "ok" => dev.next = Target
  /\ "software_installed" \in task.marks => dev.next = Target \/ seen.fell
  /\ at \in {"gate", "reboot", "restarted", "boot", "verify"} => "software_installed" \in task.marks

(* A restart that has been issued is marked, is about to be, or has led to  *)
(* the target.                                                              *)
Once ==
  /\ at \in {"installAsked", "installPoll", "gate", "reboot"} => row # Target
  /\ ~seen.torn /\ seen.restarted => "reboot_issued" \in task.marks \/ at = "restarted" \/ row = Target
  /\ RestartedOnce

IInv == TypeOK /\ Runs /\ BaseKnown /\ Installed /\ Once

(* The upgrade ImagesKept is about: to a newer train, whose base PAN-OS     *)
(* marks, and is on the disk if the target is.                              *)
NewTrain ==
  /\ Below(Start, Target) /\ _is_major_jump(Start, Target)
  /\ \E e \in Catalog : e.base /\ feature_train(e.version) = feature_train(Target)
  /\ Target \in Disk => Image("base") \in Disk

(* No cleanup has one of the two on its list.                               *)
Spared == Target \notin clean /\ Image("base") \notin clean
KInv == IInv /\ Spared /\ ImagesKept

-------------------------------------------------------------------------------
(* The parts a drive's steps are made of, one by one.                       *)

TaskSet == [phase : Phases, token : {"", "go", "rerun"}, marks : SUBSET Marks]
ProgSet == [held : SUBSET Slots, tries : [Slots -> 0..Attempts], since : [Waits -> {"none", "young", "old"}],
            gone : 0..GoneLimit, ok : 0..Consecutive, wrong : 0..WrongLimit, down : BOOLEAN]
DevSet == [up : BOOLEAN, runs : Versions, next : Versions, disk : SUBSET Versions, fresh : BOOLEAN,
           jobs : [Slots -> {"none", "act", "ok", "fail", "gone"}]]
SeenSet == [restarted : BOOLEAN, twice : BOOLEAN, torn : BOOLEAN, fell : BOOLEAN]

LEMMA Bounds ==
  /\ {MaxMsgs, Attempts, GoneLimit, Consecutive, WrongLimit} \subseteq Nat \ {0}
  /\ {MaxFaults, MaxRetries} \subseteq Nat
  /\ Start # Target /\ Start \in Versions /\ Target \in Versions /\ Disk \subseteq Versions
  /\ Versions \subseteq Version
  <1>1. \A e \in Catalog : e.version \in Version BY SoloAssumption
  <1> QED BY SoloAssumption, <1>1 DEF Versions

LEMMA TaskParts ==
  ASSUME NEW t \in TaskSet
  PROVE  /\ \A m \in Marks : Mark(t, m) \in TaskSet
         /\ \A ms : Unmark(t, ms) \in TaskSet
         /\ Busy(t) \in TaskSet /\ Failed(t) \in TaskSet
         /\ \A f \in Phases : [t EXCEPT !.phase = f] \in TaskSet
         /\ \A k \in {"", "go", "rerun"} : [t EXCEPT !.token = k] \in TaskSet
  <1>1. "BUSY" \in Phases /\ "FAILED" \in Phases BY DEF Phases
  <1>2. \A m \in Marks : Mark(t, m) \in TaskSet BY DEF TaskSet, Mark
  <1>3. \A ms : Unmark(t, ms) \in TaskSet BY DEF TaskSet, Unmark
  <1>4. \A f \in Phases : [t EXCEPT !.phase = f] \in TaskSet BY DEF TaskSet
  <1>5. Busy(t) \in TaskSet /\ Failed(t) \in TaskSet BY <1>1, <1>4 DEF Busy, Failed
  <1>6. \A k \in {"", "go", "rerun"} : [t EXCEPT !.token = k] \in TaskSet BY DEF TaskSet
  <1> QED BY <1>2, <1>3, <1>4, <1>5, <1>6

LEMMA MarkParts ==
  ASSUME NEW t \in TaskSet, NEW m, NEW ms
  PROVE  /\ Mark(t, m).marks = t.marks \cup {m} /\ Mark(t, m).phase = t.phase /\ Mark(t, m).token = t.token
         /\ Unmark(t, ms).marks = t.marks \ ms /\ Unmark(t, ms).phase = t.phase /\ Unmark(t, ms).token = t.token
         /\ Busy(t).marks = t.marks /\ Busy(t).phase = "BUSY"
         /\ Failed(t).marks = t.marks /\ Failed(t).phase = "FAILED"
  BY DEF TaskSet, Mark, Unmark, Busy, Failed

LEMMA ProgParts ==
  ASSUME NEW p \in ProgSet
  PROVE  /\ \A s : Cleared(p, s) \in ProgSet
         /\ \A w \in Waits : Stamped(p, w) \in ProgSet /\ Unstamped(p, w) \in ProgSet
         /\ Missed(p) \in ProgSet /\ NoStreaks(p) \in ProgSet
         /\ \A n \in 0..GoneLimit : [p EXCEPT !.gone = n] \in ProgSet
         /\ \A s \in Slots : [p EXCEPT !.held = @ \cup {s}] \in ProgSet
  <1>1. \A s : Cleared(p, s) \in ProgSet BY DEF ProgSet, Cleared
  <1>2. ASSUME NEW w \in Waits PROVE Stamped(p, w) \in ProgSet /\ Unstamped(p, w) \in ProgSet
    BY DEF ProgSet, Stamped, Unstamped
  <1>3. Missed(p) \in ProgSet
    <2>1. (IF p.gone < GoneLimit THEN p.gone + 1 ELSE p.gone) \in 0..GoneLimit BY Bounds DEF ProgSet
    <2> QED BY <2>1 DEF ProgSet, Missed
  <1>4. NoStreaks(p) \in ProgSet
    <2>1. 0 \in 0..Consecutive /\ 0 \in 0..WrongLimit BY Bounds
    <2> QED BY <2>1 DEF ProgSet, NoStreaks
  <1>5. \A n \in 0..GoneLimit : [p EXCEPT !.gone = n] \in ProgSet BY DEF ProgSet
  <1>6. \A s \in Slots : [p EXCEPT !.held = @ \cup {s}] \in ProgSet BY DEF ProgSet
  <1> QED BY <1>1, <1>2, <1>3, <1>4, <1>5, <1>6

LEMMA TriesParts ==
  ASSUME NEW p \in ProgSet
  PROVE  /\ \A s \in Slots : [p EXCEPT !.tries[s] = IF @ < Attempts THEN @ + 1 ELSE @] \in ProgSet
         /\ ClearedInstall(p) \in ProgSet /\ _clear_install_reboot_handles(p) \in ProgSet
  <1>1. ASSUME NEW s \in Slots PROVE [p EXCEPT !.tries[s] = IF @ < Attempts THEN @ + 1 ELSE @] \in ProgSet
    <2>1. (IF p.tries[s] < Attempts THEN p.tries[s] + 1 ELSE p.tries[s]) \in 0..Attempts BY Bounds DEF ProgSet
    <2> QED BY <2>1 DEF ProgSet
  <1>2. 0 \in 0..Attempts /\ 0 \in 0..GoneLimit /\ 0 \in 0..Consecutive /\ "install" \in Slots
        /\ "install" \in Waits /\ "reboot" \in Waits
    BY Bounds DEF Slots, Waits
  <1>3. ClearedInstall(p) \in ProgSet
    <2>1. PICK q \in ProgSet : q = Cleared(p, "install") BY ProgParts
    <2>2. [q EXCEPT !.tries["install"] = 0, !.gone = 0] \in ProgSet BY <1>2 DEF ProgSet
    <2> QED BY <2>1, <2>2 DEF ClearedInstall
  <1>4. _clear_install_reboot_handles(p) \in ProgSet BY <1>2 DEF ProgSet, _clear_install_reboot_handles
  <1> QED BY <1>1, <1>3, <1>4

-------------------------------------------------------------------------------
(* Types.                                                                   *)

LEMMA TypeSets ==
  ASSUME TypeOK
  PROVE  /\ task \in TaskSet /\ prog \in ProgSet /\ dev \in DevSet /\ seen \in SeenSet
         /\ task.marks \subseteq Marks /\ task.phase \in Phases /\ msgs \in Nat /\ faults \in Nat /\ retries \in Nat
         /\ 0..MaxMsgs \subseteq Nat /\ MaxMsgs \in Nat /\ MaxFaults \in Nat /\ MaxRetries \in Nat
  <1>1. task \in TaskSet /\ prog \in ProgSet /\ dev \in DevSet /\ seen \in SeenSet
    BY DEF TypeOK, TaskSet, ProgSet, DevSet, SeenSet
  <1>2. task.marks \subseteq Marks /\ task.phase \in Phases BY <1>1 DEF TaskSet
  <1>3. MaxMsgs \in Nat /\ MaxFaults \in Nat /\ MaxRetries \in Nat BY Bounds
  <1>4. msgs \in 0..MaxMsgs /\ faults \in 0..MaxFaults /\ retries \in 0..MaxRetries BY DEF TypeOK
  <1>5. msgs \in Nat /\ faults \in Nat /\ retries \in Nat BY <1>3, <1>4
  <1> QED BY <1>1, <1>2, <1>3, <1>5

(* The variables no step of the drive writes, and those that it counts.     *)
LEMMA Counted ==
  ASSUME TypeOK
  PROVE  /\ Fault => faults' \in 0..MaxFaults
         /\ Calm => faults' \in 0..MaxFaults
         /\ Answers \/ Silent => faults' \in 0..MaxFaults
         /\ Park => msgs' \in 0..MaxMsgs
         /\ Post => msgs' \in 0..MaxMsgs
         /\ \A step : Goto(step) => msgs' \in 0..MaxMsgs /\ at' = step
  <1>0. faults \in 0..MaxFaults /\ msgs \in 0..MaxMsgs /\ MaxFaults \in Nat /\ MaxMsgs \in Nat
    BY Bounds DEF TypeOK
  <1>1. Fault => faults' \in 0..MaxFaults BY <1>0 DEF Fault
  <1>2. Calm => faults' \in 0..MaxFaults BY <1>0 DEF Calm
  <1>3. Answers \/ Silent => faults' \in 0..MaxFaults BY <1>1, <1>2 DEF Answers, Silent
  <1>4. Park => msgs' \in 0..MaxMsgs BY <1>0 DEF Park
  <1>5. Post => msgs' \in 0..MaxMsgs BY <1>0 DEF Post
  <1>6. \A step : Goto(step) => msgs' \in 0..MaxMsgs /\ at' = step BY <1>0 DEF Goto
  <1> QED BY <1>1, <1>2, <1>3, <1>4, <1>5, <1>6

(* What is left to show of a step of the drive: that what it writes is typed.*)
LEMMA TypeFrame ==
  ASSUME TypeOK, opt' = opt, job' \in {"RUNNING"} \cup JobEnded,
         task' \in TaskSet, prog' \in ProgSet, dev' \in DevSet, seen' \in SeenSet,
         row' \in {Start, Target}, at' \in Steps, msgs' \in 0..MaxMsgs,
         clean' \subseteq Versions, faults' \in 0..MaxFaults, retries' \in 0..MaxRetries
  PROVE  TypeOK'
  BY DEF TypeOK, TaskSet, ProgSet, DevSet, SeenSet

LEMMA TypeSteps == Steps = {"idle", "precheck", "image", "base", "target", "hold", "install", "gate",
          "reboot", "restarted", "boot", "verify", "postcheck", "done", "close",
          "baseAsked", "targetAsked", "installAsked", "basePoll", "targetPoll", "installPoll"}
  BY DEF Steps

LEMMA RestType ==
  ASSUME TypeOK, Rest, task' \in TaskSet, prog' \in ProgSet, at' \in Steps, msgs' \in 0..MaxMsgs,
         faults' \in 0..MaxFaults
  PROVE  TypeOK'
  <1>1. opt' = opt /\ job' = job /\ row' = row /\ dev' = dev /\ clean' = clean /\ retries' = retries /\ seen' = seen
    BY DEF Rest
  <1>2. /\ job \in {"RUNNING"} \cup JobEnded /\ row \in {Start, Target} /\ clean \subseteq Versions
        /\ retries \in 0..MaxRetries
    BY DEF TypeOK
  <1> QED BY <1>1, <1>2, TypeSets, TypeFrame

LEMMA TakeType ==
  ASSUME TypeOK, Take
  PROVE  TypeOK'
  <1>1. task' \in TaskSet /\ prog' \in ProgSet
    <2>1. Reconciled => task' \in TaskSet /\ prog' \in ProgSet
      <3>1. "install_complete" \in Marks /\ "ensure_image" \in Marks BY DEF Marks
      <3>2. Unmark(Mark(Mark(task, "install_complete"), "ensure_image"), {"reboot_issued"}) \in TaskSet
        BY <3>1, TypeSets, TaskParts
      <3>3. Unmark(task, {"install_complete", "software_installed", "reboot_issued"}) \in TaskSet
        BY TypeSets, TaskParts
      <3> QED BY <3>2, <3>3, TypeSets, TriesParts DEF Reconciled
    <2> QED BY <2>1, TypeSets DEF Take
  <1>2. at' \in Steps BY DEF Take, TypeOK, Steps
  <1>3. msgs' \in 0..MaxMsgs
    <2>1. msgs \in 0..MaxMsgs /\ MaxMsgs \in Nat BY Bounds DEF TypeOK
    <2> QED BY <2>1 DEF Take
  <1>4. faults' \in 0..MaxFaults BY Counted DEF Take
  <1> QED BY <1>1, <1>2, <1>3, <1>4, RestType DEF Take

LEMMA CheckType ==
  ASSUME TypeOK, Runs, NEW gate \in Phases, NEW mark \in Marks, NEW step \in Steps, Check(gate, mark, step)
  PROVE  TypeOK'
  <1> DEFINE t == [Busy(task) EXCEPT !.token = IF task.phase = gate THEN "" ELSE @]
  <1>1. t \in TaskSet /\ Mark(t, mark) \in TaskSet /\ [t EXCEPT !.phase = gate] \in TaskSet
    <2>1. PICK b \in TaskSet : b = Busy(task) BY TypeSets, TaskParts
    <2>2. (IF task.phase = gate THEN "" ELSE b.token) \in {"", "go", "rerun"} BY DEF TaskSet
    <2>3. t = [b EXCEPT !.token = IF task.phase = gate THEN "" ELSE b.token] BY <2>1
    <2>4. t \in TaskSet BY <2>2, <2>3 DEF TaskSet
    <2> HIDE DEF t
    <2> QED BY <2>4, TaskParts
  <1>2. Mark([task EXCEPT !.token = ""], mark) \in TaskSet
    <2>1. [task EXCEPT !.token = ""] \in TaskSet BY TypeSets, TaskParts
    <2> QED BY <2>1, TaskParts
  <1>3. task \in TaskSet BY TypeSets
  <1> HIDE DEF t
  <1>4. task' \in TaskSet BY <1>1, <1>2, <1>3, Zenon DEF Check, Fail, t
  <1>5. row' \in {Start, Target} BY DEF Check, Runs, TypeOK
  <1>6. at' \in Steps /\ msgs' \in 0..MaxMsgs
    <2>1. "close" \in Steps BY DEF Steps
    <2>2. Goto(step) \/ Goto("close") BY Zenon DEF Check
    <2> QED BY <2>1, <2>2, Counted
  <1>7. faults' \in 0..MaxFaults BY Counted, Zenon DEF Check
  <1>8. opt' = opt /\ job' = job /\ prog' = prog /\ dev' = dev /\ clean' = clean /\ retries' = retries /\ seen' = seen
    BY DEF Check
  <1>9. job \in {"RUNNING"} \cup JobEnded /\ clean \subseteq Versions /\ retries \in 0..MaxRetries BY DEF TypeOK
  <1> QED BY <1>4, <1>5, <1>6, <1>7, <1>8, <1>9, TypeSets, TypeFrame

LEMMA NotYetType ==
  ASSUME TypeOK, NEW p \in ProgSet, NEW w \in Waits, NEW t \in TaskSet, NotYet(p, w, t)
  PROVE  prog' \in ProgSet /\ task' \in {t, Failed(t)} /\ task' \in TaskSet /\ at' = "close" /\ msgs' \in 0..MaxMsgs
  <1>1. Stamped(p, w) \in ProgSet /\ Unstamped(p, w) \in ProgSet /\ Failed(t) \in TaskSet
    BY ProgParts, TaskParts
  <1>2. prog' \in ProgSet /\ task' \in {t, Failed(t)} BY <1>1 DEF NotYet, Fail
  <1>3. Park \/ Goto("close") BY Zenon DEF NotYet, Fail
  <1> QED BY <1>1, <1>2, <1>3, Counted DEF Park

LEMMA FailType ==
  ASSUME TypeOK, NEW t \in TaskSet, Fail(t)
  PROVE  task' = Failed(t) /\ task' \in TaskSet /\ at' = "close" /\ msgs' \in 0..MaxMsgs
  BY TaskParts, Counted DEF Fail

LEMMA EnsureImageType ==
  ASSUME TypeOK, EnsureImage
  PROVE  TypeOK'
  <1>1. task \in TaskSet /\ prog \in ProgSet /\ "ensure_image" \in Marks BY TypeSets DEF Marks
  <1>2. Busy(task) \in TaskSet /\ Mark(task, "ensure_image") \in TaskSet /\ Failed(Busy(task)) \in TaskSet
    BY <1>1, TaskParts
  <1>3. task' \in TaskSet BY <1>2, Zenon DEF EnsureImage, Fail
  <1>4. \E step \in {"hold", "close", "base", "target"} : Goto(step)
    BY DEF EnsureImage, Fail
  <1>5. at' \in Steps /\ msgs' \in 0..MaxMsgs BY <1>4, Counted, TypeSteps
  <1>6. faults' \in 0..MaxFaults BY Counted, Zenon DEF EnsureImage
  <1> QED BY <1>1, <1>3, <1>5, <1>6, RestType DEF EnsureImage

LEMMA AskedType ==
  ASSUME TypeOK, NEW s \in Slots
  PROVE  /\ Asked(s) \in DevSet /\ Tried(s) \in ProgSet /\ AskedAt(s) \in Steps /\ PollAt(s) \in Steps
         /\ Issued(s) => seen' \in SeenSet
  <1>1. Asked(s) \in DevSet
    <2>1. dev \in DevSet BY TypeSets
    <2>2. [dev.jobs EXCEPT ![s] = "act"] \in [Slots -> {"none", "act", "ok", "fail", "gone"}] BY <2>1 DEF DevSet
    <2> QED BY <2>1, <2>2 DEF Asked, DevSet
  <1>2. Tried(s) \in ProgSet BY TypeSets, TriesParts DEF Tried
  <1>3. AskedAt(s) \in Steps /\ PollAt(s) \in Steps BY DEF AskedAt, PollAt, Slots, Steps
  <1>4. Issued(s) => seen' \in SeenSet
    <2>1. seen \in SeenSet BY TypeSets
    <2>2. (seen.restarted /\ s # "install") \in BOOLEAN /\ (seen.fell /\ s # "install") \in BOOLEAN OBVIOUS
    <2> QED BY <2>1, <2>2 DEF Issued, SeenSet
  <1> QED BY <1>1, <1>2, <1>3, <1>4

(* A command is asked for: it may be refused, or not get through.           *)
LEMMA RequestType ==
  ASSUME TypeOK, NEW s \in Slots, NEW v, Request(s, v)
  PROVE  /\ task' \in {Busy(task), Failed(Busy(task))} /\ task' \in TaskSet /\ prog' \in ProgSet
         /\ \/ dev' = dev /\ seen' = seen /\ at' = "close"
            \/ dev' = Asked(s) /\ Issued(s) /\ at' = AskedAt(s) /\ task' = Busy(task) /\ dev.up
         /\ dev' \in DevSet /\ seen' \in SeenSet
         /\ at' \in Steps /\ msgs' \in 0..MaxMsgs /\ faults' \in 0..MaxFaults
  <1>0. task \in TaskSet /\ dev \in DevSet /\ seen \in SeenSet BY TypeSets
  <1>1. Busy(task) \in TaskSet /\ Failed(Busy(task)) \in TaskSet BY <1>0, TaskParts
  <1>2. prog' = Tried(s) BY DEF Request, Refused
  <1>3. \/ dev' = dev /\ seen' = seen /\ at' = "close"
        \/ dev' = Asked(s) /\ Issued(s) /\ at' = AskedAt(s) /\ task' = Busy(task) /\ dev.up
    BY DEF Request, Refused, Fail, Park, Goto, Answers
  <1>4. task' \in {Busy(task), Failed(Busy(task))} BY DEF Request, Refused, Fail
  <1>5. Park \/ Goto("close") \/ Goto(AskedAt(s)) BY DEF Request, Refused, Fail
  <1>6. faults' \in 0..MaxFaults BY Counted DEF Request
  <1>7. "close" \in Steps BY DEF Steps
  <1>8. at' \in Steps /\ msgs' \in 0..MaxMsgs BY <1>5, <1>7, AskedType, Counted DEF Park
  <1>9. dev' \in DevSet /\ seen' \in SeenSet BY <1>0, <1>3, AskedType
  <1> QED BY <1>1, <1>2, <1>3, <1>4, <1>6, <1>8, <1>9, AskedType

LEMMA DownloadType ==
  ASSUME TypeOK, NEW s \in {"base", "target"}, Download(s)
  PROVE  TypeOK'
  <1>0. s \in Slots /\ task \in TaskSet /\ prog \in ProgSet /\ dev \in DevSet /\ seen \in SeenSet
    BY TypeSets DEF Slots
  <1>1. Landed(s) \in TaskSet /\ Cleared(prog, s) \in ProgSet
    <2>1. "ensure_image" \in Marks BY DEF Marks
    <2> QED BY <1>0, <2>1, TaskParts, ProgParts DEF Landed
  <1>2. AfterDownload(s) \in Steps /\ PollAt(s) \in Steps
    BY <1>0, AskedType DEF AfterDownload, Steps
  <1>3. /\ task' \in TaskSet /\ prog' \in ProgSet /\ dev' \in DevSet /\ seen' \in SeenSet
        /\ at' \in Steps /\ msgs' \in 0..MaxMsgs /\ faults' \in 0..MaxFaults
    <2>1. CASE Request(s, Image(s)) BY <2>1, <1>0, RequestType
    <2>2. CASE ~Request(s, Image(s))
      <3>1. Calm /\ dev' = dev /\ seen' = seen
        BY <2>2 DEF Download
      <3>2. task' \in {task, Landed(s)} /\ prog' \in {prog, Cleared(prog, s)}
        BY <2>2 DEF Download
      <3>3. Goto(AfterDownload(s)) \/ Goto(PollAt(s)) BY <2>2 DEF Download
      <3> QED BY <3>1, <3>2, <3>3, <1>0, <1>1, <1>2, Counted
    <2> QED BY <2>1, <2>2
  <1>4. opt' = opt /\ job' = job /\ row' = row /\ clean' = clean /\ retries' = retries BY DEF Download
  <1>5. /\ job \in {"RUNNING"} \cup JobEnded /\ row \in {Start, Target} /\ clean \subseteq Versions
        /\ retries \in 0..MaxRetries
    BY DEF TypeOK
  <1> QED BY <1>3, <1>4, <1>5, TypeFrame

LEMMA PersistType ==
  ASSUME TypeOK, NEW s \in Slots, Persist(s)
  PROVE  TypeOK'
  <1>1. prog' \in ProgSet /\ task' \in TaskSet BY TypeSets, ProgParts DEF Persist
  <1>2. at' \in Steps /\ msgs' \in 0..MaxMsgs /\ faults' \in 0..MaxFaults BY AskedType, Counted DEF Persist
  <1> QED BY <1>1, <1>2, RestType DEF Persist

LEMMA PollDownloadType ==
  ASSUME TypeOK, NEW s \in {"base", "target"}, PollDownload(s)
  PROVE  TypeOK'
  <1>0. s \in Slots /\ s \in Waits /\ task \in TaskSet /\ prog \in ProgSet /\ "close" \in Steps
    BY TypeSets DEF Slots, Waits, Steps
  <1> DEFINE p == Cleared(Unstamped(prog, s), s)
  <1>1. Landed(s) \in TaskSet /\ p \in ProgSet /\ Failed(task) \in TaskSet
    <2>1. "ensure_image" \in Marks BY DEF Marks
    <2>2. Unstamped(prog, s) \in ProgSet BY <1>0, ProgParts
    <2> QED BY <1>0, <2>1, <2>2, TaskParts, ProgParts DEF Landed
  <1>2. AfterDownload(s) \in Steps BY DEF AfterDownload, Steps
  <1>3. faults' \in 0..MaxFaults BY Counted DEF PollDownload
  <1>4. task' \in TaskSet /\ prog' \in ProgSet /\ at' \in Steps /\ msgs' \in 0..MaxMsgs
    <2>1. CASE NotYet(prog, s, task) BY <2>1, <1>0, NotYetType
    <2>2. CASE ~NotYet(prog, s, task)
      <3>1. prog' = p BY <2>2 DEF PollDownload
      <3>2. task' \in {task, Landed(s), Failed(task)} BY <2>2 DEF PollDownload, Fail
      <3>3. Goto(AfterDownload(s)) \/ Park \/ Goto("close") BY <2>2 DEF PollDownload, Fail
      <3> QED BY <3>1, <3>2, <3>3, <1>0, <1>1, <1>2, Counted DEF Park
    <2> QED BY <2>1, <2>2
  <1> QED BY <1>3, <1>4, RestType DEF PollDownload

LEMMA GateType ==
  ASSUME TypeOK, NEW step, NEW gate \in Phases, NEW mark \in Marks, NEW asks, NEW next \in Steps,
         Gate(step, gate, mark, asks, next)
  PROVE  TypeOK'
  <1>1. task \in TaskSet /\ prog \in ProgSet /\ "close" \in Steps BY TypeSets DEF Steps
  <1>2. [task EXCEPT !.token = ""] \in TaskSet /\ [task EXCEPT !.phase = gate] \in TaskSet
    BY <1>1, TaskParts
  <1>3. Mark([task EXCEPT !.token = ""], mark) \in TaskSet BY <1>2, TaskParts
  <1>4. task' \in TaskSet BY <1>1, <1>2, <1>3, Zenon DEF Gate
  <1>5. Goto(next) \/ Goto("close") BY DEF Gate
  <1> QED BY <1>1, <1>4, <1>5, Counted, RestType DEF Gate

LEMMA HoldType ==
  ASSUME TypeOK, Hold
  PROVE  TypeOK'
  <1>1. task \in TaskSet /\ prog \in ProgSet /\ "close" \in Steps /\ "DONE" \in Phases
    BY TypeSets DEF Steps, Phases
  <1>2. [task EXCEPT !.phase = "DONE"] \in TaskSet BY <1>1, TaskParts
  <1>3. CASE opt.mode = "stage_only"
    BY <1>1, <1>2, <1>3, Counted, RestType DEF Hold
  <1>4. CASE opt.mode # "stage_only"
    <2>1. Gate("hold", "hold", "install_confirmed", opt.mode = "hold", "install") BY <1>4 DEF Hold
    <2>2. "hold" \in Phases /\ "install_confirmed" \in Marks /\ "install" \in Steps
      BY DEF Phases, Gates, Marks, Steps
    <2> QED BY <2>1, <2>2, GateType
  <1> QED BY <1>3, <1>4

LEMMA RebootGateType ==
  ASSUME TypeOK, RebootGate
  PROVE  TypeOK'
  <1>1. "reboot" \in Phases /\ "reboot_confirmed" \in Marks /\ "reboot" \in Steps
    BY DEF Phases, Gates, Marks, Steps
  <1> QED BY <1>1, GateType DEF RebootGate

LEMMA InstallType ==
  ASSUME TypeOK, Install
  PROVE  TypeOK'
  <1>0. /\ "install" \in Slots /\ task \in TaskSet /\ prog \in ProgSet /\ dev \in DevSet /\ seen \in SeenSet
        /\ "install_complete" \in Marks /\ {"postcheck", "gate", "installPoll", "close"} \subseteq Steps
    BY TypeSets DEF Slots, Marks, Steps
  <1>1. Mark(task, "install_complete") \in TaskSet /\ Busy(task) \in TaskSet /\ Failed(Busy(task)) \in TaskSet
    BY <1>0, TaskParts
  <1>2. /\ task' \in TaskSet /\ prog' \in ProgSet /\ dev' \in DevSet /\ seen' \in SeenSet
        /\ at' \in Steps /\ msgs' \in 0..MaxMsgs /\ faults' \in 0..MaxFaults
    <2>1. CASE Request("install", Target) BY <2>1, <1>0, RequestType
    <2>2. CASE ~Request("install", Target)
      <3>1. Calm /\ dev' = dev /\ seen' = seen /\ prog' \in {prog, Tried("install")}
        BY <2>2 DEF Install
      <3>2. task' \in {Mark(task, "install_complete"), Busy(task), Failed(Busy(task))}
        BY <2>2 DEF Install, Fail
      <3>3. Goto("postcheck") \/ Goto("gate") \/ Goto("installPoll") \/ Goto("close")
        BY <2>2 DEF Install, Fail
      <3> QED BY <3>1, <3>2, <3>3, <1>0, <1>1, AskedType, Counted
    <2> QED BY <2>1, <2>2
  <1>3. opt' = opt /\ job' = job /\ row' = row /\ clean' = clean /\ retries' = retries BY DEF Install
  <1>4. /\ job \in {"RUNNING"} \cup JobEnded /\ row \in {Start, Target} /\ clean \subseteq Versions
        /\ retries \in 0..MaxRetries
    BY DEF TypeOK
  <1> QED BY <1>2, <1>3, <1>4, TypeFrame

LEMMA PollInstallType ==
  ASSUME TypeOK, PollInstall
  PROVE  TypeOK'
  <1>0. /\ "install" \in Slots /\ "install" \in Waits /\ task \in TaskSet /\ prog \in ProgSet
        /\ "software_installed" \in Marks /\ {"gate", "close"} \subseteq Steps /\ 0 \in 0..GoneLimit
    BY TypeSets, Bounds DEF Slots, Waits, Marks, Steps
  <1>1. /\ Mark(task, "software_installed") \in TaskSet /\ Failed(task) \in TaskSet
        /\ Missed(prog) \in ProgSet /\ [prog EXCEPT !.gone = 0] \in ProgSet
        /\ ClearedInstall(prog) \in ProgSet /\ Unstamped(prog, "install") \in ProgSet
    BY <1>0, TaskParts, ProgParts, TriesParts
  <1>2. ClearedInstall(Unstamped(prog, "install")) \in ProgSet BY <1>1, TriesParts
  <1>3. faults' \in 0..MaxFaults BY Counted, Zenon DEF PollInstall
  <1>4. task' \in TaskSet /\ prog' \in ProgSet /\ at' \in Steps /\ msgs' \in 0..MaxMsgs
    <2>1. CASE NotYet(Missed(prog), "install", task) BY <2>1, <1>0, <1>1, NotYetType
    <2>2. CASE NotYet([prog EXCEPT !.gone = 0], "install", task) BY <2>2, <1>0, <1>1, NotYetType
    <2>3. CASE ~NotYet(Missed(prog), "install", task) /\ ~NotYet([prog EXCEPT !.gone = 0], "install", task)
      <3>1. prog' \in {ClearedInstall(prog), ClearedInstall(Unstamped(prog, "install"))}
        BY <2>3 DEF PollInstall
      <3>2. task' \in {Mark(task, "software_installed"), Failed(task)} BY <2>3 DEF PollInstall, Fail
      <3>3. Goto("gate") \/ Goto("close") BY <2>3 DEF PollInstall, Fail
      <3> QED BY <3>1, <3>2, <3>3, <1>0, <1>1, <1>2, Counted
    <2> QED BY <2>1, <2>2, <2>3
  <1> QED BY <1>3, <1>4, RestType DEF PollInstall

LEMMA RebootType ==
  ASSUME TypeOK, Reboot
  PROVE  TypeOK'
  <1>0. task \in TaskSet /\ prog \in ProgSet /\ dev \in DevSet /\ seen \in SeenSet
        /\ {"boot", "close", "restarted"} \subseteq Steps
    BY TypeSets DEF Steps
  <1>1. Busy(task) \in TaskSet /\ Failed(task) \in TaskSet BY <1>0, TaskParts
  <1>2. [dev EXCEPT !.up = FALSE, !.jobs = [s \in Slots |-> "gone"]] \in DevSet BY <1>0 DEF DevSet
  <1>3. [seen EXCEPT !.restarted = TRUE, !.twice = @ \/ seen.restarted] \in SeenSet
    <2>1. (seen.twice \/ seen.restarted) \in BOOLEAN OBVIOUS
    <2> QED BY <1>0, <2>1 DEF SeenSet
  <1>4. dev' \in DevSet /\ seen' \in SeenSet BY <1>0, <1>2, <1>3, Zenon DEF Reboot
  <1>5. task' \in TaskSet BY <1>1 DEF Reboot, Fail
  <1>6. Goto("boot") \/ Goto("restarted") \/ Goto("close") BY DEF Reboot, Fail
  <1>7. faults' \in 0..MaxFaults BY Counted DEF Reboot
  <1>8. opt' = opt /\ job' = job /\ prog' = prog /\ row' = row /\ clean' = clean /\ retries' = retries
    BY DEF Reboot
  <1>9. /\ job \in {"RUNNING"} \cup JobEnded /\ row \in {Start, Target} /\ clean \subseteq Versions
        /\ retries \in 0..MaxRetries
    BY DEF TypeOK
  <1> QED BY <1>0, <1>4, <1>5, <1>6, <1>7, <1>8, <1>9, Counted, TypeFrame

LEMMA RestartedType ==
  ASSUME TypeOK, Restarted
  PROVE  TypeOK'
  <1>1. "reboot_issued" \in Marks /\ "boot" \in Steps BY DEF Marks, Steps
  <1>2. Mark(task, "reboot_issued") \in TaskSet /\ NoStreaks(prog) \in ProgSet
    BY <1>1, TypeSets, TaskParts, ProgParts
  <1> QED BY <1>1, <1>2, Counted, RestType DEF Restarted

LEMMA BootType ==
  ASSUME TypeOK, Boot
  PROVE  TypeOK'
  <1> DEFINE down == [prog EXCEPT !.down = TRUE, !.ok = 0, !.wrong = 0]
             good == [prog EXCEPT !.ok = IF @ < Consecutive THEN @ + 1 ELSE @, !.wrong = 0]
             bad == [prog EXCEPT !.ok = 0, !.wrong = IF prog.down /\ @ < WrongLimit THEN @ + 1 ELSE @]
  <1>0. task \in TaskSet /\ prog \in ProgSet /\ {"verify", "close"} \subseteq Steps /\ "reboot" \in Waits
    BY TypeSets DEF Steps, Waits
  <1>1. down \in ProgSet /\ good \in ProgSet /\ bad \in ProgSet
    <2>1. /\ 0 \in 0..Consecutive /\ 0 \in 0..WrongLimit
          /\ (IF prog.ok < Consecutive THEN prog.ok + 1 ELSE prog.ok) \in 0..Consecutive
          /\ (IF prog.down /\ prog.wrong < WrongLimit THEN prog.wrong + 1 ELSE prog.wrong) \in 0..WrongLimit
      BY <1>0, Bounds DEF ProgSet
    <2>2. down \in ProgSet BY <1>0, <2>1 DEF ProgSet
    <2>3. good \in ProgSet BY <1>0, <2>1 DEF ProgSet
    <2>4. bad \in ProgSet BY <1>0, <2>1 DEF ProgSet
    <2> QED BY <2>2, <2>3, <2>4
  <1> HIDE DEF down, good, bad
  <1>2. /\ NoStreaks(prog) \in ProgSet /\ NoStreaks(Unstamped(good, "reboot")) \in ProgSet
        /\ Failed(task) \in TaskSet
    <2>1. Unstamped(good, "reboot") \in ProgSet BY <1>0, <1>1, ProgParts
    <2> QED BY <1>0, <2>1, ProgParts, TaskParts
  <1>3. faults' \in 0..MaxFaults BY Counted, Zenon DEF Boot
  <1>4. \/ NotYet(down, "reboot", task) \/ NotYet(good, "reboot", task) \/ NotYet(bad, "reboot", task)
        \/ prog' = NoStreaks(prog) /\ Fail(task)
        \/ prog' = NoStreaks(Unstamped(good, "reboot")) /\ Goto("verify") /\ task' = task
    BY Zenon DEF Boot, down, good, bad
  <1>5. task' \in TaskSet /\ prog' \in ProgSet /\ at' \in Steps /\ msgs' \in 0..MaxMsgs
    <2>1. CASE NotYet(down, "reboot", task) BY <2>1, <1>0, <1>1, NotYetType
    <2>2. CASE NotYet(good, "reboot", task) BY <2>2, <1>0, <1>1, NotYetType
    <2>3. CASE NotYet(bad, "reboot", task) BY <2>3, <1>0, <1>1, NotYetType
    <2>4. CASE prog' = NoStreaks(prog) /\ Fail(task) BY <2>4, <1>0, <1>2, FailType
    <2>5. CASE prog' = NoStreaks(Unstamped(good, "reboot")) /\ Goto("verify") /\ task' = task
      BY <2>5, <1>0, <1>2, Counted
    <2> QED BY <1>4, <2>1, <2>2, <2>3, <2>4, <2>5
  <1> QED BY <1>3, <1>5, RestType DEF Boot

LEMMA VerifyType ==
  ASSUME TypeOK, Runs, Verify
  PROVE  TypeOK'
  <1>0. /\ task \in TaskSet /\ prog \in ProgSet /\ dev \in DevSet /\ seen \in SeenSet
        /\ "install_complete" \in Marks /\ {"postcheck", "close"} \subseteq Steps
    BY TypeSets DEF Marks, Steps
  <1>1. /\ Mark(Unmark(task, {"reboot_issued"}), "install_complete") \in TaskSet
        /\ Failed(Unmark(task, {"software_installed"})) \in TaskSet
    <2>1. Unmark(task, {"reboot_issued"}) \in TaskSet /\ Unmark(task, {"software_installed"}) \in TaskSet
      BY <1>0, TaskParts
    <2> QED BY <1>0, <2>1, TaskParts
  <1>2. task' \in TaskSet BY <1>1 DEF Verify, Fail
  <1>3. Goto("postcheck") \/ Goto("close") BY DEF Verify, Fail
  <1>4. row' \in {Start, Target} BY DEF Verify, Runs, TypeOK
  <1>5. faults' \in 0..MaxFaults BY Counted DEF Verify
  <1>6. opt' = opt /\ job' = job /\ prog' = prog /\ dev' = dev /\ clean' = clean /\ retries' = retries /\ seen' = seen
    BY DEF Verify
  <1>7. job \in {"RUNNING"} \cup JobEnded /\ clean \subseteq Versions /\ retries \in 0..MaxRetries BY DEF TypeOK
  <1> QED BY <1>0, <1>2, <1>3, <1>4, <1>5, <1>6, <1>7, Counted, TypeFrame

LEMMA DoneType ==
  ASSUME TypeOK, Done
  PROVE  TypeOK'
  <1>1. "DONE" \in Phases /\ "close" \in Steps BY DEF Phases, Steps
  <1>2. [task EXCEPT !.phase = "DONE"] \in TaskSet BY <1>1, TypeSets, TaskParts
  <1> QED BY <1>1, <1>2, TypeSets, Counted, RestType DEF Done

LEMMA CloseType ==
  ASSUME TypeOK, Close
  PROVE  TypeOK'
  <1>1. job' \in {"RUNNING"} \cup JobEnded
    <2>1. job' \in {job, "COMPLETED", "FAILED"} BY DEF Close
    <2> QED BY <2>1 DEF JobEnded, TypeOK
  <1>2. "idle" \in Steps BY DEF Steps
  <1>3. at' \in Steps /\ msgs' \in 0..MaxMsgs /\ faults' \in 0..MaxFaults BY <1>2, Counted DEF Close
  <1>4. /\ opt' = opt /\ task' = task /\ prog' = prog /\ row' = row /\ dev' = dev /\ clean' = clean
        /\ retries' = retries /\ seen' = seen
    BY DEF Close
  <1>5. row \in {Start, Target} /\ clean \subseteq Versions /\ retries \in 0..MaxRetries BY DEF TypeOK
  <1> QED BY <1>1, <1>3, <1>4, <1>5, TypeSets, TypeFrame

LEMMA TornType ==
  ASSUME TypeOK
  PROVE  /\ [seen EXCEPT !.torn = TRUE] \in SeenSet
         /\ [seen EXCEPT !.fell = TRUE] \in SeenSet
  BY TypeSets DEF SeenSet

LEMMA CrashType ==
  ASSUME TypeOK, Crash
  PROVE  TypeOK'
  <1>1. "close" \in Steps BY DEF Steps
  <1>2. at' \in Steps /\ msgs' \in 0..MaxMsgs /\ faults' \in 0..MaxFaults BY <1>1, Counted DEF Crash
  <1>3. task' \in TaskSet BY TypeSets, TaskParts DEF Crash
  <1>4. seen' \in SeenSet BY TornType DEF Crash
  <1>5. opt' = opt /\ job' = job /\ prog' = prog /\ row' = row /\ dev' = dev /\ clean' = clean /\ retries' = retries
    BY DEF Crash
  <1>6. /\ job \in {"RUNNING"} \cup JobEnded /\ row \in {Start, Target} /\ clean \subseteq Versions
        /\ retries \in 0..MaxRetries
    BY DEF TypeOK
  <1> QED BY <1>2, <1>3, <1>4, <1>5, <1>6, TypeSets, TypeFrame

LEMMA KillType ==
  ASSUME TypeOK, Kill
  PROVE  TypeOK'
  <1>1. at' \in Steps /\ faults' \in 0..MaxFaults BY Counted DEF Kill, Steps
  <1>2. msgs' \in 0..MaxMsgs
    <2>1. msgs \in 0..MaxMsgs /\ MaxMsgs \in Nat BY Bounds DEF TypeOK
    <2> QED BY <2>1 DEF Kill
  <1>3. seen' \in SeenSet BY TornType DEF Kill
  <1>4. /\ opt' = opt /\ job' = job /\ task' = task /\ prog' = prog /\ row' = row /\ dev' = dev /\ clean' = clean
        /\ retries' = retries
    BY DEF Kill
  <1>5. /\ job \in {"RUNNING"} \cup JobEnded /\ row \in {Start, Target} /\ clean \subseteq Versions
        /\ retries \in 0..MaxRetries
    BY DEF TypeOK
  <1> QED BY <1>1, <1>2, <1>3, <1>4, <1>5, TypeSets, TypeFrame

(* A step of the firewall, or of a cleanup of its disk.                     *)
LEMMA FirewallType ==
  ASSUME TypeOK, Undisturbed, dev' \in DevSet, seen' \in SeenSet, clean' \subseteq Versions, faults' \in 0..MaxFaults
  PROVE  TypeOK'
  <1>1. /\ opt' = opt /\ job' = job /\ task' = task /\ prog' = prog /\ row' = row /\ at' = at /\ msgs' = msgs
        /\ retries' = retries
    BY DEF Undisturbed
  <1>2. /\ job \in {"RUNNING"} \cup JobEnded /\ row \in {Start, Target} /\ at \in Steps /\ msgs \in 0..MaxMsgs
        /\ retries \in 0..MaxRetries
    BY DEF TypeOK
  <1> QED BY <1>1, <1>2, TypeSets, TypeFrame

LEMMA JobsType ==
  ASSUME TypeOK, NEW s \in Slots, NEW r \in {"none", "act", "ok", "fail", "gone"}
  PROVE  [dev EXCEPT !.jobs[s] = r] \in DevSet
  <1>1. dev \in DevSet BY TypeSets
  <1>2. [dev.jobs EXCEPT ![s] = r] \in [Slots -> {"none", "act", "ok", "fail", "gone"}] BY <1>1 DEF DevSet
  <1> QED BY <1>1, <1>2 DEF DevSet

LEMMA InstallEndsType ==
  ASSUME TypeOK, InstallEnds
  PROVE  TypeOK'
  <1>0. dev \in DevSet /\ seen \in SeenSet /\ "install" \in Slots BY TypeSets DEF Slots
  <1>1. [dev EXCEPT !.jobs["install"] = "ok", !.next = Target] \in DevSet
    <2>1. PICK d \in DevSet : d = [dev EXCEPT !.jobs["install"] = "ok"] BY <1>0, JobsType
    <2>2. [d EXCEPT !.next = Target] \in DevSet BY Bounds DEF DevSet
    <2> QED BY <2>1, <2>2
  <1>2. [dev EXCEPT !.jobs["install"] = "fail"] \in DevSet BY <1>0, JobsType
  <1>3. dev' \in DevSet BY <1>1, <1>2, Zenon DEF InstallEnds
  <1>4. clean' \subseteq Versions /\ faults' \in 0..MaxFaults BY Counted DEF InstallEnds, TypeOK
  <1>5. Undisturbed /\ seen' = seen BY DEF InstallEnds, Env
  <1> QED BY <1>0, <1>3, <1>4, <1>5, FirewallType

LEMMA DownloadEndsType ==
  ASSUME TypeOK, BaseKnown, NEW s \in {"base", "target"}, DownloadEnds(s)
  PROVE  TypeOK'
  <1>0. dev \in DevSet /\ seen \in SeenSet /\ s \in Slots BY TypeSets DEF Slots
  <1>1. Image(s) \in Versions BY Bounds DEF DownloadEnds, BaseKnown, Image
  <1>2. [dev EXCEPT !.jobs[s] = "ok", !.disk = @ \cup {Image(s)}] \in DevSet
    <2>1. PICK d \in DevSet : d = [dev EXCEPT !.jobs[s] = "ok"] BY <1>0, JobsType
    <2>2. d.disk = dev.disk /\ dev.disk \subseteq Versions BY <1>0, <2>1 DEF DevSet
    <2>3. [d EXCEPT !.disk = dev.disk \cup {Image(s)}] \in DevSet BY <1>1, <2>2 DEF DevSet
    <2> QED BY <2>1, <2>3
  <1>3. \A r \in {"ok", "fail"} : [dev EXCEPT !.jobs[s] = r] \in DevSet BY <1>0, JobsType
  <1>4. dev' \in DevSet BY <1>2, <1>3, Zenon DEF DownloadEnds
  <1>5. clean' \subseteq Versions /\ faults' \in 0..MaxFaults BY Counted DEF DownloadEnds, TypeOK
  <1>6. Undisturbed /\ seen' = seen BY DEF DownloadEnds, Env
  <1> QED BY <1>0, <1>4, <1>5, <1>6, FirewallType

LEMMA BootsType ==
  ASSUME TypeOK, Boots
  PROVE  TypeOK'
  <1>0. dev \in DevSet /\ seen \in SeenSet BY TypeSets
  <1>1. [dev EXCEPT !.up = TRUE, !.runs = dev.next] \in DevSet /\ [dev EXCEPT !.up = TRUE, !.next = dev.runs] \in DevSet
    BY <1>0 DEF DevSet
  <1>2. dev' \in DevSet /\ seen' \in SeenSet BY <1>0, <1>1, TornType DEF Boots
  <1>3. clean' \subseteq Versions /\ faults' \in 0..MaxFaults /\ Undisturbed BY Counted DEF Boots, TypeOK
  <1> QED BY <1>2, <1>3, FirewallType

LEMMA OutageType ==
  ASSUME TypeOK, Outage
  PROVE  TypeOK'
  <1>0. dev \in DevSet /\ seen \in SeenSet BY TypeSets
  <1> DEFINE j == [s \in Slots |-> IF dev.jobs[s] = "none" THEN "none" ELSE "gone"]
  <1>1. j \in [Slots -> {"none", "act", "ok", "fail", "gone"}] OBVIOUS
  <1>2. dev' = [dev EXCEPT !.up = FALSE, !.jobs = j] BY DEF Outage
  <1> HIDE DEF j
  <1>3. dev' \in DevSet BY <1>0, <1>1, <1>2 DEF DevSet
  <1>4. clean' \subseteq Versions /\ faults' \in 0..MaxFaults BY Counted DEF Outage, TypeOK
  <1>5. Undisturbed /\ seen' = seen BY DEF Outage, Env
  <1> QED BY <1>0, <1>3, <1>4, <1>5, FirewallType

LEMMA CleanupListsType ==
  ASSUME TypeOK, CleanupLists
  PROVE  TypeOK'
  <1>0. dev \in DevSet /\ seen \in SeenSet BY TypeSets
  <1>1. _deletable_images(list_software(dev.fresh), dev.runs) \subseteq Versions
    <2>1. \A e \in list_software(dev.fresh) : e.version \in Versions
      BY <1>0 DEF list_software, DevSet, Versions
    <2> QED BY <2>1 DEF _deletable_images
  <1>2. clean' \subseteq Versions BY <1>1 DEF CleanupLists
  <1>3. faults' \in 0..MaxFaults BY Counted DEF CleanupLists
  <1>4. Undisturbed /\ seen' = seen /\ dev' = dev BY DEF CleanupLists, Env
  <1> QED BY <1>0, <1>2, <1>3, <1>4, FirewallType

LEMMA CleanupDeletesType ==
  ASSUME TypeOK, CleanupDeletes
  PROVE  TypeOK'
  <1>0. dev \in DevSet /\ seen \in SeenSet BY TypeSets
  <1>1. \A v : [dev EXCEPT !.disk = @ \ {v}] \in DevSet BY <1>0 DEF DevSet
  <1>2. dev' \in DevSet /\ clean' \subseteq Versions
    <2>1. clean \subseteq Versions BY DEF TypeOK
    <2>2. PICK v \in clean : /\ clean' = clean \ {v}
                            /\ dev' = IF dev.up /\ v # dev.runs THEN [dev EXCEPT !.disk = @ \ {v}] ELSE dev
      BY Zenon DEF CleanupDeletes
    <2>3. [dev EXCEPT !.disk = @ \ {v}] \in DevSet BY <1>1
    <2> QED BY <1>0, <2>1, <2>2, <2>3, Zenon
  <1>3. faults' \in 0..MaxFaults BY Counted DEF CleanupDeletes
  <1>4. Undisturbed /\ seen' = seen BY DEF CleanupDeletes, Env
  <1> QED BY <1>0, <1>2, <1>3, <1>4, FirewallType

LEMMA OperatorType ==
  ASSUME TypeOK, Operator
  PROVE  TypeOK'
  <1>0. task \in TaskSet /\ prog \in ProgSet /\ dev \in DevSet /\ seen \in SeenSet /\ "PENDING" \in Phases
    BY TypeSets DEF Phases
  <1>1. /\ \A k \in {"", "go", "rerun"} : [task EXCEPT !.token = k] \in TaskSet
        /\ [task EXCEPT !.phase = "PENDING"] \in TaskSet
    BY <1>0, TaskParts
  <1>2. task' \in TaskSet BY <1>0, <1>1 DEF Operator, Click, Retry, Abort
  <1>3. job' \in {job, "RUNNING", "ABORTED"} BY DEF Operator, Click, Retry, Abort
  <1>4. Post /\ Routes BY DEF Operator, Click, Retry, Abort
  <1>5. retries' \in 0..MaxRetries
    <2>1. retries \in 0..MaxRetries /\ MaxRetries \in Nat BY Bounds DEF TypeOK
    <2>2. retries' = retries \/ (retries < MaxRetries /\ retries' = retries + 1)
      BY DEF Operator, Click, Retry, Abort
    <2> QED BY <2>1, <2>2
  <1>6. msgs' \in 0..MaxMsgs /\ faults' \in 0..MaxFaults BY <1>4, Counted DEF Routes
  <1>7. opt' = opt /\ prog' = prog /\ row' = row /\ at' = at /\ dev' = dev /\ clean' = clean /\ seen' = seen
    BY <1>4 DEF Routes
  <1>8. job' \in {"RUNNING"} \cup JobEnded BY <1>3 DEF JobEnded, TypeOK
  <1>9. row \in {Start, Target} /\ at \in Steps /\ clean \subseteq Versions BY DEF TypeOK
  <1> QED BY <1>0, <1>2, <1>5, <1>6, <1>7, <1>8, <1>9, TypeFrame

LEMMA ElapseType ==
  ASSUME TypeOK, Elapse
  PROVE  TypeOK'
  <1>0. prog \in ProgSet BY TypeSets
  <1> DEFINE f == [w \in Waits |-> IF prog.since[w] = "young" THEN "old" ELSE prog.since[w]]
  <1>1. f \in [Waits -> {"none", "young", "old"}] BY <1>0 DEF ProgSet
  <1>2. prog' = [prog EXCEPT !.since = f] BY DEF Elapse
  <1> HIDE DEF f
  <1>3. prog' \in ProgSet BY <1>0, <1>1, <1>2 DEF ProgSet
  <1>4. /\ opt' = opt /\ job' = job /\ task' = task /\ row' = row /\ at' = at /\ msgs' = msgs /\ dev' = dev
        /\ clean' = clean /\ retries' = retries /\ seen' = seen /\ faults' = faults
    BY DEF Elapse, Calm
  <1>5. /\ job \in {"RUNNING"} \cup JobEnded /\ row \in {Start, Target} /\ at \in Steps /\ msgs \in 0..MaxMsgs
        /\ clean \subseteq Versions /\ faults \in 0..MaxFaults /\ retries \in 0..MaxRetries
    BY DEF TypeOK
  <1> QED BY <1>3, <1>4, <1>5, TypeSets, TypeFrame

LEMMA TypeStep ==
  ASSUME TypeOK, Runs, BaseKnown, [Next]_vars
  PROVE  TypeOK'
  <1>1. CASE Take BY <1>1, TakeType
  <1>2. CASE Precheck
    <2>1. "precheck" \in Phases /\ "precheck" \in Marks /\ "image" \in Steps BY DEF Phases, Gates, Marks, Steps
    <2> QED BY <1>2, <2>1, CheckType DEF Precheck
  <1>3. CASE Postcheck
    <2>1. "postcheck" \in Phases /\ "postcheck" \in Marks /\ "done" \in Steps BY DEF Phases, Gates, Marks, Steps
    <2> QED BY <1>3, <2>1, CheckType DEF Postcheck
  <1>4. CASE Drive /\ ~Take /\ ~Precheck /\ ~Postcheck
    <2>1. \/ EnsureImage \/ Hold \/ Install \/ PollInstall \/ RebootGate \/ Reboot \/ Restarted \/ Boot \/ Verify
          \/ Done \/ Close \/ (\E s \in {"base", "target"} : Download(s) \/ PollDownload(s))
          \/ (\E s \in Slots : Persist(s))
      BY <1>4 DEF Drive
    <2> QED BY <2>1, EnsureImageType, HoldType, InstallType, PollInstallType, RebootGateType, RebootType,
               RestartedType, BootType, VerifyType, DoneType, CloseType, DownloadType, PollDownloadType, PersistType
  <1>5. CASE Crash \/ Kill BY <1>5, CrashType, KillType
  <1>6. CASE Firewall \/ Outage \/ CleanupLists \/ CleanupDeletes
    BY <1>6, InstallEndsType, BootsType, DownloadEndsType, OutageType, CleanupListsType, CleanupDeletesType DEF Firewall
  <1>7. CASE Operator \/ Elapse BY <1>7, OperatorType, ElapseType
  <1>8. CASE UNCHANGED vars BY <1>8 DEF vars, TypeOK
  <1> QED BY <1>1, <1>2, <1>3, <1>4, <1>5, <1>6, <1>7, <1>8 DEF Next

-------------------------------------------------------------------------------
(* What is kept.                                                            *)

Later == Runs /\ BaseKnown /\ Installed /\ Once

(* What a step of the drive that gives the firewall no command must respect.*)
LEMMA LaterFrame ==
  ASSUME IInv, opt' = opt, dev' = dev, seen' = seen, row' \in {row, dev.runs},
         "install_complete" \in task'.marks => "install_complete" \in task.marks \/ row' = Target,
         at' \in {"postcheck", "done"} => row' = Target,
         task'.phase = "DONE" => task.phase = "DONE" \/ opt.mode = "stage_only" \/ row = Target,
         at' \in {"base", "baseAsked", "basePoll"} => Image("base") \in Versions,
         "software_installed" \in task'.marks => "software_installed" \in task.marks \/ dev.next = Target,
         at' \in {"gate", "reboot", "restarted", "boot", "verify"} => "software_installed" \in task'.marks,
         at' \in {"installAsked", "installPoll", "gate", "reboot"} => row' # Target,
         "reboot_issued" \in task.marks => "reboot_issued" \in task'.marks \/ row' = Target,
         at = "restarted" => "reboot_issued" \in task'.marks \/ at' = "restarted"
  PROVE  Later'
  <1> USE DEF IInv
  <1>1. Runs'
    <2>1. row = Target => row' = Target BY DEF Runs
    <2> QED BY <2>1 DEF Runs, TypeOK
  <1>2. BaseKnown' BY DEF BaseKnown, Image
  <1>3. Installed' BY DEF Installed
  <1>4. Once'
    <2>1. row = Target => row' = Target BY DEF Runs
    <2> QED BY <2>1 DEF Once, RestartedOnce
  <1> QED BY <1>1, <1>2, <1>3, <1>4 DEF Later

(* Most steps end the drive, or lead to a state nothing is asked of.        *)
Plain == {"idle", "close", "precheck", "image", "target", "targetAsked", "targetPoll", "hold", "install"}

LEMMA PlainStep ==
  ASSUME IInv, opt' = opt, dev' = dev, seen' = seen, row' \in {row, dev.runs}, at # "restarted", at' \in Plain,
         {"install_complete", "software_installed", "reboot_issued"} \cap task'.marks
           = {"install_complete", "software_installed", "reboot_issued"} \cap task.marks,
         task'.phase = "DONE" => task.phase = "DONE"
  PROVE  Later'
  <1>1. /\ "install_complete" \in task'.marks <=> "install_complete" \in task.marks
        /\ "software_installed" \in task'.marks <=> "software_installed" \in task.marks
        /\ "reboot_issued" \in task'.marks <=> "reboot_issued" \in task.marks
    OBVIOUS
  <1>2. at' \notin {"postcheck", "done", "base", "baseAsked", "basePoll", "gate", "reboot", "restarted", "boot",
                    "verify", "installAsked", "installPoll"}
    BY DEF Plain
  <1> QED BY <1>1, <1>2, LaterFrame

LEMMA NotYetLater ==
  ASSUME IInv, NEW p, NEW w, NotYet(p, w, task), opt' = opt, dev' = dev, seen' = seen, row' = row, at # "restarted"
  PROVE  Later'
  <1>1. task \in TaskSet BY TypeSets DEF IInv
  <1>2. task' \in {task, Failed(task)} BY DEF NotYet, Fail
  <1>3. at' = "close" BY DEF NotYet, Fail, Goto, Park
  <1>4. task'.marks = task.marks /\ (task'.phase = "DONE" => task.phase = "DONE")
    BY <1>1, <1>2, MarkParts
  <1> QED BY <1>3, <1>4, PlainStep DEF Plain

LEMMA FailLater ==
  ASSUME IInv, NEW t \in TaskSet, Fail(t), opt' = opt, dev' = dev, seen' = seen, row' = row, at # "restarted",
         t.marks = task.marks
  PROVE  Later'
  <1>1. task' = Failed(t) /\ at' = "close" BY DEF Fail, Goto
  <1>2. task'.marks = task.marks /\ task'.phase # "DONE" BY <1>1, MarkParts
  <1> QED BY <1>1, <1>2, PlainStep DEF Plain

LEMMA TakeLater ==
  ASSUME IInv, Take
  PROVE  Later'
  <1>1. task \in TaskSet BY TypeSets DEF IInv
  <1>2. opt' = opt /\ dev' = dev /\ seen' = seen /\ row' = row /\ at = "idle" /\ at' \in {"idle", "precheck"}
    BY DEF Take, Rest
  <1>3. \/ task' = task
        \/ /\ AtTarget
           /\ task' = Unmark(Mark(Mark(task, "install_complete"), "ensure_image"), {"reboot_issued"})
        \/ /\ ~AtTarget /\ Marked("install_complete")
           /\ task' = Unmark(task, {"install_complete", "software_installed", "reboot_issued"})
    BY DEF Take, Reconciled
  <1>4. CASE task' = task BY <1>2, <1>4, PlainStep DEF Plain
  <1>5. CASE ~AtTarget /\ Marked("install_complete")
    BY <1>5 DEF IInv, Runs, Marked, AtTarget
  <1>6. CASE AtTarget /\ task' = Unmark(Mark(Mark(task, "install_complete"), "ensure_image"), {"reboot_issued"})
    <2>1. "install_complete" \in Marks /\ "ensure_image" \in Marks BY DEF Marks
    <2>2. Mark(task, "install_complete") \in TaskSet BY <1>1, <2>1, TaskParts
    <2>3. Mark(Mark(task, "install_complete"), "ensure_image") \in TaskSet BY <2>1, <2>2, TaskParts
    <2>4. /\ task'.marks = (task.marks \cup {"install_complete"} \cup {"ensure_image"}) \ {"reboot_issued"}
          /\ task'.phase = task.phase
      BY <1>1, <1>6, <2>2, <2>3, MarkParts
    <2>5. row' = Target BY <1>2, <1>6 DEF AtTarget
    <2> QED BY <1>2, <2>4, <2>5, LaterFrame
  <1> QED BY <1>3, <1>4, <1>5, <1>6

LEMMA CheckEffect ==
  ASSUME IInv, NEW gate \in Phases, NEW mark \in {"precheck", "postcheck"}, NEW step \in {"image", "done"},
         Check(gate, mark, step), step = "done" => gate = "postcheck", gate \in Gates
  PROVE  /\ opt' = opt /\ dev' = dev /\ seen' = seen /\ row' \in {row, dev.runs} /\ clean' = clean
         /\ at = gate /\ at' \in {step, "close"}
         /\ task'.marks \ {"precheck", "postcheck"} = task.marks \ {"precheck", "postcheck"}
         /\ (task'.phase = "DONE" => task.phase = "DONE")
  <1> DEFINE t == [Busy(task) EXCEPT !.token = IF task.phase = gate THEN "" ELSE @]
  <1>0. task \in TaskSet /\ gate # "DONE" BY TypeSets DEF IInv, Gates
  <1>1. /\ t \in TaskSet /\ t.marks = task.marks /\ t.phase = "BUSY"
        /\ [t EXCEPT !.phase = gate] \in TaskSet
        /\ [t EXCEPT !.phase = gate].marks = task.marks /\ [t EXCEPT !.phase = gate].phase = gate
    <2>1. PICK b \in TaskSet : b = Busy(task) BY <1>0, TaskParts
    <2>2. (IF task.phase = gate THEN "" ELSE b.token) \in {"", "go", "rerun"} BY <2>1 DEF TaskSet
    <2>3. t = [b EXCEPT !.token = IF task.phase = gate THEN "" ELSE b.token] BY <2>1
    <2>4. b.marks = task.marks /\ b.phase = "BUSY" BY <1>0, <2>1, MarkParts
    <2>5. t \in TaskSet /\ t.marks = task.marks /\ t.phase = "BUSY" BY <2>2, <2>3, <2>4 DEF TaskSet
    <2> HIDE DEF t
    <2> QED BY <2>5 DEF TaskSet
  <1> DEFINE u == [task EXCEPT !.token = ""]
  <1>2. u \in TaskSet /\ u.marks = task.marks /\ u.phase = task.phase
    <2>1. u \in TaskSet BY <1>0, TaskParts
    <2> QED BY <1>0, <2>1 DEF TaskSet
  <1> HIDE DEF t, u
  <1>3. /\ opt' = opt /\ dev' = dev /\ seen' = seen /\ row' \in {row, dev.runs} /\ clean' = clean
        /\ at = gate /\ at' \in {step, "close"}
    BY DEF Check, Goto
  <1>4. task' \in {task, u, Mark(u, mark), Mark(t, mark), [t EXCEPT !.phase = gate]}
    BY Zenon DEF Check, t, u
  <1>5. /\ task'.marks \ {"precheck", "postcheck"} = task.marks \ {"precheck", "postcheck"}
        /\ (task'.phase = "DONE" => task.phase = "DONE")
    <2>1. Mark(u, mark).marks = task.marks \cup {mark} /\ Mark(u, mark).phase = task.phase BY <1>2, MarkParts
    <2>2. Mark(t, mark).marks = task.marks \cup {mark} /\ Mark(t, mark).phase = "BUSY" BY <1>1, MarkParts
    <2>3. task'.marks \in {task.marks, task.marks \cup {mark}} BY <1>1, <1>2, <1>4, <2>1, <2>2
    <2>4. task'.phase \in {task.phase, "BUSY", gate} BY <1>1, <1>2, <1>4, <2>1, <2>2
    <2> QED BY <1>0, <2>3, <2>4
  <1> QED BY <1>3, <1>5

LEMMA CheckLater ==
  ASSUME IInv, NEW gate \in Phases, NEW mark \in {"precheck", "postcheck"}, NEW step \in {"image", "done"},
         Check(gate, mark, step), step = "done" => gate = "postcheck", gate \in Gates
  PROVE  Later'
  <1>1. /\ opt' = opt /\ dev' = dev /\ seen' = seen /\ row' \in {row, dev.runs} /\ clean' = clean
        /\ at = gate /\ at' \in {step, "close"}
        /\ task'.marks \ {"precheck", "postcheck"} = task.marks \ {"precheck", "postcheck"}
        /\ (task'.phase = "DONE" => task.phase = "DONE")
    BY CheckEffect
  <1>2. /\ "install_complete" \in task'.marks <=> "install_complete" \in task.marks
        /\ "software_installed" \in task'.marks <=> "software_installed" \in task.marks
        /\ "reboot_issued" \in task'.marks <=> "reboot_issued" \in task.marks
    BY <1>1
  <1>3. at' = "done" => row' = Target
    BY <1>1 DEF IInv, Runs
  <1>4. at # "restarted" BY <1>1 DEF Gates
  <1>5. at' \in {"image", "done", "close"} BY <1>1
  <1> QED BY <1>1, <1>2, <1>3, <1>4, <1>5, LaterFrame

(* The base of a train is one of its entries in the list, if it has any.    *)
LEMMA BaseListed ==
  ASSUME NEW list, \A e \in list : e.version \in Version
  PROVE  IF \E e \in list : feature_train(e.version) = feature_train(Target)
           THEN \E e \in list : /\ feature_train(e.version) = feature_train(Target)
                                /\ e.version = base_image_from_list(Target, list)
           ELSE base_image_from_list(Target, list) = NoImage
  <1> DEFINE train == {e \in list : feature_train(e.version) = feature_train(Target)}
             marked == {e.version : e \in {f \in train : f.base}}
             plain == {e.version : e \in {f \in train : f.version[4] = 0}}
             all == {e.version : e \in train}
             some == IF marked # {} THEN marked ELSE IF plain # {} THEN plain ELSE all
  <1>1. base_image_from_list(Target, list) = IF train = {} THEN NoImage ELSE Lowest(some)
    BY DEF base_image_from_list
  <1>2. some \subseteq all /\ all \subseteq Version /\ (train # {} => some # {}) OBVIOUS
  <1>3. train # {} => Lowest(some) \in all
    <2> HIDE DEF train, some, all
    <2>1. some \subseteq Version BY <1>2
    <2> QED BY <1>2, <2>1, LowestExists
  <1>4. train # {} <=> \E e \in list : feature_train(e.version) = feature_train(Target) OBVIOUS
  <1>5. \A v \in all : \E e \in list : feature_train(e.version) = feature_train(Target) /\ e.version = v
    OBVIOUS
  <1> HIDE DEF train, some, all
  <1> QED BY <1>1, <1>3, <1>4, <1>5

LEMMA ListVersions ==
  ASSUME TypeOK, NEW f
  PROVE  \A e \in list_software(f) : e.version \in Version
  <1>1. dev.disk \subseteq Versions /\ dev.runs \in Versions BY TypeSets DEF DevSet
  <1>2. {e.version : e \in Catalog} \subseteq Versions BY DEF Versions
  <1>3. \A e \in list_software(f) : e.version \in Versions BY <1>1, <1>2 DEF list_software
  <1> QED BY <1>3, Bounds

(* A base that is looked for and is not there is in the catalogue.          *)
LEMMA NeededIsKnown ==
  ASSUME TypeOK, BaseNeeded, dev.up
  PROVE  Image("base") \in Versions
  <1> DEFINE local == base_image_from_list(Target, list_software(dev.fresh))
             base == IF local # NoImage THEN local ELSE base_image_from_list(Target, list_software(TRUE))
  <1>1. base # NoImage /\ base \notin dev.disk \cup {dev.runs} BY DEF BaseNeeded, Present
  <1>2. \E f : base = base_image_from_list(Target, list_software(f)) OBVIOUS
  <1> HIDE DEF base
  <1>3. PICK f : base = base_image_from_list(Target, list_software(f)) BY <1>2
  <1>4. PICK e \in list_software(f) : feature_train(e.version) = feature_train(Target) /\ e.version = base
    BY <1>1, <1>3, ListVersions, BaseListed
  <1>5. PICK c \in Catalog : c.version = base BY <1>1, <1>4 DEF list_software
  <1>6. \A d \in Catalog : d.version \in Version BY SoloAssumption
  <1>7. \E d \in Catalog : d.version = base_image_from_list(Target, Catalog)
    BY <1>4, <1>5, <1>6, BaseListed
  <1> QED BY <1>7 DEF Image, Versions

LEMMA EnsureImageLater ==
  ASSUME IInv, EnsureImage
  PROVE  Later'
  <1>0. task \in TaskSet /\ TypeOK BY TypeSets DEF IInv
  <1>1. Busy(task) \in TaskSet BY <1>0, TaskParts
  <1>2. opt' = opt /\ dev' = dev /\ seen' = seen /\ row' = row /\ at = "image"
    BY DEF EnsureImage, Rest
  <1>3. CASE task' = Mark(task, "ensure_image") /\ Goto("hold")
    <2>1. task'.marks = task.marks \cup {"ensure_image"} /\ task'.phase = task.phase BY <1>0, <1>3, MarkParts
    <2> QED BY <1>2, <1>3, <2>1, PlainStep DEF Plain, Goto
  <1>4. CASE Fail(Busy(task))
    <2>1. Busy(task).marks = task.marks BY <1>0, MarkParts
    <2> QED BY <1>1, <1>2, <1>4, <2>1, FailLater
  <1>5. CASE Answers /\ task' = Busy(task) /\ Goto(IF BaseNeeded THEN "base" ELSE "target")
    <2>1. task'.marks = task.marks /\ task'.phase = "BUSY" BY <1>0, <1>5, MarkParts
    <2>2. at' \in {"base", "target"} /\ (at' = "base" => Image("base") \in Versions)
      BY <1>0, <1>5, NeededIsKnown DEF Goto, Answers
    <2> QED BY <1>2, <2>1, <2>2, LaterFrame
  <1> QED BY <1>3, <1>4, <1>5, Zenon DEF EnsureImage

(* A command: the firewall gets a job.                                      *)
LEMMA RequestLater ==
  ASSUME IInv, NEW s \in Slots, NEW v, Request(s, v), opt' = opt, row' = row, at \in {"base", "target", "install"},
         s = "base" => Image("base") \in Versions,
         s = "install" => row # Target /\ "software_installed" \notin task.marks
  PROVE  Later'
  <1>0. task \in TaskSet /\ dev \in DevSet /\ seen \in SeenSet /\ TypeOK BY TypeSets DEF IInv
  <1>1. task'.marks = task.marks /\ task'.phase # "DONE"
    <2>1. Busy(task) \in TaskSet BY <1>0, TaskParts
    <2>2. Busy(task).marks = task.marks /\ Busy(task).phase = "BUSY" BY <1>0, MarkParts
    <2>3. Failed(Busy(task)).marks = task.marks /\ Failed(Busy(task)).phase = "FAILED" BY <2>1, <2>2, MarkParts
    <2> QED BY <1>0, <2>2, <2>3, RequestType
  <1>2. CASE dev' = dev /\ seen' = seen /\ at' = "close"
    BY <1>1, <1>2, PlainStep DEF Plain
  <1>3. CASE dev' = Asked(s) /\ Issued(s) /\ at' = AskedAt(s) /\ dev.up
    <2>1. /\ dev'.runs = dev.runs /\ dev'.next = dev.next /\ dev'.up
          /\ \A r \in Slots : dev'.jobs[r] = IF r = s THEN "act" ELSE dev.jobs[r]
      BY <1>0, <1>3 DEF Asked, DevSet
    <2>2. /\ seen'.restarted = (seen.restarted /\ s # "install") /\ seen'.twice = seen.twice
          /\ seen'.torn = seen.torn /\ seen'.fell = (seen.fell /\ s # "install")
      BY <1>0, <1>3 DEF Issued, SeenSet
    <2>3. /\ s = "base" => at' = "baseAsked"
          /\ s = "target" => at' = "targetAsked"
          /\ s = "install" => at' = "installAsked"
      BY <1>3 DEF AskedAt
    <2>4. s \in {"base", "target", "install"} /\ "install" \in Slots /\ "base" \in Slots BY DEF Slots
    <2>5. Runs' BY <1>1, <2>1, <2>3, <2>4 DEF IInv, Runs
    <2>6. BaseKnown' BY <2>1, <2>3, <2>4 DEF IInv, BaseKnown, Image
    <2>7. Installed' BY <1>1, <2>1, <2>2, <2>3, <2>4 DEF IInv, Installed
    <2>8. Once' BY <1>1, <2>1, <2>2, <2>3, <2>4 DEF IInv, Once, RestartedOnce
    <2> QED BY <2>5, <2>6, <2>7, <2>8 DEF Later
  <1> QED BY <1>0, <1>2, <1>3, RequestType

LEMMA LandedParts ==
  ASSUME TypeOK, NEW s
  PROVE  Landed(s).marks \in {task.marks, task.marks \cup {"ensure_image"}} /\ Landed(s).phase = task.phase
  BY TypeSets, MarkParts DEF Landed

LEMMA DownloadLater ==
  ASSUME IInv, NEW s \in {"base", "target"}, Download(s)
  PROVE  Later'
  <1>0. s \in Slots /\ TypeOK /\ s # "install" BY DEF Slots, IInv
  <1>1. opt' = opt /\ row' = row /\ at = s BY DEF Download
  <1>2. s = "base" => Image("base") \in Versions BY <1>1 DEF IInv, BaseKnown
  <1>3. CASE Request(s, Image(s)) BY <1>0, <1>1, <1>2, <1>3, RequestLater
  <1>4. CASE ~Request(s, Image(s))
    <2>1. dev' = dev /\ seen' = seen BY <1>4 DEF Download
    <2>2. task' \in {task, Landed(s)} BY <1>4 DEF Download
    <2>3. at' \in {AfterDownload(s), PollAt(s)} BY <1>4 DEF Download, Goto
    <2>4. at' \in {"target", "hold", "targetPoll"} \/ (s = "base" /\ at' = "basePoll")
      BY <1>0, <2>3 DEF AfterDownload, PollAt
    <2>5. /\ task'.marks \in {task.marks, task.marks \cup {"ensure_image"}}
          /\ task'.phase = task.phase
      BY <1>0, <2>2, LandedParts
    <2> QED BY <1>1, <1>2, <2>1, <2>4, <2>5, LaterFrame
  <1> QED BY <1>3, <1>4

LEMMA PersistLater ==
  ASSUME IInv, NEW s \in Slots, Persist(s)
  PROVE  Later'
  <1>1. opt' = opt /\ dev' = dev /\ seen' = seen /\ row' = row /\ task' = task BY DEF Persist, Rest
  <1>2. at = AskedAt(s) /\ at' = PollAt(s) BY DEF Persist, Goto
  <1>3. \/ at = "baseAsked" /\ at' = "basePoll"
        \/ at = "targetAsked" /\ at' = "targetPoll"
        \/ at = "installAsked" /\ at' = "installPoll"
    BY <1>2 DEF AskedAt, PollAt, Slots
  <1> QED BY <1>1, <1>3, LaterFrame DEF IInv, BaseKnown, Once

LEMMA PollDownloadLater ==
  ASSUME IInv, NEW s \in {"base", "target"}, PollDownload(s)
  PROVE  Later'
  <1>0. task \in TaskSet /\ TypeOK BY TypeSets DEF IInv
  <1>1. opt' = opt /\ dev' = dev /\ seen' = seen /\ row' = row /\ at = PollAt(s)
    BY DEF PollDownload, Rest
  <1>2. at # "restarted" BY <1>1 DEF PollAt
  <1>3. CASE NotYet(prog, s, task) BY <1>1, <1>2, <1>3, NotYetLater
  <1>4. CASE ~NotYet(prog, s, task)
    <2>1. \/ task' = Landed(s) /\ Goto(AfterDownload(s))
          \/ task' = task /\ Park
          \/ Fail(task)
      BY <1>4 DEF PollDownload
    <2>2. CASE Fail(task) BY <1>0, <1>1, <1>2, <2>2, FailLater
    <2>3. CASE ~Fail(task)
      <3>1. at' \in {"target", "hold", "close"} BY <2>1, <2>3 DEF Goto, Park, AfterDownload
      <3>2. /\ task'.marks \in {task.marks, task.marks \cup {"ensure_image"}}
            /\ task'.phase = task.phase
        BY <1>0, <2>1, <2>3, LandedParts
      <3> QED BY <1>1, <1>2, <3>1, <3>2, PlainStep DEF Plain
    <2> QED BY <2>2, <2>3
  <1> QED BY <1>3, <1>4

(* What a gate does to the state: it writes a marker or its phase.          *)
GatePasses(step, gate, mark, next) ==
  /\ opt' = opt /\ dev' = dev /\ seen' = seen /\ row' = row /\ clean' = clean
  /\ at = step /\ at' \in {next, "close"}
  /\ task'.marks \in {task.marks, task.marks \cup {mark}} /\ task'.phase \in {task.phase, gate}

LEMMA GateEffect ==
  ASSUME IInv, NEW step, NEW gate \in {"hold", "reboot"}, NEW mark \in {"install_confirmed", "reboot_confirmed"},
         NEW asks, NEW next, Gate(step, gate, mark, asks, next)
  PROVE  GatePasses(step, gate, mark, next)
  <1>0. task \in TaskSet BY TypeSets DEF IInv
  <1>1. /\ opt' = opt /\ dev' = dev /\ seen' = seen /\ row' = row /\ clean' = clean
        /\ at = step /\ at' \in {next, "close"}
    BY DEF Gate, Rest, Goto
  <1> DEFINE u == [task EXCEPT !.token = ""]
             h == [task EXCEPT !.phase = gate]
  <1>2. u \in TaskSet /\ u.marks = task.marks /\ u.phase = task.phase
    <2>1. u \in TaskSet BY <1>0, TaskParts
    <2> QED BY <1>0, <2>1 DEF TaskSet
  <1>3. h.marks = task.marks /\ h.phase = gate BY <1>0 DEF TaskSet
  <1>4. task' \in {task, Mark(u, mark), h} BY DEF Gate
  <1> HIDE DEF u, h
  <1>5. Mark(u, mark).marks = task.marks \cup {mark} /\ Mark(u, mark).phase = task.phase
    BY <1>2, MarkParts
  <1>6. task'.marks \in {task.marks, task.marks \cup {mark}} /\ task'.phase \in {task.phase, gate}
    BY <1>3, <1>4, <1>5
  <1> QED BY <1>1, <1>6 DEF GatePasses

LEMMA GateLater ==
  ASSUME IInv, NEW step, NEW gate \in {"hold", "reboot"}, NEW mark \in {"install_confirmed", "reboot_confirmed"},
         NEW asks, NEW next \in {"install", "reboot"}, Gate(step, gate, mark, asks, next),
         step # "restarted", next = "reboot" => step = "gate"
  PROVE  Later'
  <1>1. GatePasses(step, gate, mark, next) BY GateEffect, Zenon
  <1>2. at' \in {"install", "close"} \/ (at = "gate" /\ at' = "reboot") BY <1>1 DEF GatePasses
  <1> QED BY <1>1, <1>2, LaterFrame DEF GatePasses, IInv, Installed, Once

LEMMA HoldLater ==
  ASSUME IInv, Hold
  PROVE  Later'
  <1>0. task \in TaskSet BY TypeSets DEF IInv
  <1>1. CASE opt.mode = "stage_only"
    <2>1. opt' = opt /\ dev' = dev /\ seen' = seen /\ row' = row /\ at = "hold" /\ at' = "close"
      BY <1>1 DEF Hold, Rest, Goto
    <2>2. task'.marks = task.marks BY <1>0, <1>1 DEF Hold, TaskSet
    <2> QED BY <1>1, <2>1, <2>2, LaterFrame
  <1>2. CASE opt.mode # "stage_only"
    <2>1. Gate("hold", "hold", "install_confirmed", opt.mode = "hold", "install") BY <1>2 DEF Hold
    <2> QED BY <2>1, GateLater
  <1> QED BY <1>1, <1>2

LEMMA RebootGateLater ==
  ASSUME IInv, RebootGate
  PROVE  Later'
  BY GateLater DEF RebootGate

LEMMA InstallLater ==
  ASSUME IInv, Install
  PROVE  Later'
  <1>0. task \in TaskSet /\ TypeOK /\ "install" \in Slots BY TypeSets DEF IInv, Slots
  <1>1. opt' = opt /\ row' = row /\ at = "install" BY DEF Install
  <1>2. Busy(task) \in TaskSet /\ Busy(task).marks = task.marks /\ Busy(task).phase = "BUSY"
    BY <1>0, TaskParts, MarkParts
  <1>3. CASE Marked("install_complete") \/ AtTarget
    <2>1. dev' = dev /\ seen' = seen /\ at' = "postcheck" /\ task' = Mark(task, "install_complete")
      BY <1>3 DEF Install, Goto
    <2>2. row = Target BY <1>3 DEF IInv, Runs, Marked, AtTarget
    <2>3. task'.marks = task.marks \cup {"install_complete"} /\ task'.phase = task.phase BY <1>0, <2>1, MarkParts
    <2> QED BY <1>1, <2>1, <2>2, <2>3, LaterFrame
  <1>4. CASE ~Marked("install_complete") /\ ~AtTarget
    <2>1. row # Target BY <1>4 DEF AtTarget
    <2>2. CASE Request("install", Target) /\ ~Marked("software_installed")
      BY <1>0, <1>1, <2>1, <2>2, RequestLater DEF Marked
    <2>3. CASE ~(Request("install", Target) /\ ~Marked("software_installed"))
      <3>1. dev' = dev /\ seen' = seen BY <1>4, <2>3 DEF Install
      <3>2. \/ Marked("software_installed") /\ at' = "gate" /\ task' = Busy(task)
            \/ at' = "installPoll" /\ task' = Busy(task)
            \/ Fail(Busy(task))
        BY <1>4, <2>3 DEF Install, Goto
      <3>3. CASE Fail(Busy(task)) BY <1>1, <1>2, <3>1, <3>3, FailLater
      <3>4. CASE ~Fail(Busy(task))
        BY <1>1, <1>2, <2>1, <3>1, <3>2, <3>4, LaterFrame DEF Marked
      <3> QED BY <3>3, <3>4
    <2> QED BY <2>2, <2>3
  <1> QED BY <1>3, <1>4

LEMMA PollInstallLater ==
  ASSUME IInv, PollInstall
  PROVE  Later'
  <1>0. task \in TaskSet BY TypeSets DEF IInv
  <1>1. opt' = opt /\ dev' = dev /\ seen' = seen /\ row' = row /\ at = "installPoll"
    BY DEF PollInstall, Rest
  <1>2. \/ \E p : NotYet(p, "install", task)
        \/ Fail(task)
        \/ dev.jobs["install"] = "ok" /\ task' = Mark(task, "software_installed") /\ Goto("gate")
    BY Zenon DEF PollInstall
  <1>3. CASE \E p : NotYet(p, "install", task) BY <1>1, <1>3, NotYetLater
  <1>4. CASE Fail(task) BY <1>0, <1>1, <1>4, FailLater
  <1>5. CASE dev.jobs["install"] = "ok" /\ task' = Mark(task, "software_installed") /\ Goto("gate")
    <2>1. dev.next = Target /\ row # Target BY <1>1, <1>5 DEF IInv, Installed, Once
    <2>2. task'.marks = task.marks \cup {"software_installed"} /\ task'.phase = task.phase
      BY <1>0, <1>5, MarkParts
    <2>3. at' = "gate" BY <1>5 DEF Goto
    <2> QED BY <1>1, <2>1, <2>2, <2>3, LaterFrame
  <1> QED BY <1>2, <1>3, <1>4, <1>5

LEMMA RebootLater ==
  ASSUME IInv, Reboot
  PROVE  Later'
  <1>0. task \in TaskSet /\ dev \in DevSet /\ seen \in SeenSet /\ "install" \in Slots /\ "base" \in Slots
    BY TypeSets DEF IInv, Slots
  <1>1. opt' = opt /\ row' = row /\ at = "reboot" BY DEF Reboot
  <1>2. Busy(task).marks = task.marks /\ Busy(task).phase = "BUSY" BY <1>0, MarkParts
  <1>3. row # Target /\ "software_installed" \in task.marks BY <1>1 DEF IInv, Once, Installed
  <1>4. CASE dev' = dev /\ seen' = seen /\ Fail(task) BY <1>0, <1>1, <1>4, FailLater
  <1>5. CASE dev' = dev /\ seen' = seen /\ at' = "boot" /\ task' = Busy(task)
    BY <1>1, <1>2, <1>3, <1>5, LaterFrame
  <1>6. CASE /\ ~Marked("reboot_issued") /\ at' = "restarted" /\ task' = Busy(task)
             /\ dev' = [dev EXCEPT !.up = FALSE, !.jobs = [s \in Slots |-> "gone"]]
             /\ seen' = [seen EXCEPT !.restarted = TRUE, !.twice = @ \/ seen.restarted]
    <2>1. /\ dev'.runs = dev.runs /\ dev'.next = dev.next /\ ~dev'.up
          /\ dev'.jobs["install"] = "gone" /\ dev'.jobs["base"] = "gone"
      BY <1>0, <1>6 DEF DevSet
    <2>2. /\ seen'.restarted /\ seen'.twice <=> (seen.twice \/ seen.restarted)
          /\ seen'.torn = seen.torn /\ seen'.fell = seen.fell
      BY <1>0, <1>6 DEF SeenSet
    <2>3. task'.marks = task.marks /\ task'.phase = "BUSY" BY <1>2, <1>6
    <2>4. Runs' BY <1>1, <1>6, <2>1, <2>3 DEF IInv, Runs
    <2>5. BaseKnown' BY <1>6, <2>1 DEF BaseKnown
    <2>6. Installed' BY <1>3, <1>6, <2>1, <2>2, <2>3 DEF IInv, Installed
    <2>7. Once'
      <3>1. ~seen.torn => ~seen.restarted /\ ~seen.twice
        BY <1>1, <1>3, <1>6 DEF IInv, Once, RestartedOnce, Marked
      <3> QED BY <1>6, <2>2, <3>1 DEF Once, RestartedOnce
    <2> QED BY <2>4, <2>5, <2>6, <2>7 DEF Later
  <1> QED BY <1>4, <1>5, <1>6 DEF Reboot, Goto

LEMMA RestartedLater ==
  ASSUME IInv, Restarted
  PROVE  Later'
  <1>0. task \in TaskSet BY TypeSets DEF IInv
  <1>1. opt' = opt /\ dev' = dev /\ seen' = seen /\ row' = row /\ at = "restarted" /\ at' = "boot"
    BY DEF Restarted, Rest, Goto
  <1>2. task'.marks = task.marks \cup {"reboot_issued"} /\ task'.phase = task.phase
    BY <1>0, MarkParts DEF Restarted
  <1> QED BY <1>1, <1>2, LaterFrame DEF IInv, Installed

LEMMA BootLater ==
  ASSUME IInv, Boot
  PROVE  Later'
  <1>0. task \in TaskSet BY TypeSets DEF IInv
  <1>1. opt' = opt /\ dev' = dev /\ seen' = seen /\ row' = row /\ at = "boot" BY DEF Boot, Rest
  <1>2. \/ \E p : NotYet(p, "reboot", task)
        \/ Fail(task)
        \/ Goto("verify") /\ task' = task
    BY Zenon DEF Boot
  <1>3. CASE \E p : NotYet(p, "reboot", task) BY <1>1, <1>3, NotYetLater
  <1>4. CASE Fail(task) BY <1>0, <1>1, <1>4, FailLater
  <1>5. CASE Goto("verify") /\ task' = task
    <2>1. at' = "verify" BY <1>5 DEF Goto
    <2> QED BY <1>1, <1>5, <2>1, LaterFrame DEF IInv, Installed
  <1> QED BY <1>2, <1>3, <1>4, <1>5

LEMMA VerifyLater ==
  ASSUME IInv, Verify
  PROVE  Later'
  <1>0. task \in TaskSet BY TypeSets DEF IInv
  <1>1. opt' = opt /\ dev' = dev /\ seen' = seen /\ row' \in {row, dev.runs} /\ at = "verify" BY DEF Verify
  <1>2. CASE row' = Target
    <2>1. task' = Mark(Unmark(task, {"reboot_issued"}), "install_complete") /\ at' = "postcheck"
      BY <1>2 DEF Verify, Goto
    <2>2. Unmark(task, {"reboot_issued"}) \in TaskSet BY <1>0, TaskParts
    <2>3. task'.marks = (task.marks \ {"reboot_issued"}) \cup {"install_complete"} /\ task'.phase = task.phase
      BY <1>0, <2>1, <2>2, MarkParts
    <2> QED BY <1>1, <1>2, <2>1, <2>3, LaterFrame
  <1>3. CASE row' # Target
    <2>1. task' = Failed(Unmark(task, {"software_installed"})) /\ at' = "close" BY <1>3 DEF Verify, Fail, Goto
    <2>2. Unmark(task, {"software_installed"}) \in TaskSet BY <1>0, TaskParts
    <2>3. task'.marks = task.marks \ {"software_installed"} /\ task'.phase = "FAILED"
      BY <1>0, <2>1, <2>2, MarkParts
    <2> QED BY <1>1, <2>1, <2>3, LaterFrame
  <1> QED BY <1>2, <1>3

LEMMA DoneLater ==
  ASSUME IInv, Done
  PROVE  Later'
  <1>0. task \in TaskSet BY TypeSets DEF IInv
  <1>1. opt' = opt /\ dev' = dev /\ seen' = seen /\ row' = row /\ at = "done" /\ at' = "close"
    BY DEF Done, Rest, Goto
  <1>2. task'.marks = task.marks BY <1>0 DEF Done, TaskSet
  <1>3. row = Target BY <1>1 DEF IInv, Runs
  <1> QED BY <1>1, <1>2, <1>3, LaterFrame

LEMMA CloseLater ==
  ASSUME IInv, Close
  PROVE  Later'
  <1>1. opt' = opt /\ dev' = dev /\ seen' = seen /\ row' = row /\ task' = task /\ at = "close" /\ at' = "idle"
    BY DEF Close, Goto
  <1> QED BY <1>1, PlainStep DEF Plain

(* An exception or a killed worker: what the firewall knows is kept.        *)
LEMMA TornLater ==
  ASSUME IInv, Crash \/ Kill
  PROVE  Later'
  <1>0. task \in TaskSet /\ seen \in SeenSet BY TypeSets DEF IInv
  <1>1. /\ opt' = opt /\ dev' = dev /\ row' = row /\ at' \in {"idle", "close"}
        /\ seen' = [seen EXCEPT !.torn = TRUE] /\ task' \in {task, Failed(task)}
    BY DEF Crash, Kill, Goto
  <1>2. task'.marks = task.marks /\ (task'.phase = "DONE" => task.phase = "DONE") BY <1>0, <1>1, MarkParts
  <1>3. seen'.torn /\ seen'.fell = seen.fell BY <1>0, <1>1 DEF SeenSet
  <1>4. Runs' BY <1>1, <1>2 DEF IInv, Runs
  <1>5. BaseKnown' BY <1>1 DEF IInv, BaseKnown, Image
  <1>6. Installed' BY <1>1, <1>2, <1>3 DEF IInv, Installed
  <1>7. Once' BY <1>1, <1>3 DEF Once, RestartedOnce
  <1> QED BY <1>4, <1>5, <1>6, <1>7 DEF Later

(* What a step of the firewall, or of a cleanup, must respect.              *)
LEMMA FirewallFrame ==
  ASSUME IInv, Undisturbed, seen'.torn = seen.torn, seen'.twice = seen.twice, seen'.restarted = seen.restarted,
         seen.fell => seen'.fell,
         dev'.runs \in {dev.runs, dev.next}, dev'.next \in {dev.next, dev.runs, Target},
         dev'.runs = dev.runs \/ dev'.next = dev'.runs,
         dev'.next = dev.next \/ dev'.next = Target \/ seen'.fell,
         dev'.jobs["install"] = "ok" => dev'.next = Target,
         ~dev'.up => dev'.jobs["install"] \in {"none", "gone"},
         dev'.jobs["base"] = "act" => dev.jobs["base"] = "act"
  PROVE  Later'
  <1>1. opt' = opt /\ task' = task /\ row' = row /\ at' = at BY DEF Undisturbed
  <1>2. Runs' BY <1>1 DEF IInv, Runs
  <1>3. BaseKnown' BY <1>1 DEF IInv, BaseKnown, Image
  <1>4. Installed' BY <1>1 DEF IInv, Installed
  <1>5. Once' BY <1>1 DEF IInv, Once, RestartedOnce
  <1> QED BY <1>2, <1>3, <1>4, <1>5 DEF Later

LEMMA InstallEndsLater ==
  ASSUME IInv, InstallEnds
  PROVE  Later'
  <1>0. dev \in DevSet /\ "install" \in Slots /\ "base" \in Slots BY TypeSets DEF IInv, Slots
  <1>1. Undisturbed /\ seen' = seen /\ dev.up BY DEF InstallEnds, Env
  <1>2. CASE dev' = [dev EXCEPT !.jobs["install"] = "ok", !.next = Target]
    <2>1. /\ dev'.runs = dev.runs /\ dev'.next = Target /\ dev'.up = dev.up
          /\ dev'.jobs["install"] = "ok" /\ dev'.jobs["base"] = dev.jobs["base"]
      BY <1>0, <1>2 DEF DevSet
    <2> QED BY <1>1, <2>1, FirewallFrame
  <1>3. CASE dev' = [dev EXCEPT !.jobs["install"] = "fail"]
    <2>1. /\ dev'.runs = dev.runs /\ dev'.next = dev.next /\ dev'.up = dev.up
          /\ dev'.jobs["install"] = "fail" /\ dev'.jobs["base"] = dev.jobs["base"]
      BY <1>0, <1>3 DEF DevSet
    <2> QED BY <1>1, <2>1, FirewallFrame
  <1> QED BY <1>2, <1>3 DEF InstallEnds

LEMMA DownloadEndsLater ==
  ASSUME IInv, NEW s \in {"base", "target"}, DownloadEnds(s)
  PROVE  Later'
  <1>0. dev \in DevSet /\ "install" \in Slots /\ "base" \in Slots /\ s \in Slots /\ s # "install"
    BY TypeSets DEF IInv, Slots
  <1>1. Undisturbed /\ seen' = seen /\ dev.up BY DEF DownloadEnds, Env
  <1>2. \E r \in {"ok", "fail"} : \/ dev' = [dev EXCEPT !.jobs[s] = r, !.disk = @ \cup {Image(s)}]
                                  \/ dev' = [dev EXCEPT !.jobs[s] = r]
    BY DEF DownloadEnds
  <1>3. PICK r \in {"ok", "fail"} : \/ dev' = [dev EXCEPT !.jobs[s] = r, !.disk = @ \cup {Image(s)}]
                                    \/ dev' = [dev EXCEPT !.jobs[s] = r]
    BY <1>2
  <1>4. /\ dev'.runs = dev.runs /\ dev'.next = dev.next /\ dev'.up = dev.up
        /\ dev'.jobs["install"] = dev.jobs["install"] /\ dev'.jobs["base"] \in {r, dev.jobs["base"]}
    BY <1>0, <1>3 DEF DevSet
  <1> QED BY <1>1, <1>4, FirewallFrame DEF IInv, Installed

LEMMA BootsLater ==
  ASSUME IInv, Boots
  PROVE  Later'
  <1>0. dev \in DevSet /\ seen \in SeenSet BY TypeSets DEF IInv
  <1>1. Undisturbed /\ ~dev.up BY DEF Boots
  <1>2. dev.jobs["install"] \in {"none", "gone"} BY <1>1 DEF IInv, Installed
  <1>3. CASE dev' = [dev EXCEPT !.up = TRUE, !.runs = dev.next] /\ seen' = seen
    <2>1. dev'.runs = dev.next /\ dev'.next = dev.next /\ dev'.up /\ dev'.jobs = dev.jobs
      BY <1>0, <1>3 DEF DevSet
    <2> QED BY <1>1, <1>2, <1>3, <2>1, FirewallFrame
  <1>4. CASE dev' = [dev EXCEPT !.up = TRUE, !.next = dev.runs] /\ seen' = [seen EXCEPT !.fell = TRUE]
    <2>1. dev'.runs = dev.runs /\ dev'.next = dev.runs /\ dev'.up /\ dev'.jobs = dev.jobs
      BY <1>0, <1>4 DEF DevSet
    <2>2. seen'.torn = seen.torn /\ seen'.twice = seen.twice /\ seen'.restarted = seen.restarted /\ seen'.fell
      BY <1>0, <1>4 DEF SeenSet
    <2> QED BY <1>1, <1>2, <2>1, <2>2, FirewallFrame
  <1> QED BY <1>3, <1>4 DEF Boots

LEMMA OutageLater ==
  ASSUME IInv, Outage
  PROVE  Later'
  <1>0. dev \in DevSet /\ "install" \in Slots /\ "base" \in Slots BY TypeSets DEF IInv, Slots
  <1>1. Undisturbed /\ seen' = seen BY DEF Outage, Env
  <1>2. /\ dev'.runs = dev.runs /\ dev'.next = dev.next /\ ~dev'.up
        /\ dev'.jobs["install"] \in {"none", "gone"} /\ dev'.jobs["base"] \in {"none", "gone"}
    BY <1>0 DEF Outage, DevSet
  <1> QED BY <1>1, <1>2, FirewallFrame

LEMMA CleanupLater ==
  ASSUME IInv, CleanupLists \/ CleanupDeletes
  PROVE  Later'
  <1>0. dev \in DevSet BY TypeSets DEF IInv
  <1>1. Undisturbed /\ seen' = seen BY DEF CleanupLists, CleanupDeletes, Env
  <1>2. dev' = dev \/ \E v \in clean : dev' = [dev EXCEPT !.disk = @ \ {v}]
    BY DEF CleanupLists, CleanupDeletes
  <1>3. dev'.runs = dev.runs /\ dev'.next = dev.next /\ dev'.up = dev.up /\ dev'.jobs = dev.jobs
    BY <1>0, <1>2 DEF DevSet
  <1> QED BY <1>1, <1>3, FirewallFrame DEF IInv, Installed

LEMMA OperatorLater ==
  ASSUME IInv, Operator
  PROVE  Later'
  <1>0. task \in TaskSet BY TypeSets DEF IInv
  <1>1. opt' = opt /\ dev' = dev /\ seen' = seen /\ row' = row /\ at' = at
    BY DEF Operator, Click, Retry, Abort, Routes
  <1>2. \/ \E k \in {"go", "rerun"} : task' = [task EXCEPT !.token = k]
        \/ task' = [task EXCEPT !.phase = "PENDING"]
        \/ task' = task
    BY DEF Operator, Click, Retry, Abort
  <1>3. task'.marks = task.marks /\ (task'.phase = "DONE" => task.phase = "DONE")
    BY <1>0, <1>2 DEF TaskSet
  <1> QED BY <1>1, <1>3, LaterFrame DEF IInv, Runs, BaseKnown, Installed, Once

LEMMA ElapseLater ==
  ASSUME IInv, Elapse
  PROVE  Later'
  <1>1. opt' = opt /\ dev' = dev /\ seen' = seen /\ row' = row /\ task' = task /\ at' = at /\ at = "idle"
    BY DEF Elapse
  <1> QED BY <1>1, PlainStep DEF Plain

LEMMA LaterStep ==
  ASSUME IInv, [Next]_vars
  PROVE  Later'
  <1>1. CASE Precheck \/ Postcheck
    <2>1. \A g \in {"precheck", "postcheck"} : g \in Phases /\ g \in Gates BY DEF Phases, Gates
    <2> QED BY <1>1, <2>1, CheckLater DEF Precheck, Postcheck
  <1>2. CASE Drive /\ ~(Precheck \/ Postcheck)
    <2>1. \/ Take \/ EnsureImage \/ Hold \/ Install \/ PollInstall \/ RebootGate \/ Reboot \/ Restarted \/ Boot
          \/ Verify \/ Done \/ Close \/ (\E s \in {"base", "target"} : Download(s) \/ PollDownload(s))
          \/ (\E s \in Slots : Persist(s))
      BY <1>2 DEF Drive
    <2> QED BY <2>1, TakeLater, EnsureImageLater, HoldLater, InstallLater, PollInstallLater, RebootGateLater, RebootLater,
               RestartedLater, BootLater, VerifyLater, DoneLater, CloseLater, DownloadLater, PollDownloadLater, PersistLater
  <1>3. CASE Crash \/ Kill BY <1>3, TornLater
  <1>4. CASE Firewall \/ Outage \/ CleanupLists \/ CleanupDeletes
    BY <1>4, InstallEndsLater, BootsLater, DownloadEndsLater, OutageLater, CleanupLater DEF Firewall
  <1>5. CASE Operator \/ Elapse BY <1>5, OperatorLater, ElapseLater
  <1>6. CASE UNCHANGED vars
    <2>1. Runs' BY <1>6 DEF vars, IInv, Runs
    <2>2. BaseKnown' BY <1>6 DEF vars, IInv, BaseKnown, Image
    <2>3. Installed' BY <1>6 DEF vars, IInv, Installed
    <2>4. Once' BY <1>6 DEF vars, IInv, Once, RestartedOnce
    <2> QED BY <2>1, <2>2, <2>3, <2>4 DEF Later
  <1> QED BY <1>1, <1>2, <1>3, <1>4, <1>5, <1>6 DEF Next

LEMMA InitIInv == Init => IInv
  <1> SUFFICES ASSUME Init PROVE IInv OBVIOUS
  <1>1. task \in TaskSet /\ prog \in ProgSet /\ dev \in DevSet /\ seen \in SeenSet
    <2>1. 0 \in 0..Attempts /\ 0 \in 0..GoneLimit /\ 0 \in 0..Consecutive /\ 0 \in 0..WrongLimit BY Bounds
    <2>2. task \in TaskSet BY DEF Init, TaskSet, Phases
    <2>3. prog \in ProgSet BY <2>1 DEF Init, NoHandles, ProgSet
    <2>4. dev \in DevSet BY Bounds DEF Init, DevSet
    <2>5. seen \in SeenSet BY DEF Init, SeenSet
    <2> QED BY <2>2, <2>3, <2>4, <2>5
  <1>2. msgs \in 0..MaxMsgs /\ faults \in 0..MaxFaults /\ retries \in 0..MaxRetries
    <2>1. 1 \in 0..MaxMsgs /\ 0 \in 0..MaxFaults /\ 0 \in 0..MaxRetries BY Bounds
    <2> QED BY <2>1 DEF Init
  <1>3. opt \in Options /\ job = "RUNNING" /\ row \in {Start, Target} /\ at \in Steps /\ clean \subseteq Versions
    BY DEF Init, Steps
  <1>4. TypeOK BY <1>1, <1>2, <1>3 DEF TypeOK, TaskSet, ProgSet, DevSet, SeenSet
  <1>5. dev.jobs["base"] = "none" /\ dev.jobs["install"] = "none" BY DEF Init, Slots
  <1>6. Runs BY Bounds DEF Init, Runs
  <1>7. BaseKnown BY <1>5 DEF Init, BaseKnown
  <1>8. Installed BY <1>5 DEF Init, Installed
  <1>9. Once BY DEF Init, Once, RestartedOnce
  <1> QED BY <1>4, <1>6, <1>7, <1>8, <1>9 DEF IInv

LEMMA StepIInv == IInv /\ [Next]_vars => IInv'
  <1> SUFFICES ASSUME IInv, [Next]_vars PROVE IInv' OBVIOUS
  <1>1. TypeOK' BY TypeStep DEF IInv
  <1>2. Later' BY LaterStep
  <1> QED BY <1>1, <1>2 DEF IInv, Later

-------------------------------------------------------------------------------
(* The theorems.                                                            *)

LEMMA Invariant == Spec => []IInv
  BY InitIInv, StepIInv, PTL DEF Spec

(* The state keeps its type: no counter leaves its limit, no handle or      *)
(* marker has a name the code does not know, for every catalogue and disk.  *)
THEOREM TypeCorrect == Spec => []TypeOK
  <1>1. IInv => TypeOK BY DEF IInv
  <1> QED BY <1>1, Invariant, PTL

(* A task that installs is DONE only when its firewall runs the target,     *)
(* whatever was killed, retried, dropped or overridden on the way.          *)
THEOREM DoneRunsTarget == Spec => []DoneMeansUpgraded
  <1>1. IInv => DoneMeansUpgraded BY DEF IInv, Runs, DoneMeansUpgraded
  <1> QED BY <1>1, Invariant, PTL

(* An install is followed by one restart, unless a worker died or raised:   *)
(* duplicate messages, dropped requests and retries never issue another.    *)
THEOREM RestartIssuedOnce == Spec => []RestartedOnce
  <1>1. IInv => RestartedOnce BY DEF IInv, Once
  <1> QED BY <1>1, Invariant, PTL

(* The restart comes after an install that succeeded, so that the target    *)
(* boots, unless the firewall has fallen back by itself in between.         *)
THEOREM RestartBootsTarget == Spec => RestartsIntoTarget
  <1>1. IInv => (at = "reboot" => dev.next = Target \/ seen.fell) BY DEF IInv, Installed
  <1>2. IInv => [at = "reboot" /\ at' = "restarted" => dev.next = Target \/ seen.fell]_vars BY <1>1
  <1> QED BY <1>2, Invariant, PTL DEF RestartsIntoTarget

-------------------------------------------------------------------------------
(* The images.  From here on the upgrade is to a newer train.               *)

(* The marked base of the target's train is above the running release, and  *)
(* the target is: neither is below what runs before the restart.            *)
LEMMA MarkedBase ==
  ASSUME NewTrain
  PROVE  /\ \E e \in Catalog : e.base /\ e.version = Image("base")
         /\ feature_train(Image("base")) = feature_train(Target)
         /\ Image("base") \in Version /\ Image("base") # Start
         /\ ~Below(Image("base"), Start) /\ ~Below(Target, Start)
  <1> DEFINE train == {e \in Catalog : feature_train(e.version) = feature_train(Target)}
             marked == {e.version : e \in {f \in train : f.base}}
             plain == {e.version : e \in {f \in train : f.version[4] = 0}}
             all == {e.version : e \in train}
             some == IF marked # {} THEN marked ELSE IF plain # {} THEN plain ELSE all
  <1>1. Image("base") = IF train = {} THEN NoImage ELSE Lowest(some)
    BY DEF base_image_from_list, Image
  <1>2. \A e \in Catalog : e.version \in Version BY SoloAssumption
  <1>3. some = marked /\ some # {} /\ train # {} /\ some \subseteq Version BY <1>2 DEF NewTrain
  <1>4. Image("base") \in marked
    <2> HIDE DEF train, marked, some
    <2> QED BY <1>1, <1>3, LowestExists
  <1>5. /\ \E e \in Catalog : e.base /\ e.version = Image("base")
        /\ feature_train(Image("base")) = feature_train(Target)
        /\ Image("base") \in Version
    BY <1>2, <1>4
  <1>6. Start \in Version /\ Target \in Version BY SoloAssumption
  <1>7. Below(Start, Target) /\ feature_train(Start) # feature_train(Target) BY DEF NewTrain, _is_major_jump
  <1>8. ~Below(Image("base"), Start) /\ ~Below(Target, Start) BY <1>5, <1>6, <1>7, NewerTrainIsAbove
  <1> QED BY <1>5, <1>7, <1>8

(* So no cleanup puts the target or its base on its list.                   *)
LEMMA DeletableSpares ==
  ASSUME NewTrain, NEW f, dev.runs \in {Start, Target}
  PROVE  {Target, Image("base")} \cap _deletable_images(list_software(f), dev.runs) = {}
  <1>1. \A v \in _deletable_images(list_software(f), dev.runs) :
          /\ v # dev.runs /\ Below(v, dev.runs)
          /\ ~((\E e \in Catalog : e.version = v /\ e.base) /\ feature_train(v) = feature_train(dev.runs))
    <2> TAKE v \in _deletable_images(list_software(f), dev.runs)
    <2>1. PICK e \in list_software(f) :
            /\ e.version = v /\ ~e.current /\ Below(e.version, dev.runs)
            /\ ~(e.base /\ feature_train(e.version) = feature_train(dev.runs))
      BY DEF _deletable_images
    <2>2. PICK w : e = [version |-> w, base |-> \E c \in Catalog : c.version = w /\ c.base,
                        downloaded |-> w \in dev.disk, current |-> w = dev.runs]
      BY Zenon DEF list_software
    <2>3. e.version = w /\ (e.base <=> \E c \in Catalog : c.version = w /\ c.base) /\ (e.current <=> w = dev.runs)
      BY <2>2
    <2> QED BY <2>1, <2>3
  <1>2. CASE dev.runs = Start BY <1>1, <1>2, MarkedBase
  <1>3. CASE dev.runs = Target BY <1>1, <1>3, MarkedBase
  <1> QED BY <1>2, <1>3

(* What a step that touches neither image must respect.                     *)
LEMMA KeptFrame ==
  ASSUME KInv, clean' \subseteq clean,
         \A v \in {Target, Image("base")} : v \in dev'.disk <=> v \in dev.disk,
         dev'.runs \in {dev.runs, Target},
         "ensure_image" \in task'.marks => "ensure_image" \in task.marks \/ Target \in dev.disk \cup {dev.runs}
  PROVE  (Spared /\ ImagesKept)'
  BY DEF KInv, Spared, ImagesKept, Image

(* The drive writes no disk, and marks the image only once it is there.     *)
LEMMA DriveDisk ==
  ASSUME IInv, Drive
  PROVE  /\ clean' = clean /\ dev'.disk = dev.disk /\ dev'.runs = dev.runs
         /\ "ensure_image" \in task'.marks => "ensure_image" \in task.marks \/ Target \in dev.disk \cup {dev.runs}
  <1>0. task \in TaskSet /\ dev \in DevSet /\ TypeOK BY TypeSets DEF IInv
  <1> DEFINE There == Target \in dev.disk \cup {dev.runs}
             Sound == "ensure_image" \in task'.marks => "ensure_image" \in task.marks \/ There
             Same == clean' = clean /\ dev'.disk = dev.disk /\ dev'.runs = dev.runs
  <1>1. \A s : Asked(s).disk = dev.disk /\ Asked(s).runs = dev.runs BY <1>0 DEF Asked, DevSet
  <1>2. Rest => Same BY DEF Rest
  <1>3. Busy(task) \in TaskSet /\ Busy(task).marks = task.marks BY <1>0, TaskParts, MarkParts
  <1>4. \A t \in TaskSet : Failed(t).marks = t.marks BY MarkParts
  <1>5. \A m : Mark(task, m).marks = task.marks \cup {m} BY <1>0, MarkParts
  <1>6. CASE Take
    <2>1. CASE task' = task BY <1>2, <1>6, <2>1 DEF Take
    <2>2. CASE ~AtTarget /\ task' # task
      <3>1. task' = Unmark(task, {"install_complete", "software_installed", "reboot_issued"})
        BY <1>6, <2>2 DEF Take, Reconciled
      <3> QED BY <1>0, <1>2, <1>6, <3>1, MarkParts DEF Take
    <2>3. CASE AtTarget BY <1>2, <1>6, <2>3 DEF Take, IInv, Runs, AtTarget
    <2> QED BY <2>1, <2>2, <2>3
  <1>7. CASE Precheck \/ Postcheck
    <2>1. \A g \in {"precheck", "postcheck"} : g \in Phases /\ g \in Gates BY DEF Phases, Gates
    <2>2. /\ dev' = dev /\ clean' = clean
          /\ task'.marks \ {"precheck", "postcheck"} = task.marks \ {"precheck", "postcheck"}
      BY <1>7, <2>1, CheckEffect DEF Precheck, Postcheck
    <2> QED BY <2>2
  <1>8. CASE EnsureImage
    <2>1. CASE task' = Mark(task, "ensure_image") /\ (Marked("ensure_image") \/ AtTarget \/ (dev.up /\ Present(Target)))
      BY <1>2, <1>5, <1>8, <2>1 DEF EnsureImage, Marked, AtTarget, Present, IInv, Runs
    <2>2. CASE Fail(Busy(task)) \/ task' = Busy(task)
      BY <1>2, <1>3, <1>4, <1>8, <2>2 DEF EnsureImage, Fail
    <2> QED BY <1>8, <2>1, <2>2, Zenon DEF EnsureImage
  <1>9. ASSUME NEW s \in Slots, NEW v, Request(s, v), clean' = clean PROVE Same /\ Sound
    <2>1. dev' \in {dev, Asked(s)} /\ task' \in {Busy(task), Failed(Busy(task))} BY <1>0, <1>9, RequestType
    <2> QED BY <1>1, <1>3, <1>4, <1>9, <2>1
  <1>10. ASSUME NEW p, NEW w, NotYet(p, w, task) PROVE Sound
    <2>1. task' \in {task, Failed(task)} BY <1>10 DEF NotYet, Fail
    <2> QED BY <1>0, <1>4, <2>1
  <1>11. ASSUME NEW s \in {"base", "target"}, Present(Image(s)), task' = Landed(s) PROVE Sound
    BY <1>0, <1>5, <1>11 DEF Landed, Present, Image
  <1>12. ASSUME NEW s \in {"base", "target"}, Download(s) PROVE Same /\ Sound
    <2>1. CASE Request(s, Image(s)) BY <1>9, <1>12, <2>1 DEF Download, Slots
    <2>2. CASE ~Request(s, Image(s))
      <3>1. dev' = dev /\ clean' = clean BY <1>12, <2>2 DEF Download
      <3>2. task' = task \/ (Present(Image(s)) /\ task' = Landed(s)) BY <1>12, <2>2 DEF Download
      <3> QED BY <1>11, <3>1, <3>2
    <2> QED BY <2>1, <2>2
  <1>13. ASSUME NEW s \in {"base", "target"}, PollDownload(s) PROVE Same /\ Sound
    <2>1. Same BY <1>2, <1>13 DEF PollDownload
    <2>2. \/ NotYet(prog, s, task) \/ Fail(task) \/ task' = task
          \/ Present(Image(s)) /\ task' = Landed(s)
      BY <1>13 DEF PollDownload
    <2> QED BY <1>0, <1>4, <1>10, <1>11, <2>1, <2>2 DEF Fail
  <1>14. CASE Hold
    <2>1. CASE opt.mode = "stage_only"
      <3>1. task'.marks = task.marks BY <1>0, <1>14, <2>1 DEF Hold, TaskSet
      <3> QED BY <1>2, <1>14, <2>1, <3>1 DEF Hold
    <2>2. CASE opt.mode # "stage_only"
      <3>1. Gate("hold", "hold", "install_confirmed", opt.mode = "hold", "install") BY <1>14, <2>2 DEF Hold
      <3>2. GatePasses("hold", "hold", "install_confirmed", "install") BY <3>1, GateEffect, Zenon
      <3> QED BY <3>2 DEF GatePasses
    <2> QED BY <2>1, <2>2
  <1>15. CASE RebootGate
    <2>1. GatePasses("gate", "reboot", "reboot_confirmed", "reboot") BY <1>15, GateEffect, Zenon DEF RebootGate
    <2> QED BY <2>1 DEF GatePasses
  <1>16. CASE Install
    <2>1. CASE Request("install", Target) BY <1>9, <1>16, <2>1 DEF Install, Slots
    <2>2. CASE ~Request("install", Target)
      <3>1. dev' = dev /\ clean' = clean BY <1>16, <2>2 DEF Install
      <3>2. task' \in {Mark(task, "install_complete"), Busy(task), Failed(Busy(task))}
        BY <1>16, <2>2 DEF Install, Fail
      <3> QED BY <1>3, <1>4, <1>5, <3>1, <3>2
    <2> QED BY <2>1, <2>2
  <1>17. CASE PollInstall
    <2>1. Same BY <1>2, <1>17 DEF PollInstall
    <2>2. \/ \E p : NotYet(p, "install", task)
          \/ Fail(task) \/ task' = Mark(task, "software_installed")
      BY <1>17, Zenon DEF PollInstall
    <2> QED BY <1>0, <1>4, <1>5, <1>10, <2>1, <2>2 DEF Fail
  <1>18. CASE Reboot
    <2>1. dev'.disk = dev.disk /\ dev'.runs = dev.runs /\ clean' = clean BY <1>0, <1>18 DEF Reboot, DevSet
    <2>2. task' \in {Busy(task), Failed(task)} BY <1>18 DEF Reboot, Fail
    <2> QED BY <1>0, <1>3, <1>4, <2>1, <2>2
  <1>19. CASE Restarted BY <1>2, <1>5, <1>19 DEF Restarted
  <1>20. CASE Boot
    <2>1. Same BY <1>2, <1>20 DEF Boot
    <2>2. (\E p : NotYet(p, "reboot", task)) \/ Fail(task) \/ task' = task BY <1>20, Zenon DEF Boot
    <2> QED BY <1>0, <1>4, <1>10, <2>1, <2>2 DEF Fail
  <1>21. CASE Verify
    <2>1. Same BY <1>21 DEF Verify
    <2>2. \A ms : Unmark(task, ms) \in TaskSet /\ Unmark(task, ms).marks = task.marks \ ms
      BY <1>0, TaskParts, MarkParts
    <2>3. task' \in {Mark(Unmark(task, {"reboot_issued"}), "install_complete"), Failed(Unmark(task, {"software_installed"}))}
      BY <1>21 DEF Verify, Fail
    <2>4. Mark(Unmark(task, {"reboot_issued"}), "install_complete").marks
            = Unmark(task, {"reboot_issued"}).marks \cup {"install_complete"}
      BY <2>2, MarkParts
    <2>5. Sound BY <1>4, <2>2, <2>3, <2>4
    <2> QED BY <2>1, <2>5
  <1>22. CASE Done
    <2>1. task'.marks = task.marks BY <1>0, <1>22 DEF Done, TaskSet
    <2> QED BY <1>2, <1>22, <2>1 DEF Done
  <1>23. CASE Close BY <1>23 DEF Close
  <1>24. ASSUME NEW s \in Slots, Persist(s) PROVE Same /\ Sound
    BY <1>2, <1>24 DEF Persist
  <1> QED BY <1>6, <1>7, <1>8, <1>12, <1>13, <1>14, <1>15, <1>16, <1>17, <1>18, <1>19, <1>20, <1>21, <1>22, <1>23, <1>24
          DEF Drive

LEMMA StepKInv ==
  ASSUME NewTrain, KInv, [Next]_vars
  PROVE  KInv'
  <1>0. IInv /\ IInv' /\ TypeOK /\ dev \in DevSet /\ task \in TaskSet BY StepIInv, TypeSets DEF KInv, IInv
  <1>1. dev.runs \in {Start, Target} /\ dev.next \in {dev.runs, Target} BY <1>0 DEF IInv, Runs
  <1>2. CASE Drive BY <1>0, <1>2, DriveDisk, KeptFrame DEF KInv
  <1>3. CASE Crash \/ Kill
    <2>1. dev' = dev /\ clean' = clean /\ task' \in {task, Failed(task)} BY <1>3 DEF Crash, Kill
    <2>2. task'.marks = task.marks BY <1>0, <2>1, MarkParts
    <2> QED BY <1>0, <2>1, <2>2, KeptFrame DEF KInv
  <1>4. CASE InstallEnds \/ Boots \/ Outage
    <2>1. clean' = clean /\ task' = task BY <1>4 DEF InstallEnds, Boots, Outage, Env, Undisturbed
    <2>2. dev'.disk = dev.disk /\ dev'.runs \in {dev.runs, dev.next}
      BY <1>0, <1>4 DEF InstallEnds, Boots, Outage, DevSet
    <2> QED BY <1>0, <1>1, <2>1, <2>2, KeptFrame DEF KInv
  <1>5. ASSUME NEW s \in {"base", "target"}, DownloadEnds(s) PROVE KInv'
    <2>1. clean' = clean /\ task' = task BY <1>5 DEF DownloadEnds, Env, Undisturbed
    <2>2. \/ /\ s = "base" \/ Image("base") \in dev.disk \cup {Target}
             /\ dev'.disk = dev.disk \cup {Image(s)}
          \/ dev'.disk = dev.disk
      BY <1>0, <1>5 DEF DownloadEnds, DevSet, NewTrain
    <2>3. dev'.runs = dev.runs BY <1>0, <1>5 DEF DownloadEnds, DevSet
    <2>4. (s = "target" => Image(s) = Target) /\ Image("base")' = Image("base") BY DEF Image
    <2>5. (Spared /\ ImagesKept)' BY <2>1, <2>2, <2>3, <2>4 DEF KInv, Spared, ImagesKept
    <2> QED BY <1>0, <2>5 DEF KInv
  <1>6. CASE CleanupLists
    <2>1. dev' = dev /\ task' = task BY <1>6 DEF CleanupLists, Env, Undisturbed
    <2>2. clean' \subseteq _deletable_images(list_software(dev.fresh), dev.runs) BY <1>6 DEF CleanupLists
    <2>3. Spared' BY <1>1, <2>2, DeletableSpares DEF Spared, Image
    <2>4. ImagesKept' BY <2>1 DEF KInv, ImagesKept, Image
    <2> QED BY <1>0, <2>3, <2>4 DEF KInv
  <1>7. CASE CleanupDeletes
    <2>1. task' = task BY <1>7 DEF CleanupDeletes, Env, Undisturbed
    <2>2. PICK v \in clean : /\ clean' = clean \ {v}
                            /\ dev' = IF dev.up /\ v # dev.runs THEN [dev EXCEPT !.disk = @ \ {v}] ELSE dev
      BY <1>7, Zenon DEF CleanupDeletes
    <2>3. v # Target /\ v # Image("base") BY DEF KInv, Spared
    <2>4. dev'.runs = dev.runs /\ dev'.disk \in {dev.disk, dev.disk \ {v}} BY <1>0, <2>2 DEF DevSet
    <2>5. clean' \subseteq clean BY <2>2
    <2> QED BY <1>0, <2>1, <2>3, <2>4, <2>5, KeptFrame DEF KInv
  <1>8. CASE Operator
    <2>1. dev' = dev /\ clean' = clean BY <1>8 DEF Operator, Click, Retry, Abort, Routes
    <2>2. task'.marks = task.marks BY <1>0, <1>8 DEF Operator, Click, Retry, Abort, TaskSet
    <2> QED BY <1>0, <2>1, <2>2, KeptFrame DEF KInv
  <1>9. CASE Elapse \/ UNCHANGED vars
    <2>1. dev' = dev /\ clean' = clean /\ task' = task BY <1>9 DEF Elapse, vars
    <2> QED BY <1>0, <2>1, KeptFrame DEF KInv
  <1> QED BY <1>2, <1>3, <1>4, <1>5, <1>6, <1>7, <1>8, <1>9 DEF Next, Firewall

(* An upgrade to a newer train never loses the image it has made sure of,   *)
(* nor the base that image needs, to a cleanup, however the deletions cross *)
(* the downloads, the install and the restart.                              *)
THEOREM ImagesAreKept ==
  ASSUME NewTrain
  PROVE  Spec => []ImagesKept
  <1>1. Init => KInv
    <2> SUFFICES ASSUME Init PROVE KInv OBVIOUS
    <2>1. dev.disk = Disk /\ dev.runs = Start /\ clean = {} /\ task.marks = {} BY DEF Init
    <2>2. Spared /\ ImagesKept BY <2>1 DEF Spared, ImagesKept, NewTrain
    <2> QED BY <2>2, InitIInv DEF KInv
  <1>2. KInv /\ [Next]_vars => KInv' BY StepKInv
  <1>3. KInv => ImagesKept BY DEF KInv
  <1> QED BY <1>1, <1>2, <1>3, PTL DEF Spec
===============================================================================
