----------------------------- MODULE SoloUpgrade ------------------------------
(***************************************************************************)
(* The upgrade of one standalone firewall, down to the waits: the image    *)
(* downloads, the install and the restart are commands issued once, whose  *)
(* handles, counters and start stamps survive in the task's progress from  *)
(* one dispatch to the next (app/upgrade/services/upgrade.py).  Next to    *)
(* the drive run the firewall with its jobs and faults, a cleanup of its   *)
(* disk, the operator, and the time.                                       *)
(*                                                                         *)
(* The dispatch lock is taken for granted: one drive at a time (see        *)
(* DriveDispatch).  A drive is short next to the timeouts, so time elapses *)
(* between drives.                                                         *)
(***************************************************************************)
EXTENDS Images

CONSTANTS
  Options,     \* the job options to explore
  Start,       \* the version the firewall runs
  Target,      \* the job's target_version
  Catalog,     \* the software entries the update server offers, [version, base]
  Disk,        \* the images on the firewall's disk at the start
  MaxMsgs,     \* bound on the messages waiting
  MaxFaults,   \* bound on what goes wrong: the firewall, a killed worker, an exception
  MaxRetries,  \* bound on the retries
  Endless,     \* TRUE when the operator retries without bound
  Attempts,    \* DOWNLOAD_RETRY_ATTEMPTS and INSTALL_RETRY_ATTEMPTS, 3 in the code
  GoneLimit,   \* INSTALL_GONE_LIMIT, 6 in the code
  Consecutive, \* REBOOT_READY_CONSECUTIVE, 3 in the code
  WrongLimit   \* REBOOT_WRONG_VERSION_LIMIT, 6 in the code

Modes == {"none", "stage_only", "hold"}
Option == [mode : Modes, autoReboot : BOOLEAN]

ASSUME SoloAssumption ==
  /\ Options \subseteq Option
  /\ Start # Target
  /\ {MaxMsgs, Attempts, GoneLimit, Consecutive, WrongLimit} \subseteq Nat \ {0}
  /\ {MaxFaults, MaxRetries} \subseteq Nat /\ Endless \in BOOLEAN
  /\ Catalog \subseteq [version : Version, base : BOOLEAN]
  /\ Disk \cup {Start, Target} \subseteq Version

VARIABLES
  opt,      \* the job's options
  job,      \* UpgradeJob.state
  task,     \* the phase, token and completion markers of the task
  prog,     \* the rest of its progress: handles, counters, start stamps
  row,      \* the current_version of the device row
  at,       \* where the drive is
  msgs,     \* the messages waiting
  dev,      \* the firewall
  clean,    \* the images a running cleanup has still to delete
  faults, retries,
  seen      \* history: what the properties look back at

vars == <<opt, job, task, prog, row, at, msgs, dev, clean, faults, retries, seen>>

Slots == {"base", "target", "install"}  \* the commands that leave a PAN-OS job behind
Waits == Slots \cup {"reboot"}
Gates == {"precheck", "hold", "reboot", "postcheck"}
Overrides == {"precheck", "postcheck"}
Phases == {"PENDING", "BUSY", "DONE", "FAILED"} \cup Gates  \* a gate: parked at it
Marks == {"precheck", "ensure_image", "install_confirmed", "software_installed",
          "reboot_confirmed", "reboot_issued", "install_complete", "postcheck"}
Steps == {"idle", "precheck", "image", "base", "target", "hold", "install", "gate",
          "reboot", "restarted", "boot", "verify", "postcheck", "done", "close",
          "baseAsked", "targetAsked", "installAsked", "basePoll", "targetPoll", "installPoll"}
JobEnded == {"COMPLETED", "FAILED", "ABORTED"}
Versions == {e.version : e \in Catalog} \cup Disk \cup {Start, Target}

Image(s) == IF s = "target" THEN Target ELSE base_image_from_list(Target, Catalog)

(* The type invariant.                                                      *)
TypeOK ==
  /\ opt \in Options /\ job \in {"RUNNING"} \cup JobEnded
  /\ task \in [phase : Phases, token : {"", "go", "rerun"}, marks : SUBSET Marks]
  /\ prog \in [held : SUBSET Slots, tries : [Slots -> 0..Attempts], since : [Waits -> {"none", "young", "old"}],
               gone : 0..GoneLimit, ok : 0..Consecutive, wrong : 0..WrongLimit, down : BOOLEAN]
  /\ row \in {Start, Target} /\ at \in Steps /\ msgs \in 0..MaxMsgs
  /\ dev \in [up : BOOLEAN, runs : Versions, next : Versions, disk : SUBSET Versions, fresh : BOOLEAN,
              jobs : [Slots -> {"none", "act", "ok", "fail", "gone"}]]
  /\ clean \subseteq Versions
  /\ faults \in 0..MaxFaults /\ retries \in 0..MaxRetries
  /\ seen \in [restarted : BOOLEAN, twice : BOOLEAN, torn : BOOLEAN, fell : BOOLEAN]

NoHandles == [held |-> {}, tries |-> [s \in Slots |-> 0], since |-> [w \in Waits |-> "none"],
              gone |-> 0, ok |-> 0, wrong |-> 0, down |-> FALSE]

(* A started job: start_job has posted the first message.                   *)
Init ==
  /\ opt \in Options /\ job = "RUNNING"
  /\ task = [phase |-> "PENDING", token |-> "", marks |-> {}]
  /\ prog = NoHandles
  /\ row = Start /\ at = "idle" /\ msgs = 1
  /\ dev = [up |-> TRUE, runs |-> Start, next |-> Start, disk |-> Disk, fresh |-> FALSE,
            jobs |-> [s \in Slots |-> "none"]]
  /\ clean = {} /\ faults = 0 /\ retries = 0
  /\ seen = [restarted |-> FALSE, twice |-> FALSE, torn |-> FALSE, fell |-> FALSE]

-------------------------------------------------------------------------------
(* What the steps of a drive are made of.                                   *)

Marked(m) == m \in task.marks
Mark(t, m) == [t EXCEPT !.marks = @ \cup {m}]
Unmark(t, ms) == [t EXCEPT !.marks = @ \ ms]
Busy(t) == [t EXCEPT !.phase = "BUSY"]
(* Mutant of Failed: the phase is written with a name the enum lacks.       *)
FailedTypo(t) == [t EXCEPT !.phase = "ERROR"]
Failed(t) == [t EXCEPT !.phase = "FAILED"]
Fault == faults < MaxFaults /\ faults' = faults + 1
Calm == UNCHANGED faults
AtTarget == row = Target
Staging == opt.mode \in {"stage_only", "hold"}

AskedAt(s) == CASE s = "base" -> "baseAsked" [] s = "target" -> "targetAsked" [] OTHER -> "installAsked"
PollAt(s) == CASE s = "base" -> "basePoll" [] s = "target" -> "targetPoll" [] OTHER -> "installPoll"
Goto(step) == at' = step /\ UNCHANGED msgs
Fail(t) == task' = Failed(t) /\ Goto("close")
Park == at' = "close" /\ msgs < MaxMsgs /\ msgs' = msgs + 1   \* re-dispatch with a countdown
Rest == UNCHANGED <<opt, job, row, dev, clean, retries, seen>>

(* The firewall's software list: what is on its disk, and the catalog once  *)
(* it has asked the update server.                                          *)
list_software(fresh) ==
  {[version |-> v, base |-> \E e \in Catalog : e.version = v /\ e.base,
    downloaded |-> v \in dev.disk, current |-> v = dev.runs]
     : v \in dev.disk \cup {dev.runs} \cup (IF fresh THEN {e.version : e \in Catalog} ELSE {})}
Present(v) == dev.up /\ v \in dev.disk \cup {dev.runs}

(* An answer of the firewall: none when its management plane is down or     *)
(* drops one request.                                                       *)
Answers == dev.up /\ Calm
Silent == (~dev.up /\ Calm) \/ (dev.up /\ Fault)

-------------------------------------------------------------------------------
(* The drive.                                                               *)

_clear_install_reboot_handles(p) ==
  [p EXCEPT !.held = @ \ {"install"}, !.tries["install"] = 0, !.ok = 0,
            !.since["install"] = "none", !.since["reboot"] = "none"]

(* The reconciliation reads the row: the probe's values are not committed.  *)
Reconciled ==
  IF AtTarget /\ ~Marked("install_complete")
    THEN /\ task' = Unmark(Mark(Mark(task, "install_complete"), "ensure_image"), {"reboot_issued"})
         /\ prog' = _clear_install_reboot_handles(prog)
    ELSE IF dev.up /\ ~AtTarget /\ Marked("install_complete")
    THEN /\ task' = Unmark(task, {"install_complete", "software_installed", "reboot_issued"})
         /\ prog' = _clear_install_reboot_handles(prog)
    ELSE UNCHANGED <<task, prog>>

Take ==
  /\ at = "idle" /\ msgs > 0 /\ msgs' = msgs - 1
  /\ IF job \in JobEnded THEN at' = at /\ UNCHANGED <<task, prog>>
                         ELSE at' = "precheck" /\ Reconciled
  /\ Calm /\ Rest

(* A check: it passes, fails and parks (a staging job only notes it), or    *)
(* cannot run.  It reads the firewall and refreshes the row.                *)
Check(gate, mark, next) ==
  /\ at = gate
  /\ \/ /\ Marked(mark) /\ Goto(next) /\ UNCHANGED <<task, row>> /\ Calm
     \/ /\ ~Marked(mark) /\ task.phase = gate /\ task.token # "rerun"
        /\ IF task.token = "go"
             THEN task' = Mark([task EXCEPT !.token = ""], mark) /\ Goto(next)
             ELSE UNCHANGED task /\ Goto("close")
        /\ UNCHANGED row /\ Calm
     \/ /\ ~Marked(mark) /\ (task.phase = gate => task.token = "rerun")
        /\ LET t == [Busy(task) EXCEPT !.token = IF task.phase = gate THEN "" ELSE @]
           IN  \/ /\ Answers /\ row' = dev.runs /\ task' = Mark(t, mark) /\ Goto(next)
               \/ /\ Answers \/ Silent
                  /\ row' = IF dev.up THEN dev.runs ELSE row
                  /\ IF gate = "precheck" /\ Staging
                       THEN task' = Mark(t, mark) /\ Goto(next)
                       ELSE task' = [t EXCEPT !.phase = gate] /\ Goto("close")
  /\ UNCHANGED <<opt, job, prog, dev, clean, retries, seen>>

Precheck == Check("precheck", "precheck", "image")
Postcheck == Check("postcheck", "postcheck", "done")

(* The base of the target's train is looked for in the local list, then in  *)
(* the update server's.                                                     *)
BaseNeeded ==
  LET local == base_image_from_list(Target, list_software(dev.fresh))
      base == IF local # NoImage THEN local ELSE base_image_from_list(Target, list_software(TRUE))
  IN  _is_major_jump(row, Target) /\ base \notin {NoImage, Target} /\ ~Present(base)

EnsureImage ==
  /\ at = "image"
  /\ \/ /\ Marked("ensure_image") \/ AtTarget \/ (dev.up /\ Present(Target))
        /\ task' = Mark(task, "ensure_image") /\ Goto("hold") /\ Calm
     \/ /\ ~Marked("ensure_image") /\ ~AtTarget /\ Silent /\ Fail(Busy(task))
     \/ /\ ~Marked("ensure_image") /\ ~AtTarget /\ Answers /\ ~Present(Target)
        /\ task' = Busy(task)
        /\ Goto(IF BaseNeeded THEN "base" ELSE "target")
  /\ UNCHANGED prog /\ Rest

AfterDownload(s) == IF s = "base" THEN "target" ELSE "hold"
Landed(s) == IF s = "base" THEN task ELSE Mark(task, "ensure_image")
Cleared(p, s) == [p EXCEPT !.held = @ \ {s}]

(* The image is there, a job is held, or the download is asked for: it is   *)
(* refused when the firewall is busy with another one.                      *)
Asked(s) == [dev EXCEPT !.jobs[s] = "act", !.fresh = TRUE]
(* Mutant of Tried: the attempts are counted in the worker's memory.        *)
TriedInMemory(s) == prog
Tried(s) == [prog EXCEPT !.tries[s] = IF @ < Attempts THEN @ + 1 ELSE @]
DeviceBusy == \E s \in Slots : dev.jobs[s] = "act"
Issued(s) == seen' = [seen EXCEPT !.restarted = @ /\ s # "install", !.fell = @ /\ s # "install"]

Refused(s, t) ==
  /\ prog' = Tried(s) /\ UNCHANGED <<dev, seen>>
  /\ IF Tried(s).tries[s] < Attempts
       THEN Park /\ task' = t
       ELSE Fail(t)

Request(s, v) ==
  \/ /\ Silent /\ prog' = Tried(s) /\ Fail(Busy(task)) /\ UNCHANGED <<dev, seen>>
  \/ /\ Answers /\ DeviceBusy /\ Refused(s, Busy(task))
  \/ /\ Answers /\ ~DeviceBusy
     /\ prog' = Tried(s) /\ dev' = Asked(s) /\ Issued(s)
     /\ task' = Busy(task) /\ Goto(AskedAt(s))

Download(s) ==
  /\ at = s
  /\ \/ /\ Present(Image(s))
        /\ prog' = Cleared(prog, s) /\ task' = Landed(s) /\ Goto(AfterDownload(s))
        /\ Calm /\ UNCHANGED <<dev, seen>>
     \/ /\ ~Present(Image(s)) /\ s \in prog.held
        /\ Goto(PollAt(s)) /\ Calm /\ UNCHANGED <<task, prog, dev, seen>>
     \/ /\ ~Present(Image(s)) /\ s \notin prog.held /\ Request(s, Image(s))
  /\ UNCHANGED <<opt, job, row, clean, retries>>

(* The handle is persisted after the command.                               *)
Persist(s) ==
  /\ at = AskedAt(s) /\ Goto(PollAt(s))
  /\ prog' = [prog EXCEPT !.held = @ \cup {s}]
  /\ Calm /\ UNCHANGED task /\ Rest

(* _await_or_park: the start is stamped on the first tick, and looked at    *)
(* when the tick has not found the end.                                     *)
Stamped(p, w) == [p EXCEPT !.since[w] = IF @ = "none" THEN "young" ELSE @]
Unstamped(p, w) == [p EXCEPT !.since[w] = "none"]
NotYet(p, w, t) ==
  IF p.since[w] = "old"
    THEN prog' = Unstamped(p, w) /\ Fail(t)
    ELSE prog' = Stamped(p, w) /\ Park /\ task' = t

PollDownload(s) ==
  /\ at = PollAt(s)
  /\ \/ /\ (Answers /\ dev.jobs[s] \notin {"ok", "fail"}) \/ Silent
        /\ NotYet(prog, s, task)
     \/ /\ Answers /\ dev.jobs[s] \in {"ok", "fail"}
        /\ LET p == Cleared(Unstamped(prog, s), s)
           IN  /\ prog' = p
               /\ IF Present(Image(s)) THEN task' = Landed(s) /\ Goto(AfterDownload(s))
                  ELSE IF dev.jobs[s] = "ok" /\ p.tries[s] < Attempts THEN Park /\ UNCHANGED task
                  ELSE Fail(task)
  /\ Rest

(* A stage-only job ends here, a job on hold waits for the operator.        *)
Gate(step, gate, mark, asks, next) ==
  /\ at = step
  /\ IF ~asks \/ Marked(mark) THEN UNCHANGED task /\ Goto(next)
     ELSE IF task.token # "" THEN task' = Mark([task EXCEPT !.token = ""], mark) /\ Goto(next)
     ELSE task' = [task EXCEPT !.phase = gate] /\ Goto("close")
  /\ UNCHANGED prog /\ Calm /\ Rest

Hold == IF opt.mode = "stage_only"
          THEN at = "hold" /\ Goto("close") /\ task' = [task EXCEPT !.phase = "DONE"]
               /\ UNCHANGED prog /\ Calm /\ Rest
          ELSE Gate("hold", "hold", "install_confirmed", opt.mode = "hold", "install")

ClearedInstall(p) == [Cleared(p, "install") EXCEPT !.tries["install"] = 0, !.gone = 0]

(* Mutant of Install: the installed image counts for the running one.       *)
InstallSkipped ==
  /\ at = "install"
  /\ IF Marked("software_installed") \/ AtTarget
       THEN task' = Mark(task, "install_complete") /\ Goto("postcheck") /\ Calm
            /\ UNCHANGED <<prog, dev, seen>>
       ELSE IF "install" \in prog.held
       THEN Goto("installPoll") /\ Calm /\ task' = Busy(task) /\ UNCHANGED <<prog, dev, seen>>
       ELSE Request("install", Target)
  /\ UNCHANGED <<opt, job, row, clean, retries>>

Install ==
  /\ at = "install"
  /\ \/ /\ Marked("install_complete") \/ AtTarget
        /\ task' = Mark(task, "install_complete") /\ Goto("postcheck") /\ Calm
        /\ UNCHANGED <<prog, dev, seen>>
     \/ /\ ~Marked("install_complete") /\ ~AtTarget
        /\ \/ /\ Marked("software_installed") /\ Goto("gate") /\ Calm
              /\ task' = Busy(task) /\ UNCHANGED <<prog, dev, seen>>
           \/ /\ ~Marked("software_installed") /\ "install" \in prog.held /\ Goto("installPoll") /\ Calm
              /\ task' = Busy(task) /\ UNCHANGED <<prog, dev, seen>>
           \/ /\ ~Marked("software_installed") /\ "install" \notin prog.held
              /\ IF dev.up /\ Target \notin dev.disk
                   THEN Calm /\ Fail(Busy(task)) /\ prog' = Tried("install") /\ UNCHANGED <<dev, seen>>
                   ELSE Request("install", Target)
  /\ UNCHANGED <<opt, job, row, clean, retries>>

(* The install job: missing for too long, failed, done, or not yet.         *)
Vanished == prog.gone >= GoneLimit
Missed(p) == [p EXCEPT !.gone = IF @ < GoneLimit THEN @ + 1 ELSE @]
(* Mutant of PollInstall: a finished job is taken for a successful one.     *)
PollInstallFin ==
  /\ at = "installPoll"
  /\ IF Vanished THEN prog' = ClearedInstall(prog) /\ Fail(task) /\ Calm
     ELSE \/ /\ Silent \/ (Answers /\ dev.jobs["install"] \in {"gone", "act"})
             /\ NotYet(prog, "install", task)
          \/ /\ Answers /\ dev.jobs["install"] \in {"ok", "fail"}
             /\ prog' = ClearedInstall(Unstamped(prog, "install"))
             /\ task' = Mark(task, "software_installed") /\ Goto("gate")
  /\ Rest

PollInstall ==
  /\ at = "installPoll"
  /\ IF Vanished THEN prog' = ClearedInstall(prog) /\ Fail(task) /\ Calm
     ELSE \/ /\ Silent \/ (Answers /\ dev.jobs["install"] = "gone")
             /\ NotYet(Missed(prog), "install", task)
          \/ /\ Answers /\ dev.jobs["install"] = "act"
             /\ NotYet([prog EXCEPT !.gone = 0], "install", task)
          \/ /\ Answers /\ dev.jobs["install"] \in {"ok", "fail"}
             /\ prog' = ClearedInstall(Unstamped(prog, "install"))
             /\ IF dev.jobs["install"] = "ok" THEN task' = Mark(task, "software_installed") /\ Goto("gate")
                                              ELSE Fail(task)
  /\ Rest

RebootGate == Gate("gate", "reboot", "reboot_confirmed", ~opt.autoReboot, "reboot")

NoStreaks(p) == [p EXCEPT !.ok = 0, !.wrong = 0, !.down = FALSE]

(* Mutant of Reboot: a tick that finds the firewall up restarts it again.   *)
RebootAgain ==
  /\ at = "reboot"
  /\ \/ /\ Marked("reboot_issued") /\ ~dev.up /\ Goto("boot") /\ task' = Busy(task) /\ Calm
        /\ UNCHANGED <<dev, seen>>
     \/ /\ Answers /\ Goto("restarted") /\ task' = Busy(task)
        /\ dev' = [dev EXCEPT !.up = FALSE, !.jobs = [s \in Slots |-> "gone"]]
        /\ seen' = [seen EXCEPT !.restarted = TRUE, !.twice = @ \/ seen.restarted]
  /\ UNCHANGED <<opt, job, prog, row, clean, retries>>

(* The restart is issued once; its marker is persisted after the command.   *)
Reboot ==
  /\ at = "reboot"
  /\ \/ /\ Marked("reboot_issued") /\ Goto("boot") /\ task' = Busy(task) /\ Calm
        /\ UNCHANGED <<dev, seen>>
     \/ /\ ~Marked("reboot_issued") /\ Silent /\ Fail(task) /\ UNCHANGED <<dev, seen>>
     \/ /\ ~Marked("reboot_issued") /\ Answers /\ Goto("restarted") /\ task' = Busy(task)
        /\ dev' = [dev EXCEPT !.up = FALSE, !.jobs = [s \in Slots |-> "gone"]]
        /\ seen' = [seen EXCEPT !.restarted = TRUE, !.twice = @ \/ seen.restarted]
  /\ UNCHANGED <<opt, job, prog, row, clean, retries>>

Restarted ==
  /\ at = "restarted" /\ Goto("boot")
  /\ task' = Mark(task, "reboot_issued") /\ prog' = NoStreaks(prog)
  /\ Calm /\ Rest

(* A probe a tick: down resets both streaks, the target counts for the one, *)
(* another version after the restart for the other.                         *)
Boot ==
  /\ at = "boot"
  /\ IF prog.down /\ prog.wrong >= WrongLimit
       THEN prog' = NoStreaks(prog) /\ Fail(task) /\ Calm
     ELSE \/ /\ Silent
             /\ NotYet([prog EXCEPT !.down = TRUE, !.ok = 0, !.wrong = 0], "reboot", task)
          \/ /\ Answers /\ dev.runs = Target
             /\ LET p == [prog EXCEPT !.ok = IF @ < Consecutive THEN @ + 1 ELSE @, !.wrong = 0]
                IN  IF p.ok >= Consecutive
                      THEN prog' = NoStreaks(Unstamped(p, "reboot")) /\ Goto("verify") /\ UNCHANGED task
                      ELSE NotYet(p, "reboot", task)
          \/ /\ Answers /\ dev.runs # Target
             /\ NotYet([prog EXCEPT !.ok = 0, !.wrong = IF prog.down /\ @ < WrongLimit THEN @ + 1 ELSE @],
                       "reboot", task)
  /\ Rest

(* The probe after the restart is committed, if it got an answer.           *)
Verify ==
  /\ at = "verify"
  /\ (Answers /\ row' = dev.runs) \/ (Silent /\ UNCHANGED row)
  /\ IF row' = Target
       THEN task' = Mark(Unmark(task, {"reboot_issued"}), "install_complete") /\ Goto("postcheck")
       ELSE Fail(Unmark(task, {"software_installed"}))
  /\ UNCHANGED <<opt, job, prog, dev, clean, retries, seen>>

Done ==
  /\ at = "done" /\ Goto("close") /\ task' = [task EXCEPT !.phase = "DONE"]
  /\ UNCHANGED prog /\ Calm /\ Rest

Close ==
  /\ at = "close" /\ Goto("idle")
  /\ job' = IF job # "RUNNING" THEN job
            ELSE CASE task.phase = "DONE" -> "COMPLETED" [] task.phase = "FAILED" -> "FAILED" [] OTHER -> job
  /\ Calm /\ UNCHANGED <<opt, task, prog, row, dev, clean, retries, seen>>

Drive ==
  \/ Take \/ Precheck \/ EnsureImage \/ Hold \/ Install \/ PollInstall \/ RebootGate
  \/ Reboot \/ Restarted \/ Boot \/ Verify \/ Postcheck \/ Done \/ Close
  \/ \E s \in {"base", "target"} : Download(s) \/ PollDownload(s)
  \/ \E s \in Slots : Persist(s)

(* An exception, the time limits included: the task fails, the job closes.  *)
Crash ==
  /\ at \notin {"idle", "close"} /\ Fault /\ Goto("close")
  /\ task' = IF task.phase = "DONE" THEN task ELSE Failed(task)
  /\ seen' = [seen EXCEPT !.torn = TRUE]
  /\ UNCHANGED <<opt, job, prog, row, dev, clean, retries>>

(* A killed worker: its message comes back, or is turned away by the lock.  *)
Kill ==
  /\ at # "idle" /\ Fault /\ at' = "idle"
  /\ msgs' \in {msgs} \cup ({msgs + 1} \cap 1..MaxMsgs)
  /\ seen' = [seen EXCEPT !.torn = TRUE]
  /\ UNCHANGED <<opt, job, task, prog, row, dev, clean, retries>>

-------------------------------------------------------------------------------
(* The firewall.                                                            *)

Undisturbed == UNCHANGED <<opt, job, task, prog, row, at, msgs, retries>>
Env == Undisturbed /\ UNCHANGED seen

(* A download lands; it fails, or the list lags behind; a maintenance       *)
(* release does not land without the base of its train.                     *)
DownloadEnds(s) ==
  /\ dev.up /\ dev.jobs[s] = "act"
  /\ \/ /\ s = "base" \/ ~_is_major_jump(Start, Target) \/ Image("base") \in dev.disk \cup {Target}
        /\ dev' = [dev EXCEPT !.jobs[s] = "ok", !.disk = @ \cup {Image(s)}] /\ Calm
     \/ \E r \in {"ok", "fail"} : dev' = [dev EXCEPT !.jobs[s] = r] /\ Fault
  /\ UNCHANGED clean /\ Env

InstallEnds ==
  /\ dev.up /\ dev.jobs["install"] = "act"
  /\ \/ dev' = [dev EXCEPT !.jobs["install"] = "ok", !.next = Target] /\ Calm
     \/ dev' = [dev EXCEPT !.jobs["install"] = "fail"] /\ Fault
  /\ UNCHANGED clean /\ Env

(* It comes up on the installed image, or falls back to the one it ran.     *)
Boots ==
  /\ ~dev.up
  /\ \/ dev' = [dev EXCEPT !.up = TRUE, !.runs = dev.next] /\ Calm /\ UNCHANGED seen
     \/ /\ dev.next # dev.runs /\ Fault
        /\ dev' = [dev EXCEPT !.up = TRUE, !.next = dev.runs]
        /\ seen' = [seen EXCEPT !.fell = TRUE]
  /\ UNCHANGED clean /\ Undisturbed

(* It crashes, with its jobs.                                               *)
Outage ==
  /\ dev.up /\ Fault
  /\ dev' = [dev EXCEPT !.up = FALSE,
                        !.jobs = [s \in Slots |-> IF dev.jobs[s] = "none" THEN "none" ELSE "gone"]]
  /\ UNCHANGED clean /\ Env

(* execute_cleanup reads the list, then deletes one image after the other;  *)
(* the firewall refuses the running one.                                    *)
CleanupLists ==
  /\ dev.up /\ clean = {}
  /\ \E vs \in SUBSET _deletable_images(list_software(dev.fresh), dev.runs) : vs # {} /\ clean' = vs
  /\ Calm /\ UNCHANGED dev /\ Env

CleanupDeletes ==
  /\ \E v \in clean :
        /\ clean' = clean \ {v}
        /\ dev' = IF dev.up /\ v # dev.runs THEN [dev EXCEPT !.disk = @ \ {v}] ELSE dev
  /\ Calm /\ Env

-------------------------------------------------------------------------------
(* The operator and the time.                                               *)

Post == msgs + (IF at = "idle" THEN 0 ELSE 1) < MaxMsgs /\ msgs' = msgs + 1
Routes == Calm /\ UNCHANGED <<opt, prog, row, at, dev, clean, seen>>

(* /confirm, /override and /rerun-check; only the last may go on for ever.  *)
Click ==
  /\ job \notin JobEnded /\ task.phase \in Gates /\ Post
  /\ \/ task' = [task EXCEPT !.token = "go"] /\ UNCHANGED retries
     \/ /\ task.phase \in Overrides /\ retries < MaxRetries /\ retries' = retries + 1
        /\ task' = [task EXCEPT !.token = "rerun"]
  /\ Routes /\ UNCHANGED job

Retry ==
  /\ job \notin {"COMPLETED", "ABORTED"} /\ task.phase \notin Gates \cup {"DONE"} /\ Post
  /\ IF Endless THEN UNCHANGED retries ELSE retries < MaxRetries /\ retries' = retries + 1
  /\ task' = [task EXCEPT !.phase = "PENDING"] /\ job' = "RUNNING"
  /\ Routes

Abort ==
  /\ job = "RUNNING" /\ job' = "ABORTED" /\ Post
  /\ Routes /\ UNCHANGED <<task, retries>>

Elapse ==
  /\ at = "idle" /\ \E w \in Waits : prog.since[w] = "young"
  /\ prog' = [prog EXCEPT !.since = [w \in Waits |-> IF @[w] = "young" THEN "old" ELSE @[w]]]
  /\ Calm /\ UNCHANGED <<opt, job, task, row, at, msgs, dev, clean, retries, seen>>

Firewall == InstallEnds \/ Boots \/ \E s \in {"base", "target"} : DownloadEnds(s)
Operator == Click \/ Retry \/ Abort

Next ==
  \/ Drive \/ Crash \/ Kill
  \/ Firewall \/ Outage \/ CleanupLists \/ CleanupDeletes
  \/ Operator \/ Elapse

Spec == Init /\ [][Next]_vars

(* The worker goes on and the time passes; the firewall need not.           *)
Timely == Spec /\ WF_vars(Drive) /\ SF_vars(Elapse)
(* The firewall ends its jobs and comes back; the operator answers.         *)
Tended == Timely /\ WF_vars(Firewall) /\ WF_vars(Click) /\ WF_vars(Retry)

-------------------------------------------------------------------------------
(* Properties.                                                              *)

(* A device reported DONE by a job that installs runs the target.           *)
DoneMeansUpgraded ==
  task.phase = "DONE" /\ opt.mode # "stage_only" => dev.runs = Target

(* A restart is issued once for an install, whatever is retried and however *)
(* many messages are under way, unless the worker was lost or the drive     *)
(* raised, perhaps between the command and its marker.                      *)
RestartedOnce == ~seen.torn => ~seen.twice

(* No firewall is restarted into anything but a freshly installed target:   *)
(* a failed or a vanished install earns no restart.  A firewall that has    *)
(* crashed since and given the installed image up is restarted in vain.     *)
RestartsIntoTarget ==
  [][at = "reboot" /\ at' = "restarted" => dev.next = Target \/ seen.fell]_vars

(* No cleanup, whenever it read the list and whenever it deletes, takes an  *)
(* image the upgrade has made sure of, nor the base of the running train.   *)
ImagesKept ==
  /\ "ensure_image" \in task.marks => Target \in dev.disk \cup {dev.runs}
  /\ Target \in dev.disk => Image("base") \in dev.disk

(* Every chain of wake-ups ends: no wait, retry of a command or duplicate   *)
(* message re-dispatches for ever.                                          *)
Settles == <>[](at = "idle" /\ msgs = 0)

(* An operator who keeps retrying gets a healthy firewall upgraded.         *)
RetryConverges == <>(task.phase = "DONE" \/ job = "ABORTED")
===============================================================================
