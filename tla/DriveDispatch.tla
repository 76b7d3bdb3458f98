---------------------------- MODULE DriveDispatch ----------------------------
(***************************************************************************)
(* Who drives a pair, and when: the routes and the waits post drive_pair   *)
(* messages, the workers of the upgrade queue take them, a per-pair lock   *)
(* makes a second drive a no-op, and the last drive of a job closes it     *)
(* (app/upgrade/tasks/__init__.py, app/core/concurrency.py and the entry   *)
(* and exit of app/upgrade/services/upgrade.py).                           *)
(*                                                                         *)
(* What a drive does to the firewalls is PairUpgrade's subject; here it is *)
(* a script of stages, gates that wait for the operator and waits that     *)
(* wait for a firewall.  A message carries only its pair, so the queue is  *)
(* a number of messages per pair; `later` are those whose countdown, or    *)
(* the broker's visibility timeout, still runs.                            *)
(***************************************************************************)
EXTENDS Naturals, Sequences, FiniteSets

CONSTANTS
  Pairs,        \* the pairs (and standalone devices) of the job
  Workers,      \* the processes of the upgrade worker (--concurrency)
  Nobody,       \* the lock's holder when it is free
  Lost,         \* the lock's holder when the worker that took it is gone
  Script,       \* the stages of a drive: a sequence of "gate" and "wait"
  WaitTicks,    \* a wait's timeout, in ticks of its poll interval
  Redelivery,   \* when the message of a lost worker comes back: "at once" or "later"
  MaxMsgs,      \* bound on the messages waiting for a pair
  MaxRetries,   \* bound on the operator's retries
  MaxKills,     \* bound on the workers lost
  MaxOverruns   \* bound on the drives that outlive their lock

ASSUME DispatchAssumption ==
  /\ Nobody \notin Workers \cup Pairs /\ Lost \notin Workers /\ Lost # Nobody
  /\ Script \in Seq({"gate", "wait"})
  /\ Redelivery \in {"at once", "later"}

ASSUME BoundAssumption ==
  /\ MaxMsgs \in Nat \ {0, 1}
  /\ WaitTicks \in Nat /\ MaxRetries \in Nat
  /\ MaxKills \in Nat /\ MaxOverruns \in Nat

Verdicts == {"COMPLETED", "COMPLETED_WITH_ERRORS", "FAILED"}
JobStates == {"PENDING", "RUNNING", "ABORTED", "DELETED"} \cup Verdicts
Steps == {"idle", "entry", "drive", "tail", "mark", "commit", "release"}

VARIABLES
  job,       \* UpgradeJob.state, or DELETED
  phase,     \* of each pair: PENDING, IN_FLIGHT, AWAITING, DONE or FAILED
  stage,     \* the first stage of the script without its marker
  ticks,     \* of the current wait
  token,     \* confirmation_token is set
  degraded,  \* the job left a member of the pair suspended
  ready,     \* messages a worker may take now
  later,     \* messages whose countdown or visibility timeout still runs
  lock,      \* the holder of upgrade:drive_pair:<job>:<pair>
  work,      \* what each worker process is doing
  retries, kills, overruns,
  reopened   \* a retry opened the job after it had ended

vars == <<job, phase, stage, ticks, token, degraded, ready, later, lock, work,
          retries, kills, overruns, reopened>>
pairVars == <<phase, stage, ticks, token>>
counts == <<retries, kills, overruns, reopened>>

Idle == [at |-> "idle", pair |-> Nobody, verdict |-> "COMPLETED"]

(* The type invariant.                                                      *)
TypeOK ==
  /\ job \in JobStates
  /\ phase \in [Pairs -> {"PENDING", "IN_FLIGHT", "AWAITING", "DONE", "FAILED"}]
  /\ stage \in [Pairs -> 1..Len(Script) + 1]
  /\ ticks \in [Pairs -> 0..WaitTicks]
  /\ token \in [Pairs -> BOOLEAN]
  /\ degraded \in [Pairs -> BOOLEAN]
  /\ ready \in [Pairs -> 0..MaxMsgs]
  /\ later \in [Pairs -> 0..MaxMsgs]
  /\ lock \in [Pairs -> Workers \cup {Nobody, Lost}]
  /\ work \in [Workers -> [at : Steps, pair : Pairs \cup {Nobody}, verdict : Verdicts]]
  /\ retries \in 0..MaxRetries
  /\ kills \in 0..MaxKills
  /\ overruns \in 0..MaxOverruns
  /\ reopened \in BOOLEAN

Init ==
  /\ job = "PENDING"
  /\ phase = [p \in Pairs |-> "PENDING"]
  /\ stage = [p \in Pairs |-> 1]
  /\ ticks = [p \in Pairs |-> 0]
  /\ token = [p \in Pairs |-> FALSE]
  /\ degraded = [p \in Pairs |-> FALSE]
  /\ ready = [p \in Pairs |-> 0]
  /\ later = [p \in Pairs |-> 0]
  /\ lock = [p \in Pairs |-> Nobody]
  /\ work = [w \in Workers |-> Idle]
  /\ retries = 0 /\ kills = 0 /\ overruns = 0 /\ reopened = FALSE

Ended == job \in Verdicts \cup {"ABORTED"}
Over(p) == phase[p] \in {"DONE", "FAILED"}

(* One message more, up to the bound.                                       *)
Posted(q, P) == [p \in Pairs |-> IF p \in P /\ q[p] < MaxMsgs THEN q[p] + 1 ELSE q[p]]
Taken(q, p) == [q EXCEPT ![p] = @ - 1]

-------------------------------------------------------------------------------
(* A worker.                                                                *)

At(w, s) == work[w].at = s
Goto(w, s) == work' = [work EXCEPT ![w].at = s]

(* Mutant of Take: the lock is not asked for.                               *)
TakeUnlocked(w, p) ==
  /\ At(w, "idle") /\ ready[p] > 0
  /\ ready' = Taken(ready, p)
  /\ lock' = [lock EXCEPT ![p] = w]
  /\ work' = [work EXCEPT ![w] = [at |-> "entry", pair |-> p, verdict |-> "COMPLETED"]]
  /\ UNCHANGED <<job, pairVars, degraded, later, counts>>

(* A message is taken: with the pair's lock it becomes a drive, without it, *)
(* whoever holds it, a no-op.                                               *)
Take(w, p) ==
  /\ At(w, "idle") /\ ready[p] > 0
  /\ ready' = Taken(ready, p)
  /\ IF lock[p] = Nobody
       THEN /\ lock' = [lock EXCEPT ![p] = w]
            /\ work' = [work EXCEPT ![w] = [at |-> "entry", pair |-> p, verdict |-> "COMPLETED"]]
       ELSE UNCHANGED <<lock, work>>
  /\ UNCHANGED <<job, pairVars, degraded, later, counts>>

(* Mutant of Enter: a job that ended is left alone.                         *)
EnterUnhealed(w) ==
  /\ At(w, "entry")
  /\ Goto(w, IF job = "DELETED" \/ Ended THEN "release" ELSE "drive")
  /\ UNCHANGED <<job, pairVars, degraded, ready, later, lock, counts>>

(* The job is read: a deleted one is left alone, one that ended gets its    *)
(* suspended members resumed.                                               *)
Enter(w) ==
  /\ At(w, "entry")
  /\ degraded' = [degraded EXCEPT ![work[w].pair] = @ /\ ~Ended]
  /\ Goto(w, IF job = "DELETED" \/ Ended THEN "release" ELSE "drive")
  /\ UNCHANGED <<job, pairVars, ready, later, lock, counts>>

Driving(w, p) == At(w, "drive") /\ work[w].pair = p /\ job # "DELETED"
AtStage(p, kind) == stage[p] \in DOMAIN Script /\ Script[stage[p]] = kind

(* A gate without a token parks the pair and frees the worker.              *)
GateParks(w, p) ==
  /\ Driving(w, p) /\ AtStage(p, "gate") /\ ~token[p]
  /\ phase' = [phase EXCEPT ![p] = "AWAITING"]
  /\ Goto(w, "tail")
  /\ UNCHANGED <<job, stage, ticks, token, degraded, ready, later, lock, counts>>

GatePasses(w, p) ==
  /\ Driving(w, p) /\ AtStage(p, "gate") /\ token[p]
  /\ token' = [token EXCEPT ![p] = FALSE]
  /\ stage' = [stage EXCEPT ![p] = @ + 1]
  /\ phase' = [phase EXCEPT ![p] = "IN_FLIGHT"]
  /\ degraded' = [degraded EXCEPT ![p] = TRUE]
  /\ UNCHANGED <<job, ticks, ready, later, lock, work, counts>>

(* Mutant of WaitParks: the wait is left to the next click.                 *)
WaitForgotten(w, p) ==
  /\ Driving(w, p) /\ AtStage(p, "wait") /\ ticks[p] < WaitTicks
  /\ ticks' = [ticks EXCEPT ![p] = @ + 1]
  /\ phase' = [phase EXCEPT ![p] = "IN_FLIGHT"]
  /\ degraded' = [degraded EXCEPT ![p] = TRUE]
  /\ Goto(w, "tail")
  /\ UNCHANGED <<job, stage, token, ready, later, lock, counts>>

(* A wait that is not over posts the pair again, with a countdown.          *)
WaitParks(w, p) ==
  /\ Driving(w, p) /\ AtStage(p, "wait") /\ ticks[p] < WaitTicks
  /\ ticks' = [ticks EXCEPT ![p] = @ + 1]
  /\ phase' = [phase EXCEPT ![p] = "IN_FLIGHT"]
  /\ degraded' = [degraded EXCEPT ![p] = TRUE]
  /\ later' = Posted(later, {p})
  /\ Goto(w, "tail")
  /\ UNCHANGED <<job, stage, token, ready, lock, counts>>

WaitOver(w, p) ==
  /\ Driving(w, p) /\ AtStage(p, "wait")
  /\ ticks' = [ticks EXCEPT ![p] = 0]
  /\ stage' = [stage EXCEPT ![p] = @ + 1]
  /\ phase' = [phase EXCEPT ![p] = "IN_FLIGHT"]
  /\ UNCHANGED <<job, token, degraded, ready, later, lock, work, counts>>

(* The drive fails: a wait timed out, a phase failed or an exception ended  *)
(* it.                                                                      *)
Fails(w, p) ==
  /\ Driving(w, p) /\ stage[p] \in DOMAIN Script
  /\ phase' = [phase EXCEPT ![p] = "FAILED"]
  /\ ticks' = [ticks EXCEPT ![p] = 0]
  /\ Goto(w, "tail")
  /\ UNCHANGED <<job, stage, token, degraded, ready, later, lock, counts>>

Finishes(w, p) ==
  /\ Driving(w, p) /\ stage[p] \notin DOMAIN Script
  /\ phase' = [phase EXCEPT ![p] = "DONE"]
  /\ degraded' = [degraded EXCEPT ![p] = FALSE]
  /\ Goto(w, "tail")
  /\ UNCHANGED <<job, stage, ticks, token, ready, later, lock, counts>>

(* The job was deleted under the drive: the next commit raises.             *)
LosesJob(w) ==
  /\ At(w, "drive") /\ job = "DELETED"
  /\ Goto(w, "release")
  /\ UNCHANGED <<job, pairVars, degraded, ready, later, lock, counts>>

(* Mutant of Heal: the drive leaves without looking at the job.             *)
HealAndLeave(w) ==
  /\ At(w, "tail")
  /\ LET p == work[w].pair IN
       degraded' = [degraded EXCEPT ![p] = @ /\ phase[p] # "FAILED" /\ job # "ABORTED"]
  /\ Goto(w, "release")
  /\ UNCHANGED <<job, pairVars, ready, later, lock, counts>>

(* The way out: the members of a failed pair or an aborted job are resumed, *)
(* the job's state is worked out, written, and the lock released.           *)
Heal(w) ==
  /\ At(w, "tail")
  /\ LET p == work[w].pair IN
       degraded' = [degraded EXCEPT ![p] = @ /\ phase[p] # "FAILED" /\ job # "ABORTED"]
  /\ Goto(w, "mark")
  /\ UNCHANGED <<job, pairVars, ready, later, lock, counts>>

Verdict == IF \A p \in Pairs : phase[p] = "DONE" THEN "COMPLETED"
           ELSE IF \A p \in Pairs : phase[p] = "FAILED" THEN "FAILED"
           ELSE "COMPLETED_WITH_ERRORS"

(* Mutant of Mark: the job is judged by the pair just driven.               *)
MarkAlone(w) ==
  /\ At(w, "mark")
  /\ LET p == work[w].pair IN
       IF Ended \/ job = "DELETED" \/ ~Over(p) THEN Goto(w, "release")
       ELSE work' = [work EXCEPT ![w].at = "commit",
                                 ![w].verdict = IF phase[p] = "DONE" THEN "COMPLETED"
                                                ELSE "FAILED"]
  /\ UNCHANGED <<job, pairVars, degraded, ready, later, lock, counts>>

Mark(w) ==
  /\ At(w, "mark")
  /\ IF Ended \/ job = "DELETED" \/ \E p \in Pairs : ~Over(p)
       THEN Goto(w, "release")
       ELSE work' = [work EXCEPT ![w] = [at |-> "commit", pair |-> @.pair, verdict |-> Verdict]]
  /\ UNCHANGED <<job, pairVars, degraded, ready, later, lock, counts>>

(* The verdict is written over whatever the job says by now.                *)
Commit(w) ==
  /\ At(w, "commit")
  /\ job' = IF job = "DELETED" THEN job ELSE work[w].verdict
  /\ Goto(w, "release")
  /\ UNCHANGED <<pairVars, degraded, ready, later, lock, counts>>

Release(w) ==
  /\ At(w, "release")
  /\ lock' = [p \in Pairs |-> IF lock[p] = w THEN Nobody ELSE lock[p]]
  /\ work' = [work EXCEPT ![w] = Idle]
  /\ UNCHANGED <<job, pairVars, degraded, ready, later, counts>>

(* A worker process is lost.  Its message was not acknowledged: a dead pool *)
(* process has it requeued at once, a dead host after the visibility        *)
(* timeout, which is longer than the lock lives.                            *)
Kill(w) ==
  /\ ~At(w, "idle") /\ kills < MaxKills
  /\ kills' = kills + 1
  /\ LET p == work[w].pair IN
     /\ lock' = [lock EXCEPT ![p] = Lost]
     /\ ready' = IF Redelivery = "at once" THEN Posted(ready, {p}) ELSE ready
     /\ later' = IF Redelivery = "later" THEN Posted(later, {p}) ELSE later
  /\ work' = [work EXCEPT ![w] = Idle]
  /\ UNCHANGED <<job, pairVars, degraded, retries, overruns, reopened>>

LockExpires(p) ==
  /\ lock[p] = Lost
  /\ lock' = [lock EXCEPT ![p] = Nobody]
  /\ UNCHANGED <<job, pairVars, degraded, ready, later, work, counts>>

(* A drive blocks on its firewall for longer than the lock lives: the HA    *)
(* subsystem alone may take as long.                                        *)
Overrun(w) ==
  /\ At(w, "drive") /\ lock[work[w].pair] = w /\ overruns < MaxOverruns
  /\ overruns' = overruns + 1
  /\ lock' = [lock EXCEPT ![work[w].pair] = Nobody]
  /\ UNCHANGED <<job, pairVars, degraded, ready, later, work, retries, kills, reopened>>

(* A countdown ends.  The last one of a pair is that of the drive that just *)
(* parked, and outlives the moments that drive needs to leave; a lost       *)
(* worker's message outlives the lock.                                      *)
Leaving(p) == \E w \in Workers : /\ work[w].pair = p
                                 /\ work[w].at \in {"tail", "mark", "commit", "release"}
Countdown(p) ==
  /\ later[p] > 0
  /\ later[p] = 1 => ~Leaving(p) /\ lock[p] # Lost
  /\ later' = Taken(later, p)
  /\ ready' = Posted(ready, {p})
  /\ UNCHANGED <<job, pairVars, degraded, lock, work, counts>>

-------------------------------------------------------------------------------
(* The operator.                                                            *)

Start ==
  /\ job = "PENDING"
  /\ job' = "RUNNING" /\ ready' = Posted(ready, Pairs)
  /\ UNCHANGED <<pairVars, degraded, later, lock, work, counts>>

Click(p) ==
  /\ ~Ended /\ job # "DELETED" /\ phase[p] = "AWAITING"
  /\ token' = [token EXCEPT ![p] = TRUE]
  /\ ready' = Posted(ready, {p})
  /\ UNCHANGED <<job, phase, stage, ticks, degraded, later, lock, work, counts>>

Retry(p) ==
  /\ job \notin {"COMPLETED", "ABORTED", "DELETED"} /\ retries < MaxRetries
  /\ phase[p] \notin {"DONE", "AWAITING"}
  /\ retries' = retries + 1
  /\ phase' = [phase EXCEPT ![p] = "PENDING"]
  /\ reopened' = (reopened \/ Ended)
  /\ job' = IF Ended THEN "RUNNING" ELSE job
  /\ ready' = Posted(ready, {p})
  /\ UNCHANGED <<stage, ticks, token, degraded, later, lock, work, kills, overruns>>

Abort ==
  /\ job \in {"PENDING", "RUNNING"}
  /\ job' = "ABORTED" /\ ready' = Posted(ready, Pairs)
  /\ UNCHANGED <<pairVars, degraded, later, lock, work, counts>>

Delete ==
  /\ job \notin {"RUNNING", "DELETED"}
  /\ job' = "DELETED"
  /\ UNCHANGED <<pairVars, degraded, ready, later, lock, work, counts>>

-------------------------------------------------------------------------------
Drive(w, p) == \/ GateParks(w, p) \/ GatePasses(w, p) \/ WaitParks(w, p)
               \/ WaitOver(w, p) \/ Fails(w, p) \/ Finishes(w, p)
WorkerStep(w) == \/ Enter(w) \/ LosesJob(w) \/ Heal(w) \/ Mark(w) \/ Commit(w)
                 \/ Release(w) \/ \E p \in Pairs : Drive(w, p)

Next ==
  \/ \E w \in Workers : WorkerStep(w) \/ Kill(w) \/ Overrun(w) \/ \E p \in Pairs : Take(w, p)
  \/ \E p \in Pairs : LockExpires(p) \/ Countdown(p) \/ Click(p) \/ Retry(p)
  \/ Start \/ Abort \/ Delete

Spec == Init /\ [][Next]_vars

(* Workers go on, the queue is first in first out, locks and countdowns end,*)
(* and the operator answers a gate until it opens.                          *)
Fairness ==
  /\ \A w \in Workers : WF_vars(WorkerStep(w))
  /\ \A p \in Pairs : /\ SF_vars(\E w \in Workers : Take(w, p))
                      /\ WF_vars(LockExpires(p)) /\ WF_vars(Countdown(p))
                      /\ WF_vars(Click(p))

FairSpec == Spec /\ Fairness

-------------------------------------------------------------------------------
(* What holds.                                                              *)

(* "A duplicate dispatch for a pair that's already being driven is a NO-OP, *)
(* not a second concurrent drive that races the first" (drive_pair).        *)
OneDriver ==
  \A v, w \in Workers : v # w /\ ~At(v, "idle") /\ ~At(w, "idle") =>
    work[v].pair # work[w].pair

(* No wake-up of a wait is lost: a pair in flight in a running job has a    *)
(* message on its way or a drive that has not left it yet, through any      *)
(* duplicates, clicks, retries, lost workers and no-op dispatches           *)
(* (_await_or_park), as long as no retry opened the job again.              *)
Carried(p) == \/ ready[p] > 0 /\ lock[p] # Lost
              \/ later[p] > 0
              \/ \E w \in Workers : work[w].pair = p /\ work[w].at \in {"entry", "drive"}
InFlightCarried ==
  \A p \in Pairs : job = "RUNNING" /\ ~reopened /\ phase[p] = "IN_FLIGHT" => Carried(p)

(* A job is COMPLETED only when every pair is, however many drives close it *)
(* at once and whatever is retried in between (_maybe_mark_job_done).       *)
CompletedMeansDone == job = "COMPLETED" => \A p \in Pairs : phase[p] = "DONE"

(* Gates and waits free the worker: every pair that started to move comes   *)
(* to an end, even when all but one worker are lost and other pairs park.   *)
InFlightEnds ==
  \A p \in Pairs : phase[p] \in {"IN_FLIGHT", "AWAITING"} ~>
    phase[p] \notin {"IN_FLIGHT", "AWAITING"} \/ Ended \/ job = "DELETED"

(* The job whose pairs are all over is closed by one of their drives.       *)
JobCloses ==
  (job = "RUNNING" /\ \A p \in Pairs : Over(p)) ~>
    (job # "RUNNING" \/ \E p \in Pairs : ~Over(p))

(* An abort that finds a pair without a drive gets its suspended member     *)
(* resumed, unless the job is deleted first (abort_job).                    *)
AbortHealsParked ==
  \A p \in Pairs :
    (job = "ABORTED" /\ degraded[p] /\ ready[p] > 0 /\ lock[p] = Nobody) ~>
      (~degraded[p] \/ job = "DELETED")

===============================================================================
