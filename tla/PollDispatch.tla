----------------------------- MODULE PollDispatch -----------------------------
(***************************************************************************)
(* The staggered capacity poller (app/capacity/tasks/__init__.py): a       *)
(* dispatcher that beat runs every tick finds the devices that are due,    *)
(* claims them and enqueues one poll each, bounded per Panorama by slots   *)
(* in Redis (app/core/concurrency.py); the polls stamp or rewind the       *)
(* devices' timestamps.                                                    *)
(*                                                                         *)
(* Time goes in ticks and a timestamp is kept as its age, up to Horizon;   *)
(* a device never polled has the age Horizon.  The dispatcher works in one *)
(* database transaction: slots and messages leave at once, the claims only *)
(* with the commit at its end.  A pass is over before the next tick, so    *)
(* the dispatch lock never expires under it.                               *)
(***************************************************************************)
EXTENDS Integers, FiniteSets

CONSTANTS
  Devices,     \* the devices with polling enabled
  Classes,     \* "system" and "config"
  Pano,        \* the slot group of each device: its Panorama, or "direct"
  Imported,    \* the devices imported from a Panorama
  Cap,         \* max_concurrency_per_panorama
  Interval,    \* the interval of each class, in ticks
  Backoff,     \* device_retry_backoff_seconds, in ticks
  StaleAfter,  \* a slot's age at which it is taken for orphaned
  PollLag,     \* bound on the ticks a poll waits in the queue, and on those it runs
  Tokens,      \* bound on the polls and slots at any time
  Horizon,     \* bound on the ages
  MaxFaults    \* bound on the passes and polls that break off

ASSUME PollAssumption ==
  /\ Imported \subseteq Devices
  /\ Cap \in Nat \ {0}
  /\ Interval \in [Classes -> Nat \ {0}]
  /\ Backoff \in Nat /\ StaleAfter \in Nat \ {0} /\ PollLag \in Nat
  /\ Horizon \in Nat /\ PollLag <= Horizon /\ \A c \in Classes : Interval[c] <= Horizon
  /\ MaxFaults \in Nat

VARIABLES
  age,        \* of the class timestamps of each device: last_system_poll_at, ...
  connected,  \* what Panorama last said of the device
  slots,      \* the sorted sets poll:inflight:<pano> in Redis
  polls,      \* the polls in the queue or running
  beat,       \* a dispatch_due message waits
  pass,       \* the dispatcher's transaction
  faults,     \* passes and polls broken off so far
  torn        \* a pass broke off after it had begun

vars == <<age, connected, slots, polls, beat, pass, faults, torn>>

Groups == {Pano[d] : d \in Devices}
NoPass == [at |-> "idle", due |-> {}, claims |-> {}]

(* The type invariant.                                                      *)
TypeOK ==
  /\ age \in [Devices -> [Classes -> 0..Horizon]]
  /\ connected \in [Devices -> BOOLEAN]
  /\ slots \subseteq [token : Tokens, group : Groups, age : 0..StaleAfter]
  /\ polls \subseteq [token : Tokens, at : {"queued", "running"}, dev : Devices,
                      classes : SUBSET Classes, since : 0..PollLag]
  /\ beat \in BOOLEAN
  /\ pass \in [at : {"idle", "pass"},
               due : SUBSET [dev : Devices, classes : SUBSET Classes, oldest : 0..Horizon],
               claims : SUBSET (Devices \X Classes)]
  /\ faults \in 0..MaxFaults
  /\ torn \in BOOLEAN

Init ==
  /\ age = [d \in Devices |-> [c \in Classes |-> Horizon]]
  /\ connected = [d \in Devices |-> TRUE]
  /\ slots = {} /\ polls = {}
  /\ beat = FALSE /\ pass = NoPass
  /\ faults = 0 /\ torn = FALSE

-------------------------------------------------------------------------------
(* The dispatcher.                                                          *)

Due(d) == {c \in Classes : age[d][c] >= Interval[c]}
Oldest(d) == CHOOSE a \in {age[d][c] : c \in Due(d)} : \A c \in Due(d) : age[d][c] <= a
Offline(d) == d \in Imported /\ ~connected[d]

(* The pass reads the devices: those due are listed with their oldest age,  *)
(* those Panorama reports offline are claimed without a poll.               *)
BeginPass ==
  /\ beat /\ pass.at = "idle"
  /\ beat' = FALSE
  /\ LET late == {d \in Devices : Due(d) # {}} IN
     pass' = [at     |-> "pass",
              due    |-> {[dev |-> d, classes |-> Due(d), oldest |-> Oldest(d)] :
                            d \in {e \in late : ~Offline(e)}},
              claims |-> UNION {{d} \X Due(d) : d \in {e \in late : Offline(e)}}]
  /\ UNCHANGED <<age, connected, slots, polls, faults, torn>>

(* try_acquire_slot: the slots taken for orphaned are dropped, the others   *)
(* counted against the cap.                                                 *)
KeptForever(g) == slots                                (* mutant of Kept *)
Kept(g) == {s \in slots : s.group # g \/ s.age < StaleAfter}
RoomAnyway(g) == TRUE                                  (* mutant of RoomIn *)
RoomIn(g) == Cardinality({s \in Kept(g) : s.group = g}) < Cap

Unused == {t \in Tokens : ~\E s \in slots \cup polls : s.token = t}

(* The oldest device of a group that is not at its cap gets a slot and is   *)
(* polled for all its due classes.  Groups take turns, which is of no       *)
(* consequence between them: each has its own cap.                          *)
Enqueue(e) ==
  /\ pass.at = "pass" /\ e \in pass.due
  /\ \A f \in pass.due : Pano[f.dev] = Pano[e.dev] => f.oldest <= e.oldest
  /\ RoomIn(Pano[e.dev]) /\ Unused # {}
  /\ LET t == CHOOSE t \in Unused : TRUE IN
     /\ slots' = Kept(Pano[e.dev]) \cup {[token |-> t, group |-> Pano[e.dev], age |-> 0]}
     /\ polls' = polls \cup {[token |-> t, at |-> "queued", dev |-> e.dev,
                              classes |-> e.classes, since |-> 0]}
  /\ pass' = [pass EXCEPT !.due = @ \ {e},
                          !.claims = @ \cup ({e.dev} \X e.classes)]
  /\ UNCHANGED <<age, connected, beat, faults, torn>>

(* A group at its cap is left for the next tick.                            *)
AtCap(g) ==
  /\ pass.at = "pass" /\ \E e \in pass.due : Pano[e.dev] = g
  /\ ~RoomIn(g) \/ Unused = {}
  /\ slots' = Kept(g)
  /\ pass' = [pass EXCEPT !.due = {e \in @ : Pano[e.dev] # g}]
  /\ UNCHANGED <<age, connected, polls, beat, faults, torn>>

(* Mutant of CommitPass: nothing is claimed.                                *)
CommitNothing ==
  /\ pass.at = "pass" /\ pass.due = {}
  /\ pass' = NoPass
  /\ UNCHANGED <<age, connected, slots, polls, beat, faults, torn>>

(* The claims are written over what the polls wrote in the meantime.        *)
CommitPass ==
  /\ pass.at = "pass" /\ pass.due = {}
  /\ age' = [d \in Devices |-> [c \in Classes |->
               IF <<d, c>> \in pass.claims THEN 0 ELSE age[d][c]]]
  /\ pass' = NoPass
  /\ UNCHANGED <<connected, slots, polls, beat, faults, torn>>

(* The pass breaks off, on an exception or with its worker: the polls are   *)
(* on their way, the claims are lost, and a slot may be held for no poll.   *)
PassFails ==
  /\ pass.at = "pass" /\ faults < MaxFaults
  /\ faults' = faults + 1 /\ torn' = TRUE
  /\ pass' = NoPass
  /\ \/ UNCHANGED slots
     \/ \E e \in pass.due :
          /\ RoomIn(Pano[e.dev]) /\ Unused # {}
          /\ slots' = Kept(Pano[e.dev]) \cup
                        {[token |-> CHOOSE t \in Unused : TRUE, group |-> Pano[e.dev], age |-> 0]}
  /\ UNCHANGED <<age, connected, polls, beat>>

-------------------------------------------------------------------------------
(* The polls.                                                               *)

Start(p) ==
  /\ p \in polls /\ p.at = "queued"
  /\ polls' = (polls \ {p}) \cup {[p EXCEPT !.at = "running", !.since = 0]}
  /\ UNCHANGED <<age, connected, slots, beat, pass, faults, torn>>

EndedHolding(p) == polls' = polls \ {p} /\ UNCHANGED slots   (* mutant of Ended *)

(* release_slot, in the poll's `finally`.                                   *)
Ended(p) == /\ polls' = polls \ {p}
            /\ slots' = {s \in slots : s.token # p.token}

Stamped(p, a) == [d \in Devices |-> [c \in Classes |->
                    IF d = p.dev /\ c \in p.classes THEN a[c] ELSE age[d][c]]]

(* The timestamps get the time the poll started.                            *)
Succeeds(p) ==
  /\ p \in polls /\ p.at = "running"
  /\ Ended(p)
  /\ age' = Stamped(p, [c \in Classes |-> p.since])
  /\ UNCHANGED <<connected, beat, pass, faults, torn>>

(* Or one that makes the class due again once the backoff is over.          *)
Rewind(c) == IF Backoff < Interval[c] THEN Interval[c] - Backoff ELSE 0
AtMost(a) == IF a < Horizon THEN a ELSE Horizon
Fails(p) ==
  /\ p \in polls /\ p.at = "running"
  /\ Ended(p)
  /\ age' = Stamped(p, [c \in Classes |-> AtMost(Rewind(c) + p.since)])
  /\ UNCHANGED <<connected, beat, pass, faults, torn>>

(* The worker is lost: the message was acknowledged on receipt, the slot    *)
(* stays behind.                                                            *)
Lose(p) ==
  /\ p \in polls /\ p.at = "running" /\ faults < MaxFaults
  /\ faults' = faults + 1
  /\ polls' = polls \ {p}
  /\ UNCHANGED <<age, connected, slots, beat, pass, torn>>

(* The Panorama sync finds the device connected, or not.                    *)
SyncDevice(d) ==
  /\ d \in Imported
  /\ connected' = [connected EXCEPT ![d] = ~@]
  /\ UNCHANGED <<age, slots, polls, beat, pass, faults, torn>>

(* A tick goes by and beat posts the next dispatch; the last one was taken. *)
Tick ==
  /\ pass.at = "idle" /\ ~beat /\ \A p \in polls : p.since < PollLag
  /\ beat' = TRUE
  /\ age' = [d \in Devices |-> [c \in Classes |-> AtMost(age[d][c] + 1)]]
  /\ slots' = {[s EXCEPT !.age = IF @ < StaleAfter THEN @ + 1 ELSE @] : s \in slots}
  /\ polls' = {[p EXCEPT !.since = @ + 1] : p \in polls}
  /\ UNCHANGED <<connected, pass, faults, torn>>

-------------------------------------------------------------------------------
Dispatch == \/ BeginPass \/ CommitPass
            \/ \E e \in pass.due : Enqueue(e)
            \/ \E g \in Groups : AtCap(g)
Work == \E p \in polls : Start(p) \/ Succeeds(p) \/ Fails(p)

Next == \/ Dispatch \/ PassFails \/ Work \/ Tick
        \/ \E p \in polls : Lose(p)
        \/ \E d \in Devices : SyncDevice(d)

Spec == Init /\ [][Next]_vars

(* Beat ticks, the dispatcher and the workers go on.                        *)
FairSpec == Spec /\ WF_vars(Tick) /\ WF_vars(Dispatch) /\ WF_vars(Work)

-------------------------------------------------------------------------------
(* What holds.                                                              *)

(* The polls in flight through one Panorama stay under its cap, as long as  *)
(* none of them is old enough to be taken for orphaned (try_acquire_slot),  *)
(* through crashes, leaked slots and early releases.                        *)
CapHeld ==
  \A g \in Groups :
    LET mine == {p \in polls : Pano[p.dev] = g} IN
      (\A p \in mine : \E s \in slots : s.token = p.token) =>
        Cardinality(mine) <= Cap

(* A device is "optimistically claimed so it isn't re-selected": it never   *)
(* has two polls of one class in flight, unless a pass broke off between    *)
(* its messages and its commit.                                             *)
OnePollPerClass ==
  ~torn => \A p, q \in polls : p.token # q.token /\ p.dev = q.dev =>
             p.classes \cap q.classes = {}

(* A slot belongs to a poll in flight, to a fault, or is on its way out:    *)
(* "a crashed poll task that never released its slot expires by score".     *)
SlotsAccounted ==
  Cardinality({s \in slots : ~\E p \in polls : p.token = s.token}) <= faults

(* Every device is polled again and again while it is connected, although   *)
(* it shares its Panorama's cap with others, fails, or leaked slots fill    *)
(* the cap for a while: oldest first starves nobody.                        *)
EveryDevicePolled ==
  \A d \in Devices : []<>(Offline(d) \/ \E p \in polls : p.dev = d /\ p.at = "running")

===============================================================================
