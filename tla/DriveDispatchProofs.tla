------------------------- MODULE DriveDispatchProofs -------------------------
(***************************************************************************)
(* Proofs about DriveDispatch, for any number of pairs and workers and any *)
(* script: one drive per pair, no lost wake-up, and no job completed with  *)
(* a pair that is not.                                                     *)
(*                                                                         *)
(* Each is an invariant of its own on top of IInv, which says what is      *)
(* where.  The lock is only worth what its lifetime is: OneDriver and      *)
(* InFlightCarried are proved for drives that do not outlive it, and the   *)
(* second one for a broker that redelivers after it.                       *)
(***************************************************************************)
EXTENDS DriveDispatch, TLAPS, SequenceTheorems

Busy(w) == ~At(w, "idle")

(* A worker that does something does it for a pair.                        *)
WorkInv == \A w \in Workers : IF Busy(w) THEN work[w].pair \in Pairs
                              ELSE work[w].pair = Nobody

IInv == TypeOK /\ WorkInv

(* The lock of a pair and the drive of a pair belong together.             *)
LockInv ==
  /\ \A w \in Workers : Busy(w) => lock[work[w].pair] = w
  /\ \A p \in Pairs, w \in Workers : lock[p] = w => Busy(w) /\ work[w].pair = p

(* While a pair is in flight something will take it up again, and what a   *)
(* busy lock turns away does not matter.                                   *)
Wanted(p) == job \in {"PENDING", "RUNNING"} /\ ~reopened /\ phase[p] = "IN_FLIGHT"
Driven(p) == \E w \in Workers : work[w].pair = p /\ work[w].at \in {"entry", "drive"}
Wake(p) == Wanted(p) => /\ Leaving(p) \/ lock[p] = Lost => later[p] > 0
                        /\ ready[p] > 0 \/ later[p] > 0 \/ Driven(p)
WakeInv == \A p \in Pairs : Wake(p)

(* A pair that is done stays so, and a verdict that is waiting to be       *)
(* written stays true.                                                     *)
AllDone == \A p \in Pairs : phase[p] = "DONE"
ScriptOver == \A p \in Pairs : phase[p] = "DONE" => stage[p] \notin DOMAIN Script
VerdictTrue == \A w \in Workers :
                 At(w, "commit") /\ work[w].verdict = "COMPLETED" => AllDone
DoneInv == ScriptOver /\ VerdictTrue /\ CompletedMeansDone

-------------------------------------------------------------------------------
(* Lemmas about the operators of the model.                                *)

(* The script is a sequence.                                               *)
LEMMA ScriptLength == Len(Script) \in Nat /\ DOMAIN Script = 1..Len(Script)
BY DispatchAssumption, LenProperties

(* The bounds are numbers.                                                 *)
LEMMA Bounds ==
  /\ MaxMsgs \in Nat /\ MaxMsgs > 1
  /\ WaitTicks \in Nat /\ MaxRetries \in Nat
  /\ MaxKills \in Nat /\ MaxOverruns \in Nat
BY BoundAssumption

(* Nobody and Lost are no workers.                                         *)
LEMMA Nobodies == /\ Nobody \notin Workers /\ Nobody \notin Pairs
                  /\ Lost \notin Workers /\ Lost # Nobody
BY DispatchAssumption

(* Messages are counted up to the bound.                                   *)
LEMMA PostedType ==
  ASSUME NEW n \in [Pairs -> 0..MaxMsgs], NEW P
  PROVE  /\ Posted(n, P) \in [Pairs -> 0..MaxMsgs]
         /\ \A p \in Pairs : Posted(n, P)[p] >= n[p]
         /\ \A p \in Pairs \cap P : Posted(n, P)[p] > 0
BY Bounds DEF Posted

(* A message that is there can be taken.                                   *)
LEMMA TakenType ==
  ASSUME NEW n \in [Pairs -> 0..MaxMsgs], NEW p \in Pairs, n[p] > 0
  PROVE  /\ Taken(n, p) \in [Pairs -> 0..MaxMsgs]
         /\ Taken(n, p)[p] = n[p] - 1
         /\ \A r \in Pairs : r # p => Taken(n, p)[r] = n[r]
BY Bounds DEF Taken

(* A worker that moves to another step keeps its pair and its verdict.     *)
LEMMA GotoType ==
  ASSUME IInv, NEW w \in Workers, NEW s \in Steps, Goto(w, s)
  PROVE  /\ work' \in [Workers -> [at : Steps, pair : Pairs \cup {Nobody}, verdict : Verdicts]]
         /\ work'[w].at = s
         /\ \A v \in Workers : v # w => work'[v] = work[v]
         /\ \A v \in Workers : work'[v].pair = work[v].pair /\ work'[v].verdict = work[v].verdict
BY DEF IInv, TypeOK, Goto

-------------------------------------------------------------------------------
(* The state is well typed and the workers work for pairs.                 *)

(* Initially.                                                              *)
LEMMA InitInvariant == Init => IInv
<1> SUFFICES ASSUME Init PROVE IInv OBVIOUS
<1>1. 1 \in 1..Len(Script) + 1 BY ScriptLength
<1>2. TypeOK
  <2>1. /\ ticks \in [Pairs -> 0..WaitTicks]
        /\ ready \in [Pairs -> 0..MaxMsgs] /\ later \in [Pairs -> 0..MaxMsgs]
        /\ retries \in 0..MaxRetries /\ kills \in 0..MaxKills
        /\ overruns \in 0..MaxOverruns
    BY Bounds DEF Init
  <2>2. work \in [Workers -> [at : Steps, pair : Pairs \cup {Nobody}, verdict : Verdicts]]
    BY DEF Init, Idle, Steps, Verdicts
  <2>3. lock \in [Pairs -> Workers \cup {Nobody, Lost}] BY DEF Init
  <2> QED BY <1>1, <2>1, <2>2, <2>3 DEF Init, TypeOK, JobStates
<1>3. WorkInv BY DEF Init, WorkInv, Idle, Busy, At
<1> QED BY <1>2, <1>3 DEF IInv

(* What a worker does on its own.                                          *)
LEMMA WorkerInvariant ==
  ASSUME IInv, NEW w \in Workers,
         Enter(w) \/ LosesJob(w) \/ Heal(w) \/ Mark(w) \/ Commit(w) \/ Release(w)
  PROVE  IInv'
<1> USE DEF At
<1>0. Busy(w) /\ work[w].pair \in Pairs
  BY DEF IInv, WorkInv, Busy, Enter, LosesJob, Heal, Mark, Commit, Release
<1>1. CASE Enter(w) \/ LosesJob(w) \/ Heal(w)
  <2>1. PICK s \in Steps \ {"idle"} : Goto(w, s)
    BY <1>1 DEF Enter, LosesJob, Heal, Steps
  <2>2. WorkInv' BY <1>0, <2>1, GotoType DEF IInv, WorkInv, Busy
  <2>3. TypeOK'
    BY <1>1, <2>1, GotoType
    DEF IInv, TypeOK, Enter, LosesJob, Heal, pairVars, counts
  <2> QED BY <2>2, <2>3 DEF IInv
<1>2. CASE Mark(w)
  <2>1. \/ Goto(w, "release")
        \/ work' = [work EXCEPT ![w] = [at |-> "commit", pair |-> work[w].pair, verdict |-> Verdict]]
    BY <1>2 DEF Mark
  <2>2. Verdict \in Verdicts /\ "release" \in Steps /\ "commit" \in Steps
    BY DEF Verdict, Verdicts, Steps
  <2>3. WorkInv' /\ work' \in [Workers -> [at : Steps, pair : Pairs \cup {Nobody}, verdict : Verdicts]]
    <3>1. CASE Goto(w, "release")
      BY <1>0, <2>2, <3>1, GotoType DEF IInv, WorkInv, Busy
    <3>2. CASE work' = [work EXCEPT ![w] = [at |-> "commit", pair |-> work[w].pair,
                                            verdict |-> Verdict]]
      BY <1>0, <2>2, <3>2 DEF IInv, WorkInv, Busy, TypeOK
    <3> QED BY <2>1, <3>1, <3>2
  <2>4. UNCHANGED <<job, phase, stage, ticks, token, degraded, ready, later, lock, counts>>
    BY <1>2 DEF Mark, pairVars
  <2> QED BY <2>3, <2>4 DEF IInv, TypeOK, counts
<1>3. CASE Commit(w)
  <2>1. Goto(w, "release") /\ "release" \in Steps BY <1>3 DEF Commit, Steps
  <2>2. WorkInv' BY <1>0, <2>1, GotoType DEF IInv, WorkInv, Busy
  <2>3. job' \in JobStates BY <1>3 DEF Commit, IInv, TypeOK, JobStates
  <2>4. TypeOK' BY <1>3, <2>1, <2>3, GotoType DEF IInv, TypeOK, Commit, pairVars, counts
  <2> QED BY <2>2, <2>4 DEF IInv
<1>4. CASE Release(w)
  <2>1. work' = [work EXCEPT ![w] = Idle] BY <1>4 DEF Release
  <2>2. Idle \in [at : Steps, pair : Pairs \cup {Nobody}, verdict : Verdicts]
    BY DEF Idle, Steps, Verdicts
  <2>3. WorkInv' BY <2>1 DEF IInv, WorkInv, Busy, TypeOK, Idle
  <2>4. TypeOK' BY <1>4, <2>1, <2>2 DEF IInv, TypeOK, Release, pairVars, counts
  <2> QED BY <2>3, <2>4 DEF IInv
<1> QED BY <1>1, <1>2, <1>3, <1>4

(* What a drive does to its pair.                                          *)
LEMMA DriveInvariant ==
  ASSUME IInv, NEW w \in Workers, NEW p \in Pairs, Drive(w, p)
  PROVE  IInv'
<1>0. Busy(w) /\ "tail" \in Steps
  BY DEF Drive, GateParks, GatePasses, WaitParks, WaitOver, Fails, Finishes, Driving,
         At, Busy, Steps
<1>1. Goto(w, "tail") \/ UNCHANGED work
  BY DEF Drive, GateParks, GatePasses, WaitParks, WaitOver, Fails, Finishes
<1>2. WorkInv' /\ work' \in [Workers -> [at : Steps, pair : Pairs \cup {Nobody}, verdict : Verdicts]]
  <2>1. CASE Goto(w, "tail")
    <3>1. /\ work' \in [Workers -> [at : Steps, pair : Pairs \cup {Nobody}, verdict : Verdicts]]
          /\ work'[w].at = "tail"
          /\ \A v \in Workers : v # w => work'[v] = work[v]
          /\ \A v \in Workers : work'[v].pair = work[v].pair
      BY <1>0, <2>1, GotoType
    <3>2. ASSUME NEW v \in Workers
          PROVE  IF Busy(v)' THEN work'[v].pair \in Pairs ELSE work'[v].pair = Nobody
      <4>1. Busy(v)' <=> Busy(v) BY <1>0, <3>1 DEF Busy, At
      <4> QED BY <3>1, <4>1 DEF IInv, WorkInv
    <3> QED BY <3>1, <3>2 DEF WorkInv
  <2>2. CASE UNCHANGED work
    BY <2>2 DEF IInv, WorkInv, Busy, At, TypeOK
  <2> QED BY <1>1, <2>1, <2>2
<1>3. stage' \in [Pairs -> 1..Len(Script) + 1]
  <2>1. stage[p] \in DOMAIN Script => stage[p] + 1 \in 1..Len(Script) + 1
    BY ScriptLength
  <2>2. stage' = stage \/ (stage[p] \in DOMAIN Script /\ stage' = [stage EXCEPT ![p] = @ + 1])
    BY DEF Drive, GateParks, GatePasses, WaitParks, WaitOver, Fails, Finishes, AtStage
  <2>3. stage \in [Pairs -> 1..Len(Script) + 1] BY DEF IInv, TypeOK
  <2> QED BY <2>1, <2>2, <2>3
<1>4. phase' \in [Pairs -> {"PENDING", "IN_FLIGHT", "AWAITING", "DONE", "FAILED"}]
  BY DEF IInv, TypeOK, Drive, GateParks, GatePasses, WaitParks, WaitOver, Fails, Finishes
<1>5. ticks' \in [Pairs -> 0..WaitTicks]
  <2>1. \/ ticks' = ticks \/ ticks' = [ticks EXCEPT ![p] = 0]
        \/ ticks[p] < WaitTicks /\ ticks' = [ticks EXCEPT ![p] = @ + 1]
    BY DEF Drive, GateParks, GatePasses, WaitParks, WaitOver, Fails, Finishes
  <2>2. ticks \in [Pairs -> 0..WaitTicks] BY DEF IInv, TypeOK
  <2> QED BY <2>1, <2>2, Bounds
<1>6. token' \in [Pairs -> BOOLEAN] /\ degraded' \in [Pairs -> BOOLEAN]
  BY DEF IInv, TypeOK, Drive, GateParks, GatePasses, WaitParks, WaitOver, Fails, Finishes
<1>7. later' \in [Pairs -> 0..MaxMsgs]
  <2>1. later' = later \/ later' = Posted(later, {p})
    BY DEF Drive, GateParks, GatePasses, WaitParks, WaitOver, Fails, Finishes
  <2>2. later \in [Pairs -> 0..MaxMsgs] BY DEF IInv, TypeOK
  <2> QED BY <2>1, <2>2, PostedType
<1>8. UNCHANGED <<job, ready, lock, counts>>
  BY DEF Drive, GateParks, GatePasses, WaitParks, WaitOver, Fails, Finishes
<1> QED BY <1>2, <1>3, <1>4, <1>5, <1>6, <1>7, <1>8 DEF IInv, TypeOK, counts

(* A message is taken, a worker lost, a lock expired, a countdown over.    *)
LEMMA QueueInvariant ==
  ASSUME IInv,
         \/ \E w \in Workers : Kill(w) \/ Overrun(w) \/ \E p \in Pairs : Take(w, p)
         \/ \E p \in Pairs : LockExpires(p) \/ Countdown(p)
  PROVE  IInv'
<1> USE DEF At
<1>1. ASSUME NEW w \in Workers, NEW p \in Pairs, Take(w, p) PROVE IInv'
  <2>1. ready' \in [Pairs -> 0..MaxMsgs] BY <1>1, TakenType DEF Take, IInv, TypeOK
  <2>2. WorkInv' /\ work' \in [Workers -> [at : Steps, pair : Pairs \cup {Nobody}, verdict : Verdicts]]
    <3>1. \/ work' = work
          \/ work' = [work EXCEPT ![w] = [at |-> "entry", pair |-> p, verdict |-> "COMPLETED"]]
      BY <1>1 DEF Take
    <3>2. "entry" \in Steps /\ "COMPLETED" \in Verdicts BY DEF Steps, Verdicts
    <3>3. CASE work' = work BY <3>3 DEF IInv, TypeOK, WorkInv, Busy
    <3>4. CASE work' = [work EXCEPT ![w] = [at |-> "entry", pair |-> p, verdict |-> "COMPLETED"]]
      BY <3>2, <3>4 DEF IInv, TypeOK, WorkInv, Busy
    <3> QED BY <3>1, <3>3, <3>4
  <2> QED BY <1>1, <2>1, <2>2 DEF Take, IInv, TypeOK, pairVars, counts
<1>2. ASSUME NEW w \in Workers, Kill(w) PROVE IInv'
  <2>1. Idle \in [at : Steps, pair : Pairs \cup {Nobody}, verdict : Verdicts]
    BY DEF Idle, Steps, Verdicts
  <2>2. WorkInv' BY <1>2 DEF Kill, IInv, WorkInv, Busy, TypeOK, Idle
  <2>3. ready' \in [Pairs -> 0..MaxMsgs] /\ later' \in [Pairs -> 0..MaxMsgs]
    BY <1>2, PostedType DEF Kill, IInv, TypeOK
  <2>4. kills' \in 0..MaxKills
    <3>1. kills < MaxKills /\ kills' = kills + 1 BY <1>2 DEF Kill
    <3>2. kills \in 0..MaxKills BY DEF IInv, TypeOK
    <3> QED BY <3>1, <3>2, Bounds
  <2> QED BY <1>2, <2>1, <2>2, <2>3, <2>4 DEF Kill, IInv, TypeOK, pairVars
<1>3. ASSUME NEW w \in Workers, Overrun(w) PROVE IInv'
  <2>1. overruns' \in 0..MaxOverruns BY <1>3, Bounds DEF Overrun, IInv, TypeOK
  <2> QED BY <1>3, <2>1 DEF Overrun, IInv, TypeOK, WorkInv, Busy, pairVars
<1>4. ASSUME NEW p \in Pairs, LockExpires(p) PROVE IInv'
  BY <1>4 DEF LockExpires, IInv, TypeOK, WorkInv, Busy, pairVars, counts
<1>5. ASSUME NEW p \in Pairs, Countdown(p) PROVE IInv'
  <2>1. ready' \in [Pairs -> 0..MaxMsgs] /\ later' \in [Pairs -> 0..MaxMsgs]
    BY <1>5, PostedType, TakenType DEF Countdown, IInv, TypeOK
  <2> QED BY <1>5, <2>1 DEF Countdown, IInv, TypeOK, WorkInv, Busy, pairVars, counts
<1> QED BY <1>1, <1>2, <1>3, <1>4, <1>5

(* What the operator does.                                                 *)
LEMMA OperatorInvariant ==
  ASSUME IInv, Start \/ Abort \/ Delete \/ \E p \in Pairs : Click(p) \/ Retry(p)
  PROVE  IInv'
<1>1. WorkInv' /\ UNCHANGED <<stage, ticks, degraded, later, lock, work, kills, overruns>>
  BY DEF Start, Abort, Delete, Click, Retry, IInv, WorkInv, Busy, At, pairVars, counts
<1>2. ready' \in [Pairs -> 0..MaxMsgs]
  <2>1. ready' = ready \/ \E P \in SUBSET Pairs : ready' = Posted(ready, P)
    BY DEF Start, Abort, Delete, Click, Retry
  <2>2. ready \in [Pairs -> 0..MaxMsgs] BY DEF IInv, TypeOK
  <2> QED BY <2>1, <2>2, PostedType
<1>3. job' \in JobStates
  BY DEF Start, Abort, Delete, Click, Retry, IInv, TypeOK, JobStates
<1>4. phase' \in [Pairs -> {"PENDING", "IN_FLIGHT", "AWAITING", "DONE", "FAILED"}]
  BY DEF Start, Abort, Delete, Click, Retry, IInv, TypeOK, pairVars
<1>5. token' \in [Pairs -> BOOLEAN] /\ reopened' \in BOOLEAN
  BY DEF Start, Abort, Delete, Click, Retry, IInv, TypeOK, pairVars, counts
<1>6. retries' \in 0..MaxRetries
  <2>1. retries' = retries \/ (retries < MaxRetries /\ retries' = retries + 1)
    BY DEF Start, Abort, Delete, Click, Retry, counts
  <2>2. retries \in 0..MaxRetries BY DEF IInv, TypeOK
  <2> QED BY <2>1, <2>2, Bounds
<1> QED BY <1>1, <1>2, <1>3, <1>4, <1>5, <1>6 DEF IInv, TypeOK

(* IInv is inductive.                                                      *)
LEMMA StepInvariant == IInv /\ [Next]_vars => IInv'
<1> SUFFICES ASSUME IInv, [Next]_vars PROVE IInv' OBVIOUS
<1>1. CASE UNCHANGED vars
  BY <1>1 DEF vars, pairVars, counts, IInv, TypeOK, WorkInv, Busy, At
<1>2. ASSUME NEW w \in Workers, WorkerStep(w) PROVE IInv'
  BY <1>2, WorkerInvariant, DriveInvariant DEF WorkerStep
<1>3. ASSUME \/ \E w \in Workers : Kill(w) \/ Overrun(w) \/ \E p \in Pairs : Take(w, p)
             \/ \E p \in Pairs : LockExpires(p) \/ Countdown(p)
      PROVE  IInv'
  BY <1>3, QueueInvariant
<1>4. ASSUME Start \/ Abort \/ Delete \/ \E p \in Pairs : Click(p) \/ Retry(p)
      PROVE  IInv'
  BY <1>4, OperatorInvariant
<1> QED BY <1>1, <1>2, <1>3, <1>4 DEF Next

(* The types hold in every state of the dispatch.                            *)
LEMMA Invariant == Spec => []IInv
BY InitInvariant, StepInvariant, PTL DEF Spec

(* Every variable keeps to the values the code gives it.                   *)
THEOREM DispatchTypeCorrect == Spec => []TypeOK
<1>1. IInv => TypeOK BY DEF IInv
<1> QED BY <1>1, Invariant, PTL

-------------------------------------------------------------------------------
(* One drive per pair.                                                      *)

(* A step of a worker that holds its lock, by what it does to both.         *)
LEMMA LockStep ==
  ASSUME IInv, IInv', LockInv, MaxOverruns = 0, [Next]_vars
  PROVE  LockInv'
<1> USE DEF At, Busy
<1>1. ASSUME NEW w \in Workers, Busy(w), lock' = lock, work'[w].pair = work[w].pair,
             work'[w].at # "idle", \A v \in Workers : v # w => work'[v] = work[v]
      PROVE  LockInv'
  BY <1>1 DEF LockInv
<1>2. ASSUME NEW w \in Workers,
             Enter(w) \/ LosesJob(w) \/ Heal(w) \/ Mark(w) \/ Commit(w)
      PROVE  LockInv'
  <2>1. /\ Busy(w) /\ lock' = lock
        /\ \/ \E s \in Steps \ {"idle"} : Goto(w, s)
           \/ work' = [work EXCEPT ![w] = [at |-> "commit", pair |-> @.pair,
                                           verdict |-> Verdict]]
    BY <1>2 DEF Enter, LosesJob, Heal, Mark, Commit, Steps
  <2>2. CASE \E s \in Steps \ {"idle"} : Goto(w, s)
    BY <1>1, <2>1, <2>2, GotoType
  <2>3. CASE work' = [work EXCEPT ![w] = [at |-> "commit", pair |-> @.pair,
                                          verdict |-> Verdict]]
    BY <1>1, <2>1, <2>3 DEF IInv, TypeOK
  <2> QED BY <2>1, <2>2, <2>3
<1>3. ASSUME NEW w \in Workers, NEW p \in Pairs, Drive(w, p) PROVE LockInv'
  <2>1. /\ Busy(w) /\ lock' = lock /\ "tail" \in Steps
        /\ Goto(w, "tail") \/ UNCHANGED work
    BY <1>3 DEF Drive, GateParks, GatePasses, WaitParks, WaitOver, Fails, Finishes,
                Driving, Steps
  <2> QED BY <1>1, <2>1, GotoType
<1>4. ASSUME NEW w \in Workers, Release(w) PROVE LockInv'
  <2>1. /\ lock' = [p \in Pairs |-> IF lock[p] = w THEN Nobody ELSE lock[p]]
        /\ work' = [work EXCEPT ![w] = Idle]
    BY <1>4 DEF Release
  <2>2. /\ \A v \in Workers : v # w => work'[v] = work[v]
        /\ \A p \in Pairs : lock'[p] = IF lock[p] = w THEN Nobody ELSE lock[p]
        /\ ~Busy(w)'
    BY <2>1 DEF IInv, TypeOK, Idle, Busy, At
  <2>3. ASSUME NEW v \in Workers, Busy(v)' PROVE lock'[work'[v].pair] = v
    <3>1. v # w /\ work'[v] = work[v] /\ Busy(v)
      BY <2>2, <2>3 DEF Busy, At
    <3>2. work[v].pair \in Pairs /\ lock[work[v].pair] = v
      BY <3>1 DEF LockInv, IInv, WorkInv
    <3> QED BY <2>2, <3>1, <3>2
  <2>4. ASSUME NEW p \in Pairs, NEW v \in Workers, lock'[p] = v
        PROVE  Busy(v)' /\ work'[v].pair = p
    <3>1. lock[p] = v /\ v # w
      BY <2>2, <2>4, Nobodies
    <3>2. Busy(v) /\ work[v].pair = p
      BY <3>1 DEF LockInv
    <3> QED BY <2>2, <3>1, <3>2 DEF Busy, At
  <2> QED BY <2>3, <2>4 DEF LockInv
<1>5. ASSUME NEW w \in Workers, Kill(w) PROVE LockInv'
  <2>1. /\ Busy(w) /\ work' = [work EXCEPT ![w] = Idle]
        /\ lock' = [lock EXCEPT ![work[w].pair] = Lost]
    BY <1>5 DEF Kill
  <2>2. /\ work[w].pair \in Pairs /\ lock[work[w].pair] = w
        /\ \A v \in Workers : v # w => work'[v] = work[v]
        /\ lock'[work[w].pair] = Lost
        /\ \A p \in Pairs : p # work[w].pair => lock'[p] = lock[p]
        /\ ~Busy(w)'
    BY <2>1 DEF LockInv, IInv, TypeOK, WorkInv, Idle, Busy, At
  <2>3. ASSUME NEW v \in Workers, Busy(v)' PROVE lock'[work'[v].pair] = v
    <3>1. v # w /\ work'[v] = work[v] /\ Busy(v)
      BY <2>2, <2>3 DEF Busy, At
    <3>2. work[v].pair \in Pairs /\ lock[work[v].pair] = v
      BY <3>1 DEF LockInv, IInv, WorkInv
    <3> QED BY <2>2, <3>1, <3>2
  <2>4. ASSUME NEW p \in Pairs, NEW v \in Workers, lock'[p] = v
        PROVE  Busy(v)' /\ work'[v].pair = p
    <3>1. p # work[w].pair /\ lock[p] = v
      BY <2>2, <2>4, Nobodies
    <3>2. Busy(v) /\ work[v].pair = p
      BY <3>1 DEF LockInv
    <3>3. v # w BY <3>1, <3>2
    <3> QED BY <2>2, <3>2, <3>3 DEF Busy, At
  <2> QED BY <2>3, <2>4 DEF LockInv
<1>6. ASSUME NEW w \in Workers, NEW p \in Pairs, Take(w, p) PROVE LockInv'
  <2>1. CASE lock[p] = Nobody
    <3>1. /\ work[w].at = "idle" /\ lock' = [lock EXCEPT ![p] = w]
          /\ work' = [work EXCEPT ![w] = [at |-> "entry", pair |-> p, verdict |-> "COMPLETED"]]
      BY <1>6, <2>1 DEF Take
    <3>2. /\ work'[w].at = "entry" /\ work'[w].pair = p /\ lock'[p] = w
          /\ \A v \in Workers : v # w => work'[v] = work[v]
          /\ \A r \in Pairs : r # p => lock'[r] = lock[r]
      BY <3>1 DEF IInv, TypeOK
    <3>3. ASSUME NEW v \in Workers, v # w, Busy(v)
          PROVE  lock[work[v].pair] = v /\ work[v].pair \in Pairs \ {p}
      BY <2>1, <3>3, Nobodies DEF LockInv, IInv, WorkInv
    <3>4. ASSUME NEW r \in Pairs, NEW v \in Workers, r # p, lock[r] = v
          PROVE  v # w /\ Busy(v) /\ work[v].pair = r
      BY <3>1, <3>4 DEF LockInv
    <3> QED BY <3>2, <3>3, <3>4 DEF LockInv
  <2>2. CASE lock[p] # Nobody
    BY <1>6, <2>2 DEF Take, LockInv
  <2> QED BY <2>1, <2>2
<1>7. ASSUME NEW w \in Workers, Overrun(w) PROVE LockInv'
  BY <1>7 DEF Overrun, IInv, TypeOK
<1>8. ASSUME NEW p \in Pairs, LockExpires(p) PROVE LockInv'
  <2>1. lock[p] = Lost /\ lock' = [lock EXCEPT ![p] = Nobody] /\ work' = work
    BY <1>8 DEF LockExpires
  <2>2. lock'[p] = Nobody /\ \A r \in Pairs : r # p => lock'[r] = lock[r]
    BY <2>1 DEF IInv, TypeOK
  <2>3. \A w \in Workers : Busy(w) => work[w].pair \in Pairs \ {p}
    BY <2>1, Nobodies DEF LockInv, IInv, WorkInv
  <2> QED BY <2>1, <2>2, <2>3, Nobodies DEF LockInv
<1>9. CASE UNCHANGED <<lock, work>>
  BY <1>9 DEF LockInv
<1>10. ASSUME \/ UNCHANGED vars
              \/ Start \/ Abort \/ Delete
              \/ \E p \in Pairs : Click(p) \/ Retry(p) \/ Countdown(p)
       PROVE  UNCHANGED <<lock, work>>
  BY <1>10 DEF vars, Start, Abort, Delete, Click, Retry, Countdown
<1> QED
  BY <1>2, <1>3, <1>4, <1>5, <1>6, <1>7, <1>8, <1>9, <1>10 DEF Next, WorkerStep

(* The lock of a pair is held by the worker that drives it, if no drive     *)
(* outlives its lock.                                                       *)
LEMMA LockInvariant ==
  ASSUME MaxOverruns = 0
  PROVE  Spec => []LockInv
<1>1. Init => LockInv
  BY Nobodies DEF Init, LockInv, Busy, At, Idle
<1>2. IInv /\ IInv' /\ LockInv /\ [Next]_vars => LockInv'
  BY LockStep
<1> QED BY <1>1, <1>2, Invariant, PTL DEF Spec

(* No two drives of a pair run at once, if none outlives its lock.          *)
THEOREM OneDriverAtATime ==
  ASSUME MaxOverruns = 0
  PROVE  Spec => []OneDriver
<1>1. LockInv => OneDriver BY DEF LockInv, OneDriver, Busy
<1> QED BY <1>1, LockInvariant, PTL

-------------------------------------------------------------------------------
(* No wake-up is lost.                                                      *)

(* A step that takes nothing away from a pair.                              *)
LEMMA WakeKept ==
  ASSUME IInv, IInv', NEW p \in Pairs, Wake(p), Wanted(p)' => Wanted(p),
         lock'[p] = Lost => lock[p] = Lost, later'[p] >= later[p], ready'[p] >= ready[p],
         Leaving(p)' => Leaving(p), Driven(p) => Driven(p)'
  PROVE  Wake(p)'
<1>1. later[p] \in Nat /\ later'[p] \in Nat /\ ready[p] \in Nat /\ ready'[p] \in Nat
  BY Bounds DEF IInv, TypeOK
<1> QED BY <1>1 DEF Wake

(* Who is on the way out is not driving, and the other way round.           *)
LEMMA DriverAlone ==
  ASSUME IInv, LockInv, NEW w \in Workers, NEW p \in Pairs, Driving(w, p)
  PROVE  ~Leaving(p) /\ lock[p] = w /\ lock[p] # Lost /\ Driven(p)
BY Nobodies DEF LockInv, Driving, Leaving, Driven, Busy, At, IInv, WorkInv

(* A worker moves on and keeps its pair.                                    *)
LEMMA WakeMoved ==
  ASSUME IInv, IInv', WakeInv, NEW w \in Workers,
         work'[w].pair = work[w].pair, \A v \in Workers : v # w => work'[v] = work[v],
         work'[w].at \in {"tail", "mark", "commit", "release"} =>
           work[w].at \in {"tail", "mark", "commit", "release"},
         work[w].at \in {"entry", "drive"} => work'[w].at \in {"entry", "drive"},
         UNCHANGED <<phase, later, lock, ready, job, reopened>>
  PROVE  WakeInv'
<1> SUFFICES ASSUME NEW p \in Pairs PROVE Wake(p)' BY DEF WakeInv
<1>1. (Leaving(p)' => Leaving(p)) /\ (Driven(p) => Driven(p)')
  BY DEF Leaving, Driven
<1>2. ready[p] \in Nat /\ later[p] \in Nat BY Bounds DEF IInv, TypeOK
<1>3. Wanted(p)' => Wanted(p) BY DEF Wanted
<1> QED BY <1>1, <1>2, <1>3, WakeKept DEF WakeInv

(* What a worker does on its own.                                           *)
LEMMA WorkerWake ==
  ASSUME IInv, IInv', LockInv, WakeInv, NEW w \in Workers,
         Enter(w) \/ LosesJob(w) \/ Heal(w) \/ Mark(w) \/ Commit(w) \/ Release(w)
  PROVE  WakeInv'
<1> USE DEF At
<1>1. CASE job' \notin {"PENDING", "RUNNING"}
  BY <1>1 DEF WakeInv, Wake, Wanted
<1>2. CASE job' \in {"PENDING", "RUNNING"} /\ Enter(w)
  <2>1. Goto(w, "drive") /\ "drive" \in Steps
    BY <1>2 DEF Enter, Ended, Verdicts, Steps
  <2>2. UNCHANGED <<phase, later, lock, ready, job, reopened>> /\ At(w, "entry")
    BY <1>2 DEF Enter, pairVars, counts
  <2> QED BY <2>1, <2>2, GotoType, WakeMoved
<1>3. CASE job' \in {"PENDING", "RUNNING"} /\ LosesJob(w)
  BY <1>3 DEF LosesJob
<1>4. CASE Heal(w)
  <2>1. Goto(w, "mark") /\ "mark" \in Steps BY <1>4 DEF Heal, Steps
  <2>2. UNCHANGED <<phase, later, lock, ready, job, reopened>> /\ At(w, "tail")
    BY <1>4 DEF Heal, pairVars, counts
  <2> QED BY <2>1, <2>2, GotoType, WakeMoved
<1>5. CASE Mark(w)
  <2>1. \/ Goto(w, "release")
        \/ work' = [work EXCEPT ![w] = [at |-> "commit", pair |-> @.pair, verdict |-> Verdict]]
    BY <1>5 DEF Mark
  <2>2. UNCHANGED <<phase, later, lock, ready, job, reopened>> /\ At(w, "mark")
    BY <1>5 DEF Mark, pairVars, counts
  <2>3. CASE Goto(w, "release")
    BY <2>2, <2>3, GotoType, WakeMoved DEF Steps
  <2>4. CASE work' = [work EXCEPT ![w] = [at |-> "commit", pair |-> @.pair,
                                          verdict |-> Verdict]]
    <3>1. /\ work'[w].pair = work[w].pair /\ work'[w].at = "commit"
          /\ \A v \in Workers : v # w => work'[v] = work[v]
      BY <2>4 DEF IInv, TypeOK
    <3> QED BY <2>2, <3>1, WakeMoved
  <2> QED BY <2>1, <2>3, <2>4
<1>6. CASE job' \in {"PENDING", "RUNNING"} /\ Commit(w)
  <2>1. work[w].verdict \in Verdicts BY DEF IInv, TypeOK
  <2> QED BY <1>6, <2>1 DEF Commit, Verdicts
<1>7. CASE Release(w)
  <2> SUFFICES ASSUME NEW p \in Pairs PROVE Wake(p)' BY DEF WakeInv
  <2>1. /\ work[w].at = "release" /\ work' = [work EXCEPT ![w] = Idle]
        /\ lock' = [r \in Pairs |-> IF lock[r] = w THEN Nobody ELSE lock[r]]
        /\ UNCHANGED <<phase, later, ready, job, reopened>>
    BY <1>7 DEF Release, pairVars, counts
  <2>2. work'[w].at = "idle" /\ \A v \in Workers : v # w => work'[v] = work[v]
    BY <2>1 DEF IInv, TypeOK, Idle
  <2>3. (Leaving(p)' => Leaving(p)) /\ (Driven(p) => Driven(p)')
    BY <2>1, <2>2 DEF Leaving, Driven
  <2>4. lock'[p] = Lost => lock[p] = Lost BY <2>1, Nobodies
  <2>5. later'[p] >= later[p] /\ ready'[p] >= ready[p]
    <3>1. later[p] \in 0..MaxMsgs /\ ready[p] \in 0..MaxMsgs BY DEF IInv, TypeOK
    <3> QED BY <2>1, <3>1, Bounds
  <2>6. Wanted(p)' => Wanted(p) BY <2>1 DEF Wanted
  <2> QED BY <2>3, <2>4, <2>5, <2>6, WakeKept DEF WakeInv
<1> QED BY <1>1, <1>2, <1>3, <1>4, <1>5, <1>6, <1>7

(* What a drive does to its pair.                                           *)
LEMMA DriveWake ==
  ASSUME IInv, IInv', LockInv, WakeInv, NEW w \in Workers, NEW p \in Pairs, Drive(w, p)
  PROVE  WakeInv'
<1>1. /\ Driving(w, p) /\ UNCHANGED <<job, ready, lock, reopened>>
      /\ Goto(w, "tail") \/ UNCHANGED work
      /\ later' = later \/ later' = Posted(later, {p})
  BY DEF Drive, GateParks, GatePasses, WaitParks, WaitOver, Fails, Finishes, counts
<1>2. ASSUME NEW r \in Pairs PROVE later'[r] >= later[r] /\ ready'[r] >= ready[r]
  <2>1. later \in [Pairs -> 0..MaxMsgs] /\ ready \in [Pairs -> 0..MaxMsgs]
    BY DEF IInv, TypeOK
  <2>2. later[r] >= later[r] /\ ready[r] >= ready[r] BY <2>1, Bounds
  <2> QED BY <1>1, <2>1, <2>2, PostedType
<1>3. ASSUME NEW r \in Pairs, r # p PROVE Wake(r)'
  <2>1. phase'[r] = phase[r]
    BY <1>3 DEF Drive, GateParks, GatePasses, WaitParks, WaitOver, Fails, Finishes,
                IInv, TypeOK
  <2>2. /\ \A v \in Workers : work'[v].pair = work[v].pair
        /\ \A v \in Workers : work[v].pair = r => work'[v].at = work[v].at
    BY <1>1, <1>3, GotoType DEF Driving, Steps
  <2>3. (Leaving(r)' => Leaving(r)) /\ (Driven(r) => Driven(r)')
    BY <2>2 DEF Leaving, Driven
  <2>4. Wanted(r)' => Wanted(r) BY <1>1, <2>1 DEF Wanted
  <2> QED BY <1>1, <1>2, <2>3, <2>4, WakeKept DEF WakeInv
<1>4. CASE WaitParks(w, p)
  <2>1. later'[p] > 0 BY <1>4, PostedType DEF WaitParks, IInv, TypeOK
  <2> QED BY <1>3, <2>1 DEF WakeInv, Wake
<1>5. CASE GateParks(w, p) \/ Fails(w, p) \/ Finishes(w, p)
  <2>1. phase'[p] # "IN_FLIGHT"
    BY <1>5 DEF GateParks, Fails, Finishes, IInv, TypeOK
  <2> QED BY <1>3, <2>1 DEF WakeInv, Wake, Wanted
<1>6. CASE GatePasses(w, p) \/ WaitOver(w, p)
  <2>1. work' = work BY <1>6 DEF GatePasses, WaitOver
  <2>2. ~Leaving(p)' /\ lock'[p] # Lost /\ Driven(p)'
    BY <1>1, <2>1, DriverAlone DEF Leaving, Driven
  <2> QED BY <1>3, <2>2 DEF WakeInv, Wake
<1> QED BY <1>4, <1>5, <1>6 DEF Drive

(* A message is taken.                                                      *)
LEMMA TakeWake ==
  ASSUME IInv, IInv', LockInv, WakeInv, NEW w \in Workers, NEW p \in Pairs, Take(w, p)
  PROVE  WakeInv'
<1> USE DEF At
<1>1. /\ work[w].at = "idle" /\ UNCHANGED <<job, phase, later, reopened>>
      /\ ready' = Taken(ready, p) /\ ready[p] > 0
  BY DEF Take, pairVars, counts
<1>2. /\ \A r \in Pairs : r # p => ready'[r] = ready[r]
      /\ \A r \in Pairs : ready[r] \in Nat /\ later[r] \in Nat
  <2>1. ready \in [Pairs -> 0..MaxMsgs] /\ later \in [Pairs -> 0..MaxMsgs]
    BY DEF IInv, TypeOK
  <2>2. \A r \in Pairs : ready[r] \in Nat /\ later[r] \in Nat BY <2>1, Bounds
  <2>3. \A r \in Pairs : r # p => ready'[r] = ready[r] BY <1>1, <2>1, TakenType
  <2> QED BY <2>2, <2>3
<1>3. CASE lock[p] # Nobody
  <2>1. UNCHANGED <<lock, work>> BY <1>3 DEF Take
  <2>2. ASSUME NEW r \in Pairs, r # p PROVE Wake(r)'
    <3>1. (Leaving(r)' => Leaving(r)) /\ (Driven(r) => Driven(r)')
      BY <2>1 DEF Leaving, Driven
    <3>2. Wanted(r)' => Wanted(r) BY <1>1 DEF Wanted
    <3> QED BY <1>1, <1>2, <2>1, <2>2, <3>1, <3>2, WakeKept DEF WakeInv
  <2>3. Wanted(p) => later[p] > 0 \/ Driven(p)
    <3>1. CASE lock[p] = Lost BY <3>1 DEF WakeInv, Wake
    <3>2. ASSUME NEW v \in Workers, lock[p] = v
          PROVE  Wanted(p) => later[p] > 0 \/ Driven(p)
      <4>1. work[v].at # "idle" /\ work[v].pair = p /\ work[v].at \in Steps
        BY <3>2 DEF LockInv, Busy, IInv, TypeOK
      <4>2. Leaving(p) \/ Driven(p) BY <4>1 DEF Steps, Leaving, Driven
      <4> QED BY <4>2 DEF WakeInv, Wake
    <3> QED BY <1>3, <3>1, <3>2 DEF IInv, TypeOK
  <2>4. Wake(p)'
    BY <1>1, <2>1, <2>3 DEF Wake, WakeInv, Wanted, Leaving, Driven
  <2> QED BY <2>2, <2>4 DEF WakeInv
<1>4. CASE lock[p] = Nobody
  <2>1. /\ lock' = [lock EXCEPT ![p] = w]
        /\ work' = [work EXCEPT ![w] = [at |-> "entry", pair |-> p, verdict |-> "COMPLETED"]]
    BY <1>4 DEF Take
  <2>2. /\ work'[w].at = "entry" /\ work'[w].pair = p /\ lock'[p] = w
        /\ \A v \in Workers : v # w => work'[v] = work[v]
        /\ \A r \in Pairs : r # p => lock'[r] = lock[r]
    BY <2>1 DEF IInv, TypeOK
  <2>3. ASSUME NEW r \in Pairs, r # p PROVE Wake(r)'
    <3>1. (Leaving(r)' => Leaving(r)) /\ (Driven(r) => Driven(r)')
      BY <1>1, <2>2, <2>3 DEF Leaving, Driven
    <3>2. Wanted(r)' => Wanted(r) BY <1>1 DEF Wanted
    <3> QED BY <1>1, <1>2, <2>2, <2>3, <3>1, <3>2, WakeKept DEF WakeInv
  <2>4. ~Leaving(p)
    BY <1>4, Nobodies DEF Leaving, LockInv, Busy
  <2>5. ~Leaving(p)' /\ lock'[p] # Lost /\ Driven(p)'
    BY <2>2, <2>4, Nobodies DEF Leaving, Driven
  <2> QED BY <2>3, <2>5 DEF WakeInv, Wake
<1> QED BY <1>3, <1>4

(* A worker is lost: its message comes back after the lock.                 *)
LEMMA KillWake ==
  ASSUME IInv, IInv', WakeInv, Redelivery = "later", NEW w \in Workers, Kill(w)
  PROVE  WakeInv'
<1>0. PICK p \in Pairs : p = work[w].pair BY DEF Kill, IInv, WorkInv, Busy
<1>1. /\ lock' = [lock EXCEPT ![p] = Lost] /\ later' = Posted(later, {p})
      /\ work' = [work EXCEPT ![w] = Idle]
      /\ UNCHANGED <<job, phase, ready, reopened>>
  BY <1>0 DEF Kill, pairVars
<1>3. later'[p] > 0 BY <1>1, <1>0, PostedType DEF IInv, TypeOK
<1>4. Wake(p)' BY <1>3 DEF Wake
<1>5. ASSUME NEW r \in Pairs, r # p PROVE Wake(r)'
  <2>1. lock'[r] = lock[r] BY <1>1, <1>5 DEF IInv, TypeOK
  <2>2. /\ work'[w].at = "idle" /\ \A v \in Workers : v # w => work'[v] = work[v]
    BY <1>1 DEF IInv, TypeOK, Idle
  <2>3. (Leaving(r)' => Leaving(r)) /\ (Driven(r) => Driven(r)')
    BY <1>0, <1>5, <2>2 DEF Leaving, Driven
  <2>4. later'[r] >= later[r] BY <1>1, PostedType DEF IInv, TypeOK
  <2>5. ready'[r] >= ready[r]
    <3>1. ready[r] \in 0..MaxMsgs BY DEF IInv, TypeOK
    <3> QED BY <1>1, <3>1, Bounds
  <2>6. Wanted(r)' => Wanted(r) BY <1>1 DEF Wanted
  <2> QED BY <2>1, <2>3, <2>4, <2>5, <2>6, WakeKept DEF WakeInv
<1> QED BY <1>4, <1>5 DEF WakeInv

(* A countdown ends: what it carried is ready now.                          *)
LEMMA CountdownWake ==
  ASSUME IInv, IInv', WakeInv, NEW p \in Pairs, Countdown(p)
  PROVE  WakeInv'
<1>1. /\ later[p] > 0 /\ later' = Taken(later, p) /\ ready' = Posted(ready, {p})
      /\ later[p] = 1 => ~Leaving(p) /\ lock[p] # Lost
      /\ UNCHANGED <<job, phase, lock, work, reopened>>
  BY DEF Countdown, pairVars, counts
<1>2. ready \in [Pairs -> 0..MaxMsgs] /\ later \in [Pairs -> 0..MaxMsgs]
  BY DEF IInv, TypeOK
<1>3. ready'[p] > 0 BY <1>1, <1>2, PostedType
<1>4. later[p] = 1 \/ later'[p] > 0
  <2>1. later'[p] = later[p] - 1 BY <1>1, <1>2, TakenType
  <2>2. later[p] \in Nat BY <1>2, Bounds
  <2> QED BY <1>1, <2>1, <2>2
<1>5. Wake(p)' BY <1>1, <1>3, <1>4 DEF Wake, Leaving
<1>6. ASSUME NEW r \in Pairs, r # p PROVE Wake(r)'
  <2>1. later'[r] = later[r] BY <1>1, <1>2, <1>6, TakenType
  <2>2. ready'[r] >= ready[r] BY <1>1, <1>2, PostedType
  <2>3. later[r] \in Nat BY <1>2, Bounds
  <2>4. (Leaving(r)' => Leaving(r)) /\ (Driven(r) => Driven(r)')
    BY <1>1 DEF Leaving, Driven
  <2>5. Wanted(r)' => Wanted(r) BY <1>1 DEF Wanted
  <2> QED BY <1>1, <2>1, <2>2, <2>3, <2>4, <2>5, WakeKept DEF WakeInv
<1> QED BY <1>5, <1>6 DEF WakeInv

(* A lock expires, or the operator acts.                                    *)
LEMMA QuietWake ==
  ASSUME IInv, IInv', WakeInv,
         \/ UNCHANGED vars
         \/ Start \/ Abort \/ Delete
         \/ \E p \in Pairs : LockExpires(p) \/ Click(p) \/ Retry(p)
  PROVE  WakeInv'
<1> SUFFICES ASSUME NEW r \in Pairs, Wanted(r)' PROVE Wake(r)'
  BY DEF WakeInv, Wake
<1>1. UNCHANGED <<later, work>>
  BY DEF vars, Start, Abort, Delete, LockExpires, Click, Retry
<1>2. (Leaving(r)' => Leaving(r)) /\ (Driven(r) => Driven(r)')
  BY <1>1 DEF Leaving, Driven
<1>3. ready'[r] >= ready[r] /\ later'[r] >= later[r]
  <2>1. ready' = ready \/ \E P \in SUBSET Pairs : ready' = Posted(ready, P)
    BY DEF vars, Start, Abort, Delete, LockExpires, Click, Retry
  <2>2. ready \in [Pairs -> 0..MaxMsgs] /\ later \in [Pairs -> 0..MaxMsgs]
    BY DEF IInv, TypeOK
  <2>3. ready[r] \in Nat /\ later[r] \in Nat BY <2>2, Bounds
  <2> QED BY <1>1, <2>1, <2>2, <2>3, PostedType
<1>4. lock'[r] = Lost => lock[r] = Lost
  BY Nobodies DEF vars, Start, Abort, Delete, LockExpires, Click, Retry, IInv, TypeOK
<1>5. Wanted(r)
  <2>1. phase'[r] = "IN_FLIGHT" => phase[r] = "IN_FLIGHT"
    BY DEF vars, Start, Abort, Delete, LockExpires, Click, Retry, IInv, TypeOK, pairVars
  <2>2. job' \in {"PENDING", "RUNNING"} /\ ~reopened' =>
          job \in {"PENDING", "RUNNING"} /\ ~reopened
    BY DEF vars, Start, Abort, Delete, LockExpires, Click, Retry, IInv, TypeOK, counts,
           JobStates, Ended
  <2> QED BY <2>1, <2>2 DEF Wanted
<1> QED BY <1>2, <1>3, <1>4, <1>5, WakeKept DEF WakeInv

(* What is in flight is carried, if locks outlive drives and lost messages  *)
(* outlive locks.                                                           *)
LEMMA WakeInvariant ==
  ASSUME MaxOverruns = 0, Redelivery = "later"
  PROVE  Spec => []WakeInv
<1>1. Init => WakeInv
  BY DEF Init, WakeInv, Wake, Wanted
<1>2. IInv /\ IInv' /\ LockInv /\ WakeInv /\ [Next]_vars => WakeInv'
  <2> SUFFICES ASSUME IInv, IInv', LockInv, WakeInv, [Next]_vars PROVE WakeInv'
    OBVIOUS
  <2>1. ASSUME NEW w \in Workers, WorkerStep(w) PROVE WakeInv'
    BY <2>1, WorkerWake, DriveWake DEF WorkerStep
  <2>2. ASSUME NEW w \in Workers, Kill(w) PROVE WakeInv' BY <2>2, KillWake
  <2>3. ASSUME NEW w \in Workers, NEW p \in Pairs, Take(w, p) PROVE WakeInv'
    BY <2>3, TakeWake
  <2>4. ASSUME NEW w \in Workers, Overrun(w) PROVE WakeInv'
    BY <2>4 DEF Overrun, IInv, TypeOK
  <2>5. ASSUME NEW p \in Pairs, Countdown(p) PROVE WakeInv' BY <2>5, CountdownWake
  <2>6. ASSUME \/ UNCHANGED vars
               \/ Start \/ Abort \/ Delete
               \/ \E p \in Pairs : LockExpires(p) \/ Click(p) \/ Retry(p)
        PROVE  WakeInv'
    BY <2>6, QuietWake
  <2> QED BY <2>1, <2>2, <2>3, <2>4, <2>5, <2>6 DEF Next
<1> QED BY <1>1, <1>2, Invariant, LockInvariant, PTL DEF Spec

(* No wake-up is lost: a pair in flight in a running job is carried by a    *)
(* message or a drive (_await_or_park), if no drive outlives its lock, the  *)
(* messages of lost workers come back after theirs, and the job was not     *)
(* opened again.                                                            *)
THEOREM NoWakeUpLost ==
  ASSUME MaxOverruns = 0, Redelivery = "later"
  PROVE  Spec => []InFlightCarried
<1>1. IInv /\ WakeInv => InFlightCarried
  BY DEF WakeInv, Wake, Wanted, Driven, InFlightCarried, Carried
<1> QED BY <1>1, Invariant, WakeInvariant, PTL

-------------------------------------------------------------------------------
(* A completed job has no pair that is not done.                            *)

(* A drive leaves a pair done only at the end of its script, and once done  *)
(* always done.                                                             *)
LEMMA DoneStep ==
  ASSUME IInv, ScriptOver, [Next]_vars
  PROVE  ScriptOver' /\ (AllDone => AllDone')
<1>1. CASE UNCHANGED <<phase, stage>>
  BY <1>1 DEF ScriptOver, AllDone
<1>2. ASSUME NEW w \in Workers, NEW p \in Pairs, Drive(w, p)
      PROVE  ScriptOver' /\ (AllDone => AllDone')
  <2>1. CASE stage[p] \in DOMAIN Script
    <3>1. /\ phase[p] # "DONE" /\ phase'[p] # "DONE"
          /\ \A r \in Pairs : r # p => phase'[r] = phase[r] /\ stage'[r] = stage[r]
      BY <1>2, <2>1
      DEF ScriptOver, Drive, GateParks, GatePasses, WaitParks, WaitOver, Fails, Finishes,
          IInv, TypeOK
    <3> QED BY <3>1 DEF ScriptOver, AllDone
  <2>2. CASE stage[p] \notin DOMAIN Script
    <3>1. phase' = [phase EXCEPT ![p] = "DONE"] /\ stage' = stage
      BY <1>2, <2>2
      DEF Drive, GateParks, GatePasses, WaitParks, WaitOver, Fails, Finishes, AtStage
    <3> QED BY <2>2, <3>1 DEF ScriptOver, AllDone, IInv, TypeOK
  <2> QED BY <2>1, <2>2
<1>3. ASSUME NEW p \in Pairs, Retry(p)
      PROVE  ScriptOver' /\ (AllDone => AllDone')
  <2>1. phase[p] # "DONE" /\ phase' = [phase EXCEPT ![p] = "PENDING"] /\ stage' = stage
    BY <1>3 DEF Retry
  <2> QED BY <2>1 DEF ScriptOver, AllDone, IInv, TypeOK
<1>4. ASSUME NEW w \in Workers,
             \/ Enter(w) \/ LosesJob(w) \/ Heal(w) \/ Mark(w) \/ Commit(w) \/ Release(w)
             \/ Kill(w) \/ Overrun(w) \/ \E p \in Pairs : Take(w, p)
      PROVE  UNCHANGED <<phase, stage>>
  BY <1>4 DEF Enter, LosesJob, Heal, Mark, Commit, Release, Kill, Overrun, Take, pairVars
<1>5. ASSUME \/ UNCHANGED vars \/ Start \/ Abort \/ Delete
             \/ \E p \in Pairs : LockExpires(p) \/ Countdown(p) \/ Click(p)
      PROVE  UNCHANGED <<phase, stage>>
  BY <1>5 DEF vars, Start, Abort, Delete, LockExpires, Countdown, Click, pairVars
<1> QED BY <1>1, <1>2, <1>3, <1>4, <1>5 DEF Next, WorkerStep

(* A verdict is worked out from the pairs, and read back as it was.         *)
LEMMA VerdictStep ==
  ASSUME IInv, DoneInv, [Next]_vars
  PROVE  VerdictTrue' /\ CompletedMeansDone'
<1> USE DEF At
<1>0. AllDone => AllDone' BY DoneStep DEF DoneInv
<1>1. ASSUME NEW w \in Workers,
             \/ Enter(w) \/ LosesJob(w) \/ Heal(w) \/ Release(w) \/ Kill(w) \/ Overrun(w)
             \/ \E p \in Pairs : Take(w, p) \/ Drive(w, p)
      PROVE  /\ job' = job
             /\ \/ work' = work \/ work' = [work EXCEPT ![w] = Idle]
                \/ \E s \in Steps \ {"commit"} : Goto(w, s)
                \/ \E p \in Pairs : work' = [work EXCEPT ![w] =
                     [at |-> "entry", pair |-> p, verdict |-> "COMPLETED"]]
  BY <1>1
  DEF Enter, LosesJob, Heal, Release, Kill, Overrun, Take, Drive, GateParks, GatePasses,
      WaitParks, WaitOver, Fails, Finishes, Steps
<1>2. ASSUME NEW w \in Workers, job' = job,
             \/ work' = work \/ work' = [work EXCEPT ![w] = Idle]
             \/ \E s \in Steps \ {"commit"} : Goto(w, s)
             \/ \E p \in Pairs : work' = [work EXCEPT ![w] =
                  [at |-> "entry", pair |-> p, verdict |-> "COMPLETED"]]
      PROVE  VerdictTrue' /\ CompletedMeansDone'
  <2>1. \A v \in Workers : work'[v].at = "commit" => work'[v] = work[v]
    BY <1>2, GotoType DEF IInv, TypeOK, Idle, Goto
  <2> QED BY <1>0, <1>2, <2>1 DEF DoneInv, VerdictTrue, CompletedMeansDone, AllDone
<1>3. ASSUME NEW w \in Workers, Mark(w) PROVE VerdictTrue' /\ CompletedMeansDone'
  <2>1. /\ UNCHANGED <<job, phase>>
        /\ \/ Goto(w, "release")
           \/ work' = [work EXCEPT ![w] = [at |-> "commit", pair |-> @.pair,
                                           verdict |-> Verdict]]
    BY <1>3 DEF Mark, pairVars
  <2>2. CASE Goto(w, "release")
    BY <1>2, <2>1, <2>2 DEF Steps
  <2>3. CASE work' = [work EXCEPT ![w] = [at |-> "commit", pair |-> @.pair,
                                          verdict |-> Verdict]]
    <3>1. work'[w].verdict = Verdict /\ \A v \in Workers : v # w => work'[v] = work[v]
      BY <2>3 DEF IInv, TypeOK
    <3>2. Verdict = "COMPLETED" => AllDone BY DEF Verdict, AllDone
    <3> QED
      BY <1>0, <2>1, <3>1, <3>2 DEF DoneInv, VerdictTrue, CompletedMeansDone, AllDone
  <2> QED BY <2>1, <2>2, <2>3
<1>4. ASSUME NEW w \in Workers, Commit(w) PROVE VerdictTrue' /\ CompletedMeansDone'
  <2>1. /\ work[w].at = "commit" /\ Goto(w, "release") /\ "release" \in Steps
        /\ job' = IF job = "DELETED" THEN job ELSE work[w].verdict
    BY <1>4 DEF Commit, Steps
  <2>2. \A v \in Workers : work'[v].at = "commit" => work'[v] = work[v]
    BY <2>1, GotoType
  <2> QED
    BY <1>0, <2>1, <2>2 DEF DoneInv, VerdictTrue, CompletedMeansDone, AllDone
<1>5. ASSUME \/ UNCHANGED vars \/ Start \/ Abort \/ Delete
             \/ \E p \in Pairs : LockExpires(p) \/ Countdown(p) \/ Click(p) \/ Retry(p)
      PROVE  VerdictTrue' /\ CompletedMeansDone'
  <2>1. work' = work /\ (job' = "COMPLETED" => job = "COMPLETED")
    BY <1>5 DEF vars, Start, Abort, Delete, LockExpires, Countdown, Click, Retry
  <2> QED BY <1>0, <2>1 DEF DoneInv, VerdictTrue, CompletedMeansDone, AllDone
<1> QED BY <1>1, <1>2, <1>3, <1>4, <1>5 DEF Next, WorkerStep

(* A job is completed only when every pair is (_maybe_mark_job_done),       *)
(* whichever drives close it and whatever is lost, retried or overrun.      *)
THEOREM CompletedIsDone == Spec => []CompletedMeansDone
<1>1. Init => DoneInv
  BY DEF Init, DoneInv, ScriptOver, VerdictTrue, CompletedMeansDone, At, Idle
<1>2. IInv /\ DoneInv /\ [Next]_vars => DoneInv'
  BY DoneStep, VerdictStep DEF DoneInv
<1>3. DoneInv => CompletedMeansDone BY DEF DoneInv
<1> QED BY <1>1, <1>2, <1>3, Invariant, PTL DEF Spec

===============================================================================
