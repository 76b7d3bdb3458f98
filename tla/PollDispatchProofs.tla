-------------------------- MODULE PollDispatchProofs --------------------------
(***************************************************************************)
(* Proofs about PollDispatch: for any number of devices, Panoramas and     *)
(* faults, the cap of a Panorama holds, a leaked slot is accounted for, and *)
(* no device is polled twice for one class while a poll is prompt.         *)
(*                                                                         *)
(* The cap is a statement about polls, the program counts slots.  The      *)
(* inductive invariant IInv ties the two: a token names one poll and one   *)
(* slot, in the same group, so that the polls of a group that still have   *)
(* their slot map one to one into the slots that were counted.  PromptInv  *)
(* adds what the clock knows of a poll: its device was claimed no longer   *)
(* ago than the poll has lived.                                            *)
(***************************************************************************)
EXTENDS PollDispatch, FiniteSetTheorems, WellFoundedInduction, TLAPS

SlotsOf(g) == {s \in slots : s.group = g}
Orphans == {s \in slots : ~\E p \in polls : p.token = s.token}

(* A token is given to one slot and to one poll, of the same group.         *)
TokenInv ==
  /\ \A s, t \in slots : s.token = t.token => s = t
  /\ \A p, q \in polls : p.token = q.token => p = q
  /\ \A s \in slots, p \in polls : s.token = p.token => s.group = Pano[p.dev]

(* No more slots are given than the cap allows.                             *)
SlotCapInv == \A g \in Groups : Cardinality(SlotsOf(g)) <= Cap

OrphanInv == Cardinality(Orphans) <= faults

IInv == /\ TypeOK
        /\ IsFiniteSet(slots) /\ TokenInv
        /\ SlotCapInv /\ OrphanInv

-------------------------------------------------------------------------------
(* Facts about finite sets.                                                 *)

LEMMA NoMore ==
  ASSUME NEW S, IsFiniteSet(S), NEW T, T \subseteq S
  PROVE  IsFiniteSet(T) /\ Cardinality(T) \in Nat /\ Cardinality(S) \in Nat
         /\ Cardinality(T) <= Cardinality(S)
BY FS_Subset, FS_CardinalityType

LEMMA OneMore ==
  ASSUME NEW S, IsFiniteSet(S), NEW x, NEW T, T \subseteq S \cup {x}
  PROVE  IsFiniteSet(T) /\ Cardinality(T) \in Nat /\ Cardinality(S) \in Nat
         /\ Cardinality(T) <= Cardinality(S) + 1
<1>1. IsFiniteSet(S \cup {x}) /\ Cardinality(S \cup {x}) <= Cardinality(S) + 1
      /\ Cardinality(S) \in Nat
  BY FS_AddElement, FS_CardinalityType
<1>2. IsFiniteSet(T) /\ Cardinality(T) \in Nat /\ Cardinality(T) <= Cardinality(S \cup {x})
      /\ Cardinality(S \cup {x}) \in Nat
  BY <1>1, NoMore
<1> QED  BY <1>1, <1>2

LEMMA ImageNoMore ==
  ASSUME NEW S, IsFiniteSet(S), NEW T, NEW f \in [S -> T],
         \A y \in T : \E x \in S : f[x] = y
  PROVE  IsFiniteSet(T) /\ Cardinality(T) \in Nat /\ Cardinality(S) \in Nat
         /\ Cardinality(T) <= Cardinality(S)
<1>1. f \in Surjection(S, T)
  BY DEF Surjection
<1> QED  BY <1>1, FS_Surjection, FS_CardinalityType

(* A set of naturals up to n has a greatest element: n minus the least of   *)
(* the distances.                                                           *)
LEMMA Greatest ==
  ASSUME NEW n \in Nat, NEW S, S \subseteq 0..n, S # {}
  PROVE  \E a \in S : \A b \in S : b <= a
<1> DEFINE D == {x \in Nat : x <= n /\ n - x \in S}
           R == {xy \in Nat \X Nat : xy[1] < xy[2]}
<1>1. IsWellFoundedOn(R, Nat)
  BY NatLessThanWellFounded DEF OpToRel
<1>2. D \subseteq Nat /\ D # {}
  <2>1. PICK a \in S : TRUE
    OBVIOUS
  <2>2. n - a \in D
    BY <2>1
  <2> QED  BY <2>2
<1>3. PICK x \in D : \A y \in D : ~(<<y, x>> \in R)
  <2> HIDE DEF D, R
  <2> QED  BY <1>1, <1>2, WFMin
<1>4. \A b \in S : ~(n - b < x)
  <2> SUFFICES ASSUME NEW b \in S, n - b < x PROVE FALSE
    OBVIOUS
  <2>1. n - b \in D /\ <<n - b, x>> \in R
    OBVIOUS
  <2> QED  BY <1>3, <2>1
<1> QED  BY <1>3, <1>4

-------------------------------------------------------------------------------
(* Types.                                                                   *)

Ages == [Devices -> [Classes -> 0..Horizon]]
SlotType == [token : Tokens, group : Groups, age : 0..StaleAfter]
PollType == [token : Tokens, at : {"queued", "running"}, dev : Devices,
             classes : SUBSET Classes, since : 0..PollLag]

LEMMA OldestType ==
  ASSUME TypeOK, NEW d \in Devices, Due(d) # {}
  PROVE  Oldest(d) \in 0..Horizon
<1> DEFINE S == {age[d][c] : c \in Due(d)}
<1>1. S \subseteq 0..Horizon /\ S # {}
  BY DEF TypeOK, Due
<1>2. \E a \in S : \A b \in S : b <= a
  BY <1>1, Greatest, PollAssumption
<1>3. \E a \in S : \A c \in Due(d) : age[d][c] <= a
  BY <1>2
<1>4. Oldest(d) \in S
  BY <1>3 DEF Oldest
<1> QED  BY <1>1, <1>4

(* The token of a new slot and a new poll is a free one.                    *)
LEMMA NewToken ==
  ASSUME Unused # {}
  PROVE  (CHOOSE t \in Unused : TRUE) \in Unused
OBVIOUS

LEMMA KeptFewer == \A g : Kept(g) \subseteq slots
BY DEF Kept

LEMMA StampedType ==
  ASSUME TypeOK, NEW p \in polls, NEW a \in [Classes -> 0..Horizon]
  PROVE  Stamped(p, a) \in Ages
BY DEF TypeOK, Ages, Stamped

LEMMA TypeInit == Init => TypeOK
<1> SUFFICES ASSUME Init PROVE TypeOK
  OBVIOUS
<1>1. age \in [Devices -> [Classes -> 0..Horizon]] /\ faults \in 0..MaxFaults
  BY PollAssumption DEF Init
<1>2. connected \in [Devices -> BOOLEAN] /\ beat \in BOOLEAN /\ torn \in BOOLEAN
  BY DEF Init
<1>3. pass = [at |-> "idle", due |-> {}, claims |-> {}] /\ slots = {} /\ polls = {}
  BY DEF Init, NoPass
<1> QED  BY <1>1, <1>2, <1>3 DEF TypeOK

LEMMA TypeStep ==
  ASSUME TypeOK, [Next]_vars
  PROVE  TypeOK'
<1> USE PollAssumption
<1>1. CASE BeginPass
  <2>1. pass'.at \in {"idle", "pass"} /\ pass'.claims \subseteq Devices \X Classes
    BY <1>1 DEF BeginPass, Due
  <2>2. pass'.due \subseteq [dev : Devices, classes : SUBSET Classes, oldest : 0..Horizon]
    BY <1>1, OldestType DEF BeginPass, Due
  <2> QED  BY <1>1, <2>1, <2>2 DEF BeginPass, TypeOK
<1>2. CASE CommitPass
  <2>1. age' \in Ages
    BY <1>2 DEF CommitPass, TypeOK, Ages
  <2> QED  BY <1>2, <2>1 DEF CommitPass, TypeOK, NoPass, Ages
<1>3. ASSUME NEW e \in pass.due, Enqueue(e) PROVE TypeOK'
  <2> DEFINE t == CHOOSE t \in Unused : TRUE
  <2>1. t \in Tokens /\ e.dev \in Devices /\ Pano[e.dev] \in Groups /\ e.classes \in SUBSET Classes
    BY <1>3, NewToken DEF Enqueue, Unused, TypeOK, Groups
  <2>2. [token |-> t, group |-> Pano[e.dev], age |-> 0] \in SlotType
    BY <2>1 DEF SlotType
  <2>3. [token |-> t, at |-> "queued", dev |-> e.dev, classes |-> e.classes, since |-> 0]
          \in PollType
    BY <2>1 DEF PollType
  <2>4. slots' \subseteq SlotType /\ polls' \subseteq PollType
    <3> HIDE DEF t
    <3>1. slots' = Kept(Pano[e.dev]) \cup {[token |-> t, group |-> Pano[e.dev], age |-> 0]}
          /\ polls' = polls \cup {[token |-> t, at |-> "queued", dev |-> e.dev,
                                   classes |-> e.classes, since |-> 0]}
      BY <1>3 DEF Enqueue, t
    <3> QED  BY <2>2, <2>3, <3>1, KeptFewer DEF TypeOK, SlotType, PollType
  <2>5. pass'.at \in {"idle", "pass"} /\ pass'.claims \subseteq Devices \X Classes
        /\ pass'.due \subseteq pass.due
    BY <1>3, <2>1 DEF Enqueue, TypeOK
  <2> QED  BY <1>3, <2>4, <2>5 DEF Enqueue, TypeOK, SlotType, PollType
<1>4. ASSUME NEW g \in Groups, AtCap(g) PROVE TypeOK'
  BY <1>4, KeptFewer DEF AtCap, TypeOK
<1>5. CASE PassFails
  <2>1. slots' \subseteq SlotType
    <3>1. CASE UNCHANGED slots
      BY <3>1 DEF TypeOK, SlotType
    <3>2. ASSUME NEW e \in pass.due, Unused # {},
                 slots' = Kept(Pano[e.dev]) \cup
                            {[token |-> CHOOSE t \in Unused : TRUE, group |-> Pano[e.dev], age |-> 0]}
          PROVE  slots' \subseteq SlotType
      <4> DEFINE t == CHOOSE t \in Unused : TRUE
      <4>1. t \in Tokens /\ Pano[e.dev] \in Groups
        BY <3>2, NewToken DEF Unused, TypeOK, Groups
      <4> HIDE DEF t
      <4>2. [token |-> t, group |-> Pano[e.dev], age |-> 0] \in SlotType
        BY <4>1 DEF SlotType
      <4>3. slots' = Kept(Pano[e.dev]) \cup {[token |-> t, group |-> Pano[e.dev], age |-> 0]}
        BY <3>2 DEF t
      <4> QED  BY <4>2, <4>3, KeptFewer DEF TypeOK, SlotType
    <3> QED  BY <1>5, <3>1, <3>2 DEF PassFails
  <2> QED  BY <1>5, <2>1 DEF PassFails, TypeOK, NoPass, SlotType
<1>6. ASSUME NEW p \in polls, Start(p) PROVE TypeOK'
  <2>1. [p EXCEPT !.at = "running", !.since = 0] \in PollType
    <3>1. p \in PollType
      BY DEF TypeOK, PollType
    <3>2. [p EXCEPT !.at = "running"] \in PollType
      BY <3>1 DEF PollType
    <3>3. [[p EXCEPT !.at = "running"] EXCEPT !.since = 0] \in PollType
      BY <3>2, 0 \in 0..PollLag DEF PollType
    <3>4. [p EXCEPT !.at = "running", !.since = 0] = [[p EXCEPT !.at = "running"] EXCEPT !.since = 0]
      OBVIOUS
    <3> QED  BY <3>3, <3>4
  <2> QED  BY <1>6, <2>1 DEF Start, TypeOK, PollType
<1>7. ASSUME NEW p \in polls, Succeeds(p) PROVE TypeOK'
  <2>1. [c \in Classes |-> p.since] \in [Classes -> 0..Horizon]
    BY DEF TypeOK
  <2>2. age' \in Ages
    BY <1>7, <2>1, StampedType DEF Succeeds
  <2> QED  BY <1>7, <2>2 DEF Succeeds, Ended, TypeOK, Ages
<1>8. ASSUME NEW p \in polls, Fails(p) PROVE TypeOK'
  <2>1. ASSUME NEW c \in Classes PROVE AtMost(Rewind(c) + p.since) \in 0..Horizon
    <3>1. Rewind(c) \in Nat /\ p.since \in Nat
      BY DEF TypeOK, Rewind
    <3> QED  BY <3>1 DEF AtMost
  <2>2. [c \in Classes |-> AtMost(Rewind(c) + p.since)] \in [Classes -> 0..Horizon]
    BY <2>1
  <2>3. age' \in Ages
    BY <1>8, <2>2, StampedType DEF Fails
  <2> QED  BY <1>8, <2>3 DEF Fails, Ended, TypeOK, Ages
<1>9. ASSUME NEW p \in polls, Lose(p) PROVE TypeOK'
  BY <1>9 DEF Lose, TypeOK
<1>10. ASSUME NEW d \in Devices, SyncDevice(d) PROVE TypeOK'
  BY <1>10 DEF SyncDevice, TypeOK
<1>11. CASE Tick
  <2>1. age' \in Ages
    BY <1>11 DEF Tick, TypeOK, AtMost, Ages
  <2>2. ASSUME NEW s \in slots
        PROVE  [s EXCEPT !.age = IF @ < StaleAfter THEN @ + 1 ELSE @] \in SlotType
    BY DEF TypeOK, SlotType
  <2>3. ASSUME NEW p \in polls PROVE [p EXCEPT !.since = @ + 1] \in PollType
    <3>1. p \in PollType /\ p.since < PollLag
      BY <1>11 DEF Tick, TypeOK, PollType
    <3> QED  BY <3>1 DEF PollType
  <2>4. slots' \subseteq SlotType
    BY <1>11, <2>2 DEF Tick
  <2>5. polls' \subseteq PollType
    BY <1>11, <2>3 DEF Tick
  <2> QED  BY <1>11, <2>1, <2>4, <2>5 DEF Tick, TypeOK, Ages, SlotType, PollType
<1>12. CASE UNCHANGED vars
  BY <1>12 DEF vars, TypeOK
<1> QED
  BY <1>1, <1>2, <1>3, <1>4, <1>5, <1>6, <1>7, <1>8, <1>9, <1>10, <1>11, <1>12
  DEF Next, Dispatch, Work

-------------------------------------------------------------------------------
(* The slots.                                                               *)

(* Slots that only go, with the polls keeping theirs in name and group.     *)
LEMMA SlotsGo ==
  ASSUME IInv, slots' \subseteq slots,
         \A q \in polls' : \E p \in polls : q.token = p.token /\ q.dev = p.dev,
         \A p, q \in polls' : p.token = q.token => p = q
  PROVE  IsFiniteSet(slots') /\ TokenInv' /\ SlotCapInv'
<1>1. IsFiniteSet(slots')
  BY NoMore DEF IInv
<1>2. TokenInv'
  <2>1. \A s, t \in slots' : s.token = t.token => s = t
    BY DEF IInv, TokenInv
  <2>2. \A s \in slots', q \in polls' : s.token = q.token => s.group = Pano[q.dev]
    <3> SUFFICES ASSUME NEW s \in slots', NEW q \in polls', s.token = q.token
                 PROVE  s.group = Pano[q.dev]
      OBVIOUS
    <3>1. PICK p \in polls : q.token = p.token /\ q.dev = p.dev
      OBVIOUS
    <3> QED  BY <3>1 DEF IInv, TokenInv
  <2> QED  BY <2>1, <2>2 DEF TokenInv
<1>3. ASSUME NEW g \in Groups PROVE Cardinality(SlotsOf(g)') <= Cap
  <2>1. IsFiniteSet(SlotsOf(g)) /\ Cardinality(SlotsOf(g)) \in Nat
    BY NoMore, SlotsOf(g) \subseteq slots DEF IInv, SlotsOf
  <2>2. SlotsOf(g)' \subseteq SlotsOf(g)
    BY DEF SlotsOf
  <2>3. Cardinality(SlotsOf(g)') \in Nat /\ Cardinality(SlotsOf(g)') <= Cardinality(SlotsOf(g))
    BY <2>1, <2>2, NoMore
  <2>4. Cardinality(SlotsOf(g)) <= Cap /\ Cap \in Nat
    BY PollAssumption DEF IInv, SlotCapInv
  <2> QED  BY <2>1, <2>3, <2>4
<1> QED  BY <1>1, <1>2, <1>3 DEF SlotCapInv, Groups

(* A new slot: its group had room, and its token was free.                  *)
LEMMA SlotComes ==
  ASSUME IInv, NEW g \in Groups, RoomIn(g), NEW t \in Unused,
         NEW s0, s0 = [token |-> t, group |-> g, age |-> 0],
         slots' = Kept(g) \cup {s0}
  PROVE  /\ IsFiniteSet(slots')
         /\ \A s, u \in slots' : s.token = u.token => s = u
         /\ SlotCapInv'
<1>1. IsFiniteSet(slots')
  BY KeptFewer, OneMore DEF IInv
<1>2. \A s \in Kept(g) : s \in slots /\ s.token # t
  BY KeptFewer DEF Unused
<1>3. \A s, u \in slots' : s.token = u.token => s = u
  <2>1. s0.token = t
    OBVIOUS
  <2> QED  BY <1>2, <2>1 DEF IInv, TokenInv
<1>4. ASSUME NEW h \in Groups PROVE Cardinality(SlotsOf(h)') <= Cap
  <2>1. IsFiniteSet(SlotsOf(h)) /\ Cardinality(SlotsOf(h)) \in Nat
    BY NoMore, SlotsOf(h) \subseteq slots DEF IInv, SlotsOf
  <2>2. Cardinality(SlotsOf(h)) <= Cap /\ Cap \in Nat
    BY PollAssumption DEF IInv, SlotCapInv
  <2>3. s0.group = g
    OBVIOUS
  <2>4. CASE h # g
    <3>1. SlotsOf(h)' \subseteq SlotsOf(h)
      BY <1>2, <2>3, <2>4 DEF SlotsOf
    <3>2. Cardinality(SlotsOf(h)') \in Nat
          /\ Cardinality(SlotsOf(h)') <= Cardinality(SlotsOf(h))
      BY <2>1, <3>1, NoMore
    <3> QED  BY <2>1, <2>2, <3>2
  <2>5. CASE h = g
    <3> DEFINE K == {s \in Kept(g) : s.group = g}
    <3>1. K \subseteq slots /\ Cardinality(K) < Cap
      BY KeptFewer DEF RoomIn
    <3>2. IsFiniteSet(K)
      BY <3>1, NoMore DEF IInv
    <3>3. SlotsOf(h)' \subseteq K \cup {s0}
      BY <2>5 DEF SlotsOf
    <3> HIDE DEF K
    <3>4. Cardinality(SlotsOf(h)') \in Nat /\ Cardinality(K) \in Nat
          /\ Cardinality(SlotsOf(h)') <= Cardinality(K) + 1
      BY <3>2, <3>3, OneMore
    <3> QED  BY <2>2, <3>1, <3>4
  <2> QED  BY <2>4, <2>5
<1> QED  BY <1>1, <1>3, <1>4 DEF SlotCapInv, Groups

(* Orphans that only go, and one that comes.                                *)
LEMMA OrphansGo ==
  ASSUME IInv, Orphans' \subseteq Orphans, faults' \in Nat, faults <= faults'
  PROVE  OrphanInv'
<1>1. IsFiniteSet(Orphans) /\ Cardinality(Orphans) \in Nat
  BY NoMore, Orphans \subseteq slots DEF IInv, Orphans
<1>2. Cardinality(Orphans') \in Nat /\ Cardinality(Orphans') <= Cardinality(Orphans)
  BY <1>1, NoMore
<1>3. faults \in Nat /\ Cardinality(Orphans) <= faults
  BY DEF IInv, OrphanInv, TypeOK
<1> QED  BY <1>1, <1>2, <1>3 DEF OrphanInv

LEMMA OrphanComes ==
  ASSUME IInv, NEW s0, Orphans' \subseteq Orphans \cup {s0}, faults' = faults + 1
  PROVE  OrphanInv'
<1>1. IsFiniteSet(Orphans) /\ Cardinality(Orphans) \in Nat
  BY NoMore, Orphans \subseteq slots DEF IInv, Orphans
<1>2. Cardinality(Orphans') \in Nat /\ Cardinality(Orphans') <= Cardinality(Orphans) + 1
  BY <1>1, OneMore
<1>3. faults \in Nat /\ Cardinality(Orphans) <= faults
  BY DEF IInv, OrphanInv, TypeOK
<1> QED  BY <1>1, <1>2, <1>3 DEF OrphanInv

-------------------------------------------------------------------------------
(* One lemma for each action that moves slots or polls.                     *)

DataInv == IsFiniteSet(slots) /\ TokenInv /\ SlotCapInv /\ OrphanInv

LEMMA EnqueueStep ==
  ASSUME IInv, NEW e \in pass.due, Enqueue(e)
  PROVE  DataInv'
<1> DEFINE t == CHOOSE t \in Unused : TRUE
           s0 == [token |-> t, group |-> Pano[e.dev], age |-> 0]
           p0 == [token |-> t, at |-> "queued", dev |-> e.dev, classes |-> e.classes, since |-> 0]
<1>1. t \in Unused /\ Pano[e.dev] \in Groups
  BY NewToken DEF Enqueue, IInv, TypeOK, Groups
<1>2. slots' = Kept(Pano[e.dev]) \cup {s0} /\ polls' = polls \cup {p0} /\ RoomIn(Pano[e.dev])
      /\ faults' = faults
  BY DEF Enqueue
<1>3. s0.token = t /\ s0.group = Pano[e.dev] /\ p0.token = t /\ p0.dev = e.dev
  OBVIOUS
<1>4. \A x \in slots \cup polls : x.token # t
  BY <1>1 DEF Unused
<1>5. IsFiniteSet(slots') /\ SlotCapInv' /\ \A s, u \in slots' : s.token = u.token => s = u
  BY <1>1, <1>2, SlotComes
<1> HIDE DEF t, s0, p0
<1>6. \A p, q \in polls' : p.token = q.token => p = q
  BY <1>2, <1>3, <1>4 DEF IInv, TokenInv
<1>7. \A s \in slots', p \in polls' : s.token = p.token => s.group = Pano[p.dev]
  BY <1>2, <1>3, <1>4, KeptFewer DEF IInv, TokenInv
<1>8. Orphans' \subseteq Orphans
  BY <1>2, <1>3, KeptFewer DEF Orphans
<1>9. OrphanInv'
  BY <1>2, <1>8, OrphansGo DEF IInv, TypeOK
<1> QED  BY <1>5, <1>6, <1>7, <1>9 DEF DataInv, TokenInv

LEMMA AtCapStep ==
  ASSUME IInv, NEW g \in Groups, AtCap(g)
  PROVE  DataInv'
<1>1. slots' \subseteq slots /\ polls' = polls /\ faults' = faults
  BY KeptFewer DEF AtCap
<1>2. IsFiniteSet(slots') /\ TokenInv' /\ SlotCapInv'
  BY <1>1, SlotsGo DEF IInv, TokenInv
<1>3. OrphanInv'
  BY <1>1, OrphansGo DEF Orphans, IInv, TypeOK
<1> QED  BY <1>2, <1>3 DEF DataInv

(* A slot left behind by a pass that broke off is paid for by its fault.    *)
LEMMA PassFailsStep ==
  ASSUME IInv, PassFails
  PROVE  DataInv'
<1>1. polls' = polls /\ faults' = faults + 1
  BY DEF PassFails
<1>2. CASE UNCHANGED slots
  <2>1. IsFiniteSet(slots') /\ TokenInv' /\ SlotCapInv'
    BY <1>1, <1>2, SlotsGo DEF IInv, TokenInv
  <2>2. Orphans' = Orphans
    BY <1>1, <1>2 DEF Orphans
  <2>3. OrphanInv'
    BY <1>1, <2>2, OrphansGo DEF IInv, TypeOK
  <2> QED  BY <2>1, <2>3 DEF DataInv
<1>3. ASSUME NEW e \in pass.due, RoomIn(Pano[e.dev]), Unused # {},
             slots' = Kept(Pano[e.dev]) \cup
                        {[token |-> CHOOSE t \in Unused : TRUE, group |-> Pano[e.dev], age |-> 0]}
      PROVE  DataInv'
  <2> DEFINE t == CHOOSE t \in Unused : TRUE
             s0 == [token |-> t, group |-> Pano[e.dev], age |-> 0]
  <2>1. t \in Unused /\ Pano[e.dev] \in Groups
    BY <1>3, NewToken DEF IInv, TypeOK, Groups
  <2>2. slots' = Kept(Pano[e.dev]) \cup {s0}
    BY <1>3
  <2>3. s0.token = t /\ s0.group = Pano[e.dev]
    OBVIOUS
  <2>4. \A x \in slots \cup polls : x.token # t
    BY <2>1 DEF Unused
  <2>5. IsFiniteSet(slots') /\ SlotCapInv' /\ \A s, u \in slots' : s.token = u.token => s = u
    BY <1>3, <2>1, <2>2, SlotComes
  <2> HIDE DEF t, s0
  <2>6. TokenInv'
    BY <1>1, <2>2, <2>3, <2>4, <2>5, KeptFewer DEF IInv, TokenInv
  <2>7. Orphans' \subseteq Orphans \cup {s0}
    BY <1>1, <2>2, KeptFewer DEF Orphans
  <2>8. OrphanInv'
    BY <1>1, <2>7, OrphanComes
  <2> QED  BY <2>5, <2>6, <2>8 DEF DataInv
<1> QED  BY <1>2, <1>3 DEF PassFails

LEMMA StartStep ==
  ASSUME IInv, NEW p \in polls, Start(p)
  PROVE  DataInv'
<1> DEFINE q == [p EXCEPT !.at = "running", !.since = 0]
<1>1. q.token = p.token /\ q.dev = p.dev
  BY DEF IInv, TypeOK
<1>2. slots' = slots /\ faults' = faults /\ polls' = (polls \ {p}) \cup {q}
  BY DEF Start
<1> HIDE DEF q
<1>3. \A x \in polls' : \E y \in polls : x.token = y.token /\ x.dev = y.dev
  BY <1>1, <1>2
<1>4. \A x, y \in polls' : x.token = y.token => x = y
  BY <1>1, <1>2 DEF IInv, TokenInv
<1>5. IsFiniteSet(slots') /\ TokenInv' /\ SlotCapInv'
  BY <1>2, <1>3, <1>4, SlotsGo
<1>6. Orphans' \subseteq Orphans
  BY <1>1, <1>2 DEF Orphans
<1>7. OrphanInv'
  BY <1>2, <1>6, OrphansGo DEF IInv, TypeOK
<1> QED  BY <1>5, <1>7 DEF DataInv

LEMMA EndedStep ==
  ASSUME IInv, NEW p \in polls, Ended(p), faults' = faults
  PROVE  DataInv'
<1>1. slots' \subseteq slots /\ polls' \subseteq polls
  BY DEF Ended
<1>2. IsFiniteSet(slots') /\ TokenInv' /\ SlotCapInv'
  BY <1>1, SlotsGo DEF IInv, TokenInv
<1>3. Orphans' \subseteq Orphans
  BY DEF Orphans, Ended
<1>4. OrphanInv'
  BY <1>3, OrphansGo DEF IInv, TypeOK
<1> QED  BY <1>2, <1>4 DEF DataInv

(* Only one slot has the token of the poll that is lost.                    *)
LEMMA LoseStep ==
  ASSUME IInv, NEW p \in polls, Lose(p)
  PROVE  DataInv'
<1>1. slots' = slots /\ polls' = polls \ {p} /\ faults' = faults + 1
  BY DEF Lose
<1>2. IsFiniteSet(slots') /\ TokenInv' /\ SlotCapInv'
  BY <1>1, SlotsGo DEF IInv, TokenInv
<1>3. \E s0 : Orphans' \subseteq Orphans \cup {s0}
  <2>1. CASE \E s0 \in slots : s0.token = p.token
    <3>1. PICK s0 \in slots : s0.token = p.token
      BY <2>1
    <3>2. \A s \in slots : s.token = p.token => s = s0
      BY <3>1 DEF IInv, TokenInv
    <3>3. Orphans' \subseteq Orphans \cup {s0}
      BY <1>1, <3>2 DEF Orphans
    <3> QED  BY <3>3
  <2>2. CASE ~\E s0 \in slots : s0.token = p.token
    BY <1>1, <2>2 DEF Orphans
  <2> QED  BY <2>1, <2>2
<1>4. OrphanInv'
  BY <1>1, <1>3, OrphanComes
<1> QED  BY <1>2, <1>4 DEF DataInv

(* A tick ages every slot and every poll, and changes nothing else in them. *)
LEMMA TickStep ==
  ASSUME IInv, Tick
  PROVE  DataInv'
<1> DEFINE aged == [s \in slots |-> [s EXCEPT !.age = IF @ < StaleAfter THEN @ + 1 ELSE @]]
           older == [p \in polls |-> [p EXCEPT !.since = @ + 1]]
<1>1. \A s \in slots : aged[s].token = s.token /\ aged[s].group = s.group
  BY DEF IInv, TypeOK
<1>2. \A p \in polls : older[p].token = p.token /\ older[p].dev = p.dev
  BY DEF IInv, TypeOK
<1>3. slots' = {aged[s] : s \in slots} /\ polls' = {older[p] : p \in polls} /\ faults' = faults
  BY DEF Tick
<1>4. DOMAIN aged = slots /\ DOMAIN older = polls /\ aged = [s \in slots |-> aged[s]]
  OBVIOUS
<1> HIDE DEF aged, older
<1>5. IsFiniteSet(slots')
  <2>1. aged \in [slots -> slots'] /\ \A y \in slots' : \E s \in slots : aged[s] = y
    BY <1>3, <1>4
  <2> QED  BY <2>1, ImageNoMore DEF IInv
<1>6. TokenInv'
  BY <1>1, <1>2, <1>3 DEF IInv, TokenInv
<1>7. ASSUME NEW g \in Groups PROVE Cardinality(SlotsOf(g)') <= Cap
  <2> DEFINE f == [s \in SlotsOf(g) |-> aged[s]]
  <2>1. f \in [SlotsOf(g) -> SlotsOf(g)'] /\ \A y \in SlotsOf(g)' : \E s \in SlotsOf(g) : f[s] = y
    BY <1>1, <1>3 DEF SlotsOf
  <2>2. IsFiniteSet(SlotsOf(g))
    BY NoMore, SlotsOf(g) \subseteq slots DEF IInv, SlotsOf
  <2> HIDE DEF f
  <2>3. Cardinality(SlotsOf(g)') \in Nat /\ Cardinality(SlotsOf(g)) \in Nat
        /\ Cardinality(SlotsOf(g)') <= Cardinality(SlotsOf(g))
    BY <2>1, <2>2, ImageNoMore
  <2>4. Cardinality(SlotsOf(g)) <= Cap /\ Cap \in Nat
    BY PollAssumption DEF IInv, SlotCapInv
  <2> QED  BY <2>3, <2>4
<1>8. OrphanInv'
  <2> DEFINE f == [s \in Orphans |-> aged[s]]
  <2>1. f \in [Orphans -> Orphans'] /\ \A y \in Orphans' : \E s \in Orphans : f[s] = y
    BY <1>1, <1>2, <1>3 DEF Orphans
  <2>2. IsFiniteSet(Orphans)
    BY NoMore, Orphans \subseteq slots DEF IInv, Orphans
  <2> HIDE DEF f
  <2>3. Cardinality(Orphans') \in Nat /\ Cardinality(Orphans) \in Nat
        /\ Cardinality(Orphans') <= Cardinality(Orphans)
    BY <2>1, <2>2, ImageNoMore
  <2>4. Cardinality(Orphans) <= faults /\ faults \in Nat
    BY DEF IInv, OrphanInv, TypeOK
  <2> QED  BY <1>3, <2>3, <2>4 DEF OrphanInv
<1> QED  BY <1>5, <1>6, <1>7, <1>8 DEF DataInv, SlotCapInv, Groups

(* A step that leaves slots, polls and faults alone.                        *)
LEMMA StillStep ==
  ASSUME IInv, slots' = slots, polls' = polls, faults' = faults
  PROVE  DataInv'
BY DEF IInv, DataInv, TokenInv, SlotCapInv, SlotsOf, OrphanInv, Orphans, Groups

-------------------------------------------------------------------------------
(* The theorems.                                                            *)

LEMMA Initially == Init => IInv
<1> SUFFICES ASSUME Init PROVE IInv
  OBVIOUS
<1>1. slots = {} /\ polls = {} /\ faults = 0
  BY DEF Init
<1>2. \A g : SlotsOf(g) = {}
  BY <1>1 DEF SlotsOf
<1>3. Orphans = {}
  BY <1>1 DEF Orphans
<1>4. IsFiniteSet(slots) /\ SlotCapInv /\ OrphanInv
  BY <1>1, <1>2, <1>3, FS_EmptySet, PollAssumption DEF SlotCapInv, OrphanInv
<1> QED  BY <1>1, <1>4, TypeInit DEF IInv, TokenInv

LEMMA Inductive ==
  ASSUME IInv, [Next]_vars
  PROVE  IInv'
<1>1. TypeOK'
  BY TypeStep DEF IInv
<1>2. DataInv'
  <2>1. CASE BeginPass
    BY <2>1, StillStep DEF BeginPass
  <2>2. CASE CommitPass
    BY <2>2, StillStep DEF CommitPass
  <2>3. CASE \E e \in pass.due : Enqueue(e)
    BY <2>3, EnqueueStep
  <2>4. CASE \E g \in Groups : AtCap(g)
    BY <2>4, AtCapStep
  <2>5. CASE PassFails
    BY <2>5, PassFailsStep
  <2>6. CASE \E p \in polls : Start(p)
    BY <2>6, StartStep
  <2>7. CASE \E p \in polls : Succeeds(p) \/ Fails(p)
    BY <2>7, EndedStep DEF Succeeds, Fails
  <2>8. CASE \E p \in polls : Lose(p)
    BY <2>8, LoseStep
  <2>9. CASE \E d \in Devices : SyncDevice(d)
    BY <2>9, StillStep DEF SyncDevice
  <2>10. CASE Tick
    BY <2>10, TickStep
  <2>11. CASE UNCHANGED vars
    BY <2>11, StillStep DEF vars
  <2> QED
    BY <2>1, <2>2, <2>3, <2>4, <2>5, <2>6, <2>7, <2>8, <2>9, <2>10, <2>11
    DEF Next, Dispatch, Work
<1> QED  BY <1>1, <1>2 DEF IInv, DataInv

(* The cap on slots is a cap on polls: each poll of a group that still has  *)
(* its slot is mapped to it.                                                *)
LEMMA CapFollows == IInv => CapHeld
<1> SUFFICES ASSUME IInv, NEW g \in Groups,
                    \A p \in polls : Pano[p.dev] = g => \E s \in slots : s.token = p.token
             PROVE  Cardinality({p \in polls : Pano[p.dev] = g}) <= Cap
  BY DEF CapHeld
<1> DEFINE mine == {p \in polls : Pano[p.dev] = g}
           f == [p \in mine |-> CHOOSE s \in slots : s.token = p.token]
<1>1. \A p \in mine : f[p] \in slots /\ f[p].token = p.token
  OBVIOUS
<1>2. \A p \in mine : f[p] \in SlotsOf(g)
  BY <1>1 DEF SlotsOf, IInv, TokenInv
<1>3. \A p, q \in mine : f[p] = f[q] => p = q
  BY <1>1 DEF IInv, TokenInv
<1>4. f \in Injection(mine, SlotsOf(g))
  <2>1. f = [p \in mine |-> f[p]]
    OBVIOUS
  <2> HIDE DEF mine, f
  <2>2. f \in [mine -> SlotsOf(g)]
    BY <1>2, <2>1
  <2> QED  BY <1>3, <2>2 DEF Injection, IsInjective
<1>5. IsFiniteSet(SlotsOf(g))
  BY NoMore, SlotsOf(g) \subseteq slots DEF IInv, SlotsOf
<1> HIDE DEF mine, f
<1>6. IsFiniteSet(mine) /\ Cardinality(mine) <= Cardinality(SlotsOf(g))
  BY <1>4, <1>5, FS_Injection
<1>7. Cardinality(mine) \in Nat /\ Cardinality(SlotsOf(g)) \in Nat
  BY <1>5, <1>6, FS_CardinalityType
<1>8. Cardinality(SlotsOf(g)) <= Cap /\ Cap \in Nat
  BY PollAssumption DEF IInv, SlotCapInv
<1> QED  BY <1>6, <1>7, <1>8 DEF mine

LEMMA Always == Spec => []IInv
<1>1. IInv /\ [Next]_vars => IInv'
  BY Inductive
<1> QED  BY Initially, <1>1, PTL DEF Spec

(* Every variable keeps its type, whatever the passes, polls and crashes of *)
(* the dispatcher do (dispatch_due, poll_device).                           *)
THEOREM PollTypeCorrect == Spec => []TypeOK
<1>1. IInv => TypeOK
  BY DEF IInv
<1> QED  BY Always, <1>1, PTL

(* For any number of devices and Panoramas, any cap and any faults, the     *)
(* polls through one Panorama that have their slot stay under its cap       *)
(* (try_acquire_slot, release_slot).                                        *)
THEOREM CapAlwaysHeld == Spec => []CapHeld
<1> QED  BY Always, CapFollows, PTL

(* A slot that belongs to no poll was left behind by a fault, one for each  *)
(* (release_slot in the poll's `finally`).                                  *)
THEOREM SlotsAlwaysAccounted == Spec => []SlotsAccounted
<1>1. IInv => SlotsAccounted
  BY DEF IInv, OrphanInv, Orphans, SlotsAccounted
<1> QED  BY Always, <1>1, PTL

-------------------------------------------------------------------------------
(* One poll of a class at a time.                                           *)

(* A poll is over before its classes are due again: what the dispatcher     *)
(* relies on when it claims a device for as long as its interval.           *)
PollsArePrompt == \A c \in Classes : 2 * PollLag < Interval[c]

(* The longest a poll can have been under way.                              *)
Lifetime(p) == IF p.at = "queued" THEN p.since ELSE PollLag + p.since

(* Claims are of a pass; each class of a poll under way is claimed, by the  *)
(* pass or by its timestamp, and what a pass still lists has no poll.       *)
IdleInv == pass.at = "idle" => pass.due = {} /\ pass.claims = {}
ClaimInv == \A p \in polls, c \in Classes :
  c \in p.classes => <<p.dev, c>> \in pass.claims \/ age[p.dev][c] <= Lifetime(p)
ListInv ==
  /\ \A e, f \in pass.due : e.dev = f.dev => e = f
  /\ \A e \in pass.due, p \in polls : e.dev = p.dev => e.classes \cap p.classes = {}
AloneInv == \A p, q \in polls : p.token # q.token /\ p.dev = q.dev =>
              p.classes \cap q.classes = {}
PromptInv == IdleInv /\ (~torn => ClaimInv /\ ListInv /\ AloneInv)

(* The pass lists only devices whose polls of the due classes are over.     *)
LEMMA BeginPrompt ==
  ASSUME IInv, PromptInv, PollsArePrompt, BeginPass
  PROVE  PromptInv'
<1> SUFFICES ASSUME ~torn PROVE ClaimInv' /\ ListInv' /\ AloneInv'
  BY DEF PromptInv, IdleInv, BeginPass
<1>1. polls' = polls /\ age' = age /\ pass.claims = {} /\ ClaimInv /\ AloneInv
  BY DEF BeginPass, PromptInv, IdleInv
<1>2. \A p \in polls, c \in Classes : c \in p.classes => c \notin Due(p.dev)
  <2> SUFFICES ASSUME NEW p \in polls, NEW c \in Classes, c \in p.classes, c \in Due(p.dev)
               PROVE  FALSE
    OBVIOUS
  <2>1. age[p.dev][c] <= Lifetime(p) BY <1>1 DEF ClaimInv
  <2>2. p.since \in 0..PollLag /\ p.dev \in Devices BY DEF IInv, TypeOK
  <2>3. Lifetime(p) <= 2 * PollLag /\ Lifetime(p) \in Nat
    BY <2>2, PollAssumption DEF Lifetime
  <2>4. age[p.dev][c] \in 0..Horizon BY <2>2 DEF IInv, TypeOK
  <2>5. Interval[c] \in Nat /\ 2 * PollLag < Interval[c] /\ PollLag \in Nat
    BY PollAssumption DEF PollsArePrompt
  <2>6. age[p.dev][c] >= Interval[c] BY DEF Due
  <2> QED BY <2>1, <2>3, <2>4, <2>5, <2>6
<1>3. /\ \A e \in pass'.due : e.classes = Due(e.dev)
      /\ \A e, f \in pass'.due : e.dev = f.dev => e = f
  BY DEF BeginPass
<1>4. ListInv'
  <2>1. \A p \in polls : p.classes \subseteq Classes BY DEF IInv, TypeOK
  <2> QED BY <1>1, <1>2, <1>3, <2>1 DEF ListInv
<1> QED BY <1>1, <1>4 DEF ClaimInv, AloneInv, Lifetime

LEMMA EnqueuePrompt ==
  ASSUME IInv, PromptInv, NEW e \in pass.due, Enqueue(e)
  PROVE  PromptInv'
<1> DEFINE t == CHOOSE t \in Unused : TRUE
           p0 == [token |-> t, at |-> "queued", dev |-> e.dev, classes |-> e.classes, since |-> 0]
<1>0. pass.at = "pass" /\ torn' = torn /\ age' = age /\ polls' = polls \cup {p0}
  BY DEF Enqueue
<1>1. p0.dev = e.dev /\ p0.classes = e.classes OBVIOUS
<1> HIDE DEF p0
<1>2. pass' = [pass EXCEPT !.due = @ \ {e}, !.claims = @ \cup ({e.dev} \X e.classes)]
  BY DEF Enqueue
<1>3. pass'.at = "pass" /\ pass'.due = pass.due \ {e}
      /\ pass'.claims = pass.claims \cup ({e.dev} \X e.classes)
  BY <1>0, <1>2 DEF IInv, TypeOK
<1> SUFFICES ASSUME ~torn PROVE ClaimInv' /\ ListInv' /\ AloneInv'
  BY <1>0, <1>3 DEF PromptInv, IdleInv
<1>4. ClaimInv /\ ListInv /\ AloneInv BY <1>0 DEF PromptInv
<1>5. ClaimInv' BY <1>0, <1>1, <1>3, <1>4 DEF ClaimInv, Lifetime
<1>6. ListInv' BY <1>0, <1>1, <1>3, <1>4 DEF ListInv
<1>7. AloneInv' BY <1>0, <1>1, <1>4 DEF ListInv, AloneInv
<1> QED BY <1>5, <1>6, <1>7

LEMMA AtCapPrompt ==
  ASSUME IInv, PromptInv, NEW g \in Groups, AtCap(g)
  PROVE  PromptInv'
<1>1. /\ pass.at = "pass" /\ torn' = torn /\ age' = age /\ polls' = polls
      /\ pass' = [pass EXCEPT !.due = {e \in @ : Pano[e.dev] # g}]
  BY DEF AtCap
<1>2. pass'.at = "pass" /\ pass'.due \subseteq pass.due /\ pass'.claims = pass.claims
  BY <1>1 DEF IInv, TypeOK
<1> QED
  BY <1>1, <1>2 DEF PromptInv, IdleInv, ClaimInv, ListInv, AloneInv, Lifetime

(* What was claimed is claimed by its timestamp from now on.                *)
LEMMA CommitPrompt ==
  ASSUME IInv, PromptInv, CommitPass
  PROVE  PromptInv'
<1>1. /\ pass'.at = "idle" /\ pass'.due = {} /\ pass'.claims = {}
      /\ torn' = torn /\ polls' = polls
  BY DEF CommitPass, NoPass
<1> SUFFICES ASSUME ~torn PROVE ClaimInv' /\ ListInv' /\ AloneInv'
  BY <1>1 DEF PromptInv, IdleInv
<1>2. ClaimInv /\ AloneInv BY DEF PromptInv
<1>3. ASSUME NEW p \in polls, NEW c \in Classes, c \in p.classes
      PROVE  age'[p.dev][c] <= Lifetime(p)
  <2>1. p.dev \in Devices /\ p.since \in Nat /\ PollLag \in Nat
    BY PollAssumption DEF IInv, TypeOK
  <2>2. age'[p.dev][c] = IF <<p.dev, c>> \in pass.claims THEN 0 ELSE age[p.dev][c]
    BY <2>1 DEF CommitPass
  <2>3. Lifetime(p) >= 0 BY <2>1 DEF Lifetime
  <2> QED BY <1>2, <1>3, <2>2, <2>3 DEF ClaimInv
<1> QED BY <1>1, <1>2, <1>3 DEF ClaimInv, ListInv, AloneInv, Lifetime

(* A poll that starts, or ends and stamps its classes, leaves the others.   *)
LEMMA StartPrompt ==
  ASSUME IInv, PromptInv, NEW p \in polls, Start(p)
  PROVE  PromptInv'
<1> DEFINE q == [p EXCEPT !.at = "running", !.since = 0]
<1>1. /\ q.token = p.token /\ q.dev = p.dev /\ q.classes = p.classes
      /\ q.at = "running" /\ q.since = 0
  BY DEF IInv, TypeOK
<1>2. /\ pass' = pass /\ age' = age /\ torn' = torn /\ p.at = "queued"
      /\ polls' = (polls \ {p}) \cup {q}
  BY DEF Start
<1> HIDE DEF q
<1> SUFFICES ASSUME ~torn PROVE ClaimInv' /\ ListInv' /\ AloneInv'
  BY <1>2 DEF PromptInv, IdleInv
<1>3. ClaimInv /\ ListInv /\ AloneInv BY DEF PromptInv
<1>4. ASSUME NEW c \in Classes, c \in p.classes, age[p.dev][c] <= Lifetime(p)
      PROVE  age[p.dev][c] <= Lifetime(q)
  <2>1. p.since \in 0..PollLag /\ PollLag \in Nat /\ age[p.dev][c] \in 0..Horizon
    BY PollAssumption DEF IInv, TypeOK
  <2>2. Lifetime(p) = p.since /\ Lifetime(q) = PollLag + 0 BY <1>1, <1>2 DEF Lifetime
  <2>3. Horizon \in Nat BY PollAssumption
  <2> QED BY <1>4, <2>1, <2>2, <2>3
<1>5. ClaimInv' BY <1>1, <1>2, <1>3, <1>4 DEF ClaimInv, Lifetime
<1>6. ListInv' BY <1>1, <1>2, <1>3 DEF ListInv
<1>7. AloneInv' BY <1>1, <1>2, <1>3 DEF AloneInv
<1> QED BY <1>5, <1>6, <1>7

LEMMA EndedPrompt ==
  ASSUME IInv, PromptInv, NEW p \in polls, NEW a, Ended(p), age' = Stamped(p, a),
         pass' = pass, torn' = torn
  PROVE  PromptInv'
<1>1. polls' = polls \ {p} BY DEF Ended
<1> SUFFICES ASSUME ~torn PROVE ClaimInv' /\ ListInv' /\ AloneInv'
  BY DEF PromptInv, IdleInv
<1>2. ClaimInv /\ ListInv /\ AloneInv BY DEF PromptInv
<1>3. ASSUME NEW q \in polls', NEW c \in Classes, c \in q.classes
      PROVE  age'[q.dev][c] = age[q.dev][c]
  <2>1. q \in polls /\ q.token # p.token /\ q.dev \in Devices
    BY <1>1 DEF IInv, TokenInv, TypeOK
  <2>2. ~(q.dev = p.dev /\ c \in p.classes) BY <1>2, <1>3, <2>1 DEF AloneInv
  <2> QED BY <2>1, <2>2 DEF Stamped
<1> QED BY <1>1, <1>2, <1>3 DEF ClaimInv, ListInv, AloneInv, Lifetime

(* A tick ages the polls as it ages the timestamps.                         *)
LEMMA TickPrompt ==
  ASSUME IInv, PromptInv, Tick
  PROVE  PromptInv'
<1> DEFINE older == [p \in polls |-> [p EXCEPT !.since = @ + 1]]
<1>1. \A p \in polls :
        /\ older[p].token = p.token /\ older[p].dev = p.dev /\ older[p].at = p.at
        /\ older[p].classes = p.classes /\ older[p].since = p.since + 1
  BY DEF IInv, TypeOK
<1>2. /\ polls' = {older[p] : p \in polls} /\ pass' = pass /\ torn' = torn
      /\ pass.at = "idle"
  BY DEF Tick
<1> HIDE DEF older
<1> SUFFICES ASSUME ~torn PROVE ClaimInv' /\ ListInv' /\ AloneInv'
  BY <1>2 DEF PromptInv, IdleInv
<1>3. ClaimInv /\ AloneInv /\ pass.due = {} /\ pass.claims = {}
  BY <1>2 DEF PromptInv, IdleInv
<1>4. ASSUME NEW p \in polls, NEW c \in Classes, c \in p.classes
      PROVE  age'[p.dev][c] <= Lifetime(older[p])
  <2>1. age[p.dev][c] <= Lifetime(p) BY <1>3, <1>4 DEF ClaimInv
  <2>2. p.dev \in Devices /\ p.since \in Nat BY DEF IInv, TypeOK
  <2>3. age[p.dev][c] \in Nat /\ PollLag \in Nat /\ Horizon \in Nat
    BY <2>2, PollAssumption DEF IInv, TypeOK
  <2>4. age'[p.dev][c] = AtMost(age[p.dev][c] + 1) BY <2>2 DEF Tick
  <2>5. age'[p.dev][c] <= age[p.dev][c] + 1 BY <2>3, <2>4 DEF AtMost
  <2>6. Lifetime(older[p]) = Lifetime(p) + 1 /\ Lifetime(p) \in Nat
    BY <1>1, <2>2, <2>3 DEF Lifetime
  <2>7. age'[p.dev][c] \in Nat BY <2>3, <2>4 DEF AtMost
  <2> QED BY <2>1, <2>3, <2>5, <2>6, <2>7
<1>5. ClaimInv' BY <1>1, <1>2, <1>4 DEF ClaimInv, Lifetime
<1>6. ListInv' BY <1>2, <1>3 DEF ListInv
<1>7. AloneInv' BY <1>1, <1>2, <1>3 DEF AloneInv
<1> QED BY <1>5, <1>6, <1>7

LEMMA PromptInductive ==
  ASSUME IInv, PromptInv, PollsArePrompt, [Next]_vars
  PROVE  PromptInv'
<1>1. ASSUME pass' = pass, age' = age, torn' = torn, polls' \subseteq polls
      PROVE  PromptInv'
  BY <1>1 DEF PromptInv, IdleInv, ClaimInv, ListInv, AloneInv, Lifetime
<1>2. CASE PassFails BY <1>2 DEF PassFails, PromptInv, IdleInv, NoPass
<1>3. CASE \E p \in polls : Succeeds(p) \/ Fails(p)
  BY <1>3, EndedPrompt DEF Succeeds, Fails
<1>4. CASE (\E p \in polls : Lose(p)) \/ (\E d \in Devices : SyncDevice(d)) \/ UNCHANGED vars
  BY <1>1, <1>4 DEF Lose, SyncDevice, vars
<1> QED
  BY <1>2, <1>3, <1>4, BeginPrompt, EnqueuePrompt, AtCapPrompt, CommitPrompt, StartPrompt,
     TickPrompt
  DEF Next, Dispatch, Work

(* If no poll is under way for as long as an interval, a device never has   *)
(* two polls of one class, whatever fails or is lost, unless a pass broke   *)
(* off between its messages and its claims ("optimistically claimed").      *)
THEOREM OnePollAtATime ==
  ASSUME PollsArePrompt
  PROVE  Spec => []OnePollPerClass
<1>1. Init => PromptInv
  BY DEF Init, PromptInv, IdleInv, ClaimInv, ListInv, AloneInv, NoPass
<1>2. IInv /\ PromptInv /\ [Next]_vars => PromptInv' BY PromptInductive
<1>3. PromptInv => OnePollPerClass BY DEF PromptInv, AloneInv, OnePollPerClass
<1> QED BY <1>1, <1>2, <1>3, Always, PTL DEF Spec
===============================================================================
