---------------------------- MODULE InventoryProofs ----------------------------
(***************************************************************************)
(* Proofs about Inventory, for any sites, Panoramas, requests and faults:  *)
(* no HA link points to a row that has gone, and no sync, probe or poll    *)
(* undoes a setting of the operator, however they cross his requests.      *)
(*                                                                         *)
(* What makes them inductive is said of ids (IInv): a live row, and a row  *)
(* that a sync has loaded, has an id below the next one, so that the rows  *)
(* a sync inserts are none of those.                                       *)
(***************************************************************************)
EXTENDS Inventory, FiniteSetTheorems, TLAPS

NextInv == \A i \in Ids : Live(i) => i < next
ListInv == \A k \in Syncs : IsFiniteSet(sync[k].list)
LoadInv == \A k \in Syncs, i \in Ids :
  IF sync[k].loaded[i].live THEN i < next ELSE sync[k].loaded[i] = Unborn

IInv == TypeOK /\ NextInv /\ ListInv /\ LoadInv /\ PeersAlive

-------------------------------------------------------------------------------
(* Types.                                                                   *)

LEMMA UnbornType ==
  /\ Unborn \in Device /\ ~Unborn.live /\ Unborn.peer = NoRow /\ Unborn.name = Nothing /\ Unborn.serial = Nothing
  /\ Unborn.pano = NoPano /\ ~Unborn.proxy /\ ~Unborn.key
<1>1. (CHOOSE s \in Sites : TRUE) \in Sites
  BY InventoryAssumption
<1> QED  BY <1>1 DEF Unborn, Device

LEMMA OffType == Off \in Sync /\ Off.list = {} /\ \A i \in Ids : Off.loaded[i] = Unborn
BY UnbornType DEF Off, Sync

LEMMA NoProbeType == NoProbe \in [id : Ids \cup {NoRow}, info : SUBSET Entry]
BY DEF NoProbe

LEMMA SerialType ==
  ASSUME TypeOK, NEW s \in Sites
  PROVE  /\ Serial(s) \in Serials /\ Info(s) \in Entry
         /\ hostname(s) \in Names /\ Nickname(s) \in Names /\ Serial(s) \in Names
<1>1. box[s].hw \in 1..MaxSwaps + 1
  BY DEF TypeOK
<1>2. Serial(s) \in Serials /\ hostname(s) \in Names /\ Nickname(s) \in Names /\ Serial(s) \in Names
  BY <1>1 DEF Serial, Serials, Names
<1>3. Partner[s] \in Sites /\ Serial(Partner[s]) \in Serials
  BY InventoryAssumption DEF TypeOK, Serial, Serials
<1> QED  BY <1>2, <1>3 DEF Info, Entry

LEMMA ListType ==
  ASSUME TypeOK, NEW p
  PROVE  list_managed_devices(p) \in SUBSET Entry /\ IsFiniteSet(list_managed_devices(p))
<1> DEFINE T == {t \in Sites : Home[t] = p}
           e(s) == IF box[s].seen THEN Info(s) ELSE [Info(s) EXCEPT !.name = Serial(s), !.peer = Nothing]
           f == [s \in T |-> e(s)]
<1>1. \A s \in T : e(s) \in Entry
  <2> TAKE s \in T
  <2>1. Info(s) \in Entry /\ Serial(s) \in Names /\ box[s].seen \in BOOLEAN
    BY SerialType DEF TypeOK
  <2>2. PICK i \in Entry, n \in Names : i = Info(s) /\ n = Serial(s)
    BY <2>1
  <2>3. [i EXCEPT !.name = n, !.peer = Nothing] \in Entry
    BY DEF Entry
  <2> QED  BY <2>1, <2>2, <2>3
<1>2. list_managed_devices(p) = {e(s) : s \in T}
  BY DEF list_managed_devices
<1>3. IsFiniteSet(T)
  BY FS_Subset, InventoryAssumption
<1>4. f \in Surjection(T, {e(s) : s \in T})
  BY DEF Surjection
<1>5. IsFiniteSet({e(s) : s \in T})
  <2> HIDE DEF f, T, e
  <2> QED  BY <1>3, <1>4, FS_Surjection
<1> QED  BY <1>1, <1>2, <1>5

(* One column of a row is written.                                          *)
LEMMA Fields ==
  ASSUME NEW d \in Device
  PROVE  /\ \A v \in Names \cup {Nothing} : [d EXCEPT !.name = v] \in Device
         /\ \A v \in Serials \cup {Nothing} : [d EXCEPT !.serial = v] \in Device
         /\ \A v \in Sites : [d EXCEPT !.site = v] \in Device
         /\ \A v \in Panos \cup {NoPano} : [d EXCEPT !.pano = v] \in Device
         /\ \A v \in BOOLEAN : [d EXCEPT !.proxy = v] \in Device
         /\ \A v \in BOOLEAN : [d EXCEPT !.key = v] \in Device
         /\ \A v \in BOOLEAN : [d EXCEPT !.live = v] \in Device
         /\ \A v \in Ids \cup {NoRow} : [d EXCEPT !.peer = v] \in Device
BY DEF Device

-------------------------------------------------------------------------------
(* What a step leaves alone.                                                *)

LEMMA SpendType ==
  ASSUME TypeOK, Request \/ Fault \/ Spend("swaps", MaxSwaps)
  PROVE  spent' \in [requests : 0..MaxRequests, swaps : 0..MaxSwaps, faults : 0..MaxFaults]
<1>1. /\ spent \in [requests : 0..MaxRequests, swaps : 0..MaxSwaps, faults : 0..MaxFaults]
      /\ MaxRequests \in Nat /\ MaxSwaps \in Nat /\ MaxFaults \in Nat
  BY InventoryAssumption DEF TypeOK
<1>2. CASE Request
  <2>1. spent.requests < MaxRequests /\ spent' = [spent EXCEPT !.requests = spent.requests + 1]
    BY <1>2, Zenon DEF Request, Spend
  <2> QED  BY <1>1, <2>1
<1>3. CASE Fault
  <2>1. spent.faults < MaxFaults /\ spent' = [spent EXCEPT !.faults = spent.faults + 1]
    BY <1>3, Zenon DEF Fault, Spend
  <2> QED  BY <1>1, <2>1
<1>4. CASE Spend("swaps", MaxSwaps)
  <2>1. spent.swaps < MaxSwaps /\ spent' = [spent EXCEPT !.swaps = spent.swaps + 1]
    BY <1>4, Zenon DEF Spend
  <2> QED  BY <1>1, <2>1
<1> QED  BY <1>2, <1>3, <1>4

LEMMA SameRows ==
  ASSUME IInv, UNCHANGED <<rows, next>>
  PROVE  NextInv' /\ PeersAlive'
BY DEF IInv, NextInv, PeersAlive, Live

LEMMA SameSyncs ==
  ASSUME IInv, UNCHANGED sync, next' \in Nat, next' >= next
  PROVE  ListInv' /\ LoadInv' /\ sync' \in [Syncs -> Sync]
<1>1. ListInv' /\ sync' \in [Syncs -> Sync]
  BY DEF IInv, TypeOK, ListInv
<1>2. ASSUME NEW k \in Syncs, NEW i \in Ids
      PROVE  IF sync[k].loaded[i].live THEN i < next' ELSE sync[k].loaded[i] = Unborn
  <2>1. IF sync[k].loaded[i].live THEN i < next ELSE sync[k].loaded[i] = Unborn
    BY DEF IInv, LoadInv
  <2>2. i \in Nat /\ next \in Nat
    BY InventoryAssumption DEF IInv, TypeOK
  <2> QED  BY <2>1, <2>2
<1> QED  BY <1>1, <1>2 DEF LoadInv

(* One sync goes on, with a list and rows that have been read before.       *)
LEMMA SyncSet ==
  ASSUME IInv, NEW k \in Syncs, NEW q \in Sync, sync' = [sync EXCEPT ![k] = q],
         IsFiniteSet(q.list), next' \in Nat, next' >= next,
         \A i \in Ids : IF q.loaded[i].live THEN i < next ELSE q.loaded[i] = Unborn
  PROVE  ListInv' /\ LoadInv' /\ sync' \in [Syncs -> Sync]
<1>1. sync' \in [Syncs -> Sync] /\ \A x \in Syncs : sync'[x] = IF x = k THEN q ELSE sync[x]
  BY DEF IInv, TypeOK
<1>2. ListInv'
  BY <1>1 DEF IInv, ListInv
<1>3. ASSUME NEW x \in Syncs, NEW i \in Ids
      PROVE  IF sync'[x].loaded[i].live THEN i < next' ELSE sync'[x].loaded[i] = Unborn
  <2>1. IF sync'[x].loaded[i].live THEN i < next ELSE sync'[x].loaded[i] = Unborn
    BY <1>1 DEF IInv, LoadInv
  <2>2. i \in Nat /\ next \in Nat
    BY InventoryAssumption DEF IInv, TypeOK
  <2> QED  BY <2>1, <2>2
<1> QED  BY <1>1, <1>2, <1>3 DEF LoadInv

LEMMA SyncOff ==
  ASSUME IInv, NEW k \in Syncs, sync' = [sync EXCEPT ![k] = Off], next' \in Nat, next' >= next
  PROVE  ListInv' /\ LoadInv' /\ sync' \in [Syncs -> Sync]
<1>1. IsFiniteSet({})
  BY FS_EmptySet
<1> QED  BY <1>1, OffType, UnbornType, SyncSet

(* A pass over the Panoramas goes on to the next one.                       *)
LEMMA SyncNext ==
  ASSUME IInv, NEW k \in Syncs, NEW at \in {"off", "next"}, NEW todo \in SUBSET Panos,
         sync' = [sync EXCEPT ![k] = [Off EXCEPT !.at = at, !.todo = todo]], next' \in Nat, next' >= next
  PROVE  ListInv' /\ LoadInv' /\ sync' \in [Syncs -> Sync]
<1> DEFINE q == [Off EXCEPT !.at = at, !.todo = todo]
<1>1. q \in Sync /\ q.list = {} /\ q.loaded = Off.loaded
  BY OffType DEF Sync
<1>2. \A i \in Ids : ~q.loaded[i].live /\ q.loaded[i] = Unborn
  BY <1>1, OffType, UnbornType
<1>3. IsFiniteSet(q.list)
  BY <1>1, FS_EmptySet
<1> HIDE DEF q
<1>4. sync' = [sync EXCEPT ![k] = q]
  BY DEF q
<1> QED  BY <1>1, <1>2, <1>3, <1>4, SyncSet

-------------------------------------------------------------------------------
(* The syncs.                                                               *)

LEMMA SyncAllStep ==
  ASSUME IInv, sync_all
  PROVE  IInv'
<1>1. PICK q : q = [sync["beat"] EXCEPT !.at = "next", !.todo = panos]
  OBVIOUS
<1>2. "beat" \in Syncs /\ sync["beat"] \in Sync /\ panos \in SUBSET Panos
  BY DEF Syncs, IInv, TypeOK
<1>3. q \in Sync /\ q.list = sync["beat"].list /\ q.loaded = sync["beat"].loaded
  BY <1>1, <1>2 DEF Sync
<1>4. sync' = [sync EXCEPT !["beat"] = q]
  BY <1>1, Zenon DEF sync_all
<1>5. next' = next /\ next \in Nat /\ next >= next /\ UNCHANGED <<rows, box, up, panos, reach, probe, spent>>
  BY DEF sync_all, Still, IInv, TypeOK
<1>6. ListInv' /\ LoadInv' /\ sync' \in [Syncs -> Sync]
  <2>1. \A i \in Ids : IF q.loaded[i].live THEN i < next ELSE q.loaded[i] = Unborn
    BY <1>2, <1>3 DEF IInv, LoadInv
  <2>2. IsFiniteSet(q.list)
    BY <1>2, <1>3 DEF IInv, ListInv
  <2> QED  BY <1>2, <1>3, <1>4, <1>5, <2>1, <2>2, SyncSet
<1>7. TypeOK'
  BY <1>5, <1>6 DEF IInv, TypeOK
<1> QED  BY <1>5, <1>6, <1>7, SameRows DEF IInv

LEMMA FetchStep ==
  ASSUME IInv, NEW k \in Syncs, NEW p \in Panos, NEW only \in SUBSET Serials, Fetch(k, p, only),
         spent' \in [requests : 0..MaxRequests, swaps : 0..MaxSwaps, faults : 0..MaxFaults]
  PROVE  IInv'
<1>1. next' = next /\ next \in Nat /\ next >= next /\ UNCHANGED <<rows, box, up, panos, probe>>
  BY DEF Fetch, IInv, TypeOK
<1>2. reach' \in [Panos -> BOOLEAN]
  BY DEF Fetch, IInv, TypeOK
<1>3. sync[k] \in Sync
  BY DEF IInv, TypeOK
<1>4. PICK s : s = [sync[k] EXCEPT !.pano = p]
  OBVIOUS
<1>5. s \in Sync /\ s.loaded = sync[k].loaded /\ s.todo = sync[k].todo /\ s.todo \in SUBSET Panos
  BY <1>3, <1>4 DEF Sync
<1>6. PICK list : list = list_managed_devices(p)
  OBVIOUS
<1>7. list \in SUBSET Entry /\ IsFiniteSet(list)
  BY <1>6, ListType DEF IInv
<1>8. PICK q : q = [s EXCEPT !.at = "listed", !.only = only, !.list = list]
  OBVIOUS
<1>9. q \in Sync /\ q.list = list /\ q.loaded = sync[k].loaded
  BY <1>5, <1>7, <1>8 DEF Sync
<1>10. \/ sync' = [sync EXCEPT ![k] = Off]
       \/ sync' = [sync EXCEPT ![k] = q]
       \/ sync' = [sync EXCEPT ![k] = [Off EXCEPT !.at = "next", !.todo = s.todo \ {p}]]
  BY <1>4, <1>6, <1>8, Zenon DEF Fetch
<1>11. CASE sync' = [sync EXCEPT ![k] = Off]
  <2>1. ListInv' /\ LoadInv' /\ sync' \in [Syncs -> Sync]
    BY <1>1, <1>11, SyncOff
  <2>2. TypeOK'
    BY <1>1, <1>2, <2>1 DEF IInv, TypeOK
  <2> QED  BY <1>1, <2>1, <2>2, SameRows DEF IInv
<1>12. CASE sync' = [sync EXCEPT ![k] = q]
  <2>1. ListInv' /\ LoadInv' /\ sync' \in [Syncs -> Sync]
    <3>1. \A i \in Ids : IF q.loaded[i].live THEN i < next ELSE q.loaded[i] = Unborn
      BY <1>9 DEF IInv, LoadInv
    <3> QED  BY <1>1, <1>7, <1>9, <1>12, <3>1, SyncSet
  <2>2. TypeOK'
    BY <1>1, <1>2, <2>1 DEF IInv, TypeOK
  <2> QED  BY <1>1, <2>1, <2>2, SameRows DEF IInv
<1>13. CASE sync' = [sync EXCEPT ![k] = [Off EXCEPT !.at = "next", !.todo = s.todo \ {p}]]
  <2>1. PICK todo \in SUBSET Panos : todo = s.todo \ {p}
    BY <1>5
  <2>2. ListInv' /\ LoadInv' /\ sync' \in [Syncs -> Sync]
    BY <1>1, <1>13, <2>1, SyncNext
  <2>3. TypeOK'
    BY <1>1, <1>2, <2>2 DEF IInv, TypeOK
  <2> QED  BY <1>1, <2>2, <2>3, SameRows DEF IInv
<1> QED  BY <1>10, <1>11, <1>12, <1>13

LEMMA FetchesStep ==
  ASSUME IInv, FetchNext \/ FetchAsked
  PROVE  IInv'
<1>1. CASE FetchNext
  <2>1. PICK p \in sync["beat"].todo : Fetch("beat", p, {}) /\ UNCHANGED spent
    BY <1>1 DEF FetchNext
  <2>2. "beat" \in Syncs /\ p \in Panos /\ spent' \in [requests : 0..MaxRequests, swaps : 0..MaxSwaps, faults : 0..MaxFaults]
    BY <2>1 DEF Syncs, IInv, TypeOK, Sync
  <2> QED  BY <2>1, <2>2, FetchStep
<1>2. CASE FetchAsked
  <2>1. PICK p \in panos, f \in Filters : Fetch("route", p, {Serial(s) : s \in f}) /\ Request
    BY <1>2 DEF FetchAsked
  <2>2. PICK only : only = {Serial(s) : s \in f}
    OBVIOUS
  <2>3. only \in SUBSET Serials
    BY <2>2, SerialType, InventoryAssumption DEF IInv
  <2>4. "route" \in Syncs /\ p \in Panos
    BY DEF Syncs, IInv, TypeOK
  <2> QED  BY <2>1, <2>2, <2>3, <2>4, SpendType, FetchStep DEF IInv
<1> QED  BY <1>1, <1>2

LEMMA ReadStep ==
  ASSUME IInv, NEW k \in Syncs, Read(k)
  PROVE  IInv'
<1>1. next' = next /\ next \in Nat /\ next >= next /\ UNCHANGED <<rows, box, up, panos, reach, probe, spent>>
  BY DEF Read, Still, IInv, TypeOK
<1>2. PICK loaded : loaded = [i \in Ids |-> IF Live(i) /\ \E e \in sync[k].list : e.serial = rows[i].serial
                                              THEN rows[i] ELSE Unborn]
  OBVIOUS
<1>3. loaded \in [Ids -> Device]
  BY <1>2, UnbornType DEF IInv, TypeOK
<1>4. \A i \in Ids : IF loaded[i].live THEN i < next ELSE loaded[i] = Unborn
  BY <1>2, UnbornType DEF IInv, NextInv, Live
<1>5. PICK q : q = [sync[k] EXCEPT !.at = "read", !.loaded = loaded]
  OBVIOUS
<1>6. q \in Sync /\ q.list = sync[k].list /\ q.loaded = loaded
  BY <1>3, <1>5 DEF IInv, TypeOK, Sync
<1>7. sync' = [sync EXCEPT ![k] = q]
  BY <1>2, <1>5, Zenon DEF Read
<1>8. ListInv' /\ LoadInv' /\ sync' \in [Syncs -> Sync]
  <2>1. IsFiniteSet(q.list)
    BY <1>6 DEF IInv, ListInv
  <2> QED  BY <1>1, <1>4, <1>6, <1>7, <2>1, SyncSet
<1>9. TypeOK'
  BY <1>1, <1>8 DEF IInv, TypeOK
<1> QED  BY <1>1, <1>8, <1>9, SameRows DEF IInv

(* The row a picked entry is written to: a new one, or one that was loaded. *)
LEMMA Touches ==
  ASSUME IInv, NEW k \in Syncs, NEW new \in SUBSET Ids, NEW born \in [Fresh(k) -> new],
         NEW e \in Picked(k)
  PROVE  /\ e \in Entry
         /\ e \in Fresh(k) => Touched(k, born)[e] \in new
         /\ e \notin Fresh(k) => /\ Touched(k, born)[e] \in Ids
                                 /\ Touched(k, born)[e] < next
<1>1. e \in Entry
  BY DEF Picked, IInv, TypeOK, Sync
<1>2. Touched(k, born)[e] = IF e \in Fresh(k) THEN born[e] ELSE CHOOSE i \in Matches(k, e) : TRUE
  BY DEF Touched
<1>3. CASE e \in Fresh(k)
  BY <1>1, <1>2, <1>3
<1>4. CASE e \notin Fresh(k)
  <2>1. Matches(k, e) # {}
    BY <1>4 DEF Fresh
  <2>2. Touched(k, born)[e] \in Matches(k, e)
    BY <1>2, <1>4, <2>1
  <2> QED  BY <1>1, <1>4, <2>2 DEF Matches, IInv, LoadInv
<1> QED  BY <1>3, <1>4

LEMMA LinkType ==
  ASSUME NEW e, NEW touched, NEW old
  PROVE  LinkOf(e, touched, old) \in {old.peer, NoRow} \cup {touched[f] : f \in DOMAIN touched}
<1> DEFINE peers == {f \in DOMAIN touched : f.serial = e.peer}
<1>1. peers # {} => (CHOOSE f \in peers : TRUE) \in DOMAIN touched
  OBVIOUS
<1>2. LinkOf(e, touched, old) = IF e.peer = Nothing THEN old.peer
                                ELSE IF peers = {} THEN NoRow ELSE touched[CHOOSE f \in peers : TRUE]
  BY Zenon DEF LinkOf
<1> HIDE DEF peers
<1> QED  BY <1>1, <1>2

(* The rows as a sync writes them: what is live stays live with the         *)
(* operator's settings, and a link leads to what the row was linked to, or  *)
(* to a row that the sync has touched.                                      *)
LEMMA Written ==
  ASSUME IInv, NEW k \in Syncs, NEW new \in SUBSET Ids, \A i \in new : i >= next, NEW born \in [Fresh(k) -> new],
         NEW touched, touched = Touched(k, born), NEW written, written = Synced(k, touched),
         sync[k].pano \in Panos, \A e \in Picked(k) \ Fresh(k) : Live(touched[e])
  PROVE  /\ written \in [Ids -> Device]
         /\ \A e \in Picked(k) : touched[e] \in Ids /\ written[touched[e]].live
         /\ \A i \in Ids : Live(i) =>
              /\ written[i].live /\ written[i].proxy = rows[i].proxy /\ written[i].key = rows[i].key
              /\ written[i].name = rows[i].name
         /\ \A i \in Ids : written[i].live => Live(i) \/ i \in new
         /\ \A i \in Ids : written[i].live =>
              \/ Live(i) /\ written[i].peer = rows[i].peer
              \/ written[i].peer = NoRow
              \/ \E f \in Picked(k) : written[i].peer = touched[f]
<1>0. DOMAIN touched = Picked(k)
  BY DEF Touched
<1>1. \A e \in Picked(k) : /\ e \in Entry /\ touched[e] \in Ids
                           /\ e \in Fresh(k) => touched[e] \in new
                           /\ e \notin Fresh(k) => touched[e] < next
  BY Touches
<1>2. next \in Nat /\ rows \in [Ids -> Device] /\ Ids \subseteq Nat \ {0}
  BY InventoryAssumption DEF IInv, TypeOK
<1>3. ASSUME NEW i \in Ids, ~\E e \in Picked(k) : touched[e] = i
      PROVE  written[i] = rows[i]
  BY <1>0, <1>3, Zenon DEF Synced
<1>4. ASSUME NEW e \in Picked(k), NEW i \in Ids, touched[e] = i
      PROVE  /\ e \in Fresh(k) => i \in new /\ ~Live(i)
             /\ e \notin Fresh(k) => Live(i)
             /\ Imported(k, e, i, touched) \in Device /\ Imported(k, e, i, touched).live
             /\ Live(i) => /\ Imported(k, e, i, touched).proxy = rows[i].proxy
                           /\ Imported(k, e, i, touched).key = rows[i].key
                           /\ Imported(k, e, i, touched).name = rows[i].name
             /\ \/ Live(i) /\ Imported(k, e, i, touched).peer = rows[i].peer
                \/ Imported(k, e, i, touched).peer = NoRow
                \/ \E f \in Picked(k) : Imported(k, e, i, touched).peer = touched[f]
  <2>1. PICK old : old = sync[k].loaded[i]
    OBVIOUS
  <2>2. PICK link : link = LinkOf(e, touched, old)
    OBVIOUS
  <2>3. old \in Device /\ IF old.live THEN i < next ELSE old = Unborn
    BY <2>1 DEF IInv, TypeOK, Sync, LoadInv
  <2>4. link = old.peer \/ link = NoRow \/ \E f \in Picked(k) : link = touched[f]
    BY <1>0, <2>2, LinkType
  <2>5. link \in Ids \cup {NoRow}
    BY <1>1, <2>3, <2>4 DEF Device
  <2>6. CASE e \in Fresh(k)
    <3>1. i \in new /\ i >= next /\ i \in Nat
      BY <1>1, <1>2, <1>4, <2>6
    <3>2. ~Live(i) /\ old.peer = NoRow
      BY <1>2, <2>3, <3>1, UnbornType DEF IInv, NextInv
    <3>3. Imported(k, e, i, touched) =
            [live |-> TRUE, name |-> e.name, serial |-> e.serial, site |-> e.site, pano |-> sync[k].pano,
             proxy |-> TRUE, key |-> FALSE, peer |-> link]
      BY <2>1, <2>2, <2>6, Zenon DEF Imported
    <3>4. Imported(k, e, i, touched) \in Device
      BY <1>1, <2>5, <3>3 DEF Device, Entry
    <3>5. Imported(k, e, i, touched).live /\ Imported(k, e, i, touched).peer = link
      BY <3>3
    <3> QED  BY <2>4, <2>6, <3>1, <3>2, <3>4, <3>5
  <2>7. CASE e \notin Fresh(k)
    <3>1. Live(i)
      BY <1>4, <2>7
    <3>2. PICK d \in Device : d = rows[i]
      BY <1>2
    <3>3. PICK site \in Sites : site = Column(d.site, old.site, e.site)
      BY <1>1, <3>2 DEF Column, Device, Entry
    <3>4. PICK pano \in Panos \cup {NoPano} : pano = Column(d.pano, old.pano, sync[k].pano)
      BY <3>2 DEF Column, Device
    <3>5. PICK peer \in Ids \cup {NoRow} : peer = Column(d.peer, old.peer, link)
      BY <2>5, <3>2 DEF Column, Device
    <3>6. Imported(k, e, i, touched) = [d EXCEPT !.site = site, !.pano = pano, !.peer = peer]
      BY <2>1, <2>2, <2>7, <3>2, <3>3, <3>4, <3>5, Zenon DEF Imported
    <3>7. /\ [d EXCEPT !.site = site, !.pano = pano, !.peer = peer] \in Device
          /\ [d EXCEPT !.site = site, !.pano = pano, !.peer = peer].live = d.live
          /\ [d EXCEPT !.site = site, !.pano = pano, !.peer = peer].proxy = d.proxy
          /\ [d EXCEPT !.site = site, !.pano = pano, !.peer = peer].key = d.key
          /\ [d EXCEPT !.site = site, !.pano = pano, !.peer = peer].name = d.name
          /\ [d EXCEPT !.site = site, !.pano = pano, !.peer = peer].peer = peer
      BY DEF Device
    <3>8. peer = d.peer \/ peer = NoRow \/ \E f \in Picked(k) : peer = touched[f]
      BY <2>4, <3>5 DEF Column
    <3> QED  BY <2>7, <3>1, <3>2, <3>6, <3>7, <3>8 DEF Live
  <2> QED  BY <2>6, <2>7
<1>5. \A i \in Ids : (\E e \in Picked(k) : touched[e] = i) =>
        \E e \in Picked(k) : touched[e] = i /\ written[i] = Imported(k, e, i, touched)
  <2> SUFFICES ASSUME NEW i \in Ids, \E e \in Picked(k) : touched[e] = i
               PROVE  \E e \in Picked(k) : touched[e] = i /\ written[i] = Imported(k, e, i, touched)
    OBVIOUS
  <2>1. PICK e : e = CHOOSE f \in Picked(k) : touched[f] = i
    OBVIOUS
  <2>2. e \in Picked(k) /\ touched[e] = i
    BY <2>1
  <2>3. written[i] = Imported(k, e, i, touched)
    BY <1>0, <2>1, Zenon DEF Synced
  <2> QED  BY <2>2, <2>3
<1>6. ASSUME NEW i \in Ids
      PROVE  /\ written[i] \in Device
             /\ (\E e \in Picked(k) : touched[e] = i) => written[i].live
             /\ Live(i) => /\ written[i].live /\ written[i].proxy = rows[i].proxy /\ written[i].key = rows[i].key
                           /\ written[i].name = rows[i].name
             /\ written[i].live => Live(i) \/ i \in new
             /\ written[i].live => \/ Live(i) /\ written[i].peer = rows[i].peer
                                   \/ written[i].peer = NoRow
                                   \/ \E f \in Picked(k) : written[i].peer = touched[f]
  <2>1. CASE \E e \in Picked(k) : touched[e] = i
    <3>1. PICK e \in Picked(k) : touched[e] = i /\ written[i] = Imported(k, e, i, touched)
      BY <1>5, <2>1
    <3> QED  BY <1>4, <3>1
  <2>2. CASE ~\E e \in Picked(k) : touched[e] = i
    BY <1>2, <1>3, <2>2 DEF Live
  <2> QED  BY <2>1, <2>2
<1>7. written \in [Ids -> Device]
  <2>1. written = [i \in Ids |-> written[i]]
    BY DEF Synced
  <2> QED  BY <1>6, <2>1
<1> QED  BY <1>1, <1>6, <1>7

(* The ids of the rows inserted are the next ones.                          *)
LEMMA NewIds ==
  ASSUME IInv, NEW k \in Syncs, NEW new, new = next..next + Cardinality(Fresh(k)) - 1
  PROVE  /\ next + Cardinality(new) \in Nat /\ next + Cardinality(new) >= next
         /\ \A i \in new : i >= next /\ i < next + Cardinality(new)
<1>1. IsFiniteSet(Fresh(k))
  <2>1. Fresh(k) \in SUBSET sync[k].list
    BY DEF Fresh, Picked
  <2> QED  BY <2>1, FS_Subset DEF IInv, ListInv
<1>2. PICK c \in Nat : c = Cardinality(Fresh(k))
  BY <1>1, FS_CardinalityType
<1>3. next \in Nat /\ new = next..next + c - 1
  BY <1>2 DEF IInv, TypeOK
<1>4. Cardinality(new) = IF next <= next + c - 1 THEN (next + c - 1) - next + 1 ELSE 0
  <2>1. next \in Int /\ next + c - 1 \in Int
    BY <1>3
  <2> QED  BY <1>3, <2>1, FS_Interval
<1>5. Cardinality(new) = c
  BY <1>3, <1>4
<1>6. ASSUME NEW i \in new  PROVE i >= next /\ i < next + c
  <2>1. i \in next..next + c - 1
    BY <1>3, Zenon
  <2> QED  BY <1>2, <1>3, <2>1
<1>7. next + c \in Nat /\ next + c >= next
  BY <1>3
<1> QED  BY <1>5, <1>6, <1>7

(* What a sync that succeeds has done to the rows.                          *)
LEMMA Wrote ==
  ASSUME IInv, NEW k \in Syncs, Write(k)
  PROVE  \/ /\ sync' = [sync EXCEPT ![k] = Off] /\ UNCHANGED <<rows, next, reach>>
         \/ /\ sync' = [sync EXCEPT ![k] = Onward(k)] /\ reach' \in [Panos -> BOOLEAN]
            /\ \E new \in SUBSET Ids :
                 /\ next' = next + Cardinality(new) /\ new = next..next + Cardinality(Fresh(k)) - 1
                 /\ \E touched \in [Picked(k) -> Ids] :
                      /\ \A e \in Picked(k) : rows'[touched[e]].live
                      /\ \A i \in Ids : rows'[i].live =>
                           \/ Live(i) /\ rows'[i].peer = rows[i].peer
                           \/ rows'[i].peer = NoRow
                           \/ \E f \in Picked(k) : rows'[i].peer = touched[f]
                 /\ rows' \in [Ids -> Device]
                 /\ \A i \in Ids : rows'[i].live => Live(i) \/ i \in new
            /\ \A i \in Ids : Live(i) =>
                 /\ rows'[i].live /\ rows'[i].proxy = rows[i].proxy /\ rows'[i].key = rows[i].key
                 /\ rows'[i].name = rows[i].name
<1>1. PICK new : new = next..next + Cardinality(Fresh(k)) - 1
  OBVIOUS
<1>2. new \in SUBSET Ids
  BY <1>1 DEF Write
<1>3. PICK born \in [Fresh(k) -> new] :
        \E touched \in {Touched(k, born)} : \E written \in {Synced(k, touched)} :
          IF /\ sync[k].pano \in panos
             /\ \A e \in Picked(k) \ Fresh(k) : Live(touched[e])
             /\ Unique(written)
            THEN /\ rows' = written /\ next' = next + Cardinality(new)
                 /\ reach' = [reach EXCEPT ![sync[k].pano] = TRUE]
                 /\ sync' = [sync EXCEPT ![k] = Onward(k)]
            ELSE /\ sync' = [sync EXCEPT ![k] = Off] /\ UNCHANGED <<rows, next, reach>>
  BY <1>1, Zenon DEF Write
<1>3a. PICK touched, written :
        /\ touched = Touched(k, born) /\ written = Synced(k, touched)
        /\ IF /\ sync[k].pano \in panos
              /\ \A e \in Picked(k) \ Fresh(k) : Live(touched[e])
              /\ Unique(written)
             THEN /\ rows' = written /\ next' = next + Cardinality(new)
                  /\ reach' = [reach EXCEPT ![sync[k].pano] = TRUE]
                  /\ sync' = [sync EXCEPT ![k] = Onward(k)]
             ELSE /\ sync' = [sync EXCEPT ![k] = Off] /\ UNCHANGED <<rows, next, reach>>
  BY <1>3, Zenon
<1>4. CASE ~(/\ sync[k].pano \in panos
             /\ \A e \in Picked(k) \ Fresh(k) : Live(touched[e])
             /\ Unique(written))
  BY <1>3a, <1>4
<1>5. CASE /\ sync[k].pano \in panos
           /\ \A e \in Picked(k) \ Fresh(k) : Live(touched[e])
           /\ Unique(written)
  <2>1. /\ rows' = written /\ next' = next + Cardinality(new)
        /\ reach' = [reach EXCEPT ![sync[k].pano] = TRUE]
        /\ sync' = [sync EXCEPT ![k] = Onward(k)]
    BY <1>3a, <1>5
  <2>2. sync[k].pano \in Panos /\ reach' \in [Panos -> BOOLEAN]
    BY <1>5, <2>1 DEF IInv, TypeOK
  <2>3. \A i \in new : i >= next
    BY <1>1, NewIds
  <2>4. /\ written \in [Ids -> Device]
        /\ \A e \in Picked(k) : touched[e] \in Ids /\ written[touched[e]].live
        /\ \A i \in Ids : Live(i) =>
             /\ written[i].live /\ written[i].proxy = rows[i].proxy /\ written[i].key = rows[i].key
             /\ written[i].name = rows[i].name
        /\ \A i \in Ids : written[i].live => Live(i) \/ i \in new
        /\ \A i \in Ids : written[i].live =>
             \/ Live(i) /\ written[i].peer = rows[i].peer
             \/ written[i].peer = NoRow
             \/ \E f \in Picked(k) : written[i].peer = touched[f]
    <3>1. /\ touched = Touched(k, born) /\ written = Synced(k, touched)
          /\ \A e \in Picked(k) \ Fresh(k) : Live(touched[e])
      BY <1>3a, <1>5
    <3>2. born \in [Fresh(k) -> new]
      BY <1>3
    <3> QED  BY <1>2, <2>2, <2>3, <3>1, <3>2, Written, SMTT(120)
  <2>5. touched \in [Picked(k) -> Ids]
    <3>1. touched = [e \in Picked(k) |-> touched[e]]
      BY <1>3a DEF Touched
    <3> QED  BY <2>4, <3>1
  <2>6. \E t \in [Picked(k) -> Ids] :
          /\ \A e \in Picked(k) : rows'[t[e]].live
          /\ \A i \in Ids : rows'[i].live =>
               \/ Live(i) /\ rows'[i].peer = rows[i].peer
               \/ rows'[i].peer = NoRow
               \/ \E f \in Picked(k) : rows'[i].peer = t[f]
    <3> WITNESS touched \in [Picked(k) -> Ids]
    <3> QED  BY <2>1, <2>4
  <2>7. /\ rows' \in [Ids -> Device]
        /\ \A i \in Ids : rows'[i].live => Live(i) \/ i \in new
    BY <2>1, <2>4
  <2>8. \A i \in Ids : Live(i) =>
          /\ rows'[i].live /\ rows'[i].proxy = rows[i].proxy /\ rows'[i].key = rows[i].key
          /\ rows'[i].name = rows[i].name
    BY <2>1, <2>4
  <2> QED  BY <1>1, <1>2, <2>1, <2>2, <2>6, <2>7, <2>8, Zenon
<1> QED  BY <1>4, <1>5

LEMMA WriteStep ==
  ASSUME IInv, NEW k \in Syncs, Write(k)
  PROVE  IInv'
<1>1. UNCHANGED <<box, up, panos, probe, spent>> /\ next \in Nat
  BY DEF Write, IInv, TypeOK
<1>2. CASE sync' = [sync EXCEPT ![k] = Off] /\ UNCHANGED <<rows, next, reach>>
  <2>1. ListInv' /\ LoadInv' /\ sync' \in [Syncs -> Sync]
    <3>1. next' \in Nat /\ next' >= next
      BY <1>1, <1>2
    <3> QED  BY <1>2, <3>1, SyncOff
  <2>2. TypeOK'
    BY <1>1, <1>2, <2>1 DEF IInv, TypeOK
  <2> QED  BY <1>2, <2>1, <2>2, SameRows DEF IInv
<1>3. CASE ~(sync' = [sync EXCEPT ![k] = Off] /\ UNCHANGED <<rows, next, reach>>)
  <2>1. sync' = [sync EXCEPT ![k] = Onward(k)] /\ reach' \in [Panos -> BOOLEAN]
    BY <1>3, Wrote
  <2>2. PICK new \in SUBSET Ids, touched \in [Picked(k) -> Ids] :
          /\ next' = next + Cardinality(new) /\ new = next..next + Cardinality(Fresh(k)) - 1
          /\ \A e \in Picked(k) : rows'[touched[e]].live
          /\ \A i \in Ids : rows'[i].live =>
               \/ Live(i) /\ rows'[i].peer = rows[i].peer
               \/ rows'[i].peer = NoRow
               \/ \E f \in Picked(k) : rows'[i].peer = touched[f]
          /\ rows' \in [Ids -> Device]
          /\ \A i \in Ids : rows'[i].live => Live(i) \/ i \in new
    BY <1>3, Wrote
  <2>3. \A i \in Ids : Live(i) => rows'[i].live
    BY <1>3, Wrote
  <2>4. next' \in Nat /\ next' >= next /\ \A i \in new : i < next'
    BY <2>2, NewIds
  <2>5. ListInv' /\ LoadInv' /\ sync' \in [Syncs -> Sync]
    <3>1. PICK at \in {"off", "next"}, todo \in SUBSET Panos : Onward(k) = [Off EXCEPT !.at = at, !.todo = todo]
      <4>1. sync[k].todo \ {sync[k].pano} \in SUBSET Panos
        BY DEF IInv, TypeOK, Sync
      <4> QED  BY <4>1 DEF Onward
    <3> QED  BY <2>1, <2>4, <3>1, SyncNext
  <2>6. TypeOK'
    BY <1>1, <2>1, <2>2, <2>4, <2>5 DEF IInv, TypeOK
  <2>7. NextInv'
    <3>1. Ids \subseteq Nat
      BY InventoryAssumption
    <3>2. ASSUME NEW i \in Ids, rows'[i].live  PROVE i < next'
      BY <1>1, <2>2, <2>4, <3>1, <3>2 DEF IInv, NextInv
    <3> QED  BY <3>2 DEF NextInv, Live
  <2>8. PeersAlive'
    <3>1. ASSUME NEW i \in Ids, rows'[i].live, rows'[i].peer # NoRow  PROVE rows'[rows'[i].peer].live
      <4>1. CASE Live(i) /\ rows'[i].peer = rows[i].peer
        <5>1. rows[i].peer \in Ids /\ Live(rows[i].peer)
          BY <3>1, <4>1 DEF IInv, PeersAlive, TypeOK, Device
        <5> QED  BY <2>3, <4>1, <5>1
      <4>2. CASE \E f \in Picked(k) : rows'[i].peer = touched[f]
        BY <2>2, <4>2
      <4> QED  BY <2>2, <3>1, <4>1, <4>2
    <3> QED  BY <3>1 DEF PeersAlive, Live
  <2> QED  BY <2>5, <2>6, <2>7, <2>8 DEF IInv
<1> QED  BY <1>2, <1>3

LEMMA LostStep ==
  ASSUME IInv, NEW k \in Syncs, Lost(k)
  PROVE  IInv'
<1>1. UNCHANGED <<box, up, panos, reach, rows, next, probe>> /\ next' = next /\ next \in Nat /\ next >= next
  BY DEF Lost, Still, IInv, TypeOK
<1>2. sync' = [sync EXCEPT ![k] = Off] /\ spent' \in [requests : 0..MaxRequests, swaps : 0..MaxSwaps, faults : 0..MaxFaults]
  BY SpendType DEF Lost, IInv
<1>3. ListInv' /\ LoadInv' /\ sync' \in [Syncs -> Sync]
  BY <1>1, <1>2, SyncOff
<1>4. TypeOK'
  BY <1>1, <1>2, <1>3 DEF IInv, TypeOK
<1> QED  BY <1>1, <1>3, <1>4, SameRows DEF IInv


-------------------------------------------------------------------------------
(* Probes and polls.                                                        *)

LEMMA ClientType ==
  ASSUME TypeOK, NEW d \in Device
  PROVE  build_client_with_fallback(d) \in SUBSET Sites
BY DEF build_client_with_fallback, Targets, Device

LEMMA HealthType ==
  ASSUME TypeOK, NEW d \in Device, _mark_panorama_health(d)
  PROVE  reach' \in [Panos -> BOOLEAN]
<1>0. PICK p : p = d.pano
  OBVIOUS
<1>1. PICK b \in BOOLEAN : b = (d.pano \in up)
  <2>1. (d.pano \in up) \in BOOLEAN
    OBVIOUS
  <2> QED  BY <2>1, Zenon
<1>2. reach' = reach \/ reach' = [reach EXCEPT ![p] = b]
  BY <1>0, <1>1, Zenon DEF _mark_panorama_health
<1>3. reach \in [Panos -> BOOLEAN]
  BY DEF TypeOK
<1> QED  BY <1>2, <1>3

(* A call that is answered, or is not, leaves rows and syncs alone.         *)
LEMMA CallStep ==
  ASSUME IInv, NEW i \in Ids, Dial(i) \/ Mute(i)
  PROVE  IInv'
<1>1. PICK d \in Device : d = rows[i]
  BY DEF IInv, TypeOK
<1>2. ASSUME NEW s \in Sites  PROVE [id |-> i, info |-> {Info(s)}] \in [id : Ids \cup {NoRow}, info : SUBSET Entry]
  BY SerialType DEF IInv
<1>3. UNCHANGED <<box, up, panos, rows, next, sync>> /\ next \in Nat
  BY DEF Dial, Mute, IInv, TypeOK
<1>4. /\ reach' \in [Panos -> BOOLEAN] /\ probe' \in [id : Ids \cup {NoRow}, info : SUBSET Entry]
      /\ spent' \in [requests : 0..MaxRequests, swaps : 0..MaxSwaps, faults : 0..MaxFaults]
  <2>1. CASE Dial(i)
    <3>1. reach' \in [Panos -> BOOLEAN] /\ UNCHANGED spent
      BY <1>1, <2>1, HealthType DEF Dial, IInv
    <3>2. probe' = NoProbe \/ \E s \in build_client_with_fallback(d) : probe' = [id |-> i, info |-> {Info(s)}]
      BY <1>1, <2>1 DEF Dial
    <3>3. probe' \in [id : Ids \cup {NoRow}, info : SUBSET Entry]
      BY <1>1, <1>2, <3>2, ClientType, NoProbeType DEF IInv
    <3> QED  BY <3>1, <3>3 DEF IInv, TypeOK
  <2>2. CASE Mute(i)
    <3>1. reach' \in [Panos -> BOOLEAN]
      BY <2>2 DEF Mute, IInv, TypeOK
    <3>2. probe' = NoProbe \/ probe' = [id |-> i, info |-> {Info(d.site)}]
      BY <1>1, <2>2 DEF Mute
    <3>3. probe' \in [id : Ids \cup {NoRow}, info : SUBSET Entry]
      <4>1. d.site \in Sites
        BY DEF Device
      <4> QED  BY <1>2, <3>2, <4>1, NoProbeType
    <3> QED  BY <2>2, <3>1, <3>3, SpendType DEF Mute, IInv
  <2> QED  BY <2>1, <2>2
<1>5. TypeOK'
  BY <1>3, <1>4 DEF IInv, TypeOK
<1>6. ListInv' /\ LoadInv'
  BY <1>3, SameSyncs
<1> QED  BY <1>3, <1>5, <1>6, SameRows DEF IInv

(* What a probe may write to a row.                                         *)
LEMMA Probed ==
  ASSUME IInv, NEW d \in Device, NEW info \in Entry
  PROVE  /\ probe_device(d, info) \in Device
         /\ probe_device(d, info).live = d.live /\ probe_device(d, info).proxy = d.proxy
         /\ probe_device(d, info).key = d.key
         /\ d.name \notin {hostname(d.site), info.serial} => probe_device(d, info).name = d.name
         /\ probe_device(d, info).peer = d.peer \/ \E j \in Ids : Live(j) /\ probe_device(d, info).peer = j
<1> DEFINE peers == {i \in Ids : Live(i) /\ rows[i].serial = info.peer}
<1>1. PICK name : name = IF d.name \in {hostname(d.site), info.serial} THEN info.name ELSE d.name
  OBVIOUS
<1>2. PICK peer : peer = IF info.peer = Nothing \/ peers = {} THEN d.peer ELSE CHOOSE i \in peers : TRUE
  OBVIOUS
<1>3. peers # {} => (CHOOSE i \in peers : TRUE) \in peers
  OBVIOUS
<1>4. peer = d.peer \/ \E j \in Ids : Live(j) /\ peer = j
  BY <1>2, <1>3
<1>5. name \in Names \cup {Nothing} /\ peer \in Ids \cup {NoRow} /\ info.serial \in Serials
  BY <1>1, <1>4 DEF Device, Entry
<1>6. probe_device(d, info) = [d EXCEPT !.serial = info.serial, !.name = name, !.peer = peer]
  BY <1>1, <1>2, Zenon DEF probe_device
<1> HIDE DEF peers
<1>7. /\ [d EXCEPT !.serial = info.serial, !.name = name, !.peer = peer] \in Device
      /\ [d EXCEPT !.serial = info.serial, !.name = name, !.peer = peer].live = d.live
      /\ [d EXCEPT !.serial = info.serial, !.name = name, !.peer = peer].proxy = d.proxy
      /\ [d EXCEPT !.serial = info.serial, !.name = name, !.peer = peer].key = d.key
      /\ [d EXCEPT !.serial = info.serial, !.name = name, !.peer = peer].name = name
      /\ [d EXCEPT !.serial = info.serial, !.name = name, !.peer = peer].peer = peer
  BY <1>5 DEF Device
<1> QED  BY <1>1, <1>4, <1>6, <1>7

(* One row is written, and stays alive if it was.                           *)
LEMMA RowStep ==
  ASSUME IInv, NEW i \in Ids, NEW d \in Device, rows' = [rows EXCEPT ![i] = d], d.live = rows[i].live,
         d.peer = rows[i].peer \/ \E j \in Ids : Live(j) /\ d.peer = j,
         UNCHANGED next
  PROVE  rows' \in [Ids -> Device] /\ NextInv' /\ PeersAlive'
<1>1. rows' \in [Ids -> Device] /\ \A j \in Ids : rows'[j] = IF j = i THEN d ELSE rows[j]
  BY DEF IInv, TypeOK
<1>2. \A j \in Ids : rows'[j].live = rows[j].live
  BY <1>1
<1>3. NextInv'
  BY <1>2 DEF IInv, NextInv, Live
<1>4. ASSUME NEW j \in Ids, rows'[j].live, rows'[j].peer # NoRow  PROVE rows'[rows'[j].peer].live
  <2>1. rows'[j].peer = rows[j].peer \/ \E h \in Ids : Live(h) /\ rows'[j].peer = h
    BY <1>1
  <2>2. CASE rows'[j].peer = rows[j].peer
    <3>1. Live(rows[j].peer) /\ rows[j].peer \in Ids
      BY <1>2, <1>4, <2>2 DEF IInv, PeersAlive, Live, TypeOK, Device
    <3> QED  BY <1>2, <2>2, <3>1 DEF Live
  <2>3. CASE \E h \in Ids : Live(h) /\ rows'[j].peer = h
    BY <1>2, <2>3 DEF Live
  <2> QED  BY <2>1, <2>2, <2>3
<1> QED  BY <1>1, <1>3, <1>4 DEF PeersAlive, Live

LEMMA LandStep ==
  ASSUME IInv, Land
  PROVE  IInv'
<1>1. UNCHANGED <<box, up, panos, reach, next, sync, spent>> /\ probe' = NoProbe /\ next \in Nat
  BY DEF Land, IInv, TypeOK
<1>2. PICK info \in Entry : \/ UNCHANGED rows
                            \/ rows' = [rows EXCEPT ![probe.id] = probe_device(rows[probe.id], info)]
  BY Zenon DEF Land, IInv, TypeOK
<1>3. rows' \in [Ids -> Device] /\ NextInv' /\ PeersAlive'
  <2>1. CASE UNCHANGED rows
    BY <1>1, <2>1, SameRows DEF IInv, TypeOK
  <2>2. CASE probe.id \in Ids /\ rows' = [rows EXCEPT ![probe.id] = probe_device(rows[probe.id], info)]
    <3>1. PICK i, d, q : i \in Ids /\ d \in Device /\ i = probe.id /\ d = rows[i] /\ q = probe_device(d, info)
      BY <2>2 DEF IInv, TypeOK
    <3>2. /\ q \in Device /\ q.live = d.live
          /\ q.peer = d.peer \/ \E j \in Ids : Live(j) /\ q.peer = j
      BY <3>1, Probed
    <3>3. rows' = [rows EXCEPT ![i] = q]
      BY <2>2, <3>1
    <3> QED  BY <1>1, <3>1, <3>2, <3>3, RowStep
  <2>3. CASE probe.id \notin Ids /\ rows' = [rows EXCEPT ![probe.id] = probe_device(rows[probe.id], info)]
    <3>1. rows' = rows
      BY <2>3 DEF IInv, TypeOK
    <3> QED  BY <1>1, <3>1, SameRows DEF IInv, TypeOK
  <2> QED  BY <1>2, <2>1, <2>2, <2>3
<1>4. TypeOK'
  BY <1>1, <1>3, NoProbeType DEF IInv, TypeOK
<1>5. ListInv' /\ LoadInv'
  BY <1>1, SameSyncs
<1> QED  BY <1>3, <1>4, <1>5 DEF IInv

LEMMA PopulateStep ==
  ASSUME IInv, NEW i \in Ids, _lazy_populate_device_metadata(i)
  PROVE  IInv'
<1>1. UNCHANGED <<box, up, panos, reach, next, sync, probe, spent>> /\ next \in Nat
  BY DEF _lazy_populate_device_metadata, IInv, TypeOK
<1>2. PICK d \in Device : d = rows[i]
  BY DEF IInv, TypeOK
<1>3. PICK s \in build_client_with_fallback(d) : rows' = [rows EXCEPT ![i].serial = Serial(s)]
  BY <1>2 DEF _lazy_populate_device_metadata
<1>4. PICK serial \in Serials : serial = Serial(s)
  BY <1>3, ClientType, SerialType DEF IInv
<1>5. PICK q : q = [d EXCEPT !.serial = serial]
  OBVIOUS
<1>6. q \in Device /\ q.live = d.live /\ q.peer = d.peer
  BY <1>5 DEF Device
<1>7. rows' = [rows EXCEPT ![i] = q]
  BY <1>2, <1>3, <1>4, <1>5, Zenon
<1>8. rows' \in [Ids -> Device] /\ NextInv' /\ PeersAlive'
  BY <1>1, <1>2, <1>6, <1>7, RowStep
<1>9. TypeOK'
  BY <1>1, <1>8 DEF IInv, TypeOK
<1>10. ListInv' /\ LoadInv'
  BY <1>1, SameSyncs
<1> QED  BY <1>8, <1>9, <1>10 DEF IInv


-------------------------------------------------------------------------------
(* The operator.                                                            *)

LEMMA CreateStep ==
  ASSUME IInv, create_device
  PROVE  IInv'
<1>1. UNCHANGED <<box, up, panos, reach, sync, probe>> /\ next \in Ids /\ next \in Nat /\ next' = next + 1
  BY DEF create_device, Quiet, IInv, TypeOK
<1>2. spent' \in [requests : 0..MaxRequests, swaps : 0..MaxSwaps, faults : 0..MaxFaults]
  BY SpendType DEF create_device, IInv
<1>3. PICK s \in Sites, proxy \in BOOLEAN, n \in {"host", "own"} :
        /\ rows' = [rows EXCEPT ![next] =
             [Unborn EXCEPT !.live = TRUE, !.name = IF n = "host" THEN hostname(s) ELSE Nickname(s), !.site = s,
                !.pano = IF proxy THEN Home[s] ELSE NoPano, !.proxy = proxy, !.key = ~proxy]]
  BY Zenon DEF create_device
<1>4. PICK name \in Names : name = IF n = "host" THEN hostname(s) ELSE Nickname(s)
  BY SerialType DEF IInv
<1>5. PICK pano \in Panos \cup {NoPano} : pano = IF proxy THEN Home[s] ELSE NoPano
  BY InventoryAssumption
<1>6. PICK key \in BOOLEAN : key = ~proxy
  OBVIOUS
<1>7. PICK d : d = [Unborn EXCEPT !.live = TRUE, !.name = name, !.site = s, !.pano = pano, !.proxy = proxy, !.key = key]
  OBVIOUS
<1>8. d \in Device /\ d.live /\ d.peer = NoRow
  <2>1. PICK u \in Device : u = Unborn /\ u.peer = NoRow
    BY UnbornType
  <2> QED  BY <1>7, <2>1 DEF Device
<1>9. rows' = [rows EXCEPT ![next] = d]
  BY <1>3, <1>4, <1>5, <1>6, <1>7, Zenon
<1>10. rows' \in [Ids -> Device] /\ \A j \in Ids : rows'[j] = IF j = next THEN d ELSE rows[j]
  BY <1>1, <1>8, <1>9 DEF IInv, TypeOK
<1>11. NextInv'
  <2>1. Ids \subseteq Nat
    BY InventoryAssumption
  <2> QED  BY <1>1, <1>10, <2>1 DEF IInv, NextInv, Live
<1>12. PeersAlive'
  <2>1. ASSUME NEW j \in Ids, rows'[j].live, rows'[j].peer # NoRow  PROVE rows'[rows'[j].peer].live
    <3>1. rows'[j] = rows[j] /\ Live(rows[j].peer) /\ rows[j].peer \in Ids
      BY <1>8, <1>10, <2>1 DEF IInv, PeersAlive, Live, TypeOK, Device
    <3> QED  BY <1>8, <1>10, <3>1 DEF Live
  <2> QED  BY <2>1 DEF PeersAlive, Live
<1>13. TypeOK'
  BY <1>1, <1>2, <1>10 DEF IInv, TypeOK
<1>14. ListInv' /\ LoadInv'
  <2>1. next' \in Nat /\ next' >= next
    BY <1>1
  <2> QED  BY <1>1, <2>1, SameSyncs
<1> QED  BY <1>11, <1>12, <1>13, <1>14 DEF IInv

(* A request that has rewritten the rows.                                   *)
LEMMA RequestStep ==
  ASSUME IInv, Request, UNCHANGED next, Quiet, rows' \in [Ids -> Device], PeersAlive',
         \A i \in Ids : rows'[i].live => Live(i)
  PROVE  IInv'
<1>1. UNCHANGED <<box, up, panos, reach, sync, probe, next>> /\ next \in Nat
  BY DEF Quiet, IInv, TypeOK
<1>2. TypeOK'
  BY <1>1, SpendType DEF IInv, TypeOK
<1>3. ListInv' /\ LoadInv'
  BY <1>1, SameSyncs
<1>4. NextInv'
  BY <1>1 DEF IInv, NextInv, Live
<1> QED  BY <1>2, <1>3, <1>4 DEF IInv

LEMMA UpdateStep ==
  ASSUME IInv, NEW i \in Ids, update_device(i)
  PROVE  IInv'
<1>1. PICK p \in panos \cup {NoPano}, proxy \in BOOLEAN, auth \in BOOLEAN :
        rows' = [rows EXCEPT ![i] = [rows[i] EXCEPT !.pano = p, !.proxy = proxy, !.key = rows[i].key \/ auth]]
  BY Zenon DEF update_device
<1>2. PICK d \in Device : d = rows[i]
  BY DEF IInv, TypeOK
<1>3. PICK key \in BOOLEAN : key = (d.key \/ auth)
  OBVIOUS
<1>4. PICK q : q = [d EXCEPT !.pano = p, !.proxy = proxy, !.key = key]
  OBVIOUS
<1>5. p \in Panos \cup {NoPano}
  BY DEF IInv, TypeOK
<1>6. q \in Device /\ q.live = d.live /\ q.peer = d.peer
  BY <1>4, <1>5 DEF Device
<1>7. rows' = [rows EXCEPT ![i] = q]
  BY <1>1, <1>2, <1>3, <1>4, Zenon
<1>8. Request /\ UNCHANGED next /\ Quiet
  BY DEF update_device
<1>9. rows' \in [Ids -> Device] /\ PeersAlive'
  BY <1>2, <1>6, <1>7, <1>8, RowStep
<1>10. \A j \in Ids : rows'[j].live => Live(j)
  BY <1>2, <1>6, <1>7 DEF IInv, TypeOK, Live
<1> QED  BY <1>8, <1>9, <1>10, RequestStep

LEMMA DeleteStep ==
  ASSUME IInv, NEW i \in Ids, delete_device(i)
  PROVE  IInv'
<1>1. Request /\ UNCHANGED next /\ Quiet /\ rows' = [Unlinked(rows, i) EXCEPT ![i] = Unborn]
  BY DEF delete_device
<1>2. Unlinked(rows, i) = [j \in Ids |-> IF rows[j].peer = i THEN [rows[j] EXCEPT !.peer = NoRow] ELSE rows[j]]
  BY Zenon DEF Unlinked
<1>3. PICK free : free = [j \in Ids |-> IF rows[j].peer = i THEN [rows[j] EXCEPT !.peer = NoRow] ELSE rows[j]]
  OBVIOUS
<1>4. \A j \in Ids : /\ free[j] \in Device /\ free[j].live = rows[j].live
                     /\ free[j].peer = IF rows[j].peer = i THEN NoRow ELSE rows[j].peer
  <2> SUFFICES ASSUME NEW j \in Ids
               PROVE  /\ free[j] \in Device /\ free[j].live = rows[j].live
                      /\ free[j].peer = IF rows[j].peer = i THEN NoRow ELSE rows[j].peer
    OBVIOUS
  <2>1. PICK d \in Device : d = rows[j]
    BY DEF IInv, TypeOK
  <2>2. free[j] = IF d.peer = i THEN [d EXCEPT !.peer = NoRow] ELSE d
    BY <1>3, <2>1
  <2>3. /\ [d EXCEPT !.peer = NoRow] \in Device /\ [d EXCEPT !.peer = NoRow].live = d.live
        /\ [d EXCEPT !.peer = NoRow].peer = NoRow
    BY DEF Device
  <2> QED  BY <2>1, <2>2, <2>3
<1>5. free \in [Ids -> Device]
  <2>1. free = [j \in Ids |-> free[j]]
    BY <1>3
  <2> QED  BY <1>4, <2>1
<1>6. rows' = [free EXCEPT ![i] = Unborn]
  BY <1>1, <1>2, <1>3, Zenon
<1>7. rows' \in [Ids -> Device] /\ \A j \in Ids : rows'[j] = IF j = i THEN Unborn ELSE free[j]
  BY <1>5, <1>6, UnbornType
<1>8. \A j \in Ids : rows'[j].live => Live(j)
  BY <1>4, <1>7, UnbornType DEF Live
<1>9. PeersAlive'
  <2>1. ASSUME NEW j \in Ids, rows'[j].live, rows'[j].peer # NoRow  PROVE rows'[rows'[j].peer].live
    <3>1. j # i /\ rows'[j].peer = rows[j].peer /\ rows[j].peer # i /\ Live(j)
      BY <1>4, <1>7, <2>1, UnbornType DEF Live
    <3>2. rows[j].peer \in Ids /\ Live(rows[j].peer)
      BY <2>1, <3>1 DEF IInv, PeersAlive, TypeOK, Device
    <3> QED  BY <1>4, <1>7, <3>1, <3>2 DEF Live
  <2> QED  BY <2>1 DEF PeersAlive, Live
<1> QED  BY <1>1, <1>7, <1>8, <1>9, RequestStep

LEMMA ReplaceStep ==
  ASSUME IInv, NEW i \in Ids, NEW serial \in Serials, replace_serial(i, serial)
  PROVE  IInv'
<1> DEFINE dup == {j \in Ids : Live(j) /\ rows[j].serial = serial}
<1>1. Request /\ UNCHANGED next /\ Quiet /\ Live(i) /\ i \notin dup
  BY DEF replace_serial
<1>2. PICK kept : kept = [j \in Ids |-> IF j \in dup THEN Unborn
                                         ELSE IF rows[j].peer \in dup THEN [rows[j] EXCEPT !.peer = i] ELSE rows[j]]
  OBVIOUS
<1>3. rows' = [kept EXCEPT ![i].serial = serial, ![i].key = FALSE]
  BY <1>2, Zenon DEF replace_serial
<1> HIDE DEF dup
<1>4. \A j \in Ids : /\ kept[j] \in Device /\ (kept[j].live <=> rows[j].live /\ j \notin dup)
                     /\ j \notin dup => kept[j].peer = IF rows[j].peer \in dup THEN i ELSE rows[j].peer
  <2> SUFFICES ASSUME NEW j \in Ids
               PROVE  /\ kept[j] \in Device /\ (kept[j].live <=> rows[j].live /\ j \notin dup)
                      /\ j \notin dup => kept[j].peer = IF rows[j].peer \in dup THEN i ELSE rows[j].peer
    OBVIOUS
  <2>1. PICK d \in Device : d = rows[j]
    BY DEF IInv, TypeOK
  <2>2. kept[j] = IF j \in dup THEN Unborn ELSE IF d.peer \in dup THEN [d EXCEPT !.peer = i] ELSE d
    BY <1>2, <2>1
  <2>3. /\ [d EXCEPT !.peer = i] \in Device /\ [d EXCEPT !.peer = i].live = d.live
        /\ [d EXCEPT !.peer = i].peer = i /\ d.live \in BOOLEAN
    BY DEF Device
  <2> QED  BY <2>1, <2>2, <2>3, UnbornType
<1>5. kept \in [Ids -> Device]
  <2>1. kept = [j \in Ids |-> kept[j]]
    BY <1>2
  <2> QED  BY <1>4, <2>1
<1>6. PICK d \in Device : d = kept[i]
  BY <1>5
<1>7. PICK q : q = [d EXCEPT !.serial = serial, !.key = FALSE]
  OBVIOUS
<1>8. q \in Device /\ q.live = d.live /\ q.peer = d.peer
  BY <1>7 DEF Device
<1>9. rows' = [kept EXCEPT ![i] = q]
  BY <1>3, <1>5, <1>6, <1>7
<1>10. /\ rows' \in [Ids -> Device]
       /\ \A j \in Ids : rows'[j].live = kept[j].live /\ rows'[j].peer = kept[j].peer
  <2>1. rows' \in [Ids -> Device] /\ \A j \in Ids : rows'[j] = IF j = i THEN q ELSE kept[j]
    BY <1>5, <1>8, <1>9
  <2> QED  BY <1>6, <1>8, <2>1
<1>11. \A j \in Ids : rows'[j].live => Live(j)
  BY <1>4, <1>10 DEF Live
<1>12. PeersAlive'
  <2>1. ASSUME NEW j \in Ids, rows'[j].live, rows'[j].peer # NoRow  PROVE rows'[rows'[j].peer].live
    <3>1. /\ Live(j) /\ j \notin dup
          /\ rows'[j].peer = IF rows[j].peer \in dup THEN i ELSE rows[j].peer
      BY <1>4, <1>10, <2>1 DEF Live
    <3>2. rows'[i].live
      BY <1>1, <1>4, <1>10 DEF Live
    <3>3. CASE rows[j].peer \notin dup
      <4>1. rows[j].peer \in Ids /\ Live(rows[j].peer)
        BY <2>1, <3>1, <3>3 DEF IInv, PeersAlive, TypeOK, Device
      <4> QED  BY <1>4, <1>10, <3>1, <3>3, <4>1 DEF Live
    <3> QED  BY <3>1, <3>2, <3>3
  <2> QED  BY <2>1 DEF PeersAlive, Live
<1> QED  BY <1>1, <1>10, <1>11, <1>12, RequestStep


LEMMA PanoramaStep ==
  ASSUME IInv, NEW p \in Panos, delete_panorama(p)
  PROVE  IInv'
<1>1. UNCHANGED <<box, up, reach, rows, next, sync, probe>> /\ next \in Nat /\ panos' \in SUBSET Panos
  BY DEF delete_panorama, IInv, TypeOK
<1>2. TypeOK'
  BY <1>1, SpendType DEF delete_panorama, IInv, TypeOK
<1>3. ListInv' /\ LoadInv'
  BY <1>1, SameSyncs
<1> QED  BY <1>1, <1>2, <1>3, SameRows DEF IInv

-------------------------------------------------------------------------------
(* The network.                                                             *)

LEMMA NetworkStep ==
  ASSUME IInv, \/ \E s \in Sites : Swap(s) \/ Connect(s)
               \/ \E p \in Panos : Outage(p) \/ Recover(p)
  PROVE  IInv'
<1>1. UNCHANGED <<panos, reach, rows, next, sync, probe>> /\ next \in Nat
  BY DEF Swap, Connect, Outage, Recover, Network, IInv, TypeOK
<1>2. spent' \in [requests : 0..MaxRequests, swaps : 0..MaxSwaps, faults : 0..MaxFaults]
  BY SpendType DEF Swap, Connect, Outage, Recover, IInv, TypeOK
<1>3. up' \in SUBSET Panos /\ box' \in [Sites -> [hw : 1..MaxSwaps + 1, seen : BOOLEAN]]
  <2>1. CASE \E s \in Sites : Swap(s)
    <3>1. PICK s \in Sites : Swap(s)
      BY <2>1
    <3>2. PICK b \in [hw : 1..MaxSwaps + 1, seen : BOOLEAN] : b = box[s]
      BY DEF IInv, TypeOK
    <3>3. b.hw = 1 /\ box' = [box EXCEPT ![s] = [hw |-> b.hw + 1, seen |-> FALSE]] /\ UNCHANGED up
      BY <3>1, <3>2 DEF Swap
    <3>4. b.hw + 1 \in 1..MaxSwaps + 1
      <4>1. spent.swaps < MaxSwaps /\ spent.swaps \in 0..MaxSwaps /\ MaxSwaps \in Nat
        BY <3>1, InventoryAssumption DEF Swap, Spend, IInv, TypeOK
      <4> QED  BY <3>3, <4>1
    <3>5. [hw |-> b.hw + 1, seen |-> FALSE] \in [hw : 1..MaxSwaps + 1, seen : BOOLEAN]
      BY <3>4
    <3> QED  BY <3>3, <3>5 DEF IInv, TypeOK
  <2>2. CASE \E s \in Sites : Connect(s)
    <3>1. PICK s \in Sites : Connect(s)
      BY <2>2
    <3>2. PICK b \in [hw : 1..MaxSwaps + 1, seen : BOOLEAN] : b = box[s]
      BY DEF IInv, TypeOK
    <3>3. box' = [box EXCEPT ![s] = [b EXCEPT !.seen = TRUE]] /\ UNCHANGED up
      BY <3>1, <3>2, Zenon DEF Connect
    <3> QED  BY <3>3 DEF IInv, TypeOK
  <2>3. CASE \E p \in Panos : Outage(p) \/ Recover(p)
    BY <2>3 DEF Outage, Recover, IInv, TypeOK
  <2> QED  BY <2>1, <2>2, <2>3
<1>4. TypeOK'
  BY <1>1, <1>2, <1>3 DEF IInv, TypeOK
<1>5. ListInv' /\ LoadInv'
  BY <1>1, SameSyncs
<1> QED  BY <1>1, <1>4, <1>5, SameRows DEF IInv

-------------------------------------------------------------------------------
(* The invariant.                                                           *)

LEMMA Initially == Init => IInv
<1> SUFFICES ASSUME Init PROVE IInv
  OBVIOUS
<1>1. sync \in [Syncs -> Sync] /\ \A k \in Syncs : sync[k] = Off
  BY OffType DEF Init
<1>2. ListInv
  BY <1>1, OffType, FS_EmptySet DEF ListInv
<1>3. LoadInv
  BY <1>1, OffType, UnbornType DEF LoadInv
<1>4. rows \in [Ids -> Device] /\ \A i \in Ids : ~Live(i)
  BY UnbornType DEF Init, Live
<1>5. NextInv /\ PeersAlive
  BY <1>4 DEF NextInv, PeersAlive
<1>6. /\ box \in [Sites -> [hw : 1..MaxSwaps + 1, seen : BOOLEAN]]
      /\ up \subseteq Panos /\ panos \subseteq Panos /\ reach \in [Panos -> BOOLEAN] /\ next \in Nat
      /\ spent \in [requests : 0..MaxRequests, swaps : 0..MaxSwaps, faults : 0..MaxFaults]
  <2>1. MaxRequests \in Nat /\ MaxSwaps \in Nat /\ MaxFaults \in Nat
    BY InventoryAssumption
  <2> QED  BY <2>1 DEF Init
<1>7. TypeOK
  BY <1>1, <1>4, <1>6, NoProbeType DEF TypeOK, Init
<1> QED  BY <1>2, <1>3, <1>5, <1>7 DEF IInv

LEMMA Inductive == IInv /\ [Next]_vars => IInv'
<1> SUFFICES ASSUME IInv, [Next]_vars PROVE IInv'
  OBVIOUS
<1>1. "beat" \in Syncs /\ "route" \in Syncs
  BY DEF Syncs
<1>2. CASE Scheduled
  BY <1>1, <1>2, SyncAllStep, FetchesStep, ReadStep, WriteStep DEF Scheduled
<1>3. CASE Asked
  BY <1>1, <1>3, FetchesStep, ReadStep, WriteStep DEF Asked
<1>4. CASE \E k \in Syncs : Lost(k)
  BY <1>4, LostStep
<1>5. CASE Land
  BY <1>5, LandStep
<1>6. CASE \E i \in Ids : Dial(i) \/ Mute(i) \/ _lazy_populate_device_metadata(i)
  BY <1>6, CallStep, PopulateStep
<1>7. CASE Operator
  <2>1. CASE \E i \in Ids, s \in Sites : replace_serial(i, Serial(s))
    <3>1. PICK i \in Ids, s \in Sites, serial \in Serials : serial = Serial(s) /\ replace_serial(i, serial)
      BY <2>1, SerialType DEF IInv
    <3> QED  BY <3>1, ReplaceStep
  <2> QED  BY <1>7, <2>1, CreateStep, UpdateStep, DeleteStep, PanoramaStep DEF Operator
<1>8. CASE Back
  BY <1>8, NetworkStep DEF Back
<1>9. CASE (\E p \in Panos : Outage(p)) \/ \E s \in Sites : Swap(s) \/ Connect(s)
  BY <1>9, NetworkStep
<1>10. CASE UNCHANGED vars
  <2>1. UNCHANGED <<box, up, panos, reach, rows, next, sync, probe, spent>> /\ next \in Nat
    BY <1>10 DEF vars, IInv, TypeOK
  <2>2. TypeOK'
    BY <2>1 DEF IInv, TypeOK
  <2>3. ListInv' /\ LoadInv'
    BY <2>1, SameSyncs
  <2> QED  BY <2>1, <2>2, <2>3, SameRows DEF IInv
<1> QED  BY <1>2, <1>3, <1>4, <1>5, <1>6, <1>7, <1>8, <1>9, <1>10 DEF Next

LEMMA Always == Spec => []IInv
BY Initially, Inductive, PTL DEF Spec

(* The type invariant holds, for any network and any number of requests.    *)
THEOREM InventoryTypeCorrect == Spec => []TypeOK
<1>1. IInv => TypeOK
  BY DEF IInv
<1> QED  BY <1>1, Always, PTL

(* No HA link points to a row that has gone, whatever syncs, probes,        *)
(* deletions and replacements cross: the foreign key is never in the way of *)
(* one of them.                                                             *)
THEOREM PeersAlwaysAlive == Spec => []PeersAlive
<1>1. IInv => PeersAlive
  BY DEF IInv
<1> QED  BY <1>1, Always, PTL


-------------------------------------------------------------------------------
(* The settings.                                                            *)

Kept ==
  \A i \in Ids : Live(i) =>
    /\ rows'[i].live /\ rows'[i].proxy = rows[i].proxy /\ rows'[i].key = rows[i].key
    /\ (\E s \in Sites : rows[i].name = Nickname(s)) => rows'[i].name = rows[i].name

LEMMA SameKept == UNCHANGED rows => Kept
BY DEF Kept, Live

(* A request is counted.                                                    *)
LEMMA Requested ==
  ASSUME IInv, Request
  PROVE  spent'.requests # spent.requests
<1>1. spent' = [spent EXCEPT !.requests = spent.requests + 1]
  BY Zenon DEF Request, Spend
<1>2. spent \in [requests : 0..MaxRequests, swaps : 0..MaxSwaps, faults : 0..MaxFaults] /\ MaxRequests \in Nat
  BY InventoryAssumption DEF IInv, TypeOK
<1>3. spent'.requests = spent.requests + 1 /\ spent.requests \in 0..MaxRequests
  BY <1>1, <1>2
<1> QED  BY <1>2, <1>3

(* A name of the operator's own is neither a hostname nor a serial.         *)
LEMMA OwnNames ==
  ASSUME NEW s \in Sites, NEW t \in Sites, NEW serial \in Serials
  PROVE  Nickname(s) \notin {hostname(t), serial}
<1>1. Nickname(s) # hostname(t)
  BY DEF Nickname, hostname
<1>2. PICK r \in Sites, n \in 1..MaxSwaps + 1 : serial = <<r, n>>
  BY DEF Serials
<1>3. n # 0
  BY InventoryAssumption, <1>2
<1> QED  BY <1>1, <1>2, <1>3 DEF Nickname

LEMMA LandKeeps ==
  ASSUME IInv, Land
  PROVE  Kept
<1>1. PICK info \in Entry : \/ UNCHANGED rows
                            \/ rows' = [rows EXCEPT ![probe.id] = probe_device(rows[probe.id], info)]
  BY Zenon DEF Land, IInv, TypeOK
<1>2. CASE rows' = [rows EXCEPT ![probe.id] = probe_device(rows[probe.id], info)]
  <2> SUFFICES ASSUME NEW i \in Ids, Live(i)
               PROVE  /\ rows'[i].live /\ rows'[i].proxy = rows[i].proxy /\ rows'[i].key = rows[i].key
                      /\ (\E s \in Sites : rows[i].name = Nickname(s)) => rows'[i].name = rows[i].name
    BY DEF Kept
  <2>1. CASE probe.id = i
    <3>1. PICK d, q : d \in Device /\ d = rows[i] /\ q = probe_device(d, info)
      BY DEF IInv, TypeOK
    <3>2. rows'[i] = q
      BY <1>2, <2>1, <3>1 DEF IInv, TypeOK
    <3>3. /\ q.live = d.live /\ q.proxy = d.proxy /\ q.key = d.key
          /\ d.name \notin {hostname(d.site), info.serial} => q.name = d.name
      BY <3>1, Probed
    <3>4. ASSUME NEW s \in Sites, d.name = Nickname(s)  PROVE q.name = d.name
      <4>1. d.site \in Sites /\ info.serial \in Serials
        BY <3>1 DEF Device, Entry
      <4> QED  BY <3>3, <3>4, <4>1, OwnNames
    <3> QED  BY <3>1, <3>2, <3>3, <3>4 DEF Live
  <2>2. CASE probe.id # i
    <3>1. rows'[i] = rows[i]
      BY <1>2, <2>2 DEF IInv, TypeOK
    <3> QED  BY <3>1 DEF Live
  <2> QED  BY <2>1, <2>2
<1> QED  BY <1>1, <1>2, SameKept

LEMMA PopulateKeeps ==
  ASSUME IInv, NEW i \in Ids, _lazy_populate_device_metadata(i)
  PROVE  Kept
<1>1. PICK serial : rows' = [rows EXCEPT ![i].serial = serial]
  BY Zenon DEF _lazy_populate_device_metadata
<1>2. rows \in [Ids -> Device]
  BY DEF IInv, TypeOK
<1>3. ASSUME NEW j \in Ids
      PROVE  /\ rows'[j].live = rows[j].live /\ rows'[j].proxy = rows[j].proxy /\ rows'[j].key = rows[j].key
             /\ rows'[j].name = rows[j].name
  <2>1. PICK d, q : d \in Device /\ d = rows[i] /\ q = [d EXCEPT !.serial = serial]
    BY <1>2
  <2>2. q.live = d.live /\ q.proxy = d.proxy /\ q.key = d.key /\ q.name = d.name
    BY <2>1 DEF Device
  <2>3. rows' = [rows EXCEPT ![i] = q]
    BY <1>1, <2>1, Zenon
  <2> QED  BY <1>2, <2>1, <2>2, <2>3
<1> QED  BY <1>3 DEF Kept, Live

LEMMA WriteKeeps ==
  ASSUME IInv, NEW k \in Syncs, Write(k)
  PROVE  Kept
<1>1. CASE UNCHANGED rows
  BY <1>1, SameKept
<1>2. CASE \A i \in Ids : Live(i) =>
             /\ rows'[i].live /\ rows'[i].proxy = rows[i].proxy /\ rows'[i].key = rows[i].key
             /\ rows'[i].name = rows[i].name
  BY <1>2 DEF Kept
<1> QED  BY <1>1, <1>2, Wrote

LEMMA StepKeeps ==
  ASSUME IInv, [Next]_vars, spent'.requests = spent.requests
  PROVE  Kept
<1>1. ~Request
  BY Requested
<1>2. CASE UNCHANGED rows
  BY <1>2, SameKept
<1>3. CASE Scheduled \/ Asked
  <2>1. CASE \E k \in Syncs : Write(k)
    BY <2>1, WriteKeeps
  <2>2. CASE ~\E k \in Syncs : Write(k)
    <3>1. UNCHANGED rows
      BY <1>3, <2>2 DEF Scheduled, Asked, Syncs, sync_all, FetchNext, FetchAsked, Fetch, Read, Still
    <3> QED  BY <3>1, SameKept
  <2> QED  BY <2>1, <2>2
<1>4. CASE Land
  BY <1>4, LandKeeps
<1>5. CASE \E i \in Ids : Dial(i) \/ Mute(i) \/ _lazy_populate_device_metadata(i)
  <2>1. PICK i \in Ids : Dial(i) \/ Mute(i) \/ _lazy_populate_device_metadata(i)
    BY <1>5
  <2>2. CASE Dial(i) \/ Mute(i)
    BY <2>2, SameKept DEF Dial, Mute
  <2> QED  BY <2>1, <2>2, PopulateKeeps
<1>6. CASE Operator
  BY <1>1, <1>6 DEF Operator, create_device, update_device, delete_device, replace_serial, delete_panorama
<1>7. CASE \/ \E k \in Syncs : Lost(k)
           \/ Back \/ \E p \in Panos : Outage(p)
           \/ \E s \in Sites : Swap(s) \/ Connect(s)
  BY <1>7, SameKept DEF Lost, Still, Back, Outage, Recover, Swap, Connect, Network
<1> QED  BY <1>2, <1>3, <1>4, <1>5, <1>6, <1>7 DEF Next, vars

(* No sync, probe or poll undoes what the operator has set: the route, the  *)
(* key, a name of his own, though it has read the row before he set it.     *)
THEOREM SettingsAlwaysKept == Spec => SettingsKept
<1>1. IInv /\ [Next]_vars => [spent'.requests = spent.requests => Kept]_vars
  BY StepKeeps
<1>2. [][spent'.requests = spent.requests => Kept]_vars => SettingsKept
  BY PTL DEF SettingsKept, Kept
<1> QED  BY <1>1, <1>2, Always, PTL DEF Spec


===============================================================================
