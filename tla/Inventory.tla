------------------------------ MODULE Inventory -------------------------------
(***************************************************************************)
(* The device inventory: the rows of the devices table, the syncs that     *)
(* import them from the Panoramas (app/core/panorama), the probes and      *)
(* polls that refresh them over the command proxy (app/core/command_proxy),*)
(* the operator's requests and the replacement of broken hardware          *)
(* (app/core/devices), and the groups an upgrade job makes of them.        *)
(*                                                                         *)
(* A site is a position in the network: its firewall keeps its hostname,   *)
(* its Panorama and its HA partner when the hardware, and so the serial, is*)
(* replaced.  The scheduled sync, one sync by request and one probe run    *)
(* side by side.  Each reads rows into a session of its own and writes     *)
(* back the columns it has changed, in one transaction that fails when a   *)
(* row has gone or a unique name or serial is taken.                       *)
(***************************************************************************)
EXTENDS Integers, FiniteSets

CONSTANTS
  Sites,       \* the positions of the firewalls
  Home,        \* the Panorama that manages a site
  Partner,     \* its HA partner, itself for a standalone firewall
  Panos,       \* the Panoramas
  Ids,         \* bound on the rows ever inserted: 1 and up
  Filters,     \* the sets of sites an import by request picks, {} for all
  MaxRequests, \* bound on the operator's requests
  MaxSwaps,    \* bound on the hardware replaced
  MaxFaults    \* bound on the Panoramas' outages, the unanswered calls and the workers lost

ASSUME InventoryAssumption ==
  /\ Sites # {} /\ IsFiniteSet(Sites)
  /\ Home \in [Sites -> Panos]
  /\ Partner \in [Sites -> Sites] /\ \A s \in Sites : Partner[Partner[s]] = s /\ Home[Partner[s]] = Home[s]
  /\ Ids \subseteq Nat \ {0} /\ Filters \subseteq SUBSET Sites
  /\ {MaxRequests, MaxSwaps, MaxFaults} \subseteq Nat

Serials == {<<s, n>> : s \in Sites, n \in 1..MaxSwaps + 1}
hostname(s) == <<s>>
Nickname(s) == <<s, 0>>  \* a name of the operator's own
Names == Serials \cup {hostname(s) : s \in Sites} \cup {Nickname(s) : s \in Sites}
Nothing == <<>>
NoPano == "none"
NoRow == 0

Device == [live : BOOLEAN, name : Names \cup {Nothing}, serial : Serials \cup {Nothing}, site : Sites,
           pano : Panos \cup {NoPano}, proxy : BOOLEAN, key : BOOLEAN, peer : Ids \cup {NoRow}]
Entry == [serial : Serials, name : Names, site : Sites, peer : Serials \cup {Nothing}]

VARIABLES
  box,    \* the firewalls: the hardware in place, and whether Panorama has seen it
  up,     \* the Panoramas that answer
  panos,  \* the rows of the panoramas table
  reach,  \* their reachable column
  rows,   \* the rows of the devices table
  next,   \* the next id
  sync,   \* the scheduled sync and the one by request
  probe,  \* the probe
  spent   \* the requests, swaps and faults so far

vars == <<box, up, panos, reach, rows, next, sync, probe, spent>>

Syncs == {"beat", "route"}
Sync == [at : {"off", "next", "listed", "read"}, todo : SUBSET Panos, pano : Panos \cup {NoPano},
         only : SUBSET Serials, list : SUBSET Entry, loaded : [Ids -> Device]]
Unborn == [live |-> FALSE, name |-> Nothing, serial |-> Nothing, site |-> CHOOSE s \in Sites : TRUE,
           pano |-> NoPano, proxy |-> FALSE, key |-> FALSE, peer |-> NoRow]
Off == [at |-> "off", todo |-> {}, pano |-> NoPano, only |-> {}, list |-> {}, loaded |-> [i \in Ids |-> Unborn]]
NoProbe == [id |-> NoRow, info |-> {}]

(* The type invariant.                                                      *)
TypeOK ==
  /\ box \in [Sites -> [hw : 1..MaxSwaps + 1, seen : BOOLEAN]]
  /\ up \subseteq Panos /\ panos \subseteq Panos /\ reach \in [Panos -> BOOLEAN]
  /\ rows \in [Ids -> Device] /\ next \in Nat
  /\ sync \in [Syncs -> Sync] /\ probe \in [id : Ids \cup {NoRow}, info : SUBSET Entry]
  /\ spent \in [requests : 0..MaxRequests, swaps : 0..MaxSwaps, faults : 0..MaxFaults]

Init ==
  /\ box = [s \in Sites |-> [hw |-> 1, seen |-> TRUE]]
  /\ up = Panos /\ panos = Panos /\ reach = [p \in Panos |-> TRUE]
  /\ rows = [i \in Ids |-> Unborn] /\ next = 1
  /\ sync = [k \in Syncs |-> Off] /\ probe = NoProbe
  /\ spent = [requests |-> 0, swaps |-> 0, faults |-> 0]

Live(i) == rows[i].live
Serial(s) == <<s, box[s].hw>>
Spend(what, bound) == spent[what] < bound /\ spent' = [spent EXCEPT ![what] = @ + 1]
Request == Spend("requests", MaxRequests)
Fault == Spend("faults", MaxFaults)

(* The unique columns of the table.                                         *)
Unique(rs) ==
  \A i, j \in Ids : i # j /\ rs[i].live /\ rs[j].live =>
    rs[i].name # rs[j].name /\ (rs[i].serial = Nothing \/ rs[i].serial # rs[j].serial)

-------------------------------------------------------------------------------
(* The syncs.                                                               *)

(* What a firewall says of itself, and what a Panorama lists: a firewall it *)
(* has not seen yet is listed by its serial, without HA state.              *)
Info(s) == [serial |-> Serial(s), name |-> hostname(s), site |-> s,
            peer |-> IF Partner[s] = s THEN Nothing ELSE Serial(Partner[s])]

(* Mutant of list_managed_devices: an unseen firewall has no name at all.   *)
ListUnnamed(p) ==
  {IF box[s].seen THEN Info(s) ELSE [Info(s) EXCEPT !.name = Nothing, !.peer = Nothing]
     : s \in {t \in Sites : Home[t] = p}}

list_managed_devices(p) ==
  {IF box[s].seen THEN Info(s) ELSE [Info(s) EXCEPT !.name = Serial(s), !.peer = Nothing]
     : s \in {t \in Sites : Home[t] = p}}

Still == UNCHANGED <<box, up, panos, reach, rows, next, probe>>
Onward(k) == [Off EXCEPT !.at = IF sync[k].todo \ {sync[k].pano} = {} THEN "off" ELSE "next",
                         !.todo = sync[k].todo \ {sync[k].pano}]

sync_all ==
  /\ sync["beat"].at = "off" /\ panos # {}
  /\ sync' = [sync EXCEPT !["beat"].at = "next", !["beat"].todo = panos]
  /\ UNCHANGED spent /\ Still

(* Mutant of Fetch: an unreachable Panorama is passed over for good.        *)
FetchReachable(k, p, only) ==
  LET s == [sync[k] EXCEPT !.pano = p]
  IN  /\ sync' = IF p \in panos \cap up /\ reach[p]
                 THEN [sync EXCEPT ![k] = [s EXCEPT !.at = "listed", !.only = only, !.list = list_managed_devices(p)]]
                 ELSE [sync EXCEPT ![k] = Off]
      /\ reach' = [reach EXCEPT ![p] = IF p \in panos \ up THEN FALSE ELSE @]
      /\ UNCHANGED <<box, up, panos, rows, next, probe>>

(* The list is fetched; an unreachable Panorama is marked and passed over.  *)
(* A Panorama deleted in the meantime ends the pass.                        *)
Fetch(k, p, only) ==
  LET s == [sync[k] EXCEPT !.pano = p]
  IN  /\ sync' = IF p \notin panos THEN [sync EXCEPT ![k] = Off]
                 ELSE IF p \in up
                 THEN [sync EXCEPT ![k] = [s EXCEPT !.at = "listed", !.only = only, !.list = list_managed_devices(p)]]
                 ELSE [sync EXCEPT ![k] = IF k = "beat" /\ s.todo # {p} THEN [Off EXCEPT !.at = "next", !.todo = s.todo \ {p}] ELSE Off]
      /\ reach' = [reach EXCEPT ![p] = IF p \in panos \ up THEN FALSE ELSE @]
      /\ UNCHANGED <<box, up, panos, rows, next, probe>>

FetchNext == \E p \in sync["beat"].todo : sync["beat"].at = "next" /\ Fetch("beat", p, {}) /\ UNCHANGED spent
FetchAsked ==
  /\ sync["route"].at = "off"
  /\ \E p \in panos, f \in Filters : Fetch("route", p, {Serial(s) : s \in f}) /\ Request

(* The rows with one of the listed serials, the filtered ones included.     *)
Read(k) ==
  /\ sync[k].at = "listed"
  /\ sync' = [sync EXCEPT ![k].at = "read",
       ![k].loaded = [i \in Ids |-> IF Live(i) /\ \E e \in sync[k].list : e.serial = rows[i].serial
                                      THEN rows[i] ELSE Unborn]]
  /\ UNCHANGED spent /\ Still

Picked(k) == {e \in sync[k].list : sync[k].only = {} \/ e.serial \in sync[k].only}
Matches(k, e) == {i \in Ids : sync[k].loaded[i].live /\ sync[k].loaded[i].serial = e.serial}
Fresh(k) == {e \in Picked(k) : Matches(k, e) = {}}

(* The row of each picked entry: the loaded one, or a new one.              *)
Touched(k, born) ==
  [e \in Picked(k) |-> IF e \in Fresh(k) THEN born[e] ELSE CHOOSE i \in Matches(k, e) : TRUE]

(* A column is written when it differs from what was loaded.                *)
Column(now, loaded, new) == IF new = loaded THEN now ELSE new

(* The HA links are resolved among the touched rows; an entry that names no *)
(* peer leaves the link alone.                                              *)
LinkOf(e, touched, loaded) ==
  LET peers == {f \in DOMAIN touched : f.serial = e.peer}
  IN  IF e.peer = Nothing THEN loaded.peer
      ELSE IF peers = {} THEN NoRow ELSE touched[CHOOSE f \in peers : TRUE]

(* Mutant of Imported: the row is written back as it was read.              *)
ImportedWhole(k, e, i, touched) ==
  LET old == sync[k].loaded[i]  new == LinkOf(e, touched, old)
  IN  IF e \in Fresh(k)
        THEN [live |-> TRUE, name |-> e.name, serial |-> e.serial, site |-> e.site, pano |-> sync[k].pano,
              proxy |-> TRUE, key |-> FALSE, peer |-> new]
        ELSE [old EXCEPT !.site = e.site, !.pano = sync[k].pano, !.peer = new]

Imported(k, e, i, touched) ==
  LET old == sync[k].loaded[i]  new == LinkOf(e, touched, old)
  IN  IF e \in Fresh(k)
        THEN [live |-> TRUE, name |-> e.name, serial |-> e.serial, site |-> e.site, pano |-> sync[k].pano,
              proxy |-> TRUE, key |-> FALSE, peer |-> new]
        ELSE [rows[i] EXCEPT !.site = Column(@, old.site, e.site), !.pano = Column(@, old.pano, sync[k].pano),
                             !.peer = Column(@, old.peer, new)]

Synced(k, touched) ==
  [i \in Ids |-> IF \E e \in DOMAIN touched : touched[e] = i
                   THEN Imported(k, CHOOSE e \in DOMAIN touched : touched[e] = i, i, touched)
                   ELSE rows[i]]

(* Flush, links and commit.  When the session's flush fails, the request is *)
(* answered 502; the pass ends, for the session refuses the Panoramas that  *)
(* are left.                                                                *)
Write(k) ==
  LET new == next..next + Cardinality(Fresh(k)) - 1
  IN  /\ sync[k].at = "read" /\ new \subseteq Ids
      /\ \E born \in {b \in [Fresh(k) -> new] : \A d, e \in Fresh(k) : d # e => b[d] # b[e]} :
         \E touched \in {Touched(k, born)} : \E written \in {Synced(k, touched)} :
           IF /\ sync[k].pano \in panos
              /\ \A e \in Picked(k) \ Fresh(k) : Live(touched[e])
              /\ Unique(written)
             THEN /\ rows' = written /\ next' = next + Cardinality(new)
                  /\ reach' = [reach EXCEPT ![sync[k].pano] = TRUE]
                  /\ sync' = [sync EXCEPT ![k] = Onward(k)]
             ELSE /\ sync' = [sync EXCEPT ![k] = Off] /\ UNCHANGED <<rows, next, reach>>
      /\ UNCHANGED <<box, up, panos, probe, spent>>

(* A worker lost in the middle of a sync leaves nothing written.            *)
Lost(k) ==
  /\ sync[k].at # "off" /\ Fault
  /\ sync' = [sync EXCEPT ![k] = Off] /\ Still

-------------------------------------------------------------------------------
(* Probes and polls.                                                        *)

(* The command proxy: the Panorama first when the device asks for it and    *)
(* can be targeted, else, or when that fails and it has a key, directly.    *)
Proxied(d) == d.proxy /\ d.pano # NoPano /\ d.serial # Nothing
Targets(d) == {s \in Sites : Proxied(d) /\ d.pano \in up /\ Home[s] = d.pano /\ box[s].seen /\ Serial(s) = d.serial}
build_client_with_fallback(d) == IF Targets(d) # {} THEN Targets(d) ELSE IF d.key THEN {d.site} ELSE {}

(* A firewall that is not connected is not held against its Panorama.      *)
_mark_panorama_health(d) == reach' = IF Proxied(d) THEN [reach EXCEPT ![d.pano] = d.pano \in up] ELSE reach

Dial(i) ==
  /\ probe = NoProbe /\ Live(i)
  /\ _mark_panorama_health(rows[i])
  /\ probe' \in {[id |-> i, info |-> {Info(s)}] : s \in build_client_with_fallback(rows[i])}
                  \cup {p \in {NoProbe} : build_client_with_fallback(rows[i]) = {}}
  /\ UNCHANGED <<box, up, panos, rows, next, sync, spent>>

(* A firewall that Panorama takes for connected may leave the call without  *)
(* an answer, and that is held against the Panorama.                        *)
Mute(i) ==
  /\ probe = NoProbe /\ Live(i) /\ Targets(rows[i]) # {} /\ Fault
  /\ reach' = [reach EXCEPT ![rows[i].pano] = FALSE]
  /\ probe' \in {NoProbe} \cup {[id |-> i, info |-> {Info(s)}] : s \in {t \in {rows[i].site} : rows[i].key}}
  /\ UNCHANGED <<box, up, panos, rows, next, sync>>

(* The probe overwrites the serial, names a device that had no better name, *)
(* and links it to the peer it knows.                                       *)
probe_device(d, info) ==
  LET peers == {i \in Ids : Live(i) /\ rows[i].serial = info.peer}
  IN  [d EXCEPT !.serial = info.serial,
                !.name = IF @ \in {hostname(d.site), info.serial} THEN info.name ELSE @,
                !.peer = IF info.peer = Nothing \/ peers = {} THEN @ ELSE CHOOSE i \in peers : TRUE]

Land ==
  /\ probe # NoProbe /\ probe' = NoProbe
  /\ \E info \in probe.info :
       LET written == [rows EXCEPT ![probe.id] = probe_device(@, info)]
       IN  rows' = IF Live(probe.id) /\ Unique(written) THEN written ELSE rows
  /\ UNCHANGED <<box, up, panos, reach, next, sync, spent>>

(* The first poll of a device added by hand learns its serial.              *)
_lazy_populate_device_metadata(i) ==
  /\ Live(i) /\ rows[i].serial = Nothing
  /\ \E s \in build_client_with_fallback(rows[i]) :
       LET written == [rows EXCEPT ![i].serial = Serial(s)]
       IN  Unique(written) /\ rows' = written
  /\ UNCHANGED <<box, up, panos, reach, next, sync, probe, spent>>

-------------------------------------------------------------------------------
(* The group an upgrade job puts a device in.                               *)
_ha_pair_key_for(i) ==
  IF rows[i].peer = NoRow THEN <<i>>
  ELSE <<"pair", IF i < rows[i].peer THEN i ELSE rows[i].peer>>

(* The operator's requests: the ones refused change nothing.                *)

Quiet == UNCHANGED <<box, up, panos, reach, sync, probe>>

create_device ==
  /\ next \in Ids /\ Request /\ next' = next + 1
  /\ \E s \in Sites, proxy \in BOOLEAN, n \in {"host", "own"} :
       LET written == [rows EXCEPT ![next] =
             [Unborn EXCEPT !.live = TRUE, !.name = IF n = "host" THEN hostname(s) ELSE Nickname(s), !.site = s,
                !.pano = IF proxy THEN Home[s] ELSE NoPano, !.proxy = proxy, !.key = ~proxy]]
       IN  (proxy => Home[s] \in panos) /\ Unique(written) /\ rows' = written
  /\ Quiet

(* PATCH sends every field; a key only when the form gives one.             *)
update_device(i) ==
  /\ Live(i) /\ Request
  /\ \E p \in panos \cup {NoPano}, proxy \in BOOLEAN, auth \in BOOLEAN :
       LET d == [rows[i] EXCEPT !.pano = p, !.proxy = proxy, !.key = @ \/ auth]
       IN  (d.proxy => d.pano # NoPano) /\ (~d.proxy => d.key) /\ rows' = [rows EXCEPT ![i] = d]
  /\ UNCHANGED next /\ Quiet

(* Mutant of Unlinked: the survivor of the pair keeps its link.             *)
UnlinkedNot(rs, i) == rs

Unlinked(rs, i) == [j \in Ids |-> IF rs[j].peer = i THEN [rs[j] EXCEPT !.peer = NoRow] ELSE rs[j]]

delete_device(i) ==
  /\ Live(i) /\ Request
  /\ rows' = [Unlinked(rows, i) EXCEPT ![i] = Unborn]
  /\ UNCHANGED next /\ Quiet

(* The row takes over the serial of the new hardware, absorbs the row that  *)
(* was imported for it, with the links to it, and loses its key.            *)
replace_serial(i, serial) ==
  /\ Live(i) /\ rows[i].serial # serial /\ Request
  /\ LET dup == {j \in Ids : Live(j) /\ rows[j].serial = serial}
         kept == [j \in Ids |-> IF j \in dup THEN Unborn
                                ELSE IF rows[j].peer \in dup THEN [rows[j] EXCEPT !.peer = i] ELSE rows[j]]
     IN  rows' = [kept EXCEPT ![i].serial = serial, ![i].key = FALSE]
  /\ UNCHANGED next /\ Quiet

(* A Panorama with devices is kept by the foreign key.                      *)
delete_panorama(p) ==
  /\ p \in panos /\ Request
  /\ \A i \in Ids : Live(i) => rows[i].pano # p
  /\ panos' = panos \ {p}
  /\ UNCHANGED <<box, up, reach, rows, next, sync, probe>>

-------------------------------------------------------------------------------
(* The network.                                                             *)

Network == UNCHANGED <<panos, reach, rows, next, sync, probe>>

Swap(s) ==
  /\ box[s].hw = 1 /\ Spend("swaps", MaxSwaps)
  /\ box' = [box EXCEPT ![s] = [hw |-> @.hw + 1, seen |-> FALSE]]
  /\ UNCHANGED up /\ Network

Connect(s) ==
  /\ ~box[s].seen /\ box' = [box EXCEPT ![s].seen = TRUE]
  /\ UNCHANGED <<up, spent>> /\ Network

Outage(p) == p \in up /\ Fault /\ up' = up \ {p} /\ UNCHANGED box /\ Network
Recover(p) == p \notin up /\ up' = up \cup {p} /\ UNCHANGED <<box, spent>> /\ Network

-------------------------------------------------------------------------------
Scheduled == sync_all \/ FetchNext \/ Read("beat") \/ Write("beat")
Asked == FetchAsked \/ Read("route") \/ Write("route")

Operator ==
  \/ create_device
  \/ \E i \in Ids : update_device(i) \/ delete_device(i) \/ \E s \in Sites : replace_serial(i, Serial(s))
  \/ \E p \in Panos : delete_panorama(p)

Back == \E p \in Panos : Recover(p)

Next ==
  \/ Scheduled \/ Asked \/ \E k \in Syncs : Lost(k)
  \/ Land \/ \E i \in Ids : Dial(i) \/ Mute(i) \/ _lazy_populate_device_metadata(i)
  \/ Operator
  \/ Back \/ \E p \in Panos : Outage(p)
  \/ \E s \in Sites : Swap(s) \/ Connect(s)

Spec == Init /\ [][Next]_vars

(* The sync is on a schedule, and an unreachable Panorama comes back.       *)
FairSpec == Spec /\ WF_vars(Scheduled) /\ WF_vars(Back)

-------------------------------------------------------------------------------
(* Properties.                                                              *)

(* No sync, probe or poll undoes what the operator has set, though it may   *)
(* have read the row before he set it: the route, the key, a name of his    *)
(* own.                                                                     *)
SettingsKept ==
  [][spent'.requests = spent.requests =>
       \A i \in Ids : Live(i) =>
         /\ rows'[i].live /\ rows'[i].proxy = rows[i].proxy /\ rows'[i].key = rows[i].key
         /\ (\E s \in Sites : rows[i].name = Nickname(s)) => rows'[i].name = rows[i].name]_vars

(* Nothing is linked to a row that has gone, whatever was in flight when it *)
(* went: the foreign key would refuse the deletion or the sync.             *)
PeersAlive == \A i \in Ids : Live(i) /\ rows[i].peer # NoRow => Live(rows[i].peer)

(* Every firewall gets a row with the serial it has now, and the members of *)
(* a pair name each other once the syncs and probes that crossed have been  *)
(* followed by one more; unless a name that is taken stands in the way,     *)
(* which stops its whole Panorama and the ones after it.                    *)
RowOf(s) == {i \in Ids : Live(i) /\ rows[i].serial = Serial(s)}
Clash == \E s \in Sites : RowOf(s) = {} /\ \E i \in Ids :
           Live(i) /\ rows[i].name = IF box[s].seen THEN hostname(s) ELSE Serial(s)
Paired(s) == Partner[s] # s /\ box[s].seen => \A i \in RowOf(s) : rows[i].peer \in RowOf(Partner[s])
Inventoried == <>[](Clash \/ \A s \in Sites : Home[s] \in panos => RowOf(s) # {} /\ Paired(s))

(* The two members of a pair are put in one group, whichever of them a job  *)
(* comes to first.                                                          *)
LinkedTogether ==
  \A i \in Ids : Live(i) /\ rows[i].peer # NoRow =>
    _ha_pair_key_for(i) = _ha_pair_key_for(rows[i].peer)
===============================================================================
