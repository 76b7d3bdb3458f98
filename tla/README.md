# A verification project for pan-ops-console

pan-ops-console is an operations console for Palo Alto Networks firewalls: it
upgrades HA pairs and standalone firewalls, polls their capacity, raises alerts,
keeps an inventory synchronised with Panorama, and has accounts of its own. This
directory holds TLA+ models of the parts in which the order of events decides
whether the system is correct, the TLC configurations that check them on small
instances, and proofs, checked by TLAPS, of the properties that matter most.

All paths below are relative to the repository; `upgrade.py` is
`backend/app/upgrade/services/upgrade.py`, `jobs.py` is
`backend/app/upgrade/routes/jobs.py`.

Contents: [inventory](#1-inventory) · [modules and how they correspond to the
code](#2-the-modules) · [runs](#3-the-runs) · [fairness](#4-fairness) ·
[proofs](#5-what-is-proved) · [where code and documentation
disagree](#6-where-the-code-and-what-is-said-of-it-disagree) · [what is not
modelled](#7-what-is-not-modelled) · [plan](#8-plan)

## 1. Inventory

An API process (FastAPI), two Celery workers (`celery` queue, 4 processes;
`upgrade` queue, 2 processes) and a beat share one PostgreSQL database and one
Redis. Nothing else is shared: every interaction between components is a row, a
queued message, a Redis key or a call to a firewall or Panorama.

| component | state it keeps | operations | hard behaviours | what makes it correct |
|---|---|---|---|---|
| **Upgrade orchestrator** `upgrade.py` | `DeviceUpgradeTask.phase`, `confirmation_token`, `progress` (markers, wait clocks, install and download handles, `ha_member`) | `drive_pair`: reconcile, classify, precheck, snapshot, image, stage, suspend, install, reboot, resume, postcheck, failover, failback, heal, close; the same for a standalone firewall | re-entered from the start after every park; decides from cached rows; commands and their markers are committed apart; failures at any phase | one member always serves; the first member is finished before the second is touched; nothing is restarted twice, or into the wrong image; nothing stays suspended unreported; every wait ends |
| **Job routes** `jobs.py` | `UpgradeJob.state` and options | create, start, abort, delete, confirm, override, re-run check, retry | clicks race the drive and each other; tokens outlive gates; two jobs over one pair | a click passes one gate; an abort heals; a job is closed once and truthfully; the members of a pair are in one group |
| **drive_pair task and pair lock** `upgrade/tasks`, `core/concurrency.py` | the queue, the lock `upgrade:drive_pair:<job>:<pair>` (30 min) | dispatch, re-dispatch with countdown, late acknowledgement, redelivery | duplicates, lost workers, a lock that expires under its holder | one drive per pair; no wake-up is lost; every pair ends |
| **Prechecks** `precheck.py`, `precheck_classifier.py`, precheck sets | `PrecheckRun`, `PrecheckSet.is_default` | probe, run, classify; create, update, delete sets | downgraded severities; at most one default set | a hard failure parks or fails; one default |
| **Snapshots** `snapshot.py` | `Snapshot`, `SnapshotDiff` | capture, compare area by area | areas that cannot be compared | a failed area hides no other |
| **Disk cleanup** `disk_cleanup.py` | none | plan, execute | the plan is stale when executed | deletes neither the running image, its base, nor a newer one |
| **Software catalogue** `software.py`, `images.py` | `PanosImage` | list per device or in bulk, register, delete | version order | the base image of a train is found |
| **Capacity dispatcher and poller** `capacity/tasks`, `capacity/services/poller.py`, `core/concurrency.py` | `last_*_poll_at` per class, the sorted sets `poll:inflight:<panorama>`, the dispatch lock | `dispatch_due`, `poll_device_task`, `poll_all`, edit of the polling configuration | claims committed at the end of a pass; slots leaked by lost workers; a shared cap | the cap holds; no double poll; nobody starves |
| **Catalogue, storage, aggregates** | `Sample` rows, the YAML catalogue | write samples; heatmap, table, trend, forecast | SQL and arithmetic | – |
| **Alerts** `alerts/services/evaluator.py`, routes | `Alert`, `AlertRule` | evaluate after a poll, acknowledge, edit rules | hysteresis; concurrent evaluations; rules changed under open alerts | one open alert per metric; opened only when sustained; open while usage is critical, cleared once it is quiet |
| **Panorama sync** `core/panorama` | `Device` and `Panorama` rows | sync one, sync all, import picker | reads rows and writes them later; filtered imports | one row per serial; peers point at each other; no setting is undone |
| **Inventory, RMA** `core/devices` | `Device` rows | create, edit, delete, probe, replace a serial | merging two rows with children; links to rows that go | history survives; a serial names one row; no dangling link |
| **Command proxy** `core/command_proxy` | `Panorama.reachable` | build a client with fallback; PAN-OS commands | retry of a command that was carried out | reads are retried, writes are not repeated |
| **Authentication** `core/auth` | users, sessions, backup codes, OIDC pending states (in memory), Redis counters | first sign-up, login, logout, change password, TOTP set-up/verify/disable, OIDC login, user administration | several transactions per request; revocation; the last admin | a revoked session is dead; a second factor is whole; an admin remains; a link stays |
| **Migrations, database** `core/migrations.py`, `db.py` | Alembic version | stamp and upgrade on start | legacy databases | – |
| **Frontend, scripts, deployment** | – | – | – | – |

How they interact:

- A route writes the database, commits, and posts a `drive_pair` message. The
  upgrade worker takes it, takes the pair's lock, walks the phases, and stops:
  at a gate (waiting for a click), at a wait (having posted itself again with a
  countdown), at a failure or at the end. Everything the next drive knows is in
  the database.
- The orchestrator reads versions and HA states mostly from the `Device` row.
  That row is written by its own probes, by the Panorama sync every few minutes,
  and by edits.
- A job puts the devices it is given into groups by the HA links of their rows;
  a group is what one drive works on. The links come from the syncs and probes.
- Beat posts `dispatch_due`; that posts polls; a poll writes samples, evaluates
  alerts and stamps or rewinds the device's timestamps.
- The two firewalls of a pair influence each other: a member that is suspended
  or restarted hands the traffic to its peer, if the peer can take it.

## 2. The modules

| module | subject | instances, proofs |
|---|---|---|
| `RollingUpgrade` | what an upgrade of a pair promises: the abstract specification | |
| `PairUpgrade` | one job driving one HA pair, with the operator, the Panorama sync and the firewalls | `MCPairUpgrade`, `PairUpgradeProofs`, `PairOperatorProofs` |
| `SoloUpgrade` | one job driving one standalone firewall, command by command and tick by tick, next to a disk cleanup | `MCSoloUpgrade`, `SoloUpgradeProofs` |
| `Images` | versions, trains, base images, the images a cleanup may delete | used by `SoloUpgrade` |
| `DriveDispatch` | several pairs of one job, the queue, the worker processes, the lock, the closing of the job | `MCDriveDispatch`, `DriveDispatchProofs` |
| `PollDispatch` | the capacity dispatcher, its slots and polls | `MCPollDispatch`, `PollDispatchProofs` |
| `Alerts` | the polls of one device as the alert engine sees them, the rules, the alerts | `MCAlerts`, `AlertsProofs` |
| `Inventory` | the rows of firewalls and Panoramas, the syncs and probes that refresh them, the operator's requests | `MCInventory`, `InventoryProofs` |
| `Accounts` | users, sessions, second factors and OIDC links, transaction by transaction | `MCAccounts`, `AccountsProofs` |

Two of them look at the same code from two sides. `PairUpgrade` and `SoloUpgrade`
both model the orchestrator: the first keeps the two firewalls and the roles and
lets a wait end or time out at will; the second keeps the waits, handles, counters
and images, for one firewall. `DriveDispatch` takes a drive for a script of
gates and waits and keeps the queue, the workers and the lock, which the other two
take for granted.

### PairUpgrade

One *drive* is one process. `at` is the phase function it is in, `on` the member
that function works on, `first` the member that is upgraded first
(`progress["ha_member"] == "passive"`). Each phase function is one action, so
clicks, aborts, syncs and firewalls interleave between them.

| variable | code |
|---|---|
| `job`, `policy`, `rest` | `UpgradeJob.state`, its options, the tasks of the job's other devices |
| `task[m].phase` | `TaskPhase`; the in-flight phases between two parks are one value, `BUSY` |
| `task[m].token` | `confirmation_token`: the code stores a random string, the model the gate at which the operator clicked (only `rerun` is told apart by the code) |
| `task[m].marks` | `progress["completed_phases"]` and the install, reboot and resume handles |
| `task[m].told` | the timeline asks the operator to resume the member |
| `row[m]` | the `Device` row: `current_version`, `ha_state` |
| `dev[m]` | the firewall: management plane up, running version, HA state, install job |
| `msgs` | `drive_pair` messages waiting |

| actions | code |
|---|---|
| `Begin`, `DropDuplicate` | `drive_pair`, `dispatch_lock`, `reconcile_markers_with_device_state` |
| `Classify`, `RolesUnclear` | `_classify_pair` |
| `CheckSkip`, `CheckOverride`, `RunCheck`, `CheckRaises` | `_phase_precheck`, `_phase_postcheck`, `_resolve_override_action` |
| `Early`, `EnsureImage`, `Staged`, `HoldGate` | the early exit, the download, `_pre_stage_stop`, `_pre_stage_hold_gate` |
| `SuspendHa`, `InstallSkip`, `InstallRequest`, `InstallPoll` | `_phase_suspend_ha`, `_install_step` |
| `RebootGate`, `Reboot`, `RebootWait` | `_confirm_gate`, `_reboot_step` |
| `ResumeHa`, `PassiveWait` | the HA resume block, `_passive_step` |
| `FailoverGate`, `Failover`, `PrimaryGate`, `Complete` | `_phase_failover`, the gates and the failback of `_drive_ha_pair` |
| `Finish`, `Heal`, `Close`, `Crash` | `_fail_pair_if_partial`, `_heal_suspended_members`, `_maybe_mark_job_done`, the `except` of `_drive_pair_inner` |
| `Kill` | the worker process dies, also between a command and the commit of its marker |
| `Start`, `Confirm`, `Override`, `Rerun`, `Retry`, `Abort` | the routes of `jobs.py` |
| `Sync`, `InstallEnds`, `Boot`, `SettleHa`, `RestEnds` | the Panorama sync, the firewalls, the job's other devices |

Deliberate coarseness: a wait times out whenever it likes and the download is one
step (`SoloUpgrade` has both in full); the snapshots leave only their marker,
because nothing they do changes the flow. The firewall is modelled from what the
orchestrator asks of it; it is external, and the model lets it do at least: ignore
an HA command (`RefuseOn`), fail an install, come back on the old image, come back
suspended or not, answer with no HA state while its daemon starts. Workers may be
killed in the jobs whose policy is in `Killable`.

Two facts about the code shape the model and are easy to miss. The probe made on
entry assigns the fresh values to the row, but they are not flushed, and the
`db.refresh` that follows throws them away: so classification and reconciliation
see the rows of the last sync. And a check's outcome is independent of the
firewall's state in the model: it is a choice, as is everything behind
panos-upgrade-assurance.

`ImplementsRolling` states that `PairUpgrade` implements `RollingUpgrade` under
the refinement mapping `lead <- first`, `version <- dev.ver`, `away <-` the
members that are down, suspended or still joining, `serving <-` the member that is
up and active. Every abstract step changes one of these in the one permitted way,
so the refinement rules out whole classes of steps (two members leaving at once, an
image replaced in a member that serves, a second leader). TLC checks it on the
instance, TLAPS proves it for all of them.

### SoloUpgrade and Images

| variable | code |
|---|---|
| `opt`, `job`, `task` | the job's options and state; the task's phase, token and `completed_phases` |
| `prog.held` | the handles of the commands under way: `download_job_id` of the base and of the target, `install_job` |
| `prog.tries` | `download_attempts`, `install_attempts` |
| `prog.since` | the `_wait_start::` stamps: none, young, or older than the wait's timeout |
| `prog.gone`, `.ok`, `.wrong`, `.down` | the streaks: job missing, target seen, wrong version seen, went down |
| `row` | the device's `current_version` |
| `at`, `msgs` | where the drive is; the messages, countdowns included |
| `dev` | the firewall: up, running version, version on the next boot, images on disk, whether it has the update server's list, its jobs |
| `clean` | what a running `execute_cleanup` has still to delete |
| `seen` | history: restarted since the last install, restarted twice, a drive torn, the firewall fell back to its old image since the last install |

`Take` with `Reconciled` is the entry; `Precheck`, `EnsureImage`, `Download`,
`Persist`, `PollDownload`, `Hold`, `Install`, `PollInstall`, `RebootGate`, `Reboot`,
`Restarted`, `Boot`, `Verify`, `Postcheck`, `Done`, `Close` are the phases in order.
A command and the commit of its handle are two steps (`Request`, then `Persist`;
`Reboot`, then `Restarted`), so `Crash` and `Kill` fall between them. `NotYet` is
`_await_or_park`: the start is stamped on the first tick and looked at when a tick
has not found the end; `Elapse` lets the time pass between drives. The firewall
(`DownloadEnds`, `InstallEnds`, `Boots`, `Outage`) fails a job, drops a request, falls
back to its old image or crashes at the price of one fault each; being down for a
restart costs none. A major jump needs the base image of the target's train, which
`Images` finds the way `base_image_from_list` does.

### DriveDispatch

What a drive does to firewalls is reduced to a *script* of gates and waits; what
remains is who drives, and when.

| variable | code |
|---|---|
| `job`, `phase`, `stage`, `ticks`, `token` | the job, and per pair: phase, the first stage without a marker, the wait's clock, the operator's token |
| `degraded` | a member of the pair is suspended by this job |
| `ready`, `later` | messages a worker may take; messages whose countdown or visibility timeout runs |
| `lock` | the holder of the pair's lock, `Lost` when it died |
| `work[w]` | what a worker process is doing: `entry`, `drive`, `tail` (healing), `mark` and `commit` (the two halves of `_maybe_mark_job_done`), `release` |

`Take` is the task's start and `dispatch_lock`; `Enter` the entry of
`_drive_pair_inner`; `GateParks`, `GatePasses`, `WaitParks`, `WaitOver`, `Fails`
and `Finishes` are the ways a drive goes on or ends; `Heal`, `Mark`, `Commit` and
`Release` its way out; `Kill` the loss of a worker with its unacknowledged
message; `LockExpires` and `Countdown` the two clocks; `Overrun` a drive that
blocks for longer than its lock lives; `Start`, `Click`, `Retry`, `Abort` and
`Delete` the routes. A drive reads the job only on entry, at the gates of the
checks and on its way out, so an abort does not stop it in the middle, here as
in the code.

Two assumptions on time are in the guard of `Countdown`, because the numbers of
the code give them: the last countdown of a pair (several seconds) is longer
than its drive needs to leave, and the visibility timeout (3 h) is longer than a
lock lives (30 min). That `Redelivery` may also be `"at once"` is what
`reject_on_worker_lost` does for a pool process that dies under a living worker.

### PollDispatch

Time goes in ticks of the beat; a timestamp is kept as its age. `pass` is the
dispatcher's open transaction: slots and messages leave at once, the claims only
with the commit.

| variable | code |
|---|---|
| `age[d][c]` | `last_system_poll_at`, `last_config_poll_at` |
| `slots` | the sorted sets `poll:inflight:<panorama>` |
| `polls` | `poll_device_task` messages, queued or running |
| `pass` | `dispatch_due`: what is due, what it has claimed |

`BeginPass`, `Enqueue`, `AtCap`, `CommitPass` are `dispatch_due` with
`try_acquire_slot`; `Start`, `Succeeds`, `Fails` are `poll_device_task` with its
`finally`; `Lose` a lost worker (the message was acknowledged on receipt);
`PassFails` an exception or a lost worker in a pass; `SyncDevice` the connection
state a Panorama reports; `Tick` the clock.

### Alerts

One device and one metric: an evaluation reads no state of another. A poll is a
process (`Begin`, `Evaluate`, `Commit`, or `Break` on the way): it takes its
timestamp, reads the firewall, commits the sample in a session of its own, and
commits the change of the alert later, with the device's row. `history` lists
the samples by timestamp, so a poll that is overtaken writes in the middle of it.

| variable | code |
|---|---|
| `rules` | `alert_rules`: the metric's override and the global rules of both severities |
| `history` | the `Sample` rows `_breach_is_sustained` may look back to |
| `alerts` | the `Alert` rows that are open, or held by a poll that has read them |
| `polls[p]` | a poll and what it has decided (`Verdict`), with the row it read |
| `present`, `overlapped` | the device exists; two polls have overlapped or two rows were merged |

Where the code keeps one of several rows in a dictionary (two global rules of one
severity, two open alerts), the model keeps any of them. `Updated` writes only the
columns that differ from the row as it was loaded, which is what SQLAlchemy does.
`Absorb` is what `replace_serial` does to samples and alerts.

### Inventory

A *site* is a position in the network: its firewall keeps its hostname, Panorama
and HA partner when the hardware, and so the serial, is replaced (`Swap`). The
scheduled sync, one sync by request and one probe run side by side; each reads rows
into a session of its own and writes later.

| variable | code |
|---|---|
| `rows`, `next` | the `devices` table, the next id |
| `panos`, `reach` | the `panoramas` table and its `reachable` column |
| `sync[k]` | a sync: the Panoramas still to do, the list it got, the rows it loaded |
| `probe` | a probe: the row it is for, what the firewall said |
| `box`, `up` | the hardware in place and whether its Panorama has seen it; the Panoramas that answer |

`sync_all`, `FetchNext`, `FetchAsked`, `Read`, `Write`, `Lost` are the syncs; `Dial`,
`Mute`, `Land` the probes over `build_client_with_fallback`;
`_lazy_populate_device_metadata` what the first poll does; `create_device`,
`update_device`, `delete_device`, `replace_serial`, `delete_panorama` the routes.
`Column` is the rule by which a session writes: a column that is set to what was
loaded is not written. A commit that violates a unique column, a foreign key, or
updates a row that has gone writes nothing. `_ha_pair_key_for` is the grouping
`create_job` makes of the links.

Left out: time stamps of reachability, the connection and runtime columns,
`polling_enabled`, the credentials of a Panorama. The minting of an API key in
`update_device`, and the poll's metadata read and its commit, are one step each.

### Accounts

The endpoints are plain functions in a pool of threads. Each request is a process:
what it reads before its first transaction is one step (`signup_first`, `login`,
`change_password`, `totp_setup`, `totp_verify`, `totp_disable`, `oidc_callback`,
`create_user`, `set_active`, `set_admin`, `delete_user`), and every transaction it
commits is another (`Insert`, `Consume`, `Rehash`, `create_session`, `NewHash`,
`Revoke`, `Setup`, `Verify`, `Disable`, `Bind`, `SetActive`, `SetAdmin`, `Delete`).
`req[r]` holds what it asked for, the row as it read it, and the next transaction.

| variable | code |
|---|---|
| `users`, `next` | the `users` table with its backup codes, the next id |
| `sessions` | the `sessions` table; `late` marks one whose request was let in on something that no longer held |
| `provider`, `pending` | the OIDC provider; `_pending_states`, in memory and so lost by `Restart` |
| `confirmed` | the secret a user's authenticator was last checked with |
| `torn` | users whose sessions outlived the password or the deactivation, by a crash or a password put back |

Passwords, secrets and codes are numbers, drawn from `fresh`. A wrong password or
code changes nothing and is left out, as are the rate limiter, the age of sessions,
and accounts without an address. The exchange of the code at the provider is one
step with the lookup of the account.

## 3. The runs

| run | configuration | what it shows |
|---|---|---|
| `pair_upgrade` | unattended job, one retry, exceptions, ignored HA commands, the sync at any moment, another device still running; the pair settled, or one member left suspended by somebody | the cluster serves throughout (`ServiceContinuity`); the order of the members (`ActiveUntouched`, `SecondAfterFirst`); a DONE member runs the target (`DoneMeansUpgraded`); the first member is not left suspended unreported (`FirstRejoins`); refinement (`ImplementsRolling`) |
| `pair_operator` | the four gates, both checks parking, staging jobs; three clicks, an abort, a retry, exceptions; and the unattended job with the worker killed at any point | one click passes one gate (`OneClickOneGate`), no firewall touched before both prechecks (`CheckedBeforeTouched`), staging touches nothing (`StagingTouchesNothing`), the cluster serves through gates, overrides, aborts and kills in every job without failback (`FailbackOrService`) |
| `drive_dispatch` | two pairs, two workers, gate then wait, a lost worker, a retry | `OneDriver`, `InFlightCarried`, `CompletedMeansDone` |
| `drive_liveness` | two pairs, one worker, wait then gate, a lost worker, a drive that outlives its lock | every pair that moves ends (`InFlightEnds`), the job closes (`JobCloses`), an abort heals a parked pair (`AbortHealsParked`) |
| `solo_upgrade` | a firewall one feature train behind, three sets of options, two messages, one fault, one retry or re-run, a cleanup | `DoneMeansUpgraded`; restarted once for an install (`RestartedOnce`) and into nothing but the target (`RestartsIntoTarget`); the cleanup takes no image that is needed (`ImagesKept`); every chain of wake-ups ends (`Settles`) |
| `poll_dispatch` | two devices behind one Panorama with a cap of one, one fault | `CapHeld`, `OnePollPerClass`, `SlotsAccounted`, `EveryDevicePolled` |
| `alerts` | two polls, three usages, two thresholds, one edit, broken poll or merged row | one open alert (`OneOpenPerMetric`), none on a spike (`OpensSustained`); in the end one that is critical while the usage is (`CriticalUsageAlerts`), none when it is quiet (`QuietUsageClears`) |
| `inventory` | an HA pair behind one Panorama, a scheduled sync, an import of both or of one, a probe; one request, one swap, one fault | nothing undoes an operator's setting (`SettingsKept`), no link dangles (`PeersAlive`), every firewall is listed and paired in the end (`Inventoried`) |
| `accounts` | two requests at a time, four in all, a restart; an empty table, or two administrators | `RevocationHolds`, `AdministratorStays`, `EnrolmentWhole`, `LinkKept` |
| `pair_abort_strands`, `solo_retry`, `inventory_split` | the smallest instance of each | the disagreements of section 6: TLC finds the property violated |

Every type invariant is proved (section 5). The runs of the pair, the dispatch and
the polls do not check theirs again; the others do, because there the type of a
variable is put together in many places: a row from what an import, a probe and a
request say of it, a verdict from a rule and a row that others edit, the handles and
counters of a firewall from every phase, the fresh numbers of the accounts.

Bounds, and why they are enough:

- *Pair*: two members, as in the code. `MaxMsgs` 2: one message that drives and
  one duplicate; what further duplicates do is what the second does, when it is
  taken after the first. `MaxRetries` 1: one member is retried, while the other
  still says FAILED; a complete recovery takes two retries (section 6), and for
  those only the theorems speak. `MaxClicks` 3: a gate, a double click, and a later gate that the
  left-over token reaches. The policies of a run are those whose gates it needs.
- *Solo*: a major jump, so that both download slots are used. The limits of the
  code (3 attempts, 6 missing jobs, 3 good and 6 wrong probes) are 2: the first
  and the last of a count, which is what the code tells apart. One fault is one
  dropped answer, failed job, crash, fallback, exception or killed worker. A
  firewall that stays down or never ends a job costs none, so every wait may also
  run into its timeout. A re-run counts as a retry.
- *Dispatch*: two pairs are needed for the closing of a job and for sharing
  workers; two workers for two drives at once. `WaitTicks` 1 is a wait that
  parks once and then ends or times out. One kill, one retry, one overrun: the
  next state after each of them is one the run already explores, minus a budget.
- *Poll*: two devices are the smallest number that competes for a slot, a cap of
  one the smallest cap. The intervals (3 and 5 ticks), the backoff (4) and the
  stale age (2) keep the order of the deployed values that matters: one interval
  is shorter than the backoff and one longer, polls (`PollLag` 1, queued and
  running) are shorter than an interval. `Horizon` 7 is past every interval, so
  older timestamps are no more due. A fault is a lost poll or a torn pass.
- *Alerts*: two polls are the smallest overlap. The usages are quiet under both
  thresholds, inside the hysteresis of the upper one, and above both; the rules
  are the seeded default and override, one of each that an operator can add, and
  two settings that an edit can give. Two alert rows are the two an overlap opens.
- *Inventory*: a pair, since everything but the HA links concerns one row. Six
  ids cover the rows two syncs, a swap and a request can insert. One request, one
  swap and one fault still cross each other and the three processes freely.
- *Accounts*: two requests are the smallest crossing; four are a sign-in, an
  enrolment or a deactivation, its counterpart, and the one that meets the
  result. Three ids: the two administrators and a user who is created.

Deadlock is checked in `poll_dispatch`, which never stops. The others may stop:
when the bounds on messages, clicks, requests and retries are spent, when the job
or the device is deleted.

## 4. Fairness

The safety properties need none. For the rest:

- `drive_liveness`: weak fairness of every worker's own steps: a process that runs
  goes on. Strong fairness of taking a pair's message: workers come and go, but
  the queue is first in first out, so a message is taken when a worker is idle
  again and again. Weak fairness of countdowns and lock expiry: clocks run. Weak
  fairness of `Click`: the operator answers a gate again until it opens. Gates
  wait for ever by design, so nothing can be promised without it; one click is not
  enough, as one that arrives while the drive is on its way out is dropped.
  Nothing is assumed of `Start`, `Retry`, `Abort`, `Delete`, `Kill`, `Overrun` or of
  the choice between a wait's outcomes; the wait's clock alone bounds it.
- `solo_upgrade` (`Timely`): the worker's steps, and strong fairness of `Elapse`,
  which is enabled only between drives: time passes. Nothing of the firewall, which
  may stay down or silent for ever, nor of the operator.
- `solo_retry` (`Tended`): besides, the firewall ends its jobs and comes back, and
  the operator answers and retries. The stronger the assumption, the more the
  counterexample says.
- `poll_dispatch`: the clock, the dispatcher and the workers; none of the sync or
  the faults.
- `alerts`: some poll goes on, and some poll begins. No poll in particular is
  promised to get through.
- `inventory`: the scheduled sync goes on, and a Panorama that is down comes back.
  None of the probes, the requests or the hardware.

## 5. What is proved

Every safety invariant, every action property and the refinement that a passing run
checks is proved; what is left to TLC alone is liveness. Each theorem holds for every
value of the constants, under the named assumptions of its module and, where the
last column says so, under a condition on the constants or on the state in which the
job is created (the theorem then reads `Spec /\ Condition => ...`). Every condition
is met by the instance TLC checks, or by some of its initial states.

| module | theorem | property | assuming |
|---|---|---|---|
| `PairUpgradeProofs` | `TypeCorrect` | `TypeOK` | |
| | `ActiveStaysUntouched` | `ActiveUntouched` | |
| | `SecondFollowsFirst` | `SecondAfterFirst` | |
| | `DoneIsUpgraded` | `DoneMeansUpgraded` | |
| | `OneMemberServes` | `ServiceContinuity` | `ServedPair`: a member serves at the start, no failback |
| | `ServiceLostOnlyByFailback` | `FailbackOrService` | a member serves at the start |
| | `RollingIsImplemented` | `ImplementsRolling` | `ServedPair` |
| `PairOperatorProofs` | `ClickPaysOneGate` | `OneClickOneGate` | |
| | `ChecksComeFirst` | `CheckedBeforeTouched` | `SettledPair`: no member is suspended at the start |
| | `StagingIsHarmless` | `StagingTouchesNothing` | `SettledPair` |
| | `FirstComesBack` | `FirstRejoins` | `UnkilledPair`: `ServedPair`, and no worker is killed |
| `SoloUpgradeProofs` | `TypeCorrect` | `TypeOK` | |
| | `DoneRunsTarget` | `DoneMeansUpgraded` | |
| | `RestartIssuedOnce` | `RestartedOnce` | |
| | `RestartBootsTarget` | `RestartsIntoTarget` | |
| | `ImagesAreKept` | `ImagesKept` | `NewTrain`: up to another train, whose base is marked, and on the disk if the target is |
| `DriveDispatchProofs` | `DispatchTypeCorrect` | `TypeOK` | |
| | `OneDriverAtATime` | `OneDriver` | `MaxOverruns = 0` |
| | `NoWakeUpLost` | `InFlightCarried` | `MaxOverruns = 0`, `Redelivery = "later"` |
| | `CompletedIsDone` | `CompletedMeansDone` | |
| `PollDispatchProofs` | `PollTypeCorrect` | `TypeOK` | |
| | `CapAlwaysHeld` | `CapHeld` | |
| | `SlotsAlwaysAccounted` | `SlotsAccounted` | |
| | `OnePollAtATime` | `OnePollPerClass` | `PollsArePrompt`: twice `PollLag` is below every interval |
| `AlertsProofs` | `AlertsTypeCorrect` | `TypeOK` | |
| | `OneAlertOpen` | `OneOpenPerMetric` | |
| | `AlertsAreSustained` | `OpensSustained` | |
| `AccountsProofs` | `AccountsTypeCorrect` | `TypeOK` | |
| | `RevocationAlwaysHolds` | `RevocationHolds` | |
| | `AdministratorAlwaysStays` | `AdministratorStays` | |
| | `EnrolmentAlwaysWhole` | `EnrolmentWhole` | |
| | `LinkAlwaysKept` | `LinkKept` | |
| `InventoryProofs` | `InventoryTypeCorrect` | `TypeOK` | |
| | `PeersAlwaysAlive` | `PeersAlive` | |
| | `SettingsAlwaysKept` | `SettingsKept` | |

**The pair, order.** None of the first three safety properties is inductive:
whether the second member may be touched depends on where the drive is, on
markers, and on rows that markers are computed from. The invariant `IInv` adds:
before a first member is chosen nothing has been touched (`UnchosenInv`); the
drive works on the second member only after the failover is recorded
(`SecondInv`); only the first member carries that marker (`FailoverInv`); neither
rows nor markers run ahead of the firewall (`ImageInv`); past its upgrade a member
runs the target (`PlaceInv`). A step is examined twice, for its effect on the data
(`StepEffect`, one step per action: markers claim only what is so, rows only
repeat the firewall, no command reaches a guarded member) and for the place it
leads to (`StepControl`). `StepInvariant` joins the two.

**The pair, service.** Who serves is not in one variable. Before a first member is
chosen it is whoever the rows call active; afterwards it is the second member
until the failover command, and the first one from then on (`ServiceInv`). The
command and its marker are committed apart, so for a while, and for good if the
worker is killed in between, the service is not where the markers say. What saves
it is the row: by then the first member is at the target, so every later drive
skips the commands that could take it out, and `Working` steps on the first member
exist only while the second one serves and no failover is recorded. The lemmas
classify the effect of every step (`KeepsService`, `OtherServes`, `FirstServes`).
The failback suspends a member without asking the other one; it is the only
command that does, hence the condition, and `ServiceLostOnlyByFailback` says just
that.

**The pair, refinement.** With `IInv` and `ServiceInv` it takes one more fact: a
firewall that is down does not claim to serve (`DownInv`). A step of the pair
either leaves the cluster as it is (`Stays`: at most a resume or the progress of
an install), or takes one member out and lets the other take over (`Leaves`), or
is a firewall coming back or settling (`Boot`, `SettleHa`). `StepCluster` sorts
every action into one of these, and `StayMaps`, `LeaveMaps`, `BootMaps`,
`SettleMaps` map each to its step of `RollingUpgrade` or to a stutter. That
`serving` is one member is a lemma (`OneServing`), not an assumption.

**The operator.** `GateInv` says what is behind wherever the drive is
(`PlaceBehind`), and that once a firewall is disturbed both prechecks are behind
and the job is not a staging one. `ClickInv` counts: gates passed and tokens not
used yet never outnumber the clicks; a click adds one token, a gate that opens
turns one into a marker, a duplicate finds the token gone. `FirstRejoins` follows
the suspended member: before the choice the rows know it, afterwards its
`suspend_ha` marker (`AsleepInv`), and every way out of a drive leads through the
healing of both members (`HealedInv`). A kill between the suspend command and its
marker breaks the second, which is why the run, like the theorem, leaves killed
workers out.

**The standalone firewall.** The order of versions comes first: `Below` on tuples
is total, a release of a newer train is above every one of an older train, and
every set of offered images has a lowest, so `Image("base")` is one version. Then
`Runs` (the firewall runs the start or the target, and the row, the markers and
the phase never claim more), `Installed` (the marker of the install means that the
target boots next), `BaseKnown` and `Once`. `Installed` needs the history variable
`seen.fell`: the firewall may give up an installed image by itself between the
install and the restart, and the code has no way of knowing. `Once` ties the
issued restart to its marker, but for the two steps of a command and its commit.
`ImagesAreKept` is about the upgrades that need two images: that neither is ever
on a cleanup's list (`Spared`) follows from the order lemmas, because a cleanup
takes only what is below the running version and not the marked base of its train.
Without `NewTrain` it is not so (section 6: a downgrade's image may go).

**The dispatch.** The lock of a pair and its drive belong together (`LockInv`); a
pair in flight has a message or a drive, and whenever a held lock could turn its
message away there is one that comes later (`WakeInv`); pairs that are done stay
done, so a verdict waiting to be written stays true (`DoneInv`). The two
assumptions are needed: section 6 says what happens without them.

**The polls.** A poll and its slot carry one token, and a token stands for one poll
and one slot of the poll's Panorama. The slots of a Panorama are at most its cap,
because a slot comes only when there is room and time only takes slots away; so
polls that hold their slots, being no more than those, are under the cap too. A slot
without a poll is an orphan: every end of a poll but its loss takes the slot along,
so orphans are at most the faults, which is counted over finite sets.

`OnePollPerClass` is a matter of time. A poll takes at most `PollLag` ticks in the
queue and as many running (`Lifetime`); its classes are either claimed by the pass
that is still open or have a timestamp no older than the poll (`ClaimInv`). So a
class is not due while its poll lives, if two lags are less than its interval. The
condition is needed: with `PollLag` 2 and an interval of 3 TLC finds two polls of
one class. A pass that broke off loses its claims, so everything but `IdleInv` is
said of passes that ended.

**The alerts.** While no two polls have overlapped, at most one is busy (`Alone`),
it holds the last place of the history and nothing else does (`HeldLast`), there
is no open alert when it is to open one (`OneOpen`), and it stands on the samples
its rule asked for (`StandsOnSamples`). The last needs to know what the history
keeps and what a poll sees of it. Both are selections from a sequence, written as
the recursive function `Where`; the prover has no induction over sequences, so the
lemmas about it (`Unfolding`, `UnfoldsType`, `WhereLast`) take the least place at
which they would fail and derive a contradiction from the place before.
`LongEnough` then counts: a run of `k` breaching samples at the end is at least
`k` of them.

**The accounts.** `ReqOK` says of each request what the route had established when
it let it in, as far as the transaction still to come relies on it: one who
deactivates, demotes or deletes is not his own target; a binding read no link; an
enrolment read no enabled factor, a verification a secret. Nothing else can be
relied on, since any other request may have been committed since. With the next
id being free (`NextInv`) this and `RevocationHolds` itself are inductive. The three
action properties then follow from what each transaction does to the rights, the
link and the second factor of a user (the lemmas named `...Effect`): a step that
does harm is a transaction, and the exception in the property is exactly the case
in which its `ReqOK` no longer speaks of the row it writes.

**The inventory.** A sync that commits has to be told apart from the rows it has
read, which others have changed since. What it relies on is said of ids: a live row,
and a row that a sync has loaded, is below the next id (`NextInv`, `LoadInv`). So an
inserted row is neither of them, and carries no link of its own. The
commit fails unless the rows it updates are still there; hence every row it touches
is alive afterwards, and a link it writes leads to one of those (`Written`). That
the set of inserted ids has as many members as there are new entries needs the list
to be finite (`ListInv`), and so the set of sites. The settings follow from the same
lemma, from what a probe writes (`Probed`), and from a name of the operator's being
neither a hostname nor a serial (`OwnNames`).

Only model-checked: liveness under fairness, which is outside the prover (`InFlightEnds`,
`JobCloses`, `AbortHealsParked`, `EveryDevicePolled`, `CriticalUsageAlerts`,
`QuietUsageClears`, `Settles`, `Inventoried`), and the counterexamples of section 6. Not
proved either: that two waits of `SoloUpgrade` and `PairUpgrade` correspond, which no
property states yet (section 8).

## 6. Where the code and what is said of it disagree

Three have a run whose property quotes the repository, with a counterexample TLC
prints.

1. **An abort may strand a member** (`pair_abort_strands`). The member suspended
   by the failover carries no `suspend_ha` marker and its row still says active,
   so the healing leaves it suspended and says nothing, against "aborting never
   strands a cluster degraded on a single node" (`jobs.py:499`).
2. **A firewall that came back on its old image is beyond a retry** (`solo_retry`).
   The reboot wait fails it (`upgrade.py:1620`, `1680`) before
   `_verify_install_applied` can clear `software_installed`, whose docstring says
   why it has to be cleared; every later retry skips the install and the restart.
3. **A filtered import splits a pair** (`inventory_split`). It clears the HA link of
   the member it imports and not its partner's; an upgrade job then puts the two
   into different groups.

Seen in the models, each with the setting that shows it:

- *The HA resume block does not always run*, against `upgrade.py:1954`. While the
  pair is still healthy, the reconciliation on entry sets `ha_resume_complete`; the
  block is guarded by that marker, so a member suspended by the same drive goes to
  its postcheck suspended (`ResumeHa` with the marker set).
- *An override of a pair's postcheck is lost*, against `upgrade.py:709`. The parked
  phase is overwritten with `UPGRADE_SECONDARY` / `UPGRADE_PRIMARY` on the way back
  to the check (`upgrade.py:706`, `761`), which then runs again and leaves the token
  behind (`Checks` policies).
- *A lost worker's message is swallowed by its own lock*, against
  `upgrade/tasks/__init__.py:82`. Requeued at once, it finds the lock of the dead
  holder, becomes a no-op and is acknowledged (`Redelivery = "at once"`).
- *The lock does not outlive every segment*, against `upgrade.py:105`: 30 minutes,
  next to a 30-minute blocking wait for the HA subsystem and a task limit of 150
  minutes (`MaxOverruns` above 0).

Met while modelling the upgrade:

- The failback suspends the serving member without the check the failover makes
  (docs/ARCHITECTURE.md:345 describes that check), and nobody resumes it: if the
  second member has not settled, nobody serves. `ServiceContinuity` and
  `FailbackOrService` are therefore stated for jobs without failback, and for those
  they are proved: the failback is the one command that can leave nobody serving.
- A token does not name the gate it answers and outlives it; the second of two
  clicks passes the next gate. `OneClickOneGate` is what remains true.
- Retrying one member of a failed pair is undone by the partner that still says
  FAILED as soon as the drive parks; both have to be retried.
- Retry is accepted on a job that was never started, and drives its pair.
- A job may be deleted after its abort and before the drive that would have
  healed it; that drive finds no job. `AbortHealsParked` excepts it.
- A worker killed after the restart command and before its marker restarts the
  firewall again. `RestartedOnce` excepts torn drives.
- A download job that has vanished is polled until the wait's timeout, and again
  after a retry: only the install wait counts missing answers, and the timeout keeps
  `download_job_id`. When the install wait gives up on a missing job, the stamp of
  its start stays and is the start of the next wait.
- The attempts of a download or an install that failed are not reset by a retry.
- `_deletable_images` keeps a base image only if its `release_type` is "Base", and
  takes whatever is older than the running version: an image staged for a downgrade
  may go.
- Two requests that make a precheck set the default at the same time may leave two.

Polls and alerts:

- A failed poll's early retry ("on failure rewinds the timestamp so it retries
  soon") is overwritten by the claim if the pass that enqueued it commits after
  the poll ended. It costs one interval.
- A pass that breaks off leaves polls in flight for devices that are due again
  at once: `OnePollPerClass` is stated for passes that ended.
- A slot's age counts the time in the queue, so polls that wait long lose their
  slot while they run: `CapHeld` is stated for polls that hold theirs.
- Two overlapping polls open two alerts for one metric, and which of them later
  polls update is up to the order of a query. Both are cleared in the end.

Inventory:

- A sync promises to isolate one Panorama from the next
  (`core/panorama/tasks/__init__.py:36`), but a violated unique column leaves the
  session to be rolled back, and the handler's own use of the row raises: the rest
  of the pass is not synced. A name that is taken thus stops its Panorama and the
  ones after it, every time (`Clash` in `Inventoried`).
- The automatic import of replacement hardware (`rma.py:5`) needs a hostname of
  its own: with the one the old firewall had, the row cannot be inserted once the
  Panorama knows the name.
- Two crossing syncs may link one member of a pair and unlink the other, until the
  next one. Replacing a row's serial by its own peer's leaves a link to itself.
- A firewall that does not answer behind a healthy Panorama marks that Panorama
  unreachable (`Mute`): only a target that is not connected is told apart.

Accounts: what the exceptions of the properties stand for.

- Two administrators who demote or delete each other at the same time both succeed.
- Two sign-ins with one backup code both succeed when each finds it in time.
- Two enrolments of one user that cross enable a factor with a secret nobody has
  checked, or with none.
- Two first callbacks of one account, for two subjects, both bind; the later stays.
- A deactivation or a change of the password that a restart cuts short leaves the
  sessions it was to end. A sign-in under way across a deactivation opens a session
  that lives again when the user is reactivated.
- A sign-in that hashes the password anew while it is changed puts the former one
  back.

## 7. What is not modelled

- Two jobs over one pair. `create_job` does not exclude them and the lock is
  per job, so two drives of different jobs can meet at one pair. Every module has
  one job; what it shows holds as long as no second job has the devices.
- Precheck sets and the classifier (a table of severities; any outcome of a check
  is possible in the models), snapshots (they never change the flow), the reading
  of metrics, `create_job`'s validation, the texts of timelines.
- Capacity storage, aggregates and forecasts: SQL and arithmetic without state.
- The XML of the PAN-OS API and the transport of the command proxy: I/O. What the
  proxy decides (which way to a firewall, whose fault a silence is) is in
  `Inventory`, what commands answer is in `SoloUpgrade`.
- Rate limits, session ages, wrong credentials; polls switched off by device.
- Migrations, the frontend, scripts, manifests.

## 8. Plan

Done: the modules of section 2 and the theorems of section 5. Left, in order of
importance:

1. Proofs: the action properties behind the exceptions of section 6 (what a kill
   between a command and its marker may cost), and the bounds on a wait of
   `SoloUpgrade` (every counter that is at its limit ends the wait), which would carry
   most of `Settles`.
2. `SoloUpgrade`'s waits as implementations of the waits `PairUpgrade` chooses at
   will.
3. An upgrade job next to `Inventory`: its rows deleted or replaced under it.
4. Algorithms against reference definitions: the severity classifier, snapshot
   comparison.
