# A TLA+ verification of NASty

NASty is a NAS appliance on NixOS and bcachefs: a Rust engine (`engine/`, a
JSON-RPC server with the crates named below), a Svelte WebUI (`webui/`) and
NixOS modules. The engine drives external machinery (bcachefs, NetworkManager,
systemd, Docker, QEMU, LIO and nvmet through configfs) and keeps its own state
in JSON files under `/var/lib/nasty` and in mutex-protected maps.

This directory models the parts of the engine whose correctness depends on the
order in which concurrent, failing and restarting actors take their steps.
Each model is translated from the source; `PROJECT.json` names the lines every
definition stands for, what each run checks, a plausible bug (mutant) that each
property catches, the hazards of the code, and the theorems.

## 1. Inventory

One engine process serves all RPC calls on a tokio runtime: every request is a
future that interleaves with others at each `await`. A request that came in over
REST (`nasty-engine/src/rest_gateway.rs`) is dropped at its current `await` when
its connection dies; work handed to `tokio::spawn` is not. A restart (update,
crash, systemd) loses all memory; files, kernel state and child processes stay.

| Component | State | Operations | Hard behaviour |
|---|---|---|---|
| Network transactions (`nasty-system/src/network.rs`) | `networking.json`, the `pending-revert` snapshot, the transaction table, the lifecycle mutex, NetworkManager's profiles | update, confirm, nm_apply, rollback timer, boot restore and reconcile | confirm against timer, crash between any two file operations, dropped requests, partial applies |
| Backup service (`nasty-backup/src/lib.rs`) | profile list (memory and file), running marker, repositories | create, update, delete, init, run, check, restore, prune | hours between reading a profile and recording the result; saves that fail after the rename |
| Backup jobs (`nasty-backup/src/jobs.rs`) | job registry | start, mark_*, recover_abandoned, gc | panicking tasks, exclusion per profile |
| Bulk pool (`nasty-common/src/priority.rs`) | semaphore | spawn_bulk | exhaustion |
| Backup scheduler (`nasty-backup/src/scheduler.rs`) | started_at, last_attempted (memory only) | evaluate, retry, loop | missed instants, refused starts, restarts |
| Scrub and fsck (`nasty-storage/src/filesystem.rs`) | status maps and files, reservations, cancel requests, child processes | start, cancel, status, completion task | poll against completion, orphaned children, dropped calls, overlapping file writes |
| Filesystems (`nasty-storage/src/filesystem.rs`) | `fs-state.json`, list cache, `block_mutations`, mounts, keys | create, destroy, forget, mount, unmount, lock, unlock, device wipe/add/remove/evacuate, restore_mounts | unlocked read-modify-write of the state file, stale cache, boot with missing devices |
| Subvolumes and snapshots (`nasty-storage/src/subvolume.rs`, `nasty-snapshot`) | bcachefs subvolumes, loop devices, properties | create, delete, snapshot, clone, resize, rollback, restore | multi-step block images, loop devices across reboots |
| Cascades (`nasty-engine/src/fs_lock.rs`, `subvol_rollback.rs`) | none of their own | stop dependents, do the storage step, restart dependents | a step of several fails or the request is dropped: what was stopped must come back; guests that do not answer |
| Shares (`nasty-sharing`, `router/share.rs`) | state files, configfs, exports | CRUD and boot restore for NFS, SMB, iSCSI, NVMe-oF | file against kernel state, partial builds |
| Firewall and protocols (`nasty-system/src/firewall.rs`, `protocol.rs`) | rule set, enabled protocols | init, reconcile, enable, disable | boot-time hold, fail-closed start |
| Update (`nasty-system/src/update.rs`, `nixos/modules/nasty.nix`) | profile generations, `/etc/nixos`, the marker in `/run`, the unit `nasty-update`, the recovery service | apply, upgrade, rollback, switch, delete, reboot | a transaction of many files interrupted anywhere, by a stop, a reboot or a power loss |
| Apps (`nasty-apps`, `app_deploy.rs`) | Docker, deployment table, Caddy routes | deploy, update, remove, cancel | cancellation against progress |
| VMs (`nasty-vm`) | configs, QEMU processes | create, start, stop, kill, delete | process death against requests |
| Authentication (`auth.rs`, `auth_webauthn.rs`, `auth_oidc.rs`) | users, sessions, challenges, rate limits | login, logout, tokens, challenges | one-time use, expiry |
| Guest shares (`guestshare.rs`, public handlers in `main.rs`) | a record file per share, `state_lock`, four semaphores, grants | create, revoke, remove, view, unlock, download, archive | record changes and workers that outlive their request, limits checked before they are used |
| Secure Boot enrollment, alerts, watchdog, state files and secrets, settings | small files each | CRUD, staged enrollment, raise and clear | crash between steps |
| Metrics, hardware inventory, terminal, RPC tables, WebUI pages, NixOS modules | none worth a model | reading, rendering, byte pipes | none |

`PROJECT.json` lists every component with its sources and status. What makes
the modelled ones correct:

* network: a change nobody confirmed never survives a restart; a confirmed one is
  never rolled back; there is one transaction at a time and it is settled; every
  request is answered;
* backup: a recorded result and the `repo_initialized` flag speak of the
  definition in force; a deleted profile stays deleted; jobs of a profile exclude
  each other and end; the marker never outlives its run;
* scheduler: an instant fires once, is not lost to a refused start, and is not
  caught up after a downtime;
* scrub and fsck: one task per filesystem; a poll never replaces a real result;
  nothing is shown as running for ever;
* filesystems: only the filesystem that was verified is destroyed; the registry
  and the mount table agree whenever nothing is under way;
* cascades: nothing uses a subvolume while it is swapped; its old contents are
  kept; what ran before runs again;
* update: `/etc/nixos` belongs to the active system; a transaction takes effect as
  a whole or not at all;
* guest shares: no more downloads than allowed, a revocation is final, no capacity
  is lost or exceeded.

## 2. Modules

| Module | Role |
|---|---|
| `NetworkTxn` | the confirm-or-rollback life cycle, with the boot phases that recover from it |
| `MCNetworkTxn` | symmetry for its instances |
| `NetworkTxn_proofs` | its inductive invariant and theorems |
| `ConfirmOrRevert` | what a network change promises; refined by `NetworkTxn` |
| `Backup` | profiles, job registry, workers, bulk pool and the WebUI's edit form |
| `MCBackup` | two definitions with a repository each |
| `Backup_proofs` | its inductive invariant and theorems |
| `BackupScheduler` | the cron loop against an edited profile list and a registry that refuses |
| `MCBackupScheduler` | an hourly and a daily schedule |
| `BackupScheduler_proofs` | its inductive invariant and theorems |
| `FsOperation` | scrub and fsck of one filesystem, with status polls, cancels and restarts |
| `FsOperation_proofs` | its inductive invariant and theorems |
| `FsRegistry` | names, devices, mounts, the list cache and `fs-state.json` |
| `FsRegistry_proofs` | its inductive invariants and theorems |
| `Cascade` | lock and rollback over apps, VMs, shares and storage: the composition of the services they call |
| `Cascade_proofs` | its inductive invariant and theorems |
| `Update` | update transactions, generation switches, the detached rollback and the recovery service |
| `Update_proofs` | its inductive invariant and theorems |
| `GuestShare` | guest shares, from the operator's calls to the last byte of a stream |
| `GuestShare_proofs` | its inductive invariant and theorems |
| `MCFsRegistry`, `MCCascade`, `MCUpdate`, `MCGuestShare` | symmetry sets and constants of their instances |

An operator named `Op_Something` next to `Op` is a deliberately wrong variant of
`Op`; no specification uses it. `PROJECT.json` says which property it breaks.

### NetworkTxn

`persisted`, `revert` and `live` are `networking.json`, the snapshot and what
NetworkManager runs (`Mixed` while or after it is partial). `update()` is
`UpdateBegin` (lock, checks, classification), `UpdateSnapshot`, `UpdatePersist`
(the layered validator, then the write), `UpdateApplyStart`/`End` (once more for
SR-IOV VFs) and `UpdateFinish` (`ScheduleRollback` and the return); `confirm()`
is `ConfirmBegin`, `ConfirmUnlink`, `ConfirmCommit`; a transaction's task is
`Elapse` or `Cancelled`, then `RollbackBegin` through `RollbackForget` or
`RollbackErr`. `Dropped` drops a handler at any await. `Crash` and `Start` lose
memory; `Restore*` and `Reconcile*` are the two boot phases, which a deadline
(`RestoreTimeout`) may cut at any await.

Configurations are opaque. What `classify_risk`, the head checks and
`layered::validate` say of a configuration is a free choice or a constant set.
`new_txn_id` never repeats. Files are replaced whole or become unparseable
(`garble`). A handler that is dropped ends at once; a `tokio::fs` call it had handed
to the blocking pool is taken to have had its effect before that, or to have none.

`ConfirmOrRevert` states the promise without tables, timers, locks and crashes:
there is a configuration the box falls back to (`safe`), perhaps one on trial
beside it, and only an admitted confirm makes the trial the fallback. In the
refinement mapping `safe` is the snapshot when there is one and
`networking.json` otherwise, `trial` is `networking.json` while there is a
snapshot, and a confirm is admitted while a handler is between its checks and its
unlink. `PromiseKept` says that every behaviour of `NetworkTxn` maps to one of
`ConfirmOrRevert`. `Forget` and `Discard` are the abstract side of a file that a
new version cannot read: the code then falls back to defaults, or makes the trial
final, and the promise says no more than that.

### Backup

`profiles[p]` is the entry of a profile, memory and disk at once: `Put` models
`persist_profiles`, whose three outcomes are no change, change, and change with an
error (the directory sync failed after the rename). `result` and `of` are
`last_run` and, as history the code does not have, the definition that run backed
up. A job is a registry entry and a worker whose program counter follows
`run_backup`, `init_repo`, `check_repo`, `restore` or `prune` from one `await` to
the next. `page` is a browser on the Backups page: `startEdit`, the refresh,
`saveEdit` and its failure. A profile is created with a fresh id and no history, as
the WebUI does; `create_profile` (lib.rs:1180) would also keep an id, a
`repo_initialized` or a `last_run` that another caller sends.

`staleSave` collects the profiles saved from a form that shows another definition
than the one in force; `InitFlagHonest` and `CoverageHonest` except them, because
the code stores what such a form sends (section 5).

### BackupScheduler

A cron schedule is the set of instants it names, the empty set when there is none
or it does not parse. One iteration of `run_scheduler_loop` is `Evaluate` followed
by a `StartRun` or `StartRefused` per due profile; jobs, edits, deletions and
restarts interleave with them. `evaluate` seeds a missing entry with
`started_at`; `Floor` reads a missing entry so, which is the same. Time only goes
forward; a wall clock that is set back (`Utc::now`) is not modelled.

### FsOperation

A behaviour follows one kind of operation on one filesystem: scrub and fsck have
the same structure and share nothing. A start is `StartCheck`, `Reserve` (or
`StartRefused`), `Stamp`, `TaskSnapshot` and `Spawn`; from there the detached task
takes `ChildExits`, `Decide`, `Record`, `TaskSnapshot`, `Finish` and `Release`. A
status call is `PollRead` through `PollSave`, a cancel `CancelRead`, `CancelFlag`,
`CancelKill`. `Restart` loads the file and leaves `alive` children behind;
`OrphanExits` ends them. Runs are numbered so that properties can speak of them;
the code only has `started_at`, a second of a clock that may repeat a value.
`pgrep` and `pkill` are taken to work and see only children of this filesystem. In
the code a `pgrep` that cannot be run counts as "no child" (filesystem.rs:4433,
4601), and so does a scrub whose filesystem has no mount point (4434-4436): a run
that is alive can then be shown as interrupted, which is outside `InterruptedIsDead`.

### FsRegistry

`sb`, `member`, `present` and `mnt` are the disks and the mount table; `file` is
`fs-state.json`, `cache` the list cache, `lock` is `block_mutations`. A request is
a task whose program counter follows the handler: wait for the lock, read the
registry and the list (`GetCached` or `GetFresh`, with a later `Fill`), then the
steps of its operation, then `LoadState`, `Truncate`, `WriteState` of the registry
and `Invalidate`. mount, unmount, update_options and list take no lock, which is
why their steps interleave with everything. `RestoreNext` is the boot's
`restore_mounts`, `Unplug`, `Replug`, `Reboot` and `EngineRestart` are the
environment; a reboot may move disks to other paths.

Discovery can fail. `list_uncached` may return any list that lacks mounted
filesystems whose UUID could not be read, and all the unmounted ones when `blkid`
fails; `list()` as a whole fails with the mount table (`GetFails`), which ends every
request but `device_wipe` and `device_add`, for which `list_devices` goes on with
an empty set. `InUse` also looks at the mount table, if that can be read.
`AddProbe` is `is_device_bcachefs`, for which a failing `blkid` means a blank
device. `list_complete` is what a list contains when nothing failed.

`blame` is history: it records each cause that is known to part the file from the
mounts: under "file" a file read while torn, a lost update, a crash inside a request,
a failed write or unmount; under "stale" a cached list that is out of date, a request
that another has overtaken, a disk that came back during a request; under "blind" a
discovery that failed or saw too little. The properties
say that nothing else does, so a new cause shows up as a violation. A request is
overtaken (`Overtaken`) when it comes to write down an unmount, options or a
destruction and the entry is another filesystem's by then, what it unmounted is
mounted again, or what it took for mounted is not. Requests create filesystems on
one device, and `MaxUuid` bounds how many formats succeed.

Three rules about bcachefs, which is external: a filesystem mounts only if one of its
members is among the devices given (a device that was removed and kept its
superblock does not mount alone); a member is removed only while another one is
plugged in to take its data; and `bcachefs device add` takes any device that is not
held by a mount, whatever is on it.

### Cascade

One encrypted filesystem with one subvolume, and the apps, VMs and shares that
depend on it. A task is `lock_with_dependents` (`LockDeps`, the stop loops,
`Unmount`, `UnlinkKey`) or `rollback_with_dependents` (`RollbackDeps`, the stop
loops, `AcquireGuard`, `SwapCheck`, `SafetySnapshot`, `DeleteLive`, `Recreate`,
then the resume). Every loop iteration is a step, in any order. `OperatorApp` and
`OperatorVm` start and stop things by hand, `GuestStops`, `MonitorHangs` and
`MonitorRecovers` are what a guest does. A share has the flag in its state file and what its daemon
exports; `update()` may change the first and not the second. `want` is what the
operator last left running; `blame` names overlaps, short lists and requests that
left something stopped or passed over a VM that ran (`mute`). Apps, shares and VM ids have different names: ids are fresh
UUIDs. An operator's call during a cascade counts as an overlap for `SwapQuiet` only;
`AllBack` makes no exception for it.

`is_running`, behind list, stop, kill and start, is a ping that gives up after two
seconds (qmp.rs:132); the VM then counts as not running. A VM is therefore "on",
"asked" (the power button was pressed), "stuck" or "deaf" (the same two while the
monitor is silent), "dying" (killed and not yet gone), "lost" (kill has removed its
socket and did not reach the process) or "off". A silent monitor makes `StopVm` pass
over a running VM, ends `VmWait`, makes the kill refuse (`KillVmFails`) and lets
`StartVm` try again and fail on the disk. Only a command after an answered ping
(`PressButton`, `QuitVm`) and the greeting of a new process (`Greet`) wait without a
deadline, since `execute` and `negotiate` have none.

### Update

A closure is a built system together with the flake pair it carries, a generation
a numbered link to one. `TxnBegin` to `Commit` are the lines of the script that
`render_wrapper_transaction_script` writes, `RbMark` to `RbEnd` its rollback,
`Detached*` the helper unit that finishes a rollback interrupted by a stop. The
three flags of the script are the members of `unit.set`; each is set or cleared by a
step of its own (`SetFlag`), before or after which a trap can run. `Act*`, `Recover*` and
`PowerCycle` are NixOS activation, the recovery service and the boot. The recovery
runs under `set -e` and may fail before or between its two renames (`RecoverFails`);
`recovered` says whether the service is active, which decides whether the next
activation runs it again. Only the boot's recovery comes before the engine; one that
a killed script left behind runs beside everything, except that an activation is
taken to begin after its last rename.
`Check`, `Stop`, `WriteScript` and `Start` are a request at its awaits, so two of
them can both pass the check. `tainted` names what excepts a behaviour from a
property: a request that stopped a running unit (`stop`), a transaction begun under
the marker of another or beside a recovery that was still writing (`retry`), a
rollback that could not write a file (`restore`), a stop between the removal of the
marker and `MARKER_SET=false` (`window`), a recovery that failed and that no other
has made good (`recovery`). `status()` also answers "idle" when `systemctl` cannot be
run (update.rs:1981); the request then goes on as one does that had checked before
the unit was started, which the model has.

### GuestShare

A slot is a request and the task or worker it started. `queue` is `state_lock`
with its waiters; the task at its head takes `TaskLoad` and `TaskSave`. `free`
counts the permits of the four semaphores. `Dropped` drops the handler: a worker,
a spawned task and the producer of an archive go on (`Detached`), anything else
ends at once, its permit with it (a read that tokio's blocking pool is still doing
may keep its descriptor open a little longer). `grants` keeps the last expiry of a grant for each share. The clock
may jump in both directions.

The two rate limiters of unlock (`allow_unlock_request`, `reserve_unlock_attempt`)
are abstracted to a refusal that may happen at any time, path checks to a verdict,
and the view counter is left out while the save of a view is not. Power losses are
not modelled here: `StateDir::save` renames without a sync.

## 3. Runs

| Run | Shows | Distinct states |
|---|---|---|
| `network_safety` | `Recoverable`, `ConfirmWins`, `SingleTransaction`, `RolledBackLive`, the refinement `PromiseKept` | 0.45 million |
| `network_live` | `TransactionSettles`, `RequestsAnswered` | 59 thousand |
| `backup_edit` | `InitFlagHonest`, `CoverageHonest`, `NoResurrection` | 0.40 million |
| `backup_jobs` | `NoOverlap`, `MarkerHonest`, `JobsEnd` | 88 thousand |
| `backup_schedule` | `NoCatchUp`, `NoDoubleFire`, `NoLostRun` | 35 thousand |
| `fs_operation` | `OneOwner`, `InterruptedIsDead`, `CompletionKept`, `RunResolved` | 0.27 million |
| `fs_registry` | `DestructionExact`, `WipeSparesMembers`, `FlagHonest`, `EntryKept` | 1.7 million |
| `cascade` | `SwapQuiet`, `UndoPoint`, `AllBack`, `NeverWedged` | 2.3 million |
| `cascade_v_lock` | violation: a running VM makes every lock fail (`LockNotVetoed`) | |
| `update` | `PairTruth`, `AllOrNothing`, `FailedRollbackSuppresses`, `CommitHonest` | 4.1 million |
| `update_v_delete` | violation: the current generation can be deleted (`CurrentLinkKept`) | |
| `guest_share` | `CapKept`, `PermitsConserved`, `RevokeFinal`, `WorkEnds` | 0.39 million |

The type invariants of `NetworkTxn`, `Backup`, `BackupScheduler` and `FsOperation`
are part of their runs. Those of `FsRegistry`, `Cascade`, `Update` and `GuestShare`
are theorems (`TypeCorrect`) and not repeated there.

Bounds, and why they are enough:

* `network_safety`: two handlers (the races are pairwise), two transactions (one
  that settles and one after it, or one that is refused), four configurations (the
  default, a good one that needs the second apply, a malformed and an invalid
  one), every fault, and two crashes, so that a restore can be cut by the next
  crash. `network_live` has two good configurations, two handlers, failing applies
  and unlinks and one crash: without a symmetry set, since it checks liveness.
* `backup_edit`: one profile, one job and one browser are the three actors that
  meet on one list entry; two definitions with different repositories; every
  fault. `backup_jobs`: two profiles and two jobs on one permit, so that both
  exclusion and queueing happen.
* `backup_schedule`: four instants with an hourly and a daily schedule allow a
  start, a refusal, a retry and a restart between instants; one profile, since
  profiles share only the loop.
* `fs_operation`: two overlapping starts, two runs (a late poll of the first
  meets the second), one poll, one cancel, a clock of two values (equal, forward
  and backward), dropped calls, failing writes and one restart. Deadlock is not
  checked because a behaviour ends when its runs are used up.
* `fs_registry`: two tasks, two operator names, two disks and two filesystems, so
  that a name can be reused, a disk can change its path and a stale list can name
  the wrong filesystem; three events (requests, restarts, reboots, disks unplugged
  or plugged in, failing discoveries) in a row, each of them with all its interleavings. Without a limit on
  events the behaviours repeat; with none left they end, hence no deadlock check.
* `cascade`: two overlapping tasks; two apps, so that the second can fail after the
  first was stopped; one VM and one share, which are handled in loops of the same
  shape; two events, so that two requests overlap, or one meets an operator's call
  or a monitor that hangs; a monitor
  comes back, and hangs a guest already asked to stop, within that bound.
* `update`: two closures and three generations (an update, and one after it or back
  from it), two requests under way, four events (requests, deletions, reboots, power
  losses, failed writes of a rollback or a recovery). Two transactions in a row with a failure, a
  stop, a reboot or a power loss in either are within the bound.
* `guest_share`: two slots, one share (shares have nothing but the lock and the
  semaphores in common), one permit in each semaphore, a limit of one download or
  none, an expiry or none, a clock of two values. Requests are not limited.

Fairness (`network_live`, `backup_jobs`, `backup_schedule`, `fs_operation`,
`guest_share`). Tasks that can go on are polled again (WF). A waiter for a tokio mutex
or semaphore gets it, as both queue first come first served (SF). NetworkManager
calls, bulk work and bcachefs children return. The alert loop and open pages keep
asking for the status (`main.rs`, `router/mod.rs`); for fsck it is only an open
page, so there `RunResolved` says that the run is resolved if somebody looks.
For guest shares, workers read local files and an archive has a time limit once the
bulk pool runs it; a file stream lasts as long as its client wants, so `WorkEnds`
says nothing of it. Clients, crashes and faults are never obliged to happen. In
`cascade`, `NeverWedged` takes the place of a liveness property: a cascade can
always go on, and its loops only shrink.

## 4. Proofs

All theorems hold for every value of the constants that satisfies the named
assumptions (the constants are of their kinds, the special values are not elements
of the sets they extend, and names of different kinds of things differ). Each
invariant proof is an induction: `Init => IInv`, one lemma per action for
`IInv /\ [Next]_vars => IInv'`, and the property from `IInv`. TLC checked each
conjunct of `IInv` on the instance of the module's run before it was proved.

* `NetworkTxn_proofs`: `TypeCorrect`, `CrashSafety` (`Recoverable`),
  `ConfirmIsFinal` (`ConfirmWins`), `OneTransaction` (`SingleTransaction`),
  `RolledBackIsLive` (`RolledBackLive`), `SnapshotKept` (`SnapshotNeverOverwritten`,
  which no run checks any more because `PromiseKept` says more) and `PromiseHolds`
  (`PromiseKept`, the refinement). `Recoverable` is not inductive: a rollback writes
  `networking.json` from what it read earlier, so one must know that this is still
  the snapshot on disk (`RollbackInv`), that nobody else writes meanwhile
  (`LockInv`), that an admitted update saw neither a transaction nor a snapshot and
  wrote its snapshot before it changed the configuration (`UpdateInv`), that a
  confirm past its checks still has its transaction (`ConfirmInv`), and that nothing
  but the boot sequence runs before the server listens (`BootInv`). `HistoryInv`
  says that a settled transaction is over. For the refinement every action is shown
  to be one abstract step or none; beyond the above it needs that an update persists
  its change while the snapshot is still what was persisted before it, and that no
  transaction is in the table beside a snapshot that cannot be read (`TrialInv`).
  `RolledBackLive` needs `LiveInv`: a rollback past its apply has applied the
  snapshot, and once it has completed no update and no transaction is left.
* `BackupScheduler_proofs`: `TypeCorrect`, `NoCatchUpProved` (`NoCatchUp`) and
  `NoDoubleFireProved` (`NoDoubleFire`). The first two come from `AttemptInv`: an
  attempt is never older than the engine's start, and a stopped engine has none.
  Only `Evaluate` adds due profiles, and an instant above the floor is above the
  start. The third is less obvious, since `retry()` forgets the attempt and the
  floor falls back to the engine's start, before runs already made: `FireInv` says
  that whenever the floor is before the last start, the instant of the refused start
  is still there to be run for.
* `FsOperation_proofs`: `TypeCorrect`, `ReservationExclusive` (`OneOwner`),
  `InterruptedOnlyWhenDead` (`InterruptedIsDead`) and `CompletionIsKept`
  (`CompletionKept`). The invariant adds that a status shown as running names its
  run (`StatusInv`), that a task has a run exactly while it holds the reservation
  (`RunInv`), and that once a poll has seen no child, a child can only belong to a
  task of this engine (`PollInv`): this is what makes the second ownership check,
  under the state lock, sufficient. `CompletionKept` needs `ResultInv` on top:
  memory, the file and every snapshot on its way to it never show the result of the
  run they show as running, nor that of a run whose task has still to record it.
* `Backup_proofs`: `TypeCorrect`, `JobsApart` (`NoOverlap`), `MarkerIsHonest`
  (`MarkerHonest`), `InitFlagIsHonest` (`InitFlagHonest`), `CoverageIsHonest`
  (`CoverageHonest`) and `NothingRevived` (`NoResurrection`). A worker exists only
  beside an unfinished entry of the registry for the same profile (`JobInv`), which
  is what `start` looks at; the marker is set only at the steps of `run_backup`
  between its two assignments (`MarkerInv`). For the two flags the invariant
  (`HonestInv`) follows what a worker read hours ago: the definition it works for is
  compared with the one in force when its result is recorded. The flags are true of
  the stored profile, of the copy a form shows and of the payload on its way to be
  saved, or the profile is in `staleSave`; and an initialisation about to be recorded
  has created its repository.
* `GuestShare_proofs`: `TypeCorrect`, `CapHolds` (`CapKept`), `RevocationIsFinal`
  (`RevokeFinal`) and `PermitsHold` (`PermitsConserved`). Between its load and its
  save the task at the head of `state_lock` has the record as it is on disk, because
  nobody else saves; so the limit checked at the registration is the limit in force
  and a save never undoes a revocation. A permit is counted against the requests at
  the steps that hold one, and a dropped request leaves that set only where its
  permit is given back. The assumption that no limit on a share exceeds `MaxCount`,
  where the counter saturates, is the code's: both are `u32`.
* `Cascade_proofs`: `TypeCorrect`, `UndoKept` (`UndoPoint`), `SwapIsQuiet`
  (`SwapQuiet`) and `EverythingBack` (`AllBack`). `UndoPoint` needs that a task past
  its safety snapshot made it while it held `lock_destination` (`SafeInv`).
  `SwapQuiet` needs that without an overlap there is one task (`OneInv`), and that,
  as long as no running VM failed to answer, what it has taken off its lists is down
  (`ExportInv`, `StoppedInv`). `AllBack` is
  the hard one, as overlapping rollbacks share what they stop: `BackInv` says that
  whatever the operator wants and is down is owed by some rollback, which has it on
  the list it will resume from; a guest that was asked to power off and may be silent
  now is still waited for by the one that asked it. An operator's call during a
  cascade needs no exception. `NobodyWedged` is the other half of `NeverWedged`: wherever a
  cascade is, its loop is over or has a member it can handle (`CanGo`), unless it has
  sent a command to a monitor that fell silent after answering a ping, or it waits
  for `lock_destination`, whose holder can go on. `WayInv`
  says who holds that lock, a rollback in its swap and no other, which also gives
  `OneSwap`: no two rollbacks are in the swap at once. That `CanGo` means there is a
  step (`CanGo(t) => ENABLED Continue(t)`) is checked by the run.
* `Update_proofs`: `TypeCorrect`, `PairIsTrue` (`PairTruth`), `UndoneOrFinished`
  (`AllOrNothing`), `GivenUpIsMarked` (`FailedRollbackSuppresses`) and
  `CommitIsHonest` (`CommitHonest`). The marker keeps the
  recovery away and the script's flags say what has been touched. `FlagInv` therefore
  ties each line of the script to the flags it runs under, and each value of the
  flags to what is on disk: nothing touched (`Before`), the marker in place, or
  everything the staged system's (`After`). `StepInv` follows the pair, the profile
  and the active system line by line, `UnitInv` and `ActInv` say whose activation is
  running, `DetachedInv` what a failed script has left for its detached rollback to
  finish, `FailInv` and `PairInv` how scripts end. `PairInv` holds of behaviours with
  no exception (`Clean`), `FlagInv` and `StepInv` also after stops and failed
  recoveries (`Steady`), since the marker protects the pair either way. Between two
  renames of a recovery outside a transaction `flake.nix` is already the active
  system's, also when an earlier recovery had failed (`Sound`), which is why a
  recovery that succeeds makes up for one that did not. That `MARKER_SET` implies the
  marker fails at one place, between the two commands that clear them: a stop there
  is the exception `window`. For `GivenUpIsMarked`, `MarkInv` adds that a rollback in
  which something failed runs with `MARKER_SET`, and that once it has ended the marker
  is there and no detached rollback is left that could remove it.
* `FsRegistry_proofs`: `TypeCorrect`, `DestructionIsExact` (`DestructionExact`),
  `MembersSpared` (`WipeSparesMembers`), `FlagsAreHonest` (`FlagHonest`) and
  `EntriesAreKept` (`EntryKept`). For the first three, only the holder of `block_mutations` puts a
  superblock on a device (`Calm`), so what a task verified under the lock stays
  verified however many mounts, unmounts and moves of disks come between (`Ready`);
  and a list that missed nothing contains every member that is plugged in
  (`ListComplete`), so only a cached or a short list can hide one from `device_wipe`.
  What destroy verified is about superblocks and not about lists, so a failing
  discovery does not weaken `DestructionExact` for it.

  The other two rest on a second invariant, `RInv`, which says what the file and the
  requests under way have to do with the mounts as long as `blame` is empty. Whatever
  is mounted is registered, or one request, and no other, is going to register it
  (`Agreed`, `OneRecorder`). Each request is `Faithful`: what it mounted is still
  mounted when it records that; what it read of the file is what the file says, but
  for its own entry; that entry will be true of its mount point, unless another
  request has yet to write it; and a request that will remove an entry knows that the
  filesystem is gone. "Gone" is the limit of `Covered(u, S)`: whatever still shows
  filesystem `u`, a member in place or a mount, is on the devices `S`. A list covers
  what it reports if it missed nothing (`ListCovers`), `destroy` takes devices off `S` as it wipes them,
  `forget_unavailable` finds `S` empty, and no other request can undo it, because
  only the holder of `block_mutations` writes a superblock and a mount needs a member
  that is plugged in (`Covered_Step`). A step of one request leaves the others
  faithful if it is `Considerate`: it neither unmounts what another is recording nor
  rewrites a file that another holds a copy of; the code's steps are, or they are to
  blame (`RInv_Compose`). TLC checked `RInv` on two instances before it was proved.

  The attempt showed that both properties failed beyond the bounds of the run, which
  TLC confirmed on larger instances: update_options and `destroy` under a short name
  could write over the entry that another filesystem had got meanwhile, with nothing
  in `blame` (`Overtaken` had spoken of unmount only); and a former member that had
  kept its superblock could be mounted alone while `destroy` was between its last
  wipe and `forget_fs`. The first is a behaviour of the code and is now one of the
  causes (section 5); the second came from a mount that bcachefs does not make, and
  the model no longer has it.

Only model-checked: liveness (`TransactionSettles`, `RequestsAnswered`, `JobsEnd`,
`NoLostRun`, `RunResolved`, `WorkEnds`), which needs fairness, and that half of
`NeverWedged` which speaks of ENABLED. Neither is in the prover's reach. Every other
property of a passing run is a theorem.

## 5. What the models say about the code beyond the properties

Two disagreements between the code and what it says of itself have a run of their own
(`findings` in `PROJECT.json`). The models also make these behaviours visible,
which no property forbids. Where a comment of the code says otherwise, it is
named.

Network, backup, scrub:

* An update over REST whose connection dies after `apply_config` and before
  `schedule_rollback` (network.rs:903) leaves an applied change with a snapshot and
  no timer. `Recoverable` still holds: the next boot reverts.
* A rollback that fails keeps its table entry with no retry (network.rs:1080), so
  further updates are refused until a restart.
* `nm_apply` takes no lifecycle lock (network.rs:1210) and can apply, after a
  rollback, a configuration it loaded before it. `RolledBackLive` excepts exactly
  this case (`rolledBack = "strayed"`).
* `update()` writes its snapshot before `persist_config`, whose validator may still
  refuse (network.rs:897-901). The snapshot then stays without a timer and every
  later update is refused (network.rs:778-787) until a restart, although nothing was
  changed; the comment at network.rs:1002-1004 knows the file only as the trace of a
  crash or of a change that was applied.
* The macvlan helpers (`main.rs:1182`) read the configuration, edit it and write it
  back with `update()`: a change made in between is lost.
* `backup.status` has one marker for all runs (lib.rs:1503, 1551): of two
  overlapping runs the first to end clears it.
* `update_profile` reads the old entry before it takes the list's lock
  (lib.rs:1216), so a result recorded in between can be replaced by an older one.
* `update_profile` trusts the `last_run` in its payload when the payload's definition
  equals the one in force. A save that was applied but reported as failed, repeated
  from the same form, therefore brings the result of the old definition back,
  although `nasty-backup/src/lib.rs:962-963` says that a successful run "only proves
  the old source/repository definition".
* A profile created or rescheduled after the engine's start has that start as its
  floor (scheduler.rs:142) and fires on the next tick if its schedule names an
  instant in between.
* `scrub_start` checks only this engine's reservations (filesystem.rs:4253), so
  after a restart a second scrub can run beside an orphan.
* `scrub_cancel` reads `running` under one lock (filesystem.rs:4369-4380) and enters
  its request under another (4382). When the scrub completes in between
  (4296-4303), the request stays behind and the next scrub of that filesystem is
  reported as cancelled, its errors included, while the comment at
  filesystem.rs:2018-2020 speaks of a running scrub's request.
* The state files of scrub and fsck are written outside the lock
  (filesystem.rs:6121): the file can end up older than memory.
* The status polls look for the mount point anywhere in a process's command line
  (filesystem.rs:4432), so a filesystem whose path is a prefix of another's counts
  the other's scrub as its own; the model has one filesystem.

Filesystems and cascades:

* `destroy` and `create` leave the mount-failure history of the name in place.
* `unmount` and `destroy` act on a list that may be out of date: an unmount can
  record "unmounted" for a filesystem that is mounted, `destroy` can miss a member
  that was added since, and `device_wipe` can take such a member.
* `save_fs_unmounted`, `save_fs_mounted_with_opts` (from update_options) and
  `forget_fs` (filesystem.rs:6032-6083) change whatever is registered under the
  name, without looking at its UUID. A mount takes no lock, so by then the entry can
  be another filesystem's, which loses its registration or its flag.
* `kill` does not wait for QEMU to exit; a swap can begin while the process is dying.
* The resume of a rollback starts every dependent app and VM, also those that did
  not run before (subvol_rollback.rs:122), although subvol_rollback.rs:4-5 speaks of
  "everything currently using it". Of the shares it re-enables only those it disabled.
* A share whose daemon fails to reload is saved as disabled and is not remembered
  by the resume, so it stays disabled.
* A VM whose QMP monitor does not greet within two seconds counts as not running:
  a rollback swaps the subvolume under the live guest, which subvol_rollback.rs:4-5
  ("must be quiesced first and resumed after") means to rule out; a poll
  takes a guest that was asked to power off for stopped, and the later start finds it
  running or its disk in use; if it powers off after that, it stays off.
* `stop` and `kill` ping first and then send a command that has no deadline
  (qmp.rs:50-120): a monitor that falls silent between the two holds the cascade until
  it goes on. `VM_SHUTDOWN_TIMEOUT` covers only the polls after `stop` has returned.
* When `blkid` or the mount table cannot be read, `list_devices` reports members as
  free and says so in the log; `device_wipe` and `device_add` then go by that, while
  filesystem.rs:3760 says of a wipe "Only allowed if the device is not currently in
  use by any filesystem", and `destroy` can miss a member.
* Two rollbacks of a subvolume overlap outside the swap: one can resume what the
  other has stopped.

Update:

* A transaction that begins after a failed rollback, under its marker, backs up the
  pair that rollback left; if it fails in turn it restores that pair and removes
  the marker.
* A stop kills a `switch_generation` script and not the recovery service its
  activation has started. A transaction that a further request starts at once can
  back up the live pair between that service's two renames of `flake.nix` and
  `flake.lock`; if it then fails, it restores a mixed pair and removes the marker.
  This takes a switch, a request that stops it and one more request.
* TERM between `rm -f "$MARKER"` and `MARKER_SET=false` (update.rs:618-619) keeps the
  rollback from making the marker again; when that rollback fails, its message
  "Recovery remains suppressed" (update.rs:501) is not true. TERM between making
  the marker and `MARKER_SET=true` (579-580) leaves a marker nobody removes, and the
  recovery stays suppressed until the next boot or update.
* A recovery that fails leaves `/etc/nixos` as it was or with one file of each pair;
  the next activation, or the next boot, runs it again.
* The rollback runs under `set +e`, and the status of `install_pair` is that of its
  last rename: a `flake.nix` that could not be restored goes unnoticed.
* A power loss between `nix-env --set` and the boot entry leaves a profile that is
  not the active system; later transactions are refused by their first `test`.
  Deleting the current generation has the same effect.
* A reboot in the middle of a transaction can boot the candidate while the profile
  names the old system.
* Two `switch_generation` requests share `/tmp/nasty-switch-generation.sh`: one unit
  can run the other's script.
* A unit that was stopped is left "failed", and the `systemd-run` of the request
  that stopped it fails with it; the status "deactivating" does not count as
  running, so a rollback in progress does not keep a request out.

Guest shares:

* A download is counted when it is registered, also when its client has left.
* The clock is read before the wait for `state_lock`, so a download may be
  registered just after the share expired.
* `StateDir::save` renames without a sync; what a power loss leaves is not modelled.

## 6. Plan

In this order:

1. `NetworkRisk`: `classify_risk` and `resolve_inherit` as operators against a
   reference definition.
2. `BlockTargets`: the state files of iSCSI and NVMe-oF against configfs, partial
   builds and the restore at boot.
3. `AppDeploy` (the deployment table, cancellation), `Sessions` (login, expiry,
   one-time challenges) and `BootFirewall` (the hold of NFS until the mounts are
   restored), as far as the code has a protocol.

Not modelled, and why:

* The share of the implementation's lines that the models stand for is small, since
  most of the engine renders configurations for other programs, parses their
  output, or serves one read-modify-write of a settings file. The models cover the
  parts in which several actors share state across awaits, restarts or reboots.
* Metrics, hardware inventory, terminal and log streams, RPC tables, WebUI pages
  other than the profile editor, and the NixOS modules other than the recovery
  service keep no state that two actors share.
* Path checks (`file_boundary.rs`, `restore.rs`), rate limiters and user files: data
  the models treat as free verdicts.
* Block images, loop devices, clones, app installation and VM creation: sequences of
  external commands in one request, planned after the above.
