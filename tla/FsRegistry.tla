----------------------------- MODULE FsRegistry -----------------------------
(***************************************************************************)
(* The filesystem registry of FilesystemService,                           *)
(* engine/nasty-storage/src/filesystem.rs: create, destroy,                *)
(* forget_unavailable, mount, unmount, update_options, list, device_wipe,  *)
(* device_add, device_remove and, at boot, restore_mounts.                 *)
(*                                                                         *)
(* A request is a task that takes one step per await that matters: waiting *)
(* for block_mutations, reading the registry and the list (from the cache  *)
(* or afresh, storing it later), each command it runs, and the three steps *)
(* of rewriting fs-state.json: read, truncate, write.  Commands may fail,  *)
(* the blkid, lsblk and /proc/mounts that discovery asks included.  The    *)
(* engine may crash and restart, the machine may reboot with its disks     *)
(* under other paths, a disk may be unplugged and plugged in again.        *)
(*                                                                         *)
(* A filesystem that is not registered goes by the first eight characters  *)
(* of its UUID; that short name is the UUID itself here.  Requests create  *)
(* filesystems on one device.  Encryption keys, usage figures, options and *)
(* device labels are left out.                                             *)
(***************************************************************************)
EXTENDS Integers, FiniteSets

CONSTANTS
    Task,        \* concurrent requests
    UserName,    \* names an operator gives
    Dev,         \* device paths
    MaxUuid,     \* bound on filesystems ever formatted
    MaxEvents,   \* bound on requests, restarts, reboots, moves of disks and failing
                 \* discoveries
    NoTask,      \* nobody holds block_mutations
    NoName       \* no mount point

Uuid == 1 .. MaxUuid
Name == UserName \cup Uuid

ASSUME FsRegistryAssumption ==
    /\ MaxUuid \in Nat \ {0} /\ MaxEvents \in Nat
    /\ NoTask \notin Task
    /\ NoName \notin Name
    /\ UserName \cap Uuid = {}

VARIABLES
    sb,          \* the superblock on each device: a UUID or 0
    member,      \* devices that are members of the filesystem on them
    present,     \* devices that are plugged in
    mnt,         \* what is mounted at /fs/<name>: a UUID or 0
    dirs,        \* the directories under /fs
    formatted,   \* filesystems formatted so far
    file,        \* fs-state.json
    cache,       \* list_cache
    lock,        \* the holder of block_mutations
    task,        \* the requests
    boot,        \* names restore_mounts has yet to handle, and NoName while it runs
    events,      \* those so far
    blame        \* what has happened so far that can mislead a request: a look that
                 \* is out of date ("stale") or saw too little ("blind"), a registry
                 \* file that is torn or overwritten ("file")

kernel == <<sb, member, present, mnt, dirs, formatted>>
vars == <<kernel, file, cache, lock, task, boot, events, blame>>

-----------------------------------------------------------------------------
Legacy == -1   \* an entry written before entries had a UUID

\* FsMountOptions: the UUID (0: no entry) and whether to mount it at boot.
Entry == [uuid : Uuid \cup {0, Legacy}, up : BOOLEAN]

NoEntry == [uuid |-> 0, up |-> FALSE]

FsState == [Name -> Entry]

EmptyState == [n \in Name |-> NoEntry]

\* Filesystem: at is its mount point, NoName when it is not mounted.
Filesystem == [name : Name, uuid : Uuid, devs : SUBSET Dev, at : Name \cup {NoName}]

NoFs == [name |-> NoName, uuid |-> 0, devs |-> {}, at |-> NoName]

Mutators == {"create", "destroy", "forget", "wipe", "add"}
Others == {"mount", "unmount", "options", "remove", "list"}

Pcs == {"wait", "plan", "reserve", "format", "probe", "get", "fill",
        "verify", "umount", "wipe", "mount", "check", "blank", "cmd", "load",
        "trunc", "write", "inval"}

Request == [op : Mutators \cup Others, pc : Pcs, name : Name \cup {NoName},
            dev : Dev \cup {NoName}, want : Uuid \cup {0}, fs : Filesystem \cup {NoFs},
            list : SUBSET Filesystem, snap : FsState, todo : SUBSET Dev]

Idle == [op |-> "none", pc |-> "idle", name |-> NoName, dev |-> NoName, want |-> 0,
         fs |-> NoFs, list |-> {}, snap |-> EmptyState, todo |-> {}]

TypeOK ==
    /\ sb \in [Dev -> Uuid \cup {0}]
    /\ member \subseteq Dev /\ present \subseteq Dev
    /\ mnt \in [Name -> Uuid \cup {0}]
    /\ dirs \subseteq Name /\ boot \subseteq Name \cup {NoName}
    /\ formatted \in 0 .. MaxUuid
    /\ file \in [ok : BOOLEAN, reg : FsState]
    /\ cache \in [full : BOOLEAN, list : SUBSET Filesystem]
    /\ lock \in Task \cup {NoTask}
    /\ task \in [Task -> Request \cup {Idle}]
    /\ \A t \in Task :
          /\ task[t].op \notin {"none", "list", "wipe"} => task[t].name \in Name
          /\ task[t].op \in {"create", "wipe", "add", "remove"} => task[t].dev \in Dev
    /\ events \in 0 .. MaxEvents
    /\ blame \subseteq {"stale", "blind", "file"}

-----------------------------------------------------------------------------
(* What the kernel and the registry file say.                                *)

Mounted(u) == \E n \in Name : mnt[n] = u

Visible(u) == Mounted(u) \/ \E d \in present : sb[d] = u

\* A mounted filesystem keeps its members open exclusively.
Held(d) == d \in member /\ sb[d] # 0 /\ Mounted(sb[d])

\* load_fs_state: a file that does not parse counts as empty.
load_fs_state == IF file.ok THEN file.reg ELSE EmptyState

\* The names a UUID may go by: one it is registered under (the first in the
\* map's arbitrary order), or its short name.
filesystem_name_for_uuid(reg, u) ==
    LET registered == {n \in Name : reg[n].uuid = u}
    IN IF registered = {} THEN {u} ELSE registered

\* The mount point names a mounted filesystem, unless that name is registered
\* for another one.
mounted_filesystem_name(reg, n, u) ==
    IF reg[n].uuid \in {0, Legacy, u} THEN {n} ELSE filesystem_name_for_uuid(reg, u)

\* A mounted filesystem that list_uncached has identified.
MountedRecords(reg, u) ==
    UNION {{[name |-> m, uuid |-> u, at |-> n, devs |-> {d \in member : sb[d] = u}]
               : m \in mounted_filesystem_name(reg, n, u)}
           : n \in {k \in Name : mnt[k] = u}}

\* discover_unmounted_bcachefs: a filesystem by those of its devices that blkid
\* has reported.
UnmountedRecords(reg, u, scan) ==
    {[name |-> m, uuid |-> u, at |-> NoName, devs |-> {d \in scan : sb[d] = u}]
        : m \in filesystem_name_for_uuid(reg, u)}

\* The lists with the mounted filesystems in known, and blkid's report scan: one
\* record per filesystem.
ListOf(reg, known, scan) ==
    LET seen == known \cup ({sb[d] : d \in scan} \ {0})
        Records(u) == IF u \in known THEN MountedRecords(reg, u)
                      ELSE UnmountedRecords(reg, u, scan)
    IN {l \in SUBSET UNION {Records(u) : u \in seen} :
           \A u \in seen : Cardinality({f \in l : f.uuid = u}) = 1}

\* A list that shows all there is.
list_complete(reg) == ListOf(reg, {u \in Uuid : Mounted(u)}, present)

\* The lists list_uncached may return: it passes over a mounted filesystem whose
\* UUID it cannot read, and a blkid that fails reports nothing.
list_uncached(reg) ==
    UNION {ListOf(reg, known, scan)
              : known \in SUBSET {u \in Uuid : Mounted(u)}, scan \in {{}, present}}

\* select_filesystem_for_mount: by UUID when one is expected, else by a name
\* that exactly one filesystem has.
select_filesystem_for_mount(list, name, want) ==
    LET byName == {f \in list : f.name = name}
    IN IF want # 0 THEN {f \in list : f.uuid = want}
       ELSE IF Cardinality(byName) = 1 THEN byName ELSE {}

InUse_MountedOnly(list, d, mounts) == mounts /\ Held(d)

\* list_devices: a device is in use as a member of a listed filesystem, or of one
\* in the mount table when that can be read.
InUse(list, d, mounts) == (\E f \in list : d \in f.devs) \/ (mounts /\ Held(d))

-----------------------------------------------------------------------------
Init ==
    /\ \E up \in BOOLEAN, d \in Dev, n \in UserName, old \in SUBSET UserName :
          /\ n \notin old
          /\ sb = [x \in Dev |-> IF x = d THEN 1 ELSE 0]
          /\ member = {d}
          /\ mnt = [x \in Name |-> IF x = n /\ up THEN 1 ELSE 0]
          /\ dirs = {n} \cup old
          /\ file = [ok |-> TRUE,
                     reg |-> [x \in Name |->
                                 CASE x = n -> [uuid |-> 1, up |-> up]
                                   [] x \in old -> [uuid |-> Legacy, up |-> TRUE]
                                   [] OTHER -> NoEntry]]
    /\ present = Dev
    /\ formatted = 1
    /\ cache = [full |-> FALSE, list |-> {}]
    /\ boot = {} /\ blame = {}
    /\ lock = NoTask
    /\ task = [t \in Task |-> Idle]
    /\ events = 0

At(t, op, pc) == task[t].op = op /\ task[t].pc = pc

Step(t, r) == task' = [task EXCEPT ![t] = r]

Goto(t, pc) == Step(t, [task[t] EXCEPT !.pc = pc])

\* A request ends; a mutator drops its guard.
Finish(t) ==
    /\ Step(t, Idle)
    /\ lock' = IF lock = t THEN NoTask ELSE lock

Blame(b) == blame' = blame \cup b

-----------------------------------------------------------------------------
(* Arrival.                                                                  *)

Start(t, op, name, dev) ==
    /\ task[t] = Idle /\ boot = {} /\ events < MaxEvents
    /\ events' = events + 1
    /\ Step(t, [Idle EXCEPT !.op = op, !.name = name, !.dev = dev,
                            !.pc = IF op \in Mutators THEN "wait" ELSE "get"])
    /\ UNCHANGED <<kernel, file, cache, lock, boot, blame>>

AcquireMutex_Always(t) ==
    /\ task[t].pc = "wait"
    /\ lock' = t
    /\ Goto(t, CASE task[t].op \in {"create", "forget"} -> "plan"
                 [] OTHER -> "get")
    /\ UNCHANGED <<kernel, file, cache, boot, events, blame>>

AcquireMutex(t) ==
    /\ task[t].pc = "wait" /\ lock = NoTask
    /\ lock' = t
    /\ Goto(t, CASE task[t].op \in {"create", "forget"} -> "plan"
                 [] OTHER -> "get")
    /\ UNCHANGED <<kernel, file, cache, boot, events, blame>>

-----------------------------------------------------------------------------
(* get and list.                                                             *)

\* device_add looks at the list a second time, for the device.
Vetting(r) == r.op = "add" /\ r.fs # NoFs

With(t, f, pc) ==
    /\ Step(t, [task[t] EXCEPT !.pc = pc, !.fs = f, !.want = 0, !.list = {}, !.todo = f.devs])
    /\ UNCHANGED lock

\* What a request does once it has the list.
Dispatch(t, list, want) ==
    LET r == task[t]
        found == select_filesystem_for_mount(list, r.name, want)
    IN \/ /\ r.op = "list"
          /\ Finish(t)
       \/ /\ r.op = "wipe"
          /\ \E mounts \in BOOLEAN :
                IF r.dev \in present /\ ~InUse(list, r.dev, mounts)
                THEN With(t, NoFs, "cmd") ELSE Finish(t)
       \/ /\ Vetting(r)
          /\ \E mounts \in BOOLEAN :
                IF InUse(list, r.dev, mounts) THEN Finish(t) ELSE With(t, r.fs, "blank")
       \/ /\ r.op = "mount" /\ found = {}
          /\ IF want = 0 THEN Finish(t) ELSE With(t, NoFs, "inval")
       \/ /\ r.op \notin {"list", "wipe", "mount"} /\ ~Vetting(r) /\ found = {}
          /\ Finish(t)
       \/ \E f \in found :
             \/ /\ r.op = "mount"
                /\ IF f.at = NoName THEN With(t, f, "verify") ELSE Finish(t)
             \/ /\ r.op = "unmount"
                /\ With(t, f, IF f.at = NoName THEN "load" ELSE "verify")
             \/ /\ r.op = "destroy"
                /\ With(t, f, "verify")
             \/ /\ r.op = "options"
                /\ IF f.at # NoName THEN With(t, f, "load") ELSE Finish(t)
             \/ /\ r.op = "remove"
                /\ IF f.at # NoName THEN With(t, f, "cmd") ELSE Finish(t)
             \/ /\ r.op = "add" /\ ~Vetting(r)
                /\ IF f.at # NoName /\ r.dev \in present THEN With(t, f, "get")
                   ELSE Finish(t)

\* The UUID the registry expects; a request about a legacy entry is refused.
Expected(t) == IF task[t].op \in {"list", "wipe"} \/ Vetting(task[t]) THEN 0
               ELSE IF task[t].want # 0 THEN task[t].want
               ELSE load_fs_state[task[t].name].uuid

GetLegacy(t) ==
    /\ task[t].pc = "get" /\ Expected(t) = Legacy
    /\ Finish(t)
    /\ UNCHANGED <<kernel, file, cache, boot, events, blame>>

\* list() answers from the cache.
GetCached(t) ==
    /\ task[t].pc = "get" /\ Expected(t) # Legacy /\ cache.full
    /\ Dispatch(t, cache.list, Expected(t))
    /\ Blame((IF cache.list \in list_complete(load_fs_state) THEN {} ELSE {"stale"})
               \cup (IF file.ok THEN {} ELSE {"file"}))
    /\ UNCHANGED <<kernel, file, cache, boot, events>>

\* Discoveries that fail are bounded.
Look(complete) ==
    IF complete THEN UNCHANGED events ELSE events < MaxEvents /\ events' = events + 1

\* list() computes a list ...
GetFresh(t) ==
    /\ task[t].pc = "get" /\ Expected(t) # Legacy /\ ~cache.full
    /\ \E l \in list_uncached(load_fs_state) :
          LET complete == l \in list_complete(load_fs_state)
          IN /\ Step(t, [task[t] EXCEPT !.pc = "fill", !.list = l, !.want = Expected(t)])
             /\ Look(complete)
             /\ Blame((IF complete THEN {} ELSE {"blind"})
                        \cup (IF file.ok THEN {} ELSE {"file"}))
    /\ UNCHANGED <<kernel, file, cache, lock, boot>>

\* ... or fails, when the mount table cannot be read.  list_devices then goes on
\* with no filesystem at all.
GetFails(t) ==
    LET r == task[t]
    IN /\ r.pc = "get" /\ Expected(t) # Legacy /\ ~cache.full
       /\ Look(FALSE)
       /\ \/ /\ r.op = "wipe" /\ r.dev \in present
             /\ With(t, NoFs, "cmd") /\ Blame({"blind"})
          \/ /\ Vetting(r)
             /\ With(t, r.fs, "blank") /\ Blame({"blind"})
          \/ /\ r.op = "wipe" => r.dev \notin present
             /\ ~Vetting(r)
             /\ Finish(t) /\ UNCHANGED blame
       /\ UNCHANGED <<kernel, file, cache, boot>>

\* ... and stores it, whatever has been invalidated meanwhile.
Fill(t) ==
    /\ task[t].pc = "fill"
    /\ cache' = [full |-> TRUE, list |-> task[t].list]
    /\ Dispatch(t, task[t].list, task[t].want)
    /\ UNCHANGED <<kernel, file, boot, events, blame>>

\* FS_LIST_CACHE_TTL passes.
CacheExpires ==
    /\ cache.full
    /\ cache' = [full |-> FALSE, list |-> {}]
    /\ UNCHANGED <<kernel, file, lock, task, boot, events, blame>>

-----------------------------------------------------------------------------
(* create.                                                                   *)

Blank(d) == d \in present /\ sb[d] = 0

\* build_create_plan: no directory of that name, blank devices, no entry.
CreatePlan(t) ==
    LET r == task[t]
    IN /\ At(t, "create", "plan")
       /\ IF r.name \notin dirs /\ Blank(r.dev) /\ load_fs_state[r.name] = NoEntry
          THEN Goto(t, "reserve") /\ UNCHANGED lock
          ELSE Finish(t)
       /\ Blame(IF file.ok THEN {} ELSE {"file"})
       /\ UNCHANGED <<kernel, file, cache, boot, events>>

\* reserve_create_mount_point, and the last look at the target before the format.
revalidate_create_targets(t) ==
    /\ At(t, "create", "reserve")
    /\ IF task[t].name \notin dirs /\ Blank(task[t].dev)
       THEN Goto(t, "format") /\ dirs' = dirs \cup {task[t].name} /\ UNCHANGED lock
       ELSE Finish(t) /\ UNCHANGED dirs
    /\ UNCHANGED <<sb, member, present, mnt, formatted, file, cache, boot, events,
                   blame>>

CreateFormat(t) ==
    LET r == task[t]
        u == formatted + 1
    IN /\ At(t, "create", "format")
       /\ \/ /\ r.dev \in present /\ formatted < MaxUuid
             /\ sb' = [sb EXCEPT ![r.dev] = u]
             /\ member' = member \cup {r.dev}
             /\ formatted' = u
             /\ Step(t, [r EXCEPT !.pc = "mount",
                                  !.fs = [name |-> r.name, uuid |-> u,
                                          devs |-> {r.dev}, at |-> NoName]])
             /\ UNCHANGED <<dirs, lock>>
          \/ /\ Finish(t) /\ dirs' = dirs \ {r.name}
             /\ UNCHANGED <<sb, member, formatted>>
       /\ UNCHANGED <<present, mnt, file, cache, boot, events, blame>>

-----------------------------------------------------------------------------
(* mount_with_opts, also the mount of a filesystem just created.             *)

OnDisk(f) == \A d \in f.devs : d \in present /\ sb[d] = f.uuid

\* The mount point is free and every device still carries the UUID.
MountVerify(t) ==
    LET r == task[t]
    IN /\ At(t, "mount", "verify")
       /\ \/ /\ mnt[r.name] = r.fs.uuid
             /\ Goto(t, "inval") /\ UNCHANGED dirs
          \/ /\ mnt[r.name] \notin {0, r.fs.uuid}
             /\ Goto(t, "inval") /\ UNCHANGED dirs
          \/ /\ mnt[r.name] = 0
             /\ dirs' = dirs \cup {r.name}
             /\ IF OnDisk(r.fs)
                THEN Goto(t, "mount")
                ELSE Goto(t, "inval")
       /\ UNCHANGED <<sb, member, present, mnt, formatted, file, cache, lock, boot,
                      events, blame>>

\* bcachefs mount takes device paths: it mounts what is on them now, if a member
\* is among them; what a former member still carries does not mount by itself.
MountCommand(t) ==
    LET r == task[t]
        now == {sb[d] : d \in r.fs.devs \cap present}
    IN /\ r.pc = "mount"
       /\ \/ /\ r.fs.devs \subseteq present /\ r.fs.devs \cap member # {}
             /\ r.name \in dirs /\ mnt[r.name] = 0
             /\ \E u \in Uuid : now = {u} /\ mnt' = [mnt EXCEPT ![r.name] = u]
             /\ Goto(t, "check") /\ UNCHANGED lock
          \/ /\ r.op = "mount"
             /\ Goto(t, "inval") /\ UNCHANGED <<mnt, lock>>
          \/ /\ r.op = "create"
             /\ Finish(t) /\ UNCHANGED mnt
       /\ UNCHANGED <<sb, member, present, dirs, formatted, file, cache, boot, events, blame>>

\* The UUID behind the mount point is read back; a wrong one, or one that cannot
\* be read, is unmounted again.
MountCheck(t) ==
    LET r == task[t]
    IN /\ r.pc = "check"
       /\ \/ /\ mnt[r.name] = r.fs.uuid
             /\ Goto(t, "load") /\ UNCHANGED <<mnt, lock, blame>>
          \/ /\ \/ mnt' = [mnt EXCEPT ![r.name] = 0] /\ UNCHANGED blame
                \/ UNCHANGED mnt /\ Blame({"file"})
             /\ IF r.op = "mount"
                THEN Goto(t, "inval") /\ UNCHANGED lock
                ELSE Finish(t)
       /\ UNCHANGED <<sb, member, present, dirs, formatted, file, cache, boot, events>>

-----------------------------------------------------------------------------
(* unmount and destroy.                                                      *)

\* verify_mountpoint_identity; destroy also looks at the devices.
UnmountVerify(t) ==
    LET r == task[t]
    IN /\ r.op \in {"unmount", "destroy"} /\ r.pc = "verify"
       /\ IF /\ r.fs.at = NoName \/ mnt[r.fs.at] = r.fs.uuid
             /\ r.op = "destroy" => OnDisk(r.fs) /\ mnt[r.name] \in {0, r.fs.uuid}
          THEN Goto(t, "umount") /\ UNCHANGED lock
          ELSE Finish(t)
       /\ UNCHANGED <<kernel, file, cache, boot, events, blame>>

\* The request has mounted its filesystem and is about to record that.
Recording(t) == task[t].op \in {"mount", "create"} /\ task[t].pc \in {"check", "load"}

\* umount; destroy also tries by UUID and needs the mount directory free.
Umount(t) ==
    LET r == task[t]
        after == IF r.fs.at = NoName THEN mnt ELSE [mnt EXCEPT ![r.fs.at] = 0]
    IN /\ r.op \in {"unmount", "destroy"} /\ r.pc = "umount"
       /\ \/ /\ r.op = "unmount" /\ mnt[r.fs.at] # 0
             /\ mnt' = after
             /\ Goto(t, "load") /\ UNCHANGED <<dirs, lock>>
          \/ /\ r.op = "destroy" /\ (r.fs.at # NoName => mnt[r.fs.at] # 0)
             /\ \/ mnt' = after
                \/ \E n \in Name : after[n] = r.fs.uuid /\ mnt' = [after EXCEPT ![n] = 0]
             /\ IF mnt'[r.name] = 0
                THEN /\ dirs' = dirs \ {r.name}
                     /\ Goto(t, "wipe") /\ UNCHANGED lock
                ELSE Finish(t) /\ UNCHANGED dirs
          \/ Finish(t) /\ UNCHANGED <<mnt, dirs>>
       /\ Blame(IF \E o \in Task : Recording(o) /\ mnt'[task[o].name] = 0
                THEN {"stale"} ELSE {})
       /\ UNCHANGED <<sb, member, present, formatted, file, cache, boot, events>>

\* wipefs on one member after another; the first failure ends the request with
\* the entry kept.
DestroyWipe(t) ==
    LET r == task[t]
    IN /\ At(t, "destroy", "wipe")
       /\ \/ \E d \in r.todo :
                /\ d \in present /\ ~Held(d)
                /\ sb' = [sb EXCEPT ![d] = 0]
                /\ member' = member \ {d}
                /\ Step(t, [r EXCEPT !.todo = @ \ {d}])
                /\ UNCHANGED lock
          \/ /\ r.todo # {} /\ Finish(t) /\ UNCHANGED <<sb, member>>
          \/ /\ r.todo = {} /\ Goto(t, "load") /\ UNCHANGED <<sb, member, lock>>
       /\ UNCHANGED <<present, mnt, dirs, formatted, file, cache, boot, events, blame>>

-----------------------------------------------------------------------------
(* Devices.                                                                  *)

\* is_device_bcachefs: a blkid that fails counts as a blank device.
AddProbe(t) ==
    LET signed == sb[task[t].dev] # 0
    IN /\ At(t, "add", "blank")
       /\ \/ signed /\ Finish(t) /\ UNCHANGED blame
          \/ /\ Goto(t, "cmd") /\ UNCHANGED lock
             /\ Blame(IF signed THEN {"blind"} ELSE {})
       /\ UNCHANGED <<kernel, file, cache, boot, events>>

DeviceCommand(t) ==
    LET r == task[t]
        d == r.dev
        on == IF r.fs.at = NoName THEN 0 ELSE mnt[r.fs.at]
    IN /\ r.pc = "cmd"
       /\ \/ /\ r.op = "wipe" /\ d \in present /\ ~Held(d)
             /\ sb' = [sb EXCEPT ![d] = 0]
             /\ member' = member \ {d}
             /\ Goto(t, "inval") /\ UNCHANGED lock
          \/ /\ r.op = "add" /\ on # 0 /\ d \in present /\ ~Held(d)
             /\ sb' = [sb EXCEPT ![d] = on]
             /\ member' = member \cup {d}
             /\ Goto(t, "inval") /\ UNCHANGED lock
          \/ /\ r.op = "remove" /\ on # 0 /\ d \in member /\ sb[d] = on
             /\ \E other \in (member \cap present) \ {d} : sb[other] = on
             /\ sb' \in {sb, [sb EXCEPT ![d] = 0]}
             /\ member' = member \ {d}
             /\ Goto(t, "inval") /\ UNCHANGED lock
          \/ Finish(t) /\ UNCHANGED <<sb, member>>
       /\ UNCHANGED <<present, mnt, dirs, formatted, file, cache, boot, events, blame>>

Unplug(d) ==
    /\ d \in present /\ events < MaxEvents
    /\ present' = present \ {d}
    /\ events' = events + 1
    /\ UNCHANGED <<sb, member, mnt, dirs, formatted, file, cache, lock, task,
                   boot, blame>>

\* The disk is plugged in again; a request under way has not seen it.
Replug(d) ==
    /\ d \notin present /\ events < MaxEvents
    /\ present' = present \cup {d}
    /\ events' = events + 1
    /\ Blame(IF \A t \in Task : task[t] = Idle THEN {} ELSE {"stale"})
    /\ UNCHANGED <<sb, member, mnt, dirs, formatted, file, cache, lock, task, boot>>

-----------------------------------------------------------------------------
(* fs-state.json is read, changed and written back, each step on its own.    *)

Updated_KeepsFlag(t, reg) ==
    LET r == task[t]
        old == reg[r.name]
    IN CASE r.op = "create" ->
                [reg EXCEPT ![r.name] = [uuid |-> r.fs.uuid, up |-> TRUE]]
         [] r.op \in {"mount", "options"} ->
                [reg EXCEPT ![r.name] = [uuid |-> r.fs.uuid,
                                         up |-> old = NoEntry \/ old.up]]
         [] r.op = "unmount" ->
                [reg EXCEPT ![r.name] = [uuid |-> r.fs.uuid, up |-> FALSE]]
         [] r.op \in {"destroy", "forget"} -> [reg EXCEPT ![r.name] = NoEntry]

\* What the request changes in the registry it read.
Updated(t, reg) ==
    LET r == task[t]
        old == reg[r.name]
    IN CASE r.op \in {"mount", "create"} ->
                [reg EXCEPT ![r.name] = [uuid |-> r.fs.uuid, up |-> TRUE]]
         [] r.op = "unmount" ->
                [reg EXCEPT ![r.name] = [uuid |-> r.fs.uuid, up |-> FALSE]]
         [] r.op = "options" ->
                [reg EXCEPT ![r.name] = [uuid |-> r.fs.uuid,
                                         up |-> old = NoEntry \/ old.up]]
         [] r.op \in {"destroy", "forget"} -> [reg EXCEPT ![r.name] = NoEntry]

\* What the request is about to record no longer holds: the entry is another
\* filesystem's by now, what it unmounted or took for unmounted is mounted, what
\* it took for mounted is not.
Overtaken(t) ==
    LET r == task[t]
    IN \/ /\ r.op \in {"unmount", "options", "destroy"}
          /\ load_fs_state[r.name].uuid \notin {0, r.fs.uuid}
       \/ r.op = "unmount" /\ Mounted(r.fs.uuid)
       \/ r.op = "options" /\ mnt[r.fs.at] # r.fs.uuid

LoadState(t) ==
    LET reg == load_fs_state
        gone == task[t].op = "destroy" /\ reg[task[t].name] = NoEntry
    IN /\ task[t].pc = "load"
       /\ IF gone THEN Goto(t, "inval")
          ELSE Step(t, [task[t] EXCEPT !.pc = "trunc", !.snap = Updated(t, reg)])
       /\ Blame((IF file.ok THEN {} ELSE {"file"})
                  \cup (IF Overtaken(t) THEN {"stale"} ELSE {}))
       /\ UNCHANGED <<kernel, file, cache, lock, boot, events>>

\* forget_unavailable reads strictly, and looks at the mount point ...
ForgetLoad(t) ==
    LET r == task[t]
    IN /\ At(t, "forget", "plan")
       /\ IF file.ok /\ file.reg[r.name].uuid \in Uuid /\ mnt[r.name] = 0
          THEN /\ Step(t, [r EXCEPT !.pc = "probe", !.want = file.reg[r.name].uuid,
                                    !.snap = Updated(t, file.reg)])
               /\ UNCHANGED lock
          ELSE Finish(t)
       /\ UNCHANGED <<kernel, file, cache, boot, events, blame>>

\* ... and probes for the UUID, once with blkid and once with lsblk: a probe that
\* fails ends the request.
ForgetProbe_Blind(t) ==
    /\ At(t, "forget", "probe")
    /\ Goto(t, "trunc") /\ UNCHANGED lock
    /\ UNCHANGED <<kernel, file, cache, boot, events, blame>>

ForgetProbe(t) ==
    /\ At(t, "forget", "probe")
    /\ \/ Finish(t)
       \/ ~Visible(task[t].want) /\ Goto(t, "trunc") /\ UNCHANGED lock
    /\ UNCHANGED <<kernel, file, cache, boot, events, blame>>

Truncate(t) ==
    /\ task[t].pc = "trunc"
    /\ Goto(t, "write")
    /\ file' = [file EXCEPT !.ok = FALSE]
    /\ UNCHANGED <<kernel, cache, lock, boot, events, blame>>

\* Another request has read the file and not yet written it back.
Stale(t) == \E o \in Task \ {t} : task[o].pc \in {"probe", "trunc", "write"}

\* A write over the contents of an overlapping one may leave its tail behind.
WriteState(t) ==
    /\ task[t].pc = "write"
    /\ \/ file' = [ok |-> TRUE, reg |-> task[t].snap]
       \/ file.ok /\ file' = [file EXCEPT !.ok = FALSE]
    /\ Goto(t, "inval")
    /\ Blame(IF Stale(t) THEN {"file"} ELSE {})
    /\ UNCHANGED <<kernel, cache, lock, boot, events>>

\* The disk is full: most callers only log it.
WriteFails(t) ==
    /\ task[t].pc = "write"
    /\ Goto(t, "inval")
    /\ Blame({"file"})
    /\ UNCHANGED <<kernel, file, cache, lock, boot, events>>

\* invalidate_list_cache.
Invalidate(t) ==
    /\ task[t].pc = "inval"
    /\ cache' = [full |-> FALSE, list |-> {}]
    /\ Finish(t)
    /\ UNCHANGED <<kernel, file, boot, events, blame>>

-----------------------------------------------------------------------------
(* Restarts.                                                                 *)

ToRestore == {n \in Name : load_fs_state[n].uuid # 0 /\ load_fs_state[n].up}

Down ==
    /\ events < MaxEvents
    /\ events' = events + 1
    /\ task' = [t \in Task |-> Idle]
    /\ lock' = NoTask
    /\ cache' = [full |-> FALSE, list |-> {}]
    /\ boot' = ToRestore \cup {NoName}
    /\ Blame(IF \A t \in Task : task[t] = Idle \/ task[t].op = "list" THEN {}
             ELSE {"file"})
    /\ UNCHANGED <<file, formatted, dirs>>

EngineRestart == Down /\ UNCHANGED <<sb, member, present, mnt>>

\* A reboot unmounts everything and may give the disks other paths.
Reboot ==
    /\ Down
    /\ mnt' = [n \in Name |-> 0]
    /\ \E p \in [Dev -> Dev] :
          /\ \A d \in Dev : \E e \in Dev : p[e] = d
          /\ sb' = [d \in Dev |-> sb[p[d]]]
          /\ member' = {d \in Dev : p[d] \in member}
          /\ present' = {d \in Dev : p[d] \in present}

\* restore_mounts takes the names one at a time, before requests are served; a
\* mount point that is already occupied is left alone.
RestoreNext(t, n) ==
    LET want == file.reg[n].uuid
    IN /\ n \in boot /\ \A o \in Task : task[o] = Idle
       /\ boot' = boot \ {n}
       /\ IF want # Legacy /\ mnt[n] = 0
          THEN Step(t, [Idle EXCEPT !.op = "mount", !.pc = "get", !.name = n,
                                    !.want = want])
          ELSE UNCHANGED task
       /\ cache' = [full |-> FALSE, list |-> {}]
       /\ UNCHANGED <<kernel, file, lock, events, blame>>

RestoreDone ==
    /\ boot = {NoName} /\ \A t \in Task : task[t] = Idle
    /\ boot' = {}
    /\ UNCHANGED <<kernel, file, cache, lock, task, events, blame>>

-----------------------------------------------------------------------------
Begin(t) ==
    \/ \E n \in UserName, d \in Dev : Start(t, "create", n, d)
    \/ \E op \in {"destroy", "forget", "mount", "unmount", "options"}, n \in Name :
          Start(t, op, n, NoName)
    \/ \E op \in {"add", "remove"}, n \in Name, d \in Dev : Start(t, op, n, d)
    \/ \E d \in Dev : Start(t, "wipe", NoName, d)
    \/ Start(t, "list", NoName, NoName)

Continue(t) ==
    \/ AcquireMutex(t) \/ GetLegacy(t) \/ GetCached(t) \/ GetFresh(t) \/ GetFails(t)
    \/ Fill(t) \/ CreatePlan(t) \/ revalidate_create_targets(t)
    \/ CreateFormat(t) \/ MountVerify(t) \/ MountCommand(t) \/ MountCheck(t)
    \/ UnmountVerify(t) \/ Umount(t) \/ DestroyWipe(t) \/ AddProbe(t) \/ DeviceCommand(t)
    \/ LoadState(t) \/ ForgetLoad(t) \/ ForgetProbe(t) \/ Truncate(t)
    \/ WriteState(t) \/ WriteFails(t) \/ Invalidate(t)

Environment ==
    \/ CacheExpires \/ EngineRestart \/ Reboot
    \/ \E d \in Dev : Unplug(d) \/ Replug(d)

Next ==
    \/ \E t \in Task : Begin(t) \/ Continue(t)
    \/ \E t \in Task, n \in Name : RestoreNext(t, n)
    \/ RestoreDone
    \/ Environment

Spec == Init /\ [][Next]_vars

-----------------------------------------------------------------------------
(* Properties.                                                               *)

Quiet == boot = {} /\ \A t \in Task : task[t] = Idle

\* A device that destroy has yet to wipe still carries the UUID destroy
\* verified, or nothing; a device that create is about to format is still blank,
\* and one that device_add is about to add unless blkid failed on it.
\* (filesystem.rs destroy, create, device_add: the check and the command are apart,
\* and only block_mutations joins them.)
DestructionExact ==
    \A t \in Task :
        /\ At(t, "destroy", "wipe") =>
               \A d \in task[t].todo : sb[d] \in {0, task[t].fs.uuid}
        /\ At(t, "create", "format") => sb[task[t].dev] = 0
        /\ At(t, "add", "cmd") => sb[task[t].dev] = 0 \/ "blind" \in blame

\* device_wipe is about to erase a member of a filesystem only when list() answered
\* from a cache that was out of date, a disk came back meanwhile, or a discovery
\* failed to see all there is: an overlapping create, add, remove, mount or unmount
\* is not enough.  (filesystem.rs device_wipe trusts list_devices, which trusts
\* list: "some devices may appear available even though they're actually in use".)
WipeSparesMembers ==
    \A t \in Task :
        At(t, "wipe", "cmd") /\ task[t].dev \in member =>
            blame \cap {"stale", "blind"} # {}

\* A filesystem with a member in place or a mount loses its entry only through a
\* torn or overwritten file, a stale or short list that hid a member from destroy,
\* a disk that came back after the request had looked, or a destroy whose name
\* another filesystem has been registered under meanwhile.
\* (filesystem.rs destroy forgets last, and forget_unavailable probes for the
\* UUID first.)
EntryKept ==
    [][\A n \in Name :
          LET u == file.reg[n].uuid
          IN /\ u \in Uuid /\ file'.reg[n] = NoEntry
             /\ Mounted(u) \/ \E d \in present \cap member : sb[d] = u
             => blame' # {}]_vars

\* The registry and the mount table agree when no request is under way: what is
\* mounted at /fs/<name> is what <name> is registered for, to be mounted at boot,
\* and what is registered as unmounted is not mounted.  They part only through
\* the causes in blame: a file read while torn, a lost update, a stale or short
\* list, a request overtaken by another, a crash inside a request, a failed write
\* or unmount.  (filesystem.rs save_fs_mounted_with_opts, save_fs_unmounted,
\* restore_mounts.)
FlagHonest ==
    Quiet /\ blame = {} =>
        \A n \in Name : mnt[n] # 0 => file.reg[n] = [uuid |-> mnt[n], up |-> TRUE]

=============================================================================
